------------------------------ MODULE ECEngine ------------------------------
(***************************************************************************)
(* ECEngine.start() and the reconnect loop (src/src/ECEngine.ts), which    *)
(* own one ECConnection: they authenticate it, watch for "disconnected",   *)
(* and then reconnect and authenticate again, with a backoff, until one    *)
(* attempt succeeds or the daemon refuses the credentials.                 *)
(*                                                                         *)
(* The delays themselves (2 s doubled up to 30 s) are abstracted: a        *)
(* backoff only elapses.                                                   *)
(***************************************************************************)
EXTENDS ECConnection

CONSTANT CacheInit   \* altNamesCachePath is given: start() awaits the cache's init()

ASSUME EngineAssumption == CacheInit \in BOOLEAN

VARIABLE eng         \* where start(), then the reconnect loop, is

engineVars == <<connVars, eng>>

EngineState == {"starting", "cacheInit", "arming", "armed", "backoff", "connecting",
                "reauth", "stopped", "startFailed"}

EngineTypeOK == TypeOK /\ eng \in EngineState

EngineInit == ConnInit /\ eng = "starting"

-----------------------------------------------------------------------------
(* start(): the connection is exposed as soon as it has authenticated. *)
StartAuthenticated ==
  /\ eng = "starting"
  /\ AuthSucceed
  /\ eng' = IF CacheInit THEN "cacheInit" ELSE "arming"

StartFails ==
  /\ eng = "starting"
  /\ AuthReject
  /\ eng' = "startFailed"

(* AlternateNamesCache.init() reads its file and may write it back, which may fail. *)
CacheInitEnds ==
  /\ Quiet
  /\ eng = "cacheInit"
  /\ eng' \in {"arming", "startFailed"}
  /\ UNCHANGED connVars

ArmReconnect ==
  /\ eng = "arming"
  /\ Arm
  /\ eng' = "armed"

(* Mutant: the loop starts without waiting for "disconnected". *)
BackingOffEarly == eng \in {"armed", "backoff"}

(* reconnectLoop() starts synchronously in the listener. *)
BackingOff == eng = "backoff" \/ (eng = "armed" /\ listener = "fired")

BackoffElapsed ==
  /\ Quiet
  /\ BackingOff
  /\ eng' = "connecting"
  /\ UNCHANGED connVars

ConnectFails ==
  /\ Quiet
  /\ eng = "connecting"
  /\ eng' = "backoff"
  /\ UNCHANGED connVars

Connects ==
  /\ eng = "connecting"
  /\ Reconnect
  /\ eng' = "reauth"

Reauthenticated ==
  /\ eng = "reauth"
  /\ AuthSucceed
  /\ eng' = "arming"

(* Mutant: every failed attempt ends the loop. *)
AfterFailureStop(refused) == "stopped"

(* An ECAuthenticationError ends the loop; anything else is retried. *)
AfterFailure(refused) == IF refused THEN "stopped" ELSE "backoff"

ReauthFails ==
  /\ eng = "reauth"
  /\ AuthReject
  /\ eng' = AfterFailure(auth = "refused")

(* The continuation that arms the listener runs before the next macrotask. *)
EngineIdle ==
  /\ Continuation \/ Pump \/ Daemon \/ Close \/ (\E r \in Req : Request(r))
     \/ (eng # "arming" /\ Macrotask)
  /\ UNCHANGED eng

EngineNext ==
  \/ EngineIdle
  \/ StartAuthenticated \/ StartFails \/ CacheInitEnds \/ ArmReconnect
  \/ BackoffElapsed \/ ConnectFails \/ Connects
  \/ Reauthenticated \/ ReauthFails

EngineSpec == EngineInit /\ [][EngineNext]_engineVars

(* Timers and promise continuations run; the daemon, once reachable, is    *)
(* sometimes reachable at the moment an attempt is made, and answers what  *)
(* it receives.                                                            *)
EngineFairness ==
  /\ ConnFairness
  /\ WF_engineVars(StartAuthenticated) /\ WF_engineVars(StartFails)
  /\ WF_engineVars(CacheInitEnds) /\ WF_engineVars(ArmReconnect)
  /\ WF_engineVars(BackoffElapsed) /\ WF_engineVars(ConnectFails \/ Connects)
  /\ WF_engineVars(Reauthenticated) /\ WF_engineVars(ReauthFails)
  /\ SF_engineVars(Connects)

EngineFairSpec == EngineSpec /\ EngineFairness

-----------------------------------------------------------------------------
(* A connection lost without a close() is being taken care of: either the  *)
(* loop runs, or start() or a reconnection is not over yet, or the daemon  *)
(* refused the credentials (ECEngine.ts: "Survives amuled restarting       *)
(* underneath it").                                                        *)
LossNoticed ==
  closed /\ ~intentionalClose => ~(eng = "armed" /\ listener = "armed")

(* The loop gives up only when the daemon of the current socket refused    *)
(* the credentials, never for anything transient (the comment in           *)
(* reconnectLoop()).  With requireEncryption, a daemon that only offers    *)
(* the legacy handshake is refused the same way, by the client.            *)
GivesUpOnlyIfRefused ==
  eng = "stopped" /\ ~RequireEncryption => daemon = "refused"

(* reconnect() does not ask whether the connection it replaces the socket  *)
(* of is lost, and requests still queued would be written before the new   *)
(* handshake: the loop, its only caller here, calls it on a closed one.    *)
ReconnectsClosed == [][socket' # socket => closed]_engineVars

(* After close(), the engine opens no other socket (the doc of close()).   *)
CloseIsFinal == [][intentionalClose => socket' = socket]_engineVars

(* A close() on a connection being watched ends it for good: whatever      *)
(* then breaks, times out or arrives, the loop does not start.             *)
CloseEndsWatching ==
  [][intentionalClose /\ eng = "armed" /\ listener = "armed"
       => eng' = "armed" /\ listener' = "armed"]_engineVars

(* A lost connection is not given up: once start() is over or the loop     *)
(* runs, it is eventually open and watched again, unless the daemon        *)
(* refuses the credentials, close() is called or failing attempts have     *)
(* used up the sockets of the model.                                       *)
Recovers ==
  (closed /\ (listener = "fired" \/ socket > 1))
    ~> \/ ~closed /\ eng = "armed" /\ listener = "armed"
       \/ eng = "stopped" /\ daemon = "refused"
       \/ intentionalClose
       \/ socket = MaxSockets
=============================================================================
