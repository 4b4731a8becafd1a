---------------------------- MODULE ECConnection ----------------------------
(***************************************************************************)
(* One ECConnection (src/src/ECConnection.ts): the queue request() runs    *)
(* its exchanges on, the pairing of replies with pending receives, the     *)
(* authentication handshake, request timeouts, loss of the socket, close() *)
(* and reconnect().  The daemon at the other end of the current socket is  *)
(* external: it is what the code and its tests say it answers.             *)
(*                                                                         *)
(* Node runs one macrotask (a socket event, a timer) and then every        *)
(* promise continuation it led to before the next macrotask.  A            *)
(* continuation is an action of its own here, and every macrotask is       *)
(* guarded by Quiet: no continuation is pending.  Deliver alone is not: a  *)
(* packet that arrived in the same chunk is dispatched by the pump loop    *)
(* between two continuations.                                              *)
(***************************************************************************)
EXTENDS Naturals, Sequences

CONSTANTS
  Req,               \* the request() calls made on this connection
  Refused,           \* those send() refuses: read-only connection, or too large
  Pacing,            \* minRequestIntervalMs > 0
  RequireEncryption, \* the requireEncryption option
  Legacy,            \* the daemon may only speak the legacy MD5 handshake
  Notify,            \* the daemon pushes notifications on this connection
  Garbled,           \* a packet may arrive that cannot be framed or decoded
  ReconnectOpen,     \* reconnect() may be called on a connection still open
  MaxSockets         \* bound: sockets the connection goes through

(* What travels on the wire besides the requests, each standing for itself *)
(* and, on the way back, for its reply.                                    *)
AuthMessage == {"AUTH_REQ", "AUTH_PASSWD"}
AuthReply == {"AUTH_SALT", "AUTH_SALT_LEGACY", "AUTH_OK", "AUTH_UNPROVEN", "AUTH_FAIL"}
Packet == Req \union AuthReply \union {"NOTIFICATION", "GARBAGE"}

ASSUME ConnectionAssumption ==
  /\ Refused \subseteq Req
  /\ Req \intersect Nat = {}
  /\ Req \intersect (AuthMessage \union AuthReply
                     \union {"auth", "none", "error", "NOTIFICATION", "GARBAGE"}) = {}
  /\ Pacing \in BOOLEAN /\ RequireEncryption \in BOOLEAN /\ Legacy \in BOOLEAN
  /\ Notify \in BOOLEAN /\ Garbled \in BOOLEAN /\ ReconnectOpen \in BOOLEAN
  /\ MaxSockets \in Nat \ {0}

VARIABLES
  socket,           \* this.socket: which of the successive sockets it is
  closed, intentionalClose, authenticated,
  ended,            \* close() called end() on the current socket
  aeadSession,      \* an AEAD session is set
  requestQueue,     \* the promise chain: requests, and holds named by their socket
  held,             \* releaseHeldRequests: the socket whose hold is not released, or 0
  req,              \* where each request() is
  result,           \* what each request() settled with
  pendingReceives,  \* FIFO of waiters: a request, or "auth"
  auth,             \* where authenticateWithHash() is
  exposed,          \* a first authentication succeeded: callers hold the connection
  listener,         \* the once("disconnected") listener of the owner
  up, down,         \* the bytes in flight on the current socket, as packets
  daemon,           \* the daemon's side of the current socket
  notified          \* what was emitted as "notification" so far

connState == <<socket, closed, intentionalClose, authenticated, ended, aeadSession, exposed, listener>>
exchanges == <<requestQueue, held, req, result, pendingReceives, auth>>
wire == <<up, down, daemon, notified>>
connVars == <<connState, exchanges, wire>>

ReqState == {"idle", "queued", "paced", "writing", "waiting", "severed", "done"}
AuthState == {"idle", "begin", "sendReq", "waitSalt", "sendPasswd", "waitOk",
              "severed", "ok", "refused", "failed"}

TypeOK ==
  /\ socket \in Nat \ {0} /\ held \in Nat
  /\ closed \in BOOLEAN /\ intentionalClose \in BOOLEAN /\ authenticated \in BOOLEAN
  /\ ended \in BOOLEAN /\ aeadSession \in BOOLEAN /\ exposed \in BOOLEAN
  /\ requestQueue \in Seq(Req \union (Nat \ {0}))
  /\ req \in [Req -> ReqState]
  /\ result \in [Req -> Packet \union {"none", "error"}]
  /\ pendingReceives \in Seq(Req \union {"auth"})
  /\ auth \in AuthState
  /\ listener \in {"none", "armed", "fired"}
  /\ up \in Seq(Req \union AuthMessage)
  /\ down \in Seq(Packet)
  /\ daemon \in {"fresh", "salted", "authed", "refused", "dropped"}
  /\ notified \subseteq Packet

(* connect() has returned and its caller goes on to authenticateWithHash(). *)
ConnInit ==
  /\ socket = 1 /\ closed = FALSE /\ intentionalClose = FALSE
  /\ authenticated = FALSE /\ ended = FALSE /\ aeadSession = FALSE
  /\ requestQueue = <<>> /\ held = 0
  /\ req = [r \in Req |-> "idle"] /\ result = [r \in Req |-> "none"]
  /\ pendingReceives = <<>> /\ auth = "begin"
  /\ exposed = FALSE /\ listener = "none"
  /\ up = <<>> /\ down = <<>> /\ daemon = "fresh"
  /\ notified = {}

-----------------------------------------------------------------------------
(* Mutant: exchanges are not chained. *)
HeadIsAny(r) == \E i \in DOMAIN requestQueue : requestQueue[i] = r

(* The exchange at the head of the chain is the one running. *)
HeadIs(r) == requestQueue # <<>> /\ Head(requestQueue) = r

(* No promise continuation is pending: the event loop is between macrotasks. *)
Quiet ==
  /\ \A r \in Req : HeadIs(r) => req[r] # "queued"
  /\ requestQueue # <<>> => Head(requestQueue) \in Req \union {held}
  /\ \A r \in Req : req[r] # "severed"
  /\ auth \notin {"begin", "severed", "ok", "refused", "failed"}

(* The promise request() returned settles, and the chain moves on. *)
Settle(r, outcome) ==
  /\ req' = [req EXCEPT ![r] = "done"]
  /\ result' = [result EXCEPT ![r] = outcome]
  /\ requestQueue' = Tail(requestQueue)

(* The current socket is gone: rejectPending() rejects every receive(), and *)
(* a write not yet called back will be called back with an error.           *)
ChainWithoutWaiting ==
  IF \E r \in Req : HeadIs(r) /\ req[r] = "waiting" THEN Tail(requestQueue) ELSE requestQueue

RejectWaiting ==
  /\ req' = [r \in Req |-> CASE req[r] = "waiting" -> "done"
                             [] req[r] = "writing" -> "severed"
                             [] OTHER -> req[r]]
  /\ result' = [r \in Req |-> IF req[r] = "waiting" THEN "error" ELSE result[r]]
  /\ pendingReceives' = <<>>
  /\ up' = <<>>

(* What had arrived on the socket is forgotten with it. *)
RejectPending == RejectWaiting /\ down' = <<>>

AuthRejected ==
  CASE auth \in {"waitSalt", "waitOk"} -> "failed"
    [] auth \in {"sendReq", "sendPasswd"} -> "severed"
    [] OTHER -> auth

(* Mutant: "disconnected" is emitted after close() too. *)
OnCloseAlwaysEmits ==
  /\ closed' = TRUE
  /\ listener' = IF listener = "armed" THEN "fired" ELSE listener

(* onClose() and abort(): mark the connection closed once, emit            *)
(* "disconnected" unless close() caused it, destroy, reject what waits.    *)
OnClose ==
  /\ closed' = TRUE
  /\ listener' = IF listener = "armed" /\ ~intentionalClose THEN "fired" ELSE listener

Abort ==
  IF closed
  THEN UNCHANGED <<closed, listener, req, result, requestQueue, pendingReceives, up, down>>
  ELSE /\ OnClose
       /\ RejectPending
       /\ requestQueue' = ChainWithoutWaiting

-----------------------------------------------------------------------------
(* request(packet): the exchange is chained behind what is already queued. *)
Request(r) ==
  /\ exposed
  /\ req[r] = "idle"
  /\ req' = [req EXCEPT ![r] = "queued"]
  /\ requestQueue' = Append(requestQueue, r)
  /\ UNCHANGED <<connState, held, result, pendingReceives, auth, wire>>

(* A hold released by authenticateWithHash() or by a later reconnect(). *)
PassHold ==
  /\ requestQueue # <<>>
  /\ Head(requestQueue) \notin Req \union {held}
  /\ requestQueue' = Tail(requestQueue)
  /\ UNCHANGED <<connState, held, req, result, pendingReceives, auth, wire>>

(* exchange(), up to the write send() starts.  A write on a socket close()  *)
(* has ended, like one pending on a destroyed socket, is severed: it calls  *)
(* back with an error.                                                      *)
BeginExchange(r) ==
  /\ IF closed \/ r \in Refused
     THEN Settle(r, "error")
     ELSE /\ req' = [req EXCEPT ![r] = IF ended THEN "severed" ELSE "writing"]
          /\ UNCHANGED <<requestQueue, result>>
  /\ UNCHANGED <<connState, held, pendingReceives, auth, wire>>

StartExchange(r) ==
  /\ HeadIs(r) /\ req[r] = "queued"
  /\ BeginExchange(r)

(* pacedExchange() waits for what is left of minRequestIntervalMs. *)
Pace(r) ==
  /\ Pacing
  /\ HeadIs(r) /\ req[r] = "queued"
  /\ req' = [req EXCEPT ![r] = "paced"]
  /\ UNCHANGED <<connState, requestQueue, held, result, pendingReceives, auth, wire>>

PaceElapsed(r) ==
  /\ Quiet
  /\ req[r] = "paced"
  /\ BeginExchange(r)

(* The write called back: send() resolves and receive() queues a waiter. *)
WriteDone(r) ==
  /\ Quiet
  /\ req[r] = "writing"
  /\ req' = [req EXCEPT ![r] = "waiting"]
  /\ pendingReceives' = Append(pendingReceives, r)
  /\ up' = Append(up, r)
  /\ UNCHANGED <<connState, requestQueue, held, result, auth, down, daemon, notified>>

WriteFailed(r) ==
  /\ req[r] = "severed"
  /\ Settle(r, "error")
  /\ UNCHANGED <<connState, held, pendingReceives, auth, wire>>

(* Mutant: the connection stays open after a timeout. *)
TimeoutKeepsSocket(r) ==
  /\ Quiet
  /\ req[r] = "waiting"
  /\ Settle(r, "error")
  /\ pendingReceives' = Tail(pendingReceives)
  /\ UNCHANGED <<connState, held, auth, wire>>

(* The timer of an exchange fires: the answer is lost, or only late. *)
Timeout(r) ==
  /\ Quiet
  /\ req[r] \in {"writing", "waiting"}
  /\ Abort
  /\ auth' = AuthRejected
  /\ UNCHANGED <<socket, intentionalClose, authenticated, ended, aeadSession, exposed,
                 held, daemon, notified>>

AuthTimeout ==
  /\ Quiet
  /\ auth \in {"sendReq", "waitSalt", "sendPasswd", "waitOk"}
  /\ Abort
  /\ auth' = AuthRejected
  /\ UNCHANGED <<socket, intentionalClose, authenticated, ended, aeadSession, exposed,
                 held, daemon, notified>>

-----------------------------------------------------------------------------
(* The write of a handshake message, severed on an ended socket too. *)
AuthWrite(state) == IF ended THEN "severed" ELSE state

(* What the handshake makes of the reply it was waiting for. *)
AuthStep(packet) ==
  CASE auth = "waitSalt" /\ packet = "AUTH_SALT" -> AuthWrite("sendPasswd")
    [] auth = "waitSalt" /\ packet = "AUTH_SALT_LEGACY" ->
         IF RequireEncryption THEN "refused" ELSE AuthWrite("sendPasswd")
    [] auth = "waitOk" /\ packet = "AUTH_OK" -> "ok"
    [] auth = "waitOk" /\ packet = "AUTH_UNPROVEN" -> "refused"
    [] packet = "AUTH_FAIL" -> "refused"
    [] OTHER -> "failed"

(* performSRPHandshake() sets the session before it sends EC_OP_AUTH_PASSWD. *)
SessionAfter(packet) == aeadSession \/ (auth = "waitSalt" /\ packet = "AUTH_SALT")

(* pump() decodes the next packet and dispatchPacket() hands it to the     *)
(* oldest receive(), or emits it as a notification.                        *)
DeliverToRequest ==
  /\ Head(pendingReceives) \in Req
  /\ Settle(Head(pendingReceives), Head(down))
  /\ pendingReceives' = Tail(pendingReceives)
  /\ UNCHANGED <<auth, aeadSession, notified>>

DeliverToAuth ==
  /\ Head(pendingReceives) = "auth"
  /\ auth' = AuthStep(Head(down))
  /\ aeadSession' = SessionAfter(Head(down))
  /\ pendingReceives' = Tail(pendingReceives)
  /\ UNCHANGED <<req, result, requestQueue, notified>>

DeliverAsNotification ==
  /\ pendingReceives = <<>>
  /\ notified' = notified \union {Head(down)}
  /\ UNCHANGED <<req, result, requestQueue, pendingReceives, auth, aeadSession>>

Deliver ==
  /\ ~closed /\ down # <<>> /\ Head(down) # "GARBAGE"
  /\ \/ pendingReceives # <<>> /\ (DeliverToRequest \/ DeliverToAuth)
     \/ DeliverAsNotification
  /\ down' = Tail(down)
  /\ UNCHANGED <<socket, closed, intentionalClose, authenticated, ended, exposed, listener,
                 held, up, daemon>>

(* A packet that cannot be framed or decoded ends the pump loop. *)
DeliverGarbage ==
  /\ ~closed /\ down # <<>> /\ Head(down) = "GARBAGE"
  /\ Abort
  /\ auth' = AuthRejected
  /\ UNCHANGED <<socket, intentionalClose, authenticated, ended, aeadSession, exposed,
                 held, daemon, notified>>

(* The daemon has shut its end of the socket. *)
Gone == daemon \in {"refused", "dropped"}

(* The socket's "close" or "error": the daemon dropped it, or close() ended it. *)
SocketClosed ==
  /\ Quiet
  /\ ~closed /\ (Gone \/ ended)
  /\ Abort
  /\ auth' = AuthRejected
  /\ UNCHANGED <<socket, intentionalClose, authenticated, ended, aeadSession, exposed,
                 held, daemon, notified>>

(* close(): a deliberate end, after which no "disconnected" is emitted. *)
Close ==
  /\ exposed /\ ~intentionalClose
  /\ intentionalClose' = TRUE
  /\ ended' = TRUE
  /\ UNCHANGED <<socket, closed, authenticated, aeadSession, exposed, listener, exchanges, wire>>

(* once("disconnected", ...): armReconnect() registers the owner's listener. *)
Arm ==
  /\ exposed /\ listener # "armed"
  /\ listener' = "armed"
  /\ UNCHANGED <<socket, closed, intentionalClose, authenticated, ended, aeadSession, exposed,
                 exchanges, wire>>

-----------------------------------------------------------------------------
(* authenticateWithHash(): handshake() starts with the AUTH_REQ exchange. *)
Authenticate ==
  /\ auth = "begin"
  /\ auth' = IF closed THEN "failed" ELSE AuthWrite("sendReq")
  /\ UNCHANGED <<connState, requestQueue, held, req, result, pendingReceives, wire>>

AuthWriteDone ==
  /\ Quiet
  /\ \/ auth = "sendReq" /\ auth' = "waitSalt" /\ up' = Append(up, "AUTH_REQ")
     \/ auth = "sendPasswd" /\ auth' = "waitOk" /\ up' = Append(up, "AUTH_PASSWD")
  /\ pendingReceives' = Append(pendingReceives, "auth")
  /\ UNCHANGED <<connState, requestQueue, held, req, result, down, daemon, notified>>

AuthWriteFailed ==
  /\ auth = "severed"
  /\ auth' = "failed"
  /\ UNCHANGED <<connState, requestQueue, held, req, result, pendingReceives, wire>>

(* The handshake succeeded: from here on the connection may be used. *)
AuthSucceed ==
  /\ auth = "ok"
  /\ auth' = "idle"
  /\ authenticated' = TRUE
  /\ held' = 0
  /\ exposed' = TRUE
  /\ UNCHANGED <<socket, closed, intentionalClose, ended, aeadSession, listener,
                 requestQueue, req, result, pendingReceives, wire>>

(* It failed: abort(), then let the held requests fail on a closed connection. *)
HandshakeFailed ==
  /\ auth \in {"refused", "failed"}
  /\ auth' = "idle"
  /\ Abort
  /\ UNCHANGED <<socket, intentionalClose, authenticated, ended, aeadSession, exposed,
                 daemon, notified>>

(* Mutant: the hold is released on success only. *)
AuthRejectKeepsHold == HandshakeFailed /\ UNCHANGED held

AuthReject == HandshakeFailed /\ held' = 0

(* Mutants: no hold is chained; the hold of the previous reconnect() is. *)
NoHold(chain) == chain
StaleHold(chain) == Append(chain, held)

HoldBehind(chain) == Append(chain, socket + 1)

(* Mutant: authenticated outlives the socket. *)
ForgetSessionOnly == aeadSession' = FALSE /\ UNCHANGED authenticated

ForgetSession == aeadSession' = FALSE /\ authenticated' = FALSE

(* reconnect(): the new socket is connected.  It replaces this.socket, what *)
(* was pending on the previous one is rejected and that one destroyed, and  *)
(* a hold is chained until authenticateWithHash(), which the caller of      *)
(* reconnect() goes on to call.                                             *)
Reconnect ==
  /\ Quiet
  /\ exposed /\ auth = "idle"
  /\ closed \/ ReconnectOpen
  /\ socket < MaxSockets
  /\ socket' = socket + 1
  /\ RejectPending
  /\ closed' = FALSE /\ ended' = FALSE
  /\ ForgetSession
  /\ held' = socket + 1
  /\ requestQueue' = HoldBehind(ChainWithoutWaiting)
  /\ auth' = "begin"
  /\ daemon' = "fresh"
  /\ UNCHANGED <<intentionalClose, exposed, listener, notified>>

-----------------------------------------------------------------------------
(* The daemon (external).  On a connection it has not authorised, anything *)
(* but the expected step of the handshake is answered EC_OP_AUTH_FAIL and  *)
(* the connection dropped.                                                 *)
Salt == {"AUTH_SALT"} \union (IF Legacy THEN {"AUTH_SALT_LEGACY"} ELSE {})

DaemonReceive ==
  /\ ~closed /\ up # <<>>
  /\ up' = Tail(up)
  /\ LET message == Head(up) IN
     \/ /\ daemon = "fresh" /\ message = "AUTH_REQ"
        /\ daemon' = "salted"
        /\ \E salt \in Salt : down' = Append(down, salt)
     \/ /\ daemon = "salted" /\ message = "AUTH_PASSWD"
        /\ daemon' = "authed"
        /\ down' = Append(down, "AUTH_OK")
     \/ /\ daemon = "authed" /\ message \in Req
        /\ daemon' = daemon
        /\ down' = Append(down, message)
     \/ /\ \/ daemon = "fresh" /\ message # "AUTH_REQ"
           \/ daemon = "salted" /\ message # "AUTH_PASSWD"
        /\ daemon' = "dropped"
        /\ down' = Append(down, "AUTH_FAIL")
  /\ UNCHANGED <<connState, exchanges, notified>>

(* The credentials are no longer accepted, or the server cannot prove that *)
(* it knows them: its SRP proof (EC_TAG_SRP_M2) does not verify.           *)
DaemonRefuse ==
  /\ ~closed /\ daemon = "salted" /\ up # <<>> /\ Head(up) = "AUTH_PASSWD"
  /\ daemon' = "refused"
  /\ up' = Tail(up)
  /\ \E answer \in {"AUTH_FAIL"} \union (IF aeadSession THEN {"AUTH_UNPROVEN"} ELSE {}) :
       down' = Append(down, answer)
  /\ UNCHANGED <<connState, exchanges, notified>>

(* amuled restarts, or the network fails. *)
DaemonDrop ==
  /\ ~closed /\ ~Gone
  /\ daemon' = "dropped"
  /\ UNCHANGED <<connState, exchanges, up, down, notified>>

InTransit(packet) == \E i \in DOMAIN down : down[i] = packet

DaemonGarbage ==
  /\ Garbled /\ ~closed /\ ~Gone /\ ~InTransit("GARBAGE")
  /\ down' = Append(down, "GARBAGE")
  /\ UNCHANGED <<connState, exchanges, up, daemon, notified>>

DaemonPush ==
  /\ Notify /\ ~closed /\ daemon = "authed" /\ ~InTransit("NOTIFICATION")
  /\ down' = Append(down, "NOTIFICATION")
  /\ UNCHANGED <<connState, exchanges, up, daemon, notified>>

Daemon == DaemonReceive \/ DaemonRefuse \/ DaemonDrop \/ DaemonGarbage \/ DaemonPush

-----------------------------------------------------------------------------
(* The promise continuations of one request and of the handshake. *)
Continuation ==
  \/ PassHold
  \/ \E r \in Req : StartExchange(r) \/ Pace(r) \/ WriteFailed(r)
  \/ Authenticate
  \/ AuthWriteFailed

(* Timers and socket events. *)
Macrotask ==
  \/ \E r \in Req : PaceElapsed(r) \/ WriteDone(r) \/ Timeout(r)
  \/ AuthWriteDone
  \/ AuthTimeout
  \/ SocketClosed

Pump == Deliver \/ DeliverGarbage

(* What happens without the connection's owner. *)
Internal == Continuation \/ Macrotask \/ Pump \/ Daemon

ConnNext ==
  \/ Internal
  \/ \E r \in Req : Request(r)
  \/ Close
  \/ Arm
  \/ AuthSucceed
  \/ AuthReject
  \/ Reconnect

ConnSpec == ConnInit /\ [][ConnNext]_connVars

(* The event loop runs continuations, timers and socket events, and the    *)
(* pump reads what has arrived.  Neither the daemon nor the callers are    *)
(* fair.                                                                   *)
ConnFairness ==
  /\ WF_connVars(Continuation) /\ WF_connVars(AuthSucceed) /\ WF_connVars(AuthReject)
  /\ WF_connVars(Pump) /\ WF_connVars(SocketClosed)
  /\ \A r \in Req : /\ WF_connVars(PaceElapsed(r))
                    /\ WF_connVars(WriteDone(r) \/ Timeout(r))
  /\ WF_connVars(AuthWriteDone \/ AuthTimeout)

ConnFairSpec == ConnSpec /\ ConnFairness

-----------------------------------------------------------------------------
(* A request never reaches the daemon on a connection the daemon has not   *)
(* authorised: it would answer EC_OP_AUTH_FAIL and drop it, and the answer *)
(* would reach the handshake (ECConnection.ts, the comment in reconnect()).*)
AuthFirst ==
  \A i \in DOMAIN up : up[i] \in Req => daemon \notin {"fresh", "salted"}

(* EC has no request id: a request() settles with the reply to that very   *)
(* request or with an error, never with another's reply or a handshake     *)
(* packet, across timeouts, aborts and reconnections.                      *)
ReplyPairing == \A r \in Req : result[r] \in {"none", "error", r}

(* Only what the daemon pushes is emitted as a "notification": no reply is *)
(* left over for which nobody waits any more.                              *)
NoReplyLost == notified \subseteq {"NOTIFICATION"}

(* What the client takes for authorisation is the daemon's, on the socket  *)
(* in use, and encrypted when requireEncryption asks for it.               *)
AuthenticatedByDaemon ==
  authenticated /\ ~closed =>
    /\ daemon \notin {"fresh", "salted"}
    /\ RequireEncryption => aeadSession

(* A call to request() always settles: whatever is lost, late or broken,   *)
(* it does not wait behind a hold or an exchange that never ends.          *)
EveryRequestSettles == \A r \in Req : req[r] = "queued" ~> req[r] = "done"

(* The chain of request() implements the abstract promise of RequestReply. *)
(* A hold is no call: reconnect() chains it before anything else, on a     *)
(* connection closed until then (the theorem HoldComesFirst).              *)
WithoutHold(chain) ==
  IF chain # <<>> /\ Head(chain) \notin Req THEN Tail(chain) ELSE chain

Promise == INSTANCE RequestReply WITH
  Call <- Req, pending <- WithoutHold(requestQueue), outcome <- result

KeepsPromise == Promise!Spec
=============================================================================
