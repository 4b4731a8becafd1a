------------------------- MODULE ECConnectionProofs -------------------------
(***************************************************************************)
(* Theorems about ECConnection, for every set of calls and every number of *)
(* sockets.                                                                *)
(***************************************************************************)
EXTENDS ECConnection, TLAPS

LEMMA SeqTail ==
  ASSUME NEW S, NEW s \in Seq(S), s # <<>>
  PROVE  Head(s) \in S /\ Tail(s) \in Seq(S)
  OBVIOUS

LEMMA SeqAppend ==
  ASSUME NEW S, NEW s \in Seq(S), NEW e \in S
  PROVE  Append(s, e) \in Seq(S)
  OBVIOUS

-----------------------------------------------------------------------------
LEMMA TypeInit == ConnInit => TypeOK
<1> SUFFICES ASSUME ConnInit PROVE TypeOK
  OBVIOUS
<1>1. /\ socket \in Nat \ {0} /\ held \in Nat
      /\ requestQueue \in Seq(Req \union (Nat \ {0}))
      /\ pendingReceives \in Seq(Req \union {"auth"})
      /\ up \in Seq(Req \union AuthMessage)
      /\ down \in Seq(Packet)
  BY DEF ConnInit
<1>2. /\ req \in [Req -> ReqState]
      /\ result \in [Req -> Packet \union {"none", "error"}]
  BY DEF ConnInit, ReqState
<1> QED
  BY <1>1, <1>2, Zenon DEF ConnInit, TypeOK, AuthState

(* The settlement of the exchange at the head of the chain. *)
LEMMA SettleType ==
  ASSUME TypeOK, NEW r \in Req, NEW o \in Packet \union {"none", "error"},
         requestQueue # <<>>, Settle(r, o)
  PROVE  /\ req' \in [Req -> ReqState]
         /\ result' \in [Req -> Packet \union {"none", "error"}]
         /\ requestQueue' \in Seq(Req \union (Nat \ {0}))
  BY SeqTail DEF TypeOK, Settle, ReqState

LEMMA ChainType ==
  ASSUME TypeOK
  PROVE  ChainWithoutWaiting \in Seq(Req \union (Nat \ {0}))
<1> DEFINE Link == Req \union (Nat \ {0})
<1>1. requestQueue \in Seq(Link)
  BY DEF TypeOK
<1> HIDE DEF Link
<1>2. requestQueue # <<>> => Tail(requestQueue) \in Seq(Link)
  BY <1>1, SeqTail
<1>3. ChainWithoutWaiting \in Seq(Link)
  BY <1>1, <1>2 DEF ChainWithoutWaiting, HeadIs
<1> QED
  BY <1>3 DEF Link

LEMMA AbortType ==
  ASSUME TypeOK, Abort
  PROVE  /\ closed' \in BOOLEAN
         /\ listener' \in {"none", "armed", "fired"}
         /\ req' \in [Req -> ReqState]
         /\ result' \in [Req -> Packet \union {"none", "error"}]
         /\ requestQueue' \in Seq(Req \union (Nat \ {0}))
         /\ pendingReceives' \in Seq(Req \union {"auth"})
         /\ up' \in Seq(Req \union AuthMessage)
         /\ down' \in Seq(Packet)
<1>1. CASE closed
  BY <1>1 DEF Abort, TypeOK
<1>2. CASE ~closed
  <2>1. requestQueue' \in Seq(Req \union (Nat \ {0}))
    BY <1>2, ChainType DEF Abort
  <2>2. /\ req' \in [Req -> ReqState]
        /\ result' \in [Req -> Packet \union {"none", "error"}]
    BY <1>2 DEF Abort, RejectPending, RejectWaiting, TypeOK, ReqState
  <2>3. closed' \in BOOLEAN /\ listener' \in {"none", "armed", "fired"}
    BY <1>2 DEF Abort, OnClose, TypeOK
  <2>4. /\ pendingReceives' \in Seq(Req \union {"auth"})
        /\ up' \in Seq(Req \union AuthMessage)
        /\ down' \in Seq(Packet)
    BY <1>2 DEF Abort, RejectPending, RejectWaiting
  <2> QED
    BY <2>1, <2>2, <2>3, <2>4
<1> QED
  BY <1>1, <1>2

(* TypeOK alone is not inductive: that a chain from which an exchange is   *)
(* removed is not empty follows from the discipline of the chain.          *)
Active == {"paced", "writing", "waiting", "severed"}

ActiveIsHead == \A r \in Req : req[r] \in Active => HeadIs(r)

OneWaiter ==
  \A i \in DOMAIN pendingReceives : pendingReceives[i] \in Req =>
    /\ req[pendingReceives[i]] = "waiting"
    /\ \A j \in DOMAIN pendingReceives : pendingReceives[j] \in Req => j = i

ChainInv == TypeOK /\ ActiveIsHead /\ OneWaiter

(* At most one member per call, and only calls not settled. *)
Members ==
  \A i \in DOMAIN requestQueue : requestQueue[i] \in Req =>
    /\ req[requestQueue[i]] \notin {"idle", "done"}
    /\ \A j \in DOMAIN requestQueue : requestQueue[j] = requestQueue[i] => j = i

(* What protects a socket on which the handshake is not over: the chain    *)
(* starts with the hold of that very socket.                               *)
HoldFirst ==
  /\ ~exposed => requestQueue = <<>>
  /\ exposed /\ ~closed /\ ~authenticated =>
       held # 0 /\ requestQueue # <<>> /\ Head(requestQueue) = held
  /\ auth = "idle" => held = 0

(* Nothing is in flight on a closed connection, and requests only on an    *)
(* authenticated one.                                                      *)
Handshaking == {"sendReq", "waitSalt", "sendPasswd", "waitOk"}

InFlight ==
  /\ \A r \in Req : req[r] \in {"writing", "waiting"} => ~closed /\ authenticated
  /\ closed => up = <<>> /\ down = <<>> /\ auth \notin Handshaking
  /\ \A i \in DOMAIN up : up[i] \in Req => authenticated

Authorised ==
  ~closed /\ (authenticated \/ auth = "ok" \/ InTransit("AUTH_OK")) => daemon \notin {"fresh", "salted"}

NotPaced == \A r \in Req : req[r] # "paced"

AuthInv == ChainInv /\ Members /\ HoldFirst /\ InFlight /\ Authorised /\ NotPaced

-----------------------------------------------------------------------------
LEMMA BeginType ==
  ASSUME TypeOK, NEW r \in Req, requestQueue # <<>>, BeginExchange(r)
  PROVE  TypeOK'
<1>1. CASE closed \/ r \in Refused
  <2>1. Settle(r, "error")
    BY <1>1 DEF BeginExchange
  <2>2. /\ req' \in [Req -> ReqState]
        /\ result' \in [Req -> Packet \union {"none", "error"}]
        /\ requestQueue' \in Seq(Req \union (Nat \ {0}))
    BY <2>1, SettleType
  <2> QED
    BY <2>2 DEF BeginExchange, TypeOK, connState, wire
<1>2. CASE ~(closed \/ r \in Refused)
  BY <1>2 DEF BeginExchange, TypeOK, ReqState, connState, wire
<1> QED
  BY <1>1, <1>2

(* The steps of the calls made by the owner, and of the promise chain. *)
LEMMA ContinuationType == ChainInv /\ Continuation => TypeOK'
<1> SUFFICES ASSUME ChainInv, Continuation PROVE TypeOK'
  OBVIOUS
<1> USE DEF connState, exchanges, wire, ChainInv
<1>1. CASE PassHold
  <2>1. requestQueue' \in Seq(Req \union (Nat \ {0}))
    BY <1>1, SeqTail DEF PassHold, TypeOK
  <2> QED
    BY <1>1, <2>1 DEF PassHold, TypeOK
<1>2. ASSUME NEW r \in Req, StartExchange(r) PROVE TypeOK'
  BY <1>2, BeginType DEF StartExchange, HeadIs
<1>3. ASSUME NEW r \in Req, Pace(r) PROVE TypeOK'
  BY <1>3 DEF Pace, TypeOK, ReqState
<1>4. ASSUME NEW r \in Req, WriteFailed(r) PROVE TypeOK'
  <2>1. requestQueue # <<>> /\ Settle(r, "error")
    BY <1>4 DEF WriteFailed, ActiveIsHead, Active, HeadIs
  <2>2. /\ req' \in [Req -> ReqState]
        /\ result' \in [Req -> Packet \union {"none", "error"}]
        /\ requestQueue' \in Seq(Req \union (Nat \ {0}))
    BY <2>1, SettleType
  <2> QED
    BY <1>4, <2>2 DEF WriteFailed, TypeOK
<1>5. CASE Authenticate
  BY <1>5 DEF Authenticate, AuthWrite, TypeOK, AuthState
<1>6. CASE AuthWriteFailed
  BY <1>6 DEF AuthWriteFailed, TypeOK, AuthState
<1> QED
  BY <1>1, <1>2, <1>3, <1>4, <1>5, <1>6 DEF Continuation

LEMMA AuthRejectedType == TypeOK => AuthRejected \in AuthState
  BY DEF TypeOK, AuthRejected, AuthState

LEMMA MacrotaskType == ChainInv /\ Macrotask => TypeOK'
<1> SUFFICES ASSUME ChainInv, Macrotask PROVE TypeOK'
  OBVIOUS
<1> USE DEF connState, exchanges, wire, ChainInv
<1>1. ASSUME NEW r \in Req, PaceElapsed(r) PROVE TypeOK'
  BY <1>1, BeginType DEF PaceElapsed, ActiveIsHead, Active, HeadIs
<1>2. ASSUME NEW r \in Req, WriteDone(r) PROVE TypeOK'
  <2>1. pendingReceives' \in Seq(Req \union {"auth"})
    BY <1>2, SeqAppend DEF WriteDone, TypeOK
  <2>2. up' \in Seq(Req \union AuthMessage)
    BY <1>2, SeqAppend DEF WriteDone, TypeOK
  <2> QED
    BY <1>2, <2>1, <2>2 DEF WriteDone, TypeOK, ReqState
<1>3. ASSUME NEW r \in Req, Timeout(r) PROVE TypeOK'
  BY <1>3, AbortType, AuthRejectedType DEF Timeout, TypeOK
<1>4. CASE AuthWriteDone
  <2>1. pendingReceives' \in Seq(Req \union {"auth"})
    BY <1>4, SeqAppend DEF AuthWriteDone, TypeOK
  <2>2. \E m \in AuthMessage : up' = Append(up, m)
    BY <1>4 DEF AuthWriteDone, AuthMessage
  <2>3. up' \in Seq(Req \union AuthMessage)
    BY <2>2, SeqAppend DEF TypeOK
  <2>4. auth' \in AuthState
    BY <1>4 DEF AuthWriteDone, AuthState
  <2> QED
    BY <1>4, <2>1, <2>3, <2>4 DEF AuthWriteDone, TypeOK
<1>5. CASE AuthTimeout
  BY <1>5, AbortType, AuthRejectedType DEF AuthTimeout, TypeOK
<1>6. CASE SocketClosed
  BY <1>6, AbortType, AuthRejectedType DEF SocketClosed, TypeOK
<1> QED
  BY <1>1, <1>2, <1>3, <1>4, <1>5, <1>6 DEF Macrotask

LEMMA PumpType == ChainInv /\ Pump => TypeOK'
<1> SUFFICES ASSUME ChainInv, Pump PROVE TypeOK'
  OBVIOUS
<1> USE DEF connState, exchanges, wire, ChainInv
<1>1. CASE Deliver
  <2>1. Head(down) \in Packet /\ down' \in Seq(Packet)
    BY <1>1, SeqTail DEF Deliver, TypeOK
  <2>2. CASE pendingReceives # <<>> /\ DeliverToRequest
    <3> DEFINE r == Head(pendingReceives)
    <3>1. pendingReceives' \in Seq(Req \union {"auth"})
      BY <2>2, SeqTail DEF DeliverToRequest, TypeOK
    <3>2. r \in Req /\ Settle(r, Head(down)) /\ requestQueue # <<>>
      BY <2>2 DEF DeliverToRequest, TypeOK, OneWaiter, ActiveIsHead, Active, HeadIs
    <3>3. /\ req' \in [Req -> ReqState]
          /\ result' \in [Req -> Packet \union {"none", "error"}]
          /\ requestQueue' \in Seq(Req \union (Nat \ {0}))
      BY <2>1, <3>2, SettleType
    <3> QED
      BY <1>1, <2>1, <2>2, <3>1, <3>3 DEF Deliver, DeliverToRequest, TypeOK
  <2>3. CASE pendingReceives # <<>> /\ DeliverToAuth
    <3>1. pendingReceives' \in Seq(Req \union {"auth"})
      BY <2>3, SeqTail DEF DeliverToAuth, TypeOK
    <3>2. auth' \in AuthState /\ aeadSession' \in BOOLEAN
      BY <2>3 DEF DeliverToAuth, AuthStep, AuthWrite, SessionAfter, TypeOK, AuthState
    <3> QED
      BY <1>1, <2>1, <2>3, <3>1, <3>2 DEF Deliver, DeliverToAuth, TypeOK
  <2>4. CASE DeliverAsNotification
    BY <1>1, <2>1, <2>4 DEF Deliver, DeliverAsNotification, TypeOK
  <2> QED
    BY <1>1, <2>2, <2>3, <2>4 DEF Deliver
<1>2. CASE DeliverGarbage
  BY <1>2, AbortType, AuthRejectedType DEF DeliverGarbage, TypeOK
<1> QED
  BY <1>1, <1>2 DEF Pump

LEMMA DaemonType == TypeOK /\ Daemon => TypeOK'
<1> SUFFICES ASSUME TypeOK, Daemon PROVE TypeOK'
  OBVIOUS
<1> USE DEF connState, exchanges
<1>1. CASE DaemonReceive
  <2>1. up' \in Seq(Req \union AuthMessage)
    BY <1>1, SeqTail DEF DaemonReceive, TypeOK
  <2>2. \E p \in Packet : down' = Append(down, p)
    BY <1>1 DEF DaemonReceive, Salt, Packet, AuthReply
  <2>3. down' \in Seq(Packet)
    BY <2>2, SeqAppend DEF TypeOK
  <2>4. daemon' \in {"fresh", "salted", "authed", "refused", "dropped"}
    BY <1>1 DEF DaemonReceive, TypeOK
  <2> QED
    BY <1>1, <2>1, <2>3, <2>4 DEF DaemonReceive, TypeOK
<1>2. CASE DaemonRefuse
  <2>1. up' \in Seq(Req \union AuthMessage)
    BY <1>2, SeqTail DEF DaemonRefuse, TypeOK
  <2>2. \E p \in Packet : down' = Append(down, p)
    BY <1>2 DEF DaemonRefuse, Packet, AuthReply
  <2>3. down' \in Seq(Packet)
    BY <2>2, SeqAppend DEF TypeOK
  <2> QED
    BY <1>2, <2>1, <2>3 DEF DaemonRefuse, TypeOK
<1>3. CASE DaemonDrop
  BY <1>3 DEF DaemonDrop, TypeOK
<1>4. CASE DaemonGarbage
  <2>1. down' \in Seq(Packet)
    BY <1>4, SeqAppend DEF DaemonGarbage, TypeOK, Packet
  <2> QED
    BY <1>4, <2>1 DEF DaemonGarbage, TypeOK
<1>5. CASE DaemonPush
  <2>1. down' \in Seq(Packet)
    BY <1>5, SeqAppend DEF DaemonPush, TypeOK, Packet
  <2> QED
    BY <1>5, <2>1 DEF DaemonPush, TypeOK
<1> QED
  BY <1>1, <1>2, <1>3, <1>4, <1>5 DEF Daemon

LEMMA TypeStep == ChainInv /\ [ConnNext]_connVars => TypeOK'
<1> SUFFICES ASSUME ChainInv, [ConnNext]_connVars PROVE TypeOK'
  OBVIOUS
<1> USE DEF connState, exchanges, wire, ChainInv
<1>1. CASE Internal
  BY <1>1, ContinuationType, MacrotaskType, PumpType, DaemonType DEF Internal
<1>2. ASSUME NEW r \in Req, Request(r) PROVE TypeOK'
  <2>1. requestQueue' \in Seq(Req \union (Nat \ {0}))
    BY <1>2, SeqAppend DEF Request, TypeOK
  <2> QED
    BY <1>2, <2>1 DEF Request, TypeOK, ReqState
<1>3. CASE Close
  BY <1>3 DEF Close, TypeOK
<1>4. CASE Arm
  BY <1>4 DEF Arm, TypeOK
<1>5. CASE AuthSucceed
  BY <1>5 DEF AuthSucceed, TypeOK, AuthState
<1>6. CASE AuthReject
  BY <1>6, AbortType DEF AuthReject, HandshakeFailed, TypeOK, AuthState
<1>7. CASE Reconnect
  <2>1. socket' \in Nat \ {0} /\ held' \in Nat /\ socket + 1 \in Req \union (Nat \ {0})
    BY <1>7 DEF Reconnect, TypeOK
  <2>2. requestQueue' \in Seq(Req \union (Nat \ {0}))
    BY <1>7, <2>1, ChainType, SeqAppend DEF Reconnect, HoldBehind
  <2>3. /\ req' \in [Req -> ReqState]
        /\ result' \in [Req -> Packet \union {"none", "error"}]
    BY <1>7 DEF Reconnect, RejectPending, RejectWaiting, TypeOK, ReqState
  <2>4. /\ pendingReceives' \in Seq(Req \union {"auth"})
        /\ up' \in Seq(Req \union AuthMessage)
        /\ down' \in Seq(Packet)
    BY <1>7 DEF Reconnect, RejectPending, RejectWaiting
  <2> QED
    BY <1>7, <2>1, <2>2, <2>3, <2>4 DEF Reconnect, ForgetSession, TypeOK, AuthState
<1>8. CASE UNCHANGED connVars
  BY <1>8 DEF connVars, TypeOK
<1> QED
  BY <1>1, <1>2, <1>3, <1>4, <1>5, <1>6, <1>7, <1>8 DEF ConnNext

-----------------------------------------------------------------------------
(* One exchange at a time, and one waiter for it.  Each action either      *)
(* leaves the active exchange alone, makes the head of the chain active,   *)
(* or ends the active one and removes it from the chain.                   *)
LEMMA SettleChain ==
  ASSUME TypeOK, ActiveIsHead, NEW r \in Req, HeadIs(r), NEW o, Settle(r, o)
  PROVE  \A q \in Req : req'[q] \notin Active
<1> SUFFICES ASSUME NEW q \in Req PROVE req'[q] \notin Active
  OBVIOUS
<1>1. CASE q = r
  BY <1>1 DEF Settle, TypeOK, Active
<1>2. CASE q # r
  BY <1>2 DEF Settle, TypeOK, ActiveIsHead, HeadIs
<1> QED
  BY <1>1, <1>2

LEMMA RejectChain ==
  ASSUME TypeOK, ActiveIsHead, RejectWaiting
  PROVE  \A q \in Req : req'[q] \in Active => req'[q] # "waiting" /\ req[q] \in Active /\ req[q] # "waiting"
  BY DEF RejectWaiting, TypeOK, Active

LEMMA ChainKeepsHead ==
  ASSUME TypeOK, ActiveIsHead, NEW q \in Req, req[q] \in Active, req[q] # "waiting"
  PROVE  ChainWithoutWaiting = requestQueue /\ HeadIs(q)
  BY DEF ChainWithoutWaiting, ActiveIsHead, HeadIs

LEMMA AbortChain ==
  ASSUME TypeOK, ActiveIsHead, OneWaiter, Abort
  PROVE  ActiveIsHead' /\ OneWaiter'
<1>1. CASE closed
  BY <1>1 DEF Abort, ActiveIsHead, OneWaiter, HeadIs
<1>2. CASE ~closed
  <2>1. RejectWaiting /\ requestQueue' = ChainWithoutWaiting /\ pendingReceives' = <<>>
    BY <1>2 DEF Abort, RejectPending, RejectWaiting
  <2>2. ActiveIsHead'
    BY <2>1, RejectChain, ChainKeepsHead DEF ActiveIsHead, HeadIs
  <2> QED
    BY <2>1, <2>2 DEF OneWaiter
<1> QED
  BY <1>1, <1>2

LEMMA NoWaiterIfNoneWaiting ==
  ASSUME OneWaiter, \A q \in Req : req[q] # "waiting"
  PROVE  \A i \in DOMAIN pendingReceives : pendingReceives[i] \notin Req
  BY DEF OneWaiter

LEMMA BeginChain ==
  ASSUME ChainInv, NEW r \in Req, HeadIs(r), req[r] # "waiting", BeginExchange(r)
  PROVE  ActiveIsHead' /\ OneWaiter'
<1> USE DEF ChainInv
<1>1. \A q \in Req : q # r => req[q] \notin Active /\ req'[q] = req[q]
  BY DEF ActiveIsHead, HeadIs, BeginExchange, Settle, TypeOK
<1>2. \A q \in Req : req[q] # "waiting"
  BY <1>1 DEF Active
<1>3. OneWaiter'
  BY <1>2 DEF OneWaiter, BeginExchange, exchanges
<1>4. ActiveIsHead'
  BY <1>1, SettleChain DEF ActiveIsHead, BeginExchange, HeadIs
<1> QED
  BY <1>3, <1>4

LEMMA ChainStep == ChainInv /\ [ConnNext]_connVars => ActiveIsHead' /\ OneWaiter'
<1> SUFFICES ASSUME ChainInv, [ConnNext]_connVars PROVE ActiveIsHead' /\ OneWaiter'
  OBVIOUS
<1> USE DEF ChainInv, connState, exchanges, wire
<1>1. CASE PassHold
  <2>1. \A q \in Req : req[q] \notin Active
    BY <1>1 DEF PassHold, ActiveIsHead, HeadIs
  <2> QED
    BY <1>1, <2>1 DEF PassHold, ActiveIsHead, OneWaiter
<1>2. ASSUME NEW r \in Req, StartExchange(r) PROVE ActiveIsHead' /\ OneWaiter'
  BY <1>2, BeginChain DEF StartExchange
<1>3. ASSUME NEW r \in Req, Pace(r) PROVE ActiveIsHead' /\ OneWaiter'
  <2>1. \A q \in Req : q # r => req[q] \notin Active /\ req'[q] = req[q]
    BY <1>3 DEF Pace, ActiveIsHead, HeadIs, TypeOK
  <2>2. \A q \in Req : req[q] # "waiting"
    BY <1>3, <2>1 DEF Pace, Active
  <2> QED
    BY <1>3, <2>1, <2>2 DEF Pace, ActiveIsHead, OneWaiter, HeadIs
<1>4. ASSUME NEW r \in Req, WriteFailed(r) PROVE ActiveIsHead' /\ OneWaiter'
  <2>1. HeadIs(r) /\ Settle(r, "error")
    BY <1>4 DEF WriteFailed, ActiveIsHead, Active
  <2>2. \A q \in Req : req[q] # "waiting"
    BY <1>4, <2>1 DEF WriteFailed, ActiveIsHead, Active, HeadIs
  <2>3. ActiveIsHead'
    BY <2>1, SettleChain DEF ActiveIsHead
  <2> QED
    BY <1>4, <2>2, <2>3 DEF WriteFailed, OneWaiter
<1>5. CASE Authenticate \/ AuthWriteFailed \/ Close \/ Arm \/ AuthSucceed \/ Daemon
  BY <1>5 DEF Authenticate, AuthWriteFailed, Close, Arm, AuthSucceed, ActiveIsHead, OneWaiter, HeadIs,
       Daemon, DaemonReceive, DaemonRefuse, DaemonDrop, DaemonGarbage, DaemonPush
<1>6. ASSUME NEW r \in Req, PaceElapsed(r) PROVE ActiveIsHead' /\ OneWaiter'
  BY <1>6, BeginChain DEF PaceElapsed, ActiveIsHead, Active
<1>7. ASSUME NEW r \in Req, WriteDone(r) PROVE ActiveIsHead' /\ OneWaiter'
  <2>1. HeadIs(r) /\ \A q \in Req : q # r => req[q] \notin Active /\ req'[q] = req[q]
    BY <1>7 DEF WriteDone, ActiveIsHead, Active, HeadIs, TypeOK
  <2>2. \A q \in Req : req[q] # "waiting"
    BY <1>7, <2>1 DEF WriteDone, Active
  <2>3. \A i \in DOMAIN pendingReceives : pendingReceives[i] \notin Req
    BY <2>2, NoWaiterIfNoneWaiting
  <2>4. OneWaiter'
    BY <1>7, <2>3 DEF WriteDone, OneWaiter, TypeOK
  <2> QED
    BY <1>7, <2>1, <2>4 DEF WriteDone, ActiveIsHead, HeadIs
<1>8. CASE (\E r \in Req : Timeout(r)) \/ AuthTimeout \/ SocketClosed \/ DeliverGarbage \/ AuthReject
  BY <1>8, AbortChain DEF Timeout, AuthTimeout, SocketClosed, DeliverGarbage, AuthReject, HandshakeFailed
<1>9. CASE AuthWriteDone
  <2>1. ActiveIsHead'
    BY <1>9 DEF AuthWriteDone, ActiveIsHead, HeadIs
  <2>2. OneWaiter'
    BY <1>9, ConnectionAssumption DEF AuthWriteDone, OneWaiter, TypeOK
  <2> QED
    BY <2>1, <2>2
<1>10. CASE Deliver
  <2>1. CASE pendingReceives # <<>> /\ DeliverToRequest
    <3> DEFINE r == Head(pendingReceives)
    <3>1. r \in Req /\ req[r] = "waiting" /\ Settle(r, Head(down))
      BY <2>1 DEF DeliverToRequest, OneWaiter, TypeOK
    <3>2. HeadIs(r)
      BY <3>1 DEF ActiveIsHead, Active
    <3>3. ActiveIsHead'
      BY <3>1, <3>2, SettleChain DEF ActiveIsHead
    <3>4. \A i \in DOMAIN Tail(pendingReceives) : Tail(pendingReceives)[i] \notin Req
      BY <2>1, <3>1 DEF OneWaiter, TypeOK
    <3> QED
      BY <2>1, <3>3, <3>4 DEF DeliverToRequest, OneWaiter
  <2>2. CASE pendingReceives # <<>> /\ DeliverToAuth
    <3>1. OneWaiter'
      BY <2>2 DEF DeliverToAuth, OneWaiter, TypeOK
    <3> QED
      BY <1>10, <2>2, <3>1 DEF Deliver, DeliverToAuth, ActiveIsHead, HeadIs
  <2>3. CASE DeliverAsNotification
    BY <1>10, <2>3 DEF Deliver, DeliverAsNotification, ActiveIsHead, OneWaiter, HeadIs
  <2> QED
    BY <1>10, <2>1, <2>2, <2>3 DEF Deliver
<1>11. ASSUME NEW r \in Req, Request(r) PROVE ActiveIsHead' /\ OneWaiter'
  <2>1. \A q \in Req : req'[q] \in Active => req[q] \in Active /\ HeadIs(q)
    BY <1>11 DEF Request, ActiveIsHead, Active, TypeOK
  <2>2. \A q \in Req : HeadIs(q) => HeadIs(q)'
    BY <1>11, SMTT(20) DEF Request, HeadIs, TypeOK
  <2>3. \A q \in Req : req[q] = "waiting" => req'[q] = "waiting"
    BY <1>11 DEF Request, TypeOK
  <2> QED
    BY <1>11, <2>1, <2>2, <2>3 DEF Request, ActiveIsHead, OneWaiter
<1>12. CASE Reconnect
  <2>1. RejectWaiting /\ requestQueue' = Append(ChainWithoutWaiting, socket + 1) /\ pendingReceives' = <<>>
    BY <1>12 DEF Reconnect, RejectPending, RejectWaiting, HoldBehind
  <2>2. ASSUME NEW q \in Req, req'[q] \in Active PROVE HeadIs(q)'
    <3>1. ChainWithoutWaiting = requestQueue /\ HeadIs(q)
      BY <2>1, <2>2, RejectChain, ChainKeepsHead
    <3> QED
      BY <2>1, <3>1, SMTT(20) DEF HeadIs, TypeOK
  <2> QED
    BY <2>1, <2>2 DEF ActiveIsHead, OneWaiter
<1>13. CASE UNCHANGED connVars
  BY <1>13 DEF connVars, ActiveIsHead, OneWaiter, HeadIs
<1> QED
  BY <1>1, <1>2, <1>3, <1>4, <1>5, <1>6, <1>7, <1>8, <1>9, <1>10, <1>11, <1>12, <1>13
  DEF ConnNext, Internal, Continuation, Macrotask, Pump

(* The types, and the discipline of the chain: exchanges run one at a time, *)
(* each at the head of the chain, each with at most one pending receive().  *)
THEOREM OneExchangeAtATime == ConnSpec => []ChainInv
<1>1. ConnInit => ChainInv
  BY TypeInit DEF ConnInit, ChainInv, ActiveIsHead, OneWaiter, Active
<1>2. ChainInv /\ [ConnNext]_connVars => ChainInv'
  BY TypeStep, ChainStep DEF ChainInv
<1> QED
  BY <1>1, <1>2, PTL DEF ConnSpec

(* The type invariant the runs check. *)
THEOREM TypeCorrect == ConnSpec => []TypeOK
<1>1. ChainInv => TypeOK
  BY DEF ChainInv
<1> QED
  BY <1>1, OneExchangeAtATime, PTL

-----------------------------------------------------------------------------
(* Without pacing, and with reconnect() called on closed connections only. *)

(* A request at the head of the chain of an open connection: no hold is in *)
(* front of it, so the handshake is over.                                  *)
LEMMA HeadMeansAuthenticated ==
  ASSUME AuthInv, NEW r \in Req, HeadIs(r), ~closed
  PROVE  authenticated
  BY ConnectionAssumption DEF AuthInv, ChainInv, TypeOK, HoldFirst, HeadIs

LEMMA TailMembers ==
  ASSUME TypeOK, Members, requestQueue # <<>>, requestQueue' = Tail(requestQueue),
         \A q \in Req : q # Head(requestQueue) /\ req'[q] \in {"idle", "done"} => req[q] \in {"idle", "done"}
  PROVE  Members'
<1>1. \A i \in DOMAIN requestQueue' :
        /\ i + 1 \in DOMAIN requestQueue
        /\ requestQueue'[i] = requestQueue[i + 1]
        /\ requestQueue[i + 1] \in Req => requestQueue[i + 1] # Head(requestQueue)
  BY DEF TypeOK, Members
<1>2. ASSUME NEW i \in DOMAIN requestQueue', requestQueue'[i] \in Req
      PROVE  req'[requestQueue'[i]] \notin {"idle", "done"}
  BY <1>1, <1>2 DEF Members
<1>3. ASSUME NEW i \in DOMAIN requestQueue', requestQueue'[i] \in Req,
             NEW j \in DOMAIN requestQueue', requestQueue'[j] = requestQueue'[i]
      PROVE  j = i
  <2>1. j + 1 = i + 1
    BY <1>1, <1>3 DEF Members
  <2>2. i \in Nat /\ j \in Nat
    BY <1>3 DEF TypeOK
  <2> QED
    BY <2>1, <2>2
<1> QED
  BY <1>2, <1>3 DEF Members

LEMMA SameMembers ==
  ASSUME TypeOK, Members, requestQueue' = requestQueue,
         \A q \in Req : req'[q] \in {"idle", "done"} => req[q] \in {"idle", "done"}
  PROVE  Members'
  BY DEF Members

LEMMA SettleMembers ==
  ASSUME ChainInv, Members, NEW r \in Req, HeadIs(r), NEW o, Settle(r, o)
  PROVE  Members'
  BY TailMembers DEF ChainInv, TypeOK, Settle, HeadIs

(* Rejecting what waits on the current socket, seen from the chain. *)
LEMMA RejectMembers ==
  ASSUME ChainInv, Members, RejectWaiting, requestQueue' = ChainWithoutWaiting
  PROVE  Members'
<1> USE DEF ChainInv
<1>1. CASE \E r \in Req : HeadIs(r) /\ req[r] = "waiting"
  <2>1. requestQueue # <<>> /\ requestQueue' = Tail(requestQueue)
    BY <1>1 DEF ChainWithoutWaiting, HeadIs
  <2>2. \A q \in Req : q # Head(requestQueue) => req[q] # "waiting"
    BY <1>1 DEF ActiveIsHead, Active, HeadIs
  <2> QED
    BY <2>1, <2>2, TailMembers DEF RejectWaiting, TypeOK
<1>2. CASE ~\E r \in Req : HeadIs(r) /\ req[r] = "waiting"
  <2>1. requestQueue' = requestQueue
    BY <1>2 DEF ChainWithoutWaiting
  <2>2. \A q \in Req : req[q] # "waiting"
    BY <1>2 DEF ActiveIsHead, Active
  <2> QED
    BY <2>1, <2>2, SameMembers DEF RejectWaiting, TypeOK
<1> QED
  BY <1>1, <1>2

(* abort(), whatever the handshake and its hold become. *)
LEMMA AbortAuth ==
  ASSUME AuthInv, Abort, exposed' = exposed, authenticated' = authenticated,
         auth' = "idle" => held' = 0, auth' \notin Handshaking
  PROVE  Members' /\ HoldFirst' /\ InFlight' /\ Authorised' /\ NotPaced'
<1> USE DEF AuthInv, ChainInv
<1>1. CASE closed
  BY <1>1 DEF Abort, Members, HoldFirst, InFlight, Authorised, NotPaced
<1>2. CASE ~closed
  <2>1. closed' = TRUE /\ RejectWaiting /\ requestQueue' = ChainWithoutWaiting
    BY <1>2 DEF Abort, OnClose, RejectPending, RejectWaiting
  <2>2. up' = <<>> /\ down' = <<>>
    BY <1>2 DEF Abort, RejectPending, RejectWaiting
  <2>3. \A q \in Req : req'[q] \notin {"writing", "waiting"} /\ req'[q] # "paced"
    BY <2>1 DEF RejectWaiting, TypeOK, NotPaced
  <2>4. ~exposed' => requestQueue' = <<>>
    BY <2>1 DEF HoldFirst, ChainWithoutWaiting, HeadIs
  <2> QED
    BY <2>1, <2>2, <2>3, <2>4, RejectMembers DEF HoldFirst, InFlight, Authorised, NotPaced
<1> QED
  BY <1>1, <1>2

LEMMA AuthRejectedIdle ==
  /\ AuthRejected = "idle" => auth = "idle"
  /\ AuthRejected \notin Handshaking
  BY DEF AuthRejected, Handshaking

(* exchange() as far as its write: on an open connection only. *)
LEMMA BeginAuth ==
  ASSUME AuthInv, NEW r \in Req, HeadIs(r), BeginExchange(r)
  PROVE  Members' /\ HoldFirst' /\ InFlight' /\ Authorised' /\ NotPaced'
<1> USE DEF AuthInv, ChainInv, connState, wire
<1>1. CASE closed \/ r \in Refused
  <2>1. Settle(r, "error")
    BY <1>1 DEF BeginExchange
  <2>2. \A q \in Req : req'[q] \in {req[q], "done"}
    BY <2>1 DEF Settle, TypeOK
  <2>3. exposed /\ (closed \/ authenticated)
    BY HeadMeansAuthenticated DEF HoldFirst, HeadIs
  <2> QED
    BY <2>1, <2>2, <2>3, SettleMembers
    DEF BeginExchange, HoldFirst, InFlight, Authorised, NotPaced, InTransit
<1>2. CASE ~(closed \/ r \in Refused)
  <2>1. authenticated
    BY <1>2, HeadMeansAuthenticated
  <2>2. Members'
    BY <1>2, SameMembers DEF BeginExchange, TypeOK
  <2> QED
    BY <1>2, <2>1, <2>2 DEF BeginExchange, HoldFirst, InFlight, Authorised, NotPaced, InTransit, TypeOK
<1> QED
  BY <1>1, <1>2

(* What a continuation keeps of AuthInv, besides ChainInv. *)
LEMMA AuthContinuation ==
  ASSUME ~Pacing, AuthInv, Continuation
  PROVE  Members' /\ HoldFirst' /\ InFlight' /\ Authorised' /\ NotPaced'
<1> USE DEF AuthInv, ChainInv, connState, exchanges, wire
<1>1. CASE PassHold
  <2>1. Members'
    BY <1>1, TailMembers DEF PassHold
  <2>2. exposed /\ (closed \/ authenticated)
    BY <1>1 DEF PassHold, HoldFirst
  <2> QED
    BY <1>1, <2>1, <2>2 DEF PassHold, HoldFirst, InFlight, Authorised, NotPaced, InTransit
<1>2. ASSUME NEW r \in Req, StartExchange(r)
      PROVE  Members' /\ HoldFirst' /\ InFlight' /\ Authorised' /\ NotPaced'
  BY <1>2, BeginAuth DEF StartExchange
<1>3. ASSUME NEW r \in Req, WriteFailed(r)
      PROVE  Members' /\ HoldFirst' /\ InFlight' /\ Authorised' /\ NotPaced'
  <2>1. HeadIs(r) /\ Settle(r, "error")
    BY <1>3 DEF WriteFailed, ActiveIsHead, Active
  <2>2. \A q \in Req : req'[q] \in {req[q], "done"}
    BY <2>1 DEF Settle, TypeOK
  <2>3. exposed /\ (closed \/ authenticated)
    BY <2>1, HeadMeansAuthenticated DEF HoldFirst, HeadIs
  <2> QED
    BY <1>3, <2>1, <2>2, <2>3, SettleMembers
    DEF WriteFailed, HoldFirst, InFlight, Authorised, NotPaced, InTransit
<1>4. CASE Authenticate \/ AuthWriteFailed
  BY <1>4 DEF Authenticate, AuthWrite, AuthWriteFailed, Members, HoldFirst, InFlight, Authorised,
       NotPaced, InTransit, Handshaking
<1> QED
  BY <1>1, <1>2, <1>3, <1>4 DEF Continuation, Pace

LEMMA AuthMacrotask ==
  ASSUME AuthInv, Macrotask
  PROVE  Members' /\ HoldFirst' /\ InFlight' /\ Authorised' /\ NotPaced'
<1> USE DEF AuthInv, ChainInv, connState, exchanges, wire
<1>1. ASSUME NEW r \in Req, PaceElapsed(r) PROVE FALSE
  BY <1>1 DEF PaceElapsed, NotPaced
<1>2. ASSUME NEW r \in Req, WriteDone(r)
      PROVE  Members' /\ HoldFirst' /\ InFlight' /\ Authorised' /\ NotPaced'
  <2>1. ~closed /\ authenticated
    BY <1>2 DEF WriteDone, InFlight
  <2>2. Members'
    BY <1>2, SameMembers DEF WriteDone, TypeOK
  <2> QED
    BY <1>2, <2>1, <2>2 DEF WriteDone, HoldFirst, InFlight, Authorised, NotPaced, InTransit, TypeOK
<1>3. CASE (\E r \in Req : Timeout(r)) \/ AuthTimeout \/ SocketClosed
  <2>1. /\ Abort /\ exposed' = exposed /\ authenticated' = authenticated
        /\ auth' = AuthRejected /\ held' = held
    BY <1>3 DEF Timeout, AuthTimeout, SocketClosed
  <2>2. auth' \notin Handshaking /\ (auth' = "idle" => held' = 0)
    BY <2>1, AuthRejectedIdle DEF HoldFirst
  <2> QED
    BY <2>1, <2>2, AbortAuth
<1>4. CASE AuthWriteDone
  <2>1. ~closed
    BY <1>4 DEF AuthWriteDone, InFlight, Handshaking
  <2>2. \E m \in AuthMessage : up' = Append(up, m)
    BY <1>4 DEF AuthWriteDone, AuthMessage
  <2>3. \A i \in DOMAIN up' : up'[i] \in Req => i \in DOMAIN up /\ up[i] \in Req
    BY <2>2, ConnectionAssumption DEF TypeOK
  <2> QED
    BY <1>4, <2>1, <2>3 DEF AuthWriteDone, Members, HoldFirst, InFlight, Authorised, NotPaced, InTransit
<1> QED
  BY <1>1, <1>2, <1>3, <1>4 DEF Macrotask

LEMMA AuthPump ==
  ASSUME AuthInv, Pump
  PROVE  Members' /\ HoldFirst' /\ InFlight' /\ Authorised' /\ NotPaced'
<1> USE DEF AuthInv, ChainInv, connState, exchanges, wire
<1>1. CASE Deliver
  <2>1. /\ ~closed' /\ ~closed
        /\ UNCHANGED <<exposed, authenticated, held, up, daemon>>
    BY <1>1 DEF Deliver
  <2>2. \A p : InTransit(p)' => InTransit(p)
    BY <1>1 DEF Deliver, InTransit, TypeOK
  <2>3. CASE pendingReceives # <<>> /\ DeliverToRequest
    <3> DEFINE r == Head(pendingReceives)
    <3>1. r \in Req /\ Settle(r, Head(down)) /\ HeadIs(r)
      BY <2>3 DEF DeliverToRequest, OneWaiter, ActiveIsHead, Active, TypeOK
    <3>2. \A q \in Req : req'[q] \in {req[q], "done"}
      BY <3>1 DEF Settle, TypeOK
    <3>3. exposed /\ authenticated
      BY <2>1, <3>1, HeadMeansAuthenticated DEF HoldFirst, HeadIs
    <3>4. Members'
      BY <3>1, SettleMembers
    <3>5. auth' = auth
      BY <2>3 DEF DeliverToRequest
    <3> QED
      BY <2>1, <2>2, <3>2, <3>3, <3>4, <3>5 DEF HoldFirst, InFlight, Authorised, NotPaced
  <2>4. CASE pendingReceives # <<>> /\ DeliverToAuth
    <3>1. UNCHANGED <<req, requestQueue>> /\ auth' = AuthStep(Head(down))
      BY <2>4 DEF DeliverToAuth
    <3>2. auth' # "idle" /\ (auth' = "ok" => InTransit("AUTH_OK"))
      BY <1>1, <3>1 DEF AuthStep, AuthWrite, Deliver, InTransit, TypeOK
    <3> QED
      BY <2>1, <2>2, <3>1, <3>2 DEF Members, HoldFirst, InFlight, Authorised, NotPaced
  <2>5. CASE DeliverAsNotification
    BY <2>1, <2>2, <2>5 DEF DeliverAsNotification, Members, HoldFirst, InFlight, Authorised, NotPaced
  <2> QED
    BY <1>1, <2>3, <2>4, <2>5 DEF Deliver
<1>2. CASE DeliverGarbage
  <2>1. /\ Abort /\ exposed' = exposed /\ authenticated' = authenticated
        /\ auth' = AuthRejected /\ held' = held
    BY <1>2 DEF DeliverGarbage
  <2>2. auth' \notin Handshaking /\ (auth' = "idle" => held' = 0)
    BY <2>1, AuthRejectedIdle DEF HoldFirst
  <2> QED
    BY <2>1, <2>2, AbortAuth
<1> QED
  BY <1>1, <1>2 DEF Pump

LEMMA AuthDaemon ==
  ASSUME AuthInv, Daemon
  PROVE  Members' /\ HoldFirst' /\ InFlight' /\ Authorised' /\ NotPaced'
<1> USE DEF AuthInv, ChainInv, connState, exchanges
<1>1. ~closed /\ UNCHANGED <<connState, exchanges>>
  BY DEF Daemon, DaemonReceive, DaemonRefuse, DaemonDrop, DaemonGarbage, DaemonPush
<1>2. \A i \in DOMAIN up' : \E j \in DOMAIN up : up[j] = up'[i]
  <2>1. up' = up \/ (up # <<>> /\ up' = Tail(up))
    BY DEF Daemon, DaemonReceive, DaemonRefuse, DaemonDrop, DaemonGarbage, DaemonPush
  <2>2. ASSUME up # <<>>, NEW i \in DOMAIN Tail(up)
        PROVE  i + 1 \in DOMAIN up /\ Tail(up)[i] = up[i + 1]
    BY <2>2 DEF TypeOK
  <2> QED
    BY <2>1, <2>2
<1>3. daemon' \in {"fresh", "salted"} => daemon \in {"fresh", "salted"}
  BY DEF Daemon, DaemonReceive, DaemonRefuse, DaemonDrop, DaemonGarbage, DaemonPush, TypeOK
<1>4. \/ down' = down
      \/ \E p \in Packet : down' = Append(down, p) /\ (p = "AUTH_OK" => daemon' = "authed")
  BY ConnectionAssumption DEF Daemon, DaemonReceive, DaemonRefuse, DaemonDrop, DaemonGarbage, DaemonPush,
       Salt, AuthReply, Packet, TypeOK
<1>5. InTransit("AUTH_OK")' => InTransit("AUTH_OK") \/ daemon' = "authed"
  <2>1. ASSUME NEW p \in Packet, NEW i \in DOMAIN Append(down, p), Append(down, p)[i] = "AUTH_OK"
        PROVE  (i \in DOMAIN down /\ down[i] = "AUTH_OK") \/ p = "AUTH_OK"
    BY <2>1 DEF TypeOK
  <2> QED
    BY <1>4, <2>1 DEF InTransit
<1> QED
  BY <1>1, <1>2, <1>3, <1>5 DEF Members, HoldFirst, InFlight, Authorised, NotPaced

(* At reconnect() the connection is closed and the event loop quiet: every *)
(* exchange queued on the previous socket has failed already, so that the  *)
(* hold is alone in the chain.                                             *)
LEMMA ChainEmptyAtReconnect ==
  ASSUME AuthInv, Reconnect, closed
  PROVE  requestQueue = <<>>
<1> SUFFICES ASSUME requestQueue # <<>> PROVE FALSE
  OBVIOUS
<1> USE DEF AuthInv, ChainInv
<1>1. closed /\ held = 0
  BY DEF Reconnect, HoldFirst
<1>2. Head(requestQueue) \in Req
  BY <1>1 DEF Reconnect, Quiet, TypeOK
<1>3. /\ req[Head(requestQueue)] \notin {"idle", "done"}
      /\ req[Head(requestQueue)] \notin {"writing", "waiting"}
      /\ req[Head(requestQueue)] # "paced"
  BY <1>1, <1>2 DEF Members, InFlight, NotPaced, TypeOK
<1>4. req[Head(requestQueue)] \notin {"queued", "severed"}
  BY <1>2 DEF Reconnect, Quiet, HeadIs
<1> QED
  BY <1>2, <1>3, <1>4 DEF TypeOK, ReqState

LEMMA AuthReconnect ==
  ASSUME AuthInv, Reconnect, closed
  PROVE  Members' /\ HoldFirst' /\ InFlight' /\ Authorised' /\ NotPaced'
<1> USE DEF AuthInv, ChainInv
<1>1. requestQueue' = <<socket + 1>> /\ held' = socket + 1
  <2>1. ChainWithoutWaiting = <<>>
    BY ChainEmptyAtReconnect DEF ChainWithoutWaiting, HeadIs
  <2>2. requestQueue' = Append(<<>>, socket + 1) /\ held' = socket + 1
    BY <2>1 DEF Reconnect, HoldBehind
  <2> QED
    BY <2>2
<1>2. /\ closed' = FALSE /\ authenticated' = FALSE /\ auth' = "begin" /\ exposed'
      /\ up' = <<>> /\ down' = <<>>
  BY DEF Reconnect, ForgetSession, RejectPending, RejectWaiting
<1>3. \A q \in Req : req'[q] \notin {"writing", "waiting"} /\ req'[q] # "paced"
  BY DEF Reconnect, RejectPending, RejectWaiting, TypeOK, NotPaced
<1>4. socket + 1 \in Nat /\ socket + 1 # 0
  BY DEF TypeOK
<1>5. Members'
  BY <1>1, <1>4, ConnectionAssumption DEF Members
<1> QED
  BY <1>1, <1>2, <1>3, <1>4, <1>5 DEF HoldFirst, InFlight, Authorised, NotPaced, InTransit

LEMMA AuthOwner ==
  ASSUME AuthInv, (\E r \in Req : Request(r)) \/ Close \/ Arm \/ AuthSucceed \/ AuthReject
  PROVE  Members' /\ HoldFirst' /\ InFlight' /\ Authorised' /\ NotPaced'
<1> USE DEF AuthInv, ChainInv, connState, exchanges, wire
<1>1. ASSUME NEW r \in Req, Request(r)
      PROVE  Members' /\ HoldFirst' /\ InFlight' /\ Authorised' /\ NotPaced'
  <2>1. exposed /\ requestQueue' = Append(requestQueue, r) /\ req' = [req EXCEPT ![r] = "queued"]
    BY <1>1 DEF Request
  <2>2. \A i \in DOMAIN requestQueue : requestQueue[i] # r
    BY <1>1 DEF Request, Members
  <2>3. ASSUME NEW i \in DOMAIN requestQueue'
        PROVE  \/ i \in DOMAIN requestQueue /\ requestQueue'[i] = requestQueue[i]
               \/ i = Len(requestQueue) + 1 /\ requestQueue'[i] = r
    BY <2>1, <2>3 DEF TypeOK
  <2>4. Members'
    BY <2>1, <2>2, <2>3 DEF Members, TypeOK
  <2>5. requestQueue # <<>> => requestQueue' # <<>> /\ Head(requestQueue') = Head(requestQueue)
    BY <2>1 DEF TypeOK
  <2> QED
    BY <1>1, <2>1, <2>4, <2>5 DEF Request, HoldFirst, InFlight, Authorised, NotPaced, InTransit, TypeOK
<1>2. CASE Close \/ Arm
  BY <1>2 DEF Close, Arm, Members, HoldFirst, InFlight, Authorised, NotPaced, InTransit
<1>3. CASE AuthSucceed
  BY <1>3 DEF AuthSucceed, Members, HoldFirst, InFlight, Authorised, NotPaced, InTransit, Handshaking
<1>4. CASE AuthReject
  BY <1>4, AbortAuth DEF AuthReject, HandshakeFailed, Handshaking
<1> QED
  BY <1>1, <1>2, <1>3, <1>4

LEMMA AuthInit == ConnInit => AuthInv
<1>1. ConnInit => ChainInv
  BY TypeInit DEF ConnInit, ChainInv, ActiveIsHead, OneWaiter, Active
<1> QED
  BY <1>1 DEF ConnInit, AuthInv, Members, HoldFirst, InFlight, Authorised, NotPaced, InTransit, Handshaking

LEMMA AuthStepKeeps ==
  ASSUME ~Pacing, AuthInv, [ConnNext]_connVars, Reconnect => closed
  PROVE  AuthInv'
<1>1. ChainInv'
  BY TypeStep, ChainStep DEF AuthInv, ChainInv
<1>2. CASE UNCHANGED connVars
  BY <1>1, <1>2 DEF connVars, connState, exchanges, wire, AuthInv, Members, HoldFirst, InFlight,
       Authorised, NotPaced, InTransit
<1>3. CASE ConnNext
  <2>1. Members' /\ HoldFirst' /\ InFlight' /\ Authorised' /\ NotPaced'
    BY <1>3, AuthContinuation, AuthMacrotask, AuthPump, AuthDaemon, AuthOwner, AuthReconnect
    DEF ConnNext, Internal
  <2> QED
    BY <1>1, <2>1 DEF AuthInv
<1> QED
  BY <1>2, <1>3

LEMMA AuthInvariant ==
  ASSUME ~Pacing, ~ReconnectOpen
  PROVE  ConnSpec => []AuthInv
<1>1. AuthInv /\ [ConnNext]_connVars => AuthInv'
  BY AuthStepKeeps DEF Reconnect
<1> QED
  BY <1>1, AuthInit, PTL DEF ConnSpec

LEMMA AuthInvIsAuthFirst == AuthInv => AuthFirst
  BY DEF AuthInv, InFlight, Authorised, AuthFirst

(* On a connection that does not pace its requests and is reconnected once *)
(* it is closed, whatever the calls, drops, timeouts, broken packets and   *)
(* their order: no request reaches a daemon that has not authorised it.    *)
THEOREM RequestsWaitForAuthentication ==
  ASSUME ~Pacing, ~ReconnectOpen
  PROVE  ConnSpec => []AuthFirst
  BY AuthInvariant, AuthInvIsAuthFirst, PTL
=============================================================================
