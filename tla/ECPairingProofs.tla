-------------------------- MODULE ECPairingProofs --------------------------
(***************************************************************************)
(* Theorems about what ECConnection makes of what it receives: whose       *)
(* authorisation it acts on, which reply settles which call, and, built on *)
(* both, that its chain implements RequestReply.  The invariants speak of  *)
(* the sequences in flight position by position; those of                  *)
(* ECConnectionProofs speak of the chain.                                  *)
(***************************************************************************)
EXTENDS ECConnectionProofs, ECEngine

(* Sequences in flight only lose their first element or gain a last one.   *)
LEMMA TailAt ==
  ASSUME NEW S, NEW s \in Seq(S), s # <<>>
  PROVE  /\ Head(s) = s[1] /\ 1 \in DOMAIN s
         /\ Tail(s) \in Seq(S) /\ Len(Tail(s)) = Len(s) - 1
         /\ \A i \in DOMAIN Tail(s) : i \in Nat /\ i + 1 \in DOMAIN s /\ Tail(s)[i] = s[i + 1]
  OBVIOUS

LEMMA AppendAt ==
  ASSUME NEW S, NEW s \in Seq(S), NEW e \in S
  PROVE  /\ Append(s, e) \in Seq(S) /\ Len(Append(s, e)) = Len(s) + 1
         /\ \A i \in DOMAIN Append(s, e) :
              \/ i \in DOMAIN s /\ Append(s, e)[i] = s[i]
              \/ i = Len(s) + 1 /\ Append(s, e)[i] = e
         /\ \A i \in DOMAIN s : i # Len(s) + 1 /\ i \in DOMAIN Append(s, e) /\ Append(s, e)[i] = s[i]
         /\ Append(s, e)[Len(s) + 1] = e /\ Len(s) + 1 \in DOMAIN Append(s, e)
  OBVIOUS

-----------------------------------------------------------------------------
(* With requireEncryption, the handshake goes past the salt only with a    *)
(* session, and a session is only forgotten with the authentication.       *)
Encrypted ==
  RequireEncryption /\ (auth \in {"sendPasswd", "waitOk", "ok"} \/ authenticated) => aeadSession

(* abort(), whoever calls it: AuthReject, a timer, the socket or the pump. *)
Aborting ==
  \/ (\E r \in Req : Timeout(r)) \/ AuthTimeout \/ SocketClosed \/ DeliverGarbage \/ AuthReject

LEMMA AbortingStep ==
  ASSUME Aborting
  PROVE  /\ Abort
         /\ UNCHANGED <<socket, authenticated, aeadSession, exposed, daemon, notified>>
         /\ auth' \notin Handshaking
         /\ auth' \in {"begin", "ok", "refused"} => auth' = auth
<1>1. CASE AuthReject
  BY <1>1 DEF AuthReject, HandshakeFailed, Handshaking
<1>2. CASE ~AuthReject
  <2>1. /\ Abort /\ auth' = AuthRejected
        /\ UNCHANGED <<socket, authenticated, aeadSession, exposed, daemon, notified>>
    BY <1>2 DEF Aborting, Timeout, AuthTimeout, SocketClosed, DeliverGarbage
  <2>2. AuthRejected \notin Handshaking /\ (AuthRejected \in {"begin", "ok", "refused"} => AuthRejected = auth)
    BY DEF AuthRejected, Handshaking
  <2> QED
    BY <2>1, <2>2
<1> QED
  BY <1>1, <1>2

(* What abort() leaves in flight: what was there, or nothing. *)
LEMMA AbortSweeps ==
  ASSUME TypeOK, Abort
  PROVE  \/ /\ closed /\ closed'
            /\ UNCHANGED <<req, result, requestQueue, pendingReceives, up, down>>
         \/ closed' /\ up' = <<>> /\ down' = <<>> /\ pendingReceives' = <<>>
  BY DEF Abort, OnClose, RejectPending, RejectWaiting, TypeOK

(* The steps that neither abort, reconnect nor touch what is in flight. *)
Still ==
  Continuation \/ (\E r \in Req : Request(r) \/ PaceElapsed(r)) \/ Close \/ Arm \/ AuthSucceed

LEMMA NextCases ==
  ConnNext <=> \/ Aborting \/ Still \/ Reconnect \/ Daemon \/ Deliver \/ AuthWriteDone
               \/ \E r \in Req : WriteDone(r)
  BY DEF ConnNext, Internal, Macrotask, Pump, Aborting, Still

LEMMA StillStep ==
  ASSUME TypeOK, Still
  PROVE  /\ UNCHANGED <<up, down, pendingReceives, daemon, notified, closed, aeadSession, socket>>
         /\ \/ UNCHANGED <<auth, authenticated>>
            \/ /\ auth = "begin" /\ authenticated' = authenticated
               /\ auth' \in IF closed THEN {"failed"} ELSE {"sendReq", "severed"}
            \/ auth = "severed" /\ auth' = "failed" /\ authenticated' = authenticated
            \/ auth = "ok" /\ auth' = "idle" /\ authenticated' = TRUE
<1> USE DEF connState, exchanges, wire
<1>1. CASE PassHold \/ Close \/ Arm \/ Authenticate \/ AuthWriteFailed \/ AuthSucceed
  BY <1>1 DEF PassHold, Close, Arm, Authenticate, AuthWrite, AuthWriteFailed, AuthSucceed
<1>2. ASSUME NEW r \in Req, StartExchange(r) \/ PaceElapsed(r)
      PROVE  /\ UNCHANGED <<up, down, pendingReceives, daemon, notified, closed, aeadSession, socket, auth, authenticated>>
  BY <1>2 DEF StartExchange, PaceElapsed, BeginExchange, Settle, TypeOK
<1>3. ASSUME NEW r \in Req, Pace(r) \/ WriteFailed(r) \/ Request(r)
      PROVE  /\ UNCHANGED <<up, down, pendingReceives, daemon, notified, closed, aeadSession, socket, auth, authenticated>>
  BY <1>3 DEF Pace, WriteFailed, Request, Settle, TypeOK
<1> QED
  BY <1>1, <1>2, <1>3 DEF Still, Continuation

LEMMA DaemonStep ==
  ASSUME Daemon
  PROVE  ~closed /\ UNCHANGED <<connState, exchanges, notified>>
  BY DEF Daemon, DaemonReceive, DaemonRefuse, DaemonDrop, DaemonGarbage, DaemonPush

LEMMA DeliverStep ==
  ASSUME TypeOK, Deliver
  PROVE  /\ ~closed /\ down # <<>> /\ down' = Tail(down) /\ Head(down) # "GARBAGE"
         /\ UNCHANGED <<socket, closed, authenticated, ended, up, daemon>>
         /\ \/ UNCHANGED <<auth, aeadSession>>
            \/ /\ pendingReceives # <<>> /\ Head(pendingReceives) = "auth"
               /\ auth' = AuthStep(Head(down)) /\ aeadSession' = SessionAfter(Head(down))
  BY DEF Deliver, DeliverToRequest, DeliverToAuth, DeliverAsNotification, Settle, TypeOK

(* AUTH_OK is in flight, or was received, only once the daemon authorised. *)
LEMMA AuthorisedStep ==
  ASSUME TypeOK, Authorised, [ConnNext]_connVars
  PROVE  Authorised'
<1> USE DEF connState, exchanges, wire
<1>1. CASE Aborting
  <2>1. closed'
    BY <1>1, AbortingStep, AbortSweeps
  <2> QED
    BY <2>1 DEF Authorised
<1>2. CASE Still
  BY <1>2, StillStep DEF Authorised, InTransit
<1>3. CASE Reconnect
  BY <1>3 DEF Reconnect, ForgetSession, RejectPending, Authorised, InTransit
<1>4. CASE Daemon
  <2>1. daemon' \in {"fresh", "salted"} => daemon \in {"fresh", "salted"} 
    BY <1>4 DEF Daemon, DaemonReceive, DaemonRefuse, DaemonDrop, DaemonGarbage, DaemonPush, TypeOK
  <2>2. \/ down' = down
        \/ \E p \in Packet : down' = Append(down, p) /\ (p = "AUTH_OK" => daemon' = "authed")
    BY <1>4, ConnectionAssumption DEF Daemon, DaemonReceive, DaemonRefuse, DaemonDrop, DaemonGarbage,
         DaemonPush, Salt, AuthReply, Packet, TypeOK
  <2>3. InTransit("AUTH_OK")' => InTransit("AUTH_OK") \/ daemon' = "authed"
    <3>1. down \in Seq(Packet)
      BY DEF TypeOK
    <3> QED
      BY <2>2, <3>1, AppendAt DEF InTransit
  <2> QED
    BY <1>4, <2>1, <2>3, DaemonStep DEF Authorised
<1>5. CASE Deliver
  <2>0. down \in Seq(Packet) /\ down # <<>> /\ down' = Tail(down)
    BY <1>5, DeliverStep DEF TypeOK
  <2>1. \A i \in DOMAIN down' : i + 1 \in DOMAIN down /\ down'[i] = down[i + 1]
    BY <2>0, TailAt
  <2>2. Head(down) = "AUTH_OK" => InTransit("AUTH_OK")
    BY <1>5, DeliverStep, TailAt DEF TypeOK, InTransit
  <2>3. auth' = "ok" => auth = "ok" \/ Head(down) = "AUTH_OK"
    BY <1>5, DeliverStep DEF AuthStep, AuthWrite
  <2> QED
    BY <1>5, <2>1, <2>2, <2>3, DeliverStep DEF Authorised, InTransit
<1>6. CASE AuthWriteDone
  BY <1>6 DEF AuthWriteDone, Authorised, InTransit
<1>7. ASSUME NEW r \in Req, WriteDone(r) PROVE Authorised'
  BY <1>7 DEF WriteDone, Authorised, InTransit
<1>8. CASE UNCHANGED connVars
  BY <1>8 DEF connVars, Authorised, InTransit
<1> QED
  BY <1>1, <1>2, <1>3, <1>4, <1>5, <1>6, <1>7, <1>8, NextCases

LEMMA EncryptedStep ==
  ASSUME TypeOK, Encrypted, [ConnNext]_connVars
  PROVE  Encrypted'
<1> USE DEF connState, exchanges, wire
<1>1. CASE Aborting
  BY <1>1, AbortingStep DEF Encrypted, Handshaking
<1>2. CASE Still
  BY <1>2, StillStep DEF Encrypted
<1>3. CASE Reconnect
  BY <1>3 DEF Reconnect, ForgetSession, Encrypted
<1>4. CASE Daemon
  BY <1>4, DaemonStep DEF Encrypted
<1>5. CASE Deliver
  <2>1. CASE UNCHANGED <<auth, aeadSession>>
    BY <1>5, <2>1, DeliverStep DEF Encrypted
  <2>2. CASE auth' = AuthStep(Head(down)) /\ aeadSession' = SessionAfter(Head(down))
    <3>1. RequireEncryption /\ auth' \in {"sendPasswd", "waitOk", "ok"} =>
            auth = "waitOk" \/ (auth = "waitSalt" /\ Head(down) = "AUTH_SALT")
      BY <2>2 DEF AuthStep, AuthWrite
    <3> QED
      BY <1>5, <2>2, <3>1, DeliverStep DEF Encrypted, SessionAfter
  <2> QED
    BY <1>5, <2>1, <2>2, DeliverStep
<1>6. CASE AuthWriteDone
  BY <1>6 DEF AuthWriteDone, Encrypted
<1>7. ASSUME NEW r \in Req, WriteDone(r) PROVE Encrypted'
  BY <1>7 DEF WriteDone, Encrypted
<1>8. CASE UNCHANGED connVars
  BY <1>8 DEF connVars, Encrypted
<1> QED
  BY <1>1, <1>2, <1>3, <1>4, <1>5, <1>6, <1>7, <1>8, NextCases

(* Whatever the options: a client that considers itself authenticated on   *)
(* an open socket was authorised by the daemon at the end of that very     *)
(* socket, never of a previous one, and with requireEncryption it never    *)
(* does so without an AEAD session.                                        *)
THEOREM AuthenticationIsTheDaemons == ConnSpec => []AuthenticatedByDaemon
<1> DEFINE Inv == Authorised /\ Encrypted
<1>1. ConnInit => Inv
  BY DEF ConnInit, Authorised, Encrypted, InTransit
<1>2. TypeOK /\ Inv /\ [ConnNext]_connVars => Inv'
  BY AuthorisedStep, EncryptedStep
<1>3. Inv => AuthenticatedByDaemon
  BY DEF Authorised, Encrypted, AuthenticatedByDaemon
<1> QED
  BY <1>1, <1>2, <1>3, TypeCorrect, PTL DEF ConnSpec

-----------------------------------------------------------------------------
(* None of the elements of s is in S; at most one is. *)
None(s, S) == \A i \in DOMAIN s : s[i] \notin S
One(s, S) == \A i, j \in DOMAIN s : s[i] \in S /\ s[j] \in S => i = j

LEMMA AmongTail ==
  ASSUME NEW T, NEW s \in Seq(T), s # <<>>, NEW S
  PROVE  /\ None(s, S) => None(Tail(s), S) /\ Head(s) \notin S
         /\ One(s, S) => One(Tail(s), S)
         /\ One(s, S) /\ Head(s) \in S => None(Tail(s), S)
<1>1. /\ Head(s) = s[1] /\ 1 \in DOMAIN s
      /\ \A i \in DOMAIN Tail(s) : i \in Nat /\ i + 1 \in DOMAIN s /\ Tail(s)[i] = s[i + 1]
  BY TailAt
<1>2. None(s, S) => None(Tail(s), S) /\ Head(s) \notin S
  BY <1>1 DEF None
<1>3. ASSUME One(s, S), NEW i \in DOMAIN Tail(s), NEW j \in DOMAIN Tail(s), Tail(s)[i] \in S, Tail(s)[j] \in S
      PROVE  i = j
  <2>1. i + 1 = j + 1
    BY <1>1, <1>3 DEF One
  <2> QED
    BY <1>1, <2>1
<1>4. ASSUME One(s, S), Head(s) \in S, NEW i \in DOMAIN Tail(s), Tail(s)[i] \in S
      PROVE  FALSE
  <2>1. i + 1 = 1
    BY <1>1, <1>4 DEF One
  <2> QED
    BY <1>1, <2>1
<1> QED
  BY <1>2, <1>3, <1>4 DEF None, One

LEMMA AmongAppend ==
  ASSUME NEW T, NEW s \in Seq(T), NEW e \in T, NEW S
  PROVE  /\ e \notin S /\ None(s, S) => None(Append(s, e), S)
         /\ e \notin S /\ One(s, S) => One(Append(s, e), S)
         /\ None(s, S) => One(Append(s, e), S)
<1>1. \A i \in DOMAIN Append(s, e) :
        \/ i \in DOMAIN s /\ Append(s, e)[i] = s[i]
        \/ i = Len(s) + 1 /\ Append(s, e)[i] = e
  BY AppendAt
<1>2. e \notin S /\ None(s, S) => None(Append(s, e), S)
  BY <1>1 DEF None
<1>3. e \notin S /\ One(s, S) => One(Append(s, e), S)
  BY <1>1 DEF One
<1>4. None(s, S) => One(Append(s, e), S)
  BY <1>1 DEF None, One
<1> QED
  BY <1>2, <1>3, <1>4

LEMMA AmongNothing == \A S : None(<< >>, S) /\ One(<< >>, S)
  BY DEF None, One

-----------------------------------------------------------------------------
Message == Req \union AuthMessage
Waiter == Req \union {"auth"}
Salts == {"AUTH_SALT", "AUTH_SALT_LEGACY"}

(* What the daemon does, case by case: it answers the oldest message, or   *)
(* something happens on its side alone.                                    *)
Answered(message, answer) ==
  /\ up # <<>> /\ message = Head(up) /\ up' = Tail(up)
  /\ answer \in Packet /\ down' = Append(down, answer)

Salted == /\ daemon = "fresh" /\ daemon' = "salted"
          /\ \E salt \in Salts : Answered("AUTH_REQ", salt)
Authorises == daemon = "salted" /\ daemon' = "authed" /\ Answered("AUTH_PASSWD", "AUTH_OK")
Serves == daemon = "authed" /\ daemon' = "authed" /\ \E r \in Req : Answered(r, r)
Rejects == /\ daemon = "fresh" \/ daemon = "salted"
           /\ daemon' = "dropped"
           /\ \E m \in Req \union AuthMessage :
                /\ Answered(m, "AUTH_FAIL")
                /\ m # IF daemon = "fresh" THEN "AUTH_REQ" ELSE "AUTH_PASSWD"
Refuses == /\ daemon = "salted" /\ daemon' = "refused"
           /\ \E p \in {"AUTH_FAIL", "AUTH_UNPROVEN"} : Answered("AUTH_PASSWD", p)
Drops == ~Gone /\ daemon' = "dropped" /\ UNCHANGED <<up, down>>
Breaks == ~Gone /\ daemon' = daemon /\ up' = up /\ down' = Append(down, "GARBAGE")
Pushes == Notify /\ daemon = "authed" /\ daemon' = daemon /\ up' = up /\ down' = Append(down, "NOTIFICATION")

LEMMA DaemonCases ==
  ASSUME TypeOK, Daemon
  PROVE  Salted \/ Authorises \/ Serves \/ Rejects \/ Refuses \/ Drops \/ Breaks \/ Pushes
<1>1. CASE DaemonReceive
  <2>1. Head(up) \in Req \union AuthMessage
    BY <1>1, TailAt DEF DaemonReceive, TypeOK
  <2>2. Salt \subseteq Salts /\ Salts \subseteq Packet /\ {"AUTH_OK", "AUTH_FAIL"} \subseteq Packet /\ Req \subseteq Packet
    BY DEF Salt, Salts, Packet, AuthReply
  <2>3. CASE daemon = "fresh" /\ Head(up) = "AUTH_REQ" /\ daemon' = "salted" /\ \E salt \in Salt : down' = Append(down, salt)
    BY <1>1, <2>2, <2>3 DEF DaemonReceive, Salted, Answered
  <2>4. CASE daemon = "salted" /\ Head(up) = "AUTH_PASSWD" /\ daemon' = "authed" /\ down' = Append(down, "AUTH_OK")
    BY <1>1, <2>2, <2>4 DEF DaemonReceive, Authorises, Answered
  <2>5. CASE daemon = "authed" /\ Head(up) \in Req /\ daemon' = daemon /\ down' = Append(down, Head(up))
    BY <1>1, <2>2, <2>5 DEF DaemonReceive, Serves, Answered
  <2>6. CASE /\ \/ daemon = "fresh" /\ Head(up) # "AUTH_REQ"
                \/ daemon = "salted" /\ Head(up) # "AUTH_PASSWD"
             /\ daemon' = "dropped" /\ down' = Append(down, "AUTH_FAIL")
    BY <1>1, <2>1, <2>2, <2>6 DEF DaemonReceive, Rejects, Answered
  <2> QED
    BY <1>1, <2>3, <2>4, <2>5, <2>6 DEF DaemonReceive
<1>2. CASE DaemonRefuse
  BY <1>2 DEF DaemonRefuse, Refuses, Answered, Packet, AuthReply
<1>3. CASE DaemonDrop \/ DaemonGarbage \/ DaemonPush
  BY <1>3 DEF DaemonDrop, DaemonGarbage, DaemonPush, Drops, Breaks, Pushes
<1> QED
  BY <1>1, <1>2, <1>3 DEF Daemon

-----------------------------------------------------------------------------
(* The handshake passes one token back and forth: on each socket, at most  *)
(* one of its messages is about to be written, on its way to the daemon,   *)
(* or answered by a salt not read yet; and the daemon's state follows it.  *)
Token ==
  /\ auth \in {"begin", "sendReq", "sendPasswd"} => None(up, AuthMessage) /\ None(down, Salts)
  /\ None(up, AuthMessage) \/ None(down, Salts)
  /\ One(up, AuthMessage) /\ One(down, Salts)

Stage ==
  /\ auth \in {"begin", "sendReq"} \/ ~None(up, {"AUTH_REQ"}) => daemon \in {"fresh", "dropped"}
  /\ auth = "sendPasswd" \/ ~None(up, {"AUTH_PASSWD"}) \/ ~None(down, Salts) => daemon \in {"salted", "dropped"}

TokenInv == Token /\ Stage

LEMMA TokenDaemon ==
  ASSUME TypeOK, TokenInv, Daemon
  PROVE  TokenInv'
<1>1. up \in Seq(Message) /\ down \in Seq(Packet) /\ auth' = auth
  BY DaemonStep DEF TypeOK, exchanges, Message
<1>2. /\ \A r \in Req : r \notin AuthMessage /\ r \notin Salts /\ r # "AUTH_REQ" /\ r # "AUTH_PASSWD"
      /\ "GARBAGE" \in Packet \ Salts /\ "NOTIFICATION" \in Packet \ Salts
  BY ConnectionAssumption DEF AuthMessage, AuthReply, Salts, Packet
<1>3. ASSUME up # <<>>, up' = Tail(up), NEW S
      PROVE  /\ None(up, S) => None(up', S) /\ Head(up) \notin S
             /\ One(up, S) => One(up', S)
             /\ One(up, S) /\ Head(up) \in S => None(up', S)
  BY <1>1, <1>3, AmongTail
<1>4. ASSUME NEW p \in Packet, down' = Append(down, p), NEW S
      PROVE  /\ p \notin S /\ None(down, S) => None(down', S)
             /\ p \notin S /\ One(down, S) => One(down', S)
             /\ None(down, S) => One(down', S)
  BY <1>1, <1>4, AmongAppend
<1>5. None(up, AuthMessage) => None(up, {"AUTH_REQ"}) /\ None(up, {"AUTH_PASSWD"})
  BY DEF None, AuthMessage
<1>6. None(up', AuthMessage) => None(up', {"AUTH_REQ"}) /\ None(up', {"AUTH_PASSWD"})
  BY DEF None, AuthMessage
<1>7. CASE Salted
  <2>1. PICK salt \in Salts : Answered("AUTH_REQ", salt)
    BY <1>7 DEF Salted
  <2>2. /\ up # <<>> /\ Head(up) = "AUTH_REQ" /\ up' = Tail(up)
        /\ salt \in Packet /\ down' = Append(down, salt)
    BY <2>1 DEF Answered
  <2>3. ~None(up, AuthMessage)
    BY <1>3, <2>2 DEF AuthMessage
  <2>4. None(up', AuthMessage) /\ One(up', AuthMessage)
    BY <1>3, <2>2 DEF AuthMessage, TokenInv, Token
  <2>5. None(down, Salts) /\ auth \notin {"begin", "sendReq", "sendPasswd"}
    BY <2>3 DEF TokenInv, Token
  <2>6. One(down', Salts)
    BY <1>4, <2>2, <2>5
  <2> QED
    BY <1>1, <1>6, <1>7, <2>4, <2>5, <2>6 DEF TokenInv, Token, Stage, Salted
<1>8. CASE Authorises \/ Refuses
  <2>1. PICK p \in {"AUTH_OK", "AUTH_FAIL", "AUTH_UNPROVEN"} : Answered("AUTH_PASSWD", p)
    BY <1>8 DEF Authorises, Refuses
  <2>2. /\ up # <<>> /\ Head(up) = "AUTH_PASSWD" /\ up' = Tail(up)
        /\ p \in Packet /\ down' = Append(down, p) /\ p \notin Salts
    BY <2>1 DEF Answered, Salts
  <2>3. ~None(up, AuthMessage)
    BY <1>3, <2>2 DEF AuthMessage
  <2>4. None(up', AuthMessage) /\ One(up', AuthMessage)
    BY <1>3, <2>2 DEF AuthMessage, TokenInv, Token
  <2>5. None(down, Salts) /\ auth \notin {"begin", "sendReq", "sendPasswd"}
    BY <2>3 DEF TokenInv, Token
  <2>6. None(down', Salts) /\ One(down', Salts)
    BY <1>4, <2>2, <2>5
  <2> QED
    BY <1>1, <1>6, <2>4, <2>5, <2>6 DEF TokenInv, Token, Stage
<1>9. CASE Serves \/ Rejects
  <2>1. PICK m \in Message, p \in Packet \ Salts : Answered(m, p)
    BY <1>2, <1>9 DEF Serves, Rejects, Message, Packet, AuthReply, Salts
  <2>2. up # <<>> /\ up' = Tail(up) /\ down' = Append(down, p)
    BY <2>1 DEF Answered
  <2>3. \A S : None(up, S) => None(up', S)
    BY <1>3, <2>2
  <2>4. /\ One(up', AuthMessage) /\ One(down', Salts)
        /\ None(down, Salts) => None(down', Salts)
    BY <1>3, <1>4, <2>2 DEF TokenInv, Token
  <2>5. daemon' \in {daemon, "dropped"}
    BY <1>9 DEF Serves, Rejects
  <2> QED
    BY <1>1, <2>3, <2>4, <2>5 DEF TokenInv, Token, Stage
<1>10. CASE Drops \/ Breaks \/ Pushes
  <2>1. up' = up /\ daemon' \in {daemon, "dropped"}
    BY <1>10 DEF Drops, Breaks, Pushes
  <2>2. One(down', Salts) /\ (None(down, Salts) => None(down', Salts))
    BY <1>2, <1>4, <1>10 DEF Drops, Breaks, Pushes, TokenInv, Token
  <2> QED
    BY <1>1, <2>1, <2>2 DEF TokenInv, Token, Stage
<1> QED
  BY <1>7, <1>8, <1>9, <1>10, DaemonCases

LEMMA TokenStep ==
  ASSUME TypeOK, TokenInv, [ConnNext]_connVars
  PROVE  TokenInv'
<1> USE DEF connState, exchanges, wire
<1>1. up \in Seq(Message) /\ down \in Seq(Packet)
  BY DEF TypeOK, Message
<1>2. CASE Aborting
  <2>1. /\ daemon' = daemon
        /\ auth' \in {"begin", "sendReq", "sendPasswd"} => auth' = auth
    BY <1>2, AbortingStep DEF Handshaking
  <2>2. UNCHANGED <<up, down>> \/ (up' = <<>> /\ down' = <<>>)
    BY <1>2, AbortingStep, AbortSweeps
  <2> QED
    BY <2>1, <2>2, AmongNothing DEF TokenInv, Token, Stage
<1>3. CASE Still
  BY <1>3, StillStep DEF TokenInv, Token, Stage
<1>4. CASE Reconnect
  BY <1>4, AmongNothing DEF Reconnect, RejectPending, RejectWaiting, TokenInv, Token, Stage
<1>5. CASE Daemon
  BY <1>5, TokenDaemon
<1>6. CASE Deliver
  <2>1. /\ down # <<>> /\ down' = Tail(down) /\ up' = up /\ daemon' = daemon
        /\ auth' = auth \/ auth' = AuthStep(Head(down))
    BY <1>6, DeliverStep
  <2>2. /\ None(down, Salts) => None(down', Salts) /\ Head(down) \notin Salts
        /\ One(down, Salts) => One(down', Salts)
        /\ One(down, Salts) /\ Head(down) \in Salts => None(down', Salts)
    BY <1>1, <2>1, AmongTail
  <2>3. CASE auth' = auth
    BY <2>1, <2>2, <2>3 DEF TokenInv, Token, Stage
  <2>4. CASE auth' = AuthStep(Head(down))
    <3>1. /\ auth' \notin {"begin", "sendReq"}
          /\ auth' = "sendPasswd" => Head(down) \in Salts
      BY <2>4 DEF AuthStep, AuthWrite, Salts
    <3> QED
      BY <2>1, <2>2, <3>1 DEF TokenInv, Token, Stage
  <2> QED
    BY <2>1, <2>3, <2>4
<1>7. CASE AuthWriteDone
  <2>1. /\ down' = down /\ daemon' = daemon
        /\ \/ auth = "sendReq" /\ auth' = "waitSalt" /\ up' = Append(up, "AUTH_REQ")
           \/ auth = "sendPasswd" /\ auth' = "waitOk" /\ up' = Append(up, "AUTH_PASSWD")
    BY <1>7 DEF AuthWriteDone
  <2>2. None(up, AuthMessage) /\ None(down, Salts)
    BY <2>1 DEF TokenInv, Token
  <2>3. None(up, {"AUTH_REQ"}) /\ None(up, {"AUTH_PASSWD"})
    BY <2>2 DEF None, AuthMessage
  <2>4. "AUTH_REQ" \in Message /\ "AUTH_PASSWD" \in Message
    BY DEF Message, AuthMessage
  <2>5. One(up', AuthMessage)
    BY <1>1, <2>1, <2>2, <2>4, AmongAppend
  <2>6. /\ auth = "sendReq" => None(up', {"AUTH_PASSWD"})
        /\ auth = "sendPasswd" => None(up', {"AUTH_REQ"})
    <3>1. "AUTH_REQ" \notin {"AUTH_PASSWD"} /\ "AUTH_PASSWD" \notin {"AUTH_REQ"}
      OBVIOUS
    <3>2. None(Append(up, "AUTH_REQ"), {"AUTH_PASSWD"})
      BY <1>1, <2>3, <2>4, <3>1, AmongAppend
    <3>3. None(Append(up, "AUTH_PASSWD"), {"AUTH_REQ"})
      BY <1>1, <2>3, <2>4, <3>1, AmongAppend
    <3> QED
      BY <2>1, <3>2, <3>3
  <2> QED
    BY <2>1, <2>2, <2>5, <2>6 DEF TokenInv, Token, Stage
<1>8. ASSUME NEW r \in Req, WriteDone(r) PROVE TokenInv'
  <2>1. UNCHANGED <<auth, down, daemon>> /\ up' = Append(up, r)
    BY <1>8 DEF WriteDone
  <2>2. r \in Message /\ r \notin AuthMessage /\ r \notin {"AUTH_REQ"} /\ r \notin {"AUTH_PASSWD"}
    BY ConnectionAssumption DEF AuthMessage, Message
  <2>3. /\ None(up, AuthMessage) => None(up', AuthMessage)
        /\ One(up, AuthMessage) => One(up', AuthMessage)
        /\ None(up, {"AUTH_REQ"}) => None(up', {"AUTH_REQ"})
        /\ None(up, {"AUTH_PASSWD"}) => None(up', {"AUTH_PASSWD"})
    BY <1>1, <2>1, <2>2, AmongAppend
  <2> QED
    BY <2>1, <2>3 DEF TokenInv, Token, Stage
<1>9. CASE UNCHANGED connVars
  BY <1>9 DEF connVars, TokenInv, Token, Stage
<1> QED
  BY <1>2, <1>3, <1>4, <1>5, <1>6, <1>7, <1>8, <1>9, NextCases

-----------------------------------------------------------------------------
(* The handshake's verdicts.  An AUTH_FAIL or an unproven server is in     *)
(* flight only on a socket the daemon has done with, a notification never  *)
(* beside an AUTH_FAIL.                                                    *)
Verdicts ==
  /\ ~None(down, {"AUTH_FAIL"}) => Gone
  /\ ~None(down, {"AUTH_UNPROVEN"}) => daemon = "refused"
  /\ ~None(down, {"NOTIFICATION"}) =>
       Notify /\ daemon \in {"authed", "dropped"} /\ None(down, {"AUTH_FAIL"})

(* The pairing of waiters with what answers them: the oldest waiters are   *)
(* those of the replies in flight, in order, the others those of the       *)
(* messages the daemon has not read.  A broken packet ends it, and so does *)
(* a notification; what is in flight before one is paired still.           *)
Unpaired == {"GARBAGE", "NOTIFICATION"}
Clean(d, i) == \A k \in 1..i : d[k] \notin Unpaired

Asks(message, waiter) == waiter = IF message \in Req THEN message ELSE "auth"

Answers(packet, waiter, side) ==
  /\ packet \in Req => waiter = packet
  /\ packet \in AuthReply \ {"AUTH_FAIL"} => waiter = "auth"
  /\ packet = "AUTH_FAIL" => /\ waiter = "auth" => side = "refused"
                             /\ waiter \in Req => Pacing \/ ReconnectOpen

Paired(d, u, w, side) ==
  /\ \A i \in DOMAIN d : Clean(d, i) => i \in DOMAIN w /\ Answers(d[i], w[i], side)
  /\ Clean(d, Len(d)) =>
       /\ Len(w) = Len(d) + Len(u)
       /\ \A j \in DOMAIN u : Asks(u[j], w[Len(d) + j])

(* A notification handed to a waiter shifts every later pairing, but only  *)
(* on a socket the daemon authorised: the handshake's pairing stands.      *)
Undisturbed == ~Notify \/ daemon \in {"fresh", "salted", "refused"} \/ ~None(down, {"AUTH_FAIL"})

Pairs == Undisturbed => Paired(down, up, pendingReceives, daemon)

(* Each of the ways the sequences in flight change keeps them paired. *)
LEMMA PairsAnswered ==
  ASSUME NEW d \in Seq(Packet), NEW u \in Seq(Message), NEW w \in Seq(Waiter), NEW side, NEW after,
         Paired(d, u, w, side), side # "refused", u # <<>>,
         NEW p \in Packet, \A x \in Waiter : Asks(Head(u), x) => Answers(p, x, after)
  PROVE  Paired(Append(d, p), Tail(u), w, after)
<1> DEFINE e == Append(d, p)
           v == Tail(u)
<1>1. /\ Head(u) = u[1] /\ 1 \in DOMAIN u /\ Len(v) = Len(u) - 1
      /\ \A j \in DOMAIN v : j \in Nat /\ j + 1 \in DOMAIN u /\ v[j] = u[j + 1]
  BY TailAt
<1>2. /\ Len(e) = Len(d) + 1 /\ e[Len(d) + 1] = p
      /\ \A i \in DOMAIN e : i \in DOMAIN d \/ i = Len(d) + 1
      /\ \A i \in DOMAIN d : i \in DOMAIN e /\ e[i] = d[i]
  BY AppendAt
<1>3. Len(d) \in Nat /\ DOMAIN d = 1..Len(d) /\ Len(u) \in Nat /\ DOMAIN u = 1..Len(u)
  OBVIOUS
<1>4. /\ \A i \in DOMAIN d : Clean(e, i) => Clean(d, i)
      /\ Clean(e, Len(d) + 1) => Clean(d, Len(d))
  BY <1>2, <1>3 DEF Clean
<1>5. \A q, x : Answers(q, x, side) => Answers(q, x, after)
  BY DEF Answers
<1>6. ASSUME Clean(d, Len(d))
      PROVE  Len(d) + 1 \in DOMAIN w /\ Answers(p, w[Len(d) + 1], after)
  <2>1. Len(w) = Len(d) + Len(u) /\ Asks(u[1], w[Len(d) + 1])
    BY <1>1, <1>6 DEF Paired
  <2>2. Len(d) + 1 \in DOMAIN w /\ w[Len(d) + 1] \in Waiter
    BY <1>1, <1>3, <2>1
  <2> QED
    BY <1>1, <2>1, <2>2
<1>7. ASSUME Clean(d, Len(d))
      PROVE  Len(w) = Len(d) + 1 + Len(v) /\ \A j \in DOMAIN v : Asks(v[j], w[Len(d) + 1 + j])
  <2>1. Len(w) = Len(d) + Len(u) /\ \A j \in DOMAIN u : Asks(u[j], w[Len(d) + j])
    BY <1>7 DEF Paired
  <2>2. \A j \in DOMAIN v : j + 1 \in DOMAIN u /\ v[j] = u[j + 1] /\ Len(d) + (j + 1) = Len(d) + 1 + j
    BY <1>1, <1>3
  <2>3. \A j \in DOMAIN v : Asks(v[j], w[Len(d) + (j + 1)])
    BY <2>1, <2>2
  <2> QED
    BY <1>1, <1>3, <2>1, <2>2, <2>3
<1> HIDE DEF e, v
<1>8. \A i \in DOMAIN d : Clean(e, i) => i \in DOMAIN w /\ Answers(e[i], w[i], after)
  BY <1>2, <1>4, <1>5 DEF Paired
<1>9. Clean(e, Len(e)) => Clean(d, Len(d))
  BY <1>2, <1>4
<1>10. Paired(e, v, w, after)
  BY <1>2, <1>6, <1>7, <1>8, <1>9 DEF Paired
<1> QED
  BY <1>10 DEF e, v

LEMMA PairsDelivered ==
  ASSUME NEW d \in Seq(Packet), NEW u \in Seq(Message), NEW w \in Seq(Waiter), NEW side,
         Paired(d, u, w, side), d # <<>>, Head(d) \notin Unpaired
  PROVE  /\ w # <<>> /\ Answers(Head(d), Head(w), side)
         /\ Paired(Tail(d), u, Tail(w), side)
<1> DEFINE e == Tail(d)
           x == Tail(w)
<1>1. /\ Head(d) = d[1] /\ 1 \in DOMAIN d /\ Len(e) = Len(d) - 1
      /\ \A i \in DOMAIN e : i \in Nat /\ i + 1 \in DOMAIN d /\ e[i] = d[i + 1]
  BY TailAt
<1>2. 1 \in DOMAIN w /\ Answers(d[1], w[1], side)
  BY <1>1 DEF Paired, Clean
<1>3. w # <<>> /\ Head(w) = w[1]
  BY <1>2
<1>4. /\ Len(x) = Len(w) - 1 /\ DOMAIN x = 1..Len(x) /\ DOMAIN w = 1..Len(w) /\ Len(w) \in Nat
      /\ \A i \in DOMAIN x : i \in Nat /\ i + 1 \in DOMAIN w /\ x[i] = w[i + 1]
  BY <1>3, TailAt
<1>5. /\ Len(d) \in Nat /\ DOMAIN d = 1..Len(d) /\ DOMAIN e = 1..Len(e)
      /\ Len(u) \in Nat /\ DOMAIN u = 1..Len(u)
  OBVIOUS
<1>6. ASSUME NEW i \in 0..Len(e), Clean(e, i) PROVE Clean(d, i + 1)
  <2>1. ASSUME NEW k \in 1..(i + 1) PROVE d[k] \notin Unpaired
    <3>1. CASE k = 1
      BY <1>1, <3>1
    <3>2. CASE k > 1
      <4>1. k - 1 \in 1..i /\ k - 1 \in DOMAIN e /\ (k - 1) + 1 = k
        BY <1>1, <1>5, <3>2
      <4> QED
        BY <1>1, <1>6, <4>1 DEF Clean
    <3> QED
      BY <3>1, <3>2
  <2> QED
    BY <2>1 DEF Clean
<1> HIDE DEF e, x
<1>7. ASSUME NEW i \in DOMAIN e, Clean(e, i)
      PROVE  i \in DOMAIN x /\ Answers(e[i], x[i], side)
  <2>1. i \in Nat /\ i > 0 /\ i \in 0..Len(e)
    BY <1>1, <1>5
  <2>2. i + 1 \in DOMAIN w /\ Answers(d[i + 1], w[i + 1], side)
    BY <1>1, <1>6, <1>7, <2>1 DEF Paired
  <2>3. i \in DOMAIN x
    BY <1>4, <2>1, <2>2
  <2> QED
    BY <1>1, <1>4, <2>2, <2>3
<1>8. ASSUME Clean(e, Len(e))
      PROVE  Len(x) = Len(e) + Len(u) /\ \A j \in DOMAIN u : Asks(u[j], x[Len(e) + j])
  <2>1. Len(e) \in 0..Len(e) /\ Len(e) + 1 = Len(d)
    BY <1>1, <1>5
  <2>2. Clean(d, Len(d))
    BY <1>6, <1>8, <2>1
  <2>3. Len(w) = Len(d) + Len(u) /\ \A j \in DOMAIN u : Asks(u[j], w[Len(d) + j])
    BY <2>2 DEF Paired
  <2>4. ASSUME NEW j \in DOMAIN u PROVE x[Len(e) + j] = w[Len(d) + j]
    <3>1. /\ Len(e) \in Nat /\ Len(x) = Len(e) + Len(u)
          /\ j \in Nat /\ j > 0 /\ j <= Len(u)
      BY <1>1, <1>4, <1>5, <2>1, <2>3
    <3>2. Len(e) + j \in 1..Len(x) /\ Len(e) + j + 1 = Len(d) + j
      BY <1>1, <1>5, <2>1, <3>1
    <3> QED
      BY <1>4, <3>2
  <2> QED
    BY <1>4, <1>5, <2>1, <2>3, <2>4
<1>9. Paired(e, u, x, side)
  BY <1>7, <1>8 DEF Paired
<1> QED
  BY <1>1, <1>2, <1>3, <1>9 DEF e, x

LEMMA PairsWritten ==
  ASSUME NEW d \in Seq(Packet), NEW u \in Seq(Message), NEW w \in Seq(Waiter), NEW side,
         Paired(d, u, w, side), NEW m \in Message, NEW x \in Waiter, Asks(m, x)
  PROVE  Paired(d, Append(u, m), Append(w, x), side)
<1> DEFINE v == Append(u, m)
           y == Append(w, x)
<1>1. /\ Len(v) = Len(u) + 1 /\ v[Len(u) + 1] = m
      /\ \A j \in DOMAIN v : (j \in DOMAIN u /\ v[j] = u[j]) \/ j = Len(u) + 1
  BY AppendAt
<1>2. /\ Len(y) = Len(w) + 1 /\ y[Len(w) + 1] = x
      /\ \A i \in DOMAIN w : i \in DOMAIN y /\ y[i] = w[i]
  BY AppendAt
<1>3. Len(d) \in Nat /\ Len(u) \in Nat /\ DOMAIN u = 1..Len(u) /\ Len(w) \in Nat /\ DOMAIN w = 1..Len(w)
  OBVIOUS
<1> HIDE DEF v, y
<1>4. \A i \in DOMAIN d : Clean(d, i) => i \in DOMAIN y /\ Answers(d[i], y[i], side)
  BY <1>2 DEF Paired
<1>5. ASSUME Clean(d, Len(d))
      PROVE  Len(y) = Len(d) + Len(v) /\ \A j \in DOMAIN v : Asks(v[j], y[Len(d) + j])
  <2>1. Len(w) = Len(d) + Len(u) /\ \A j \in DOMAIN u : Asks(u[j], w[Len(d) + j])
    BY <1>5 DEF Paired
  <2>2. /\ \A j \in DOMAIN u : Len(d) + j \in DOMAIN w
        /\ Len(d) + (Len(u) + 1) = Len(w) + 1
    BY <1>3, <2>1
  <2> QED
    BY <1>1, <1>2, <1>3, <2>1, <2>2
<1>6. Paired(d, v, y, side)
  BY <1>4, <1>5 DEF Paired
<1> QED
  BY <1>6 DEF v, y

LEMMA PairsBroken ==
  ASSUME NEW d \in Seq(Packet), NEW u, NEW w, NEW side, Paired(d, u, w, side),
         NEW p \in Packet, p \in Unpaired
  PROVE  Paired(Append(d, p), u, w, side)
<1> DEFINE e == Append(d, p)
<1>1. /\ Len(e) = Len(d) + 1 /\ e[Len(d) + 1] = p
      /\ \A i \in DOMAIN e : i \in DOMAIN d \/ i = Len(d) + 1
      /\ \A i \in DOMAIN d : i \in DOMAIN e /\ e[i] = d[i]
  BY AppendAt
<1>2. Len(d) \in Nat /\ DOMAIN d = 1..Len(d)
  OBVIOUS
<1> HIDE DEF e
<1>3. ~Clean(e, Len(d) + 1)
  BY <1>1, <1>2 DEF Clean
<1>4. \A i \in DOMAIN d : Clean(e, i) => Clean(d, i)
  BY <1>1, <1>2 DEF Clean
<1>5. Paired(e, u, w, side)
  BY <1>1, <1>3, <1>4 DEF Paired
<1> QED
  BY <1>5 DEF e

LEMMA PairsNothing == \A side : Paired(<< >>, << >>, << >>, side)
  BY DEF Paired

-----------------------------------------------------------------------------
(* A failed handshake says that the daemon refused the credentials only    *)
(* when it did; what RequireEncryption refuses, the client refuses itself. *)
RefusedByDaemon == auth = "refused" /\ ~RequireEncryption => daemon = "refused"

LEMMA VerdictsStep ==
  ASSUME TypeOK, Verdicts, [ConnNext]_connVars
  PROVE  Verdicts'
<1> USE DEF connState, exchanges, wire
<1>1. down \in Seq(Packet)
  BY DEF TypeOK
<1>2. CASE Aborting
  <2>1. daemon' = daemon /\ (down' = down \/ down' = <<>>)
    BY <1>2, AbortingStep, AbortSweeps
  <2> QED
    BY <2>1, AmongNothing DEF Verdicts, Gone
<1>3. CASE Still \/ AuthWriteDone \/ \E r \in Req : WriteDone(r)
  <2>1. UNCHANGED <<down, daemon>>
    BY <1>3, StillStep DEF AuthWriteDone, WriteDone
  <2> QED
    BY <2>1 DEF Verdicts, Gone
<1>4. CASE Reconnect
  BY <1>4, AmongNothing DEF Reconnect, RejectPending, Verdicts
<1>5. CASE Deliver
  <2>1. down # <<>> /\ down' = Tail(down) /\ daemon' = daemon
    BY <1>5, DeliverStep
  <2>2. \A S : None(down, S) => None(down', S)
    BY <1>1, <2>1, AmongTail
  <2> QED
    BY <2>1, <2>2 DEF Verdicts, Gone
<1>6. CASE Daemon
  <2>1. ASSUME NEW p \in Packet, down' = Append(down, p), NEW q, p # q, None(down, {q})
        PROVE  None(down', {q})
    <3>1. p \notin {q}
      BY <2>1
    <3> QED
      BY <1>1, <2>1, <3>1, AmongAppend
  <2>2. /\ \A r \in Req : r \notin {"AUTH_FAIL", "AUTH_UNPROVEN", "NOTIFICATION"}
        /\ Salts \subseteq Packet /\ Req \subseteq Packet
        /\ {"AUTH_OK", "AUTH_FAIL", "AUTH_UNPROVEN", "GARBAGE", "NOTIFICATION"} \subseteq Packet
    BY ConnectionAssumption DEF AuthMessage, AuthReply, Packet, Salts
  <2>3. ~Gone => None(down, {"AUTH_FAIL"}) /\ None(down, {"AUTH_UNPROVEN"})
    BY DEF Verdicts, Gone
  <2>4. daemon \in {"fresh", "salted"} => None(down, {"NOTIFICATION"})
    BY DEF Verdicts
  <2>5. CASE Salted \/ Authorises
    <3>1. PICK p \in Salts \union {"AUTH_OK"} : down' = Append(down, p)
      BY <2>5 DEF Salted, Authorises, Answered
    <3>2. p \in Packet /\ p \notin {"AUTH_FAIL", "AUTH_UNPROVEN", "NOTIFICATION"}
      BY <2>2, <3>1 DEF Salts
    <3>3. daemon \in {"fresh", "salted"} /\ ~Gone
      BY <2>5 DEF Salted, Authorises, Gone
    <3> QED
      BY <2>1, <2>3, <2>4, <3>1, <3>2, <3>3 DEF Verdicts
  <2>6. CASE Serves \/ Breaks
    <3>1. PICK p \in Req \union {"GARBAGE"} : down' = Append(down, p)
      BY <2>6 DEF Serves, Breaks, Answered
    <3>2. p \in Packet /\ p \notin {"AUTH_FAIL", "AUTH_UNPROVEN", "NOTIFICATION"}
      BY <2>2, <3>1
    <3>3. ~Gone /\ daemon' = daemon
      BY <2>6 DEF Serves, Breaks, Gone
    <3> QED
      BY <2>1, <2>3, <3>1, <3>2, <3>3 DEF Verdicts
  <2>7. CASE Rejects \/ Refuses
    <3>1. PICK p \in {"AUTH_FAIL", "AUTH_UNPROVEN"} :
            down' = Append(down, p) /\ (p = "AUTH_UNPROVEN" => daemon' = "refused")
      BY <2>7 DEF Rejects, Refuses, Answered
    <3>2. p \in Packet /\ p # "NOTIFICATION"
      BY <2>2, <3>1
    <3>3. daemon \in {"fresh", "salted"} /\ ~Gone /\ daemon' \in {"dropped", "refused"}
      BY <2>7 DEF Rejects, Refuses, Gone
    <3>4. None(down', {"NOTIFICATION"})
      BY <2>1, <2>4, <3>1, <3>2, <3>3
    <3>5. ~None(down', {"AUTH_UNPROVEN"}) => daemon' = "refused"
      BY <2>1, <2>3, <3>1, <3>2, <3>3
    <3> QED
      BY <3>3, <3>4, <3>5 DEF Verdicts, Gone
  <2>8. CASE Drops
    BY <2>3, <2>8 DEF Drops, Verdicts, Gone
  <2>9. CASE Pushes
    <3>1. ~Gone /\ daemon' = "authed" /\ Notify /\ down' = Append(down, "NOTIFICATION")
      BY <2>9 DEF Pushes, Gone
    <3>2. None(down', {"AUTH_FAIL"}) /\ None(down', {"AUTH_UNPROVEN"})
      BY <2>1, <2>2, <2>3, <3>1
    <3> QED
      BY <3>1, <3>2 DEF Verdicts
  <2> QED
    BY <1>6, <2>5, <2>6, <2>7, <2>8, <2>9, DaemonCases
<1>7. CASE UNCHANGED connVars
  BY <1>7 DEF connVars, Verdicts, Gone
<1> QED
  BY <1>2, <1>3, <1>4, <1>5, <1>6, <1>7, NextCases

(* The pairing as the pump finds it: the packet it dispatches goes to the  *)
(* waiter it answers.                                                      *)
LEMMA DeliverPaired ==
  ASSUME TypeOK, Verdicts, Pairs, Undisturbed, Deliver
  PROVE  /\ pendingReceives # <<>> /\ Answers(Head(down), Head(pendingReceives), daemon)
         /\ Paired(Tail(down), up, Tail(pendingReceives), daemon)
         /\ pendingReceives' = Tail(pendingReceives) /\ notified' = notified
<1>1. /\ down \in Seq(Packet) /\ up \in Seq(Message) /\ pendingReceives \in Seq(Waiter)
  BY DEF TypeOK, Message, Waiter
<1>2. down # <<>> /\ Head(down) # "GARBAGE" /\ Paired(down, up, pendingReceives, daemon)
  BY DeliverStep DEF Pairs
<1>3. None(down, {"NOTIFICATION"})
  BY DEF Verdicts, Undisturbed
<1>4. Head(down) \notin {"NOTIFICATION"}
  BY <1>1, <1>2, <1>3, AmongTail
<1>5. Head(down) \notin Unpaired
  BY <1>2, <1>4 DEF Unpaired
<1>6. /\ pendingReceives # <<>> /\ Answers(Head(down), Head(pendingReceives), daemon)
      /\ Paired(Tail(down), up, Tail(pendingReceives), daemon)
  BY <1>1, <1>2, <1>5, PairsDelivered
<1>7. pendingReceives' = Tail(pendingReceives) /\ notified' = notified
  BY <1>6 DEF Deliver, DeliverToRequest, DeliverToAuth, DeliverAsNotification
<1> QED
  BY <1>6, <1>7

LEMMA RefusedStep ==
  ASSUME TypeOK, Verdicts, Pairs, RefusedByDaemon, [ConnNext]_connVars
  PROVE  RefusedByDaemon'
<1> USE DEF connState, exchanges, wire
<1>1. CASE Aborting
  BY <1>1, AbortingStep DEF RefusedByDaemon
<1>2. CASE Still \/ AuthWriteDone \/ \E r \in Req : WriteDone(r)
  <2>1. daemon' = daemon /\ (auth' = "refused" => auth = "refused")
    BY <1>2, StillStep DEF AuthWriteDone, WriteDone
  <2> QED
    BY <2>1 DEF RefusedByDaemon
<1>3. CASE Reconnect
  BY <1>3 DEF Reconnect, RefusedByDaemon
<1>4. CASE Daemon
  <2>1. auth' = auth
    BY <1>4, DaemonStep
  <2>2. daemon = "refused" => daemon' = "refused"
    BY <1>4, DaemonCases DEF Salted, Authorises, Serves, Rejects, Refuses, Drops, Breaks, Pushes, Gone
  <2> QED
    BY <2>1, <2>2 DEF RefusedByDaemon
<1>5. CASE Deliver
  <2>1. down \in Seq(Packet) /\ down # <<>> /\ daemon' = daemon
    BY <1>5, DeliverStep DEF TypeOK
  <2>2. ~None(down, {Head(down)})
    BY <2>1, AmongTail
  <2>3. CASE auth' = auth
    BY <2>1, <2>3 DEF RefusedByDaemon
  <2>4. CASE Head(pendingReceives) = "auth" /\ auth' = AuthStep(Head(down))
    <3>1. auth' = "refused" /\ ~RequireEncryption => Head(down) \in {"AUTH_UNPROVEN", "AUTH_FAIL"}
      BY <2>4 DEF AuthStep, AuthWrite
    <3>2. Head(down) = "AUTH_UNPROVEN" => daemon = "refused"
      BY <2>2 DEF Verdicts
    <3>3. ASSUME Head(down) = "AUTH_FAIL" PROVE daemon = "refused"
      <4>1. Undisturbed
        BY <2>2, <3>3 DEF Undisturbed
      <4> QED
        BY <1>5, <2>4, <3>3, <4>1, DeliverPaired DEF Answers
    <3> QED
      BY <2>1, <3>1, <3>2, <3>3 DEF RefusedByDaemon
  <2> QED
    BY <1>5, <2>3, <2>4, DeliverStep
<1>6. CASE UNCHANGED connVars
  BY <1>6 DEF connVars, RefusedByDaemon
<1> QED
  BY <1>1, <1>2, <1>3, <1>4, <1>5, <1>6, NextCases

(* The answer the daemon sends is the one its oldest message waits for:    *)
(* without pacing, and with reconnect() called on closed connections only, *)
(* an AUTH_FAIL never answers a request, for AuthFirst keeps requests off  *)
(* sockets that are not authorised.                                        *)
LEMMA PairsDaemon ==
  ASSUME TypeOK, TokenInv, Verdicts, Pairs, Pacing \/ ReconnectOpen \/ AuthFirst, Daemon
  PROVE  Pairs'
<1>1. /\ down \in Seq(Packet) /\ up \in Seq(Message) /\ pendingReceives \in Seq(Waiter)
      /\ pendingReceives' = pendingReceives
  BY DaemonStep DEF TypeOK, Message, Waiter, exchanges
<1>2. /\ Req \intersect (AuthMessage \union AuthReply) = {} /\ "auth" \notin Req
      /\ Req \union Salts \union AuthReply \subseteq Packet
      /\ Salts \subseteq AuthReply \ {"AUTH_FAIL"}
      /\ {"GARBAGE", "NOTIFICATION"} \subseteq Packet
  BY ConnectionAssumption DEF AuthMessage, AuthReply, Packet, Salts
<1>3. ASSUME daemon \in {"fresh", "salted"} PROVE Paired(down, up, pendingReceives, daemon)
  BY <1>3 DEF Pairs, Undisturbed
<1>4. ASSUME NEW p \in Packet, p # "AUTH_FAIL", down' = Append(down, p), ~None(down', {"AUTH_FAIL"})
      PROVE  ~None(down, {"AUTH_FAIL"})
  <2>1. p \notin {"AUTH_FAIL"}
    BY <1>4
  <2> QED
    BY <1>1, <1>4, <2>1, AmongAppend
<1>5. ASSUME NEW m, NEW p \in Packet, Answered(m, p), daemon # "refused",
             Paired(down, up, pendingReceives, daemon),
             \A x \in Waiter : Asks(m, x) => Answers(p, x, daemon')
      PROVE  Pairs'
  <2>1. up # <<>> /\ m = Head(up) /\ up' = Tail(up) /\ down' = Append(down, p)
    BY <1>5 DEF Answered
  <2>2. \A x \in Waiter : Asks(Head(up), x) => Answers(p, x, daemon')
    BY <1>5, <2>1
  <2>3. Paired(Append(down, p), Tail(up), pendingReceives, daemon')
    BY <1>1, <1>5, <2>1, <2>2, PairsAnswered
  <2> QED
    BY <1>1, <2>1, <2>3 DEF Pairs
<1>6. CASE Salted
  <2>1. PICK salt \in Salts : Answered("AUTH_REQ", salt)
    BY <1>6 DEF Salted
  <2>2. \A x \in Waiter : Asks("AUTH_REQ", x) => Answers(salt, x, daemon')
    BY <1>2 DEF Asks, Answers, AuthMessage
  <2>3. salt \in Packet /\ daemon = "fresh" /\ daemon # "refused"
    BY <1>2, <1>6 DEF Salted
  <2> QED
    BY <1>3, <1>5, <2>1, <2>2, <2>3
<1>7. CASE Authorises
  <2>1. \A x \in Waiter : Asks("AUTH_PASSWD", x) => Answers("AUTH_OK", x, daemon')
    BY <1>2 DEF Asks, Answers, AuthMessage, AuthReply
  <2>2. "AUTH_OK" \in Packet /\ daemon = "salted" /\ daemon # "refused" /\ Answered("AUTH_PASSWD", "AUTH_OK")
    BY <1>7 DEF Authorises, Answered
  <2> QED
    BY <1>3, <1>5, <2>1, <2>2
<1>8. CASE Serves
  <2>1. PICK r \in Req : Answered(r, r)
    BY <1>8 DEF Serves
  <2>2. \A x \in Waiter : Asks(r, x) => Answers(r, x, daemon')
    BY <1>2 DEF Asks, Answers, AuthReply
  <2>3. /\ r \in Packet /\ r # "AUTH_FAIL" /\ daemon # "refused" /\ daemon' = daemon
        /\ down' = Append(down, r)
    BY <1>2, <1>8, <2>1 DEF Serves, Answered, AuthReply
  <2>4. Undisturbed' => Undisturbed
    BY <1>4, <2>3 DEF Undisturbed
  <2>5. ASSUME Undisturbed' PROVE Pairs'
    BY <1>5, <2>1, <2>2, <2>3, <2>4, <2>5 DEF Pairs
  <2> QED
    BY <2>5 DEF Pairs
<1>9. CASE Rejects
  <2>1. PICK m \in Message : /\ Answered(m, "AUTH_FAIL")
                             /\ m # IF daemon = "fresh" THEN "AUTH_REQ" ELSE "AUTH_PASSWD"
    BY <1>9 DEF Rejects, Message
  <2>2. up # <<>> /\ m = Head(up) /\ m = up[1] /\ 1 \in DOMAIN up /\ daemon \in {"fresh", "salted"}
    BY <1>1, <1>9, <2>1 DEF Rejects, Answered
  <2>3. m \notin AuthMessage
    <3>1. ~None(up, {m})
      BY <2>2 DEF None
    <3> QED
      BY <2>1, <2>2, <3>1 DEF AuthMessage, TokenInv, Stage
  <2>4. m \in Req /\ (Pacing \/ ReconnectOpen)
    BY <2>2, <2>3 DEF Message, AuthFirst
  <2>5. \A x \in Waiter : Asks(m, x) => Answers("AUTH_FAIL", x, daemon')
    BY <1>2, <2>4 DEF Asks, Answers, AuthReply
  <2>6. "AUTH_FAIL" \in Packet
    BY <2>1 DEF Answered
  <2> QED
    BY <1>3, <1>5, <2>1, <2>2, <2>5, <2>6
<1>10. CASE Refuses
  <2>1. PICK p \in {"AUTH_FAIL", "AUTH_UNPROVEN"} : Answered("AUTH_PASSWD", p)
    BY <1>10 DEF Refuses
  <2>2. \A x \in Waiter : Asks("AUTH_PASSWD", x) => Answers(p, x, daemon')
    BY <1>2, <1>10 DEF Asks, Answers, AuthMessage, AuthReply, Refuses
  <2>3. p \in Packet /\ daemon = "salted" /\ daemon # "refused"
    BY <1>10, <2>1 DEF Refuses, Answered
  <2> QED
    BY <1>3, <1>5, <2>1, <2>2, <2>3
<1>11. CASE Drops
  <2>1. UNCHANGED <<up, down>> /\ daemon # "refused" /\ daemon' = "dropped"
    BY <1>11 DEF Drops, Gone
  <2>2. Undisturbed' => Undisturbed
    BY <2>1 DEF Undisturbed
  <2>3. \A q, x : Answers(q, x, daemon) => Answers(q, x, daemon')
    BY <2>1 DEF Answers
  <2> QED
    BY <1>1, <2>1, <2>2, <2>3 DEF Pairs, Paired
<1>12. CASE Breaks \/ Pushes
  <2>1. PICK p \in Unpaired : down' = Append(down, p)
    BY <1>12 DEF Breaks, Pushes, Unpaired
  <2>2. up' = up /\ daemon' = daemon
    BY <1>12 DEF Breaks, Pushes
  <2>3. p \in Packet /\ p # "AUTH_FAIL"
    BY <1>2, <2>1 DEF Unpaired
  <2>4. Undisturbed' => Undisturbed
    BY <1>4, <2>1, <2>2, <2>3 DEF Undisturbed
  <2>5. Paired(down, up, pendingReceives, daemon) => Paired(Append(down, p), up, pendingReceives, daemon)
    BY <1>1, <2>1, <2>3, PairsBroken
  <2> QED
    BY <1>1, <2>1, <2>2, <2>4, <2>5 DEF Pairs
<1> QED
  BY <1>6, <1>7, <1>8, <1>9, <1>10, <1>11, <1>12, DaemonCases

LEMMA PairsStep ==
  ASSUME TypeOK, TokenInv, Verdicts, Pairs, Pacing \/ ReconnectOpen \/ AuthFirst, [ConnNext]_connVars
  PROVE  Pairs'
<1> USE DEF connState, exchanges, wire
<1>1. down \in Seq(Packet) /\ up \in Seq(Message) /\ pendingReceives \in Seq(Waiter)
  BY DEF TypeOK, Message, Waiter
<1>2. CASE Aborting
  <2>1. \/ UNCHANGED <<up, down, pendingReceives, daemon>>
        \/ up' = <<>> /\ down' = <<>> /\ pendingReceives' = <<>>
    BY <1>2, AbortingStep, AbortSweeps
  <2> QED
    BY <2>1, PairsNothing DEF Pairs, Undisturbed
<1>3. CASE Still
  BY <1>3, StillStep DEF Pairs, Undisturbed
<1>4. CASE Reconnect
  BY <1>4, PairsNothing DEF Reconnect, RejectPending, RejectWaiting, Pairs
<1>5. CASE Daemon
  BY <1>5, PairsDaemon
<1>6. CASE Deliver
  <2>1. down # <<>> /\ down' = Tail(down) /\ UNCHANGED <<up, daemon>>
    BY <1>6, DeliverStep
  <2>2. None(down, {"AUTH_FAIL"}) => None(down', {"AUTH_FAIL"})
    BY <1>1, <2>1, AmongTail
  <2>3. Undisturbed' => Undisturbed
    BY <2>1, <2>2 DEF Undisturbed
  <2> QED
    BY <1>6, <2>1, <2>3, DeliverPaired DEF Pairs
<1>7. ASSUME NEW m \in Message, NEW x \in Waiter, Asks(m, x),
             up' = Append(up, m), pendingReceives' = Append(pendingReceives, x), UNCHANGED <<down, daemon>>
      PROVE  Pairs'
  <2>1. Paired(down, up, pendingReceives, daemon) => Paired(down, up', pendingReceives', daemon)
    BY <1>1, <1>7, PairsWritten
  <2> QED
    BY <1>7, <2>1 DEF Pairs, Undisturbed
<1>8. CASE AuthWriteDone
  <2>1. PICK m \in AuthMessage : /\ up' = Append(up, m)
                                 /\ pendingReceives' = Append(pendingReceives, "auth")
                                 /\ UNCHANGED <<down, daemon>>
    BY <1>8 DEF AuthWriteDone, AuthMessage
  <2>2. m \in Message /\ "auth" \in Waiter /\ Asks(m, "auth")
    BY ConnectionAssumption DEF Message, Waiter, Asks
  <2> QED
    BY <1>7, <2>1, <2>2
<1>9. ASSUME NEW r \in Req, WriteDone(r) PROVE Pairs'
  <2>1. /\ up' = Append(up, r) /\ pendingReceives' = Append(pendingReceives, r)
        /\ UNCHANGED <<down, daemon>>
    BY <1>9 DEF WriteDone
  <2>2. r \in Message /\ r \in Waiter /\ Asks(r, r)
    BY DEF Message, Waiter, Asks
  <2> QED
    BY <1>7, <2>1, <2>2
<1>10. CASE UNCHANGED connVars
  BY <1>10 DEF connVars, Pairs, Undisturbed
<1> QED
  BY <1>2, <1>3, <1>4, <1>5, <1>6, <1>8, <1>9, <1>10, NextCases

WireInv == TypeOK /\ TokenInv /\ Verdicts /\ Pairs /\ RefusedByDaemon

LEMMA WireInit == ConnInit => WireInv
<1> SUFFICES ASSUME ConnInit PROVE WireInv
  OBVIOUS
<1>1. up = <<>> /\ down = <<>> /\ pendingReceives = <<>> /\ daemon = "fresh" /\ auth = "begin"
  BY DEF ConnInit
<1>2. TokenInv /\ Verdicts /\ RefusedByDaemon
  BY <1>1, AmongNothing DEF TokenInv, Token, Stage, Verdicts, RefusedByDaemon
<1>3. Pairs
  BY <1>1, PairsNothing DEF Pairs
<1> QED
  BY <1>2, <1>3, TypeInit DEF WireInv

(* AuthFirst where it holds; elsewhere the pairing does without it. *)
LEMMA AuthFirstIfGuarded == ConnSpec => [](Pacing \/ ReconnectOpen \/ AuthFirst)
<1>1. CASE Pacing \/ ReconnectOpen
  BY <1>1, PTL
<1>2. CASE ~Pacing /\ ~ReconnectOpen
  <2>1. ConnSpec => []AuthFirst
    BY <1>2, RequestsWaitForAuthentication
  <2> QED
    BY <2>1, PTL
<1> QED
  BY <1>1, <1>2

(* Whatever the options and whatever is lost, broken or pushed: the        *)
(* waiters and what is in flight stay paired, the handshake's always.      *)
THEOREM WireIsPaired == ConnSpec => []WireInv
<1>1. WireInv /\ TypeOK' /\ (Pacing \/ ReconnectOpen \/ AuthFirst) /\ [ConnNext]_connVars => WireInv'
  BY TokenStep, VerdictsStep, PairsStep, RefusedStep DEF WireInv
<1> QED
  BY <1>1, WireInit, TypeCorrect, AuthFirstIfGuarded, PTL DEF ConnSpec

(* A connection on which the daemon pushes nothing: every packet that      *)
(* arrives settles a waiter, and none is emitted as a notification.        *)
THEOREM NoReplyIsLost ==
  ASSUME ~Notify
  PROVE  ConnSpec => []NoReplyLost
<1>1. ConnInit => NoReplyLost
  BY DEF ConnInit, NoReplyLost
<1>2. NoReplyLost /\ WireInv /\ [ConnNext]_connVars => NoReplyLost'
  <2> SUFFICES ASSUME NoReplyLost, WireInv, [ConnNext]_connVars PROVE notified' = notified
    BY DEF NoReplyLost
  <2> USE DEF WireInv, connState, exchanges, wire
  <2>1. CASE Aborting
    BY <2>1, AbortingStep
  <2>2. CASE Still
    BY <2>2, StillStep
  <2>3. CASE Reconnect \/ AuthWriteDone \/ \E r \in Req : WriteDone(r)
    BY <2>3 DEF Reconnect, AuthWriteDone, WriteDone
  <2>4. CASE Daemon
    BY <2>4, DaemonStep
  <2>5. CASE Deliver
    BY <2>5, DeliverPaired DEF Undisturbed
  <2>6. CASE UNCHANGED connVars
    BY <2>6 DEF connVars
  <2> QED
    BY <2>1, <2>2, <2>3, <2>4, <2>5, <2>6, NextCases
<1> QED
  BY <1>1, <1>2, WireIsPaired, PTL DEF ConnSpec

(* Every result is the one the call asked for, or an error. *)
LEMMA PairingStep ==
  ASSUME ~Notify, ~Pacing, ~ReconnectOpen, ReplyPairing, WireInv, [ConnNext]_connVars
  PROVE  ReplyPairing'
<1> USE DEF WireInv, connState, exchanges, wire
<1>1. ASSUME NEW r \in Req, NEW o \in {"error", r}, Settle(r, o) PROVE ReplyPairing'
  BY <1>1 DEF Settle, ReplyPairing, TypeOK
<1>2. CASE Aborting
  <2>1. Abort
    BY <1>2, AbortingStep
  <2> QED
    BY <2>1 DEF Abort, RejectPending, RejectWaiting, ReplyPairing
<1>3. CASE Still
  <2>1. ASSUME NEW r \in Req, BeginExchange(r) \/ WriteFailed(r) PROVE ReplyPairing'
    BY <1>1, <2>1 DEF BeginExchange, WriteFailed, ReplyPairing
  <2>2. \/ \E r \in Req : BeginExchange(r) \/ WriteFailed(r)
        \/ result' = result
    BY <1>3 DEF Still, Continuation, PassHold, StartExchange, Pace, Authenticate, AuthWriteFailed,
         Request, PaceElapsed, Close, Arm, AuthSucceed
  <2> QED
    BY <2>1, <2>2 DEF ReplyPairing
<1>4. CASE Reconnect
  BY <1>4 DEF Reconnect, RejectPending, RejectWaiting, ReplyPairing
<1>5. CASE Daemon
  BY <1>5, DaemonStep DEF ReplyPairing
<1>6. CASE AuthWriteDone \/ \E r \in Req : WriteDone(r)
  BY <1>6 DEF AuthWriteDone, WriteDone, ReplyPairing
<1>7. CASE Deliver
  <2>1. pendingReceives # <<>> /\ Answers(Head(down), Head(pendingReceives), daemon)
    BY <1>7, DeliverPaired DEF Undisturbed
  <2>2. CASE DeliverToRequest
    <3> DEFINE r == Head(pendingReceives)
    <3>1. r \in Req /\ Settle(r, Head(down))
      BY <2>2 DEF DeliverToRequest
    <3>2. Head(down) \in Packet /\ Head(down) # "GARBAGE" /\ r # "auth"
      BY <1>7, <3>1, DeliverStep, TailAt, ConnectionAssumption DEF TypeOK
    <3>3. Head(down) \notin AuthReply
      BY <2>1, <3>1, <3>2 DEF Answers
    <3>4. Head(down) # "NOTIFICATION"
      <4>1. None(down, {"NOTIFICATION"})
        BY DEF Verdicts
      <4> QED
        BY <1>7, <4>1, DeliverStep, TailAt DEF None, TypeOK
    <3>5. Head(down) \in {"error", r}
      BY <2>1, <3>2, <3>3, <3>4 DEF Packet, Answers
    <3> QED
      BY <1>1, <3>1, <3>5
  <2>3. CASE ~DeliverToRequest
    BY <1>7, <2>3 DEF Deliver, DeliverToAuth, DeliverAsNotification, ReplyPairing
  <2> QED
    BY <2>2, <2>3
<1>8. CASE UNCHANGED connVars
  BY <1>8 DEF connVars, ReplyPairing
<1> QED
  BY <1>2, <1>3, <1>4, <1>5, <1>6, <1>7, <1>8, NextCases

(* On a connection that is not pushed to, does not pace its requests and   *)
(* is reconnected once it is closed: across timeouts, aborts, broken       *)
(* packets and reconnections, no request() settles with the reply to       *)
(* another, or with a packet of the handshake.                             *)
THEOREM RepliesArePaired ==
  ASSUME ~Notify, ~Pacing, ~ReconnectOpen
  PROVE  ConnSpec => []ReplyPairing
<1>1. ConnInit => ReplyPairing
  BY DEF ConnInit, ReplyPairing
<1> QED
  BY <1>1, PairingStep, WireIsPaired, PTL DEF ConnSpec

-----------------------------------------------------------------------------
(* The chain as its callers see it: what makes it implement RequestReply   *)
(* is that a hold is never behind a call, that a call not settled has no   *)
(* result, and that the exchange that settles is the oldest.               *)
HoldsInFront == \A i \in DOMAIN requestQueue : i # 1 => requestQueue[i] \in Req

NotSettled == \A r \in Req : req[r] # "done" => result[r] = "none"

PromiseInv == AuthInv /\ HoldsInFront /\ NotSettled

Chain == Req \union (Nat \ {0})

LEMMA BehindTheHead ==
  ASSUME NEW q \in Seq(Chain), q # <<>>, \A i \in DOMAIN q : i # 1 => q[i] \in Req
  PROVE  /\ \A i \in DOMAIN Tail(q) : Tail(q)[i] \in Req
         /\ WithoutHold(Tail(q)) = Tail(q)
         /\ WithoutHold(q) = IF Head(q) \in Req THEN q ELSE Tail(q)
<1>1. \A i \in DOMAIN Tail(q) : i + 1 \in DOMAIN q /\ i + 1 # 1 /\ Tail(q)[i] = q[i + 1]
  OBVIOUS
<1>2. \A i \in DOMAIN Tail(q) : Tail(q)[i] \in Req
  BY <1>1
<1>3. Tail(q) # <<>> => Head(Tail(q)) \in Req
  <2>1. Tail(q) \in Seq(Chain)
    BY TailAt
  <2> QED
    BY <1>2, <2>1, TailAt
<1> QED
  BY <1>2, <1>3 DEF WithoutHold

(* The head of the chain settles: the oldest call does. *)
LEMMA SettlePromise ==
  ASSUME PromiseInv, NEW r \in Req, HeadIs(r), NEW o, Settle(r, o)
  PROVE  HoldsInFront' /\ NotSettled' /\ (o \in {"error", r} => Promise!Settle)
<1> USE DEF PromiseInv, AuthInv, ChainInv
<1>1. requestQueue \in Seq(Chain) /\ requestQueue # <<>> /\ Head(requestQueue) = r
  BY DEF TypeOK, HeadIs, Chain
<1>2. requestQueue' = Tail(requestQueue)
  BY DEF Settle
<1>3. /\ \A i \in DOMAIN Tail(requestQueue) : Tail(requestQueue)[i] \in Req
      /\ WithoutHold(requestQueue') = Tail(requestQueue)
      /\ WithoutHold(requestQueue) = requestQueue
  BY <1>1, <1>2, BehindTheHead DEF HoldsInFront
<1>4. HoldsInFront'
  BY <1>2, <1>3 DEF HoldsInFront
<1>5. NotSettled'
  BY DEF Settle, NotSettled, TypeOK
<1>6. o \in {"error", r} => Promise!Settle
  BY <1>1, <1>3 DEF Promise!Settle, Settle
<1> QED
  BY <1>4, <1>5, <1>6

(* Nothing settles. *)
LEMMA StutterPromise ==
  ASSUME PromiseInv, UNCHANGED <<requestQueue, result>>,
         \A r \in Req : req'[r] # "done" => req[r] # "done"
  PROVE  HoldsInFront' /\ NotSettled' /\ UNCHANGED Promise!callVars
  BY DEF PromiseInv, HoldsInFront, NotSettled, Promise!callVars, WithoutHold

(* What waits is rejected: the oldest call, or none. *)
LEMMA RejectPromise ==
  ASSUME PromiseInv, RejectWaiting, requestQueue' = ChainWithoutWaiting
  PROVE  HoldsInFront' /\ NotSettled' /\ (Promise!Settle \/ UNCHANGED Promise!callVars)
<1> USE DEF PromiseInv, AuthInv, ChainInv
<1>1. ASSUME NEW r \in Req, HeadIs(r), req[r] = "waiting"
      PROVE  HoldsInFront' /\ NotSettled' /\ Promise!Settle
  <2>1. \A q \in Req : q # r => req[q] # "waiting"
    BY <1>1 DEF ActiveIsHead, Active, HeadIs
  <2>2. requestQueue \in Seq(Chain) /\ requestQueue # <<>> /\ Head(requestQueue) = r
    BY <1>1 DEF TypeOK, HeadIs, Chain
  <2>3. requestQueue' = Tail(requestQueue)
    BY <1>1 DEF ChainWithoutWaiting
  <2>4. result' = [result EXCEPT ![r] = "error"]
    BY <1>1, <2>1 DEF RejectWaiting, TypeOK
  <2>5. /\ \A i \in DOMAIN Tail(requestQueue) : Tail(requestQueue)[i] \in Req
        /\ WithoutHold(requestQueue') = Tail(requestQueue)
        /\ WithoutHold(requestQueue) = requestQueue
    BY <2>2, <2>3, BehindTheHead DEF HoldsInFront
  <2>6. HoldsInFront'
    BY <2>3, <2>5 DEF HoldsInFront
  <2>7. NotSettled'
    BY DEF RejectWaiting, NotSettled, TypeOK
  <2>8. Promise!Settle
    BY <2>2, <2>4, <2>5 DEF Promise!Settle
  <2> QED
    BY <2>6, <2>7, <2>8
<1>2. CASE ~\E r \in Req : HeadIs(r) /\ req[r] = "waiting"
  <2>1. \A q \in Req : req[q] # "waiting"
    BY <1>2 DEF ActiveIsHead, Active
  <2>2. UNCHANGED <<requestQueue, result>>
    BY <1>2, <2>1 DEF ChainWithoutWaiting, RejectWaiting, TypeOK
  <2>3. \A r \in Req : req'[r] # "done" => req[r] # "done"
    BY DEF RejectWaiting, TypeOK
  <2> QED
    BY <2>2, <2>3, StutterPromise
<1> QED
  BY <1>1, <1>2

(* exchange() as far as its write: it starts, or settles with an error. *)
LEMMA BeginPromise ==
  ASSUME PromiseInv, NEW r \in Req, HeadIs(r), req[r] # "done", BeginExchange(r)
  PROVE  HoldsInFront' /\ NotSettled' /\ (Promise!Settle \/ UNCHANGED Promise!callVars)
<1>1. CASE Settle(r, "error")
  BY <1>1, SettlePromise
<1>2. CASE ~Settle(r, "error")
  <2>1. /\ UNCHANGED <<requestQueue, result>>
        /\ \A q \in Req : req'[q] # "done" => req[q] # "done"
    BY <1>2 DEF BeginExchange, PromiseInv, AuthInv, ChainInv, TypeOK
  <2> QED
    BY <2>1, StutterPromise
<1> QED
  BY <1>1, <1>2

LEMMA PromiseContinuation ==
  ASSUME ~Pacing, PromiseInv, Continuation
  PROVE  HoldsInFront' /\ NotSettled' /\ (Promise!Settle \/ UNCHANGED Promise!callVars)
<1> USE DEF PromiseInv, AuthInv, ChainInv, connState, exchanges, wire
<1>1. CASE PassHold
  <2>1. requestQueue \in Seq(Chain) /\ requestQueue # <<>> /\ requestQueue' = Tail(requestQueue)
    BY <1>1 DEF PassHold, TypeOK, Chain
  <2>2. /\ \A i \in DOMAIN Tail(requestQueue) : Tail(requestQueue)[i] \in Req
        /\ WithoutHold(requestQueue') = WithoutHold(requestQueue)
    BY <1>1, <2>1, BehindTheHead DEF HoldsInFront, PassHold
  <2> QED
    BY <1>1, <2>1, <2>2 DEF PassHold, HoldsInFront, NotSettled, Promise!callVars
<1>2. ASSUME NEW r \in Req, StartExchange(r)
      PROVE  HoldsInFront' /\ NotSettled' /\ (Promise!Settle \/ UNCHANGED Promise!callVars)
  BY <1>2, BeginPromise DEF StartExchange
<1>3. ASSUME NEW r \in Req, WriteFailed(r)
      PROVE  HoldsInFront' /\ NotSettled' /\ (Promise!Settle \/ UNCHANGED Promise!callVars)
  BY <1>3, SettlePromise DEF WriteFailed, ActiveIsHead, Active
<1>4. CASE Authenticate \/ AuthWriteFailed
  BY <1>4, StutterPromise DEF Authenticate, AuthWriteFailed
<1> QED
  BY <1>1, <1>2, <1>3, <1>4 DEF Continuation, Pace

LEMMA PromiseAborting ==
  ASSUME PromiseInv, Aborting
  PROVE  HoldsInFront' /\ NotSettled' /\ (Promise!Settle \/ UNCHANGED Promise!callVars)
<1>1. CASE closed
  <2>1. UNCHANGED <<req, requestQueue, result>>
    BY <1>1, AbortingStep DEF Abort
  <2> QED
    BY <2>1, StutterPromise
<1>2. CASE ~closed
  <2>1. RejectWaiting /\ requestQueue' = ChainWithoutWaiting
    BY <1>2, AbortingStep DEF Abort, RejectPending, RejectWaiting
  <2> QED
    BY <2>1, RejectPromise
<1> QED
  BY <1>1, <1>2

LEMMA PromiseDeliver ==
  ASSUME PromiseInv, Deliver
  PROVE  HoldsInFront' /\ NotSettled' /\ (ReplyPairing' => Promise!Settle \/ UNCHANGED Promise!callVars)
<1> USE DEF PromiseInv, AuthInv, ChainInv
<1>1. CASE pendingReceives # <<>> /\ DeliverToRequest
  <2> DEFINE r == Head(pendingReceives)
  <2>1. r \in Req /\ Settle(r, Head(down)) /\ HeadIs(r)
    BY <1>1 DEF DeliverToRequest, OneWaiter, ActiveIsHead, Active, TypeOK
  <2>2. ReplyPairing' => Head(down) \in {"none", "error", r}
    BY <2>1 DEF Settle, ReplyPairing, TypeOK
  <2>3. Head(down) # "none"
    <3>1. down \in Seq(Packet) /\ down # <<>>
      BY DeliverStep DEF TypeOK
    <3>2. Head(down) \in Packet
      BY <3>1, TailAt
    <3> QED
      BY <3>2, ConnectionAssumption DEF Packet, AuthReply
  <2> QED
    BY <2>1, <2>2, <2>3, SettlePromise
<1>2. CASE ~(pendingReceives # <<>> /\ DeliverToRequest)
  <2>1. UNCHANGED <<req, requestQueue, result>>
    BY <1>2 DEF Deliver, DeliverToAuth, DeliverAsNotification
  <2> QED
    BY <2>1, StutterPromise
<1> QED
  BY <1>1, <1>2

LEMMA PromiseRequest ==
  ASSUME PromiseInv, NEW r \in Req, Request(r)
  PROVE  HoldsInFront' /\ NotSettled' /\ Promise!Request(r)
<1> USE DEF PromiseInv, AuthInv, ChainInv
<1>1. /\ requestQueue \in Seq(Chain) /\ r \in Chain
      /\ requestQueue' = Append(requestQueue, r) /\ result' = result
      /\ req[r] = "idle" /\ req' = [req EXCEPT ![r] = "queued"]
  BY DEF Request, TypeOK, Chain
<1>2. \A i \in DOMAIN requestQueue : requestQueue[i] # r
  BY <1>1 DEF Members
<1>3. HoldsInFront' /\ NotSettled'
  BY <1>1, AppendAt DEF HoldsInFront, NotSettled, TypeOK
<1>4. result[r] = "none"
  BY <1>1 DEF NotSettled
<1>5. CASE requestQueue # <<>> /\ Head(requestQueue) \notin Req
  <2>1. WithoutHold(requestQueue) = Tail(requestQueue)
    BY <1>5 DEF WithoutHold
  <2>2. WithoutHold(requestQueue') = Append(Tail(requestQueue), r)
    BY <1>1, <1>5 DEF WithoutHold
  <2>3. \A i \in DOMAIN Tail(requestQueue) : Tail(requestQueue)[i] # r
    BY <1>1, <1>2, <1>5, TailAt
  <2> QED
    BY <1>1, <1>3, <1>4, <2>1, <2>2, <2>3 DEF Promise!Request
<1>6. CASE ~(requestQueue # <<>> /\ Head(requestQueue) \notin Req)
  <2>1. WithoutHold(requestQueue) = requestQueue
    BY <1>6 DEF WithoutHold
  <2>2. WithoutHold(requestQueue') = Append(requestQueue, r)
    <3>1. Head(Append(requestQueue, r)) \in Req
      BY <1>1, <1>6
    <3> QED
      BY <1>1, <3>1 DEF WithoutHold
  <2> QED
    BY <1>1, <1>2, <1>3, <1>4, <2>1, <2>2 DEF Promise!Request
<1> QED
  BY <1>5, <1>6

LEMMA PromiseReconnect ==
  ASSUME ~ReconnectOpen, PromiseInv, Reconnect
  PROVE  HoldsInFront' /\ NotSettled' /\ UNCHANGED Promise!callVars
<1> USE DEF PromiseInv, AuthInv, ChainInv
<1>1. requestQueue = <<>> /\ requestQueue' = <<socket + 1>>
  <2>1. requestQueue = <<>>
    BY ChainEmptyAtReconnect DEF Reconnect
  <2>2. ChainWithoutWaiting = <<>>
    BY <2>1 DEF ChainWithoutWaiting, HeadIs
  <2>3. requestQueue' = Append(<<>>, socket + 1)
    BY <2>2 DEF Reconnect, HoldBehind
  <2> QED
    BY <2>1, <2>3
<1>2. socket + 1 \notin Req
  BY ConnectionAssumption DEF TypeOK
<1>3. RejectWaiting /\ \A q \in Req : req[q] # "waiting"
  BY DEF Reconnect, RejectPending, InFlight
<1>4. result' = result
  BY <1>3 DEF RejectWaiting, TypeOK
<1>5. WithoutHold(requestQueue) = <<>> /\ WithoutHold(requestQueue') = <<>>
  BY <1>1, <1>2 DEF WithoutHold
<1>6. HoldsInFront' /\ NotSettled'
  BY <1>1, <1>3, <1>4 DEF HoldsInFront, NotSettled, RejectWaiting, TypeOK
<1> QED
  BY <1>4, <1>5, <1>6 DEF Promise!callVars

LEMMA PromiseStep ==
  ASSUME ~Pacing, ~ReconnectOpen, PromiseInv, [ConnNext]_connVars
  PROVE  HoldsInFront' /\ NotSettled' /\ (ReplyPairing' => [Promise!Next]_(Promise!callVars))
<1> USE DEF PromiseInv, AuthInv, ChainInv, connState, exchanges, wire
<1>1. CASE Aborting
  BY <1>1, PromiseAborting DEF Promise!Next
<1>2. CASE Continuation
  BY <1>2, PromiseContinuation DEF Promise!Next
<1>3. ASSUME NEW r \in Req, Request(r) \/ PaceElapsed(r)
      PROVE  HoldsInFront' /\ NotSettled' /\ [Promise!Next]_(Promise!callVars)
  BY <1>3, PromiseRequest DEF PaceElapsed, NotPaced, Promise!Next
<1>4. CASE Close \/ Arm \/ AuthSucceed \/ AuthWriteDone \/ Daemon
  BY <1>4, StutterPromise, DaemonStep DEF Close, Arm, AuthSucceed, AuthWriteDone
<1>5. CASE Reconnect
  BY <1>5, PromiseReconnect
<1>6. CASE Deliver
  BY <1>6, PromiseDeliver DEF Promise!Next
<1>7. ASSUME NEW r \in Req, WriteDone(r)
      PROVE  HoldsInFront' /\ NotSettled' /\ UNCHANGED Promise!callVars
  <2>1. /\ UNCHANGED <<requestQueue, result>>
        /\ \A q \in Req : req'[q] # "done" => req[q] # "done"
    BY <1>7 DEF WriteDone, TypeOK
  <2> QED
    BY <2>1, StutterPromise
<1>8. CASE UNCHANGED connVars
  BY <1>8, StutterPromise DEF connVars
<1> QED
  BY <1>1, <1>2, <1>3, <1>4, <1>5, <1>6, <1>7, <1>8, NextCases DEF Still

LEMMA PromiseInvariant ==
  ASSUME ~Pacing, ~ReconnectOpen
  PROVE  ConnSpec => []PromiseInv
<1>1. ConnInit => HoldsInFront /\ NotSettled
  BY DEF ConnInit, HoldsInFront, NotSettled
<1>2. PromiseInv /\ [ConnNext]_connVars => HoldsInFront' /\ NotSettled'
  BY PromiseStep
<1> QED
  BY <1>1, <1>2, AuthInvariant, PTL DEF ConnSpec, PromiseInv

(* On a connection reconnected once it is closed, a hold is never behind a *)
(* call: whatever was queued on the previous socket failed before.         *)
THEOREM HoldComesFirst ==
  ASSUME ~Pacing, ~ReconnectOpen
  PROVE  ConnSpec => []HoldsInFront
<1>1. PromiseInv => HoldsInFront
  BY DEF PromiseInv
<1> QED
  BY <1>1, PromiseInvariant, PTL

(* The chain, the waiters, the handshake, timeouts and reconnections       *)
(* together implement what request() promises: calls settle in the order   *)
(* they were made, each with its own reply or an error.                    *)
THEOREM ConnectionKeepsPromise ==
  ASSUME ~Notify, ~Pacing, ~ReconnectOpen
  PROVE  ConnSpec => KeepsPromise
<1>1. ConnInit => Promise!Init
  BY DEF ConnInit, WithoutHold, Promise!Init
<1>2. PromiseInv /\ ReplyPairing' /\ [ConnNext]_connVars => [Promise!Next]_(Promise!callVars)
  BY PromiseStep
<1> QED
  BY <1>1, <1>2, PromiseInvariant, RepliesArePaired, PTL DEF ConnSpec, KeepsPromise, Promise!Spec
-----------------------------------------------------------------------------
(* ECEngine drives its connection only as ConnNext allows, so that what is *)
(* proved of the connection holds of it, and its reconnect loop starts,    *)
(* goes on and gives up as it says.                                        *)

(* Every step of the engine is a step of its connection, or none. *)
LEMMA EngineStepIsConnStep == [EngineNext]_engineVars => [ConnNext]_connVars
<1> SUFFICES ASSUME [EngineNext]_engineVars PROVE [ConnNext]_connVars
  OBVIOUS
<1>1. CASE EngineIdle
  BY <1>1 DEF EngineIdle, ConnNext, Internal
<1>2. CASE StartAuthenticated \/ StartFails \/ ArmReconnect \/ Connects \/ Reauthenticated \/ ReauthFails
  BY <1>2 DEF StartAuthenticated, StartFails, ArmReconnect, Connects, Reauthenticated, ReauthFails, ConnNext
<1>3. CASE CacheInitEnds \/ BackoffElapsed \/ ConnectFails \/ UNCHANGED engineVars
  BY <1>3 DEF CacheInitEnds, BackoffElapsed, ConnectFails, engineVars
<1> QED
  BY <1>1, <1>2, <1>3 DEF EngineNext

(* The engine implements the connection it owns: each theorem about        *)
(* ConnSpec is one about EngineSpec.                                       *)
THEOREM EngineDrivesConnection == EngineSpec => ConnSpec
<1>1. EngineInit => ConnInit
  BY DEF EngineInit
<1> QED
  BY <1>1, EngineStepIsConnStep, PTL DEF EngineSpec, ConnSpec

(* The types of the engine and of its connection. *)
THEOREM EngineTypeCorrect == EngineSpec => []EngineTypeOK
<1> DEFINE Known == eng \in EngineState
<1>1. EngineInit => Known
  BY DEF EngineInit, EngineState
<1>2. Known /\ [EngineNext]_engineVars => Known'
  BY DEF EngineState, EngineNext, engineVars, EngineIdle, StartAuthenticated, StartFails, CacheInitEnds,
     ArmReconnect, BackoffElapsed, ConnectFails, Connects, Reauthenticated, ReauthFails, AfterFailure
<1>3. TypeOK /\ Known => EngineTypeOK
  BY DEF EngineTypeOK
<1> QED
  BY <1>1, <1>2, <1>3, EngineDrivesConnection, TypeCorrect, PTL DEF EngineSpec

(* The steps that keep the current socket, on which a daemon that refused  *)
(* has done with it.                                                       *)
OnSocket == Aborting \/ Still \/ Daemon \/ Deliver \/ AuthWriteDone \/ \E r \in Req : WriteDone(r)

LEMMA SameSocket ==
  ASSUME TypeOK, [OnSocket]_connVars
  PROVE  socket' = socket /\ (daemon = "refused" => daemon' = "refused")
<1> USE DEF connState, exchanges, wire
<1>1. CASE Aborting
  BY <1>1, AbortingStep
<1>2. CASE Still
  BY <1>2, StillStep
<1>3. CASE Daemon
  <2>1. socket' = socket
    BY <1>3, DaemonStep
  <2>2. daemon = "refused" => daemon' = "refused"
    BY <1>3, DaemonCases DEF Salted, Authorises, Serves, Rejects, Refuses, Drops, Breaks, Pushes, Gone
  <2> QED
    BY <2>1, <2>2
<1>4. CASE Deliver
  BY <1>4, DeliverStep
<1>5. CASE AuthWriteDone \/ \E r \in Req : WriteDone(r)
  BY <1>5 DEF AuthWriteDone, WriteDone
<1>6. CASE UNCHANGED connVars
  BY <1>6 DEF connVars
<1> QED
  BY <1>1, <1>2, <1>3, <1>4, <1>5, <1>6 DEF OnSocket

LEMMA EngineOnSocket ==
  ASSUME [EngineNext]_engineVars
  PROVE  Connects \/ [OnSocket]_connVars
<1>1. CASE EngineIdle
  BY <1>1 DEF EngineIdle, Pump, Macrotask, OnSocket, Aborting, Still
<1>2. CASE StartAuthenticated \/ StartFails \/ ArmReconnect \/ Reauthenticated \/ ReauthFails
  BY <1>2 DEF StartAuthenticated, StartFails, ArmReconnect, Reauthenticated, ReauthFails, OnSocket, Aborting, Still
<1>3. CASE CacheInitEnds \/ BackoffElapsed \/ ConnectFails \/ UNCHANGED engineVars
  BY <1>3 DEF CacheInitEnds, BackoffElapsed, ConnectFails, engineVars
<1> QED
  BY <1>1, <1>2, <1>3 DEF EngineNext

(* The loop ends only after a failed handshake whose failure was the       *)
(* daemon's refusal: drops, timeouts, broken packets, pushed notifications *)
(* and an AUTH_FAIL that answers something else never end it.              *)
THEOREM LoopEndsOnRefusalOnly == EngineSpec => []GivesUpOnlyIfRefused
<1>1. EngineInit => GivesUpOnlyIfRefused
  BY DEF EngineInit, GivesUpOnlyIfRefused
<1>2. GivesUpOnlyIfRefused /\ WireInv /\ [EngineNext]_engineVars => GivesUpOnlyIfRefused'
  <2> SUFFICES ASSUME GivesUpOnlyIfRefused, WireInv, [EngineNext]_engineVars,
                      eng' = "stopped", ~RequireEncryption
               PROVE  daemon' = "refused"
    BY DEF GivesUpOnlyIfRefused
  <2>1. CASE ReauthFails
    <3>1. auth = "refused" /\ AuthReject
      BY <2>1 DEF ReauthFails, AfterFailure
    <3>2. daemon = "refused"
      BY <3>1 DEF WireInv, RefusedByDaemon
    <3> QED
      BY <3>1, <3>2, AbortingStep DEF Aborting
  <2>2. CASE ~ReauthFails
    <3>1. eng = "stopped" /\ (EngineIdle \/ UNCHANGED engineVars)
      BY <2>2 DEF EngineNext, engineVars, EngineIdle, StartAuthenticated, StartFails, CacheInitEnds,
         ArmReconnect, BackoffElapsed, ConnectFails, Connects, Reauthenticated
    <3>2. daemon = "refused"
      BY <3>1 DEF GivesUpOnlyIfRefused
    <3>3. [OnSocket]_connVars
      BY <3>1, EngineOnSocket DEF Connects
    <3> QED
      BY <3>2, <3>3, SameSocket DEF WireInv
  <2> QED
    BY <2>1, <2>2
<1> QED
  BY <1>1, <1>2, EngineDrivesConnection, WireIsPaired, PTL DEF EngineSpec

(* close() on a watched connection: no later loss, timeout or broken       *)
(* packet wakes the listener, so that the loop does not start.             *)
THEOREM ClosedStaysClosed == EngineSpec => CloseEndsWatching
<1>1. ASSUME [EngineNext]_engineVars, intentionalClose, eng = "armed", listener = "armed"
      PROVE  eng' = "armed" /\ listener' = "armed"
  <2>1. CASE EngineIdle
    <3>1. eng' = "armed"
      BY <1>1, <2>1 DEF EngineIdle
    <3>2. CASE Aborting
      BY <1>1, <3>1, <3>2, AbortingStep DEF Abort, OnClose
    <3>3. CASE ~Aborting
      <4>1. listener' = listener
        BY <2>1, <3>3 DEF EngineIdle, Aborting, Macrotask, Pump, Continuation, PassHold, StartExchange, Pace,
           WriteFailed, Authenticate, AuthWriteFailed, PaceElapsed, WriteDone, AuthWriteDone, Deliver, Close,
           Request, BeginExchange, Daemon, DaemonReceive, DaemonRefuse, DaemonDrop, DaemonGarbage, DaemonPush,
           connState
      <4> QED
        BY <1>1, <3>1, <4>1
    <3> QED
      BY <3>2, <3>3
  <2>2. CASE UNCHANGED engineVars
    BY <1>1, <2>2 DEF engineVars, connVars, connState
  <2> QED
    BY <1>1, <2>1, <2>2 DEF EngineNext, StartAuthenticated, StartFails, CacheInitEnds, ArmReconnect,
       BackoffElapsed, BackingOff, ConnectFails, Connects, Reauthenticated, ReauthFails
<1>2. [EngineNext]_engineVars =>
        [intentionalClose /\ eng = "armed" /\ listener = "armed"
           => eng' = "armed" /\ listener' = "armed"]_engineVars
  BY <1>1
<1> QED
  BY <1>2, PTL DEF EngineSpec, CloseEndsWatching

(* The loop runs on a closed connection only. *)
LoopRunsClosed ==
  /\ eng \in {"backoff", "connecting"} => closed
  /\ eng = "armed" /\ listener = "fired" => closed

(* The reconnect loop calls reconnect() on closed connections only: what   *)
(* the theorems with ~ReconnectOpen assume of the owner, the engine does.  *)
THEOREM LoopReconnectsClosed == EngineSpec => ReconnectsClosed
<1>1. EngineInit => LoopRunsClosed
  BY DEF EngineInit, LoopRunsClosed
<1>2. TypeOK /\ LoopRunsClosed /\ [EngineNext]_engineVars => LoopRunsClosed'
  <2> SUFFICES ASSUME TypeOK, LoopRunsClosed, [EngineNext]_engineVars PROVE LoopRunsClosed'
    OBVIOUS
  <2> USE DEF connVars, connState
  <2>1. CASE EngineIdle
    <3>1. eng' = eng
      BY <2>1 DEF EngineIdle
    <3>2. CASE Aborting
      BY <3>2, AbortingStep, AbortSweeps DEF LoopRunsClosed
    <3>3. CASE ~Aborting
      <4>1. listener' = listener /\ closed' = closed
        BY <2>1, <3>3 DEF EngineIdle, Aborting, Macrotask, Pump, Continuation, PassHold, StartExchange, Pace,
           WriteFailed, Authenticate, AuthWriteFailed, PaceElapsed, WriteDone, AuthWriteDone, Deliver, Close,
           Request, BeginExchange, Daemon, DaemonReceive, DaemonRefuse, DaemonDrop, DaemonGarbage, DaemonPush
      <4> QED
        BY <3>1, <4>1 DEF LoopRunsClosed
    <3> QED
      BY <3>2, <3>3
  <2>2. CASE ReauthFails
    <3>1. closed'
      BY <2>2, AbortingStep, AbortSweeps DEF ReauthFails, Aborting
    <3> QED
      BY <3>1 DEF LoopRunsClosed
  <2>3. CASE BackoffElapsed \/ ConnectFails
    BY <2>3 DEF BackoffElapsed, BackingOff, ConnectFails, LoopRunsClosed
  <2>4. CASE ArmReconnect
    BY <2>4 DEF ArmReconnect, Arm, LoopRunsClosed
  <2>5. CASE StartAuthenticated \/ StartFails \/ CacheInitEnds \/ Connects \/ Reauthenticated
    BY <2>5 DEF StartAuthenticated, StartFails, CacheInitEnds, Connects, Reauthenticated, LoopRunsClosed
  <2>6. CASE UNCHANGED engineVars
    BY <2>6 DEF engineVars, LoopRunsClosed
  <2> QED
    BY <2>1, <2>2, <2>3, <2>4, <2>5, <2>6 DEF EngineNext
<1>3. ASSUME TypeOK, LoopRunsClosed, [EngineNext]_engineVars, socket' # socket PROVE closed
  <2>1. CASE Connects
    BY <1>3, <2>1 DEF LoopRunsClosed, Connects
  <2>2. CASE [OnSocket]_connVars
    BY <1>3, <2>2, SameSocket
  <2> QED
    BY <1>3, <2>1, <2>2, EngineOnSocket
<1>4. TypeOK /\ LoopRunsClosed /\ [EngineNext]_engineVars => [socket' # socket => closed]_engineVars
  BY <1>3
<1> QED
  BY <1>1, <1>2, <1>4, EngineDrivesConnection, TypeCorrect, PTL DEF EngineSpec, ReconnectsClosed

(* So that, whether or not reconnect() would accept an open connection, no *)
(* request of an engine that does not pace them reaches a daemon that has  *)
(* not authorised the socket.                                              *)
THEOREM EngineRequestsWait ==
  ASSUME ~Pacing
  PROVE  EngineSpec => []AuthFirst
<1>1. EngineInit => AuthInv
  BY AuthInit DEF EngineInit
<1>2. AuthInv /\ [EngineNext]_engineVars /\ [socket' # socket => closed]_engineVars => AuthInv'
  <2> SUFFICES ASSUME AuthInv, [EngineNext]_engineVars, [socket' # socket => closed]_engineVars
               PROVE  AuthInv'
    OBVIOUS
  <2>1. Reconnect => closed
    <3>1. Reconnect => socket' # socket
      BY DEF Reconnect, AuthInv, ChainInv, TypeOK
    <3> QED
      BY <3>1 DEF engineVars, connVars, connState
  <2> QED
    BY <2>1, EngineStepIsConnStep, AuthStepKeeps
<1> QED
  BY <1>1, <1>2, AuthInvIsAuthFirst, LoopReconnectsClosed, PTL DEF EngineSpec, ReconnectsClosed
=============================================================================
