------------------------ MODULE ECTransmissionProofs ------------------------
(***************************************************************************)
(* Proofs about ECTransmission, for any lengths, limits and numbers of     *)
(* packets and sockets.                                                    *)
(***************************************************************************)
EXTENDS ECTransmission, SequenceTheorems, TLAPS

(* What sealing rests on: a nonce used on this socket was used with its    *)
(* session and is below its counter, one used on another socket belongs to *)
(* an older one.                                                           *)
Spent(nonce) ==
  \/ nonce.stream < stream
  \/ nonce.stream = stream /\ session.set /\ nonce.counter < session.tx

NonceInv ==
  /\ stream \in Nat
  /\ session \in [set : BOOLEAN, tx : Nat, rx : Nat]
  /\ nonces \in Seq([stream : Nat, counter : Nat])
  /\ \A i \in DOMAIN nonces : Spent(nonces[i])
  /\ NonceUnique

LEMMA ElementAt ==
  ASSUME NEW S, NEW s \in Seq(S), NEW i \in DOMAIN s
  PROVE  s[i] \in S
BY LenProperties, ElementOfSeq

(* Any nonce that is not spent can be added to those that are.             *)
LEMMA FreshNonce ==
  ASSUME NonceInv, session.set
  PROVE  LET more == Append(nonces, [stream |-> stream, counter |-> session.tx]) IN
         /\ more \in Seq([stream : Nat, counter : Nat])
         /\ \A i, j \in DOMAIN more : more[i] = more[j] => i = j
         /\ \A i \in DOMAIN more :
              \/ more[i].stream < stream
              \/ more[i].stream = stream /\ more[i].counter < session.tx + 1
<1> DEFINE more == Append(nonces, [stream |-> stream, counter |-> session.tx])
<1>1. /\ [stream |-> stream, counter |-> session.tx] \in [stream : Nat, counter : Nat]
      /\ nonces \in Seq([stream : Nat, counter : Nat])
  BY DEF NonceInv
<1>2. /\ more \in Seq([stream : Nat, counter : Nat])
      /\ Len(more) = Len(nonces) + 1 /\ Len(nonces) \in Nat
      /\ DOMAIN more = 1..Len(more) /\ DOMAIN nonces = 1..Len(nonces)
      /\ more[Len(more)] = [stream |-> stream, counter |-> session.tx]
      /\ \A i \in DOMAIN nonces : more[i] = nonces[i]
  BY <1>1
<1>3. ASSUME NEW i \in DOMAIN nonces
      PROVE  /\ nonces[i] \in [stream : Nat, counter : Nat]
             /\ nonces[i] # [stream |-> stream, counter |-> session.tx]
  <2>1. nonces[i] \in [stream : Nat, counter : Nat]
    BY <1>1, ElementAt
  <2>2. Spent(nonces[i]) /\ stream \in Nat /\ session.tx \in Nat
    BY DEF NonceInv
  <2> QED  BY <2>1, <2>2 DEF Spent
<1>4. \A i, j \in DOMAIN more : more[i] = more[j] => i = j
  BY <1>2, <1>3 DEF NonceInv, NonceUnique
<1>5. ASSUME NEW i \in DOMAIN more
      PROVE  \/ more[i].stream < stream
             \/ more[i].stream = stream /\ more[i].counter < session.tx + 1
  <2>0. stream \in Nat /\ session.tx \in Nat
    BY DEF NonceInv
  <2>1. CASE i = Len(more)
    BY <2>0, <2>1, <1>2
  <2>2. CASE i # Len(more)
    <3>1. i \in DOMAIN nonces /\ more[i] = nonces[i]
      BY <2>2, <1>2
    <3>2. Spent(nonces[i]) /\ nonces[i] \in [stream : Nat, counter : Nat]
      BY <3>1, <1>3 DEF NonceInv
    <3> QED  BY <3>1, <3>2, <2>0 DEF Spent
  <2> QED  BY <2>1, <2>2
<1> QED  BY <1>2, <1>4, <1>5

LEMMA NonceInit == StreamInit => NonceInv
BY DEF StreamInit, NonceInv, NonceUnique, NoSession, Spent

LEMMA NonceSend == NonceInv /\ Send => NonceInv'
<1> SUFFICES ASSUME NonceInv, Send PROVE NonceInv'
  OBVIOUS
<1>1. stream' = stream /\ stream \in Nat /\ session \in [set : BOOLEAN, tx : Nat, rx : Nat]
  BY DEF Send, NonceInv
<1>2. CASE session.set
  <2>1. /\ nonces' = Append(nonces, [stream |-> stream, counter |-> session.tx])
        /\ session' = [session EXCEPT !.tx = session.tx + 1]
    BY <1>2 DEF Send, NextCounter
  <2>2. session' \in [set : BOOLEAN, tx : Nat, rx : Nat] /\ session'.tx = session.tx + 1 /\ session'.set
    BY <2>1, <1>1, <1>2
  <2>3. /\ nonces' \in Seq([stream : Nat, counter : Nat])
        /\ \A i, j \in DOMAIN nonces' : nonces'[i] = nonces'[j] => i = j
        /\ \A i \in DOMAIN nonces' :
             \/ nonces'[i].stream < stream
             \/ nonces'[i].stream = stream /\ nonces'[i].counter < session.tx + 1
    BY <2>1, <1>2, FreshNonce
  <2> QED  BY <1>1, <2>2, <2>3 DEF NonceInv, NonceUnique, Spent
<1>3. CASE ~session.set
  BY <1>1, <1>3 DEF Send, NonceInv, NonceUnique, Spent
<1> QED  BY <1>2, <1>3

(* A session is established where there was none, and so where nothing was *)
(* sealed on this socket.                                                  *)
LEMMA NonceEstablish == NonceInv /\ Establish => NonceInv'
<1> SUFFICES ASSUME NonceInv, Establish PROVE NonceInv'
  OBVIOUS
<1>1. \A i \in DOMAIN nonces : nonces[i].stream < stream
  BY DEF NonceInv, Establish, Spent
<1> QED  BY <1>1 DEF NonceInv, Establish, NoSession, NonceUnique, Spent

LEMMA NonceNewStream == NonceInv /\ NewStream => NonceInv'
<1> SUFFICES ASSUME NonceInv, NewStream PROVE NonceInv'
  OBVIOUS
<1>1. /\ stream' = stream + 1 /\ nonces' = nonces /\ session' = NoSession
      /\ stream \in Nat /\ nonces \in Seq([stream : Nat, counter : Nat])
  BY DEF NonceInv, NewStream
<1>2. ASSUME NEW i \in DOMAIN nonces PROVE nonces[i].stream < stream'
  <2>1. nonces[i] \in [stream : Nat, counter : Nat] /\ Spent(nonces[i])
    BY <1>1, ElementAt DEF NonceInv
  <2> QED  BY <1>1, <2>1 DEF Spent
<1> QED  BY <1>1, <1>2 DEF NonceInv, NoSession, NonceUnique, Spent

(* Opening a body moves the other counter.                                 *)
LEMMA NonceReadBody == NonceInv /\ ReadBody => NonceInv'
<1> SUFFICES ASSUME NonceInv, ReadBody PROVE NonceInv'
  OBVIOUS
<1>1. session \in [set : BOOLEAN, tx : Nat, rx : Nat] /\ UNCHANGED <<stream, nonces>>
  BY DEF ReadBody, NonceInv
<1>2. session' = session \/ session' = [session EXCEPT !.rx = session.rx + 1]
  BY DEF ReadBody, Refuse, NextCounter
<1>3. /\ session' \in [set : BOOLEAN, tx : Nat, rx : Nat]
      /\ session'.set = session.set /\ session'.tx = session.tx
  BY <1>1, <1>2
<1> QED  BY <1>1, <1>3 DEF NonceInv, NonceUnique, Spent

LEMMA NonceStep == NonceInv /\ [StreamNext]_streamVars => NonceInv'
<1> SUFFICES ASSUME NonceInv, [StreamNext]_streamVars PROVE NonceInv'
  OBVIOUS
<1>1. CASE Send
  BY <1>1, NonceSend
<1>2. CASE Establish
  BY <1>2, NonceEstablish
<1>3. CASE NewStream
  BY <1>3, NonceNewStream
<1>4. CASE ReadBody
  BY <1>4, NonceReadBody
<1>5. CASE UNCHANGED <<stream, session, nonces>>
  BY <1>5 DEF NonceInv, NonceUnique, Spent
<1>6. ASSUME Authorise \/ DaemonOpens \/ DaemonPosts \/ ReadHeader \/ OnData \/ SocketLost
             \/ UNCHANGED streamVars
      PROVE  UNCHANGED <<stream, session, nonces>>
  BY <1>6 DEF Authorise, DaemonOpens, DaemonPosts, ReadHeader, Refuse, OnData, SocketLost, streamVars
<1> QED  BY <1>1, <1>2, <1>3, <1>4, <1>5, <1>6 DEF StreamNext, Pump

(* No nonce is used twice with the keys of one socket: neither a write     *)
(* that fails after its packet was sealed (send()) nor a reconnection nor  *)
(* a session set while packets are written brings a counter back.          *)
THEOREM NoncesNeverRepeat == StreamSpec => []NonceUnique
<1>1. NonceInv => NonceUnique
  BY DEF NonceInv
<1> QED  BY <1>1, NonceInit, NonceStep, PTL DEF StreamSpec

-----------------------------------------------------------------------------
(* What keeps packets whole: the bytes received and not read yet, followed *)
(* by those on their way, are in line.  Each is followed by the next of    *)
(* its packet, or by the first of the next packet; the first is the one    *)
(* the pump expects, and the last ends the last packet posted.             *)
Place == [stream : Nat, packet : Nat, at : Nat]
EndOf(frames, packet) == HeaderSize + frames[packet].body

Follows(frames, a, b) ==
  \/ b.packet = a.packet /\ b.at = a.at + 1 /\ a.at < EndOf(frames, a.packet)
  \/ b.packet = a.packet + 1 /\ b.at = 1 /\ a.at = EndOf(frames, a.packet)

(* The place of the byte the pump reads next.                              *)
Expects(frames, head, done) ==
  IF head = NoHeader THEN [packet |-> Len(done) + 1, at |-> 1]
  ELSE IF frames[head.packet].body = 0 THEN [packet |-> head.packet + 1, at |-> 1]
  ELSE [packet |-> head.packet, at |-> HeaderSize + 1]

InLine(bytes, frames, first) ==
  /\ bytes \in Seq(Place)
  /\ \A i \in DOMAIN bytes : bytes[i].packet \in DOMAIN frames
  /\ \A i \in DOMAIN bytes : i + 1 \in DOMAIN bytes => Follows(frames, bytes[i], bytes[i + 1])
  /\ bytes # <<>> => /\ bytes[1].packet = first.packet /\ bytes[1].at = first.at
                     /\ bytes[Len(bytes)].packet = Len(frames)
                     /\ bytes[Len(bytes)].at = EndOf(frames, Len(frames))
  /\ bytes = <<>> => first.packet = Len(frames) + 1 /\ first.at = 1

OrderInv ==
  /\ stream \in Nat
  /\ posted \in Seq(Frame) /\ \A k \in DOMAIN posted : posted[k].number = k
  /\ dispatched \in Seq(Frame)
  /\ buffer \in Seq(Place) /\ inFlight \in Seq(Place)
  /\ header # NoHeader => /\ header \in [packet : DOMAIN posted]
                          /\ header.packet = Len(dispatched) + 1
  /\ InLine(buffer \o inFlight, posted, Expects(posted, header, dispatched))

LEMMA Joined ==
  ASSUME NEW S, NEW s \in Seq(S), NEW t \in Seq(S)
  PROVE  /\ s \o t \in Seq(S) /\ Len(s \o t) = Len(s) + Len(t)
         /\ DOMAIN (s \o t) = 1..(Len(s) + Len(t))
         /\ \A i \in 1..Len(s) : (s \o t)[i] = s[i]
         /\ \A i \in (Len(s) + 1)..(Len(s) + Len(t)) : (s \o t)[i] = t[i - Len(s)]
<1>1. /\ s \o t \in Seq(S) /\ Len(s \o t) = Len(s) + Len(t)
      /\ \A i \in 1..(Len(s) + Len(t)) : (s \o t)[i] = IF i <= Len(s) THEN s[i] ELSE t[i - Len(s)]
  BY ConcatProperties
<1>2. Len(s) \in Nat /\ Len(t) \in Nat /\ DOMAIN (s \o t) = 1..Len(s \o t)
  BY <1>1, LenProperties
<1> QED  BY <1>1, <1>2

LEMMA Dropped ==
  ASSUME NEW S, NEW s \in Seq(S), NEW n \in 0..Len(s)
  PROVE  LET rest == SubSeq(s, n + 1, Len(s)) IN
         /\ rest \in Seq(S) /\ Len(rest) = Len(s) - n /\ DOMAIN rest = 1..(Len(s) - n)
         /\ \A i \in 1..(Len(s) - n) : rest[i] = s[n + i]
<1> DEFINE rest == SubSeq(s, n + 1, Len(s))
<1>1. Len(s) \in Nat /\ n \in Nat /\ n <= Len(s) /\ n + 1 \in Int /\ Len(s) \in Int
  BY LenProperties
<1>2. \A i \in (n + 1)..Len(s) : s[i] \in S
  BY <1>1, ElementOfSeq
<1>3. /\ rest \in Seq(S)
      /\ Len(rest) = IF n + 1 <= Len(s) THEN Len(s) - (n + 1) + 1 ELSE 0
      /\ \A i \in 1..(Len(s) - (n + 1) + 1) : rest[i] = s[(n + 1) + i - 1]
  BY <1>1, <1>2, SubSeqProperties
<1>4. DOMAIN rest = 1..Len(rest)
  BY <1>3, LenProperties
<1> HIDE DEF rest
<1>5. Len(rest) = Len(s) - n
  BY <1>1, <1>3
<1>6. \A i \in 1..(Len(s) - n) : (n + 1) + i - 1 = n + i /\ Len(s) - (n + 1) + 1 = Len(s) - n
  BY <1>1
<1>7. \A i \in 1..(Len(s) - n) : rest[i] = s[n + i]
  BY <1>1, <1>3, <1>6
<1> QED  BY <1>3, <1>4, <1>5, <1>7 DEF rest

LEMMA FrameFields ==
  ASSUME NEW frames \in Seq(Frame), NEW k \in DOMAIN frames
  PROVE  /\ frames[k] \in Frame /\ frames[k].body \in Nat /\ frames[k].number \in Nat
         /\ k \in Nat \ {0} /\ k <= Len(frames) /\ Len(frames) \in Nat
         /\ EndOf(frames, k) \in Nat \ {0} /\ HeaderSize \in Nat \ {0}
<1>1. frames[k] \in Frame /\ k \in 1..Len(frames) /\ Len(frames) \in Nat
  BY ElementOfSeq, LenProperties
<1>2. frames[k].body \in Nat /\ frames[k].number \in Nat
  BY <1>1, TransmissionAssumption DEF Frame
<1> QED  BY <1>1, <1>2, TransmissionAssumption DEF EndOf

(* A packet posted goes to the end of the line.                            *)
LEMMA BytesOfFrame ==
  ASSUME NEW frame \in Frame, stream \in Nat
  PROVE  /\ BytesOf(frame) \in Seq(Place)
         /\ DOMAIN BytesOf(frame) = 1..(HeaderSize + frame.body)
         /\ Len(BytesOf(frame)) = HeaderSize + frame.body
         /\ HeaderSize + frame.body \in Nat \ {0}
         /\ \A i \in 1..(HeaderSize + frame.body) :
              BytesOf(frame)[i].packet = frame.number /\ BytesOf(frame)[i].at = i
<1> DEFINE n == HeaderSize + frame.body
<1>1. n \in Nat \ {0} /\ frame.number \in Nat
  BY TransmissionAssumption DEF Frame
<1>2. BytesOf(frame) \in [1..n -> Place]
  BY <1>1 DEF BytesOf, Place
<1>3. BytesOf(frame) \in Seq(Place)
  BY <1>1, <1>2, SeqDef
<1>4. Len(BytesOf(frame)) = n
  BY <1>1, <1>2, <1>3, LenProperties
<1> QED  BY <1>1, <1>2, <1>3, <1>4 DEF BytesOf

LEMMA PostedInLine ==
  ASSUME NEW frames \in Seq(Frame), NEW frame \in Frame, NEW bytes, NEW first,
         stream \in Nat, frame.number = Len(frames) + 1, InLine(bytes, frames, first)
  PROVE  InLine(bytes \o BytesOf(frame), Append(frames, frame), first)
<1> DEFINE more == BytesOf(frame)
           n == HeaderSize + frame.body
           line == bytes \o more
           all == Append(frames, frame)
           m == Len(bytes)
<1>1. /\ more \in Seq(Place) /\ Len(more) = n /\ n \in Nat \ {0}
      /\ \A i \in 1..n : more[i].packet = frame.number /\ more[i].at = i
  BY BytesOfFrame
<1>2. bytes \in Seq(Place) /\ m \in Nat /\ DOMAIN bytes = 1..m
  BY LenProperties DEF InLine
<1> HIDE DEF more, n, m
<1>3. /\ line \in Seq(Place) /\ Len(line) = m + n /\ DOMAIN line = 1..(m + n)
      /\ \A i \in 1..m : line[i] = bytes[i]
      /\ \A i \in (m + 1)..(m + n) : line[i] = more[i - m]
  <2>1. /\ line \in Seq(Place) /\ Len(line) = Len(bytes) + Len(more)
        /\ DOMAIN line = 1..(Len(bytes) + Len(more))
        /\ \A i \in 1..Len(bytes) : line[i] = bytes[i]
        /\ \A i \in (Len(bytes) + 1)..(Len(bytes) + Len(more)) : line[i] = more[i - Len(bytes)]
    BY <1>1, <1>2, Joined, ZenonT(30)
  <2>2. Len(bytes) = m /\ Len(more) = n
    BY <1>1 DEF m
  <2> HIDE DEF line
  <2> QED  BY <2>1, <2>2
<1>4. /\ Len(all) = Len(frames) + 1 /\ Len(frames) \in Nat
      /\ DOMAIN frames = 1..Len(frames) /\ DOMAIN all = 1..Len(all)
      /\ \A k \in DOMAIN frames : all[k] = frames[k]
      /\ all[Len(all)] = frame
  BY AppendProperties, LenProperties
<1>5. \A k \in DOMAIN frames : EndOf(all, k) = EndOf(frames, k)
  BY <1>4 DEF EndOf
<1>6. EndOf(all, Len(all)) = n
  BY <1>4 DEF EndOf, n
<1> HIDE DEF line, all, m
<1>7. ASSUME NEW i \in DOMAIN line PROVE line[i].packet \in DOMAIN all
  <2>1. CASE i \in 1..m
    BY <1>2, <1>3, <1>4, <2>1 DEF InLine
  <2>2. CASE i \in (m + 1)..(m + n)
    <3>1. i - m \in 1..n  BY <2>2, <1>1, <1>2
    <3> QED  BY <1>1, <1>3, <1>4, <2>2, <3>1
  <2> QED  BY <1>1, <1>2, <1>3, <2>1, <2>2
<1>8. ASSUME NEW i \in DOMAIN line, i + 1 \in DOMAIN line PROVE Follows(all, line[i], line[i + 1])
  <2>0. i \in 1..(m + n) /\ i + 1 \in 1..(m + n)
    BY <1>3, <1>8
  <2>1. CASE i + 1 <= m
    <3>1. i \in 1..m /\ i + 1 \in 1..m  BY <1>2, <2>0, <2>1
    <3>2. Follows(frames, bytes[i], bytes[i + 1]) /\ bytes[i].packet \in DOMAIN frames
      BY <1>2, <3>1 DEF InLine
    <3> QED  BY <1>3, <1>5, <3>1, <3>2 DEF Follows
  <2>2. CASE i = m
    <3>1. bytes # <<>> /\ m \in 1..m
      BY <1>2, <2>0, <2>2, EmptySeq DEF m
    <3>2. bytes[m].packet = Len(frames) /\ bytes[m].at = EndOf(frames, Len(frames))
          /\ Len(frames) \in DOMAIN frames
      BY <1>2, <3>1 DEF InLine, m
    <3>3. line[i + 1] = more[1] /\ line[i] = bytes[m]
      BY <1>1, <1>2, <1>3, <2>0, <2>2, <3>1
    <3>4. more[1].packet = Len(frames) + 1 /\ more[1].at = 1
      BY <1>1
    <3> QED  BY <1>5, <3>2, <3>3, <3>4 DEF Follows
  <2>3. CASE i > m
    <3> DEFINE j == i - m
    <3>1. j \in 1..n /\ j + 1 \in 1..n /\ j < n /\ (i + 1) - m = j + 1
          /\ i \in (m + 1)..(m + n) /\ i + 1 \in (m + 1)..(m + n)
      BY <1>1, <1>2, <2>0, <2>3, SMTT(20)
    <3>2. line[i] = more[j] /\ line[i + 1] = more[j + 1]
      BY <1>3, <3>1
    <3> HIDE DEF j
    <3>3. more[j].packet = Len(all) /\ more[j].at = j
          /\ more[j + 1].packet = Len(all) /\ more[j + 1].at = j + 1
      BY <1>1, <1>4, <3>1
    <3> QED  BY <1>6, <3>1, <3>2, <3>3 DEF Follows
  <2> QED  BY <1>1, <1>2, <2>0, <2>1, <2>2, <2>3
<1>9. line # <<>> /\ line[Len(line)].packet = Len(all) /\ line[Len(line)].at = EndOf(all, Len(all))
  <2>1. m + n \in (m + 1)..(m + n) /\ (m + n) - m = n /\ n \in 1..n /\ m + n # 0
    BY <1>1, <1>2
  <2> QED  BY <1>1, <1>3, <1>4, <1>6, <2>1, EmptySeq
<1>10. line[1].packet = first.packet /\ line[1].at = first.at
  <2>1. CASE bytes = <<>>
    <3>1. m = 0  BY <2>1, EmptySeq DEF m
    <3>2. 1 \in (m + 1)..(m + n) /\ 1 - m = 1  BY <1>1, <3>1
    <3>3. first.packet = Len(frames) + 1 /\ first.at = 1  BY <2>1 DEF InLine
    <3> QED  BY <1>1, <1>3, <3>2, <3>3
  <2>2. CASE bytes # <<>>
    <3>1. 1 \in 1..m  BY <1>2, <2>2, EmptySeq DEF m
    <3> QED  BY <1>3, <2>2, <3>1 DEF InLine
  <2> QED  BY <2>1, <2>2
<1> QED  BY <1>3, <1>7, <1>8, <1>9, <1>10 DEF InLine, line, all, more

(* Bytes read leave the line as one that starts where they end.            *)
LEMMA ReadInLine ==
  ASSUME NEW frames \in Seq(Frame), NEW bytes, NEW first, NEW next,
         InLine(bytes, frames, first), NEW n \in 1..Len(bytes),
         n < Len(bytes) => bytes[n + 1].packet = next.packet /\ bytes[n + 1].at = next.at,
         n = Len(bytes) => next.packet = Len(frames) + 1 /\ next.at = 1
  PROVE  InLine(SubSeq(bytes, n + 1, Len(bytes)), frames, next)
<1> DEFINE rest == SubSeq(bytes, n + 1, Len(bytes))
           m == Len(bytes)
<1>0. bytes \in Seq(Place)
  BY DEF InLine
<1>1. bytes \in Seq(Place) /\ m \in Nat /\ DOMAIN bytes = 1..m /\ n \in 1..m /\ n \in 0..m
  BY <1>0, LenProperties
<1> HIDE DEF m
<1>2. /\ rest \in Seq(Place) /\ Len(rest) = m - n /\ DOMAIN rest = 1..(m - n)
      /\ \A i \in 1..(m - n) : rest[i] = bytes[n + i]
  BY <1>1, Dropped DEF m
<1> HIDE DEF rest, m
<1>3. \A i \in DOMAIN rest : n + i \in DOMAIN bytes /\ rest[i] = bytes[n + i]
  BY <1>1, <1>2
<1>4. ASSUME NEW i \in DOMAIN rest, i + 1 \in DOMAIN rest
      PROVE  Follows(frames, rest[i], rest[i + 1])
  <2>1. rest[i] = bytes[n + i] /\ rest[i + 1] = bytes[(n + i) + 1]
        /\ n + i \in DOMAIN bytes /\ (n + i) + 1 \in DOMAIN bytes
    BY <1>1, <1>2, <1>3, <1>4
  <2> QED  BY <2>1 DEF InLine
<1>5. ASSUME rest # <<>>
      PROVE  /\ rest[1].packet = next.packet /\ rest[1].at = next.at
             /\ rest[Len(rest)].packet = Len(frames)
             /\ rest[Len(rest)].at = EndOf(frames, Len(frames))
  <2>1. m - n \in Nat \ {0}
    BY <1>1, <1>2, <1>5, EmptySeq
  <2>2. 1 \in 1..(m - n) /\ m - n \in 1..(m - n) /\ n + (m - n) = m /\ n < m /\ m # 0
    BY <1>1, <2>1
  <2>3. rest[1] = bytes[n + 1] /\ rest[m - n] = bytes[m] /\ bytes # <<>>
    BY <1>2, <2>2, EmptySeq DEF m
  <2> QED  BY <1>1, <1>2, <2>2, <2>3 DEF InLine, m
<1>6. ASSUME rest = <<>> PROVE n = m
  BY <1>1, <1>2, <1>6, EmptySeq
<1> QED  BY <1>2, <1>3, <1>4, <1>5, <1>6 DEF InLine, rest, m

LEMMA Taken ==
  ASSUME NEW S, NEW s \in Seq(S), NEW n \in 0..Len(s)
  PROVE  /\ SubSeq(s, 1, n) \in Seq(S)
         /\ DOMAIN SubSeq(s, 1, n) = 1..n /\ \A i \in 1..n : SubSeq(s, 1, n)[i] = s[i]
<1> DEFINE part == SubSeq(s, 1, n)
<1>1. Len(s) \in Nat /\ n \in Nat /\ n <= Len(s) /\ n \in Int /\ 1 \in Int
  BY LenProperties
<1>2. \A i \in 1..n : s[i] \in S
  BY <1>1, ElementOfSeq
<1>3. /\ part \in Seq(S) /\ Len(part) = IF 1 <= n THEN n - 1 + 1 ELSE 0
      /\ \A i \in 1..(n - 1 + 1) : part[i] = s[1 + i - 1]
  BY <1>1, <1>2, SubSeqProperties
<1>4. DOMAIN part = 1..Len(part)
  BY <1>3, LenProperties
<1> HIDE DEF part
<1>5. Len(part) = n /\ n - 1 + 1 = n /\ \A i \in 1..n : 1 + i - 1 = i
  BY <1>1, <1>3
<1> QED  BY <1>1, <1>3, <1>4, <1>5 DEF part

LEMMA RestOfLine ==
  ASSUME NEW S, NEW s \in Seq(S), NEW t \in Seq(S), NEW n \in 0..Len(s)
  PROVE  SubSeq(s, n + 1, Len(s)) \o t = SubSeq(s \o t, n + 1, Len(s \o t))
<1> DEFINE rest == SubSeq(s, n + 1, Len(s))
           left == rest \o t
           line == s \o t
           right == SubSeq(line, n + 1, Len(line))
<1>1. /\ rest \in Seq(S) /\ Len(rest) = Len(s) - n
      /\ \A i \in 1..(Len(s) - n) : rest[i] = s[n + i]
  BY Dropped
<1>2. /\ line \in Seq(S) /\ Len(line) = Len(s) + Len(t)
      /\ \A i \in 1..Len(s) : line[i] = s[i]
      /\ \A i \in (Len(s) + 1)..(Len(s) + Len(t)) : line[i] = t[i - Len(s)]
  BY Joined
<1>0. Len(s) \in Nat /\ Len(t) \in Nat /\ n \in 0..Len(s)
  BY LenProperties
<1> HIDE DEF rest, line
<1>3. /\ left \in Seq(S) /\ Len(left) = Len(rest) + Len(t)
      /\ \A i \in 1..Len(rest) : left[i] = rest[i]
      /\ \A i \in (Len(rest) + 1)..(Len(rest) + Len(t)) : left[i] = t[i - Len(rest)]
  BY <1>1, Joined
<1>4. n \in 0..Len(line)
  BY <1>0, <1>2
<1>5. /\ right \in Seq(S) /\ Len(right) = Len(line) - n
      /\ \A i \in 1..(Len(line) - n) : right[i] = line[n + i]
  BY <1>2, <1>4, Dropped
<1> HIDE DEF left, right
<1>6. Len(left) = Len(right) /\ Len(left) = (Len(s) - n) + Len(t)
  BY <1>0, <1>1, <1>2, <1>3, <1>5
<1>7. ASSUME NEW i \in 1..Len(left) PROVE left[i] = right[i]
  <2>1. right[i] = line[n + i]
    BY <1>6, <1>7, <1>5
  <2>2. CASE i <= Len(s) - n
    <3>1. i \in 1..(Len(s) - n) /\ n + i \in 1..Len(s)  BY <1>0, <1>6, <2>2
    <3> QED  BY <1>1, <1>2, <1>3, <2>1, <3>1
  <2>3. CASE i > Len(s) - n
    <3>1. /\ i \in ((Len(s) - n) + 1)..((Len(s) - n) + Len(t))
          /\ n + i \in (Len(s) + 1)..(Len(s) + Len(t)) /\ (n + i) - Len(s) = i - (Len(s) - n)
      BY <1>0, <1>6, <2>3
    <3> QED  BY <1>1, <1>2, <1>3, <2>1, <3>1
  <2> QED  BY <1>0, <1>6, <2>2, <2>3
<1>8. left = right
  BY <1>3, <1>5, <1>6, <1>7, SeqEqual
<1> QED  BY <1>8 DEF left, right, rest, line

LEMMA SplitLine ==
  ASSUME NEW s \in Seq(Place), NEW t \in Seq(Place), NEW n \in 1..Len(t)
  PROVE  /\ s \o SubSeq(t, 1, n) \in Seq(Place) /\ SubSeq(t, n + 1, Len(t)) \in Seq(Place)
         /\ (s \o SubSeq(t, 1, n)) \o SubSeq(t, n + 1, Len(t)) = s \o t
<1> DEFINE a == SubSeq(t, 1, n)
           b == SubSeq(t, n + 1, Len(t))
<1>1. Len(t) \in Nat /\ n \in 0..Len(t) /\ 1 \in 1..(Len(t) + 1) /\ n \in 0..Len(t)
  BY LenProperties
<1>2. a \in Seq(Place) /\ b \in Seq(Place)
  BY <1>1, Taken, Dropped
<1>3. a \o b = t
  <2>1. 1 \in 1..(Len(t) + 1) /\ n \in (1 - 1)..Len(t) /\ Len(t) \in n..Len(t)
    BY <1>1
  <2>2. a \o b = SubSeq(t, 1, Len(t))
    BY <2>1, ConcatAdjacentSubSeq
  <2> QED  BY <2>2, SubSeqFull
<1> HIDE DEF a, b
<1>4. s \o a \in Seq(Place)
  BY <1>2, ConcatProperties
<1>5. (s \o a) \o b = s \o (a \o b)
  BY <1>2, ConcatAssociative, SMTT(30)
<1> QED  BY <1>2, <1>3, <1>4, <1>5 DEF a, b

-----------------------------------------------------------------------------
LEMMA OrderInit == StreamInit => OrderInv
<1> SUFFICES ASSUME StreamInit PROVE OrderInv
  OBVIOUS
<1>1. /\ posted \in Seq(Frame) /\ dispatched \in Seq(Frame) /\ Len(posted) = 0 /\ Len(dispatched) = 0
      /\ buffer \in Seq(Place) /\ inFlight \in Seq(Place) /\ header = NoHeader
  BY EmptySeq DEF StreamInit
<1>2. buffer \o inFlight = <<>>
  BY <1>1, ConcatEmptySeq DEF StreamInit
<1>3. DOMAIN posted = {}
  BY <1>1, LenProperties
<1>4. DOMAIN <<>> = {} /\ <<>> \in Seq(Place)
  <2>1. <<>> \in Seq(Place) /\ Len(<<>>) = 0  BY EmptySeq
  <2> QED  BY <2>1, LenProperties
<1>5. Expects(posted, header, dispatched).packet = 1 /\ Expects(posted, header, dispatched).at = 1
  BY <1>1 DEF Expects
<1>6. InLine(<<>>, posted, Expects(posted, header, dispatched))
  BY <1>1, <1>4, <1>5 DEF InLine
<1> QED  BY <1>1, <1>2, <1>3, <1>6 DEF OrderInv, StreamInit

LEMMA OrderPosts == OrderInv /\ DaemonPosts => OrderInv' /\ \E frame \in Frame : Channel!Post(frame)
<1> SUFFICES ASSUME OrderInv, DaemonPosts
             PROVE  OrderInv' /\ \E frame \in Frame : Channel!Post(frame)
  OBVIOUS
<1>1. PICK size \in 0..MaxBody, compressed \in BOOLEAN :
        LET sealed == posted # <<>>
            frame == [number |-> Len(posted) + 1,
                      body |-> IF sealed THEN size + TagSize ELSE size,
                      compressed |-> compressed, encrypted |-> sealed,
                      counter |-> IF sealed THEN Len(posted) - 1 ELSE 0] IN
        /\ posted' = Append(posted, frame)
        /\ inFlight' = inFlight \o BytesOf(frame)
  BY DEF DaemonPosts
<1> DEFINE body == IF posted # <<>> THEN size + TagSize ELSE size
           counter == IF posted # <<>> THEN Len(posted) - 1 ELSE 0
           frame == [number |-> Len(posted) + 1, body |-> body, compressed |-> compressed,
                     encrypted |-> posted # <<>>, counter |-> counter]
<1>2. posted' = Append(posted, frame) /\ inFlight' = inFlight \o BytesOf(frame)
  BY <1>1
<1>3. /\ posted \in Seq(Frame) /\ Len(posted) \in Nat /\ Len(posted) < MaxPackets
      /\ DOMAIN posted = 1..Len(posted) /\ (posted # <<>> => Len(posted) # 0)
  BY LenProperties, EmptySeq DEF OrderInv, DaemonPosts
<1>4. body \in 0..(MaxBody + TagSize) /\ counter \in 0..MaxPackets /\ (posted # <<>>) \in BOOLEAN
  BY <1>3, TransmissionAssumption
<1>5. Len(posted) + 1 \in 1..MaxPackets
  BY <1>3, TransmissionAssumption
<1> HIDE DEF body, counter
<1>6. frame \in Frame /\ frame.number = Len(posted) + 1
  BY <1>4, <1>5 DEF Frame
<1> HIDE DEF frame
<1>7. /\ posted' \in Seq(Frame) /\ Len(posted') = Len(posted) + 1
      /\ DOMAIN posted' = 1..(Len(posted) + 1)
      /\ \A k \in DOMAIN posted : posted'[k] = posted[k]
      /\ posted'[Len(posted) + 1] = frame
  BY <1>2, <1>3, <1>6, AppendProperties, LenProperties
<1>8. \A k \in DOMAIN posted' : posted'[k].number = k
  BY <1>3, <1>6, <1>7, SMTT(20) DEF OrderInv
<1>9. UNCHANGED <<stream, buffer, header, dispatched>>
  BY DEF DaemonPosts
<1>10. BytesOf(frame) \in Seq(Place) /\ inFlight' \in Seq(Place)
  BY <1>2, <1>6, BytesOfFrame, ConcatProperties DEF OrderInv
<1>11. Expects(posted, header, dispatched) = Expects(posted', header', dispatched')
  BY <1>7, <1>9 DEF Expects, OrderInv
<1>12. buffer' \o inFlight' = (buffer \o inFlight) \o BytesOf(frame)
  <2>1. /\ buffer \in Seq(Place) /\ inFlight \in Seq(Place) /\ BytesOf(frame) \in Seq(Place)
        /\ buffer' = buffer /\ inFlight' = inFlight \o BytesOf(frame)
    BY <1>2, <1>9, <1>10 DEF OrderInv
  <2>2. (buffer \o inFlight) \o BytesOf(frame) = buffer \o (inFlight \o BytesOf(frame))
    BY <2>1, ConcatAssociative, SMTT(30)
  <2> QED  BY <2>1, <2>2
<1>13. InLine((buffer \o inFlight) \o BytesOf(frame), posted', Expects(posted, header, dispatched))
  BY <1>2, <1>3, <1>6, PostedInLine DEF OrderInv
<1>14. header' # NoHeader => header' \in [packet : DOMAIN posted'] /\ header'.packet = Len(dispatched') + 1
  BY <1>3, <1>7, <1>9 DEF OrderInv
<1>15. OrderInv'
  BY <1>7, <1>8, <1>9, <1>10, <1>11, <1>12, <1>13, <1>14 DEF OrderInv
<1>16. Channel!Post(frame)
  BY <1>2, <1>9 DEF Channel!Post
<1> QED  BY <1>6, <1>15, <1>16

(* The bytes read lie in the line as they do in the buffer, and leave it   *)
(* in line.                                                                *)
LEMMA ReadFromLine ==
  ASSUME OrderInv, NEW n \in 1..Len(buffer), NEW next, NEW packet \in Nat, NEW from \in Nat,
         Aligned(Read(n), packet, from),
         packet \in DOMAIN posted,
         from + n - 1 < EndOf(posted, packet) =>
           next.packet = packet /\ next.at = from + n,
         from + n - 1 = EndOf(posted, packet) =>
           next.packet = packet + 1 /\ next.at = 1
  PROVE  InLine(Rest(n) \o inFlight, posted, next)
<1> DEFINE line == buffer \o inFlight
           first == Expects(posted, header, dispatched)
<1>1. /\ buffer \in Seq(Place) /\ inFlight \in Seq(Place) /\ posted \in Seq(Frame)
      /\ InLine(line, posted, first)
  BY DEF OrderInv
<1>2. /\ Len(line) = Len(buffer) + Len(inFlight) /\ DOMAIN line = 1..Len(line)
      /\ \A i \in 1..Len(buffer) : line[i] = buffer[i]
  BY <1>1, Joined
<1>3. /\ Len(buffer) \in Nat /\ Len(inFlight) \in Nat /\ Len(line) \in Nat
      /\ n \in 1..Len(line) /\ n \in 0..Len(buffer)
  BY <1>1, <1>2, LenProperties
<1>4. buffer[n].packet = packet /\ buffer[n].at = from + n - 1
  <2>1. n \in DOMAIN Read(n) /\ Read(n)[n] = buffer[n]
    BY <1>1, <1>3, Taken DEF Read
  <2>2. Read(n)[n] = [stream |-> stream, packet |-> packet, at |-> from + n - 1]
    BY <2>1 DEF Aligned
  <2> QED  BY <2>1, <2>2
<1>5. line[n].packet = packet /\ line[n].at = from + n - 1
  BY <1>2, <1>4
<1> HIDE DEF line, first
<1>6. ASSUME n < Len(line)
      PROVE  line[n + 1].packet = next.packet /\ line[n + 1].at = next.at
  <2>1. n \in DOMAIN line /\ n + 1 \in DOMAIN line
    BY <1>2, <1>3, <1>6
  <2>2. Follows(posted, line[n], line[n + 1])
    BY <1>1, <2>1 DEF InLine
  <2>3. (from + n - 1) + 1 = from + n
    BY <1>3
  <2> QED  BY <1>5, <2>2, <2>3 DEF Follows
<1>7. ASSUME n = Len(line)
      PROVE  next.packet = Len(posted) + 1 /\ next.at = 1
  <2>1. line # <<>>
    BY <1>1, <1>3, <1>7, EmptySeq
  <2>2. line[n].packet = Len(posted) /\ line[n].at = EndOf(posted, Len(posted))
    BY <1>1, <1>7, <2>1 DEF InLine
  <2> QED  BY <1>5, <2>2
<1>8. InLine(SubSeq(line, n + 1, Len(line)), posted, next)
  BY <1>1, <1>3, <1>6, <1>7, ReadInLine
<1>9. Rest(n) \o inFlight = SubSeq(line, n + 1, Len(line))
  BY <1>1, <1>3, RestOfLine DEF Rest, line
<1> QED  BY <1>8, <1>9

LEMMA OrderReadsHeader ==
  OrderInv /\ ReadHeader => OrderInv' /\ UNCHANGED <<posted, dispatched>>
<1> SUFFICES ASSUME OrderInv, ReadHeader
             PROVE  OrderInv' /\ UNCHANGED <<posted, dispatched>>
  OBVIOUS
<1> DEFINE packet == buffer[1].packet
           line == buffer \o inFlight
<1>1. UNCHANGED <<stream, posted, inFlight>>
  BY DEF ReadHeader
<1>2. CASE Refuse
  <2>1. UNCHANGED <<buffer, header, dispatched>>
    BY <1>2 DEF Refuse
  <2> QED  BY <1>1, <2>1 DEF OrderInv
<1>3. CASE /\ Aligned(Read(HeaderSize), packet, 1)
           /\ header' = [packet |-> packet] /\ buffer' = Rest(HeaderSize)
           /\ UNCHANGED dispatched
  <2>1. /\ buffer \in Seq(Place) /\ inFlight \in Seq(Place) /\ posted \in Seq(Frame)
        /\ header = NoHeader /\ dispatched \in Seq(Frame)
        /\ InLine(line, posted, Expects(posted, header, dispatched))
    BY DEF OrderInv, ReadHeader
  <2>2. /\ HeaderSize \in Nat \ {0} /\ Len(buffer) \in Nat /\ Len(inFlight) \in Nat
        /\ HeaderSize \in 1..Len(buffer) /\ 1 \in 1..Len(buffer) /\ HeaderSize \in 0..Len(buffer)
        /\ Len(dispatched) \in Nat
    BY <2>1, TransmissionAssumption, LenProperties DEF ReadHeader, Available
  <2>3. /\ line \in Seq(Place) /\ Len(line) = Len(buffer) + Len(inFlight)
        /\ DOMAIN line = 1..(Len(buffer) + Len(inFlight)) /\ line[1] = buffer[1]
    BY <2>1, <2>2, Joined
  <2>4. line # <<>> /\ 1 \in DOMAIN line
    BY <2>2, <2>3, EmptySeq
  <2> HIDE DEF line
  <2>5. packet = Len(dispatched) + 1 /\ packet \in DOMAIN posted
    BY <2>1, <2>3, <2>4 DEF InLine, Expects
  <2>6. /\ posted[packet].body \in Nat /\ packet \in Nat \ {0}
    BY <2>1, <2>5, FrameFields
  <2> HIDE DEF packet
  <2> DEFINE next == Expects(posted, [packet |-> packet], dispatched)
  <2>7. /\ 1 + HeaderSize - 1 < EndOf(posted, packet) =>
             next.packet = packet /\ next.at = 1 + HeaderSize
        /\ 1 + HeaderSize - 1 = EndOf(posted, packet) =>
             next.packet = packet + 1 /\ next.at = 1
    <3>1. [packet |-> packet] # NoHeader
      BY <2>6 DEF NoHeader
    <3> QED  BY <2>2, <2>6, <3>1 DEF Expects, EndOf
  <2> HIDE DEF next
  <2>8. InLine(Rest(HeaderSize) \o inFlight, posted, next)
    BY <1>3, <2>2, <2>5, <2>6, <2>7, ReadFromLine
  <2>9. Rest(HeaderSize) \in Seq(Place)
    BY <2>1, <2>2, Dropped DEF Rest
  <2>10. header' \in [packet : DOMAIN posted] /\ header'.packet = Len(dispatched) + 1
    BY <1>3, <2>5
  <2>11. InLine(buffer' \o inFlight', posted', Expects(posted', header', dispatched'))
    BY <1>1, <1>3, <2>8 DEF next
  <2> QED  BY <1>1, <1>3, <2>9, <2>10, <2>11 DEF OrderInv
<1> QED  BY <1>1, <1>2, <1>3 DEF ReadHeader, Refuse

LEMMA OrderReadsBody ==
  OrderInv /\ ReadBody =>
    OrderInv' /\ (Channel!Receive \/ UNCHANGED <<posted, dispatched>>)
<1> SUFFICES ASSUME OrderInv, ReadBody
             PROVE  OrderInv' /\ (Channel!Receive \/ UNCHANGED <<posted, dispatched>>)
  OBVIOUS
<1> DEFINE packet == header.packet
           frame == posted[packet]
<1>1. UNCHANGED <<stream, posted, inFlight>>
  BY DEF ReadBody
<1>2. CASE Refuse
  <2>1. UNCHANGED <<buffer, header, dispatched>>
    BY <1>2 DEF Refuse
  <2> QED  BY <1>1, <2>1 DEF OrderInv
<1>3. CASE /\ Decodes(frame, Read(frame.body))
           /\ dispatched' = Append(dispatched, frame)
           /\ header' = NoHeader /\ buffer' = Rest(frame.body)
  <2>1. /\ buffer \in Seq(Place) /\ inFlight \in Seq(Place) /\ posted \in Seq(Frame)
        /\ dispatched \in Seq(Frame) /\ header # NoHeader
        /\ packet \in DOMAIN posted /\ packet = Len(dispatched) + 1
        /\ InLine(buffer \o inFlight, posted, Expects(posted, header, dispatched))
    BY DEF OrderInv, ReadBody
  <2>2. /\ frame \in Frame /\ frame.body \in Nat /\ frame.number = packet
        /\ packet \in Nat \ {0} /\ packet <= Len(posted) /\ Len(posted) \in Nat
        /\ HeaderSize \in Nat \ {0}
    BY <2>1, FrameFields DEF OrderInv
  <2>3. /\ frame.body \in 0..Len(buffer) /\ Len(dispatched) \in Nat /\ Len(buffer) \in Nat
    BY <2>1, <2>2, LenProperties DEF ReadBody, Available
  <2>4. dispatched' \in Seq(Frame) /\ Len(dispatched') = packet
    BY <1>3, <2>1, <2>2, AppendProperties
  <2>5. Rest(frame.body) \in Seq(Place)
    BY <2>1, <2>3, Dropped DEF Rest
  <2> DEFINE next == Expects(posted, NoHeader, dispatched')
  <2>6. next.packet = packet + 1 /\ next.at = 1 /\ next = [packet |-> packet + 1, at |-> 1]
    BY <2>4 DEF Expects
  <2> HIDE DEF next
  <2>7. InLine(Rest(frame.body) \o inFlight, posted, next)
    <3>1. CASE frame.body = 0
      <4>1. Rest(frame.body) = buffer
        BY <2>1, <3>1, SubSeqFull DEF Rest
      <4>2. Expects(posted, header, dispatched) = next
        BY <2>1, <2>6, <3>1 DEF Expects
      <4> QED  BY <2>1, <4>1, <4>2
    <3>2. CASE frame.body # 0
      <4>1. frame.body \in 1..Len(buffer) /\ HeaderSize + 1 \in Nat /\ packet \in Nat
        BY <2>2, <2>3, <3>2
      <4>2. Aligned(Read(frame.body), packet, HeaderSize + 1)
        BY <1>3, <2>2 DEF Decodes
      <4>3. (HeaderSize + 1) + frame.body - 1 = EndOf(posted, packet)
        BY <2>2 DEF EndOf
      <4>4. EndOf(posted, packet) \in Nat
        BY <2>1, FrameFields
      <4>5. ~ ((HeaderSize + 1) + frame.body - 1 < EndOf(posted, packet))
        BY <4>3, <4>4
      <4> HIDE DEF frame, packet
      <4> QED  BY <2>1, <2>6, <4>1, <4>2, <4>5, ReadFromLine
    <3> QED  BY <3>1, <3>2
  <2>8. InLine(buffer' \o inFlight', posted', Expects(posted', header', dispatched'))
    BY <1>1, <1>3, <2>7 DEF next
  <2>9. OrderInv'
    BY <1>1, <1>3, <2>4, <2>5, <2>8 DEF OrderInv
  <2>10. Channel!Receive
    BY <1>1, <1>3, <2>1, <2>2, <2>3 DEF Channel!Receive
  <2> QED  BY <2>9, <2>10
<1> QED  BY <1>1, <1>2, <1>3 DEF ReadBody, Refuse

LEMMA OrderReceives ==
  OrderInv /\ OnData => OrderInv' /\ UNCHANGED <<posted, dispatched>>
<1> SUFFICES ASSUME OrderInv, OnData PROVE OrderInv' /\ UNCHANGED <<posted, dispatched>>
  OBVIOUS
<1>1. PICK n \in 1..Len(inFlight) :
        /\ buffer' = buffer \o SubSeq(inFlight, 1, n)
        /\ inFlight' = SubSeq(inFlight, n + 1, Len(inFlight))
  BY DEF OnData
<1>2. UNCHANGED <<stream, posted, header, dispatched>>
  BY DEF OnData
<1>3. buffer \in Seq(Place) /\ inFlight \in Seq(Place)
  BY DEF OrderInv
<1>4. buffer' \in Seq(Place) /\ inFlight' \in Seq(Place) /\ buffer' \o inFlight' = buffer \o inFlight
  BY <1>1, <1>3, SplitLine
<1>5. Expects(posted', header', dispatched') = Expects(posted, header, dispatched)
  BY <1>2
<1> QED  BY <1>2, <1>4, <1>5 DEF OrderInv

LEMMA OrderReplaced ==
  OrderInv /\ NewStream => OrderInv' /\ Channel!Replace
<1> SUFFICES ASSUME OrderInv, NewStream PROVE OrderInv' /\ Channel!Replace
  OBVIOUS
<1>1. /\ posted' = <<>> /\ dispatched' = <<>> /\ buffer' = <<>> /\ inFlight' = <<>>
      /\ header' = NoHeader /\ stream' = stream + 1
  BY DEF NewStream
<1>2. /\ <<>> \in Seq(Frame) /\ <<>> \in Seq(Place) /\ Len(<<>>) = 0 /\ DOMAIN <<>> = {}
  <2>1. <<>> \in Seq(Frame) /\ <<>> \in Seq(Place) /\ Len(<<>>) = 0  BY EmptySeq
  <2> QED  BY <2>1, LenProperties
<1>3. buffer' \o inFlight' = <<>>
  BY <1>1, <1>2, ConcatEmptySeq
<1>4. Expects(posted', header', dispatched') = [packet |-> 1, at |-> 1]
  BY <1>1, <1>2 DEF Expects
<1>5. InLine(<<>>, posted', Expects(posted', header', dispatched'))
  BY <1>1, <1>2, <1>4 DEF InLine
<1>6. OrderInv'
  BY <1>1, <1>2, <1>3, <1>5 DEF OrderInv
<1> QED  BY <1>1, <1>6 DEF Channel!Replace

LEMMA OrderKept ==
  OrderInv /\ [StreamNext]_streamVars =>
    OrderInv' /\ [Channel!Next]_<<posted, dispatched>>
<1> SUFFICES ASSUME OrderInv, [StreamNext]_streamVars
             PROVE  OrderInv' /\ [Channel!Next]_<<posted, dispatched>>
  OBVIOUS
<1>1. CASE DaemonPosts
  BY <1>1, OrderPosts DEF Channel!Next
<1>2. CASE ReadHeader
  BY <1>2, OrderReadsHeader
<1>3. CASE ReadBody
  BY <1>3, OrderReadsBody DEF Channel!Next
<1>4. CASE OnData
  BY <1>4, OrderReceives
<1>5. CASE NewStream
  BY <1>5, OrderReplaced DEF Channel!Next
<1>6. CASE UNCHANGED <<stream, posted, inFlight, buffer, header, dispatched>>
  BY <1>6 DEF OrderInv
<1>7. \/ DaemonPosts \/ ReadHeader \/ ReadBody \/ OnData \/ NewStream
      \/ UNCHANGED <<stream, posted, inFlight, buffer, header, dispatched>>
  BY DEF StreamNext, Pump, Send, Establish, Authorise, DaemonOpens, SocketLost, streamVars
<1> QED  BY <1>1, <1>2, <1>3, <1>4, <1>5, <1>6, <1>7

(* Whatever the chunks the socket delivers them in, the packets the daemon *)
(* posts come out of readPacket() whole, once each and in the order they   *)
(* were posted: the byte stream implements PacketChannel.                  *)
THEOREM PacketsComeOutInOrder == StreamSpec => KeepsOrder
<1>1. StreamInit => OrderInv
  BY OrderInit
<1>2. StreamInit => Channel!Init
  BY DEF StreamInit, Channel!Init
<1>3. OrderInv /\ [StreamNext]_streamVars => OrderInv' /\ [Channel!Next]_(Channel!channelVars)
  BY OrderKept DEF Channel!channelVars
<1> QED  BY <1>1, <1>2, <1>3, PTL DEF StreamSpec, KeepsOrder, Channel!Spec

-----------------------------------------------------------------------------
(* The line says more of its bytes than their order: from any of them on,  *)
(* the bytes of its packet follow, all of this socket.                     *)
Whole(bytes, frames, on) ==
  \A i \in DOMAIN bytes, d \in Nat :
    i + d \in DOMAIN bytes /\ bytes[i].at + d <= EndOf(frames, bytes[i].packet) =>
      bytes[i + d] = [stream |-> on, packet |-> bytes[i].packet, at |-> bytes[i].at + d]

LEMMA PostedWhole ==
  ASSUME NEW frames \in Seq(Frame), NEW frame \in Frame, NEW bytes, NEW first,
         stream \in Nat, frame.number = Len(frames) + 1, InLine(bytes, frames, first),
         \A k \in DOMAIN frames : frames[k].number = k,
         Whole(bytes, frames, stream)
  PROVE  Whole(bytes \o BytesOf(frame), Append(frames, frame), stream)
<1> DEFINE more == BytesOf(frame)
           n == HeaderSize + frame.body
           line == bytes \o more
           all == Append(frames, frame)
           m == Len(bytes)
<1>1. /\ more \in Seq(Place) /\ Len(more) = n /\ n \in Nat \ {0} /\ DOMAIN more = 1..n
      /\ \A i \in 1..n : more[i] = [stream |-> stream, packet |-> frame.number, at |-> i]
  <2>1. \A i \in 1..n : more[i] = [stream |-> stream, packet |-> frame.number, at |-> i]
    BY DEF BytesOf
  <2> QED  BY <2>1, BytesOfFrame
<1>2. bytes \in Seq(Place) /\ m \in Nat /\ DOMAIN bytes = 1..m
  BY LenProperties DEF InLine
<1>3. /\ DOMAIN line = 1..(m + n)
      /\ \A i \in 1..m : line[i] = bytes[i]
      /\ \A i \in (m + 1)..(m + n) : line[i] = more[i - m]
  <2> HIDE DEF more, n, m
  <2>0. bytes \in Seq(Place) /\ more \in Seq(Place)
    BY <1>1, <1>2
  <2>1. /\ DOMAIN line = 1..(Len(bytes) + Len(more))
        /\ \A i \in 1..Len(bytes) : line[i] = bytes[i]
        /\ \A i \in (Len(bytes) + 1)..(Len(bytes) + Len(more)) : line[i] = more[i - Len(bytes)]
    BY <2>0, Joined
  <2>2. Len(bytes) = m /\ Len(more) = n
    BY <1>1 DEF m
  <2> HIDE DEF line
  <2> QED  BY <2>1, <2>2
<1>4. /\ Len(frames) \in Nat /\ DOMAIN frames = 1..Len(frames)
      /\ \A k \in DOMAIN frames : all[k] = frames[k]
      /\ all[Len(frames) + 1] = frame
  BY AppendProperties, LenProperties
<1>5. /\ \A k \in DOMAIN frames : EndOf(all, k) = EndOf(frames, k) /\ EndOf(frames, k) \in Nat
      /\ EndOf(all, Len(frames) + 1) = n
  <2>1. \A k \in DOMAIN frames : EndOf(all, k) = EndOf(frames, k) /\ EndOf(frames, k) \in Nat
    BY <1>4, FrameFields DEF EndOf
  <2>2. EndOf(all, Len(frames) + 1) = n
    BY <1>4 DEF EndOf
  <2> QED  BY <2>1, <2>2
<1> HIDE DEF more, line, all, m, n
<1>6. ASSUME NEW i \in 1..m, NEW d \in Nat, i + d \in 1..(m + n),
             line[i].at + d <= EndOf(all, line[i].packet)
      PROVE  line[i + d] = [stream |-> stream, packet |-> line[i].packet, at |-> line[i].at + d]
  <2>1. /\ line[i] = bytes[i] /\ bytes[i].packet \in DOMAIN frames
        /\ bytes[i].at \in Nat /\ bytes[i].packet \in Nat
    <3>1. i \in DOMAIN bytes /\ line[i] = bytes[i]
      BY <1>2, <1>3
    <3>2. bytes[i] \in Place
      BY <1>2, <3>1, ElementAt
    <3> QED  BY <3>1, <3>2 DEF InLine, Place
  <2>2. bytes[i].at + d <= EndOf(frames, bytes[i].packet)
    BY <1>5, <1>6, <2>1
  <2>3. CASE i + d <= m
    <3>1. i \in DOMAIN bytes /\ i + d \in DOMAIN bytes /\ line[i + d] = bytes[i + d]
      BY <1>2, <1>3, <1>6, <2>3
    <3> QED  BY <2>1, <2>2, <3>1 DEF Whole
  <2>4. CASE i + d > m
    (* Not past the last byte of the old line: that one ends its packet.   *)
    <3> DEFINE e == m - i
    <3>1. e \in Nat /\ i + e = m /\ e < d /\ i \in DOMAIN bytes /\ m \in DOMAIN bytes /\ m # 0
      BY <1>2, <1>6, <2>4
    <3> HIDE DEF e
    <3>2. bytes[i].at + e <= EndOf(frames, bytes[i].packet) /\ EndOf(frames, bytes[i].packet) \in Nat
      BY <1>5, <2>1, <2>2, <3>1
    <3>3. bytes[m] = [stream |-> stream, packet |-> bytes[i].packet, at |-> bytes[i].at + e]
      BY <3>1, <3>2 DEF Whole
    <3>4. bytes # <<>>
      BY <1>2, <3>1, EmptySeq DEF m
    <3>5. bytes[m].packet = Len(frames) /\ bytes[m].at = EndOf(frames, Len(frames))
      BY <3>4 DEF InLine, m
    <3>6. bytes[i].at + e = EndOf(frames, bytes[i].packet)
      BY <3>3, <3>5
    <3> QED  BY <2>1, <2>2, <3>1, <3>2, <3>6
  <2> QED  BY <1>2, <2>3, <2>4
<1>7. ASSUME NEW i \in (m + 1)..(m + n), NEW d \in Nat, i + d \in 1..(m + n)
      PROVE  line[i + d] = [stream |-> stream, packet |-> line[i].packet, at |-> line[i].at + d]
  <2>1. /\ i + d \in (m + 1)..(m + n) /\ i - m \in 1..n /\ (i + d) - m \in 1..n
        /\ (i - m) + d = (i + d) - m
    BY <1>1, <1>2, <1>7
  <2>2. line[i] = more[i - m] /\ line[i + d] = more[(i + d) - m]
    BY <1>3, <2>1
  <2>3. more[i - m] = [stream |-> stream, packet |-> frame.number, at |-> i - m]
    BY <1>1, <2>1
  <2>4. more[(i + d) - m] = [stream |-> stream, packet |-> frame.number, at |-> (i + d) - m]
    BY <1>1, <2>1
  <2> QED  BY <2>1, <2>2, <2>3, <2>4
<1>8. Whole(line, all, stream)
  <2> SUFFICES ASSUME NEW i \in DOMAIN line, NEW d \in Nat, i + d \in DOMAIN line,
                      line[i].at + d <= EndOf(all, line[i].packet)
               PROVE  line[i + d] = [stream |-> stream, packet |-> line[i].packet,
                                     at |-> line[i].at + d]
    BY DEF Whole
  <2>1. i \in 1..m \/ i \in (m + 1)..(m + n)
    BY <1>1, <1>2, <1>3
  <2>2. i + d \in 1..(m + n)
    BY <1>3
  <2> QED  BY <1>6, <1>7, <2>1, <2>2
<1> QED  BY <1>8 DEF line, all, more

LEMMA ReadWhole ==
  ASSUME NEW frames, NEW bytes \in Seq(Place), NEW on, NEW n \in 0..Len(bytes),
         Whole(bytes, frames, on)
  PROVE  Whole(SubSeq(bytes, n + 1, Len(bytes)), frames, on)
<1> DEFINE rest == SubSeq(bytes, n + 1, Len(bytes))
           m == Len(bytes)
<1>1. m \in Nat /\ DOMAIN bytes = 1..m /\ n \in Nat
  BY LenProperties
<1>2. DOMAIN rest = 1..(m - n) /\ \A i \in 1..(m - n) : rest[i] = bytes[n + i]
  BY Dropped
<1> HIDE DEF rest, m
<1>3. ASSUME NEW i \in DOMAIN rest, NEW d \in Nat, i + d \in DOMAIN rest,
             rest[i].at + d <= EndOf(frames, rest[i].packet)
      PROVE  rest[i + d] = [stream |-> on, packet |-> rest[i].packet, at |-> rest[i].at + d]
  <2>1. n + i \in DOMAIN bytes /\ (n + i) + d \in DOMAIN bytes /\ n + (i + d) = (n + i) + d
    BY <1>1, <1>2, <1>3
  <2>2. rest[i] = bytes[n + i] /\ rest[i + d] = bytes[(n + i) + d]
    BY <1>2, <1>3, <2>1
  <2> QED  BY <1>3, <2>1, <2>2 DEF Whole
<1>4. Whole(rest, frames, on)
  BY <1>3 DEF Whole
<1> QED  BY <1>4 DEF rest

(* So what is read is what was asked for: a header, or the body of the     *)
(* packet whose header was read.                                           *)
LEMMA ReadsAligned ==
  ASSUME OrderInv, Whole(buffer \o inFlight, posted, stream), NEW n \in 1..Len(buffer),
         NEW packet \in DOMAIN posted, NEW from \in Nat,
         Expects(posted, header, dispatched).packet = packet,
         Expects(posted, header, dispatched).at = from,
         from + n - 1 <= EndOf(posted, packet)
  PROVE  Aligned(Read(n), packet, from)
<1> DEFINE line == buffer \o inFlight
<1>1. buffer \in Seq(Place) /\ inFlight \in Seq(Place) /\ posted \in Seq(Frame)
  BY DEF OrderInv
<1>2. /\ Len(buffer) \in Nat /\ Len(inFlight) \in Nat /\ n \in 0..Len(buffer)
      /\ DOMAIN line = 1..(Len(buffer) + Len(inFlight)) /\ Len(line) = Len(buffer) + Len(inFlight)
      /\ \A i \in 1..Len(buffer) : line[i] = buffer[i]
  BY <1>1, Joined, LenProperties
<1>3. DOMAIN Read(n) = 1..n /\ \A i \in 1..n : Read(n)[i] = buffer[i]
  BY <1>1, <1>2, Taken DEF Read
<1>4. 1 \in DOMAIN line /\ line # <<>>
  BY <1>2, EmptySeq
<1>5. line[1].packet = packet /\ line[1].at = from
  BY <1>4 DEF OrderInv, InLine
<1>6. EndOf(posted, packet) \in Nat
  BY <1>1, FrameFields
<1> HIDE DEF line
<1>7. ASSUME NEW i \in 1..n
      PROVE  Read(n)[i] = [stream |-> stream, packet |-> packet, at |-> from + i - 1]
  <2>1. /\ i - 1 \in Nat /\ 1 + (i - 1) = i /\ i \in DOMAIN line /\ i \in 1..Len(buffer)
        /\ from + (i - 1) = from + i - 1 /\ from + (i - 1) <= EndOf(posted, packet)
    BY <1>2, <1>6
  <2>2. line[i] = [stream |-> stream, packet |-> line[1].packet, at |-> line[1].at + (i - 1)]
    BY <1>4, <1>5, <2>1 DEF Whole, line
  <2> QED  BY <1>2, <1>3, <1>5, <2>1, <2>2
<1> QED  BY <1>3, <1>7 DEF Aligned

(* What the client seals carries the counters from 0 on, past its first    *)
(* packet; so does what the daemon posts, which posts a second packet only *)
(* after it opened two, and one past LimitBefore only after it opened a    *)
(* request.                                                                *)
SentInOrder(packets) ==
  \A i \in DOMAIN packets :
    /\ packets[i].encrypted = (i >= 2)
    /\ i >= 2 => packets[i].counter = i - 2

PostedInOrder(frames, n) ==
  \A k \in DOMAIN frames :
    /\ frames[k].encrypted = (k >= 2)
    /\ k >= 2 => n >= 2 /\ frames[k].counter = k - 2 /\ frames[k].body >= TagSize
    /\ frames[k].body > LimitBefore => n >= 3

AgreeInv ==
  /\ ~desynced
  /\ session \in [set : BOOLEAN, tx : Nat, rx : Nat]
  /\ written \in Seq([encrypted : BOOLEAN, counter : Nat]) /\ opened \in 0..Len(written)
  /\ SentInOrder(written)
  /\ session.set => Len(written) >= 1 /\ Len(dispatched) >= 1 /\ session.rx = Len(dispatched) - 1
  /\ session.set /\ state = "open" => session.tx = Len(written) - 1
  /\ ~session.set => Len(written) <= 1 /\ Len(dispatched) <= 1
  /\ Len(written) >= 3 => authorised
  /\ Len(dispatched) <= Len(posted)
  /\ posted # <<>> => opened >= 1
  /\ PostedInOrder(posted, opened)
  /\ Whole(buffer \o inFlight, posted, stream)
  /\ state = "refused" => \E i \in DOMAIN posted : ~Expected(posted[i])

LEMMA AgreeInit == StreamInit => AgreeInv
<1> SUFFICES ASSUME StreamInit PROVE AgreeInv
  OBVIOUS
<1>1. /\ \A S : <<>> \in Seq(S)
      /\ Len(<<>>) = 0 /\ DOMAIN <<>> = {}
  <2>1. \A S : <<>> \in Seq(S)  BY EmptySeq
  <2>2. Len(<<>>) = 0  BY EmptySeq
  <2> QED  BY <2>1, <2>2, LenProperties
<1>2. buffer \o inFlight = <<>>
  BY <1>1, ConcatEmptySeq DEF StreamInit
<1>3. Whole(buffer \o inFlight, posted, stream)
  BY <1>1, <1>2 DEF Whole
<1>4. session = [set |-> FALSE, tx |-> 0, rx |-> 0] /\ ~session.set
  BY DEF StreamInit, NoSession
<1>5. session \in [set : BOOLEAN, tx : Nat, rx : Nat]
  BY <1>4
<1>6. SentInOrder(written) /\ PostedInOrder(posted, opened)
  BY <1>1 DEF StreamInit, SentInOrder, PostedInOrder
<1>7. written = <<>> /\ dispatched = <<>> /\ posted = <<>> /\ opened = 0 /\ ~desynced /\ state = "open"
  BY DEF StreamInit
<1> QED  BY <1>1, <1>3, <1>4, <1>5, <1>6, <1>7 DEF AgreeInv

(* A packet sealed on a socket that stays open carries the counter due.    *)
LEMMA AgreeSend == AgreeInv /\ Send => AgreeInv'
<1> SUFFICES ASSUME AgreeInv, Send PROVE AgreeInv'
  OBVIOUS
<1> DEFINE packet == [encrypted |-> session.set, counter |-> session.tx]
<1>1. /\ session \in [set : BOOLEAN, tx : Nat, rx : Nat]
      /\ written \in Seq([encrypted : BOOLEAN, counter : Nat])
      /\ Len(written) \in Nat /\ opened \in 0..Len(written)
      /\ DOMAIN written = 1..Len(written)
      /\ packet \in [encrypted : BOOLEAN, counter : Nat]
      /\ (written # <<>> => session.set) /\ (Len(written) >= 2 => authorised)
  <2>1. /\ session \in [set : BOOLEAN, tx : Nat, rx : Nat]
        /\ written \in Seq([encrypted : BOOLEAN, counter : Nat])
    BY DEF AgreeInv
  <2> QED  BY <2>1, LenProperties DEF AgreeInv, Send
<1>2. UNCHANGED <<stream, authorised, opened, desynced, posted, inFlight, buffer, header, dispatched>>
  BY DEF Send
<1>3. /\ session' \in [set : BOOLEAN, tx : Nat, rx : Nat]
      /\ session'.set = session.set /\ session'.rx = session.rx
      /\ session.set => session'.tx = session.tx + 1
  <2>1. CASE session.set
    <3>1. session' = [session EXCEPT !.tx = session.tx + 1]
      BY <2>1 DEF Send, NextCounter
    <3> QED  BY <1>1, <3>1
  <2>2. CASE ~session.set
    BY <1>1, <2>2 DEF Send
  <2> QED  BY <2>1, <2>2
<1>4. CASE state' = "lost" /\ UNCHANGED written
  BY <1>1, <1>2, <1>3, <1>4 DEF AgreeInv
<1>5. CASE written' = Append(written, packet) /\ UNCHANGED state
  <2>1. /\ written' \in Seq([encrypted : BOOLEAN, counter : Nat])
        /\ Len(written') = Len(written) + 1 /\ DOMAIN written' = 1..(Len(written) + 1)
        /\ \A i \in DOMAIN written : written'[i] = written[i]
        /\ written'[Len(written) + 1] = packet
    BY <1>1, <1>5, AppendProperties, LenProperties
  <2>2. state = "open" /\ (session.set => session.tx = Len(written) - 1 /\ Len(written) >= 1)
    BY DEF Send, AgreeInv
  <2>3. ~session.set => Len(written) = 0
    BY <1>1, EmptySeq
  <2>4. packet.encrypted = session.set /\ packet.counter = session.tx /\ session.set \in BOOLEAN
    BY <1>1
  <2> HIDE DEF packet
  <2>5. SentInOrder(written')
    <3> SUFFICES ASSUME NEW i \in 1..(Len(written) + 1)
                 PROVE  /\ written'[i].encrypted = (i >= 2)
                        /\ i >= 2 => written'[i].counter = i - 2
      BY <2>1 DEF SentInOrder
    <3>1. CASE i \in 1..Len(written)
      BY <1>1, <2>1, <3>1 DEF AgreeInv, SentInOrder
    <3>2. CASE i = Len(written) + 1
      BY <1>1, <2>1, <2>2, <2>3, <2>4, <3>2
    <3> QED  BY <1>1, <3>1, <3>2
  <2>6. Len(written') >= 3 => authorised'
    BY <1>1, <1>2, <2>1
  <2>7. opened' \in 0..Len(written') /\ (~session'.set => Len(written') <= 1)
        /\ (session'.set => Len(written') >= 1 /\ session'.tx = Len(written') - 1)
    BY <1>1, <1>2, <1>3, <2>1, <2>2, <2>3
  <2>8. ~desynced' /\ state' # "refused"
    BY <1>2, <1>5, <2>2 DEF AgreeInv
  <2>9. /\ session'.set => Len(dispatched') >= 1 /\ session'.rx = Len(dispatched') - 1
        /\ ~session'.set => Len(dispatched') <= 1
        /\ Len(dispatched') <= Len(posted') /\ (posted' # <<>> => opened' >= 1)
        /\ PostedInOrder(posted', opened')
        /\ Whole(buffer' \o inFlight', posted', stream')
    BY <1>2, <1>3 DEF AgreeInv
  <2> QED  BY <1>3, <2>1, <2>5, <2>6, <2>7, <2>8, <2>9 DEF AgreeInv
<1> QED  BY <1>4, <1>5 DEF Send

(* The session is set with the first packets of both sides exchanged.      *)
LEMMA AgreeEstablish == OrderInv /\ AgreeInv /\ Establish => AgreeInv'
<1> SUFFICES ASSUME OrderInv, AgreeInv, Establish PROVE AgreeInv'
  OBVIOUS
<1>1. /\ session' = [set |-> TRUE, tx |-> 0, rx |-> 0] /\ Len(dispatched) = 1 /\ ~session.set
      /\ UNCHANGED <<stream, state, authorised, written, opened, desynced, posted,
                     inFlight, buffer, header, dispatched>>
  BY DEF Establish, NoSession
<1>2. /\ written \in Seq([encrypted : BOOLEAN, counter : Nat]) /\ posted \in Seq(Frame)
      /\ opened \in 0..Len(written) /\ Len(written) <= 1 /\ Len(dispatched) <= Len(posted)
      /\ (posted # <<>> => opened >= 1)
  BY <1>1 DEF OrderInv, AgreeInv
<1>3. Len(written) = 1
  <2>1. Len(posted) # 0 /\ Len(posted) \in Nat /\ Len(written) \in Nat
    BY <1>1, <1>2, LenProperties
  <2>2. posted # <<>>
    BY <2>1, EmptySeq
  <2> DEFINE m == Len(written)
  <2>3. m \in Nat /\ opened \in 0..m /\ opened >= 1 /\ m <= 1
    BY <1>2, <2>1, <2>2
  <2> HIDE DEF m
  <2>4. m = 1
    BY <2>3
  <2> QED  BY <2>4 DEF m
<1>4. session' \in [set : BOOLEAN, tx : Nat, rx : Nat] /\ session'.set /\ session'.tx = 0 /\ session'.rx = 0
  BY <1>1
<1>5. /\ Len(written') >= 1 /\ Len(dispatched') >= 1 /\ session'.rx = Len(dispatched') - 1
      /\ session'.tx = Len(written') - 1
  BY <1>1, <1>3, <1>4
<1>6. /\ ~desynced' /\ written' \in Seq([encrypted : BOOLEAN, counter : Nat])
      /\ opened' \in 0..Len(written') /\ SentInOrder(written') /\ (Len(written') >= 3 => authorised')
      /\ Len(dispatched') <= Len(posted') /\ (posted' # <<>> => opened' >= 1)
      /\ PostedInOrder(posted', opened') /\ Whole(buffer' \o inFlight', posted', stream')
      /\ state' # "refused"
  <2>1. /\ UNCHANGED <<stream, authorised, written, opened, desynced, posted, inFlight, buffer,
                       dispatched>>
        /\ state' = "open"
    BY DEF Establish
  <2> QED  BY <2>1 DEF AgreeInv
<1> QED  BY <1>4, <1>5, <1>6 DEF AgreeInv

(* The daemon meets the counter it expects.                                *)
LEMMA AgreeOpens == AgreeInv /\ DaemonOpens => AgreeInv'
<1> SUFFICES ASSUME AgreeInv, DaemonOpens PROVE AgreeInv'
  OBVIOUS
<1>1. UNCHANGED <<stream, state, session, authorised, written, posted, inFlight, buffer, header,
                  dispatched>>
  BY DEF DaemonOpens
<1>2. /\ written \in Seq([encrypted : BOOLEAN, counter : Nat]) /\ opened \in 0..Len(written)
      /\ opened < Len(written) /\ SentInOrder(written)
  BY DEF AgreeInv, DaemonOpens
<1>3. Len(written) \in Nat /\ DOMAIN written = 1..Len(written)
  BY <1>2, LenProperties
<1>4. opened + 1 \in DOMAIN written /\ (opened + 1) - 2 = opened - 1 /\ opened + 1 \in 0..Len(written)
      /\ opened \in Nat
  BY <1>2, <1>3
<1>5. written[opened + 1].encrypted => written[opened + 1].counter = opened - 1
  <2>1. written[opened + 1].encrypted = (opened + 1 >= 2)
        /\ (opened + 1 >= 2 => written[opened + 1].counter = (opened + 1) - 2)
    BY <1>2, <1>4 DEF SentInOrder
  <2> QED  BY <1>4, <2>1
<1>6. opened' = opened + 1 /\ UNCHANGED desynced
  BY <1>5 DEF DaemonOpens
<1>7. PostedInOrder(posted', opened') /\ (posted' # <<>> => opened' >= 1) /\ opened' \in 0..Len(written')
  BY <1>1, <1>4, <1>6 DEF AgreeInv, PostedInOrder
<1> QED  BY <1>1, <1>6, <1>7 DEF AgreeInv

(* The packet the daemon posts, and the line it joins.                     *)
LEMMA DaemonFrame ==
  ASSUME OrderInv, DaemonPosts
  PROVE  \E frame \in Frame :
           /\ frame.number = Len(posted) + 1
           /\ frame.encrypted = (posted # <<>>)
           /\ posted # <<>> => /\ opened >= 2 /\ frame.counter = Len(posted) - 1
                               /\ frame.body >= TagSize
           /\ frame.body > LimitBefore => opened >= 3
           /\ posted' = Append(posted, frame)
           /\ buffer' \o inFlight' = (buffer \o inFlight) \o BytesOf(frame)
<1>1. PICK size \in 0..MaxBody, compressed \in BOOLEAN :
        LET sealed == posted # <<>>
            frame == [number |-> Len(posted) + 1,
                      body |-> IF sealed THEN size + TagSize ELSE size,
                      compressed |-> compressed, encrypted |-> sealed,
                      counter |-> IF sealed THEN Len(posted) - 1 ELSE 0] IN
        /\ frame.body > LimitBefore => opened >= 3
        /\ posted' = Append(posted, frame)
        /\ inFlight' = inFlight \o BytesOf(frame)
  BY DEF DaemonPosts
<1> DEFINE body == IF posted # <<>> THEN size + TagSize ELSE size
           counter == IF posted # <<>> THEN Len(posted) - 1 ELSE 0
           sealed == posted # <<>>
           frame == [number |-> Len(posted) + 1, body |-> body, compressed |-> compressed,
                     encrypted |-> sealed, counter |-> counter]
<1>2. /\ posted' = Append(posted, frame) /\ inFlight' = inFlight \o BytesOf(frame)
      /\ body > LimitBefore => opened >= 3
  BY <1>1
<1>3. /\ posted \in Seq(Frame) /\ Len(posted) \in Nat /\ Len(posted) < MaxPackets
      /\ (posted # <<>> => Len(posted) # 0 /\ opened >= 2)
      /\ stream \in Nat /\ buffer \in Seq(Place) /\ inFlight \in Seq(Place) /\ buffer' = buffer
  BY LenProperties, EmptySeq DEF OrderInv, DaemonPosts
<1>4. /\ body \in 0..(MaxBody + TagSize) /\ counter \in 0..MaxPackets /\ sealed \in BOOLEAN
      /\ Len(posted) + 1 \in 1..MaxPackets
      /\ (posted # <<>> => body >= TagSize /\ counter = Len(posted) - 1)
  BY <1>3, TransmissionAssumption
<1> HIDE DEF body, counter, sealed
<1>5. /\ frame \in Frame /\ frame.number = Len(posted) + 1 /\ frame.encrypted = sealed
      /\ frame.counter = counter /\ frame.body = body
  BY <1>4 DEF Frame
<1> HIDE DEF frame
<1>6. BytesOf(frame) \in Seq(Place)
  BY <1>3, <1>5, BytesOfFrame
<1>7. (buffer \o inFlight) \o BytesOf(frame) = buffer \o (inFlight \o BytesOf(frame))
  BY <1>3, <1>6, ConcatAssociative, SMTT(30)
<1>8. buffer' \o inFlight' = (buffer \o inFlight) \o BytesOf(frame)
  BY <1>2, <1>3, <1>7
<1>9. frame.encrypted = (posted # <<>>)
  BY <1>5 DEF sealed
<1> QED  BY <1>2, <1>3, <1>4, <1>5, <1>8, <1>9

LEMMA AgreePosts == OrderInv /\ AgreeInv /\ DaemonPosts => AgreeInv'
<1> SUFFICES ASSUME OrderInv, AgreeInv, DaemonPosts PROVE AgreeInv'
  OBVIOUS
<1>1. PICK frame \in Frame :
           /\ frame.number = Len(posted) + 1
           /\ frame.encrypted = (posted # <<>>)
           /\ posted # <<>> => /\ opened >= 2 /\ frame.counter = Len(posted) - 1
                               /\ frame.body >= TagSize
           /\ frame.body > LimitBefore => opened >= 3
           /\ posted' = Append(posted, frame)
           /\ buffer' \o inFlight' = (buffer \o inFlight) \o BytesOf(frame)
  BY DaemonFrame
<1>2. /\ UNCHANGED <<stream, state, session, authorised, written, opened, desynced, dispatched>>
      /\ opened >= 1
  BY DEF DaemonPosts
<1>3. /\ posted \in Seq(Frame) /\ stream \in Nat
      /\ InLine(buffer \o inFlight, posted, Expects(posted, header, dispatched))
      /\ \A k \in DOMAIN posted : posted[k].number = k
  BY DEF OrderInv
<1>4. Whole(buffer' \o inFlight', posted', stream')
  <2>1. Whole(buffer \o inFlight, posted, stream)
    BY DEF AgreeInv
  <2>2. Whole((buffer \o inFlight) \o BytesOf(frame), Append(posted, frame), stream)
    BY <1>1, <1>3, <2>1, PostedWhole
  <2> QED  BY <1>1, <1>2, <2>2
<1>5. /\ Len(posted) \in Nat /\ DOMAIN posted = 1..Len(posted)
      /\ Len(posted') = Len(posted) + 1 /\ DOMAIN posted' = 1..(Len(posted) + 1)
      /\ \A k \in DOMAIN posted : posted'[k] = posted[k]
      /\ posted'[Len(posted) + 1] = frame
      /\ (posted = <<>>) = (Len(posted) = 0)
  BY <1>1, <1>3, AppendProperties, LenProperties, EmptySeq
<1>6. PostedInOrder(posted', opened')
  <2> SUFFICES ASSUME NEW k \in 1..(Len(posted) + 1)
               PROVE  /\ posted'[k].encrypted = (k >= 2)
                      /\ k >= 2 => /\ opened >= 2 /\ posted'[k].counter = k - 2
                                   /\ posted'[k].body >= TagSize
                      /\ posted'[k].body > LimitBefore => opened >= 3
    BY <1>2, <1>5 DEF PostedInOrder
  <2>1. CASE k \in DOMAIN posted
    BY <1>5, <2>1 DEF AgreeInv, PostedInOrder
  <2>2. CASE k = Len(posted) + 1
    BY <1>1, <1>5, <2>2
  <2> QED  BY <1>5, <2>1, <2>2
<1>7. Len(dispatched') <= Len(posted') /\ opened' >= 1
  <2>1. Len(dispatched) <= Len(posted) /\ Len(dispatched) \in Nat
    BY LenProperties DEF AgreeInv, OrderInv
  <2> QED  BY <1>2, <1>5, <2>1
<1>8. state' = "refused" => \E i \in DOMAIN posted' : ~Expected(posted'[i])
  <2> SUFFICES ASSUME state = "refused" PROVE \E i \in DOMAIN posted' : ~Expected(posted'[i])
    BY <1>2
  <2>1. PICK i \in DOMAIN posted : ~Expected(posted[i])
    BY DEF AgreeInv
  <2>2. i \in DOMAIN posted' /\ posted'[i] = posted[i]
    BY <1>5
  <2> QED  BY <2>1, <2>2
<1> QED  BY <1>2, <1>4, <1>6, <1>7, <1>8 DEF AgreeInv

LEMMA AgreeNewStream == NewStream => AgreeInv'
<1> SUFFICES ASSUME NewStream PROVE AgreeInv'
  OBVIOUS
<1>1. /\ \A S : <<>> \in Seq(S)
      /\ Len(<<>>) = 0 /\ DOMAIN <<>> = {}
  <2>1. \A S : <<>> \in Seq(S)  BY EmptySeq
  <2>2. Len(<<>>) = 0  BY EmptySeq
  <2> QED  BY <2>1, <2>2, LenProperties
<1>2. /\ written' = <<>> /\ dispatched' = <<>> /\ posted' = <<>> /\ buffer' = <<>> /\ inFlight' = <<>>
      /\ opened' = 0 /\ ~desynced' /\ state' = "open"
  BY DEF NewStream
<1>3. buffer' \o inFlight' = <<>>
  BY <1>1, <1>2, ConcatEmptySeq
<1>4. Whole(buffer' \o inFlight', posted', stream')
  BY <1>1, <1>3 DEF Whole
<1>5. session' \in [set : BOOLEAN, tx : Nat, rx : Nat] /\ ~session'.set
  BY DEF NewStream, NoSession
<1>6. SentInOrder(written') /\ PostedInOrder(posted', opened')
  BY <1>1, <1>2 DEF SentInOrder, PostedInOrder
<1> QED  BY <1>1, <1>2, <1>4, <1>5, <1>6 DEF AgreeInv

(* A header read is refused only for a body past LimitAfter: the daemon    *)
(* posts none past LimitBefore to a client that is not authorised.         *)
LEMMA AgreeReadsHeader == OrderInv /\ AgreeInv /\ ReadHeader => AgreeInv'
<1> SUFFICES ASSUME OrderInv, AgreeInv, ReadHeader PROVE AgreeInv'
  OBVIOUS
<1> DEFINE packet == buffer[1].packet
           line == buffer \o inFlight
<1>1. UNCHANGED <<stream, authorised, written, opened, desynced, posted, inFlight>>
  BY DEF ReadHeader
<1>2. /\ buffer \in Seq(Place) /\ inFlight \in Seq(Place) /\ posted \in Seq(Frame)
      /\ header = NoHeader /\ state = "open" /\ dispatched \in Seq(Frame)
      /\ InLine(line, posted, Expects(posted, header, dispatched))
  BY DEF OrderInv, ReadHeader
<1>3. /\ HeaderSize \in Nat \ {0} /\ Len(buffer) \in Nat /\ Len(inFlight) \in Nat
      /\ HeaderSize \in 1..Len(buffer) /\ 1 \in 1..Len(buffer) /\ HeaderSize \in 0..Len(buffer)
      /\ Len(dispatched) \in Nat
  BY <1>2, TransmissionAssumption, LenProperties DEF ReadHeader, Available
<1>4. /\ line \in Seq(Place) /\ Len(line) = Len(buffer) + Len(inFlight)
      /\ DOMAIN line = 1..(Len(buffer) + Len(inFlight)) /\ line[1] = buffer[1]
  BY <1>2, <1>3, Joined
<1>5. line # <<>> /\ 1 \in DOMAIN line /\ HeaderSize \in 0..Len(line)
  BY <1>3, <1>4, EmptySeq
<1> HIDE DEF line
<1>6. /\ Expects(posted, header, dispatched).packet = packet
      /\ Expects(posted, header, dispatched).at = 1
      /\ packet \in DOMAIN posted
  BY <1>2, <1>4, <1>5 DEF InLine, Expects
<1>7. posted[packet].body \in Nat
  BY <1>2, <1>6, FrameFields
<1> HIDE DEF packet
<1>8. Whole(line, posted, stream)
  BY DEF AgreeInv, line
<1>9. Aligned(Read(HeaderSize), packet, 1)
  <2>1. 1 + HeaderSize - 1 <= EndOf(posted, packet) /\ 1 \in Nat
    BY <1>3, <1>7 DEF EndOf
  <2> QED  BY <1>3, <1>6, <1>8, <2>1, ReadsAligned DEF line
<1>10. CASE posted[packet].body <= Limit
  <2>1. buffer' = Rest(HeaderSize) /\ UNCHANGED <<state, dispatched, session>>
    BY <1>9, <1>10 DEF ReadHeader, packet
  <2>2. buffer' \o inFlight' = SubSeq(line, HeaderSize + 1, Len(line))
    BY <1>1, <1>2, <1>3, <2>1, RestOfLine DEF Rest, line
  <2>3. Whole(buffer' \o inFlight', posted', stream')
    BY <1>1, <1>4, <1>5, <1>8, <2>2, ReadWhole
  <2> QED  BY <1>1, <2>1, <2>3 DEF AgreeInv
<1>11. CASE ~ (posted[packet].body <= Limit)
  <2>1. state' = "refused" /\ UNCHANGED <<buffer, header, dispatched, session>>
    BY <1>11 DEF ReadHeader, Refuse, packet
  <2>2. /\ opened \in 0..Len(written) /\ Len(written) \in Nat /\ (Len(written) >= 3 => authorised)
        /\ (posted[packet].body > LimitBefore => opened >= 3)
    BY <1>6, LenProperties DEF AgreeInv, PostedInOrder
  <2>3. ~ (posted[packet].body <= LimitAfter)
    <3>1. CASE authorised
      BY <1>11, <3>1 DEF Limit
    <3>2. CASE ~authorised
      <4>1. posted[packet].body > LimitBefore
        BY <1>7, <1>11, <3>2, TransmissionAssumption DEF Limit
      <4> QED  BY <2>2, <3>2, <4>1
    <3> QED  BY <3>1, <3>2
  <2>4. \E i \in DOMAIN posted' : ~Expected(posted'[i])
    BY <1>1, <1>6, <2>3 DEF Expected
  <2> QED  BY <1>1, <2>1, <2>4 DEF AgreeInv
<1> QED  BY <1>10, <1>11

(* A body read is refused only for a compression that was not offered.     *)
LEMMA AgreeReadsBody == OrderInv /\ AgreeInv /\ ReadBody => AgreeInv'
<1> SUFFICES ASSUME OrderInv, AgreeInv, ReadBody PROVE AgreeInv'
  OBVIOUS
<1> DEFINE packet == header.packet
           frame == posted[packet]
           line == buffer \o inFlight
<1>1. UNCHANGED <<stream, authorised, written, opened, desynced, posted, inFlight>>
  BY DEF ReadBody
<1>2. /\ buffer \in Seq(Place) /\ inFlight \in Seq(Place) /\ posted \in Seq(Frame)
      /\ dispatched \in Seq(Frame) /\ header # NoHeader /\ state = "open"
      /\ packet \in DOMAIN posted /\ packet = Len(dispatched) + 1
      /\ Available(frame.body)
  BY DEF OrderInv, ReadBody
<1>3. /\ frame \in Frame /\ frame.body \in Nat /\ frame.number = packet
      /\ packet \in Nat \ {0} /\ packet <= Len(posted) /\ Len(posted) \in Nat
      /\ HeaderSize \in Nat \ {0}
  BY <1>2, FrameFields DEF OrderInv
<1>4. /\ frame.body \in 0..Len(buffer) /\ Len(dispatched) \in Nat /\ Len(buffer) \in Nat
      /\ Len(inFlight) \in Nat
  BY <1>2, <1>3, LenProperties DEF Available
<1>5. /\ line \in Seq(Place) /\ frame.body \in 0..Len(line)
  <2>1. line \in Seq(Place) /\ Len(line) = Len(buffer) + Len(inFlight)
    BY <1>2, Joined
  <2> QED  BY <1>4, <2>1
<1>6. Whole(line, posted, stream)
  BY DEF AgreeInv
<1> HIDE DEF line
<1>7. Aligned(Read(frame.body), packet, HeaderSize + 1)
  <2>1. CASE frame.body = 0
    <3>1. DOMAIN Read(frame.body) = {}
      <4>1. DOMAIN Read(frame.body) = 1..frame.body
        BY <1>2, <1>4, Taken DEF Read
      <4> QED  BY <2>1, <4>1
    <3> QED  BY <3>1 DEF Aligned
  <2>2. CASE frame.body # 0
    <3>1. frame.body \in 1..Len(buffer) /\ HeaderSize + 1 \in Nat
      BY <1>3, <1>4, <2>2
    <3>2. /\ Expects(posted, header, dispatched).packet = packet
          /\ Expects(posted, header, dispatched).at = HeaderSize + 1
      BY <1>2, <2>2 DEF Expects
    <3>3. (HeaderSize + 1) + frame.body - 1 <= EndOf(posted, packet)
      BY <1>3 DEF EndOf
    <3> HIDE DEF frame, packet
    <3> QED  BY <1>2, <1>6, <3>1, <3>2, <3>3, ReadsAligned DEF line
  <2> QED  BY <2>1, <2>2
<1>8. /\ frame.encrypted = (packet >= 2)
      /\ packet >= 2 => opened >= 2 /\ frame.counter = packet - 2 /\ frame.body >= TagSize
  BY <1>2 DEF AgreeInv, PostedInOrder
<1>9. /\ session \in [set : BOOLEAN, tx : Nat, rx : Nat]
      /\ opened \in 0..Len(written) /\ Len(written) \in Nat
      /\ session.set => Len(dispatched) >= 1 /\ session.rx = Len(dispatched) - 1
      /\ ~session.set => Len(written) <= 1
  BY LenProperties DEF AgreeInv
<1> HIDE DEF packet, frame
(* Sealed exactly if the session is set, with the counter that is due.     *)
<1>10. /\ session.set <=> packet >= 2
       /\ packet >= 2 => frame.counter = session.rx
  <2>1. session.set => packet >= 2
    BY <1>2, <1>4, <1>9
  <2>2. packet >= 2 => session.set
    BY <1>8, <1>9
  <2> QED  BY <1>2, <1>4, <1>8, <1>9, <2>1, <2>2
<1>11. frame.encrypted = session.set /\ (frame.encrypted => frame.counter = session.rx /\ frame.body >= TagSize)
  <2>1. session.set \in BOOLEAN
    BY <1>9
  <2>2. frame.encrypted = session.set
    BY <1>8, <1>10, <2>1
  <2> QED  BY <1>8, <1>10, <2>2
<1>12. Decodes(frame, Read(frame.body)) = (frame.compressed => Zlib)
  BY <1>3, <1>7, <1>11 DEF Decodes
<1>13. CASE frame.compressed => Zlib
  <2>1. /\ dispatched' = Append(dispatched, frame) /\ buffer' = Rest(frame.body)
        /\ session' = IF session.set THEN [session EXCEPT !.rx = session.rx + 1] ELSE session
        /\ UNCHANGED state
    BY <1>12, <1>13 DEF ReadBody, NextCounter, packet, frame
  <2>2. Len(dispatched') = Len(dispatched) + 1 /\ Len(dispatched') <= Len(posted')
    <3>1. Len(dispatched') = Len(dispatched) + 1
      BY <1>2, <1>3, <2>1, AppendProperties
    <3> QED  BY <1>1, <1>2, <1>3, <3>1
  <2>3. buffer' \o inFlight' = SubSeq(line, frame.body + 1, Len(line))
    BY <1>1, <1>2, <1>4, <2>1, RestOfLine DEF Rest, line
  <2>4. Whole(buffer' \o inFlight', posted', stream')
    BY <1>1, <1>5, <1>6, <2>3, ReadWhole
  <2>5. /\ session' \in [set : BOOLEAN, tx : Nat, rx : Nat] /\ session'.set = session.set
        /\ session'.tx = session.tx /\ (session.set => session'.rx = session.rx + 1)
    <3>1. CASE session.set
      <4>1. session' = [session EXCEPT !.rx = session.rx + 1]
        BY <2>1, <3>1
      <4> QED  BY <1>9, <4>1
    <3>2. CASE ~session.set
      BY <1>9, <2>1, <3>2
    <3> QED  BY <3>1, <3>2
  <2>6. /\ session'.set => Len(dispatched') >= 1 /\ session'.rx = Len(dispatched') - 1
        /\ ~session'.set => Len(dispatched') <= 1
    BY <1>2, <1>3, <1>4, <1>9, <1>10, <2>2, <2>5
  <2> QED  BY <1>1, <2>1, <2>2, <2>4, <2>5, <2>6 DEF AgreeInv
<1>14. CASE ~ (frame.compressed => Zlib)
  <2>1. state' = "refused" /\ UNCHANGED <<buffer, header, dispatched, session>>
    BY <1>12, <1>14 DEF ReadBody, Refuse, packet, frame
  <2>2. \E i \in DOMAIN posted' : ~Expected(posted'[i])
    BY <1>1, <1>2, <1>14 DEF Expected, frame
  <2> QED  BY <1>1, <2>1, <2>2 DEF AgreeInv
<1> QED  BY <1>13, <1>14

LEMMA AgreeStep == OrderInv /\ AgreeInv /\ [StreamNext]_streamVars => AgreeInv'
<1> SUFFICES ASSUME OrderInv, AgreeInv, [StreamNext]_streamVars PROVE AgreeInv'
  OBVIOUS
<1>1. CASE Send
  BY <1>1, AgreeSend
<1>2. CASE Establish
  BY <1>2, AgreeEstablish
<1>3. CASE Authorise
  BY <1>3 DEF AgreeInv, Authorise
<1>4. CASE DaemonOpens
  BY <1>4, AgreeOpens
<1>5. CASE DaemonPosts
  BY <1>5, AgreePosts
<1>6. CASE ReadHeader
  BY <1>6, AgreeReadsHeader
<1>7. CASE ReadBody
  BY <1>7, AgreeReadsBody
<1>8. CASE OnData
  <2>1. PICK n \in 1..Len(inFlight) :
          /\ buffer' = buffer \o SubSeq(inFlight, 1, n)
          /\ inFlight' = SubSeq(inFlight, n + 1, Len(inFlight))
    BY <1>8 DEF OnData
  <2>2. buffer' \o inFlight' = buffer \o inFlight
    BY <2>1, SplitLine DEF OrderInv
  <2>3. UNCHANGED <<stream, state, session, authorised, written, opened, desynced, posted, dispatched>>
    BY <1>8 DEF OnData
  <2> QED  BY <2>2, <2>3 DEF AgreeInv
<1>9. CASE SocketLost
  BY <1>9 DEF AgreeInv, SocketLost
<1>10. CASE NewStream
  BY <1>10, AgreeNewStream
<1>11. CASE UNCHANGED streamVars
  BY <1>11 DEF AgreeInv, streamVars
<1> QED  BY <1>1, <1>2, <1>3, <1>4, <1>5, <1>6, <1>7, <1>8, <1>9, <1>10, <1>11 DEF StreamNext, Pump

(* The two sides never lose step: the daemon meets the counter it expects  *)
(* in whatever reaches it, and a packet is refused only for its length or  *)
(* for a compression that was not offered, never for the state of the      *)
(* session or for bytes out of place (readPacket()).                       *)
THEOREM CountersStayInStep == StreamSpec => []CountersAgree
<1>1. StreamInit => OrderInv /\ AgreeInv
  BY OrderInit, AgreeInit
<1>2. OrderInv /\ AgreeInv /\ [StreamNext]_streamVars => OrderInv' /\ AgreeInv'
  BY OrderKept, AgreeStep
<1>3. AgreeInv => CountersAgree
  BY DEF AgreeInv, CountersAgree
<1> QED  BY <1>1, <1>2, <1>3, PTL DEF StreamSpec

(* The types of the stream: the bytes are those of packets the daemon      *)
(* posts, on sockets the connection goes through.                          *)
StreamTypes ==
  /\ stream \in 1..MaxStreams /\ state \in {"open", "lost", "refused"}
  /\ authorised \in BOOLEAN /\ desynced \in BOOLEAN
  /\ nonces \in Seq([stream : 1..MaxStreams, counter : Nat])
  /\ inFlight \in Seq(Byte) /\ buffer \in Seq(Byte)

LEMMA SendTypes == StreamTypes /\ NonceInv /\ Send => StreamTypes'
<1> SUFFICES ASSUME StreamTypes, NonceInv, Send PROVE StreamTypes'
  OBVIOUS
<1> DEFINE nonce == [stream |-> stream, counter |-> session.tx]
           Nonce == [stream : 1..MaxStreams, counter : Nat]
<1>1. /\ UNCHANGED <<stream, authorised, desynced, inFlight, buffer>> /\ (state' = "lost" \/ UNCHANGED state)
      /\ nonces' = Append(nonces, nonce) \/ UNCHANGED nonces
  BY DEF Send
<1>2. nonce \in Nonce
  <2>1. stream \in 1..MaxStreams /\ session.tx \in Nat
    BY DEF StreamTypes, NonceInv
  <2> QED  BY <2>1
<1> HIDE DEF nonce
<1>3. nonces \in Seq(Nonce)
  BY DEF StreamTypes
<1>4. nonces' \in Seq(Nonce)
  <2> HIDE DEF Nonce
  <2> QED  BY <1>1, <1>2, <1>3, AppendProperties
<1> QED  BY <1>1, <1>4 DEF StreamTypes

LEMMA PostTypes == StreamTypes /\ OrderInv /\ DaemonPosts => StreamTypes'
<1> SUFFICES ASSUME StreamTypes, OrderInv, DaemonPosts PROVE StreamTypes'
  OBVIOUS
<1>1. PICK frame \in Frame : Channel!Post(frame)
  BY OrderPosts
<1>2. /\ posted' = Append(posted, frame) /\ \E one : /\ posted' = Append(posted, one)
                                                     /\ inFlight' = inFlight \o BytesOf(one)
      /\ UNCHANGED <<stream, state, authorised, desynced, nonces, buffer>>
  BY <1>1 DEF Channel!Post, DaemonPosts
<1>3. PICK one : posted' = Append(posted, one) /\ inFlight' = inFlight \o BytesOf(one)
  BY <1>2
<1>4. one = frame
  <2>1. posted'[Len(posted) + 1] = frame /\ Len(posted) \in Nat
    BY <1>2, AppendProperties, LenProperties DEF OrderInv
  <2>2. posted'[Len(posted) + 1] = one
    BY <1>3, AppendProperties, SeqMonotonic, SMT DEF OrderInv
  <2> QED  BY <2>1, <2>2
<1>5. BytesOf(frame) \in Seq(Byte)
  <2> DEFINE n == HeaderSize + frame.body
  <2>1. /\ n \in Nat /\ n <= HeaderSize + MaxBody + TagSize /\ frame.number \in 1..MaxPackets
    BY TransmissionAssumption DEF Frame
  <2> HIDE DEF n
  <2>2. \A i \in 1..n : i \in 1..(HeaderSize + MaxBody + TagSize)
    BY <2>1, TransmissionAssumption
  <2>3. \A i \in 1..n : [stream |-> stream, packet |-> frame.number, at |-> i] \in Byte
    BY <2>1, <2>2 DEF Byte, StreamTypes
  <2>4. BytesOf(frame) = [i \in 1..n |-> [stream |-> stream, packet |-> frame.number, at |-> i]]
    BY DEF BytesOf, n
  <2>5. BytesOf(frame) \in [1..n -> Byte]
    BY <2>3, <2>4
  <2> QED  BY <2>1, <2>5, SeqDef
<1>6. inFlight' \in Seq(Byte)
  BY <1>3, <1>4, <1>5, ConcatProperties DEF StreamTypes
<1> QED  BY <1>2, <1>6 DEF StreamTypes

LEMMA ChunkTypes == StreamTypes /\ OnData => StreamTypes'
<1> SUFFICES ASSUME StreamTypes, OnData PROVE StreamTypes'
  OBVIOUS
<1>1. PICK n \in 1..Len(inFlight) :
        /\ buffer' = buffer \o SubSeq(inFlight, 1, n)
        /\ inFlight' = SubSeq(inFlight, n + 1, Len(inFlight))
  BY DEF OnData
<1>2. UNCHANGED <<stream, state, authorised, desynced, nonces>>
  BY DEF OnData
<1>3. n \in 0..Len(inFlight) /\ inFlight \in Seq(Byte) /\ buffer \in Seq(Byte)
  BY LenProperties DEF StreamTypes
<1>4. SubSeq(inFlight, 1, n) \in Seq(Byte) /\ inFlight' \in Seq(Byte)
  BY <1>1, <1>3, Taken, Dropped
<1>5. buffer' \in Seq(Byte)
  BY <1>1, <1>3, <1>4, ConcatProperties
<1> QED  BY <1>2, <1>4, <1>5 DEF StreamTypes

LEMMA PumpTypes == StreamTypes /\ OrderInv /\ Pump => StreamTypes'
<1> SUFFICES ASSUME StreamTypes, OrderInv, Pump PROVE StreamTypes'
  OBVIOUS
<1>1. UNCHANGED <<stream, authorised, desynced, nonces, inFlight>> /\ (state' = "refused" \/ UNCHANGED state)
  BY DEF Pump, ReadHeader, ReadBody, Refuse
<1>2. UNCHANGED buffer \/ \E n \in Nat : Available(n) /\ buffer' = Rest(n)
  <2>1. CASE ReadHeader
    BY <2>1, TransmissionAssumption DEF ReadHeader, Refuse
  <2>2. CASE ReadBody
    <3>1. posted[header.packet].body \in Nat
      BY <2>2, FrameFields DEF ReadBody, OrderInv
    <3> QED  BY <2>2, <3>1 DEF ReadBody, Refuse
  <2> QED  BY <2>1, <2>2 DEF Pump
<1>3. ASSUME NEW n \in Nat, Available(n), buffer' = Rest(n) PROVE buffer' \in Seq(Byte)
  <2>1. n \in 0..Len(buffer) /\ buffer \in Seq(Byte)
    BY <1>3, LenProperties DEF Available, StreamTypes
  <2> QED  BY <1>3, <2>1, Dropped DEF Rest
<1>4. buffer' \in Seq(Byte)
  BY <1>2, <1>3 DEF StreamTypes
<1> QED  BY <1>1, <1>4 DEF StreamTypes

LEMMA NewStreamTypes == StreamTypes /\ NewStream => StreamTypes'
<1> SUFFICES ASSUME StreamTypes, NewStream PROVE StreamTypes'
  OBVIOUS
<1>1. /\ stream < MaxStreams /\ stream' = stream + 1 /\ state' = "open" /\ authorised' = FALSE
      /\ desynced' = FALSE /\ inFlight' = <<>> /\ buffer' = <<>> /\ UNCHANGED nonces
  BY DEF NewStream
<1>2. stream' \in 1..MaxStreams
  BY <1>1, TransmissionAssumption DEF StreamTypes
<1> QED  BY <1>1, <1>2, EmptySeq DEF StreamTypes

LEMMA StreamTypesStep == StreamTypes /\ NonceInv /\ OrderInv /\ [StreamNext]_streamVars => StreamTypes'
<1> SUFFICES ASSUME StreamTypes, NonceInv, OrderInv, [StreamNext]_streamVars PROVE StreamTypes'
  OBVIOUS
<1>1. CASE Send
  BY <1>1, SendTypes
<1>2. CASE DaemonPosts
  BY <1>2, PostTypes
<1>3. CASE Pump
  BY <1>3, PumpTypes
<1>4. CASE OnData
  BY <1>4, ChunkTypes
<1>5. CASE NewStream
  BY <1>5, NewStreamTypes
<1>6. CASE Establish \/ Authorise \/ DaemonOpens \/ SocketLost \/ UNCHANGED streamVars
  <2>1. /\ UNCHANGED <<stream, nonces, inFlight, buffer>> /\ (state' = "lost" \/ UNCHANGED state)
        /\ authorised' = TRUE \/ UNCHANGED authorised
        /\ desynced' = TRUE \/ UNCHANGED desynced
    BY <1>6 DEF Establish, Authorise, DaemonOpens, SocketLost, streamVars
  <2> QED  BY <2>1 DEF StreamTypes
<1> QED  BY <1>1, <1>2, <1>3, <1>4, <1>5, <1>6 DEF StreamNext

LEMMA InvariantsTyped == StreamTypes /\ OrderInv /\ AgreeInv => StreamTypeOK
<1> SUFFICES ASSUME StreamTypes, OrderInv, AgreeInv PROVE StreamTypeOK
  OBVIOUS
<1>1. header \in {NoHeader} \union [packet : 1..MaxPackets]
  <2> SUFFICES ASSUME header # NoHeader PROVE header \in [packet : 1..MaxPackets]
    OBVIOUS
  <2>1. header \in [packet : DOMAIN posted]
    BY DEF OrderInv
  <2>2. \A k \in DOMAIN posted : k \in 1..MaxPackets
    <3> SUFFICES ASSUME NEW k \in DOMAIN posted PROVE k \in 1..MaxPackets
      OBVIOUS
    <3>1. posted[k] \in Frame /\ posted[k].number = k
      BY FrameFields DEF OrderInv
    <3> QED  BY <3>1 DEF Frame
  <2> QED  BY <2>1, <2>2
<1>2. session \in [set : BOOLEAN, tx : Nat, rx : Nat]
      /\ written \in Seq([encrypted : BOOLEAN, counter : Nat]) /\ opened \in 0..Len(written)
  BY DEF AgreeInv
<1>3. posted \in Seq(Frame) /\ dispatched \in Seq(Frame)
  BY DEF OrderInv
<1> QED  BY <1>1, <1>2, <1>3 DEF StreamTypes, StreamTypeOK

(* Whatever the socket cuts the bytes into, what is buffered are bytes of  *)
(* packets of a socket, and every nonce is of a socket of the connection.  *)
THEOREM StreamTypeCorrect == StreamSpec => []StreamTypeOK
<1>1. StreamInit => StreamTypes
  <2> SUFFICES ASSUME StreamInit PROVE StreamTypes
    OBVIOUS
  <2>1. stream \in 1..MaxStreams
    BY TransmissionAssumption DEF StreamInit
  <2>2. nonces \in Seq([stream : 1..MaxStreams, counter : Nat]) /\ inFlight \in Seq(Byte) /\ buffer \in Seq(Byte)
    BY EmptySeq DEF StreamInit
  <2> QED  BY <2>1, <2>2 DEF StreamInit, StreamTypes
<1>2. StreamInit => NonceInv /\ OrderInv /\ AgreeInv
  BY NonceInit, OrderInit, AgreeInit
<1>3. NonceInv /\ OrderInv /\ AgreeInv /\ [StreamNext]_streamVars => NonceInv' /\ OrderInv' /\ AgreeInv'
  BY NonceStep, OrderKept, AgreeStep
<1> QED  BY <1>1, <1>2, <1>3, StreamTypesStep, InvariantsTyped, PTL DEF StreamSpec
=============================================================================
