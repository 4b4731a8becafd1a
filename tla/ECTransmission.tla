--------------------------- MODULE ECTransmission ---------------------------
(***************************************************************************)
(* Below the packets of ECConnection: bytes.  send() frames a body with    *)
(* its flags and length and seals it once an AEAD session is set;          *)
(* onData() queues the chunks of the socket, flushPendingReads() cuts them *)
(* up again for readBytes(), and readPacket() checks the header, opens,    *)
(* inflates and decodes the body (ECConnection.ts, Transmission.ts,        *)
(* ECFlags.ts, ECAEADCipher.ts).                                           *)
(*                                                                         *)
(* A byte is known by the packet it belongs to and its place in it.  Bytes *)
(* taken in the wrong place decode to nothing.  The session is agreed on   *)
(* by the first exchange (EC_OP_AUTH_REQ, EC_OP_AUTH_SALT), both in clear; *)
(* everything after it is sealed.                                          *)
(***************************************************************************)
EXTENDS Naturals, Sequences

CONSTANTS
  HeaderSize,   \* bytes of a header (8)
  TagSize,      \* bytes sealing adds to a body (16)
  MaxBody,      \* bound: the length of a body the daemon sends
  LimitBefore, LimitAfter,  \* maxPacketBytesUnauthenticated, ...Authenticated
  Zlib,         \* localCapabilities.zlib
  MaxPackets,   \* bound: packets of each side on a socket
  MaxStreams    \* bound: sockets the connection goes through

ASSUME TransmissionAssumption ==
  /\ HeaderSize \in Nat \ {0} /\ TagSize \in Nat /\ MaxBody \in Nat
  /\ LimitBefore \in Nat /\ LimitAfter \in Nat /\ Zlib \in BOOLEAN
  /\ MaxPackets \in Nat /\ MaxStreams \in Nat \ {0}

VARIABLES
  stream,       \* which of the successive sockets it is
  state,        \* "open", "lost" (the socket went) or "refused" (abort())
  session,      \* the client's AEAD session: set, and its two counters
  authorised,   \* authenticated
  written,      \* the packets the client wrote: sealed, and with which counter
  opened,       \* how many of them the daemon has opened
  desynced,     \* the daemon met a counter it did not expect
  nonces,       \* every nonce the client has sealed with, oldest first
  posted,       \* the packets the daemon posted on this socket
  inFlight,     \* their bytes not yet received
  buffer,       \* receiveChunks, joined
  header,       \* the header readPacket() holds while it waits for the body
  dispatched    \* what dispatchPacket() was given on this socket

streamVars == <<stream, state, session, authorised, written, opened, desynced,
                nonces, posted, inFlight, buffer, header, dispatched>>

Frame == [number : 1..MaxPackets, body : 0..(MaxBody + TagSize), compressed : BOOLEAN,
          encrypted : BOOLEAN, counter : 0..MaxPackets]
Byte == [stream : 1..MaxStreams, packet : 1..MaxPackets,
         at : 1..(HeaderSize + MaxBody + TagSize)]
NoHeader == [packet |-> 0]
NoSession == [set |-> FALSE, tx |-> 0, rx |-> 0]

StreamTypeOK ==
  /\ stream \in 1..MaxStreams /\ state \in {"open", "lost", "refused"}
  /\ session \in [set : BOOLEAN, tx : Nat, rx : Nat]
  /\ authorised \in BOOLEAN /\ desynced \in BOOLEAN
  /\ written \in Seq([encrypted : BOOLEAN, counter : Nat]) /\ opened \in 0..Len(written)
  /\ nonces \in Seq([stream : 1..MaxStreams, counter : Nat])
  /\ posted \in Seq(Frame) /\ inFlight \in Seq(Byte) /\ buffer \in Seq(Byte)
  /\ header \in {NoHeader} \union [packet : 1..MaxPackets]
  /\ dispatched \in Seq(Frame)

StreamInit ==
  /\ stream = 1 /\ state = "open" /\ session = NoSession /\ authorised = FALSE
  /\ written = <<>> /\ opened = 0 /\ desynced = FALSE /\ nonces = <<>>
  /\ posted = <<>> /\ inFlight = <<>>
  /\ buffer = <<>> /\ header = NoHeader /\ dispatched = <<>>

-----------------------------------------------------------------------------
(* Sending. *)

(* Mutant: the counter is not advanced. *)
SameCounter(counter) == counter

(* sealBody(): the counter moves whatever becomes of the packet. *)
NextCounter(counter) == counter + 1

(* send(): sealing and writing follow each other without an await.  The    *)
(* write may fail, and then the socket is lost.  EC_OP_AUTH_REQ goes out   *)
(* in clear, EC_OP_AUTH_PASSWD sealed, requests once they are allowed.     *)
Send ==
  /\ state = "open" /\ Len(written) < MaxPackets
  /\ written # <<>> => session.set
  /\ Len(written) >= 2 => authorised
  /\ \/ /\ written' = Append(written, [encrypted |-> session.set, counter |-> session.tx])
        /\ UNCHANGED state
     \/ state' = "lost" /\ UNCHANGED written
  /\ IF session.set
     THEN /\ nonces' = Append(nonces, [stream |-> stream, counter |-> session.tx])
          /\ session' = [session EXCEPT !.tx = NextCounter(@)]
     ELSE UNCHANGED <<nonces, session>>
  /\ UNCHANGED <<stream, authorised, opened, desynced, posted, inFlight,
                 buffer, header, dispatched>>

(* performSRPHandshake(): the session of this socket, with keys of its own. *)
Establish ==
  /\ state = "open" /\ Len(dispatched) = 1 /\ ~session.set
  /\ session' = [NoSession EXCEPT !.set = TRUE]
  /\ UNCHANGED <<stream, state, authorised, written, opened, desynced, nonces, posted,
                 inFlight, buffer, header, dispatched>>

(* handshake() past EC_OP_AUTH_OK. *)
Authorise ==
  /\ state = "open" /\ Len(dispatched) >= 2 /\ ~authorised
  /\ authorised' = TRUE
  /\ UNCHANGED <<stream, state, session, written, opened, desynced, nonces, posted,
                 inFlight, buffer, header, dispatched>>

-----------------------------------------------------------------------------
(* The daemon (external): opens what it is sent in order, each packet with *)
(* the counter that follows the last one, and posts packets, the first in  *)
(* clear.  It posts the reply of a request past the limit of clients it    *)
(* has not authorised only to one it has.                                  *)
DaemonOpens ==
  /\ opened < Len(written) /\ ~desynced
  /\ LET frame == written[opened + 1] IN
     IF frame.encrypted /\ frame.counter # opened - 1
     THEN desynced' = TRUE /\ UNCHANGED opened
     ELSE opened' = opened + 1 /\ UNCHANGED desynced
  /\ UNCHANGED <<stream, state, session, authorised, written, nonces, posted, inFlight,
                 buffer, header, dispatched>>

BytesOf(frame) ==
  [i \in 1..(HeaderSize + frame.body) |->
     [stream |-> stream, packet |-> frame.number, at |-> i]]

DaemonPosts ==
  /\ Len(posted) < MaxPackets /\ opened >= 1
  /\ posted # <<>> => opened >= 2
  /\ \E size \in 0..MaxBody, compressed \in BOOLEAN :
       LET sealed == posted # <<>>
           frame == [number |-> Len(posted) + 1,
                     body |-> IF sealed THEN size + TagSize ELSE size,
                     compressed |-> compressed, encrypted |-> sealed,
                     counter |-> IF sealed THEN Len(posted) - 1 ELSE 0] IN
       /\ frame.body > LimitBefore => opened >= 3
       /\ posted' = Append(posted, frame)
       /\ inFlight' = inFlight \o BytesOf(frame)
  /\ UNCHANGED <<stream, state, session, authorised, written, opened, desynced, nonces,
                 buffer, header, dispatched>>

-----------------------------------------------------------------------------
(* Receiving. *)

(* Mutants: a read waits for a byte more than it needs; what is left of    *)
(* the chunk is dropped; what was read is left in place.                   *)
Exceeds(n) == Len(buffer) > n
RestDropped(n) == <<>>
RestWithRead(n) == buffer

(* readBytes(): resolved at once when enough bytes are there. *)
Available(n) == Len(buffer) >= n

(* flushPendingReads(): what stays of the chunks after a read of n bytes. *)
Rest(n) == SubSeq(buffer, n + 1, Len(buffer))

Read(n) == SubSeq(buffer, 1, n)

(* n bytes of one packet of this socket, from place first on. *)
Aligned(bytes, packet, first) ==
  \A i \in DOMAIN bytes :
    bytes[i] = [stream |-> stream, packet |-> packet, at |-> first + i - 1]

PumpWaits ==
  IF header = NoHeader THEN ~Available(HeaderSize)
  ELSE ~Available(posted[header.packet].body)

(* abort(): the pending read is rejected and the socket destroyed. *)
Refuse ==
  /\ state' = "refused"
  /\ UNCHANGED <<buffer, header, dispatched, session>>

Limit == IF authorised THEN LimitAfter ELSE LimitBefore

(* readPacket(), up to its second readBytes(). *)
ReadHeader ==
  /\ state = "open" /\ header = NoHeader /\ Available(HeaderSize)
  /\ LET packet == buffer[1].packet IN
     IF Aligned(Read(HeaderSize), packet, 1) /\ posted[packet].body <= Limit
     THEN /\ header' = [packet |-> packet] /\ buffer' = Rest(HeaderSize)
          /\ UNCHANGED <<state, dispatched, session>>
     ELSE Refuse
  /\ UNCHANGED <<stream, authorised, written, opened, desynced, nonces, posted, inFlight>>

(* Whether the rest of readPacket() accepts a body: sealed exactly if a    *)
(* session is set, with the counter that is due, and compressed only if    *)
(* that was negotiated.                                                    *)
Decodes(frame, bytes) ==
  /\ Aligned(bytes, frame.number, HeaderSize + 1)
  /\ frame.encrypted = session.set
  /\ frame.encrypted => frame.counter = session.rx /\ frame.body >= TagSize
  /\ frame.compressed => Zlib

ReadBody ==
  /\ state = "open" /\ header # NoHeader
  /\ LET frame == posted[header.packet] IN
     /\ Available(frame.body)
     /\ IF Decodes(frame, Read(frame.body))
        THEN /\ dispatched' = Append(dispatched, frame)
             /\ session' = IF session.set THEN [session EXCEPT !.rx = NextCounter(@)] ELSE session
             /\ header' = NoHeader /\ buffer' = Rest(frame.body)
             /\ UNCHANGED state
        ELSE Refuse
  /\ UNCHANGED <<stream, authorised, written, opened, desynced, nonces, posted, inFlight>>

(* onData(): a chunk of any length.  Promises come before the next event   *)
(* of the socket, so the pump has taken what it can.                       *)
OnData ==
  /\ state = "open" /\ PumpWaits
  /\ \E n \in 1..Len(inFlight) :
       /\ buffer' = buffer \o SubSeq(inFlight, 1, n)
       /\ inFlight' = SubSeq(inFlight, n + 1, Len(inFlight))
  /\ UNCHANGED <<stream, state, session, authorised, written, opened, desynced, nonces,
                 posted, header, dispatched>>

SocketLost ==
  /\ state = "open" /\ PumpWaits
  /\ state' = "lost"
  /\ UNCHANGED <<stream, session, authorised, written, opened, desynced, nonces, posted,
                 inFlight, buffer, header, dispatched>>

(* reconnect() *)
NewStream ==
  /\ state = "open" => PumpWaits
  /\ stream < MaxStreams
  /\ stream' = stream + 1 /\ state' = "open"
  /\ session' = NoSession /\ authorised' = FALSE
  /\ written' = <<>> /\ opened' = 0 /\ desynced' = FALSE
  /\ posted' = <<>> /\ inFlight' = <<>>
  /\ buffer' = <<>> /\ header' = NoHeader /\ dispatched' = <<>>
  /\ UNCHANGED nonces

Pump == ReadHeader \/ ReadBody

StreamNext ==
  \/ Send \/ Establish \/ Authorise
  \/ DaemonOpens \/ DaemonPosts
  \/ Pump \/ OnData \/ SocketLost \/ NewStream

StreamFairness == WF_streamVars(Pump) /\ WF_streamVars(OnData)

StreamSpec == StreamInit /\ [][StreamNext]_streamVars /\ StreamFairness

-----------------------------------------------------------------------------
(* Packets split over chunks, chunks of several packets, empty bodies: the *)
(* packets come out whole, once and in order (flushPendingReads()).        *)
Channel == INSTANCE PacketChannel WITH Posted <- Frame, sent <- posted, received <- dispatched

KeepsOrder == Channel!Spec

(* No nonce is used twice with the keys of a socket, through failed writes *)
(* and reconnections (sealBody()).                                         *)
NonceUnique ==
  \A i, j \in DOMAIN nonces : nonces[i] = nonces[j] => i = j

(* The counters of the two sides move together: the daemon opens whatever  *)
(* reached it, and the client refuses a packet only for its length or for  *)
(* a compression it did not offer.                                         *)
Expected(frame) == frame.body <= LimitAfter /\ (frame.compressed => Zlib)

CountersAgree ==
  /\ ~desynced
  /\ state = "refused" => \E i \in DOMAIN posted : ~Expected(posted[i])

(* A packet received to its last byte is dispatched, without waiting for   *)
(* what comes next, unless it must be refused.                             *)
EveryPacketDispatched ==
  \A s \in 1..MaxStreams, n \in 1..MaxPackets :
    (stream = s /\ state = "open" /\ Len(posted) = n)
      ~> (stream # s \/ state # "open" \/ Len(dispatched) >= n)
=============================================================================
