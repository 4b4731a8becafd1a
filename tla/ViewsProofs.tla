----------------------------- MODULE ViewsProofs -----------------------------
(***************************************************************************)
(* Proofs about what the client shows of the daemon: the lists of the      *)
(* trackers, the results of searches, the mirror of Update and the         *)
(* messages of Chat.                                                       *)
(***************************************************************************)
EXTENDS Trackers, Search, Update, Chat, SequenceTheorems, TLAPS

(* What an element appended or taken away does to a sequence.              *)
LEMMA Added1 ==
  ASSUME NEW S, NEW s \in Seq(S), NEW e \in S
  PROVE  /\ Append(s, e) \in Seq(S) /\ Append(s, e) # <<>> /\ Len(s) \in Nat
         /\ Len(Append(s, e)) = Len(s) + 1 /\ DOMAIN Append(s, e) = 1..(Len(s) + 1)
         /\ DOMAIN s = 1..Len(s) /\ (s = <<>>) = (Len(s) = 0)
         /\ \A i \in 1..Len(s) : Append(s, e)[i] = s[i] /\ s[i] \in S
         /\ Append(s, e)[Len(s) + 1] = e
<1>1. /\ Append(s, e) \in Seq(S) /\ Append(s, e) # <<>> /\ Len(Append(s, e)) = Len(s) + 1
      /\ \A i \in 1..Len(s) : Append(s, e)[i] = s[i]
      /\ Append(s, e)[Len(s) + 1] = e
  BY AppendProperties
<1>2. Len(s) \in Nat /\ DOMAIN s = 1..Len(s) /\ DOMAIN Append(s, e) = 1..Len(Append(s, e))
  BY <1>1, LenProperties
<1>3. \A i \in 1..Len(s) : s[i] \in S
  BY ElementOfSeq
<1>4. (s = <<>>) = (Len(s) = 0)
  BY EmptySeq
<1> QED  BY <1>1, <1>2, <1>3, <1>4

LEMMA Taken1 ==
  ASSUME NEW S, NEW s \in Seq(S), s # <<>>
  PROVE  /\ Head(s) \in S /\ Head(s) = s[1] /\ 1 \in DOMAIN s
         /\ Tail(s) \in Seq(S) /\ Len(s) \in Nat \ {0} /\ Len(Tail(s)) = Len(s) - 1
         /\ DOMAIN s = 1..Len(s) /\ DOMAIN Tail(s) = 1..(Len(s) - 1)
         /\ (Tail(s) = <<>>) = (Len(s) = 1)
         /\ \A i \in DOMAIN Tail(s) : i + 1 \in DOMAIN s /\ Tail(s)[i] = s[i + 1] /\ s[i + 1] \in S
<1>1. /\ Head(s) \in S /\ Tail(s) \in Seq(S) /\ Len(Tail(s)) = Len(s) - 1
      /\ \A i \in 1..Len(Tail(s)) : Tail(s)[i] = s[i + 1]
  BY HeadTailProperties
<1>2. Len(s) \in Nat /\ DOMAIN s = 1..Len(s) /\ DOMAIN Tail(s) = 1..Len(Tail(s))
  BY <1>1, LenProperties
<1>3. Len(s) # 0 /\ (Tail(s) = <<>>) = (Len(Tail(s)) = 0)
  BY <1>1, EmptySeq
<1>4. \A i \in 1..Len(s) : s[i] \in S
  BY ElementOfSeq
<1>5. Head(s) = s[1]
  OBVIOUS
<1>6. \A i \in DOMAIN Tail(s) : i + 1 \in DOMAIN s /\ Tail(s)[i] = s[i + 1]
  BY <1>1, <1>2
<1> QED  BY <1>1, <1>2, <1>3, <1>4, <1>5, <1>6

-----------------------------------------------------------------------------
(* Trackers.  A list of the daemon has no hash twice.                      *)
QueuedFile == [hash : Hashes, progress : 1..MaxProgress]
Listing == {files \in UNION {[D -> QueuedFile] : D \in SUBSET Nat} :
              \A a, b \in DOMAIN files : files[a].hash = files[b].hash => a = b}

TrackerUpdate ==
  [removed : {TRUE}, hash : Hashes] \union [removed : {FALSE}, id : Nat, file : TrackedFile]
TrackerPacket ==
  [op : {"reply"}, after : Listing] \union [op : {"push"}, update : TrackerUpdate, after : Listing]

(* What a packet says of the list before it and the list after it.         *)
Tells(before, packet) ==
  \/ packet.op = "reply" /\ packet.after = before
  \/ /\ packet.op = "push" /\ packet.update.removed
     /\ \E id \in DOMAIN before :
          before[id].hash = packet.update.hash /\ packet.after = DropFile(before, id)
  \/ /\ packet.op = "push" /\ ~packet.update.removed
     /\ packet.update.id \notin DOMAIN before /\ packet.update.file.hash # Unsent
     /\ packet.after = SetFile(before, packet.update.id, packet.update.file)
  \/ /\ packet.op = "push" /\ ~packet.update.removed
     /\ packet.update.id \in DOMAIN before /\ packet.update.file.hash = Unsent
     /\ packet.after = [before EXCEPT ![packet.update.id].progress = packet.update.file.progress]

(* The packets on their way tell, one after the other, how the list known  *)
(* becomes the daemon's.                                                   *)
Before(first, packets, i) == IF i = 1 THEN first ELSE packets[i - 1].after
TellAll(first, packets) ==
  \A i \in DOMAIN packets : Tells(Before(first, packets, i), packets[i])
LastOf(first, packets) == IF packets = <<>> THEN first ELSE packets[Len(packets)].after

OneReply(packets, waiting) ==
  \A i \in DOMAIN packets : packets[i].op = "reply" =>
    waiting /\ \A j \in DOMAIN packets : packets[j].op = "reply" => i = j

(* The list known when a fetch() is answered is the one it brings, until a *)
(* push comes; what is in the caches is shown, or about to be.             *)
TrackerLine ==
  /\ line \in Seq(TrackerPacket) /\ known \in Listing /\ queue \in Listing
  /\ given \in Nat /\ DOMAIN queue \subseteq 1..given
  /\ TellAll(known, line) /\ queue = LastOf(known, line)

TrackerView ==
  /\ kind \in {"none", "downloads", "sharedFiles"}
  /\ kind = "none" => cached = {} /\ line = <<>> /\ fetching = "no"
  /\ fetching = "answered" /\ ~late => fetched = known
  /\ TrackerFollows
  /\ kind # "sharedFiles" =>
       cached \subseteq DOMAIN filesByEcid \union (IF fetching = "answered" THEN DOMAIN fetched ELSE {})

TrackerInv == TrackerLine /\ OneReply(line, fetching = "asked") /\ TrackerView

LEMMA ListingMaps ==
  ASSUME NEW files \in Listing
  PROVE  /\ DOMAIN files \in SUBSET Nat /\ files \in [DOMAIN files -> QueuedFile]
         /\ \A id \in DOMAIN files : files[id] \in QueuedFile
         /\ \A a, b \in DOMAIN files : files[a].hash = files[b].hash => a = b
<1>1. files \in UNION {[D -> QueuedFile] : D \in SUBSET Nat}
      /\ \A a, b \in DOMAIN files : files[a].hash = files[b].hash => a = b
  BY DEF Listing
<1>2. PICK D \in SUBSET Nat : files \in [D -> QueuedFile]
  BY <1>1
<1> QED  BY <1>1, <1>2

LEMMA MapsListing ==
  ASSUME NEW D \in SUBSET Nat, NEW files \in [D -> QueuedFile],
         \A a, b \in D : files[a].hash = files[b].hash => a = b
  PROVE  files \in Listing
<1>1. files \in UNION {[E -> QueuedFile] : E \in SUBSET Nat} /\ DOMAIN files = D
  OBVIOUS
<1> QED  BY <1>1 DEF Listing

LEMMA EmptyListing == NoFiles \in Listing /\ DOMAIN NoFiles = {}
<1>1. NoFiles \in [{} -> QueuedFile] /\ {} \in SUBSET Nat /\ DOMAIN NoFiles = {}
  BY DEF NoFiles
<1> QED  BY <1>1, MapsListing

LEMMA DropListing ==
  ASSUME NEW files \in Listing, NEW id
  PROVE  DropFile(files, id) \in Listing /\ DOMAIN DropFile(files, id) = DOMAIN files \ {id}
<1> DEFINE less == DropFile(files, id)
           D == DOMAIN files \ {id}
<1>1. /\ DOMAIN files \in SUBSET Nat /\ \A a \in DOMAIN files : files[a] \in QueuedFile
      /\ \A a, b \in DOMAIN files : files[a].hash = files[b].hash => a = b
  BY ListingMaps
<1>2. /\ DOMAIN less = D /\ D \in SUBSET Nat /\ less \in [D -> QueuedFile]
      /\ \A a \in D : less[a] = files[a] /\ a \in DOMAIN files
  BY <1>1 DEF DropFile
<1> HIDE DEF less, D
<1>3. less \in Listing
  BY <1>1, <1>2, MapsListing
<1> QED  BY <1>2, <1>3 DEF less, D

LEMMA SetListing ==
  ASSUME NEW files \in Listing, NEW id \in Nat, NEW file \in QueuedFile,
         \A a \in DOMAIN files : a # id => files[a].hash # file.hash
  PROVE  SetFile(files, id, file) \in Listing
         /\ DOMAIN SetFile(files, id, file) = DOMAIN files \union {id}
<1> DEFINE more == SetFile(files, id, file)
           D == DOMAIN files \union {id}
<1>1. /\ DOMAIN files \in SUBSET Nat /\ \A a \in DOMAIN files : files[a] \in QueuedFile
      /\ \A a, b \in DOMAIN files : files[a].hash = files[b].hash => a = b
  BY ListingMaps
<1>2. /\ DOMAIN more = D /\ D \in SUBSET Nat /\ more \in [D -> QueuedFile]
      /\ \A a \in D : more[a] = IF a = id THEN file ELSE files[a]
      /\ \A a \in D : a # id => a \in DOMAIN files
  BY <1>1 DEF SetFile
<1> HIDE DEF more, D
<1>3. \A a, b \in D : more[a].hash = more[b].hash => a = b
  BY <1>1, <1>2
<1>4. more \in Listing
  BY <1>2, <1>3, MapsListing
<1> QED  BY <1>2, <1>4 DEF more, D

LEMMA ProgressListing ==
  ASSUME NEW files \in Listing, NEW id \in DOMAIN files, NEW progress \in 1..MaxProgress
  PROVE  LET next == [files EXCEPT ![id].progress = progress] IN
         /\ next \in Listing /\ DOMAIN next = DOMAIN files
         /\ next = SetFile(files, id, [hash |-> files[id].hash, progress |-> progress])
<1> DEFINE file == [hash |-> files[id].hash, progress |-> progress]
           next == [files EXCEPT ![id].progress = progress]
<1>1. /\ DOMAIN files \in SUBSET Nat /\ files \in [DOMAIN files -> QueuedFile]
      /\ files[id] \in QueuedFile
      /\ \A a, b \in DOMAIN files : files[a].hash = files[b].hash => a = b
  BY ListingMaps
<1>2. file \in QueuedFile /\ file.hash = files[id].hash /\ [files[id] EXCEPT !.progress = progress] = file
  BY <1>1 DEF QueuedFile
<1>3. next = [files EXCEPT ![id] = file]
  BY <1>1, <1>2
<1> HIDE DEF file
<1>4. next = SetFile(files, id, file)
  BY <1>1, <1>3 DEF SetFile
<1>5. SetFile(files, id, file) \in Listing /\ DOMAIN SetFile(files, id, file) = DOMAIN files
  <2>1. \A a \in DOMAIN files : a # id => files[a].hash # file.hash
    BY <1>1, <1>2
  <2>2. id \in Nat /\ DOMAIN files \union {id} = DOMAIN files
    BY <1>1
  <2> QED  BY <1>2, <2>1, <2>2, SetListing
<1> HIDE DEF next
<1> QED  BY <1>4, <1>5 DEF file, next

-----------------------------------------------------------------------------
LEMMA TellsMore ==
  ASSUME NEW first, NEW packets \in Seq(TrackerPacket), NEW one \in TrackerPacket,
         TellAll(first, packets), Tells(LastOf(first, packets), one)
  PROVE  /\ TellAll(first, Append(packets, one))
         /\ LastOf(first, Append(packets, one)) = one.after
<1> DEFINE more == Append(packets, one)
           n == Len(packets)
<1>1. /\ more # <<>> /\ n \in Nat /\ Len(more) = n + 1 /\ DOMAIN more = 1..(n + 1)
      /\ DOMAIN packets = 1..n /\ (packets = <<>>) = (n = 0)
      /\ \A i \in 1..n : more[i] = packets[i]
      /\ more[n + 1] = one
  BY Added1
<1> HIDE DEF more, n
<1>2. LastOf(first, more) = one.after
  BY <1>1 DEF LastOf
<1>3. ASSUME NEW i \in 1..n PROVE Tells(Before(first, more, i), more[i])
  <2>1. Before(first, more, i) = Before(first, packets, i)
    <3>1. i # 1 => i - 1 \in 1..n
      BY <1>1
    <3> QED  BY <1>1, <3>1 DEF Before
  <2> QED  BY <1>1, <2>1 DEF TellAll
<1>4. Before(first, more, n + 1) = LastOf(first, packets)
  <2>1. CASE n = 0
    BY <1>1, <2>1 DEF Before, LastOf
  <2>2. CASE n # 0
    <3>1. n \in 1..n /\ n + 1 # 1 /\ (n + 1) - 1 = n /\ packets # <<>>
      BY <1>1, <2>2
    <3> QED  BY <1>1, <3>1 DEF Before, LastOf, n
  <2> QED  BY <2>1, <2>2
<1>5. Tells(Before(first, more, n + 1), more[n + 1])
  BY <1>1, <1>4
<1>6. TellAll(first, more)
  <2>1. \A i \in DOMAIN more : i \in 1..n \/ i = n + 1
    BY <1>1
  <2> QED  BY <1>3, <1>5, <2>1 DEF TellAll
<1> QED  BY <1>2, <1>6 DEF more

LEMMA TellsLess ==
  ASSUME NEW first, NEW packets \in Seq(TrackerPacket), packets # <<>>, TellAll(first, packets)
  PROVE  /\ Tells(first, Head(packets))
         /\ TellAll(Head(packets).after, Tail(packets))
         /\ LastOf(Head(packets).after, Tail(packets)) = LastOf(first, packets)
<1> DEFINE rest == Tail(packets)
           n == Len(packets)
<1>1. /\ Head(packets) = packets[1] /\ 1 \in DOMAIN packets /\ n \in Nat \ {0}
      /\ Len(rest) = n - 1 /\ DOMAIN packets = 1..n /\ DOMAIN rest = 1..(n - 1)
      /\ (rest = <<>>) = (n = 1)
      /\ \A i \in DOMAIN rest : i + 1 \in DOMAIN packets /\ rest[i] = packets[i + 1]
  BY Taken1
<1>2. Tells(first, packets[1])
  BY <1>1 DEF TellAll, Before
<1> HIDE DEF rest, n
<1>3. ASSUME NEW i \in DOMAIN rest PROVE Tells(Before(packets[1].after, rest, i), rest[i])
  <2>1. Tells(Before(first, packets, i + 1), packets[i + 1])
    BY <1>1 DEF TellAll
  <2>2. Before(first, packets, i + 1) = packets[i].after
    BY <1>1 DEF Before
  <2>3. Before(packets[1].after, rest, i) = packets[i].after
    <3>1. CASE i = 1
      BY <3>1 DEF Before
    <3>2. CASE i # 1
      <4>1. i - 1 \in DOMAIN rest /\ (i - 1) + 1 = i
        BY <1>1, <3>2
      <4> QED  BY <1>1, <3>2, <4>1 DEF Before
    <3> QED  BY <3>1, <3>2
  <2> QED  BY <1>1, <2>1, <2>2, <2>3
<1>4. LastOf(packets[1].after, rest) = LastOf(first, packets)
  <2>1. LastOf(first, packets) = packets[n].after
    BY DEF LastOf, n
  <2>2. CASE n = 1
    BY <1>1, <2>1, <2>2 DEF LastOf
  <2>3. CASE n # 1
    <3>1. n - 1 \in DOMAIN rest /\ (n - 1) + 1 = n /\ rest # <<>>
      BY <1>1, <2>3
    <3>2. LastOf(packets[1].after, rest) = rest[n - 1].after
      BY <1>1, <3>1 DEF LastOf
    <3> QED  BY <1>1, <2>1, <3>1, <3>2
  <2> QED  BY <2>2, <2>3
<1> QED  BY <1>1, <1>2, <1>3, <1>4 DEF TellAll, rest

LEMMA ReplyAdded ==
  ASSUME NEW packets \in Seq(TrackerPacket), NEW one \in TrackerPacket, NEW waiting \in BOOLEAN,
         OneReply(packets, waiting),
         one.op = "reply" => waiting /\ \A i \in DOMAIN packets : packets[i].op # "reply"
  PROVE  OneReply(Append(packets, one), waiting)
<1> DEFINE more == Append(packets, one)
           n == Len(packets)
<1>1. /\ n \in Nat /\ DOMAIN more = 1..(n + 1) /\ DOMAIN packets = 1..n
      /\ \A i \in 1..n : more[i] = packets[i]
      /\ more[n + 1] = one
  BY Added1
<1> HIDE DEF more, n
<1>2. \A i \in DOMAIN more : i \in DOMAIN packets \/ i = n + 1
  BY <1>1
<1>3. ASSUME NEW i \in DOMAIN more, more[i].op = "reply"
      PROVE  waiting /\ \A j \in DOMAIN more : more[j].op = "reply" => i = j
  <2>1. CASE one.op = "reply"
    BY <1>1, <1>2, <1>3, <2>1
  <2>2. CASE one.op # "reply"
    <3>1. \A j \in DOMAIN more : more[j].op = "reply" => j \in DOMAIN packets /\ packets[j].op = "reply"
      BY <1>1, <1>2, <2>2
    <3> QED  BY <1>3, <3>1 DEF OneReply
  <2> QED  BY <2>1, <2>2
<1> QED  BY <1>3 DEF OneReply, more

LEMMA ReplyTaken ==
  ASSUME NEW packets \in Seq(TrackerPacket), packets # <<>>, NEW waiting \in BOOLEAN,
         OneReply(packets, waiting)
  PROVE  /\ OneReply(Tail(packets), waiting)
         /\ Head(packets).op = "reply" => waiting /\ OneReply(Tail(packets), FALSE)
<1>1. /\ Head(packets) = packets[1] /\ 1 \in DOMAIN packets /\ DOMAIN packets = 1..Len(packets)
      /\ DOMAIN Tail(packets) = 1..(Len(packets) - 1) /\ Len(packets) \in Nat
      /\ \A i \in DOMAIN Tail(packets) : i + 1 \in DOMAIN packets /\ Tail(packets)[i] = packets[i + 1]
  BY Taken1
<1>2. OneReply(Tail(packets), waiting)
  <2> SUFFICES ASSUME NEW i \in DOMAIN Tail(packets), Tail(packets)[i].op = "reply",
                      NEW j \in DOMAIN Tail(packets), Tail(packets)[j].op = "reply"
               PROVE  waiting /\ i = j
    BY DEF OneReply
  <2>1. waiting /\ i + 1 = j + 1
    BY <1>1 DEF OneReply
  <2> QED  BY <1>1, <2>1
<1>3. ASSUME Head(packets).op = "reply" PROVE waiting /\ OneReply(Tail(packets), FALSE)
  <2>1. waiting /\ \A j \in DOMAIN packets : packets[j].op = "reply" => j = 1
    BY <1>1, <1>3 DEF OneReply
  <2>2. \A j \in DOMAIN Tail(packets) : Tail(packets)[j].op # "reply"
    BY <1>1, <2>1
  <2> QED  BY <2>1, <2>2 DEF OneReply
<1> QED  BY <1>2, <1>3

LEMMA TrackerInitInv == TrackerInit => TrackerInv
<1> SUFFICES ASSUME TrackerInit PROVE TrackerInv
  OBVIOUS
<1>1. <<>> \in Seq(TrackerPacket) /\ DOMAIN <<>> = {}
  <2>1. <<>> \in Seq(TrackerPacket) /\ Len(<<>>) = 0
    BY EmptySeq
  <2> QED  BY <2>1, LenProperties
<1>2. NoFiles \in Listing /\ DOMAIN NoFiles = {}
  BY EmptyListing
<1>3. TrackerLine
  BY <1>1, <1>2 DEF TrackerInit, TrackerLine, TellAll, LastOf
<1>4. OneReply(line, fetching = "asked") /\ TrackerView
  BY <1>1 DEF TrackerInit, OneReply, TrackerView, TrackerFollows, InStep
<1> QED  BY <1>3, <1>4 DEF TrackerInv

(* The daemon pushes what it did to its list.                              *)
LEMMA TrackerPushes ==
  ASSUME TrackerInv, NEW update \in TrackerUpdate, NEW after \in Listing, Push(update, after),
         given' \in Nat, DOMAIN after \subseteq 1..given',
         Tells(queue, [op |-> "push", update |-> update, after |-> after])
  PROVE  TrackerInv'
<1> DEFINE one == [op |-> "push", update |-> update, after |-> after]
<1>1. one \in TrackerPacket /\ one.op = "push" /\ one.after = after
  BY DEF TrackerPacket
<1>2. /\ line' = Append(line, one) /\ queue' = after /\ kind # "none"
      /\ UNCHANGED <<kind, known, fetched, filesByEcid, cached, fetching, seeded, late, raced>>
  BY DEF Push
<1>3. line \in Seq(TrackerPacket) /\ TellAll(known, line) /\ Tells(LastOf(known, line), one)
  BY DEF TrackerInv, TrackerLine
<1> HIDE DEF one
<1>4. line' \in Seq(TrackerPacket) /\ TellAll(known, line') /\ LastOf(known, line') = after
  BY <1>1, <1>2, <1>3, TellsMore, Added1
<1>5. TrackerLine'
  BY <1>2, <1>4 DEF TrackerInv, TrackerLine
<1>6. OneReply(line', fetching' = "asked")
  <2>1. (fetching = "asked") \in BOOLEAN /\ OneReply(line, fetching = "asked") /\ one.op # "reply"
    BY <1>1 DEF TrackerInv
  <2>2. OneReply(Append(line, one), fetching = "asked")
    BY <1>1, <1>3, <2>1, ReplyAdded
  <2> QED  BY <1>2, <2>2
<1>7. TrackerView'
  BY <1>2 DEF TrackerInv, TrackerView, TrackerFollows, InStep
<1> QED  BY <1>5, <1>6, <1>7 DEF TrackerInv

LEMMA TrackerFileAdded == TrackerInv /\ (\E hash \in Hashes : FileAdded(hash)) => TrackerInv'
<1> SUFFICES ASSUME TrackerInv, NEW hash \in Hashes, FileAdded(hash) PROVE TrackerInv'
  OBVIOUS
<1> DEFINE file == [hash |-> hash, progress |-> 1]
           update == [removed |-> FALSE, id |-> given + 1, file |-> file]
           after == SetFile(queue, given + 1, file)
<1>1. /\ given' = given + 1 /\ \A id \in DOMAIN queue : queue[id].hash # hash
      /\ Push(update, after)
  BY DEF FileAdded
<1>2. given \in Nat /\ queue \in Listing /\ DOMAIN queue \subseteq 1..given
  BY DEF TrackerInv, TrackerLine
<1>3. file \in QueuedFile /\ file \in TrackedFile /\ file.hash = hash /\ hash # Unsent
  BY TrackerAssumption DEF QueuedFile, TrackedFile
<1>4. given + 1 \in Nat /\ given + 1 \notin DOMAIN queue
  BY <1>2
<1> HIDE DEF file
<1>5. after \in Listing /\ DOMAIN after = DOMAIN queue \union {given + 1}
  BY <1>1, <1>2, <1>3, <1>4, SetListing
<1>6. update \in TrackerUpdate
  BY <1>3, <1>4 DEF TrackerUpdate
<1>7. DOMAIN after \subseteq 1..given' /\ given' \in Nat
  BY <1>1, <1>2, <1>5
<1> HIDE DEF after
<1>8. Tells(queue, [op |-> "push", update |-> update, after |-> after])
  <2>1. ~update.removed /\ update.id = given + 1 /\ update.file = file
    OBVIOUS
  <2> HIDE DEF update
  <2> QED  BY <1>3, <1>4, <2>1 DEF Tells, after
<1> HIDE DEF update
<1> QED  BY <1>1, <1>5, <1>6, <1>7, <1>8, TrackerPushes

LEMMA TrackerFileChanged ==
  ASSUME TrackerInv, NEW id \in DOMAIN queue, FileChanged(id)
  PROVE  TrackerInv'
<1> DEFINE progress == queue[id].progress + 1
           file == [hash |-> Unsent, progress |-> progress]
           update == [removed |-> FALSE, id |-> id, file |-> file]
           after == [queue EXCEPT ![id].progress = progress]
<1>1. queue[id].progress < MaxProgress /\ given' = given /\ Push(update, after)
  BY DEF FileChanged
<1>2. given \in Nat /\ queue \in Listing /\ DOMAIN queue \subseteq 1..given
  BY DEF TrackerInv, TrackerLine
<1>3. queue[id] \in QueuedFile /\ id \in Nat
  BY <1>2, ListingMaps
<1>4. progress \in 1..MaxProgress
  BY <1>1, <1>3, TrackerAssumption DEF QueuedFile
<1> HIDE DEF progress
<1>5. after \in Listing /\ DOMAIN after = DOMAIN queue
  BY <1>2, <1>4, ProgressListing
<1>6. file \in TrackedFile /\ file.hash = Unsent /\ file.progress = progress
  BY <1>4 DEF TrackedFile
<1> HIDE DEF file
<1>7. update \in TrackerUpdate
  BY <1>3, <1>6 DEF TrackerUpdate
<1>8. DOMAIN after \subseteq 1..given' /\ given' \in Nat
  BY <1>1, <1>2, <1>5
<1>9. Tells(queue, [op |-> "push", update |-> update, after |-> after])
  <2>1. ~update.removed /\ update.id = id /\ update.file = file
    OBVIOUS
  <2>2. after = [queue EXCEPT ![update.id].progress = update.file.progress]
    BY <1>6, <2>1
  <2> HIDE DEF update, after
  <2> QED  BY <1>6, <2>1, <2>2 DEF Tells
<1> HIDE DEF update, after
<1> QED  BY <1>1, <1>5, <1>7, <1>8, <1>9, TrackerPushes

LEMMA TrackerFileRemoved ==
  ASSUME TrackerInv, NEW id \in DOMAIN queue, FileRemoved(id)
  PROVE  TrackerInv'
<1> DEFINE update == [removed |-> TRUE, hash |-> queue[id].hash]
           after == DropFile(queue, id)
<1>1. given' = given /\ Push(update, after)
  BY DEF FileRemoved
<1>2. given \in Nat /\ queue \in Listing /\ DOMAIN queue \subseteq 1..given
  BY DEF TrackerInv, TrackerLine
<1>3. queue[id] \in QueuedFile
  BY <1>2, ListingMaps
<1>4. after \in Listing /\ DOMAIN after = DOMAIN queue \ {id}
  BY <1>2, DropListing
<1>5. update \in TrackerUpdate /\ update.removed /\ update.hash = queue[id].hash
  BY <1>3 DEF TrackerUpdate, QueuedFile
<1>6. DOMAIN after \subseteq 1..given' /\ given' \in Nat
  BY <1>1, <1>2, <1>4
<1> HIDE DEF update
<1>7. Tells(queue, [op |-> "push", update |-> update, after |-> after])
  <2> HIDE DEF after
  <2> QED  BY <1>5 DEF Tells, after
<1> HIDE DEF after
<1> QED  BY <1>1, <1>4, <1>5, <1>6, <1>7, TrackerPushes

(* Its reply to a fetch() is the list as it is.                            *)
LEMMA TrackerServes == TrackerInv /\ FetchServed => TrackerInv'
<1> SUFFICES ASSUME TrackerInv, FetchServed PROVE TrackerInv'
  OBVIOUS
<1> DEFINE one == [op |-> "reply", after |-> queue]
<1>1. /\ fetching = "asked" /\ line' = Append(line, one)
      /\ \A i \in DOMAIN line : line[i].op # "reply"
      /\ UNCHANGED <<kind, queue, given, known, fetched, filesByEcid, cached, fetching, seeded,
                     late, raced>>
  BY DEF FetchServed
<1>2. /\ line \in Seq(TrackerPacket) /\ TellAll(known, line) /\ queue = LastOf(known, line)
      /\ queue \in Listing /\ OneReply(line, fetching = "asked") /\ kind # "none"
  BY <1>1 DEF TrackerInv, TrackerLine, TrackerView
<1>3. one \in TrackerPacket /\ one.op = "reply" /\ one.after = queue
  BY <1>2 DEF TrackerPacket
<1> HIDE DEF one
<1>4. Tells(LastOf(known, line), one)
  BY <1>2, <1>3 DEF Tells
<1>5. line' \in Seq(TrackerPacket) /\ TellAll(known, line') /\ LastOf(known, line') = queue
  BY <1>1, <1>2, <1>3, <1>4, TellsMore, Added1
<1>6. TrackerLine'
  BY <1>1, <1>5 DEF TrackerInv, TrackerLine
<1>7. OneReply(line', fetching' = "asked")
  <2>1. (fetching = "asked") \in BOOLEAN /\ (fetching = "asked") = TRUE
    BY <1>1
  <2>2. OneReply(Append(line, one), TRUE)
    BY <1>1, <1>2, <1>3, <2>1, ReplyAdded
  <2> QED  BY <1>1, <2>1, <2>2
<1>8. TrackerView'
  BY <1>1, <1>2 DEF TrackerInv, TrackerView, TrackerFollows, InStep
<1> QED  BY <1>6, <1>7, <1>8 DEF TrackerInv

LEMMA LineTaken ==
  ASSUME TrackerInv, NEW op, Received(op), UNCHANGED <<queue, given>>
  PROVE  /\ TrackerLine' /\ Head(line) \in TrackerPacket /\ Head(line).op = op
         /\ line # <<>> /\ line' = Tail(line) /\ known' = Head(line).after
         /\ Tells(known, Head(line)) /\ known \in Listing /\ kind # "none"
<1>1. /\ line # <<>> /\ Head(line).op = op /\ line' = Tail(line) /\ known' = Head(line).after
  BY DEF Received
<1>2. /\ line \in Seq(TrackerPacket) /\ TellAll(known, line) /\ queue = LastOf(known, line)
      /\ known \in Listing
  BY DEF TrackerInv, TrackerLine
<1>3. Head(line) \in TrackerPacket /\ Tail(line) \in Seq(TrackerPacket)
  BY <1>1, <1>2, Taken1
<1>4. Head(line).after \in Listing
  BY <1>3 DEF TrackerPacket
<1>5. /\ Tells(known, Head(line)) /\ TellAll(known', line') /\ LastOf(known', line') = queue
  BY <1>1, <1>2, TellsLess
<1>6. TrackerLine'
  BY <1>1, <1>3, <1>4, <1>5 DEF TrackerInv, TrackerLine
<1>7. kind # "none"
  BY <1>1 DEF TrackerInv, TrackerView
<1> QED  BY <1>1, <1>2, <1>3, <1>5, <1>6, <1>7

LEMMA TrackerReplied == TrackerInv /\ FetchReplied => TrackerInv'
<1> SUFFICES ASSUME TrackerInv, FetchReplied PROVE TrackerInv'
  OBVIOUS
<1>1. /\ Received("reply") /\ fetched' = Head(line).after /\ cached' = cached \union DOMAIN fetched'
      /\ fetching' = "answered" /\ late' = FALSE
      /\ UNCHANGED <<kind, queue, given, filesByEcid, seeded, raced>>
  BY DEF FetchReplied
<1>2. /\ TrackerLine' /\ Head(line) \in TrackerPacket /\ Head(line).op = "reply"
      /\ line # <<>> /\ line' = Tail(line) /\ known' = Head(line).after
      /\ Tells(known, Head(line)) /\ kind # "none"
  BY <1>1, LineTaken
<1>3. fetched' = known' /\ known' = known
  BY <1>1, <1>2 DEF Tells
<1>4. fetching = "asked" /\ OneReply(line', fetching' = "asked")
  <2>1. (fetching = "asked") \in BOOLEAN /\ OneReply(line, fetching = "asked") /\ line \in Seq(TrackerPacket)
    BY DEF TrackerInv, TrackerLine
  <2>2. (fetching = "asked") /\ OneReply(Tail(line), FALSE)
    BY <1>2, <2>1, ReplyTaken
  <2>3. (fetching' = "asked") = FALSE
    BY <1>1
  <2> QED  BY <1>2, <2>2, <2>3
<1>5. TrackerView'
  <2>1. TrackerFollows'
    BY <1>1, <1>3 DEF TrackerInv, TrackerView, TrackerFollows, InStep
  <2>2. kind' # "sharedFiles" => cached' \subseteq DOMAIN filesByEcid' \union DOMAIN fetched'
    BY <1>1, <1>4 DEF TrackerInv, TrackerView
  <2>3. kind' \in {"none", "downloads", "sharedFiles"}
    BY <1>1 DEF TrackerInv, TrackerView
  <2> QED  BY <1>1, <1>2, <1>3, <2>1, <2>2, <2>3 DEF TrackerView
<1> QED  BY <1>2, <1>4, <1>5 DEF TrackerInv

(* apply() on a list in step with the daemon's makes the next of its lists.*)
LEMMA TrackerApplies ==
  ASSUME TrackerInv, NotificationApplied, filesByEcid = known
  PROVE  filesByEcid' = known'
<1>1. Received("push") /\ UNCHANGED <<queue, given>>
  BY DEF NotificationApplied
<1> DEFINE packet == Head(line)
           update == packet.update
<1>2. /\ packet \in TrackerPacket /\ packet.op = "push" /\ known' = packet.after
      /\ Tells(known, packet) /\ known \in Listing
  BY <1>1, LineTaken
<1>3. update \in TrackerUpdate
  BY <1>2 DEF TrackerPacket
<1>4. /\ IF ~update.removed
         THEN filesByEcid' = SetFile(filesByEcid, update.id, MergedFile(update.id, update.file))
         ELSE IF IdsOf(update.hash) = {} THEN UNCHANGED filesByEcid
         ELSE \E id \in IdsOf(update.hash) : filesByEcid' = DropFile(filesByEcid, id)
  BY DEF NotificationApplied
<1> HIDE DEF packet
<1>5. CASE update.removed
  <2>1. PICK id \in DOMAIN known : known[id].hash = update.hash /\ packet.after = DropFile(known, id)
    BY <1>2, <1>5 DEF Tells
  <2>2. IdsOf(update.hash) = {id}
    <3>1. \A a, b \in DOMAIN known : known[a].hash = known[b].hash => a = b
      BY <1>2, ListingMaps
    <3> QED  BY <2>1, <3>1 DEF IdsOf
  <2>3. filesByEcid' = DropFile(filesByEcid, id)
    BY <1>4, <1>5, <2>2
  <2> QED  BY <1>2, <2>1, <2>3
<1>6. CASE ~update.removed
  <2>0. update.id \in Nat /\ update.file \in TrackedFile
        /\ filesByEcid' = SetFile(filesByEcid, update.id, MergedFile(update.id, update.file))
    BY <1>3, <1>4, <1>6 DEF TrackerUpdate
  <2>1. CASE /\ update.id \notin DOMAIN known /\ update.file.hash # Unsent
             /\ packet.after = SetFile(known, update.id, update.file)
    <3>1. MergedFile(update.id, update.file) = update.file
      BY <2>1 DEF MergedFile
    <3> QED  BY <1>2, <2>0, <2>1, <3>1
  <2>2. CASE /\ update.id \in DOMAIN known /\ update.file.hash = Unsent
             /\ packet.after = [known EXCEPT ![update.id].progress = update.file.progress]
    <3> DEFINE file == [hash |-> known[update.id].hash, progress |-> update.file.progress]
    <3>1. MergedFile(update.id, update.file) = file
      BY <2>0, <2>2 DEF MergedFile, TrackedFile
    <3>2. update.file.progress \in 1..MaxProgress
      BY <2>0 DEF TrackedFile
    <3>3. packet.after = SetFile(known, update.id, file)
      BY <1>2, <2>2, <3>2, ProgressListing
    <3> HIDE DEF file
    <3> QED  BY <1>2, <2>0, <3>1, <3>3
  <2> QED  BY <1>2, <1>6, <2>1, <2>2 DEF Tells
<1> QED  BY <1>5, <1>6

LEMMA TrackerNotified == TrackerInv /\ NotificationApplied => TrackerInv'
<1> SUFFICES ASSUME TrackerInv, NotificationApplied PROVE TrackerInv'
  OBVIOUS
<1> DEFINE update == Head(line).update
<1>1. /\ Received("push") /\ late' = TRUE
      /\ UNCHANGED <<kind, queue, given, fetched, fetching, seeded, raced>>
      /\ IF ~update.removed
         THEN /\ filesByEcid' = SetFile(filesByEcid, update.id, MergedFile(update.id, update.file))
              /\ cached' = cached \union {update.id}
         ELSE IF IdsOf(update.hash) = {} THEN UNCHANGED <<filesByEcid, cached>>
         ELSE \E id \in IdsOf(update.hash) :
                filesByEcid' = DropFile(filesByEcid, id) /\ cached' = Forget({id})
  BY DEF NotificationApplied
<1>2. TrackerLine' /\ line # <<>> /\ line' = Tail(line) /\ kind # "none"
  BY <1>1, LineTaken
<1>3. OneReply(line', fetching' = "asked")
  <2>1. (fetching = "asked") \in BOOLEAN /\ OneReply(line, fetching = "asked") /\ line \in Seq(TrackerPacket)
    BY DEF TrackerInv, TrackerLine
  <2>2. OneReply(Tail(line), fetching = "asked")
    BY <1>2, <2>1, ReplyTaken
  <2> QED  BY <1>1, <1>2, <2>2
<1> HIDE DEF update
<1>4. ASSUME kind # "sharedFiles"
      PROVE  cached' \subseteq DOMAIN filesByEcid' \union
                                 (IF fetching' = "answered" THEN DOMAIN fetched' ELSE {})
  <2> DEFINE more == IF fetching = "answered" THEN DOMAIN fetched ELSE {}
  <2>1. cached \subseteq DOMAIN filesByEcid \union more
    BY <1>4 DEF TrackerInv, TrackerView
  <2>2. more = IF fetching' = "answered" THEN DOMAIN fetched' ELSE {}
    BY <1>1
  <2> HIDE DEF more
  <2>3. cached' \subseteq DOMAIN filesByEcid' \union more
    <3>1. CASE ~update.removed
      <4>1. DOMAIN filesByEcid' = DOMAIN filesByEcid \union {update.id} /\ cached' = cached \union {update.id}
        BY <1>1, <3>1 DEF SetFile
      <4> QED  BY <2>1, <4>1
    <3>2. CASE update.removed /\ IdsOf(update.hash) = {}
      BY <1>1, <2>1, <3>2
    <3>3. CASE update.removed /\ IdsOf(update.hash) # {}
      <4>1. PICK id \in IdsOf(update.hash) :
              filesByEcid' = DropFile(filesByEcid, id) /\ cached' = Forget({id})
        BY <1>1, <3>3
      <4>2. DOMAIN filesByEcid' = DOMAIN filesByEcid \ {id}
        BY <4>1 DEF DropFile
      <4>3. kind = "downloads" => cached' = cached \ {id}
        BY <4>1 DEF Forget
      <4>4. kind = "downloads" \/ kind = "none" \/ kind = "sharedFiles"
        BY DEF TrackerInv, TrackerView, TrackerLine
      <4> QED  BY <1>2, <1>4, <2>1, <4>2, <4>3, <4>4
    <3> QED  BY <3>1, <3>2, <3>3
  <2> QED  BY <2>2, <2>3
<1>5. TrackerFollows'
  <2>1. TrackerFollows
    BY DEF TrackerInv, TrackerView
  <2>2. InStep => filesByEcid' = known'
    BY <2>1, TrackerApplies DEF TrackerFollows
  <2>3. InStep' = InStep
    BY <1>1 DEF InStep
  <2> QED  BY <2>2, <2>3 DEF TrackerFollows
<1>6. kind' \in {"none", "downloads", "sharedFiles"}
  BY <1>1 DEF TrackerInv, TrackerView
<1>7. TrackerView'
  BY <1>1, <1>2, <1>4, <1>5, <1>6 DEF TrackerView
<1> QED  BY <1>2, <1>3, <1>7 DEF TrackerInv

(* seed() puts the tracker in step, unless a push came before it.          *)
LEMMA TrackerSeeded == TrackerInv /\ SeedTracker => TrackerInv'
<1> SUFFICES ASSUME TrackerInv, SeedTracker PROVE TrackerInv'
  OBVIOUS
<1>1. /\ fetching = "answered" /\ fetching' = "no" /\ seeded' = TRUE /\ raced' = late
      /\ filesByEcid' = fetched /\ cached' = Forget(DOMAIN filesByEcid \ DOMAIN fetched)
      /\ UNCHANGED <<kind, queue, given, line, known, fetched, late>>
  BY DEF SeedTracker
<1>2. TrackerLine' /\ kind # "none"
  BY <1>1 DEF TrackerInv, TrackerLine, TrackerView
<1>3. OneReply(line', fetching' = "asked")
  BY <1>1 DEF TrackerInv, OneReply
<1>4. TrackerFollows'
  BY <1>1 DEF TrackerInv, TrackerView, TrackerFollows, InStep
<1>5. kind' # "sharedFiles" => cached' \subseteq DOMAIN filesByEcid'
  <2>1. kind = "downloads" \/ kind = "none" \/ kind = "sharedFiles"
    BY DEF TrackerInv, TrackerView, TrackerLine
  <2> QED  BY <1>1, <1>2, <2>1 DEF TrackerInv, TrackerView, Forget
<1> QED  BY <1>1, <1>2, <1>3, <1>4, <1>5 DEF TrackerInv, TrackerView

LEMMA TrackerStep == TrackerInv /\ [TrackerNext]_trackerVars => TrackerInv'
<1> SUFFICES ASSUME TrackerInv, [TrackerNext]_trackerVars PROVE TrackerInv'
  OBVIOUS
<1>1. CASE NewTracker
  BY <1>1 DEF NewTracker, TrackerInv, TrackerLine, TrackerView, OneReply, TrackerFollows, InStep
<1>2. CASE FetchServed
  BY <1>2, TrackerServes
<1>3. CASE CallFetchFiles
  BY <1>3 DEF CallFetchFiles, TrackerInv, TrackerLine, TrackerView, OneReply, TrackerFollows, InStep
<1>4. CASE FetchReplied
  BY <1>4, TrackerReplied
<1>5. CASE NotificationApplied
  BY <1>5, TrackerNotified
<1>6. CASE SeedTracker
  BY <1>6, TrackerSeeded
<1>7. CASE \E hash \in Hashes : FileAdded(hash)
  BY <1>7, TrackerFileAdded
<1>8. ASSUME NEW id \in DOMAIN queue, FileChanged(id) \/ FileRemoved(id) PROVE TrackerInv'
  BY <1>8, TrackerFileChanged, TrackerFileRemoved
<1>9. CASE UNCHANGED trackerVars
  BY <1>9 DEF trackerVars, TrackerInv, TrackerLine, TrackerView, OneReply, TrackerFollows, InStep
<1> QED  BY <1>1, <1>2, <1>3, <1>4, <1>5, <1>6, <1>7, <1>8, <1>9 DEF TrackerNext

(* Once seeded, and with no push between the reply and seed(), a tracker   *)
(* shows the daemon's list as of the last packet, with any number of files *)
(* coming, changing and leaving (seed(), apply(), mergedWith()).           *)
THEOREM TrackersFollow == TrackerSpec => []TrackerFollows
<1>1. TrackerInv => TrackerFollows
  BY DEF TrackerInv, TrackerView
<1> QED  BY <1>1, TrackerInitInv, TrackerStep, PTL DEF TrackerSpec

(* DownloadTracker keeps nothing in the delta caches of a file that left,  *)
(* even after a race (forget()).                                           *)
THEOREM CachesForgetWhatLeft == TrackerSpec => []ForgetsWhatLeft
<1>1. TrackerInv => ForgetsWhatLeft
  BY DEF TrackerInv, TrackerView, ForgetsWhatLeft
<1> QED  BY <1>1, TrackerInitInv, TrackerStep, PTL DEF TrackerSpec

(* The types of a tracker: ids, on their way or arrived, are ids given.    *)
Given(packet, last) ==
  /\ DOMAIN packet.after \subseteq 1..last
  /\ packet.op = "push" /\ ~packet.update.removed => packet.update.id \in 1..last

ShownAs(files, last) ==
  DOMAIN files \subseteq 1..last /\ \A id \in DOMAIN files : files[id] \in TrackedFile

TrackerTypes ==
  /\ given \in 0..MaxFiles /\ fetching \in {"no", "asked", "answered"}
  /\ \A i \in DOMAIN line : Given(line[i], given)
  /\ ShownAs(fetched, given) /\ ShownAs(filesByEcid, given) /\ cached \subseteq 1..given

LEMMA GivenStays ==
  ASSUME NEW last \in Nat, NEW next \in Nat, last <= next
  PROVE  /\ 1..last \subseteq 1..next
         /\ \A packet : Given(packet, last) => Given(packet, next)
         /\ \A files : ShownAs(files, last) => ShownAs(files, next)
<1>1. 1..last \subseteq 1..next
  OBVIOUS
<1> QED  BY <1>1 DEF Given, ShownAs

LEMMA QueuedIsTracked == \A files \in Listing : \A id \in DOMAIN files : files[id] \in TrackedFile
<1>1. QueuedFile \subseteq TrackedFile
  BY DEF QueuedFile, TrackedFile
<1> QED  BY <1>1, ListingMaps

(* A packet sent names ids given by then.                                  *)
LEMMA PushIsGiven ==
  ASSUME TrackerInv, TrackerTypes, NEW packet \in TrackerPacket, line' = Append(line, packet),
         given' \in Nat, given <= given', Given(packet, given')
  PROVE  \A i \in DOMAIN line' : Given(line'[i], given')
<1>1. line \in Seq(TrackerPacket) /\ given \in Nat
  BY DEF TrackerInv, TrackerLine
<1>2. /\ Len(line) \in Nat /\ DOMAIN line' = 1..(Len(line) + 1) /\ DOMAIN line = 1..Len(line)
      /\ \A i \in 1..Len(line) : line'[i] = line[i]
      /\ line'[Len(line) + 1] = packet
  BY <1>1, Added1
<1>3. \A i \in DOMAIN line : Given(line[i], given')
  BY <1>1, GivenStays DEF TrackerTypes
<1>4. \A i \in DOMAIN line' : i \in DOMAIN line \/ i = Len(line) + 1
  BY <1>2
<1> QED  BY <1>2, <1>3, <1>4

LEMMA PushTypes ==
  ASSUME TrackerInv, TrackerTypes, NEW update \in TrackerUpdate, NEW after \in Listing,
         Push(update, after), given' \in 0..MaxFiles, given <= given',
         Given([op |-> "push", update |-> update, after |-> after], given')
  PROVE  TrackerTypes'
<1> DEFINE packet == [op |-> "push", update |-> update, after |-> after]
<1>1. line' = Append(line, packet) /\ UNCHANGED <<fetched, filesByEcid, cached, fetching>>
  BY DEF Push
<1>2. packet \in TrackerPacket
  BY DEF TrackerPacket
<1>3. given \in Nat /\ given' \in Nat
  BY DEF TrackerInv, TrackerLine
<1> HIDE DEF packet
<1>4. \A i \in DOMAIN line' : Given(line'[i], given')
  BY <1>1, <1>2, <1>3, PushIsGiven DEF packet
<1>5. ShownAs(fetched, given') /\ ShownAs(filesByEcid, given') /\ cached \subseteq 1..given'
  BY <1>3, GivenStays DEF TrackerTypes
<1> QED  BY <1>1, <1>4, <1>5 DEF TrackerTypes

LEMMA AddedTypes == ASSUME TrackerInv, TrackerTypes, NEW hash \in Hashes, FileAdded(hash) PROVE TrackerTypes'
<1> DEFINE file == [hash |-> hash, progress |-> 1]
           update == [removed |-> FALSE, id |-> given + 1, file |-> file]
           after == SetFile(queue, given + 1, file)
<1>1. /\ given < MaxFiles /\ given' = given + 1 /\ Push(update, after)
      /\ \A id \in DOMAIN queue : queue[id].hash # hash
  BY DEF FileAdded
<1>2. given \in 0..MaxFiles /\ MaxFiles \in Nat /\ queue \in Listing /\ DOMAIN queue \subseteq 1..given
  BY TrackerAssumption DEF TrackerTypes, TrackerInv, TrackerLine
<1>3. file \in QueuedFile /\ file.hash = hash /\ file \in TrackedFile
  BY TrackerAssumption DEF QueuedFile, TrackedFile
<1>4. given' \in 0..MaxFiles /\ given <= given' /\ given + 1 \in 1..given'
      /\ 1..given \subseteq 1..given' /\ given + 1 \in Nat
  BY <1>1, <1>2
<1> HIDE DEF file
<1>5. after \in Listing /\ DOMAIN after = DOMAIN queue \union {given + 1}
  BY <1>1, <1>2, <1>3, <1>4, SetListing
<1>6. update \in TrackerUpdate /\ update.id = given + 1
  BY <1>3, <1>4 DEF TrackerUpdate
<1>7. DOMAIN after \subseteq 1..given'
  BY <1>2, <1>4, <1>5
<1> HIDE DEF after, update
<1>8. Given([op |-> "push", update |-> update, after |-> after], given')
  BY <1>4, <1>6, <1>7 DEF Given
<1> QED  BY <1>1, <1>4, <1>5, <1>6, <1>8, PushTypes

LEMMA ChangedTypes ==
  ASSUME TrackerInv, TrackerTypes, NEW id \in DOMAIN queue, FileChanged(id)
  PROVE  TrackerTypes'
<1> DEFINE progress == queue[id].progress + 1
           file == [hash |-> Unsent, progress |-> progress]
           update == [removed |-> FALSE, id |-> id, file |-> file]
           after == [queue EXCEPT ![id].progress = progress]
<1>1. queue[id].progress < MaxProgress /\ given' = given /\ Push(update, after)
  BY DEF FileChanged
<1>2. given \in 0..MaxFiles /\ queue \in Listing /\ DOMAIN queue \subseteq 1..given
  BY DEF TrackerTypes, TrackerInv, TrackerLine
<1>3. queue[id] \in QueuedFile /\ id \in Nat
  BY <1>2, ListingMaps
<1>4. progress \in 1..MaxProgress
  BY <1>1, <1>3, TrackerAssumption DEF QueuedFile
<1> HIDE DEF progress
<1>5. after \in Listing /\ DOMAIN after = DOMAIN queue
  BY <1>2, <1>4, ProgressListing
<1>6. file \in TrackedFile
  BY <1>4 DEF TrackedFile
<1> HIDE DEF file
<1>7. update \in TrackerUpdate /\ update.id = id
  BY <1>3, <1>6 DEF TrackerUpdate
<1>8. given' \in 0..MaxFiles /\ given <= given' /\ id \in 1..given'
      /\ DOMAIN after \subseteq 1..given'
  BY <1>1, <1>2, <1>5, TrackerAssumption
<1> HIDE DEF after, update
<1>9. Given([op |-> "push", update |-> update, after |-> after], given')
  BY <1>7, <1>8 DEF Given
<1> QED  BY <1>1, <1>5, <1>7, <1>8, <1>9, PushTypes

LEMMA RemovedTypes ==
  ASSUME TrackerInv, TrackerTypes, NEW id \in DOMAIN queue, FileRemoved(id)
  PROVE  TrackerTypes'
<1> DEFINE update == [removed |-> TRUE, hash |-> queue[id].hash]
           after == DropFile(queue, id)
<1>1. given' = given /\ Push(update, after)
  BY DEF FileRemoved
<1>2. given \in 0..MaxFiles /\ queue \in Listing /\ DOMAIN queue \subseteq 1..given
  BY DEF TrackerTypes, TrackerInv, TrackerLine
<1>3. queue[id] \in QueuedFile
  BY <1>2, ListingMaps
<1>4. after \in Listing /\ DOMAIN after = DOMAIN queue \ {id}
  BY <1>2, DropListing
<1>5. update \in TrackerUpdate /\ update.removed
  BY <1>3 DEF TrackerUpdate, QueuedFile
<1>6. given' \in 0..MaxFiles /\ given <= given' /\ DOMAIN after \subseteq 1..given'
  BY <1>1, <1>2, <1>4, TrackerAssumption
<1> HIDE DEF update, after
<1>7. Given([op |-> "push", update |-> update, after |-> after], given')
  BY <1>5, <1>6 DEF Given
<1> QED  BY <1>1, <1>4, <1>5, <1>6, <1>7, PushTypes

LEMMA ServedTypes == ASSUME TrackerInv, TrackerTypes, FetchServed PROVE TrackerTypes'
<1> DEFINE packet == [op |-> "reply", after |-> queue]
<1>1. line' = Append(line, packet) /\ UNCHANGED <<given, fetched, filesByEcid, cached, fetching>>
  BY DEF FetchServed
<1>2. given \in Nat /\ queue \in Listing /\ DOMAIN queue \subseteq 1..given
  BY DEF TrackerInv, TrackerLine
<1>3. packet \in TrackerPacket /\ Given(packet, given')
  BY <1>1, <1>2 DEF TrackerPacket, Given
<1> HIDE DEF packet
<1>4. given' \in Nat /\ given <= given'
  BY <1>1, <1>2
<1>5. \A i \in DOMAIN line' : Given(line'[i], given')
  BY <1>1, <1>3, <1>4, PushIsGiven
<1> QED  BY <1>1, <1>5 DEF TrackerTypes

(* What is received was sent.                                              *)
LEMMA ReceivedIsGiven ==
  ASSUME TrackerInv, TrackerTypes, NEW op, Received(op), UNCHANGED given
  PROVE  /\ Head(line) \in TrackerPacket /\ Head(line).op = op /\ Given(Head(line), given)
         /\ \A i \in DOMAIN line' : Given(line'[i], given')
<1>1. line \in Seq(TrackerPacket) /\ line # <<>> /\ line' = Tail(line) /\ Head(line).op = op
  BY DEF TrackerInv, TrackerLine, Received
<1>2. /\ Head(line) \in TrackerPacket /\ Head(line) = line[1] /\ 1 \in DOMAIN line
      /\ \A i \in DOMAIN Tail(line) : i + 1 \in DOMAIN line /\ Tail(line)[i] = line[i + 1]
  BY <1>1, Taken1
<1> QED  BY <1>1, <1>2 DEF TrackerTypes

LEMMA RepliedTypes == ASSUME TrackerInv, TrackerTypes, FetchReplied PROVE TrackerTypes'
<1>1. /\ Received("reply") /\ fetched' = Head(line).after
      /\ cached' = cached \union DOMAIN fetched' /\ fetching' = "answered"
      /\ UNCHANGED <<given, filesByEcid>>
  BY DEF FetchReplied
<1>2. /\ Head(line) \in TrackerPacket /\ Given(Head(line), given)
      /\ \A i \in DOMAIN line' : Given(line'[i], given')
  BY <1>1, ReceivedIsGiven
<1>3. Head(line).after \in Listing
  BY <1>2 DEF TrackerPacket
<1>4. ShownAs(fetched', given')
  BY <1>1, <1>2, <1>3, QueuedIsTracked DEF Given, ShownAs
<1> QED  BY <1>1, <1>2, <1>4 DEF TrackerTypes, ShownAs

LEMMA NotifiedTypes == ASSUME TrackerInv, TrackerTypes, NotificationApplied PROVE TrackerTypes'
<1> DEFINE update == Head(line).update
<1>1. Received("push") /\ UNCHANGED <<given, fetched, fetching>>
  BY DEF NotificationApplied
<1>2. /\ Head(line) \in TrackerPacket /\ Head(line).op = "push" /\ Given(Head(line), given)
      /\ \A i \in DOMAIN line' : Given(line'[i], given')
  BY <1>1, ReceivedIsGiven
<1>3. update \in TrackerUpdate /\ (~update.removed => update.id \in 1..given)
  BY <1>2 DEF TrackerPacket, Given
<1>4. IF ~update.removed
      THEN /\ filesByEcid' = SetFile(filesByEcid, update.id, MergedFile(update.id, update.file))
           /\ cached' = cached \union {update.id}
      ELSE \/ UNCHANGED <<filesByEcid, cached>>
           \/ \E id : filesByEcid' = DropFile(filesByEcid, id) /\ cached' = Forget({id})
  BY DEF NotificationApplied
<1> HIDE DEF update
<1>5. ShownAs(filesByEcid, given) /\ cached \subseteq 1..given
  BY DEF TrackerTypes
<1>6. ShownAs(filesByEcid', given) /\ cached' \subseteq 1..given
  <2>1. CASE ~update.removed
    <3>1. update.file \in TrackedFile /\ update.id \in 1..given
      BY <1>3, <2>1 DEF TrackerUpdate
    <3> DEFINE merged == MergedFile(update.id, update.file)
    <3>2. merged \in TrackedFile
      BY <1>5, <3>1 DEF MergedFile, ShownAs, TrackedFile
    <3> HIDE DEF merged
    <3>3. filesByEcid' = SetFile(filesByEcid, update.id, merged) /\ cached' = cached \union {update.id}
      BY <1>4, <2>1 DEF merged
    <3> QED  BY <1>5, <3>1, <3>2, <3>3 DEF SetFile, ShownAs
  <2>2. CASE update.removed /\ UNCHANGED <<filesByEcid, cached>>
    BY <1>5, <2>2
  <2>3. ASSUME NEW id, filesByEcid' = DropFile(filesByEcid, id), cached' = Forget({id})
        PROVE  ShownAs(filesByEcid', given) /\ cached' \subseteq 1..given
    BY <1>5, <2>3 DEF DropFile, Forget, ShownAs
  <2> QED  BY <1>4, <2>1, <2>2, <2>3
<1> QED  BY <1>1, <1>2, <1>6 DEF TrackerTypes

LEMMA TrackerTypesStep == ASSUME TrackerInv, TrackerTypes, [TrackerNext]_trackerVars PROVE TrackerTypes'
<1>1. CASE NewTracker
  BY <1>1 DEF NewTracker, TrackerTypes
<1>2. CASE FetchServed
  BY <1>2, ServedTypes
<1>3. CASE CallFetchFiles
  BY <1>3 DEF CallFetchFiles, TrackerTypes
<1>4. CASE FetchReplied
  BY <1>4, RepliedTypes
<1>5. CASE NotificationApplied
  BY <1>5, NotifiedTypes
<1>6. CASE SeedTracker
  <2>1. /\ fetching' = "no" /\ filesByEcid' = fetched
        /\ cached' = Forget(DOMAIN filesByEcid \ DOMAIN fetched)
        /\ UNCHANGED <<given, line, fetched>>
    BY <1>6 DEF SeedTracker
  <2> QED  BY <2>1 DEF TrackerTypes, Forget
<1>7. ASSUME NEW hash \in Hashes, FileAdded(hash) PROVE TrackerTypes'
  BY <1>7, AddedTypes
<1>8. ASSUME NEW id \in DOMAIN queue, FileChanged(id) \/ FileRemoved(id) PROVE TrackerTypes'
  BY <1>8, ChangedTypes, RemovedTypes
<1>9. CASE UNCHANGED trackerVars
  BY <1>9 DEF trackerVars, TrackerTypes
<1> QED  BY <1>1, <1>2, <1>3, <1>4, <1>5, <1>6, <1>7, <1>8, <1>9 DEF TrackerNext

(* A tracker shows and remembers only ids the daemon gave, and of each     *)
(* file what fromTag() and mergedWith() make of its tags.                  *)
THEOREM TrackerTypeCorrect == TrackerSpec => []TrackerTypeOK
<1>1. TrackerInit => TrackerTypes
  <2> SUFFICES ASSUME TrackerInit PROVE TrackerTypes
    OBVIOUS
  <2>1. DOMAIN line = {}
    <3>1. <<>> \in Seq(TrackerPacket) /\ Len(<<>>) = 0
      BY EmptySeq
    <3> QED  BY <3>1, LenProperties DEF TrackerInit
  <2> QED  BY <2>1, EmptyListing, TrackerAssumption DEF TrackerInit, TrackerTypes, ShownAs
<1>2. TrackerInv /\ TrackerTypes => TrackerTypeOK
  BY DEF TrackerInv, TrackerLine, TrackerView, TrackerTypes, TrackerTypeOK, ShownAs
<1>3. TrackerInv /\ TrackerTypes /\ [TrackerNext]_trackerVars => TrackerTypes'
  BY TrackerTypesStep
<1> QED  BY <1>1, <1>2, <1>3, TrackerInitInv, TrackerStep, PTL DEF TrackerSpec

-----------------------------------------------------------------------------
(* Search.  Results are counted from 1, so a search that found more still  *)
(* has those that were shown.                                              *)
FoundSearch == [kind : Kinds, results : Nat]
SearchRequest == [op : {"start"}, kind : Kinds]
                 \union [op : {"fetch", "stop", "close", "more"}, by : Nat, id : Nat]

IsSession(session) ==
  /\ session = [id |-> session.id, search |-> session.search, results |-> session.results]
  /\ session.id \in Nat

(* What a session that has an id shows, of the results found so far.       *)
ShowsItsOwn(session, counts) ==
  session.id # NoId =>
    /\ session.id = session.search /\ session.id \in DOMAIN counts
    /\ session.results \subseteq {session.id} \X (1..counts[session.id].results)

(* A request carries the id its session has.                               *)
OfItsSession(request, follow) ==
  request.op # "start" =>
    request.by \in DOMAIN follow /\ request.id = follow[request.by].id

(* What a session shows is of no one type: without an id it may be anything*)
(* that is last in the ring.                                               *)
SessionsInv ==
  /\ \E S : started \in Seq(S)
  /\ \A i \in DOMAIN started : IsSession(started[i]) /\ ShowsItsOwn(started[i], found)
SearchInv ==
  /\ found \in Seq(FoundSearch)
  /\ requests \in Seq(SearchRequest)
  /\ \A k \in DOMAIN requests : OfItsSession(requests[k], started)
  /\ SessionsInv

SameIds(old, new) == \A i \in DOMAIN old : i \in DOMAIN new /\ new[i].id = old[i].id
OnlyMoreFound(old, new) ==
  \A s \in DOMAIN old : s \in DOMAIN new /\ old[s].results \in Nat /\ new[s].results \in Nat
                        /\ old[s].results <= new[s].results
GrowsOnly == \A i \in DOMAIN started : started[i].id # NoId
               => started[i].results \subseteq started'[i].results

LEMMA MoreIsFine ==
  ASSUME NEW session, NEW old, NEW new, ShowsItsOwn(session, old), OnlyMoreFound(old, new)
  PROVE  ShowsItsOwn(session, new)
<1> SUFFICES ASSUME session.id # NoId PROVE ShowsItsOwn(session, new)
  BY DEF ShowsItsOwn
<1> DEFINE a == old[session.id].results
           b == new[session.id].results
<1>1. /\ session.id = session.search /\ session.id \in DOMAIN old
      /\ session.results \subseteq {session.id} \X (1..a)
  BY DEF ShowsItsOwn
<1>2. session.id \in DOMAIN new /\ a \in Nat /\ b \in Nat /\ a <= b
  BY <1>1 DEF OnlyMoreFound
<1> HIDE DEF a, b
<1>3. 1..a \subseteq 1..b
  BY <1>2
<1>4. session.results \subseteq {session.id} \X (1..b)
  BY <1>1, <1>3
<1> QED  BY <1>1, <1>2, <1>4 DEF ShowsItsOwn, b

(* The sessions stay what they are when nothing but the counts of results  *)
(* changes.                                                                *)
LEMMA SessionsStay ==
  ASSUME SessionsInv, OnlyMoreFound(found, found'), UNCHANGED started
  PROVE  SessionsInv' /\ GrowsOnly /\ SameIds(started, started')
<1>1. \A i \in DOMAIN started : IsSession(started[i]) /\ ShowsItsOwn(started[i], found')
  BY MoreIsFine DEF SessionsInv
<1> QED  BY <1>1 DEF SessionsInv, GrowsOnly, SameIds

LEMMA RequestsStay ==
  ASSUME SearchInv, SameIds(started, started'), requests' = requests \/ (requests # <<>> /\ requests' = Tail(requests))
  PROVE  requests' \in Seq(SearchRequest) /\ \A k \in DOMAIN requests' : OfItsSession(requests'[k], started')
<1>1. requests \in Seq(SearchRequest) /\ \A k \in DOMAIN requests : OfItsSession(requests[k], started)
  BY DEF SearchInv
<1>2. \A k \in DOMAIN requests : OfItsSession(requests[k], started')
  BY <1>1 DEF OfItsSession, SameIds
<1>3. CASE requests' = requests
  BY <1>1, <1>2, <1>3
<1>4. CASE requests # <<>> /\ requests' = Tail(requests)
  BY <1>1, <1>2, <1>4, Taken1
<1> QED  BY <1>3, <1>4

LEMMA NothingFound == found \in Seq(FoundSearch) /\ UNCHANGED found => OnlyMoreFound(found, found')
<1> SUFFICES ASSUME found \in Seq(FoundSearch), UNCHANGED found, NEW s \in DOMAIN found
             PROVE  found[s].results \in Nat
  BY DEF OnlyMoreFound
<1>1. DOMAIN found = 1..Len(found)
  BY LenProperties
<1>2. found[s] \in FoundSearch
  BY <1>1, ElementOfSeq
<1> QED  BY <1>2 DEF FoundSearch

(* What every step that leaves the sessions alone and adds no request does.*)
LEMMA SessionsLeftAlone ==
  ASSUME SearchInv, UNCHANGED <<found, started>>,
         requests' = requests \/ (requests # <<>> /\ requests' = Tail(requests))
  PROVE  SearchInv' /\ GrowsOnly
<1>1. OnlyMoreFound(found, found')
  BY NothingFound DEF SearchInv
<1>2. SessionsInv' /\ GrowsOnly /\ SameIds(started, started')
  BY <1>1, SessionsStay DEF SearchInv
<1>3. requests' \in Seq(SearchRequest) /\ \A k \in DOMAIN requests' : OfItsSession(requests'[k], started')
  BY <1>2, RequestsStay
<1> QED  BY <1>2, <1>3 DEF SearchInv

LEMMA ResultFound == SearchInv /\ Finds => SearchInv' /\ GrowsOnly
<1> SUFFICES ASSUME SearchInv, Finds PROVE SearchInv' /\ GrowsOnly
  OBVIOUS
<1>1. found \in Seq(FoundSearch) /\ UNCHANGED <<requests, started>>
  BY DEF SearchInv, Finds
<1>2. PICK s \in live : found' = [found EXCEPT ![s].results = @ + 1]
  BY DEF Finds
<1>3. DOMAIN found = 1..Len(found) /\ \A x \in DOMAIN found : found[x] \in FoundSearch
  <2>1. DOMAIN found = 1..Len(found) /\ \A x \in 1..Len(found) : found[x] \in FoundSearch
    BY <1>1, LenProperties, ElementOfSeq
  <2> QED  BY <2>1
<1>4. found' \in Seq(FoundSearch) /\ OnlyMoreFound(found, found')
  <2>1. CASE s \notin DOMAIN found
    <3>1. found' = found
      BY <1>1, <1>2, <1>3, <2>1
    <3> QED  BY <1>1, <3>1, NothingFound
  <2>2. CASE s \in DOMAIN found
    <3> DEFINE more == [found[s] EXCEPT !.results = @ + 1]
    <3>1. more \in FoundSearch /\ more.results = found[s].results + 1 /\ found[s].results \in Nat
      BY <1>3, <2>2 DEF FoundSearch
    <3>2. found' = [found EXCEPT ![s] = more]
      BY <1>2
    <3> HIDE DEF more
    <3>3. found' \in Seq(FoundSearch)
      BY <1>1, <1>3, <2>2, <3>1, <3>2, ExceptSeq
    <3>4. \A x \in DOMAIN found : found[x].results \in Nat
      BY <1>3 DEF FoundSearch
    <3>5. DOMAIN found' = DOMAIN found /\ found'[s] = more
          /\ \A x \in DOMAIN found : x # s => found'[x] = found[x]
      BY <2>2, <3>2
    <3>6. OnlyMoreFound(found, found')
      BY <3>1, <3>4, <3>5 DEF OnlyMoreFound
    <3> QED  BY <3>3, <3>6
  <2> QED  BY <2>1, <2>2
<1>5. SessionsInv' /\ GrowsOnly /\ SameIds(started, started')
  BY <1>1, <1>4, SessionsStay DEF SearchInv
<1>6. requests' = requests \/ (requests # <<>> /\ requests' = Tail(requests))
  BY <1>1
<1>7. requests' \in Seq(SearchRequest) /\ \A k \in DOMAIN requests' : OfItsSession(requests'[k], started')
  BY <1>5, <1>6, RequestsStay
<1> QED  BY <1>4, <1>5, <1>7 DEF SearchInv

LEMMA RequestAdded ==
  ASSUME SearchInv, UNCHANGED <<found, started>>,
         NEW request \in SearchRequest, OfItsSession(request, started), requests' = Append(requests, request)
  PROVE  SearchInv' /\ GrowsOnly
<1>1. requests \in Seq(SearchRequest) /\ \A k \in DOMAIN requests : OfItsSession(requests[k], started)
  BY DEF SearchInv
<1>2. requests' \in Seq(SearchRequest) /\ \A k \in DOMAIN requests' : OfItsSession(requests'[k], started)
  <2> DEFINE n == Len(requests)
  <2>1. /\ Append(requests, request) \in Seq(SearchRequest) /\ n \in Nat
        /\ DOMAIN Append(requests, request) = 1..(n + 1) /\ DOMAIN requests = 1..n
        /\ \A k \in 1..n : Append(requests, request)[k] = requests[k]
        /\ Append(requests, request)[n + 1] = request
    BY <1>1, Added1
  <2> HIDE DEF n
  <2>2. \A k \in 1..(n + 1) : k \in 1..n \/ k = n + 1
    BY <2>1
  <2> QED  BY <1>1, <2>1, <2>2
<1>3. OnlyMoreFound(found, found')
  BY NothingFound DEF SearchInv
<1>4. SessionsInv' /\ GrowsOnly
  BY <1>3, SessionsStay DEF SearchInv
<1> QED  BY <1>2, <1>4 DEF SearchInv

LEMMA SearchStarted == SearchInv /\ StartAnswered => SearchInv' /\ GrowsOnly
<1> SUFFICES ASSUME SearchInv, StartAnswered PROVE SearchInv' /\ GrowsOnly
  OBVIOUS
<1> DEFINE n == Len(found)
           m == Len(started)
           new == [kind |-> Next1.kind, results |-> 0]
           session == [id |-> IF multiSearch THEN n + 1 ELSE NoId, search |-> n + 1, results |-> {}]
<1>1. /\ requests # <<>> /\ requests' = Tail(requests) /\ Next1.op = "start"
      /\ found' = Append(found, new) /\ started' = Append(started, session)
  BY DEF StartAnswered, Replies
<1>2. /\ found \in Seq(FoundSearch) /\ requests \in Seq(SearchRequest)
      /\ \A i \in DOMAIN started : IsSession(started[i]) /\ ShowsItsOwn(started[i], found)
  BY DEF SearchInv, SessionsInv
<1>3. new \in FoundSearch
  <2>1. Next1 \in SearchRequest
    BY <1>1, <1>2, Taken1 DEF Next1
  <2>2. Next1.kind \in Kinds
    BY <1>1, <2>1 DEF SearchRequest
  <2> QED  BY <2>2 DEF FoundSearch
<1> HIDE DEF new
<1>4. /\ found' \in Seq(FoundSearch) /\ n \in Nat /\ DOMAIN found = 1..n /\ DOMAIN found' = 1..(n + 1)
      /\ \A s \in 1..n : found'[s] = found[s] /\ found[s] \in FoundSearch
  BY <1>1, <1>2, <1>3, Added1
<1>5. OnlyMoreFound(found, found')
  BY <1>4 DEF OnlyMoreFound, FoundSearch
<1>6. /\ IsSession(session) /\ ShowsItsOwn(session, found')
  <2>0. n \in Nat
    BY <1>4
  <2> HIDE DEF n
  <2>1. IsSession(session)
    BY <2>0 DEF IsSession, NoId
  <2>2. session.id # NoId => session.id = session.search /\ session.id \in 1..(n + 1) /\ session.results = {}
    BY <2>0 DEF NoId
  <2> QED  BY <1>4, <2>1, <2>2 DEF ShowsItsOwn
<1> HIDE DEF session, n
<1>7. PICK S : started \in Seq(S)
  BY DEF SearchInv, SessionsInv
<1>8. /\ started' \in Seq(S \union {session}) /\ m \in Nat
      /\ DOMAIN started = 1..m /\ DOMAIN started' = 1..(m + 1)
      /\ \A i \in 1..m : started'[i] = started[i]
      /\ started'[m + 1] = session
  <2>1. started \in Seq(S \union {session})
    BY <1>7, SeqMonotonic
  <2> QED  BY <1>1, <2>1, Added1
<1> HIDE DEF m
<1>9. \A i \in DOMAIN started' : IsSession(started'[i]) /\ ShowsItsOwn(started'[i], found')
  <2>1. \A i \in 1..(m + 1) : i \in 1..m \/ i = m + 1
    BY <1>8
  <2>2. \A i \in 1..m : IsSession(started[i]) /\ ShowsItsOwn(started[i], found')
    BY <1>2, <1>5, <1>8, MoreIsFine
  <2> QED  BY <1>6, <1>8, <2>1, <2>2
<1>10. SessionsInv'
  BY <1>8, <1>9 DEF SessionsInv
<1>11. SameIds(started, started') /\ GrowsOnly
  <2>1. 1..m \subseteq 1..(m + 1)
    BY <1>8
  <2> QED  BY <1>8, <2>1 DEF SameIds, GrowsOnly
<1>12. requests' \in Seq(SearchRequest) /\ \A k \in DOMAIN requests' : OfItsSession(requests'[k], started')
  BY <1>1, <1>11, RequestsStay
<1> QED  BY <1>4, <1>10, <1>11, <1>12 DEF SearchInv

LEMMA ResultsFetched == SearchInv /\ ResultsAnswered => SearchInv' /\ GrowsOnly
<1> SUFFICES ASSUME SearchInv, ResultsAnswered PROVE SearchInv' /\ GrowsOnly
  OBVIOUS
<1> DEFINE by == Next1.by
           searches == Addressed(Next1.id)
           all == UNION {{s} \X (1..found[s].results) : s \in searches}
           now == ResultsShown(started[by], all, searches = {} /\ Next1.id # NoId)
           session == [started[by] EXCEPT !.results = now]
<1>1. /\ requests # <<>> /\ requests' = Tail(requests) /\ Next1.op = "fetch" /\ UNCHANGED found
      /\ started' = [started EXCEPT ![by] = session]
  BY DEF ResultsAnswered, Replies
<1>2. /\ found \in Seq(FoundSearch) /\ requests \in Seq(SearchRequest)
      /\ \A k \in DOMAIN requests : OfItsSession(requests[k], started)
      /\ \A i \in DOMAIN started : IsSession(started[i]) /\ ShowsItsOwn(started[i], found)
  BY DEF SearchInv, SessionsInv
<1>3. by \in DOMAIN started /\ Next1.id = started[by].id
  <2>1. Next1 = requests[1] /\ 1 \in DOMAIN requests
    BY <1>1, <1>2, Taken1 DEF Next1
  <2> QED  BY <1>1, <1>2, <2>1 DEF OfItsSession
<1>4. /\ session.id = started[by].id /\ session.search = started[by].search /\ session.results = now
      /\ IsSession(session)
  <2>1. IsSession(started[by])
    BY <1>2, <1>3
  <2> HIDE DEF now, by
  <2>2. \A a, b, c : [[id |-> a, search |-> b, results |-> c] EXCEPT !.results = now]
                       = [id |-> a, search |-> b, results |-> now]
    OBVIOUS
  <2>3. session = [id |-> started[by].id, search |-> started[by].search, results |-> now]
    BY <2>1, <2>2 DEF IsSession
  <2> HIDE DEF session
  <2> QED  BY <2>1, <2>3 DEF IsSession
<1>5. ASSUME started[by].id # NoId
      PROVE  ShowsItsOwn(session, found) /\ started[by].results \subseteq session.results
  <2> DEFINE id == started[by].id
  <2>1. /\ id = started[by].search /\ id \in DOMAIN found
        /\ started[by].results \subseteq {id} \X (1..found[id].results)
    BY <1>2, <1>3, <1>5 DEF ShowsItsOwn
  <2>2. searches = {} \/ searches = {id}
    BY <1>3, <1>5 DEF Addressed
  <2>3. CASE searches = {}
    <3>1. now = started[by].results
      BY <1>3, <1>5, <2>3 DEF ResultsShown
    <3> QED  BY <1>4, <2>1, <3>1 DEF ShowsItsOwn
  <2>4. CASE searches = {id}
    <3>1. now = {id} \X (1..found[id].results)
      BY <2>4 DEF ResultsShown
    <3> QED  BY <1>4, <2>1, <3>1 DEF ShowsItsOwn
  <2> QED  BY <2>2, <2>3, <2>4
<1> HIDE DEF session, by
<1>6. /\ DOMAIN started' = DOMAIN started /\ started'[by] = session
      /\ \A i \in DOMAIN started : i # by => started'[i] = started[i]
  BY <1>1, <1>3
<1>7. \A i \in DOMAIN started' : IsSession(started'[i]) /\ ShowsItsOwn(started'[i], found')
  <2>1. ShowsItsOwn(session, found)
    BY <1>4, <1>5 DEF ShowsItsOwn
  <2> QED  BY <1>1, <1>2, <1>4, <1>6, <2>1
<1>8. \E S : started' \in Seq(S)
  <2>1. PICK S : started \in Seq(S)
    BY DEF SearchInv, SessionsInv
  <2>2. started \in Seq(S \union {session}) /\ DOMAIN started = 1..Len(started)
    BY <2>1, SeqMonotonic, LenProperties
  <2>3. [started EXCEPT ![by] = session] \in Seq(S \union {session})
    BY <1>3, <2>2, ExceptSeq
  <2> QED  BY <1>1, <2>3
<1>9. SessionsInv'
  BY <1>7, <1>8 DEF SessionsInv
<1>10. SameIds(started, started') /\ GrowsOnly
  BY <1>4, <1>5, <1>6 DEF SameIds, GrowsOnly
<1>11. requests' \in Seq(SearchRequest) /\ \A k \in DOMAIN requests' : OfItsSession(requests'[k], started')
  BY <1>1, <1>10, RequestsStay
<1> QED  BY <1>1, <1>2, <1>9, <1>10, <1>11 DEF SearchInv

LEMMA SearchStep == SearchInv /\ [SearchNext]_searchVars => SearchInv' /\ GrowsOnly
<1> SUFFICES ASSUME SearchInv, [SearchNext]_searchVars PROVE SearchInv' /\ GrowsOnly
  OBVIOUS
<1>1. CASE NegotiateSearch \/ UNCHANGED searchVars
  <2>1. UNCHANGED <<found, started>>
    BY <1>1 DEF NegotiateSearch, searchVars
  <2>2. requests' = requests \/ (requests # <<>> /\ requests' = Tail(requests))
    BY <1>1 DEF NegotiateSearch, searchVars
  <2> QED  BY <2>1, <2>2, SessionsLeftAlone
<1>2. CASE Finds
  BY <1>2, ResultFound
<1>3. ASSUME NEW kind1 \in Kinds, Start(kind1) PROVE SearchInv' /\ GrowsOnly
  <2> DEFINE request == [op |-> "start", kind |-> kind1]
  <2>1. requests' = Append(requests, request) /\ UNCHANGED <<found, started>>
    BY <1>3 DEF Start
  <2>2. request \in SearchRequest /\ OfItsSession(request, started)
    BY <1>3 DEF SearchRequest, OfItsSession
  <2> QED  BY <2>1, <2>2, RequestAdded
<1>4. ASSUME NEW i \in DOMAIN started, NEW op \in {"fetch", "stop", "close", "more"}, Ask(i, op)
      PROVE  SearchInv' /\ GrowsOnly
  <2> DEFINE request == [op |-> op, by |-> i, id |-> AddIdTag(started[i])]
  <2>1. requests' = Append(requests, request) /\ UNCHANGED <<found, started>>
    BY <1>4 DEF Ask
  <2>2. i \in Nat /\ started[i].id \in Nat
    BY <1>4, LenProperties DEF SearchInv, SessionsInv, IsSession
  <2>3. request \in SearchRequest /\ OfItsSession(request, started)
    BY <1>4, <2>2 DEF SearchRequest, OfItsSession, AddIdTag
  <2> QED  BY <2>1, <2>3, RequestAdded
<1>5. CASE StartAnswered
  BY <1>5, SearchStarted
<1>6. CASE ResultsAnswered
  BY <1>6, ResultsFetched
<1>7. CASE StopAnswered \/ MoreAnswered \/ SearchFails
  <2>1. UNCHANGED <<found, started>> /\ requests # <<>> /\ requests' = Tail(requests)
    BY <1>7 DEF StopAnswered, MoreAnswered, SearchFails, Replies
  <2> QED  BY <2>1, SessionsLeftAlone
<1> QED  BY <1>1, <1>2, <1>3, <1>4, <1>5, <1>6, <1>7 DEF SearchNext

LEMMA SearchInitInv == SearchInit => SearchInv
<1>1. <<>> \in Seq(FoundSearch) /\ <<>> \in Seq(SearchRequest) /\ DOMAIN <<>> = {}
  BY EmptySeq
<1> QED  BY <1>1 DEF SearchInit, SearchInv, SessionsInv

(* A session that has an id never shows results of another search, however *)
(* many are started, stopped and evicted (fetch(), addIdTag()).            *)
THEOREM SessionsShowTheirOwn == SearchSpec => []ResultsAreOwn
<1>1. SearchInv => ResultsAreOwn
  BY DEF SearchInv, SessionsInv, ShowsItsOwn, ResultsAreOwn
<1> QED  BY <1>1, SearchInitInv, SearchStep, PTL DEF SearchSpec

(* A session that has an id never loses a result it showed (fetch() throws *)
(* when the search expired).                                               *)
THEOREM ResultsAreNeverLost == SearchSpec => ResultsOnlyGrow
<1>1. SearchInv /\ [SearchNext]_searchVars => [GrowsOnly]_searchVars
  BY SearchStep
<1>2. SearchSpec => [][GrowsOnly]_searchVars
  BY <1>1, SearchInitInv, SearchStep, PTL DEF SearchSpec
<1> QED  BY <1>2 DEF ResultsOnlyGrow, GrowsOnly

(* The types of Search: the daemon's ring, the live searches and the ids   *)
(* of sessions are searches that were started.                             *)
SearchTypes ==
  /\ multiSearch \in BOOLEAN /\ live \subseteq Searches /\ ring \in Seq(Searches)

LEMMA RingEvicts ==
  ASSUME NEW S, NEW searches \in Seq(S), searches # <<>>
  PROVE  Evicted(searches) \in Seq(S)
<1>1. Tail(searches) \in Seq(S)
  BY HeadTailProperties
<1> QED  BY <1>1 DEF Evicted

LEMMA RingLoses ==
  ASSUME NEW S, NEW searches \in Seq(S), NEW n \in DOMAIN searches
  PROVE  RemoveAt(searches, n) \in Seq(S)
<1>1. n \in 1..Len(searches) /\ Len(searches) \in Nat /\ \A i \in 1..Len(searches) : searches[i] \in S
  BY LenProperties, ElementOfSeq
<1>2. SubSeq(searches, 1, n - 1) \in Seq(S) /\ SubSeq(searches, n + 1, Len(searches)) \in Seq(S)
  BY <1>1, SubSeqProperties
<1> QED  BY <1>2, ConcatProperties DEF RemoveAt

LEMMA SearchTypesStep ==
  ASSUME SearchInv, SearchTypes, [SearchNext]_searchVars
  PROVE  SearchTypes'
<1>0. found \in Seq(FoundSearch) /\ DOMAIN found = 1..Len(found) /\ Len(found) \in Nat
  BY LenProperties DEF SearchInv
<1>1. CASE Finds
  <2>1. PICK s \in live : found' = [found EXCEPT ![s].results = @ + 1]
    BY <1>1 DEF Finds
  <2>2. DOMAIN found' = DOMAIN found
    BY <2>1
  <2>3. UNCHANGED <<multiSearch, ring, live>>
    BY <1>1 DEF Finds
  <2> QED  BY <2>2, <2>3 DEF SearchTypes, Searches
<1>2. CASE StartAnswered
  <2> DEFINE n == Len(found)
             new == [kind |-> Next1.kind, results |-> 0]
             others == IF multiSearch THEN ring ELSE <<>>
  <2>1. found' = Append(found, new) /\ UNCHANGED multiSearch
    BY <1>2 DEF StartAnswered
  <2>2. ring' = Evicted(Append(others, n + 1))
    BY <1>2 DEF StartAnswered
  <2>3. live' \subseteq {n + 1} \union live
    BY <1>2 DEF StartAnswered
  <2>4. DOMAIN found' = 1..(n + 1)
    <3>1. found \in Seq(FoundSearch \union {new})
      BY <1>0, SeqMonotonic
    <3> QED  BY <2>1, <3>1, Added1
  <2> HIDE DEF n
  <2>5. n \in Nat /\ DOMAIN found = 1..n
    BY <1>0 DEF n
  <2>6. DOMAIN found \subseteq DOMAIN found' /\ n + 1 \in DOMAIN found'
    BY <2>4, <2>5
  <2>7. others \in Seq(DOMAIN found')
    <3>1. ring \in Seq(DOMAIN found')
      BY <2>6, SeqMonotonic DEF SearchTypes, Searches
    <3> QED  BY <3>1, EmptySeq
  <2> HIDE DEF others
  <2>8. Append(others, n + 1) \in Seq(DOMAIN found') /\ Append(others, n + 1) # <<>>
    BY <2>6, <2>7, Added1
  <2>9. ring' \in Seq(DOMAIN found')
    BY <2>2, <2>8, RingEvicts
  <2> QED  BY <2>1, <2>3, <2>6, <2>9 DEF SearchTypes, Searches
<1>3. CASE StopAnswered
  <2>1. UNCHANGED <<multiSearch, found>> /\ live' \subseteq live
    BY <1>3 DEF StopAnswered
  <2>2. ring' = ring \/ \E n \in DOMAIN ring : ring' = RemoveAt(ring, n)
    BY <1>3 DEF StopAnswered
  <2>3. ring' \in Seq(Searches)
    BY <2>2, RingLoses DEF SearchTypes
  <2> QED  BY <2>1, <2>3 DEF SearchTypes, Searches
<1>4. CASE MoreAnswered
  <2>1. UNCHANGED <<multiSearch, found, ring>> /\ live' \subseteq live \union Addressed(Next1.id)
    BY <1>4 DEF MoreAnswered
  <2>2. Addressed(Next1.id) \subseteq Searches
    <3>1. \A i \in DOMAIN ring : ring[i] \in Searches
      BY LenProperties, ElementOfSeq DEF SearchTypes
    <3>2. ring # <<>> => Last(ring) = ring[Len(ring)] /\ Len(ring) \in DOMAIN ring
      <4>1. Len(ring) \in Nat /\ DOMAIN ring = 1..Len(ring) /\ (ring = <<>>) = (Len(ring) = 0)
        BY LenProperties, EmptySeq DEF SearchTypes
      <4> QED  BY <4>1 DEF Last
    <3> QED  BY <3>1, <3>2 DEF Addressed, Range
  <2> QED  BY <2>1, <2>2 DEF SearchTypes, Searches
<1>5. CASE UNCHANGED <<ring, live, found>> /\ (multiSearch' = FALSE \/ UNCHANGED multiSearch)
  BY <1>5 DEF SearchTypes, Searches
<1>6. \/ Finds \/ StartAnswered \/ StopAnswered \/ MoreAnswered
      \/ UNCHANGED <<ring, live, found>> /\ (multiSearch' = FALSE \/ UNCHANGED multiSearch)
  BY DEF SearchNext, NegotiateSearch, Start, Ask, ResultsAnswered, SearchFails, searchVars
<1> QED  BY <1>1, <1>2, <1>3, <1>4, <1>5, <1>6

(* Only searches that were started are kept, live, or followed, whatever   *)
(* gives way in the ring.                                                  *)
THEOREM SearchTypeCorrect == SearchSpec => []SearchTypeOK
<1>1. SearchInit => SearchTypes
  <2>1. <<>> \in Seq(Searches)
    BY EmptySeq
  <2> QED  BY <2>1 DEF SearchInit, SearchTypes
<1>2. SearchInv /\ SearchTypes /\ [SearchNext]_searchVars => SearchTypes'
  BY SearchTypesStep
<1>3. SearchInv /\ [SearchNext]_searchVars => SearchInv'
  BY SearchStep
<1>4. SearchInv /\ SearchTypes => SearchTypeOK
  <2> SUFFICES ASSUME SearchInv, SearchTypes PROVE SearchTypeOK
    OBVIOUS
  <2>1. Range(ring) \subseteq Searches
    <3>1. \A i \in DOMAIN ring : ring[i] \in Searches
      BY LenProperties, ElementOfSeq DEF SearchTypes
    <3> QED  BY <3>1 DEF Range
  <2>2. \A i \in DOMAIN started : started[i].id \in Searches \union {NoId}
    BY DEF SearchInv, SessionsInv, ShowsItsOwn, Searches
  <2> QED  BY <2>1, <2>2 DEF SearchTypes, SearchTypeOK
<1> QED  BY <1>1, <1>2, <1>3, <1>4, SearchInitInv, PTL DEF SearchSpec

-----------------------------------------------------------------------------
(* Update.  What the daemon told this socket of an object is shown, as far *)
(* as the optional fields go: the ones it leaves out are those it told.    *)
MirrorInv(fields, optional, objects, told, mirror, left) ==
  /\ objects \in [Objects -> [fields -> 0..1] \union {Undefined}]
  /\ told \in [Objects -> [fields -> 0..1] \union {Undefined}]
  /\ mirror \in [Objects -> [fields -> {0, 1, Undefined}] \union {Undefined}]
  /\ \A id \in Objects :
       /\ id \in left => objects[id] = Undefined
       /\ told[id] # Undefined =>
            /\ mirror[id] # Undefined
            /\ \A field \in optional : mirror[id][field] = told[id][field]

NoObjects == [id \in Objects |-> Undefined]

UpdateInv ==
  /\ group = "none" => object = NoObjects /\ sent = NoObjects /\ shown = NoObjects /\ departed = {}
  /\ group # "none" => group \in DOMAIN Groups
                       /\ MirrorInv(ClassFields, Class.optional, object, sent, shown, departed)


LEMMA UndefinedIsNone ==
  ASSUME group \in DOMAIN Groups
  PROVE  /\ Undefined \notin 0..1
         /\ Undefined \notin [ClassFields -> {0, 1, Undefined}]
         /\ Undefined \notin [ClassFields -> 0..1]
<1>1. Class \in {Groups[name] : name \in DOMAIN Groups}
  BY DEF Class
<1>2. Undefined \notin 0..1 /\ Undefined \notin [ClassFields -> {0, 1, Undefined}]
  BY <1>1, UpdateAssumption DEF ClassFields
<1>3. [ClassFields -> 0..1] \subseteq [ClassFields -> {0, 1, Undefined}]
  OBVIOUS
<1> QED  BY <1>2, <1>3

LEMMA OptionalIsField == Class.optional \subseteq ClassFields
BY DEF ClassFields

(* A step that leaves the group alone leaves its fields alone.             *)
LEMMA SameClass ==
  ASSUME group # "none", group \in DOMAIN Groups, UNCHANGED group,
         MirrorInv(ClassFields, Class.optional, object', sent', shown', departed')
  PROVE  UpdateInv'
<1>1. Class' = Class /\ ClassFields' = ClassFields
  BY DEF Class, ClassFields
<1> QED  BY <1>1 DEF UpdateInv

LEMMA ObjectAppears == ASSUME UpdateInv, NEW id \in Objects, Appears(id) PROVE UpdateInv'
<1> DEFINE F == ClassFields
<1>1. /\ group # "none" /\ sent[id] = Undefined /\ id \notin departed
      /\ UNCHANGED <<group, sent, departed, shown>>
  BY DEF Appears
<1>2. PICK value \in 0..1 : object' = [object EXCEPT ![id] = [field \in F |-> value]]
  BY DEF Appears
<1>3. group \in DOMAIN Groups /\ MirrorInv(F, Class.optional, object, sent, shown, departed)
  BY <1>1 DEF UpdateInv
<1>4. [field \in F |-> value] \in [F -> 0..1]
  OBVIOUS
<1> HIDE DEF F
<1>5. object' \in [Objects -> [F -> 0..1] \union {Undefined}]
  BY <1>2, <1>3, <1>4 DEF MirrorInv
<1>6. \A other \in departed \intersect Objects : object'[other] = Undefined
  BY <1>1, <1>2, <1>3 DEF MirrorInv
<1>7. MirrorInv(F, Class.optional, object', sent', shown', departed')
  BY <1>1, <1>3, <1>5, <1>6 DEF MirrorInv
<1> QED  BY <1>1, <1>3, <1>7, SameClass DEF F

LEMMA ObjectChanges == ASSUME UpdateInv, NEW id \in Objects, Changes(id) PROVE UpdateInv'
<1> DEFINE F == ClassFields
<1>1. object[id] # Undefined /\ UNCHANGED <<group, sent, departed, shown>>
  BY DEF Changes
<1>2. group # "none"
  BY <1>1 DEF UpdateInv, NoObjects
<1>3. group \in DOMAIN Groups /\ MirrorInv(F, Class.optional, object, sent, shown, departed)
  BY <1>2 DEF UpdateInv
<1>4. PICK field \in F : object' = [object EXCEPT ![id][field] = 1 - @]
  BY DEF Changes
<1> DEFINE changed == [object[id] EXCEPT ![field] = 1 - @]
<1>5. changed \in [F -> 0..1]
  <2>1. object[id] \in [F -> 0..1]
    BY <1>1, <1>3 DEF MirrorInv
  <2>2. object[id][field] \in 0..1
    BY <2>1
  <2>3. 1 - object[id][field] \in 0..1
    BY <2>2
  <2> QED  BY <2>1, <2>3
<1>6. object' = [object EXCEPT ![id] = changed]
  BY <1>4
<1> HIDE DEF F, changed
<1>7. object' \in [Objects -> [F -> 0..1] \union {Undefined}]
  BY <1>3, <1>5, <1>6 DEF MirrorInv
<1>8. \A other \in departed \intersect Objects : object'[other] = Undefined
  BY <1>1, <1>3, <1>6 DEF MirrorInv
<1>9. MirrorInv(F, Class.optional, object', sent', shown', departed')
  BY <1>1, <1>3, <1>7, <1>8 DEF MirrorInv
<1> QED  BY <1>1, <1>2, <1>3, <1>9, SameClass DEF F

LEMMA ObjectDeparts == ASSUME UpdateInv, NEW id \in Objects, Departs(id) PROVE UpdateInv'
<1> DEFINE F == ClassFields
<1>1. /\ group # "none" /\ UNCHANGED <<group, shown>> /\ departed' = departed \union {id}
      /\ object' = [object EXCEPT ![id] = Undefined]
      /\ sent' = [sent EXCEPT ![id] = Undefined]
  BY DEF Departs, FileGroups
<1>2. group \in DOMAIN Groups /\ MirrorInv(F, Class.optional, object, sent, shown, departed)
  BY <1>1 DEF UpdateInv
<1> HIDE DEF F
<1>3. MirrorInv(F, Class.optional, object', sent', shown', departed')
  BY <1>1, <1>2 DEF MirrorInv
<1> QED  BY <1>1, <1>2, <1>3, SameClass DEF F

LEMMA SocketReplaced == UpdateInv /\ UpdateReconnect => UpdateInv'
<1> SUFFICES ASSUME UpdateInv, UpdateReconnect PROVE UpdateInv'
  OBVIOUS
<1> DEFINE F == ClassFields
<1>1. /\ group # "none" /\ UNCHANGED <<group, object, shown>> /\ departed' = {}
      /\ sent' = [id \in Objects |-> Undefined]
  BY DEF UpdateReconnect
<1>2. group \in DOMAIN Groups /\ MirrorInv(F, Class.optional, object, sent, shown, departed)
  BY <1>1 DEF UpdateInv
<1> HIDE DEF F
<1>3. MirrorInv(F, Class.optional, object', sent', shown', departed')
  BY <1>1, <1>2 DEF MirrorInv
<1> QED  BY <1>1, <1>2, <1>3, SameClass DEF F

LEMMA OptionalHasNoDefault ==
  ASSUME group \in DOMAIN Groups PROVE Class.optional \intersect Class.defaulted = {}
<1>1. group \in {"sharedFiles", "downloads", "clients", "servers", "friends"}
  BY DEF Groups
<1>2. SharedFile.optional \intersect SharedFile.defaulted = {}
  BY DEF SharedFile
<1>3. DownloadFile.optional \intersect DownloadFile.defaulted = {}
  BY DEF DownloadFile
<1>4. ClientUpdate.defaulted = {} /\ ServerUpdate.defaulted = {} /\ FriendInfo.defaulted = {}
  BY DEF ClientUpdate, ServerUpdate, FriendInfo
<1>5. Class \in {SharedFile, DownloadFile, ClientUpdate, ServerUpdate, FriendInfo}
  BY <1>1 DEF Class, Groups
<1> QED  BY <1>2, <1>3, <1>4, <1>5

(* fromTag() and mergedWith() on what the daemon sends of one object: the  *)
(* optional fields are the object's.                                       *)
LEMMA MergedIsTrue ==
  ASSUME group # "none", UpdateInv, NEW id \in Objects, object[id] # Undefined
  PROVE  /\ MergeInto(id, FromTag(Class, PartialObject(id))) \in [ClassFields -> {0, 1, Undefined}]
         /\ \A field \in Class.optional :
              MergeInto(id, FromTag(Class, PartialObject(id)))[field] = object[id][field]
<1> DEFINE tag == PartialObject(id)
           update == FromTag(Class, tag)
           merged == MergeInto(id, update)
           F == ClassFields
           optional == Class.optional
           defaulted == Class.defaulted
<1>1. group \in DOMAIN Groups /\ MirrorInv(F, optional, object, sent, shown, departed)
  BY DEF UpdateInv
<1>2. /\ object[id] \in [F -> 0..1] /\ Undefined \notin 0..1
      /\ optional \subseteq F /\ optional \intersect defaulted = {}
      /\ F = optional \union defaulted
  BY <1>1, UndefinedIsNone, OptionalHasNoDefault DEF MirrorInv, ClassFields
<1>3. /\ shown[id] # Undefined => shown[id] \in [F -> {0, 1, Undefined}]
      /\ sent[id] # Undefined =>
           shown[id] # Undefined /\ \A field \in optional : shown[id][field] = sent[id][field]
  BY <1>1 DEF MirrorInv
<1>4. /\ DOMAIN tag \subseteq F
      /\ \A field \in DOMAIN tag : tag[field] = object[id][field]
      /\ \A field \in F : field \notin DOMAIN tag =>
           sent[id] # Undefined /\ sent[id][field] = object[id][field]
  BY DEF PartialObject
<1>5. update = [field \in optional \union defaulted |->
                  IF field \in DOMAIN tag THEN tag[field]
                  ELSE IF field \in defaulted THEN 0 ELSE Undefined]
  BY DEF FromTag
<1>6. merged = IF shown[id] = Undefined THEN update
               ELSE [field \in DOMAIN update |->
                       IF update[field] = Undefined THEN shown[id][field] ELSE update[field]]
  BY DEF MergeInto, MergedWith
<1> HIDE DEF tag, update, merged, F, optional, defaulted
<1>7. /\ update \in [F -> {0, 1, Undefined}]
      /\ \A field \in F : field \in DOMAIN tag => update[field] = object[id][field]
      /\ \A field \in optional : field \notin DOMAIN tag => update[field] = Undefined
  BY <1>2, <1>4, <1>5
<1>8. CASE shown[id] = Undefined
  <2>1. merged = update /\ \A field \in F : field \in DOMAIN tag
    BY <1>3, <1>4, <1>6, <1>8
  <2> QED  BY <1>2, <1>7, <2>1 DEF merged, update, tag, F, optional
<1>9. CASE shown[id] # Undefined
  <2>1. merged = [field \in F |-> IF update[field] = Undefined THEN shown[id][field] ELSE update[field]]
    BY <1>6, <1>7, <1>9
  <2>2. merged \in [F -> {0, 1, Undefined}]
    BY <1>3, <1>7, <1>9, <2>1
  <2>3. ASSUME NEW field \in optional PROVE merged[field] = object[id][field]
    <3>1. CASE field \in DOMAIN tag
      <4>1. update[field] = object[id][field] /\ object[id][field] # Undefined /\ field \in F
        BY <1>2, <1>7, <3>1
      <4> QED  BY <2>1, <4>1
    <3>2. CASE field \notin DOMAIN tag
      <4>1. update[field] = Undefined /\ field \in F /\ shown[id][field] = object[id][field]
        BY <1>2, <1>3, <1>4, <1>7, <3>2
      <4> QED  BY <2>1, <4>1
    <3> QED  BY <3>1, <3>2
  <2> QED  BY <2>2, <2>3 DEF merged, update, tag, F, optional
<1> QED  BY <1>8, <1>9

LEMMA MirrorFetched == UpdateInv /\ FetchUpdate => UpdateInv' /\ ShowsTruly(Class.optional)
<1> SUFFICES ASSUME UpdateInv, FetchUpdate PROVE UpdateInv' /\ ShowsTruly(Class.optional)
  OBVIOUS
<1> DEFINE F == ClassFields
           optional == Class.optional
           merged(id) == MergeInto(id, FromTag(Class, PartialObject(id)))
<1>1. /\ group # "none" /\ UNCHANGED <<group, object>> /\ departed' = {} /\ sent' = object
      /\ shown' = [id \in Objects |-> ApplyTopLevelTag(id)]
  BY DEF FetchUpdate
<1>2. group \in DOMAIN Groups /\ MirrorInv(F, optional, object, sent, shown, departed)
  BY <1>1 DEF UpdateInv
<1>3. \A id \in Objects : object[id] # Undefined =>
        /\ merged(id) \in [F -> {0, 1, Undefined}]
        /\ \A field \in optional : merged(id)[field] = object[id][field]
  BY <1>1, MergedIsTrue
<1>4. \A id \in Objects : ApplyTopLevelTag(id) =
        IF id \in departed THEN Undefined
        ELSE IF object[id] = Undefined THEN shown[id] ELSE merged(id)
  BY DEF ApplyTopLevelTag
<1>5. Undefined \notin [F -> {0, 1, Undefined}]
  BY <1>2, UndefinedIsNone
<1> HIDE DEF F, optional, merged
<1>6. shown' \in [Objects -> [F -> {0, 1, Undefined}] \union {Undefined}]
  <2>1. \A id \in Objects : ApplyTopLevelTag(id) \in [F -> {0, 1, Undefined}] \union {Undefined}
    BY <1>2, <1>3, <1>4 DEF MirrorInv
  <2> QED  BY <1>1, <2>1
<1>7. \A id \in Objects : object[id] # Undefined =>
        /\ shown'[id] # Undefined
        /\ \A field \in optional : shown'[id][field] = object[id][field]
  <2>1. \A id \in Objects : object[id] # Undefined => shown'[id] = merged(id)
    BY <1>1, <1>2, <1>4 DEF MirrorInv
  <2> QED  BY <1>3, <1>5, <2>1
<1>8. MirrorInv(F, optional, object', sent', shown', departed')
  BY <1>1, <1>2, <1>6, <1>7 DEF MirrorInv
<1>9. UpdateInv'
  BY <1>1, <1>2, <1>8, SameClass DEF F, optional
<1>10. ShowsTruly(Class.optional)
  BY <1>7 DEF ShowsTruly, optional
<1> QED  BY <1>9, <1>10

LEMMA UpdateStep == UpdateInv /\ [UpdateNext]_updateVars => UpdateInv'
<1> SUFFICES ASSUME UpdateInv, [UpdateNext]_updateVars PROVE UpdateInv'
  OBVIOUS
<1>1. CASE NegotiateUpdate
  <2>1. /\ group = "none" /\ group' \in DOMAIN Groups /\ UNCHANGED <<object, sent, departed, shown>>
        /\ object = NoObjects /\ sent = NoObjects /\ shown = NoObjects /\ departed = {}
    BY <1>1 DEF NegotiateUpdate, UpdateInv
  <2>2. group' # "none"
    BY <2>1 DEF Groups
  <2>3. MirrorInv(ClassFields', Class'.optional, object', sent', shown', departed')
    BY <2>1 DEF MirrorInv, NoObjects
  <2> QED  BY <2>1, <2>2, <2>3 DEF UpdateInv
<1>2. CASE UpdateReconnect
  BY <1>2, SocketReplaced
<1>3. CASE FetchUpdate
  BY <1>3, MirrorFetched
<1>4. ASSUME NEW id \in Objects, Appears(id) \/ Changes(id) \/ Departs(id) PROVE UpdateInv'
  BY <1>4, ObjectAppears, ObjectChanges, ObjectDeparts
<1>5. CASE UNCHANGED updateVars
  <2>1. UNCHANGED <<group, object, sent, shown, departed>>
    BY <1>5 DEF updateVars
  <2>2. Class' = Class /\ ClassFields' = ClassFields
    BY <2>1 DEF Class, ClassFields
  <2> QED  BY <2>1, <2>2 DEF UpdateInv
<1> QED  BY <1>1, <1>2, <1>3, <1>4, <1>5 DEF UpdateNext

LEMMA UpdateInitInv == UpdateInit => UpdateInv
BY DEF UpdateInit, UpdateInv, NoObjects

(* For any objects and any number of partial answers and sockets, fetch()  *)
(* leaves no optional field of a live object out of date (fromTag(),       *)
(* mergedWith(), mergeInto()).                                             *)
THEOREM MirrorShowsOptionalFields == UpdateSpec => OptionalFieldsAreLive
<1>1. UpdateInv /\ [UpdateNext]_updateVars => [FetchUpdate => ShowsTruly(Class.optional)]_updateVars
  BY MirrorFetched
<1>2. UpdateSpec => [][FetchUpdate => ShowsTruly(Class.optional)]_updateVars
  BY <1>1, UpdateInitInv, UpdateStep, PTL DEF UpdateSpec
<1> QED  BY <1>2 DEF OptionalFieldsAreLive

(* The types of Update: an object has the fields of its class.             *)
LEMMA ChangesBounded == changes \in 0..MaxChanges /\ [UpdateNext]_updateVars => changes' \in 0..MaxChanges
<1> SUFFICES ASSUME changes \in 0..MaxChanges, [UpdateNext]_updateVars PROVE changes' \in 0..MaxChanges
  OBVIOUS
<1>1. MaxChanges \in Nat
  BY UpdateAssumption
<1>2. ASSUME NEW id \in Objects, Changes(id) PROVE changes' \in 0..MaxChanges
  BY <1>1, <1>2 DEF Changes
<1>3. ASSUME UNCHANGED changes PROVE changes' \in 0..MaxChanges
  BY <1>3
<1>4. (\E id \in Objects : Changes(id)) \/ UNCHANGED changes
  BY DEF UpdateNext, NegotiateUpdate, UpdateReconnect, FetchUpdate, Appears, Departs, updateVars
<1> QED  BY <1>2, <1>3, <1>4

LEMMA UpdateTypes == UpdateInv /\ group \in DOMAIN Groups \union {"none"} /\ changes \in 0..MaxChanges => UpdateTypeOK
<1> SUFFICES ASSUME UpdateInv, group # "none"
             PROVE  /\ object \in [Objects -> [ClassFields -> 0..1] \union {Undefined}]
                    /\ sent \in [Objects -> [ClassFields -> 0..1] \union {Undefined}]
                    /\ \A id \in Objects : shown[id] # Undefined =>
                         shown[id] \in [ClassFields -> {0, 1, Undefined}]
  BY DEF UpdateTypeOK
<1> DEFINE F == ClassFields
<1>1. MirrorInv(F, Class.optional, object, sent, shown, departed)
  BY DEF UpdateInv
<1> HIDE DEF F
<1>2. /\ object \in [Objects -> [F -> 0..1] \union {Undefined}]
      /\ sent \in [Objects -> [F -> 0..1] \union {Undefined}]
      /\ \A id \in Objects : shown[id] # Undefined => shown[id] \in [F -> {0, 1, Undefined}]
  BY <1>1 DEF MirrorInv
<1> QED  BY <1>2 DEF F

(* The daemon's objects and what it told of them have the fields of their  *)
(* class, and so has what is shown, set or not: for any class and objects. *)
THEOREM UpdateTypeCorrect == UpdateSpec => []UpdateTypeOK
<1> DEFINE Known == group \in DOMAIN Groups \union {"none"} /\ changes \in 0..MaxChanges
<1>1. UpdateInit => Known
  BY UpdateAssumption DEF UpdateInit
<1>2. Known /\ [UpdateNext]_updateVars => Known'
  <2>1. group \in DOMAIN Groups \union {"none"} /\ [UpdateNext]_updateVars
          => group' \in DOMAIN Groups \union {"none"}
    BY DEF UpdateNext, NegotiateUpdate, UpdateReconnect, FetchUpdate, Appears, Changes, Departs, updateVars
  <2> QED  BY <2>1, ChangesBounded
<1>3. UpdateInv /\ Known => UpdateTypeOK
  BY UpdateTypes
<1> QED  BY <1>1, <1>2, <1>3, UpdateInitInv, UpdateStep, PTL DEF UpdateSpec

-----------------------------------------------------------------------------
(* Chat.  A message that is still stored belongs to an open session; and   *)
(* until a backfill moves the cursor, it only grows, so that a request     *)
(* never carries one it has not reached.                                   *)
Requests ==
  [op : {"fetch"}, after : Nat] \union [op : {"history"}, peer : Peers, after : Nat]
    \union [op : {"send", "close"}, peer : Peers]

ChatInv ==
  /\ log \in Seq(Peers) /\ gone \subseteq Ids /\ open \subseteq Peers
  /\ \A id \in Ids \ gone : log[id] \in open
  /\ polls \in Seq(Requests) /\ backfilled \in BOOLEAN
  /\ DOMAIN sessions \subseteq Peers /\ cursor \in 0..Len(log)
  /\ \A peer \in DOMAIN sessions : sessions[peer] \subseteq Ids
  /\ ~backfilled => \A i \in DOMAIN polls : polls[i].op = "fetch" => polls[i].after <= cursor
  /\ PollingMissesNothing

LEMMA ChatInvInit == ChatInit => ChatInv
<1> SUFFICES ASSUME ChatInit PROVE ChatInv
  OBVIOUS
<1>1. /\ log \in Seq(Peers) /\ polls \in Seq(Requests) /\ Len(log) = 0 /\ DOMAIN polls = {}
      /\ DOMAIN sessions = {} /\ cursor = 0
  BY DEF ChatInit
<1>2. Ids = {} /\ 1..cursor = {}
  BY <1>1 DEF Ids
<1>3. gone = {} /\ open = {} /\ backfilled = FALSE
  BY DEF ChatInit
<1>4. PollingMissesNothing
  BY <1>2 DEF PollingMissesNothing
<1>5. /\ cursor \in 0..Len(log) /\ DOMAIN sessions \subseteq Peers
      /\ \A peer \in DOMAIN sessions : sessions[peer] \subseteq Ids
      /\ ~backfilled => \A i \in DOMAIN polls : polls[i].op = "fetch" => polls[i].after <= cursor
  BY <1>1
<1>6. gone \subseteq Ids /\ open \subseteq Peers /\ \A id \in Ids \ gone : log[id] \in open
  BY <1>2, <1>3
<1> QED  BY <1>1, <1>3, <1>4, <1>5, <1>6 DEF ChatInv

(* What the invariant says of the requests stays true of fewer of them,    *)
(* whoever answers.                                                        *)
LEMMA TailOfPolls ==
  ASSUME ChatInv, polls # <<>>
  PROVE  /\ Tail(polls) \in Seq(Requests) /\ Head1 \in Requests
         /\ \A i \in DOMAIN Tail(polls) : i + 1 \in DOMAIN polls /\ Tail(polls)[i] = polls[i + 1]
         /\ ~backfilled /\ Head1.op = "fetch" => Head1.after <= cursor
<1>1. polls \in Seq(Requests) /\ DOMAIN polls = 1..Len(polls) /\ 1 \in DOMAIN polls
  BY DEF ChatInv
<1>2. Head1 = polls[1] /\ Head1 \in Requests
  BY <1>1, ElementOfSeq DEF Head1
<1>3. /\ Tail(polls) \in Seq(Requests)
      /\ \A i \in DOMAIN Tail(polls) : i + 1 \in DOMAIN polls /\ Tail(polls)[i] = polls[i + 1]
  BY <1>1
<1> QED  BY <1>1, <1>2, <1>3 DEF ChatInv

(* A message is added at the end of the store, where no cursor is yet.     *)
LEMMA StoreKeeps ==
  ASSUME ChatInv, NEW peer \in Peers, Store(peer),
         UNCHANGED <<gone, sessions, cursor, backfilled>>,
         \/ UNCHANGED polls
         \/ polls # <<>> /\ polls' = Tail(polls)
  PROVE  ChatInv'
<1>1. /\ log \in Seq(Peers) /\ Len(log) \in Nat
      /\ log' = Append(log, peer) /\ open' = open \union {peer}
  BY DEF ChatInv, Store
<1>2. /\ log' \in Seq(Peers) /\ Len(log') = Len(log) + 1
      /\ \A id \in 1..Len(log) : log'[id] = log[id]
      /\ log'[Len(log) + 1] = peer
  BY <1>1
<1>3. \A id \in Ids' \ gone' : log'[id] \in open'
  BY <1>1, <1>2 DEF ChatInv, Ids
<1>4. /\ polls' \in Seq(Requests)
      /\ ~backfilled' => \A i \in DOMAIN polls' : polls'[i].op = "fetch" => polls'[i].after <= cursor'
  BY TailOfPolls DEF ChatInv
<1>5. PollingMissesNothing'
  <2> SUFFICES ASSUME ~backfilled, NEW message \in (1..cursor) \ gone
               PROVE  log'[message] \in DOMAIN sessions /\ message \in sessions[log'[message]]
    BY DEF PollingMissesNothing
  <2>1. message \in 1..Len(log)
    BY DEF ChatInv
  <2> QED  BY <2>1, <1>2 DEF ChatInv, PollingMissesNothing
<1>6. /\ gone' \subseteq Ids' /\ open' \subseteq Peers /\ cursor' \in 0..Len(log')
      /\ \A id \in DOMAIN sessions' : sessions'[id] \subseteq Ids'
  BY <1>1, <1>2 DEF ChatInv, Ids
<1> QED  BY <1>2, <1>3, <1>4, <1>5, <1>6 DEF ChatInv

(* Of a session that is closed no message is left.                         *)
LEMMA CloseKeeps ==
  ASSUME ChatInv, NEW peer \in Peers, Close(peer),
         UNCHANGED <<log, sessions, cursor, backfilled>>,
         \/ UNCHANGED polls
         \/ polls # <<>> /\ polls' = Tail(polls)
  PROVE  ChatInv'
<1>1. /\ polls' \in Seq(Requests)
      /\ ~backfilled' => \A i \in DOMAIN polls' : polls'[i].op = "fetch" => polls'[i].after <= cursor'
  BY TailOfPolls DEF ChatInv
<1>2. Ids' = Ids
  BY DEF Ids
<1>3. Of(peer, 0) = {id \in Ids \ gone : log[id] = peer}
  BY DEF Of, Ids
<1>4. /\ open' \subseteq Peers /\ gone' \subseteq Ids' /\ gone \subseteq gone'
      /\ \A id \in Ids' \ gone' : log'[id] \in open'
  BY <1>2, <1>3 DEF ChatInv, Close
<1>5. PollingMissesNothing'
  BY <1>4 DEF ChatInv, PollingMissesNothing
<1> QED  BY <1>1, <1>2, <1>4, <1>5 DEF ChatInv

LEMMA PollKeeps ==
  ASSUME ChatInv, NEW request \in Requests, Poll(request),
         request.op = "fetch" => request.after = cursor
  PROVE  ChatInv'
<1>1. /\ polls \in Seq(Requests) /\ polls' = Append(polls, request)
      /\ UNCHANGED <<log, gone, open, sessions, cursor, backfilled>>
  BY DEF Poll, ChatInv
<1>2. /\ polls' \in Seq(Requests) /\ DOMAIN polls' = 1..(Len(polls) + 1)
      /\ DOMAIN polls = 1..Len(polls) /\ Len(polls) \in Nat
      /\ \A i \in DOMAIN polls : polls'[i] = polls[i]
      /\ polls'[Len(polls) + 1] = request
  BY <1>1
<1>3. ASSUME ~backfilled, NEW i \in DOMAIN polls', polls'[i].op = "fetch"
      PROVE  polls'[i].after <= cursor
  <2>1. CASE i \in DOMAIN polls
    BY <2>1, <1>2, <1>3 DEF ChatInv
  <2>2. CASE i = Len(polls) + 1
    BY <2>2, <1>2, <1>3 DEF ChatInv
  <2> QED  BY <2>1, <2>2, <1>2
<1>4. PollingMissesNothing' /\ Ids' = Ids
  BY <1>1 DEF ChatInv, PollingMissesNothing, Ids
<1> QED  BY <1>1, <1>2, <1>3, <1>4 DEF ChatInv

(* A message above the cursor of the request is in the reply; one below it *)
(* was already held.                                                       *)
LEMMA FetchKeeps == ChatInv /\ FetchAnswered => ChatInv'
<1> SUFFICES ASSUME ChatInv, FetchAnswered PROVE ChatInv'
  OBVIOUS
<1> USE DEF FetchAnswered, Answer
<1>1. /\ Head1 \in Requests /\ Head1.op = "fetch" /\ Head1.after \in Nat
      /\ ~backfilled => Head1.after <= cursor
      /\ polls' \in Seq(Requests)
  BY TailOfPolls DEF Requests
<1>2. /\ cursor' = Len(log) /\ Len(log) \in Nat /\ cursor <= cursor' /\ cursor \in Nat
      /\ cursor' \in 0..Len(log')
  BY DEF ChatInv
<1>3. ASSUME ~backfilled', NEW i \in DOMAIN polls', polls'[i].op = "fetch"
      PROVE  polls'[i].after <= cursor'
  <2>1. i + 1 \in DOMAIN polls /\ polls'[i] = polls[i + 1] /\ ~backfilled
    BY <1>3, TailOfPolls
  <2>2. polls[i + 1] \in Requests /\ polls[i + 1].after <= cursor
    BY <2>1, <1>3, ElementOfSeq DEF ChatInv
  <2>3. polls[i + 1].after \in Nat
    BY <2>1, <2>2, <1>3 DEF Requests
  <2> QED  BY <2>1, <2>2, <2>3, <1>2
<1>4. sessions' = [peer \in open |-> Previous(peer) \union Of(peer, Head1.after)]
  BY DEF MergeMessages
<1>5. PollingMissesNothing'
  <2> SUFFICES ASSUME ~backfilled, NEW message \in (1..Len(log)) \ gone
               PROVE  log[message] \in DOMAIN sessions' /\ message \in sessions'[log[message]]
    BY <1>2 DEF PollingMissesNothing
  <2>1. log[message] \in open
    BY DEF ChatInv, Ids
  <2>2. CASE message <= cursor
    <3>1. log[message] \in DOMAIN sessions /\ message \in sessions[log[message]]
      BY <2>2, <1>2 DEF ChatInv, PollingMissesNothing
    <3> QED  BY <3>1, <2>1, <1>4 DEF Previous
  <2>3. CASE ~(message <= cursor)
    <3>1. message > Head1.after
      BY <2>3, <1>1, <1>2
    <3> QED  BY <3>1, <2>1, <1>4 DEF Of, Ids
  <2> QED  BY <2>2, <2>3
<1>6. /\ DOMAIN sessions' \subseteq Peers
      /\ \A peer \in DOMAIN sessions' : sessions'[peer] \subseteq Ids'
  BY <1>4 DEF ChatInv, Previous, Of, Ids
<1> QED  BY <1>1, <1>2, <1>3, <1>5, <1>6 DEF ChatInv, Ids

LEMMA HistoryKeeps == ChatInv /\ HistoryAnswered => ChatInv'
<1> SUFFICES ASSUME ChatInv, HistoryAnswered PROVE ChatInv'
  OBVIOUS
<1> USE DEF HistoryAnswered, Answer
<1>1. /\ Head1 \in Requests /\ Head1.op = "history" /\ Head1.peer \in Peers
      /\ polls' \in Seq(Requests)
  BY TailOfPolls DEF Requests
<1>2. cursor' \in 0..Len(log') /\ backfilled' \in BOOLEAN
  BY DEF ChatInv, Of, Ids
<1>3. ~backfilled' => cursor' = cursor /\ ~backfilled
  OBVIOUS
<1>4. ~backfilled' => \A i \in DOMAIN polls' : polls'[i].op = "fetch" => polls'[i].after <= cursor'
  BY <1>3, TailOfPolls DEF ChatInv
<1>5. /\ DOMAIN sessions \subseteq DOMAIN sessions' /\ DOMAIN sessions' \subseteq Peers
      /\ \A peer \in DOMAIN sessions : sessions[peer] \subseteq sessions'[peer]
      /\ \A peer \in DOMAIN sessions' : sessions'[peer] \subseteq Ids
  BY <1>1 DEF ChatInv, MergeMessages, Previous, Of
<1>6. PollingMissesNothing'
  BY <1>3, <1>5 DEF ChatInv, PollingMissesNothing
<1> QED  BY <1>1, <1>2, <1>4, <1>5, <1>6 DEF ChatInv, Ids

LEMMA FailureKeeps == ChatInv /\ PollFails => ChatInv'
<1> SUFFICES ASSUME ChatInv, PollFails PROVE ChatInv'
  OBVIOUS
<1>1. /\ polls' \in Seq(Requests)
      /\ ~backfilled' => \A i \in DOMAIN polls' : polls'[i].op = "fetch" => polls'[i].after <= cursor'
  BY TailOfPolls DEF ChatInv, PollFails
<1> QED  BY <1>1 DEF ChatInv, PollFails, PollingMissesNothing, Ids

LEMMA ChatInvStep == ChatInv /\ [ChatNext]_chatVars => ChatInv'
<1> SUFFICES ASSUME ChatInv, [ChatNext]_chatVars PROVE ChatInv'
  OBVIOUS
<1>1. CASE CallFetch
  <2>1. [op |-> "fetch", after |-> cursor] \in Requests
    BY DEF Requests, ChatInv
  <2> QED  BY <1>1, <2>1, PollKeeps DEF CallFetch
<1>2. ASSUME NEW peer \in Peers, Elsewhere(peer) PROVE ChatInv'
  BY <1>2, StoreKeeps, CloseKeeps DEF Elsewhere
<1>3. ASSUME NEW peer \in Peers, CallSend(peer) \/ CallClose(peer) PROVE ChatInv'
  <2>1. [op |-> "send", peer |-> peer] \in Requests /\ [op |-> "close", peer |-> peer] \in Requests
    BY DEF Requests
  <2> QED  BY <1>3, <2>1, PollKeeps DEF CallSend, CallClose
<1>4. ASSUME NEW peer \in Peers, NEW after \in {0, cursor}, CallHistory(peer, after) PROVE ChatInv'
  <2>1. [op |-> "history", peer |-> peer, after |-> after] \in Requests
    BY DEF Requests, ChatInv
  <2> QED  BY <1>4, <2>1, PollKeeps DEF CallHistory
<1>5. CASE SendAnswered
  <2>1. Head1.peer \in Peers
    BY <1>5, TailOfPolls DEF SendAnswered, Answer, Requests
  <2> QED  BY <1>5, <2>1, StoreKeeps DEF SendAnswered, Answer
<1>6. CASE CloseAnswered
  <2>1. Head1.peer \in Peers
    BY <1>6, TailOfPolls DEF CloseAnswered, Answer, Requests
  <2> QED  BY <1>6, <2>1, CloseKeeps DEF CloseAnswered, Answer
<1>7. CASE UNCHANGED chatVars
  BY <1>7 DEF ChatInv, chatVars, PollingMissesNothing, Ids
<1> QED
  BY <1>1, <1>2, <1>3, <1>4, <1>5, <1>6, <1>7, FetchKeeps, HistoryKeeps, FailureKeeps DEF ChatNext

(* Every variable keeps its type: what is tracked is in the store, and the *)
(* cursor never passes its end.                                            *)
THEOREM ChatTypeCorrect == ChatSpec => []ChatTypeOK
<1>1. ChatInv => ChatTypeOK
  BY DEF ChatInv, ChatTypeOK
<1> QED  BY <1>1, ChatInvInit, ChatInvStep, PTL DEF ChatSpec

(* As long as fetch() alone moves the cursor, polling misses no message    *)
(* that is still stored (fetch(), mergeMessages()).                        *)
THEOREM NothingIsMissed == ChatSpec => []PollingMissesNothing
<1>1. ChatInv => PollingMissesNothing
  BY DEF ChatInv
<1> QED  BY <1>1, ChatInvInit, ChatInvStep, PTL DEF ChatSpec

(* A session that stays loses none of its messages (mergeMessages()).      *)
THEOREM MessagesStay == ChatSpec => MessagesAreKept
<1>1. ASSUME [ChatNext]_chatVars
      PROVE  \A peer \in DOMAIN sessions \intersect DOMAIN sessions' :
               sessions[peer] \subseteq sessions'[peer]
  <2>1. CASE FetchAnswered
    BY <2>1 DEF FetchAnswered, MergeMessages, Previous
  <2>2. CASE HistoryAnswered
    BY <2>2 DEF HistoryAnswered, MergeMessages, Previous
  <2>3. CASE UNCHANGED sessions
    BY <2>3
  <2>4. ASSUME ~FetchAnswered, ~HistoryAnswered PROVE UNCHANGED sessions
    BY <1>1, <2>4 DEF ChatNext, CallFetch, CallSend, CallClose, CallHistory, Poll, Elsewhere,
                      SendAnswered, CloseAnswered, PollFails, chatVars
  <2> QED  BY <2>1, <2>2, <2>3, <2>4
<1> QED  BY <1>1, PTL DEF ChatSpec, MessagesAreKept
=============================================================================
