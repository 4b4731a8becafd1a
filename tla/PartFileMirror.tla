--------------------------- MODULE PartFileMirror ---------------------------
(***************************************************************************)
(* What the client shows of the download queue.  The daemon only sends     *)
(* what changed since it last answered on the same socket: the gaps of a   *)
(* file as a run-length encoded XOR with their previous value, the names   *)
(* its sources give it as additions, count changes and removals.           *)
(* PartFileStatus.ts and PartFileSourceNames.ts put the values together    *)
(* again in caches that every service of a connection shares: Update,      *)
(* which keeps a mirror, Downloads, and the DownloadTracker seeded by it.  *)
(*                                                                         *)
(* Requests are answered one after the other on a connection (the promise  *)
(* of ECConnection), so asking, encoding and decoding are one step.        *)
(***************************************************************************)
EXTENDS Naturals, Sequences

CONSTANTS
  Ecid,         \* the daemon's ids of files
  NameId,       \* its ids of the names sources give a file
  MaxParts,     \* bound: the length of a status buffer
  MaxRun,       \* the longest run the encoder writes as one (255)
  MaxCount,     \* bound: how many sources give the same name
  MaxSockets,   \* bound: sockets the connection goes through
  Unknown       \* the undefined of the code

ASSUME MirrorAssumption ==
  /\ MaxParts \in Nat /\ MaxRun \in Nat \ {0, 1} /\ MaxCount \in Nat \ {0}
  /\ MaxSockets \in Nat \ {0}

VARIABLES
  socket,       \* which of the successive sockets of the ECConnection it is
  file,         \* the daemon's queue: id -> [status, names], or Unknown
  encoder,      \* what it last told this socket: the same, empty at first
  removed,      \* removals not yet told on this socket
  used,         \* ids given so far
  statusCache,  \* PartFileStatus: id -> bytes, or Unknown
  namesCache,   \* PartFileSourceNames: id -> counts by name, or Unknown
  mirror,       \* Update.downloadsByEcid
  listed,       \* the ids of Downloads.files
  tracked       \* the ids of DownloadTracker.filesByEcid

daemonVars == <<socket, file, encoder, removed, used>>
clientVars == <<statusCache, namesCache, mirror, listed, tracked>>
mirrorVars == <<daemonVars, clientVars>>

Buffer == UNION {[1..n -> 0..1] : n \in 0..MaxParts}
Names == UNION {[N -> 1..MaxCount] : N \in SUBSET NameId}
File == [status : Buffer, names : Names]
Shown == [gaps : Buffer \union {Unknown}, names : Names \union {Unknown}]
NothingTold == [status |-> <<>>, names |-> [n \in {} |-> 0]]

(* undefined is none of the values it stands beside. *)
ASSUME UnknownAssumption ==
  Unknown \notin Seq(Nat) /\ Unknown \notin Names /\ Unknown \notin File /\ Unknown \notin Shown

MirrorTypeOK ==
  /\ socket \in 1..MaxSockets
  /\ file \in [Ecid -> File \union {Unknown}] /\ encoder \in [Ecid -> File]
  /\ removed \subseteq Ecid /\ used \subseteq Ecid
  /\ statusCache \in [Ecid -> Buffer \union {Unknown}]
  /\ namesCache \in [Ecid -> Names \union {Unknown}]
  /\ mirror \in [Ecid -> Shown \union {Unknown}]
  /\ listed \subseteq Ecid /\ tracked \subseteq Ecid

MirrorInit ==
  /\ socket = 1
  /\ file = [e \in Ecid |-> Unknown] /\ encoder = [e \in Ecid |-> NothingTold]
  /\ removed = {} /\ used = {}
  /\ statusCache = [e \in Ecid |-> Unknown] /\ namesCache = [e \in Ecid |-> Unknown]
  /\ mirror = [e \in Ecid |-> Unknown]
  /\ listed = {} /\ tracked = {}

Queue == {e \in Ecid : file[e] # Unknown}

-----------------------------------------------------------------------------
(* The status buffers. *)
At(buffer, i) == IF i \in DOMAIN buffer THEN buffer[i] ELSE 0

Xor(old, new) == [i \in DOMAIN new |-> (At(old, i) + new[i]) % 2]

(* The daemon's encoder (external): a run of two or more equal bytes is    *)
(* written twice and followed by its length, up to MaxRun.                 *)
RunLength(bytes, i) ==
  CHOOSE n \in 1..MaxRun :
    /\ i + n - 1 <= Len(bytes)
    /\ \A k \in i..(i + n - 1) : bytes[k] = bytes[i]
    /\ n = MaxRun \/ i + n > Len(bytes) \/ bytes[i + n] # bytes[i]

RleEncode(bytes) ==
  LET from[i \in 1..(Len(bytes) + 1)] ==
        IF i > Len(bytes) THEN <<>>
        ELSE LET n == RunLength(bytes, i) IN
             (IF n = 1 THEN <<bytes[i]>> ELSE <<bytes[i], bytes[i], n>>) \o from[i + n]
  IN from[1]

(* rleDecodeDiff() *)
RleDecode(encoded) ==
  LET from[i \in 1..(Len(encoded) + 1)] ==
        IF i > Len(encoded) THEN <<>>
        ELSE IF i < Len(encoded) - 1 /\ encoded[i + 1] = encoded[i]
             THEN [k \in 1..encoded[i + 2] |-> encoded[i]] \o from[i + 3]
             ELSE <<encoded[i]>> \o from[i + 1]
  IN from[1]

(* Mutants: bytes past the new end are kept; bytes are added up. *)
KeepsLongTail(previous, diff) ==
  LET old == IF previous = Unknown THEN <<>> ELSE previous IN
  Xor(old, diff) \o SubSeq(old, Len(diff) + 1, Len(old))
AddsUp(previous, diff) ==
  [i \in DOMAIN diff |-> At(IF previous = Unknown THEN <<>> ELSE previous, i) + diff[i]]

(* reconstructState(): as long as the diff, zero beyond the previous end. *)
Reconstruct(previous, diff) == Xor(IF previous = Unknown THEN <<>> ELSE previous, diff)

(* Mutant: the reset of the daemon's encoder is ignored. *)
KeepsBase(cached, resetsEncoder) == cached

BaseOf(cached, resetsEncoder) == IF resetsEncoder THEN Unknown ELSE cached

(* resolveBytes(): what the cache holds after a tag that may carry a diff. *)
ResolveBytes(cached, raw, resetsEncoder) ==
  LET base == BaseOf(cached, resetsEncoder) IN
  IF raw = Unknown THEN base ELSE Reconstruct(base, RleDecode(raw))

(* What the daemon sends of a file's status: nothing if it did not change *)
(* since the last answer, unless that answer was forgotten.               *)
StatusSent(e, resetsEncoder) ==
  IF resetsEncoder THEN RleEncode(file[e].status)
  ELSE IF file[e].status = encoder[e].status THEN Unknown
  ELSE RleEncode(Xor(encoder[e].status, file[e].status))

-----------------------------------------------------------------------------
(* The names.  A change is a count, 0 for a name to forget, and comes with *)
(* the name itself only the first time.                                    *)
Count(names, n) == IF n \in DOMAIN names THEN names[n] ELSE 0

NamesSent(e) ==
  LET told == encoder[e].names
      changed == {n \in NameId : Count(told, n) # Count(file[e].names, n)}
  IN [n \in changed |-> [named |-> n \notin DOMAIN told, count |-> Count(file[e].names, n)]]

(* mergeSourceNames() *)
MergeNames(base, update) ==
  LET known == IF base = Unknown THEN {} ELSE DOMAIN base
      forgotten == {n \in DOMAIN update : update[n].count = 0}
      learnt == {n \in DOMAIN update \ forgotten : update[n].named \/ n \in known}
  IN [n \in (known \ forgotten) \union learnt |->
        IF n \in DOMAIN update THEN update[n].count ELSE base[n]]

(* resolveSourceNames(): no container, no change. *)
ResolveNames(cached, delta) == IF DOMAIN delta = {} THEN cached ELSE MergeNames(cached, delta)

(* A whole map of names, as mergedWith() passes it to mergeSourceNames(). *)
AsUpdate(names) == [n \in DOMAIN names |-> [named |-> TRUE, count |-> names[n]]]

-----------------------------------------------------------------------------
(* The daemon's queue (external). *)
AddFile(e) ==
  /\ e \notin used
  /\ \E f \in File : file' = [file EXCEPT ![e] = f]
  /\ used' = used \union {e}
  /\ UNCHANGED <<socket, encoder, removed, clientVars>>

ChangeFile(e) ==
  /\ e \in Queue
  /\ \/ \E status \in Buffer : file' = [file EXCEPT ![e].status = status]
     \/ \E names \in Names : file' = [file EXCEPT ![e].names = names]
  /\ UNCHANGED <<socket, encoder, removed, used, clientVars>>

RemoveFile(e) ==
  /\ e \in Queue
  /\ file' = [file EXCEPT ![e] = Unknown]
  /\ encoder' = [encoder EXCEPT ![e] = NothingTold]
  /\ removed' = removed \union {e}
  /\ UNCHANGED <<socket, used, clientVars>>

-----------------------------------------------------------------------------
(* A reply with every file of the queue: the daemon's encoder moves on and *)
(* the caches follow, whichever service asked.                             *)
Decode(resetsEncoder) ==
  /\ encoder' = [e \in Ecid |-> IF e \in Queue THEN file[e] ELSE encoder[e]]
  /\ statusCache' = [e \in Ecid |->
       IF e \in Queue THEN ResolveBytes(statusCache[e], StatusSent(e, resetsEncoder), resetsEncoder)
       ELSE statusCache[e]]
  /\ namesCache' = [e \in Ecid |->
       IF e \in Queue THEN ResolveNames(namesCache[e], NamesSent(e)) ELSE namesCache[e]]

(* Mutant: FILE_REMOVED is not handled. *)
MergedKeepsRemoved(e) ==
  IF e \in Queue THEN [gaps |-> statusCache'[e], names |-> namesCache'[e]] ELSE mirror[e]

(* mergeInto() and DownloadFile.mergedWith(), after the tags of the reply  *)
(* that name removed files.                                                *)
Merged(e) ==
  LET shown == IF e \in removed THEN Unknown ELSE mirror[e] IN
  IF e \notin Queue THEN shown
  ELSE IF shown = Unknown THEN [gaps |-> statusCache'[e], names |-> namesCache'[e]]
  ELSE [gaps |-> IF statusCache'[e] = Unknown THEN shown.gaps ELSE statusCache'[e],
        names |-> IF namesCache'[e] = Unknown THEN shown.names
                  ELSE MergeNames(shown.names, AsUpdate(namesCache'[e]))]

(* Update.fetch() *)
UpdateFetch ==
  /\ Decode(FALSE)
  /\ mirror' = [e \in Ecid |-> Merged(e)]
  /\ removed' = {}
  /\ UNCHANGED <<socket, file, used, listed, tracked>>

(* Downloads.fetch(): the daemon resets its encoders, of status only. *)
DownloadsFetch ==
  /\ Decode(TRUE)
  /\ listed' = Queue
  /\ UNCHANGED <<socket, file, removed, used, mirror, tracked>>

(* DownloadTracker.seed(): files that left the queue are forgotten. *)
Seed ==
  /\ tracked' = listed
  /\ statusCache' = [e \in Ecid |-> IF e \in tracked \ listed THEN Unknown ELSE statusCache[e]]
  /\ namesCache' = [e \in Ecid |-> IF e \in tracked \ listed THEN Unknown ELSE namesCache[e]]
  /\ UNCHANGED <<daemonVars, mirror, listed>>

(* reconnect(): the daemon has told the new socket nothing; the caches are *)
(* kept by the ECConnection, which is still the same.                      *)
NewSocket ==
  /\ socket < MaxSockets
  /\ socket' = socket + 1
  /\ encoder' = [e \in Ecid |-> NothingTold]
  /\ removed' = {}
  /\ UNCHANGED <<file, used, clientVars>>

MirrorNext ==
  \/ \E e \in Ecid : AddFile(e) \/ ChangeFile(e) \/ RemoveFile(e)
  \/ UpdateFetch
  \/ DownloadsFetch
  \/ Seed
  \/ NewSocket

MirrorSpec == MirrorInit /\ [][MirrorNext]_mirrorVars

-----------------------------------------------------------------------------
(* Whichever services ask, in whatever order, the caches hold what the     *)
(* daemon believes it has told this connection: the next difference is     *)
(* applied to the value it was computed from (the class docs of            *)
(* PartFileStatus.ts and PartFileSourceNames.ts), on a first socket.       *)
Told(names, n) == IF names = Unknown THEN 0 ELSE Count(names, n)

CachesFollowEncoder ==
  socket = 1 =>
    \A e \in Queue :
      /\ encoder[e].status # <<>> => statusCache[e] = encoder[e].status
      /\ \A n \in NameId : Told(namesCache[e], n) = Told(encoder[e].names, n)

(* After Update.fetch() the mirror shows the files of the queue, and their *)
(* gaps, as they are (the class doc of Update: "a live mirror").           *)
ShowsQueue ==
  \A e \in Ecid :
    /\ mirror'[e] = Unknown <=> e \notin Queue
    /\ e \in Queue /\ file[e].status # <<>> => mirror'[e].gaps = file[e].status

MirrorIsLive == [][UpdateFetch /\ socket = 1 => ShowsQueue]_mirrorVars

(* The same for the gaps on any socket: the caches are per connection, and *)
(* an entry never outlives the connection that produced it (the class doc  *)
(* of PartFileSourceNames.ts).                                             *)
MirrorShowsGaps ==
  [][UpdateFetch => \A e \in Queue : file[e].status # <<>>
                      => mirror'[e].gaps = file[e].status]_mirrorVars

(* After Update.fetch() it also shows the names sources give now: an id    *)
(* whose count is 0 is forgotten (the class doc of DownloadFile).          *)
MirrorShowsNames ==
  [][UpdateFetch =>
       \A e \in Queue : mirror'[e].names # Unknown
         => DOMAIN mirror'[e].names = DOMAIN file[e].names]_mirrorVars

(* What Downloads.fetch() shows of the gaps depends on nothing that came   *)
(* before: other fetches, removed files, earlier sockets.                  *)
FetchIsSelfContained ==
  [][DownloadsFetch => \A e \in Queue : statusCache'[e] = file[e].status]_mirrorVars
=============================================================================
