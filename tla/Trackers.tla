------------------------------ MODULE Trackers ------------------------------
(***************************************************************************)
(* DownloadTracker and SharedFileTracker: a list of files kept live by the *)
(* packets the daemon pushes, over the baseline of a fetch().  Pushes and  *)
(* replies come down one socket in the order they were sent; a push is     *)
(* applied as it arrives, the caller of fetch() seeds the tracker whenever *)
(* it gets to it.  A removal names the hash of the file and not its id.    *)
(***************************************************************************)
EXTENDS Naturals, Sequences

CONSTANTS
  Hashes,         \* hashes of files
  MaxFiles,       \* bound: ids given, each once
  MaxPushes,      \* bound: packets pushed
  MaxFetches,     \* bound: calls of fetch()
  MaxProgress     \* bound: the progress of a file

VARIABLES
  kind,           \* which of the two trackers it is
  queue,          \* the daemon's files: id -> [hash, progress]
  given,          \* ids given so far
  line,           \* packets on their way, each with the queue when it was sent
  known,          \* the queue when the last packet received was sent
  fetched,        \* Downloads.files, SharedFiles.files
  filesByEcid,    \* the files the tracker shows
  cached,         \* ids with an entry in the delta caches
  fetching,       \* "no", "asked", or "answered" and not seeded yet
  seeded,         \* seed() was called
  late,           \* a push came since the reply that is to seed it
  raced,          \* one did before the last seed()
  pushes, fetches

trackerVars == <<kind, queue, given, line, known, fetched, filesByEcid, cached, fetching,
                 seeded, late, raced, pushes, fetches>>

NoFiles == [id \in {} |-> 0]
Unsent == 0     \* a field a packet leaves out

ASSUME TrackerAssumption ==
  /\ Unsent \notin Hashes
  /\ MaxFiles \in Nat /\ MaxPushes \in Nat /\ MaxFetches \in Nat /\ MaxProgress \in Nat \ {0}

(* The files with this one set, or without it.                             *)
SetFile(files, id, file) ==
  [other \in DOMAIN files \union {id} |-> IF other = id THEN file ELSE files[other]]
DropFile(files, id) == [other \in DOMAIN files \ {id} |-> files[other]]

TrackedFile == [hash : Hashes \union {Unsent}, progress : 1..MaxProgress]

TrackerTypeOK ==
  /\ kind \in {"none", "downloads", "sharedFiles"} /\ given \in 0..MaxFiles
  /\ DOMAIN queue \subseteq 1..given /\ DOMAIN filesByEcid \subseteq 1..given
  /\ \A id \in DOMAIN filesByEcid : filesByEcid[id] \in TrackedFile
  /\ cached \subseteq 1..given /\ fetching \in {"no", "asked", "answered"}

TrackerInit ==
  /\ kind = "none" /\ queue = NoFiles /\ given = 0 /\ line = <<>> /\ known = NoFiles
  /\ fetched = NoFiles /\ filesByEcid = NoFiles /\ cached = {} /\ fetching = "no"
  /\ seeded = FALSE /\ late = FALSE /\ raced = FALSE /\ pushes = 0 /\ fetches = 0

NewTracker ==
  /\ kind = "none" /\ kind' \in {"downloads", "sharedFiles"}
  /\ UNCHANGED <<queue, given, line, known, fetched, filesByEcid, cached, fetching, seeded, late,
                 raced, pushes, fetches>>

-----------------------------------------------------------------------------
(* The daemon (external): a file that is new is pushed with all there is   *)
(* to say of it, a file that goes on with what changed, one that leaves    *)
(* with its hash; that hash may come back, under another id.               *)
Push(update, after) ==
  /\ kind # "none" /\ pushes < MaxPushes /\ pushes' = pushes + 1
  /\ queue' = after
  /\ line' = Append(line, [op |-> "push", update |-> update, after |-> after])
  /\ UNCHANGED <<kind, known, fetched, filesByEcid, cached, fetching, seeded, late, raced, fetches>>

FileAdded(hash) ==
  /\ given < MaxFiles /\ given' = given + 1
  /\ \A id \in DOMAIN queue : queue[id].hash # hash
  /\ LET file == [hash |-> hash, progress |-> 1] IN
     Push([removed |-> FALSE, id |-> given + 1, file |-> file],
          SetFile(queue, given + 1, file))

FileChanged(id) ==
  /\ queue[id].progress < MaxProgress
  /\ LET progress == queue[id].progress + 1 IN
     Push([removed |-> FALSE, id |-> id, file |-> [hash |-> Unsent, progress |-> progress]],
          [queue EXCEPT ![id].progress = progress])
  /\ UNCHANGED given

FileRemoved(id) ==
  /\ Push([removed |-> TRUE, hash |-> queue[id].hash], DropFile(queue, id))
  /\ UNCHANGED given

FetchServed ==
  /\ fetching = "asked" /\ \A i \in DOMAIN line : line[i].op # "reply"
  /\ line' = Append(line, [op |-> "reply", after |-> queue])
  /\ UNCHANGED <<kind, queue, given, known, fetched, filesByEcid, cached, fetching, seeded,
                 late, raced, pushes, fetches>>

-----------------------------------------------------------------------------
(* The client. *)

CallFetchFiles ==
  /\ kind # "none" /\ fetching = "no" /\ fetches < MaxFetches
  /\ fetching' = "asked" /\ fetches' = fetches + 1
  /\ UNCHANGED <<kind, queue, given, line, known, fetched, filesByEcid, cached, seeded, late, raced,
                 pushes>>

Received(op) ==
  /\ line # <<>> /\ Head(line).op = op
  /\ line' = Tail(line) /\ known' = Head(line).after

(* fetch(): each tag of the reply goes through fromTag(), and so into the  *)
(* caches.                                                                 *)
FetchReplied ==
  /\ Received("reply")
  /\ fetched' = Head(line).after /\ cached' = cached \union DOMAIN fetched'
  /\ fetching' = "answered" /\ late' = FALSE
  /\ UNCHANGED <<kind, queue, given, filesByEcid, seeded, raced, pushes, fetches>>

(* Mutant: the update takes the place of the file. *)
TakeUpdate(id, update) == update

(* mergedWith(): what was not sent stays. *)
MergedFile(id, update) ==
  IF id \in DOMAIN filesByEcid /\ update.hash = Unsent
  THEN [update EXCEPT !.hash = filesByEcid[id].hash] ELSE update

(* Mutant: a file is not found by its hash. *)
NoneHas(hash) == {}

IdsOf(hash) == {id \in DOMAIN filesByEcid : filesByEcid[id].hash = hash}

(* Mutant: what is dropped is not forgotten. *)
ForgetNothing(ids) == cached

(* forget(), which only DownloadTracker has. *)
Forget(ids) == IF kind = "downloads" THEN cached \ ids ELSE cached

(* apply(): of the files with the hash of a removal, the first goes. *)
NotificationApplied ==
  /\ Received("push")
  /\ late' = TRUE
  /\ LET update == Head(line).update IN
     IF ~update.removed
     THEN /\ filesByEcid' = SetFile(filesByEcid, update.id, MergedFile(update.id, update.file))
          /\ cached' = cached \union {update.id}
     ELSE IF IdsOf(update.hash) = {} THEN UNCHANGED <<filesByEcid, cached>>
     ELSE \E id \in IdsOf(update.hash) :
            /\ filesByEcid' = DropFile(filesByEcid, id)
            /\ cached' = Forget({id})
  /\ UNCHANGED <<kind, queue, given, fetched, fetching, seeded, raced, pushes, fetches>>

(* seed(): with the files of the last fetch(). *)
SeedTracker ==
  /\ fetching = "answered" /\ fetching' = "no" /\ seeded' = TRUE /\ raced' = late
  /\ filesByEcid' = fetched
  /\ cached' = Forget(DOMAIN filesByEcid \ DOMAIN fetched)
  /\ UNCHANGED <<kind, queue, given, line, known, fetched, late, pushes, fetches>>

TrackerNext ==
  \/ NewTracker \/ FetchServed \/ CallFetchFiles \/ FetchReplied \/ NotificationApplied \/ SeedTracker
  \/ \E hash \in Hashes : FileAdded(hash)
  \/ \E id \in DOMAIN queue : FileChanged(id) \/ FileRemoved(id)

TrackerSpec == TrackerInit /\ [][TrackerNext]_trackerVars

-----------------------------------------------------------------------------
InStep == seeded /\ ~raced

(* Once seeded, and unless a push came between the reply and seed() (which *)
(* then undoes it), a tracker holds the daemon's list as of the last       *)
(* packet: complete entries, none of a file that left, although only the   *)
(* first packet of a file says its hash and its removal nothing else.      *)
TrackerFollows == InStep => filesByEcid = known

(* DownloadTracker leaves nothing in the delta caches of a file that left, *)
(* whichever of apply() and seed() saw it leave: not even after a race.    *)
ForgetsWhatLeft == seeded /\ kind = "downloads" /\ fetching = "no" => cached \subseteq DOMAIN filesByEcid
=============================================================================
