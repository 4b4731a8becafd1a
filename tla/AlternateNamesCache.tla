------------------------ MODULE AlternateNamesCache -------------------------
(***************************************************************************)
(* The cache of alternate file names (src/src/AlternateNamesCache.ts): a   *)
(* map in memory, loaded from one JSON file and written back to it through *)
(* a temporary file and a rename.  The calls of init(), add() and remove() *)
(* run one after the other on writeChain.  Reads, writes and renames may   *)
(* fail, and the process may be killed at any point and start again.       *)
(***************************************************************************)
EXTENDS Naturals, Sequences, FiniteSets

CONSTANTS
  Name,         \* file names, cached or alternate
  TooLong,      \* those past maxNameLength
  MaxEntries, MaxNames, MaxAge,
  MaxCalls,     \* bound: calls made, over all the runs of the process
  MaxClock,     \* bound: the clock
  Failing       \* reads, writes and renames may fail

ASSUME CacheAssumption ==
  /\ TooLong \subseteq Name
  /\ MaxEntries \in Nat \ {0} /\ MaxNames \in Nat \ {0} /\ MaxAge \in Nat
  /\ MaxCalls \in Nat /\ MaxClock \in Nat
  /\ Failing \in BOOLEAN

VARIABLES
  content,      \* the map: name |-> [names, at]
  loaded,
  disk,         \* the file: missing, corrupt or the entries it holds
  calls,        \* the calls made, in the order they were chained
  clock

cacheVars == <<content, loaded, disk, calls, clock>>

Entry == [names : SUBSET Name, at : 0..MaxClock]
(* No name is an alternate of itself. *)
Content == {map \in UNION {[D -> Entry] : D \in SUBSET Name} :
              \A n \in DOMAIN map : n \notin map[n].names}
NoEntry == [n \in {} |-> {}]

Operation == [kind : {"init"}] \union [kind : {"add"}, name : Name, alts : SUBSET Name]
             \union [kind : {"remove"}, name : Name]

(* What becomes of a call: chained, its change made in memory, its copy of *)
(* the map being written, written, and settled.  A killed process leaves   *)
(* its calls lost.                                                         *)
Settled == {"resolved", "rejected", "lost"}
Phase == {"chained", "changed", "writing", "written"} \union Settled

CacheTypeOK ==
  /\ content \in Content
  /\ loaded \in BOOLEAN
  /\ disk.file \in {"missing", "corrupt", "valid"} /\ disk.entries \in Content
  /\ Len(calls) <= MaxCalls
  /\ \A i \in DOMAIN calls :
       /\ calls[i].op \in Operation /\ calls[i].phase \in Phase
       /\ calls[i].copy \in Content
  /\ clock \in 0..MaxClock

(* A first run finds no file, a file that is not a cache, or a valid one. *)
CacheInit ==
  /\ content = NoEntry /\ loaded = FALSE
  /\ disk \in {[file |-> "missing", entries |-> NoEntry], [file |-> "corrupt", entries |-> NoEntry]}
              \union {[file |-> "valid", entries |-> [n \in {m} |-> [names |-> Name \ {m}, at |-> 0]]] : m \in Name}
  /\ calls = <<>>
  /\ clock = 0

-----------------------------------------------------------------------------
(* mutate(): the call is chained behind the ones made before. *)
Call(op) ==
  /\ Len(calls) < MaxCalls
  /\ op.kind = "add" => op.alts # {} /\ op.name \notin TooLong
  /\ calls' = Append(calls, [op |-> op, phase |-> "chained", copy |-> NoEntry])
  /\ UNCHANGED <<content, loaded, disk, clock>>

(* Mutants: calls are not chained; a rejected call wedges the chain. *)
AnyTurn(i) == TRUE
TurnIfResolved(i) == \A j \in 1..(i - 1) : calls[j].phase \in {"resolved", "lost"}

Turn(i) == \A j \in 1..(i - 1) : calls[j].phase \in Settled

Runs(i, phase) == Turn(i) /\ calls[i].phase = phase

Becomes(i, phase) == calls' = [calls EXCEPT ![i].phase = phase]

(* load(), the first time: a file that is not a cache is set aside, best   *)
(* effort, and reads as empty.                                             *)
Load(i) ==
  /\ Runs(i, "chained") /\ ~loaded
  /\ loaded' = TRUE
  /\ content' = IF disk.file = "valid" THEN disk.entries ELSE NoEntry
  /\ \/ disk.file = "corrupt" /\ disk' = [disk EXCEPT !.file = "missing"]
     \/ disk.file = "corrupt" /\ Failing /\ UNCHANGED disk
     \/ disk.file # "corrupt" /\ UNCHANGED disk
  /\ UNCHANGED <<calls, clock>>

LoadFails(i) ==
  /\ Failing
  /\ Runs(i, "chained") /\ ~loaded
  /\ Becomes(i, "rejected")
  /\ UNCHANGED <<content, loaded, disk, clock>>

-----------------------------------------------------------------------------
(* The names an entry may end up with: as many of those offered as fit,    *)
(* none of those known dropped.                                            *)
Merged(known, offered) ==
  {S \in SUBSET (known \union offered) :
     /\ known \subseteq S
     /\ S # known => Cardinality(S) <= MaxNames
     /\ S # known \union offered => Cardinality(S) >= MaxNames}

(* Mutant: the cached name itself is accepted. *)
OfferedItself(n, alts) == alts \ TooLong

(* What add() keeps of the names it is given. *)
Offered(n, alts) == alts \ ({n} \union TooLong)

(* Mutant: room is made once the bound is passed. *)
RoomForLast(K) == Cardinality(K) <= MaxEntries

RoomFor(K) == Cardinality(K) < MaxEntries

(* evictOldestUntilRoomFor(1): the names that may stay, the oldest gone first. *)
Survivors ==
  {K \in SUBSET DOMAIN content :
     /\ RoomFor(K)
     /\ \A gone \in DOMAIN content \ K :
          /\ ~RoomFor(K \union {gone})
          /\ \A kept \in K : content[gone].at <= content[kept].at}

Put(map, n, entry) == [m \in DOMAIN map \union {n} |-> IF m = n THEN entry ELSE map[m]]
Keep(map, K) == [m \in K |-> map[m]]

NamesOf(n) == IF n \in DOMAIN content THEN content[n].names ELSE {}

(* The new map, if the call changes it: what add() makes of the entry. *)
Added(n, alts) ==
  {Put(Keep(content, K), n, [names |-> S, at |-> clock]) :
     K \in IF n \in DOMAIN content THEN {DOMAIN content} ELSE Survivors,
     S \in Merged(NamesOf(n), Offered(n, alts))}

AddIsNoop(n, alts) ==
  n \in DOMAIN content /\ NamesOf(n) \in Merged(NamesOf(n), Offered(n, alts))

Expired == {n \in DOMAIN content : content[n].at + MaxAge < clock}

Unchanged(op) ==
  CASE op.kind = "init" -> Expired = {}
    [] op.kind = "add" -> AddIsNoop(op.name, op.alts)
    [] op.kind = "remove" -> op.name \notin DOMAIN content

Changed(op) ==
  CASE op.kind = "init" -> {Keep(content, DOMAIN content \ Expired)}
    [] op.kind = "add" -> Added(op.name, op.alts)
    [] op.kind = "remove" -> {Keep(content, DOMAIN content \ {op.name})}

(* The synchronous part of a call: nothing to do, or the map is changed.   *)
Resolve(i) ==
  /\ Runs(i, "chained") /\ loaded
  /\ Unchanged(calls[i].op)
  /\ Becomes(i, "resolved")
  /\ UNCHANGED <<content, loaded, disk, clock>>

Change(i) ==
  /\ Runs(i, "chained") /\ loaded
  /\ ~Unchanged(calls[i].op)
  /\ content' \in Changed(calls[i].op)
  /\ Becomes(i, "changed")
  /\ UNCHANGED <<loaded, disk, clock>>

(* Mutant: the cache file itself is written. *)
WriteBeginsInPlace(i) ==
  /\ calls[i].phase = "changed"
  /\ calls' = [calls EXCEPT ![i].phase = "writing", ![i].copy = content]
  /\ disk' = [file |-> "corrupt", entries |-> NoEntry]
  /\ UNCHANGED <<content, loaded, clock>>

(* persist(), once the directory is made: write a copy of the map to a     *)
(* temporary file, then rename it over the cache file.                     *)
WriteBegins(i) ==
  /\ calls[i].phase = "changed"
  /\ calls' = [calls EXCEPT ![i].phase = "writing", ![i].copy = content]
  /\ UNCHANGED <<content, loaded, disk, clock>>

WriteEnds(i) ==
  /\ calls[i].phase = "writing"
  /\ Becomes(i, "written")
  /\ UNCHANGED <<content, loaded, disk, clock>>

Rename(i) ==
  /\ calls[i].phase = "written"
  /\ disk' = [file |-> "valid", entries |-> calls[i].copy]
  /\ Becomes(i, "resolved")
  /\ UNCHANGED <<content, loaded, clock>>

PersistFails(i) ==
  /\ Failing
  /\ calls[i].phase \in {"changed", "writing", "written"}
  /\ Becomes(i, "rejected")
  /\ UNCHANGED <<content, loaded, disk, clock>>

(* The process is killed, and starts again with nothing loaded. *)
Crash ==
  /\ loaded
  /\ content' = NoEntry /\ loaded' = FALSE
  /\ calls' = [i \in DOMAIN calls |->
                 IF calls[i].phase \in Settled THEN calls[i] ELSE [calls[i] EXCEPT !.phase = "lost"]]
  /\ UNCHANGED <<disk, clock>>

Tick == clock < MaxClock /\ clock' = clock + 1 /\ UNCHANGED <<content, loaded, disk, calls>>

Step(i) ==
  Load(i) \/ LoadFails(i) \/ Resolve(i) \/ Change(i)
    \/ WriteBegins(i) \/ WriteEnds(i) \/ Rename(i) \/ PersistFails(i)

CacheNext ==
  \/ \E op \in Operation : Call(op)
  \/ \E i \in DOMAIN calls : Step(i)
  \/ Crash
  \/ Tick

CacheSpec == CacheInit /\ [][CacheNext]_cacheVars

(* The file system answers every operation, with success or an error. *)
CacheFairness == \A i \in 1..MaxCalls : WF_cacheVars(i \in DOMAIN calls /\ Step(i))
CacheFairSpec == CacheSpec /\ CacheFairness

-----------------------------------------------------------------------------
(* Killed or failing at any point, the process never leaves a file that    *)
(* the next run cannot read where there was one it could (persist()).      *)
FileStaysReadable == [][disk.file = "valid" => disk'.file = "valid"]_cacheVars

(* A call that resolves leaves the file equal to the map in memory: its    *)
(* change, and those of every call before it, are on disk (the docs of     *)
(* add(), remove() and flush()).                                           *)
ResolvedIsOnDisk ==
  [][\A i \in DOMAIN calls :
       calls[i].phase \notin Settled /\ calls'[i].phase = "resolved"
         => disk'.entries = content']_cacheVars

(* A call that wrote the file before it resolved leaves it equal to the    *)
(* map in memory: no change made meanwhile is missing from what it wrote,  *)
(* and the changes of earlier calls that could not write are in it.        *)
WriteMissesNothing ==
  [][\A i \in DOMAIN calls :
       calls[i].phase = "written" /\ calls'[i].phase = "resolved"
         => disk'.entries = content']_cacheVars

(* maxEntries bounds the map and the file, whatever the calls.             *)
Bounded ==
  /\ Cardinality(DOMAIN content) <= MaxEntries
  /\ Cardinality(DOMAIN disk.entries) <= MaxEntries

(* A rejected call does not wedge the chain: the calls made after it, and  *)
(* flush(), which waits for them all, settle.                              *)
EveryCallSettles ==
  \A i \in 1..MaxCalls :
    (i \in DOMAIN calls /\ calls[i].phase = "chained")
      ~> (i \in DOMAIN calls /\ calls[i].phase \in Settled)

=============================================================================
