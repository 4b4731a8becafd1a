---------------------- MODULE AlternateNamesCacheProofs ----------------------
(***************************************************************************)
(* Proofs about AlternateNamesCache, for any set of names, any bounds and  *)
(* any number of calls, failures and crashes; and, at the end, about the   *)
(* run that checks the stream and the cache side by side.                  *)
(***************************************************************************)
EXTENDS MCStreamAndCache, ECTransmissionProofs, FiniteSetTheorems, SequenceTheorems, TLAPS

CallRecord == [op : Operation, phase : Phase, copy : Content]

(* The types, with the fields of the file.                                 *)
CacheTypes ==
  /\ content \in Content
  /\ loaded \in BOOLEAN
  /\ disk \in [file : {"missing", "corrupt", "valid"}, entries : Content]
  /\ calls \in Seq(CallRecord) /\ Len(calls) <= MaxCalls
  /\ clock \in 0..MaxClock

(* Every map there is keeps to the bound: the one in memory, the one on    *)
(* disk and the copies on their way there.                                 *)
Small(map) == IsFiniteSet(DOMAIN map) /\ Cardinality(DOMAIN map) <= MaxEntries

AllSmall ==
  /\ Small(content) /\ Small(disk.entries)
  /\ \A i \in DOMAIN calls : Small(calls[i].copy)

(* writeChain: a call past its turn has no unsettled call before it, and   *)
(* the map it copies does not change under it.                             *)
Active == {"changed", "writing", "written"}

ChainInv ==
  \A i \in DOMAIN calls :
    /\ calls[i].phase \in Active => Turn(i) /\ loaded
    /\ calls[i].phase \in {"writing", "written"} => calls[i].copy = content

CacheInv == CacheTypes /\ AllSmall /\ ChainInv

-----------------------------------------------------------------------------
(* Maps of names.                                                          *)
LEMMA ContentMaps ==
  ASSUME NEW map \in Content
  PROVE  /\ DOMAIN map \in SUBSET Name /\ map \in [DOMAIN map -> Entry]
         /\ \A n \in DOMAIN map : map[n] \in Entry /\ n \notin map[n].names
<1>1. map \in UNION {[D -> Entry] : D \in SUBSET Name} /\ \A n \in DOMAIN map : n \notin map[n].names
  BY DEF Content
<1>2. PICK D \in SUBSET Name : map \in [D -> Entry]
  BY <1>1
<1> QED  BY <1>1, <1>2

LEMMA MapsInContent ==
  ASSUME NEW D \in SUBSET Name, NEW map \in [D -> Entry], \A n \in D : n \notin map[n].names
  PROVE  map \in Content
<1>1. DOMAIN map = D /\ map \in UNION {[E -> Entry] : E \in SUBSET Name}
  OBVIOUS
<1> QED  BY <1>1 DEF Content

LEMMA NoEntryContent == NoEntry \in Content /\ Small(NoEntry)
<1>1. NoEntry \in [{} -> Entry] /\ {} \in SUBSET Name /\ DOMAIN NoEntry = {}
  BY DEF NoEntry
<1>2. NoEntry \in Content
  BY <1>1, MapsInContent
<1>3. IsFiniteSet({}) /\ Cardinality({}) = 0 /\ MaxEntries \in Nat
  BY FS_EmptySet, CacheAssumption
<1> QED  BY <1>1, <1>2, <1>3 DEF Small

LEMMA KeepContent ==
  ASSUME NEW map \in Content, NEW K \in SUBSET DOMAIN map
  PROVE  /\ Keep(map, K) \in Content /\ DOMAIN Keep(map, K) = K
         /\ \A n \in K : Keep(map, K)[n] = map[n]
         /\ Small(map) => Small(Keep(map, K))
<1>1. DOMAIN map \in SUBSET Name /\ \A n \in DOMAIN map : map[n] \in Entry /\ n \notin map[n].names
  BY ContentMaps
<1>2. /\ DOMAIN Keep(map, K) = K /\ Keep(map, K) \in [K -> Entry] /\ K \in SUBSET Name
      /\ \A n \in K : Keep(map, K)[n] = map[n]
  BY <1>1 DEF Keep
<1>3. Keep(map, K) \in Content
  BY <1>1, <1>2, MapsInContent
<1>4. ASSUME Small(map) PROVE Small(Keep(map, K))
  <2>1. IsFiniteSet(K) /\ Cardinality(K) <= Cardinality(DOMAIN map)
        /\ Cardinality(K) \in Nat /\ Cardinality(DOMAIN map) \in Nat
    BY <1>4, FS_Subset, FS_CardinalityType DEF Small
  <2> QED  BY <1>2, <1>4, <2>1, CacheAssumption DEF Small
<1> QED  BY <1>2, <1>3, <1>4

LEMMA PutContent ==
  ASSUME NEW map \in Content, NEW n \in Name, NEW entry \in Entry, n \notin entry.names
  PROVE  Put(map, n, entry) \in Content /\ DOMAIN Put(map, n, entry) = DOMAIN map \union {n}
<1> DEFINE D == DOMAIN map \union {n}
           more == Put(map, n, entry)
<1>1. DOMAIN map \in SUBSET Name /\ \A m \in DOMAIN map : map[m] \in Entry /\ m \notin map[m].names
  BY ContentMaps
<1>2. /\ D \in SUBSET Name /\ DOMAIN more = D
      /\ \A m \in D : more[m] = IF m = n THEN entry ELSE map[m]
  BY <1>1 DEF Put
<1>3. more \in [D -> Entry]
  BY <1>1 DEF Put
<1> HIDE DEF D, more
<1>4. \A m \in D : m \notin more[m].names
  BY <1>1, <1>2 DEF D
<1>5. more \in Content
  BY <1>2, <1>3, <1>4, MapsInContent
<1> QED  BY <1>2, <1>5 DEF D, more

(* What add() makes of the map keeps to the bound: an entry it knows takes *)
(* no room, and a new one takes the room that was made for it.             *)
LEMMA AddedContent ==
  ASSUME CacheTypes, Small(content), NEW n \in Name, NEW alts \in SUBSET Name,
         NEW map \in Added(n, alts)
  PROVE  map \in Content /\ Small(map)
<1>1. PICK K \in (IF n \in DOMAIN content THEN {DOMAIN content} ELSE Survivors),
           S \in Merged(NamesOf(n), Offered(n, alts)) :
        map = Put(Keep(content, K), n, [names |-> S, at |-> clock])
  BY DEF Added
<1> DEFINE entry == [names |-> S, at |-> clock]
<1>2. content \in Content /\ clock \in 0..MaxClock
  BY DEF CacheTypes
<1>3. NamesOf(n) \in SUBSET Name /\ n \notin NamesOf(n)
  BY <1>2, ContentMaps DEF NamesOf, Entry
<1>4. S \in SUBSET Name /\ n \notin S
  BY <1>3 DEF Merged, Offered
<1>5. entry \in Entry /\ n \notin entry.names
  BY <1>2, <1>4 DEF Entry
<1>6. K \in SUBSET DOMAIN content
  BY DEF Survivors
<1>7. Keep(content, K) \in Content /\ DOMAIN Keep(content, K) = K
  BY <1>2, <1>6, KeepContent
<1> HIDE DEF entry
<1>8. map \in Content /\ DOMAIN map = K \union {n}
  BY <1>1, <1>5, <1>7, PutContent DEF entry
<1>9. IsFiniteSet(DOMAIN content) /\ Cardinality(DOMAIN content) <= MaxEntries /\ MaxEntries \in Nat
  BY CacheAssumption DEF Small
<1>10. CASE n \in DOMAIN content
  <2>1. K \union {n} = DOMAIN content
    BY <1>10
  <2> QED  BY <1>8, <1>9, <2>1 DEF Small
<1>11. CASE n \notin DOMAIN content
  <2>1. Cardinality(K) < MaxEntries /\ n \notin K
    BY <1>6, <1>11 DEF Survivors, RoomFor
  <2>2. IsFiniteSet(K) /\ Cardinality(K) \in Nat
    BY <1>6, <1>9, FS_Subset, FS_CardinalityType
  <2>3. IsFiniteSet(K \union {n}) /\ Cardinality(K \union {n}) = Cardinality(K) + 1
    BY <2>1, <2>2, FS_AddElement
  <2> QED  BY <1>8, <1>9, <2>1, <2>2, <2>3 DEF Small
<1> QED  BY <1>10, <1>11

LEMMA ChangedContent ==
  ASSUME CacheTypes, Small(content), NEW op \in Operation, NEW map \in Changed(op)
  PROVE  map \in Content /\ Small(map)
<1>1. content \in Content
  BY DEF CacheTypes
<1>2. CASE op.kind = "init"
  <2>1. map = Keep(content, DOMAIN content \ Expired)
    BY <1>2 DEF Changed
  <2> QED  BY <1>1, <2>1, KeepContent
<1>3. CASE op.kind = "add"
  <2>1. op.name \in Name /\ op.alts \in SUBSET Name
    BY <1>3 DEF Operation
  <2>2. map \in Added(op.name, op.alts)
    BY <1>3 DEF Changed
  <2> QED  BY <2>1, <2>2, AddedContent
<1>4. CASE op.kind = "remove"
  <2>1. map = Keep(content, DOMAIN content \ {op.name})
    BY <1>4 DEF Changed
  <2> QED  BY <1>1, <2>1, KeepContent
<1> QED  BY <1>2, <1>3, <1>4 DEF Operation

-----------------------------------------------------------------------------
(* A call moves on to another phase.                                       *)
LEMMA PhaseMoved ==
  ASSUME NEW list \in Seq(CallRecord), NEW i \in DOMAIN list, NEW phase \in Phase
  PROVE  LET next == [list EXCEPT ![i].phase = phase] IN
         /\ next \in Seq(CallRecord) /\ Len(next) = Len(list) /\ DOMAIN next = DOMAIN list
         /\ next[i].phase = phase /\ next[i].copy = list[i].copy
         /\ \A j \in DOMAIN list : j # i => next[j] = list[j]
<1> DEFINE next == [list EXCEPT ![i].phase = phase]
           one == [list[i] EXCEPT !.phase = phase]
<1>1. list[i] \in CallRecord /\ Len(list) \in Nat /\ DOMAIN list = 1..Len(list)
  BY LenProperties, ElementOfSeq
<1>2. one \in CallRecord /\ one.phase = phase /\ one.copy = list[i].copy
  BY <1>1 DEF CallRecord
<1> HIDE DEF one
<1>3. next = [list EXCEPT ![i] = one]
  BY DEF one
<1>4. /\ next \in Seq(CallRecord) /\ Len(next) = Len(list)
      /\ \A j \in 1..Len(list) : next[j] = IF j = i THEN one ELSE list[j]
  BY <1>1, <1>2, <1>3, ExceptSeq
<1>5. DOMAIN next = 1..Len(list)
  BY <1>4, LenProperties
<1> HIDE DEF next
<1>6. next[i] = one /\ \A j \in DOMAIN list : j # i => next[j] = list[j]
  BY <1>1, <1>4
<1>7. next[i].phase = phase /\ next[i].copy = list[i].copy
  BY <1>2, <1>6
<1> QED  BY <1>1, <1>4, <1>5, <1>6, <1>7 DEF next

(* The calls past their turn: at most one, the others are settled before   *)
(* it or chained behind it.                                                *)
LEMMA OneActive ==
  ASSUME calls \in Seq(CallRecord), ChainInv, NEW i \in DOMAIN calls, NEW j \in DOMAIN calls,
         calls[i].phase \in Active \/ (Turn(i) /\ calls[i].phase = "chained"),
         calls[j].phase \in Active
  PROVE  i = j
<1>1. i \in Nat /\ j \in Nat /\ i \in 1..Len(calls) /\ j \in 1..Len(calls)
  BY LenProperties
<1>2. Turn(i) /\ Turn(j) /\ calls[i].phase \notin Settled /\ calls[j].phase \notin Settled
  BY DEF ChainInv, Active, Settled
<1>3. ~ (i < j)
  <2> SUFFICES ASSUME i < j PROVE FALSE
    OBVIOUS
  <2>1. i \in 1..(j - 1)
    BY <1>1
  <2> QED  BY <1>2, <2>1 DEF Turn
<1>4. ~ (j < i)
  <2> SUFFICES ASSUME j < i PROVE FALSE
    OBVIOUS
  <2>1. j \in 1..(i - 1)
    BY <1>1
  <2> QED  BY <1>2, <2>1 DEF Turn
<1> QED  BY <1>1, <1>3, <1>4

(* A call moves from its turn to another phase: those that are settled     *)
(* stay so, and whoever waits still waits.                                 *)
LEMMA TurnKept ==
  ASSUME calls \in Seq(CallRecord), NEW i \in DOMAIN calls, NEW phase \in Phase,
         calls[i].phase \notin Settled, Becomes(i, phase), NEW j \in DOMAIN calls, Turn(j)
  PROVE  Turn(j)'
<1>1. calls' = [calls EXCEPT ![i].phase = phase]
  BY DEF Becomes
<1>2. \A k \in DOMAIN calls : k # i => calls'[k] = calls[k]
  BY <1>1, PhaseMoved
<1>3. \A k \in 1..(j - 1) : k \in DOMAIN calls
  BY LenProperties
<1> QED  BY <1>2, <1>3 DEF Turn

-----------------------------------------------------------------------------
LEMMA CacheInitInv == CacheInit => CacheInv
<1> SUFFICES ASSUME CacheInit PROVE CacheInv
  OBVIOUS
<1>1. <<>> \in Seq(CallRecord) /\ Len(<<>>) = 0 /\ DOMAIN <<>> = {}
  <2>1. <<>> \in Seq(CallRecord) /\ Len(<<>>) = 0
    BY EmptySeq
  <2> QED  BY <2>1, LenProperties
<1>2. content \in Content /\ Small(content)
  BY NoEntryContent DEF CacheInit
<1>3. ASSUME NEW m \in Name
      PROVE  LET one == [n \in {m} |-> [names |-> Name \ {m}, at |-> 0]] IN
             one \in Content /\ Small(one)
  <2> DEFINE one == [n \in {m} |-> [names |-> Name \ {m}, at |-> 0]]
  <2>1. /\ one \in [{m} -> Entry] /\ {m} \in SUBSET Name /\ DOMAIN one = {m}
        /\ one[m].names = Name \ {m}
    BY CacheAssumption DEF Entry
  <2> HIDE DEF one
  <2>2. one \in Content
    BY <2>1, MapsInContent
  <2>3. IsFiniteSet({m}) /\ Cardinality({m}) = 1
    BY FS_Singleton
  <2>4. Small(one)
    BY <2>1, <2>3, CacheAssumption DEF Small
  <2> QED  BY <2>2, <2>4 DEF one
<1>4. disk \in [file : {"missing", "corrupt", "valid"}, entries : Content] /\ Small(disk.entries)
  <2>1. CASE disk \in {[file |-> "missing", entries |-> NoEntry], [file |-> "corrupt", entries |-> NoEntry]}
    BY <2>1, NoEntryContent
  <2>2. CASE disk \in {[file |-> "valid", entries |-> [n \in {m} |-> [names |-> Name \ {m}, at |-> 0]]] : m \in Name}
    <3>1. PICK m \in Name :
            disk = [file |-> "valid", entries |-> [n \in {m} |-> [names |-> Name \ {m}, at |-> 0]]]
      BY <2>2
    <3> DEFINE one == [n \in {m} |-> [names |-> Name \ {m}, at |-> 0]]
    <3>2. one \in Content /\ Small(one)
      BY <1>3
    <3>3. disk = [file |-> "valid", entries |-> one]
      BY <3>1
    <3> HIDE DEF one
    <3> QED  BY <3>2, <3>3
  <2> QED  BY <2>1, <2>2 DEF CacheInit
<1>5. calls = <<>> /\ loaded = FALSE /\ clock = 0
  BY DEF CacheInit
<1>6. CacheTypes
  <2>1. 0 \in 0..MaxClock /\ 0 <= MaxCalls
    BY CacheAssumption
  <2> QED  BY <1>1, <1>2, <1>4, <1>5, <2>1 DEF CacheTypes
<1>7. AllSmall /\ ChainInv
  BY <1>1, <1>2, <1>4, <1>5 DEF AllSmall, ChainInv
<1> QED  BY <1>6, <1>7 DEF CacheInv

LEMMA CacheCall == CacheInv /\ (\E op \in Operation : Call(op)) => CacheInv'
<1> SUFFICES ASSUME CacheInv, NEW op \in Operation, Call(op) PROVE CacheInv'
  OBVIOUS
<1> DEFINE call == [op |-> op, phase |-> "chained", copy |-> NoEntry]
<1>1. /\ calls' = Append(calls, call) /\ UNCHANGED <<content, loaded, disk, clock>>
      /\ Len(calls) < MaxCalls
  BY DEF Call
<1>2. call \in CallRecord /\ call.phase = "chained" /\ call.copy = NoEntry
  BY NoEntryContent DEF CallRecord, Phase
<1> HIDE DEF call
<1>3. calls \in Seq(CallRecord) /\ Len(calls) \in Nat /\ DOMAIN calls = 1..Len(calls)
  <2>1. calls \in Seq(CallRecord)
    BY DEF CacheInv, CacheTypes
  <2> QED  BY <2>1, LenProperties
<1>4. /\ calls' \in Seq(CallRecord) /\ Len(calls') = Len(calls) + 1
      /\ DOMAIN calls' = 1..(Len(calls) + 1)
      /\ \A i \in DOMAIN calls : calls'[i] = calls[i]
      /\ calls'[Len(calls) + 1] = call
  BY <1>1, <1>2, <1>3, AppendProperties, LenProperties
<1>5. CacheTypes'
  <2>1. Len(calls') <= MaxCalls
    BY <1>1, <1>3, <1>4, CacheAssumption
  <2> QED  BY <1>1, <1>4, <2>1 DEF CacheInv, CacheTypes
<1>6. ASSUME NEW i \in DOMAIN calls'
      PROVE  i \in DOMAIN calls \/ i = Len(calls) + 1
  BY <1>3, <1>4, <1>6
<1>7. AllSmall'
  <2>1. \A i \in DOMAIN calls' : Small(calls'[i].copy)
    BY <1>2, <1>4, <1>6, NoEntryContent DEF CacheInv, AllSmall
  <2> QED  BY <1>1, <2>1 DEF CacheInv, AllSmall, Small
<1>8. ChainInv'
  <2> SUFFICES ASSUME NEW i \in DOMAIN calls'
               PROVE  /\ calls'[i].phase \in Active => Turn(i)' /\ loaded'
                      /\ calls'[i].phase \in {"writing", "written"} => calls'[i].copy = content'
    BY DEF ChainInv
  <2>1. CASE i = Len(calls) + 1
    BY <1>2, <1>4, <2>1 DEF Active
  <2>2. CASE i \in DOMAIN calls
    <3>1. \A j \in 1..(i - 1) : j \in DOMAIN calls /\ calls'[j] = calls[j]
      BY <1>3, <1>4, <2>2
    <3>2. Turn(i) => Turn(i)'
      BY <3>1 DEF Turn
    <3> QED  BY <1>1, <1>4, <2>2, <3>2 DEF CacheInv, ChainInv
  <2> QED  BY <1>6, <2>1, <2>2
<1> QED  BY <1>5, <1>7, <1>8 DEF CacheInv

(* A call moves on without changing the map or what it copied.             *)
LEMMA CacheMoves ==
  ASSUME CacheInv, NEW i \in DOMAIN calls, NEW phase \in Phase, Becomes(i, phase),
         calls[i].phase \notin Settled, UNCHANGED <<content, loaded, clock>>,
         disk' \in [file : {"missing", "corrupt", "valid"}, entries : Content],
         Small(disk'.entries),
         phase \in Active => calls[i].phase \in Active,
         phase \in {"writing", "written"} => calls[i].phase \in {"writing", "written"}
  PROVE  CacheInv'
<1>0. calls \in Seq(CallRecord)
  BY DEF CacheInv, CacheTypes
<1>1. /\ calls' \in Seq(CallRecord) /\ Len(calls') = Len(calls) /\ DOMAIN calls' = DOMAIN calls
      /\ calls'[i].phase = phase /\ calls'[i].copy = calls[i].copy
      /\ \A j \in DOMAIN calls : j # i => calls'[j] = calls[j]
  BY <1>0, PhaseMoved DEF Becomes
<1>2. CacheTypes'
  BY <1>1 DEF CacheInv, CacheTypes
<1>3. AllSmall'
  <2>1. \A j \in DOMAIN calls' : Small(calls'[j].copy)
    BY <1>1 DEF CacheInv, AllSmall
  <2> QED  BY <2>1 DEF CacheInv, AllSmall, Small
<1>4. ChainInv'
  <2> SUFFICES ASSUME NEW j \in DOMAIN calls
               PROVE  /\ calls'[j].phase \in Active => Turn(j)' /\ loaded'
                      /\ calls'[j].phase \in {"writing", "written"} => calls'[j].copy = content'
    BY <1>1 DEF ChainInv
  <2>1. Turn(j) => Turn(j)'
    BY <1>0, TurnKept
  <2> QED  BY <1>1, <2>1 DEF CacheInv, ChainInv
<1> QED  BY <1>2, <1>3, <1>4 DEF CacheInv

LEMMA CacheLoad ==
  ASSUME CacheInv, NEW i \in DOMAIN calls, Load(i)
  PROVE  CacheInv'
<1>1. /\ ~loaded /\ loaded' = TRUE /\ UNCHANGED <<calls, clock>>
      /\ content' \in {disk.entries, NoEntry} /\ disk' \in {disk, [disk EXCEPT !.file = "missing"]}
  BY DEF Load
<1>2. /\ disk \in [file : {"missing", "corrupt", "valid"}, entries : Content]
      /\ Small(disk.entries)
  BY DEF CacheInv, CacheTypes, AllSmall
<1>3. /\ disk' \in [file : {"missing", "corrupt", "valid"}, entries : Content]
      /\ disk'.entries = disk.entries
  BY <1>1, <1>2
<1>4. content' \in Content /\ Small(content')
  BY <1>1, <1>2, NoEntryContent
<1>5. CacheTypes'
  BY <1>1, <1>3, <1>4 DEF CacheInv, CacheTypes
<1>6. AllSmall'
  BY <1>1, <1>2, <1>3, <1>4 DEF CacheInv, AllSmall, Small
<1>7. \A j \in DOMAIN calls : calls[j].phase \notin Active
  BY <1>1 DEF CacheInv, ChainInv
<1>8. ChainInv'
  BY <1>1, <1>7 DEF ChainInv, Active
<1> QED  BY <1>5, <1>6, <1>8 DEF CacheInv

(* It is the turn of one call only to change the map.                      *)
LEMMA CacheChange ==
  ASSUME CacheInv, NEW i \in DOMAIN calls, Change(i)
  PROVE  CacheInv'
<1>0. calls \in Seq(CallRecord) /\ calls[i] \in CallRecord
  <2>1. calls \in Seq(CallRecord)
    BY DEF CacheInv, CacheTypes
  <2> QED  BY <2>1, LenProperties, ElementOfSeq
<1>1. /\ Turn(i) /\ calls[i].phase = "chained" /\ loaded /\ Becomes(i, "changed")
      /\ content' \in Changed(calls[i].op) /\ UNCHANGED <<loaded, disk, clock>>
  BY DEF Change, Runs
<1>2. /\ calls' \in Seq(CallRecord) /\ Len(calls') = Len(calls) /\ DOMAIN calls' = DOMAIN calls
      /\ calls'[i].phase = "changed" /\ calls'[i].copy = calls[i].copy
      /\ \A j \in DOMAIN calls : j # i => calls'[j] = calls[j]
  <2>1. "changed" \in Phase
    BY DEF Phase
  <2> QED  BY <1>0, <1>1, <2>1, PhaseMoved DEF Becomes
<1>3. content' \in Content /\ Small(content')
  <2>1. calls[i].op \in Operation /\ CacheTypes /\ Small(content)
    BY <1>0 DEF CallRecord, CacheInv, AllSmall
  <2>2. PICK map \in Changed(calls[i].op) : content' = map
    BY <1>1
  <2> QED  BY <2>1, <2>2, ChangedContent
<1>4. CacheTypes'
  BY <1>1, <1>2, <1>3 DEF CacheInv, CacheTypes
<1>5. AllSmall'
  <2>1. \A j \in DOMAIN calls' : Small(calls'[j].copy)
    BY <1>2 DEF CacheInv, AllSmall
  <2> QED  BY <1>1, <1>3, <2>1 DEF CacheInv, AllSmall, Small
<1>6. ASSUME NEW j \in DOMAIN calls, j # i PROVE calls'[j].phase \notin Active
  BY <1>0, <1>1, <1>2, <1>6, OneActive DEF CacheInv
<1>7. ChainInv'
  <2>1. Turn(i)'
    <3>1. calls[i].phase \notin Settled /\ "changed" \in Phase
      BY <1>1 DEF Settled, Phase
    <3> QED  BY <1>0, <1>1, <3>1, TurnKept
  <2> QED  BY <1>1, <1>2, <1>6, <2>1 DEF ChainInv, Active
<1> QED  BY <1>4, <1>5, <1>7 DEF CacheInv

LEMMA CacheWriteBegins ==
  ASSUME CacheInv, NEW i \in DOMAIN calls, WriteBegins(i)
  PROVE  CacheInv'
<1> DEFINE one == [calls[i] EXCEPT !.phase = "writing", !.copy = content]
<1>0. /\ calls \in Seq(CallRecord) /\ calls[i] \in CallRecord /\ content \in Content
      /\ Len(calls) \in Nat /\ DOMAIN calls = 1..Len(calls)
  <2>1. calls \in Seq(CallRecord) /\ content \in Content
    BY DEF CacheInv, CacheTypes
  <2> QED  BY <2>1, LenProperties, ElementOfSeq
<1>1. /\ calls[i].phase = "changed" /\ UNCHANGED <<content, loaded, disk, clock>>
      /\ calls' = [calls EXCEPT ![i].phase = "writing", ![i].copy = content]
  BY DEF WriteBegins
<1>2. one \in CallRecord /\ one.phase = "writing" /\ one.copy = content
  BY <1>0 DEF CallRecord, Phase
<1>3. calls' = [calls EXCEPT ![i] = one]
  BY <1>0, <1>1
<1> HIDE DEF one
<1>4. /\ calls' \in Seq(CallRecord) /\ Len(calls') = Len(calls)
      /\ \A j \in 1..Len(calls) : calls'[j] = IF j = i THEN one ELSE calls[j]
  BY <1>0, <1>2, <1>3, ExceptSeq
<1>5. /\ DOMAIN calls' = DOMAIN calls /\ calls'[i] = one
      /\ \A j \in DOMAIN calls : j # i => calls'[j] = calls[j]
  BY <1>0, <1>4, LenProperties
<1>6. CacheTypes'
  BY <1>1, <1>4 DEF CacheInv, CacheTypes
<1>7. AllSmall'
  <2>1. \A j \in DOMAIN calls' : Small(calls'[j].copy)
    BY <1>2, <1>5 DEF CacheInv, AllSmall
  <2> QED  BY <1>1, <2>1 DEF CacheInv, AllSmall, Small
<1>8. ChainInv'
  <2> SUFFICES ASSUME NEW j \in DOMAIN calls
               PROVE  /\ calls'[j].phase \in Active => Turn(j)' /\ loaded'
                      /\ calls'[j].phase \in {"writing", "written"} => calls'[j].copy = content'
    BY <1>5 DEF ChainInv
  <2>1. Turn(j) => Turn(j)'
    <3>1. \A k \in 1..(j - 1) : k \in DOMAIN calls
      BY <1>0
    <3>2. calls[i].phase \notin Settled
      BY <1>1 DEF Settled
    <3> QED  BY <1>5, <3>1, <3>2 DEF Turn
  <2>2. calls[i].phase \in Active
    BY <1>1 DEF Active
  <2> QED  BY <1>1, <1>2, <1>5, <2>1, <2>2 DEF CacheInv, ChainInv
<1> QED  BY <1>6, <1>7, <1>8 DEF CacheInv

LEMMA CacheCrash == CacheInv /\ Crash => CacheInv'
<1> SUFFICES ASSUME CacheInv, Crash PROVE CacheInv'
  OBVIOUS
<1> DEFINE lost(i) == IF calls[i].phase \in Settled THEN calls[i] ELSE [calls[i] EXCEPT !.phase = "lost"]
<1>1. /\ content' = NoEntry /\ loaded' = FALSE /\ UNCHANGED <<disk, clock>>
      /\ calls' = [i \in DOMAIN calls |-> lost(i)]
  BY DEF Crash
<1>2. calls \in Seq(CallRecord) /\ Len(calls) \in Nat /\ DOMAIN calls = 1..Len(calls)
  <2>1. calls \in Seq(CallRecord)
    BY DEF CacheInv, CacheTypes
  <2> QED  BY <2>1, LenProperties
<1>3. ASSUME NEW i \in DOMAIN calls
      PROVE  /\ lost(i) \in CallRecord /\ lost(i).phase \in Settled
             /\ lost(i).copy = calls[i].copy
  <2>1. calls[i] \in CallRecord
    BY <1>2, ElementOfSeq
  <2>2. CASE calls[i].phase \in Settled
    BY <2>1, <2>2
  <2>3. CASE calls[i].phase \notin Settled
    <3>1. lost(i) = [calls[i] EXCEPT !.phase = "lost"]
      BY <2>3
    <3> QED  BY <2>1, <3>1 DEF CallRecord, Phase, Settled
  <2> QED  BY <2>2, <2>3
<1> HIDE DEF lost
<1>4. /\ calls' \in Seq(CallRecord) /\ Len(calls') = Len(calls) /\ DOMAIN calls' = DOMAIN calls
      /\ \A i \in DOMAIN calls : calls'[i] = lost(i)
  <2>1. calls' \in [1..Len(calls) -> CallRecord]
    BY <1>1, <1>2, <1>3
  <2>2. calls' \in Seq(CallRecord)
    BY <1>2, <2>1, SeqDef
  <2>3. Len(calls') = Len(calls)
    BY <1>2, <2>1, <2>2, LenProperties
  <2> QED  BY <1>1, <2>2, <2>3
<1>5. CacheTypes'
  BY <1>1, <1>4, NoEntryContent DEF CacheInv, CacheTypes
<1>6. AllSmall'
  <2>1. \A i \in DOMAIN calls' : Small(calls'[i].copy)
    BY <1>3, <1>4 DEF CacheInv, AllSmall
  <2> QED  BY <1>1, <2>1, NoEntryContent DEF CacheInv, AllSmall, Small
<1>7. ChainInv'
  BY <1>3, <1>4 DEF ChainInv, Active, Settled
<1> QED  BY <1>5, <1>6, <1>7 DEF CacheInv

LEMMA CacheStep == CacheInv /\ [CacheNext]_cacheVars => CacheInv'
<1> SUFFICES ASSUME CacheInv, [CacheNext]_cacheVars PROVE CacheInv'
  OBVIOUS
<1>1. CASE \E op \in Operation : Call(op)
  BY <1>1, CacheCall
<1>2. ASSUME NEW i \in DOMAIN calls, Step(i) PROVE CacheInv'
  <2>0. /\ disk \in [file : {"missing", "corrupt", "valid"}, entries : Content] /\ Small(disk.entries)
        /\ calls \in Seq(CallRecord) /\ \A j \in DOMAIN calls : Small(calls[j].copy)
        /\ {"rejected", "resolved", "written"} \subseteq Phase
    BY DEF CacheInv, CacheTypes, AllSmall, Phase, Settled
  <2>1. CASE Load(i)
    BY <2>1, CacheLoad
  <2>2. CASE LoadFails(i)
    BY <2>0, <2>2, CacheMoves DEF LoadFails, Runs, Settled, Active
  <2>3. CASE Resolve(i)
    BY <2>0, <2>3, CacheMoves DEF Resolve, Runs, Settled, Active
  <2>4. CASE Change(i)
    BY <2>4, CacheChange
  <2>5. CASE WriteBegins(i)
    BY <2>5, CacheWriteBegins
  <2>6. CASE WriteEnds(i)
    BY <2>0, <2>6, CacheMoves DEF WriteEnds, Settled, Active
  <2>7. CASE Rename(i)
    <3>1. calls[i] \in CallRecord
      BY <2>0, LenProperties, ElementOfSeq
    <3>2. /\ disk' = [file |-> "valid", entries |-> calls[i].copy] /\ Becomes(i, "resolved")
          /\ calls[i].phase = "written" /\ UNCHANGED <<content, loaded, clock>>
      BY <2>7 DEF Rename
    <3>3. disk' \in [file : {"missing", "corrupt", "valid"}, entries : Content] /\ Small(disk'.entries)
      BY <2>0, <3>1, <3>2 DEF CallRecord
    <3> QED  BY <2>0, <3>2, <3>3, CacheMoves DEF Settled, Active
  <2>8. CASE PersistFails(i)
    BY <2>0, <2>8, CacheMoves DEF PersistFails, Settled, Active
  <2> QED  BY <1>2, <2>1, <2>2, <2>3, <2>4, <2>5, <2>6, <2>7, <2>8 DEF Step
<1>3. CASE Crash
  BY <1>3, CacheCrash
<1>4. CASE Tick
  <2>1. clock' \in 0..MaxClock /\ UNCHANGED <<content, loaded, disk, calls>>
    BY <1>4, CacheAssumption DEF Tick, CacheInv, CacheTypes
  <2> QED  BY <2>1 DEF CacheInv, CacheTypes, AllSmall, ChainInv, Turn
<1>5. CASE UNCHANGED cacheVars
  BY <1>5 DEF cacheVars, CacheInv, CacheTypes, AllSmall, ChainInv, Turn
<1> QED  BY <1>1, <1>2, <1>3, <1>4, <1>5 DEF CacheNext

-----------------------------------------------------------------------------
(* The types of the cache, the calls chained on it and its file.           *)
THEOREM CacheTypeCorrect == CacheSpec => []CacheTypeOK
<1>1. CacheInv => CacheTypeOK
  <2> SUFFICES ASSUME CacheTypes PROVE CacheTypeOK
    BY DEF CacheInv
  <2>1. \A i \in DOMAIN calls : calls[i] \in CallRecord
    BY LenProperties, ElementOfSeq DEF CacheTypes
  <2>2. \A i \in DOMAIN calls :
          calls[i].op \in Operation /\ calls[i].phase \in Phase /\ calls[i].copy \in Content
    BY <2>1 DEF CallRecord
  <2> QED  BY <2>2 DEF CacheTypes, CacheTypeOK
<1> QED  BY <1>1, CacheInitInv, CacheStep, PTL DEF CacheSpec

(* maxEntries bounds the map in memory and the file, whatever is added,    *)
(* removed, lost or reloaded (evictOldestUntilRoomFor()).                  *)
THEOREM CacheStaysBounded == CacheSpec => []Bounded
<1>1. CacheInv => Bounded
  BY DEF CacheInv, AllSmall, Small, Bounded
<1> QED  BY <1>1, CacheInitInv, CacheStep, PTL DEF CacheSpec

(* A file the next run can read is only ever replaced by another one,      *)
(* wherever the process is killed or a write fails (persist()).            *)
THEOREM FileIsNeverDamaged == CacheSpec => FileStaysReadable
<1>1. [CacheNext]_cacheVars => [disk.file = "valid" => disk'.file = "valid"]_cacheVars
  <2> SUFFICES ASSUME [CacheNext]_cacheVars, disk.file = "valid" PROVE disk'.file = "valid"
    BY DEF cacheVars
  <2>1. CASE \E op \in Operation : Call(op)
    BY <2>1 DEF Call
  <2>2. ASSUME NEW i \in DOMAIN calls, Step(i) PROVE disk'.file = "valid"
    BY <2>2 DEF Step, Load, LoadFails, Resolve, Change, WriteBegins, WriteEnds, Rename, PersistFails
  <2>3. CASE Crash \/ Tick \/ UNCHANGED cacheVars
    BY <2>3 DEF Crash, Tick, cacheVars
  <2> QED  BY <2>1, <2>2, <2>3 DEF CacheNext
<1> QED  BY <1>1, PTL DEF CacheSpec, FileStaysReadable

(* What a call writes is the map as it is when the call resolves: calls    *)
(* run one at a time (mutate()), so none changes the map between the copy  *)
(* and the rename, and what earlier calls could not write is in it.        *)
THEOREM WritesAreCurrent == CacheSpec => WriteMissesNothing
<1> DEFINE Written ==
      \A i \in DOMAIN calls :
        calls[i].phase = "written" /\ calls'[i].phase = "resolved" => disk'.entries = content'
<1>1. CacheInv /\ [CacheNext]_cacheVars => [Written]_cacheVars
  <2> SUFFICES ASSUME CacheInv, CacheNext, NEW i \in DOMAIN calls,
                      calls[i].phase = "written", calls'[i].phase = "resolved"
               PROVE  disk'.entries = content'
    OBVIOUS
  <2>0. calls \in Seq(CallRecord) /\ {"rejected", "resolved", "written", "changed"} \subseteq Phase
    BY DEF CacheInv, CacheTypes, Phase, Settled
  <2>1. CASE \E op \in Operation : Call(op)
    <3>1. PICK op \in Operation : Call(op)
      BY <2>1
    <3>2. calls' = Append(calls, [op |-> op, phase |-> "chained", copy |-> NoEntry])
      BY <3>1 DEF Call
    <3>3. [op |-> op, phase |-> "chained", copy |-> NoEntry] \in CallRecord
      BY NoEntryContent DEF CallRecord, Phase
    <3>4. calls'[i] = calls[i]
      BY <2>0, <3>2, <3>3, AppendProperties, LenProperties
    <3> QED  BY <3>4
  <2>2. ASSUME NEW j \in DOMAIN calls, Step(j) PROVE disk'.entries = content'
    <3>1. CASE j = i
      <4>1. Rename(i)
        BY <2>0, <2>2, <3>1, PhaseMoved
          DEF Step, Load, LoadFails, Resolve, Change, WriteBegins, WriteEnds, Rename, PersistFails,
              Runs, Becomes
      <4> QED  BY <4>1 DEF Rename, CacheInv, ChainInv
    <3>2. CASE j # i
      <4>1. calls'[i] = calls[i]
        BY <2>0, <2>2, <3>2, PhaseMoved
          DEF Step, Load, LoadFails, Resolve, Change, WriteBegins, WriteEnds, Rename, PersistFails,
              Becomes
      <4> QED  BY <4>1
    <3> QED  BY <3>1, <3>2
  <2>3. CASE Crash
    <3>1. calls[i] \in CallRecord
      BY <2>0, LenProperties, ElementOfSeq
    <3>2. calls'[i] = [calls[i] EXCEPT !.phase = "lost"]
      BY <2>3 DEF Crash, Settled
    <3>3. calls'[i].phase = "lost"
      BY <3>1, <3>2 DEF CallRecord
    <3> QED  BY <3>3
  <2>4. CASE Tick
    BY <2>4 DEF Tick
  <2> QED  BY <2>1, <2>2, <2>3, <2>4 DEF CacheNext
<1> QED  BY <1>1, CacheInitInv, CacheStep, PTL DEF CacheSpec, WriteMissesNothing

-----------------------------------------------------------------------------
(* The stream and the cache side by side: of the two the active one takes  *)
(* its own steps and the other none.                                       *)
sideVars == <<active, streamVars, cacheVars>>

LEMMA OneSideSteps ==
  ASSUME [Next]_sideVars
  PROVE  [StreamNext]_streamVars /\ [CacheNext]_cacheVars
<1>1. CASE UNCHANGED sideVars
  BY <1>1 DEF sideVars
<1>2. CASE Next
  BY <1>2, Zenon DEF Next
<1> QED  BY <1>1, <1>2

(* Whatever a theorem says of either specification, its fairness included, *)
(* holds in the run of the two: ECConnection.ts and AlternateNamesCache.ts *)
(* share nothing.                                                          *)
THEOREM SidesGoAlone == Spec => StreamSpec /\ CacheFairSpec
<1>1. Init => StreamInit /\ CacheInit
  BY DEF Init
<1>2. Spec => Init /\ [][Next]_sideVars /\ StreamFairness /\ CacheFairness
  BY DEF Spec, sideVars
<1> QED  BY <1>1, <1>2, OneSideSteps, PTL DEF StreamSpec, CacheFairSpec, CacheSpec

(* Both keep their types, for any of their constants.                      *)
THEOREM StreamAndCacheTypeCorrect == Spec => []TypeOK
<1>1. StreamTypeOK /\ CacheTypeOK => TypeOK
  BY DEF TypeOK
<1> QED
  BY <1>1, SidesGoAlone, StreamTypeCorrect, CacheTypeCorrect, PTL DEF CacheFairSpec
=============================================================================
