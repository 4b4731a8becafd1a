---------------------------- MODULE ClientProofs ----------------------------
(***************************************************************************)
(* Proofs about the exchanges that are a request and its answer: Services, *)
(* for any number of calls and connections, and Preferences, for any       *)
(* number of callers and edits; and, at the end, the client as a whole,    *)
(* whose theorems rest on those of MirrorProofs and ViewsProofs too.       *)
(***************************************************************************)
EXTENDS MCClient, MirrorProofs, ViewsProofs, SequenceTheorems, TLAPS

-----------------------------------------------------------------------------
(* The table of methods: none that changes something sends an opcode of    *)
(* the read-only list.                                                     *)
Harmless(method) == method.opcode \in ReadOnlyOpcodes => ~method.changes

Changing ==
  {"PARTFILE_DELETE", "RENAME_FILE", "PARTFILE_PAUSE", "PARTFILE_RESUME",
   "PARTFILE_STOP", "PARTFILE_SWAP_A4AF_THIS", "PARTFILE_SWAP_A4AF_THIS_AUTO",
   "PARTFILE_SWAP_A4AF_OTHERS", "PARTFILE_SET_CAT", "PARTFILE_SET_A4AF_AUTO",
   "PARTFILE_PRIO_SET", "ADD_LINK", "CLEAR_COMPLETED", "SHAREDFILES_RELOAD",
   "SHARED_SET_PRIO", "SHARED_FILE_SET_COMMENT", "SHARED_FILE_SEARCH_KAD_NOTES",
   "VERIFY_LOCAL_DATA", "REFRESH_MEDIA_METADATA", "SET_SHARED_DIRS", "SERVER_CONNECT",
   "SERVER_REMOVE", "SERVER_ADD", "SERVER_UPDATE_FROM_URL", "SERVER_DISCONNECT",
   "SERVER_SET_STATIC_PRIO", "CLEAR_SERVERINFO", "KAD_START", "KAD_STOP",
   "KAD_UPDATE_FROM_URL", "KAD_BOOTSTRAP_FROM_IP", "CONNECT", "DISCONNECT",
   "CREATE_CATEGORY", "UPDATE_CATEGORY", "DELETE_CATEGORY", "RESET_LOG", "ADDLOGLINE",
   "RESET_DEBUGLOG", "ADDDEBUGLOGLINE", "CLIENT_SWAP_TO_ANOTHER_FILE",
   "IPFILTER_RELOAD", "IPFILTER_UPDATE", "FRIEND", "VERSION_CHECK",
   "DOWNLOAD_SEARCH_RESULT"}

LEMMA ChangingIsNotReadOnly == \A opcode \in Changing : opcode \notin ReadOnlyOpcodes
BY DEF Changing, ReadOnlyOpcodes

LEMMA FetchIsHarmless ==
  ASSUME NEW opcode, NEW reply
  PROVE  /\ Harmless(Fetch(opcode, reply)) /\ Harmless(WithArguments(Fetch(opcode, reply)))
         /\ \A replies : Harmless(Accepting(WithArguments(Fetch(opcode, reply)), replies))
         /\ \A capability : Harmless(Needing(Fetch(opcode, reply), capability))
         /\ \A capability : Harmless(Needing(WithArguments(Fetch(opcode, reply)), capability))
BY DEF Fetch, Needing, WithArguments, Accepting, Harmless

LEMMA OrderIsHarmless ==
  ASSUME NEW opcode \in Changing
  PROVE  /\ Harmless(Order(opcode)) /\ Harmless(Command(opcode))
         /\ Harmless(MayDoPartly(Command(opcode)))
         /\ \A replies : Harmless(Accepting(Order(opcode), replies))
         /\ \A replies : Harmless(Accepting(Command(opcode), replies))
         /\ \A replies, capability :
              Harmless(Needing(Accepting(Command(opcode), replies), capability))
<1>1. /\ Order(opcode).opcode = opcode /\ Command(opcode).opcode = opcode
      /\ MayDoPartly(Command(opcode)).opcode = opcode
      /\ \A replies : /\ Accepting(Order(opcode), replies).opcode = opcode
                      /\ Accepting(Command(opcode), replies).opcode = opcode
      /\ \A replies, capability :
           Needing(Accepting(Command(opcode), replies), capability).opcode = opcode
  BY DEF Order, Command, WithArguments, MayDoPartly, Needing, Accepting, Fetch
<1> QED  BY <1>1, ChangingIsNotReadOnly DEF Harmless

LEMMA MethodsAreHarmless == \A method \in Methods : Harmless(method)
<1> SUFFICES ASSUME NEW table \in Tables, NEW name \in DOMAIN table
             PROVE  Harmless(table[name])
  BY DEF Methods
<1>1. CASE table = DownloadsMethods
  BY <1>1, FetchIsHarmless, OrderIsHarmless DEF DownloadsMethods, Changing
<1>2. CASE table = PartFileSettings
  BY <1>2, FetchIsHarmless, OrderIsHarmless DEF PartFileSettings, Changing
<1>3. CASE table = SharedFilesMethods
  BY <1>3, FetchIsHarmless, OrderIsHarmless DEF SharedFilesMethods, Changing
<1>4. CASE table = SharedFilesUpkeep
  BY <1>4, FetchIsHarmless, OrderIsHarmless DEF SharedFilesUpkeep, Changing
<1>5. CASE table = ServersMethods
  BY <1>5, FetchIsHarmless, OrderIsHarmless DEF ServersMethods, Changing
<1>6. CASE table = ServersUpkeep
  BY <1>6, FetchIsHarmless, OrderIsHarmless DEF ServersUpkeep, Changing
<1>7. CASE table = KadMethods
  BY <1>7, FetchIsHarmless, OrderIsHarmless DEF KadMethods, Changing
<1>8. CASE table = CategoriesMethods
  BY <1>8, FetchIsHarmless, OrderIsHarmless DEF CategoriesMethods, Changing
<1>9. CASE table = ListCategories
  BY <1>9, FetchIsHarmless, OrderIsHarmless DEF ListCategories, Changing
<1>10. CASE table = LogMethods
  BY <1>10, FetchIsHarmless, OrderIsHarmless DEF LogMethods, Changing
<1>11. CASE table = DebugLogMethods
  BY <1>11, FetchIsHarmless, OrderIsHarmless DEF DebugLogMethods, Changing
<1>12. CASE table = UploadsMethods
  BY <1>12, FetchIsHarmless, OrderIsHarmless DEF UploadsMethods, Changing
<1>13. CASE table = ClientHistoryMethods
  BY <1>13, FetchIsHarmless, OrderIsHarmless DEF ClientHistoryMethods, Changing
<1>14. CASE table = StatsGraphsMethods
  BY <1>14, FetchIsHarmless DEF StatsGraphsMethods
<1>15. CASE table = StatsTreeMethods
  BY <1>15, FetchIsHarmless, OrderIsHarmless DEF StatsTreeMethods, Changing
<1>16. CASE table = IPFilterMethods
  BY <1>16, FetchIsHarmless, OrderIsHarmless DEF IPFilterMethods, Changing
<1>17. CASE table = FriendsMethods
  BY <1>17, FetchIsHarmless, OrderIsHarmless DEF FriendsMethods, Changing
<1>18. CASE table = FriendsOthers
  BY <1>18, FetchIsHarmless, OrderIsHarmless DEF FriendsOthers, Changing
<1>19. CASE table = CheckVersion
  BY <1>19, FetchIsHarmless, OrderIsHarmless DEF CheckVersion, Changing
<1>20. CASE table = SearchProgress
  BY <1>20, FetchIsHarmless, OrderIsHarmless DEF SearchProgress, Changing
<1>21. CASE table = SearchDownload
  BY <1>21, FetchIsHarmless, OrderIsHarmless DEF SearchDownload, Changing
<1>22. CASE table = SearchList
  BY <1>22, FetchIsHarmless, OrderIsHarmless DEF SearchList, Changing
<1> QED
  BY <1>1, <1>2, <1>3, <1>4, <1>5, <1>6, <1>7, <1>8, <1>9, <1>10, <1>11,
     <1>12, <1>13, <1>14, <1>15, <1>16, <1>17, <1>18, <1>19, <1>20, <1>21, <1>22 DEF Tables

-----------------------------------------------------------------------------
(* What every step leaves well formed.                                     *)
States == {"queued", "sent", "resolved", "failed"}
CallRecords == [method : Methods, done : Nat, at : States]

Formed ==
  /\ calls \in Seq(CallRecords) /\ outbound \in Seq(Nat)
  /\ readOnly \in BOOLEAN /\ shutDown \in BOOLEAN
  /\ \A i \in DOMAIN outbound : outbound[i] # 0 => outbound[i] \in DOMAIN calls

(* Calls that moved on are the same calls.                                 *)
SameCalls ==
  /\ calls' \in Seq(CallRecords) /\ DOMAIN calls' = DOMAIN calls
  /\ \A n \in DOMAIN calls : calls'[n].method = calls[n].method

LEMMA CallFields ==
  ASSUME Formed, NEW n \in DOMAIN calls
  PROVE  calls[n] \in CallRecords /\ n \in Nat /\ n # 0
BY LenProperties, ElementOfSeq DEF Formed

LEMMA OneCallMoves ==
  ASSUME Formed, NEW n \in DOMAIN calls, NEW c \in CallRecords,
         c.method = calls[n].method, calls' = [calls EXCEPT ![n] = c]
  PROVE  SameCalls
<1>1. n \in 1..Len(calls)  BY LenProperties DEF Formed
<1>2. calls' \in Seq(CallRecords) /\ Len(calls') = Len(calls)
  BY <1>1, ExceptSeq DEF Formed
<1> QED  BY <1>1, <1>2, LenProperties DEF SameCalls, Formed

LEMMA AllCallsMove ==
  ASSUME Formed, NEW f \in [DOMAIN calls -> CallRecords], calls' = f,
         \A n \in DOMAIN calls : f[n].method = calls[n].method
  PROVE  SameCalls
<1>1. DOMAIN calls = 1..Len(calls) /\ Len(calls) \in Nat  BY LenProperties DEF Formed
<1>2. f \in Seq(CallRecords)  BY <1>1, SeqDef
<1> QED  BY <1>1, <1>2 DEF SameCalls

LEMMA NoneMoved ==
  ASSUME Formed, UNCHANGED calls
  PROVE  SameCalls
BY DEF SameCalls, Formed

LEMMA SentForward ==
  ASSUME Formed, NEW n \in DOMAIN calls, calls' = [calls EXCEPT ![n].at = "sent"]
  PROVE  SameCalls /\ \A m \in DOMAIN calls : calls'[m].done = calls[m].done
<1> DEFINE c == [calls[n] EXCEPT !.at = "sent"]
<1>1. calls[n] \in CallRecords  BY CallFields
<1>2. c \in CallRecords /\ c.method = calls[n].method /\ c.done = calls[n].done
  BY <1>1 DEF CallRecords, States
<1>3. calls' = [calls EXCEPT ![n] = c]  OBVIOUS
<1>4. SameCalls  BY <1>2, <1>3, OneCallMoves
<1> QED  BY <1>2, <1>3, <1>4 DEF Formed

LEMMA FailedBeforeSent ==
  ASSUME Formed, NEW n \in DOMAIN calls, calls' = [calls EXCEPT ![n].at = "failed"]
  PROVE  SameCalls /\ \A m \in DOMAIN calls : calls'[m].done = calls[m].done
<1> DEFINE c == [calls[n] EXCEPT !.at = "failed"]
<1>1. calls[n] \in CallRecords  BY CallFields
<1>2. c \in CallRecords /\ c.method = calls[n].method /\ c.done = calls[n].done
  BY <1>1 DEF CallRecords, States
<1>3. calls' = [calls EXCEPT ![n] = c]  OBVIOUS
<1>4. SameCalls  BY <1>2, <1>3, OneCallMoves
<1> QED  BY <1>2, <1>3, <1>4 DEF Formed

LEMMA CarriedOut ==
  ASSUME Formed, NEW n \in DOMAIN calls, calls' = [calls EXCEPT ![n].done = @ + 1]
  PROVE  /\ SameCalls /\ calls'[n].done = calls[n].done + 1
         /\ \A m \in DOMAIN calls : calls'[m].at = calls[m].at
         /\ \A m \in DOMAIN calls \ {n} : calls'[m] = calls[m]
<1> DEFINE c == [calls[n] EXCEPT !.done = @ + 1]
<1>1. calls[n] \in CallRecords  BY CallFields
<1>2. c \in CallRecords /\ c.method = calls[n].method /\ c.at = calls[n].at /\ c.done = calls[n].done + 1
  BY <1>1 DEF CallRecords, States
<1>3. calls' = [calls EXCEPT ![n] = c]  OBVIOUS
<1>4. SameCalls  BY <1>2, <1>3, OneCallMoves
<1> QED  BY <1>2, <1>3, <1>4 DEF Formed

LEMMA ReplyMoves ==
  ASSUME Formed, ReplyArrives
  PROVE  /\ SameCalls
         /\ \A n \in DOMAIN calls :
              /\ calls'[n].done = calls[n].done
              /\ n \notin Sent => calls'[n] = calls[n]
              /\ n \in Sent => calls'[n].at = IF Accepts(calls[n].method, Head(inbound))
                                              THEN "resolved" ELSE "failed"
<1> DEFINE now(n) == IF Accepts(calls[n].method, Head(inbound)) THEN "resolved" ELSE "failed"
           f == [n \in DOMAIN calls |->
                  IF n \notin Sent THEN calls[n] ELSE [calls[n] EXCEPT !.at = now(n)]]
<1>1. calls' = f  BY DEF ReplyArrives
<1>2. ASSUME NEW n \in DOMAIN calls
      PROVE  /\ f[n] \in CallRecords /\ f[n].method = calls[n].method /\ f[n].done = calls[n].done
             /\ n \notin Sent => f[n] = calls[n]
             /\ n \in Sent => f[n].at = now(n)
  <2>1. calls[n] \in CallRecords  BY CallFields
  <2>2. now(n) \in States  BY DEF States
  <2> HIDE DEF now
  <2> QED  BY <2>1, <2>2 DEF CallRecords
<1>3. f \in [DOMAIN calls -> CallRecords]  BY <1>2
<1> HIDE DEF f, now
<1>4. SameCalls  BY <1>1, <1>2, <1>3, AllCallsMove
<1> QED  BY <1>1, <1>2, <1>4 DEF now

LEMMA LossMoves ==
  ASSUME Formed, calls' = Rejected
  PROVE  /\ SameCalls
         /\ \A n \in DOMAIN calls :
              /\ calls'[n].done = calls[n].done
              /\ n \notin Sent \union Queued => calls'[n] = calls[n]
              /\ n \in Sent \union Queued => calls'[n].at = "failed"
<1>1. ASSUME NEW n \in DOMAIN calls
      PROVE  /\ Rejected[n] \in CallRecords /\ Rejected[n].method = calls[n].method
             /\ Rejected[n].done = calls[n].done
             /\ n \notin Sent \union Queued => Rejected[n] = calls[n]
             /\ n \in Sent \union Queued => Rejected[n].at = "failed"
  BY CallFields DEF Rejected, CallRecords, States
<1>2. Rejected \in [DOMAIN calls -> CallRecords]  BY <1>1 DEF Rejected
<1>3. SameCalls  BY <1>1, <1>2, AllCallsMove
<1> QED  BY <1>1, <1>3

LEMMA CallAdds ==
  ASSUME Formed, NEW method \in Methods, CallMethod(method)
  PROVE  \E c \in CallRecords :
           /\ calls' = Append(calls, c) /\ c.done = 0 /\ c.at \in {"queued", "failed"}
           /\ calls' \in Seq(CallRecords) /\ calls' # <<>>
           /\ DOMAIN calls' = DOMAIN calls \union {Len(calls) + 1}
           /\ \A n \in DOMAIN calls : calls'[n] = calls[n]
           /\ calls'[Len(calls) + 1] = c /\ Len(calls) + 1 \notin DOMAIN calls
<1>1. PICK valid \in BOOLEAN :
        calls' = Append(calls, [method |-> method, done |-> 0,
          at |-> IF valid /\ method.needs \subseteq capabilities THEN "queued" ELSE "failed"])
  BY DEF CallMethod
<1> DEFINE a == IF valid /\ method.needs \subseteq capabilities THEN "queued" ELSE "failed"
           c == [method |-> method, done |-> 0, at |-> a]
<1>2. a \in {"queued", "failed"}  OBVIOUS
<1>3. calls' = Append(calls, c)  BY <1>1
<1> HIDE DEF a
<1>4. c \in CallRecords /\ c.done = 0 /\ c.at = a  BY <1>2 DEF CallRecords, States
<1> HIDE DEF c
<1>5. /\ calls' \in Seq(CallRecords) /\ calls' # <<>> /\ Len(calls') = Len(calls) + 1
      /\ \A i \in 1..Len(calls) : calls'[i] = calls[i]
      /\ calls'[Len(calls) + 1] = c
  BY <1>3, <1>4, AppendProperties DEF Formed
<1>6. /\ DOMAIN calls = 1..Len(calls) /\ DOMAIN calls' = 1..Len(calls') /\ Len(calls) \in Nat
  BY <1>5, LenProperties DEF Formed
<1>7. DOMAIN calls' = DOMAIN calls \union {Len(calls) + 1} /\ Len(calls) + 1 \notin DOMAIN calls
  BY <1>5, <1>6
<1> QED  BY <1>2, <1>3, <1>4, <1>5, <1>6, <1>7

(* A line of requests or of replies, one more at its end, or one less.     *)
LEMMA Posted ==
  ASSUME NEW S, NEW row \in Seq(S), NEW e \in S
  PROVE  /\ Append(row, e) \in Seq(S)
         /\ DOMAIN Append(row, e) = DOMAIN row \union {Len(row) + 1}
         /\ \A i \in DOMAIN row : Append(row, e)[i] = row[i] /\ i # Len(row) + 1
         /\ Append(row, e)[Len(row) + 1] = e
<1>1. /\ Append(row, e) \in Seq(S) /\ Len(Append(row, e)) = Len(row) + 1
      /\ \A i \in 1..Len(row) : Append(row, e)[i] = row[i]
      /\ Append(row, e)[Len(row) + 1] = e
  BY AppendProperties
<1>2. /\ DOMAIN row = 1..Len(row) /\ Len(row) \in Nat
      /\ DOMAIN Append(row, e) = 1..Len(Append(row, e))
  BY <1>1, LenProperties
<1> QED  BY <1>1, <1>2

LEMMA Served ==
  ASSUME NEW S, NEW row \in Seq(S), row # <<>>
  PROVE  /\ Tail(row) \in Seq(S) /\ 1 \in DOMAIN row /\ Head(row) = row[1]
         /\ \A i \in DOMAIN Tail(row) :
              i \in Nat \ {0} /\ i + 1 \in DOMAIN row /\ Tail(row)[i] = row[i + 1]
<1>1. /\ Tail(row) \in Seq(S) /\ Len(Tail(row)) = Len(row) - 1
      /\ \A i \in 1..Len(Tail(row)) : Tail(row)[i] = row[i + 1]
  BY HeadTailProperties
<1>2. /\ DOMAIN row = 1..Len(row) /\ DOMAIN Tail(row) = 1..Len(Tail(row))
      /\ Len(row) \in Nat \ {0}
  BY <1>1, LenProperties, EmptySeq
<1> QED  BY <1>1, <1>2

-----------------------------------------------------------------------------
LEMMA InitFormed == ServiceInit => Formed
<1> SUFFICES ASSUME ServiceInit PROVE Formed
  OBVIOUS
<1>1. calls \in Seq(CallRecords) /\ outbound \in Seq(Nat) /\ Len(outbound) = 0
  BY EmptySeq DEF ServiceInit
<1>2. DOMAIN outbound = {}
  BY <1>1, LenProperties
<1> QED  BY <1>1, <1>2 DEF ServiceInit, Formed

LEMMA StepFormed == Formed /\ [ServiceNext]_serviceVars => Formed'
<1> SUFFICES ASSUME Formed, [ServiceNext]_serviceVars PROVE Formed'
  OBVIOUS
<1> USE DEF Formed
<1>1. ASSUME Connected PROVE Formed'
  BY <1>1 DEF Connected
<1>2. ASSUME Shutdown PROVE Formed'
  BY <1>2, Posted DEF Shutdown
<1>3. ASSUME DaemonServes PROVE Formed'
  <2>1. /\ outbound' \in Seq(Nat) /\ 1 \in DOMAIN outbound /\ Head(outbound) = outbound[1]
        /\ \A i \in DOMAIN outbound' : i + 1 \in DOMAIN outbound /\ outbound'[i] = outbound[i + 1]
    BY <1>3, Served DEF DaemonServes
  <2>2. Head(outbound) \in DOMAIN calls  BY <1>3, <2>1 DEF DaemonServes
  <2>3. SameCalls
    BY <1>3, <2>2, CarriedOut, NoneMoved DEF DaemonServes
  <2> QED  BY <1>3, <2>1, <2>3 DEF DaemonServes, SameCalls
<1>4. ASSUME DaemonStops PROVE Formed'
  BY <1>4, EmptySeq DEF DaemonStops
<1>5. ASSUME ReplyArrives PROVE Formed'
  <2>1. SameCalls  BY <1>5, ReplyMoves
  <2> QED  BY <1>5, <2>1 DEF ReplyArrives, SameCalls
<1>6. ASSUME ConnectionLost PROVE Formed'
  <2>1. SameCalls  BY <1>6, LossMoves DEF ConnectionLost
  <2> QED  BY <1>6, <2>1, EmptySeq DEF ConnectionLost, SameCalls
<1>7. ASSUME Reconnected PROVE Formed'
  BY <1>7 DEF Reconnected
<1>8. ASSUME NEW method \in Methods, CallMethod(method) PROVE Formed'
  <2>1. calls' \in Seq(CallRecords) /\ DOMAIN calls \subseteq DOMAIN calls'
    BY <1>8, CallAdds
  <2> QED  BY <1>8, <2>1 DEF CallMethod
<1>9. ASSUME NEW n \in DOMAIN calls, SendCall(n) PROVE Formed'
  <2>1. SameCalls  BY <1>9, SentForward, FailedBeforeSent DEF SendCall
  <2>2. n \in Nat  BY CallFields
  <2>3. CASE outbound' = Append(outbound, n)
    BY <1>9, <2>1, <2>2, <2>3, Posted DEF SendCall, SameCalls
  <2>4. CASE UNCHANGED outbound
    BY <1>9, <2>1, <2>4 DEF SendCall, SameCalls
  <2> QED  BY <1>9, <2>3, <2>4 DEF SendCall
<1>10. ASSUME UNCHANGED serviceVars PROVE Formed'
  BY <1>10 DEF serviceVars
<1> QED
  BY <1>1, <1>2, <1>3, <1>4, <1>5, <1>6, <1>7, <1>8, <1>9, <1>10 DEF ServiceNext

-----------------------------------------------------------------------------
(* On a read-only connection only opcodes of the list are on their way or  *)
(* were carried out; what was posted before there is a connection is what  *)
(* there was no method to post.                                            *)
OnlyReads ==
  /\ calls = <<>> /\ ~shutDown => outbound = <<>>
  /\ readOnly =>
       /\ ~shutDown
       /\ \A i \in DOMAIN outbound :
            outbound[i] # 0 => calls[outbound[i]].method.opcode \in ReadOnlyOpcodes
       /\ \A n \in DOMAIN calls :
            calls[n].done # 0 => calls[n].method.opcode \in ReadOnlyOpcodes

LEMMA ShutdownIsRefused == "SHUTDOWN" \notin ReadOnlyOpcodes
BY DEF ReadOnlyOpcodes

LEMMA InitOnlyReads == ServiceInit => OnlyReads
BY DEF ServiceInit, OnlyReads

LEMMA StepOnlyReads == Formed /\ OnlyReads /\ [ServiceNext]_serviceVars => OnlyReads'
<1> SUFFICES ASSUME Formed, OnlyReads, [ServiceNext]_serviceVars PROVE OnlyReads'
  OBVIOUS
<1>1. ASSUME Connected PROVE OnlyReads'
  BY <1>1 DEF Connected, OnlyReads
<1>2. ASSUME Shutdown PROVE OnlyReads'
  <2>1. ~readOnly /\ ~readOnly' /\ shutDown'
    BY <1>2, ShutdownIsRefused DEF Shutdown, MaySend, Formed
  <2> QED  BY <2>1 DEF OnlyReads
<1>3. ASSUME DaemonServes PROVE OnlyReads'
  <2>1. /\ 1 \in DOMAIN outbound /\ Head(outbound) = outbound[1] /\ outbound[1] # 0
        /\ \A i \in DOMAIN outbound' : i + 1 \in DOMAIN outbound /\ outbound'[i] = outbound[i + 1]
    BY <1>3, Served DEF DaemonServes, Formed
  <2> DEFINE h == Head(outbound)
  <2>2. h \in DOMAIN calls  BY <1>3, <2>1 DEF DaemonServes, Formed
  <2>3. SameCalls /\ \A m \in DOMAIN calls \ {h} : calls'[m].done = calls[m].done
    BY <1>3, <2>2, CarriedOut, NoneMoved DEF DaemonServes
  <2>4. calls # <<>> /\ calls' # <<>>
    BY <2>2, <2>3, EmptySeq, LenProperties DEF SameCalls, Formed
  <2>5. readOnly => calls[h].method.opcode \in ReadOnlyOpcodes
    BY <2>1 DEF OnlyReads
  <2> HIDE DEF h
  <2>6. ASSUME readOnly, NEW n \in DOMAIN calls', calls'[n].done # 0
        PROVE  calls'[n].method.opcode \in ReadOnlyOpcodes
    BY <2>3, <2>5, <2>6 DEF OnlyReads, SameCalls
  <2>7. ASSUME readOnly, NEW i \in DOMAIN outbound', outbound'[i] # 0
        PROVE  calls'[outbound'[i]].method.opcode \in ReadOnlyOpcodes
    <3>1. outbound[i + 1] \in DOMAIN calls /\ outbound'[i] = outbound[i + 1] /\ i + 1 \in DOMAIN outbound
      BY <2>1, <2>7 DEF Formed
    <3> QED  BY <2>3, <2>7, <3>1 DEF OnlyReads, SameCalls
  <2> QED  BY <1>3, <2>4, <2>6, <2>7 DEF DaemonServes, OnlyReads
<1>4. ASSUME DaemonStops PROVE OnlyReads'
  BY <1>4 DEF DaemonStops, OnlyReads
<1>5. ASSUME ReplyArrives PROVE OnlyReads'
  <2>1. SameCalls /\ \A n \in DOMAIN calls : calls'[n].done = calls[n].done
    BY <1>5, ReplyMoves
  <2>2. calls' = <<>> => calls = <<>>
    BY <2>1, LenProperties, EmptySeq DEF SameCalls, Formed
  <2> QED  BY <1>5, <2>1, <2>2 DEF ReplyArrives, SameCalls, OnlyReads, Formed
<1>6. ASSUME ConnectionLost PROVE OnlyReads'
  <2>1. SameCalls /\ \A n \in DOMAIN calls : calls'[n].done = calls[n].done
    BY <1>6, LossMoves DEF ConnectionLost
  <2> QED  BY <1>6, <2>1 DEF ConnectionLost, SameCalls, OnlyReads
<1>7. ASSUME Reconnected PROVE OnlyReads'
  BY <1>7 DEF Reconnected, OnlyReads
<1>8. ASSUME NEW method \in Methods, CallMethod(method) PROVE OnlyReads'
  <2>1. PICK c \in CallRecords :
          /\ c.done = 0 /\ calls' # <<>>
          /\ DOMAIN calls' = DOMAIN calls \union {Len(calls) + 1}
          /\ \A n \in DOMAIN calls : calls'[n] = calls[n]
          /\ calls'[Len(calls) + 1] = c
    BY <1>8, CallAdds
  <2> QED  BY <1>8, <2>1 DEF CallMethod, OnlyReads, Formed
<1>9. ASSUME NEW n \in DOMAIN calls, SendCall(n) PROVE OnlyReads'
  <2>1. SameCalls /\ \A m \in DOMAIN calls : calls'[m].done = calls[m].done
    BY <1>9, SentForward, FailedBeforeSent DEF SendCall
  <2>2. n \in Nat /\ calls' # <<>>
    BY <2>1, CallFields, EmptySeq, LenProperties DEF SameCalls, Formed
  <2>3. CASE outbound' = Append(outbound, n) /\ MaySend(calls[n].method.opcode)
    <3>1. /\ DOMAIN outbound' = DOMAIN outbound \union {Len(outbound) + 1}
          /\ \A i \in DOMAIN outbound : outbound'[i] = outbound[i]
          /\ outbound'[Len(outbound) + 1] = n
      BY <2>2, <2>3, Posted
    <3>2. readOnly => calls[n].method.opcode \in ReadOnlyOpcodes
      BY <2>3 DEF MaySend
    <3>3. ASSUME readOnly, NEW i \in DOMAIN outbound', outbound'[i] # 0
          PROVE  calls'[outbound'[i]].method.opcode \in ReadOnlyOpcodes
      <4>1. CASE i = Len(outbound) + 1
        BY <2>1, <3>1, <3>2, <3>3, <4>1 DEF SameCalls
      <4>2. CASE i \in DOMAIN outbound
        BY <2>1, <3>1, <3>3, <4>2 DEF SameCalls, OnlyReads, Formed
      <4> QED  BY <3>1, <4>1, <4>2
    <3> QED  BY <1>9, <2>1, <2>2, <3>3 DEF SendCall, SameCalls, OnlyReads, Formed
  <2>4. CASE UNCHANGED outbound
    BY <1>9, <2>1, <2>2, <2>4 DEF SendCall, SameCalls, OnlyReads, Formed
  <2> QED  BY <1>9, <2>3, <2>4 DEF SendCall
<1>10. ASSUME UNCHANGED serviceVars PROVE OnlyReads'
  BY <1>10 DEF serviceVars, OnlyReads
<1> QED
  BY <1>1, <1>2, <1>3, <1>4, <1>5, <1>6, <1>7, <1>8, <1>9, <1>10 DEF ServiceNext

LEMMA OnlyReadsChangesNothing == Formed /\ OnlyReads => ReadOnlyChangesNothing
<1> SUFFICES ASSUME Formed, OnlyReads, readOnly
             PROVE  ~shutDown /\ \A n \in DOMAIN calls : calls[n].method.changes => calls[n].done = 0
  BY DEF ReadOnlyChangesNothing
<1>1. ASSUME NEW n \in DOMAIN calls, calls[n].done # 0 PROVE ~calls[n].method.changes
  <2>1. calls[n].method \in Methods  BY CallFields DEF CallRecords
  <2> QED  BY <1>1, <2>1, MethodsAreHarmless DEF OnlyReads, Harmless
<1> QED  BY <1>1 DEF OnlyReads

(* On a read-only connection no method of any class has the daemon change  *)
(* anything: the list of send() holds no opcode of a method that changes   *)
(* something, and nothing else reaches the daemon (ECConnection.ts).       *)
THEOREM NothingIsChanged == ServiceSpec => []ReadOnlyChangesNothing
<1>1. ServiceInit => Formed /\ OnlyReads
  BY InitFormed, InitOnlyReads
<1>2. Formed /\ OnlyReads /\ [ServiceNext]_serviceVars => (Formed /\ OnlyReads)'
  BY StepFormed, StepOnlyReads
<1>3. Formed /\ OnlyReads => ReadOnlyChangesNothing
  BY OnlyReadsChangesNothing
<1> QED  BY <1>1, <1>2, <1>3, PTL DEF ServiceSpec

-----------------------------------------------------------------------------
(* A call is carried out when its request is served, and its request is    *)
(* posted once, when it leaves the queue.                                  *)
ReplyOpcodes == {"NOOP", "FAILED"} \union UNION {method.replies : method \in Methods}

Once ==
  /\ inbound \in Seq(ReplyOpcodes)
  /\ \A n \in DOMAIN calls : calls[n].done <= 1
  /\ \A n \in Queued : calls[n].done = 0
  /\ \A i \in DOMAIN outbound :
       outbound[i] # 0 => calls[outbound[i]].done = 0 /\ outbound[i] \notin Queued
  /\ \A i, j \in DOMAIN outbound : outbound[i] = outbound[j] /\ outbound[i] # 0 => i = j

(* Until a shutdown() adds to the lines what no call waits for, the one    *)
(* call that was sent has its request on the way, or its reply.            *)
OneAtATime ==
  /\ \A m, n \in Sent : m = n
  /\ ~shutDown =>
       /\ \A i \in DOMAIN outbound : i = 1 /\ outbound[i] \in Sent
       /\ \A i \in DOMAIN inbound : i = 1 /\ Sent # {} /\ outbound = <<>>
       /\ \A i \in DOMAIN inbound, n \in Sent : inbound[i] = "FAILED" \/ calls[n].done = 1
       /\ \A n \in DOMAIN calls :
            calls[n].at = "resolved" => calls[n].done = 1 \/ "FAILED" \in calls[n].method.replies

OnceInv == Formed /\ Once /\ OneAtATime

LEMMA InitOnce == ServiceInit => OnceInv
<1> SUFFICES ASSUME ServiceInit PROVE OnceInv
  OBVIOUS
<1>1. <<>> \in Seq(ReplyOpcodes)  BY EmptySeq
<1> QED  BY <1>1, InitFormed DEF ServiceInit, OnceInv, Once, OneAtATime, Queued, Sent

LEMMA StepOnce == OnceInv /\ [ServiceNext]_serviceVars => Once'
<1> SUFFICES ASSUME OnceInv, [ServiceNext]_serviceVars PROVE Once'
  OBVIOUS
<1> USE DEF OnceInv
<1>1. ASSUME Connected PROVE Once'
  BY <1>1 DEF Connected, Once, Queued
<1>2. ASSUME Shutdown PROVE Once'
  <2>1. /\ DOMAIN outbound' = DOMAIN outbound \union {Len(outbound) + 1}
        /\ \A i \in DOMAIN outbound : outbound'[i] = outbound[i]
        /\ outbound'[Len(outbound) + 1] = 0
    BY <1>2, Posted DEF Shutdown, Formed
  <2> QED  BY <1>2, <2>1 DEF Shutdown, Once, Queued
<1>3. ASSUME DaemonServes PROVE Once'
  <2> DEFINE h == Head(outbound)
  <2>1. /\ 1 \in DOMAIN outbound /\ h = outbound[1] /\ h # 0
        /\ \A i \in DOMAIN outbound' :
             i \in Nat \ {0} /\ i + 1 \in DOMAIN outbound /\ outbound'[i] = outbound[i + 1]
    BY <1>3, Served DEF DaemonServes, Formed
  <2>2. h \in DOMAIN calls /\ calls[h].done = 0 /\ h \notin Queued
    BY <2>1 DEF Formed, Once
  <2>3. \A i \in DOMAIN outbound' : outbound'[i] # h /\ i + 1 # 1
    BY <2>1 DEF Once
  <2>4. /\ SameCalls /\ \A m \in DOMAIN calls : calls'[m].at = calls[m].at
        /\ \A m \in DOMAIN calls \ {h} : calls'[m].done = calls[m].done
        /\ calls'[h].done \in {0, 1}
    BY <1>3, <2>2, CarriedOut, NoneMoved DEF DaemonServes
  <2>5. Queued' = Queued
    BY <2>4 DEF Queued, SameCalls
  <2>6. inbound' \in Seq(ReplyOpcodes)
    <3>1. PICK reply \in ReplyOpcodes : inbound' = Append(inbound, reply)
      <4>1. calls[h].method \in Methods  BY <2>2, CallFields DEF CallRecords
      <4> QED  BY <1>3, <4>1 DEF DaemonServes, ReplyOpcodes
    <3> QED  BY <3>1, Posted DEF Once
  <2> HIDE DEF h
  <2>7. \A n \in DOMAIN calls' : calls'[n].done <= 1
    BY <2>4 DEF Once, SameCalls
  <2>8. \A n \in Queued' : calls'[n].done = 0
    BY <2>2, <2>4, <2>5 DEF Once, Queued
  <2>9. ASSUME NEW i \in DOMAIN outbound', outbound'[i] # 0
        PROVE  calls'[outbound'[i]].done = 0 /\ outbound'[i] \notin Queued'
    BY <2>1, <2>3, <2>4, <2>5, <2>9 DEF Once, Formed
  <2>10. ASSUME NEW i \in DOMAIN outbound', NEW j \in DOMAIN outbound',
                outbound'[i] = outbound'[j], outbound'[i] # 0
         PROVE  i = j
    <3>1. i + 1 = j + 1  BY <2>1, <2>10 DEF Once
    <3> QED  BY <2>1, <3>1
  <2> QED  BY <2>6, <2>7, <2>8, <2>9, <2>10 DEF Once
<1>4. ASSUME DaemonStops PROVE Once'
  <2>1. inbound' \in Seq(ReplyOpcodes)
    BY <1>4, Posted DEF DaemonStops, Once, ReplyOpcodes
  <2> QED  BY <1>4, <2>1 DEF DaemonStops, Once, Queued
<1>5. ASSUME ReplyArrives PROVE Once'
  <2>1. /\ SameCalls
        /\ \A n \in DOMAIN calls :
             /\ calls'[n].done = calls[n].done
             /\ n \notin Sent => calls'[n] = calls[n]
             /\ n \in Sent => calls'[n].at \in {"resolved", "failed"}
    BY <1>5, ReplyMoves
  <2>2. Queued' = Queued
    BY <2>1 DEF Queued, Sent, SameCalls
  <2>3. inbound' \in Seq(ReplyOpcodes)
    BY <1>5, Served DEF ReplyArrives, Once
  <2>4. \A n \in DOMAIN calls' : calls'[n].done <= 1
    BY <2>1 DEF Once, SameCalls
  <2>5. \A n \in Queued' : calls'[n].done = 0
    BY <2>1, <2>2 DEF Once, Queued
  <2> QED  BY <1>5, <2>1, <2>2, <2>3, <2>4, <2>5 DEF ReplyArrives, Once, Formed
<1>6. ASSUME ConnectionLost PROVE Once'
  <2>1. /\ SameCalls
        /\ \A n \in DOMAIN calls :
             /\ calls'[n].done = calls[n].done
             /\ n \in Queued => calls'[n].at = "failed"
             /\ n \notin Sent \union Queued => calls'[n] = calls[n]
             /\ n \in Sent => calls'[n].at = "failed"
    BY <1>6, LossMoves DEF ConnectionLost
  <2>2. Queued' = {}
    BY <2>1 DEF Queued, SameCalls
  <2>3. outbound' = <<>> /\ inbound' = <<>> /\ <<>> \in Seq(ReplyOpcodes)
    BY <1>6, EmptySeq DEF ConnectionLost
  <2> QED  BY <2>1, <2>2, <2>3 DEF Once, SameCalls
<1>7. ASSUME Reconnected PROVE Once'
  BY <1>7 DEF Reconnected, Once, Queued
<1>8. ASSUME NEW method \in Methods, CallMethod(method) PROVE Once'
  <2>1. PICK c \in CallRecords :
          /\ c.done = 0
          /\ DOMAIN calls' = DOMAIN calls \union {Len(calls) + 1}
          /\ \A n \in DOMAIN calls : calls'[n] = calls[n]
          /\ calls'[Len(calls) + 1] = c /\ Len(calls) + 1 \notin DOMAIN calls
    BY <1>8, CallAdds
  <2>2. Queued' \subseteq Queued \union {Len(calls) + 1} /\ Queued \subseteq DOMAIN calls
    BY <2>1 DEF Queued
  <2>3. ASSUME NEW i \in DOMAIN outbound, outbound[i] # 0
        PROVE  calls'[outbound[i]].done = 0 /\ outbound[i] \notin Queued'
    BY <2>1, <2>2, <2>3 DEF Once, Formed
  <2>4. /\ \A n \in DOMAIN calls' : calls'[n].done <= 1
        /\ \A n \in Queued' : calls'[n].done = 0
    BY <2>1, <2>2 DEF Once
  <2> QED  BY <1>8, <2>3, <2>4 DEF CallMethod, Once
<1>9. ASSUME NEW n \in DOMAIN calls, SendCall(n) PROVE Once'
  <2>1. SameCalls /\ \A m \in DOMAIN calls : calls'[m].done = calls[m].done
    BY <1>9, SentForward, FailedBeforeSent DEF SendCall
  <2>2. n \in Nat /\ n # 0 /\ calls[n].done = 0 /\ n \in Queued
    BY <1>9, CallFields DEF SendCall, Once
  <2>3. Queued' = Queued \ {n}
    <3>1. \A m \in DOMAIN calls \ {n} : calls'[m] = calls[m]
      BY <1>9 DEF SendCall
    <3>2. calls'[n].at # "queued"
      BY <1>9, CallFields DEF SendCall, CallRecords
    <3> QED  BY <2>1, <3>1, <3>2 DEF Queued, SameCalls
  <2>4. /\ \A m \in DOMAIN calls' : calls'[m].done <= 1
        /\ \A m \in Queued' : calls'[m].done = 0
    BY <2>1, <2>3 DEF Once, SameCalls, Queued
  <2>5. CASE outbound' = Append(outbound, n)
    <3>1. /\ DOMAIN outbound' = DOMAIN outbound \union {Len(outbound) + 1}
          /\ \A i \in DOMAIN outbound : outbound'[i] = outbound[i]
          /\ outbound'[Len(outbound) + 1] = n
      BY <2>2, <2>5, Posted DEF Formed
    <3>2. \A i \in DOMAIN outbound : outbound[i] # n
      BY <2>2 DEF Once
    <3>3. ASSUME NEW i \in DOMAIN outbound', outbound'[i] # 0
          PROVE  calls'[outbound'[i]].done = 0 /\ outbound'[i] \notin Queued'
      <4>1. CASE i = Len(outbound) + 1
        BY <2>1, <2>2, <2>3, <3>1, <4>1
      <4>2. CASE i \in DOMAIN outbound
        BY <2>1, <2>3, <3>1, <3>3, <4>2 DEF Once, Formed
      <4> QED  BY <3>1, <4>1, <4>2
    <3>4. \A i, j \in DOMAIN outbound' : outbound'[i] = outbound'[j] /\ outbound'[i] # 0 => i = j
      BY <3>1, <3>2 DEF Once
    <3> QED  BY <1>9, <2>4, <3>3, <3>4 DEF SendCall, Once
  <2>6. CASE UNCHANGED outbound
    BY <1>9, <2>1, <2>3, <2>4, <2>6 DEF SendCall, Once, Formed
  <2> QED  BY <1>9, <2>5, <2>6 DEF SendCall
<1>10. ASSUME UNCHANGED serviceVars PROVE Once'
  BY <1>10 DEF serviceVars, Once, Queued
<1> QED
  BY <1>1, <1>2, <1>3, <1>4, <1>5, <1>6, <1>7, <1>8, <1>9, <1>10 DEF ServiceNext

LEMMA NothingThere ==
  ASSUME NEW S, NEW row \in Seq(S)
  PROVE  /\ row = <<>> <=> DOMAIN row = {}
         /\ row = <<>> => Len(row) = 0
         /\ (\A i \in DOMAIN row : i = 1) /\ row # <<>> => DOMAIN Tail(row) = {}
<1>1. DOMAIN row = 1..Len(row) /\ Len(row) \in Nat /\ (row # <<>> => Len(row) # 0)
      /\ Len(<<>>) = 0
  BY LenProperties, EmptySeq
<1>2. ASSUME \A i \in DOMAIN row : i = 1, row # <<>>
      PROVE  DOMAIN Tail(row) = {}
  <2>1. Len(Tail(row)) = Len(row) - 1 /\ DOMAIN Tail(row) = 1..Len(Tail(row))
    BY <1>2, HeadTailProperties, LenProperties
  <2>2. Len(row) = 1
    <3>1. Len(row) \in DOMAIN row  BY <1>1, <1>2
    <3> QED  BY <1>2, <3>1
  <2> QED  BY <2>1, <2>2
<1>3. row = <<>> <=> DOMAIN row = {}
  <2>1. CASE row = <<>>
    BY <1>1, <2>1
  <2>2. CASE row # <<>>
    <3>1. 1 \in DOMAIN row  BY <1>1, <2>2
    <3> QED  BY <2>2, <3>1
  <2> QED  BY <2>1, <2>2
<1>4. row = <<>> => Len(row) = 0
  BY <1>1
<1> QED  BY <1>2, <1>3, <1>4

LEMMA StepOneAtATime == OnceInv /\ [ServiceNext]_serviceVars => OneAtATime'
<1> SUFFICES ASSUME OnceInv, [ServiceNext]_serviceVars PROVE OneAtATime'
  OBVIOUS
<1> USE DEF OnceInv
<1>1. ASSUME Connected PROVE OneAtATime'
  BY <1>1 DEF Connected, OneAtATime, Sent
<1>2. ASSUME Shutdown PROVE OneAtATime'
  BY <1>2 DEF Shutdown, OneAtATime, Sent
<1>3. ASSUME DaemonServes PROVE OneAtATime'
  <2> DEFINE h == Head(outbound)
  <2>1. 1 \in DOMAIN outbound /\ h = outbound[1] /\ h # 0
    BY <1>3, Served DEF DaemonServes, Formed
  <2>2. h \in DOMAIN calls /\ calls[h].done = 0
    BY <2>1 DEF Formed, Once
  <2>3. /\ SameCalls /\ \A m \in DOMAIN calls : calls'[m].at = calls[m].at
        /\ \A m \in DOMAIN calls \ {h} : calls'[m].done = calls[m].done
        /\ calls[h].done = 0 => calls'[h].done \in {0, 1}
    BY <1>3, <2>2, CarriedOut, NoneMoved DEF DaemonServes
  <2>4. Sent' = Sent
    BY <2>3 DEF Sent, SameCalls
  <2>5. PICK reply \in ReplyOpcodes :
          inbound' = Append(inbound, reply) /\ (reply = "FAILED" \/ calls'[h].done = 1)
    <3>1. calls[h].method \in Methods  BY <2>2, CallFields DEF CallRecords
    <3>2. calls' = [calls EXCEPT ![h].done = @ + 1] => calls'[h].done = 1
      BY <2>2, CarriedOut
    <3> HIDE DEF h
    <3>3. CASE /\ calls' = [calls EXCEPT ![h].done = @ + 1]
               /\ \E reply \in calls[h].method.replies : inbound' = Append(inbound, reply)
      BY <3>1, <3>2, <3>3 DEF ReplyOpcodes
    <3>4. CASE inbound' = Append(inbound, "FAILED")
      BY <3>4 DEF ReplyOpcodes
    <3> QED  BY <1>3, <3>3, <3>4 DEF DaemonServes, h
  <2> HIDE DEF h
  <2>6. ASSUME ~shutDown'
        PROVE  /\ outbound' = <<>> /\ DOMAIN inbound' = {1} /\ inbound'[1] = reply /\ Sent = {h}
    <3>1. ~shutDown  BY <1>3, <2>6 DEF DaemonServes
    <3>2. \A i \in DOMAIN outbound : i = 1  BY <3>1 DEF OneAtATime
    <3>3. outbound' \in Seq(Nat) /\ DOMAIN outbound' = {}
      BY <1>3, <3>2, NothingThere, Served DEF DaemonServes, Formed
    <3>4. outbound' = <<>>  BY <3>3, NothingThere
    <3>5. inbound = <<>>
      BY <1>3, <3>1, NothingThere DEF OneAtATime, Once, DaemonServes
    <3>6. DOMAIN inbound = {} /\ Len(inbound) = 0
      BY <3>5, NothingThere DEF Once
    <3>7. DOMAIN inbound' = {1} /\ inbound'[1] = reply
      BY <2>5, <3>6, Posted DEF Once
    <3> QED  BY <2>1, <3>1, <3>4, <3>7 DEF OneAtATime
  <2>7. DOMAIN <<>> = {}
    BY EmptySeq, LenProperties, NothingThere
  <2>8. ASSUME ~shutDown, NEW n \in DOMAIN calls', calls'[n].at = "resolved"
        PROVE  calls'[n].done = 1 \/ "FAILED" \in calls'[n].method.replies
    <3>1. n # h
      <4>1. ~shutDown'  BY <1>3, <2>8 DEF DaemonServes
      <4>2. h \in Sent  BY <2>6, <4>1
      <4> QED  BY <2>3, <2>8, <4>2 DEF Sent, SameCalls
    <3> QED  BY <2>3, <2>8, <3>1 DEF OneAtATime, SameCalls
  <2>9. \A m, n \in Sent' : m = n
    BY <2>4 DEF OneAtATime
  <2>10. shutDown' = shutDown
    BY <1>3 DEF DaemonServes
  <2>11. ASSUME ~shutDown'
         PROVE  /\ \A i \in DOMAIN outbound' : i = 1 /\ outbound'[i] \in Sent'
                /\ \A i \in DOMAIN inbound' : i = 1 /\ Sent' # {} /\ outbound' = <<>>
                /\ \A i \in DOMAIN inbound', n \in Sent' : inbound'[i] = "FAILED" \/ calls'[n].done = 1
    BY <2>4, <2>5, <2>6, <2>7, <2>11
  <2> QED  BY <2>8, <2>9, <2>10, <2>11 DEF OneAtATime
<1>4. ASSUME DaemonStops PROVE OneAtATime'
  <2>1. 1 \in DOMAIN outbound /\ outbound[1] = 0
    BY <1>4, Served DEF DaemonStops, Formed
  <2>2. shutDown
    <3>1. 0 \notin Sent  BY CallFields DEF Sent
    <3> QED  BY <2>1, <3>1 DEF OneAtATime, Formed
  <2> QED  BY <1>4, <2>2 DEF DaemonStops, OneAtATime, Sent
<1>5. ASSUME ReplyArrives PROVE OneAtATime'
  <2>1. /\ SameCalls
        /\ \A n \in DOMAIN calls :
             /\ calls'[n].done = calls[n].done
             /\ n \notin Sent => calls'[n] = calls[n]
             /\ n \in Sent => calls'[n].at = IF Accepts(calls[n].method, Head(inbound))
                                             THEN "resolved" ELSE "failed"
    BY <1>5, ReplyMoves
  <2>2. Sent' = {}
    BY <2>1 DEF Sent, SameCalls
  <2>3. 1 \in DOMAIN inbound /\ Head(inbound) = inbound[1]
    BY <1>5, Served DEF ReplyArrives, Once
  <2>4. ASSUME ~shutDown
        PROVE  DOMAIN outbound' = {} /\ DOMAIN inbound' = {}
    <3>1. outbound = <<>> /\ \A i \in DOMAIN inbound : i = 1
      BY <2>3, <2>4 DEF OneAtATime
    <3> QED  BY <1>5, <3>1, NothingThere DEF ReplyArrives, Formed, Once
  <2>5. ASSUME ~shutDown, NEW n \in DOMAIN calls', calls'[n].at = "resolved"
        PROVE  calls'[n].done = 1 \/ "FAILED" \in calls'[n].method.replies
    <3>1. CASE n \in Sent
      <4>1. Head(inbound) \in calls[n].method.replies
        BY <2>1, <2>5, <3>1 DEF Accepts, SameCalls
      <4>2. Head(inbound) = "FAILED" \/ calls[n].done = 1
        BY <2>3, <2>5, <3>1 DEF OneAtATime
      <4> QED  BY <2>1, <4>1, <4>2, <3>1 DEF SameCalls, Sent
    <3>2. CASE n \notin Sent
      BY <2>1, <2>5, <3>2 DEF OneAtATime, SameCalls
    <3> QED  BY <3>1, <3>2
  <2> QED  BY <1>5, <2>2, <2>4, <2>5 DEF ReplyArrives, OneAtATime
<1>6. ASSUME ConnectionLost PROVE OneAtATime'
  <2>1. /\ SameCalls
        /\ \A n \in DOMAIN calls :
             /\ calls'[n].done = calls[n].done
             /\ n \notin Sent \union Queued => calls'[n] = calls[n]
             /\ n \in Sent \union Queued => calls'[n].at = "failed"
    BY <1>6, LossMoves DEF ConnectionLost
  <2>2. Sent' = {}
    BY <2>1 DEF Sent, SameCalls
  <2>3. outbound' = <<>> /\ inbound' = <<>> /\ shutDown' = shutDown /\ DOMAIN <<>> = {}
    BY <1>6, EmptySeq, LenProperties, NothingThere DEF ConnectionLost
  <2>4. ASSUME ~shutDown, NEW n \in DOMAIN calls', calls'[n].at = "resolved"
        PROVE  calls'[n].done = 1 \/ "FAILED" \in calls'[n].method.replies
    BY <2>1, <2>4 DEF OneAtATime, SameCalls
  <2> QED  BY <2>2, <2>3, <2>4 DEF OneAtATime
<1>7. ASSUME Reconnected PROVE OneAtATime'
  BY <1>7 DEF Reconnected, OneAtATime, Sent
<1>8. ASSUME NEW method \in Methods, CallMethod(method) PROVE OneAtATime'
  <2>1. PICK c \in CallRecords :
          /\ c.done = 0 /\ c.at \in {"queued", "failed"}
          /\ DOMAIN calls' = DOMAIN calls \union {Len(calls) + 1}
          /\ \A n \in DOMAIN calls : calls'[n] = calls[n]
          /\ calls'[Len(calls) + 1] = c /\ Len(calls) + 1 \notin DOMAIN calls
    BY <1>8, CallAdds
  <2>2. Sent' = Sent /\ \A n \in Sent : calls'[n] = calls[n]
    BY <2>1 DEF Sent
  <2>3. ASSUME ~shutDown, NEW n \in DOMAIN calls', calls'[n].at = "resolved"
        PROVE  calls'[n].done = 1 \/ "FAILED" \in calls'[n].method.replies
    BY <2>1, <2>3 DEF OneAtATime
  <2>4. UNCHANGED <<outbound, inbound, shutDown>>
    BY <1>8 DEF CallMethod
  <2>5. \A n \in Sent : n \in DOMAIN calls
    BY DEF Sent
  <2> QED  BY <2>2, <2>3, <2>4, <2>5 DEF OneAtATime
<1>9. ASSUME NEW n \in DOMAIN calls, SendCall(n) PROVE OneAtATime'
  <2>1. SameCalls /\ \A m \in DOMAIN calls : calls'[m].done = calls[m].done
    BY <1>9, SentForward, FailedBeforeSent DEF SendCall
  <2>2. \A m \in DOMAIN calls \ {n} : calls'[m] = calls[m]
    BY <1>9 DEF SendCall
  <2>3. calls'[n].at \in {"sent", "failed"} /\ Sent = {}
    BY <1>9, CallFields DEF SendCall, CallRecords
  <2>4. Sent' \subseteq {n}
    BY <2>1, <2>2, <2>3 DEF Sent, SameCalls
  <2>5. ASSUME ~shutDown, NEW m \in DOMAIN calls', calls'[m].at = "resolved"
        PROVE  calls'[m].done = 1 \/ "FAILED" \in calls'[m].method.replies
    BY <2>1, <2>2, <2>3, <2>5 DEF OneAtATime, SameCalls
  <2>6. ASSUME ~shutDown
        PROVE  /\ \A i \in DOMAIN outbound' : i = 1 /\ outbound'[i] \in Sent'
               /\ DOMAIN inbound' = {}
    <3>1. DOMAIN outbound = {} /\ DOMAIN inbound = {}
      BY <2>3, <2>6 DEF OneAtATime
    <3>2. Len(outbound) = 0
      BY <3>1, NothingThere DEF Formed
    <3>3. CASE outbound' = Append(outbound, n) /\ calls' = [calls EXCEPT ![n].at = "sent"]
      <4>1. DOMAIN outbound' = {1} /\ outbound'[1] = n
        BY <3>1, <3>2, <3>3, Posted, CallFields DEF Formed
      <4>2. n \in Sent'
        BY <2>1, <3>3, CallFields DEF Sent, SameCalls, CallRecords
      <4> QED  BY <1>9, <3>1, <4>1, <4>2 DEF SendCall
    <3>4. CASE UNCHANGED outbound
      BY <1>9, <3>1, <3>4 DEF SendCall
    <3> QED  BY <1>9, <3>3, <3>4 DEF SendCall
  <2> QED  BY <1>9, <2>4, <2>5, <2>6 DEF SendCall, OneAtATime
<1>10. ASSUME UNCHANGED serviceVars PROVE OneAtATime'
  BY <1>10 DEF serviceVars, OneAtATime, Sent
<1> QED
  BY <1>1, <1>2, <1>3, <1>4, <1>5, <1>6, <1>7, <1>8, <1>9, <1>10 DEF ServiceNext

(* No call is carried out twice, whatever is lost under it and however     *)
(* often the connection is replaced, and before a shutdown() a call that   *)
(* resolved was carried out, unless its method takes EC_OP_FAILED for an   *)
(* answer: rejectPending() of ECConnection.ts leaves nothing to send       *)
(* again, and every method checks the opcode of its reply.                 *)
THEOREM CallsAreCarriedOutOnce == ServiceSpec => []CarriedOutOnce
<1>1. ServiceInit => OnceInv
  BY InitOnce
<1>2. OnceInv /\ [ServiceNext]_serviceVars => OnceInv'
  BY StepFormed, StepOnce, StepOneAtATime DEF OnceInv
<1>3. OnceInv => CarriedOutOnce
  BY DEF OnceInv, Once, OneAtATime, CarriedOutOnce
<1> QED  BY <1>1, <1>2, <1>3, PTL DEF ServiceSpec

(* The types of the services: the connection is one of those there may be, *)
(* and what is on its way to the daemon was asked for by a call.           *)
ConnectionTypes ==
  up \in BOOLEAN /\ capabilities \subseteq Capabilities /\ connection \in 1..MaxConnections

LEMMA ConnectionTypesStep == ConnectionTypes /\ [ServiceNext]_serviceVars => ConnectionTypes'
<1> SUFFICES ASSUME ConnectionTypes, [ServiceNext]_serviceVars PROVE ConnectionTypes'
  OBVIOUS
<1>1. CASE Connected
  BY <1>1 DEF Connected, ConnectionTypes
<1>2. CASE ConnectionLost
  <2>1. /\ up' = FALSE /\ UNCHANGED capabilities
        /\ connection < MaxConnections /\ connection' = connection + 1
    BY <1>2 DEF ConnectionLost
  <2>2. connection' \in 1..MaxConnections
    BY <2>1, ServiceAssumption DEF ConnectionTypes
  <2> QED  BY <2>1, <2>2 DEF ConnectionTypes
<1>3. CASE Reconnected
  BY <1>3 DEF Reconnected, ConnectionTypes
<1>4. CASE UNCHANGED <<up, capabilities, connection>>
  BY <1>4 DEF ConnectionTypes
<1>5. Connected \/ ConnectionLost \/ Reconnected \/ UNCHANGED <<up, capabilities, connection>>
  BY DEF ServiceNext, Shutdown, DaemonServes, DaemonStops, ReplyArrives, CallMethod, SendCall, serviceVars
<1> QED  BY <1>1, <1>2, <1>3, <1>4, <1>5

LEMMA FormedTypes == Formed /\ ConnectionTypes => ServiceTypeOK
<1> SUFFICES ASSUME Formed, ConnectionTypes PROVE ServiceTypeOK
  OBVIOUS
<1>1. \A n \in DOMAIN calls : calls[n].at \in States /\ calls[n].done \in Nat
  BY CallFields DEF CallRecords
<1>2. \A i \in DOMAIN outbound : outbound[i] \in 0..Len(calls)
  <2>1. DOMAIN calls = 1..Len(calls) /\ Len(calls) \in Nat
    BY LenProperties DEF Formed
  <2> QED  BY <2>1 DEF Formed
<1> QED  BY <1>1, <1>2 DEF Formed, ConnectionTypes, ServiceTypeOK, States

(* A request on its way is of a call that was made, whatever was lost with *)
(* the connections before, and every call is where request() leaves it.    *)
THEOREM ServiceTypeCorrect == ServiceSpec => []ServiceTypeOK
<1>1. ServiceInit => ConnectionTypes
  <2>1. ServiceInit => connection = 1 /\ up = FALSE /\ capabilities = {}
    BY DEF ServiceInit
  <2>2. 1 \in 1..MaxConnections
    BY ServiceAssumption
  <2> QED  BY <2>1, <2>2 DEF ConnectionTypes
<1> QED  BY <1>1, InitFormed, StepFormed, ConnectionTypesStep, FormedTypes, PTL DEF ServiceSpec

-----------------------------------------------------------------------------
(* Preferences.  A field travels one way only; the hash of the guest of    *)
(* amuleapi, wherever it is, is in its account.                            *)
GuestHash == "amuleApiGuest.passwordHash"

OneWay(travel) ==
  /\ travel.presence \intersect travel.explicit = {}
  /\ (travel.presence \union travel.explicit)
       \intersect (travel.readOnly \union travel.trigger \union HashesOf(travel)) = {}
  /\ travel.readOnly \intersect (travel.trigger \union HashesOf(travel)) = {}
  /\ travel.trigger \intersect HashesOf(travel) = {}

WellMade(travel) ==
  /\ OneWay(travel)
  /\ travel.urls \subseteq travel.explicit
  /\ "amuleApiAdmin" \notin travel.explicit
  /\ GuestHash \in Fields(travel) =>
       GuestHash \in HashesOf(travel) /\ "amuleApiGuest" \in travel.presence
  /\ "nothing" \notin Fields(travel)

LEMMA MessageFilterMade == WellMade(MessageFilter)
BY DEF WellMade, OneWay, Fields, HashesOf, GuestHash, MessageFilter, MessageFilterPrefs, Section
LEMMA ConnectionsMade == WellMade(Connections)
BY DEF WellMade, OneWay, Fields, HashesOf, GuestHash, Connections, ConnectionsPrefs, ProxyPrefs,
       Section, Explicitly
LEMMA FilesMade == WellMade(Files)
BY DEF WellMade, OneWay, Fields, HashesOf, GuestHash, Files, FilesPrefs, Section, ReadOnly
LEMMA DirectoriesMade == WellMade(Directories)
BY DEF WellMade, OneWay, Fields, HashesOf, GuestHash, Directories, DirectoriesPrefs, Section, Explicitly
LEMMA SecurityMade == WellMade(Security)
BY DEF WellMade, OneWay, Fields, HashesOf, GuestHash, Security, SecurityPrefs, Section
LEMMA OnlineSigMade == WellMade(OnlineSig)
BY DEF WellMade, OneWay, Fields, HashesOf, GuestHash, OnlineSig, OnlineSigPrefs, Section
LEMMA ServersMade == WellMade(Servers)
BY DEF WellMade, OneWay, Fields, HashesOf, GuestHash, Servers, ServersPrefs, Section
LEMMA KademliaMade == WellMade(Kademlia)
BY DEF WellMade, OneWay, Fields, HashesOf, GuestHash, Kademlia, KademliaPrefs, Section
LEMMA GeneralMade == WellMade(General)
BY DEF WellMade, OneWay, Fields, HashesOf, GuestHash, General, GeneralPrefs, Section, Explicitly, ReadOnly
LEMMA RemoteControlsMade == WellMade(RemoteControls)
BY DEF WellMade, OneWay, Fields, HashesOf, GuestHash, RemoteControls, RemoteControlsPrefs, Section
LEMMA IP2CountryMade == WellMade(IP2Country)
<1>1. IP2Country.presence = {} /\ IP2Country.trigger = {"updateNow"} /\ IP2Country.urls = {"customUrl"}
      /\ HashesOf(IP2Country) = {}
  BY DEF HashesOf, IP2Country, IP2CountryPrefs, Section, Explicitly, ReadOnly
<1>2. IP2Country.readOnly
        = {"supported", "loadedSource", "databasePath", "databaseLoaded", "downloading", "lastResult"}
  BY DEF IP2Country, IP2CountryPrefs, Section, Explicitly, ReadOnly
<1>3. IP2Country.explicit = {"enabled", "autoUpdate", "source", "customUrl", "maxMindLicense"}
  BY DEF IP2Country, IP2CountryPrefs, Section, Explicitly, ReadOnly
<1> QED  BY <1>1, <1>2, <1>3 DEF WellMade, OneWay, Fields, GuestHash
LEMMA CoreTweaksMade == WellMade(CoreTweaks)
BY SMTT(20) DEF WellMade, OneWay, Fields, HashesOf, GuestHash, CoreTweaks, CoreTweaksPrefs, Section

LEMMA SectionsMade == \A name \in DOMAIN Sections : WellMade(Sections[name])
<1> SUFFICES ASSUME NEW name \in DOMAIN Sections PROVE WellMade(Sections[name])
  OBVIOUS
<1>1. Sections[name] \in {MessageFilter, Connections, Files, Directories, Security, OnlineSig,
                          Servers, Kademlia, General, RemoteControls, IP2Country, CoreTweaks}
  BY DEF Sections
<1> QED  BY <1>1, MessageFilterMade, ConnectionsMade, FilesMade, DirectoriesMade, SecurityMade,
            OnlineSigMade, ServersMade, KademliaMade, GeneralMade, RemoteControlsMade,
            IP2CountryMade, CoreTweaksMade

(* The values of a section, and what a caller holds of them: fresh, it is  *)
(* what the getter would still return, but for the field edited.           *)
ValuesOf(travel, values) ==
  /\ values \in [Fields(travel) -> 0..2]
  /\ \A field \in Fields(travel) : values[field] \in Values(travel, field)

HeldOf(travel) ==
  [at : {"holding"}, prefs : [Fields(travel) -> 0..2], edited : Fields(travel) \union {"nothing"},
   fresh : BOOLEAN]

AsRead(travel, values, held) ==
  held.fresh => \A field \in Fields(travel) :
    field # held.edited => held.prefs[field] = Read(travel, Reply(travel, values))[field]

ReadBackOf(travel) == (travel.presence \union travel.explicit) \ {"amuleApiAdmin"}

SectionInv(travel, values, callers, set) ==
  /\ ValuesOf(travel, values)
  /\ callers \in [Callers -> HeldOf(travel) \union {Idle}]
  /\ \A c \in Callers : callers[c] # Idle =>
       ValuesOf(travel, callers[c].prefs) /\ AsRead(travel, values, callers[c])
  /\ set # NothingSaved => \A field \in ReadBackOf(travel) : values[field] = set.prefs[field]

PreferenceInv ==
  /\ section = "none" => saved = NothingSaved /\ caller = [c \in Callers |-> Idle]
  /\ section # "none" => section \in DOMAIN Sections /\ SectionInv(Travel, stored, caller, saved)

Untouched(c) ==
  /\ caller[c].at = "holding" /\ caller'[c] = Idle /\ caller[c].fresh
  => \A field \in Fields(Travel) :
       \/ stored'[field] = stored[field]
       \/ field = caller[c].edited
       \/ /\ field = "amuleApiGuest.passwordHash"
          /\ caller[c].prefs["amuleApiGuest"] = 0

LEMMA SameSection ==
  ASSUME section # "none", section \in DOMAIN Sections, UNCHANGED section,
         SectionInv(Travel, stored', caller', saved')
  PROVE  PreferenceInv'
<1>1. Travel' = Travel
  BY DEF Travel
<1> QED  BY <1>1 DEF PreferenceInv

(* What the getter returns of values: a flag and a value as they are, a    *)
(* trigger as unset, whatever it does not read as nothing.                 *)
LEMMA WhatIsRead ==
  ASSUME NEW travel, WellMade(travel), NEW values, ValuesOf(travel, values)
  PROVE  LET read == Read(travel, Reply(travel, values)) IN
         /\ ValuesOf(travel, read)
         /\ \A field \in ReadBackOf(travel) : read[field] = values[field]
         /\ \A field \in travel.trigger : read[field] = 0
         /\ \A field \in Fields(travel) : read[field] \in {0, values[field]}
<1> DEFINE reply == Reply(travel, values)
           read == Read(travel, reply)
<1>1. /\ DOMAIN reply \subseteq Fields(travel) \ travel.trigger
      /\ \A field \in DOMAIN reply : reply[field] = values[field]
      /\ travel.explicit \subseteq DOMAIN reply
      /\ \A field \in travel.presence \ {"amuleApiAdmin"} : field \in DOMAIN reply <=> values[field] = 1
  BY DEF Reply, Fields, WellMade, OneWay
<1>2. \A field \in travel.presence : values[field] \in 0..1
  BY DEF ValuesOf, Values, Fields, WellMade, OneWay
<1>3. read = [field \in Fields(travel) |->
                IF field \in DOMAIN reply \ travel.trigger THEN reply[field] ELSE 0]
  BY DEF Read
<1>4. \A field \in Fields(travel) : values[field] \in Values(travel, field) /\ 0 \in Values(travel, field)
                                    /\ values[field] \in 0..2
  BY DEF ValuesOf, Values
<1>5. travel.presence \union travel.explicit \union travel.trigger \subseteq Fields(travel)
  BY DEF Fields
<1> HIDE DEF reply, read
<1>6. \A field \in Fields(travel) : read[field] \in {0, values[field]}
  BY <1>1, <1>3
<1>7. ValuesOf(travel, read)
  <2>1. read \in [Fields(travel) -> 0..2]
    BY <1>1, <1>3, <1>4
  <2> QED  BY <1>4, <1>6, <2>1 DEF ValuesOf
<1>8. \A field \in travel.trigger : read[field] = 0
  BY <1>3, <1>5
<1>9. ASSUME NEW field \in ReadBackOf(travel) PROVE read[field] = values[field]
  <2>1. field \in Fields(travel) /\ field \notin travel.trigger
    BY <1>5, <1>9 DEF ReadBackOf, WellMade, OneWay
  <2>2. CASE field \in travel.explicit
    BY <1>1, <1>3, <2>1, <2>2
  <2>3. CASE field \in travel.presence \ {"amuleApiAdmin"}
    BY <1>1, <1>2, <1>3, <2>1, <2>3
  <2> QED  BY <1>9, <2>2, <2>3 DEF ReadBackOf
<1> QED  BY <1>6, <1>7, <1>8, <1>9 DEF read, reply

(* What a setter makes of the values: the flags and the values are those   *)
(* of the record; of the rest, what it sends is from the record and what   *)
(* it does not send stays, but for the hash of the guest.                  *)
LEMMA WhatIsSet ==
  ASSUME NEW travel, WellMade(travel), NEW values, ValuesOf(travel, values),
         NEW prefs, ValuesOf(travel, prefs)
  PROVE  LET after == Applied(travel, values, SetRequest(travel, prefs)) IN
         /\ ValuesOf(travel, after)
         /\ \A field \in ReadBackOf(travel) : after[field] = prefs[field]
         /\ \A field \in travel.readOnly : after[field] = values[field]
         /\ \A field \in travel.trigger : prefs[field] = 0 => after[field] = values[field]
         /\ \A field \in HashesOf(travel) :
              \/ after[field] = values[field]
              \/ prefs[field] # 0 /\ after[field] = prefs[field]
              \/ field = GuestHash /\ prefs["amuleApiGuest"] = 0
         /\ "amuleApiAdmin" \in travel.presence =>
              \/ after["amuleApiAdmin"] = values["amuleApiAdmin"]
              \/ prefs["amuleApiAdmin"] = 1 /\ after["amuleApiAdmin"] = 1
<1> DEFINE request == SetRequest(travel, prefs)
           tags == Tags(travel, prefs)
           after == Applied(travel, values, request)
           F == Fields(travel)
<1>1. /\ DOMAIN values = F
      /\ \A field \in F : /\ values[field] \in Values(travel, field) /\ values[field] \in 0..2
                          /\ prefs[field] \in Values(travel, field) /\ prefs[field] \in 0..2
                          /\ 0 \in Values(travel, field)
  BY DEF ValuesOf, Values
<1>2. \A field \in travel.presence \union travel.trigger : field \in F /\ prefs[field] \in 0..1
  BY DEF ValuesOf, Values, Fields, WellMade, OneWay
<1>3. /\ DOMAIN tags \subseteq F
      /\ travel.explicit \subseteq DOMAIN tags
      /\ \A field \in DOMAIN tags : tags[field] = prefs[field]
      /\ \A field \in travel.presence : field \in DOMAIN tags <=> prefs[field] = 1
      /\ \A field \in travel.trigger : field \in DOMAIN tags <=> prefs[field] = 1
      /\ \A field \in travel.readOnly : field \notin DOMAIN tags
      /\ \A field \in HashesOf(travel) : field \in DOMAIN tags => prefs[field] # 0
  BY DEF Tags, Fields, WellMade, OneWay
<1>4. after = [field \in F |->
                IF field \in DOMAIN tags THEN tags[field]
                ELSE IF \/ field \in travel.presence \ {"amuleApiAdmin"}
                        \/ field = GuestHash /\ "amuleApiGuest" \notin DOMAIN tags
                     THEN 0 ELSE values[field]]
  BY <1>1 DEF Applied, SetRequest, GuestHash
<1>5. /\ travel.presence \union travel.explicit \union travel.readOnly \union travel.trigger
           \union HashesOf(travel) \subseteq F
      /\ GuestHash \in F => GuestHash \in HashesOf(travel) /\ "amuleApiGuest" \in travel.presence
  BY DEF Fields, WellMade
<1> HIDE DEF request, tags, after, F
<1>6. ValuesOf(travel, after)
  <2>1. \A field \in F : after[field] \in Values(travel, field) /\ after[field] \in 0..2
    BY <1>1, <1>3, <1>4
  <2>2. after \in [F -> 0..2]
    BY <1>4, <2>1
  <2> QED  BY <2>1, <2>2 DEF ValuesOf, F
<1>7. ASSUME NEW field \in ReadBackOf(travel) PROVE after[field] = prefs[field]
  <2>1. field \in F
    BY <1>5, <1>7 DEF ReadBackOf
  <2>2. CASE field \in travel.explicit
    BY <1>3, <1>4, <2>1, <2>2
  <2>3. CASE field \in travel.presence \ {"amuleApiAdmin"}
    BY <1>2, <1>3, <1>4, <2>1, <2>3
  <2> QED  BY <1>7, <2>2, <2>3 DEF ReadBackOf
<1>8. \A field \in F \ (travel.presence \union {GuestHash}) : field \notin DOMAIN tags => after[field] = values[field]
  BY <1>4
<1>9. \A field \in travel.readOnly \union travel.trigger :
        field \in F /\ field \notin travel.presence /\ field # GuestHash
  BY <1>5 DEF WellMade, OneWay
<1>10. ASSUME NEW field \in HashesOf(travel)
       PROVE  \/ after[field] = values[field]
              \/ prefs[field] # 0 /\ after[field] = prefs[field]
              \/ field = GuestHash /\ prefs["amuleApiGuest"] = 0
  <2>1. field \in F /\ field \notin travel.presence
    BY <1>5, <1>10 DEF WellMade, OneWay
  <2>2. CASE field \in DOMAIN tags
    BY <1>3, <1>4, <1>10, <2>1, <2>2
  <2>3. CASE field \notin DOMAIN tags /\ field # GuestHash
    BY <1>8, <2>1, <2>3
  <2>4. CASE field \notin DOMAIN tags /\ field = GuestHash
    <3>1. CASE "amuleApiGuest" \in DOMAIN tags
      BY <1>4, <2>1, <2>4, <3>1
    <3>2. CASE "amuleApiGuest" \notin DOMAIN tags
      <4>1. prefs["amuleApiGuest"] = 0
        BY <1>2, <1>3, <1>5, <2>1, <2>4, <3>2
      <4> QED  BY <2>4, <4>1
    <3> QED  BY <3>1, <3>2
  <2> QED  BY <2>2, <2>3, <2>4
<1>11. ASSUME "amuleApiAdmin" \in travel.presence
       PROVE  \/ after["amuleApiAdmin"] = values["amuleApiAdmin"]
              \/ prefs["amuleApiAdmin"] = 1 /\ after["amuleApiAdmin"] = 1
  <2>1. "amuleApiAdmin" \in F /\ "amuleApiAdmin" # GuestHash
    BY <1>5, <1>11 DEF GuestHash
  <2> QED  BY <1>3, <1>4, <1>11, <2>1
<1>12. \A field \in travel.readOnly : after[field] = values[field]
  BY <1>3, <1>8, <1>9
<1>13. \A field \in travel.trigger : prefs[field] = 0 => after[field] = values[field]
  BY <1>3, <1>8, <1>9
<1> QED  BY <1>6, <1>7, <1>10, <1>11, <1>12, <1>13 DEF after, request

LEMMA SectionOpened == PreferenceInv /\ Open => PreferenceInv' /\ \A c \in Callers : Untouched(c)
<1> SUFFICES ASSUME PreferenceInv, Open PROVE PreferenceInv' /\ \A c \in Callers : Untouched(c)
  OBVIOUS
<1>1. section = "none" /\ UNCHANGED <<caller, saved>>
  BY DEF Open
<1>2. saved = NothingSaved /\ caller = [c \in Callers |-> Idle]
  BY <1>1 DEF PreferenceInv
<1>3. PICK name \in DOMAIN Sections, value \in 0..1 :
        /\ section' = name
        /\ stored' = [field \in Fields(Sections[name]) |->
                        IF field \in Sections[name].trigger THEN 0
                        ELSE IF field \in Sections[name].hashes THEN 1 ELSE value]
  BY DEF Open
<1> DEFINE travel == Sections[name]
<1>4. Travel' = travel /\ section' \in DOMAIN Sections /\ section' # "none"
  BY <1>3 DEF Travel, Sections
<1> HIDE DEF travel
<1>5. ValuesOf(travel, stored')
  <2>1. \A field \in Fields(travel) : stored'[field] \in 0..1 /\ 0..1 \subseteq Values(travel, field)
                                      /\ stored'[field] \in 0..2
    BY <1>3 DEF Values, travel
  <2>2. stored' \in [Fields(travel) -> 0..2]
    BY <1>3, <2>1 DEF travel
  <2> QED  BY <2>1, <2>2 DEF ValuesOf
<1>6. SectionInv(travel, stored', caller', saved')
  BY <1>1, <1>2, <1>5 DEF SectionInv
<1>7. PreferenceInv'
  BY <1>4, <1>6 DEF PreferenceInv
<1>8. \A c \in Callers : Untouched(c)
  BY <1>2 DEF Untouched, Idle
<1> QED  BY <1>7, <1>8

LEMMA SectionRead ==
  ASSUME PreferenceInv, NEW c \in Callers, Get(c)
  PROVE  PreferenceInv' /\ \A d \in Callers : Untouched(d)
<1> DEFINE read == Read(Travel, Reply(Travel, stored))
           held == Holding(read, "nothing", TRUE)
<1>1. /\ section # "none" /\ UNCHANGED <<section, stored, saved>>
      /\ caller' = [caller EXCEPT ![c] = held]
  BY DEF Get
<1>2. section \in DOMAIN Sections /\ SectionInv(Travel, stored, caller, saved)
  BY <1>1 DEF PreferenceInv
<1>3. WellMade(Travel) /\ ValuesOf(Travel, stored)
  BY <1>2, SectionsMade DEF Travel, SectionInv
<1>4. ValuesOf(Travel, read)
  BY <1>3, WhatIsRead
<1>5. /\ held \in HeldOf(Travel) /\ held # Idle /\ ValuesOf(Travel, held.prefs)
      /\ AsRead(Travel, stored, held)
  BY <1>4 DEF HeldOf, Holding, Idle, ValuesOf, AsRead
<1> HIDE DEF read, held
<1>6. SectionInv(Travel, stored', caller', saved')
  BY <1>1, <1>2, <1>5 DEF SectionInv
<1>7. PreferenceInv'
  BY <1>1, <1>2, <1>6, SameSection
<1>8. \A d \in Callers : Untouched(d)
  <2>1. \A d \in Callers : caller[d] = Idle \/ caller'[d] # Idle
    BY <1>1, <1>2, <1>5 DEF SectionInv
  <2> QED  BY <2>1 DEF Untouched, Idle
<1> QED  BY <1>7, <1>8

LEMMA FieldEdited ==
  ASSUME PreferenceInv, NEW c \in Callers, Edit(c)
  PROVE  PreferenceInv' /\ \A d \in Callers : Untouched(d)
<1>1. /\ caller[c].at = "holding" /\ caller[c].edited = "nothing" /\ UNCHANGED <<section, stored, saved>>
  BY DEF Edit
<1>2. section # "none"
  BY <1>1 DEF PreferenceInv, Idle
<1>3. section \in DOMAIN Sections /\ SectionInv(Travel, stored, caller, saved)
  BY <1>2 DEF PreferenceInv
<1>4. PICK field \in Fields(Travel) : \E value \in Values(Travel, field) :
        caller' = [caller EXCEPT ![c].prefs[field] = value, ![c].edited = field]
  BY DEF Edit
<1>5. PICK value \in Values(Travel, field) :
        caller' = [caller EXCEPT ![c].prefs[field] = value, ![c].edited = field]
  BY <1>4
<1> DEFINE held == caller[c]
           prefs == [held.prefs EXCEPT ![field] = value]
           now == [held EXCEPT !.prefs = prefs, !.edited = field]
<1>6. /\ held \in HeldOf(Travel) /\ held # Idle /\ ValuesOf(Travel, held.prefs)
      /\ AsRead(Travel, stored, held)
  BY <1>1, <1>3 DEF SectionInv, Idle
<1>7. caller' = [caller EXCEPT ![c] = now]
  BY <1>3, <1>5 DEF SectionInv
<1>8. ValuesOf(Travel, prefs)
  <2>1. value \in 0..2
    BY <1>5 DEF Values
  <2> QED  BY <1>4, <1>5, <1>6, <2>1 DEF ValuesOf
<1> HIDE DEF prefs
<1>9. /\ now \in HeldOf(Travel) /\ now # Idle
      /\ now.prefs = prefs /\ now.edited = field /\ now.fresh = held.fresh
  <2>1. prefs \in [Fields(Travel) -> 0..2] /\ field \in Fields(Travel)
    BY <1>4, <1>8 DEF ValuesOf
  <2>2. held \in HeldOf(Travel)
    BY <1>6
  <2> HIDE DEF held
  <2>3. now \in HeldOf(Travel)
    BY <2>1, <2>2 DEF HeldOf
  <2>4. now.prefs = prefs /\ now.edited = field /\ now.fresh = held.fresh /\ now.at = "holding"
    BY <2>2 DEF HeldOf
  <2> QED  BY <2>3, <2>4 DEF Idle
<1>10. AsRead(Travel, stored, now)
  <2>1. "nothing" \notin Fields(Travel)
    BY <1>3, SectionsMade DEF WellMade, Travel
  <2>2. DOMAIN held.prefs = Fields(Travel)
    BY <1>6 DEF ValuesOf
  <2>3. \A other \in Fields(Travel) : other # field => prefs[other] = held.prefs[other]
    BY <2>2 DEF prefs
  <2> QED  BY <1>1, <1>6, <1>9, <2>1, <2>3 DEF AsRead
<1> HIDE DEF now
<1>11. SectionInv(Travel, stored', caller', saved')
  BY <1>1, <1>3, <1>7, <1>8, <1>9, <1>10 DEF SectionInv
<1>12. PreferenceInv'
  BY <1>1, <1>2, <1>3, <1>11, SameSection
<1>13. \A d \in Callers : Untouched(d)
  <2>1. \A d \in Callers : caller[d] = Idle \/ caller'[d] # Idle
    BY <1>3, <1>7, <1>9 DEF SectionInv
  <2> QED  BY <2>1 DEF Untouched, Idle
<1> QED  BY <1>12, <1>13

(* Once somebody wrote the section, nobody's record is fresh.              *)
LEMMA Stale ==
  ASSUME NEW travel, NEW held \in HeldOf(travel), ValuesOf(travel, held.prefs)
  PROVE  /\ [held EXCEPT !.fresh = FALSE] \in HeldOf(travel)
         /\ ValuesOf(travel, [held EXCEPT !.fresh = FALSE].prefs)
         /\ [held EXCEPT !.fresh = FALSE] # Idle /\ held # Idle
         /\ \A values : AsRead(travel, values, [held EXCEPT !.fresh = FALSE])
<1>1. /\ [held EXCEPT !.fresh = FALSE] \in HeldOf(travel) /\ [held EXCEPT !.fresh = FALSE].fresh = FALSE
      /\ [held EXCEPT !.fresh = FALSE].prefs = held.prefs
      /\ [held EXCEPT !.fresh = FALSE].at = "holding" /\ held.at = "holding"
  BY DEF HeldOf
<1> QED  BY <1>1 DEF AsRead, Idle

LEMMA WrittenElsewhere == PreferenceInv /\ SetElsewhere => PreferenceInv' /\ \A c \in Callers : Untouched(c)
<1> SUFFICES ASSUME PreferenceInv, SetElsewhere PROVE PreferenceInv' /\ \A c \in Callers : Untouched(c)
  OBVIOUS
<1>1. /\ section # "none" /\ UNCHANGED section /\ saved' = NothingSaved
      /\ caller' = [c \in Callers |-> IF caller[c] = Idle THEN Idle
                                      ELSE [caller[c] EXCEPT !.fresh = FALSE]]
  BY DEF SetElsewhere
<1>2. section \in DOMAIN Sections /\ SectionInv(Travel, stored, caller, saved)
  BY <1>1 DEF PreferenceInv
<1>3. ValuesOf(Travel, stored')
  <2>1. PICK url \in Travel.urls : stored' = [stored EXCEPT ![url] = 2]
    BY DEF SetElsewhere
  <2>2. url \in Fields(Travel) /\ 2 \in Values(Travel, url)
    BY <1>2, <2>1, SectionsMade DEF WellMade, Travel, Fields, Values
  <2>3. stored \in [Fields(Travel) -> 0..2]
        /\ \A field \in Fields(Travel) : stored[field] \in Values(Travel, field)
    BY <1>2 DEF SectionInv, ValuesOf
  <2> QED  BY <2>1, <2>2, <2>3 DEF ValuesOf
<1>4. \A c \in Callers : caller[c] \in HeldOf(Travel) \union {Idle}
                         /\ (caller[c] # Idle => ValuesOf(Travel, caller[c].prefs))
  BY <1>2 DEF SectionInv
<1>5. \A c \in Callers :
        /\ caller'[c] \in HeldOf(Travel) \union {Idle}
        /\ caller[c] = Idle \/ caller'[c] # Idle
        /\ caller'[c] # Idle => ValuesOf(Travel, caller'[c].prefs) /\ AsRead(Travel, stored', caller'[c])
  BY <1>1, <1>4, Stale
<1>6. caller' \in [Callers -> HeldOf(Travel) \union {Idle}]
  BY <1>1, <1>5
<1>7. SectionInv(Travel, stored', caller', saved')
  BY <1>1, <1>3, <1>5, <1>6 DEF SectionInv
<1>8. PreferenceInv'
  BY <1>1, <1>2, <1>7, SameSection
<1>9. \A c \in Callers : Untouched(c)
  BY <1>5 DEF Untouched, Idle
<1> QED  BY <1>8, <1>9

LEMMA SectionSet ==
  ASSUME PreferenceInv, NEW c \in Callers, Set(c)
  PROVE  PreferenceInv' /\ \A d \in Callers : Untouched(d)
<1> DEFINE prefs == caller[c].prefs
           after == Applied(Travel, stored, SetRequest(Travel, prefs))
<1>1. /\ caller[c].at = "holding" /\ UNCHANGED section
      /\ caller' = [d \in Callers |-> IF d = c THEN Idle
                                      ELSE IF caller[d] = Idle THEN Idle
                                      ELSE [caller[d] EXCEPT !.fresh = FALSE]]
      /\ \/ stored' = stored /\ saved' = saved
         \/ stored' = after /\ saved' \in {NothingSaved, [by |-> c, prefs |-> prefs]}
  BY DEF Set
<1>2. section # "none"
  BY <1>1 DEF PreferenceInv, Idle
<1>3. section \in DOMAIN Sections /\ SectionInv(Travel, stored, caller, saved)
  BY <1>2 DEF PreferenceInv
<1>4. /\ WellMade(Travel) /\ ValuesOf(Travel, stored) /\ ValuesOf(Travel, prefs)
      /\ AsRead(Travel, stored, caller[c])
  BY <1>1, <1>3, SectionsMade DEF SectionInv, Travel, Idle
<1> HIDE DEF prefs
<1>5. /\ ValuesOf(Travel, after)
      /\ \A field \in ReadBackOf(Travel) : after[field] = prefs[field]
      /\ \A field \in Travel.readOnly : after[field] = stored[field]
      /\ \A field \in Travel.trigger : prefs[field] = 0 => after[field] = stored[field]
      /\ \A field \in HashesOf(Travel) :
           \/ after[field] = stored[field]
           \/ prefs[field] # 0 /\ after[field] = prefs[field]
           \/ field = GuestHash /\ prefs["amuleApiGuest"] = 0
      /\ "amuleApiAdmin" \in Travel.presence =>
           \/ after["amuleApiAdmin"] = stored["amuleApiAdmin"]
           \/ prefs["amuleApiAdmin"] = 1 /\ after["amuleApiAdmin"] = 1
  BY <1>4, WhatIsSet
<1> DEFINE read == Read(Travel, Reply(Travel, stored))
<1>6. /\ \A field \in ReadBackOf(Travel) : read[field] = stored[field]
      /\ \A field \in Travel.trigger : read[field] = 0
      /\ \A field \in Fields(Travel) : read[field] \in {0, stored[field]}
  BY <1>4, WhatIsRead
<1>7. caller[c].fresh => \A field \in Fields(Travel) : field # caller[c].edited => prefs[field] = read[field]
  BY <1>4 DEF AsRead, prefs
<1> HIDE DEF after, read
<1>8. Untouched(c)
  <2> SUFFICES ASSUME caller[c].fresh, NEW field \in Fields(Travel), field # caller[c].edited,
                      stored' = after
               PROVE  \/ after[field] = stored[field]
                      \/ field = GuestHash /\ prefs["amuleApiGuest"] = 0
    BY <1>1 DEF Untouched, GuestHash, prefs
  <2>1. prefs[field] = read[field] /\ read[field] \in {0, stored[field]}
    BY <1>6, <1>7
  <2>2. \/ field \in ReadBackOf(Travel) \/ field \in Travel.readOnly \/ field \in Travel.trigger
        \/ field \in HashesOf(Travel) \/ (field = "amuleApiAdmin" /\ field \in Travel.presence)
    BY <1>4 DEF ReadBackOf, Fields, WellMade
  <2> QED  BY <1>5, <1>6, <2>1, <2>2
<1>9. \A d \in Callers : caller[d] \in HeldOf(Travel) \union {Idle}
                         /\ (caller[d] # Idle => ValuesOf(Travel, caller[d].prefs))
  BY <1>3 DEF SectionInv
<1>10. \A d \in Callers :
        /\ caller'[d] \in HeldOf(Travel) \union {Idle}
        /\ d = c \/ caller[d] = Idle \/ caller'[d] # Idle
        /\ caller'[d] # Idle => ValuesOf(Travel, caller'[d].prefs) /\ AsRead(Travel, stored', caller'[d])
  BY <1>1, <1>9, Stale
<1>11. caller' \in [Callers -> HeldOf(Travel) \union {Idle}]
  BY <1>1, <1>10
<1>12. ValuesOf(Travel, stored')
  BY <1>1, <1>4, <1>5
<1>13. saved' # NothingSaved => \A field \in ReadBackOf(Travel) : stored'[field] = saved'.prefs[field]
  BY <1>1, <1>3, <1>5 DEF SectionInv
<1>14. SectionInv(Travel, stored', caller', saved')
  BY <1>10, <1>11, <1>12, <1>13 DEF SectionInv
<1>15. PreferenceInv'
  BY <1>1, <1>2, <1>3, <1>14, SameSection
<1>16. \A d \in Callers : Untouched(d)
  BY <1>8, <1>10 DEF Untouched, Idle
<1> QED  BY <1>15, <1>16

LEMMA PreferenceStep ==
  PreferenceInv /\ [PreferenceNext]_preferenceVars => PreferenceInv' /\ \A c \in Callers : Untouched(c)
<1> SUFFICES ASSUME PreferenceInv, [PreferenceNext]_preferenceVars
             PROVE  PreferenceInv' /\ \A c \in Callers : Untouched(c)
  OBVIOUS
<1>1. CASE Open
  BY <1>1, SectionOpened
<1>2. CASE SetElsewhere
  BY <1>2, WrittenElsewhere
<1>3. ASSUME NEW c \in Callers, Get(c) \/ Edit(c) \/ Set(c)
      PROVE  PreferenceInv' /\ \A d \in Callers : Untouched(d)
  BY <1>3, SectionRead, FieldEdited, SectionSet
<1>4. CASE UNCHANGED preferenceVars
  <2>1. UNCHANGED <<section, stored, caller, saved>>
    BY <1>4 DEF preferenceVars
  <2>2. Travel' = Travel
    BY <2>1 DEF Travel
  <2> QED  BY <2>1, <2>2 DEF PreferenceInv, Untouched
<1> QED  BY <1>1, <1>2, <1>3, <1>4 DEF PreferenceNext

LEMMA PreferenceInitInv == PreferenceInit => PreferenceInv
BY DEF PreferenceInit, PreferenceInv

(* In every section, with any number of callers, what a setter that        *)
(* resolved has set is what a getter returns (the get and set functions of *)
(* Preferences).                                                           *)
THEOREM GetReturnsWhatWasSet == PreferenceSpec => []ReadsBackWhatWasSet
<1>1. PreferenceInv => ReadsBackWhatWasSet
  <2> SUFFICES ASSUME PreferenceInv, saved # NothingSaved, NEW field \in ReadBackOf(Travel)
               PROVE  Read(Travel, Reply(Travel, stored))[field] = saved.prefs[field]
    BY DEF ReadsBackWhatWasSet, ReadBackOf
  <2>1. section \in DOMAIN Sections /\ SectionInv(Travel, stored, caller, saved)
    BY DEF PreferenceInv
  <2>2. WellMade(Travel) /\ ValuesOf(Travel, stored) /\ stored[field] = saved.prefs[field]
    BY <2>1, SectionsMade DEF SectionInv, Travel
  <2> QED  BY <2>2, WhatIsRead
<1> QED  BY <1>1, PreferenceInitInv, PreferenceStep, PTL DEF PreferenceSpec

(* In every section, sending a fresh record back with one field edited     *)
(* changes no other (the get and set functions of Preferences).            *)
THEOREM SetTouchesNothingElse == PreferenceSpec => SetKeepsTheRest
<1>1. PreferenceInv /\ [PreferenceNext]_preferenceVars => [\A c \in Callers : Untouched(c)]_preferenceVars
  BY PreferenceStep
<1>2. PreferenceSpec => [][\A c \in Callers : Untouched(c)]_preferenceVars
  BY <1>1, PreferenceInitInv, PreferenceStep, PTL DEF PreferenceSpec
<1> QED  BY <1>2 DEF SetKeepsTheRest, Untouched

(* The types of the preferences: a record has the fields of its section.   *)
SavesCounted == saves \in 0..MaxSaves /\ edits \in 0..MaxEdits

LEMMA SavesCountedStep == SavesCounted /\ [PreferenceNext]_preferenceVars => SavesCounted'
<1> SUFFICES ASSUME SavesCounted, [PreferenceNext]_preferenceVars PROVE SavesCounted'
  OBVIOUS
<1>1. ASSUME NEW c \in Callers, Edit(c) PROVE SavesCounted'
  BY <1>1, PreferenceAssumption DEF Edit, SavesCounted
<1>2. ASSUME NEW c \in Callers, Set(c) PROVE SavesCounted'
  BY <1>2, PreferenceAssumption DEF Set, SavesCounted
<1>3. CASE SetElsewhere
  BY <1>3, PreferenceAssumption DEF SetElsewhere, SavesCounted
<1>4. CASE UNCHANGED <<saves, edits>>
  BY <1>4 DEF SavesCounted
<1>5. (\E c \in Callers : Edit(c) \/ Set(c)) \/ SetElsewhere \/ UNCHANGED <<saves, edits>>
  BY DEF PreferenceNext, Open, Get, preferenceVars
<1> QED  BY <1>1, <1>2, <1>3, <1>4, <1>5

LEMMA SectionTypes == PreferenceInv /\ SavesCounted => PreferenceTypeOK
<1> SUFFICES ASSUME PreferenceInv, SavesCounted PROVE PreferenceTypeOK
  OBVIOUS
<1>1. section \in DOMAIN Sections \union {"none"}
  BY DEF PreferenceInv
<1>2. ASSUME section # "none"
      PROVE  /\ stored \in [Fields(Travel) -> 0..2]
             /\ \A c \in Callers : caller[c] = Idle \/ DOMAIN caller[c].prefs = Fields(Travel)
  BY <1>2 DEF PreferenceInv, SectionInv, ValuesOf, HeldOf
<1> QED  BY <1>1, <1>2 DEF PreferenceTypeOK, SavesCounted

(* What is stored, read, edited and sent back is a record of the fields of *)
(* one section, whoever saves in between.                                  *)
THEOREM PreferenceTypeCorrect == PreferenceSpec => []PreferenceTypeOK
<1>1. PreferenceInit => SavesCounted
  BY PreferenceAssumption DEF PreferenceInit, SavesCounted
<1> QED
  BY <1>1, PreferenceInitInv, PreferenceStep, SavesCountedStep, SectionTypes, PTL DEF PreferenceSpec

-----------------------------------------------------------------------------
(* The parts of the client together.  In a behaviour of MCClient the part  *)
(* that is active takes its own steps and the others none, so that each of *)
(* them behaves as its own module says.                                    *)
partVars ==
  <<active, mirrorVars, codecVars, preferenceVars, chatVars, searchVars, updateVars,
    trackerVars, serviceVars>>

LEMMA OnePartSteps ==
  ASSUME [Next]_partVars
  PROVE  /\ [MirrorNext]_mirrorVars /\ [CodecNext]_codecVars
         /\ [PreferenceNext]_preferenceVars /\ [ChatNext]_chatVars
         /\ [SearchNext]_searchVars /\ [UpdateNext]_updateVars
         /\ [TrackerNext]_trackerVars /\ [ServiceNext]_serviceVars
<1>1. CASE UNCHANGED partVars
  BY <1>1 DEF partVars
<1>2. CASE Next
  BY <1>2, Zenon DEF Next, Alone
<1> QED  BY <1>1, <1>2

(* Whatever a theorem says of the specification of a part holds in the run *)
(* of all of them (the classes of AmuleECClient share nothing but the      *)
(* connection).                                                            *)
THEOREM PartsGoAlone ==
  Spec => /\ MirrorSpec /\ CodecSpec /\ PreferenceSpec /\ ChatSpec
          /\ SearchSpec /\ UpdateSpec /\ TrackerSpec /\ ServiceSpec
<1>1. Init => /\ MirrorInit /\ CodecInit /\ PreferenceInit /\ ChatInit
              /\ SearchInit /\ UpdateInit /\ TrackerInit /\ ServiceInit
  BY Zenon DEF Init
<1>2. Spec => Init /\ [][Next]_partVars
  BY DEF Spec, partVars
<1> QED
  BY <1>1, <1>2, OnePartSteps, PTL
  DEF MirrorSpec, CodecSpec, PreferenceSpec, ChatSpec, SearchSpec, UpdateSpec, TrackerSpec, ServiceSpec

(* Each part keeps its types, for any of its constants.                    *)
THEOREM ClientTypeCorrect == Spec => []TypeOK
<1>1. MirrorTypeOK /\ PreferenceTypeOK /\ ChatTypeOK /\ SearchTypeOK /\ UpdateTypeOK
        /\ TrackerTypeOK /\ ServiceTypeOK => TypeOK
  BY Zenon DEF TypeOK
<1> QED
  BY <1>1, PartsGoAlone, MirrorTypeCorrect, PreferenceTypeCorrect, ChatTypeCorrect,
     SearchTypeCorrect, UpdateTypeCorrect, TrackerTypeCorrect, ServiceTypeCorrect, PTL
=============================================================================
