------------------------------ MODULE Services ------------------------------
(***************************************************************************)
(* The methods of the services that are one request() each: what they      *)
(* check before they send, the opcode they send, the replies they accept,  *)
(* and whether they ask the daemon to change something.  They share a      *)
(* connection, which serves them one at a time and in order (ECConnection),*)
(* may be read-only, and may be replaced.  Daemon.shutdown() is the one    *)
(* request that is sent without waiting for its turn or for a reply.       *)
(*                                                                         *)
(* Opcodes are named without EC_OP_.  What a reply is made into is left    *)
(* out.                                                                    *)
(***************************************************************************)
EXTENDS Naturals, Sequences, FiniteSets

CONSTANTS
  MaxCalls,       \* bound: calls made
  MaxConnections  \* bound: connections they go through

VARIABLES
  readOnly,       \* ECConnection.readOnly
  capabilities,   \* remoteCapabilities, as the last handshake left them
  up,             \* the connection is open and authenticated
  connection,     \* which of the successive ones it is
  calls,          \* every call: its method, how far it is, and what the daemon did
  outbound,       \* requests on their way to the daemon: the number of a call, or 0
  inbound,        \* replies on their way back
  shutDown        \* shutdown() was sent, once at most

serviceVars == <<readOnly, capabilities, up, connection, calls, outbound, inbound, shutDown>>

ASSUME ServiceAssumption == MaxCalls \in Nat /\ MaxConnections \in Nat \ {0}

-----------------------------------------------------------------------------
(* The methods. *)

(* A method that reads, and accepts one reply. *)
Fetch(opcode, reply) ==
  [opcode |-> opcode, replies |-> {reply}, changes |-> FALSE, needs |-> {},
   arguments |-> FALSE, partly |-> FALSE]

(* One that asks for a change; the reply to accept is EC_OP_NOOP. *)
Order(opcode) == [Fetch(opcode, "NOOP") EXCEPT !.changes = TRUE]

(* With arguments, which may make it throw before anything is sent: a URL, *)
(* an address or a hash that is not one, a number too large for its tag.   *)
WithArguments(method) == [method EXCEPT !.arguments = TRUE]
Command(opcode) == WithArguments(Order(opcode))

(* One that accepts other replies.                                        *)
Accepting(method, replies) == [method EXCEPT !.replies = replies]

(* One that throws without a capability of the daemon. *)
Needing(method, capability) == [method EXCEPT !.needs = {capability}]

(* One that EC_OP_FAILED may answer although the change was made. *)
MayDoPartly(method) == [method EXCEPT !.partly = TRUE]

DownloadsMethods ==
  [fetch |-> Fetch("GET_DLOAD_QUEUE", "DLOAD_QUEUE"),
   cancel |-> Command("PARTFILE_DELETE"), rename |-> Command("RENAME_FILE"),
   pause |-> Command("PARTFILE_PAUSE"), resume |-> Command("PARTFILE_RESUME"),
   stop |-> Command("PARTFILE_STOP"), swapA4AFThis |-> Command("PARTFILE_SWAP_A4AF_THIS"),
   swapA4AFThisAuto |-> Command("PARTFILE_SWAP_A4AF_THIS_AUTO"),
   swapA4AFOthers |-> Command("PARTFILE_SWAP_A4AF_OTHERS")]

PartFileSettings ==
  [setCategory |-> Command("PARTFILE_SET_CAT"), setA4AFAuto |-> Command("PARTFILE_SET_A4AF_AUTO"),
   prioritySet |-> Command("PARTFILE_PRIO_SET"), addLink |-> Command("ADD_LINK"),
   clearCompleted |-> Command("CLEAR_COMPLETED")]

SharedFilesMethods ==
  [fetch |-> Fetch("GET_SHARED_FILES", "SHARED_FILES"), reload |-> Order("SHAREDFILES_RELOAD"),
   setPriority |-> Command("SHARED_SET_PRIO"),
   setComment |-> Command("SHARED_FILE_SET_COMMENT"),
   searchKadNotes |-> Command("SHARED_FILE_SEARCH_KAD_NOTES"),
   verifyLocalData |-> Command("VERIFY_LOCAL_DATA")]

(* EC_OP_SET_SHARED_DIRS is its own reply, with the directories refused.   *)
SharedFilesUpkeep ==
  [refreshMediaMetadata |-> Command("REFRESH_MEDIA_METADATA"),
   refreshAllMediaMetadata |-> Order("REFRESH_MEDIA_METADATA"),
   getSharedDirs |-> Needing(Fetch("GET_SHARED_DIRS", "GET_SHARED_DIRS"), "sharedDirsConfig"),
   setSharedDirs |-> Needing(Accepting(Command("SET_SHARED_DIRS"), {"SET_SHARED_DIRS"}),
                             "sharedDirsConfig")]

ServersMethods ==
  [fetch |-> Fetch("GET_SERVER_LIST", "SERVER_LIST"),
   connect |-> Command("SERVER_CONNECT"),
   remove |-> Command("SERVER_REMOVE"), add |-> Command("SERVER_ADD"),
   updateFromUrl |-> Command("SERVER_UPDATE_FROM_URL"),
   disconnect |-> Order("SERVER_DISCONNECT")]

ServersUpkeep ==
  [setStatic |-> Command("SERVER_SET_STATIC_PRIO"), setPriority |-> Command("SERVER_SET_STATIC_PRIO"),
   fetchLog |-> Fetch("GET_SERVERINFO", "SERVERINFO"), resetLog |-> Order("CLEAR_SERVERINFO")]

KadMethods ==
  [start |-> Order("KAD_START"), stop |-> Order("KAD_STOP"),
   updateNodesFromUrl |-> Command("KAD_UPDATE_FROM_URL"),
   bootstrapFromIp |-> Command("KAD_BOOTSTRAP_FROM_IP"),
   connect |-> Accepting(Order("CONNECT"), {"STRINGS"}),
   disconnect |-> Accepting(Order("DISCONNECT"), {"NOOP", "STRINGS"})]

CategoriesMethods ==
  [create |-> MayDoPartly(Command("CREATE_CATEGORY")),
   update |-> MayDoPartly(Command("UPDATE_CATEGORY")), delete |-> Command("DELETE_CATEGORY")]

(* listCategories() of Preferences. *)
ListCategories == [list |-> Fetch("GET_PREFERENCES", "SET_PREFERENCES")]

LogMethods ==
  [fetch |-> Fetch("GET_LOG", "LOG"), reset |-> Order("RESET_LOG"),
   addLine |-> Command("ADDLOGLINE"), fetchLast |-> Fetch("GET_LAST_LOG_ENTRY", "LOG")]

DebugLogMethods ==
  [fetch |-> Fetch("GET_DEBUGLOG", "DEBUGLOG"), reset |-> Order("RESET_DEBUGLOG"),
   addLine |-> Command("ADDDEBUGLOGLINE")]

UploadsMethods ==
  [fetch |-> Fetch("GET_ULOAD_QUEUE", "ULOAD_QUEUE"),
   swapClientToAnotherFile |-> Command("CLIENT_SWAP_TO_ANOTHER_FILE")]

ClientHistoryMethods ==
  [fetch |-> Needing(Fetch("GET_CLIENT_HISTORY", "CLIENT_HISTORY"), "clientHistory")]

(* EC_OP_FAILED is how the daemon says that there are no points. *)
StatsGraphsMethods ==
  [fetch |-> Accepting(WithArguments(Fetch("GET_STATSGRAPHS", "STATSGRAPHS")),
                       {"STATSGRAPHS", "FAILED"})]

StatsTreeMethods == [fetch |-> WithArguments(Fetch("GET_STATSTREE", "STATSTREE"))]

IPFilterMethods ==
  [reload |-> Order("IPFILTER_RELOAD"), updateFromUrl |-> Command("IPFILTER_UPDATE")]

FriendsMethods ==
  [addByEcid |-> Command("FRIEND"), addByHash |-> Command("FRIEND"),
   remove |-> Command("FRIEND")]

(* browseSharedFiles() has the daemon ask a client of the network. *)
FriendsOthers ==
  [setFriendSlot |-> Command("FRIEND"),
   browseSharedFiles |-> Needing(WithArguments(Fetch("FRIEND", "STRINGS")), "multiSearch")]

CheckVersion == [checkVersion |-> Order("VERSION_CHECK")]

SearchProgress == [progress |-> Fetch("SEARCH_PROGRESS", "SEARCH_PROGRESS")]

SearchDownload ==
  [download |-> Accepting(Command("DOWNLOAD_SEARCH_RESULT"), {"STRINGS"})]

SearchList == [list |-> Needing(Fetch("SEARCH_LIST", "SEARCH_LIST"), "searchList")]

Tables ==
  {DownloadsMethods, PartFileSettings, SharedFilesMethods, SharedFilesUpkeep, ServersMethods,
   ServersUpkeep, KadMethods, CategoriesMethods, ListCategories, LogMethods, DebugLogMethods,
   UploadsMethods, ClientHistoryMethods, StatsGraphsMethods, StatsTreeMethods,
   IPFilterMethods, FriendsMethods, FriendsOthers, CheckVersion, SearchProgress,
   SearchDownload, SearchList}

Methods == UNION {{table[name] : name \in DOMAIN table} : table \in Tables}
Capabilities == UNION {method.needs : method \in Methods}

(* Mutant: browseSharedFiles() let through, by its opcode. *)
WithFriends == {"GET_DLOAD_QUEUE", "GET_ULOAD_QUEUE", "GET_LOG", "FRIEND"}

(* READ_ONLY_OPCODES *)
ReadOnlyOpcodes ==
  {"AUTH_REQ", "AUTH_PASSWD", "STAT_REQ", "GET_CONNSTATE", "GET_DLOAD_QUEUE",
   "GET_ULOAD_QUEUE", "GET_SHARED_FILES", "GET_SHARED_DIRS", "SEARCH_RESULTS",
   "SEARCH_PROGRESS", "SEARCH_LIST", "GET_SERVER_LIST", "GET_SERVERINFO", "GET_LOG",
   "GET_DEBUGLOG", "GET_LAST_LOG_ENTRY", "GET_PREFERENCES", "GET_STATSGRAPHS",
   "GET_STATSTREE", "GET_UPDATE", "GET_CLIENT_HISTORY", "GET_CHAT_SESSIONS",
   "GET_CHAT_MESSAGES"}

(* The check at the head of send(). *)
MaySend(opcode) == readOnly => opcode \in ReadOnlyOpcodes

-----------------------------------------------------------------------------
ServiceTypeOK ==
  /\ readOnly \in BOOLEAN /\ capabilities \subseteq Capabilities /\ up \in BOOLEAN
  /\ connection \in 1..MaxConnections
  /\ \A n \in DOMAIN calls :
       /\ calls[n].at \in {"queued", "sent", "resolved", "failed"}
       /\ calls[n].done \in Nat
  /\ \A i \in DOMAIN outbound : outbound[i] \in 0..Len(calls)

ServiceInit ==
  /\ readOnly = FALSE /\ capabilities = {} /\ up = FALSE /\ connection = 1
  /\ calls = <<>> /\ outbound = <<>> /\ inbound = <<>> /\ shutDown = FALSE

(* The connection the services are given. *)
Connected ==
  /\ ~up /\ calls = <<>> /\ connection = 1 /\ ~shutDown
  /\ up' = TRUE /\ readOnly' \in BOOLEAN /\ capabilities' \in {{}, Capabilities}
  /\ UNCHANGED <<connection, calls, outbound, inbound, shutDown>>

Sent == {n \in DOMAIN calls : calls[n].at = "sent"}
Queued == {n \in DOMAIN calls : calls[n].at = "queued"}

(* A call: it throws at once, or goes to the end of the queue.  The calls  *)
(* after the first are of a few kinds (a bound).                           *)
CallMethod(method) ==
  /\ Len(calls) < MaxCalls
  /\ up \/ connection > 1
  /\ calls # <<>> => method \in {DownloadsMethods.pause, LogMethods.fetch, KadMethods.disconnect}
  /\ \E valid \in BOOLEAN :
       /\ valid \/ method.arguments
       /\ calls' = Append(calls,
            [method |-> method, done |-> 0,
             at |-> IF valid /\ method.needs \subseteq capabilities THEN "queued" ELSE "failed"])
  /\ UNCHANGED <<readOnly, capabilities, up, connection, outbound, inbound, shutDown>>

(* The turn of a call: send(), which also refuses what cannot be encoded   *)
(* or is over MAX_REQUEST_BYTES.                                           *)
SendCall(n) ==
  /\ up /\ n \in Queued /\ Sent = {} /\ \A m \in Queued : n <= m
  /\ \/ /\ MaySend(calls[n].method.opcode)
        /\ calls' = [calls EXCEPT ![n].at = "sent"] /\ outbound' = Append(outbound, n)
     \/ /\ ~MaySend(calls[n].method.opcode) \/ calls[n].method.arguments
        /\ calls' = [calls EXCEPT ![n].at = "failed"] /\ UNCHANGED outbound
  /\ UNCHANGED <<readOnly, capabilities, up, connection, inbound, shutDown>>

(* Daemon.shutdown(): a bare send(). *)
Shutdown ==
  /\ up /\ ~shutDown /\ MaySend("SHUTDOWN")
  /\ shutDown' = TRUE /\ outbound' = Append(outbound, 0)
  /\ UNCHANGED <<readOnly, capabilities, up, connection, calls, inbound>>

(* The daemon (external) does what it is asked and says so, refuses with   *)
(* EC_OP_FAILED, or does a part and says EC_OP_FAILED all the same.  It    *)
(* answers EC_OP_SHUTDOWN, and what was sent since is lost.                *)
DaemonServes ==
  /\ outbound # <<>> /\ Head(outbound) # 0
  /\ outbound' = Tail(outbound)
  /\ LET n == Head(outbound) IN
     \/ /\ calls' = [calls EXCEPT ![n].done = @ + 1]
        /\ \E reply \in calls[n].method.replies : inbound' = Append(inbound, reply)
     \/ /\ calls' = IF calls[n].method.partly THEN [calls EXCEPT ![n].done = @ + 1] ELSE calls
        /\ inbound' = Append(inbound, "FAILED")
     \/ inbound' = Append(inbound, "FAILED") /\ UNCHANGED calls
  /\ UNCHANGED <<readOnly, capabilities, up, connection, shutDown>>

DaemonStops ==
  /\ outbound # <<>> /\ Head(outbound) = 0
  /\ outbound' = <<>> /\ inbound' = Append(inbound, "NOOP")
  /\ UNCHANGED <<readOnly, capabilities, up, connection, calls, shutDown>>

(* Mutant: a failure is taken for an answer. *)
AcceptsFailed(method, reply) == reply \in method.replies \union {"FAILED"}

(* The checks of the opcode of a reply: anything else throws. *)
Accepts(method, reply) == reply \in method.replies

(* dispatchPacket(): to the call that waits; to nobody if none does. *)
ReplyArrives ==
  /\ inbound # <<>> /\ inbound' = Tail(inbound)
  /\ calls' = [n \in DOMAIN calls |->
       IF n \notin Sent THEN calls[n]
       ELSE [calls[n] EXCEPT !.at = IF Accepts(calls[n].method, Head(inbound))
                                    THEN "resolved" ELSE "failed"]]
  /\ UNCHANGED <<readOnly, capabilities, up, connection, outbound, shutDown>>

(* Mutant: what was sent is put back in the queue for the next connection. *)
SendAgain == [n \in DOMAIN calls |->
  IF n \in Sent THEN [calls[n] EXCEPT !.at = "queued"] ELSE calls[n]]

(* The connection closes: what waits for a reply or for its turn throws.   *)
(* Nothing is tried again.                                                 *)
Rejected == [n \in DOMAIN calls |->
  IF n \in Sent \union Queued THEN [calls[n] EXCEPT !.at = "failed"] ELSE calls[n]]

ConnectionLost ==
  /\ up /\ up' = FALSE /\ connection < MaxConnections /\ connection' = connection + 1
  /\ calls' = Rejected
  /\ outbound' = <<>> /\ inbound' = <<>>
  /\ UNCHANGED <<readOnly, capabilities, shutDown>>

(* reconnect() to a daemon that may have been replaced: calls made since   *)
(* have been held, with the capabilities of the one before.                *)
Reconnected ==
  /\ ~up /\ connection > 1
  /\ up' = TRUE /\ capabilities' \in {{}, Capabilities}
  /\ UNCHANGED <<readOnly, connection, calls, outbound, inbound, shutDown>>

ServiceNext ==
  \/ Connected \/ Shutdown \/ DaemonServes \/ DaemonStops \/ ReplyArrives
  \/ ConnectionLost \/ Reconnected
  \/ \E method \in Methods : CallMethod(method)
  \/ \E n \in DOMAIN calls : SendCall(n)

ServiceSpec == ServiceInit /\ [][ServiceNext]_serviceVars

-----------------------------------------------------------------------------
(* On a read-only connection no method of any class gets the daemon to     *)
(* change anything: the list is of opcodes, several of which are sent by   *)
(* methods that read and by methods that write.                            *)
ReadOnlyChangesNothing ==
  readOnly => ~shutDown /\ \A n \in DOMAIN calls : calls[n].method.changes => calls[n].done = 0

(* No call is carried out twice, whatever was lost under it, and one that  *)
(* resolved was carried out; a reply that says otherwise makes it throw.   *)
(* (A call that throws may have been carried out: a reply may be lost, and *)
(* a category is made although its path is refused.)                       *)
CarriedOutOnce ==
  \A n \in DOMAIN calls :
    /\ calls[n].done <= 1
    /\ calls[n].at = "resolved" /\ ~shutDown => calls[n].done = 1 \/ "FAILED" \in calls[n].method.replies
=============================================================================
