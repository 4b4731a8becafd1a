------------------------------- MODULE Update -------------------------------
(***************************************************************************)
(* Update.ts: five groups of objects kept up to date by EC_OP_GET_UPDATE.  *)
(* Of an object it already told this connection about, the daemon only     *)
(* sends the fields that changed; fromTag() makes an object of them and    *)
(* mergedWith() fills in the rest from the one of before.  What that does  *)
(* depends on what each class makes of a field that was not sent:          *)
(* undefined, to be filled in, or a default value of its own.              *)
(*                                                                         *)
(* The delta-encoded fields are in PartFileMirror; here a field is its     *)
(* name and its value 0 (also the default) or 1.                           *)
(***************************************************************************)
EXTENDS Naturals

CONSTANTS
  Objects,        \* ids (ecid)
  MaxChanges,     \* bound: changes of a field
  MaxUpdateSockets, \* bound: sockets the connection goes through
  Undefined       \* the undefined of the code

VARIABLES
  group,          \* which of the five groups it is
  partialUpdate,  \* the daemon confirmed EC_TAG_CAN_PARTIAL_UPDATE
  object,         \* the daemon's objects: id -> values by field, or Undefined
  sent,           \* what it told this socket of them
  departed,       \* files removed and not yet told
  shown,          \* the map of the group: id -> values by field, or Undefined
  changes, sockets

updateVars == <<group, partialUpdate, object, sent, departed, shown, changes, sockets>>

-----------------------------------------------------------------------------
(* The classes: which fields are left undefined when they are not sent,    *)
(* and which get a default.                                                *)

ClientUpdate ==
  [optional |-> {"name", "hash", "userIdHybrid", "score", "software", "softwareVersion",
                 "userIp", "userPort", "country", "sourceFrom", "serverIp", "serverPort",
                 "serverName", "uploadSpeed", "downloadSpeed", "sessionUp",
                 "transferredDown", "uploadTotal", "downloadTotal", "uploadState",
                 "downloadState", "identState", "extProtocol", "waitingPosition",
                 "remoteQueueRank", "isFriend", "scoreRatio", "connected",
                 "modCapabilities"},
   defaulted |-> {}]

ServerUpdate ==
  [optional |-> {"name", "description", "version", "ip", "port", "ping", "priority",
                 "failedCount", "isStatic", "users", "usersMax", "files", "country"},
   defaulted |-> {}]

FriendInfo ==
  [optional |-> {"name", "hash", "ip", "port", "linkedClientEcid", "friendSlot",
                 "connected"},
   defaulted |-> {}]

DownloadFile ==
  [optional |-> {"hash", "name", "sizeFull", "sizeDone", "speed", "partMetId",
                 "comments", "path", "media"},
   defaulted |-> {"sources", "status", "prio", "stopped", "isA4AFAuto", "category",
                  "sourcesXfer", "kadCommentSearching"}]

SharedFile ==
  [optional |-> {"hash", "name", "sizeFull", "comments", "path", "sharedSince", "media",
                 "comment", "rating"},
   defaulted |-> {"uploadedTotal", "uploadSpeed", "uploadingCount", "requestsTotal",
                  "prio", "kadCommentSearching", "hashedPartCount", "lastUpload"}]

Groups == [sharedFiles |-> SharedFile, downloads |-> DownloadFile, clients |-> ClientUpdate,
           servers |-> ServerUpdate, friends |-> FriendInfo]
FileGroups == {"sharedFiles", "downloads"}

(* What is undefined is neither a value nor an object.                     *)
ASSUME UpdateAssumption ==
  /\ Undefined \notin 0..1
  /\ MaxChanges \in Nat
  /\ \A class \in {Groups[name] : name \in DOMAIN Groups} :
       Undefined \notin [class.optional \union class.defaulted -> {0, 1, Undefined}]

Class == Groups[group]
ClassFields == Class.optional \union Class.defaulted

UpdateTypeOK ==
  /\ group \in DOMAIN Groups \union {"none"} /\ changes \in 0..MaxChanges
  /\ group # "none" =>
       /\ object \in [Objects -> [ClassFields -> 0..1] \union {Undefined}]
       /\ sent \in [Objects -> [ClassFields -> 0..1] \union {Undefined}]
       /\ \A id \in Objects : shown[id] # Undefined =>
            shown[id] \in [ClassFields -> {0, 1, Undefined}]

UpdateInit ==
  /\ group = "none" /\ partialUpdate = TRUE
  /\ object = [id \in Objects |-> Undefined] /\ sent = [id \in Objects |-> Undefined]
  /\ departed = {} /\ shown = [id \in Objects |-> Undefined]
  /\ changes = 0 /\ sockets = 1

(* What the handshake settled, and the group that is looked at. *)
NegotiateUpdate ==
  /\ group = "none"
  /\ group' \in DOMAIN Groups /\ partialUpdate' \in BOOLEAN
  /\ UNCHANGED <<object, sent, departed, shown, changes, sockets>>

-----------------------------------------------------------------------------
(* The daemon (external). *)
Appears(id) ==
  /\ group # "none" /\ object[id] = Undefined /\ sent[id] = Undefined /\ id \notin departed
  /\ \E value \in 0..1 : object' = [object EXCEPT ![id] = [field \in ClassFields |-> value]]
  /\ UNCHANGED <<group, partialUpdate, sent, departed, shown, changes, sockets>>

Changes(id) ==
  /\ object[id] # Undefined /\ changes < MaxChanges /\ changes' = changes + 1
  /\ \E field \in ClassFields : object' = [object EXCEPT ![id][field] = 1 - @]
  /\ UNCHANGED <<group, partialUpdate, sent, departed, shown, sockets>>

(* A file leaves; the next answer names it. *)
Departs(id) ==
  /\ group \in FileGroups /\ object[id] # Undefined
  /\ object' = [object EXCEPT ![id] = Undefined]
  /\ sent' = [sent EXCEPT ![id] = Undefined]
  /\ departed' = departed \union {id}
  /\ UNCHANGED <<group, partialUpdate, shown, changes, sockets>>

(* reconnect(): a new socket was told nothing. *)
UpdateReconnect ==
  /\ group # "none" /\ sockets < MaxUpdateSockets /\ sockets' = sockets + 1
  /\ sent' = [id \in Objects |-> Undefined] /\ departed' = {}
  /\ UNCHANGED <<group, partialUpdate, object, shown, changes>>

PartialObject(id) ==
  LET fields == {field \in ClassFields : sent[id] = Undefined \/ sent[id][field] # object[id][field]}
  IN [field \in fields |-> object[id][field]]

-----------------------------------------------------------------------------
(* The client. *)

(* fromTag() of the classes. *)
FromTag(class, tag) ==
  [field \in class.optional \union class.defaulted |->
     IF field \in DOMAIN tag THEN tag[field]
     ELSE IF field \in class.defaulted THEN 0 ELSE Undefined]

(* Mutant: the update is taken as it is. *)
TakesAll(class, old, update) == update

(* mergedWith() of the classes. *)
MergedWith(class, old, update) ==
  [field \in DOMAIN update |-> IF update[field] = Undefined THEN old[field] ELSE update[field]]

(* mergeInto() *)
MergeInto(id, update) ==
  IF shown[id] = Undefined THEN update ELSE MergedWith(Class, shown[id], update)

(* applyTopLevelTag(): of FILE_REMOVED, or of an object, which the daemon  *)
(* lists even when nothing of it changed.                                  *)
ApplyTopLevelTag(id) ==
  IF id \in departed THEN Undefined
  ELSE IF object[id] = Undefined THEN shown[id]
  ELSE MergeInto(id, FromTag(Class, PartialObject(id)))

(* fetch(): throws without the capability. *)
FetchUpdate ==
  /\ group # "none" /\ partialUpdate
  /\ shown' = [id \in Objects |-> ApplyTopLevelTag(id)]
  /\ sent' = object /\ departed' = {}
  /\ UNCHANGED <<group, partialUpdate, object, changes, sockets>>

UpdateNext ==
  \/ NegotiateUpdate \/ UpdateReconnect \/ FetchUpdate
  \/ \E id \in Objects : Appears(id) \/ Changes(id) \/ Departs(id)

UpdateSpec == UpdateInit /\ [][UpdateNext]_updateVars

-----------------------------------------------------------------------------
ShowsTruly(fields) ==
  \A id \in Objects : object[id] # Undefined
    => /\ shown'[id] # Undefined
       /\ \A field \in fields : shown'[id][field] = object[id][field]

(* After any number of partial answers, over any number of sockets, fetch()*)
(* shows the optional fields of every object as they are: a field that was *)
(* not sent is the one that did not change.                                *)
OptionalFieldsAreLive == [][FetchUpdate => ShowsTruly(Class.optional)]_updateVars

(* What the class doc of Update says of all of them: "the daemon skips any *)
(* field unchanged [...] so fetch() merges into the previous snapshot".    *)
AllFieldsAreLive == [][FetchUpdate => ShowsTruly(ClassFields)]_updateVars
=============================================================================
