---------------------------- MODULE Preferences ----------------------------
(***************************************************************************)
(* Preferences.ts: reading a section of the daemon's preferences, editing  *)
(* the record, sending it back.  A setter replaces its whole section.      *)
(* What can go wrong is in how a field travels: by its presence, as an     *)
(* explicit value, as a hash that is sent only when there is one, not at   *)
(* all, or as a trigger; a field that travels one way and is read another  *)
(* changes when somebody saves something else.                             *)
(*                                                                         *)
(* A section is a record of sets of field names, in the source's names.    *)
(* Values are abstract: 0 is false, zero, the empty string or no hash; 1   *)
(* something else; 2 a URL that is not HTTP.                               *)
(***************************************************************************)
EXTENDS Naturals, FiniteSets

CONSTANTS
  Callers,      \* concurrent users of the Preferences object
  MaxEdits,     \* bound: fields edited
  MaxSaves      \* bound: sections sent back

VARIABLES
  section,      \* the name of the section they work on
  stored,       \* the daemon's values for it
  caller,       \* what each caller holds, and whether it is still up to date
  saved,        \* the record the last successful setter sent
  edits, saves

preferenceVars == <<section, stored, caller, saved, edits, saves>>

ASSUME PreferenceAssumption == MaxEdits \in Nat /\ MaxSaves \in Nat

-----------------------------------------------------------------------------
(* The records (MessageFilterPrefs and so on). *)

MessageFilterPrefs ==
  [booleans |-> {"enabled", "filterAll", "friendsOnly", "secureOnly", "byKeyword",
                 "showInLog", "filterComments"},
   others |-> {"keywords", "commentKeywords"}]

CoreTweaksPrefs ==
  [booleans |-> {"verbose"},
   others |-> {"maxConnPerFive", "fileBufferSize", "uploadQueueSize",
               "serverKeepAliveTimeoutMs", "kadMaxSourceSearches", "kadSourceReaskMs",
               "sourceReaskMs"}]

ProxyPrefs ==
  [booleans |-> {"proxy.enabled", "proxy.enablePassword"},
   others |-> {"proxy.type", "proxy.host", "proxy.port", "proxy.userName",
               "proxy.password"}]

ConnectionsPrefs ==
  [booleans |-> ProxyPrefs.booleans \union
                {"udpDisabled", "autoConnect", "reconnect", "networkEd2k",
                 "networkKademlia", "upnpEnabled"},
   others |-> ProxyPrefs.others \union
              {"maxGraphUploadRate", "maxGraphDownloadRate", "maxUpload", "maxDownload",
               "slotAllocation", "tcpPort", "udpPort", "maxSourcesPerFile",
               "maxConnections", "bindAddress", "bindInterface", "upnpTcpPort"}]

FilesPrefs ==
  [booleans |-> {"ichEnabled", "aichTrust", "newFilesPaused", "newAutoDownloadPriority",
                 "previewPrio", "endgame", "newAutoUploadPriority", "startNextFilePaused",
                 "resumeSameCategory", "saveSources", "allocFullFileSize",
                 "mmapSupported", "mmapEnabled", "checkFreeSpace", "createFilesNormal",
                 "mediaMetadataEnabled", "startNextFileAlpha"},
   others |-> {"minFreeDiskSpaceMb", "mediaMetadataFfprobePath"}]

DirectoriesPrefs ==
  [booleans |-> {"shareHiddenFiles", "autoRescanSharedDirs", "followSymlinksInShares",
                 "excludeSharePatternsUseRegex"},
   others |-> {"incomingDir", "tempDir", "sharedDirs", "excludeSharePatterns"}]

SecurityPrefs ==
  [booleans |-> {"ipFilterClients", "ipFilterServers", "ipFilterAutoUpdate",
                 "filterLanIps", "secureIdentEnabled", "obfuscationSupported",
                 "obfuscationRequested", "obfuscationRequired", "ipFilterParanoid",
                 "ipFilterSystem"},
   others |-> {"canSeeShares", "ipFilterUpdateUrl", "ipFilterLevel"}]

OnlineSigPrefs ==
  [booleans |-> {"enabled"}, others |-> {"directory", "updateIntervalSeconds"}]

ServersPrefs ==
  [booleans |-> {"removeDeadServers", "autoUpdateServerList", "addServersFromServer",
                 "addServersFromClient", "useScoreSystem", "smartIdCheck",
                 "safeServerConnect", "autoConnectStaticOnly", "manualHighPriority"},
   others |-> {"deadServerRetries", "updateUrl"}]

KademliaPrefs == [booleans |-> {}, others |-> {"nodesUpdateUrl"}]

GeneralPrefs ==
  [booleans |-> {"checkNewVersion", "versionCheckAvailable", "upnpAvailable"},
   others |-> {"userNick", "userHash", "userHost"}]

(* Of an account (AmuleApiAccountPrefs): enabled, and a hash of its own. *)
RemoteControlsPrefs ==
  [booleans |-> {"webserverAutorun", "webserverUseGzip", "amuleApiAutorun",
                 "webserverGuest", "amuleApiAdmin", "amuleApiGuest"},
   others |-> {"webserverPort", "webserverRefreshSeconds", "webserverTemplate",
               "amuleApiPort", "amuleApiBindAddress", "webserverPasswordHash",
               "webserverGuest.passwordHash", "amuleApiAdmin.passwordHash",
               "amuleApiGuest.passwordHash"}]

IP2CountryPrefs ==
  [booleans |-> {"supported", "enabled", "autoUpdate", "databaseLoaded", "downloading",
                 "updateNow"},
   others |-> {"source", "customUrl", "maxMindLicense", "loadedSource", "databasePath",
               "lastResult"}]

-----------------------------------------------------------------------------
(* How the getter and the setter of each section make the fields travel.   *)

(* Booleans by presence, the rest as values, everything both ways. *)
Section(prefs) ==
  [presence |-> prefs.booleans, explicit |-> prefs.others, readOnly |-> {},
   inside |-> [hash \in {} |-> ""], urls |-> {}, hashes |-> {}, trigger |-> {}]

(* Booleans that are sent as 0 or 1. *)
Explicitly(travel, fields) ==
  [travel EXCEPT !.presence = @ \ fields, !.explicit = @ \union fields]

(* Fields the setter leaves out. *)
ReadOnly(travel, fields) ==
  [travel EXCEPT !.presence = @ \ fields, !.explicit = @ \ fields, !.readOnly = fields]

MessageFilter == Section(MessageFilterPrefs)

Connections ==
  Explicitly(Section(ConnectionsPrefs),
             {"proxy.enabled", "proxy.enablePassword", "upnpEnabled"})

Files == ReadOnly(Section(FilesPrefs), {"mmapSupported"})

Directories == Explicitly(Section(DirectoriesPrefs), {"excludeSharePatternsUseRegex"})

Security == [Section(SecurityPrefs) EXCEPT !.urls = {"ipFilterUpdateUrl"}]

OnlineSig == Section(OnlineSigPrefs)

Servers == [Section(ServersPrefs) EXCEPT !.urls = {"updateUrl"}]

Kademlia == [Section(KademliaPrefs) EXCEPT !.urls = {"nodesUpdateUrl"}]

(* userHash goes in a tag of sixteen bytes, which refuses to be empty. *)
General ==
  [ReadOnly(Explicitly(Section(GeneralPrefs), GeneralPrefs.booleans),
            {"versionCheckAvailable", "upnpAvailable"}) EXCEPT !.hashes = {"userHash"}]

(* A hash travels only when there is one, in its account if it has one;    *)
(* an account that is not enabled is left out with its hash.               *)
RemoteControls ==
  LET hashes == {"webserverPasswordHash", "webserverGuest.passwordHash",
                 "amuleApiAdmin.passwordHash", "amuleApiGuest.passwordHash"}
  IN [Section(RemoteControlsPrefs) EXCEPT
        !.explicit = @ \ hashes,
        !.inside = [hash \in hashes |->
                      CASE hash = "webserverPasswordHash" -> ""
                        [] hash = "webserverGuest.passwordHash" -> "webserverGuest"
                        [] hash = "amuleApiAdmin.passwordHash" -> "amuleApiAdmin"
                        [] hash = "amuleApiGuest.passwordHash" -> "amuleApiGuest"]]

(* updateNow is sent when it is set and read as unset. *)
IP2Country ==
  [ReadOnly(Explicitly(Section(IP2CountryPrefs), IP2CountryPrefs.booleans),
            {"supported", "loadedSource", "databasePath", "databaseLoaded", "downloading",
             "lastResult"}) EXCEPT
     !.explicit = @ \ {"updateNow"}, !.trigger = {"updateNow"}, !.urls = {"customUrl"}]

CoreTweaks == Section(CoreTweaksPrefs)

(* The twelve sections that can be written. *)
Sections ==
  [MESSAGEFILTER |-> MessageFilter, CONNECTIONS |-> Connections, FILES |-> Files,
   DIRECTORIES |-> Directories, SECURITY |-> Security, ONLINESIG |-> OnlineSig,
   SERVERS |-> Servers, KADEMLIA |-> Kademlia, GENERAL |-> General,
   REMOTECONTROLS |-> RemoteControls, IP2COUNTRY |-> IP2Country,
   CORETWEAKS |-> CoreTweaks]

HashesOf(travel) == DOMAIN travel.inside
Fields(travel) ==
  travel.presence \union travel.explicit \union travel.readOnly \union travel.trigger
    \union HashesOf(travel)
Values(travel, field) == IF field \in travel.urls THEN 0..2 ELSE 0..1

-----------------------------------------------------------------------------
(* The daemon (external). *)

(* Its reply: the tags of a section, a value each.  The hashes of amuleapi *)
(* are not kept in a form that could be sent; its administrator counts as  *)
(* enabled when it has one.                                                *)
Reply(travel, values) ==
  LET On(flag) == IF flag = "amuleApiAdmin" THEN values["amuleApiAdmin.passwordHash"] = 1
                  ELSE values[flag] = 1
      Echoed(hash) == /\ travel.inside[hash] \in {"", "webserverGuest"}
                      /\ travel.inside[hash] # "" => On(travel.inside[hash])
                      /\ values[hash] = 1
      tags == {flag \in travel.presence : On(flag)} \union travel.explicit
                \union travel.readOnly \union {hash \in HashesOf(travel) : Echoed(hash)}
  IN [tag \in tags |-> values[tag]]

(* Apply(): below EC_DETAIL_FULL an absent boolean is false.  The guest of *)
(* amuleapi loses its hash when it is disabled, and amuleapi's             *)
(* administrator is never disabled.                                        *)
Applied(travel, values, request) ==
  [field \in DOMAIN values |->
     IF field \in DOMAIN request.tags THEN request.tags[field]
     ELSE IF \/ field \in travel.presence \ {"amuleApiAdmin"} /\ request.detail = "update"
             \/ /\ field = "amuleApiGuest.passwordHash"
                /\ "amuleApiGuest" \notin DOMAIN request.tags
     THEN 0 ELSE values[field]]

-----------------------------------------------------------------------------
(* The client. *)

(* The getters: a boolean is the presence of its tag, or its value where   *)
(* it has one; whatever is absent reads as nothing.                        *)
Read(travel, tags) ==
  [field \in Fields(travel) |->
     IF field \in DOMAIN tags \ travel.trigger THEN tags[field] ELSE 0]

(* Mutant: a hash is sent with its account even when it was not given. *)
SendEmptyHash(travel, prefs) ==
  LET sent == {flag \in travel.presence \union travel.trigger : prefs[flag] = 1}
      hashes == {hash \in HashesOf(travel) : travel.inside[hash] \in sent \union {""}}
  IN [tag \in sent \union travel.explicit \union hashes |-> prefs[tag]]

(* The setters: the tags they build of a record. *)
Tags(travel, prefs) ==
  LET sent == {flag \in travel.presence \union travel.trigger : prefs[flag] = 1}
      hashes == {hash \in HashesOf(travel) :
                   travel.inside[hash] \in sent \union {""} /\ prefs[hash] # 0}
  IN [tag \in sent \union travel.explicit \union hashes |-> prefs[tag]]

(* assertEmptyOrHttpUrl(), and the tag of a hash: they throw before        *)
(* anything is sent.                                                       *)
Refused(travel, prefs) ==
  \/ \E url \in travel.urls : prefs[url] = 2
  \/ \E hash \in travel.hashes : prefs[hash] = 0

(* Mutant: applySection() without its EC_TAG_DETAIL_LEVEL. *)
WithoutDetail(travel, prefs) == [detail |-> "full", tags |-> Tags(travel, prefs)]

(* applySection(): with EC_DETAIL_UPDATE, for the whole packet. *)
SetRequest(travel, prefs) == [detail |-> "update", tags |-> Tags(travel, prefs)]

Travel == Sections[section]

Holding(prefs, edited, fresh) ==
  [at |-> "holding", prefs |-> prefs, edited |-> edited, fresh |-> fresh]
Idle == [at |-> "idle"]

NothingSaved == [by |-> "nobody"]

PreferenceTypeOK ==
  /\ section \in DOMAIN Sections \union {"none"} /\ saves \in 0..MaxSaves
  /\ edits \in 0..MaxEdits
  /\ section # "none" =>
       /\ stored \in [Fields(Travel) -> 0..2]
       /\ \A c \in Callers : caller[c] = Idle \/ DOMAIN caller[c].prefs = Fields(Travel)

PreferenceInit ==
  /\ section = "none" /\ stored = <<>> /\ edits = 0 /\ saves = 0 /\ saved = NothingSaved
  /\ caller = [c \in Callers |-> Idle]

(* The state in which the callers find the daemon. *)
Open ==
  /\ section = "none"
  /\ \E name \in DOMAIN Sections, value \in 0..1 :
       /\ section' = name
       /\ stored' = [field \in Fields(Sections[name]) |->
                       IF field \in Sections[name].trigger THEN 0
                       ELSE IF field \in Sections[name].hashes THEN 1 ELSE value]
  /\ UNCHANGED <<caller, saved, edits, saves>>

(* fetchSection() and the getter.  A failure leaves nothing behind. *)
Get(c) ==
  /\ section # "none" /\ caller[c].at = "idle"
  /\ caller' = [caller EXCEPT ![c] =
                  Holding(Read(Travel, Reply(Travel, stored)), "nothing", TRUE)]
  /\ UNCHANGED <<section, stored, saved, edits, saves>>

(* The caller changes a field of the record it holds. *)
Edit(c) ==
  /\ caller[c].at = "holding" /\ caller[c].edited = "nothing"
  /\ edits < MaxEdits /\ edits' = edits + 1
  /\ \E field \in Fields(Travel) : \E value \in Values(Travel, field) :
       /\ value # caller[c].prefs[field]
       /\ caller' = [caller EXCEPT ![c].prefs[field] = value, ![c].edited = field]
  /\ UNCHANGED <<section, stored, saved, saves>>

(* A setter.  The daemon may refuse the request, or apply it and its       *)
(* EC_OP_NOOP be lost with the connection: then the setter throws.         *)
Set(c) ==
  /\ caller[c].at = "holding" /\ saves < MaxSaves
  /\ caller' = [d \in Callers |-> IF d = c THEN Idle
                                  ELSE IF caller[d] = Idle THEN Idle
                                  ELSE [caller[d] EXCEPT !.fresh = FALSE]]
  /\ saves' = saves + 1
  /\ IF Refused(Travel, caller[c].prefs)
     THEN UNCHANGED <<stored, saved>>
     ELSE \/ /\ stored' = Applied(Travel, stored, SetRequest(Travel, caller[c].prefs))
             /\ saved' \in {NothingSaved, [by |-> c, prefs |-> caller[c].prefs]}
          \/ UNCHANGED <<stored, saved>>
  /\ UNCHANGED <<section, edits>>

(* Another client of the daemon (external) writes a field: a URL this one  *)
(* would refuse, perhaps.                                                  *)
SetElsewhere ==
  /\ section # "none" /\ saves < MaxSaves
  /\ \E url \in Travel.urls : stored' = [stored EXCEPT ![url] = 2]
  /\ caller' = [c \in Callers |-> IF caller[c] = Idle THEN Idle
                                  ELSE [caller[c] EXCEPT !.fresh = FALSE]]
  /\ saved' = NothingSaved /\ saves' = saves + 1
  /\ UNCHANGED <<section, edits>>

PreferenceNext ==
  \/ Open \/ SetElsewhere
  \/ \E c \in Callers : Get(c) \/ Edit(c) \/ Set(c)

PreferenceSpec == PreferenceInit /\ [][PreferenceNext]_preferenceVars

-----------------------------------------------------------------------------
(* "The same reply shape is meant to be editable and sent straight back":  *)
(* a setter called with the record of the last getter, one field edited,   *)
(* changes that field and nothing else: no flag is lost for having been    *)
(* read another way than it is sent, no password for not having been       *)
(* given, and nothing is triggered.  The guest of amuleapi is the one      *)
(* account whose hash goes when it is disabled.                            *)
SetKeepsTheRest ==
  [][\A c \in Callers :
       /\ caller[c].at = "holding" /\ caller'[c] = Idle /\ caller[c].fresh
       => \A field \in Fields(Travel) :
            \/ stored'[field] = stored[field]
            \/ field = caller[c].edited
            \/ /\ field = "amuleApiGuest.passwordHash"
               /\ caller[c].prefs["amuleApiGuest"] = 0]_preferenceVars

(* A setter that resolved has replaced its section: until somebody else    *)
(* writes it, a getter returns the record that was set, whatever the       *)
(* daemon held before.  What a setter does not send and what is not read   *)
(* back (triggers, hashes, the administrator of amuleapi) aside.           *)
ReadsBackWhatWasSet ==
  saved # NothingSaved =>
    \A field \in (Travel.presence \union Travel.explicit) \ {"amuleApiAdmin"} :
      Read(Travel, Reply(Travel, stored))[field] = saved.prefs[field]

=============================================================================
