------------------------------ MODULE MCClient ------------------------------
(* The parts of the client that live on top of the connection,             *)
(* instantiated for TLC.  They share no state: in a behaviour one of them  *)
(* is active, and the others stay as they begin.                           *)
EXTENDS PartFileMirror, ECTags, Preferences, Chat, Search, Update, Trackers, Services

CONSTANTS e1, n1, h1, h2, p1, p2, c1, c2

VARIABLE active

(* The own data tried: with and without a NUL, and of the sizes refused.   *)
TagData ==
  [type \in DataType |->
     CASE type = "STRING" -> {<<>>, <<97>>, <<97, 0>>}
       [] type = "CUSTOM" -> {<<>>, <<0>>}
       [] type = "HASH16" -> {[i \in 1..16 |-> i]}
       [] type = "IPV4" -> {<<127, 0, 0, 1, 18, 104>>}]

Init ==
  /\ active \in {"mirror", "tags", "preferences", "chat", "search", "update", "tracker", "service"}
  /\ MirrorInit /\ CodecInit /\ PreferenceInit /\ ChatInit
  /\ SearchInit /\ UpdateInit /\ TrackerInit /\ ServiceInit

(* Only one part takes steps. *)
Alone(part) ==
  /\ active = part /\ UNCHANGED active
  /\ IF part = "mirror" THEN TRUE ELSE UNCHANGED mirrorVars
  /\ IF part = "tags" THEN TRUE ELSE UNCHANGED codecVars
  /\ IF part = "preferences" THEN TRUE ELSE UNCHANGED preferenceVars
  /\ IF part = "chat" THEN TRUE ELSE UNCHANGED chatVars
  /\ IF part = "search" THEN TRUE ELSE UNCHANGED searchVars
  /\ IF part = "update" THEN TRUE ELSE UNCHANGED updateVars
  /\ IF part = "tracker" THEN TRUE ELSE UNCHANGED trackerVars
  /\ IF part = "service" THEN TRUE ELSE UNCHANGED serviceVars

Next ==
  \/ Alone("mirror") /\ MirrorNext
  \/ Alone("tags") /\ CodecNext
  \/ Alone("preferences") /\ PreferenceNext
  \/ Alone("chat") /\ ChatNext
  \/ Alone("search") /\ SearchNext
  \/ Alone("update") /\ UpdateNext
  \/ Alone("tracker") /\ TrackerNext
  \/ Alone("service") /\ ServiceNext

Spec ==
  Init /\ [][Next]_<<active, mirrorVars, codecVars, preferenceVars, chatVars, searchVars,
                     updateVars, trackerVars, serviceVars>>

-----------------------------------------------------------------------------
TypeOK ==
  CASE active = "mirror" -> MirrorTypeOK
    [] active = "preferences" -> PreferenceTypeOK
    [] active = "chat" -> ChatTypeOK
    [] active = "search" -> SearchTypeOK
    [] active = "update" -> UpdateTypeOK
    [] active = "tracker" -> TrackerTypeOK
    [] active = "service" -> ServiceTypeOK
    [] OTHER -> TRUE
=============================================================================
