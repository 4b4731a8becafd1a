-------------------------- MODULE MCStreamAndCache --------------------------
(* ECTransmission and AlternateNamesCache instantiated for TLC, one of     *)
(* them active: they share nothing, and each has its own fairness.         *)
EXTENDS ECTransmission, AlternateNamesCache

CONSTANTS n1, n2, n3

VARIABLE active

Init ==
  /\ active \in {"stream", "cache"}
  /\ StreamInit /\ CacheInit
  /\ active = "stream" => disk.file = "missing"

Next ==
  \/ active = "stream" /\ StreamNext /\ UNCHANGED <<active, cacheVars>>
  \/ active = "cache" /\ CacheNext /\ UNCHANGED <<active, streamVars>>

Spec == Init /\ [][Next]_<<active, streamVars, cacheVars>> /\ StreamFairness /\ CacheFairness

TypeOK == StreamTypeOK /\ CacheTypeOK
=============================================================================
