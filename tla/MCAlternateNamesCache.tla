----------------------- MODULE MCAlternateNamesCache ------------------------
(* AlternateNamesCache instantiated for TLC: a few names, of which one may *)
(* be past maxNameLength.                                                  *)
EXTENDS AlternateNamesCache

CONSTANTS n1, n2, n3
=============================================================================
