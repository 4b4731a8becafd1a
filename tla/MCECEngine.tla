----------------------------- MODULE MCECEngine -----------------------------
(* ECEngine instantiated for TLC. *)
EXTENDS ECEngine, TLC

CONSTANTS r1, r2
=============================================================================
