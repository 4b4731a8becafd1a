--------------------------- MODULE MCECConnection ---------------------------
(* ECConnection instantiated for TLC: two or three calls to request(), one *)
(* of them refused by send() in some runs.                                 *)
EXTENDS ECConnection, TLC

CONSTANTS r1, r2, r3

(* Calls that differ only by their name are interchangeable. *)
Interchangeable == Permutations(Req \ Refused)
=============================================================================
