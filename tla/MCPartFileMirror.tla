-------------------------- MODULE MCPartFileMirror --------------------------
(* PartFileMirror instantiated for TLC. *)
EXTENDS PartFileMirror

CONSTANTS e1, n1
=============================================================================
