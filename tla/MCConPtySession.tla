--------------------------- MODULE MCConPtySession ---------------------------
(* Instances of ConPtySession for TLC. *)
EXTENDS ConPtySession
=============================================================================
