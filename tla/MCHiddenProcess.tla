--------------------------- MODULE MCHiddenProcess ---------------------------
(* Instances of HiddenProcess for TLC. *)
EXTENDS HiddenProcess
=============================================================================
