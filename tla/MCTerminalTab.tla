--------------------------- MODULE MCTerminalTab ---------------------------
(* Instances of TerminalTab for TLC. *)
EXTENDS TerminalTab
=============================================================================
