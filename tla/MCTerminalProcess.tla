-------------------------- MODULE MCTerminalProcess -------------------------
(* Instances of TerminalProcess for TLC. *)
EXTENDS TerminalProcess
=============================================================================
