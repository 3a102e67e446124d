---------------------------- MODULE ManagedServer ----------------------------
(***************************************************************************)
(* What the managed lifecycle of a server promises (moba_servers.py,       *)
(* x11.py): at most one server is managed at a time, only the managed one  *)
(* is ever signalled, and a new one is launched only when there is none.   *)
(* A server that a command was about to record when it died is lost: it    *)
(* runs on, and nothing ever signals it.                                   *)
(***************************************************************************)
CONSTANT Inst     \* process instances

VARIABLES up,         \* the managed server, if any: a set of at most one
          lost,       \* servers that run and that nothing manages
          signalled   \* the running processes that were sent a signal

vars == <<up, lost, signalled>>

Init == /\ up = {}
        /\ lost = {}
        /\ signalled = {}

Launch == /\ up = {}
          /\ \E i \in Inst \ lost : up' = {i}
          /\ UNCHANGED <<lost, signalled>>

Signal == /\ up # {}
          /\ signalled' = signalled \cup up
          /\ UNCHANGED <<up, lost>>

(* Exits, together when the host restarts. *)
Exit == /\ up' \in {up, {}}
        /\ lost' \subseteq lost
        /\ signalled' = signalled \cap (lost' \cup up')

(* The command that had it in hand is gone, or gives up. *)
Lose == /\ up' = {}
        /\ lost' = lost \cup up
        /\ UNCHANGED signalled

Next == Launch \/ Signal \/ Exit \/ Lose

Spec == Init /\ [][Next]_vars
=============================================================================
