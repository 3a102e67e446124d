------------------------------ MODULE StagedSet ------------------------------
(***************************************************************************)
(* What the staging of an update promises: at most one set of files is     *)
(* staged, it becomes so at one moment, and a command reports nothing else.*)
(***************************************************************************)
CONSTANTS Version, Proc, Nothing

VARIABLES
  set,  \* the version whose whole set is staged, or Nothing
  told  \* what the last command of a process reported, or Nothing

Init == set = Nothing /\ told = [p \in Proc |-> Nothing]

(* A command has put the last piece in place.                              *)
Commit == set = Nothing /\ set' \in Version /\ UNCHANGED told

(* The files were damaged or removed.                                      *)
Spoil == set' = Nothing /\ UNCHANGED told

Begin(p) == told' = [told EXCEPT ![p] = Nothing] /\ UNCHANGED set

Report(p) ==
  set # Nothing /\ told' = [told EXCEPT ![p] = set] /\ UNCHANGED set

Next == Commit \/ Spoil \/ \E p \in Proc : Begin(p) \/ Report(p)

Spec == Init /\ [][Next]_<<set, told>>
=============================================================================
