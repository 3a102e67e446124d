------------------------------ MODULE MCTeamSync ------------------------------
(***************************************************************************)
(* Two workstations.  A user writes a row for endpoint e1 with a           *)
(* credential, one for e2 without, and one that is local only.             *)
(***************************************************************************)
EXTENDS TeamSync, TLC

CONSTANTS c1, c2, m1, m2, m3, e1, e2, shell

Row1 == [pub |-> e1, cred |-> TRUE, forwards |-> FALSE]
Row2 == [pub |-> e2, cred |-> FALSE, forwards |-> FALSE]
ShellRow == [pub |-> shell, cred |-> FALSE, forwards |-> FALSE]

SomeRows == {Row1, Row2, ShellRow}

(* One command at a time on each workstation, or two on the first.         *)
OneEach == [m \in {m1, m2} |-> IF m = m1 THEN c1 ELSE c2]

(* The names are alike, and so are the workstations with their commands.   *)
Swap == c1 :> c2 @@ c2 :> c1 @@ m1 :> m2 @@ m2 :> m1
Symmetric == Permutations(Name) \cup {Swap}

TwoOnFirst == [m \in {m1, m2, m3} |-> IF m = m2 THEN c2 ELSE c1]
===============================================================================
