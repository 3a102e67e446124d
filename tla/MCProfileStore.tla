--------------------------- MODULE MCProfileStore ---------------------------
(***************************************************************************)
(* Two threads, two names, one of them an example's, and two rows: every   *)
(* call with the arguments that collide or change something.               *)
(***************************************************************************)
EXTENDS ProfileStore, TLC

CONSTANTS example, other, seeded, edited

Example == [n \in {example, other} |-> IF n = example THEN seeded ELSE NoRow]
Both == [n \in {example, other} |-> edited]

Calls ==
  {[kind |-> "init", examples |-> e, purge |-> ~e] : e \in BOOLEAN} \cup
  {[kind |-> "purge"], [kind |-> "update"], [kind |-> "save", rows |-> Both]} \cup
  {[kind |-> "replace_named", original |-> example, name |-> other, row |-> edited]} \cup
  {[kind |-> "add", name |-> other, row |-> edited, replace |-> r] : r \in BOOLEAN} \cup
  {[kind |-> "remove", name |-> example]} \cup
  {[kind |-> "add_many", rows |-> Both, replace |-> r, skip |-> ~r] : r \in BOOLEAN} \cup
  {[kind |-> "import", rows |-> Both, replace |-> r, hasDefaults |-> r,
    defaults |-> {}] : r \in BOOLEAN} \cup
  {[kind |-> "set_defaults", defaults |-> Setting, replace |-> r] : r \in BOOLEAN}
=============================================================================
