--------------------------- MODULE MCUpdateStaging ---------------------------
(* Two processes, and two versions with an artifact in common.             *)
EXTENDS UpdateStaging, TLC

CONSTANTS v1, v2, a1, a2

MCVersion == {v1, v2}
MCArtifact == {a1, a2}
MCRows == (v1 :> <<a1, a2>>) @@ (v2 :> <<a1>>)

Symmetric == Permutations(Proc)
=============================================================================
