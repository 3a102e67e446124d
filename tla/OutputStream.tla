---------------------------- MODULE OutputStream ----------------------------
(***************************************************************************)
(* What a terminal session promises about a child's output: the reader of  *)
(* the session gets every chunk that was made before it is told that the   *)
(* output is complete, and nothing comes after that.  A session that fails *)
(* or is closed cuts its output off, and does not call it complete.        *)
(***************************************************************************)
EXTENDS Naturals

CONSTANT MaxOutput    \* bound: chunks the child's side makes

VARIABLES made,    \* chunks the child's side has made
          got,     \* chunks the reader of the session was given
          end      \* the end of the output, as the reader was told it

vars == <<made, got, end>>

Init == made = 0 /\ got = 0 /\ end = "open"

Make == /\ end # "complete" /\ made < MaxOutput
        /\ made' = made + 1
        /\ UNCHANGED <<got, end>>

Get == /\ end # "complete" /\ got < made
       /\ got' = got + 1
       /\ UNCHANGED <<made, end>>

(* The last chunk and the end of the output may be seen at once. *)
Complete == /\ end = "open"
            /\ end' = "complete"
            /\ got' \in {got, got + 1} /\ got' = made
            /\ made' = made

Cut == /\ end = "open"
       /\ end' = "cut"
       /\ UNCHANGED <<made, got>>

Next == Make \/ Get \/ Complete \/ Cut

Spec == Init /\ [][Next]_vars
=============================================================================
