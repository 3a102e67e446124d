------------------------------ MODULE AtomicFile ------------------------------
(***************************************************************************)
(* What file_safety._write_bytes_atomic promises for a private file whose  *)
(* writers take turns: one value that a write replaces as a whole.  A      *)
(* write that reports an error leaves the value alone or, when even the    *)
(* way back failed, keeps a copy of what it overwrote.  Only a caller that *)
(* was killed or interrupted does not know which of the two values is      *)
(* there.                                                                  *)
(***************************************************************************)
CONSTANTS
  Writer,
  Value,
  Absent,   \* the value while there is no file
  None      \* no write requested

VARIABLES
  value,    \* the value of the file
  saved,    \* values kept in recovery copies
  request,  \* the value each writer is writing
  result    \* how the last write of each writer ended

vars == <<value, saved, request, result>>

Init ==
  /\ value \in Value \cup {Absent}
  /\ saved = {}
  /\ request = [w \in Writer |-> None]
  /\ result = [w \in Writer |-> "none"]

Request(w, v) ==
  /\ request[w] = None
  /\ request' = [request EXCEPT ![w] = v]
  /\ result' = [result EXCEPT ![w] = "none"]
  /\ UNCHANGED <<value, saved>>

Outcome(w, r) ==
  /\ request[w] # None /\ result[w] = "none"
  /\ result' = [result EXCEPT ![w] = r]

Done(w) ==
  /\ Outcome(w, "ok")
  /\ value' = request[w]
  /\ UNCHANGED <<saved, request>>

Failed(w) ==
  /\ Outcome(w, "error")
  /\ UNCHANGED <<value, saved, request>>

FailedButApplied(w) ==
  /\ Outcome(w, "error")
  /\ value' = request[w]
  /\ saved' = saved \cup ({value} \ {Absent})
  /\ UNCHANGED request

Interrupted(w) ==
  /\ Outcome(w, "unknown")
  /\ value' \in {value, request[w]}
  /\ request' \in {request, [request EXCEPT ![w] = None]}
  /\ UNCHANGED saved

Return(w) ==
  /\ result[w] # "none"
  /\ request' = [request EXCEPT ![w] = None]
  /\ UNCHANGED <<value, saved, result>>

Next ==
  \E w \in Writer :
    \/ \E v \in Value : Request(w, v)
    \/ Done(w) \/ Failed(w) \/ FailedButApplied(w) \/ Interrupted(w)
    \/ Return(w)

Spec == Init /\ [][Next]_vars
===============================================================================
