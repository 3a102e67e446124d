----------------------------- MODULE HelperRun ------------------------------
(***************************************************************************)
(* What the owner of a helper command may rely on from the object that     *)
(* runs it (QtHiddenProcess of qt_terminal_process.py).  Two things differ *)
(* from ProcessRun: the state says that nothing runs some time before the  *)
(* end is told, and an owner that starts the next run in between is never  *)
(* told of that end, or is told of it in the midst of the next run.  An    *)
(* owner that waits for what it is owed sees runs as ProcessRun has them.  *)
(***************************************************************************)
EXTENDS Naturals, Sequences

CONSTANT MaxRuns    \* bound: how often the object is started

VARIABLES state,    \* what state() answers
          run,      \* the number of runs started so far
          told,     \* what the owner was told of the last of them, in order
          stray     \* the end of a former run: "none", "queued" or "told" since start()

vars == <<state, run, told, stray>>

Init == /\ state = "NotRunning"
        /\ run = 0
        /\ told = <<>>
        /\ stray = "none"

(* The run is over and its owner does not know it yet. *)
Owed == state = "NotRunning" /\ told = <<"started">>

Start == /\ state = "NotRunning"
         /\ run < MaxRuns
         /\ state' = "Starting"
         /\ run' = run + 1
         /\ told' = <<>>
         /\ stray' \in {"none"} \union (IF Owed THEN {"queued"} ELSE {})

Tell(signal) == told' = Append(told, signal) /\ run' = run

Started == /\ state = "Starting" /\ state' = "Running"
           /\ Tell("started") /\ stray' = stray

FailToStart == /\ state = "Starting" /\ state' = "NotRunning"
               /\ Tell("error") /\ stray' = stray

Cancelled == /\ state = "Starting" /\ state' = "NotRunning"
             /\ Tell("finished") /\ stray' = stray

Exits == /\ state = "Running" /\ state' = "NotRunning"
         /\ UNCHANGED <<run, told, stray>>

Finished == /\ Owed /\ state' = state
            /\ Tell("finished") /\ stray' = stray

(* The end of the former run is told now, or never. *)
Stray == /\ stray = "queued" /\ stray' \in {"told", "none"}
         /\ UNCHANGED <<state, run, told>>

Closed == /\ state # "NotRunning" \/ Owed
          /\ state' = "NotRunning"
          /\ Tell("closed")
          /\ stray' = IF stray = "queued" THEN "none" ELSE stray

Next == \/ Start \/ Started \/ FailToStart \/ Cancelled
        \/ Exits \/ Finished \/ Stray \/ Closed

Spec == Init /\ [][Next]_vars
=============================================================================
