----------------------------- MODULE ProcessRun -----------------------------
(***************************************************************************)
(* What a terminal tab may rely on from the process object it drives (the  *)
(* subset of QProcess of qt_terminal_process.py): a run is started,        *)
(* announced at most once, and ends exactly once, either with the signals  *)
(* of its end or silently because the owner closed it.                     *)
(***************************************************************************)
EXTENDS Naturals, Sequences

CONSTANT MaxRuns    \* bound: how often the object is started

VARIABLES state,    \* what state() answers
          run,      \* the number of runs started so far
          told      \* what the last of them has told its owner, in order

vars == <<state, run, told>>

Init == /\ state = "NotRunning"
        /\ run = 0
        /\ told = <<>>

(* The end of the run, with the signals that report it. *)
End(signals) == /\ state' = "NotRunning"
                /\ told' = told \o signals
                /\ run' = run

Start == /\ state = "NotRunning"
         /\ run < MaxRuns
         /\ state' = "Starting"
         /\ run' = run + 1
         /\ told' = <<>>

Started == /\ state = "Starting"
           /\ state' = "Running"
           /\ told' = Append(told, "started")
           /\ run' = run

FailToStart == /\ state = "Starting"
               /\ End(<<"error">>)

Cancelled == /\ state = "Starting"
             /\ End(<<"finished">>)

Finished == /\ state = "Running"
            /\ End(<<"finished">>)

Broken == /\ state # "NotRunning"
          /\ End(<<"error", "finished">>)

Closed == /\ state # "NotRunning"
          /\ End(<<"closed">>)

Next == Start \/ Started \/ FailToStart \/ Cancelled \/ Finished \/ Broken \/ Closed

Spec == Init /\ [][Next]_vars
=============================================================================
