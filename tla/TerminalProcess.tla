-------------------------- MODULE TerminalProcess ---------------------------
(***************************************************************************)
(* QtConPtyProcess (qt_terminal_process.py): the object through which a    *)
(* terminal tab drives a Windows pseudoconsole.                            *)
(*                                                                         *)
(* The GUI thread runs the object's methods and its two timers, one at a   *)
(* time.  Creating and closing a session can block, so each is left to a   *)
(* thread of its own: a worker per start() that hands its session over     *)
(* through _pending_start under _lifecycle_lock, a closer per session      *)
(* given up.  A session (windows_conpty.py) has a child, a reader thread   *)
(* that moves the child's output from the pipe to a bounded queue, and a   *)
(* pseudoconsole whose closing lets the reader reach the end of the pipe.  *)
(*                                                                         *)
(* A generation is only ever compared with the current one: it is          *)
(* represented by the run that was given it, and 0 stands for a current    *)
(* generation no run has.                                                  *)
(***************************************************************************)
EXTENDS Naturals, Sequences

CONSTANTS MaxRuns,          \* bound: how often start() is called
          MaxOutput,        \* bound: chunks the child writes while there is one run
          Kinds,            \* what a tab sends: input, or the end of the input
          QueueCap          \* chunks the output queue of a session holds

ASSUME BoundsAssumption == /\ MaxRuns \in Nat \ {0}
                           /\ MaxOutput \in Nat
                           /\ QueueCap \in Nat \ {0}

VARIABLES q,       \* the fields only the GUI thread touches, and its position
          locked,  \* the fields _lifecycle_lock protects
          worker,  \* worker[r]: where the worker of run r is
          ses,     \* ses[r]: the session the worker of run r creates
          run,     \* the number of runs started
          told     \* history: the start, the failure and the end the owner was
                   \* told of in the last run (not the errors of single writes)

vars == <<q, locked, worker, ses, run, told>>

Runs == 1 .. MaxRuns
Deadlines == {"none", "armed", "passed"}
Early == Runs \X Kinds   \* what the owner sent, tagged with its run
NoResult == [of |-> 0, ok |-> FALSE]

NoSession == [child |-> "absent", made |-> 0, pipe |-> 0, queue |-> 0, shut |-> FALSE,
              eof |-> FALSE, ioerr |-> FALSE, input |-> {}, life |-> "none", kill |-> FALSE]

Init == /\ q = [state |-> "NotRunning", sess |-> 0, code |-> FALSE, shutStarted |-> FALSE,
                drainBy |-> "none", forced |-> "none", finishedEmitted |-> TRUE,
                paused |-> FALSE, startupTimer |-> FALSE, pollTimer |-> FALSE,
                gui |-> "loop", waiting |-> "no"]
        /\ locked = [current |-> 0, pending |-> NoResult, early |-> {}, disposed |-> FALSE]
        /\ worker = [r \in Runs |-> "none"]
        /\ ses = [r \in Runs |-> NoSession]
        /\ run = 0
        /\ told = <<>>

(* The event loop may call a method of the object. *)
Idle == q.gui = "loop" /\ q.waiting = "no"

-----------------------------------------------------------------------------
(* Sessions: the child, and the threads of windows_conpty.py.              *)

(* The end of the child's side is the child's or the system's decision.    *)
(* Bound: output and a second run are not explored together.               *)
ChildWrites(r) ==
  /\ ses[r].child = "running" /\ ses[r].life = "live"
  /\ run = 1 /\ ses[r].made < MaxOutput
  /\ ses' = [ses EXCEPT ![r].pipe = @ + 1, ![r].made = @ + 1]
  /\ UNCHANGED <<q, locked, worker, run, told>>

ChildExits(r) ==
  /\ ses[r].child = "running" /\ ses[r].life = "live"
  /\ ses' = [ses EXCEPT ![r].child = "exited"]
  /\ UNCHANGED <<q, locked, worker, run, told>>

(* The reader moves a chunk to the queue, and waits while that is full. *)
ReaderMoves(r) ==
  /\ ses[r].life = "live" /\ ~ses[r].eof
  /\ ses[r].pipe > 0 /\ ses[r].queue < QueueCap
  /\ ses' = [ses EXCEPT ![r].pipe = @ - 1, ![r].queue = @ + 1]
  /\ UNCHANGED <<q, locked, worker, run, told>>

(* The pipe ends once the pseudoconsole is closed and everything is read. *)
ReaderEnds(r) ==
  /\ ses[r].life = "live" /\ ~ses[r].eof
  /\ ses[r].shut /\ ses[r].pipe = 0
  /\ ses' = [ses EXCEPT ![r].eof = TRUE]
  /\ UNCHANGED <<q, locked, worker, run, told>>

ReaderFails(r) ==
  /\ ses[r].life = "live" /\ ~ses[r].eof
  /\ ses' = [ses EXCEPT ![r].eof = TRUE, ![r].ioerr = TRUE]
  /\ UNCHANGED <<q, locked, worker, run, told>>

WriterFails(r) ==
  /\ ses[r].life = "live" /\ ~ses[r].ioerr
  /\ ses' = [ses EXCEPT ![r].ioerr = TRUE]
  /\ UNCHANGED <<q, locked, worker, run, told>>

(* The thread that closes a session; a child it cannot kill survives. *)
SessionCloses(r) ==
  /\ ses[r].life = "closing"
  /\ \E child \in {ses[r].child} \cup (IF ses[r].kill THEN {"exited"} ELSE {}) :
       ses' = [ses EXCEPT ![r].life = "closed", ![r].child = child]
  /\ UNCHANGED <<q, locked, worker, run, told>>

(* Hand a session to a closer thread. *)
GiveUp(s, r, terminate) == [s EXCEPT ![r].life = "closing", ![r].kill = terminate]

-----------------------------------------------------------------------------
(* The worker of a run.                                                    *)

WorkerCreates(r) ==
  /\ worker[r] = "creating"
  /\ \/ ses' = [ses EXCEPT ![r].child = "running", ![r].life = "live"]
     \/ ses' = [ses EXCEPT ![r].life = "closed"]
  /\ worker' = [worker EXCEPT ![r] = "created"]
  /\ UNCHANGED <<q, locked, run, told>>

(* Mutant: a stale result is handed over as well. *)
NeverStale(r) == FALSE

Stale(r) == r # locked.current \/ locked.disposed

Created(r) == ses[r].life = "live"

WorkerDelivers(r) ==
  /\ worker[r] = "created"
  /\ ~Stale(r)
  /\ locked' = [locked EXCEPT !.pending = [of |-> r, ok |-> Created(r)]]
  /\ worker' = [worker EXCEPT ![r] = "done"]
  /\ UNCHANGED <<q, ses, run, told>>

(* Mutant: the session of a stale start is forgotten.                      *)
WorkerForgets(r) ==
  /\ worker[r] = "created"
  /\ Stale(r)
  /\ worker' = [worker EXCEPT ![r] = "done"]
  /\ UNCHANGED <<q, locked, ses, run, told>>

WorkerCloses(r) ==
  /\ worker[r] = "created"
  /\ Stale(r)
  /\ ses' = IF Created(r) THEN GiveUp(ses, r, TRUE) ELSE ses
  /\ worker' = [worker EXCEPT ![r] = "done"]
  /\ UNCHANGED <<q, locked, run, told>>

-----------------------------------------------------------------------------
(* start, its result, and the ways a run ends.                             *)

(* A new generation: nothing of the former one's is left, and its worker,  *)
(* if it is still creating a session, will find itself stale.              *)
NewGeneration(r) == [locked EXCEPT !.current = r, !.pending = NoResult, !.early = {}]

Start ==
  /\ Idle
  /\ q.state = "NotRunning" /\ ~locked.disposed
  /\ run < MaxRuns /\ \A r \in Runs : ses[r].made = 0
  /\ run' = run + 1
  /\ ses' = IF q.sess = 0 THEN ses ELSE GiveUp(ses, q.sess, TRUE)
  /\ q' = [q EXCEPT !.sess = 0, !.code = FALSE, !.shutStarted = FALSE, !.drainBy = "none",
                    !.forced = "none", !.finishedEmitted = FALSE, !.paused = FALSE,
                    !.state = "Starting", !.startupTimer = TRUE]
  /\ locked' = NewGeneration(run + 1)
  /\ worker' = [worker EXCEPT ![run + 1] = "creating"]
  /\ told' = <<>>

(* Every end of a session stops the poll timer and both deadlines. *)
Ended == [q EXCEPT !.state = "NotRunning", !.finishedEmitted = TRUE, !.pollTimer = FALSE,
                   !.drainBy = "none", !.forced = "none", !.sess = 0,
                   !.gui = "loop", !.waiting = IF @ = "start" THEN "start" ELSE "no"]

FailSession(r, terminate) ==
  /\ r = q.sess /\ ~q.finishedEmitted
  /\ q' = Ended
  /\ ses' = GiveUp(ses, r, terminate)
  /\ told' = told \o <<"error", "finished">>

FinishSession(s, r) ==
  /\ r = q.sess /\ ~q.finishedEmitted
  /\ q.code /\ s[r].eof
  /\ q' = Ended
  /\ ses' = GiveUp(s, r, FALSE)
  /\ told' = Append(told, "finished")

(* _poll_startup takes the result, from its timer or from waitForFinished. *)
MayPollStartup ==
  /\ q.gui = "loop"
  /\ \/ q.waiting = "no" /\ q.startupTimer
     \/ q.waiting = "start" /\ q.state = "Starting"
  /\ locked.pending # NoResult

Taken == [locked EXCEPT !.pending = NoResult]

StartIsStale == locked.pending.of # locked.current \/ locked.disposed \/ q.state # "Starting"

(* No session to adopt: session.start() failed, or the result is stale.    *)
PollStartupFailed ==
  /\ MayPollStartup
  /\ StartIsStale \/ ~locked.pending.ok
  /\ locked' = Taken
  /\ q' = IF StartIsStale
            THEN [q EXCEPT !.startupTimer = FALSE]
            ELSE [q EXCEPT !.startupTimer = FALSE, !.finishedEmitted = TRUE,
                           !.state = "NotRunning"]
  /\ ses' = IF locked.pending.ok THEN GiveUp(ses, locked.pending.of, TRUE) ELSE ses
  /\ told' = IF StartIsStale THEN told ELSE Append(told, "error")
  /\ UNCHANGED <<worker, run>>

(* The session is adopted, but does not take what was sent to it early. *)
AdoptBreaks ==
  /\ MayPollStartup
  /\ ~StartIsStale /\ locked.pending.ok /\ locked.early # {}
  /\ locked' = [Taken EXCEPT !.early = {}]
  /\ q' = [Ended EXCEPT !.startupTimer = FALSE]
  /\ ses' = GiveUp(ses, locked.pending.of, TRUE)
  /\ told' = told \o <<"error", "finished">>
  /\ UNCHANGED <<worker, run>>

Adopt ==
  /\ MayPollStartup
  /\ ~StartIsStale /\ locked.pending.ok
  /\ locked' = [Taken EXCEPT !.early = {}]
  /\ q' = [q EXCEPT !.startupTimer = FALSE, !.sess = locked.pending.of, !.state = "Running",
                    !.pollTimer = TRUE, !.gui = "poll"]
  /\ ses' = [ses EXCEPT ![locked.pending.of].input = @ \cup locked.early]
  /\ told' = Append(told, "started")
  /\ UNCHANGED <<worker, run>>

-----------------------------------------------------------------------------
(* _poll_session, in the three steps between which the reader may run:     *)
(* take the output, look at the child, look for the end of the output.     *)

(* Taking output runs the tab's read slot, which may pause the output,     *)
(* also in a wait.                                                         *)
Drain(force) ==
  LET taken == IF q.paused /\ ~force THEN 0 ELSE ses[q.sess].queue
  IN /\ ses' = [ses EXCEPT ![q.sess].queue = @ - taken]
     /\ \E pause \in {q.paused} \cup (IF taken > 0 THEN {TRUE} ELSE {}) :
          q' = [q EXCEPT !.paused = pause,
                         !.gui = IF q.waiting = "drain" THEN "loop" ELSE "code"]

Polling == q.gui = "poll" \/ (Idle /\ q.pollTimer)

PollNothing ==
  /\ Polling /\ q.sess = 0
  /\ q' = [q EXCEPT !.pollTimer = FALSE, !.gui = "loop"]
  /\ UNCHANGED <<locked, worker, ses, run, told>>

PollOutput ==
  /\ Polling /\ q.sess # 0
  /\ Drain(FALSE)
  /\ UNCHANGED <<locked, worker, run, told>>

PollOutputRaises ==
  /\ Polling /\ q.sess # 0 /\ ~q.paused
  /\ FailSession(q.sess, TRUE)
  /\ UNCHANGED <<locked, worker, run>>

CodeKnown == q.code \/ ses[q.sess].child = "exited"

PollCodeRaises ==
  /\ q.gui = "code" /\ ~q.code
  /\ FailSession(q.sess, TRUE)
  /\ UNCHANGED <<locked, worker, run>>

PollIoError ==
  /\ q.gui = "code"
  /\ ses[q.sess].ioerr
  /\ FailSession(q.sess, ~CodeKnown)
  /\ UNCHANGED <<locked, worker, run>>

(* Mutant: nobody looks at the deadline of a kill. *)
PollForever ==
  /\ q.gui = "code"
  /\ ~ses[q.sess].ioerr /\ ~CodeKnown
  /\ q' = [q EXCEPT !.gui = "loop"]
  /\ UNCHANGED <<locked, worker, ses, run, told>>

PollStillRunning ==
  /\ q.gui = "code"
  /\ ~ses[q.sess].ioerr /\ ~CodeKnown
  /\ IF q.forced = "passed"
       THEN FailSession(q.sess, TRUE)
       ELSE q' = [q EXCEPT !.gui = "loop"] /\ UNCHANGED <<ses, told>>
  /\ UNCHANGED <<locked, worker, run>>

(* The child has gone: close the pseudoconsole while the reader goes on. *)
ShutDown == /\ ses' = [ses EXCEPT ![q.sess].shut = TRUE]
            /\ q' = [q EXCEPT !.code = TRUE, !.shutStarted = TRUE,
                              !.drainBy = IF q.shutStarted THEN @ ELSE "armed",
                              !.forced = IF q.waiting = "exit" THEN @ ELSE "none",
                              !.gui = IF q.waiting = "exit" THEN "loop" ELSE "eof",
                              !.waiting = IF @ = "exit" THEN "drain" ELSE @]
            /\ told' = told

PollChildGone ==
  /\ q.gui = "code"
  /\ ~ses[q.sess].ioerr /\ CodeKnown
  /\ \/ ShutDown
     \/ ~q.shutStarted /\ FailSession(q.sess, FALSE)
  /\ UNCHANGED <<locked, worker, run>>

PollNoEnd ==
  /\ q.gui = "eof" /\ ~ses[q.sess].eof
  /\ IF q.drainBy = "passed"
       THEN FailSession(q.sess, FALSE)
       ELSE q' = [q EXCEPT !.gui = "loop"] /\ UNCHANGED <<ses, told>>
  /\ UNCHANGED <<locked, worker, run>>

(* Mutant: the last drain respects the pause. *)
LastDrainPaused == IF q.paused THEN ses ELSE [ses EXCEPT ![q.sess].queue = 0]

(* The last drain is forced: it takes the output of a paused tab as well. *)
LastDrain == [ses EXCEPT ![q.sess].queue = 0]

PollEnd ==
  /\ q.gui = "eof" /\ ses[q.sess].eof
  /\ FinishSession(LastDrain, q.sess)
  /\ UNCHANGED <<locked, worker, run>>

(* Deadlines are read from the clock. *)
TimePasses ==
  /\ \/ q.drainBy = "armed" /\ q' = [q EXCEPT !.drainBy = "passed"]
     \/ q.forced = "armed" /\ q' = [q EXCEPT !.forced = "passed"]
  /\ UNCHANGED <<locked, worker, ses, run, told>>

-----------------------------------------------------------------------------
(* The methods the tab calls.                                              *)

SetOutputPaused ==
  /\ Idle
  /\ \E paused \in BOOLEAN :
       q' = [q EXCEPT !.paused = paused, !.gui = IF paused THEN "loop" ELSE "poll"]
  /\ UNCHANGED <<locked, worker, ses, run, told>>

(* write and closeWriteChannel; a refused write changes nothing here. *)
Send ==
  /\ Idle
  /\ \E what \in Kinds :
       \/ /\ q.state = "Starting"
          /\ locked' = [locked EXCEPT !.early = @ \cup {<<run, what>>}]
          /\ ses' = ses
       \/ /\ q.state = "Running" /\ q.sess # 0
          /\ ses' = [ses EXCEPT ![q.sess].input = @ \cup {<<run, what>>}]
          /\ locked' = locked
  /\ UNCHANGED <<q, worker, run, told>>

(* Mutant: a cancelled start leaves the object in Starting. *)
CancelForgetsState ==
  /\ q.state = "Starting"
  /\ locked' = NewGeneration(0)
  /\ q' = [q EXCEPT !.startupTimer = FALSE, !.finishedEmitted = TRUE]
  /\ told' = Append(told, "finished")
  /\ ses' = ses

(* _cancel_pending_start. *)
Cancel ==
  /\ q.state = "Starting"
  /\ locked' = NewGeneration(0)
  /\ q' = [q EXCEPT !.startupTimer = FALSE, !.state = "NotRunning", !.finishedEmitted = TRUE]
  /\ told' = Append(told, "finished")
  /\ ses' = ses

(* kill() gives the child two seconds; terminate() gives it any time. *)
AskToEnd(killed) ==
  /\ q.state # "Starting" /\ q.sess # 0
  /\ \/ FailSession(q.sess, TRUE)
     \/ /\ q' = IF ses[q.sess].child = "exited"
                  THEN [q EXCEPT !.code = TRUE, !.gui = "poll"]
                  ELSE [q EXCEPT !.forced = IF killed THEN "armed" ELSE @,
                                 !.pollTimer = (@ \/ killed), !.gui = "poll"]
        /\ UNCHANGED <<ses, told>>
  /\ UNCHANGED locked

Terminate == /\ Idle
             /\ Cancel \/ AskToEnd(FALSE)
             /\ UNCHANGED <<worker, run>>

Kill == /\ Idle
        /\ Cancel \/ AskToEnd(TRUE)
        /\ UNCHANGED <<worker, run>>

(* close(), and deleteLater() which first marks the object disposed. *)
Close ==
  /\ Idle
  /\ \E disposed \in {locked.disposed, TRUE} :
       locked' = [NewGeneration(0) EXCEPT !.disposed = disposed]
  /\ q' = [Ended EXCEPT !.startupTimer = FALSE, !.paused = FALSE, !.code = FALSE,
                        !.shutStarted = FALSE]
  /\ ses' = IF q.sess = 0 THEN ses ELSE GiveUp(ses, q.sess, TRUE)
  /\ told' = IF q.state = "NotRunning" THEN told ELSE Append(told, "closed")
  /\ UNCHANGED <<worker, run>>

-----------------------------------------------------------------------------
(* waitForFinished blocks the event loop: only the other threads go on.    *)

WaitForFinished ==
  /\ Idle
  /\ q' = [q EXCEPT !.paused = FALSE, !.gui = "poll", !.waiting = "start"]
  /\ UNCHANGED <<locked, worker, ses, run, told>>

Waiting(at) == q.waiting = at /\ q.gui = "loop"

WaitStarted ==
  /\ Waiting("start") /\ q.state # "Starting"
  /\ q' = [q EXCEPT !.waiting = IF q.sess = 0 THEN "no" ELSE "exit"]
  /\ UNCHANGED <<locked, worker, ses, run, told>>

WaitExited ==
  /\ Waiting("exit")
  /\ \/ ses[q.sess].child = "exited" /\ ShutDown
     \/ ses[q.sess].child = "exited" /\ ~q.shutStarted /\ FailSession(q.sess, FALSE)
     \/ FailSession(q.sess, TRUE)
  /\ UNCHANGED <<locked, worker, run>>

WaitDrains ==
  /\ Waiting("drain") /\ ~ses[q.sess].eof
  /\ \/ Drain(FALSE) /\ told' = told
     \/ q.drainBy = "passed" /\ FailSession(q.sess, FALSE)
  /\ UNCHANGED <<locked, worker, run>>

WaitEnds ==
  /\ Waiting("drain") /\ ses[q.sess].eof
  /\ FinishSession([ses EXCEPT ![q.sess].queue = IF q.paused THEN @ ELSE 0], q.sess)
  /\ UNCHANGED <<locked, worker, run>>

WaitTimesOut ==
  /\ \/ Waiting("start") /\ q.state = "Starting" /\ locked.pending = NoResult
     \/ Waiting("exit") /\ ses[q.sess].child = "running"
     \/ Waiting("drain") /\ ~ses[q.sess].eof
  /\ q' = [q EXCEPT !.waiting = "no"]
  /\ UNCHANGED <<locked, worker, ses, run, told>>

-----------------------------------------------------------------------------

Poll == PollNothing \/ PollOutput \/ PollOutputRaises
        \/ PollCodeRaises \/ PollIoError \/ PollStillRunning \/ PollChildGone
        \/ PollNoEnd \/ PollEnd

PollStartup == PollStartupFailed \/ AdoptBreaks \/ Adopt

Wait == WaitStarted \/ WaitExited \/ WaitDrains \/ WaitEnds \/ WaitTimesOut

Worker(r) == WorkerCreates(r) \/ WorkerDelivers(r) \/ WorkerCloses(r)

Session(r) == \/ ChildWrites(r) \/ ChildExits(r)
              \/ ReaderMoves(r) \/ ReaderEnds(r) \/ ReaderFails(r)
              \/ WriterFails(r) \/ SessionCloses(r)

Tab == \/ Start \/ SetOutputPaused \/ Send \/ Terminate \/ Kill \/ Close
       \/ WaitForFinished

Next == \/ Poll \/ PollStartup \/ Wait \/ TimePasses \/ Tab
        \/ \E r \in Runs : Worker(r) \/ Session(r)

(* Timers fire and waits end, session.start() returns, and clocks go on;   *)
(* nothing is assumed of the tab, of the child or of the session's threads.*)
(* The startup timer fires between any other calls of the event loop: a    *)
(* tab that calls the object over and over does not starve it.             *)
Fairness == /\ WF_vars(Poll) /\ SF_vars(PollStartup) /\ WF_vars(WaitStarted) /\ WF_vars(WaitExited)
            /\ WF_vars(WaitEnds) /\ WF_vars(WaitTimesOut) /\ WF_vars(TimePasses)
            /\ \A r \in Runs : WF_vars(Worker(r))

Spec == Init /\ [][Next]_vars

FairSpec == Spec /\ Fairness

-----------------------------------------------------------------------------
(* Properties.                                                             *)

Fields ==
  [state : {"NotRunning", "Starting", "Running"}, sess : 0 .. MaxRuns, code : BOOLEAN,
   shutStarted : BOOLEAN, drainBy : Deadlines, forced : Deadlines, finishedEmitted : BOOLEAN,
   paused : BOOLEAN, startupTimer : BOOLEAN, pollTimer : BOOLEAN,
   gui : {"loop", "poll", "code", "eof"}, waiting : {"no", "start", "exit", "drain"}]

Guarded ==
  [current : 0 .. MaxRuns, pending : [of : 0 .. MaxRuns, ok : BOOLEAN],
   early : SUBSET Early, disposed : BOOLEAN]

Sessions ==
  [child : {"absent", "running", "exited"}, made : 0 .. MaxOutput, pipe : 0 .. MaxOutput,
   queue : 0 .. QueueCap, shut : BOOLEAN, eof : BOOLEAN, ioerr : BOOLEAN,
   input : SUBSET Early, life : {"none", "live", "closing", "closed"}, kill : BOOLEAN]

(* The fields hold what their annotations and assignments say. *)
TypeOK ==
  /\ q \in Fields /\ locked \in Guarded /\ ses \in [Runs -> Sessions]
  /\ worker \in [Runs -> {"none", "creating", "created", "done"}]
  /\ run \in 0 .. MaxRuns
  /\ told \in Seq({"started", "error", "finished", "closed"})

(* _generation fences the workers off: what is delivered or adopted is the *)
(* live session of the run that is waiting for it, however many starts     *)
(* were cancelled or closed while their workers were creating a child.     *)
OnlyTheCurrentRun ==
  /\ locked.pending # NoResult =>
       /\ locked.pending.of = run /\ ~StartIsStale /\ q.state = "Starting" /\ q.sess = 0
       /\ locked.pending.ok => ses[run].life = "live"
  /\ q.sess # 0 =>
       /\ q.sess = run /\ q.state = "Running"
       /\ worker[run] = "done" /\ ses[run].life = "live"

(* What is typed while a run is starting reaches that run's child or none. *)
InputStaysInItsRun == \A r \in Runs : \A sent \in ses[r].input : sent[1] = r

(* One run has no part in another: neither its results nor its input.      *)
RunsApart == TypeOK /\ OnlyTheCurrentRun /\ InputStaysInItsRun

(* A run that finishes without an error has handed all its output over,    *)
(* however late the reader copied it, unless the reader itself failed.     *)
(* One exception: when the end is found inside waitForFinished, the last   *)
(* drain respects the pause, so output the tab's slot paused in that very  *)
(* wait stays in the queue and goes with the session.                      *)
FinalOutput ==
  [][told' # told /\ told' = <<"started", "finished">> /\ ~ses'[run].ioerr =>
       /\ ses'[run].pipe = 0
       /\ ses'[run].queue = 0 \/ (Waiting("drain") /\ q.paused)]_vars

(* A session somebody created has somebody who will close it: its worker,  *)
(* the result that waits for the GUI thread, the object, or a closer.      *)
Owned(r) == worker[r] = "created" \/ locked.pending.of = r \/ q.sess = r

(* No step leaves a running session without an owner, however starts,      *)
(* workers, timers and calls meet, but one: a start that is cancelled or   *)
(* closed after its worker has delivered drops the session delivered.      *)
OnlyCancelDrops ==
  [][\A r \in Runs :
       ses'[r].life = "live" /\ ~Owned(r)' =>
         \/ ses[r].life = "live" /\ ~Owned(r)
         \/ locked.pending.of = r /\ q.state = "Starting" /\ locked'.current = 0]_vars

(* The object keeps the contract of a process object. *)
Contract == INSTANCE ProcessRun WITH state <- q.state

AbstractSpec == Contract!Spec

(* kill() ends the run whatever the child, the reader and the writer do,   *)
(* unless the tab puts the deadline off again and again by another kill(). *)
KillEnds == \/ q.forced # "none" ~> q.state = "NotRunning"
            \/ []<><<q.forced = "passed" /\ q'.forced = "armed">>_q

(* A started process does not stay in Starting. *)
StartResolves == q.state = "Starting" ~> q.state # "Starting"

(* What was begun is resolved, by the object's own timers and deadlines.   *)
RunsResolve == KillEnds /\ StartResolves
=============================================================================
