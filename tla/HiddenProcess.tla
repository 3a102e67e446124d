---------------------------- MODULE HiddenProcess ----------------------------
(***************************************************************************)
(* QtHiddenProcess (qt_terminal_process.py): the object through which tabs *)
(* and panels drive a helper command over pipes.                           *)
(*                                                                         *)
(* The GUI thread runs the object's methods and its two timers.  A run has *)
(* a worker that creates the child, and once its child is adopted a writer,*)
(* a reader and a waiter.  They outlive the run they belong to, share the  *)
(* object's fields with the threads of the next one, and compare their     *)
(* generation with the current one here and there.  A generation is        *)
(* represented by the run that has it, 0 by one no run has.  stdout and    *)
(* stderr are one stream.  The owner starts the object whenever it answers *)
(* that nothing runs, and never again once it has closed it: the panels    *)
(* close it only to throw it away.                                         *)
(***************************************************************************)
EXTENDS Naturals, Sequences

CONSTANTS MaxRuns,      \* bound: how often start() is called
          MaxWork,      \* bound: chunks written, payloads sent and waits that fail
          InputCap      \* payloads the input queue holds

ASSUME HiddenAssumption == /\ MaxRuns \in Nat \ {0} /\ MaxWork \in Nat
                           /\ InputCap \in Nat \ {0}

VARIABLES q,      \* the fields the GUI thread assigns, its position, and two histories:
                  \* rushed: start() came between a waiter's last two steps,
                  \* stray: the end of a former run was told since
          shared, \* the fields the threads of all runs share
          th,     \* th[r]: where the threads of run r are
          child,  \* child[r]: the child process, its pipe and its input queue
          run,    \* the number of runs started
          work,   \* the number of chunks, payloads and failed waits so far
          told    \* history: what the owner was told of the last run

vars == <<q, shared, th, child, run, work, told>>

Runs == 1 .. MaxRuns

Init == /\ q = [state |-> "NotRunning", proc |-> 0, startupTimer |-> FALSE,
                noteTimer |-> FALSE, gui |-> "loop", rushed |-> FALSE, stray |-> FALSE]
        /\ shared = [current |-> 0, disposed |-> FALSE, pending |-> 0, early |-> 0,
                     paused |-> FALSE, own |-> 0, cut |-> FALSE, closing |-> FALSE, unwritten |-> 0,
                     output |-> FALSE, finished |-> 0, event |-> TRUE]
        /\ th = [r \in Runs |-> [worker |-> "none", writer |-> "none", reader |-> "none",
                                 waiter |-> "none"]]
        /\ child = [r \in Runs |-> [life |-> "absent", pipe |-> 0, input |-> 0,
                                    closer |-> FALSE]]
        /\ run = 0 /\ work = 0
        /\ told = <<>>

(* The owner has been told of the end of the last run, or ended it itself. *)
Over == run = 0 \/ (told # <<>> /\ told[Len(told)] # "started")

Works == work < MaxWork /\ work' = work + 1
Idle == q.gui = "loop" /\ ~shared.disposed
At(r, thread, place) == th[r][thread] = place
Move(r, thread, place) == th' = [th EXCEPT ![r][thread] = place]

-----------------------------------------------------------------------------
(* The child. A helper of its own may have inherited its end of the pipe   *)
(* and go on after it.                                                     *)

(* What nobody will read any more does not count. *)
ChildWrites(r) ==
  /\ child[r].life # "absent"
  /\ ~shared.disposed /\ ~At(r, "reader", "ended")
  /\ r = run \/ At(r, "reader", "read")
  /\ Works
  /\ child' = [child EXCEPT ![r].pipe = @ + 1]
  /\ UNCHANGED <<q, shared, th, run, told>>

ChildExits(r) ==
  /\ child[r].life = "running"
  /\ child' = [child EXCEPT ![r].life = "exited"]
  /\ UNCHANGED <<q, shared, th, run, work, told>>

(* _close_process_async: a thread of its own kills the child. *)
CloserKills(r) ==
  /\ child[r].closer /\ child[r].life = "running"
  /\ child' = [child EXCEPT ![r].life = "exited"]
  /\ UNCHANGED <<q, shared, th, run, work, told>>

-----------------------------------------------------------------------------
(* The worker of a run.                                                    *)

WorkerCreates(r) ==
  /\ At(r, "worker", "creating")
  /\ \E life \in {"running", "absent"} : child' = [child EXCEPT ![r].life = life]
  /\ Move(r, "worker", "created")
  /\ UNCHANGED <<q, shared, run, work, told>>

StaleWorker(r) == r # shared.current \/ shared.disposed

WorkerDelivers(r) ==
  /\ At(r, "worker", "created")
  /\ IF StaleWorker(r)
       THEN child' = [child EXCEPT ![r].closer = child[r].life # "absent"] /\ shared' = shared
       ELSE shared' = [shared EXCEPT !.pending = r] /\ child' = child
  /\ Move(r, "worker", "done")
  /\ UNCHANGED <<q, run, work, told>>

-----------------------------------------------------------------------------
(* The writer of a run: its queue is its own, the count of bytes that are  *)
(* not written yet is not.                                                 *)

WriterMayGoOn(r) == r = shared.current /\ ~shared.disposed

WriterGets(r) ==
  /\ At(r, "writer", "get") /\ WriterMayGoOn(r) /\ child[r].input > 0
  /\ child' = [child EXCEPT ![r].input = @ - 1]
  /\ Move(r, "writer", "write")
  /\ UNCHANGED <<q, shared, run, work, told>>

(* The queue stays empty for a while: is there anything to wait for?       *)
WriterFindsNothing(r) ==
  /\ At(r, "writer", "get") /\ WriterMayGoOn(r) /\ child[r].input = 0
  /\ (shared.closing /\ shared.unwritten = 0) \/ child[r].life = "exited"
  /\ Move(r, "writer", "end")
  /\ UNCHANGED <<q, shared, child, run, work, told>>

WriterStops(r) ==
  /\ At(r, "writer", "get") /\ ~WriterMayGoOn(r)
  /\ Move(r, "writer", "end")
  /\ UNCHANGED <<q, shared, child, run, work, told>>

Less(n) == IF n = 0 THEN 0 ELSE n - 1

(* Written or failed, the payload is not counted any more. *)
WriterWrites(r) ==
  /\ At(r, "writer", "write")
  /\ shared' = [shared EXCEPT !.unwritten = Less(@)]
  /\ \E next \in {"get", "end"} : Move(r, "writer", next)
  /\ UNCHANGED <<q, child, run, work, told>>

WriterEnds(r) ==
  /\ At(r, "writer", "end")
  /\ child' = [child EXCEPT ![r].input = 0]
  /\ shared' = [shared EXCEPT !.unwritten = 0]
  /\ Move(r, "writer", "ended")
  /\ UNCHANGED <<q, run, work, told>>

-----------------------------------------------------------------------------
(* The reader of a run.                                                    *)

(* Between two reads it waits while output is paused. It also waits while  *)
(* the buffer is full, which depends on the size of the chunks: nothing    *)
(* here makes a reader go on.                                              *)
ReaderPasses(r) ==
  /\ At(r, "reader", "gate")
  /\ \/ ~WriterMayGoOn(r) /\ Move(r, "reader", "ended")
     \/ WriterMayGoOn(r) /\ ~shared.paused /\ Move(r, "reader", "read")
  /\ UNCHANGED <<q, shared, child, run, work, told>>

ReaderReads(r) ==
  /\ At(r, "reader", "read") /\ child[r].pipe > 0
  /\ child' = [child EXCEPT ![r].pipe = @ - 1]
  /\ Move(r, "reader", "extend")
  /\ UNCHANGED <<q, shared, run, work, told>>

(* The buffer takes what was read, whosever it is, and the last run's is   *)
(* counted; a notice is the current run's only.                            *)
ReaderExtends(r) ==
  /\ At(r, "reader", "extend")
  /\ shared' = [shared EXCEPT !.own = IF r = run THEN @ + 1 ELSE @,
                              !.output = (@ \/ WriterMayGoOn(r))]
  /\ Move(r, "reader", "gate")
  /\ UNCHANGED <<q, child, run, work, told>>

(* The end of the pipe: all that had it open are gone. As long as a helper *)
(* has it open the reader does not come here, and nothing makes it.        *)
ReaderEnds(r) ==
  /\ At(r, "reader", "read")
  /\ child[r].pipe = 0 /\ child[r].life = "exited"
  /\ Move(r, "reader", "ended")
  /\ UNCHANGED <<q, shared, child, run, work, told>>

(* A failed read, or one from a stream that the waiter has closed. *)
ReaderFails(r) ==
  /\ At(r, "reader", "read")
  /\ shared' = [shared EXCEPT !.cut = (@ \/ r = run)]
  /\ Move(r, "reader", "ended")
  /\ UNCHANGED <<q, child, run, work, told>>

-----------------------------------------------------------------------------
(* The waiter of a run.                                                    *)

(* Once the child has gone nothing holds the reader or the writer back.    *)
WaiterGoesOn(r) ==
  /\ shared' = [shared EXCEPT !.paused = FALSE, !.closing = TRUE]
  /\ Move(r, "waiter", "join")

WaiterSeesExit(r) ==
  /\ At(r, "waiter", "wait") /\ child[r].life = "exited"
  /\ WaiterGoesOn(r)
  /\ UNCHANGED <<q, child, run, work, told>>

(* The wait itself fails: the current run ends as if its child had.        *)
WaiterFails(r) ==
  /\ At(r, "waiter", "wait")
  /\ Works
  /\ IF r = shared.current THEN WaiterGoesOn(r)
       ELSE Move(r, "waiter", "done") /\ shared' = shared
  /\ UNCHANGED <<q, child, run, told>>

(* Mutant: the join has no timeout. *)
WaiterJoinsForEver(r) ==
  /\ At(r, "waiter", "join") /\ At(r, "reader", "ended")
  /\ Move(r, "waiter", "check")
  /\ UNCHANGED <<q, shared, child, run, work, told>>

(* A reader that does not end in time is cut off from its stream. *)
WaiterJoins(r) ==
  /\ At(r, "waiter", "join")
  /\ shared' = [shared EXCEPT !.cut = (@ \/ (r = run /\ ~At(r, "reader", "ended")))]
  /\ Move(r, "waiter", "check")
  /\ UNCHANGED <<q, child, run, work, told>>

WaiterChecks(r) ==
  /\ At(r, "waiter", "check")
  /\ Move(r, "waiter", IF r = shared.current THEN "clear" ELSE "done")
  /\ UNCHANGED <<q, shared, child, run, work, told>>

WaiterClears(r) ==
  /\ At(r, "waiter", "clear")
  /\ q' = [q EXCEPT !.proc = 0, !.state = "NotRunning"]
  /\ Move(r, "waiter", "notify")
  /\ UNCHANGED <<shared, child, run, work, told>>

(* Mutant: the event is set before the notice is queued. *)
WaiterNotifiesLate(r) ==
  \/ /\ At(r, "waiter", "notify")
     /\ shared' = [shared EXCEPT !.event = (@ \/ r = run)]
     /\ Move(r, "waiter", "signal")
     /\ UNCHANGED <<q, child, run, work, told>>
  \/ /\ At(r, "waiter", "signal")
     /\ shared' = [shared EXCEPT !.finished = IF WriterMayGoOn(r) THEN r ELSE @]
     /\ Move(r, "waiter", "done")
     /\ UNCHANGED <<q, child, run, work, told>>

WaiterNotifies(r) ==
  /\ At(r, "waiter", "notify")
  /\ shared' = [shared EXCEPT !.finished = IF WriterMayGoOn(r) THEN r ELSE @]
  /\ Move(r, "waiter", "signal")
  /\ UNCHANGED <<q, child, run, work, told>>

(* The event is its own run's, which the object may have replaced. *)
WaiterSignals(r) ==
  /\ At(r, "waiter", "signal")
  /\ shared' = [shared EXCEPT !.event = (@ \/ r = run)]
  /\ Move(r, "waiter", "done")
  /\ UNCHANGED <<q, child, run, work, told>>

-----------------------------------------------------------------------------
(* start: it clears what the former run left, then begins the next one.    *)
(* The waiter of the former run may not have queued its end yet.           *)

StartClears ==
  /\ Idle /\ q.state = "NotRunning" /\ run < MaxRuns
  /\ shared' = [shared EXCEPT !.paused = FALSE, !.own = 0, !.output = FALSE, !.finished = 0]
  /\ q' = [q EXCEPT !.gui = "start", !.rushed = \E r \in Runs : r = run /\ At(r, "waiter", "notify")]
  /\ UNCHANGED <<th, child, run, work, told>>

Starts ==
  /\ q.gui = "start"
  /\ run' = run + 1 /\ told' = <<>>
  /\ shared' = [shared EXCEPT !.current = run + 1, !.pending = 0, !.early = 0, !.event = FALSE, !.cut = FALSE]
  /\ q' = [q EXCEPT !.gui = "loop", !.state = "Starting", !.startupTimer = TRUE, !.stray = FALSE]
  /\ th' = [th EXCEPT ![run + 1].worker = "creating"]
  /\ UNCHANGED <<child, work>>

(* _poll_startup, from its timer or from waitForFinished. *)
MayPollStartup == q.gui = "loop" /\ shared.pending # 0 /\ (q.startupTimer \/ q.state = "Starting")

StaleStart == shared.pending # shared.current \/ shared.disposed \/ q.state # "Starting"

StartupFails ==
  /\ MayPollStartup
  /\ StaleStart \/ child[shared.pending].life = "absent"
  /\ child' = [child EXCEPT ![shared.pending].closer = (@ \/ child[shared.pending].life # "absent")]
  /\ IF StaleStart
       THEN /\ shared' = [shared EXCEPT !.pending = 0]
            /\ q' = [q EXCEPT !.startupTimer = FALSE]
            /\ told' = told
       ELSE /\ shared' = [shared EXCEPT !.pending = 0, !.early = 0, !.event = TRUE]
            /\ q' = [q EXCEPT !.startupTimer = FALSE, !.state = "NotRunning", !.proc = 0]
            /\ told' = Append(told, "error")
  /\ UNCHANGED <<th, run, work>>

(* Early input is one payload, and may be followed by the end of input. *)
Adopt ==
  /\ MayPollStartup
  /\ ~StaleStart /\ child[shared.pending].life # "absent"
  /\ LET r == shared.pending
     IN /\ shared' = [shared EXCEPT !.pending = 0, !.early = 0, !.unwritten = shared.early % 2,
                                    !.closing = shared.early >= 2]
        /\ child' = [child EXCEPT ![r].input = shared.early % 2]
        /\ th' = [th EXCEPT ![r].writer = "get", ![r].reader = "gate", ![r].waiter = "wait"]
        /\ q' = [q EXCEPT !.startupTimer = FALSE, !.noteTimer = TRUE, !.proc = r,
                          !.state = "Running"]
  /\ told' = Append(told, "started")
  /\ UNCHANGED <<run, work>>

-----------------------------------------------------------------------------
(* The end of a former run, queued for the owner of this one. *)
StrayEnd == shared.finished # 0 /\ shared.finished # run

(* Mutant: the notice of the end stays where it is. *)
DispatchAgain ==
  /\ q.gui = "loop"
  /\ shared.output \/ shared.finished # 0
  /\ shared' = [shared EXCEPT !.output = FALSE,
                              !.own = IF shared.output THEN 0 ELSE @]
  /\ q' = [q EXCEPT !.noteTimer = (@ /\ shared.finished = 0), !.stray = (@ \/ StrayEnd)]
  /\ told' = IF shared.finished # 0 /\ ~StrayEnd THEN Append(told, "finished") ELSE told
  /\ UNCHANGED <<th, child, run, work>>

(* _dispatch_notifications, from its timer or from waitForFinished, which  *)
(* dispatches until the event is set and once more: the owner takes the    *)
(* output it is told of.  A stray end stops the timer too.                 *)
Dispatch ==
  /\ q.gui = "loop"
  /\ shared.output \/ shared.finished # 0
  /\ shared' = [shared EXCEPT !.output = FALSE, !.finished = 0,
                              !.own = IF shared.output THEN 0 ELSE @]
  /\ q' = [q EXCEPT !.noteTimer = (@ /\ shared.finished = 0), !.stray = (@ \/ StrayEnd)]
  /\ told' = IF shared.finished # 0 /\ ~StrayEnd THEN Append(told, "finished") ELSE told
  /\ UNCHANGED <<th, child, run, work>>

TimerDispatches == q.noteTimer /\ Dispatch

-----------------------------------------------------------------------------
(* The other methods of the owner.                                         *)

SetOutputPaused ==
  /\ Idle
  /\ shared' = [shared EXCEPT !.paused = ~@]
  /\ UNCHANGED <<q, th, child, run, work, told>>

(* early: 1 for a payload, 2 for the end of the input, 3 for both. *)
Write ==
  /\ Idle
  /\ Works
  /\ \/ /\ q.state = "Starting" /\ shared.early % 2 = 0
        /\ shared' = [shared EXCEPT !.early = @ + 1]
        /\ child' = child
     \/ /\ q.state = "Running" /\ q.proc # 0 /\ ~shared.closing
        /\ shared.unwritten < InputCap
        /\ child' = [child EXCEPT ![q.proc].input = @ + 1]
        /\ shared' = [shared EXCEPT !.unwritten = @ + 1]
  /\ UNCHANGED <<q, th, run, told>>

CloseWriteChannel ==
  /\ Idle
  /\ \/ /\ q.state = "Starting" /\ shared.early < 2
        /\ shared' = [shared EXCEPT !.early = @ + 2]
     \/ /\ q.state # "Starting" /\ q.proc # 0 /\ ~shared.closing
        /\ shared' = [shared EXCEPT !.closing = TRUE]
  /\ UNCHANGED <<q, th, child, run, work, told>>

Closers == IF shared.pending # 0 /\ child[shared.pending].life # "absent" THEN {shared.pending} ELSE {}

(* Mutant: the generation stays. *)
CancelUnfenced ==
  /\ q.state = "Starting"
  /\ shared' = [shared EXCEPT !.pending = 0, !.early = 0, !.event = TRUE]
  /\ q' = [q EXCEPT !.startupTimer = FALSE, !.state = "NotRunning"]
  /\ told' = Append(told, "finished")
  /\ child' = [r \in Runs |-> [child[r] EXCEPT !.closer = (@ \/ r \in Closers)]]

(* _cancel_pending_start. *)
Cancel ==
  /\ q.state = "Starting"
  /\ shared' = [shared EXCEPT !.current = 0, !.pending = 0, !.early = 0, !.event = TRUE]
  /\ q' = [q EXCEPT !.startupTimer = FALSE, !.state = "NotRunning"]
  /\ told' = Append(told, "finished")
  /\ child' = [r \in Runs |-> [child[r] EXCEPT !.closer = (@ \/ r \in Closers)]]

(* terminate() and kill() resume the output; the child may survive both. *)
AskToEnd ==
  /\ q.state # "Starting" /\ q.proc # 0 /\ child[q.proc].life = "running"
  /\ \E life \in {"running", "exited"} : child' = [child EXCEPT ![q.proc].life = life]
  /\ shared' = [shared EXCEPT !.paused = FALSE]
  /\ UNCHANGED <<q, told>>

Terminate == /\ Idle
             /\ Cancel \/ AskToEnd
             /\ UNCHANGED <<th, run, work>>

(* deleteLater: close() for the last time. *)
Close ==
  /\ Idle
  /\ shared' = [shared EXCEPT !.disposed = TRUE, !.current = 0, !.pending = 0, !.early = 0,
                              !.paused = FALSE, !.closing = TRUE, !.output = FALSE,
                              !.finished = 0, !.event = TRUE]
  /\ q' = [q EXCEPT !.noteTimer = FALSE, !.startupTimer = FALSE, !.proc = 0,
                    !.state = "NotRunning"]
  /\ child' = [r \in Runs |-> [child[r] EXCEPT !.closer = (@ \/ r \in Closers \/ r = q.proc)]]
  /\ told' = IF Over THEN told ELSE Append(told, "closed")
  /\ UNCHANGED <<th, run, work>>

-----------------------------------------------------------------------------

Child(r) == ChildWrites(r) \/ ChildExits(r) \/ CloserKills(r)
Worker(r) == WorkerCreates(r) \/ WorkerDelivers(r)
Writer(r) == \/ WriterGets(r) \/ WriterFindsNothing(r) \/ WriterStops(r)
             \/ WriterWrites(r) \/ WriterEnds(r)
Reader(r) == \/ ReaderPasses(r) \/ ReaderReads(r) \/ ReaderExtends(r)
             \/ ReaderEnds(r) \/ ReaderFails(r)
Waiter(r) == \/ WaiterSeesExit(r) \/ WaiterJoins(r) \/ WaiterChecks(r) \/ WaiterClears(r)
             \/ WaiterNotifies(r) \/ WaiterSignals(r)
PollStartup == StartupFails \/ Adopt
Owner == \/ StartClears \/ SetOutputPaused \/ Write \/ CloseWriteChannel
         \/ Terminate \/ Close

Next == \/ Owner \/ Starts \/ PollStartup \/ Dispatch
        \/ \E r \in Runs : \/ Child(r) \/ Worker(r) \/ Writer(r) \/ Reader(r) \/ Waiter(r)
                         \/ WaiterFails(r)

(* Timers fire whatever else the event loop does, joins end by their       *)
(* timeouts, threads that do not wait for the child go on.                 *)
Fairness == /\ WF_vars(PollStartup) /\ WF_vars(TimerDispatches) /\ WF_vars(Starts)
            /\ \A r \in Runs : WF_vars(Worker(r)) /\ WF_vars(Waiter(r))

Spec == Init /\ [][Next]_vars

FairSpec == Spec /\ Fairness

-----------------------------------------------------------------------------
(* Properties.                                                             *)

(* The fields hold what their annotations and assignments say. *)
TypeOK ==
  /\ q \in [state : {"NotRunning", "Starting", "Running"}, proc : 0 .. MaxRuns,
            startupTimer : BOOLEAN, noteTimer : BOOLEAN, gui : {"loop", "start"},
            rushed : BOOLEAN, stray : BOOLEAN]
  /\ shared \in [current : 0 .. MaxRuns, disposed : BOOLEAN, pending : 0 .. MaxRuns,
                 early : 0 .. 3, paused : BOOLEAN, own : Nat, cut : BOOLEAN, closing : BOOLEAN,
                 unwritten : 0 .. InputCap, output : BOOLEAN, finished : 0 .. MaxRuns,
                 event : BOOLEAN]
  /\ th \in [Runs -> [worker : {"none", "creating", "created", "done"},
                      writer : {"none", "get", "write", "end", "ended"},
                      reader : {"none", "gate", "read", "extend", "ended"},
                      waiter : {"none", "wait", "join", "check", "clear", "notify",
                                "signal", "done"}]]
  /\ child \in [Runs -> [life : {"absent", "running", "exited"}, pipe : 0 .. MaxWork, input : 0 .. MaxWork, closer : BOOLEAN]]
  /\ run \in 0 .. MaxRuns /\ work \in 0 .. MaxWork

(* No child is dropped: a running one has its worker, the result that waits*)
(* for the GUI thread, the object, or a thread that is about to kill it.   *)
(* Only one whose waiter could not wait is let go.                         *)
NoOrphan ==
  \A r \in Runs :
    child[r].life = "running" /\ th[r].waiter \in {"none", "wait"} =>
      th[r].worker = "created" \/ shared.pending = r \/ q.proc = r \/ child[r].closer

(* What the threads of a former run still do leaves the present run alone: *)
(* the object has the process and the state of the current generation, and *)
(* is not running only if nothing runs for that generation.                *)
OnlyTheCurrentRun ==
  /\ shared.pending # 0 => shared.pending = run /\ q.state = "Starting"
  /\ q.state = "Running" <=> q.proc # 0
  /\ q.proc # 0 => q.proc = run /\ q.proc = shared.current /\ ~StaleWorker(run)

(* The count of bytes that are not written never exceeds what is queued or *)
(* being written, so that it cannot refuse input for ever.                 *)
InputIsNotRefused ==
  q.proc # 0 =>
    shared.unwritten <= child[q.proc].input + (IF th[q.proc].writer = "write" THEN 1 ELSE 0)

(* The threads of all runs share the object's fields, yet each run has its *)
(* child, its state and its input to itself.                               *)
RunsApart == TypeOK /\ NoOrphan /\ OnlyTheCurrentRun /\ InputIsNotRefused

(* waitForFinished reports the end only with the finished signal: once the *)
(* event of the run is set, the end was told or is queued for the dispatch *)
(* that follows.                                                           *)
EventMeansEnd == shared.event /\ q.gui = "loop" => Over \/ shared.finished = run

(* A run whose reader reached the end of the pipe has handed all its output*)
(* over when its end is told.                                              *)
FinalOutput ==
  told = <<"started", "finished">> /\ th[run].reader = "ended" /\ ~shared.cut =>
    child[run].pipe = 0 /\ shared.own = 0

(* No run is finished by a thread of a former one, whenever its owner calls*)
(* start() but for one moment: between the two steps in which a waiter     *)
(* clears the state and queues the end.                                    *)
EndIsItsOwn == q.gui = "loop" /\ (StrayEnd \/ q.stray) => q.rushed

(* The end of a run comes last, and once: the output before it, the return *)
(* of those who wait for it after it, and no end of another run.           *)
EndComesLast == FinalOutput /\ EventMeansEnd /\ EndIsItsOwn

(* The object keeps the contract of a helper's process: its state and the  *)
(* signals of its end part for a while, and that is all.                   *)
Contract == INSTANCE HelperRun WITH
              state <- q.state,
              stray <- IF q.stray THEN "told" ELSE IF StrayEnd THEN "queued" ELSE "none"

AbstractSpec == Contract!Spec

(* The exit of a child is told whatever its output, its helpers and its    *)
(* input do, however the output is paused, and although others restart: it *)
(* is lost only to the end of a former run, which stopped the timer.       *)
ExitIsTold ==
  \A r \in Runs : q.proc = r /\ child[r].life = "exited" ~> Over \/ run # r \/ q.stray
=============================================================================
