---------------------------- MODULE TerminalTab ----------------------------
(***************************************************************************)
(* A terminal tab (TerminalPane of gui_terminal.py) and what the main      *)
(* window does to close it: the queue between its process object and its   *)
(* transcript, the requests to start, stop, restart and clear, and the     *)
(* timers they leave behind.  All of it runs on the thread of Qt's event   *)
(* loop, so a handler is one action.  A handler may run another one inside *)
(* it: the object tells of output, and of the end, while the tab resumes,  *)
(* terminates or kills it.  An operator that may do that yields the set of *)
(* tabs it can leave; the others yield the tab.                            *)
(*                                                                         *)
(* The object keeps the contract of ProcessRun.  Output is counted in      *)
(* chunks, as many as can be told apart at the limits of the queue.  The   *)
(* third object a tab can have, a QtHiddenProcess on Windows, is not one of*)
(* the two here: its state and the signal of its end part for a while      *)
(* (HelperRun), so that ProcessRun does not describe it.                   *)
(***************************************************************************)
EXTENDS Naturals, Sequences

CONSTANTS
  Object,     \* "ConPty", which is polled whenever the tab turns to it, or
              \* "QProcess", whose signals come from the event loop only
  MaxRuns,    \* bound: how often the object is started
  MaxOutput,  \* bound: the output of a run since the tab was last cleared
  High, Low,  \* the queue's high and low water marks
  Turn, Sync  \* what one turn of the flush timer and a drain at the end render

ASSUME TabAssumption ==
  /\ Object \in {"ConPty", "QProcess"}
  /\ {MaxRuns, MaxOutput, High, Low} \subseteq Nat
  /\ {Turn, Sync} \subseteq Nat \ {0}
  /\ Low < High

VARIABLE tab
(* Of the object: state, run and told are those of ProcessRun; held is     *)
(* what it has read and the tab has not taken; dying, that it was killed.  *)
(* Of the tab: buf, the queued output; scheduled, the flush timer; paused; *)
(* tail, what is left of an ended run ("open": output may be held by the   *)
(* object, "drained": the end must be shown); notice, that an exit or      *)
(* error notice waits; again, the run that a restart is to follow (0: the  *)
(* flag is not set); deferred, that a start waits for the tail; starts,    *)
(* the calls of start in the event loop; stopTimer, the run the stop timer *)
(* was armed in (0: it is off); closing; doomed and gone, that deletion is *)
(* posted and done.                                                        *)
(* History: made and shown, the output since the run began or the tab was  *)
(* cleared, and what the transcript has of it; stranded, that a clear left *)
(* output with the object; waived, that a clear or a refusal ended a wait  *)
(* for a restart.                                                          *)

vars == <<tab>>

Init == tab = [state |-> "NotRunning", run |-> 0, told |-> <<>>, held |-> 0,
               dying |-> FALSE, buf |-> 0, scheduled |-> FALSE, paused |-> FALSE,
               tail |-> "none", notice |-> FALSE, again |-> 0, deferred |-> FALSE,
               starts |-> 0, stopTimer |-> 0, closing |-> FALSE, doomed |-> FALSE,
               gone |-> FALSE, made |-> 0, shown |-> 0, stranded |-> FALSE,
               waived |-> FALSE]

Least(a, b) == IF a < b THEN a ELSE b
Running(t) == t.state # "NotRunning"
Schedule(t) == [t EXCEPT !.scheduled = TRUE]

----------------------------------------------------------------------------
(* From the object to the queue.  A closing tab reads all and keeps none.  *)
Take(t) ==
  LET n == Least(t.held, High - t.buf)
      x == [t EXCEPT !.held = @ - n, !.buf = @ + n]
  IN IF t.closing THEN [t EXCEPT !.held = 0]
     ELSE IF n > 0 THEN Schedule(x) ELSE x

PauseIfFull(x) == IF x.buf >= High THEN [x EXCEPT !.paused = TRUE] ELSE x

Pull(t) == PauseIfFull([Take(t) EXCEPT !.stranded = FALSE])

(* The object of an ended run tells nothing when it is resumed, and what   *)
(* leaves room in the queue has read all of it.                            *)
DrainedIfRoom(x) == IF x.buf >= High THEN x ELSE [x EXCEPT !.tail = "drained"]

PullEnded(t) == IF t.tail = "none" \/ t.buf > Low
                  THEN t
                  ELSE DrainedIfRoom(Pull([t EXCEPT !.paused = FALSE]))

(* The end of an ended run is shown once all its output is.                *)
ScheduleRest(x) == IF x.buf > 0 \/ x.tail = "open" THEN Schedule(x) ELSE x

FinishDeferred(t) ==
  IF t.buf > 0 THEN t
  ELSE IF t.tail = "open" THEN ScheduleRest(PullEnded(t))
  ELSE LET x == [t EXCEPT !.tail = "none", !.notice = FALSE]
       IN IF t.deferred /\ ~t.closing
            THEN [x EXCEPT !.deferred = FALSE, !.starts = @ + 1]
            ELSE x

Continue(t) == IF t.buf > 0 THEN Schedule(t) ELSE FinishDeferred(t)

Render(t, budget) == LET n == Least(t.buf, budget)
                     IN [t EXCEPT !.buf = @ - n, !.shown = @ + n]

(* A notice is shown at once unless output or an end waits before it.      *)
Notice(t) == IF t.buf > 0 \/ t.scheduled \/ t.tail # "none"
               THEN [t EXCEPT !.notice = TRUE, !.scheduled = TRUE]
               ELSE t

(* Mutant: the end is not recorded, only read for. *)
MarkEndForgets(t) == Pull([t EXCEPT !.paused = FALSE])

MarkEnd(t) == PullEnded([t EXCEPT !.tail = "open"])

(* flush_process_output_now when the run has ended.                        *)
FlushEnd(t) == Continue(PullEnded(Render([t EXCEPT !.scheduled = FALSE], Sync)))

----------------------------------------------------------------------------
(* What the object does, and the slots of its signals.                     *)
Emit(t, n) == [t EXCEPT !.made = @ + n, !.held = @ + n]

End(t, signals) == [t EXCEPT !.state = "NotRunning", !.dying = FALSE,
                             !.told = @ \o signals]

OnEndError(t) == FlushEnd(Notice(MarkEnd(t)))

(* Mutant: drops a restart when a tail is left. *)
AfterEndForgets(x) ==
  IF x.closing THEN [x EXCEPT !.doomed = TRUE]
  ELSE IF x.again = 0 \/ x.buf > 0 \/ x.scheduled THEN [x EXCEPT !.again = 0]
  ELSE [x EXCEPT !.again = 0, !.starts = @ + 1]

(* The window deletes a closed tab when its process has ended; in another  *)
(* a restart that was asked for follows at once or after the tail.         *)
AfterEnd(x) ==
  IF x.closing THEN [x EXCEPT !.doomed = TRUE]
  ELSE IF x.again = 0 THEN x
  ELSE IF x.buf > 0 \/ x.scheduled
    THEN [x EXCEPT !.again = 0, !.deferred = TRUE]
    ELSE [x EXCEPT !.again = 0, !.starts = @ + 1]

OnFinished(t) == AfterEnd(FlushEnd(Notice(MarkEnd([t EXCEPT !.stopTimer = 0]))))

Finish(t) == OnFinished(End(t, <<"finished">>))
Break(t) == OnFinished(OnEndError(End(t, <<"error", "finished">>)))

(* The object reads what there is, unless it is a paused ConPTY session.   *)
Arrivals(t) == IF t.state = "Running" THEN 1 .. (MaxOutput - t.made) ELSE {}
AllRead(t) == {t} \cup {Pull(Emit(t, n)) : n \in Arrivals(t)}
Drained(t) == IF t.paused /\ Object = "ConPty" THEN {t} ELSE AllRead(t)

(* The end of a run reads the rest even of a paused session.               *)
Ends(t) == {Finish(x) : x \in AllRead(t)} \cup {Break(x) : x \in Drained(t)}

Poll(t) == IF Object = "ConPty" /\ t.state = "Running"
             THEN Drained(t) \cup Ends(t)
             ELSE {t}

Resume(t) == IF t.paused THEN Poll([t EXCEPT !.paused = FALSE]) ELSE {t}

(* terminate and kill end a start of the tab's own objects at once.        *)
Interrupt(t) == IF Object = "ConPty" /\ t.state = "Starting"
                  THEN {Finish(t)}
                  ELSE Poll(t)

Kill(t) == Interrupt(IF t.state = "Running" THEN [t EXCEPT !.dying = TRUE] ELSE t)

----------------------------------------------------------------------------
Refill(t) ==
  IF t.buf > Low THEN {t}
  ELSE {IF x.tail # "none" THEN PullEnded(x) ELSE Pull(x) : x \in Resume(t)}

FlushTurn(t) ==
  LET off == [t EXCEPT !.scheduled = FALSE]
      Rest(x) == IF x.buf = 0
                   THEN {FinishDeferred(x)}
                   ELSE {Continue(y) : y \in Refill(Render(x, Turn))}
  IN UNION {Rest(x) : x \in IF t.buf = 0 THEN Refill(off) ELSE {off}}

FlushNow(t) ==
  {Continue(x) : x \in Refill(Render([t EXCEPT !.scheduled = FALSE], Sync))}

Reset(t) == Resume([t EXCEPT !.scheduled = FALSE, !.buf = 0, !.tail = "none",
                             !.notice = FALSE])

(* start: a tail that is not shown yet puts it off, a policy may refuse it *)
(* and the object drops what it still holds of the former run.             *)
Launch(t) ==
  [t EXCEPT !.state = "Starting", !.run = @ + 1, !.told = <<>>, !.held = 0,
            !.paused = FALSE, !.deferred = FALSE, !.made = 0, !.shown = 0,
            !.stranded = FALSE, !.waived = FALSE]

Pending(t) == t.buf > 0 \/ t.scheduled \/ t.notice \/ t.tail # "none"

(* Mutant: does not wait for a tail. *)
StartOverTail(t) ==
  IF Running(t) THEN {t} ELSE {x \in {Launch(t)} : t.run < MaxRuns}

(* Mutant: does not look whether the process runs. *)
StartOverRun(t) ==
  IF Pending(t) THEN {Schedule([t EXCEPT !.deferred = TRUE])}
  ELSE {x \in {Launch(t)} : t.run < MaxRuns}

StartCall(t) ==
  IF Running(t) THEN {t}
  ELSE IF Pending(t) THEN {Schedule([t EXCEPT !.deferred = TRUE])}
  ELSE {[t EXCEPT !.waived = TRUE]} \cup {x \in {Launch(t)} : t.run < MaxRuns}

RequestStop(t, restart) ==
  LET again == IF t.closing THEN 0 ELSE IF restart THEN t.run ELSE t.again
  IN IF Running(t)
       THEN {[x EXCEPT !.stopTimer = t.run] :
               x \in Interrupt([t EXCEPT !.again = again])}
     ELSE IF again # 0 THEN {[t EXCEPT !.again = 0, !.starts = @ + 1]}
     ELSE {[t EXCEPT !.again = 0]}

----------------------------------------------------------------------------
(* What the user does with a tab that is on the screen.                    *)
Open(t) == ~t.closing /\ ~t.doomed /\ ~t.gone

Start == Open(tab) /\ tab' \in StartCall(tab)

Restart == Open(tab) /\ tab' \in IF Running(tab) THEN RequestStop(tab, TRUE)
                                                 ELSE StartCall(tab)

Stop == Open(tab) /\ tab' \in RequestStop(tab, FALSE)

(* A clear forgets the transcript, the queue and what waited for them.     *)
Waive(t) == IF t.deferred THEN [t EXCEPT !.deferred = FALSE, !.waived = TRUE] ELSE t
Strand(t) == IF t.held > 0 /\ ~t.scheduled THEN [t EXCEPT !.stranded = TRUE] ELSE t

Clear == /\ Open(tab)
         /\ \E x \in Reset([tab EXCEPT !.made = tab.held, !.shown = 0]) :
              tab' = Strand(Waive(x))

(* The tab of a process that does not run is deleted as it is; the user    *)
(* who is asked about one that runs may answer when it has ended.          *)
CloseIdle == Open(tab) /\ ~Running(tab) /\ tab' = [tab EXCEPT !.doomed = TRUE]

CloseTab ==
  /\ Open(tab) /\ tab.run > 0
  /\ \E x \in Reset([tab EXCEPT !.closing = TRUE, !.stopTimer = 0]) :
     \E y \in RequestStop([x EXCEPT !.deferred = FALSE, !.again = 0], FALSE) :
       tab' = IF Running(y) THEN y ELSE [y EXCEPT !.doomed = TRUE]

----------------------------------------------------------------------------
(* Timers and posted events.                                               *)
Flush == ~tab.gone /\ tab.scheduled /\ tab' \in FlushTurn(tab)

StopTimeout ==
  /\ ~tab.gone /\ tab.stopTimer # 0
  /\ LET off == [tab EXCEPT !.stopTimer = 0]
     IN tab' \in IF Running(tab) THEN Kill(off) ELSE {off}

RunQueuedStart ==
  ~tab.gone /\ tab.starts > 0 /\ tab' \in StartCall([tab EXCEPT !.starts = @ - 1])

(* A closed tab whose process outlived its stop request is killed, closed  *)
(* and deleted.                                                            *)
ForceClose ==
  /\ ~tab.gone /\ tab.closing /\ ~tab.doomed
  /\ \E x \in IF Running(tab) THEN Kill(tab) ELSE {tab} :
       LET y == IF ~Running(x) THEN x
                ELSE IF Object = "ConPty" THEN End(x, <<"closed">>)
                ELSE Finish(x)
       IN tab' = [y EXCEPT !.doomed = TRUE]

Delete == tab.doomed /\ ~tab.gone /\ tab' = [tab EXCEPT !.gone = TRUE]

----------------------------------------------------------------------------
(* The object's own events.                                                *)
Started == /\ ~tab.gone /\ tab.state = "Starting"
           /\ tab' = [tab EXCEPT !.state = "Running", !.told = Append(@, "started")]

FailToStart == /\ ~tab.gone /\ tab.state = "Starting"
               /\ tab' = OnEndError(End(tab, <<"error">>))

(* A ConPTY session that cannot be given the input typed meanwhile.        *)
BreakAtStart == /\ ~tab.gone /\ tab.state = "Starting" /\ Object = "ConPty"
                /\ tab' = Break(tab)

Output == ~tab.gone /\ tab.state = "Running" /\ tab' \in Drained(tab)

(* A write that fails, and only that.                                      *)
RunningError == /\ ~tab.gone /\ tab.state = "Running"
                /\ tab' \in FlushNow(Notice(tab))

Exit == ~tab.gone /\ tab.state = "Running" /\ tab' \in Ends(tab)

Next == \/ Start \/ Restart \/ Stop \/ Clear \/ CloseIdle \/ CloseTab
        \/ Flush \/ StopTimeout \/ RunQueuedStart \/ ForceClose \/ Delete
        \/ Started \/ FailToStart \/ BreakAtStart \/ Output \/ RunningError \/ Exit

Spec == Init /\ [][Next]_vars

(* Qt runs every timer and posted event, and a killed process ends.  The   *)
(* other conjuncts are WF_vars of their actions with the enabling condition *)
(* written out, because TLC takes too long to find it.                     *)
Idle(waiting) == tab.gone \/ ~waiting

FairSpec ==
  /\ Spec /\ WF_vars(RunQueuedStart) /\ WF_vars(Delete)
  /\ []<>Idle(tab.scheduled) \/ []<><<Flush>>_vars
  /\ []<>Idle(tab.stopTimer # 0) \/ []<><<StopTimeout>>_vars
  /\ []<>Idle(tab.closing /\ ~tab.doomed) \/ []<><<ForceClose>>_vars
  /\ []<>Idle(tab.dying) \/ []<><<Exit>>_vars

----------------------------------------------------------------------------
Signals == {"started", "error", "finished", "closed"}

Tabs == [state : {"NotRunning", "Starting", "Running"}, run : 0 .. MaxRuns,
         told : Seq(Signals), held : Nat, dying : BOOLEAN, buf : 0 .. High,
         scheduled : BOOLEAN, paused : BOOLEAN, tail : {"none", "open", "drained"},
         notice : BOOLEAN, again : 0 .. MaxRuns, deferred : BOOLEAN, starts : Nat,
         stopTimer : 0 .. MaxRuns, closing : BOOLEAN, doomed : BOOLEAN,
         gone : BOOLEAN, made : Nat, shown : Nat, stranded : BOOLEAN,
         waived : BOOLEAN]

TypeOK == tab \in Tabs

(* What a run has made is, in the order it came, in the transcript, in the *)
(* queue or with the object; and once its end and its notices are shown,   *)
(* all of it is in the transcript, unless a clear left some behind         *)
(* (flush_process_output, finish_deferred_process_output, on_finished).    *)
TailInOrder ==
  ~tab.closing =>
    /\ tab.made = tab.shown + tab.buf + tab.held
    /\ ~Running(tab) /\ tab.tail = "none" /\ ~tab.stranded => tab.shown = tab.made

(* Nothing waits for a flush that nobody has scheduled: queued output, an  *)
(* end, a notice, a restart put off, a paused object and what it holds.    *)
PendingIsServed ==
  /\ Pending(tab) => tab.scheduled
  /\ tab.deferred => tab.scheduled /\ ~Running(tab)
  /\ tab.paused => tab.buf > Low
  /\ tab.held > 0 /\ ~tab.closing => tab.scheduled \/ tab.stranded
  /\ tab.tail = "open" => tab.buf > Low

(* A restart starts no run while the transcript still lacks output or the  *)
(* end of the former one (start, on_finished).                             *)
NoTailCut ==
  [][tab'.run # tab.run =>
       /\ ~Running(tab) /\ ~Pending(tab)
       /\ tab.held = 0 \/ tab.stranded \/ tab.closing]_vars

(* The tab drives its object, and hears from it, as ProcessRun says: in    *)
(* particular it starts no object that runs, and each handler, with those  *)
(* that run inside it, is at most one step of the contract.                *)
Process == INSTANCE ProcessRun WITH state <- tab.state, run <- tab.run, told <- tab.told
Contract == Process!Spec

(* A restart that waits for the end of a run waits for the end of the one  *)
(* that runs: only a QProcess that fails to start leaves it behind, and    *)
(* then it comes after the next run.  A closed tab waits for none, and is  *)
(* deleted as soon as its session has ended, except that of a QProcess that*)
(* fails to start, which is left to the timer of close_tab (request_stop,  *)
(* on_error, prepare_for_close, finish_closing_tab).                       *)
FailedQProcess == Object = "QProcess" /\ tab.told = <<"error">>

RestartFits ==
  /\ tab.again # 0 =>
       \/ Running(tab) /\ tab.again = tab.run
       \/ Running(tab) /\ tab.again < tab.run /\ Object = "QProcess"
       \/ ~Running(tab) /\ FailedQProcess
  /\ tab.closing => /\ tab.again = 0 /\ ~tab.deferred
                    /\ Running(tab) \/ tab.doomed \/ FailedQProcess

(* Output, notices and requests keep their order, and none is left lying.  *)
TabInOrder == TypeOK /\ TailInOrder /\ PendingIsServed /\ RestartFits

(* Closing a tab queues no start, not even when its process ends in the    *)
(* middle of it (prepare_for_close, on_finished, request_stop).            *)
ClosingQueuesNothing == [][tab'.closing => tab'.starts <= tab.starts]_vars

(* A start comes neither too early nor in a tab that is closed.            *)
StartsInOrder == NoTailCut /\ ClosingQueuesNothing

(* A run is killed by the timer of its own stop request only.              *)
KilledAfterTerminate ==
  [][tab'.dying /\ ~tab.dying /\ ~tab.closing => tab.stopTimer = tab.run]_vars

(* A requested restart happens, unless the tab is closed, the user clears  *)
(* it while it waits or a policy refuses it (on_finished, start).          *)
RestartHappens ==
  \A r \in 1 .. (MaxRuns - 1) :
    tab.again = r ~> tab.run > r \/ tab.closing \/ tab.doomed \/ tab.waived

(* The tail of an ended run is shown to its end, through a bounded queue   *)
(* (flush_process_output), unless its tab is deleted.                      *)
TailIsShown == tab.tail # "none" ~> tab.tail = "none" \/ tab.doomed

(* A closed tab goes away, whatever its process does                       *)
(* (force_finish_closing_tab).                                             *)
CloseCompletes == tab.closing ~> tab.gone

(* What the user asked for, and what a run still has to show, is done.     *)
RequestsEnd == RestartHappens /\ TailIsShown /\ CloseCompletes
=============================================================================
