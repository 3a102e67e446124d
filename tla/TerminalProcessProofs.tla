----------------------- MODULE TerminalProcessProofs ------------------------
(***************************************************************************)
(* Proofs about TerminalProcess, for any number of runs, chunks and kinds  *)
(* of input: runs have no part in one another, a run that finishes has     *)
(* handed its output over, only a cancelled start drops a session, and the *)
(* object keeps the contract ProcessRun.                                   *)
(*                                                                         *)
(* Then, about the session it relies on, the instance Pty of ConPtySession:*)
(* its threads agree on its queues and handles, and it implements          *)
(* OutputStream.  Next, about the process object without a console, the    *)
(* instance Hid of HiddenProcess: its runs are apart, and the end of a run *)
(* comes last.  And, at the end, about the tab that owns such an object,   *)
(* the instance Pane of TerminalTab: it shows a run to its end and keeps   *)
(* to the object's contract.                                               *)
(***************************************************************************)
EXTENDS TerminalProcess, SequenceTheorems, TLAPS

(* Where the GUI thread is, and what that says of the object's session.    *)
PlaceInv ==
  /\ q.sess # 0 <=> q.state = "Running"
  /\ q.sess # 0 => q.sess = run
  /\ q.state # "NotRunning" => ~q.finishedEmitted
  /\ q.gui \in {"code", "eof"} => q.sess # 0
  /\ q.waiting \in {"exit", "drain"} => q.gui = "loop" /\ q.sess # 0
  /\ q.gui = "eof" \/ q.waiting = "drain" => q.code
  /\ q.state = "Starting" => ~q.code
  /\ q.code /\ q.sess # 0 => ses[q.sess].child = "exited"

(* A generation is the last run's or nobody's.  While the worker of the    *)
(* current one has not delivered, the object waits for it.                 *)
StartInv ==
  /\ locked.current \in {0, run}
  /\ q.state = "Starting" => locked.current = run /\ run # 0 /\ ~locked.disposed
  /\ \A r \in Runs :
       /\ r > run => worker[r] = "none"
       /\ worker[r] \in {"none", "creating"} => ses[r] = NoSession
       /\ worker[r] = "created" => ses[r].life \in {"live", "closed"}
       /\ worker[r] \in {"creating", "created"} /\ ~Stale(r) =>
            q.state = "Starting" /\ locked.pending = NoResult

(* A result is the last run's, and says whether it has a live session; the *)
(* object's session is live as well.                                       *)
ResultInv ==
  /\ locked.pending # NoResult =>
       /\ locked.pending.of = run /\ run # 0 /\ worker[run] = "done"
       /\ q.state = "Starting"
       /\ locked.pending.ok <=> ses[run].life = "live"
  /\ q.sess # 0 => worker[run] = "done" /\ ses[run].life = "live"

InputInv ==
  /\ \A sent \in locked.early : sent[1] = run
  /\ InputStaysInItsRun

(* What a session's reader has done.                                       *)
StreamInv ==
  \A r \in Runs :
    /\ ses[r].pipe + ses[r].queue <= ses[r].made
    /\ ses[r].shut => ses[r].child = "exited"
    /\ ses[r].eof /\ ~ses[r].ioerr => ses[r].shut /\ ses[r].pipe = 0

(* What the owner was told says where the run is.                          *)
ToldInv ==
  /\ q.state = "Starting" => told = <<>>
  /\ q.state = "Running" => told = <<"started">>

ProcessInv ==
  TypeOK /\ PlaceInv /\ StartInv /\ ResultInv /\ InputInv /\ StreamInv /\ ToldInv
-----------------------------------------------------------------------------
(* The steps of the object by what they do to a run.                       *)

Others == UNCHANGED <<locked, worker, run>>

Fail == q.sess # 0 /\ (\E terminate \in BOOLEAN : FailSession(q.sess, terminate)) /\ Others

(* PollEnd and WaitEnds: what the last drain leaves.                       *)
Finish ==
  /\ q.sess # 0
  /\ \E left \in {0, ses[q.sess].queue} :
       /\ left = 0 \/ (Waiting("drain") /\ q.paused)
       /\ FinishSession([ses EXCEPT ![q.sess].queue = left], q.sess)
  /\ Others

Shut ==
  /\ q.sess # 0 /\ CodeKnown
  /\ \/ q.gui = "code" /\ q.waiting # "exit"
     \/ q.gui = "loop" /\ q.waiting = "exit"
  /\ ShutDown /\ Others

Drains ==
  /\ q.sess # 0 /\ (Polling \/ Waiting("drain"))
  /\ Drain(FALSE) /\ Others /\ told' = told

Stays ==
  /\ q.gui \in {"code", "eof"}
  /\ q' = [q EXCEPT !.gui = "loop"]

Asked ==
  /\ Idle /\ q.sess # 0
  /\ \E killed \in BOOLEAN :
       q' = IF ses[q.sess].child = "exited"
              THEN [q EXCEPT !.code = TRUE, !.gui = "poll"]
              ELSE [q EXCEPT !.forced = IF killed THEN "armed" ELSE @,
                             !.pollTimer = (@ \/ killed), !.gui = "poll"]

(* Only the GUI thread goes on.                                            *)
Gui ==
  /\ \/ PollNothing \/ TimePasses \/ SetOutputPaused \/ WaitForFinished \/ WaitStarted
     \/ WaitTimesOut \/ Stays \/ Asked
  /\ UNCHANGED <<locked, worker, ses, run, told>>

Cancels == Idle /\ Cancel /\ UNCHANGED <<worker, run>>

LEMMA Shapes ==
  ASSUME ProcessInv, Next
  PROVE  \/ Gui \/ Fail \/ Finish \/ Shut \/ Drains \/ Cancels
         \/ Start \/ Send \/ Close \/ PollStartup
         \/ \E r \in Runs : Worker(r) \/ Session(r)
<1>1. ASSUME q.sess # 0, FailSession(q.sess, TRUE) \/ FailSession(q.sess, FALSE), Others PROVE Fail
  BY <1>1 DEF Fail
<1>2. CASE Poll
  <2>1. CASE PollNothing
    BY <2>1 DEF PollNothing, Gui
  <2>2. CASE PollOutput
    BY <2>2 DEF PollOutput, Drains, Others
  <2>3. CASE PollOutputRaises \/ PollCodeRaises
    BY <1>1, <2>3 DEF PollOutputRaises, PollCodeRaises, Others, ProcessInv, PlaceInv
  <2>4. CASE PollIoError
    <3>1. CASE CodeKnown
      BY <1>1, <2>4, <3>1 DEF PollIoError, Others, ProcessInv, PlaceInv
    <3>2. CASE ~CodeKnown
      BY <1>1, <2>4, <3>2 DEF PollIoError, Others, ProcessInv, PlaceInv
    <3> QED
      BY <3>1, <3>2
  <2>5. CASE PollStillRunning
    BY <1>1, <2>5 DEF PollStillRunning, Gui, Stays, Others, ProcessInv, PlaceInv
  <2>6. CASE PollChildGone
    BY <1>1, <2>6 DEF PollChildGone, Shut, Others, ProcessInv, PlaceInv
  <2>7. CASE PollNoEnd
    BY <1>1, <2>7 DEF PollNoEnd, Gui, Stays, Others, ProcessInv, PlaceInv
  <2>8. CASE PollEnd
    BY <2>8 DEF PollEnd, Finish, LastDrain, Others, ProcessInv, PlaceInv
  <2> QED
    BY <1>2, <2>1, <2>2, <2>3, <2>4, <2>5, <2>6, <2>7, <2>8 DEF Poll
<1>3. CASE Wait
  <2>1. CASE WaitStarted \/ WaitTimesOut
    BY <2>1 DEF WaitStarted, WaitTimesOut, Gui
  <2>2. CASE WaitExited
    BY <1>1, <2>2 DEF WaitExited, Waiting, Shut, CodeKnown, Others, ProcessInv, PlaceInv
  <2>3. CASE WaitDrains
    BY <1>1, <2>3 DEF WaitDrains, Waiting, Drains, Others, ProcessInv, PlaceInv
  <2>4. CASE WaitEnds
    <3>1. q.sess # 0 /\ Waiting("drain")
      BY <2>4 DEF WaitEnds, Waiting, ProcessInv, PlaceInv
    <3>2. CASE q.paused
      BY <2>4, <3>1, <3>2 DEF WaitEnds, Finish, Others
    <3>3. CASE ~q.paused
      BY <2>4, <3>1, <3>3 DEF WaitEnds, Finish, Others
    <3> QED
      BY <3>2, <3>3
  <2> QED
    BY <1>3, <2>1, <2>2, <2>3, <2>4 DEF Wait
<1>4. CASE TimePasses
  BY <1>4 DEF TimePasses, Gui
<1>5. ASSUME NEW killed \in BOOLEAN, Idle, AskToEnd(killed), UNCHANGED <<worker, run>>
      PROVE  Fail \/ Gui
  BY <1>1, <1>5 DEF AskToEnd, Gui, Asked, Others
<1>6. CASE Tab
  <2>1. CASE SetOutputPaused \/ WaitForFinished
    BY <2>1 DEF SetOutputPaused, WaitForFinished, Gui
  <2>2. CASE Terminate \/ Kill
    BY <1>5, <2>2 DEF Terminate, Kill, Cancels
  <2> QED
    BY <1>6, <2>1, <2>2 DEF Tab
<1> QED
  BY <1>2, <1>3, <1>4, <1>6 DEF Next
-----------------------------------------------------------------------------
(* Of the object's fields only its place, its timers, its deadlines, the   *)
(* code of a child that has exited, and the pause.                         *)
LEMMA GuiKeeps ==
  ASSUME ProcessInv, Gui
  PROVE  /\ q' \in Fields
         /\ q'.state = q.state /\ q'.sess = q.sess /\ q'.finishedEmitted = q.finishedEmitted
         /\ PlaceInv'
         /\ UNCHANGED <<locked, worker, ses, run, told>>
<1> USE DEF ProcessInv, TypeOK, Fields, PlaceInv, Deadlines
<1>0. UNCHANGED <<locked, worker, ses, run, told>>
  BY DEF Gui
<1>1. CASE PollNothing
  BY <1>0, <1>1 DEF PollNothing, Polling, Idle
<1>2. CASE TimePasses
  <2>1. CASE q' = [q EXCEPT !.drainBy = "passed"]
    BY <1>0, <2>1
  <2>2. CASE q' = [q EXCEPT !.forced = "passed"]
    BY <1>0, <2>2
  <2> QED
    BY <1>2, <2>1, <2>2 DEF TimePasses
<1>3. CASE SetOutputPaused
  <2>1. PICK paused \in BOOLEAN :
          q' = [q EXCEPT !.paused = paused, !.gui = IF paused THEN "loop" ELSE "poll"]
    BY <1>3 DEF SetOutputPaused
  <2>2. CASE paused
    BY <1>0, <1>3, <2>1, <2>2, ZenonT(40) DEF SetOutputPaused, Idle
  <2>3. CASE ~paused
    BY <1>0, <1>3, <2>1, <2>3 DEF SetOutputPaused, Idle
  <2> QED
    BY <2>2, <2>3
<1>4. CASE WaitForFinished
  BY <1>0, <1>4 DEF WaitForFinished, Idle
<1>5. CASE WaitStarted
  BY <1>0, <1>5 DEF WaitStarted, Waiting
<1>6. CASE WaitTimesOut
  BY <1>0, <1>6 DEF WaitTimesOut, Waiting
<1>7. CASE Stays
  BY <1>0, <1>7 DEF Stays
<1>8. CASE Asked
  <2>1. CASE ses[q.sess].child = "exited"
    <3>1. q' = [q EXCEPT !.code = TRUE, !.gui = "poll"]
      BY <1>8, <2>1 DEF Asked
    <3> QED
      BY <1>0, <1>8, <2>1, <3>1 DEF Asked, Idle
  <2>2. CASE ses[q.sess].child # "exited"
    <3>1. PICK forced \in Deadlines, timer \in BOOLEAN :
            q' = [q EXCEPT !.forced = forced, !.pollTimer = timer, !.gui = "poll"]
      BY <1>8, <2>2 DEF Asked
    <3> QED
      BY <1>0, <1>8, <3>1 DEF Asked, Idle
  <2> QED
    BY <2>1, <2>2
<1> QED
  BY <1>1, <1>2, <1>3, <1>4, <1>5, <1>6, <1>7, <1>8 DEF Gui
-----------------------------------------------------------------------------
(* A session that is given up keeps what it holds.                         *)
LEMMA GiveUpFacts ==
  ASSUME NEW s \in [Runs -> Sessions], NEW r \in Runs, NEW t \in BOOLEAN
  PROVE  LET g == GiveUp(s, r, t)
         IN  /\ g \in [Runs -> Sessions]
             /\ \A u \in Runs : u # r => g[u] = s[u]
             /\ g[r].life = "closing"
             /\ g[r].child = s[r].child /\ g[r].made = s[r].made /\ g[r].pipe = s[r].pipe
             /\ g[r].queue = s[r].queue /\ g[r].shut = s[r].shut /\ g[r].eof = s[r].eof
             /\ g[r].ioerr = s[r].ioerr /\ g[r].input = s[r].input
<1> DEFINE n == [s[r] EXCEPT !.life = "closing", !.kill = t]
<1>1. GiveUp(s, r, t) = [s EXCEPT ![r] = n]
  BY DEF GiveUp
<1>2. /\ n \in Sessions /\ n.life = "closing"
      /\ n.child = s[r].child /\ n.made = s[r].made /\ n.pipe = s[r].pipe
      /\ n.queue = s[r].queue /\ n.shut = s[r].shut /\ n.eof = s[r].eof
      /\ n.ioerr = s[r].ioerr /\ n.input = s[r].input
  BY DEF Sessions
<1> HIDE DEF n
<1> QED
  BY <1>1, <1>2

(* The object after the end of a session.                                  *)
LEMMA EndedFacts ==
  ASSUME TypeOK
  PROVE  /\ Ended \in Fields
         /\ Ended.state = "NotRunning" /\ Ended.sess = 0 /\ Ended.gui = "loop"
         /\ Ended.waiting = IF q.waiting = "start" THEN "start" ELSE "no"
         /\ Ended.paused = q.paused
<1> DEFINE w == IF q.waiting = "start" THEN "start" ELSE "no"
           e == [q EXCEPT !.state = "NotRunning", !.finishedEmitted = TRUE, !.pollTimer = FALSE,
                          !.drainBy = "none", !.forced = "none", !.sess = 0, !.gui = "loop",
                          !.waiting = w]
<1>1. w \in {"no", "start"}
  OBVIOUS
<1>2. Ended = e
  BY DEF Ended
<1> HIDE DEF w
<1>3. e \in Fields
  <2>1. q \in Fields /\ 0 \in 0 .. MaxRuns
    BY BoundsAssumption DEF TypeOK
  <2> QED
    BY <1>1, <2>1 DEF Fields, Deadlines
<1>4. e.waiting = w /\ e.state = "NotRunning" /\ e.sess = 0 /\ e.gui = "loop" /\ e.paused = q.paused
  BY DEF TypeOK, Fields
<1> HIDE DEF e
<1> QED
  BY <1>2, <1>3, <1>4 DEF w

(* What a step of a session's child or threads may change.                 *)
Lives(r, s) ==
  /\ ses' = [ses EXCEPT ![r] = s]
  /\ ses[r].life \in {"live", "closing"}
  /\ s.life = ses[r].life \/ (ses[r].life = "closing" /\ s.life = "closed")
  /\ s.input = ses[r].input
  /\ ses[r].child = "exited" => s.child = "exited"
  /\ s.pipe + s.queue <= s.made
  /\ s.shut => s.child = "exited"
  /\ s.eof /\ ~s.ioerr => s.shut /\ s.pipe = 0
  /\ ses[r].life = "closing" =>
       s.pipe = ses[r].pipe /\ s.queue = ses[r].queue /\ s.ioerr = ses[r].ioerr

LEMMA SessionFacts ==
  ASSUME ProcessInv, NEW r \in Runs, Session(r)
  PROVE  (\E s \in Sessions : Lives(r, s)) /\ UNCHANGED <<q, locked, worker, run, told>>
<1>0. UNCHANGED <<q, locked, worker, run, told>>
  BY DEF Session, ChildWrites, ChildExits, ReaderMoves, ReaderEnds, ReaderFails, WriterFails,
         SessionCloses
<1> DEFINE old == ses[r]
<1>1. /\ old \in Sessions /\ ses \in [Runs -> Sessions]
      /\ old.pipe + old.queue <= old.made
      /\ old.shut => old.child = "exited"
      /\ old.eof /\ ~old.ioerr => old.shut /\ old.pipe = 0
  BY DEF ProcessInv, TypeOK, StreamInv
<1>2. CASE ChildWrites(r)
  <2> DEFINE s == [old EXCEPT !.pipe = @ + 1, !.made = @ + 1]
  <2>1. s \in Sessions
    BY <1>1, <1>2, BoundsAssumption DEF ChildWrites, Sessions
  <2>2. ses' = [ses EXCEPT ![r] = s]
    BY <1>2 DEF ChildWrites
  <2>3. Lives(r, s)
    BY <1>1, <1>2, <2>2 DEF Lives, ChildWrites, Sessions
  <2> QED
    BY <1>0, <2>1, <2>3
<1>3. CASE ChildExits(r)
  <2> DEFINE s == [old EXCEPT !.child = "exited"]
  <2>1. s \in Sessions
    BY <1>1 DEF Sessions
  <2>2. ses' = [ses EXCEPT ![r] = s]
    BY <1>3 DEF ChildExits
  <2>3. Lives(r, s)
    BY <1>1, <1>3, <2>2 DEF Lives, ChildExits, Sessions
  <2> QED
    BY <1>0, <2>1, <2>3
<1>4. CASE ReaderMoves(r)
  <2> DEFINE s == [old EXCEPT !.pipe = @ - 1, !.queue = @ + 1]
  <2>1. s \in Sessions
    BY <1>1, <1>4, BoundsAssumption DEF ReaderMoves, Sessions
  <2>2. ses' = [ses EXCEPT ![r] = s]
    BY <1>4 DEF ReaderMoves
  <2>3. Lives(r, s)
    BY <1>1, <1>4, <2>2 DEF Lives, ReaderMoves, Sessions
  <2> QED
    BY <1>0, <2>1, <2>3
<1>5. CASE ReaderEnds(r)
  <2> DEFINE s == [old EXCEPT !.eof = TRUE]
  <2>1. s \in Sessions
    BY <1>1 DEF Sessions
  <2>2. ses' = [ses EXCEPT ![r] = s]
    BY <1>5 DEF ReaderEnds
  <2>3. Lives(r, s)
    BY <1>1, <1>5, <2>2 DEF Lives, ReaderEnds, Sessions
  <2> QED
    BY <1>0, <2>1, <2>3
<1>6. CASE ReaderFails(r)
  <2> DEFINE s == [old EXCEPT !.eof = TRUE, !.ioerr = TRUE]
  <2>1. s \in Sessions
    BY <1>1 DEF Sessions
  <2>2. ses' = [ses EXCEPT ![r] = s]
    BY <1>6 DEF ReaderFails
  <2>3. Lives(r, s)
    BY <1>1, <1>6, <2>2 DEF Lives, ReaderFails, Sessions
  <2> QED
    BY <1>0, <2>1, <2>3
<1>7. CASE WriterFails(r)
  <2> DEFINE s == [old EXCEPT !.ioerr = TRUE]
  <2>1. s \in Sessions
    BY <1>1 DEF Sessions
  <2>2. ses' = [ses EXCEPT ![r] = s]
    BY <1>7 DEF WriterFails
  <2>3. Lives(r, s)
    BY <1>1, <1>7, <2>2 DEF Lives, WriterFails, Sessions
  <2> QED
    BY <1>0, <2>1, <2>3
<1>8. CASE SessionCloses(r)
  <2>1. PICK child \in {old.child, "exited"} :
          ses' = [ses EXCEPT ![r].life = "closed", ![r].child = child]
    BY <1>8 DEF SessionCloses
  <2> DEFINE s == [old EXCEPT !.life = "closed", !.child = child]
  <2>2. s \in Sessions
    BY <1>1 DEF Sessions
  <2>3. ses' = [ses EXCEPT ![r] = s]
    BY <2>1
  <2>4. Lives(r, s)
    BY <1>1, <1>8, <2>3 DEF Lives, SessionCloses, Sessions
  <2> QED
    BY <1>0, <2>2, <2>4
<1> QED
  BY <1>2, <1>3, <1>4, <1>5, <1>6, <1>7, <1>8 DEF Session
-----------------------------------------------------------------------------
(* Session r has been given up, with n chunks left in its queue.           *)
GivenUp(r, n) ==
  /\ ses' \in [Runs -> Sessions]
  /\ \A u \in Runs : u # r => ses'[u] = ses[u]
  /\ ses'[r].life = "closing"
  /\ ses'[r].child = ses[r].child /\ ses'[r].made = ses[r].made /\ ses'[r].pipe = ses[r].pipe
  /\ ses'[r].queue = n /\ ses'[r].shut = ses[r].shut /\ ses'[r].eof = ses[r].eof
  /\ ses'[r].ioerr = ses[r].ioerr /\ ses'[r].input = ses[r].input

LEMMA GivenUpFrom ==
  ASSUME NEW s \in [Runs -> Sessions], NEW r \in Runs, NEW t \in BOOLEAN, ses' = GiveUp(s, r, t),
         \A u \in Runs : u # r => s[u] = ses[u],
         s[r].child = ses[r].child, s[r].made = ses[r].made, s[r].pipe = ses[r].pipe,
         s[r].shut = ses[r].shut, s[r].eof = ses[r].eof, s[r].ioerr = ses[r].ioerr,
         s[r].input = ses[r].input
  PROVE  GivenUp(r, s[r].queue)
  BY GiveUpFacts DEF GivenUp

LEMMA SimplyGivenUp ==
  ASSUME ProcessInv, NEW r \in Runs, NEW t \in BOOLEAN, ses' = GiveUp(ses, r, t)
  PROVE  GivenUp(r, ses[r].queue)
  BY GivenUpFrom DEF ProcessInv, TypeOK

(* What the owner is told, written out.                                    *)
Words == {"started", "error", "finished", "closed"}

LEMMA Tuples ==
  /\ <<"started">> \o <<"error", "finished">> = <<"started", "error", "finished">>
  /\ \A w \in Words : Append(<<"started">>, w) = <<"started", w>>
  /\ <<>> \o <<"error", "finished">> = <<"error", "finished">>
  /\ \A x \in STRING : Append(<<>>, x) = <<x>>
<1>1. <<"started">> \o <<"error", "finished">> = <<"started", "error", "finished">>
  <2> DEFINE c == <<"started">>
             d == <<"error", "finished">>
             a == c \o d
             b == <<"started", "error", "finished">>
  <2>1. /\ c \in Seq(Words) /\ Len(c) = 1 /\ c[1] = "started"
        /\ d \in Seq(Words) /\ Len(d) = 2 /\ d[1] = "error" /\ d[2] = "finished"
        /\ b \in Seq(Words) /\ Len(b) = 3
        /\ b[1] = "started" /\ b[2] = "error" /\ b[3] = "finished"
    BY DEF Words
  <2> HIDE DEF c, d
  <2>2. a \in Seq(Words) /\ Len(a) = 3
    <3>1. c \in Seq(Words) /\ d \in Seq(Words) /\ Len(c) = 1 /\ Len(d) = 2
      BY <2>1
    <3>2. a \in Seq(Words) /\ Len(a) = Len(c) + Len(d)
      BY <3>1, ConcatProperties
    <3> QED
      BY <3>1, <3>2
  <2>3. a[1] = "started" /\ a[2] = "error" /\ a[3] = "finished"
    <3>1. c \in Seq(Words) /\ d \in Seq(Words)
      BY <2>1
    <3>2. \A i \in 1 .. Len(c) + Len(d) : a[i] = IF i <= Len(c) THEN c[i] ELSE d[i - Len(c)]
      BY <3>1, ConcatProperties
    <3> HIDE DEF a
    <3> QED
      BY <2>1, <3>2
  <2> HIDE DEF a, b
  <2>4. a = b
    BY <2>1, <2>2, <2>3, SeqEqual
  <2> QED
    BY <2>4 DEF a, b, c, d
<1>2. ASSUME NEW w \in Words PROVE Append(<<"started">>, w) = <<"started", w>>
  <2> DEFINE a == Append(<<"started">>, w)
             b == <<"started", w>>
  <2>1. <<"started">> \in Seq(Words) /\ b \in Seq(Words) /\ Len(b) = 2
    BY DEF Words
  <2>2. a \in Seq(Words) /\ Len(a) = 2 /\ a[1] = "started" /\ a[2] = w
    BY <2>1 DEF Words
  <2>3. b[1] = "started" /\ b[2] = w
    OBVIOUS
  <2> HIDE DEF a, b
  <2>4. a = b
    BY <2>1, <2>2, <2>3, SeqEqual
  <2> QED
    BY <2>4 DEF a, b
<1>3. <<>> \o <<"error", "finished">> = <<"error", "finished">>
  OBVIOUS
<1>4. \A x \in STRING : Append(<<>>, x) = <<x>>
  OBVIOUS
<1> QED
  BY <1>1, <1>2, <1>3, <1>4

(* What every end of the last run does to the invariant: q' is Ended.      *)
LEMMA EndKeeps ==
  ASSUME ProcessInv, run \in Runs, worker[run] = "done",
         NEW timer \in BOOLEAN, q' = [Ended EXCEPT !.startupTimer = timer],
         NEW n \in Nat, n <= ses[run].queue, GivenUp(run, n),
         UNCHANGED <<worker, run>>, locked' \in Guarded,
         locked'.pending = NoResult, locked'.current = locked.current,
         locked'.disposed = locked.disposed, locked'.early \subseteq locked.early,
         told' \in Seq({"started", "error", "finished", "closed"})
  PROVE  ProcessInv'
<1>1. /\ q' \in Fields
      /\ q'.state = "NotRunning" /\ q'.sess = 0 /\ q'.gui = "loop" /\ q'.paused = q.paused
      /\ q'.waiting = IF q.waiting = "start" THEN "start" ELSE "no"
  <2> DEFINE e == Ended
  <2>1. /\ e \in Fields
        /\ e.state = "NotRunning" /\ e.sess = 0 /\ e.gui = "loop" /\ e.paused = q.paused
        /\ e.waiting = IF q.waiting = "start" THEN "start" ELSE "no"
    BY EndedFacts DEF ProcessInv
  <2>2. q' = [e EXCEPT !.startupTimer = timer]
    OBVIOUS
  <2> HIDE DEF e
  <2> QED
    BY <2>1, <2>2 DEF Fields
<1>2. TypeOK'
  BY <1>1 DEF ProcessInv, TypeOK, GivenUp
<1>3. PlaceInv'
  BY <1>1 DEF PlaceInv
<1>4. StartInv'
  BY <1>1 DEF ProcessInv, StartInv, ResultInv, GivenUp, Stale, NoResult, TypeOK
<1>5. ResultInv'
  BY <1>1 DEF ResultInv
<1>6. InputInv'
  BY DEF ProcessInv, InputInv, InputStaysInItsRun, GivenUp
<1>7. StreamInv'
  <2>1. ses[run].pipe \in Nat /\ ses[run].queue \in Nat /\ ses[run].made \in Nat
    BY BoundsAssumption DEF ProcessInv, TypeOK, Sessions
  <2>2. n <= ses[run].queue /\ ses[run].pipe + ses[run].queue <= ses[run].made
    BY DEF ProcessInv, StreamInv
  <2>3. ses[run].pipe + n <= ses[run].made
    <3>1. \A a, b, c \in Nat : n <= b /\ a + b <= c => a + n <= c
      OBVIOUS
    <3> QED
      BY <2>1, <2>2, <3>1
  <2> QED
    BY <2>3 DEF ProcessInv, StreamInv, GivenUp
<1>8. ToldInv'
  BY <1>1 DEF ToldInv, GivenUp, Runs
<1> QED
  BY <1>2, <1>3, <1>4, <1>5, <1>6, <1>7, <1>8 DEF ProcessInv

LEMMA RunIs == ASSUME ProcessInv, q.sess # 0
               PROVE  /\ run \in Runs /\ q.sess = run /\ worker[run] = "done"
                      /\ q.state = "Running" /\ told = <<"started">>
  BY BoundsAssumption DEF ProcessInv, TypeOK, PlaceInv, ResultInv, ToldInv, Runs

(* An end without a result to take changes nothing the lock protects.      *)
LEMMA NoResultWhileRunning ==
  ASSUME ProcessInv, q.state # "Starting"
  PROVE  locked.pending = NoResult
  BY DEF ProcessInv, ResultInv

LEMMA EndedTimer ==
  ASSUME ProcessInv, q' = Ended
  PROVE  \E timer \in BOOLEAN : q' = [Ended EXCEPT !.startupTimer = timer]
<1>1. Ended \in Fields
  BY EndedFacts DEF ProcessInv
<1> HIDE DEF Ended
<1>2. Ended.startupTimer \in BOOLEAN /\ Ended = [Ended EXCEPT !.startupTimer = Ended.startupTimer]
  BY <1>1 DEF Fields
<1> QED
  BY <1>2

LEMMA FailKeeps ==
  ASSUME ProcessInv, Fail
  PROVE  ProcessInv' /\ GivenUp(run, ses[run].queue) /\ q'.sess = 0 /\ q'.state = "NotRunning"
         /\ told' = told \o <<"error", "finished">>
<1>1. /\ run \in Runs /\ q.sess = run /\ worker[run] = "done" /\ told = <<"started">>
      /\ q.state = "Running" /\ locked.pending = NoResult
  BY RunIs, NoResultWhileRunning DEF Fail
<1>2. PICK t \in BOOLEAN : FailSession(run, t)
  BY <1>1 DEF Fail
<1>3. GivenUp(run, ses[run].queue)
  BY <1>1, <1>2, SimplyGivenUp DEF FailSession
<1>4. PICK timer \in BOOLEAN : q' = [Ended EXCEPT !.startupTimer = timer]
  BY <1>2, EndedTimer DEF FailSession
<1>5. told' = <<"started", "error", "finished">>
  <2>1. told' = told \o <<"error", "finished">>
    BY <1>2 DEF FailSession
  <2> QED
    BY <1>1, <2>1, Tuples
<1>6. ses[run].queue \in Nat /\ ses[run].queue <= ses[run].queue
  BY <1>1, BoundsAssumption DEF ProcessInv, TypeOK, Sessions
<1>7. locked' = locked /\ locked \in Guarded /\ UNCHANGED <<worker, run>>
  BY DEF Fail, Others, ProcessInv, TypeOK
<1>8. told' # <<"started", "finished">> /\ told' \in Seq({"started", "error", "finished", "closed"})
  BY <1>5
<1>9. ProcessInv'
  BY <1>1, <1>3, <1>4, <1>6, <1>7, <1>8, EndKeeps
<1>10. q'.sess = 0 /\ q'.state = "NotRunning"
  BY <1>2, EndedFacts DEF FailSession, ProcessInv
<1> QED
  BY <1>2, <1>3, <1>9, <1>10 DEF FailSession

LEMMA FinishKeeps ==
  ASSUME ProcessInv, Finish
  PROVE  /\ ProcessInv' /\ (\E n \in Nat : GivenUp(run, n))
         /\ q'.sess = 0 /\ q'.state = "NotRunning" /\ told' = Append(told, "finished")
         /\ ~ses'[run].ioerr => ses'[run].pipe = 0
         /\ ses'[run].queue = 0 \/ (Waiting("drain") /\ q.paused)
<1>1. /\ run \in Runs /\ q.sess = run /\ worker[run] = "done" /\ told = <<"started">>
      /\ q.state = "Running" /\ locked.pending = NoResult
  BY RunIs, NoResultWhileRunning DEF Finish
<1>2. PICK n \in {0, ses[run].queue} :
        /\ n = 0 \/ (Waiting("drain") /\ q.paused)
        /\ FinishSession([ses EXCEPT ![run].queue = n], run)
  BY <1>1 DEF Finish
<1>3. n \in Nat /\ n <= ses[run].queue /\ n \in 0 .. QueueCap
  BY <1>1, <1>2, BoundsAssumption DEF ProcessInv, TypeOK, Sessions
<1> DEFINE s == [ses EXCEPT ![run].queue = n]
<1>4. /\ s \in [Runs -> Sessions] /\ \A u \in Runs : u # run => s[u] = ses[u]
      /\ s[run] = [ses[run] EXCEPT !.queue = n]
  BY <1>1, <1>3 DEF ProcessInv, TypeOK, Sessions
<1>5. ses' = GiveUp(s, run, FALSE) /\ s[run].eof
  BY <1>2 DEF FinishSession
<1> HIDE DEF s
<1>6. GivenUp(run, n)
  <2>1. /\ s[run].queue = n /\ s[run].child = ses[run].child /\ s[run].made = ses[run].made
        /\ s[run].pipe = ses[run].pipe /\ s[run].shut = ses[run].shut
        /\ s[run].eof = ses[run].eof /\ s[run].ioerr = ses[run].ioerr
        /\ s[run].input = ses[run].input
    BY <1>1, <1>4 DEF ProcessInv, TypeOK, Sessions
  <2> QED
    BY <1>1, <1>4, <1>5, <2>1, GivenUpFrom
<1>7. PICK timer \in BOOLEAN : q' = [Ended EXCEPT !.startupTimer = timer]
  BY <1>2, EndedTimer DEF FinishSession
<1>8. told' = <<"started", "finished">>
  <2>1. told' = Append(told, "finished")
    BY <1>2 DEF FinishSession
  <2> QED
    BY <1>1, <2>1, Tuples DEF Words
<1>9. ses[run].ioerr \/ ses[run].pipe = 0
  <2>1. ses[run].eof
    BY <1>1, <1>4, <1>5 DEF ProcessInv, TypeOK, Sessions
  <2> QED
    BY <1>1, <1>2, <2>1 DEF ProcessInv, StreamInv
<1>10. locked' = locked /\ locked \in Guarded /\ UNCHANGED <<worker, run>>
  BY DEF Finish, Others, ProcessInv, TypeOK
<1>11. told' \in Seq({"started", "error", "finished", "closed"})
  BY <1>8
<1>12. ProcessInv'
  BY <1>1, <1>3, <1>6, <1>7, <1>9, <1>10, <1>11, EndKeeps
<1>13. q'.sess = 0 /\ q'.state = "NotRunning"
  BY <1>2, EndedFacts DEF FinishSession, ProcessInv
<1>14. /\ ~ses'[run].ioerr => ses'[run].pipe = 0
       /\ ses'[run].queue = 0 \/ (Waiting("drain") /\ q.paused)
  BY <1>2, <1>6, <1>9 DEF GivenUp
<1> QED
  BY <1>2, <1>3, <1>6, <1>12, <1>13, <1>14 DEF FinishSession

LEMMA AdoptBreaksKeeps ==
  ASSUME ProcessInv, AdoptBreaks
  PROVE  /\ ProcessInv' /\ run \in Runs /\ locked.pending.of = run
         /\ GivenUp(run, ses[run].queue) /\ q'.sess = 0 /\ q'.state = "NotRunning"
         /\ locked'.pending = NoResult
<1>1. /\ run \in Runs /\ locked.pending.of = run /\ worker[run] = "done" /\ told = <<>>
      /\ q.state = "Starting"
  BY BoundsAssumption
     DEF AdoptBreaks, MayPollStartup, ProcessInv, ResultInv, ToldInv, TypeOK, Runs
<1>2. GivenUp(run, ses[run].queue)
  BY <1>1, SimplyGivenUp DEF AdoptBreaks
<1>3. told' = <<"error", "finished">>
  <2>1. told' = told \o <<"error", "finished">>
    BY DEF AdoptBreaks
  <2> QED
    BY <1>1, <2>1, Tuples
<1>4. told' # <<"started", "finished">> /\ told' \in Seq({"started", "error", "finished", "closed"})
  BY <1>3
<1>5. ses[run].queue \in Nat /\ ses[run].queue <= ses[run].queue
  BY <1>1, BoundsAssumption DEF ProcessInv, TypeOK, Sessions
<1>6. /\ locked' \in Guarded /\ locked'.pending = NoResult /\ locked'.current = locked.current
      /\ locked'.disposed = locked.disposed /\ locked'.early = {}
  <2>1. locked \in Guarded /\ NoResult \in [of : 0 .. MaxRuns, ok : BOOLEAN]
    BY BoundsAssumption DEF ProcessInv, TypeOK, NoResult
  <2>2. locked' = [locked EXCEPT !.pending = NoResult, !.early = {}]
    BY <2>1 DEF AdoptBreaks, Taken, Guarded
  <2> HIDE DEF NoResult
  <2> QED
    BY <2>1, <2>2 DEF Guarded
<1>7. q' = [Ended EXCEPT !.startupTimer = FALSE] /\ UNCHANGED <<worker, run>>
  BY DEF AdoptBreaks
<1>8. ProcessInv'
  BY <1>1, <1>2, <1>4, <1>5, <1>6, <1>7, EndKeeps
<1>9. q'.sess = 0 /\ q'.state = "NotRunning"
  <2>1. Ended \in Fields /\ Ended.sess = 0 /\ Ended.state = "NotRunning"
    BY EndedFacts DEF ProcessInv
  <2> HIDE DEF Ended
  <2> QED
    BY <1>7, <2>1 DEF Fields
<1> QED
  BY <1>1, <1>2, <1>6, <1>8, <1>9
-----------------------------------------------------------------------------
(* The other steps of the GUI thread.                                      *)
LEMMA GuiStep == ASSUME ProcessInv, Gui PROVE ProcessInv'
<1>1. /\ q' \in Fields /\ q'.state = q.state /\ q'.sess = q.sess
      /\ PlaceInv'
      /\ UNCHANGED <<locked, worker, ses, run, told>>
  BY GuiKeeps
<1>2. TypeOK'
  BY <1>1 DEF ProcessInv, TypeOK
<1>3. StartInv'
  BY <1>1 DEF ProcessInv, StartInv, Stale
<1>4. ResultInv'
  BY <1>1 DEF ProcessInv, ResultInv
<1>5. InputInv'
  BY <1>1 DEF ProcessInv, InputInv, InputStaysInItsRun
<1>6. StreamInv'
  BY <1>1 DEF ProcessInv, StreamInv
<1>7. ToldInv'
  BY <1>1 DEF ProcessInv, ToldInv
<1> QED
  BY <1>1, <1>2, <1>3, <1>4, <1>5, <1>6, <1>7 DEF ProcessInv

(* A step that changes one live session's queue, or closes its console.    *)
LEMMA SessionInUse ==
  ASSUME ProcessInv, q.sess # 0, NEW s \in Sessions, ses' = [ses EXCEPT ![q.sess] = s],
         s.life = ses[q.sess].life, s.child = ses[q.sess].child, s.input = ses[q.sess].input,
         s.pipe + s.queue <= s.made, s.shut => s.child = "exited",
         s.eof /\ ~s.ioerr => s.shut /\ s.pipe = 0,
         q' \in Fields, q'.state = q.state, q'.sess = q.sess, PlaceInv',
         Others, told' = told
  PROVE  ProcessInv' /\ ses'[run].life = "live"
<1>1. run \in Runs /\ q.sess = run /\ worker[run] = "done" /\ told = <<"started">>
  BY RunIs
<1>2. ses'[run] = s /\ \A u \in Runs : u # run => ses'[u] = ses[u]
  BY <1>1 DEF ProcessInv, TypeOK
<1>3. TypeOK'
  BY <1>1 DEF ProcessInv, TypeOK, Others
<1>4. StartInv'
  BY <1>1, <1>2 DEF ProcessInv, StartInv, Stale, Others
<1>5. ResultInv'
  BY <1>1, <1>2 DEF ProcessInv, ResultInv, Others
<1>6. InputInv'
  BY <1>1, <1>2 DEF ProcessInv, InputInv, InputStaysInItsRun, Others
<1>7. StreamInv'
  BY <1>1, <1>2 DEF ProcessInv, StreamInv
<1>8. ToldInv'
  BY <1>1 DEF ProcessInv, ToldInv
<1>10. ses'[run].life = "live"
  BY <1>1, <1>2 DEF ProcessInv, ResultInv
<1> QED
  BY <1>3, <1>4, <1>5, <1>6, <1>7, <1>8, <1>10 DEF ProcessInv

LEMMA ShutStep == ASSUME ProcessInv, Shut
                  PROVE  ProcessInv' /\ ses'[run].life = "live" /\ q'.state = q.state
                         /\ q'.sess = q.sess
<1>1. run \in Runs /\ q.sess = run /\ told = <<"started">> /\ q.state = "Running"
  BY RunIs DEF Shut
<1> DEFINE s == [ses[run] EXCEPT !.shut = TRUE]
<1>2. /\ ses[run] \in Sessions /\ ses[run].child = "exited"
      /\ ses[run].pipe + ses[run].queue <= ses[run].made
      /\ ses[run].eof /\ ~ses[run].ioerr => ses[run].shut /\ ses[run].pipe = 0
  BY <1>1 DEF Shut, CodeKnown, ProcessInv, TypeOK, PlaceInv, StreamInv
<1>3. ses' = [ses EXCEPT ![q.sess] = s] /\ told' = told
  BY <1>1 DEF Shut, ShutDown
<1>4. /\ s \in Sessions /\ s.life = ses[run].life /\ s.child = ses[run].child
      /\ s.input = ses[run].input
      /\ s.pipe + s.queue <= s.made /\ s.shut /\ s.child = "exited"
      /\ s.eof /\ ~s.ioerr => s.shut /\ s.pipe = 0
  BY <1>2 DEF Sessions
<1>5. /\ q' \in Fields /\ q'.state = q.state /\ q'.sess = q.sess /\ q'.paused = q.paused
      /\ q'.code /\ q'.finishedEmitted = q.finishedEmitted
      /\ q'.gui = IF q.waiting = "exit" THEN "loop" ELSE "eof"
      /\ q'.waiting = IF q.waiting = "exit" THEN "drain" ELSE q.waiting
  <2> DEFINE drainBy == IF q.shutStarted THEN q.drainBy ELSE "armed"
             forced == IF q.waiting = "exit" THEN q.forced ELSE "none"
             gui == IF q.waiting = "exit" THEN "loop" ELSE "eof"
             waiting == IF q.waiting = "exit" THEN "drain" ELSE q.waiting
  <2>1. q \in Fields
    BY DEF ProcessInv, TypeOK
  <2>2. /\ drainBy \in Deadlines /\ forced \in Deadlines /\ gui \in {"loop", "eof"}
        /\ waiting \in {"no", "start", "exit", "drain"}
    BY <2>1 DEF Fields, Deadlines
  <2>3. q' = [q EXCEPT !.code = TRUE, !.shutStarted = TRUE, !.drainBy = drainBy,
                       !.forced = forced, !.gui = gui, !.waiting = waiting]
    BY DEF Shut, ShutDown
  <2> HIDE DEF drainBy, forced, gui, waiting
  <2>4. q' \in Fields /\ q'.state = q.state /\ q'.sess = q.sess /\ q'.paused = q.paused
        /\ q'.code /\ q'.finishedEmitted = q.finishedEmitted /\ q'.gui = gui /\ q'.waiting = waiting
    BY <2>1, <2>2, <2>3 DEF Fields
  <2> QED
    BY <2>4 DEF gui, waiting
<1> HIDE DEF s
<1>6. ses'[run] = s /\ UNCHANGED run
  BY <1>1, <1>3 DEF ProcessInv, TypeOK, Shut, Others
<1>7. PlaceInv'
  BY <1>1, <1>2, <1>4, <1>5, <1>6 DEF Shut, ProcessInv, PlaceInv
<1> QED
  BY <1>1, <1>3, <1>4, <1>5, <1>7, SessionInUse DEF Shut

LEMMA DrainsStep == ASSUME ProcessInv, Drains
                    PROVE  ProcessInv' /\ ses'[run].life = "live" /\ q'.state = q.state
                           /\ q'.sess = q.sess
<1>1. run \in Runs /\ q.sess = run /\ told = <<"started">> /\ q.state = "Running"
  BY RunIs DEF Drains
<1> DEFINE taken == IF q.paused /\ ~FALSE THEN 0 ELSE ses[q.sess].queue
           s == [ses[run] EXCEPT !.queue = @ - taken]
<1>2. /\ ses[run] \in Sessions
      /\ ses[run].pipe + ses[run].queue <= ses[run].made
      /\ ses[run].shut => ses[run].child = "exited"
      /\ ses[run].eof /\ ~ses[run].ioerr => ses[run].shut /\ ses[run].pipe = 0
  BY <1>1 DEF ProcessInv, TypeOK, StreamInv
<1>3. ses' = [ses EXCEPT ![q.sess] = s] /\ told' = told
  BY <1>1 DEF Drains, Drain
<1>4. PICK left \in {0, ses[run].queue} : s = [ses[run] EXCEPT !.queue = left]
  <2>1. ses[run].queue \in Nat
    BY <1>2, BoundsAssumption DEF Sessions
  <2>2. CASE q.paused
    BY <1>1, <2>1, <2>2
  <2>3. CASE ~q.paused
    BY <1>1, <2>1, <2>3
  <2> QED
    BY <2>2, <2>3
<1> HIDE DEF s
<1>5. /\ left \in 0 .. QueueCap /\ left <= ses[run].queue /\ left \in Nat
      /\ ses[run].queue \in Nat /\ ses[run].pipe \in Nat /\ ses[run].made \in Nat
  BY <1>2, <1>4, BoundsAssumption DEF Sessions
<1>6. ses[run].pipe + left <= ses[run].made
  <2>1. \A a, b, c \in Nat : left <= b /\ a + b <= c => a + left <= c
    BY <1>5
  <2> QED
    BY <1>2, <1>5, <2>1
<1>7. /\ s \in Sessions /\ s.life = ses[run].life /\ s.child = ses[run].child
      /\ s.input = ses[run].input /\ s.pipe + s.queue <= s.made
      /\ s.shut => s.child = "exited"
      /\ s.eof /\ ~s.ioerr => s.shut /\ s.pipe = 0
  BY <1>2, <1>4, <1>5, <1>6 DEF Sessions
<1>8. PICK pause \in BOOLEAN :
        q' = [q EXCEPT !.paused = pause,
                       !.gui = IF q.waiting = "drain" THEN "loop" ELSE "code"]
  BY ZenonT(40) DEF Drains, Drain, ProcessInv, TypeOK, Fields
<1>9. /\ q' \in Fields /\ q'.state = q.state /\ q'.sess = q.sess /\ q'.paused = pause
      /\ q'.code = q.code /\ q'.finishedEmitted = q.finishedEmitted
      /\ q'.gui = IF q.waiting = "drain" THEN "loop" ELSE "code"
      /\ q'.waiting = q.waiting
  BY <1>8 DEF ProcessInv, TypeOK, Fields
<1>10. ses'[run] = s /\ UNCHANGED run
  BY <1>1, <1>3 DEF ProcessInv, TypeOK, Drains, Others
<1>11. PlaceInv'
  BY <1>1, <1>7, <1>9, <1>10 DEF Drains, Polling, Waiting, Idle, ProcessInv, PlaceInv
<1> QED
  BY <1>1, <1>3, <1>7, <1>9, <1>11, SessionInUse DEF Drains
-----------------------------------------------------------------------------
(* Starting a run, and the ways a start is resolved.                       *)
LEMMA Fenced ==
  ASSUME ProcessInv, NEW r \in 0 .. MaxRuns
  PROVE  /\ NewGeneration(r) \in Guarded
         /\ NewGeneration(r).current = r /\ NewGeneration(r).pending = NoResult
         /\ NewGeneration(r).early = {} /\ NewGeneration(r).disposed = locked.disposed
<1>1. locked \in Guarded /\ NoResult \in [of : 0 .. MaxRuns, ok : BOOLEAN]
  BY BoundsAssumption DEF ProcessInv, TypeOK, NoResult
<1> HIDE DEF NoResult
<1> QED
  BY <1>1 DEF NewGeneration, Guarded

LEMMA StartStep ==
  ASSUME ProcessInv, Start
  PROVE  /\ ProcessInv' /\ ses' = ses /\ q'.state = "Starting" /\ q'.sess = 0
         /\ run + 1 \in Runs /\ worker[run + 1] = "none"
<1>1. /\ q.sess = 0 /\ run \in 0 .. MaxRuns /\ run < MaxRuns /\ MaxRuns \in Nat
      /\ q.gui = "loop" /\ q.waiting = "no" /\ q \in Fields
  BY BoundsAssumption DEF ProcessInv, TypeOK, PlaceInv, Start, Idle
<1>2. run + 1 \in Runs /\ run + 1 \in 0 .. MaxRuns /\ run + 1 # 0 /\ run' = run + 1
  BY <1>1 DEF Runs, Start
<1>3. /\ ses' = ses /\ told' = <<>> /\ worker' = [worker EXCEPT ![run + 1] = "creating"]
      /\ locked' = NewGeneration(run + 1) /\ ~locked.disposed
  BY <1>1 DEF Start
<1>4. worker[run + 1] = "none" /\ ses[run + 1] = NoSession
  <2>1. run + 1 > run
    BY <1>1
  <2> QED
    BY <1>2, <2>1 DEF ProcessInv, StartInv
<1>5. /\ locked' \in Guarded /\ locked'.current = run + 1 /\ locked'.pending = NoResult
      /\ locked'.early = {} /\ ~locked'.disposed
  BY <1>2, <1>3, Fenced
<1>6. /\ q' \in Fields /\ q'.state = "Starting" /\ q'.sess = 0 /\ ~q'.finishedEmitted
      /\ q'.gui = "loop" /\ q'.waiting = "no" /\ ~q'.code
  <2>1. q \in Fields /\ 0 \in 0 .. MaxRuns
    BY <1>1
  <2>2. q' = [q EXCEPT !.sess = 0, !.code = FALSE, !.shutStarted = FALSE, !.drainBy = "none",
                    !.forced = "none", !.finishedEmitted = FALSE, !.paused = FALSE,
                    !.state = "Starting", !.startupTimer = TRUE]
    BY DEF Start
  <2> QED
    BY <1>1, <2>1, <2>2 DEF Fields, Deadlines
<1>7. /\ worker'[run + 1] = "creating" /\ \A u \in Runs : u # run + 1 => worker'[u] = worker[u]
      /\ worker' \in [Runs -> {"none", "creating", "created", "done"}]
  BY <1>2, <1>3 DEF ProcessInv, TypeOK
<1>8. TypeOK'
  BY <1>2, <1>3, <1>5, <1>6, <1>7 DEF ProcessInv, TypeOK
<1>9. PlaceInv'
  BY <1>6 DEF PlaceInv
<1>10. StartInv'
  <2>1. locked'.current \in {0, run'} /\ (q'.state = "Starting" =>
          locked'.current = run' /\ run' # 0 /\ ~locked'.disposed)
    BY <1>2, <1>5
  <2>2. ASSUME NEW r \in Runs
        PROVE  /\ r > run' => worker'[r] = "none"
               /\ worker'[r] \in {"none", "creating"} => ses'[r] = NoSession
               /\ worker'[r] = "created" => ses'[r].life \in {"live", "closed"}
               /\ worker'[r] \in {"creating", "created"} /\ ~Stale(r)' =>
                    q'.state = "Starting" /\ locked'.pending = NoResult
    <3>1. r > run + 1 => r > run /\ r # run + 1
      BY <1>1 DEF Runs
    <3> QED
      BY <1>2, <1>3, <1>4, <1>5, <1>6, <1>7, <3>1 DEF ProcessInv, StartInv
  <2> QED
    BY <2>1, <2>2 DEF StartInv
<1>11. ResultInv'
  BY <1>5, <1>6 DEF ResultInv
<1>12. InputInv'
  BY <1>3, <1>5 DEF ProcessInv, InputInv, InputStaysInItsRun
<1>13. StreamInv'
  BY <1>3 DEF ProcessInv, StreamInv
<1>14. ToldInv'
  BY <1>3, <1>6 DEF ToldInv
<1> QED
  BY <1>2, <1>3, <1>4, <1>6, <1>8, <1>9, <1>10, <1>11, <1>12, <1>13, <1>14 DEF ProcessInv

(* A run that ends, or whose end is confirmed, without a session to give   *)
(* up: its start is cancelled, closed or has failed, or it was over.       *)
LEMMA EndsWithoutSession ==
  ASSUME ProcessInv, q.sess = 0, q.gui = "loop", q.waiting \in {"no", "start"},
         q' \in Fields, q'.state = "NotRunning", q'.sess = 0, q'.gui = "loop",
         q'.waiting = q.waiting, ~q'.paused \/ q'.paused = q.paused,
         locked' \in Guarded, locked'.pending = NoResult, locked'.early \subseteq locked.early,
         \/ locked'.current = 0
         \/ /\ worker[run] = "done"
            /\ locked'.current = locked.current /\ locked'.disposed = locked.disposed,
         told' \in Seq(Words),
         UNCHANGED <<ses, worker, run>>
  PROVE  ProcessInv'
<1>1. TypeOK'
  BY DEF ProcessInv, TypeOK, Words
<1>2. PlaceInv'
  BY DEF PlaceInv
<1>3. StartInv'
  <2>1. locked'.current \in {0, run}
    BY DEF ProcessInv, StartInv
  <2>2. ASSUME NEW r \in Runs, worker[r] \in {"creating", "created"}
        PROVE  Stale(r)'
    <3>1. CASE locked'.current = 0
      BY <3>1 DEF Stale, Runs
    <3>2. CASE locked'.current = locked.current /\ locked'.disposed = locked.disposed
               /\ worker[run] = "done"
      <4>1. r # run
        BY <2>2, <3>2
      <4> QED
        BY <2>1, <3>2, <4>1 DEF Stale, Runs
    <3> QED
      BY <3>1, <3>2
  <2> QED
    BY <2>1, <2>2 DEF ProcessInv, StartInv
<1>4. ResultInv'
  BY DEF ResultInv
<1>5. InputInv'
  BY DEF ProcessInv, InputInv, InputStaysInItsRun
<1>6. StreamInv'
  BY DEF ProcessInv, StreamInv
<1>7. ToldInv'
  BY DEF ProcessInv, ToldInv
<1> QED
  BY <1>1, <1>2, <1>3, <1>4, <1>5, <1>6, <1>7 DEF ProcessInv

LEMMA CancelsStep ==
  ASSUME ProcessInv, Cancels
  PROVE  /\ ProcessInv' /\ ses' = ses /\ q'.state = "NotRunning" /\ q'.sess = 0
         /\ locked'.current = 0 /\ told' = <<"finished">> /\ told' = told \o <<"finished">>
<1>1. q.sess = 0 /\ told = <<>> /\ q.gui = "loop" /\ q.waiting = "no" /\ q.state = "Starting"
  BY DEF Cancels, Cancel, Idle, ProcessInv, PlaceInv, ToldInv
<1>2. told' = <<"finished">> /\ told' = told \o <<"finished">>
  <2>1. told' = Append(told, "finished")
    BY DEF Cancels, Cancel
  <2>2. Append(<<>>, "finished") = <<"finished">> /\ <<>> \o <<"finished">> = <<"finished">>
    OBVIOUS
  <2> QED
    BY <1>1, <2>1, <2>2
<1>3. 0 \in 0 .. MaxRuns
  BY BoundsAssumption
<1>4. /\ locked' \in Guarded /\ locked'.current = 0 /\ locked'.pending = NoResult
      /\ locked'.early = {}
  BY <1>3, Fenced DEF Cancels, Cancel
<1>5. /\ q' \in Fields /\ q'.state = "NotRunning" /\ q'.sess = 0 /\ q'.gui = "loop"
      /\ q'.waiting = q.waiting /\ q'.paused = q.paused
  <2>1. q \in Fields
    BY DEF ProcessInv, TypeOK
  <2>2. q' = [q EXCEPT !.startupTimer = FALSE, !.state = "NotRunning", !.finishedEmitted = TRUE]
    BY DEF Cancels, Cancel
  <2> QED
    BY <1>1, <2>1, <2>2 DEF Fields
<1>6. told' # <<"started", "finished">> /\ told' \in Seq(Words)
  BY <1>2 DEF Words
<1>7. UNCHANGED <<ses, worker, run>>
  BY DEF Cancels, Cancel
<1>8. ProcessInv'
  BY <1>1, <1>4, <1>5, <1>6, <1>7, EndsWithoutSession
<1> QED
  BY <1>2, <1>4, <1>5, <1>7, <1>8

(* A result is never stale: whatever makes one stale also drops it.        *)
LEMMA PollStartupFailedStep ==
  ASSUME ProcessInv, PollStartupFailed
  PROVE  /\ ProcessInv' /\ ses' = ses /\ q.state = "Starting" /\ q'.state = "NotRunning"
         /\ q'.sess = 0 /\ ~locked.pending.ok /\ locked.pending.of = run
         /\ told' = told \o <<"error">>
<1>1. /\ q.sess = 0 /\ q.state = "Starting" /\ told = <<>> /\ q.gui = "loop"
      /\ q.waiting \in {"no", "start"} /\ worker[run] = "done" /\ locked.pending.of = run
      /\ ~StartIsStale
  BY DEF PollStartupFailed, MayPollStartup, StartIsStale, ProcessInv, ResultInv, StartInv,
         PlaceInv, ToldInv
<1>2. ~locked.pending.ok /\ ses' = ses /\ told' = Append(told, "error") /\ UNCHANGED <<worker, run>>
  BY <1>1 DEF PollStartupFailed
<1>3. told' = <<"error">> /\ told' = told \o <<"error">>
  <2>1. Append(<<>>, "error") = <<"error">> /\ <<>> \o <<"error">> = <<"error">>
    OBVIOUS
  <2> QED
    BY <1>1, <1>2, <2>1
<1>4. /\ locked' \in Guarded /\ locked'.pending = NoResult /\ locked'.early = locked.early
      /\ locked'.current = locked.current /\ locked'.disposed = locked.disposed
  <2>1. locked \in Guarded /\ NoResult \in [of : 0 .. MaxRuns, ok : BOOLEAN]
    BY BoundsAssumption DEF ProcessInv, TypeOK, NoResult
  <2>2. locked' = [locked EXCEPT !.pending = NoResult]
    BY DEF PollStartupFailed, Taken
  <2> HIDE DEF NoResult
  <2> QED
    BY <2>1, <2>2 DEF Guarded
<1>5. /\ q' \in Fields /\ q'.state = "NotRunning" /\ q'.sess = 0 /\ q'.gui = "loop"
      /\ q'.waiting = q.waiting /\ q'.paused = q.paused
  <2>1. q \in Fields
    BY DEF ProcessInv, TypeOK
  <2>2. q' = [q EXCEPT !.startupTimer = FALSE, !.finishedEmitted = TRUE, !.state = "NotRunning"]
    BY <1>1 DEF PollStartupFailed
  <2> QED
    BY <1>1, <2>1, <2>2 DEF Fields
<1>6. told' # <<"started", "finished">> /\ told' \in Seq(Words)
  BY <1>3 DEF Words
<1>7. ProcessInv'
  BY <1>1, <1>2, <1>4, <1>5, <1>6, EndsWithoutSession
<1> QED
  BY <1>1, <1>2, <1>3, <1>5, <1>7

LEMMA CloseStep ==
  ASSUME ProcessInv, Close
  PROVE  /\ ProcessInv' /\ q'.sess = 0 /\ q'.state = "NotRunning" /\ locked'.current = 0
         /\ \A r \in Runs : ses'[r].life = "live" => ses[r].life = "live" /\ r # q.sess
         /\ UNCHANGED <<worker, run>>
         /\ q.state = "NotRunning" => told' = told
         /\ q.state # "NotRunning" => told' = told \o <<"closed">>
<1>1. q.gui = "loop" /\ q.waiting = "no" /\ UNCHANGED <<worker, run>>
  BY DEF Close, Idle
<1>2. /\ locked' \in Guarded /\ locked'.current = 0 /\ locked'.pending = NoResult
      /\ locked'.early = {}
  <2> DEFINE g == NewGeneration(0)
  <2>1. g \in Guarded /\ g.current = 0 /\ g.pending = NoResult /\ g.early = {}
    BY BoundsAssumption, Fenced
  <2>2. PICK disposed \in BOOLEAN : locked' = [g EXCEPT !.disposed = disposed]
    BY DEF Close, ProcessInv, TypeOK, Guarded
  <2> HIDE DEF g
  <2> QED
    BY <2>1, <2>2 DEF Guarded
<1>3. /\ q' \in Fields /\ q'.state = "NotRunning" /\ q'.sess = 0 /\ q'.gui = "loop"
      /\ q'.waiting = "no" /\ ~q'.paused
  <2> DEFINE e == Ended
  <2>1. e \in Fields /\ e.state = "NotRunning" /\ e.sess = 0 /\ e.gui = "loop" /\ e.waiting = "no"
    BY <1>1, EndedFacts DEF ProcessInv
  <2>2. q' = [e EXCEPT !.startupTimer = FALSE, !.paused = FALSE, !.code = FALSE,
                       !.shutStarted = FALSE]
    BY DEF Close
  <2> HIDE DEF e
  <2> QED
    BY <2>1, <2>2 DEF Fields
<1>4. CASE q.sess = 0
  <2>1. ses' = ses /\ q.state # "Running"
    BY <1>4 DEF Close, ProcessInv, PlaceInv
  <2>2. CASE q.state = "NotRunning"
    <3>1. told' = told /\ told' \in Seq(Words)
      BY <2>2 DEF Close, ProcessInv, TypeOK, Words
    <3>2. ProcessInv'
      BY <1>1, <1>2, <1>3, <1>4, <2>1, <3>1, EndsWithoutSession
    <3> QED
      BY <1>1, <1>2, <1>3, <1>4, <2>1, <2>2, <3>1, <3>2 DEF Runs
  <2>3. CASE q.state = "Starting"
    <3>1. told = <<>> /\ told' = Append(told, "closed")
      BY <2>3 DEF Close, ProcessInv, ToldInv
    <3>2. Append(<<>>, "closed") = <<"closed">> /\ <<>> \o <<"closed">> = <<"closed">>
      OBVIOUS
    <3>3. told' = <<"closed">> /\ told' = told \o <<"closed">>
      BY <3>1, <3>2
    <3>4. told' # <<"started", "finished">> /\ told' \in Seq(Words)
      BY <3>3 DEF Words
    <3>5. ProcessInv'
      BY <1>1, <1>2, <1>3, <1>4, <2>1, <3>4, EndsWithoutSession
    <3> QED
      BY <1>1, <1>2, <1>3, <1>4, <2>1, <2>3, <3>3, <3>5 DEF Runs
  <2> QED
    BY <2>1, <2>2, <2>3 DEF ProcessInv, TypeOK, Fields
<1>5. CASE q.sess # 0
  <2>1. /\ run \in Runs /\ q.sess = run /\ worker[run] = "done" /\ q.state = "Running"
        /\ told = <<"started">>
    BY <1>5, RunIs
  <2>2. ses' = GiveUp(ses, run, TRUE) /\ told' = Append(told, "closed")
    BY <1>5, <2>1 DEF Close
  <2>3. GivenUp(run, ses[run].queue)
    BY <2>1, <2>2, SimplyGivenUp
  <2>4. told' = <<"started", "closed">> /\ told' = told \o <<"closed">>
    <3>1. told \in Seq(Words) /\ "closed" \in Words
      BY DEF ProcessInv, TypeOK, Words
    <3> QED
      BY <2>1, <2>2, <3>1, Tuples, AppendIsConcat
  <2>5. told' # <<"started", "finished">> /\ told' \in Seq(Words)
    BY <2>4 DEF Words
  <2>6. TypeOK'
    BY <1>1, <1>2, <1>3, <2>3, <2>5 DEF ProcessInv, TypeOK, GivenUp, Words
  <2>7. PlaceInv'
    BY <1>3 DEF PlaceInv
  <2>8. StartInv'
    <3>1. \A r \in Runs : Stale(r)'
      BY <1>2 DEF Stale, Runs
    <3> QED
      BY <1>1, <1>2, <1>3, <2>1, <2>3, <3>1 DEF ProcessInv, StartInv, GivenUp
  <2>9. ResultInv'
    BY <1>2, <1>3 DEF ResultInv
  <2>10. InputInv'
    BY <1>1, <1>2, <2>3 DEF ProcessInv, InputInv, InputStaysInItsRun, GivenUp
  <2>11. StreamInv'
    BY <2>3 DEF ProcessInv, StreamInv, GivenUp
  <2>12. ToldInv'
    BY <1>3, <2>5 DEF ToldInv
  <2>13. \A r \in Runs : ses'[r].life = "live" => ses[r].life = "live" /\ r # q.sess
    BY <2>1, <2>3 DEF GivenUp
  <2> QED
    BY <1>1, <1>2, <1>3, <2>1, <2>4, <2>6, <2>7, <2>8, <2>9, <2>10, <2>11, <2>12, <2>13
       DEF ProcessInv
<1> QED
  BY <1>4, <1>5

(* A step of a session that is neither given up nor ended: its input.      *)
LEMMA TakesInput ==
  ASSUME NEW r \in Runs, ses \in [Runs -> Sessions], NEW sent \in SUBSET Early,
         ses' = [ses EXCEPT ![r].input = @ \cup sent]
  PROVE  /\ ses' \in [Runs -> Sessions]
         /\ \A u \in Runs : u # r => ses'[u] = ses[u]
         /\ ses'[r] = [ses[r] EXCEPT !.input = @ \cup sent]
         /\ ses'[r].input = ses[r].input \cup sent
         /\ ses'[r].life = ses[r].life /\ ses'[r].child = ses[r].child
         /\ ses'[r].made = ses[r].made /\ ses'[r].pipe = ses[r].pipe
         /\ ses'[r].queue = ses[r].queue /\ ses'[r].shut = ses[r].shut
         /\ ses'[r].eof = ses[r].eof /\ ses'[r].ioerr = ses[r].ioerr
<1> DEFINE in == ses[r].input \cup sent
           n == [ses[r] EXCEPT !.input = in]
<1>1. ses[r] \in Sessions /\ in \in SUBSET Early
  BY DEF Sessions
<1>2. ses' = [ses EXCEPT ![r] = n]
  OBVIOUS
<1> HIDE DEF in
<1>3. /\ n \in Sessions /\ n.input = in
      /\ n.life = ses[r].life /\ n.child = ses[r].child
      /\ n.made = ses[r].made /\ n.pipe = ses[r].pipe
      /\ n.queue = ses[r].queue /\ n.shut = ses[r].shut
      /\ n.eof = ses[r].eof /\ n.ioerr = ses[r].ioerr
  BY <1>1 DEF Sessions
<1>4. n = [ses[r] EXCEPT !.input = @ \cup sent]
  BY DEF in
<1> HIDE DEF n
<1> QED
  BY <1>2, <1>3, <1>4 DEF in

LEMMA AdoptStep ==
  ASSUME ProcessInv, Adopt
  PROVE  /\ ProcessInv' /\ q.state = "Starting" /\ q'.state = "Running" /\ q'.sess = run
         /\ ses[run].life = "live" /\ UNCHANGED <<worker, run>>
         /\ \A r \in Runs : ses'[r].life = ses[r].life
         /\ locked.pending.of = run /\ locked'.pending = NoResult
<1>1. /\ q.sess = 0 /\ q.state = "Starting" /\ told = <<>> /\ q.gui = "loop"
      /\ q.waiting \in {"no", "start"} /\ run \in Runs /\ worker[run] = "done"
      /\ locked.pending.of = run /\ locked.pending.ok /\ ses[run].life = "live"
      /\ ~q.code /\ ~q.finishedEmitted
  BY BoundsAssumption
     DEF Adopt, MayPollStartup, ProcessInv, ResultInv, PlaceInv, ToldInv, TypeOK, Runs
<1>2. /\ locked.early \in SUBSET Early /\ ses \in [Runs -> Sessions]
      /\ ses' = [ses EXCEPT ![run].input = @ \cup locked.early] /\ UNCHANGED <<worker, run>>
  BY <1>1 DEF Adopt, ProcessInv, TypeOK, Guarded
<1>3. /\ ses' \in [Runs -> Sessions]
      /\ \A u \in Runs : u # run => ses'[u] = ses[u]
      /\ ses'[run].input = ses[run].input \cup locked.early
      /\ ses'[run].life = ses[run].life /\ ses'[run].child = ses[run].child
      /\ ses'[run].made = ses[run].made /\ ses'[run].pipe = ses[run].pipe
      /\ ses'[run].queue = ses[run].queue /\ ses'[run].shut = ses[run].shut
      /\ ses'[run].eof = ses[run].eof /\ ses'[run].ioerr = ses[run].ioerr
  BY <1>1, <1>2, TakesInput
<1>4. told' = <<"started">>
  <2>1. Append(<<>>, "started") = <<"started">>
    OBVIOUS
  <2> QED
    BY <1>1, <2>1 DEF Adopt
<1>5. /\ locked' \in Guarded /\ locked'.pending = NoResult /\ locked'.early = {}
      /\ locked'.current = locked.current /\ locked'.disposed = locked.disposed
  <2>1. locked \in Guarded /\ NoResult \in [of : 0 .. MaxRuns, ok : BOOLEAN]
    BY BoundsAssumption DEF ProcessInv, TypeOK, NoResult
  <2>2. locked' = [locked EXCEPT !.pending = NoResult, !.early = {}]
    BY <2>1 DEF Adopt, Taken, Guarded
  <2> HIDE DEF NoResult
  <2> QED
    BY <2>1, <2>2 DEF Guarded
<1>6. /\ q' \in Fields /\ q'.state = "Running" /\ q'.sess = run /\ q'.gui = "poll"
      /\ q'.waiting = q.waiting /\ q'.paused = q.paused /\ q'.code = q.code
      /\ q'.finishedEmitted = q.finishedEmitted
  <2>1. q \in Fields /\ run \in 0 .. MaxRuns
    BY DEF ProcessInv, TypeOK
  <2>2. q' = [q EXCEPT !.startupTimer = FALSE, !.sess = run, !.state = "Running",
                       !.pollTimer = TRUE, !.gui = "poll"]
    BY <1>1 DEF Adopt
  <2> QED
    BY <2>1, <2>2 DEF Fields
<1>7. told' # <<"started", "finished">> /\ told' \in Seq(Words)
  BY <1>4 DEF Words
<1>8. TypeOK'
  BY <1>2, <1>3, <1>5, <1>6, <1>7 DEF ProcessInv, TypeOK, Words
<1>9. PlaceInv'
  BY <1>1, <1>2, <1>6 DEF PlaceInv, Runs
<1>10. StartInv'
  <2>1. \A r \in Runs : Stale(r)' <=> Stale(r)
    BY <1>5 DEF Stale
  <2> QED
    BY <1>1, <1>2, <1>3, <1>5, <1>6, <2>1 DEF ProcessInv, StartInv, Stale
<1>11. ResultInv'
  BY <1>1, <1>2, <1>3, <1>5 DEF ResultInv
<1>12. InputInv'
  BY <1>2, <1>3, <1>5 DEF ProcessInv, InputInv, InputStaysInItsRun
<1>13. StreamInv'
  BY <1>3 DEF ProcessInv, StreamInv
<1>14. ToldInv'
  BY <1>4, <1>6, <1>7 DEF ToldInv
<1> QED
  BY <1>1, <1>2, <1>3, <1>5, <1>6, <1>8, <1>9, <1>10, <1>11, <1>12, <1>13, <1>14
     DEF ProcessInv

LEMMA SendStep ==
  ASSUME ProcessInv, Send
  PROVE  /\ ProcessInv' /\ UNCHANGED <<q, worker, run, told>>
         /\ locked'.pending = locked.pending
         /\ \A r \in Runs : ses'[r].life = ses[r].life
<1>1. PICK what \in Kinds :
        \/ /\ q.state = "Starting"
           /\ locked' = [locked EXCEPT !.early = @ \cup {<<run, what>>}]
           /\ ses' = ses
        \/ /\ q.state = "Running" /\ q.sess # 0
           /\ ses' = [ses EXCEPT ![q.sess].input = @ \cup {<<run, what>>}]
           /\ locked' = locked
  BY DEF Send
<1>2. UNCHANGED <<q, worker, run, told>>
  BY DEF Send
<1>3. CASE q.state = "Starting"
  <2>1. locked' = [locked EXCEPT !.early = @ \cup {<<run, what>>}] /\ ses' = ses
    BY <1>1, <1>3
  <2>2. run \in Runs
    BY <1>3, BoundsAssumption DEF ProcessInv, TypeOK, StartInv, Runs
  <2>3. /\ locked' \in Guarded /\ locked'.pending = locked.pending
        /\ locked'.early = locked.early \cup {<<run, what>>}
        /\ locked'.current = locked.current /\ locked'.disposed = locked.disposed
    <3> DEFINE early == locked.early \cup {<<run, what>>}
    <3>1. locked \in Guarded /\ early \in SUBSET Early
      BY <2>2 DEF ProcessInv, TypeOK, Guarded, Early
    <3>2. locked' = [locked EXCEPT !.early = early]
      BY <2>1
    <3> HIDE DEF early
    <3>3. /\ locked' \in Guarded /\ locked'.pending = locked.pending /\ locked'.early = early
          /\ locked'.current = locked.current /\ locked'.disposed = locked.disposed
      BY <3>1, <3>2 DEF Guarded
    <3> QED
      BY <3>3 DEF early
  <2>4. TypeOK'
    BY <1>2, <2>1, <2>3 DEF ProcessInv, TypeOK
  <2>5. PlaceInv'
    BY <1>2, <2>1 DEF ProcessInv, PlaceInv
  <2>6. StartInv'
    BY <1>2, <2>1, <2>3 DEF ProcessInv, StartInv, Stale
  <2>7. ResultInv'
    BY <1>2, <2>1, <2>3 DEF ProcessInv, ResultInv
  <2>8. InputInv'
    BY <1>2, <2>1, <2>3 DEF ProcessInv, InputInv, InputStaysInItsRun
  <2>9. StreamInv' /\ ToldInv'
    BY <1>2, <2>1 DEF ProcessInv, StreamInv, ToldInv
  <2> QED
    BY <1>2, <2>1, <2>3, <2>4, <2>5, <2>6, <2>7, <2>8, <2>9 DEF ProcessInv
<1>4. CASE q.state = "Running"
  <2>1. /\ q.sess # 0 /\ ses' = [ses EXCEPT ![q.sess].input = @ \cup {<<run, what>>}]
        /\ locked' = locked
    BY <1>1, <1>4
  <2>2. run \in Runs /\ q.sess = run /\ worker[run] = "done" /\ told = <<"started">>
    BY <2>1, RunIs
  <2>3. {<<run, what>>} \in SUBSET Early /\ ses \in [Runs -> Sessions]
    BY <2>2 DEF Early, ProcessInv, TypeOK
  <2>4. /\ ses' \in [Runs -> Sessions]
        /\ \A u \in Runs : u # run => ses'[u] = ses[u]
        /\ ses'[run].input = ses[run].input \cup {<<run, what>>}
        /\ ses'[run].life = ses[run].life /\ ses'[run].child = ses[run].child
        /\ ses'[run].made = ses[run].made /\ ses'[run].pipe = ses[run].pipe
        /\ ses'[run].queue = ses[run].queue /\ ses'[run].shut = ses[run].shut
        /\ ses'[run].eof = ses[run].eof /\ ses'[run].ioerr = ses[run].ioerr
    BY <2>1, <2>2, <2>3, TakesInput, ZenonT(40)
  <2>5. TypeOK'
    BY <1>2, <2>1, <2>4 DEF ProcessInv, TypeOK
  <2>6. PlaceInv'
    BY <1>2, <2>2, <2>4 DEF ProcessInv, PlaceInv
  <2>7. StartInv'
    BY <1>2, <2>1, <2>2, <2>4 DEF ProcessInv, StartInv, Stale
  <2>8. ResultInv'
    BY <1>2, <2>1, <2>2, <2>4 DEF ProcessInv, ResultInv
  <2>9. InputInv'
    <3>1. ASSUME NEW r \in Runs, NEW sent \in ses'[r].input
          PROVE  sent[1] = r
      <4>1. CASE r = run
        <5>1. sent \in ses[run].input \/ sent = <<run, what>>
          BY <2>4, <3>1, <4>1
        <5> QED
          BY <2>2, <4>1, <5>1 DEF ProcessInv, InputInv, InputStaysInItsRun
      <4>2. CASE r # run
        BY <2>4, <3>1, <4>2 DEF ProcessInv, InputInv, InputStaysInItsRun
      <4> QED
        BY <4>1, <4>2
    <3>2. \A sent \in locked'.early : sent[1] = run'
      BY <1>2, <2>1 DEF ProcessInv, InputInv
    <3> QED
      BY <3>1, <3>2 DEF InputInv, InputStaysInItsRun
  <2>10. StreamInv'
    BY <2>4 DEF ProcessInv, StreamInv
  <2>11. ToldInv'
    BY <1>2, <1>4, <2>2 DEF ToldInv
  <2> QED
    BY <1>2, <2>1, <2>2, <2>4, <2>5, <2>6, <2>7, <2>8, <2>9, <2>10, <2>11 DEF ProcessInv
<1> QED
  BY <1>1, <1>3, <1>4
-----------------------------------------------------------------------------
(* The workers, and the threads of a session.                              *)
LEMMA WorkerCreatesStep ==
  ASSUME ProcessInv, NEW r \in Runs, WorkerCreates(r)
  PROVE  /\ ProcessInv' /\ worker'[r] = "created" /\ UNCHANGED <<q, locked, run, told>>
         /\ \A u \in Runs : u # r => ses'[u] = ses[u] /\ worker'[u] = worker[u]
<1>1. worker[r] = "creating" /\ ses[r] = NoSession /\ UNCHANGED <<q, locked, run, told>>
  BY DEF WorkerCreates, ProcessInv, StartInv
<1>2. /\ worker' \in [Runs -> {"none", "creating", "created", "done"}]
      /\ worker'[r] = "created" /\ \A u \in Runs : u # r => worker'[u] = worker[u]
  BY DEF WorkerCreates, ProcessInv, TypeOK
<1>3. PICK s \in {[NoSession EXCEPT !.child = "running", !.life = "live"],
                  [NoSession EXCEPT !.life = "closed"]} : ses' = [ses EXCEPT ![r] = s]
  BY <1>1 DEF WorkerCreates
<1>4. /\ s \in Sessions /\ s.life \in {"live", "closed"} /\ s.input = {}
      /\ s.pipe = 0 /\ s.queue = 0 /\ s.made = 0 /\ ~s.shut /\ ~s.eof
  <2>1. NoSession \in Sessions
    BY BoundsAssumption DEF NoSession, Sessions
  <2> QED
    BY <1>3, <2>1 DEF NoSession, Sessions
<1>5. /\ ses' \in [Runs -> Sessions] /\ ses'[r] = s
      /\ \A u \in Runs : u # r => ses'[u] = ses[u]
  BY <1>3, <1>4 DEF ProcessInv, TypeOK
<1>6. TypeOK'
  BY <1>1, <1>2, <1>5 DEF ProcessInv, TypeOK
<1>7. PlaceInv'
  <2>1. q.sess # 0 => q.sess # r /\ q.sess \in Runs
    BY <1>1, RunIs
  <2> QED
    BY <1>1, <1>5, <2>1 DEF ProcessInv, PlaceInv
<1>8. StartInv'
  <2>1. \A u \in Runs : Stale(u)' <=> Stale(u)
    BY <1>1 DEF Stale
  <2>2. r <= run
    BY <1>1 DEF ProcessInv, StartInv, TypeOK, Runs
  <2> QED
    BY <1>1, <1>2, <1>4, <1>5, <2>1, <2>2 DEF ProcessInv, StartInv, Stale, TypeOK, Runs
<1>9. ResultInv'
  <2>1. locked.pending # NoResult \/ q.sess # 0 => run \in Runs
    BY BoundsAssumption, RunIs DEF ProcessInv, ResultInv, TypeOK, Runs
  <2> QED
    BY <1>1, <1>2, <1>5, <2>1 DEF ProcessInv, ResultInv
<1>10. InputInv'
  BY <1>1, <1>4, <1>5 DEF ProcessInv, InputInv, InputStaysInItsRun
<1>11. StreamInv'
  BY <1>4, <1>5 DEF ProcessInv, StreamInv
<1>12. ToldInv'
  BY <1>1, <1>5 DEF ProcessInv, ToldInv
<1> QED
  BY <1>1, <1>2, <1>5, <1>6, <1>7, <1>8, <1>9, <1>10, <1>11, <1>12 DEF ProcessInv

LEMMA WorkerDeliversStep ==
  ASSUME ProcessInv, NEW r \in Runs, WorkerDelivers(r)
  PROVE  /\ ProcessInv' /\ UNCHANGED <<q, ses, run, told>> /\ r = run /\ worker'[r] = "done"
         /\ \A u \in Runs : u # r => worker'[u] = worker[u]
         /\ locked.pending = NoResult /\ locked'.pending.of = r
<1>1. /\ worker[r] = "created" /\ ~Stale(r) /\ UNCHANGED <<q, ses, run, told>>
      /\ q.state = "Starting" /\ locked.pending = NoResult /\ told = <<>>
      /\ r = run /\ run # 0
  BY DEF WorkerDelivers, Stale, ProcessInv, StartInv, ToldInv, Runs
<1>2. /\ worker' \in [Runs -> {"none", "creating", "created", "done"}]
      /\ worker'[r] = "done" /\ \A u \in Runs : u # r => worker'[u] = worker[u]
  BY DEF WorkerDelivers, ProcessInv, TypeOK
<1>3. /\ locked' \in Guarded /\ locked'.early = locked.early
      /\ locked'.current = locked.current /\ locked'.disposed = locked.disposed
      /\ locked'.pending.of = r /\ locked'.pending.ok = (ses[r].life = "live")
  <2> DEFINE p == [of |-> r, ok |-> Created(r)]
  <2>1. p \in [of : 0 .. MaxRuns, ok : BOOLEAN] /\ p.of = r /\ p.ok = (ses[r].life = "live")
    BY BoundsAssumption DEF Created, Runs
  <2>2. locked \in Guarded /\ locked' = [locked EXCEPT !.pending = p]
    BY DEF WorkerDelivers, ProcessInv, TypeOK
  <2> HIDE DEF p
  <2> QED
    BY <2>1, <2>2 DEF Guarded
<1>4. TypeOK'
  BY <1>1, <1>2, <1>3 DEF ProcessInv, TypeOK
<1>5. PlaceInv'
  BY <1>1 DEF ProcessInv, PlaceInv
<1>6. StartInv'
  <2>1. \A u \in Runs : Stale(u)' <=> Stale(u)
    BY <1>3 DEF Stale
  <2>2. \A u \in Runs : u # r => Stale(u)
    BY <1>1 DEF Stale
  <2>3. r <= run
    BY <1>1 DEF Runs
  <2> QED
    BY <1>1, <1>2, <1>3, <2>1, <2>2, <2>3 DEF ProcessInv, StartInv, TypeOK, Runs
<1>7. ResultInv'
  BY <1>1, <1>2, <1>3 DEF ProcessInv, ResultInv
<1>8. InputInv'
  BY <1>1, <1>3 DEF ProcessInv, InputInv, InputStaysInItsRun
<1>9. StreamInv'
  BY <1>1 DEF ProcessInv, StreamInv
<1>10. ToldInv'
  BY <1>1 DEF ProcessInv, PlaceInv, ToldInv
<1> QED
  BY <1>1, <1>2, <1>3, <1>4, <1>5, <1>6, <1>7, <1>8, <1>9, <1>10 DEF ProcessInv

LEMMA WorkerClosesStep ==
  ASSUME ProcessInv, NEW r \in Runs, WorkerCloses(r)
  PROVE  /\ ProcessInv' /\ ses'[r].life # "live" /\ UNCHANGED <<q, locked, run, told>>
         /\ \A u \in Runs : u # r => ses'[u] = ses[u] /\ worker'[u] = worker[u]
<1>1. worker[r] = "created" /\ Stale(r) /\ UNCHANGED <<q, locked, run, told>>
  BY DEF WorkerCloses
<1>2. /\ worker' \in [Runs -> {"none", "creating", "created", "done"}]
      /\ worker'[r] = "done" /\ \A u \in Runs : u # r => worker'[u] = worker[u]
  BY DEF WorkerCloses, ProcessInv, TypeOK
<1>3. /\ ses' \in [Runs -> Sessions] /\ \A u \in Runs : u # r => ses'[u] = ses[u]
      /\ ses'[r].life # "live"
      /\ ses'[r].child = ses[r].child /\ ses'[r].made = ses[r].made /\ ses'[r].pipe = ses[r].pipe
      /\ ses'[r].queue = ses[r].queue /\ ses'[r].shut = ses[r].shut /\ ses'[r].eof = ses[r].eof
      /\ ses'[r].ioerr = ses[r].ioerr /\ ses'[r].input = ses[r].input
  <2>1. CASE Created(r)
    <3>1. ses' = GiveUp(ses, r, TRUE)
      BY <2>1 DEF WorkerCloses
    <3> QED
      BY <3>1, SimplyGivenUp DEF GivenUp
  <2>2. CASE ~Created(r)
    BY <2>2 DEF WorkerCloses, Created, ProcessInv, TypeOK
  <2> QED
    BY <2>1, <2>2
<1>4. TypeOK'
  BY <1>1, <1>2, <1>3 DEF ProcessInv, TypeOK
<1>5. PlaceInv'
  <2>1. q.sess # 0 => q.sess # r /\ q.sess \in Runs
    BY <1>1, RunIs
  <2> QED
    BY <1>1, <1>3, <2>1 DEF ProcessInv, PlaceInv
<1>6. StartInv'
  <2>1. \A u \in Runs : Stale(u)' <=> Stale(u)
    BY <1>1 DEF Stale
  <2>2. ~(r > run)
    BY <1>1 DEF ProcessInv, StartInv
  <2> QED
    BY <1>1, <1>2, <1>3, <2>1, <2>2 DEF ProcessInv, StartInv
<1>7. ResultInv'
  <2>1. locked.pending # NoResult \/ q.sess # 0 => run \in Runs
    BY BoundsAssumption, RunIs DEF ProcessInv, ResultInv, TypeOK, Runs
  <2> QED
    BY <1>1, <1>2, <1>3, <2>1 DEF ProcessInv, ResultInv
<1>8. InputInv'
  BY <1>1, <1>3 DEF ProcessInv, InputInv, InputStaysInItsRun
<1>9. StreamInv'
  BY <1>3 DEF ProcessInv, StreamInv
<1>10. ToldInv'
  BY <1>1, <1>3 DEF ProcessInv, ToldInv
<1> QED
  BY <1>1, <1>2, <1>3, <1>4, <1>5, <1>6, <1>7, <1>8, <1>9, <1>10 DEF ProcessInv

LEMMA SessionStep ==
  ASSUME ProcessInv, NEW r \in Runs, Session(r)
  PROVE  /\ ProcessInv' /\ UNCHANGED <<q, locked, worker, run, told>>
         /\ \A u \in Runs : ses'[u].life = "live" => ses[u].life = "live"
<1>1. PICK s \in Sessions : Lives(r, s)
  BY SessionFacts
<1>2. UNCHANGED <<q, locked, worker, run, told>>
  BY SessionFacts
<1>3. /\ ses' \in [Runs -> Sessions] /\ ses'[r] = s
      /\ \A u \in Runs : u # r => ses'[u] = ses[u]
      /\ s.life = "live" <=> ses[r].life = "live"
      /\ worker[r] \notin {"none", "creating"}
  BY <1>1 DEF Lives, ProcessInv, TypeOK, StartInv, NoSession
<1>4. TypeOK'
  BY <1>2, <1>3 DEF ProcessInv, TypeOK
<1>5. PlaceInv'
  BY <1>1, <1>2, <1>3 DEF Lives, ProcessInv, PlaceInv, TypeOK
<1>6. StartInv'
  <2>1. \A u \in Runs : Stale(u)' <=> Stale(u)
    BY <1>2 DEF Stale
  <2>2. worker[r] = "created" => s.life \in {"live", "closed"}
    BY <1>1 DEF Lives, ProcessInv, StartInv
  <2> QED
    BY <1>2, <1>3, <2>1, <2>2 DEF ProcessInv, StartInv
<1>7. ResultInv'
  <2>1. locked.pending # NoResult \/ q.sess # 0 => run \in Runs
    BY BoundsAssumption, RunIs DEF ProcessInv, ResultInv, TypeOK, Runs
  <2>2. \A u \in Runs : ses'[u].life = "live" <=> ses[u].life = "live"
    BY <1>3
  <2> QED
    BY <1>2, <2>1, <2>2 DEF ProcessInv, ResultInv
<1>8. InputInv'
  BY <1>1, <1>2, <1>3 DEF Lives, ProcessInv, InputInv, InputStaysInItsRun
<1>9. StreamInv'
  BY <1>1, <1>3 DEF Lives, ProcessInv, StreamInv
<1>10. ToldInv'
  BY <1>2 DEF ProcessInv, ToldInv
<1>11. \A u \in Runs : ses'[u].life = "live" => ses[u].life = "live"
  BY <1>3
<1> QED
  BY <1>2, <1>4, <1>5, <1>6, <1>7, <1>8, <1>9, <1>10, <1>11 DEF ProcessInv
-----------------------------------------------------------------------------
(* The invariant.                                                          *)
LEMMA ProcessInit == ASSUME Init PROVE ProcessInv
<1>1. TypeOK
  <2>1. q \in Fields
    BY BoundsAssumption DEF Init, Fields, Deadlines
  <2>2. locked \in Guarded
    BY BoundsAssumption DEF Init, Guarded, NoResult
  <2>3. ses \in [Runs -> Sessions]
    <3>1. NoSession \in Sessions
      BY BoundsAssumption DEF NoSession, Sessions
    <3> QED
      BY <3>1 DEF Init
  <2> QED
    BY <2>1, <2>2, <2>3, BoundsAssumption DEF Init, TypeOK
<1>2. PlaceInv /\ ResultInv /\ ToldInv
  BY DEF Init, PlaceInv, ResultInv, ToldInv, NoResult
<1>3. StartInv
  BY DEF Init, StartInv
<1>4. InputInv /\ StreamInv
  BY DEF Init, InputInv, InputStaysInItsRun, StreamInv, NoSession
<1> QED
  BY <1>1, <1>2, <1>3, <1>4 DEF ProcessInv

LEMMA ProcessStep == ASSUME ProcessInv, [Next]_vars PROVE ProcessInv'
<1>1. CASE Next
  <2>1. ASSUME NEW r \in Runs, Worker(r) \/ Session(r) PROVE ProcessInv'
    BY <2>1, WorkerCreatesStep, WorkerDeliversStep, WorkerClosesStep, SessionStep DEF Worker
  <2>2. CASE PollStartup
    BY <2>2, PollStartupFailedStep, AdoptBreaksKeeps, AdoptStep DEF PollStartup
  <2> QED
    BY <1>1, <2>1, <2>2, Shapes, GuiStep, FailKeeps, FinishKeeps, ShutStep, DrainsStep,
       CancelsStep, StartStep, SendStep, CloseStep
<1>2. CASE UNCHANGED vars
  BY <1>2 DEF vars, ProcessInv, TypeOK, PlaceInv, StartInv, Stale, ResultInv, InputInv,
              InputStaysInItsRun, StreamInv, ToldInv
<1> QED
  BY <1>1, <1>2

(* The invariant holds of every reachable state.                           *)
THEOREM ProcessInvariant == Spec => []ProcessInv
<1>1. Init => ProcessInv
  BY ProcessInit
<1>2. ProcessInv /\ [Next]_vars => ProcessInv'
  BY ProcessStep
<1> QED
  BY <1>1, <1>2, PTL DEF Spec

(* One run has no part in another: a result that is delivered or a session *)
(* that is adopted is that of the run that waits for it, and what is typed *)
(* reaches the child of the run it was typed into, or none, however many   *)
(* starts were cancelled or closed while their workers were at work.       *)
THEOREM RunsStayApart == Spec => []RunsApart
<1>1. ProcessInv => RunsApart
  <2> SUFFICES ASSUME ProcessInv PROVE RunsApart
    OBVIOUS
  <2>1. OnlyTheCurrentRun
    <3>1. CASE locked.pending # NoResult
      BY <3>1 DEF ProcessInv, OnlyTheCurrentRun, ResultInv, StartInv, PlaceInv, StartIsStale
    <3>2. CASE locked.pending = NoResult
      BY <3>2 DEF ProcessInv, OnlyTheCurrentRun, ResultInv, PlaceInv
    <3> QED
      BY <3>1, <3>2
  <2> QED
    BY <2>1 DEF ProcessInv, InputInv, RunsApart
<1> QED
  BY <1>1, ProcessInvariant, PTL

(* Only the end of a session completes the story of a run that started.    *)
LEMMA TakenAtTheEnd ==
  ASSUME ProcessInv, Next, told' # told, told' = <<"started", "finished">>
  PROVE  Finish
<1>1. CASE Gui
  BY <1>1, GuiKeeps
<1>2. CASE Fail
  <2>1. told = <<"started">> /\ told' = told \o <<"error", "finished">>
    BY <1>2, FailKeeps, RunIs DEF Fail
  <2> QED
    BY <2>1, Tuples
<1>3. CASE Shut \/ Drains
  BY <1>3 DEF Shut, ShutDown, Drains
<1>4. CASE Cancels
  <2>1. told = <<>> /\ told' = Append(told, "finished")
    BY <1>4 DEF Cancels, Cancel, ProcessInv, ToldInv
  <2> QED
    BY <2>1, Tuples
<1>5. CASE Start \/ Send
  BY <1>5 DEF Start, Send
<1>6. CASE Close
  <2>1. told' = Append(told, "closed") /\ told \in Seq(Words)
    BY <1>6 DEF Close, ProcessInv, TypeOK, Words
  <2>2. Len(told') = Len(told) + 1 /\ told'[Len(told) + 1] = "closed"
    BY <2>1
  <2> QED
    BY <2>2
<1>7. CASE PollStartup
  <2>1. told = <<>>
    BY <1>7 DEF PollStartup, PollStartupFailed, AdoptBreaks, Adopt, StartIsStale, ProcessInv, ToldInv
  <2>2. told' \in {<<"error">>, <<"error", "finished">>, <<"started">>}
    BY <1>7, <2>1, Tuples DEF PollStartup, PollStartupFailed, AdoptBreaks, Adopt
  <2> QED
    BY <2>2
<1>8. ASSUME NEW r \in Runs, Worker(r) \/ Session(r) PROVE FALSE
  BY <1>8, SessionFacts DEF Worker, WorkerCreates, WorkerDelivers, WorkerCloses
<1> QED
  BY <1>1, <1>2, <1>3, <1>4, <1>5, <1>6, <1>7, <1>8, Shapes

(* A run that finishes without an error has handed over all its output,    *)
(* however late the reader copied it, for any tab: what its read slot      *)
(* paused inside the wait that finds the end is all that may be left.      *)
THEOREM FinalOutputIsTaken == Spec => FinalOutput
<1>1. ProcessInv /\ [Next]_vars =>
             [told' # told /\ told' = <<"started", "finished">> /\ ~ses'[run].ioerr =>
                /\ ses'[run].pipe = 0
                /\ ses'[run].queue = 0 \/ (Waiting("drain") /\ q.paused)]_vars
  BY <1>1, TakenAtTheEnd, FinishKeeps
<1> QED
  BY <1>1, ProcessInvariant, PTL DEF Spec, FinalOutput
-----------------------------------------------------------------------------
(* What a step may do to a session nobody owns.                            *)
NoDrop ==
  \A r \in Runs :
    ses'[r].life = "live" /\ ~Owned(r)' =>
      \/ ses[r].life = "live" /\ ~Owned(r)
      \/ locked.pending.of = r /\ q.state = "Starting" /\ locked'.current = 0

LEMMA OnlyTheRunsSession ==
  ASSUME ProcessInv, ses' \in [Runs -> Sessions], UNCHANGED <<locked, worker>>,
         \A u \in Runs : u # run => ses'[u] = ses[u],
         q.sess # 0, q'.sess = run \/ ses'[run].life # "live"
  PROVE  NoDrop
<1>1. run \in Runs /\ q.sess = run
  BY RunIs
<1> QED
  BY <1>1 DEF NoDrop, Owned

LEMMA StepDropsNone == ASSUME ProcessInv, [Next]_vars PROVE NoDrop
<1>1. CASE Gui
  BY <1>1, GuiKeeps DEF NoDrop, Owned
<1>2. CASE Fail
  BY <1>2, FailKeeps, OnlyTheRunsSession DEF Fail, Others, GivenUp
<1>3. CASE Finish
  BY <1>3, FinishKeeps, OnlyTheRunsSession DEF Finish, Others, GivenUp
<1>4. CASE Shut
  <2>1. \A u \in Runs : u # run => ses'[u] = ses[u]
    BY <1>4, RunIs DEF Shut, ShutDown, ProcessInv, TypeOK
  <2> QED
    BY <1>4, <2>1, RunIs, ShutStep, OnlyTheRunsSession DEF Shut, Others, ProcessInv, TypeOK
<1>5. CASE Drains
  <2>1. \A u \in Runs : u # run => ses'[u] = ses[u]
    BY <1>5, RunIs DEF Drains, Drain, ProcessInv, TypeOK
  <2> QED
    BY <1>5, <2>1, RunIs, DrainsStep, OnlyTheRunsSession DEF Drains, Others, ProcessInv, TypeOK
<1>6. CASE Cancels
  <2>1. q.sess = 0 /\ q.state = "Starting" /\ UNCHANGED <<ses, worker>> /\ locked'.current = 0
    BY <1>6, CancelsStep DEF Cancels, Cancel, ProcessInv, PlaceInv
  <2> QED
    BY <2>1 DEF NoDrop, Owned, Runs
<1>7. CASE Close
  <2>1. locked.pending # NoResult => q.state = "Starting"
    BY DEF ProcessInv, ResultInv
  <2> QED
    BY <1>7, <2>1, CloseStep DEF NoDrop, Owned, NoResult, Runs
<1>8. CASE Start
  <2>1. locked.pending = NoResult /\ q.sess = 0 /\ ses' = ses
    BY <1>8, StartStep, NoResultWhileRunning DEF Start, ProcessInv, PlaceInv
  <2>2. worker' = [worker EXCEPT ![run + 1] = "creating"] /\ worker[run + 1] = "none"
    BY <1>8, StartStep DEF Start
  <2>3. \A r \in Runs : worker[r] = "created" => worker'[r] = "created"
    BY <2>2 DEF ProcessInv, TypeOK
  <2> QED
    BY <2>1, <2>3 DEF NoDrop, Owned, NoResult, Runs
<1>9. CASE Send
  BY <1>9, SendStep DEF NoDrop, Owned
<1>10. CASE PollStartup
  <2>1. CASE PollStartupFailed
    <3>1. q.sess = 0 /\ ses[run].life # "live" /\ UNCHANGED worker
      BY <2>1, PollStartupFailedStep
         DEF PollStartupFailed, MayPollStartup, ProcessInv, PlaceInv, ResultInv
    <3> QED
      BY <2>1, <3>1, PollStartupFailedStep DEF NoDrop, Owned, Runs
  <2>2. CASE AdoptBreaks
    <3>1. q.sess = 0 /\ UNCHANGED worker
      BY <2>2 DEF AdoptBreaks, StartIsStale, ProcessInv, PlaceInv
    <3> QED
      BY <2>2, <3>1, AdoptBreaksKeeps DEF NoDrop, Owned, GivenUp, Runs
  <2>3. CASE Adopt
    BY <2>3, AdoptStep DEF NoDrop, Owned, ProcessInv, PlaceInv, Runs
  <2> QED
    BY <1>10, <2>1, <2>2, <2>3 DEF PollStartup
<1>11. ASSUME NEW r \in Runs, Worker(r) PROVE NoDrop
  <2>1. CASE WorkerCreates(r)
    BY <2>1, WorkerCreatesStep DEF NoDrop, Owned
  <2>2. CASE WorkerDelivers(r)
    BY <2>2, WorkerDeliversStep DEF NoDrop, Owned, NoResult, Runs
  <2>3. CASE WorkerCloses(r)
    BY <2>3, WorkerClosesStep DEF NoDrop, Owned
  <2> QED
    BY <1>11, <2>1, <2>2, <2>3 DEF Worker
<1>12. ASSUME NEW r \in Runs, Session(r) PROVE NoDrop
  BY <1>12, SessionStep DEF NoDrop, Owned
<1>13. CASE UNCHANGED vars
  BY <1>13 DEF vars, NoDrop, Owned
<1> QED
  BY <1>1, <1>2, <1>3, <1>4, <1>5, <1>6, <1>7, <1>8, <1>9, <1>10, <1>11, <1>12, <1>13, Shapes

(* No step leaves a running session without somebody who will close it,    *)
(* but a start that is cancelled or closed after its worker has delivered. *)
THEOREM OnlyACancelDrops == Spec => OnlyCancelDrops
<1> DEFINE D == \A r \in Runs :
                  ses'[r].life = "live" /\ ~Owned(r)' =>
                    \/ ses[r].life = "live" /\ ~Owned(r)
                    \/ locked.pending.of = r /\ q.state = "Starting" /\ locked'.current = 0
<1>1. ProcessInv /\ [Next]_vars => [D]_vars
  BY StepDropsNone DEF NoDrop
<1>2. Spec => [][D]_vars
  <2> HIDE DEF D
  <2> QED
    BY <1>1, ProcessInvariant, PTL DEF Spec
<1> QED
  BY <1>2 DEF OnlyCancelDrops
-----------------------------------------------------------------------------
(* The contract of a process object, step by step.                         *)
LEMMA ContractStep ==
  ASSUME ProcessInv, [Next]_vars
  PROVE  [Contract!Next]_Contract!vars
<1>0. told \in Seq(Words) /\ "finished" \in Words
  BY DEF ProcessInv, TypeOK, Words
<1>1. ASSUME q'.state = q.state, run' = run, told' = told
      PROVE  UNCHANGED Contract!vars
  BY <1>1 DEF Contract!vars
<1>2. CASE Gui
  BY <1>1, <1>2, GuiKeeps
<1>3. CASE Fail
  <2>1. Contract!Broken
    BY <1>3, FailKeeps, RunIs DEF Fail, Others, Contract!Broken, Contract!End
  <2> QED
    BY <2>1 DEF Contract!Next
<1>4. CASE Finish
  <2>1. told' = told \o <<"finished">>
    BY <1>0, <1>4, FinishKeeps, AppendIsConcat
  <2>2. Contract!Finished
    BY <1>4, <2>1, FinishKeeps, RunIs DEF Finish, Others, Contract!Finished, Contract!End
  <2> QED
    BY <2>2 DEF Contract!Next
<1>5. CASE Shut
  BY <1>1, <1>5, ShutStep DEF Shut, ShutDown, Others
<1>6. CASE Drains
  BY <1>1, <1>6, DrainsStep DEF Drains, Others
<1>7. CASE Cancels
  <2>1. Contract!Cancelled
    BY <1>7, CancelsStep DEF Cancels, Cancel, Contract!Cancelled, Contract!End
  <2> QED
    BY <2>1 DEF Contract!Next
<1>8. CASE Start
  <2>1. Contract!Start
    BY <1>8, StartStep DEF Start, Contract!Start
  <2> QED
    BY <2>1 DEF Contract!Next
<1>9. CASE Send
  BY <1>1, <1>9, SendStep
<1>10. CASE Close
  <2>1. CASE q.state = "NotRunning"
    BY <1>1, <1>10, <2>1, CloseStep
  <2>2. CASE q.state # "NotRunning"
    <3>1. Contract!Closed
      BY <1>10, <2>2, CloseStep DEF Contract!Closed, Contract!End
    <3> QED
      BY <3>1 DEF Contract!Next
  <2> QED
    BY <2>1, <2>2
<1>11. CASE PollStartup
  <2>1. CASE PollStartupFailed
    <3>1. Contract!FailToStart
      BY <2>1, PollStartupFailedStep DEF PollStartupFailed, Contract!FailToStart, Contract!End
    <3> QED
      BY <3>1 DEF Contract!Next
  <2>2. CASE AdoptBreaks
    <3>1. Contract!Broken
      BY <2>2, AdoptBreaksKeeps DEF AdoptBreaks, StartIsStale, Contract!Broken, Contract!End
    <3> QED
      BY <3>1 DEF Contract!Next
  <2>3. CASE Adopt
    <3>1. Contract!Started
      BY <2>3, AdoptStep DEF Adopt, Contract!Started
    <3> QED
      BY <3>1 DEF Contract!Next
  <2> QED
    BY <1>11, <2>1, <2>2, <2>3 DEF PollStartup
<1>12. ASSUME NEW r \in Runs, Worker(r) \/ Session(r) PROVE UNCHANGED Contract!vars
  <2>1. UNCHANGED <<q, run, told>>
    BY <1>12, WorkerCreatesStep, WorkerDeliversStep, WorkerClosesStep, SessionStep DEF Worker
  <2> QED
    BY <1>1, <2>1
<1>13. CASE UNCHANGED vars
  BY <1>1, <1>13 DEF vars
<1> QED
  BY <1>2, <1>3, <1>4, <1>5, <1>6, <1>7, <1>8, <1>9, <1>10, <1>11, <1>12, <1>13, Shapes

(* The object keeps the contract of ProcessRun: a run is announced at most *)
(* once and ends exactly once, with the signals of its end or because the  *)
(* owner closed it.                                                        *)
THEOREM Refinement == Spec => AbstractSpec
<1>1. Init => Contract!Init
  BY DEF Init, Contract!Init
<1>2. ProcessInv /\ [Next]_vars => [Contract!Next]_Contract!vars
  BY ContractStep
<1> QED
  BY <1>1, <1>2, ProcessInvariant, PTL DEF Spec, AbstractSpec, Contract!Spec
-----------------------------------------------------------------------------
(* The session below the object, ConPtySession, for any bounds and for the *)
(* same capacity of the output queue.                                      *)
CONSTANTS MaxWork, PipeCap

VARIABLES host, out, inp, size, th, flag, pc

Pty == INSTANCE ConPtySession

PtyBounds == MaxWork \in Nat /\ PipeCap \in Nat \ {0}

(* The records of the type invariant, by name.                             *)
Hosts == [child : {"running", "exited"}, console : {"open", "handed", "closed"},
          made : 0 .. MaxWork, screen : 0 .. MaxWork, pipe : 0 .. PipeCap,
          outputOpen : BOOLEAN]
Outputs == [queue : 0 .. QueueCap, marker : BOOLEAN, eof : BOOLEAN,
            got : 0 .. MaxWork, cut : BOOLEAN]
Inputs == [queue : 0 .. QueueCap, pending : Nat, discarded : Nat,
           error : BOOLEAN, writes : 0 .. MaxWork]
Sizes == [asked : 0 .. MaxWork, calls : 0 .. MaxWork, event : BOOLEAN,
          tried : 0 .. MaxWork]
Threads == [reader : {"read", "put", "eof", "mark", "ended"},
            writer : {"get", "empty", "write", "failed", "discard", "subtract",
                      "close", "ended"},
            resizer : {"wait", "take", "lock", "call", "hung", "ended"},
            resize : 0 .. MaxWork, closer : {"none", "quiet", "call", "ended"}]
Flags == [closing : BOOLEAN, resize : BOOLEAN, input : BOOLEAN, closed : BOOLEAN]
Places == {"idle", "count", "put", "event", "terminate", "shutdown", "flags",
           "pipes", "closed"}

(* Chunks on their way: got, queued, in the reader's hand, in the pipe and *)
(* not yet rendered.  They are all the child has made until some are cut   *)
(* off, and none but the queued ones is left when the reader is done.      *)
InHand == IF th.reader = "put" THEN 1 ELSE 0
Held == out.got + out.queue + InHand + host.pipe + host.screen
ReaderDone == th.reader \in {"eof", "mark", "ended"}

HeldInv ==
  /\ Held <= host.made
  /\ ~out.cut /\ (host.outputOpen \/ ReaderDone) => Held = host.made

EndInv ==
  /\ host.console = "closed" => host.screen = 0
  /\ ~out.cut /\ ReaderDone => host.console = "closed" /\ host.pipe = 0
  /\ out.eof /\ ~out.cut => th.reader \in {"mark", "ended"}
  /\ out.marker \/ th.reader \in {"mark", "ended"} => out.eof

(* Only the writer, between taking them and subtracting them, has payloads *)
(* it discards.                                                            *)
PendingInv == Pty!PendingCounts /\ (inp.discarded # 0 => th.writer = "subtract")

(* Where no error is recorded and the session is open, a closed input has  *)
(* no call queue any more, and a writer has left its loop for that reason  *)
(* only and has discarded what was queued.                                 *)
Quits == {"failed", "discard", "subtract", "close", "ended"}

StuckInv ==
  inp.error \/ flag.closing \/
    /\ flag.input => pc \notin {"count", "put"}
    /\ th.writer \in Quits => flag.input
    /\ th.writer \in {"subtract", "close", "ended"} => inp.queue = 0

(* The thread that closes the console was given it.                        *)
ResizeInv == Pty!ResizedWhileOpen /\ (th.closer # "none" => host.console # "open")

PtyInv == Pty!TypeOK /\ PendingInv /\ StuckInv /\ ResizeInv /\ HeldInv /\ EndInv
-----------------------------------------------------------------------------
(* The type invariant by its records, and the counts of the session.       *)
LEMMA Typed ==
  ASSUME PtyBounds, PtyInv
  PROVE  /\ host \in Hosts /\ out \in Outputs /\ inp \in Inputs
         /\ size \in Sizes /\ th \in Threads /\ flag \in Flags /\ pc \in Places
  BY DEF PtyInv, Pty!TypeOK, Hosts, Outputs, Inputs, Sizes, Threads, Flags,
    Places

LEMMA Counts ==
  ASSUME PtyBounds, PtyInv
  PROVE  /\ host.made \in 0 .. MaxWork /\ host.screen \in 0 .. MaxWork
         /\ host.pipe \in 0 .. PipeCap /\ InHand \in {0, 1}
         /\ out.queue \in 0 .. QueueCap /\ out.got \in 0 .. MaxWork
         /\ inp.queue \in 0 .. QueueCap /\ inp.writes \in 0 .. MaxWork
         /\ inp.pending \in Nat /\ inp.discarded \in Nat
         /\ size.calls \in 0 .. MaxWork /\ Held <= host.made
         /\ PipeCap \in Nat /\ QueueCap \in Nat /\ MaxWork \in Nat
<1>1. host \in Hosts /\ out \in Outputs /\ inp \in Inputs /\ size \in Sizes
  BY DEF PtyInv, Pty!TypeOK, Hosts, Outputs, Inputs, Sizes
<1>2. /\ host.made \in 0 .. MaxWork /\ host.screen \in 0 .. MaxWork
      /\ host.pipe \in 0 .. PipeCap
  BY <1>1 DEF Hosts
<1>3. out.queue \in 0 .. QueueCap /\ out.got \in 0 .. MaxWork
  BY <1>1 DEF Outputs
<1>4. /\ inp.queue \in 0 .. QueueCap /\ inp.writes \in 0 .. MaxWork
      /\ inp.pending \in Nat /\ inp.discarded \in Nat
  BY <1>1 DEF Inputs
<1>5. size.calls \in 0 .. MaxWork
  BY <1>1 DEF Sizes
<1>6. InHand \in {0, 1}
  BY DEF InHand
<1>7. Held <= host.made
  <2>1. HeldInv
    BY DEF PtyInv
  <2> QED BY <2>1 DEF HeldInv
<1> QED BY <1>2, <1>3, <1>4, <1>5, <1>6, <1>7, BoundsAssumption DEF PtyBounds

(* The fields keep their types: a count goes down where there is something *)
(* to take and up where there is room.                                     *)
LEMMA TypeStep ==
  ASSUME PtyBounds, PtyInv, Pty!Next
  PROVE  Pty!TypeOK'
<1> USE BoundsAssumption DEF PtyBounds
<1>0. /\ host \in Hosts /\ out \in Outputs /\ inp \in Inputs
      /\ size \in Sizes /\ th \in Threads /\ flag \in Flags /\ pc \in Places
  BY Typed
<1> SUFFICES /\ host' \in Hosts /\ out' \in Outputs /\ inp' \in Inputs
             /\ size' \in Sizes /\ th' \in Threads /\ flag' \in Flags
               /\ pc' \in Places
  BY DEF Pty!TypeOK, Hosts, Outputs, Inputs, Sizes, Threads, Flags, Places
<1>1. CASE Pty!Host
  <2>1. CASE Pty!ChildMakes
    <3>1. host' \in Hosts
      <4>1. host.made + 1 \in 0 .. MaxWork /\ host.screen + 1 \in 0 .. MaxWork
        BY Counts, <2>1 DEF Pty!ChildMakes, Pty!Works, Held
      <4>2. host' = [host EXCEPT !.made = host.made + 1,
                                   !.screen = host.screen + 1]
        BY <2>1 DEF Pty!ChildMakes
      <4> QED BY <1>0, <4>1, <4>2 DEF Hosts
    <3> QED BY <1>0, <2>1, <3>1 DEF Pty!ChildMakes
  <2>2. CASE Pty!ChildExits
    <3>1. host' \in Hosts
      BY <1>0, <2>2 DEF Pty!ChildExits, Hosts
    <3> QED BY <1>0, <2>2, <3>1 DEF Pty!ChildExits
  <2>3. CASE Pty!ConsoleRenders
    <3>1. host' \in Hosts
      <4> DEFINE n == IF host.outputOpen THEN host.pipe + 1 ELSE host.pipe
      <4>1. host.screen - 1 \in 0 .. MaxWork /\ n \in 0 .. PipeCap
        BY <1>0, <2>3 DEF Pty!ConsoleRenders, Hosts
      <4>2. host' = [host EXCEPT !.screen = host.screen - 1, !.pipe = n]
        BY <2>3 DEF Pty!ConsoleRenders
      <4> QED BY <1>0, <4>1, <4>2 DEF Hosts
    <3> QED BY <1>0, <2>3, <3>1 DEF Pty!ConsoleRenders
  <2> QED
    BY <1>1, <2>1, <2>2, <2>3 DEF Pty!Host
<1>2. CASE Pty!Reader
  <2>1. CASE Pty!ReadFile
    <3>1. host' \in Hosts
      BY <1>0, <2>1 DEF Pty!ReadFile, Hosts
    <3>2. th' \in Threads
      BY <1>0, <2>1 DEF Pty!ReadFile, Threads
    <3> QED BY <1>0, <2>1, <3>1, <3>2 DEF Pty!ReadFile
  <2>2. CASE Pty!ReadEnds
    <3>1. th' \in Threads
      BY <1>0, <2>2 DEF Pty!ReadEnds, Threads
    <3> QED BY <1>0, <2>2, <3>1 DEF Pty!ReadEnds
  <2>3. CASE Pty!ReadFails
    <3>1. inp' \in Inputs
      BY <1>0, <2>3 DEF Pty!ReadFails, Pty!RecordsError, Inputs
    <3>2. out' \in Outputs
      BY <1>0, <2>3 DEF Pty!ReadFails, Outputs
    <3>3. th' \in Threads
      BY <1>0, <2>3 DEF Pty!ReadFails, Threads
    <3> QED BY <1>0, <2>3, <3>1, <3>2, <3>3 DEF Pty!ReadFails
  <2>4. CASE Pty!PutChunk
    <3>1. out' \in Outputs
      BY <1>0, <2>4 DEF Pty!PutChunk, Outputs
    <3>2. th' \in Threads
      BY <1>0, <2>4 DEF Pty!PutChunk, Threads
    <3> QED BY <1>0, <2>4, <3>1, <3>2 DEF Pty!PutChunk
  <2>5. CASE Pty!ReaderGivesUp
    <3>1. out' \in Outputs
      BY <1>0, <2>5 DEF Pty!ReaderGivesUp, Outputs
    <3>2. th' \in Threads
      BY <1>0, <2>5 DEF Pty!ReaderGivesUp, Threads
    <3> QED BY <1>0, <2>5, <3>1, <3>2 DEF Pty!ReaderGivesUp
  <2>6. CASE Pty!SetEof
    <3>1. out' \in Outputs
      BY <1>0, <2>6 DEF Pty!SetEof, Outputs
    <3>2. th' \in Threads
      BY <1>0, <2>6 DEF Pty!SetEof, Threads
    <3> QED BY <1>0, <2>6, <3>1, <3>2 DEF Pty!SetEof
  <2>7. CASE Pty!PutMarker
    <3>1. out' \in Outputs
      BY <1>0, <2>7 DEF Pty!PutMarker, Outputs
    <3>2. th' \in Threads
      BY <1>0, <2>7 DEF Pty!PutMarker, Threads
    <3> QED BY <1>0, <2>7, <3>1, <3>2 DEF Pty!PutMarker
  <2> QED
    BY <1>2, <2>1, <2>2, <2>3, <2>4, <2>5, <2>6, <2>7 DEF Pty!Reader
<1>3. CASE Pty!Writer
  <2>1. CASE Pty!GetInput
    <3>1. inp' \in Inputs
      BY <1>0, <2>1 DEF Pty!GetInput, Inputs
    <3>2. th' \in Threads
      BY <1>0, <2>1 DEF Pty!GetInput, Threads
    <3> QED BY <1>0, <2>1, <3>1, <3>2 DEF Pty!GetInput
  <2>2. CASE Pty!NoMoreInput
    <3>1. th' \in Threads
      BY <1>0, <2>2 DEF Pty!NoMoreInput, Threads
    <3> QED BY <1>0, <2>2, <3>1 DEF Pty!NoMoreInput
  <2>9. CASE Pty!FindsNoInput
    <3>1. th' \in Threads
      BY <1>0, <2>9 DEF Pty!FindsNoInput, Threads
    <3> QED BY <1>0, <2>9, <3>1 DEF Pty!FindsNoInput
  <2>10. CASE Pty!LooksAtInput
    <3>1. PICK w \in {"discard", "get"} : th' = [th EXCEPT !.writer = w]
      BY <2>10 DEF Pty!LooksAtInput
    <3>2. th' \in Threads
      BY <1>0, <3>1 DEF Threads
    <3> QED BY <1>0, <2>10, <3>2 DEF Pty!LooksAtInput
  <2>3. CASE Pty!WriteFile
    <3>1. inp' \in Inputs
      <4>1. inp.pending - 1 \in Nat
        BY <1>0, <2>3
          DEF Pty!WriteFile, PtyInv, PendingInv, Pty!PendingCounts, Inputs
      <4>2. inp' = [inp EXCEPT !.pending = inp.pending - 1]
        BY <2>3 DEF Pty!WriteFile
      <4> QED BY <1>0, <4>1, <4>2 DEF Inputs
    <3>2. th' \in Threads
      BY <1>0, <2>3 DEF Pty!WriteFile, Threads
    <3> QED BY <1>0, <2>3, <3>1, <3>2 DEF Pty!WriteFile
  <2>4. CASE Pty!WriteFails
    <3>1. inp' \in Inputs
      BY <1>0, <2>4 DEF Pty!WriteFails, Pty!RecordsError, Inputs
    <3>2. flag' \in Flags
      BY <1>0, <2>4 DEF Pty!WriteFails, Flags
    <3>3. th' \in Threads
      BY <1>0, <2>4 DEF Pty!WriteFails, Threads
    <3> QED BY <1>0, <2>4, <3>1, <3>2, <3>3 DEF Pty!WriteFails
  <2>5. CASE Pty!CountFailed
    <3>1. inp' \in Inputs
      <4>1. inp.pending - 1 \in Nat
        BY <1>0, <2>5
          DEF Pty!CountFailed, PtyInv, PendingInv, Pty!PendingCounts, Inputs
      <4>2. inp' = [inp EXCEPT !.pending = inp.pending - 1]
        BY <2>5 DEF Pty!CountFailed
      <4> QED BY <1>0, <4>1, <4>2 DEF Inputs
    <3>2. th' \in Threads
      BY <1>0, <2>5 DEF Pty!CountFailed, Threads
    <3> QED BY <1>0, <2>5, <3>1, <3>2 DEF Pty!CountFailed
  <2>6. CASE Pty!DiscardQueued
    <3>1. inp' \in Inputs
      <4>1. 0 \in 0 .. QueueCap /\ inp.queue \in Nat
        BY <1>0, <2>6 DEF Inputs
      <4>2. inp' = [inp EXCEPT !.queue = 0, !.discarded = inp.queue]
        BY <2>6 DEF Pty!DiscardQueued
      <4> QED BY <1>0, <4>1, <4>2 DEF Inputs
    <3>2. th' \in Threads
      BY <1>0, <2>6 DEF Pty!DiscardQueued, Threads
    <3> QED BY <1>0, <2>6, <3>1, <3>2 DEF Pty!DiscardQueued
  <2>7. CASE Pty!CountDiscarded
    <3>1. inp' \in Inputs
      <4> DEFINE n == IF inp.pending > inp.discarded
                        THEN inp.pending - inp.discarded ELSE 0
      <4>1. n \in Nat
        BY <1>0, <2>7 DEF Inputs
      <4>2. inp' = [inp EXCEPT !.pending = n, !.discarded = 0]
        BY <2>7 DEF Pty!CountDiscarded
      <4> QED BY <1>0, <4>1, <4>2 DEF Inputs
    <3>2. th' \in Threads
      BY <1>0, <2>7 DEF Pty!CountDiscarded, Threads
    <3> QED BY <1>0, <2>7, <3>1, <3>2 DEF Pty!CountDiscarded
  <2>8. CASE Pty!CloseInputHandle
    <3>1. th' \in Threads
      BY <1>0, <2>8 DEF Pty!CloseInputHandle, Threads
    <3> QED BY <1>0, <2>8, <3>1 DEF Pty!CloseInputHandle
  <2> QED
    BY <1>3, <2>1, <2>2, <2>3, <2>4, <2>5, <2>6, <2>7, <2>8, <2>9,
       <2>10 DEF Pty!Writer
<1>4. CASE Pty!Resizer
  <2>1. CASE Pty!Wakes
    <3>1. size' \in Sizes
      BY <1>0, <2>1 DEF Pty!Wakes, Sizes
    <3>2. th' \in Threads
      BY <1>0, <2>1 DEF Pty!Wakes, Threads
    <3> QED BY <1>0, <2>1, <3>1, <3>2 DEF Pty!Wakes
  <2>2. CASE Pty!TakesSize
    <3>1. size' \in Sizes
      BY <1>0, <2>2 DEF Pty!TakesSize, Sizes
    <3>2. th' \in Threads
      <4> DEFINE next == IF size.asked = 0 THEN "wait" ELSE "lock"
      <4>1. size.asked \in 0 .. MaxWork /\ next \in {"wait", "lock"}
        BY <1>0, <2>2 DEF Sizes
      <4>2. th' = [th EXCEPT !.resizer = next, !.resize = size.asked]
        BY <2>2 DEF Pty!TakesSize
      <4> QED BY <1>0, <4>1, <4>2 DEF Threads
    <3> QED BY <1>0, <2>2, <3>1, <3>2 DEF Pty!TakesSize
  <2>3. CASE Pty!Calls
    <3>1. th' \in Threads
      BY <1>0, <2>3 DEF Pty!Calls, Threads
    <3> QED BY <1>0, <2>3, <3>1 DEF Pty!Calls
  <2>4. CASE Pty!ResizeReturns
    <3>1. size' \in Sizes
      <4>1. th.resize \in 0 .. MaxWork
        BY <1>0, <2>4 DEF Threads
      <4>2. size' = [size EXCEPT !.tried = th.resize]
        BY <2>4 DEF Pty!ResizeReturns
      <4> QED BY <1>0, <4>1, <4>2 DEF Sizes
    <3>2. th' \in Threads
      BY <1>0, <2>4 DEF Pty!ResizeReturns, Threads
    <3> QED BY <1>0, <2>4, <3>1, <3>2 DEF Pty!ResizeReturns
  <2>5. CASE Pty!ResizerEnds
    <3>1. th' \in Threads
      BY <1>0, <2>5 DEF Pty!ResizerEnds, Threads
    <3> QED BY <1>0, <2>5, <3>1 DEF Pty!ResizerEnds
  <2> QED
    BY <1>4, <2>1, <2>2, <2>3, <2>4, <2>5 DEF Pty!Resizer
<1>5. CASE Pty!Closer
  <2>1. CASE Pty!OutputIsQuiet
    <3>1. th' \in Threads
      BY <1>0, <2>1 DEF Pty!OutputIsQuiet, Threads
    <3> QED BY <1>0, <2>1, <3>1 DEF Pty!OutputIsQuiet
  <2>2. CASE Pty!ConsoleCloses
    <3>1. host' \in Hosts
      BY <1>0, <2>2 DEF Pty!ConsoleCloses, Hosts
    <3>2. th' \in Threads
      BY <1>0, <2>2 DEF Pty!ConsoleCloses, Threads
    <3> QED BY <1>0, <2>2, <3>1, <3>2 DEF Pty!ConsoleCloses
  <2> QED
    BY <1>5, <2>1, <2>2 DEF Pty!Closer
<1>6. CASE Pty!Method
  <2>1. CASE Pty!WriteChecks
    <3>1. inp' \in Inputs
      <4>1. inp.writes + 1 \in 0 .. MaxWork
        BY <1>0, <2>1 DEF Pty!WriteChecks, Pty!Works, Inputs, Sizes, Hosts
      <4>2. inp' = [inp EXCEPT !.writes = inp.writes + 1]
        BY <2>1 DEF Pty!WriteChecks
      <4> QED BY <1>0, <4>1, <4>2 DEF Inputs
    <3>2. pc' \in Places
      BY <1>0, <2>1 DEF Pty!WriteChecks, Pty!Goto, Places
    <3> QED BY <1>0, <2>1, <3>1, <3>2 DEF Pty!WriteChecks
  <2>2. CASE Pty!CloseInput
    <3>1. flag' \in Flags
      BY <1>0, <2>2 DEF Pty!CloseInput, Flags
    <3> QED BY <1>0, <2>2, <3>1 DEF Pty!CloseInput
  <2>3. CASE Pty!Read
    <3>1. out' \in Outputs
      <4>1. CASE /\ out.queue > 0
                 /\ out' = [out EXCEPT !.queue = out.queue - 1,
                   !.got = out.got + 1]
        <5>1. out.queue - 1 \in 0 .. QueueCap /\ out.got + 1 \in 0 .. MaxWork
          BY <4>1, Counts DEF Held
        <5> QED BY <1>0, <4>1, <5>1 DEF Outputs
      <4>2. CASE out' = [out EXCEPT !.marker = FALSE, !.eof = TRUE]
        BY <1>0, <4>2 DEF Outputs
      <4> QED BY <2>3, <4>1, <4>2 DEF Pty!Read
    <3> QED BY <1>0, <2>3, <3>1 DEF Pty!Read
  <2>4. CASE Pty!Resize
    <3>1. size' \in Sizes
      <4>1. size.calls + 1 \in 0 .. MaxWork
        BY <1>0, <2>4 DEF Pty!Resize, Pty!Works, Inputs, Sizes, Hosts
      <4>2. size' = [size EXCEPT !.asked = size.calls + 1,
                                   !.calls = size.calls + 1]
        BY <2>4 DEF Pty!Resize
      <4> QED BY <1>0, <4>1, <4>2 DEF Sizes
    <3>2. pc' \in Places
      BY <1>0, <2>4 DEF Pty!Resize, Pty!Goto, Places
    <3> QED BY <1>0, <2>4, <3>1, <3>2 DEF Pty!Resize
  <2>5. CASE Pty!Terminate
    <3>1. host' \in Hosts
      BY <1>0, <2>5 DEF Pty!Terminate, Hosts
    <3> QED BY <1>0, <2>5, <3>1 DEF Pty!Terminate
  <2>6. CASE Pty!BeginOutputShutdown
    <3>1. host' \in Hosts
      BY <1>0, <2>6 DEF Pty!BeginOutputShutdown, Pty!HandOver, Hosts
    <3>2. th' \in Threads
      BY <1>0, <2>6 DEF Pty!BeginOutputShutdown, Pty!HandOver, Threads
    <3> QED BY <1>0, <2>6, <3>1, <3>2 DEF Pty!BeginOutputShutdown, Pty!HandOver
  <2>7. CASE Pty!Close
    <3>1. flag' \in Flags
      BY <1>0, <2>7 DEF Pty!Close, Flags
    <3>2. size' \in Sizes
      BY <1>0, <2>7 DEF Pty!Close, Sizes
    <3>3. pc' \in Places
      BY <1>0, <2>7 DEF Pty!Close, Pty!Goto, Places
    <3> QED BY <1>0, <2>7, <3>1, <3>2, <3>3 DEF Pty!Close
  <2> QED
    BY <1>6, <2>1, <2>2, <2>3, <2>4, <2>5, <2>6, <2>7 DEF Pty!Method
<1>7. CASE Pty!GoOn
  <2>1. CASE Pty!WriteCounts
    <3>1. inp' \in Inputs
      BY <1>0, <2>1 DEF Pty!WriteCounts, Inputs
    <3>2. pc' \in Places
      BY <1>0, <2>1 DEF Pty!WriteCounts, Pty!Goto, Places
    <3> QED BY <1>0, <2>1, <3>1, <3>2 DEF Pty!WriteCounts
  <2>2. CASE Pty!WritePuts
    <3>1. inp' \in Inputs
      <4>1. CASE inp.queue < QueueCap
        /\ inp' = [inp EXCEPT !.queue = inp.queue + 1]
        <5>1. inp.queue + 1 \in 0 .. QueueCap
          BY <1>0, <4>1 DEF Inputs
        <5> QED BY <1>0, <4>1, <5>1 DEF Inputs
      <4>2. CASE inp' = [inp EXCEPT !.pending = inp.pending - 1]
        <5>1. inp.pending - 1 \in Nat
          BY <1>0, <2>2
            DEF Pty!WritePuts, PtyInv, PendingInv, Pty!PendingCounts, Inputs
        <5> QED BY <1>0, <4>2, <5>1 DEF Inputs
      <4> QED BY <2>2, <4>1, <4>2 DEF Pty!WritePuts
    <3>2. pc' \in Places
      BY <1>0, <2>2 DEF Pty!WritePuts, Pty!Goto, Places
    <3> QED BY <1>0, <2>2, <3>1, <3>2 DEF Pty!WritePuts
  <2>3. CASE Pty!SetResizeEvent
    <3>1. size' \in Sizes
      BY <1>0, <2>3 DEF Pty!SetResizeEvent, Sizes
    <3>2. pc' \in Places
      BY <1>0, <2>3 DEF Pty!SetResizeEvent, Pty!Goto, Places
    <3> QED BY <1>0, <2>3, <3>1, <3>2 DEF Pty!SetResizeEvent
  <2>4. CASE Pty!CloseTerminates
    <3>1. host' \in Hosts
      BY <1>0, <2>4 DEF Pty!CloseTerminates, Hosts
    <3>2. pc' \in Places
      BY <1>0, <2>4 DEF Pty!CloseTerminates, Pty!Goto, Places
    <3> QED BY <1>0, <2>4, <3>1, <3>2 DEF Pty!CloseTerminates
  <2>5. CASE Pty!CloseShutsDown
    <3>1. host' \in Hosts
      BY <1>0, <2>5 DEF Pty!CloseShutsDown, Pty!HandOver, Hosts
    <3>2. th' \in Threads
      BY <1>0, <2>5 DEF Pty!CloseShutsDown, Pty!HandOver, Threads
    <3>3. pc' \in Places
      BY <1>0, <2>5 DEF Pty!CloseShutsDown, Pty!Goto, Places
    <3> QED BY <1>0, <2>5, <3>1, <3>2, <3>3 DEF Pty!CloseShutsDown, Pty!HandOver
  <2>6. CASE Pty!CloseSetsFlags
    <3>1. flag' \in Flags
      BY <1>0, <2>6 DEF Pty!CloseSetsFlags, Flags
    <3>2. pc' \in Places
      BY <1>0, <2>6 DEF Pty!CloseSetsFlags, Pty!Goto, Places
    <3> QED BY <1>0, <2>6, <3>1, <3>2 DEF Pty!CloseSetsFlags
  <2>7. CASE Pty!ClosePipes
    <3>1. host' \in Hosts
      <4>1. 0 \in 0 .. PipeCap
        BY <1>0, <2>7
      <4>2. host' = [host EXCEPT !.outputOpen = FALSE, !.pipe = 0]
        BY <2>7 DEF Pty!ClosePipes
      <4> QED BY <1>0, <4>1, <4>2 DEF Hosts
    <3>2. pc' \in Places
      BY <1>0, <2>7 DEF Pty!ClosePipes, Pty!Goto, Places
    <3> QED BY <1>0, <2>7, <3>1, <3>2 DEF Pty!ClosePipes
  <2>8. CASE Pty!CloseDone
    <3>1. flag' \in Flags
      BY <1>0, <2>8 DEF Pty!CloseDone, Flags
    <3>2. out' \in Outputs
      BY <1>0, <2>8 DEF Pty!CloseDone, Outputs
    <3>3. pc' \in Places
      BY <1>0, <2>8 DEF Pty!CloseDone, Pty!Goto, Places
    <3> QED BY <1>0, <2>8, <3>1, <3>2, <3>3 DEF Pty!CloseDone
  <2> QED
    BY <1>7, <2>1, <2>2, <2>3, <2>4, <2>5, <2>6, <2>7, <2>8 DEF Pty!GoOn
<1> QED
  BY <1>1, <1>2, <1>3, <1>4, <1>5, <1>6, <1>7 DEF Pty!Next

(* The writer and the callers count every payload once.                    *)
LEMMA PendingStep ==
  ASSUME PtyBounds, PtyInv, Pty!Next
  PROVE  PendingInv'
<1>0. inp \in Inputs /\ th \in Threads /\ PendingInv /\ QueueCap \in Nat
  BY Typed, BoundsAssumption DEF PtyBounds, PtyInv
<1>1. CASE Pty!Host
  <2>1. CASE Pty!ChildMakes \/ Pty!ChildExits \/ Pty!ConsoleRenders
    BY <1>0, <2>1 DEF Pty!ChildMakes, Pty!ChildExits, Pty!ConsoleRenders,
      PendingInv, Pty!PendingCounts, Inputs, Threads
  <2> QED BY <1>1, <2>1 DEF Pty!Host
<1>2. CASE Pty!Reader
  <2>1. CASE Pty!ReadFile \/ Pty!ReadEnds \/ Pty!ReadFails \/ Pty!PutChunk
    \/ Pty!ReaderGivesUp \/ Pty!SetEof \/ Pty!PutMarker
    BY <1>0, <2>1 DEF Pty!ReadFile, Pty!ReadEnds, Pty!ReadFails,
      Pty!RecordsError, Pty!PutChunk, Pty!ReaderGivesUp, Pty!SetEof,
      Pty!PutMarker, PendingInv, Pty!PendingCounts, Inputs, Threads
  <2> QED BY <1>2, <2>1 DEF Pty!Reader
<1>3. CASE Pty!Writer
  <2>1. CASE Pty!GetInput
    BY <1>0, <2>1 DEF Pty!GetInput, PendingInv, Pty!PendingCounts, Inputs,
      Threads
  <2>2. CASE Pty!NoMoreInput \/ Pty!FindsNoInput \/ Pty!LooksAtInput
    BY <1>0, <2>2 DEF Pty!NoMoreInput, Pty!FindsNoInput, Pty!LooksAtInput,
      PendingInv, Pty!PendingCounts, Inputs, Threads
  <2>3. CASE Pty!WriteFile
    BY <1>0, <2>3 DEF Pty!WriteFile, PendingInv, Pty!PendingCounts, Inputs,
      Threads
  <2>4. CASE Pty!WriteFails
    BY <1>0, <2>4 DEF Pty!WriteFails, Pty!RecordsError, PendingInv,
      Pty!PendingCounts, Inputs, Threads
  <2>5. CASE Pty!CountFailed
    BY <1>0, <2>5 DEF Pty!CountFailed, PendingInv, Pty!PendingCounts, Inputs,
      Threads
  <2>6. CASE Pty!DiscardQueued
    BY <1>0, <2>6 DEF Pty!DiscardQueued, PendingInv, Pty!PendingCounts, Inputs,
      Threads
  <2>7. CASE Pty!CountDiscarded
    BY <1>0, <2>7 DEF Pty!CountDiscarded, PendingInv, Pty!PendingCounts,
      Inputs, Threads
  <2>8. CASE Pty!CloseInputHandle
    BY <1>0, <2>8 DEF Pty!CloseInputHandle, PendingInv, Pty!PendingCounts,
      Inputs, Threads
  <2> QED BY <1>3, <2>1, <2>2, <2>3, <2>4, <2>5, <2>6, <2>7, <2>8 DEF Pty!Writer
<1>4. CASE Pty!Resizer
  <2>1. CASE Pty!Wakes \/ Pty!TakesSize \/ Pty!Calls \/ Pty!ResizeReturns
    \/ Pty!ResizerEnds
    BY <1>0, <2>1 DEF Pty!Wakes, Pty!TakesSize, Pty!Calls, Pty!ResizeReturns,
      Pty!ResizerEnds, PendingInv, Pty!PendingCounts, Inputs, Threads
  <2> QED BY <1>4, <2>1 DEF Pty!Resizer
<1>5. CASE Pty!Closer
  <2>1. CASE Pty!OutputIsQuiet \/ Pty!ConsoleCloses
    BY <1>0, <2>1 DEF Pty!OutputIsQuiet, Pty!ConsoleCloses, PendingInv,
      Pty!PendingCounts, Inputs, Threads
  <2> QED BY <1>5, <2>1 DEF Pty!Closer
<1>6. CASE Pty!Method
  <2>1. CASE Pty!WriteChecks \/ Pty!CloseInput \/ Pty!Read \/ Pty!Resize
    \/ Pty!Terminate \/ Pty!BeginOutputShutdown \/ Pty!Close
    BY <1>0, <2>1 DEF Pty!WriteChecks, Pty!Goto, Pty!CloseInput, Pty!Read,
      Pty!Resize, Pty!Terminate, Pty!BeginOutputShutdown, Pty!HandOver,
      Pty!Close, PendingInv, Pty!PendingCounts, Inputs, Threads
  <2> QED BY <1>6, <2>1 DEF Pty!Method
<1>7. CASE Pty!GoOn
  <2>1. CASE Pty!WriteCounts
    BY <1>0, <2>1 DEF Pty!WriteCounts, Pty!Goto, PendingInv, Pty!PendingCounts,
      Inputs, Threads
  <2>2. CASE Pty!WritePuts
    BY <1>0, <2>2 DEF Pty!WritePuts, Pty!Goto, PendingInv, Pty!PendingCounts,
      Inputs, Threads
  <2>3. CASE Pty!SetResizeEvent \/ Pty!CloseTerminates \/ Pty!CloseShutsDown
    \/ Pty!CloseSetsFlags \/ Pty!ClosePipes \/ Pty!CloseDone
    BY <1>0, <2>3 DEF Pty!SetResizeEvent, Pty!Goto, Pty!CloseTerminates,
      Pty!CloseShutsDown, Pty!HandOver, Pty!CloseSetsFlags, Pty!ClosePipes,
      Pty!CloseDone, PendingInv, Pty!PendingCounts, Inputs, Threads
  <2> QED BY <1>7, <2>1, <2>2, <2>3 DEF Pty!GoOn
<1> QED BY <1>1, <1>2, <1>3, <1>4, <1>5, <1>6, <1>7 DEF Pty!Next

(* The console is resized before it is handed over only.                   *)
LEMMA ResizeStep ==
  ASSUME PtyBounds, PtyInv, Pty!Next
  PROVE  ResizeInv'
<1>0. host \in Hosts /\ flag \in Flags /\ th \in Threads /\ ResizeInv
  BY Typed DEF PtyInv
<1>1. CASE Pty!Host
  <2>1. CASE Pty!ChildMakes \/ Pty!ChildExits \/ Pty!ConsoleRenders
    BY <1>0, <2>1 DEF Pty!ChildMakes, Pty!ChildExits, Pty!ConsoleRenders,
      ResizeInv, Pty!ResizedWhileOpen, Hosts, Flags, Threads
  <2> QED BY <1>1, <2>1 DEF Pty!Host
<1>2. CASE Pty!Reader
  <2>1. CASE Pty!ReadFile \/ Pty!ReadEnds \/ Pty!ReadFails \/ Pty!PutChunk
    \/ Pty!ReaderGivesUp \/ Pty!SetEof \/ Pty!PutMarker
    BY <1>0, <2>1 DEF Pty!ReadFile, Pty!ReadEnds, Pty!ReadFails,
      Pty!RecordsError, Pty!PutChunk, Pty!ReaderGivesUp, Pty!SetEof,
      Pty!PutMarker, ResizeInv, Pty!ResizedWhileOpen, Hosts, Flags, Threads
  <2> QED BY <1>2, <2>1 DEF Pty!Reader
<1>3. CASE Pty!Writer
  <2>1. CASE Pty!GetInput \/ Pty!FindsNoInput \/ Pty!LooksAtInput
    \/ Pty!NoMoreInput \/ Pty!WriteFile \/ Pty!WriteFails
    \/ Pty!CountFailed \/ Pty!DiscardQueued \/ Pty!CountDiscarded
    \/ Pty!CloseInputHandle
    BY <1>0, <2>1 DEF Pty!GetInput, Pty!FindsNoInput,
      Pty!LooksAtInput, Pty!NoMoreInput, Pty!WriteFile,
      Pty!WriteFails, Pty!RecordsError, Pty!CountFailed, Pty!DiscardQueued,
      Pty!CountDiscarded, Pty!CloseInputHandle, ResizeInv,
      Pty!ResizedWhileOpen, Hosts, Flags, Threads
  <2> QED BY <1>3, <2>1 DEF Pty!Writer
<1>4. CASE Pty!Resizer
  <2>1. CASE Pty!Wakes
    BY <1>0, <2>1 DEF Pty!Wakes, ResizeInv, Pty!ResizedWhileOpen, Hosts, Flags,
      Threads, Pty!LockFree
  <2>2. CASE Pty!TakesSize
    BY <1>0, <2>2 DEF Pty!TakesSize, ResizeInv, Pty!ResizedWhileOpen, Hosts,
      Flags, Threads, Pty!LockFree
  <2>3. CASE Pty!Calls
    BY <1>0, <2>3 DEF Pty!Calls, ResizeInv, Pty!ResizedWhileOpen, Hosts, Flags,
      Threads, Pty!LockFree
  <2>4. CASE Pty!ResizeReturns
    BY <1>0, <2>4 DEF Pty!ResizeReturns, ResizeInv, Pty!ResizedWhileOpen,
      Hosts, Flags, Threads, Pty!LockFree
  <2>5. CASE Pty!ResizerEnds
    BY <1>0, <2>5 DEF Pty!ResizerEnds, ResizeInv, Pty!ResizedWhileOpen, Hosts,
      Flags, Threads, Pty!LockFree
  <2> QED BY <1>4, <2>1, <2>2, <2>3, <2>4, <2>5 DEF Pty!Resizer
<1>5. CASE Pty!Closer
  <2>1. CASE Pty!OutputIsQuiet
    BY <1>0, <2>1 DEF Pty!OutputIsQuiet, ResizeInv, Pty!ResizedWhileOpen,
      Hosts, Flags, Threads, Pty!LockFree
  <2>2. CASE Pty!ConsoleCloses
    BY <1>0, <2>2 DEF Pty!ConsoleCloses, ResizeInv, Pty!ResizedWhileOpen,
      Hosts, Flags, Threads, Pty!LockFree
  <2> QED BY <1>5, <2>1, <2>2 DEF Pty!Closer
<1>6. CASE Pty!Method
  <2>1. CASE Pty!BeginOutputShutdown
    BY <1>0, <2>1 DEF Pty!BeginOutputShutdown, Pty!HandOver, ResizeInv,
      Pty!ResizedWhileOpen, Hosts, Flags, Threads, Pty!LockFree
  <2>2. CASE Pty!WriteChecks \/ Pty!CloseInput \/ Pty!Read \/ Pty!Resize
    \/ Pty!Terminate \/ Pty!Close
    BY <1>0, <2>2 DEF Pty!WriteChecks, Pty!Goto, Pty!CloseInput, Pty!Read,
      Pty!Resize, Pty!Terminate, Pty!Close, ResizeInv, Pty!ResizedWhileOpen,
      Hosts, Flags, Threads
  <2> QED BY <1>6, <2>1, <2>2 DEF Pty!Method
<1>7. CASE Pty!GoOn
  <2>1. CASE Pty!CloseShutsDown
    BY <1>0, <2>1 DEF Pty!CloseShutsDown, Pty!HandOver, Pty!Goto, ResizeInv,
      Pty!ResizedWhileOpen, Hosts, Flags, Threads, Pty!LockFree
  <2>2. CASE Pty!CloseDone
    BY <1>0, <2>2 DEF Pty!CloseDone, Pty!Goto, ResizeInv, Pty!ResizedWhileOpen,
      Hosts, Flags, Threads, Pty!LockFree
  <2>3. CASE Pty!WriteCounts \/ Pty!WritePuts \/ Pty!SetResizeEvent
    \/ Pty!CloseTerminates \/ Pty!CloseSetsFlags \/ Pty!ClosePipes
    BY <1>0, <2>3 DEF Pty!WriteCounts, Pty!Goto, Pty!WritePuts,
      Pty!SetResizeEvent, Pty!CloseTerminates, Pty!CloseSetsFlags,
      Pty!ClosePipes, ResizeInv, Pty!ResizedWhileOpen, Hosts, Flags, Threads
  <2> QED BY <1>7, <2>1, <2>2, <2>3 DEF Pty!GoOn
<1> QED BY <1>1, <1>2, <1>3, <1>4, <1>5, <1>6, <1>7 DEF Pty!Next

(* Chunks move on, and go missing only where the output is cut off.        *)
LEMMA HeldStep ==
  ASSUME PtyBounds, PtyInv, Pty!Next
  PROVE  HeldInv'
<1>0. /\ host \in Hosts /\ out \in Outputs /\ th \in Threads /\ HeldInv
      /\ EndInv /\ QueueCap \in Nat /\ MaxWork \in Nat /\ PipeCap \in Nat
  BY Typed, BoundsAssumption DEF PtyBounds, PtyInv
<1>1. CASE Pty!Host
  <2>1. CASE Pty!ChildMakes
    BY <1>0, <2>1 DEF Pty!ChildMakes, Pty!Works, HeldInv, Held, InHand,
      ReaderDone, Hosts, Outputs, Threads, EndInv
  <2>2. CASE Pty!ChildExits
    BY <1>0, <2>2 DEF Pty!ChildExits, HeldInv, Held, InHand, ReaderDone, Hosts,
      Outputs, Threads, EndInv
  <2>3. CASE Pty!ConsoleRenders
    BY <1>0, <2>3 DEF Pty!ConsoleRenders, HeldInv, Held, InHand, ReaderDone,
      Hosts, Outputs, Threads, EndInv
  <2> QED BY <1>1, <2>1, <2>2, <2>3 DEF Pty!Host
<1>2. CASE Pty!Reader
  <2>1. CASE Pty!ReadFile
    BY <1>0, <2>1 DEF Pty!ReadFile, HeldInv, Held, InHand, ReaderDone, Hosts,
      Outputs, Threads, EndInv
  <2>2. CASE Pty!ReadEnds
    BY <1>0, <2>2 DEF Pty!ReadEnds, HeldInv, Held, InHand, ReaderDone, Hosts,
      Outputs, Threads, EndInv
  <2>3. CASE Pty!ReadFails
    BY <1>0, <2>3 DEF Pty!ReadFails, Pty!RecordsError, HeldInv, Held, InHand,
      ReaderDone, Hosts, Outputs, Threads, EndInv
  <2>4. CASE Pty!PutChunk
    BY <1>0, <2>4 DEF Pty!PutChunk, HeldInv, Held, InHand, ReaderDone, Hosts,
      Outputs, Threads, EndInv
  <2>5. CASE Pty!ReaderGivesUp
    BY <1>0, <2>5 DEF Pty!ReaderGivesUp, HeldInv, Held, InHand, ReaderDone,
      Hosts, Outputs, Threads, EndInv
  <2>6. CASE Pty!SetEof
    BY <1>0, <2>6 DEF Pty!SetEof, HeldInv, Held, InHand, ReaderDone, Hosts,
      Outputs, Threads, EndInv
  <2>7. CASE Pty!PutMarker
    BY <1>0, <2>7 DEF Pty!PutMarker, HeldInv, Held, InHand, ReaderDone, Hosts,
      Outputs, Threads, EndInv
  <2> QED BY <1>2, <2>1, <2>2, <2>3, <2>4, <2>5, <2>6, <2>7 DEF Pty!Reader
<1>3. CASE Pty!Writer
  <2>1. CASE Pty!GetInput \/ Pty!FindsNoInput \/ Pty!LooksAtInput
    \/ Pty!NoMoreInput \/ Pty!WriteFile \/ Pty!WriteFails
    \/ Pty!CountFailed \/ Pty!DiscardQueued \/ Pty!CountDiscarded
    \/ Pty!CloseInputHandle
    BY <1>0, <2>1 DEF Pty!GetInput, Pty!FindsNoInput,
      Pty!LooksAtInput, Pty!NoMoreInput, Pty!WriteFile,
      Pty!WriteFails, Pty!RecordsError, Pty!CountFailed, Pty!DiscardQueued,
      Pty!CountDiscarded, Pty!CloseInputHandle, HeldInv, Held, InHand,
      ReaderDone, Hosts, Outputs, Threads
  <2> QED BY <1>3, <2>1 DEF Pty!Writer
<1>4. CASE Pty!Resizer
  <2>1. CASE Pty!Wakes \/ Pty!TakesSize \/ Pty!Calls \/ Pty!ResizeReturns
    \/ Pty!ResizerEnds
    BY <1>0, <2>1 DEF Pty!Wakes, Pty!TakesSize, Pty!Calls, Pty!ResizeReturns,
      Pty!ResizerEnds, HeldInv, Held, InHand, ReaderDone, Hosts, Outputs,
      Threads
  <2> QED BY <1>4, <2>1 DEF Pty!Resizer
<1>5. CASE Pty!Closer
  <2>1. CASE Pty!OutputIsQuiet \/ Pty!ConsoleCloses
    BY <1>0, <2>1 DEF Pty!OutputIsQuiet, Pty!ConsoleCloses, HeldInv, Held,
      InHand, ReaderDone, Hosts, Outputs, Threads
  <2> QED BY <1>5, <2>1 DEF Pty!Closer
<1>6. CASE Pty!Method
  <2>1. CASE Pty!Read
    <3>1. CASE /\ out.queue > 0
               /\ out' = [out EXCEPT !.queue = out.queue - 1,
                 !.got = out.got + 1]
      <4>1. out'.queue + out'.got = out.queue + out.got /\ out'.cut = out.cut
        BY <1>0, <3>1 DEF Outputs
      <4>2. Held' = Held
        BY <1>0, <2>1, <3>1 DEF Pty!Read, Held, InHand, Outputs, Hosts
      <4> QED BY <1>0, <2>1, <4>1, <4>2 DEF Pty!Read, HeldInv, ReaderDone
    <3>2. CASE out' = [out EXCEPT !.marker = FALSE, !.eof = TRUE]
      <4>1. out'.queue = out.queue /\ out'.got = out.got /\ out'.cut = out.cut
        BY <1>0, <3>2 DEF Outputs
      <4> QED BY <1>0, <2>1, <4>1
        DEF Pty!Read, HeldInv, Held, InHand, ReaderDone
    <3> QED BY <2>1, <3>1, <3>2 DEF Pty!Read
  <2>2. CASE Pty!WriteChecks \/ Pty!CloseInput \/ Pty!Resize \/ Pty!Terminate
    \/ Pty!BeginOutputShutdown \/ Pty!Close
    BY <1>0, <2>2 DEF Pty!WriteChecks, Pty!Goto, Pty!CloseInput, Pty!Resize,
      Pty!Terminate, Pty!BeginOutputShutdown, Pty!HandOver, Pty!Close, HeldInv,
      Held, InHand, ReaderDone, Hosts, Outputs, Threads
  <2> QED BY <1>6, <2>1, <2>2 DEF Pty!Method
<1>7. CASE Pty!GoOn
  <2>1. CASE Pty!ClosePipes
    BY <1>0, <2>1 DEF Pty!ClosePipes, Pty!Goto, HeldInv, Held, InHand,
      ReaderDone, Hosts, Outputs, Threads, EndInv
  <2>2. CASE Pty!CloseDone
    BY <1>0, <2>2 DEF Pty!CloseDone, Pty!Goto, HeldInv, Held, InHand,
      ReaderDone, Hosts, Outputs, Threads, EndInv
  <2>3. CASE Pty!WriteCounts \/ Pty!WritePuts \/ Pty!SetResizeEvent
    \/ Pty!CloseTerminates \/ Pty!CloseShutsDown \/ Pty!CloseSetsFlags
    BY <1>0, <2>3 DEF Pty!WriteCounts, Pty!Goto, Pty!WritePuts,
      Pty!SetResizeEvent, Pty!CloseTerminates, Pty!CloseShutsDown,
      Pty!HandOver, Pty!CloseSetsFlags, HeldInv, Held, InHand, ReaderDone,
      Hosts, Outputs, Threads
  <2> QED BY <1>7, <2>1, <2>2, <2>3 DEF Pty!GoOn
<1> QED BY <1>1, <1>2, <1>3, <1>4, <1>5, <1>6, <1>7 DEF Pty!Next

(* The reader is done when the console is closed and the pipe is empty.    *)
LEMMA EndStep ==
  ASSUME PtyBounds, PtyInv, Pty!Next
  PROVE  EndInv'
<1>0. /\ host \in Hosts /\ out \in Outputs /\ th \in Threads /\ EndInv
      /\ MaxWork \in Nat /\ PipeCap \in Nat
  BY Typed, BoundsAssumption DEF PtyBounds, PtyInv
<1>1. CASE Pty!Host
  <2>1. CASE Pty!ChildMakes
    BY <1>0, <2>1 DEF Pty!ChildMakes, Pty!Works, EndInv, ReaderDone, Hosts,
      Outputs, Threads
  <2>2. CASE Pty!ChildExits
    BY <1>0, <2>2 DEF Pty!ChildExits, EndInv, ReaderDone, Hosts, Outputs,
      Threads
  <2>3. CASE Pty!ConsoleRenders
    BY <1>0, <2>3 DEF Pty!ConsoleRenders, EndInv, ReaderDone, Hosts, Outputs,
      Threads
  <2> QED BY <1>1, <2>1, <2>2, <2>3 DEF Pty!Host
<1>2. CASE Pty!Reader
  <2>1. CASE Pty!ReadFile
    BY <1>0, <2>1 DEF Pty!ReadFile, EndInv, ReaderDone, Hosts, Outputs, Threads
  <2>2. CASE Pty!ReadEnds
    BY <1>0, <2>2 DEF Pty!ReadEnds, EndInv, ReaderDone, Hosts, Outputs, Threads
  <2>3. CASE Pty!ReadFails
    BY <1>0, <2>3 DEF Pty!ReadFails, Pty!RecordsError, EndInv, ReaderDone,
      Hosts, Outputs, Threads
  <2>4. CASE Pty!PutChunk
    BY <1>0, <2>4 DEF Pty!PutChunk, EndInv, ReaderDone, Hosts, Outputs, Threads
  <2>5. CASE Pty!ReaderGivesUp
    BY <1>0, <2>5 DEF Pty!ReaderGivesUp, EndInv, ReaderDone, Hosts, Outputs,
      Threads
  <2>6. CASE Pty!SetEof
    BY <1>0, <2>6 DEF Pty!SetEof, EndInv, ReaderDone, Hosts, Outputs, Threads
  <2>7. CASE Pty!PutMarker
    <3>1. PICK m \in BOOLEAN : out' = [out EXCEPT !.marker = m]
      BY <2>7 DEF Pty!PutMarker
    <3>2. out'.marker = m /\ out'.eof = out.eof /\ out'.cut = out.cut
      BY <1>0, <3>1 DEF Outputs
    <3> QED BY <1>0, <2>7, <3>2 DEF Pty!PutMarker, EndInv, ReaderDone, Threads
  <2> QED BY <1>2, <2>1, <2>2, <2>3, <2>4, <2>5, <2>6, <2>7 DEF Pty!Reader
<1>3. CASE Pty!Writer
  <2>1. CASE Pty!GetInput \/ Pty!FindsNoInput \/ Pty!LooksAtInput
    \/ Pty!NoMoreInput \/ Pty!WriteFile \/ Pty!WriteFails
    \/ Pty!CountFailed \/ Pty!DiscardQueued \/ Pty!CountDiscarded
    \/ Pty!CloseInputHandle
    BY <1>0, <2>1 DEF Pty!GetInput, Pty!FindsNoInput,
      Pty!LooksAtInput, Pty!NoMoreInput, Pty!WriteFile,
      Pty!WriteFails, Pty!RecordsError, Pty!CountFailed, Pty!DiscardQueued,
      Pty!CountDiscarded, Pty!CloseInputHandle, EndInv, ReaderDone, Hosts,
      Outputs, Threads
  <2> QED BY <1>3, <2>1 DEF Pty!Writer
<1>4. CASE Pty!Resizer
  <2>1. CASE Pty!Wakes \/ Pty!TakesSize \/ Pty!Calls \/ Pty!ResizeReturns
    \/ Pty!ResizerEnds
    BY <1>0, <2>1 DEF Pty!Wakes, Pty!TakesSize, Pty!Calls, Pty!ResizeReturns,
      Pty!ResizerEnds, EndInv, ReaderDone, Hosts, Outputs, Threads
  <2> QED BY <1>4, <2>1 DEF Pty!Resizer
<1>5. CASE Pty!Closer
  <2>1. CASE Pty!ConsoleCloses
    BY <1>0, <2>1 DEF Pty!ConsoleCloses, EndInv, ReaderDone, Hosts, Outputs,
      Threads
  <2>2. CASE Pty!OutputIsQuiet
    BY <1>0, <2>2 DEF Pty!OutputIsQuiet, EndInv, ReaderDone, Hosts, Outputs,
      Threads
  <2> QED BY <1>5, <2>1, <2>2 DEF Pty!Closer
<1>6. CASE Pty!Method
  <2>1. CASE Pty!Read
    BY <1>0, <2>1 DEF Pty!Read, EndInv, ReaderDone, Hosts, Outputs, Threads
  <2>2. CASE Pty!BeginOutputShutdown
    BY <1>0, <2>2 DEF Pty!BeginOutputShutdown, Pty!HandOver, EndInv,
      ReaderDone, Hosts, Outputs, Threads
  <2>3. CASE Pty!WriteChecks \/ Pty!CloseInput \/ Pty!Resize \/ Pty!Terminate
    \/ Pty!Close
    BY <1>0, <2>3 DEF Pty!WriteChecks, Pty!Goto, Pty!CloseInput, Pty!Resize,
      Pty!Terminate, Pty!Close, EndInv, ReaderDone, Hosts, Outputs, Threads
  <2> QED BY <1>6, <2>1, <2>2, <2>3 DEF Pty!Method
<1>7. CASE Pty!GoOn
  <2>1. CASE Pty!CloseShutsDown
    BY <1>0, <2>1 DEF Pty!CloseShutsDown, Pty!HandOver, Pty!Goto, EndInv,
      ReaderDone, Hosts, Outputs, Threads
  <2>2. CASE Pty!ClosePipes
    BY <1>0, <2>2 DEF Pty!ClosePipes, Pty!Goto, EndInv, ReaderDone, Hosts,
      Outputs, Threads
  <2>3. CASE Pty!CloseDone
    BY <1>0, <2>3 DEF Pty!CloseDone, Pty!Goto, EndInv, ReaderDone, Hosts,
      Outputs, Threads
  <2>4. CASE Pty!WriteCounts \/ Pty!WritePuts \/ Pty!SetResizeEvent
    \/ Pty!CloseTerminates \/ Pty!CloseSetsFlags
    BY <1>0, <2>4 DEF Pty!WriteCounts, Pty!Goto, Pty!WritePuts,
      Pty!SetResizeEvent, Pty!CloseTerminates, Pty!CloseSetsFlags, EndInv,
      ReaderDone, Hosts, Outputs, Threads
  <2> QED BY <1>7, <2>1, <2>2, <2>3, <2>4 DEF Pty!GoOn
<1> QED BY <1>1, <1>2, <1>3, <1>4, <1>5, <1>6, <1>7 DEF Pty!Next

(* An input that is closed is queued no more.                              *)
LEMMA StuckStep ==
  ASSUME PtyBounds, PtyInv, Pty!Next
  PROVE  StuckInv'
<1>0. /\ inp \in Inputs /\ th \in Threads /\ flag \in Flags /\ StuckInv
      /\ QueueCap \in Nat
  BY Typed, BoundsAssumption DEF PtyBounds, PtyInv
<1>1. CASE Pty!Host
  BY <1>0, <1>1 DEF Pty!Host, Pty!ChildMakes, Pty!ChildExits, Pty!ConsoleRenders, StuckInv
<1>2. CASE Pty!Reader
  <2>1. CASE Pty!ReadFails
    BY <1>0, <2>1 DEF Pty!ReadFails, Pty!RecordsError, StuckInv, Inputs, Threads, Quits
  <2>2. CASE Pty!ReadFile \/ Pty!ReadEnds \/ Pty!PutChunk \/ Pty!ReaderGivesUp
             \/ Pty!SetEof \/ Pty!PutMarker
    BY <1>0, <2>2 DEF Pty!ReadFile, Pty!ReadEnds, Pty!PutChunk, Pty!ReaderGivesUp,
       Pty!SetEof, Pty!PutMarker, StuckInv, Threads, Quits
  <2> QED
    BY <1>2, <2>1, <2>2 DEF Pty!Reader
<1>3. CASE Pty!Writer
  <2>1. CASE Pty!GetInput \/ Pty!WriteFile
    BY <1>0, <2>1 DEF Pty!GetInput, Pty!WriteFile, StuckInv, Inputs, Threads, Quits
  <2>2. CASE Pty!FindsNoInput \/ Pty!NoMoreInput
    BY <1>0, <2>2 DEF Pty!FindsNoInput, Pty!NoMoreInput, StuckInv, Threads, Quits
  <2>3. CASE Pty!LooksAtInput
    BY <1>0, <2>3 DEF Pty!LooksAtInput, StuckInv, Threads, Quits
  <2>4. CASE Pty!WriteFails
    BY <1>0, <2>4 DEF Pty!WriteFails, Pty!RecordsError, StuckInv, Inputs, Flags
  <2>5. CASE Pty!CountFailed \/ Pty!CloseInputHandle
    BY <1>0, <2>5 DEF Pty!CountFailed, Pty!CloseInputHandle, StuckInv, Inputs, Threads, Quits
  <2>6. CASE Pty!DiscardQueued
    BY <1>0, <2>6 DEF Pty!DiscardQueued, StuckInv, Inputs, Threads, Quits
  <2>7. CASE Pty!CountDiscarded
    BY <1>0, <2>7 DEF Pty!CountDiscarded, StuckInv, Inputs, Threads, Quits
  <2> QED
    BY <1>3, <2>1, <2>2, <2>3, <2>4, <2>5, <2>6, <2>7 DEF Pty!Writer
<1>4. CASE Pty!Resizer
  BY <1>0, <1>4 DEF Pty!Resizer, Pty!Wakes, Pty!TakesSize, Pty!Calls, Pty!ResizeReturns,
     Pty!ResizerEnds, StuckInv, Threads, Quits
<1>5. CASE Pty!Closer
  BY <1>0, <1>5 DEF Pty!Closer, Pty!OutputIsQuiet, Pty!ConsoleCloses, StuckInv, Threads, Quits
<1>6. CASE Pty!Method
  <2>1. CASE Pty!WriteChecks \/ Pty!CloseInput
    BY <1>0, <2>1 DEF Pty!WriteChecks, Pty!CloseInput, Pty!Goto, StuckInv, Inputs, Flags
  <2>2. CASE Pty!Read \/ Pty!Resize \/ Pty!Terminate
    BY <1>0, <2>2 DEF Pty!Read, Pty!Resize, Pty!Goto, Pty!Terminate, StuckInv
  <2>3. CASE Pty!BeginOutputShutdown \/ Pty!Close
    BY <1>0, <2>3 DEF Pty!BeginOutputShutdown, Pty!HandOver, Pty!Close, Pty!Goto,
       StuckInv, Flags, Threads, Quits
  <2> QED
    BY <1>6, <2>1, <2>2, <2>3 DEF Pty!Method
<1>7. CASE Pty!GoOn
  <2>1. CASE Pty!WriteCounts \/ Pty!WritePuts
    BY <1>0, <2>1 DEF Pty!WriteCounts, Pty!WritePuts, Pty!Goto, StuckInv, Inputs, Quits
  <2>2. CASE Pty!SetResizeEvent \/ Pty!CloseTerminates \/ Pty!ClosePipes \/ Pty!CloseDone
    BY <1>0, <2>2 DEF Pty!SetResizeEvent, Pty!CloseTerminates, Pty!ClosePipes,
       Pty!CloseDone, Pty!Goto, StuckInv, Flags
  <2>3. CASE Pty!CloseShutsDown \/ Pty!CloseSetsFlags
    BY <1>0, <2>3 DEF Pty!CloseShutsDown, Pty!HandOver, Pty!CloseSetsFlags, Pty!Goto,
       StuckInv, Flags, Threads, Quits
  <2> QED
    BY <1>7, <2>1, <2>2, <2>3 DEF Pty!GoOn
<1> QED
  BY <1>1, <1>2, <1>3, <1>4, <1>5, <1>6, <1>7 DEF Pty!Next

(* The invariant holds at the start, and every step keeps it.              *)
LEMMA PtyStart ==
  ASSUME PtyBounds, Pty!Init
  PROVE  PtyInv
<1> USE BoundsAssumption DEF PtyBounds, Pty!Init
<1>1. Pty!TypeOK
  BY DEF Pty!TypeOK
<1>2. PendingInv /\ StuckInv /\ ResizeInv
  BY DEF PendingInv, Pty!PendingCounts, StuckInv, Quits, ResizeInv, Pty!ResizedWhileOpen
<1>3. HeldInv /\ EndInv
  BY DEF HeldInv, EndInv, Held, InHand, ReaderDone
<1> QED BY <1>1, <1>2, <1>3 DEF PtyInv

LEMMA PtyStep ==
  ASSUME PtyBounds, PtyInv, [Pty!Next]_Pty!vars
  PROVE  PtyInv'
<1>1. CASE Pty!Next
  BY <1>1, TypeStep, PendingStep, StuckStep, ResizeStep, HeldStep, EndStep DEF PtyInv
<1>2. CASE UNCHANGED Pty!vars
  BY <1>2 DEF Pty!vars, PtyInv, Pty!TypeOK, PendingInv, Pty!PendingCounts,
    StuckInv, Quits, ResizeInv, Pty!ResizedWhileOpen, HeldInv, EndInv, Held, InHand, ReaderDone
<1> QED BY <1>1, <1>2

-----------------------------------------------------------------------------
(* The end of the output as the session tells it.                          *)
Ending == IF out.eof /\ out.cut THEN "cut"
          ELSE IF out.eof /\ out.queue = 0 THEN "complete" ELSE "open"

(* Where the reader is done and nothing was cut off, what the child made   *)
(* was got or is queued.                                                   *)
LEMMA WholeAtTheEnd ==
  ASSUME PtyBounds, PtyInv, ~out.cut, ReaderDone
  PROVE  /\ host.console = "closed"
         /\ out.got \in Nat /\ out.queue \in Nat
         /\ out.got + out.queue = host.made
<1>1. HeldInv /\ EndInv
  BY DEF PtyInv
<1>2. /\ host.console = "closed" /\ host.pipe = 0 /\ host.screen = 0
      /\ Held = host.made
  BY <1>1 DEF HeldInv, EndInv
<1>3. InHand = 0
  BY DEF InHand, ReaderDone
<1>4. out.got \in Nat /\ out.queue \in Nat
  BY Typed, BoundsAssumption DEF PtyBounds, Outputs
<1> QED BY <1>2, <1>3, <1>4 DEF Held

(* Every step of the session is a step of OutputStream, or none.           *)
LEMMA StreamStep ==
  ASSUME PtyBounds, PtyInv, Pty!Next
  PROVE  Pty!Stream!Next \/ UNCHANGED <<host.made, out.got, Ending>>
<1>0. /\ host \in Hosts /\ out \in Outputs /\ th \in Threads /\ EndInv
      /\ MaxWork \in Nat
  BY Typed, BoundsAssumption DEF PtyBounds, PtyInv
<1>1. CASE Pty!ChildMakes
  <2>1. Ending # "complete"
    BY <1>0, <1>1, WholeAtTheEnd DEF Pty!ChildMakes, Ending, EndInv, ReaderDone
  <2>2. host.made < MaxWork
    BY <1>0, <1>1, Typed DEF Pty!ChildMakes, Pty!Works, Inputs, Sizes, Hosts
  <2>3. host'.made = host.made + 1 /\ out' = out
    BY <1>0, <1>1 DEF Pty!ChildMakes, Hosts
  <2>4. Pty!Stream!Make
    BY <2>1, <2>2, <2>3 DEF Pty!Stream!Make, Ending
  <2> QED BY <2>4 DEF Pty!Stream!Next
<1>2. CASE Pty!Read
  <2>1. host' = host
    BY <1>2 DEF Pty!Read
  <2>2. CASE /\ out.queue > 0
             /\ out' = [out EXCEPT !.queue = out.queue - 1, !.got = out.got + 1]
    <3>1. /\ out'.queue = out.queue - 1 /\ out'.got = out.got + 1
          /\ out'.eof = out.eof /\ out'.cut = out.cut
          /\ out.queue \in Nat /\ out.got \in Nat
      BY <1>0, <2>2, BoundsAssumption DEF PtyBounds, Outputs
    <3>2. CASE out.eof /\ ~out.cut /\ out.queue = 1
      <4>1. out.got + 1 = host.made
        BY <1>0, <3>2, WholeAtTheEnd DEF EndInv, ReaderDone
      <4>2. Ending = "open" /\ Ending' = "complete"
        BY <3>1, <3>2 DEF Ending
      <4>3. Pty!Stream!Complete
        BY <2>1, <3>1, <4>1, <4>2 DEF Pty!Stream!Complete, Ending
      <4> QED BY <4>3 DEF Pty!Stream!Next
    <3>3. CASE ~(out.eof /\ ~out.cut /\ out.queue = 1)
      <4>1. Ending' = Ending /\ Ending # "complete"
        BY <2>2, <3>1, <3>3 DEF Ending
      <4>2. out.got < host.made
        BY <2>2, <3>1, Counts DEF Held
      <4>3. Pty!Stream!Get
        BY <2>1, <3>1, <4>1, <4>2 DEF Pty!Stream!Get, Ending
      <4> QED BY <4>3 DEF Pty!Stream!Next
    <3> QED BY <3>2, <3>3
  <2>3. CASE out.marker /\ out' = [out EXCEPT !.marker = FALSE, !.eof = TRUE]
    <3>1. out.eof
      BY <1>0, <2>3 DEF EndInv
    <3>2. /\ out'.queue = out.queue /\ out'.got = out.got
          /\ out'.eof = out.eof /\ out'.cut = out.cut
      BY <1>0, <2>3, <3>1 DEF Outputs
    <3> QED BY <2>1, <3>2 DEF Ending
  <2> QED BY <1>2, <2>2, <2>3 DEF Pty!Read
<1>3. CASE Pty!SetEof
  <2>1. /\ host' = host /\ out'.queue = out.queue /\ out'.got = out.got
        /\ out'.eof = TRUE /\ out'.cut = out.cut
    BY <1>0, <1>3 DEF Pty!SetEof, Outputs
  <2>2. CASE out.eof
    BY <1>0, <2>1, <2>2 DEF Ending, Outputs
  <2>3. CASE ~out.eof /\ out.cut
    BY <2>1, <2>3 DEF Ending, Pty!Stream!Cut, Pty!Stream!Next
  <2>4. CASE ~out.eof /\ ~out.cut /\ out.queue = 0
    <3>1. out.got = host.made /\ out.got \in Nat
      BY <1>3, <2>4, WholeAtTheEnd DEF Pty!SetEof, ReaderDone
    <3>2. Pty!Stream!Complete
      BY <2>1, <2>4, <3>1 DEF Pty!Stream!Complete
    <3> QED BY <3>2 DEF Pty!Stream!Next
  <2>5. CASE ~out.eof /\ ~out.cut /\ out.queue # 0
    BY <2>1, <2>5 DEF Ending
  <2> QED BY <2>2, <2>3, <2>4, <2>5
<1>4. CASE Pty!ReadFails \/ Pty!ReaderGivesUp \/ Pty!PutChunk
  <2>1. /\ host' = host /\ out'.got = out.got /\ out'.eof = out.eof
        /\ out'.cut = out.cut \/ out'.cut = TRUE
    BY <1>0, <1>4 DEF Pty!ReadFails, Pty!ReaderGivesUp, Pty!PutChunk, Outputs
  <2>2. out.eof => out.cut
    BY <1>0, <1>4 DEF Pty!ReadFails, Pty!ReaderGivesUp, Pty!PutChunk, EndInv
  <2> QED BY <2>1, <2>2 DEF Ending
<1>5. CASE Pty!CloseDone
  <2>1. /\ host' = host /\ out'.queue = out.queue /\ out'.got = out.got
        /\ out'.eof = TRUE /\ out'.cut = (out.cut \/ ~out.eof)
    BY <1>0, <1>5 DEF Pty!CloseDone, Outputs
  <2>2. CASE out.eof
    BY <1>0, <2>1, <2>2 DEF Ending, Outputs
  <2>3. CASE ~out.eof
    BY <2>1, <2>3 DEF Ending, Pty!Stream!Cut, Pty!Stream!Next
  <2> QED BY <2>2, <2>3
<1>6. CASE Pty!PutMarker
  <2>1. PICK m \in BOOLEAN : out' = [out EXCEPT !.marker = m]
    BY <1>6 DEF Pty!PutMarker
  <2> QED BY <1>0, <1>6, <2>1 DEF Pty!PutMarker, Outputs, Ending
<1>7. ASSUME ~Pty!ChildMakes, ~Pty!Read, ~Pty!SetEof, ~Pty!ReadFails,
  ~Pty!ReaderGivesUp, ~Pty!PutChunk,
             ~Pty!CloseDone, ~Pty!PutMarker
      PROVE  UNCHANGED <<host.made, out.got, Ending>>
  <2>1. out' = out
    BY <1>7 DEF Pty!Next, Pty!Host, Pty!Reader, Pty!Writer, Pty!Resizer,
      Pty!Closer, Pty!Method, Pty!GoOn, Pty!ChildExits, Pty!ConsoleRenders,
      Pty!ReadFile, Pty!ReadEnds, Pty!GetInput, Pty!FindsNoInput,
      Pty!LooksAtInput, Pty!NoMoreInput, Pty!WriteFile,
      Pty!WriteFails, Pty!CountFailed, Pty!DiscardQueued, Pty!CountDiscarded,
      Pty!CloseInputHandle, Pty!Wakes, Pty!TakesSize, Pty!Calls,
      Pty!ResizeReturns, Pty!ResizerEnds, Pty!OutputIsQuiet, Pty!ConsoleCloses,
      Pty!WriteChecks, Pty!CloseInput, Pty!Resize, Pty!Terminate,
      Pty!BeginOutputShutdown, Pty!Close, Pty!WriteCounts, Pty!WritePuts,
      Pty!SetResizeEvent, Pty!CloseTerminates, Pty!CloseShutsDown,
      Pty!CloseSetsFlags, Pty!ClosePipes
  <2>2. host'.made = host.made
    BY <1>0, <1>7 DEF Pty!Next, Pty!Host, Pty!Reader, Pty!Writer, Pty!Resizer,
      Pty!Closer, Pty!Method, Pty!GoOn, Pty!ChildExits, Pty!ConsoleRenders,
      Pty!ReadFile, Pty!ReadEnds, Pty!GetInput, Pty!FindsNoInput,
      Pty!LooksAtInput, Pty!NoMoreInput, Pty!WriteFile,
      Pty!WriteFails, Pty!CountFailed, Pty!DiscardQueued, Pty!CountDiscarded,
      Pty!CloseInputHandle, Pty!Wakes, Pty!TakesSize, Pty!Calls,
      Pty!ResizeReturns, Pty!ResizerEnds, Pty!OutputIsQuiet, Pty!ConsoleCloses,
      Pty!WriteChecks, Pty!CloseInput, Pty!Resize, Pty!Terminate,
      Pty!BeginOutputShutdown, Pty!Close, Pty!WriteCounts, Pty!WritePuts,
      Pty!SetResizeEvent, Pty!CloseTerminates, Pty!CloseShutsDown,
      Pty!CloseSetsFlags, Pty!ClosePipes, Pty!HandOver, Hosts
  <2> QED BY <2>1, <2>2 DEF Ending
<1> QED
  BY <1>1, <1>2, <1>3, <1>4, <1>5, <1>6, <1>7

-----------------------------------------------------------------------------
(* The invariant of a session, for any bounds.                             *)
THEOREM SessionInvariant == ASSUME PtyBounds PROVE Pty!Spec => []PtyInv
<1>1. Pty!Init => PtyInv
  BY PtyStart
<1>2. PtyInv /\ [Pty!Next]_Pty!vars => PtyInv'
  BY PtyStep
<1> QED
  BY <1>1, <1>2, PTL DEF Pty!Spec

(* flush() counts what is queued, written and about to be queued to the    *)
(* unit, finds an error wherever nobody will lower the count any more, and *)
(* the console is never resized once it was handed to its closer.          *)
THEOREM SessionsAreConsistent ==
  ASSUME PtyBounds PROVE Pty!Spec => []Pty!SessionConsistent
<1>1. ASSUME PtyBounds, PtyInv PROVE Pty!SessionConsistent
  <2>1. inp \in Inputs
    BY <1>1, Typed
  <2>2. Pty!StuckIsTold
    BY <1>1, <2>1 DEF PtyInv, PendingInv, Pty!PendingCounts, StuckInv, Quits, Inputs,
       Pty!StuckIsTold
  <2> QED
    BY <1>1, <2>2 DEF PtyInv, PendingInv, ResizeInv, Pty!SessionConsistent
<1> QED
  BY <1>1, SessionInvariant, PTL

(* What the owner reads up to the end of the output is all the child made, *)
(* unless the session failed or was closed: it implements OutputStream.    *)
THEOREM OutputIsWhole == ASSUME PtyBounds PROVE Pty!Spec => Pty!AbstractSpec
<1>1. Pty!Init => Pty!Stream!Init
  BY DEF Pty!Init, Pty!Stream!Init
<1>2. PtyInv /\ [Pty!Next]_Pty!vars => [Pty!Stream!Next]_Pty!Stream!vars
  <2>1. ASSUME PtyInv, Pty!Next PROVE [Pty!Stream!Next]_Pty!Stream!vars
    BY <2>1, StreamStep DEF Ending, Pty!Stream!vars
  <2>2. UNCHANGED Pty!vars => UNCHANGED Pty!Stream!vars
    BY DEF Pty!vars, Pty!Stream!vars
  <2> QED BY <2>1, <2>2
<1> QED
  BY <1>1, <1>2, SessionInvariant, PTL
    DEF Pty!Spec, Pty!AbstractSpec, Pty!Stream!Spec
-----------------------------------------------------------------------------
(* QtHiddenProcess, the instance Hid of HiddenProcess, for any number of   *)
(* runs, chunks and payloads, and an owner that starts it whenever it      *)
(* answers that nothing runs: runs have no part in one another, the end of *)
(* a run comes last, and the object keeps the contract of HelperRun.       *)

CONSTANT InputCap
VARIABLES shared, child, work

Hid == INSTANCE HiddenProcess

HidBounds == MaxWork \in Nat /\ InputCap \in Nat \ {0}

(* A generation is the last run's or nobody's, and the state is that of    *)
(* the current generation.                                                 *)
FenceInv ==
  /\ shared.current \in {0, run}
  /\ shared.disposed => shared.current = 0 /\ q.state = "NotRunning" /\ q.gui = "loop"
  /\ q.gui = "start" => q.state = "NotRunning" /\ run < MaxRuns
  /\ q.state = "Starting" => shared.current = run /\ run # 0
  /\ shared.early % 2 <= work
  /\ Hid!OnlyTheCurrentRun

(* A child comes from its worker, and the other threads after it.          *)
WorkerOf(r) ==
  /\ r > run => th[r].worker = "none"
  /\ th[r].worker \in {"creating", "created"} /\ ~Hid!StaleWorker(r) =>
       q.state = "Starting" /\ shared.pending = 0
  /\ th[r].worker \in {"none", "creating"} => child[r].life = "absent"
  /\ th[r].worker # "done" => th[r].waiter = "none"
  /\ shared.pending = r => th[r].worker = "done"

(* A waiter that has not cleared the object's process has it for itself.   *)
WaiterOf(r) ==
  /\ th[r].waiter = "none" <=> th[r].reader = "none"
  /\ th[r].waiter \in {"wait", "join", "check", "clear"} => q.proc = r \/ shared.disposed
  /\ th[r].waiter # "none" /\ r = run => shared.current = r \/ shared.disposed
  /\ q.state = "Starting" /\ r = run => th[r].waiter = "none"

(* The object's process has a waiter, and its input is counted.            *)
ProcessOf(r) ==
  /\ q.proc = r => /\ th[r].worker = "done" /\ child[r].life # "absent"
                   /\ th[r].waiter \in {"wait", "join", "check", "clear"}
                   /\ shared.unwritten <=
                        child[r].input + (IF th[r].writer = "write" THEN 1 ELSE 0)
  /\ child[r].pipe <= work /\ child[r].input <= work
  /\ child[r].life = "running" /\ th[r].waiter \in {"none", "wait"} =>
       th[r].worker = "created" \/ shared.pending = r \/ q.proc = r \/ child[r].closer

RunsInv ==
  /\ Hid!TypeOK
  /\ FenceInv
  /\ \A r \in Hid!Runs : WorkerOf(r) /\ WaiterOf(r) /\ ProcessOf(r)

(* All that an owner can have been told of a run.                          *)
Tolds == {<<>>, <<"started">>, <<"error">>, <<"finished">>, <<"closed">>,
          <<"started", "finished">>, <<"started", "closed">>}
Announced == {<<"started">>, <<"started", "finished">>, <<"started", "closed">>}
ToldOfEnd == told \notin {<<>>, <<"started">>}

(* What the owner was told, beside the state.  An end of a former run can  *)
(* be on its way only after a rushed start.                                *)
OwnerInv ==
  /\ told \in Tolds
  /\ run = 0 => told = <<>>
  /\ q.state = "Starting" => told = <<>>
  /\ q.state = "Running" => told = <<"started">>
  /\ told = <<>> => run = 0 \/ q.state = "Starting"
  /\ shared.event /\ q.gui = "loop" => run = 0 \/ ToldOfEnd \/ shared.finished = run
  /\ shared.disposed => run = 0 \/ ToldOfEnd
  /\ shared.finished # 0 /\ shared.finished = run =>
       told = <<"started">> /\ q.state = "NotRunning"
  /\ shared.finished \notin {0, run} => q.gui = "loop" /\ q.rushed
  /\ q.stray /\ q.gui = "loop" => q.rushed
  /\ q.gui = "start" /\ shared.finished # 0 => q.rushed
  /\ shared.own # 0 => shared.output \/ shared.disposed
  /\ shared.disposed => ~shared.output

(* What the threads of the last run have to do with its end: they tell it  *)
(* when no output of the run is left.                                      *)
EndOf(r) ==
  r = run =>
    /\ th[r].waiter \notin {"none", "wait", "join"} =>
         \/ th[r].reader = "ended" \/ shared.cut
         \/ shared.disposed /\ told # <<"started", "finished">>
    /\ th[r].waiter \in {"wait", "join", "check", "clear", "notify"} =>
         told = <<"started">> \/ shared.disposed
    /\ th[r].waiter = "signal" =>
         ToldOfEnd \/ shared.finished = run \/ q.gui = "start"
    /\ th[r].waiter = "notify" /\ q.gui = "start" => q.rushed
    /\ th[r].waiter # "none" <=> told \in Announced
    /\ shared.finished = run => th[r].waiter \in {"signal", "done"}
    /\ told = <<"started", "finished">> => th[r].waiter \in {"signal", "done"}
    /\ th[r].reader = "ended" /\ ~shared.cut =>
         \/ told = <<"started", "closed">>
         \/ child[r].pipe = 0 /\ (told = <<"started", "finished">> => shared.own = 0)

EndsInv == OwnerInv /\ \A r \in Hid!Runs : EndOf(r)

HiddenInv == RunsInv /\ EndsInv

(* The records of the type invariant, by name.                             *)
Objects == [state : {"NotRunning", "Starting", "Running"}, proc : 0 .. MaxRuns,
            startupTimer : BOOLEAN, noteTimer : BOOLEAN, gui : {"loop", "start"},
            rushed : BOOLEAN, stray : BOOLEAN]
Shareds == [current : 0 .. MaxRuns, disposed : BOOLEAN, pending : 0 .. MaxRuns,
            early : 0 .. 3, paused : BOOLEAN, own : Nat, cut : BOOLEAN, closing : BOOLEAN,
            unwritten : 0 .. InputCap, output : BOOLEAN, finished : 0 .. MaxRuns,
            event : BOOLEAN]
Ths == [worker : {"none", "creating", "created", "done"},
        writer : {"none", "get", "write", "end", "ended"},
        reader : {"none", "gate", "read", "extend", "ended"},
        waiter : {"none", "wait", "join", "check", "clear", "notify", "signal", "done"}]
Children == [life : {"absent", "running", "exited"}, pipe : 0 .. MaxWork,
             input : 0 .. MaxWork, closer : BOOLEAN]

(* The type invariant by its records.                                      *)
LEMMA TypedObject ==
  ASSUME RunsInv
  PROVE  /\ q \in Objects /\ shared \in Shareds
         /\ th \in [Hid!Runs -> Ths] /\ child \in [Hid!Runs -> Children]
  BY DEF RunsInv, Hid!TypeOK, Objects, Shareds, Ths, Children

(* The ranges of the numbers, for the arithmetic of the steps.             *)
LEMMA Numbers ==
  ASSUME HidBounds, RunsInv
  PROVE  /\ run \in 0 .. MaxRuns /\ work \in 0 .. MaxWork
         /\ MaxRuns \in Nat \ {0} /\ MaxWork \in Nat /\ InputCap \in Nat \ {0}
         /\ 0 \in 0 .. MaxRuns /\ 0 \in 0 .. MaxWork
         /\ 0 \in 0 .. InputCap /\ 0 \in 0 .. 3
         /\ q.proc \in 0 .. MaxRuns /\ shared.pending \in 0 .. MaxRuns
         /\ shared.unwritten \in 0 .. InputCap /\ shared.own \in Nat
         /\ shared.early \in 0 .. 3
         /\ \A s \in Hid!Runs : /\ s \in 1 .. MaxRuns
                                /\ child[s].pipe \in 0 .. MaxWork
                                /\ child[s].input \in 0 .. MaxWork
<1>1. run \in 0 .. MaxRuns /\ work \in 0 .. MaxWork
  BY DEF RunsInv, Hid!TypeOK
<1>2. q.proc \in 0 .. MaxRuns
  BY TypedObject DEF Objects
<1>3. /\ shared.unwritten \in 0 .. InputCap /\ shared.own \in Nat
      /\ shared.early \in 0 .. 3 /\ shared.pending \in 0 .. MaxRuns
  BY TypedObject DEF Shareds
<1>4. \A s \in Hid!Runs : /\ child[s].pipe \in 0 .. MaxWork
                           /\ child[s].input \in 0 .. MaxWork
  BY TypedObject DEF Children
<1> QED
  BY <1>1, <1>2, <1>3, <1>4, BoundsAssumption DEF HidBounds, Hid!Runs

(* Of early input, what its parity says: is there a payload?               *)
LEMMA EarlyInput ==
  ASSUME NEW n \in 0 .. 3
  PROVE  /\ n % 2 \in {0, 1} /\ (n + 1) % 2 \in {0, 1} /\ (n < 2 => (n + 2) % 2 = n % 2)
<1>1. n = 0 \/ n = 1 \/ n = 2 \/ n = 3
  OBVIOUS
<1> QED BY <1>1

(* A step that leaves a run's threads and child as they are keeps what is  *)
(* said of them, if the object's run stays the same.                       *)
LEMMA OthersKeep ==
  ASSUME HidBounds, RunsInv, NEW s \in Hid!Runs, th'[s] = th[s], child'[s] = child[s],
         run' = run, q'.proc = q.proc, q'.state = q.state, shared'.current = shared.current,
         shared'.disposed = shared.disposed, shared'.pending = shared.pending,
         shared'.unwritten <= shared.unwritten \/ q.proc # s,
         shared'.unwritten \in Nat, work' \in Nat, work <= work'
  PROVE  (WorkerOf(s) /\ WaiterOf(s) /\ ProcessOf(s))'
<1>1. WorkerOf(s) /\ WaiterOf(s) /\ ProcessOf(s)
  BY DEF RunsInv
<1>2. /\ shared.unwritten \in Nat /\ child[s].pipe \in Nat /\ child[s].input \in Nat
      /\ work \in Nat
  BY Numbers
<1>3. WorkerOf(s)' /\ WaiterOf(s)'
  BY <1>1 DEF WorkerOf, WaiterOf, Hid!StaleWorker
<1>4. ProcessOf(s)'
  BY <1>1, <1>2 DEF ProcessOf
<1> QED BY <1>3, <1>4

(* The same for a step of the threads and the child of one run.            *)
LEMMA LocalKeeps ==
  ASSUME HidBounds, RunsInv, NEW r \in Hid!Runs, run' = run, q' = q, shared' \in Shareds,
         shared'.current = shared.current, shared'.disposed = shared.disposed,
         shared'.pending = shared.pending, shared'.early = shared.early,
         shared'.unwritten <= shared.unwritten,
         work' \in 0 .. MaxWork, work <= work',
         th' \in [Hid!Runs -> Ths], child' \in [Hid!Runs -> Children],
         \A s \in Hid!Runs \ {r} : th'[s] = th[s] /\ child'[s] = child[s],
         (WorkerOf(r) /\ WaiterOf(r) /\ ProcessOf(r))'
  PROVE  RunsInv'
<1>0. /\ FenceInv /\ q \in Objects /\ run \in 0 .. MaxRuns /\ MaxWork \in Nat
      /\ work \in 0 .. MaxWork /\ shared'.unwritten \in Nat
  BY TypedObject, Numbers DEF RunsInv, Shareds
<1>1. Hid!TypeOK'
  BY <1>0 DEF Hid!TypeOK, Objects, Shareds, Ths, Children
<1>2. shared.early % 2 \in Nat
  BY Numbers, EarlyInput
<1>3. FenceInv'
  BY <1>0, <1>2 DEF FenceInv, Hid!OnlyTheCurrentRun, Hid!StaleWorker
<1>4. ASSUME NEW s \in Hid!Runs PROVE (WorkerOf(s) /\ WaiterOf(s) /\ ProcessOf(s))'
  BY <1>0, OthersKeep
<1> QED BY <1>1, <1>3, <1>4 DEF RunsInv

(* What the owner was told is kept with it, for the other runs.            *)
LEMMA LocalEnds ==
  ASSUME HidBounds, EndsInv, NEW r \in Hid!Runs, run' = run, q' = q, told' = told,
         shared'.disposed = shared.disposed,
         r # run => /\ shared'.finished = shared.finished /\ shared'.own = shared.own
                    /\ shared'.cut = shared.cut,
         \A s \in Hid!Runs \ {r} : th'[s] = th[s] /\ child'[s] = child[s],
         OwnerInv', EndOf(r)'
  PROVE  EndsInv'
<1>1. ASSUME NEW s \in Hid!Runs, s # r PROVE EndOf(s)'
  <2>1. EndOf(s) /\ th'[s] = th[s] /\ child'[s] = child[s]
    BY <1>1 DEF EndsInv
  <2>2. s = run => /\ shared'.finished = shared.finished /\ shared'.own = shared.own
                   /\ shared'.cut = shared.cut
    BY <1>1
  <2> QED BY <2>1, <2>2 DEF EndOf, ToldOfEnd
<1> QED BY <1>1 DEF EndsInv

(* A child and its helper touch nothing but the child's own record.        *)
LEMMA ChildKeeps ==
  ASSUME HidBounds, HiddenInv, NEW r \in Hid!Runs, Hid!Child(r)
  PROVE  HiddenInv'
<1> RunsInv
  BY DEF HiddenInv
<1>1. shared \in Shareds /\ th \in [Hid!Runs -> Ths] /\ child \in [Hid!Runs -> Children]
  BY TypedObject
<1>2. /\ run \in 0 .. MaxRuns /\ work \in 0 .. MaxWork /\ MaxRuns \in Nat
      /\ MaxWork \in Nat /\ InputCap \in Nat /\ r \in 1 .. MaxRuns
      /\ 0 \in 0 .. MaxWork /\ 0 \in 0 .. InputCap
      /\ child[r].pipe \in 0 .. MaxWork /\ child[r].input \in 0 .. MaxWork
      /\ shared.unwritten \in 0 .. InputCap /\ shared.own \in Nat
      /\ shared.finished \in 0 .. MaxRuns
      /\ q.state \in {"NotRunning", "Starting", "Running"}
  BY <1>1, TypedObject, Numbers DEF Shareds, Objects
<1>3. FenceInv /\ WorkerOf(r) /\ WaiterOf(r) /\ ProcessOf(r)
  BY DEF RunsInv
<1>4. CASE Hid!ChildWrites(r)
  <2>1. /\ child[r].life # "absent"
        /\ ~shared.disposed
        /\ th[r].reader # "ended"
        /\ work < MaxWork
        /\ work' = work + 1
        /\ shared' = shared
    BY <1>1, <1>4 DEF Hid!ChildWrites, Hid!At, Hid!Works
  <2>2. th' = th
    BY <1>4 DEF Hid!ChildWrites, Hid!At, Hid!Works
  <2> DEFINE c == [child[r] EXCEPT !.pipe = child[r].pipe + 1]
  <2>3. c \in Children
    <3>1. child[r].pipe + 1 \in 0 .. MaxWork
      BY <1>2, <1>3, <2>1 DEF ProcessOf
    <3> QED BY <1>1, <3>1 DEF Children
  <2>4. child' = [child EXCEPT ![r] = c]
    BY <1>1, <1>4 DEF Hid!ChildWrites, Hid!At, Hid!Works
  <2>5. /\ child' \in [Hid!Runs -> Children] /\ child'[r] = c
       /\ \A s \in Hid!Runs \ {r} : child'[s] = child[s]
    BY <1>1, <2>3, <2>4
  <2>6. /\ child'[r].life = child[r].life
        /\ child'[r].pipe = child[r].pipe + 1
        /\ child'[r].input = child[r].input
        /\ child'[r].closer = child[r].closer
    BY <1>1, <2>5 DEF Children
  <2>7. run' = run /\ q' = q /\ work' \in 0 .. MaxWork /\ work <= work'
    BY <1>2, <1>4 DEF Hid!ChildWrites, Hid!At, Hid!Works
  <2>8. (WorkerOf(r) /\ WaiterOf(r) /\ ProcessOf(r))'
    BY <1>2, <1>3, <2>1, <2>2, <2>6, <2>7
      DEF WorkerOf, WaiterOf, ProcessOf, Hid!StaleWorker
  <2>9. RunsInv'
    BY <1>1, <1>2, <2>1, <2>2, <2>5, <2>7, <2>8, LocalKeeps
  <2>10. ASSUME EndsInv PROVE EndsInv'
    <3>1. OwnerInv /\ EndOf(r) /\ told' = told
      BY <1>4, <2>10 DEF EndsInv, Hid!ChildWrites, Hid!At, Hid!Works
    <3>2. OwnerInv' /\ EndOf(r)'
      <4>1. OwnerInv'
        BY <2>1, <2>7, <3>1 DEF OwnerInv, ToldOfEnd
      <4>2. EndOf(r)'
        BY <2>1, <2>2, <2>7, <3>1 DEF EndOf, ToldOfEnd
      <4> QED BY <4>1, <4>2
    <3> QED BY <2>1, <2>2, <2>5, <2>7, <2>10, <3>1, <3>2, LocalEnds
  <2> QED BY <2>9, <2>10 DEF HiddenInv
<1>5. CASE Hid!ChildExits(r)
  <2>1. /\ child[r].life = "running"
        /\ shared' = shared
    BY <1>1, <1>5 DEF Hid!ChildExits
  <2>2. th' = th
    BY <1>5 DEF Hid!ChildExits
  <2> DEFINE c == [child[r] EXCEPT !.life = "exited"]
  <2>3. c \in Children
    BY <1>1, <1>2 DEF Children
  <2>4. child' = [child EXCEPT ![r] = c]
    BY <1>1, <1>5 DEF Hid!ChildExits
  <2>5. /\ child' \in [Hid!Runs -> Children] /\ child'[r] = c
       /\ \A s \in Hid!Runs \ {r} : child'[s] = child[s]
    BY <1>1, <2>3, <2>4
  <2>6. /\ child'[r].life = "exited"
        /\ child'[r].pipe = child[r].pipe
        /\ child'[r].input = child[r].input
        /\ child'[r].closer = child[r].closer
    BY <1>1, <2>5 DEF Children
  <2>7. run' = run /\ q' = q /\ work' = work
    BY <1>2, <1>5 DEF Hid!ChildExits
  <2>8. (WorkerOf(r) /\ WaiterOf(r) /\ ProcessOf(r))'
    BY <1>3, <2>1, <2>2, <2>6, <2>7 DEF WorkerOf, WaiterOf, ProcessOf, Hid!StaleWorker
  <2>9. RunsInv'
    BY <1>1, <1>2, <2>1, <2>2, <2>5, <2>7, <2>8, LocalKeeps
  <2>10. ASSUME EndsInv PROVE EndsInv'
    <3>1. OwnerInv /\ EndOf(r) /\ told' = told
      BY <1>5, <2>10 DEF EndsInv, Hid!ChildExits
    <3>2. OwnerInv' /\ EndOf(r)'
      <4>1. OwnerInv'
        BY <2>1, <2>7, <3>1 DEF OwnerInv, ToldOfEnd
      <4>2. EndOf(r)'
        BY <2>1, <2>2, <2>6, <2>7, <3>1 DEF EndOf, ToldOfEnd
      <4> QED BY <4>1, <4>2
    <3> QED BY <2>1, <2>2, <2>5, <2>7, <2>10, <3>1, <3>2, LocalEnds
  <2> QED BY <2>9, <2>10 DEF HiddenInv
<1>6. CASE Hid!CloserKills(r)
  <2>1. /\ child[r].life = "running"
        /\ shared' = shared
    BY <1>1, <1>6 DEF Hid!CloserKills
  <2>2. th' = th
    BY <1>6 DEF Hid!CloserKills
  <2> DEFINE c == [child[r] EXCEPT !.life = "exited"]
  <2>3. c \in Children
    BY <1>1, <1>2 DEF Children
  <2>4. child' = [child EXCEPT ![r] = c]
    BY <1>1, <1>6 DEF Hid!CloserKills
  <2>5. /\ child' \in [Hid!Runs -> Children] /\ child'[r] = c
       /\ \A s \in Hid!Runs \ {r} : child'[s] = child[s]
    BY <1>1, <2>3, <2>4
  <2>6. /\ child'[r].life = "exited"
        /\ child'[r].pipe = child[r].pipe
        /\ child'[r].input = child[r].input
        /\ child'[r].closer = child[r].closer
    BY <1>1, <2>5 DEF Children
  <2>7. run' = run /\ q' = q /\ work' = work
    BY <1>2, <1>6 DEF Hid!CloserKills
  <2>8. (WorkerOf(r) /\ WaiterOf(r) /\ ProcessOf(r))'
    BY <1>3, <2>1, <2>2, <2>6, <2>7 DEF WorkerOf, WaiterOf, ProcessOf, Hid!StaleWorker
  <2>9. RunsInv'
    BY <1>1, <1>2, <2>1, <2>2, <2>5, <2>7, <2>8, LocalKeeps
  <2>10. ASSUME EndsInv PROVE EndsInv'
    <3>1. OwnerInv /\ EndOf(r) /\ told' = told
      BY <1>6, <2>10 DEF EndsInv, Hid!CloserKills
    <3>2. OwnerInv' /\ EndOf(r)'
      <4>1. OwnerInv'
        BY <2>1, <2>7, <3>1 DEF OwnerInv, ToldOfEnd
      <4>2. EndOf(r)'
        BY <2>1, <2>2, <2>6, <2>7, <3>1 DEF EndOf, ToldOfEnd
      <4> QED BY <4>1, <4>2
    <3> QED BY <2>1, <2>2, <2>5, <2>7, <2>10, <3>1, <3>2, LocalEnds
  <2> QED BY <2>9, <2>10 DEF HiddenInv
<1> QED BY <1>4, <1>5, <1>6 DEF Hid!Child

(* A worker that creates its child.                                        *)
LEMMA WorkerKeeps ==
  ASSUME HidBounds, HiddenInv, NEW r \in Hid!Runs, Hid!Worker(r), ~Hid!WorkerDelivers(r)
  PROVE  HiddenInv'
<1> RunsInv
  BY DEF HiddenInv
<1>1. shared \in Shareds /\ th \in [Hid!Runs -> Ths] /\ child \in [Hid!Runs -> Children]
  BY TypedObject
<1>2. /\ run \in 0 .. MaxRuns /\ work \in 0 .. MaxWork /\ MaxRuns \in Nat
      /\ MaxWork \in Nat /\ InputCap \in Nat /\ r \in 1 .. MaxRuns
      /\ 0 \in 0 .. MaxWork /\ 0 \in 0 .. InputCap
      /\ child[r].pipe \in 0 .. MaxWork /\ child[r].input \in 0 .. MaxWork
      /\ shared.unwritten \in 0 .. InputCap /\ shared.own \in Nat
      /\ shared.finished \in 0 .. MaxRuns
      /\ q.state \in {"NotRunning", "Starting", "Running"}
  BY <1>1, TypedObject, Numbers DEF Shareds, Objects
<1>3. FenceInv /\ WorkerOf(r) /\ WaiterOf(r) /\ ProcessOf(r)
  BY DEF RunsInv
<1>4. CASE Hid!WorkerCreates(r)
  <2>c. PICK life \in {"running", "absent"} : child' = [child EXCEPT ![r].life = life]
    BY <1>4 DEF Hid!WorkerCreates, Hid!At, Hid!Move
  <2>1. /\ th[r].worker = "creating"
        /\ shared' = shared
    BY <1>1, <1>4, <2>c DEF Hid!WorkerCreates, Hid!At, Hid!Move
  <2> DEFINE t == [th[r] EXCEPT !.worker = "created"]
  <2>2. t \in Ths
    BY <1>1, <1>2 DEF Ths
  <2>3. th' = [th EXCEPT ![r] = t]
    BY <1>1, <1>4, <2>c DEF Hid!WorkerCreates, Hid!At, Hid!Move
  <2>4. /\ th' \in [Hid!Runs -> Ths] /\ th'[r] = t
       /\ \A s \in Hid!Runs \ {r} : th'[s] = th[s]
    BY <1>1, <2>2, <2>3
  <2>5. /\ th'[r].worker = "created"
        /\ th'[r].writer = th[r].writer
        /\ th'[r].reader = th[r].reader
        /\ th'[r].waiter = th[r].waiter
    BY <1>1, <2>4 DEF Ths
  <2> DEFINE c == [child[r] EXCEPT !.life = life]
  <2>6. c \in Children
    BY <1>1, <1>2 DEF Children
  <2>7. child' = [child EXCEPT ![r] = c]
    BY <1>1, <1>4, <2>c DEF Hid!WorkerCreates, Hid!At, Hid!Move
  <2>8. /\ child' \in [Hid!Runs -> Children] /\ child'[r] = c
       /\ \A s \in Hid!Runs \ {r} : child'[s] = child[s]
    BY <1>1, <2>6, <2>7
  <2>9. /\ child'[r].life = life
         /\ child'[r].pipe = child[r].pipe
         /\ child'[r].input = child[r].input
         /\ child'[r].closer = child[r].closer
    BY <1>1, <2>8 DEF Children
  <2>10. run' = run /\ q' = q /\ work' = work
    BY <1>2, <1>4, <2>c DEF Hid!WorkerCreates, Hid!At, Hid!Move
  <2>11. (WorkerOf(r) /\ WaiterOf(r) /\ ProcessOf(r))'
    BY <1>3, <2>1, <2>5, <2>9, <2>10 DEF WorkerOf, WaiterOf, ProcessOf, Hid!StaleWorker
  <2>12. RunsInv'
    BY <1>1, <1>2, <2>1, <2>4, <2>8, <2>10, <2>11, LocalKeeps
  <2>13. ASSUME EndsInv PROVE EndsInv'
    <3>1. OwnerInv /\ EndOf(r) /\ told' = told
      BY <1>4, <2>c, <2>13 DEF EndsInv, Hid!WorkerCreates, Hid!At, Hid!Move
    <3>2. OwnerInv' /\ EndOf(r)'
      <4>1. OwnerInv'
        BY <2>1, <2>10, <3>1 DEF OwnerInv, ToldOfEnd
      <4>2. EndOf(r)'
        BY <2>1, <2>5, <2>9, <2>10, <3>1 DEF EndOf, ToldOfEnd
      <4> QED BY <4>1, <4>2
    <3> QED BY <2>1, <2>4, <2>8, <2>10, <2>13, <3>1, <3>2, LocalEnds
  <2> QED BY <2>12, <2>13 DEF HiddenInv
<1> QED BY <1>4 DEF Hid!Worker

(* A writer, current or not, may only count a payload down: the count can  *)
(* fall below what is queued, never exceed it.                             *)
LEMMA WriterKeeps ==
  ASSUME HidBounds, HiddenInv, NEW r \in Hid!Runs, Hid!Writer(r)
  PROVE  HiddenInv'
<1> RunsInv
  BY DEF HiddenInv
<1>1. shared \in Shareds /\ th \in [Hid!Runs -> Ths] /\ child \in [Hid!Runs -> Children]
  BY TypedObject
<1>2. /\ run \in 0 .. MaxRuns /\ work \in 0 .. MaxWork /\ MaxRuns \in Nat
      /\ MaxWork \in Nat /\ InputCap \in Nat /\ r \in 1 .. MaxRuns
      /\ 0 \in 0 .. MaxWork /\ 0 \in 0 .. InputCap
      /\ child[r].pipe \in 0 .. MaxWork /\ child[r].input \in 0 .. MaxWork
      /\ shared.unwritten \in 0 .. InputCap /\ shared.own \in Nat
      /\ shared.finished \in 0 .. MaxRuns
      /\ q.state \in {"NotRunning", "Starting", "Running"}
  BY <1>1, TypedObject, Numbers DEF Shareds, Objects
<1>3. FenceInv /\ WorkerOf(r) /\ WaiterOf(r) /\ ProcessOf(r)
  BY DEF RunsInv
<1>4. CASE Hid!WriterGets(r)
  <2>1. /\ th[r].writer = "get"
        /\ r = shared.current /\ ~shared.disposed
        /\ child[r].input > 0
        /\ shared' = shared
    BY <1>1, <1>4 DEF Hid!WriterGets, Hid!At, Hid!Move, Hid!WriterMayGoOn
  <2> DEFINE t == [th[r] EXCEPT !.writer = "write"]
  <2>2. t \in Ths
    BY <1>1, <1>2 DEF Ths
  <2>3. th' = [th EXCEPT ![r] = t]
    BY <1>1, <1>4 DEF Hid!WriterGets, Hid!At, Hid!Move, Hid!WriterMayGoOn
  <2>4. /\ th' \in [Hid!Runs -> Ths] /\ th'[r] = t
       /\ \A s \in Hid!Runs \ {r} : th'[s] = th[s]
    BY <1>1, <2>2, <2>3
  <2>5. /\ th'[r].worker = th[r].worker
        /\ th'[r].writer = "write"
        /\ th'[r].reader = th[r].reader
        /\ th'[r].waiter = th[r].waiter
    BY <1>1, <2>4 DEF Ths
  <2> DEFINE c == [child[r] EXCEPT !.input = child[r].input - 1]
  <2>6. c \in Children
    <3>1. child[r].input - 1 \in 0 .. MaxWork
      BY <1>2, <1>3, <2>1
    <3> QED BY <1>1, <3>1 DEF Children
  <2>7. child' = [child EXCEPT ![r] = c]
    BY <1>1, <1>4 DEF Hid!WriterGets, Hid!At, Hid!Move, Hid!WriterMayGoOn
  <2>8. /\ child' \in [Hid!Runs -> Children] /\ child'[r] = c
       /\ \A s \in Hid!Runs \ {r} : child'[s] = child[s]
    BY <1>1, <2>6, <2>7
  <2>9. /\ child'[r].life = child[r].life
         /\ child'[r].pipe = child[r].pipe
         /\ child'[r].input = child[r].input - 1
         /\ child'[r].closer = child[r].closer
    BY <1>1, <2>8 DEF Children
  <2>10. run' = run /\ q' = q /\ work' = work
    BY <1>2, <1>4 DEF Hid!WriterGets, Hid!At, Hid!Move, Hid!WriterMayGoOn
  <2>11. (WorkerOf(r) /\ WaiterOf(r) /\ ProcessOf(r))'
    BY <1>2, <1>3, <2>1, <2>5, <2>9, <2>10
      DEF WorkerOf, WaiterOf, ProcessOf, Hid!StaleWorker
  <2>12. RunsInv'
    BY <1>1, <1>2, <2>1, <2>4, <2>8, <2>10, <2>11, LocalKeeps
  <2>13. ASSUME EndsInv PROVE EndsInv'
    <3>1. OwnerInv /\ EndOf(r) /\ told' = told
      BY <1>4, <2>13 DEF EndsInv, Hid!WriterGets, Hid!At, Hid!Move, Hid!WriterMayGoOn
    <3>2. OwnerInv' /\ EndOf(r)'
      <4>1. OwnerInv'
        BY <2>1, <2>10, <3>1 DEF OwnerInv, ToldOfEnd
      <4>2. EndOf(r)'
        BY <2>1, <2>5, <2>9, <2>10, <3>1 DEF EndOf, ToldOfEnd
      <4> QED BY <4>1, <4>2
    <3> QED BY <2>1, <2>4, <2>8, <2>10, <2>13, <3>1, <3>2, LocalEnds
  <2> QED BY <2>12, <2>13 DEF HiddenInv
<1>5. CASE Hid!WriterFindsNothing(r)
  <2>1. /\ th[r].writer = "get"
        /\ child[r].input = 0
        /\ shared' = shared
    BY <1>1, <1>5 DEF Hid!WriterFindsNothing, Hid!At, Hid!Move, Hid!WriterMayGoOn
  <2> DEFINE t == [th[r] EXCEPT !.writer = "end"]
  <2>2. t \in Ths
    BY <1>1, <1>2 DEF Ths
  <2>3. th' = [th EXCEPT ![r] = t]
    BY <1>1, <1>5 DEF Hid!WriterFindsNothing, Hid!At, Hid!Move, Hid!WriterMayGoOn
  <2>4. /\ th' \in [Hid!Runs -> Ths] /\ th'[r] = t
       /\ \A s \in Hid!Runs \ {r} : th'[s] = th[s]
    BY <1>1, <2>2, <2>3
  <2>5. /\ th'[r].worker = th[r].worker
        /\ th'[r].writer = "end"
        /\ th'[r].reader = th[r].reader
        /\ th'[r].waiter = th[r].waiter
    BY <1>1, <2>4 DEF Ths
  <2>6. child' = child
    BY <1>5 DEF Hid!WriterFindsNothing, Hid!At, Hid!Move, Hid!WriterMayGoOn
  <2>7. run' = run /\ q' = q /\ work' = work
    BY <1>2, <1>5 DEF Hid!WriterFindsNothing, Hid!At, Hid!Move, Hid!WriterMayGoOn
  <2>8. (WorkerOf(r) /\ WaiterOf(r) /\ ProcessOf(r))'
    BY <1>3, <2>1, <2>5, <2>6, <2>7 DEF WorkerOf, WaiterOf, ProcessOf, Hid!StaleWorker
  <2>9. RunsInv'
    BY <1>1, <1>2, <2>1, <2>4, <2>6, <2>7, <2>8, LocalKeeps
  <2>10. ASSUME EndsInv PROVE EndsInv'
    <3>1. OwnerInv /\ EndOf(r) /\ told' = told
      BY <1>5, <2>10
        DEF EndsInv, Hid!WriterFindsNothing, Hid!At, Hid!Move, Hid!WriterMayGoOn
    <3>2. OwnerInv' /\ EndOf(r)'
      <4>1. OwnerInv'
        BY <2>1, <2>7, <3>1 DEF OwnerInv, ToldOfEnd
      <4>2. EndOf(r)'
        BY <2>1, <2>5, <2>6, <2>7, <3>1 DEF EndOf, ToldOfEnd
      <4> QED BY <4>1, <4>2
    <3> QED BY <2>1, <2>4, <2>6, <2>7, <2>10, <3>1, <3>2, LocalEnds
  <2> QED BY <2>9, <2>10 DEF HiddenInv
<1>6. CASE Hid!WriterStops(r)
  <2>1. /\ th[r].writer = "get"
        /\ ~(r = shared.current /\ ~shared.disposed)
        /\ shared' = shared
    BY <1>1, <1>6 DEF Hid!WriterStops, Hid!At, Hid!Move, Hid!WriterMayGoOn
  <2> DEFINE t == [th[r] EXCEPT !.writer = "end"]
  <2>2. t \in Ths
    BY <1>1, <1>2 DEF Ths
  <2>3. th' = [th EXCEPT ![r] = t]
    BY <1>1, <1>6 DEF Hid!WriterStops, Hid!At, Hid!Move, Hid!WriterMayGoOn
  <2>4. /\ th' \in [Hid!Runs -> Ths] /\ th'[r] = t
       /\ \A s \in Hid!Runs \ {r} : th'[s] = th[s]
    BY <1>1, <2>2, <2>3
  <2>5. /\ th'[r].worker = th[r].worker
        /\ th'[r].writer = "end"
        /\ th'[r].reader = th[r].reader
        /\ th'[r].waiter = th[r].waiter
    BY <1>1, <2>4 DEF Ths
  <2>6. child' = child
    BY <1>6 DEF Hid!WriterStops, Hid!At, Hid!Move, Hid!WriterMayGoOn
  <2>7. run' = run /\ q' = q /\ work' = work
    BY <1>2, <1>6 DEF Hid!WriterStops, Hid!At, Hid!Move, Hid!WriterMayGoOn
  <2>8. (WorkerOf(r) /\ WaiterOf(r) /\ ProcessOf(r))'
    BY <1>3, <2>1, <2>5, <2>6, <2>7 DEF WorkerOf, WaiterOf, ProcessOf, Hid!StaleWorker
  <2>9. RunsInv'
    BY <1>1, <1>2, <2>1, <2>4, <2>6, <2>7, <2>8, LocalKeeps
  <2>10. ASSUME EndsInv PROVE EndsInv'
    <3>1. OwnerInv /\ EndOf(r) /\ told' = told
      BY <1>6, <2>10 DEF EndsInv, Hid!WriterStops, Hid!At, Hid!Move, Hid!WriterMayGoOn
    <3>2. OwnerInv' /\ EndOf(r)'
      <4>1. OwnerInv'
        BY <2>1, <2>7, <3>1 DEF OwnerInv, ToldOfEnd
      <4>2. EndOf(r)'
        BY <2>1, <2>5, <2>6, <2>7, <3>1 DEF EndOf, ToldOfEnd
      <4> QED BY <4>1, <4>2
    <3> QED BY <2>1, <2>4, <2>6, <2>7, <2>10, <3>1, <3>2, LocalEnds
  <2> QED BY <2>9, <2>10 DEF HiddenInv
<1>7. CASE Hid!WriterWrites(r)
  <2>c. PICK next \in {"get", "end"} : th' = [th EXCEPT ![r].writer = next]
    BY <1>7 DEF Hid!WriterWrites, Hid!At, Hid!Move, Hid!Less
  <2>1. shared' \in Shareds
    <3>1. shared' = [shared EXCEPT !.unwritten =
                     (IF shared.unwritten = 0 THEN 0 ELSE shared.unwritten - 1)]
      BY <1>7, <2>c DEF Hid!WriterWrites, Hid!At, Hid!Move, Hid!Less
    <3>2. /\ (IF shared.unwritten = 0 THEN 0 ELSE shared.unwritten - 1) \in 0 .. InputCap
      BY <1>2, <1>3 DEF Hid!Runs, Shareds
    <3> QED BY <1>1, <3>1, <3>2 DEF Shareds
  <2>2. /\ th[r].writer = "write"
        /\ shared'.unwritten = (IF shared.unwritten = 0 THEN 0 ELSE shared.unwritten - 1)
        /\ shared'.current = shared.current
        /\ shared'.disposed = shared.disposed
        /\ shared'.pending = shared.pending
        /\ shared'.early = shared.early
        /\ shared'.own = shared.own
        /\ shared'.cut = shared.cut
        /\ shared'.output = shared.output
        /\ shared'.finished = shared.finished
        /\ shared'.event = shared.event
    BY <1>7 DEF Hid!WriterWrites, Hid!At, Hid!Less
  <2> DEFINE t == [th[r] EXCEPT !.writer = next]
  <2>3. t \in Ths
    BY <1>1, <1>2 DEF Ths
  <2>4. th' = [th EXCEPT ![r] = t]
    BY <1>1, <1>7, <2>c DEF Hid!WriterWrites, Hid!At, Hid!Move, Hid!Less
  <2>5. /\ th' \in [Hid!Runs -> Ths] /\ th'[r] = t
       /\ \A s \in Hid!Runs \ {r} : th'[s] = th[s]
    BY <1>1, <2>3, <2>4
  <2>6. /\ th'[r].worker = th[r].worker
        /\ th'[r].writer = next
        /\ th'[r].reader = th[r].reader
        /\ th'[r].waiter = th[r].waiter
    BY <1>1, <2>5 DEF Ths
  <2>7. child' = child
    BY <1>7, <2>c DEF Hid!WriterWrites, Hid!At, Hid!Move, Hid!Less
  <2>8. run' = run /\ q' = q /\ work' = work
    BY <1>2, <1>7, <2>c DEF Hid!WriterWrites, Hid!At, Hid!Move, Hid!Less
  <2>9. (WorkerOf(r) /\ WaiterOf(r) /\ ProcessOf(r))'
    BY <1>2, <1>3, <2>2, <2>6, <2>7, <2>8
      DEF WorkerOf, WaiterOf, ProcessOf, Hid!StaleWorker
  <2>10. RunsInv'
    BY <1>1, <1>2, <2>1, <2>2, <2>5, <2>7, <2>8, <2>9, LocalKeeps
  <2>11. ASSUME EndsInv PROVE EndsInv'
    <3>1. OwnerInv /\ EndOf(r) /\ told' = told
      BY <1>7, <2>11 DEF EndsInv, Hid!WriterWrites
    <3>2. OwnerInv' /\ EndOf(r)'
      <4>1. OwnerInv'
        BY <2>2, <2>8, <3>1 DEF OwnerInv, ToldOfEnd
      <4>2. EndOf(r)'
        BY <2>2, <2>6, <2>7, <2>8, <3>1 DEF EndOf, ToldOfEnd
      <4> QED BY <4>1, <4>2
    <3> QED BY <2>2, <2>5, <2>7, <2>8, <2>11, <3>1, <3>2, LocalEnds
  <2> QED BY <2>10, <2>11 DEF HiddenInv
<1>8. CASE Hid!WriterEnds(r)
  <2>1. shared' \in Shareds
    <3>1. shared' = [shared EXCEPT !.unwritten = 0]
      BY <1>8 DEF Hid!WriterEnds, Hid!At, Hid!Move
    <3>2. /\ 0 \in 0 .. InputCap
      BY <1>2, <1>3 DEF Hid!Runs, Shareds
    <3> QED BY <1>1, <3>1, <3>2 DEF Shareds
  <2>2. /\ th[r].writer = "end"
        /\ shared'.unwritten = 0
        /\ shared'.current = shared.current
        /\ shared'.disposed = shared.disposed
        /\ shared'.pending = shared.pending
        /\ shared'.early = shared.early
        /\ shared'.own = shared.own
        /\ shared'.cut = shared.cut
        /\ shared'.output = shared.output
        /\ shared'.finished = shared.finished
        /\ shared'.event = shared.event
    BY <1>1, <1>8 DEF Hid!WriterEnds, Hid!At, Hid!Move, Shareds
  <2> DEFINE t == [th[r] EXCEPT !.writer = "ended"]
  <2>3. t \in Ths
    BY <1>1, <1>2 DEF Ths
  <2>4. th' = [th EXCEPT ![r] = t]
    BY <1>1, <1>8 DEF Hid!WriterEnds, Hid!At, Hid!Move
  <2>5. /\ th' \in [Hid!Runs -> Ths] /\ th'[r] = t
       /\ \A s \in Hid!Runs \ {r} : th'[s] = th[s]
    BY <1>1, <2>3, <2>4
  <2>6. /\ th'[r].worker = th[r].worker
        /\ th'[r].writer = "ended"
        /\ th'[r].reader = th[r].reader
        /\ th'[r].waiter = th[r].waiter
    BY <1>1, <2>5 DEF Ths
  <2> DEFINE c == [child[r] EXCEPT !.input = 0]
  <2>7. c \in Children
    BY <1>1, <1>2 DEF Children
  <2>8. child' = [child EXCEPT ![r] = c]
    BY <1>1, <1>8 DEF Hid!WriterEnds, Hid!At, Hid!Move
  <2>9. /\ child' \in [Hid!Runs -> Children] /\ child'[r] = c
       /\ \A s \in Hid!Runs \ {r} : child'[s] = child[s]
    BY <1>1, <2>7, <2>8
  <2>10. /\ child'[r].life = child[r].life
         /\ child'[r].pipe = child[r].pipe
         /\ child'[r].input = 0
         /\ child'[r].closer = child[r].closer
    BY <1>1, <2>9 DEF Children
  <2>11. run' = run /\ q' = q /\ work' = work
    BY <1>2, <1>8 DEF Hid!WriterEnds, Hid!At, Hid!Move
  <2>12. (WorkerOf(r) /\ WaiterOf(r) /\ ProcessOf(r))'
    BY <1>2, <1>3, <2>2, <2>6, <2>10, <2>11
      DEF WorkerOf, WaiterOf, ProcessOf, Hid!StaleWorker
  <2>13. RunsInv'
    BY <1>2, <2>1, <2>2, <2>5, <2>9, <2>11, <2>12, LocalKeeps
  <2>14. ASSUME EndsInv PROVE EndsInv'
    <3>1. OwnerInv /\ EndOf(r) /\ told' = told
      BY <1>8, <2>14 DEF EndsInv, Hid!WriterEnds, Hid!At, Hid!Move
    <3>2. OwnerInv' /\ EndOf(r)'
      <4>1. OwnerInv'
        BY <2>2, <2>11, <3>1 DEF OwnerInv, ToldOfEnd
      <4>2. EndOf(r)'
        BY <2>2, <2>6, <2>10, <2>11, <3>1 DEF EndOf, ToldOfEnd
      <4> QED BY <4>1, <4>2
    <3> QED BY <2>2, <2>5, <2>9, <2>11, <2>14, <3>1, <3>2, LocalEnds
  <2> QED BY <2>13, <2>14 DEF HiddenInv
<1> QED BY <1>4, <1>5, <1>6, <1>7, <1>8 DEF Hid!Writer

(* A reader: what the chunk of a former run adds is not the run's own, and *)
(* it is no notice.                                                        *)
LEMMA ReaderKeeps ==
  ASSUME HidBounds, HiddenInv, NEW r \in Hid!Runs, Hid!Reader(r)
  PROVE  HiddenInv'
<1> RunsInv
  BY DEF HiddenInv
<1>1. shared \in Shareds /\ th \in [Hid!Runs -> Ths] /\ child \in [Hid!Runs -> Children]
  BY TypedObject
<1>2. /\ run \in 0 .. MaxRuns /\ work \in 0 .. MaxWork /\ MaxRuns \in Nat
      /\ MaxWork \in Nat /\ InputCap \in Nat /\ r \in 1 .. MaxRuns
      /\ 0 \in 0 .. MaxWork /\ 0 \in 0 .. InputCap
      /\ child[r].pipe \in 0 .. MaxWork /\ child[r].input \in 0 .. MaxWork
      /\ shared.unwritten \in 0 .. InputCap /\ shared.own \in Nat
      /\ shared.finished \in 0 .. MaxRuns
      /\ q.state \in {"NotRunning", "Starting", "Running"}
  BY <1>1, TypedObject, Numbers DEF Shareds, Objects
<1>3. FenceInv /\ WorkerOf(r) /\ WaiterOf(r) /\ ProcessOf(r)
  BY DEF RunsInv
<1>4. CASE Hid!ReaderPasses(r)
  <2>1. CASE th[r].reader = "gate" /\ ~(r = shared.current /\ ~shared.disposed)
        /\ th' = [th EXCEPT ![r].reader = "ended"]
    <3>1. /\ th[r].reader = "gate"
          /\ ~(r = shared.current /\ ~shared.disposed)
          /\ shared' = shared
      BY <1>1, <1>4, <2>1 DEF Hid!ReaderPasses, Hid!At, Hid!Move, Hid!WriterMayGoOn
    <3> DEFINE t == [th[r] EXCEPT !.reader = "ended"]
    <3>2. t \in Ths
      BY <1>1, <1>2 DEF Ths
    <3>3. th' = [th EXCEPT ![r] = t]
      BY <1>1, <1>4, <2>1 DEF Hid!ReaderPasses, Hid!At, Hid!Move, Hid!WriterMayGoOn
    <3>4. /\ th' \in [Hid!Runs -> Ths] /\ th'[r] = t
         /\ \A s \in Hid!Runs \ {r} : th'[s] = th[s]
      BY <1>1, <3>2, <3>3
    <3>5. /\ th'[r].worker = th[r].worker
          /\ th'[r].writer = th[r].writer
          /\ th'[r].reader = "ended"
          /\ th'[r].waiter = th[r].waiter
      BY <1>1, <3>4 DEF Ths
    <3>6. child' = child
      BY <1>4, <2>1 DEF Hid!ReaderPasses, Hid!At, Hid!Move, Hid!WriterMayGoOn
    <3>7. run' = run /\ q' = q /\ work' = work
      BY <1>2, <1>4, <2>1 DEF Hid!ReaderPasses, Hid!At, Hid!Move, Hid!WriterMayGoOn
    <3>8. (WorkerOf(r) /\ WaiterOf(r) /\ ProcessOf(r))'
      BY <1>3, <3>1, <3>5, <3>6, <3>7 DEF WorkerOf, WaiterOf, ProcessOf
    <3>9. RunsInv'
      BY <1>1, <1>2, <3>1, <3>4, <3>6, <3>7, <3>8, LocalKeeps
    <3>10. ASSUME EndsInv PROVE EndsInv'
      <4>1. OwnerInv /\ EndOf(r) /\ told' = told
        BY <1>4, <3>10 DEF EndsInv, Hid!ReaderPasses
      <4>2. OwnerInv' /\ EndOf(r)'
        <5>1. OwnerInv'
          BY <3>1, <3>7, <4>1 DEF OwnerInv, ToldOfEnd
        <5>2. EndOf(r)'
          BY <1>2, <1>3, <3>1, <3>5, <3>7, <4>1
            DEF OwnerInv, EndOf, ToldOfEnd, Announced, WaiterOf
        <5> QED BY <5>1, <5>2
      <4> QED BY <3>1, <3>4, <3>6, <3>7, <3>10, <4>1, <4>2, LocalEnds
    <3> QED BY <3>9, <3>10 DEF HiddenInv
  <2>2. CASE th[r].reader = "gate" /\ r = shared.current /\ ~shared.disposed
        /\ th' = [th EXCEPT ![r].reader = "read"]
    <3>1. /\ th[r].reader = "gate"
          /\ r = shared.current /\ ~shared.disposed
          /\ shared' = shared
      BY <1>1, <1>4, <2>2 DEF Hid!ReaderPasses, Hid!At, Hid!Move, Hid!WriterMayGoOn
    <3> DEFINE t == [th[r] EXCEPT !.reader = "read"]
    <3>2. t \in Ths
      BY <1>1, <1>2 DEF Ths
    <3>3. th' = [th EXCEPT ![r] = t]
      BY <1>1, <1>4, <2>2 DEF Hid!ReaderPasses, Hid!At, Hid!Move, Hid!WriterMayGoOn
    <3>4. /\ th' \in [Hid!Runs -> Ths] /\ th'[r] = t
         /\ \A s \in Hid!Runs \ {r} : th'[s] = th[s]
      BY <1>1, <3>2, <3>3
    <3>5. /\ th'[r].worker = th[r].worker
          /\ th'[r].writer = th[r].writer
          /\ th'[r].reader = "read"
          /\ th'[r].waiter = th[r].waiter
      BY <1>1, <3>4 DEF Ths
    <3>6. child' = child
      BY <1>4, <2>2 DEF Hid!ReaderPasses, Hid!At, Hid!Move, Hid!WriterMayGoOn
    <3>7. run' = run /\ q' = q /\ work' = work
      BY <1>2, <1>4, <2>2 DEF Hid!ReaderPasses, Hid!At, Hid!Move, Hid!WriterMayGoOn
    <3>8. (WorkerOf(r) /\ WaiterOf(r) /\ ProcessOf(r))'
      BY <1>3, <3>1, <3>5, <3>6, <3>7 DEF WorkerOf, WaiterOf, ProcessOf
    <3>9. RunsInv'
      BY <1>1, <1>2, <3>1, <3>4, <3>6, <3>7, <3>8, LocalKeeps
    <3>10. ASSUME EndsInv PROVE EndsInv'
      <4>1. OwnerInv /\ EndOf(r) /\ told' = told
        BY <1>4, <3>10 DEF EndsInv, Hid!ReaderPasses
      <4>2. OwnerInv' /\ EndOf(r)'
        <5>1. OwnerInv'
          BY <3>1, <3>7, <4>1 DEF OwnerInv, ToldOfEnd
        <5>2. EndOf(r)'
          BY <3>1, <3>5, <3>7, <4>1 DEF EndOf, ToldOfEnd
        <5> QED BY <5>1, <5>2
      <4> QED BY <3>1, <3>4, <3>6, <3>7, <3>10, <4>1, <4>2, LocalEnds
    <3> QED BY <3>9, <3>10 DEF HiddenInv
  <2> QED BY <1>4, <2>1, <2>2 DEF Hid!ReaderPasses, Hid!At, Hid!Move, Hid!WriterMayGoOn
<1>5. CASE Hid!ReaderReads(r)
  <2>1. /\ th[r].reader = "read"
        /\ child[r].pipe > 0
        /\ shared' = shared
    BY <1>1, <1>5 DEF Hid!ReaderReads, Hid!At, Hid!Move
  <2> DEFINE t == [th[r] EXCEPT !.reader = "extend"]
  <2>2. t \in Ths
    BY <1>1, <1>2 DEF Ths
  <2>3. th' = [th EXCEPT ![r] = t]
    BY <1>1, <1>5 DEF Hid!ReaderReads, Hid!At, Hid!Move
  <2>4. /\ th' \in [Hid!Runs -> Ths] /\ th'[r] = t
       /\ \A s \in Hid!Runs \ {r} : th'[s] = th[s]
    BY <1>1, <2>2, <2>3
  <2>5. /\ th'[r].worker = th[r].worker
        /\ th'[r].writer = th[r].writer
        /\ th'[r].reader = "extend"
        /\ th'[r].waiter = th[r].waiter
    BY <1>1, <2>4 DEF Ths
  <2> DEFINE c == [child[r] EXCEPT !.pipe = child[r].pipe - 1]
  <2>6. c \in Children
    <3>1. child[r].pipe - 1 \in 0 .. MaxWork
      BY <1>2, <1>3, <2>1
    <3> QED BY <1>1, <3>1 DEF Children
  <2>7. child' = [child EXCEPT ![r] = c]
    BY <1>1, <1>5 DEF Hid!ReaderReads, Hid!At, Hid!Move
  <2>8. /\ child' \in [Hid!Runs -> Children] /\ child'[r] = c
       /\ \A s \in Hid!Runs \ {r} : child'[s] = child[s]
    BY <1>1, <2>6, <2>7
  <2>9. /\ child'[r].life = child[r].life
         /\ child'[r].pipe = child[r].pipe - 1
         /\ child'[r].input = child[r].input
         /\ child'[r].closer = child[r].closer
    BY <1>1, <2>8 DEF Children
  <2>10. run' = run /\ q' = q /\ work' = work
    BY <1>2, <1>5 DEF Hid!ReaderReads, Hid!At, Hid!Move
  <2>11. (WorkerOf(r) /\ WaiterOf(r) /\ ProcessOf(r))'
    BY <1>2, <1>3, <2>1, <2>5, <2>9, <2>10 DEF WorkerOf, WaiterOf, ProcessOf
  <2>12. RunsInv'
    BY <1>1, <1>2, <2>1, <2>4, <2>8, <2>10, <2>11, LocalKeeps
  <2>13. ASSUME EndsInv PROVE EndsInv'
    <3>1. OwnerInv /\ EndOf(r) /\ told' = told
      BY <1>5, <2>13 DEF EndsInv, Hid!ReaderReads, Hid!At, Hid!Move
    <3>2. OwnerInv' /\ EndOf(r)'
      <4>1. OwnerInv'
        BY <2>1, <2>10, <3>1 DEF OwnerInv, ToldOfEnd
      <4>2. EndOf(r)'
        BY <2>1, <2>5, <2>10, <3>1 DEF EndOf, ToldOfEnd
      <4> QED BY <4>1, <4>2
    <3> QED BY <2>1, <2>4, <2>8, <2>10, <2>13, <3>1, <3>2, LocalEnds
  <2> QED BY <2>12, <2>13 DEF HiddenInv
<1>6. CASE Hid!ReaderExtends(r)
  <2>1. shared' \in Shareds
    <3>1. shared' = [shared EXCEPT
                       !.own = (IF r = run THEN shared.own + 1 ELSE shared.own),
                       !.output = (shared.output \/ (r = shared.current /\ ~shared.disposed))]
      BY <1>6 DEF Hid!ReaderExtends, Hid!At, Hid!Move, Hid!WriterMayGoOn
    <3>2. (IF r = run THEN shared.own + 1 ELSE shared.own) \in Nat
      BY <1>2, <1>3 DEF Hid!Runs, Shareds
    <3>3. (shared.output \/ (r = shared.current /\ ~shared.disposed)) \in BOOLEAN
      BY <1>1 DEF Shareds
    <3> QED BY <1>1, <3>1, <3>2, <3>3 DEF Shareds
  <2>2. /\ th[r].reader = "extend"
        /\ shared'.own = (IF r = run THEN shared.own + 1 ELSE shared.own)
        /\ shared'.cut = shared.cut
        /\ shared'.output = (shared.output \/ (r = shared.current /\ ~shared.disposed))
        /\ shared'.current = shared.current
        /\ shared'.disposed = shared.disposed
        /\ shared'.pending = shared.pending
        /\ shared'.early = shared.early
        /\ shared'.unwritten = shared.unwritten
        /\ shared'.finished = shared.finished
        /\ shared'.event = shared.event
    BY <1>1, <1>6 DEF Hid!ReaderExtends, Hid!At, Hid!Move, Hid!WriterMayGoOn, Shareds
  <2> DEFINE t == [th[r] EXCEPT !.reader = "gate"]
  <2>3. t \in Ths
    BY <1>1, <1>2 DEF Ths
  <2>4. th' = [th EXCEPT ![r] = t]
    BY <1>1, <1>6 DEF Hid!ReaderExtends, Hid!At, Hid!Move, Hid!WriterMayGoOn
  <2>5. /\ th' \in [Hid!Runs -> Ths] /\ th'[r] = t
       /\ \A s \in Hid!Runs \ {r} : th'[s] = th[s]
    BY <1>1, <2>3, <2>4
  <2>6. /\ th'[r].worker = th[r].worker
        /\ th'[r].writer = th[r].writer
        /\ th'[r].reader = "gate"
        /\ th'[r].waiter = th[r].waiter
    BY <1>1, <2>5 DEF Ths
  <2>7. child' = child
    BY <1>6 DEF Hid!ReaderExtends, Hid!At, Hid!Move, Hid!WriterMayGoOn
  <2>8. run' = run /\ q' = q /\ work' = work
    BY <1>2, <1>6 DEF Hid!ReaderExtends, Hid!At, Hid!Move, Hid!WriterMayGoOn
  <2>9. (WorkerOf(r) /\ WaiterOf(r) /\ ProcessOf(r))'
    BY <1>3, <2>2, <2>6, <2>7, <2>8 DEF WorkerOf, WaiterOf, ProcessOf
  <2>10. RunsInv'
    BY <1>1, <1>2, <2>1, <2>2, <2>5, <2>7, <2>8, <2>9, LocalKeeps
  <2>11. ASSUME EndsInv PROVE EndsInv'
    <3>1. OwnerInv /\ EndOf(r) /\ told' = told
      BY <1>6, <2>11 DEF EndsInv, Hid!ReaderExtends, Hid!At, Hid!Move, Hid!WriterMayGoOn
    <3>2. OwnerInv' /\ EndOf(r)'
      <4>1. r = run => shared.current = r \/ shared.disposed
        BY <1>3, <2>2 DEF WaiterOf
      <4>2. OwnerInv'
        BY <1>2, <2>2, <2>8, <3>1, <4>1 DEF OwnerInv, ToldOfEnd
      <4>3. EndOf(r)'
        BY <2>2, <2>6, <2>8, <3>1 DEF EndOf, ToldOfEnd
      <4> QED BY <4>2, <4>3
    <3> QED BY <2>2, <2>5, <2>7, <2>8, <2>11, <3>1, <3>2, LocalEnds
  <2> QED BY <2>10, <2>11 DEF HiddenInv
<1>7. CASE Hid!ReaderEnds(r)
  <2>1. /\ th[r].reader = "read"
        /\ child[r].pipe = 0
        /\ child[r].life = "exited"
        /\ shared' = shared
    BY <1>1, <1>7 DEF Hid!ReaderEnds, Hid!At, Hid!Move
  <2> DEFINE t == [th[r] EXCEPT !.reader = "ended"]
  <2>2. t \in Ths
    BY <1>1, <1>2 DEF Ths
  <2>3. th' = [th EXCEPT ![r] = t]
    BY <1>1, <1>7 DEF Hid!ReaderEnds, Hid!At, Hid!Move
  <2>4. /\ th' \in [Hid!Runs -> Ths] /\ th'[r] = t
       /\ \A s \in Hid!Runs \ {r} : th'[s] = th[s]
    BY <1>1, <2>2, <2>3
  <2>5. /\ th'[r].worker = th[r].worker
        /\ th'[r].writer = th[r].writer
        /\ th'[r].reader = "ended"
        /\ th'[r].waiter = th[r].waiter
    BY <1>1, <2>4 DEF Ths
  <2>6. child' = child
    BY <1>7 DEF Hid!ReaderEnds, Hid!At, Hid!Move
  <2>7. run' = run /\ q' = q /\ work' = work
    BY <1>2, <1>7 DEF Hid!ReaderEnds, Hid!At, Hid!Move
  <2>8. (WorkerOf(r) /\ WaiterOf(r) /\ ProcessOf(r))'
    BY <1>3, <2>1, <2>5, <2>6, <2>7 DEF WorkerOf, WaiterOf, ProcessOf
  <2>9. RunsInv'
    BY <1>1, <1>2, <2>1, <2>4, <2>6, <2>7, <2>8, LocalKeeps
  <2>10. ASSUME EndsInv PROVE EndsInv'
    <3>1. OwnerInv /\ EndOf(r) /\ told' = told
      BY <1>7, <2>10 DEF EndsInv, Hid!ReaderEnds, Hid!At, Hid!Move
    <3>2. OwnerInv' /\ EndOf(r)'
      <4>1. OwnerInv'
        BY <2>1, <2>7, <3>1 DEF OwnerInv, ToldOfEnd
      <4>2. EndOf(r)'
        BY <2>1, <2>5, <2>6, <2>7, <3>1 DEF EndOf, ToldOfEnd
      <4> QED BY <4>1, <4>2
    <3> QED BY <2>1, <2>4, <2>6, <2>7, <2>10, <3>1, <3>2, LocalEnds
  <2> QED BY <2>9, <2>10 DEF HiddenInv
<1>8. CASE Hid!ReaderFails(r)
  <2>1. shared' \in Shareds
    <3>1. shared' = [shared EXCEPT !.cut = (shared.cut \/ r = run)]
      BY <1>8 DEF Hid!ReaderFails, Hid!At, Hid!Move
    <3>2. (shared.cut \/ r = run) \in BOOLEAN
      BY <1>1 DEF Shareds
    <3> QED BY <1>1, <3>1, <3>2 DEF Shareds
  <2>2. /\ th[r].reader = "read"
        /\ shared'.cut = (shared.cut \/ r = run)
        /\ shared'.current = shared.current
        /\ shared'.disposed = shared.disposed
        /\ shared'.pending = shared.pending
        /\ shared'.early = shared.early
        /\ shared'.unwritten = shared.unwritten
        /\ shared'.own = shared.own
        /\ shared'.output = shared.output
        /\ shared'.finished = shared.finished
        /\ shared'.event = shared.event
    BY <1>1, <1>8 DEF Hid!ReaderFails, Hid!At, Hid!Move, Shareds
  <2> DEFINE t == [th[r] EXCEPT !.reader = "ended"]
  <2>3. t \in Ths
    BY <1>1, <1>2 DEF Ths
  <2>4. th' = [th EXCEPT ![r] = t]
    BY <1>1, <1>8 DEF Hid!ReaderFails, Hid!At, Hid!Move
  <2>5. /\ th' \in [Hid!Runs -> Ths] /\ th'[r] = t
       /\ \A s \in Hid!Runs \ {r} : th'[s] = th[s]
    BY <1>1, <2>3, <2>4
  <2>6. /\ th'[r].worker = th[r].worker
        /\ th'[r].writer = th[r].writer
        /\ th'[r].reader = "ended"
        /\ th'[r].waiter = th[r].waiter
    BY <1>1, <2>5 DEF Ths
  <2>7. child' = child
    BY <1>8 DEF Hid!ReaderFails, Hid!At, Hid!Move
  <2>8. run' = run /\ q' = q /\ work' = work
    BY <1>2, <1>8 DEF Hid!ReaderFails, Hid!At, Hid!Move
  <2>9. (WorkerOf(r) /\ WaiterOf(r) /\ ProcessOf(r))'
    BY <1>3, <2>2, <2>6, <2>7, <2>8 DEF WorkerOf, WaiterOf, ProcessOf
  <2>10. RunsInv'
    BY <1>1, <1>2, <2>1, <2>2, <2>5, <2>7, <2>8, <2>9, LocalKeeps
  <2>11. ASSUME EndsInv PROVE EndsInv'
    <3>1. OwnerInv /\ EndOf(r) /\ told' = told
      BY <1>8, <2>11 DEF EndsInv, Hid!ReaderFails, Hid!At, Hid!Move
    <3>2. OwnerInv' /\ EndOf(r)'
      <4>1. OwnerInv'
        BY <2>2, <2>8, <3>1 DEF OwnerInv, ToldOfEnd
      <4>2. EndOf(r)'
        BY <2>2, <2>6, <2>7, <2>8, <3>1 DEF EndOf, ToldOfEnd
      <4> QED BY <4>1, <4>2
    <3>3. r # run => shared'.cut = shared.cut
      BY <1>1, <2>2 DEF Shareds
    <3> QED BY <2>2, <2>5, <2>7, <2>8, <2>11, <3>1, <3>2, <3>3, LocalEnds
  <2> QED BY <2>10, <2>11 DEF HiddenInv
<1> QED BY <1>4, <1>5, <1>6, <1>7, <1>8 DEF Hid!Reader

(* A waiter, but for the step that clears the object's process.            *)
LEMMA WaiterKeeps ==
  ASSUME HidBounds, HiddenInv, NEW r \in Hid!Runs,
         (Hid!Waiter(r) /\ ~Hid!WaiterClears(r)) \/ Hid!WaiterFails(r)
  PROVE  HiddenInv'
<1> RunsInv
  BY DEF HiddenInv
<1>1. shared \in Shareds /\ th \in [Hid!Runs -> Ths] /\ child \in [Hid!Runs -> Children]
  BY TypedObject
<1>2. /\ run \in 0 .. MaxRuns /\ work \in 0 .. MaxWork /\ MaxRuns \in Nat
      /\ MaxWork \in Nat /\ InputCap \in Nat /\ r \in 1 .. MaxRuns
      /\ 0 \in 0 .. MaxWork /\ 0 \in 0 .. InputCap
      /\ child[r].pipe \in 0 .. MaxWork /\ child[r].input \in 0 .. MaxWork
      /\ shared.unwritten \in 0 .. InputCap /\ shared.own \in Nat
      /\ shared.finished \in 0 .. MaxRuns
      /\ q.state \in {"NotRunning", "Starting", "Running"}
  BY <1>1, TypedObject, Numbers DEF Shareds, Objects
<1>3. FenceInv /\ WorkerOf(r) /\ WaiterOf(r) /\ ProcessOf(r)
  BY DEF RunsInv
<1>4. CASE Hid!WaiterSeesExit(r)
  <2>1. shared' \in Shareds
    <3>1. shared' = [shared EXCEPT !.paused = FALSE, !.closing = TRUE]
      BY <1>4 DEF Hid!WaiterSeesExit, Hid!WaiterGoesOn, Hid!At, Hid!Move
    <3> QED BY <1>1, <3>1 DEF Shareds
  <2>2. /\ th[r].waiter = "wait"
        /\ child[r].life = "exited"
        /\ shared'.paused = FALSE
        /\ shared'.closing = TRUE
        /\ shared'.current = shared.current
        /\ shared'.disposed = shared.disposed
        /\ shared'.pending = shared.pending
        /\ shared'.early = shared.early
        /\ shared'.unwritten = shared.unwritten
        /\ shared'.own = shared.own
        /\ shared'.cut = shared.cut
        /\ shared'.output = shared.output
        /\ shared'.finished = shared.finished
        /\ shared'.event = shared.event
    BY <1>1, <1>4 DEF Hid!WaiterSeesExit, Hid!WaiterGoesOn, Hid!At, Hid!Move, Shareds
  <2> DEFINE t == [th[r] EXCEPT !.waiter = "join"]
  <2>3. t \in Ths
    BY <1>1, <1>2 DEF Ths
  <2>4. th' = [th EXCEPT ![r] = t]
    BY <1>1, <1>4 DEF Hid!WaiterSeesExit, Hid!WaiterGoesOn, Hid!At, Hid!Move
  <2>5. /\ th' \in [Hid!Runs -> Ths] /\ th'[r] = t
       /\ \A s \in Hid!Runs \ {r} : th'[s] = th[s]
    BY <1>1, <2>3, <2>4
  <2>6. /\ th'[r].worker = th[r].worker
        /\ th'[r].writer = th[r].writer
        /\ th'[r].reader = th[r].reader
        /\ th'[r].waiter = "join"
    BY <1>1, <2>5 DEF Ths
  <2>7. child' = child
    BY <1>4 DEF Hid!WaiterSeesExit, Hid!WaiterGoesOn, Hid!At, Hid!Move
  <2>8. run' = run /\ q' = q /\ work' = work
    BY <1>2, <1>4 DEF Hid!WaiterSeesExit, Hid!WaiterGoesOn, Hid!At, Hid!Move
  <2>9. (WorkerOf(r) /\ WaiterOf(r) /\ ProcessOf(r))'
    BY <1>3, <2>2, <2>6, <2>7, <2>8 DEF WorkerOf, WaiterOf, ProcessOf
  <2>10. RunsInv'
    BY <1>1, <1>2, <2>1, <2>2, <2>5, <2>7, <2>8, <2>9, LocalKeeps
  <2>11. ASSUME EndsInv PROVE EndsInv'
    <3>1. OwnerInv /\ EndOf(r) /\ told' = told
      BY <1>4, <2>11 DEF EndsInv, Hid!WaiterSeesExit, Hid!WaiterGoesOn, Hid!At, Hid!Move
    <3>2. OwnerInv' /\ EndOf(r)'
      <4>1. OwnerInv'
        BY <2>2, <2>8, <3>1 DEF OwnerInv, ToldOfEnd
      <4>2. EndOf(r)'
        BY <2>2, <2>6, <2>7, <2>8, <3>1 DEF EndOf
      <4> QED BY <4>1, <4>2
    <3> QED BY <2>2, <2>5, <2>7, <2>8, <2>11, <3>1, <3>2, LocalEnds
  <2> QED BY <2>10, <2>11 DEF HiddenInv
<1>5. CASE Hid!WaiterJoins(r)
  <2>1. shared' \in Shareds
    <3>1. shared' = [shared EXCEPT !.cut = (shared.cut \/ (r = run /\ th[r].reader # "ended"))]
      BY <1>5 DEF Hid!WaiterJoins, Hid!At, Hid!Move
    <3>2. (shared.cut \/ (r = run /\ th[r].reader # "ended")) \in BOOLEAN
      BY <1>1 DEF Shareds
    <3> QED BY <1>1, <3>1, <3>2 DEF Shareds
  <2>2. /\ th[r].waiter = "join"
        /\ shared'.cut = (shared.cut \/ (r = run /\ th[r].reader # "ended"))
        /\ shared'.current = shared.current
        /\ shared'.disposed = shared.disposed
        /\ shared'.pending = shared.pending
        /\ shared'.early = shared.early
        /\ shared'.unwritten = shared.unwritten
        /\ shared'.own = shared.own
        /\ shared'.output = shared.output
        /\ shared'.finished = shared.finished
        /\ shared'.event = shared.event
    BY <1>1, <1>5 DEF Hid!WaiterJoins, Hid!At, Hid!Move, Shareds
  <2> DEFINE t == [th[r] EXCEPT !.waiter = "check"]
  <2>3. t \in Ths
    BY <1>1, <1>2 DEF Ths
  <2>4. th' = [th EXCEPT ![r] = t]
    BY <1>1, <1>5 DEF Hid!WaiterJoins, Hid!At, Hid!Move
  <2>5. /\ th' \in [Hid!Runs -> Ths] /\ th'[r] = t
       /\ \A s \in Hid!Runs \ {r} : th'[s] = th[s]
    BY <1>1, <2>3, <2>4
  <2>6. /\ th'[r].worker = th[r].worker
        /\ th'[r].writer = th[r].writer
        /\ th'[r].reader = th[r].reader
        /\ th'[r].waiter = "check"
    BY <1>1, <2>5 DEF Ths
  <2>7. child' = child
    BY <1>5 DEF Hid!WaiterJoins, Hid!At, Hid!Move
  <2>8. run' = run /\ q' = q /\ work' = work
    BY <1>2, <1>5 DEF Hid!WaiterJoins, Hid!At, Hid!Move
  <2>9. (WorkerOf(r) /\ WaiterOf(r) /\ ProcessOf(r))'
    BY <1>3, <2>2, <2>6, <2>7, <2>8 DEF WorkerOf, WaiterOf, ProcessOf
  <2>10. RunsInv'
    BY <1>1, <1>2, <2>1, <2>2, <2>5, <2>7, <2>8, <2>9, LocalKeeps
  <2>11. ASSUME EndsInv PROVE EndsInv'
    <3>1. OwnerInv /\ EndOf(r) /\ told' = told
      BY <1>5, <2>11 DEF EndsInv, Hid!WaiterJoins, Hid!At, Hid!Move
    <3>2. OwnerInv' /\ EndOf(r)'
      <4>1. OwnerInv'
        BY <2>2, <2>8, <3>1 DEF OwnerInv, ToldOfEnd
      <4>2. EndOf(r)'
        BY <2>2, <2>6, <2>7, <2>8, <3>1 DEF EndOf, ToldOfEnd
      <4> QED BY <4>1, <4>2
    <3>3. r # run => shared'.cut = shared.cut
      BY <1>1, <2>2 DEF Shareds
    <3> QED BY <2>2, <2>5, <2>7, <2>8, <2>11, <3>1, <3>2, <3>3, LocalEnds
  <2> QED BY <2>10, <2>11 DEF HiddenInv
<1>6. CASE Hid!WaiterChecks(r)
  <2>1. /\ th[r].waiter = "check"
        /\ shared' = shared
    BY <1>1, <1>6 DEF Hid!WaiterChecks, Hid!At, Hid!Move
  <2> DEFINE t == [th[r] EXCEPT !.waiter = (IF r = shared.current THEN "clear" ELSE "done")]
  <2>2. t \in Ths
    <3>1. (IF r = shared.current THEN "clear" ELSE "done") \in {"clear", "done"}
      OBVIOUS
    <3> QED BY <1>1, <3>1 DEF Ths
  <2>3. th' = [th EXCEPT ![r] = t]
    BY <1>1, <1>6 DEF Hid!WaiterChecks, Hid!At, Hid!Move
  <2>4. /\ th' \in [Hid!Runs -> Ths] /\ th'[r] = t
       /\ \A s \in Hid!Runs \ {r} : th'[s] = th[s]
    BY <1>1, <2>2, <2>3
  <2>5. /\ th'[r].worker = th[r].worker
        /\ th'[r].writer = th[r].writer
        /\ th'[r].reader = th[r].reader
        /\ th'[r].waiter = (IF r = shared.current THEN "clear" ELSE "done")
    BY <1>1, <2>4 DEF Ths
  <2>6. child' = child
    BY <1>6 DEF Hid!WaiterChecks, Hid!At, Hid!Move
  <2>7. run' = run /\ q' = q /\ work' = work
    BY <1>2, <1>6 DEF Hid!WaiterChecks, Hid!At, Hid!Move
  <2>8. (WorkerOf(r) /\ WaiterOf(r) /\ ProcessOf(r))'
    BY <1>2, <1>3, <2>1, <2>5, <2>6, <2>7
      DEF WorkerOf, WaiterOf, ProcessOf, FenceInv, Hid!OnlyTheCurrentRun
  <2>9. RunsInv'
    BY <1>1, <1>2, <2>1, <2>4, <2>6, <2>7, <2>8, LocalKeeps
  <2>10. ASSUME EndsInv PROVE EndsInv'
    <3>1. OwnerInv /\ EndOf(r) /\ told' = told
      BY <1>6, <2>10 DEF EndsInv, Hid!WaiterChecks, Hid!At, Hid!Move
    <3>2. OwnerInv' /\ EndOf(r)'
      <4>1. OwnerInv'
        BY <2>1, <2>7, <3>1 DEF OwnerInv, ToldOfEnd
      <4>2. EndOf(r)'
        BY <2>1, <2>5, <2>6, <2>7, <3>1 DEF EndOf
      <4> QED BY <4>1, <4>2
    <3> QED BY <2>1, <2>4, <2>6, <2>7, <2>10, <3>1, <3>2, LocalEnds
  <2> QED BY <2>9, <2>10 DEF HiddenInv
<1>7. CASE Hid!WaiterNotifies(r)
  <2>1. shared' \in Shareds
    <3>1. shared' = [shared EXCEPT !.finished = (IF r = shared.current
                                   /\ ~shared.disposed THEN r ELSE shared.finished)]
      BY <1>7 DEF Hid!WaiterNotifies, Hid!At, Hid!Move, Hid!WriterMayGoOn
    <3>2. /\ (IF r = shared.current
             /\ ~shared.disposed THEN r ELSE shared.finished) \in 0 .. MaxRuns
      BY <1>2, <1>3 DEF Hid!Runs, Shareds
    <3> QED BY <1>1, <3>1, <3>2 DEF Shareds
  <2>2. /\ th[r].waiter = "notify"
        /\ shared'.finished = (IF r = shared.current
           /\ ~shared.disposed THEN r ELSE shared.finished)
        /\ shared'.current = shared.current
        /\ shared'.disposed = shared.disposed
        /\ shared'.pending = shared.pending
        /\ shared'.early = shared.early
        /\ shared'.unwritten = shared.unwritten
        /\ shared'.own = shared.own
        /\ shared'.cut = shared.cut
        /\ shared'.output = shared.output
        /\ shared'.event = shared.event
    BY <1>1, <1>7 DEF Hid!WaiterNotifies, Hid!At, Hid!Move, Hid!WriterMayGoOn, Shareds
  <2> DEFINE t == [th[r] EXCEPT !.waiter = "signal"]
  <2>3. t \in Ths
    BY <1>1, <1>2 DEF Ths
  <2>4. th' = [th EXCEPT ![r] = t]
    BY <1>1, <1>7 DEF Hid!WaiterNotifies, Hid!At, Hid!Move, Hid!WriterMayGoOn
  <2>5. /\ th' \in [Hid!Runs -> Ths] /\ th'[r] = t
       /\ \A s \in Hid!Runs \ {r} : th'[s] = th[s]
    BY <1>1, <2>3, <2>4
  <2>6. /\ th'[r].worker = th[r].worker
        /\ th'[r].writer = th[r].writer
        /\ th'[r].reader = th[r].reader
        /\ th'[r].waiter = "signal"
    BY <1>1, <2>5 DEF Ths
  <2>7. child' = child
    BY <1>7 DEF Hid!WaiterNotifies, Hid!At, Hid!Move, Hid!WriterMayGoOn
  <2>8. run' = run /\ q' = q /\ work' = work
    BY <1>2, <1>7 DEF Hid!WaiterNotifies, Hid!At, Hid!Move, Hid!WriterMayGoOn
  <2>9. (WorkerOf(r) /\ WaiterOf(r) /\ ProcessOf(r))'
    BY <1>3, <2>2, <2>6, <2>7, <2>8 DEF WorkerOf, WaiterOf, ProcessOf
  <2>10. RunsInv'
    BY <1>1, <1>2, <2>1, <2>2, <2>5, <2>7, <2>8, <2>9, LocalKeeps
  <2>11. ASSUME EndsInv PROVE EndsInv'
    <3>1. OwnerInv /\ EndOf(r) /\ told' = told
      BY <1>7, <2>11 DEF EndsInv, Hid!WaiterNotifies, Hid!At, Hid!Move, Hid!WriterMayGoOn
    <3>2. OwnerInv' /\ EndOf(r)'
      <4>1. OwnerInv'
        BY <1>2, <1>3, <2>2, <2>8, <3>1 DEF OwnerInv, EndOf, ToldOfEnd, WaiterOf,
          ProcessOf, FenceInv, Hid!OnlyTheCurrentRun
      <4>2. ASSUME r = run
            PROVE  ToldOfEnd' \/ shared'.finished = run
        <5>1. run # 0
          BY <1>3, <4>2 DEF Hid!Runs
        <5>2. shared.disposed => ToldOfEnd
          BY <3>1, <5>1 DEF OwnerInv
        <5>3. shared.current = r \/ shared.disposed
          BY <1>3, <2>2, <4>2 DEF WaiterOf
        <5> QED BY <2>2, <3>1, <4>2, <5>2, <5>3 DEF ToldOfEnd
      <4>3. EndOf(r)'
        BY <2>2, <2>6, <2>7, <2>8, <3>1, <4>2 DEF EndOf
      <4> QED BY <4>1, <4>3
    <3> QED BY <1>2, <1>3, <2>2, <2>5, <2>7, <2>8, <2>11, <3>1, <3>2, LocalEnds
        DEF FenceInv
  <2> QED BY <2>10, <2>11 DEF HiddenInv
<1>8. CASE Hid!WaiterSignals(r)
  <2>1. shared' \in Shareds
    <3>1. shared' = [shared EXCEPT !.event = (shared.event \/ r = run)]
      BY <1>8 DEF Hid!WaiterSignals, Hid!At, Hid!Move
    <3>2. (shared.event \/ r = run) \in BOOLEAN
      BY <1>1 DEF Shareds
    <3> QED BY <1>1, <3>1, <3>2 DEF Shareds
  <2>2. /\ th[r].waiter = "signal"
        /\ shared'.event = (shared.event \/ r = run)
        /\ shared'.current = shared.current
        /\ shared'.disposed = shared.disposed
        /\ shared'.pending = shared.pending
        /\ shared'.early = shared.early
        /\ shared'.unwritten = shared.unwritten
        /\ shared'.own = shared.own
        /\ shared'.cut = shared.cut
        /\ shared'.output = shared.output
        /\ shared'.finished = shared.finished
    BY <1>1, <1>8 DEF Hid!WaiterSignals, Hid!At, Hid!Move, Shareds
  <2> DEFINE t == [th[r] EXCEPT !.waiter = "done"]
  <2>3. t \in Ths
    BY <1>1, <1>2 DEF Ths
  <2>4. th' = [th EXCEPT ![r] = t]
    BY <1>1, <1>8 DEF Hid!WaiterSignals, Hid!At, Hid!Move
  <2>5. /\ th' \in [Hid!Runs -> Ths] /\ th'[r] = t
       /\ \A s \in Hid!Runs \ {r} : th'[s] = th[s]
    BY <1>1, <2>3, <2>4
  <2>6. /\ th'[r].worker = th[r].worker
        /\ th'[r].writer = th[r].writer
        /\ th'[r].reader = th[r].reader
        /\ th'[r].waiter = "done"
    BY <1>1, <2>5 DEF Ths
  <2>7. child' = child
    BY <1>8 DEF Hid!WaiterSignals, Hid!At, Hid!Move
  <2>8. run' = run /\ q' = q /\ work' = work
    BY <1>2, <1>8 DEF Hid!WaiterSignals, Hid!At, Hid!Move
  <2>9. (WorkerOf(r) /\ WaiterOf(r) /\ ProcessOf(r))'
    BY <1>3, <2>2, <2>6, <2>7, <2>8 DEF WorkerOf, WaiterOf, ProcessOf
  <2>10. RunsInv'
    BY <1>1, <1>2, <2>1, <2>2, <2>5, <2>7, <2>8, <2>9, LocalKeeps
  <2>11. ASSUME EndsInv PROVE EndsInv'
    <3>1. OwnerInv /\ EndOf(r) /\ told' = told
      BY <1>8, <2>11 DEF EndsInv, Hid!WaiterSignals, Hid!At, Hid!Move
    <3>2. OwnerInv' /\ EndOf(r)'
      <4>0. r = run /\ q.gui = "loop" => ToldOfEnd \/ shared.finished = run
        BY <2>2, <3>1 DEF EndOf
      <4>1. OwnerInv'
        BY <2>2, <2>8, <3>1, <4>0 DEF OwnerInv, ToldOfEnd
      <4>2. EndOf(r)'
        BY <2>2, <2>6, <2>7, <2>8, <3>1 DEF EndOf
      <4> QED BY <4>1, <4>2
    <3> QED BY <2>2, <2>5, <2>7, <2>8, <2>11, <3>1, <3>2, LocalEnds
  <2> QED BY <2>10, <2>11 DEF HiddenInv
<1>9. CASE Hid!WaiterFails(r) /\ r = shared.current
  <2>1. shared' \in Shareds
    <3>1. shared' = [shared EXCEPT !.paused = FALSE, !.closing = TRUE]
      BY <1>9 DEF Hid!WaiterFails, Hid!WaiterGoesOn, Hid!At, Hid!Move, Hid!Works
    <3> QED BY <1>1, <3>1 DEF Shareds
  <2>2. /\ th[r].waiter = "wait"
        /\ shared'.paused = FALSE
        /\ shared'.closing = TRUE
        /\ shared'.current = shared.current
        /\ shared'.disposed = shared.disposed
        /\ shared'.pending = shared.pending
        /\ shared'.early = shared.early
        /\ shared'.unwritten = shared.unwritten
        /\ shared'.own = shared.own
        /\ shared'.cut = shared.cut
        /\ shared'.output = shared.output
        /\ shared'.finished = shared.finished
        /\ shared'.event = shared.event
    BY <1>1, <1>9 DEF Hid!WaiterFails, Hid!WaiterGoesOn, Hid!At, Hid!Move, Hid!Works, Shareds
  <2> DEFINE t == [th[r] EXCEPT !.waiter = "join"]
  <2>3. t \in Ths
    BY <1>1, <1>2 DEF Ths
  <2>4. th' = [th EXCEPT ![r] = t]
    BY <1>1, <1>9 DEF Hid!WaiterFails, Hid!WaiterGoesOn, Hid!At, Hid!Move, Hid!Works
  <2>5. /\ th' \in [Hid!Runs -> Ths] /\ th'[r] = t
       /\ \A s \in Hid!Runs \ {r} : th'[s] = th[s]
    BY <1>1, <2>3, <2>4
  <2>6. /\ th'[r].worker = th[r].worker
        /\ th'[r].writer = th[r].writer
        /\ th'[r].reader = th[r].reader
        /\ th'[r].waiter = "join"
    BY <1>1, <2>5 DEF Ths
  <2>7. child' = child
    BY <1>9 DEF Hid!WaiterFails, Hid!WaiterGoesOn, Hid!At, Hid!Move, Hid!Works
  <2>8. run' = run /\ q' = q /\ work' \in 0 .. MaxWork /\ work <= work'
    BY <1>2, <1>9 DEF Hid!WaiterFails, Hid!WaiterGoesOn, Hid!At, Hid!Move, Hid!Works
  <2>9. (WorkerOf(r) /\ WaiterOf(r) /\ ProcessOf(r))'
    BY <1>2, <1>3, <2>2, <2>6, <2>7, <2>8 DEF WorkerOf, WaiterOf, ProcessOf
  <2>10. RunsInv'
    BY <1>1, <1>2, <2>1, <2>2, <2>5, <2>7, <2>8, <2>9, LocalKeeps
  <2>11. ASSUME EndsInv PROVE EndsInv'
    <3>1. OwnerInv /\ EndOf(r) /\ told' = told
      BY <1>9, <2>11 DEF EndsInv, Hid!WaiterFails, Hid!WaiterGoesOn, Hid!At, Hid!Move, Hid!Works
    <3>2. OwnerInv' /\ EndOf(r)'
      <4>1. OwnerInv'
        BY <2>2, <2>8, <3>1 DEF OwnerInv, ToldOfEnd
      <4>2. EndOf(r)'
        BY <2>2, <2>6, <2>7, <2>8, <3>1 DEF EndOf
      <4> QED BY <4>1, <4>2
    <3> QED BY <2>2, <2>5, <2>7, <2>8, <2>11, <3>1, <3>2, LocalEnds
  <2> QED BY <2>10, <2>11 DEF HiddenInv
<1>10. CASE Hid!WaiterFails(r) /\ r # shared.current
  <2>1. th[r].waiter = "wait" /\ r # shared.current /\ shared' = shared
    BY <1>10 DEF Hid!WaiterFails, Hid!At, Hid!Move
  <2> DEFINE t == [th[r] EXCEPT !.waiter = "done"]
  <2>2. t \in Ths
    BY <1>1, <1>2 DEF Ths
  <2>3. th' = [th EXCEPT ![r] = t]
    BY <1>1, <1>10 DEF Hid!WaiterFails, Hid!At, Hid!Move
  <2>4. /\ th' \in [Hid!Runs -> Ths] /\ th'[r] = t
       /\ \A s \in Hid!Runs \ {r} : th'[s] = th[s]
    BY <1>1, <2>2, <2>3
  <2>5. /\ th'[r].worker = th[r].worker
        /\ th'[r].writer = th[r].writer
        /\ th'[r].reader = th[r].reader
        /\ th'[r].waiter = "done"
    BY <1>1, <2>4 DEF Ths
  <2>6. child' = child
    BY <1>10 DEF Hid!WaiterFails
  <2>7. run' = run /\ q' = q /\ work' \in 0 .. MaxWork /\ work <= work'
    BY <1>2, <1>10 DEF Hid!WaiterFails, Hid!Works
  <2>8. (WorkerOf(r) /\ WaiterOf(r) /\ ProcessOf(r))'
    BY <1>2, <1>3, <2>1, <2>5, <2>6, <2>7
      DEF WorkerOf, WaiterOf, ProcessOf, FenceInv, Hid!OnlyTheCurrentRun
  <2>9. RunsInv'
    BY <1>1, <1>2, <2>1, <2>4, <2>6, <2>7, <2>8, LocalKeeps
  <2>10. ASSUME EndsInv PROVE EndsInv'
    <3>1. OwnerInv /\ EndOf(r) /\ told' = told
      BY <1>10, <2>10 DEF EndsInv, Hid!WaiterFails
    <3>2. OwnerInv' /\ EndOf(r)'
      <4>1. OwnerInv'
        BY <2>1, <2>7, <3>1 DEF OwnerInv, ToldOfEnd
      <4>2. EndOf(r)'
        BY <1>3, <2>1, <2>5, <2>6, <2>7, <3>1 DEF EndOf, ToldOfEnd, WaiterOf, OwnerInv
      <4> QED BY <4>1, <4>2
    <3> QED BY <2>1, <2>4, <2>6, <2>7, <2>10, <3>1, <3>2, LocalEnds
  <2> QED BY <2>9, <2>10 DEF HiddenInv
<1> QED BY <1>4, <1>5, <1>6, <1>7, <1>8, <1>9, <1>10 DEF Hid!Waiter

(* What a run that is over was told.                                       *)
LEMMA OverIs ==
  ASSUME told \in Tolds, run = 0 => told = <<>>
  PROVE  Hid!Over <=> run = 0 \/ ToldOfEnd
  BY DEF Hid!Over, Tolds, ToldOfEnd

(* The signals of a run, one after the other.                              *)
LEMMA Appends ==
  /\ Append(<<>>, "started") = <<"started">> /\ Append(<<>>, "error") = <<"error">>
  /\ Append(<<>>, "finished") = <<"finished">> /\ Append(<<>>, "closed") = <<"closed">>
  /\ Append(<<"started">>, "finished") = <<"started", "finished">>
  /\ Append(<<"started">>, "closed") = <<"started", "closed">>
  /\ <<"error">> \notin {<<>>, <<"started">>} /\ <<"finished">> \notin {<<>>,
     <<"started">>}
  /\ <<"closed">> \notin {<<>>, <<"started">>}
  /\ <<"started", "finished">> \notin {<<>>, <<"started">>}
  /\ <<"started", "closed">> \notin {<<>>, <<"started">>}
  /\ <<>> \o <<"error">> = <<"error">> /\ <<>> \o <<"finished">> = <<"finished">>
  /\ <<>> \o <<"closed">> = <<"closed">>
  /\ <<"started">> \o <<"finished">> = <<"started", "finished">>
  /\ <<"started">> \o <<"closed">> = <<"started", "closed">>
<1>1. ASSUME NEW w \in Words
      PROVE  <<"started">> \o <<w>> = <<"started", w>> /\ <<>> \o <<w>> = <<w>>
  <2>1. <<>> \in Seq(Words) /\ <<"started">> \in Seq(Words)
    BY DEF Words
  <2>2. /\ Append(<<"started">>, w) = <<"started">> \o <<w>>
        /\ Append(<<>>, w) = <<>> \o <<w>>
    BY <2>1, AppendIsConcat
  <2>3. Append(<<>>, w) = <<w>>
    OBVIOUS
  <2> QED
    BY <2>2, <2>3, Tuples
<1> QED
  BY <1>1, Tuples DEF Words

(* A start that is given up hands a running child to a closer.             *)
LEMMA ClosersHave ==
  ASSUME NEW s \in Hid!Runs, s # 0, shared.pending = s, child[s].life = "running"
  PROVE  s \in Hid!Closers
  BY DEF Hid!Closers

(* The methods of the owner.                                               *)
LEMMA MethodsKeep ==
  ASSUME HidBounds, HiddenInv, Hid!Owner
  PROVE  HiddenInv'
<1> RunsInv
  BY DEF HiddenInv
<1>1. q \in Objects /\ shared \in Shareds /\ th \in [Hid!Runs -> Ths]
      /\ child \in [Hid!Runs -> Children]
  BY TypedObject
<1>2. /\ run \in 0 .. MaxRuns /\ work \in 0 .. MaxWork /\ MaxRuns \in Nat
      /\ MaxWork \in Nat /\ InputCap \in Nat \ {0} /\ 0 \in 0 .. MaxRuns /\ 0 \in 0 .. MaxWork
      /\ 0 \in 0 .. InputCap /\ 0 \in 0 .. 3
      /\ shared.unwritten \in 0 .. InputCap /\ shared.own \in Nat
      /\ shared.finished \in 0 .. MaxRuns /\ shared.pending \in 0 .. MaxRuns
      /\ q.state \in {"NotRunning", "Starting", "Running"} /\ q.proc \in 0 .. MaxRuns
      /\ shared.early \in 0 .. 3 /\ shared.early % 2 \in {0, 1} /\ FenceInv
  BY <1>1, Numbers, EarlyInput DEF Shareds, Objects, RunsInv
<1>o. ASSUME EndsInv PROVE Hid!Over <=> run = 0 \/ ToldOfEnd
  BY <1>2, <1>o, OverIs DEF EndsInv, OwnerInv
<1>3. CASE Hid!StartClears
  <2>1. q' \in Objects
    <3>1. q' = [q EXCEPT !.gui = "start",
                         !.rushed = (\E r \in Hid!Runs : r = run /\ th[r].waiter = "notify")]
      BY <1>3 DEF Hid!StartClears, Hid!Idle, Hid!At
    <3>2. (\E r \in Hid!Runs : r = run /\ th[r].waiter = "notify") \in BOOLEAN
      OBVIOUS
    <3> QED BY <1>1, <1>2, <3>1, <3>2 DEF Objects
  <2>2. shared' \in Shareds
    <3>1. shared' = [shared EXCEPT !.paused = FALSE, !.own = 0,
                                   !.output = FALSE, !.finished = 0]
      BY <1>3 DEF Hid!StartClears, Hid!Idle
    <3> QED BY <1>1, <1>2, <3>1 DEF Shareds
  <2>3. /\ q.gui = "loop"
        /\ ~shared.disposed
        /\ q.state = "NotRunning"
        /\ run < MaxRuns
        /\ q'.state = q.state
        /\ q'.proc = q.proc
        /\ q'.gui = "start"
        /\ q'.stray = q.stray
        /\ shared'.current = shared.current
        /\ shared'.disposed = shared.disposed
        /\ shared'.pending = shared.pending
        /\ shared'.early = shared.early
        /\ shared'.unwritten = shared.unwritten
        /\ shared'.own = 0
        /\ shared'.cut = shared.cut
        /\ shared'.output = FALSE
        /\ shared'.finished = 0
        /\ shared'.event = shared.event
    BY <1>1, <1>3 DEF Hid!StartClears, Hid!Idle, Objects, Shareds
  <2>m. ASSUME NEW r \in Hid!Runs, r = run, th[r].waiter = "notify" PROVE q'.rushed
    <3>1. q' = [q EXCEPT !.gui = "start",
                         !.rushed = \E s \in Hid!Runs : s = run /\ Hid!At(s, "waiter", "notify")]
      BY <1>3 DEF Hid!StartClears
    <3>2. \E s \in Hid!Runs : s = run /\ Hid!At(s, "waiter", "notify")
      BY <2>m DEF Hid!At
    <3> QED BY <1>1, <3>1, <3>2 DEF Objects
  <2>4. th' = th
    BY <1>3 DEF Hid!StartClears, Hid!Idle
  <2>5. child' = child
    BY <1>3 DEF Hid!StartClears, Hid!Idle
  <2>6. run' = run /\ work' = work
    BY <1>2, <1>3 DEF Hid!StartClears, Hid!Idle
  <2>7. Hid!TypeOK'
    BY <1>1, <1>2, <2>1, <2>2, <2>4, <2>5, <2>6
      DEF Hid!TypeOK, Objects, Shareds, Ths, Children
  <2>8. FenceInv'
    BY <1>2, <2>3, <2>6 DEF FenceInv, Hid!OnlyTheCurrentRun, Hid!StaleWorker
  <2>9. ASSUME NEW s \in Hid!Runs PROVE (WorkerOf(s) /\ WaiterOf(s) /\ ProcessOf(s))'
    <3>1. /\ WorkerOf(s) /\ WaiterOf(s) /\ ProcessOf(s)
          /\ s \in 1 .. MaxRuns /\ child[s].pipe \in Nat /\ child[s].input \in Nat
      BY Numbers DEF RunsInv
    <3>2. th'[s] = th[s] /\ child'[s] = child[s]
      BY <2>4, <2>5
    <3> QED BY <2>3, <2>6, <3>1, <3>2 DEF WorkerOf, WaiterOf, ProcessOf, Hid!StaleWorker
  <2>10. RunsInv'
    BY <2>7, <2>8, <2>9 DEF RunsInv
  <2>11. ASSUME EndsInv PROVE EndsInv'
    <3>1. /\ OwnerInv
          /\ told' = told
      BY <1>3, <2>11 DEF EndsInv, Hid!StartClears, Hid!Idle
    <3>2. OwnerInv'
      BY <2>3, <2>6, <3>1, <1>o, <2>11 DEF OwnerInv, ToldOfEnd
    <3>3. ASSUME NEW s \in Hid!Runs PROVE EndOf(s)'
      <4>1. EndOf(s) /\ WorkerOf(s) /\ WaiterOf(s) /\ ProcessOf(s) /\ s \in 1 .. MaxRuns
        BY <2>11, Numbers DEF EndsInv, RunsInv
      <4>2. th'[s] = th[s] /\ child'[s] = child[s]
        BY <2>4, <2>5
      <4> QED BY <2>3, <2>m, <2>6, <3>1, <4>1, <4>2, <1>o, <2>11 DEF EndOf, ToldOfEnd
    <3> QED BY <3>2, <3>3 DEF EndsInv
  <2> QED BY <2>10, <2>11 DEF HiddenInv
<1>4. CASE Hid!SetOutputPaused
  <2>1. q' = q
    BY <1>4 DEF Hid!SetOutputPaused, Hid!Idle
  <2>2. shared' \in Shareds
    <3>1. shared' = [shared EXCEPT !.paused = ~shared.paused]
      BY <1>4 DEF Hid!SetOutputPaused, Hid!Idle
    <3>2. (~shared.paused) \in BOOLEAN
      BY <1>1
    <3> QED BY <1>1, <1>2, <3>1, <3>2 DEF Shareds
  <2>3. /\ q.gui = "loop"
        /\ ~shared.disposed
        /\ q' = q
        /\ shared'.current = shared.current
        /\ shared'.disposed = shared.disposed
        /\ shared'.pending = shared.pending
        /\ shared'.early = shared.early
        /\ shared'.unwritten = shared.unwritten
        /\ shared'.own = shared.own
        /\ shared'.cut = shared.cut
        /\ shared'.output = shared.output
        /\ shared'.finished = shared.finished
        /\ shared'.event = shared.event
    BY <1>1, <1>4 DEF Hid!SetOutputPaused, Hid!Idle, Objects, Shareds
  <2>4. th' = th
    BY <1>4 DEF Hid!SetOutputPaused, Hid!Idle
  <2>5. child' = child
    BY <1>4 DEF Hid!SetOutputPaused, Hid!Idle
  <2>6. run' = run /\ work' = work
    BY <1>2, <1>4 DEF Hid!SetOutputPaused, Hid!Idle
  <2>7. Hid!TypeOK'
    BY <1>1, <1>2, <2>1, <2>2, <2>4, <2>5, <2>6
      DEF Hid!TypeOK, Objects, Shareds, Ths, Children
  <2>8. FenceInv'
    BY <1>2, <2>3, <2>6 DEF FenceInv, Hid!OnlyTheCurrentRun, Hid!StaleWorker
  <2>9. ASSUME NEW s \in Hid!Runs PROVE (WorkerOf(s) /\ WaiterOf(s) /\ ProcessOf(s))'
    <3>1. /\ WorkerOf(s) /\ WaiterOf(s) /\ ProcessOf(s)
          /\ s \in 1 .. MaxRuns /\ child[s].pipe \in Nat /\ child[s].input \in Nat
      BY Numbers DEF RunsInv
    <3>2. th'[s] = th[s] /\ child'[s] = child[s]
      BY <2>4, <2>5
    <3> QED BY <2>3, <2>6, <3>1, <3>2 DEF WorkerOf, WaiterOf, ProcessOf, Hid!StaleWorker
  <2>10. RunsInv'
    BY <2>7, <2>8, <2>9 DEF RunsInv
  <2>11. ASSUME EndsInv PROVE EndsInv'
    <3>1. /\ OwnerInv
          /\ told' = told
      BY <1>4, <2>11 DEF EndsInv, Hid!SetOutputPaused, Hid!Idle
    <3>2. OwnerInv'
      BY <2>3, <2>6, <3>1 DEF OwnerInv, ToldOfEnd
    <3>3. ASSUME NEW s \in Hid!Runs PROVE EndOf(s)'
      <4>1. EndOf(s) /\ WorkerOf(s) /\ WaiterOf(s) /\ ProcessOf(s) /\ s \in 1 .. MaxRuns
        BY <2>11, Numbers DEF EndsInv, RunsInv
      <4>2. th'[s] = th[s] /\ child'[s] = child[s]
        BY <2>4, <2>5
      <4> QED BY <2>3, <2>6, <3>1, <4>1, <4>2 DEF EndOf, ToldOfEnd
    <3> QED BY <3>2, <3>3 DEF EndsInv
  <2> QED BY <2>10, <2>11 DEF HiddenInv
<1>5. CASE Hid!CloseWriteChannel
  <2>1. CASE /\ q.gui = "loop"
             /\ ~shared.disposed
             /\ q.state = "Starting"
             /\ shared.early < 2
             /\ shared' = [shared EXCEPT !.early = shared.early + 2]
    <3>1. q' = q
      BY <1>5, <2>1 DEF Hid!CloseWriteChannel
    <3>2. shared' \in Shareds
      <4>1. shared' = [shared EXCEPT !.early = shared.early + 2]
        BY <1>5, <2>1 DEF Hid!CloseWriteChannel
      <4>2. shared.early + 2 \in 0 .. 3
        BY <1>2, <2>1
      <4> QED BY <1>1, <1>2, <4>1, <4>2 DEF Shareds
    <3>3. /\ q.gui = "loop"
          /\ ~shared.disposed
          /\ q.state = "Starting"
          /\ shared.early < 2
          /\ q' = q
          /\ shared'.current = shared.current
          /\ shared'.disposed = shared.disposed
          /\ shared'.pending = shared.pending
          /\ shared'.early = shared.early + 2
          /\ shared'.unwritten = shared.unwritten
          /\ shared'.own = shared.own
          /\ shared'.cut = shared.cut
          /\ shared'.output = shared.output
          /\ shared'.finished = shared.finished
          /\ shared'.event = shared.event
      BY <1>1, <1>5, <2>1 DEF Hid!CloseWriteChannel, Objects, Shareds
    <3>4. th' = th
      BY <1>5, <2>1 DEF Hid!CloseWriteChannel
    <3>5. child' = child
      BY <1>5, <2>1 DEF Hid!CloseWriteChannel
    <3>6. run' = run /\ work' = work
      BY <1>2, <1>5, <2>1 DEF Hid!CloseWriteChannel
    <3>7. Hid!TypeOK'
      BY <1>1, <1>2, <3>1, <3>2, <3>4, <3>5, <3>6
        DEF Hid!TypeOK, Objects, Shareds, Ths, Children
    <3>8. FenceInv'
      BY <1>2, <3>3, <3>6, EarlyInput DEF FenceInv, Hid!OnlyTheCurrentRun, Hid!StaleWorker
    <3>9. ASSUME NEW s \in Hid!Runs PROVE (WorkerOf(s) /\ WaiterOf(s) /\ ProcessOf(s))'
      <4>1. /\ WorkerOf(s) /\ WaiterOf(s) /\ ProcessOf(s)
            /\ s \in 1 .. MaxRuns /\ child[s].pipe \in Nat /\ child[s].input \in Nat
        BY Numbers DEF RunsInv
      <4>2. th'[s] = th[s] /\ child'[s] = child[s]
        BY <3>4, <3>5
      <4> QED BY <3>3, <3>6, <4>1, <4>2 DEF WorkerOf, WaiterOf, ProcessOf, Hid!StaleWorker
    <3>10. RunsInv'
      BY <3>7, <3>8, <3>9 DEF RunsInv
    <3>11. ASSUME EndsInv PROVE EndsInv'
      <4>1. /\ OwnerInv
            /\ told' = told
        BY <1>5, <2>1, <3>11 DEF EndsInv, Hid!CloseWriteChannel
      <4>2. OwnerInv'
        BY <3>3, <3>6, <4>1 DEF OwnerInv, ToldOfEnd
      <4>3. ASSUME NEW s \in Hid!Runs PROVE EndOf(s)'
        <5>1. EndOf(s) /\ WorkerOf(s) /\ WaiterOf(s) /\ ProcessOf(s) /\ s \in 1 .. MaxRuns
          BY <3>11, Numbers DEF EndsInv, RunsInv
        <5>2. th'[s] = th[s] /\ child'[s] = child[s]
          BY <3>4, <3>5
        <5> QED BY <3>3, <3>6, <4>1, <5>1, <5>2 DEF EndOf, ToldOfEnd
      <4> QED BY <4>2, <4>3 DEF EndsInv
    <3> QED BY <3>10, <3>11 DEF HiddenInv
  <2>2. CASE /\ q.gui = "loop"
             /\ ~shared.disposed
             /\ q.state # "Starting"
             /\ q.proc # 0
             /\ shared' = [shared EXCEPT !.closing = TRUE]
    <3>1. q' = q
      BY <1>5, <2>2 DEF Hid!CloseWriteChannel
    <3>2. shared' \in Shareds
      <4>1. shared' = [shared EXCEPT !.closing = TRUE]
        BY <1>5, <2>2 DEF Hid!CloseWriteChannel
      <4> QED BY <1>1, <1>2, <4>1 DEF Shareds
    <3>3. /\ q.gui = "loop"
          /\ ~shared.disposed
          /\ q.state # "Starting"
          /\ q.proc # 0
          /\ q' = q
          /\ shared'.current = shared.current
          /\ shared'.disposed = shared.disposed
          /\ shared'.pending = shared.pending
          /\ shared'.early = shared.early
          /\ shared'.unwritten = shared.unwritten
          /\ shared'.own = shared.own
          /\ shared'.cut = shared.cut
          /\ shared'.output = shared.output
          /\ shared'.finished = shared.finished
          /\ shared'.event = shared.event
      BY <1>1, <1>5, <2>2 DEF Hid!CloseWriteChannel, Objects, Shareds
    <3>4. th' = th
      BY <1>5, <2>2 DEF Hid!CloseWriteChannel
    <3>5. child' = child
      BY <1>5, <2>2 DEF Hid!CloseWriteChannel
    <3>6. run' = run /\ work' = work
      BY <1>2, <1>5, <2>2 DEF Hid!CloseWriteChannel
    <3>7. Hid!TypeOK'
      BY <1>1, <1>2, <3>1, <3>2, <3>4, <3>5, <3>6
        DEF Hid!TypeOK, Objects, Shareds, Ths, Children
    <3>8. FenceInv'
      BY <1>2, <3>3, <3>6, EarlyInput DEF FenceInv, Hid!OnlyTheCurrentRun, Hid!StaleWorker
    <3>9. ASSUME NEW s \in Hid!Runs PROVE (WorkerOf(s) /\ WaiterOf(s) /\ ProcessOf(s))'
      <4>1. /\ WorkerOf(s) /\ WaiterOf(s) /\ ProcessOf(s)
            /\ s \in 1 .. MaxRuns /\ child[s].pipe \in Nat /\ child[s].input \in Nat
        BY Numbers DEF RunsInv
      <4>2. th'[s] = th[s] /\ child'[s] = child[s]
        BY <3>4, <3>5
      <4> QED BY <3>3, <3>6, <4>1, <4>2 DEF WorkerOf, WaiterOf, ProcessOf, Hid!StaleWorker
    <3>10. RunsInv'
      BY <3>7, <3>8, <3>9 DEF RunsInv
    <3>11. ASSUME EndsInv PROVE EndsInv'
      <4>1. /\ OwnerInv
            /\ told' = told
        BY <1>5, <2>2, <3>11 DEF EndsInv, Hid!CloseWriteChannel
      <4>2. OwnerInv'
        BY <3>3, <3>6, <4>1 DEF OwnerInv, ToldOfEnd
      <4>3. ASSUME NEW s \in Hid!Runs PROVE EndOf(s)'
        <5>1. EndOf(s) /\ WorkerOf(s) /\ WaiterOf(s) /\ ProcessOf(s) /\ s \in 1 .. MaxRuns
          BY <3>11, Numbers DEF EndsInv, RunsInv
        <5>2. th'[s] = th[s] /\ child'[s] = child[s]
          BY <3>4, <3>5
        <5> QED BY <3>3, <3>6, <4>1, <5>1, <5>2 DEF EndOf, ToldOfEnd
      <4> QED BY <4>2, <4>3 DEF EndsInv
    <3> QED BY <3>10, <3>11 DEF HiddenInv
  <2> QED BY <1>5, <2>1, <2>2 DEF Hid!CloseWriteChannel, Hid!Idle
<1>7. CASE Hid!Write
  <2>1. CASE /\ q.gui = "loop"
             /\ ~shared.disposed
             /\ work < MaxWork
             /\ work' = work + 1
             /\ q.state = "Starting"
             /\ shared.early % 2 = 0
             /\ shared' = [shared EXCEPT !.early = shared.early + 1] /\ child' = child
    <3>1. q' = q
      BY <1>7, <2>1 DEF Hid!Write, Hid!Works
    <3>2. shared' \in Shareds
      <4>1. shared' = [shared EXCEPT !.early = shared.early + 1]
        BY <1>7, <2>1 DEF Hid!Write, Hid!Works
      <4>2. shared.early + 1 \in 0 .. 3
        BY <1>2, <2>1
      <4> QED BY <1>1, <1>2, <4>1, <4>2 DEF Shareds
    <3>3. /\ q.gui = "loop"
          /\ ~shared.disposed
          /\ work < MaxWork
          /\ work' = work + 1
          /\ q.state = "Starting"
          /\ shared.early % 2 = 0
          /\ q' = q
          /\ shared'.current = shared.current
          /\ shared'.disposed = shared.disposed
          /\ shared'.pending = shared.pending
          /\ shared'.early = shared.early + 1
          /\ shared'.unwritten = shared.unwritten
          /\ shared'.own = shared.own
          /\ shared'.cut = shared.cut
          /\ shared'.output = shared.output
          /\ shared'.finished = shared.finished
          /\ shared'.event = shared.event
      BY <1>1, <1>7, <2>1 DEF Hid!Write, Hid!Works, Objects, Shareds
    <3>4. th' = th
      BY <1>7, <2>1 DEF Hid!Write, Hid!Works
    <3>5. child' = child
      BY <1>7, <2>1 DEF Hid!Write, Hid!Works
    <3>6. run' = run /\ work' \in 0 .. MaxWork /\ work' = work + 1
      BY <1>2, <1>7, <2>1 DEF Hid!Write, Hid!Works
    <3>7. Hid!TypeOK'
      BY <1>1, <1>2, <3>1, <3>2, <3>4, <3>5, <3>6
        DEF Hid!TypeOK, Objects, Shareds, Ths, Children
    <3>8. FenceInv'
      BY <1>2, <3>3, <3>6, EarlyInput DEF FenceInv, Hid!OnlyTheCurrentRun, Hid!StaleWorker
    <3>9. ASSUME NEW s \in Hid!Runs PROVE (WorkerOf(s) /\ WaiterOf(s) /\ ProcessOf(s))'
      <4>1. /\ WorkerOf(s) /\ WaiterOf(s) /\ ProcessOf(s)
            /\ s \in 1 .. MaxRuns /\ child[s].pipe \in Nat /\ child[s].input \in Nat
        BY Numbers DEF RunsInv
      <4>2. th'[s] = th[s] /\ child'[s] = child[s]
        BY <3>4, <3>5
      <4> QED BY <1>2, <3>3, <3>6, <4>1, <4>2
          DEF WorkerOf, WaiterOf, ProcessOf, Hid!StaleWorker
    <3>10. RunsInv'
      BY <3>7, <3>8, <3>9 DEF RunsInv
    <3>11. ASSUME EndsInv PROVE EndsInv'
      <4>1. /\ OwnerInv
            /\ told' = told
        BY <1>7, <2>1, <3>11 DEF EndsInv, Hid!Write, Hid!Works
      <4>2. OwnerInv'
        BY <3>3, <3>6, <4>1 DEF OwnerInv, ToldOfEnd
      <4>3. ASSUME NEW s \in Hid!Runs PROVE EndOf(s)'
        <5>1. EndOf(s) /\ WorkerOf(s) /\ WaiterOf(s) /\ ProcessOf(s) /\ s \in 1 .. MaxRuns
          BY <3>11, Numbers DEF EndsInv, RunsInv
        <5>2. th'[s] = th[s] /\ child'[s] = child[s]
          BY <3>4, <3>5
        <5> QED BY <3>3, <3>6, <4>1, <5>1, <5>2 DEF EndOf, ToldOfEnd
      <4> QED BY <4>2, <4>3 DEF EndsInv
    <3> QED BY <3>10, <3>11 DEF HiddenInv
  <2>2. CASE /\ q.gui = "loop"
             /\ ~shared.disposed
             /\ work < MaxWork
             /\ work' = work + 1
             /\ q.state = "Running"
             /\ q.proc # 0
             /\ shared.unwritten < InputCap
             /\ shared' = [shared EXCEPT !.unwritten = shared.unwritten + 1]
             /\ child' = [child EXCEPT ![q.proc].input = child[q.proc].input + 1]
    <3>p. PICK r \in Hid!Runs : r = q.proc
      BY <1>2, <2>2 DEF Hid!Runs
    <3>r. /\ r \in 1 .. MaxRuns /\ r \in 0 .. MaxRuns /\ r = q.proc
          /\ WorkerOf(r) /\ WaiterOf(r) /\ ProcessOf(r)
          /\ child[r].pipe \in 0 .. MaxWork /\ child[r].input \in 0 .. MaxWork
      BY <3>p, Numbers DEF RunsInv
    <3>1. q' = q
      BY <1>7, <2>2 DEF Hid!Write, Hid!Works
    <3>2. shared' \in Shareds
      <4>1. shared' = [shared EXCEPT !.unwritten = shared.unwritten + 1]
        BY <1>7, <2>2 DEF Hid!Write, Hid!Works
      <4>2. shared.unwritten + 1 \in 0 .. InputCap
        BY <1>2, <2>2
      <4> QED BY <1>1, <1>2, <3>r, <4>1, <4>2 DEF Shareds, Hid!Runs
    <3>3. /\ q.gui = "loop"
          /\ ~shared.disposed
          /\ work < MaxWork
          /\ work' = work + 1
          /\ q.state = "Running"
          /\ q.proc # 0
          /\ shared.unwritten < InputCap
          /\ q' = q
          /\ shared'.current = shared.current
          /\ shared'.disposed = shared.disposed
          /\ shared'.pending = shared.pending
          /\ shared'.early = shared.early
          /\ shared'.unwritten = shared.unwritten + 1
          /\ shared'.own = shared.own
          /\ shared'.cut = shared.cut
          /\ shared'.output = shared.output
          /\ shared'.finished = shared.finished
          /\ shared'.event = shared.event
      BY <1>7, <2>2 DEF Hid!Write
    <3>4. th' = th
      BY <1>7, <2>2 DEF Hid!Write, Hid!Works
    <3> DEFINE c == [child[r] EXCEPT !.input = child[r].input + 1]
    <3>5. c \in Children
      <4>1. child[r].input + 1 \in 0 .. MaxWork
        BY <1>1, <1>2, <3>r, <3>3 DEF ProcessOf, Children
      <4> QED BY <1>1, <4>1 DEF Children
    <3>6. child' = [child EXCEPT ![r] = c]
      BY <1>1, <3>r, <1>7, <2>2 DEF Hid!Write, Hid!Works
    <3>7. /\ child' \in [Hid!Runs -> Children] /\ child'[r] = c
          /\ \A s \in Hid!Runs \ {r} : child'[s] = child[s]
      BY <1>1, <3>r, <3>5, <3>6
    <3>8. /\ child'[r].life = child[r].life
          /\ child'[r].pipe = child[r].pipe
          /\ child'[r].input = child[r].input + 1
          /\ child'[r].closer = child[r].closer
      BY <1>1, <3>r, <3>7 DEF Children
    <3>9. run' = run /\ work' \in 0 .. MaxWork /\ work' = work + 1
      BY <1>2, <3>r, <1>7, <2>2 DEF Hid!Write, Hid!Works
    <3>10. Hid!TypeOK'
      BY <1>1, <1>2, <3>1, <3>2, <3>4, <3>7, <3>9
        DEF Hid!TypeOK, Objects, Shareds, Ths, Children
    <3>11. FenceInv'
      BY <1>2, <3>3, <3>9 DEF FenceInv, Hid!OnlyTheCurrentRun, Hid!StaleWorker
    <3>12. ASSUME NEW s \in Hid!Runs, s # r
           PROVE (WorkerOf(s) /\ WaiterOf(s) /\ ProcessOf(s))'
      <4>1. /\ WorkerOf(s) /\ WaiterOf(s) /\ ProcessOf(s)
            /\ s \in 1 .. MaxRuns /\ child[s].pipe \in Nat /\ child[s].input \in Nat
        BY Numbers DEF RunsInv
      <4>2. th'[s] = th[s] /\ child'[s] = child[s]
        BY <3>4, <3>7, <3>12
      <4> QED BY <1>2, <3>r, <3>3, <3>9, <4>1, <4>2, <3>12
          DEF WorkerOf, WaiterOf, ProcessOf, Hid!StaleWorker
    <3>13. (WorkerOf(r) /\ WaiterOf(r) /\ ProcessOf(r))'
      BY <1>2, <3>r, <3>3, <3>4, <3>8, <3>9 DEF WorkerOf, WaiterOf, ProcessOf
    <3>14. RunsInv'
      BY <3>10, <3>11, <3>12, <3>13 DEF RunsInv
    <3>15. ASSUME EndsInv PROVE EndsInv'
      <4>1. /\ OwnerInv
            /\ told' = told
        BY <1>7, <2>2, <3>15 DEF EndsInv, Hid!Write, Hid!Works
      <4>2. OwnerInv'
        BY <3>3, <3>9, <4>1 DEF OwnerInv, ToldOfEnd
      <4>3. ASSUME NEW s \in Hid!Runs, s # r PROVE EndOf(s)'
        <5>1. EndOf(s) /\ WorkerOf(s) /\ WaiterOf(s) /\ ProcessOf(s) /\ s \in 1 .. MaxRuns
          BY <3>15, Numbers DEF EndsInv, RunsInv
        <5>2. th'[s] = th[s] /\ child'[s] = child[s]
          BY <3>4, <3>7, <4>3
        <5> QED BY <1>2, <3>r, <3>9, <5>1, <5>2, <4>3
            DEF EndOf, FenceInv, Hid!OnlyTheCurrentRun
      <4>4. EndOf(r) /\ r \in 1 .. MaxRuns
        BY <3>15, <3>r, Numbers DEF EndsInv
      <4>5. EndOf(r)'
        BY <3>3, <3>4, <3>8, <3>9, <4>1, <4>4 DEF EndOf, ToldOfEnd
      <4> QED BY <4>2, <4>3, <4>4, <4>5 DEF EndsInv
    <3> QED BY <3>14, <3>15 DEF HiddenInv
  <2> QED BY <1>7, <2>1, <2>2 DEF Hid!Write, Hid!Works, Hid!Idle
<1>8. CASE Hid!Terminate /\ Hid!AskToEnd
  <2>0. q.proc # 0
    BY <1>8 DEF Hid!AskToEnd
  <2>c. PICK life \in {"running",
        "exited"} : child' = [child EXCEPT ![q.proc].life = life]
    BY <1>8 DEF Hid!AskToEnd
  <2>p. PICK r \in Hid!Runs : r = q.proc
    BY <1>1, <1>2, <2>0 DEF Objects, Shareds, Hid!Runs, Hid!AskToEnd
  <2>r. /\ r \in 1 .. MaxRuns /\ r \in 0 .. MaxRuns /\ r = q.proc
        /\ WorkerOf(r) /\ WaiterOf(r) /\ ProcessOf(r)
        /\ child[r].pipe \in 0 .. MaxWork /\ child[r].input \in 0 .. MaxWork
    BY <2>p, Numbers DEF RunsInv
  <2>1. q' = q
    BY <1>8, <2>c DEF Hid!Terminate, Hid!Idle, Hid!AskToEnd
  <2>2. shared' \in Shareds
    <3>1. shared' = [shared EXCEPT !.paused = FALSE]
      BY <1>8, <2>c DEF Hid!Terminate, Hid!Idle, Hid!AskToEnd
    <3> QED BY <1>1, <1>2, <2>r, <3>1 DEF Shareds, Hid!Runs
  <2>3. /\ q.gui = "loop"
        /\ ~shared.disposed
        /\ q.state # "Starting"
        /\ q.proc # 0
        /\ child[q.proc].life = "running"
        /\ q' = q
        /\ shared'.current = shared.current
        /\ shared'.disposed = shared.disposed
        /\ shared'.pending = shared.pending
        /\ shared'.early = shared.early
        /\ shared'.unwritten = shared.unwritten
        /\ shared'.own = shared.own
        /\ shared'.cut = shared.cut
        /\ shared'.output = shared.output
        /\ shared'.finished = shared.finished
        /\ shared'.event = shared.event
    BY <1>8 DEF Hid!Terminate, Hid!Idle, Hid!AskToEnd
  <2>4. th' = th
    BY <1>8, <2>c DEF Hid!Terminate, Hid!Idle, Hid!AskToEnd
  <2> DEFINE c == [child[r] EXCEPT !.life = life]
  <2>5. c \in Children
    <3>1. life \in {"running", "exited"}
      BY <1>1, <1>2, <2>r, <2>3 DEF ProcessOf, Children
    <3> QED BY <1>1, <3>1 DEF Children
  <2>6. child' = [child EXCEPT ![r] = c]
    BY <1>1, <2>r, <1>8, <2>c DEF Hid!Terminate, Hid!Idle, Hid!AskToEnd
  <2>7. /\ child' \in [Hid!Runs -> Children] /\ child'[r] = c
        /\ \A s \in Hid!Runs \ {r} : child'[s] = child[s]
    BY <1>1, <2>r, <2>5, <2>6
  <2>8. /\ child'[r].life = life
        /\ child'[r].pipe = child[r].pipe
        /\ child'[r].input = child[r].input
        /\ child'[r].closer = child[r].closer
    BY <1>1, <2>r, <2>7 DEF Children
  <2>9. run' = run /\ work' = work
    BY <1>2, <2>r, <1>8, <2>c DEF Hid!Terminate, Hid!Idle, Hid!AskToEnd
  <2>10. Hid!TypeOK'
    BY <1>1, <1>2, <2>1, <2>2, <2>4, <2>7, <2>9
      DEF Hid!TypeOK, Objects, Shareds, Ths, Children
  <2>11. FenceInv'
    BY <1>2, <2>3, <2>9 DEF FenceInv, Hid!OnlyTheCurrentRun, Hid!StaleWorker
  <2>12. ASSUME NEW s \in Hid!Runs, s # r
         PROVE (WorkerOf(s) /\ WaiterOf(s) /\ ProcessOf(s))'
    <3>1. /\ WorkerOf(s) /\ WaiterOf(s) /\ ProcessOf(s)
          /\ s \in 1 .. MaxRuns /\ child[s].pipe \in Nat /\ child[s].input \in Nat
      BY Numbers DEF RunsInv
    <3>2. th'[s] = th[s] /\ child'[s] = child[s]
      BY <2>4, <2>7, <2>12
    <3> QED BY <2>3, <2>9, <3>1, <3>2 DEF WorkerOf, WaiterOf, ProcessOf, Hid!StaleWorker
  <2>13. (WorkerOf(r) /\ WaiterOf(r) /\ ProcessOf(r))'
    BY <2>r, <2>3, <2>4, <2>8, <2>9 DEF WorkerOf, WaiterOf, ProcessOf
  <2>14. RunsInv'
    BY <2>10, <2>11, <2>12, <2>13 DEF RunsInv
  <2>15. ASSUME EndsInv PROVE EndsInv'
    <3>1. /\ OwnerInv
          /\ told' = told
      BY <1>8, <2>c, <2>15 DEF EndsInv, Hid!Terminate, Hid!Idle, Hid!AskToEnd
    <3>2. OwnerInv'
      BY <2>3, <2>9, <3>1 DEF OwnerInv, ToldOfEnd
    <3>3. ASSUME NEW s \in Hid!Runs, s # r PROVE EndOf(s)'
      <4>1. EndOf(s) /\ WorkerOf(s) /\ WaiterOf(s) /\ ProcessOf(s) /\ s \in 1 .. MaxRuns
        BY <2>15, Numbers DEF EndsInv, RunsInv
      <4>2. th'[s] = th[s] /\ child'[s] = child[s]
        BY <2>4, <2>7, <3>3
      <4> QED BY <2>3, <2>9, <3>1, <4>1, <4>2 DEF EndOf, ToldOfEnd
    <3>4. EndOf(r) /\ r \in 1 .. MaxRuns
      BY <2>15, <2>r, Numbers DEF EndsInv
    <3>5. EndOf(r)'
      BY <2>3, <2>4, <2>8, <2>9, <3>1, <3>4 DEF EndOf, ToldOfEnd
    <3> QED BY <3>2, <3>3, <3>4, <3>5 DEF EndsInv
  <2> QED BY <2>14, <2>15 DEF HiddenInv
<1>9. CASE Hid!Terminate /\ Hid!Cancel
  <2>1. q' \in Objects
    <3>1. q' = [q EXCEPT !.startupTimer = FALSE, !.state = "NotRunning"]
      BY <1>9 DEF Hid!Terminate, Hid!Idle, Hid!Cancel
    <3> QED BY <1>1, <1>2, <3>1 DEF Objects
  <2>2. shared' \in Shareds
    <3>1. shared' = [shared EXCEPT !.current = 0, !.pending = 0, !.early = 0,
                                   !.event = TRUE]
      BY <1>9 DEF Hid!Terminate, Hid!Idle, Hid!Cancel
    <3> QED BY <1>1, <1>2, <3>1 DEF Shareds
  <2>3. /\ q.gui = "loop"
        /\ ~shared.disposed
        /\ q.state = "Starting"
        /\ q'.state = "NotRunning"
        /\ q'.proc = q.proc
        /\ q'.gui = q.gui
        /\ q'.rushed = q.rushed /\ q'.stray = q.stray
        /\ shared'.current = 0
        /\ shared'.disposed = shared.disposed
        /\ shared'.pending = 0
        /\ shared'.early = 0
        /\ shared'.unwritten = shared.unwritten
        /\ shared'.own = shared.own
        /\ shared'.cut = shared.cut
        /\ shared'.output = shared.output
        /\ shared'.finished = shared.finished
        /\ shared'.event = TRUE
    BY <1>1, <1>9 DEF Hid!Terminate, Hid!Idle, Hid!Cancel, Objects, Shareds
  <2>4. th' = th
    BY <1>9 DEF Hid!Terminate, Hid!Idle, Hid!Cancel
  <2>5. child' \in [Hid!Runs -> Children]
    <3>1. child' = [s \in Hid!Runs |-> [child[s] EXCEPT !.closer = (child[s].closer
                                                        \/ s \in Hid!Closers)]]
      BY <1>9 DEF Hid!Terminate, Hid!Idle, Hid!Cancel
    <3>2. \A s \in Hid!Runs : (child[s].closer \/ s \in Hid!Closers) \in BOOLEAN
      BY <1>1 DEF Children
    <3> QED BY <1>1, <3>1, <3>2 DEF Children
  <2>6. ASSUME NEW s \in Hid!Runs
       PROVE  /\ child'[s].life = child[s].life /\ child'[s].pipe = child[s].pipe
              /\ child'[s].input = child[s].input
              /\ child'[s].closer = (child[s].closer \/ s \in Hid!Closers)
    BY <1>1, <1>9 DEF Hid!Terminate, Hid!Idle, Hid!Cancel, Children
  <2>7. run' = run /\ work' = work
    BY <1>2, <1>9 DEF Hid!Terminate, Hid!Idle, Hid!Cancel
  <2>8. Hid!TypeOK'
    BY <1>1, <1>2, <2>1, <2>2, <2>4, <2>5, <2>7
      DEF Hid!TypeOK, Objects, Shareds, Ths, Children
  <2>9. FenceInv'
    BY <1>2, <2>3, <2>7 DEF FenceInv, Hid!OnlyTheCurrentRun, Hid!StaleWorker
  <2>10. ASSUME NEW s \in Hid!Runs PROVE (WorkerOf(s) /\ WaiterOf(s) /\ ProcessOf(s))'
    <3>1. /\ WorkerOf(s) /\ WaiterOf(s) /\ ProcessOf(s)
          /\ s \in 1 .. MaxRuns /\ child[s].pipe \in Nat /\ child[s].input \in Nat
      BY Numbers DEF RunsInv
    <3>2. /\ th'[s] = th[s] /\ child'[s].life = child[s].life
          /\ child'[s].pipe = child[s].pipe /\ child'[s].input = child[s].input
          /\ child'[s].closer = (child[s].closer \/ s \in Hid!Closers)
      BY <2>4, <2>6
    <3>3. ASSUME child[s].life = "running", th[s].worker # "created",
                 th[s].waiter \in {"none", "wait"}
          PROVE child'[s].closer
      <4>1. CASE shared.pending = s
        <5>1. s \in Hid!Closers
          BY <3>1, <3>3, <4>1, ClosersHave
        <5> QED BY <3>2, <5>1
      <4>2. CASE shared.pending # s
        <5>1. child[s].closer \/ q.proc = s
          BY <3>1, <3>3, <4>2 DEF ProcessOf
        <5>2. q.proc # s
          BY <1>2, <2>3, <3>1 DEF FenceInv, Hid!OnlyTheCurrentRun
        <5> QED BY <3>2, <5>1, <5>2
      <4> QED BY <4>1, <4>2
    <3> QED BY <2>3, <2>7, <3>1, <3>2, <3>3
        DEF WorkerOf, WaiterOf, ProcessOf, Hid!StaleWorker
  <2>11. RunsInv'
    BY <2>8, <2>9, <2>10 DEF RunsInv
  <2>12. ASSUME EndsInv PROVE EndsInv'
    <3>1. /\ OwnerInv
          /\ told' = Append(told, "finished")
      BY <1>9, <2>12 DEF EndsInv, Hid!Terminate, Hid!Idle, Hid!Cancel
    <3>t. told' = <<"finished">> /\ ToldOfEnd'
      <4>1. told' = <<"finished">>
        BY <1>2, <2>3, <3>1, Appends DEF OwnerInv, Tolds, ToldOfEnd
      <4> QED BY <4>1, Appends DEF ToldOfEnd
    <3>2. OwnerInv'
      BY <1>2, <2>3, <2>7, <3>1, <3>t DEF OwnerInv, Tolds, FenceInv
    <3>3. ASSUME NEW s \in Hid!Runs PROVE EndOf(s)'
      <4>1. EndOf(s) /\ WorkerOf(s) /\ WaiterOf(s) /\ ProcessOf(s) /\ s \in 1 .. MaxRuns
        BY <2>12, Numbers DEF EndsInv, RunsInv
      <4>2. th'[s] = th[s] /\ child'[s].pipe = child[s].pipe
        BY <2>4, <2>6
      <4> QED BY <2>3, <2>7, <3>1, <4>1, <4>2 DEF EndOf, OwnerInv, Announced
    <3> QED BY <3>2, <3>3 DEF EndsInv
  <2> QED BY <2>11, <2>12 DEF HiddenInv
<1>10. CASE Hid!Close
  <2>1. q' \in Objects
    <3>1. q' = [q EXCEPT !.noteTimer = FALSE, !.startupTimer = FALSE, !.proc = 0,
                         !.state = "NotRunning"]
      BY <1>10 DEF Hid!Close, Hid!Idle
    <3> QED BY <1>1, <1>2, <3>1 DEF Objects
  <2>2. shared' \in Shareds
    <3> DEFINE fenced == [shared EXCEPT !.disposed = TRUE, !.current = 0, !.pending = 0,
                                        !.early = 0]
    <3>1. shared' = [fenced EXCEPT !.paused = FALSE, !.closing = TRUE, !.output = FALSE,
                                   !.finished = 0, !.event = TRUE]
      BY <1>10 DEF Hid!Close, Hid!Idle
    <3>2. shared \in Shareds /\ 0 \in 0 .. MaxRuns /\ 0 \in 0 .. 3
      BY <1>1, <1>2
    <3>3. fenced \in Shareds
      BY <3>2 DEF Shareds
    <3> HIDE DEF fenced
    <3> QED BY <3>1, <3>2, <3>3 DEF Shareds
  <2>3. /\ q.gui = "loop"
        /\ ~shared.disposed
        /\ q'.state = "NotRunning"
        /\ q'.proc = 0
        /\ q'.gui = q.gui
        /\ q'.rushed = q.rushed /\ q'.stray = q.stray
        /\ shared'.current = 0
        /\ shared'.disposed = TRUE
        /\ shared'.pending = 0
        /\ shared'.early = 0
        /\ shared'.unwritten = shared.unwritten
        /\ shared'.own = shared.own
        /\ shared'.cut = shared.cut
        /\ shared'.output = FALSE
        /\ shared'.finished = 0
        /\ shared'.event = TRUE
    BY <1>1, <1>10 DEF Hid!Close, Hid!Idle, Objects, Shareds
  <2>4. th' = th
    BY <1>10 DEF Hid!Close, Hid!Idle
  <2>5. child' \in [Hid!Runs -> Children]
    <3>1. child' = [s \in Hid!Runs |-> [child[s] EXCEPT !.closer = (child[s].closer
                                                        \/ s \in Hid!Closers
                                                        \/ s = q.proc)]]
      BY <1>10 DEF Hid!Close, Hid!Idle
    <3>2. \A s \in Hid!Runs : (child[s].closer \/ s \in Hid!Closers
          \/ s = q.proc) \in BOOLEAN
      BY <1>1 DEF Children
    <3> QED BY <1>1, <3>1, <3>2 DEF Children
  <2>6. ASSUME NEW s \in Hid!Runs
       PROVE  /\ child'[s].life = child[s].life /\ child'[s].pipe = child[s].pipe
              /\ child'[s].input = child[s].input
              /\ child'[s].closer = (child[s].closer \/ s \in Hid!Closers \/ s = q.proc)
    BY <1>1, <1>10 DEF Hid!Close, Hid!Idle, Children
  <2>7. run' = run /\ work' = work
    BY <1>2, <1>10 DEF Hid!Close, Hid!Idle
  <2>8. Hid!TypeOK'
    BY <1>1, <1>2, <2>1, <2>2, <2>4, <2>5, <2>7
      DEF Hid!TypeOK, Objects, Shareds, Ths, Children
  <2>9. FenceInv'
    BY <1>2, <2>3, <2>7 DEF FenceInv, Hid!OnlyTheCurrentRun, Hid!StaleWorker
  <2>10. ASSUME NEW s \in Hid!Runs PROVE (WorkerOf(s) /\ WaiterOf(s) /\ ProcessOf(s))'
    <3>1. /\ WorkerOf(s) /\ WaiterOf(s) /\ ProcessOf(s)
          /\ s \in 1 .. MaxRuns /\ child[s].pipe \in Nat /\ child[s].input \in Nat
      BY Numbers DEF RunsInv
    <3>2. /\ th'[s] = th[s] /\ child'[s].life = child[s].life
          /\ child'[s].pipe = child[s].pipe /\ child'[s].input = child[s].input
          /\ child'[s].closer = (child[s].closer \/ s \in Hid!Closers \/ s = q.proc)
      BY <2>4, <2>6
    <3>3. ASSUME child[s].life = "running", th[s].worker # "created",
                 th[s].waiter \in {"none", "wait"}
          PROVE child'[s].closer
      <4>1. CASE shared.pending = s
        <5>1. s \in Hid!Closers
          BY <3>1, <3>3, <4>1, ClosersHave
        <5> QED BY <3>2, <5>1
      <4>2. CASE shared.pending # s
        <5>1. child[s].closer \/ q.proc = s
          BY <3>1, <3>3, <4>2 DEF ProcessOf
        <5> QED BY <1>2, <2>3, <3>1, <3>2, <5>1 DEF FenceInv, Hid!OnlyTheCurrentRun
      <4> QED BY <4>1, <4>2
    <3> QED BY <2>3, <2>7, <3>1, <3>2, <3>3
        DEF WorkerOf, WaiterOf, ProcessOf, Hid!StaleWorker
  <2>11. RunsInv'
    BY <2>8, <2>9, <2>10 DEF RunsInv
  <2>12. ASSUME EndsInv PROVE EndsInv'
    <3>1. /\ OwnerInv
          /\ told' = (IF Hid!Over THEN told ELSE Append(told, "closed"))
      BY <1>10, <2>12 DEF EndsInv, Hid!Close, Hid!Idle
    <3>t. /\ told' \in Tolds /\ (run # 0 => ToldOfEnd') /\ (run = 0 => told' = told)
          /\ told' = told \/ (told = <<>> /\ told' = <<"closed">>)
             \/ (told = <<"started">> /\ told' = <<"started", "closed">>)
      <4>1. CASE run = 0 \/ ToldOfEnd
        BY <3>1, <1>o, <2>12, <4>1 DEF ToldOfEnd, OwnerInv
      <4>2. CASE run # 0 /\ told = <<>>
        BY <3>1, <1>o, <2>12, <4>2, Appends DEF ToldOfEnd, Tolds
      <4>3. CASE run # 0 /\ told = <<"started">>
        BY <3>1, <1>o, <2>12, <4>3, Appends DEF ToldOfEnd, Tolds
      <4> QED BY <4>1, <4>2, <4>3 DEF ToldOfEnd
    <3>2. OwnerInv'
      BY <2>3, <2>7, <3>1, <3>t DEF OwnerInv, ToldOfEnd
    <3>3. ASSUME NEW s \in Hid!Runs PROVE EndOf(s)'
      <4>1. EndOf(s) /\ WorkerOf(s) /\ WaiterOf(s) /\ ProcessOf(s) /\ s \in 1 .. MaxRuns
        BY <2>12, Numbers DEF EndsInv, RunsInv
      <4>2. th'[s] = th[s] /\ child'[s].pipe = child[s].pipe
        BY <2>4, <2>6
      <4> QED BY <2>3, <2>7, <4>1, <4>2, <1>o, <3>t DEF EndOf, ToldOfEnd, Tolds, Announced
    <3> QED BY <3>2, <3>3 DEF EndsInv
  <2> QED BY <2>11, <2>12 DEF HiddenInv
<1> QED BY <1>3, <1>4, <1>5, <1>7, <1>8, <1>9, <1>10 DEF Hid!Owner, Hid!Terminate

(* The rest of the GUI thread: the second half of start, its timers, and   *)
(* what it does while it waits.                                            *)
LEMMA ObjectKeeps ==
  ASSUME HidBounds, HiddenInv, Hid!Starts \/ Hid!PollStartup \/ Hid!Dispatch
  PROVE  HiddenInv'
<1> RunsInv
  BY DEF HiddenInv
<1>1. q \in Objects /\ shared \in Shareds /\ th \in [Hid!Runs -> Ths]
      /\ child \in [Hid!Runs -> Children]
  BY TypedObject
<1>2. /\ run \in 0 .. MaxRuns /\ work \in 0 .. MaxWork /\ MaxRuns \in Nat
      /\ MaxWork \in Nat /\ InputCap \in Nat \ {0} /\ 0 \in 0 .. MaxRuns /\ 0 \in 0 .. MaxWork
      /\ 0 \in 0 .. InputCap /\ 0 \in 0 .. 3
      /\ shared.unwritten \in 0 .. InputCap /\ shared.own \in Nat
      /\ shared.finished \in 0 .. MaxRuns /\ shared.pending \in 0 .. MaxRuns
      /\ q.state \in {"NotRunning", "Starting", "Running"} /\ q.proc \in 0 .. MaxRuns
      /\ shared.early \in 0 .. 3 /\ shared.early % 2 \in {0, 1} /\ FenceInv
  BY <1>1, Numbers, EarlyInput DEF Shareds, Objects, RunsInv
<1>3. CASE Hid!Starts
  <2>0. run < MaxRuns
    BY <1>2, <1>3 DEF Hid!Starts, FenceInv
  <2>p. PICK r \in Hid!Runs : r = run + 1
    BY <1>1, <1>2, <2>0 DEF Objects, Shareds, Hid!Runs, Hid!Starts
  <2>r. /\ r \in 1 .. MaxRuns /\ r \in 0 .. MaxRuns /\ r = run + 1
        /\ WorkerOf(r) /\ WaiterOf(r) /\ ProcessOf(r)
        /\ child[r].pipe \in 0 .. MaxWork /\ child[r].input \in 0 .. MaxWork
    BY <2>p, Numbers DEF RunsInv
  <2>1. q' \in Objects
    <3>1. q' = [q EXCEPT !.gui = "loop", !.state = "Starting", !.startupTimer = TRUE,
                         !.stray = FALSE]
      BY <1>3 DEF Hid!Starts
    <3> QED BY <1>1, <1>2, <2>r, <3>1 DEF Objects, Hid!Runs
  <2>2. shared' \in Shareds
    <3>1. shared' = [shared EXCEPT !.current = run + 1, !.pending = 0, !.early = 0,
                                   !.event = FALSE, !.cut = FALSE]
      BY <1>3 DEF Hid!Starts
    <3>2. run + 1 \in 0 .. MaxRuns
      BY <2>r
    <3> QED BY <1>1, <1>2, <2>r, <3>1, <3>2 DEF Shareds, Hid!Runs
  <2>3. /\ q.gui = "start"
        /\ q'.state = "Starting"
        /\ q'.proc = q.proc
        /\ q'.gui = "loop"
        /\ q'.rushed = q.rushed /\ q'.stray = FALSE
        /\ shared'.current = run + 1
        /\ shared'.disposed = shared.disposed
        /\ shared'.pending = 0
        /\ shared'.early = 0
        /\ shared'.unwritten = shared.unwritten
        /\ shared'.own = shared.own
        /\ shared'.cut = FALSE
        /\ shared'.output = shared.output
        /\ shared'.finished = shared.finished
        /\ shared'.event = FALSE
    BY <1>1, <2>r, <1>3 DEF Hid!Starts, Objects, Shareds
  <2> DEFINE t == [th[r] EXCEPT !.worker = "creating"]
  <2>4. t \in Ths
    <3> QED BY <1>1 DEF Ths
  <2>5. th' = [th EXCEPT ![r] = t]
    BY <1>1, <2>r, <1>3 DEF Hid!Starts
  <2>6. /\ th' \in [Hid!Runs -> Ths] /\ th'[r] = t
        /\ \A s \in Hid!Runs \ {r} : th'[s] = th[s]
    BY <1>1, <2>r, <2>4, <2>5
  <2>7. /\ th'[r].worker = "creating"
        /\ th'[r].writer = th[r].writer
        /\ th'[r].reader = th[r].reader
        /\ th'[r].waiter = th[r].waiter
    BY <1>1, <2>r, <2>6 DEF Ths
  <2>8. child' = child
    BY <1>3 DEF Hid!Starts
  <2>9. run' = run + 1 /\ work' = work
    BY <1>2, <2>r, <1>3 DEF Hid!Starts
  <2>10. Hid!TypeOK'
    BY <1>1, <1>2, <2>1, <2>2, <2>6, <2>8, <2>9, <2>r
      DEF Hid!TypeOK, Objects, Shareds, Ths, Children
  <2>11. FenceInv'
    BY <1>2, <2>3, <2>9 DEF FenceInv, Hid!OnlyTheCurrentRun
  <2>12. ASSUME NEW s \in Hid!Runs, s # r
         PROVE (WorkerOf(s) /\ WaiterOf(s) /\ ProcessOf(s))'
    <3>1. /\ WorkerOf(s) /\ WaiterOf(s) /\ ProcessOf(s)
          /\ s \in 1 .. MaxRuns /\ child[s].pipe \in Nat /\ child[s].input \in Nat
      BY Numbers DEF RunsInv
    <3>2. th'[s] = th[s] /\ child'[s] = child[s]
      BY <2>6, <2>8, <2>12
    <3> QED BY <1>2, <2>3, <2>9, <3>1, <3>2
        DEF WorkerOf, WaiterOf, ProcessOf, FenceInv, Hid!OnlyTheCurrentRun
  <2>13. (WorkerOf(r) /\ WaiterOf(r) /\ ProcessOf(r))'
    BY <1>2, <2>r, <2>3, <2>7, <2>8, <2>9 DEF WorkerOf, WaiterOf, ProcessOf
  <2>14. RunsInv'
    BY <2>10, <2>11, <2>12, <2>13 DEF RunsInv
  <2>15. ASSUME EndsInv PROVE EndsInv'
    <3>1. /\ OwnerInv
          /\ told' = <<>>
      BY <1>3, <2>15 DEF EndsInv, Hid!Starts
    <3>2. OwnerInv'
      <4>1. shared.finished \in {0, run} /\ (shared.finished # 0 => q.rushed)
        BY <2>3, <3>1 DEF OwnerInv
      <4>2. ~shared.disposed /\ ~shared.output => shared.own = 0
        BY <3>1 DEF OwnerInv
      <4>3. ~shared.disposed
        BY <1>2, <2>3 DEF FenceInv
      <4>4. run' # 0 /\ (shared.finished # 0 => shared.finished # run')
        BY <1>2, <2>9, <4>1
      <4>5. told' \in Tolds
        BY <3>1 DEF Tolds
      <4> QED BY <2>3, <3>1, <4>1, <4>2, <4>3, <4>4, <4>5 DEF OwnerInv
    <3>3. ASSUME NEW s \in Hid!Runs, s # r PROVE EndOf(s)'
      <4>1. EndOf(s) /\ WorkerOf(s) /\ WaiterOf(s) /\ ProcessOf(s) /\ s \in 1 .. MaxRuns
        BY <2>15, Numbers DEF EndsInv, RunsInv
      <4>2. th[s].waiter \in {"none", "wait", "join", "check", "clear", "notify",
            "signal", "done"}
        BY <1>1 DEF Ths
      <4>3. th'[s] = th[s] /\ child'[s] = child[s]
        BY <2>6, <2>8, <3>3
      <4> QED BY <1>2, <2>r, <2>3, <2>9, <3>1, <4>1, <4>3, <3>3, <4>2
          DEF EndOf, OwnerInv, ToldOfEnd, FenceInv
    <3>4. EndOf(r) /\ r \in 1 .. MaxRuns
      BY <2>15, <2>r, Numbers DEF EndsInv
    <3>5. EndOf(r)'
      BY <1>2, <2>r, <2>3, <2>7, <3>1
        DEF EndOf, OwnerInv, ToldOfEnd, Announced, WorkerOf, WaiterOf
    <3> QED BY <3>2, <3>3, <3>4, <3>5 DEF EndsInv
  <2> QED BY <2>14, <2>15 DEF HiddenInv
<1>4. CASE Hid!StartupFails
  <2>0. shared.pending # 0
    BY <1>4 DEF Hid!StartupFails, Hid!MayPollStartup
  <2>1. CASE ~Hid!StaleStart
    <3>p. PICK r \in Hid!Runs : r = shared.pending
      BY <1>1, <1>2, <2>0 DEF Objects, Shareds, Hid!Runs, Hid!MayPollStartup
    <3>r. /\ r \in 1 .. MaxRuns /\ r \in 0 .. MaxRuns /\ r = shared.pending
          /\ WorkerOf(r) /\ WaiterOf(r) /\ ProcessOf(r)
          /\ child[r].pipe \in 0 .. MaxWork /\ child[r].input \in 0 .. MaxWork
      BY <3>p, Numbers DEF RunsInv
    <3>1. q' \in Objects
      <4>1. q' = [q EXCEPT !.startupTimer = FALSE, !.state = "NotRunning", !.proc = 0]
        BY <1>4, <2>1 DEF Hid!StartupFails, Hid!MayPollStartup, Hid!StaleStart
      <4> QED BY <1>1, <1>2, <3>r, <4>1 DEF Objects, Hid!Runs
    <3>2. shared' \in Shareds
      <4>1. shared' = [shared EXCEPT !.pending = 0, !.early = 0, !.event = TRUE]
        BY <1>4, <2>1 DEF Hid!StartupFails, Hid!MayPollStartup, Hid!StaleStart
      <4> QED BY <1>1, <1>2, <3>r, <4>1 DEF Shareds, Hid!Runs
    <3>3. /\ q.gui = "loop"
          /\ shared.pending # 0
          /\ shared.pending = shared.current
          /\ ~shared.disposed
          /\ q.state = "Starting"
          /\ child[r].life = "absent"
          /\ q'.state = "NotRunning"
          /\ q'.proc = 0
          /\ q'.gui = q.gui
          /\ q'.rushed = q.rushed /\ q'.stray = q.stray
          /\ shared'.current = shared.current
          /\ shared'.disposed = shared.disposed
          /\ shared'.pending = 0
          /\ shared'.early = 0
          /\ shared'.unwritten = shared.unwritten
          /\ shared'.own = shared.own
          /\ shared'.cut = shared.cut
          /\ shared'.output = shared.output
          /\ shared'.finished = shared.finished
          /\ shared'.event = TRUE
      <4>1. /\ q.gui = "loop"
            /\ shared.pending # 0
            /\ shared.pending = shared.current
            /\ ~shared.disposed
            /\ q.state = "Starting"
            /\ child[r].life = "absent"
        BY <1>1, <3>r, <1>4, <2>1 DEF Hid!StartupFails, Hid!MayPollStartup, Hid!StaleStart
      <4>2. /\ q'.state = "NotRunning"
            /\ q'.proc = 0
            /\ q'.gui = q.gui
            /\ q'.rushed = q.rushed /\ q'.stray = q.stray
        BY <1>1, <1>4, <2>1 DEF Hid!StartupFails, Objects
      <4>3. /\ shared'.current = shared.current
            /\ shared'.disposed = shared.disposed
            /\ shared'.pending = 0
            /\ shared'.early = 0
            /\ shared'.unwritten = shared.unwritten
            /\ shared'.own = shared.own
            /\ shared'.cut = shared.cut
            /\ shared'.output = shared.output
            /\ shared'.finished = shared.finished
            /\ shared'.event = TRUE
        BY <1>1, <1>4, <2>1 DEF Hid!StartupFails, Shareds
      <4> QED BY <4>1, <4>2, <4>3
    <3>4. th' = th
      BY <1>4, <2>1 DEF Hid!StartupFails, Hid!MayPollStartup, Hid!StaleStart
    <3> DEFINE c == [child[r] EXCEPT !.closer = (child[r].closer
                                     \/ child[r].life # "absent")]
    <3>5. c \in Children
      <4>1. (child[r].closer \/ child[r].life # "absent") \in BOOLEAN
        BY <1>1, <1>2, <3>r, <3>3 DEF ProcessOf, Children
      <4> QED BY <1>1, <4>1 DEF Children
    <3>6. child' = [child EXCEPT ![r] = c]
      BY <1>1, <3>r, <1>4, <2>1 DEF Hid!StartupFails, Hid!MayPollStartup, Hid!StaleStart
    <3>7. /\ child' \in [Hid!Runs -> Children] /\ child'[r] = c
          /\ \A s \in Hid!Runs \ {r} : child'[s] = child[s]
      BY <1>1, <3>r, <3>5, <3>6
    <3>8. /\ child'[r].life = child[r].life
          /\ child'[r].pipe = child[r].pipe
          /\ child'[r].input = child[r].input
          /\ child'[r].closer = (child[r].closer \/ child[r].life # "absent")
      BY <1>1, <3>r, <3>7 DEF Children
    <3>9. run' = run /\ work' = work
      BY <1>2, <3>r, <1>4, <2>1 DEF Hid!StartupFails, Hid!MayPollStartup, Hid!StaleStart
    <3>10. Hid!TypeOK'
      BY <1>1, <1>2, <3>1, <3>2, <3>4, <3>7, <3>9
        DEF Hid!TypeOK, Objects, Shareds, Ths, Children
    <3>11. FenceInv'
      BY <1>2, <3>3, <3>9 DEF FenceInv, Hid!OnlyTheCurrentRun
    <3>12. ASSUME NEW s \in Hid!Runs, s # r
           PROVE (WorkerOf(s) /\ WaiterOf(s) /\ ProcessOf(s))'
      <4>1. /\ WorkerOf(s) /\ WaiterOf(s) /\ ProcessOf(s)
            /\ s \in 1 .. MaxRuns /\ child[s].pipe \in Nat /\ child[s].input \in Nat
        BY Numbers DEF RunsInv
      <4>2. th'[s] = th[s] /\ child'[s] = child[s]
        BY <3>4, <3>7, <3>12
      <4> QED BY <1>2, <3>r, <3>3, <3>9, <4>1, <4>2 DEF WorkerOf, WaiterOf, ProcessOf,
          FenceInv, Hid!OnlyTheCurrentRun, Hid!StaleWorker
    <3>13. (WorkerOf(r) /\ WaiterOf(r) /\ ProcessOf(r))'
      BY <3>r, <3>3, <3>4, <3>8, <3>9 DEF WorkerOf, WaiterOf, ProcessOf
    <3>14. RunsInv'
      BY <3>10, <3>11, <3>12, <3>13 DEF RunsInv
    <3>15. ASSUME EndsInv PROVE EndsInv'
      <4>1. /\ OwnerInv
            /\ told' = Append(told, "error")
        BY <1>4, <2>1, <3>15
          DEF EndsInv, Hid!StartupFails, Hid!MayPollStartup, Hid!StaleStart
      <4>t. told' = <<"error">> /\ ToldOfEnd'
        <5>1. told' = <<"error">>
          BY <3>3, <4>1 DEF OwnerInv
        <5> QED BY <5>1, Appends DEF ToldOfEnd
      <4>2. OwnerInv'
        BY <1>2, <3>3, <3>9, <4>1, <4>t DEF OwnerInv, Tolds, FenceInv
      <4>3. ASSUME NEW s \in Hid!Runs, s # r PROVE EndOf(s)'
        <5>1. EndOf(s) /\ WorkerOf(s) /\ WaiterOf(s) /\ ProcessOf(s) /\ s \in 1 .. MaxRuns
          BY <3>15, Numbers DEF EndsInv, RunsInv
        <5>2. th'[s] = th[s] /\ child'[s] = child[s]
          BY <3>4, <3>7, <4>3
        <5> QED BY <3>3, <3>9, <4>1, <5>1, <5>2 DEF EndOf, OwnerInv, Announced
      <4>4. EndOf(r) /\ r \in 1 .. MaxRuns
        BY <3>15, <3>r, Numbers DEF EndsInv
      <4>5. EndOf(r)'
        BY <3>3, <3>4, <3>8, <3>9, <4>1, <4>4 DEF EndOf, OwnerInv, Announced
      <4> QED BY <4>2, <4>3, <4>4, <4>5 DEF EndsInv
    <3> QED BY <3>14, <3>15 DEF HiddenInv
  <2>2. CASE Hid!StaleStart
    <3>p. PICK r \in Hid!Runs : r = shared.pending
      BY <1>1, <1>2, <2>0 DEF Objects, Shareds, Hid!Runs, Hid!MayPollStartup
    <3>r. /\ r \in 1 .. MaxRuns /\ r \in 0 .. MaxRuns /\ r = shared.pending
          /\ WorkerOf(r) /\ WaiterOf(r) /\ ProcessOf(r)
          /\ child[r].pipe \in 0 .. MaxWork /\ child[r].input \in 0 .. MaxWork
      BY <3>p, Numbers DEF RunsInv
    <3>1. q' \in Objects
      <4>1. q' = [q EXCEPT !.startupTimer = FALSE]
        BY <1>4, <2>2 DEF Hid!StartupFails, Hid!MayPollStartup, Hid!StaleStart
      <4> QED BY <1>1, <1>2, <3>r, <4>1 DEF Objects, Hid!Runs
    <3>2. shared' \in Shareds
      <4>1. shared' = [shared EXCEPT !.pending = 0]
        BY <1>4, <2>2 DEF Hid!StartupFails, Hid!MayPollStartup, Hid!StaleStart
      <4> QED BY <1>1, <1>2, <3>r, <4>1 DEF Shareds, Hid!Runs
    <3>3. /\ r # shared.current \/ shared.disposed \/ q.state # "Starting"
          /\ q'.state = q.state
          /\ q'.proc = q.proc
          /\ q'.gui = q.gui
          /\ q'.rushed = q.rushed /\ q'.stray = q.stray
          /\ shared'.current = shared.current
          /\ shared'.disposed = shared.disposed
          /\ shared'.pending = 0
          /\ shared'.early = shared.early
          /\ shared'.unwritten = shared.unwritten
          /\ shared'.own = shared.own
          /\ shared'.cut = shared.cut
          /\ shared'.output = shared.output
          /\ shared'.finished = shared.finished
          /\ shared'.event = shared.event
      BY <1>1, <3>r, <1>4, <2>2 DEF Hid!StartupFails, Hid!StaleStart, Objects, Shareds
    <3>4. th' = th
      BY <1>4, <2>2 DEF Hid!StartupFails, Hid!MayPollStartup, Hid!StaleStart
    <3> DEFINE c == [child[r] EXCEPT !.closer = (child[r].closer
                                     \/ child[r].life # "absent")]
    <3>5. c \in Children
      <4>1. (child[r].closer \/ child[r].life # "absent") \in BOOLEAN
        BY <1>1, <1>2, <3>r, <3>3 DEF ProcessOf, Children
      <4> QED BY <1>1, <4>1 DEF Children
    <3>6. child' = [child EXCEPT ![r] = c]
      BY <1>1, <3>r, <1>4, <2>2 DEF Hid!StartupFails, Hid!MayPollStartup, Hid!StaleStart
    <3>7. /\ child' \in [Hid!Runs -> Children] /\ child'[r] = c
          /\ \A s \in Hid!Runs \ {r} : child'[s] = child[s]
      BY <1>1, <3>r, <3>5, <3>6
    <3>8. /\ child'[r].life = child[r].life
          /\ child'[r].pipe = child[r].pipe
          /\ child'[r].input = child[r].input
          /\ child'[r].closer = (child[r].closer \/ child[r].life # "absent")
      BY <1>1, <3>r, <3>7 DEF Children
    <3>9. run' = run /\ work' = work
      BY <1>2, <3>r, <1>4, <2>2 DEF Hid!StartupFails, Hid!MayPollStartup, Hid!StaleStart
    <3>10. Hid!TypeOK'
      BY <1>1, <1>2, <3>1, <3>2, <3>4, <3>7, <3>9
        DEF Hid!TypeOK, Objects, Shareds, Ths, Children
    <3>11. FenceInv'
      BY <1>2, <3>r, <3>3 DEF FenceInv, Hid!OnlyTheCurrentRun
    <3>12. ASSUME NEW s \in Hid!Runs, s # r
           PROVE (WorkerOf(s) /\ WaiterOf(s) /\ ProcessOf(s))'
      <4> QED BY <1>2, <3>r, <3>3 DEF FenceInv, Hid!OnlyTheCurrentRun
    <3>13. (WorkerOf(r) /\ WaiterOf(r) /\ ProcessOf(r))'
      BY <1>2, <3>r, <3>3 DEF FenceInv, Hid!OnlyTheCurrentRun
    <3>14. RunsInv'
      BY <3>10, <3>11, <3>12, <3>13 DEF RunsInv
    <3>15. ASSUME EndsInv PROVE EndsInv'
      <4>1. /\ OwnerInv
            /\ told' = told
        BY <1>4, <2>2, <3>15
          DEF EndsInv, Hid!StartupFails, Hid!MayPollStartup, Hid!StaleStart
      <4>2. OwnerInv'
        BY <3>3, <3>9, <4>1 DEF OwnerInv, ToldOfEnd
      <4>3. ASSUME NEW s \in Hid!Runs, s # r PROVE EndOf(s)'
        <5>1. EndOf(s) /\ WorkerOf(s) /\ WaiterOf(s) /\ ProcessOf(s) /\ s \in 1 .. MaxRuns
          BY <3>15, Numbers DEF EndsInv, RunsInv
        <5>2. th'[s] = th[s] /\ child'[s] = child[s]
          BY <3>4, <3>7, <4>3
        <5> QED BY <3>3, <3>9, <4>1, <5>1, <5>2 DEF EndOf, ToldOfEnd
      <4>4. EndOf(r) /\ r \in 1 .. MaxRuns
        BY <3>15, <3>r, Numbers DEF EndsInv
      <4>5. EndOf(r)'
        BY <3>3, <3>4, <3>8, <3>9, <4>1, <4>4 DEF EndOf, ToldOfEnd
      <4> QED BY <4>2, <4>3, <4>4, <4>5 DEF EndsInv
    <3> QED BY <3>14, <3>15 DEF HiddenInv
  <2> QED BY <2>1, <2>2
<1>5. CASE Hid!Adopt
  <2>0. shared.pending # 0
    BY <1>5 DEF Hid!Adopt, Hid!MayPollStartup
  <2>p. PICK r \in Hid!Runs : r = shared.pending
    BY <1>2, <2>0 DEF Hid!Runs
  <2>r. /\ r \in 1 .. MaxRuns /\ r \in 0 .. MaxRuns /\ r = shared.pending
        /\ WorkerOf(r) /\ WaiterOf(r) /\ ProcessOf(r)
        /\ child[r].pipe \in 0 .. MaxWork /\ child[r].input \in 0 .. MaxWork
    BY <2>p, Numbers DEF RunsInv
  <2>1. q' \in Objects
    <3>1. q' = [q EXCEPT !.startupTimer = FALSE, !.noteTimer = TRUE, !.proc = r,
                         !.state = "Running"]
      BY <1>5, <2>r DEF Hid!Adopt, Hid!MayPollStartup, Hid!StaleStart
    <3> QED BY <1>1, <1>2, <2>r, <3>1 DEF Objects, Hid!Runs
  <2>2. shared' \in Shareds
    <3>1. shared' = [shared EXCEPT !.pending = 0, !.early = 0,
                                   !.unwritten = shared.early % 2,
                                   !.closing = (shared.early >= 2)]
      BY <1>5 DEF Hid!Adopt, Hid!MayPollStartup, Hid!StaleStart
    <3>2. /\ shared.early % 2 \in 0 .. InputCap
          /\ (shared.early >= 2) \in BOOLEAN
      BY <1>2
    <3> QED BY <1>1, <1>2, <2>r, <3>1, <3>2 DEF Shareds, Hid!Runs
  <2>3. /\ q.gui = "loop"
        /\ r = shared.current
        /\ ~shared.disposed
        /\ q.state = "Starting"
        /\ child[r].life # "absent"
        /\ q'.state = "Running"
        /\ q'.proc = r
        /\ q'.gui = q.gui
        /\ q'.rushed = q.rushed /\ q'.stray = q.stray
        /\ shared'.current = shared.current
        /\ shared'.disposed = shared.disposed
        /\ shared'.pending = 0
        /\ shared'.early = 0
        /\ shared'.unwritten = shared.early % 2
        /\ shared'.own = shared.own
        /\ shared'.cut = shared.cut
        /\ shared'.output = shared.output
        /\ shared'.finished = shared.finished
        /\ shared'.event = shared.event
    BY <2>r, <1>5 DEF Hid!Adopt, Hid!MayPollStartup, Hid!StaleStart
  <2> DEFINE t == [th[r] EXCEPT !.writer = "get", !.reader = "gate", !.waiter = "wait"]
  <2>4. t \in Ths
    <3> QED BY <1>1 DEF Ths
  <2>5. th' = [th EXCEPT ![r] = t]
    BY <1>1, <2>r, <1>5 DEF Hid!Adopt, Hid!MayPollStartup, Hid!StaleStart
  <2>6. /\ th' \in [Hid!Runs -> Ths] /\ th'[r] = t
        /\ \A s \in Hid!Runs \ {r} : th'[s] = th[s]
    BY <1>1, <2>r, <2>4, <2>5
  <2>7. /\ th'[r].worker = th[r].worker
        /\ th'[r].writer = "get"
        /\ th'[r].reader = "gate"
        /\ th'[r].waiter = "wait"
    BY <1>1, <2>r, <2>6 DEF Ths
  <2> DEFINE c == [child[r] EXCEPT !.input = shared.early % 2]
  <2>8. c \in Children
    <3>1. shared.early % 2 \in 0 .. MaxWork
      BY <1>2 DEF FenceInv
    <3> QED BY <1>1, <3>1 DEF Children
  <2>9. child' = [child EXCEPT ![r] = c]
    BY <1>1, <2>r, <1>5 DEF Hid!Adopt, Hid!MayPollStartup, Hid!StaleStart
  <2>10. /\ child' \in [Hid!Runs -> Children] /\ child'[r] = c
         /\ \A s \in Hid!Runs \ {r} : child'[s] = child[s]
    BY <1>1, <2>r, <2>8, <2>9
  <2>11. /\ child'[r].life = child[r].life
         /\ child'[r].pipe = child[r].pipe
         /\ child'[r].input = shared.early % 2
         /\ child'[r].closer = child[r].closer
    BY <1>1, <2>r, <2>10 DEF Children
  <2>12. run' = run /\ work' = work
    BY <1>2, <2>r, <1>5 DEF Hid!Adopt, Hid!MayPollStartup, Hid!StaleStart
  <2>13. Hid!TypeOK'
    BY <1>2, <2>1, <2>2, <2>6, <2>10, <2>12
      DEF Hid!TypeOK, Objects, Shareds, Ths, Children
  <2>14. FenceInv'
    BY <1>2, <2>3, <2>12 DEF FenceInv, Hid!OnlyTheCurrentRun, Hid!StaleWorker
  <2>15. ASSUME NEW s \in Hid!Runs, s # r
         PROVE (WorkerOf(s) /\ WaiterOf(s) /\ ProcessOf(s))'
    <3>1. /\ WorkerOf(s) /\ WaiterOf(s) /\ ProcessOf(s)
          /\ s \in 1 .. MaxRuns /\ child[s].pipe \in Nat /\ child[s].input \in Nat
      BY Numbers DEF RunsInv
    <3>2. th'[s] = th[s] /\ child'[s] = child[s]
      BY <2>6, <2>10, <2>15
    <3> QED BY <1>2, <2>3, <2>12, <3>1, <3>2, <2>15 DEF WorkerOf, WaiterOf, ProcessOf,
        FenceInv, Hid!OnlyTheCurrentRun, Hid!StaleWorker
  <2>16. (WorkerOf(r) /\ WaiterOf(r) /\ ProcessOf(r))'
    BY <1>2, <2>r, <2>3, <2>7, <2>11, <2>12 DEF WorkerOf, WaiterOf, ProcessOf, FenceInv
  <2>17. RunsInv'
    BY <2>13, <2>14, <2>15, <2>16 DEF RunsInv
  <2>18. ASSUME EndsInv PROVE EndsInv'
    <3>1. /\ OwnerInv
          /\ told' = Append(told, "started")
      BY <1>5, <2>18 DEF EndsInv, Hid!Adopt, Hid!MayPollStartup, Hid!StaleStart
    <3>t. told' = <<"started">>
      BY <2>3, <3>1 DEF OwnerInv
    <3>2. OwnerInv'
      BY <1>2, <2>3, <2>12, <3>1
        DEF OwnerInv, ToldOfEnd, Tolds, FenceInv, Hid!OnlyTheCurrentRun
    <3>3. ASSUME NEW s \in Hid!Runs, s # r PROVE EndOf(s)'
      <4>1. EndOf(s) /\ WorkerOf(s) /\ WaiterOf(s) /\ ProcessOf(s) /\ s \in 1 .. MaxRuns
        BY <2>18, Numbers DEF EndsInv, RunsInv
      <4>2. th'[s] = th[s] /\ child'[s] = child[s]
        BY <2>6, <2>10, <3>3
      <4> QED BY <1>2, <2>3, <2>12, <4>1, <4>2, <3>3 DEF EndOf, FenceInv
    <3>4. EndOf(r) /\ r \in 1 .. MaxRuns
      BY <2>18, <2>r, Numbers DEF EndsInv
    <3>5. EndOf(r)'
      <4>1. r = run /\ shared.finished # run
        BY <1>2, <2>r, <2>3, <3>1 DEF OwnerInv, FenceInv, Hid!OnlyTheCurrentRun
      <4>2. told' \in Announced /\ told' # <<"started", "finished">>
        BY <3>t, Appends DEF Announced
      <4>3. th'[r].waiter = "wait" /\ th'[r].reader = "gate" /\ shared'.finished # run
            /\ run' = run /\ q'.gui = "loop"
        BY <2>3, <2>7, <2>12, <4>1
      <4> QED BY <2>r, <3>t, <4>1, <4>2, <4>3 DEF EndOf
    <3> QED BY <3>2, <3>3, <3>4, <3>5 DEF EndsInv
  <2> QED BY <2>17, <2>18 DEF HiddenInv
<1>6. CASE Hid!Dispatch
  <2>1. CASE shared.finished # 0
    <3>1. q' \in Objects
      <4>1. q' = [q EXCEPT !.noteTimer = (q.noteTimer /\ shared.finished = 0),
                           !.stray = (q.stray \/ Hid!StrayEnd)]
        BY <1>6, <2>1 DEF Hid!Dispatch
      <4>2. /\ (q.noteTimer /\ shared.finished = 0) \in BOOLEAN
            /\ (q.stray \/ Hid!StrayEnd) \in BOOLEAN
        BY <1>1 DEF Objects, Hid!StrayEnd
      <4> QED BY <1>1, <1>2, <4>1, <4>2 DEF Objects
    <3>2. shared' \in Shareds
      <4>1. shared' = [shared EXCEPT !.output = FALSE, !.finished = 0,
                                     !.own = (IF shared.output THEN 0 ELSE shared.own)]
        BY <1>6, <2>1 DEF Hid!Dispatch
      <4>2. (IF shared.output THEN 0 ELSE shared.own) \in Nat
        BY <1>2
      <4> QED BY <1>1, <1>2, <4>1, <4>2 DEF Shareds
    <3>3. /\ q.gui = "loop"
          /\ shared.finished # 0
          /\ q'.state = q.state
          /\ q'.proc = q.proc
          /\ q'.gui = q.gui
          /\ q'.rushed = q.rushed /\ q'.stray = (q.stray \/ Hid!StrayEnd)
          /\ shared'.current = shared.current
          /\ shared'.disposed = shared.disposed
          /\ shared'.pending = shared.pending
          /\ shared'.early = shared.early
          /\ shared'.unwritten = shared.unwritten
          /\ shared'.own = (IF shared.output THEN 0 ELSE shared.own)
          /\ shared'.cut = shared.cut
          /\ shared'.output = FALSE
          /\ shared'.finished = 0
          /\ shared'.event = shared.event
      BY <1>1, <1>6, <2>1 DEF Hid!Dispatch, Objects, Shareds
    <3>4. th' = th
      BY <1>6, <2>1 DEF Hid!Dispatch
    <3>5. child' = child
      BY <1>6, <2>1 DEF Hid!Dispatch
    <3>6. run' = run /\ work' = work
      BY <1>2, <1>6, <2>1 DEF Hid!Dispatch
    <3>7. Hid!TypeOK'
      BY <1>1, <1>2, <3>1, <3>2, <3>4, <3>5, <3>6
        DEF Hid!TypeOK, Objects, Shareds, Ths, Children
    <3>8. FenceInv'
      BY <1>2, <3>3, <3>6 DEF FenceInv, Hid!OnlyTheCurrentRun, Hid!StaleWorker
    <3>9. ASSUME NEW s \in Hid!Runs PROVE (WorkerOf(s) /\ WaiterOf(s) /\ ProcessOf(s))'
      <4>1. /\ WorkerOf(s) /\ WaiterOf(s) /\ ProcessOf(s)
            /\ s \in 1 .. MaxRuns /\ child[s].pipe \in Nat /\ child[s].input \in Nat
        BY Numbers DEF RunsInv
      <4>2. th'[s] = th[s] /\ child'[s] = child[s]
        BY <3>4, <3>5
      <4> QED BY <3>3, <3>6, <4>1, <4>2 DEF WorkerOf, WaiterOf, ProcessOf, Hid!StaleWorker
    <3>10. RunsInv'
      BY <3>7, <3>8, <3>9 DEF RunsInv
    <3>11. ASSUME EndsInv, Hid!StrayEnd PROVE EndsInv'
      <4>1. OwnerInv /\ told' = told /\ shared.finished \notin {0, run} /\ run' = run
        BY <1>6, <3>6, <3>11 DEF EndsInv, Hid!Dispatch, Hid!StrayEnd
      <4>2. OwnerInv'
        BY <1>2, <3>3, <3>6, <4>1 DEF OwnerInv, ToldOfEnd
      <4>3. ASSUME NEW s \in Hid!Runs PROVE EndOf(s)'
        <5>1. EndOf(s) /\ s \in 1 .. MaxRuns
          BY <3>11, Numbers DEF EndsInv
        <5>2. th'[s] = th[s] /\ child'[s] = child[s]
          BY <3>4, <3>5
        <5>3. shared'.own = 0 \/ shared'.own = shared.own
          BY <3>3
        <5> QED BY <3>3, <3>6, <4>1, <5>1, <5>2, <5>3 DEF EndOf, ToldOfEnd
      <4> QED BY <4>2, <4>3 DEF EndsInv
    <3>12. ASSUME EndsInv, ~Hid!StrayEnd PROVE EndsInv'
      <4>1. /\ OwnerInv
            /\ told' = Append(told, "finished")
            /\ shared.finished = run
        BY <1>6, <2>1, <3>12 DEF EndsInv, Hid!Dispatch, Hid!StrayEnd
      <4>s. told = <<"started">> /\ q.state = "NotRunning" /\ run # 0
        BY <2>1, <4>1 DEF OwnerInv
      <4>t. told' = <<"started", "finished">> /\ ToldOfEnd'
        <5>1. told' = <<"started", "finished">>
          BY <4>1, <4>s, Appends
        <5> QED BY <5>1, Appends DEF ToldOfEnd
      <4>q. q'.stray <=> q.stray
        BY <3>3, <3>12 DEF Hid!StrayEnd
      <4>2. OwnerInv'
        BY <1>2, <3>3, <3>6, <4>1, <4>s, <4>t, <4>q DEF OwnerInv, ToldOfEnd, Tolds
      <4>3. ASSUME NEW s \in Hid!Runs PROVE EndOf(s)'
        <5>1. EndOf(s) /\ WorkerOf(s) /\ WaiterOf(s) /\ ProcessOf(s) /\ s \in 1 .. MaxRuns
          BY <3>12, Numbers DEF EndsInv, RunsInv
        <5>2. th'[s] = th[s] /\ child'[s] = child[s]
          BY <3>4, <3>5
        <5>3. ~shared.disposed /\ shared'.own = 0
          BY <1>2, <3>3, <4>1, <4>s DEF OwnerInv, ToldOfEnd
        <5>4. CASE s # run
          BY <3>6, <5>4 DEF EndOf
        <5>5. CASE s = run
          <6>1. /\ th[s].waiter \in {"signal", "done"}
                /\ (th[s].reader = "ended" /\ ~shared.cut => child[s].pipe = 0)
                /\ (th[s].reader = "ended" \/ shared.cut)
            BY <4>1, <4>s, <5>1, <5>3, <5>5, Appends DEF EndOf
          <6> QED BY <3>3, <4>t, <5>2, <5>3, <6>1 DEF EndOf, Announced
        <5> QED BY <5>4, <5>5
      <4> QED BY <4>2, <4>3 DEF EndsInv
    <3> QED BY <3>10, <3>11, <3>12 DEF HiddenInv
  <2>2. CASE shared.finished = 0
    <3>1. q' \in Objects
      <4>1. q' = [q EXCEPT !.noteTimer = (q.noteTimer /\ shared.finished = 0),
                           !.stray = (q.stray \/ Hid!StrayEnd)]
        BY <1>6, <2>2 DEF Hid!Dispatch
      <4>2. /\ (q.noteTimer /\ shared.finished = 0) \in BOOLEAN
            /\ (q.stray \/ Hid!StrayEnd) \in BOOLEAN
        BY <1>1 DEF Objects, Hid!StrayEnd
      <4> QED BY <1>1, <1>2, <4>1, <4>2 DEF Objects
    <3>2. shared' \in Shareds
      <4>1. shared' = [shared EXCEPT !.output = FALSE, !.finished = 0, !.own = 0]
        BY <1>6, <2>2 DEF Hid!Dispatch
      <4> QED BY <1>1, <1>2, <4>1 DEF Shareds
    <3>3. /\ q.gui = "loop"
          /\ shared.finished = 0
          /\ shared.output
          /\ q'.state = q.state
          /\ q'.proc = q.proc
          /\ q'.gui = q.gui
          /\ q'.rushed = q.rushed /\ q'.stray = (q.stray \/ Hid!StrayEnd)
          /\ shared'.current = shared.current
          /\ shared'.disposed = shared.disposed
          /\ shared'.pending = shared.pending
          /\ shared'.early = shared.early
          /\ shared'.unwritten = shared.unwritten
          /\ shared'.own = 0
          /\ shared'.cut = shared.cut
          /\ shared'.output = FALSE
          /\ shared'.finished = 0
          /\ shared'.event = shared.event
      BY <1>1, <1>6, <2>2 DEF Hid!Dispatch, Objects, Shareds
    <3>4. th' = th
      BY <1>6, <2>2 DEF Hid!Dispatch
    <3>5. child' = child
      BY <1>6, <2>2 DEF Hid!Dispatch
    <3>6. run' = run /\ work' = work
      BY <1>2, <1>6, <2>2 DEF Hid!Dispatch
    <3>7. Hid!TypeOK'
      BY <1>1, <1>2, <3>1, <3>2, <3>4, <3>5, <3>6
        DEF Hid!TypeOK, Objects, Shareds, Ths, Children
    <3>8. FenceInv'
      BY <1>2, <3>3, <3>6 DEF FenceInv, Hid!OnlyTheCurrentRun, Hid!StaleWorker
    <3>9. ASSUME NEW s \in Hid!Runs PROVE (WorkerOf(s) /\ WaiterOf(s) /\ ProcessOf(s))'
      <4>1. /\ WorkerOf(s) /\ WaiterOf(s) /\ ProcessOf(s)
            /\ s \in 1 .. MaxRuns /\ child[s].pipe \in Nat /\ child[s].input \in Nat
        BY Numbers DEF RunsInv
      <4>2. th'[s] = th[s] /\ child'[s] = child[s]
        BY <3>4, <3>5
      <4> QED BY <3>3, <3>6, <4>1, <4>2 DEF WorkerOf, WaiterOf, ProcessOf, Hid!StaleWorker
    <3>10. RunsInv'
      BY <3>7, <3>8, <3>9 DEF RunsInv
    <3>11. ASSUME EndsInv PROVE EndsInv'
      <4>1. /\ OwnerInv
            /\ told' = told
        BY <1>6, <2>2, <3>11 DEF EndsInv, Hid!Dispatch
      <4>2. OwnerInv'
        BY <3>3, <3>6, <4>1 DEF OwnerInv, ToldOfEnd, Hid!StrayEnd
      <4>3. ASSUME NEW s \in Hid!Runs PROVE EndOf(s)'
        <5>1. EndOf(s) /\ WorkerOf(s) /\ WaiterOf(s) /\ ProcessOf(s) /\ s \in 1 .. MaxRuns
          BY <3>11, Numbers DEF EndsInv, RunsInv
        <5>2. th'[s] = th[s] /\ child'[s] = child[s]
          BY <3>4, <3>5
        <5> QED BY <3>3, <3>6, <4>1, <5>1, <5>2 DEF EndOf, ToldOfEnd
      <4> QED BY <4>2, <4>3 DEF EndsInv
    <3> QED BY <3>10, <3>11 DEF HiddenInv
  <2> QED BY <2>1, <2>2
<1> QED BY <1>3, <1>4, <1>5, <1>6 DEF Hid!PollStartup

(* The two steps of a thread that change whose the child is: the worker    *)
(* hands its result over, the waiter takes the process from the object.    *)
LEMMA HandOversKeep ==
  ASSUME HidBounds, HiddenInv, NEW r \in Hid!Runs, Hid!WorkerDelivers(r)
    \/ Hid!WaiterClears(r)
  PROVE  HiddenInv'
<1> RunsInv
  BY DEF HiddenInv
<1>1. q \in Objects /\ shared \in Shareds /\ th \in [Hid!Runs -> Ths]
      /\ child \in [Hid!Runs -> Children]
  BY TypedObject
<1>2. /\ run \in 0 .. MaxRuns /\ work \in 0 .. MaxWork /\ MaxRuns \in Nat
      /\ MaxWork \in Nat /\ InputCap \in Nat \ {0} /\ 0 \in 0 .. MaxRuns /\ 0 \in 0 .. MaxWork
      /\ 0 \in 0 .. InputCap /\ 0 \in 0 .. 3
      /\ shared.unwritten \in 0 .. InputCap /\ shared.own \in Nat
      /\ shared.finished \in 0 .. MaxRuns /\ shared.pending \in 0 .. MaxRuns
      /\ q.state \in {"NotRunning", "Starting", "Running"} /\ q.proc \in 0 .. MaxRuns
      /\ shared.early \in 0 .. 3 /\ shared.early % 2 \in {0, 1} /\ FenceInv
  BY <1>1, Numbers, EarlyInput DEF Shareds, Objects, RunsInv
<1>r. /\ r \in 1 .. MaxRuns /\ r \in 0 .. MaxRuns /\ WorkerOf(r) /\ WaiterOf(r)
         /\ ProcessOf(r)
      /\ child[r].pipe \in 0 .. MaxWork /\ child[r].input \in 0 .. MaxWork
  BY Numbers DEF RunsInv
<1>3. CASE Hid!WorkerDelivers(r)
  <2>1. CASE Hid!StaleWorker(r)
    <3>r. /\ r \in 1 .. MaxRuns /\ r \in 0 .. MaxRuns /\ WorkerOf(r) /\ WaiterOf(r)
             /\ ProcessOf(r)
          /\ child[r].pipe \in 0 .. MaxWork /\ child[r].input \in 0 .. MaxWork
      BY <1>r
    <3>1. q' = q
      BY <1>3, <2>1 DEF Hid!WorkerDelivers, Hid!At, Hid!Move, Hid!StaleWorker
    <3>2. shared' = shared
      BY <1>3, <2>1 DEF Hid!WorkerDelivers, Hid!At, Hid!Move, Hid!StaleWorker
    <3>3. /\ th[r].worker = "created"
          /\ r # shared.current \/ shared.disposed
          /\ q' = q
          /\ shared' = shared
      BY <1>3, <2>1 DEF Hid!WorkerDelivers, Hid!At, Hid!StaleWorker
    <3> DEFINE t == [th[r] EXCEPT !.worker = "done"]
    <3>4. t \in Ths
      <4> QED BY <1>1 DEF Ths
    <3>5. th' = [th EXCEPT ![r] = t]
      BY <1>3 DEF Hid!WorkerDelivers, Hid!Move
    <3>6. /\ th' \in [Hid!Runs -> Ths] /\ th'[r] = t
          /\ \A s \in Hid!Runs \ {r} : th'[s] = th[s]
      BY <1>1, <3>r, <3>4, <3>5
    <3>7. /\ th'[r].worker = "done"
          /\ th'[r].writer = th[r].writer
          /\ th'[r].reader = th[r].reader
          /\ th'[r].waiter = th[r].waiter
      BY <1>1, <3>r, <3>6 DEF Ths
    <3> DEFINE c == [child[r] EXCEPT !.closer = (child[r].life # "absent")]
    <3>8. c \in Children
      <4>1. (child[r].life # "absent") \in BOOLEAN
        BY <1>1, <1>2, <3>r, <3>3 DEF ProcessOf, Children
      <4> QED BY <1>1, <4>1 DEF Children
    <3>9. child' = [child EXCEPT ![r] = c]
      BY <1>3, <2>1 DEF Hid!WorkerDelivers
    <3>10. /\ child' \in [Hid!Runs -> Children] /\ child'[r] = c
           /\ \A s \in Hid!Runs \ {r} : child'[s] = child[s]
      BY <1>1, <3>r, <3>8, <3>9
    <3>11. /\ child'[r].life = child[r].life
           /\ child'[r].pipe = child[r].pipe
           /\ child'[r].input = child[r].input
           /\ child'[r].closer = (child[r].life # "absent")
      BY <1>1, <3>r, <3>10 DEF Children
    <3>12. run' = run /\ work' = work
      BY <1>3 DEF Hid!WorkerDelivers
    <3>13. Hid!TypeOK'
      BY <1>1, <1>2, <3>1, <3>2, <3>6, <3>10, <3>12
        DEF Hid!TypeOK, Objects, Shareds, Ths, Children
    <3>14. FenceInv'
      BY <1>2, <3>3, <3>12 DEF FenceInv, Hid!OnlyTheCurrentRun, Hid!StaleWorker
    <3>15. ASSUME NEW s \in Hid!Runs, s # r
           PROVE (WorkerOf(s) /\ WaiterOf(s) /\ ProcessOf(s))'
      <4>1. /\ WorkerOf(s) /\ WaiterOf(s) /\ ProcessOf(s)
            /\ s \in 1 .. MaxRuns /\ child[s].pipe \in Nat /\ child[s].input \in Nat
        BY Numbers DEF RunsInv
      <4>2. th'[s] = th[s] /\ child'[s] = child[s]
        BY <3>6, <3>10, <3>15
      <4> QED BY <3>3, <3>12, <4>1, <4>2
          DEF WorkerOf, WaiterOf, ProcessOf, Hid!StaleWorker
    <3>16. (WorkerOf(r) /\ WaiterOf(r) /\ ProcessOf(r))'
      BY <3>r, <3>3, <3>7, <3>11, <3>12 DEF WorkerOf, WaiterOf, ProcessOf
    <3>17. RunsInv'
      BY <3>13, <3>14, <3>15, <3>16 DEF RunsInv
    <3>18. ASSUME EndsInv PROVE EndsInv'
      <4>1. /\ OwnerInv
            /\ told' = told
        BY <1>3, <3>18 DEF EndsInv, Hid!WorkerDelivers
      <4>2. OwnerInv'
        BY <3>3, <3>12, <4>1 DEF OwnerInv, ToldOfEnd
      <4>3. ASSUME NEW s \in Hid!Runs, s # r PROVE EndOf(s)'
        <5>1. EndOf(s) /\ WorkerOf(s) /\ WaiterOf(s) /\ ProcessOf(s) /\ s \in 1 .. MaxRuns
          BY <3>18, Numbers DEF EndsInv, RunsInv
        <5>2. th'[s] = th[s] /\ child'[s] = child[s]
          BY <3>6, <3>10, <4>3
        <5> QED BY <3>3, <3>12, <4>1, <5>1, <5>2 DEF EndOf, ToldOfEnd
      <4>4. EndOf(r) /\ r \in 1 .. MaxRuns
        BY <3>18, <3>r, Numbers DEF EndsInv
      <4>5. EndOf(r)'
        BY <3>3, <3>7, <3>11, <3>12, <4>1, <4>4 DEF EndOf, ToldOfEnd
      <4> QED BY <4>2, <4>3, <4>4, <4>5 DEF EndsInv
    <3> QED BY <3>17, <3>18 DEF HiddenInv
  <2>2. CASE ~Hid!StaleWorker(r)
    <3>r. /\ r \in 1 .. MaxRuns /\ r \in 0 .. MaxRuns /\ WorkerOf(r) /\ WaiterOf(r)
             /\ ProcessOf(r)
          /\ child[r].pipe \in 0 .. MaxWork /\ child[r].input \in 0 .. MaxWork
      BY <1>r
    <3>1. q' = q
      BY <1>3, <2>2 DEF Hid!WorkerDelivers, Hid!At, Hid!Move, Hid!StaleWorker
    <3>2. shared' \in Shareds
      <4>1. shared' = [shared EXCEPT !.pending = r]
        BY <1>3, <2>2 DEF Hid!WorkerDelivers, Hid!At, Hid!Move, Hid!StaleWorker
      <4> QED BY <1>1, <1>2, <3>r, <4>1 DEF Shareds, Hid!Runs
    <3>3. /\ th[r].worker = "created"
          /\ r = shared.current
          /\ ~shared.disposed
          /\ q' = q
          /\ shared'.current = shared.current
          /\ shared'.disposed = shared.disposed
          /\ shared'.pending = r
          /\ shared'.early = shared.early
          /\ shared'.unwritten = shared.unwritten
          /\ shared'.own = shared.own
          /\ shared'.cut = shared.cut
          /\ shared'.output = shared.output
          /\ shared'.finished = shared.finished
          /\ shared'.event = shared.event
      BY <1>1, <1>3, <2>2 DEF Hid!WorkerDelivers, Hid!At, Hid!StaleWorker, Shareds
    <3> DEFINE t == [th[r] EXCEPT !.worker = "done"]
    <3>4. t \in Ths
      <4> QED BY <1>1 DEF Ths
    <3>5. th' = [th EXCEPT ![r] = t]
      BY <1>3 DEF Hid!WorkerDelivers, Hid!Move
    <3>6. /\ th' \in [Hid!Runs -> Ths] /\ th'[r] = t
          /\ \A s \in Hid!Runs \ {r} : th'[s] = th[s]
      BY <1>1, <3>r, <3>4, <3>5
    <3>7. /\ th'[r].worker = "done"
          /\ th'[r].writer = th[r].writer
          /\ th'[r].reader = th[r].reader
          /\ th'[r].waiter = th[r].waiter
      BY <1>1, <3>r, <3>6 DEF Ths
    <3>8. child' = child
      BY <1>3, <2>2 DEF Hid!WorkerDelivers, Hid!At, Hid!Move, Hid!StaleWorker
    <3>9. run' = run /\ work' = work
      BY <1>3 DEF Hid!WorkerDelivers
    <3>10. Hid!TypeOK'
      BY <1>1, <1>2, <3>1, <3>2, <3>6, <3>8, <3>9
        DEF Hid!TypeOK, Objects, Shareds, Ths, Children
    <3>11. FenceInv'
      BY <1>2, <3>r, <3>3, <3>9
        DEF FenceInv, Hid!OnlyTheCurrentRun, Hid!StaleWorker, WorkerOf
    <3>12. ASSUME NEW s \in Hid!Runs, s # r
           PROVE (WorkerOf(s) /\ WaiterOf(s) /\ ProcessOf(s))'
      <4>1. /\ WorkerOf(s) /\ WaiterOf(s) /\ ProcessOf(s)
            /\ s \in 1 .. MaxRuns /\ child[s].pipe \in Nat /\ child[s].input \in Nat
        BY Numbers DEF RunsInv
      <4>2. th'[s] = th[s] /\ child'[s] = child[s]
        BY <3>6, <3>8, <3>12
      <4> QED BY <3>r, <3>3, <3>9, <4>1, <4>2, <3>12
          DEF WorkerOf, WaiterOf, ProcessOf, Hid!StaleWorker
    <3>13. (WorkerOf(r) /\ WaiterOf(r) /\ ProcessOf(r))'
      BY <3>r, <3>3, <3>7, <3>8, <3>9 DEF WorkerOf, WaiterOf, ProcessOf
    <3>14. RunsInv'
      BY <3>10, <3>11, <3>12, <3>13 DEF RunsInv
    <3>15. ASSUME EndsInv PROVE EndsInv'
      <4>1. /\ OwnerInv
            /\ told' = told
        BY <1>3, <3>15 DEF EndsInv, Hid!WorkerDelivers
      <4>2. OwnerInv'
        BY <3>3, <3>9, <4>1 DEF OwnerInv, ToldOfEnd
      <4>3. ASSUME NEW s \in Hid!Runs, s # r PROVE EndOf(s)'
        <5>1. EndOf(s) /\ WorkerOf(s) /\ WaiterOf(s) /\ ProcessOf(s) /\ s \in 1 .. MaxRuns
          BY <3>15, Numbers DEF EndsInv, RunsInv
        <5>2. th'[s] = th[s] /\ child'[s] = child[s]
          BY <3>6, <3>8, <4>3
        <5> QED BY <3>3, <3>9, <4>1, <5>1, <5>2 DEF EndOf, ToldOfEnd
      <4>4. EndOf(r) /\ r \in 1 .. MaxRuns
        BY <3>15, <3>r, Numbers DEF EndsInv
      <4>5. EndOf(r)'
        BY <3>3, <3>7, <3>8, <3>9, <4>1, <4>4 DEF EndOf, ToldOfEnd
      <4> QED BY <4>2, <4>3, <4>4, <4>5 DEF EndsInv
    <3> QED BY <3>14, <3>15 DEF HiddenInv
  <2> QED BY <2>1, <2>2
<1>4. CASE Hid!WaiterClears(r)
  <2>r. /\ r \in 1 .. MaxRuns /\ r \in 0 .. MaxRuns /\ WorkerOf(r) /\ WaiterOf(r)
           /\ ProcessOf(r)
        /\ child[r].pipe \in 0 .. MaxWork /\ child[r].input \in 0 .. MaxWork
    BY <1>r
  <2>1. q' \in Objects
    <3>1. q' = [q EXCEPT !.proc = 0, !.state = "NotRunning"]
      BY <1>4 DEF Hid!WaiterClears, Hid!At, Hid!Move
    <3> QED BY <1>1, <1>2, <2>r, <3>1 DEF Objects, Hid!Runs
  <2>2. shared' = shared
    BY <1>4 DEF Hid!WaiterClears, Hid!At, Hid!Move
  <2>3. /\ th[r].waiter = "clear"
        /\ q'.state = "NotRunning"
        /\ q'.proc = 0
        /\ q'.gui = q.gui
        /\ q'.rushed = q.rushed /\ q'.stray = q.stray
        /\ shared' = shared
    BY <1>4 DEF Hid!WaiterClears, Hid!At
  <2> DEFINE t == [th[r] EXCEPT !.waiter = "notify"]
  <2>4. t \in Ths
    <3> QED BY <1>1 DEF Ths
  <2>5. th' = [th EXCEPT ![r] = t]
    BY <1>1, <2>r, <1>4 DEF Hid!WaiterClears, Hid!At, Hid!Move
  <2>6. /\ th' \in [Hid!Runs -> Ths] /\ th'[r] = t
        /\ \A s \in Hid!Runs \ {r} : th'[s] = th[s]
    BY <1>1, <2>r, <2>4, <2>5
  <2>7. /\ th'[r].worker = th[r].worker
        /\ th'[r].writer = th[r].writer
        /\ th'[r].reader = th[r].reader
        /\ th'[r].waiter = "notify"
    BY <1>1, <2>r, <2>6 DEF Ths
  <2>8. child' = child
    BY <1>4 DEF Hid!WaiterClears, Hid!At, Hid!Move
  <2>9. run' = run /\ work' = work
    BY <1>2, <2>r, <1>4 DEF Hid!WaiterClears, Hid!At, Hid!Move
  <2>10. Hid!TypeOK'
    BY <1>1, <1>2, <2>1, <2>2, <2>6, <2>8, <2>9
      DEF Hid!TypeOK, Objects, Shareds, Ths, Children
  <2>11. FenceInv'
    BY <1>2, <2>r, <2>3, <2>9 DEF FenceInv, Hid!OnlyTheCurrentRun, WaiterOf
  <2>12. ASSUME NEW s \in Hid!Runs, s # r
         PROVE (WorkerOf(s) /\ WaiterOf(s) /\ ProcessOf(s))'
    <3>1. /\ WorkerOf(s) /\ WaiterOf(s) /\ ProcessOf(s)
          /\ s \in 1 .. MaxRuns /\ child[s].pipe \in Nat /\ child[s].input \in Nat
      BY Numbers DEF RunsInv
    <3>2. th'[s] = th[s] /\ child'[s] = child[s]
      BY <2>6, <2>8, <2>12
    <3> QED BY <1>2, <2>r, <2>3, <2>9, <3>1, <3>2, <2>12 DEF WorkerOf, WaiterOf,
        ProcessOf, FenceInv, Hid!OnlyTheCurrentRun, Hid!StaleWorker
  <2>13. (WorkerOf(r) /\ WaiterOf(r) /\ ProcessOf(r))'
    BY <2>r, <2>3, <2>7, <2>8, <2>9 DEF WorkerOf, WaiterOf, ProcessOf
  <2>14. RunsInv'
    BY <2>10, <2>11, <2>12, <2>13 DEF RunsInv
  <2>15. ASSUME EndsInv PROVE EndsInv'
    <3>1. /\ OwnerInv
          /\ told' = told
      BY <1>4, <2>15 DEF EndsInv, Hid!WaiterClears, Hid!At, Hid!Move
    <3>2. OwnerInv'
      BY <1>2, <2>r, <2>3, <2>9, <3>1
        DEF OwnerInv, ToldOfEnd, FenceInv, Hid!OnlyTheCurrentRun, WaiterOf
    <3>3. ASSUME NEW s \in Hid!Runs, s # r PROVE EndOf(s)'
      <4>1. EndOf(s) /\ WorkerOf(s) /\ WaiterOf(s) /\ ProcessOf(s) /\ s \in 1 .. MaxRuns
        BY <2>15, Numbers DEF EndsInv, RunsInv
      <4>2. th'[s] = th[s] /\ child'[s] = child[s]
        BY <2>6, <2>8, <3>3
      <4> QED BY <2>3, <2>9, <3>1, <4>1, <4>2 DEF EndOf, ToldOfEnd
    <3>4. EndOf(r) /\ r \in 1 .. MaxRuns
      BY <2>15, <2>r, Numbers DEF EndsInv
    <3>5. EndOf(r)'
      <4>1. q.gui # "start"
        BY <1>2, <2>r, <2>3 DEF WaiterOf, FenceInv, Hid!OnlyTheCurrentRun
      <4> QED BY <2>3, <2>7, <2>8, <2>9, <3>1, <3>4, <4>1 DEF EndOf
    <3> QED BY <3>2, <3>3, <3>4, <3>5 DEF EndsInv
  <2> QED BY <2>14, <2>15 DEF HiddenInv
<1> QED BY <1>3, <1>4

(* The invariant holds at first, and every step keeps it.                  *)
LEMMA HiddenStart == ASSUME HidBounds, Hid!Init PROVE HiddenInv
<1>1. /\ 0 \in 0 .. MaxRuns /\ 0 \in 0 .. MaxWork /\ 0 \in 0 .. InputCap /\ 0 \in Nat
      /\ 0 \in 0 .. 3 /\ 0 % 2 = 0
  BY BoundsAssumption DEF HidBounds
<1>2. /\ th = [r \in Hid!Runs |-> [worker |-> "none", writer |-> "none",
                                   reader |-> "none", waiter |-> "none"]]
      /\ child = [r \in Hid!Runs |-> [life |-> "absent", pipe |-> 0, input |-> 0,
                                      closer |-> FALSE]]
      /\ run = 0 /\ work = 0 /\ told = <<>>
  BY DEF Hid!Init
<1>3. /\ q.state = "NotRunning" /\ q.proc = 0 /\ q.gui = "loop" /\ shared.current = 0
      /\ ~shared.disposed /\ shared.pending = 0 /\ shared.early = 0 /\ shared.own = 0
      /\ shared.finished = 0 /\ ~q.stray
  BY DEF Hid!Init
<1>4. ASSUME NEW r \in Hid!Runs
      PROVE  /\ th[r].worker = "none" /\ th[r].reader = "none" /\ th[r].waiter = "none"
             /\ child[r].life = "absent" /\ child[r].pipe = 0 /\ child[r].input = 0
             /\ r \in 1 .. MaxRuns
  BY <1>2 DEF Hid!Runs
<1>5. Hid!TypeOK
  <2>1. q \in Objects /\ shared \in Shareds
    BY <1>1 DEF Hid!Init, Objects, Shareds
  <2> QED
    BY <1>1, <1>2, <2>1 DEF Hid!TypeOK, Objects, Shareds
<1>6. FenceInv
  BY <1>1, <1>2, <1>3 DEF FenceInv, Hid!OnlyTheCurrentRun
<1>7. ASSUME NEW r \in Hid!Runs PROVE WorkerOf(r) /\ WaiterOf(r) /\ ProcessOf(r)
  BY <1>1, <1>2, <1>3, <1>4 DEF WorkerOf, WaiterOf, ProcessOf
<1>8. RunsInv
  BY <1>5, <1>6, <1>7 DEF RunsInv
<1>9. OwnerInv
  BY <1>2, <1>3 DEF OwnerInv, Tolds
<1>10. ASSUME NEW r \in Hid!Runs PROVE EndOf(r)
  <2>1. told \notin Announced /\ told # <<"started", "finished">>
    BY <1>2 DEF Announced
  <2> QED
    BY <1>2, <1>3, <1>4, <2>1 DEF EndOf
<1> QED
  BY <1>8, <1>9, <1>10 DEF HiddenInv, EndsInv

LEMMA HiddenStep == ASSUME HidBounds, HiddenInv, [Hid!Next]_Hid!vars PROVE HiddenInv'
<1>1. CASE Hid!Owner
  BY <1>1, MethodsKeep
<1>2. CASE Hid!Starts \/ Hid!PollStartup \/ Hid!Dispatch
  BY <1>2, ObjectKeeps
<1>3. ASSUME NEW r \in Hid!Runs, Hid!Child(r) \/ Hid!Worker(r) \/ Hid!Writer(r)
             \/ Hid!Reader(r) \/ Hid!Waiter(r) \/ Hid!WaiterFails(r)
      PROVE  HiddenInv'
  <2>1. CASE Hid!Child(r)
    BY <2>1, ChildKeeps
  <2>2. CASE Hid!Writer(r)
    BY <2>2, WriterKeeps
  <2>3. CASE Hid!Reader(r)
    BY <2>3, ReaderKeeps
  <2>4. CASE Hid!WorkerDelivers(r) \/ Hid!WaiterClears(r)
    BY <2>4, HandOversKeep
  <2>5. CASE Hid!Worker(r) /\ ~Hid!WorkerDelivers(r)
    BY <2>5, WorkerKeeps
  <2>6. CASE (Hid!Waiter(r) /\ ~Hid!WaiterClears(r)) \/ Hid!WaiterFails(r)
    BY <2>6, WaiterKeeps
  <2> QED
    BY <1>3, <2>1, <2>2, <2>3, <2>4, <2>5, <2>6
<1>4. CASE UNCHANGED Hid!vars
  BY <1>4 DEF Hid!vars, HiddenInv, RunsInv, Hid!TypeOK, FenceInv, Hid!OnlyTheCurrentRun,
    Hid!StaleWorker, WorkerOf, WaiterOf, ProcessOf, EndsInv, OwnerInv, EndOf, ToldOfEnd
<1> QED
  BY <1>1, <1>2, <1>3, <1>4 DEF Hid!Next

(* The end of a run comes last.                                            *)
LEMMA HiddenEnds ==
  ASSUME HidBounds, HiddenInv
  PROVE  Hid!EndComesLast
<1>1. /\ RunsInv /\ OwnerInv /\ (\A r \in Hid!Runs : EndOf(r))
      /\ run \in 0 .. MaxRuns
  BY Numbers DEF HiddenInv, EndsInv
<1>2. Hid!FinalOutput
  <2>1. SUFFICES ASSUME told = <<"started", "finished">>, th[run].reader = "ended",
                        ~shared.cut
                 PROVE  child[run].pipe = 0 /\ shared.own = 0
    BY DEF Hid!FinalOutput
  <2>2. told # <<>> /\ told # <<"started", "closed">>
    BY <2>1
  <2>3. run \in Hid!Runs
    BY <1>1, <2>2 DEF OwnerInv, Hid!Runs
  <2> QED
    BY <1>1, <2>1, <2>2, <2>3 DEF EndOf
<1>3. Hid!EventMeansEnd
  <2>1. Hid!Over <=> run = 0 \/ ToldOfEnd
    BY <1>1, OverIs DEF OwnerInv
  <2> QED
    BY <1>1, <2>1 DEF OwnerInv, Hid!EventMeansEnd
<1>4. Hid!EndIsItsOwn
  BY <1>1 DEF OwnerInv, Hid!EndIsItsOwn, Hid!StrayEnd
<1> QED
  BY <1>2, <1>3, <1>4 DEF Hid!EndComesLast

(* Runs are apart whoever owns the object.                                 *)
LEMMA HiddenRuns == ASSUME HidBounds, HiddenInv PROVE Hid!RunsApart
<1>1. Hid!TypeOK /\ Hid!OnlyTheCurrentRun
  BY DEF HiddenInv, RunsInv, FenceInv
<1>2. \A r \in Hid!Runs : ProcessOf(r)
  BY DEF HiddenInv, RunsInv
<1>3. Hid!NoOrphan
  BY <1>2 DEF Hid!NoOrphan, ProcessOf
<1>4. Hid!InputIsNotRefused
  <2>1. q.proc # 0 => q.proc \in Hid!Runs
    BY <1>1, BoundsAssumption DEF Hid!TypeOK, Hid!Runs
  <2> QED
    BY <1>2, <2>1 DEF Hid!InputIsNotRefused, ProcessOf
<1> QED
  BY <1>1, <1>3, <1>4 DEF Hid!RunsApart

(* What became of the end of a former run.                                 *)
Mark == IF q.stray THEN "told" ELSE IF Hid!StrayEnd THEN "queued" ELSE "none"

(* The contract of a helper's process, step by step.                       *)
LEMMA HiddenContractStep ==
  ASSUME HidBounds, HiddenInv, [Hid!Next]_Hid!vars
  PROVE  [Hid!Contract!Next]_<<q.state, run, told, Mark>>
<1>0. /\ RunsInv /\ OwnerInv /\ FenceInv /\ run \in 0 .. MaxRuns /\ MaxRuns \in Nat
      /\ q \in Objects /\ shared \in Shareds
  BY Numbers, TypedObject DEF HiddenInv, EndsInv, RunsInv
<1>o. Hid!Over <=> run = 0 \/ ToldOfEnd
  BY <1>0, OverIs DEF OwnerInv
<1>1. ASSUME run' = run, told' = told, q'.state = q.state, q'.stray = q.stray,
             shared'.finished \in {0, run, shared.finished}
      PROVE  [Hid!Contract!Next]_<<q.state, run, told, Mark>>
  <2>1. CASE Mark' = Mark
    BY <1>1, <2>1
  <2>2. CASE Mark' # Mark
    <3>1. Mark = "queued" /\ Mark' = "none"
      BY <1>1, <2>2 DEF Mark, Hid!StrayEnd
    <3>2. Hid!Contract!Stray
      BY <1>1, <3>1 DEF Hid!Contract!Stray, Mark
    <3> QED
      BY <3>2 DEF Hid!Contract!Next
  <2> QED
    BY <2>1, <2>2
<1>2. ASSUME run' = run, q'.stray = q.stray, shared'.finished = shared.finished
      PROVE  Mark' = Mark
  BY <1>2 DEF Mark, Hid!StrayEnd
<1>3. ASSUME q.state = "Starting" PROVE told = <<>> /\ run # 0
  BY <1>0, <1>3 DEF OwnerInv, FenceInv
<1>4. CASE Hid!Starts
  <2>1. /\ q.gui = "start" /\ run' = run + 1 /\ told' = <<>> /\ q'.state = "Starting"
        /\ q'.stray = FALSE /\ shared'.finished = shared.finished
    BY <1>0, <1>4 DEF Hid!Starts, Objects, Shareds
  <2>2. run < MaxRuns /\ q.state = "NotRunning" /\ shared.finished \in {0, run}
    BY <1>0, <2>1 DEF FenceInv, OwnerInv
  <2>3. shared.finished # 0 => Hid!Contract!Owed
    BY <1>0, <2>2 DEF OwnerInv, Hid!Contract!Owed
  <2>4. Mark' \in {"none"} \union (IF Hid!Contract!Owed THEN {"queued"} ELSE {})
    BY <1>0, <2>1, <2>2, <2>3 DEF Mark, Hid!StrayEnd
  <2>5. Hid!Contract!Start
    BY <2>1, <2>2, <2>4 DEF Hid!Contract!Start, Mark
  <2> QED
    BY <2>5 DEF Hid!Contract!Next
<1>5. CASE Hid!StartupFails
  <2>1. CASE Hid!StaleStart
    <3>1. /\ run' = run /\ told' = told /\ q'.state = q.state /\ q'.stray = q.stray
          /\ shared'.finished = shared.finished
      BY <1>0, <1>5, <2>1 DEF Hid!StartupFails, Objects, Shareds
    <3> QED
      BY <1>1, <3>1
  <2>2. CASE ~Hid!StaleStart
    <3>0. q.state = "Starting"
      BY <2>2 DEF Hid!StaleStart
    <3>1. /\ run' = run /\ told' = Append(told, "error") /\ q.state = "Starting"
          /\ q'.state = "NotRunning" /\ q'.stray = q.stray
          /\ shared'.finished = shared.finished
      BY <1>0, <1>5, <2>2, <3>0 DEF Hid!StartupFails, Objects, Shareds
    <3>2. Mark' = Mark
      BY <1>2, <3>1
    <3>3. Hid!Contract!FailToStart
      BY <3>1, <3>2 DEF Hid!Contract!FailToStart, Hid!Contract!Tell, Mark
    <3> QED
      BY <3>3 DEF Hid!Contract!Next
  <2> QED
    BY <2>1, <2>2
<1>6. CASE Hid!Adopt
  <2>1. /\ run' = run /\ told' = Append(told, "started") /\ q.state = "Starting"
        /\ q'.state = "Running" /\ q'.stray = q.stray
        /\ shared'.finished = shared.finished
    BY <1>0, <1>6 DEF Hid!Adopt, Hid!StaleStart, Objects, Shareds
  <2>2. Mark' = Mark
    BY <1>2, <2>1
  <2>3. Hid!Contract!Started
    BY <2>1, <2>2 DEF Hid!Contract!Started, Hid!Contract!Tell, Mark
  <2> QED
    BY <2>3 DEF Hid!Contract!Next
<1>7. CASE Hid!Dispatch
  <2>1. /\ run' = run /\ q'.state = q.state /\ shared'.finished = 0
        /\ q'.stray = (q.stray \/ Hid!StrayEnd)
        /\ told' = IF shared.finished # 0 /\ ~Hid!StrayEnd THEN Append(told, "finished") ELSE told
    BY <1>0, <1>7 DEF Hid!Dispatch, Objects, Shareds
  <2>2. CASE Hid!StrayEnd
    <3>1. told' = told /\ Mark' = "told"
      BY <2>1, <2>2 DEF Mark
    <3>2. CASE q.stray
      BY <2>1, <3>1, <3>2 DEF Mark
    <3>3. CASE ~q.stray
      <4>1. Hid!Contract!Stray
        BY <2>1, <2>2, <3>1, <3>3 DEF Hid!Contract!Stray, Mark
      <4> QED
        BY <4>1 DEF Hid!Contract!Next
    <3> QED
      BY <3>2, <3>3
  <2>3. CASE shared.finished = 0
    <3>1. q'.stray = q.stray /\ told' = told
      BY <1>0, <2>1, <2>3 DEF Hid!StrayEnd, Objects
    <3> QED
      BY <1>1, <2>1, <3>1
  <2>4. CASE shared.finished # 0 /\ ~Hid!StrayEnd
    <3>1. q'.stray = q.stray /\ told' = Append(told, "finished") /\ shared.finished = run
      BY <1>0, <2>1, <2>4 DEF Hid!StrayEnd, Objects
    <3>2. Mark' = Mark
      BY <2>1, <2>4, <3>1 DEF Mark, Hid!StrayEnd
    <3>3. Hid!Contract!Owed
      BY <1>0, <2>4, <3>1 DEF OwnerInv, Hid!Contract!Owed
    <3>4. Hid!Contract!Finished
      BY <2>1, <3>1, <3>2, <3>3 DEF Hid!Contract!Finished, Hid!Contract!Tell, Mark
    <3> QED
      BY <3>4 DEF Hid!Contract!Next
  <2> QED
    BY <2>2, <2>3, <2>4 DEF Hid!StrayEnd
<1>8. CASE Hid!Terminate /\ Hid!Cancel
  <2>1. /\ run' = run /\ told' = Append(told, "finished") /\ q.state = "Starting"
        /\ q'.state = "NotRunning" /\ q'.stray = q.stray
        /\ shared'.finished = shared.finished
    BY <1>0, <1>8 DEF Hid!Terminate, Hid!Cancel, Objects, Shareds
  <2>2. Mark' = Mark
    BY <1>2, <2>1
  <2>3. Hid!Contract!Cancelled
    BY <2>1, <2>2 DEF Hid!Contract!Cancelled, Hid!Contract!Tell, Mark
  <2> QED
    BY <2>3 DEF Hid!Contract!Next
<1>9. CASE Hid!Close
  <2>1. /\ run' = run /\ told' = (IF Hid!Over THEN told ELSE Append(told, "closed"))
        /\ q'.state = "NotRunning" /\ q'.stray = q.stray /\ shared'.finished = 0
    BY <1>0, <1>9 DEF Hid!Close, Objects, Shareds
  <2>2. CASE Hid!Over
    <3>1. q.state = "NotRunning"
      BY <1>0, <1>o, <2>2
        DEF OwnerInv, FenceInv, ToldOfEnd, Objects, Hid!OnlyTheCurrentRun
    <3> QED
      BY <1>1, <2>1, <2>2, <3>1
  <2>3. CASE ~Hid!Over
    <3>1. q.state # "NotRunning" \/ Hid!Contract!Owed
      BY <1>0, <1>o, <2>3 DEF OwnerInv, ToldOfEnd, Hid!Contract!Owed
    <3>2. Mark' = IF Mark = "queued" THEN "none" ELSE Mark
      BY <1>0, <2>1 DEF Mark, Hid!StrayEnd, Objects
    <3>3. Hid!Contract!Closed
      BY <2>1, <2>3, <3>1, <3>2 DEF Hid!Contract!Closed, Hid!Contract!Tell, Mark
    <3> QED
      BY <3>3 DEF Hid!Contract!Next
  <2> QED
    BY <2>2, <2>3
<1>10. ASSUME NEW r \in Hid!Runs, Hid!WaiterClears(r)
       PROVE  [Hid!Contract!Next]_<<q.state, run, told, Mark>>
  <2>1. /\ run' = run /\ told' = told /\ q'.state = "NotRunning" /\ q'.stray = q.stray
        /\ shared' = shared /\ th[r].waiter = "clear"
    BY <1>0, <1>10 DEF Hid!WaiterClears, Hid!At, Objects
  <2>2. Mark' = Mark
    BY <1>2, <2>1
  <2>3. q.state \in {"NotRunning", "Running"}
    <3>1. WaiterOf(r)
      BY <1>0 DEF RunsInv
    <3>2. q.proc = r \/ shared.disposed
      BY <2>1, <3>1 DEF WaiterOf
    <3>3. r # 0
      BY <1>0 DEF Hid!Runs
    <3> QED
      BY <1>0, <3>2, <3>3 DEF FenceInv, Hid!OnlyTheCurrentRun
  <2>4. CASE q.state = "NotRunning"
    BY <2>1, <2>2, <2>4
  <2>5. CASE q.state = "Running"
    <3>1. Hid!Contract!Exits
      BY <2>1, <2>2, <2>5 DEF Hid!Contract!Exits, Mark
    <3> QED
      BY <3>1 DEF Hid!Contract!Next
  <2> QED
    BY <2>3, <2>4, <2>5
<1>11. CASE Hid!Owner /\ ~(Hid!Terminate /\ Hid!Cancel) /\ ~Hid!Close
  <2>1. /\ run' = run /\ told' = told /\ q'.state = q.state /\ q'.stray = q.stray
        /\ shared'.finished \in {0, shared.finished}
    BY <1>0, <1>11 DEF Hid!Owner, Hid!StartClears, Hid!SetOutputPaused, Hid!Write,
      Hid!CloseWriteChannel, Hid!Terminate, Hid!AskToEnd, Objects, Shareds
  <2> QED
    BY <1>1, <2>1
<1>12. ASSUME NEW r \in Hid!Runs,
              \/ Hid!Child(r) \/ Hid!Worker(r) \/ Hid!Writer(r) \/ Hid!Reader(r)
              \/ (Hid!Waiter(r) /\ ~Hid!WaiterClears(r)) \/ Hid!WaiterFails(r)
       PROVE  [Hid!Contract!Next]_<<q.state, run, told, Mark>>
  <2>1. CASE Hid!Child(r) \/ Hid!Worker(r)
    <3>1. run' = run /\ told' = told /\ q' = q /\ shared'.finished = shared.finished
      BY <1>0, <2>1 DEF Hid!Child, Hid!ChildWrites, Hid!ChildExits, Hid!CloserKills,
        Hid!Worker, Hid!WorkerCreates, Hid!WorkerDelivers, Shareds
    <3> QED
      BY <1>1, <3>1
  <2>2. CASE Hid!Writer(r)
    <3>1. run' = run /\ told' = told /\ q' = q /\ shared'.finished = shared.finished
      BY <1>0, <2>2 DEF Hid!Writer, Hid!WriterGets, Hid!WriterFindsNothing, Hid!WriterStops,
        Hid!WriterWrites, Hid!WriterEnds, Shareds
    <3> QED
      BY <1>1, <3>1
  <2>3. CASE Hid!Reader(r)
    <3>1. run' = run /\ told' = told /\ q' = q /\ shared'.finished = shared.finished
      BY <1>0, <2>3 DEF Hid!Reader, Hid!ReaderPasses, Hid!ReaderReads, Hid!ReaderExtends,
        Hid!ReaderEnds, Hid!ReaderFails, Shareds
    <3> QED
      BY <1>1, <3>1
  <2>4. CASE Hid!WaiterNotifies(r)
    <3>1. /\ run' = run /\ told' = told /\ q' = q
          /\ shared'.finished = (IF Hid!WriterMayGoOn(r) THEN r ELSE shared.finished)
      BY <1>0, <2>4 DEF Hid!WaiterNotifies, Shareds
    <3>2. Hid!WriterMayGoOn(r) => r = run
      BY <1>0 DEF Hid!WriterMayGoOn, FenceInv, Hid!Runs
    <3> QED
      BY <1>1, <3>1, <3>2
  <2>5. CASE (Hid!Waiter(r) /\ ~Hid!WaiterClears(r) /\ ~Hid!WaiterNotifies(r)) \/ Hid!WaiterFails(r)
    <3>1. run' = run /\ told' = told /\ q' = q /\ shared'.finished = shared.finished
      BY <1>0, <2>5 DEF Hid!Waiter, Hid!WaiterSeesExit, Hid!WaiterJoins, Hid!WaiterChecks,
        Hid!WaiterSignals, Hid!WaiterFails, Hid!WaiterGoesOn, Shareds
    <3> QED
      BY <1>1, <3>1
  <2> QED
    BY <1>12, <2>1, <2>2, <2>3, <2>4, <2>5
<1>13. CASE UNCHANGED Hid!vars
  <2>1. run' = run /\ told' = told /\ q' = q /\ shared' = shared
    BY <1>13 DEF Hid!vars
  <2> QED
    BY <1>1, <2>1
<1> QED
  BY <1>4, <1>5, <1>6, <1>7, <1>8, <1>9, <1>10, <1>11, <1>12, <1>13
    DEF Hid!Next, Hid!PollStartup

(* The invariant of a hidden process, for any bounds and any owner.        *)
THEOREM HiddenInvariant == ASSUME HidBounds PROVE Hid!Spec => []HiddenInv
<1>1. Hid!Init => HiddenInv
  BY HiddenStart
<1>2. HiddenInv /\ [Hid!Next]_Hid!vars => HiddenInv'
  BY HiddenStep
<1> QED
  BY <1>1, <1>2, PTL DEF Hid!Spec

(* The threads of a former run leave the present one its child, its state  *)
(* and its input, though they go on with fields all runs share; and no     *)
(* running child is dropped.                                               *)
THEOREM HelpersStayApart == ASSUME HidBounds PROVE Hid!Spec => []Hid!RunsApart
<1>1. HiddenInv => Hid!RunsApart
  BY HiddenRuns
<1> QED
  BY <1>1, HiddenInvariant, PTL

(* The end of a run is told after all output of one that was read to its   *)
(* end, and nobody is woken before it is queued; the end of a former run   *)
(* is told only when start() came between a waiter's last two steps.       *)
THEOREM TheEndComesLast ==
  ASSUME HidBounds PROVE Hid!Spec => []Hid!EndComesLast
<1>1. HiddenInv => Hid!EndComesLast
  BY HiddenEnds
<1> QED
  BY <1>1, HiddenInvariant, PTL

(* A hidden process keeps the contract of HelperRun whenever its owner     *)
(* starts it: each run is announced at most once and told of its end at    *)
(* most once, and a stray end meets only an owner that did not wait for it.*)
THEOREM HiddenRefinement ==
  ASSUME HidBounds PROVE Hid!Spec => Hid!AbstractSpec
<1>1. Hid!Init => Hid!Contract!Init
  BY DEF Hid!Init, Hid!Contract!Init, Hid!StrayEnd
<1>2. HiddenInv /\ [Hid!Next]_Hid!vars => [Hid!Contract!Next]_Hid!Contract!vars
  <2>1. ASSUME HiddenInv, [Hid!Next]_Hid!vars PROVE [Hid!Contract!Next]_Hid!Contract!vars
    BY <2>1, HiddenContractStep DEF Mark, Hid!Contract!vars
  <2> QED
    BY <2>1
<1> QED
  BY <1>1, <1>2, HiddenInvariant, PTL DEF Hid!Spec, Hid!AbstractSpec, Hid!Contract!Spec
-----------------------------------------------------------------------------
(* The terminal tab that owns a process object, the instance Pane of       *)
(* TerminalTab, for either kind of object and any limits of its queue: the *)
(* output and the end of a run are shown in order and completely, nothing  *)
(* waits for a flush that is not scheduled, and the tab keeps to the       *)
(* contract of the object, ProcessRun.                                     *)
(*                                                                         *)
(* The invariant cannot be proved one action at a time, because handlers   *)
(* run inside one another: a poll in the middle of a refill may report the *)
(* end, whose slots drain the queue.  So the operators are given lemmas of *)
(* their own, with what each needs of the tab it starts from.              *)

CONSTANTS Object, High, Low, Turn, Sync
VARIABLE tab

Pane == INSTANCE TerminalTab

PaneBounds ==
  /\ Object \in {"ConPty", "QProcess"}
  /\ MaxRuns \in Nat /\ MaxOutput \in Nat /\ High \in Nat /\ Low \in Nat
  /\ Turn \in Nat \ {0} /\ Sync \in Nat \ {0} /\ Low < High

(* What every handler keeps throughout.                                    *)
Flows(t) ==
  /\ t \in Pane!Tabs
  /\ ~t.closing => t.made = t.shown + t.buf + t.held
  /\ t.closing => t.buf = 0
  /\ t.tail = "drained" => t.held = 0

(* What it keeps but while it handles the end of a run.                    *)
Steady(t) ==
  /\ Flows(t)
  /\ t.tail # "none" \/ t.deferred => ~Pane!Running(t)
  /\ t.tail = "none" /\ ~Pane!Running(t) /\ ~t.closing =>
       t.buf = 0 /\ (t.held = 0 \/ (t.stranded /\ ~t.scheduled))
  /\ t.state = "Starting" => t.told = <<>>
  /\ t.again # 0 /\ ~t.closing =>
       /\ t.again <= t.run
       /\ Pane!Running(t) => t.again = t.run \/ Object = "QProcess"
       /\ ~Pane!Running(t) => Object = "QProcess" /\ t.told = <<"error">>

(* A paused object and an unread tail have a queue to wait for.            *)
Filled(t) ==
  /\ t.paused => t.buf > Low
  /\ t.tail = "open" => t.buf > Low
  /\ t.held > 0 /\ ~t.closing => t.buf > 0 \/ t.stranded

Served(t) == Pane!Pending(t) \/ t.deferred => t.scheduled

(* A closed tab waits for nothing but the end of its process.              *)
Quiet(t) ==
  t.closing => t.again = 0 /\ ~t.deferred /\ (Pane!Running(t) \/ ~Pane!Pending(t))

Hushed(t) == t.closing => ~t.scheduled

(* A request to stop ends a session that is starting at once.              *)
Leaving(t) ==
  /\ Object = "ConPty" /\ t.state # "Running" =>
       IF t.closing THEN t.doomed ELSE t.again = 0
  /\ t.closing /\ t.state = "NotRunning" => t.doomed \/ t.told = <<"error">>

(* The inductive invariant of a tab.                                       *)
Sound(t) == Steady(t) /\ Filled(t) /\ Served(t)
TabRight(t) == Sound(t) /\ Quiet(t) /\ Leaving(t) /\ Hushed(t)

(* How a handler changes a tab.                                            *)
SameRun(t, x) == x.state = t.state /\ x.run = t.run /\ x.told = t.told

SameOut(t, x) ==
  /\ SameRun(t, x) /\ x.again = t.again /\ x.deferred = t.deferred
  /\ x.starts = t.starts /\ x.closing = t.closing /\ x.doomed = t.doomed

SameRest(t, x) == SameOut(t, x) /\ x.tail = t.tail /\ x.notice = t.notice

(* Filling the queue loses nothing, and pauses the object only when full. *)
LEMMA TabPull ==
  ASSUME PaneBounds, NEW t, Flows(t), NEW x, x = Pane!Pull(t)
  PROVE  /\ Flows(x) /\ SameRest(t, x) /\ ~x.stranded
         /\ x.made = t.made /\ x.shown = t.shown /\ x.buf >= t.buf
         /\ x.held > 0 => x.buf = High
         /\ x.paused => t.paused \/ x.buf >= High
         /\ x.scheduled <=> x.buf > t.buf \/ t.scheduled
         /\ t.closing => x.held = 0
<1>1. /\ t \in Pane!Tabs /\ t.held \in Nat /\ t.buf \in 0 .. High /\ High \in Nat
      /\ t.made \in Nat /\ t.shown \in Nat
  BY DEF PaneBounds, Flows, Pane!Tabs
<1>2. PICK n : n = Pane!Least(t.held, High - t.buf)
  OBVIOUS
<1>3. /\ n \in Nat /\ n <= t.held /\ n <= High - t.buf
      /\ n = t.held \/ n = High - t.buf
  BY <1>1, <1>2 DEF Pane!Least
<1>4. PICK h, b : h = t.held - n /\ b = t.buf + n
  OBVIOUS
<1>5. h \in Nat /\ b \in 0 .. High
  BY <1>1, <1>3, <1>4
<1>6. PICK k : k = IF t.closing THEN [t EXCEPT !.held = 0]
                                ELSE [t EXCEPT !.held = h, !.buf = b]
  OBVIOUS
<1>7. k \in Pane!Tabs
  BY <1>1, <1>5, <1>6 DEF Pane!Tabs
<1>8. /\ t.closing => k.held = 0 /\ k.buf = t.buf
      /\ ~t.closing => k.held = h /\ k.buf = b
      /\ k.scheduled = t.scheduled /\ k.paused = t.paused
      /\ k.made = t.made /\ k.shown = t.shown /\ SameRest(t, k)
  BY <1>1, <1>6 DEF Pane!Tabs, SameRest, SameOut, SameRun
<1>9. PICK u : u = IF ~t.closing /\ n > 0 THEN [k EXCEPT !.scheduled = TRUE] ELSE k
  OBVIOUS
<1>10. /\ u \in Pane!Tabs /\ u.held = k.held /\ u.buf = k.buf /\ u.paused = k.paused
       /\ u.made = k.made /\ u.shown = k.shown /\ SameRest(k, u)
       /\ u.scheduled <=> (~t.closing /\ n > 0) \/ k.scheduled
  BY <1>7, <1>9 DEF Pane!Tabs, SameRest, SameOut, SameRun
<1>11. u = Pane!Take(t)
  BY <1>2, <1>4, <1>6, <1>9 DEF Pane!Take, Pane!Schedule
<1>12. PICK v : v = [u EXCEPT !.stranded = FALSE]
  OBVIOUS
<1>13. /\ v \in Pane!Tabs /\ v.held = u.held /\ v.buf = u.buf /\ v.paused = u.paused
       /\ v.made = u.made /\ v.shown = u.shown /\ SameRest(u, v)
       /\ v.scheduled = u.scheduled /\ ~v.stranded
  BY <1>10, <1>12 DEF Pane!Tabs, SameRest, SameOut, SameRun
<1>14. x = IF v.buf >= High THEN [v EXCEPT !.paused = TRUE] ELSE v
  BY <1>11, <1>12 DEF Pane!Pull, Pane!PauseIfFull
<1>15. /\ x \in Pane!Tabs /\ x.held = v.held /\ x.buf = v.buf
       /\ x.made = v.made /\ x.shown = v.shown /\ SameRest(v, x)
       /\ x.scheduled = v.scheduled /\ x.stranded = v.stranded
       /\ x.paused => v.paused \/ x.buf >= High
  <2>1. CASE v.buf >= High
    <3>1. v \in Pane!Tabs /\ x = [v EXCEPT !.paused = TRUE]
      BY <1>13, <1>14, <2>1
    <3>2. x \in Pane!Tabs
      BY <3>1 DEF Pane!Tabs
    <3>3. /\ x.held = v.held /\ x.buf = v.buf /\ x.made = v.made /\ x.shown = v.shown
          /\ x.scheduled = v.scheduled /\ x.stranded = v.stranded
      BY <3>1 DEF Pane!Tabs
    <3>4. SameRest(v, x)
      BY <3>1 DEF Pane!Tabs, SameRest, SameOut, SameRun
    <3> QED
      BY <2>1, <3>2, <3>3, <3>4
  <2>2. CASE ~(v.buf >= High)
    <3>1. x = v /\ v \in Pane!Tabs
      BY <1>13, <1>14, <2>2
    <3> QED
      BY <3>1 DEF SameRest, SameOut, SameRun
  <2> QED
    BY <2>1, <2>2
<1>16. SameRest(t, x)
  BY <1>8, <1>10, <1>13, <1>15 DEF SameRest, SameOut, SameRun
<1>17. /\ t.closing => x.held = 0 /\ x.buf = t.buf
       /\ ~t.closing => x.held = t.held - n /\ x.buf = t.buf + n
       /\ x.made = t.made /\ x.shown = t.shown
  <2>1. x.held = k.held /\ x.buf = k.buf /\ x.made = k.made /\ x.shown = k.shown
    BY <1>10, <1>13, <1>15
  <2>2. /\ k.made = t.made /\ k.shown = t.shown
        /\ t.closing => k.held = 0 /\ k.buf = t.buf
        /\ ~t.closing => k.held = t.held - n /\ k.buf = t.buf + n
    BY <1>4, <1>8
  <2>3. t.closing => x.held = 0 /\ x.buf = t.buf
    BY <2>1, <2>2
  <2>4. ~t.closing => x.held = t.held - n /\ x.buf = t.buf + n
    BY <2>1, <2>2
  <2>5. x.made = t.made /\ x.shown = t.shown
    BY <2>1, <2>2
  <2> QED
    BY <2>3, <2>4, <2>5
<1>18. x.closing = t.closing /\ x.tail = t.tail
  BY <1>16 DEF SameRest, SameOut
<1>19. Flows(x)
  <2>1. x \in Pane!Tabs
    BY <1>15
  <2>2. ~t.closing => x.made = x.shown + x.buf + x.held
    <3>1. ~t.closing => t.made = t.shown + t.buf + t.held
      BY DEF Flows
    <3> QED
      BY <1>1, <1>3, <1>17, <3>1
  <2>3. t.closing => x.buf = 0
    BY <1>17 DEF Flows
  <2>4. t.tail = "drained" => x.held = 0
    <3>1. t.tail = "drained" => t.held = 0
      BY DEF Flows
    <3> QED
      BY <1>1, <1>3, <1>17, <3>1
  <2> QED
    BY <1>18, <2>1, <2>2, <2>3, <2>4 DEF Flows
<1> QED
  BY <1>1, <1>3, <1>8, <1>10, <1>13, <1>15, <1>16, <1>17, <1>19

(* Rendering moves output from the queue to the transcript.               *)
LEMMA TabRender ==
  ASSUME PaneBounds, NEW t, Flows(t), NEW m \in Nat \ {0}, NEW x, x = Pane!Render(t, m)
  PROVE  /\ Flows(x) /\ SameRest(t, x) /\ x.held = t.held /\ x.paused = t.paused
         /\ x.scheduled = t.scheduled /\ x.stranded = t.stranded /\ x.buf <= t.buf
<1>1. /\ t \in Pane!Tabs /\ t.held \in Nat /\ t.buf \in 0 .. High /\ High \in Nat
      /\ t.made \in Nat /\ t.shown \in Nat
  BY DEF PaneBounds, Flows, Pane!Tabs
<1>2. PICK n : n = Pane!Least(t.buf, m)
  OBVIOUS
<1>3. n \in Nat /\ n <= t.buf
  BY <1>1, <1>2 DEF Pane!Least
<1>4. PICK b, s : b = t.buf - n /\ s = t.shown + n
  OBVIOUS
<1>5. b \in 0 .. High /\ s \in Nat
  BY <1>1, <1>3, <1>4
<1>6. x = [t EXCEPT !.buf = b, !.shown = s]
  BY <1>2, <1>4 DEF Pane!Render
<1>7. x \in Pane!Tabs
  <2>1. t \in Pane!Tabs
    BY <1>1
  <2> QED
    BY <1>5, <1>6, <2>1 DEF Pane!Tabs
<1>8. /\ x.buf = b /\ x.shown = s /\ x.made = t.made /\ SameRest(t, x)
      /\ x.held = t.held /\ x.paused = t.paused
      /\ x.scheduled = t.scheduled /\ x.stranded = t.stranded
  BY <1>1, <1>6 DEF Pane!Tabs, SameRest, SameOut, SameRun
<1>9. x.closing = t.closing /\ x.tail = t.tail
  BY <1>8 DEF SameRest, SameOut
<1>10. Flows(x)
  BY <1>1, <1>3, <1>4, <1>5, <1>7, <1>8, <1>9 DEF Flows
<1> QED
  BY <1>1, <1>3, <1>4, <1>8, <1>10

(* An ended object is read until the queue is full or it is drained.      *)
LEMMA TabPullEnded ==
  ASSUME PaneBounds, NEW t, Flows(t), NEW x, x = Pane!PullEnded(t)
  PROVE  /\ Flows(x) /\ SameOut(t, x) /\ x.notice = t.notice /\ x.buf >= t.buf
         /\ x.tail = "none" <=> t.tail = "none"
         /\ x.tail = "open" => x.buf > Low
         /\ x.paused /\ t.tail # "none" => x.buf > Low
         /\ x.scheduled <=> x.buf > t.buf \/ t.scheduled
         /\ t.tail = "none" => x = t
<1>1. /\ t \in Pane!Tabs /\ t.buf \in Nat /\ High \in Nat /\ Low \in Nat /\ Low < High
      /\ t.tail \in {"none", "open", "drained"} /\ t.scheduled \in BOOLEAN
  BY DEF PaneBounds, Flows, Pane!Tabs
<1>2. CASE t.tail = "none" \/ t.buf > Low
  <2>1. x = t
    BY <1>2 DEF Pane!PullEnded, Pane!DrainedIfRoom
  <2> QED
    BY <1>1, <1>2, <2>1 DEF SameOut, SameRun
<1>3. CASE ~(t.tail = "none" \/ t.buf > Low)
  <2>1. PICK y : y = [t EXCEPT !.paused = FALSE]
    OBVIOUS
  <2>2. /\ y \in Pane!Tabs /\ SameRest(t, y) /\ ~y.paused /\ y.buf = t.buf
        /\ y.held = t.held /\ y.made = t.made /\ y.shown = t.shown
        /\ y.scheduled = t.scheduled
    BY <1>1, <2>1 DEF Pane!Tabs, SameRest, SameOut, SameRun
  <2>3. Flows(y)
    BY <2>2 DEF Flows, SameRest, SameOut
  <2>4. PICK z : z = Pane!Pull(y)
    OBVIOUS
  <2>5. /\ Flows(z) /\ SameRest(y, z) /\ z.buf >= y.buf
        /\ z.held > 0 => z.buf = High
        /\ z.paused => y.paused \/ z.buf >= High
        /\ z.scheduled <=> z.buf > y.buf \/ y.scheduled
    BY <2>3, <2>4, TabPull
  <2>6. x = IF z.buf >= High THEN z ELSE [z EXCEPT !.tail = "drained"]
    BY <1>3, <2>1, <2>4 DEF Pane!PullEnded, Pane!DrainedIfRoom
  <2>7. z \in Pane!Tabs /\ z.held \in Nat /\ z.buf \in Nat
    BY <1>1, <2>5 DEF Flows, Pane!Tabs
  <2>8. CASE z.buf >= High
    BY <1>1, <1>3, <2>2, <2>5, <2>6, <2>7, <2>8 DEF SameRest, SameOut, SameRun
  <2>9. CASE ~(z.buf >= High)
    <3>8. z \in Pane!Tabs /\ x = [z EXCEPT !.tail = "drained"]
      BY <2>6, <2>7, <2>9
    <3>9. x \in Pane!Tabs
      BY <3>8 DEF Pane!Tabs
    <3>1. /\ x \in Pane!Tabs /\ x.tail = "drained" /\ SameOut(z, x)
          /\ x.notice = z.notice /\ x.buf = z.buf /\ x.held = z.held
          /\ x.made = z.made /\ x.shown = z.shown
          /\ x.paused = z.paused /\ x.scheduled = z.scheduled
      BY <3>8, <3>9 DEF Pane!Tabs, SameOut, SameRun
    <3>2. z.held = 0 /\ ~z.paused
      BY <1>1, <2>2, <2>5, <2>7, <2>9
    <3>3. Flows(x)
      BY <2>5, <3>1, <3>2 DEF Flows, SameOut
    <3>4. SameOut(t, x) /\ x.notice = t.notice
      BY <2>2, <2>5, <3>1 DEF SameRest, SameOut, SameRun
    <3> QED
      BY <1>1, <1>3, <2>2, <2>5, <3>1, <3>2, <3>3, <3>4
  <2> QED
    BY <2>8, <2>9
<1> QED
  BY <1>2, <1>3

(* Showing the end changes two marks.                                     *)
LEMMA TabEndShown ==
  ASSUME NEW t \in Pane!Tabs, NEW x, x = [t EXCEPT !.tail = "none", !.notice = FALSE]
  PROVE  x \in Pane!Tabs
  BY DEF Pane!Tabs

(* Queueing the deferred restart counts one start more.                   *)
LEMMA TabStartQueued ==
  ASSUME NEW t \in Pane!Tabs, NEW n \in Nat,
         NEW x, x = [t EXCEPT !.deferred = FALSE, !.starts = n]
  PROVE  x \in Pane!Tabs
  BY DEF Pane!Tabs

(* The end is shown when the queue is empty and the object drained.       *)
LEMMA TabFinishDeferred ==
  ASSUME PaneBounds, NEW t, Flows(t), t.tail # "open", t.buf = 0,
         NEW x, x = Pane!FinishDeferred(t)
  PROVE  /\ Flows(x) /\ SameRun(t, x) /\ x.tail = "none" /\ ~x.notice
         /\ x.again = t.again /\ x.closing = t.closing /\ x.doomed = t.doomed
         /\ x.buf = 0 /\ x.held = t.held /\ x.paused = t.paused
         /\ x.scheduled = t.scheduled /\ x.stranded = t.stranded
         /\ x.deferred => t.deferred /\ t.closing
         /\ ~t.deferred \/ t.closing => x.starts = t.starts
<1>1. t \in Pane!Tabs /\ t.starts \in Nat /\ t.deferred \in BOOLEAN /\ t.closing \in BOOLEAN
  BY DEF Flows, Pane!Tabs
<1>2. PICK k : k = [t EXCEPT !.tail = "none", !.notice = FALSE]
  OBVIOUS
<1>3. /\ k \in Pane!Tabs /\ SameOut(t, k) /\ k.tail = "none" /\ ~k.notice
      /\ k.buf = t.buf /\ k.held = t.held /\ k.paused = t.paused
      /\ k.made = t.made /\ k.shown = t.shown
      /\ k.scheduled = t.scheduled /\ k.stranded = t.stranded
  <2>1. t \in Pane!Tabs
    BY <1>1
  <2>2. k \in Pane!Tabs
    BY <1>2, <2>1, TabEndShown
  <2>3. SameOut(t, k) /\ k.tail = "none" /\ ~k.notice
    BY <1>2, <2>1 DEF Pane!Tabs, SameOut, SameRun
  <2>4. /\ k.buf = t.buf /\ k.held = t.held /\ k.paused = t.paused
        /\ k.made = t.made /\ k.shown = t.shown
        /\ k.scheduled = t.scheduled /\ k.stranded = t.stranded
    BY <1>2, <2>1 DEF Pane!Tabs
  <2> QED
    BY <2>2, <2>3, <2>4
<1>4. PICK n : n = k.starts + 1
  OBVIOUS
<1>5. n \in Nat
  BY <1>1, <1>3, <1>4 DEF SameOut
<1>6. x = IF t.deferred /\ ~t.closing
            THEN [k EXCEPT !.deferred = FALSE, !.starts = n] ELSE k
  BY <1>1, <1>2, <1>4 DEF Pane!FinishDeferred, Pane!ScheduleRest, Flows
<1>7. CASE t.deferred /\ ~t.closing
  <2>1. x = [k EXCEPT !.deferred = FALSE, !.starts = n]
    BY <1>6, <1>7
  <2>2. k \in Pane!Tabs
    BY <1>3
  <2>3. x \in Pane!Tabs
    BY <1>5, <2>1, <2>2, TabStartQueued
  <2>4. /\ x.state = k.state /\ x.run = k.run /\ x.told = k.told
        /\ x.tail = k.tail /\ x.notice = k.notice
        /\ x.again = k.again /\ x.closing = k.closing /\ x.doomed = k.doomed
    BY <2>1, <2>2 DEF Pane!Tabs
  <2>5. /\ x.buf = k.buf /\ x.held = k.held /\ x.paused = k.paused
        /\ x.made = k.made /\ x.shown = k.shown /\ ~x.deferred
        /\ x.scheduled = k.scheduled /\ x.stranded = k.stranded
    BY <2>1, <2>2 DEF Pane!Tabs
  <2> QED
    BY <1>3, <1>7, <2>3, <2>4, <2>5 DEF Flows, SameOut, SameRun
<1>8. CASE ~(t.deferred /\ ~t.closing)
  BY <1>1, <1>3, <1>6, <1>8 DEF Flows, SameOut, SameRun
<1> QED
  BY <1>7, <1>8

(* Setting the flush timer changes nothing else.                          *)
LEMMA TabScheduling ==
  ASSUME NEW t, Flows(t), NEW b \in BOOLEAN, NEW x, x = [t EXCEPT !.scheduled = b]
  PROVE  /\ Flows(x) /\ SameRest(t, x) /\ x.scheduled = b /\ x.stranded = t.stranded
         /\ x.buf = t.buf /\ x.held = t.held /\ x.paused = t.paused
<1>1. t \in Pane!Tabs
  BY DEF Flows
<1>2. x \in Pane!Tabs
  BY <1>1 DEF Pane!Tabs
<1>3. /\ SameRest(t, x) /\ x.scheduled = b /\ x.stranded = t.stranded
      /\ x.buf = t.buf /\ x.held = t.held /\ x.paused = t.paused
      /\ x.made = t.made /\ x.shown = t.shown
  BY <1>1 DEF Pane!Tabs, SameRest, SameOut, SameRun
<1> QED
  BY <1>2, <1>3 DEF Flows, SameRest, SameOut

(* After a drain either more is scheduled or the end is shown.            *)
LEMMA TabContinue ==
  ASSUME PaneBounds, NEW t, Flows(t), t.tail = "open" => t.buf > 0,
         NEW x, x = Pane!Continue(t)
  PROVE  /\ Flows(x) /\ SameRun(t, x)
         /\ x.again = t.again /\ x.closing = t.closing /\ x.doomed = t.doomed
         /\ x.buf = t.buf /\ x.held = t.held /\ x.paused = t.paused
         /\ x.stranded = t.stranded
         /\ t.buf > 0 => SameRest(t, x) /\ x.scheduled
         /\ t.buf = 0 => /\ x.tail = "none" /\ ~x.notice /\ x.scheduled = t.scheduled
                         /\ x.deferred => t.deferred /\ t.closing
         /\ x.deferred => t.deferred
         /\ ~t.deferred \/ t.closing => x.starts = t.starts
<1>1. t.buf \in Nat
  BY DEF Flows, Pane!Tabs, PaneBounds
<1>2. CASE t.buf > 0
  <2>1. x = [t EXCEPT !.scheduled = TRUE]
    BY <1>2 DEF Pane!Continue, Pane!Schedule
  <2>2. /\ Flows(x) /\ SameRest(t, x) /\ x.scheduled = TRUE
        /\ x.stranded = t.stranded /\ x.buf = t.buf /\ x.held = t.held
        /\ x.paused = t.paused
    BY <2>1, TabScheduling
  <2> QED
    BY <1>1, <1>2, <2>2 DEF SameRest, SameOut
<1>3. CASE ~(t.buf > 0)
  <2>1. t.buf = 0 /\ x = Pane!FinishDeferred(t) /\ t.tail # "open"
    BY <1>1, <1>3 DEF Pane!Continue
  <2> QED
    BY <2>1, TabFinishDeferred
<1> QED
  BY <1>2, <1>3

(* A run has ended, and the tab is told of it.                             *)
Over(t) == Flows(t) /\ ~Pane!Running(t) /\ ~t.deferred

Settled(t) ==
  /\ Filled(t) /\ (Pane!Pending(t) => t.scheduled)
  /\ t.tail = "none" /\ ~t.closing => t.buf = 0 /\ t.held = 0
  /\ t.closing => ~Pane!Pending(t)

(* How an ended run is shown leaves nothing that is not scheduled.        *)
LEMMA TabShown ==
  ASSUME PaneBounds, NEW t, Over(t),
         NEW x, x = Pane!FlushEnd(Pane!Notice(Pane!MarkEnd(t)))
  PROVE  Over(x) /\ Settled(x) /\ SameOut(t, x)
<1>1. t \in Pane!Tabs /\ Flows(t) /\ t.closing \in BOOLEAN
  BY DEF Over, Flows, Pane!Tabs
<1>2. PICK m : m = [t EXCEPT !.tail = "open"]
  OBVIOUS
<1>3. m \in Pane!Tabs
  BY <1>1, <1>2 DEF Pane!Tabs
<1>4. /\ SameOut(t, m) /\ m.tail = "open" /\ m.held = t.held /\ m.buf = t.buf
      /\ m.made = t.made /\ m.shown = t.shown
  BY <1>1, <1>2 DEF Pane!Tabs, SameOut, SameRun
<1>5. Flows(m)
  BY <1>1, <1>3, <1>4 DEF Flows, SameOut
<1>6. PICK e : e = Pane!PullEnded(m)
  OBVIOUS
<1>7. Flows(e) /\ SameOut(m, e) /\ e.tail # "none"
  BY <1>4, <1>5, <1>6, TabPullEnded
<1>8. PICK n : n = Pane!Notice(e)
  OBVIOUS
<1>9. n = [e EXCEPT !.notice = TRUE, !.scheduled = TRUE]
  BY <1>7, <1>8 DEF Pane!Notice
<1>10. n \in Pane!Tabs
  BY <1>7, <1>9 DEF Pane!Tabs, Flows
<1>11. /\ SameOut(e, n) /\ n.tail = e.tail /\ n.held = e.held /\ n.buf = e.buf
       /\ n.made = e.made /\ n.shown = e.shown
  BY <1>7, <1>9 DEF Pane!Tabs, Flows, SameOut, SameRun
<1>12. Flows(n)
  BY <1>7, <1>10, <1>11 DEF Flows, SameOut
<1>13. PICK f : f = [n EXCEPT !.scheduled = FALSE]
  OBVIOUS
<1>14. Flows(f) /\ SameRest(n, f) /\ ~f.scheduled
  BY <1>12, <1>13, TabScheduling
<1>15. PICK r : r = Pane!Render(f, Sync)
  OBVIOUS
<1>16. Flows(r) /\ SameRest(f, r) /\ ~r.scheduled
  BY <1>14, <1>15, TabRender DEF PaneBounds
<1>17. PICK p : p = Pane!PullEnded(r)
  OBVIOUS
<1>18. r.tail # "none"
  BY <1>7, <1>11, <1>14, <1>16 DEF SameRest
<1>19. /\ Flows(p) /\ SameOut(r, p) /\ p.tail # "none"
       /\ p.tail = "open" => p.buf > Low
       /\ p.paused => p.buf > Low
       /\ p.scheduled <=> p.buf > r.buf
  BY <1>16, <1>17, <1>18, TabPullEnded
<1>20. x = Pane!Continue(p)
  BY <1>2, <1>6, <1>8, <1>13, <1>15, <1>17 DEF Pane!FlushEnd, Pane!MarkEnd
<1>21. SameOut(t, p)
  BY <1>4, <1>7, <1>11, <1>14, <1>16, <1>19 DEF SameRest, SameOut, SameRun
<1>22. /\ p.tail \in {"none", "open", "drained"} /\ p.buf \in Nat /\ Low \in Nat
       /\ p.held \in Nat /\ r.buf \in Nat
  BY <1>16, <1>19 DEF Flows, Pane!Tabs, PaneBounds
<1>23. ~p.deferred
  BY <1>21 DEF Over, SameOut
<1>24. /\ Flows(x) /\ SameRun(p, x)
       /\ x.again = p.again /\ x.closing = p.closing /\ x.doomed = p.doomed
       /\ x.buf = p.buf /\ x.held = p.held /\ x.paused = p.paused
       /\ x.stranded = p.stranded
       /\ p.buf > 0 => SameRest(p, x) /\ x.scheduled
       /\ p.buf = 0 => x.tail = "none" /\ ~x.notice /\ x.scheduled = p.scheduled
       /\ x.deferred => p.deferred
       /\ ~p.deferred \/ p.closing => x.starts = p.starts
  BY <1>19, <1>20, <1>22, TabContinue
<1>25. SameOut(t, x)
  BY <1>21, <1>23, <1>24, <1>1 DEF SameOut, SameRun, Over, Flows, Pane!Tabs
<1>26. Over(x)
  BY <1>24, <1>25 DEF Over, SameOut, SameRun, Pane!Running
<1>27. Filled(x)
  BY <1>19, <1>22, <1>24 DEF Filled, SameRest, Flows
<1>28. Pane!Pending(x) => x.scheduled
  BY <1>22, <1>24 DEF Pane!Pending
<1>29. x.tail = "none" => x.buf = 0 /\ x.held = 0
  BY <1>19, <1>22, <1>24 DEF SameRest, Flows
<1>30. x.closing => ~Pane!Pending(x)
  BY <1>19, <1>22, <1>24 DEF Pane!Pending, Flows
<1> QED
  BY <1>25, <1>26, <1>27, <1>28, <1>29, <1>30 DEF Settled

NoStrand(t) ==
  t.tail = "none" /\ ~Pane!Running(t) /\ ~t.closing => t.held = 0

(* What the end of a run leaves, told or not.                              *)
Stopped(t, x) ==
  /\ Steady(x) /\ Filled(x) /\ Served(x) /\ NoStrand(x) /\ ~Pane!Running(x)
  /\ x.closing = t.closing
  /\ t.closing => /\ x.starts = t.starts /\ x.again = t.again
                  /\ x.doomed /\ ~x.deferred /\ ~Pane!Pending(x)

(* The slot of finished leaves a tab in order.                            *)
LEMMA TabOnFinished ==
  ASSUME PaneBounds, NEW t, Over(t), NEW x, x = Pane!OnFinished(t)
  PROVE  Stopped(t, x) /\ SameRun(t, x)
<1>1. t \in Pane!Tabs /\ Flows(t) /\ ~Pane!Running(t) /\ ~t.deferred
  BY DEF Over, Flows
<1>0. 0 \in 0 .. MaxRuns
  BY DEF PaneBounds
<1>2. PICK s : s = [t EXCEPT !.stopTimer = 0]
  OBVIOUS
<1>3. s \in Pane!Tabs
  BY <1>0, <1>1, <1>2 DEF Pane!Tabs
<1>4. /\ SameRest(t, s) /\ s.held = t.held /\ s.buf = t.buf
      /\ s.made = t.made /\ s.shown = t.shown
  BY <1>1, <1>2 DEF Pane!Tabs, SameRest, SameOut, SameRun
<1>5. Over(s)
  BY <1>1, <1>3, <1>4 DEF Over, Flows, Pane!Running, SameRest, SameOut, SameRun
<1>6. PICK y : y = Pane!FlushEnd(Pane!Notice(Pane!MarkEnd(s)))
  OBVIOUS
<1>7. Over(y) /\ Settled(y) /\ SameOut(s, y)
  BY <1>5, <1>6, TabShown
<1>8. SameOut(t, y)
  BY <1>4, <1>7 DEF SameRest, SameOut, SameRun
<1>9. /\ y \in Pane!Tabs /\ y.starts \in Nat /\ y.buf \in Nat
      /\ y.closing \in BOOLEAN /\ y.scheduled \in BOOLEAN
  BY <1>7 DEF Over, Flows, Pane!Tabs, PaneBounds
<1>10. PICK n : n = y.starts + 1
  OBVIOUS
<1>11. n \in Nat
  BY <1>9, <1>10
<1>12. x = IF y.closing THEN [y EXCEPT !.doomed = TRUE]
           ELSE IF y.again = 0 THEN y
           ELSE IF y.buf > 0 \/ y.scheduled
             THEN [y EXCEPT !.again = 0, !.deferred = TRUE]
             ELSE [y EXCEPT !.again = 0, !.starts = n]
  BY <1>2, <1>6, <1>10 DEF Pane!OnFinished, Pane!AfterEnd
<1>13. x \in Pane!Tabs
  <2>1. CASE y.closing
    <3>1. y \in Pane!Tabs /\ x = [y EXCEPT !.doomed = TRUE]
      BY <1>9, <1>12, <2>1
    <3> QED
      BY <3>1 DEF Pane!Tabs
  <2>2. CASE ~y.closing /\ y.again = 0
    BY <1>9, <1>12, <2>2
  <2>3. CASE ~y.closing /\ y.again # 0 /\ (y.buf > 0 \/ y.scheduled)
    <3>1. x = [y EXCEPT !.again = 0, !.deferred = TRUE]
      BY <1>12, <2>3
    <3> QED
      BY <1>0, <1>9, <3>1 DEF Pane!Tabs
  <2>4. CASE ~y.closing /\ y.again # 0 /\ ~(y.buf > 0 \/ y.scheduled)
    <3>1. x = [y EXCEPT !.again = 0, !.starts = n]
      BY <1>12, <2>4
    <3> QED
      BY <1>0, <1>9, <1>11, <3>1 DEF Pane!Tabs
  <2> QED
    BY <2>1, <2>2, <2>3, <2>4
<1>14. /\ x.state = y.state /\ x.run = y.run /\ x.told = y.told /\ x.tail = y.tail
       /\ x.notice = y.notice /\ x.buf = y.buf /\ x.held = y.held
       /\ x.scheduled = y.scheduled /\ x.paused = y.paused
       /\ x.stranded = y.stranded /\ x.closing = y.closing
       /\ x.made = y.made /\ x.shown = y.shown
  BY <1>9, <1>12 DEF Pane!Tabs
<1>15. /\ y.closing => /\ x.doomed /\ x.deferred = y.deferred
                       /\ x.starts = y.starts /\ x.again = y.again
       /\ ~y.closing => /\ x.again = 0
                        /\ x.deferred => y.deferred \/ y.buf > 0 \/ y.scheduled
  BY <1>9, <1>12 DEF Pane!Tabs
<1>16. Flows(x)
  BY <1>7, <1>13, <1>14 DEF Over, Flows
<1>17. Steady(x)
  BY <1>7, <1>14, <1>15, <1>16 DEF Steady, Over, Settled, Pane!Running
<1>18. Filled(x) /\ NoStrand(x) /\ ~Pane!Running(x)
  BY <1>7, <1>14 DEF Filled, NoStrand, Over, Settled, Pane!Running
<1>19. Served(x)
  BY <1>7, <1>14, <1>15 DEF Served, Over, Settled, Pane!Pending
<1>20. x.closing => ~Pane!Pending(x)
  BY <1>7, <1>14 DEF Settled, Pane!Pending
<1>21. SameRun(t, x) /\ x.closing = t.closing
  BY <1>8, <1>14 DEF SameOut, SameRun
<1> QED
  BY <1>7, <1>8, <1>15, <1>17, <1>18, <1>19, <1>20, <1>21 DEF Stopped, Over, SameOut

Halted(t, x) ==
  /\ t.state # "NotRunning" /\ x.state = "NotRunning" /\ x.run = t.run
  /\ x.told \in {t.told \o <<"finished">>, t.told \o <<"error", "finished">>}

(* The end of a run, before the tab hears of it.                          *)
LEMMA TabEnd ==
  ASSUME NEW t, Steady(t), Pane!Running(t), NEW signals \in Seq(Pane!Signals),
         NEW x, x = Pane!End(t, signals)
  PROVE  /\ Over(x) /\ x.run = t.run /\ x.told = t.told \o signals
         /\ x.closing = t.closing /\ x.starts = t.starts /\ x.again = t.again
         /\ x.held = t.held /\ x.buf = t.buf /\ x.paused = t.paused
         /\ x.scheduled = t.scheduled /\ x.doomed = t.doomed /\ x.tail = t.tail
         /\ x.notice = t.notice
<1>1. t \in Pane!Tabs /\ Flows(t)
  BY DEF Steady, Flows
<1>2. PICK w : w = t.told \o signals
  OBVIOUS
<1>3. t.told \in Seq(Pane!Signals)
  BY <1>1 DEF Pane!Tabs
<1>4. w \in Seq(Pane!Signals)
  BY <1>2, <1>3, ConcatProperties
<1>5. x = [t EXCEPT !.state = "NotRunning", !.dying = FALSE, !.told = w]
  BY <1>2 DEF Pane!End
<1>6. x \in Pane!Tabs
  BY <1>1, <1>4, <1>5 DEF Pane!Tabs
<1>7. /\ x.state = "NotRunning" /\ x.run = t.run /\ x.told = w /\ x.tail = t.tail
      /\ x.closing = t.closing /\ x.starts = t.starts /\ x.again = t.again
      /\ x.deferred = t.deferred /\ x.notice = t.notice /\ x.doomed = t.doomed
  BY <1>1, <1>5 DEF Pane!Tabs
<1>8. /\ x.held = t.held /\ x.buf = t.buf /\ x.made = t.made /\ x.shown = t.shown
      /\ x.paused = t.paused /\ x.scheduled = t.scheduled
  BY <1>1, <1>5 DEF Pane!Tabs
<1>9. Flows(x)
  BY <1>1, <1>6, <1>7, <1>8 DEF Flows
<1>10. ~t.deferred
  BY DEF Steady
<1> QED
  BY <1>2, <1>7, <1>8, <1>9, <1>10 DEF Over, Pane!Running

(* A run may end in the middle of any handler.                            *)
LEMMA TabEnds ==
  ASSUME PaneBounds, NEW t, Steady(t), Pane!Running(t),
         NEW x \in {Pane!Finish(t), Pane!Break(t)}
  PROVE  Stopped(t, x) /\ Halted(t, x)
<1>1. <<"finished">> \in Seq(Pane!Signals) /\ <<"error", "finished">> \in Seq(Pane!Signals)
  BY DEF Pane!Signals
<1>2. t.state # "NotRunning"
  BY DEF Pane!Running
<1>3. CASE x = Pane!Finish(t)
  <2>0. PICK w \in Seq(Pane!Signals) : w = <<"finished">>
    BY <1>1
  <2>1. PICK e : e = Pane!End(t, w)
    OBVIOUS
  <2>2. /\ Over(e) /\ e.run = t.run /\ e.told = t.told \o w
        /\ e.closing = t.closing /\ e.starts = t.starts /\ e.again = t.again
    BY <2>1, TabEnd
  <2>3. x = Pane!OnFinished(e)
    BY <1>3, <2>0, <2>1 DEF Pane!Finish
  <2>4. Stopped(e, x) /\ SameRun(e, x)
    BY <2>2, <2>3, TabOnFinished
  <2> QED
    BY <1>2, <2>0, <2>2, <2>4 DEF Stopped, SameRun, Halted, Over, Pane!Running
<1>4. CASE x = Pane!Break(t)
  <2>0. PICK w \in Seq(Pane!Signals) : w = <<"error", "finished">>
    BY <1>1
  <2>1. PICK e : e = Pane!End(t, w)
    OBVIOUS
  <2>2. /\ Over(e) /\ e.run = t.run /\ e.told = t.told \o w
        /\ e.closing = t.closing /\ e.starts = t.starts /\ e.again = t.again
    BY <2>1, TabEnd
  <2>3. PICK o : o = Pane!OnEndError(e)
    OBVIOUS
  <2>4. o = Pane!FlushEnd(Pane!Notice(Pane!MarkEnd(e)))
    BY <2>3 DEF Pane!OnEndError
  <2>5. Over(o) /\ SameOut(e, o)
    BY <2>2, <2>4, TabShown
  <2>6. x = Pane!OnFinished(o)
    BY <1>4, <2>0, <2>1, <2>3 DEF Pane!Break
  <2>7. Stopped(o, x) /\ SameRun(o, x)
    BY <2>5, <2>6, TabOnFinished
  <2> QED
    BY <1>2, <2>0, <2>2, <2>5, <2>7 DEF Stopped, SameOut, SameRun, Halted, Over, Pane!Running
<1> QED
  BY <1>3, <1>4

(* A run goes on, with more output in the queue perhaps.                   *)
Alive(t, x) ==
  /\ SameRest(t, x) /\ x.buf >= t.buf
  /\ x.paused => t.paused \/ x.buf > Low
  /\ x.scheduled <=> x.buf > t.buf \/ t.scheduled
  /\ x.held > 0 /\ ~x.closing => x.buf > Low \/ (x.held = t.held /\ x.stranded = t.stranded)

Goes(t, x) == (Steady(x) /\ Alive(t, x)) \/ (Stopped(t, x) /\ Halted(t, x))

(* Nothing need happen.                                                   *)
LEMMA TabStays == ASSUME NEW t, Steady(t) PROVE Goes(t, t)
<1>1. t.buf \in Nat /\ t.scheduled \in BOOLEAN
  BY DEF Steady, Flows, Pane!Tabs
<1> QED
  BY <1>1 DEF Goes, Alive, SameRest, SameOut, SameRun

(* Output that arrives is queued, held or both.                           *)
LEMMA TabReads ==
  ASSUME PaneBounds, NEW t, Steady(t), t.state = "Running", NEW x \in Pane!AllRead(t)
  PROVE  Steady(x) /\ Alive(t, x)
<1>1. CASE x = t
  <2>1. t.buf \in Nat /\ t.scheduled \in BOOLEAN
    BY DEF Steady, Flows, Pane!Tabs
  <2> QED
    BY <1>1, <2>1 DEF Alive, SameRest, SameOut, SameRun
<1>2. ASSUME NEW n \in Pane!Arrivals(t), x = Pane!Pull(Pane!Emit(t, n))
      PROVE  Steady(x) /\ Alive(t, x)
  <2>1. /\ t \in Pane!Tabs /\ Flows(t) /\ t.made \in Nat /\ t.shown \in Nat
        /\ t.held \in Nat /\ t.buf \in Nat /\ High \in Nat /\ Low \in Nat /\ Low < High
        /\ t.tail = "none" /\ ~t.deferred
    BY DEF Steady, Flows, Pane!Tabs, PaneBounds, Pane!Running
  <2>2. n \in Nat
    BY <1>2 DEF Pane!Arrivals
  <2>3. PICK p, h : p = t.made + n /\ h = t.held + n
    OBVIOUS
  <2>4. p \in Nat /\ h \in Nat
    BY <2>1, <2>2, <2>3
  <2>5. PICK e : e = [t EXCEPT !.made = p, !.held = h]
    OBVIOUS
  <2>6. e \in Pane!Tabs
    BY <2>1, <2>4, <2>5 DEF Pane!Tabs
  <2>7. /\ SameRest(t, e) /\ e.made = p /\ e.held = h /\ e.buf = t.buf
        /\ e.shown = t.shown /\ e.scheduled = t.scheduled /\ e.paused = t.paused
    BY <2>1, <2>5 DEF Pane!Tabs, SameRest, SameOut, SameRun
  <2>8. Flows(e)
    BY <2>1, <2>2, <2>3, <2>6, <2>7 DEF Flows, SameRest, SameOut
  <2>9. x = Pane!Pull(e)
    BY <1>2, <2>3, <2>5 DEF Pane!Emit
  <2>10. /\ Flows(x) /\ SameRest(e, x) /\ x.buf >= e.buf
         /\ x.held > 0 => x.buf = High
         /\ x.paused => e.paused \/ x.buf >= High
         /\ x.scheduled <=> x.buf > e.buf \/ e.scheduled
    BY <2>8, <2>9, TabPull
  <2>11. SameRest(t, x)
    BY <2>7, <2>10 DEF SameRest, SameOut, SameRun
  <2>12. Steady(x)
    BY <2>1, <2>10, <2>11 DEF Steady, SameRest, SameOut, SameRun, Pane!Running
  <2>13. x.buf \in Nat
    BY <2>10 DEF Flows, Pane!Tabs
  <2> QED
    BY <2>1, <2>7, <2>10, <2>11, <2>12, <2>13 DEF Alive
<1> QED
  BY <1>1, <1>2 DEF Pane!AllRead

(* A run that runs may end at once.                                       *)
LEMMA TabExits ==
  ASSUME PaneBounds, NEW t, Steady(t), t.state = "Running", NEW x \in Pane!Ends(t)
  PROVE  Stopped(t, x) /\ Halted(t, x)
<1>1. PICK y \in Pane!AllRead(t) : x \in {Pane!Finish(y), Pane!Break(y)}
  BY DEF Pane!Ends, Pane!Drained, Pane!AllRead
<1>2. Steady(y) /\ Alive(t, y)
  BY TabReads
<1>3. SameOut(t, y)
  BY <1>2 DEF Alive, SameRest
<1>4. Pane!Running(y)
  BY <1>3 DEF SameOut, SameRun, Pane!Running
<1>5. Stopped(y, x) /\ Halted(y, x)
  BY <1>1, <1>2, <1>4, TabEnds
<1> QED
  BY <1>3, <1>5 DEF Stopped, Halted, SameOut, SameRun

(* A poll of the object reads, or sees the end, or neither.               *)
LEMMA TabPoll ==
  ASSUME PaneBounds, NEW t, Steady(t), NEW x \in Pane!Poll(t)
  PROVE  Goes(t, x)
<1>1. CASE x = t
  BY <1>1, TabStays
<1>2. CASE x # t
  <2>1. t.state = "Running" /\ x \in Pane!Drained(t) \cup Pane!Ends(t)
    BY <1>2 DEF Pane!Poll
  <2>2. CASE x \in Pane!Drained(t)
    <3>1. x \in Pane!AllRead(t)
      BY <2>2 DEF Pane!Drained, Pane!AllRead
    <3> QED
      BY <2>1, <3>1, TabReads DEF Goes
  <2>3. CASE x \in Pane!Ends(t)
    BY <2>1, <2>3, TabExits DEF Goes
  <2> QED
    BY <2>1, <2>2, <2>3
<1> QED
  BY <1>1, <1>2

(* A resumed object is paused again only by a full queue.                 *)
LEMMA TabResume ==
  ASSUME PaneBounds, NEW t, Steady(t), NEW x \in Pane!Resume(t)
  PROVE  /\ Goes(t, x)
         /\ Alive(t, x) => ~x.paused \/ x.buf > Low
<1>1. CASE ~t.paused
  <2>1. x = t
    BY <1>1 DEF Pane!Resume
  <2> QED
    BY <1>1, <2>1, TabStays
<1>2. CASE t.paused
  <2>1. PICK p : p = [t EXCEPT !.paused = FALSE]
    OBVIOUS
  <2>2. t \in Pane!Tabs
    BY DEF Steady, Flows
  <2>3. p \in Pane!Tabs
    BY <2>1, <2>2 DEF Pane!Tabs
  <2>4. /\ SameRest(t, p) /\ ~p.paused /\ p.buf = t.buf /\ p.held = t.held
        /\ p.made = t.made /\ p.shown = t.shown /\ p.scheduled = t.scheduled
        /\ p.stranded = t.stranded
    BY <2>1, <2>2 DEF Pane!Tabs, SameRest, SameOut, SameRun
  <2>5. Steady(p)
    BY <2>3, <2>4 DEF Steady, Flows, SameRest, SameOut, SameRun, Pane!Running
  <2>6. Goes(p, x)
    BY <1>2, <2>1, <2>5, TabPoll DEF Pane!Resume
  <2>7. CASE Steady(x) /\ Alive(p, x)
    BY <1>2, <2>4, <2>7 DEF Goes, Alive, SameRest, SameOut, SameRun
  <2>8. CASE Stopped(p, x) /\ Halted(p, x)
    <3>1. Stopped(t, x) /\ Halted(t, x)
      BY <2>4, <2>8 DEF Stopped, Halted, SameRest, SameOut, SameRun
    <3>2. ~Alive(t, x)
      BY <3>1 DEF Halted, Alive, SameRest, SameOut, SameRun
    <3> QED
      BY <3>1, <3>2 DEF Goes
  <2> QED
    BY <2>6, <2>7, <2>8 DEF Goes
<1> QED
  BY <1>1, <1>2

(* A handler sees at most one end of a run, and closes no tab itself.      *)
Moves(t, x) == SameRun(t, x) \/ Halted(t, x)
Keeps(t, x) == x.closing = t.closing /\ (t.closing => x.starts = t.starts)

(* Two handlers that run one after the other.                             *)
LEMMA TabMoves ==
  ASSUME NEW t, NEW y, NEW x, Moves(t, y), Keeps(t, y), Moves(y, x), Keeps(y, x)
  PROVE  Moves(t, x) /\ Keeps(t, x)
BY DEF Moves, Keeps, SameRun, Halted

(* A tab whose queue may be filled, and one in which it was.               *)
Ready(t) == Steady(t) /\ NoStrand(t) /\ Quiet(t) /\ Leaving(t) /\ Hushed(t)
Full(t) == Filled(t) /\ (t.held > 0 /\ ~t.closing => t.buf > 0)

(* What the object does keeps a tab ready to be filled.                   *)
LEMMA TabGoesOn ==
  ASSUME PaneBounds, NEW t, Ready(t), NEW x, Goes(t, x)
  PROVE  Ready(x) /\ Moves(t, x) /\ Keeps(t, x)
<1>1. CASE Steady(x) /\ Alive(t, x)
  <2>1. SameRest(t, x) /\ SameOut(t, x) /\ SameRun(t, x)
    BY <1>1 DEF Alive, SameRest, SameOut
  <2>2. Pane!Running(x) <=> Pane!Running(t)
    BY <2>1 DEF SameRun, Pane!Running
  <2>3. t.held \in Nat /\ x.held \in Nat /\ x.buf \in Nat /\ t.buf \in Nat /\ Low \in Nat
    <3>1. /\ t \in Pane!Tabs /\ x \in Pane!Tabs
      BY <1>1 DEF Ready, Steady, Flows
    <3> QED
      BY <3>1 DEF Pane!Tabs, PaneBounds
  <2>4. NoStrand(x)
    BY <1>1, <2>1, <2>2, <2>3 DEF Ready, Steady, NoStrand, Alive, SameRest, SameOut
  <2>5. Quiet(x)
    BY <1>1, <2>1, <2>2, <2>3 DEF Ready, Steady, Flows, Quiet, Alive, SameRest, SameOut, Pane!Pending
  <2>6. Leaving(x)
    BY <2>1 DEF Ready, Leaving, SameOut, SameRun
  <2>7. Hushed(x)
    BY <1>1, <2>1, <2>3 DEF Ready, Hushed, Alive, Steady, Flows, SameOut
  <2> QED
    BY <1>1, <2>1, <2>4, <2>5, <2>6, <2>7 DEF Ready, Moves, Keeps, SameOut
<1>2. CASE Stopped(t, x) /\ Halted(t, x)
  <2>1. Quiet(x)
    BY <1>2 DEF Ready, Quiet, Stopped
  <2>2. Leaving(x) /\ Hushed(x)
    BY <1>2 DEF Leaving, Hushed, Stopped, Steady, Pane!Running, Pane!Pending
  <2> QED
    BY <1>2, <2>1, <2>2 DEF Ready, Stopped, Moves, Keeps
<1> QED
  BY <1>1, <1>2 DEF Goes

(* A refilled queue is what the paused object waits for.                  *)
LEMMA TabRefill ==
  ASSUME PaneBounds, NEW t, Ready(t), NEW x \in Pane!Refill(t)
  PROVE  Ready(x) /\ Full(x) /\ Moves(t, x) /\ Keeps(t, x)
<1>1. t.buf \in Nat /\ Low \in Nat /\ High \in Nat /\ Low < High
  BY DEF Ready, Steady, Flows, Pane!Tabs, PaneBounds
<1>2. CASE t.buf > Low
  <2>1. x = t
    BY <1>2 DEF Pane!Refill
  <2> QED
    BY <1>1, <1>2, <2>1 DEF Full, Filled, Moves, Keeps, SameRun
<1>3. CASE ~(t.buf > Low)
  <2>1. PICK y \in Pane!Resume(t) :
          x = IF y.tail # "none" THEN Pane!PullEnded(y) ELSE Pane!Pull(y)
    BY <1>3 DEF Pane!Refill
  <2>2. Goes(t, y) /\ (Alive(t, y) => ~y.paused \/ y.buf > Low)
    BY TabResume DEF Ready
  <2>3. Ready(y) /\ Moves(t, y) /\ Keeps(t, y)
    BY <2>2, TabGoesOn
  <2>4. ~y.paused \/ y.buf > Low
    BY <2>2 DEF Goes, Stopped, Filled
  <2>5. Flows(y) /\ Steady(y)
    BY <2>3 DEF Ready, Steady
  <2>6. CASE y.tail # "none"
    <3>1. x = Pane!PullEnded(y)
      BY <2>1, <2>6
    <3>2. /\ Flows(x) /\ SameOut(y, x) /\ x.notice = y.notice /\ x.tail # "none"
          /\ x.tail = "open" => x.buf > Low
          /\ x.paused => x.buf > Low
      BY <2>5, <2>6, <3>1, TabPullEnded
    <3>3. ~Pane!Running(y) /\ ~Pane!Running(x)
      BY <2>5, <2>6, <3>2 DEF Steady, SameOut, SameRun, Pane!Running
    <3>4. ~y.closing /\ ~x.closing
      BY <2>3, <2>6, <3>2, <3>3 DEF Ready, Quiet, Pane!Pending, SameOut
    <3>5. /\ x.tail \in {"none", "open", "drained"} /\ x.buf \in Nat /\ x.held \in Nat
      BY <3>2 DEF Flows, Pane!Tabs
    <3>6. Steady(x)
      BY <2>5, <3>2, <3>3 DEF Steady, SameOut, SameRun
    <3>7. Full(x)
      BY <1>1, <3>2, <3>5 DEF Full, Filled, Flows
    <3>8. Ready(x)
      BY <2>3, <3>2, <3>4, <3>6
      DEF Ready, NoStrand, Quiet, Leaving, Hushed, SameOut, SameRun
    <3> QED
      BY <2>3, <3>2, <3>7, <3>8, TabMoves DEF Moves, Keeps, SameOut
  <2>7. CASE y.tail = "none"
    <3>1. x = Pane!Pull(y)
      BY <2>1, <2>7
    <3>2. /\ Flows(x) /\ SameRest(y, x) /\ x.made = y.made /\ x.shown = y.shown
          /\ x.held > 0 => x.buf = High
          /\ x.paused => y.paused \/ x.buf >= High
          /\ x.buf >= y.buf
          /\ x.scheduled <=> x.buf > y.buf \/ y.scheduled
      BY <2>5, <3>1, TabPull
    <3>3. SameOut(y, x) /\ SameRun(y, x) /\ (Pane!Running(x) <=> Pane!Running(y))
      BY <3>2 DEF SameRest, SameOut, SameRun, Pane!Running
    <3>4. /\ y.buf \in Nat /\ y.held \in Nat /\ x.buf \in Nat /\ x.held \in Nat
          /\ x.shown \in Nat
      BY <2>5, <3>2 DEF Flows, Pane!Tabs
    <3>5. ~Pane!Running(x) /\ ~x.closing => x.buf = 0 /\ x.held = 0
      BY <2>3, <2>5, <2>7, <3>2, <3>3, <3>4 DEF Ready, NoStrand, Steady, Flows, SameOut
    <3>6. x.tail = "none"
      BY <2>7, <3>2 DEF SameRest
    <3>7. Steady(x)
      BY <2>5, <3>2, <3>3, <3>5, <3>6 DEF Steady, SameOut, SameRun
    <3>8. Full(x)
      BY <1>1, <2>4, <3>2, <3>4, <3>6 DEF Full, Filled
    <3>9. Quiet(x) /\ Hushed(x)
      BY <2>3, <2>5, <3>2, <3>3, <3>4, <3>6
      DEF Ready, Quiet, Hushed, Pane!Pending, Flows, SameRest, SameOut
    <3>10. Ready(x)
      BY <2>3, <3>3, <3>5, <3>7, <3>9 DEF Ready, NoStrand, Leaving, SameOut, SameRun
    <3> QED
      BY <2>3, <3>3, <3>8, <3>10, TabMoves DEF Moves, Keeps, SameOut
  <2> QED
    BY <2>6, <2>7
<1> QED
  BY <1>2, <1>3

(* A handler that refills and then settles leaves a tab in order.         *)
LEMMA TabSettles ==
  ASSUME PaneBounds, NEW t, Ready(t), Full(t), NEW x, x = Pane!Continue(t)
  PROVE  TabRight(x) /\ Moves(t, x) /\ Keeps(t, x)
<1>1. Flows(t) /\ Steady(t) /\ t.buf \in Nat /\ t.held \in Nat /\ Low \in Nat
  BY DEF Ready, Steady, Flows, Pane!Tabs, PaneBounds
<1>2. t.tail = "open" => t.buf > 0
  BY <1>1 DEF Full, Filled
<1>3. /\ Flows(x) /\ SameRun(t, x)
      /\ x.again = t.again /\ x.closing = t.closing /\ x.doomed = t.doomed
      /\ x.buf = t.buf /\ x.held = t.held /\ x.paused = t.paused
      /\ x.stranded = t.stranded
      /\ t.buf > 0 => SameRest(t, x) /\ x.scheduled
      /\ t.buf = 0 => /\ x.tail = "none" /\ ~x.notice /\ x.scheduled = t.scheduled
                      /\ x.deferred => t.deferred /\ t.closing
      /\ x.deferred => t.deferred
      /\ ~t.deferred \/ t.closing => x.starts = t.starts
  BY <1>1, <1>2, TabContinue
<1>4. Pane!Running(x) <=> Pane!Running(t)
  BY <1>3 DEF SameRun, Pane!Running
<1>5. x.tail \in {t.tail, "none"} /\ (t.buf > 0 => x.tail = t.tail)
  BY <1>1, <1>3 DEF SameRest
<1>6. Steady(x)
  BY <1>1, <1>3, <1>4, <1>5 DEF Steady, Full, SameRun
<1>7. Filled(x)
  BY <1>1, <1>3, <1>5 DEF Filled, Full
<1>8. Served(x)
  BY <1>1, <1>3 DEF Served, Pane!Pending, Ready, Quiet
<1>9. Quiet(x)
  BY <1>1, <1>3, <1>4 DEF Ready, Quiet, Pane!Pending, Flows
<1>10. Leaving(x)
  BY <1>3 DEF Ready, Leaving, SameRun
<1>11. Hushed(x)
  BY <1>1, <1>3 DEF Ready, Hushed, Flows
<1> QED
  BY <1>3, <1>6, <1>7, <1>8, <1>9, <1>10, <1>11 DEF TabRight, Sound, Moves, Keeps

(* Rendering keeps a tab ready to be filled.                              *)
LEMMA TabRendered ==
  ASSUME PaneBounds, NEW t, Ready(t), NEW m \in Nat \ {0}, NEW x, x = Pane!Render(t, m)
  PROVE  Ready(x) /\ Moves(t, x) /\ Keeps(t, x)
<1>1. Flows(t) /\ Steady(t)
  BY DEF Ready, Steady
<1>2. /\ Flows(x) /\ SameRest(t, x) /\ x.held = t.held /\ x.scheduled = t.scheduled
      /\ x.stranded = t.stranded /\ x.buf <= t.buf
  BY <1>1, TabRender
<1>3. SameOut(t, x) /\ SameRun(t, x) /\ (Pane!Running(x) <=> Pane!Running(t))
  BY <1>2 DEF SameRest, SameOut, SameRun, Pane!Running
<1>4. x.buf \in Nat /\ t.buf \in Nat
  BY <1>1, <1>2 DEF Flows, Pane!Tabs
<1>5. Steady(x)
  BY <1>1, <1>2, <1>3, <1>4 DEF Steady, SameRest, SameOut, SameRun
<1>6. NoStrand(x) /\ Quiet(x) /\ Leaving(x) /\ Hushed(x)
  BY <1>1, <1>2, <1>3, <1>4
  DEF Ready, NoStrand, Quiet, Leaving, Hushed, Pane!Pending, Flows, SameRest, SameOut, SameRun
<1> QED
  BY <1>3, <1>5, <1>6 DEF Ready, Moves, Keeps, SameOut

(* A flush begins by taking its timer down.                               *)
LEMMA TabUnscheduled ==
  ASSUME NEW t, Sound(t), Quiet(t), Leaving(t), t.scheduled \/ Pane!Running(t),
         NEW x, x = [t EXCEPT !.scheduled = FALSE]
  PROVE  /\ Ready(x) /\ Moves(t, x) /\ Keeps(t, x) /\ x.buf = t.buf
<1>1. Flows(t) /\ Steady(t)
  BY DEF Sound, Steady
<1>2. /\ Flows(x) /\ SameRest(t, x) /\ x.scheduled = FALSE /\ x.stranded = t.stranded
      /\ x.buf = t.buf /\ x.held = t.held /\ x.paused = t.paused
  BY <1>1, TabScheduling
<1>3. SameOut(t, x) /\ SameRun(t, x) /\ (Pane!Running(x) <=> Pane!Running(t))
  BY <1>2 DEF SameRest, SameOut, SameRun, Pane!Running
<1>4. Steady(x)
  BY <1>1, <1>2, <1>3 DEF Steady, SameRest, SameOut, SameRun
<1>5. NoStrand(x)
  BY <1>1, <1>2, <1>3 DEF Steady, NoStrand, SameRest, SameOut, Sound
<1>6. Quiet(x) /\ Leaving(x) /\ Hushed(x)
  BY <1>2, <1>3
  DEF Quiet, Leaving, Hushed, Pane!Pending, SameRest, SameOut, SameRun
<1> QED
  BY <1>2, <1>3, <1>4, <1>5, <1>6 DEF Ready, Moves, Keeps, SameOut

(* A turn of the flush timer, and a drain at once, keep a tab in order.   *)
LEMMA TabFlushes ==
  ASSUME PaneBounds, NEW t, Sound(t), Quiet(t), Leaving(t), t.scheduled \/ Pane!Running(t),
         NEW x \in Pane!FlushTurn(t) \cup Pane!FlushNow(t)
  PROVE  TabRight(x) /\ Moves(t, x) /\ Keeps(t, x)
<1>1. PICK o : o = [t EXCEPT !.scheduled = FALSE]
  OBVIOUS
<1>2. Ready(o) /\ Moves(t, o) /\ Keeps(t, o) /\ o.buf = t.buf
  BY <1>1, TabUnscheduled
<1>3. t.buf \in Nat /\ Turn \in Nat \ {0} /\ Sync \in Nat \ {0}
  BY DEF Sound, Steady, Flows, Pane!Tabs, PaneBounds
<1>4. ASSUME NEW y, Ready(y), NEW n \in Nat \ {0}, NEW z \in Pane!Refill(Pane!Render(y, n)),
             NEW w, w = Pane!Continue(z)
      PROVE  TabRight(w) /\ Moves(y, w) /\ Keeps(y, w)
  <2>1. PICK r : r = Pane!Render(y, n)
    OBVIOUS
  <2>2. Ready(r) /\ Moves(y, r) /\ Keeps(y, r)
    BY <1>4, <2>1, TabRendered
  <2>3. Ready(z) /\ Full(z) /\ Moves(r, z) /\ Keeps(r, z)
    BY <1>4, <2>1, <2>2, TabRefill
  <2>4. TabRight(w) /\ Moves(z, w) /\ Keeps(z, w)
    BY <1>4, <2>3, TabSettles
  <2>5. Moves(y, z) /\ Keeps(y, z)
    BY <2>2, <2>3, TabMoves
  <2> QED
    BY <2>4, <2>5, TabMoves
<1>5. CASE x \in Pane!FlushNow(t)
  <2>1. PICK z \in Pane!Refill(Pane!Render(o, Sync)) : x = Pane!Continue(z)
    BY <1>1, <1>5 DEF Pane!FlushNow
  <2>2. TabRight(x) /\ Moves(o, x) /\ Keeps(o, x)
    BY <1>2, <1>3, <1>4, <2>1
  <2> QED
    BY <1>2, <2>2, TabMoves
<1>6. CASE x \in Pane!FlushTurn(t)
  <2>1. PICK y \in (IF t.buf = 0 THEN Pane!Refill(o) ELSE {o}) :
          x \in IF y.buf = 0 THEN {Pane!FinishDeferred(y)}
                ELSE {Pane!Continue(z) : z \in Pane!Refill(Pane!Render(y, Turn))}
    BY <1>1, <1>6 DEF Pane!FlushTurn
  <2>2. /\ Ready(y) /\ Moves(o, y) /\ Keeps(o, y) /\ (y.buf = 0 => Full(y))
    <3>1. CASE t.buf = 0
      <4>1. y \in Pane!Refill(o)
        BY <2>1, <3>1
      <4> QED
        BY <1>2, <4>1, TabRefill
    <3>2. CASE t.buf # 0
      <4>1. y = o
        BY <2>1, <3>2
      <4> QED
        BY <1>2, <3>2, <4>1 DEF Moves, Keeps, SameRun
    <3> QED
      BY <3>1, <3>2
  <2>3. Moves(t, y) /\ Keeps(t, y)
    BY <1>2, <2>2, TabMoves
  <2>4. CASE y.buf = 0
    <3>1. x = Pane!FinishDeferred(y)
      BY <2>1, <2>4
    <3>2. ~(y.buf > 0)
      BY <2>4
    <3>3. x = Pane!Continue(y)
      BY <3>1, <3>2 DEF Pane!Continue
    <3>4. TabRight(x) /\ Moves(y, x) /\ Keeps(y, x)
      BY <2>2, <2>4, <3>3, TabSettles
    <3> QED
      BY <2>3, <3>4, TabMoves
  <2>5. CASE y.buf # 0
    <3>1. PICK z \in Pane!Refill(Pane!Render(y, Turn)) : x = Pane!Continue(z)
      BY <2>1, <2>5
    <3>2. TabRight(x) /\ Moves(y, x) /\ Keeps(y, x)
      BY <1>3, <1>4, <2>2, <3>1
    <3> QED
      BY <2>3, <3>2, TabMoves
  <2> QED
    BY <2>4, <2>5
<1> QED
  BY <1>5, <1>6

(* A request to terminate ends a session that is starting.                *)
LEMMA TabInterrupt ==
  ASSUME PaneBounds, NEW t, Steady(t), NEW x \in Pane!Interrupt(t)
  PROVE  /\ Goes(t, x)
         /\ Object = "ConPty" /\ t.state = "Starting" => Stopped(t, x) /\ Halted(t, x)
<1>1. CASE Object = "ConPty" /\ t.state = "Starting"
  <2>1. x = Pane!Finish(t) /\ Pane!Running(t)
    BY <1>1 DEF Pane!Interrupt, Pane!Running
  <2> QED
    BY <2>1, TabEnds DEF Goes
<1>2. CASE ~(Object = "ConPty" /\ t.state = "Starting")
  <2>1. x \in Pane!Poll(t)
    BY <1>2 DEF Pane!Interrupt
  <2> QED
    BY <1>2, <2>1, TabPoll
<1> QED
  BY <1>1, <1>2

(* So does a kill.                                                        *)
LEMMA TabKill ==
  ASSUME PaneBounds, NEW t, Steady(t), NEW x \in Pane!Kill(t)
  PROVE  /\ Goes(t, x)
         /\ Object = "ConPty" /\ t.state = "Starting" => Stopped(t, x) /\ Halted(t, x)
<1>1. PICK d : d = IF t.state = "Running" THEN [t EXCEPT !.dying = TRUE] ELSE t
  OBVIOUS
<1>2. t \in Pane!Tabs
  BY DEF Steady, Flows
<1>3. d \in Pane!Tabs
  BY <1>1, <1>2 DEF Pane!Tabs
<1>4. /\ SameRest(t, d) /\ d.buf = t.buf /\ d.held = t.held /\ d.paused = t.paused
      /\ d.made = t.made /\ d.shown = t.shown /\ d.scheduled = t.scheduled
      /\ d.stranded = t.stranded
  BY <1>1, <1>2 DEF Pane!Tabs, SameRest, SameOut, SameRun
<1>5. Steady(d)
  BY <1>3, <1>4 DEF Steady, Flows, SameRest, SameOut, SameRun, Pane!Running
<1>6. x \in Pane!Interrupt(d)
  BY <1>1 DEF Pane!Kill
<1>7. /\ Goes(d, x)
      /\ Object = "ConPty" /\ d.state = "Starting" => Stopped(d, x) /\ Halted(d, x)
  BY <1>5, <1>6, TabInterrupt
<1>8. Alive(d, x) => Alive(t, x)
  BY <1>4 DEF Alive, SameRest, SameOut, SameRun
<1>9. Stopped(d, x) /\ Halted(d, x) => Stopped(t, x) /\ Halted(t, x)
  BY <1>4 DEF Stopped, Halted, SameRest, SameOut, SameRun
<1> QED
  BY <1>4, <1>7, <1>8, <1>9 DEF Goes, SameRest, SameOut, SameRun

(* What the object does in between keeps a tab in order.                  *)
LEMMA TabGrows ==
  ASSUME PaneBounds, NEW t, Sound(t), NEW x, Goes(t, x)
  PROVE  /\ Sound(x) /\ Moves(t, x) /\ Keeps(t, x)
         /\ Quiet(t) => Quiet(x)
         /\ Leaving(t) => Leaving(x)
         /\ Hushed(t) => Hushed(x)
<1>1. CASE Steady(x) /\ Alive(t, x)
  <2>1. SameRest(t, x) /\ SameOut(t, x) /\ SameRun(t, x)
    BY <1>1 DEF Alive, SameRest, SameOut
  <2>2. Pane!Running(x) <=> Pane!Running(t)
    BY <2>1 DEF SameRun, Pane!Running
  <2>3. t.held \in Nat /\ x.held \in Nat /\ x.buf \in Nat /\ t.buf \in Nat /\ Low \in Nat
    <3>1. /\ t \in Pane!Tabs /\ x \in Pane!Tabs
      BY <1>1 DEF Sound, Steady, Flows
    <3> QED
      BY <3>1 DEF Pane!Tabs, PaneBounds
  <2>4. Filled(x)
    BY <1>1, <2>1, <2>3 DEF Sound, Filled, Alive, SameRest, SameOut
  <2>5. Served(x)
    BY <1>1, <2>1, <2>3 DEF Sound, Served, Pane!Pending, Alive, SameRest, SameOut
  <2>6. Quiet(t) => Quiet(x)
    BY <1>1, <2>1, <2>2, <2>3 DEF Steady, Flows, Quiet, Alive, SameRest, SameOut, Pane!Pending
  <2>7. /\ Leaving(t) => Leaving(x)
        /\ Hushed(t) => Hushed(x)
    BY <1>1, <2>1, <2>3 DEF Leaving, Hushed, Steady, Flows, Alive, SameOut, SameRun
  <2> QED
    BY <1>1, <2>1, <2>4, <2>5, <2>6, <2>7 DEF Sound, Moves, Keeps, SameOut
<1>2. CASE Stopped(t, x) /\ Halted(t, x)
  <2>1. Quiet(t) => Quiet(x)
    BY <1>2 DEF Quiet, Stopped
  <2>2. Leaving(x) /\ Hushed(x)
    BY <1>2 DEF Leaving, Hushed, Stopped, Steady, Pane!Running, Pane!Pending
  <2> QED
    BY <1>2, <2>1, <2>2 DEF Sound, Stopped, Moves, Keeps
<1> QED
  BY <1>1, <1>2 DEF Goes

(* Two tabs that differ in what the invariant does not mention.            *)
Twins(t, x) ==
  /\ x \in Pane!Tabs /\ SameRest(t, x) /\ x.buf = t.buf /\ x.held = t.held
  /\ x.made = t.made /\ x.shown = t.shown /\ x.paused = t.paused
  /\ x.scheduled = t.scheduled /\ x.stranded = t.stranded

(* Such tabs are in order alike.                                          *)
LEMMA TabTwins ==
  ASSUME NEW t, NEW x, Twins(t, x)
  PROVE  /\ Sound(t) => Sound(x)
         /\ Quiet(t) => Quiet(x)
         /\ Leaving(t) => Leaving(x)
         /\ Hushed(t) => Hushed(x)
         /\ Moves(t, x) /\ Keeps(t, x)
<1>1. SameOut(t, x) /\ SameRun(t, x) /\ (Pane!Running(x) <=> Pane!Running(t))
  BY DEF Twins, SameRest, SameOut, SameRun, Pane!Running
<1>2. Pane!Pending(x) <=> Pane!Pending(t)
  BY DEF Twins, SameRest, Pane!Pending
<1>3. Flows(t) => Flows(x)
  BY <1>1 DEF Twins, SameRest, SameOut, Flows
<1>4. Steady(t) => Steady(x)
  BY <1>1, <1>3 DEF Twins, SameRest, SameOut, SameRun, Steady
<1>5. /\ Filled(t) => Filled(x)
      /\ Served(t) => Served(x)
  BY <1>1, <1>2 DEF Twins, SameRest, SameOut, Filled, Served
<1>6. /\ Quiet(t) => Quiet(x)
      /\ Leaving(t) => Leaving(x)
      /\ Hushed(t) => Hushed(x)
  BY <1>1, <1>2 DEF Twins, SameOut, SameRun, Quiet, Leaving, Hushed
<1> QED
  BY <1>1, <1>4, <1>5, <1>6 DEF Sound, Moves, Keeps, SameOut

(* A request to stop or to restart keeps a tab in order.                  *)
LEMMA TabRequestStop ==
  ASSUME PaneBounds, NEW t, Sound(t), NEW restart, restart => Pane!Running(t),
         NEW x \in Pane!RequestStop(t, restart)
  PROVE  /\ Sound(x) /\ Moves(t, x) /\ Keeps(t, x)
         /\ Quiet(t) => Quiet(x)
         /\ Leaving(t) => Leaving(x)
         /\ Hushed(t) => Hushed(x)
         /\ Object = "ConPty" /\ Pane!Running(x) => x.state = "Running"
<1>1. PICK a : a = IF t.closing THEN 0 ELSE IF restart THEN t.run ELSE t.again
  OBVIOUS
<1>2. t \in Pane!Tabs /\ Steady(t) /\ Flows(t)
  BY DEF Sound, Steady, Flows
<1>3. /\ a \in 0 .. MaxRuns /\ t.run \in 0 .. MaxRuns /\ t.starts \in Nat /\ 0 \in 0 .. MaxRuns
  BY <1>1, <1>2 DEF Pane!Tabs, PaneBounds
<1>4. CASE Pane!Running(t)
  <2>1. PICK s : s = [t EXCEPT !.again = a]
    OBVIOUS
  <2>2. s \in Pane!Tabs
    BY <1>2, <1>3, <2>1 DEF Pane!Tabs
  <2>3. /\ SameRun(t, s) /\ s.tail = t.tail /\ s.notice = t.notice
        /\ s.deferred = t.deferred /\ s.starts = t.starts /\ s.closing = t.closing
        /\ s.doomed = t.doomed /\ s.again = a
    BY <1>2, <2>1 DEF Pane!Tabs, SameRun
  <2>4. /\ s.buf = t.buf /\ s.held = t.held /\ s.made = t.made /\ s.shown = t.shown
        /\ s.paused = t.paused /\ s.scheduled = t.scheduled /\ s.stranded = t.stranded
    BY <1>2, <2>1 DEF Pane!Tabs
  <2>5. Pane!Running(s)
    BY <1>4, <2>3 DEF SameRun, Pane!Running
  <2>6. Flows(s)
    BY <1>2, <2>2, <2>3, <2>4 DEF Flows
  <2>7. a # 0 /\ ~t.closing => a <= t.run /\ (a = t.run \/ Object = "QProcess")
    BY <1>1, <1>2, <1>3, <1>4 DEF Steady, PaneBounds
  <2>8. Steady(s)
    BY <1>2, <1>4, <2>3, <2>4, <2>5, <2>6, <2>7 DEF Steady, SameRun
  <2>9. Sound(s)
    BY <2>3, <2>4, <2>8 DEF Sound, Filled, Served, Pane!Pending
  <2>10. Quiet(t) => Quiet(s)
    BY <1>1, <2>3, <2>5 DEF Quiet
  <2>11. /\ s.state = "Running" => Leaving(s)
         /\ Hushed(t) => Hushed(s)
    BY <2>3, <2>4 DEF Leaving, Hushed
  <2>12. PICK y \in Pane!Interrupt(s) : x = [y EXCEPT !.stopTimer = t.run]
    BY <1>1, <1>4, <2>1 DEF Pane!RequestStop
  <2>13. /\ Goes(s, y)
         /\ Object = "ConPty" /\ s.state = "Starting" => Stopped(s, y) /\ Halted(s, y)
    BY <2>8, TabInterrupt
  <2>14. /\ Sound(y) /\ Moves(s, y) /\ Keeps(s, y)
         /\ Quiet(s) => Quiet(y)
         /\ Leaving(s) => Leaving(y)
         /\ Hushed(s) => Hushed(y)
    BY <2>9, <2>13, TabGrows
  <2>15. y \in Pane!Tabs
    BY <2>14 DEF Sound, Steady, Flows
  <2>16. x \in Pane!Tabs
    BY <1>3, <2>12, <2>15 DEF Pane!Tabs
  <2>17. Twins(y, x)
    BY <2>12, <2>15, <2>16 DEF Pane!Tabs, Twins, SameRest, SameOut, SameRun
  <2>18. /\ Sound(x) /\ Moves(y, x) /\ Keeps(y, x)
         /\ Quiet(y) => Quiet(x)
         /\ Leaving(y) => Leaving(x)
         /\ Hushed(y) => Hushed(x)
    BY <2>14, <2>17, TabTwins
  <2>19. Moves(t, s) /\ Keeps(t, s)
    BY <2>3 DEF Moves, Keeps
  <2>20. Moves(t, y) /\ Keeps(t, y)
    BY <2>14, <2>19, TabMoves
  <2>21. Moves(t, x) /\ Keeps(t, x)
    BY <2>18, <2>20, TabMoves
  <2>22. Object = "ConPty" /\ Pane!Running(x) => x.state = "Running"
    <3>1. SUFFICES ASSUME Object = "ConPty", Pane!Running(x) PROVE x.state = "Running"
      OBVIOUS
    <3>2. x.state = y.state
      BY <2>17 DEF Twins, SameRest, SameOut, SameRun
    <3>3. ~Stopped(s, y)
      BY <3>1, <3>2 DEF Stopped, Pane!Running
    <3>4. s.state # "Starting" /\ y.state = s.state
      BY <2>13, <3>1, <3>3 DEF Goes, Alive, SameRest, SameOut, SameRun
    <3>5. y.state \in {"NotRunning", "Starting", "Running"}
      BY <2>15 DEF Pane!Tabs
    <3> QED
      BY <3>1, <3>2, <3>4, <3>5 DEF Pane!Running
  <2>23. Leaving(y)
    <3>1. s.state \in {"NotRunning", "Starting", "Running"}
      BY <2>2 DEF Pane!Tabs
    <3>2. CASE s.state = "Running"
      BY <2>11, <2>14, <3>2
    <3>3. CASE Stopped(s, y)
      BY <3>3 DEF Leaving, Stopped, Steady
    <3>4. CASE s.state = "Starting" /\ ~Stopped(s, y)
      <4>1. Object # "ConPty" /\ y.state = s.state
        BY <2>13, <3>4 DEF Goes, Alive, SameRest, SameOut, SameRun
      <4> QED
        BY <3>4, <4>1 DEF Leaving
    <3> QED
      BY <2>5, <3>1, <3>2, <3>3, <3>4 DEF Pane!Running
  <2> QED
    BY <2>10, <2>11, <2>14, <2>18, <2>21, <2>22, <2>23
<1>5. CASE ~Pane!Running(t)
  <2>1. PICK n : n = t.starts + 1
    OBVIOUS
  <2>2. n \in Nat
    BY <1>3, <2>1
  <2>3. x = IF a # 0 THEN [t EXCEPT !.again = 0, !.starts = n] ELSE [t EXCEPT !.again = 0]
    BY <1>1, <1>5, <2>1 DEF Pane!RequestStop
  <2>4. x \in Pane!Tabs
    <3>1. CASE a # 0
      <4>1. x = [t EXCEPT !.again = 0, !.starts = n]
        BY <2>3, <3>1
      <4> QED
        BY <1>2, <1>3, <2>2, <4>1 DEF Pane!Tabs
    <3>2. CASE a = 0
      <4>1. x = [t EXCEPT !.again = 0]
        BY <2>3, <3>2
      <4> QED
        BY <1>2, <1>3, <4>1 DEF Pane!Tabs
    <3> QED
      BY <3>1, <3>2
  <2>5. /\ SameRun(t, x) /\ x.tail = t.tail /\ x.notice = t.notice
        /\ x.deferred = t.deferred /\ x.closing = t.closing
        /\ x.doomed = t.doomed /\ x.again = 0
        /\ a = 0 => x.starts = t.starts
    BY <1>2, <2>3 DEF Pane!Tabs, SameRun
  <2>6. /\ x.buf = t.buf /\ x.held = t.held /\ x.made = t.made /\ x.shown = t.shown
        /\ x.paused = t.paused /\ x.scheduled = t.scheduled /\ x.stranded = t.stranded
    BY <1>2, <2>3 DEF Pane!Tabs
  <2>7. ~Pane!Running(x)
    BY <1>5, <2>5 DEF SameRun, Pane!Running
  <2>8. Flows(x)
    BY <1>2, <2>4, <2>5, <2>6 DEF Flows
  <2>9. Steady(x)
    BY <1>2, <1>5, <2>5, <2>6, <2>7, <2>8 DEF Steady, SameRun
  <2>10. Sound(x)
    BY <2>5, <2>6, <2>9 DEF Sound, Filled, Served, Pane!Pending
  <2>11. Quiet(t) => Quiet(x)
    BY <1>5, <2>5, <2>6, <2>7 DEF Quiet, Pane!Pending
  <2>12. /\ Leaving(t) => Leaving(x)
         /\ Hushed(t) => Hushed(x)
    BY <2>5, <2>6 DEF Leaving, Hushed, SameRun
  <2>13. Moves(t, x) /\ Keeps(t, x)
    BY <1>1, <2>5 DEF Moves, Keeps
  <2> QED
    BY <2>7, <2>10, <2>11, <2>12, <2>13
<1> QED
  BY <1>4, <1>5

(* A run begins with nothing of the former one left to show.               *)
Begins(t, x) ==
  /\ t.state = "NotRunning" /\ ~Pane!Pending(t)
  /\ t.held = 0 \/ t.stranded \/ t.closing
  /\ t.run < MaxRuns
  /\ x.state = "Starting" /\ x.run = t.run + 1 /\ x.told = <<>>

(* A start is put off by a tail, and else begins a run.                   *)
LEMMA TabStartCall ==
  ASSUME PaneBounds, NEW t, TabRight(t), NEW x \in Pane!StartCall(t)
  PROVE  /\ TabRight(x) /\ (SameRun(t, x) \/ Begins(t, x))
         /\ x.starts = t.starts /\ x.closing = t.closing
<1>1. t \in Pane!Tabs /\ Flows(t) /\ Steady(t) /\ t.run \in 0 .. MaxRuns
  BY DEF TabRight, Sound, Steady, Flows, Pane!Tabs
<1>2. CASE Pane!Running(t)
  <2>1. x = t
    BY <1>2 DEF Pane!StartCall
  <2> QED
    BY <2>1 DEF SameRun
<1>3. CASE ~Pane!Running(t) /\ Pane!Pending(t)
  <2>1. PICK d : d = [t EXCEPT !.deferred = TRUE]
    OBVIOUS
  <2>2. x = [d EXCEPT !.scheduled = TRUE]
    BY <1>3, <2>1 DEF Pane!StartCall, Pane!Schedule
  <2>3. d \in Pane!Tabs
    BY <1>1, <2>1 DEF Pane!Tabs
  <2>4. x \in Pane!Tabs
    BY <2>2, <2>3 DEF Pane!Tabs
  <2>5. /\ SameRun(t, x) /\ x.tail = t.tail /\ x.notice = t.notice /\ x.again = t.again
        /\ x.starts = t.starts /\ x.closing = t.closing /\ x.doomed = t.doomed
        /\ x.deferred /\ x.scheduled
    BY <1>1, <2>1, <2>2, <2>3 DEF Pane!Tabs, SameRun
  <2>6. /\ x.buf = t.buf /\ x.held = t.held /\ x.made = t.made /\ x.shown = t.shown
        /\ x.paused = t.paused /\ x.stranded = t.stranded
    BY <1>1, <2>1, <2>2, <2>3 DEF Pane!Tabs
  <2>7. t.scheduled /\ ~t.closing
    BY <1>3 DEF TabRight, Sound, Served, Quiet
  <2>8. Flows(x)
    BY <1>1, <2>4, <2>5, <2>6 DEF Flows
  <2>9. Steady(x)
    BY <1>1, <1>3, <2>5, <2>6, <2>7, <2>8 DEF Steady, SameRun, Pane!Running
  <2>10. Filled(x) /\ Served(x)
    BY <2>5, <2>6 DEF TabRight, Sound, Filled, Served
  <2>11. Quiet(x) /\ Leaving(x) /\ Hushed(x)
    BY <2>5, <2>7 DEF TabRight, Quiet, Leaving, Hushed, SameRun
  <2> QED
    BY <2>5, <2>9, <2>10, <2>11 DEF TabRight, Sound
<1>4. CASE ~Pane!Running(t) /\ ~Pane!Pending(t) /\ x = [t EXCEPT !.waived = TRUE]
  <2>1. x \in Pane!Tabs
    BY <1>1, <1>4 DEF Pane!Tabs
  <2>2. Twins(t, x)
    BY <1>1, <1>4, <2>1 DEF Pane!Tabs, Twins, SameRest, SameOut, SameRun
  <2>3. TabRight(x)
    BY <2>2, TabTwins DEF TabRight
  <2> QED
    BY <2>2, <2>3 DEF Twins, SameRest, SameOut
<1>5. CASE ~Pane!Running(t) /\ ~Pane!Pending(t) /\ t.run < MaxRuns /\ x = Pane!Launch(t)
  <2>1. PICK m : m = t.run + 1
    OBVIOUS
  <2>2. m \in 0 .. MaxRuns /\ <<>> \in Seq(Pane!Signals)
    BY <1>1, <1>5, <2>1 DEF PaneBounds
  <2>3. x = [t EXCEPT !.state = "Starting", !.run = m, !.told = <<>>, !.held = 0,
               !.paused = FALSE, !.deferred = FALSE, !.made = 0, !.shown = 0,
               !.stranded = FALSE, !.waived = FALSE]
    BY <1>5, <2>1 DEF Pane!Launch
  <2>4. PICK e : e = <<>>
    OBVIOUS
  <2>5. x = [t EXCEPT !.state = "Starting", !.run = m, !.told = e, !.held = 0,
               !.paused = FALSE, !.deferred = FALSE, !.made = 0, !.shown = 0,
               !.stranded = FALSE, !.waived = FALSE]
    BY <2>3, <2>4
  <2>6. e \in Seq(Pane!Signals)
    BY <2>2, <2>4
  <2>7. x \in Pane!Tabs
    <3>1. PICK a : a = [t EXCEPT !.state = "Starting", !.run = m, !.told = e, !.held = 0]
      OBVIOUS
    <3>2. t \in Pane!Tabs
      BY <1>1
    <3>3. a \in Pane!Tabs
      BY <2>2, <2>6, <3>1, <3>2 DEF Pane!Tabs
    <3>4. x = [a EXCEPT !.paused = FALSE, !.deferred = FALSE, !.made = 0, !.shown = 0,
                        !.stranded = FALSE, !.waived = FALSE]
      BY <2>5, <3>1
    <3> QED
      BY <3>3, <3>4 DEF Pane!Tabs
  <2>8. /\ x.state = "Starting" /\ x.run = m /\ x.told = e /\ x.tail = t.tail
        /\ x.notice = t.notice /\ x.again = t.again /\ ~x.deferred
        /\ x.starts = t.starts /\ x.closing = t.closing /\ x.doomed = t.doomed
    BY <1>1, <2>5 DEF Pane!Tabs
  <2>9. /\ x.held = 0 /\ x.buf = t.buf /\ x.made = 0 /\ x.shown = 0 /\ ~x.paused
        /\ x.scheduled = t.scheduled
    BY <1>1, <2>5 DEF Pane!Tabs
  <2>10. t.buf = 0 /\ ~t.scheduled /\ ~t.notice /\ t.tail = "none"
    BY <1>1, <1>5 DEF Pane!Pending, Pane!Tabs
  <2>11. Pane!Running(x) /\ t.state = "NotRunning"
    BY <1>5, <2>8 DEF Pane!Running
  <2>12. Flows(x)
    BY <2>7, <2>8, <2>9, <2>10 DEF Flows
  <2>13. Steady(x)
    <3>1. x.again # 0 /\ ~x.closing => t.again <= t.run /\ Object = "QProcess"
      BY <1>1, <1>5, <2>8 DEF Steady
    <3>2. t.again \in Nat /\ t.run \in Nat
      BY <1>1 DEF Pane!Tabs, PaneBounds
    <3>3. x.again # 0 /\ ~x.closing => x.again <= x.run /\ Object = "QProcess"
      BY <2>1, <2>8, <3>1, <3>2
    <3> QED
      BY <2>4, <2>8, <2>9, <2>10, <2>11, <2>12, <3>3 DEF Steady
  <2>14. Filled(x) /\ Served(x)
    BY <2>8, <2>9, <2>10 DEF Filled, Served, Pane!Pending
  <2>15. Quiet(x) /\ Leaving(x) /\ Hushed(x)
    BY <1>1, <1>5, <2>8, <2>9, <2>10, <2>11
    DEF TabRight, Quiet, Leaving, Hushed, Steady
  <2>16. Begins(t, x)
    BY <1>1, <1>5, <2>1, <2>4, <2>8, <2>10, <2>11 DEF Begins, Steady
  <2> QED
    BY <2>8, <2>13, <2>14, <2>15, <2>16 DEF TabRight, Sound
<1> QED
  BY <1>2, <1>3, <1>4, <1>5 DEF Pane!StartCall

(* What a step makes of the object: at most one step of its contract.      *)
Contracted(t, x) ==
  \/ Moves(t, x)
  \/ Begins(t, x)
  \/ /\ t.state = "Starting" /\ x.state = "Running" /\ x.run = t.run
     /\ x.told = Append(t.told, "started")
  \/ /\ t.state = "Starting" /\ x.state = "NotRunning" /\ x.run = t.run
     /\ x.told = t.told \o <<"error">>
  \/ /\ t.state # "NotRunning" /\ x.state = "NotRunning" /\ x.run = t.run
     /\ x.told = t.told \o <<"closed">>

TabGood(t, x) ==
  TabRight(x) /\ Contracted(t, x) /\ (x.closing => x.starts <= t.starts)

(* The forms in which the actions below use the lemmas above.             *)
LEMMA TabGoodMove ==
  ASSUME NEW t, TabRight(t), NEW x, TabRight(x), Moves(t, x), Keeps(t, x)
  PROVE  TabGood(t, x)
<1>1. t.starts \in Nat
  BY DEF TabRight, Sound, Steady, Flows, Pane!Tabs
<1> QED
  BY <1>1 DEF TabGood, Contracted, Keeps

LEMMA TabGoodGoes ==
  ASSUME PaneBounds, NEW t, TabRight(t), NEW x, Goes(t, x) PROVE TabGood(t, x)
<1>1. TabRight(x) /\ Moves(t, x) /\ Keeps(t, x)
  BY TabGrows DEF TabRight
<1> QED
  BY <1>1, TabGoodMove

LEMMA TabGoodTwin ==
  ASSUME NEW t, TabRight(t), NEW x, Twins(t, x) PROVE TabGood(t, x)
<1>1. TabRight(x) /\ Moves(t, x) /\ Keeps(t, x)
  BY TabTwins DEF TabRight
<1> QED
  BY <1>1, TabGoodMove

LEMMA TabGoodStart ==
  ASSUME PaneBounds, NEW t, TabRight(t), NEW x \in Pane!StartCall(t) PROVE TabGood(t, x)
<1>1. t.starts \in Nat
  BY DEF TabRight, Sound, Steady, Flows, Pane!Tabs
<1> QED
  BY <1>1, TabStartCall DEF TabGood, Contracted, Moves

LEMMA TabGoodStop ==
  ASSUME PaneBounds, NEW t, TabRight(t), NEW restart, restart => Pane!Running(t),
         NEW x \in Pane!RequestStop(t, restart)
  PROVE  TabGood(t, x)
<1>1. TabRight(x) /\ Moves(t, x) /\ Keeps(t, x)
  BY TabRequestStop DEF TabRight
<1> QED
  BY <1>1, TabGoodMove

(* A tab after Reset, and before a clear has dropped what waits for it.    *)
Emptied(t) ==
  /\ Flows(t) /\ Leaving(t)
  /\ t.tail # "none" => ~Pane!Running(t)
  /\ t.tail = "none" /\ ~Pane!Running(t) => t.buf = 0 /\ (t.held = 0 \/ ~t.scheduled)
  /\ t.state = "Starting" => t.told = <<>>
  /\ t.again # 0 =>
       /\ t.again <= t.run
       /\ Pane!Running(t) => t.again = t.run \/ Object = "QProcess"
       /\ ~Pane!Running(t) => Object = "QProcess" /\ t.told = <<"error">>
  /\ t.paused \/ t.tail = "open" => t.buf > Low
  /\ t.held > 0 /\ t.scheduled => t.buf > 0 \/ t.stranded
  /\ Pane!Pending(t) => t.scheduled

(* A clear leaves a tab in order.                                         *)
LEMMA TabStrands ==
  ASSUME NEW t, Emptied(t), ~t.closing, NEW x, x = Pane!Strand(Pane!Waive(t))
  PROVE  TabRight(x) /\ Moves(t, x) /\ Keeps(t, x)
<1>1. t \in Pane!Tabs /\ Flows(t) /\ t.deferred \in BOOLEAN
  BY DEF Emptied, Flows, Pane!Tabs
<1>2. PICK w : w = IF t.deferred THEN [t EXCEPT !.deferred = FALSE, !.waived = TRUE] ELSE t
  OBVIOUS
<1>3. w \in Pane!Tabs
  BY <1>1, <1>2 DEF Pane!Tabs
<1>4. /\ SameRun(t, w) /\ w.tail = t.tail /\ w.notice = t.notice /\ w.again = t.again
      /\ ~w.deferred /\ w.closing = t.closing /\ w.doomed = t.doomed
  BY <1>1, <1>2 DEF Pane!Tabs, SameRun
<1>5. /\ w.buf = t.buf /\ w.held = t.held /\ w.made = t.made /\ w.shown = t.shown
      /\ w.paused = t.paused /\ w.scheduled = t.scheduled /\ w.stranded = t.stranded
  BY <1>1, <1>2 DEF Pane!Tabs
<1>6. x = IF w.held > 0 /\ ~w.scheduled THEN [w EXCEPT !.stranded = TRUE] ELSE w
  BY <1>2 DEF Pane!Strand, Pane!Waive
<1>7. x \in Pane!Tabs
  <2>1. CASE w.held > 0 /\ ~w.scheduled
    <3>1. x = [w EXCEPT !.stranded = TRUE]
      BY <1>6, <2>1
    <3> QED
      BY <1>3, <3>1 DEF Pane!Tabs
  <2>2. CASE ~(w.held > 0 /\ ~w.scheduled)
    BY <1>3, <1>6, <2>2
  <2> QED
    BY <2>1, <2>2
<1>8. /\ SameRest(w, x) /\ x.buf = w.buf /\ x.held = w.held /\ x.made = w.made
      /\ x.shown = w.shown /\ x.paused = w.paused /\ x.scheduled = w.scheduled
      /\ x.stranded <=> w.stranded \/ (w.held > 0 /\ ~w.scheduled)
  BY <1>3, <1>6 DEF Pane!Tabs, SameRest, SameOut, SameRun
<1>9. /\ SameRun(t, x) /\ x.tail = t.tail /\ x.notice = t.notice /\ x.again = t.again
      /\ ~x.deferred /\ x.closing = t.closing /\ x.doomed = t.doomed
  BY <1>4, <1>8 DEF SameRest, SameOut, SameRun
<1>10. (Pane!Running(x) <=> Pane!Running(t)) /\ t.held \in Nat
  BY <1>1, <1>9 DEF SameRun, Pane!Running, Pane!Tabs
<1>11. Flows(x)
  BY <1>1, <1>5, <1>7, <1>8, <1>9 DEF Flows
<1>12. Steady(x)
  BY <1>5, <1>8, <1>9, <1>10, <1>11 DEF Emptied, Steady, SameRun
<1>13. Filled(x) /\ Served(x)
  BY <1>5, <1>8, <1>9 DEF Emptied, Filled, Served, Pane!Pending
<1>14. Quiet(x) /\ Leaving(x) /\ Hushed(x)
  BY <1>9 DEF Emptied, Quiet, Leaving, Hushed, SameRun
<1> QED
  BY <1>9, <1>12, <1>13, <1>14 DEF TabRight, Sound, Moves, Keeps

(* A reset may resume the object, which may go on or end.                 *)
LEMMA TabResets ==
  ASSUME PaneBounds, NEW r, Steady(r), Leaving(r), ~r.closing, r.tail = "none", ~r.notice,
         ~r.scheduled, r.buf = 0, NEW x \in Pane!Resume(r)
  PROVE  Emptied(x) /\ Moves(r, x) /\ Keeps(r, x)
<1>1. Goes(r, x) /\ (Alive(r, x) => ~x.paused \/ x.buf > Low)
  BY TabResume
<1>2. CASE Steady(x) /\ Alive(r, x)
  <2>1. SameRest(r, x) /\ SameOut(r, x) /\ SameRun(r, x)
    BY <1>2 DEF Alive, SameRest, SameOut
  <2>2. x.buf \in Nat /\ Flows(x) /\ x.scheduled \in BOOLEAN
    BY <1>2 DEF Steady, Flows, Pane!Tabs
  <2>3. x.tail = "none" /\ ~x.notice /\ ~x.closing /\ x.again = r.again
    BY <2>1 DEF SameRest, SameOut
  <2>4. x.scheduled <=> x.buf > 0
    BY <1>2 DEF Alive
  <2>5. Leaving(x)
    BY <2>1, <2>3 DEF Leaving, SameRun
  <2>6. Emptied(x)
    BY <1>1, <1>2, <2>2, <2>3, <2>4, <2>5 DEF Emptied, Steady, Pane!Pending
  <2> QED
    BY <2>1, <2>6 DEF Moves, Keeps, SameOut
<1>3. CASE Stopped(r, x) /\ Halted(r, x)
  <2>1. ~x.closing
    BY <1>3 DEF Stopped
  <2>2. Leaving(x)
    BY <1>3, <2>1 DEF Leaving, Stopped, Steady
  <2>3. Emptied(x)
    BY <1>3, <2>1, <2>2 DEF Emptied, Stopped, Steady, Filled, Served, NoStrand
  <2> QED
    BY <1>3, <2>3 DEF Stopped, Moves, Keeps
<1> QED
  BY <1>1, <1>2, <1>3 DEF Goes

(* The actions keep a tab in order, one by one.                           *)
LEMMA TabClears ==
  ASSUME PaneBounds, TabRight(tab), Pane!Clear PROVE TabGood(tab, tab')
<1>1. /\ tab \in Pane!Tabs /\ Flows(tab) /\ Steady(tab) /\ tab.held \in Nat
      /\ tab.made \in Nat /\ ~tab.closing /\ 0 \in 0 .. High
  BY DEF TabRight, Sound, Steady, Flows, Pane!Tabs, Pane!Clear, Pane!Open, PaneBounds
<1>2. PICK h : h = tab.held
  OBVIOUS
<1>3. PICK r : r = [tab EXCEPT !.made = h, !.shown = 0, !.scheduled = FALSE, !.buf = 0,
                               !.tail = "none", !.notice = FALSE]
  OBVIOUS
<1>4. h \in Nat
  BY <1>1, <1>2
<1>5. r \in Pane!Tabs
  BY <1>1, <1>3, <1>4 DEF Pane!Tabs
<1>6. /\ SameRun(tab, r) /\ r.tail = "none" /\ ~r.notice /\ r.again = tab.again
      /\ r.deferred = tab.deferred /\ r.starts = tab.starts
      /\ r.closing = tab.closing /\ r.doomed = tab.doomed
  BY <1>1, <1>3 DEF Pane!Tabs, SameRun
<1>7. /\ r.made = h /\ r.shown = 0 /\ r.buf = 0 /\ r.held = h /\ ~r.scheduled
      /\ r.paused = tab.paused
  BY <1>1, <1>2, <1>3 DEF Pane!Tabs
<1>8. Pane!Running(r) <=> Pane!Running(tab)
  BY <1>6 DEF SameRun, Pane!Running
<1>9. Flows(r) /\ Leaving(r)
  BY <1>1, <1>4, <1>5, <1>6, <1>7 DEF Flows, TabRight, Leaving, SameRun
<1>10. PICK x \in Pane!Resume(r) : tab' = Pane!Strand(Pane!Waive(x))
  BY <1>2, <1>3 DEF Pane!Clear, Pane!Reset
<1>11. Emptied(x) /\ Moves(r, x) /\ Keeps(r, x)
  <2>1. CASE Pane!Running(tab)
    <3>1. Steady(r)
      BY <1>1, <1>6, <1>8, <1>9, <2>1 DEF Steady, SameRun
    <3> QED
      BY <1>1, <1>6, <1>7, <1>9, <1>10, <3>1, TabResets
  <2>2. CASE ~Pane!Running(tab)
    <3>1. x = IF r.paused THEN [r EXCEPT !.paused = FALSE] ELSE r
      <4>1. PICK p : p = [r EXCEPT !.paused = FALSE]
        OBVIOUS
      <4>2. p.state = r.state
        BY <1>5, <4>1 DEF Pane!Tabs
      <4> QED
        BY <1>8, <1>10, <2>2, <4>1, <4>2 DEF Pane!Resume, Pane!Poll, Pane!Running
    <3>2. x \in Pane!Tabs
      BY <1>5, <3>1 DEF Pane!Tabs
    <3>3. /\ SameRest(r, x) /\ x.buf = r.buf /\ x.held = r.held /\ x.made = r.made
          /\ x.shown = r.shown /\ ~x.paused /\ x.scheduled = r.scheduled
      BY <1>5, <3>1 DEF Pane!Tabs, SameRest, SameOut, SameRun
    <3>4. Flows(x) /\ Leaving(x)
      BY <1>9, <3>2, <3>3 DEF Flows, Leaving, SameRest, SameOut, SameRun
    <3>5. ~Pane!Running(x) /\ x.tail = "none" /\ ~x.notice /\ x.again = tab.again
      BY <1>6, <1>8, <2>2, <3>3 DEF Pane!Running, SameRest, SameOut, SameRun
    <3>6. x.run = tab.run /\ x.told = tab.told /\ x.state # "Starting"
      BY <1>6, <3>3, <3>5 DEF SameRest, SameOut, SameRun, Pane!Running
    <3>7. x.again # 0 => /\ x.again <= x.run
                         /\ Object = "QProcess" /\ x.told = <<"error">>
      BY <1>1, <2>2, <3>5, <3>6 DEF Steady
    <3>8. Emptied(x)
      BY <1>7, <3>3, <3>4, <3>5, <3>6, <3>7 DEF Emptied, Pane!Pending
    <3> QED
      BY <3>3, <3>8 DEF Moves, Keeps, SameRest, SameOut
  <2> QED
    BY <2>1, <2>2
<1>12. ~x.closing
  BY <1>1, <1>6, <1>11 DEF Keeps
<1>13. TabRight(tab') /\ Moves(x, tab') /\ Keeps(x, tab')
  BY <1>10, <1>11, <1>12, TabStrands
<1>14. Moves(r, tab') /\ Keeps(r, tab')
  BY <1>11, <1>13, TabMoves
<1>15. Moves(tab, r) /\ Keeps(tab, r)
  BY <1>6 DEF Moves, Keeps
<1>16. Moves(tab, tab') /\ Keeps(tab, tab')
  BY <1>14, <1>15, TabMoves
<1> QED
  BY <1>13, <1>16, TabGoodMove

(* A tab in order that is closed may be deleted.                          *)
LEMMA TabClosed ==
  ASSUME PaneBounds, NEW t, Sound(t), t.closing, Quiet(t), Hushed(t),
         NEW x, x = [t EXCEPT !.doomed = TRUE]
  PROVE  TabRight(x) /\ Moves(t, x) /\ Keeps(t, x)
<1>1. t \in Pane!Tabs
  BY DEF Sound, Steady, Flows
<1>2. x \in Pane!Tabs
  BY <1>1 DEF Pane!Tabs
<1>3. /\ SameRun(t, x) /\ x.tail = t.tail /\ x.notice = t.notice /\ x.again = t.again
      /\ x.deferred = t.deferred /\ x.closing = t.closing /\ x.doomed
      /\ x.starts = t.starts
  BY <1>1 DEF Pane!Tabs, SameRun
<1>4. /\ x.buf = t.buf /\ x.held = t.held /\ x.made = t.made /\ x.shown = t.shown
      /\ x.paused = t.paused /\ x.scheduled = t.scheduled /\ x.stranded = t.stranded
  BY <1>1 DEF Pane!Tabs
<1>5. Flows(x)
  BY <1>2, <1>3, <1>4 DEF Flows, Sound, Steady
<1>6. Steady(x)
  BY <1>3, <1>4, <1>5 DEF Sound, Steady, SameRun, Pane!Running
<1>7. Filled(x) /\ Served(x)
  BY <1>3, <1>4 DEF Sound, Filled, Served, Pane!Pending
<1>8. Quiet(x) /\ Leaving(x) /\ Hushed(x)
  BY <1>3, <1>4 DEF Quiet, Leaving, Hushed, SameRun, Pane!Running, Pane!Pending
<1> QED
  BY <1>3, <1>6, <1>7, <1>8 DEF TabRight, Sound, Moves, Keeps

LEMMA TabCloses ==
  ASSUME PaneBounds, TabRight(tab), Pane!CloseTab PROVE TabGood(tab, tab')
<1>1. /\ tab \in Pane!Tabs /\ Flows(tab) /\ Steady(tab) /\ ~tab.closing
      /\ 0 \in 0 .. High /\ 0 \in 0 .. MaxRuns /\ Low \in Nat /\ tab.starts \in Nat
  BY DEF TabRight, Sound, Steady, Flows, Pane!Tabs, Pane!CloseTab, Pane!Open, PaneBounds
<1>2. PICK r : r = [tab EXCEPT !.closing = TRUE, !.stopTimer = 0, !.scheduled = FALSE,
                               !.buf = 0, !.tail = "none", !.notice = FALSE]
  OBVIOUS
<1>3. r \in Pane!Tabs
  BY <1>1, <1>2 DEF Pane!Tabs
<1>4. /\ SameRun(tab, r) /\ r.tail = "none" /\ ~r.notice /\ r.again = tab.again
      /\ r.deferred = tab.deferred /\ r.starts = tab.starts /\ r.closing
  BY <1>1, <1>2 DEF Pane!Tabs, SameRun
<1>5. r.buf = 0 /\ ~r.scheduled
  BY <1>1, <1>2 DEF Pane!Tabs
<1>6. Steady(r)
  BY <1>1, <1>3, <1>4, <1>5 DEF Steady, Flows, SameRun, Pane!Running
<1>7. PICK x \in Pane!Resume(r) :
        \E y \in Pane!RequestStop([x EXCEPT !.deferred = FALSE, !.again = 0], FALSE) :
          tab' = IF Pane!Running(y) THEN y ELSE [y EXCEPT !.doomed = TRUE]
  BY <1>2 DEF Pane!CloseTab, Pane!Reset
<1>8. Goes(r, x) /\ (Alive(r, x) => ~x.paused \/ x.buf > Low)
  BY <1>6, TabResume
<1>9. /\ Steady(x) /\ Filled(x) /\ ~Pane!Pending(x) /\ Moves(r, x) /\ Keeps(r, x)
  <2>1. CASE Steady(x) /\ Alive(r, x)
    <3>1. SameRest(r, x) /\ SameOut(r, x) /\ SameRun(r, x)
      BY <2>1 DEF Alive, SameRest, SameOut
    <3>2. x.closing /\ x.buf = 0 /\ x.tail = "none" /\ ~x.notice
      BY <1>4, <2>1, <3>1 DEF Steady, Flows, SameRest, SameOut
    <3>3. ~x.scheduled /\ ~x.paused
      BY <1>1, <1>5, <1>8, <2>1, <3>2 DEF Alive
    <3> QED
      BY <2>1, <3>1, <3>2, <3>3 DEF Filled, Pane!Pending, Moves, Keeps, SameOut
  <2>2. CASE Stopped(r, x) /\ Halted(r, x)
    BY <1>4, <2>2 DEF Stopped, Moves, Keeps
  <2> QED
    BY <1>8, <2>1, <2>2 DEF Goes
<1>10. PICK s : s = [x EXCEPT !.deferred = FALSE, !.again = 0]
  OBVIOUS
<1>11. x \in Pane!Tabs /\ x.closing
  BY <1>4, <1>9 DEF Steady, Flows, Keeps
<1>12. s \in Pane!Tabs
  BY <1>1, <1>10, <1>11 DEF Pane!Tabs
<1>13. /\ SameRun(x, s) /\ s.tail = x.tail /\ s.notice = x.notice /\ s.again = 0
       /\ ~s.deferred /\ s.closing = x.closing /\ s.doomed = x.doomed
       /\ s.starts = x.starts
  BY <1>10, <1>11 DEF Pane!Tabs, SameRun
<1>14. /\ s.buf = x.buf /\ s.held = x.held /\ s.made = x.made /\ s.shown = x.shown
       /\ s.paused = x.paused /\ s.scheduled = x.scheduled /\ s.stranded = x.stranded
  BY <1>10, <1>11 DEF Pane!Tabs
<1>15. Flows(s)
  BY <1>9, <1>12, <1>13, <1>14 DEF Steady, Flows
<1>16. Steady(s)
  BY <1>9, <1>11, <1>13, <1>15 DEF Steady, SameRun, Pane!Running
<1>17. Sound(s)
  BY <1>9, <1>13, <1>14, <1>16 DEF Sound, Filled, Served, Pane!Pending
<1>18. Quiet(s) /\ Hushed(s)
  BY <1>9, <1>13, <1>14 DEF Quiet, Hushed, Pane!Pending
<1>19. PICK y \in Pane!RequestStop(s, FALSE) :
         tab' = IF Pane!Running(y) THEN y ELSE [y EXCEPT !.doomed = TRUE]
  BY <1>7, <1>10
<1>20. /\ Sound(y) /\ Moves(s, y) /\ Keeps(s, y) /\ Quiet(y) /\ Hushed(y)
       /\ Object = "ConPty" /\ Pane!Running(y) => y.state = "Running"
  BY <1>17, <1>18, <1>19, TabRequestStop
<1>21. Moves(x, s) /\ Keeps(x, s)
  BY <1>13 DEF Moves, Keeps
<1>22. Moves(r, y) /\ Keeps(r, y)
  <2>1. Moves(r, s) /\ Keeps(r, s)
    BY <1>9, <1>21, TabMoves
  <2> QED
    BY <1>20, <2>1, TabMoves
<1>23. TabRight(tab') /\ Moves(y, tab') /\ Keeps(y, tab')
  <2>1. CASE Pane!Running(y)
    <3>1. y.closing
      BY <1>4, <1>22 DEF Keeps
    <3>2. tab' = y
      BY <1>19, <2>1
    <3>3. Leaving(y)
      BY <1>20, <2>1 DEF Leaving, Pane!Running
    <3> QED
      BY <1>20, <3>2, <3>3 DEF TabRight, Moves, Keeps, SameRun
  <2>2. CASE ~Pane!Running(y)
    <3>1. y.closing
      BY <1>4, <1>22 DEF Keeps
    <3>2. tab' = [y EXCEPT !.doomed = TRUE]
      BY <1>19, <2>2
    <3> QED
      BY <1>20, <3>1, <3>2, TabClosed
  <2> QED
    BY <2>1, <2>2
<1>24. Moves(r, tab') /\ Keeps(r, tab')
  BY <1>22, <1>23, TabMoves
<1>25. Moves(tab, tab') /\ tab'.starts = tab.starts
  BY <1>4, <1>24 DEF Moves, Keeps, SameRun, Halted
<1> QED
  BY <1>1, <1>23, <1>25 DEF TabGood, Contracted

LEMMA TabForced ==
  ASSUME PaneBounds, TabRight(tab), Pane!ForceClose PROVE TabGood(tab, tab')
<1>1. Sound(tab) /\ Steady(tab) /\ tab.closing /\ Quiet(tab) /\ Hushed(tab)
  BY DEF TabRight, Sound, Pane!ForceClose
<1>2. PICK x \in (IF Pane!Running(tab) THEN Pane!Kill(tab) ELSE {tab}) :
        tab' = [(IF ~Pane!Running(x) THEN x
                 ELSE IF Object = "ConPty" THEN Pane!End(x, <<"closed">>)
                 ELSE Pane!Finish(x)) EXCEPT !.doomed = TRUE]
  BY DEF Pane!ForceClose
<1>3. PICK y : y = IF ~Pane!Running(x) THEN x
                   ELSE IF Object = "ConPty" THEN Pane!End(x, <<"closed">>)
                   ELSE Pane!Finish(x)
  OBVIOUS
<1>4. tab' = [y EXCEPT !.doomed = TRUE]
  BY <1>2, <1>3
<1>5. Goes(tab, x)
  <2>1. CASE Pane!Running(tab)
    <3>1. x \in Pane!Kill(tab)
      BY <1>2, <2>1
    <3> QED
      BY <1>1, <3>1, TabKill
  <2>2. CASE ~Pane!Running(tab)
    <3>1. x = tab
      BY <1>2, <2>2
    <3> QED
      BY <1>1, <3>1, TabStays
  <2> QED
    BY <2>1, <2>2
<1>6. Sound(x) /\ Steady(x) /\ Moves(tab, x) /\ Keeps(tab, x) /\ Quiet(x) /\ Hushed(x)
  BY <1>1, <1>5, TabGrows DEF Sound
<1>7. x.closing
  BY <1>1, <1>6 DEF Keeps
<1>8. CASE ~Pane!Running(x)
  <2>1. y = x
    BY <1>3, <1>8
  <2>2. TabRight(tab') /\ Moves(x, tab') /\ Keeps(x, tab')
    BY <1>4, <1>6, <1>7, <2>1, TabClosed
  <2>3. Moves(tab, tab') /\ Keeps(tab, tab')
    BY <1>6, <2>2, TabMoves
  <2> QED
    BY <2>2, <2>3, TabGoodMove
<1>9. CASE Pane!Running(x) /\ Object # "ConPty"
  <2>1. y = Pane!Finish(x)
    BY <1>3, <1>9
  <2>2. Stopped(x, y) /\ Halted(x, y)
    BY <1>6, <1>9, <2>1, TabEnds
  <2>3. Goes(x, y)
    BY <2>2 DEF Goes
  <2>4. Sound(y) /\ Moves(x, y) /\ Keeps(x, y) /\ Quiet(y) /\ Hushed(y)
    BY <1>6, <2>3, TabGrows
  <2>5. y.closing
    BY <1>7, <2>4 DEF Keeps
  <2>6. TabRight(tab') /\ Moves(y, tab') /\ Keeps(y, tab')
    BY <1>4, <2>4, <2>5, TabClosed
  <2>7. Moves(x, tab') /\ Keeps(x, tab')
    BY <2>4, <2>6, TabMoves
  <2>8. Moves(tab, tab') /\ Keeps(tab, tab')
    BY <1>6, <2>7, TabMoves
  <2> QED
    BY <2>6, <2>8, TabGoodMove
<1>10. CASE Pane!Running(x) /\ Object = "ConPty"
  <2>0. <<"closed">> \in Seq(Pane!Signals)
    BY DEF Pane!Signals
  <2>1. PICK w \in Seq(Pane!Signals) : w = <<"closed">>
    BY <2>0
  <2>2. y = Pane!End(x, w)
    BY <1>3, <1>10, <2>1
  <2>3. /\ Over(y) /\ y.run = x.run /\ y.told = x.told \o w
        /\ y.closing = x.closing /\ y.starts = x.starts /\ y.again = x.again
        /\ y.held = x.held /\ y.buf = x.buf /\ y.paused = x.paused
        /\ y.scheduled = x.scheduled /\ y.doomed = x.doomed /\ y.tail = x.tail
        /\ y.notice = x.notice
    BY <1>6, <1>10, <2>2, TabEnd
  <2>4. x.tail = "none"
    BY <1>6, <1>10 DEF Steady
  <2>5. ~Pane!Pending(x) /\ ~Pane!Pending(y)
    BY <1>6, <1>7, <2>3 DEF Sound, Served, Hushed, Pane!Pending
  <2>6. Steady(y)
    BY <1>7, <2>3, <2>4 DEF Steady, Over, Pane!Running
  <2>7. Sound(y)
    BY <1>6, <1>7, <2>3, <2>4, <2>5, <2>6 DEF Sound, Filled, Served, Over
  <2>8. Quiet(y) /\ Hushed(y)
    BY <1>6, <1>7, <2>3, <2>5 DEF Quiet, Hushed, Over
  <2>9. TabRight(tab') /\ Moves(y, tab') /\ Keeps(y, tab')
    BY <1>4, <1>7, <2>3, <2>7, <2>8, TabClosed
  <2>10. SameRun(tab, x)
    BY <1>6, <1>10 DEF Moves, Halted, Pane!Running
  <2>11. x.state # "NotRunning" /\ y.state = "NotRunning"
    BY <1>10, <2>3 DEF Over, Pane!Running
  <2>12. SameRun(y, tab')
    BY <2>9, <2>11 DEF Moves, Halted
  <2>13. Contracted(tab, tab')
    BY <2>1, <2>3, <2>10, <2>11, <2>12 DEF Contracted, SameRun
  <2>14. tab'.starts = tab.starts /\ tab.starts \in Nat
    BY <1>1, <1>6, <1>7, <2>3, <2>9 DEF Keeps, Steady, Flows, Pane!Tabs
  <2> QED
    BY <2>9, <2>13, <2>14 DEF TabGood
<1> QED
  BY <1>8, <1>9, <1>10

LEMMA TabFails ==
  ASSUME PaneBounds, TabRight(tab), Pane!FailToStart PROVE TabGood(tab, tab')
<1>1. /\ Steady(tab) /\ tab.state = "Starting" /\ tab.starts \in Nat
      /\ Leaving(tab) /\ Quiet(tab)
  BY DEF TabRight, Sound, Steady, Flows, Pane!Tabs, Pane!FailToStart
<1>2. <<"error">> \in Seq(Pane!Signals)
  BY DEF Pane!Signals
<1>3. PICK w \in Seq(Pane!Signals) : w = <<"error">>
  BY <1>2
<1>4. PICK e : e = Pane!End(tab, w)
  OBVIOUS
<1>5. Pane!Running(tab)
  BY <1>1 DEF Pane!Running
<1>6. /\ Over(e) /\ e.run = tab.run /\ e.told = tab.told \o w
      /\ e.closing = tab.closing /\ e.starts = tab.starts /\ e.again = tab.again
      /\ e.doomed = tab.doomed
  BY <1>1, <1>4, <1>5, TabEnd
<1>7. tab' = Pane!FlushEnd(Pane!Notice(Pane!MarkEnd(e)))
  BY <1>3, <1>4 DEF Pane!FailToStart, Pane!OnEndError
<1>8. Over(tab') /\ Settled(tab') /\ SameOut(e, tab')
  BY <1>6, <1>7, TabShown
<1>9. Object = "ConPty" /\ ~tab.closing => tab.again = 0
  BY <1>1 DEF Leaving
<1>0. tab'.told = <<"error">>
  <2>1. <<>> \o <<"error">> = <<"error">>
    OBVIOUS
  <2>2. tab.told = <<>>
    BY <1>1 DEF Steady
  <2>3. tab'.told = tab.told \o w
    BY <1>6, <1>8 DEF SameOut, SameRun
  <2> QED
    BY <1>3, <2>1, <2>2, <2>3
<1>10. Steady(tab')
  <2>1. /\ tab'.run = tab.run /\ tab'.again = tab.again /\ tab'.closing = tab.closing
        /\ tab'.state = "NotRunning" /\ ~Pane!Running(tab')
    BY <1>6, <1>8 DEF Over, SameOut, SameRun, Pane!Running
  <2>2. tab'.again # 0 /\ ~tab'.closing => tab'.again <= tab'.run /\ Object = "QProcess"
    BY <1>1, <1>9, <2>1 DEF Steady, PaneBounds
  <2> QED
    BY <1>0, <1>8, <2>1, <2>2 DEF Steady, Over, Settled
<1>11. Filled(tab') /\ Served(tab')
  BY <1>8 DEF Filled, Served, Over, Settled
<1>12. Quiet(tab') /\ Hushed(tab')
  BY <1>1, <1>6, <1>8 DEF Quiet, Hushed, Over, Settled, SameOut, Pane!Pending
<1>13. Leaving(tab')
  BY <1>0, <1>1, <1>6, <1>8 DEF Leaving, SameOut
<1>14. Contracted(tab, tab')
  BY <1>1, <1>3, <1>6, <1>8 DEF Contracted, Over, SameOut, SameRun, Pane!Running
<1> QED
  BY <1>1, <1>6, <1>8, <1>10, <1>11, <1>12, <1>13, <1>14 DEF TabGood, TabRight, Sound, SameOut

LEMMA TabStarts ==
  ASSUME PaneBounds, TabRight(tab), Pane!Started PROVE TabGood(tab, tab')
<1>1. /\ tab \in Pane!Tabs /\ Flows(tab) /\ Steady(tab) /\ tab.state = "Starting"
      /\ tab.starts \in Nat /\ Pane!Running(tab) /\ tab.told \in Seq(Pane!Signals)
  BY DEF TabRight, Sound, Steady, Flows, Pane!Tabs, Pane!Started, Pane!Running
<1>2. PICK w : w = Append(tab.told, "started")
  OBVIOUS
<1>3. "started" \in Pane!Signals
  BY DEF Pane!Signals
<1>4. w \in Seq(Pane!Signals)
  BY <1>1, <1>2, <1>3, AppendProperties
<1>5. tab' = [tab EXCEPT !.state = "Running", !.told = w]
  BY <1>2 DEF Pane!Started
<1>6. tab' \in Pane!Tabs
  BY <1>1, <1>4, <1>5 DEF Pane!Tabs
<1>7. /\ tab'.state = "Running" /\ tab'.run = tab.run /\ tab'.told = w
      /\ tab'.tail = tab.tail /\ tab'.notice = tab.notice /\ tab'.again = tab.again
      /\ tab'.deferred = tab.deferred /\ tab'.starts = tab.starts
      /\ tab'.closing = tab.closing /\ tab'.doomed = tab.doomed
  BY <1>1, <1>5 DEF Pane!Tabs
<1>8. /\ tab'.buf = tab.buf /\ tab'.held = tab.held /\ tab'.made = tab.made
      /\ tab'.shown = tab.shown /\ tab'.paused = tab.paused
      /\ tab'.scheduled = tab.scheduled /\ tab'.stranded = tab.stranded
  BY <1>1, <1>5 DEF Pane!Tabs
<1>9. Flows(tab')
  BY <1>1, <1>6, <1>7, <1>8 DEF Flows
<1>10. Steady(tab')
  BY <1>1, <1>7, <1>9 DEF Steady, Pane!Running
<1>11. Filled(tab') /\ Served(tab')
  BY <1>7, <1>8 DEF TabRight, Sound, Filled, Served, Pane!Pending
<1>12. Quiet(tab') /\ Leaving(tab') /\ Hushed(tab')
  BY <1>7, <1>8 DEF TabRight, Quiet, Leaving, Hushed, Pane!Running
<1>13. Contracted(tab, tab')
  BY <1>1, <1>2, <1>7 DEF Contracted
<1> QED
  BY <1>1, <1>7, <1>10, <1>11, <1>12, <1>13 DEF TabGood, TabRight, Sound

LEMMA TabErrs ==
  ASSUME PaneBounds, TabRight(tab), Pane!RunningError PROVE TabGood(tab, tab')
<1>1. /\ tab \in Pane!Tabs /\ Flows(tab) /\ Steady(tab) /\ Pane!Running(tab)
      /\ Sound(tab) /\ Quiet(tab) /\ Leaving(tab)
  BY DEF TabRight, Sound, Steady, Flows, Pane!RunningError, Pane!Running
<1>2. PICK n : n = Pane!Notice(tab)
  OBVIOUS
<1>3. /\ Sound(n) /\ Quiet(n) /\ Leaving(n) /\ Pane!Running(n)
      /\ Moves(tab, n) /\ Keeps(tab, n)
  <2>1. CASE n = tab
    BY <1>1, <2>1 DEF Moves, Keeps, SameRun
  <2>2. CASE n # tab
    <3>1. n = [tab EXCEPT !.notice = TRUE, !.scheduled = TRUE]
      BY <1>2, <2>2 DEF Pane!Notice
    <3>2. n \in Pane!Tabs
      BY <1>1, <3>1 DEF Pane!Tabs
    <3>3. /\ SameRun(tab, n) /\ n.tail = tab.tail /\ n.again = tab.again /\ n.scheduled
          /\ n.deferred = tab.deferred /\ n.starts = tab.starts
          /\ n.closing = tab.closing /\ n.doomed = tab.doomed
      BY <1>1, <3>1 DEF Pane!Tabs, SameRun
    <3>4. /\ n.buf = tab.buf /\ n.held = tab.held /\ n.made = tab.made
          /\ n.shown = tab.shown /\ n.paused = tab.paused
          /\ n.stranded = tab.stranded
      BY <1>1, <3>1 DEF Pane!Tabs
    <3>5. Pane!Running(n)
      BY <1>1, <3>3 DEF SameRun, Pane!Running
    <3>6. Flows(n)
      BY <1>1, <3>2, <3>3, <3>4 DEF Flows
    <3>7. Steady(n)
      BY <1>1, <3>3, <3>5, <3>6 DEF Steady, SameRun
    <3>8. Filled(n) /\ Served(n)
      BY <1>1, <3>3, <3>4 DEF Sound, Filled, Served
    <3>9. Quiet(n) /\ Leaving(n)
      BY <1>1, <3>3, <3>5 DEF Quiet, Leaving, SameRun
    <3> QED
      BY <3>3, <3>5, <3>7, <3>8, <3>9 DEF Sound, Moves, Keeps
  <2> QED
    BY <2>1, <2>2
<1>4. tab' \in Pane!FlushTurn(n) \cup Pane!FlushNow(n)
  BY <1>2 DEF Pane!RunningError
<1>5. TabRight(tab') /\ Moves(n, tab') /\ Keeps(n, tab')
  BY <1>3, <1>4, TabFlushes
<1>6. Moves(tab, tab') /\ Keeps(tab, tab')
  BY <1>3, <1>5, TabMoves
<1> QED
  BY <1>5, <1>6, TabGoodMove

LEMMA TabQueuedStart ==
  ASSUME PaneBounds, TabRight(tab), Pane!RunQueuedStart PROVE TabGood(tab, tab')
<1>1. tab \in Pane!Tabs /\ tab.starts \in Nat /\ tab.starts > 0
  BY DEF TabRight, Sound, Steady, Flows, Pane!Tabs, Pane!RunQueuedStart
<1>2. PICK n : n = tab.starts - 1
  OBVIOUS
<1>3. n \in Nat
  BY <1>1, <1>2
<1>4. PICK s : s = [tab EXCEPT !.starts = n]
  OBVIOUS
<1>5. s \in Pane!Tabs
  BY <1>1, <1>3, <1>4 DEF Pane!Tabs
<1>6. /\ SameRun(tab, s) /\ s.tail = tab.tail /\ s.notice = tab.notice
      /\ s.again = tab.again /\ s.deferred = tab.deferred /\ s.starts = n
      /\ s.closing = tab.closing /\ s.doomed = tab.doomed
  BY <1>1, <1>4 DEF Pane!Tabs, SameRun
<1>7. /\ s.buf = tab.buf /\ s.held = tab.held /\ s.made = tab.made
      /\ s.shown = tab.shown /\ s.paused = tab.paused /\ s.scheduled = tab.scheduled
      /\ s.stranded = tab.stranded
  BY <1>1, <1>4 DEF Pane!Tabs
<1>8. Flows(s)
  BY <1>5, <1>6, <1>7 DEF TabRight, Sound, Steady, Flows
<1>9. Steady(s)
  BY <1>6, <1>7, <1>8 DEF TabRight, Sound, Steady, SameRun, Pane!Running
<1>10. Filled(s) /\ Served(s)
  BY <1>6, <1>7 DEF TabRight, Sound, Filled, Served, Pane!Pending
<1>11. Quiet(s) /\ Leaving(s) /\ Hushed(s)
  BY <1>6, <1>7 DEF TabRight, Quiet, Leaving, Hushed, SameRun, Pane!Running, Pane!Pending
<1>12. TabRight(s)
  BY <1>9, <1>10, <1>11 DEF TabRight, Sound
<1>13. tab' \in Pane!StartCall(s)
  BY <1>2, <1>4 DEF Pane!RunQueuedStart
<1>14. /\ TabRight(tab') /\ (SameRun(s, tab') \/ Begins(s, tab'))
       /\ tab'.starts = s.starts
  BY <1>12, <1>13, TabStartCall
<1>15. SameRun(tab, tab') \/ Begins(tab, tab')
  BY <1>6, <1>7, <1>14 DEF SameRun, Begins, Pane!Pending
<1> QED
  BY <1>1, <1>2, <1>6, <1>14, <1>15 DEF TabGood, Contracted, Moves

LEMMA TabTimesOut ==
  ASSUME PaneBounds, TabRight(tab), Pane!StopTimeout PROVE TabGood(tab, tab')
<1>1. tab \in Pane!Tabs /\ 0 \in 0 .. MaxRuns
  BY DEF TabRight, Sound, Steady, Flows, PaneBounds
<1>2. PICK s : s = [tab EXCEPT !.stopTimer = 0]
  OBVIOUS
<1>3. s \in Pane!Tabs
  BY <1>1, <1>2 DEF Pane!Tabs
<1>4. Twins(tab, s)
  BY <1>1, <1>2, <1>3 DEF Pane!Tabs, Twins, SameRest, SameOut, SameRun
<1>5. TabRight(s) /\ Moves(tab, s) /\ Keeps(tab, s)
  BY <1>4, TabTwins DEF TabRight
<1>6. tab' \in IF Pane!Running(tab) THEN Pane!Kill(s) ELSE {s}
  BY <1>2 DEF Pane!StopTimeout
<1>7. Goes(s, tab')
  <2>1. Steady(s)
    BY <1>5 DEF TabRight, Sound
  <2>2. CASE tab' = s
    BY <2>1, <2>2, TabStays
  <2>3. CASE tab' \in Pane!Kill(s)
    BY <2>1, <2>3, TabKill
  <2> QED
    BY <1>6, <2>2, <2>3
<1>8. TabRight(tab') /\ Moves(s, tab') /\ Keeps(s, tab')
  BY <1>5, <1>7, TabGrows DEF TabRight
<1>9. Moves(tab, tab') /\ Keeps(tab, tab')
  BY <1>5, <1>8, TabMoves
<1> QED
  BY <1>8, <1>9, TabGoodMove

LEMMA TabIdleClose ==
  ASSUME PaneBounds, TabRight(tab), Pane!CloseIdle PROVE TabGood(tab, tab')
<1>1. /\ tab \in Pane!Tabs /\ Steady(tab) /\ ~tab.closing /\ tab.starts \in Nat
      /\ tab' = [tab EXCEPT !.doomed = TRUE]
  BY DEF TabRight, Sound, Steady, Flows, Pane!Tabs, Pane!CloseIdle, Pane!Open
<1>2. tab' \in Pane!Tabs
  BY <1>1 DEF Pane!Tabs
<1>3. /\ SameRun(tab, tab') /\ tab'.tail = tab.tail /\ tab'.notice = tab.notice
      /\ tab'.again = tab.again /\ tab'.deferred = tab.deferred
      /\ tab'.starts = tab.starts /\ tab'.closing = tab.closing
  BY <1>1 DEF Pane!Tabs, SameRun
<1>4. /\ tab'.buf = tab.buf /\ tab'.held = tab.held /\ tab'.made = tab.made
      /\ tab'.shown = tab.shown /\ tab'.paused = tab.paused
      /\ tab'.scheduled = tab.scheduled /\ tab'.stranded = tab.stranded
  BY <1>1 DEF Pane!Tabs
<1>5. Flows(tab')
  BY <1>1, <1>2, <1>3, <1>4 DEF Flows, Steady
<1>6. Steady(tab')
  BY <1>1, <1>3, <1>4, <1>5 DEF Steady, SameRun, Pane!Running
<1>7. Filled(tab') /\ Served(tab')
  BY <1>3, <1>4 DEF TabRight, Sound, Filled, Served, Pane!Pending
<1>8. Quiet(tab') /\ Leaving(tab') /\ Hushed(tab')
  BY <1>1, <1>3 DEF TabRight, Quiet, Leaving, Hushed, SameRun
<1> QED
  BY <1>1, <1>3, <1>6, <1>7, <1>8 DEF TabGood, TabRight, Sound, Contracted, Moves

LEMMA TabDeletes ==
  ASSUME PaneBounds, TabRight(tab), Pane!Delete PROVE TabGood(tab, tab')
<1>1. tab \in Pane!Tabs /\ tab' = [tab EXCEPT !.gone = TRUE]
  BY DEF TabRight, Sound, Steady, Flows, Pane!Delete
<1>2. tab' \in Pane!Tabs
  BY <1>1 DEF Pane!Tabs
<1>3. Twins(tab, tab')
  BY <1>1, <1>2 DEF Pane!Tabs, Twins, SameRest, SameOut, SameRun
<1> QED
  BY <1>3, TabGoodTwin

LEMMA TabFlushed ==
  ASSUME PaneBounds, TabRight(tab), Pane!Flush PROVE TabGood(tab, tab')
<1>1. Sound(tab) /\ Quiet(tab) /\ Leaving(tab) /\ tab.scheduled
  BY DEF TabRight, Pane!Flush
<1>2. tab' \in Pane!FlushTurn(tab) \cup Pane!FlushNow(tab)
  BY DEF Pane!Flush
<1>3. TabRight(tab') /\ Moves(tab, tab') /\ Keeps(tab, tab')
  BY <1>1, <1>2, TabFlushes
<1> QED
  BY <1>3, TabGoodMove

LEMMA TabObject ==
  ASSUME PaneBounds, TabRight(tab), Pane!Output \/ Pane!Exit \/ Pane!BreakAtStart
  PROVE  TabGood(tab, tab')
<1>1. Steady(tab)
  BY DEF TabRight, Sound
<1>2. Goes(tab, tab')
  <2>1. CASE Pane!Output
    <3>1. tab.state = "Running" /\ tab' \in Pane!AllRead(tab)
      BY <2>1 DEF Pane!Output, Pane!Drained, Pane!AllRead
    <3> QED
      BY <1>1, <3>1, TabReads DEF Goes
  <2>2. CASE Pane!Exit
    <3>1. tab.state = "Running" /\ tab' \in Pane!Ends(tab)
      BY <2>2 DEF Pane!Exit
    <3> QED
      BY <1>1, <3>1, TabExits DEF Goes
  <2>3. CASE Pane!BreakAtStart
    <3>1. Pane!Running(tab) /\ tab' = Pane!Break(tab)
      BY <2>3 DEF Pane!BreakAtStart, Pane!Running
    <3> QED
      BY <1>1, <3>1, TabEnds DEF Goes
  <2> QED
    BY <2>1, <2>2, <2>3
<1> QED
  BY <1>2, TabGoodGoes

LEMMA TabAsked ==
  ASSUME PaneBounds, TabRight(tab), Pane!Start \/ Pane!Restart \/ Pane!Stop
  PROVE  TabGood(tab, tab')
<1>1. CASE tab' \in Pane!StartCall(tab)
  BY <1>1, TabGoodStart
<1>2. CASE Pane!Running(tab) /\ tab' \in Pane!RequestStop(tab, TRUE)
  BY <1>2, TabGoodStop
<1>3. CASE tab' \in Pane!RequestStop(tab, FALSE)
  BY <1>3, TabGoodStop
<1> QED
  BY <1>1, <1>2, <1>3 DEF Pane!Start, Pane!Restart, Pane!Stop

(* Every step keeps a tab in order.                                       *)
LEMMA TabNext == ASSUME PaneBounds, TabRight(tab), Pane!Next PROVE TabGood(tab, tab')
BY TabAsked, TabClears, TabIdleClose, TabCloses, TabFlushed, TabTimesOut,
   TabQueuedStart, TabForced, TabDeletes, TabStarts, TabFails, TabObject, TabErrs
DEF Pane!Next

(* So is a new tab.                                                       *)
LEMMA TabInit == ASSUME PaneBounds, Pane!Init PROVE TabRight(tab)
<1>1. 0 \in 0 .. MaxRuns /\ 0 \in 0 .. High /\ <<>> \in Seq(Pane!Signals)
  BY DEF PaneBounds
<1>2. PICK e : e = <<>>
  OBVIOUS
<1>3. e \in Seq(Pane!Signals)
  BY <1>1, <1>2
<1>4. tab = [state |-> "NotRunning", run |-> 0, told |-> e, held |-> 0,
             dying |-> FALSE, buf |-> 0, scheduled |-> FALSE, paused |-> FALSE,
             tail |-> "none", notice |-> FALSE, again |-> 0, deferred |-> FALSE,
             starts |-> 0, stopTimer |-> 0, closing |-> FALSE, doomed |-> FALSE,
             gone |-> FALSE, made |-> 0, shown |-> 0, stranded |-> FALSE,
             waived |-> FALSE]
  BY <1>2 DEF Pane!Init
<1>5. tab \in Pane!Tabs
  BY <1>1, <1>3, <1>4 DEF Pane!Tabs
<1> QED
  BY <1>4, <1>5
  DEF TabRight, Sound, Steady, Flows, Filled, Served, Quiet, Leaving, Hushed,
      Pane!Running, Pane!Pending

(* The invariant of a tab, whatever its queue holds and a turn renders.    *)
THEOREM TabInvariant == ASSUME PaneBounds PROVE Pane!Spec => []TabRight(tab)
<1>1. Pane!Init => TabRight(tab)
  BY TabInit
<1>2. TabRight(tab) /\ [Pane!Next]_Pane!vars => TabRight(tab)'
  <2>1. ASSUME TabRight(tab), Pane!Next PROVE TabRight(tab')
    BY <2>1, TabNext DEF TabGood
  <2>2. ASSUME TabRight(tab), UNCHANGED Pane!vars PROVE TabRight(tab')
    BY <2>2 DEF Pane!vars
  <2> QED
    BY <2>1, <2>2
<1> QED
  BY <1>1, <1>2, PTL DEF Pane!Spec

(* Each field of a tab keeps its type; the queue keeps its limit.          *)
THEOREM TabTyped == ASSUME PaneBounds PROVE Pane!Spec => []Pane!TypeOK
<1>1. TabRight(tab) => Pane!TypeOK
  BY DEF TabRight, Sound, Steady, Flows, Pane!TypeOK
<1> QED
  BY <1>1, TabInvariant, PTL

(* All output of a run is in the transcript, the queue or the object, and *)
(* when its end is shown all of it is in the transcript, unless a clear   *)
(* left some behind (flush_process_output,                                *)
(* finish_deferred_process_output, on_finished).                          *)
THEOREM TabTailInOrder == ASSUME PaneBounds PROVE Pane!Spec => []Pane!TailInOrder
<1>1. TabRight(tab) => Pane!TailInOrder
  <2>1. SUFFICES ASSUME TabRight(tab), ~tab.closing
                 PROVE  /\ tab.made = tab.shown + tab.buf + tab.held
                        /\ ~Pane!Running(tab) /\ tab.tail = "none" /\ ~tab.stranded =>
                             tab.shown = tab.made
    BY DEF Pane!TailInOrder
  <2>2. Steady(tab) /\ Flows(tab) /\ tab.shown \in Nat
    BY <2>1 DEF TabRight, Sound, Steady, Flows, Pane!Tabs
  <2> QED
    BY <2>1, <2>2 DEF Steady, Flows
<1> QED
  BY <1>1, TabInvariant, PTL

(* Queued output, an unshown end, a notice and a restart put off have a   *)
(* flush scheduled; an object is paused only while the queue is above its *)
(* low mark (refill_process_output, continue_process_output).             *)
THEOREM TabPendingIsServed == ASSUME PaneBounds PROVE Pane!Spec => []Pane!PendingIsServed
<1>1. TabRight(tab) => Pane!PendingIsServed
  BY DEF TabRight, Sound, Steady, Filled, Served, Pane!PendingIsServed, Pane!Pending
<1> QED
  BY <1>1, TabInvariant, PTL

(* The restart flag names the run that runs, and a closed tab waits for   *)
(* no restart (request_stop, prepare_for_close).                          *)
THEOREM TabRestartFits == ASSUME PaneBounds PROVE Pane!Spec => []Pane!RestartFits
<1>1. ASSUME TabRight(tab) PROVE Pane!RestartFits
  <2>1. /\ Steady(tab) /\ Quiet(tab) /\ Leaving(tab)
        /\ tab.again \in Nat /\ tab.run \in Nat
    BY <1>1 DEF TabRight, Sound, Steady, Flows, Pane!Tabs, PaneBounds
  <2>2. tab.closing => /\ tab.again = 0 /\ ~tab.deferred
                       /\ Pane!Running(tab) \/ tab.doomed \/ Pane!FailedQProcess
    BY <2>1 DEF Quiet, Leaving, Pane!FailedQProcess, Pane!Running, PaneBounds
  <2>3. ASSUME tab.again # 0
        PROVE  \/ Pane!Running(tab) /\ tab.again = tab.run
               \/ Pane!Running(tab) /\ tab.again < tab.run /\ Object = "QProcess"
               \/ ~Pane!Running(tab) /\ Pane!FailedQProcess
    <3>1. /\ tab.again <= tab.run
          /\ Pane!Running(tab) => tab.again = tab.run \/ Object = "QProcess"
          /\ ~Pane!Running(tab) => Object = "QProcess" /\ tab.told = <<"error">>
      BY <2>1, <2>3 DEF Steady, Quiet
    <3> QED
      BY <2>1, <3>1 DEF Pane!FailedQProcess
  <2> QED
    BY <2>2, <2>3 DEF Pane!RestartFits
<1> QED
  BY <1>1, TabInvariant, PTL

(* No run begins before the former one is shown to its end (start).       *)
THEOREM TabNoTailCut == ASSUME PaneBounds PROVE Pane!Spec => Pane!NoTailCut
<1>1. TabRight(tab) /\ [Pane!Next]_Pane!vars =>
        [tab'.run # tab.run =>
           /\ ~Pane!Running(tab) /\ ~Pane!Pending(tab)
           /\ tab.held = 0 \/ tab.stranded \/ tab.closing]_Pane!vars
  <2>1. ASSUME TabRight(tab), Pane!Next, tab'.run # tab.run
        PROVE  /\ ~Pane!Running(tab) /\ ~Pane!Pending(tab)
               /\ tab.held = 0 \/ tab.stranded \/ tab.closing
    BY <2>1, TabNext DEF TabGood, Contracted, Moves, SameRun, Halted, Begins, Pane!Running
  <2> QED
    BY <2>1
<1> QED
  BY <1>1, TabInvariant, PTL DEF Pane!Spec, Pane!NoTailCut

(* Closing a tab queues no start, also when its process ends in the       *)
(* middle of it (prepare_for_close, on_finished).                         *)
THEOREM TabClosingQueuesNothing ==
  ASSUME PaneBounds PROVE Pane!Spec => Pane!ClosingQueuesNothing
<1>1. TabRight(tab) /\ [Pane!Next]_Pane!vars =>
        [tab'.closing => tab'.starts <= tab.starts]_Pane!vars
  BY TabNext DEF TabGood
<1> QED
  BY <1>1, TabInvariant, PTL DEF Pane!Spec, Pane!ClosingQueuesNothing

(* A tab drives its process object as ProcessRun allows: each step, with  *)
(* the signals that arrive inside it, is at most one step of it.          *)
THEOREM TabContract == ASSUME PaneBounds PROVE Pane!Spec => Pane!Contract
<1>1. Pane!Init => Pane!Process!Init
  BY DEF Pane!Init, Pane!Process!Init
<1>2. TabRight(tab) /\ [Pane!Next]_Pane!vars => [Pane!Process!Next]_Pane!Process!vars
  <2>1. ASSUME TabRight(tab), Pane!Next PROVE [Pane!Process!Next]_Pane!Process!vars
    <3>1. Contracted(tab, tab') /\ tab.state \in {"NotRunning", "Starting", "Running"}
      BY <2>1, TabNext DEF TabGood, TabRight, Sound, Steady, Flows, Pane!Tabs
    <3> QED
      BY <3>1
      DEF Contracted, Moves, SameRun, Halted, Begins, Pane!Process!vars, Pane!Process!Next,
          Pane!Process!Start, Pane!Process!Started, Pane!Process!FailToStart,
          Pane!Process!Cancelled, Pane!Process!Finished, Pane!Process!Broken,
          Pane!Process!Closed, Pane!Process!End
  <2>2. ASSUME UNCHANGED Pane!vars PROVE UNCHANGED Pane!Process!vars
    BY <2>2 DEF Pane!vars, Pane!Process!vars
  <2> QED
    BY <2>1, <2>2
<1> QED
  BY <1>1, <1>2, TabInvariant, PTL DEF Pane!Spec, Pane!Contract, Pane!Process!Spec

(* TabInOrder: the invariants of the tab, for either kind of object and    *)
(* any limits of the queue.                                                *)
THEOREM TabStaysInOrder == ASSUME PaneBounds PROVE Pane!Spec => []Pane!TabInOrder
BY TabTyped, TabTailInOrder, TabPendingIsServed, TabRestartFits, PTL
   DEF Pane!TabInOrder

(* StartsInOrder: what no step of a tab does.                              *)
THEOREM TabStartsInOrder == ASSUME PaneBounds PROVE Pane!Spec => Pane!StartsInOrder
BY TabNoTailCut, TabClosingQueuesNothing, PTL DEF Pane!StartsInOrder
=============================================================================
