---------------------------- MODULE ConPtySession ----------------------------
(***************************************************************************)
(* WindowsConPtyProcess (windows_conpty.py), once it is started: a child   *)
(* behind a pseudoconsole, with one thread that reads its output into a    *)
(* bounded queue, one that writes queued input, one that resizes the       *)
(* console, and one that closes it.                                        *)
(*                                                                         *)
(* The caller is one thread at a time: the GUI thread until it gives the   *)
(* session up, then the thread it hands the session to.  _lifecycle_lock   *)
(* is held for long by the resizer only, during ResizePseudoConsole, which *)
(* may not return on older systems.                                        *)
(* Timeouts of queues, joins and waits may be over at any moment.          *)
(***************************************************************************)
EXTENDS Naturals

CONSTANTS MaxWork,     \* bound: chunks the child makes, and calls at two chunks each
          PipeCap,     \* chunks the output pipe holds
          QueueCap     \* items each queue holds

ASSUME SessionAssumption == /\ MaxWork \in Nat
                            /\ PipeCap \in Nat \ {0} /\ QueueCap \in Nat \ {0}

VARIABLES host,   \* the child, the console and the ends of the pipes
          out,    \* the output: its queue and what was said of it
          inp,    \* the input: its queue and count
          size,   \* the size asked for, the event, the size last tried
          th,     \* where the four threads are
          flag,   \* the events that say what is closing
          pc      \* where the caller is

vars == <<host, out, inp, size, th, flag, pc>>

Init == /\ host = [child |-> "running", console |-> "open", made |-> 0, screen |-> 0,
                   pipe |-> 0, outputOpen |-> TRUE]
        /\ out = [queue |-> 0, marker |-> FALSE, eof |-> FALSE, got |-> 0, cut |-> FALSE]
        /\ inp = [queue |-> 0, pending |-> 0, discarded |-> 0, error |-> FALSE, writes |-> 0]
        /\ size = [asked |-> 0, calls |-> 0, event |-> FALSE, tried |-> 0]
        /\ th = [reader |-> "read", writer |-> "get", resizer |-> "wait", resize |-> 0,
                 closer |-> "none"]
        /\ flag = [closing |-> FALSE, resize |-> FALSE, input |-> FALSE, closed |-> FALSE]
        /\ pc = "idle"

Works(cost) == host.made + 2 * (inp.writes + size.calls) + cost <= MaxWork

LockFree == th.resizer \notin {"call", "hung"}

-----------------------------------------------------------------------------
(* The host: the child, and the console that renders for it.               *)

ChildMakes ==
  /\ host.child = "running" /\ host.console # "closed" /\ Works(1)
  /\ host' = [host EXCEPT !.made = @ + 1, !.screen = @ + 1]
  /\ UNCHANGED <<out, inp, size, th, flag, pc>>

ChildExits ==
  /\ host.child = "running"
  /\ host' = [host EXCEPT !.child = "exited"]
  /\ UNCHANGED <<out, inp, size, th, flag, pc>>

(* What cannot be read any more is thrown away. *)
ConsoleRenders ==
  /\ host.screen > 0
  /\ ~host.outputOpen \/ host.pipe < PipeCap
  /\ host' = [host EXCEPT !.screen = @ - 1, !.pipe = IF host.outputOpen THEN @ + 1 ELSE @]
  /\ UNCHANGED <<out, inp, size, th, flag, pc>>

-----------------------------------------------------------------------------
(* _reader_main                                                            *)

ReadFile ==
  /\ th.reader = "read" /\ host.outputOpen /\ host.pipe > 0
  /\ host' = [host EXCEPT !.pipe = @ - 1]
  /\ th' = [th EXCEPT !.reader = "put"]
  /\ UNCHANGED <<out, inp, size, flag, pc>>

(* The end of the pipe: the console is closed and everything is read. *)
ReadEnds ==
  /\ th.reader = "read" /\ host.outputOpen
  /\ host.console = "closed" /\ host.pipe = 0
  /\ th' = [th EXCEPT !.reader = "eof"]
  /\ UNCHANGED <<host, out, inp, size, flag, pc>>

RecordsError == inp' = [inp EXCEPT !.error = (@ \/ ~flag.closing)]

(* Any other error, the reader's handle closed under it among them.  That  *)
(* the pipe shuts down without an error although the console is not closed *)
(* is left out: to the threads it is this action, with nothing recorded.   *)
ReadFails ==
  /\ th.reader = "read"
  /\ RecordsError
  /\ th' = [th EXCEPT !.reader = "eof"]
  /\ out' = [out EXCEPT !.cut = TRUE]
  /\ UNCHANGED <<host, size, flag, pc>>

(* Mutant: the chunk that does not fit is dropped. *)
PutOrDrop ==
  /\ th.reader = "put"
  /\ out' = [out EXCEPT !.queue = IF out.queue < QueueCap THEN @ + 1 ELSE @]
  /\ th' = [th EXCEPT !.reader = "read"]
  /\ UNCHANGED <<host, inp, size, flag, pc>>

(* The queue is full: the reader waits for room as long as nobody closes.  *)
PutChunk ==
  /\ th.reader = "put" /\ out.queue < QueueCap
  /\ out' = [out EXCEPT !.queue = @ + 1]
  /\ th' = [th EXCEPT !.reader = "read"]
  /\ UNCHANGED <<host, inp, size, flag, pc>>

ReaderGivesUp ==
  /\ th.reader \in {"read", "put"} /\ flag.closing
  /\ out' = [out EXCEPT !.cut = TRUE]
  /\ th' = [th EXCEPT !.reader = "eof"]
  /\ UNCHANGED <<host, inp, size, flag, pc>>

SetEof ==
  /\ th.reader = "eof"
  /\ out' = [out EXCEPT !.eof = TRUE]
  /\ th' = [th EXCEPT !.reader = "mark"]
  /\ UNCHANGED <<host, inp, size, flag, pc>>

PutMarker ==
  /\ th.reader = "mark"
  /\ out' = [out EXCEPT !.marker = ~flag.closing /\ out.queue < QueueCap]
  /\ th' = [th EXCEPT !.reader = "ended"]
  /\ UNCHANGED <<host, inp, size, flag, pc>>

-----------------------------------------------------------------------------
(* _writer_main                                                            *)

GetInput ==
  /\ th.writer = "get" /\ inp.queue > 0
  /\ inp' = [inp EXCEPT !.queue = @ - 1]
  /\ th' = [th EXCEPT !.writer = "write"]
  /\ UNCHANGED <<host, out, size, flag, pc>>

FindsNoInput ==
  /\ th.writer = "get" /\ inp.queue = 0
  /\ th' = [th EXCEPT !.writer = "empty"]
  /\ UNCHANGED <<host, out, inp, size, flag, pc>>

(* Looks whether the input is closed: what was queued since it found none  *)
(* is discarded then.                                                      *)
LooksAtInput ==
  /\ th.writer = "empty"
  /\ th' = [th EXCEPT !.writer = IF flag.input THEN "discard" ELSE "get"]
  /\ UNCHANGED <<host, out, inp, size, flag, pc>>

NoMoreInput ==
  /\ th.writer = "get" /\ flag.closing
  /\ th' = [th EXCEPT !.writer = "discard"]
  /\ UNCHANGED <<host, out, inp, size, flag, pc>>

(* Written, or given up because the session closes. *)
WriteFile ==
  /\ th.writer = "write"
  /\ inp' = [inp EXCEPT !.pending = @ - 1]
  /\ th' = [th EXCEPT !.writer = "get"]
  /\ UNCHANGED <<host, out, size, flag, pc>>

WriteFails ==
  /\ th.writer = "write"
  /\ RecordsError
  /\ flag' = [flag EXCEPT !.input = TRUE]
  /\ th' = [th EXCEPT !.writer = "failed"]
  /\ UNCHANGED <<host, out, size, pc>>

CountFailed ==
  /\ th.writer = "failed"
  /\ inp' = [inp EXCEPT !.pending = @ - 1]
  /\ th' = [th EXCEPT !.writer = "discard"]
  /\ UNCHANGED <<host, out, size, flag, pc>>

DiscardQueued ==
  /\ th.writer = "discard"
  /\ inp' = [inp EXCEPT !.queue = 0, !.discarded = inp.queue]
  /\ th' = [th EXCEPT !.writer = "subtract"]
  /\ UNCHANGED <<host, out, size, flag, pc>>

CountDiscarded ==
  /\ th.writer = "subtract"
  /\ inp' = [inp EXCEPT !.pending = IF @ > inp.discarded THEN @ - inp.discarded ELSE 0,
                        !.discarded = 0]
  /\ th' = [th EXCEPT !.writer = "close"]
  /\ UNCHANGED <<host, out, size, flag, pc>>

CloseInputHandle ==
  /\ th.writer = "close" /\ LockFree
  /\ th' = [th EXCEPT !.writer = "ended"]
  /\ UNCHANGED <<host, out, inp, size, flag, pc>>

-----------------------------------------------------------------------------
(* _resize_main: it takes the newest size until there is none, then waits  *)
(* for the event it cleared before it looked.                              *)

Wakes ==
  /\ th.resizer = "wait" /\ ~flag.resize /\ size.event
  /\ size' = [size EXCEPT !.event = FALSE]
  /\ th' = [th EXCEPT !.resizer = "take"]
  /\ UNCHANGED <<host, out, inp, flag, pc>>

TakesSize ==
  /\ th.resizer = "take" /\ ~flag.resize
  /\ size' = [size EXCEPT !.asked = 0]
  /\ th' = [th EXCEPT !.resizer = IF size.asked = 0 THEN "wait" ELSE "lock",
                      !.resize = size.asked]
  /\ UNCHANGED <<host, out, inp, flag, pc>>

Calls ==
  /\ th.resizer = "lock" /\ LockFree
  /\ \E call \in {"call", "hung"} :
       th' = [th EXCEPT !.resizer = IF flag.closed \/ flag.resize \/ host.console # "open"
                                      THEN "ended" ELSE call]
  /\ UNCHANGED <<host, out, inp, size, flag, pc>>

(* A failure is a diagnostic and no error of the pipes. *)
ResizeReturns ==
  /\ th.resizer = "call"
  /\ size' = [size EXCEPT !.tried = th.resize]
  /\ th' = [th EXCEPT !.resizer = "take"]
  /\ UNCHANGED <<host, out, inp, flag, pc>>

ResizerEnds ==
  /\ th.resizer \in {"wait", "take"} /\ flag.resize
  /\ th' = [th EXCEPT !.resizer = "ended"]
  /\ UNCHANGED <<host, out, inp, size, flag, pc>>

-----------------------------------------------------------------------------
(* _close_pseudo_console_main                                              *)

OutputIsQuiet ==
  /\ th.closer = "quiet"
  /\ th' = [th EXCEPT !.closer = "call"]
  /\ UNCHANGED <<host, out, inp, size, flag, pc>>

(* ClosePseudoConsole waits until the last frame is out. *)
ConsoleCloses ==
  /\ th.closer = "call" /\ host.screen = 0
  /\ host' = [host EXCEPT !.console = "closed"]
  /\ th' = [th EXCEPT !.closer = "ended"]
  /\ UNCHANGED <<out, inp, size, flag, pc>>

-----------------------------------------------------------------------------
(* The methods of the caller.                                              *)

Goto(place) == pc' = place

WriteChecks ==
  /\ pc = "idle" /\ Works(2)
  /\ ~flag.closed /\ ~flag.closing /\ ~flag.input
  /\ ~inp.error /\ host.child = "running"
  /\ inp' = [inp EXCEPT !.writes = @ + 1]
  /\ Goto("count")
  /\ UNCHANGED <<host, out, size, th, flag>>

WriteCounts ==
  /\ pc = "count"
  /\ inp' = [inp EXCEPT !.pending = @ + 1]
  /\ Goto("put")
  /\ UNCHANGED <<host, out, size, th, flag>>

(* Mutant: a refused payload stays counted. *)
WritePutsOnly ==
  /\ pc = "put"
  /\ inp' = IF inp.queue < QueueCap THEN [inp EXCEPT !.queue = @ + 1] ELSE inp
  /\ Goto("idle")
  /\ UNCHANGED <<host, out, size, th, flag>>

WritePuts ==
  /\ pc = "put"
  /\ inp' = IF inp.queue < QueueCap THEN [inp EXCEPT !.queue = @ + 1]
                                    ELSE [inp EXCEPT !.pending = @ - 1]
  /\ Goto("idle")
  /\ UNCHANGED <<host, out, size, th, flag>>

CloseInput ==
  /\ pc = "idle" /\ ~flag.input /\ ~flag.closed
  /\ flag' = [flag EXCEPT !.input = TRUE]
  /\ UNCHANGED <<host, out, inp, size, th, pc>>

Read ==
  /\ pc = "idle"
  /\ \/ /\ out.queue > 0
        /\ out' = [out EXCEPT !.queue = @ - 1, !.got = @ + 1]
     \/ /\ out.queue = 0 /\ out.marker
        /\ out' = [out EXCEPT !.marker = FALSE, !.eof = TRUE]
  /\ UNCHANGED <<host, inp, size, th, flag, pc>>

Resize ==
  /\ pc = "idle" /\ LockFree /\ Works(2)
  /\ ~flag.closed /\ ~flag.resize /\ host.console = "open"
  /\ size' = [size EXCEPT !.asked = size.calls + 1, !.calls = @ + 1]
  /\ Goto("event")
  /\ UNCHANGED <<host, out, inp, th, flag>>

SetResizeEvent ==
  /\ pc = "event"
  /\ size' = [size EXCEPT !.event = TRUE]
  /\ Goto("idle")
  /\ UNCHANGED <<host, out, inp, th, flag>>

(* terminate() and kill(); the child may survive both. *)
Terminate ==
  /\ pc = "idle" /\ LockFree /\ ~flag.closed /\ host.child = "running"
  /\ host' = [host EXCEPT !.child = "exited"]
  /\ UNCHANGED <<out, inp, size, th, flag, pc>>

(* The console is handed to a closer, once. *)
HandOver ==
  /\ LockFree
  /\ host' = [host EXCEPT !.console = IF @ = "open" THEN "handed" ELSE @]
  /\ th' = [th EXCEPT !.closer = IF host.console = "open" THEN "quiet" ELSE @]

BeginOutputShutdown ==
  /\ pc = "idle" /\ ~flag.closed /\ host.child = "exited" /\ host.console = "open"
  /\ HandOver
  /\ UNCHANGED <<out, inp, size, flag, pc>>

-----------------------------------------------------------------------------
(* close()                                                                 *)

Close ==
  /\ pc = "idle" /\ LockFree /\ ~flag.closed
  /\ Goto("terminate")
  /\ flag' = [flag EXCEPT !.resize = TRUE]
  /\ size' = [size EXCEPT !.event = TRUE]
  /\ UNCHANGED <<host, out, inp, th>>

CloseTerminates ==
  /\ pc = "terminate"
  /\ \/ host' = host
     \/ LockFree /\ host' = [host EXCEPT !.child = "exited"]
  /\ Goto("shutdown")
  /\ UNCHANGED <<out, inp, size, th, flag>>

(* Mutant: the reader is joined without a timeout. *)
CloseJoinsReader ==
  /\ pc = "shutdown" /\ th.reader = "ended"
  /\ HandOver
  /\ Goto("flags")
  /\ UNCHANGED <<out, inp, size, flag>>

(* flush() was done, failed or ran out of time. *)
CloseShutsDown ==
  /\ pc = "shutdown"
  /\ HandOver
  /\ Goto("flags")
  /\ UNCHANGED <<out, inp, size, flag>>

(* The joins of reader, closer and resizer are over, or their time is. *)
CloseSetsFlags ==
  /\ pc = "flags"
  /\ flag' = [flag EXCEPT !.input = TRUE, !.closing = TRUE]
  /\ Goto("pipes")
  /\ UNCHANGED <<host, out, inp, size, th>>

(* The escape of a console that cannot render its last frame. *)
ClosePipes ==
  /\ pc = "pipes" /\ LockFree
  /\ host' = [host EXCEPT !.outputOpen = FALSE, !.pipe = 0]
  /\ Goto("closed")
  /\ UNCHANGED <<out, inp, size, th, flag>>

CloseDone ==
  /\ pc = "closed" /\ LockFree
  /\ flag' = [flag EXCEPT !.closed = TRUE]
  /\ out' = [out EXCEPT !.eof = TRUE, !.cut = (@ \/ ~out.eof)]
  /\ Goto("idle")
  /\ UNCHANGED <<host, inp, size, th>>

-----------------------------------------------------------------------------

Host == ChildMakes \/ ChildExits \/ ConsoleRenders
Reader == \/ ReadFile \/ ReadEnds \/ ReadFails \/ PutChunk \/ ReaderGivesUp
          \/ SetEof \/ PutMarker
Writer == \/ GetInput \/ FindsNoInput \/ LooksAtInput \/ NoMoreInput
          \/ WriteFile \/ WriteFails \/ CountFailed \/ DiscardQueued
          \/ CountDiscarded \/ CloseInputHandle
Resizer == Wakes \/ TakesSize \/ Calls \/ ResizeReturns \/ ResizerEnds
Closer == OutputIsQuiet \/ ConsoleCloses
Method == WriteChecks \/ CloseInput \/ Read \/ Resize \/ Terminate \/ BeginOutputShutdown \/ Close
GoOn == \/ WriteCounts \/ WritePuts \/ SetResizeEvent
        \/ CloseTerminates \/ CloseShutsDown \/ CloseSetsFlags \/ ClosePipes \/ CloseDone

Next == Host \/ Reader \/ Writer \/ Resizer \/ Closer \/ Method \/ GoOn

(* The reader goes on unless ReadFile has nothing to return. *)
ReaderGoesOn == \/ ReadFile \/ ReadEnds \/ PutChunk \/ SetEof \/ PutMarker
                \/ th.reader = "put" /\ ReaderGivesUp
                \/ ~host.outputOpen /\ ReadFails

(* The threads go on, and the console renders while its output is read.    *)
(* Nothing is assumed of the child, of the methods the caller calls, and of*)
(* WriteFile, which waits for the child to read.                           *)
Fairness == /\ WF_vars(ConsoleRenders) /\ WF_vars(Closer) /\ WF_vars(GoOn)
            /\ WF_vars(ReaderGoesOn)
            /\ WF_vars(Resizer)

Spec == Init /\ [][Next]_vars

FairSpec == Spec /\ Fairness

-----------------------------------------------------------------------------
(* Properties.                                                             *)

(* The fields hold what their assignments say. *)
TypeOK ==
  /\ host \in [child : {"running", "exited"}, console : {"open", "handed", "closed"},
               made : 0 .. MaxWork, screen : 0 .. MaxWork, pipe : 0 .. PipeCap,
               outputOpen : BOOLEAN]
  /\ out \in [queue : 0 .. QueueCap, marker : BOOLEAN, eof : BOOLEAN, got : 0 .. MaxWork,
              cut : BOOLEAN]
  /\ inp \in [queue : 0 .. QueueCap, pending : Nat, discarded : Nat, error : BOOLEAN,
              writes : 0 .. MaxWork]
  /\ size \in [asked : 0 .. MaxWork, calls : 0 .. MaxWork, event : BOOLEAN,
               tried : 0 .. MaxWork]
  /\ th \in [reader : {"read", "put", "eof", "mark", "ended"},
             writer : {"get", "empty", "write", "failed", "discard", "subtract", "close",
                       "ended"},
             resizer : {"wait", "take", "lock", "call", "hung", "ended"}, resize : 0 .. MaxWork,
             closer : {"none", "quiet", "call", "ended"}]
  /\ flag \in [closing : BOOLEAN, resize : BOOLEAN, input : BOOLEAN, closed : BOOLEAN]
  /\ pc \in {"idle", "count", "put", "event", "terminate", "shutdown", "flags", "pipes",
             "closed"}

(* flush() returns when the count is zero: it counts what is queued, what  *)
(* is being written and what a caller is about to queue, to the unit,      *)
(* whoever fails or discards in between.                                   *)
PendingCounts ==
  inp.pending = inp.queue + inp.discarded
                + (IF th.writer \in {"write", "failed"} THEN 1 ELSE 0)
                + (IF pc = "put" THEN 1 ELSE 0)

(* A count that no writer will lower any more is one of a session that has *)
(* an error, which flush() raises, or that its caller is closing: also when*)
(* write() queues behind a writer that has failed and discarded its queue. *)
StuckIsTold ==
  inp.pending > 0 /\ th.writer \in {"close", "ended"} => inp.error \/ flag.closing

(* The console is never resized once it was handed to the thread that      *)
(* closes it, nor after close() has returned.                              *)
ResizedWhileOpen == th.resizer \in {"call", "hung"} => host.console = "open" /\ ~flag.closed

(* What the threads of a session know of its queues and handles is true.   *)
SessionConsistent == TypeOK /\ PendingCounts /\ StuckIsTold /\ ResizedWhileOpen

(* What the owner reads up to the end of the output is all of it. *)
Stream == INSTANCE OutputStream WITH
            MaxOutput <- MaxWork, made <- host.made, got <- out.got,
            end <- IF out.eof /\ out.cut THEN "cut"
                   ELSE IF out.eof /\ out.queue = 0 THEN "complete" ELSE "open"

AbstractSpec == Stream!Spec

Hung == th.resizer = "hung"

(* close() ends, whatever the child, its output and its input do, unless   *)
(* ResizePseudoConsole keeps the lock for ever.                            *)
CloseEnds == pc = "terminate" ~> flag.closed \/ Hung

(* And so do the reader and, with it, the console, though nobody takes     *)
(* output from a full queue any more: what close() cuts off is the pipe.   *)
ConsoleEnds == pc = "terminate" ~> (host.console = "closed" /\ th.reader = "ended") \/ Hung

(* Closing a session leaves nothing running behind it.                     *)
CloseCompletes == CloseEnds /\ ConsoleEnds

(* A new size reaches the console, or one that is newer still: the wake-up *)
(* is not lost between the resizer's last look and its wait.               *)
SizeReaches ==
  \A n \in 1 .. MaxWork \div 2 :
    size.asked = n ~> size.tried >= n \/ host.console # "open" \/ flag.resize \/ Hung

(* What the caller asked of a session is done: a size is tried, and a      *)
(* close leaves nothing running.                                           *)
SessionSettles == CloseCompletes /\ SizeReaches
=============================================================================
