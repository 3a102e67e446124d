------------------------ MODULE ServerLifecycleProofs ------------------------
(***************************************************************************)
(* Proofs about ServerLifecycle, for any commands, process numbers and     *)
(* number of processes: the record is true of the server it names, no      *)
(* server is forgotten but in the two ways the code admits, and the        *)
(* commands implement ManagedServer.                                       *)
(***************************************************************************)
EXTENDS ServerLifecycle, TLAPS

Outside == {"idle", "lock", "exit"}
Inspecting == {"check", "open", "poll", "match", "signal", "wait"}
Replacing == {"write", "prepare", "launch"}
Undoing == {"terminate", "grace", "killed"}
Launched == {"register", "save"} \cup Undoing

LockInv == \A c \in Command : cmd[c].at \notin Outside <=> lock = c

(* No two commands have the same child.                                    *)
OwnInv ==
  \A c, d \in Command : cmd[c].child = cmd[d].child => c = d \/ cmd[c].child = NoInst

(* Numbers belong to one process each; what has not been made or has been  *)
(* reaped has none.                                                        *)
ProcessInv ==
  \A i \in Inst :
    /\ i > made => proc[i] = NoProcess
    /\ proc[i].pid = NoPid \/ proc[i].life = "none" \/ proc[i].kind = "none" => proc[i] = NoProcess
    /\ \A j \in Inst : proc[i].pid = proc[j].pid => i = j \/ proc[i].pid = NoPid

(* The recorded process has the recorded number until it is reaped.        *)
RecordInv ==
  record.state = "started" =>
    /\ record.inst <= made /\ record.pid # NoPid
    /\ proc[record.inst].kind # "foreign"
    /\ proc[record.inst] # NoProcess => proc[record.inst].pid = record.pid

SignalInv == \A i \in signalled : Server(i)

(* A child is a server launched with the cookie in the file.               *)
ChildOK(c) ==
  /\ cmd[c].child <= made
  /\ cmd[c].at \in {"idle", "lock", "load"} \cup Inspecting \cup Replacing => cmd[c].child = NoInst
  /\ cmd[c].at \in Launched => cmd[c].child # NoInst /\ (service = "x11" => cookie = cmd[c].child)
  /\ cmd[c].child # NoInst => proc[cmd[c].child].kind # "foreign"
  /\ cmd[c].at = "save" => proc[cmd[c].child] # NoProcess
  /\ cmd[c].at = "done" => cmd[c].child = NoInst \/ Recorded(cmd[c].child)

(* The handle is of the recorded process, if that one is still there, and  *)
(* once the identities were compared it is in any case.                    *)
HandleOK(c) ==
  /\ cmd[c].at \in Inspecting => record.state = "started"
  /\ cmd[c].at \in {"poll", "match"} =>
       cmd[c].handle # NoInst /\ (proc[record.inst] # NoProcess => cmd[c].handle = record.inst)
  /\ cmd[c].at \in {"signal", "wait"} => cmd[c].handle = record.inst

(* From the decision to replace the recorded server on it is dead, unless  *)
(* a save that failed has recorded the child.                              *)
DeadOK(c) ==
  cmd[c].at \in Replacing \cup Launched /\ record.state = "started" =>
    \/ ~Running(record.inst)
    \/ cmd[c].at \in Undoing /\ record.inst = cmd[c].child

CommandOK(c) == ChildOK(c) /\ HandleOK(c) /\ DeadOK(c)

WorldInv == ProcessInv /\ RecordInv /\ SignalInv /\ CookieFits

ServerInv == TypeOK /\ LockInv /\ OwnInv /\ WorldInv /\ \A c \in Command : CommandOK(c)
-----------------------------------------------------------------------------
CommandType == [op : {"none", "start", "stop"}, at : Places,
                child : Inst \cup {NoInst}, handle : Inst \cup {NoInst}]
ProcessType == [pid : Pid \cup {NoPid}, kind : {"none", "server", "foreign"},
                life : {"none", "running", "zombie"}]

(* Only c does something, and the lock is where it should be.              *)
Moved(c) ==
  /\ cmd' \in [Command -> CommandType] /\ lock' \in Command \cup {NoCommand}
  /\ \A d \in Command \ {c} : cmd'[d] = cmd[d]
  /\ LockInv' /\ OwnInv'

LEMMA Types ==
  ASSUME ServerInv
  PROVE  /\ cmd \in [Command -> CommandType] /\ proc \in [Inst -> ProcessType]
         /\ made \in Nat /\ MaxInst \in Nat /\ NoInst \notin Inst /\ Inst \subseteq Nat
         /\ NoProcess \in ProcessType /\ NoCommand \notin Command /\ NoPid \notin Pid
BY LifecycleAssumption DEF ServerInv, TypeOK, CommandType, ProcessType, NoProcess, Inst, NoInst

(* The command inside the lock is the only one at work.                    *)
LEMMA Alone ==
  ASSUME ServerInv, NEW c \in Command, cmd[c].at \notin Outside
  PROVE  lock = c /\ \A d \in Command \ {c} : cmd[d].at \in Outside
BY DEF ServerInv, LockInv

LEMMA GotoFacts ==
  ASSUME ServerInv, NEW c \in Command, cmd[c].at \notin Outside,
         NEW place \in Places \ Outside, Goto(c, place), lock' = lock
  PROVE  /\ Moved(c) /\ cmd'[c].at = place
         /\ cmd'[c].child = cmd[c].child /\ cmd'[c].handle = cmd[c].handle
<1>1. cmd'[c] = [cmd[c] EXCEPT !.at = place] /\ \A d \in Command \ {c} : cmd'[d] = cmd[d]
  BY Types DEF Goto
<1>2. cmd' \in [Command -> CommandType]
  BY Types DEF Goto, CommandType
<1>3. /\ cmd'[c].at = place
      /\ cmd'[c].child = cmd[c].child /\ cmd'[c].handle = cmd[c].handle
  BY <1>1, Types DEF CommandType
<1>4. LockInv'
  BY <1>1, <1>3 DEF ServerInv, LockInv
<1>5. \A d \in Command : cmd'[d].child = cmd[d].child
  BY <1>1, <1>3
<1>6. OwnInv'
  BY <1>5 DEF ServerInv, OwnInv
<1> QED BY <1>1, <1>2, <1>4, <1>3, <1>6 DEF Moved, ServerInv, TypeOK

LEMMA GoOnFacts ==
  ASSUME ServerInv, NEW c \in Command, cmd[c].at \notin Outside, GoOn(c), lock' = lock
  PROVE  /\ Moved(c) /\ cmd'[c].at \in Replacing
         /\ cmd'[c].child = cmd[c].child
<1> DEFINE place == IF cmd[c].op = "start" THEN FirstOfLaunch ELSE "write"
<1>1. place \in Replacing /\ place \in Places \ Outside
  BY DEF FirstOfLaunch, Replacing, Places, Outside
<1>2. cmd' = [cmd EXCEPT ![c] = [cmd[c] EXCEPT !.at = place, !.handle = NoInst]]
  BY Types DEF GoOn
<1> HIDE DEF place
<1>3. [cmd[c] EXCEPT !.at = place, !.handle = NoInst] \in CommandType
  BY <1>1, Types DEF CommandType
<1>4. /\ cmd'[c].at = place /\ cmd'[c].child = cmd[c].child
      /\ \A d \in Command \ {c} : cmd'[d] = cmd[d]
  BY <1>2, Types DEF CommandType
<1> QED BY <1>1, <1>2, <1>3, <1>4, Types DEF Moved, ServerInv, TypeOK, LockInv, OwnInv

LEMMA LeaveFacts ==
  ASSUME ServerInv, NEW c \in Command, cmd[c].at \notin Outside, Leave(c)
  PROVE  /\ Moved(c) /\ cmd'[c].at = "exit" /\ cmd'[c].child = cmd[c].child
<1> DEFINE left == [NotRun EXCEPT !.at = "exit", !.child = cmd[c].child]
<1>1. left \in CommandType /\ left.at = "exit" /\ left.child = cmd[c].child
  BY Types DEF NotRun, CommandType, Places, NoInst
<1>2. cmd' = [cmd EXCEPT ![c] = left] /\ lock' = NoCommand
  BY DEF Leave
<1> HIDE DEF left
<1>3. cmd'[c] = left /\ \A d \in Command \ {c} : cmd'[d] = cmd[d] /\ cmd[d].at \in Outside
  BY <1>2, Types, Alone
<1> QED BY <1>1, <1>2, <1>3, Types DEF Moved, ServerInv, LockInv, OwnInv, Outside

(* A step that only moves a command.                                       *)
LEMMA MoveStep ==
  ASSUME ServerInv, NEW c \in Command, Moved(c), CommandOK(c)',
         UNCHANGED <<service, proc, made, record, cookie, signalled>>
  PROVE  ServerInv'
<1>1. TypeOK'
  BY DEF ServerInv, TypeOK, Moved, CommandType
<1>2. WorldInv'
  BY DEF ServerInv, WorldInv, ProcessInv, RecordInv, SignalInv, CookieFits, Server, Running, Recorded
<1>3. \A d \in Command \ {c} : CommandOK(d)'
  BY DEF ServerInv, Moved, CommandOK, ChildOK, HandleOK, DeadOK, Running, Recorded
<1> QED BY <1>1, <1>2, <1>3 DEF ServerInv, Moved

LEMMA LeaveStep ==
  ASSUME ServerInv, NEW c \in Command, cmd[c].at \notin Outside, Leave(c),
         UNCHANGED <<service, proc, made, record, cookie, signalled>>
  PROVE  ServerInv'
<1>1. CommandOK(c)'
  BY LeaveFacts DEF ServerInv, CommandOK, ChildOK, HandleOK, DeadOK, Outside, Inspecting, Replacing, Undoing, Launched
<1> QED BY <1>1, LeaveFacts, MoveStep

LEMMA GoOnStep ==
  ASSUME ServerInv, NEW c \in Command, cmd[c].at \in {"load"} \cup Inspecting, GoOn(c), lock' = lock,
         record.state = "started" => ~Running(record.inst),
         UNCHANGED <<service, proc, made, record, cookie, signalled>>
  PROVE  ServerInv'
<1>1. cmd[c].at \notin Outside
  BY DEF Outside, Inspecting
<1>2. CommandOK(c)'
  BY <1>1, GoOnFacts DEF ServerInv, CommandOK, ChildOK, HandleOK, DeadOK, Outside, Inspecting, Replacing, Undoing, Launched, Running
<1> QED BY <1>1, <1>2, GoOnFacts, MoveStep

(* Processes are gone, and what they were sent is forgotten.               *)
LEMMA GoneFacts ==
  ASSUME ServerInv, NEW S, proc' = Without(S), signalled' \subseteq signalled \ S,
         UNCHANGED <<service, made, record, cookie>>
  PROVE  WorldInv' /\ proc' \in [Inst -> ProcessType] /\ signalled' \subseteq Inst
<1>1. /\ proc' \in [Inst -> ProcessType]
      /\ \A i \in Inst : proc'[i] = IF i \in S THEN NoProcess ELSE proc[i]
  BY Types DEF Without
<1>2. NoProcess.pid = NoPid /\ NoProcess.life = "none" /\ NoProcess.kind = "none"
  BY DEF NoProcess
<1>3. ProcessInv'
  BY <1>1, <1>2 DEF ServerInv, WorldInv, ProcessInv
<1>4. RecordInv'
  BY <1>1, <1>2 DEF ServerInv, TypeOK, WorldInv, RecordInv, NoInst
<1>5. signalled' \subseteq Inst /\ SignalInv'
  BY <1>1, <1>2 DEF ServerInv, TypeOK, WorldInv, SignalInv, Server, Running
<1>6. CookieFits'
  BY <1>1, <1>2 DEF ServerInv, WorldInv, CookieFits, Server, Running, Recorded
<1> QED BY <1>1, <1>3, <1>4, <1>5, <1>6 DEF WorldInv

LEMMA ReapFacts ==
  ASSUME ServerInv, NEW c \in Command, proc' \in {proc, Reaped(c)}, UNCHANGED signalled
  PROVE  \E S \in SUBSET Inst : /\ proc' = Without(S) /\ signalled' \subseteq signalled \ S
                                /\ \A i \in S : i = cmd[c].child /\ ~Running(i)
<1>1. CASE proc' = proc
  <2>1. proc' = Without({})
    BY <1>1, Types DEF Without
  <2> QED BY <2>1
<1>2. CASE proc' = Reaped(c)
  BY <1>2 DEF Reaped, ServerInv, WorldInv, SignalInv, Server
<1> QED BY <1>1, <1>2

(* The command reaps its child, or leaves it to others.                    *)
LEMMA ReapStep ==
  ASSUME ServerInv, NEW c \in Command, Moved(c), proc' \in {proc, Reaped(c)},
         UNCHANGED <<service, made, record, cookie, signalled>>,
         \/ cmd'[c].at = "exit" /\ cmd'[c].child = cmd[c].child
         \/ cmd'[c].at = "idle" /\ cmd'[c].child = NoInst
         \/ cmd[c].at = "register" /\ cmd'[c].at = "terminate" /\ cmd'[c].child = cmd[c].child,
         cmd[c].at \in Outside => lock' = lock
  PROVE  ServerInv'
<1>1. PICK S \in SUBSET Inst : /\ proc' = Without(S) /\ signalled' \subseteq signalled \ S
                               /\ \A i \in S : i = cmd[c].child /\ ~Running(i)
  BY ReapFacts
<1>2. WorldInv' /\ proc' \in [Inst -> ProcessType] /\ signalled' \subseteq Inst
  BY <1>1, GoneFacts
<1>3. TypeOK'
  BY <1>2 DEF ServerInv, TypeOK, Moved, CommandType, ProcessType
<1>4. \A i \in Inst : \/ proc'[i] = proc[i]
                      \/ i = cmd[c].child /\ proc'[i] = NoProcess /\ proc'[i].life # "running"
  <2>1. \A i \in Inst : proc'[i] = IF i \in S THEN NoProcess ELSE proc[i]
    BY <1>1 DEF Without
  <2>2. NoProcess.life # "running"
    BY DEF NoProcess
  <2>3. \A i \in S : i = cmd[c].child
    BY <1>1
  <2> QED BY <2>1, <2>2, <2>3
<1>5. NoProcess.kind = "none"
  BY DEF NoProcess
<1>6. record.state = "started" => record.inst \in Inst
  BY DEF ServerInv, TypeOK
<1>7. \A d \in Command : cmd[d].child # NoInst => cmd[d].child \in Inst
  BY Types DEF CommandType
<1>9. cmd[c].at \notin Outside => \A d \in Command \ {c} : cmd[d].at \in Outside
  BY Alone
<1>8. cmd'[c].child = cmd[c].child \/ cmd'[c].child = NoInst
  OBVIOUS
<1>10. CommandOK(c)'
  <2> USE DEF Outside, Inspecting, Replacing, Undoing, Launched
  <2>1. cmd[c].child <= made /\ (cmd[c].child # NoInst => proc[cmd[c].child].kind # "foreign")
    BY DEF ServerInv, CommandOK, ChildOK
  <2>2. cmd'[c].child <= made' /\ (cmd'[c].child # NoInst => proc'[cmd'[c].child].kind # "foreign")
    BY <1>4, <1>5, <1>7, <1>8, <2>1, Types DEF NoInst
  <2>3. CASE cmd'[c].at = "exit" \/ cmd'[c].at = "idle"
    BY <2>2, <2>3 DEF CommandOK, ChildOK, HandleOK, DeadOK
  <2>4. CASE cmd[c].at = "register" /\ cmd'[c].at = "terminate" /\ cmd'[c].child = cmd[c].child
    <3>1. record.state = "started" => ~Running(record.inst)'
      BY <1>4, <1>6, <2>4 DEF ServerInv, CommandOK, DeadOK, Running
    <3> QED BY <2>2, <2>4, <3>1 DEF ServerInv, CommandOK, ChildOK, HandleOK, DeadOK
  <2> QED BY <2>3, <2>4
<1>11. ASSUME NEW d \in Command \ {c} PROVE CommandOK(d)'
  <2>1. cmd'[d] = cmd[d] /\ CommandOK(d)
    BY DEF Moved, ServerInv
  <2>2. cmd[d].at = "save" => proc'[cmd[d].child] # NoProcess
    <3> SUFFICES ASSUME cmd[d].at = "save" PROVE proc'[cmd[d].child] = proc[cmd[d].child]
      BY <2>1 DEF CommandOK, ChildOK
    <3>1. cmd[c].at \in Outside /\ lock = d
      BY <1>9, Alone DEF Outside
    <3>2. cmd[d].child <= made /\ cmd[d].child \in Inst
      BY <2>1, <1>7 DEF CommandOK, ChildOK, Launched
    <3>3. cmd[c].child # cmd[d].child
      BY <3>2, Types DEF ServerInv, OwnInv
    <3> QED BY <1>4, <3>2, <3>3
  <2>3. ChildOK(d)'
    BY <1>4, <1>5, <1>7, <2>1, <2>2 DEF CommandOK, ChildOK, Recorded
  <2>4. HandleOK(d)' /\ DeadOK(d)'
    BY <1>4, <1>6, <2>1 DEF CommandOK, HandleOK, DeadOK, Running, Inspecting
  <2> QED BY <2>3, <2>4 DEF CommandOK
<1> QED BY <1>2, <1>3, <1>10, <1>11 DEF ServerInv, Moved

(* A step of the command in the lock that leaves the processes alone.      *)
LEMMA RecordStep ==
  ASSUME ServerInv, NEW c \in Command, cmd[c].at \notin Outside, Moved(c), CommandOK(c)',
         UNCHANGED <<service, proc, made>>, WorldInv', TypeOK'
  PROVE  ServerInv'
<1>1. ASSUME NEW d \in Command \ {c} PROVE CommandOK(d)'
  <2>1. cmd'[d] = cmd[d] /\ CommandOK(d) /\ cmd[d].at \in Outside
    BY Alone DEF Moved, ServerInv
  <2> QED BY <2>1 DEF CommandOK, ChildOK, HandleOK, DeadOK, Outside, Inspecting, Replacing, Undoing, Launched
<1> QED BY <1>1 DEF ServerInv, Moved

(* What the status and the occupants of the recorded number tell.          *)
LEMMA StatusFacts ==
  ASSUME ServerInv, record.state = "started"
  PROVE  /\ record.inst \in Inst /\ record.inst # NoInst
         /\ Occupant(record.pid) = {} => ~Running(record.inst)
         /\ \A j \in Occupant(record.pid) : proc[record.inst] # NoProcess => j = record.inst
         /\ Status = "exited" => ~Running(record.inst)
         /\ Status = "running" => proc[record.inst] # NoProcess
<1>1. record.inst \in Inst /\ record.inst # NoInst
  BY DEF ServerInv, TypeOK
<1>2. NoProcess.pid = NoPid /\ NoProcess.life = "none"
  BY DEF NoProcess
<1>3. proc[record.inst] # NoProcess => proc[record.inst].pid = record.pid /\ record.pid # NoPid
  BY DEF ServerInv, WorldInv, RecordInv
<1>4. Running(record.inst) => record.inst \in Occupant(record.pid)
  BY <1>1, <1>2, <1>3 DEF Running, Occupant
<1>5. \A j \in Occupant(record.pid) : proc[record.inst] # NoProcess => j = record.inst
  BY <1>1, <1>3 DEF ServerInv, WorldInv, ProcessInv, Occupant
<1>6. Status = "exited" => ~Running(record.inst)
  BY <1>4 DEF Status
<1>7. Status = "running" => proc[record.inst] # NoProcess
  BY <1>2 DEF Status, Running
<1> QED BY <1>1, <1>4, <1>5, <1>6, <1>7

(* A process is born: it has a new instance and a free number.             *)
LEMMA BirthFacts ==
  ASSUME ServerInv, NEW kind \in {"server", "foreign"}, Birth(kind)
  PROVE  /\ made' = made + 1 /\ made + 1 \in Inst
         /\ proc' \in [Inst -> ProcessType]
         /\ proc'[made + 1].kind = kind /\ proc'[made + 1] # NoProcess
         /\ \A i \in Inst \ {made + 1} : proc'[i] = proc[i]
         /\ proc[made + 1] = NoProcess
         /\ ProcessInv'
<1>1. made' = made + 1 /\ made + 1 \in Inst /\ made \in Nat
  BY Types DEF Birth, Inst
<1>2. PICK p \in Pid : /\ Occupant(p) = {}
                       /\ proc' = [proc EXCEPT ![made + 1] = [pid |-> p, kind |-> kind, life |-> "running"]]
  BY DEF Birth
<1> DEFINE born == [pid |-> p, kind |-> kind, life |-> "running"]
<1>3. born \in ProcessType /\ born.pid = p /\ born.kind = kind /\ born.life = "running" /\ p # NoPid
  BY Types DEF ProcessType
<1>4. born # NoProcess
  BY <1>3, Types DEF NoProcess
<1>5. proc' = [proc EXCEPT ![made + 1] = born]
  BY <1>2
<1> HIDE DEF born
<1>6. /\ proc' \in [Inst -> ProcessType] /\ proc'[made + 1] = born
      /\ \A i \in Inst \ {made + 1} : proc'[i] = proc[i]
  BY <1>1, <1>3, <1>5, Types
<1>7. \A i \in Inst : proc[i].pid # p
  BY <1>2 DEF Occupant
<1>8. proc[made + 1] = NoProcess
  BY <1>1 DEF ServerInv, WorldInv, ProcessInv
<1>9. ProcessInv'
  <2> SUFFICES ASSUME NEW i \in Inst
               PROVE  (/\ i > made => proc[i] = NoProcess
                       /\ proc[i].pid = NoPid \/ proc[i].life = "none" \/ proc[i].kind = "none"
                            => proc[i] = NoProcess
                       /\ \A j \in Inst : proc[i].pid = proc[j].pid => i = j \/ proc[i].pid = NoPid)'
    BY DEF ProcessInv
  <2>1. CASE i = made + 1
    BY <1>1, <1>3, <1>6, <1>7, <2>1, Types
  <2>2. CASE i # made + 1
    BY <1>1, <1>3, <1>6, <1>7, <2>2, Types DEF ServerInv, WorldInv, ProcessInv
  <2> QED BY <2>1, <2>2
<1> QED BY <1>1, <1>3, <1>4, <1>6, <1>8, <1>9
-----------------------------------------------------------------------------
(* The steps of a command                                                  *)

LEMMA BeginStep == ASSUME ServerInv, NEW c \in Command, Begin(c) \/ Busy(c) PROVE ServerInv'
<1>1. PICK op \in {"none", "start", "stop"}, place \in {"lock", "exit"} :
        cmd' = [cmd EXCEPT ![c] = [NotRun EXCEPT !.op = op, !.at = place]]
  <2>1. NotRun = [NotRun EXCEPT !.op = "none"]
    BY DEF NotRun
  <2> QED BY <2>1 DEF Begin, Busy, NotRun
<1> DEFINE new == [NotRun EXCEPT !.op = op, !.at = place]
<1>2. new \in CommandType /\ new.at = place /\ new.child = NoInst
  BY Types DEF NotRun, CommandType, Places, NoInst
<1> HIDE DEF new
<1>3. /\ cmd' \in [Command -> CommandType] /\ cmd'[c] = new
      /\ \A d \in Command \ {c} : cmd'[d] = cmd[d]
  BY <1>1, <1>2, Types DEF new
<1>4. cmd[c].at \in Outside /\ cmd'[c].at \in Outside /\ lock' = lock
  BY <1>2, <1>3 DEF Begin, Busy, Outside
<1>5. LockInv' /\ OwnInv'
  BY <1>2, <1>3, <1>4 DEF ServerInv, LockInv, OwnInv
<1>6. Moved(c)
  BY <1>3, <1>4, <1>5 DEF Moved, ServerInv, TypeOK
<1>7. CommandOK(c)'
  BY <1>2, <1>3, Types DEF CommandOK, ChildOK, HandleOK, DeadOK, Inspecting, Replacing, Undoing, Launched, NoInst, Begin, Busy
<1> QED BY <1>6, <1>7, MoveStep DEF Begin, Busy

LEMMA AcquireStep == ASSUME ServerInv, NEW c \in Command, Acquire(c) PROVE ServerInv'
<1> USE DEF Acquire
<1>1. cmd'[c] = [cmd[c] EXCEPT !.at = "load"] /\ \A d \in Command \ {c} : cmd'[d] = cmd[d]
  BY Types DEF Goto
<1>2. cmd' \in [Command -> CommandType]
  BY Types DEF Goto, CommandType, Places
<1>3. cmd'[c].at = "load" /\ cmd'[c].child = cmd[c].child
  BY <1>1, Types DEF CommandType
<1>4. \A d \in Command : cmd[d].at \in Outside /\ cmd'[d].child = cmd[d].child
  BY <1>1, <1>3, Types DEF ServerInv, LockInv
<1>5. LockInv'
  BY <1>1, <1>3, <1>4 DEF LockInv, Outside
<1>6. OwnInv'
  BY <1>4 DEF ServerInv, OwnInv
<1>7. CommandOK(c)'
  BY <1>3 DEF ServerInv, CommandOK, ChildOK, HandleOK, DeadOK, Inspecting, Replacing, Undoing, Launched
<1> QED BY <1>1, <1>2, <1>5, <1>6, <1>7, MoveStep DEF Moved

LEMMA EndStep == ASSUME ServerInv, NEW c \in Command, Exit(c) \/ Kill(c) PROVE ServerInv'
<1>1. NotRun \in CommandType /\ NotRun.at = "idle" /\ NotRun.child = NoInst
  BY DEF NotRun, CommandType, Places, NoInst
<1>2. /\ cmd' \in [Command -> CommandType] /\ cmd'[c] = NotRun
      /\ \A d \in Command \ {c} : cmd'[d] = cmd[d]
  BY <1>1, Types DEF Exit, Kill
<1>3. lock' = IF lock = c THEN NoCommand ELSE lock
  BY DEF Exit, Kill, ServerInv, LockInv, Outside
<1>4. LockInv' /\ OwnInv'
  BY <1>1, <1>2, <1>3, Types DEF ServerInv, LockInv, OwnInv, Outside
<1>5. Moved(c)
  BY <1>2, <1>3, <1>4 DEF Moved, ServerInv, TypeOK
<1>6. cmd[c].at \in Outside => lock' = lock
  BY <1>3 DEF ServerInv, LockInv
<1> QED BY <1>1, <1>2, <1>5, <1>6, ReapStep DEF Exit, Kill

(* The steps by which a command looks at the recorded server.              *)
LEMMA LoadStep == ASSUME ServerInv, NEW c \in Command, Load(c) PROVE ServerInv'
<1> USE DEF Load
<1>1. cmd[c].at = "load" /\ cmd[c].at \notin Outside /\ cmd[c].child = NoInst /\ CommandOK(c)
  BY DEF Outside, ServerInv, CommandOK, ChildOK
<1>2. CASE Leave(c)
  BY <1>1, <1>2, LeaveStep
<1>3. CASE GoOn(c) /\ lock' = lock /\ record.state = "stopped"
  BY <1>1, <1>3, GoOnStep
<1>4. CASE record.state = "none" /\ Goto(c, FirstOfLaunch) /\ lock' = lock
  <2>1. FirstOfLaunch \in Replacing /\ FirstOfLaunch \in Places \ Outside
    BY DEF FirstOfLaunch, Replacing, Places, Outside
  <2>2. Moved(c) /\ cmd'[c].at \in Replacing /\ cmd'[c].child = NoInst
    BY <1>1, <1>4, <2>1, GotoFacts
  <2>3. CommandOK(c)'
    BY <1>1, <1>4, <2>2 DEF CommandOK, ChildOK, HandleOK, DeadOK, Inspecting, Replacing, Undoing, Launched
  <2> QED BY <2>2, <2>3, MoveStep
<1>5. CASE /\ record.state = "started" /\ lock' = lock
           /\ Goto(c, IF cmd[c].op = "start" THEN "check" ELSE "open")
  <2>1. PICK place \in {"check", "open"} : Goto(c, place)
    BY <1>5
  <2>2. place \in Places \ Outside
    BY DEF Places, Outside
  <2>3. Moved(c) /\ cmd'[c].at = place /\ cmd'[c].child = NoInst
    BY <1>1, <1>5, <2>1, <2>2, GotoFacts
  <2>4. CommandOK(c)'
    BY <1>1, <1>5, <2>3 DEF CommandOK, ChildOK, HandleOK, DeadOK, Inspecting, Replacing, Undoing, Launched
  <2> QED BY <2>3, <2>4, MoveStep
<1> QED BY <1>1, <1>2, <1>3, <1>4, <1>5

LEMMA InspectStep ==
  ASSUME ServerInv, NEW c \in Command,
         Check(c) \/ InspectFails(c) \/ OpenHandle(c) \/ PollHandle(c) \/ MatchIdentity(c)
  PROVE  ServerInv'
<1>1. /\ CommandOK(c) /\ cmd[c].at \notin Outside /\ cmd[c].at \in {"load"} \cup Inspecting
      /\ UNCHANGED <<service, proc, made, record, cookie, signalled>>
  BY DEF Check, InspectFails, OpenHandle, PollHandle, MatchIdentity, Outside, Inspecting, ServerInv
<1>2. record.state = "started"
  BY <1>1 DEF CommandOK, HandleOK, Check, InspectFails, OpenHandle, PollHandle, MatchIdentity, Inspecting
<1>3. cmd[c].child = NoInst
  BY <1>1 DEF CommandOK, ChildOK
<1>4. CASE Leave(c)
  BY <1>1, <1>4, LeaveStep
<1>5. CASE GoOn(c) /\ lock' = lock
  <2>1. ~Running(record.inst)
    <3>1. CASE OpenHandle(c)
      <4>1. CASE Occupant(record.pid) = {}
        BY <1>2, <4>1, StatusFacts
      <4>2. CASE Occupant(record.pid) # {}
        <5>1. PICK j \in Occupant(record.pid) : cmd' = [cmd EXCEPT ![c].handle = j, ![c].at = "poll"]
          BY <3>1, <4>2 DEF OpenHandle
        <5>2. cmd'[c].at = "poll"
          BY <5>1, Types DEF CommandType
        <5> QED BY <1>1, <1>5, <5>2, GoOnFacts DEF Replacing
      <4> QED BY <4>1, <4>2
    <3>2. CASE PollHandle(c)
      <4>1. ~Running(cmd[c].handle)
        <5> SUFFICES ASSUME Goto(c, "match") PROVE FALSE
          BY <3>2 DEF PollHandle
        <5>1. cmd'[c].at = "match"
          BY Types DEF Goto, CommandType
        <5> QED BY <1>1, <1>5, <5>1, GoOnFacts DEF Replacing
      <4>2. proc[record.inst] # NoProcess => cmd[c].handle = record.inst
        BY <1>1, <3>2 DEF PollHandle, CommandOK, HandleOK
      <4>3. NoProcess.life # "running"
        BY DEF NoProcess
      <4> QED BY <4>1, <4>2, <4>3 DEF Running
    <3>3. CASE MatchIdentity(c)
      <4> SUFFICES ASSUME Goto(c, "signal") \/ Leave(c) PROVE FALSE
        BY <1>2, <3>3, StatusFacts DEF MatchIdentity
      <4>1. Goto(c, "signal") => cmd'[c].at = "signal"
        BY Types DEF Goto, CommandType
      <4> QED BY <1>1, <1>5, <4>1, GoOnFacts, LeaveFacts DEF Replacing
    <3>4. CASE Check(c) \/ InspectFails(c)
      <4>1. cmd'[c].at \in Replacing
        BY <1>1, <1>5, GoOnFacts
      <4>2. Goto(c, "open") => cmd'[c].at = "open"
        BY Types DEF Goto, CommandType
      <4> QED BY <1>1, <3>4, <4>1, <4>2, LeaveFacts DEF Check, InspectFails, Replacing
    <3> QED BY <3>1, <3>2, <3>3, <3>4
  <2> QED BY <1>1, <1>5, <2>1, GoOnStep
<1>6. CASE Check(c) /\ Goto(c, "open") /\ lock' = lock
  <2>1. Moved(c) /\ cmd'[c].at = "open" /\ cmd'[c].child = NoInst
    BY <1>1, <1>3, <1>6, GotoFacts DEF Places, Outside
  <2>2. CommandOK(c)'
    BY <1>1, <1>2, <2>1 DEF CommandOK, ChildOK, HandleOK, DeadOK, Inspecting, Replacing, Undoing, Launched
  <2> QED BY <1>1, <2>1, <2>2, MoveStep
<1>7. CASE OpenHandle(c) /\ Occupant(record.pid) # {}
  <2>1. PICK j \in Occupant(record.pid) : cmd' = [cmd EXCEPT ![c].handle = j, ![c].at = "poll"]
    BY <1>7 DEF OpenHandle
  <2> DEFINE opened == [cmd[c] EXCEPT !.handle = j, !.at = "poll"]
  <2>2. cmd' = [cmd EXCEPT ![c] = opened]
    BY <2>1, Types
  <2>3. j \in Inst /\ j # NoInst
    BY Types DEF Occupant
  <2>4. /\ opened \in CommandType /\ opened.at = "poll" /\ opened.handle = j
        /\ opened.child = cmd[c].child
    BY <2>3, Types DEF CommandType, Places
  <2> HIDE DEF opened
  <2>5. cmd'[c] = opened /\ \A d \in Command \ {c} : cmd'[d] = cmd[d]
    BY <2>2, Types
  <2>6. lock' = lock /\ cmd' \in [Command -> CommandType]
    BY <1>7, <2>2, <2>4, Types DEF OpenHandle
  <2>7. LockInv'
    BY <1>1, <2>4, <2>5, <2>6 DEF ServerInv, LockInv, Outside
  <2>8. OwnInv'
    BY <2>4, <2>5 DEF ServerInv, OwnInv
  <2>9. Moved(c)
    BY <2>5, <2>6, <2>7, <2>8 DEF Moved, ServerInv, TypeOK
  <2>10. proc[record.inst] # NoProcess => j = record.inst
    BY <1>2, StatusFacts
  <2>11. CommandOK(c)'
    BY <1>1, <1>2, <1>3, <2>3, <2>4, <2>5, <2>10 DEF CommandOK, ChildOK, HandleOK, DeadOK, Inspecting, Replacing, Undoing, Launched
  <2> QED BY <1>1, <2>9, <2>11, MoveStep
<1>8. CASE PollHandle(c) /\ Goto(c, "match")
  <2>1. /\ Moved(c) /\ cmd'[c].at = "match" /\ cmd'[c].child = NoInst
        /\ cmd'[c].handle = cmd[c].handle
    BY <1>1, <1>3, <1>8, GotoFacts DEF Places, Outside, PollHandle
  <2>2. CommandOK(c)'
    BY <1>1, <1>2, <1>8, <2>1 DEF PollHandle, CommandOK, ChildOK, HandleOK, DeadOK, Inspecting, Replacing, Undoing, Launched
  <2> QED BY <1>1, <2>1, <2>2, MoveStep
<1>9. CASE MatchIdentity(c) /\ Status = "running" /\ Goto(c, "signal") /\ lock' = lock
  <2>1. /\ Moved(c) /\ cmd'[c].at = "signal" /\ cmd'[c].child = NoInst
        /\ cmd'[c].handle = cmd[c].handle
    BY <1>1, <1>3, <1>9, GotoFacts DEF Places, Outside
  <2>2. cmd[c].handle = record.inst
    BY <1>1, <1>2, <1>9, StatusFacts DEF MatchIdentity, CommandOK, HandleOK
  <2>3. CommandOK(c)'
    BY <1>1, <1>2, <1>9, <2>1, <2>2 DEF CommandOK, ChildOK, HandleOK, DeadOK, Inspecting, Replacing, Undoing, Launched
  <2> QED BY <1>1, <2>1, <2>3, MoveStep
<1> QED BY <1>4, <1>5, <1>6, <1>7, <1>8, <1>9 DEF Check, InspectFails, OpenHandle, PollHandle, MatchIdentity

LEMMA SignalStep == ASSUME ServerInv, NEW c \in Command, SendSignal(c) PROVE ServerInv'
<1> USE DEF SendSignal
<1>1. /\ CommandOK(c) /\ cmd[c].at \notin Outside /\ cmd[c].handle = record.inst
      /\ record.state = "started" /\ cmd[c].child = NoInst
  BY DEF Outside, Inspecting, ServerInv, CommandOK, HandleOK, ChildOK
<1>2. /\ Moved(c) /\ cmd'[c].at = "wait" /\ cmd'[c].child = NoInst
      /\ cmd'[c].handle = record.inst
  BY <1>1, GotoFacts DEF Places, Outside
<1>3. CommandOK(c)'
  BY <1>1, <1>2 DEF CommandOK, ChildOK, HandleOK, DeadOK, Inspecting, Replacing, Undoing, Launched
<1>4. record.inst \in Inst /\ (Running(record.inst) => Server(record.inst))
  <2>1. record.inst \in Inst /\ proc[record.inst].kind # "foreign"
    BY <1>1 DEF ServerInv, TypeOK, WorldInv, RecordInv
  <2>2. Running(record.inst) => proc[record.inst].kind # "none"
    BY <2>1 DEF ServerInv, WorldInv, ProcessInv, Running, NoProcess
  <2> QED BY <2>1, <2>2, Types DEF Server, ProcessType
<1>5. signalled' \subseteq Inst /\ SignalInv'
  BY <1>1, <1>4 DEF ServerInv, TypeOK, WorldInv, SignalInv, Server, Running
<1>6. WorldInv'
  BY <1>5 DEF ServerInv, WorldInv, ProcessInv, RecordInv, CookieFits, Server, Running, Recorded
<1>7. TypeOK'
  BY <1>2, <1>5 DEF ServerInv, TypeOK, Moved, CommandType
<1> QED BY <1>1, <1>2, <1>3, <1>6, <1>7, RecordStep

LEMMA WaitStep ==
  ASSUME ServerInv, NEW c \in Command, WaitedForExit(c) \/ WaitTimesOut(c) PROVE ServerInv'
<1>1. /\ CommandOK(c) /\ cmd[c].at \notin Outside /\ cmd[c].at \in Inspecting
      /\ cmd[c].handle = record.inst
  BY DEF WaitedForExit, WaitTimesOut, Outside, Inspecting, ServerInv, CommandOK, HandleOK
<1> QED BY <1>1, LeaveStep, GoOnStep DEF WaitedForExit, WaitTimesOut

(* The record of a server that is dead is replaced by another word for it. *)
LEMMA WriteStep == ASSUME ServerInv, NEW c \in Command, WriteStopped(c) PROVE ServerInv'
<1> USE DEF WriteStopped
<1>1. /\ CommandOK(c) /\ cmd[c].at = "write" /\ cmd[c].at \notin Outside
      /\ cmd[c].child = NoInst
  BY DEF Outside, Replacing, ServerInv, CommandOK, ChildOK
<1>2. /\ Stopped.state = "stopped" /\ Stopped.inst = NoInst
      /\ Stopped \in [state : {"none", "started", "stopped"}, inst : Inst \cup {NoInst},
                      pid : Pid \cup {NoPid}]
  BY DEF Stopped, NoRecord
<1>3. record' \in {record, Stopped}
  OBVIOUS
<1>4. WorldInv'
  BY <1>2, <1>3 DEF ServerInv, WorldInv, ProcessInv, RecordInv, SignalInv, CookieFits, Server, Running, Recorded
<1>5. /\ Moved(c) /\ cmd'[c].at \in {"done", "exit"} /\ cmd'[c].child = NoInst
  BY <1>1, GotoFacts, LeaveFacts DEF Places, Outside
<1>6. TypeOK'
  BY <1>2, <1>3, <1>5 DEF ServerInv, TypeOK, Moved, CommandType, NoInst
<1>7. CommandOK(c)'
  BY <1>1, <1>5, Types DEF CommandOK, ChildOK, HandleOK, DeadOK, Inspecting, Replacing, Undoing, Launched
<1> QED BY <1>1, <1>4, <1>5, <1>6, <1>7, RecordStep
-----------------------------------------------------------------------------
(* The launch                                                              *)

(* The cookie is replaced only once the server it was for is dead.         *)
LEMMA PrepareStep == ASSUME ServerInv, NEW c \in Command, Prepare(c) PROVE ServerInv'
<1> USE DEF Prepare
<1>1. /\ CommandOK(c) /\ cmd[c].at = "prepare" /\ cmd[c].at \notin Outside
      /\ cmd[c].child = NoInst
  BY DEF Outside, Replacing, ServerInv, CommandOK, ChildOK
<1>2. record.state = "started" => ~Running(record.inst)
  BY <1>1 DEF CommandOK, DeadOK, Replacing, Undoing
<1>3. cookie' \in {cookie, NoInst}
  OBVIOUS
<1>4. WorldInv'
  BY <1>2, <1>3 DEF ServerInv, WorldInv, ProcessInv, RecordInv, SignalInv, CookieFits, Server, Running, Recorded
<1>5. Moved(c) /\ cmd'[c].at \in {"launch", "exit"} /\ cmd'[c].child = NoInst
  BY <1>1, GotoFacts, LeaveFacts DEF Places, Outside
<1>6. TypeOK'
  BY <1>3, <1>5 DEF ServerInv, TypeOK, Moved, CommandType
<1>7. CommandOK(c)'
  BY <1>1, <1>2, <1>5, Types DEF CommandOK, ChildOK, HandleOK, DeadOK, Inspecting, Replacing, Undoing, Launched, Running
<1> QED BY <1>1, <1>4, <1>5, <1>6, <1>7, RecordStep

LEMMA LaunchStep == ASSUME ServerInv, NEW c \in Command, Launch(c) PROVE ServerInv'
<1> USE DEF Launch
<1>1. /\ CommandOK(c) /\ cmd[c].at = "launch" /\ cmd[c].at \notin Outside
      /\ cmd[c].child = NoInst
  BY DEF Outside, Replacing, ServerInv, CommandOK, ChildOK
<1>2. /\ made' = made + 1 /\ made + 1 \in Inst
      /\ proc' \in [Inst -> ProcessType]
      /\ proc'[made + 1].kind = "server" /\ proc'[made + 1] # NoProcess
      /\ \A i \in Inst \ {made + 1} : proc'[i] = proc[i]
      /\ ProcessInv'
  BY BirthFacts
<1>3. record.state = "started" => record.inst \in Inst \ {made + 1} /\ ~Running(record.inst)
  <2>1. record.state = "started" => record.inst \in Inst /\ record.inst <= made
    BY DEF ServerInv, TypeOK, WorldInv, RecordInv
  <2> QED BY <1>1, <2>1, Types DEF CommandOK, DeadOK, Replacing, Undoing
<1>4. RecordInv' /\ CookieFits'
  BY <1>2, <1>3, Types DEF ServerInv, WorldInv, RecordInv, CookieFits, Server, Running, Recorded
<1>5. SignalInv'
  <2>1. \A i \in signalled : i \in Inst \ {made + 1}
    <3>1. ~Running(made + 1)
      BY BirthFacts DEF Running, NoProcess
    <3> QED BY <3>1 DEF ServerInv, TypeOK, WorldInv, SignalInv, Server
  <2> QED BY <1>2, <2>1 DEF ServerInv, WorldInv, SignalInv, Server, Running
<1> DEFINE new == [cmd[c] EXCEPT !.child = made + 1, !.at = "register"]
<1>6. new \in CommandType /\ new.at = "register" /\ new.child = made + 1
  BY <1>2, Types DEF CommandType, Places
<1>7. cmd' = [cmd EXCEPT ![c] = new]
  BY Types
<1> HIDE DEF new
<1>8. /\ cmd' \in [Command -> CommandType] /\ cmd'[c] = new
      /\ \A d \in Command \ {c} : cmd'[d] = cmd[d]
  BY <1>6, <1>7, Types
<1>9. \A d \in Command : cmd[d].child <= made /\ cmd[d].child \in Nat
  BY Types DEF ServerInv, CommandOK, ChildOK, CommandType, NoInst
<1>10. LockInv'
  BY <1>1, <1>6, <1>8 DEF ServerInv, LockInv, Outside
<1>11. OwnInv'
  BY <1>6, <1>8, <1>9, Types DEF ServerInv, OwnInv
<1>12. TypeOK'
  BY <1>2, <1>8, Types DEF ServerInv, TypeOK, CommandType, ProcessType, Inst
<1>13. CommandOK(c)'
  BY <1>2, <1>3, <1>6, <1>8, Types
  DEF CommandOK, ChildOK, HandleOK, DeadOK, Inspecting, Replacing, Undoing, Launched, NoInst, Running
<1>14. ASSUME NEW d \in Command \ {c} PROVE CommandOK(d)'
  <2>1. cmd'[d] = cmd[d] /\ CommandOK(d) /\ cmd[d].at \in Outside
    BY <1>1, <1>8, Alone DEF ServerInv
  <2>2. cmd[d].child # NoInst => cmd[d].child \in Inst \ {made + 1}
    BY <1>9, Types DEF CommandType
  <2> QED BY <1>2, <1>9, <2>1, <2>2, Types DEF CommandOK, ChildOK, HandleOK, DeadOK, Outside, Inspecting, Replacing, Undoing, Launched
<1> QED BY <1>2, <1>4, <1>5, <1>10, <1>11, <1>12, <1>13, <1>14 DEF ServerInv, WorldInv

LEMMA RegisterStep ==
  ASSUME ServerInv, NEW c \in Command, Register(c) \/ RegisterFails(c) PROVE ServerInv'
<1>1. /\ CommandOK(c) /\ cmd[c].at = "register" /\ cmd[c].at \notin Outside
  BY DEF Register, RegisterFails, Outside, ServerInv
<1>2. CASE Register(c)
  <2>1. Moved(c) /\ cmd'[c].at = "save" /\ cmd'[c].child = cmd[c].child
    BY <1>1, <1>2, GotoFacts DEF Register, Places, Outside
  <2>2. proc[cmd[c].child] # NoProcess
    BY <1>2 DEF Register, Running, NoProcess
  <2>3. CommandOK(c)'
    BY <1>1, <1>2, <2>1, <2>2 DEF Register, CommandOK, ChildOK, HandleOK, DeadOK, Inspecting, Replacing, Undoing, Launched, Running
  <2> QED BY <1>2, <2>1, <2>3, MoveStep DEF Register
<1>3. CASE RegisterFails(c)
  <2>1. Moved(c) /\ cmd'[c].at = "terminate" /\ cmd'[c].child = cmd[c].child
    BY <1>1, <1>3, GotoFacts DEF RegisterFails, Places, Outside
  <2> QED BY <1>1, <1>3, <2>1, ReapStep DEF RegisterFails
<1> QED BY <1>2, <1>3

(* The child is recorded, and the command has done its work or undoes it.  *)
LEMMA SaveStep == ASSUME ServerInv, NEW c \in Command, Save(c) \/ SaveFails(c) PROVE ServerInv'
<1>1. /\ CommandOK(c) /\ cmd[c].at = "save" /\ cmd[c].at \notin Outside
      /\ UNCHANGED <<service, proc, made, cookie, lock, signalled>>
  BY DEF Save, SaveFails, Outside, ServerInv
<1>2. /\ cmd[c].child \in Inst /\ cmd[c].child <= made /\ (service = "x11" => cookie = cmd[c].child)
      /\ proc[cmd[c].child].kind # "foreign" /\ proc[cmd[c].child] # NoProcess
  BY <1>1, Types DEF CommandOK, ChildOK, Launched, CommandType
<1>3. /\ Started(c) \in [state : {"none", "started", "stopped"}, inst : Inst \cup {NoInst},
                         pid : Pid \cup {NoPid}]
      /\ Started(c).state = "started" /\ Started(c).inst = cmd[c].child
      /\ Started(c).pid = proc[cmd[c].child].pid /\ Started(c).pid # NoPid
  BY <1>2, Types DEF Started, ProcessType, ServerInv, WorldInv, ProcessInv
<1>4. record' \in {record, Started(c)} /\ (Save(c) => record' = Started(c))
  BY DEF Save, SaveFails
<1>5. /\ Moved(c) /\ cmd'[c].child = cmd[c].child
      /\ cmd'[c].at = IF Save(c) THEN "done" ELSE "terminate"
  <2>1. CASE Save(c)
    BY <1>1, <2>1, GotoFacts DEF Save, Places, Outside
  <2>2. CASE ~Save(c)
    BY <1>1, <2>2, GotoFacts DEF SaveFails, Places, Outside
  <2> QED BY <2>1, <2>2
<1>6. WorldInv'
  BY <1>1, <1>2, <1>3, <1>4, Types DEF ServerInv, WorldInv, ProcessInv, RecordInv, SignalInv, CookieFits, Server, Running, Recorded
<1>7. TypeOK'
  BY <1>1, <1>2, <1>3, <1>4, <1>5, Types DEF ServerInv, TypeOK, Moved, CommandType
<1>8. CommandOK(c)'
  BY <1>1, <1>2, <1>3, <1>4, <1>5, Types
  DEF CommandOK, ChildOK, HandleOK, DeadOK, Inspecting, Replacing, Undoing, Launched, Running, Recorded
<1> QED BY <1>1, <1>5, <1>6, <1>7, <1>8, RecordStep

LEMMA UndoStep ==
  ASSUME ServerInv, NEW c \in Command,
         TerminateChild(c) \/ ChildReaped(c) \/ ChildStays(c) \/ Done(c) \/ LaunchFails(c)
  PROVE  ServerInv'
<1>1. CommandOK(c) /\ cmd[c].at \notin Outside
  BY DEF TerminateChild, ChildReaped, ChildStays, Done, LaunchFails, Outside, ServerInv
<1>2. CASE ChildStays(c) \/ Done(c) \/ LaunchFails(c)
  BY <1>1, <1>2, LeaveStep DEF ChildStays, Done, LaunchFails
<1>3. CASE ChildReaped(c)
  BY <1>1, <1>3, LeaveFacts, ReapStep DEF ChildReaped
<1>4. CASE TerminateChild(c)
  <2>1. PICK place \in {"grace", "killed"} : Goto(c, place)
    BY <1>4 DEF TerminateChild
  <2>2. cmd[c].at \in Undoing /\ place \in Places \ Outside /\ place \in Undoing
    BY <1>4 DEF TerminateChild, Undoing, Places, Outside
  <2>3. Moved(c) /\ cmd'[c].at = place /\ cmd'[c].child = cmd[c].child
    BY <1>1, <1>4, <2>1, <2>2, GotoFacts DEF TerminateChild
  <2>4. cmd[c].child \in Inst /\ proc[cmd[c].child].kind # "foreign"
    BY <1>1, <2>2, Types DEF CommandOK, ChildOK, Launched, CommandType
  <2>5. Running(cmd[c].child) => Server(cmd[c].child)
    <3>1. Running(cmd[c].child) => proc[cmd[c].child].kind # "none"
      BY <2>4 DEF ServerInv, WorldInv, ProcessInv, Running, NoProcess
    <3> QED BY <2>4, <3>1, Types DEF Server, ProcessType
  <2>6. signalled' \subseteq Inst /\ SignalInv'
    BY <1>4, <2>4, <2>5 DEF TerminateChild, ServerInv, TypeOK, WorldInv, SignalInv, Server, Running
  <2>7. WorldInv'
    BY <1>4, <2>6 DEF TerminateChild, ServerInv, WorldInv, ProcessInv, RecordInv, CookieFits, Server, Running, Recorded
  <2>8. TypeOK'
    BY <1>4, <2>3, <2>6 DEF TerminateChild, ServerInv, TypeOK, Moved, CommandType
  <2>9. CommandOK(c)'
    BY <1>1, <1>4, <2>2, <2>3
    DEF TerminateChild, CommandOK, ChildOK, HandleOK, DeadOK, Inspecting, Replacing, Undoing, Launched, Running
  <2> QED BY <1>1, <1>4, <2>3, <2>7, <2>8, <2>9, RecordStep DEF TerminateChild
<1> QED BY <1>2, <1>3, <1>4
-----------------------------------------------------------------------------
(* The steps of the host                                                   *)

(* A process that has exited keeps its number while it is a child.         *)
LEMMA ExitStep == ASSUME ServerInv, NEW i \in Inst, ProcessExits(i) PROVE ServerInv'
<1> USE DEF ProcessExits
<1>1. CASE \E c \in Command : cmd[c].child = i
  <2> DEFINE dead == [proc[i] EXCEPT !.life = "zombie"]
  <2>1. proc' = [proc EXCEPT ![i] = dead]
    BY <1>1, Types
  <2>2. /\ dead \in ProcessType /\ dead.life = "zombie" /\ dead.pid = proc[i].pid
        /\ dead.kind = proc[i].kind /\ dead # NoProcess
    BY Types DEF ProcessType, NoProcess
  <2> HIDE DEF dead
  <2>3. /\ proc' \in [Inst -> ProcessType] /\ proc'[i] = dead
        /\ \A j \in Inst \ {i} : proc'[j] = proc[j]
    BY <2>1, <2>2, Types
  <2>4. proc[i] # NoProcess /\ i <= made
    <3>1. NoProcess.life # "running"
      BY DEF NoProcess
    <3>2. proc[i] # NoProcess
      BY <3>1 DEF Running
    <3> QED BY <3>2, Types DEF ServerInv, WorldInv, ProcessInv
  <2>5. ProcessInv'
    <3> SUFFICES ASSUME NEW j \in Inst
                 PROVE  (/\ j > made => proc[j] = NoProcess
                         /\ proc[j].pid = NoPid \/ proc[j].life = "none" \/ proc[j].kind = "none"
                              => proc[j] = NoProcess
                         /\ \A k \in Inst : proc[j].pid = proc[k].pid => j = k \/ proc[j].pid = NoPid)'
      BY DEF ProcessInv
    <3>1. \A k \in Inst : proc'[k].pid = proc[k].pid
      BY <2>2, <2>3
    <3>2. CASE j = i
      BY <2>2, <2>3, <2>4, <3>1, <3>2, Types, ZenonT(40) DEF ServerInv, WorldInv, ProcessInv, Inst
    <3>3. CASE j # i
      <4>1. proc'[j] = proc[j]
        BY <2>3, <3>3
      <4> QED BY <3>1, <4>1 DEF ServerInv, WorldInv, ProcessInv
    <3> QED BY <3>2, <3>3
  <2>6. RecordInv'
    <3>1. record.state = "started" => record.inst \in Inst
      BY DEF ServerInv, TypeOK
    <3>2. \A j \in Inst : proc'[j].pid = proc[j].pid /\ proc'[j].kind = proc[j].kind /\ (proc'[j] = NoProcess <=> proc[j] = NoProcess)
      BY <2>2, <2>3, <2>4
    <3> QED BY <3>1, <3>2 DEF ServerInv, WorldInv, RecordInv
  <2>7. SignalInv' /\ CookieFits'
    <3>1. \A j \in Inst : Server(j)' <=> Server(j) /\ j # i
      BY <2>2, <2>3 DEF Server, Running
    <3>2. signalled' \subseteq Inst \ {i} /\ signalled' \subseteq signalled
      BY DEF ServerInv, TypeOK
    <3>3. SignalInv'
      BY <3>1, <3>2 DEF ServerInv, WorldInv, SignalInv
    <3> QED BY <3>1, <3>3 DEF ServerInv, WorldInv, CookieFits, Recorded
  <2>8. ASSUME NEW c \in Command PROVE CommandOK(c)'
    <3>1. \A j \in Inst : /\ proc'[j].kind = proc[j].kind /\ (proc'[j] = NoProcess <=> proc[j] = NoProcess)
                          /\ proc'[j].life = "running" => proc[j].life = "running"
      BY <2>2, <2>3, <2>4
    <3>2. /\ cmd[c].child # NoInst => cmd[c].child \in Inst
          /\ record.state = "started" => record.inst \in Inst
          /\ CommandOK(c)
      BY Types DEF ServerInv, TypeOK, CommandType
    <3>3. ChildOK(c)'
      BY <3>1, <3>2 DEF CommandOK, ChildOK, Recorded, Launched
    <3>4. HandleOK(c)' /\ DeadOK(c)'
      BY <3>1, <3>2 DEF CommandOK, HandleOK, DeadOK, Running, Inspecting
    <3> QED BY <3>3, <3>4 DEF CommandOK
  <2>9. TypeOK'
    BY <2>3 DEF ServerInv, TypeOK, ProcessType
  <2> QED BY <2>5, <2>6, <2>7, <2>8, <2>9 DEF ServerInv, WorldInv, LockInv, OwnInv
<1>2. CASE ~ \E c \in Command : cmd[c].child = i
  <2>1. proc' = Without({i}) /\ signalled' = signalled \ {i}
    BY <1>2
  <2>2. WorldInv' /\ proc' \in [Inst -> ProcessType] /\ signalled' \subseteq Inst
    BY <2>1, GoneFacts
  <2>3. \A j \in Inst : proc'[j] = IF j = i THEN NoProcess ELSE proc[j]
    BY <2>1 DEF Without
  <2>4. NoProcess.life # "running" /\ NoProcess.kind = "none"
    BY DEF NoProcess
  <2>5. ASSUME NEW c \in Command PROVE CommandOK(c)'
    <3>1. /\ cmd[c].child # NoInst => cmd[c].child \in Inst \ {i}
          /\ record.state = "started" => record.inst \in Inst
          /\ CommandOK(c)
      BY <1>2, Types DEF ServerInv, TypeOK, CommandType
    <3>2. ChildOK(c)'
      BY <2>3, <3>1 DEF CommandOK, ChildOK, Recorded, Launched
    <3>3. HandleOK(c)' /\ DeadOK(c)'
      BY <2>3, <2>4, <3>1 DEF CommandOK, HandleOK, DeadOK, Running, Inspecting
    <3> QED BY <3>2, <3>3 DEF CommandOK
  <2>6. TypeOK'
    BY <2>2 DEF ServerInv, TypeOK, ProcessType
  <2> QED BY <2>2, <2>5, <2>6 DEF ServerInv, LockInv, OwnInv
<1> QED BY <1>1, <1>2

LEMMA ForeignStep == ASSUME ServerInv, ForeignStarts PROVE ServerInv'
<1> USE DEF ForeignStarts
<1>1. /\ made' = made + 1 /\ made + 1 \in Inst
      /\ proc' \in [Inst -> ProcessType]
      /\ \A i \in Inst \ {made + 1} : proc'[i] = proc[i]
      /\ proc[made + 1] = NoProcess
      /\ ProcessInv'
  BY BirthFacts
<1>2. record.state = "started" => record.inst \in Inst \ {made + 1}
  <2>1. record.state = "started" => record.inst \in Inst /\ record.inst <= made
    BY DEF ServerInv, TypeOK, WorldInv, RecordInv
  <2> QED BY <2>1, Types
<1>3. RecordInv' /\ CookieFits'
  BY <1>1, <1>2, Types DEF ServerInv, WorldInv, RecordInv, CookieFits, Server, Running, Recorded
<1>4. SignalInv'
  <2>1. \A i \in signalled : i \in Inst \ {made + 1}
    BY <1>1 DEF ServerInv, TypeOK, WorldInv, SignalInv, Server, Running, NoProcess
  <2> QED BY <1>1, <2>1 DEF ServerInv, WorldInv, SignalInv, Server, Running
<1>5. TypeOK'
  BY <1>1, Types DEF ServerInv, TypeOK, CommandType, ProcessType, Inst
<1>6. ASSUME NEW c \in Command PROVE CommandOK(c)'
  <2>1. CommandOK(c) /\ cmd[c].child <= made /\ cmd[c].child \in Nat
    BY Types DEF ServerInv, CommandOK, ChildOK, CommandType, NoInst
  <2>2. cmd[c].child # NoInst => cmd[c].child \in Inst \ {made + 1}
    BY <2>1, Types DEF CommandType
  <2>3. ChildOK(c)'
    BY <1>1, <2>1, <2>2, Types DEF CommandOK, ChildOK, Recorded, Launched
  <2>4. HandleOK(c)' /\ DeadOK(c)'
    BY <1>1, <1>2, <2>1 DEF CommandOK, HandleOK, DeadOK, Running, Inspecting
  <2> QED BY <2>3, <2>4 DEF CommandOK
<1> QED BY <1>1, <1>3, <1>4, <1>5, <1>6 DEF ServerInv, WorldInv, LockInv, OwnInv

LEMMA RebootStep == ASSUME ServerInv, Reboot PROVE ServerInv'
<1> USE DEF Reboot
<1>1. WorldInv' /\ proc' \in [Inst -> ProcessType] /\ signalled' \subseteq Inst
  BY GoneFacts
<1>2. NotRun \in CommandType /\ NotRun.at = "idle" /\ NotRun.child = NoInst
  BY DEF NotRun, CommandType, Places, NoInst
<1>3. cmd' \in [Command -> CommandType] /\ \A c \in Command : cmd'[c] = NotRun
  BY <1>2
<1>4. TypeOK'
  BY <1>1, <1>3 DEF ServerInv, TypeOK, CommandType, ProcessType
<1>5. LockInv' /\ OwnInv'
  BY <1>2, <1>3, Types DEF LockInv, OwnInv, Outside
<1>6. \A c \in Command : CommandOK(c)'
  BY <1>2, <1>3, Types DEF CommandOK, ChildOK, HandleOK, DeadOK, Inspecting, Replacing, Undoing, Launched, NoInst
<1> QED BY <1>1, <1>4, <1>5, <1>6 DEF ServerInv
-----------------------------------------------------------------------------
LEMMA Start == Init => ServerInv
<1> SUFFICES ASSUME Init PROVE ServerInv
  OBVIOUS
<1> USE DEF Init
<1>1. NotRun \in CommandType /\ NotRun.at = "idle" /\ NotRun.child = NoInst
  BY DEF NotRun, CommandType, Places, NoInst
<1>2. NoProcess \in ProcessType /\ NoProcess.pid = NoPid /\ NoProcess.life = "none"
  BY DEF NoProcess, ProcessType
<1>3. /\ NoRecord \in [state : {"none", "started", "stopped"}, inst : Inst \cup {NoInst},
                      pid : Pid \cup {NoPid}]
      /\ NoRecord.state = "none" /\ NoRecord.inst = NoInst
  BY DEF NoRecord
<1>4. cmd \in [Command -> CommandType] /\ proc \in [Inst -> ProcessType] /\ made \in 0 .. MaxInst
  BY <1>1, <1>2, LifecycleAssumption
<1>5. TypeOK
  BY <1>3, <1>4 DEF TypeOK, CommandType, ProcessType
<1>6. LockInv /\ OwnInv
  BY <1>1, LifecycleAssumption DEF LockInv, OwnInv, Outside
<1>7. WorldInv
  BY <1>2, <1>3 DEF WorldInv, ProcessInv, RecordInv, SignalInv, CookieFits, Recorded
<1>8. \A c \in Command : CommandOK(c)
  <2>1. \A c \in Command : cmd[c].at = "idle" /\ cmd[c].child = NoInst
    BY <1>1
  <2>2. NoInst <= made
    BY DEF NoInst
  <2> QED BY <2>1, <2>2 DEF CommandOK, ChildOK, HandleOK, DeadOK, Inspecting, Replacing, Undoing, Launched
<1> QED BY <1>5, <1>6, <1>7, <1>8 DEF ServerInv

LEMMA CommandStep ==
  ASSUME ServerInv, NEW c \in Command, Begin(c) \/ Step(c) \/ Kill(c) PROVE ServerInv'
BY BeginStep, AcquireStep, EndStep, LoadStep, InspectStep, SignalStep, WaitStep, WriteStep,
   PrepareStep, LaunchStep, RegisterStep, SaveStep, UndoStep
DEF Step

LEMMA EveryStep == ServerInv /\ [Next]_vars => ServerInv'
<1> SUFFICES ASSUME ServerInv, [Next]_vars PROVE ServerInv'
  OBVIOUS
<1>1. CASE UNCHANGED vars
  <2>1. TypeOK' /\ LockInv' /\ OwnInv'
    BY <1>1 DEF vars, ServerInv, TypeOK, LockInv, OwnInv
  <2>2. WorldInv'
    BY <1>1 DEF vars, ServerInv, WorldInv, ProcessInv, RecordInv, SignalInv, CookieFits, Server, Running, Recorded
  <2>3. \A c \in Command : CommandOK(c)'
    BY <1>1 DEF vars, ServerInv, CommandOK, ChildOK, HandleOK, DeadOK, Running, Recorded
  <2> QED BY <2>1, <2>2, <2>3 DEF ServerInv
<1> QED BY <1>1, CommandStep, ExitStep, ForeignStep, RebootStep DEF Next

THEOREM ServerInvariant == Spec => []ServerInv
BY Start, EveryStep, PTL DEF Spec

(* What the state file and the authority file say of a server is so, and a *)
(* recorded server is replaced only when it is dead: of start_x11_server   *)
(* and start_embedded_server, stop and their checks by birth identity.     *)
THEOREM RecordsAreTrue == Spec => []RecordIsTrue
<1>1. ServerInv => ReplacedIsDead
  <2> SUFFICES ASSUME ServerInv, NEW c \in Command,
                      cmd[c].at \in {"write", "prepare", "launch"}, record.state = "started"
               PROVE  ~Running(record.inst)
    BY DEF ReplacedIsDead
  <2> QED BY DEF ServerInv, CommandOK, DeadOK, Replacing, Undoing
<1>2. ServerInv => RecordIsTrue
  BY <1>1 DEF RecordIsTrue, ServerInv, WorldInv
<1> QED BY <1>2, ServerInvariant, PTL
-----------------------------------------------------------------------------
(* The refinement: the command in the lock has its child in hand, and with *)
(* the record that makes at most one managed server.                       *)

Child == IF lock = NoCommand THEN NoInst ELSE cmd[lock].child

LEMMA Hands == ServerInv => \A i \in Inst : InHands(i) <=> Child = i
<1> SUFFICES ASSUME ServerInv, NEW i \in Inst PROVE InHands(i) <=> Child = i
  OBVIOUS
<1>1. ASSUME NEW c \in Command, cmd[c].child = i, cmd[c].at # "exit" PROVE lock = c
  BY <1>1, Types DEF ServerInv, LockInv, CommandOK, ChildOK, Outside
<1>2. lock # NoCommand => lock \in Command /\ cmd[lock].at # "exit"
  BY DEF ServerInv, TypeOK, LockInv, Outside
<1> QED BY <1>1, <1>2, Types DEF InHands, Child

LEMMA HandsNext == ServerInv' => (\A i \in Inst : InHands(i) <=> Child = i)'
BY Hands, PTL

LEMMA AtMostOne == ASSUME ServerInv, NEW i \in Managed, NEW j \in Managed PROVE i = j
<1>1. i \in Inst /\ j \in Inst /\ Running(i) /\ Running(j)
  BY DEF Managed, Server
<1>2. (Recorded(i) \/ Child = i) /\ (Recorded(j) \/ Child = j)
  BY <1>1, Hands DEF Managed
<1>3. Child \in Inst => \E c \in Command : /\ cmd[c].child = Child /\ cmd[c].at \notin Outside
  BY Types DEF Child, ServerInv, TypeOK, LockInv
<1>4. ASSUME record.state = "started", Running(record.inst), Child \in Inst PROVE Child = record.inst
  <2>1. PICK c \in Command : cmd[c].child = Child /\ cmd[c].at \notin Outside
    BY <1>3, <1>4
  <2>2. cmd[c].at \in Launched \cup {"done"}
    BY <1>4, <2>1, Types DEF ServerInv, CommandOK, ChildOK, TypeOK, Places, Outside, Inspecting, Replacing, Undoing, Launched
  <2> QED BY <1>4, <2>1, <2>2, Types DEF ServerInv, CommandOK, ChildOK, DeadOK, Recorded, Outside, Launched, Undoing, Replacing
<1> QED BY <1>1, <1>2, <1>4 DEF Recorded

(* What a step promises: it is one of the abstract lifecycle's, and the    *)
(* servers it makes the lifecycle lose are those of a killed command, or   *)
(* have outlived the attempt to undo their launch.                         *)
Forgiven(i) ==
  \E c \in Command : /\ cmd[c].child = i
                     /\ cmd'[c].at = "idle" \/ cmd[c].at \in Undoing

Promise ==
  /\ Lifecycle!Next \/ UNCHANGED <<Managed, Lost, signalled>>
  /\ \A i \in Lost' \ Lost : Forgiven(i)

LEMMA SameServers ==
  ASSUME ServerInv, ServerInv',
         \A i \in Inst : Server(i)' <=> Server(i),
         \A i \in Inst : Server(i) => (Recorded(i)' \/ Child' = i <=> Recorded(i) \/ Child = i)
  PROVE  Managed' = Managed /\ Lost' = Lost
<1>1. Managed' = Managed
  BY Hands, HandsNext DEF Managed
<1>2. Lost' = Lost
  BY Hands, HandsNext DEF Lost
<1> QED BY <1>1, <1>2

LEMMA KeepStep ==
  ASSUME ServerInv, ServerInv', UNCHANGED signalled,
         \A i \in Inst : Server(i)' <=> Server(i),
         \A i \in Inst : Server(i) => (Recorded(i)' \/ Child' = i <=> Recorded(i) \/ Child = i)
  PROVE  Promise
BY SameServers DEF Promise

(* The command lets its child go, and perhaps it lives.                    *)
LEMMA GiveUpStep ==
  ASSUME ServerInv, ServerInv', UNCHANGED <<record, signalled>>,
         \A i \in Inst : Server(i)' <=> Server(i),
         NEW c \in Command, cmd[c].at \notin Outside, Child' = NoInst,
         cmd'[c].at = "idle" \/ cmd[c].at \in Undoing
  PROVE  Promise
<1>1. Child = cmd[c].child
  BY Types DEF Child, ServerInv, LockInv
<1>2. CASE Child \in Inst /\ Server(Child) /\ ~Recorded(Child)
  <2>1. \A i \in Inst : Recorded(i)' <=> Recorded(i)
    BY DEF Recorded
  <2>2. Child \in Managed
    BY <1>2, Hands DEF Managed
  <2>3. Managed = {Child}
    BY <2>2, AtMostOne
  <2>4. Managed' = {}
    <3> SUFFICES ASSUME NEW i \in Inst, Server(i)', Recorded(i)' PROVE FALSE
      BY HandsNext, Types DEF Managed
    <3>1. i \in Managed
      BY <2>1 DEF Managed
    <3> QED BY <1>2, <2>1, <2>3, <3>1
  <2>5. Lost' = Lost \cup {Child}
    BY <1>2, <2>1, Hands, HandsNext, Types DEF Lost
  <2>6. Lifecycle!Lose
    BY <2>3, <2>4, <2>5 DEF Lifecycle!Lose
  <2> QED BY <1>1, <2>5, <2>6 DEF Lifecycle!Next, Promise, Forgiven
<1>3. CASE ~(Child \in Inst /\ Server(Child) /\ ~Recorded(Child))
  BY <1>3, KeepStep, Types DEF Recorded
<1> QED BY <1>2, <1>3

(* Reaping changes nothing for the servers that run.                       *)
LEMMA ReapKeeps ==
  ASSUME ServerInv, NEW c \in Command, proc' \in {proc, Reaped(c)}, UNCHANGED signalled
  PROVE  \A i \in Inst : Server(i)' <=> Server(i)
<1>1. PICK S \in SUBSET Inst : proc' = Without(S) /\ \A i \in S : ~Running(i)
  BY ReapFacts
<1>2. \A i \in Inst : proc'[i] = IF i \in S THEN NoProcess ELSE proc[i]
  BY <1>1 DEF Without
<1>3. NoProcess.life # "running"
  BY DEF NoProcess
<1> QED BY <1>1, <1>2, <1>3 DEF Server, Running

LEMMA ChildKeeps ==
  ASSUME ServerInv, NEW c \in Command
  PROVE  /\ \A x : Goto(c, x) => cmd'[c].child = cmd[c].child
         /\ GoOn(c) => cmd'[c].child = cmd[c].child
         /\ OpenHandle(c) => cmd'[c].child = cmd[c].child
         /\ Leave(c) => Child' = NoInst
<1>1. \A x : Goto(c, x) => cmd'[c].child = cmd[c].child
  BY Types DEF Goto, CommandType
<1>2. GoOn(c) => cmd'[c].child = cmd[c].child
  BY Types DEF GoOn, CommandType
<1>3. OpenHandle(c) => cmd'[c].child = cmd[c].child
  BY <1>2, Types, ZenonT(40) DEF OpenHandle, CommandType
<1> QED BY <1>1, <1>2, <1>3 DEF Leave, Child

(* The steps that only look, write or leave without a child.               *)
LEMMA LookPromise ==
  ASSUME ServerInv, ServerInv', NEW c \in Command,
         \/ Load(c) \/ Check(c) \/ InspectFails(c) \/ OpenHandle(c) \/ PollHandle(c)
         \/ MatchIdentity(c) \/ WaitedForExit(c) \/ WaitTimesOut(c)
         \/ Prepare(c) \/ LaunchFails(c) \/ Done(c) \/ Register(c) \/ RegisterFails(c)
  PROVE  Promise
<1> USE DEF Load, Check, InspectFails, OpenHandle, PollHandle, MatchIdentity, WaitedForExit,
            WaitTimesOut, Prepare, LaunchFails, Done, Register, RegisterFails
<1>1. /\ cmd[c].at \notin Outside /\ UNCHANGED <<record, signalled>>
      /\ proc' \in {proc, Reaped(c)}
  BY DEF Outside
<1>2. Child = cmd[c].child
  BY <1>1, Types DEF Child, ServerInv, LockInv
<1>3. \/ Leave(c)
      \/ lock' = lock /\ (GoOn(c) \/ OpenHandle(c) \/ \E x : Goto(c, x))
  OBVIOUS
<1>4. CASE Leave(c)
  <2>1. Child' = NoInst
    BY <1>4, ChildKeeps
  <2>2. Child = NoInst \/ Recorded(Child)
    <3>1. cmd[c].at \in {"load", "done"} \cup Inspecting \cup Replacing
      <4>1. ~Register(c) /\ ~RegisterFails(c)
        <5>1. \A x \in {"save", "terminate"} : Goto(c, x) => cmd'[c].at = x
          BY Types, ZenonT(40) DEF Goto, CommandType
        <5> QED BY <1>1, <1>4, <5>1, LeaveFacts
      <4> QED BY <4>1 DEF Inspecting, Replacing
    <3> QED BY <1>2, <3>1 DEF ServerInv, CommandOK, ChildOK
  <2>3. \A i \in Inst : Recorded(i)' <=> Recorded(i)
    BY <1>1 DEF Recorded
  <2> QED BY <1>1, <2>1, <2>2, <2>3, ReapKeeps, KeepStep, Types
<1>5. CASE lock' = lock /\ (GoOn(c) \/ OpenHandle(c) \/ \E x : Goto(c, x))
  <2>1. Child' = Child
    BY <1>1, <1>5, ChildKeeps, Types DEF Child, ServerInv, LockInv
  <2>2. \A i \in Inst : Recorded(i)' <=> Recorded(i)
    BY <1>1 DEF Recorded
  <2> QED BY <1>1, <2>1, <2>2, ReapKeeps, KeepStep
<1> QED BY <1>3, <1>4, <1>5

LEMMA OutsidePromise ==
  ASSUME ServerInv, ServerInv', NEW c \in Command,
         Begin(c) \/ Busy(c) \/ Acquire(c) \/ Exit(c) \/ Kill(c)
  PROVE  Promise
<1>1. UNCHANGED <<record, signalled>> /\ proc' \in {proc, Reaped(c)}
  BY DEF Begin, Busy, Acquire, Exit, Kill
<1>2. \A i \in Inst : (Server(i)' <=> Server(i)) /\ (Recorded(i)' <=> Recorded(i))
  BY <1>1, ReapKeeps DEF Recorded
<1>3. CASE Kill(c) /\ cmd[c].at \notin Outside
  <2>1. cmd'[c].at = "idle" /\ lock' = NoCommand
    BY <1>3, Types, Alone DEF Kill, NotRun
  <2>2. Child' = NoInst
    BY <2>1 DEF Child
  <2> QED BY <1>1, <1>2, <1>3, <2>1, <2>2, GiveUpStep
<1>4. CASE cmd[c].at \in Outside
  <2>1. lock # c /\ \A d \in Command \ {c} : cmd'[d] = cmd[d]
    BY <1>4, Types DEF Begin, Busy, Acquire, Exit, Kill, Goto, ServerInv, LockInv
  <2>2. Child' = Child
    <3>1. CASE Acquire(c)
      <4>1. cmd[c].child = NoInst /\ cmd'[c].child = cmd[c].child
        BY <3>1, ChildKeeps DEF Acquire, ServerInv, CommandOK, ChildOK
      <4> QED BY <3>1, <4>1 DEF Child, Acquire
    <3>2. CASE ~Acquire(c)
      <4>1. lock' = lock
        BY <2>1, <3>2 DEF Begin, Busy, Exit, Kill
      <4> QED BY <2>1, <4>1 DEF Child, ServerInv, TypeOK
    <3> QED BY <3>1, <3>2
  <2> QED BY <1>1, <1>2, <2>2, KeepStep
<1> QED BY <1>3, <1>4 DEF Begin, Busy, Acquire, Exit, Kill, Outside

(* Only the managed server is signalled.                                   *)
LEMMA SignalPromise ==
  ASSUME ServerInv, ServerInv', NEW c \in Command, SendSignal(c) \/ TerminateChild(c)
  PROVE  Promise
<1>1. /\ cmd[c].at \notin Outside /\ CommandOK(c) /\ UNCHANGED <<record, proc, lock>>
      /\ \E x : Goto(c, x)
  BY DEF SendSignal, TerminateChild, Outside, ServerInv
<1>2. Child' = Child /\ Child = cmd[c].child
  BY <1>1, ChildKeeps, Types DEF Child, ServerInv, LockInv
<1>3. \A i \in Inst : (Server(i)' <=> Server(i)) /\ (Recorded(i)' <=> Recorded(i))
  BY <1>1 DEF Server, Running, Recorded
<1>4. Managed' = Managed /\ Lost' = Lost
  BY <1>2, <1>3, SameServers
<1>5. \E i \in Inst : /\ signalled' = signalled \cup {j \in {i} : Running(j)}
                      /\ Recorded(i) \/ Child = i
  <2>1. CASE SendSignal(c)
    <3>1. Recorded(cmd[c].handle) /\ cmd[c].handle \in Inst
      BY <1>1, <2>1 DEF SendSignal, CommandOK, HandleOK, Inspecting, ServerInv, TypeOK, Recorded
    <3> QED BY <2>1, <3>1 DEF SendSignal
  <2>2. CASE TerminateChild(c)
    <3>1. cmd[c].child \in Inst
      BY <1>1, <2>2, Types DEF TerminateChild, CommandOK, ChildOK, Launched, Undoing, CommandType
    <3> QED BY <1>2, <2>2, <3>1 DEF TerminateChild
  <2> QED BY <2>1, <2>2
<1>6. PICK i \in Inst : /\ signalled' = signalled \cup {j \in {i} : Running(j)}
                        /\ Recorded(i) \/ Child = i
  BY <1>5
<1>7. CASE Running(i)
  <2>1. i \in signalled'
    BY <1>6, <1>7
  <2>2. Server(i)
    BY <1>3, <2>1 DEF ServerInv, WorldInv, SignalInv
  <2>3. Managed = {i}
    <3>1. i \in Managed
      BY <1>6, <2>2, Hands DEF Managed
    <3> QED BY <3>1, AtMostOne
  <2>4. Lifecycle!Signal
    BY <1>4, <1>6, <1>7, <2>3 DEF Lifecycle!Signal
  <2> QED BY <1>4, <2>4 DEF Promise, Lifecycle!Next
<1>8. CASE ~Running(i)
  BY <1>4, <1>6, <1>8 DEF Promise
<1> QED BY <1>7, <1>8

LEMMA LaunchPromise ==
  ASSUME ServerInv, ServerInv', NEW c \in Command, Launch(c) PROVE Promise
<1> USE DEF Launch
<1>1. /\ cmd[c].at \notin Outside /\ CommandOK(c) /\ cmd[c].child = NoInst
      /\ (record.state = "started" => ~Running(record.inst))
  BY DEF Outside, ServerInv, CommandOK, ChildOK, DeadOK, Replacing, Undoing
<1>2. Child = NoInst /\ Child' = made + 1
  <2>1. cmd'[c].child = made + 1
    BY Types DEF CommandType
  <2> QED BY <1>1, <2>1, Types DEF Child, ServerInv, LockInv
<1>3. /\ made + 1 \in Inst /\ ~Running(made + 1)
      /\ \A i \in Inst \ {made + 1} : proc'[i] = proc[i]
      /\ proc'[made + 1].kind = "server" /\ proc'[made + 1] # NoProcess
  BY BirthFacts DEF Running, NoProcess
<1>4. proc'[made + 1].life = "running"
  <2>1. \E p : proc'[made + 1] = [pid |-> p, kind |-> "server", life |-> "running"]
    BY <1>3, Types DEF Birth
  <2> QED BY <2>1
<1>5. \A i \in Inst : /\ Server(i)' <=> Server(i) \/ i = made + 1
                      /\ Recorded(i)' <=> Recorded(i)
  BY <1>3, <1>4 DEF Server, Running, Recorded
<1>6. Managed = {}
  BY <1>1, <1>2, Hands, Types DEF Managed, Server, Recorded
<1>7. Managed' = {made + 1}
  BY <1>1, <1>2, <1>3, <1>5, HandsNext DEF Managed, Server, Recorded
<1>8. Lost' = Lost /\ made + 1 \notin Lost
  BY <1>1, <1>2, <1>3, <1>5, Hands, HandsNext, Types DEF Lost, Server, Recorded
<1>9. Lifecycle!Launch
  BY <1>3, <1>6, <1>7, <1>8 DEF Lifecycle!Launch
<1> QED BY <1>8, <1>9 DEF Promise, Lifecycle!Next

(* The record is only ever written over a server that does not run.        *)
LEMMA RecordPromise ==
  ASSUME ServerInv, ServerInv', NEW c \in Command, WriteStopped(c) \/ Save(c) \/ SaveFails(c)
  PROVE  Promise
<1>1. /\ cmd[c].at \notin Outside /\ UNCHANGED <<proc, signalled>>
      /\ record.state = "started" => ~Running(record.inst)
  BY DEF WriteStopped, Save, SaveFails, Outside, ServerInv, CommandOK, DeadOK, Replacing, Launched, Undoing
<1>2. Child = cmd[c].child
  BY <1>1, Types DEF Child, ServerInv, LockInv
<1>3. \A i \in Inst : (Server(i)' <=> Server(i)) /\ (Server(i) => ~Recorded(i))
  BY <1>1 DEF Server, Running, Recorded
<1>4. CASE WriteStopped(c)
  <2>1. Child = NoInst /\ Child' = NoInst
    <3>1. cmd[c].child = NoInst
      BY <1>4 DEF WriteStopped, ServerInv, CommandOK, ChildOK, Replacing
    <3>2. Child' = NoInst \/ (lock' = lock /\ cmd'[c].child = cmd[c].child)
      BY <1>4, ChildKeeps DEF WriteStopped
    <3> QED BY <1>1, <1>2, <3>1, <3>2, Types DEF Child, ServerInv, LockInv
  <2>2. \A i \in Inst : Server(i) => ~Recorded(i)'
    <3>1. record' \in {record, Stopped} /\ Stopped.state = "stopped"
      BY <1>4 DEF WriteStopped, Stopped, NoRecord
    <3> QED BY <1>3, <3>1 DEF Recorded
  <2> QED BY <1>1, <1>3, <2>1, <2>2, KeepStep
<1>5. CASE Save(c) \/ SaveFails(c)
  <2>1. Child' = Child
    BY <1>1, <1>2, <1>5, ChildKeeps, Types DEF Save, SaveFails, Child, ServerInv, LockInv
  <2>2. \A i \in Inst : Server(i) /\ Recorded(i)' => i = Child
    BY <1>2, <1>3, <1>5 DEF Save, SaveFails, Started, Recorded
  <2> QED BY <1>1, <1>3, <2>1, <2>2, KeepStep
<1> QED BY <1>4, <1>5

LEMMA UndoPromise ==
  ASSUME ServerInv, ServerInv', NEW c \in Command, ChildReaped(c) \/ ChildStays(c) PROVE Promise
<1>1. /\ cmd[c].at \in Undoing /\ cmd[c].at \notin Outside /\ UNCHANGED <<record, signalled>>
      /\ proc' \in {proc, Reaped(c)} /\ Leave(c)
  BY DEF ChildReaped, ChildStays, Undoing, Outside
<1> QED BY <1>1, ReapKeeps, ChildKeeps, GiveUpStep

(* Processes exit, one or all: what was sent to them is forgotten.         *)
LEMMA GonePromise ==
  ASSUME ServerInv, ServerInv', NEW S,
         \A i \in Inst : Server(i)' <=> Server(i) /\ i \notin S,
         signalled' = signalled \ S, UNCHANGED record,
         \/ \E i \in Inst : S = {i} /\ Child' = Child
         \/ S = Inst
  PROVE  Promise
<1>1. \A i \in Inst : Recorded(i)' <=> Recorded(i)
  BY DEF Recorded
<1>2. Managed' = Managed \ S /\ Lost' = Lost \ S
  BY <1>1, Hands, HandsNext DEF Managed, Lost
<1>3. signalled \subseteq Managed \cup Lost
  BY DEF ServerInv, TypeOK, WorldInv, SignalInv, Managed, Lost
<1>4. Managed' \in {Managed, {}}
  <2>1. CASE \E i \in Inst : S = {i}
    <3>1. PICK i \in Inst : S = {i}
      BY <2>1
    <3> QED BY <1>2, <3>1, AtMostOne
  <2>2. CASE S = Inst
    BY <1>2, <2>2 DEF Managed
  <2> QED BY <2>1, <2>2
<1>5. Lifecycle!Exit
  BY <1>2, <1>3, <1>4 DEF Lifecycle!Exit
<1> QED BY <1>2, <1>5 DEF Promise, Lifecycle!Next

LEMMA HostPromise ==
  ASSUME ServerInv, ServerInv',
         (\E i \in Inst : ProcessExits(i)) \/ ForeignStarts \/ Reboot
  PROVE  Promise
<1>1. ASSUME NEW i \in Inst, ProcessExits(i) PROVE Promise
  <2> USE <1>1 DEF ProcessExits
  <2>1. \A j \in Inst \ {i} : proc'[j] = proc[j]
    BY Types DEF Without
  <2>2. proc'[i].life # "running"
    <3>1. CASE proc' = Without({i})
      <4>1. proc'[i] = NoProcess
        BY <3>1 DEF Without
      <4> QED BY <4>1 DEF NoProcess
    <3>2. CASE proc' = [proc EXCEPT ![i].life = "zombie"]
      BY <3>2, Types, ZenonT(40) DEF ProcessType
    <3> QED BY <3>1, <3>2
  <2>3. \A j \in Inst : Server(j)' <=> Server(j) /\ j \notin {i}
    BY <2>1, <2>2 DEF Server, Running
  <2>4. Child' = Child
    BY DEF Child
  <2> QED BY <2>3, <2>4, GonePromise
<1>2. CASE ForeignStarts
  <2>1. /\ \A i \in Inst \ {made + 1} : proc'[i] = proc[i]
        /\ proc'[made + 1].kind = "foreign" /\ proc[made + 1] = NoProcess
    BY <1>2, BirthFacts DEF ForeignStarts
  <2>2. \A i \in Inst : (Server(i)' <=> Server(i)) /\ (Recorded(i)' <=> Recorded(i))
    BY <1>2, <2>1 DEF ForeignStarts, Server, Running, Recorded, NoProcess
  <2>3. Child' = Child
    BY <1>2 DEF ForeignStarts, Child
  <2> QED BY <1>2, <2>2, <2>3, KeepStep DEF ForeignStarts
<1>3. CASE Reboot
  <2>1. \A i \in Inst : proc'[i] = NoProcess
    BY <1>3 DEF Reboot, Without
  <2>2. \A i \in Inst : ~Server(i)'
    BY <2>1 DEF Server, NoProcess
  <2>3. signalled' = signalled \ Inst
    BY <1>3 DEF Reboot, ServerInv, TypeOK
  <2> QED BY <1>3, <2>2, <2>3, GonePromise DEF Reboot
<1> QED BY <1>1, <1>2, <1>3

LEMMA EveryPromise == ServerInv /\ ServerInv' /\ [Next]_vars => Promise
<1> SUFFICES ASSUME ServerInv, ServerInv', [Next]_vars PROVE Promise
  OBVIOUS
<1>1. ASSUME NEW c \in Command, Begin(c) \/ Step(c) \/ Kill(c) PROVE Promise
  BY <1>1, OutsidePromise, LookPromise, SignalPromise, LaunchPromise, RecordPromise, UndoPromise
  DEF Step
<1>2. CASE UNCHANGED vars
  <2>1. UNCHANGED <<Managed, Lost, signalled>>
    BY <1>2 DEF vars, Managed, Lost, Server, Running, Recorded, InHands
  <2> QED BY <2>1 DEF Promise
<1> QED BY <1>1, <1>2, HostPromise DEF Next

(* No server is forgotten, but by the kill of the command that launched it *)
(* before it was recorded, or by outliving terminate_owned_process.        *)
THEOREM ServersAreNotForgotten == Spec => NoServerForgotten
<1> DEFINE Kept == \A i \in Lost' \ Lost : Forgiven(i)
<1>1. ServerInv /\ ServerInv' /\ [Next]_vars => [Kept]_vars
  BY EveryPromise DEF Promise
<1> HIDE DEF Kept
<1>2. Spec => [][Kept]_vars
  BY <1>1, ServerInvariant, PTL DEF Spec
<1> QED BY <1>2 DEF NoServerForgotten, Kept, Forgiven, Undoing

(* The commands and their processes implement ManagedServer: at most one   *)
(* server is managed, and only that one is ever signalled.                 *)
THEOREM Refinement == Spec => AbstractSpec
<1>1. Init => Lifecycle!Init
  <2> SUFFICES ASSUME Init PROVE Managed = {} /\ Lost = {} /\ signalled = {}
    BY DEF Lifecycle!Init
  <2>1. \A i \in Inst : ~Server(i)
    BY DEF Init, Server, NoProcess
  <2> QED BY <2>1 DEF Init, Managed, Lost
<1>2. ServerInv /\ ServerInv' /\ [Next]_vars => [Lifecycle!Next]_(Lifecycle!vars)
  BY EveryPromise DEF Promise, Lifecycle!vars
<1> QED BY <1>1, <1>2, ServerInvariant, PTL DEF Spec, AbstractSpec, Lifecycle!Spec
=============================================================================
