--------------------------- MODULE ServerLifecycle ---------------------------
(***************************************************************************)
(* Start and stop of a managed server: an embedded server (moba_servers.py)*)
(* or the X server (x11.py), one state file each, on a Linux host.         *)
(*                                                                         *)
(* Every command is a process of its own that takes the lock of the state  *)
(* file, works, and exits; the servers it launches live on.  A process     *)
(* instance is what a birth identity names (process_status.py); PIDs are   *)
(* fewer and are reused.  A child that has exited keeps its PID until the  *)
(* command that launched it reaps it or exits.                             *)
(***************************************************************************)
EXTENDS Naturals

CONSTANTS Command,    \* the processes that run start and stop commands
          Pid,        \* process numbers, reused
          MaxInst,    \* bound: processes created, servers and foreign ones
          NoCommand,
          NoPid

Inst == 1 .. MaxInst
NoInst == 0

ASSUME LifecycleAssumption == /\ MaxInst \in Nat
                              /\ NoCommand \notin Command /\ NoPid \notin Pid

VARIABLES service,    \* which of the two the state file is for
          proc,       \* proc[i]: PID, owner and life of process instance i
          made,       \* the number of instances so far
          record,     \* the state file
          cookie,     \* the server launched with the cookie in the authority file
          lock,       \* the command inside the lock of the state file
          cmd,        \* cmd[c]: what command c does and has in hand
          signalled   \* history: the running instances that were sent a signal

vars == <<service, proc, made, record, cookie, lock, cmd, signalled>>

NotRun == [op |-> "none", at |-> "idle", child |-> NoInst, handle |-> NoInst]
NoRecord == [state |-> "none", inst |-> NoInst, pid |-> NoPid]
Stopped == [NoRecord EXCEPT !.state = "stopped"]
NoProcess == [pid |-> NoPid, kind |-> "none", life |-> "none"]

Init == /\ service \in {"embedded", "x11"}
        /\ proc = [i \in Inst |-> NoProcess]
        /\ made = 0
        /\ record = NoRecord
        /\ cookie = NoInst
        /\ lock = NoCommand
        /\ cmd = [c \in Command |-> NotRun]
        /\ signalled = {}

-----------------------------------------------------------------------------
(* Processes and their numbers.                                            *)

Running(i) == proc[i].life = "running"

(* A process number is taken while its process runs or waits to be reaped. *)
Occupant(p) == {i \in Inst : proc[i].pid = p}

(* The processes once those of S are gone and their numbers are free. *)
Without(S) == [i \in Inst |-> IF i \in S THEN NoProcess ELSE proc[i]]

Birth(kind) ==
  /\ made < MaxInst
  /\ made' = made + 1
  /\ \E p \in Pid :
       /\ Occupant(p) = {}
       /\ proc' = [proc EXCEPT ![made + 1] = [pid |-> p, kind |-> kind, life |-> "running"]]

ForeignStarts ==
  /\ Birth("foreign")
  /\ UNCHANGED <<service, record, cookie, lock, cmd, signalled>>

(* Any process may end at any time; a child stays until it is reaped. *)
ProcessExits(i) ==
  /\ Running(i)
  /\ proc' = IF \E c \in Command : cmd[c].child = i
               THEN [proc EXCEPT ![i].life = "zombie"] ELSE Without({i})
  /\ signalled' = signalled \ {i}
  /\ UNCHANGED <<service, made, record, cookie, lock, cmd>>

(* The processes once c has reaped its child, or has left it to others. *)
Reaped(c) == Without({i \in Inst : i = cmd[c].child /\ ~Running(i)})

(* What /proc says of the recorded process. *)
Status == IF Occupant(record.pid) = {} THEN "exited"
          ELSE IF record.inst \notin Occupant(record.pid) THEN "other"
          ELSE IF Running(record.inst) THEN "running" ELSE "exited"

-----------------------------------------------------------------------------
(* A command: it waits for the lock, works, leaves the lock and exits.     *)

Goto(c, at) == cmd' = [cmd EXCEPT ![c].at = at]

(* An exception, or the end of the body. *)
Leave(c) == /\ cmd' = [cmd EXCEPT ![c] = [NotRun EXCEPT !.at = "exit", !.child = cmd[c].child]]
            /\ lock' = NoCommand

Begin(c) ==
  /\ cmd[c].at = "idle"
  /\ \E op \in {"start", "stop"} : cmd' = [cmd EXCEPT ![c] = [NotRun EXCEPT !.op = op, !.at = "lock"]]
  /\ UNCHANGED <<service, proc, made, record, cookie, lock, signalled>>

Acquire(c) ==
  /\ cmd[c].at = "lock" /\ lock = NoCommand
  /\ lock' = c /\ Goto(c, "load")
  /\ UNCHANGED <<service, proc, made, record, cookie, signalled>>

Busy(c) ==
  /\ cmd[c].at = "lock" /\ lock # NoCommand
  /\ cmd' = [cmd EXCEPT ![c] = [NotRun EXCEPT !.at = "exit"]]
  /\ UNCHANGED <<service, proc, made, record, cookie, lock, signalled>>

Exit(c) ==
  /\ cmd[c].at = "exit"
  /\ cmd' = [cmd EXCEPT ![c] = NotRun]
  /\ proc' = Reaped(c)
  /\ UNCHANGED <<service, made, record, cookie, lock, signalled>>

(* The first step of a launch; only the X server has an authority file. *)
FirstOfLaunch == IF service = "x11" THEN "prepare" ELSE "launch"

(* The recorded process, if any, is dead: a start launches, a stop writes. *)
GoOn(c) == cmd' = [cmd EXCEPT ![c].at = IF cmd[c].op = "start" THEN FirstOfLaunch ELSE "write",
                              ![c].handle = NoInst]

(* Loading the record checks that its PID is not another process's. *)
Load(c) ==
  /\ cmd[c].at = "load"
  /\ \/ /\ record.state = "none"
        /\ IF cmd[c].op = "start" THEN Goto(c, FirstOfLaunch) /\ lock' = lock ELSE Leave(c)
     \/ /\ record.state = "stopped"
        /\ GoOn(c) /\ lock' = lock
     \/ /\ record.state = "started"
        /\ IF Status = "other"
             THEN Leave(c)
             ELSE Goto(c, IF cmd[c].op = "start" THEN "check" ELSE "open") /\ lock' = lock
  /\ UNCHANGED <<service, proc, made, record, cookie, signalled>>

(* A running server is not replaced. *)
Check(c) ==
  /\ cmd[c].at = "check"
  /\ IF Status = "exited" THEN Goto(c, "open") /\ lock' = lock ELSE Leave(c)
  /\ UNCHANGED <<service, proc, made, record, cookie, signalled>>

(* Mutant: a process of which the system does not tell is taken for dead. *)
InspectFailsDead(c) ==
  /\ cmd[c].at \in {"check", "open", "poll", "match"}
  /\ GoOn(c)
  /\ UNCHANGED <<service, proc, made, record, cookie, lock, signalled>>

(* The system refuses to tell, or to open a handle. *)
InspectFails(c) ==
  /\ cmd[c].at \in {"load", "check", "open", "poll", "match"}
  /\ record.state = "started"
  /\ Leave(c)
  /\ UNCHANGED <<service, proc, made, record, cookie, signalled>>

-----------------------------------------------------------------------------
(* terminate_recorded_process: a handle, then the identity, then a signal  *)
(* through the handle.                                                     *)

OpenHandle(c) ==
  /\ cmd[c].at = "open"
  /\ LET owner == Occupant(record.pid)
     IN IF owner = {}
          THEN GoOn(c)
          ELSE \E j \in owner : cmd' = [cmd EXCEPT ![c].handle = j, ![c].at = "poll"]
  /\ UNCHANGED <<service, proc, made, record, cookie, lock, signalled>>

PollHandle(c) ==
  /\ cmd[c].at = "poll"
  /\ IF Running(cmd[c].handle) THEN Goto(c, "match") ELSE GoOn(c)
  /\ UNCHANGED <<service, proc, made, record, cookie, lock, signalled>>

MatchIdentity(c) ==
  /\ cmd[c].at = "match"
  /\ \/ Status = "other" /\ Leave(c)
     \/ Status = "exited" /\ GoOn(c) /\ lock' = lock
     \/ Status = "running" /\ Goto(c, "signal") /\ lock' = lock
  /\ UNCHANGED <<service, proc, made, record, cookie, signalled>>

(* Mutant: the signal goes to the number, not through the handle. *)
SendSignalToPid(c) ==
  /\ cmd[c].at = "signal"
  /\ signalled' = signalled \cup Occupant(record.pid)
  /\ Goto(c, "wait")
  /\ UNCHANGED <<service, proc, made, record, cookie, lock>>

SendSignal(c) ==
  /\ cmd[c].at = "signal"
  /\ signalled' = signalled \cup {j \in {cmd[c].handle} : Running(j)}
  /\ Goto(c, "wait")
  /\ UNCHANGED <<service, proc, made, record, cookie, lock>>

WaitedForExit(c) ==
  /\ cmd[c].at = "wait" /\ ~Running(cmd[c].handle)
  /\ GoOn(c)
  /\ UNCHANGED <<service, proc, made, record, cookie, lock, signalled>>

(* Mutant: the wait has no deadline. *)
WaitForEver(c) ==
  /\ cmd[c].at = "wait" /\ Running(cmd[c].handle)
  /\ UNCHANGED vars

WaitTimesOut(c) ==
  /\ cmd[c].at = "wait" /\ Running(cmd[c].handle)
  /\ Leave(c)
  /\ UNCHANGED <<service, proc, made, record, cookie, signalled>>

(* The write of the stopped record, all or nothing, may fail either way.   *)
WriteStopped(c) ==
  /\ cmd[c].at = "write"
  /\ \/ record' = Stopped /\ Goto(c, "done") /\ lock' = lock
     \/ record' \in {record, Stopped} /\ Leave(c)
  /\ UNCHANGED <<service, proc, made, cookie, signalled>>

-----------------------------------------------------------------------------
(* The launch, and what undoes it when it cannot be recorded.              *)

(* A new cookie replaces the one in the file: no server has been launched  *)
(* with it yet.                                                            *)
Prepare(c) ==
  /\ cmd[c].at = "prepare"
  /\ \/ cookie' = NoInst /\ Goto(c, "launch") /\ lock' = lock
     \/ cookie' \in {cookie, NoInst} /\ Leave(c)
  /\ UNCHANGED <<service, proc, made, record, signalled>>

Launch(c) ==
  /\ cmd[c].at = "launch"
  /\ Birth("server")
  /\ cmd' = [cmd EXCEPT ![c].child = made + 1, ![c].at = "register"]
  /\ cookie' = IF service = "x11" THEN made + 1 ELSE cookie
  /\ UNCHANGED <<service, record, lock, signalled>>

LaunchFails(c) ==
  /\ cmd[c].at = "launch"
  /\ Leave(c)
  /\ UNCHANGED <<service, proc, made, record, cookie, signalled>>

(* The identity of the child is captured, and the child is still there. *)
Register(c) ==
  /\ cmd[c].at = "register" /\ Running(cmd[c].child)
  /\ Goto(c, "save")
  /\ UNCHANGED <<service, proc, made, record, cookie, lock, signalled>>

(* Looking may reap the child, and free its number. *)
RegisterFails(c) ==
  /\ cmd[c].at = "register"
  /\ Goto(c, "terminate")
  /\ proc' \in {proc, Reaped(c)}
  /\ UNCHANGED <<service, made, record, cookie, lock, signalled>>

Started(c) == [state |-> "started", inst |-> cmd[c].child, pid |-> proc[cmd[c].child].pid]

Save(c) ==
  /\ cmd[c].at = "save"
  /\ record' = Started(c)
  /\ Goto(c, "done")
  /\ UNCHANGED <<service, proc, made, cookie, lock, signalled>>

(* Mutant: a failed save leaves the child alone. *)
SaveFailsOnly(c) ==
  /\ cmd[c].at = "save"
  /\ record' \in {record, Started(c)}
  /\ Leave(c)
  /\ UNCHANGED <<service, proc, made, cookie, signalled>>

(* The write fails, possibly after it has taken effect. *)
SaveFails(c) ==
  /\ cmd[c].at = "save"
  /\ record' \in {record, Started(c)}
  /\ Goto(c, "terminate")
  /\ UNCHANGED <<service, proc, made, cookie, lock, signalled>>

(* terminate_owned_process: SIGTERM, half the time, SIGKILL, the rest. *)
TerminateChild(c) ==
  /\ \/ cmd[c].at = "terminate" /\ Goto(c, "grace")
     \/ cmd[c].at = "grace" /\ Goto(c, "killed")
  /\ signalled' = signalled \cup {i \in {cmd[c].child} : Running(i)}
  /\ UNCHANGED <<service, proc, made, record, cookie, lock>>

ChildReaped(c) ==
  /\ cmd[c].at \in {"grace", "killed"} /\ ~Running(cmd[c].child)
  /\ proc' = Reaped(c)
  /\ Leave(c)
  /\ UNCHANGED <<service, made, record, cookie, signalled>>

(* The deadline passes, or the child cannot be signalled. *)
ChildStays(c) ==
  /\ cmd[c].at \in {"terminate", "grace", "killed"}
  /\ Leave(c)
  /\ UNCHANGED <<service, proc, made, record, cookie, signalled>>

Done(c) ==
  /\ cmd[c].at = "done"
  /\ Leave(c)
  /\ UNCHANGED <<service, proc, made, record, cookie, signalled>>

-----------------------------------------------------------------------------
(* A command is killed at any step; the host restarts.                     *)

Kill(c) ==
  /\ cmd[c].at \notin {"idle", "exit"}
  /\ cmd' = [cmd EXCEPT ![c] = NotRun]
  /\ lock' = IF lock = c THEN NoCommand ELSE lock
  /\ proc' = Reaped(c)
  /\ UNCHANGED <<service, made, record, cookie, signalled>>

Reboot ==
  /\ proc' = Without(Inst) /\ signalled' = {}
  /\ cmd' = [c \in Command |-> NotRun]
  /\ lock' = NoCommand
  /\ UNCHANGED <<service, made, record, cookie>>

-----------------------------------------------------------------------------

(* What a command does by itself, each wait with its deadline. *)
Step(c) ==
  \/ Acquire(c) \/ Busy(c) \/ Exit(c) \/ Done(c)
  \/ Load(c) \/ Check(c) \/ InspectFails(c)
  \/ OpenHandle(c) \/ PollHandle(c) \/ MatchIdentity(c) \/ SendSignal(c)
  \/ WaitedForExit(c) \/ WaitTimesOut(c) \/ WriteStopped(c)
  \/ Prepare(c) \/ Launch(c) \/ LaunchFails(c) \/ Register(c) \/ RegisterFails(c)
  \/ Save(c) \/ SaveFails(c)
  \/ TerminateChild(c) \/ ChildReaped(c) \/ ChildStays(c)

Next == \/ \E c \in Command : Begin(c) \/ Step(c) \/ Kill(c)
        \/ \E i \in Inst : ProcessExits(i)
        \/ ForeignStarts \/ Reboot

Spec == Init /\ [][Next]_vars

FairSpec == Spec /\ \A c \in Command : WF_vars(Step(c))

-----------------------------------------------------------------------------
(* Properties.                                                             *)

Places == {"idle", "lock", "load", "check", "open", "poll", "match", "signal", "wait",
           "write", "prepare", "launch", "register", "save", "terminate", "grace",
           "killed", "done", "exit"}

(* The fields hold what the code assigns to them. *)
TypeOK ==
  /\ service \in {"embedded", "x11"}
  /\ proc \in [Inst -> [pid : Pid \cup {NoPid}, kind : {"none", "server", "foreign"},
                        life : {"none", "running", "zombie"}]]
  /\ made \in 0 .. MaxInst
  /\ record \in [state : {"none", "started", "stopped"}, inst : Inst \cup {NoInst},
                  pid : Pid \cup {NoPid}]
  /\ record.state = "started" <=> record.inst # NoInst
  /\ cookie \in Inst \cup {NoInst}
  /\ lock \in Command \cup {NoCommand}
  /\ cmd \in [Command -> [op : {"none", "start", "stop"}, at : Places,
                          child : Inst \cup {NoInst}, handle : Inst \cup {NoInst}]]
  /\ signalled \subseteq Inst

Server(i) == proc[i].kind = "server" /\ Running(i)
Recorded(i) == record.state = "started" /\ record.inst = i
InHands(i) == \E c \in Command : cmd[c].child = i /\ cmd[c].at # "exit"
Managed == {i \in Inst : Server(i) /\ (Recorded(i) \/ InHands(i))}
Lost == {i \in Inst : Server(i) /\ ~Recorded(i) /\ ~InHands(i)}

(* A command that is about to launch over a recorded server, or to record  *)
(* it as stopped, is right that it is dead: whatever was seen of its PID at *)
(* the checks, the handle and the wait, it does not run when it is replaced.*)
ReplacedIsDead ==
  \A c \in Command :
    cmd[c].at \in {"write", "prepare", "launch"} /\ record.state = "started"
      => ~Running(record.inst)

(* No server is forgotten: whatever fails, is killed or reuses a PID, a    *)
(* server stops being managed while it runs only if the command that       *)
(* launched it is killed before its record is written, or if the server    *)
(* outlives the attempt to undo the launch.                                *)
NoServerForgotten ==
  [][\A i \in Lost' \ Lost :
       \E c \in Command : /\ cmd[c].child = i
                          /\ cmd'[c].at = "idle" \/ cmd[c].at \in {"terminate", "grace", "killed"}]_vars

(* The clients of the recorded X server find its cookie in the file.       *)
CookieFits ==
  service = "x11" => \A i \in Inst : Server(i) /\ Recorded(i) => cookie = i

(* What the record and the authority file say of a server is so.           *)
RecordIsTrue == TypeOK /\ ReplacedIsDead /\ CookieFits

(* At most one server is managed, and only that one is ever signalled.     *)
Lifecycle == INSTANCE ManagedServer WITH up <- Managed, lost <- Lost

AbstractSpec == Lifecycle!Spec

(* Every command ends by its own deadlines, whatever the server does.      *)
CommandsEnd == \A c \in Command : cmd[c].at # "idle" ~> cmd[c].at = "idle"
=============================================================================
