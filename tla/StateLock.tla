------------------------------ MODULE StateLock ------------------------------
(***************************************************************************)
(* state_lock.exclusive_file_lock: the lock behind every persistent store. *)
(*                                                                         *)
(* Two locks are stacked.  A per-file re-entrant lock serializes the       *)
(* threads of one process; an advisory lock on an adjacent file, taken     *)
(* through a descriptor of its own, serializes the processes.  A thread    *)
(* that already holds the file only counts.  `_registry_guard` keeps the   *)
(* set of descriptors complete at every fork, so that the child can close  *)
(* its copies.                                                             *)
(*                                                                         *)
(* A thread is identified across the whole machine and ProcessOf says in   *)
(* which process it runs; the child's image of a forking thread is another *)
(* member of Thread.  A descriptor is an open file description: it lives   *)
(* as long as one process has it open, and an advisory lock lives as long  *)
(* as its description (flock(2)).                                          *)
(***************************************************************************)
EXTENDS Naturals

CONSTANTS
  Thread,      \* threads of all processes
  Process,     \* process slots; a slot is reused after its process is gone
  ProcessOf,   \* the process a thread runs in
  Key,         \* lock files (canonical paths)
  Desc,        \* open file descriptions
  MaxDepth,    \* bound: nested acquisitions of one file by one thread
  NoThread, NoKey, NoDesc

ASSUME StateLockAssumption ==
  /\ ProcessOf \in [Thread -> Process]
  /\ MaxDepth \in Nat \ {0}
  /\ NoThread \notin Thread
  /\ NoKey \notin Key
  /\ NoDesc \notin Desc

VARIABLES
  status,      \* of a process: "absent", "running", or "forked" (child whose
               \* after_in_child hook has not run yet)
  guard,       \* the thread inside `_registry_guard` of a process
  owner,       \* `_thread_locks`: the owner of each RLock of a process ...
  count,       \* ... and its recursion count
  held,        \* `_thread_state.held` of a thread
  fd,          \* the descriptions a process has open
  registered,  \* `_active_lock_descriptors` of a process
  pc,          \* where a thread is in exclusive_file_lock
  target,      \* the file of the call in progress
  mine,        \* local `descriptor` of a thread's outermost call for a file
  lock,        \* the description that has the advisory lock of a file
  inherited    \* bodies a child was forked in: it runs them without the lock

vars == <<status, guard, owner, count, held, fd, registered, pc, target, mine,
          lock, inherited>>

Threads(p) == {t \in Thread : ProcessOf[t] = p}

(* "run": in the caller's code, inside or outside `with` bodies.           *)
Acquiring == {"wait", "open", "register", "poll"}
Releasing == {"unlock", "close", "release"}
PC == {"run", "abort"} \cup Acquiring \cup Releasing

Running(t) == status[ProcessOf[t]] = "running"

GuardFree(t) == guard[ProcessOf[t]] = NoThread

SetGuard(t, holder) == guard' = [guard EXCEPT ![ProcessOf[t]] = holder]

(* The owner recorded in the RLock of the file t is working on.            *)
RLockOwner(t) == owner[ProcessOf[t]][target[t]]

Goto(t, label) == pc' = [pc EXCEPT ![t] = label]

(* RLock.release: the owner leaves when its count returns to zero.         *)
ReleaseRLock(t, k) ==
  LET p == ProcessOf[t] IN
  /\ count' = [count EXCEPT ![p][k] = @ - 1]
  /\ owner' = [owner EXCEPT ![p][k] = IF count[p][k] = 1 THEN NoThread ELSE @]

(* The kernel drops the lock of a description nobody has open any more.    *)
Surviving(open) ==
  [k \in Key |-> IF \E p \in Process : lock[k] \in open[p] THEN lock[k]
                                                           ELSE NoDesc]

Init ==
  /\ status = [p \in Process |-> "absent"]
  /\ guard = [p \in Process |-> NoThread]
  /\ owner = [p \in Process |-> [k \in Key |-> NoThread]]
  /\ count = [p \in Process |-> [k \in Key |-> 0]]
  /\ held = [t \in Thread |-> [k \in Key |-> 0]]
  /\ fd = [p \in Process |-> {}]
  /\ registered = [p \in Process |-> {}]
  /\ pc = [t \in Thread |-> "run"]
  /\ target = [t \in Thread |-> NoKey]
  /\ mine = [t \in Thread |-> [k \in Key |-> NoDesc]]
  /\ lock = [k \in Key |-> NoDesc]
  /\ inherited = [t \in Thread |-> {}]

-------------------------------------------------------------------------------
(* Entering the context manager.                                           *)

(* `_thread_lock_for` takes the guard for a moment.                        *)
Enter(t, k) ==
  /\ Running(t) /\ pc[t] = "run" /\ GuardFree(t)
  /\ held[t][k] < MaxDepth
  /\ Goto(t, "wait")
  /\ target' = [target EXCEPT ![t] = k]
  /\ UNCHANGED <<status, guard, owner, count, held, fd, registered, mine, lock,
                 inherited>>

TakeRLock(t) ==
  LET p == ProcessOf[t]
      k == target[t]
  IN
  /\ RLockOwner(t) \in {NoThread, t}
  /\ owner' = [owner EXCEPT ![p][k] = t]
  /\ count' = [count EXCEPT ![p][k] = @ + 1]

(* Re-entry: the thread holds the file already, it only counts.            *)
Reenter(t) ==
  /\ Running(t) /\ pc[t] = "wait"
  /\ held[t][target[t]] > 0
  /\ TakeRLock(t)
  /\ held' = [held EXCEPT ![t][target[t]] = @ + 1]
  /\ Goto(t, "run")
  /\ target' = [target EXCEPT ![t] = NoKey]
  /\ UNCHANGED <<status, guard, fd, registered, mine, lock, inherited>>

AcquireThreadLock(t) ==
  /\ Running(t) /\ pc[t] = "wait"
  /\ held[t][target[t]] = 0
  /\ TakeRLock(t)
  /\ Goto(t, "open")
  /\ UNCHANGED <<status, guard, held, fd, registered, target, mine, lock,
                 inherited>>

ThreadLockTimeout(t) ==
  /\ Running(t) /\ pc[t] = "wait"
  /\ RLockOwner(t) \notin {NoThread, t}
  /\ Goto(t, "run")
  /\ target' = [target EXCEPT ![t] = NoKey]
  /\ UNCHANGED <<status, guard, owner, count, held, fd, registered, mine, lock,
                 inherited>>

(* `_open_lock_file`, under the guard; the descriptor exists before it is  *)
(* registered, but no fork can come between.                               *)
OpenLockFile(t) ==
  /\ Running(t) /\ pc[t] = "open" /\ GuardFree(t)
  /\ \E d \in Desc :
       /\ \A p \in Process : d \notin fd[p]
       /\ fd' = [fd EXCEPT ![ProcessOf[t]] = @ \cup {d}]
       /\ mine' = [mine EXCEPT ![t][target[t]] = d]
  /\ SetGuard(t, t)
  /\ Goto(t, "register")
  /\ UNCHANGED <<status, owner, count, held, registered, target, lock,
                 inherited>>

OpenFails(t) ==
  /\ Running(t) /\ pc[t] = "open" /\ GuardFree(t)
  /\ Goto(t, "release")
  /\ UNCHANGED <<status, guard, owner, count, held, fd, registered, target,
                 mine, lock, inherited>>

RegisterDescriptor(t) ==
  /\ Running(t) /\ pc[t] = "register"
  /\ registered' = [registered EXCEPT ![ProcessOf[t]] = @ \cup {mine[t][target[t]]}]
  /\ SetGuard(t, NoThread)
  /\ Goto(t, "poll")
  /\ UNCHANGED <<status, owner, count, held, fd, target, mine, lock, inherited>>

AcquireOsLock(t) ==
  /\ Running(t) /\ pc[t] = "poll"
  /\ lock[target[t]] = NoDesc
  /\ lock' = [lock EXCEPT ![target[t]] = mine[t][target[t]]]
  /\ held' = [held EXCEPT ![t][target[t]] = 1]
  /\ Goto(t, "run")
  /\ target' = [target EXCEPT ![t] = NoKey]
  /\ UNCHANGED <<status, guard, owner, count, fd, registered, mine, inherited>>

(* Mutant: running into the deadline ends the loop like an acquisition.    *)
OsLockTimeoutProceeds(t) ==
  /\ Running(t) /\ pc[t] = "poll"
  /\ lock[target[t]] # NoDesc
  /\ held' = [held EXCEPT ![t][target[t]] = 1]
  /\ Goto(t, "run")
  /\ target' = [target EXCEPT ![t] = NoKey]
  /\ UNCHANGED <<status, guard, owner, count, fd, registered, mine, lock,
                 inherited>>

(* Mutant: every poll starts a new deadline.                               *)
OsLockTimeoutRestarts(t) ==
  /\ Running(t) /\ pc[t] = "poll"
  /\ lock[target[t]] # NoDesc
  /\ UNCHANGED vars

(* The deadline passes while the file stays locked.                        *)
OsLockTimeout(t) ==
  /\ Running(t) /\ pc[t] = "poll"
  /\ lock[target[t]] # NoDesc
  /\ Goto(t, "abort")
  /\ UNCHANGED <<status, guard, owner, count, held, fd, registered, target,
                 mine, lock, inherited>>

-------------------------------------------------------------------------------
(* Leaving it.                                                             *)

ExitNested(t, k) ==
  /\ Running(t) /\ pc[t] = "run"
  /\ held[t][k] > 1
  /\ held' = [held EXCEPT ![t][k] = @ - 1]
  /\ ReleaseRLock(t, k)
  /\ UNCHANGED <<status, guard, fd, registered, pc, target, mine, lock,
                 inherited>>

Exit(t, k) ==
  /\ Running(t) /\ pc[t] = "run"
  /\ held[t][k] = 1
  /\ Goto(t, "unlock")
  /\ target' = [target EXCEPT ![t] = k]
  /\ UNCHANGED <<status, guard, owner, count, held, fd, registered, mine, lock,
                 inherited>>

(* `_close_owned_lock`: everything under the guard; the release first when *)
(* the lock had been acquired.                                             *)
ReleaseOsLock(t) ==
  /\ Running(t) /\ pc[t] = "unlock" /\ GuardFree(t)
  /\ lock' = [lock EXCEPT ![target[t]] = NoDesc]
  /\ SetGuard(t, t)
  /\ Goto(t, "close")
  /\ UNCHANGED <<status, owner, count, held, fd, registered, target, mine,
                 inherited>>

SkipRelease(t) ==
  /\ Running(t) /\ pc[t] = "abort" /\ GuardFree(t)
  /\ SetGuard(t, t)
  /\ Goto(t, "close")
  /\ UNCHANGED <<status, owner, count, held, fd, registered, target, mine,
                 lock, inherited>>

CloseDescriptor(t) ==
  LET d == mine[t][target[t]]
      p == ProcessOf[t]
  IN
  /\ Running(t) /\ pc[t] = "close"
  /\ fd' = [fd EXCEPT ![p] = @ \ {d}]
  /\ registered' = [registered EXCEPT ![p] = @ \ {d}]
  /\ mine' = [mine EXCEPT ![t][target[t]] = NoDesc]
  /\ SetGuard(t, NoThread)
  /\ Goto(t, "release")
  /\ UNCHANGED <<status, owner, count, held, target, lock, inherited>>

ReleaseThreadLock(t) ==
  /\ Running(t) /\ pc[t] = "release"
  /\ held' = [held EXCEPT ![t][target[t]] = 0]
  /\ ReleaseRLock(t, target[t])
  /\ Goto(t, "run")
  /\ target' = [target EXCEPT ![t] = NoKey]
  /\ UNCHANGED <<status, guard, fd, registered, mine, lock, inherited>>

(* The finally clause of a body entered before the fork: `os.getpid()` is  *)
(* not the owner's, nothing is released.                                   *)
ExitInherited(t, k) ==
  /\ Running(t) /\ pc[t] = "run"
  /\ k \in inherited[t]
  /\ inherited' = [inherited EXCEPT ![t] = @ \ {k}]
  /\ UNCHANGED <<status, guard, owner, count, held, fd, registered, pc, target,
                 mine, lock>>

-------------------------------------------------------------------------------
(* Processes come, fork and go.                                            *)

Start(p) ==
  /\ status[p] = "absent"
  /\ status' = [status EXCEPT ![p] = "running"]
  /\ UNCHANGED <<guard, owner, count, held, fd, registered, pc, target, mine,
                 lock, inherited>>

(* The state of a process that is gone (or never was).                     *)
Fresh(p) ==
  /\ guard' = [guard EXCEPT ![p] = NoThread]
  /\ owner' = [owner EXCEPT ![p] = [k \in Key |-> NoThread]]
  /\ count' = [count EXCEPT ![p] = [k \in Key |-> 0]]
  /\ registered' = [registered EXCEPT ![p] = {}]
  /\ held' = [t \in Thread |-> IF t \in Threads(p) THEN [k \in Key |-> 0]
                                                   ELSE held[t]]

Crash(p) ==
  LET open == [fd EXCEPT ![p] = {}] IN
  /\ status[p] # "absent"
  /\ status' = [status EXCEPT ![p] = "absent"]
  /\ Fresh(p)
  /\ fd' = open
  /\ lock' = Surviving(open)
  /\ pc' = [t \in Thread |-> IF t \in Threads(p) THEN "run" ELSE pc[t]]
  /\ target' = [t \in Thread |-> IF t \in Threads(p) THEN NoKey ELSE target[t]]
  /\ mine' = [t \in Thread |-> IF t \in Threads(p) THEN [k \in Key |-> NoDesc]
                                                   ELSE mine[t]]
  /\ inherited' = [t \in Thread |-> IF t \in Threads(p) THEN {}
                                                        ELSE inherited[t]]

(* Mutant: no hook before the fork.                                        *)
ForkAnyTime(t, u) ==
  LET p == ProcessOf[t]
      q == ProcessOf[u]
  IN
  /\ Running(t) /\ pc[t] = "run"
  /\ status[q] = "absent"
  /\ status' = [status EXCEPT ![q] = "forked"]
  /\ guard' = [guard EXCEPT ![q] = u]
  /\ fd' = [fd EXCEPT ![q] = fd[p]]
  /\ registered' = [registered EXCEPT ![q] = registered[p]]
  /\ owner' = [owner EXCEPT ![q] =
                 [k \in Key |-> IF owner[p][k] = t THEN u ELSE owner[p][k]]]
  /\ count' = [count EXCEPT ![q] = count[p]]
  /\ held' = [held EXCEPT ![u] = held[t]]
  /\ inherited' = [inherited EXCEPT ![u] =
                     inherited[t] \cup {k \in Key : held[t][k] > 0}]
  /\ UNCHANGED <<pc, target, mine, lock>>

(* `_prepare_for_fork` waits for the guard, the child starts with a copy   *)
(* of everything: descriptors, RLocks with their owners, the held table of *)
(* the only thread that survives in it, and a locked guard.                *)
Fork(t, u) ==
  LET p == ProcessOf[t]
      q == ProcessOf[u]
  IN
  /\ Running(t) /\ pc[t] = "run" /\ GuardFree(t)
  /\ status[q] = "absent"
  /\ status' = [status EXCEPT ![q] = "forked"]
  /\ guard' = [guard EXCEPT ![q] = u]
  /\ fd' = [fd EXCEPT ![q] = fd[p]]
  /\ registered' = [registered EXCEPT ![q] = registered[p]]
  /\ owner' = [owner EXCEPT ![q] =
                 [k \in Key |-> IF owner[p][k] = t THEN u ELSE owner[p][k]]]
  /\ count' = [count EXCEPT ![q] = count[p]]
  /\ held' = [held EXCEPT ![u] = held[t]]
  /\ inherited' = [inherited EXCEPT ![u] =
                     inherited[t] \cup {k \in Key : held[t][k] > 0}]
  /\ UNCHANGED <<pc, target, mine, lock>>

(* Mutant: the child unlocks the copies before it closes them; an unlock   *)
(* acts on the description, which the parent shares.                       *)
ChildResetUnlocks(q) ==
  LET open == [fd EXCEPT ![q] = @ \ registered[q]] IN
  /\ status[q] = "forked"
  /\ status' = [status EXCEPT ![q] = "running"]
  /\ Fresh(q)
  /\ fd' = open
  /\ lock' = [k \in Key |-> IF lock[k] \in registered[q] THEN NoDesc ELSE lock[k]]
  /\ UNCHANGED <<pc, target, mine, inherited>>

(* `_reset_after_fork` in the child, before any other code of it.          *)
ChildReset(q) ==
  LET open == [fd EXCEPT ![q] = @ \ registered[q]] IN
  /\ status[q] = "forked"
  /\ status' = [status EXCEPT ![q] = "running"]
  /\ Fresh(q)
  /\ fd' = open
  /\ lock' = Surviving(open)
  /\ UNCHANGED <<pc, target, mine, inherited>>

-------------------------------------------------------------------------------
Progress(t) ==
  \/ Reenter(t) \/ AcquireThreadLock(t) \/ ThreadLockTimeout(t)
  \/ OpenLockFile(t) \/ OpenFails(t) \/ RegisterDescriptor(t)
  \/ AcquireOsLock(t) \/ OsLockTimeout(t)
  \/ ReleaseOsLock(t) \/ SkipRelease(t) \/ CloseDescriptor(t)
  \/ ReleaseThreadLock(t)

Next ==
  \/ \E t \in Thread : Progress(t)
  \/ \E t \in Thread, k \in Key :
       Enter(t, k) \/ ExitNested(t, k) \/ Exit(t, k) \/ ExitInherited(t, k)
  \/ \E t, u \in Thread : Fork(t, u)
  \/ \E p \in Process : Start(p) \/ Crash(p) \/ ChildReset(p)

Spec == Init /\ [][Next]_vars

(* A call that has begun keeps running: every wait in it is bounded by the *)
(* deadline or by the short sections under the guard, which the            *)
(* interpreter hands to each waiting thread in the end (strong fairness);  *)
(* the hook runs inside os.fork.  Bodies may last for ever.                *)
FairSpec ==
  /\ Spec
  /\ \A t \in Thread : SF_vars(Progress(t))
  /\ \A p \in Process : WF_vars(ChildReset(p))

-------------------------------------------------------------------------------
(* Properties.                                                             *)

TypeOK ==
  /\ status \in [Process -> {"absent", "running", "forked"}]
  /\ guard \in [Process -> Thread \cup {NoThread}]
  /\ owner \in [Process -> [Key -> Thread \cup {NoThread}]]
  /\ count \in [Process -> [Key -> 0..MaxDepth]]
  /\ held \in [Thread -> [Key -> 0..MaxDepth]]
  /\ fd \in [Process -> SUBSET Desc]
  /\ registered \in [Process -> SUBSET Desc]
  /\ pc \in [Thread -> PC]
  /\ target \in [Thread -> Key \cup {NoKey}]
  /\ mine \in [Thread -> [Key -> Desc \cup {NoDesc}]]
  /\ lock \in [Key -> Desc \cup {NoDesc}]
  /\ inherited \in [Thread -> SUBSET Key]

(* t executes the body of a `with exclusive_file_lock` on k.               *)
InBody(t, k) ==
  /\ Running(t)
  /\ held[t][k] > 0
  /\ target[t] = k => pc[t] \notin {"close", "release"}

(* No two threads, of one process or of two, are in bodies on the same     *)
(* file: the promise of exclusive_file_lock, through re-entry, timeouts,   *)
(* failed opens, crashes and forks.                                        *)
MutualExclusion ==
  \A t, u \in Thread, k \in Key : InBody(t, k) /\ InBody(u, k) => t = u

(* As long as a body runs, the advisory lock belongs to the descriptor its *)
(* thread opened: neither a forked child nor another thread's cleanup      *)
(* takes it away.                                                          *)
BodyHoldsOsLock ==
  \A t \in Thread, k \in Key :
    InBody(t, k) => mine[t][k] # NoDesc /\ lock[k] = mine[t][k]

(* Who is in a body is there alone, in its process through the thread lock *)
(* and among the processes through the advisory lock, at every step of     *)
(* every call, of a fork and of a crash.                                   *)
Exclusion == TypeOK /\ MutualExclusion /\ BodyHoldsOsLock

(* An advisory lock is never kept alive by a process in which no call owns *)
(* it, except in the moment between a fork and the child's hook: the copy  *)
(* of a descriptor in a child cannot block the other processes for good.   *)
NoOrphanedOsLock ==
  \A k \in Key : lock[k] # NoDesc =>
    \/ \E t \in Thread : Running(t) /\ mine[t][k] = lock[k]
    \/ \E p \in Process : status[p] = "forked" /\ lock[k] \in fd[p]

(* A thread that has left every body on a file, and is not entering one,   *)
(* has given the in-process lock back: the nested exits of the context     *)
(* manager release exactly what its entries acquired.                      *)
ThreadLockBalanced ==
  \A t \in Thread, k \in Key :
    Running(t) /\ pc[t] = "run" =>
      /\ owner[ProcessOf[t]][k] = t <=> held[t][k] > 0
      /\ held[t][k] > 0 => count[ProcessOf[t]][k] = held[t][k]

(* What a call took of the two levels of the lock it has given back.       *)
LocksReturn == NoOrphanedOsLock /\ ThreadLockBalanced

(* Every call of exclusive_file_lock ends: in the body, with an exception, *)
(* or with its process, whatever the other threads and processes do with   *)
(* their files -- two of them may well hold one file each and want the     *)
(* other's.                                                                *)
CallsEnd == \A t \in Thread : (pc[t] # "run") ~> (pc[t] = "run")

(* The inductive invariant these rest on.  A thread names a file exactly   *)
(* while it is inside a call, and what it holds fits the place it is at.   *)
CallInv ==
  \A t \in Thread :
    /\ pc[t] # "run" <=> target[t] # NoKey
    /\ ~Running(t) => pc[t] = "run"
    /\ pc[t] = "wait" => held[t][target[t]] < MaxDepth
    /\ pc[t] \in {"open", "register", "poll", "abort"} => held[t][target[t]] = 0
    /\ pc[t] = "unlock" => held[t][target[t]] = 1
    /\ pc[t] \in {"close", "release"} => held[t][target[t]] <= 1

(* t has the RLock of k: in its bodies, and in calls past the first wait.  *)
HasRLock(t, k) ==
  \/ held[t][k] > 0
  \/ target[t] = k /\ pc[t] \notin {"run", "wait"}

RLockInv ==
  \A t \in Thread, k \in Key : Running(t) =>
    /\ owner[ProcessOf[t]][k] = t <=> HasRLock(t, k)
    /\ HasRLock(t, k) =>
         count[ProcessOf[t]][k] = IF held[t][k] > 0 THEN held[t][k] ELSE 1

(* An RLock is counted when it is owned, by a thread of its own process,   *)
(* and a process that is not there owns and holds nothing.                 *)
RLockOwnerInv ==
  /\ \A p \in Process, k \in Key :
       /\ status[p] # "forked" =>
            IF owner[p][k] = NoThread THEN count[p][k] = 0
                                      ELSE ProcessOf[owner[p][k]] = p
       /\ status[p] = "absent" => owner[p][k] = NoThread
  /\ \A t \in Thread, k \in Key :
       status[ProcessOf[t]] = "absent" => held[t][k] = 0

(* The descriptor of a call exists from its opening to its closing, and    *)
(* no other call has the same one.                                         *)
DescriptorOpen(t, k) ==
  \/ target[t] = k /\ pc[t] \in {"register", "poll", "abort", "close"}
  \/ held[t][k] > 0 /\ ~(target[t] = k /\ pc[t] = "release")

DescriptorInv ==
  \A t \in Thread, k \in Key :
    /\ mine[t][k] # NoDesc <=> Running(t) /\ DescriptorOpen(t, k)
    /\ mine[t][k] # NoDesc => mine[t][k] \in fd[ProcessOf[t]]
    /\ \A u \in Thread, j \in Key :
         mine[t][k] = mine[u][j] /\ mine[t][k] # NoDesc => t = u /\ k = j

(* Every descriptor is registered, but for the one being opened under the  *)
(* guard; a child before its hook has registered copies only.              *)
RegistryInv ==
  /\ \A t \in Thread :
       pc[t] \in {"register", "close"} => guard[ProcessOf[t]] = t
  /\ \A p \in Process :
       /\ status[p] = "absent" => fd[p] = {} /\ guard[p] = NoThread
       /\ status[p] = "forked" => fd[p] \subseteq registered[p]
       /\ status[p] = "running" =>
            /\ guard[p] = NoThread => fd[p] \subseteq registered[p]
            /\ \A t \in Thread : guard[p] = t =>
                 /\ ProcessOf[t] = p /\ pc[t] \in {"register", "close"}
                 /\ fd[p] \subseteq registered[p] \cup {mine[t][target[t]]}

(* No descriptor is open without a call that will close it.                *)
OpenForCallInv ==
  \A p \in Process : status[p] = "running" =>
    \A d \in fd[p] : \E t \in Threads(p), k \in Key : mine[t][k] = d

(* A lock belongs to an open description of its own file, and not to that  *)
(* of a call which has not got it, or no longer has it.                    *)
LockFileInv ==
  /\ \A k \in Key : lock[k] # NoDesc =>
       /\ \E p \in Process : lock[k] \in fd[p]
       /\ \A t \in Thread, j \in Key : mine[t][j] = lock[k] => j = k
  /\ \A t \in Thread : pc[t] \in {"register", "poll", "abort", "close"} =>
       lock[target[t]] # mine[t][target[t]]

LockInv ==
  /\ TypeOK /\ CallInv /\ RLockInv /\ RLockOwnerInv /\ DescriptorInv
  /\ RegistryInv /\ OpenForCallInv /\ LockFileInv /\ BodyHoldsOsLock

(* The lock implements the abstract one.                                   *)
Holder ==
  [k \in Key |-> IF \E t \in Thread : InBody(t, k)
                   THEN CHOOSE t \in Thread : InBody(t, k)
                   ELSE NoThread]

Abstract == INSTANCE FileLock WITH holder <- Holder

AbstractSpec == Abstract!Spec
===============================================================================
