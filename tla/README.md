# Verification of remote-ops-workspace

TLA+ models of the parts of remote-ops-workspace whose correctness depends on
the order of events: the lock and the files every store rests on, the profile
store, team sync, the objects that run child processes, the console session
behind them and the terminal tab in front of them, managed servers, update
staging and workspace backup. TLC checks them on small instances. TLAPS proves
the safety properties of the eleven detailed models, and what they implement,
for every value of their constants. Paths below are relative to
`src/src/remote_ops_workspace/`.

## 1. The system

remote-ops-workspace is a Python desktop application (PyQt) with a command line.
It keeps connection profiles, snippets, layouts, macros and a vault as JSON
files in one home directory, starts terminals and servers for them, and can
share profiles with a team. Several of its processes may run at a time on one
home: the GUI, `row` commands, schedulers.

| Component | State | Operations | Interacts with | Hard behaviour |
|---|---|---|---|---|
| `state_lock.py` | thread locks, descriptors, lock files | `exclusive_file_lock` | all stores | two levels of lock, re-entry, timeouts, fork, crash |
| `file_safety.py` | files, temporary files, copies | atomic private and shared writes | all stores | failure or kill at any step, rollback |
| `storage.py` | profiles, group defaults | add, remove, import, update, replace, defaults, init, purge | lock, files, callers' callbacks | read-modify-write, re-entrant callbacks, all or nothing |
| `team_sync.py`, `profile_sharing.py` | shared versioned record | status, pull, push | profile store, record lock | compare-and-swap, stale snapshots, what is local stays local |
| `qt_terminal_process.py` | state, generation, session or child, deadlines, counts | start, write, terminate, kill, wait, close | session, workers, readers, writers, waiters, closers, terminal tab | late results, threads of former runs, deadlines, final output |
| `windows_conpty.py` | child, pipes, queues | start, read, write, resize, close | reader, writer, closer, resizer threads | bounded queues, end of output, blocking close |
| `gui_terminal.py`, `gui_lifecycle.py`, the tab code of `gui.py` | output queue, notices, restart flags, stop timer, tabs being closed | start, stop, restart, clear, flush, close | process object, main window | backpressure, slots that run inside other handlers, order of notices, deferred restart |
| `moba_servers.py`, `x11.py`, `process_status.py` | server record, birth identity | start, stop, replace | lock, files, OS processes | crash between launch and record, PID reuse |
| `workspace_backup.py` | archive, staged directory | create, restore | every store's lock | many locks, change during the copy |
| `update_staging.py`, `update_channel.py` | journal, partial files | prepare, recover | files, lease | crash between files and journal |
| `vault.py` | encrypted items, verifier | put, remove, upgrade | lock, files | upgrade of all items at once |
| `snippets.py`, `layouts.py`, `moba_macros.py` | one list each | add, change, remove | lock, files | as the profile store |
| GUI, CLI, launcher, policy, emulation, web console, plug-ins, release scripts | - | - | - | sequential, conversions, or input and output |

`PROJECT.json` lists the components with what is modelled of each, and the
hazards of this code at their lines, with the properties that cover them.

What makes each correct, in one line:

- the lock excludes, and is never left behind;
- a private file always holds a complete value, the former or the new one;
- a store operation happens at once or not at all;
- a published version has one content and a push never drops a change its author
  did not see;
- a run of a process object is announced and ended once, with all its output, by
  its own child, and no child is left to nobody;
- a session's reader gets all output before its end, and closing ends;
- a tab shows the output and the end of a run in order and completely, starts no
  run before that, and a closed tab goes away;
- at most one server is managed, only it is signalled, and none is forgotten;
- only a complete set of update files is ever reported as staged;
- the locked files of an archive are as they were when it was written, a change
  of the others is noticed as far as stamps tell of it, and a restore replaces
  nothing.

## 2. Modules

| Module | Models | State and actions |
|---|---|---|
| `FileLock` | what `exclusive_file_lock` promises | one holder a file; acquire, release, fail |
| `StateLock` | `state_lock.py` | thread locks, descriptors, advisory locks, a program counter a thread; one action for each point at which another thread or process may run |
| `StateLockProofs` | - | theorems about `StateLock` |
| `AtomicFile` | what a private write under the lock promises | one value; a write happens once or not at all |
| `PrivateWrite` | `_write_bytes_atomic`, private | inodes behind names, a program counter a writer; each step may fail, be interrupted or killed |
| `PrivateWriteProofs` | - | theorems about `PrivateWrite` |
| `Catalogue` | the operations of the profile store as single effects | document, calls pending, outcomes |
| `ProfileStore` | `ProfileStore._transaction` and its users | file, lock holder, re-entrancy mark, loaded document of a thread |
| `ProfileStoreProofs` | - | theorems about `ProfileStore` |
| `TeamSync` | `TeamSyncClient`, `TeamSyncBackend` | record, its lock, stores, the commands' program counters |
| `TeamSyncProofs` | - | theorems about `TeamSync` |
| `ProcessRun` | what a terminal may rely on from a process object | state, run, signals told |
| `HelperRun` | what the owner of a helper command may rely on | as `ProcessRun`, but the state may say that nothing runs before the end is told, and a start in between leaves a stray end |
| `TerminalProcess` | `QtConPtyProcess` and its sessions | fields of the GUI thread (`q`), fields under `_lifecycle_lock` (`locked`), workers, sessions |
| `TerminalProcessProofs` | - | theorems about `TerminalProcess`, and about `ConPtySession` as its instance `Pty`, `HiddenProcess` as `Hid` and `TerminalTab` as `Pane` |
| `HiddenProcess` | `QtHiddenProcess` | fields of the GUI thread (`q`), fields all threads share (`shared`), a place for each thread of each run, children |
| `TerminalTab` | `TerminalPane` and the closing of its tab | one record `tab`: the object as its owner sees it, queue, timers, flags, what the transcript has |
| `OutputStream` | what a session promises about output | chunks made, chunks read, end |
| `ConPtySession` | `WindowsConPtyProcess` once it is started | host, output, input, size, four threads, closing flags, the caller's place |
| `ManagedServer` | what the lifecycle of a server promises | the managed server, lost ones, processes signalled |
| `ServerLifecycle` | start and stop in `moba_servers.py` and `x11.py` over `process_status.py` | process instances and their PIDs, record, authority cookie, lock, commands |
| `ServerLifecycleProofs` | - | theorems about `ServerLifecycle` |
| `StagedSet` | what staging promises | the set that is staged, what was reported |
| `UpdateStaging` | `AssetSetTransaction` under `update_channel.py` | final and partial files, lease, commands |
| `UpdateStagingProofs` | - | theorems about `UpdateStaging` |
| `WorkspaceBackup` | `workspace_backup.py` and the writers it meets | home with stamps, locks, inventories, archive, restores, destination |
| `WorkspaceBackupProofs` | - | theorems about `WorkspaceBackup` |
| `MC...` | - | an instance of each detailed module for TLC |

The components are stacked: `StateLock` implements `FileLock`, `PrivateWrite`
under that lock implements `AtomicFile`, so `ProfileStore` takes the lock as a
holder and the write as one step that happens or does not, and implements
`Catalogue`, so `TeamSync` takes a store operation as one step.
`ServerLifecycle`, `UpdateStaging` and `WorkspaceBackup` rest on the lock in the
same way. `TerminalProcess` implements `ProcessRun`, and `TerminalTab` is shown
to use an object as `ProcessRun` says; `HiddenProcess` implements the weaker
`HelperRun`. `ConPtySession` implements `OutputStream`, on which
`TerminalProcess` relies.

### How the actions correspond to the code

- **StateLock.** `Enter` to `AcquireOsLock` follow `exclusive_file_lock` from
  its first line to the `yield`, `Exit` to `ReleaseThreadLock` from the
  `finally` to the end. The time between two actions is where a thread may wait:
  for a thread lock, for `_registry_guard`, or for a poll of the advisory lock.
  A descriptor is an open file description: a fork shares it, and its lock goes
  when the last copy is closed. `Fork` runs the three hooks of
  `os.register_at_fork`. A child forked inside a body runs on in that body
  without the lock (106-109); it is recorded in `inherited`.
- **PrivateWrite.** A name refers to an inode, `os.replace` moves it. The backup
  of the predecessor, the identity check and the rollback are steps of their
  own. `fault` notes that a kill, an interrupt or a failed unlink happened,
  since then leftovers are allowed. `Locked` is chosen at the start: the writers
  take turns, or they meet at any step.
- **ProfileStore.** A call enters the transaction, loads, may call back (and the
  callback may call the store again or do anything to the document it was
  given), writes or not, and leaves. The row of a profile is one value and the
  rows are a function from names: their order, and duplicate names that `save`
  and `update_profiles` do not check, are left out, and so are malformed files.
  `load`, `find` and `export_to` only read.
- **TeamSync.** A command is one `row team-sync` process. A row has a public
  endpoint, and a credential and forwards that are local; forwards are carried
  along, and no property is about them (section 5). All profiles are in one
  group. `known` is the version last printed on a workstation; a push names a
  version the user could know.
- **TerminalProcess.** The GUI thread runs one method or timer at a time, so
  each is one action, except where other threads act inside: `_poll_session` is
  three steps and `waitForFinished` a loop. A generation is only compared with
  the current one, so it is represented by the run that has it. Window size,
  property values and texts are left out; an error of a single `write` changes
  no state. After a session is given up its threads are not followed.
- **HiddenProcess.** As above for the GUI thread, except that `start` is two
  steps: the waiter can act between the clearing of the queued notices (819) and
  the new generation (821). The worker, writer, reader and waiter of a run go
  from one point where they share a field to the next; they outlive their run.
  `stdout` and `stderr` are one stream. A child may leave a helper that keeps
  the pipe open. The owner may call `start` whenever `state()` says that nothing
  runs, as `gui_connected.py` 2812 and 3186 do, before it was told of the former
  end too; `rushed` and `stray` note when that was between the waiter's last two
  steps and what became of the former run's end. A wait of the waiter may fail
  with `OSError`. A start after `close` is left out: the panels close their
  object only to give it to `deleteLater` (`gui.py` 804, 908). So is a start
  that a slot makes in the middle of `_dispatch_notifications` or
  `waitForFinished`.
- **TerminalTab.** All of it runs on the thread of the event loop, so a slot, a
  timer or a click is one action. But slots run inside one another: when the tab
  resumes, terminates or kills its ConPTY object, the object polls its session
  and may tell of output, of an error and of the end before the call returns. So
  a method is an operator, from a tab to the tab, or the set of tabs, it leaves,
  and an action is a composition of them (`Restart` of `RequestStop` of
  `Interrupt` of `Poll` of `Finish` of `OnFinished` of `FlushEnd`). The object
  is what `ProcessRun` promises; `Object` says whether it is polled like
  `QtConPtyProcess` or tells through the event loop only, like `QProcess`. The
  third object a tab may have, on Windows a `QtHiddenProcess` where there is no
  pseudoconsole (`gui_processes.py` 63-72, 93, 104), is not: its state and its
  end part (`HelperRun`), so the argument for the tab does not reach it. Output
  is counted in chunks. A start that a policy refuses, a session that breaks, in
  its start too, and a clear at any time are included. Closing the tab is
  `close_tab` with `prepare_for_close`, the stop request, the `finished` slot
  that deletes the tab and the timer that deletes it in any case.
- **ConPtySession.** Each thread is a place in its main function, `write`,
  `resize` and `close` are sequences of steps of the caller. Data are counted,
  not named. The writer finds its queue empty and looks whether the input is
  closed in two steps. A failed read is one step, whether its error is recorded
  or is one of a pipe that shuts down, which ends the reader silently (908-912).
  `flush` itself waits for a count that `SessionConsistent` is about.
  `_lifecycle_lock` is held over a step by the resizer only. The console renders
  what the child made into the pipe; closing it waits until that is read or the
  output handle is closed.
- **ServerLifecycle.** A command is a process that takes the lock of one state
  file, works and exits. An instance is what a birth identity names; PIDs are
  reused once they are free. An owned child that has exited keeps its PID until
  its command reaps it. The path of Linux (pidfd) is modelled. A signal that
  fails (336-350) is not a place of its own: it leaves what a wait that ends by
  its timeout leaves. There is one state file and one authority file: paths by
  display are left out. `service` chooses between the two callers where they
  differ: the X server writes a cookie first.
- **UpdateStaging.** The content of a file is the version whose bytes it holds,
  or broken; a `.partial` is filled, checked and renamed in three steps. What
  authenticates a manifest is reduced to whether it is the bound version's; a
  refusal by policy (age, authentication) counts as a failure of the command.
  Other programs damage or remove files between commands only.
- **WorkspaceBackup.** What `lstat` and `fstat` tell of a file is a stamp. A
  change renews it; a write in place of the same size may keep it
  (`workspace_backup.py` 233-236), and `unseen` notes the files so written after
  the first pass has read them. A pass looks at the directory, lists it, reads
  the files one by one; the two reads that `_read_regular` compares are one
  step. Writers of stores and records hold the lock; others do not. A backup
  needs `--offline`, the user's word that no other process runs, which nothing
  checks; the docs say that one taken while processes run can be inconsistent
  (`docs/WORKSPACE_BACKUP_AND_RESTORE.md` 17-18). The model is of what the locks
  and inventories then still give. A restore begins when the home is no longer
  changed: it does not read the home.

## 3. Runs

| Run | Question | Instance | States |
|---|---|---|---|
| `state_lock` | Is the lock exclusive, balanced, never orphaned, an abstract lock, and does every call end? | 3 threads in 2 processes, 1 file, depth 2, 4 descriptors, fair | 42,259 |
| `private_write` | Is a write under the lock all or nothing, with nothing left behind, and do readers see whole values also of writers without the lock? | 2 writers, 2 values, 5 inodes | 301,571 |
| `profile_store` | Is each operation one step on the catalogue? | 2 threads, 2 names, 2 rows, every kind of call | 206,357 |
| `team_sync` | Are versions published once, credentials kept, changes not lost? | 2 workstations, one command each, 2 names, 3 endpoints, 3 versions, 3 edits | 977,032 |
| `terminal_process` | Does the object keep its contract with late workers and cancelled starts, hand over all output, lose no session, end a kill and resolve a start? | 2 runs, 3 chunks, queue of 1, early input, fair | 331,066 |
| `hidden_process` | The same for a helper command, whose threads outlive their run | 2 runs, 1 chunk or payload, an owner that starts whenever nothing runs, fair | 399,279 |
| `conpty_session` | Is output complete, input counted, the last size tried, and does close end? | pipe and queues of 1, 4 units of work, fair | 516,329 |
| `server_lifecycle` | Is only the managed server signalled, none forgotten, the record true? | 2 commands, 2 PIDs, 3 processes, both services, fair | 161,924 |
| `update_staging` | Is a reported set complete, whatever stopped the commands before? | 2 processes, 2 versions of 2 and 1 artifacts | 56,667 |
| `workspace_backup` | What does an archive of a home that is written have of one moment, is a restore whole and over nothing, and does a backup end? | 1 store, 1 record, 1 loose file, 2 homes, 3 changes, 2 restores, fair | 1,329,123 |
| `terminal_tab` | Are output, ends and restarts shown and done in order, is nothing left lying, and does a closed tab go? | ConPTY object, 3 runs of up to 5 chunks, queue of 3 with a low mark of 1, fair | 9,774 |
| `tab_stop_timer` | `KilledAfterTerminate`: is a run killed only by the timer of its own stop request? | violation, see 5 | - |

What the properties say. Several are conjunctions of named parts, each with its
own comment in the module; the first part is the type invariant.

- `state_lock`. `Exclusion`: two owners are never in a body for one file
  (`MutualExclusion`) and a body has the advisory lock through its own
  descriptor (`BodyHoldsOsLock`). `LocksReturn`: neither level of the lock stays
  taken (`NoOrphanedOsLock`, `ThreadLockBalanced`). `AbstractSpec` (implements
  `FileLock`), `CallsEnd`.
- `private_write`. `ReadersSeeWhole`: with the lock and without it, a file that
  has the name is whole (`Whole`), and the name loses its file only to the
  rollback of a writer that saw none when it began (`OnlyWithdrawn`); under the
  lock a write that replaces a file never leaves the name without one
  (`NeverVanishes`). `NothingLeftBehind`, `AbstractSpec` (implements
  `AtomicFile`).
- `profile_store`. `ReadsStayFresh`: what a transaction has read is still in the
  file when it writes (`Fresh`). `AbstractSpec` (implements `Catalogue`).
- `team_sync`. `EachVersionOnce`, `PullNeverRebinds`, `NoLostPublication`.
- `terminal_process`. `RunsApart`: the session, its state and the input belong
  to the current run (`OnlyTheCurrentRun`, `InputStaysInItsRun`). `FinalOutput`:
  a run that finishes has handed all its output over, unless its reader failed
  or a slot paused the output inside `waitForFinished` (section 5).
  `OnlyCancelDrops`: no step leaves a running session to nobody but the one of
  section 5. `AbstractSpec` (implements `ProcessRun`). `RunsResolve`: a kill
  ends the run (`KillEnds`) and a start does not stay pending (`StartResolves`).
- `hidden_process`. `RunsApart`: as above, every running child has somebody who
  will end it (`NoOrphan`), and the count of unwritten input never exceeds what
  there is (`InputIsNotRefused`). `EndComesLast`: output that was read is handed
  over before the end (`FinalOutput`), waiters return after it is queued
  (`EventMeansEnd`), and the end of a former run is told only where `start` came
  between the waiter's last two steps (`EndIsItsOwn`, section 5). `AbstractSpec`
  (implements `HelperRun`), `ExitIsTold`.
- `conpty_session`. `SessionConsistent`: the count of pending writes is exact at
  every step (`PendingCounts`), a count that nobody will lower any more is one
  of a session with an error or one its caller closes, so that `flush` does not
  wait for ever (`StuckIsTold`), no resize of a console that is being closed
  (`ResizedWhileOpen`). `AbstractSpec` (implements `OutputStream`).
  `SessionSettles`: close returns, the reader ends and the console closes
  (`CloseCompletes`), and a resize is not lost (`SizeReaches`).
- `terminal_tab`. `TabInOrder`: what a run has made is in the transcript, the
  queue or the object, and all of it in the transcript once its end is shown
  (`TailInOrder`); whatever waits for a flush has one scheduled
  (`PendingIsServed`); a restart that waits is that of the run that runs, and a
  closed tab waits for none, with the one exception of a QProcess that failed to
  start (`RestartFits`, section 5). `StartsInOrder`: no run begins over the tail
  of another (`NoTailCut`), and closing queues no start
  (`ClosingQueuesNothing`). `Contract` (uses the object as `ProcessRun` says).
  `RequestsEnd`: a restart happens, a tail is shown, a closed tab is deleted
  (`RestartHappens`, `TailIsShown`, `CloseCompletes`).
- `server_lifecycle`. `RecordIsTrue`: what is replaced or recorded as stopped
  does not run (`ReplacedIsDead`), the recorded X server's cookie is in the file
  (`CookieFits`). `AbstractSpec` (implements `ManagedServer`: at most one
  managed, only that one signalled). `NoServerForgotten`: only a kill between
  launch and record, or a server that outlives the undoing of its launch, leaves
  a server unmanaged. `CommandsEnd`.
- `update_staging`. `DirectoryFits`: a journal that says "staged" stands for a
  complete set (`StagedIsWhole`), and the files are of the journal's version
  (`OneBinding`). `NeverOverwritten`; `WholeIsRecovered`: what an interrupted
  command has completed is not refused. `AbstractSpec` (implements `StagedSet`).
- `workspace_backup`. `LockedStayAsRead`: stores and records stay as they were
  read until the backup ends. `OneMoment`: all files of an archive are of one
  moment since the backup began, but for those written in place with their stamp
  kept after the first pass had read them. `RestoreIsSafe`: a restore installs a
  whole archive (`InstalledIsArchived`) and replaces nothing that has content
  (`NothingReplaced`). `BackupEnds`.

For each property, `PROJECT.json` names a mutant: a plausible mistake in one
definition under which TLC finds the property violated in that same run.

### Bounds

- Three threads in two processes are the least with a rival on both levels of
  the lock and a slot to fork into. Depth 2 is one re-entry. With one file a
  holder that never lets go stands for one that waits for another file: bodies
  may last for ever, so `CallsEnd` shows that the deadline ends every wait,
  whatever its holder waits for. The proofs of the safety properties cover all
  sizes.
- Two writers and five inodes: the file, a temporary file and a copy, one kept
  copy and one leftover. When no inode is free a write fails, as on a full disk.
  Writers without the lock write one value, the first of which may find no file.
- Two names and two rows let every kind of collision happen: the same name, a
  rename onto another, an example and a user's row. The proofs cover all sizes.
- Three versions and three edits are the first publication, a competing one, and
  one that answers it. `NoLostPublication` needs two. The proofs cover all.
- Two runs are enough for a late worker, writer, reader or waiter to meet the
  next run. Three chunks with a queue of one let a terminal's reader be blocked,
  pausing in between; only the first run has output. A hidden process has one
  unit of work, a chunk, a payload or a failed wait of either run.
- In a session, pipe and queues of one chunk are full at once. Four units of
  work are, for instance, four chunks, two chunks and a write, or two resizes,
  so that a second resize meets the first.
- A queue of three chunks with a low mark of one can be filled, paused, drained
  to the low mark and filled again by five chunks, in the middle of a run and
  over several turns of its tail; a turn renders two chunks and the drain at the
  end one. Three runs are a run, its restart, and one that is restarted while
  what the former left (a flag, a timer, a tail) may still be there. The run has
  a ConPTY object, the one with slots inside handlers; a QProcess is the simpler
  case of the same module, and the theorems cover both. With `Object =
  "QProcess"` TLC finds everything but `RestartHappens` to hold (section 5).
- Two commands, one server each of them launches and one foreign process on two
  PIDs are enough for a PID of a dead server to be taken by another server, or
  by a stranger, between any two steps of a command.
- Two versions with an artifact in common let the files of one set pass for
  those of the other. Processes are symmetric.
- One file of each kind and three changes allow a change of each file, a change
  and its undoing, and one between any two reads. Restores do not overlap the
  backup: they work on the archive.

### Deadlock

It is checked in the runs of `StateLock`, `TerminalProcess`, `ServerLifecycle`,
`UpdateStaging` and `WorkspaceBackup`. Elsewhere the system may really stop: all
bounded edits, versions or inodes may be used up, a session or a tab may be
closed and a hidden process disposed of.

### Fairness

- `StateLock`: a call that has begun goes on (strong fairness of a thread's
  progress, since every wait is bounded by the deadline and the guard is held
  for moments only), and the hook of a forked child runs. Bodies may last for
  ever.
- `TerminalProcess`: Qt timers fire, the loop of `waitForFinished` ends by its
  timeout, `session.start()` returns in its worker, and clocks go on. The
  startup timer has strong fairness: a tab that calls the object over and over
  does not starve it. Nothing is assumed of the child, the reader or the writer,
  so a kill must end the run by its deadlines alone. `KillEnds` excepts a tab
  that renews the deadline by calling `kill()` again for ever.
- `HiddenProcess`: timers fire, a method of the GUI thread goes on, and workers
  and waiters go on, since their waits are bounded by timeouts. Nothing is
  assumed of the child, its helpers, the reader (which may block in `read`) or
  the writer.
- `TerminalTab`: Qt runs every timer and posted event that is due (`Flush`,
  `StopTimeout`, `RunQueuedStart`, `ForceClose`, `Delete`), and a run that was
  killed ends, which `TerminalProcess` shows of the object. Nothing is assumed
  of a run that was only asked to stop, or of output. Four of the conditions are
  weak fairness with the enabling condition written out as a state predicate:
  TLC evaluates `ENABLED` of these nested handlers too slowly.
- `ConPtySession`: the console renders what it has, the reader, resizer and
  closer go on, and so does a caller inside `close`. Nothing is assumed of the
  child or of `WriteFile`. The resizer may hang in `ResizePseudoConsole` (1192
  says that it can block on older systems); since it does so under
  `_lifecycle_lock`, a close that needs this lock then waits for ever, whatever
  its timeout (1311). `CloseCompletes` and `SizeReaches` except that case.
- `ServerLifecycle`: a command goes on while nobody kills it. Servers may ignore
  any signal for ever.
- `WorkspaceBackup`: a backup goes on; the holder of a lock may keep it for
  ever.
- `UpdateStaging` states no fairness: it has no liveness property.

## 4. Proofs

All theorems hold for every value of the constants that satisfies the named
assumptions of the modules: any number of threads, writers, processes, runs,
versions, files and commands. The assumptions say that null values are none of
the values, that bounds are numbers, and what a list of files lists; nothing of
the order or the outcome of steps is assumed. Each safety property follows from
an inductive invariant, a conjunction of named parts, that the theorem
`...Invariant` of the module states.

| Module | Theorems (property) | Assumption |
|---|---|---|
| `StateLockProofs` | `LockInvariant`, `TypeCorrect`, `Exclusive` and `BodiesHoldTheOsLock`, together `ExclusionHolds` (`Exclusion`), `NoOrphans` and `ThreadLocksBalance`, together `LocksAreReturned` (`LocksReturn`), `Refinement` to `FileLock` | `StateLockAssumption` |
| `PrivateWriteProofs` | `WriteInvariant`, `ReadersAreSafe` (`ReadersSeeWhole`), `NothingIsLeftBehind` (`NothingLeftBehind`), `Refinement` to `AtomicFile` | `PrivateWriteAssumption` |
| `ProfileStoreProofs` | `StoreInvariant`, `TypeCorrect` and `NothingWritesInBetween`, together `ReadsAreFresh` (`ReadsStayFresh`), `Refinement` to `Catalogue` | `ProfileStoreAssumption` |
| `TeamSyncProofs` | `SyncInvariant`, `CommandInvariant`, `TypeCorrect`, `VersionsOnce` (`EachVersionOnce`), `NeverRebound` (`PullNeverRebinds`), `NothingLost` (`NoLostPublication`) | `TeamSyncAssumption`; for `NothingLost` one command at a time |
| `TerminalProcessProofs` | `ProcessInvariant`, `RunsStayApart` (`RunsApart`), `FinalOutputIsTaken` (`FinalOutput`), `OnlyACancelDrops` (`OnlyCancelDrops`), `Refinement` to `ProcessRun`; of a session: `SessionInvariant`, `SessionsAreConsistent` (`SessionConsistent`), `OutputIsWhole` (refinement to `OutputStream`); of a hidden process: `HiddenInvariant`, `HelpersStayApart` (`RunsApart`), `TheEndComesLast` (`EndComesLast`), `HiddenRefinement` to `HelperRun`; of a tab: `TabInvariant`, `TabStaysInOrder` (`TabInOrder`), `TabStartsInOrder` (`StartsInOrder`), `TabContract` to `ProcessRun` | `BoundsAssumption`, for a session also `PtyBounds`, for a hidden process `HidBounds`, for a tab `PaneBounds` |
| `ServerLifecycleProofs` | `ServerInvariant`, `RecordsAreTrue` (`RecordIsTrue`), `ServersAreNotForgotten` (`NoServerForgotten`), `Refinement` to `ManagedServer` | `LifecycleAssumption` |
| `UpdateStagingProofs` | `StagingInvariant`, `DirectoryAlwaysFits` (`DirectoryFits`), `NothingIsOverwritten` (`NeverOverwritten`), `WholeSetsAreRecovered` (`WholeIsRecovered`), `Refinement` to `StagedSet` | `UpdateStagingAssumption` |
| `WorkspaceBackupProofs` | `BackupInvariant`, `LockedFilesStayAsRead` (`LockedStayAsRead`), `ArchiveIsOneMoment` (`OneMoment`), `RestoresAreSafe` (`RestoreIsSafe`) | `WorkspaceBackupAssumption` |

The arguments:

- **StateLock.** The inductive invariant adds to the properties what makes them
  inductive: the owner of a thread lock is a thread of that process that is in a
  call or in a body; a descriptor belongs to one call, is registered except
  inside the guard, and no lock is on a closed one; a process that is not
  running has nothing. Mutual exclusion alone is not inductive, since nothing in
  it says whose descriptor a lock is on.
- **PrivateWrite.** `NameInv`: a temporary file or a copy is nobody else's and
  not the file, so that writing it, or unlinking it, touches no other.
  `DataInv`: it is whole before it is renamed, copied from or kept; with
  `NameInv` this gives `Whole` for any writers, locked or not, and
  `OnlyWithdrawn`: a rollback that has a copy puts a file back, and no other
  step unlinks the name. `TurnInv` and `OwnInv` hold under the lock: between the
  copy and the end of a write the file is what this writer found or installed,
  so the copy is the value to go back to, the name keeps a file it had, and a
  withdrawn file is the writer's own. In the refinement the abstract write is
  the step that confirms what was installed, `before` stands for the value until
  then, and a write rolled back never was.
- **ProfileStore.** The mark of a thread, the holder of the lock and the place
  in the code say the same thing, so nothing writes between the load and the
  write of a transaction (`Fresh`), and so the write is the operation's effect
  on the present document.
- **TeamSync.** `SyncInv`: a checked version stays the record's while its push
  has the lock, and a version has one content. `CommandInv` adds, under
  `OneCommandEach`, that a workstation that knows the present version has its
  rows but for its user's later edits. Without one command at a time
  `NothingLost` is false (section 5).
- **TerminalProcess.** `StartInv` and `ResultInv` are about the fence: a
  generation is the last run's or nobody's; while the worker of the current one
  has not delivered, the object is in `Starting` and no result waits; and a
  result that waits is the last run's, with the object still in `Starting`. So
  no result is ever stale when it is looked at, whatever was cancelled before.
  `PlaceInv` relates the step of the poll and of `waitForFinished` to the
  session, among it that a code once known means that the child is gone.
  `StreamInv` says what the end of the output means: the console was closed and
  the pipe read. So the last drain takes all that is left, unless it is the one
  of a wait and was paused there. `ToldInv` ties what the owner was told to the
  state, which the refinement needs. The steps are first sorted by what they do
  to a run (`Shapes`): seven actions fail a session in the same way.
- **ConPtySession.** `PtyInv` counts the chunks on their way: got, queued, in
  the reader's hand, in the pipe and not yet rendered (`HeldInv`). They are all
  the child has made until the output is cut off, and once the reader has seen
  the end the last three are none (`EndInv`), so the end is told as complete
  when everything was read. `PendingInv` adds to the count of `flush()` that
  only the writer, between emptying the queue and subtracting, has payloads it
  discards; `StuckInv` that, where no error is recorded and nobody closes, a
  closed input has no call queue any more and a writer leaves its loop for that
  reason only; `ResizeInv` that a thread that closes the console was given it,
  without which closing it during a resize is not excluded. The theorems are
  stated for the instance `Pty`, with the same capacity of the output queue as
  the object above.
- **HiddenProcess.** Here threads outlive their run, so the invariant says for
  each place of a thread what it may still touch. `FenceInv` is the fence of
  `TerminalProcess`. `WorkerOf` follows a child from its worker to the object,
  and `WaiterOf` says that a waiter that has not cleared the object's process
  yet has it for itself: the test of the generation and the clearing are two
  steps, and without this a waiter between them might clear the process of the
  next run. `ProcessOf` bounds the count of bytes by what is queued, which a
  writer of a former run can only lower. `OwnerInv` and `EndOf` say what the
  owner is owed: an end that waits is the last run's, or one a rushed start has
  left; a last waiter that sets the event has queued the end; and a reader that
  ended by itself left nothing. Of the waiters of former runs only one that was
  between clearing and notifying when `start` was called can still queue an end,
  so a stray end always has a rushed start before it. Most steps touch one run:
  `OthersKeep`, `LocalKeeps` and `LocalEnds` say once what they leave to the
  others. The theorems are stated for the instance `Hid`, with the same number
  of runs as the object above.
- **TerminalTab.** Since handlers run inside one another, what holds between two
  actions need not hold where a handler is entered: in the middle of a refill
  the queue is below its mark and the object not paused, and then the poll
  reports the end, whose slots drain, show and queue a start. So each operator
  has a lemma with what it needs of the tab it starts from and what it gives
  back, and the actions are compositions of these lemmas. `TabRight`, the
  invariant, is `Sound` with `Quiet`, `Leaving` and `Hushed`. `Sound` says that
  output is counted exactly and an end shown only once nothing is held (`Flows`,
  `Steady`), that a flush is scheduled for what waits (`Served`) and that a
  paused object waits for a queue above its low mark (`Filled`); a handler may
  be entered where `Filled` does not hold yet, and `TabSettles` says that it
  ends where all of it does. `Quiet`, `Hushed` and `Leaving` say what is left to
  happen in a tab that is closed, and that a session that was asked to stop in
  its start has ended; `Leaving` has the exception of a QProcess that failed to
  start, which is what `RestartFits` says of either object. `PendingIsServed`
  alone is not inductive: that a drained object holds nothing must be known when
  its end is shown. Several slots in one action tell several signals; `Moves`
  says that the state, the run and the signals told change as one step of
  `ProcessRun`, or not at all, which gives `TabContract`. The theorems are
  stated for the instance `Pane`, for either kind of object and any limits of
  the queue.
- **ServerLifecycle.** `ProcessInv` and `RecordInv`: a process that was launched
  and not reaped keeps its number, so the recorded number is the recorded
  process's or a stranger's. `HandleOK`: once identities were compared the
  handle is of the recorded process, which is why only that one is signalled;
  `DeadOK`: from the decision to replace it the recorded server is dead;
  `ChildOK`: a command's child was launched with the cookie in the file. One
  command is inside the lock (`LockInv`), so these survive the steps of the
  others.
- **UpdateStaging.** `LeaseInv`: the holder of the lease is the only process
  inside its command. `FilesInv`: while it receives files the directory has
  those of its version or nothing, the journal first and closed over a complete
  set only. `DirectoryFits` alone is not inductive: nothing in it says that all
  files are in place when a command comes to replace the "receiving" journal by
  a "staged" one. `PlaceInv` and `ManifestInv` carry what was checked to where
  it is used.
- **WorkspaceBackup.** `OneMoment` is the delicate one. `StampInv`: a file that
  still has the stamp that was read has the content that was read, unless it is
  in `unseen`; so has a file that is not listed, while the directory has its
  stamp (`NamesInv`). When the second pass looks at the directory there is one
  home, the present one, that has every file outside `unseen` as first read
  unless its stamp differs; `MomentInv` carries that home through the second
  pass. A difference shows in the comparison, so where the inventories agree,
  that home is what is archived, outside `unseen`. The file listed first is the
  least of `Order`, which exists by well-foundedness and needs no induction of
  its own.

Only model-checked:

- every liveness property (`CallsEnd`, `RunsResolve`, `ExitIsTold`,
  `SessionSettles`, `RequestsEnd`, `CommandsEnd`, `BackupEnds`): liveness under
  fairness and `ENABLED` are out of the prover's reach.

## 5. Findings

The first is the counterexample of a run.

1. `tab_stop_timer`: `request_stop` arms the stop timer after `terminate()`
   (`gui_terminal.py` 1340-1341). A session that is still starting has been told
   to be finished by then, in the middle of `terminate()`, and so has one whose
   end is found by its poll; `on_finished` stopped the timer (2541) before it
   was armed. When this was a restart the next run starts at once, `start` does
   not stop the timer, and 1.5 s later the new run is killed, which nobody asked
   to stop. `docs/ARCHITECTURE.md` 55-56 says that a process is asked to
   terminate first and killed when it does not.

Seen with other values of the constants:

2. `pull` reads the record before the transaction that merges it. With two
   commands at a time on one workstation (`Command = {m1, m2, m3}` and `ClientOf
   <- TwoOnFirst` in `TeamSync.cfg`) `NoLostPublication` fails: an older
   snapshot may be merged over newer rows, and a push that names the newer
   version puts the older rows back without a conflict (`docs/TEAM_SYNC.md`
   19-20 says that a stale client receives a conflict).

Met while modelling, and not the subject of a run of their own:

- The waiter of `QtHiddenProcess` says that the object does not run before it
  queues the end (`qt_terminal_process.py` 1176, 1182). An owner that asks
  `state()` and starts again at once, as `gui_connected.py` 2812 and 3186 do,
  and comes between the two steps is told of the former run's end in the midst
  of the new one, or finds its own end unannounced: the stray notice stops the
  notification timer (1228). The properties of `hidden_process` allow this and
  nothing else (`rushed`, `stray`).
- A private write without the lock that found no file and whose check of the
  permissions then fails takes the name away (`file_safety.py` 262-265),
  although another writer has put a whole file there since: before the
  replacement, of which no copy was taken, or between the check of the inode and
  the unlink. Both are lost, and readers find no file. `OnlyWithdrawn` allows
  this and nothing else.
- `close_input` is to take effect "after already queued writes have completed"
  (`windows_conpty.py` 1043). A payload queued between the writer's finding the
  queue empty and its look at the flag (942-945) is discarded, if the input is
  closed in that time too (992).
- A home that is written during a backup: a same-size write in place that keeps
  its times, and its undoing, between the two passes is not noticed (`OneMoment`
  excepts it).
- `pull` drops the port forwards of a local profile (`team_sync.py` 207), which
  "remain local even when the connection itself is shared" (`profile_sharing.py`
  178).
- A push larger than `MAX_TEAM_SYNC_BYTES` succeeds (`team_sync.py` 145), and no
  command of the team can read the record afterwards.
- Terminate, kill or close after the worker has delivered its session and before
  the startup timer looks drops the running child (`qt_terminal_process.py`
  643): the one exception in `OnlyCancelDrops`. `QtHiddenProcess` closes it
  there.
- When the read slot pauses the output inside `waitForFinished`, the last drain
  takes nothing and the run is reported as finished with its final output lost
  (614). The tab's slot does pause there (`gui_terminal.py` 1770-1771).
  `FinalOutput` allows this and nothing else.
- A hung `ResizePseudoConsole` blocks `close` beyond its timeout (see Fairness).
- A clear of the transcript while output is backed up empties the queue and
  stops its flush (`gui_terminal.py` 1689), and the reset only resumes the
  object (1705), which tells of new output only. What the object has read and
  the queue had no room for stays there until the process writes again or ends,
  though `refill_process_output` says that it pulls "retained transport bytes
  whenever the GUI queue has capacity" (1790). The history field `stranded`
  marks this case, which `PendingIsServed` and `TailInOrder` except.
- A QProcess that fails to start tells of an error and of no end. `on_error`
  clears neither the restart flag nor the stop timer, so a restart asked for
  during the start happens at the end of some later run: `RestartHappens` fails
  with `Object = "QProcess"`, and `RestartFits` names the case.
- A start that was queued for the event loop before its tab is closed still runs
  in the closed tab (`RunQueuedStart`); deletion then takes the object with it.

## 6. Not modelled

`PROJECT.json` gives the reason with each component. In short:

- The vault and the stores of snippets, layouts and macros are further users of
  the lock and the private write, with one read-modify-write per operation; what
  is their own is cryptography or one list.
- The main window, dialogs and designs are Qt code on one thread: their state is
  that of widgets, and a model of it would be a copy of the code. They make up
  most of the lines of the repository, with the scripts that check and render
  them.
- Terminal emulation, redaction, policy, importers and command construction are
  conversions of data.
- File transfer, the web console and plug-ins are input and output around
  external programs; release scripts and workflows do not run with the program.
- Inside modelled components: the Windows guard of the lock, shared writes and
  log appends of `file_safety.py`, the merge of imported bundles, the start of a
  console session, rendering, input, macros, split panes and the quit of the
  program around a terminal tab, a tab with a `QtHiddenProcess`, a
  `QtHiddenProcess` that is started again after `close`, Windows and other
  systems in `process_status.py`, encryption and manifests of backups,
  authentication and download of updates.

## 7. Plan

Every module of the plan is written and checked, and the safety properties and
refinements of all of them are proved. What remains is to model more: the quit
of the program with several tabs, the merge of imported bundles, the path of
Windows in `process_status.py`, and a tab over `HelperRun`.
