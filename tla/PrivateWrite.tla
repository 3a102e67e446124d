---------------------------- MODULE PrivateWrite ----------------------------
(***************************************************************************)
(* file_safety._write_bytes_atomic(private=True): the write under every    *)
(* private store.  The payload goes to a temporary file, the file in place *)
(* is copied, the temporary file is renamed over it, and a failure after   *)
(* the rename is rolled back from the copy.                                *)
(*                                                                         *)
(* Files are inodes: a name refers to one, a rename moves it.  The writers *)
(* of a file hold exclusive_file_lock around the call, as the stores do, or*)
(* none of them does, as with the files of keys.py and of the text editor. *)
(***************************************************************************)
EXTENDS Naturals

CONSTANTS
  Writer,
  Value,
  Ino,       \* inodes; bounds the files that can pile up in the directory
  NoIno, Absent, Partial, None, NoWriter,
  NoLock,    \* the place of the lock's holder while the writers take none
  LooseValue \* bound: the values that writers without the lock write

ASSUME PrivateWriteAssumption ==
  /\ LooseValue \subseteq Value /\ NoLock \notin Writer \cup {NoWriter}
  /\ Absent \notin Value /\ Partial \notin Value /\ None \notin Value
  /\ Absent # Partial /\ NoIno \notin Ino /\ NoWriter \notin Writer

VARIABLES
  target,     \* the inode behind the file's name
  data,       \* content of each inode
  pc,         \* where a writer is in _write_bytes_atomic
  payload,    \* what it writes
  temp,       \* its temporary file
  source,     \* the file it has open to copy
  predecessor,\* its copy of the file it replaces
  installed,  \* the inode it renamed over the target
  keep,       \* `keep_predecessor`
  before,     \* what it found in place when it began
  result,
  kept,       \* copies kept for recovery
  debris,     \* files nobody will remove: left by a crash or a failed unlink
  turn,       \* the holder of the state lock, or NoLock
  fault       \* a kill, an interrupt or a failed unlink has happened

vars == <<target, data, pc, payload, temp, source, predecessor, installed, keep,
          before, result, kept, debris, turn, fault>>

files == <<target, data>>
locals == <<payload, source, installed, before>>
leftovers == <<kept, debris, fault>>

(* Every name in the directory but the target's.                           *)
Others == {temp[w] : w \in Writer} \cup {predecessor[w] : w \in Writer}
            \cup kept \cup debris
(* An inode that is open somewhere stays, named or not.                    *)
Free == Ino \ (Others \cup {target} \cup {source[w] : w \in Writer})

Content == IF target = NoIno THEN Absent ELSE data[target]

Goto(w, label) == pc' = [pc EXCEPT ![w] = label]
Result(w, r) == result' = [result EXCEPT ![w] = r]
Only(i) == {i} \ {NoIno}

Locked == turn # NoLock
Values == IF Locked THEN Value ELSE LooseValue

Init ==
  /\ target \in Ino \cup {NoIno}
  /\ turn \in {NoWriter, NoLock}
  /\ \E v \in Values : data = [i \in Ino |-> IF i = target THEN v ELSE Partial]
  /\ pc = [w \in Writer |-> "idle"]
  /\ payload = [w \in Writer |-> None]
  /\ temp = [w \in Writer |-> NoIno]
  /\ source = [w \in Writer |-> NoIno]
  /\ predecessor = [w \in Writer |-> NoIno]
  /\ installed = [w \in Writer |-> NoIno]
  /\ keep = [w \in Writer |-> FALSE]
  /\ before = [w \in Writer |-> Absent]
  /\ result = [w \in Writer |-> "none"]
  /\ kept = {}
  /\ debris = {}
  /\ fault = FALSE

Begin(w, v) ==
  /\ pc[w] = "idle"
  /\ v \in Values
  /\ IF Locked THEN turn = NoWriter /\ turn' = w ELSE UNCHANGED turn
  /\ payload' = [payload EXCEPT ![w] = v]
  /\ before' = [before EXCEPT ![w] = Content]
  /\ Result(w, "none")
  /\ Goto(w, "create")
  /\ UNCHANGED <<files, temp, source, predecessor, installed, keep, leftovers>>

(* The call is over: everything in its frame is gone, the lock is free.    *)
Leave(w) ==
  /\ Goto(w, "idle")
  /\ payload' = [payload EXCEPT ![w] = None]
  /\ installed' = [installed EXCEPT ![w] = NoIno]
  /\ before' = [before EXCEPT ![w] = Absent]
  /\ turn' = IF turn = w THEN NoWriter ELSE turn

(* `mkstemp` and the checks before it fail outside the try block.          *)
CreateFails(w) ==
  /\ pc[w] = "create"
  /\ Result(w, "error")
  /\ Goto(w, "finally")
  /\ UNCHANGED <<files, temp, predecessor, keep, turn, leftovers, locals>>

CreateTemp(w) ==
  /\ pc[w] = "create"
  /\ \E i \in Free :
       /\ temp' = [temp EXCEPT ![w] = i]
       /\ data' = [data EXCEPT ![i] = Partial]
  /\ Goto(w, "write")
  /\ UNCHANGED <<target, predecessor, keep, result, turn, leftovers, locals>>

(* write, flush, fsync, chmod of the temporary file, link checks.          *)
WriteTemp(w) ==
  /\ pc[w] = "write"
  /\ data' = [data EXCEPT ![temp[w]] = payload[w]]
  /\ Goto(w, "backup")
  /\ UNCHANGED <<target, temp, predecessor, keep, result, turn, leftovers, locals>>

(* `_backup_private_predecessor`: no copy when there is no file.           *)
BackupAbsent(w) ==
  /\ pc[w] = "backup" /\ target = NoIno
  /\ Goto(w, "replace")
  /\ UNCHANGED <<files, temp, predecessor, keep, result, turn, leftovers,
                 locals>>

(* Mutant: the file in place is moved away instead of copied.              *)
BackupMoves(w) ==
  /\ pc[w] = "backup" /\ target # NoIno
  /\ target' = NoIno
  /\ predecessor' = [predecessor EXCEPT ![w] = target]
  /\ Goto(w, "replace")
  /\ UNCHANGED <<data, temp, keep, result, turn, leftovers, locals>>

(* The file in place is opened, and a file for its copy created.           *)
Backup(w) ==
  /\ pc[w] = "backup" /\ target # NoIno
  /\ source' = [source EXCEPT ![w] = target]
  /\ \E i \in Free :
       /\ predecessor' = [predecessor EXCEPT ![w] = i]
       /\ data' = [data EXCEPT ![i] = Partial]
  /\ Goto(w, "copy")
  /\ UNCHANGED <<target, payload, temp, installed, keep, before, result, turn,
                 leftovers>>

(* Whatever the name refers to by now, the copy is of the file opened.     *)
Copy(w) ==
  /\ pc[w] = "copy"
  /\ data' = [data EXCEPT ![predecessor[w]] = data[source[w]]]
  /\ source' = [source EXCEPT ![w] = NoIno]
  /\ Goto(w, "replace")
  /\ UNCHANGED <<target, payload, temp, predecessor, installed, keep, before,
                 result, turn, leftovers>>

(* An unlink whose failure is ignored leaves its file behind.              *)
Unlink(i) ==
  \/ UNCHANGED <<debris, fault>>
  \/ i # NoIno /\ debris' = debris \cup {i} /\ fault' = TRUE

(* A copy that fails half way is removed before the caller hears of it.    *)
CopyFails(w) ==
  /\ pc[w] = "copy"
  /\ Unlink(predecessor[w])
  /\ predecessor' = [predecessor EXCEPT ![w] = NoIno]
  /\ source' = [source EXCEPT ![w] = NoIno]
  /\ Result(w, "error")
  /\ Goto(w, "unlink")
  /\ UNCHANGED <<files, payload, temp, installed, keep, before, kept, turn>>

(* `os.replace(temp_path, path)`.                                          *)
Replace(w) ==
  /\ pc[w] = "replace"
  /\ target' = temp[w]
  /\ installed' = [installed EXCEPT ![w] = temp[w]]
  /\ temp' = [temp EXCEPT ![w] = NoIno]
  /\ Goto(w, "chmod")
  /\ UNCHANGED <<data, payload, source, predecessor, keep, before, result, turn,
                 leftovers>>

ChmodOk(w) ==
  /\ pc[w] = "chmod"
  /\ Result(w, "ok")
  /\ Goto(w, "finally")
  /\ UNCHANGED <<files, temp, predecessor, keep, turn, leftovers, locals>>

(* Mutant: the except clause forgets the temporary file.                   *)
FailsForgets(w) ==
  /\ pc[w] \in {"write", "backup", "replace"}
  /\ Result(w, "error")
  /\ Goto(w, "finally")
  /\ temp' = [temp EXCEPT ![w] = NoIno]
  /\ debris' = debris \cup {temp[w]}
  /\ UNCHANGED <<files, predecessor, keep, turn, kept, fault, locals>>

(* An exception before the rename needs no rollback.                       *)
Fails(w) ==
  /\ pc[w] \in {"write", "backup", "replace"}
  /\ Result(w, "error")
  /\ Goto(w, "unlink")
  /\ UNCHANGED <<files, temp, predecessor, keep, turn, leftovers, locals>>

ChmodFails(w) ==
  /\ pc[w] = "chmod"
  /\ Goto(w, "check")
  /\ UNCHANGED <<files, temp, predecessor, keep, result, turn, leftovers,
                 locals>>

(* `_rollback_private_write`: is the file still the one installed?         *)
CheckInstalled(w) ==
  /\ pc[w] = "check" /\ target = installed[w]
  /\ Goto(w, "restore")
  /\ UNCHANGED <<files, temp, predecessor, keep, result, turn, leftovers,
                 locals>>

Restore(w) ==
  /\ pc[w] = "restore"
  /\ target' = predecessor[w]
  /\ predecessor' = [predecessor EXCEPT ![w] = NoIno]
  /\ Result(w, "error")
  /\ Goto(w, "unlink")
  /\ UNCHANGED <<data, temp, keep, turn, leftovers, locals>>

(* Mutant: the finally clause removes the copy whatever happened.          *)
RollbackFailsDrops(w) ==
  /\ \/ pc[w] = "check" /\ target # installed[w]
     \/ pc[w] = "restore"
  /\ Result(w, "error")
  /\ Goto(w, "unlink")
  /\ UNCHANGED <<files, temp, predecessor, keep, turn, leftovers, locals>>

(* The rollback itself fails; the copy, if there is one, will be kept.     *)
RollbackFails(w) ==
  /\ \/ pc[w] = "check" /\ target # installed[w]
     \/ pc[w] = "restore"
  /\ keep' = [keep EXCEPT ![w] = predecessor[w] # NoIno]
  /\ Result(w, "error")
  /\ Goto(w, "unlink")
  /\ UNCHANGED <<files, temp, predecessor, turn, leftovers, locals>>

UnlinkTemp(w) ==
  /\ pc[w] = "unlink"
  /\ Unlink(temp[w])
  /\ temp' = [temp EXCEPT ![w] = NoIno]
  /\ Goto(w, "finally")
  /\ UNCHANGED <<files, predecessor, keep, result, kept, turn, locals>>

Finally(w) ==
  /\ pc[w] = "finally"
  /\ IF keep[w] THEN kept' = kept \cup {predecessor[w]} /\ UNCHANGED <<debris, fault>>
                ELSE Unlink(predecessor[w]) /\ UNCHANGED kept
  /\ predecessor' = [predecessor EXCEPT ![w] = NoIno]
  /\ keep' = [keep EXCEPT ![w] = FALSE]
  /\ Leave(w)
  /\ UNCHANGED <<files, temp, source, result>>

(* KeyboardInterrupt and its like pass the except clause: no rollback, the *)
(* temporary file stays, and a copy not yet returned stays too.  Only the  *)
(* finally clause still runs.                                              *)
Interrupt(w) ==
  /\ pc[w] \in {"write", "backup", "copy", "replace", "chmod", "check", "restore",
               "unlink"}
  /\ Result(w, IF result[w] = "none" THEN "unknown" ELSE result[w])
  /\ LET lost == IF pc[w] = "copy" THEN predecessor[w] ELSE NoIno
     IN  /\ debris' = debris \cup Only(temp[w]) \cup Only(lost)
         /\ predecessor' = [predecessor EXCEPT
                              ![w] = IF lost = NoIno THEN @ ELSE NoIno]
  /\ temp' = [temp EXCEPT ![w] = NoIno]
  /\ source' = [source EXCEPT ![w] = NoIno]
  /\ fault' = TRUE
  /\ Goto(w, "finally")
  /\ UNCHANGED <<files, payload, installed, keep, before, kept, turn>>

Crash(w) ==
  /\ pc[w] # "idle"
  /\ Result(w, IF result[w] = "none" THEN "unknown" ELSE result[w])
  /\ debris' = debris \cup Only(temp[w]) \cup
                 (IF keep[w] THEN {} ELSE Only(predecessor[w]))
  /\ kept' = IF keep[w] THEN kept \cup {predecessor[w]} ELSE kept
  /\ temp' = [temp EXCEPT ![w] = NoIno]
  /\ source' = [source EXCEPT ![w] = NoIno]
  /\ predecessor' = [predecessor EXCEPT ![w] = NoIno]
  /\ keep' = [keep EXCEPT ![w] = FALSE]
  /\ fault' = TRUE
  /\ Leave(w)
  /\ UNCHANGED files

Next ==
  \E w \in Writer :
    \/ \E v \in Value : Begin(w, v)
    \/ CreateTemp(w) \/ CreateFails(w) \/ WriteTemp(w)
    \/ BackupAbsent(w) \/ Backup(w) \/ Copy(w) \/ CopyFails(w)
    \/ Replace(w) \/ ChmodOk(w)
    \/ Fails(w) \/ ChmodFails(w)
    \/ CheckInstalled(w) \/ Restore(w) \/ RollbackFails(w)
    \/ UnlinkTemp(w) \/ Finally(w) \/ Interrupt(w) \/ Crash(w)

Spec == Init /\ [][Next]_vars
-----------------------------------------------------------------------------
Where == {"idle", "create", "write", "backup", "copy", "replace", "chmod", "check",
          "restore", "unlink", "finally"}

(* Types, and a copy to keep is a copy that exists.                        *)
TypeOK ==
  /\ target \in Ino \cup {NoIno}
  /\ data \in [Ino -> Value \cup {Partial}]
  /\ pc \in [Writer -> Where]
  /\ payload \in [Writer -> Value \cup {None}]
  /\ temp \in [Writer -> Ino \cup {NoIno}]
  /\ source \in [Writer -> Ino \cup {NoIno}]
  /\ predecessor \in [Writer -> Ino \cup {NoIno}]
  /\ installed \in [Writer -> Ino \cup {NoIno}]
  /\ keep \in [Writer -> BOOLEAN]
  /\ before \in [Writer -> Value \cup {Absent, Partial}]
  /\ result \in [Writer -> {"none", "ok", "error", "unknown"}]
  /\ kept \subseteq Ino
  /\ debris \subseteq Ino
  /\ turn \in Writer \cup {NoWriter, NoLock}
  /\ fault \in BOOLEAN
  /\ \A w \in Writer : keep[w] => predecessor[w] # NoIno

(* Readers and recovery never meet half a file: what the name refers to,   *)
(* and every copy kept for recovery, is some value written as a whole.     *)
(* The file is read without a lock (`load`, `status`), so it must hold     *)
(* after every step, whatever other writers do.                            *)
Whole ==
  /\ target # NoIno => data[target] # Partial
  /\ \A i \in kept : data[i] # Partial

(* While the writers take turns, a reader finds the former or the new file *)
(* at every moment of a write that replaces one, at no moment none: the    *)
(* predecessor is copied and never moved away.                             *)
NeverVanishes ==
  \A w \in Writer :
    Locked /\ pc[w] # "idle" /\ before[w] # Absent => target # NoIno

(* The rollback of a writer that saw no file when it looked for one to copy *)
(* takes the name away.  Under the lock there was none before, and what it *)
(* removes is its own; without the lock the check of `_rollback_private_   *)
(* write` and its unlink are two steps, and the file may be another's.     *)
Withdraws(w) ==
  /\ pc[w] = "restore" /\ predecessor[w] = NoIno
  /\ Locked => before[w] = Absent /\ target = installed[w]

(* With the lock and without it, nothing but such a rollback ever leaves a *)
(* reader without a file where there was one: no replacement, no failure,  *)
(* no kill, no rollback that has a copy.                                   *)
OnlyWithdrawn ==
  [][target # NoIno /\ target' = NoIno => \E w \in Writer : Withdraws(w)]_vars

(* Whatever fails or is killed, a reader finds a complete value where there *)
(* was one, but for a first write that is withdrawn.                       *)
ReadersSeeWhole == [](TypeOK /\ Whole /\ NeverVanishes) /\ OnlyWithdrawn

(* docs/SECURITY_MODEL.md, Local data writes: "use atomic replacement      *)
(* helpers so partially-written files are not left behind after normal     *)
(* write failures".                                                        *)
NothingLeftBehind == ~fault => debris = {}

(* Written under the lock the file is an atomic register; without it there *)
(* is nothing to promise but Whole.  A value that is installed and not yet *)
(* confirmed does not count: it may be rolled back.                        *)
Pending(w) == pc[w] \in {"chmod", "check", "restore"}

Confirmed == IF \E w \in Writer : Pending(w)
               THEN before[CHOOSE w \in Writer : Pending(w)]
               ELSE Content

Saved == {data[i] : i \in kept \cup {predecessor[w] : w \in {v \in Writer : keep[v]}}}

Abstract == INSTANCE AtomicFile WITH
  value <- IF Locked THEN Confirmed ELSE Absent,
  saved <- IF Locked THEN Saved ELSE {},
  request <- [w \in Writer |-> IF Locked THEN payload[w] ELSE None],
  result <- [w \in Writer |-> IF Locked THEN result[w] ELSE "none"]

AbstractSpec == Abstract!Spec
=============================================================================
