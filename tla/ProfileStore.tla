---------------------------- MODULE ProfileStore ----------------------------
(***************************************************************************)
(* storage.ProfileStore: profiles and group defaults in one JSON file that *)
(* several threads and processes change.  Every mutation is a transaction: *)
(* under the exclusive lock of the file (FileLock) it loads the document,  *)
(* may call back into the caller, and writes the whole document back       *)
(* (AtomicFile).  `load` and its readers take no lock.                     *)
(*                                                                         *)
(* The lock is re-entrant within a thread, so a callback that calls the    *)
(* store again would get it: `_mutation_state` is what refuses that call.  *)
(***************************************************************************)
CONSTANTS
  Thread, Name, Row, NoRow, Setting, Examples, Op, Missing, NoOp, NoThread

VARIABLES
  file,      \* the document on disk
  holder,    \* the thread in the exclusive lock of the file
  active,    \* whether the thread's `_mutation_state.paths` has the file
  op,        \* the call each thread is in
  pc,
  data,      \* the document it loaded
  ended

vars == <<file, holder, active, op, pc, data, ended>>

Abstract == INSTANCE Catalogue WITH
  document <- file, pending <- op, ended <- ended

ASSUME ProfileStoreAssumption ==
  /\ NoRow \notin Row /\ NoThread \notin Thread /\ NoOp \notin Op
  /\ Missing \notin Abstract!Document
  /\ Examples \in Abstract!Rows
  /\ Op \subseteq Abstract!OpType

Goto(t, label) == pc' = [pc EXCEPT ![t] = label]
Ended(t, how) == ended' = [ended EXCEPT ![t] = how]

Init ==
  /\ file \in Abstract!Document \cup {Missing}
  /\ holder = NoThread
  /\ active = [t \in Thread |-> FALSE]
  /\ op = [t \in Thread |-> NoOp]
  /\ pc = [t \in Thread |-> "idle"]
  /\ data = [t \in Thread |-> Missing]
  /\ ended = [t \in Thread |-> "no"]

(* Checks before the transaction (names, rows of an import) may refuse.    *)
Call(t, o) ==
  /\ pc[t] = "idle"
  /\ op' = [op EXCEPT ![t] = o]
  /\ Goto(t, "lock")
  /\ UNCHANGED <<file, holder, active, data, ended>>

(* `_transaction`: the lock, then the mark.                                *)
Enter(t) ==
  /\ pc[t] = "lock" /\ ~active[t] /\ holder = NoThread
  /\ holder' = t
  /\ active' = [active EXCEPT ![t] = TRUE]
  /\ Goto(t, "load")
  /\ UNCHANGED <<file, op, data, ended>>

(* "profile store is busy; retry after the current update".                *)
Busy(t) ==
  /\ pc[t] = "lock"
  /\ Ended(t, "error")
  /\ Goto(t, "return")
  /\ UNCHANGED <<file, holder, active, op, data>>

HasCallback(o) == o.kind \in {"update", "replace_named", "add"}

Load(t) ==
  /\ pc[t] = "load" /\ op[t].kind # "init"
  /\ data' = [data EXCEPT ![t] = Abstract!Read(file)]
  /\ Goto(t, IF HasCallback(op[t]) THEN "callback" ELSE "write")
  /\ UNCHANGED <<file, holder, active, op, ended>>

(* `init`: a store that has no file gets one.                              *)
InitMissing(t) ==
  /\ pc[t] = "load" /\ op[t].kind = "init" /\ file = Missing
  /\ data' = [data EXCEPT ![t] = Missing]
  /\ Goto(t, "write")
  /\ UNCHANGED <<file, holder, active, op, ended>>

(* Otherwise its transaction is over, and the purge is one of its own.     *)
InitPresent(t) ==
  /\ pc[t] = "load" /\ op[t].kind = "init" /\ file # Missing
  /\ holder' = NoThread
  /\ active' = [active EXCEPT ![t] = FALSE]
  /\ IF op[t].purge
       THEN /\ Goto(t, "purge")
            /\ UNCHANGED ended
       ELSE /\ Goto(t, "return")
            /\ Ended(t, "ok")
  /\ UNCHANGED <<file, op, data>>

EnterPurge(t) ==
  /\ pc[t] = "purge" /\ ~active[t] /\ holder = NoThread
  /\ holder' = t
  /\ active' = [active EXCEPT ![t] = TRUE]
  /\ data' = [data EXCEPT ![t] = file]
  /\ Goto(t, "write")
  /\ UNCHANGED <<file, op, ended>>

PurgeBusy(t) ==
  /\ pc[t] = "purge"
  /\ Ended(t, "error")
  /\ Goto(t, "return")
  /\ UNCHANGED <<file, holder, active, op, data>>

(* The updater or guard returns, having read the store or not.             *)
CallbackReturns(t) ==
  /\ pc[t] = "callback"
  /\ Goto(t, "write")
  /\ UNCHANGED <<file, holder, active, op, data, ended>>

(* Mutant: only the lock guards the store, and it is re-entrant.           *)
CallbackMutatesFreely(t) ==
  /\ pc[t] = "callback"
  /\ \E o \in Op : o.kind # "init" /\ file' \in Abstract!Effect(o, Abstract!Read(file))
  /\ UNCHANGED <<holder, active, op, pc, data, ended>>

(* A callback that mutates the store: the call is refused, and the error   *)
(* either ends the callback or is caught there.                            *)
CallbackMutates(t) ==
  /\ pc[t] = "callback" /\ active[t]
  /\ \/ Goto(t, "leave") /\ Ended(t, "error")
     \/ UNCHANGED <<pc, ended>>
  /\ UNCHANGED <<file, holder, active, op, data>>

(* Mutant: the rows of an import are saved as they are checked.            *)
RefuseHalfWay(t) ==
  /\ pc[t] = "write"
  /\ Ended(t, "error")
  /\ Goto(t, "leave")
  /\ IF op[t].kind = "import"
       THEN \E n \in Abstract!Named(op[t].rows) :
              file' = [data[t] EXCEPT !.rows[n] = op[t].rows[n]]
       ELSE UNCHANGED file
  /\ UNCHANGED <<holder, active, op, data>>

(* A policy, a name that is taken or missing, a callback that raises.      *)
Refuse(t) ==
  /\ pc[t] \in {"load", "callback", "write"}
  /\ Ended(t, "error")
  /\ Goto(t, "leave")
  /\ UNCHANGED <<file, holder, active, op, data>>

(* What the transaction would store: `init` finds the file or makes it.    *)
Stored(t) ==
  IF op[t].kind # "init" THEN Abstract!Effect(op[t], data[t])
  ELSE IF data[t] = Missing THEN {Abstract!Created(op[t])}
  ELSE Abstract!Effect([kind |-> "purge"], data[t])

(* Nothing to purge, or every row of the import skipped.                   *)
NothingToWrite(t) ==
  \/ /\ op[t].kind = "purge" \/ (op[t].kind = "init" /\ data[t] # Missing)
     /\ Abstract!Unchanged(data[t].rows) = {}
  \/ /\ op[t].kind = "add_many"
     /\ IF op[t].replace
          THEN Abstract!Named(op[t].rows) = {}
          ELSE Stored(t) # {} /\ Abstract!Named(op[t].rows) \subseteq Abstract!Named(data[t].rows)

SkipWrite(t) ==
  /\ pc[t] = "write" /\ NothingToWrite(t)
  /\ Ended(t, "ok")
  /\ Goto(t, "leave")
  /\ UNCHANGED <<file, holder, active, op, data>>

Write(t) ==
  /\ pc[t] = "write" /\ ~NothingToWrite(t)
  /\ file' \in Stored(t)
  /\ Ended(t, "ok")
  /\ Goto(t, "leave")
  /\ UNCHANGED <<holder, active, op, data>>

(* AtomicFile!FailedButApplied: an error, and the new document in place.   *)
WriteFailsApplied(t) ==
  /\ pc[t] = "write" /\ ~NothingToWrite(t)
  /\ file' \in Stored(t)
  /\ Ended(t, "error")
  /\ Goto(t, "leave")
  /\ UNCHANGED <<holder, active, op, data>>

(* The end of `_transaction`, whichever way it is left.                    *)
Leave(t) ==
  /\ pc[t] = "leave"
  /\ holder' = NoThread
  /\ active' = [active EXCEPT ![t] = FALSE]
  /\ data' = [data EXCEPT ![t] = Missing]
  /\ Goto(t, "return")
  /\ UNCHANGED <<file, op, ended>>

Return(t) ==
  /\ pc[t] = "return"
  /\ op' = [op EXCEPT ![t] = NoOp]
  /\ Ended(t, "no")
  /\ Goto(t, "idle")
  /\ UNCHANGED <<file, holder, active, data>>

(* The process is killed.  Its lock is free; the next thread of that name  *)
(* belongs to a new process, with a `_mutation_state` of its own.          *)
Crash(t) ==
  /\ pc[t] # "idle"
  /\ holder' = IF holder = t THEN NoThread ELSE holder
  /\ active' = [active EXCEPT ![t] = FALSE]
  /\ op' = [op EXCEPT ![t] = NoOp]
  /\ data' = [data EXCEPT ![t] = Missing]
  /\ Ended(t, "no")
  /\ Goto(t, "idle")
  /\ UNCHANGED file

Step(t) ==
  \/ Enter(t) \/ Busy(t) \/ Load(t)
  \/ InitMissing(t) \/ InitPresent(t) \/ EnterPurge(t) \/ PurgeBusy(t)
  \/ CallbackReturns(t) \/ Refuse(t)
  \/ SkipWrite(t) \/ Write(t) \/ WriteFailsApplied(t)
  \/ Leave(t) \/ Return(t)

Next ==
  \E t \in Thread :
    \/ \E o \in Op : Call(t, o)
    \/ Step(t) \/ CallbackMutates(t) \/ Crash(t)

Spec == Init /\ [][Next]_vars
-----------------------------------------------------------------------------
Where == {"idle", "lock", "load", "purge", "callback", "write", "leave", "return"}

(* Types; a thread is marked exactly while it holds the lock.              *)
TypeOK ==
  /\ file \in Abstract!Document \cup {Missing}
  /\ holder \in Thread \cup {NoThread}
  /\ active \in [Thread -> BOOLEAN]
  /\ op \in [Thread -> Op \cup {NoOp}]
  /\ pc \in [Thread -> Where]
  /\ data \in [Thread -> Abstract!Document \cup {Missing}]
  /\ ended \in [Thread -> {"no", "ok", "error"}]
  /\ \A t \in Thread : active[t] <=> holder = t

(* Between loading the document and writing it back nothing else writes    *)
(* it: not another thread or process, and not a callback of the thread     *)
(* itself.  test_profile_store_update_rejects_reentrant_mutation.          *)
Fresh ==
  \A t \in Thread :
    pc[t] \in {"callback", "write"} =>
      data[t] = IF op[t].kind = "init" THEN file ELSE Abstract!Read(file)

(* A thread carries the mark of a store exactly while it has the lock, and *)
(* what it has read stays so until it writes.                              *)
ReadsStayFresh == TypeOK /\ Fresh

(* Every mutation takes effect at one moment on what is stored then, and a *)
(* refused one not at all: no update is lost and no import is half done.   *)
AbstractSpec == Abstract!Spec
=============================================================================
