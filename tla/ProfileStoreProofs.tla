-------------------------- MODULE ProfileStoreProofs --------------------------
(***************************************************************************)
(* Proofs about ProfileStore, for any threads, names, rows, settings and   *)
(* calls: nothing writes the document inside another transaction, and so   *)
(* the store implements Catalogue.                                         *)
(***************************************************************************)
EXTENDS ProfileStore, TLAPS

Inside == {"load", "callback", "write", "leave"}

(* The mark, the lock and the place in the code say the same thing.        *)
LockedInv ==
  \A t \in Thread : (active[t] <=> holder = t) /\ (pc[t] \in Inside <=> holder = t)

(* A thread has a call exactly when it is in one, and an outcome exactly   *)
(* when its transaction is decided.                                        *)
CallInv ==
  \A t \in Thread :
    /\ pc[t] = "idle" <=> op[t] = NoOp
    /\ ended[t] = "no" <=> pc[t] \notin {"leave", "return"}

(* Only an `init` that found the file purges; only other calls call back;  *)
(* only an `init` that found no file carries no document to the write.     *)
InitInv ==
  \A t \in Thread :
    /\ pc[t] = "purge" => op[t].kind = "init" /\ op[t].purge /\ file # Missing
    /\ pc[t] \in {"callback", "write"} /\ op[t].kind # "init" => data[t] # Missing
    /\ pc[t] = "write" /\ op[t].kind = "init" /\ data[t] # Missing => op[t].purge
    /\ pc[t] = "callback" => op[t].kind # "init"

Shapes ==
  /\ holder \in Thread \cup {NoThread}
  /\ active \in [Thread -> BOOLEAN]
  /\ op \in [Thread -> Op \cup {NoOp}]
  /\ pc \in [Thread -> Where]
  /\ ended \in [Thread -> {"no", "ok", "error"}]

Stores ==
  /\ file \in Abstract!Document \cup {Missing}
  /\ data \in [Thread -> Abstract!Document \cup {Missing}]

StoreInv == Shapes /\ Stores /\ LockedInv /\ CallInv /\ InitInv /\ Fresh
-------------------------------------------------------------------------------
(* A call makes a document of a document.                                  *)
LEMMA EffectType ==
  ASSUME NEW o \in Abstract!OpType, NEW d \in Abstract!Document, o.kind # "init"
  PROVE  Abstract!Effect(o, d) \subseteq Abstract!Document
<1> USE DEF Abstract!Document, Abstract!Rows, Abstract!WithRows
<1>1. CASE o.kind = "purge"
  <2> DEFINE rows == Abstract!Without(d.rows, Abstract!Unchanged(d.rows))
  <2>1. Abstract!Effect(o, d) = {[d EXCEPT !.rows = rows]}
    BY <1>1 DEF Abstract!Effect
  <2>2. rows \in Abstract!Rows
    BY DEF Abstract!Without
  <2> QED BY <2>1, <2>2
<1>2. CASE o.kind \in {"save", "update"}
  BY <1>2 DEF Abstract!Effect, Abstract!OpType
<1>3. CASE o.kind = "replace_named"
  <2> DEFINE rows == [Abstract!Without(d.rows, {o.original}) EXCEPT ![o.name] = o.row]
  <2>1. Abstract!Effect(o, d) \subseteq {[d EXCEPT !.rows = rows]}
    BY <1>3 DEF Abstract!Effect, Abstract!ReplaceNamed
  <2>2. o.row \in Row /\ o.name \in Name
    BY <1>3 DEF Abstract!OpType
  <2>3. rows \in Abstract!Rows
    BY <2>2 DEF Abstract!Without
  <2> QED BY <2>1, <2>3
<1>4. CASE o.kind = "add"
  BY <1>4 DEF Abstract!Effect, Abstract!OpType, Abstract!Add, Abstract!Named
<1>5. CASE o.kind = "remove"
  BY <1>5 DEF Abstract!Effect, Abstract!OpType, Abstract!Remove, Abstract!Without,
              Abstract!Named
<1>6. CASE o.kind = "add_many"
  BY <1>6 DEF Abstract!Effect, Abstract!OpType, Abstract!AddMany, Abstract!Merged,
              Abstract!Named
<1>7. CASE o.kind = "import"
  BY <1>7 DEF Abstract!Effect, Abstract!OpType, Abstract!Import, Abstract!Merged,
              Abstract!Named
<1>8. CASE o.kind = "set_defaults"
  BY <1>8 DEF Abstract!Effect, Abstract!OpType, Abstract!SetDefaults
<1> QED 
  <2>1. o.kind \in {"init", "purge", "save", "update", "replace_named", "add", "remove",
                   "add_many", "import", "set_defaults"}
    BY DEF Abstract!OpType
  <2> QED BY <2>1, <1>1, <1>2, <1>3, <1>4, <1>5, <1>6, <1>7, <1>8 DEF Abstract!OpType

(* A missing file reads as a document too.                                 *)
LEMMA ReadType ==
  ASSUME NEW d \in Abstract!Document \cup {Missing}
  PROVE  Abstract!Read(d) \in Abstract!Document /\ Abstract!Read(d) # Missing
BY ProfileStoreAssumption DEF Abstract!Read, Abstract!Empty, Abstract!Document,
   Abstract!Rows

(* What a transaction stores is a document, and never a missing one.       *)
LEMMA StoredType ==
  ASSUME StoreInv, NEW t \in Thread, pc[t] = "write"
  PROVE  Stored(t) \subseteq Abstract!Document
<1>1. op[t] \in Abstract!OpType
  BY ProfileStoreAssumption DEF StoreInv, CallInv, Shapes
<1>2. CASE op[t].kind # "init"
  <2>1. data[t] \in Abstract!Document
    BY <1>2 DEF StoreInv, Stores, InitInv
  <2> QED BY <1>1, <1>2, <2>1, EffectType DEF Stored
<1>3. CASE op[t].kind = "init" /\ data[t] = Missing
  <2>1. Abstract!Created(op[t]) \in Abstract!Document
    BY ProfileStoreAssumption DEF Abstract!Created, Abstract!Empty, Abstract!Document,
       Abstract!Rows
  <2> QED BY <1>3, <2>1 DEF Stored
<1>4. CASE op[t].kind = "init" /\ data[t] # Missing
  <2>1. data[t] \in Abstract!Document
    BY <1>4 DEF StoreInv, Stores
  <2>2. [kind |-> "purge"] \in Abstract!OpType
    BY DEF Abstract!OpType
  <2> QED BY <1>4, <2>1, <2>2, EffectType DEF Stored
<1> QED BY <1>2, <1>3, <1>4

(* StoreInv survives making a call.                                        *)
LEMMA CallStep ==
  ASSUME StoreInv, NEW t \in Thread, NEW o \in Op, Call(t, o) PROVE StoreInv'
<1> USE DEF Call, Goto, Ended, StoreInv, Shapes
<1>a. NoThread \notin Thread /\ NoOp \notin Op
  BY ProfileStoreAssumption
<1>1. Shapes'
  BY <1>a DEF Where
<1>2. Stores'
  BY DEF Stores
<1>3. LockedInv'
  BY <1>a DEF LockedInv, Inside
<1>4. CallInv'
  BY <1>a DEF CallInv, LockedInv, Inside
<1>5. InitInv'
  BY DEF InitInv, LockedInv, Inside, HasCallback
<1>6. Fresh'
  BY <1>a DEF Fresh, LockedInv, Inside, Abstract!Read, InitInv
<1> QED BY <1>1, <1>2, <1>3, <1>4, <1>5, <1>6

(* StoreInv survives entering the transaction.                             *)
LEMMA EnterStep ==
  ASSUME StoreInv, NEW t \in Thread, Enter(t) PROVE StoreInv'
<1> USE DEF Enter, Goto, Ended, StoreInv, Shapes
<1>a. NoThread \notin Thread /\ NoOp \notin Op
  BY ProfileStoreAssumption
<1>1. Shapes'
  BY <1>a DEF Where
<1>2. Stores'
  BY DEF Stores
<1>3. LockedInv'
  BY <1>a DEF LockedInv, Inside
<1>4. CallInv'
  BY <1>a DEF CallInv, LockedInv, Inside
<1>5. InitInv'
  BY DEF InitInv, LockedInv, Inside, HasCallback
<1>6. Fresh'
  BY <1>a DEF Fresh, LockedInv, Inside, Abstract!Read, InitInv
<1> QED BY <1>1, <1>2, <1>3, <1>4, <1>5, <1>6

(* StoreInv survives finding the store busy.                               *)
LEMMA BusyStep ==
  ASSUME StoreInv, NEW t \in Thread, Busy(t) PROVE StoreInv'
<1> USE DEF Busy, Goto, Ended, StoreInv, Shapes
<1>a. NoThread \notin Thread /\ NoOp \notin Op
  BY ProfileStoreAssumption
<1>1. Shapes'
  BY <1>a DEF Where
<1>2. Stores'
  BY DEF Stores
<1>3. LockedInv'
  BY <1>a DEF LockedInv, Inside
<1>4. CallInv'
  BY <1>a DEF CallInv, LockedInv, Inside
<1>5. InitInv'
  BY DEF InitInv, LockedInv, Inside, HasCallback
<1>6. Fresh'
  BY <1>a DEF Fresh, LockedInv, Inside, Abstract!Read, InitInv
<1> QED BY <1>1, <1>2, <1>3, <1>4, <1>5, <1>6

(* StoreInv survives loading the document.                                 *)
LEMMA LoadStep ==
  ASSUME StoreInv, NEW t \in Thread, Load(t) PROVE StoreInv'
<1> USE DEF Load, Goto, Ended, StoreInv, Shapes
<1>a. NoThread \notin Thread /\ NoOp \notin Op
  BY ProfileStoreAssumption
<1>1. Shapes'
  BY <1>a DEF Where
<1>2. Stores'
  BY ReadType DEF Stores
<1>3. LockedInv'
  BY <1>a DEF LockedInv, Inside
<1>4. CallInv'
  BY <1>a DEF CallInv, LockedInv, Inside
<1>5. InitInv'
  BY ReadType DEF InitInv, Stores, HasCallback
<1>6. Fresh'
  BY <1>a DEF Fresh, LockedInv, Inside, Abstract!Read, InitInv, Stores
<1> QED BY <1>1, <1>2, <1>3, <1>4, <1>5, <1>6

(* StoreInv survives finding no file.                                      *)
LEMMA InitMissingStep ==
  ASSUME StoreInv, NEW t \in Thread, InitMissing(t) PROVE StoreInv'
<1> USE DEF InitMissing, Goto, Ended, StoreInv, Shapes
<1>a. NoThread \notin Thread /\ NoOp \notin Op
  BY ProfileStoreAssumption
<1>1. Shapes'
  BY <1>a DEF Where
<1>2. Stores'
  BY DEF Stores
<1>3. LockedInv'
  BY <1>a DEF LockedInv, Inside
<1>4. CallInv'
  BY <1>a DEF CallInv, LockedInv, Inside
<1>5. InitInv'
  BY DEF InitInv, LockedInv, Inside, HasCallback, Stores
<1>6. Fresh'
  BY <1>a DEF Fresh, LockedInv, Inside, Abstract!Read, InitInv, Stores
<1> QED BY <1>1, <1>2, <1>3, <1>4, <1>5, <1>6

(* StoreInv survives finding the file made.                                *)
LEMMA InitPresentStep ==
  ASSUME StoreInv, NEW t \in Thread, InitPresent(t) PROVE StoreInv'
<1> USE DEF InitPresent, Goto, Ended, StoreInv, Shapes
<1>a. NoThread \notin Thread /\ NoOp \notin Op
  BY ProfileStoreAssumption
<1>1. Shapes'
  BY <1>a DEF Where
<1>2. Stores'
  BY DEF Stores
<1>3. LockedInv'
  BY <1>a DEF LockedInv, Inside
<1>4. CallInv'
  BY <1>a DEF CallInv, LockedInv, Inside
<1>5. InitInv'
  BY DEF InitInv, LockedInv, Inside, HasCallback
<1>6. Fresh'
  BY <1>a DEF Fresh, LockedInv, Inside, Abstract!Read, InitInv
<1> QED BY <1>1, <1>2, <1>3, <1>4, <1>5, <1>6

(* StoreInv survives entering the purge.                                   *)
LEMMA EnterPurgeStep ==
  ASSUME StoreInv, NEW t \in Thread, EnterPurge(t) PROVE StoreInv'
<1> USE DEF EnterPurge, Goto, Ended, StoreInv, Shapes
<1>a. NoThread \notin Thread /\ NoOp \notin Op
  BY ProfileStoreAssumption
<1>1. Shapes'
  BY <1>a DEF Where
<1>2. Stores'
  BY DEF Stores
<1>3. LockedInv'
  BY <1>a DEF LockedInv, Inside
<1>4. CallInv'
  BY <1>a DEF CallInv, LockedInv, Inside
<1>5. InitInv'
  BY DEF InitInv, LockedInv, Inside, HasCallback
<1>6. Fresh'
  BY <1>a DEF Fresh, LockedInv, Inside, Abstract!Read, InitInv, Stores
<1> QED BY <1>1, <1>2, <1>3, <1>4, <1>5, <1>6

(* StoreInv survives finding the store busy.                               *)
LEMMA PurgeBusyStep ==
  ASSUME StoreInv, NEW t \in Thread, PurgeBusy(t) PROVE StoreInv'
<1> USE DEF PurgeBusy, Goto, Ended, StoreInv, Shapes
<1>a. NoThread \notin Thread /\ NoOp \notin Op
  BY ProfileStoreAssumption
<1>1. Shapes'
  BY <1>a DEF Where
<1>2. Stores'
  BY DEF Stores
<1>3. LockedInv'
  BY <1>a DEF LockedInv, Inside
<1>4. CallInv'
  BY <1>a DEF CallInv, LockedInv, Inside
<1>5. InitInv'
  BY DEF InitInv, LockedInv, Inside, HasCallback
<1>6. Fresh'
  BY <1>a DEF Fresh, LockedInv, Inside, Abstract!Read, InitInv
<1> QED BY <1>1, <1>2, <1>3, <1>4, <1>5, <1>6

(* StoreInv survives a callback's return.                                  *)
LEMMA CallbackReturnsStep ==
  ASSUME StoreInv, NEW t \in Thread, CallbackReturns(t) PROVE StoreInv'
<1> USE DEF CallbackReturns, Goto, Ended, StoreInv, Shapes
<1>a. NoThread \notin Thread /\ NoOp \notin Op
  BY ProfileStoreAssumption
<1>1. Shapes'
  BY <1>a DEF Where
<1>2. Stores'
  BY DEF Stores
<1>3. LockedInv'
  BY <1>a DEF LockedInv, Inside
<1>4. CallInv'
  BY <1>a DEF CallInv, LockedInv, Inside
<1>5. InitInv'
  BY DEF InitInv, LockedInv, Inside, HasCallback
<1>6. Fresh'
  BY <1>a DEF Fresh, LockedInv, Inside, Abstract!Read, InitInv
<1> QED BY <1>1, <1>2, <1>3, <1>4, <1>5, <1>6

(* StoreInv survives a callback that is refused.                           *)
LEMMA CallbackMutatesStep ==
  ASSUME StoreInv, NEW t \in Thread, CallbackMutates(t) PROVE StoreInv'
<1> USE DEF CallbackMutates, Goto, Ended, StoreInv, Shapes
<1>a. NoThread \notin Thread /\ NoOp \notin Op
  BY ProfileStoreAssumption
<1>1. Shapes'
  BY <1>a DEF Where
<1>2. Stores'
  BY DEF Stores
<1>3. LockedInv'
  BY <1>a DEF LockedInv, Inside
<1>4. CallInv'
  BY <1>a DEF CallInv, LockedInv, Inside
<1>5. InitInv'
  BY DEF InitInv, LockedInv, Inside, HasCallback
<1>6. Fresh'
  BY <1>a DEF Fresh, LockedInv, Inside, Abstract!Read, InitInv
<1> QED BY <1>1, <1>2, <1>3, <1>4, <1>5, <1>6

(* StoreInv survives a refusal.                                            *)
LEMMA RefuseStep ==
  ASSUME StoreInv, NEW t \in Thread, Refuse(t) PROVE StoreInv'
<1> USE DEF Refuse, Goto, Ended, StoreInv, Shapes
<1>a. NoThread \notin Thread /\ NoOp \notin Op
  BY ProfileStoreAssumption
<1>1. Shapes'
  BY <1>a DEF Where
<1>2. Stores'
  BY DEF Stores
<1>3. LockedInv'
  BY <1>a DEF LockedInv, Inside
<1>4. CallInv'
  BY <1>a DEF CallInv, LockedInv, Inside
<1>5. InitInv'
  BY DEF InitInv, LockedInv, Inside, HasCallback
<1>6. Fresh'
  BY <1>a DEF Fresh, LockedInv, Inside, Abstract!Read, InitInv
<1> QED BY <1>1, <1>2, <1>3, <1>4, <1>5, <1>6

(* StoreInv survives having nothing to write.                              *)
LEMMA SkipWriteStep ==
  ASSUME StoreInv, NEW t \in Thread, SkipWrite(t) PROVE StoreInv'
<1> USE DEF SkipWrite, Goto, Ended, StoreInv, Shapes
<1>a. NoThread \notin Thread /\ NoOp \notin Op
  BY ProfileStoreAssumption
<1>1. Shapes'
  BY <1>a DEF Where
<1>2. Stores'
  BY DEF Stores
<1>3. LockedInv'
  BY <1>a DEF LockedInv, Inside
<1>4. CallInv'
  BY <1>a DEF CallInv, LockedInv, Inside
<1>5. InitInv'
  BY DEF InitInv, LockedInv, Inside, HasCallback
<1>6. Fresh'
  BY <1>a DEF Fresh, LockedInv, Inside, Abstract!Read, InitInv
<1> QED BY <1>1, <1>2, <1>3, <1>4, <1>5, <1>6

(* StoreInv survives writing the document.                                 *)
LEMMA WriteStep ==
  ASSUME StoreInv, NEW t \in Thread, Write(t) PROVE StoreInv'
<1> USE DEF Write, Goto, Ended, StoreInv, Shapes
<1>a. NoThread \notin Thread /\ NoOp \notin Op
  BY ProfileStoreAssumption
<1>1. Shapes'
  BY <1>a DEF Where
<1>2. Stores'
  <2>1. Stored(t) \subseteq Abstract!Document
    BY StoredType
  <2> QED BY <2>1 DEF Stores
<1>3. LockedInv'
  BY <1>a DEF LockedInv, Inside
<1>4. CallInv'
  BY <1>a DEF CallInv, LockedInv, Inside
<1>5. InitInv'
  <2>1. file' # Missing
    BY <1>2, StoredType, ProfileStoreAssumption DEF Stores
  <2> QED BY <2>1 DEF InitInv
<1>6. Fresh'
  BY <1>a DEF Fresh, LockedInv, Inside, Abstract!Read, InitInv
<1> QED BY <1>1, <1>2, <1>3, <1>4, <1>5, <1>6

(* StoreInv survives a failed write.                                       *)
LEMMA WriteFailsAppliedStep ==
  ASSUME StoreInv, NEW t \in Thread, WriteFailsApplied(t) PROVE StoreInv'
<1> USE DEF WriteFailsApplied, Goto, Ended, StoreInv, Shapes
<1>a. NoThread \notin Thread /\ NoOp \notin Op
  BY ProfileStoreAssumption
<1>1. Shapes'
  BY <1>a DEF Where
<1>2. Stores'
  <2>1. Stored(t) \subseteq Abstract!Document
    BY StoredType
  <2> QED BY <2>1 DEF Stores
<1>3. LockedInv'
  BY <1>a DEF LockedInv, Inside
<1>4. CallInv'
  BY <1>a DEF CallInv, LockedInv, Inside
<1>5. InitInv'
  <2>1. file' # Missing
    BY <1>2, StoredType, ProfileStoreAssumption DEF Stores
  <2> QED BY <2>1 DEF InitInv
<1>6. Fresh'
  BY <1>a DEF Fresh, LockedInv, Inside, Abstract!Read, InitInv
<1> QED BY <1>1, <1>2, <1>3, <1>4, <1>5, <1>6

(* StoreInv survives leaving the transaction.                              *)
LEMMA LeaveStep ==
  ASSUME StoreInv, NEW t \in Thread, Leave(t) PROVE StoreInv'
<1> USE DEF Leave, Goto, Ended, StoreInv, Shapes
<1>a. NoThread \notin Thread /\ NoOp \notin Op
  BY ProfileStoreAssumption
<1>1. Shapes'
  BY <1>a DEF Where
<1>2. Stores'
  BY DEF Stores
<1>3. LockedInv'
  BY <1>a DEF LockedInv, Inside
<1>4. CallInv'
  BY <1>a DEF CallInv, LockedInv, Inside
<1>5. InitInv'
  BY DEF InitInv, LockedInv, Inside, HasCallback
<1>6. Fresh'
  BY <1>a DEF Fresh, LockedInv, Inside, Abstract!Read, InitInv
<1> QED BY <1>1, <1>2, <1>3, <1>4, <1>5, <1>6

(* StoreInv survives returning.                                            *)
LEMMA ReturnStep ==
  ASSUME StoreInv, NEW t \in Thread, Return(t) PROVE StoreInv'
<1> USE DEF Return, Goto, Ended, StoreInv, Shapes
<1>a. NoThread \notin Thread /\ NoOp \notin Op
  BY ProfileStoreAssumption
<1>1. Shapes'
  BY <1>a DEF Where
<1>2. Stores'
  BY DEF Stores
<1>3. LockedInv'
  BY <1>a DEF LockedInv, Inside
<1>4. CallInv'
  BY <1>a DEF CallInv, LockedInv, Inside
<1>5. InitInv'
  BY DEF InitInv, LockedInv, Inside, HasCallback
<1>6. Fresh'
  BY <1>a DEF Fresh, LockedInv, Inside, Abstract!Read, InitInv
<1> QED BY <1>1, <1>2, <1>3, <1>4, <1>5, <1>6

(* StoreInv survives losing the process.                                   *)
LEMMA CrashStep ==
  ASSUME StoreInv, NEW t \in Thread, Crash(t) PROVE StoreInv'
<1> USE DEF Crash, Goto, Ended, StoreInv, Shapes
<1>a. NoThread \notin Thread /\ NoOp \notin Op
  BY ProfileStoreAssumption
<1>1. Shapes'
  BY <1>a DEF Where
<1>2. Stores'
  BY DEF Stores
<1>3. LockedInv'
  BY <1>a DEF LockedInv, Inside
<1>4. CallInv'
  BY <1>a DEF CallInv, LockedInv, Inside
<1>5. InitInv'
  BY DEF InitInv, LockedInv, Inside, HasCallback
<1>6. Fresh'
  BY <1>a DEF Fresh, LockedInv, Inside, Abstract!Read, InitInv
<1> QED BY <1>1, <1>2, <1>3, <1>4, <1>5, <1>6

LEMMA InitStoreInv == Init => StoreInv
<1> SUFFICES ASSUME Init PROVE StoreInv
  OBVIOUS
<1>a. NoThread \notin Thread /\ NoOp \notin Op
  BY ProfileStoreAssumption
<1>1. Shapes /\ Stores
  BY DEF Init, Shapes, Stores, Where
<1>2. LockedInv /\ CallInv /\ InitInv /\ Fresh
  BY <1>a DEF Init, LockedInv, Inside, CallInv, InitInv, Fresh
<1> QED BY <1>1, <1>2 DEF StoreInv

LEMMA StutterStoreInv == StoreInv /\ UNCHANGED vars => StoreInv'
BY DEF vars, StoreInv, Shapes, Stores, LockedInv, CallInv, InitInv, Fresh

LEMMA NextStoreInv == StoreInv /\ [Next]_vars => StoreInv'
<1> SUFFICES ASSUME StoreInv, [Next]_vars PROVE StoreInv'
  OBVIOUS
<1>1. ASSUME NEW t \in Thread, Step(t) PROVE StoreInv'
  BY <1>1, EnterStep, BusyStep, LoadStep, InitMissingStep, InitPresentStep,
     EnterPurgeStep, PurgeBusyStep, CallbackReturnsStep, RefuseStep, SkipWriteStep,
     WriteStep, WriteFailsAppliedStep, LeaveStep, ReturnStep DEF Step
<1>2. ASSUME NEW t \in Thread, NEW o \in Op, Call(t, o) PROVE StoreInv'
  BY <1>2, CallStep
<1>3. ASSUME NEW t \in Thread, CallbackMutates(t) \/ Crash(t) PROVE StoreInv'
  BY <1>3, CallbackMutatesStep, CrashStep
<1>4. CASE UNCHANGED vars
  BY <1>4, StutterStoreInv
<1> QED BY <1>1, <1>2, <1>3, <1>4 DEF Next

(* The invariant behind the other results.                                 *)
THEOREM StoreInvariant == Spec => []StoreInv
BY InitStoreInv, NextStoreInv, PTL DEF Spec

(* TypeOK: in particular, a thread carries the mark of a store exactly     *)
(* while it holds the store's lock.                                        *)
THEOREM TypeCorrect == Spec => []TypeOK
<1>1. StoreInv => TypeOK
  BY DEF StoreInv, Shapes, Stores, LockedInv, TypeOK
<1> QED BY <1>1, StoreInvariant, PTL

(* Fresh: what a transaction has loaded is what is stored until it writes, *)
(* whatever other threads, processes and its own callback do.              *)
THEOREM NothingWritesInBetween == Spec => []Fresh
<1>1. StoreInv => Fresh
  BY DEF StoreInv
<1> QED BY <1>1, StoreInvariant, PTL

(* ReadsStayFresh: both, for any number of threads, names and rows.        *)
THEOREM ReadsAreFresh == Spec => []ReadsStayFresh
BY TypeCorrect, NothingWritesInBetween, PTL DEF ReadsStayFresh
-------------------------------------------------------------------------------
(* A transaction stores a result of its call on what is stored.            *)
LEMMA StoredResults ==
  ASSUME StoreInv, NEW t \in Thread, pc[t] = "write"
  PROVE  Stored(t) = Abstract!Results(op[t], file)
<1>1. CASE op[t].kind # "init"
  BY <1>1 DEF StoreInv, Fresh, Stored, Abstract!Results
<1>2. CASE op[t].kind = "init"
  BY <1>2 DEF StoreInv, Fresh, InitInv, Stored, Abstract!Results
<1> QED BY <1>1, <1>2

LEMMA NothingPurged ==
  ASSUME NEW d \in Abstract!Document, NEW o, o.kind = "purge",
         Abstract!Unchanged(d.rows) = {}
  PROVE  d \in Abstract!Effect(o, d)
<1>1. Abstract!Without(d.rows, {}) = d.rows
  BY DEF Abstract!Without, Abstract!Document, Abstract!Rows
<1>2. [d EXCEPT !.rows = d.rows] = d
  BY DEF Abstract!Document
<1> QED BY <1>1, <1>2 DEF Abstract!Effect, Abstract!WithRows

LEMMA NothingAdded ==
  ASSUME NEW d \in Abstract!Document, NEW o \in Abstract!OpType, o.kind = "add_many",
         IF o.replace
           THEN Abstract!Named(o.rows) = {}
           ELSE /\ Abstract!Effect(o, d) # {}
                /\ Abstract!Named(o.rows) \subseteq Abstract!Named(d.rows)
  PROVE  d \in Abstract!Effect(o, d)
<1>1. d.rows \in Abstract!Rows /\ o.rows \in Abstract!Rows
  BY DEF Abstract!Document, Abstract!OpType
<1>2. [d EXCEPT !.rows = d.rows] = d
  BY DEF Abstract!Document
<1>3. CASE o.replace
  <2>1. Abstract!Merged(d.rows, o.rows) = d.rows
    BY <1>1, <1>3 DEF Abstract!Merged, Abstract!Named, Abstract!Rows
  <2>2. d.rows \in Abstract!AddMany(o, d.rows)
    BY <1>3, <2>1 DEF Abstract!AddMany
  <2> QED BY <1>2, <2>2 DEF Abstract!Effect, Abstract!WithRows
<1>4. CASE ~o.replace
  <2>1. Abstract!Merged(o.rows, d.rows) = d.rows
    BY <1>1, <1>4 DEF Abstract!Merged, Abstract!Named, Abstract!Rows
  <2>2. Abstract!AddMany(o, d.rows) # {}
    BY <1>4 DEF Abstract!Effect, Abstract!WithRows
  <2>3. d.rows \in Abstract!AddMany(o, d.rows)
    BY <1>4, <2>1, <2>2 DEF Abstract!AddMany
  <2> QED BY <1>2, <2>3 DEF Abstract!Effect, Abstract!WithRows
<1> QED BY <1>3, <1>4

(* Skipping the write is right: the result is what was loaded.             *)
LEMMA SkippedResult ==
  ASSUME StoreInv, NEW t \in Thread, SkipWrite(t)
  PROVE  Abstract!Read(file) \in Abstract!Results(op[t], file)
<1> DEFINE d == Abstract!Read(file)
<1>1. op[t] \in Abstract!OpType
  BY ProfileStoreAssumption DEF SkipWrite, StoreInv, CallInv, Shapes
<1>2. d \in Abstract!Document
  BY ReadType DEF StoreInv, Stores
<1>3. Stored(t) = Abstract!Results(op[t], file)
  BY StoredResults DEF SkipWrite
<1>4. CASE op[t].kind = "add_many"
  <2>1. data[t] = d /\ Stored(t) = Abstract!Effect(op[t], d)
    BY <1>4 DEF StoreInv, Fresh, SkipWrite, Stored
  <2> QED BY <1>1, <1>2, <1>3, <1>4, <2>1, NothingAdded DEF SkipWrite, NothingToWrite
<1>5. CASE op[t].kind = "purge"
  <2>1. data[t] = d /\ Stored(t) = Abstract!Effect(op[t], d)
    BY <1>5 DEF StoreInv, Fresh, SkipWrite, Stored
  <2> QED BY <1>2, <1>3, <1>5, <2>1, NothingPurged DEF SkipWrite, NothingToWrite
<1>6. CASE op[t].kind = "init" /\ data[t] # Missing
  <2>1. data[t] = d /\ Stored(t) = Abstract!Effect([kind |-> "purge"], d)
    BY <1>6 DEF StoreInv, Fresh, SkipWrite, Stored, Abstract!Read
  <2> QED BY <1>2, <1>3, <1>6, <2>1, NothingPurged DEF SkipWrite, NothingToWrite
<1> QED BY <1>4, <1>5, <1>6 DEF SkipWrite, NothingToWrite

LEMMA NextRefines ==
  StoreInv /\ [Next]_vars => [Abstract!Next]_(Abstract!vars)
<1> SUFFICES ASSUME StoreInv, [Next]_vars PROVE [Abstract!Next]_(Abstract!vars)
  OBVIOUS
<1> USE DEF Goto, Ended
<1>s. ASSUME UNCHANGED <<file, op, ended>> PROVE UNCHANGED Abstract!vars
  BY <1>s DEF Abstract!vars
<1>a. ASSUME NEW t \in Thread, Abstract!Apply(t) \/ Abstract!Refused(t) \/ Abstract!Return(t)
      PROVE  Abstract!Next
  BY <1>a DEF Abstract!Next
<1>b. \A t \in Thread : pc[t] # "idle" => op[t] # NoOp
  BY DEF StoreInv, CallInv
<1>1. ASSUME NEW t \in Thread,
             Enter(t) \/ Load(t) \/ InitMissing(t) \/ EnterPurge(t) \/ CallbackReturns(t)
               \/ Leave(t)
      PROVE  UNCHANGED Abstract!vars
  BY <1>1, <1>s DEF Enter, Load, InitMissing, EnterPurge, CallbackReturns, Leave
<1>2. ASSUME NEW t \in Thread, Busy(t) \/ PurgeBusy(t) \/ Refuse(t) PROVE Abstract!Next
  <2>1. Abstract!Refused(t)
    BY <1>2, <1>b DEF Busy, PurgeBusy, Refuse, Abstract!Refused, Abstract!Ends, StoreInv,
       CallInv
  <2> QED BY <2>1, <1>a
<1>3. ASSUME NEW t \in Thread, CallbackMutates(t) PROVE [Abstract!Next]_(Abstract!vars)
  <2>1. CASE UNCHANGED <<pc, ended>>
    BY <1>3, <2>1, <1>s DEF CallbackMutates
  <2>2. CASE ended' = [ended EXCEPT ![t] = "error"]
    <3>1. Abstract!Refused(t)
      BY <1>3, <2>2, <1>b DEF CallbackMutates, Abstract!Refused, Abstract!Ends, StoreInv,
         CallInv
    <3> QED BY <3>1, <1>a
  <2> QED BY <1>3, <2>1, <2>2 DEF CallbackMutates
<1>4. ASSUME NEW t \in Thread, InitPresent(t) PROVE [Abstract!Next]_(Abstract!vars)
  <2>1. CASE op[t].purge
    BY <1>4, <2>1, <1>s DEF InitPresent
  <2>2. CASE ~op[t].purge
    <3>1. Abstract!Results(op[t], file) = {file}
      BY <1>4, <2>2 DEF InitPresent, Abstract!Results
    <3>2. Abstract!Ends(t, "ok") /\ file' = file
      BY <1>4, <2>2, <1>b DEF InitPresent, Abstract!Ends, StoreInv, CallInv
    <3>3. Abstract!Apply(t)
      BY <3>1, <3>2 DEF Abstract!Apply
    <3> QED BY <3>3, <1>a
  <2> QED BY <2>1, <2>2
<1>5. ASSUME NEW t \in Thread, Write(t) \/ WriteFailsApplied(t) PROVE Abstract!Next
  <2>1. file' \in Abstract!Results(op[t], file)
    BY <1>5, StoredResults DEF Write, WriteFailsApplied
  <2>2. Abstract!Ends(t, "ok") \/ Abstract!Ends(t, "error")
    BY <1>5, <1>b DEF Write, WriteFailsApplied, Abstract!Ends, StoreInv, CallInv
  <2>3. Abstract!Apply(t)
    BY <2>1, <2>2 DEF Abstract!Apply
  <2> QED BY <2>3, <1>a
<1>6. ASSUME NEW t \in Thread, SkipWrite(t) PROVE Abstract!Next
  <2>1. Abstract!Read(file) \in Abstract!Results(op[t], file) /\ UNCHANGED file
    BY <1>6, SkippedResult DEF SkipWrite
  <2>2. Abstract!Ends(t, "ok")
    BY <1>6, <1>b DEF SkipWrite, Abstract!Ends, StoreInv, CallInv
  <2>3. Abstract!Apply(t)
    BY <2>1, <2>2 DEF Abstract!Apply
  <2> QED BY <2>3, <1>a
<1>7. ASSUME NEW t \in Thread, Return(t) \/ Crash(t) PROVE Abstract!Next
  <2>1. Abstract!Return(t)
    BY <1>7, <1>b DEF Return, Crash, Abstract!Return
  <2> QED BY <2>1, <1>a
<1>8. ASSUME NEW t \in Thread, NEW o \in Op, Call(t, o) PROVE Abstract!Next
  <2>1. Abstract!Call(t, o)
    BY <1>8 DEF Call, Abstract!Call, StoreInv, CallInv, Shapes
  <2> QED BY <2>1 DEF Abstract!Next
<1>9. CASE UNCHANGED vars
  BY <1>9, <1>s DEF vars
<1> QED
  BY <1>1, <1>2, <1>3, <1>4, <1>5, <1>6, <1>7, <1>8, <1>9 DEF Next, Step

(* AbstractSpec: every mutation of the store takes effect at one moment,   *)
(* on the document stored at that moment, or not at all.                   *)
THEOREM Refinement == Spec => AbstractSpec
<1>1. Init => Abstract!Init
  BY DEF Init, Abstract!Init
<1> QED
  BY <1>1, StoreInvariant, NextRefines, PTL DEF Spec, AbstractSpec, Abstract!Spec
===============================================================================
