------------------------- MODULE PrivateWriteProofs -------------------------
(***************************************************************************)
(* Proofs about PrivateWrite, for any writers, values and inodes, with the *)
(* lock and without it: readers see whole values, nothing is left behind   *)
(* unless something went wrong with the removal, and the locked writes     *)
(* implement AtomicFile.                                                   *)
(***************************************************************************)
EXTENDS PrivateWrite, TLAPS

Before == {"create", "write", "backup", "copy", "replace"}
After == {"chmod", "check", "restore"}
Ended == {"unlink", "finally"}

(* Each temporary file and each copy has a name of its own: it is not the  *)
(* file, no kept copy, not a file open to be copied, and nobody else's.    *)
NameInv ==
  \A w, v \in Writer :
    /\ temp[w] # NoIno =>
         /\ temp[w] # target /\ temp[w] \notin kept
         /\ temp[w] # predecessor[v] /\ temp[w] # source[v]
         /\ temp[w] = temp[v] => w = v
    /\ predecessor[w] # NoIno =>
         /\ predecessor[w] # target /\ predecessor[w] \notin kept
         /\ predecessor[w] # source[v]
         /\ predecessor[w] = predecessor[v] => w = v

(* What a writer's frame holds at each place.                              *)
FrameInv ==
  \A w \in Writer :
    /\ pc[w] = "idle" <=> payload[w] = None
    /\ pc[w] \in Before \cup After => result[w] = "none" /\ ~keep[w]
    /\ pc[w] \in Ended => result[w] # "none"
    /\ pc[w] \in {"write", "backup", "copy", "replace"} => temp[w] # NoIno
    /\ pc[w] \in {"idle", "create", "finally"} \cup After => temp[w] = NoIno
    /\ pc[w] \in {"idle", "create", "write", "backup"} => predecessor[w] = NoIno /\ ~keep[w]
    /\ pc[w] = "copy" => predecessor[w] # NoIno
    /\ pc[w] = "copy" <=> source[w] # NoIno

(* The temporary file is whole before it is renamed, and a copy before it  *)
(* is put back or kept: that holds whatever other writers do.              *)
DataInv ==
  /\ Whole
  /\ \A w \in Writer :
       /\ pc[w] \in {"backup", "copy", "replace"} => data[temp[w]] = payload[w]
       /\ pc[w] = "copy" => data[source[w]] # Partial
       /\ (pc[w] \in {"replace"} \cup After \/ keep[w]) /\ predecessor[w] # NoIno =>
            data[predecessor[w]] # Partial

TurnInv == Locked => \A w \in Writer : pc[w] # "idle" <=> turn = w

(* Only under the lock: the file stays what the writer found in place, the *)
(* copy is a copy of that, and what the writer installed stays installed.  *)
OwnOK(w) ==
  /\ pc[w] \in Before => before[w] = Content
  /\ pc[w] = "copy" => source[w] = target
  /\ pc[w] \in {"replace"} \cup After =>
       before[w] = IF predecessor[w] = NoIno THEN Absent ELSE data[predecessor[w]]
  /\ pc[w] \in After =>
       target = installed[w] /\ target # NoIno /\ data[target] = payload[w]

OwnInv == NeverVanishes /\ (Locked => \A w \in Writer : OwnOK(w))

WriteInv == TypeOK /\ NameInv /\ FrameInv /\ DataInv /\ TurnInv /\ OwnInv
-----------------------------------------------------------------------------
(* A file just created has a name nobody uses and nobody has open.         *)
LEMMA Fresh ==
  ASSUME NEW i \in Free
  PROVE  /\ i \in Ino /\ i # target /\ i \notin kept
         /\ \A w \in Writer : i # temp[w] /\ i # predecessor[w] /\ i # source[w]
  BY DEF Free, Others

LEMMA Start == Init => WriteInv
<1> SUFFICES ASSUME Init PROVE WriteInv
  OBVIOUS
<1> USE PrivateWriteAssumption
<1>1. PICK v \in Value : data = [i \in Ino |-> IF i = target THEN v ELSE Partial]
  BY DEF Init, Values, Locked
<1>2. data \in [Ino -> Value \cup {Partial}] /\ (target # NoIno => data[target] # Partial)
  BY <1>1 DEF Init
<1>3. TypeOK
  BY <1>2 DEF Init, TypeOK, Where
<1>4. Whole /\ NeverVanishes
  BY <1>2 DEF Init, Whole, NeverVanishes
<1>5. NameInv /\ TurnInv
  BY DEF Init, NameInv, TurnInv, Locked
<1>6. FrameInv /\ DataInv /\ OwnInv
  BY <1>4 DEF Init, FrameInv, DataInv, OwnInv, OwnOK, Before, After, Ended
<1> QED
  BY <1>3, <1>5, <1>6 DEF WriteInv

LEMMA TypesStay ==
  WriteInv /\ [Next]_vars => TypeOK'
<1> SUFFICES ASSUME WriteInv, [Next]_vars PROVE TypeOK'
  OBVIOUS
<1> USE PrivateWriteAssumption DEF Goto, Result, files, locals, leftovers,
        WriteInv, TypeOK, FrameInv, Free, Where, Values, Content, Before,
        After, Ended
<1>1. CASE UNCHANGED vars
  BY <1>1 DEF vars
<1>2. ASSUME NEW w \in Writer, NEW v \in Value, Begin(w, v) PROVE TypeOK'
  BY <1>2 DEF Begin
<1>3. ASSUME NEW w \in Writer, CreateTemp(w) PROVE TypeOK'
  BY <1>3, Fresh DEF CreateTemp
<1>4. ASSUME NEW w \in Writer, CreateFails(w) PROVE TypeOK'
  BY <1>4 DEF CreateFails
<1>5. ASSUME NEW w \in Writer, WriteTemp(w) PROVE TypeOK'
  BY <1>5 DEF WriteTemp
<1>6. ASSUME NEW w \in Writer, BackupAbsent(w) PROVE TypeOK'
  BY <1>6 DEF BackupAbsent
<1>7. ASSUME NEW w \in Writer, Backup(w) PROVE TypeOK'
  BY <1>7, Fresh DEF Backup
<1>8. ASSUME NEW w \in Writer, Copy(w) PROVE TypeOK'
  BY <1>8 DEF Copy
<1>9. ASSUME NEW w \in Writer, CopyFails(w) PROVE TypeOK'
  <2>1. debris' \subseteq Ino /\ fault' \in BOOLEAN
    <3>1. Unlink(predecessor[w]) /\ predecessor[w] \in Ino \cup {NoIno}
      BY <1>9 DEF CopyFails
    <3> QED BY <3>1 DEF Unlink
  <2> QED BY <1>9, <2>1 DEF CopyFails
<1>10. ASSUME NEW w \in Writer, Replace(w) PROVE TypeOK'
  BY <1>10 DEF Replace
<1>11. ASSUME NEW w \in Writer, ChmodOk(w) PROVE TypeOK'
  BY <1>11 DEF ChmodOk
<1>12. ASSUME NEW w \in Writer, Fails(w) PROVE TypeOK'
  BY <1>12 DEF Fails
<1>13. ASSUME NEW w \in Writer, ChmodFails(w) PROVE TypeOK'
  BY <1>13 DEF ChmodFails
<1>14. ASSUME NEW w \in Writer, CheckInstalled(w) PROVE TypeOK'
  BY <1>14 DEF CheckInstalled
<1>15. ASSUME NEW w \in Writer, Restore(w) PROVE TypeOK'
  BY <1>15 DEF Restore
<1>16. ASSUME NEW w \in Writer, RollbackFails(w) PROVE TypeOK'
  BY <1>16 DEF RollbackFails
<1>17. ASSUME NEW w \in Writer, UnlinkTemp(w) PROVE TypeOK'
  BY <1>17 DEF UnlinkTemp, Unlink
<1>18. ASSUME NEW w \in Writer, Finally(w) PROVE TypeOK'
  <2>1. kept' \subseteq Ino /\ debris' \subseteq Ino /\ fault' \in BOOLEAN
    <3>1. CASE keep[w]
      BY <1>18, <3>1 DEF Finally, WriteInv, TypeOK
    <3>2. CASE ~keep[w]
      <4>1. Unlink(predecessor[w]) /\ kept' = kept
        BY <1>18, <3>2 DEF Finally
      <4> QED
        BY <4>1 DEF Unlink, WriteInv, TypeOK
    <3> QED
      BY <3>1, <3>2
  <2>2. predecessor' = [predecessor EXCEPT ![w] = NoIno] /\ keep' = [keep EXCEPT ![w] = FALSE]
        /\ Leave(w) /\ UNCHANGED <<files, temp, source, result>>
    BY <1>18 DEF Finally
  <2> QED
    BY <2>1, <2>2 DEF Leave, Goto, files, WriteInv, TypeOK, Where
<1>19. ASSUME NEW w \in Writer, Interrupt(w) PROVE TypeOK'
  BY <1>19 DEF Interrupt, Only
<1>20. ASSUME NEW w \in Writer, Crash(w) PROVE TypeOK'
  BY <1>20 DEF Crash, Leave, Only
<1> QED
  BY <1>1, <1>2, <1>3, <1>4, <1>5, <1>6, <1>7, <1>8, <1>9, <1>10, <1>11, <1>12,
        <1>13, <1>14, <1>15, <1>16, <1>17, <1>18, <1>19, <1>20 DEF Next

LEMMA FrameStays ==
  WriteInv /\ [Next]_vars => FrameInv'
<1> SUFFICES ASSUME WriteInv, [Next]_vars PROVE FrameInv'
  OBVIOUS
<1> USE PrivateWriteAssumption DEF Goto, Result, files, locals, leftovers,
        WriteInv, TypeOK, FrameInv, Where, Before, After, Ended
<1>1. CASE UNCHANGED vars
  BY <1>1 DEF vars
<1>2. ASSUME NEW w \in Writer, NEW v \in Value, Begin(w, v) PROVE FrameInv'
  BY <1>2 DEF Begin
<1>3. ASSUME NEW w \in Writer, CreateTemp(w) PROVE FrameInv'
  BY <1>3, Fresh DEF CreateTemp
<1>4. ASSUME NEW w \in Writer, CreateFails(w) PROVE FrameInv'
  BY <1>4 DEF CreateFails
<1>5. ASSUME NEW w \in Writer, WriteTemp(w) PROVE FrameInv'
  BY <1>5 DEF WriteTemp
<1>6. ASSUME NEW w \in Writer, BackupAbsent(w) PROVE FrameInv'
  BY <1>6 DEF BackupAbsent
<1>7. ASSUME NEW w \in Writer, Backup(w) PROVE FrameInv'
  BY <1>7, Fresh DEF Backup
<1>8. ASSUME NEW w \in Writer, Copy(w) PROVE FrameInv'
  BY <1>8 DEF Copy
<1>9. ASSUME NEW w \in Writer, CopyFails(w) PROVE FrameInv'
  BY <1>9 DEF CopyFails, Unlink
<1>10. ASSUME NEW w \in Writer, Replace(w) PROVE FrameInv'
  BY <1>10 DEF Replace
<1>11. ASSUME NEW w \in Writer, ChmodOk(w) PROVE FrameInv'
  BY <1>11 DEF ChmodOk
<1>12. ASSUME NEW w \in Writer, Fails(w) PROVE FrameInv'
  BY <1>12 DEF Fails
<1>13. ASSUME NEW w \in Writer, ChmodFails(w) PROVE FrameInv'
  BY <1>13 DEF ChmodFails
<1>14. ASSUME NEW w \in Writer, CheckInstalled(w) PROVE FrameInv'
  BY <1>14 DEF CheckInstalled
<1>15. ASSUME NEW w \in Writer, Restore(w) PROVE FrameInv'
  BY <1>15 DEF Restore
<1>16. ASSUME NEW w \in Writer, RollbackFails(w) PROVE FrameInv'
  BY <1>16 DEF RollbackFails
<1>17. ASSUME NEW w \in Writer, UnlinkTemp(w) PROVE FrameInv'
  BY <1>17 DEF UnlinkTemp, Unlink
<1>18. ASSUME NEW w \in Writer, Finally(w) PROVE FrameInv'
  BY <1>18 DEF Finally, Leave, Unlink
<1>19. ASSUME NEW w \in Writer, Interrupt(w) PROVE FrameInv'
  BY <1>19 DEF Interrupt, Only
<1>20. ASSUME NEW w \in Writer, Crash(w) PROVE FrameInv'
  BY <1>20 DEF Crash, Leave, Only
<1> QED
  BY <1>1, <1>2, <1>3, <1>4, <1>5, <1>6, <1>7, <1>8, <1>9, <1>10, <1>11, <1>12,
        <1>13, <1>14, <1>15, <1>16, <1>17, <1>18, <1>19, <1>20 DEF Next

LEMMA NamesStay ==
  WriteInv /\ [Next]_vars => NameInv'
<1> SUFFICES ASSUME WriteInv, [Next]_vars PROVE NameInv'
  OBVIOUS
<1> USE PrivateWriteAssumption DEF Goto, Result, files, locals, leftovers,
        WriteInv, TypeOK, FrameInv, NameInv, Where, Before, After, Ended
<1>1. CASE UNCHANGED vars
  BY <1>1 DEF vars
<1>2. ASSUME NEW w \in Writer, NEW v \in Value, Begin(w, v) PROVE NameInv'
  BY <1>2 DEF Begin
<1>3. ASSUME NEW w \in Writer, CreateTemp(w) PROVE NameInv'
  BY <1>3, Fresh DEF CreateTemp
<1>4. ASSUME NEW w \in Writer, CreateFails(w) PROVE NameInv'
  BY <1>4 DEF CreateFails
<1>5. ASSUME NEW w \in Writer, WriteTemp(w) PROVE NameInv'
  BY <1>5 DEF WriteTemp
<1>6. ASSUME NEW w \in Writer, BackupAbsent(w) PROVE NameInv'
  BY <1>6 DEF BackupAbsent
<1>7. ASSUME NEW w \in Writer, Backup(w) PROVE NameInv'
  BY <1>7, Fresh DEF Backup
<1>8. ASSUME NEW w \in Writer, Copy(w) PROVE NameInv'
  BY <1>8 DEF Copy
<1>9. ASSUME NEW w \in Writer, CopyFails(w) PROVE NameInv'
  BY <1>9 DEF CopyFails, Unlink
<1>10. ASSUME NEW w \in Writer, Replace(w) PROVE NameInv'
  BY <1>10 DEF Replace
<1>11. ASSUME NEW w \in Writer, ChmodOk(w) PROVE NameInv'
  BY <1>11 DEF ChmodOk
<1>12. ASSUME NEW w \in Writer, Fails(w) PROVE NameInv'
  BY <1>12 DEF Fails
<1>13. ASSUME NEW w \in Writer, ChmodFails(w) PROVE NameInv'
  BY <1>13 DEF ChmodFails
<1>14. ASSUME NEW w \in Writer, CheckInstalled(w) PROVE NameInv'
  BY <1>14 DEF CheckInstalled
<1>15. ASSUME NEW w \in Writer, Restore(w) PROVE NameInv'
  BY <1>15 DEF Restore
<1>16. ASSUME NEW w \in Writer, RollbackFails(w) PROVE NameInv'
  BY <1>16 DEF RollbackFails
<1>17. ASSUME NEW w \in Writer, UnlinkTemp(w) PROVE NameInv'
  BY <1>17 DEF UnlinkTemp, Unlink
<1>18. ASSUME NEW w \in Writer, Finally(w) PROVE NameInv'
  BY <1>18 DEF Finally, Leave, Unlink
<1>19. ASSUME NEW w \in Writer, Interrupt(w) PROVE NameInv'
  BY <1>19 DEF Interrupt, Only
<1>20. ASSUME NEW w \in Writer, Crash(w) PROVE NameInv'
  BY <1>20 DEF Crash, Leave, Only
<1> QED
  BY <1>1, <1>2, <1>3, <1>4, <1>5, <1>6, <1>7, <1>8, <1>9, <1>10, <1>11, <1>12,
        <1>13, <1>14, <1>15, <1>16, <1>17, <1>18, <1>19, <1>20 DEF Next

LEMMA DataStays ==
  WriteInv /\ [Next]_vars => DataInv'
<1> SUFFICES ASSUME WriteInv, [Next]_vars PROVE DataInv'
  OBVIOUS
<1> USE PrivateWriteAssumption DEF Goto, Result, files, locals, leftovers,
        WriteInv, TypeOK, FrameInv, NameInv, DataInv, Whole, Where, Before,
        After, Ended
<1>1. CASE UNCHANGED vars
  BY <1>1 DEF vars
<1>2. ASSUME NEW w \in Writer, NEW v \in Value, Begin(w, v) PROVE DataInv'
  BY <1>2 DEF Begin
<1>3. ASSUME NEW w \in Writer, CreateTemp(w) PROVE DataInv'
  BY <1>3, Fresh DEF CreateTemp
<1>4. ASSUME NEW w \in Writer, CreateFails(w) PROVE DataInv'
  BY <1>4 DEF CreateFails
<1>5. ASSUME NEW w \in Writer, WriteTemp(w) PROVE DataInv'
  BY <1>5 DEF WriteTemp
<1>6. ASSUME NEW w \in Writer, BackupAbsent(w) PROVE DataInv'
  BY <1>6 DEF BackupAbsent
<1>7. ASSUME NEW w \in Writer, Backup(w) PROVE DataInv'
  BY <1>7, Fresh DEF Backup
<1>8. ASSUME NEW w \in Writer, Copy(w) PROVE DataInv'
  BY <1>8 DEF Copy
<1>9. ASSUME NEW w \in Writer, CopyFails(w) PROVE DataInv'
  BY <1>9 DEF CopyFails, Unlink
<1>10. ASSUME NEW w \in Writer, Replace(w) PROVE DataInv'
  BY <1>10 DEF Replace
<1>11. ASSUME NEW w \in Writer, ChmodOk(w) PROVE DataInv'
  BY <1>11 DEF ChmodOk
<1>12. ASSUME NEW w \in Writer, Fails(w) PROVE DataInv'
  BY <1>12 DEF Fails
<1>13. ASSUME NEW w \in Writer, ChmodFails(w) PROVE DataInv'
  BY <1>13 DEF ChmodFails
<1>14. ASSUME NEW w \in Writer, CheckInstalled(w) PROVE DataInv'
  BY <1>14 DEF CheckInstalled
<1>15. ASSUME NEW w \in Writer, Restore(w) PROVE DataInv'
  BY <1>15 DEF Restore
<1>16. ASSUME NEW w \in Writer, RollbackFails(w) PROVE DataInv'
  BY <1>16 DEF RollbackFails
<1>17. ASSUME NEW w \in Writer, UnlinkTemp(w) PROVE DataInv'
  BY <1>17 DEF UnlinkTemp, Unlink
<1>18. ASSUME NEW w \in Writer, Finally(w) PROVE DataInv'
  BY <1>18 DEF Finally, Leave, Unlink
<1>19. ASSUME NEW w \in Writer, Interrupt(w) PROVE DataInv'
  BY <1>19 DEF Interrupt, Only
<1>20. ASSUME NEW w \in Writer, Crash(w) PROVE DataInv'
  BY <1>20 DEF Crash, Leave, Only
<1> QED
  BY <1>1, <1>2, <1>3, <1>4, <1>5, <1>6, <1>7, <1>8, <1>9, <1>10, <1>11, <1>12,
        <1>13, <1>14, <1>15, <1>16, <1>17, <1>18, <1>19, <1>20 DEF Next

LEMMA TurnStays ==
  WriteInv /\ [Next]_vars => TurnInv'
<1> SUFFICES ASSUME WriteInv, [Next]_vars PROVE TurnInv'
  OBVIOUS
<1> USE PrivateWriteAssumption DEF Goto, Result, files, locals, leftovers,
        WriteInv, TypeOK, TurnInv, Locked
<1>1. CASE UNCHANGED vars
  BY <1>1 DEF vars
<1>2. ASSUME NEW w \in Writer, NEW v \in Value, Begin(w, v) PROVE TurnInv'
  BY <1>2 DEF Begin
<1>3. ASSUME NEW w \in Writer, CreateTemp(w) PROVE TurnInv'
  BY <1>3, Fresh DEF CreateTemp
<1>4. ASSUME NEW w \in Writer, CreateFails(w) PROVE TurnInv'
  BY <1>4 DEF CreateFails
<1>5. ASSUME NEW w \in Writer, WriteTemp(w) PROVE TurnInv'
  BY <1>5 DEF WriteTemp
<1>6. ASSUME NEW w \in Writer, BackupAbsent(w) PROVE TurnInv'
  BY <1>6 DEF BackupAbsent
<1>7. ASSUME NEW w \in Writer, Backup(w) PROVE TurnInv'
  BY <1>7, Fresh DEF Backup
<1>8. ASSUME NEW w \in Writer, Copy(w) PROVE TurnInv'
  BY <1>8 DEF Copy
<1>9. ASSUME NEW w \in Writer, CopyFails(w) PROVE TurnInv'
  BY <1>9 DEF CopyFails, Unlink
<1>10. ASSUME NEW w \in Writer, Replace(w) PROVE TurnInv'
  BY <1>10 DEF Replace
<1>11. ASSUME NEW w \in Writer, ChmodOk(w) PROVE TurnInv'
  BY <1>11 DEF ChmodOk
<1>12. ASSUME NEW w \in Writer, Fails(w) PROVE TurnInv'
  BY <1>12 DEF Fails
<1>13. ASSUME NEW w \in Writer, ChmodFails(w) PROVE TurnInv'
  BY <1>13 DEF ChmodFails
<1>14. ASSUME NEW w \in Writer, CheckInstalled(w) PROVE TurnInv'
  BY <1>14 DEF CheckInstalled
<1>15. ASSUME NEW w \in Writer, Restore(w) PROVE TurnInv'
  BY <1>15 DEF Restore
<1>16. ASSUME NEW w \in Writer, RollbackFails(w) PROVE TurnInv'
  BY <1>16 DEF RollbackFails
<1>17. ASSUME NEW w \in Writer, UnlinkTemp(w) PROVE TurnInv'
  BY <1>17 DEF UnlinkTemp, Unlink
<1>18. ASSUME NEW w \in Writer, Finally(w) PROVE TurnInv'
  BY <1>18 DEF Finally, Leave, Unlink
<1>19. ASSUME NEW w \in Writer, Interrupt(w) PROVE TurnInv'
  BY <1>19 DEF Interrupt, Only
<1>20. ASSUME NEW w \in Writer, Crash(w) PROVE TurnInv'
  BY <1>20 DEF Crash, Leave, Only
<1> QED
  BY <1>1, <1>2, <1>3, <1>4, <1>5, <1>6, <1>7, <1>8, <1>9, <1>10, <1>11, <1>12,
        <1>13, <1>14, <1>15, <1>16, <1>17, <1>18, <1>19, <1>20 DEF Next

LEMMA OwnStays ==
  WriteInv /\ [Next]_vars => OwnInv'
<1> SUFFICES ASSUME WriteInv, [Next]_vars PROVE OwnInv'
  OBVIOUS
<1> USE PrivateWriteAssumption DEF Goto, Result, files, locals, leftovers,
        WriteInv, TypeOK, FrameInv, NameInv, DataInv, TurnInv, OwnInv, OwnOK,
        NeverVanishes, Locked, Content, Before, After, Ended, Where
<1>1. CASE UNCHANGED vars
  BY <1>1 DEF vars
<1>2. ASSUME NEW w \in Writer, NEW v \in Value, Begin(w, v) PROVE OwnInv'
  BY <1>2 DEF Begin
<1>3. ASSUME NEW w \in Writer, CreateTemp(w) PROVE OwnInv'
  BY <1>3, Fresh DEF CreateTemp
<1>4. ASSUME NEW w \in Writer, CreateFails(w) PROVE OwnInv'
  BY <1>4 DEF CreateFails
<1>5. ASSUME NEW w \in Writer, WriteTemp(w) PROVE OwnInv'
  BY <1>5 DEF WriteTemp
<1>6. ASSUME NEW w \in Writer, BackupAbsent(w) PROVE OwnInv'
  BY <1>6 DEF BackupAbsent
<1>7. ASSUME NEW w \in Writer, Backup(w) PROVE OwnInv'
  BY <1>7, Fresh DEF Backup
<1>8. ASSUME NEW w \in Writer, Copy(w) PROVE OwnInv'
  BY <1>8 DEF Copy
<1>9. ASSUME NEW w \in Writer, CopyFails(w) PROVE OwnInv'
  BY <1>9 DEF CopyFails, Unlink
<1>10. ASSUME NEW w \in Writer, Replace(w) PROVE OwnInv'
  BY <1>10 DEF Replace
<1>11. ASSUME NEW w \in Writer, ChmodOk(w) PROVE OwnInv'
  BY <1>11 DEF ChmodOk
<1>12. ASSUME NEW w \in Writer, Fails(w) PROVE OwnInv'
  BY <1>12 DEF Fails
<1>13. ASSUME NEW w \in Writer, ChmodFails(w) PROVE OwnInv'
  BY <1>13 DEF ChmodFails
<1>14. ASSUME NEW w \in Writer, CheckInstalled(w) PROVE OwnInv'
  BY <1>14 DEF CheckInstalled
<1>15. ASSUME NEW w \in Writer, Restore(w) PROVE OwnInv'
  BY <1>15 DEF Restore
<1>16. ASSUME NEW w \in Writer, RollbackFails(w) PROVE OwnInv'
  BY <1>16 DEF RollbackFails
<1>17. ASSUME NEW w \in Writer, UnlinkTemp(w) PROVE OwnInv'
  BY <1>17 DEF UnlinkTemp, Unlink
<1>18. ASSUME NEW w \in Writer, Finally(w) PROVE OwnInv'
  BY <1>18 DEF Finally, Leave, Unlink
<1>19. ASSUME NEW w \in Writer, Interrupt(w) PROVE OwnInv'
  BY <1>19 DEF Interrupt, Only
<1>20. ASSUME NEW w \in Writer, Crash(w) PROVE OwnInv'
  BY <1>20 DEF Crash, Leave, Only
<1> QED
  BY <1>1, <1>2, <1>3, <1>4, <1>5, <1>6, <1>7, <1>8, <1>9, <1>10, <1>11, <1>12,
        <1>13, <1>14, <1>15, <1>16, <1>17, <1>18, <1>19, <1>20 DEF Next

LEMMA InvariantStays == WriteInv /\ [Next]_vars => WriteInv'
  BY TypesStay, FrameStays, NamesStay, DataStays, TurnStays, OwnStays DEF WriteInv

(* Whatever the writers do, with the lock or without it.                   *)
THEOREM WriteInvariant == Spec => []WriteInv
  BY Start, InvariantStays, PTL DEF Spec

(* Only a rollback without a copy takes the name away: every other step    *)
(* leaves it or puts an inode under it.                                    *)
LEMMA VanishedIsWithdrawn ==
  WriteInv /\ [Next]_vars =>
    (target # NoIno /\ target' = NoIno => \E w \in Writer : Withdraws(w))
<1> SUFFICES ASSUME WriteInv, [Next]_vars, target # NoIno, target' = NoIno
             PROVE  \E w \in Writer : Withdraws(w)
  OBVIOUS
<1>1. PICK w \in Writer : Replace(w) \/ Restore(w)
  BY DEF vars, files, Next, Begin, CreateTemp, CreateFails, WriteTemp, BackupAbsent, Backup, Copy,
         CopyFails, ChmodOk, Fails, ChmodFails, CheckInstalled, RollbackFails, UnlinkTemp, Finally,
         Interrupt, Crash
<1>2. ~Replace(w)
  BY DEF Replace, WriteInv, FrameInv
<1>3. pc[w] = "restore" /\ predecessor[w] = NoIno
  BY <1>1, <1>2 DEF Restore
<1>4. Locked => before[w] = Absent /\ target = installed[w]
  BY <1>3 DEF WriteInv, OwnInv, OwnOK, After
<1> QED
  BY <1>3, <1>4 DEF Withdraws

(* What the name refers to is whole at every moment, with the lock and     *)
(* without it; under the lock it refers to something throughout a write    *)
(* that replaces a file, and only a withdrawn first write ever takes it    *)
(* away: ReadersSeeWhole, for any writers, values and inodes.              *)
THEOREM ReadersAreSafe == Spec => ReadersSeeWhole
<1>1. WriteInv => TypeOK /\ Whole /\ NeverVanishes
  BY DEF WriteInv, DataInv, OwnInv
<1>2. WriteInv /\ [Next]_vars =>
        [target # NoIno /\ target' = NoIno => \E w \in Writer : Withdraws(w)]_vars
  BY VanishedIsWithdrawn
<1> QED
  BY <1>1, <1>2, WriteInvariant, PTL DEF Spec, ReadersSeeWhole, OnlyWithdrawn

(* Unless a writer is killed or interrupted, or a removal fails, no file   *)
(* of a write stays in the directory: NothingLeftBehind.                   *)
THEOREM NothingIsLeftBehind == Spec => []NothingLeftBehind
<1>1. Init => NothingLeftBehind
  BY DEF Init, NothingLeftBehind
<1>2. NothingLeftBehind /\ [Next]_vars => NothingLeftBehind'
  <2> SUFFICES ASSUME NothingLeftBehind, [Next]_vars PROVE NothingLeftBehind'
    OBVIOUS
  <2>1. UNCHANGED <<debris, fault>> \/ fault'
    BY DEF vars, Next, Begin, CreateTemp, CreateFails, WriteTemp, BackupAbsent, Backup, Copy, CopyFails,
           Replace, ChmodOk, Fails, ChmodFails, CheckInstalled, Restore, RollbackFails, UnlinkTemp,
           Finally, Interrupt, Crash, Unlink, leftovers
  <2> QED
    BY <2>1 DEF NothingLeftBehind
<1> QED
  BY <1>1, <1>2, PTL DEF Spec
-----------------------------------------------------------------------------
(* Without the lock the image of the file in AtomicFile never changes.     *)
LEMMA LockStays == WriteInv /\ [Next]_vars => (Locked' <=> Locked)
<1> SUFFICES ASSUME WriteInv, [Next]_vars PROVE Locked' <=> Locked
  OBVIOUS
<1> QED
  BY PrivateWriteAssumption
     DEF vars, Next, Begin, CreateTemp, CreateFails, WriteTemp, BackupAbsent, Backup, Copy, CopyFails,
         Replace, ChmodOk, Fails, ChmodFails, CheckInstalled, Restore, RollbackFails, UnlinkTemp,
         Finally, Interrupt, Crash, Leave, Locked, locals
-----------------------------------------------------------------------------
(* Under the lock: AtomicFile over the variables as they are.              *)
Written == INSTANCE AtomicFile WITH
  value <- Confirmed, saved <- Saved, request <- payload

(* The inodes whose values are saved.                                      *)
Keeping == kept \cup {predecessor[w] : w \in {v \in Writer : keep[v]}}

(* Only the holder of the lock can have a value installed and unconfirmed, *)
(* or a copy it is about to keep.                                          *)
ImageOf(w) ==
  /\ Confirmed = IF Pending(w) THEN before[w] ELSE Content
  /\ Keeping = kept \cup (IF keep[w] THEN {predecessor[w]} ELSE {})

ImageInv == \A w \in Writer : turn = w => ImageOf(w)

LEMMA HolderImage == WriteInv /\ Locked => ImageInv
<1> SUFFICES ASSUME WriteInv, Locked, NEW w \in Writer, turn = w PROVE ImageOf(w)
  BY DEF ImageInv
<1>1. \A v \in Writer : v # w => pc[v] = "idle"
  BY DEF WriteInv, TurnInv
<1>2. \A v \in Writer : v # w => ~keep[v] /\ ~Pending(v)
  BY <1>1 DEF WriteInv, FrameInv, Pending
<1>3. Confirmed = IF Pending(w) THEN before[w] ELSE Content
  BY <1>2 DEF Confirmed
<1>4. {predecessor[v] : v \in {u \in Writer : keep[u]}}
        = IF keep[w] THEN {predecessor[w]} ELSE {}
  BY <1>2
<1> QED
  BY <1>3, <1>4 DEF ImageOf, Keeping

LEMMA IdleImage ==
  WriteInv /\ Locked /\ turn = NoWriter => Confirmed = Content /\ Keeping = kept
<1> SUFFICES ASSUME WriteInv, Locked, turn = NoWriter
             PROVE  Confirmed = Content /\ Keeping = kept
  OBVIOUS
<1>1. \A v \in Writer : pc[v] = "idle"
  BY PrivateWriteAssumption DEF WriteInv, TurnInv
<1>2. \A v \in Writer : ~keep[v] /\ ~Pending(v)
  BY <1>1 DEF WriteInv, FrameInv, Pending
<1> QED
  BY <1>2 DEF Confirmed, Keeping

LEMMA SavedStays ==
  ASSUME Keeping' = Keeping, \A i \in Keeping : data'[i] = data[i]
  PROVE  Saved' = Saved
  BY DEF Saved, Keeping

(* A step of the holder that neither ends the write nor its call: what it  *)
(* has to show about the image.                                            *)
LEMMA HolderSteps ==
  ASSUME WriteInv, WriteInv', Locked, Locked', NEW w \in Writer, turn = w, turn' = w
  PROVE  ImageOf(w) /\ ImageOf(w)'
<1>1. (WriteInv /\ Locked => ImageInv)'
  BY HolderImage, PTL
<1> QED
  BY <1>1, HolderImage DEF ImageInv

LEMMA HolderLeaves ==
  ASSUME WriteInv, WriteInv', Locked, Locked', NEW w \in Writer, turn = w, turn' = NoWriter
  PROVE  ImageOf(w) /\ Confirmed' = Content' /\ Keeping' = kept'
<1>1. (WriteInv /\ Locked /\ turn = NoWriter => Confirmed = Content /\ Keeping = kept)'
  BY IdleImage, PTL
<1> QED
  BY <1>1, HolderImage DEF ImageInv

LEMMA HolderEnters ==
  ASSUME WriteInv, WriteInv', Locked, Locked', NEW w \in Writer, turn = NoWriter, turn' = w
  PROVE  Confirmed = Content /\ Keeping = kept /\ ImageOf(w)'
<1>1. (WriteInv /\ Locked => ImageInv)'
  BY HolderImage, PTL
<1> QED
  BY <1>1, IdleImage DEF ImageInv

LEMMA LockedStepRefines ==
  ASSUME WriteInv, WriteInv', [Next]_vars, Locked
  PROVE  [Written!Next]_<<Confirmed, Saved, payload, result>>
<1>1. Locked'
  BY LockStays
<1>2. CASE UNCHANGED vars
  <2>1. Content' = Content /\ Confirmed' = Confirmed /\ Saved' = Saved
    BY <1>2 DEF vars, Content, Confirmed, Saved, Pending
  <2> QED
    BY <1>2, <2>1 DEF vars
<1>3. ASSUME NEW w \in Writer, NEW v \in Value, Begin(w, v) PROVE Written!Request(w, v)
  <2>1. turn = NoWriter /\ turn' = w
    BY <1>3 DEF Begin
  <2>2. Confirmed = Content /\ Keeping = kept /\ ImageOf(w)'
    BY <1>1, <2>1, HolderEnters
  <2>3. Confirmed' = Confirmed
    BY <1>3, <2>2 DEF Begin, Goto, files, ImageOf, Pending, Content, WriteInv, TypeOK
  <2>4. Saved' = Saved
    BY <1>3, <2>2, SavedStays DEF Begin, files, leftovers, ImageOf, WriteInv, FrameInv
  <2> QED
    BY <1>3, <2>3, <2>4 DEF Begin, Result, Written!Request, WriteInv, FrameInv
<1>4. ASSUME NEW w \in Writer, pc[w] # "idle", turn' = turn
      PROVE  turn = w /\ turn' = w /\ ImageOf(w) /\ ImageOf(w)'
  BY <1>1, <1>4, HolderSteps DEF WriteInv, TurnInv
<1>5. ASSUME NEW w \in Writer, CreateTemp(w) PROVE UNCHANGED <<Confirmed, Saved, payload, result>>
  <2>1. ImageOf(w) /\ ImageOf(w)'
    BY <1>4, <1>5 DEF CreateTemp
  <2>2. Confirmed' = Confirmed
    BY <1>5, <2>1, Fresh DEF CreateTemp, Goto, locals, ImageOf, Pending, Content, WriteInv, TypeOK
  <2>3. Keeping' = Keeping /\ \A i \in Keeping : data'[i] = data[i]
    BY <1>5, <2>1, Fresh DEF CreateTemp, leftovers, ImageOf, WriteInv, TypeOK
  <2> QED
    BY <1>5, <2>2, <2>3, SavedStays DEF CreateTemp, locals
<1>6. ASSUME NEW w \in Writer, CreateFails(w) PROVE Written!Failed(w)
  <2>1. ImageOf(w) /\ ImageOf(w)'
    BY <1>4, <1>6 DEF CreateFails
  <2>2. Confirmed' = Confirmed
    BY <1>6, <2>1 DEF CreateFails, Goto, files, locals, ImageOf, Pending, Content, WriteInv, TypeOK
  <2>3. Saved' = Saved
    BY <1>6, <2>1, SavedStays DEF CreateFails, files, leftovers, ImageOf
  <2> QED
    BY <1>6, <2>2, <2>3 DEF CreateFails, Result, locals, Written!Failed, Written!Outcome,
       WriteInv, FrameInv, Before
<1>7. ASSUME NEW w \in Writer, WriteTemp(w) PROVE UNCHANGED <<Confirmed, Saved, payload, result>>
  <2>1. ImageOf(w) /\ ImageOf(w)' /\ temp[w] # NoIno /\ ~keep[w]
    BY <1>4, <1>7 DEF WriteTemp, WriteInv, FrameInv
  <2>2. temp[w] # target /\ temp[w] \notin kept
    BY <2>1 DEF WriteInv, NameInv
  <2>3. Confirmed' = Confirmed
    BY <1>7, <2>1, <2>2 DEF WriteTemp, Goto, locals, ImageOf, Pending, Content, WriteInv, TypeOK
  <2>4. Keeping' = Keeping /\ \A i \in Keeping : data'[i] = data[i]
    BY <1>7, <2>1, <2>2 DEF WriteTemp, leftovers, ImageOf, WriteInv, TypeOK
  <2> QED
    BY <1>7, <2>3, <2>4, SavedStays DEF WriteTemp, locals
<1>8. ASSUME NEW w \in Writer, BackupAbsent(w) PROVE UNCHANGED <<Confirmed, Saved, payload, result>>
  <2>1. ImageOf(w) /\ ImageOf(w)'
    BY <1>4, <1>8 DEF BackupAbsent
  <2>2. Confirmed' = Confirmed
    BY <1>8, <2>1 DEF BackupAbsent, Goto, files, locals, ImageOf, Pending, Content, WriteInv, TypeOK
  <2>3. Saved' = Saved
    BY <1>8, <2>1, SavedStays DEF BackupAbsent, files, leftovers, ImageOf
  <2> QED
    BY <1>8, <2>2, <2>3 DEF BackupAbsent, locals
<1>9. ASSUME NEW w \in Writer, Backup(w) PROVE UNCHANGED <<Confirmed, Saved, payload, result>>
  <2>1. ImageOf(w) /\ ImageOf(w)' /\ ~keep[w]
    BY <1>4, <1>9 DEF Backup, WriteInv, FrameInv
  <2>2. Confirmed' = Confirmed
    BY <1>9, <2>1, Fresh DEF Backup, Goto, ImageOf, Pending, Content, WriteInv, TypeOK
  <2>3. Keeping' = Keeping /\ \A i \in Keeping : data'[i] = data[i]
    BY <1>9, <2>1, Fresh DEF Backup, leftovers, ImageOf, WriteInv, TypeOK
  <2> QED
    BY <1>9, <2>2, <2>3, SavedStays DEF Backup
<1>10. ASSUME NEW w \in Writer, Copy(w) PROVE UNCHANGED <<Confirmed, Saved, payload, result>>
  <2>1. ImageOf(w) /\ ImageOf(w)' /\ predecessor[w] # NoIno /\ ~keep[w]
    BY <1>4, <1>10 DEF Copy, WriteInv, FrameInv, Before
  <2>2. predecessor[w] # target /\ predecessor[w] \notin kept
    BY <2>1 DEF WriteInv, NameInv
  <2>3. Confirmed' = Confirmed
    BY <1>10, <2>1, <2>2 DEF Copy, Goto, ImageOf, Pending, Content, WriteInv, TypeOK
  <2>4. Keeping' = Keeping /\ \A i \in Keeping : data'[i] = data[i]
    BY <1>10, <2>1, <2>2 DEF Copy, leftovers, ImageOf, WriteInv, TypeOK
  <2> QED
    BY <1>10, <2>3, <2>4, SavedStays DEF Copy
<1>11. ASSUME NEW w \in Writer, CopyFails(w) PROVE Written!Failed(w)
  <2>1. ImageOf(w) /\ ImageOf(w)' /\ ~keep[w]
    BY <1>4, <1>11 DEF CopyFails, WriteInv, FrameInv, Before
  <2>2. Confirmed' = Confirmed
    BY <1>11, <2>1 DEF CopyFails, Goto, files, ImageOf, Pending, Content, WriteInv, TypeOK
  <2>3. Saved' = Saved
    BY <1>11, <2>1, SavedStays DEF CopyFails, files, ImageOf
  <2> QED
    BY <1>11, <2>2, <2>3 DEF CopyFails, Result, Written!Failed, Written!Outcome,
       WriteInv, FrameInv, Before
<1>12. ASSUME NEW w \in Writer, Replace(w) PROVE UNCHANGED <<Confirmed, Saved, payload, result>>
  <2>1. ImageOf(w) /\ ImageOf(w)' /\ before[w] = Content
    BY <1>4, <1>12 DEF Replace, WriteInv, OwnInv, OwnOK, Before
  <2>2. Confirmed' = Confirmed
    BY <1>12, <2>1 DEF Replace, Goto, ImageOf, Pending, WriteInv, TypeOK
  <2>3. Saved' = Saved
    BY <1>12, <2>1, SavedStays DEF Replace, leftovers, ImageOf
  <2> QED
    BY <1>12, <2>2, <2>3 DEF Replace
<1>13. ASSUME NEW w \in Writer, ChmodOk(w) PROVE Written!Done(w)
  <2>1. ImageOf(w) /\ ImageOf(w)' /\ target # NoIno /\ data[target] = payload[w]
    BY <1>4, <1>13 DEF ChmodOk, WriteInv, OwnInv, OwnOK, After
  <2>2. Confirmed' = payload[w]
    BY <1>13, <2>1 DEF ChmodOk, Goto, files, ImageOf, Pending, Content, WriteInv, TypeOK
  <2>3. Saved' = Saved
    BY <1>13, <2>1, SavedStays DEF ChmodOk, files, leftovers, ImageOf
  <2> QED
    BY <1>13, <2>2, <2>3 DEF ChmodOk, Result, locals, Written!Done, Written!Outcome,
       WriteInv, FrameInv, After
<1>14. ASSUME NEW w \in Writer, Fails(w) PROVE Written!Failed(w)
  <2>1. ImageOf(w) /\ ImageOf(w)'
    BY <1>4, <1>14 DEF Fails
  <2>2. Confirmed' = Confirmed
    BY <1>14, <2>1 DEF Fails, Goto, files, locals, ImageOf, Pending, Content, WriteInv, TypeOK
  <2>3. Saved' = Saved
    BY <1>14, <2>1, SavedStays DEF Fails, files, leftovers, ImageOf
  <2> QED
    BY <1>14, <2>2, <2>3 DEF Fails, Result, locals, Written!Failed, Written!Outcome,
       WriteInv, FrameInv, Before
<1>15. ASSUME NEW w \in Writer, ChmodFails(w) \/ CheckInstalled(w)
       PROVE  UNCHANGED <<Confirmed, Saved, payload, result>>
  <2>1. ImageOf(w) /\ ImageOf(w)'
    BY <1>4, <1>15 DEF ChmodFails, CheckInstalled
  <2>2. Confirmed' = Confirmed
    BY <1>15, <2>1 DEF ChmodFails, CheckInstalled, Goto, locals, ImageOf, Pending, WriteInv, TypeOK
  <2>3. Saved' = Saved
    BY <1>15, <2>1, SavedStays DEF ChmodFails, CheckInstalled, files, leftovers, ImageOf
  <2> QED
    BY <1>15, <2>2, <2>3 DEF ChmodFails, CheckInstalled, locals
<1>16. ASSUME NEW w \in Writer, Restore(w) PROVE Written!Failed(w)
  <2>1. ImageOf(w) /\ ImageOf(w)' /\ ~keep[w]
    BY <1>4, <1>16 DEF Restore, WriteInv, FrameInv, After
  <2>2. before[w] = IF predecessor[w] = NoIno THEN Absent ELSE data[predecessor[w]]
    BY <1>16 DEF Restore, WriteInv, OwnInv, OwnOK, After
  <2>3. Confirmed' = Confirmed
    BY <1>16, <2>1, <2>2 DEF Restore, Goto, ImageOf, Pending, Content, WriteInv, TypeOK
  <2>4. Saved' = Saved
    BY <1>16, <2>1, SavedStays DEF Restore, leftovers, ImageOf
  <2> QED
    BY <1>16, <2>3, <2>4 DEF Restore, Result, locals, Written!Failed, Written!Outcome,
       WriteInv, FrameInv, After
<1>17. ASSUME NEW w \in Writer, RollbackFails(w) PROVE Written!FailedButApplied(w)
  <2>1. ImageOf(w) /\ ImageOf(w)' /\ ~keep[w]
    BY <1>4, <1>17 DEF RollbackFails, WriteInv, FrameInv, After
  <2>2. /\ target # NoIno /\ data[target] = payload[w]
        /\ before[w] = IF predecessor[w] = NoIno THEN Absent ELSE data[predecessor[w]]
    BY <1>17 DEF RollbackFails, WriteInv, OwnInv, OwnOK, After
  <2>3. Confirmed' = payload[w] /\ Confirmed = before[w]
    BY <1>17, <2>1, <2>2
       DEF RollbackFails, Goto, files, locals, ImageOf, Pending, Content, WriteInv, TypeOK
  <2>4. Keeping' = Keeping \cup Only(predecessor[w])
    <3>1. keep'[w] <=> predecessor[w] # NoIno
      BY <1>17 DEF RollbackFails, WriteInv, TypeOK
    <3> QED
      BY <1>17, <2>1, <3>1 DEF RollbackFails, leftovers, ImageOf, Only
  <2>5. Saved' = Saved \cup ({Confirmed} \ {Absent})
    <3>1. Saved = {data[i] : i \in Keeping} /\ Saved' = {data[i] : i \in Keeping'}
      BY <1>17 DEF RollbackFails, files, Saved, Keeping
    <3>2. predecessor[w] # NoIno => data[predecessor[w]] # Absent
      BY PrivateWriteAssumption DEF WriteInv, TypeOK
    <3> QED
      BY <2>2, <2>3, <2>4, <3>1, <3>2 DEF Only
  <2> QED
    BY <1>17, <2>3, <2>5 DEF RollbackFails, Result, locals, Written!FailedButApplied,
       Written!Outcome, WriteInv, FrameInv, After
<1>18. ASSUME NEW w \in Writer, UnlinkTemp(w) PROVE UNCHANGED <<Confirmed, Saved, payload, result>>
  <2>1. ImageOf(w) /\ ImageOf(w)'
    BY <1>4, <1>18 DEF UnlinkTemp
  <2>2. Confirmed' = Confirmed
    BY <1>18, <2>1 DEF UnlinkTemp, Goto, files, locals, ImageOf, Pending, Content, WriteInv, TypeOK
  <2>3. Saved' = Saved
    BY <1>18, <2>1, SavedStays DEF UnlinkTemp, files, ImageOf
  <2> QED
    BY <1>18, <2>2, <2>3 DEF UnlinkTemp, locals
<1>19. ASSUME NEW w \in Writer, Finally(w) PROVE Written!Return(w)
  <2>1. turn = w /\ turn' = NoWriter
    BY <1>19 DEF Finally, Leave, WriteInv, TurnInv
  <2>2. ImageOf(w) /\ Confirmed' = Content' /\ Keeping' = kept'
    BY <1>1, <2>1, HolderLeaves
  <2>3. Confirmed' = Confirmed
    BY <1>19, <2>2 DEF Finally, files, ImageOf, Pending, Content
  <2>4. Saved' = Saved
    BY <1>19, <2>2, SavedStays DEF Finally, files, ImageOf
  <2> QED
    BY <1>19, <2>3, <2>4 DEF Finally, Leave, Written!Return, WriteInv, FrameInv, Ended
<1>20. ASSUME NEW w \in Writer, Interrupt(w)
       PROVE  Written!Interrupted(w) \/ UNCHANGED <<Confirmed, Saved, payload, result>>
  <2>1. ImageOf(w) /\ ImageOf(w)' /\ (pc[w] = "copy" => ~keep[w])
    BY <1>4, <1>20 DEF Interrupt, WriteInv, FrameInv, Before
  <2>2. Confirmed' = Content
    BY <1>20, <2>1 DEF Interrupt, Goto, files, ImageOf, Pending, Content, WriteInv, TypeOK
  <2>3. Content \in {Confirmed, payload[w]}
    BY <1>20, <2>1 DEF Pending, ImageOf, Content, WriteInv, OwnInv, OwnOK, After
  <2>4. Saved' = Saved
    BY <1>20, <2>1, SavedStays DEF Interrupt, files, ImageOf, WriteInv, TypeOK
  <2>5. CASE pc[w] = "unlink"
    BY <1>20, <2>1, <2>2, <2>4, <2>5
       DEF Interrupt, Result, ImageOf, Pending, WriteInv, FrameInv, Ended, TypeOK
  <2>6. CASE pc[w] # "unlink"
    BY <1>20, <2>2, <2>3, <2>4, <2>6
       DEF Interrupt, Result, Written!Interrupted, Written!Outcome, WriteInv, FrameInv, Before,
           After
  <2> QED
    BY <2>5, <2>6
<1>21. ASSUME NEW w \in Writer, Crash(w) PROVE Written!Interrupted(w) \/ Written!Return(w)
  <2>1. turn = w /\ turn' = NoWriter
    BY <1>21 DEF Crash, Leave, WriteInv, TurnInv
  <2>2. ImageOf(w) /\ Confirmed' = Content' /\ Keeping' = kept'
    BY <1>1, <2>1, HolderLeaves
  <2>3. Confirmed' = Content /\ Content \in {Confirmed, payload[w]}
    BY <1>21, <2>2 DEF Crash, files, Pending, ImageOf, Content, WriteInv, OwnInv, OwnOK, After
  <2>4. Saved' = Saved
    BY <1>21, <2>2, SavedStays DEF Crash, files, ImageOf
  <2>5. CASE pc[w] \in Ended
    BY <1>21, <2>2, <2>3, <2>4, <2>5
       DEF Crash, Result, Leave, ImageOf, Pending, Written!Return, WriteInv, FrameInv, Ended, TypeOK
  <2>6. CASE pc[w] \notin Ended
    BY <1>21, <2>3, <2>4, <2>6
       DEF Crash, Result, Leave, Written!Interrupted, Written!Outcome, WriteInv, FrameInv, TypeOK,
           Where, Before, After, Ended
  <2> QED
    BY <2>5, <2>6
<1> QED
  BY <1>2, <1>3, <1>5, <1>6, <1>7, <1>8, <1>9, <1>10, <1>11, <1>12, <1>13, <1>14, <1>15, <1>16,
     <1>17, <1>18, <1>19, <1>20, <1>21 DEF Next, Written!Next

(* With the lock the image is the variables themselves, and without it     *)
(* nothing of AtomicFile ever changes.                                     *)
LEMMA StepRefines == WriteInv /\ WriteInv' /\ [Next]_vars => [Abstract!Next]_Abstract!vars
<1> SUFFICES ASSUME WriteInv, WriteInv', [Next]_vars PROVE [Abstract!Next]_Abstract!vars
  OBVIOUS
<1>1. Locked' <=> Locked
  BY LockStays
<1>2. CASE ~Locked
  BY <1>1, <1>2 DEF Abstract!vars
<1>3. CASE Locked
  <2> DEFINE asked == [w \in Writer |-> IF Locked THEN payload[w] ELSE None]
             told == [w \in Writer |-> IF Locked THEN result[w] ELSE "none"]
             now == IF Locked THEN Confirmed ELSE Absent
             safe == IF Locked THEN Saved ELSE {}
  <2>1. asked = payload /\ told = result /\ now = Confirmed /\ safe = Saved
    BY <1>3 DEF WriteInv, TypeOK
  <2>2. asked' = payload' /\ told' = result' /\ now' = Confirmed' /\ safe' = Saved'
    BY <1>1, <1>3 DEF WriteInv, TypeOK
  <2>3. ASSUME UNCHANGED <<Confirmed, Saved, payload, result>> PROVE UNCHANGED Abstract!vars
    BY <2>1, <2>2, <2>3 DEF Abstract!vars
  <2>4. ASSUME NEW w \in Writer, NEW v \in Value, Written!Request(w, v)
        PROVE  Abstract!Request(w, v)
    BY <2>1, <2>2, <2>4 DEF Written!Request, Abstract!Request
  <2>5. ASSUME NEW w \in Writer, Written!Done(w) PROVE Abstract!Done(w)
    BY <2>1, <2>2, <2>5 DEF Written!Done, Abstract!Done, Written!Outcome, Abstract!Outcome
  <2>6. ASSUME NEW w \in Writer, Written!Failed(w) PROVE Abstract!Failed(w)
    BY <2>1, <2>2, <2>6 DEF Written!Failed, Abstract!Failed, Written!Outcome, Abstract!Outcome
  <2>7. ASSUME NEW w \in Writer, Written!FailedButApplied(w) PROVE Abstract!FailedButApplied(w)
    BY <2>1, <2>2, <2>7 DEF Written!FailedButApplied, Abstract!FailedButApplied,
                            Written!Outcome, Abstract!Outcome
  <2>8. ASSUME NEW w \in Writer, Written!Interrupted(w) PROVE Abstract!Interrupted(w)
    BY <2>1, <2>2, <2>8 DEF Written!Interrupted, Abstract!Interrupted,
                            Written!Outcome, Abstract!Outcome
  <2>9. ASSUME NEW w \in Writer, Written!Return(w) PROVE Abstract!Return(w)
    BY <2>1, <2>2, <2>9 DEF Written!Return, Abstract!Return
  <2>10. [Written!Next]_<<Confirmed, Saved, payload, result>>
    BY <1>3, LockedStepRefines
  <2> QED
    BY <2>3, <2>4, <2>5, <2>6, <2>7, <2>8, <2>9, <2>10 DEF Written!Next, Abstract!Next
<1> QED
  BY <1>2, <1>3

(* Under the lock the writes implement one value replaced as a whole: the  *)
(* refinement of AtomicFile, AbstractSpec.                                 *)
THEOREM Refinement == Spec => AbstractSpec
<1>1. Init => Abstract!Init
  <2> SUFFICES ASSUME Init PROVE Abstract!Init
    OBVIOUS
  <2>1. ~\E w \in Writer : Pending(w)
    BY DEF Init, Pending
  <2>2. Confirmed \in Value \cup {Absent} /\ Saved = {}
    <3>1. WriteInv
      BY Start
    <3>2. Saved = {}
      BY DEF Init, Saved
    <3> QED
      BY <2>1, <3>1, <3>2 DEF Confirmed, Content, WriteInv, TypeOK, DataInv, Whole
  <2> QED
    BY <2>2 DEF Init, Abstract!Init
<1> QED
  BY <1>1, StepRefines, WriteInvariant, PTL DEF Spec, AbstractSpec, Abstract!Spec
=============================================================================
