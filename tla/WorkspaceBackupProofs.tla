------------------------ MODULE WorkspaceBackupProofs ------------------------
(***************************************************************************)
(* Proofs about WorkspaceBackup, for any files, contents, restores and     *)
(* number of changes: what a backup has locked stays as it has read it,    *)
(* what it archives is the home as it was at one moment, except what was   *)
(* written with its stamp kept, and a restore installs a whole archive over*)
(* nothing.                                                                *)
(***************************************************************************)
EXTENDS WorkspaceBackup, WellFoundedInduction, TLAPS

(* The locks are those of the claim, and all of them from the first look.  *)
LockInv ==
  /\ backup = "idle" => claim = {}
  /\ backup \notin {"idle", "lock"} => \A f \in claim : lock[f] = "backup"

PassInv ==
  /\ backup \in {"idle", "lock"} => pass = 1
  /\ backup = "leave" => pass = 2
  /\ backup # "read" => listed = {}
  /\ backup # "idle" => home \in seen

(* Nothing is known of a file that a pass has not come to.                 *)
InventoryInv ==
  \A n \in Passes, f \in File : ~HasRead(n, f) => got[n][f] = Unread[f]

(* A stamp stands for the content that was read with it, unless the file   *)
(* was written with its stamp kept.                                        *)
StampInv ==
  \A f \in File \ unseen :
    got[1][f][1] # Absent /\ stamp[f] = got[1][f][2] => home[f] = got[1][f][1]

(* While the directory keeps its stamp, what the first pass has not listed *)
(* is not there.                                                           *)
NamesInv ==
  pass = 1 /\ backup = "read" /\ mark[1] = dir =>
    \A f \in File \ listed : got[1][f][1] = Absent => home[f] = Absent

(* The file was in h as the first inventory has it, unless what tells of a *)
(* change differs: the stamp of the file as it is or as the second pass    *)
(* has read it, or, for a file not listed, the stamp of the directory.     *)
AsRead(h, f) ==
  IF got[1][f][1] = Absent
    THEN mark[1] = (IF backup = "look" THEN dir ELSE mark[2]) => h[f] = Absent
    ELSE stamp[f] = got[1][f][2] \/ got[2][f] = got[1][f] => h[f] = got[1][f][1]

(* The moment between the two inventories.                                 *)
MomentInv == pass = 2 => \E h \in seen : \A f \in File \ unseen : AsRead(h, f)

RestoreInv ==
  \A r \in Restorer :
    /\ restore[r] # "idle" => from[r] # None
    /\ restore[r] \in {"fill", "rename"} => stage[r] # None
    /\ restore[r] = "rename" => stage[r] = from[r]

BackupInv ==
  /\ LockInv /\ PassInv /\ InventoryInv /\ LockedStayAsRead
  /\ StampInv /\ NamesInv /\ MomentInv
  /\ RestoreInv
-----------------------------------------------------------------------------
LEMMA LeastOf ==
  ASSUME NEW T, T \subseteq Nat, T # {}
  PROVE  \E i \in T : \A j \in T : ~(j < i)
<1> DEFINE R == OpToRel(<, Nat)
<1>1. IsWellFoundedOn(R, Nat)
  BY NatLessThanWellFounded
<1>2. \A i, j \in Nat : <<i, j>> \in R <=> i < j
  BY DEF OpToRel
<1> HIDE DEF R
<1>3. PICK i \in T : \A j \in T : ~(<<j, i>> \in R)
  BY <1>1, WFMin, Zenon
<1> QED BY <1>2, <1>3

(* The first of some files, in the order of their names, is one of them.   *)
LEMMA FirstFacts ==
  ASSUME NEW S, S \subseteq File, S # {} PROVE First(S) \in S
<1> DEFINE T == {i \in DOMAIN Order : Order[i] \in S}
<1>1. T \subseteq Nat /\ T # {} /\ DOMAIN Order = 1 .. Len(Order) /\ Len(Order) \in Nat
  BY WorkspaceBackupAssumption
<1>2. PICK i \in T : \A j \in T : ~(j < i)
  BY <1>1, LeastOf
<1>3. \A j \in 1 .. i - 1 : Order[j] \notin S
  BY <1>1, <1>2
<1> QED BY <1>2, <1>3 DEF First

LEMMA ContentFacts ==
  ASSUME NEW f \in File, NEW c \in Content(f) PROVE c \in Entry /\ c # Absent
BY WorkspaceBackupAssumption DEF Content, Entry

LEMMA Start == Init => BackupInv
<1> SUFFICES ASSUME Init PROVE BackupInv
  OBVIOUS
<1> USE DEF Init
<1>1. TypeOK
  <2>1. /\ home \in Home /\ stamp \in [File -> 0 .. clock] /\ dir \in 0 .. clock
        /\ clock \in 0 .. MaxWrites
    BY WorkspaceBackupAssumption
  <2>2. got \in [Passes -> [File -> Entry \X (0 .. clock)]] /\ mark \in [Passes -> 0 .. clock]
    BY DEF Unread, Entry
  <2> QED BY <2>1, <2>2 DEF TypeOK, Passes
<1>2. LockInv /\ PassInv /\ InventoryInv /\ LockedStayAsRead
  BY <1>1 DEF LockInv, PassInv, InventoryInv, LockedStayAsRead
<1>3. StampInv /\ NamesInv /\ MomentInv /\ RestoreInv
  BY DEF StampInv, NamesInv, MomentInv, RestoreInv, Unread, Passes
<1> QED BY <1>2, <1>3 DEF BackupInv

(* A restore and what happens at its destination leave the rest alone.     *)
LEMMA OnlyRestores ==
  ASSUME BackupInv, UNCHANGED <<theHome, lock, theBackup>>, TypeOK', RestoreInv'
  PROVE  BackupInv'
<1> USE DEF BackupInv, theHome, theBackup
<1>1. LockInv' /\ PassInv' /\ InventoryInv' /\ LockedStayAsRead'
  BY DEF LockInv, PassInv, InventoryInv, LockedStayAsRead, HasRead, Unread
<1>2. StampInv' /\ NamesInv' /\ MomentInv'
  BY DEF StampInv, NamesInv, MomentInv, AsRead
<1> QED BY <1>1, <1>2

(* The end of a backup.                                                    *)
LEMMA FinishedStep ==
  ASSUME BackupInv, Finished, UNCHANGED <<theHome, archive, theRestores, target>>
  PROVE  BackupInv'
<1> USE DEF BackupInv, Finished, theHome, theRestores
<1>1. TypeOK'
  BY DEF LockedStayAsRead, TypeOK, Unread, Entry, Passes
<1>2. LockInv' /\ PassInv' /\ InventoryInv' /\ LockedStayAsRead'
  BY <1>1 DEF LockInv, PassInv, InventoryInv, LockedStayAsRead, HasRead, Unread, Passes
<1>3. StampInv' /\ NamesInv' /\ MomentInv' /\ RestoreInv'
  BY WorkspaceBackupAssumption DEF StampInv, NamesInv, MomentInv, RestoreInv, Unread, Passes
<1> QED BY <1>2, <1>3
-----------------------------------------------------------------------------
(* The steps of the writers                                                *)

(* A change of a file that no backup has locked: its stamp is new, and so  *)
(* is the directory's, unless the file was there and stays.                *)
LEMMA ChangeStep ==
  ASSUME BackupInv, NEW f \in File, NEW c \in Entry, NEW inPlace \in BOOLEAN,
         f \in Locked => lock[f] # "backup", inPlace => home[f] # Absent,
         Change(f, c, inPlace), UNCHANGED lock
  PROVE  BackupInv'
<1> USE DEF BackupInv, Change, theRestores
<1>1. TypeOK
  BY DEF LockedStayAsRead
<1>2. /\ home \in [File -> Entry] /\ stamp \in [File -> 0 .. clock] /\ dir \in 0 .. clock
      /\ clock \in Nat /\ mark \in [Passes -> 0 .. clock]
      /\ \A n \in Passes, g \in File :
           got[n][g] = <<got[n][g][1], got[n][g][2]>> /\ got[n][g][2] \in 0 .. clock
  <2>1. got \in [Passes -> [File -> Entry \X (0 .. clock)]]
    BY <1>1 DEF TypeOK
  <2>2. \A n \in Passes, g \in File : got[n][g] \in Entry \X (0 .. clock)
    BY <2>1
  <2> QED BY <1>1, <2>2, WorkspaceBackupAssumption, SMTT(20) DEF TypeOK, Home
<1>3. home' \in Home /\ home'[f] = c /\ \A g \in File \ {f} : home'[g] = home[g] /\ stamp'[g] = stamp[g]
  BY <1>2 DEF Home
<1>4. /\ stamp'[f] = clock + 1 \/ (inPlace /\ stamp'[f] = stamp[f])
      /\ stamp' \in [File -> 0 .. clock']
      /\ unseen' \in {unseen, unseen \cup {f}}
      /\ stamp'[f] = clock + 1 \/ got[1][f][1] = Absent \/ f \in unseen'
  BY <1>2
<1>5. TypeOK'
  <2>1. /\ dir' \in 0 .. clock' /\ clock' \in 0 .. MaxWrites
        /\ mark' \in [Passes -> 0 .. clock']
    BY <1>1, <1>2, WorkspaceBackupAssumption DEF TypeOK
  <2>3. seen' \subseteq Home /\ unseen' \subseteq File
    BY <1>1, <1>3, <1>4 DEF TypeOK
  <2>2. got' \in [Passes -> [File -> Entry \X (0 .. clock')]]
    BY <1>1, <1>2 DEF TypeOK
  <2> QED BY <1>1, <1>3, <1>4, <2>1, <2>2, <2>3 DEF TypeOK
<1>6. LockInv' /\ PassInv' /\ InventoryInv'
  BY DEF LockInv, PassInv, InventoryInv, HasRead, Unread
<1>7. LockedStayAsRead'
  <2> SUFFICES ASSUME NEW g \in claim, NEW n \in Passes, HasRead(n, g)
               PROVE  (got[n][g] = IF home[g] = Absent THEN Unread[g] ELSE <<home[g], stamp[g]>>)'
    BY <1>5 DEF LockedStayAsRead, HasRead
  <2>1. g \in Locked /\ g # f
    BY <1>1 DEF TypeOK, LockInv, PassInv, HasRead, Passes
  <2> QED BY <1>3, <2>1 DEF LockedStayAsRead, Unread, Locked, File
<1>8. StampInv'
  <2> SUFFICES ASSUME NEW g \in File, g \notin unseen', got[1][g][1] # Absent,
                      stamp'[g] = got[1][g][2]
               PROVE  home'[g] = got[1][g][1]
    BY DEF StampInv
  <2>1. g # f
    BY <1>2, <1>4 DEF Passes
  <2> QED BY <1>3, <1>4, <2>1 DEF StampInv
<1>9. NamesInv'
  BY <1>2, <1>3 DEF NamesInv, Passes
<1>10. MomentInv'
  <2> SUFFICES ASSUME pass = 2 PROVE \E h \in seen' : \A g \in File \ unseen' : AsRead(h, g)'
    BY DEF MomentInv
  <2>1. PICK h \in seen : \A g \in File \ unseen : AsRead(h, g)
    BY DEF MomentInv
  <2>2. h \in seen'
    BY DEF PassInv
  <2>3. ASSUME NEW g \in File, g \notin unseen' PROVE AsRead(h, g)'
    <3>1. AsRead(h, g) /\ (g # f => stamp'[g] = stamp[g])
          /\ (g = f => stamp'[g] = clock + 1 \/ got[1][g][1] = Absent)
      BY <1>3, <1>4, <2>1, <2>3
    <3> QED BY <1>2, <3>1 DEF AsRead, Passes
  <2> QED BY <2>2, <2>3
<1>11. RestoreInv'
  BY DEF RestoreInv
<1> QED BY <1>6, <1>7, <1>8, <1>9, <1>10, <1>11

(* A writer takes or gives back a lock that the backup does not have.      *)
LEMMA WriterLockStep ==
  ASSUME BackupInv, NEW f \in Locked, TakeLock(f) \/ GiveLock(f) PROVE BackupInv'
<1> USE DEF BackupInv, TakeLock, GiveLock, theHome, theBackup, theRestores
<1>1. TypeOK' /\ LockInv'
  BY DEF LockedStayAsRead, TypeOK, LockInv
<1>2. PassInv' /\ InventoryInv' /\ LockedStayAsRead'
  BY <1>1 DEF PassInv, InventoryInv, LockedStayAsRead, HasRead, Unread
<1>3. StampInv' /\ NamesInv' /\ MomentInv' /\ RestoreInv'
  BY DEF StampInv, NamesInv, MomentInv, AsRead, RestoreInv
<1> QED BY <1>1, <1>2, <1>3

LEMMA WriterStep ==
  ASSUME BackupInv,
         \/ \E f \in Locked : TakeLock(f) \/ WriteLocked(f) \/ GiveLock(f)
         \/ \E f \in Loose : WriteLoose(f)
  PROVE  BackupInv'
<1>1. CASE \E f \in Locked : TakeLock(f) \/ GiveLock(f)
  BY <1>1, WriterLockStep
<1>2. ASSUME NEW f \in Locked, WriteLocked(f) PROVE BackupInv'
  <2>1. PICK c \in Content(f) : Change(f, c, FALSE)
    BY <1>2 DEF WriteLocked
  <2> QED BY <1>2, <2>1, ContentFacts, ChangeStep DEF WriteLocked, Locked, File
<1>3. ASSUME NEW f \in Loose, WriteLoose(f) PROVE BackupInv'
  <2>1. f \in File /\ f \notin Locked /\ Absent \in Entry
    BY WorkspaceBackupAssumption DEF File, Entry
  <2>2. PICK c \in Entry, inPlace \in BOOLEAN : Change(f, c, inPlace) /\ (inPlace => home[f] # Absent)
    BY <1>3, <2>1, ContentFacts DEF WriteLoose
  <2> QED BY <1>3, <2>1, <2>2, ChangeStep DEF WriteLoose
<1> QED BY <1>1, <1>2, <1>3
-----------------------------------------------------------------------------
(* The steps of a backup                                                   *)

LEMMA BeginStep == ASSUME BackupInv, BeginBackup PROVE BackupInv'
<1> USE DEF BackupInv, BeginBackup, theHome, theRestores
<1>1. TypeOK'
  BY DEF LockedStayAsRead, TypeOK, LockInv, Locked
<1>2. LockInv' /\ PassInv' /\ InventoryInv' /\ LockedStayAsRead'
  BY <1>1 DEF LockInv, PassInv, InventoryInv, LockedStayAsRead, HasRead, Unread, Passes
<1>3. StampInv' /\ NamesInv' /\ MomentInv' /\ RestoreInv'
  BY DEF PassInv, StampInv, NamesInv, MomentInv, RestoreInv
<1> QED BY <1>2, <1>3

LEMMA LockStep == ASSUME BackupInv, LockNext \/ LocksTaken PROVE BackupInv'
<1> USE DEF BackupInv, theHome, theBackup, theRestores
<1>1. First(Wanted) \in Wanted \/ Wanted = {}
  BY FirstFacts DEF Wanted, LockedStayAsRead, TypeOK, Locked, File
<1>2. LockInv' /\ TypeOK'
  BY <1>1 DEF LockNext, LocksTaken, Wanted, LockedStayAsRead, TypeOK, LockInv
<1>3. PassInv' /\ InventoryInv' /\ LockedStayAsRead'
  BY <1>2 DEF LockNext, LocksTaken, PassInv, InventoryInv, LockedStayAsRead, HasRead, Unread
<1>4. StampInv' /\ NamesInv' /\ MomentInv' /\ RestoreInv'
  BY DEF LockNext, LocksTaken, PassInv, StampInv, NamesInv, MomentInv, AsRead, RestoreInv
<1> QED BY <1>2, <1>3, <1>4

(* A pass looks at the directory and lists its names.  In the second one   *)
(* the mark now stands for the directory's stamp.                          *)
LEMMA LookStep == ASSUME BackupInv, Look PROVE BackupInv'
<1> USE DEF BackupInv, Look, theHome, theRestores
<1>1. TypeOK'
  BY DEF LockedStayAsRead, TypeOK
<1>2. LockInv' /\ PassInv' /\ InventoryInv' /\ LockedStayAsRead'
  BY <1>1 DEF LockInv, PassInv, InventoryInv, LockedStayAsRead, HasRead, Unread
<1>3. pass = 2 => mark'[1] = mark[1] /\ mark'[2] = dir
  BY DEF LockedStayAsRead, TypeOK, Passes
<1>4. StampInv' /\ NamesInv' /\ MomentInv' /\ RestoreInv'
  BY <1>3 DEF StampInv, NamesInv, MomentInv, AsRead, RestoreInv
<1> QED BY <1>2, <1>4

LEMMA ListStep == ASSUME BackupInv, List PROVE BackupInv'
<1> USE DEF BackupInv, List, theHome, theRestores
<1>1. TypeOK'
  BY DEF LockedStayAsRead, TypeOK
<1>2. LockInv' /\ PassInv'
  BY DEF LockInv, PassInv
<1>3. \A f \in File : got[pass][f] = Unread[f]
  BY DEF InventoryInv, HasRead, LockedStayAsRead, TypeOK, Passes
<1>4. InventoryInv'
  BY <1>3 DEF InventoryInv, HasRead, Unread
<1>5. LockedStayAsRead'
  BY <1>1, <1>3 DEF LockedStayAsRead, TypeOK, HasRead, Unread, Locked, File
<1>6. StampInv' /\ NamesInv' /\ MomentInv' /\ RestoreInv'
  BY DEF StampInv, NamesInv, MomentInv, AsRead, RestoreInv
<1> QED BY <1>2, <1>4, <1>5, <1>6

(* A file is read: in the first pass, a stamp is remembered with the       *)
(* content; in the second, a stamp that has not changed stands for the     *)
(* content there was between the passes.                                   *)
LEMMA ReadStep == ASSUME BackupInv, Read PROVE BackupInv'
<1> USE DEF BackupInv, Read, theHome, theRestores
<1> DEFINE f == First(listed)
<1>1. f \in listed /\ f \in File
  BY FirstFacts DEF LockedStayAsRead, TypeOK
<1> HIDE DEF f
<1>2. /\ backup = "read" /\ Readable(f) /\ listed' = listed \ {f}
      /\ got' = [got EXCEPT ![pass][f] = <<home[f], stamp[f]>>]
  BY DEF f
<1>3. /\ TypeOK /\ pass \in Passes /\ got \in [Passes -> [File -> Entry \X (0 .. clock)]]
      /\ home[f] \in Entry /\ stamp[f] \in 0 .. clock
  BY <1>1 DEF LockedStayAsRead, TypeOK, Home
<1>4. /\ got'[pass][f] = <<home[f], stamp[f]>> /\ home[f] # Absent
      /\ \A g \in File \ {f} : got'[pass][g] = got[pass][g]
      /\ \A n \in Passes \ {pass} : got'[n] = got[n]
  BY <1>1, <1>2, <1>3 DEF Readable
<1>5. got' \in [Passes -> [File -> Entry \X (0 .. clock)]]
  <2>1. [got[pass] EXCEPT ![f] = <<home[f], stamp[f]>>] \in [File -> Entry \X (0 .. clock)]
    BY <1>1, <1>3
  <2>2. got' = [got EXCEPT ![pass] = [got[pass] EXCEPT ![f] = <<home[f], stamp[f]>>]]
    BY <1>2
  <2> QED BY <1>3, <2>1, <2>2
<1>6. TypeOK'
  BY <1>2, <1>3, <1>5 DEF TypeOK
<1>7. LockInv' /\ PassInv'
  BY DEF LockInv, PassInv
<1>8. InventoryInv'
  BY <1>1, <1>2, <1>4 DEF InventoryInv, HasRead, Unread
<1>9. LockedStayAsRead'
  <2> SUFFICES ASSUME NEW g \in claim, NEW n \in Passes, HasRead(n, g)'
               PROVE  (got[n][g] = IF home[g] = Absent THEN Unread[g] ELSE <<home[g], stamp[g]>>)'
    BY <1>6 DEF LockedStayAsRead
  <2>1. g \in File
    BY <1>3 DEF TypeOK, Locked, File
  <2>2. CASE n = pass /\ g = f
    BY <1>4, <2>2
  <2>3. CASE ~(n = pass /\ g = f)
    <3>1. HasRead(n, g) /\ got'[n][g] = got[n][g]
      BY <1>2, <1>4, <2>1, <2>3 DEF HasRead
    <3> QED BY <3>1 DEF LockedStayAsRead, Unread
  <2> QED BY <2>2, <2>3
<1>10. StampInv' /\ NamesInv'
  BY <1>1, <1>2, <1>4 DEF StampInv, NamesInv, Passes
<1>11. MomentInv'
  <2> SUFFICES ASSUME pass = 2 PROVE \E h \in seen : \A g \in File \ unseen : AsRead(h, g)'
    BY DEF MomentInv
  <2>1. PICK h \in seen : \A g \in File \ unseen : AsRead(h, g)
    BY DEF MomentInv
  <2>2. \A g \in File \ unseen : AsRead(h, g)'
    BY <1>4, <2>1 DEF AsRead, Passes
  <2> QED BY <2>2
<1>12. RestoreInv'
  BY DEF RestoreInv
<1> QED BY <1>7, <1>8, <1>9, <1>10, <1>11, <1>12

(* The moment is that at which the second pass begins: the home is then as *)
(* the stamps that have not changed since the first pass say.              *)
LEMMA AgainStep == ASSUME BackupInv, Again PROVE BackupInv'
<1> USE DEF BackupInv, Again, theHome, theRestores
<1>1. TypeOK'
  BY DEF LockedStayAsRead, TypeOK, Passes
<1>2. LockInv' /\ PassInv' /\ InventoryInv' /\ LockedStayAsRead'
  <2>1. \A n \in Passes, f \in File : HasRead(n, f)' <=> HasRead(n, f)
    BY DEF HasRead, Passes
  <2>2. LockInv' /\ PassInv' /\ InventoryInv'
    BY <2>1 DEF LockInv, PassInv, InventoryInv, Unread
  <2>3. claim \subseteq File
    BY DEF LockedStayAsRead, TypeOK, Locked, File
  <2> QED BY <1>1, <2>1, <2>2, <2>3 DEF LockedStayAsRead, Unread
<1>3. home \in seen /\ \A f \in File \ unseen : AsRead(home, f)'
  <2>1. \A f \in File : got[2][f] = <<Absent, 0>>
    BY DEF InventoryInv, HasRead, Unread, Passes
  <2> QED BY <2>1 DEF PassInv, StampInv, NamesInv, AsRead
<1>4. StampInv' /\ NamesInv' /\ MomentInv' /\ RestoreInv'
  BY <1>3 DEF StampInv, NamesInv, MomentInv, RestoreInv
<1> QED BY <1>2, <1>4

LEMMA ArchiveStep ==
  ASSUME BackupInv, WriteArchive
  PROVE  BackupInv' /\ \E h \in seen : \A f \in File \ unseen : archive'[f] = h[f]
<1> USE DEF BackupInv, WriteArchive, theHome, theRestores
<1>1. PICK h \in seen : \A f \in File \ unseen : AsRead(h, f)
  BY DEF MomentInv
<1>2. \A f \in File : got[1][f][1] \in Entry
  <2>1. \A f \in File : got[1][f] \in Entry \X (0 .. clock)
    BY DEF LockedStayAsRead, TypeOK, Passes
  <2> QED BY <2>1
<1>3. \A f \in File \ unseen : h[f] = got[1][f][1]
  BY <1>1 DEF AsRead, Same
<1>4. Manifest \in [File -> Entry] /\ \A f \in File \ unseen : Manifest[f] = h[f]
  BY <1>2, <1>3 DEF Manifest
<1>5. TypeOK'
  BY <1>4 DEF LockedStayAsRead, TypeOK, Home
<1>6. LockInv' /\ PassInv' /\ InventoryInv' /\ LockedStayAsRead'
  BY <1>5 DEF LockInv, PassInv, InventoryInv, LockedStayAsRead, HasRead, Unread
<1>7. StampInv' /\ NamesInv' /\ MomentInv' /\ RestoreInv'
  BY DEF StampInv, NamesInv, MomentInv, AsRead, RestoreInv
<1> QED BY <1>4, <1>6, <1>7

LEMMA BackupStep == ASSUME BackupInv, BeginBackup \/ Goes \/ BackupFails PROVE BackupInv'
<1>1. CASE LockTimeout \/ ReadRefused \/ ChangeDetected \/ Leave \/ BackupFails
  BY <1>1, FinishedStep DEF LockTimeout, ReadRefused, ChangeDetected, Leave, BackupFails
<1> QED BY <1>1, BeginStep, LockStep, LookStep, ListStep, ReadStep, AgainStep, ArchiveStep DEF Goes
-----------------------------------------------------------------------------
(* The steps of a restore                                                  *)

LEMMA RestoreStep ==
  ASSUME BackupInv, NEW r \in Restorer,
         \/ BeginRestore(r) \/ MakeStage(r) \/ Fill(r) \/ Verify(r)
         \/ Install(r) \/ RestoreFails(r)
  PROVE  BackupInv'
<1> USE DEF BackupInv
<1>1. UNCHANGED <<theHome, lock, theBackup, archive>>
  BY DEF BeginRestore, MakeStage, Fill, Verify, Install, RestoreFails
<1>2. \A f \in File : Absent \in Entry /\ None # [g \in File |-> Absent]
  BY WorkspaceBackupAssumption DEF Entry, Home
<1>3. CASE BeginRestore(r)
  <2>1. TypeOK'
    BY <1>3 DEF BeginRestore, LockedStayAsRead, TypeOK, theHome, theBackup
  <2>2. RestoreInv'
    BY <1>3 DEF BeginRestore, RestoreInv, LockedStayAsRead, TypeOK
  <2> QED BY <1>1, <2>1, <2>2, OnlyRestores
<1>4. CASE MakeStage(r)
  <2>1. TypeOK'
    BY <1>4 DEF MakeStage, LockedStayAsRead, TypeOK, theHome, theBackup, Entry
  <2>2. RestoreInv'
    BY <1>4, WorkspaceBackupAssumption DEF MakeStage, RestoreInv, LockedStayAsRead, TypeOK, Home, Entry
  <2> QED BY <1>1, <2>1, <2>2, OnlyRestores
<1>5. CASE Fill(r)
  <2> DEFINE f == First(Missing(r))
  <2>0. f \in File
    BY <1>5, FirstFacts DEF Fill, Missing
  <2>1. from[r][f] \in Entry /\ stage[r] \in [File -> Entry \cup {Broken}]
    BY <1>5, <2>0 DEF Fill, RestoreInv, LockedStayAsRead, TypeOK, Home
  <2>2. PICK c \in Entry \cup {Broken} : stage' = [stage EXCEPT ![r][f] = c]
    BY <1>5, <2>0, <2>1 DEF Fill
  <2> HIDE DEF f
  <2>3. stage'[r] = [stage[r] EXCEPT ![f] = c] /\ stage'[r] \in [File -> Entry \cup {Broken}]
    BY <2>0, <2>1, <2>2 DEF LockedStayAsRead, TypeOK
  <2>4. TypeOK'
    BY <1>5, <2>2, <2>3 DEF Fill, LockedStayAsRead, TypeOK, theHome, theBackup
  <2>5. RestoreInv'
    BY <1>5, <2>2, <2>3, WorkspaceBackupAssumption DEF Fill, RestoreInv, LockedStayAsRead, TypeOK
  <2> QED BY <1>1, <2>4, <2>5, OnlyRestores
<1>6. CASE Verify(r)
  <2>1. TypeOK' /\ RestoreInv'
    BY <1>6 DEF Verify, RestoreInv, LockedStayAsRead, TypeOK, theHome, theBackup
  <2> QED BY <1>1, <2>1, OnlyRestores
<1>7. CASE Install(r)
  <2>1. stage[r] \in [File -> Entry]
    BY <1>7 DEF Install, RestoreInv, LockedStayAsRead, TypeOK, Home
  <2>2. TypeOK' /\ RestoreInv'
    BY <1>7, <2>1 DEF Install, RestoreEnds, RestoreInv, LockedStayAsRead, TypeOK, theHome, theBackup
  <2> QED BY <1>1, <2>2, OnlyRestores
<1>8. CASE RestoreFails(r)
  <2>1. TypeOK' /\ RestoreInv'
    BY <1>8 DEF RestoreFails, RestoreEnds, RestoreInv, LockedStayAsRead, TypeOK, theHome, theBackup
  <2> QED BY <1>1, <2>1, OnlyRestores
<1> QED BY <1>3, <1>4, <1>5, <1>6, <1>7, <1>8

LEMMA AppearStep == ASSUME BackupInv, Appear PROVE BackupInv'
<1>1. TypeOK' /\ RestoreInv' /\ UNCHANGED <<theHome, lock, theBackup>>
  BY DEF Appear, BackupInv, LockedStayAsRead, TypeOK, RestoreInv, theHome, theBackup, theRestores
<1> QED BY <1>1, OnlyRestores
-----------------------------------------------------------------------------
LEMMA EveryStep == BackupInv /\ [Next]_vars => BackupInv'
<1> SUFFICES ASSUME BackupInv, [Next]_vars PROVE BackupInv'
  OBVIOUS
<1>1. CASE UNCHANGED vars
  <2>1. TypeOK' /\ RestoreInv'
    BY <1>1 DEF vars, theHome, theBackup, theRestores, BackupInv, LockedStayAsRead, TypeOK, RestoreInv
  <2> QED BY <1>1, <2>1, OnlyRestores DEF vars, theRestores
<1> QED BY <1>1, WriterStep, BackupStep, RestoreStep, AppearStep DEF Next

THEOREM BackupInvariant == Spec => []BackupInv
BY Start, EveryStep, PTL DEF Spec

(* What the backup has locked stays, until it ends, as it has read it: of  *)
(* create_workspace_backup with the locks of known_store_lock_paths.       *)
THEOREM LockedFilesStayAsRead == Spec => []LockedStayAsRead
<1>1. BackupInv => LockedStayAsRead
  BY DEF BackupInv
<1> QED BY <1>1, BackupInvariant, PTL

(* What is archived is the home as it was at one moment since the backup   *)
(* began, but for files written in place with their stamp kept after they  *)
(* were first read.                                                        *)
THEOREM ArchiveIsOneMoment == Spec => OneMoment
<1> DEFINE Taken == archive' # archive =>
                      \E h \in seen : \A f \in File \ unseen : archive'[f] = h[f]
<1>1. ASSUME BackupInv, [Next]_vars PROVE [Taken]_archive
  <2>1. CASE WriteArchive
    BY <1>1, <2>1, ArchiveStep
  <2>2. CASE ~WriteArchive
    BY <1>1, <2>2
    DEF Next, vars, theHome, theBackup, theRestores, TakeLock, WriteLocked, GiveLock, WriteLoose,
        Change, BeginBackup, Goes, LockNext, LockTimeout, LocksTaken, Look, List, Read,
        ReadRefused, Again, ChangeDetected, Leave, BackupFails, BeginRestore, MakeStage, Fill,
        Verify, Install, RestoreFails, Appear
  <2> QED BY <2>1, <2>2
<1>2. BackupInv /\ [Next]_vars => [Taken]_archive
  BY <1>1
<1> HIDE DEF Taken
<1>3. Spec => [][Taken]_archive
  BY <1>2, BackupInvariant, PTL DEF Spec
<1> QED BY <1>3 DEF OneMoment, Taken

(* What restore_workspace_backup renames to the destination is an archive  *)
(* it has read, whole, and nothing with content is replaced.               *)
THEOREM RestoresAreSafe == Spec => RestoreIsSafe
<1> DEFINE Whole == target' \notin {target, Absent, Empty, Foreign} =>
                      \E r \in Restorer : target' = from[r]
           Kept == target \notin {Absent, Empty} => target' \in {target, Absent}
<1>1. ASSUME BackupInv, [Next]_vars PROVE [Whole]_vars /\ [Kept]_vars
  <2>1. CASE \E r \in Restorer : Install(r)
    BY <1>1, <2>1 DEF Install, BackupInv, RestoreInv
  <2>2. CASE Appear
    BY <2>2 DEF Appear
  <2>3. CASE ~Appear /\ \A r \in Restorer : ~Install(r)
    <3>1. UNCHANGED target
      BY <1>1, <2>3
      DEF Next, vars, theHome, theBackup, theRestores, TakeLock, WriteLocked, GiveLock, WriteLoose,
          Change, BeginBackup, Goes, LockNext, LockTimeout, LocksTaken, Look, List, Read,
          ReadRefused, Again, WriteArchive, ChangeDetected, Leave, BackupFails, BeginRestore,
          MakeStage, Fill, Verify, RestoreFails
    <3> QED BY <3>1
  <2> QED BY <2>1, <2>2, <2>3
<1>2. BackupInv /\ [Next]_vars => [Whole]_vars /\ [Kept]_vars
  BY <1>1
<1> HIDE DEF Whole, Kept
<1>3. Spec => [][Whole]_vars /\ [][Kept]_vars
  BY <1>2, BackupInvariant, PTL DEF Spec
<1> QED BY <1>3 DEF RestoreIsSafe, InstalledIsArchived, NothingReplaced, Whole, Kept
=============================================================================
