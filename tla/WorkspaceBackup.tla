--------------------------- MODULE WorkspaceBackup ---------------------------
(***************************************************************************)
(* workspace_backup.py: a backup takes the locks of the known stores and   *)
(* of the runtime records that exist, reads the home twice, file by file,  *)
(* and writes an archive only if nothing has changed in between; a restore *)
(* fills a private directory and renames it to a new sibling of the home.  *)
(* Writers of stores and records take the lock of the file, those of other *)
(* files (keys, logs, texts, plugins) take none.                           *)
(*                                                                         *)
(* The home is one directory.  What lstat and fstat tell of a file or of   *)
(* the directory is a stamp.  Every change renews it but one: a write in   *)
(* place, of the same size, can keep the times and so the stamp.           *)
(*                                                                         *)
(* A backup is meant for a home at rest: without --offline, which states   *)
(* that no other process of the program runs, it is refused, and nothing   *)
(* checks that statement.  The model is of what it does if others do run.  *)
(***************************************************************************)
EXTENDS Naturals, Sequences

CONSTANTS
  Store,     \* known stores, always locked by a backup
  Record,    \* runtime records of managed servers and X servers
  Loose,     \* files written without a lock
  Order,     \* all of them, in the order in which names are sorted
  Value, Active, Stopped,
  Absent, Broken, Empty, Foreign, None,
  Restorer,
  Homes,     \* bound: the homes to begin with
  MaxWrites  \* bound: changes of the home

File == Store \cup Record \cup Loose
Locked == Store \cup Record
Content(f) == IF f \in Record THEN {Active, Stopped} ELSE Value
Entry == Value \cup {Active, Stopped, Absent}
Home == [File -> Entry]
Passes == {1, 2}

ASSUME WorkspaceBackupAssumption ==
  /\ Order \in Seq(File) /\ File = {Order[i] : i \in DOMAIN Order}
  /\ Loose \cap Locked = {}
  /\ Homes \subseteq Home /\ MaxWrites \in Nat
  /\ Absent \notin Value \cup {Active, Stopped}
  /\ None \notin [File -> Entry \cup {Broken}] /\ Absent # Empty /\ Absent # Foreign
  /\ {Absent, Empty, Foreign} \cap Home = {}
  /\ Broken \notin Entry

VARIABLES
  home,     \* content of each file
  stamp,    \* of each file
  dir,      \* of the directory: renewed when a name appears, goes or is replaced
  clock,    \* number of changes so far
  lock,     \* who has the lock of a store or record: "writer", "backup", "free"
  backup,   \* where the backup is
  claim,    \* the files whose locks it wants
  pass,
  listed,   \* what the pass has still to read
  mark,     \* the stamp of the directory, of each pass
  got,      \* content and stamp of each file, of each pass
  archive,  \* the last archive written
  restore,  \* where a restore is
  from,     \* the manifest it restores
  stage,    \* its staging directory
  target,   \* the destination: a new sibling of the home
  seen,     \* history: the homes there were since the backup began
  unseen    \* history: files written with their stamp kept since it first read them

theHome == <<home, stamp, dir, clock>>
theBackup == <<backup, claim, pass, listed, mark, got, seen, unseen>>
theRestores == <<restore, from, stage>>
vars == <<theHome, lock, theBackup, archive, theRestores, target>>

Unread == [f \in File |-> <<Absent, 0>>]

Init ==
  /\ home \in Homes
  /\ stamp = [f \in File |-> 0] /\ dir = 0 /\ clock = 0
  /\ lock = [f \in Locked |-> "free"]
  /\ backup = "idle" /\ claim = {} /\ pass = 1 /\ listed = {}
  /\ mark = [n \in Passes |-> 0] /\ got = [n \in Passes |-> Unread]
  /\ archive = None
  /\ restore = [r \in Restorer |-> "idle"]
  /\ from = [r \in Restorer |-> None] /\ stage = [r \in Restorer |-> None]
  /\ target = Absent
  /\ seen = {} /\ unseen = {}

(* Bound: the home is left alone while an archive is restored.  A restore  *)
(* reads one complete archive, once, and nothing of the home.              *)
Resting == \A r \in Restorer : restore[r] = "idle"

-----------------------------------------------------------------------------
(* The other processes of the program                                      *)

(* A change of one file.  Only a write in place leaves the directory alone.*)
Change(f, c, inPlace) ==
  /\ clock < MaxWrites /\ Resting /\ clock' = clock + 1
  /\ home' = [home EXCEPT ![f] = c]
  /\ \/ stamp' = [stamp EXCEPT ![f] = clock + 1] /\ unseen' = unseen
     \/ /\ inPlace /\ stamp' = stamp
        /\ unseen' = IF got[1][f][1] = Absent THEN unseen ELSE unseen \cup {f}
  /\ dir' = IF inPlace THEN dir ELSE clock + 1
  /\ seen' = IF backup = "idle" THEN {} ELSE seen \cup {home'}
  /\ UNCHANGED <<backup, claim, pass, listed, mark, got, archive, theRestores,
                 target>>

(* A store's transaction, or the start or stop of a server.                *)
TakeLock(f) ==
  /\ lock[f] = "free" /\ clock < MaxWrites /\ Resting
  /\ lock' = [lock EXCEPT ![f] = "writer"]
  /\ UNCHANGED <<theHome, theBackup, archive, theRestores, target>>

(* Mutant: a store is saved outside its transaction.                       *)
WriteUnlocked(f) ==
  /\ \E c \in Content(f) : Change(f, c, FALSE)
  /\ UNCHANGED lock

WriteLocked(f) ==
  /\ lock[f] = "writer"
  /\ \E c \in Content(f) : Change(f, c, FALSE)
  /\ UNCHANGED lock

GiveLock(f) ==
  /\ lock[f] = "writer"
  /\ lock' = [lock EXCEPT ![f] = "free"]
  /\ UNCHANGED <<theHome, theBackup, archive, theRestores, target>>

WriteLoose(f) ==
  /\ \/ \E c \in Content(f) : Change(f, c, FALSE)
     \/ home[f] # Absent /\ \E c \in Content(f) : Change(f, c, TRUE)
     \/ home[f] # Absent /\ Change(f, Absent, FALSE)
  /\ UNCHANGED lock

-----------------------------------------------------------------------------
(* create_workspace_backup                                                 *)

First(S) == Order[CHOOSE i \in DOMAIN Order :
                    Order[i] \in S /\ \A j \in 1 .. i - 1 : Order[j] \notin S]

Wanted == {f \in claim : lock[f] # "backup"}

(* The call is over, with or without an archive: its frame is gone and so  *)
(* are its locks.                                                          *)
Finished ==
  /\ backup' = "idle" /\ claim' = {} /\ pass' = 1 /\ listed' = {}
  /\ mark' = [n \in Passes |-> 0] /\ got' = [n \in Passes |-> Unread]
  /\ seen' = {} /\ unseen' = {}
  /\ lock' = [f \in Locked |-> IF lock[f] = "backup" THEN "free" ELSE lock[f]]

BeginBackup ==
  /\ backup = "idle" /\ Resting /\ target = Absent
  /\ backup' = "lock"
  /\ claim' = Store \cup {f \in Record : home[f] # Absent}
  /\ seen' = {home}
  /\ UNCHANGED <<theHome, lock, pass, listed, mark, got, archive, theRestores,
                 target, unseen>>

(* The locks are taken one after another, each with its own timeout.       *)
LockNext ==
  /\ backup = "lock" /\ Wanted # {}
  /\ lock[First(Wanted)] = "free"
  /\ lock' = [lock EXCEPT ![First(Wanted)] = "backup"]
  /\ UNCHANGED <<theHome, theBackup, archive, theRestores, target>>

(* Mutant: the lock is waited for without a deadline.                      *)
LockTimeoutNever == FALSE

LockTimeout ==
  /\ backup = "lock" /\ Wanted # {} /\ lock[First(Wanted)] = "writer"
  /\ Finished
  /\ UNCHANGED <<theHome, archive, theRestores, target>>

LocksTaken ==
  /\ backup = "lock" /\ Wanted = {}
  /\ backup' = "look"
  /\ UNCHANGED <<theHome, lock, claim, pass, listed, mark, got, archive,
                 theRestores, target, seen, unseen>>

(* _inventory: the directory's metadata, then its names, then the files.   *)
Look ==
  /\ backup = "look"
  /\ mark' = [mark EXCEPT ![pass] = dir]
  /\ backup' = "list"
  /\ UNCHANGED <<theHome, lock, claim, pass, listed, got, archive, theRestores,
                 target, seen, unseen>>

List ==
  /\ backup = "list"
  /\ listed' = {f \in File : home[f] # Absent}
  /\ backup' = "read"
  /\ UNCHANGED <<theHome, lock, claim, pass, mark, got, archive, theRestores,
                 target, seen, unseen>>

(* A file that has gone is an error, and so is a record of a server that   *)
(* is not stopped.                                                         *)
Readable(f) == home[f] # Absent /\ home[f] # Active

(* _read_regular: the bytes with the metadata before and after them.       *)
Read ==
  /\ backup = "read" /\ listed # {}
  /\ LET f == First(listed) IN
       /\ Readable(f)
       /\ got' = [got EXCEPT ![pass][f] = <<home[f], stamp[f]>>]
       /\ listed' = listed \ {f}
  /\ UNCHANGED <<theHome, lock, backup, claim, pass, mark, archive, theRestores,
                 target, seen, unseen>>

ReadRefused ==
  /\ backup = "read" /\ listed # {} /\ ~Readable(First(listed))
  /\ Finished
  /\ UNCHANGED <<theHome, archive, theRestores, target>>

(* The first inventory is encrypted; then everything is read again.        *)
Again ==
  /\ backup = "read" /\ listed = {} /\ pass = 1
  /\ pass' = 2 /\ backup' = "look"
  /\ UNCHANGED <<theHome, lock, claim, listed, mark, got, archive, theRestores,
                 target, seen, unseen>>

(* Mutant: nothing is compared.                                            *)
SameAlways == TRUE

Same == mark[1] = mark[2] /\ got[1] = got[2]

Manifest == [f \in File |-> got[1][f][1]]

(* The archive is written atomically, and only if nothing has changed.     *)
WriteArchive ==
  /\ backup = "read" /\ listed = {} /\ pass = 2 /\ Same
  /\ archive' = Manifest
  /\ backup' = "leave"
  /\ UNCHANGED <<theHome, lock, claim, pass, listed, mark, got, theRestores,
                 target, seen, unseen>>

ChangeDetected ==
  /\ backup = "read" /\ listed = {} /\ pass = 2 /\ ~Same
  /\ Finished
  /\ UNCHANGED <<theHome, archive, theRestores, target>>

Leave ==
  /\ backup = "leave"
  /\ Finished
  /\ UNCHANGED <<theHome, archive, theRestores, target>>

(* An error or a kill, after any step.                                     *)
BackupFails ==
  /\ backup # "idle"
  /\ Finished
  /\ UNCHANGED <<theHome, archive, theRestores, target>>

-----------------------------------------------------------------------------
(* restore_workspace_backup                                                *)

(* The archive is read and validated as a whole before anything is made.   *)
BeginRestore(r) ==
  /\ restore[r] = "idle" /\ target = Absent /\ archive # None
  /\ backup = "idle" /\ \A f \in Locked : lock[f] = "free"
  /\ from' = [from EXCEPT ![r] = archive]
  /\ restore' = [restore EXCEPT ![r] = "mkdir"]
  /\ UNCHANGED <<theHome, lock, theBackup, archive, stage, target>>

MakeStage(r) ==
  /\ restore[r] = "mkdir"
  /\ stage' = [stage EXCEPT ![r] = [f \in File |-> Absent]]
  /\ restore' = [restore EXCEPT ![r] = "fill"]
  /\ UNCHANGED <<theHome, lock, theBackup, archive, from, target>>

Missing(r) == {f \in File : stage[r][f] = Absent /\ from[r][f] # Absent}

(* write_bytes_atomic; the disk may return other bytes than it was given.  *)
Fill(r) ==
  /\ restore[r] = "fill" /\ Missing(r) # {}
  /\ \E c \in {from[r][First(Missing(r))], Broken} :
       stage' = [stage EXCEPT ![r][First(Missing(r))] = c]
  /\ UNCHANGED <<theHome, lock, theBackup, archive, restore, from, target>>

(* The staged bytes are read back, and the destination is looked at again. *)
Verify(r) ==
  /\ restore[r] = "fill" /\ Missing(r) = {}
  /\ stage[r] = from[r] /\ target = Absent
  /\ restore' = [restore EXCEPT ![r] = "rename"]
  /\ UNCHANGED <<theHome, lock, theBackup, archive, from, stage, target>>

RestoreEnds(r) ==
  /\ restore' = [restore EXCEPT ![r] = "idle"]
  /\ from' = [from EXCEPT ![r] = None]

(* Mutant: what has appeared at the destination is replaced.               *)
InstallOver(r) ==
  /\ restore[r] = "rename"
  /\ target' = stage[r]
  /\ stage' = [stage EXCEPT ![r] = None]
  /\ RestoreEnds(r)
  /\ UNCHANGED <<theHome, lock, theBackup, archive>>

(* os.rename replaces nothing but an empty directory.                      *)
Install(r) ==
  /\ restore[r] = "rename" /\ target \in {Absent, Empty}
  /\ target' = stage[r]
  /\ stage' = [stage EXCEPT ![r] = None]
  /\ RestoreEnds(r)
  /\ UNCHANGED <<theHome, lock, theBackup, archive>>

(* An error at any step: the staging directory is removed.  A kill leaves  *)
(* it behind, under a name that nobody uses again.                         *)
RestoreFails(r) ==
  /\ restore[r] # "idle"
  /\ stage' = [stage EXCEPT ![r] = None]
  /\ RestoreEnds(r)
  /\ UNCHANGED <<theHome, lock, theBackup, archive, target>>

(* Somebody else makes or removes the destination.                         *)
Appear ==
  /\ \/ ~Resting /\ target = Absent /\ target' \in {Empty, Foreign}
     \/ target # Absent /\ target' = Absent
  /\ UNCHANGED <<theHome, lock, theBackup, archive, theRestores>>

-----------------------------------------------------------------------------
(* The steps a backup takes by itself.                                     *)
Goes ==
  \/ LockNext \/ LockTimeout \/ LocksTaken \/ Look \/ List \/ Read \/ ReadRefused
  \/ Again \/ WriteArchive \/ ChangeDetected \/ Leave

Next ==
  \/ \E f \in Locked : TakeLock(f) \/ WriteLocked(f) \/ GiveLock(f)
  \/ \E f \in Loose : WriteLoose(f)
  \/ BeginBackup \/ Goes \/ BackupFails
  \/ \E r \in Restorer :
       \/ BeginRestore(r) \/ MakeStage(r) \/ Fill(r) \/ Verify(r)
       \/ Install(r) \/ RestoreFails(r)
  \/ Appear

Spec == Init /\ [][Next]_vars

(* A backup runs on; nothing is asked of the holders of the locks.         *)
FairSpec == Spec /\ WF_vars(Goes)

-----------------------------------------------------------------------------
(* The fields hold what their assignments say; a lock the backup has is    *)
(* one it wants.                                                           *)
TypeOK ==
  /\ home \in Home /\ stamp \in [File -> 0 .. clock]
  /\ dir \in 0 .. clock /\ clock \in 0 .. MaxWrites
  /\ lock \in [Locked -> {"free", "writer", "backup"}]
  /\ backup \in {"idle", "lock", "look", "list", "read", "leave"}
  /\ claim \subseteq Locked /\ pass \in Passes /\ listed \subseteq File
  /\ mark \in [Passes -> 0 .. clock]
  /\ got \in [Passes -> [File -> Entry \X (0 .. clock)]]
  /\ archive \in Home \cup {None}
  /\ restore \in [Restorer -> {"idle", "mkdir", "fill", "rename"}]
  /\ from \in [Restorer -> Home \cup {None}]
  /\ stage \in [Restorer -> [File -> Entry \cup {Broken}] \cup {None}]
  /\ target \in [File -> Entry] \cup {Absent, Empty, Foreign}
  /\ seen \subseteq Home /\ unseen \subseteq File
  /\ \A f \in Locked : lock[f] = "backup" => f \in claim

HasRead(n, f) ==
  n < pass \/ (n = pass /\ backup \in {"read", "leave"} /\ f \notin listed)

(* The stores and records whose locks the backup has are, until it ends, as *)
(* it has read them, in both inventories: nobody writes them, makes them or *)
(* removes them, so that they are archived as they are when it writes.      *)
LockedStayAsRead ==
  /\ TypeOK
  /\ \A f \in claim, n \in Passes :
       HasRead(n, f) =>
         got[n][f] = IF home[f] = Absent THEN Unread[f] ELSE <<home[f], stamp[f]>>

(* "The known store locks and two inventories detect cooperating writers   *)
(* and source drift, but do not make an online snapshot safe": how far they*)
(* go when others do write.  The files are read one after another, yet the *)
(* archive has them all as they were at one moment since the backup began, *)
(* also those a writer changes without a lock, except a file that was      *)
(* written in place with its stamp kept after its first reading: such a one*)
(* can have changed and changed back, and is archived as it was read.      *)
OneMoment ==
  [][archive' # archive =>
       \E h \in seen : \A f \in File \ unseen : archive'[f] = h[f]]_archive

(* "verifies the restored bytes before installing that directory": what a  *)
(* restore puts at the destination is the whole of an archive it has read, *)
(* whatever fails on the way.                                              *)
InstalledIsArchived ==
  [][target' \notin {target, Absent, Empty, Foreign} =>
       \E r \in Restorer : target' = from[r]]_vars

(* "Restores go into a new sibling directory": nothing that has content is *)
(* replaced by a restore, not even what another restore has installed or   *)
(* somebody has put there since it looked.                                 *)
NothingReplaced ==
  [][target \notin {Absent, Empty} => target' \in {target, Absent}]_vars

(* A restore installs a whole archive, and over nothing.                   *)
RestoreIsSafe == InstalledIsArchived /\ NothingReplaced

(* A backup ends, though a lock may be held for ever.                      *)
BackupEnds == backup # "idle" ~> backup = "idle"
=============================================================================
