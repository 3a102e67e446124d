---------------------------- MODULE TeamSyncProofs ----------------------------
(***************************************************************************)
(* Proofs about TeamSync, for any workstations, commands, names and        *)
(* endpoints: each version is published once, a pull never arms a row, and *)
(* while each workstation runs one command at a time no push drops what    *)
(* another one published.                                                  *)
(***************************************************************************)
EXTENDS TeamSync, TLAPS

(* The record's lock is held from the check to the end of the write.       *)
HolderInv == \A m \in Command : pc[m] \in {"check", "write", "written"} <=> holder = m

(* No version from the future; a checked version stays the record's.       *)
VersionInv ==
  /\ \A c \in Client : known[c] <= record.version
  /\ \A m \in Command :
       /\ expected[m] <= record.version
       /\ pc[m] = "write" => expected[m] = record.version
       /\ pc[m] = "written" => record.version = expected[m] + 1 /\ record.rows = rows[m]

(* A version has one content: a snapshot of the present one is the record. *)
SnapshotInv ==
  \A m \in Command :
    pc[m] = "merge" /\ expected[m] = record.version => rows[m] = record.rows

Shareable(r) == \A n \in Name : r[n] # Absent => r[n] \notin LocalOnly

SharedInv == Shareable(record.rows) /\ \A m \in Command : Shareable(rows[m])

SyncInv == TypeOK /\ HolderInv /\ VersionInv /\ SnapshotInv /\ SharedInv
-------------------------------------------------------------------------------
(* What holds while a workstation runs one command at a time.              *)
OneCommandEach ==
  \A m1, m2 \in Command : ClientOf[m1] = ClientOf[m2] => m1 = m2

Pushing == {"lock", "check", "write", "written"}

Differs(r, s, n) == r[n] # Public(s)[n]

(* A pull brings no older version than the newest printed; a push names it.*)
NewestInv ==
  \A m \in Command :
    /\ pc[m] = "merge" => known[ClientOf[m]] <= expected[m]
    /\ pc[m] \in Pushing => expected[m] = known[ClientOf[m]]

(* What a push has loaded is what the store has, but for later edits.      *)
LoadedInv ==
  \A m \in Command : pc[m] \in Pushing =>
    \A n \in Name : Differs(rows[m], store[ClientOf[m]], n) => n \in edited[ClientOf[m]]

(* A workstation that knows the record's version has its rows, but for the *)
(* names edited there since.                                               *)
BaseInv ==
  \A c \in Client : known[c] = record.version =>
    \A n \in Name : record.rows[n] # Absent /\ Differs(record.rows, store[c], n) =>
      n \in edited[c]

(* So a push that is not stale changes only the rows it carries.           *)
CarriedInv ==
  \A m \in Command : pc[m] \in {"lock", "check", "write"} /\ expected[m] = record.version =>
    \A n \in Name : record.rows[n] # Absent /\ rows[m][n] # record.rows[n] =>
      n \in carried[m]

CommandInv == SyncInv /\ NewestInv /\ LoadedInv /\ BaseInv /\ CarriedInv
-------------------------------------------------------------------------------
(* The rows of a store that may be published are rows of a record.         *)
LEMMA PublicType ==
  ASSUME NEW s \in Store PROVE Public(s) \in Shared /\ Shareable(Public(s))
BY DEF Public, Shared, Store, Row, Shareable

LEMMA NothingType == Nothing \in Shared /\ Nothing \in Store /\ Shareable(Nothing)
BY DEF Nothing, Shared, Store, Shareable

LEMMA ReceivedType ==
  ASSUME NEW c \in Client, NEW r \in Shared, NEW n \in Named(r), TypeOK
  PROVE  Received(c, n, r) \in Row
<1>1. SameBinding(c, n, r) => store[c][n] \in Row
  BY DEF SameBinding, TypeOK, Store, Named
<1>2. r[n] \in Endpoint
  BY DEF Named, Shared
<1> QED BY <1>1, <1>2 DEF Received, Row, SameBinding

LEMMA MergeType ==
  ASSUME NEW c \in Client, NEW r \in Shared, NEW replace \in BOOLEAN, TypeOK
  PROVE  MergeInto(c, r, replace) \in Store
<1>1. ASSUME NEW n \in Name PROVE store[c][n] \in Row \cup {Absent}
  BY DEF TypeOK, Store
<1> QED BY <1>1, ReceivedType DEF MergeInto, Store, Named

(* After a merge the store has every row that was received.                *)
LEMMA MergePublic ==
  ASSUME NEW c \in Client, NEW r \in Shared, Shareable(r), NEW replace \in BOOLEAN,
         NEW n \in Name, r[n] # Absent, TypeOK
  PROVE  Public(MergeInto(c, r, replace))[n] = r[n]
<1>1. MergeInto(c, r, replace)[n] = Received(c, n, r)
  BY DEF MergeInto, Named
<1>2. Received(c, n, r).pub = r[n] /\ r[n] \notin LocalOnly
  BY DEF Received, Shareable
<1>3. Received(c, n, r) # Absent
  BY ReceivedType, TeamSyncAssumption DEF Named, Row
<1> QED BY <1>1, <1>2, <1>3 DEF Public

(* SyncInv survives a user's change of a profile.                          *)
LEMMA EditSync ==
  ASSUME SyncInv, NEW c \in Client, NEW n \in Name, Edit(c, n) PROVE SyncInv'
<1> USE DEF Edit, Goto, End, local, SyncInv
<1>1. TypeOK'
  <2>1. PICK row \in LocalRow \cup {Absent} : store' = [store EXCEPT ![c][n] = row]
    OBVIOUS
  <2>2. row \in Row \cup {Absent}
    BY TeamSyncAssumption DEF Row
  <2>3. store' \in [Client -> Store]
    BY <2>1, <2>2 DEF TypeOK, Store
  <2>4. edited' \in [Client -> SUBSET Name]
    BY DEF TypeOK
  <2> QED BY <2>3, <2>4, TeamSyncAssumption DEF TypeOK
<1>2. HolderInv'
  BY TeamSyncAssumption DEF HolderInv, TypeOK
<1>3. VersionInv'
  BY TeamSyncAssumption DEF VersionInv, HolderInv, TypeOK
<1>4. SnapshotInv'
  BY DEF SnapshotInv, VersionInv, TypeOK
<1>5. SharedInv'
  BY NothingType, PublicType DEF SharedInv, TypeOK
<1> QED BY <1>1, <1>2, <1>3, <1>4, <1>5

(* SyncInv survives a change of the group's defaults.                      *)
LEMMA SetGroupDefaultsSync ==
  ASSUME SyncInv, NEW c \in Client, SetGroupDefaults(c) PROVE SyncInv'
<1> USE DEF SetGroupDefaults, Goto, End, local, SyncInv
<1>1. TypeOK'
  BY TeamSyncAssumption DEF TypeOK
<1>2. HolderInv'
  BY TeamSyncAssumption DEF HolderInv, TypeOK
<1>3. VersionInv'
  BY TeamSyncAssumption DEF VersionInv, HolderInv, TypeOK
<1>4. SnapshotInv'
  BY DEF SnapshotInv, VersionInv, TypeOK
<1>5. SharedInv'
  BY NothingType, PublicType DEF SharedInv, TypeOK
<1> QED BY <1>1, <1>2, <1>3, <1>4, <1>5

(* SyncInv survives reading the record.                                    *)
LEMMA PullReadSync ==
  ASSUME SyncInv, NEW m \in Command, PullRead(m) PROVE SyncInv'
<1> USE DEF PullRead, Goto, End, local, SyncInv
<1>1. TypeOK'
  BY TeamSyncAssumption DEF TypeOK
<1>2. HolderInv'
  BY TeamSyncAssumption DEF HolderInv, TypeOK
<1>3. VersionInv'
  BY TeamSyncAssumption DEF VersionInv, HolderInv, TypeOK
<1>4. SnapshotInv'
  BY DEF SnapshotInv, VersionInv, TypeOK
<1>5. SharedInv'
  BY NothingType, PublicType DEF SharedInv, TypeOK
<1> QED BY <1>1, <1>2, <1>3, <1>4, <1>5

(* SyncInv survives merging it.                                            *)
LEMMA PullMergeSync ==
  ASSUME SyncInv, NEW m \in Command, PullMerge(m) PROVE SyncInv'
<1> USE DEF PullMerge, Goto, End, local, SyncInv
<1>1. TypeOK'
  <2> DEFINE d == ClientOf[m]
  <2>1. PICK replace \in BOOLEAN :
          /\ store' = [store EXCEPT ![d] = MergeInto(d, rows[m], replace)]
          /\ edited' = [edited EXCEPT ![d] = IF replace THEN {} ELSE @ \ Named(rows[m])]
    BY TeamSyncAssumption
  <2>2. d \in Client /\ rows[m] \in Shared
    BY TeamSyncAssumption DEF TypeOK
  <2>3. MergeInto(d, rows[m], replace) \in Store
    BY <2>2, MergeType
  <2>4. store' \in [Client -> Store]
    BY <2>1, <2>3 DEF TypeOK
  <2>5. edited' \in [Client -> SUBSET Name]
    BY <2>1 DEF TypeOK
  <2> QED BY <2>4, <2>5, NothingType, TeamSyncAssumption DEF TypeOK
<1>2. HolderInv'
  BY TeamSyncAssumption DEF HolderInv, TypeOK
<1>3. VersionInv'
  BY TeamSyncAssumption DEF VersionInv, HolderInv, TypeOK
<1>4. SnapshotInv'
  BY DEF SnapshotInv, VersionInv, TypeOK
<1>5. SharedInv'
  BY NothingType, PublicType DEF SharedInv, TypeOK
<1> QED BY <1>1, <1>2, <1>3, <1>4, <1>5

(* SyncInv survives refusing to merge it.                                  *)
LEMMA PullRefusedSync ==
  ASSUME SyncInv, NEW m \in Command, PullRefused(m) PROVE SyncInv'
<1> USE DEF PullRefused, Goto, End, local, SyncInv
<1>1. TypeOK'
  BY NothingType, TeamSyncAssumption DEF TypeOK
<1>2. HolderInv'
  BY TeamSyncAssumption DEF HolderInv, TypeOK
<1>3. VersionInv'
  BY TeamSyncAssumption DEF VersionInv, HolderInv, TypeOK
<1>4. SnapshotInv'
  BY DEF SnapshotInv, VersionInv, TypeOK
<1>5. SharedInv'
  BY NothingType, PublicType DEF SharedInv, TypeOK
<1> QED BY <1>1, <1>2, <1>3, <1>4, <1>5

(* SyncInv survives loading the store.                                     *)
LEMMA PushLoadSync ==
  ASSUME SyncInv, NEW m \in Command, PushLoad(m) PROVE SyncInv'
<1> USE DEF PushLoad, Goto, End, local, SyncInv
<1>1. TypeOK'
  BY PublicType, TeamSyncAssumption DEF TypeOK
<1>2. HolderInv'
  BY TeamSyncAssumption DEF HolderInv, TypeOK
<1>3. VersionInv'
  BY TeamSyncAssumption DEF VersionInv, HolderInv, TypeOK
<1>4. SnapshotInv'
  BY DEF SnapshotInv, VersionInv, TypeOK
<1>5. SharedInv'
  <2>1. Shareable(Public(store[ClientOf[m]]))
    BY PublicType, TeamSyncAssumption DEF TypeOK
  <2> QED BY <2>1 DEF SharedInv, TypeOK
<1> QED BY <1>1, <1>2, <1>3, <1>4, <1>5

(* SyncInv survives taking the record's lock.                              *)
LEMMA PushLockSync ==
  ASSUME SyncInv, NEW m \in Command, PushLock(m) PROVE SyncInv'
<1> USE DEF PushLock, Goto, End, local, SyncInv
<1>1. TypeOK'
  BY TeamSyncAssumption DEF TypeOK
<1>2. HolderInv'
  BY TeamSyncAssumption DEF HolderInv, TypeOK
<1>3. VersionInv'
  BY TeamSyncAssumption DEF VersionInv, HolderInv, TypeOK
<1>4. SnapshotInv'
  BY DEF SnapshotInv, VersionInv, TypeOK
<1>5. SharedInv'
  BY NothingType, PublicType DEF SharedInv, TypeOK
<1> QED BY <1>1, <1>2, <1>3, <1>4, <1>5

(* SyncInv survives finding it busy.                                       *)
LEMMA PushBusySync ==
  ASSUME SyncInv, NEW m \in Command, PushBusy(m) PROVE SyncInv'
<1> USE DEF PushBusy, Goto, End, local, SyncInv
<1>1. TypeOK'
  BY NothingType, TeamSyncAssumption DEF TypeOK
<1>2. HolderInv'
  BY TeamSyncAssumption DEF HolderInv, TypeOK
<1>3. VersionInv'
  BY TeamSyncAssumption DEF VersionInv, HolderInv, TypeOK
<1>4. SnapshotInv'
  BY DEF SnapshotInv, VersionInv, TypeOK
<1>5. SharedInv'
  BY NothingType, PublicType DEF SharedInv, TypeOK
<1> QED BY <1>1, <1>2, <1>3, <1>4, <1>5

(* SyncInv survives a version that matches.                                *)
LEMMA PushCheckSync ==
  ASSUME SyncInv, NEW m \in Command, PushCheck(m) PROVE SyncInv'
<1> USE DEF PushCheck, Goto, End, local, SyncInv
<1>1. TypeOK'
  BY TeamSyncAssumption DEF TypeOK
<1>2. HolderInv'
  BY TeamSyncAssumption DEF HolderInv, TypeOK
<1>3. VersionInv'
  BY TeamSyncAssumption DEF VersionInv, HolderInv, TypeOK
<1>4. SnapshotInv'
  BY DEF SnapshotInv, VersionInv, TypeOK
<1>5. SharedInv'
  BY NothingType, PublicType DEF SharedInv, TypeOK
<1> QED BY <1>1, <1>2, <1>3, <1>4, <1>5

(* SyncInv survives a version that does not.                               *)
LEMMA PushConflictSync ==
  ASSUME SyncInv, NEW m \in Command, PushConflict(m) PROVE SyncInv'
<1> USE DEF PushConflict, Goto, End, local, SyncInv
<1>1. TypeOK'
  BY NothingType, TeamSyncAssumption DEF TypeOK
<1>2. HolderInv'
  BY TeamSyncAssumption DEF HolderInv, TypeOK
<1>3. VersionInv'
  BY TeamSyncAssumption DEF VersionInv, HolderInv, TypeOK
<1>4. SnapshotInv'
  BY DEF SnapshotInv, VersionInv, TypeOK
<1>5. SharedInv'
  BY NothingType, PublicType DEF SharedInv, TypeOK
<1> QED BY <1>1, <1>2, <1>3, <1>4, <1>5

(* SyncInv survives publishing.                                            *)
LEMMA PushWriteSync ==
  ASSUME SyncInv, NEW m \in Command, PushWrite(m) PROVE SyncInv'
<1> USE DEF PushWrite, Goto, End, local, SyncInv
<1>1. TypeOK'
  <2>1. expected[m] + 1 \in 0..MaxVersion
    BY TeamSyncAssumption DEF TypeOK, VersionInv
  <2> QED BY <2>1, TeamSyncAssumption DEF TypeOK
<1>2. HolderInv'
  BY TeamSyncAssumption DEF HolderInv, TypeOK
<1>3. VersionInv'
  BY TeamSyncAssumption DEF VersionInv, HolderInv, TypeOK
<1>4. SnapshotInv'
  BY DEF SnapshotInv, VersionInv, TypeOK
<1>5. SharedInv'
  BY NothingType, PublicType DEF SharedInv, TypeOK
<1> QED BY <1>1, <1>2, <1>3, <1>4, <1>5

(* SyncInv survives a failed write.                                        *)
LEMMA PushFailsSync ==
  ASSUME SyncInv, NEW m \in Command, PushFails(m) PROVE SyncInv'
<1> USE DEF PushFails, Goto, End, local, SyncInv
<1>1. TypeOK'
  BY NothingType, TeamSyncAssumption DEF TypeOK
<1>2. HolderInv'
  BY TeamSyncAssumption DEF HolderInv, TypeOK
<1>3. VersionInv'
  BY TeamSyncAssumption DEF VersionInv, HolderInv, TypeOK
<1>4. SnapshotInv'
  BY DEF SnapshotInv, VersionInv, TypeOK
<1>5. SharedInv'
  BY NothingType, PublicType DEF SharedInv, TypeOK
<1> QED BY <1>1, <1>2, <1>3, <1>4, <1>5

(* SyncInv survives the end of a push.                                     *)
LEMMA PushDoneSync ==
  ASSUME SyncInv, NEW m \in Command, PushDone(m) PROVE SyncInv'
<1> USE DEF PushDone, Goto, End, local, SyncInv
<1>1. TypeOK'
  <2>1. expected[m] + 1 \in 0..MaxVersion
    BY DEF TypeOK, VersionInv
  <2>2. known' \in [Client -> 0..MaxVersion]
    BY <2>1 DEF TypeOK
  <2> QED BY <2>2, NothingType, TeamSyncAssumption DEF TypeOK
<1>2. HolderInv'
  BY TeamSyncAssumption DEF HolderInv, TypeOK
<1>3. VersionInv'
  BY TeamSyncAssumption DEF VersionInv, HolderInv, TypeOK
<1>4. SnapshotInv'
  BY DEF SnapshotInv, VersionInv, TypeOK
<1>5. SharedInv'
  BY NothingType, PublicType DEF SharedInv, TypeOK
<1> QED BY <1>1, <1>2, <1>3, <1>4, <1>5

(* SyncInv survives losing a command.                                      *)
LEMMA CrashSync ==
  ASSUME SyncInv, NEW m \in Command, Crash(m) PROVE SyncInv'
<1> USE DEF Crash, Goto, End, local, SyncInv
<1>1. TypeOK'
  BY NothingType, TeamSyncAssumption DEF TypeOK
<1>2. HolderInv'
  BY TeamSyncAssumption DEF HolderInv, TypeOK
<1>3. VersionInv'
  BY TeamSyncAssumption DEF VersionInv, HolderInv, TypeOK
<1>4. SnapshotInv'
  BY DEF SnapshotInv, VersionInv, TypeOK
<1>5. SharedInv'
  BY NothingType, PublicType DEF SharedInv, TypeOK
<1> QED BY <1>1, <1>2, <1>3, <1>4, <1>5

(* CommandInv survives a user's change of a profile.                       *)
LEMMA EditStep ==
  ASSUME OneCommandEach, CommandInv, NEW c \in Client, NEW n \in Name, Edit(c, n) PROVE CommandInv'
<1> USE DEF Edit, Goto, End, local, CommandInv
<1>1. SyncInv'
  BY EditSync
<1>2. NewestInv'
  BY TeamSyncAssumption DEF NewestInv, OneCommandEach, Pushing, SyncInv, TypeOK, VersionInv
<1>3. LoadedInv'
  BY TeamSyncAssumption DEF LoadedInv, OneCommandEach, Pushing, Differs, Public, SyncInv, TypeOK
<1>4. BaseInv'
  BY TeamSyncAssumption DEF BaseInv, Differs, Public, SyncInv, TypeOK, VersionInv
<1>5. CarriedInv'
  BY TeamSyncAssumption DEF CarriedInv, SyncInv, TypeOK, VersionInv
<1> QED BY <1>1, <1>2, <1>3, <1>4, <1>5

(* CommandInv survives a change of the group's defaults.                   *)
LEMMA SetGroupDefaultsStep ==
  ASSUME OneCommandEach, CommandInv, NEW c \in Client, SetGroupDefaults(c) PROVE CommandInv'
<1> USE DEF SetGroupDefaults, Goto, End, local, CommandInv
<1>1. SyncInv'
  BY SetGroupDefaultsSync
<1>2. NewestInv'
  BY TeamSyncAssumption DEF NewestInv, OneCommandEach, Pushing, SyncInv, TypeOK, VersionInv
<1>3. LoadedInv'
  BY TeamSyncAssumption DEF LoadedInv, OneCommandEach, Pushing, Differs, Public, SyncInv, TypeOK
<1>4. BaseInv'
  BY TeamSyncAssumption DEF BaseInv, Differs, Public, SyncInv, TypeOK, VersionInv
<1>5. CarriedInv'
  BY TeamSyncAssumption DEF CarriedInv, SyncInv, TypeOK, VersionInv
<1> QED BY <1>1, <1>2, <1>3, <1>4, <1>5

(* CommandInv survives reading the record.                                 *)
LEMMA PullReadStep ==
  ASSUME OneCommandEach, CommandInv, NEW m \in Command, PullRead(m) PROVE CommandInv'
<1> USE DEF PullRead, Goto, End, local, CommandInv
<1>1. SyncInv'
  BY PullReadSync
<1>2. NewestInv'
  BY TeamSyncAssumption DEF NewestInv, OneCommandEach, Pushing, SyncInv, TypeOK, VersionInv
<1>3. LoadedInv'
  BY TeamSyncAssumption DEF LoadedInv, OneCommandEach, Pushing, Differs, Public, SyncInv, TypeOK
<1>4. BaseInv'
  BY TeamSyncAssumption DEF BaseInv, Differs, Public, SyncInv, TypeOK, VersionInv
<1>5. CarriedInv'
  BY TeamSyncAssumption DEF CarriedInv, SyncInv, TypeOK, VersionInv
<1> QED BY <1>1, <1>2, <1>3, <1>4, <1>5

(* CommandInv survives merging it.                                         *)
LEMMA PullMergeStep ==
  ASSUME OneCommandEach, CommandInv, NEW m \in Command, PullMerge(m) PROVE CommandInv'
<1> USE DEF PullMerge, Goto, End, local, CommandInv
<1>1. SyncInv'
  BY PullMergeSync
<1>2. NewestInv'
  BY TeamSyncAssumption DEF NewestInv, OneCommandEach, Pushing, SyncInv, TypeOK, VersionInv
<1>3. LoadedInv'
  BY TeamSyncAssumption DEF LoadedInv, OneCommandEach, Pushing, Differs, Public, SyncInv, TypeOK
<1>4. BaseInv'
  <2> DEFINE d == ClientOf[m]
  <2>1. PICK replace \in BOOLEAN :
          /\ store' = [store EXCEPT ![d] = MergeInto(d, rows[m], replace)]
          /\ edited' = [edited EXCEPT ![d] = IF replace THEN {} ELSE @ \ Named(rows[m])]
    BY TeamSyncAssumption
  <2>2. SUFFICES ASSUME NEW c \in Client, known'[c] = record.version, NEW n \in Name,
                        record.rows[n] # Absent, Differs(record.rows, store'[c], n)
                 PROVE  n \in edited'[c]
    BY DEF BaseInv
  <2>3. CASE c # d
    BY <2>1, <2>2, <2>3 DEF BaseInv, SyncInv, TypeOK
  <2>4. CASE c = d
    <3>1. expected[m] = record.version
      BY <2>2, <2>4, TeamSyncAssumption DEF NewestInv, SyncInv, VersionInv, TypeOK
    <3>2. rows[m] = record.rows
      BY <3>1 DEF SyncInv, SnapshotInv
    <3>3. rows[m] \in Shared /\ Shareable(rows[m]) /\ TypeOK
      BY DEF SyncInv, SharedInv, TypeOK
    <3>4. Public(MergeInto(c, rows[m], replace))[n] = rows[m][n]
      BY <2>2, <3>2, <3>3, MergePublic
    <3>5. store'[c] = MergeInto(c, rows[m], replace)
      BY <2>1, <2>4, <3>3 DEF TypeOK
    <3> QED BY <2>2, <3>2, <3>4, <3>5 DEF Differs
  <2> QED BY <2>3, <2>4
<1>5. CarriedInv'
  BY TeamSyncAssumption DEF CarriedInv, SyncInv, TypeOK, VersionInv
<1> QED BY <1>1, <1>2, <1>3, <1>4, <1>5

(* CommandInv survives refusing to merge it.                               *)
LEMMA PullRefusedStep ==
  ASSUME OneCommandEach, CommandInv, NEW m \in Command, PullRefused(m) PROVE CommandInv'
<1> USE DEF PullRefused, Goto, End, local, CommandInv
<1>1. SyncInv'
  BY PullRefusedSync
<1>2. NewestInv'
  BY TeamSyncAssumption DEF NewestInv, OneCommandEach, Pushing, SyncInv, TypeOK, VersionInv
<1>3. LoadedInv'
  BY TeamSyncAssumption DEF LoadedInv, OneCommandEach, Pushing, Differs, Public, SyncInv, TypeOK
<1>4. BaseInv'
  BY TeamSyncAssumption DEF BaseInv, Differs, Public, SyncInv, TypeOK, VersionInv
<1>5. CarriedInv'
  BY TeamSyncAssumption DEF CarriedInv, SyncInv, TypeOK, VersionInv
<1> QED BY <1>1, <1>2, <1>3, <1>4, <1>5

(* CommandInv survives loading the store.                                  *)
LEMMA PushLoadStep ==
  ASSUME OneCommandEach, CommandInv, NEW m \in Command, PushLoad(m) PROVE CommandInv'
<1> USE DEF PushLoad, Goto, End, local, CommandInv
<1>1. SyncInv'
  BY PushLoadSync
<1>2. NewestInv'
  BY TeamSyncAssumption DEF NewestInv, OneCommandEach, Pushing, SyncInv, TypeOK, VersionInv
<1>3. LoadedInv'
  BY TeamSyncAssumption DEF LoadedInv, OneCommandEach, Pushing, Differs, Public, SyncInv, TypeOK
<1>4. BaseInv'
  BY TeamSyncAssumption DEF BaseInv, Differs, Public, SyncInv, TypeOK, VersionInv
<1>5. CarriedInv'
  <2> DEFINE d == ClientOf[m]
  <2>1. SUFFICES ASSUME NEW o \in Command, pc'[o] \in {"lock", "check", "write"},
                        expected'[o] = record.version, NEW n \in Name,
                        record.rows[n] # Absent, rows'[o][n] # record.rows[n]
                 PROVE  n \in carried'[o]
    BY DEF CarriedInv
  <2>2. CASE o # m
    BY <2>1, <2>2 DEF CarriedInv, SyncInv, TypeOK
  <2>3. CASE o = m
    <3>1. known[d] = record.version /\ rows'[o] = Public(store[d])
      BY <2>1, <2>3 DEF SyncInv, TypeOK
    <3>2. n \in edited[d]
      BY <2>1, <3>1, TeamSyncAssumption DEF BaseInv, Differs
    <3> QED BY <2>3, <3>2 DEF SyncInv, TypeOK
  <2> QED BY <2>2, <2>3
<1> QED BY <1>1, <1>2, <1>3, <1>4, <1>5

(* CommandInv survives taking the record's lock.                           *)
LEMMA PushLockStep ==
  ASSUME OneCommandEach, CommandInv, NEW m \in Command, PushLock(m) PROVE CommandInv'
<1> USE DEF PushLock, Goto, End, local, CommandInv
<1>1. SyncInv'
  BY PushLockSync
<1>2. NewestInv'
  BY TeamSyncAssumption DEF NewestInv, OneCommandEach, Pushing, SyncInv, TypeOK, VersionInv
<1>3. LoadedInv'
  BY TeamSyncAssumption DEF LoadedInv, OneCommandEach, Pushing, Differs, Public, SyncInv, TypeOK
<1>4. BaseInv'
  BY TeamSyncAssumption DEF BaseInv, Differs, Public, SyncInv, TypeOK, VersionInv
<1>5. CarriedInv'
  BY TeamSyncAssumption DEF CarriedInv, SyncInv, TypeOK, VersionInv
<1> QED BY <1>1, <1>2, <1>3, <1>4, <1>5

(* CommandInv survives finding it busy.                                    *)
LEMMA PushBusyStep ==
  ASSUME OneCommandEach, CommandInv, NEW m \in Command, PushBusy(m) PROVE CommandInv'
<1> USE DEF PushBusy, Goto, End, local, CommandInv
<1>1. SyncInv'
  BY PushBusySync
<1>2. NewestInv'
  BY TeamSyncAssumption DEF NewestInv, OneCommandEach, Pushing, SyncInv, TypeOK, VersionInv
<1>3. LoadedInv'
  BY TeamSyncAssumption DEF LoadedInv, OneCommandEach, Pushing, Differs, Public, SyncInv, TypeOK
<1>4. BaseInv'
  BY TeamSyncAssumption DEF BaseInv, Differs, Public, SyncInv, TypeOK, VersionInv
<1>5. CarriedInv'
  BY TeamSyncAssumption DEF CarriedInv, SyncInv, TypeOK, VersionInv
<1> QED BY <1>1, <1>2, <1>3, <1>4, <1>5

(* CommandInv survives a version that matches.                             *)
LEMMA PushCheckStep ==
  ASSUME OneCommandEach, CommandInv, NEW m \in Command, PushCheck(m) PROVE CommandInv'
<1> USE DEF PushCheck, Goto, End, local, CommandInv
<1>1. SyncInv'
  BY PushCheckSync
<1>2. NewestInv'
  BY TeamSyncAssumption DEF NewestInv, OneCommandEach, Pushing, SyncInv, TypeOK, VersionInv
<1>3. LoadedInv'
  BY TeamSyncAssumption DEF LoadedInv, OneCommandEach, Pushing, Differs, Public, SyncInv, TypeOK
<1>4. BaseInv'
  BY TeamSyncAssumption DEF BaseInv, Differs, Public, SyncInv, TypeOK, VersionInv
<1>5. CarriedInv'
  BY TeamSyncAssumption DEF CarriedInv, SyncInv, TypeOK, VersionInv
<1> QED BY <1>1, <1>2, <1>3, <1>4, <1>5

(* CommandInv survives a version that does not.                            *)
LEMMA PushConflictStep ==
  ASSUME OneCommandEach, CommandInv, NEW m \in Command, PushConflict(m) PROVE CommandInv'
<1> USE DEF PushConflict, Goto, End, local, CommandInv
<1>1. SyncInv'
  BY PushConflictSync
<1>2. NewestInv'
  BY TeamSyncAssumption DEF NewestInv, OneCommandEach, Pushing, SyncInv, TypeOK, VersionInv
<1>3. LoadedInv'
  BY TeamSyncAssumption DEF LoadedInv, OneCommandEach, Pushing, Differs, Public, SyncInv, TypeOK
<1>4. BaseInv'
  BY TeamSyncAssumption DEF BaseInv, Differs, Public, SyncInv, TypeOK, VersionInv
<1>5. CarriedInv'
  BY TeamSyncAssumption DEF CarriedInv, SyncInv, TypeOK, VersionInv
<1> QED BY <1>1, <1>2, <1>3, <1>4, <1>5

(* CommandInv survives publishing.                                         *)
LEMMA PushWriteStep ==
  ASSUME OneCommandEach, CommandInv, NEW m \in Command, PushWrite(m) PROVE CommandInv'
<1> USE DEF PushWrite, Goto, End, local, CommandInv
<1>1. SyncInv'
  BY PushWriteSync
<1>2. NewestInv'
  BY TeamSyncAssumption DEF NewestInv, OneCommandEach, Pushing, SyncInv, TypeOK, VersionInv
<1>3. LoadedInv'
  BY TeamSyncAssumption DEF LoadedInv, OneCommandEach, Pushing, Differs, Public, SyncInv, TypeOK
<1>4. BaseInv'
  BY TeamSyncAssumption DEF BaseInv, Differs, Public, SyncInv, TypeOK, VersionInv
<1>5. CarriedInv'
  BY TeamSyncAssumption DEF CarriedInv, SyncInv, TypeOK, VersionInv
<1> QED BY <1>1, <1>2, <1>3, <1>4, <1>5

(* CommandInv survives a failed write.                                     *)
LEMMA PushFailsStep ==
  ASSUME OneCommandEach, CommandInv, NEW m \in Command, PushFails(m) PROVE CommandInv'
<1> USE DEF PushFails, Goto, End, local, CommandInv
<1>1. SyncInv'
  BY PushFailsSync
<1>2. NewestInv'
  BY TeamSyncAssumption DEF NewestInv, OneCommandEach, Pushing, SyncInv, TypeOK, VersionInv
<1>3. LoadedInv'
  BY TeamSyncAssumption DEF LoadedInv, OneCommandEach, Pushing, Differs, Public, SyncInv, TypeOK
<1>4. BaseInv'
  BY TeamSyncAssumption DEF BaseInv, Differs, Public, SyncInv, TypeOK, VersionInv
<1>5. CarriedInv'
  BY TeamSyncAssumption DEF CarriedInv, SyncInv, TypeOK, VersionInv
<1> QED BY <1>1, <1>2, <1>3, <1>4, <1>5

(* CommandInv survives the end of a push.                                  *)
LEMMA PushDoneStep ==
  ASSUME OneCommandEach, CommandInv, NEW m \in Command, PushDone(m) PROVE CommandInv'
<1> USE DEF PushDone, Goto, End, local, CommandInv
<1>1. SyncInv'
  BY PushDoneSync
<1>2. NewestInv'
  BY TeamSyncAssumption DEF NewestInv, OneCommandEach, Pushing, SyncInv, TypeOK, VersionInv
<1>3. LoadedInv'
  BY TeamSyncAssumption DEF LoadedInv, OneCommandEach, Pushing, Differs, Public, SyncInv, TypeOK
<1>4. BaseInv'
  <2> DEFINE d == ClientOf[m]
  <2>1. SUFFICES ASSUME NEW c \in Client, known'[c] = record.version, NEW n \in Name,
                        record.rows[n] # Absent, Differs(record.rows, store[c], n)
                 PROVE  n \in edited[c]
    BY DEF BaseInv
  <2>2. CASE c # d
    BY <2>1, <2>2 DEF BaseInv, SyncInv, TypeOK
  <2>3. CASE c = d
    <3>1. rows[m] = record.rows
      BY DEF SyncInv, VersionInv
    <3>2. Differs(rows[m], store[c], n)
      BY <2>1, <3>1 DEF Differs
    <3> QED BY <2>3, <3>2 DEF LoadedInv, Pushing
  <2> QED BY <2>2, <2>3
<1>5. CarriedInv'
  BY TeamSyncAssumption DEF CarriedInv, SyncInv, TypeOK, VersionInv
<1> QED BY <1>1, <1>2, <1>3, <1>4, <1>5

(* CommandInv survives losing a command.                                   *)
LEMMA CrashStep ==
  ASSUME OneCommandEach, CommandInv, NEW m \in Command, Crash(m) PROVE CommandInv'
<1> USE DEF Crash, Goto, End, local, CommandInv
<1>1. SyncInv'
  BY CrashSync
<1>2. NewestInv'
  BY TeamSyncAssumption DEF NewestInv, OneCommandEach, Pushing, SyncInv, TypeOK, VersionInv
<1>3. LoadedInv'
  BY TeamSyncAssumption DEF LoadedInv, OneCommandEach, Pushing, Differs, Public, SyncInv, TypeOK
<1>4. BaseInv'
  BY TeamSyncAssumption DEF BaseInv, Differs, Public, SyncInv, TypeOK, VersionInv
<1>5. CarriedInv'
  BY TeamSyncAssumption DEF CarriedInv, SyncInv, TypeOK, VersionInv
<1> QED BY <1>1, <1>2, <1>3, <1>4, <1>5

-------------------------------------------------------------------------------
LEMMA InitCommandInv == Init => CommandInv
<1> SUFFICES ASSUME Init PROVE CommandInv
  OBVIOUS
<1> USE DEF Init
<1>1. TypeOK
  BY NothingType, TeamSyncAssumption DEF TypeOK, Nothing
<1>2. HolderInv /\ VersionInv /\ SnapshotInv
  BY TeamSyncAssumption DEF HolderInv, VersionInv, SnapshotInv
<1>3. SharedInv
  BY NothingType DEF SharedInv
<1>4. NewestInv /\ LoadedInv /\ CarriedInv
  BY TeamSyncAssumption DEF NewestInv, LoadedInv, CarriedInv, Pushing
<1>5. BaseInv
  BY DEF BaseInv, Nothing
<1> QED BY <1>1, <1>2, <1>3, <1>4, <1>5 DEF CommandInv, SyncInv

LEMMA StutterSyncInv == SyncInv /\ UNCHANGED vars => SyncInv'
BY DEF vars, SyncInv, TypeOK, HolderInv, VersionInv, SnapshotInv, SharedInv, Shareable

LEMMA StutterCommandInv == CommandInv /\ UNCHANGED vars => CommandInv'
BY StutterSyncInv DEF vars, CommandInv, NewestInv, LoadedInv, BaseInv, CarriedInv, Differs,
   Public

LEMMA NextSyncInv == SyncInv /\ [Next]_vars => SyncInv'
<1> SUFFICES ASSUME SyncInv, [Next]_vars PROVE SyncInv'
  OBVIOUS
<1>1. ASSUME NEW c \in Client, SetGroupDefaults(c) \/ \E n \in Name : Edit(c, n)
      PROVE  SyncInv'
  BY <1>1, SetGroupDefaultsSync, EditSync
<1>2. ASSUME NEW m \in Command, PullRead(m) \/ PullMerge(m) \/ PullRefused(m)
      PROVE  SyncInv'
  BY <1>2, PullReadSync, PullMergeSync, PullRefusedSync
<1>3. ASSUME NEW m \in Command,
             PushLoad(m) \/ PushLock(m) \/ PushBusy(m) \/ PushCheck(m) \/ PushConflict(m)
      PROVE  SyncInv'
  BY <1>3, PushLoadSync, PushLockSync, PushBusySync, PushCheckSync, PushConflictSync
<1>4. ASSUME NEW m \in Command, PushWrite(m) \/ PushFails(m) \/ PushDone(m) \/ Crash(m)
      PROVE  SyncInv'
  BY <1>4, PushWriteSync, PushFailsSync, PushDoneSync, CrashSync
<1>5. CASE UNCHANGED vars
  BY <1>5, StutterSyncInv
<1> QED BY <1>1, <1>2, <1>3, <1>4, <1>5 DEF Next

LEMMA NextCommandInv == OneCommandEach /\ CommandInv /\ [Next]_vars => CommandInv'
<1> SUFFICES ASSUME OneCommandEach, CommandInv, [Next]_vars PROVE CommandInv'
  OBVIOUS
<1>1. ASSUME NEW c \in Client, SetGroupDefaults(c) \/ \E n \in Name : Edit(c, n)
      PROVE  CommandInv'
  BY <1>1, SetGroupDefaultsStep, EditStep
<1>2. ASSUME NEW m \in Command, PullRead(m) \/ PullMerge(m) \/ PullRefused(m)
      PROVE  CommandInv'
  BY <1>2, PullReadStep, PullMergeStep, PullRefusedStep
<1>3. ASSUME NEW m \in Command,
             PushLoad(m) \/ PushLock(m) \/ PushBusy(m) \/ PushCheck(m) \/ PushConflict(m)
      PROVE  CommandInv'
  BY <1>3, PushLoadStep, PushLockStep, PushBusyStep, PushCheckStep, PushConflictStep
<1>4. ASSUME NEW m \in Command, PushWrite(m) \/ PushFails(m) \/ PushDone(m) \/ Crash(m)
      PROVE  CommandInv'
  BY <1>4, PushWriteStep, PushFailsStep, PushDoneStep, CrashStep
<1>5. CASE UNCHANGED vars
  BY <1>5, StutterCommandInv
<1> QED BY <1>1, <1>2, <1>3, <1>4, <1>5 DEF Next

THEOREM SyncInvariant == Spec => []SyncInv
<1>1. Init => SyncInv
  BY InitCommandInv DEF CommandInv
<1> QED BY <1>1, NextSyncInv, PTL DEF Spec

THEOREM CommandInvariant ==
  ASSUME OneCommandEach PROVE Spec => []CommandInv
<1>1. CommandInv /\ [Next]_vars => CommandInv'
  BY NextCommandInv
<1> QED BY <1>1, InitCommandInv, PTL DEF Spec

(* TypeOK, for any bounds.                                                 *)
THEOREM TypeCorrect == Spec => []TypeOK
<1>1. SyncInv => TypeOK
  BY DEF SyncInv
<1> QED BY <1>1, SyncInvariant, PTL

(* Only a write changes the record, and it writes the next version.        *)
LEMMA RecordStep ==
  ASSUME [Next]_vars, record' # record
  PROVE  \E m \in Command : PushWrite(m)
BY DEF Next, vars, local, Edit, SetGroupDefaults, PullRead, PullMerge, PullRefused,
   PushLoad, PushLock, PushBusy, PushCheck, PushConflict, PushFails, PushDone, Crash

(* EachVersionOnce: however many commands push at a time, no version is    *)
(* published twice and none is left out.                                   *)
THEOREM VersionsOnce == Spec => EachVersionOnce
<1>1. ASSUME SyncInv, [Next]_vars, record' # record
      PROVE  record'.version = record.version + 1
  <2>1. PICK m \in Command : PushWrite(m)
    BY <1>1, RecordStep
  <2> QED BY <1>1, <2>1 DEF PushWrite, SyncInv, VersionInv
<1>2. SyncInv /\ [Next]_vars =>
        [record' # record => record'.version = record.version + 1]_record
  BY <1>1
<1> QED BY <1>2, SyncInvariant, TypeCorrect, PTL DEF Spec, EachVersionOnce

(* NoLostPublication: while each workstation runs one command at a time, a *)
(* push that is accepted changes no published row that its user did not    *)
(* change.                                                                 *)
THEOREM NothingLost ==
  ASSUME OneCommandEach PROVE Spec => NoLostPublication
<1> DEFINE A == \A n \in Name :
                  record'.rows[n] # record.rows[n] /\ record.rows[n] # Absent =>
                    \E m \in Command :
                      /\ pc[m] = "write" /\ pc'[m] = "written"
                      /\ n \in carried[m]
<1>1. ASSUME CommandInv, [Next]_vars PROVE [A]_record
  <2>1. SUFFICES ASSUME record' # record PROVE A
    OBVIOUS
  <2>2. PICK m \in Command : PushWrite(m)
    BY <1>1, <2>1, RecordStep
  <2>3. /\ pc[m] = "write" /\ pc'[m] = "written"
        /\ record'.rows = rows[m] /\ expected[m] = record.version
    BY <1>1, <2>2 DEF PushWrite, Goto, CommandInv, SyncInv, TypeOK, VersionInv
  <2>4. \A n \in Name : record.rows[n] # Absent /\ rows[m][n] # record.rows[n] =>
          n \in carried[m]
    BY <1>1, <2>3 DEF CommandInv, CarriedInv
  <2> QED BY <2>3, <2>4
<1>2. CommandInv /\ [Next]_vars => [A]_record
  BY <1>1
<1> QED BY <1>2, CommandInvariant, PTL DEF Spec, NoLostPublication

(* PullNeverRebinds: a credential or forward, of the row or of its group,  *)
(* never reaches an endpoint that a pull brings.                           *)
THEOREM NeverRebound == Spec => PullNeverRebinds
<1> DEFINE A(c, n) == edits' = edits /\ Armed(store'[c], defaults'[c], n) =>
                        /\ Armed(store[c], defaults[c], n)
                        /\ store'[c][n].pub = store[c][n].pub
<1>1. ASSUME TypeOK, [Next]_vars, NEW c \in Client, NEW n \in Name PROVE A(c, n)
  <2>1. CASE UNCHANGED <<store, defaults>>
    BY <2>1 DEF Armed
  <2>2. CASE edits' # edits
    BY <2>2
  <2>3. ASSUME NEW m \in Command, PullMerge(m) PROVE A(c, n)
    <3> DEFINE d == ClientOf[m]
    <3>1. PICK replace \in BOOLEAN :
            store' = [store EXCEPT ![d] = MergeInto(d, rows[m], replace)]
      BY <2>3, TeamSyncAssumption DEF PullMerge
    <3>2. defaults' = defaults /\ Safe(d, rows[m])
      BY <2>3 DEF PullMerge
    <3>3. CASE c # d
      BY <1>1, <3>1, <3>2, <3>3 DEF Armed, TypeOK
    <3>4. CASE c = d
      <4>1. store'[c] = MergeInto(c, rows[m], replace)
        BY <1>1, <3>1, <3>4 DEF TypeOK
      <4>2. CASE n \in Named(rows[m])
        <5>1. store'[c][n] = Received(c, n, rows[m])
          BY <4>1, <4>2 DEF MergeInto
        <5>2. store'[c][n].pub = rows[m][n]
              /\ store'[c][n].cred = (SameBinding(c, n, rows[m]) /\ store[c][n].cred)
          BY <5>1 DEF Received
        <5>3. defaults[c] => SameBinding(c, n, rows[m])
          BY <3>2, <3>4, <4>2 DEF Safe
        <5> QED BY <3>2, <5>2, <5>3 DEF Armed, SameBinding
      <4>3. CASE n \notin Named(rows[m])
        <5>1. store'[c][n] = Absent \/ store'[c][n] = store[c][n]
          BY <4>1, <4>3 DEF MergeInto
        <5> QED BY <3>2, <5>1 DEF Armed
      <4> QED BY <4>2, <4>3
    <3> QED BY <3>3, <3>4
  <2>4. \/ UNCHANGED <<store, defaults>>
        \/ edits' # edits
        \/ \E m \in Command : PullMerge(m)
    BY <1>1 DEF Next, vars, local, TypeOK, Edit, SetGroupDefaults, PullRead, PullRefused,
       PushLoad, PushLock, PushBusy, PushCheck, PushConflict, PushWrite, PushFails,
       PushDone, Crash
  <2> QED BY <2>1, <2>2, <2>3, <2>4
<1>2. TypeOK /\ [Next]_vars => [\A c \in Client, n \in Name : A(c, n)]_vars
  BY <1>1
<1> QED BY <1>2, TypeCorrect, PTL DEF Spec, PullNeverRebinds
===============================================================================
