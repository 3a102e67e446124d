---------------------------- MODULE StateLockProofs ----------------------------
(***************************************************************************)
(* Proofs about StateLock, for any number of threads, processes, files and *)
(* descriptors and any nesting depth: LockInv is inductive, one lemma per  *)
(* action, and the safety properties and the refinement follow from it.    *)
(***************************************************************************)
EXTENDS StateLock, TLAPS

(* LockInv survives re-entering a file that the thread holds.              *)
LEMMA ReenterStep ==
  ASSUME NEW t \in Thread, LockInv, Reenter(t)
  PROVE  LockInv'
<1> USE StateLockAssumption DEF Running, Goto
<1>i. /\ TypeOK /\ CallInv /\ RLockInv /\ RLockOwnerInv /\ DescriptorInv
      /\ RegistryInv /\ OpenForCallInv /\ LockFileInv /\ BodyHoldsOsLock
  BY DEF LockInv
<1>1. TypeOK'
  BY <1>i, SMTT(30) DEF TypeOK, PC, Acquiring, Releasing, CallInv, RLockInv,
        HasRLock, RLockOwnerInv, DescriptorInv, DescriptorOpen, Reenter,
        TakeRLock, RLockOwner
<1>2. CallInv'
  BY <1>i DEF TypeOK, CallInv, Reenter, TakeRLock, RLockOwner
<1>3. RLockInv'
  BY <1>i DEF TypeOK, RLockInv, HasRLock, Reenter, TakeRLock, RLockOwner
<1>4. RLockOwnerInv'
  BY <1>i DEF TypeOK, RLockOwnerInv, Reenter, TakeRLock, RLockOwner
<1>5. DescriptorInv'
  BY <1>i DEF TypeOK, DescriptorInv, DescriptorOpen, Reenter, TakeRLock,
        RLockOwner
<1>6. RegistryInv'
  BY <1>i DEF RegistryInv, Reenter, TakeRLock, RLockOwner
<1>7. OpenForCallInv'
  BY <1>i DEF OpenForCallInv, Threads, Reenter, TakeRLock, RLockOwner
<1>8. LockFileInv'
  BY <1>i DEF LockFileInv, Reenter, TakeRLock, RLockOwner
<1>9. BodyHoldsOsLock'
  BY <1>i DEF BodyHoldsOsLock, InBody, Reenter, TakeRLock, RLockOwner
<1> QED BY <1>1, <1>2, <1>3, <1>4, <1>5, <1>6, <1>7, <1>8, <1>9 DEF LockInv

(* LockInv survives taking the in-process lock.                            *)
LEMMA AcquireThreadLockStep ==
  ASSUME NEW t \in Thread, LockInv, AcquireThreadLock(t)
  PROVE  LockInv'
<1> USE StateLockAssumption DEF Running, Goto
<1>i. /\ TypeOK /\ CallInv /\ RLockInv /\ RLockOwnerInv /\ DescriptorInv
      /\ RegistryInv /\ OpenForCallInv /\ LockFileInv /\ BodyHoldsOsLock
  BY DEF LockInv
<1>j. /\ target[t] \in Key /\ ProcessOf[t] \in Process
      /\ owner[ProcessOf[t]][target[t]] = NoThread
      /\ count[ProcessOf[t]][target[t]] = 0
  BY <1>i DEF TypeOK, PC, Acquiring, Releasing, CallInv, RLockInv, HasRLock, RLockOwnerInv, AcquireThreadLock, TakeRLock, RLockOwner
<1>1. TypeOK'
  BY <1>i, <1>j DEF TypeOK, PC, Acquiring, Releasing, AcquireThreadLock,
        TakeRLock, RLockOwner
<1>2. CallInv'
  BY <1>i DEF CallInv, AcquireThreadLock, TakeRLock, RLockOwner
<1>3. RLockInv'
  BY <1>i, <1>j DEF TypeOK, RLockInv, HasRLock, AcquireThreadLock,
        TakeRLock, RLockOwner
<1>4. RLockOwnerInv'
  BY <1>i, <1>j DEF TypeOK, RLockOwnerInv, AcquireThreadLock, TakeRLock,
        RLockOwner
<1>5. DescriptorInv'
  BY <1>i DEF DescriptorInv, DescriptorOpen, AcquireThreadLock, TakeRLock,
        RLockOwner
<1>6. RegistryInv'
  BY <1>i DEF RegistryInv, AcquireThreadLock, TakeRLock, RLockOwner
<1>7. OpenForCallInv'
  BY <1>i DEF OpenForCallInv, Threads, AcquireThreadLock, TakeRLock,
        RLockOwner
<1>8. LockFileInv'
  BY <1>i DEF LockFileInv, AcquireThreadLock, TakeRLock, RLockOwner
<1>9. BodyHoldsOsLock'
  BY <1>i DEF BodyHoldsOsLock, InBody, AcquireThreadLock, TakeRLock,
        RLockOwner
<1> QED BY <1>1, <1>2, <1>3, <1>4, <1>5, <1>6, <1>7, <1>8, <1>9 DEF LockInv

(* LockInv survives giving up on the in-process lock.                      *)
LEMMA ThreadLockTimeoutStep ==
  ASSUME NEW t \in Thread, LockInv, ThreadLockTimeout(t)
  PROVE  LockInv'
<1> USE StateLockAssumption DEF Running, Goto
<1>i. /\ TypeOK /\ CallInv /\ RLockInv /\ RLockOwnerInv /\ DescriptorInv
      /\ RegistryInv /\ OpenForCallInv /\ LockFileInv /\ BodyHoldsOsLock
  BY DEF LockInv
<1>1. TypeOK'
  BY <1>i DEF TypeOK, PC, Acquiring, Releasing, ThreadLockTimeout,
        RLockOwner
<1>2. CallInv'
  BY <1>i DEF TypeOK, CallInv, ThreadLockTimeout, RLockOwner
<1>3. RLockInv'
  BY <1>i DEF RLockInv, HasRLock, ThreadLockTimeout, RLockOwner
<1>4. RLockOwnerInv'
  BY <1>i DEF RLockOwnerInv, ThreadLockTimeout, RLockOwner
<1>5. DescriptorInv'
  BY <1>i DEF DescriptorInv, DescriptorOpen, ThreadLockTimeout, RLockOwner
<1>6. RegistryInv'
  BY <1>i DEF RegistryInv, ThreadLockTimeout, RLockOwner
<1>7. OpenForCallInv'
  BY <1>i DEF OpenForCallInv, Threads, ThreadLockTimeout, RLockOwner
<1>8. LockFileInv'
  BY <1>i DEF LockFileInv, ThreadLockTimeout, RLockOwner
<1>9. BodyHoldsOsLock'
  BY <1>i DEF BodyHoldsOsLock, InBody, ThreadLockTimeout, RLockOwner
<1> QED BY <1>1, <1>2, <1>3, <1>4, <1>5, <1>6, <1>7, <1>8, <1>9 DEF LockInv

(* LockInv survives opening the lock file under the guard.                 *)
LEMMA OpenLockFileStep ==
  ASSUME NEW t \in Thread, LockInv, OpenLockFile(t)
  PROVE  LockInv'
<1> USE StateLockAssumption DEF Running, Goto
<1>i. /\ TypeOK /\ CallInv /\ RLockInv /\ RLockOwnerInv /\ DescriptorInv
      /\ RegistryInv /\ OpenForCallInv /\ LockFileInv /\ BodyHoldsOsLock
  BY DEF LockInv
<1>p. PICK d \in Desc :
         /\ \A r \in Process : d \notin fd[r]
         /\ fd' = [fd EXCEPT ![ProcessOf[t]] = @ \cup {d}]
         /\ mine' = [mine EXCEPT ![t][target[t]] = d]
  BY DEF OpenLockFile
<1>j. /\ target[t] \in Key /\ ProcessOf[t] \in Process
      /\ mine[t][target[t]] = NoDesc
  <2>1. target[t] \in Key /\ ProcessOf[t] \in Process
    BY <1>i DEF TypeOK, CallInv, OpenLockFile
  <2>2. pc[t] = "open" /\ held[t][target[t]] = 0
    BY <1>i DEF CallInv, OpenLockFile
  <2>3. ~DescriptorOpen(t, target[t])
    BY <2>2 DEF DescriptorOpen
  <2> QED BY <1>i, <2>1, <2>3 DEF DescriptorInv
<1>1. TypeOK'
  BY <1>i DEF TypeOK, CallInv, PC, Acquiring, Releasing, OpenLockFile,
        GuardFree, SetGuard
<1>2. CallInv'
  BY <1>i DEF CallInv, OpenLockFile, GuardFree, SetGuard
<1>3. RLockInv'
  BY <1>i DEF RLockInv, HasRLock, OpenLockFile, GuardFree, SetGuard
<1>4. RLockOwnerInv'
  BY <1>i DEF RLockOwnerInv, OpenLockFile, GuardFree, SetGuard
<1>5. DescriptorInv'
  BY <1>i DEF TypeOK, DescriptorInv, DescriptorOpen, OpenLockFile,
        GuardFree, SetGuard
<1>6. RegistryInv'
  BY <1>i DEF TypeOK, CallInv, RegistryInv, OpenLockFile, GuardFree,
        SetGuard
<1>7. OpenForCallInv'
  <2> SUFFICES ASSUME NEW r \in Process, status[r] = "running", NEW e \in fd'[r]
               PROVE  \E u \in Threads(r), k \in Key : mine'[u][k] = e
    BY DEF OpenForCallInv, OpenLockFile, Threads
  <2>1. CASE e \in fd[r]
    <3>1. PICK u \in Threads(r), k \in Key : mine[u][k] = e
      BY <1>i, <2>1 DEF OpenForCallInv
    <3>2. e # NoDesc
      BY <1>i, <2>1 DEF TypeOK
    <3>3. mine'[u][k] = e
      BY <1>i, <1>j, <1>p, <3>1, <3>2 DEF TypeOK, Threads
    <3> QED BY <3>1, <3>3
  <2>2. CASE e \notin fd[r]
    <3>1. r = ProcessOf[t] /\ e = d
      BY <1>i, <1>j, <1>p, <2>2 DEF TypeOK
    <3>2. t \in Threads(r) /\ mine'[t][target[t]] = e
      BY <1>i, <1>j, <1>p, <3>1 DEF TypeOK, Threads
    <3> QED BY <1>j, <3>2
  <2> QED BY <2>1, <2>2
<1>8. LockFileInv'
  <2>1. \A k \in Key : lock[k] # d
    <3> SUFFICES ASSUME NEW k \in Key, lock[k] = d PROVE FALSE
      OBVIOUS
    <3>1. lock[k] # NoDesc
      OBVIOUS
    <3> QED BY <1>i, <1>p, <3>1 DEF LockFileInv
  <2>2. \A r \in Process : fd[r] \subseteq fd'[r]
    BY <1>i, <1>p DEF TypeOK
  <2>3. \A u \in Thread, k \in Key :
          mine'[u][k] = IF u = t /\ k = target[t] THEN d ELSE mine[u][k]
    BY <1>i, <1>j, <1>p DEF TypeOK
  <2>4. \A u \in Thread : u # t => pc'[u] = pc[u]
    BY <1>i DEF TypeOK, OpenLockFile
  <2>5. lock' = lock /\ target' = target
    BY DEF OpenLockFile
  <2>6. \A u \in Thread : pc[u] \in {"register", "poll", "abort", "close"} =>
          target[u] \in Key
    BY <1>i DEF TypeOK, CallInv
  <2> QED BY <1>i, <1>j, <2>1, <2>2, <2>3, <2>4, <2>5, <2>6 DEF LockFileInv
<1>9. BodyHoldsOsLock'
  BY <1>i DEF TypeOK, CallInv, BodyHoldsOsLock, InBody, OpenLockFile,
        GuardFree, SetGuard
<1> QED BY <1>1, <1>2, <1>3, <1>4, <1>5, <1>6, <1>7, <1>8, <1>9 DEF LockInv

(* LockInv survives failing to open it.                                    *)
LEMMA OpenFailsStep ==
  ASSUME NEW t \in Thread, LockInv, OpenFails(t)
  PROVE  LockInv'
<1> USE StateLockAssumption DEF Running, Goto
<1>i. /\ TypeOK /\ CallInv /\ RLockInv /\ RLockOwnerInv /\ DescriptorInv
      /\ RegistryInv /\ OpenForCallInv /\ LockFileInv /\ BodyHoldsOsLock
  BY DEF LockInv
<1>1. TypeOK'
  BY <1>i DEF TypeOK, PC, Acquiring, Releasing, OpenFails, GuardFree
<1>2. CallInv'
  BY <1>i DEF CallInv, OpenFails, GuardFree
<1>3. RLockInv'
  BY <1>i DEF RLockInv, HasRLock, OpenFails, GuardFree
<1>4. RLockOwnerInv'
  BY <1>i DEF RLockOwnerInv, OpenFails, GuardFree
<1>5. DescriptorInv'
  BY <1>i DEF TypeOK, CallInv, DescriptorInv, DescriptorOpen, OpenFails,
        GuardFree
<1>6. RegistryInv'
  BY <1>i DEF RegistryInv, OpenFails, GuardFree
<1>7. OpenForCallInv'
  BY <1>i DEF OpenForCallInv, Threads, OpenFails, GuardFree
<1>8. LockFileInv'
  BY <1>i DEF LockFileInv, OpenFails, GuardFree
<1>9. BodyHoldsOsLock'
  BY <1>i DEF BodyHoldsOsLock, InBody, OpenFails, GuardFree
<1> QED BY <1>1, <1>2, <1>3, <1>4, <1>5, <1>6, <1>7, <1>8, <1>9 DEF LockInv

(* LockInv survives registering the descriptor.                            *)
LEMMA RegisterDescriptorStep ==
  ASSUME NEW t \in Thread, LockInv, RegisterDescriptor(t)
  PROVE  LockInv'
<1> USE StateLockAssumption DEF Running, Goto
<1>i. /\ TypeOK /\ CallInv /\ RLockInv /\ RLockOwnerInv /\ DescriptorInv
      /\ RegistryInv /\ OpenForCallInv /\ LockFileInv /\ BodyHoldsOsLock
  BY DEF LockInv
<1>1. TypeOK'
  BY <1>i, SMTT(30) DEF TypeOK, PC, Acquiring, Releasing, CallInv, RLockInv,
        HasRLock, RLockOwnerInv, DescriptorInv, DescriptorOpen,
        RegisterDescriptor, SetGuard
<1>2. CallInv'
  BY <1>i DEF CallInv, RegisterDescriptor, SetGuard
<1>3. RLockInv'
  BY <1>i DEF RLockInv, HasRLock, RegisterDescriptor, SetGuard
<1>4. RLockOwnerInv'
  BY <1>i DEF RLockOwnerInv, RegisterDescriptor, SetGuard
<1>5. DescriptorInv'
  BY <1>i DEF DescriptorInv, DescriptorOpen, RegisterDescriptor, SetGuard
<1>6. RegistryInv'
  BY <1>i DEF TypeOK, RegistryInv, RegisterDescriptor, SetGuard
<1>7. OpenForCallInv'
  BY <1>i DEF OpenForCallInv, Threads, RegisterDescriptor, SetGuard
<1>8. LockFileInv'
  BY <1>i DEF LockFileInv, RegisterDescriptor, SetGuard
<1>9. BodyHoldsOsLock'
  BY <1>i DEF BodyHoldsOsLock, InBody, RegisterDescriptor, SetGuard
<1> QED BY <1>1, <1>2, <1>3, <1>4, <1>5, <1>6, <1>7, <1>8, <1>9 DEF LockInv

(* LockInv survives taking the advisory lock.                              *)
LEMMA AcquireOsLockStep ==
  ASSUME NEW t \in Thread, LockInv, AcquireOsLock(t)
  PROVE  LockInv'
<1> USE StateLockAssumption DEF Running, Goto
<1>i. /\ TypeOK /\ CallInv /\ RLockInv /\ RLockOwnerInv /\ DescriptorInv
      /\ RegistryInv /\ OpenForCallInv /\ LockFileInv /\ BodyHoldsOsLock
  BY DEF LockInv
<1>1. TypeOK'
  BY <1>i DEF TypeOK, CallInv, PC, Acquiring, Releasing, AcquireOsLock
<1>2. CallInv'
  BY <1>i DEF TypeOK, CallInv, AcquireOsLock
<1>3. RLockInv'
  BY <1>i DEF TypeOK, CallInv, RLockInv, HasRLock, AcquireOsLock
<1>4. RLockOwnerInv'
  BY <1>i DEF RLockOwnerInv, AcquireOsLock
<1>5. DescriptorInv'
  BY <1>i DEF TypeOK, DescriptorInv, DescriptorOpen, AcquireOsLock
<1>6. RegistryInv'
  BY <1>i DEF RegistryInv, AcquireOsLock
<1>7. OpenForCallInv'
  BY <1>i DEF OpenForCallInv, Threads, AcquireOsLock
<1>8. LockFileInv'
  BY <1>i, SMTT(30) DEF TypeOK, PC, Acquiring, Releasing, CallInv,
        LockFileInv, DescriptorInv, DescriptorOpen, RegistryInv,
        BodyHoldsOsLock, InBody, AcquireOsLock
<1>9. BodyHoldsOsLock'
  BY <1>i, SMTT(30) DEF TypeOK, PC, Acquiring, Releasing, CallInv,
        BodyHoldsOsLock, InBody, DescriptorInv, DescriptorOpen, LockFileInv,
        RLockOwnerInv, AcquireOsLock
<1> QED BY <1>1, <1>2, <1>3, <1>4, <1>5, <1>6, <1>7, <1>8, <1>9 DEF LockInv

(* LockInv survives giving up on the advisory lock.                        *)
LEMMA OsLockTimeoutStep ==
  ASSUME NEW t \in Thread, LockInv, OsLockTimeout(t)
  PROVE  LockInv'
<1> USE StateLockAssumption DEF Running, Goto
<1>i. /\ TypeOK /\ CallInv /\ RLockInv /\ RLockOwnerInv /\ DescriptorInv
      /\ RegistryInv /\ OpenForCallInv /\ LockFileInv /\ BodyHoldsOsLock
  BY DEF LockInv
<1>1. TypeOK'
  BY <1>i DEF TypeOK, PC, Acquiring, Releasing, OsLockTimeout
<1>2. CallInv'
  BY <1>i DEF CallInv, OsLockTimeout
<1>3. RLockInv'
  BY <1>i DEF RLockInv, HasRLock, OsLockTimeout
<1>4. RLockOwnerInv'
  BY <1>i DEF RLockOwnerInv, OsLockTimeout
<1>5. DescriptorInv'
  BY <1>i DEF DescriptorInv, DescriptorOpen, OsLockTimeout
<1>6. RegistryInv'
  BY <1>i DEF RegistryInv, OsLockTimeout
<1>7. OpenForCallInv'
  BY <1>i DEF OpenForCallInv, Threads, OsLockTimeout
<1>8. LockFileInv'
  BY <1>i DEF LockFileInv, OsLockTimeout
<1>9. BodyHoldsOsLock'
  BY <1>i DEF BodyHoldsOsLock, InBody, OsLockTimeout
<1> QED BY <1>1, <1>2, <1>3, <1>4, <1>5, <1>6, <1>7, <1>8, <1>9 DEF LockInv

(* LockInv survives releasing the advisory lock.                           *)
LEMMA ReleaseOsLockStep ==
  ASSUME NEW t \in Thread, LockInv, ReleaseOsLock(t)
  PROVE  LockInv'
<1> USE StateLockAssumption DEF Running, Goto
<1>i. /\ TypeOK /\ CallInv /\ RLockInv /\ RLockOwnerInv /\ DescriptorInv
      /\ RegistryInv /\ OpenForCallInv /\ LockFileInv /\ BodyHoldsOsLock
  BY DEF LockInv
<1>j. /\ target[t] \in Key /\ target[t] # NoKey
      /\ mine[t][target[t]] # NoDesc
      /\ lock[target[t]] = mine[t][target[t]]
  <2>1. target[t] \in Key /\ target[t] # NoKey
    BY <1>i DEF TypeOK, CallInv, ReleaseOsLock
  <2>2. pc[t] = "unlock" /\ held[t][target[t]] = 1 /\ Running(t)
    BY <1>i DEF CallInv, ReleaseOsLock
  <2>3. InBody(t, target[t])
    BY <2>2 DEF InBody
  <2> QED BY <1>i, <2>1, <2>3 DEF BodyHoldsOsLock
<1>1. TypeOK'
  BY <1>i DEF TypeOK, PC, Acquiring, Releasing, ReleaseOsLock, GuardFree,
        SetGuard
<1>2. CallInv'
  BY <1>i DEF CallInv, ReleaseOsLock, GuardFree, SetGuard
<1>3. RLockInv'
  BY <1>i DEF RLockInv, HasRLock, ReleaseOsLock, GuardFree, SetGuard
<1>4. RLockOwnerInv'
  BY <1>i DEF RLockOwnerInv, ReleaseOsLock, GuardFree, SetGuard
<1>5. DescriptorInv'
  BY <1>i DEF TypeOK, CallInv, DescriptorInv, DescriptorOpen, ReleaseOsLock,
        GuardFree, SetGuard
<1>6. RegistryInv'
  BY <1>i DEF TypeOK, RegistryInv, ReleaseOsLock, GuardFree, SetGuard
<1>7. OpenForCallInv'
  BY <1>i DEF OpenForCallInv, Threads, ReleaseOsLock, GuardFree, SetGuard
<1>8. LockFileInv'
  <2>1. \A u \in Thread : pc'[u] \in {"register", "poll", "abort", "close"} =>
          target[u] \in Key /\ mine[u][target[u]] # NoDesc
    <3> SUFFICES ASSUME NEW u \in Thread,
                        pc'[u] \in {"register", "poll", "abort", "close"}
                 PROVE  target[u] \in Key /\ mine[u][target[u]] # NoDesc
      OBVIOUS
    <3>1. CASE u = t
      BY <1>j, <3>1
    <3>2. CASE u # t
      <4>1. pc[u] \in {"register", "poll", "abort", "close"}
        BY <1>i, <3>2 DEF TypeOK, ReleaseOsLock
      <4>2. target[u] \in Key /\ Running(u)
        BY <1>i, <4>1 DEF TypeOK, CallInv
      <4> QED BY <1>i, <4>1, <4>2 DEF DescriptorInv, DescriptorOpen
    <3> QED BY <3>1, <3>2
  <2>2. \A u \in Thread : pc'[u] \in {"register", "poll", "abort", "close"} =>
          u = t \/ pc[u] = pc'[u]
    BY <1>i DEF TypeOK, ReleaseOsLock
  <2>3. /\ target' = target /\ mine' = mine /\ fd' = fd
        /\ \A k \in Key : lock'[k] = IF k = target[t] THEN NoDesc ELSE lock[k]
    BY <1>i, <1>j DEF TypeOK, ReleaseOsLock
  <2> QED BY <1>i, <1>j, <2>1, <2>2, <2>3 DEF LockFileInv
<1>9. BodyHoldsOsLock'
  <2> SUFFICES ASSUME NEW u \in Thread, NEW k \in Key, InBody(u, k)'
               PROVE  mine'[u][k] # NoDesc /\ lock'[k] = mine'[u][k]
    BY DEF BodyHoldsOsLock
  <2>1. InBody(u, k) /\ ~(u = t /\ k = target[t])
    BY <1>i DEF TypeOK, InBody, ReleaseOsLock
  <2>2. mine[u][k] # NoDesc /\ lock[k] = mine[u][k]
    BY <1>i, <2>1 DEF BodyHoldsOsLock
  <2>3. k # target[t]
    BY <1>i, <1>j, <2>1, <2>2 DEF DescriptorInv
  <2> QED BY <1>i, <1>j, <2>2, <2>3 DEF TypeOK, ReleaseOsLock
<1> QED BY <1>1, <1>2, <1>3, <1>4, <1>5, <1>6, <1>7, <1>8, <1>9 DEF LockInv

(* LockInv survives cleaning up a call that never got it.                  *)
LEMMA SkipReleaseStep ==
  ASSUME NEW t \in Thread, LockInv, SkipRelease(t)
  PROVE  LockInv'
<1> USE StateLockAssumption DEF Running, Goto
<1>i. /\ TypeOK /\ CallInv /\ RLockInv /\ RLockOwnerInv /\ DescriptorInv
      /\ RegistryInv /\ OpenForCallInv /\ LockFileInv /\ BodyHoldsOsLock
  BY DEF LockInv
<1>1. TypeOK'
  BY <1>i DEF TypeOK, PC, Acquiring, Releasing, SkipRelease, GuardFree,
        SetGuard
<1>2. CallInv'
  BY <1>i DEF CallInv, SkipRelease, GuardFree, SetGuard
<1>3. RLockInv'
  BY <1>i DEF RLockInv, HasRLock, SkipRelease, GuardFree, SetGuard
<1>4. RLockOwnerInv'
  BY <1>i DEF RLockOwnerInv, SkipRelease, GuardFree, SetGuard
<1>5. DescriptorInv'
  BY <1>i DEF DescriptorInv, DescriptorOpen, SkipRelease, GuardFree,
        SetGuard
<1>6. RegistryInv'
  BY <1>i DEF TypeOK, RegistryInv, SkipRelease, GuardFree, SetGuard
<1>7. OpenForCallInv'
  BY <1>i DEF OpenForCallInv, Threads, SkipRelease, GuardFree, SetGuard
<1>8. LockFileInv'
  BY <1>i DEF LockFileInv, SkipRelease, GuardFree, SetGuard
<1>9. BodyHoldsOsLock'
  BY <1>i DEF BodyHoldsOsLock, InBody, SkipRelease, GuardFree, SetGuard
<1> QED BY <1>1, <1>2, <1>3, <1>4, <1>5, <1>6, <1>7, <1>8, <1>9 DEF LockInv

(* LockInv survives closing the descriptor.                                *)
LEMMA CloseDescriptorStep ==
  ASSUME NEW t \in Thread, LockInv, CloseDescriptor(t)
  PROVE  LockInv'
<1> USE StateLockAssumption DEF Running, Goto
<1>i. /\ TypeOK /\ CallInv /\ RLockInv /\ RLockOwnerInv /\ DescriptorInv
      /\ RegistryInv /\ OpenForCallInv /\ LockFileInv /\ BodyHoldsOsLock
  BY DEF LockInv
<1>1. TypeOK'
  BY <1>i DEF TypeOK, PC, Acquiring, Releasing, CloseDescriptor, SetGuard
<1>2. CallInv'
  BY <1>i DEF CallInv, CloseDescriptor, SetGuard
<1>3. RLockInv'
  BY <1>i DEF RLockInv, HasRLock, CloseDescriptor, SetGuard
<1>4. RLockOwnerInv'
  BY <1>i DEF RLockOwnerInv, CloseDescriptor, SetGuard
<1>5. DescriptorInv'
  BY <1>i DEF TypeOK, CallInv, DescriptorInv, DescriptorOpen,
        CloseDescriptor, SetGuard
<1>6. RegistryInv'
  BY <1>i DEF TypeOK, RegistryInv, CloseDescriptor, SetGuard
<1>7. OpenForCallInv'
  BY <1>i DEF TypeOK, OpenForCallInv, Threads, CloseDescriptor, SetGuard
<1>8. LockFileInv'
  BY <1>i DEF TypeOK, CallInv, LockFileInv, CloseDescriptor, SetGuard
<1>9. BodyHoldsOsLock'
  BY <1>i DEF BodyHoldsOsLock, InBody, CloseDescriptor, SetGuard
<1> QED BY <1>1, <1>2, <1>3, <1>4, <1>5, <1>6, <1>7, <1>8, <1>9 DEF LockInv

(* LockInv survives giving the in-process lock back.                       *)
LEMMA ReleaseThreadLockStep ==
  ASSUME NEW t \in Thread, LockInv, ReleaseThreadLock(t)
  PROVE  LockInv'
<1> USE StateLockAssumption DEF Running, Goto
<1>i. /\ TypeOK /\ CallInv /\ RLockInv /\ RLockOwnerInv /\ DescriptorInv
      /\ RegistryInv /\ OpenForCallInv /\ LockFileInv /\ BodyHoldsOsLock
  BY DEF LockInv
<1>1. TypeOK'
  BY <1>i, SMTT(30) DEF TypeOK, PC, Acquiring, Releasing, CallInv, RLockInv,
        HasRLock, RLockOwnerInv, DescriptorInv, DescriptorOpen,
        ReleaseThreadLock, ReleaseRLock
<1>2. CallInv'
  BY <1>i DEF TypeOK, CallInv, ReleaseThreadLock, ReleaseRLock
<1>3. RLockInv'
  BY <1>i DEF TypeOK, CallInv, RLockInv, HasRLock, ReleaseThreadLock,
        ReleaseRLock
<1>4. RLockOwnerInv'
  BY <1>i, SMTT(30) DEF TypeOK, PC, Acquiring, Releasing, CallInv,
        RLockOwnerInv, RLockInv, HasRLock, ReleaseThreadLock, ReleaseRLock
<1>5. DescriptorInv'
  BY <1>i DEF TypeOK, DescriptorInv, DescriptorOpen, ReleaseThreadLock,
        ReleaseRLock
<1>6. RegistryInv'
  BY <1>i DEF RegistryInv, ReleaseThreadLock, ReleaseRLock
<1>7. OpenForCallInv'
  BY <1>i DEF OpenForCallInv, Threads, ReleaseThreadLock, ReleaseRLock
<1>8. LockFileInv'
  BY <1>i DEF LockFileInv, ReleaseThreadLock, ReleaseRLock
<1>9. BodyHoldsOsLock'
  BY <1>i DEF TypeOK, BodyHoldsOsLock, InBody, ReleaseThreadLock,
        ReleaseRLock
<1> QED BY <1>1, <1>2, <1>3, <1>4, <1>5, <1>6, <1>7, <1>8, <1>9 DEF LockInv

(* LockInv survives entering a call.                                       *)
LEMMA EnterStep ==
  ASSUME NEW t \in Thread, NEW k \in Key, LockInv, Enter(t, k)
  PROVE  LockInv'
<1> USE StateLockAssumption DEF Running, Goto
<1>i. /\ TypeOK /\ CallInv /\ RLockInv /\ RLockOwnerInv /\ DescriptorInv
      /\ RegistryInv /\ OpenForCallInv /\ LockFileInv /\ BodyHoldsOsLock
  BY DEF LockInv
<1>1. TypeOK'
  BY <1>i DEF TypeOK, PC, Acquiring, Releasing, Enter, GuardFree
<1>2. CallInv'
  BY <1>i DEF TypeOK, CallInv, Enter, GuardFree
<1>3. RLockInv'
  BY <1>i DEF RLockInv, HasRLock, Enter, GuardFree
<1>4. RLockOwnerInv'
  BY <1>i DEF RLockOwnerInv, Enter, GuardFree
<1>5. DescriptorInv'
  BY <1>i DEF DescriptorInv, DescriptorOpen, Enter, GuardFree
<1>6. RegistryInv'
  BY <1>i DEF RegistryInv, Enter, GuardFree
<1>7. OpenForCallInv'
  BY <1>i DEF OpenForCallInv, Threads, Enter, GuardFree
<1>8. LockFileInv'
  BY <1>i DEF LockFileInv, Enter, GuardFree
<1>9. BodyHoldsOsLock'
  BY <1>i DEF BodyHoldsOsLock, InBody, Enter, GuardFree
<1> QED BY <1>1, <1>2, <1>3, <1>4, <1>5, <1>6, <1>7, <1>8, <1>9 DEF LockInv

(* LockInv survives leaving a nested body.                                 *)
LEMMA ExitNestedStep ==
  ASSUME NEW t \in Thread, NEW k \in Key, LockInv, ExitNested(t, k)
  PROVE  LockInv'
<1> USE StateLockAssumption DEF Running, Goto
<1>i. /\ TypeOK /\ CallInv /\ RLockInv /\ RLockOwnerInv /\ DescriptorInv
      /\ RegistryInv /\ OpenForCallInv /\ LockFileInv /\ BodyHoldsOsLock
  BY DEF LockInv
<1>1. TypeOK'
  BY <1>i, SMTT(30) DEF TypeOK, PC, Acquiring, Releasing, CallInv, RLockInv,
        HasRLock, RLockOwnerInv, DescriptorInv, DescriptorOpen, ExitNested,
        ReleaseRLock
<1>2. CallInv'
  BY <1>i DEF CallInv, ExitNested, ReleaseRLock
<1>3. RLockInv'
  BY <1>i DEF TypeOK, RLockInv, HasRLock, ExitNested, ReleaseRLock
<1>4. RLockOwnerInv'
  BY <1>i, SMTT(30) DEF TypeOK, PC, Acquiring, Releasing, CallInv,
        RLockOwnerInv, RLockInv, HasRLock, ExitNested, ReleaseRLock
<1>5. DescriptorInv'
  BY <1>i DEF TypeOK, DescriptorInv, DescriptorOpen, ExitNested,
        ReleaseRLock
<1>6. RegistryInv'
  BY <1>i DEF RegistryInv, ExitNested, ReleaseRLock
<1>7. OpenForCallInv'
  BY <1>i DEF OpenForCallInv, Threads, ExitNested, ReleaseRLock
<1>8. LockFileInv'
  BY <1>i DEF LockFileInv, ExitNested, ReleaseRLock
<1>9. BodyHoldsOsLock'
  BY <1>i DEF TypeOK, BodyHoldsOsLock, InBody, ExitNested, ReleaseRLock
<1> QED BY <1>1, <1>2, <1>3, <1>4, <1>5, <1>6, <1>7, <1>8, <1>9 DEF LockInv

(* LockInv survives leaving the outermost body.                            *)
LEMMA ExitStep ==
  ASSUME NEW t \in Thread, NEW k \in Key, LockInv, Exit(t, k)
  PROVE  LockInv'
<1> USE StateLockAssumption DEF Running, Goto
<1>i. /\ TypeOK /\ CallInv /\ RLockInv /\ RLockOwnerInv /\ DescriptorInv
      /\ RegistryInv /\ OpenForCallInv /\ LockFileInv /\ BodyHoldsOsLock
  BY DEF LockInv
<1>1. TypeOK'
  BY <1>i DEF TypeOK, PC, Acquiring, Releasing, Exit
<1>2. CallInv'
  BY <1>i DEF TypeOK, CallInv, Exit
<1>3. RLockInv'
  BY <1>i DEF TypeOK, RLockInv, HasRLock, Exit
<1>4. RLockOwnerInv'
  BY <1>i DEF RLockOwnerInv, Exit
<1>5. DescriptorInv'
  BY <1>i DEF DescriptorInv, DescriptorOpen, Exit
<1>6. RegistryInv'
  BY <1>i DEF RegistryInv, Exit
<1>7. OpenForCallInv'
  BY <1>i DEF OpenForCallInv, Threads, Exit
<1>8. LockFileInv'
  BY <1>i DEF LockFileInv, Exit
<1>9. BodyHoldsOsLock'
  BY <1>i DEF BodyHoldsOsLock, InBody, Exit
<1> QED BY <1>1, <1>2, <1>3, <1>4, <1>5, <1>6, <1>7, <1>8, <1>9 DEF LockInv

(* LockInv survives leaving a body entered before the fork.                *)
LEMMA ExitInheritedStep ==
  ASSUME NEW t \in Thread, NEW k \in Key, LockInv, ExitInherited(t, k)
  PROVE  LockInv'
<1> USE StateLockAssumption DEF Running, Goto
<1>i. /\ TypeOK /\ CallInv /\ RLockInv /\ RLockOwnerInv /\ DescriptorInv
      /\ RegistryInv /\ OpenForCallInv /\ LockFileInv /\ BodyHoldsOsLock
  BY DEF LockInv
<1>1. TypeOK'
  BY <1>i DEF TypeOK, PC, Acquiring, Releasing, ExitInherited
<1>2. CallInv'
  BY <1>i DEF CallInv, ExitInherited
<1>3. RLockInv'
  BY <1>i DEF RLockInv, HasRLock, ExitInherited
<1>4. RLockOwnerInv'
  BY <1>i DEF RLockOwnerInv, ExitInherited
<1>5. DescriptorInv'
  BY <1>i DEF DescriptorInv, DescriptorOpen, ExitInherited
<1>6. RegistryInv'
  BY <1>i DEF RegistryInv, ExitInherited
<1>7. OpenForCallInv'
  BY <1>i DEF OpenForCallInv, Threads, ExitInherited
<1>8. LockFileInv'
  BY <1>i DEF LockFileInv, ExitInherited
<1>9. BodyHoldsOsLock'
  BY <1>i DEF BodyHoldsOsLock, InBody, ExitInherited
<1> QED BY <1>1, <1>2, <1>3, <1>4, <1>5, <1>6, <1>7, <1>8, <1>9 DEF LockInv

(* LockInv survives forking.                                               *)
LEMMA ForkStep ==
  ASSUME NEW t \in Thread, NEW u \in Thread, LockInv, Fork(t, u)
  PROVE  LockInv'
<1> USE StateLockAssumption DEF Running, Goto
<1>i. /\ TypeOK /\ CallInv /\ RLockInv /\ RLockOwnerInv /\ DescriptorInv
      /\ RegistryInv /\ OpenForCallInv /\ LockFileInv /\ BodyHoldsOsLock
  BY DEF LockInv
<1>1. TypeOK'
  BY <1>i DEF TypeOK, PC, Acquiring, Releasing, Fork, GuardFree
<1>2. CallInv'
  BY <1>i DEF CallInv, Fork, GuardFree
<1>3. RLockInv'
  BY <1>i DEF RLockInv, HasRLock, Fork, GuardFree
<1>4. RLockOwnerInv'
  BY <1>i DEF TypeOK, RLockOwnerInv, Fork, GuardFree
<1>5. DescriptorInv'
  BY <1>i DEF DescriptorInv, DescriptorOpen, Fork, GuardFree
<1>6. RegistryInv'
  BY <1>i DEF TypeOK, RegistryInv, Fork, GuardFree
<1>7. OpenForCallInv'
  BY <1>i DEF OpenForCallInv, Threads, Fork, GuardFree
<1>8. LockFileInv'
  BY <1>i, SMTT(30) DEF TypeOK, PC, Acquiring, Releasing, CallInv,
        LockFileInv, DescriptorInv, DescriptorOpen, RegistryInv,
        BodyHoldsOsLock, InBody, Fork, GuardFree
<1>9. BodyHoldsOsLock'
  BY <1>i DEF BodyHoldsOsLock, InBody, Fork, GuardFree
<1> QED BY <1>1, <1>2, <1>3, <1>4, <1>5, <1>6, <1>7, <1>8, <1>9 DEF LockInv

(* LockInv survives starting a process.                                    *)
LEMMA StartStep ==
  ASSUME NEW p \in Process, LockInv, Start(p)
  PROVE  LockInv'
<1> USE StateLockAssumption DEF Running, Goto
<1>i. /\ TypeOK /\ CallInv /\ RLockInv /\ RLockOwnerInv /\ DescriptorInv
      /\ RegistryInv /\ OpenForCallInv /\ LockFileInv /\ BodyHoldsOsLock
  BY DEF LockInv
<1>1. TypeOK'
  BY <1>i DEF TypeOK, PC, Acquiring, Releasing, Start
<1>2. CallInv'
  BY <1>i DEF CallInv, Start
<1>3. RLockInv'
  BY <1>i, SMTT(30) DEF TypeOK, PC, Acquiring, Releasing, CallInv, RLockInv,
        HasRLock, RLockOwnerInv, Start
<1>4. RLockOwnerInv'
  BY <1>i DEF RLockOwnerInv, Start
<1>5. DescriptorInv'
  BY <1>i, SMTT(30) DEF TypeOK, PC, Acquiring, Releasing, CallInv,
        DescriptorInv, DescriptorOpen, RegistryInv, RLockOwnerInv, Start
<1>6. RegistryInv'
  BY <1>i DEF RegistryInv, Start
<1>7. OpenForCallInv'
  BY <1>i, SMTT(30) DEF TypeOK, PC, Acquiring, Releasing, CallInv,
        OpenForCallInv, Threads, DescriptorInv, DescriptorOpen, RegistryInv,
        Start
<1>8. LockFileInv'
  BY <1>i DEF LockFileInv, Start
<1>9. BodyHoldsOsLock'
  BY <1>i, SMTT(30) DEF TypeOK, PC, Acquiring, Releasing, CallInv,
        BodyHoldsOsLock, InBody, DescriptorInv, DescriptorOpen, LockFileInv,
        RLockOwnerInv, Start
<1> QED BY <1>1, <1>2, <1>3, <1>4, <1>5, <1>6, <1>7, <1>8, <1>9 DEF LockInv

(* LockInv survives losing a process.                                      *)
LEMMA CrashStep ==
  ASSUME NEW p \in Process, LockInv, Crash(p)
  PROVE  LockInv'
<1> USE StateLockAssumption DEF Running, Goto
<1>i. /\ TypeOK /\ CallInv /\ RLockInv /\ RLockOwnerInv /\ DescriptorInv
      /\ RegistryInv /\ OpenForCallInv /\ LockFileInv /\ BodyHoldsOsLock
  BY DEF LockInv
<1>1. TypeOK'
  BY <1>i DEF TypeOK, PC, Acquiring, Releasing, Crash, Fresh, Surviving,
        Threads
<1>2. CallInv'
  BY <1>i DEF CallInv, Crash, Fresh, Surviving, Threads
<1>3. RLockInv'
  BY <1>i DEF TypeOK, RLockInv, HasRLock, Crash, Fresh, Surviving, Threads
<1>4. RLockOwnerInv'
  BY <1>i DEF TypeOK, RLockOwnerInv, Crash, Fresh, Surviving, Threads
<1>5. DescriptorInv'
  BY <1>i DEF DescriptorInv, DescriptorOpen, Crash, Fresh, Surviving,
        Threads
<1>6. RegistryInv'
  BY <1>i DEF TypeOK, RegistryInv, Crash, Fresh, Surviving, Threads
<1>7. OpenForCallInv'
  BY <1>i DEF TypeOK, OpenForCallInv, Threads, Crash, Fresh, Surviving
<1>8. LockFileInv'
  BY <1>i, SMTT(30) DEF TypeOK, PC, Acquiring, Releasing, CallInv,
        LockFileInv, DescriptorInv, DescriptorOpen, RegistryInv,
        BodyHoldsOsLock, InBody, Crash, Fresh, Surviving, Threads
<1>9. BodyHoldsOsLock'
  BY <1>i, SMTT(30) DEF TypeOK, PC, Acquiring, Releasing, CallInv,
        BodyHoldsOsLock, InBody, DescriptorInv, DescriptorOpen, LockFileInv,
        RLockOwnerInv, Crash, Fresh, Surviving, Threads
<1> QED BY <1>1, <1>2, <1>3, <1>4, <1>5, <1>6, <1>7, <1>8, <1>9 DEF LockInv

(* LockInv survives the hook in a forked child.                            *)
LEMMA ChildResetStep ==
  ASSUME NEW p \in Process, LockInv, ChildReset(p)
  PROVE  LockInv'
<1> USE StateLockAssumption DEF Running, Goto
<1>i. /\ TypeOK /\ CallInv /\ RLockInv /\ RLockOwnerInv /\ DescriptorInv
      /\ RegistryInv /\ OpenForCallInv /\ LockFileInv /\ BodyHoldsOsLock
  BY DEF LockInv
<1>1. TypeOK'
  BY <1>i DEF TypeOK, PC, Acquiring, Releasing, ChildReset, Fresh,
        Surviving, Threads
<1>2. CallInv'
  BY <1>i DEF CallInv, ChildReset, Fresh, Surviving, Threads
<1>3. RLockInv'
  BY <1>i DEF TypeOK, CallInv, RLockInv, HasRLock, ChildReset, Fresh,
        Surviving, Threads
<1>4. RLockOwnerInv'
  BY <1>i DEF TypeOK, RLockOwnerInv, ChildReset, Fresh, Surviving, Threads
<1>5. DescriptorInv'
  BY <1>i DEF TypeOK, CallInv, DescriptorInv, DescriptorOpen, ChildReset,
        Fresh, Surviving, Threads
<1>6. RegistryInv'
  BY <1>i, SMTT(30) DEF TypeOK, PC, Acquiring, Releasing, CallInv,
        RegistryInv, DescriptorInv, DescriptorOpen, ChildReset, Fresh,
        Surviving, Threads
<1>7. OpenForCallInv'
  BY <1>i, SMTT(30) DEF TypeOK, PC, Acquiring, Releasing, CallInv,
        OpenForCallInv, Threads, DescriptorInv, DescriptorOpen, RegistryInv,
        ChildReset, Fresh, Surviving
<1>8. LockFileInv'
  BY <1>i, SMTT(30) DEF TypeOK, PC, Acquiring, Releasing, CallInv,
        LockFileInv, DescriptorInv, DescriptorOpen, RegistryInv,
        BodyHoldsOsLock, InBody, ChildReset, Fresh, Surviving, Threads
<1>9. BodyHoldsOsLock'
  BY <1>i, SMTT(30) DEF TypeOK, PC, Acquiring, Releasing, CallInv,
        BodyHoldsOsLock, InBody, DescriptorInv, DescriptorOpen, LockFileInv,
        RLockOwnerInv, ChildReset, Fresh, Surviving, Threads
<1> QED BY <1>1, <1>2, <1>3, <1>4, <1>5, <1>6, <1>7, <1>8, <1>9 DEF LockInv

-------------------------------------------------------------------------------
LEMMA InitLockInv == Init => LockInv
<1> USE StateLockAssumption DEF Init, Running
<1>1. Init => TypeOK
  BY DEF TypeOK, PC
<1>2. Init => CallInv /\ RLockInv /\ RLockOwnerInv
  BY DEF CallInv, RLockInv, RLockOwnerInv, HasRLock
<1>3. Init => DescriptorInv /\ RegistryInv /\ OpenForCallInv /\ LockFileInv
  BY DEF DescriptorInv, RegistryInv, OpenForCallInv, LockFileInv
<1>4. Init => BodyHoldsOsLock
  BY DEF BodyHoldsOsLock, InBody
<1> QED BY <1>1, <1>2, <1>3, <1>4 DEF LockInv

LEMMA StutterLockInv == LockInv /\ UNCHANGED vars => LockInv'
BY DEF vars, LockInv, TypeOK, CallInv, RLockInv, RLockOwnerInv, HasRLock,
       DescriptorInv, DescriptorOpen, RegistryInv, OpenForCallInv, LockFileInv,
       BodyHoldsOsLock, InBody, Running, Threads

LEMMA NextLockInv == LockInv /\ [Next]_vars => LockInv'
<1> SUFFICES ASSUME LockInv, [Next]_vars PROVE LockInv'
  OBVIOUS
<1>1. ASSUME NEW t \in Thread, Progress(t) PROVE LockInv'
  BY <1>1, ReenterStep, AcquireThreadLockStep, ThreadLockTimeoutStep,
     OpenLockFileStep, OpenFailsStep, RegisterDescriptorStep,
     AcquireOsLockStep, OsLockTimeoutStep, ReleaseOsLockStep, SkipReleaseStep,
     CloseDescriptorStep, ReleaseThreadLockStep DEF Progress
<1>2. ASSUME NEW t \in Thread, NEW k \in Key,
             Enter(t, k) \/ ExitNested(t, k) \/ Exit(t, k) \/ ExitInherited(t, k)
      PROVE  LockInv'
  BY <1>2, EnterStep, ExitNestedStep, ExitStep, ExitInheritedStep
<1>3. ASSUME NEW t \in Thread, NEW u \in Thread, Fork(t, u) PROVE LockInv'
  BY <1>3, ForkStep
<1>4. ASSUME NEW p \in Process, Start(p) \/ Crash(p) \/ ChildReset(p)
      PROVE  LockInv'
  BY <1>4, StartStep, CrashStep, ChildResetStep
<1>5. CASE UNCHANGED vars
  BY <1>5, StutterLockInv
<1> QED BY <1>1, <1>2, <1>3, <1>4, <1>5 DEF Next

(* The strengthening LockInv of the properties holds in every state of     *)
(* exclusive_file_lock.                                                    *)
THEOREM LockInvariant == Spec => []LockInv
<1> QED BY InitLockInv, NextLockInv, PTL DEF Spec

(* Every variable keeps its type; in particular no RLock is released more  *)
(* often than it was acquired.                                             *)
THEOREM TypeCorrect == Spec => []TypeOK
<1>1. LockInv => TypeOK
  BY DEF LockInv
<1> QED BY <1>1, LockInvariant, PTL

(* Two bodies on one file would need the advisory lock for two different   *)
(* descriptors.                                                            *)
LEMMA LockInvExcludes == LockInv => MutualExclusion
<1> SUFFICES ASSUME LockInv, NEW t \in Thread, NEW u \in Thread, NEW k \in Key,
                    InBody(t, k), InBody(u, k)
             PROVE  t = u
  BY DEF MutualExclusion
<1>1. lock[k] # NoDesc /\ mine[t][k] = lock[k] /\ mine[u][k] = lock[k]
  BY DEF LockInv, BodyHoldsOsLock
<1> QED BY <1>1 DEF LockInv, DescriptorInv

(* No two threads are in bodies on the same file.                          *)
THEOREM Exclusive == Spec => []MutualExclusion
<1> QED BY LockInvExcludes, LockInvariant, PTL

(* A body has the advisory lock from its first to its last step.           *)
THEOREM BodiesHoldTheOsLock == Spec => []BodyHoldsOsLock
<1>1. LockInv => BodyHoldsOsLock
  BY DEF LockInv
<1> QED BY <1>1, LockInvariant, PTL

(* Exclusion: whatever the number of threads, processes and files, and     *)
(* however they fork and crash, who is in a body is there alone and has    *)
(* the advisory lock.                                                      *)
THEOREM ExclusionHolds == Spec => []Exclusion
<1>1. LockInv => Exclusion
  BY LockInvExcludes DEF LockInv, Exclusion
<1> QED BY <1>1, LockInvariant, PTL

(* No process keeps a file locked without a call that will release it.     *)
THEOREM NoOrphans == Spec => []NoOrphanedOsLock
<1>1. LockInv => NoOrphanedOsLock
  <2> SUFFICES ASSUME LockInv, NEW k \in Key, lock[k] # NoDesc
               PROVE  \/ \E t \in Thread : Running(t) /\ mine[t][k] = lock[k]
                      \/ \E p \in Process : status[p] = "forked" /\ lock[k] \in fd[p]
    BY DEF NoOrphanedOsLock
  <2>1. PICK p \in Process : lock[k] \in fd[p]
    BY DEF LockInv, LockFileInv
  <2>2. status[p] = "forked" \/ status[p] = "running"
    BY <2>1 DEF LockInv, TypeOK, RegistryInv
  <2>3. CASE status[p] = "running"
    <3>1. PICK t \in Threads(p), j \in Key : mine[t][j] = lock[k]
      BY <2>1, <2>3 DEF LockInv, OpenForCallInv
    <3>2. t \in Thread /\ Running(t)
      BY <2>3, <3>1 DEF Threads, Running
    <3>3. j = k
      BY <3>1, <3>2 DEF LockInv, LockFileInv
    <3> QED BY <3>1, <3>2, <3>3
  <2> QED BY <2>1, <2>2, <2>3
<1> QED BY <1>1, LockInvariant, PTL

(* Outside a call a thread has the in-process lock of exactly the files    *)
(* whose bodies it is in, counted once for each.                           *)
THEOREM ThreadLocksBalance == Spec => []ThreadLockBalanced
<1>1. LockInv => ThreadLockBalanced
  <2> SUFFICES ASSUME LockInv, NEW t \in Thread, NEW k \in Key,
                      Running(t), pc[t] = "run"
               PROVE  /\ owner[ProcessOf[t]][k] = t <=> held[t][k] > 0
                      /\ held[t][k] > 0 => count[ProcessOf[t]][k] = held[t][k]
    BY DEF ThreadLockBalanced
  <2> QED BY DEF LockInv, RLockInv, HasRLock
<1> QED BY <1>1, LockInvariant, PTL

(* LocksReturn: no call leaves either level of the lock taken.             *)
THEOREM LocksAreReturned == Spec => []LocksReturn
BY NoOrphans, ThreadLocksBalance, PTL DEF LocksReturn

-------------------------------------------------------------------------------
(* Only AcquireOsLock starts a body.                                       *)
LEMMA BodiesEnd ==
  ASSUME LockInv, [Next]_vars,
         \A t \in Thread : ~AcquireOsLock(t),
         NEW u \in Thread, NEW j \in Key, InBody(u, j)'
  PROVE  InBody(u, j)
<1> USE StateLockAssumption DEF InBody, Running, Goto
<1>i. TypeOK /\ CallInv /\ RLockOwnerInv
  BY DEF LockInv
<1>1. ASSUME NEW t \in Thread, Reenter(t) PROVE InBody(u, j)
  BY <1>i, <1>1 DEF Reenter, TypeOK
<1>2. ASSUME NEW t \in Thread,
             \/ AcquireThreadLock(t) \/ ThreadLockTimeout(t) \/ OpenLockFile(t)
             \/ OpenFails(t) \/ RegisterDescriptor(t) \/ OsLockTimeout(t)
      PROVE  InBody(u, j)
  BY <1>i, <1>2 DEF AcquireThreadLock, ThreadLockTimeout, OpenLockFile, OpenFails,
       RegisterDescriptor, OsLockTimeout, TypeOK
<1>3. ASSUME NEW t \in Thread,
             \/ ReleaseOsLock(t) \/ SkipRelease(t) \/ CloseDescriptor(t)
      PROVE  InBody(u, j)
  BY <1>i, <1>3 DEF ReleaseOsLock, SkipRelease, CloseDescriptor, TypeOK
<1>4. ASSUME NEW t \in Thread, ReleaseThreadLock(t) PROVE InBody(u, j)
  BY <1>i, <1>4 DEF ReleaseThreadLock, TypeOK, CallInv
<1>5. ASSUME NEW t \in Thread, NEW k \in Key,
             Enter(t, k) \/ ExitNested(t, k) \/ Exit(t, k) \/ ExitInherited(t, k)
      PROVE  InBody(u, j)
  <2>1. CASE Enter(t, k)
    BY <1>i, <2>1 DEF Enter, TypeOK
  <2>2. CASE ExitNested(t, k)
    BY <1>i, <2>2 DEF ExitNested, TypeOK
  <2>3. CASE Exit(t, k)
    BY <1>i, <2>3 DEF Exit, TypeOK
  <2>4. CASE ExitInherited(t, k)
    BY <1>i, <2>4 DEF ExitInherited, TypeOK
  <2> QED BY <1>5, <2>1, <2>2, <2>3, <2>4
<1>6. ASSUME NEW t \in Thread, NEW v \in Thread, Fork(t, v) PROVE InBody(u, j)
  BY <1>i, <1>6 DEF Fork, TypeOK
<1>7. ASSUME NEW p \in Process, Start(p) \/ Crash(p) \/ ChildReset(p)
      PROVE  InBody(u, j)
  BY <1>i, <1>7 DEF Start, Crash, ChildReset, Fresh, Threads, TypeOK,
       RLockOwnerInv
<1>8. CASE UNCHANGED vars
  BY <1>8 DEF vars
<1> QED BY <1>1, <1>2, <1>3, <1>4, <1>5, <1>6, <1>7, <1>8 DEF Next, Progress

(* The holder of a file is the thread in a body on it.                     *)
LEMMA HolderIs ==
  ASSUME MutualExclusion, NEW t \in Thread, NEW k \in Key, InBody(t, k)
  PROVE  Holder[k] = t
BY DEF MutualExclusion, Holder

LEMMA HolderFree ==
  ASSUME NEW k \in Key, \A t \in Thread : ~InBody(t, k)
  PROVE  Holder[k] = NoThread
BY DEF Holder

LEMMA HolderIsNext ==
  ASSUME MutualExclusion', NEW t \in Thread, NEW k \in Key, InBody(t, k)'
  PROVE  Holder'[k] = t
BY DEF MutualExclusion, Holder

LEMMA HolderFreeNext ==
  ASSUME NEW k \in Key, \A t \in Thread : ~InBody(t, k)'
  PROVE  Holder'[k] = NoThread
BY DEF Holder

(* A step of the lock is an acquisition, a release or nothing at all for   *)
(* the abstract lock.                                                      *)
LEMMA StepRefines ==
  LockInv /\ LockInv' /\ [Next]_vars => [Abstract!Next]_Holder
<1> SUFFICES ASSUME LockInv, LockInv', [Next]_vars
             PROVE  Abstract!Next
  OBVIOUS
<1>m. MutualExclusion /\ MutualExclusion'
  <2>1. LockInv' => MutualExclusion'
    BY LockInvExcludes, PTL
  <2> QED BY LockInvExcludes, <2>1
<1>d. /\ Holder = [k \in Key |-> Holder[k]]
      /\ Holder' = [k \in Key |-> Holder'[k]]
  BY DEF Holder
<1>1. ASSUME NEW t \in Thread, AcquireOsLock(t) PROVE Abstract!Next
  <2> DEFINE k == target[t]
  <2>1. k \in Key /\ \A u \in Thread : ~InBody(u, k)
    BY <1>1 DEF AcquireOsLock, LockInv, TypeOK, CallInv, BodyHoldsOsLock
  <2>2. \A u \in Thread, j \in Key :
          InBody(u, j)' <=> InBody(u, j) \/ (u = t /\ j = k)
    BY <1>1, <2>1, StateLockAssumption
       DEF AcquireOsLock, LockInv, TypeOK, InBody, Running, Goto
  <2>3. Holder[k] = NoThread /\ Holder'[k] = t
    BY <1>m, <2>1, <2>2, HolderFree, HolderIsNext
  <2>4. ASSUME NEW j \in Key, j # k PROVE Holder'[j] = Holder[j]
    BY <1>m, <2>2, <2>4, HolderIs, HolderFree, HolderIsNext, HolderFreeNext
  <2>5. Abstract!Acquire(t, k)
    BY <1>d, <2>1, <2>3, <2>4 DEF Abstract!Acquire
  <2> QED BY <2>1, <2>5 DEF Abstract!Next
<1>2. CASE \A t \in Thread : ~AcquireOsLock(t)
  <2> DEFINE K == {k \in Key : \A t \in Thread : ~InBody(t, k)'}
  <2>1. ASSUME NEW j \in Key, j \notin K PROVE Holder'[j] = Holder[j]
    BY <1>m, <1>2, <2>1, BodiesEnd, HolderIs, HolderIsNext
  <2>2. ASSUME NEW j \in K PROVE Holder'[j] = NoThread
    BY <2>2, HolderFreeNext
  <2>3. Abstract!Release(K)
    BY <1>d, <2>1, <2>2 DEF Abstract!Release
  <2> QED BY <2>3 DEF Abstract!Next
<1> QED BY <1>1, <1>2

(* exclusive_file_lock implements the abstract lock of FileLock, which is  *)
(* what the stores rely on.                                                *)
THEOREM Refinement == Spec => AbstractSpec
<1>1. Init => Abstract!Init
  BY DEF Init, Abstract!Init, Holder, InBody, Running
<1> QED BY <1>1, StepRefines, LockInvariant, PTL
           DEF Spec, AbstractSpec, Abstract!Spec
===============================================================================
