------------------------------- MODULE FileLock -------------------------------
(***************************************************************************)
(* What state_lock.exclusive_file_lock promises to the stores that use it: *)
(* a state file has at most one holder, and it passes from one holder to   *)
(* the next only by becoming free in between.  A crash frees everything    *)
(* its process held at once, so a release may cover several files.         *)
(***************************************************************************)
CONSTANTS
  Thread,    \* every thread of every process
  Key,       \* the state files that are locked
  NoThread   \* the holder of a free file

VARIABLE holder

TypeOK == holder \in [Key -> Thread \cup {NoThread}]

Init == holder = [k \in Key |-> NoThread]

Acquire(t, k) ==
  /\ holder[k] = NoThread
  /\ holder' = [holder EXCEPT ![k] = t]

Release(K) ==
  holder' = [k \in Key |-> IF k \in K THEN NoThread ELSE holder[k]]

Next ==
  \/ \E t \in Thread, k \in Key : Acquire(t, k)
  \/ \E K \in SUBSET Key : Release(K)

Spec == Init /\ [][Next]_holder
===============================================================================
