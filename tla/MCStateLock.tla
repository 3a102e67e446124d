---------------------------- MODULE MCStateLock ----------------------------
(***************************************************************************)
(* Instances of StateLock: threads a1 and a2 in process p1, b1 in p2.      *)
(***************************************************************************)
EXTENDS StateLock

CONSTANTS a1, a2, b1, p1, p2, d1, d2, d3, d4, k1

(* Two threads of one process and a second process, one file: both levels  *)
(* of the lock, forks in either direction.                                 *)
ThreeThreads == {a1, a2, b1}
ThreeProcessOf == [t \in ThreeThreads |-> IF t = b1 THEN p2 ELSE p1]
=============================================================================
