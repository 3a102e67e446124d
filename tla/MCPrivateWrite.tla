--------------------------- MODULE MCPrivateWrite ---------------------------
(***************************************************************************)
(* Two writers of one file, with the lock or without it.  Five inodes: the *)
(* file, two temporary files, and a copy and a leftover, or two copies.    *)
(***************************************************************************)
EXTENDS PrivateWrite, TLC

Symmetric == Permutations(Writer) \cup Permutations(Ino)
=============================================================================
