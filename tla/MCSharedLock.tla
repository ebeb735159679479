----------------------------- MODULE MCSharedLock -----------------------------
(***************************************************************************)
(* Three threads, a variable that is its own condition and a condition     *)
(* used with two locks, neither of them its own.                           *)
(***************************************************************************)
EXTENDS SharedLockProperties, TLC

CONSTANTS va, vb, vc, t1, t2, t3

TwoLocks == {<<va, va>>, <<vc, va>>, <<vc, vb>>}
ASSUME OrderedPairs == PairsInOrder
Symmetry == Permutations(Thread)
================================================================================
