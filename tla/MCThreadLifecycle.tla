--------------------------- MODULE MCThreadLifecycle ---------------------------
(***************************************************************************)
(* The main interpreter creates two threads, which join and detach         *)
(* themselves, each other and are joined, detached and listed by it.       *)
(***************************************************************************)
EXTENDS ThreadLifecycleProperties, TLC

Symmetry == Permutations(Ithread)
================================================================================
