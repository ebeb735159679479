--------------------------- MODULE MCWeakReferences ---------------------------
(***************************************************************************)
(* Three objects and two variables, one of them with set magic.            *)
(***************************************************************************)
EXTENDS WeakReferencesProperties, TLC

Symmetry == Permutations(Obj)
================================================================================
