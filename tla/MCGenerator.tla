----------------------------- MODULE MCGenerator -----------------------------
(***************************************************************************)
(* The generator runtime on a small interpreter: two generators, three or  *)
(* four stack-info blocks, a C stack of four or five frames.  Each gen     *)
(* block is a closure and has a CV of its own.                             *)
(***************************************************************************)
EXTENDS GeneratorProperties, TLC

CONSTANTS g1, g2

Cloned == [g \in Generators |-> g]

\* Generators are interchangeable in every definition.
Symmetry == Permutations({g1, g2})
=============================================================================
