------------------------------- MODULE Packing -------------------------------
(***************************************************************************)
(* Some of the positions of a sequence, and what is at them moved together *)
(* in the same order: what S_oa_rebuild and S_linear_remove_at of hv.c do  *)
(* to the entries of a hash.                                               *)
(***************************************************************************)
EXTENDS Integers, Sequences, FiniteSets

\* How many of the positions in kept are at p or before it.
Rank(kept, p) == Cardinality({q \in kept : q <= p})

Packed(entries, kept) ==
    [r \in 1 .. Cardinality(kept) |->
        entries[CHOOSE p \in kept : Rank(kept, p) = r]]
=============================================================================
