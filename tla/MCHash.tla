------------------------------- MODULE MCHash -------------------------------
(***************************************************************************)
(* One hash with a handful of keys.  MinCapacity is four where the code    *)
(* has eight, so that four keys make the table grow, fill up and shrink.   *)
(***************************************************************************)
EXTENDS HashProperties, TLC

\* Packing is selection, and a rank is the length of what is selected so far.
ASSUME PackingSelects ==
    \A n \in 0 .. 4 : \A s \in [1 .. n -> 1 .. 3], gone \in SUBSET (1 .. 3) :
        LET stays(x) == x \notin gone
            kept == {i \in 1 .. n : stays(s[i])}
        IN /\ Packed(s, kept) = SelectSeq(s, stays)
           /\ \A i \in 0 .. n : Rank(kept, i) = Len(SelectSeq(SubSeq(s, 1, i), stays))

\* Keys differ in nothing but their identity.
Symmetry == Permutations(Key)
=============================================================================
