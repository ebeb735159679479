------------------------------ MODULE OrderedMap ------------------------------
(***************************************************************************)
(* What a hash promises a program that uses it, storage apart: keys kept   *)
(* in the order they were added, and one iterator that stands between two  *)
(* of them.  Whatever is deleted, each key that stays is visited once; a   *)
(* key added during an iteration ends it, and the program is warned.       *)
(***************************************************************************)
EXTENDS Packing

CONSTANT Key

VARIABLES
    order,      \* the keys, in the order they were added
    absent,     \* those that a restricted hash keeps without a value
    cur,        \* how many keys of order the iterator has passed: none if stale
    iterating,  \* an iteration has begun and has not ended
    stale       \* a key was added since it began

mapVars == <<order, absent, cur, iterating, stale>>

Keys(s) == {s[i] : i \in DOMAIN s}

Init ==
    /\ order = <<>>
    /\ absent = {}
    /\ cur = 0
    /\ iterating = FALSE
    /\ stale = FALSE

Rewound ==
    /\ cur' = 0
    /\ iterating' = FALSE
    /\ stale' = FALSE

Reset == Rewound /\ UNCHANGED <<order, absent>>

Add(k) ==
    /\ k \notin Keys(order)
    /\ order' = Append(order, k)
    /\ stale' = iterating
    /\ cur' = IF iterating THEN 0 ELSE cur
    /\ UNCHANGED <<absent, iterating>>

\* A key that has no value is given one.
Fill(k) ==
    /\ k \in absent
    /\ absent' = absent \ {k}
    /\ UNCHANGED <<order, cur, iterating, stale>>

\* The key of a restricted hash loses its value and stays.
Hide(k) ==
    /\ k \in Keys(order) \ absent
    /\ absent' = absent \cup {k}
    /\ UNCHANGED <<order, cur, iterating, stale>>

\* The iterator stays where it was between the keys that remain, or the
\* iteration is over.
Remove(gone) ==
    LET kept == {i \in DOMAIN order : order[i] \notin gone}
    IN /\ gone \subseteq Keys(order)
       /\ gone # {}
       /\ order' = Packed(order, kept)
       /\ absent' = absent \ gone
       /\ \/ /\ cur' = Rank(kept, cur)
             /\ UNCHANGED <<iterating, stale>>
          \/ Rewound

\* The next key that has a value; the end; or the end, with a warning.
Ahead == {i \in cur + 1 .. Len(order) : order[i] \notin absent}

Visit(i) ==
    /\ ~stale
    /\ i \in Ahead
    /\ \A j \in Ahead : i <= j
    /\ cur' = i
    /\ iterating' = TRUE
    /\ UNCHANGED <<order, absent, stale>>

Stop ==
    /\ stale \/ Ahead = {}
    /\ Rewound
    /\ UNCHANGED <<order, absent>>

Next ==
    \/ \E k \in Key : Add(k) \/ Fill(k) \/ Hide(k)
    \/ \E gone \in SUBSET Key : Remove(gone)
    \/ \E i \in 1 .. Len(order) : Visit(i)
    \/ Stop
    \/ Reset

Spec == Init /\ [][Next]_mapVars
=============================================================================
