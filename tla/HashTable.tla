------------------------------ MODULE HashTable ------------------------------
(***************************************************************************)
(* The storage of one ordinary hash (hv.c, hv.h) and what each function    *)
(* of hv.c does to it.  A small hash is a dense array of entries that is   *)
(* searched in order; a larger one keeps the array, with holes where       *)
(* entries were deleted, and an index from a key's hash to a position.     *)
(*                                                                         *)
(* Positions start at 1 here, so that 0 says what -1 and NULL say in C.    *)
(* The index is the set of positions its chains lead to.                   *)
(***************************************************************************)
EXTENDS Packing

CONSTANTS Key,
          Hole,          \* an entry whose hent_hek is NULL
          LinearMax,     \* PL_hash_linear_max: 0, 2, 4 or 8, and 4 by default
          MinCapacity    \* the least number of buckets and of entries: 8 in the code

ASSUME HashAssumption ==
    /\ \A k \in Key, b \in BOOLEAN : Hole # [key |-> k, placeholder |-> b]
    /\ LinearMax \in {0, 2, 4, 8}
    /\ MinCapacity \in {4, 8}

Entry == [key : Key, placeholder : BOOLEAN]

\* xhv_eiter: no entry, a position, or an entry of its own outside the array.
Null == 0
Retired == -1

Table == [form : {"none", "linear", "indexed"},
          entries : Seq(Entry \cup {Hole}), cap : Nat,
          buckets : Nat, indexed : SUBSET (Nat \ {0}),
          keys : Int, placeholders : Int,
          riter : Nat, eiter : Int,
          lazydel : BOOLEAN, inserted : BOOLEAN, active : BOOLEAN]

Empty == [form |-> "none", entries |-> <<>>, cap |-> 0,
          buckets |-> 0, indexed |-> {},
          keys |-> 0, placeholders |-> 0,
          riter |-> 0, eiter |-> Null,
          lazydel |-> FALSE, inserted |-> FALSE, active |-> FALSE]

-----------------------------------------------------------------------------
\* Arithmetic of the capacities.
Larger(a, b) == IF a >= b THEN a ELSE b
Smaller(a, b) == IF a <= b THEN a ELSE b

\* What doubling least leads to, once it is not below need or can be no more.
Powers == {2^j : j \in 0 .. 30}

Doubled(least, need) ==
    LET enough == {c \in Powers : c >= Larger(least, need) \/ c = 2^30}
    IN CHOOSE c \in enough : \A d \in enough : c <= d

CapacityFor(live) == Doubled(MinCapacity, 3 * live)

LoadLimit(buckets) == (buckets \div 3) * 2 + ((buckets % 3) * 2) \div 3

-----------------------------------------------------------------------------
\* Reading a table.
Used(h) == Len(h.entries)

\* The entries a traversal sees: one that was deleted under the iterator still
\* has its key.
Live(h) ==
    {p \in DOMAIN h.entries :
        h.entries[p] # Hole /\ ~(h.lazydel /\ h.eiter = p)}

Searched(h) == IF h.form = "indexed" THEN h.indexed ELSE DOMAIN h.entries

Found(h, k) == {p \in Searched(h) : h.entries[p] # Hole /\ h.entries[p].key = k}

Worthwhile(h) == Used(h) - h.keys >= (h.cap + 4) \div 5

-----------------------------------------------------------------------------
\* Mutation: a cursor that falls off the front looks as if no iteration was open.
Compacted_Inactive(h) ==
    LET kept == Live(h)
    IN [h EXCEPT
          !.entries = Packed(h.entries, kept),
          !.riter = Rank(kept, h.riter),
          !.eiter = CASE h.eiter <= 0 -> h.eiter
                      [] h.eiter > 0 /\ h.lazydel -> Retired
                      [] OTHER -> Rank(kept, h.eiter)]

\* The iterator moves with the entries.  One that was deleted under it is
\* detached, and a cursor that falls off the front stays active.
Compacted(h) ==
    LET kept == Live(h)
    IN [h EXCEPT
          !.entries = Packed(h.entries, kept),
          !.riter = Rank(kept, h.riter),
          !.eiter = CASE h.eiter <= 0 -> h.eiter
                      [] h.eiter > 0 /\ h.lazydel -> Retired
                      [] OTHER -> Rank(kept, h.eiter),
          !.active = @ \/ h.riter > 0]

Rebuilt(h, buckets, cap, pack) ==
    LET compact == Used(h) > h.keys /\ (pack \/ cap < Used(h))
        moved == IF compact THEN Compacted(h) ELSE h
    IN [moved EXCEPT !.form = "indexed", !.buckets = buckets, !.cap = cap,
                     !.indexed = Live(moved)]

\* The code goes on to enlarge a capacity below the number of keys: there is none.
IndexResized(h, buckets) ==
    IF h.form = "indexed"
    THEN Rebuilt(h, buckets, h.cap, Worthwhile(h))
    ELSE Rebuilt(h, buckets, Larger(h.keys, MinCapacity), FALSE)

Promoted(h) == IndexResized(h, Doubled(MinCapacity, h.keys + h.keys \div 2 + 1))

\* The array grows; it never shrinks here.
Reserved(h, n) ==
    IF n <= h.cap THEN h
    ELSE [h EXCEPT !.cap = n, !.form = IF @ = "none" THEN "linear" ELSE @]

-----------------------------------------------------------------------------
\* Mutation: a full array that is not worth packing is taken to have room.
IndexedRoom_Full(h) ==
    IF Used(h) = h.cap /\ Worthwhile(h)
    THEN Rebuilt(h, h.buckets, h.cap, TRUE)
    ELSE IF h.keys >= LoadLimit(h.buckets)
         THEN IndexResized(h, CapacityFor(h.keys)) ELSE h

\* Room for one more entry at the end of the array.
\* First an array that is full, or much too large, is packed; then an index
\* under pressure grows; then an array that is still full grows by a quarter.
IndexedRoom(h) ==
    LET entries == Larger(MinCapacity, h.keys + h.keys \div 4 + 1)
        index == CapacityFor(h.keys + 1)
        shrinks == entries <= h.cap \div 2
        packed ==
            IF (Used(h) = h.cap \/ shrinks) /\ Worthwhile(h)
            THEN Rebuilt(h, IF index <= h.buckets \div 2 THEN index ELSE h.buckets,
                         IF shrinks THEN entries ELSE h.cap, TRUE)
            ELSE h
        spread ==
            IF h.keys >= LoadLimit(packed.buckets)
            THEN IndexResized(packed, CapacityFor(h.keys))
            ELSE packed
    IN IF Used(spread) = spread.cap
       THEN Reserved(spread, spread.cap + spread.cap \div 4)
       ELSE spread

Room(h) ==
    CASE h.form = "indexed" -> IndexedRoom(h)
      [] h.form = "none" /\ LinearMax > 0 -> Reserved(h, 1)
      [] h.form = "none" /\ LinearMax = 0 -> IndexedRoom(IndexResized(h, MinCapacity))
      [] h.form = "linear" /\ Used(h) < h.cap -> h
      [] h.form = "linear" /\ Used(h) = h.cap /\ h.cap < LinearMax ->
            Reserved(h, Smaller(2 * h.cap, LinearMax))
      [] OTHER -> IndexedRoom(Promoted(h))

Added(h, k) ==
    LET r == Room(h)
    IN [r EXCEPT
          !.entries = Append(@, [key |-> k, placeholder |-> FALSE]),
          !.indexed = IF r.form = "indexed" THEN @ \cup {Used(r) + 1} ELSE @,
          !.keys = @ + 1,
          !.inserted = @ \/ r.riter > 0 \/ r.active]

\* keys %h = n
Enlarged(h, n) ==
    IF n <= LinearMax /\ h.form # "indexed"
    THEN Reserved(h, Smaller(Doubled(Larger(h.cap, 1), n), LinearMax))
    ELSE LET old == IF h.form = "indexed" THEN h.buckets ELSE MinCapacity
             buckets == Doubled(old, n + n \div 2 + (n % 2))
             r == IF h.form = "indexed" /\ buckets <= old THEN h
                  ELSE IndexResized(h, buckets)
         IN IF n > h.keys THEN Reserved(r, Used(r) + n - h.keys) ELSE r

-----------------------------------------------------------------------------
\* Taking entries out.  A dense array closes up at once, and the iterator with
\* it; an array of one entry, and of none, has no room to spare.
LinearRemoved(h, gone) ==
    LET kept == DOMAIN h.entries \ gone
        left == Cardinality(kept)
    IN [h EXCEPT
          !.form = IF left = 0 THEN "none" ELSE @,
          !.entries = Packed(h.entries, kept),
          !.cap = IF left <= 1 THEN left ELSE @,
          !.keys = left,
          !.riter = Rank(kept, h.riter),
          !.eiter = CASE h.eiter <= 0 -> h.eiter
                      [] h.eiter \in gone -> Null
                      [] OTHER -> Rank(kept, h.eiter)]

\* With an index an entry leaves a hole, except the one under the iterator.
IndexedRemoved(h, gone) ==
    [h EXCEPT
        !.entries = [p \in DOMAIN @ |-> IF p \in gone /\ p # h.eiter THEN Hole ELSE @[p]],
        !.indexed = @ \ gone,
        !.keys = @ - Cardinality(gone),
        !.lazydel = @ \/ h.eiter \in gone]

Removed(h, gone) ==
    IF h.form = "indexed" THEN IndexedRemoved(h, gone) ELSE LinearRemoved(h, gone)

\* Mutation: the flag is left behind.
LazyFreed_KeepsFlag(h) ==
    IF h.lazydel /\ h.eiter # Null
    THEN [h EXCEPT !.eiter = Null,
                   !.entries = IF h.eiter > 0 THEN [@ EXCEPT ![h.eiter] = Hole] ELSE @]
    ELSE h

\* The current entry was deleted: free it now.  In the array it leaves a hole.
LazyFreed(h) ==
    IF h.lazydel /\ h.eiter # Null
    THEN [h EXCEPT !.lazydel = FALSE, !.eiter = Null,
                   !.entries = IF h.eiter > 0 THEN [@ EXCEPT ![h.eiter] = Hole] ELSE @]
    ELSE h

-----------------------------------------------------------------------------
\* The iterator.
Rewound(h) == [LazyFreed(h) EXCEPT !.riter = 0, !.eiter = Null, !.active = FALSE]

IteratorReset(h) == [Rewound(h) EXCEPT !.inserted = FALSE]

WithValue(h) == {p \in Live(h) : ~h.entries[p].placeholder}

First(S) == CHOOSE p \in S : \A q \in S : p <= q

\* Mutation: placeholders are visited like other entries.
Advanced_Placeholders(h) ==
    LET r == LazyFreed(h)
        ahead == {p \in Live(r) : p > r.riter}
    IN IF ahead = {} THEN Rewound(r)
       ELSE [r EXCEPT !.riter = First(ahead), !.eiter = First(ahead),
                      !.active = r.form = "linear"]

Advanced(h) ==
    LET r == LazyFreed(h)
        ahead == {p \in WithValue(r) : p > r.riter}
    IN IF ahead = {} THEN Rewound(r)
       ELSE [r EXCEPT !.riter = First(ahead), !.eiter = First(ahead),
                      !.active = r.form = "linear"]

\* each %h
Iterated(h) ==
    LET a == IF h.form = "none" /\ LinearMax = 0 THEN IndexResized(h, MinCapacity) ELSE h
        noticed == [a EXCEPT !.inserted = FALSE]
    IN CASE a.form = "none" ->
              [a EXCEPT !.riter = 0, !.eiter = Null, !.active = FALSE]
         [] a.form # "none" /\ a.inserted /\ (a.riter > 0 \/ a.active) ->
              Rewound(noticed)
         [] OTHER -> Advanced(noticed)

-----------------------------------------------------------------------------
\* One call of hfree_next_entry that finds an entry, from the index at on or,
\* with none left there, from the start.  The iterator is given up if it stands
\* on an entry, and only then.
Released(h) == IF h.eiter # Null THEN Rewound(h) ELSE h

NextFreed(h, at) ==
    LET from(i) == {p \in Live(h) \cap Searched(h) : p > i}
    IN IF from(at) # {} THEN First(from(at)) ELSE First(from(0))

\* The index for the next call: an array that closes up has moved under it.
IndexAfter(h, p) == IF h.form = "indexed" THEN p ELSE p - 1
=============================================================================
