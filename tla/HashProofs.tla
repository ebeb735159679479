------------------------------ MODULE HashProofs ------------------------------
(***************************************************************************)
(* The storage of a hash stays sound through every change of form, packing *)
(* and deferred deletion, for any number of keys.  A behaviour that comes  *)
(* to where hv_clear would read a dense array as an indexed one (Misread)  *)
(* ends there: the theorems speak of what comes before.                    *)
(***************************************************************************)
EXTENDS HashProperties, FiniteSetTheorems, FunctionTheorems, SequenceTheorems,
        WellFoundedInduction, TLAPS

-----------------------------------------------------------------------------
\* Numbers and sets of positions.

\* A set of naturals that is not empty has a least member.
LEMMA Least ==
    ASSUME NEW S \in SUBSET Nat, S # {}
    PROVE  \E m \in S : \A n \in S : m <= n
<1> DEFINE R == {p \in Nat \X Nat : p[1] < p[2]}
<1>1. R = OpToRel(<, Nat)
  BY DEF OpToRel
<1>2. IsWellFoundedOn(R, Nat)
  BY <1>1, NatLessThanWellFounded
<1>3. \A x, y \in Nat : <<x, y>> \in R <=> x < y
  OBVIOUS
<1> HIDE DEF R
<1>4. PICK m \in S : \A n \in S : ~ (<<n, m>> \in R)
  BY <1>2, WFMin
<1>5. \A n \in S : ~ (n < m)
  BY <1>3, <1>4, Zenon
<1>6. QED  BY <1>5

LEMMA FirstFacts ==
    ASSUME NEW S \in SUBSET Nat, S # {}
    PROVE  First(S) \in S /\ \A n \in S : First(S) <= n
BY Least DEF First

\* A power of two is a natural number.
LEMMA PowersAreNumbers == Powers \in SUBSET Nat /\ 2^30 \in Powers
<1>1. \A j \in 0 .. 30 :
         \/ j = 0 \/ j = 1 \/ j = 2 \/ j = 3 \/ j = 4 \/ j = 5 \/ j = 6 \/ j = 7
         \/ j = 8 \/ j = 9 \/ j = 10 \/ j = 11 \/ j = 12 \/ j = 13 \/ j = 14 \/ j = 15
         \/ j = 16 \/ j = 17 \/ j = 18 \/ j = 19 \/ j = 20 \/ j = 21 \/ j = 22 \/ j = 23
         \/ j = 24 \/ j = 25 \/ j = 26 \/ j = 27 \/ j = 28 \/ j = 29 \/ j = 30
  OBVIOUS
<1>2. /\ 2^0 \in Nat /\ 2^1 \in Nat /\ 2^2 \in Nat /\ 2^3 \in Nat /\ 2^4 \in Nat
      /\ 2^5 \in Nat /\ 2^6 \in Nat /\ 2^7 \in Nat /\ 2^8 \in Nat /\ 2^9 \in Nat
      /\ 2^10 \in Nat /\ 2^11 \in Nat /\ 2^12 \in Nat /\ 2^13 \in Nat /\ 2^14 \in Nat
      /\ 2^15 \in Nat /\ 2^16 \in Nat /\ 2^17 \in Nat /\ 2^18 \in Nat /\ 2^19 \in Nat
      /\ 2^20 \in Nat /\ 2^21 \in Nat /\ 2^22 \in Nat /\ 2^23 \in Nat /\ 2^24 \in Nat
      /\ 2^25 \in Nat /\ 2^26 \in Nat /\ 2^27 \in Nat /\ 2^28 \in Nat /\ 2^29 \in Nat
      /\ 2^30 \in Nat
  OBVIOUS
<1>3. \A j \in 0 .. 30 : 2^j \in Nat
  BY <1>1, <1>2
<1>4. 30 \in 0 .. 30
  OBVIOUS
<1>5. QED  BY <1>3, <1>4 DEF Powers

LEMMA DoubledIsNumber ==
    ASSUME NEW least, NEW need
    PROVE  Doubled(least, need) \in Nat
<1> DEFINE enough == {c \in Powers : c >= Larger(least, need) \/ c = 2^30}
<1>1. enough \in SUBSET Nat /\ enough # {}
  BY PowersAreNumbers
<1>2. \E c \in enough : \A d \in enough : c <= d
  BY <1>1, Least
<1>3. Doubled(least, need) \in enough
  BY <1>2 DEF Doubled
<1>4. QED  BY <1>1, <1>3

\* How many of the positions kept are at p or before it.
LEMMA RankFacts ==
    ASSUME NEW kept, IsFiniteSet(kept), kept \in SUBSET Nat
    PROVE  /\ Cardinality(kept) \in Nat
           /\ \A p \in Nat : Rank(kept, p) \in 0 .. Cardinality(kept)
           /\ \A p, q \in Nat : p <= q => Rank(kept, p) <= Rank(kept, q)
           /\ \A p \in Nat : \A q \in kept : p < q => Rank(kept, p) < Rank(kept, q)
<1> DEFINE Upto(p) == {q \in kept : q <= p}
<1>1. Cardinality(kept) \in Nat
  BY FS_CardinalityType
<1>2. ASSUME NEW p \in Nat
      PROVE  /\ IsFiniteSet(Upto(p)) /\ Cardinality(Upto(p)) \in Nat
             /\ Cardinality(Upto(p)) <= Cardinality(kept)
  BY FS_Subset, FS_CardinalityType
<1>3. ASSUME NEW p \in Nat, NEW q \in Nat, p <= q
      PROVE  Cardinality(Upto(p)) <= Cardinality(Upto(q))
  <2>1. \A k \in Nat : k <= p => k <= q
    BY <1>3
  <2>2. Upto(p) \in SUBSET Upto(q)
    BY <2>1
  <2>3. QED  BY <1>2, <2>2, FS_Subset
<1>4. ASSUME NEW p \in Nat, NEW q \in kept, p < q
      PROVE  Cardinality(Upto(p)) < Cardinality(Upto(q))
  <2>0. q \in Nat /\ (\A k \in Nat : k <= p => k <= q) /\ q <= q /\ ~ (q <= p)
    BY <1>4
  <2>1. q \in Nat /\ Upto(p) \in SUBSET Upto(q) /\ q \in Upto(q) /\ q \notin Upto(p)
    BY <2>0
  <2> HIDE DEF Upto
  <2>2. Cardinality(Upto(p)) <= Cardinality(Upto(q)) /\ Cardinality(Upto(p)) # Cardinality(Upto(q))
    BY <1>2, <2>1, FS_Subset
  <2>3. QED  BY <1>2, <2>1, <2>2
<1>5. \A p : Rank(kept, p) = Cardinality(Upto(p))
  BY DEF Rank
<1> HIDE DEF Upto
<1>6. QED  BY <1>1, <1>2, <1>3, <1>4, <1>5

\* The ranks of the positions kept are 1, 2, 3 and so on.
LEMMA RankOnto ==
    ASSUME NEW kept, IsFiniteSet(kept), kept \in SUBSET Nat
    PROVE  /\ \A p \in kept : Rank(kept, p) \in 1 .. Cardinality(kept)
           /\ \A p, q \in kept : Rank(kept, p) = Rank(kept, q) => p = q
           /\ \A r \in 1 .. Cardinality(kept) : \E p \in kept : Rank(kept, p) = r
<1> DEFINE n == Cardinality(kept)
           f == [p \in kept |-> Rank(kept, p)]
<1>1. n \in Nat /\ \A p \in kept : p \in Nat /\ Rank(kept, p) \in 0 .. n
  BY RankFacts
<1>2. ASSUME NEW p \in kept  PROVE Rank(kept, p) # 0
  <2> DEFINE U == {q \in kept : q <= p}
  <2>1. U \in SUBSET kept /\ p \in U
    BY <1>1
  <2>2. IsFiniteSet(U)
    BY <2>1, FS_Subset
  <2>3. Cardinality(U) # 0
    BY <2>1, <2>2, FS_EmptySet
  <2>4. QED  BY <2>3 DEF Rank
<1>3. \A p \in kept : Rank(kept, p) \in 1 .. n
  BY <1>1, <1>2
<1>4. \A p, q \in kept : Rank(kept, p) = Rank(kept, q) => p = q
  <2>1. SUFFICES ASSUME NEW p \in kept, NEW q \in kept, p < q
                 PROVE  Rank(kept, p) # Rank(kept, q)
    BY <1>1
  <2>2. Rank(kept, p) < Rank(kept, q)
    BY <1>1, <2>1, RankFacts
  <2>3. QED  BY <1>1, <2>2
<1> HIDE DEF n
<1>5. f \in Injection(kept, 1 .. n)
  BY <1>3, <1>4 DEF Injection, IsInjective
<1>6. IsFiniteSet(1 .. n) /\ Cardinality(1 .. n) = n
  <2>1. n \in Nat /\ n \in Int /\ 1 \in Int
    BY <1>1
  <2>2. Cardinality(1 .. n) = IF 1 > n THEN 0 ELSE n - 1 + 1
    BY <2>1, FS_Interval
  <2>3. QED  BY <2>1, <2>2, FS_Interval
<1>7. f \in Surjection(kept, 1 .. n)
  <2>1. Cardinality(kept) = Cardinality(1 .. n)
    BY <1>6 DEF n
  <2> HIDE DEF f
  <2>2. QED  BY <1>5, <1>6, <2>1, FS_Injection
<1>8. \A r \in 1 .. n : \E p \in kept : f[p] = r
  <2> HIDE DEF f
  <2>1. QED  BY <1>7 DEF Surjection
<1>9. QED  BY <1>3, <1>4, <1>8 DEF n

\* Packing keeps each of the entries kept, once and in their order.
LEMMA PackedFacts ==
    ASSUME NEW S, NEW entries \in Seq(S), NEW kept \in SUBSET (DOMAIN entries)
    PROVE  /\ IsFiniteSet(kept) /\ kept \in SUBSET Nat
           /\ Cardinality(kept) \in Nat /\ Cardinality(kept) <= Len(entries)
           /\ Packed(entries, kept) \in Seq(S)
           /\ Len(Packed(entries, kept)) = Cardinality(kept)
           /\ DOMAIN Packed(entries, kept) = 1 .. Cardinality(kept)
           /\ \A p \in kept : /\ Rank(kept, p) \in 1 .. Cardinality(kept)
                              /\ Packed(entries, kept)[Rank(kept, p)] = entries[p]
           /\ \A r \in 1 .. Cardinality(kept) :
                 \E p \in kept : Rank(kept, p) = r /\ Packed(entries, kept)[r] = entries[p]
<1> DEFINE n == Cardinality(kept)
           packed == Packed(entries, kept)
           from(r) == CHOOSE p \in kept : Rank(kept, p) = r
<1>1. DOMAIN entries = 1 .. Len(entries) /\ Len(entries) \in Nat
  OBVIOUS
<1>2. IsFiniteSet(1 .. Len(entries)) /\ Cardinality(1 .. Len(entries)) = Len(entries)
  <2>1. PICK m \in Nat : m = Len(entries)
    BY <1>1
  <2>2. Cardinality(1 .. m) = (IF 1 > m THEN 0 ELSE m - 1 + 1) /\ IsFiniteSet(1 .. m)
    BY FS_Interval
  <2>3. QED  BY <2>1, <2>2
<1>3. IsFiniteSet(kept) /\ kept \in SUBSET Nat /\ n \in Nat /\ n <= Len(entries)
  BY <1>1, <1>2, FS_Subset, FS_CardinalityType
<1>4. \A r \in 1 .. n : from(r) \in kept /\ Rank(kept, from(r)) = r
  BY <1>3, RankOnto
<1>5. \A p \in kept : Rank(kept, p) \in 1 .. n /\ from(Rank(kept, p)) = p
  BY <1>3, RankOnto
<1>6. packed = [r \in 1 .. n |-> entries[from(r)]]
  BY DEF Packed
<1> HIDE DEF n, packed, from
<1>7. \A r \in 1 .. n : entries[from(r)] \in S
  BY <1>1, <1>4
<1>8. packed \in Seq(S) /\ Len(packed) = n /\ DOMAIN packed = 1 .. n
  <2>1. packed \in [1 .. n -> S]
    BY <1>6, <1>7
  <2>2. QED  BY <1>3, <2>1
<1>9. \A p \in kept : packed[Rank(kept, p)] = entries[p]
  BY <1>5, <1>6
<1>10. \A r \in 1 .. n : \E p \in kept : Rank(kept, p) = r /\ packed[r] = entries[p]
  BY <1>4, <1>6
<1>11. QED  BY <1>3, <1>5, <1>8, <1>9, <1>10 DEF n, packed

-----------------------------------------------------------------------------
\* What is true of a table between two operations.

\* Of the entries and the iterator, whatever the form.
Anchored(h) ==
    /\ h.eiter > 0 =>
        h.eiter \in DOMAIN h.entries /\ h.entries[h.eiter] # Hole /\ h.eiter = h.riter
    /\ h.eiter >= Retired
    /\ h.lazydel <=> h.eiter = Retired \/ (h.eiter > 0 /\ h.eiter \notin Live(h))

Intact(h) ==
    /\ h \in Table
    /\ \A p, q \in Live(h) : h.entries[p].key = h.entries[q].key => p = q
    /\ h.keys = Cardinality(Live(h))
    /\ Anchored(h)

\* And of the form.
Formed(h) ==
    /\ Searched(h) = Live(h)
    /\ Used(h) <= h.cap
    /\ h.form = "none" => h.entries = <<>> /\ h.cap = 0
    /\ h.form = "linear" => h.cap >= 1
    /\ h.form # "indexed" => ~h.lazydel
    /\ h.form = "indexed" => h.cap >= MinCapacity

Sound(h) == Intact(h) /\ Formed(h)

\* The program sees the same hash.
SameView(h, g) ==
    /\ Order(g) = Order(h) /\ Absent(g) = Absent(h)
    /\ Passed(g) = Passed(h) /\ Iterating(g) = Iterating(h) /\ Stale(g) = Stale(h)

LEMMA TableFacts ==
    ASSUME NEW h \in Table
    PROVE  /\ h.form \in {"none", "linear", "indexed"} /\ h.entries \in Seq(Entry \cup {Hole})
           /\ h.cap \in Nat /\ h.buckets \in Nat /\ h.indexed \in SUBSET (Nat \ {0})
           /\ h.keys \in Int /\ h.placeholders \in Int /\ h.riter \in Nat /\ h.eiter \in Int
           /\ h.lazydel \in BOOLEAN /\ h.inserted \in BOOLEAN /\ h.active \in BOOLEAN
           /\ DOMAIN h.entries = 1 .. Used(h) /\ Used(h) \in Nat
           /\ \A p \in DOMAIN h.entries : h.entries[p] # Hole => h.entries[p] \in Entry
<1>1. /\ h.form \in {"none", "linear", "indexed"} /\ h.entries \in Seq(Entry \cup {Hole})
      /\ h.cap \in Nat /\ h.buckets \in Nat /\ h.indexed \in SUBSET (Nat \ {0})
      /\ h.keys \in Int /\ h.placeholders \in Int /\ h.riter \in Nat /\ h.eiter \in Int
      /\ h.lazydel \in BOOLEAN /\ h.inserted \in BOOLEAN /\ h.active \in BOOLEAN
  BY DEF Table
<1>2. /\ DOMAIN h.entries = 1 .. Used(h) /\ Used(h) \in Nat
      /\ \A p \in 1 .. Used(h) : h.entries[p] \in Entry \cup {Hole}
  BY <1>1 DEF Used
<1>3. QED  BY <1>1, <1>2

LEMMA LiveFacts ==
    ASSUME NEW h \in Table
    PROVE  /\ Live(h) \in SUBSET (DOMAIN h.entries) /\ Live(h) \in SUBSET (Nat \ {0})
           /\ IsFiniteSet(Live(h)) /\ Cardinality(Live(h)) \in Nat
           /\ Cardinality(Live(h)) <= Used(h)
           /\ \A p \in Live(h) : h.entries[p] \in Entry
<1>1. /\ h.entries \in Seq(Entry \cup {Hole})
      /\ DOMAIN h.entries = 1 .. Used(h) /\ Used(h) \in Nat
      /\ \A p \in DOMAIN h.entries : h.entries[p] # Hole => h.entries[p] \in Entry
  BY TableFacts
<1>2. Live(h) \in SUBSET (DOMAIN h.entries) /\ \A p \in Live(h) : h.entries[p] # Hole
  BY DEF Live
<1>3. QED  BY <1>1, <1>2, PackedFacts DEF Used

\* The keys at the positions in kept, in order, and those of them without a value.
Listed(entries, kept) ==
    [r \in 1 .. Cardinality(kept) |-> Packed(entries, kept)[r].key]

Hidden(entries, kept) == {entries[p].key : p \in {q \in kept : entries[q].placeholder}}

LEMMA OrderIsListed ==
    ASSUME NEW h
    PROVE  Order(h) = Listed(h.entries, Live(h)) /\ Absent(h) = Hidden(h.entries, Live(h))
<1>1. Live(h) \ WithValue(h) = {q \in Live(h) : h.entries[q].placeholder}
  BY DEF WithValue
<1>2. QED  BY <1>1 DEF Order, Absent, Listed, Hidden

\* A list is known by the rank of each position.
LEMMA ListedFacts ==
    ASSUME NEW entries \in Seq(Entry \cup {Hole}), NEW kept \in SUBSET (DOMAIN entries),
           \A p \in kept : entries[p] \in Entry
    PROVE  /\ Listed(entries, kept) \in Seq(Key)
           /\ Len(Listed(entries, kept)) = Cardinality(kept)
           /\ DOMAIN Listed(entries, kept) = 1 .. Cardinality(kept)
           /\ \A p \in kept : /\ Rank(kept, p) \in 1 .. Cardinality(kept)
                              /\ Listed(entries, kept)[Rank(kept, p)] = entries[p].key
           /\ \A r \in 1 .. Cardinality(kept) :
                 \E p \in kept : Rank(kept, p) = r /\ Listed(entries, kept)[r] = entries[p].key
<1> DEFINE n == Cardinality(kept)
           packed == Packed(entries, kept)
           list == Listed(entries, kept)
<1>1. /\ n \in Nat
      /\ \A p \in kept : Rank(kept, p) \in 1 .. n /\ packed[Rank(kept, p)] = entries[p]
      /\ \A r \in 1 .. n : \E p \in kept : Rank(kept, p) = r /\ packed[r] = entries[p]
  BY PackedFacts
<1>2. list = [r \in 1 .. n |-> packed[r].key]
  BY DEF Listed
<1> HIDE DEF n, packed, list
<1>3. \A r \in 1 .. n : packed[r].key \in Key
  BY <1>1 DEF Entry
<1>4. list \in Seq(Key) /\ Len(list) = n /\ DOMAIN list = 1 .. n
  <2>1. list \in [1 .. n -> Key]
    BY <1>2, <1>3
  <2>2. QED  BY <1>1, <2>1
<1>5. /\ \A p \in kept : Rank(kept, p) \in 1 .. n /\ list[Rank(kept, p)] = entries[p].key
      /\ \A r \in 1 .. n : \E p \in kept : Rank(kept, p) = r /\ list[r] = entries[p].key
  BY <1>1, <1>2
<1>6. QED  BY <1>4, <1>5 DEF n, list

LEMMA ListedIs ==
    ASSUME NEW entries \in Seq(Entry \cup {Hole}), NEW kept \in SUBSET (DOMAIN entries),
           \A p \in kept : entries[p] \in Entry,
           NEW s \in Seq(Key), Len(s) = Cardinality(kept),
           \A p \in kept : s[Rank(kept, p)] = entries[p].key
    PROVE  Listed(entries, kept) = s
<1> DEFINE list == Listed(entries, kept)
<1>1. /\ list \in Seq(Key) /\ Len(list) = Len(s)
      /\ \A r \in 1 .. Cardinality(kept) :
            \E p \in kept : Rank(kept, p) = r /\ list[r] = entries[p].key
  BY ListedFacts
<1> HIDE DEF list
<1>2. \A r \in 1 .. Len(s) : list[r] = s[r]
  BY <1>1
<1>3. QED  BY <1>1, <1>2 DEF list

\* Only the entries at those positions matter.
LEMMA ListedAgree ==
    ASSUME NEW entries \in Seq(Entry \cup {Hole}), NEW others \in Seq(Entry \cup {Hole}),
           NEW kept \in SUBSET (DOMAIN entries), kept \in SUBSET (DOMAIN others),
           \A p \in kept : entries[p] \in Entry /\ others[p].key = entries[p].key
                          /\ others[p] \in Entry
    PROVE  Listed(others, kept) = Listed(entries, kept)
BY ListedFacts, ListedIs

LEMMA HiddenAgree ==
    ASSUME NEW entries, NEW others, NEW kept, \A p \in kept : others[p] = entries[p]
    PROVE  Hidden(others, kept) = Hidden(entries, kept)
<1>1. {q \in kept : others[q].placeholder} = {q \in kept : entries[q].placeholder}
  OBVIOUS
<1>2. \A p \in {q \in kept : entries[q].placeholder} : others[p] = entries[p]
  OBVIOUS
<1>3. QED  BY <1>1, <1>2 DEF Hidden

-----------------------------------------------------------------------------
\* A table that another one replaces without the program seeing it.
Same(h, g) ==
    /\ SameView(h, g)
    /\ g.keys = h.keys /\ g.placeholders = h.placeholders

\* In an array without holes a position is its own rank.
LEMMA RankOfInterval ==
    ASSUME NEW n \in Nat, NEW r \in 0 .. n
    PROVE  Rank(1 .. n, r) = r
<1>1. {q \in 1 .. n : q <= r} = 1 .. r
  OBVIOUS
<1>2. Cardinality(1 .. r) = IF 1 > r THEN 0 ELSE r - 1 + 1
  BY FS_Interval
<1>3. Cardinality(1 .. r) = r
  <2>1. r = 0 \/ r >= 1
    OBVIOUS
  <2>2. QED  BY <1>2, <2>1
<1>4. QED  BY <1>1, <1>3, Zenon DEF Rank

LEMMA RankOfStart ==
    ASSUME NEW kept \in SUBSET (Nat \ {0})
    PROVE  Rank(kept, 0) = 0
<1>1. \A q \in kept : ~ (q <= 0)
  <2>1. \A q \in Nat \ {0} : ~ (q <= 0)
    OBVIOUS
  <2>2. QED  BY <2>1
<1>2. {q \in kept : q <= 0} = {}
  BY <1>1
<1>3. QED  BY <1>2, FS_EmptySet DEF Rank

\* Where the iterator stands in a table that is intact.
LEMMA AnchorFacts ==
    ASSUME NEW h, Intact(h)
    PROVE  /\ h.lazydel => h.eiter # Null
           /\ h.eiter > 0 => h.eiter = h.riter /\ h.riter \in DOMAIN h.entries
           /\ h.eiter > 0 /\ ~h.lazydel => h.eiter \in Live(h)
           /\ h.eiter > 0 /\ h.lazydel => h.eiter \notin Live(h)
           /\ h.lazydel /\ h.eiter <= 0 => h.eiter = Retired
           /\ ~h.lazydel => h.eiter >= 0
<1>1. h \in Table /\ h.eiter \in Int /\ h.lazydel \in BOOLEAN
  BY TableFacts DEF Intact
<1>2. Anchored(h)
  BY DEF Intact
<1>3. QED  BY <1>1, <1>2 DEF Anchored, Live, Null, Retired

\* A table whose entries are some of those of another, kept together.
LEMMA PackedTable ==
    ASSUME NEW h \in Table, NEW kept \in SUBSET Live(h), NEW g \in Table,
           g.entries = Packed(h.entries, kept), g.lazydel => g.eiter <= 0
    PROVE  /\ Cardinality(kept) \in Nat /\ kept \in SUBSET (Nat \ {0}) /\ IsFiniteSet(kept)
           /\ Live(g) = 1 .. Cardinality(kept) /\ DOMAIN g.entries = 1 .. Cardinality(kept)
           /\ Cardinality(Live(g)) = Cardinality(kept) /\ Used(g) = Cardinality(kept)
           /\ \A r \in Live(g) : g.entries[r] \in Entry /\ g.entries[r] # Hole
           /\ \A r \in 0 .. Cardinality(kept) : Rank(Live(g), r) = r
           /\ Order(g) = Listed(h.entries, kept) /\ Absent(g) = Hidden(h.entries, kept)
           /\ (\A p, q \in kept : h.entries[p].key = h.entries[q].key => p = q) =>
                 \A p, q \in Live(g) : g.entries[p].key = g.entries[q].key => p = q
<1> DEFINE n == Cardinality(kept)
           packed == Packed(h.entries, kept)
<1>1. /\ kept \in SUBSET (DOMAIN h.entries) /\ kept \in SUBSET (Nat \ {0})
      /\ \A p \in kept : h.entries[p] \in Entry /\ h.entries[p] # Hole
  BY LiveFacts DEF Live
<1>2. h.entries \in Seq(Entry \cup {Hole})
  BY TableFacts
<1>3. /\ n \in Nat /\ IsFiniteSet(kept) /\ kept \in SUBSET Nat
      /\ packed \in Seq(Entry \cup {Hole}) /\ Len(packed) = n /\ DOMAIN packed = 1 .. n
      /\ \A p \in kept : Rank(kept, p) \in 1 .. n /\ packed[Rank(kept, p)] = h.entries[p]
      /\ \A r \in 1 .. n : \E p \in kept : Rank(kept, p) = r /\ packed[r] = h.entries[p]
  BY <1>1, <1>2, PackedFacts
<1>4. g.entries = packed
  OBVIOUS
<1> HIDE DEF packed, n
<1>5. \A r \in 1 .. n : packed[r] \in Entry /\ packed[r] # Hole
  BY <1>1, <1>3
<1>6. Live(g) = 1 .. n
  <2>1. \A r \in 1 .. n : ~ (g.lazydel /\ g.eiter = r)
    BY TableFacts
  <2>2. QED  BY <1>3, <1>4, <1>5, <2>1 DEF Live
<1>7. Cardinality(1 .. n) = n
  BY <1>3, FS_Interval
<1>8. \A r \in 0 .. n : Rank(1 .. n, r) = r
  BY <1>3, RankOfInterval
<1>9. ASSUME \A p, q \in kept : h.entries[p].key = h.entries[q].key => p = q
      PROVE  \A r, s \in 1 .. n : packed[r].key = packed[s].key => r = s
  <2>1. SUFFICES ASSUME NEW r \in 1 .. n, NEW s \in 1 .. n, packed[r].key = packed[s].key
                 PROVE  r = s
    OBVIOUS
  <2>2. PICK p \in kept : Rank(kept, p) = r /\ packed[r] = h.entries[p]
    BY <1>3
  <2>3. PICK q \in kept : Rank(kept, q) = s /\ packed[s] = h.entries[q]
    BY <1>3
  <2>4. p = q
    BY <1>9, <2>1, <2>2, <2>3
  <2>5. QED  BY <2>2, <2>3, <2>4
<1>10. Order(g) = Listed(h.entries, kept)
  <2> DEFINE list == Listed(h.entries, kept)
  <2>1. /\ list \in Seq(Key) /\ Len(list) = n
        /\ \A p \in kept : list[Rank(kept, p)] = h.entries[p].key
    BY <1>1, <1>2, ListedFacts DEF n
  <2> HIDE DEF list
  <2>2. \A r \in 1 .. n : list[Rank(1 .. n, r)] = packed[r].key
    BY <1>3, <1>8, <2>1
  <2>3. 1 .. n \in SUBSET (DOMAIN packed) /\ Len(list) = Cardinality(1 .. n)
    BY <1>3, <1>7, <2>1
  <2>4. Listed(packed, 1 .. n) = list
    BY <1>3, <1>5, <2>1, <2>2, <2>3, ListedIs
  <2>5. QED  BY <1>4, <1>6, <2>4, OrderIsListed DEF list
<1>11. Absent(g) = Hidden(h.entries, kept)
  <2>1. ASSUME NEW r \in 1 .. n, packed[r].placeholder
        PROVE  \E p \in kept : h.entries[p].placeholder /\ packed[r].key = h.entries[p].key
    BY <1>3, <2>1
  <2>2. ASSUME NEW p \in kept, h.entries[p].placeholder
        PROVE  \E r \in 1 .. n : packed[r].placeholder /\ packed[r].key = h.entries[p].key
    BY <1>3, <2>2
  <2>3. Hidden(packed, 1 .. n) = Hidden(h.entries, kept)
    BY <2>1, <2>2 DEF Hidden
  <2>4. QED  BY <1>4, <1>6, <2>3, OrderIsListed
<1>12. Used(g) = n
  BY <1>3, <1>4 DEF Used
<1>13. QED  BY <1>1, <1>3, <1>4, <1>5, <1>6, <1>7, <1>8, <1>9, <1>10, <1>11, <1>12 DEF n

\* Packing closes the holes and is not seen.
LEMMA CompactedFacts ==
    ASSUME NEW h, Intact(h)
    PROVE  LET g == Compacted(h)
           IN /\ Intact(g) /\ Same(h, g)
              /\ g.form = h.form /\ g.cap = h.cap /\ g.buckets = h.buckets
              /\ Live(g) = DOMAIN g.entries /\ Used(g) = h.keys
<1> DEFINE g == Compacted(h)
           n == Cardinality(Live(h))
<1>1. PICK kept \in SUBSET (DOMAIN h.entries) : kept = Live(h) /\ kept \in SUBSET (Nat \ {0})
  BY LiveFacts DEF Intact
<1>2. h \in Table /\ h.entries \in Seq(Entry \cup {Hole}) /\ h.keys = n /\ Anchored(h)
  BY TableFacts DEF Intact
<1> DEFINE packed == Packed(h.entries, kept)
           eiter == CASE h.eiter <= 0 -> h.eiter
                      [] h.eiter > 0 /\ h.lazydel -> Retired
                      [] OTHER -> Rank(kept, h.eiter)
           riter == Rank(kept, h.riter)
           active == h.active \/ h.riter > 0
<1>3. /\ n \in Nat /\ IsFiniteSet(kept) /\ kept \in SUBSET Nat
      /\ packed \in Seq(Entry \cup {Hole})
      /\ \A p \in kept : Rank(kept, p) \in 1 .. n
  BY <1>1, <1>2, PackedFacts
<1>4. h.riter \in Nat /\ h.eiter \in Int /\ h.lazydel \in BOOLEAN
  BY <1>2, TableFacts
<1>5. riter \in 0 .. n
  BY <1>1, <1>3, <1>4, RankFacts
<1>6. /\ h.lazydel => h.eiter # Null
      /\ h.eiter > 0 => h.eiter = h.riter /\ h.riter \in DOMAIN h.entries
      /\ h.eiter > 0 /\ ~h.lazydel => h.eiter \in kept
      /\ h.lazydel /\ h.eiter <= 0 => h.eiter = Retired
      /\ ~h.lazydel => h.eiter >= 0
  BY <1>1, AnchorFacts
<1>7. /\ eiter \in Int /\ eiter >= Retired
      /\ eiter > 0 => ~h.lazydel /\ eiter = riter /\ eiter \in 1 .. n
      /\ h.lazydel <=> eiter = Retired
  BY <1>3, <1>4, <1>6 DEF Retired, Null
<1>8. active \in BOOLEAN /\ riter \in Nat
  BY <1>4, <1>5
<1> HIDE DEF packed, eiter, n
<1>9. g = [h EXCEPT !.entries = packed, !.riter = riter, !.eiter = eiter,
                    !.active = active]
  BY <1>1 DEF Compacted, packed, eiter
<1> HIDE DEF active, riter
<1>10. g \in Table
  BY <1>2, <1>3, <1>7, <1>8, <1>9 DEF Table
<1>11. /\ g.entries = packed /\ g.riter = riter /\ g.eiter = eiter /\ g.active = active
       /\ g.lazydel = h.lazydel /\ g.inserted = h.inserted /\ g.form = h.form
       /\ g.cap = h.cap /\ g.buckets = h.buckets
       /\ g.keys = h.keys /\ g.placeholders = h.placeholders
  BY <1>2, <1>9 DEF Table
<1> HIDE DEF g
<1>12. g.lazydel => g.eiter <= 0
  BY <1>7, <1>11 DEF Retired
<1>13. /\ Live(g) = 1 .. n /\ DOMAIN g.entries = 1 .. n /\ Cardinality(Live(g)) = n
       /\ Used(g) = n /\ \A r \in Live(g) : g.entries[r] # Hole
       /\ \A r \in 0 .. n : Rank(Live(g), r) = r
       /\ Order(g) = Listed(h.entries, kept) /\ Absent(g) = Hidden(h.entries, kept)
       /\ \A p, q \in Live(g) : g.entries[p].key = g.entries[q].key => p = q
  <2>1. \A p, q \in kept : h.entries[p].key = h.entries[q].key => p = q
    BY <1>1 DEF Intact
  <2>2. kept \in SUBSET Live(h) /\ g.entries = Packed(h.entries, kept)
    BY <1>1, <1>11 DEF packed
  <2>3. n = Cardinality(kept)
    BY <1>1 DEF n
  <2>4. QED  BY <1>2, <1>10, <1>12, <2>1, <2>2, <2>3, PackedTable
<1>14. Anchored(g)
  BY <1>7, <1>11, <1>13 DEF Anchored
<1>15. Intact(g)
  BY <1>2, <1>10, <1>11, <1>13, <1>14 DEF Intact
<1>16. Order(g) = Order(h) /\ Absent(g) = Absent(h)
  BY <1>1, <1>13, OrderIsListed
<1>17. Iterating(g) = Iterating(h)
  <2>1. h.riter = 0 => riter = 0
    BY <1>1, RankOfStart DEF riter
  <2>2. h.riter > 0 \/ h.riter = 0
    BY <1>4
  <2>3. Iterating(g) <=> Iterating(h)
    BY <1>11, <2>1, <2>2 DEF Iterating, active
  <2>4. QED  BY <2>3 DEF Iterating
<1>18. Stale(g) = Stale(h)
  BY <1>11, <1>17 DEF Stale
<1>19. Passed(g) = Passed(h)
  <2>1. Rank(Live(g), g.riter) = Rank(Live(h), h.riter)
    BY <1>1, <1>5, <1>11, <1>13 DEF riter
  <2>2. QED  BY <1>18, <2>1 DEF Passed
<1>20. QED
  BY <1>2, <1>11, <1>13, <1>15, <1>16, <1>17, <1>18, <1>19 DEF Same, SameView, g

LEMMA SameTrans ==
    ASSUME NEW h, NEW g, NEW f, Same(h, g), Same(g, f)
    PROVE  Same(h, f)
BY DEF Same, SameView

LEMMA SameSelf == \A h : Same(h, h)
BY DEF Same, SameView

\* A table that differs in its form, its capacities and its index only.
LEMMA SameInside ==
    ASSUME NEW h, Intact(h), NEW g \in Table,
           g.entries = h.entries, g.keys = h.keys, g.placeholders = h.placeholders,
           g.riter = h.riter, g.eiter = h.eiter, g.lazydel = h.lazydel,
           g.inserted = h.inserted, g.active = h.active
    PROVE  Intact(g) /\ Same(h, g) /\ Live(g) = Live(h) /\ Used(g) = Used(h)
<1>1. h \in Table
  BY DEF Intact
<1>2. Live(g) = Live(h) /\ Used(g) = Used(h)
  BY DEF Live, Used
<1>3. Order(g) = Order(h) /\ Absent(g) = Absent(h)
  BY <1>2, OrderIsListed
<1>4. Intact(g)
  BY <1>2 DEF Intact, Anchored
<1>5. SameView(h, g)
  BY <1>2, <1>3 DEF SameView, Passed, Iterating, Stale
<1>6. QED  BY <1>2, <1>4, <1>5 DEF Same

LEMMA RebuiltFacts ==
    ASSUME NEW h, Intact(h), NEW buckets \in Nat, NEW cap \in Nat, NEW pack \in BOOLEAN,
           cap >= h.keys, cap >= MinCapacity
    PROVE  LET g == Rebuilt(h, buckets, cap, pack)
           IN /\ Sound(g) /\ Same(h, g)
              /\ g.form = "indexed" /\ g.cap = cap /\ g.buckets = buckets
<1> DEFINE compact == Used(h) > h.keys /\ (pack \/ cap < Used(h))
           moved == IF compact THEN Compacted(h) ELSE h
           g == Rebuilt(h, buckets, cap, pack)
<1>1. h \in Table /\ Used(h) \in Nat /\ h.keys \in Int
  BY TableFacts DEF Intact
<1>2. Intact(moved) /\ Same(h, moved) /\ Used(moved) <= cap
  <2>1. CASE compact
    BY <1>1, <2>1, CompactedFacts
  <2>2. CASE ~compact
    BY <1>1, <2>2, SameSelf
  <2>3. QED  BY <2>1, <2>2
<1>3. g = [moved EXCEPT !.form = "indexed", !.buckets = buckets, !.cap = cap,
                        !.indexed = Live(moved)]
  BY DEF Rebuilt
<1> HIDE DEF moved, g
<1>4. moved \in Table /\ Live(moved) \in SUBSET (Nat \ {0})
  BY <1>2, LiveFacts DEF Intact
<1> DEFINE live == Live(moved)
<1> HIDE DEF live
<1>5. g \in Table
  <2>1. live \in SUBSET (Nat \ {0})
    BY <1>4 DEF live
  <2>2. QED  BY <1>3, <1>4, <2>1 DEF Table, live
<1>6. /\ g.form = "indexed" /\ g.buckets = buckets /\ g.cap = cap /\ g.indexed = live
      /\ g.entries = moved.entries /\ g.keys = moved.keys
      /\ g.placeholders = moved.placeholders /\ g.riter = moved.riter
      /\ g.eiter = moved.eiter /\ g.lazydel = moved.lazydel
      /\ g.inserted = moved.inserted /\ g.active = moved.active
  BY <1>3, <1>4 DEF Table, live
<1>7. Intact(g) /\ Same(moved, g) /\ Live(g) = live /\ Used(g) = Used(moved)
  BY <1>2, <1>5, <1>6, SameInside DEF live
<1>8. Formed(g)
  BY <1>2, <1>6, <1>7 DEF Formed, Searched
<1>9. QED  BY <1>2, <1>6, <1>7, <1>8, SameTrans DEF Sound, g

LEMMA SoundFacts ==
    ASSUME NEW h, Sound(h)
    PROVE  /\ h \in Table /\ Intact(h) /\ h.keys \in Nat /\ h.keys <= Used(h)
           /\ Used(h) \in Nat /\ h.cap \in Nat /\ Used(h) <= h.cap
           /\ h.form # "indexed" => Used(h) = h.keys /\ Live(h) = DOMAIN h.entries
<1>1. h \in Table /\ Intact(h) /\ Formed(h) /\ h.keys = Cardinality(Live(h))
  BY DEF Sound, Intact
<1>2. /\ Cardinality(Live(h)) \in Nat /\ Cardinality(Live(h)) <= Used(h) /\ h.cap \in Nat
      /\ Used(h) \in Nat /\ DOMAIN h.entries = 1 .. Used(h)
  BY <1>1, LiveFacts, TableFacts
<1>3. Used(h) <= h.cap /\ (h.form # "indexed" => Live(h) = DOMAIN h.entries)
  BY <1>1 DEF Formed, Searched
<1>4. PICK n \in Nat : n = Used(h)
  BY <1>2
<1>5. Cardinality(1 .. n) = IF 1 > n THEN 0 ELSE n - 1 + 1
  BY FS_Interval
<1>6. QED  BY <1>1, <1>2, <1>3, <1>4, <1>5

LEMMA MinCapacityFacts == MinCapacity \in Nat /\ MinCapacity >= 4
BY HashAssumption

LEMMA IndexResizedFacts ==
    ASSUME NEW h, Sound(h), NEW buckets \in Nat
    PROVE  LET g == IndexResized(h, buckets)
           IN Sound(g) /\ Same(h, g) /\ g.form = "indexed" /\ g.buckets = buckets
<1>1. /\ Intact(h) /\ h.keys \in Nat /\ h.cap \in Nat /\ h.keys <= h.cap
      /\ MinCapacity \in Nat
  BY SoundFacts, MinCapacityFacts
<1>2. CASE h.form = "indexed"
  <2>1. h.cap >= MinCapacity
    BY <1>2 DEF Sound, Formed
  <2>2. Worthwhile(h) \in BOOLEAN
    BY DEF Worthwhile
  <2>3. IndexResized(h, buckets) = Rebuilt(h, buckets, h.cap, Worthwhile(h))
    BY <1>2 DEF IndexResized
  <2>4. PICK pack \in BOOLEAN : pack = Worthwhile(h)
    BY <2>2
  <2>5. QED  BY <1>1, <2>1, <2>3, <2>4, RebuiltFacts
<1>3. CASE h.form # "indexed"
  <2>1. PICK cap \in Nat : /\ cap = Larger(h.keys, MinCapacity)
                           /\ cap >= h.keys /\ cap >= MinCapacity
    BY <1>1 DEF Larger
  <2>2. PICK pack \in BOOLEAN : pack = FALSE
    OBVIOUS
  <2>3. IndexResized(h, buckets) = Rebuilt(h, buckets, cap, pack)
    BY <1>3, <2>1, <2>2 DEF IndexResized
  <2>4. QED  BY <1>1, <2>1, <2>3, RebuiltFacts
<1>4. QED  BY <1>2, <1>3

LEMMA ReservedFacts ==
    ASSUME NEW h, Sound(h), NEW n \in Nat
    PROVE  LET g == Reserved(h, n)
           IN /\ Sound(g) /\ Same(h, g) /\ Used(g) = Used(h)
              /\ g.cap >= n /\ g.cap >= h.cap
              /\ h.form # "none" => g.form = h.form
              /\ n > 0 => g.form # "none"
<1> DEFINE g == Reserved(h, n)
           form == IF h.form = "none" THEN "linear" ELSE h.form
<1>1. /\ h \in Table /\ Intact(h) /\ h.cap \in Nat /\ Used(h) \in Nat /\ Used(h) <= h.cap
      /\ Formed(h) /\ h.form \in {"none", "linear", "indexed"}
  BY SoundFacts, TableFacts DEF Sound
<1>2. CASE n <= h.cap
  <2>1. g = h
    BY <1>2 DEF Reserved
  <2>2. n > 0 => h.form # "none"
    BY <1>1, <1>2 DEF Formed
  <2>3. QED  BY <1>1, <1>2, <2>1, <2>2, SameSelf
<1>3. CASE ~ (n <= h.cap)
  <2>1. g = [h EXCEPT !.cap = n, !.form = form]
    BY <1>1, <1>3 DEF Reserved, Table
  <2>2. form \in {"linear", "indexed"}
    BY <1>1
  <2> HIDE DEF g, form
  <2>3. g \in Table
    BY <1>1, <2>1, <2>2 DEF Table
  <2>4. /\ g.form = form /\ g.cap = n /\ g.indexed = h.indexed
        /\ g.entries = h.entries /\ g.keys = h.keys
        /\ g.placeholders = h.placeholders /\ g.riter = h.riter
        /\ g.eiter = h.eiter /\ g.lazydel = h.lazydel
        /\ g.inserted = h.inserted /\ g.active = h.active
    BY <1>1, <2>1 DEF Table
  <2>5. Intact(g) /\ Same(h, g) /\ Live(g) = Live(h) /\ Used(g) = Used(h)
    BY <1>1, <2>3, <2>4, SameInside
  <2>6. Searched(g) = Searched(h)
    BY <1>1, <2>4 DEF Searched, form
  <2>7. Formed(g)
    BY <1>1, <1>3, <2>2, <2>4, <2>5, <2>6, MinCapacityFacts DEF Formed, form
  <2>8. h.form # "none" => form = h.form
    BY DEF form
  <2>9. QED  BY <1>1, <1>3, <2>2, <2>4, <2>5, <2>7, <2>8 DEF Sound, g
<1>4. QED  BY <1>2, <1>3

LEMMA IndexedRoomFacts ==
    ASSUME NEW h, Sound(h), h.form = "indexed"
    PROVE  LET g == IndexedRoom(h)
           IN Sound(g) /\ Same(h, g) /\ g.form = "indexed" /\ Used(g) < g.cap
<1> DEFINE entries == Larger(MinCapacity, h.keys + h.keys \div 4 + 1)
           index == CapacityFor(h.keys + 1)
           shrinks == entries <= h.cap \div 2
           buckets == IF index <= h.buckets \div 2 THEN index ELSE h.buckets
           cap == IF shrinks THEN entries ELSE h.cap
           packed == IF (Used(h) = h.cap \/ shrinks) /\ Worthwhile(h)
                     THEN Rebuilt(h, buckets, cap, TRUE) ELSE h
           spread == IF h.keys >= LoadLimit(packed.buckets)
                     THEN IndexResized(packed, CapacityFor(h.keys)) ELSE packed
<1>1. /\ Intact(h) /\ h.keys \in Nat /\ h.cap \in Nat /\ h.keys <= h.cap /\ h.buckets \in Nat
      /\ MinCapacity \in Nat /\ MinCapacity >= 4 /\ h.cap >= MinCapacity
  BY SoundFacts, TableFacts, MinCapacityFacts DEF Sound, Formed
<1>2. entries \in Nat /\ entries >= MinCapacity /\ entries >= h.keys
  <2>1. h.keys \div 4 \in Nat
    BY <1>1
  <2>2. QED  BY <1>1, <2>1 DEF Larger
<1>3. index \in Nat /\ CapacityFor(h.keys) \in Nat
  BY DoubledIsNumber DEF CapacityFor
<1> HIDE DEF entries, index
<1>4. buckets \in Nat /\ cap \in Nat /\ cap >= MinCapacity /\ cap >= h.keys
  BY <1>1, <1>2, <1>3
<1> HIDE DEF shrinks, buckets, cap
<1>5. Sound(packed) /\ Same(h, packed) /\ packed.form = "indexed"
  <2>1. CASE (Used(h) = h.cap \/ shrinks) /\ Worthwhile(h)
    <3>1. PICK pack \in BOOLEAN : pack = TRUE
      OBVIOUS
    <3>2. packed = Rebuilt(h, buckets, cap, pack)
      BY <2>1, <3>1
    <3> HIDE DEF packed
    <3>3. QED  BY <1>1, <1>4, <3>2, RebuiltFacts
  <2>2. CASE ~ ((Used(h) = h.cap \/ shrinks) /\ Worthwhile(h))
    BY <2>2, SameSelf
  <2>3. QED  BY <2>1, <2>2
<1> HIDE DEF packed
<1>6. Sound(spread) /\ Same(packed, spread) /\ spread.form = "indexed"
  <2>1. CASE h.keys >= LoadLimit(packed.buckets)
    BY <1>3, <1>5, <2>1, IndexResizedFacts
  <2>2. CASE ~ (h.keys >= LoadLimit(packed.buckets))
    BY <1>5, <2>2, SameSelf
  <2>3. QED  BY <2>1, <2>2
<1> HIDE DEF spread
<1>7. Same(h, spread)
  BY <1>5, <1>6, SameTrans
<1>8. /\ spread.cap \in Nat /\ spread.cap >= MinCapacity
      /\ Used(spread) \in Nat /\ Used(spread) <= spread.cap
  BY <1>6, SoundFacts DEF Sound, Formed
<1>9. IndexedRoom(h) = IF Used(spread) = spread.cap
                       THEN Reserved(spread, spread.cap + spread.cap \div 4) ELSE spread
  BY DEF IndexedRoom, spread, packed, cap, buckets, shrinks, index, entries
<1>10. CASE Used(spread) = spread.cap
  <2>1. PICK n \in Nat : n = spread.cap + spread.cap \div 4 /\ n > spread.cap
    BY <1>1, <1>8
  <2>2. IndexedRoom(h) = Reserved(spread, n)
    BY <1>9, <1>10, <2>1
  <2> DEFINE g == Reserved(spread, n)
  <2>3. /\ Sound(g) /\ Same(spread, g) /\ Used(g) = Used(spread) /\ g.cap >= n
        /\ g.form = "indexed"
    BY <1>6, ReservedFacts
  <2>4. g.cap \in Nat
    BY <2>3, SoundFacts
  <2> HIDE DEF g
  <2>5. Same(h, g) /\ Used(g) < g.cap
    BY <1>7, <1>8, <1>10, <2>1, <2>3, <2>4, SameTrans
  <2>6. QED  BY <2>2, <2>3, <2>5 DEF g
<1>11. CASE Used(spread) # spread.cap
  BY <1>6, <1>7, <1>8, <1>9, <1>11
<1>12. QED  BY <1>10, <1>11

LEMMA RoomFacts ==
    ASSUME NEW h, Sound(h)
    PROVE  LET g == Room(h)
           IN Sound(g) /\ Same(h, g) /\ g.form # "none" /\ Used(g) < g.cap
<1>1. /\ h \in Table /\ h.keys \in Nat /\ Used(h) \in Nat /\ h.cap \in Nat /\ Used(h) <= h.cap
      /\ h.form \in {"none", "linear", "indexed"} /\ LinearMax \in Nat /\ MinCapacity \in Nat
      /\ h.form = "none" => Used(h) = 0 /\ h.cap = 0
      /\ h.form = "linear" => h.cap >= 1
  BY SoundFacts, TableFacts, HashAssumption DEF Sound, Formed, Used
<1>2. CASE h.form = "indexed"
  BY <1>2, IndexedRoomFacts DEF Room
<1>3. CASE h.form = "none" /\ LinearMax > 0
  <2>1. Room(h) = Reserved(h, 1)
    BY <1>3 DEF Room
  <2> DEFINE g == Reserved(h, 1)
  <2>2. Sound(g) /\ Same(h, g) /\ Used(g) = Used(h) /\ g.cap >= 1 /\ g.form # "none"
    BY ReservedFacts
  <2>3. g.cap \in Nat
    BY <2>2, SoundFacts
  <2> HIDE DEF g
  <2>4. QED  BY <1>1, <1>3, <2>1, <2>2, <2>3 DEF g
<1>4. ASSUME NEW b \in Nat, Room(h) = IndexedRoom(IndexResized(h, b))
      PROVE  LET g == Room(h)
             IN Sound(g) /\ Same(h, g) /\ g.form # "none" /\ Used(g) < g.cap
  <2> DEFINE r == IndexResized(h, b)
  <2>1. Sound(r) /\ Same(h, r) /\ r.form = "indexed"
    BY IndexResizedFacts
  <2> HIDE DEF r
  <2>2. /\ Sound(IndexedRoom(r)) /\ Same(r, IndexedRoom(r))
        /\ IndexedRoom(r).form = "indexed" /\ Used(IndexedRoom(r)) < IndexedRoom(r).cap
    BY <2>1, IndexedRoomFacts
  <2>3. Same(h, IndexedRoom(r))
    BY <2>1, <2>2, SameTrans
  <2>4. QED  BY <1>4, <2>2, <2>3 DEF r
<1>5. CASE h.form = "none" /\ ~ (LinearMax > 0)
  <2>1. LinearMax = 0
    BY <1>1, <1>5
  <2>2. Room(h) = IndexedRoom(IndexResized(h, MinCapacity))
    BY <1>5, <2>1 DEF Room
  <2>3. QED  BY <1>1, <1>4, <2>2
<1>6. CASE h.form = "linear" /\ Used(h) < h.cap
  <2> DEFINE A == IndexedRoom(h)
             B == Reserved(h, 1)
             C == IndexedRoom(IndexResized(h, MinCapacity))
             D == Reserved(h, Smaller(2 * h.cap, LinearMax))
             E == IndexedRoom(Promoted(h))
             full == Used(h) = h.cap /\ h.cap < LinearMax
             small == Used(h) < h.cap
  <2>0. Room(h) = CASE h.form = "indexed" -> A
                    [] h.form = "none" /\ LinearMax > 0 -> B
                    [] h.form = "none" /\ LinearMax = 0 -> C
                    [] h.form = "linear" /\ small -> h
                    [] h.form = "linear" /\ full -> D
                    [] OTHER -> E
    BY DEF Room
  <2>1. Room(h) = h
    <3>1. h.form = "linear" /\ small /\ ~full
      BY <1>1, <1>6
    <3> HIDE DEF A, B, C, D, E, full, small
    <3>2. QED  BY <2>0, <3>1
  <2>2. QED  BY <1>6, <2>1, SameSelf
<1>7. CASE h.form = "linear" /\ Used(h) = h.cap /\ h.cap < LinearMax
  <2>1. PICK n \in Nat : n = Smaller(2 * h.cap, LinearMax) /\ n > h.cap
    BY <1>1, <1>7 DEF Smaller
  <2>2. Room(h) = Reserved(h, n)
    BY <1>1, <1>7, <2>1 DEF Room
  <2> DEFINE g == Reserved(h, n)
  <2>3. Sound(g) /\ Same(h, g) /\ Used(g) = Used(h) /\ g.cap >= n /\ g.form = h.form
    BY <1>7, ReservedFacts
  <2>4. g.cap \in Nat
    BY <2>3, SoundFacts
  <2> HIDE DEF g
  <2>5. QED  BY <1>1, <1>7, <2>1, <2>2, <2>3, <2>4 DEF g
<1>8. CASE h.form = "linear" /\ Used(h) = h.cap /\ ~ (h.cap < LinearMax)
  <2>1. Room(h) = IndexedRoom(Promoted(h))
    BY <1>1, <1>8 DEF Room
  <2>2. PICK b \in Nat : Promoted(h) = IndexResized(h, b)
    BY DoubledIsNumber DEF Promoted
  <2>3. QED  BY <1>4, <2>1, <2>2
<1>9. QED
  <2>1. h.form = "linear" => Used(h) < h.cap \/ Used(h) = h.cap
    BY <1>1
  <2>2. QED  BY <1>1, <1>2, <1>3, <1>5, <1>6, <1>7, <1>8, <2>1

-----------------------------------------------------------------------------
\* Adding and taking out.
LEMMA OrderFacts ==
    ASSUME NEW h \in Table
    PROVE  /\ h.entries \in Seq(Entry \cup {Hole}) /\ Live(h) \in SUBSET (DOMAIN h.entries)
           /\ \A p \in Live(h) : h.entries[p] \in Entry
           /\ Order(h) \in Seq(Key) /\ Len(Order(h)) = Cardinality(Live(h))
           /\ DOMAIN Order(h) = 1 .. Cardinality(Live(h))
           /\ \A p \in Live(h) : /\ Rank(Live(h), p) \in 1 .. Cardinality(Live(h))
                                 /\ Order(h)[Rank(Live(h), p)] = h.entries[p].key
           /\ \A r \in 1 .. Cardinality(Live(h)) :
                 \E p \in Live(h) : Rank(Live(h), p) = r /\ Order(h)[r] = h.entries[p].key
<1>1. /\ h.entries \in Seq(Entry \cup {Hole}) /\ Live(h) \in SUBSET (DOMAIN h.entries)
      /\ \A p \in Live(h) : h.entries[p] \in Entry
  BY TableFacts, LiveFacts
<1> DEFINE kept == Live(h)
           entries == h.entries
<1>2. Order(h) = Listed(entries, kept)
  BY OrderIsListed
<1>3. /\ entries \in Seq(Entry \cup {Hole}) /\ kept \in SUBSET (DOMAIN entries)
      /\ \A p \in kept : entries[p] \in Entry
  BY <1>1
<1> HIDE DEF kept, entries
<1>4. /\ Order(h) \in Seq(Key) /\ Len(Order(h)) = Cardinality(kept)
      /\ DOMAIN Order(h) = 1 .. Cardinality(kept)
      /\ \A p \in kept : /\ Rank(kept, p) \in 1 .. Cardinality(kept)
                         /\ Order(h)[Rank(kept, p)] = entries[p].key
      /\ \A r \in 1 .. Cardinality(kept) :
            \E p \in kept : Rank(kept, p) = r /\ Order(h)[r] = entries[p].key
  BY <1>2, <1>3, ListedFacts
<1>5. QED  BY <1>1, <1>4 DEF kept, entries

\* A key that is not found is not in the order.
LEMMA FoundFacts ==
    ASSUME NEW h, Sound(h), NEW k
    PROVE  Found(h, k) = {} <=> \A r \in DOMAIN Order(h) : Order(h)[r] # k
<1>1. h \in Table /\ Searched(h) = Live(h)
  BY DEF Sound, Intact, Formed
<1>2. Found(h, k) = {p \in Live(h) : h.entries[p].key = k}
  BY <1>1 DEF Found, Live
<1>3. QED  BY <1>1, <1>2, OrderFacts

LEMMA AddedFacts ==
    ASSUME NEW h, Sound(h), NEW k \in Key, Found(h, k) = {}
    PROVE  LET g == Added(h, k)
           IN /\ Sound(g) /\ g.keys = h.keys + 1 /\ g.placeholders = h.placeholders
              /\ Order(g) = Append(Order(h), k) /\ Absent(g) = Absent(h)
              /\ Iterating(g) = Iterating(h) /\ Stale(g) = Iterating(h)
              /\ Passed(g) = IF Iterating(h) THEN 0 ELSE Passed(h)
<1> DEFINE r == Room(h)
           g == Added(h, k)
           new == [key |-> k, placeholder |-> FALSE]
           entries == Append(r.entries, new)
           indexed == IF r.form = "indexed" THEN r.indexed \cup {Used(r) + 1} ELSE r.indexed
           inserted == r.inserted \/ r.riter > 0 \/ r.active
<1>1. Sound(r) /\ Same(h, r) /\ r.form # "none" /\ Used(r) < r.cap
  BY RoomFacts
<1>2. g = [r EXCEPT !.entries = entries, !.indexed = indexed,
                    !.keys = r.keys + 1, !.inserted = inserted]
  <2>1. r \in Table
    BY <1>1 DEF Sound, Intact
  <2> HIDE DEF r
  <2>2. QED  BY <2>1 DEF Added, r, Table
<1> HIDE DEF r, g
<1>3. /\ r \in Table /\ Intact(r) /\ Formed(r) /\ Anchored(r) /\ r.keys = Cardinality(Live(r))
      /\ \A p, q \in Live(r) : r.entries[p].key = r.entries[q].key => p = q
  BY <1>1 DEF Sound, Intact
<1>4. /\ r.entries \in Seq(Entry \cup {Hole}) /\ r.cap \in Nat /\ r.keys \in Int
      /\ r.riter \in Nat /\ r.eiter \in Int
      /\ r.lazydel \in BOOLEAN /\ r.inserted \in BOOLEAN /\ r.active \in BOOLEAN
      /\ DOMAIN r.entries = 1 .. Used(r) /\ Used(r) \in Nat
      /\ r.indexed \in SUBSET (Nat \ {0})
      /\ r.form \in {"none", "linear", "indexed"} /\ Used(r) = Len(r.entries)
  BY <1>3, TableFacts DEF Used
<1>5. /\ Live(r) \in SUBSET (DOMAIN r.entries) /\ Live(r) \in SUBSET (Nat \ {0})
      /\ IsFiniteSet(Live(r)) /\ Cardinality(Live(r)) \in Nat
      /\ \A p \in Live(r) : r.entries[p] \in Entry
  BY <1>3, LiveFacts
<1> DEFINE last == Used(r) + 1
<1>6. new \in Entry /\ new # Hole /\ new.key = k /\ new.placeholder = FALSE
  BY HashAssumption DEF Entry
<1> HIDE DEF new
<1>7. /\ entries \in Seq(Entry \cup {Hole}) /\ Len(entries) = last
      /\ DOMAIN entries = 1 .. last /\ entries[last] = new
      /\ \A p \in 1 .. Used(r) : entries[p] = r.entries[p]
  BY <1>4, <1>6
<1>8. indexed \in SUBSET (Nat \ {0}) /\ inserted \in BOOLEAN /\ last \in Nat \ {0}
  BY <1>4
<1> HIDE DEF entries, indexed, inserted
<1>9. g \in Table
  <2>1. PICK keys \in Int : keys = r.keys + 1
    BY <1>4
  <2>2. g = [r EXCEPT !.entries = entries, !.indexed = indexed,
                      !.keys = keys, !.inserted = inserted]
    BY <1>2, <2>1
  <2>3. r \in Table /\ entries \in Seq(Entry \cup {Hole})
    BY <1>3, <1>7
  <2>4. QED  BY <1>8, <2>2, <2>3 DEF Table
<1>10. /\ g.entries = entries /\ g.indexed = indexed /\ g.keys = r.keys + 1
       /\ g.inserted = inserted /\ g.form = r.form /\ g.cap = r.cap
       /\ g.placeholders = r.placeholders /\ g.riter = r.riter /\ g.eiter = r.eiter
       /\ g.lazydel = r.lazydel /\ g.active = r.active
  BY <1>2, <1>3 DEF Table
<1>11. Live(g) = Live(r) \cup {last} /\ last \notin Live(r)
  <2>1. \A p \in 1 .. last : p \in 1 .. Used(r) \/ p = last
    BY <1>4
  <2>2. last \notin 1 .. Used(r) /\ r.eiter # last
    BY <1>3, <1>4 DEF Anchored
  <2>3. 1 .. Used(r) \in SUBSET (1 .. last) /\ last \in 1 .. last
    BY <1>4
  <2> HIDE DEF last
  <2>4. QED  BY <1>4, <1>6, <1>7, <1>10, <2>1, <2>2, <2>3 DEF Live
<1>12. Cardinality(Live(g)) = Cardinality(Live(r)) + 1 /\ IsFiniteSet(Live(g))
  BY <1>5, <1>11, FS_AddElement
<1>13. \A p \in Live(r) : g.entries[p] = r.entries[p] /\ p \in 1 .. Used(r) /\ p < last
  BY <1>4, <1>5, <1>7, <1>10
<1>14. \A p \in Live(r) : r.entries[p].key # k
  <2>1. Order(r) = Order(h)
    BY <1>1 DEF Same, SameView
  <2>2. \A i \in DOMAIN Order(r) : Order(r)[i] # k
    BY <2>1, FoundFacts
  <2>3. QED  BY <1>3, <2>2, OrderFacts
<1>15. \A p, q \in Live(g) : g.entries[p].key = g.entries[q].key => p = q
  <2>1. g.entries[last].key = k
    BY <1>6, <1>7, <1>10
  <2> HIDE DEF last
  <2>2. QED  BY <1>3, <1>11, <1>13, <1>14, <2>1
<1>16. Anchored(g)
  <2>1. r.eiter > 0 => r.eiter # last /\ g.entries[r.eiter] = r.entries[r.eiter]
                       /\ r.eiter \in DOMAIN g.entries
    BY <1>3, <1>4, <1>7, <1>10 DEF Anchored
  <2> HIDE DEF last
  <2>2. QED  BY <1>3, <1>10, <1>11, <2>1 DEF Anchored
<1>17. Intact(g)
  BY <1>3, <1>9, <1>10, <1>12, <1>15, <1>16 DEF Intact
<1>18. Formed(g)
  <2>1. Searched(g) = Live(g)
    <3>1. CASE r.form = "indexed"
      BY <1>3, <1>10, <1>11, <3>1 DEF Searched, Formed, indexed
    <3>2. CASE r.form # "indexed"
      <4>1. Live(r) = 1 .. Used(r)
        BY <1>3, <1>4, <3>2 DEF Searched, Formed
      <4>2. 1 .. last = (1 .. Used(r)) \cup {last}
        BY <1>4
      <4>3. QED  BY <1>7, <1>10, <1>11, <3>2, <4>1, <4>2 DEF Searched
    <3>3. QED  BY <3>1, <3>2
  <2>2. Used(g) <= g.cap
    BY <1>1, <1>4, <1>7, <1>10 DEF Used
  <2>3. QED  BY <1>1, <1>3, <1>10, <2>1, <2>2 DEF Formed
<1>19. \A p \in Nat : p < last => Rank(Live(g), p) = Rank(Live(r), p)
  <2>1. SUFFICES ASSUME NEW p \in Nat, p < last
                 PROVE  {q \in Live(g) : q <= p} = {q \in Live(r) : q <= p}
    BY DEF Rank
  <2>2. ~ (last <= p)
    BY <1>8, <2>1
  <2> HIDE DEF last
  <2>3. QED  BY <1>11, <2>2
<1>20. Rank(Live(g), last) = Cardinality(Live(r)) + 1
  <2>1. \A q \in Live(g) : q <= last
    BY <1>4, <1>5, <1>8, <1>11
  <2>2. {q \in Live(g) : q <= last} = Live(g)
    BY <2>1
  <2>3. QED  BY <1>12, <2>2 DEF Rank
<1>21. Order(g) = Append(Order(h), k)
  <2> DEFINE n == Cardinality(Live(r))
             s == Append(Order(r), k)
  <2>1. /\ Order(r) \in Seq(Key) /\ Len(Order(r)) = n /\ n \in Nat
        /\ \A p \in Live(r) : /\ Rank(Live(r), p) \in 1 .. n
                              /\ Order(r)[Rank(Live(r), p)] = r.entries[p].key
    BY <1>3, <1>5, OrderFacts
  <2> HIDE DEF n
  <2>2. /\ s \in Seq(Key) /\ Len(s) = n + 1 /\ s[n + 1] = k
        /\ \A i \in 1 .. n : s[i] = Order(r)[i]
    BY <2>1
  <2> HIDE DEF s
  <2>3. \A p \in Live(g) : s[Rank(Live(g), p)] = g.entries[p].key
    <3>1. ASSUME NEW p \in Live(r)  PROVE s[Rank(Live(g), p)] = g.entries[p].key
      BY <1>5, <1>13, <1>19, <2>1, <2>2
    <3>2. s[Rank(Live(g), last)] = g.entries[last].key
      BY <1>6, <1>7, <1>10, <1>20, <2>2 DEF n
    <3> HIDE DEF last
    <3>3. QED  BY <1>11, <3>1, <3>2
  <2>4. Len(s) = Cardinality(Live(g))
    BY <1>12, <2>2 DEF n
  <2>5. Listed(g.entries, Live(g)) = s
    <3>1. /\ g.entries \in Seq(Entry \cup {Hole}) /\ Live(g) \in SUBSET (DOMAIN g.entries)
          /\ \A p \in Live(g) : g.entries[p] \in Entry
      BY <1>9, OrderFacts
    <3>2. QED  BY <2>2, <2>3, <2>4, <3>1, ListedIs
  <2>6. Order(r) = Order(h)
    BY <1>1 DEF Same, SameView
  <2>7. QED  BY <2>5, <2>6, OrderIsListed DEF s
<1>22. Absent(g) = Absent(h)
  <2>1. ~ g.entries[last].placeholder
    BY <1>6, <1>7, <1>10
  <2> HIDE DEF last
  <2>2. {q \in Live(g) : g.entries[q].placeholder} = {q \in Live(r) : r.entries[q].placeholder}
    BY <1>11, <1>13, <2>1
  <2>3. \A p \in {q \in Live(r) : r.entries[q].placeholder} : g.entries[p] = r.entries[p]
    BY <1>13
  <2>4. Hidden(g.entries, Live(g)) = Hidden(r.entries, Live(r))
    BY <2>2, <2>3 DEF Hidden
  <2>5. Absent(r) = Absent(h)
    BY <1>1 DEF Same, SameView
  <2>6. QED  BY <2>4, <2>5, OrderIsListed
<1>23. Iterating(g) = Iterating(h)
  <2>1. Iterating(r) = Iterating(h)
    BY <1>1 DEF Same, SameView
  <2>2. QED  BY <1>10, <2>1 DEF Iterating
<1>24. Stale(g) = Iterating(h)
  <2>1. Stale(g) <=> Iterating(g)
    BY <1>10 DEF Stale, Iterating, inserted
  <2>2. Stale(g) = Iterating(g)
    BY <2>1 DEF Stale, Iterating
  <2>3. QED  BY <1>23, <2>2
<1>25. Passed(g) = IF Iterating(h) THEN 0 ELSE Passed(h)
  <2>1. CASE Iterating(h)
    BY <1>24, <2>1 DEF Passed
  <2>2. CASE ~Iterating(h)
    <3>1. Iterating(r) = Iterating(h) /\ Passed(r) = Passed(h)
      BY <1>1 DEF Same, SameView
    <3>2. ~Stale(g) /\ ~Stale(r)
      BY <1>24, <2>2, <3>1 DEF Stale
    <3>3. r.riter = 0
      BY <1>4, <2>2, <3>1 DEF Iterating
    <3>4. Rank(Live(g), g.riter) = Rank(Live(r), r.riter)
      BY <1>4, <1>10, <1>19, <3>3
    <3>5. QED  BY <2>2, <3>1, <3>2, <3>4 DEF Passed
  <2>3. QED  BY <2>1, <2>2
<1>26. QED
  <2>1. r.keys = h.keys /\ r.placeholders = h.placeholders
    BY <1>1 DEF Same
  <2>2. QED
    BY <1>10, <1>17, <1>18, <1>21, <1>22, <1>23, <1>24, <1>25, <2>1 DEF Sound, g

\* What is left when the entries at the positions in gone are taken out: the
\* others, in their order, and the iterator between the same two of them, unless
\* the iteration is given up.
Taken(h, gone, g) ==
    LET kept == Live(h) \ gone
    IN /\ Sound(g) /\ g.placeholders = h.placeholders /\ g.keys = Cardinality(kept)
       /\ Order(g) = Listed(h.entries, kept) /\ Absent(g) = Hidden(h.entries, kept)
       /\ \/ /\ Iterating(g) = Iterating(h) /\ Stale(g) = Stale(h)
             /\ Passed(g) = IF Stale(h) THEN 0 ELSE Rank(kept, h.riter)
          \/ ~Iterating(g) /\ ~Stale(g) /\ Passed(g) = 0

LEMMA LinearRemovedFacts ==
    ASSUME NEW h, Sound(h), h.form # "indexed", NEW gone \in SUBSET Live(h)
    PROVE  Taken(h, gone, LinearRemoved(h, gone))
<1> DEFINE g == LinearRemoved(h, gone)
           kept == Live(h) \ gone
           left == Cardinality(kept)
           form == IF left = 0 THEN "none" ELSE h.form
           entries == Packed(h.entries, kept)
           cap == IF left <= 1 THEN left ELSE h.cap
           riter == Rank(kept, h.riter)
           eiter == CASE h.eiter <= 0 -> h.eiter
                      [] h.eiter \in gone -> Null
                      [] OTHER -> Rank(kept, h.eiter)
<1>1. /\ h \in Table /\ Intact(h) /\ Formed(h) /\ Anchored(h) /\ Live(h) = DOMAIN h.entries
      /\ Used(h) \in Nat /\ h.cap \in Nat /\ Used(h) <= h.cap
      /\ \A p, q \in kept : h.entries[p].key = h.entries[q].key => p = q
  BY SoundFacts DEF Sound, Intact
<1>2. /\ h.entries \in Seq(Entry \cup {Hole}) /\ DOMAIN h.entries = 1 .. Used(h)
      /\ h.riter \in Nat /\ h.eiter \in Int /\ h.lazydel \in BOOLEAN /\ h.active \in BOOLEAN
      /\ h.form \in {"none", "linear", "indexed"}
  BY <1>1, TableFacts
<1>3. /\ kept \in SUBSET (DOMAIN h.entries) /\ kept \in SUBSET (Nat \ {0})
      /\ IsFiniteSet(kept) /\ left \in Nat /\ left <= Used(h)
      /\ entries \in Seq(Entry \cup {Hole}) /\ Len(entries) = left
      /\ \A p \in kept : Rank(kept, p) \in 1 .. left
  <2>1. kept \in SUBSET (DOMAIN h.entries) /\ kept \in SUBSET (Nat \ {0})
    BY <1>1, LiveFacts
  <2>2. h.entries \in Seq(Entry \cup {Hole})
    BY <1>2
  <2> DEFINE S == Entry \cup {Hole}
  <2> HIDE DEF kept, S
  <2>3. /\ IsFiniteSet(kept) /\ Cardinality(kept) \in Nat
        /\ Cardinality(kept) <= Len(h.entries)
        /\ Packed(h.entries, kept) \in Seq(S)
        /\ Len(Packed(h.entries, kept)) = Cardinality(kept)
        /\ \A p \in kept : Rank(kept, p) \in 1 .. Cardinality(kept)
    BY <2>1, <2>2, PackedFacts DEF S
  <2>4. QED  BY <2>1, <2>3 DEF Used, S
<1>4. g = [h EXCEPT !.form = form, !.entries = entries, !.cap = cap, !.keys = left,
                    !.riter = riter, !.eiter = eiter]
  BY <1>1 DEF LinearRemoved
<1>5. riter \in 0 .. left
  <2> HIDE DEF kept
  <2>1. QED  BY <1>2, <1>3, RankFacts
<1>6. /\ h.eiter > 0 => h.eiter = h.riter /\ ~h.lazydel /\ h.eiter \in Live(h)
      /\ h.lazydel => h.eiter = Retired
      /\ ~h.lazydel => h.eiter >= 0
      /\ h.eiter \in gone => h.eiter > 0
  BY <1>1, <1>2, AnchorFacts
<1>7. /\ eiter \in Int /\ eiter >= Retired
      /\ eiter > 0 => eiter = riter /\ eiter \in 1 .. left
      /\ h.lazydel <=> eiter = Retired
  <2>1. CASE h.eiter <= 0
    <3>1. eiter = h.eiter
      BY <1>2, <1>6, <2>1
    <3> HIDE DEF eiter
    <3>2. QED  BY <1>2, <1>6, <2>1, <3>1 DEF Retired
  <2>2. CASE h.eiter > 0 /\ h.eiter \in gone
    BY <1>2, <1>6, <2>2 DEF Retired, Null
  <2>3. CASE h.eiter > 0 /\ h.eiter \notin gone
    <3>1. h.eiter \in kept /\ h.riter = h.eiter /\ ~h.lazydel
      BY <1>6, <2>3
    <3>2. eiter = Rank(kept, h.eiter)
      BY <1>2, <2>3
    <3>3. eiter \in 1 .. left /\ eiter = riter
      BY <1>3, <3>1, <3>2
    <3> HIDE DEF eiter
    <3>4. QED  BY <1>3, <3>1, <3>3 DEF Retired
  <2>4. QED  BY <1>2, <2>1, <2>2, <2>3
<1>8. form \in {"none", "linear"} /\ cap \in Nat /\ riter \in Nat /\ left \in Int
  BY <1>1, <1>2, <1>3, <1>5
<1> HIDE DEF g, entries, eiter, riter, left, form, cap
<1>9. g \in Table
  BY <1>1, <1>3, <1>4, <1>7, <1>8 DEF Table
<1>10. /\ g.form = form /\ g.entries = entries /\ g.cap = cap /\ g.keys = left
       /\ g.riter = riter /\ g.eiter = eiter
       /\ g.placeholders = h.placeholders /\ g.lazydel = h.lazydel
       /\ g.inserted = h.inserted /\ g.active = h.active
  BY <1>1, <1>4 DEF Table
<1>11. g.lazydel => g.eiter <= 0
  BY <1>7, <1>10 DEF Retired
<1>12. /\ Live(g) = 1 .. left /\ DOMAIN g.entries = 1 .. left /\ Cardinality(Live(g)) = left
       /\ Used(g) = left /\ \A r \in Live(g) : g.entries[r] # Hole
       /\ \A r \in 0 .. left : Rank(Live(g), r) = r
       /\ Order(g) = Listed(h.entries, kept) /\ Absent(g) = Hidden(h.entries, kept)
       /\ \A p, q \in Live(g) : g.entries[p].key = g.entries[q].key => p = q
  <2>1. kept \in SUBSET Live(h) /\ g.entries = Packed(h.entries, kept)
    BY <1>10 DEF entries
  <2> HIDE DEF kept
  <2>2. left = Cardinality(kept)
    BY DEF left
  <2>3. h \in Table /\ (g.lazydel => g.eiter <= 0)
    BY <1>1, <1>11
  <2>4. /\ Live(g) = 1 .. Cardinality(kept) /\ DOMAIN g.entries = 1 .. Cardinality(kept)
        /\ Cardinality(Live(g)) = Cardinality(kept) /\ Used(g) = Cardinality(kept)
        /\ \A r \in Live(g) : g.entries[r] # Hole
        /\ \A r \in 0 .. Cardinality(kept) : Rank(Live(g), r) = r
    BY ONLY <1>9, <2>1, <2>3, PackedTable
  <2>5. (\A p, q \in kept : h.entries[p].key = h.entries[q].key => p = q) =>
           \A p, q \in Live(g) : g.entries[p].key = g.entries[q].key => p = q
    BY ONLY <1>9, <2>1, <2>3, PackedTable
  <2>6. Order(g) = Listed(h.entries, kept) /\ Absent(g) = Hidden(h.entries, kept)
    BY ONLY <1>9, <2>1, <2>3, PackedTable
  <2>7. \A p, q \in kept : h.entries[p].key = h.entries[q].key => p = q
    BY <1>1
  <2>8. QED  BY <2>2, <2>4, <2>5, <2>6, <2>7
<1>13. Anchored(g)
  BY <1>7, <1>10, <1>12 DEF Anchored
<1>14. Intact(g)
  BY <1>9, <1>10, <1>12, <1>13 DEF Intact
<1>15. Formed(g)
  <2>1. Searched(g) = Live(g)
    BY <1>8, <1>10, <1>12 DEF Searched
  <2>2. Used(g) <= g.cap
    BY <1>1, <1>3, <1>10, <1>12 DEF cap
  <2>3. form = "none" => left = 0
    <3>1. h.form = "none" => Used(h) = 0
      BY <1>1 DEF Formed, Used
    <3>2. QED  BY <1>1, <1>3, <3>1 DEF form
  <2>4. left = 0 => g.entries = <<>> /\ g.cap = 0
    BY <1>3, <1>10 DEF cap
  <2>5. form = "linear" => left # 0
    BY DEF form
  <2>6. left # 0 => g.cap >= 1
    BY <1>1, <1>3, <1>10 DEF cap
  <2>7. QED  BY <1>1, <1>8, <1>10, <2>1, <2>2, <2>3, <2>4, <2>5, <2>6 DEF Formed
<1>16. Rank(Live(g), g.riter) = Rank(kept, h.riter)
  BY <1>5, <1>10, <1>12 DEF riter
<1>17. \/ /\ Iterating(g) = Iterating(h) /\ Stale(g) = Stale(h)
          /\ Passed(g) = IF Stale(h) THEN 0 ELSE Rank(kept, h.riter)
       \/ ~Iterating(g) /\ ~Stale(g) /\ Passed(g) = 0
  <2>1. h.riter = 0 => riter = 0
    BY <1>3, RankOfStart DEF riter
  <2>2. h.riter > 0 \/ h.riter = 0
    BY <1>2
  <2>3. CASE h.active \/ riter > 0
    <3>1. Iterating(g) /\ Iterating(h)
      BY <1>10, <2>1, <2>2, <2>3 DEF Iterating
    <3>2. Iterating(g) = Iterating(h)
      BY <3>1 DEF Iterating
    <3>3. Stale(g) = Stale(h)
      BY <1>10, <3>2 DEF Stale
    <3>4. QED  BY <1>16, <3>2, <3>3 DEF Passed
  <2>4. CASE ~ (h.active \/ riter > 0)
    <3>1. ~Iterating(g) /\ ~Stale(g)
      BY <1>10, <2>4 DEF Iterating, Stale
    <3>2. g.riter = 0
      BY <1>5, <1>10, <2>4
    <3>3. Passed(g) = 0
      BY <1>3, <1>12, <3>1, <3>2 DEF Passed
    <3>4. QED  BY <3>1, <3>3
  <2>5. QED  BY <2>3, <2>4
<1>18. QED
  BY <1>10, <1>12, <1>14, <1>15, <1>17 DEF Taken, Sound, g, left

LEMMA IndexedRemovedFacts ==
    ASSUME NEW h, Sound(h), h.form = "indexed", NEW gone \in SUBSET Live(h)
    PROVE  Taken(h, gone, IndexedRemoved(h, gone))
<1> DEFINE g == IndexedRemoved(h, gone)
           kept == Live(h) \ gone
           left == Cardinality(kept)
           entries == [p \in DOMAIN h.entries |->
                          IF p \in gone /\ p # h.eiter THEN Hole ELSE h.entries[p]]
           lazydel == h.lazydel \/ h.eiter \in gone
<1>1. /\ h \in Table /\ Intact(h) /\ Formed(h) /\ Anchored(h)
      /\ h.keys = Cardinality(Live(h)) /\ Live(h) = h.indexed
      /\ \A p, q \in Live(h) : h.entries[p].key = h.entries[q].key => p = q
  BY SoundFacts DEF Sound, Intact, Formed, Searched
<1>2. /\ h.entries \in Seq(Entry \cup {Hole}) /\ DOMAIN h.entries = 1 .. Used(h)
      /\ Used(h) \in Nat /\ h.indexed \in SUBSET (Nat \ {0}) /\ Used(h) = Len(h.entries)
      /\ h.riter \in Nat /\ h.eiter \in Int /\ h.lazydel \in BOOLEAN /\ h.active \in BOOLEAN
  BY <1>1, TableFacts DEF Used
<1>3. /\ Live(h) \in SUBSET (DOMAIN h.entries) /\ Live(h) \in SUBSET (Nat \ {0})
      /\ IsFiniteSet(Live(h)) /\ \A p \in Live(h) : h.entries[p] \in Entry
  BY <1>1, LiveFacts
<1>4. /\ left \in Nat /\ left = h.keys - Cardinality(gone)
      /\ IsFiniteSet(gone) /\ Cardinality(gone) \in Nat
  <2>1. Live(h) \cap gone = gone
    OBVIOUS
  <2>2. IsFiniteSet(gone) /\ Cardinality(gone) \in Nat
    BY <1>3, FS_Subset, FS_CardinalityType
  <2>3. IsFiniteSet(kept) /\ left = Cardinality(Live(h)) - Cardinality(Live(h) \cap gone)
    BY <1>3, <2>2, FS_Difference
  <2> HIDE DEF kept
  <2>4. left \in Nat
    BY <2>3, FS_CardinalityType
  <2> HIDE DEF left
  <2>5. QED  BY <1>1, <2>1, <2>2, <2>3, <2>4
<1>5. /\ entries \in Seq(Entry \cup {Hole}) /\ DOMAIN entries = 1 .. Used(h)
      /\ Len(entries) = Used(h)
  <2>1. \A p \in 1 .. Used(h) : h.entries[p] \in Entry \cup {Hole}
    BY <1>2
  <2>2. entries \in [1 .. Used(h) -> Entry \cup {Hole}]
    BY <1>2, <2>1
  <2> HIDE DEF entries
  <2>3. QED  BY <1>2, <2>2
<1>6. \A p \in 1 .. Used(h) :
         entries[p] = IF p \in gone /\ p # h.eiter THEN Hole ELSE h.entries[p]
  BY <1>2
<1>7. /\ h.eiter > 0 => h.eiter = h.riter
      /\ h.eiter > 0 /\ ~h.lazydel => h.eiter \in Live(h)
      /\ h.eiter > 0 /\ h.lazydel => h.eiter \notin Live(h)
      /\ h.eiter > 0 => h.eiter \in DOMAIN h.entries /\ h.entries[h.eiter] # Hole
      /\ h.lazydel /\ h.eiter <= 0 => h.eiter = Retired
      /\ h.eiter \in gone => h.eiter > 0
      /\ ~h.lazydel => h.eiter >= 0
      /\ h.eiter >= Retired
  BY <1>1, <1>2, <1>3, AnchorFacts DEF Anchored
<1>8. g = [h EXCEPT !.entries = entries, !.indexed = kept, !.keys = left,
                    !.lazydel = lazydel]
  <2>1. kept = h.indexed \ gone
    BY <1>1
  <2> HIDE DEF entries, lazydel, kept, left
  <2>2. QED  BY <1>1, <1>4, <2>1 DEF IndexedRemoved, Table, entries, lazydel
<1>9. kept \in SUBSET (Nat \ {0}) /\ left \in Int /\ lazydel \in BOOLEAN
  BY <1>2, <1>3, <1>4
<1>10. lazydel <=> h.lazydel \/ h.eiter \in gone
  OBVIOUS
<1>11. \A p : p \in kept <=> p \in Live(h) /\ p \notin gone
  OBVIOUS
<1> HIDE DEF g, entries, lazydel, kept, left
<1>12. g \in Table
  BY <1>1, <1>5, <1>8, <1>9 DEF Table
<1>13. /\ g.entries = entries /\ g.indexed = kept /\ g.keys = left /\ g.lazydel = lazydel
       /\ g.form = h.form /\ g.cap = h.cap /\ g.placeholders = h.placeholders
       /\ g.riter = h.riter /\ g.eiter = h.eiter
       /\ g.inserted = h.inserted /\ g.active = h.active
  BY <1>1, <1>8 DEF Table
<1>14. ASSUME NEW p \in 1 .. Used(h)
       PROVE  p \in Live(g) <=> p \in kept
  <2>1. p \in Live(h) <=> h.entries[p] # Hole /\ ~ (h.lazydel /\ h.eiter = p)
    BY <1>2 DEF Live
  <2>2. p \in Live(g) <=> entries[p] # Hole /\ ~ (lazydel /\ h.eiter = p)
    BY <1>5, <1>13 DEF Live
  <2>3. p \in gone => p \in Live(h)
    OBVIOUS
  <2>4. QED  BY <1>6, <1>7, <1>10, <1>11, <2>1, <2>2, <2>3
<1>15. Live(g) = kept
  <2>1. Live(g) \in SUBSET (1 .. Used(h)) /\ kept \in SUBSET (1 .. Used(h))
    BY <1>2, <1>3, <1>5, <1>11, <1>13 DEF Live
  <2>2. QED  BY <1>14, <2>1
<1>16. \A p \in kept : entries[p] = h.entries[p] /\ p \in Live(h)
  BY <1>2, <1>3, <1>6, <1>11
<1>17. \A p, q \in Live(g) : g.entries[p].key = g.entries[q].key => p = q
  BY <1>1, <1>13, <1>15, <1>16
<1>18. Anchored(g)
  <2>1. h.eiter > 0 => entries[h.eiter] # Hole /\ h.eiter \in DOMAIN entries
    BY <1>2, <1>5, <1>6, <1>7
  <2>2. lazydel <=> h.eiter = Retired \/ (h.eiter > 0 /\ h.eiter \notin kept)
    BY <1>2, <1>7, <1>10, <1>11 DEF Retired
  <2>3. QED  BY <1>7, <1>13, <1>15, <2>1, <2>2 DEF Anchored
<1>19. Intact(g)
  BY <1>12, <1>13, <1>15, <1>17, <1>18 DEF Intact, left
<1>20. Formed(g)
  <2>1. Used(g) = Used(h)
    BY <1>5, <1>13 DEF Used
  <2>2. QED  BY <1>1, <1>13, <1>15, <2>1 DEF Formed, Searched
<1>21. Order(g) = Listed(h.entries, kept) /\ Absent(g) = Hidden(h.entries, kept)
  <2>1. /\ kept \in SUBSET (DOMAIN h.entries) /\ kept \in SUBSET (DOMAIN entries)
        /\ \A p \in kept : h.entries[p] \in Entry /\ entries[p] \in Entry
                           /\ entries[p].key = h.entries[p].key
    BY <1>2, <1>3, <1>5, <1>16
  <2>2. Listed(entries, kept) = Listed(h.entries, kept)
    BY <1>2, <1>5, <2>1, ListedAgree
  <2>3. Hidden(entries, kept) = Hidden(h.entries, kept)
    BY <1>16, HiddenAgree
  <2>4. QED  BY <1>13, <1>15, <2>2, <2>3, OrderIsListed
<1>22. /\ Iterating(g) = Iterating(h) /\ Stale(g) = Stale(h)
       /\ Passed(g) = IF Stale(h) THEN 0 ELSE Rank(kept, h.riter)
  BY <1>13, <1>15 DEF Iterating, Stale, Passed
<1>23. QED
  BY <1>13, <1>19, <1>20, <1>21, <1>22 DEF Taken, Sound, g, left, kept

LEMMA RemovedFacts ==
    ASSUME NEW h, Sound(h), NEW gone \in SUBSET Live(h)
    PROVE  Taken(h, gone, Removed(h, gone))
BY LinearRemovedFacts, IndexedRemovedFacts DEF Removed

-----------------------------------------------------------------------------
\* The iterator.
LEMMA LazyFreedFacts ==
    ASSUME NEW h, Sound(h)
    PROVE  LET g == LazyFreed(h)
           IN /\ Sound(g) /\ Same(h, g) /\ Live(g) = Live(h) /\ WithValue(g) = WithValue(h)
              /\ g.lazydel = FALSE /\ g.form = h.form /\ g.cap = h.cap
              /\ g.riter = h.riter /\ g.inserted = h.inserted /\ g.active = h.active
              /\ g.eiter = IF h.lazydel THEN Null ELSE h.eiter
<1> DEFINE g == LazyFreed(h)
           entries == IF h.eiter > 0 THEN [h.entries EXCEPT ![h.eiter] = Hole] ELSE h.entries
<1>1. h \in Table /\ Intact(h) /\ Formed(h) /\ Anchored(h)
  BY DEF Sound, Intact
<1>2. /\ h.entries \in Seq(Entry \cup {Hole}) /\ DOMAIN h.entries = 1 .. Used(h)
      /\ Used(h) \in Nat /\ h.eiter \in Int /\ h.lazydel \in BOOLEAN /\ Used(h) = Len(h.entries)
  BY <1>1, TableFacts DEF Used
<1>3. h.lazydel => h.eiter # Null
  BY <1>1, AnchorFacts
<1>4. CASE ~h.lazydel
  <2>1. g = h
    BY <1>4 DEF LazyFreed
  <2>2. h.lazydel = FALSE
    BY <1>2, <1>4
  <2>3. QED  BY <2>1, <2>2, SameSelf
<1>5. CASE h.lazydel
  <2>1. g = [h EXCEPT !.lazydel = FALSE, !.eiter = Null, !.entries = entries]
    BY <1>1, <1>3, <1>5 DEF LazyFreed, Table
  <2>2. /\ entries \in Seq(Entry \cup {Hole}) /\ DOMAIN entries = 1 .. Used(h)
        /\ Len(entries) = Used(h)
        /\ \A p \in 1 .. Used(h) : entries[p] = IF p = h.eiter THEN Hole ELSE h.entries[p]
    BY <1>2
  <2> HIDE DEF g, entries
  <2>3. g \in Table
    <3>1. PICK no \in BOOLEAN : no = FALSE
      OBVIOUS
    <3>2. PICK null \in Int : null = Null
      BY DEF Null
    <3>3. g = [h EXCEPT !.lazydel = no, !.eiter = null, !.entries = entries]
      BY <2>1, <3>1, <3>2
    <3>4. QED  BY <1>1, <2>2, <3>3 DEF Table
  <2>4. /\ g.entries = entries /\ g.lazydel = FALSE /\ g.eiter = Null
        /\ g.form = h.form /\ g.cap = h.cap /\ g.indexed = h.indexed /\ g.keys = h.keys
        /\ g.placeholders = h.placeholders /\ g.riter = h.riter
        /\ g.inserted = h.inserted /\ g.active = h.active
    BY <1>1, <2>1 DEF Table
  <2>5. Live(g) = Live(h)
    BY <1>2, <1>5, <2>2, <2>4 DEF Live
  <2>6. \A p \in Live(h) : entries[p] = h.entries[p]
    BY <1>2, <1>5, <2>2 DEF Live
  <2>7. Intact(g)
    <3>1. Anchored(g)
      BY <2>4 DEF Anchored, Null, Retired
    <3>2. \A p, q \in Live(g) : g.entries[p].key = g.entries[q].key => p = q
      BY <1>1, <2>4, <2>5, <2>6 DEF Intact
    <3>3. QED  BY <1>1, <2>3, <2>4, <2>5, <3>1, <3>2 DEF Intact
  <2>8. Formed(g)
    <3>1. Searched(g) = Searched(h) /\ Used(g) = Used(h)
      BY <1>2, <2>2, <2>4 DEF Searched, Used
    <3>2. h.form = "indexed"
      BY <1>1, <1>5 DEF Formed
    <3>3. QED  BY <1>1, <2>4, <2>5, <3>1, <3>2 DEF Formed
  <2>9. Order(g) = Order(h) /\ Absent(g) = Absent(h) /\ WithValue(g) = WithValue(h)
    <3>1. \A p \in Live(h) : h.entries[p] \in Entry
      BY <1>1, LiveFacts
    <3>2. /\ Live(h) \in SUBSET (DOMAIN h.entries) /\ Live(h) \in SUBSET (DOMAIN entries)
      BY <1>2, <2>2 DEF Live
    <3>3. \A p \in Live(h) : /\ h.entries[p] \in Entry /\ entries[p] \in Entry
                             /\ entries[p].key = h.entries[p].key
      BY <2>6, <3>1
    <3> DEFINE kept == Live(h)
               others == h.entries
    <3>4. Listed(entries, kept) = Listed(others, kept)
      <4> HIDE DEF kept, others
      <4>1. QED  BY <1>2, <2>2, <3>2, <3>3, ListedAgree DEF kept, others
    <3>5. Hidden(entries, kept) = Hidden(others, kept)
      BY <2>6, HiddenAgree
    <3>6. WithValue(g) = WithValue(h)
      BY <2>4, <2>5, <2>6 DEF WithValue
    <3>7. QED  BY <2>4, <2>5, <3>4, <3>5, <3>6, OrderIsListed
  <2>10. Passed(g) = Passed(h) /\ Iterating(g) = Iterating(h) /\ Stale(g) = Stale(h)
    BY <2>4, <2>5 DEF Passed, Iterating, Stale
  <2>11. QED
    BY <1>5, <2>4, <2>5, <2>7, <2>8, <2>9, <2>10 DEF Sound, Same, SameView, g
<1>6. QED  BY <1>2, <1>4, <1>5

\* Tables that differ in the iterator only.
LEMMA IteratorMoved ==
    ASSUME NEW h, Sound(h), NEW g \in Table,
           g.entries = h.entries, g.form = h.form, g.cap = h.cap, g.indexed = h.indexed,
           g.keys = h.keys, g.placeholders = h.placeholders,
           ~h.lazydel, ~g.lazydel, g.eiter = Null \/ (g.eiter = g.riter /\ g.eiter \in Live(h))
    PROVE  /\ Sound(g) /\ Live(g) = Live(h)
           /\ Order(g) = Order(h) /\ Absent(g) = Absent(h)
<1>1. h \in Table /\ Intact(h) /\ Formed(h)
  BY DEF Sound, Intact
<1>2. Live(h) \in SUBSET (Nat \ {0}) /\ Live(h) \in SUBSET (DOMAIN h.entries)
  BY <1>1, LiveFacts
<1>3. Live(g) = Live(h) /\ \A p \in Live(h) : h.entries[p] # Hole
  BY DEF Live
<1>4. Anchored(g)
  BY <1>2, <1>3 DEF Anchored, Null, Retired
<1>5. Formed(g)
  BY <1>1, <1>3 DEF Formed, Searched, Used
<1>6. Intact(g)
  BY <1>1, <1>3, <1>4 DEF Intact
<1>7. QED  BY <1>3, <1>5, <1>6, OrderIsListed DEF Sound

\* The program sees the same hash, and no iteration is open.
Closed(h, g) ==
    /\ Order(g) = Order(h) /\ Absent(g) = Absent(h)
    /\ g.keys = h.keys /\ g.placeholders = h.placeholders
    /\ ~Iterating(g) /\ ~Stale(g) /\ Passed(g) = 0

LEMMA RewoundFacts ==
    ASSUME NEW h, Sound(h)
    PROVE  LET g == Rewound(h)
           IN /\ Sound(g) /\ Closed(h, g) /\ Live(g) = Live(h) /\ WithValue(g) = WithValue(h)
              /\ g.lazydel = FALSE /\ g.eiter = Null /\ g.riter = 0 /\ g.active = FALSE
              /\ g.form = h.form /\ g.inserted = h.inserted
<1> DEFINE f == LazyFreed(h)
           g == Rewound(h)
<1>1. /\ Sound(f) /\ Same(h, f) /\ Live(f) = Live(h) /\ WithValue(f) = WithValue(h)
      /\ f.lazydel = FALSE /\ f.form = h.form /\ f.inserted = h.inserted
  BY LazyFreedFacts
<1>2. g = [f EXCEPT !.riter = 0, !.eiter = Null, !.active = FALSE]
  BY DEF Rewound
<1> HIDE DEF f, g
<1>3. f \in Table
  BY <1>1 DEF Sound, Intact
<1>4. g \in Table
  <2>1. PICK no \in BOOLEAN : no = FALSE
    OBVIOUS
  <2>2. PICK null \in Int : null = Null
    BY DEF Null
  <2>3. PICK zero \in Nat : zero = 0
    OBVIOUS
  <2>4. g = [f EXCEPT !.riter = zero, !.eiter = null, !.active = no]
    BY <1>2, <2>1, <2>2, <2>3
  <2>5. QED  BY <1>3, <2>4 DEF Table
<1>5. /\ g.entries = f.entries /\ g.form = f.form /\ g.cap = f.cap /\ g.indexed = f.indexed
      /\ g.keys = f.keys /\ g.placeholders = f.placeholders /\ g.lazydel = f.lazydel
      /\ g.eiter = Null /\ g.riter = 0 /\ g.active = FALSE /\ g.inserted = f.inserted
  BY <1>2, <1>3 DEF Table
<1>6. /\ Sound(g) /\ Live(g) = Live(f) /\ Order(g) = Order(f) /\ Absent(g) = Absent(f)
  BY <1>1, <1>4, <1>5, IteratorMoved
<1>7. ~Iterating(g) /\ ~Stale(g)
  BY <1>5 DEF Iterating, Stale
<1>8. Passed(g) = 0
  <2>1. Live(g) \in SUBSET (Nat \ {0})
    BY <1>4, LiveFacts
  <2>2. QED  BY <1>5, <1>7, <2>1, RankOfStart DEF Passed
<1>9. WithValue(g) = WithValue(f)
  BY <1>5, <1>6 DEF WithValue
<1>10. QED
  BY <1>1, <1>5, <1>6, <1>7, <1>8, <1>9 DEF Same, SameView, Closed, g

LEMMA IteratorResetFacts ==
    ASSUME NEW h, Sound(h)
    PROVE  LET g == IteratorReset(h) IN Sound(g) /\ Closed(h, g)
<1> DEFINE f == Rewound(h)
           g == IteratorReset(h)
<1>1. /\ Sound(f) /\ Closed(h, f) /\ f.lazydel = FALSE /\ f.eiter = Null
      /\ f.riter = 0 /\ f.active = FALSE
  BY RewoundFacts
<1>2. g = [f EXCEPT !.inserted = FALSE]
  BY DEF IteratorReset
<1> HIDE DEF f, g
<1>3. f \in Table
  BY <1>1 DEF Sound, Intact
<1>4. g \in Table
  BY <1>2, <1>3 DEF Table
<1>5. /\ g.entries = f.entries /\ g.form = f.form /\ g.cap = f.cap /\ g.indexed = f.indexed
      /\ g.keys = f.keys /\ g.placeholders = f.placeholders /\ g.lazydel = f.lazydel
      /\ g.eiter = f.eiter /\ g.riter = 0 /\ g.active = FALSE
  BY <1>1, <1>2, <1>3 DEF Table
<1>6. Sound(g) /\ Live(g) = Live(f) /\ Order(g) = Order(f) /\ Absent(g) = Absent(f)
  BY <1>1, <1>4, <1>5, IteratorMoved
<1>7. ~Iterating(g) /\ ~Stale(g)
  BY <1>5 DEF Iterating, Stale
<1>8. Passed(g) = 0
  <2>1. Live(g) \in SUBSET (Nat \ {0})
    BY <1>4, LiveFacts
  <2>2. QED  BY <1>5, <1>7, <2>1, RankOfStart DEF Passed
<1>9. QED  BY <1>1, <1>5, <1>6, <1>7, <1>8 DEF Closed, g

\* The positions the iterator can still come to.
Coming(h) == {p \in WithValue(h) : p > h.riter}

LEMMA AdvancedFacts ==
    ASSUME NEW h, Sound(h), ~h.inserted
    PROVE  LET g == Advanced(h)
           IN /\ Sound(g)
              /\ \/ Coming(h) = {} /\ Closed(h, g)
                 \/ \E p \in Coming(h) :
                       /\ \A q \in Coming(h) : p <= q
                       /\ Order(g) = Order(h) /\ Absent(g) = Absent(h)
                       /\ g.keys = h.keys /\ g.placeholders = h.placeholders
                       /\ Iterating(g) /\ ~Stale(g) /\ Passed(g) = Rank(Live(h), p)
<1> DEFINE f == LazyFreed(h)
           g == Advanced(h)
           ahead == {p \in WithValue(f) : p > f.riter}
<1>1. /\ Sound(f) /\ Same(h, f) /\ Live(f) = Live(h) /\ WithValue(f) = WithValue(h)
      /\ f.lazydel = FALSE /\ f.riter = h.riter /\ f.inserted = h.inserted
  BY LazyFreedFacts
<1>2. g = IF ahead = {} THEN Rewound(f)
          ELSE [f EXCEPT !.riter = First(ahead), !.eiter = First(ahead),
                         !.active = f.form = "linear"]
  <2>1. f \in Table
    BY <1>1 DEF Sound, Intact
  <2> HIDE DEF f
  <2>2. QED  BY <2>1 DEF Advanced, f, Table
<1> HIDE DEF f, g
<1>3. ahead = Coming(h)
  BY <1>1 DEF Coming
<1>4. f \in Table
  BY <1>1 DEF Sound, Intact
<1>5. CASE ahead = {}
  <2>1. Sound(g) /\ Closed(f, g)
    BY <1>1, <1>2, <1>5, RewoundFacts
  <2>2. Closed(h, g)
    BY <1>1, <2>1 DEF Closed, Same, SameView
  <2>3. QED  BY <1>3, <1>5, <2>1, <2>2 DEF g
<1>6. CASE ahead # {}
  <2> DEFINE p == First(ahead)
             active == f.form = "linear"
  <2>1. ahead \in SUBSET Nat /\ ahead \in SUBSET Live(f)
    BY <1>4, LiveFacts DEF WithValue
  <2>2. p \in ahead /\ \A q \in ahead : p <= q
    BY <1>6, <2>1, FirstFacts
  <2>3. g = [f EXCEPT !.riter = p, !.eiter = p, !.active = active]
    BY <1>2, <1>6
  <2>4. p \in Live(f) /\ p \in Nat /\ p \in Int /\ p \in Coming(h) /\ p # 0
    <3>1. Live(f) \in SUBSET (Nat \ {0})
      BY <1>4, LiveFacts
    <3>2. QED  BY <1>3, <2>1, <2>2, <3>1
  <2>5. active \in BOOLEAN
    OBVIOUS
  <2>6. \A q \in Coming(h) : p <= q
    BY <1>3, <2>2
  <2> HIDE DEF p, active
  <2>7. g \in Table
    BY <1>4, <2>3, <2>4, <2>5 DEF Table
  <2>8. /\ g.entries = f.entries /\ g.form = f.form /\ g.cap = f.cap /\ g.indexed = f.indexed
        /\ g.keys = f.keys /\ g.placeholders = f.placeholders /\ g.lazydel = f.lazydel
        /\ g.eiter = p /\ g.riter = p /\ g.inserted = f.inserted
    BY <1>4, <2>3 DEF Table
  <2>9. /\ Sound(g) /\ Live(g) = Live(f) /\ Order(g) = Order(f) /\ Absent(g) = Absent(f)
    BY <1>1, <2>4, <2>7, <2>8, IteratorMoved
  <2>10. Iterating(g) /\ ~Stale(g)
    BY <1>1, <2>4, <2>8 DEF Iterating, Stale
  <2>11. Passed(g) = Rank(Live(h), p)
    BY <1>1, <2>8, <2>9, <2>10 DEF Passed
  <2>12. QED
    BY <1>1, <2>4, <2>6, <2>8, <2>9, <2>10, <2>11 DEF Same, SameView, g
<1>7. QED  BY <1>5, <1>6

LEMMA IteratedFacts ==
    ASSUME NEW h, Sound(h)
    PROVE  LET g == Iterated(h)
           IN /\ Sound(g)
              /\ \/ (Stale(h) \/ Coming(h) = {}) /\ Closed(h, g)
                 \/ /\ ~Stale(h)
                    /\ \E p \in Coming(h) :
                          /\ \A q \in Coming(h) : p <= q
                          /\ Order(g) = Order(h) /\ Absent(g) = Absent(h)
                          /\ g.keys = h.keys /\ g.placeholders = h.placeholders
                          /\ Iterating(g) /\ ~Stale(g) /\ Passed(g) = Rank(Live(h), p)
<1> DEFINE a == IF h.form = "none" /\ LinearMax = 0 THEN IndexResized(h, MinCapacity) ELSE h
           f == [a EXCEPT !.inserted = FALSE]
           g == Iterated(h)
<1>1. Sound(a) /\ Same(h, a)
  BY MinCapacityFacts, IndexResizedFacts, SameSelf
<1>2. Coming(a) = Coming(h)
  <2>1. CASE h.form = "none" /\ LinearMax = 0
    <3>1. h.entries = <<>>
      BY <2>1 DEF Sound, Formed
    <3>2. Live(h) = {} /\ h.keys = Cardinality(Live(h))
      BY <3>1 DEF Live, Sound, Intact
    <3>3. h.keys = 0
      BY <3>2, FS_EmptySet
    <3>4. a.keys = h.keys /\ a.keys = Cardinality(Live(a)) /\ a \in Table
      BY <1>1 DEF Same, Sound, Intact
    <3> HIDE DEF a
    <3>5. Live(a) = {}
      BY <3>3, <3>4, LiveFacts, FS_EmptySet
    <3>6. QED  BY <3>2, <3>5 DEF Coming, WithValue
  <2>2. CASE ~ (h.form = "none" /\ LinearMax = 0)
    BY <2>2
  <2>3. QED  BY <2>1, <2>2
<1>2a. Rank(Live(a), 0) = 0 /\ \A p \in Coming(h) : Rank(Live(a), p) = Rank(Live(h), p)
  <2>1. CASE h.form = "none" /\ LinearMax = 0
    <3>1. h.entries = <<>>
      BY <2>1 DEF Sound, Formed
    <3>2. Coming(h) = {}
      BY <3>1 DEF Coming, WithValue, Live
    <3>3. Live(a) \in SUBSET (Nat \ {0})
      <4>1. a \in Table
        BY <1>1 DEF Sound, Intact
      <4> HIDE DEF a
      <4>2. QED  BY <4>1, LiveFacts
    <3> HIDE DEF a
    <3>4. QED  BY <3>2, <3>3, RankOfStart
  <2>2. CASE ~ (h.form = "none" /\ LinearMax = 0)
    <3>1. a = h
      BY <2>2
    <3>2. Live(h) \in SUBSET (Nat \ {0})
      BY LiveFacts DEF Sound, Intact
    <3>3. QED  BY <3>1, <3>2, RankOfStart
  <2>3. QED  BY <2>1, <2>2
<1> HIDE DEF a
<1>3. a \in Table /\ Formed(a)
  BY <1>1 DEF Sound, Intact
<1>4. f \in Table
  BY <1>3 DEF Table
<1>5. /\ f.entries = a.entries /\ f.form = a.form /\ f.cap = a.cap /\ f.indexed = a.indexed
      /\ f.keys = a.keys /\ f.placeholders = a.placeholders /\ f.lazydel = a.lazydel
      /\ f.eiter = a.eiter /\ f.riter = a.riter /\ f.active = a.active /\ f.inserted = FALSE
  BY <1>3 DEF Table
<1> HIDE DEF f
<1>6. Live(f) = Live(a) /\ Used(f) = Used(a) /\ Order(f) = Order(a) /\ Absent(f) = Absent(a)
  <2>1. Live(f) = Live(a) /\ Used(f) = Used(a)
    BY <1>5 DEF Live, Used
  <2>2. QED  BY <1>5, <2>1, OrderIsListed
<1>7. Sound(f) /\ ~f.inserted
  <2>1. Intact(a) /\ Anchored(a)
    BY <1>1 DEF Sound, Intact
  <2>2. Anchored(f)
    BY <1>5, <1>6, <2>1 DEF Anchored
  <2>3. Intact(f)
    BY <1>4, <1>5, <1>6, <2>1, <2>2 DEF Intact
  <2>4. Formed(f)
    BY <1>3, <1>5, <1>6 DEF Formed, Searched
  <2>5. QED  BY <1>5, <2>3, <2>4 DEF Sound
<1>8. /\ Order(a) = Order(h) /\ Absent(a) = Absent(h) /\ Stale(a) = Stale(h)
      /\ a.keys = h.keys /\ a.placeholders = h.placeholders
  BY <1>1 DEF Same, SameView
<1>9. ASSUME NEW r, Closed(f, r)  PROVE Closed(h, r)
  BY <1>5, <1>6, <1>8, <1>9 DEF Closed
<1>10. CASE a.form = "none"
  <2> DEFINE r == [a EXCEPT !.riter = 0, !.eiter = Null, !.active = FALSE]
  <2>1. g = r
    BY <1>10 DEF Iterated, a
  <2>2. Live(a) = {} /\ ~a.lazydel
    BY <1>3, <1>10 DEF Formed, Live
  <2>3. Coming(h) = {}
    BY <1>2, <2>2 DEF Coming, WithValue
  <2>4. r \in Table
    <3>1. PICK no \in BOOLEAN : no = FALSE
      OBVIOUS
    <3>2. PICK null \in Int : null = Null
      BY DEF Null
    <3>3. PICK zero \in Nat : zero = 0
      OBVIOUS
    <3>4. r = [a EXCEPT !.riter = zero, !.eiter = null, !.active = no]
      BY <3>1, <3>2, <3>3
    <3> HIDE DEF r
    <3>5. QED  BY <1>3, <3>4 DEF Table
  <2>5. /\ r.entries = a.entries /\ r.form = a.form /\ r.cap = a.cap /\ r.indexed = a.indexed
        /\ r.keys = a.keys /\ r.placeholders = a.placeholders /\ r.lazydel = a.lazydel
        /\ r.eiter = Null /\ r.riter = 0 /\ r.active = FALSE
    BY <1>3 DEF Table
  <2> HIDE DEF r
  <2>6. Sound(r) /\ Live(r) = Live(a) /\ Order(r) = Order(a) /\ Absent(r) = Absent(a)
    BY <1>1, <2>2, <2>4, <2>5, IteratorMoved
  <2>7. ~Iterating(r) /\ ~Stale(r) /\ Passed(r) = 0
    BY <1>2a, <2>5, <2>6 DEF Iterating, Stale, Passed
  <2>8. Closed(h, r)
    BY <1>8, <2>5, <2>6, <2>7 DEF Closed
  <2>9. QED  BY <2>1, <2>3, <2>6, <2>8 DEF g
<1>11. CASE a.form # "none" /\ Stale(a)
  <2>1. g = Rewound(f)
    BY <1>11 DEF Iterated, Stale, Iterating, a, f
  <2> HIDE DEF g
  <2>2. Sound(g) /\ Closed(f, g)
    BY <1>7, <2>1, RewoundFacts
  <2>3. QED  BY <1>8, <1>9, <1>11, <2>2 DEF g
<1>12. CASE a.form # "none" /\ ~Stale(a)
  <2>1. g = Advanced(f)
    BY <1>12 DEF Iterated, Stale, Iterating, a, f
  <2>2. Coming(f) = Coming(h)
    BY <1>2, <1>5, <1>6 DEF Coming, WithValue
  <2> HIDE DEF g
  <2>3. /\ Sound(g)
        /\ \/ Coming(f) = {} /\ Closed(f, g)
           \/ \E p \in Coming(f) :
                 /\ \A q \in Coming(f) : p <= q
                 /\ Order(g) = Order(f) /\ Absent(g) = Absent(f)
                 /\ g.keys = f.keys /\ g.placeholders = f.placeholders
                 /\ Iterating(g) /\ ~Stale(g) /\ Passed(g) = Rank(Live(f), p)
    BY <1>7, <2>1, AdvancedFacts
  <2>4. CASE Coming(f) = {} /\ Closed(f, g)
    BY <1>9, <2>2, <2>3, <2>4 DEF g
  <2>5. ASSUME NEW p \in Coming(f),
               /\ \A q \in Coming(f) : p <= q
               /\ Order(g) = Order(f) /\ Absent(g) = Absent(f)
               /\ g.keys = f.keys /\ g.placeholders = f.placeholders
               /\ Iterating(g) /\ ~Stale(g) /\ Passed(g) = Rank(Live(f), p)
        PROVE  /\ \A q \in Coming(h) : p <= q
               /\ Order(g) = Order(h) /\ Absent(g) = Absent(h)
               /\ g.keys = h.keys /\ g.placeholders = h.placeholders
               /\ Iterating(g) /\ ~Stale(g) /\ Passed(g) = Rank(Live(h), p)
               /\ p \in Coming(h)
    BY <1>2a, <1>5, <1>6, <1>8, <2>2, <2>5
  <2>6. ~Stale(h)
    BY <1>8, <1>12
  <2>7. QED  BY <2>3, <2>4, <2>5, <2>6 DEF g
<1>13. QED  BY <1>10, <1>11, <1>12

-----------------------------------------------------------------------------
\* Making room in advance, and placeholders.
LEMMA EnlargedFacts ==
    ASSUME NEW h, Sound(h), NEW n \in Nat
    PROVE  LET g == Enlarged(h, n) IN Sound(g) /\ Same(h, g)
<1>1. h.keys \in Nat /\ h.cap \in Nat /\ LinearMax \in Nat
  BY SoundFacts, HashAssumption
<1>2. CASE n <= LinearMax /\ h.form # "indexed"
  <2>1. Doubled(Larger(h.cap, 1), n) \in Nat
    BY DoubledIsNumber
  <2>2. PICK m \in Nat : m = Smaller(Doubled(Larger(h.cap, 1), n), LinearMax)
    BY <1>1, <2>1 DEF Smaller
  <2>3. Enlarged(h, n) = Reserved(h, m)
    BY <1>2, <2>2 DEF Enlarged
  <2>4. QED  BY <2>3, ReservedFacts
<1>3. CASE ~ (n <= LinearMax /\ h.form # "indexed")
  <2> DEFINE old == IF h.form = "indexed" THEN h.buckets ELSE MinCapacity
             buckets == Doubled(old, n + n \div 2 + (n % 2))
             r == IF h.form = "indexed" /\ buckets <= old THEN h ELSE IndexResized(h, buckets)
             g == IF n > h.keys THEN Reserved(r, Used(r) + n - h.keys) ELSE r
  <2>1. buckets \in Nat
    BY DoubledIsNumber
  <2>2. Enlarged(h, n) = g
    BY <1>3 DEF Enlarged
  <2> HIDE DEF buckets, old
  <2>3. Sound(r) /\ Same(h, r)
    BY <2>1, IndexResizedFacts, SameSelf
  <2> HIDE DEF r
  <2>4. CASE n > h.keys
    <3>1. Used(r) \in Nat
      BY <2>3, SoundFacts
    <3>2. PICK m \in Nat : m = Used(r) + n - h.keys
      BY <1>1, <2>4, <3>1
    <3>3. g = Reserved(r, m)
      BY <2>4, <3>2
    <3>4. QED  BY <2>2, <2>3, <3>3, ReservedFacts, SameTrans
  <2>5. CASE ~ (n > h.keys)
    BY <2>2, <2>3, <2>5
  <2>6. QED  BY <2>4, <2>5
<1>4. QED  BY <1>2, <1>3

\* The keys without a value are as many as the entries that are placeholders.
LEMMA AbsentCount ==
    ASSUME NEW h, Intact(h)
    PROVE  /\ IsFiniteSet(Absent(h)) /\ Cardinality(Absent(h)) \in Nat
           /\ Cardinality(Absent(h)) = Cardinality({p \in Live(h) : h.entries[p].placeholder})
<1> DEFINE E == {p \in Live(h) : h.entries[p].placeholder}
           f == [p \in E |-> h.entries[p].key]
<1>1. h \in Table /\ \A p, q \in Live(h) : h.entries[p].key = h.entries[q].key => p = q
  BY DEF Intact
<1>2. IsFiniteSet(E)
  BY <1>1, LiveFacts, FS_Subset
<1>3. Absent(h) = {h.entries[p].key : p \in E}
  BY OrderIsListed DEF Hidden
<1>4. f \in Surjection(E, Absent(h))
  BY <1>3 DEF Surjection
<1>5. f \in Injection(E, Absent(h))
  BY <1>1, <1>3 DEF Injection, IsInjective
<1> HIDE DEF E, f
<1>6. IsFiniteSet(Absent(h)) /\ Cardinality(Absent(h)) = Cardinality(E)
  BY <1>2, <1>4, <1>5, FS_Surjection
<1>7. QED  BY <1>6, FS_CardinalityType DEF E

\* A key gets a value, or loses it and stays.
LEMMA PlaceholderFacts ==
    ASSUME NEW h, Sound(h), NEW p \in Live(h), NEW b \in BOOLEAN,
           h.entries[p].placeholder = ~b
    PROVE  LET g == Placeholder(h, p, b)
               k == h.entries[p].key
           IN /\ Sound(g) /\ Order(g) = Order(h) /\ g.keys = h.keys /\ k \in Key
              /\ g.placeholders = IF b THEN h.placeholders + 1 ELSE h.placeholders - 1
              /\ b => k \notin Absent(h) /\ Absent(g) = Absent(h) \cup {k}
              /\ ~b => k \in Absent(h) /\ Absent(g) = Absent(h) \ {k}
              /\ Iterating(g) = Iterating(h) /\ Stale(g) = Stale(h) /\ Passed(g) = Passed(h)
<1> DEFINE g == Placeholder(h, p, b)
           k == h.entries[p].key
           changed == [key |-> k, placeholder |-> b]
           entries == [h.entries EXCEPT ![p] = changed]
           count == IF b THEN h.placeholders + 1 ELSE h.placeholders - 1
<1>1. /\ h \in Table /\ Intact(h) /\ Formed(h) /\ Anchored(h)
      /\ \A q, r \in Live(h) : h.entries[q].key = h.entries[r].key => q = r
  BY DEF Sound, Intact
<1>2. /\ h.entries \in Seq(Entry \cup {Hole}) /\ DOMAIN h.entries = 1 .. Used(h)
      /\ Used(h) \in Nat /\ h.placeholders \in Int /\ Used(h) = Len(h.entries)
      /\ Live(h) \in SUBSET (DOMAIN h.entries) /\ \A q \in Live(h) : h.entries[q] \in Entry
  BY <1>1, TableFacts, LiveFacts DEF Used
<1>3. changed \in Entry /\ changed # Hole /\ k \in Key
  BY <1>2, HashAssumption DEF Entry
<1>4. g = [h EXCEPT !.entries = entries, !.placeholders = count]
  BY <1>1, <1>2 DEF Placeholder, Table
<1>5. changed.key = k /\ changed.placeholder = b
  OBVIOUS
<1> HIDE DEF changed
<1>6. /\ entries \in Seq(Entry \cup {Hole}) /\ DOMAIN entries = 1 .. Used(h)
      /\ Len(entries) = Used(h) /\ entries[p] = changed
      /\ \A q \in 1 .. Used(h) : q # p => entries[q] = h.entries[q]
  BY <1>2, <1>3
<1>7. count \in Int
  BY <1>2
<1> HIDE DEF g, entries, count
<1>8. g \in Table
  BY <1>1, <1>4, <1>6, <1>7 DEF Table
<1>9. /\ g.entries = entries /\ g.placeholders = count /\ g.form = h.form /\ g.cap = h.cap
      /\ g.indexed = h.indexed /\ g.keys = h.keys /\ g.lazydel = h.lazydel
      /\ g.eiter = h.eiter /\ g.riter = h.riter
      /\ g.inserted = h.inserted /\ g.active = h.active
  BY <1>1, <1>4 DEF Table
<1>10. \A q \in 1 .. Used(h) : entries[q] = Hole <=> h.entries[q] = Hole
  BY <1>3, <1>6 DEF Live
<1>11. Live(g) = Live(h)
  BY <1>2, <1>6, <1>9, <1>10 DEF Live
<1>12. \A q \in Live(h) : entries[q].key = h.entries[q].key /\ entries[q] \in Entry
  BY <1>2, <1>3, <1>5, <1>6
<1>13. Intact(g)
  <2>1. Anchored(g)
    BY <1>1, <1>2, <1>6, <1>9, <1>10, <1>11 DEF Anchored
  <2>2. \A q, r \in Live(g) : g.entries[q].key = g.entries[r].key => q = r
    BY <1>1, <1>9, <1>11, <1>12
  <2>3. QED  BY <1>1, <1>8, <1>9, <1>11, <2>1, <2>2 DEF Intact
<1>14. Formed(g)
  <2>1. Searched(g) = Searched(h) /\ Used(g) = Used(h)
    BY <1>2, <1>6, <1>9 DEF Searched, Used
  <2>2. h.form # "none"
    BY <1>1, <1>2 DEF Formed
  <2>3. QED  BY <1>1, <1>9, <1>11, <2>1, <2>2 DEF Formed
<1>15. Order(g) = Order(h)
  <2> DEFINE kept == Live(h)
             others == h.entries
  <2>1. /\ others \in Seq(Entry \cup {Hole}) /\ kept \in SUBSET (DOMAIN others)
        /\ kept \in SUBSET (DOMAIN entries)
        /\ \A q \in kept : /\ others[q] \in Entry /\ entries[q] \in Entry
                           /\ entries[q].key = others[q].key
    BY <1>2, <1>6, <1>12
  <2> HIDE DEF kept, others
  <2>2. Listed(entries, kept) = Listed(others, kept)
    BY <1>6, <2>1, ListedAgree
  <2>3. QED  BY <1>9, <1>11, <2>2, OrderIsListed DEF kept, others
<1>16. \A q \in Live(h) : q # p => entries[q] = h.entries[q] /\ h.entries[q].key # k
  BY <1>1, <1>2, <1>6
<1>17. /\ Absent(h) = {h.entries[q].key : q \in {r \in Live(h) : h.entries[r].placeholder}}
       /\ Absent(g) = {entries[q].key : q \in {r \in Live(h) : entries[r].placeholder}}
  BY <1>9, <1>11, OrderIsListed DEF Hidden
<1>18. \A x : x \in Absent(h) <=> \E q \in Live(h) : h.entries[q].placeholder /\ x = h.entries[q].key
  BY <1>17
<1>19. \A x : x \in Absent(g) <=> \E q \in Live(h) : entries[q].placeholder /\ x = entries[q].key
  BY <1>17
<1>20. \A x : x # k => (x \in Absent(g) <=> x \in Absent(h))
  <2>1. SUFFICES ASSUME NEW x, x # k  PROVE x \in Absent(g) <=> x \in Absent(h)
    OBVIOUS
  <2>2. \A q \in Live(h) : entries[q].placeholder /\ x = entries[q].key
                           <=> h.entries[q].placeholder /\ x = h.entries[q].key
    BY <1>5, <1>6, <1>16, <2>1
  <2>3. QED  BY <1>18, <1>19, <2>2
<1>21. k \in Absent(g) <=> b
  BY <1>5, <1>6, <1>12, <1>16, <1>19
<1>22. k \in Absent(h) <=> ~b
  BY <1>16, <1>18
<1>23. b => k \notin Absent(h) /\ Absent(g) = Absent(h) \cup {k}
  BY <1>20, <1>21, <1>22
<1>24. ~b => k \in Absent(h) /\ Absent(g) = Absent(h) \ {k}
  BY <1>20, <1>21, <1>22
<1>25. Iterating(g) = Iterating(h) /\ Stale(g) = Stale(h) /\ Passed(g) = Passed(h)
  BY <1>9, <1>11 DEF Iterating, Stale, Passed
<1>26. QED
  BY <1>3, <1>9, <1>13, <1>14, <1>15, <1>23, <1>24, <1>25 DEF Sound, g, count

-----------------------------------------------------------------------------
\* The invariant.  While no function that empties the hash waits for a
\* destructor the number of placeholders is exact; while one does it may be high.
Exact == \A i \in DOMAIN calls : calls[i].op = "restrict"

HashInv ==
    /\ Sound(hv)
    /\ locked \in BOOLEAN
    /\ calls \in Seq(Call)
    /\ hv.placeholders >= Cardinality(Absent(hv))
    /\ Exact => hv.placeholders = Cardinality(Absent(hv))

LEMMA ReleasedFacts ==
    ASSUME NEW h, Sound(h)
    PROVE  LET g == Released(h)
           IN /\ Sound(g) /\ Live(g) = Live(h) /\ g.form = h.form
              /\ g.eiter = Null /\ g.lazydel = FALSE
              /\ Order(g) = Order(h) /\ Absent(g) = Absent(h)
              /\ g.keys = h.keys /\ g.placeholders = h.placeholders
              /\ g = h \/ (g.riter = 0 /\ Closed(h, g))
<1>1. CASE h.eiter = Null
  <2>1. Released(h) = h
    BY <1>1 DEF Released
  <2>2. h.lazydel = FALSE
    BY <1>1, AnchorFacts, TableFacts DEF Sound, Intact
  <2>3. QED  BY <1>1, <2>1, <2>2
<1>2. CASE h.eiter # Null
  <2>1. Released(h) = Rewound(h)
    BY <1>2 DEF Released
  <2>2. QED  BY <2>1, RewoundFacts DEF Closed
<1>3. QED  BY <1>1, <1>2

\* The end of hv_clear() or hv_undef().
LEMMA EmptiedFacts ==
    ASSUME NEW h, Sound(h), h.keys = 0, h.eiter = Null, NEW op
    PROVE  LET g == Emptied(op, h)
           IN /\ Sound(g) /\ Order(g) = Order(h) /\ Absent(g) = Absent(h) /\ Absent(g) = {}
              /\ g.placeholders = 0 /\ g.keys = 0
              /\ Iterating(g) = Iterating(h) /\ Stale(g) = Stale(h) /\ Passed(g) = Passed(h)
<1> DEFINE g == Emptied(op, h)
<1>1. /\ h \in Table /\ Intact(h) /\ Formed(h) /\ Anchored(h) /\ h.keys = Cardinality(Live(h))
      /\ h.lazydel = FALSE
  BY AnchorFacts, TableFacts DEF Sound, Intact
<1>2. Live(h) = {}
  BY <1>1, LiveFacts, FS_EmptySet
<1> DEFINE stays == op = "clear"
           form == IF stays THEN h.form ELSE "none"
           entries == IF stays THEN h.entries ELSE <<>>
           cap == IF stays THEN h.cap ELSE 0
           buckets == IF stays THEN h.buckets ELSE 0
           indexed == IF stays THEN h.indexed ELSE {}
<1>3. PICK zero \in Int : zero = 0
  OBVIOUS
<1>4. g = [h EXCEPT !.form = form, !.entries = entries, !.cap = cap, !.buckets = buckets,
                    !.indexed = indexed, !.placeholders = zero]
  <2>1. CASE stays
    <3>1. Emptied(op, h) = [h EXCEPT !.placeholders = 0, !.eiter = Null]
      BY <2>1 DEF Emptied
    <3>2. [h EXCEPT !.placeholders = 0, !.eiter = Null] = [h EXCEPT !.placeholders = zero]
      BY <1>1, <1>3 DEF Table, Null
    <3>3. [h EXCEPT !.placeholders = zero] =
          [h EXCEPT !.form = form, !.entries = entries, !.cap = cap, !.buckets = buckets,
                    !.indexed = indexed, !.placeholders = zero]
      BY <1>1, <2>1 DEF Table
    <3>4. QED  BY <3>1, <3>2, <3>3
  <2>2. CASE ~stays
    BY <1>1, <1>3, <2>2 DEF Emptied, Table
  <2>3. QED  BY <2>1, <2>2
<1>5. /\ form \in {"none", "linear", "indexed"} /\ entries \in Seq(Entry \cup {Hole})
      /\ cap \in Nat /\ buckets \in Nat /\ indexed \in SUBSET (Nat \ {0})
  <2>1. /\ h.form \in {"none", "linear", "indexed"} /\ h.entries \in Seq(Entry \cup {Hole})
        /\ h.cap \in Nat /\ h.buckets \in Nat /\ h.indexed \in SUBSET (Nat \ {0})
    BY <1>1, TableFacts
  <2>2. <<>> \in Seq(Entry \cup {Hole})
    OBVIOUS
  <2>3. QED  BY <2>1, <2>2
<1>6. /\ ~stays => form = "none" /\ entries = <<>> /\ cap = 0
      /\ stays => /\ form = h.form /\ entries = h.entries /\ cap = h.cap
                  /\ indexed = h.indexed
  OBVIOUS
<1> HIDE DEF g, stays, form, entries, cap, buckets, indexed
<1>7. g \in Table
  BY <1>1, <1>4, <1>5 DEF Table
<1>8. /\ g.form = form /\ g.entries = entries /\ g.cap = cap /\ g.indexed = indexed
      /\ g.placeholders = 0 /\ g.keys = h.keys /\ g.eiter = h.eiter /\ g.lazydel = h.lazydel
      /\ g.riter = h.riter /\ g.inserted = h.inserted /\ g.active = h.active
  BY <1>1, <1>3, <1>4 DEF Table
<1>9. Live(g) = {}
  BY <1>2, <1>6, <1>8 DEF Live
<1>10. Intact(g)
  <2>1. Anchored(g)
    BY <1>1, <1>8 DEF Anchored, Null, Retired
  <2>2. QED  BY <1>1, <1>2, <1>7, <1>8, <1>9, <2>1 DEF Intact
<1>11. Formed(g)
  <2>1. CASE stays
    BY <1>1, <1>2, <1>6, <1>8, <1>9, <2>1 DEF Formed, Searched, Used
  <2>2. CASE ~stays
    BY <1>1, <1>6, <1>8, <1>9, <2>2 DEF Formed, Searched, Used
  <2>3. QED  BY <2>1, <2>2
<1>12. Absent(h) = {} /\ Absent(g) = {}
  BY <1>2, <1>9 DEF Absent
<1>13. Order(g) = Order(h)
  <2>1. Listed(g.entries, {}) = Listed(h.entries, {})
    <3>1. Listed(g.entries, {}) = [r \in 1 .. 0 |-> Packed(g.entries, {})[r].key]
      BY FS_EmptySet DEF Listed
    <3>2. Listed(h.entries, {}) = [r \in 1 .. 0 |-> Packed(h.entries, {})[r].key]
      BY FS_EmptySet DEF Listed
    <3>3. QED  BY <3>1, <3>2
  <2>2. QED  BY <1>2, <1>9, <2>1, OrderIsListed
<1>14. Iterating(g) = Iterating(h) /\ Stale(g) = Stale(h) /\ Passed(g) = Passed(h)
  BY <1>2, <1>8, <1>9 DEF Iterating, Stale, Passed
<1>15. QED  BY <1>8, <1>10, <1>11, <1>12, <1>13, <1>14 DEF Sound, g

LEMMA NextFreedFacts ==
    ASSUME NEW h, Sound(h), h.keys # 0, NEW at \in Nat
    PROVE  NextFreed(h, at) \in Live(h) /\ IndexAfter(h, NextFreed(h, at)) \in Nat
<1> DEFINE ahead(i) == {p \in Live(h) \cap Searched(h) : p > i}
<1>1. /\ Live(h) \in SUBSET (Nat \ {0}) /\ Searched(h) = Live(h)
      /\ h.keys = Cardinality(Live(h))
  BY LiveFacts DEF Sound, Intact, Formed
<1>2. Live(h) # {}
  BY <1>1, FS_EmptySet
<1>3. ahead(0) = Live(h)
  <2>1. \A p \in Nat \ {0} : p > 0
    OBVIOUS
  <2>2. QED  BY <1>1, <2>1
<1>4. \A i : ahead(i) \in SUBSET Nat /\ ahead(i) \in SUBSET Live(h)
  BY <1>1
<1>5. NextFreed(h, at) = IF ahead(at) # {} THEN First(ahead(at)) ELSE First(ahead(0))
  BY DEF NextFreed
<1> HIDE DEF ahead
<1>6. NextFreed(h, at) \in Live(h)
  BY <1>2, <1>3, <1>4, <1>5, FirstFacts
<1>7. QED  BY <1>1, <1>6 DEF IndexAfter

\* Fewer entries, fewer of them without a value.
LEMMA HiddenFewer ==
    ASSUME NEW h, Intact(h), NEW kept \in SUBSET Live(h)
    PROVE  /\ Hidden(h.entries, kept) \in SUBSET Absent(h)
           /\ IsFiniteSet(Hidden(h.entries, kept))
           /\ Cardinality(Hidden(h.entries, kept)) \in Nat
           /\ Cardinality(Hidden(h.entries, kept)) <= Cardinality(Absent(h))
<1>1. Hidden(h.entries, kept) \in SUBSET Absent(h)
  BY OrderIsListed DEF Hidden
<1>2. QED  BY <1>1, AbsentCount, FS_Subset, FS_CardinalityType

LEMMA FreeFromStep ==
    ASSUME HashInv, NEW op \in {"clear", "undef"}, NEW at \in Nat, NEW below \in Seq(Call),
           FreeFrom(op, at, below), UNCHANGED locked
    PROVE  HashInv'
<1> DEFINE r == Released(hv)
           p == NextFreed(r, at)
<1>1. /\ Sound(hv) /\ locked \in BOOLEAN /\ hv.placeholders >= Cardinality(Absent(hv))
  BY DEF HashInv
<1>2. /\ Sound(r) /\ r.eiter = Null /\ Absent(r) = Absent(hv)
      /\ r.placeholders = hv.placeholders
  BY <1>1, ReleasedFacts
<1>3. Cardinality({}) = 0
  BY FS_EmptySet
<1>4. /\ r.keys = 0 => hv' = Emptied(op, r) /\ calls' = below
      /\ r.keys # 0 => /\ hv' = Removed(r, {p})
                       /\ calls' = Append(below, [op |-> op, at |-> IndexAfter(r, p)])
  BY DEF FreeFrom
<1> HIDE DEF r, p
<1>5. CASE r.keys = 0
  <2>1. Sound(hv') /\ Absent(hv') = {} /\ hv'.placeholders = 0
    BY <1>2, <1>4, <1>5, EmptiedFacts
  <2>2. QED  BY <1>1, <1>3, <1>4, <1>5, <2>1 DEF HashInv
<1>6. CASE r.keys # 0
  <2>1. p \in Live(r) /\ IndexAfter(r, p) \in Nat
    BY <1>2, <1>6, NextFreedFacts DEF p
  <2>2. PICK gone \in SUBSET Live(r) : gone = {p}
    BY <2>1
  <2>3. /\ Sound(hv') /\ hv'.placeholders = r.placeholders
        /\ Absent(hv') = Hidden(r.entries, Live(r) \ gone)
    BY <1>2, <1>4, <1>6, <2>2, RemovedFacts DEF Taken
  <2>4. PICK kept \in SUBSET Live(r) : kept = Live(r) \ gone
    OBVIOUS
  <2>5. /\ Cardinality(Absent(hv')) \in Nat
        /\ Cardinality(Absent(hv')) <= Cardinality(Absent(r))
    BY <1>2, <2>3, <2>4, HiddenFewer DEF Sound
  <2>6. hv'.placeholders >= Cardinality(Absent(hv'))
    <3>1. r \in Table /\ r.placeholders \in Int /\ Cardinality(Absent(r)) \in Nat
      BY <1>2, TableFacts, AbsentCount DEF Sound, Intact
    <3>2. QED  BY <1>1, <1>2, <2>3, <2>5, <3>1
  <2>7. PICK call \in Call : call = [op |-> op, at |-> IndexAfter(r, p)]
    BY <2>1 DEF Call
  <2>8. /\ calls' \in Seq(Call) /\ Len(below) + 1 \in DOMAIN calls'
        /\ calls'[Len(below) + 1] = call
    BY <1>4, <1>6, <2>7
  <2>9. ~Exact'
    BY <2>7, <2>8 DEF Exact
  <2>10. QED  BY <1>1, <2>3, <2>6, <2>8, <2>9 DEF HashInv
<1>7. QED  BY <1>5, <1>6

LEMMA RestrictFromStep ==
    ASSUME HashInv, ~LosesDeletion, NEW below \in Seq(Call),
           (\A i \in DOMAIN below : below[i].op = "restrict") => Exact,
           RestrictFrom(below), UNCHANGED locked
    PROVE  HashInv'
<1>1. /\ Sound(hv) /\ hv \in Table /\ locked \in BOOLEAN /\ Intact(hv)
      /\ hv.placeholders >= Cardinality(Absent(hv))
      /\ Exact => hv.placeholders = Cardinality(Absent(hv))
  BY DEF HashInv, Sound, Intact
<1>2. hv.placeholders \in Int /\ IsFiniteSet(Absent(hv)) /\ Cardinality(Absent(hv)) \in Nat
  BY <1>1, TableFacts, AbsentCount
<1>3. CASE WithValue(hv) = {}
  <2>1. ~hv.lazydel /\ hv' = [hv EXCEPT !.eiter = Null] /\ calls' = below
    BY <1>3 DEF RestrictFrom
  <2>2. hv' \in Table
    <3>1. PICK null \in Int : null = Null
      BY DEF Null
    <3>2. hv' = [hv EXCEPT !.eiter = null]
      BY <2>1, <3>1
    <3>3. QED  BY <1>1, <3>2 DEF Table
  <2>3. /\ hv'.entries = hv.entries /\ hv'.form = hv.form /\ hv'.cap = hv.cap
        /\ hv'.indexed = hv.indexed /\ hv'.keys = hv.keys
        /\ hv'.placeholders = hv.placeholders /\ hv'.lazydel = hv.lazydel /\ hv'.eiter = Null
    BY <1>1, <2>1 DEF Table
  <2>4. Sound(hv') /\ Absent(hv') = Absent(hv)
    BY <1>1, <2>1, <2>2, <2>3, IteratorMoved
  <2>5. Exact' => Exact
    BY <2>1 DEF Exact
  <2>6. QED  BY <1>1, <2>1, <2>3, <2>4, <2>5 DEF HashInv
<1>4. CASE WithValue(hv) # {}
  <2> DEFINE p == First(WithValue(hv))
             k == hv.entries[p].key
  <2>1. /\ hv' = Placeholder(hv, p, TRUE)
        /\ calls' = Append(below, [op |-> "restrict", at |-> RestrictLoop(hv)])
    BY <1>4 DEF RestrictFrom
  <2>2. p \in WithValue(hv) /\ p \in Live(hv)
    <3>1. WithValue(hv) \in SUBSET Nat
      BY <1>1, LiveFacts DEF WithValue
    <3>2. QED  BY <1>4, <3>1, FirstFacts DEF WithValue
  <2>3. hv.entries[p].placeholder = FALSE
    <3>1. hv.entries[p] \in Entry
      BY <1>1, <2>2, LiveFacts
    <3>2. QED  BY <2>2, <3>1 DEF WithValue, Entry
  <2> HIDE DEF p
  <2>4. /\ Sound(hv') /\ hv'.placeholders = hv.placeholders + 1
        /\ k \notin Absent(hv) /\ Absent(hv') = Absent(hv) \cup {k}
    <3>1. PICK b \in BOOLEAN : b = TRUE
      OBVIOUS
    <3>2. hv.entries[p].placeholder = ~b
      BY <2>3, <3>1
    <3>3. QED  BY <1>1, <2>1, <2>2, <3>1, <3>2, PlaceholderFacts
  <2>5. Cardinality(Absent(hv')) = Cardinality(Absent(hv)) + 1
    <3>1. PICK A, x : A = Absent(hv) /\ x = k
      OBVIOUS
    <3>2. IsFiniteSet(A) /\ x \notin A /\ Absent(hv') = A \cup {x}
      BY <1>2, <2>4, <3>1
    <3>3. Cardinality(A \cup {x}) = Cardinality(A) + 1
      BY <3>2, FS_AddElement
    <3>4. QED  BY <3>1, <3>2, <3>3
  <2>6. PICK call \in Call : call = [op |-> "restrict", at |-> RestrictLoop(hv)]
    <3>1. PICK at \in Nat : at = RestrictLoop(hv)
      BY DEF RestrictLoop
    <3>2. [op |-> "restrict", at |-> at] \in Call
      BY DEF Call
    <3>3. QED  BY <3>1, <3>2
  <2>7. calls' \in Seq(Call) /\ \A i \in DOMAIN below : i \in DOMAIN calls' /\ calls'[i] = below[i]
    BY <2>1, <2>6
  <2>8. Exact' => Exact
    BY <2>7 DEF Exact
  <2>9. QED  BY <1>1, <1>2, <2>4, <2>5, <2>7, <2>8 DEF HashInv
<1>5. QED  BY <1>3, <1>4

LEMMA Recounted ==
    ASSUME NEW h, Sound(h), NEW n \in Int
    PROVE  LET g == [h EXCEPT !.placeholders = n]
           IN /\ Sound(g) /\ Order(g) = Order(h) /\ Absent(g) = Absent(h)
              /\ g.placeholders = n /\ g.keys = h.keys
              /\ Iterating(g) = Iterating(h) /\ Stale(g) = Stale(h) /\ Passed(g) = Passed(h)
<1> DEFINE g == [h EXCEPT !.placeholders = n]
<1>1. h \in Table /\ Intact(h) /\ Formed(h) /\ Anchored(h)
  BY DEF Sound, Intact
<1>2. g \in Table
  BY <1>1 DEF Table
<1>3. /\ g.form = h.form /\ g.entries = h.entries /\ g.cap = h.cap /\ g.indexed = h.indexed
      /\ g.keys = h.keys /\ g.placeholders = n /\ g.eiter = h.eiter /\ g.lazydel = h.lazydel
      /\ g.riter = h.riter /\ g.inserted = h.inserted /\ g.active = h.active
  BY <1>1 DEF Table
<1> HIDE DEF g
<1>4. Live(g) = Live(h)
  BY <1>3 DEF Live
<1>5. Intact(g) /\ Formed(g)
  BY <1>1, <1>2, <1>3, <1>4 DEF Intact, Anchored, Formed, Searched, Used
<1>6. Order(g) = Order(h) /\ Absent(g) = Absent(h)
  BY <1>3, <1>4, OrderIsListed
<1>7. Iterating(g) = Iterating(h) /\ Stale(g) = Stale(h) /\ Passed(g) = Passed(h)
  BY <1>3, <1>4 DEF Iterating, Stale, Passed
<1>8. QED  BY <1>3, <1>5, <1>6, <1>7 DEF Sound, g

\* The program starts with an empty hash.
LEMMA EmptyFacts ==
    /\ Sound(Empty) /\ Empty.placeholders = 0 /\ Absent(Empty) = {} /\ Order(Empty) = <<>>
    /\ ~Iterating(Empty) /\ ~Stale(Empty) /\ Passed(Empty) = 0
<1> DEFINE h == Empty
<1>1. h \in Table
  BY DEF Empty, Table, Null
<1>2. /\ h.form = "none" /\ h.entries = <<>> /\ h.cap = 0 /\ h.keys = 0
      /\ h.placeholders = 0 /\ h.eiter = 0 /\ h.lazydel = FALSE /\ h.riter = 0
      /\ h.active = FALSE /\ h.inserted = FALSE
  BY DEF Empty, Null
<1> HIDE DEF h
<1>3. Live(h) = {} /\ DOMAIN h.entries = {} /\ Used(h) = 0
  BY <1>2 DEF Live, Used
<1>4. Intact(h)
  BY <1>1, <1>2, <1>3, FS_EmptySet DEF Intact, Anchored, Retired
<1>5. Formed(h)
  BY <1>2, <1>3 DEF Formed, Searched
<1>6. Absent(h) = {}
  BY <1>3 DEF Absent
<1>7. Order(h) = <<>>
  <2>1. Len(Order(h)) = 0 /\ Order(h) \in Seq(Key)
    BY <1>1, <1>3, OrderFacts, FS_EmptySet
  <2>2. QED  BY <2>1
<1>8. ~Iterating(h) /\ ~Stale(h)
  BY <1>2 DEF Iterating, Stale
<1>9. Passed(h) = 0
  BY <1>2, <1>3, <1>8, RankOfStart DEF Passed
<1>10. QED  BY <1>2, <1>4, <1>5, <1>6, <1>7, <1>8, <1>9 DEF Sound, h

-----------------------------------------------------------------------------
\* Every operation keeps the invariant.

\* One that leaves the placeholders alone.
LEMMA CountsStay ==
    ASSUME HashInv, Sound(hv'), Absent(hv') = Absent(hv),
           hv'.placeholders = hv.placeholders, calls' = calls, locked' \in BOOLEAN
    PROVE  HashInv'
<1>1. Exact' = Exact
  BY DEF Exact
<1>2. QED  BY <1>1 DEF HashInv

LEMMA StoreStep ==
    ASSUME HashInv, NEW k \in Key, Store(k)
    PROVE  HashInv'
BY AddedFacts, CountsStay DEF HashInv, Store

\* A key that is found is one of the hash.
LEMMA FoundIsLive ==
    ASSUME NEW h, Sound(h), NEW k, NEW p \in Found(h, k)
    PROVE  /\ p \in Live(h) /\ h.entries[p] \in Entry /\ h.entries[p].key = k
<1>1. h \in Table /\ Searched(h) = Live(h)
  BY DEF Sound, Intact, Formed
<1>2. QED  BY <1>1, LiveFacts DEF Found

LEMMA PlaceholderStep ==
    ASSUME HashInv, NEW p \in Live(hv), NEW b \in BOOLEAN, hv.entries[p].placeholder = ~b,
           hv' = Placeholder(hv, p, b), UNCHANGED <<locked, calls>>
    PROVE  HashInv'
<1> DEFINE k == hv.entries[p].key
<1>1. /\ Sound(hv) /\ locked \in BOOLEAN /\ calls \in Seq(Call)
      /\ hv.placeholders >= Cardinality(Absent(hv))
      /\ Exact => hv.placeholders = Cardinality(Absent(hv))
  BY DEF HashInv
<1>2. hv.placeholders \in Int /\ IsFiniteSet(Absent(hv)) /\ Cardinality(Absent(hv)) \in Nat
  BY <1>1, TableFacts, AbsentCount DEF Sound, Intact
<1>3. /\ Sound(hv')
      /\ hv'.placeholders = IF b THEN hv.placeholders + 1 ELSE hv.placeholders - 1
      /\ b => k \notin Absent(hv) /\ Absent(hv') = Absent(hv) \cup {k}
      /\ ~b => k \in Absent(hv) /\ Absent(hv') = Absent(hv) \ {k}
  BY <1>1, PlaceholderFacts
<1> HIDE DEF k
<1>4. Cardinality(Absent(hv')) = IF b THEN Cardinality(Absent(hv)) + 1
                                 ELSE Cardinality(Absent(hv)) - 1
  BY <1>2, <1>3, FS_AddElement, FS_RemoveElement
<1>5. Exact' = Exact
  BY DEF Exact
<1>6. QED  BY <1>1, <1>2, <1>3, <1>4, <1>5 DEF HashInv

LEMMA StoreLegalStep ==
    ASSUME HashInv, NEW k \in Key, StoreLegal(k)
    PROVE  HashInv'
<1>1. PICK p \in Found(hv, k) : /\ hv.entries[p].placeholder
                                /\ hv' = Placeholder(hv, p, FALSE)
                                /\ UNCHANGED <<locked, calls>>
  BY DEF StoreLegal
<1>2. p \in Live(hv) /\ hv.entries[p] \in Entry
  BY FoundIsLive DEF HashInv
<1>3. PICK b \in BOOLEAN : b = FALSE
  OBVIOUS
<1>4. hv.entries[p].placeholder = ~b
  BY <1>1, <1>2, <1>3 DEF Entry
<1>5. QED  BY <1>1, <1>2, <1>3, <1>4, PlaceholderStep

\* Taking out an entry that has a value leaves those that have none.
LEMMA HiddenStays ==
    ASSUME NEW h, NEW gone, \A p \in gone : ~h.entries[p].placeholder
    PROVE  Hidden(h.entries, Live(h) \ gone) = Absent(h)
<1>1. {q \in Live(h) \ gone : h.entries[q].placeholder} = {q \in Live(h) : h.entries[q].placeholder}
  OBVIOUS
<1>2. QED  BY <1>1, OrderIsListed DEF Hidden

LEMMA DeleteStep ==
    ASSUME HashInv, NEW k \in Key, Delete(k)
    PROVE  HashInv'
<1>1. PICK p \in Found(hv, k) :
         /\ ~hv.entries[p].placeholder
         /\ hv' = IF locked THEN Placeholder(hv, p, TRUE) ELSE Removed(hv, {p})
         /\ UNCHANGED <<locked, calls>>
  BY DEF Delete
<1>2. /\ p \in Live(hv) /\ hv.entries[p] \in Entry /\ Sound(hv) /\ locked \in BOOLEAN
  BY FoundIsLive DEF HashInv
<1>3. CASE locked
  <2>1. PICK b \in BOOLEAN : b = TRUE
    OBVIOUS
  <2>2. hv.entries[p].placeholder = ~b
    BY <1>1, <1>2, <2>1 DEF Entry
  <2>3. QED  BY <1>1, <1>2, <1>3, <2>1, <2>2, PlaceholderStep
<1>4. CASE ~locked
  <2>1. PICK gone \in SUBSET Live(hv) : gone = {p}
    BY <1>2
  <2>2. /\ Sound(hv') /\ hv'.placeholders = hv.placeholders
        /\ Absent(hv') = Hidden(hv.entries, Live(hv) \ gone)
    BY <1>1, <1>2, <1>4, <2>1, RemovedFacts DEF Taken
  <2>3. Absent(hv') = Absent(hv)
    BY <1>1, <2>1, <2>2, HiddenStays
  <2>4. QED  BY <1>1, <1>2, <2>2, <2>3, CountsStay
<1>5. QED  BY <1>2, <1>3, <1>4

LEMMA IteratorStep ==
    ASSUME HashInv, Each \/ Reset
    PROVE  HashInv'
<1>1. Sound(hv) /\ locked \in BOOLEAN
  BY DEF HashInv
<1>2. CASE Each
  <2>1. hv' = Iterated(hv) /\ UNCHANGED <<locked, calls>>
    BY <1>2 DEF Each
  <2>2. Sound(hv') /\ Absent(hv') = Absent(hv) /\ hv'.placeholders = hv.placeholders
    BY <1>1, <2>1, IteratedFacts DEF Closed
  <2>3. QED  BY <1>1, <2>1, <2>2, CountsStay
<1>3. CASE Reset
  <2>1. hv' = IteratorReset(hv) /\ UNCHANGED <<locked, calls>>
    BY <1>3 DEF Reset
  <2>2. Sound(hv') /\ Absent(hv') = Absent(hv) /\ hv'.placeholders = hv.placeholders
    BY <1>1, <2>1, IteratorResetFacts DEF Closed
  <2>3. QED  BY <1>1, <2>1, <2>2, CountsStay
<1>4. QED  BY <1>2, <1>3

LEMMA ReserveStep ==
    ASSUME HashInv, NEW n \in Reservations, Reserve(n)
    PROVE  HashInv'
<1> DEFINE r == IteratorReset(hv)
<1>1. Sound(hv) /\ locked \in BOOLEAN /\ n \in Nat
  BY StorageAssumption DEF HashInv
<1>2. hv' = Enlarged(r, n) /\ UNCHANGED <<locked, calls>>
  BY DEF Reserve
<1>3. Sound(r) /\ Closed(hv, r)
  BY <1>1, IteratorResetFacts
<1> HIDE DEF r
<1>4. Sound(hv') /\ Same(r, hv')
  BY <1>1, <1>2, <1>3, EnlargedFacts
<1>5. Absent(hv') = Absent(hv) /\ hv'.placeholders = hv.placeholders
  BY <1>3, <1>4 DEF Same, SameView, Closed
<1>6. QED  BY <1>1, <1>2, <1>4, <1>5, CountsStay

\* What clearing the placeholders does to the hash.
LEMMA ClearPlaceholdersFacts ==
    ASSUME Sound(hv), ClearPlaceholders
    PROVE  LET gone == {p \in Live(hv) : hv.entries[p].placeholder}
           IN /\ Sound(hv') /\ Absent(hv') = {}
              /\ hv'.placeholders = IF hv.form = "indexed"
                                    THEN hv.placeholders - Cardinality(Absent(hv)) ELSE 0
              /\ \/ /\ gone = {} /\ Absent(hv) = {} /\ Order(hv') = Order(hv)
                    /\ Iterating(hv') = Iterating(hv) /\ Stale(hv') = Stale(hv)
                    /\ Passed(hv') = Passed(hv)
                 \/ /\ gone # {}
                    /\ \E f : /\ Taken(hv, gone, f) /\ Order(hv') = Order(f)
                              /\ Iterating(hv') = Iterating(f) /\ Stale(hv') = Stale(f)
                              /\ Passed(hv') = Passed(f)
<1>1. PICK gone \in SUBSET Live(hv) : gone = {p \in Live(hv) : hv.entries[p].placeholder}
  OBVIOUS
<1> DEFINE f == IF gone = {} THEN hv ELSE Removed(hv, gone)
<1>2. Intact(hv) /\ hv \in Table /\ hv.placeholders \in Int
  BY TableFacts DEF Sound, Intact
<1>3. Cardinality(Absent(hv)) \in Nat /\ Cardinality(Absent(hv)) = Cardinality(gone)
  BY <1>1, <1>2, AbsentCount
<1>4. Sound(f) /\ f.placeholders = hv.placeholders /\ Absent(f) = {}
  <2>1. CASE gone = {}
    <3>1. Absent(hv) = {}
      BY <1>1, <2>1, OrderIsListed DEF Hidden
    <3>2. QED  BY <2>1, <3>1
  <2>2. CASE gone # {}
    <3>1. Taken(hv, gone, f)
      BY <2>2, RemovedFacts
    <3>2. Hidden(hv.entries, Live(hv) \ gone) = {}
      <4>1. {q \in Live(hv) \ gone : hv.entries[q].placeholder} = {}
        BY <1>1
      <4>2. QED  BY <4>1 DEF Hidden
    <3> HIDE DEF f
    <3>3. QED  BY <3>1, <3>2 DEF Taken
  <2>3. QED  BY <2>1, <2>2
<1>5. PICK n \in Int : n = IF hv.form = "indexed"
                           THEN hv.placeholders - Cardinality(Absent(hv)) ELSE 0
  BY <1>2, <1>3
<1>6. hv' = [f EXCEPT !.placeholders = n]
  <2>1. f \in Table
    BY <1>4 DEF Sound, Intact
  <2>2. hv' = [f EXCEPT !.placeholders = IF hv.form = "indexed"
                                         THEN f.placeholders - Cardinality(gone) ELSE 0]
    <3> HIDE DEF f
    <3>1. hv' = [f EXCEPT !.placeholders = IF hv.form = "indexed"
                                           THEN @ - Cardinality(gone) ELSE 0]
      BY <1>1 DEF ClearPlaceholders, f
    <3>2. QED  BY <2>1, <3>1 DEF Table
  <2> HIDE DEF f
  <2>3. QED  BY <1>3, <1>4, <1>5, <2>2
<1>7. gone = {} => f = hv /\ Absent(hv) = {}
  BY <1>1, OrderIsListed DEF Hidden
<1>8. gone # {} => Taken(hv, gone, f)
  BY RemovedFacts
<1> HIDE DEF f
<1>9. /\ Sound(hv') /\ Order(hv') = Order(f) /\ Absent(hv') = Absent(f)
      /\ hv'.placeholders = n
      /\ Iterating(hv') = Iterating(f) /\ Stale(hv') = Stale(f) /\ Passed(hv') = Passed(f)
  BY <1>4, <1>6, Recounted
<1>10. \/ /\ gone = {} /\ Absent(hv) = {} /\ Order(hv') = Order(hv)
          /\ Iterating(hv') = Iterating(hv) /\ Stale(hv') = Stale(hv)
          /\ Passed(hv') = Passed(hv)
       \/ /\ gone # {}
          /\ \E g : /\ Taken(hv, gone, g) /\ Order(hv') = Order(g)
                    /\ Iterating(hv') = Iterating(g) /\ Stale(hv') = Stale(g)
                    /\ Passed(hv') = Passed(g)
  BY <1>7, <1>8, <1>9
<1>11. QED  BY <1>1, <1>4, <1>5, <1>9, <1>10

LEMMA ClearPlaceholdersStep ==
    ASSUME HashInv, ClearPlaceholders
    PROVE  HashInv'
<1>1. /\ Sound(hv) /\ locked \in BOOLEAN /\ calls \in Seq(Call) /\ Intact(hv) /\ hv \in Table
      /\ hv.placeholders >= Cardinality(Absent(hv))
      /\ Exact => hv.placeholders = Cardinality(Absent(hv))
  BY DEF HashInv, Sound, Intact
<1>2. hv.placeholders \in Int /\ Cardinality(Absent(hv)) \in Nat
  BY <1>1, TableFacts, AbsentCount
<1>3. /\ Sound(hv') /\ Absent(hv') = {}
      /\ hv'.placeholders = IF hv.form = "indexed"
                            THEN hv.placeholders - Cardinality(Absent(hv)) ELSE 0
  BY <1>1, ClearPlaceholdersFacts
<1>4. Cardinality(Absent(hv')) = 0
  BY <1>3, FS_EmptySet
<1>5. UNCHANGED <<locked, calls>>
  BY DEF ClearPlaceholders
<1>6. Exact' = Exact
  BY <1>5 DEF Exact
<1>7. QED  BY <1>1, <1>2, <1>3, <1>4, <1>5, <1>6 DEF HashInv

LEMMA ReturnStep ==
    ASSUME HashInv, ~LosesDeletion, Return
    PROVE  HashInv'
<1> DEFINE top == calls[Len(calls)]
           below == SubSeq(calls, 1, Len(calls) - 1)
<1>1. calls \in Seq(Call) /\ calls # <<>> /\ UNCHANGED locked
  BY DEF HashInv, Return
<1>2. /\ top \in Call /\ below \in Seq(Call) /\ Len(below) = Len(calls) - 1
      /\ \A i \in 1 .. Len(calls) - 1 : below[i] = calls[i]
  <2>1. PICK s \in Seq(Call) : s = calls /\ s # <<>>
    BY <1>1
  <2>2. PICK n \in Nat : n = Len(s) - 1 /\ n + 1 = Len(s)
    BY <2>1
  <2>3. s[n + 1] \in Call
    BY <2>2
  <2>4. \A i \in 1 .. n : s[i] \in Call
    BY <2>2
  <2>5. SubSeq(s, 1, n) = [i \in 1 .. n |-> s[i]]
    BY <2>2
  <2>6. SubSeq(s, 1, n) \in Seq(Call) /\ Len(SubSeq(s, 1, n)) = n
    BY <2>4, <2>5
  <2>7. QED  BY <2>1, <2>2, <2>3, <2>5, <2>6
<1>3. IF top.op = "restrict" THEN RestrictFrom(below) ELSE FreeFrom(top.op, top.at, below)
  BY DEF Return
<1>4. CASE top.op = "restrict"
  <2>1. ASSUME \A i \in DOMAIN below : below[i].op = "restrict"
        PROVE  Exact
    <3>1. SUFFICES ASSUME NEW i \in DOMAIN calls  PROVE calls[i].op = "restrict"
      BY DEF Exact
    <3>2. i = Len(calls) \/ (i \in 1 .. Len(calls) - 1 /\ i \in DOMAIN below)
      BY <1>1, <1>2
    <3>3. QED  BY <1>2, <1>4, <2>1, <3>2
  <2> HIDE DEF top, below
  <2>2. QED  BY <1>1, <1>2, <1>3, <1>4, <2>1, RestrictFromStep
<1>5. CASE top.op # "restrict"
  <2>1. top.op \in {"clear", "undef"} /\ top.at \in Nat
    BY <1>2, <1>5 DEF Call
  <2> HIDE DEF top, below
  <2>2. QED  BY <1>1, <1>2, <1>3, <1>5, <2>1, FreeFromStep
<1>6. QED  BY <1>4, <1>5

\* Whatever the program and its destructors do, the invariant is kept.
LEMMA HashStep ==
    ASSUME HashInv, ~LosesDeletion, [Next]_vars
    PROVE  HashInv'
<1>0. calls \in Seq(Call) /\ locked \in BOOLEAN
  BY DEF HashInv
<1>1. ASSUME NEW k \in Key, Store(k) \/ StoreLegal(k) \/ Delete(k)  PROVE HashInv'
  BY <1>1, StoreStep, StoreLegalStep, DeleteStep
<1>2. CASE Each \/ Reset
  BY <1>2, IteratorStep
<1>3. ASSUME NEW n \in Reservations, Reserve(n)  PROVE HashInv'
  BY <1>3, ReserveStep
<1>4. ASSUME NEW b \in BOOLEAN, Lock(b)  PROVE HashInv'
  <2>1. locked' \in BOOLEAN /\ hv' = hv /\ calls' = calls
    BY <1>4 DEF Lock
  <2>2. QED  BY <2>1, CountsStay DEF HashInv
<1>5. CASE ClearPlaceholders
  BY <1>5, ClearPlaceholdersStep
<1>6. CASE Clear
  <2>1. FreeFrom("clear", 0, calls) /\ UNCHANGED locked
    BY <1>6 DEF Clear
  <2>2. PICK at \in Nat : at = 0
    OBVIOUS
  <2>3. QED  BY <1>0, <2>1, <2>2, FreeFromStep
<1>7. CASE ClearRestricted
  <2>1. RestrictFrom(calls) /\ UNCHANGED locked
    BY <1>7 DEF ClearRestricted
  <2>2. (\A i \in DOMAIN calls : calls[i].op = "restrict") => Exact
    BY DEF Exact
  <2>3. QED  BY <1>0, <2>1, <2>2, RestrictFromStep
<1>8. CASE Undef
  <2>1. FreeFrom("undef", 0, calls) /\ UNCHANGED locked
    BY <1>8 DEF Undef
  <2>2. PICK at \in Nat : at = 0
    OBVIOUS
  <2>3. QED  BY <1>0, <2>1, <2>2, FreeFromStep
<1>9. CASE Return
  BY <1>9, ReturnStep
<1>10. CASE Misread \/ UNCHANGED vars
  BY <1>10, CountsStay DEF HashInv, Misread, vars
<1>11. QED
  BY <1>1, <1>2, <1>3, <1>4, <1>5, <1>6, <1>7, <1>8, <1>9, <1>10 DEF Next

LEMMA HashInvariance == ASSUME ~LosesDeletion  PROVE Spec => []HashInv
<1>1. Init => HashInv
  <2>1. SUFFICES ASSUME Init  PROVE HashInv
    OBVIOUS
  <2>2. hv = Empty /\ locked = FALSE /\ calls = <<>>
    BY <2>1 DEF Init
  <2>3. Sound(hv) /\ hv.placeholders = 0 /\ Absent(hv) = {}
    BY <2>2, EmptyFacts
  <2>4. Cardinality(Absent(hv)) = 0
    BY <2>3, FS_EmptySet
  <2>5. calls \in Seq(Call) /\ locked \in BOOLEAN
    <3>1. <<>> \in Seq(Call)
      OBVIOUS
    <3>2. QED  BY <2>2, <3>1
  <2>6. hv.placeholders = Cardinality(Absent(hv)) /\ hv.placeholders >= Cardinality(Absent(hv))
    BY <2>3, <2>4
  <2>7. QED  BY <2>3, <2>5, <2>6 DEF HashInv
<1>2. HashInv /\ [Next]_vars => HashInv'
  BY HashStep
<1>3. QED  BY <1>1, <1>2, PTL DEF Spec

-----------------------------------------------------------------------------
\* The index leads to the entries that were not deleted and to no other, no key
\* is there twice and the array has room for what is in it, whatever the program
\* does, for any number of keys.  (S_oa_index_insert, S_oa_index_delete,
\* S_oa_rebuild, S_linear_remove_at.)
THEOREM IndexIsRight == ASSUME ~LosesDeletion  PROVE Spec => []IndexMatchesEntries
<1>1. HashInv => IndexMatchesEntries
  BY DEF HashInv, Sound, Intact, Formed, IndexMatchesEntries
<1>2. QED  BY <1>1, HashInvariance, PTL

\* HvTOTALKEYS is exact at any moment, and HvPLACEHOLDERS whenever no function
\* that empties the hash is waiting for a destructor.  (hv_clear,
\* S_clear_placeholders, S_hv_delete_common.)
THEOREM CountsAreRight == ASSUME ~LosesDeletion  PROVE Spec => []CountsAgree
<1>1. ASSUME HashInv  PROVE CountsAgree
  <2>1. /\ Intact(hv) /\ hv.keys = Cardinality(Live(hv))
        /\ hv.placeholders >= Cardinality(Absent(hv))
        /\ Exact => hv.placeholders = Cardinality(Absent(hv))
    BY <1>1 DEF HashInv, Sound, Intact
  <2>2. Cardinality(Absent(hv)) = Cardinality({p \in Live(hv) : hv.entries[p].placeholder})
    BY <2>1, AbsentCount
  <2>3. calls = <<>> => Exact
    BY DEF Exact
  <2>4. QED  BY <2>1, <2>2, <2>3 DEF CountsAgree
<1>2. QED  BY <1>1, HashInvariance, PTL

\* The iterator stands on an entry that is there, and the deletion it defers is
\* the deletion of that entry.  (xhv_eiter, HvLAZYDEL, S_oa_free_deleted.)
THEOREM IteratorIsRight == ASSUME ~LosesDeletion  PROVE Spec => []IteratorAnchored
<1>1. ASSUME HashInv  PROVE IteratorAnchored
  <2>1. Intact(hv) /\ Anchored(hv) /\ Searched(hv) = Live(hv)
    BY <1>1 DEF HashInv, Sound, Intact, Formed
  <2>2. hv.lazydel => hv.eiter # Null
    BY <2>1, AnchorFacts
  <2>3. QED  BY <2>1, <2>2 DEF Anchored, IteratorAnchored
<1>2. QED  BY <1>1, HashInvariance, PTL

\* Types, for any number of keys and of nested calls.
THEOREM HashTypes == ASSUME ~LosesDeletion  PROVE Spec => []TypeOK
<1>1. HashInv /\ defined \in BOOLEAN => TypeOK
  BY DEF HashInv, Sound, Intact, TypeOK
<1>2. Init => defined \in BOOLEAN
  BY DEF Init
<1>3. defined \in BOOLEAN /\ [Next]_vars => (defined \in BOOLEAN)'
  <2>1. ASSUME Proper  PROVE defined \in BOOLEAN => defined' \in BOOLEAN
    BY <2>1 DEF Proper
  <2>2. ASSUME NEW k \in Key, Store(k) \/ StoreLegal(k) \/ Delete(k)  PROVE Proper
    BY <2>2 DEF Store, StoreLegal, Delete
  <2>3. ASSUME NEW n \in Reservations, Reserve(n)  PROVE Proper
    BY <2>3 DEF Reserve
  <2>4. ASSUME NEW b \in BOOLEAN, Lock(b)  PROVE Proper
    BY <2>4 DEF Lock
  <2>5. Each \/ Reset \/ ClearPlaceholders => Proper
    BY DEF Each, Reset, ClearPlaceholders
  <2>6. Clear \/ ClearRestricted \/ Undef \/ Return => Proper
    BY DEF Clear, ClearRestricted, Undef, Return
  <2>7. Misread \/ UNCHANGED vars => defined' = FALSE \/ defined' = defined
    BY DEF Misread, vars
  <2>8. QED  BY <2>1, <2>2, <2>3, <2>4, <2>5, <2>6, <2>7 DEF Next
<1>4. QED  BY <1>1, <1>2, <1>3, HashInvariance, PTL DEF Spec

-----------------------------------------------------------------------------
\* The promise made of a hash is kept, step by step.

\* The rank of a position among some of the entries is the rank of its place in
\* the list of all of them.
LEMMA RankOfRanks ==
    ASSUME NEW L \in SUBSET (Nat \ {0}), IsFiniteSet(L), NEW M \in SUBSET L
    PROVE  LET K == {Rank(L, p) : p \in M}
           IN /\ K \in SUBSET (1 .. Cardinality(L)) /\ Cardinality(K) = Cardinality(M)
              /\ \A x \in Nat : Rank(M, x) = Rank(K, Rank(L, x))
<1> DEFINE K == {Rank(L, p) : p \in M}
<1>1. L \in SUBSET Nat
  OBVIOUS
<1>2. /\ \A p \in L : Rank(L, p) \in 1 .. Cardinality(L)
      /\ \A p, q \in L : Rank(L, p) = Rank(L, q) => p = q
  BY <1>1, RankOnto
<1>3. /\ \A p \in Nat : Rank(L, p) \in 0 .. Cardinality(L) /\ Cardinality(L) \in Nat
      /\ \A p, q \in Nat : p <= q => Rank(L, p) <= Rank(L, q)
      /\ \A p \in Nat : \A q \in L : p < q => Rank(L, p) < Rank(L, q)
  BY <1>1, RankFacts
<1>4. K \in SUBSET (1 .. Cardinality(L))
  BY <1>2
<1>5. ASSUME NEW A \in SUBSET M, NEW B, B = {Rank(L, p) : p \in A}
      PROVE  Cardinality(B) = Cardinality(A)
  <2> DEFINE f == [p \in A |-> Rank(L, p)]
  <2>1. IsFiniteSet(A)
    BY FS_Subset
  <2>2. f \in Surjection(A, B)
    BY <1>5 DEF Surjection
  <2>3. f \in Injection(A, B)
    BY <1>2, <1>5 DEF Injection, IsInjective
  <2> HIDE DEF f
  <2>4. QED  BY <2>1, <2>2, <2>3, FS_Surjection
<1>6. Cardinality(K) = Cardinality(M)
  BY <1>5
<1>7. ASSUME NEW x \in Nat  PROVE Rank(M, x) = Rank(K, Rank(L, x))
  <2> DEFINE A == {q \in M : q <= x}
             B == {i \in K : i <= Rank(L, x)}
  <2>1. \A q \in M : q <= x <=> Rank(L, q) <= Rank(L, x)
    <3>1. SUFFICES ASSUME NEW q \in M  PROVE q <= x <=> Rank(L, q) <= Rank(L, x)
      OBVIOUS
    <3>2. q \in Nat /\ q \in L /\ (q <= x \/ x < q)
      BY <1>1
    <3>3. Rank(L, q) \in Nat /\ Rank(L, x) \in Nat
      BY <1>3, <3>2
    <3>4. CASE q <= x
      BY <1>3, <3>2, <3>4
    <3>5. CASE x < q
      <4>1. Rank(L, x) < Rank(L, q) /\ ~ (q <= x)
        BY <1>3, <3>2, <3>5
      <4>2. QED  BY <3>3, <4>1
    <3>6. QED  BY <3>2, <3>4, <3>5
  <2>2. B = {Rank(L, p) : p \in A}
    BY <2>1
  <2>3. Cardinality(B) = Cardinality(A)
    BY <1>5, <2>2
  <2>4. QED  BY <2>3 DEF Rank
<1>8. QED  BY <1>4, <1>6, <1>7

\* What the map's own operators are.
LEMMA MapOperators ==
    /\ \A s : Map!Keys(s) = {s[i] : i \in DOMAIN s}
    /\ \A s, kept : Map!Packed(s, kept) = Packed(s, kept)
    /\ \A kept, p : Map!Rank(kept, p) = Rank(kept, p)
<1>1. \A kept, p : Map!Rank(kept, p) = Rank(kept, p)
  BY DEF Map!Rank, Rank, Map!Cardinality, Cardinality, Map!IsFiniteSet, IsFiniteSet
<1>2. \A s, kept : Map!Packed(s, kept) = Packed(s, kept)
  BY DEF Map!Packed, Packed, Map!Rank, Rank, Map!Cardinality, Cardinality, Map!IsFiniteSet, IsFiniteSet
<1>3. QED  BY <1>1, <1>2 DEF Map!Keys

\* The keys in gone leave the map, as OrderedMap has it.
Leave(h, g, gone) ==
    LET kept == {i \in DOMAIN Order(h) : Order(h)[i] \notin gone}
    IN /\ gone # {} /\ \A k \in gone : \E i \in DOMAIN Order(h) : Order(h)[i] = k
       /\ gone \in SUBSET Key
       /\ Order(g) = Packed(Order(h), kept) /\ Absent(g) = Absent(h) \ gone
       /\ \/ /\ Passed(g) = Rank(kept, Passed(h))
             /\ Iterating(g) = Iterating(h) /\ Stale(g) = Stale(h)
          \/ Passed(g) = 0 /\ ~Iterating(g) /\ ~Stale(g)

LEMMA TakenLeave ==
    ASSUME NEW h, Sound(h), NEW gone \in SUBSET Live(h), gone # {}, NEW g, Taken(h, gone, g)
    PROVE  Leave(h, g, {h.entries[p].key : p \in gone})
<1> DEFINE L == Live(h)
           M == L \ gone
           G == {h.entries[p].key : p \in gone}
           s == Order(h)
           n == Cardinality(L)
           K == {i \in DOMAIN s : s[i] \notin G}
<1>1. /\ h \in Table /\ \A p, q \in L : h.entries[p].key = h.entries[q].key => p = q
  BY DEF Sound, Intact
<1>2. /\ h.entries \in Seq(Entry \cup {Hole}) /\ L \in SUBSET (DOMAIN h.entries)
      /\ L \in SUBSET (Nat \ {0}) /\ IsFiniteSet(L)
      /\ \A p \in L : h.entries[p] \in Entry
      /\ s \in Seq(Key) /\ DOMAIN s = 1 .. n /\ n \in Nat /\ Len(s) = n
      /\ \A p \in L : Rank(L, p) \in 1 .. n /\ s[Rank(L, p)] = h.entries[p].key
      /\ \A r \in 1 .. n : \E p \in L : Rank(L, p) = r /\ s[r] = h.entries[p].key
  BY <1>1, OrderFacts, LiveFacts
<1>3. /\ Order(g) = Listed(h.entries, M) /\ Absent(g) = Hidden(h.entries, M)
      /\ \/ /\ Iterating(g) = Iterating(h) /\ Stale(g) = Stale(h)
            /\ Passed(g) = IF Stale(h) THEN 0 ELSE Rank(M, h.riter)
         \/ ~Iterating(g) /\ ~Stale(g) /\ Passed(g) = 0
  BY DEF Taken
<1>4. \A p \in L : h.entries[p].key \in G <=> p \in gone
  BY <1>1
<1>5. \A p \in L : p \in M <=> p \notin gone
  OBVIOUS
<1>6. M \in SUBSET L /\ gone \in SUBSET L
  OBVIOUS
<1>7. /\ G # {} /\ \A k \in G : \E p \in L : k = h.entries[p].key
  OBVIOUS
<1> HIDE DEF L, M, G, s, n
<1>8. K = {Rank(L, p) : p \in M}
  <2>1. ASSUME NEW i \in K  PROVE i \in {Rank(L, p) : p \in M}
    <3>1. PICK p \in L : Rank(L, p) = i /\ s[i] = h.entries[p].key
      BY <1>2
    <3>2. QED  BY <1>4, <1>5, <3>1
  <2>2. ASSUME NEW p \in M  PROVE Rank(L, p) \in K
    <3>1. p \in L /\ h.entries[p].key \notin G
      BY <1>4, <1>5, <1>6
    <3>2. QED  BY <1>2, <3>1
  <2>3. QED  BY <2>1, <2>2
<1>9. /\ K \in SUBSET (1 .. n) /\ Cardinality(K) = Cardinality(M)
      /\ \A x \in Nat : Rank(M, x) = Rank(K, Rank(L, x))
  <2> HIDE DEF K
  <2>2. LET J == {Rank(L, p) : p \in M}
        IN /\ J \in SUBSET (1 .. Cardinality(L)) /\ Cardinality(J) = Cardinality(M)
           /\ \A x \in Nat : Rank(M, x) = Rank(J, Rank(L, x))
    BY <1>2, <1>6, RankOfRanks
  <2>3. QED  BY <1>8, <2>2 DEF n
<1>10. \A p \in M : Rank(L, p) \in K
  BY <1>8
<1> HIDE DEF K
<1>11. Order(g) = Packed(s, K)
  <2> DEFINE t == Packed(s, K)
  <2>1. K \in SUBSET (DOMAIN s)
    BY <1>2, <1>9
  <2>2. /\ t \in Seq(Key) /\ Len(t) = Cardinality(K)
        /\ \A i \in K : t[Rank(K, i)] = s[i]
    BY <1>2, <2>1, PackedFacts
  <2> HIDE DEF t
  <2>3. \A p \in M : t[Rank(M, p)] = h.entries[p].key
    <3>0. SUFFICES ASSUME NEW p \in M  PROVE t[Rank(M, p)] = h.entries[p].key
      OBVIOUS
    <3>1. p \in L /\ p \in Nat
      BY <1>2, <1>6
    <3>2. Rank(M, p) = Rank(K, Rank(L, p))
      BY <1>9, <3>1
    <3>3. QED  BY <1>2, <1>10, <2>2, <3>1, <3>2
  <2>4. /\ M \in SUBSET (DOMAIN h.entries) /\ \A p \in M : h.entries[p] \in Entry
    BY <1>2, <1>6
  <2>5. h.entries \in Seq(Entry \cup {Hole}) /\ t \in Seq(Key) /\ Len(t) = Cardinality(M)
    BY <1>2, <1>9, <2>2
  <2>6. Listed(h.entries, M) = t
    BY <2>3, <2>4, <2>5, ListedIs
  <2>7. QED  BY <1>3, <2>6 DEF t
<1>12. Absent(g) = Absent(h) \ G
  <2>1. Absent(h) = Hidden(h.entries, L)
    BY OrderIsListed DEF L
  <2>2. \A k : k \in Hidden(h.entries, L) <=> \E p \in L : h.entries[p].placeholder /\ k = h.entries[p].key
    BY DEF Hidden
  <2>3. \A k : k \in Hidden(h.entries, M) <=> \E p \in M : h.entries[p].placeholder /\ k = h.entries[p].key
    BY DEF Hidden
  <2>4. QED  BY <1>3, <1>4, <1>5, <1>6, <2>1, <2>2, <2>3
<1>13. G \in SUBSET Key /\ \A k \in G : \E i \in DOMAIN s : s[i] = k
  <2>1. \A p \in L : h.entries[p].key \in Key
    BY <1>2 DEF Entry
  <2>2. G \in SUBSET Key
    BY <1>7, <2>1
  <2>3. ASSUME NEW k \in G  PROVE \E i \in DOMAIN s : s[i] = k
    <3>1. PICK p \in L : k = h.entries[p].key
      BY <1>7
    <3>2. Rank(L, p) \in DOMAIN s /\ s[Rank(L, p)] = k
      BY <1>2, <3>1
    <3>3. QED  BY <3>2
  <2>4. QED  BY <2>2, <2>3
<1>14. Stale(h) => Passed(h) = 0 /\ Rank(K, Passed(h)) = 0
  <2>1. K \in SUBSET (Nat \ {0})
    BY <1>9
  <2>2. QED  BY <2>1, RankOfStart DEF Passed
<1>15. ~Stale(h) => Rank(K, Passed(h)) = Rank(M, h.riter)
  <2>1. h.riter \in Nat
    BY <1>1, TableFacts
  <2>2. QED  BY <1>9, <2>1 DEF Passed, L
<1>16. \/ /\ Passed(g) = Rank(K, Passed(h))
          /\ Iterating(g) = Iterating(h) /\ Stale(g) = Stale(h)
       \/ Passed(g) = 0 /\ ~Iterating(g) /\ ~Stale(g)
  BY <1>3, <1>14, <1>15
<1>17. QED  BY <1>7, <1>11, <1>12, <1>13, <1>16 DEF Leave, G, s, K

\* The steps of the map that a step of the storage amounts to.
LEMMA LeaveIsRemove ==
    ASSUME NEW gone, Leave(hv, hv', gone)
    PROVE  Map!Next
<1> DEFINE kept == {i \in DOMAIN Order(hv) : Order(hv)[i] \notin gone}
<1>1. /\ gone # {} /\ gone \subseteq Map!Keys(Order(hv)) /\ gone \in SUBSET Key
      /\ Order(hv') = Map!Packed(Order(hv), kept) /\ Absent(hv') = Absent(hv) \ gone
      /\ \/ /\ Passed(hv') = Map!Rank(kept, Passed(hv))
            /\ Iterating(hv') = Iterating(hv) /\ Stale(hv') = Stale(hv)
         \/ Passed(hv') = 0 /\ Iterating(hv') = FALSE /\ Stale(hv') = FALSE
  <2>1. Iterating(hv') \in BOOLEAN /\ Stale(hv') \in BOOLEAN
    BY DEF Iterating, Stale
  <2>2. QED  BY <2>1, MapOperators DEF Leave
<1>2. Map!Remove(gone)
  BY <1>1 DEF Map!Remove, Map!Rewound
<1>3. QED  BY <1>1, <1>2 DEF Map!Next

LEMMA UnseenIsStutter ==
    ASSUME SameView(hv, hv')
    PROVE  UNCHANGED Map!mapVars
BY DEF SameView, Map!mapVars

LEMMA ClosedIsReset ==
    ASSUME Order(hv') = Order(hv), Absent(hv') = Absent(hv),
           ~Iterating(hv'), ~Stale(hv'), Passed(hv') = 0
    PROVE  Map!Next
<1>1. Iterating(hv') = FALSE /\ Stale(hv') = FALSE
  BY DEF Iterating, Stale
<1>2. Map!Reset
  BY <1>1 DEF Map!Reset, Map!Rewound
<1>3. QED  BY <1>2 DEF Map!Next

MapStep == Map!Next \/ UNCHANGED Map!mapVars

LEMMA StoreAdds ==
    ASSUME Sound(hv), NEW k \in Key, Store(k)
    PROVE  MapStep
<1>1. Found(hv, k) = {} /\ hv' = Added(hv, k)
  BY DEF Store
<1>2. /\ Order(hv') = Append(Order(hv), k) /\ Absent(hv') = Absent(hv)
      /\ Iterating(hv') = Iterating(hv) /\ Stale(hv') = Iterating(hv)
      /\ Passed(hv') = IF Iterating(hv) THEN 0 ELSE Passed(hv)
  BY <1>1, AddedFacts
<1>3. k \notin Map!Keys(Order(hv))
  BY <1>1, FoundFacts, MapOperators
<1>4. Map!Add(k)
  BY <1>2, <1>3 DEF Map!Add
<1>5. QED  BY <1>4 DEF Map!Next, MapStep

\* The key of an entry is one of the map.
LEMMA KeyOfLive ==
    ASSUME NEW h, Sound(h), NEW p \in Live(h)
    PROVE  h.entries[p].key \in Map!Keys(Order(h)) /\ h.entries[p].key \in Key
<1>1. h \in Table
  BY DEF Sound, Intact
<1>2. /\ Rank(Live(h), p) \in DOMAIN Order(h) /\ h.entries[p] \in Entry
      /\ Order(h)[Rank(Live(h), p)] = h.entries[p].key
  BY <1>1, OrderFacts
<1>3. QED  BY <1>2, MapOperators DEF Entry

LEMMA PlaceholderHides ==
    ASSUME Sound(hv), NEW p \in Live(hv), NEW b \in BOOLEAN,
           hv.entries[p].placeholder = ~b, hv' = Placeholder(hv, p, b)
    PROVE  MapStep
<1> DEFINE k == hv.entries[p].key
<1>1. /\ Order(hv') = Order(hv)
      /\ b => k \notin Absent(hv) /\ Absent(hv') = Absent(hv) \cup {k}
      /\ ~b => k \in Absent(hv) /\ Absent(hv') = Absent(hv) \ {k}
      /\ Iterating(hv') = Iterating(hv) /\ Stale(hv') = Stale(hv) /\ Passed(hv') = Passed(hv)
  BY PlaceholderFacts
<1>2. k \in Map!Keys(Order(hv)) /\ k \in Key
  BY KeyOfLive
<1> HIDE DEF k
<1>3. CASE b
  <2>1. Map!Hide(k)
    BY <1>1, <1>2, <1>3 DEF Map!Hide
  <2>2. QED  BY <1>2, <2>1 DEF Map!Next, MapStep
<1>4. CASE ~b
  <2>1. Map!Fill(k)
    BY <1>1, <1>2, <1>4 DEF Map!Fill
  <2>2. QED  BY <1>2, <2>1 DEF Map!Next, MapStep
<1>5. QED  BY <1>3, <1>4

LEMMA StoreLegalFills ==
    ASSUME Sound(hv), NEW k \in Key, StoreLegal(k)
    PROVE  MapStep
<1>1. PICK p \in Found(hv, k) : hv.entries[p].placeholder /\ hv' = Placeholder(hv, p, FALSE)
  BY DEF StoreLegal
<1>2. p \in Live(hv) /\ hv.entries[p] \in Entry
  BY FoundIsLive
<1>3. PICK b \in BOOLEAN : b = FALSE
  OBVIOUS
<1>4. hv.entries[p].placeholder = ~b
  BY <1>1, <1>2, <1>3 DEF Entry
<1>5. QED  BY <1>1, <1>2, <1>3, <1>4, PlaceholderHides

LEMMA DeleteRemoves ==
    ASSUME Sound(hv), locked \in BOOLEAN, NEW k \in Key, Delete(k)
    PROVE  MapStep
<1>1. PICK p \in Found(hv, k) :
         /\ ~hv.entries[p].placeholder
         /\ hv' = IF locked THEN Placeholder(hv, p, TRUE) ELSE Removed(hv, {p})
  BY DEF Delete
<1>2. p \in Live(hv) /\ hv.entries[p] \in Entry
  BY FoundIsLive
<1>3. CASE locked
  <2>1. PICK b \in BOOLEAN : b = TRUE
    OBVIOUS
  <2>2. hv.entries[p].placeholder = ~b
    BY <1>1, <1>2, <2>1 DEF Entry
  <2>3. QED  BY <1>1, <1>2, <1>3, <2>1, <2>2, PlaceholderHides
<1>4. CASE ~locked
  <2>1. PICK gone \in SUBSET Live(hv) : gone = {p} /\ gone # {}
    BY <1>2
  <2>2. Taken(hv, gone, hv')
    BY <1>1, <1>4, <2>1, RemovedFacts
  <2>3. Leave(hv, hv', {hv.entries[q].key : q \in gone})
    BY <2>1, <2>2, TakenLeave
  <2>4. QED  BY <2>3, LeaveIsRemove DEF MapStep
<1>5. QED  BY <1>3, <1>4

\* The keys each() may come to are those of the entries it may come to.
LEMMA AheadIsComing ==
    ASSUME NEW h, Sound(h), ~Stale(h)
    PROVE  /\ {i \in Passed(h) + 1 .. Len(Order(h)) : Order(h)[i] \notin Absent(h)}
                = {Rank(Live(h), p) : p \in Coming(h)}
           /\ \A p \in Coming(h) : Rank(Live(h), p) \in 1 .. Len(Order(h))
           /\ \A p, q \in Coming(h) : p <= q => Rank(Live(h), p) <= Rank(Live(h), q)
<1> DEFINE L == Live(h)
           n == Cardinality(L)
           ahead == {i \in Passed(h) + 1 .. Len(Order(h)) : Order(h)[i] \notin Absent(h)}
<1>1. /\ h \in Table /\ \A p, q \in L : h.entries[p].key = h.entries[q].key => p = q
  BY DEF Sound, Intact
<1>2. /\ L \in SUBSET Nat /\ IsFiniteSet(L) /\ n \in Nat
      /\ Len(Order(h)) = n
      /\ \A p \in L : Rank(L, p) \in 1 .. n /\ Order(h)[Rank(L, p)] = h.entries[p].key
      /\ \A r \in 1 .. n : \E p \in L : Rank(L, p) = r /\ Order(h)[r] = h.entries[p].key
  BY <1>1, OrderFacts, LiveFacts
<1>3. h.riter \in Nat /\ Passed(h) = Rank(L, h.riter) /\ Passed(h) \in Nat
  <2>1. h.riter \in Nat
    BY <1>1, TableFacts
  <2>2. QED  BY <1>2, <2>1, RankFacts DEF Passed
<1>4. \A p \in L : p > h.riter <=> Rank(L, p) > Passed(h)
  <2>1. SUFFICES ASSUME NEW p \in L  PROVE p > h.riter <=> Rank(L, p) > Passed(h)
    OBVIOUS
  <2>2. L \in SUBSET Nat /\ IsFiniteSet(L) /\ p \in L /\ p \in Nat /\ Rank(L, p) \in Nat
    BY <1>2, <2>1
  <2> HIDE DEF L
  <2>3. /\ \A x, y \in Nat : x <= y => Rank(L, x) <= Rank(L, y)
        /\ \A x \in Nat : \A y \in L : x < y => Rank(L, x) < Rank(L, y)
    BY <2>2, RankFacts
  <2>4. /\ p <= h.riter => Rank(L, p) <= Passed(h)
        /\ h.riter < p => Passed(h) < Rank(L, p)
    BY <1>3, <2>2, <2>3
  <2>5. QED  BY <1>3, <2>2, <2>4
<1>5. \A p \in L : h.entries[p].key \in Absent(h) <=> p \notin WithValue(h)
  BY <1>1 DEF Absent
<1>6. \A p \in L : p \in Coming(h) <=> Rank(L, p) > Passed(h) /\ h.entries[p].key \notin Absent(h)
  BY <1>4, <1>5 DEF Coming
<1>7. Coming(h) \in SUBSET L
  BY DEF Coming, WithValue
<1> HIDE DEF L, n
<1>8. ASSUME NEW i \in ahead  PROVE i \in {Rank(L, p) : p \in Coming(h)}
  <2>1. i \in 1 .. n /\ i > Passed(h) /\ Order(h)[i] \notin Absent(h)
    BY <1>2, <1>3
  <2>2. PICK p \in L : Rank(L, p) = i /\ Order(h)[i] = h.entries[p].key
    BY <1>2, <2>1
  <2>3. QED  BY <1>6, <2>1, <2>2
<1>9. ASSUME NEW p \in Coming(h)  PROVE Rank(L, p) \in ahead
  <2>1. p \in L /\ Rank(L, p) > Passed(h) /\ h.entries[p].key \notin Absent(h)
    BY <1>6, <1>7
  <2>2. Rank(L, p) \in 1 .. n /\ Order(h)[Rank(L, p)] = h.entries[p].key
    BY <1>2, <2>1
  <2>3. Rank(L, p) \in Passed(h) + 1 .. Len(Order(h))
    BY <1>2, <1>3, <2>1, <2>2
  <2>4. QED  BY <2>1, <2>2, <2>3
<1>10. ahead = {Rank(L, p) : p \in Coming(h)}
  BY <1>8, <1>9
<1>11. \A p, q \in Coming(h) : p <= q => Rank(L, p) <= Rank(L, q)
  BY <1>2, <1>7, RankFacts
<1>12. QED  BY <1>2, <1>7, <1>10, <1>11 DEF L

LEMMA EachVisits ==
    ASSUME Sound(hv), Each
    PROVE  MapStep
<1>1. hv' = Iterated(hv)
  BY DEF Each
<1>2. CASE (Stale(hv) \/ Coming(hv) = {}) /\ Closed(hv, hv')
  BY <1>2, ClosedIsReset DEF Closed, MapStep
<1>3. ASSUME ~Stale(hv),
             NEW p \in Coming(hv), \A q \in Coming(hv) : p <= q,
             Order(hv') = Order(hv), Absent(hv') = Absent(hv),
             Iterating(hv'), ~Stale(hv'), Passed(hv') = Rank(Live(hv), p)
      PROVE  MapStep
  <2> DEFINE i == Rank(Live(hv), p)
  <2>1. Map!Ahead = {Rank(Live(hv), q) : q \in Coming(hv)}
    BY <1>3, AheadIsComing DEF Map!Ahead
  <2>2. i \in 1 .. Len(Order(hv)) /\ \A q \in Coming(hv) : i <= Rank(Live(hv), q)
    BY <1>3, AheadIsComing
  <2>3. i \in Map!Ahead /\ \A j \in Map!Ahead : i <= j
    BY <2>1, <2>2
  <2>4. Iterating(hv') = TRUE /\ Stale(hv') = Stale(hv)
    BY <1>3 DEF Iterating, Stale
  <2>5. Passed(hv') = i
    BY <1>3
  <2> HIDE DEF i
  <2>6. Map!Visit(i)
    BY <1>3, <2>3, <2>4, <2>5 DEF Map!Visit
  <2>7. QED  BY <2>2, <2>6 DEF Map!Next, MapStep
<1>4. QED  BY <1>1, <1>2, <1>3, IteratedFacts

LEMMA ResetRewinds ==
    ASSUME Sound(hv), Reset \/ \E n \in Reservations : Reserve(n)
    PROVE  MapStep
<1>1. Closed(hv, IteratorReset(hv)) /\ Sound(IteratorReset(hv))
  BY IteratorResetFacts
<1>2. CASE Reset
  BY <1>1, <1>2, ClosedIsReset DEF Reset, Closed, MapStep
<1>3. ASSUME NEW n \in Reservations, Reserve(n)  PROVE MapStep
  <2>1. n \in Nat /\ hv' = Enlarged(IteratorReset(hv), n)
    BY <1>3, StorageAssumption DEF Reserve
  <2>2. Same(IteratorReset(hv), hv')
    BY <1>1, <2>1, EnlargedFacts
  <2>3. QED  BY <1>1, <2>2, ClosedIsReset DEF Same, SameView, Closed, MapStep
<1>4. QED  BY <1>2, <1>3

LEMMA ClearPlaceholdersRemoves ==
    ASSUME Sound(hv), ClearPlaceholders
    PROVE  MapStep
<1> DEFINE gone == {p \in Live(hv) : hv.entries[p].placeholder}
<1>1. /\ Absent(hv') = {}
      /\ \/ /\ gone = {} /\ Absent(hv) = {} /\ Order(hv') = Order(hv)
            /\ Iterating(hv') = Iterating(hv) /\ Stale(hv') = Stale(hv)
            /\ Passed(hv') = Passed(hv)
         \/ /\ gone # {}
            /\ \E f : /\ Taken(hv, gone, f) /\ Order(hv') = Order(f)
                      /\ Iterating(hv') = Iterating(f) /\ Stale(hv') = Stale(f)
                      /\ Passed(hv') = Passed(f)
  BY ClearPlaceholdersFacts
<1>2. CASE /\ gone = {} /\ Absent(hv) = {} /\ Order(hv') = Order(hv)
           /\ Iterating(hv') = Iterating(hv) /\ Stale(hv') = Stale(hv)
           /\ Passed(hv') = Passed(hv)
  BY <1>1, <1>2, UnseenIsStutter DEF SameView, MapStep
<1>3. ASSUME gone # {}, NEW f, Taken(hv, gone, f), Order(hv') = Order(f),
             Iterating(hv') = Iterating(f), Stale(hv') = Stale(f), Passed(hv') = Passed(f)
      PROVE  MapStep
  <2>1. gone \in SUBSET Live(hv)
    OBVIOUS
  <2> HIDE DEF gone
  <2>2. Leave(hv, f, {hv.entries[p].key : p \in gone})
    BY <1>3, <2>1, TakenLeave
  <2>3. Absent(f) = {}
    BY <1>3 DEF Taken, Hidden, gone
  <2>4. Leave(hv, hv', {hv.entries[p].key : p \in gone})
    BY <1>1, <1>3, <2>2, <2>3 DEF Leave
  <2>5. QED  BY <2>4, LeaveIsRemove DEF MapStep
<1>4. QED  BY <1>1, <1>2, <1>3

\* A key leaves a hash whose iterator was given up before.
LEMMA LeaveAfterReset ==
    ASSUME NEW h, Sound(h), NEW r, r.riter = 0, Closed(h, r), NEW g, NEW gone, Leave(r, g, gone)
    PROVE  Leave(h, g, gone)
<1> DEFINE kept == {i \in DOMAIN Order(h) : Order(h)[i] \notin gone}
<1>1. Order(r) = Order(h) /\ Absent(r) = Absent(h)
      /\ Passed(r) = 0 /\ ~Iterating(r) /\ ~Stale(r)
  BY DEF Closed
<1>2. Rank(kept, 0) = 0
  <2>1. h \in Table
    BY DEF Sound, Intact
  <2>2. DOMAIN Order(h) = 1 .. Cardinality(Live(h)) /\ Cardinality(Live(h)) \in Nat
    BY <2>1, OrderFacts, LiveFacts
  <2>3. kept \in SUBSET (Nat \ {0})
    BY <2>2
  <2> HIDE DEF kept
  <2>4. QED  BY <2>3, RankOfStart
<1>3. Iterating(r) = FALSE /\ Stale(r) = FALSE
  BY <1>1 DEF Iterating, Stale
<1>4. QED  BY <1>1, <1>2, <1>3 DEF Leave

LEMMA FreeFromRemoves ==
    ASSUME Sound(hv), NEW op, NEW at \in Nat, NEW below, FreeFrom(op, at, below)
    PROVE  MapStep
<1> DEFINE r == Released(hv)
           p == NextFreed(r, at)
<1>1. /\ Sound(r) /\ r.eiter = Null /\ Order(r) = Order(hv) /\ Absent(r) = Absent(hv)
      /\ r = hv \/ (r.riter = 0 /\ Closed(hv, r))
  BY ReleasedFacts
<1>2. /\ r.keys = 0 => hv' = Emptied(op, r)
      /\ r.keys # 0 => hv' = Removed(r, {p})
  BY DEF FreeFrom
<1> HIDE DEF r, p
<1>3. CASE r.keys = 0
  <2>1. SameView(r, hv')
    BY <1>1, <1>2, <1>3, EmptiedFacts DEF SameView
  <2>2. CASE r = hv
    BY <2>1, <2>2, UnseenIsStutter DEF MapStep
  <2>3. CASE Closed(hv, r)
    BY <2>1, <2>3, ClosedIsReset DEF Closed, SameView, MapStep
  <2>4. QED  BY <1>1, <2>2, <2>3
<1>4. CASE r.keys # 0
  <2>1. p \in Live(r)
    BY <1>1, <1>4, NextFreedFacts DEF p
  <2>2. PICK gone \in SUBSET Live(r) : gone = {p} /\ gone # {}
    BY <2>1
  <2>3. Taken(r, gone, hv')
    BY <1>1, <1>2, <1>4, <2>2, RemovedFacts
  <2>4. Leave(r, hv', {r.entries[q].key : q \in gone})
    BY <1>1, <2>2, <2>3, TakenLeave
  <2>5. Leave(hv, hv', {r.entries[q].key : q \in gone})
    BY <1>1, <2>4, LeaveAfterReset
  <2>6. QED  BY <2>5, LeaveIsRemove DEF MapStep
<1>5. QED  BY <1>3, <1>4

LEMMA RestrictFromHides ==
    ASSUME Sound(hv), ~LosesDeletion, NEW below, RestrictFrom(below)
    PROVE  MapStep
<1>1. hv \in Table /\ Intact(hv)
  BY DEF Sound, Intact
<1>2. CASE WithValue(hv) = {}
  <2>1. ~hv.lazydel /\ hv' = [hv EXCEPT !.eiter = Null]
    BY <1>2 DEF RestrictFrom
  <2>2. hv' \in Table
    <3>1. PICK null \in Int : null = Null
      BY DEF Null
    <3>2. hv' = [hv EXCEPT !.eiter = null]
      BY <2>1, <3>1
    <3>3. QED  BY <1>1, <3>2 DEF Table
  <2>3. /\ hv'.entries = hv.entries /\ hv'.form = hv.form /\ hv'.cap = hv.cap
        /\ hv'.indexed = hv.indexed /\ hv'.keys = hv.keys
        /\ hv'.placeholders = hv.placeholders /\ hv'.lazydel = hv.lazydel /\ hv'.eiter = Null
        /\ hv'.riter = hv.riter /\ hv'.active = hv.active /\ hv'.inserted = hv.inserted
    BY <1>1, <2>1 DEF Table
  <2>4. Live(hv') = Live(hv) /\ Order(hv') = Order(hv) /\ Absent(hv') = Absent(hv)
    BY <2>1, <2>2, <2>3, IteratorMoved
  <2>5. Iterating(hv') = Iterating(hv) /\ Stale(hv') = Stale(hv) /\ Passed(hv') = Passed(hv)
    BY <2>3, <2>4 DEF Iterating, Stale, Passed
  <2>6. QED  BY <2>4, <2>5, UnseenIsStutter DEF SameView, MapStep
<1>3. CASE WithValue(hv) # {}
  <2> DEFINE p == First(WithValue(hv))
  <2>1. hv' = Placeholder(hv, p, TRUE)
    BY <1>3 DEF RestrictFrom
  <2>2. p \in WithValue(hv) /\ p \in Live(hv)
    <3>1. WithValue(hv) \in SUBSET Nat
      BY <1>1, LiveFacts DEF WithValue
    <3>2. QED  BY <1>3, <3>1, FirstFacts DEF WithValue
  <2>3. PICK b \in BOOLEAN : b = TRUE
    OBVIOUS
  <2>4. hv.entries[p].placeholder = ~b
    <3>1. hv.entries[p] \in Entry
      BY <1>1, <2>2, LiveFacts
    <3>2. QED  BY <2>2, <2>3, <3>1 DEF WithValue, Entry
  <2> HIDE DEF p
  <2>5. QED  BY <2>1, <2>2, <2>3, <2>4, PlaceholderHides
<1>4. QED  BY <1>2, <1>3

LEMMA StepIsMapStep ==
    ASSUME HashInv, ~LosesDeletion, [Next]_vars
    PROVE  MapStep
<1>0. Sound(hv) /\ calls \in Seq(Call) /\ locked \in BOOLEAN
  BY DEF HashInv
<1>1. ASSUME NEW k \in Key, Store(k) \/ StoreLegal(k) \/ Delete(k)  PROVE MapStep
  BY <1>0, <1>1, StoreAdds, StoreLegalFills, DeleteRemoves
<1>2. CASE Each
  BY <1>0, <1>2, EachVisits
<1>3. CASE Reset \/ \E n \in Reservations : Reserve(n)
  BY <1>0, <1>3, ResetRewinds
<1>4. CASE UNCHANGED hv
  BY <1>4, UnseenIsStutter DEF SameView, MapStep
<1>5. CASE ClearPlaceholders
  BY <1>0, <1>5, ClearPlaceholdersRemoves
<1>6. ASSUME NEW op, NEW at \in Nat, NEW below, FreeFrom(op, at, below)  PROVE MapStep
  BY <1>0, <1>6, FreeFromRemoves
<1>7. ASSUME NEW below, RestrictFrom(below)  PROVE MapStep
  BY <1>0, <1>7, RestrictFromHides
<1>8. CASE Clear \/ Undef
  <2>1. PICK at \in Nat : at = 0
    OBVIOUS
  <2>2. QED  BY <1>6, <1>8, <2>1 DEF Clear, Undef
<1>9. CASE ClearRestricted
  BY <1>7, <1>9 DEF ClearRestricted
<1>10. CASE Return
  <2>1. calls[Len(calls)] \in Call
    <3>1. calls # <<>>
      BY <1>10 DEF Return
    <3>2. PICK s \in Seq(Call) : s = calls /\ s # <<>>
      BY <1>0, <3>1
    <3>3. s[Len(s)] \in Call
      BY <3>2
    <3>4. QED  BY <3>2, <3>3
  <2>2. calls[Len(calls)].at \in Nat
    BY <2>1 DEF Call
  <2>3. QED  BY <1>6, <1>7, <1>10, <2>2 DEF Return
<1>11. CASE Misread \/ UNCHANGED vars
  BY <1>4, <1>11 DEF Misread, vars
<1>12. ASSUME NEW b \in BOOLEAN, Lock(b)  PROVE MapStep
  BY <1>4, <1>12 DEF Lock
<1>13. QED
  BY <1>1, <1>2, <1>3, <1>5, <1>8, <1>9, <1>10, <1>11, <1>12 DEF Next

\* Storage in three forms, packed, grown, shrunk and emptied with destructors
\* running in between, is the ordered map with one iterator that a program is
\* promised: what S_oa_rebuild, S_oa_reserve and hv_iternext move is not seen.
THEOREM HashImplementsMap == ASSUME ~LosesDeletion  PROVE Spec => ImplementsOrderedMap
<1>1. Init => Map!Init
  <2>1. SUFFICES ASSUME Init  PROVE Map!Init
    OBVIOUS
  <2>2. hv = Empty
    BY <2>1 DEF Init
  <2>3. Iterating(Empty) = FALSE /\ Stale(Empty) = FALSE
    BY EmptyFacts DEF Iterating, Stale
  <2>4. QED  BY <2>2, <2>3, EmptyFacts DEF Map!Init
<1>2. HashInv /\ [Next]_vars => [Map!Next]_(Map!mapVars)
  BY StepIsMapStep DEF MapStep
<1>3. QED  BY <1>1, <1>2, HashInvariance, PTL DEF Spec, ImplementsOrderedMap, Map!Spec
=============================================================================
