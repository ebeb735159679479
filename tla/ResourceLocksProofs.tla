------------------------- MODULE ResourceLocksProofs -------------------------
(***************************************************************************)
(* Sections exclude each other, writers are woken and nobody waits in a    *)
(* circle, for every set of threads, every set of sections and any depth   *)
(* of nesting.                                                             *)
(***************************************************************************)
EXTENDS ResourceLocksProperties, FiniteSetTheorems, SequenceTheorems, TLAPS

Step == [lock : Lock, mode : {"r", "x"}]
SectionFrame == [section : Sections, taken : {0, 1, 2}, leaving : BOOLEAN]

TypeOK ==
    /\ build \in Builds
    /\ holder \in [Lock -> Thread \cup {Nobody}]
    /\ readers \in [Lock -> Nat]
    /\ asleep \in [Lock -> SUBSET Thread]
    /\ xcounter \in [Thread -> [Lock -> Nat]]
    /\ rcounter \in [Thread -> [Lock -> Nat]]
    /\ frames \in [Thread -> Seq(SectionFrame)]

\* Frame f has not more locks than its section takes, and has all of them until
\* it gives the first one up.
FrameOK(f) ==
    /\ Plan(f.section) # <<>>
    /\ f.taken <= Len(Plan(f.section))
    /\ f.leaving => f.taken = 1 /\ Len(Plan(f.section)) = 2

\* A nested section takes locks that an outer one has, and exclusively what
\* that one has exclusively.
Covered(s, o, i) ==
    \E j \in 1 .. i - 1 : \E n \in DOMAIN Plan(o[j].section) :
        /\ Plan(o[j].section)[n].lock = s.lock
        /\ s.mode = "x" => Plan(o[j].section)[n].mode = "x"

\* Only the innermost section is being entered or left.
Nested(o) ==
    \A i \in 1 .. Len(o) :
        /\ FrameOK(o[i])
        /\ i < Len(o) => ~ o[i].leaving /\ o[i].taken = Len(Plan(o[i].section))
        /\ i > 1 => \A n \in DOMAIN Plan(o[i].section) : Covered(Plan(o[i].section)[n], o, i)

FramesOK == \A t \in Thread : Nested(frames[t])

\* A writer asleep has not got the lock it is about to take.
SleepersOK ==
    \A l \in Lock : \A t \in asleep[l] :
        /\ Entering(t)
        /\ Next1(t) = [lock |-> l, mode |-> "x"]
        /\ xcounter[t][l] = 0

Readers(l) == {t \in Thread : rcounter[t][l] > 0 /\ xcounter[t][l] = 0}
ReadersOK ==
    \A l \in Lock : IsFiniteSet(Readers(l)) /\ (holder[l] # Nobody => readers[l] = 0)

\* The invariant: the counters agree with the sections, and the above.
IndInv ==
    /\ TypeOK
    /\ FramesOK
    /\ CountersAgree
    /\ ReadersOK
    /\ SleepersOK
    /\ WritersWoken

-----------------------------------------------------------------------------
\* The locks of a section.

\* What is taken of two locks.
LEMMA TakePair ==
    ASSUME NEW l \in Lock, NEW k \in Lock, NEW m \in Need, NEW n \in Need
    PROVE  Take(l, m) \o Take(k, n) =
               IF m = "-" THEN IF n = "-" THEN <<>> ELSE <<[lock |-> k, mode |-> n]>>
               ELSE IF n = "-" THEN <<[lock |-> l, mode |-> m]>>
               ELSE <<[lock |-> l, mode |-> m], [lock |-> k, mode |-> n]>>
<1> DEFINE a == [lock |-> l, mode |-> m]
           b == [lock |-> k, mode |-> n]
<1> HIDE DEF a, b
<1>1. <<>> \in Seq({a, b}) /\ <<a>> \in Seq({a, b}) /\ <<b>> \in Seq({a, b}) /\ <<a, b>> \in Seq({a, b})
  OBVIOUS
<1>2. <<>> \o <<>> = <<>> /\ <<a>> \o <<>> = <<a>> /\ <<>> \o <<b>> = <<b>>
  BY <1>1, ConcatEmptySeq
<1>3. <<a>> \o <<b>> = <<a, b>>
  <2>1. /\ <<a>> \o <<b>> \in Seq({a, b}) /\ Len(<<a>> \o <<b>>) = 2
        /\ \A i \in 1 .. 2 : (<<a>> \o <<b>>)[i] = IF i <= 1 THEN <<a>>[i] ELSE <<b>>[i - 1]
    BY <1>1, ConcatProperties
  <2>2. Len(<<a, b>>) = 2 /\ \A i \in 1 .. 2 : (<<a>> \o <<b>>)[i] = <<a, b>>[i]
    BY <2>1
  <2>3. QED  BY <1>1, <2>1, <2>2, SeqEqual
<1>4. QED  BY <1>2, <1>3 DEF Take, a, b

\* The lock that is taken first, where a section takes both.
Outer == IF build = "repurposed" THEN "locale" ELSE "env"
Inner == IF build = "repurposed" THEN "env" ELSE "locale"

\* The need that each of them has to meet.
OuterNeed(s) ==
    IF build = "repurposed"
    THEN Strongest(s["gen"], IF s["env"] = "-" /\ s["lc"] = "x" THEN "x" ELSE "-")
    ELSE Strongest(s["gen"], s["env"])
InnerNeed(s) ==
    IF build = "repurposed" THEN s["env"] ELSE IF s["lc"] = "-" THEN "-" ELSE "x"

\* A section takes each lock it needs once, the outer one first.
LEMMA PlanFacts ==
    ASSUME build \in Builds, NEW s \in Sections
    PROVE  /\ OuterNeed(s) \in Need /\ InnerNeed(s) \in Need
           /\ Outer \in Lock /\ Inner \in Lock /\ Outer # Inner
           /\ Plan(s) = IF OuterNeed(s) = "-"
                        THEN IF InnerNeed(s) = "-" THEN <<>>
                             ELSE <<[lock |-> Inner, mode |-> InnerNeed(s)]>>
                        ELSE IF InnerNeed(s) = "-"
                        THEN <<[lock |-> Outer, mode |-> OuterNeed(s)]>>
                        ELSE <<[lock |-> Outer, mode |-> OuterNeed(s)],
                               [lock |-> Inner, mode |-> InnerNeed(s)]>>
<1>1. s \in [Resource -> Need] /\ build \in {"repurposed", "separate"}
  BY ResourceAssumption
<1>2. s["gen"] \in Need /\ s["env"] \in Need /\ s["lc"] \in Need
  BY <1>1 DEF Resource
<1>3. OuterNeed(s) \in Need /\ InnerNeed(s) \in Need
  BY <1>2 DEF OuterNeed, InnerNeed, Strongest, Need
<1>4. Outer \in Lock /\ Inner \in Lock /\ Outer # Inner
  BY DEF Outer, Inner, Lock
<1>5. Plan(s) = Take(Outer, OuterNeed(s)) \o Take(Inner, InnerNeed(s))
  BY <1>1 DEF Plan, Repurposed, Separate, Outer, Inner, OuterNeed, InnerNeed
<1>6. QED  BY <1>3, <1>4, <1>5, TakePair

\* The same, step by step.
LEMMA PlanSteps ==
    ASSUME build \in Builds, NEW s \in Sections
    PROVE  /\ Plan(s) \in Seq(Step)
           /\ Len(Plan(s)) \in 0 .. 2 /\ DOMAIN Plan(s) = 1 .. Len(Plan(s))
           /\ Plan(s) # <<>> => Len(Plan(s)) \in 1 .. 2
           /\ \A i \in 1 .. Len(Plan(s)) :
                 Plan(s)[i].lock \in Lock /\ Plan(s)[i].mode \in {"r", "x"}
                 /\ Plan(s)[i] = [lock |-> Plan(s)[i].lock, mode |-> Plan(s)[i].mode]
           /\ Len(Plan(s)) = 2 => Plan(s)[1].lock = Outer /\ Plan(s)[2].lock = Inner
<1> DEFINE a == [lock |-> Outer, mode |-> OuterNeed(s)]
           b == [lock |-> Inner, mode |-> InnerNeed(s)]
<1>1. /\ OuterNeed(s) \in Need /\ InnerNeed(s) \in Need /\ Outer \in Lock /\ Inner \in Lock
      /\ Plan(s) = IF OuterNeed(s) = "-" THEN IF InnerNeed(s) = "-" THEN <<>> ELSE <<b>>
                   ELSE IF InnerNeed(s) = "-" THEN <<a>> ELSE <<a, b>>
  BY PlanFacts
<1>2. (OuterNeed(s) # "-" => a \in Step) /\ (InnerNeed(s) # "-" => b \in Step)
  BY <1>1 DEF Step, Need
<1>3. a.lock = Outer /\ b.lock = Inner
  OBVIOUS
<1> HIDE DEF a, b
<1>4. Plan(s) \in Seq(Step) /\ Len(Plan(s)) \in 0 .. 2
      /\ (Len(Plan(s)) = 2 => Plan(s)[1].lock = Outer /\ Plan(s)[2].lock = Inner)
  <2>1. CASE OuterNeed(s) = "-" /\ InnerNeed(s) = "-"
    BY <1>1, <2>1
  <2>2. CASE OuterNeed(s) = "-" /\ InnerNeed(s) # "-"
    BY <1>1, <1>2, <2>2
  <2>3. CASE OuterNeed(s) # "-" /\ InnerNeed(s) = "-"
    BY <1>1, <1>2, <2>3
  <2>4. CASE OuterNeed(s) # "-" /\ InnerNeed(s) # "-"
    BY <1>1, <1>2, <1>3, <2>4
  <2>5. QED  BY <2>1, <2>2, <2>3, <2>4
<1>5. \A i \in 1 .. Len(Plan(s)) : Plan(s)[i] \in Step
  BY <1>4, ElementOfSeq
<1>6. DOMAIN Plan(s) = 1 .. Len(Plan(s)) /\ (Plan(s) # <<>> => Len(Plan(s)) # 0)
  BY <1>4, LenProperties, EmptySeq
<1>7. QED  BY <1>4, <1>5, <1>6 DEF Step

-----------------------------------------------------------------------------
\* What a change of the frames of a thread does to the locks it has.

\* The places where o has taken lock l for m.
Held(o, l, m) ==
    {p \in (DOMAIN o) \X (1 .. 2) :
        /\ p[2] <= o[p[1]].taken
        /\ Plan(o[p[1]].section)[p[2]] = [lock |-> l, mode |-> m]}

\* A frame is entered as long as it has not got all its locks.
ToTake(f) == ~ f.leaving /\ f.taken < Len(Plan(f.section))

\* Sets of pairs.
LEMMA SamePairs ==
    ASSUME NEW I, NEW J, NEW A \in SUBSET (I \X J), NEW B \in SUBSET (I \X J),
           \A i \in I, j \in J : <<i, j>> \in A <=> <<i, j>> \in B
    PROVE  A = B
<1>1. \A p \in I \X J : p[1] \in I /\ p[2] \in J /\ p = <<p[1], p[2]>>
  OBVIOUS
<1>2. \A p \in I \X J : p \in A <=> p \in B
  BY <1>1
<1>3. QED  BY <1>2

LEMMA HeldFinite ==
    ASSUME NEW o \in Seq(SectionFrame), NEW l, NEW m
    PROVE  IsFiniteSet(Held(o, l, m)) /\ Cardinality(Held(o, l, m)) \in Nat
           /\ (Cardinality(Held(o, l, m)) = 0 <=> Held(o, l, m) = {})
<1>1. Len(o) \in Nat /\ DOMAIN o = 1 .. Len(o)
  BY LenProperties
<1>2. IsFiniteSet(1 .. Len(o)) /\ IsFiniteSet(1 .. 2)
  <2>1. 1 \in Int /\ 2 \in Int /\ Len(o) \in Int
    BY <1>1
  <2>2. QED  BY ONLY <2>1, FS_Interval
<1>3. IsFiniteSet((DOMAIN o) \X (1 .. 2))
  BY <1>1, <1>2, FS_Product
<1>4. Held(o, l, m) \in SUBSET ((DOMAIN o) \X (1 .. 2))
  BY DEF Held
<1>5. IsFiniteSet(Held(o, l, m))
  BY <1>3, <1>4, FS_Subset
<1>6. QED  BY <1>5, FS_CardinalityType, FS_EmptySet

\* A frame in the sequence.
LEMMA FrameFacts ==
    ASSUME build \in Builds, NEW o \in Seq(SectionFrame), NEW i \in 1 .. Len(o)
    PROVE  /\ Len(o) \in Nat /\ DOMAIN o = 1 .. Len(o)
           /\ o[i] \in SectionFrame
           /\ o[i].section \in Sections /\ o[i].taken \in {0, 1, 2} /\ o[i].leaving \in BOOLEAN
           /\ Plan(o[i].section) \in Seq(Step) /\ Len(Plan(o[i].section)) \in 0 .. 2
           /\ DOMAIN Plan(o[i].section) = 1 .. Len(Plan(o[i].section))
<1>1. Len(o) \in Nat /\ DOMAIN o = 1 .. Len(o) /\ o[i] \in SectionFrame
  BY LenProperties, ElementOfSeq
<1>2. QED  BY <1>1, PlanSteps DEF SectionFrame

LEMMA CoveredBy ==
    ASSUME NEW s, NEW o, NEW i, NEW j, NEW n, j \in 1 .. i - 1, n \in DOMAIN Plan(o[j].section),
           Plan(o[j].section)[n].lock = s.lock,
           s.mode = "x" => Plan(o[j].section)[n].mode = "x"
    PROVE  Covered(s, o, i)
BY DEF Covered

\* To begin a section takes nothing.
LEMMA BeginFacts ==
    ASSUME build \in Builds, NEW o \in Seq(SectionFrame), Nested(o), NEW s \in Sections,
           Plan(s) # <<>>,
           o # <<>> => ~ ToTake(o[Len(o)]) /\ ~ o[Len(o)].leaving,
           o # <<>> => \A n \in DOMAIN Plan(s) : Covered(Plan(s)[n], o, Len(o) + 1)
    PROVE  LET o2 == Append(o, [section |-> s, taken |-> 0, leaving |-> FALSE])
           IN  /\ o2 \in Seq(SectionFrame) /\ Nested(o2) /\ Len(o2) = Len(o) + 1
               /\ \A l, m : Held(o2, l, m) = Held(o, l, m)
<1> DEFINE f == [section |-> s, taken |-> 0, leaving |-> FALSE]
           o2 == Append(o, f)
<1>1. f \in SectionFrame /\ FrameOK(f)
  <2>1. Len(Plan(s)) \in 0 .. 2
    BY PlanSteps
  <2>2. QED  BY <2>1 DEF SectionFrame, FrameOK
<1>2. f.section = s /\ f.taken = 0 /\ f.leaving = FALSE
  OBVIOUS
<1> HIDE DEF f
<1>3. /\ o2 \in Seq(SectionFrame) /\ Len(o) \in Nat /\ Len(o2) = Len(o) + 1
      /\ \A i \in 1 .. Len(o) : o2[i] = o[i]
      /\ o2[Len(o) + 1] = f
      /\ DOMAIN o = 1 .. Len(o) /\ DOMAIN o2 = 1 .. Len(o) + 1
  <2>1. Len(o) \in Nat /\ DOMAIN o = 1 .. Len(o)
    BY LenProperties
  <2>2. QED  BY <1>1, <2>1, AppendProperties, LenProperties
<1> HIDE DEF o2
<1>4. \A l, m : Held(o2, l, m) = Held(o, l, m)
  <2>1. SUFFICES ASSUME NEW l, NEW m PROVE Held(o2, l, m) = Held(o, l, m)
    OBVIOUS
  <2>2. \A i \in 1 .. Len(o) + 1, k \in 1 .. 2 :
            <<i, k>> \in Held(o2, l, m) <=> <<i, k>> \in Held(o, l, m)
    BY <1>2, <1>3 DEF Held
  <2>3. Held(o2, l, m) \in SUBSET ((1 .. Len(o) + 1) \X (1 .. 2))
        /\ Held(o, l, m) \in SUBSET ((1 .. Len(o) + 1) \X (1 .. 2))
    BY <1>3 DEF Held
  <2> DEFINE I == 1 .. Len(o) + 1
             J == 1 .. 2
             A == Held(o2, l, m)
             B == Held(o, l, m)
  <2>4. A \in SUBSET (I \X J) /\ B \in SUBSET (I \X J)
        /\ \A i \in I, k \in J : <<i, k>> \in A <=> <<i, k>> \in B
    BY <2>2, <2>3
  <2> HIDE DEF I, J, A, B
  <2>5. A = B
    BY ONLY <2>4, SamePairs
  <2>6. QED  BY <2>5 DEF A, B
<1>5. Nested(o2)
  <2>1. SUFFICES ASSUME NEW i \in 1 .. Len(o2)
                 PROVE  /\ FrameOK(o2[i])
                        /\ i < Len(o2) => ~ o2[i].leaving /\ o2[i].taken = Len(Plan(o2[i].section))
                        /\ i > 1 => \A n \in DOMAIN Plan(o2[i].section) :
                                       Covered(Plan(o2[i].section)[n], o2, i)
    BY DEF Nested
  <2>2. \A t : \A j \in 1 .. Len(o) + 1 : Covered(t, o, j) => Covered(t, o2, j)
    <3>1. \A j \in 1 .. Len(o) + 1 : \A h \in 1 .. j - 1 : h \in 1 .. Len(o)
      BY <1>3
    <3>2. \A j \in 1 .. Len(o) + 1 : \A h \in 1 .. j - 1 : o2[h] = o[h]
      BY <1>3, <3>1
    <3>3. QED  BY <3>2 DEF Covered
  <2>3. CASE i <= Len(o)
    <3>1. i \in 1 .. Len(o) /\ o2[i] = o[i] /\ FrameOK(o[i])
      BY <1>3, <2>3 DEF Nested
    <3>2. ~ o[i].leaving /\ o[i].taken = Len(Plan(o[i].section))
      <4>1. CASE i < Len(o)
        BY <3>1, <4>1 DEF Nested
      <4>2. CASE i = Len(o)
        <5>1. o # <<>>
          BY <3>1, EmptySeq
        <5>2. o[i].taken \in {0, 1, 2} /\ Len(Plan(o[i].section)) \in 0 .. 2
          BY <3>1, FrameFacts
        <5>3. QED  BY <3>1, <4>2, <5>1, <5>2 DEF ToTake, FrameOK
      <4>3. i < Len(o) \/ i = Len(o)
        <5>1. i \in 1 .. Len(o) /\ Len(o) \in Nat
          BY <1>3, <3>1
        <5>2. QED  BY ONLY <5>1
      <4>4. QED  BY ONLY <4>1, <4>2, <4>3
    <3>3. i > 1 => \A n \in DOMAIN Plan(o[i].section) : Covered(Plan(o[i].section)[n], o2, i)
      BY <2>2, <3>1, <1>3 DEF Nested
    <3>4. QED  BY <3>1, <3>2, <3>3
  <2>4. CASE i = Len(o) + 1
    <3>1. i > 1 => o # <<>>
      BY <1>3, <2>4, EmptySeq
    <3>2. QED  BY <1>1, <1>2, <1>3, <2>2, <2>4, <3>1
  <2>5. QED  BY <1>3, <2>3, <2>4
<1>6. QED  BY <1>3, <1>4, <1>5 DEF o2, f

\* To take a lock adds one place.
LEMMA TakeFacts ==
    ASSUME build \in Builds, NEW o \in Seq(SectionFrame), Nested(o), o # <<>>, ToTake(o[Len(o)])
    PROVE  LET f == o[Len(o)]
               o2 == [o EXCEPT ![Len(o)].taken = @ + 1]
               s == Plan(f.section)[f.taken + 1]
           IN  /\ o2 \in Seq(SectionFrame) /\ Nested(o2) /\ Len(o2) = Len(o)
               /\ s \in Step
               /\ \A l, m : Cardinality(Held(o2, l, m)) =
                       Cardinality(Held(o, l, m)) + (IF s = [lock |-> l, mode |-> m] THEN 1 ELSE 0)
<1> DEFINE N == Len(o)
           f == o[N]
           g == [f EXCEPT !.taken = @ + 1]
           o2 == [o EXCEPT ![N] = g]
           k == f.taken
           s == Plan(f.section)[k + 1]
<1>1. Len(o) \in Nat \ {0}
  BY EmptySeq
<1>2. /\ N \in 1 .. Len(o) /\ DOMAIN o = 1 .. N
      /\ f \in SectionFrame /\ f.section \in Sections /\ k \in {0, 1, 2} /\ f.leaving \in BOOLEAN
      /\ Plan(f.section) \in Seq(Step) /\ Len(Plan(f.section)) \in 0 .. 2
  BY <1>1, FrameFacts
<1>3. ~ f.leaving /\ k < Len(Plan(f.section)) /\ FrameOK(f)
  BY <1>1 DEF ToTake, Nested
<1> DEFINE n == Len(Plan(f.section))
<1>4. k + 1 \in 1 .. 2 /\ k + 1 \in {0, 1, 2} /\ k + 1 \in 1 .. n
  <2>1. k \in {0, 1, 2} /\ n \in 0 .. 2 /\ k < n
    BY <1>2, <1>3
  <2> HIDE DEF k, n
  <2>2. QED  BY <2>1
<1>4a. s \in Step
  BY <1>2, <1>4, ElementOfSeq
<1>5. g \in SectionFrame /\ g.section = f.section /\ g.taken = k + 1 /\ g.leaving = f.leaving
  BY <1>2, <1>4 DEF SectionFrame
<1>6. FrameOK(g)
  BY <1>2, <1>3, <1>5 DEF FrameOK
<1>7. o2 = [o EXCEPT ![Len(o)].taken = @ + 1]
  BY <1>2
<1>8. /\ o2 \in Seq(SectionFrame) /\ Len(o2) = N /\ DOMAIN o2 = 1 .. N
      /\ o2[N] = g /\ \A i \in 1 .. N : i # N => o2[i] = o[i]
  <2> HIDE DEF g
  <2>1. o2 \in Seq(SectionFrame) /\ Len(o2) = N /\ \A j \in 1 .. N : o2[j] = IF j = N THEN g ELSE o[j]
    BY <1>2, <1>5, ExceptSeq
  <2>2. QED  BY <1>2, <2>1, LenProperties
<1> HIDE DEF g, o2
<1>9. \A i \in 1 .. N : o2[i].section = o[i].section
  BY <1>5, <1>8
<1>10. Nested(o2)
  <2>1. \A t : \A j \in 1 .. N : Covered(t, o, j) => Covered(t, o2, j)
    <3>1. SUFFICES ASSUME NEW j \in 1 .. N, NEW t, NEW i \in 1 .. j - 1
                   PROVE  i \in 1 .. N
      BY <1>9 DEF Covered
    <3>2. QED  BY <1>1
  <2>2. SUFFICES ASSUME NEW i \in 1 .. N
                 PROVE  /\ FrameOK(o2[i])
                        /\ i < N => ~ o2[i].leaving /\ o2[i].taken = Len(Plan(o2[i].section))
                        /\ i > 1 => \A h \in DOMAIN Plan(o2[i].section) :
                                       Covered(Plan(o2[i].section)[h], o2, i)
    BY <1>8 DEF Nested
  <2>3. i > 1 => \A h \in DOMAIN Plan(o2[i].section) : Covered(Plan(o2[i].section)[h], o2, i)
    <3>1. o2[i].section = o[i].section
      BY <1>9
    <3>2. i > 1 => \A h \in DOMAIN Plan(o[i].section) : Covered(Plan(o[i].section)[h], o, i)
      BY DEF Nested
    <3>3. QED  BY <2>1, <3>1, <3>2
  <2>4. i # N => o2[i] = o[i] /\ FrameOK(o[i])
                 /\ ~ o[i].leaving /\ o[i].taken = Len(Plan(o[i].section))
    <3>1. SUFFICES ASSUME i # N
                   PROVE  i \in 1 .. Len(o) /\ i < Len(o)
      BY <1>8 DEF Nested
    <3>2. i \in 1 .. Len(o) /\ i # Len(o) /\ Len(o) \in Nat
      BY <1>1, <3>1
    <3>3. QED  BY ONLY <3>2
  <2>5. CASE i = N
    <3>1. ~ (i < N)
      <4>1. i = Len(o) /\ Len(o) \in Nat
        BY <1>1, <2>5
      <4>2. QED  BY ONLY <4>1
    <3>2. QED  BY <1>6, <1>8, <2>3, <2>5, <3>1
  <2>6. CASE i # N
    BY <1>8, <2>3, <2>4, <2>6
  <2>7. QED  BY <2>5, <2>6
<1>11. ASSUME NEW l, NEW m
       PROVE  Cardinality(Held(o2, l, m)) =
                  Cardinality(Held(o, l, m)) + (IF s = [lock |-> l, mode |-> m] THEN 1 ELSE 0)
  <2>1. <<N, k + 1>> \notin Held(o, l, m)
    BY <1>2 DEF Held
  <2>2. \A i \in 1 .. N, j \in 1 .. 2 :
            <<i, j>> \in Held(o2, l, m) <=>
                \/ <<i, j>> \in Held(o, l, m)
                \/ i = N /\ j = k + 1 /\ s = [lock |-> l, mode |-> m]
    <3>1. SUFFICES ASSUME NEW i \in 1 .. N, NEW j \in 1 .. 2
                   PROVE  <<i, j>> \in Held(o2, l, m) <=>
                              \/ <<i, j>> \in Held(o, l, m)
                              \/ i = N /\ j = k + 1 /\ s = [lock |-> l, mode |-> m]
      OBVIOUS
    <3>2. /\ <<i, j>> \in Held(o2, l, m) <=>
                j <= o2[i].taken /\ Plan(o2[i].section)[j] = [lock |-> l, mode |-> m]
          /\ <<i, j>> \in Held(o, l, m) <=>
                j <= o[i].taken /\ Plan(o[i].section)[j] = [lock |-> l, mode |-> m]
      BY <1>2, <1>8 DEF Held
    <3>3. CASE i # N
      BY <1>8, <3>2, <3>3
    <3>4. CASE i = N
      <4>1. o2[i].taken = k + 1 /\ o2[i].section = f.section /\ o[i] = f
        BY <1>5, <1>8, <3>4
      <4>2. j <= k + 1 <=> j <= k \/ j = k + 1
        <5> HIDE DEF k
        <5>1. QED  BY <1>2
      <4>3. CASE j = k + 1
        BY <1>2, <3>2, <3>4, <4>1, <4>2, <4>3
      <4>4. CASE j # k + 1
        BY <1>2, <3>2, <3>4, <4>1, <4>2, <4>4
      <4>5. QED  BY <4>3, <4>4
    <3>5. QED  BY <3>3, <3>4
  <2>3. k + 1 \in 1 .. 2
    BY <1>4
  <2>4. Held(o2, l, m) = IF s = [lock |-> l, mode |-> m] THEN Held(o, l, m) \cup {<<N, k + 1>>}
                         ELSE Held(o, l, m)
    <3> DEFINE I == 1 .. N
               J == 1 .. 2
               k1 == k + 1
               at == (s = [lock |-> l, mode |-> m])
    <3>1. /\ Held(o2, l, m) \in SUBSET (I \X J) /\ Held(o, l, m) \in SUBSET (I \X J)
          /\ N \in I /\ k1 \in J
          /\ \A i \in I, j \in J :
                <<i, j>> \in Held(o2, l, m) <=> <<i, j>> \in Held(o, l, m) \/ (i = N /\ j = k1 /\ at)
      <4>1. Held(o2, l, m) \in SUBSET (I \X J) /\ Held(o, l, m) \in SUBSET (I \X J)
        BY <1>2, <1>8 DEF Held
      <4>2. QED  BY <1>2, <2>2, <2>3, <4>1
    <3> HIDE DEF I, J, k1, N, at
    <3>2. CASE at
      <4>1. Held(o, l, m) \cup {<<N, k1>>} \in SUBSET (I \X J)
        BY <3>1
      <4>2. \A i \in I, j \in J :
                <<i, j>> \in Held(o2, l, m) <=> <<i, j>> \in Held(o, l, m) \cup {<<N, k1>>}
        BY <3>1, <3>2
      <4>3. Held(o2, l, m) = Held(o, l, m) \cup {<<N, k1>>}
        BY ONLY <3>1, <4>1, <4>2, SamePairs
      <4>4. QED  BY <3>2, <4>3 DEF k1, at
    <3>3. CASE ~ at
      <4>1. Held(o2, l, m) = Held(o, l, m)
        <5>1. \A i \in I, j \in J : <<i, j>> \in Held(o2, l, m) <=> <<i, j>> \in Held(o, l, m)
          BY <3>1, <3>3
        <5> DEFINE A == Held(o2, l, m)
                   B == Held(o, l, m)
        <5>2. A \in SUBSET (I \X J) /\ B \in SUBSET (I \X J)
              /\ \A i \in I, j \in J : <<i, j>> \in A <=> <<i, j>> \in B
          BY <3>1, <5>1
        <5> HIDE DEF A, B
        <5>3. A = B
          BY ONLY <5>2, SamePairs
        <5>4. QED  BY <5>3 DEF A, B
      <4>2. QED  BY <3>3, <4>1 DEF at
    <3>4. QED  BY <3>2, <3>3
  <2>5. IsFiniteSet(Held(o, l, m)) /\ Cardinality(Held(o, l, m)) \in Nat
    BY HeldFinite
  <2>6. Cardinality(Held(o, l, m) \cup {<<N, k + 1>>}) = Cardinality(Held(o, l, m)) + 1
    BY <2>1, <2>5, FS_AddElement
  <2>7. QED  BY <2>4, <2>5, <2>6
<1>12. QED  BY <1>4a, <1>7, <1>8, <1>10, <1>11

\* To give a lock up removes one place.
LEMMA GiveUpFacts ==
    ASSUME build \in Builds, NEW o \in Seq(SectionFrame), Nested(o), o # <<>>, ~ ToTake(o[Len(o)])
    PROVE  LET f == o[Len(o)]
               s == Plan(f.section)[f.taken]
           IN  /\ Fewer(o) \in Seq(SectionFrame) /\ Nested(Fewer(o))
               /\ f.taken \in 1 .. Len(Plan(f.section)) /\ s \in Step
               /\ \A l, m : Cardinality(Held(Fewer(o), l, m)) =
                       Cardinality(Held(o, l, m)) - (IF s = [lock |-> l, mode |-> m] THEN 1 ELSE 0)
               /\ \A l, m : s = [lock |-> l, mode |-> m] => <<Len(o), f.taken>> \in Held(o, l, m)
<1> DEFINE N == Len(o)
           f == o[N]
           o2 == Fewer(o)
           k == f.taken
           n == Len(Plan(f.section))
           s == Plan(f.section)[k]
<1>1. Len(o) \in Nat \ {0}
  BY EmptySeq
<1>2. /\ N \in 1 .. Len(o) /\ DOMAIN o = 1 .. N
      /\ f \in SectionFrame /\ f.section \in Sections /\ k \in {0, 1, 2} /\ f.leaving \in BOOLEAN
      /\ Plan(f.section) \in Seq(Step) /\ n \in 0 .. 2 /\ n # 0
  <2>1. Plan(f.section) # <<>>
    BY <1>1 DEF Nested, FrameOK
  <2>2. f.section \in Sections
    BY <1>1, FrameFacts
  <2>3. n # 0
    BY <2>1, <2>2, PlanSteps
  <2>4. QED  BY <1>1, <2>3, FrameFacts
<1>3. k \in 1 .. n /\ (k # 1 => k = 2 /\ n = 2)
  <2>1. FrameOK(f) /\ (f.leaving \/ ~ (k < n))
    BY <1>1 DEF ToTake, Nested
  <2>2. (k = 1 /\ n = 2) \/ (~ (k < n) /\ k <= n)
    BY <2>1 DEF FrameOK
  <2>3. k \in {0, 1, 2} /\ n \in 0 .. 2 /\ n # 0
    BY <1>2
  <2> HIDE DEF k, n
  <2>4. QED  BY ONLY <2>2, <2>3
<1>4. s \in Step
  BY <1>2, <1>3, ElementOfSeq
<1>5. /\ o2 \in Seq(SectionFrame) /\ Nested(o2)
      /\ \A i \in 1 .. N - 1 : i \in DOMAIN o2 /\ o2[i] = o[i]
      /\ DOMAIN o2 \subseteq 1 .. N
      /\ k = 1 => DOMAIN o2 = 1 .. N - 1
      /\ k # 1 => N \in DOMAIN o2 /\ o2[N].section = f.section /\ o2[N].taken = 1
  <2>1. CASE k = 1
    <3>1. o2 = SubSeq(o, 1, N - 1)
      BY <2>1 DEF Fewer
    <3>2. \A i \in 1 .. N - 1 : i \in 1 .. N
      BY <1>1
    <3>3. \A i \in 1 .. N - 1 : o[i] \in SectionFrame
      BY <3>2, ElementOfSeq
    <3>4. o2 \in Seq(SectionFrame) /\ Len(o2) = N - 1 /\ \A i \in 1 .. N - 1 : o2[i] = o[i]
      <4>1. /\ SubSeq(o, 1, N - 1) \in Seq(SectionFrame)
            /\ Len(SubSeq(o, 1, N - 1)) = IF 1 <= N - 1 THEN N - 1 - 1 + 1 ELSE 0
            /\ \A i \in 1 .. N - 1 - 1 + 1 : SubSeq(o, 1, N - 1)[i] = o[1 + i - 1]
        BY <1>1, <3>3, SubSeqProperties
      <4>2. Len(o2) = N - 1
        <5>1. \A x \in Nat \ {0} : (IF 1 <= x - 1 THEN x - 1 - 1 + 1 ELSE 0) = x - 1
          OBVIOUS
        <5>2. QED  BY <1>1, <3>1, <4>1, <5>1
      <4>3. \A i \in 1 .. N - 1 : i \in 1 .. N - 1 - 1 + 1 /\ 1 + i - 1 = i
        BY <1>1
      <4>4. QED  BY <3>1, <4>1, <4>2, <4>3
    <3>5. DOMAIN o2 = 1 .. N - 1
      BY <3>4, LenProperties
    <3>6. Nested(o2)
      <4>1. SUFFICES ASSUME NEW i \in 1 .. N - 1
                     PROVE  /\ FrameOK(o2[i])
                            /\ i < N - 1 => ~ o2[i].leaving /\ o2[i].taken = Len(Plan(o2[i].section))
                            /\ i > 1 => \A h \in DOMAIN Plan(o2[i].section) :
                                           Covered(Plan(o2[i].section)[h], o2, i)
        BY <3>4 DEF Nested
      <4>2. i \in 1 .. N /\ i < N /\ o2[i] = o[i]
        BY <1>1, <3>4
      <4>3. \A t : Covered(t, o, i) => Covered(t, o2, i)
        <5>1. \A j \in 1 .. i - 1 : j \in 1 .. N - 1
          BY <1>1
        <5>2. \A j \in 1 .. i - 1 : o2[j] = o[j]
          BY <3>4, <5>1
        <5>3. QED  BY <5>2 DEF Covered
      <4>4. QED  BY <4>2, <4>3 DEF Nested
    <3>7. \A i \in 1 .. N - 1 : i \in 1 .. N
      BY <1>1
    <3>8. QED  BY <2>1, <3>4, <3>5, <3>6, <3>7
  <2>2. CASE k # 1
    <3> DEFINE g == [f EXCEPT !.taken = @ - 1, !.leaving = TRUE]
    <3>1. o2 = [o EXCEPT ![N] = g]
      BY <1>2, <2>2 DEF Fewer
    <3>2. g \in SectionFrame /\ g.section = f.section /\ g.taken = 1 /\ g.leaving = TRUE
      <4>1. k = 2
        BY <1>3, <2>2
      <4> DEFINE yes == TRUE
      <4>2. yes \in BOOLEAN /\ f.taken - 1 = 1
        BY <4>1
      <4>3. g = [f EXCEPT !.taken = 1, !.leaving = yes]
        BY <4>2
      <4> HIDE DEF yes, g
      <4>4. g \in SectionFrame /\ g.section = f.section /\ g.taken = 1 /\ g.leaving = yes
        BY <1>2, <4>2, <4>3 DEF SectionFrame
      <4>5. QED  BY <4>4 DEF yes
    <3>3. FrameOK(g)
      <4>1. n = 2 /\ Plan(f.section) # <<>>
        BY <1>1, <1>3, <2>2 DEF Nested, FrameOK
      <4>2. QED  BY <3>2, <4>1 DEF FrameOK
    <3> HIDE DEF g
    <3>4. /\ o2 \in Seq(SectionFrame) /\ Len(o2) = N /\ DOMAIN o2 = 1 .. N
          /\ o2[N] = g /\ \A i \in 1 .. N : i # N => o2[i] = o[i]
      <4>1. o2 \in Seq(SectionFrame) /\ Len(o2) = N /\ \A j \in 1 .. N : o2[j] = IF j = N THEN g ELSE o[j]
        BY <1>2, <3>1, <3>2, ExceptSeq
      <4>2. QED  BY <1>2, <4>1, LenProperties
    <3>5. \A i \in 1 .. N : o2[i].section = o[i].section
      BY <3>2, <3>4
    <3>6. \A i \in 1 .. N - 1 : i \in 1 .. N /\ i # N
      BY <1>1
    <3>7. Nested(o2)
      <4>1. \A t : \A j \in 1 .. N : Covered(t, o, j) => Covered(t, o2, j)
        <5>1. SUFFICES ASSUME NEW j \in 1 .. N, NEW t, NEW i \in 1 .. j - 1
                       PROVE  i \in 1 .. N
          BY <3>5 DEF Covered
        <5>2. QED  BY <1>1
      <4>2. SUFFICES ASSUME NEW i \in 1 .. N
                     PROVE  /\ FrameOK(o2[i])
                            /\ i < N => ~ o2[i].leaving /\ o2[i].taken = Len(Plan(o2[i].section))
                            /\ i > 1 => \A h \in DOMAIN Plan(o2[i].section) :
                                           Covered(Plan(o2[i].section)[h], o2, i)
        BY <3>4 DEF Nested
      <4>3. i > 1 => \A h \in DOMAIN Plan(o2[i].section) : Covered(Plan(o2[i].section)[h], o2, i)
        <5>1. o2[i].section = o[i].section
          BY <3>5
        <5>2. i > 1 => \A h \in DOMAIN Plan(o[i].section) : Covered(Plan(o[i].section)[h], o, i)
          BY DEF Nested
        <5>3. QED  BY <4>1, <5>1, <5>2
      <4>4. CASE i = N
        <5>1. ~ (i < N)
          BY <1>1, <4>4
        <5>2. QED  BY <3>3, <3>4, <4>3, <4>4, <5>1
      <4>5. CASE i # N
        <5>1. i < N
          BY <1>1, <4>5
        <5>2. FrameOK(o[i]) /\ ~ o[i].leaving /\ o[i].taken = Len(Plan(o[i].section))
          BY <5>1 DEF Nested
        <5>3. QED  BY <3>4, <4>3, <4>5, <5>2
      <4>6. QED  BY <4>4, <4>5
    <3>8. QED  BY <1>2, <2>2, <3>2, <3>4, <3>6, <3>7
  <2>3. QED  BY <2>1, <2>2
<1> HIDE DEF o2
<1>6. ASSUME NEW l, NEW m
      PROVE  /\ s = [lock |-> l, mode |-> m] => <<N, k>> \in Held(o, l, m)
             /\ Cardinality(Held(o2, l, m)) =
                    Cardinality(Held(o, l, m)) - (IF s = [lock |-> l, mode |-> m] THEN 1 ELSE 0)
  <2>1. k \in 1 .. 2
    <3>1. k \in 1 .. n /\ n \in 0 .. 2
      BY <1>2, <1>3
    <3> HIDE DEF k, n
    <3>2. QED  BY <3>1
  <2>2. s = [lock |-> l, mode |-> m] <=> <<N, k>> \in Held(o, l, m)
    <3>1. k <= f.taken
      BY <2>1
    <3>2. QED  BY <1>2, <2>1, <3>1 DEF Held
  <2>3. ASSUME NEW i \in 1 .. N, NEW j \in 1 .. 2
        PROVE  <<i, j>> \in Held(o2, l, m) <=> <<i, j>> \in Held(o, l, m) /\ ~ (i = N /\ j = k)
    <3>1. /\ <<i, j>> \in Held(o2, l, m) <=>
                /\ i \in DOMAIN o2
                /\ j <= o2[i].taken /\ Plan(o2[i].section)[j] = [lock |-> l, mode |-> m]
          /\ <<i, j>> \in Held(o, l, m) <=>
                j <= o[i].taken /\ Plan(o[i].section)[j] = [lock |-> l, mode |-> m]
      BY <1>2 DEF Held
    <3>2. CASE i # N
      <4>1. i \in 1 .. N - 1
        BY <1>1, <3>2
      <4>2. QED  BY <1>5, <3>1, <3>2, <4>1
    <3>3. CASE i = N /\ k = 1
      <4>1. i \notin DOMAIN o2
        <5>1. i \notin 1 .. N - 1
          BY <1>1, <3>3
        <5>2. QED  BY <1>5, <3>3, <5>1
      <4>2. j <= k <=> j = k
        BY <3>3
      <4>3. QED  BY <3>1, <3>3, <4>1, <4>2
    <3>4. CASE i = N /\ k # 1
      <4>1. k = 2
        BY <1>3, <3>4
      <4>2. /\ <<i, j>> \in Held(o2, l, m) <=>
                  j <= 1 /\ Plan(f.section)[j] = [lock |-> l, mode |-> m]
            /\ <<i, j>> \in Held(o, l, m) <=>
                  j <= 2 /\ Plan(f.section)[j] = [lock |-> l, mode |-> m]
        BY <1>5, <3>1, <3>4, <4>1
      <4>3. j <= 2 /\ (j <= 1 <=> j # 2)
        OBVIOUS
      <4>4. QED  BY <3>4, <4>1, <4>2, <4>3
    <3>5. QED  BY <3>2, <3>3, <3>4
  <2>4. Held(o2, l, m) = Held(o, l, m) \ {<<N, k>>}
    <3> DEFINE I == 1 .. N
               J == 1 .. 2
               A == Held(o2, l, m)
               B == Held(o, l, m)
               C == B \ {<<N, k>>}
    <3>1. A \in SUBSET (I \X J) /\ B \in SUBSET (I \X J)
      BY <1>2, <1>5 DEF Held
    <3>2. \A i \in I, j \in J : <<i, j>> \in A <=> <<i, j>> \in B /\ ~ (i = N /\ j = k)
      BY <2>3
    <3> HIDE DEF I, J, A, B, N, k
    <3>3. C \in SUBSET (I \X J) /\ \A i \in I, j \in J : <<i, j>> \in A <=> <<i, j>> \in C
      BY <3>1, <3>2
    <3> HIDE DEF C
    <3>4. A = C
      BY ONLY <3>1, <3>3, SamePairs
    <3>5. QED  BY <3>4 DEF A, B, C, N, k
  <2>5. IsFiniteSet(Held(o, l, m)) /\ Cardinality(Held(o, l, m)) \in Nat
    BY HeldFinite
  <2>6. Cardinality(Held(o, l, m) \ {<<N, k>>}) =
            IF <<N, k>> \in Held(o, l, m) THEN Cardinality(Held(o, l, m)) - 1
            ELSE Cardinality(Held(o, l, m))
    BY <2>5, FS_RemoveElement
  <2>7. QED  BY <2>2, <2>4, <2>5, <2>6
<1>7. QED  BY <1>3, <1>4, <1>5, <1>6 DEF o2

\* What a thread reads besides writing it, it gives up before it stops writing.
LEMMA LastExclusive ==
    ASSUME build \in Builds, NEW o \in Seq(SectionFrame), Nested(o), o # <<>>, ~ ToTake(o[Len(o)]),
           NEW l, Plan(o[Len(o)].section)[o[Len(o)].taken] = [lock |-> l, mode |-> "x"],
           Cardinality(Held(o, l, "x")) = 1
    PROVE  Held(o, l, "r") = {}
<1> DEFINE N == Len(o)
           f == o[N]
           k == f.taken
           n == Len(Plan(f.section))
<1>1. N \in Nat \ {0} /\ DOMAIN o = 1 .. N /\ N \in 1 .. N
  BY EmptySeq, LenProperties
<1>2. k \in 1 .. n /\ <<N, k>> \in Held(o, l, "x")
  BY GiveUpFacts
<1>3. \A p \in Held(o, l, "x") : p = <<N, k>>
  BY <1>2, HeldFinite, FS_Singleton
<1>4. N = 1
  <2>1. SUFFICES ASSUME N > 1 PROVE FALSE
    BY <1>1
  <2>2. k \in DOMAIN Plan(f.section)
    BY <1>1, <1>2, FrameFacts
  <2>3. Covered([lock |-> l, mode |-> "x"], o, N)
    BY <1>1, <2>1, <2>2 DEF Nested
  <2>4. PICK j \in 1 .. N - 1 : \E h \in DOMAIN Plan(o[j].section) :
            Plan(o[j].section)[h].lock = l /\ Plan(o[j].section)[h].mode = "x"
    BY <2>3 DEF Covered
  <2>5. PICK h \in DOMAIN Plan(o[j].section) :
            Plan(o[j].section)[h].lock = l /\ Plan(o[j].section)[h].mode = "x"
    BY <2>4
  <2>6. j \in 1 .. N /\ j < N /\ o[j].section \in Sections
    BY <1>1, FrameFacts
  <2>7. h \in 1 .. o[j].taken /\ h \in 1 .. 2
    <3>1. o[j].taken = Len(Plan(o[j].section))
      BY <2>6 DEF Nested
    <3>2. h \in 1 .. Len(Plan(o[j].section)) /\ Len(Plan(o[j].section)) \in 0 .. 2
      BY <2>6, PlanSteps
    <3>3. QED  BY <3>1, <3>2
  <2>8. Plan(o[j].section)[h] = [lock |-> l, mode |-> "x"]
    BY <2>5, <2>6, PlanSteps
  <2>9. <<j, h>> \in Held(o, l, "x")
    BY <1>1, <2>6, <2>7, <2>8 DEF Held
  <2>10. j = N
    BY <1>3, <2>9
  <2>11. QED  BY <2>6, <2>10
<1>5. SUFFICES ASSUME NEW p \in Held(o, l, "r") PROVE FALSE
  OBVIOUS
<1>6. /\ p[1] = 1 /\ p[2] \in 1 .. 2 /\ p[2] <= k
      /\ Plan(f.section)[p[2]] = [lock |-> l, mode |-> "r"]
  <2>1. p[1] \in 1 .. N /\ p[2] \in 1 .. 2 /\ p[2] <= o[p[1]].taken
        /\ Plan(o[p[1]].section)[p[2]] = [lock |-> l, mode |-> "r"]
    BY <1>1 DEF Held
  <2>2. p[1] = 1
    BY <1>4, <2>1
  <2>3. QED  BY <1>4, <2>1, <2>2
<1>7. f.section \in Sections /\ n \in 0 .. 2
  BY <1>1, FrameFacts
<1>8. n = 2 /\ p[2] = 1 /\ k = 2
  <2>1. p[2] # k
    BY <1>6
  <2>2. k \in 1 .. n /\ n \in 0 .. 2 /\ p[2] \in 1 .. 2 /\ p[2] <= k
    BY <1>2, <1>6, <1>7
  <2> DEFINE q == p[2]
  <2> HIDE DEF k, n, q
  <2>3. q # k /\ k \in 1 .. n /\ n \in 0 .. 2 /\ q \in 1 .. 2 /\ q <= k
    BY <2>1, <2>2 DEF q
  <2>4. n = 2 /\ q = 1 /\ k = 2
    BY ONLY <2>3
  <2>5. QED  BY <2>4 DEF q
<1>9. Plan(f.section)[1].lock = Outer /\ Plan(f.section)[2].lock = Inner /\ Outer # Inner
  BY <1>7, <1>8, PlanSteps, PlanFacts
<1>10. Plan(f.section)[1].lock = l /\ Plan(f.section)[2].lock = l
  BY <1>6, <1>8
<1>11. QED  BY <1>9, <1>10

-----------------------------------------------------------------------------
\* The parts of CountersAgree.

LevelsOK ==
    \A t \in Thread, l \in Lock :
        xcounter[t][l] = Cardinality(Held(frames[t], l, "x"))
        /\ rcounter[t][l] = Cardinality(Held(frames[t], l, "r"))
HolderOK == \A t \in Thread, l \in Lock : holder[l] = t <=> xcounter[t][l] > 0
CountOK == \A l \in Lock : readers[l] = Cardinality(Readers(l))

LEMMA Parts == CountersAgree <=> LevelsOK /\ HolderOK /\ CountOK
<1>1. \A t \in Thread, l \in Lock :
          Level(t, l, "x") = Cardinality(Held(frames[t], l, "x"))
          /\ Level(t, l, "r") = Cardinality(Held(frames[t], l, "r"))
  BY DEF Level, Held
<1>2. \A l \in Lock :
          Cardinality({t \in Thread : rcounter[t][l] > 0 /\ xcounter[t][l] = 0}) = Cardinality(Readers(l))
  BY DEF Readers
<1> DEFINE A(l) == \A t \in Thread : xcounter[t][l] = Level(t, l, "x") /\ rcounter[t][l] = Level(t, l, "r")
           B(l) == \A t \in Thread : (holder[l] = t) = (xcounter[t][l] > 0)
           C(l) == readers[l] = Cardinality({t \in Thread : rcounter[t][l] > 0 /\ xcounter[t][l] = 0})
<1>3. CountersAgree <=> \A l \in Lock : A(l) /\ B(l) /\ C(l)
  BY DEF CountersAgree
<1>4. \A l \in Lock : C(l) <=> readers[l] = Cardinality(Readers(l))
  BY <1>2
<1>5. LevelsOK <=> \A l \in Lock : A(l)
  BY <1>1 DEF LevelsOK
<1>6. HolderOK <=> \A l \in Lock : B(l)
  BY DEF HolderOK
<1> HIDE DEF A, B, C
<1>7. QED  BY <1>3, <1>4, <1>5, <1>6 DEF CountOK

\* Who writes is alone.
LEMMA Alone ==
    ASSUME TypeOK, HolderOK, CountOK, ReadersOK, NEW l \in Lock
    PROVE  /\ \A t \in Readers(l) : readers[l] > 0
           /\ readers[l] = 0 => Readers(l) = {}
           /\ holder[l] # Nobody => Readers(l) = {} /\ readers[l] = 0
           /\ \A t \in Thread : xcounter[t][l] > 0 =>
                 \A u \in Thread : u # t => xcounter[u][l] = 0 /\ rcounter[u][l] = 0
<1>1. IsFiniteSet(Readers(l)) /\ readers[l] = Cardinality(Readers(l)) /\ readers[l] \in Nat
  BY DEF CountOK, ReadersOK, TypeOK
<1>2. readers[l] = 0 => Readers(l) = {}
  BY <1>1, FS_EmptySet
<1>3. holder[l] # Nobody => Readers(l) = {} /\ readers[l] = 0
  BY <1>2 DEF ReadersOK
<1>4. ASSUME NEW t \in Thread, xcounter[t][l] > 0, NEW u \in Thread, u # t
      PROVE  xcounter[u][l] = 0 /\ rcounter[u][l] = 0
  <2>1. holder[l] = t /\ t # Nobody /\ holder[l] # u
    BY <1>4, ResourceAssumption DEF HolderOK
  <2>2. xcounter[u][l] \in Nat /\ rcounter[u][l] \in Nat
    BY DEF TypeOK
  <2>3. xcounter[u][l] = 0
    BY <2>1, <2>2 DEF HolderOK
  <2>4. u \notin Readers(l)
    BY <1>3, <2>1
  <2>5. QED  BY <2>2, <2>3, <2>4 DEF Readers
<1>5. QED  BY <1>1, <1>2, <1>3, <1>4

-----------------------------------------------------------------------------
\* What the change of one thread's frames leaves alone.

LEMMA FrameStep ==
    ASSUME TypeOK, FramesOK, build' = build, NEW t \in Thread,
           NEW o \in Seq(SectionFrame), Nested(o), frames' = [frames EXCEPT ![t] = o]
    PROVE  /\ frames' \in [Thread -> Seq(SectionFrame)] /\ build' \in Builds
           /\ FramesOK'
           /\ \A u \in Thread : u # t => frames'[u] = frames[u]
           /\ frames'[t] = o
           /\ \A u \in Thread : u # t => (Entering(u)' <=> Entering(u)) /\ Next1(u)' = Next1(u)
           /\ (\A u \in Thread, l \in Lock :
                  xcounter'[u][l] = Cardinality(Held(frames'[u], l, "x"))
                  /\ rcounter'[u][l] = Cardinality(Held(frames'[u], l, "r"))) => LevelsOK'
<1>1. frames' \in [Thread -> Seq(SectionFrame)] /\ build' \in Builds
  BY DEF TypeOK
<1>2. (\A u \in Thread : u # t => frames'[u] = frames[u]) /\ frames'[t] = o
  BY DEF TypeOK
<1>3. \A u \in Thread : Nested(frames'[u])
  BY <1>2 DEF FramesOK
<1>5. FramesOK'
  <2>1. \A u \in Thread : Nested(frames'[u]) => Nested(frames[u])'
    <3>1. build' = build
      OBVIOUS
    <3>2. ASSUME NEW u \in Thread, NEW i
          PROVE  /\ FrameOK(frames'[u][i]) => FrameOK(frames[u][i])'
                 /\ frames'[u][i].taken = Len(Plan(frames'[u][i].section))
                       => (frames[u][i].taken = Len(Plan(frames[u][i].section)))'
                 /\ DOMAIN Plan(frames'[u][i].section) = (DOMAIN Plan(frames[u][i].section))'
      BY ONLY <3>1 DEF FrameOK, Plan
    <3>3. ASSUME NEW u \in Thread, NEW i, NEW n,
                 Covered(Plan(frames'[u][i].section)[n], frames'[u], i)
          PROVE  Covered(Plan(frames[u][i].section)[n], frames[u], i)'
      BY ONLY <3>1, <3>3 DEF Covered, Plan
    <3>4. QED  BY ONLY <3>2, <3>3 DEF Nested
  <2>2. QED  BY <1>3, <2>1 DEF FramesOK
<1>6. \A u \in Thread : u # t => (Entering(u)' <=> Entering(u)) /\ Next1(u)' = Next1(u)
  BY <1>2 DEF Entering, Next1, Innermost, Plan
<1>7. \A u \in Thread, l \in Lock :
          Held(frames[u], l, "x")' = Held(frames'[u], l, "x")
          /\ Held(frames[u], l, "r")' = Held(frames'[u], l, "r")
  BY DEF Held, Plan
<1>8. QED  BY <1>1, <1>2, <1>5, <1>6, <1>7 DEF LevelsOK

\* Entering and leaving in terms of the frames.
LEMMA EnteringFacts ==
    ASSUME NEW t \in Thread
    PROVE  /\ Entering(t) <=> frames[t] # <<>> /\ ToTake(frames[t][Len(frames[t])])
           /\ Innermost(t) = frames[t][Len(frames[t])]
BY DEF Entering, ToTake, Innermost

-----------------------------------------------------------------------------
\* Every action keeps the invariant.

Inv2 == TypeOK /\ FramesOK /\ LevelsOK /\ HolderOK /\ CountOK /\ ReadersOK /\ SleepersOK /\ WritersWoken

LEMMA InvForms == IndInv <=> Inv2
BY Parts DEF IndInv, Inv2

LEMMA EnterKeeps ==
    ASSUME Inv2, NEW t \in Thread, NEW s \in Sections, Enter(t, s)
    PROVE  Inv2'
<1> DEFINE o == frames[t]
           f == [section |-> s, taken |-> 0, leaving |-> FALSE]
           o2 == Append(o, f)
<1>1. o \in Seq(SectionFrame) /\ Nested(o) /\ build \in Builds
  BY DEF Inv2, TypeOK, FramesOK
<1>2. (o # <<>> => ~ ToTake(o[Len(o)]) /\ ~ o[Len(o)].leaving) /\ Plan(s) # <<>> /\ ~ Entering(t)
  BY EnteringFacts DEF Enter
<1>3. o # <<>> => \A n \in DOMAIN Plan(s) : Covered(Plan(s)[n], o, Len(o) + 1)
  <2>1. SUFFICES ASSUME o # <<>>, NEW n \in DOMAIN Plan(s)
                 PROVE  Covered(Plan(s)[n], o, Len(o) + 1)
    OBVIOUS
  <2> DEFINE l == Plan(s)[n].lock
  <2>2. l \in Lock /\ Len(o) \in Nat
    BY <1>1, PlanSteps, LenProperties
  <2>3. /\ xcounter[t][l] + rcounter[t][l] > 0
        /\ Plan(s)[n].mode = "x" => xcounter[t][l] # 0 \/ rcounter[t][l] = 0
    BY <2>1 DEF Enter, Allowed
  <2>4. xcounter[t][l] \in Nat /\ rcounter[t][l] \in Nat
    BY <2>2 DEF Inv2, TypeOK
  <2>5. (xcounter[t][l] > 0 \/ rcounter[t][l] > 0) /\ (Plan(s)[n].mode = "x" => xcounter[t][l] > 0)
    BY <2>3, <2>4
  <2>6. /\ xcounter[t][l] > 0 => Held(o, l, "x") # {}
        /\ rcounter[t][l] > 0 => Held(o, l, "r") # {}
    BY <1>1, <2>2, HeldFinite DEF Inv2, LevelsOK
  <2>7. \E p : p \in Held(o, l, "x") \/ (Plan(s)[n].mode # "x" /\ p \in Held(o, l, "r"))
    BY <2>5, <2>6
  <2>8. PICK p : p \in Held(o, l, "x") \/ (Plan(s)[n].mode # "x" /\ p \in Held(o, l, "r"))
    BY <2>7
  <2>9. PICK m \in {"x", "r"} : p \in Held(o, l, m) /\ (Plan(s)[n].mode = "x" => m = "x")
    BY <2>8
  <2>10. /\ p[1] \in 1 .. Len(o) /\ p[2] \in 1 .. 2 /\ p[2] <= o[p[1]].taken
         /\ Plan(o[p[1]].section)[p[2]] = [lock |-> l, mode |-> m]
    BY <1>1, <2>9, LenProperties DEF Held
  <2>11. p[2] \in DOMAIN Plan(o[p[1]].section)
    <3>1. o[p[1]].taken <= Len(Plan(o[p[1]].section))
      BY <1>1, <2>10 DEF Nested, FrameOK
    <3>2. /\ o[p[1]].taken \in {0, 1, 2} /\ Len(Plan(o[p[1]].section)) \in 0 .. 2
          /\ DOMAIN Plan(o[p[1]].section) = 1 .. Len(Plan(o[p[1]].section))
      BY <1>1, <2>10, FrameFacts
    <3>3. QED  BY <2>10, <3>1, <3>2
  <2>12. p[1] \in 1 .. Len(o) + 1 - 1
    BY <2>2, <2>10
  <2>13. /\ Plan(o[p[1]].section)[p[2]].lock = Plan(s)[n].lock
         /\ Plan(s)[n].mode = "x" => Plan(o[p[1]].section)[p[2]].mode = "x"
    BY <2>9, <2>10
  <2> DEFINE i == Len(o) + 1
             q == p[1]
             r == p[2]
             d == Plan(s)[n]
  <2>14. /\ q \in 1 .. i - 1 /\ r \in DOMAIN Plan(o[q].section)
         /\ Plan(o[q].section)[r].lock = d.lock
         /\ d.mode = "x" => Plan(o[q].section)[r].mode = "x"
    BY <2>11, <2>12, <2>13
  <2> HIDE DEF o, i, q, r, d
  <2>15. Covered(d, o, i)
    BY ONLY <2>14, CoveredBy
  <2>16. QED  BY <2>15 DEF d, i
<1>4. o2 \in Seq(SectionFrame) /\ Nested(o2) /\ \A l, m : Held(o2, l, m) = Held(o, l, m)
  BY <1>1, <1>2, <1>3, BeginFacts
<1>5. frames' = [frames EXCEPT ![t] = o2]
      /\ UNCHANGED <<build, holder, readers, asleep, xcounter, rcounter>>
  BY DEF Enter
<1> HIDE DEF o2
<1>6. /\ frames' \in [Thread -> Seq(SectionFrame)] /\ build' \in Builds
      /\ FramesOK'
      /\ \A u \in Thread : u # t => frames'[u] = frames[u]
      /\ frames'[t] = o2
      /\ \A u \in Thread : u # t => (Entering(u)' <=> Entering(u)) /\ Next1(u)' = Next1(u)
      /\ (\A u \in Thread, l \in Lock :
             xcounter'[u][l] = Cardinality(Held(frames'[u], l, "x"))
             /\ rcounter'[u][l] = Cardinality(Held(frames'[u], l, "r"))) => LevelsOK'
  BY <1>1, <1>4, <1>5, FrameStep DEF Inv2
<1>7. TypeOK'
  BY <1>5, <1>6 DEF Inv2, TypeOK
<1>8. LevelsOK'
  <2>1. \A u \in Thread : \A l, m : Held(frames'[u], l, m) = Held(frames[u], l, m)
    BY <1>4, <1>6
  <2>2. QED  BY <1>5, <1>6, <2>1 DEF Inv2, LevelsOK
<1>9. HolderOK' /\ CountOK' /\ ReadersOK'
  <2>1. \A l \in Lock : Readers(l)' = Readers(l)
    BY <1>5 DEF Readers
  <2>2. HolderOK /\ CountOK /\ ReadersOK
    BY DEF Inv2
  <2>3. QED  BY <1>5, <2>1, <2>2 DEF HolderOK, CountOK, ReadersOK
<1>10. SleepersOK'
  <2>1. \A l \in Lock : \A u \in asleep[l] : u \in Thread /\ u # t
    BY <1>2 DEF Inv2, TypeOK, SleepersOK
  <2>2. QED  BY <1>5, <1>6, <2>1 DEF Inv2, SleepersOK
<1>11. WritersWoken'
  BY <1>2, <1>5, <1>6 DEF Inv2, WritersWoken
<1>12. QED  BY <1>6, <1>7, <1>8, <1>9, <1>10, <1>11 DEF Inv2

LEMMA WakeKeeps ==
    ASSUME Inv2, NEW t \in Thread, WakeUnsignalled(t)
    PROVE  Inv2'
<1>1. PICK l \in Lock : t \in asleep[l] /\ asleep' = [asleep EXCEPT ![l] = @ \ {t}]
  BY DEF WakeUnsignalled
<1>2. UNCHANGED <<build, holder, readers, xcounter, rcounter, frames>>
  BY DEF WakeUnsignalled
<1>3. TypeOK'
  BY <1>1, <1>2 DEF Inv2, TypeOK
<1>4. FramesOK' /\ LevelsOK' /\ HolderOK' /\ CountOK' /\ ReadersOK'
  <2>1. FramesOK'
    <3>1. frames[t] \in Seq(SectionFrame) /\ Nested(frames[t])
          /\ frames' = [frames EXCEPT ![t] = frames[t]]
      BY <1>2 DEF Inv2, TypeOK, FramesOK
    <3>2. QED  BY <1>2, <3>1, FrameStep DEF Inv2
  <2>2. LevelsOK'
    <3>1. \A u \in Thread : \A k, m : Held(frames[u], k, m)' = Held(frames[u], k, m)
      BY <1>2 DEF Held, Plan
    <3>2. QED  BY <1>2, <3>1 DEF Inv2, LevelsOK
  <2>3. QED  BY <1>2, <2>1, <2>2 DEF Inv2, HolderOK, CountOK, ReadersOK, Readers
<1>5. \A u \in Thread : (Entering(u)' <=> Entering(u)) /\ Next1(u)' = Next1(u)
  BY <1>2 DEF Entering, Next1, Innermost, Plan
<1>6. asleep \in [Lock -> SUBSET Thread]
  BY DEF Inv2, TypeOK
<1>7. \A k \in Lock : asleep'[k] = IF k = l THEN asleep[l] \ {t} ELSE asleep[k]
  BY <1>1, <1>6
<1>8. SleepersOK'
  BY <1>2, <1>5, <1>6, <1>7 DEF Inv2, SleepersOK
<1>9. WritersWoken'
  <2>1. SUFFICES ASSUME NEW k \in Lock, asleep'[k] # {}, holder'[k] = Nobody, readers'[k] = 0
                 PROVE  \E u \in Thread : u \notin asleep'[k] /\ Entering(u)' /\ Next1(u)'.lock = k
    BY DEF WritersWoken
  <2>2. CASE k = l
    <3>1. Entering(t) /\ Next1(t).lock = l /\ t \notin asleep'[k]
      BY <1>1, <1>7, <2>2 DEF Inv2, SleepersOK
    <3>2. QED  BY <1>5, <2>2, <3>1
  <2>3. CASE k # l
    BY <1>2, <1>5, <1>7, <2>1, <2>3 DEF Inv2, WritersWoken
  <2>4. QED  BY <2>2, <2>3
<1>10. QED  BY <1>3, <1>4, <1>8, <1>9 DEF Inv2

\* The frames of a thread that takes a lock.
LEMMA TakingFacts ==
    ASSUME Inv2, NEW t \in Thread, Entering(t), Taken(t), build' = build
    PROVE  /\ Next1(t) \in Step
           /\ frames' \in [Thread -> Seq(SectionFrame)] /\ build' \in Builds
           /\ FramesOK'
           /\ \A u \in Thread : u # t => (Entering(u)' <=> Entering(u)) /\ Next1(u)' = Next1(u)
           /\ (\A u \in Thread, l \in Lock :
                  LET more == IF u = t /\ l = Next1(t).lock THEN 1 ELSE 0
                  IN  /\ xcounter'[u][l] = xcounter[u][l] + (IF Next1(t).mode = "x" THEN more ELSE 0)
                      /\ rcounter'[u][l] = rcounter[u][l] + (IF Next1(t).mode = "r" THEN more ELSE 0))
              => LevelsOK'
<1> DEFINE o == frames[t]
           o2 == [o EXCEPT ![Len(o)].taken = @ + 1]
           f == o[Len(o)]
           s == Plan(f.section)[f.taken + 1]
<1>1. o \in Seq(SectionFrame) /\ Nested(o) /\ build \in Builds /\ o # <<>> /\ ToTake(f)
  BY EnteringFacts DEF Inv2, TypeOK, FramesOK
<1>2. /\ o2 \in Seq(SectionFrame) /\ Nested(o2) /\ s \in Step
      /\ \A l, m : Cardinality(Held(o2, l, m)) =
             Cardinality(Held(o, l, m)) + (IF s = [lock |-> l, mode |-> m] THEN 1 ELSE 0)
  BY <1>1, TakeFacts
<1>3. frames' = [frames EXCEPT ![t] = o2]
  BY DEF Taken
<1>4. Next1(t) = s
  BY DEF Next1, Innermost
<1> HIDE DEF o2, s
<1>5. /\ frames' \in [Thread -> Seq(SectionFrame)] /\ build' \in Builds
      /\ FramesOK'
      /\ \A u \in Thread : u # t => frames'[u] = frames[u]
      /\ frames'[t] = o2
      /\ \A u \in Thread : u # t => (Entering(u)' <=> Entering(u)) /\ Next1(u)' = Next1(u)
      /\ (\A u \in Thread, l \in Lock :
             xcounter'[u][l] = Cardinality(Held(frames'[u], l, "x"))
             /\ rcounter'[u][l] = Cardinality(Held(frames'[u], l, "r"))) => LevelsOK'
  BY <1>1, <1>2, <1>3, FrameStep DEF Inv2
<1>6. s.lock \in Lock /\ s.mode \in {"r", "x"}
      /\ \A l, m : s = [lock |-> l, mode |-> m] <=> s.lock = l /\ s.mode = m
  BY <1>2 DEF Step
<1>7. ASSUME \A u \in Thread, l \in Lock :
                 LET more == IF u = t /\ l = s.lock THEN 1 ELSE 0
                 IN  /\ xcounter'[u][l] = xcounter[u][l] + (IF s.mode = "x" THEN more ELSE 0)
                     /\ rcounter'[u][l] = rcounter[u][l] + (IF s.mode = "r" THEN more ELSE 0),
             NEW u \in Thread, NEW l \in Lock
      PROVE  xcounter'[u][l] = Cardinality(Held(frames'[u], l, "x"))
             /\ rcounter'[u][l] = Cardinality(Held(frames'[u], l, "r"))
  <2>1. /\ xcounter[u][l] = Cardinality(Held(frames[u], l, "x"))
        /\ rcounter[u][l] = Cardinality(Held(frames[u], l, "r"))
        /\ xcounter[u][l] \in Nat /\ rcounter[u][l] \in Nat
    BY DEF Inv2, LevelsOK, TypeOK
  <2>2. CASE u = t
    <3>1. /\ frames'[u] = o2 /\ frames[u] = o
          /\ Cardinality(Held(o2, l, "x")) =
                 xcounter[u][l] + (IF s.lock = l /\ s.mode = "x" THEN 1 ELSE 0)
          /\ Cardinality(Held(o2, l, "r")) =
                 rcounter[u][l] + (IF s.lock = l /\ s.mode = "r" THEN 1 ELSE 0)
      <4>1. frames'[u] = o2 /\ frames[u] = o
        BY <1>5, <2>2
      <4>2. (s = [lock |-> l, mode |-> "x"] <=> s.lock = l /\ s.mode = "x")
            /\ (s = [lock |-> l, mode |-> "r"] <=> s.lock = l /\ s.mode = "r")
        BY <1>6
      <4>3. /\ xcounter[u][l] = Cardinality(Held(o, l, "x"))
            /\ rcounter[u][l] = Cardinality(Held(o, l, "r"))
        BY <2>1, <2>2
      <4> HIDE DEF o
      <4>4. QED  BY <1>2, <4>1, <4>2, <4>3
    <3>2. /\ xcounter'[u][l] = xcounter[u][l] + (IF s.lock = l /\ s.mode = "x" THEN 1 ELSE 0)
          /\ rcounter'[u][l] = rcounter[u][l] + (IF s.lock = l /\ s.mode = "r" THEN 1 ELSE 0)
      <4>1. CASE l = s.lock
        BY <1>7, <2>2, <4>1
      <4>2. CASE l # s.lock
        BY <1>7, <2>2, <4>2
      <4>3. QED  BY <4>1, <4>2
    <3>3. QED  BY <3>1, <3>2
  <2>3. CASE u # t
    <3>1. xcounter'[u][l] = xcounter[u][l] /\ rcounter'[u][l] = rcounter[u][l]
      BY <1>7, <2>1, <2>3
    <3>2. QED  BY <1>5, <2>1, <2>3, <3>1
  <2>4. QED  BY <2>2, <2>3
<1>8. QED  BY <1>2, <1>4, <1>5, <1>7

LEMMA ReadLockKeeps ==
    ASSUME Inv2, NEW t \in Thread, ReadLock(t)
    PROVE  Inv2'
<1>0. PICK l : l = Next1(t).lock
  OBVIOUS
<1>1. /\ Entering(t) /\ Taken(t) /\ Next1(t).mode = "r"
      /\ rcounter' = [rcounter EXCEPT ![t][l] = @ + 1]
      /\ UNCHANGED <<build, holder, asleep, xcounter>>
  BY <1>0 DEF ReadLock
<1>2. /\ Next1(t) \in Step
      /\ frames' \in [Thread -> Seq(SectionFrame)] /\ build' \in Builds
      /\ FramesOK'
      /\ \A u \in Thread : u # t => (Entering(u)' <=> Entering(u)) /\ Next1(u)' = Next1(u)
      /\ (\A u \in Thread, k \in Lock :
             LET more == IF u = t /\ k = l THEN 1 ELSE 0
             IN  /\ xcounter'[u][k] = xcounter[u][k] + (IF Next1(t).mode = "x" THEN more ELSE 0)
                 /\ rcounter'[u][k] = rcounter[u][k] + (IF Next1(t).mode = "r" THEN more ELSE 0))
         => LevelsOK'
  BY <1>0, <1>1, TakingFacts
<1>3. l \in Lock
  BY <1>0, <1>2 DEF Step
<1>4. /\ xcounter \in [Thread -> [Lock -> Nat]] /\ rcounter \in [Thread -> [Lock -> Nat]]
      /\ readers \in [Lock -> Nat] /\ asleep \in [Lock -> SUBSET Thread]
  BY DEF Inv2, TypeOK
<1>5. /\ rcounter' \in [Thread -> [Lock -> Nat]]
      /\ \A u \in Thread, k \in Lock :
            rcounter'[u][k] = IF u = t /\ k = l THEN rcounter[u][k] + 1 ELSE rcounter[u][k]
  BY <1>1, <1>3, <1>4
<1>6. LevelsOK'
  <2>1. \A u \in Thread, k \in Lock : xcounter[u][k] + 0 = xcounter[u][k] /\ rcounter[u][k] + 0 = rcounter[u][k]
    BY <1>4
  <2>2. QED  BY <1>1, <1>2, <1>5, <2>1
<1>7. /\ First(t, l) => holder[l] = Nobody /\ readers' = [readers EXCEPT ![l] = @ + 1]
      /\ ~ First(t, l) => readers' = readers
  BY <1>0 DEF ReadLock
<1>8. TypeOK'
  <2>1. readers' \in [Lock -> Nat]
    <3>1. CASE First(t, l)
      BY <1>3, <1>4, <1>7, <3>1
    <3>2. CASE ~ First(t, l)
      BY <1>4, <1>7, <3>2
    <3>3. QED  BY <3>1, <3>2
  <2>2. QED  BY <1>1, <1>2, <1>5, <2>1 DEF Inv2, TypeOK
<1>9. \A k \in Lock : k # l => Readers(k)' = Readers(k) /\ readers'[k] = readers[k]
  BY <1>1, <1>3, <1>4, <1>5, <1>7 DEF Readers
<1>10. IF First(t, l)
       THEN Readers(l)' = Readers(l) \cup {t} /\ t \notin Readers(l) /\ readers'[l] = readers[l] + 1
       ELSE Readers(l)' = Readers(l) /\ readers'[l] = readers[l]
  <2>1. xcounter[t][l] \in Nat /\ rcounter[t][l] \in Nat
    BY <1>3, <1>4
  <2>2. \A u \in Thread : u \in Readers(l)' <=>
            IF u = t THEN xcounter[t][l] = 0 ELSE u \in Readers(l)
    <3>1. ASSUME NEW u \in Thread
          PROVE  /\ u \in Readers(l)' <=> rcounter'[u][l] > 0 /\ xcounter[u][l] = 0
                 /\ u \in Readers(l) <=> rcounter[u][l] > 0 /\ xcounter[u][l] = 0
      BY <1>1 DEF Readers
    <3>2. rcounter'[t][l] = rcounter[t][l] + 1
      BY <1>3, <1>5
    <3>3. rcounter'[t][l] > 0
      BY <2>1, <3>2
    <3>4. \A u \in Thread : u # t => rcounter'[u][l] = rcounter[u][l]
      BY <1>3, <1>5
    <3>5. QED  BY <3>1, <3>3, <3>4
  <2>3. Readers(l)' \subseteq Thread /\ Readers(l) \subseteq Thread
    BY DEF Readers
  <2>4. t \in Readers(l) <=> rcounter[t][l] # 0 /\ xcounter[t][l] = 0
    BY <2>1 DEF Readers
  <2>5. readers'[l] = IF First(t, l) THEN readers[l] + 1 ELSE readers[l]
    BY <1>3, <1>4, <1>7
  <2>6. QED  BY <2>2, <2>3, <2>4, <2>5 DEF First
<1>11. HolderOK'
  BY <1>1 DEF Inv2, HolderOK
<1>12. CountOK' /\ ReadersOK'
  <2>1. SUFFICES ASSUME NEW k \in Lock
                 PROVE  /\ readers'[k] = Cardinality(Readers(k)')
                        /\ IsFiniteSet(Readers(k)')
                        /\ holder'[k] # Nobody => readers'[k] = 0
    BY DEF CountOK, ReadersOK
  <2>2. /\ readers[k] = Cardinality(Readers(k)) /\ IsFiniteSet(Readers(k))
        /\ holder[k] # Nobody => readers[k] = 0
    BY DEF Inv2, CountOK, ReadersOK
  <2>3. CASE k = l /\ First(t, l)
    <3>1. IsFiniteSet(Readers(l) \cup {t}) /\ Cardinality(Readers(l) \cup {t}) = Cardinality(Readers(l)) + 1
      BY <1>10, <2>2, <2>3, FS_AddElement
    <3>2. Readers(k)' = Readers(l)'
      BY <2>3 DEF Readers
    <3>3. Readers(k)' = Readers(l) \cup {t} /\ readers'[k] = readers[l] + 1 /\ holder'[k] = Nobody
      BY <1>1, <1>7, <1>10, <2>3, <3>2
    <3>4. QED  BY <2>2, <2>3, <3>1, <3>3
  <2>4. CASE ~ (k = l /\ First(t, l))
    <3>1. Readers(k)' = Readers(k) /\ readers'[k] = readers[k]
      <4>1. CASE k = l
        <5>1. Readers(k)' = Readers(l)'
          BY <4>1 DEF Readers
        <5>2. QED  BY <1>10, <2>4, <4>1, <5>1
      <4>2. CASE k # l
        BY <1>9, <4>2
      <4>3. QED  BY <4>1, <4>2
    <3>2. QED  BY <1>1, <2>2, <3>1
  <2>5. QED  BY <2>3, <2>4
<1>13. SleepersOK'
  <2>1. \A k \in Lock : \A u \in asleep[k] : u \in Thread /\ u # t
    <3>1. \A k \in Lock : \A u \in asleep[k] : u \in Thread /\ Next1(u).mode = "x"
      BY <1>4 DEF Inv2, SleepersOK
    <3>2. QED  BY <1>1, <3>1
  <2>2. QED  BY <1>1, <1>2, <2>1 DEF Inv2, SleepersOK
<1>14. WritersWoken'
  <2>1. SUFFICES ASSUME NEW k \in Lock, asleep[k] # {}, holder[k] = Nobody, readers'[k] = 0
                 PROVE  \E u \in Thread : u \notin asleep[k] /\ Entering(u)' /\ Next1(u)'.lock = k
    BY <1>1 DEF WritersWoken
  <2>2. readers[k] = 0 /\ (k = l => ~ First(t, l))
    BY <1>4, <1>9, <1>10, <2>1
  <2>3. PICK u \in Thread : u \notin asleep[k] /\ Entering(u) /\ Next1(u).lock = k
    BY <2>1, <2>2 DEF Inv2, WritersWoken
  <2>4. u # t
    <3>1. SUFFICES ASSUME k = l PROVE FALSE
      BY <1>0, <2>3
    <3>2. t # Nobody /\ xcounter[t][l] = 0
      BY <1>3, <1>4, <2>1, <3>1, ResourceAssumption DEF Inv2, HolderOK
    <3>3. rcounter[t][l] > 0
      BY <1>3, <1>4, <2>2, <3>1, <3>2 DEF First
    <3>4. t \in Readers(l)
      BY <3>2, <3>3 DEF Readers
    <3>5. QED  BY <1>3, <2>2, <3>1, <3>4, Alone DEF Inv2
  <2>5. QED  BY <1>2, <2>3, <2>4
<1>15. QED  BY <1>2, <1>6, <1>8, <1>11, <1>12, <1>13, <1>14 DEF Inv2

LEMMA ExclusiveLockKeeps ==
    ASSUME Inv2, NEW t \in Thread, ExclusiveLock(t)
    PROVE  Inv2'
<1>0. PICK l : l = Next1(t).lock
  OBVIOUS
<1>1. /\ Entering(t) /\ Next1(t).mode = "x" /\ t \notin asleep[l]
      /\ UNCHANGED <<build, readers, rcounter>>
      /\ \/ /\ xcounter[t][l] > 0
            /\ xcounter' = [xcounter EXCEPT ![t][l] = @ + 1]
            /\ Taken(t)
            /\ UNCHANGED <<holder, asleep>>
         \/ /\ xcounter[t][l] = 0 /\ holder[l] = Nobody /\ readers[l] = 0
            /\ holder' = [holder EXCEPT ![l] = t]
            /\ xcounter' = [xcounter EXCEPT ![t][l] = 1]
            /\ Taken(t)
            /\ UNCHANGED asleep
         \/ /\ xcounter[t][l] = 0 /\ holder[l] = Nobody /\ readers[l] > 0
            /\ asleep' = [asleep EXCEPT ![l] = @ \cup {t}]
            /\ UNCHANGED <<holder, xcounter, frames>>
  BY <1>0 DEF ExclusiveLock
<1>2. /\ xcounter \in [Thread -> [Lock -> Nat]] /\ rcounter \in [Thread -> [Lock -> Nat]]
      /\ readers \in [Lock -> Nat] /\ asleep \in [Lock -> SUBSET Thread]
      /\ holder \in [Lock -> Thread \cup {Nobody}]
  BY DEF Inv2, TypeOK
<1>3. Next1(t) = [lock |-> l, mode |-> "x"] /\ l \in Lock
  <2>1. Next1(t) \in Step
    <3> DEFINE o == frames[t]
    <3>1. o \in Seq(SectionFrame) /\ Nested(o) /\ build \in Builds /\ o # <<>> /\ ToTake(o[Len(o)])
      BY <1>1, EnteringFacts DEF Inv2, TypeOK, FramesOK
    <3> HIDE DEF o
    <3>2. Plan(o[Len(o)].section)[o[Len(o)].taken + 1] \in Step
      BY <3>1, TakeFacts
    <3>3. QED  BY <3>2 DEF o, Next1, Innermost
  <2>2. QED  BY <1>0, <1>1, <2>1 DEF Step
<1>4. CASE frames' = frames
  <2>1. /\ xcounter[t][l] = 0 /\ holder[l] = Nobody /\ readers[l] > 0
        /\ asleep' = [asleep EXCEPT ![l] = @ \cup {t}]
        /\ UNCHANGED <<build, holder, readers, xcounter, rcounter, frames>>
    <3>1. ~ Taken(t)
      <4> DEFINE o == frames[t]
                 N == Len(o)
      <4>1. N \in 1 .. Len(o) /\ o \in Seq(SectionFrame)
        BY <1>1, EmptySeq DEF Inv2, TypeOK, Entering
      <4>2. o[N].taken \in {0, 1, 2} /\ o[N] \in SectionFrame /\ DOMAIN o = 1 .. N
        BY <4>1, FrameFacts DEF Inv2, TypeOK
      <4>3. SUFFICES ASSUME Taken(t) PROVE FALSE
        OBVIOUS
      <4>4. frames'[t] = [o EXCEPT ![N].taken = @ + 1]
        BY <4>3 DEF Taken, Inv2, TypeOK
      <4>5. frames'[t][N].taken = o[N].taken + 1
        BY <4>1, <4>2, <4>4 DEF SectionFrame
      <4>6. o[N].taken = o[N].taken + 1
        BY <1>4, <4>5
      <4>7. QED  BY <4>2, <4>6
    <3>2. QED  BY <1>1, <1>4, <3>1
  <2>2. TypeOK'
    BY <1>3, <2>1 DEF Inv2, TypeOK
  <2>3. FramesOK' /\ LevelsOK' /\ HolderOK' /\ CountOK' /\ ReadersOK'
    <3>1. FramesOK' /\ LevelsOK'
      <4>1. frames[t] \in Seq(SectionFrame) /\ Nested(frames[t])
            /\ frames' = [frames EXCEPT ![t] = frames[t]]
        BY <2>1 DEF Inv2, TypeOK, FramesOK
      <4>2. \A u \in Thread, k \in Lock :
                xcounter'[u][k] = Cardinality(Held(frames'[u], k, "x"))
                /\ rcounter'[u][k] = Cardinality(Held(frames'[u], k, "r"))
        BY <2>1 DEF Inv2, LevelsOK
      <4>3. QED  BY <2>1, <4>1, <4>2, FrameStep DEF Inv2
    <3>2. \A k \in Lock : Readers(k)' = Readers(k)
      BY <2>1 DEF Readers
    <3>3. HolderOK /\ CountOK /\ ReadersOK
      BY DEF Inv2
    <3>4. QED  BY <2>1, <3>1, <3>2, <3>3 DEF HolderOK, CountOK, ReadersOK
  <2>4. \A u \in Thread : (Entering(u)' <=> Entering(u)) /\ Next1(u)' = Next1(u)
    BY <2>1 DEF Entering, Next1, Innermost, Plan
  <2>5. \A k \in Lock : asleep'[k] = IF k = l THEN asleep[l] \cup {t} ELSE asleep[k]
    BY <1>2, <2>1
  <2>6. SleepersOK'
    <3>1. SUFFICES ASSUME NEW k \in Lock, NEW u \in asleep'[k]
                   PROVE  Entering(u)' /\ Next1(u)' = [lock |-> k, mode |-> "x"] /\ xcounter'[u][k] = 0
      BY DEF SleepersOK
    <3>2. CASE u \in asleep[k]
      <4>1. u \in Thread /\ Entering(u) /\ Next1(u) = [lock |-> k, mode |-> "x"] /\ xcounter[u][k] = 0
        BY <1>2, <3>2 DEF Inv2, SleepersOK
      <4>2. QED  BY <2>1, <2>4, <4>1
    <3>3. CASE u = t /\ k = l
      BY <1>1, <1>3, <2>1, <2>4, <3>3
    <3>4. QED  BY <2>5, <3>1, <3>2, <3>3
  <2>7. WritersWoken'
    <3>1. SUFFICES ASSUME NEW k \in Lock, asleep'[k] # {}, holder'[k] = Nobody, readers'[k] = 0
                   PROVE  \E u \in Thread : u \notin asleep'[k] /\ Entering(u)' /\ Next1(u)'.lock = k
      BY DEF WritersWoken
    <3>2. k # l
      BY <1>2, <2>1, <3>1
    <3>3. QED  BY <2>1, <2>4, <2>5, <3>1, <3>2 DEF Inv2, WritersWoken
  <2>8. QED  BY <2>2, <2>3, <2>6, <2>7 DEF Inv2
<1>5. CASE frames' # frames
  <2>1. /\ Taken(t) /\ asleep' = asleep
        /\ xcounter' = [xcounter EXCEPT ![t][l] = @ + 1]
        /\ \/ xcounter[t][l] > 0 /\ holder' = holder
           \/ /\ xcounter[t][l] = 0 /\ holder[l] = Nobody /\ readers[l] = 0
              /\ holder' = [holder EXCEPT ![l] = t]
    <3>1. xcounter[t][l] = 0 => [xcounter EXCEPT ![t][l] = 1] = [xcounter EXCEPT ![t][l] = @ + 1]
      BY <1>2, <1>3
    <3>2. QED  BY <1>1, <1>5, <3>1
  <2>2. /\ frames' \in [Thread -> Seq(SectionFrame)] /\ build' \in Builds
        /\ FramesOK'
        /\ \A u \in Thread : u # t => (Entering(u)' <=> Entering(u)) /\ Next1(u)' = Next1(u)
        /\ (\A u \in Thread, k \in Lock :
               LET more == IF u = t /\ k = l THEN 1 ELSE 0
               IN  /\ xcounter'[u][k] = xcounter[u][k] + (IF Next1(t).mode = "x" THEN more ELSE 0)
                   /\ rcounter'[u][k] = rcounter[u][k] + (IF Next1(t).mode = "r" THEN more ELSE 0))
           => LevelsOK'
    BY <1>0, <1>1, <2>1, TakingFacts
  <2>3. /\ xcounter' \in [Thread -> [Lock -> Nat]]
        /\ \A u \in Thread, k \in Lock :
              xcounter'[u][k] = IF u = t /\ k = l THEN xcounter[u][k] + 1 ELSE xcounter[u][k]
    BY <1>2, <1>3, <2>1
  <2>4. LevelsOK'
    <3>1. \A u \in Thread, k \in Lock :
              xcounter[u][k] + 0 = xcounter[u][k] /\ rcounter[u][k] + 0 = rcounter[u][k]
      BY <1>2
    <3>2. QED  BY <1>1, <2>2, <2>3, <3>1
  <2>5. holder' \in [Lock -> Thread \cup {Nobody}]
        /\ \A k \in Lock : holder'[k] = IF k = l THEN t ELSE holder[k]
    <3>1. xcounter[t][l] > 0 => holder[l] = t
      BY <1>3 DEF Inv2, HolderOK
    <3>2. QED  BY <1>2, <1>3, <2>1, <3>1
  <2>6. TypeOK'
    BY <1>1, <2>1, <2>2, <2>3, <2>5 DEF Inv2, TypeOK
  <2>7. readers[l] = 0 /\ Readers(l) = {}
    <3>1. xcounter[t][l] > 0 => holder[l] = t /\ holder[l] # Nobody
      BY <1>3, ResourceAssumption DEF Inv2, HolderOK
    <3>2. QED  BY <1>3, <2>1, <3>1, Alone DEF Inv2
  <2>8. \A k \in Lock : Readers(k)' = Readers(k)
    <3>1. SUFFICES ASSUME NEW k \in Lock PROVE Readers(k)' = Readers(k)
      OBVIOUS
    <3>2. CASE k # l
      BY <1>1, <2>3, <3>2 DEF Readers
    <3>3. CASE k = l
      <4>1. \A u \in Thread : rcounter[u][l] = 0 \/ xcounter[u][l] > 0
        BY <1>2, <1>3, <2>7 DEF Readers
      <4>2. \A u \in Thread : rcounter'[u][k] > 0 => xcounter'[u][k] # 0
        <5>1. SUFFICES ASSUME NEW u \in Thread, rcounter'[u][k] > 0, xcounter'[u][k] = 0
                       PROVE  FALSE
          OBVIOUS
        <5>2. xcounter[u][l] \in Nat /\ rcounter[u][l] > 0
          BY <1>1, <1>2, <1>3, <3>3, <5>1
        <5>3. xcounter[u][l] > 0
          <6>1. rcounter[u][l] # 0
            BY <1>2, <1>3, <5>2
          <6>2. QED  BY <4>1, <6>1
        <5>4. xcounter'[u][l] = xcounter[u][l] \/ xcounter'[u][l] = xcounter[u][l] + 1
          BY <1>3, <2>3
        <5>5. QED  BY <3>3, <5>1, <5>2, <5>3, <5>4
      <4>3. Readers(k)' = {}
        BY <4>2 DEF Readers
      <4>4. QED  BY <2>7, <3>3, <4>3
    <3>4. QED  BY <3>2, <3>3
  <2>9. HolderOK'
    <3>1. SUFFICES ASSUME NEW u \in Thread, NEW k \in Lock
                   PROVE  holder'[k] = u <=> xcounter'[u][k] > 0
      BY DEF HolderOK
    <3>2. holder[k] = u <=> xcounter[u][k] > 0
      BY DEF Inv2, HolderOK
    <3>3. CASE k # l
      BY <2>3, <2>5, <3>2, <3>3
    <3>4. CASE k = l /\ u = t
      <4>1. xcounter'[u][k] = xcounter[u][k] + 1 /\ xcounter[u][k] \in Nat
        BY <1>2, <2>3, <3>4
      <4>2. QED  BY <2>5, <3>4, <4>1
    <3>5. CASE k = l /\ u # t
      <4>1. xcounter'[u][k] = xcounter[u][k] /\ holder'[k] # u
        BY <2>3, <2>5, <3>5
      <4>2. holder[k] # u
        BY <1>3, <2>1, <3>5, ResourceAssumption DEF Inv2, HolderOK
      <4>3. QED  BY <3>2, <4>1, <4>2
    <3>6. QED  BY <3>3, <3>4, <3>5
  <2>10. CountOK' /\ ReadersOK'
    <3>1. SUFFICES ASSUME NEW k \in Lock
                   PROVE  /\ readers'[k] = Cardinality(Readers(k)')
                          /\ IsFiniteSet(Readers(k)')
                          /\ holder'[k] # Nobody => readers'[k] = 0
      BY DEF CountOK, ReadersOK
    <3>2. /\ readers[k] = Cardinality(Readers(k)) /\ IsFiniteSet(Readers(k))
          /\ holder[k] # Nobody => readers[k] = 0
      BY DEF Inv2, CountOK, ReadersOK
    <3>3. QED  BY <1>1, <2>5, <2>7, <2>8, <3>2
  <2>11. SleepersOK'
    <3>1. SUFFICES ASSUME NEW k \in Lock, NEW u \in asleep[k]
                   PROVE  Entering(u)' /\ Next1(u)' = [lock |-> k, mode |-> "x"] /\ xcounter'[u][k] = 0
      BY <2>1 DEF SleepersOK
    <3>2. u \in Thread /\ Entering(u) /\ Next1(u) = [lock |-> k, mode |-> "x"] /\ xcounter[u][k] = 0
      BY <1>2 DEF Inv2, SleepersOK
    <3>3. u # t
      <4>1. SUFFICES ASSUME u = t PROVE FALSE
        OBVIOUS
      <4>2. k = l
        BY <1>3, <3>2, <4>1
      <4>3. QED  BY <1>1, <4>1, <4>2
    <3>4. QED  BY <2>2, <2>3, <3>2, <3>3
  <2>12. WritersWoken'
    <3>1. SUFFICES ASSUME NEW k \in Lock, asleep[k] # {}, holder'[k] = Nobody, readers'[k] = 0
                   PROVE  \E u \in Thread : u \notin asleep[k] /\ Entering(u)' /\ Next1(u)'.lock = k
      BY <2>1 DEF WritersWoken
    <3>2. k # l /\ holder[k] = Nobody /\ readers[k] = 0
      BY <1>1, <2>5, <3>1, ResourceAssumption
    <3>3. PICK u \in Thread : u \notin asleep[k] /\ Entering(u) /\ Next1(u).lock = k
      BY <3>1, <3>2 DEF Inv2, WritersWoken
    <3>4. u # t
      BY <1>3, <3>2, <3>3
    <3>5. QED  BY <2>2, <3>3, <3>4
  <2>13. QED  BY <2>2, <2>4, <2>6, <2>9, <2>10, <2>11, <2>12 DEF Inv2
<1>6. QED  BY <1>4, <1>5

\* The frames of a thread that gives a lock up.
LEMMA GivingFacts ==
    ASSUME Inv2, NEW t \in Thread, NEW mode, Leaving(t, mode), GivenUp(t), build' = build,
           NEW l, l = Last1(t).lock
    PROVE  /\ l \in Lock /\ mode \in {"r", "x"}
           /\ mode = "x" => xcounter[t][l] > 0 /\ (xcounter[t][l] = 1 => rcounter[t][l] = 0)
           /\ mode = "r" => rcounter[t][l] > 0
           /\ frames' \in [Thread -> Seq(SectionFrame)] /\ build' \in Builds
           /\ FramesOK'
           /\ \A u \in Thread : u # t => (Entering(u)' <=> Entering(u)) /\ Next1(u)' = Next1(u)
           /\ (\A u \in Thread, k \in Lock :
                  LET less == IF u = t /\ k = l THEN 1 ELSE 0
                  IN  /\ xcounter'[u][k] = xcounter[u][k] - (IF mode = "x" THEN less ELSE 0)
                      /\ rcounter'[u][k] = rcounter[u][k] - (IF mode = "r" THEN less ELSE 0))
              => LevelsOK'
<1> DEFINE o == frames[t]
           o2 == Fewer(o)
           f == o[Len(o)]
           s == Plan(f.section)[f.taken]
<1>1. o \in Seq(SectionFrame) /\ Nested(o) /\ build \in Builds /\ o # <<>> /\ ~ ToTake(f)
  BY EnteringFacts DEF Inv2, TypeOK, FramesOK, Leaving
<1>2. /\ o2 \in Seq(SectionFrame) /\ Nested(o2) /\ s \in Step
      /\ \A k, m : Cardinality(Held(o2, k, m)) =
             Cardinality(Held(o, k, m)) - (IF s = [lock |-> k, mode |-> m] THEN 1 ELSE 0)
      /\ \A k, m : s = [lock |-> k, mode |-> m] => <<Len(o), f.taken>> \in Held(o, k, m)
  BY <1>1, GiveUpFacts
<1>3. frames' = [frames EXCEPT ![t] = o2]
  BY DEF GivenUp
<1>4. Last1(t) = s
  BY DEF Last1, Innermost
<1>5. /\ s.lock = l /\ s.mode = mode /\ l \in Lock /\ mode \in {"r", "x"}
      /\ s = [lock |-> l, mode |-> mode]
      /\ \A k, m : s = [lock |-> k, mode |-> m] <=> k = l /\ m = mode
  <2>1. s \in [lock : Lock, mode : {"r", "x"}]
    BY <1>2 DEF Step
  <2>2. s.lock = l /\ s.mode = mode
    BY <1>4 DEF Leaving
  <2> HIDE DEF s
  <2>3. l \in Lock /\ mode \in {"r", "x"} /\ s = [lock |-> l, mode |-> mode]
    BY <2>1, <2>2
  <2>4. QED  BY <2>2, <2>3
<1>6. /\ \A u \in Thread, k \in Lock :
             /\ xcounter[u][k] = Cardinality(Held(frames[u], k, "x"))
             /\ rcounter[u][k] = Cardinality(Held(frames[u], k, "r"))
             /\ xcounter[u][k] \in Nat /\ rcounter[u][k] \in Nat
  BY DEF Inv2, LevelsOK, TypeOK
<1>7. Cardinality(Held(o, l, mode)) \in Nat /\ Cardinality(Held(o, l, mode)) # 0
  BY <1>1, <1>2, <1>5, HeldFinite
<1>8. mode = "x" => xcounter[t][l] > 0 /\ (xcounter[t][l] = 1 => rcounter[t][l] = 0)
  <2>1. SUFFICES ASSUME mode = "x" PROVE xcounter[t][l] > 0 /\ (xcounter[t][l] = 1 => rcounter[t][l] = 0)
    OBVIOUS
  <2>2. xcounter[t][l] > 0
    BY <1>5, <1>6, <1>7, <2>1
  <2>3. ASSUME xcounter[t][l] = 1 PROVE rcounter[t][l] = 0
    <3>1. Plan(o[Len(o)].section)[o[Len(o)].taken] = [lock |-> l, mode |-> "x"]
          /\ Cardinality(Held(o, l, "x")) = 1
      BY <1>5, <1>6, <2>1, <2>3
    <3>2. Held(o, l, "r") = {}
      <4> HIDE DEF o
      <4>1. QED  BY <1>1, <3>1, LastExclusive
    <3>3. Cardinality(Held(o, l, "r")) = 0
      BY <3>2, FS_EmptySet
    <3>4. QED  BY <1>5, <1>6, <3>3
  <2>4. QED  BY <2>2, <2>3
<1>9. mode = "r" => rcounter[t][l] > 0
  BY <1>5, <1>6, <1>7
<1> HIDE DEF o2, s
<1>10. /\ frames' \in [Thread -> Seq(SectionFrame)] /\ build' \in Builds
       /\ FramesOK'
       /\ \A u \in Thread : u # t => frames'[u] = frames[u]
       /\ frames'[t] = o2
       /\ \A u \in Thread : u # t => (Entering(u)' <=> Entering(u)) /\ Next1(u)' = Next1(u)
       /\ (\A u \in Thread, k \in Lock :
              xcounter'[u][k] = Cardinality(Held(frames'[u], k, "x"))
              /\ rcounter'[u][k] = Cardinality(Held(frames'[u], k, "r"))) => LevelsOK'
  BY <1>1, <1>2, <1>3, FrameStep DEF Inv2
<1>11. ASSUME \A u \in Thread, k \in Lock :
                  LET less == IF u = t /\ k = l THEN 1 ELSE 0
                  IN  /\ xcounter'[u][k] = xcounter[u][k] - (IF mode = "x" THEN less ELSE 0)
                      /\ rcounter'[u][k] = rcounter[u][k] - (IF mode = "r" THEN less ELSE 0),
              NEW u \in Thread, NEW k \in Lock
       PROVE  xcounter'[u][k] = Cardinality(Held(frames'[u], k, "x"))
              /\ rcounter'[u][k] = Cardinality(Held(frames'[u], k, "r"))
  <2>1. CASE u = t
    <3>1. /\ xcounter'[u][k] = xcounter[u][k] - (IF k = l /\ mode = "x" THEN 1 ELSE 0)
          /\ rcounter'[u][k] = rcounter[u][k] - (IF k = l /\ mode = "r" THEN 1 ELSE 0)
      <4>1. CASE k = l
        BY <1>11, <2>1, <4>1
      <4>2. CASE k # l
        BY <1>11, <2>1, <4>2
      <4>3. QED  BY <4>1, <4>2
    <3>2. frames'[u] = o2 /\ frames[u] = o
      BY <1>10, <2>1
    <3>3. xcounter[u][k] = Cardinality(Held(o, k, "x")) /\ rcounter[u][k] = Cardinality(Held(o, k, "r"))
      BY <1>6, <2>1
    <3>4. (s = [lock |-> k, mode |-> "x"] <=> k = l /\ mode = "x")
          /\ (s = [lock |-> k, mode |-> "r"] <=> k = l /\ mode = "r")
      BY <1>5
    <3> HIDE DEF o
    <3>5. QED  BY <1>2, <3>1, <3>2, <3>3, <3>4
  <2>2. CASE u # t
    <3>1. xcounter'[u][k] = xcounter[u][k] /\ rcounter'[u][k] = rcounter[u][k]
      BY <1>6, <1>11, <2>2
    <3>2. QED  BY <1>6, <1>10, <2>2, <3>1
  <2>3. QED  BY <2>1, <2>2
<1>12. QED  BY <1>5, <1>8, <1>9, <1>10, <1>11

\* A signal wakes one sleeper, if there is one.
LEMMA SignalFacts ==
    ASSUME asleep \in [Lock -> SUBSET Thread], NEW l \in Lock,
           CondSignal(l) \/ asleep' = asleep
    PROVE  /\ asleep' \in [Lock -> SUBSET Thread]
           /\ \A k \in Lock : asleep'[k] \subseteq asleep[k] /\ (k # l => asleep'[k] = asleep[k])
           /\ CondSignal(l) /\ asleep[l] # {} => \E w \in asleep[l] : w \notin asleep'[l]
BY DEF CondSignal

\* Who sleeps does not notice a lock that is given up.
LEMMA SleepersStay ==
    ASSUME Inv2, NEW t \in Thread, ~ Entering(t),
           \A k \in Lock : asleep'[k] \subseteq asleep[k],
           \A u \in Thread : u # t => (Entering(u)' <=> Entering(u)) /\ Next1(u)' = Next1(u),
           \A u \in Thread, k \in Lock : u # t => xcounter'[u][k] = xcounter[u][k]
    PROVE  SleepersOK'
<1>1. SUFFICES ASSUME NEW k \in Lock, NEW u \in asleep'[k]
               PROVE  Entering(u)' /\ Next1(u)' = [lock |-> k, mode |-> "x"] /\ xcounter'[u][k] = 0
  BY DEF SleepersOK
<1>2. u \in asleep[k] /\ u \in Thread
  BY DEF Inv2, TypeOK
<1>3. Entering(u) /\ Next1(u) = [lock |-> k, mode |-> "x"] /\ xcounter[u][k] = 0
  BY <1>2 DEF Inv2, SleepersOK
<1>4. QED  BY <1>2, <1>3

LEMMA ReadUnlockKeeps ==
    ASSUME Inv2, NEW t \in Thread, ReadUnlock(t)
    PROVE  Inv2'
<1>0. PICK l : l = Last1(t).lock
  OBVIOUS
<1> DEFINE last == rcounter[t][l] = 1 /\ xcounter[t][l] = 0
<1>1. /\ Leaving(t, "r") /\ GivenUp(t) /\ ~ Entering(t)
      /\ rcounter' = [rcounter EXCEPT ![t][l] = @ - 1]
      /\ UNCHANGED <<build, holder, xcounter>>
      /\ last => /\ holder[l] = Nobody
                 /\ readers' = [readers EXCEPT ![l] = @ - 1]
                 /\ IF readers[l] = 1 THEN CondSignal(l) ELSE asleep' = asleep
      /\ ~ last => readers' = readers /\ asleep' = asleep
  BY <1>0 DEF ReadUnlock, LastReader, Leaving
<1>2. /\ l \in Lock /\ rcounter[t][l] > 0
      /\ frames' \in [Thread -> Seq(SectionFrame)] /\ build' \in Builds
      /\ FramesOK'
      /\ \A u \in Thread : u # t => (Entering(u)' <=> Entering(u)) /\ Next1(u)' = Next1(u)
      /\ (\A u \in Thread, k \in Lock :
             LET less == IF u = t /\ k = l THEN 1 ELSE 0
             IN  /\ xcounter'[u][k] = xcounter[u][k] - (IF "r" = "x" THEN less ELSE 0)
                 /\ rcounter'[u][k] = rcounter[u][k] - (IF "r" = "r" THEN less ELSE 0))
         => LevelsOK'
  BY <1>0, <1>1, GivingFacts
<1>3. /\ xcounter \in [Thread -> [Lock -> Nat]] /\ rcounter \in [Thread -> [Lock -> Nat]]
      /\ readers \in [Lock -> Nat] /\ asleep \in [Lock -> SUBSET Thread]
  BY DEF Inv2, TypeOK
<1>4. xcounter[t][l] \in Nat /\ rcounter[t][l] \in Nat /\ readers[l] \in Nat
      /\ rcounter[t][l] - 1 \in Nat
  BY <1>2, <1>3
<1>5. /\ rcounter' \in [Thread -> [Lock -> Nat]]
      /\ \A u \in Thread, k \in Lock :
            rcounter'[u][k] = IF u = t /\ k = l THEN rcounter[u][k] - 1 ELSE rcounter[u][k]
  BY <1>1, <1>2, <1>3, <1>4
<1>6. LevelsOK'
  <2>1. \A u \in Thread, k \in Lock :
            xcounter[u][k] - 0 = xcounter[u][k] /\ rcounter[u][k] - 0 = rcounter[u][k]
    BY <1>3
  <2>2. "r" # "x"
    OBVIOUS
  <2>3. QED  BY <1>1, <1>2, <1>5, <2>1, <2>2
<1>7. t \in Readers(l) <=> xcounter[t][l] = 0
  BY <1>2, <1>4 DEF Readers
<1>8. last => readers[l] > 0
  BY <1>2, <1>7, Alone DEF Inv2
<1>9. /\ asleep' \in [Lock -> SUBSET Thread]
      /\ \A k \in Lock : asleep'[k] \subseteq asleep[k] /\ (k # l => asleep'[k] = asleep[k])
      /\ CondSignal(l) /\ asleep[l] # {} => \E w \in asleep[l] : w \notin asleep'[l]
  <2>1. CondSignal(l) \/ asleep' = asleep
    BY <1>1
  <2>2. QED  BY <1>2, <1>3, <2>1, SignalFacts
<1>10. /\ readers' \in [Lock -> Nat]
       /\ \A k \in Lock : readers'[k] = IF last /\ k = l THEN readers[k] - 1 ELSE readers[k]
  <2>1. CASE last
    <3>1. readers[l] - 1 \in Nat
      BY <1>4, <1>8, <2>1
    <3>2. QED  BY <1>1, <1>2, <1>3, <2>1, <3>1
  <2>2. CASE ~ last
    BY <1>1, <1>3, <2>2
  <2>3. QED  BY <2>1, <2>2
<1>11. TypeOK'
  BY <1>1, <1>2, <1>5, <1>9, <1>10 DEF Inv2, TypeOK
<1>12. \A k \in Lock : Readers(k)' = IF last /\ k = l THEN Readers(k) \ {t} ELSE Readers(k)
  <2>1. SUFFICES ASSUME NEW k \in Lock
                 PROVE  Readers(k)' = IF last /\ k = l THEN Readers(k) \ {t} ELSE Readers(k)
    OBVIOUS
  <2>2. CASE k # l
    BY <1>1, <1>5, <2>2 DEF Readers
  <2>3. CASE k = l
    <3>1. ASSUME NEW u \in Thread
          PROVE  (rcounter'[u][l] > 0 /\ xcounter'[u][l] = 0)
                     <=> (rcounter[u][l] > 0 /\ xcounter[u][l] = 0 /\ ~ (last /\ u = t))
      <4>1. CASE u = t
        <5>1. rcounter'[t][l] = rcounter[t][l] - 1 /\ xcounter'[t][l] = xcounter[t][l]
          BY <1>1, <1>2, <1>5
        <5>2. rcounter[t][l] - 1 > 0 <=> rcounter[t][l] # 1
          BY <1>2, <1>4
        <5>3. QED  BY <1>2, <4>1, <5>1, <5>2
      <4>2. CASE u # t
        BY <1>1, <1>2, <1>5, <4>2
      <4>3. QED  BY <4>1, <4>2
    <3>2. \A u \in Thread : u \in Readers(k)' <=> u \in Readers(k) /\ ~ (last /\ u = t)
      BY <2>3, <3>1 DEF Readers
    <3>3. \A u : (u \in Readers(k)' => u \in Thread) /\ (u \in Readers(k) => u \in Thread)
      BY DEF Readers
    <3> HIDE DEF last
    <3>4. QED  BY <2>3, <3>2, <3>3
  <2>4. QED  BY <2>2, <2>3
<1>13. HolderOK'
  BY <1>1 DEF Inv2, HolderOK
<1>14. CountOK' /\ ReadersOK'
  <2>1. SUFFICES ASSUME NEW k \in Lock
                 PROVE  /\ readers'[k] = Cardinality(Readers(k)')
                        /\ IsFiniteSet(Readers(k)')
                        /\ holder'[k] # Nobody => readers'[k] = 0
    BY DEF CountOK, ReadersOK
  <2>2. /\ readers[k] = Cardinality(Readers(k)) /\ IsFiniteSet(Readers(k))
        /\ holder[k] # Nobody => readers[k] = 0
    BY DEF Inv2, CountOK, ReadersOK
  <2>3. CASE k = l /\ last
    <3>1. /\ IsFiniteSet(Readers(k) \ {t})
          /\ Cardinality(Readers(k) \ {t}) =
                IF t \in Readers(k) THEN Cardinality(Readers(k)) - 1 ELSE Cardinality(Readers(k))
      BY <2>2, FS_RemoveElement
    <3>2. t \in Readers(k) /\ Readers(k)' = Readers(k) \ {t} /\ readers'[k] = readers[k] - 1
          /\ holder'[k] = Nobody
      BY <1>1, <1>7, <1>10, <1>12, <2>3
    <3>3. QED  BY <2>2, <3>1, <3>2
  <2>4. CASE ~ (k = l /\ last)
    <3>1. Readers(k)' = Readers(k) /\ readers'[k] = readers[k]
      BY <1>10, <1>12, <2>4
    <3>2. QED  BY <1>1, <2>2, <3>1
  <2>5. QED  BY <2>3, <2>4
<1>15. SleepersOK'
  BY <1>1, <1>2, <1>9, SleepersStay
<1>16. WritersWoken'
  <2>1. SUFFICES ASSUME NEW k \in Lock, asleep'[k] # {}, holder[k] = Nobody, readers'[k] = 0
                 PROVE  \E u \in Thread : u \notin asleep'[k] /\ Entering(u)' /\ Next1(u)'.lock = k
    BY <1>1 DEF WritersWoken
  <2>2. asleep[k] # {}
    BY <1>9, <2>1
  <2>3. CASE k = l /\ last
    <3>1. CondSignal(l)
      BY <1>1, <1>4, <1>10, <2>1, <2>3
    <3>2. PICK w \in asleep[l] : w \notin asleep'[l]
      BY <1>9, <2>2, <2>3, <3>1
    <3>3. w \in Thread /\ Entering(w) /\ Next1(w).lock = l
      BY <1>2, <1>3 DEF Inv2, SleepersOK
    <3>4. QED  BY <1>1, <1>2, <2>3, <3>2, <3>3
  <2>4. CASE ~ (k = l /\ last)
    <3>1. readers[k] = 0
      BY <1>10, <2>1, <2>4
    <3>2. PICK u \in Thread : u \notin asleep[k] /\ Entering(u) /\ Next1(u).lock = k
      BY <2>1, <2>2, <3>1 DEF Inv2, WritersWoken
    <3>3. QED  BY <1>1, <1>2, <1>9, <3>2
  <2>5. QED  BY <2>3, <2>4
<1>17. QED  BY <1>2, <1>6, <1>11, <1>13, <1>14, <1>15, <1>16 DEF Inv2

LEMMA ExclusiveUnlockKeeps ==
    ASSUME Inv2, NEW t \in Thread, ExclusiveUnlock(t)
    PROVE  Inv2'
<1>0. PICK l : l = Last1(t).lock
  OBVIOUS
<1> DEFINE last == xcounter[t][l] = 1
<1>1. /\ Leaving(t, "x") /\ GivenUp(t) /\ ~ Entering(t)
      /\ xcounter' = [xcounter EXCEPT ![t][l] = @ - 1]
      /\ UNCHANGED <<build, readers, rcounter>>
      /\ last => holder' = [holder EXCEPT ![l] = Nobody] /\ CondSignal(l)
      /\ ~ last => holder' = holder /\ asleep' = asleep
  BY <1>0 DEF ExclusiveUnlock, Leaving
<1>2. /\ l \in Lock /\ xcounter[t][l] > 0 /\ (last => rcounter[t][l] = 0)
      /\ frames' \in [Thread -> Seq(SectionFrame)] /\ build' \in Builds
      /\ FramesOK'
      /\ \A u \in Thread : u # t => (Entering(u)' <=> Entering(u)) /\ Next1(u)' = Next1(u)
      /\ (\A u \in Thread, k \in Lock :
             LET less == IF u = t /\ k = l THEN 1 ELSE 0
             IN  /\ xcounter'[u][k] = xcounter[u][k] - (IF "x" = "x" THEN less ELSE 0)
                 /\ rcounter'[u][k] = rcounter[u][k] - (IF "x" = "r" THEN less ELSE 0))
         => LevelsOK'
  BY <1>0, <1>1, GivingFacts
<1>3. /\ xcounter \in [Thread -> [Lock -> Nat]] /\ rcounter \in [Thread -> [Lock -> Nat]]
      /\ readers \in [Lock -> Nat] /\ asleep \in [Lock -> SUBSET Thread]
      /\ holder \in [Lock -> Thread \cup {Nobody}]
  BY DEF Inv2, TypeOK
<1>4. xcounter[t][l] \in Nat /\ xcounter[t][l] - 1 \in Nat
  BY <1>2, <1>3
<1>5. /\ xcounter' \in [Thread -> [Lock -> Nat]]
      /\ \A u \in Thread, k \in Lock :
            xcounter'[u][k] = IF u = t /\ k = l THEN xcounter[u][k] - 1 ELSE xcounter[u][k]
  BY <1>1, <1>2, <1>3, <1>4
<1>6. LevelsOK'
  <2>1. \A u \in Thread, k \in Lock :
            xcounter[u][k] - 0 = xcounter[u][k] /\ rcounter[u][k] - 0 = rcounter[u][k]
    BY <1>3
  <2>2. "r" # "x"
    OBVIOUS
  <2>3. QED  BY <1>1, <1>2, <1>5, <2>1, <2>2
<1>7. holder[l] = t /\ t # Nobody
  BY <1>2, ResourceAssumption DEF Inv2, HolderOK
<1>8. /\ asleep' \in [Lock -> SUBSET Thread]
      /\ \A k \in Lock : asleep'[k] \subseteq asleep[k] /\ (k # l => asleep'[k] = asleep[k])
      /\ CondSignal(l) /\ asleep[l] # {} => \E w \in asleep[l] : w \notin asleep'[l]
  <2>1. CondSignal(l) \/ asleep' = asleep
    BY <1>1
  <2>2. QED  BY <1>2, <1>3, <2>1, SignalFacts
<1>9. /\ holder' \in [Lock -> Thread \cup {Nobody}]
      /\ \A k \in Lock : holder'[k] = IF last /\ k = l THEN Nobody ELSE holder[k]
  <2>1. CASE last
    BY <1>1, <1>2, <1>3, <2>1
  <2>2. CASE ~ last
    BY <1>1, <1>3, <2>2
  <2>3. QED  BY <2>1, <2>2
<1>10. TypeOK'
  BY <1>1, <1>2, <1>5, <1>8, <1>9 DEF Inv2, TypeOK
<1>11. \A k \in Lock : Readers(k)' = Readers(k)
  <2>1. SUFFICES ASSUME NEW k \in Lock PROVE Readers(k)' = Readers(k)
    OBVIOUS
  <2>2. ASSUME NEW u \in Thread
        PROVE  (rcounter'[u][k] > 0 /\ xcounter'[u][k] = 0) <=> (rcounter[u][k] > 0 /\ xcounter[u][k] = 0)
    <3>1. CASE u = t /\ k = l
      <4>1. xcounter'[u][k] = xcounter[t][l] - 1 /\ rcounter'[u][k] = rcounter[t][l]
        BY <1>1, <1>2, <1>5, <3>1
      <4>2. CASE last
        BY <1>2, <3>1, <4>1, <4>2
      <4>3. CASE ~ last
        BY <1>2, <1>4, <3>1, <4>1, <4>3
      <4>4. QED  BY <4>2, <4>3
    <3>2. CASE ~ (u = t /\ k = l)
      BY <1>1, <1>5, <3>2
    <3>3. QED  BY <3>1, <3>2
  <2>3. QED  BY <2>2 DEF Readers
<1>12. HolderOK'
  <2>1. SUFFICES ASSUME NEW u \in Thread, NEW k \in Lock
                 PROVE  holder'[k] = u <=> xcounter'[u][k] > 0
    BY DEF HolderOK
  <2>2. holder[k] = u <=> xcounter[u][k] > 0
    BY DEF Inv2, HolderOK
  <2>3. CASE k # l
    BY <1>5, <1>9, <2>2, <2>3
  <2>4. CASE k = l /\ u = t
    <3>1. xcounter'[u][k] = xcounter[t][l] - 1
      BY <1>5, <2>4
    <3>2. xcounter[t][l] - 1 > 0 <=> ~ last
      BY <1>2, <1>4
    <3>3. QED  BY <1>7, <1>9, <2>4, <3>1, <3>2
  <2>5. CASE k = l /\ u # t
    <3>1. ~ (xcounter'[u][k] > 0)
      BY <1>5, <1>7, <2>2, <2>5
    <3>2. holder'[k] # u
      BY <1>7, <1>9, <2>5, ResourceAssumption
    <3>3. QED  BY <3>1, <3>2
  <2>6. QED  BY <2>3, <2>4, <2>5
<1>13. CountOK' /\ ReadersOK'
  <2>1. SUFFICES ASSUME NEW k \in Lock
                 PROVE  /\ readers'[k] = Cardinality(Readers(k)')
                        /\ IsFiniteSet(Readers(k)')
                        /\ holder'[k] # Nobody => readers'[k] = 0
    BY DEF CountOK, ReadersOK
  <2>2. /\ readers[k] = Cardinality(Readers(k)) /\ IsFiniteSet(Readers(k))
        /\ holder[k] # Nobody => readers[k] = 0
    BY DEF Inv2, CountOK, ReadersOK
  <2>3. QED  BY <1>1, <1>9, <1>11, <2>2
<1>14. SleepersOK'
  BY <1>1, <1>2, <1>5, <1>8, SleepersStay
<1>15. WritersWoken'
  <2>1. SUFFICES ASSUME NEW k \in Lock, asleep'[k] # {}, holder'[k] = Nobody, readers[k] = 0
                 PROVE  \E u \in Thread : u \notin asleep'[k] /\ Entering(u)' /\ Next1(u)'.lock = k
    BY <1>1 DEF WritersWoken
  <2>2. asleep[k] # {}
    BY <1>8, <2>1
  <2>3. CASE k = l
    <3>1. CondSignal(l)
      BY <1>1, <1>7, <1>9, <2>1, <2>3
    <3>2. PICK w \in asleep[l] : w \notin asleep'[l]
      BY <1>8, <2>2, <2>3, <3>1
    <3>3. w \in Thread /\ Entering(w) /\ Next1(w).lock = l
      BY <1>2, <1>3 DEF Inv2, SleepersOK
    <3>4. QED  BY <1>1, <1>2, <2>3, <3>2, <3>3
  <2>4. CASE k # l
    <3>1. holder[k] = Nobody
      BY <1>9, <2>1, <2>4
    <3>2. PICK u \in Thread : u \notin asleep[k] /\ Entering(u) /\ Next1(u).lock = k
      BY <2>1, <2>2, <3>1 DEF Inv2, WritersWoken
    <3>3. QED  BY <1>1, <1>2, <1>8, <3>2
  <2>5. QED  BY <2>3, <2>4
<1>16. QED  BY <1>2, <1>6, <1>10, <1>12, <1>13, <1>14, <1>15 DEF Inv2

-----------------------------------------------------------------------------

LEMMA InitHolds == Init => Inv2
<1> SUFFICES ASSUME Init PROVE Inv2
  OBVIOUS
<1>1. TypeOK
  <2>1. <<>> \in Seq(SectionFrame)
    BY EmptySeq
  <2>2. QED  BY <2>1 DEF Init, TypeOK
<1>2. \A t \in Thread : frames[t] = <<>> /\ ~ Entering(t)
  BY DEF Init, Entering
<1>3. \A t \in Thread : \A l, m : Held(frames[t], l, m) = {}
  BY <1>2 DEF Held
<1>4. \A l \in Lock : Readers(l) = {}
  BY DEF Init, Readers
<1>5. FramesOK
  BY <1>2 DEF FramesOK, Nested
<1>6. LevelsOK
  BY <1>3, FS_EmptySet DEF Init, LevelsOK
<1>7. CountOK /\ ReadersOK
  BY <1>4, FS_EmptySet DEF Init, CountOK, ReadersOK
<1>8. HolderOK
  BY ResourceAssumption DEF Init, HolderOK
<1>9. SleepersOK /\ WritersWoken
  BY DEF Init, SleepersOK, WritersWoken
<1>10. QED  BY <1>1, <1>5, <1>6, <1>7, <1>8, <1>9 DEF Inv2

LEMMA NextKeeps == Inv2 /\ [Next]_vars => Inv2'
<1> SUFFICES ASSUME Inv2, [Next]_vars PROVE Inv2'
  OBVIOUS
<1>1. ASSUME NEW t \in Thread, NEW s \in Sections, Enter(t, s) PROVE Inv2'
  BY <1>1, EnterKeeps
<1>2. ASSUME NEW t \in Thread, ReadLock(t) PROVE Inv2'
  BY <1>2, ReadLockKeeps
<1>3. ASSUME NEW t \in Thread, ExclusiveLock(t) PROVE Inv2'
  BY <1>3, ExclusiveLockKeeps
<1>4. ASSUME NEW t \in Thread, WakeUnsignalled(t) PROVE Inv2'
  BY <1>4, WakeKeeps
<1>5. ASSUME NEW t \in Thread, ReadUnlock(t) PROVE Inv2'
  BY <1>5, ReadUnlockKeeps
<1>6. ASSUME NEW t \in Thread, ExclusiveUnlock(t) PROVE Inv2'
  BY <1>6, ExclusiveUnlockKeeps
<1>7. CASE UNCHANGED vars
  <2>1. build' = build /\ frames' = frames
        /\ UNCHANGED <<holder, readers, asleep, xcounter, rcounter>>
    BY <1>7 DEF vars
  <2>2. TypeOK' <=> TypeOK
    BY ONLY <2>1 DEF TypeOK
  <2>3. FramesOK' <=> FramesOK
    BY ONLY <2>1 DEF FramesOK, Nested, FrameOK, Covered, Plan
  <2>4. LevelsOK' <=> LevelsOK
    BY ONLY <2>1 DEF LevelsOK, Held, Plan
  <2>5. (HolderOK' <=> HolderOK) /\ (CountOK' <=> CountOK) /\ (ReadersOK' <=> ReadersOK)
    BY ONLY <2>1 DEF HolderOK, CountOK, ReadersOK, Readers
  <2>6. SleepersOK' <=> SleepersOK
    BY ONLY <2>1 DEF SleepersOK, Entering, Next1, Innermost, Plan
  <2>7. WritersWoken' <=> WritersWoken
    BY ONLY <2>1 DEF WritersWoken, Entering, Next1, Innermost, Plan
  <2>8. QED  BY <2>2, <2>3, <2>4, <2>5, <2>6, <2>7 DEF Inv2
<1>8. QED  BY <1>1, <1>2, <1>3, <1>4, <1>5, <1>6, <1>7 DEF Next

\* In every reachable state the counters of the macros agree with the sections
\* the threads are in, writers alone keep a mutex, and a sleeper waits for it.
THEOREM Invariance == Spec => []IndInv
<1>1. Inv2 => IndInv
  BY InvForms
<1>2. QED  BY <1>1, InitHolds, NextKeeps, PTL DEF Spec

-----------------------------------------------------------------------------
\* What follows from the invariant.

\* The counters of the macros describe the sections the threads are in, at any
\* depth of nesting: readers_count is the number of threads that only read, and
\* exactly the thread with an exclusive count keeps the mutex.
THEOREM CountersAlwaysAgree == Spec => []CountersAgree
<1>1. IndInv => CountersAgree
  BY DEF IndInv
<1>2. QED  BY <1>1, Invariance, PTL

\* A writer asleep at a lock that is free is never forgotten.
THEOREM WritersAreWoken == Spec => []WritersWoken
<1>1. IndInv => WritersWoken
  BY DEF IndInv
<1>2. QED  BY <1>1, Invariance, PTL

\* Two sections that exclude each other over a resource take the same lock, and
\* one of them exclusively.
LEMMA Conflict ==
    ASSUME build \in Builds, NEW s \in Sections, NEW s2 \in Sections,
           NEW r \in (IF build = "separate" THEN Resource ELSE {"gen", "env"}),
           s[r] = "x", s2[r] # "-"
    PROVE  \E l \in Lock, i \in 1 .. Len(Plan(s)), j \in 1 .. Len(Plan(s2)) :
               Plan(s)[i] = [lock |-> l, mode |-> "x"] /\ Plan(s2)[j].lock = l
<1>1. /\ build \in {"repurposed", "separate"} /\ r \in Resource
      /\ s \in [Resource -> Need] /\ s2 \in [Resource -> Need]
  BY ResourceAssumption DEF Resource
<1>2. \/ OuterNeed(s) = "x" /\ OuterNeed(s2) # "-"
      \/ InnerNeed(s) = "x" /\ InnerNeed(s2) # "-"
  <2>1. CASE build = "repurposed"
    <3>1. r = "gen" \/ r = "env"
      BY <2>1
    <3>2. CASE r = "gen"
      BY <1>1, <2>1, <3>2 DEF OuterNeed, Strongest, Need
    <3>3. CASE r = "env"
      BY <2>1, <3>3 DEF InnerNeed
    <3>4. QED  BY <3>1, <3>2, <3>3
  <2>2. CASE build = "separate"
    <3>1. r = "gen" \/ r = "env" \/ r = "lc"
      BY <1>1 DEF Resource
    <3>2. s2["gen"] \in Need /\ s2["env"] \in Need
      BY <1>1 DEF Resource
    <3>3. CASE r = "gen" \/ r = "env"
      BY <2>2, <3>2, <3>3 DEF OuterNeed, Strongest, Need
    <3>4. CASE r = "lc"
      BY <2>2, <3>4 DEF InnerNeed
    <3>5. QED  BY <3>1, <3>3, <3>4
  <2>3. QED  BY <1>1, <2>1, <2>2
\* A need of the outer or the inner lock is met by a step of the plan.
<1>3. ASSUME NEW z \in Sections
      PROVE  /\ OuterNeed(z) # "-" => \E i \in 1 .. Len(Plan(z)) :
                    Plan(z)[i] = [lock |-> Outer, mode |-> OuterNeed(z)]
             /\ InnerNeed(z) # "-" => \E i \in 1 .. Len(Plan(z)) :
                    Plan(z)[i] = [lock |-> Inner, mode |-> InnerNeed(z)]
  <2> DEFINE a == [lock |-> Outer, mode |-> OuterNeed(z)]
             b == [lock |-> Inner, mode |-> InnerNeed(z)]
  <2>1. Plan(z) = IF OuterNeed(z) = "-" THEN IF InnerNeed(z) = "-" THEN <<>> ELSE <<b>>
                  ELSE IF InnerNeed(z) = "-" THEN <<a>> ELSE <<a, b>>
    BY PlanFacts
  <2> HIDE DEF a, b
  <2>2. OuterNeed(z) # "-" => \E i \in 1 .. Len(Plan(z)) : Plan(z)[i] = a
    <3>1. CASE InnerNeed(z) = "-"
      BY <2>1, <3>1
    <3>2. CASE InnerNeed(z) # "-"
      BY <2>1, <3>2
    <3>3. QED  BY <3>1, <3>2
  <2>3. InnerNeed(z) # "-" => \E i \in 1 .. Len(Plan(z)) : Plan(z)[i] = b
    <3>1. CASE OuterNeed(z) = "-"
      BY <2>1, <3>1
    <3>2. CASE OuterNeed(z) # "-"
      BY <2>1, <3>2
    <3>3. QED  BY <3>1, <3>2
  <2>4. QED  BY <2>2, <2>3 DEF a, b
<1>4. Outer \in Lock /\ Inner \in Lock
  BY PlanFacts
<1>5. CASE OuterNeed(s) = "x" /\ OuterNeed(s2) # "-"
  <2>1. PICK i \in 1 .. Len(Plan(s)) : Plan(s)[i] = [lock |-> Outer, mode |-> "x"]
    BY <1>3, <1>5
  <2>2. PICK j \in 1 .. Len(Plan(s2)) : Plan(s2)[j] = [lock |-> Outer, mode |-> OuterNeed(s2)]
    BY <1>3, <1>5
  <2>3. QED  BY <1>4, <2>1, <2>2
<1>6. CASE InnerNeed(s) = "x" /\ InnerNeed(s2) # "-"
  <2>1. PICK i \in 1 .. Len(Plan(s)) : Plan(s)[i] = [lock |-> Inner, mode |-> "x"]
    BY <1>3, <1>6
  <2>2. PICK j \in 1 .. Len(Plan(s2)) : Plan(s2)[j] = [lock |-> Inner, mode |-> InnerNeed(s2)]
    BY <1>3, <1>6
  <2>3. QED  BY <1>4, <2>1, <2>2
<1>7. QED  BY <1>2, <1>5, <1>6

\* A thread inside a section has the locks the section takes.
LEMMA InsideHolds ==
    ASSUME Inv2, NEW t \in Thread, NEW s \in Inside(t), NEW i \in 1 .. Len(Plan(s))
    PROVE  /\ s \in Sections /\ Plan(s)[i].lock \in Lock
           /\ Plan(s)[i].mode = "x" => xcounter[t][Plan(s)[i].lock] > 0
           /\ xcounter[t][Plan(s)[i].lock] > 0 \/ rcounter[t][Plan(s)[i].lock] > 0
<1> DEFINE o == frames[t]
           l == Plan(s)[i].lock
           m == Plan(s)[i].mode
<1>1. o \in Seq(SectionFrame) /\ Nested(o) /\ build \in Builds
  BY DEF Inv2, TypeOK, FramesOK
<1>2. PICK k \in DOMAIN o : o[k].section = s /\ o[k].taken = Len(Plan(s))
  BY DEF Inside
<1>3. k \in 1 .. Len(o)
  BY <1>1, <1>2, LenProperties
<1>4. s \in Sections
  BY <1>1, <1>2, <1>3, FrameFacts
<1>5. l \in Lock /\ m \in {"r", "x"} /\ Plan(s)[i] = [lock |-> l, mode |-> m]
      /\ i \in 1 .. 2 /\ i <= Len(Plan(s))
  <2>1. /\ Plan(s)[i].lock \in Lock /\ Plan(s)[i].mode \in {"r", "x"}
        /\ Plan(s)[i] = [lock |-> Plan(s)[i].lock, mode |-> Plan(s)[i].mode]
    BY <1>1, <1>4, PlanSteps
  <2>2. Len(Plan(s)) \in 0 .. 2
    BY <1>1, <1>4, PlanSteps
  <2>3. i \in 1 .. 2 /\ i <= Len(Plan(s))
    <3> DEFINE n == Len(Plan(s))
    <3>1. i \in 1 .. n /\ n \in 0 .. 2
      BY <2>2
    <3> HIDE DEF n
    <3>2. i \in 1 .. 2 /\ i <= n
      BY ONLY <3>1
    <3>3. QED  BY <3>2 DEF n
  <2>4. QED  BY <2>1, <2>3
<1>6. <<k, i>> \in Held(o, l, m)
  BY <1>2, <1>3, <1>5 DEF Held
<1>7. Cardinality(Held(o, l, m)) \in Nat /\ Cardinality(Held(o, l, m)) # 0
  BY <1>1, <1>6, HeldFinite
<1>8. /\ xcounter[t][l] = Cardinality(Held(o, l, "x"))
      /\ rcounter[t][l] = Cardinality(Held(o, l, "r"))
  BY <1>5 DEF Inv2, LevelsOK
<1>9. (m = "x" => xcounter[t][l] > 0) /\ (m = "r" => rcounter[t][l] > 0)
  BY <1>7, <1>8
<1>10. QED  BY <1>4, <1>5, <1>9

\* While a thread is in a section that writes the generic resource or the
\* environment, no other one is in a section that uses it, in either kind of
\* build; and the same for the locale in the build that has a lock for it.  In
\* the other build two sections that write the locale can overlap.
THEOREM SectionsAlwaysExclude == Spec => []SectionsExclude
<1>1. Inv2 => SectionsExclude
  <2>1. SUFFICES ASSUME Inv2, NEW t \in Thread, NEW u \in Thread, t # u,
                        NEW s \in Inside(t), NEW s2 \in Inside(u),
                        NEW r \in (IF build = "separate" THEN Resource ELSE {"gen", "env"}),
                        Excludes(s[r], s2[r])
                 PROVE  FALSE
    BY DEF SectionsExclude, Apart
  <2>2. build \in Builds
    BY <2>1 DEF Inv2, TypeOK
  <2>3. s \in Sections /\ s2 \in Sections
    <3>1. \A v \in Thread : \A z \in Inside(v) : z \in Sections
      <4>1. SUFFICES ASSUME NEW v \in Thread, NEW z \in Inside(v) PROVE z \in Sections
        OBVIOUS
      <4>2. frames[v] \in Seq(SectionFrame)
        BY <2>1 DEF Inv2, TypeOK
      <4>3. PICK k \in DOMAIN frames[v] : frames[v][k].section = z
        BY DEF Inside
      <4>4. k \in 1 .. Len(frames[v])
        BY <4>2, <4>3, LenProperties
      <4>5. QED  BY <2>2, <4>2, <4>3, <4>4, FrameFacts
    <3>2. QED  BY <3>1
  <2>4. ASSUME NEW v \in Thread, NEW w \in Thread, v # w, NEW a \in Inside(v), NEW b \in Inside(w),
               a \in Sections, b \in Sections, a[r] = "x", b[r] # "-"
        PROVE  FALSE
    <3>1. PICK l \in Lock, i \in 1 .. Len(Plan(a)), j \in 1 .. Len(Plan(b)) :
              Plan(a)[i] = [lock |-> l, mode |-> "x"] /\ Plan(b)[j].lock = l
      BY <2>2, <2>4, Conflict
    <3>2. xcounter[v][l] > 0
      BY <2>1, <3>1, InsideHolds
    <3>3. xcounter[w][l] > 0 \/ rcounter[w][l] > 0
      BY <2>1, <3>1, InsideHolds
    <3>4. xcounter[w][l] = 0 /\ rcounter[w][l] = 0
      BY <2>1, <2>4, <3>2, Alone DEF Inv2
    <3>5. QED  BY <3>3, <3>4
  <2>5. (s[r] = "x" /\ s2[r] # "-") \/ (s2[r] = "x" /\ s[r] # "-")
    BY <2>1 DEF Excludes
  <2>6. QED  BY <2>1, <2>3, <2>4, <2>5
<1>2. QED  BY <1>1, InvForms, Invariance, PTL

\* A thread that waits is in one section only, and has of its locks at most the
\* outer one.
LEMMA WaitersAreOuter ==
    ASSUME Inv2, NEW t \in Thread, NEW u \in Thread, WaitsFor(t, u)
    PROVE  /\ Len(frames[t]) = 1
           /\ \A l \in Lock : (xcounter[t][l] > 0 \/ rcounter[t][l] > 0) =>
                 l = Outer /\ Next1(t).lock = Inner
           /\ Next1(t).lock \in Lock
           /\ xcounter[u][Next1(t).lock] > 0 \/ rcounter[u][Next1(t).lock] > 0
<1> DEFINE o == frames[t]
           N == Len(o)
           f == o[N]
           n == Len(Plan(f.section))
           k == f.taken
           s == Next1(t)
           l == s.lock
<1>1. /\ o \in Seq(SectionFrame) /\ Nested(o) /\ build \in Builds /\ o # <<>> /\ ToTake(f)
      /\ Entering(t) /\ s = Plan(f.section)[k + 1] /\ t # u
  BY EnteringFacts DEF WaitsFor, Inv2, TypeOK, FramesOK, Next1, Innermost
<1>2. /\ N \in 1 .. Len(o) /\ N \in Nat \ {0} /\ DOMAIN o = 1 .. N
      /\ f.section \in Sections /\ k \in {0, 1, 2} /\ n \in 0 .. 2
  <2>1. N \in Nat \ {0} /\ N \in 1 .. Len(o)
    BY <1>1, EmptySeq
  <2>2. QED  BY <1>1, <2>1, FrameFacts
<1>3. s \in Step /\ l \in Lock /\ s = [lock |-> l, mode |-> s.mode]
  <2>1. s \in Step
    <3> HIDE DEF o
    <3>1. Plan(o[Len(o)].section)[o[Len(o)].taken + 1] \in Step
      BY <1>1, TakeFacts
    <3>2. QED  BY <1>1, <3>1
  <2>2. QED  BY <2>1 DEF Step
<1>4. holder[l] = u \/ (s.mode = "x" /\ rcounter[u][l] > 0)
  BY DEF WaitsFor
<1>5. xcounter[u][l] > 0 \/ rcounter[u][l] > 0
  BY <1>3, <1>4 DEF Inv2, HolderOK
<1>6. N = 1
  <2>1. SUFFICES ASSUME N > 1 PROVE FALSE
    <3>1. N \in Nat \ {0}
      BY <1>2
    <3> HIDE DEF N
    <3>2. QED  BY <3>1
  <2>2. k + 1 \in DOMAIN Plan(f.section)
    <3>1. k < n /\ DOMAIN Plan(f.section) = 1 .. n
      BY <1>1, <1>2, FrameFacts DEF ToTake
    <3>2. k \in {0, 1, 2} /\ n \in 0 .. 2
      BY <1>2
    <3> HIDE DEF k, n
    <3>3. k + 1 \in 1 .. n
      BY <3>1, <3>2
    <3>4. QED  BY <3>1, <3>3
  <2>3. Covered(s, o, N)
    BY <1>1, <1>2, <2>1, <2>2 DEF Nested
  <2>4. PICK j \in 1 .. N - 1 : \E h \in DOMAIN Plan(o[j].section) :
            /\ Plan(o[j].section)[h].lock = l
            /\ s.mode = "x" => Plan(o[j].section)[h].mode = "x"
    BY <2>3 DEF Covered
  <2>5. PICK h \in DOMAIN Plan(o[j].section) :
            /\ Plan(o[j].section)[h].lock = l
            /\ s.mode = "x" => Plan(o[j].section)[h].mode = "x"
    BY <2>4
  <2>6. j \in 1 .. N /\ j < N
    BY <1>2
  <2>7. ~ o[j].leaving /\ o[j].taken = Len(Plan(o[j].section)) /\ j \in DOMAIN o
    BY <1>1, <1>2, <2>6 DEF Nested
  <2>8. o[j].section \in Inside(t)
    BY <2>7 DEF Inside
  <2>9. h \in 1 .. Len(Plan(o[j].section))
    BY <1>1, <2>6, FrameFacts
  <2>10. /\ s.mode = "x" => xcounter[t][l] > 0
         /\ xcounter[t][l] > 0 \/ rcounter[t][l] > 0
    BY <2>5, <2>8, <2>9, InsideHolds
  <2>11. xcounter[t][l] \in Nat /\ rcounter[t][l] \in Nat
    BY <1>3 DEF Inv2, TypeOK
  <2>12. CASE xcounter[t][l] > 0
    <3>1. TypeOK /\ HolderOK /\ CountOK /\ ReadersOK
      BY DEF Inv2
    <3>2. xcounter[u][l] = 0 /\ rcounter[u][l] = 0
      BY ONLY <1>1, <1>3, <2>12, <3>1, Alone, t \in Thread, u \in Thread
    <3>3. QED  BY <1>5, <3>2
  <2>13. CASE ~ (xcounter[t][l] > 0)
    <3>1. rcounter[t][l] > 0 /\ xcounter[t][l] = 0 /\ holder[l] = u
      BY <1>4, <2>10, <2>11, <2>13
    <3>2. t \in Readers(l)
      BY <3>1 DEF Readers
    <3>3. holder[l] # Nobody
      BY <3>1, ResourceAssumption
    <3>4. QED  BY <1>3, <3>2, <3>3, Alone DEF Inv2
  <2>14. QED  BY <2>12, <2>13
<1>7. ASSUME NEW j \in Lock, xcounter[t][j] > 0 \/ rcounter[t][j] > 0
      PROVE  j = Outer /\ l = Inner
  <2>1. /\ xcounter[t][j] = Cardinality(Held(o, j, "x"))
        /\ rcounter[t][j] = Cardinality(Held(o, j, "r"))
    BY DEF Inv2, LevelsOK
  <2>2. PICK m \in {"r", "x"} : Held(o, j, m) # {}
    BY <1>1, <1>7, <2>1, HeldFinite
  <2>3. PICK p : p \in Held(o, j, m)
    BY <2>2
  <2>4. /\ p[1] = N /\ p[2] \in 1 .. 2 /\ p[2] <= k
        /\ Plan(f.section)[p[2]] = [lock |-> j, mode |-> m]
    <3>1. p[1] \in 1 .. N /\ p[2] \in 1 .. 2 /\ p[2] <= o[p[1]].taken
          /\ Plan(o[p[1]].section)[p[2]] = [lock |-> j, mode |-> m]
      BY <1>2, <2>3 DEF Held
    <3>2. p[1] = N
      BY <1>6, <3>1
    <3>3. QED  BY <3>1, <3>2
  <2>5. k < n
    BY <1>1 DEF ToTake
  <2>6. p[2] = 1 /\ k = 1 /\ n = 2
    <3> DEFINE q == p[2]
    <3>1. q \in 1 .. 2 /\ q <= k /\ k < n /\ k \in {0, 1, 2} /\ n \in 0 .. 2
      BY <1>2, <2>4, <2>5
    <3> HIDE DEF q, k, n
    <3>2. q = 1 /\ k = 1 /\ n = 2
      BY ONLY <3>1
    <3>3. QED  BY <3>2 DEF q
  <2>7. Plan(f.section)[1].lock = Outer /\ Plan(f.section)[2].lock = Inner
    BY <1>1, <1>2, <2>6, PlanSteps
  <2>8. QED  BY <1>1, <2>4, <2>6, <2>7
<1>8. QED  BY <1>3, <1>5, <1>6, <1>7

\* "This prevents deadlock": threads never wait for one another in a circle.
THEOREM NoCircularWaits == Spec => []NoCircularWait
<1>1. Inv2 => NoCircularWait
  <2>1. SUFFICES ASSUME Inv2, NEW S \in (SUBSET Thread) \ {{}},
                        \A t \in S : \E u \in S : WaitsFor(t, u)
                 PROVE  FALSE
    BY DEF NoCircularWait
  <2>2. PICK t \in S : TRUE
    OBVIOUS
  <2>3. PICK u \in S : WaitsFor(t, u)
    BY <2>1
  <2>4. PICK w \in S : WaitsFor(u, w)
    BY <2>1
  <2>5. PICK v \in S : WaitsFor(w, v)
    BY <2>1
  <2>6. t \in Thread /\ u \in Thread /\ w \in Thread /\ v \in Thread
    OBVIOUS
  <2>7. Next1(t).lock \in Lock /\ Next1(u).lock \in Lock
    BY <2>1, <2>3, <2>4, <2>6, WaitersAreOuter
  <2>8. Next1(u).lock = Inner
    <3>1. xcounter[u][Next1(t).lock] > 0 \/ rcounter[u][Next1(t).lock] > 0
      BY <2>1, <2>3, <2>6, WaitersAreOuter
    <3>2. QED  BY <2>1, <2>4, <2>6, <2>7, <3>1, WaitersAreOuter
  <2>9. Next1(u).lock = Outer
    <3>1. xcounter[w][Next1(u).lock] > 0 \/ rcounter[w][Next1(u).lock] > 0
      BY <2>1, <2>4, <2>6, WaitersAreOuter
    <3>2. QED  BY <2>1, <2>5, <2>6, <2>7, <3>1, WaitersAreOuter
  <2>10. Outer # Inner
    BY DEF Outer, Inner
  <2>11. QED  BY <2>8, <2>9, <2>10
<1>2. QED  BY <1>1, InvForms, Invariance, PTL
=============================================================================
