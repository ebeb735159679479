-------------------------- MODULE ThreadLifecycleProofs --------------------------
(***************************************************************************)
(* What the threads module keeps true, for any number of threads, any      *)
(* interpreters that create and list them, and any nesting of the frees    *)
(* that one free sets off.                                                 *)
(*                                                                         *)
(* A step changes the record of one thread, the calls of one interpreter   *)
(* and how many calls there are on that one thread.  So the invariant is   *)
(* put together from what holds of a record and its numbers (Sound), of    *)
(* the calls of an interpreter (Settled), and of the pool.                 *)
(***************************************************************************)
EXTENDS ThreadLifecycleProperties, FiniteSetTheorems, SequenceTheorems, TLAPS

\* A creation may fail, which sets the count of the record to one whoever has
\* an object of it (threads.xs:1154), only if nobody else lists threads.
RefusalUnseen == Refused = {} \/ \A u \in Creators, w \in Listers : u = w

\* The calls an interpreter is in for the sake of one record: it begins them
\* from Perl code.
Base == {"start", "take", "join_count", "join_wait", "detach_free"}

\* The calls that will give one back to the count.
Claiming == {"release", "join_count", "join_wait", "detach_free"}

Call == [pc : Places, on : Ithread]

\* At(t, pcs), of any calls o.
PlacesOf(o, t, pcs) ==
    UNION {{<<u, i>> : i \in {j \in 1 .. Len(o[u]) : o[u][j].on = t /\ o[u][j].pc \in pcs}} :
             u \in Interp}
Num(o, t, pcs) == Cardinality(PlacesOf(o, t, pcs))

\* How many calls there are on t.
TallyOf(o, t) ==
    [start |-> Num(o, t, {"start"}),
     take |-> Num(o, t, {"take"}),
     claim |-> Num(o, t, Claiming),
     join |-> Num(o, t, {"join_count"}),
     ends |-> Num(o, t, {"unlink", "free"}),
     free |-> Num(o, t, {"free"}),
     uncount |-> Num(o, t, {"uncount"}),
     clear |-> Num(o, t, {"clear"})]

Numbers == [start : Nat, take : Nat, claim : Nat, join : Nat,
            ends : Nat, free : Nat, uncount : Nat, clear : Nat]

One(c) == IF c THEN 1 ELSE 0

\* Of the record r of a thread, whose OS thread is at s, that h interpreters
\* have objects of, with c calls on it.
Before(s, h, c) ==
    /\ s = "none" /\ h = 0
    /\ c = [start |-> 0, take |-> 0, claim |-> 0, join |-> 0,
            ends |-> 0, free |-> 0, uncount |-> 0, clear |-> 0]

\* The record was made.
Made(r) == r.interp # "none"

Unclaimed(r) == r.state \cap {"DETACHED", "JOINED"} = {}

\* The count of the record, which ends when it is zero, once.
CountSound(r, s, h, c) ==
    /\ Made(r) =>
          r.count = h + One(s \in {"running", "finished"}) + One(Unclaimed(r)) + c.claim + 2 * c.start
    /\ c.ends = One(Made(r) /\ r.count = 0 /\ ~ r.freed)
    /\ c.uncount <= One(r.freed)
    /\ r.freed => r.count = 0 /\ ~ r.listed
    /\ c.free <= c.ends
    /\ c.free > 0 => ~ r.listed

\* A thread starts once, and is claimed when it has started or is about to.
Launched(s, c) == s # "none" \/ c.start > 0
StartSound(r, s, c) ==
    /\ c.start <= 1
    /\ c.start > 0 => s = "none"
    /\ Made(r) /\ Unclaimed(r) => Launched(s, c)
    /\ "FINISHED" \in r.state => s # "running" /\ c.start = 0

\* One joiner counts the thread off; whoever makes an object in list sees a
\* thread that is not claimed, or whose joiner waits for the pool's mutex.
JoinSound(r, s, c) ==
    /\ c.join <= 1 /\ c.join <= c.claim
    /\ c.join > 0 => "JOINED" \in r.state /\ Launched(s, c)
    /\ c.take > 0 => Made(r) /\ (Unclaimed(r) \/ c.join > 0)

\* The interpreter goes only if the thread ended well or nobody is left to ask.
ClearSound(r, c) ==
    c.clear > 0 \/ r.interp = "gone" =>
        r.count = 0 \/ ("FINISHED" \in r.state /\ "DIED" \notin r.state)

\* Nobody sees a thread whose creation may still fail.
Hidden(r, h, c) == c.start > 0 => r.state = {} /\ h = 0 /\ c.claim = 0 /\ c.take = 0

Sound(r, s, h, c, refusable) ==
    /\ ~ Made(r) => r = Unborn /\ Before(s, h, c)
    /\ CountSound(r, s, h, c)
    /\ StartSound(r, s, c)
    /\ JoinSound(r, s, c)
    /\ ClearSound(r, c)
    /\ refusable => Hidden(r, h, c)

\* The calls of one interpreter: those from Perl code are alone, and an
\* interpreter is cleared on the way to a release or to the end of its record.
Nested(calls) ==
    \A i \in 1 .. Len(calls) :
        /\ calls[i].pc \in Base => Len(calls) = 1
        /\ calls[i].pc \in {"clear", "destruct"} =>
               /\ i > 1
               /\ calls[i - 1].on = calls[i].on
               /\ calls[i - 1].pc \in {"release", "free"}

\* Of interpreter u with its calls and objects, when mutex is poolMutex.
Settled(u, calls, mine, mutex) ==
    /\ Nested(calls)
    /\ \A i \in 1 .. Len(calls) :
          /\ calls[i].pc = "take" => mutex = u /\ calls[i].on \notin mine
          /\ calls[i].pc = "start" => u \in Creators /\ calls[i].on \notin mine

Holders(t) == {u \in Interp : t \in objs[u]}

\* An interpreter that has not begun, or has ended, is in no call.
Quiet(t) ==
    /\ rec[t] = Unborn => objs[t] = {}
    /\ os[t] \in {"none", "finished"} => op[t] = <<>>

Finite ==
    /\ IsFiniteSet(Known)
    /\ \A t \in Ithread : IsFiniteSet(Holders(t)) /\ IsFiniteSet(PlacesOf(op, t, Places))

LifecycleInv ==
    /\ TypeOK
    /\ Finite
    /\ \A t \in Ithread :
          /\ Sound(rec[t], os[t], Cardinality(Holders(t)), TallyOf(op, t), t \in Refused)
          /\ Quiet(t)
    /\ \A u \in Interp : Settled(u, op[u], objs[u], poolMutex)
    /\ CountersAgree

-----------------------------------------------------------------------------
\* The calls on a thread, counted.

LEMMA PlaceIn ==
    ASSUME NEW o, NEW t, NEW pcs, NEW u, NEW i
    PROVE  <<u, i>> \in PlacesOf(o, t, pcs) <=>
               u \in Interp /\ i \in 1 .. Len(o[u]) /\ o[u][i].on = t /\ o[u][i].pc \in pcs
BY DEF PlacesOf

LEMMA PlacesArePairs ==
    ASSUME NEW o, NEW t, NEW pcs, NEW p \in PlacesOf(o, t, pcs)
    PROVE  p = <<p[1], p[2]>>
BY DEF PlacesOf

LEMMA SamePlaces ==
    ASSUME NEW o, NEW t, NEW pcs, NEW B,
           \A p \in B : p = <<p[1], p[2]>>,
           \A u, i : <<u, i>> \in PlacesOf(o, t, pcs) <=> <<u, i>> \in B
    PROVE  PlacesOf(o, t, pcs) = B
<1> DEFINE A == PlacesOf(o, t, pcs)
<1>1. \A p \in A : p = <<p[1], p[2]>>
  BY PlacesArePairs
<1>2. \A u, i : <<u, i>> \in A <=> <<u, i>> \in B
  OBVIOUS
<1> HIDE DEF A
<1>3. \A p : p \in A <=> p \in B
  BY <1>1, <1>2
<1>4. A = B
  BY <1>3
<1>5. QED  BY <1>4 DEF A

Operations == [Interp -> Seq(Call)]

AllFinite(o) == \A t \in Ithread : IsFiniteSet(PlacesOf(o, t, Places))

LEMMA NumFacts ==
    ASSUME NEW o, AllFinite(o), NEW t \in Ithread, NEW pcs \in SUBSET Places
    PROVE  /\ IsFiniteSet(PlacesOf(o, t, pcs))
           /\ Num(o, t, pcs) \in Nat
           /\ Num(o, t, pcs) = 0 <=> PlacesOf(o, t, pcs) = {}
<1>1. PlacesOf(o, t, pcs) \subseteq PlacesOf(o, t, Places)
  BY DEF PlacesOf
<1>2. IsFiniteSet(PlacesOf(o, t, pcs))
  BY <1>1, FS_Subset DEF AllFinite
<1>3. QED  BY <1>2, FS_CardinalityType, FS_EmptySet DEF Num

LEMMA TallyFacts ==
    ASSUME NEW o, AllFinite(o), NEW t \in Ithread
    PROVE  TallyOf(o, t) \in Numbers
<1>1. /\ Claiming \in SUBSET Places
      /\ \A x \in Places : {x} \in SUBSET Places
      /\ {"unlink", "free"} \in SUBSET Places
      /\ {"start", "take", "join_count", "free", "uncount", "clear"} \subseteq Places
  BY DEF Claiming, Places
<1>2. \A pcs \in SUBSET Places : Num(o, t, pcs) \in Nat
  BY NumFacts
<1>3. /\ Num(o, t, {"start"}) \in Nat /\ Num(o, t, {"take"}) \in Nat /\ Num(o, t, Claiming) \in Nat
      /\ Num(o, t, {"join_count"}) \in Nat /\ Num(o, t, {"unlink", "free"}) \in Nat
      /\ Num(o, t, {"free"}) \in Nat /\ Num(o, t, {"uncount"}) \in Nat /\ Num(o, t, {"clear"}) \in Nat
  BY <1>1, <1>2
<1>4. QED  BY <1>3 DEF TallyOf, Numbers

\* Whether call f is one of those counted.
Hit(f, t, pcs) == One(f.on = t /\ f.pc \in pcs)

\* What becomes of the calls of u: f is called, the innermost returns, it becomes
\* f, it becomes f with g inside.
PushOn(o, u, f) == [o EXCEPT ![u] = Append(@, f)]
PopOn(o, u) == [o EXCEPT ![u] = Outer(@)]
BecomeOn(o, u, f) == [o EXCEPT ![u] = Append(Outer(@), f)]
BothOn(o, u, f, g) == [o EXCEPT ![u] = Append(Append(Outer(@), f), g)]

\* Interpreter u enters call f.
LEMMA PushNum ==
    ASSUME NEW o \in Operations, AllFinite(o), NEW u \in Interp, NEW f \in Call
    PROVE  LET o2 == PushOn(o, u, f)
           IN  /\ o2 \in Operations /\ AllFinite(o2)
               /\ \A t \in Ithread, pcs \in SUBSET Places :
                     Num(o2, t, pcs) = Num(o, t, pcs) + Hit(f, t, pcs)
<1> DEFINE o2 == PushOn(o, u, f)
           n == Len(o[u])
<1>1. o[u] \in Seq(Call) /\ n \in Nat
  BY LenProperties DEF Operations
<1>2. /\ Append(o[u], f) \in Seq(Call) /\ Len(Append(o[u], f)) = n + 1
      /\ \A i \in 1 .. n : Append(o[u], f)[i] = o[u][i]
      /\ Append(o[u], f)[n + 1] = f
  BY <1>1, AppendProperties
<1>3. o2 \in Operations /\ o2[u] = Append(o[u], f) /\ \A v \in Interp : v # u => o2[v] = o[v]
  BY <1>2 DEF Operations, PushOn
<1> HIDE DEF o2
<1>4. ASSUME NEW t, NEW pcs
      PROVE  /\ PlacesOf(o2, t, pcs) = PlacesOf(o, t, pcs)
                  \cup (IF f.on = t /\ f.pc \in pcs THEN {<<u, n + 1>>} ELSE {})
             /\ <<u, n + 1>> \notin PlacesOf(o, t, pcs)
  <2> DEFINE new == IF f.on = t /\ f.pc \in pcs THEN {<<u, n + 1>>} ELSE {}
             B == PlacesOf(o, t, pcs) \cup new
  <2>1. \A p \in B : p = <<p[1], p[2]>>
    BY PlacesArePairs
  <2>2. ASSUME NEW v, NEW i PROVE <<v, i>> \in PlacesOf(o2, t, pcs) <=> <<v, i>> \in B
    <3>1. <<v, i>> \in new <=> v = u /\ i = n + 1 /\ f.on = t /\ f.pc \in pcs
      OBVIOUS
    <3>2. CASE v # u
      <4>1. <<v, i>> \in PlacesOf(o2, t, pcs) <=> <<v, i>> \in PlacesOf(o, t, pcs)
        BY <1>3, <3>2, PlaceIn
      <4>2. QED  BY <3>1, <3>2, <4>1
    <3>3. CASE v = u
      <4>1. CASE i = n + 1
        <5>1. i \in 1 .. Len(o2[u]) /\ o2[u][i] = f /\ i \notin 1 .. Len(o[u])
          BY <1>1, <1>2, <1>3, <4>1
        <5>2. QED  BY <3>1, <3>3, <4>1, <5>1, PlaceIn
      <4>2. CASE i # n + 1
        <5>1. i \in 1 .. Len(o2[u]) <=> i \in 1 .. n
          BY <1>1, <1>2, <1>3, <4>2
        <5>2. i \in 1 .. n => o2[u][i] = o[u][i]
          BY <1>2, <1>3
        <5>3. <<v, i>> \in PlacesOf(o2, t, pcs) <=> <<v, i>> \in PlacesOf(o, t, pcs)
          BY <3>3, <5>1, <5>2, PlaceIn
        <5>4. QED  BY <3>1, <4>2, <5>3
      <4>3. QED  BY <4>1, <4>2
    <3>4. QED  BY <3>2, <3>3
  <2>3. PlacesOf(o2, t, pcs) = B
    <3> HIDE DEF B
    <3>1. QED  BY <2>1, <2>2, SamePlaces
  <2>4. n + 1 \notin 1 .. Len(o[u])
    BY <1>1
  <2>5. QED  BY <2>3, <2>4, PlaceIn
<1>5. ASSUME NEW t \in Ithread, NEW pcs \in SUBSET Places
      PROVE  /\ IsFiniteSet(PlacesOf(o2, t, pcs))
             /\ Num(o2, t, pcs) = Num(o, t, pcs) + Hit(f, t, pcs)
  <2>1. IsFiniteSet(PlacesOf(o, t, pcs)) /\ Num(o, t, pcs) \in Nat
    BY NumFacts
  <2>2. CASE f.on = t /\ f.pc \in pcs
    <3>1. PlacesOf(o2, t, pcs) = PlacesOf(o, t, pcs) \cup {<<u, n + 1>>}
          /\ <<u, n + 1>> \notin PlacesOf(o, t, pcs)
      BY <1>4, <2>2
    <3>2. IsFiniteSet(PlacesOf(o2, t, pcs))
          /\ Cardinality(PlacesOf(o2, t, pcs)) = Cardinality(PlacesOf(o, t, pcs)) + 1
      BY <2>1, <3>1, FS_AddElement
    <3>3. QED  BY <2>2, <3>2 DEF Num, Hit, One
  <2>3. CASE ~ (f.on = t /\ f.pc \in pcs)
    <3>1. PlacesOf(o2, t, pcs) = PlacesOf(o, t, pcs)
      <4>1. PlacesOf(o2, t, pcs) = PlacesOf(o, t, pcs) \cup {}
        BY <1>4, <2>3, Zenon
      <4>2. QED  BY <4>1
    <3>2. Hit(f, t, pcs) = 0
      BY <2>3 DEF Hit, One
    <3>3. QED  BY <2>1, <3>1, <3>2 DEF Num
  <2>4. QED  BY <2>2, <2>3
<1>6. AllFinite(o2)
  BY <1>5 DEF AllFinite
<1>7. QED  BY <1>3, <1>5, <1>6 DEF o2

LEMMA OuterFacts ==
    ASSUME NEW q \in Seq(Call), q # <<>>
    PROVE  /\ Outer(q) \in Seq(Call) /\ Len(q) \in Nat \ {0} /\ Len(Outer(q)) = Len(q) - 1
           /\ \A i \in 1 .. Len(q) - 1 : Outer(q)[i] = q[i]
<1>1. Len(q) \in Nat \ {0}
  BY EmptySeq
<1>2. \A i \in 1 .. Len(q) - 1 : i \in 1 .. Len(q)
  BY <1>1
<1>3. \A i \in 1 .. Len(q) - 1 : q[i] \in Call
  BY <1>2, ElementOfSeq
<1>4. /\ Outer(q) \in Seq(Call)
      /\ Len(Outer(q)) = IF 1 <= Len(q) - 1 THEN Len(q) - 1 - 1 + 1 ELSE 0
      /\ \A i \in 1 .. Len(q) - 1 - 1 + 1 : Outer(q)[i] = q[1 + i - 1]
  BY <1>1, <1>3, SubSeqProperties DEF Outer
<1>5. Len(Outer(q)) = Len(q) - 1
  <2> DEFINE n == Len(q)
             m == Len(Outer(q))
  <2>1. n \in Nat \ {0} /\ m = IF 1 <= n - 1 THEN n - 1 - 1 + 1 ELSE 0
    BY <1>1, <1>4
  <2> HIDE DEF n, m
  <2>2. m = n - 1
    BY ONLY <2>1
  <2>3. QED  BY <2>2 DEF n, m
<1>6. ASSUME NEW i \in 1 .. Len(q) - 1 PROVE Outer(q)[i] = q[i]
  <2>1. i \in 1 .. Len(q) - 1 - 1 + 1 /\ 1 + i - 1 = i
    BY <1>1
  <2>2. QED  BY <1>4, <2>1
<1>7. QED  BY <1>1, <1>4, <1>5, <1>6

\* Interpreter u leaves its innermost call.
LEMMA PopNum ==
    ASSUME NEW o \in Operations, AllFinite(o), NEW u \in Interp, o[u] # <<>>
    PROVE  LET o2 == PopOn(o, u)
               f == o[u][Len(o[u])]
           IN  /\ o2 \in Operations /\ AllFinite(o2) /\ f \in Call
               /\ \A t \in Ithread, pcs \in SUBSET Places :
                     Num(o2, t, pcs) = Num(o, t, pcs) - Hit(f, t, pcs)
<1> DEFINE o2 == PopOn(o, u)
           n == Len(o[u])
           f == o[u][n]
<1>1. o[u] \in Seq(Call) /\ n \in Nat \ {0} /\ n \in 1 .. n
  BY EmptySeq DEF Operations
<1>2. f \in Call
  BY <1>1, ElementOfSeq
<1>3. /\ Outer(o[u]) \in Seq(Call) /\ Len(Outer(o[u])) = n - 1
      /\ \A i \in 1 .. n - 1 : Outer(o[u])[i] = o[u][i]
  BY <1>1, OuterFacts
<1>4. o2 \in Operations /\ o2[u] = Outer(o[u]) /\ \A v \in Interp : v # u => o2[v] = o[v]
  BY <1>3 DEF Operations, PopOn
<1> HIDE DEF o2
<1>5. ASSUME NEW t, NEW pcs
      PROVE  /\ PlacesOf(o2, t, pcs) = PlacesOf(o, t, pcs) \ {<<u, n>>}
             /\ <<u, n>> \in PlacesOf(o, t, pcs) <=> f.on = t /\ f.pc \in pcs
  <2> DEFINE B == PlacesOf(o, t, pcs) \ {<<u, n>>}
  <2>1. \A p \in B : p = <<p[1], p[2]>>
    BY PlacesArePairs
  <2>2. ASSUME NEW v, NEW i PROVE <<v, i>> \in PlacesOf(o2, t, pcs) <=> <<v, i>> \in B
    <3>1. <<v, i>> \in B <=> <<v, i>> \in PlacesOf(o, t, pcs) /\ ~ (v = u /\ i = n)
      OBVIOUS
    <3>2. CASE v # u
      BY <1>4, <3>1, <3>2, PlaceIn
    <3>3. CASE v = u
      <4>1. i \in 1 .. Len(o2[u]) <=> i \in 1 .. n /\ i # n
        BY <1>1, <1>3, <1>4
      <4>2. i \in 1 .. n /\ i # n => o2[u][i] = o[u][i]
        <5>1. i \in 1 .. n /\ i # n => i \in 1 .. n - 1
          BY <1>1
        <5>2. QED  BY <1>3, <1>4, <5>1
      <4>3. QED  BY <3>1, <3>3, <4>1, <4>2, PlaceIn
    <3>4. QED  BY <3>2, <3>3
  <2>3. PlacesOf(o2, t, pcs) = B
    <3> HIDE DEF B
    <3>1. QED  BY <2>1, <2>2, SamePlaces
  <2>4. QED  BY <1>1, <2>3, PlaceIn
<1>6. ASSUME NEW t \in Ithread, NEW pcs \in SUBSET Places
      PROVE  /\ IsFiniteSet(PlacesOf(o2, t, pcs))
             /\ Num(o2, t, pcs) = Num(o, t, pcs) - Hit(f, t, pcs)
  <2>1. IsFiniteSet(PlacesOf(o, t, pcs)) /\ Num(o, t, pcs) \in Nat
    BY NumFacts
  <2>2. CASE f.on = t /\ f.pc \in pcs
    <3>1. PlacesOf(o2, t, pcs) = PlacesOf(o, t, pcs) \ {<<u, n>>} /\ <<u, n>> \in PlacesOf(o, t, pcs)
      BY <1>5, <2>2
    <3>2. IsFiniteSet(PlacesOf(o2, t, pcs))
          /\ Cardinality(PlacesOf(o2, t, pcs)) = Cardinality(PlacesOf(o, t, pcs)) - 1
      <4> DEFINE p == <<u, n>>
                 A == PlacesOf(o, t, pcs)
                 B == PlacesOf(o2, t, pcs)
      <4>1. IsFiniteSet(A) /\ B = A \ {p} /\ p \in A
        BY <2>1, <3>1
      <4> HIDE DEF p, A, B
      <4>2. IsFiniteSet(B) /\ Cardinality(B) = Cardinality(A) - 1
        BY ONLY <4>1, FS_RemoveElement
      <4>3. QED  BY <4>2 DEF A, B
    <3>3. QED  BY <2>2, <3>2 DEF Num, Hit, One
  <2>3. CASE ~ (f.on = t /\ f.pc \in pcs)
    <3>1. PlacesOf(o2, t, pcs) = PlacesOf(o, t, pcs)
      <4>1. PlacesOf(o2, t, pcs) = PlacesOf(o, t, pcs) \ {<<u, n>>} /\ <<u, n>> \notin PlacesOf(o, t, pcs)
        BY <1>5, <2>3
      <4> DEFINE p == <<u, n>>
      <4> HIDE DEF p
      <4>2. QED  BY <4>1 DEF p
    <3>2. Hit(f, t, pcs) = 0
      BY <2>3 DEF Hit, One
    <3>3. QED  BY <2>1, <3>1, <3>2 DEF Num
  <2>4. QED  BY <2>2, <2>3
<1>7. AllFinite(o2)
  BY <1>6 DEF AllFinite
<1>8. QED  BY <1>2, <1>4, <1>6, <1>7 DEF o2

\* Its innermost call becomes f, or f with g inside.
LEMMA BecomeNum ==
    ASSUME NEW o \in Operations, AllFinite(o), NEW u \in Interp, o[u] # <<>>, NEW f \in Call
    PROVE  LET o2 == BecomeOn(o, u, f)
               e == o[u][Len(o[u])]
           IN  /\ o2 \in Operations /\ AllFinite(o2) /\ e \in Call
               /\ \A t \in Ithread, pcs \in SUBSET Places :
                     Num(o2, t, pcs) = Num(o, t, pcs) - Hit(e, t, pcs) + Hit(f, t, pcs)
<1> DEFINE o1 == PopOn(o, u)
           o2 == BecomeOn(o, u, f)
           e == o[u][Len(o[u])]
<1>1. /\ o1 \in Operations /\ AllFinite(o1) /\ e \in Call
      /\ \A t \in Ithread, pcs \in SUBSET Places : Num(o1, t, pcs) = Num(o, t, pcs) - Hit(e, t, pcs)
  BY PopNum
<1>2. o2 = PushOn(o1, u, f)
  BY DEF Operations, PushOn, PopOn, BecomeOn
<1> HIDE DEF o1, o2, e
<1>3. /\ o2 \in Operations /\ AllFinite(o2)
      /\ \A t \in Ithread, pcs \in SUBSET Places : Num(o2, t, pcs) = Num(o1, t, pcs) + Hit(f, t, pcs)
  BY <1>1, <1>2, PushNum
<1>4. ASSUME NEW t \in Ithread, NEW pcs \in SUBSET Places
      PROVE  Num(o2, t, pcs) = Num(o, t, pcs) - Hit(e, t, pcs) + Hit(f, t, pcs)
  BY <1>1, <1>3
<1>5. QED  BY <1>1, <1>3, <1>4 DEF o2, e
LEMMA BothNum ==
    ASSUME NEW o \in Operations, AllFinite(o), NEW u \in Interp, o[u] # <<>>, NEW f \in Call, NEW g \in Call,
           NEW e, e = o[u][Len(o[u])]
    PROVE  LET o2 == BothOn(o, u, f, g)
           IN  /\ o2 \in Operations /\ AllFinite(o2) /\ e \in Call
               /\ \A t \in Ithread, pcs \in SUBSET Places :
                     Num(o2, t, pcs) = Num(o, t, pcs) - Hit(e, t, pcs) + Hit(f, t, pcs) + Hit(g, t, pcs)
<1> DEFINE o1 == BecomeOn(o, u, f)
           o2 == BothOn(o, u, f, g)
<1>1. /\ o1 \in Operations /\ AllFinite(o1) /\ e \in Call
      /\ \A t \in Ithread, pcs \in SUBSET Places :
            Num(o1, t, pcs) = Num(o, t, pcs) - Hit(e, t, pcs) + Hit(f, t, pcs)
  BY BecomeNum
<1>2. o2 = PushOn(o1, u, g)
  BY DEF Operations, BothOn, PushOn, BecomeOn
<1> HIDE DEF o1, o2
<1>3. /\ o2 \in Operations /\ AllFinite(o2)
      /\ \A t \in Ithread, pcs \in SUBSET Places : Num(o2, t, pcs) = Num(o1, t, pcs) + Hit(g, t, pcs)
  BY <1>1, <1>2, PushNum
<1>4. ASSUME NEW t \in Ithread, NEW pcs \in SUBSET Places
      PROVE  Num(o2, t, pcs) = Num(o, t, pcs) - Hit(e, t, pcs) + Hit(f, t, pcs) + Hit(g, t, pcs)
  BY <1>1, <1>3
<1>5. QED  BY <1>1, <1>3, <1>4 DEF o2

\* Of the calls on one thread, the one at gone goes, and those at new and more
\* are new; "-" stands for none.
Change(pcs, gone, new, more) == One(new \in pcs) + One(more \in pcs) - One(gone \in pcs)
Moved(c, c2, gone, new, more) ==
    /\ c2.start = c.start + Change({"start"}, gone, new, more)
    /\ c2.take = c.take + Change({"take"}, gone, new, more)
    /\ c2.claim = c.claim + Change(Claiming, gone, new, more)
    /\ c2.join = c.join + Change({"join_count"}, gone, new, more)
    /\ c2.ends = c.ends + Change({"unlink", "free"}, gone, new, more)
    /\ c2.free = c.free + Change({"free"}, gone, new, more)
    /\ c2.uncount = c.uncount + Change({"uncount"}, gone, new, more)
    /\ c2.clear = c.clear + Change({"clear"}, gone, new, more)

\* From numbers to tallies.
LEMMA Tallies ==
    ASSUME NEW o, AllFinite(o), NEW o2, AllFinite(o2), NEW t \in Ithread,
           NEW gone \in Places \cup {"-"}, NEW new \in Places \cup {"-"}, NEW more \in Places \cup {"-"},
           \A x \in Ithread, pcs \in SUBSET Places :
              Num(o2, x, pcs) = IF x = t THEN Num(o, x, pcs) + Change(pcs, gone, new, more)
                                ELSE Num(o, x, pcs)
    PROVE  /\ Moved(TallyOf(o, t), TallyOf(o2, t), gone, new, more)
           /\ \A x \in Ithread : x # t => TallyOf(o2, x) = TallyOf(o, x)
<1>1. /\ Claiming \in SUBSET Places /\ {"unlink", "free"} \in SUBSET Places
      /\ \A x \in Places : {x} \in SUBSET Places
      /\ {"start", "take", "join_count", "free", "uncount", "clear"} \subseteq Places
  BY DEF Claiming, Places
<1>2. \A pcs \in SUBSET Places : Num(o2, t, pcs) = Num(o, t, pcs) + Change(pcs, gone, new, more)
  OBVIOUS
<1>3. Moved(TallyOf(o, t), TallyOf(o2, t), gone, new, more)
  <2>1. /\ Num(o2, t, {"start"}) = Num(o, t, {"start"}) + Change({"start"}, gone, new, more)
        /\ Num(o2, t, {"take"}) = Num(o, t, {"take"}) + Change({"take"}, gone, new, more)
        /\ Num(o2, t, Claiming) = Num(o, t, Claiming) + Change(Claiming, gone, new, more)
        /\ Num(o2, t, {"join_count"}) = Num(o, t, {"join_count"}) + Change({"join_count"}, gone, new, more)
        /\ Num(o2, t, {"unlink", "free"}) = Num(o, t, {"unlink", "free"})
              + Change({"unlink", "free"}, gone, new, more)
        /\ Num(o2, t, {"free"}) = Num(o, t, {"free"}) + Change({"free"}, gone, new, more)
        /\ Num(o2, t, {"uncount"}) = Num(o, t, {"uncount"}) + Change({"uncount"}, gone, new, more)
        /\ Num(o2, t, {"clear"}) = Num(o, t, {"clear"}) + Change({"clear"}, gone, new, more)
    BY <1>1, <1>2
  <2>2. QED  BY <2>1 DEF Moved, TallyOf
<1>4. ASSUME NEW x \in Ithread, x # t PROVE TallyOf(o2, x) = TallyOf(o, x)
  <2>1. \A pcs \in SUBSET Places : Num(o2, x, pcs) = Num(o, x, pcs)
    BY <1>4
  <2>2. /\ Num(o2, x, {"start"}) = Num(o, x, {"start"}) /\ Num(o2, x, {"take"}) = Num(o, x, {"take"})
        /\ Num(o2, x, Claiming) = Num(o, x, Claiming)
        /\ Num(o2, x, {"join_count"}) = Num(o, x, {"join_count"})
        /\ Num(o2, x, {"unlink", "free"}) = Num(o, x, {"unlink", "free"})
        /\ Num(o2, x, {"free"}) = Num(o, x, {"free"}) /\ Num(o2, x, {"uncount"}) = Num(o, x, {"uncount"})
        /\ Num(o2, x, {"clear"}) = Num(o, x, {"clear"})
    BY <1>1, <2>1
  <2>3. QED  BY <2>2 DEF TallyOf
<1>5. QED  BY <1>3, <1>4

-----------------------------------------------------------------------------
\* The calls of interpreter u change by Push, Pop, Become or BecomeBoth, all
\* of them on thread t.

OpMoves(u, t, gone, new, more) ==
    /\ op' \in Operations /\ AllFinite(op')
    /\ \A v \in Interp : v # u => op'[v] = op[v]
    /\ Moved(TallyOf(op, t), TallyOf(op', t), gone, new, more)
    /\ TallyOf(op, t) \in Numbers /\ TallyOf(op', t) \in Numbers
    /\ \A x \in Ithread : x # t => TallyOf(op', x) = TallyOf(op, x)

LEMMA FrameCall ==
    ASSUME NEW pc \in Places, NEW t \in Ithread
    PROVE  Frame(pc, t) \in Call /\ Frame(pc, t).pc = pc /\ Frame(pc, t).on = t
BY DEF Frame, Call

LEMMA NoPlace == "-" \notin Places /\ \A pcs \in SUBSET Places : "-" \notin pcs
BY DEF Places

LEMMA PushMoves ==
    ASSUME op \in Operations, AllFinite(op), NEW u \in Interp, NEW pc \in Places, NEW t \in Ithread,
           Push(u, pc, t)
    PROVE  OpMoves(u, t, "-", pc, "-") /\ op'[u] = Append(op[u], Frame(pc, t))
<1> DEFINE f == Frame(pc, t)
<1>1. f \in Call /\ f.pc = pc /\ f.on = t
  BY FrameCall
<1>2. op' = PushOn(op, u, f)
  BY DEF Push, PushOn
<1> HIDE DEF f
<1>3. /\ op' \in Operations /\ AllFinite(op')
      /\ \A x \in Ithread, pcs \in SUBSET Places : Num(op', x, pcs) = Num(op, x, pcs) + Hit(f, x, pcs)
  BY <1>1, <1>2, PushNum
<1>4. ASSUME NEW x \in Ithread, NEW pcs \in SUBSET Places
      PROVE  Num(op', x, pcs) = IF x = t THEN Num(op, x, pcs) + Change(pcs, "-", pc, "-")
                                ELSE Num(op, x, pcs)
  <2>1. Hit(f, x, pcs) = IF x = t THEN Change(pcs, "-", pc, "-") ELSE 0
    BY <1>1, NoPlace DEF Hit, Change, One
  <2>2. Num(op, x, pcs) \in Nat
    BY NumFacts
  <2>3. QED  BY <1>3, <2>1, <2>2
<1>5. op'[u] = Append(op[u], f) /\ \A v \in Interp : v # u => op'[v] = op[v]
  BY <1>2 DEF Operations, PushOn
<1>6. OpMoves(u, t, "-", pc, "-")
  <2>1. /\ Moved(TallyOf(op, t), TallyOf(op', t), "-", pc, "-")
        /\ \A x \in Ithread : x # t => TallyOf(op', x) = TallyOf(op, x)
    BY <1>3, <1>4, Tallies
  <2>2. TallyOf(op, t) \in Numbers /\ TallyOf(op', t) \in Numbers
    BY <1>3, TallyFacts
  <2>3. QED  BY <1>3, <1>5, <2>1, <2>2 DEF OpMoves
<1>7. QED  BY <1>5, <1>6 DEF f

LEMMA PopMoves ==
    ASSUME op \in Operations, AllFinite(op), NEW u \in Interp, NEW pc \in Places, In(u, pc), Pop(u)
    PROVE  OpMoves(u, On(u), pc, "-", "-") /\ op'[u] = Outer(op[u])
<1> DEFINE f == op[u][Len(op[u])]
           t == On(u)
<1>1. op[u] # <<>> /\ f.pc = pc /\ f.on = t
  BY DEF In, On
<1>2. op' = PopOn(op, u)
  BY DEF Pop, PopOn
<1>3. /\ op' \in Operations /\ AllFinite(op') /\ f \in Call
      /\ \A x \in Ithread, pcs \in SUBSET Places : Num(op', x, pcs) = Num(op, x, pcs) - Hit(f, x, pcs)
  BY <1>1, <1>2, PopNum
<1> HIDE DEF f, t
<1>4. t \in Ithread
  BY <1>1, <1>3 DEF Call
<1>5. ASSUME NEW x \in Ithread, NEW pcs \in SUBSET Places
      PROVE  Num(op', x, pcs) = IF x = t THEN Num(op, x, pcs) + Change(pcs, pc, "-", "-")
                                ELSE Num(op, x, pcs)
  <2>1. Hit(f, x, pcs) = One(x = t /\ pc \in pcs)
    BY <1>1 DEF Hit
  <2>2. Change(pcs, pc, "-", "-") = 0 - One(pc \in pcs)
    BY NoPlace DEF Change, One
  <2>3. Num(op, x, pcs) \in Nat
    BY NumFacts
  <2>4. QED  BY <1>3, <2>1, <2>2, <2>3 DEF One
<1>6. op'[u] = Outer(op[u]) /\ \A v \in Interp : v # u => op'[v] = op[v]
  BY <1>2 DEF Operations, PopOn
<1>7. OpMoves(u, t, pc, "-", "-")
  <2>1. /\ Moved(TallyOf(op, t), TallyOf(op', t), pc, "-", "-")
        /\ \A x \in Ithread : x # t => TallyOf(op', x) = TallyOf(op, x)
    BY <1>3, <1>4, <1>5, Tallies
  <2>2. TallyOf(op, t) \in Numbers /\ TallyOf(op', t) \in Numbers
    BY <1>3, <1>4, TallyFacts
  <2>3. QED  BY <1>3, <1>6, <2>1, <2>2 DEF OpMoves
<1>8. QED  BY <1>6, <1>7 DEF t

LEMMA BecomeMoves ==
    ASSUME op \in Operations, AllFinite(op), NEW u \in Interp, NEW pc \in Places, In(u, pc),
           NEW new \in Places, Become(u, new)
    PROVE  OpMoves(u, On(u), pc, new, "-") /\ op'[u] = Append(Outer(op[u]), Frame(new, On(u)))
<1> DEFINE e == op[u][Len(op[u])]
           t == On(u)
           f == Frame(new, t)
<1>1. op[u] # <<>> /\ e.pc = pc /\ e.on = t
  BY DEF In, On
<1>2. op' = BecomeOn(op, u, f)
  BY DEF Become, BecomeOn
<1>3. e \in Call
  BY <1>1, PopNum
<1>4. t \in Ithread
  BY <1>1, <1>3 DEF Call
<1>5. f \in Call /\ f.pc = new /\ f.on = t
  BY <1>4, FrameCall
<1> HIDE DEF t, f
<1>6. /\ op' \in Operations /\ AllFinite(op')
      /\ \A x \in Ithread, pcs \in SUBSET Places :
            Num(op', x, pcs) = Num(op, x, pcs) - Hit(e, x, pcs) + Hit(f, x, pcs)
  BY <1>1, <1>2, <1>5, BecomeNum
<1> HIDE DEF e
<1>7. ASSUME NEW x \in Ithread, NEW pcs \in SUBSET Places
      PROVE  Num(op', x, pcs) = IF x = t THEN Num(op, x, pcs) + Change(pcs, pc, new, "-")
                                ELSE Num(op, x, pcs)
  <2>1. Hit(e, x, pcs) = One(x = t /\ pc \in pcs) /\ Hit(f, x, pcs) = One(x = t /\ new \in pcs)
    BY <1>1, <1>5 DEF Hit
  <2>2. Change(pcs, pc, new, "-") = One(new \in pcs) - One(pc \in pcs)
    BY NoPlace DEF Change, One
  <2>3. Num(op, x, pcs) \in Nat
    BY NumFacts
  <2>4. QED  BY <1>6, <2>1, <2>2, <2>3 DEF One
<1>8. op'[u] = Append(Outer(op[u]), f) /\ \A v \in Interp : v # u => op'[v] = op[v]
  BY <1>2 DEF Operations, BecomeOn
<1>9. OpMoves(u, t, pc, new, "-")
  <2>1. /\ Moved(TallyOf(op, t), TallyOf(op', t), pc, new, "-")
        /\ \A x \in Ithread : x # t => TallyOf(op', x) = TallyOf(op, x)
    BY <1>4, <1>6, <1>7, Tallies
  <2>2. TallyOf(op, t) \in Numbers /\ TallyOf(op', t) \in Numbers
    BY <1>4, <1>6, TallyFacts
  <2>3. QED  BY <1>6, <1>8, <2>1, <2>2 DEF OpMoves
<1>10. QED  BY <1>8, <1>9 DEF t, f

LEMMA BothMoves ==
    ASSUME op \in Operations, AllFinite(op), NEW u \in Interp, NEW pc \in Places, In(u, pc),
           NEW new \in Places, NEW more \in Places, BecomeBoth(u, new, more)
    PROVE  /\ OpMoves(u, On(u), pc, new, more)
           /\ op'[u] = Append(Append(Outer(op[u]), Frame(more, On(u))), Frame(new, On(u)))
<1> DEFINE e == op[u][Len(op[u])]
           t == On(u)
           f == Frame(more, t)
           g == Frame(new, t)
<1>1. op[u] # <<>> /\ e.pc = pc /\ e.on = t
  BY DEF In, On
<1>2. op' = BothOn(op, u, f, g)
  BY DEF BecomeBoth, BothOn
<1>3. e \in Call
  BY <1>1, PopNum
<1>4. t \in Ithread
  BY <1>1, <1>3 DEF Call
<1>5. f \in Call /\ f.pc = more /\ f.on = t /\ g \in Call /\ g.pc = new /\ g.on = t
  BY <1>4, FrameCall
<1> HIDE DEF t, f, g
<1>6. /\ op' \in Operations /\ AllFinite(op')
      /\ \A x \in Ithread, pcs \in SUBSET Places :
            Num(op', x, pcs) = Num(op, x, pcs) - Hit(e, x, pcs) + Hit(f, x, pcs) + Hit(g, x, pcs)
  <2>1. /\ op[u] # <<>> /\ f \in Call /\ g \in Call
        /\ op \in Operations /\ AllFinite(op) /\ u \in Interp
    BY <1>1, <1>5
  <2> HIDE DEF e
  <2>2. e = op[u][Len(op[u])]
    BY DEF e
  <2>3. /\ BothOn(op, u, f, g) \in Operations /\ AllFinite(BothOn(op, u, f, g))
        /\ \A x \in Ithread, pcs \in SUBSET Places :
              Num(BothOn(op, u, f, g), x, pcs) =
                  Num(op, x, pcs) - Hit(e, x, pcs) + Hit(f, x, pcs) + Hit(g, x, pcs)
    BY ONLY <2>1, <2>2, BothNum
  <2>4. QED  BY <1>2, <2>3
<1> HIDE DEF e
<1>7. ASSUME NEW x \in Ithread, NEW pcs \in SUBSET Places
      PROVE  Num(op', x, pcs) = IF x = t THEN Num(op, x, pcs) + Change(pcs, pc, new, more)
                                ELSE Num(op, x, pcs)
  <2>1. /\ Hit(e, x, pcs) = One(x = t /\ pc \in pcs)
        /\ Hit(f, x, pcs) = One(x = t /\ more \in pcs)
        /\ Hit(g, x, pcs) = One(x = t /\ new \in pcs)
    BY <1>1, <1>5 DEF Hit
  <2>2. Num(op, x, pcs) \in Nat
    BY NumFacts
  <2>3. QED  BY <1>6, <2>1, <2>2 DEF One, Change
<1>8. op'[u] = Append(Append(Outer(op[u]), f), g) /\ \A v \in Interp : v # u => op'[v] = op[v]
  BY <1>2 DEF Operations, BothOn
<1>9. OpMoves(u, t, pc, new, more)
  <2>1. /\ Moved(TallyOf(op, t), TallyOf(op', t), pc, new, more)
        /\ \A x \in Ithread : x # t => TallyOf(op', x) = TallyOf(op, x)
    BY <1>4, <1>6, <1>7, Tallies
  <2>2. TallyOf(op, t) \in Numbers /\ TallyOf(op', t) \in Numbers
    BY <1>4, <1>6, TallyFacts
  <2>3. QED  BY <1>6, <1>8, <2>1, <2>2 DEF OpMoves
<1>10. QED  BY <1>8, <1>9 DEF t, f, g

-----------------------------------------------------------------------------
\* What each kind of step does to a record and its numbers.

Stages == {"none", "running", "finished", "releasing", "gone"}

LEMMA SoundCreate ==
    ASSUME NEW s \in Stages, NEW h \in Nat, NEW c \in Numbers, NEW c2 \in Numbers, NEW f \in BOOLEAN,
           Sound(Unborn, s, h, c, f), Moved(c, c2, "-", "start", "-")
    PROVE  Sound([Unborn EXCEPT !.count = 3, !.interp = "live", !.listed = TRUE], s, h, c2, f)
BY DEF Sound, Before, CountSound, StartSound, JoinSound, ClearSound, Hidden, Made, Unborn, Launched,
       Unclaimed, One, Moved, Change, Claiming, Numbers, Stages

\* One more object of it, and one more for the count: a clone, threads->self.
LEMMA SoundObject ==
    ASSUME NEW r \in Record, NEW s \in Stages, NEW h \in Nat, NEW c \in Numbers, NEW f \in BOOLEAN,
           Sound(r, s, h, c, f), h > 0 \/ s = "running"
    PROVE  Sound([r EXCEPT !.count = @ + 1], s, h + 1, c, f)
<1> DEFINE r2 == [r EXCEPT !.count = @ + 1]
<1>1. /\ r2.count = r.count + 1 /\ r2.state = r.state /\ r2.interp = r.interp
      /\ r2.listed = r.listed /\ r2.freed = r.freed /\ r.count \in Nat
  BY DEF Record
<1> HIDE DEF r2
<1>2. Made(r) /\ r.count > 0 /\ ~ r.freed
  BY DEF Sound, Before, CountSound, One, Numbers, Record
<1>3. QED
  BY <1>1, <1>2 DEF Sound, CountSound, StartSound, JoinSound, ClearSound, Hidden, Made, Launched,
       Unclaimed, One, Numbers, r2

LEMMA SoundStart ==
    ASSUME NEW r \in Record, NEW h \in Nat, NEW c \in Numbers, NEW c2 \in Numbers, NEW f \in BOOLEAN,
           NEW s \in Stages, Sound(r, s, h, c, f), c.start > 0, Moved(c, c2, "start", "-", "-")
    PROVE  Sound(r, "running", h + 1, c2, f)
<1>1. Made(r) /\ c.start = 1 /\ s = "none" /\ c2.start = 0 /\ "FINISHED" \notin r.state
  BY DEF Sound, Before, StartSound, Moved, Change, One, Numbers
<1>2. /\ c2.take = c.take /\ c2.claim = c.claim /\ c2.join = c.join /\ c2.ends = c.ends
      /\ c2.free = c.free /\ c2.uncount = c.uncount /\ c2.clear = c.clear
  BY DEF Moved, Change, One, Numbers, Claiming
<1>3. QED
  BY <1>1, <1>2 DEF Sound, CountSound, StartSound, JoinSound, ClearSound, Hidden, Launched, One,
       Numbers, Record

LEMMA SoundStartFails ==
    ASSUME NEW r \in Record, NEW h \in Nat, NEW c \in Numbers, NEW c2 \in Numbers,
           NEW s \in Stages, Sound(r, s, h, c, TRUE), c.start > 0, Moved(c, c2, "start", "release", "-")
    PROVE  Sound([r EXCEPT !.count = 1, !.state = @ \cup {"FINISHED", "JOINED"}], s, h, c2, TRUE)
<1> DEFINE r2 == [r EXCEPT !.count = 1, !.state = @ \cup {"FINISHED", "JOINED"}]
<1>1. /\ r2.count = 1 /\ r2.state = r.state \cup {"FINISHED", "JOINED"} /\ r2.interp = r.interp
      /\ r2.listed = r.listed /\ r2.freed = r.freed /\ r.count \in Nat
  BY DEF Record
<1> HIDE DEF r2
<1>2. Made(r) /\ c.start = 1 /\ s = "none" /\ c2.start = 0 /\ h = 0 /\ c.claim = 0 /\ c.take = 0
      /\ r.state = {}
  <2>1. Made(r) /\ c.start = 1 /\ s = "none" /\ h = 0 /\ c.claim = 0 /\ c.take = 0 /\ r.state = {}
    BY DEF Sound, Before, StartSound, Hidden, Numbers
  <2>2. c2.start = 0
    BY <2>1 DEF Moved, Change, One, Numbers
  <2>3. QED  BY <2>1, <2>2
<1>3. /\ c2.take = 0 /\ c2.claim = 1 /\ c2.join = c.join /\ c2.ends = c.ends
      /\ c2.free = c.free /\ c2.uncount = c.uncount /\ c2.clear = c.clear
  BY <1>2 DEF Moved, Change, One, Numbers, Claiming
<1>4. Unclaimed(r) /\ ~ Unclaimed(r2) /\ r.count = 3 /\ ~ r.freed /\ c.ends = 0
  BY <1>1, <1>2 DEF Unclaimed, Sound, CountSound, One
<1>5. Made(r2) /\ c.clear = 0 /\ r.interp # "gone" /\ c.join = 0
  BY <1>1, <1>2, <1>4 DEF Made, Sound, ClearSound, JoinSound, Numbers
<1>6. CountSound(r2, s, h, c2)
  <2>1. c.free <= c.ends /\ c.uncount <= 0
    BY <1>4 DEF Sound, CountSound, One
  <2>2. QED  BY <1>1, <1>2, <1>3, <1>4, <2>1 DEF CountSound, One, Numbers
<1>7. StartSound(r2, s, c2)
  BY <1>2, <1>4 DEF StartSound
<1>8. JoinSound(r2, s, c2)
  BY <1>3, <1>5 DEF JoinSound, Numbers
<1>9. ClearSound(r2, c2)
  BY <1>1, <1>3, <1>5 DEF ClearSound, Numbers
<1>10. Hidden(r2, h, c2)
  BY <1>2 DEF Hidden
<1>11. QED  BY <1>5, <1>6, <1>7, <1>8, <1>9, <1>10 DEF Sound, r2

LEMMA SoundRelease ==
    ASSUME NEW r \in Record, NEW h \in Nat, NEW c \in Numbers, NEW c2 \in Numbers, NEW f \in BOOLEAN,
           NEW s \in Stages, Sound(r, s, h, c, f), c.claim > c.join,
           IF r.count > 1 THEN Moved(c, c2, "release", "-", "-") ELSE Moved(c, c2, "release", "unlink", "-")
    PROVE  Sound([r EXCEPT !.count = @ - 1], s, h, c2, f) /\ r.count > 0
<1> DEFINE r2 == [r EXCEPT !.count = @ - 1]
<1>1. /\ r2.count = r.count - 1 /\ r2.state = r.state /\ r2.interp = r.interp
      /\ r2.listed = r.listed /\ r2.freed = r.freed /\ r.count \in Nat
  BY DEF Record
<1> HIDE DEF r2
<1>2. Made(r) /\ r.count > 0 /\ ~ r.freed
  BY DEF Sound, Before, CountSound, One, Numbers, Record
<1>3. /\ c2.start = c.start /\ c2.take = c.take /\ c2.claim = c.claim - 1 /\ c2.join = c.join
      /\ c2.ends = c.ends + One(r.count = 1)
      /\ c2.free = c.free /\ c2.uncount = c.uncount /\ c2.clear = c.clear
  <2>1. CASE r.count > 1
    BY <1>1, <2>1 DEF Moved, Change, One, Numbers, Claiming
  <2>2. CASE ~ (r.count > 1)
    BY <1>1, <1>2, <2>2 DEF Moved, Change, One, Numbers, Claiming
  <2>3. QED  BY <2>1, <2>2
<1>4. QED
  BY <1>1, <1>2, <1>3 DEF Sound, CountSound, StartSound, JoinSound, ClearSound, Hidden, Made, Launched,
       Unclaimed, One, Numbers, r2

LEMMA SoundUnlink ==
    ASSUME NEW r \in Record, NEW h \in Nat, NEW c \in Numbers, NEW c2 \in Numbers, NEW f \in BOOLEAN,
           NEW s \in Stages, Sound(r, s, h, c, f), c.ends > c.free,
           Moved(c, c2, "unlink", "clear", "free")
    PROVE  Sound([r EXCEPT !.listed = FALSE], s, h, c2, f)
<1> DEFINE r2 == [r EXCEPT !.listed = FALSE]
<1>1. /\ r2.count = r.count /\ r2.state = r.state /\ r2.interp = r.interp
      /\ r2.listed = FALSE /\ r2.freed = r.freed /\ r.count \in Nat
  BY DEF Record
<1> HIDE DEF r2
<1>2. Made(r) /\ r.count = 0 /\ ~ r.freed
  BY DEF Sound, Before, CountSound, One, Numbers, Record
<1>3. /\ c2.start = c.start /\ c2.take = c.take /\ c2.claim = c.claim /\ c2.join = c.join
      /\ c2.ends = c.ends
      /\ c2.free = c.free + 1 /\ c2.uncount = c.uncount /\ c2.clear = c.clear + 1
  BY DEF Moved, Change, One, Numbers, Claiming
<1>4. CountSound(r2, s, h, c2) /\ ClearSound(r2, c2)
  BY <1>1, <1>2, <1>3 DEF Sound, CountSound, ClearSound, Made, Unclaimed, One, Numbers
<1>5. StartSound(r2, s, c2) /\ JoinSound(r2, s, c2) /\ (f => Hidden(r2, h, c2))
  BY <1>1, <1>3 DEF Sound, StartSound, JoinSound, Hidden, Made, Launched, Unclaimed
<1>6. Made(r2)
  BY <1>1, <1>2 DEF Made
<1>7. QED  BY <1>4, <1>5, <1>6 DEF Sound, r2

LEMMA SoundClear ==
    ASSUME NEW r \in Record, NEW h \in Nat, NEW c \in Numbers, NEW c2 \in Numbers, NEW f \in BOOLEAN,
           NEW s \in Stages, Sound(r, s, h, c, f), c.clear > 0,
           Moved(c, c2, "clear", "destruct", "-")
    PROVE  Sound([r EXCEPT !.interp = "gone"], s, h, c2, f)
<1> DEFINE r2 == [r EXCEPT !.interp = "gone"]
<1>1. /\ r2.count = r.count /\ r2.state = r.state /\ r2.interp = "gone"
      /\ r2.listed = r.listed /\ r2.freed = r.freed /\ r.count \in Nat
  BY DEF Record
<1> HIDE DEF r2
<1>2. Made(r)
  BY DEF Sound, Before
<1>3. /\ c2.start = c.start /\ c2.take = c.take /\ c2.claim = c.claim /\ c2.join = c.join
      /\ c2.ends = c.ends
      /\ c2.free = c.free /\ c2.uncount = c.uncount /\ c2.clear = c.clear - 1
  BY DEF Moved, Change, One, Numbers, Claiming
<1>4. QED
  BY <1>1, <1>2, <1>3 DEF Sound, CountSound, StartSound, JoinSound, ClearSound, Hidden, Made, Launched,
       Unclaimed, One, Numbers, r2

\* A call ends that no number speaks of, or that is not needed any more.
LEMMA SoundPop ==
    ASSUME NEW r \in Record, NEW h \in Nat, NEW c \in Numbers, NEW c2 \in Numbers, NEW f \in BOOLEAN,
           NEW s \in Stages, Sound(r, s, h, c, f), NEW pc \in {"clear", "destruct", "uncount"},
           Moved(c, c2, pc, "-", "-")
    PROVE  Sound(r, s, h, c2, f)
<1>1. /\ c2.start = c.start /\ c2.take = c.take /\ c2.claim = c.claim /\ c2.join = c.join
      /\ c2.ends = c.ends
      /\ c2.free = c.free /\ c2.uncount <= c.uncount /\ c2.clear <= c.clear
  BY DEF Moved, Change, One, Numbers, Claiming
<1>2. Before(s, h, c) => Before(s, h, c2)
  BY <1>1 DEF Before, Numbers
<1>3. QED
  BY <1>1, <1>2 DEF Sound, CountSound, StartSound, JoinSound, ClearSound, Hidden, Made, Launched,
       Unclaimed, One, Numbers, Record

LEMMA SoundFree ==
    ASSUME NEW r \in Record, NEW h \in Nat, NEW c \in Numbers, NEW c2 \in Numbers, NEW f \in BOOLEAN,
           NEW s \in Stages, Sound(r, s, h, c, f), c.free > 0,
           Moved(c, c2, "free", "uncount", "-")
    PROVE  Sound([r EXCEPT !.freed = TRUE], s, h, c2, f)
<1> DEFINE r2 == [r EXCEPT !.freed = TRUE]
<1>1. /\ r2.count = r.count /\ r2.state = r.state /\ r2.interp = r.interp
      /\ r2.listed = r.listed /\ r2.freed = TRUE /\ r.count \in Nat
  BY DEF Record
<1> HIDE DEF r2
<1>2. Made(r) /\ r.count = 0 /\ ~ r.freed /\ ~ r.listed /\ c.ends = 1 /\ c.uncount = 0 /\ c.free = 1
  BY DEF Sound, Before, CountSound, One, Numbers, Record
<1>3. /\ c2.start = c.start /\ c2.take = c.take /\ c2.claim = c.claim /\ c2.join = c.join
      /\ c2.ends = 0
      /\ c2.free = 0 /\ c2.uncount = 1 /\ c2.clear = c.clear
  BY <1>2 DEF Moved, Change, One, Numbers, Claiming
<1>4. QED
  BY <1>1, <1>2, <1>3 DEF Sound, CountSound, StartSound, JoinSound, ClearSound, Hidden, Made, Launched,
       Unclaimed, One, Numbers, r2

\* An object goes, to be released.
LEMMA SoundDrop ==
    ASSUME NEW r \in Record, NEW h \in Nat, h > 0, NEW c \in Numbers, NEW c2 \in Numbers, NEW f \in BOOLEAN,
           NEW s \in Stages, Sound(r, s, h, c, f),
           Moved(c, c2, "-", "release", "-")
    PROVE  Sound(r, s, h - 1, c2, f)
<1>1. Made(r)
  BY DEF Sound, Before
<1>2. /\ c2.start = c.start /\ c2.take = c.take /\ c2.claim = c.claim + 1 /\ c2.join = c.join
      /\ c2.ends = c.ends
      /\ c2.free = c.free /\ c2.uncount = c.uncount /\ c2.clear = c.clear
  BY DEF Moved, Change, One, Numbers, Claiming
<1>3. QED
  BY <1>1, <1>2 DEF Sound, CountSound, StartSound, JoinSound, ClearSound, Hidden, Made, Launched,
       Unclaimed, One, Numbers, Record

LEMMA SoundLook ==
    ASSUME NEW r \in Record, NEW h \in Nat, NEW c \in Numbers, NEW c2 \in Numbers, NEW f \in BOOLEAN,
           NEW s \in Stages, Sound(r, s, h, c, f), r.listed, Unclaimed(r), f => c.start = 0,
           Moved(c, c2, "-", "take", "-")
    PROVE  Sound(r, s, h, c2, f)
<1>1. Made(r)
  BY DEF Sound, Unborn
<1>2. /\ c2.start = c.start /\ c2.take = c.take + 1 /\ c2.claim = c.claim /\ c2.join = c.join
      /\ c2.ends = c.ends
      /\ c2.free = c.free /\ c2.uncount = c.uncount /\ c2.clear = c.clear
  BY DEF Moved, Change, One, Numbers, Claiming
<1>3. QED
  BY <1>1, <1>2 DEF Sound, CountSound, StartSound, JoinSound, ClearSound, Hidden, Made, Launched,
       One, Numbers, Record

LEMMA SoundTake ==
    ASSUME NEW r \in Record, NEW h \in Nat, NEW c \in Numbers, NEW c2 \in Numbers, NEW f \in BOOLEAN,
           NEW s \in Stages, Sound(r, s, h, c, f), c.take > 0,
           Moved(c, c2, "take", "-", "-")
    PROVE  Sound([r EXCEPT !.count = @ + 1], s, h + 1, c2, f)
<1> DEFINE r2 == [r EXCEPT !.count = @ + 1]
<1>1. /\ r2.count = r.count + 1 /\ r2.state = r.state /\ r2.interp = r.interp
      /\ r2.listed = r.listed /\ r2.freed = r.freed /\ r.count \in Nat
  BY DEF Record
<1> HIDE DEF r2
<1>2. Made(r) /\ r.count > 0 /\ ~ r.freed
  BY DEF Sound, CountSound, JoinSound, One, Numbers, Record
<1>3. /\ c2.start = c.start /\ c2.take = c.take - 1 /\ c2.claim = c.claim /\ c2.join = c.join
      /\ c2.ends = c.ends
      /\ c2.free = c.free /\ c2.uncount = c.uncount /\ c2.clear = c.clear
  BY DEF Moved, Change, One, Numbers, Claiming
<1>4. QED
  BY <1>1, <1>2, <1>3 DEF Sound, CountSound, StartSound, JoinSound, ClearSound, Hidden, Made, Launched,
       Unclaimed, One, Numbers, r2

LEMMA SoundJoin ==
    ASSUME NEW r \in Record, NEW h \in Nat, NEW c \in Numbers, NEW c2 \in Numbers, NEW f \in BOOLEAN,
           NEW s \in Stages, Sound(r, s, h, c, f), h > 0, Unclaimed(r),
           Moved(c, c2, "-", "join_count", "-")
    PROVE  Sound([r EXCEPT !.state = @ \cup {"JOINED"}], s, h, c2, f)
<1> DEFINE r2 == [r EXCEPT !.state = @ \cup {"JOINED"}]
<1>1. /\ r2.count = r.count /\ r2.state = r.state \cup {"JOINED"} /\ r2.interp = r.interp
      /\ r2.listed = r.listed /\ r2.freed = r.freed /\ r.count \in Nat
  BY DEF Record
<1> HIDE DEF r2
<1>2. Made(r) /\ r.count > 0 /\ ~ r.freed /\ "JOINED" \notin r.state /\ ~ Unclaimed(r2)
  BY <1>1 DEF Sound, Before, CountSound, JoinSound, Unclaimed, One, Numbers, Record
<1>3. /\ c2.start = c.start /\ c2.take = c.take /\ c2.claim = c.claim + 1 /\ c2.join = 1
      /\ c2.ends = c.ends
      /\ c2.free = c.free /\ c2.uncount = c.uncount /\ c2.clear = c.clear
  BY <1>2 DEF Sound, JoinSound, Moved, Change, One, Numbers, Claiming
<1>4. \A x \in {"FINISHED", "DIED"} : x \in r2.state <=> x \in r.state
  BY <1>1
<1>5. QED
  BY <1>1, <1>2, <1>3, <1>4 DEF Sound, CountSound, StartSound, JoinSound, ClearSound, Hidden, Made,
       Launched, One, Numbers, r2

\* join has the pool's mutex, so nobody is taking an object.
LEMMA SoundJoinCount ==
    ASSUME NEW r \in Record, NEW h \in Nat, NEW c \in Numbers, NEW c2 \in Numbers, NEW f \in BOOLEAN,
           NEW s \in Stages, Sound(r, s, h, c, f), c.take = 0, c.join > 0,
           Moved(c, c2, "join_count", "join_wait", "-")
    PROVE  Sound(r, s, h, c2, f) /\ c2.join = 0 /\ c.join = 1
<1>1. Made(r)
  BY DEF Sound, Before
<1>2. /\ c2.start = c.start /\ c2.take = 0 /\ c2.claim = c.claim /\ c2.join = c.join - 1
      /\ c2.ends = c.ends
      /\ c2.free = c.free /\ c2.uncount = c.uncount /\ c2.clear = c.clear
  BY DEF Moved, Change, One, Numbers, Claiming
<1>3. QED
  BY <1>1, <1>2 DEF Sound, CountSound, StartSound, JoinSound, ClearSound, Hidden, Made, Launched,
       One, Numbers, Record

LEMMA SoundReclaim ==
    ASSUME NEW r \in Record, NEW h \in Nat, NEW c \in Numbers, NEW c2 \in Numbers, NEW f \in BOOLEAN,
           NEW s \in Stages, Sound(r, s, h, c, f), NEW pc \in {"join_wait", "detach_free"}, c.claim > 0,
           IF {"FINISHED", "DIED"} \cap r.state = {"FINISHED"}
           THEN Moved(c, c2, pc, "clear", "release") ELSE Moved(c, c2, pc, "release", "-")
    PROVE  Sound(r, s, h, c2, f)
<1>1. Made(r)
  BY DEF Sound, Before
<1> DEFINE well == {"FINISHED", "DIED"} \cap r.state = {"FINISHED"}
<1>2. well => "FINISHED" \in r.state /\ "DIED" \notin r.state
  BY DEF Record, Flags
<1>3. /\ c2.start = c.start /\ c2.take = c.take /\ c2.claim = c.claim /\ c2.join = c.join
      /\ c2.ends = c.ends
      /\ c2.free = c.free /\ c2.uncount = c.uncount /\ (well \/ c2.clear = c.clear)
  BY DEF Moved, Change, One, Numbers, Claiming
<1> HIDE DEF well
<1>4. QED
  BY <1>1, <1>2, <1>3 DEF Sound, CountSound, StartSound, JoinSound, ClearSound, Hidden, Made, Launched,
       One, Numbers, Record

LEMMA SoundDetach ==
    ASSUME NEW r \in Record, NEW h \in Nat, NEW c \in Numbers, NEW c2 \in Numbers, NEW f \in BOOLEAN,
           NEW s \in Stages, Sound(r, s, h, c, f), h > 0 \/ s = "running", Unclaimed(r), c.take = 0,
           Moved(c, c2, "-", "detach_free", "-")
    PROVE  Sound([r EXCEPT !.state = @ \cup {"DETACHED"}], s, h, c2, f)
<1> DEFINE r2 == [r EXCEPT !.state = @ \cup {"DETACHED"}]
<1>1. /\ r2.count = r.count /\ r2.state = r.state \cup {"DETACHED"} /\ r2.interp = r.interp
      /\ r2.listed = r.listed /\ r2.freed = r.freed /\ r.count \in Nat
  BY DEF Record
<1> HIDE DEF r2
<1>2. Made(r) /\ r.count > 0 /\ ~ r.freed /\ "JOINED" \notin r.state /\ ~ Unclaimed(r2)
  <2>1. Made(r)
    BY DEF Sound, Before
  <2>2. r.count > 0 /\ ~ r.freed
    BY <2>1 DEF Sound, CountSound, One, Numbers, Record
  <2>3. "JOINED" \notin r.state
    BY DEF Unclaimed
  <2>4. "DETACHED" \in r2.state
    BY <1>1
  <2>5. QED  BY <2>1, <2>2, <2>3, <2>4 DEF Unclaimed
<1>3. /\ c2.start = c.start /\ c2.take = 0 /\ c2.claim = c.claim + 1 /\ c2.join = c.join
      /\ c2.ends = c.ends
      /\ c2.free = c.free /\ c2.uncount = c.uncount /\ c2.clear = c.clear
  BY DEF Moved, Change, One, Numbers, Claiming
<1>4. \A x \in {"FINISHED", "DIED", "JOINED"} : x \in r2.state <=> x \in r.state
  BY <1>1
<1>5. f => c.start = 0
  BY DEF Sound, Hidden, StartSound, Numbers
<1>6. Made(r2)
  BY <1>1, <1>2 DEF Made
<1>7. CountSound(r2, s, h, c2)
  BY <1>1, <1>2, <1>3, <1>6 DEF Sound, CountSound, One, Numbers
<1>8. StartSound(r2, s, c2)
  BY <1>2, <1>3, <1>4 DEF Sound, StartSound
<1>9. JoinSound(r2, s, c2)
  BY <1>3, <1>4 DEF Sound, JoinSound, Launched, Numbers
<1>10. ClearSound(r2, c2)
  BY <1>1, <1>3, <1>4 DEF Sound, ClearSound
<1>11. Hidden(r2, h, c2) \/ ~ f
  BY <1>3, <1>5 DEF Hidden
<1>12. QED  BY <1>6, <1>7, <1>8, <1>9, <1>10, <1>11 DEF Sound, r2

LEMMA SoundFinish ==
    ASSUME NEW r \in Record, NEW h \in Nat, NEW c \in Numbers, NEW f \in BOOLEAN,
           Sound(r, "running", h, c, f), NEW died \in {{}, {"DIED"}}
    PROVE  Sound([r EXCEPT !.state = @ \cup {"FINISHED"} \cup died], "finished", h, c, f)
<1> DEFINE r2 == [r EXCEPT !.state = @ \cup {"FINISHED"} \cup died]
<1>1. /\ r2.count = r.count /\ r2.state = r.state \cup {"FINISHED"} \cup died /\ r2.interp = r.interp
      /\ r2.listed = r.listed /\ r2.freed = r.freed /\ r.count \in Nat
  BY DEF Record
<1> HIDE DEF r2
<1>2. Made(r) /\ r.count > 0 /\ "FINISHED" \notin r.state /\ c.start = 0
  BY DEF Sound, Before, CountSound, StartSound, One, Numbers, Record
<1>3. \A x \in {"JOINED", "DETACHED"} : x \in r2.state <=> x \in r.state
  BY <1>1
<1>4. Unclaimed(r2) <=> Unclaimed(r)
  BY <1>3 DEF Unclaimed
<1>5. QED
  BY <1>1, <1>2, <1>3, <1>4 DEF Sound, CountSound, StartSound, JoinSound, ClearSound, Hidden, Made,
       Launched, One, Numbers, r2

LEMMA SoundEnd ==
    ASSUME NEW r \in Record, NEW h \in Nat, NEW c \in Numbers, NEW c2 \in Numbers, NEW f \in BOOLEAN,
           Sound(r, "finished", h, c, f), Moved(c, c2, "-", "release", "-")
    PROVE  Sound(r, "releasing", h, c2, f)
<1>1. Made(r) /\ c.start = 0
  BY DEF Sound, Before, StartSound, Numbers
<1>2. /\ c2.start = c.start /\ c2.take = c.take /\ c2.claim = c.claim + 1 /\ c2.join = c.join
      /\ c2.ends = c.ends
      /\ c2.free = c.free /\ c2.uncount = c.uncount /\ c2.clear = c.clear
  BY DEF Moved, Change, One, Numbers, Claiming
<1>3. QED
  BY <1>1, <1>2 DEF Sound, CountSound, StartSound, JoinSound, ClearSound, Hidden, Made, Launched,
       One, Numbers, Record

LEMMA SoundGone ==
    ASSUME NEW r \in Record, NEW h \in Nat, NEW c \in Numbers, NEW f \in BOOLEAN,
           Sound(r, "releasing", h, c, f)
    PROVE  Sound(r, "gone", h, c, f)
BY DEF Sound, Before, CountSound, StartSound, JoinSound, ClearSound, Hidden, Made, Launched, One,
       Numbers, Record

-----------------------------------------------------------------------------
\* The numbers of the pool: which of its counts a thread is in.

InRunning(r, s, c) ==
    Made(r) /\ (Launched(s, c) => "FINISHED" \notin r.state /\ "DETACHED" \notin r.state)
InDetached(r) == Made(r) /\ "DETACHED" \in r.state /\ "FINISHED" \notin r.state
InFinished(r, s, c) ==
    Made(r) /\ Launched(s, c) /\ "FINISHED" \in r.state /\ "DETACHED" \notin r.state
InJoinCounted(r, s, c) == Made(r) /\ Launched(s, c) /\ "JOINED" \in r.state /\ c.join = 0
InExisting(r, c) == Made(r) /\ (~ r.freed \/ c.uncount > 0)

\* The numbers of the pool follow one thread.
PoolMoves(p, p2, r, s, c, r2, s2, c2) ==
    /\ p2.running = p.running - One(InRunning(r, s, c)) + One(InRunning(r2, s2, c2))
    /\ p2.detached = p.detached - One(InDetached(r)) + One(InDetached(r2))
    /\ p2.joinable = p.joinable - One(InFinished(r, s, c)) + One(InFinished(r2, s2, c2))
                                + One(InJoinCounted(r, s, c)) - One(InJoinCounted(r2, s2, c2))
    /\ p2.total = p.total - One(InExisting(r, c)) + One(InExisting(r2, c2))

Pool == [running : Int, joinable : Int, detached : Int, total : Int]

LEMMA PoolSame ==
    ASSUME NEW p \in Pool, NEW r, NEW s, NEW c, NEW r2, NEW s2, NEW c2,
           Made(r) <=> Made(r2), r2.state = r.state, Launched(s, c) <=> Launched(s2, c2),
           c.join = 0 <=> c2.join = 0, InExisting(r, c) <=> InExisting(r2, c2)
    PROVE  PoolMoves(p, p, r, s, c, r2, s2, c2)
<1>1. /\ One(InRunning(r, s, c)) = One(InRunning(r2, s2, c2)) /\ One(InDetached(r)) = One(InDetached(r2))
      /\ One(InFinished(r, s, c)) = One(InFinished(r2, s2, c2))
      /\ One(InJoinCounted(r, s, c)) = One(InJoinCounted(r2, s2, c2))
      /\ One(InExisting(r, c)) = One(InExisting(r2, c2))
  BY DEF One, InRunning, InDetached, InFinished, InJoinCounted
<1>2. p.running \in Int /\ p.detached \in Int /\ p.joinable \in Int /\ p.total \in Int
  BY DEF Pool
<1>3. \A e : One(e) \in Int
  BY DEF One
<1>4. /\ p.running = p.running - One(InRunning(r, s, c)) + One(InRunning(r2, s2, c2))
      /\ p.detached = p.detached - One(InDetached(r)) + One(InDetached(r2))
      /\ p.total = p.total - One(InExisting(r, c)) + One(InExisting(r2, c2))
  BY <1>1, <1>2, <1>3
<1>5. p.joinable = p.joinable - One(InFinished(r, s, c)) + One(InFinished(r2, s2, c2))
                     + One(InJoinCounted(r, s, c)) - One(InJoinCounted(r2, s2, c2))
  BY <1>1, <1>2, <1>3
<1>6. QED  BY <1>4, <1>5, Zenon DEF PoolMoves

\* A and B differ in t at most.
LEMMA OneMoves ==
    ASSUME NEW A \in SUBSET Ithread, NEW B \in SUBSET Ithread, NEW t \in Ithread, IsFiniteSet(A),
           \A x \in Ithread : x # t => (x \in B <=> x \in A)
    PROVE  /\ IsFiniteSet(B) /\ Cardinality(A) \in Nat
           /\ Cardinality(B) = Cardinality(A) - One(t \in A) + One(t \in B)
<1>1. Cardinality(A) \in Nat
  BY FS_CardinalityType
<1>2. CASE (t \in A) <=> (t \in B)
  <2>1. A = B
    BY <1>2
  <2>2. QED  BY <1>1, <2>1 DEF One
<1>3. CASE t \in A /\ t \notin B
  <2>1. B = A \ {t}
    BY <1>3
  <2>2. IsFiniteSet(B) /\ Cardinality(B) = Cardinality(A) - 1
    BY <1>3, <2>1, FS_RemoveElement
  <2>3. QED  BY <1>1, <1>3, <2>2 DEF One
<1>4. CASE t \notin A /\ t \in B
  <2>1. B = A \cup {t}
    BY <1>4
  <2>2. IsFiniteSet(B) /\ Cardinality(B) = Cardinality(A) + 1
    BY <1>4, <2>1, FS_AddElement
  <2>3. QED  BY <1>1, <1>4, <2>2 DEF One
<1>5. QED  BY <1>2, <1>3, <1>4

\* The sets the pool counts, by the numbers of their threads.
Tally(t) == TallyOf(op, t)
AllSound ==
    \A t \in Ithread : Sound(rec[t], os[t], Cardinality(Holders(t)), Tally(t), t \in Refused)

Counted4 ==
    /\ Known \subseteq Ithread /\ IsFiniteSet(Known)
    /\ Running \subseteq Known /\ Detached \subseteq Known /\ Finished \subseteq Known
    /\ JoinCounted \subseteq Known /\ Existing \subseteq Known
    /\ \A t \in Ithread :
          /\ t \in Known <=> Made(rec[t])
          /\ t \in Running <=> InRunning(rec[t], os[t], Tally(t))
          /\ t \in Detached <=> InDetached(rec[t])
          /\ t \in Finished <=> InFinished(rec[t], os[t], Tally(t))
          /\ t \in JoinCounted <=> InJoinCounted(rec[t], os[t], Tally(t))
          /\ t \in Existing <=> InExisting(rec[t], Tally(t))

LEMMA Members == Finite /\ AllSound => Counted4
<1> SUFFICES ASSUME Finite, AllSound PROVE Counted4
  OBVIOUS
<1>1. AllFinite(op)
  BY DEF Finite, AllFinite
<1>2. ASSUME NEW t \in Ithread
      PROVE  /\ At(t, {"start"}) # {} <=> Tally(t).start > 0
             /\ At(t, {"join_count"}) = {} <=> Tally(t).join = 0
             /\ At(t, {"uncount"}) # {} <=> Tally(t).uncount > 0
  <2>1. \A pcs \in SUBSET Places : At(t, pcs) = {} <=> Num(op, t, pcs) = 0
    <3>1. ASSUME NEW pcs \in SUBSET Places PROVE At(t, pcs) = {} <=> Num(op, t, pcs) = 0
      <4>1. At(t, pcs) = PlacesOf(op, t, pcs)
        BY DEF At, PlacesOf
      <4>2. QED  BY <1>1, <4>1, NumFacts
    <3>2. QED  BY <3>1
  <2>2. {"start"} \in SUBSET Places /\ {"join_count"} \in SUBSET Places /\ {"uncount"} \in SUBSET Places
    BY DEF Places
  <2>3. \A pcs \in SUBSET Places : Num(op, t, pcs) \in Nat
    BY <1>1, NumFacts
  <2>4. QED  BY <2>1, <2>2, <2>3 DEF Tally, TallyOf
<1>3. \A t \in Ithread : rec[t] # Unborn <=> Made(rec[t])
  BY DEF AllSound, Sound, Made, Unborn
<1>4. QED
  BY <1>2, <1>3 DEF Counted4, Finite, Known, Running, Detached, Finished, JoinCounted, Existing, InRunning,
     InDetached, InFinished, InJoinCounted, InExisting, Started, Has, Launched

LEMMA MembersNext == (Finite /\ AllSound => Counted4)'
BY Members, PTL

Similar(t) ==
    /\ rec'[t].state = rec[t].state /\ rec'[t].interp = rec[t].interp /\ rec'[t].freed = rec[t].freed
    /\ os'[t] = os[t] /\ TallyOf(op', t) = Tally(t)

LEMMA PoolFollows ==
    ASSUME Finite, AllSound, CountersAgree, pool \in Pool, Finite', AllSound', NEW t \in Ithread,
           \A x \in Ithread : x # t => Similar(x),
           PoolMoves(pool, pool', rec[t], os[t], Tally(t), rec'[t], os'[t], TallyOf(op', t))
    PROVE  CountersAgree'
<1>1. Counted4 /\ Counted4'
  BY Members, MembersNext
<1>2. Tally(t)' = TallyOf(op', t)
  BY DEF Tally
<1>3. ASSUME NEW x \in Ithread, x # t
      PROVE  /\ x \in Running' <=> x \in Running
             /\ x \in Detached' <=> x \in Detached
             /\ x \in Finished' <=> x \in Finished
             /\ x \in JoinCounted' <=> x \in JoinCounted
             /\ x \in Existing' <=> x \in Existing
  <2>1. Similar(x)
    BY <1>3
  <2>2. Tally(x)' = Tally(x)
    BY <2>1 DEF Similar, Tally
  <2>3. /\ rec'[x].state = rec[x].state /\ rec'[x].interp = rec[x].interp /\ rec'[x].freed = rec[x].freed
        /\ os'[x] = os[x]
    BY <2>1 DEF Similar
  <2> DEFINE c2 == Tally(x)'
  <2>4. /\ InRunning(rec'[x], os'[x], c2) <=> InRunning(rec[x], os[x], Tally(x))
        /\ InDetached(rec'[x]) <=> InDetached(rec[x])
        /\ InFinished(rec'[x], os'[x], c2) <=> InFinished(rec[x], os[x], Tally(x))
        /\ InJoinCounted(rec'[x], os'[x], c2) <=> InJoinCounted(rec[x], os[x], Tally(x))
        /\ InExisting(rec'[x], c2) <=> InExisting(rec[x], Tally(x))
    BY <2>2, <2>3 DEF InRunning, InDetached, InFinished, InJoinCounted, InExisting, Made
  <2>5. QED  BY <1>1, <2>4 DEF Counted4
<1>4. /\ Running \in SUBSET Ithread /\ Detached \in SUBSET Ithread /\ Finished \in SUBSET Ithread
      /\ JoinCounted \in SUBSET Ithread /\ Existing \in SUBSET Ithread
      /\ IsFiniteSet(Running) /\ IsFiniteSet(Detached) /\ IsFiniteSet(Finished)
      /\ IsFiniteSet(JoinCounted) /\ IsFiniteSet(Existing)
  BY <1>1, FS_Subset DEF Counted4
<1>5. /\ Running' \in SUBSET Ithread /\ Detached' \in SUBSET Ithread /\ Finished' \in SUBSET Ithread
      /\ JoinCounted' \in SUBSET Ithread /\ Existing' \in SUBSET Ithread
  BY <1>1 DEF Counted4
<1> DEFINE N(A, B) == Cardinality(B) = Cardinality(A) - One(t \in A) + One(t \in B) /\ Cardinality(A) \in Nat
<1>6. N(Running, Running')
  BY <1>3, <1>4, <1>5, OneMoves
<1>7. N(Detached, Detached')
  BY <1>3, <1>4, <1>5, OneMoves
<1>8. N(Finished, Finished')
  BY <1>3, <1>4, <1>5, OneMoves
<1>9. N(JoinCounted, JoinCounted')
  BY <1>3, <1>4, <1>5, OneMoves
<1>10. N(Existing, Existing')
  BY <1>3, <1>4, <1>5, OneMoves
<1>11. /\ t \in Running <=> InRunning(rec[t], os[t], Tally(t))
       /\ t \in Detached <=> InDetached(rec[t])
       /\ t \in Finished <=> InFinished(rec[t], os[t], Tally(t))
       /\ t \in JoinCounted <=> InJoinCounted(rec[t], os[t], Tally(t))
       /\ t \in Existing <=> InExisting(rec[t], Tally(t))
  BY <1>1 DEF Counted4
<1>12. /\ t \in Running' <=> InRunning(rec'[t], os'[t], TallyOf(op', t))
       /\ t \in Detached' <=> InDetached(rec'[t])
       /\ t \in Finished' <=> InFinished(rec'[t], os'[t], TallyOf(op', t))
       /\ t \in JoinCounted' <=> InJoinCounted(rec'[t], os'[t], TallyOf(op', t))
       /\ t \in Existing' <=> InExisting(rec'[t], TallyOf(op', t))
  BY <1>1, <1>2 DEF Counted4
<1>13. /\ pool'.running = pool.running - One(t \in Running) + One(t \in Running')
       /\ pool'.detached = pool.detached - One(t \in Detached) + One(t \in Detached')
       /\ pool'.joinable = pool.joinable - One(t \in Finished) + One(t \in Finished')
                              + One(t \in JoinCounted) - One(t \in JoinCounted')
       /\ pool'.total = pool.total - One(t \in Existing) + One(t \in Existing')
  <2> HIDE DEF N
  <2>1. /\ One(t \in Running) = One(InRunning(rec[t], os[t], Tally(t)))
        /\ One(t \in Detached) = One(InDetached(rec[t]))
        /\ One(t \in Finished) = One(InFinished(rec[t], os[t], Tally(t)))
        /\ One(t \in JoinCounted) = One(InJoinCounted(rec[t], os[t], Tally(t)))
        /\ One(t \in Existing) = One(InExisting(rec[t], Tally(t)))
    BY <1>11 DEF One
  <2>2. /\ One(t \in Running') = One(InRunning(rec'[t], os'[t], TallyOf(op', t)))
        /\ One(t \in Detached') = One(InDetached(rec'[t]))
        /\ One(t \in Finished') = One(InFinished(rec'[t], os'[t], TallyOf(op', t)))
        /\ One(t \in JoinCounted') = One(InJoinCounted(rec'[t], os'[t], TallyOf(op', t)))
        /\ One(t \in Existing') = One(InExisting(rec'[t], TallyOf(op', t)))
    BY <1>12 DEF One
  <2>3. QED  BY <2>1, <2>2 DEF PoolMoves
<1>14. \A e : One(e) \in Int
  BY DEF One
<1>15. pool'.running = Cardinality(Running')
  BY <1>6, <1>13, <1>14 DEF CountersAgree
<1>16. pool'.detached = Cardinality(Detached')
  BY <1>7, <1>13, <1>14 DEF CountersAgree
<1>17. pool'.joinable = Cardinality(Finished') - Cardinality(JoinCounted')
  BY <1>8, <1>9, <1>13, <1>14 DEF CountersAgree
<1>18. pool'.total = Cardinality(Existing')
  BY <1>10, <1>13, <1>14 DEF CountersAgree
<1>19. QED  BY <1>15, <1>16, <1>17, <1>18 DEF CountersAgree

-----------------------------------------------------------------------------
\* The calls of one interpreter.

\* No call of these was begun from Perl code: they all come of a free.
Inner(calls) == Nested(calls) /\ \A i \in 1 .. Len(calls) : calls[i].pc \notin Base

LEMMA InnerEmpty == Inner(<<>>)
BY DEF Inner, Nested

LEMMA InnerSettled ==
    ASSUME NEW q, Inner(q), NEW u, NEW mine, NEW mutex
    PROVE  Settled(u, q, mine, mutex)
BY DEF Inner, Settled, Base

LEMMA InnerOuter ==
    ASSUME NEW q \in Seq(Call), q # <<>>, Nested(q)
    PROVE  Inner(Outer(q))
<1>1. /\ Len(q) \in Nat \ {0} /\ Len(Outer(q)) = Len(q) - 1
      /\ \A i \in 1 .. Len(q) - 1 : Outer(q)[i] = q[i]
  BY OuterFacts
<1>2. ASSUME NEW i \in 1 .. Len(Outer(q))
      PROVE  /\ Outer(q)[i].pc \notin Base
             /\ Outer(q)[i].pc \in {"clear", "destruct"} =>
                   /\ i > 1
                   /\ Outer(q)[i - 1].on = Outer(q)[i].on
                   /\ Outer(q)[i - 1].pc \in {"release", "free"}
  <2>1. i \in 1 .. Len(q) /\ i \in 1 .. Len(q) - 1 /\ Len(q) # 1
    BY <1>1
  <2>2. Outer(q)[i] = q[i]
    BY <1>1, <2>1
  <2>3. i > 1 => Outer(q)[i - 1] = q[i - 1]
    <3>1. i > 1 => i - 1 \in 1 .. Len(q) - 1
      BY <1>1, <2>1
    <3>2. QED  BY <1>1, <3>1
  <2>4. QED  BY <2>1, <2>2, <2>3 DEF Nested
<1>3. QED  BY <1>2 DEF Inner, Nested

LEMMA InnerPush ==
    ASSUME NEW q \in Seq(Call), Inner(q), NEW f \in Call, f.pc \notin Base,
           f.pc \in {"clear", "destruct"} =>
              q # <<>> /\ q[Len(q)].on = f.on /\ q[Len(q)].pc \in {"release", "free"}
    PROVE  Inner(Append(q, f)) /\ Append(q, f) \in Seq(Call)
<1> DEFINE n == Len(q)
           p == Append(q, f)
<1>1. p \in Seq(Call) /\ n \in Nat /\ Len(p) = n + 1 /\ p[n + 1] = f /\ \A i \in 1 .. n : p[i] = q[i]
  BY AppendProperties, LenProperties
<1>2. q # <<>> => n > 0
  BY EmptySeq, LenProperties
<1> HIDE DEF p
<1>3. ASSUME NEW i \in 1 .. Len(p)
      PROVE  /\ p[i].pc \notin Base
             /\ p[i].pc \in {"clear", "destruct"} =>
                   i > 1 /\ p[i - 1].on = p[i].on /\ p[i - 1].pc \in {"release", "free"}
  <2>1. CASE i = n + 1
    <3>1. p[i] = f /\ i - 1 = n
      BY <1>1, <2>1
    <3>2. n > 0 => p[n] = q[n]
      BY <1>1
    <3>3. QED  BY <1>1, <1>2, <2>1, <3>1, <3>2
  <2>2. CASE i # n + 1
    <3>1. i \in 1 .. n /\ p[i] = q[i]
      BY <1>1, <2>2
    <3>2. i > 1 => p[i - 1] = q[i - 1]
      BY <1>1, <3>1
    <3>3. QED  BY <3>1, <3>2 DEF Inner, Nested
  <2>3. QED  BY <2>1, <2>2
<1>4. QED  BY <1>1, <1>3 DEF Inner, Nested, p

\* A call from Perl code is the only one.
LEMMA FirstSettled ==
    ASSUME NEW f \in Call, f.pc \notin {"clear", "destruct"}, NEW u, NEW mine, NEW mutex,
           f.pc = "take" => mutex = u /\ f.on \notin mine,
           f.pc = "start" => u \in Creators /\ f.on \notin mine
    PROVE  Settled(u, Append(<<>>, f), mine, mutex)
<1> DEFINE p == Append(<<>>, f)
<1>1. Len(p) = 1 /\ \A i \in 1 .. Len(p) : p[i] = f
  OBVIOUS
<1> HIDE DEF p
<1>2. QED  BY <1>1 DEF Settled, Nested, p

LEMMA TopFacts ==
    ASSUME NEW q \in Seq(Call), q # <<>>, Nested(q)
    PROVE  /\ q[Len(q)].pc \in Base => Len(q) = 1 /\ Outer(q) = <<>>
           /\ q[Len(q)].pc \notin Base => Inner(q)
           /\ q[Len(q)].pc \in {"clear", "destruct"} =>
                 /\ Outer(q) # <<>>
                 /\ Outer(q)[Len(Outer(q))].on = q[Len(q)].on
                 /\ Outer(q)[Len(Outer(q))].pc \in {"release", "free"}
<1>1. /\ Outer(q) \in Seq(Call) /\ Len(q) \in Nat \ {0} /\ Len(Outer(q)) = Len(q) - 1
      /\ \A i \in 1 .. Len(q) - 1 : Outer(q)[i] = q[i]
  BY OuterFacts
<1>2. Len(q) \in 1 .. Len(q)
  BY <1>1
<1>3. q[Len(q)].pc \in Base => Len(q) = 1 /\ Outer(q) = <<>>
  BY <1>1, <1>2, EmptySeq DEF Nested
<1>4. q[Len(q)].pc \notin Base => Inner(q)
  <2>1. ASSUME NEW i \in 1 .. Len(q), q[i].pc \in Base PROVE q[Len(q)].pc \in Base
    BY <1>1, <2>1 DEF Nested
  <2>2. QED  BY <2>1 DEF Inner
<1>5. ASSUME q[Len(q)].pc \in {"clear", "destruct"}
      PROVE  /\ Outer(q) # <<>>
             /\ Outer(q)[Len(Outer(q))].on = q[Len(q)].on
             /\ Outer(q)[Len(Outer(q))].pc \in {"release", "free"}
  <2>1. Len(q) > 1 /\ q[Len(q) - 1].on = q[Len(q)].on /\ q[Len(q) - 1].pc \in {"release", "free"}
    BY <1>2, <1>5 DEF Nested
  <2>2. Len(q) - 1 \in 1 .. Len(q) - 1
    BY <1>1, <2>1
  <2>3. Outer(q)[Len(Outer(q))] = q[Len(q) - 1]
    BY <1>1, <2>2
  <2>4. Outer(q) # <<>>
    BY <1>1, <2>1, EmptySeq
  <2>5. QED  BY <2>1, <2>3, <2>4
<1>6. QED  BY <1>3, <1>4, <1>5

-----------------------------------------------------------------------------
\* What a step of interpreter u has to do, when it changes the state of thread
\* t at most.

LEMMA Kept ==
    ASSUME LifecycleInv, NEW u \in Interp, NEW t \in Ithread,
           TypeOK', Finite', AllSound', Made(rec'[t]),
           \A x \in Ithread : x # t => Similar(x),
           \A v \in Interp : v # u => op'[v] = op[v],
           \A v \in Interp : v # u => objs'[v] \subseteq objs[v] \/ (v = t /\ op[v] = <<>>),
           u # Main => Made(rec'[u]) /\ (op'[u] = <<>> \/ os'[u] \notin {"none", "finished"}),
           os'[t] \in {"none", "finished"} => os'[t] = os[t] \/ t = u,
           Settled(u, op'[u], objs'[u], poolMutex'),
           poolMutex' = poolMutex \/ poolMutex = Nobody \/ poolMutex = u,
           PoolMoves(pool, pool', rec[t], os[t], Tally(t), rec'[t], os'[t], TallyOf(op', t))
    PROVE  LifecycleInv'
<1>1. TypeOK /\ Finite /\ AllSound /\ CountersAgree
  BY DEF LifecycleInv, AllSound, Tally
<1>2. pool \in Pool
  BY <1>1 DEF TypeOK, Pool
<1>3. CountersAgree'
  BY <1>1, <1>2, PoolFollows
<1>4. ASSUME NEW x \in Ithread PROVE Quiet(x)'
  <2>1. Quiet(x) /\ (~ Made(rec[x]) => rec[x] = Unborn)
    BY <1>1 DEF LifecycleInv, AllSound, Sound
  <2>2. x # Main /\ x \in Interp
    BY LifecycleAssumption DEF Interp
  <2>3. ASSUME rec'[x] = Unborn PROVE objs'[x] = {}
    <3>1. ~ Made(rec'[x])
      BY <2>3 DEF Made, Unborn
    <3>2. x # t /\ x # u
      BY <2>2, <3>1
    <3>3. rec[x] = Unborn
      BY <2>1, <3>1, <3>2 DEF Made, Similar
    <3>4. QED  BY <2>1, <2>2, <3>2, <3>3 DEF Quiet
  <2>4. ASSUME os'[x] \in {"none", "finished"} PROVE op'[x] = <<>>
    <3>1. CASE x = u
      BY <2>2, <2>4, <3>1
    <3>2. CASE x # u
      <4>1. os'[x] = os[x]
        BY <2>4, <3>2 DEF Similar
      <4>2. QED  BY <2>1, <2>2, <2>4, <3>2, <4>1 DEF Quiet
    <3>3. QED  BY <3>1, <3>2
  <2>5. QED  BY <2>3, <2>4 DEF Quiet
<1>5. ASSUME NEW v \in Interp PROVE Settled(v, op'[v], objs'[v], poolMutex')
  <2>1. CASE v = u
    BY <2>1
  <2>2. CASE v # u /\ op[v] = <<>>
    <3>1. op'[v] = <<>>
      BY <2>2
    <3>2. QED  BY <3>1, InnerEmpty, InnerSettled
  <2>3. CASE v # u /\ op[v] # <<>>
    <3>1. op'[v] = op[v] /\ objs'[v] \subseteq objs[v] /\ v # Nobody
      BY <2>3, LifecycleAssumption
    <3>2. Settled(v, op[v], objs[v], poolMutex)
      BY DEF LifecycleInv
    <3>3. poolMutex = v => poolMutex' = v
      BY <2>3, <3>1
    <3>4. QED  BY <3>1, <3>2, <3>3 DEF Settled
  <2>4. QED  BY <2>1, <2>2, <2>3
<1>6. \A x \in Ithread :
         Sound(rec[x], os[x], Cardinality(Holders(x)), TallyOf(op, x), x \in Refused)'
  BY DEF AllSound, Tally
<1>7. QED  BY <1>3, <1>4, <1>5, <1>6 DEF LifecycleInv

\* The usual step: no other record changes, and no other thread's objects.
Alone(t) ==
    \A x \in Ithread :
        x # t => /\ rec'[x] = rec[x] /\ os'[x] = os[x] /\ TallyOf(op', x) = Tally(x)
                 /\ \A v \in Interp : x \in objs'[v] <=> x \in objs[v]

LEMMA AloneKeeps ==
    ASSUME LifecycleInv, NEW t \in Ithread, Alone(t), AllFinite(op'), IsFiniteSet(Holders(t)'),
           Made(rec[t]),
           Sound(rec'[t], os'[t], Cardinality(Holders(t)'), TallyOf(op', t), t \in Refused)
    PROVE  Finite' /\ AllSound' /\ \A x \in Ithread : x # t => Similar(x)
<1>1. TypeOK /\ Finite /\ AllSound
  BY DEF LifecycleInv, AllSound, Tally
<1>2. ASSUME NEW x \in Ithread, x # t
      PROVE  Holders(x)' = Holders(x) /\ rec'[x] = rec[x] /\ os'[x] = os[x] /\ TallyOf(op', x) = Tally(x)
  BY <1>2 DEF Alone, Holders
<1>3. \A x \in Ithread : x # t => Similar(x)
  BY <1>2 DEF Similar
<1>4. AllSound'
  <2>1. ASSUME NEW x \in Ithread
        PROVE  Sound(rec'[x], os'[x], Cardinality(Holders(x)'), TallyOf(op', x), x \in Refused)
    <3>1. CASE x = t
      BY <3>1
    <3>2. CASE x # t
      <4>1. Sound(rec[x], os[x], Cardinality(Holders(x)), Tally(x), x \in Refused)
        BY <1>1 DEF AllSound
      <4>2. QED  BY <1>2, <3>2, <4>1
    <3>3. QED  BY <3>1, <3>2
  <2>2. QED  BY <2>1 DEF AllSound, Tally
<1>5. Finite'
  <2>1. \A x \in Ithread : IsFiniteSet(Holders(x)')
    BY <1>1, <1>2 DEF Finite
  <2>2. \A x \in Ithread : IsFiniteSet(PlacesOf(op', x, Places))
    BY DEF AllFinite
  <2>3. IsFiniteSet(Known')
    <3>1. Known' \subseteq Known
      BY <1>2 DEF Known, Made, Unborn
    <3>2. QED  BY <1>1, <3>1, FS_Subset DEF Finite
  <2>4. QED  BY <2>1, <2>2, <2>3 DEF Finite
<1>6. QED  BY <1>3, <1>4, <1>5

\* Whoever runs Perl code, or is in a call, has begun.
LEMMA ActorKnown ==
    ASSUME LifecycleInv, NEW u \in Interp, u # Main, Calls(u) \/ op[u] # <<>>
    PROVE  u \in Ithread /\ Made(rec[u]) /\ os[u] \notin {"none", "finished"}
<1>1. u \in Ithread
  BY DEF Interp
<1>2. os[u] \notin {"none", "finished"}
  BY <1>1 DEF Calls, LifecycleInv, Quiet
<1>3. Sound(rec[u], os[u], Cardinality(Holders(u)), TallyOf(op, u), u \in Refused)
  BY <1>1 DEF LifecycleInv
<1>4. QED  BY <1>1, <1>2, <1>3 DEF Sound, Before

\* The call an interpreter is in, on a thread that was made.
LEMMA FrameFacts ==
    ASSUME LifecycleInv, NEW u \in Interp, NEW pc \in Places, In(u, pc)
    PROVE  /\ On(u) \in Ithread /\ op[u] \in Seq(Call) /\ op[u] # <<>> /\ Nested(op[u])
           /\ op[u][Len(op[u])] \in Call /\ op[u][Len(op[u])].pc = pc /\ op[u][Len(op[u])].on = On(u)
           /\ \A pcs \in SUBSET Places : pc \in pcs => Num(op, On(u), pcs) > 0
           /\ u = Main \/ (u \in Ithread /\ Made(rec[u]) /\ os[u] \notin {"none", "finished"})
<1> DEFINE n == Len(op[u])
<1>1. op[u] \in Seq(Call) /\ op[u] # <<>> /\ Nested(op[u])
  BY DEF LifecycleInv, TypeOK, Call, In, Settled
<1>2. n \in 1 .. n
  BY <1>1, EmptySeq
<1>3. op[u][n] \in Call /\ op[u][n].pc = pc /\ op[u][n].on = On(u)
  BY <1>1, <1>2, ElementOfSeq DEF In, On
<1>4. On(u) \in Ithread
  BY <1>3 DEF Call
<1>5. AllFinite(op)
  BY DEF LifecycleInv, Finite, AllFinite
<1>6. ASSUME NEW pcs \in SUBSET Places, pc \in pcs PROVE Num(op, On(u), pcs) > 0
  <2>1. <<u, n>> \in PlacesOf(op, On(u), pcs)
    BY <1>2, <1>3, <1>6, PlaceIn
  <2>2. Num(op, On(u), pcs) \in Nat /\ Num(op, On(u), pcs) # 0
    BY <1>4, <1>5, <2>1, NumFacts
  <2>3. QED  BY <2>2
<1>7. u = Main \/ (u \in Ithread /\ Made(rec[u]) /\ os[u] \notin {"none", "finished"})
  BY <1>1, ActorKnown
<1>8. QED  BY <1>1, <1>3, <1>4, <1>6, <1>7

\* With the pool's mutex free nobody is taking an object.
LEMMA NobodyTakes ==
    ASSUME LifecycleInv, PoolFree, NEW t \in Ithread
    PROVE  Tally(t).take = 0
<1>1. AllFinite(op)
  BY DEF LifecycleInv, Finite, AllFinite
<1>2. {"take"} \in SUBSET Places
  BY DEF Places
<1>3. ASSUME NEW p \in PlacesOf(op, t, {"take"}) PROVE FALSE
  <2>1. <<p[1], p[2]>> \in PlacesOf(op, t, {"take"})
    BY PlacesArePairs
  <2>2. p[1] \in Interp /\ p[2] \in 1 .. Len(op[p[1]]) /\ op[p[1]][p[2]].pc = "take"
    BY <2>1, PlaceIn
  <2>3. poolMutex = p[1]
    BY <2>2 DEF LifecycleInv, Settled
  <2>4. QED  BY <2>2, <2>3, LifecycleAssumption DEF PoolFree
<1>4. Num(op, t, {"take"}) = 0
  BY <1>1, <1>2, <1>3, NumFacts
<1>5. QED  BY <1>4 DEF Tally, TallyOf

\* A call at one place is a call at any of several.
LEMMA TallyOrder ==
    ASSUME NEW o, AllFinite(o), NEW t \in Ithread
    PROVE  TallyOf(o, t).join <= TallyOf(o, t).claim /\ TallyOf(o, t).free <= TallyOf(o, t).ends
<1>1. ASSUME NEW A \in SUBSET Places, NEW B \in SUBSET Places, A \subseteq B
      PROVE  Num(o, t, A) <= Num(o, t, B)
  <2>1. PlacesOf(o, t, A) \subseteq PlacesOf(o, t, B)
    BY <1>1 DEF PlacesOf
  <2>2. IsFiniteSet(PlacesOf(o, t, B))
    BY NumFacts
  <2>3. QED  BY <2>1, <2>2, FS_Subset DEF Num
<1>2. /\ {"join_count"} \in SUBSET Places /\ Claiming \in SUBSET Places /\ {"join_count"} \subseteq Claiming
      /\ {"free"} \in SUBSET Places /\ {"unlink", "free"} \in SUBSET Places
      /\ {"free"} \subseteq {"unlink", "free"}
  BY DEF Claiming, Places
<1>3. Num(o, t, {"join_count"}) <= Num(o, t, Claiming) /\ Num(o, t, {"free"}) <= Num(o, t, {"unlink", "free"})
  BY <1>1, <1>2
<1>4. QED  BY <1>3 DEF TallyOf

\* Who has an object of t.
LEMMA ObjectAdded ==
    ASSUME objs \in [Interp -> SUBSET Ithread], NEW t \in Ithread, IsFiniteSet(Holders(t)), NEW u \in Interp,
           t \notin objs[u], objs' = [objs EXCEPT ![u] = @ \cup {t}]
    PROVE  /\ objs' \in [Interp -> SUBSET Ithread] /\ IsFiniteSet(Holders(t)')
           /\ Cardinality(Holders(t)) \in Nat /\ Cardinality(Holders(t)') = Cardinality(Holders(t)) + 1
           /\ \A x \in Ithread : x # t => \A v \in Interp : x \in objs'[v] <=> x \in objs[v]
           /\ \A v \in Interp : v # u => objs'[v] = objs[v]
<1>1. Holders(t)' = Holders(t) \cup {u} /\ u \notin Holders(t)
  BY DEF Holders
<1>2. /\ IsFiniteSet(Holders(t)') /\ Cardinality(Holders(t)) \in Nat
      /\ Cardinality(Holders(t)') = Cardinality(Holders(t)) + 1
  BY <1>1, FS_AddElement, FS_CardinalityType
<1>3. QED  BY <1>2

LEMMA ObjectRemoved ==
    ASSUME objs \in [Interp -> SUBSET Ithread], NEW t \in Ithread, IsFiniteSet(Holders(t)), NEW u \in Interp,
           t \in objs[u], objs' = [objs EXCEPT ![u] = @ \ {t}]
    PROVE  /\ objs' \in [Interp -> SUBSET Ithread] /\ IsFiniteSet(Holders(t)')
           /\ Cardinality(Holders(t)) \in Nat /\ Cardinality(Holders(t)') = Cardinality(Holders(t)) - 1
           /\ Cardinality(Holders(t)) > 0
           /\ \A x \in Ithread : x # t => \A v \in Interp : x \in objs'[v] <=> x \in objs[v]
           /\ \A v \in Interp : objs'[v] \subseteq objs[v]
<1>1. Holders(t)' = Holders(t) \ {u} /\ u \in Holders(t)
  BY DEF Holders
<1>2. /\ IsFiniteSet(Holders(t)') /\ Cardinality(Holders(t)) \in Nat
      /\ Cardinality(Holders(t)') = Cardinality(Holders(t)) - 1 /\ Cardinality(Holders(t)') \in Nat
  BY <1>1, FS_RemoveElement, FS_CardinalityType
<1>3. QED  BY <1>2

\* Somebody has an object of t.
LEMMA HeldCounts ==
    ASSUME NEW t \in Ithread, IsFiniteSet(Holders(t))
    PROVE  /\ Cardinality(Holders(t)) \in Nat
           /\ \A u \in Interp : t \in objs[u] => Cardinality(Holders(t)) > 0
           /\ Cardinality(Holders(t)) = 0 => \A u \in Interp : t \notin objs[u]
<1>1. Cardinality(Holders(t)) \in Nat /\ (Cardinality(Holders(t)) = 0 <=> Holders(t) = {})
  BY FS_CardinalityType, FS_EmptySet
<1>2. \A u \in Interp : t \in objs[u] <=> u \in Holders(t)
  BY DEF Holders
<1>3. QED  BY <1>1, <1>2

\* What the invariant says of the variables, and of one thread.
LEMMA Unpacked ==
    ASSUME LifecycleInv
    PROVE  /\ op \in Operations /\ AllFinite(op) /\ rec \in [Ithread -> Record] /\ os \in [Ithread -> Stages]
           /\ objs \in [Interp -> SUBSET Ithread] /\ pool \in Pool /\ poolMutex \in Interp \cup {Nobody}
BY DEF LifecycleInv, TypeOK, Finite, AllFinite, Operations, Call, Stages, Pool

LEMMA ThreadFacts ==
    ASSUME LifecycleInv, NEW t \in Ithread
    PROVE  /\ Sound(rec[t], os[t], Cardinality(Holders(t)), Tally(t), t \in Refused)
           /\ IsFiniteSet(Holders(t)) /\ Cardinality(Holders(t)) \in Nat /\ Tally(t) \in Numbers
           /\ rec[t] \in Record /\ os[t] \in Stages
<1>1. AllFinite(op)
  BY Unpacked
<1>2. Tally(t) \in Numbers
  BY <1>1, TallyFacts DEF Tally
<1>3. IsFiniteSet(Holders(t)) /\ Cardinality(Holders(t)) \in Nat
  BY FS_CardinalityType DEF LifecycleInv, Finite
<1>4. rec[t] \in Record /\ os[t] \in Stages
  BY Unpacked
<1>5. Sound(rec[t], os[t], Cardinality(Holders(t)), Tally(t), t \in Refused)
  BY DEF LifecycleInv, Tally
<1>6. QED  BY <1>2, <1>3, <1>4, <1>5

\* No call begins or ends.
LEMMA StayMoves ==
    ASSUME op \in Operations, AllFinite(op), NEW u \in Interp, NEW t \in Ithread, op' = op
    PROVE  OpMoves(u, t, "-", "-", "-")
<1>1. \A pcs \in SUBSET Places : Change(pcs, "-", "-", "-") = 0
  BY NoPlace DEF Change, One
<1>2. \A x \in Ithread, pcs \in SUBSET Places :
         Num(op', x, pcs) = IF x = t THEN Num(op, x, pcs) + Change(pcs, "-", "-", "-") ELSE Num(op, x, pcs)
  BY <1>1, NumFacts
<1>3. Moved(TallyOf(op, t), TallyOf(op', t), "-", "-", "-")
  BY <1>2, Tallies
<1>4. QED  BY <1>3, TallyFacts DEF OpMoves

LEMMA OneStep ==
    ASSUME LifecycleInv, NEW u \in Interp, NEW t \in Ithread, NEW gone, NEW new, NEW more,
           OpMoves(u, t, gone, new, more),
           rec' \in [Ithread -> Record], os' \in [Ithread -> Stages],
           objs' \in [Interp -> SUBSET Ithread], pool' \in Pool,
           \A x \in Ithread : x # t => rec'[x] = rec[x] /\ os'[x] = os[x],
           \A x \in Ithread : x # t => \A v \in Interp : x \in objs'[v] <=> x \in objs[v],
           \A v \in Interp : v # u => objs'[v] \subseteq objs[v],
           Made(rec[t]), Made(rec'[t]), IsFiniteSet(Holders(t)'),
           Sound(rec'[t], os'[t], Cardinality(Holders(t)'), TallyOf(op', t), t \in Refused),
           u # Main => Made(rec[u]) /\ (op'[u] = <<>> \/ os'[u] \notin {"none", "finished"}),
           os'[t] \in {"none", "finished"} => os'[t] = os[t] \/ t = u,
           Settled(u, op'[u], objs'[u], poolMutex'),
           poolMutex' = poolMutex \/ (poolMutex = Nobody /\ poolMutex' = u)
              \/ (poolMutex = u /\ poolMutex' = Nobody),
           PoolMoves(pool, pool', rec[t], os[t], Tally(t), rec'[t], os'[t], TallyOf(op', t))
    PROVE  LifecycleInv'
<1>1. /\ op' \in Operations /\ AllFinite(op') /\ \A v \in Interp : v # u => op'[v] = op[v]
      /\ \A x \in Ithread : x # t => TallyOf(op', x) = Tally(x)
  BY DEF OpMoves, Tally
<1>2. TypeOK'
  <2>1. poolMutex' \in Interp \cup {Nobody}
    BY Unpacked
  <2>2. QED  BY <1>1, <2>1 DEF TypeOK, Operations, Call, Pool, Stages
<1>3. Alone(t)
  BY <1>1 DEF Alone
<1>4. Finite' /\ AllSound' /\ \A x \in Ithread : x # t => Similar(x)
  BY <1>1, <1>3, AloneKeeps
<1>5. u # Main => Made(rec'[u])
  <2>1. u # Main => u \in Ithread
    BY DEF Interp
  <2>2. QED  BY <2>1
<1>6. QED
  BY <1>1, <1>2, <1>4, <1>5, Kept

\* How a step leaves the calls of u settled.
LEMMA PopSettled ==
    ASSUME NEW q \in Seq(Call), q # <<>>, Nested(q), NEW u, NEW mine, NEW mutex
    PROVE  Settled(u, Outer(q), mine, mutex)
BY InnerOuter, InnerSettled

LEMMA BecomeSettled ==
    ASSUME NEW q \in Seq(Call), q # <<>>, Nested(q), NEW f \in Call, NEW u, NEW mine, NEW mutex,
           \/ f.pc \in {"release", "unlink", "free", "uncount"}
           \/ f.pc = "destruct" /\ q[Len(q)].pc = "clear" /\ f.on = q[Len(q)].on
           \/ f.pc = "join_wait" /\ q[Len(q)].pc \in Base
    PROVE  Settled(u, Append(Outer(q), f), mine, mutex)
<1>1. Inner(Outer(q)) /\ Outer(q) \in Seq(Call)
  BY InnerOuter, OuterFacts
<1>2. CASE f.pc \in {"release", "unlink", "free", "uncount"}
  <2>1. f.pc \notin Base /\ f.pc \notin {"clear", "destruct"}
    BY <1>2 DEF Base
  <2>2. Inner(Append(Outer(q), f))
    BY <1>1, <2>1, InnerPush
  <2>3. QED  BY <2>2, InnerSettled
<1>3. CASE f.pc = "destruct" /\ q[Len(q)].pc = "clear" /\ f.on = q[Len(q)].on
  <2>1. f.pc \notin Base
    BY <1>3 DEF Base
  <2>2. Inner(Append(Outer(q), f))
    BY <1>1, <1>3, <2>1, TopFacts, InnerPush
  <2>3. QED  BY <2>2, InnerSettled
<1>4. CASE f.pc = "join_wait" /\ q[Len(q)].pc \in Base
  <2>1. Outer(q) = <<>>
    BY <1>4, TopFacts
  <2>2. f.pc \notin {"clear", "destruct", "take", "start"}
    BY <1>4
  <2>3. Settled(u, Append(<<>>, f), mine, mutex)
    BY <2>2, FirstSettled
  <2>4. QED  BY <2>1, <2>3
<1>5. QED  BY <1>2, <1>3, <1>4

LEMMA BothSettled ==
    ASSUME NEW q \in Seq(Call), q # <<>>, Nested(q), NEW f \in Call, NEW g \in Call,
           f.pc \in {"release", "free"}, g.pc = "clear", f.on = g.on, NEW u, NEW mine, NEW mutex
    PROVE  Settled(u, Append(Append(Outer(q), f), g), mine, mutex)
<1>1. Inner(Outer(q)) /\ Outer(q) \in Seq(Call)
  BY InnerOuter, OuterFacts
<1>2. f.pc \notin Base /\ g.pc \notin Base /\ f.pc \notin {"clear", "destruct"}
  BY DEF Base
<1> DEFINE p == Append(Outer(q), f)
<1>3. Inner(p) /\ p \in Seq(Call)
  BY <1>1, <1>2, InnerPush
<1>4. p # <<>> /\ p[Len(p)] = f
  BY <1>1, AppendProperties, LenProperties, EmptySeq
<1> HIDE DEF p
<1>5. Inner(Append(p, g))
  BY <1>2, <1>3, <1>4, InnerPush
<1>6. QED  BY <1>5, InnerSettled DEF p

\* The step leaves the objects and the stages of the threads alone.
LEMMA RecordStep ==
    ASSUME LifecycleInv, NEW u \in Interp, NEW t \in Ithread, NEW r2 \in Record, NEW gone, NEW new, NEW more,
           OpMoves(u, t, gone, new, more),
           rec' = [rec EXCEPT ![t] = r2], os' = os, objs' = objs, pool' \in Pool,
           Made(rec[t]), Made(r2),
           Sound(r2, os[t], Cardinality(Holders(t)), TallyOf(op', t), t \in Refused),
           u # Main => Made(rec[u]) /\ os[u] \notin {"none", "finished"},
           Settled(u, op'[u], objs[u], poolMutex'),
           poolMutex' = poolMutex \/ (poolMutex = Nobody /\ poolMutex' = u)
              \/ (poolMutex = u /\ poolMutex' = Nobody),
           PoolMoves(pool, pool', rec[t], os[t], Tally(t), r2, os[t], TallyOf(op', t))
    PROVE  LifecycleInv'
<1>1. /\ rec \in [Ithread -> Record] /\ os \in [Ithread -> Stages] /\ objs \in [Interp -> SUBSET Ithread]
      /\ IsFiniteSet(Holders(t))
  BY Unpacked, ThreadFacts
<1>2. rec' \in [Ithread -> Record] /\ rec'[t] = r2 /\ \A x \in Ithread : x # t => rec'[x] = rec[x]
  BY <1>1
<1>3. Holders(t)' = Holders(t)
  BY DEF Holders
<1>4. u # Main => u \in Ithread
  BY DEF Interp
<1>5. QED  BY <1>1, <1>2, <1>3, <1>4, OneStep

LEMMA ReleaseKeeps ==
    ASSUME LifecycleInv, NEW u \in Interp, Release(u)
    PROVE  LifecycleInv'
<1>1. PICK t : t = On(u)
  OBVIOUS
<1>2. /\ In(u, "release") /\ rec' = [rec EXCEPT ![t].count = @ - 1]
      /\ os' = os /\ objs' = objs /\ pool' = pool /\ poolMutex' = poolMutex
      /\ IF rec[t].count > 1 THEN Pop(u) ELSE Become(u, "unlink")
  BY <1>1 DEF Release
<1>3. /\ t \in Ithread /\ op[u] \in Seq(Call) /\ op[u] # <<>> /\ Nested(op[u])
      /\ u = Main \/ (u \in Ithread /\ Made(rec[u]) /\ os[u] \notin {"none", "finished"})
  BY <1>1, <1>2, FrameFacts DEF Places
<1>4. /\ rec[t].count > 1 => OpMoves(u, t, "release", "-", "-") /\ op'[u] = Outer(op[u])
      /\ ~ (rec[t].count > 1) =>
            OpMoves(u, t, "release", "unlink", "-") /\ op'[u] = Append(Outer(op[u]), Frame("unlink", t))
  BY <1>1, <1>2, Unpacked, PopMoves, BecomeMoves DEF Places
<1> DEFINE r == rec[t]
           c == Tally(t)
           c2 == TallyOf(op', t)
           r2 == [r EXCEPT !.count = @ - 1]
<1>5. /\ r.count > 1 => Moved(c, c2, "release", "-", "-")
      /\ ~ (r.count > 1) => Moved(c, c2, "release", "unlink", "-")
      /\ c2 \in Numbers /\ AllFinite(op')
  BY <1>4 DEF OpMoves, Tally
<1>6. /\ Sound(r, os[t], Cardinality(Holders(t)), c, t \in Refused)
      /\ Cardinality(Holders(t)) \in Nat /\ c \in Numbers /\ r \in Record /\ os[t] \in Stages
  BY <1>3, ThreadFacts
<1>7. c.claim > c.join
  <2>1. c2.join <= c2.claim
    BY <1>3, <1>5, TallyOrder
  <2>2. c2.join = c.join /\ c2.claim = c.claim - 1
    <3> HIDE DEF c, c2, r
    <3>1. QED  BY <1>5, <1>6 DEF Moved, Change, One, Numbers, Claiming
  <2> HIDE DEF c, c2
  <2>3. QED  BY <1>5, <1>6, <2>1, <2>2 DEF Numbers
<1> DEFINE h == Cardinality(Holders(t))
           f == t \in Refused
           s == os[t]
<1> HIDE DEF h, f, s, c, c2, r
<1>8. Sound(r2, s, h, c2, f) /\ r.count > 0
  <2>1. f \in BOOLEAN
    BY DEF f
  <2>2. QED  BY <1>5, <1>6, <1>7, <2>1, SoundRelease DEF s, h, f
<1>9. Made(r) /\ Made(r2) /\ r2 \in Record /\ r2.state = r.state /\ r2.freed = r.freed
  <2>1. Made(r)
    BY <1>6, <1>7 DEF Sound, Before, Numbers
  <2>2. r2 \in Record /\ r2.interp = r.interp /\ r2.state = r.state /\ r2.freed = r.freed
    BY <1>6, <1>8 DEF Record
  <2>3. QED  BY <2>1, <2>2 DEF Made
<1>10. c2.start = c.start /\ c2.join = c.join /\ c2.uncount = c.uncount
  BY <1>5, <1>6 DEF Moved, Change, One, Numbers, Claiming
<1>11. PoolMoves(pool, pool', r, s, c, r2, s, c2)
  <2>1. InExisting(r, c) <=> InExisting(r2, c2)
    BY <1>9, <1>10 DEF InExisting
  <2>2. Launched(s, c) <=> Launched(s, c2)
    BY <1>10 DEF Launched
  <2>3. pool \in Pool
    BY Unpacked
  <2> HIDE DEF r2
  <2>4. PoolMoves(pool, pool, r, s, c, r2, s, c2)
    BY <1>9, <1>10, <2>1, <2>2, <2>3, PoolSame
  <2>5. QED  BY <1>2, <2>4
<1>12. Settled(u, op'[u], objs[u], poolMutex')
  <2>1. Frame("unlink", t) \in Call /\ Frame("unlink", t).pc = "unlink"
    BY <1>3, FrameCall DEF Places
  <2>2. QED  BY <1>3, <1>4, <2>1, PopSettled, BecomeSettled DEF r
<1>13. rec' = [rec EXCEPT ![t] = r2]
  BY <1>2 DEF r
<1>14. \E new : OpMoves(u, t, "release", new, "-")
  BY <1>4
<1>15. pool' \in Pool
  BY <1>2, Unpacked
<1> HIDE DEF r2
<1>16. QED
  BY <1>2, <1>3, <1>8, <1>9, <1>11, <1>12, <1>13, <1>14, <1>15, RecordStep DEF r, s, h, c, c2, f

\* A step of a call on thread t that no number of the pool speaks of.
LEMMA PlainStep ==
    ASSUME LifecycleInv, NEW u \in Interp, NEW t \in Ithread, NEW r2 \in Record, NEW gone, NEW new, NEW more,
           OpMoves(u, t, gone, new, more), {gone, new, more} \cap {"start", "join_count"} = {},
           rec' = [rec EXCEPT ![t] = r2], os' = os, objs' = objs, pool' = pool, poolMutex' = poolMutex,
           Made(rec[t]), Made(r2), r2.state = rec[t].state,
           InExisting(r2, TallyOf(op', t)) <=> InExisting(rec[t], Tally(t)),
           Sound(r2, os[t], Cardinality(Holders(t)), TallyOf(op', t), t \in Refused),
           u # Main => Made(rec[u]) /\ os[u] \notin {"none", "finished"},
           Settled(u, op'[u], objs[u], poolMutex)
    PROVE  LifecycleInv'
<1> DEFINE r == rec[t]
           s == os[t]
           c == Tally(t)
           c2 == TallyOf(op', t)
<1>1. Moved(c, c2, gone, new, more) /\ c \in Numbers
  BY DEF OpMoves, Tally
<1>2. pool \in Pool
  BY Unpacked
<1> HIDE DEF r, s, c, c2
<1>3. c2.start = c.start /\ c2.join = c.join
  <2>1. \A x \in {gone, new, more} : x \notin {"start"} /\ x \notin {"join_count"}
    OBVIOUS
  <2>2. Change({"start"}, gone, new, more) = 0 /\ Change({"join_count"}, gone, new, more) = 0
    BY <2>1 DEF Change, One
  <2>3. QED  BY <1>1, <2>2 DEF Moved, Numbers
<1>4. Launched(s, c) <=> Launched(s, c2)
  BY <1>3 DEF Launched
<1>5. PoolMoves(pool, pool, r, s, c, r2, s, c2)
  BY <1>2, <1>3, <1>4, PoolSame DEF r, c, c2
<1>6. QED
  BY <1>2, <1>5, RecordStep DEF r, s, c, c2

LEMMA UnlinkKeeps ==
    ASSUME LifecycleInv, NEW u \in Interp, Unlink(u)
    PROVE  LifecycleInv'
<1>1. PICK t : t = On(u)
  OBVIOUS
<1>2. /\ In(u, "unlink") /\ rec' = [rec EXCEPT ![t].listed = FALSE]
      /\ os' = os /\ objs' = objs /\ pool' = pool /\ poolMutex' = poolMutex
      /\ BecomeBoth(u, "clear", "free")
  BY <1>1 DEF Unlink
<1>3. /\ t \in Ithread /\ op[u] \in Seq(Call) /\ op[u] # <<>> /\ Nested(op[u])
      /\ u = Main \/ (u \in Ithread /\ Made(rec[u]) /\ os[u] \notin {"none", "finished"})
  BY <1>1, <1>2, FrameFacts DEF Places
<1>4. /\ OpMoves(u, t, "unlink", "clear", "free")
      /\ op'[u] = Append(Append(Outer(op[u]), Frame("free", t)), Frame("clear", t))
  <2>1. {"unlink", "clear", "free"} \subseteq Places
    BY DEF Places
  <2>2. QED  BY <1>1, <1>2, <2>1, Unpacked, BothMoves
<1> DEFINE r == rec[t]
           c == Tally(t)
           c2 == TallyOf(op', t)
           r2 == [r EXCEPT !.listed = FALSE]
           h == Cardinality(Holders(t))
           f == t \in Refused
           s == os[t]
<1>5. Moved(c, c2, "unlink", "clear", "free") /\ c2 \in Numbers /\ c2.free <= c2.ends
  BY <1>3, <1>4, TallyOrder DEF OpMoves, Tally
<1>6. Sound(r, s, h, c, f) /\ h \in Nat /\ c \in Numbers /\ r \in Record /\ s \in Stages /\ f \in BOOLEAN
  BY <1>3, ThreadFacts
<1>7. Settled(u, op'[u], objs[u], poolMutex)
  BY <1>3, <1>4, FrameCall, BothSettled DEF Places
<1>8. rec' = [rec EXCEPT ![t] = r2]
  BY <1>2
<1> HIDE DEF h, f, s, c, c2, r
<1>9. c.ends > c.free /\ c2.uncount = c.uncount
  BY <1>5, <1>6 DEF Moved, Change, One, Numbers
<1>10. Sound(r2, s, h, c2, f)
  BY <1>5, <1>6, <1>9, SoundUnlink
<1>11. Made(r) /\ Made(r2) /\ r2 \in Record /\ r2.state = r.state /\ r2.freed = r.freed
  <2>1. Made(r)
    BY <1>6, <1>9 DEF Sound, Before, Numbers
  <2>2. r2 \in Record /\ r2.interp = r.interp /\ r2.state = r.state /\ r2.freed = r.freed
    BY <1>6 DEF Record
  <2>3. QED  BY <2>1, <2>2 DEF Made
<1>12. InExisting(r, c) <=> InExisting(r2, c2)
  BY <1>9, <1>11 DEF InExisting
<1> HIDE DEF r2
<1>13. QED
  BY <1>2, <1>3, <1>4, <1>7, <1>8, <1>10, <1>11, <1>12, PlainStep DEF r, s, h, c, c2, f

LEMMA ClearKeeps ==
    ASSUME LifecycleInv, NEW u \in Interp, Clear(u)
    PROVE  LifecycleInv'
<1>1. PICK t : t = On(u)
  OBVIOUS
<1>2. /\ In(u, "clear") /\ os' = os /\ objs' = objs /\ pool' = pool /\ poolMutex' = poolMutex
      /\ IF rec[t].interp = "live"
         THEN rec' = [rec EXCEPT ![t].interp = "gone"] /\ Become(u, "destruct")
         ELSE Pop(u) /\ rec' = rec
  BY <1>1 DEF Clear
<1>3. /\ t \in Ithread /\ op[u] \in Seq(Call) /\ op[u] # <<>> /\ Nested(op[u])
      /\ op[u][Len(op[u])].pc = "clear" /\ op[u][Len(op[u])].on = t
      /\ u = Main \/ (u \in Ithread /\ Made(rec[u]) /\ os[u] \notin {"none", "finished"})
  BY <1>1, <1>2, FrameFacts DEF Places
<1>4. Num(op, t, {"clear"}) > 0
  BY <1>1, <1>2, FrameFacts DEF Places
<1> DEFINE r == rec[t]
           c == Tally(t)
           c2 == TallyOf(op', t)
           h == Cardinality(Holders(t))
           f == t \in Refused
           s == os[t]
<1>5. c.clear > 0
  BY <1>4 DEF Tally, TallyOf
<1>6. Sound(r, s, h, c, f) /\ h \in Nat /\ c \in Numbers /\ r \in Record /\ s \in Stages /\ f \in BOOLEAN
  BY <1>3, ThreadFacts
<1>7. rec \in [Ithread -> Record]
  BY Unpacked
<1>8. CASE rec[t].interp = "live"
  <2> DEFINE r2 == [r EXCEPT !.interp = "gone"]
  <2>1. /\ OpMoves(u, t, "clear", "destruct", "-")
        /\ op'[u] = Append(Outer(op[u]), Frame("destruct", t))
    BY <1>1, <1>2, <1>8, Unpacked, BecomeMoves DEF Places
  <2>2. Moved(c, c2, "clear", "destruct", "-") /\ c2 \in Numbers
    BY <2>1 DEF OpMoves, Tally
  <2>3. Settled(u, op'[u], objs[u], poolMutex)
    BY <1>3, <2>1, FrameCall, BecomeSettled DEF Places
  <2>4. rec' = [rec EXCEPT ![t] = r2]
    BY <1>2, <1>8
  <2> HIDE DEF h, f, s, c, c2, r
  <2>5. Sound(r2, s, h, c2, f)
    BY <1>5, <1>6, <2>2, SoundClear
  <2>6. c2.uncount = c.uncount
    BY <1>6, <2>2 DEF Moved, Change, One, Numbers
  <2>7. Made(r) /\ Made(r2) /\ r2 \in Record /\ r2.state = r.state /\ r2.freed = r.freed
    <3>1. r2 \in Record /\ r2.interp = "gone" /\ r2.state = r.state /\ r2.freed = r.freed
      BY <1>6 DEF Record
    <3>2. QED  BY <1>8, <3>1 DEF Made, r
  <2>8. InExisting(r, c) <=> InExisting(r2, c2)
    BY <2>6, <2>7 DEF InExisting
  <2> HIDE DEF r2
  <2>9. QED
    BY <1>2, <1>3, <2>1, <2>3, <2>4, <2>5, <2>7, <2>8, PlainStep DEF r, s, h, c, c2, f
<1>9. CASE rec[t].interp # "live"
  <2>1. OpMoves(u, t, "clear", "-", "-") /\ op'[u] = Outer(op[u])
    BY <1>1, <1>2, <1>9, Unpacked, PopMoves DEF Places
  <2>2. Moved(c, c2, "clear", "-", "-") /\ c2 \in Numbers
    BY <2>1 DEF OpMoves, Tally
  <2>3. Settled(u, op'[u], objs[u], poolMutex)
    BY <1>3, <2>1, PopSettled
  <2>4. rec' = [rec EXCEPT ![t] = r]
    BY <1>2, <1>7, <1>9
  <2> HIDE DEF h, f, s, c, c2, r
  <2>5. Sound(r, s, h, c2, f)
    BY <1>6, <2>2, SoundPop
  <2>6. c2.uncount = c.uncount
    BY <1>6, <2>2 DEF Moved, Change, One, Numbers
  <2>7. Made(r)
    BY <1>5, <1>6 DEF Sound, Before, Numbers
  <2>8. InExisting(r, c) <=> InExisting(r, c2)
    BY <2>6 DEF InExisting
  <2>9. QED
    BY <1>2, <1>3, <1>6, <2>1, <2>3, <2>4, <2>5, <2>7, <2>8, PlainStep DEF r, s, h, c, c2, f
<1>10. QED  BY <1>8, <1>9

LEMMA FreeRecordKeeps ==
    ASSUME LifecycleInv, NEW u \in Interp, FreeRecord(u)
    PROVE  LifecycleInv'
<1>1. PICK t : t = On(u)
  OBVIOUS
<1>2. /\ In(u, "free") /\ rec' = [rec EXCEPT ![t].freed = TRUE]
      /\ os' = os /\ objs' = objs /\ pool' = pool /\ poolMutex' = poolMutex
      /\ Become(u, "uncount")
  BY <1>1 DEF FreeRecord
<1>3. /\ t \in Ithread /\ op[u] \in Seq(Call) /\ op[u] # <<>> /\ Nested(op[u])
      /\ u = Main \/ (u \in Ithread /\ Made(rec[u]) /\ os[u] \notin {"none", "finished"})
  BY <1>1, <1>2, FrameFacts DEF Places
<1>4. /\ OpMoves(u, t, "free", "uncount", "-")
      /\ op'[u] = Append(Outer(op[u]), Frame("uncount", t))
  BY <1>1, <1>2, Unpacked, BecomeMoves DEF Places
<1> DEFINE r == rec[t]
           c == Tally(t)
           c2 == TallyOf(op', t)
           r2 == [r EXCEPT !.freed = TRUE]
           h == Cardinality(Holders(t))
           f == t \in Refused
           s == os[t]
<1>5. Moved(c, c2, "free", "uncount", "-") /\ c2 \in Numbers
  BY <1>4 DEF OpMoves, Tally
<1>6. Sound(r, s, h, c, f) /\ h \in Nat /\ c \in Numbers /\ r \in Record /\ s \in Stages /\ f \in BOOLEAN
  BY <1>3, ThreadFacts
<1>7. Settled(u, op'[u], objs[u], poolMutex)
  BY <1>3, <1>4, FrameCall, BecomeSettled DEF Places
<1>8. rec' = [rec EXCEPT ![t] = r2]
  BY <1>2
<1> HIDE DEF h, f, s, c, c2, r
<1>9. c.free > 0 /\ c2.uncount = c.uncount + 1
  BY <1>5, <1>6 DEF Moved, Change, One, Numbers
<1>10. Sound(r2, s, h, c2, f)
  BY <1>5, <1>6, <1>9, SoundFree
<1>11. Made(r) /\ ~ r.freed /\ Made(r2) /\ r2 \in Record /\ r2.state = r.state
  <2>1. Made(r)
    BY <1>6, <1>9 DEF Sound, Before, Numbers
  <2>2. r2 \in Record /\ r2.interp = r.interp /\ r2.state = r.state
    BY <1>6 DEF Record
  <2>3. ~ r.freed
    BY <1>6, <1>9 DEF Sound, CountSound, One, Numbers
  <2>4. QED  BY <2>1, <2>2, <2>3 DEF Made
<1>12. InExisting(r, c) <=> InExisting(r2, c2)
  BY <1>6, <1>9, <1>11 DEF InExisting, Numbers
<1> HIDE DEF r2
<1>13. QED
  BY <1>2, <1>3, <1>4, <1>7, <1>8, <1>10, <1>11, <1>12, PlainStep DEF r, s, h, c, c2, f

LEMMA ReclaimKeeps ==
    ASSUME LifecycleInv, NEW u \in Interp, NEW pc \in {"join_wait", "detach_free"}, In(u, pc), Reclaim(u),
           UNCHANGED <<rec, os, objs, pool, poolMutex>>
    PROVE  LifecycleInv'
<1>1. PICK t : t = On(u)
  OBVIOUS
<1>2. pc \in Places /\ pc \in Claiming /\ Claiming \in SUBSET Places
  BY DEF Places, Claiming
<1>3. /\ t \in Ithread /\ op[u] \in Seq(Call) /\ op[u] # <<>> /\ Nested(op[u])
      /\ u = Main \/ (u \in Ithread /\ Made(rec[u]) /\ os[u] \notin {"none", "finished"})
      /\ Num(op, t, Claiming) > 0
  BY <1>1, <1>2, FrameFacts
<1> DEFINE r == rec[t]
           c == Tally(t)
           c2 == TallyOf(op', t)
           h == Cardinality(Holders(t))
           f == t \in Refused
           s == os[t]
           well == {"FINISHED", "DIED"} \cap r.state = {"FINISHED"}
<1>4. /\ well => /\ OpMoves(u, t, pc, "clear", "release")
                 /\ op'[u] = Append(Append(Outer(op[u]), Frame("release", t)), Frame("clear", t))
      /\ ~ well => /\ OpMoves(u, t, pc, "release", "-")
                   /\ op'[u] = Append(Outer(op[u]), Frame("release", t))
  <2>1. {"clear", "release"} \subseteq Places
    BY DEF Places
  <2>2. ASSUME well
        PROVE  /\ OpMoves(u, t, pc, "clear", "release")
               /\ op'[u] = Append(Append(Outer(op[u]), Frame("release", t)), Frame("clear", t))
    <3>1. BecomeBoth(u, "clear", "release")
      BY <1>1, <2>2 DEF Reclaim
    <3>2. QED  BY <1>1, <1>2, <2>1, <3>1, Unpacked, BothMoves
  <2>3. ASSUME ~ well
        PROVE  OpMoves(u, t, pc, "release", "-") /\ op'[u] = Append(Outer(op[u]), Frame("release", t))
    <3>1. Become(u, "release")
      BY <1>1, <2>3 DEF Reclaim
    <3>2. QED  BY <1>1, <1>2, <2>1, <3>1, Unpacked, BecomeMoves
  <2>4. QED  BY <2>2, <2>3
<1>5. c.claim > 0
  BY <1>3 DEF Tally, TallyOf
<1>6. Sound(r, s, h, c, f) /\ h \in Nat /\ c \in Numbers /\ r \in Record /\ s \in Stages /\ f \in BOOLEAN
  BY <1>3, ThreadFacts
<1>7. Settled(u, op'[u], objs[u], poolMutex)
  <2>1. /\ Frame("release", t) \in Call /\ Frame("release", t).pc = "release"
        /\ Frame("clear", t) \in Call /\ Frame("clear", t).pc = "clear"
        /\ Frame("clear", t).on = Frame("release", t).on
    BY <1>3, FrameCall DEF Places
  <2> HIDE DEF well
  <2>2. CASE well
    BY <1>3, <1>4, <2>1, <2>2, BothSettled
  <2>3. CASE ~ well
    BY <1>3, <1>4, <2>1, <2>3, BecomeSettled
  <2>4. QED  BY <2>2, <2>3
<1>8. /\ c2 \in Numbers
      /\ IF well THEN Moved(c, c2, pc, "clear", "release") ELSE Moved(c, c2, pc, "release", "-")
  BY <1>4 DEF OpMoves, Tally
<1>9. rec' = [rec EXCEPT ![t] = r]
  BY <1>3, Unpacked
<1>10. \E new, more : OpMoves(u, t, pc, new, more) /\ {pc, new, more} \cap {"start", "join_count"} = {}
  <2> HIDE DEF well
  <2>1. /\ {pc, "clear", "release"} \cap {"start", "join_count"} = {}
        /\ {pc, "release", "-"} \cap {"start", "join_count"} = {}
    OBVIOUS
  <2>2. QED  BY <1>4, <2>1
<1> HIDE DEF h, f, s, c, c2, r
<1>11. Sound(r, s, h, c2, f)
  BY <1>5, <1>6, <1>8, SoundReclaim
<1> HIDE DEF well
<1>12. c2.uncount = c.uncount
  BY <1>6, <1>8 DEF Moved, Change, One, Numbers
<1>13. Made(r)
  BY <1>5, <1>6 DEF Sound, Before, Numbers
<1>14. InExisting(r, c) <=> InExisting(r, c2)
  BY <1>12 DEF InExisting
<1>15. PICK new, more : OpMoves(u, t, pc, new, more) /\ {pc, new, more} \cap {"start", "join_count"} = {}
  BY <1>10
<1>16. r \in Record /\ r.state = rec[t].state /\ Made(rec[t])
  BY <1>6, <1>13 DEF r
<1>17. Sound(r, os[t], Cardinality(Holders(t)), TallyOf(op', t), t \in Refused)
  BY <1>11 DEF s, h, c2, f
<1>18. InExisting(r, TallyOf(op', t)) <=> InExisting(rec[t], Tally(t))
  BY <1>14 DEF r, c, c2
<1>19. QED
  BY <1>3, <1>7, <1>9, <1>13, <1>15, <1>16, <1>17, <1>18, PlainStep

\* The same for a step that gives or takes objects of t, or the pool's mutex.
LEMMA ObjectStep ==
    ASSUME LifecycleInv, NEW u \in Interp, NEW t \in Ithread, NEW r2 \in Record, NEW gone, NEW new, NEW more,
           OpMoves(u, t, gone, new, more), {gone, new, more} \cap {"start", "join_count"} = {},
           rec' = [rec EXCEPT ![t] = r2], os' = os, pool' = pool,
           objs' \in [Interp -> SUBSET Ithread], IsFiniteSet(Holders(t)'),
           \A x \in Ithread : x # t => \A v \in Interp : x \in objs'[v] <=> x \in objs[v],
           \A v \in Interp : v # u => objs'[v] \subseteq objs[v],
           poolMutex' = poolMutex \/ (poolMutex = Nobody /\ poolMutex' = u)
              \/ (poolMutex = u /\ poolMutex' = Nobody),
           Made(rec[t]), r2.interp = rec[t].interp, r2.state = rec[t].state, r2.freed = rec[t].freed,
           TallyOf(op', t).uncount = Tally(t).uncount,
           Sound(r2, os[t], Cardinality(Holders(t)'), TallyOf(op', t), t \in Refused),
           u # Main => Made(rec[u]) /\ os[u] \notin {"none", "finished"},
           Settled(u, op'[u], objs'[u], poolMutex')
    PROVE  LifecycleInv'
<1> DEFINE r == rec[t]
           s == os[t]
           c == Tally(t)
           c2 == TallyOf(op', t)
<1>1. Moved(c, c2, gone, new, more) /\ c \in Numbers
  BY DEF OpMoves, Tally
<1>2. pool \in Pool /\ rec \in [Ithread -> Record] /\ os \in [Ithread -> Stages]
  BY Unpacked
<1>3. rec' \in [Ithread -> Record] /\ rec'[t] = r2 /\ \A x \in Ithread : x # t => rec'[x] = rec[x]
  BY <1>2
<1>4. Made(r2) /\ (InExisting(r, c) <=> InExisting(r2, c2)) /\ c2.uncount = c.uncount
  BY DEF Made, InExisting
<1> HIDE DEF r, s, c, c2
<1>5. c2.start = c.start /\ c2.join = c.join
  <2>1. \A x \in {gone, new, more} : x \notin {"start"} /\ x \notin {"join_count"}
    OBVIOUS
  <2>2. Change({"start"}, gone, new, more) = 0 /\ Change({"join_count"}, gone, new, more) = 0
    BY <2>1 DEF Change, One
  <2>3. QED  BY <1>1, <2>2 DEF Moved, Numbers
<1>6. Launched(s, c) <=> Launched(s, c2)
  BY <1>5 DEF Launched
<1>7. PoolMoves(pool, pool, r, s, c, r2, s, c2)
  BY <1>2, <1>4, <1>5, <1>6, PoolSame DEF r, c, c2
<1>8. PoolMoves(pool, pool', rec[t], os[t], Tally(t), rec'[t], os'[t], TallyOf(op', t))
  BY <1>3, <1>7 DEF r, s, c, c2
<1>9. u # Main => u \in Ithread
  BY DEF Interp
<1>10. pool' \in Pool /\ os' \in [Ithread -> Stages]
  BY <1>2
<1>11. Sound(rec'[t], os'[t], Cardinality(Holders(t)'), TallyOf(op', t), t \in Refused)
  BY <1>3
<1>12. Made(rec'[t])
  BY <1>3, <1>4
<1>13. \A x \in Ithread : x # t => rec'[x] = rec[x] /\ os'[x] = os[x]
  BY <1>3
<1>14. u # Main => Made(rec[u]) /\ (op'[u] = <<>> \/ os'[u] \notin {"none", "finished"})
  OBVIOUS
<1>15. os'[t] \in {"none", "finished"} => os'[t] = os[t] \/ t = u
  OBVIOUS
<1>16. QED
  BY <1>3, <1>8, <1>10, <1>11, <1>12, <1>13, <1>14, <1>15, OneStep

\* An object of t goes from interpreter v, and u will give one back.
LEMMA DropStep ==
    ASSUME LifecycleInv, NEW u \in Interp, NEW v \in Interp, NEW t \in Ithread, t \in objs[v],
           objs' = [objs EXCEPT ![v] = @ \ {t}], Push(u, "release", t),
           UNCHANGED <<rec, os, pool, poolMutex>>, Inner(op[u]),
           u # Main => Made(rec[u]) /\ os[u] \notin {"none", "finished"}
    PROVE  LifecycleInv'
<1> DEFINE r == rec[t]
           c == Tally(t)
           c2 == TallyOf(op', t)
           h == Cardinality(Holders(t))
           f == t \in Refused
           s == os[t]
<1>1. Sound(r, s, h, c, f) /\ h \in Nat /\ c \in Numbers /\ r \in Record /\ s \in Stages /\ f \in BOOLEAN
  BY ThreadFacts
<1>2. OpMoves(u, t, "-", "release", "-") /\ op'[u] = Append(op[u], Frame("release", t))
  BY Unpacked, PushMoves DEF Places
<1>3. Moved(c, c2, "-", "release", "-") /\ c2 \in Numbers
  BY <1>2 DEF OpMoves, Tally
<1>4. /\ objs' \in [Interp -> SUBSET Ithread] /\ IsFiniteSet(Holders(t)')
      /\ Cardinality(Holders(t)') = h - 1 /\ h > 0
      /\ \A x \in Ithread : x # t => \A w \in Interp : x \in objs'[w] <=> x \in objs[w]
      /\ \A w \in Interp : objs'[w] \subseteq objs[w]
  BY Unpacked, ThreadFacts, ObjectRemoved
<1>5. Settled(u, op'[u], objs'[u], poolMutex')
  <2>1. Frame("release", t) \in Call /\ Frame("release", t).pc = "release"
    BY FrameCall DEF Places
  <2>2. op[u] \in Seq(Call)
    BY Unpacked DEF Operations
  <2>3. Frame("release", t).pc \notin Base /\ Frame("release", t).pc \notin {"clear", "destruct"}
    BY <2>1 DEF Base
  <2>4. Inner(op'[u])
    BY <1>2, <2>1, <2>2, <2>3, InnerPush
  <2>5. QED  BY <2>4, InnerSettled
<1>6. rec' = [rec EXCEPT ![t] = r]
  BY Unpacked
<1> HIDE DEF h, f, s, c, c2, r
<1>7. Sound(r, s, h - 1, c2, f) /\ Made(r)
  BY <1>1, <1>3, <1>4, SoundDrop DEF Sound, Before
<1>8. c2.uncount = c.uncount
  BY <1>1, <1>3 DEF Moved, Change, One, Numbers
<1>9. Sound(r, os[t], Cardinality(Holders(t)'), TallyOf(op', t), t \in Refused)
  BY <1>4, <1>7 DEF s, c2, f
<1>10. r \in Record /\ r = rec[t]
  BY <1>1 DEF r
<1>11. {"-", "release", "-"} \cap {"start", "join_count"} = {}
  OBVIOUS
<1>12. Made(rec[t]) /\ TallyOf(op', t).uncount = Tally(t).uncount
  BY <1>7, <1>8 DEF r, c, c2
<1>13. QED
  BY <1>2, <1>4, <1>5, <1>6, <1>9, <1>10, <1>11, <1>12, ObjectStep

LEMMA DestructKeeps ==
    ASSUME LifecycleInv, NEW u \in Interp, Destruct(u)
    PROVE  LifecycleInv'
<1>1. PICK v : v = On(u)
  OBVIOUS
<1>2. /\ In(u, "destruct")
      /\ \/ \E r \in objs[v] : objs' = [objs EXCEPT ![v] = @ \ {r}] /\ Push(u, "release", r)
         \/ Pop(u) /\ objs' = objs
      /\ UNCHANGED <<rec, os, pool, poolMutex>>
  BY <1>1 DEF Destruct
<1>3. /\ v \in Ithread /\ op[u] \in Seq(Call) /\ op[u] # <<>> /\ Nested(op[u])
      /\ op[u][Len(op[u])].pc = "destruct" /\ op[u][Len(op[u])].on = v
      /\ u = Main \/ (u \in Ithread /\ Made(rec[u]) /\ os[u] \notin {"none", "finished"})
  BY <1>1, <1>2, FrameFacts DEF Places
<1>4. v \in Interp
  BY <1>3 DEF Interp
<1>5. CASE \E r \in objs[v] : objs' = [objs EXCEPT ![v] = @ \ {r}] /\ Push(u, "release", r)
  <2>1. PICK t \in objs[v] : objs' = [objs EXCEPT ![v] = @ \ {t}] /\ Push(u, "release", t)
    BY <1>5
  <2>2. t \in Ithread
    BY <1>4, Unpacked
  <2>3. Inner(op[u])
    <3>1. op[u][Len(op[u])].pc \notin Base
      BY <1>3 DEF Base
    <3>2. QED  BY <1>3, <3>1, TopFacts
  <2>4. QED  BY <1>2, <1>3, <1>4, <2>1, <2>2, <2>3, DropStep
<1>6. CASE Pop(u) /\ objs' = objs
  <2> DEFINE t == v
             r == rec[t]
             c == Tally(t)
             c2 == TallyOf(op', t)
             h == Cardinality(Holders(t))
             f == t \in Refused
             s == os[t]
  <2>1. OpMoves(u, t, "destruct", "-", "-") /\ op'[u] = Outer(op[u])
    BY <1>1, <1>2, <1>6, Unpacked, PopMoves DEF Places
  <2>2. Moved(c, c2, "destruct", "-", "-") /\ c2 \in Numbers
    BY <2>1 DEF OpMoves, Tally
  <2>3. Sound(r, s, h, c, f) /\ h \in Nat /\ c \in Numbers /\ r \in Record /\ s \in Stages /\ f \in BOOLEAN
    BY <1>3, ThreadFacts
  <2>4. Settled(u, op'[u], objs[u], poolMutex)
    BY <1>3, <2>1, PopSettled
  <2>5. rec' = [rec EXCEPT ![t] = r]
    BY <1>2, <1>3, Unpacked
  <2>6. Made(r)
    <3>1. Outer(op[u]) # <<>> /\ Outer(op[u])[Len(Outer(op[u]))].on = v
          /\ Outer(op[u])[Len(Outer(op[u]))].pc \in {"release", "free"}
      BY <1>3, TopFacts
    <3>2. /\ Outer(op[u]) \in Seq(Call) /\ Len(op[u]) \in Nat \ {0} /\ Len(Outer(op[u])) = Len(op[u]) - 1
          /\ \A i \in 1 .. Len(op[u]) - 1 : Outer(op[u])[i] = op[u][i]
      BY <1>3, OuterFacts
    <3>3. Len(Outer(op[u])) \in 1 .. Len(op[u]) /\ Len(Outer(op[u])) \in 1 .. Len(op[u]) - 1
      BY <3>1, <3>2, EmptySeq
    <3> DEFINE i == Len(Outer(op[u]))
    <3>4. op[u][i].on = v /\ op[u][i].pc \in {"release", "free"}
      BY <3>1, <3>2, <3>3
    <3>5. <<u, i>> \in PlacesOf(op, v, {"release", "free"})
      BY <3>3, <3>4, PlaceIn
    <3>6. <<u, i>> \in PlacesOf(op, v, Claiming) \/ <<u, i>> \in PlacesOf(op, v, {"unlink", "free"})
      BY <3>3, <3>4, PlaceIn DEF Claiming
    <3>7. Claiming \in SUBSET Places /\ {"unlink", "free"} \in SUBSET Places
      BY DEF Claiming, Places
    <3>8. Num(op, v, Claiming) # 0 \/ Num(op, v, {"unlink", "free"}) # 0
      BY <1>3, <3>6, <3>7, Unpacked, NumFacts
    <3>9. c.claim # 0 \/ c.ends # 0
      BY <3>8 DEF Tally, TallyOf
    <3> HIDE DEF c, r, s, h, f
    <3>10. QED  BY <2>3, <3>9 DEF Sound, Before
  <2> HIDE DEF h, f, s, c, c2, r
  <2>7. Sound(r, s, h, c2, f)
    BY <2>2, <2>3, SoundPop
  <2>8. c2.uncount = c.uncount
    BY <2>2, <2>3 DEF Moved, Change, One, Numbers
  <2>9. InExisting(r, c) <=> InExisting(r, c2)
    BY <2>8 DEF InExisting
  <2>10. /\ r \in Record /\ rec' = [rec EXCEPT ![v] = r] /\ Made(rec[v]) /\ Made(r)
         /\ r.state = rec[v].state
         /\ InExisting(r, TallyOf(op', v)) <=> InExisting(rec[v], Tally(v))
         /\ Sound(r, os[v], Cardinality(Holders(v)), TallyOf(op', v), v \in Refused)
    BY <2>3, <2>5, <2>6, <2>7, <2>9 DEF r, s, h, c, c2, f
  <2>11. {"destruct", "-", "-"} \cap {"start", "join_count"} = {}
    OBVIOUS
  <2>12. /\ os' = os /\ objs' = objs /\ pool' = pool /\ poolMutex' = poolMutex
         /\ u # Main => Made(rec[u]) /\ os[u] \notin {"none", "finished"}
    BY <1>2, <1>3, <1>6
  <2>13. QED
    BY ONLY LifecycleInv, u \in Interp, <1>3, <2>1, <2>4, <2>10, <2>11, <2>12, PlainStep
<1>7. QED  BY <1>2, <1>5, <1>6

LEMMA DropKeeps ==
    ASSUME LifecycleInv, NEW u \in Interp, NEW t \in Ithread, Drop(u, t)
    PROVE  LifecycleInv'
<1>1. /\ Calls(u) /\ t \in objs[u] /\ objs' = [objs EXCEPT ![u] = @ \ {t}]
      /\ Push(u, "release", t) /\ UNCHANGED <<rec, os, pool, poolMutex>>
  BY DEF Drop
<1>2. Inner(op[u])
  BY <1>1, InnerEmpty DEF Calls
<1>3. u # Main => Made(rec[u]) /\ os[u] \notin {"none", "finished"}
  BY <1>1, ActorKnown
<1>4. QED  BY <1>1, <1>2, <1>3, DropStep

LEMMA UncountKeeps ==
    ASSUME LifecycleInv, NEW u \in Interp, Uncount(u)
    PROVE  LifecycleInv'
<1>1. PICK t : t = On(u)
  OBVIOUS
<1>2. /\ In(u, "uncount") /\ pool' = [pool EXCEPT !.total = @ - 1] /\ Pop(u)
      /\ rec' = rec /\ os' = os /\ objs' = objs /\ poolMutex' = poolMutex
  BY DEF Uncount
<1>3. /\ t \in Ithread /\ op[u] \in Seq(Call) /\ op[u] # <<>> /\ Nested(op[u])
      /\ u = Main \/ (u \in Ithread /\ Made(rec[u]) /\ os[u] \notin {"none", "finished"})
  BY <1>1, <1>2, FrameFacts DEF Places
<1>4. OpMoves(u, t, "uncount", "-", "-") /\ op'[u] = Outer(op[u])
  BY <1>1, <1>2, Unpacked, PopMoves DEF Places
<1> DEFINE r == rec[t]
           c == Tally(t)
           c2 == TallyOf(op', t)
           h == Cardinality(Holders(t))
           f == t \in Refused
           s == os[t]
<1>5. Moved(c, c2, "uncount", "-", "-") /\ c2 \in Numbers
  BY <1>4 DEF OpMoves, Tally
<1>6. Sound(r, s, h, c, f) /\ h \in Nat /\ c \in Numbers /\ r \in Record /\ s \in Stages /\ f \in BOOLEAN
  BY <1>3, ThreadFacts
<1>7. Settled(u, op'[u], objs[u], poolMutex')
  BY <1>3, <1>4, PopSettled
<1>8. rec' = [rec EXCEPT ![t] = r]
  BY <1>2, <1>3, Unpacked
<1>9. pool \in Pool /\ pool' \in Pool
  <2>1. pool \in Pool
    BY Unpacked
  <2>2. QED  BY <1>2, <2>1 DEF Pool
<1> HIDE DEF h, f, s, c, c2, r
<1>10. c2.uncount = c.uncount - 1 /\ c2.start = c.start /\ c2.join = c.join
  BY <1>5, <1>6 DEF Moved, Change, One, Numbers
<1>11. c.uncount = 1 /\ c2.uncount = 0 /\ r.freed
  BY <1>5, <1>6, <1>10 DEF Sound, CountSound, One, Numbers
<1>12. Made(r)
  BY <1>6, <1>11 DEF Sound, Before
<1>13. Sound(r, s, h, c2, f)
  BY <1>5, <1>6, SoundPop
<1>14. PoolMoves(pool, pool', r, s, c, r, s, c2)
  <2>1. InExisting(r, c) /\ ~ InExisting(r, c2)
    BY <1>11, <1>12 DEF InExisting
  <2>2. Launched(s, c) <=> Launched(s, c2)
    BY <1>10 DEF Launched
  <2>3. /\ InRunning(r, s, c) <=> InRunning(r, s, c2)
        /\ InFinished(r, s, c) <=> InFinished(r, s, c2)
        /\ InJoinCounted(r, s, c) <=> InJoinCounted(r, s, c2)
    BY <1>10, <2>2 DEF InRunning, InFinished, InJoinCounted
  <2>4. /\ pool'.running = pool.running /\ pool'.detached = pool.detached /\ pool'.joinable = pool.joinable
        /\ pool'.total = pool.total - 1
        /\ pool.running \in Int /\ pool.detached \in Int /\ pool.joinable \in Int /\ pool.total \in Int
    BY <1>2, <1>9 DEF Pool
  <2>5. QED  BY <2>1, <2>3, <2>4 DEF PoolMoves, One
<1>15. QED
  BY <1>2, <1>3, <1>4, <1>6, <1>7, <1>8, <1>9, <1>12, <1>13, <1>14, RecordStep DEF r, s, h, c, c2, f

LEMMA SelfKeeps ==
    ASSUME LifecycleInv, NEW t \in Interp, Self(t)
    PROVE  LifecycleInv'
<1>1. /\ Calls(t) /\ t # Main /\ t \notin objs[t]
      /\ objs' = [objs EXCEPT ![t] = @ \cup {t}] /\ rec' = [rec EXCEPT ![t].count = @ + 1]
      /\ os' = os /\ pool' = pool /\ poolMutex' = poolMutex /\ op' = op
  BY DEF Self
<1>2. t \in Ithread /\ Made(rec[t]) /\ os[t] = "running" /\ op[t] = <<>>
  BY <1>1, ActorKnown DEF Calls
<1> DEFINE r == rec[t]
           c == Tally(t)
           c2 == TallyOf(op', t)
           r2 == [r EXCEPT !.count = @ + 1]
           h == Cardinality(Holders(t))
           f == t \in Refused
           s == os[t]
<1>3. Sound(r, s, h, c, f) /\ h \in Nat /\ c \in Numbers /\ r \in Record /\ s \in Stages /\ f \in BOOLEAN
  BY <1>2, ThreadFacts
<1>4. OpMoves(t, t, "-", "-", "-")
  BY <1>1, <1>2, Unpacked, StayMoves
<1>5. c2 = c
  BY <1>1 DEF Tally
<1>6. /\ objs' \in [Interp -> SUBSET Ithread] /\ IsFiniteSet(Holders(t)')
      /\ Cardinality(Holders(t)') = h + 1
      /\ \A x \in Ithread : x # t => \A w \in Interp : x \in objs'[w] <=> x \in objs[w]
      /\ \A w \in Interp : w # t => objs'[w] = objs[w]
  BY <1>1, <1>2, Unpacked, ThreadFacts, ObjectAdded
<1>7. Settled(t, op'[t], objs'[t], poolMutex')
  BY <1>1, <1>2, InnerEmpty, InnerSettled
<1>8. rec' = [rec EXCEPT ![t] = r2]
  BY <1>1
<1> HIDE DEF h, f, s, c, c2, r
<1>9. Sound(r2, s, h + 1, c, f)
  BY <1>2, <1>3, SoundObject DEF s
<1>10. r2 \in Record /\ r2.interp = r.interp /\ r2.state = r.state /\ r2.freed = r.freed
  BY <1>3 DEF Record
<1>11. {"-", "-", "-"} \cap {"start", "join_count"} = {}
  OBVIOUS
<1> HIDE DEF r2
<1>12. Sound(r2, os[t], Cardinality(Holders(t)'), TallyOf(op', t), t \in Refused)
  BY <1>5, <1>6, <1>9 DEF s, c2, f
<1>13. TallyOf(op', t).uncount = Tally(t).uncount
  BY <1>5 DEF c, c2
<1>14. r2.interp = rec[t].interp /\ r2.state = rec[t].state /\ r2.freed = rec[t].freed
  BY <1>10 DEF r
<1>15. os[t] \notin {"none", "finished"}
  BY <1>2
<1>16. \A w \in Interp : w # t => objs'[w] \subseteq objs[w]
  BY <1>6
<1>17. os' = os /\ pool' = pool /\ poolMutex' = poolMutex
  BY <1>1
<1>18. t \in Interp /\ t \in Ithread /\ Made(rec[t])
  BY <1>2
<1>19. objs' \in [Interp -> SUBSET Ithread] /\ IsFiniteSet(Holders(t)')
  BY <1>6
<1>20. \A x \in Ithread : x # t => \A w \in Interp : x \in objs'[w] <=> x \in objs[w]
  BY <1>6
<1>21. r2 \in Record
  BY <1>10
<1>22. QED
  BY ONLY LifecycleInv, <1>4, <1>7, <1>8, <1>11, <1>12, <1>13, <1>14, <1>15, <1>16, <1>17, <1>18, <1>19,
     <1>20, <1>21, ObjectStep

\* A listed thread that may still be refused is not there for anybody to see.
LEMMA RefusedUnseen ==
    ASSUME LifecycleInv, RefusalUnseen, NEW u \in Listers, op[u] = <<>>, NEW t \in Refused
    PROVE  Tally(t).start = 0
<1>1. t \in Ithread
  BY LifecycleAssumption
<1>2. ASSUME NEW p \in PlacesOf(op, t, {"start"}) PROVE FALSE
  <2>1. <<p[1], p[2]>> \in PlacesOf(op, t, {"start"})
    BY PlacesArePairs
  <2>2. p[1] \in Interp /\ p[2] \in 1 .. Len(op[p[1]]) /\ op[p[1]][p[2]].pc = "start"
    BY <2>1, PlaceIn
  <2>3. p[1] \in Creators
    BY <2>2 DEF LifecycleInv, Settled
  <2>4. p[1] = u
    BY <2>3 DEF RefusalUnseen
  <2>5. Len(op[p[1]]) = 0
    BY <2>4
  <2>6. QED  BY <2>2, <2>5
<1>3. {"start"} \in SUBSET Places
  BY DEF Places
<1>4. QED  BY <1>1, <1>2, <1>3, Unpacked, NumFacts DEF Tally, TallyOf

LEMMA LookKeeps ==
    ASSUME LifecycleInv, RefusalUnseen, NEW u \in Interp, NEW t \in Ithread, Look(u, t)
    PROVE  LifecycleInv'
<1>1. /\ Calls(u) /\ u \in Listers /\ poolMutex = Nobody /\ rec[t].listed /\ ~ Claimed(t) /\ t \notin objs[u]
      /\ poolMutex' = u /\ Push(u, "take", t)
      /\ rec' = rec /\ os' = os /\ objs' = objs /\ pool' = pool
  BY DEF Look, PoolFree
<1>2. op[u] = <<>> /\ (u # Main => Made(rec[u]) /\ os[u] \notin {"none", "finished"})
  BY <1>1, ActorKnown DEF Calls
<1> DEFINE r == rec[t]
           c == Tally(t)
           c2 == TallyOf(op', t)
           h == Cardinality(Holders(t))
           f == t \in Refused
           s == os[t]
<1>3. Sound(r, s, h, c, f) /\ h \in Nat /\ c \in Numbers /\ r \in Record /\ s \in Stages /\ f \in BOOLEAN
  BY ThreadFacts
<1>4. OpMoves(u, t, "-", "take", "-") /\ op'[u] = Append(op[u], Frame("take", t))
  BY <1>1, Unpacked, PushMoves DEF Places
<1>5. Moved(c, c2, "-", "take", "-") /\ c2 \in Numbers
  BY <1>4 DEF OpMoves, Tally
<1>6. f => c.start = 0
  BY <1>1, <1>2, RefusedUnseen
<1>7. Settled(u, op'[u], objs'[u], poolMutex')
  <2>1. Frame("take", t) \in Call /\ Frame("take", t).pc = "take" /\ Frame("take", t).on = t
    BY FrameCall DEF Places
  <2>2. QED  BY <1>1, <1>2, <1>4, <2>1, FirstSettled
<1>8. rec' = [rec EXCEPT ![t] = r]
  BY <1>1, Unpacked
<1>9. Unclaimed(r)
  BY <1>1 DEF Unclaimed, Claimed
<1>10. r.listed
  BY <1>1
<1>11. /\ objs' \in [Interp -> SUBSET Ithread] /\ Holders(t)' = Holders(t) /\ IsFiniteSet(Holders(t))
  BY <1>1, Unpacked, ThreadFacts DEF Holders
<1> HIDE DEF h, f, s, c, c2, r
<1>12. Sound(r, s, h, c2, f) /\ Made(r)
  BY <1>3, <1>5, <1>6, <1>9, <1>10, SoundLook DEF Sound, Unborn
<1>13. c2.uncount = c.uncount
  BY <1>3, <1>5 DEF Moved, Change, One, Numbers
<1>14. {"-", "take", "-"} \cap {"start", "join_count"} = {}
  OBVIOUS
<1>15. Sound(r, os[t], Cardinality(Holders(t)'), TallyOf(op', t), t \in Refused)
  BY <1>11, <1>12 DEF s, h, c2, f
<1>16. r \in Record /\ r = rec[t] /\ Made(rec[t]) /\ TallyOf(op', t).uncount = Tally(t).uncount
  BY <1>3, <1>12, <1>13 DEF r, c, c2
<1>17. QED
  BY <1>1, <1>2, <1>4, <1>7, <1>8, <1>11, <1>14, <1>15, <1>16, ObjectStep

LEMMA TakeKeeps ==
    ASSUME LifecycleInv, NEW u \in Interp, TakeObject(u)
    PROVE  LifecycleInv'
<1>1. PICK t : t = On(u)
  OBVIOUS
<1>2. /\ In(u, "take") /\ rec' = [rec EXCEPT ![t].count = @ + 1]
      /\ objs' = [objs EXCEPT ![u] = @ \cup {t}] /\ poolMutex' = Nobody /\ Pop(u)
      /\ os' = os /\ pool' = pool
  BY <1>1 DEF TakeObject
<1>3. /\ t \in Ithread /\ op[u] \in Seq(Call) /\ op[u] # <<>> /\ Nested(op[u])
      /\ op[u][Len(op[u])].pc = "take" /\ op[u][Len(op[u])].on = t
      /\ u = Main \/ (u \in Ithread /\ Made(rec[u]) /\ os[u] \notin {"none", "finished"})
  BY <1>1, <1>2, FrameFacts DEF Places
<1>4. poolMutex = u /\ t \notin objs[u]
  <2>1. Len(op[u]) \in 1 .. Len(op[u])
    BY <1>3, EmptySeq
  <2>2. Settled(u, op[u], objs[u], poolMutex)
    BY DEF LifecycleInv
  <2>3. QED  BY <1>3, <2>1, <2>2 DEF Settled
<1>5. OpMoves(u, t, "take", "-", "-") /\ op'[u] = Outer(op[u])
  BY <1>1, <1>2, Unpacked, PopMoves DEF Places
<1> DEFINE r == rec[t]
           c == Tally(t)
           c2 == TallyOf(op', t)
           r2 == [r EXCEPT !.count = @ + 1]
           h == Cardinality(Holders(t))
           f == t \in Refused
           s == os[t]
<1>6. Moved(c, c2, "take", "-", "-") /\ c2 \in Numbers
  BY <1>5 DEF OpMoves, Tally
<1>7. Sound(r, s, h, c, f) /\ h \in Nat /\ c \in Numbers /\ r \in Record /\ s \in Stages /\ f \in BOOLEAN
  BY <1>3, ThreadFacts
<1>8. /\ objs' \in [Interp -> SUBSET Ithread] /\ IsFiniteSet(Holders(t)')
      /\ Cardinality(Holders(t)') = h + 1
      /\ \A x \in Ithread : x # t => \A w \in Interp : x \in objs'[w] <=> x \in objs[w]
      /\ \A w \in Interp : w # u => objs'[w] = objs[w]
  BY <1>2, <1>3, <1>4, Unpacked, ThreadFacts, ObjectAdded
<1>9. Settled(u, op'[u], objs'[u], poolMutex')
  BY <1>3, <1>5, PopSettled
<1>10. rec' = [rec EXCEPT ![t] = r2]
  BY <1>2
<1> HIDE DEF h, f, s, c, c2, r
<1>11. c.take > 0 /\ c2.uncount = c.uncount
  BY <1>6, <1>7 DEF Moved, Change, One, Numbers
<1>12. Sound(r2, s, h + 1, c2, f) /\ Made(r)
  BY <1>6, <1>7, <1>11, SoundTake DEF Sound, JoinSound
<1>13. r2 \in Record /\ r2.interp = r.interp /\ r2.state = r.state /\ r2.freed = r.freed
  BY <1>7 DEF Record
<1>14. {"take", "-", "-"} \cap {"start", "join_count"} = {}
  OBVIOUS
<1> HIDE DEF r2
<1>15. Sound(r2, os[t], Cardinality(Holders(t)'), TallyOf(op', t), t \in Refused)
  BY <1>8, <1>12 DEF s, c2, f
<1>16. /\ TallyOf(op', t).uncount = Tally(t).uncount /\ Made(rec[t])
       /\ r2.interp = rec[t].interp /\ r2.state = rec[t].state /\ r2.freed = rec[t].freed
  BY <1>11, <1>12, <1>13 DEF r, c, c2
<1>17. \A w \in Interp : w # u => objs'[w] \subseteq objs[w]
  BY <1>8
<1>18. u # Main => Made(rec[u]) /\ os[u] \notin {"none", "finished"}
  BY <1>3
<1>19. os' = os /\ pool' = pool /\ poolMutex = u /\ poolMutex' = Nobody
  BY <1>2, <1>4
<1>20. objs' \in [Interp -> SUBSET Ithread] /\ IsFiniteSet(Holders(t)')
  BY <1>8
<1>21. \A x \in Ithread : x # t => \A w \in Interp : x \in objs'[w] <=> x \in objs[w]
  BY <1>8
<1>22. u \in Interp /\ t \in Ithread /\ r2 \in Record /\ OpMoves(u, t, "take", "-", "-")
  BY <1>3, <1>5, <1>13
<1>23. QED
  BY ONLY LifecycleInv, <1>9, <1>10, <1>14, <1>15, <1>16, <1>17, <1>18, <1>19, <1>20, <1>21, <1>22, ObjectStep

LEMMA JoinKeeps ==
    ASSUME LifecycleInv, NEW u \in Interp, NEW t \in Ithread, Join(u, t)
    PROVE  LifecycleInv'
<1>1. /\ Calls(u) /\ t \in objs[u] /\ ~ Claimed(t)
      /\ rec' = [rec EXCEPT ![t].state = @ \cup {"JOINED"}] /\ Push(u, "join_count", t)
      /\ os' = os /\ objs' = objs /\ pool' = pool /\ poolMutex' = poolMutex
  BY DEF Join
<1>2. op[u] = <<>> /\ (u # Main => Made(rec[u]) /\ os[u] \notin {"none", "finished"})
  BY <1>1, ActorKnown DEF Calls
<1> DEFINE r == rec[t]
           c == Tally(t)
           c2 == TallyOf(op', t)
           r2 == [r EXCEPT !.state = @ \cup {"JOINED"}]
           h == Cardinality(Holders(t))
           f == t \in Refused
           s == os[t]
<1>3. Sound(r, s, h, c, f) /\ h \in Nat /\ c \in Numbers /\ r \in Record /\ s \in Stages /\ f \in BOOLEAN
  BY ThreadFacts
<1>4. OpMoves(u, t, "-", "join_count", "-") /\ op'[u] = Append(op[u], Frame("join_count", t))
  BY <1>1, Unpacked, PushMoves DEF Places
<1>5. Moved(c, c2, "-", "join_count", "-") /\ c2 \in Numbers
  BY <1>4 DEF OpMoves, Tally
<1>6. h > 0
  BY <1>1, ThreadFacts, HeldCounts
<1>7. Settled(u, op'[u], objs[u], poolMutex')
  <2>1. Frame("join_count", t) \in Call /\ Frame("join_count", t).pc = "join_count"
    BY FrameCall DEF Places
  <2>2. QED  BY <1>2, <1>4, <2>1, FirstSettled
<1>8. rec' = [rec EXCEPT ![t] = r2]
  BY <1>1
<1>9. Unclaimed(r)
  BY <1>1 DEF Unclaimed, Claimed
<1>10. pool \in Pool
  BY Unpacked
<1> HIDE DEF h, f, s, c, c2, r
<1>11. Sound(r2, s, h, c2, f) /\ Made(r)
  BY <1>3, <1>5, <1>6, <1>9, SoundJoin DEF Sound, Before
<1>12. /\ r2 \in Record /\ r2.interp = r.interp /\ r2.state = r.state \cup {"JOINED"}
       /\ r2.freed = r.freed
  BY <1>3 DEF Record, Flags
<1> HIDE DEF r2
<1>13. Made(r2)
  BY <1>11, <1>12 DEF Made
<1>14. PoolMoves(pool, pool, r, s, c, r2, s, c2)
  <2>1. c2.start = c.start /\ c2.uncount = c.uncount /\ c2.join = c.join + 1 /\ c.join \in Nat
    BY <1>3, <1>5 DEF Moved, Change, One, Numbers
  <2>2. Launched(s, c) <=> Launched(s, c2)
    BY <2>1 DEF Launched
  <2>3. "JOINED" \notin r.state
    BY <1>9 DEF Unclaimed
  <2>4. \A x \in {"FINISHED", "DETACHED"} : x \in r2.state <=> x \in r.state
    BY <1>12
  <2>5. /\ InRunning(r, s, c) <=> InRunning(r2, s, c2)
        /\ InDetached(r) <=> InDetached(r2)
        /\ InFinished(r, s, c) <=> InFinished(r2, s, c2)
        /\ ~ InJoinCounted(r, s, c) /\ ~ InJoinCounted(r2, s, c2)
        /\ InExisting(r, c) <=> InExisting(r2, c2)
    BY <1>11, <1>12, <1>13, <2>1, <2>2, <2>3, <2>4
       DEF InRunning, InDetached, InFinished, InJoinCounted, InExisting
  <2>6. pool.running \in Int /\ pool.detached \in Int /\ pool.joinable \in Int /\ pool.total \in Int
    BY <1>10 DEF Pool
  <2>7. QED  BY <2>5, <2>6 DEF PoolMoves, One
<1>15. PoolMoves(pool, pool', rec[t], os[t], Tally(t), r2, os[t], TallyOf(op', t))
  BY <1>1, <1>14 DEF r, s, c, c2
<1>16. Sound(r2, os[t], Cardinality(Holders(t)), TallyOf(op', t), t \in Refused) /\ Made(rec[t])
  BY <1>11 DEF s, h, c2, f, r
<1>17. os' = os /\ objs' = objs /\ pool' \in Pool /\ poolMutex' = poolMutex
  BY <1>1, <1>10
<1>18. u # Main => Made(rec[u]) /\ os[u] \notin {"none", "finished"}
  BY <1>2
<1>19. r2 \in Record
  BY <1>12
<1>20. QED
  BY <1>4, <1>7, <1>8, <1>13, <1>15, <1>16, <1>17, <1>18, <1>19, RecordStep

LEMMA JoinCountKeeps ==
    ASSUME LifecycleInv, NEW u \in Interp, JoinCount(u)
    PROVE  LifecycleInv'
<1>1. PICK t : t = On(u)
  OBVIOUS
<1>2. /\ In(u, "join_count") /\ PoolFree /\ pool' = [pool EXCEPT !.joinable = @ - 1]
      /\ Become(u, "join_wait")
      /\ rec' = rec /\ os' = os /\ objs' = objs /\ poolMutex' = poolMutex
  BY DEF JoinCount
<1>3. /\ t \in Ithread /\ op[u] \in Seq(Call) /\ op[u] # <<>> /\ Nested(op[u])
      /\ op[u][Len(op[u])].pc = "join_count"
      /\ u = Main \/ (u \in Ithread /\ Made(rec[u]) /\ os[u] \notin {"none", "finished"})
  BY <1>1, <1>2, FrameFacts DEF Places
<1>4. /\ OpMoves(u, t, "join_count", "join_wait", "-")
      /\ op'[u] = Append(Outer(op[u]), Frame("join_wait", t))
  <2>1. "join_count" \in Places /\ "join_wait" \in Places
    BY DEF Places
  <2>2. QED  BY <1>1, <1>2, <2>1, Unpacked, BecomeMoves
<1> DEFINE r == rec[t]
           c == Tally(t)
           c2 == TallyOf(op', t)
           h == Cardinality(Holders(t))
           f == t \in Refused
           s == os[t]
<1>5. Moved(c, c2, "join_count", "join_wait", "-") /\ c2 \in Numbers
  BY <1>4 DEF OpMoves, Tally
<1>6. Sound(r, s, h, c, f) /\ h \in Nat /\ c \in Numbers /\ r \in Record /\ s \in Stages /\ f \in BOOLEAN
  BY <1>3, ThreadFacts
<1>7. c.take = 0
  BY <1>2, <1>3, NobodyTakes
<1>8. Settled(u, op'[u], objs[u], poolMutex')
  <2>1. Frame("join_wait", t) \in Call /\ Frame("join_wait", t).pc = "join_wait"
    BY <1>3, FrameCall DEF Places
  <2>2. op[u][Len(op[u])].pc \in Base
    BY <1>3 DEF Base
  <2>3. QED  BY <1>3, <1>4, <2>1, <2>2, BecomeSettled
<1>9. rec' = [rec EXCEPT ![t] = r]
  BY <1>2, <1>3, Unpacked
<1>10. pool \in Pool /\ pool' \in Pool
  <2>1. pool \in Pool
    BY Unpacked
  <2>2. QED  BY <1>2, <2>1 DEF Pool
<1> HIDE DEF h, f, s, c, c2, r
<1>11. c.join > 0 /\ c2.start = c.start /\ c2.uncount = c.uncount
  BY <1>5, <1>6 DEF Moved, Change, One, Numbers
<1>12. Sound(r, s, h, c2, f) /\ c2.join = 0 /\ c.join = 1
  BY <1>5, <1>6, <1>7, <1>11, SoundJoinCount
<1>13. Made(r) /\ "JOINED" \in r.state /\ Launched(s, c)
  BY <1>6, <1>11 DEF Sound, Before, JoinSound
<1>14. PoolMoves(pool, pool', r, s, c, r, s, c2)
  <2>1. Launched(s, c2)
    BY <1>11, <1>13 DEF Launched
  <2>2. /\ InRunning(r, s, c) <=> InRunning(r, s, c2)
        /\ InFinished(r, s, c) <=> InFinished(r, s, c2)
        /\ ~ InJoinCounted(r, s, c) /\ InJoinCounted(r, s, c2)
        /\ InExisting(r, c) <=> InExisting(r, c2)
    BY <1>11, <1>12, <1>13, <2>1 DEF InRunning, InFinished, InJoinCounted, InExisting
  <2>3. /\ pool'.running = pool.running /\ pool'.detached = pool.detached /\ pool'.total = pool.total
        /\ pool'.joinable = pool.joinable - 1
        /\ pool.running \in Int /\ pool.detached \in Int /\ pool.joinable \in Int /\ pool.total \in Int
    BY <1>2, <1>10 DEF Pool
  <2>4. QED  BY <2>2, <2>3 DEF PoolMoves, One
<1>15. QED
  BY <1>2, <1>3, <1>4, <1>6, <1>8, <1>9, <1>10, <1>12, <1>13, <1>14, RecordStep DEF r, s, h, c, c2, f

LEMMA EndRunKeeps ==
    ASSUME LifecycleInv, NEW t \in Interp, EndRun(t)
    PROVE  LifecycleInv'
<1>1. /\ t # Main /\ os[t] = "finished" /\ os' = [os EXCEPT ![t] = "releasing"] /\ Push(t, "release", t)
      /\ rec' = rec /\ objs' = objs /\ pool' = pool /\ poolMutex' = poolMutex
  BY DEF EndRun
<1>2. t \in Ithread /\ op[t] = <<>>
  <2>1. t \in Ithread
    BY <1>1 DEF Interp
  <2>2. QED  BY <1>1, <2>1 DEF LifecycleInv, Quiet
<1> DEFINE r == rec[t]
           c == Tally(t)
           c2 == TallyOf(op', t)
           h == Cardinality(Holders(t))
           f == t \in Refused
<1>3. Sound(r, "finished", h, c, f) /\ h \in Nat /\ c \in Numbers /\ r \in Record /\ f \in BOOLEAN
  BY <1>1, <1>2, ThreadFacts
<1>4. OpMoves(t, t, "-", "release", "-") /\ op'[t] = Append(op[t], Frame("release", t))
  BY <1>1, <1>2, Unpacked, PushMoves DEF Places
<1>5. Moved(c, c2, "-", "release", "-") /\ c2 \in Numbers
  BY <1>4 DEF OpMoves, Tally
<1>6. Settled(t, op'[t], objs'[t], poolMutex')
  <2>1. Frame("release", t) \in Call /\ Frame("release", t).pc = "release"
    BY <1>2, FrameCall DEF Places
  <2>2. QED  BY <1>2, <1>4, <2>1, FirstSettled
<1>7. /\ os' \in [Ithread -> Stages] /\ os'[t] = "releasing" /\ \A x \in Ithread : x # t => os'[x] = os[x]
      /\ rec' \in [Ithread -> Record] /\ objs' \in [Interp -> SUBSET Ithread] /\ pool \in Pool
      /\ pool' \in Pool
  <2>1. os \in [Ithread -> Stages] /\ "releasing" \in Stages
    BY Unpacked DEF Stages
  <2>2. QED  BY <1>1, <1>2, <2>1, Unpacked
<1>8. Holders(t)' = Holders(t) /\ IsFiniteSet(Holders(t))
  BY <1>1, <1>2, ThreadFacts DEF Holders
<1> HIDE DEF h, f, c, c2, r
<1>9. Sound(r, "releasing", h, c2, f) /\ Made(r)
  BY <1>3, <1>5, SoundEnd DEF Sound, Before
<1>10. PoolMoves(pool, pool, r, "finished", c, r, "releasing", c2)
  <2>1. c2.join = c.join /\ c2.uncount = c.uncount
    BY <1>3, <1>5 DEF Moved, Change, One, Numbers
  <2>2. Launched("finished", c) /\ Launched("releasing", c2)
    BY DEF Launched
  <2>3. InExisting(r, c) <=> InExisting(r, c2)
    BY <2>1 DEF InExisting
  <2>4. QED  BY <1>7, <2>1, <2>2, <2>3, PoolSame
<1>11. PoolMoves(pool, pool', rec[t], os[t], Tally(t), rec'[t], os'[t], TallyOf(op', t))
  BY <1>1, <1>7, <1>10 DEF r, c, c2
<1>12. Sound(rec'[t], os'[t], Cardinality(Holders(t)'), TallyOf(op', t), t \in Refused)
  BY <1>1, <1>7, <1>8, <1>9 DEF r, h, c2, f
<1>13. Made(rec[t]) /\ Made(rec'[t])
  BY <1>1, <1>9 DEF r
<1>14. /\ \A x \in Ithread : x # t => rec'[x] = rec[x] /\ os'[x] = os[x]
       /\ \A x \in Ithread : x # t => \A v \in Interp : x \in objs'[v] <=> x \in objs[v]
       /\ \A v \in Interp : v # t => objs'[v] \subseteq objs[v]
       /\ poolMutex' = poolMutex /\ os'[t] \notin {"none", "finished"} /\ IsFiniteSet(Holders(t)')
  BY <1>1, <1>7, <1>8
<1>15. QED
  BY <1>2, <1>4, <1>6, <1>7, <1>11, <1>12, <1>13, <1>14, OneStep

LEMMA GoneKeeps ==
    ASSUME LifecycleInv, NEW t \in Interp, Gone(t)
    PROVE  LifecycleInv'
<1>1. /\ t # Main /\ os[t] = "releasing" /\ os' = [os EXCEPT ![t] = "gone"] /\ op[t] = <<>>
      /\ rec' = rec /\ objs' = objs /\ pool' = pool /\ poolMutex' = poolMutex /\ op' = op
  BY DEF Gone
<1>2. t \in Ithread
  BY <1>1 DEF Interp
<1> DEFINE r == rec[t]
           c == Tally(t)
           c2 == TallyOf(op', t)
           h == Cardinality(Holders(t))
           f == t \in Refused
<1>3. Sound(r, "releasing", h, c, f) /\ h \in Nat /\ c \in Numbers /\ r \in Record /\ f \in BOOLEAN
  BY <1>1, <1>2, ThreadFacts
<1>4. OpMoves(t, t, "-", "-", "-") /\ c2 = c
  BY <1>1, <1>2, Unpacked, StayMoves DEF Tally
<1>5. Settled(t, op'[t], objs'[t], poolMutex')
  BY <1>1, InnerEmpty, InnerSettled
<1>6. /\ os' \in [Ithread -> Stages] /\ os'[t] = "gone" /\ \A x \in Ithread : x # t => os'[x] = os[x]
      /\ rec' \in [Ithread -> Record] /\ objs' \in [Interp -> SUBSET Ithread] /\ pool \in Pool
      /\ pool' \in Pool
  <2>1. os \in [Ithread -> Stages] /\ "gone" \in Stages
    BY Unpacked DEF Stages
  <2>2. QED  BY <1>1, <1>2, <2>1, Unpacked
<1>7. Holders(t)' = Holders(t) /\ IsFiniteSet(Holders(t))
  BY <1>1, <1>2, ThreadFacts DEF Holders
<1> HIDE DEF h, f, c, c2, r
<1>8. Sound(r, "gone", h, c, f) /\ Made(r)
  BY <1>3, SoundGone DEF Sound, Before
<1>9. PoolMoves(pool, pool, r, "releasing", c, r, "gone", c)
  <2>1. Launched("releasing", c) /\ Launched("gone", c)
    BY DEF Launched
  <2>2. QED  BY <1>6, <2>1, PoolSame
<1>10. PoolMoves(pool, pool', rec[t], os[t], Tally(t), rec'[t], os'[t], TallyOf(op', t))
  BY <1>1, <1>4, <1>6, <1>9 DEF r, c, c2
<1>11. Sound(rec'[t], os'[t], Cardinality(Holders(t)'), TallyOf(op', t), t \in Refused)
  BY <1>1, <1>4, <1>6, <1>7, <1>8 DEF r, h, c2, f
<1>12. Made(rec[t]) /\ Made(rec'[t])
  BY <1>1, <1>8 DEF r
<1>13. /\ \A x \in Ithread : x # t => rec'[x] = rec[x] /\ os'[x] = os[x]
       /\ \A x \in Ithread : x # t => \A v \in Interp : x \in objs'[v] <=> x \in objs[v]
       /\ \A v \in Interp : v # t => objs'[v] \subseteq objs[v]
       /\ poolMutex' = poolMutex /\ os'[t] \notin {"none", "finished"} /\ IsFiniteSet(Holders(t)')
       /\ op'[t] = <<>>
  BY <1>1, <1>6, <1>7
<1>14. QED
  BY <1>2, <1>4, <1>5, <1>6, <1>10, <1>11, <1>12, <1>13, OneStep

LEMMA DetachKeeps ==
    ASSUME LifecycleInv, NEW u \in Interp, NEW t \in Ithread, Detach(u, t)
    PROVE  LifecycleInv'
<1>1. /\ Calls(u) /\ (t \in objs[u] \/ t = u) /\ ~ Claimed(t) /\ PoolFree
      /\ rec' = [rec EXCEPT ![t].state = @ \cup {"DETACHED"}] /\ Push(u, "detach_free", t)
      /\ pool' = IF "FINISHED" \in rec[t].state
                 THEN [pool EXCEPT !.joinable = @ - 1]
                 ELSE [pool EXCEPT !.running = @ - 1, !.detached = @ + 1]
      /\ os' = os /\ objs' = objs /\ poolMutex' = poolMutex
  BY DEF Detach
<1>2. op[u] = <<>> /\ (u # Main => Made(rec[u]) /\ os[u] \notin {"none", "finished"})
  BY <1>1, ActorKnown DEF Calls
<1> DEFINE r == rec[t]
           c == Tally(t)
           c2 == TallyOf(op', t)
           r2 == [r EXCEPT !.state = @ \cup {"DETACHED"}]
           h == Cardinality(Holders(t))
           f == t \in Refused
           s == os[t]
<1>3. Sound(r, s, h, c, f) /\ h \in Nat /\ c \in Numbers /\ r \in Record /\ s \in Stages /\ f \in BOOLEAN
  BY ThreadFacts
<1>4. OpMoves(u, t, "-", "detach_free", "-") /\ op'[u] = Append(op[u], Frame("detach_free", t))
  BY <1>1, Unpacked, PushMoves DEF Places
<1>5. Moved(c, c2, "-", "detach_free", "-") /\ c2 \in Numbers
  BY <1>4 DEF OpMoves, Tally
<1>6. h > 0 \/ s = "running"
  <2>1. CASE t \in objs[u]
    BY <2>1, ThreadFacts, HeldCounts
  <2>2. CASE t = u
    BY <1>1, <2>2, LifecycleAssumption DEF Calls
  <2>3. QED  BY <1>1, <2>1, <2>2
<1>7. Settled(u, op'[u], objs[u], poolMutex')
  <2>1. Frame("detach_free", t) \in Call /\ Frame("detach_free", t).pc = "detach_free"
    BY FrameCall DEF Places
  <2>2. QED  BY <1>2, <1>4, <2>1, FirstSettled
<1>8. rec' = [rec EXCEPT ![t] = r2]
  BY <1>1
<1>9. Unclaimed(r) /\ c.take = 0
  BY <1>1, NobodyTakes DEF Unclaimed, Claimed
<1>10. pool \in Pool
  BY Unpacked
<1>11. pool' = IF "FINISHED" \in r.state THEN [pool EXCEPT !.joinable = @ - 1]
               ELSE [pool EXCEPT !.running = @ - 1, !.detached = @ + 1]
  BY <1>1
<1> HIDE DEF h, f, s, c, c2, r
<1>12. Sound(r2, s, h, c2, f) /\ Made(r)
  BY <1>3, <1>5, <1>6, <1>9, SoundDetach DEF Sound, Before
<1>13. /\ r2 \in Record /\ r2.interp = r.interp /\ r2.state = r.state \cup {"DETACHED"}
       /\ r2.freed = r.freed
  BY <1>3 DEF Record, Flags
<1> HIDE DEF r2
<1>14. Made(r2)
  BY <1>12, <1>13 DEF Made
<1>15. pool' \in Pool /\ PoolMoves(pool, pool', r, s, c, r2, s, c2)
  <2>1. c2.start = c.start /\ c2.uncount = c.uncount /\ c2.join = c.join
    BY <1>3, <1>5 DEF Moved, Change, One, Numbers
  <2>2. Launched(s, c) /\ Launched(s, c2)
    <3>1. Launched(s, c)
      BY <1>3, <1>9, <1>12 DEF Sound, StartSound
    <3>2. QED  BY <2>1, <3>1 DEF Launched
  <2>3. "JOINED" \notin r.state /\ "DETACHED" \notin r.state
    BY <1>9 DEF Unclaimed
  <2>4. "DETACHED" \in r2.state /\ \A x \in {"FINISHED", "JOINED"} : x \in r2.state <=> x \in r.state
    BY <1>13
  <2>5. InExisting(r, c) <=> InExisting(r2, c2)
    BY <1>12, <1>13, <1>14, <2>1 DEF InExisting
  <2>6. ~ InJoinCounted(r, s, c) /\ ~ InJoinCounted(r2, s, c2)
    BY <2>3, <2>4 DEF InJoinCounted
  <2>7. pool.running \in Int /\ pool.detached \in Int /\ pool.joinable \in Int /\ pool.total \in Int
    BY <1>10 DEF Pool
  <2>8. CASE "FINISHED" \in r.state
    <3>1. /\ ~ InRunning(r, s, c) /\ ~ InRunning(r2, s, c2)
          /\ ~ InDetached(r) /\ ~ InDetached(r2)
          /\ InFinished(r, s, c) /\ ~ InFinished(r2, s, c2)
      BY <1>12, <1>14, <2>2, <2>3, <2>4, <2>8 DEF InRunning, InDetached, InFinished
    <3>2. /\ pool'.running = pool.running /\ pool'.detached = pool.detached /\ pool'.total = pool.total
          /\ pool'.joinable = pool.joinable - 1 /\ pool' \in Pool
      BY <1>10, <1>11, <2>7, <2>8 DEF Pool
    <3>3. QED  BY <2>5, <2>6, <2>7, <3>1, <3>2 DEF PoolMoves, One
  <2>9. CASE "FINISHED" \notin r.state
    <3>1. /\ InRunning(r, s, c) /\ ~ InRunning(r2, s, c2)
          /\ ~ InDetached(r) /\ InDetached(r2)
          /\ ~ InFinished(r, s, c) /\ ~ InFinished(r2, s, c2)
      BY <1>12, <1>14, <2>2, <2>3, <2>4, <2>9 DEF InRunning, InDetached, InFinished
    <3>2. /\ pool'.running = pool.running - 1 /\ pool'.detached = pool.detached + 1
          /\ pool'.total = pool.total /\ pool'.joinable = pool.joinable /\ pool' \in Pool
      <4>1. pool' = [pool EXCEPT !.running = @ - 1, !.detached = @ + 1]
        BY <1>11, <2>9
      <4>2. pool' = [running |-> pool.running - 1, joinable |-> pool.joinable,
                     detached |-> pool.detached + 1, total |-> pool.total]
        BY <1>10, <4>1 DEF Pool
      <4>3. QED  BY <2>7, <4>2 DEF Pool
    <3>3. QED  BY <2>5, <2>6, <2>7, <3>1, <3>2 DEF PoolMoves, One
  <2>10. QED  BY <2>8, <2>9
<1>16. PoolMoves(pool, pool', rec[t], os[t], Tally(t), r2, os[t], TallyOf(op', t))
  BY <1>15 DEF r, s, c, c2
<1>17. Sound(r2, os[t], Cardinality(Holders(t)), TallyOf(op', t), t \in Refused) /\ Made(rec[t])
  BY <1>12 DEF s, h, c2, f, r
<1>18. os' = os /\ objs' = objs /\ poolMutex' = poolMutex /\ r2 \in Record /\ pool' \in Pool
  BY <1>1, <1>13, <1>15
<1>19. u # Main => Made(rec[u]) /\ os[u] \notin {"none", "finished"}
  BY <1>2
<1>20. QED
  BY ONLY LifecycleInv, u \in Interp, t \in Ithread, <1>4, <1>7, <1>8, <1>14, <1>16, <1>17, <1>18, <1>19,
     RecordStep

LEMMA FinishKeeps ==
    ASSUME LifecycleInv, NEW t \in Interp, Finish(t)
    PROVE  LifecycleInv'
<1>1. PICK died \in {{}, {"DIED"}} : rec' = [rec EXCEPT ![t].state = @ \cup {"FINISHED"} \cup died]
  BY DEF Finish
<1>2. /\ t # Main /\ Calls(t) /\ PoolFree /\ os' = [os EXCEPT ![t] = "finished"]
      /\ pool' = EndCounted(t) /\ objs' = objs /\ poolMutex' = poolMutex /\ op' = op
  BY DEF Finish
<1>3. t \in Ithread /\ op[t] = <<>> /\ os[t] = "running" /\ Made(rec[t])
  BY <1>2, ActorKnown DEF Calls
<1> DEFINE r == rec[t]
           c == Tally(t)
           c2 == TallyOf(op', t)
           r2 == [r EXCEPT !.state = @ \cup {"FINISHED"} \cup died]
           h == Cardinality(Holders(t))
           f == t \in Refused
<1>4. Sound(r, "running", h, c, f) /\ h \in Nat /\ c \in Numbers /\ r \in Record /\ f \in BOOLEAN
  BY <1>3, ThreadFacts
<1>5. OpMoves(t, t, "-", "-", "-") /\ c2 = c
  BY <1>2, <1>3, Unpacked, StayMoves DEF Tally
<1>6. Settled(t, op'[t], objs'[t], poolMutex')
  BY <1>2, <1>3, InnerEmpty, InnerSettled
<1>7. /\ os' \in [Ithread -> Stages] /\ os'[t] = "finished" /\ \A x \in Ithread : x # t => os'[x] = os[x]
      /\ objs' \in [Interp -> SUBSET Ithread] /\ pool \in Pool
  <2>1. os \in [Ithread -> Stages] /\ "finished" \in Stages
    BY Unpacked DEF Stages
  <2>2. QED  BY <1>2, <1>3, <2>1, Unpacked
<1>8. Holders(t)' = Holders(t) /\ IsFiniteSet(Holders(t))
  BY <1>2, <1>3, ThreadFacts DEF Holders
<1>9. rec \in [Ithread -> Record] /\ rec' = [rec EXCEPT ![t] = r2]
  BY <1>1, Unpacked
<1>10. pool' = IF "DETACHED" \in r.state THEN [pool EXCEPT !.detached = @ - 1]
               ELSE [pool EXCEPT !.running = @ - 1, !.joinable = @ + 1]
  BY <1>2 DEF EndCounted
<1>11. Made(r)
  BY <1>3
<1> HIDE DEF h, f, c, c2, r
<1>12. Sound(r2, "finished", h, c, f)
  BY <1>4, SoundFinish
<1>13. /\ r2 \in Record /\ r2.interp = r.interp /\ r2.state = r.state \cup {"FINISHED"} \cup died
       /\ r2.freed = r.freed
  BY <1>4 DEF Record, Flags
<1> HIDE DEF r2
<1>14. Made(r2)
  BY <1>11, <1>13 DEF Made
<1>15. pool' \in Pool /\ PoolMoves(pool, pool', r, "running", c, r2, "finished", c)
  <2>1. Launched("running", c) /\ Launched("finished", c)
    BY DEF Launched
  <2>2. "FINISHED" \notin r.state
    BY <1>4 DEF Sound, StartSound
  <2>3. "FINISHED" \in r2.state /\ \A x \in {"DETACHED", "JOINED"} : x \in r2.state <=> x \in r.state
    BY <1>13
  <2>4. InExisting(r, c) <=> InExisting(r2, c)
    BY <1>11, <1>13, <1>14 DEF InExisting
  <2>5. InJoinCounted(r, "running", c) <=> InJoinCounted(r2, "finished", c)
    BY <1>11, <1>14, <2>1, <2>3 DEF InJoinCounted
  <2>6. pool.running \in Int /\ pool.detached \in Int /\ pool.joinable \in Int /\ pool.total \in Int
    BY <1>7 DEF Pool
  <2>7. CASE "DETACHED" \in r.state
    <3>1. /\ ~ InRunning(r, "running", c) /\ ~ InRunning(r2, "finished", c)
          /\ InDetached(r) /\ ~ InDetached(r2)
          /\ ~ InFinished(r, "running", c) /\ ~ InFinished(r2, "finished", c)
      BY <1>11, <1>14, <2>1, <2>2, <2>3, <2>7 DEF InRunning, InDetached, InFinished
    <3>2. /\ pool'.running = pool.running /\ pool'.detached = pool.detached - 1 /\ pool'.total = pool.total
          /\ pool'.joinable = pool.joinable /\ pool' \in Pool
      BY <1>7, <1>10, <2>6, <2>7 DEF Pool
    <3>3. QED  BY <2>4, <2>5, <2>6, <3>1, <3>2 DEF PoolMoves, One
  <2>8. CASE "DETACHED" \notin r.state
    <3>1. /\ InRunning(r, "running", c) /\ ~ InRunning(r2, "finished", c)
          /\ ~ InDetached(r) /\ ~ InDetached(r2)
          /\ ~ InFinished(r, "running", c) /\ InFinished(r2, "finished", c)
      BY <1>11, <1>14, <2>1, <2>2, <2>3, <2>8 DEF InRunning, InDetached, InFinished
    <3>2. /\ pool'.running = pool.running - 1 /\ pool'.detached = pool.detached
          /\ pool'.total = pool.total /\ pool'.joinable = pool.joinable + 1 /\ pool' \in Pool
      <4>1. pool' = [pool EXCEPT !.running = @ - 1, !.joinable = @ + 1]
        BY <1>10, <2>8
      <4>2. pool' = [running |-> pool.running - 1, joinable |-> pool.joinable + 1,
                     detached |-> pool.detached, total |-> pool.total]
        BY <1>7, <4>1 DEF Pool
      <4>3. QED  BY <2>6, <4>2 DEF Pool
    <3>3. QED  BY <2>4, <2>5, <2>6, <3>1, <3>2 DEF PoolMoves, One
  <2>9. QED  BY <2>7, <2>8
<1>16. rec' \in [Ithread -> Record] /\ rec'[t] = r2 /\ \A x \in Ithread : x # t => rec'[x] = rec[x]
  BY <1>3, <1>9, <1>13
<1>17. PoolMoves(pool, pool', rec[t], os[t], Tally(t), rec'[t], os'[t], TallyOf(op', t))
  BY <1>3, <1>5, <1>7, <1>15, <1>16 DEF r, c, c2
<1>18. Sound(rec'[t], os'[t], Cardinality(Holders(t)'), TallyOf(op', t), t \in Refused)
  BY <1>5, <1>7, <1>8, <1>12, <1>16 DEF h, c2, f
<1>19. Made(rec[t]) /\ Made(rec'[t])
  BY <1>3, <1>14, <1>16
<1>20. /\ \A x \in Ithread : x # t => rec'[x] = rec[x] /\ os'[x] = os[x]
       /\ \A x \in Ithread : x # t => \A v \in Interp : x \in objs'[v] <=> x \in objs[v]
       /\ \A v \in Interp : v # t => objs'[v] \subseteq objs[v]
       /\ poolMutex' = poolMutex /\ IsFiniteSet(Holders(t)') /\ op'[t] = <<>>
  BY <1>2, <1>3, <1>7, <1>8, <1>16
<1>21. /\ rec' \in [Ithread -> Record] /\ os' \in [Ithread -> Stages] /\ objs' \in [Interp -> SUBSET Ithread]
       /\ pool' \in Pool /\ t \in Ithread
  BY <1>3, <1>7, <1>15, <1>16
<1>22. QED
  BY ONLY LifecycleInv, t \in Interp, <1>5, <1>6, <1>17, <1>18, <1>19, <1>20, <1>21, OneStep

LEMMA StartKeeps ==
    ASSUME LifecycleInv, NEW u \in Interp, Start(u)
    PROVE  LifecycleInv'
<1>1. PICK t : t = On(u)
  OBVIOUS
<1>2. /\ In(u, "start") /\ os' = [os EXCEPT ![t] = "running"] /\ objs' = [objs EXCEPT ![u] = @ \cup {t}]
      /\ Pop(u) /\ rec' = rec /\ pool' = pool /\ poolMutex' = poolMutex
  BY <1>1 DEF Start
<1>3. /\ t \in Ithread /\ op[u] \in Seq(Call) /\ op[u] # <<>> /\ Nested(op[u])
      /\ op[u][Len(op[u])].pc = "start" /\ op[u][Len(op[u])].on = t
      /\ u = Main \/ (u \in Ithread /\ Made(rec[u]) /\ os[u] \notin {"none", "finished"})
  BY <1>1, <1>2, FrameFacts DEF Places
<1>4. t \notin objs[u]
  <2>1. Len(op[u]) \in 1 .. Len(op[u])
    BY <1>3, EmptySeq
  <2>2. Settled(u, op[u], objs[u], poolMutex)
    BY DEF LifecycleInv
  <2>3. QED  BY <1>3, <2>1, <2>2 DEF Settled
<1>5. OpMoves(u, t, "start", "-", "-") /\ op'[u] = Outer(op[u])
  BY <1>1, <1>2, Unpacked, PopMoves DEF Places
<1> DEFINE r == rec[t]
           c == Tally(t)
           c2 == TallyOf(op', t)
           h == Cardinality(Holders(t))
           f == t \in Refused
           s == os[t]
<1>6. Moved(c, c2, "start", "-", "-") /\ c2 \in Numbers
  BY <1>5 DEF OpMoves, Tally
<1>7. Sound(r, s, h, c, f) /\ h \in Nat /\ c \in Numbers /\ r \in Record /\ s \in Stages /\ f \in BOOLEAN
  BY <1>3, ThreadFacts
<1>8. /\ objs' \in [Interp -> SUBSET Ithread] /\ IsFiniteSet(Holders(t)')
      /\ Cardinality(Holders(t)') = h + 1
      /\ \A x \in Ithread : x # t => \A w \in Interp : x \in objs'[w] <=> x \in objs[w]
      /\ \A w \in Interp : w # u => objs'[w] = objs[w]
  BY <1>2, <1>3, <1>4, Unpacked, ThreadFacts, ObjectAdded
<1>9. Settled(u, op'[u], objs'[u], poolMutex')
  BY <1>3, <1>5, PopSettled
<1>10. /\ os' \in [Ithread -> Stages] /\ os'[t] = "running" /\ \A x \in Ithread : x # t => os'[x] = os[x]
       /\ rec \in [Ithread -> Record] /\ pool \in Pool
  <2>1. os \in [Ithread -> Stages] /\ "running" \in Stages
    BY Unpacked DEF Stages
  <2>2. QED  BY <1>2, <1>3, <2>1, Unpacked
<1> HIDE DEF h, f, s, c, c2, r
<1>11. c.start > 0 /\ c2.uncount = c.uncount /\ c2.join = c.join
  BY <1>6, <1>7 DEF Moved, Change, One, Numbers
<1>12. Sound(r, "running", h + 1, c2, f) /\ Made(r)
  BY <1>6, <1>7, <1>11, SoundStart DEF Sound, Before
<1>13. PoolMoves(pool, pool, r, s, c, r, "running", c2)
  <2>1. Launched(s, c) /\ Launched("running", c2)
    BY <1>11 DEF Launched
  <2>2. InExisting(r, c) <=> InExisting(r, c2)
    BY <1>11 DEF InExisting
  <2>3. QED  BY <1>10, <1>11, <2>1, <2>2, PoolSame
<1>14. PoolMoves(pool, pool', rec[t], os[t], Tally(t), rec'[t], os'[t], TallyOf(op', t))
  BY <1>2, <1>10, <1>13 DEF r, s, c, c2
<1>15. Sound(rec'[t], os'[t], Cardinality(Holders(t)'), TallyOf(op', t), t \in Refused)
  BY <1>2, <1>8, <1>10, <1>12 DEF r, c2, f
<1>16. Made(rec[t]) /\ Made(rec'[t])
  BY <1>2, <1>12 DEF r
<1>17. /\ \A x \in Ithread : x # t => rec'[x] = rec[x] /\ os'[x] = os[x]
       /\ \A v \in Interp : v # u => objs'[v] \subseteq objs[v]
       /\ poolMutex' = poolMutex /\ os'[t] \notin {"none", "finished"}
  BY <1>2, <1>8, <1>10
<1>18. u # Main => Made(rec[u]) /\ (op'[u] = <<>> \/ os'[u] \notin {"none", "finished"})
  BY <1>3, <1>10
<1>19. rec' \in [Ithread -> Record] /\ pool' \in Pool
  BY <1>2, <1>10
<1>20. QED
  BY <1>3, <1>5, <1>8, <1>9, <1>10, <1>14, <1>15, <1>16, <1>17, <1>18, <1>19, OneStep

LEMMA StartFailsKeeps ==
    ASSUME LifecycleInv, NEW u \in Interp, StartFails(u)
    PROVE  LifecycleInv'
<1>1. PICK t : t = On(u)
  OBVIOUS
<1>2. /\ In(u, "start") /\ t \in Refused /\ Become(u, "release")
      /\ rec' = [rec EXCEPT ![t].count = 1, ![t].state = @ \cup {"FINISHED", "JOINED"}]
      /\ os' = os /\ objs' = objs /\ pool' = pool /\ poolMutex' = poolMutex
  BY <1>1 DEF StartFails
<1>3. /\ t \in Ithread /\ op[u] \in Seq(Call) /\ op[u] # <<>> /\ Nested(op[u])
      /\ u = Main \/ (u \in Ithread /\ Made(rec[u]) /\ os[u] \notin {"none", "finished"})
  BY <1>1, <1>2, FrameFacts DEF Places
<1>4. OpMoves(u, t, "start", "release", "-") /\ op'[u] = Append(Outer(op[u]), Frame("release", t))
  <2>1. "start" \in Places /\ "release" \in Places
    BY DEF Places
  <2>2. QED  BY <1>1, <1>2, <2>1, Unpacked, BecomeMoves
<1> DEFINE r == rec[t]
           c == Tally(t)
           c2 == TallyOf(op', t)
           r2 == [r EXCEPT !.count = 1, !.state = @ \cup {"FINISHED", "JOINED"}]
           h == Cardinality(Holders(t))
           s == os[t]
<1>5. Moved(c, c2, "start", "release", "-") /\ c2 \in Numbers
  BY <1>4 DEF OpMoves, Tally
<1>6. Sound(r, s, h, c, TRUE) /\ h \in Nat /\ c \in Numbers /\ r \in Record /\ s \in Stages
  BY <1>2, <1>3, ThreadFacts
<1>7. Settled(u, op'[u], objs[u], poolMutex')
  <2>1. Frame("release", t) \in Call /\ Frame("release", t).pc = "release"
    BY <1>3, FrameCall DEF Places
  <2>2. QED  BY <1>3, <1>4, <2>1, BecomeSettled
<1>8. rec' = [rec EXCEPT ![t] = r2]
  <2>1. rec \in [Ithread -> Record]
    BY Unpacked
  <2>2. QED  BY <1>2, <1>3, <2>1 DEF Record
<1>9. pool \in Pool
  BY Unpacked
<1> HIDE DEF h, s, c, c2, r
<1>10. c.start > 0 /\ c2.uncount = c.uncount /\ c2.join = c.join
  BY <1>5, <1>6 DEF Moved, Change, One, Numbers
<1>11. Sound(r2, s, h, c2, TRUE) /\ Made(r)
  <2>1. Made(r)
    BY <1>6, <1>10 DEF Sound, Before, Numbers
  <2>2. Sound(r2, s, h, c2, TRUE)
    BY <1>5, <1>6, <1>10, SoundStartFails
  <2>3. QED  BY <2>1, <2>2
<1>12. /\ r2 \in Record /\ r2.interp = r.interp /\ r2.state = r.state \cup {"FINISHED", "JOINED"}
       /\ r2.freed = r.freed
  BY <1>6 DEF Record, Flags
<1> HIDE DEF r2
<1>13. Made(r2)
  BY <1>11, <1>12 DEF Made
<1>14. PoolMoves(pool, pool, r, s, c, r2, s, c2)
  <2>1. Launched(s, c) /\ ~ Launched(s, c2) /\ r.state = {}
    <3>1. Launched(s, c) /\ r.state = {} /\ c.start = 1 /\ s = "none"
      BY <1>6, <1>10 DEF Sound, Hidden, StartSound, Launched, Numbers
    <3>2. c2.start = 0
      BY <1>5, <3>1 DEF Moved, Change, One
    <3>3. QED  BY <3>1, <3>2 DEF Launched
  <2>2. /\ InRunning(r, s, c) /\ InRunning(r2, s, c2)
        /\ ~ InDetached(r) /\ ~ InDetached(r2)
        /\ ~ InFinished(r, s, c) /\ ~ InFinished(r2, s, c2)
        /\ ~ InJoinCounted(r, s, c) /\ ~ InJoinCounted(r2, s, c2)
        /\ InExisting(r, c) <=> InExisting(r2, c2)
    BY <1>10, <1>11, <1>12, <1>13, <2>1 DEF InRunning, InDetached, InFinished, InJoinCounted, InExisting
  <2>3. pool.running \in Int /\ pool.detached \in Int /\ pool.joinable \in Int /\ pool.total \in Int
    BY <1>9 DEF Pool
  <2>4. QED  BY <2>2, <2>3 DEF PoolMoves, One
<1>15. PoolMoves(pool, pool', rec[t], os[t], Tally(t), r2, os[t], TallyOf(op', t))
  BY <1>2, <1>14 DEF r, s, c, c2
<1>16. Sound(r2, os[t], Cardinality(Holders(t)), TallyOf(op', t), t \in Refused) /\ Made(rec[t])
  BY <1>2, <1>11 DEF s, h, c2, r
<1>17. os' = os /\ objs' = objs /\ pool' \in Pool /\ poolMutex' = poolMutex
  BY <1>2, <1>9
<1>18. u # Main => Made(rec[u]) /\ os[u] \notin {"none", "finished"}
  BY <1>3
<1>19. r2 \in Record
  BY <1>12
<1>20. QED
  BY ONLY LifecycleInv, u \in Interp, <1>3, <1>4, <1>7, <1>8, <1>13, <1>15, <1>16, <1>17, <1>18, <1>19,
     RecordStep

\* Creation clones the creator's objects: it counts on many records.
LEMMA CreateKeeps ==
    ASSUME LifecycleInv, NEW u \in Interp, NEW t \in Ithread, Create(u, t)
    PROVE  LifecycleInv'
<1> DEFINE new == [Unborn EXCEPT !.count = 3, !.interp = "live", !.listed = TRUE]
<1>1. /\ Calls(u) /\ u \in Creators /\ rec[t] = Unborn
      /\ rec' = [x \in Ithread |-> IF x = t THEN new ELSE Counted(u, x)]
      /\ objs' = [objs EXCEPT ![t] = objs[u]]
      /\ pool' = [pool EXCEPT !.total = @ + 1, !.running = @ + 1]
      /\ Push(u, "start", t) /\ os' = os /\ poolMutex' = poolMutex
  BY DEF Create
<1>2. op[u] = <<>> /\ (u # Main => Made(rec[u]) /\ os[u] \notin {"none", "finished"} /\ u \in Ithread)
  BY <1>1, ActorKnown DEF Calls
<1>3. t \in Interp /\ t # Main /\ t # u
  BY <1>1, <1>2, LifecycleAssumption DEF Interp, Made, Unborn
<1>4. /\ Sound(Unborn, os[t], Cardinality(Holders(t)), Tally(t), t \in Refused)
      /\ IsFiniteSet(Holders(t)) /\ Cardinality(Holders(t)) \in Nat
      /\ Tally(t) \in Numbers /\ os[t] \in Stages
  BY <1>1, ThreadFacts
<1>5. Before(os[t], Cardinality(Holders(t)), Tally(t)) /\ ~ Made(Unborn)
  BY <1>4 DEF Sound, Made, Unborn
<1>6. os[t] = "none" /\ (\A v \in Interp : t \notin objs[v]) /\ objs[t] = {} /\ op[t] = <<>>
  BY <1>1, <1>4, <1>5, HeldCounts DEF Before, LifecycleInv, Quiet
<1>7. OpMoves(u, t, "-", "start", "-") /\ op'[u] = Append(op[u], Frame("start", t))
  BY <1>1, Unpacked, PushMoves DEF Places
<1>8. /\ op' \in Operations /\ AllFinite(op') /\ \A v \in Interp : v # u => op'[v] = op[v]
      /\ \A x \in Ithread : x # t => TallyOf(op', x) = Tally(x)
      /\ Moved(Tally(t), TallyOf(op', t), "-", "start", "-") /\ TallyOf(op', t) \in Numbers
  BY <1>7 DEF OpMoves, Tally
<1>9. /\ objs \in [Interp -> SUBSET Ithread] /\ objs' \in [Interp -> SUBSET Ithread]
      /\ objs'[t] = objs[u] /\ \A v \in Interp : v # t => objs'[v] = objs[v]
  BY <1>1, <1>3, Unpacked
<1>10. Holders(t)' = Holders(t) /\ \A v \in Interp : t \notin objs'[v]
  <2>1. \A v \in Interp : t \notin objs'[v]
    BY <1>6, <1>9
  <2>2. QED  BY <1>6, <2>1 DEF Holders
<1>11. new \in Record /\ new.state = {} /\ new.freed = FALSE /\ new.interp = "live"
  BY DEF Unborn, Record
<1>12. rec'[t] = new /\ \A x \in Ithread : x # t => rec'[x] = Counted(u, x)
  BY <1>1
<1>13. Sound(new, os[t], Cardinality(Holders(t)), TallyOf(op', t), t \in Refused) /\ Made(new)
  <2>1. Made(new)
    BY <1>11 DEF Made
  <2> DEFINE s == os[t]
             h == Cardinality(Holders(t))
             c == Tally(t)
             c2 == TallyOf(op', t)
             f == t \in Refused
  <2>2. /\ Sound(Unborn, s, h, c, f) /\ h \in Nat /\ c \in Numbers /\ c2 \in Numbers /\ s \in Stages
        /\ f \in BOOLEAN /\ Moved(c, c2, "-", "start", "-")
    BY <1>4, <1>8
  <2> HIDE DEF s, h, c, c2, f
  <2>3. Sound(new, s, h, c2, f)
    BY <2>2, SoundCreate
  <2>4. QED  BY <2>1, <2>3 DEF s, h, c2, f
<1> HIDE DEF new
<1>14. ASSUME NEW x \in Ithread, x # t
       PROVE  /\ rec'[x] \in Record /\ Similar(x) /\ IsFiniteSet(Holders(x)')
              /\ Sound(rec'[x], os'[x], Cardinality(Holders(x)'), TallyOf(op', x), x \in Refused)
  <2> DEFINE r == rec[x]
             s == os[x]
             h == Cardinality(Holders(x))
             c == Tally(x)
             f == x \in Refused
  <2>1. /\ Sound(r, s, h, c, f) /\ h \in Nat /\ c \in Numbers /\ r \in Record /\ s \in Stages
        /\ f \in BOOLEAN /\ IsFiniteSet(Holders(x))
    BY ThreadFacts
  <2>2. TallyOf(op', x) = c /\ os'[x] = s
    BY <1>1, <1>8, <1>14
  <2>3. rec'[x] = Counted(u, x)
    BY <1>12, <1>14
  <2>4. CASE x \in objs[u]
    <3> DEFINE r2 == [r EXCEPT !.count = @ + 1]
    <3>1. rec'[x] = r2
      BY <2>3, <2>4 DEF Counted
    <3>2. Holders(x)' = Holders(x) \cup {t} /\ t \notin Holders(x)
      BY <1>3, <1>6, <1>9, <2>4 DEF Holders
    <3>3. IsFiniteSet(Holders(x)') /\ Cardinality(Holders(x)') = h + 1
      BY <2>1, <3>2, FS_AddElement
    <3>4. h > 0
      BY <2>1, <2>4, HeldCounts
    <3> HIDE DEF r, s, h, c, f
    <3>5. Sound(r2, s, h + 1, c, f)
      BY <2>1, <3>4, SoundObject
    <3>6. /\ r2 \in Record /\ r2.state = r.state /\ r2.interp = r.interp /\ r2.freed = r.freed
      BY <2>1 DEF Record
    <3> HIDE DEF r2
    <3>7. Similar(x)
      BY <2>2, <3>1, <3>6 DEF Similar, r, s, c
    <3>8. Sound(rec'[x], os'[x], Cardinality(Holders(x)'), TallyOf(op', x), x \in Refused)
      BY <2>2, <3>1, <3>3, <3>5 DEF f
    <3>9. QED  BY <3>1, <3>3, <3>6, <3>7, <3>8
  <2>5. CASE x \notin objs[u]
    <3>1. rec'[x] = r
      BY <2>3, <2>5 DEF Counted
    <3>2. Holders(x)' = Holders(x)
      <4>1. \A v \in Interp : x \in objs'[v] <=> x \in objs[v]
        BY <1>6, <1>9, <2>5
      <4>2. QED  BY <4>1 DEF Holders
    <3>3. Similar(x)
      BY <2>2, <3>1 DEF Similar
    <3>4. Sound(rec'[x], os'[x], Cardinality(Holders(x)'), TallyOf(op', x), x \in Refused)
      BY <2>1, <2>2, <3>1, <3>2
    <3>5. QED  BY <2>1, <3>1, <3>2, <3>3, <3>4
  <2>6. QED  BY <2>4, <2>5
<1>15. new \in Record
  BY <1>11
<1>16. rec' \in [Ithread -> Record]
  <2>1. \A x \in Ithread : rec'[x] \in Record
    BY <1>12, <1>14, <1>15
  <2>2. rec' = [x \in Ithread |-> rec'[x]]
    BY <1>1
  <2>3. QED  BY <2>1, <2>2
<1>17. pool \in Pool /\ pool' \in Pool
       /\ pool'.running = pool.running + 1 /\ pool'.total = pool.total + 1
       /\ pool'.detached = pool.detached /\ pool'.joinable = pool.joinable
  <2>1. pool \in Pool
    BY Unpacked
  <2>2. pool' = [running |-> pool.running + 1, joinable |-> pool.joinable,
                 detached |-> pool.detached, total |-> pool.total + 1]
    BY <1>1, <2>1 DEF Pool
  <2>3. QED  BY <2>1, <2>2 DEF Pool
<1>18. TypeOK'
  <2>1. os' \in [Ithread -> Stages] /\ poolMutex' \in Interp \cup {Nobody}
    BY <1>1, Unpacked
  <2>2. QED  BY <1>8, <1>9, <1>16, <1>17, <2>1 DEF TypeOK, Operations, Call, Pool, Stages
<1>19. AllSound'
  <2>1. Sound(rec'[t], os'[t], Cardinality(Holders(t)'), TallyOf(op', t), t \in Refused)
    BY <1>1, <1>10, <1>12, <1>13
  <2>2. ASSUME NEW x \in Ithread
        PROVE  Sound(rec'[x], os'[x], Cardinality(Holders(x)'), TallyOf(op', x), x \in Refused)
    BY <1>14, <2>1
  <2>3. QED  BY <2>2 DEF AllSound, Tally
<1>20. Finite'
  <2>1. \A x \in Ithread : IsFiniteSet(Holders(x)')
    BY <1>4, <1>10, <1>14
  <2>2. \A x \in Ithread : IsFiniteSet(PlacesOf(op', x, Places))
    BY <1>8 DEF AllFinite
  <2>3. Known' \subseteq Known \cup {t}
    <3>1. ASSUME NEW x \in Ithread, x # t, rec[x] = Unborn PROVE rec'[x] = Unborn
      <4>1. ~ Made(rec'[x])
        <5>1. Similar(x)
          BY <1>14, <3>1
        <5>2. rec[x].interp = "none"
          BY <3>1 DEF Unborn
        <5>3. QED  BY <5>1, <5>2 DEF Similar, Made
      <4>2. Sound(rec'[x], os'[x], Cardinality(Holders(x)'), TallyOf(op', x), x \in Refused)
        BY <1>14, <3>1
      <4>3. QED  BY <4>1, <4>2 DEF Sound
    <3>2. QED  BY <3>1 DEF Known
  <2>4. IsFiniteSet(Known')
    <3>1. IsFiniteSet(Known)
      BY DEF LifecycleInv, Finite
    <3>2. IsFiniteSet(Known \cup {t})
      BY <3>1, FS_AddElement
    <3>3. QED  BY <2>3, <3>2, FS_Subset
  <2>5. QED  BY <2>1, <2>2, <2>4 DEF Finite
<1>21. Settled(u, op'[u], objs'[u], poolMutex')
  <2>1. Frame("start", t) \in Call /\ Frame("start", t).pc = "start" /\ Frame("start", t).on = t
    BY FrameCall DEF Places
  <2>2. QED  BY <1>1, <1>2, <1>7, <1>10, <2>1, FirstSettled
<1>22. PoolMoves(pool, pool', rec[t], os[t], Tally(t), rec'[t], os'[t], TallyOf(op', t))
  <2> DEFINE s == os[t]
             c == Tally(t)
             c2 == TallyOf(op', t)
  <2>1. new.state = {} /\ new.freed = FALSE
    BY <1>11
  <2>2. /\ ~ InRunning(Unborn, s, c) /\ InRunning(new, s, c2)
        /\ ~ InDetached(Unborn) /\ ~ InDetached(new)
        /\ ~ InFinished(Unborn, s, c) /\ ~ InFinished(new, s, c2)
        /\ ~ InJoinCounted(Unborn, s, c) /\ ~ InJoinCounted(new, s, c2)
        /\ ~ InExisting(Unborn, c) /\ InExisting(new, c2)
    BY <1>5, <1>13, <2>1 DEF InRunning, InDetached, InFinished, InJoinCounted, InExisting
  <2> HIDE DEF s, c, c2
  <2>3. pool.running \in Int /\ pool.detached \in Int /\ pool.joinable \in Int /\ pool.total \in Int
    BY <1>17 DEF Pool
  <2>4. PoolMoves(pool, pool', Unborn, s, c, new, s, c2)
    BY <1>17, <2>2, <2>3 DEF PoolMoves, One
  <2>5. QED  BY <1>1, <1>12, <2>4 DEF s, c, c2
<1>23. /\ Made(rec'[t]) /\ \A x \in Ithread : x # t => Similar(x)
       /\ \A v \in Interp : v # u => op'[v] = op[v]
       /\ \A v \in Interp : v # u => objs'[v] \subseteq objs[v] \/ (v = t /\ op[v] = <<>>)
       /\ os'[t] = os[t] /\ poolMutex' = poolMutex
  BY <1>1, <1>6, <1>8, <1>9, <1>12, <1>13, <1>14
<1>24. u # Main => Made(rec'[u]) /\ os'[u] \notin {"none", "finished"}
  <2>1. u # Main => Similar(u)
    BY <1>2, <1>3, <1>14
  <2>2. QED  BY <1>1, <1>2, <2>1 DEF Similar, Made
<1>25. QED
  BY ONLY LifecycleInv, u \in Interp, t \in Ithread, <1>18, <1>19, <1>20, <1>21, <1>22, <1>23, <1>24, Kept

-----------------------------------------------------------------------------
\* The invariant holds.

LEMMA InitHolds == Init => LifecycleInv
<1> SUFFICES ASSUME Init PROVE LifecycleInv
  OBVIOUS
<1>1. IsFiniteSet({}) /\ Cardinality({}) = 0
  BY FS_EmptySet
<1>2. TypeOK
  BY DEF Init, TypeOK, Unborn, Record, Flags
<1>3. ASSUME NEW t \in Ithread, NEW pcs PROVE PlacesOf(op, t, pcs) = {} /\ At(t, pcs) = {} /\ Num(op, t, pcs) = 0
  <2>1. \A u \in Interp : 1 .. Len(op[u]) = {}
    BY DEF Init
  <2>2. PlacesOf(op, t, pcs) = {} /\ At(t, pcs) = {}
    BY <2>1 DEF PlacesOf, At
  <2>3. QED  BY <1>1, <2>2 DEF Num
<1>4. Known = {} /\ \A t \in Ithread : Holders(t) = {}
  BY DEF Init, Known, Holders
<1>5. Finite
  BY <1>1, <1>3, <1>4 DEF Finite
<1>6. ASSUME NEW t \in Ithread
      PROVE  Sound(rec[t], os[t], Cardinality(Holders(t)), TallyOf(op, t), t \in Refused) /\ Quiet(t)
  <2>1. Cardinality(Holders(t)) = 0 /\ rec[t] = Unborn /\ os[t] = "none"
    BY <1>1, <1>4 DEF Init
  <2>2. TallyOf(op, t) = [start |-> 0, take |-> 0, claim |-> 0, join |-> 0,
                          ends |-> 0, free |-> 0, uncount |-> 0, clear |-> 0]
    BY <1>3 DEF TallyOf
  <2> DEFINE f == t \in Refused
  <2> HIDE DEF f
  <2>3. Sound(Unborn, "none", 0, TallyOf(op, t), f)
    BY <2>2 DEF Sound, Before, CountSound, StartSound, JoinSound, ClearSound, Hidden, Made, Unborn, Launched,
         Unclaimed, One
  <2>4. t \in Interp
    BY DEF Interp
  <2>5. Quiet(t)
    BY <2>4 DEF Quiet, Init
  <2>6. QED  BY <2>1, <2>3, <2>5 DEF f
<1>7. ASSUME NEW u \in Interp PROVE Settled(u, op[u], objs[u], poolMutex)
  <2>1. op[u] = <<>>
    BY DEF Init
  <2>2. QED  BY <2>1, InnerEmpty, InnerSettled
<1>8. CountersAgree
  <2>1. Running = {} /\ Detached = {} /\ Finished = {} /\ JoinCounted = {} /\ Existing = {}
    BY <1>4 DEF Running, Detached, Finished, JoinCounted, Existing
  <2>2. QED  BY <1>1, <2>1 DEF CountersAgree, Init
<1>9. QED  BY <1>2, <1>5, <1>6, <1>7, <1>8 DEF LifecycleInv

LEMMA NextHolds ==
    ASSUME RefusalUnseen
    PROVE  LifecycleInv /\ [Next]_vars => LifecycleInv'
<1> SUFFICES ASSUME LifecycleInv, [Next]_vars PROVE LifecycleInv'
  OBVIOUS
<1>1. CASE Next
  <2>1. PICK u \in Interp :
           \/ Start(u) \/ StartFails(u) \/ TakeObject(u)
           \/ Release(u) \/ Unlink(u) \/ Clear(u) \/ Destruct(u) \/ FreeRecord(u) \/ Uncount(u)
           \/ JoinCount(u) \/ JoinDone(u) \/ DetachFree(u)
           \/ Self(u) \/ Finish(u) \/ EndRun(u) \/ Gone(u)
           \/ \E t \in Ithread : Create(u, t) \/ Drop(u, t) \/ Look(u, t) \/ Join(u, t) \/ Detach(u, t)
    BY <1>1 DEF Next
  <2>2. CASE Start(u)
    BY <2>2, StartKeeps
  <2>3. CASE StartFails(u)
    BY <2>3, StartFailsKeeps
  <2>4. CASE TakeObject(u)
    BY <2>4, TakeKeeps
  <2>5. CASE Release(u)
    BY <2>5, ReleaseKeeps
  <2>6. CASE Unlink(u)
    BY <2>6, UnlinkKeeps
  <2>7. CASE Clear(u)
    BY <2>7, ClearKeeps
  <2>8. CASE Destruct(u)
    BY <2>8, DestructKeeps
  <2>9. CASE FreeRecord(u)
    BY <2>9, FreeRecordKeeps
  <2>10. CASE Uncount(u)
    BY <2>10, UncountKeeps
  <2>11. CASE JoinCount(u)
    BY <2>11, JoinCountKeeps
  <2>12. CASE JoinDone(u)
    BY <2>12, ReclaimKeeps DEF JoinDone
  <2>13. CASE DetachFree(u)
    BY <2>13, ReclaimKeeps DEF DetachFree
  <2>14. CASE Self(u)
    BY <2>14, SelfKeeps
  <2>15. CASE Finish(u)
    BY <2>15, FinishKeeps
  <2>16. CASE EndRun(u)
    BY <2>16, EndRunKeeps
  <2>17. CASE Gone(u)
    BY <2>17, GoneKeeps
  <2>18. CASE \E t \in Ithread : Create(u, t) \/ Drop(u, t) \/ Look(u, t) \/ Join(u, t) \/ Detach(u, t)
    BY <2>18, CreateKeeps, DropKeeps, LookKeeps, JoinKeeps, DetachKeeps
  <2>19. QED
    BY <2>1, <2>2, <2>3, <2>4, <2>5, <2>6, <2>7, <2>8, <2>9, <2>10, <2>11, <2>12, <2>13, <2>14, <2>15,
       <2>16, <2>17, <2>18
<1>2. CASE UNCHANGED vars
  <2>1. /\ rec' = rec /\ os' = os /\ objs' = objs /\ pool' = pool /\ poolMutex' = poolMutex /\ op' = op
    BY <1>2 DEF vars
  <2>2. TypeOK' /\ Known' = Known
    BY <2>1 DEF LifecycleInv, TypeOK, Known
  <2>3. \A t \in Ithread : Holders(t)' = Holders(t) /\ Quiet(t)'
    BY <2>1 DEF LifecycleInv, Holders, Quiet
  <2>4. \A t, pcs : At(t, pcs)' = At(t, pcs)
    BY <2>1 DEF At
  <2>5. Finite'
    BY <2>1, <2>2, <2>3 DEF LifecycleInv, Finite
  <2>6. /\ Running' = Running /\ Detached' = Detached /\ Finished' = Finished
        /\ JoinCounted' = JoinCounted /\ Existing' = Existing
    BY <2>1, <2>2, <2>4 DEF Running, Detached, Finished, JoinCounted, Existing, Started, Has
  <2>7. CountersAgree'
    BY <2>1, <2>6 DEF LifecycleInv, CountersAgree
  <2>8. \A t \in Ithread : Sound(rec[t], os[t], Cardinality(Holders(t)), TallyOf(op, t), t \in Refused)'
    BY <2>1, <2>3 DEF LifecycleInv
  <2>9. \A u \in Interp : Settled(u, op[u], objs[u], poolMutex)'
    BY <2>1 DEF LifecycleInv
  <2>10. QED  BY <2>2, <2>3, <2>5, <2>7, <2>8, <2>9 DEF LifecycleInv
<1>3. QED  BY <1>1, <1>2

\* The inductive invariant of the threads module.
THEOREM Invariance ==
    ASSUME RefusalUnseen
    PROVE  Spec => []LifecycleInv
BY InitHolds, NextHolds, PTL DEF Spec

\* The count of a record is the sum of those who rely on it.
THEOREM CountIsExact ==
    ASSUME RefusalUnseen
    PROVE  Spec => []CountAccounts
<1>1. LifecycleInv => CountAccounts
  <2>1. SUFFICES ASSUME LifecycleInv, NEW t \in Ithread, Live(t)
                 PROVE  rec[t].count = Cardinality({u \in Interp : t \in objs[u]})
                           + (IF os[t] \in {"running", "finished"} THEN 1 ELSE 0)
                           + (IF Claimed(t) THEN 0 ELSE 1)
                           + Cardinality(At(t, {"release", "join_count", "join_wait", "detach_free"}))
                           + 2 * Cardinality(At(t, {"start"}))
    BY DEF CountAccounts
  <2> DEFINE r == rec[t]
             c == Tally(t)
             h == Cardinality(Holders(t))
             s == os[t]
  <2>2. CountSound(r, s, h, c) /\ Made(r) /\ h \in Nat /\ c \in Numbers
    BY <2>1, ThreadFacts DEF Sound, Live
  <2>3. h = Cardinality({u \in Interp : t \in objs[u]})
    BY DEF Holders
  <2>4. /\ c.claim = Cardinality(At(t, {"release", "join_count", "join_wait", "detach_free"}))
        /\ c.start = Cardinality(At(t, {"start"}))
    BY DEF Tally, TallyOf, Num, PlacesOf, At, Claiming
  <2>5. Claimed(t) <=> ~ Unclaimed(r)
    BY DEF Claimed, Unclaimed
  <2> HIDE DEF c, h
  <2>6. r.count = h + One(s \in {"running", "finished"}) + One(Unclaimed(r)) + c.claim + 2 * c.start
    BY <2>2 DEF CountSound
  <2>7. One(Unclaimed(r)) = IF Claimed(t) THEN 0 ELSE 1
    BY <2>5 DEF One
  <2>8. QED
    BY <2>2, <2>3, <2>4, <2>6, <2>7 DEF One, Numbers
<1>2. QED  BY <1>1, Invariance, PTL

\* What the numbers of a thread say of the calls on it.
LEMMA NoCalls ==
    ASSUME LifecycleInv, NEW t \in Ithread, NEW pcs \in SUBSET Places, Num(op, t, pcs) = 0,
           NEW u \in Interp, NEW i \in 1 .. Len(op[u]), op[u][i].on = t
    PROVE  op[u][i].pc \notin pcs
<1>1. PlacesOf(op, t, pcs) = {}
  BY Unpacked, NumFacts
<1>2. QED  BY <1>1, PlaceIn

\* Nothing leads to a record that was freed.
THEOREM FreedIsUnreachable ==
    ASSUME RefusalUnseen
    PROVE  Spec => []NoDanglingRecord
<1>1. LifecycleInv => NoDanglingRecord
  <2>1. SUFFICES ASSUME LifecycleInv, NEW t \in Ithread, rec[t].freed
                 PROVE  /\ ~ rec[t].listed
                        /\ \A u \in Interp : t \notin objs[u]
                        /\ At(t, {"start", "take", "release", "unlink", "clear", "destruct", "free",
                                  "join_count", "join_wait", "detach_free"}) = {}
                        /\ os[t] \notin {"running", "finished"}
    BY DEF NoDanglingRecord
  <2> DEFINE r == rec[t]
             c == Tally(t)
             h == Cardinality(Holders(t))
             s == os[t]
             f == t \in Refused
  <2>2. Sound(r, s, h, c, f) /\ h \in Nat /\ c \in Numbers /\ r \in Record
    BY <2>1, ThreadFacts
  <2>3. r.freed
    BY <2>1
  <2> HIDE DEF r, c, h, s, f
  <2>4. Made(r)
    BY <2>2, <2>3 DEF Sound, Unborn
  <2>5. /\ ~ r.listed /\ h = 0 /\ c.claim = 0 /\ c.start = 0 /\ c.ends = 0
        /\ s \notin {"running", "finished"} /\ ~ Unclaimed(r)
    BY <2>2, <2>3, <2>4 DEF Sound, CountSound, One, Numbers, Record
  <2>6. c.take = 0
    BY <2>2, <2>5 DEF Sound, JoinSound, Numbers
  <2>7. /\ Num(op, t, {"start"}) = 0 /\ Num(op, t, {"take"}) = 0 /\ Num(op, t, Claiming) = 0
        /\ Num(op, t, {"unlink", "free"}) = 0
    BY <2>5, <2>6 DEF c, Tally, TallyOf
  <2>8. /\ {"start"} \in SUBSET Places /\ {"take"} \in SUBSET Places /\ Claiming \in SUBSET Places
        /\ {"unlink", "free"} \in SUBSET Places
    BY DEF Places, Claiming
  <2>9. ASSUME NEW u \in Interp, NEW i \in 1 .. Len(op[u]), op[u][i].on = t
        PROVE  op[u][i].pc = "uncount"
    <3>1. op[u][i].pc \notin {"start", "take", "unlink", "free"} \cup Claiming
      <4>1. op[u][i].pc \notin {"start"}
        BY <2>1, <2>7, <2>8, <2>9, NoCalls
      <4>2. op[u][i].pc \notin {"take"}
        BY <2>1, <2>7, <2>8, <2>9, NoCalls
      <4>3. op[u][i].pc \notin Claiming
        BY <2>1, <2>7, <2>8, <2>9, NoCalls
      <4>4. op[u][i].pc \notin {"unlink", "free"}
        BY <2>1, <2>7, <2>8, <2>9, NoCalls
      <4>5. QED  BY <4>1, <4>2, <4>3, <4>4
    <3>2. op[u] \in Seq(Call) /\ Nested(op[u])
      BY <2>1, Unpacked DEF Operations, LifecycleInv, Settled
    <3>3. op[u][i].pc \in Places
      <4>1. op[u][i] \in Call
        BY <2>9, <3>2, ElementOfSeq
      <4>2. QED  BY <4>1 DEF Call
    <3>4. op[u][i].pc \notin {"clear", "destruct"}
      <4>1. SUFFICES ASSUME op[u][i].pc \in {"clear", "destruct"} PROVE FALSE
        OBVIOUS
      <4>2. i > 1 /\ op[u][i - 1].on = t /\ op[u][i - 1].pc \in {"release", "free"}
        BY <2>9, <3>2, <4>1 DEF Nested
      <4>3. i - 1 \in 1 .. Len(op[u])
        BY <3>2, <4>2, LenProperties
      <4>4. op[u][i - 1].pc \notin Claiming /\ op[u][i - 1].pc \notin {"unlink", "free"}
        BY <2>1, <2>7, <2>8, <4>2, <4>3, NoCalls
      <4>5. QED  BY <4>2, <4>4 DEF Claiming
    <3>5. QED  BY <3>1, <3>3, <3>4 DEF Places, Claiming
  <2>10. At(t, {"start", "take", "release", "unlink", "clear", "destruct", "free",
                "join_count", "join_wait", "detach_free"}) = {}
    BY <2>9 DEF At
  <2>11. \A u \in Interp : t \notin objs[u]
    BY <2>1, <2>5, ThreadFacts, HeldCounts DEF h
  <2>12. QED  BY <2>5, <2>10, <2>11 DEF r, s
<1>2. QED  BY <1>1, Invariance, PTL

\* The interpreter of a thread that died is there for whoever may ask for the
\* error.
THEOREM ErrorIsKept ==
    ASSUME RefusalUnseen
    PROVE  Spec => []ErrorKept
<1>1. LifecycleInv => ErrorKept
  <2>1. SUFFICES ASSUME LifecycleInv, NEW u \in Interp, NEW t \in objs[u], "DIED" \in rec[t].state
                 PROVE  rec[t].interp = "live"
    BY DEF ErrorKept
  <2>2. t \in Ithread
    BY <2>1, Unpacked
  <2> DEFINE r == rec[t]
             c == Tally(t)
             h == Cardinality(Holders(t))
             s == os[t]
             f == t \in Refused
  <2>3. Sound(r, s, h, c, f) /\ h \in Nat /\ h > 0 /\ c \in Numbers /\ r \in Record
    BY <2>1, <2>2, ThreadFacts, HeldCounts
  <2>4. "DIED" \in r.state
    BY <2>1
  <2> HIDE DEF c, h, s, f
  <2>5. Made(r) /\ r.count > 0
    BY <2>3 DEF Sound, Before, CountSound, One, Numbers, Record
  <2>6. r.interp # "gone"
    BY <2>3, <2>4, <2>5 DEF Sound, ClearSound
  <2>7. QED  BY <2>3, <2>5, <2>6 DEF Made, Record
<1>2. QED  BY <1>1, Invariance, PTL

\* The pool's numbers are those of the threads they count; running_threads
\* has, besides those that run, the creations under way and those that
\* pthread_create refused, which never run (threads.xs:1156).
THEOREM CountersAlwaysAgree ==
    ASSUME RefusalUnseen
    PROVE  Spec => []CountersAgree
<1>1. LifecycleInv => CountersAgree
  BY DEF LifecycleInv
<1>2. QED  BY <1>1, Invariance, PTL
=============================================================================
