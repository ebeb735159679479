-------------------------- MODULE SafeSignalsProofs --------------------------
(***************************************************************************)
(* What deferred signals promise, for any number of signals, any handlers, *)
(* and any nesting of loops, handlers and assignments to %SIG.             *)
(*                                                                         *)
(* The parts of the invariants are stated of a stack q, a mask m, pending  *)
(* counts p and their sum n, and lemmas say what pushing a frame, leaving  *)
(* frames and going on in a loop do to them.                               *)
(***************************************************************************)
EXTENDS SafeSignalsProperties, SequenceTheorems, TLAPS

\* A handler that runs, or an assignment in progress, has its signal blocked:
\* now, in the masks that assignments further in put back, and after the
\* handlers further in unblock theirs.
Blocked(q, m) ==
    \A i \in 1 .. Len(q) : q[i].at # "loop" =>
        /\ q[i].sig \in m
        /\ \A j \in 1 .. i - 1 : q[j].at = "setsig" => q[i].sig \in q[j].save
        /\ \A j \in 1 .. i - 1 : q[j].at = "handler" /\ q[j].sig = q[i].sig => q[j].wasBlocked

\* What was counted of a signal is dealt with before its handler is called.
Handled(q, p) == \A i \in 1 .. Len(q) : q[i].at = "handler" => p[q[i].sig] = 0

Once(q) ==
    \A i, j \in 1 .. Len(q) :
        q[i].at = "handler" /\ q[j].at = "handler" /\ q[i].sig = q[j].sig => i = j

\* LastSave and MaskAfter.
Furthest(q, k, n) ==
    /\ k > 0 => q[k].at = "setsig"
    /\ \A i \in k + 1 .. n : q[i].at # "setsig"
After(q, k, n, m) ==
    (IF k = 0 THEN m ELSE q[k].save)
    \ {q[i].sig : i \in {j \in k + 1 .. n : q[j].at = "handler" /\ ~ q[j].wasBlocked}}

\* If everything is left, nothing is blocked but what an exception out of a C
\* handler left so.
Restores(q, m, b) == \A k \in 0 .. Len(q) : Furthest(q, k, Len(q)) => After(q, k, Len(q), m) \subseteq b

MaskInv ==
    /\ TypeOK
    /\ Blocked(stack, mask)
    /\ Handled(stack, psigPend)
    /\ Once(stack)
    /\ Restores(stack, mask, stuck)

\* Somebody looks at s again before frame i goes on.
Noticed(q, p, n, s, i) ==
    p[s] > 0 => n > 0 \/ \E j \in 1 .. i - 1 : q[j].at = "loop" /\ q[j].sig <= s

\* A loop need not go back.
Passed(q, p, n) ==
    \A i \in 1 .. Len(q) : q[i].at = "loop" =>
        \A s \in Sig : s < q[i].sig => Noticed(q, p, n, s, i)

\* A handler that dies takes no loop with it that was still needed.
MayDie(q, p, n) ==
    \A i \in 1 .. Len(q) : q[i].at = "handler" /\ q[i].sig \in Dying =>
        \A s \in Sig : Noticed(q, p, n, s, i)

AllNoticed(q, p, n) == \A s \in Sig : Noticed(q, p, n, s, Len(q) + 1)

\* What is pending of a signal being assigned is dealt with by the loop of the
\* assignment, or was already taken on by a loop further out.
Taken(q, p, i) ==
    p[q[i].sig] > 0 =>
        \E j \in 1 .. Len(q) : j >= i - 1 /\ q[j].at = "loop" /\ q[j].sig <= q[i].sig
Assigns(q, p) == \A i \in 1 .. Len(q) : q[i].at = "setsig" => Taken(q, p, i)

NoticeInv ==
    /\ Passed(stack, psigPend, sigPending)
    /\ MayDie(stack, psigPend, sigPending)
    /\ AllNoticed(stack, psigPend, sigPending)
    /\ Assigns(stack, psigPend)

-----------------------------------------------------------------------------
\* Frames and stacks.

LEMMA FrameFacts ==
    ASSUME NEW f \in Frame
    PROVE  /\ f.at \in {"loop", "handler", "setsig"}
           /\ f.at = "loop" => f = Loop(f.sig) /\ f.sig \in 1 .. SigSize
           /\ f.at = "handler" => f.sig \in Sig /\ f.wasBlocked \in BOOLEAN
           /\ f.at = "setsig" => f.sig \in Sig /\ f.value \in Value /\ f.save \in SUBSET Sig
<1>1. CASE f \in [at : {"loop"}, sig : 1 .. SigSize]
  BY <1>1 DEF Loop
<1>2. CASE f \in [at : {"handler"}, sig : Sig, wasBlocked : BOOLEAN]
  BY <1>2
<1>3. CASE f \in [at : {"setsig"}, sig : Sig, value : Value, save : SUBSET Sig]
  BY <1>3
<1>4. QED  BY <1>1, <1>2, <1>3 DEF Frame

LEMMA Element ==
    ASSUME NEW q \in Seq(Frame), NEW i \in 1 .. Len(q)
    PROVE  q[i] \in Frame
BY ElementOfSeq

\* A frame x on top of q.
LEMMA Pushed ==
    ASSUME NEW q \in Seq(Frame), NEW x \in Frame
    PROVE  LET r == <<x>> \o q
           IN  /\ r \in Seq(Frame) /\ Len(q) \in Nat /\ Len(r) = Len(q) + 1
               /\ r[1] = x
               /\ \A i \in 1 .. Len(q) : r[i + 1] = q[i]
               /\ \A i \in 1 .. Len(q) + 1 : i # 1 => i - 1 \in 1 .. Len(q) /\ r[i] = q[i - 1]
<1>1. <<x>> \in Seq(Frame) /\ Len(<<x>>) = 1 /\ <<x>>[1] = x /\ Len(q) \in Nat
  BY LenProperties
<1> DEFINE r == <<x>> \o q
<1>2. /\ r \in Seq(Frame) /\ Len(r) = 1 + Len(q)
      /\ \A i \in 1 .. 1 + Len(q) : r[i] = IF i <= 1 THEN <<x>>[i] ELSE q[i - 1]
  BY <1>1, ConcatProperties
<1> HIDE DEF r
<1>3. r[1] = x
  BY <1>1, <1>2
<1>4. \A i \in 1 .. Len(q) : r[i + 1] = q[i]
  <2>1. SUFFICES ASSUME NEW i \in 1 .. Len(q) PROVE r[i + 1] = q[i]
    OBVIOUS
  <2>2. i + 1 \in 1 .. 1 + Len(q) /\ ~ (i + 1 <= 1) /\ i + 1 - 1 = i
    BY <1>1
  <2>3. QED  BY <1>2, <2>2
<1>5. \A i \in 1 .. Len(q) + 1 : i # 1 => i - 1 \in 1 .. Len(q) /\ r[i] = q[i - 1]
  <2>1. SUFFICES ASSUME NEW i \in 1 .. Len(q) + 1, i # 1 PROVE i - 1 \in 1 .. Len(q) /\ r[i] = q[i - 1]
    OBVIOUS
  <2>2. i \in 1 .. 1 + Len(q) /\ ~ (i <= 1) /\ i - 1 \in 1 .. Len(q)
    BY <1>1, <2>1
  <2>3. QED  BY <1>2, <2>2
<1>6. QED  BY <1>1, <1>2, <1>3, <1>4, <1>5 DEF r

\* q without its n innermost frames.
Without(q, n) == SubSeq(q, n + 1, Len(q))

LEMMA Dropped ==
    ASSUME NEW q \in Seq(Frame), NEW n \in 0 .. Len(q)
    PROVE  /\ Without(q, n) \in Seq(Frame) /\ Len(q) \in Nat
           /\ Len(Without(q, n)) = Len(q) - n
           /\ \A i \in 1 .. Len(q) - n : n + i \in 1 .. Len(q) /\ Without(q, n)[i] = q[n + i]
           /\ \A i \in 1 .. Len(q) : i > n => i - n \in 1 .. Len(q) - n /\ Without(q, n)[i - n] = q[i]
<1>1. Len(q) \in Nat /\ n \in Nat /\ n <= Len(q)
  BY LenProperties
<1>2. \A i \in n + 1 .. Len(q) : i \in 1 .. Len(q)
  BY <1>1
<1>3. \A i \in n + 1 .. Len(q) : q[i] \in Frame
  BY <1>2, Element
<1>4. /\ Without(q, n) \in Seq(Frame)
      /\ Len(Without(q, n)) = IF n + 1 <= Len(q) THEN Len(q) - (n + 1) + 1 ELSE 0
      /\ \A i \in 1 .. Len(q) - (n + 1) + 1 : Without(q, n)[i] = q[n + 1 + i - 1]
  BY <1>1, <1>3, SubSeqProperties DEF Without
<1>5. Len(Without(q, n)) = Len(q) - n
  BY <1>1, <1>4
<1>6. \A i \in 1 .. Len(q) - n : n + i \in 1 .. Len(q) /\ Without(q, n)[i] = q[n + i]
  <2>1. SUFFICES ASSUME NEW i \in 1 .. Len(q) - n
                 PROVE  n + i \in 1 .. Len(q) /\ Without(q, n)[i] = q[n + i]
    OBVIOUS
  <2>2. i \in 1 .. Len(q) - (n + 1) + 1 /\ n + 1 + i - 1 = n + i /\ n + i \in 1 .. Len(q)
    BY <1>1
  <2>3. QED  BY <1>4, <2>2
<1>7. \A i \in 1 .. Len(q) : i > n => i - n \in 1 .. Len(q) - n /\ Without(q, n)[i - n] = q[i]
  <2>1. SUFFICES ASSUME NEW i \in 1 .. Len(q), i > n
                 PROVE  i - n \in 1 .. Len(q) - n /\ Without(q, n)[i - n] = q[i]
    OBVIOUS
  <2>2. i - n \in 1 .. Len(q) - n /\ n + (i - n) = i
    BY <1>1, <2>1
  <2>3. QED  BY <1>6, <2>2
<1>8. QED  BY <1>1, <1>4, <1>5, <1>6, <1>7

\* The innermost frame.
LEMMA TopFrame ==
    ASSUME NEW q \in Seq(Frame), q # <<>>
    PROVE  /\ Len(q) \in Nat \ {0} /\ 1 \in 1 .. Len(q) /\ 1 \in 0 .. Len(q)
           /\ Head(q) = q[1] /\ q[1] \in Frame
           /\ Tail(q) = Without(q, 1)
<1>1. Len(q) \in Nat \ {0}
  BY EmptySeq
<1>2. 1 \in 1 .. Len(q) /\ 1 \in 0 .. Len(q)
  BY <1>1
<1>3. Tail(q) = SubSeq(q, 2, Len(q))
  BY TailIsSubSeq
<1>4. Tail(q) = Without(q, 1)
  BY <1>3 DEF Without
<1>5. QED  BY <1>1, <1>2, <1>4, Element

\* A loop on top goes on to the next signal.
LEMMA Advanced ==
    ASSUME NEW q \in Seq(Frame), q # <<>>, q[1].at = "loop", q[1].sig \in Sig, SigSize \in Nat
    PROVE  LET r == [q EXCEPT ![1].sig = @ + 1]
           IN  /\ r \in Seq(Frame) /\ Len(r) = Len(q)
               /\ r[1].at = "loop" /\ r[1].sig = q[1].sig + 1
               /\ \A i \in 1 .. Len(q) : i # 1 => r[i] = q[i]
<1>1. 1 \in 1 .. Len(q) /\ q[1] \in Frame
  BY TopFrame
<1>2. q[1] = Loop(q[1].sig)
  BY <1>1, FrameFacts
<1> DEFINE z == q[1].sig
           g == Loop(z + 1)
<1>3. [q EXCEPT ![1].sig = @ + 1] = [q EXCEPT ![1] = g]
  <2>1. [q[1] EXCEPT !.sig = q[1].sig + 1] = g
    <3> HIDE DEF z
    <3>1. q[1] = [at |-> "loop", sig |-> z]
      BY <1>2 DEF Loop, z
    <3>2. [[at |-> "loop", sig |-> z] EXCEPT !.sig = z + 1] = [at |-> "loop", sig |-> z + 1]
      OBVIOUS
    <3>3. q[1].sig = z
      BY DEF z
    <3>4. QED  BY <3>1, <3>2, <3>3 DEF Loop
  <2>2. [q EXCEPT ![1].sig = @ + 1] = [q EXCEPT ![1] = [q[1] EXCEPT !.sig = q[1].sig + 1]]
    OBVIOUS
  <2>3. QED  BY <2>1, <2>2
<1>4. z + 1 \in 1 .. SigSize
  <2>1. z \in 1 .. SigSize - 1
    BY DEF Sig
  <2> HIDE DEF z
  <2>2. QED  BY <2>1
<1>5. g \in Frame /\ g.at = "loop" /\ g.sig = z + 1
  BY <1>4 DEF Frame, Loop
<1> HIDE DEF g
<1>6. QED  BY <1>1, <1>3, <1>5, ExceptSeq

-----------------------------------------------------------------------------
\* What an exception puts back, signal by signal.

Blocks(q, k, n, m, s) ==
    /\ s \in IF k = 0 THEN m ELSE q[k].save
    /\ \A j \in k + 1 .. n : q[j].at = "handler" /\ ~ q[j].wasBlocked => q[j].sig # s

LEMMA AfterBlocks ==
    ASSUME NEW q, NEW k, NEW n, NEW m, NEW s
    PROVE  s \in After(q, k, n, m) <=> Blocks(q, k, n, m, s)
<1> DEFINE base == IF k = 0 THEN m ELSE q[k].save
           gone == {q[i].sig : i \in {j \in k + 1 .. n : q[j].at = "handler" /\ ~ q[j].wasBlocked}}
<1>1. s \in gone <=> \E j \in k + 1 .. n : q[j].at = "handler" /\ ~ q[j].wasBlocked /\ q[j].sig = s
  OBVIOUS
<1>2. s \in After(q, k, n, m) <=> s \in base /\ s \notin gone
  BY DEF After
<1> HIDE DEF base, gone
<1>3. QED  BY <1>1, <1>2 DEF Blocks, base

LEMMA RestoresBlocks ==
    ASSUME NEW q, NEW m, NEW b
    PROVE  Restores(q, m, b) <=>
               \A k \in 0 .. Len(q) : Furthest(q, k, Len(q)) =>
                   \A s : Blocks(q, k, Len(q), m, s) => s \in b
BY AfterBlocks DEF Restores

\* A frame x is entered: a loop leaves the mask m alone, an assignment saves it
\* and blocks its signal, a handler blocks its signal and notes whether it was.
Enters(x, m, m2) ==
    /\ m \subseteq m2
    /\ x.at = "loop" => m2 = m
    /\ x.at # "loop" => x.sig \in m2
    /\ x.at = "setsig" => x.save = m
    /\ x.at = "handler" => (x.wasBlocked <=> x.sig \in m) /\ m2 \subseteq m \cup {x.sig}

LEMMA EnterBlocked ==
    ASSUME NEW q \in Seq(Frame), NEW x \in Frame, NEW m, NEW m2, Enters(x, m, m2), Blocked(q, m)
    PROVE  Blocked(<<x>> \o q, m2)
<1> DEFINE r == <<x>> \o q
<1>1. /\ Len(q) \in Nat /\ Len(r) = Len(q) + 1 /\ r[1] = x
      /\ \A i \in 1 .. Len(q) + 1 : i # 1 => i - 1 \in 1 .. Len(q) /\ r[i] = q[i - 1]
  BY Pushed
<1> HIDE DEF r
<1>2. SUFFICES ASSUME NEW i \in 1 .. Len(r), r[i].at # "loop"
               PROVE  /\ r[i].sig \in m2
                      /\ \A j \in 1 .. i - 1 : r[j].at = "setsig" => r[i].sig \in r[j].save
                      /\ \A j \in 1 .. i - 1 : r[j].at = "handler" /\ r[j].sig = r[i].sig => r[j].wasBlocked
  BY DEF Blocked, r
<1>3. CASE i = 1
  BY <1>1, <1>2, <1>3 DEF Enters
<1>4. CASE i # 1
  <2>1. i - 1 \in 1 .. Len(q) /\ r[i] = q[i - 1] /\ q[i - 1].at # "loop"
    BY <1>1, <1>2, <1>4
  <2>2. /\ r[i].sig \in m
        /\ \A j \in 1 .. i - 1 - 1 : q[j].at = "setsig" => r[i].sig \in q[j].save
        /\ \A j \in 1 .. i - 1 - 1 : q[j].at = "handler" /\ q[j].sig = r[i].sig => q[j].wasBlocked
    BY <2>1 DEF Blocked
  <2>3. ASSUME NEW j \in 1 .. i - 1
        PROVE  /\ r[j].at = "setsig" => r[i].sig \in r[j].save
               /\ r[j].at = "handler" /\ r[j].sig = r[i].sig => r[j].wasBlocked
    <3>1. CASE j = 1
      BY <1>1, <2>2, <3>1 DEF Enters
    <3>2. CASE j # 1
      <4>1. j \in 1 .. Len(q) + 1 /\ j - 1 \in 1 .. i - 1 - 1
        BY <1>1, <2>1, <3>2
      <4>2. r[j] = q[j - 1]
        BY <1>1, <3>2, <4>1
      <4>3. QED  BY <2>2, <4>1, <4>2
    <3>3. QED  BY <3>1, <3>2
  <2>4. QED  BY <2>2, <2>3 DEF Enters
<1>5. QED  BY <1>3, <1>4

\* The handler of a signal for which there is none yet.
LEMMA EnterOnce ==
    ASSUME NEW q \in Seq(Frame), NEW x \in Frame, Once(q),
           x.at = "handler" => \A i \in 1 .. Len(q) : q[i].at = "handler" => q[i].sig # x.sig
    PROVE  Once(<<x>> \o q)
<1> DEFINE r == <<x>> \o q
<1>1. /\ Len(q) \in Nat /\ Len(r) = Len(q) + 1 /\ r[1] = x
      /\ \A i \in 1 .. Len(q) + 1 : i # 1 => i - 1 \in 1 .. Len(q) /\ r[i] = q[i - 1]
  BY Pushed
<1> HIDE DEF r
<1>2. SUFFICES ASSUME NEW i \in 1 .. Len(r), NEW j \in 1 .. Len(r),
                      r[i].at = "handler", r[j].at = "handler", r[i].sig = r[j].sig
               PROVE  i = j
  BY DEF Once, r
<1>3. CASE i = 1 /\ j = 1
  BY <1>3
<1>4. CASE i = 1 /\ j # 1
  BY <1>1, <1>2, <1>4
<1>5. CASE i # 1 /\ j = 1
  BY <1>1, <1>2, <1>5
<1>6. CASE i # 1 /\ j # 1
  <2>1. i - 1 \in 1 .. Len(q) /\ j - 1 \in 1 .. Len(q) /\ r[i] = q[i - 1] /\ r[j] = q[j - 1]
    BY <1>1, <1>6
  <2>2. i - 1 = j - 1
    BY <1>2, <2>1 DEF Once
  <2>3. QED  BY <2>2
<1>7. QED  BY <1>3, <1>4, <1>5, <1>6

LEMMA EnterHandled ==
    ASSUME NEW q \in Seq(Frame), NEW x \in Frame, NEW p, Handled(q, p),
           x.at = "handler" => p[x.sig] = 0
    PROVE  Handled(<<x>> \o q, p)
<1> DEFINE r == <<x>> \o q
<1>1. /\ Len(q) \in Nat /\ Len(r) = Len(q) + 1 /\ r[1] = x
      /\ \A i \in 1 .. Len(q) + 1 : i # 1 => i - 1 \in 1 .. Len(q) /\ r[i] = q[i - 1]
  BY Pushed
<1> HIDE DEF r
<1>2. SUFFICES ASSUME NEW i \in 1 .. Len(r), r[i].at = "handler" PROVE p[r[i].sig] = 0
  BY DEF Handled, r
<1>3. CASE i = 1
  BY <1>1, <1>2, <1>3
<1>4. CASE i # 1
  <2>1. i - 1 \in 1 .. Len(q) /\ r[i] = q[i - 1]
    BY <1>1, <1>4
  <2>2. QED  BY <1>2, <2>1 DEF Handled
<1>5. QED  BY <1>3, <1>4

LEMMA EnterRestores ==
    ASSUME NEW q \in Seq(Frame), NEW x \in Frame, NEW m, NEW m2, NEW b,
           Enters(x, m, m2), Restores(q, m, b)
    PROVE  Restores(<<x>> \o q, m2, b)
<1> DEFINE r == <<x>> \o q
<1>1. /\ Len(q) \in Nat /\ Len(r) = Len(q) + 1 /\ r[1] = x
      /\ \A i \in 1 .. Len(q) : r[i + 1] = q[i]
      /\ \A i \in 1 .. Len(q) + 1 : i # 1 => i - 1 \in 1 .. Len(q) /\ r[i] = q[i - 1]
  BY Pushed
<1> HIDE DEF r
<1>2. SUFFICES ASSUME NEW k \in 0 .. Len(r), Furthest(r, k, Len(r)), NEW s, Blocks(r, k, Len(r), m2, s)
               PROVE  s \in b
  BY RestoresBlocks DEF r
<1>3. \A l \in 0 .. Len(q) : Furthest(q, l, Len(q)) => (Blocks(q, l, Len(q), m, s) => s \in b)
  BY RestoresBlocks
<1>4. CASE k <= 1
  <2>1. ASSUME NEW j \in 0 + 1 .. Len(q)
        PROVE  /\ q[j].at # "setsig"
               /\ q[j].at = "handler" /\ ~ q[j].wasBlocked => q[j].sig # s
    <3>1. j + 1 \in k + 1 .. Len(r) /\ r[j + 1] = q[j]
      BY <1>1, <1>4
    <3>2. QED  BY <1>2, <3>1 DEF Furthest, Blocks
  <2>2. Furthest(q, 0, Len(q))
    BY <2>1 DEF Furthest
  <2>3. s \in m
    <3>1. CASE k = 0
      <4>1. 1 \in k + 1 .. Len(r)
        BY <1>1, <3>1
      <4>2. x.at # "setsig" /\ (x.at = "handler" /\ ~ x.wasBlocked => x.sig # s) /\ s \in m2
        BY <1>1, <1>2, <3>1, <4>1 DEF Furthest, Blocks
      <4>3. x.at \in {"loop", "handler"}
        BY <4>2, FrameFacts
      <4>4. QED  BY <4>2, <4>3 DEF Enters
    <3>2. CASE k = 1
      BY <1>1, <1>2, <3>2 DEF Furthest, Blocks, Enters
    <3>3. QED  BY <1>4, <3>1, <3>2
  <2>4. Blocks(q, 0, Len(q), m, s)
    BY <2>1, <2>3 DEF Blocks
  <2>5. 0 \in 0 .. Len(q)
    BY <1>1
  <2>6. QED  BY <1>3, <2>2, <2>4, <2>5
<1>5. CASE ~ (k <= 1)
  <2>1. k - 1 \in 0 .. Len(q) /\ k - 1 # 0 /\ k # 0 /\ r[k] = q[k - 1] /\ k \in Nat
    BY <1>1, <1>5
  <2>2. ASSUME NEW j \in k - 1 + 1 .. Len(q)
        PROVE  /\ q[j].at # "setsig"
               /\ q[j].at = "handler" /\ ~ q[j].wasBlocked => q[j].sig # s
    <3>1. j + 1 \in k + 1 .. Len(r) /\ r[j + 1] = q[j]
      BY <1>1, <2>1
    <3>2. QED  BY <1>2, <3>1 DEF Furthest, Blocks
  <2>3. q[k - 1].at = "setsig" /\ s \in q[k - 1].save
    BY <1>2, <1>5, <2>1 DEF Furthest, Blocks
  <2>4. Furthest(q, k - 1, Len(q)) /\ Blocks(q, k - 1, Len(q), m, s)
    BY <2>1, <2>2, <2>3 DEF Furthest, Blocks
  <2>5. QED  BY <1>3, <2>1, <2>4
<1>6. QED  BY <1>4, <1>5

-----------------------------------------------------------------------------
\* The n innermost frames are left, k being the assignment furthest out.

LEMMA LeaveBlocked ==
    ASSUME NEW q \in Seq(Frame), NEW m, NEW n \in 0 .. Len(q), NEW k \in 0 .. n,
           Furthest(q, k, n), Blocked(q, m)
    PROVE  Blocked(Without(q, n), After(q, k, n, m))
<1> DEFINE r == Without(q, n)
           m2 == After(q, k, n, m)
<1>1. /\ Len(q) \in Nat /\ Len(r) = Len(q) - n
      /\ \A i \in 1 .. Len(q) - n : n + i \in 1 .. Len(q) /\ r[i] = q[n + i]
  BY Dropped
<1>2. \A s : Blocks(q, k, n, m, s) => s \in m2
  BY AfterBlocks
<1> HIDE DEF r, m2
<1>3. SUFFICES ASSUME NEW i \in 1 .. Len(r), r[i].at # "loop"
               PROVE  /\ r[i].sig \in m2
                      /\ \A j \in 1 .. i - 1 : r[j].at = "setsig" => r[i].sig \in r[j].save
                      /\ \A j \in 1 .. i - 1 : r[j].at = "handler" /\ r[j].sig = r[i].sig => r[j].wasBlocked
  BY DEF Blocked, r, m2
<1>4. n + i \in 1 .. Len(q) /\ r[i] = q[n + i] /\ n \in Nat /\ k \in Nat
  BY <1>1
<1>5. /\ r[i].sig \in m
      /\ \A j \in 1 .. n + i - 1 : q[j].at = "setsig" => r[i].sig \in q[j].save
      /\ \A j \in 1 .. n + i - 1 : q[j].at = "handler" /\ q[j].sig = r[i].sig => q[j].wasBlocked
  BY <1>3, <1>4 DEF Blocked
<1>6. Blocks(q, k, n, m, r[i].sig)
  <2>1. k # 0 => k \in 1 .. n + i - 1
    BY <1>4
  <2>2. \A j \in k + 1 .. n : j \in 1 .. n + i - 1
    BY <1>4
  <2>3. QED  BY <1>5, <2>1, <2>2 DEF Blocks, Furthest
<1>7. ASSUME NEW j \in 1 .. i - 1
      PROVE  /\ r[j].at = "setsig" => r[i].sig \in r[j].save
             /\ r[j].at = "handler" /\ r[j].sig = r[i].sig => r[j].wasBlocked
  <2>1. n + j \in 1 .. n + i - 1 /\ j \in 1 .. Len(q) - n
    BY <1>1, <1>4
  <2>2. r[j] = q[n + j]
    BY <1>1, <2>1
  <2>3. QED  BY <1>5, <2>1, <2>2
<1>8. QED  BY <1>2, <1>6, <1>7

LEMMA LeaveOnce ==
    ASSUME NEW q \in Seq(Frame), NEW n \in 0 .. Len(q), Once(q)
    PROVE  Once(Without(q, n))
<1> DEFINE r == Without(q, n)
<1>1. /\ Len(q) \in Nat /\ Len(r) = Len(q) - n
      /\ \A i \in 1 .. Len(q) - n : n + i \in 1 .. Len(q) /\ r[i] = q[n + i]
  BY Dropped
<1> HIDE DEF r
<1>2. SUFFICES ASSUME NEW i \in 1 .. Len(r), NEW j \in 1 .. Len(r),
                      r[i].at = "handler", r[j].at = "handler", r[i].sig = r[j].sig
               PROVE  i = j
  BY DEF Once, r
<1>3. n + i = n + j
  BY <1>1, <1>2 DEF Once
<1>4. QED  BY <1>3

LEMMA LeaveHandled ==
    ASSUME NEW q \in Seq(Frame), NEW n \in 0 .. Len(q), NEW p, Handled(q, p)
    PROVE  Handled(Without(q, n), p)
<1>1. /\ Len(Without(q, n)) = Len(q) - n
      /\ \A i \in 1 .. Len(q) - n : n + i \in 1 .. Len(q) /\ Without(q, n)[i] = q[n + i]
  BY Dropped
<1>2. QED  BY <1>1 DEF Handled

LEMMA LeaveRestores ==
    ASSUME NEW q \in Seq(Frame), NEW m, NEW n \in 0 .. Len(q), NEW k \in 0 .. n, NEW b,
           Furthest(q, k, n), Restores(q, m, b)
    PROVE  Restores(Without(q, n), After(q, k, n, m), b)
<1> DEFINE r == Without(q, n)
           m2 == After(q, k, n, m)
<1>1. /\ Len(q) \in Nat /\ Len(r) = Len(q) - n
      /\ \A i \in 1 .. Len(q) - n : n + i \in 1 .. Len(q) /\ r[i] = q[n + i]
      /\ \A i \in 1 .. Len(q) : i > n => i - n \in 1 .. Len(q) - n /\ r[i - n] = q[i]
  BY Dropped
<1>2. \A s : s \in m2 => Blocks(q, k, n, m, s)
  BY AfterBlocks
<1> HIDE DEF r, m2
<1>3. SUFFICES ASSUME NEW l \in 0 .. Len(r), Furthest(r, l, Len(r)), NEW s, Blocks(r, l, Len(r), m2, s)
               PROVE  s \in b
  BY RestoresBlocks DEF r, m2
<1>4. \A i \in 0 .. Len(q) : Furthest(q, i, Len(q)) => (Blocks(q, i, Len(q), m, s) => s \in b)
  BY RestoresBlocks
<1>5. n \in Nat /\ k \in Nat /\ l \in Nat
  BY <1>1
<1>6. ASSUME NEW j \in n + l + 1 .. Len(q)
      PROVE  /\ q[j].at # "setsig"
             /\ q[j].at = "handler" /\ ~ q[j].wasBlocked => q[j].sig # s
  <2>1. j \in 1 .. Len(q) /\ j > n /\ j - n \in l + 1 .. Len(r)
    BY <1>1, <1>5
  <2>2. r[j - n] = q[j]
    BY <1>1, <2>1
  <2>3. QED  BY <1>3, <2>1, <2>2 DEF Furthest, Blocks
<1>7. CASE l = 0
  <2>1. Blocks(q, k, n, m, s)
    BY <1>2, <1>3, <1>7 DEF Blocks
  <2>2. ASSUME NEW j \in k + 1 .. Len(q)
        PROVE  /\ q[j].at # "setsig"
               /\ q[j].at = "handler" /\ ~ q[j].wasBlocked => q[j].sig # s
    <3>1. j \in k + 1 .. n \/ j \in n + l + 1 .. Len(q)
      BY <1>5, <1>7
    <3>2. QED  BY <1>6, <2>1, <3>1 DEF Furthest, Blocks
  <2>3. Furthest(q, k, Len(q)) /\ Blocks(q, k, Len(q), m, s)
    BY <2>1, <2>2 DEF Furthest, Blocks
  <2>4. k \in 0 .. Len(q)
    BY <1>1
  <2>5. QED  BY <1>4, <2>3, <2>4
<1>8. CASE l # 0
  <2>1. /\ l \in 1 .. Len(q) - n /\ l > 0
        /\ n + l \in 0 .. Len(q) /\ n + l # 0 /\ r[l] = q[n + l]
    BY <1>1, <1>5, <1>8
  <2>2. q[n + l].at = "setsig" /\ s \in q[n + l].save
    BY <1>3, <1>8, <2>1 DEF Furthest, Blocks
  <2>3. Furthest(q, n + l, Len(q)) /\ Blocks(q, n + l, Len(q), m, s)
    BY <1>6, <2>1, <2>2 DEF Furthest, Blocks
  <2>4. QED  BY <1>4, <2>1, <2>3
<1>9. QED  BY <1>7, <1>8

-----------------------------------------------------------------------------
\* A loop on top goes on; the mask grows.

\* r is q with another loop on top.
Moves(q, r) ==
    /\ Len(r) = Len(q)
    /\ r[1].at = "loop" /\ q[1].at = "loop"
    /\ \A i \in 1 .. Len(q) : i # 1 => r[i] = q[i]

LEMMA MoveKeeps ==
    ASSUME NEW q \in Seq(Frame), NEW r \in Seq(Frame), q # <<>>, Moves(q, r), NEW m, NEW p, NEW b,
           Blocked(q, m), Handled(q, p), Once(q), Restores(q, m, b)
    PROVE  Blocked(r, m) /\ Handled(r, p) /\ Once(r) /\ Restores(r, m, b)
<1>1. Len(q) \in Nat \ {0} /\ Len(r) = Len(q)
  BY TopFrame DEF Moves
<1>2. \A i \in 1 .. Len(q) : r[i].at = q[i].at /\ (q[i].at # "loop" => r[i] = q[i])
  BY DEF Moves
<1>3. Blocked(r, m)
  <2>1. SUFFICES ASSUME NEW i \in 1 .. Len(q), r[i].at # "loop"
                 PROVE  /\ r[i].sig \in m
                        /\ \A j \in 1 .. i - 1 : r[j].at = "setsig" => r[i].sig \in r[j].save
                        /\ \A j \in 1 .. i - 1 : r[j].at = "handler" /\ r[j].sig = r[i].sig => r[j].wasBlocked
    BY <1>1 DEF Blocked
  <2>2. \A j \in 1 .. i - 1 : j \in 1 .. Len(q)
    BY <1>1
  <2>3. QED  BY <1>2, <2>1, <2>2 DEF Blocked
<1>4. Handled(r, p)
  BY <1>1, <1>2 DEF Handled
<1>5. Once(r)
  BY <1>1, <1>2 DEF Once
<1>6. Restores(r, m, b)
  <2>1. SUFFICES ASSUME NEW k \in 0 .. Len(q), Furthest(r, k, Len(q)), NEW s, Blocks(r, k, Len(q), m, s)
                 PROVE  s \in b
    BY <1>1, RestoresBlocks
  <2>2. \A j \in k + 1 .. Len(q) : j \in 1 .. Len(q)
    BY <1>1
  <2>3. k # 0 => k \in 1 .. Len(q)
    BY <1>1
  <2>4. Furthest(q, k, Len(q)) /\ Blocks(q, k, Len(q), m, s)
    BY <1>2, <2>1, <2>2, <2>3 DEF Furthest, Blocks
  <2>5. QED  BY <2>4, RestoresBlocks
<1>7. QED  BY <1>3, <1>4, <1>5, <1>6

\* Perl_csighandler3 runs, with its signal blocked.
LEMMA BlockKeeps ==
    ASSUME NEW q, NEW m, NEW b, NEW s, Blocked(q, m), Restores(q, m, b)
    PROVE  Blocked(q, m \cup {s}) /\ Restores(q, m \cup {s}, b \cup {s})
<1>1. Blocked(q, m \cup {s})
  BY DEF Blocked
<1>2. Restores(q, m \cup {s}, b \cup {s})
  <2>1. SUFFICES ASSUME NEW k \in 0 .. Len(q), Furthest(q, k, Len(q)),
                        NEW z, Blocks(q, k, Len(q), m \cup {s}, z), z # s
                 PROVE  z \in b
    BY RestoresBlocks
  <2>2. Blocks(q, k, Len(q), m, z)
    BY <2>1 DEF Blocks
  <2>3. QED  BY <2>1, <2>2, RestoresBlocks
<1>3. QED  BY <1>1, <1>2

-----------------------------------------------------------------------------
\* Every action keeps MaskInv.

\* What it says of a stack, a mask, counts, and the signals left blocked.
MaskParts(q, m, p, b) ==
    /\ Blocked(q, m)
    /\ Handled(q, p)
    /\ Once(q)
    /\ Restores(q, m, b)

LEMMA EnterKeeps ==
    ASSUME NEW q \in Seq(Frame), NEW x \in Frame, NEW m, NEW m2, NEW p, NEW b,
           MaskParts(q, m, p, b), Enters(x, m, m2), x.at # "handler"
    PROVE  MaskParts(<<x>> \o q, m2, p, b)
BY EnterBlocked, EnterOnce, EnterHandled, EnterRestores DEF MaskParts

LEMMA LeaveKeeps ==
    ASSUME NEW q \in Seq(Frame), NEW m, NEW p, NEW b, NEW n \in 0 .. Len(q), NEW k \in 0 .. n,
           Furthest(q, k, n), MaskParts(q, m, p, b)
    PROVE  MaskParts(Without(q, n), After(q, k, n, m), p, b)
BY LeaveBlocked, LeaveOnce, LeaveHandled, LeaveRestores DEF MaskParts

LEMMA UnwindKeeps ==
    ASSUME stack \in Seq(Frame), NEW n \in 0 .. Len(stack), NEW m \in SUBSET Sig, NEW p, NEW b,
           UnwindFrom(n, m), MaskParts(stack, m, p, b)
    PROVE  MaskParts(stack', mask', p, b) /\ stack' \in Seq(Frame) /\ mask' \in SUBSET Sig
<1>1. PICK k \in 0 .. n : LastSave(k, n) /\ mask' = MaskAfter(k, n, m)
  BY DEF UnwindFrom
<1>2. Furthest(stack, k, n) /\ mask' = After(stack, k, n, m)
  BY <1>1 DEF LastSave, Furthest, MaskAfter, After
<1>3. stack' = Without(stack, n)
  BY DEF UnwindFrom, Without
<1>4. MaskParts(stack', mask', p, b) /\ stack' \in Seq(Frame)
  BY <1>2, <1>3, LeaveKeeps, Dropped
<1>5. mask' \in SUBSET Sig
  <2>1. CASE k = 0
    BY <1>2, <2>1 DEF After
  <2>2. CASE k # 0
    <3>1. k \in 1 .. Len(stack) /\ stack[k].at = "setsig"
      BY <1>2, <2>2, LenProperties DEF Furthest
    <3>2. stack[k].save \in SUBSET Sig
      BY <3>1, Element, FrameFacts
    <3>3. QED  BY <1>2, <2>2, <3>2 DEF After
  <2>3. QED  BY <2>1, <2>2
<1>6. QED  BY <1>4, <1>5

\* The top frame is left.
LEMMA PopKeeps ==
    ASSUME stack \in Seq(Frame), stack # <<>>, NEW m \in SUBSET Sig, NEW p, NEW b,
           MaskParts(stack, m, p, b)
    PROVE  /\ MaskParts(Tail(stack), Restored(Head(stack), m), p, b)
           /\ Tail(stack) \in Seq(Frame) /\ Restored(Head(stack), m) \in SUBSET Sig
<1> DEFINE f == stack[1]
<1>1. /\ Head(stack) = f /\ f \in Frame /\ 1 \in 0 .. Len(stack)
      /\ Tail(stack) = Without(stack, 1)
  BY TopFrame
<1>2. Tail(stack) \in Seq(Frame)
  BY <1>1, Dropped
<1>3. /\ f.at \in {"loop", "handler", "setsig"}
      /\ f.at = "handler" => f.sig \in Sig /\ f.wasBlocked \in BOOLEAN
      /\ f.at = "setsig" => f.save \in SUBSET Sig
  BY <1>1, FrameFacts
<1> DEFINE k == IF f.at = "setsig" THEN 1 ELSE 0
<1>4. k \in 0 .. 1 /\ Furthest(stack, k, 1)
  BY DEF Furthest
<1>5. After(stack, k, 1, m) = Restored(f, m)
  <2>1. ASSUME NEW s PROVE Blocks(stack, k, 1, m, s) <=> s \in Restored(f, m)
    <3>1. CASE f.at = "loop"
      <4>1. \A j \in 0 + 1 .. 1 : stack[j].at # "handler"
        BY <3>1
      <4>2. QED  BY <3>1, <4>1 DEF Blocks, Restored
    <3>2. CASE f.at = "handler"
      <4>1. 0 + 1 .. 1 = {1}
        OBVIOUS
      <4>2. Blocks(stack, 0, 1, m, s) <=> s \in m /\ (~ f.wasBlocked => f.sig # s)
        BY <3>2, <4>1 DEF Blocks
      <4>3. Restored(f, m) = IF f.wasBlocked THEN m ELSE m \ {f.sig}
        BY <3>2 DEF Restored
      <4>4. QED  BY <3>2, <4>2, <4>3
    <3>3. CASE f.at = "setsig"
      <4>1. 1 + 1 .. 1 = {}
        OBVIOUS
      <4>2. Blocks(stack, 1, 1, m, s) <=> s \in f.save
        BY <4>1 DEF Blocks
      <4>3. Restored(f, m) = f.save
        BY <3>3 DEF Restored
      <4>4. QED  BY <3>3, <4>2, <4>3
    <3>4. QED  BY <1>3, <3>1, <3>2, <3>3
  <2>2. QED  BY <2>1, AfterBlocks
<1>6. MaskParts(Tail(stack), Restored(f, m), p, b)
  BY <1>1, <1>4, <1>5, LeaveKeeps
<1>7. Restored(f, m) \in SUBSET Sig
  BY <1>3 DEF Restored
<1>8. QED  BY <1>1, <1>2, <1>6, <1>7

\* The loop on top goes on.
LEMMA NextKeeps ==
    ASSUME MaskInv, Top("loop"), Head(stack).sig \in Sig
    PROVE  /\ NextSig \in Seq(Frame) /\ Moves(stack, NextSig)
           /\ stack # <<>> /\ stack[1] \in Frame /\ Head(stack) = stack[1]
           /\ MaskParts(NextSig, mask, psigPend, stuck)
<1>1. stack \in Seq(Frame) /\ stack # <<>> /\ SigSize \in Nat
  BY SignalAssumption DEF MaskInv, TypeOK, Top
<1>2. Head(stack) = stack[1] /\ stack[1] \in Frame
  BY <1>1, TopFrame
<1>3. NextSig \in Seq(Frame) /\ Moves(stack, NextSig)
  BY <1>1, <1>2, Advanced DEF NextSig, Moves, Top
<1>4. QED  BY <1>1, <1>2, <1>3, MoveKeeps DEF MaskInv, MaskParts

\* Nothing is counted of a signal whose handler runs.
LEMMA UnblockedHasNoHandler ==
    ASSUME MaskInv, NEW s \in Sig \ mask
    PROVE  /\ Handled(stack, [psigPend EXCEPT ![s] = @ + 1])
           /\ [psigPend EXCEPT ![s] = @ + 1] \in [Sig -> Nat]
<1>1. psigPend \in [Sig -> Nat] /\ stack \in Seq(Frame)
  BY DEF MaskInv, TypeOK
<1>2. ASSUME NEW i \in 1 .. Len(stack), stack[i].at = "handler"
      PROVE  [psigPend EXCEPT ![s] = @ + 1][stack[i].sig] = 0
  <2>1. stack[i].sig \in mask /\ stack[i].sig # s /\ psigPend[stack[i].sig] = 0
    BY <1>2 DEF MaskInv, Blocked, Handled
  <2>2. stack[i].sig \in Sig
    BY <1>1, <1>2, Element, FrameFacts
  <2>3. QED  BY <1>1, <2>1, <2>2
<1>3. QED  BY <1>1, <1>2 DEF Handled

LEMMA CountKeeps ==
    ASSUME MaskInv, NEW s \in Sig \ mask, Count(s)
    PROVE  /\ MaskParts(stack', mask', psigPend', stuck')
           /\ stack' \in Seq(Frame) /\ mask' \in SUBSET Sig
           /\ psigPend' \in [Sig -> Nat] /\ sigPending' \in Nat /\ stuck' \in SUBSET Sig
<1>1. TypeOK /\ psigPend' = [psigPend EXCEPT ![s] = @ + 1]
  BY DEF MaskInv, Count
<1>2. Handled(stack, psigPend') /\ psigPend' \in [Sig -> Nat]
  BY <1>1, UnblockedHasNoHandler
<1>3. sigPending' \in Nat
  <2>1. sigPending \in Nat
    BY <1>1 DEF TypeOK
  <2>2. sigPending' = sigPending + 1
    BY DEF Count
  <2>3. QED  BY <2>1, <2>2
<1>4. CASE UNCHANGED <<stack, mask, stuck>>
  BY <1>1, <1>2, <1>3, <1>4 DEF MaskInv, MaskParts, TypeOK
<1>5. CASE /\ \E n \in 0 .. Len(stack) : UnwindFrom(n, mask \cup {s})
           /\ stuck' = stuck \cup {s}
  <2>1. MaskParts(stack, mask \cup {s}, psigPend', stuck')
    BY <1>2, <1>5, BlockKeeps DEF MaskInv, MaskParts
  <2>2. mask \cup {s} \in SUBSET Sig /\ stuck' \in SUBSET Sig /\ stack \in Seq(Frame)
    BY <1>1, <1>5 DEF TypeOK
  <2>3. MaskParts(stack', mask', psigPend', stuck') /\ stack' \in Seq(Frame) /\ mask' \in SUBSET Sig
    BY <1>5, <2>1, <2>2, UnwindKeeps
  <2>4. QED  BY <1>2, <1>3, <2>2, <2>3
<1>6. QED  BY <1>4, <1>5 DEF Count

LEMMA PartsMakeInv ==
    ASSUME TypeOK', MaskParts(stack', mask', psigPend', stuck')
    PROVE  MaskInv'
BY DEF MaskInv, MaskParts

\* The loop of an assignment is on top of it.
LEMMA AssignedStack ==
    ASSUME NEW x \in Frame, NEW y \in Frame, NEW q \in Seq(Frame), NEW c
    PROVE  (IF c THEN <<y>> ELSE <<>>) \o <<x>> \o q = IF c THEN <<y>> \o (<<x>> \o q) ELSE <<x>> \o q
<1>1. <<x>> \in Seq(Frame) /\ <<y>> \in Seq(Frame)
  OBVIOUS
<1>2. <<>> \o <<x>> = <<x>>
  BY <1>1, ConcatEmptySeq
<1>3. (<<y>> \o <<x>>) \o q = <<y>> \o (<<x>> \o q)
  BY <1>1, ConcatAssociative
<1>4. QED  BY <1>2, <1>3

LEMMA ArriveKeepsMask ==
    ASSUME MaskInv, NEW s \in Sig, Arrive(s)
    PROVE  MaskInv'
<1>1. TypeOK
  BY DEF MaskInv
<1>2. psigPtr' = psigPtr /\ process' = process /\ sent' \in Nat
  <2>1. sent \in Nat
    BY <1>1 DEF TypeOK
  <2>2. sent' = sent + 1
    BY DEF Arrive
  <2>3. QED  BY <2>1, <2>2 DEF Arrive
<1>3. CASE s \in mask
  BY <1>1, <1>2, <1>3 DEF Arrive, MaskInv, TypeOK
<1>4. CASE s \notin mask
  <2>1. Count(s) /\ kernel' = kernel
    BY <1>4 DEF Arrive
  <2>2. s \in Sig \ mask
    BY <1>4
  <2>3. /\ MaskParts(stack', mask', psigPend', stuck')
        /\ stack' \in Seq(Frame) /\ mask' \in SUBSET Sig
        /\ psigPend' \in [Sig -> Nat] /\ sigPending' \in Nat /\ stuck' \in SUBSET Sig
    BY <2>1, <2>2, CountKeeps
  <2>4. TypeOK'
    BY <1>1, <1>2, <2>1, <2>3 DEF TypeOK
  <2>5. QED  BY <2>3, <2>4, PartsMakeInv
<1>5. QED  BY <1>3, <1>4

LEMMA DeliverKeepsMask ==
    ASSUME MaskInv, NEW s \in Sig, Deliver(s)
    PROVE  MaskInv'
<1>1. TypeOK
  BY DEF MaskInv
<1>2. psigPtr' = psigPtr /\ sent' = sent /\ kernel' \in SUBSET Sig
  BY <1>1 DEF Deliver, TypeOK
<1>3. CASE psigPtr[s] \in Code
  <2>1. Count(s) /\ process' = process /\ s \in Sig \ mask
    BY <1>3 DEF Deliver
  <2>2. /\ MaskParts(stack', mask', psigPend', stuck')
        /\ stack' \in Seq(Frame) /\ mask' \in SUBSET Sig
        /\ psigPend' \in [Sig -> Nat] /\ sigPending' \in Nat /\ stuck' \in SUBSET Sig
    BY <2>1, CountKeeps
  <2>3. TypeOK'
    BY <1>1, <1>2, <2>1, <2>2 DEF TypeOK
  <2>4. QED  BY <2>2, <2>3, PartsMakeInv
<1>4. CASE psigPtr[s] \notin Code
  <2>1. process' = "default action" /\ UNCHANGED <<psigPend, sigPending, stack, mask, stuck>>
    BY <1>4 DEF Deliver
  <2>2. QED  BY <1>1, <1>2, <2>1 DEF MaskInv, TypeOK
<1>5. QED  BY <1>3, <1>4

LEMMA LoopFrame ==
    ASSUME SigSize \in Nat \ {0}
    PROVE  Loop(1) \in Frame /\ Loop(1).at = "loop" /\ Loop(1).sig = 1
<1>1. 1 \in 1 .. SigSize
  OBVIOUS
<1>2. QED  BY <1>1 DEF Loop, Frame

LEMMA AsyncCheckKeepsMask ==
    ASSUME MaskInv, AsyncCheck
    PROVE  MaskInv'
<1>1. TypeOK /\ MaskParts(stack, mask, psigPend, stuck) /\ SigSize \in Nat \ {0}
  BY SignalAssumption DEF MaskInv, MaskParts
<1>2. /\ stack' = <<Loop(1)>> \o stack /\ sigPending' = 0
      /\ UNCHANGED <<mask, kernel, psigPtr, psigPend, process, stuck, sent>>
  BY DEF AsyncCheck
<1>3. stack \in Seq(Frame) /\ stack' \in Seq(Frame)
  BY <1>1, <1>2, LoopFrame, Pushed DEF TypeOK
<1>4. Enters(Loop(1), mask, mask)
  BY <1>1, LoopFrame DEF Enters
<1>5. MaskParts(stack', mask', psigPend', stuck')
  BY <1>1, <1>2, <1>3, <1>4, EnterKeeps, LoopFrame
<1>6. TypeOK'
  BY <1>1, <1>2, <1>3 DEF TypeOK
<1>7. QED  BY <1>5, <1>6, PartsMakeInv

LEMMA SkipSigKeepsMask ==
    ASSUME MaskInv, SkipSig
    PROVE  MaskInv'
<1>1. TypeOK
  BY DEF MaskInv
<1>2. /\ stack' = NextSig
      /\ UNCHANGED <<mask, kernel, psigPtr, psigPend, sigPending, process, stuck, sent>>
  BY DEF SkipSig
<1>3. stack' \in Seq(Frame) /\ MaskParts(stack', mask', psigPend', stuck')
  BY <1>2, NextKeeps DEF SkipSig
<1>4. TypeOK'
  BY <1>1, <1>2, <1>3 DEF TypeOK
<1>5. QED  BY <1>3, <1>4, PartsMakeInv

LEMMA CallHandlerKeepsMask ==
    ASSUME MaskInv, CallHandler
    PROVE  MaskInv'
<1>1. PICK s \in Sig : s = Head(stack).sig
  BY DEF CallHandler
<1>2. /\ psigPend[s] # 0
      /\ psigPend' = [psigPend EXCEPT ![s] = 0]
      /\ process' = IF psigPtr[s] = "none" THEN "no handler" ELSE process
      /\ UNCHANGED <<kernel, psigPtr, sigPending, stuck, sent>>
  BY <1>1 DEF CallHandler
<1>3. IF psigPtr[s] \in Code
      THEN /\ mask' = mask \cup {s}
           /\ stack' = <<Handler(s, s \in mask)>> \o NextSig
      ELSE /\ stack' = NextSig
           /\ UNCHANGED mask
  BY <1>1 DEF CallHandler, HandlerMask
<1>4. TypeOK
  BY DEF MaskInv
<1>5. /\ NextSig \in Seq(Frame) /\ Moves(stack, NextSig)
      /\ stack # <<>> /\ stack[1] \in Frame /\ Head(stack) = stack[1]
      /\ MaskParts(NextSig, mask, psigPend, stuck)
  BY <1>1, NextKeeps DEF CallHandler
<1>6. psigPend' \in [Sig -> Nat] /\ psigPend'[s] = 0
  BY <1>2, <1>4 DEF TypeOK
<1>7. ASSUME NEW i \in 1 .. Len(NextSig), NextSig[i].at = "handler"
      PROVE  NextSig[i].sig # s /\ psigPend'[NextSig[i].sig] = 0
  <2>1. psigPend[NextSig[i].sig] = 0
    BY <1>5, <1>7 DEF MaskParts, Handled
  <2>2. NextSig[i].sig \in Sig
    BY <1>5, <1>7, Element, FrameFacts
  <2>3. QED  BY <1>2, <1>4, <2>1, <2>2 DEF TypeOK
<1>8. Handled(NextSig, psigPend')
  BY <1>7 DEF Handled
<1>9. CASE psigPtr[s] \in Code
  <2> DEFINE w == s \in mask
  <2>1. w \in BOOLEAN
    OBVIOUS
  <2>2. Handler(s, w) \in Frame
    BY <2>1 DEF Handler, Frame
  <2>3. /\ Handler(s, w).at = "handler" /\ Handler(s, w).sig = s
        /\ Handler(s, w).wasBlocked = w
    BY DEF Handler
  <2>4. mask' = mask \cup {s} /\ stack' = <<Handler(s, w)>> \o NextSig
    BY <1>3, <1>9
  <2>5. Enters(Handler(s, w), mask, mask')
    BY <2>3, <2>4 DEF Enters
  <2> HIDE DEF w
  <2>6. Blocked(stack', mask') /\ Restores(stack', mask', stuck)
    BY <1>5, <2>2, <2>4, <2>5, EnterBlocked, EnterRestores DEF MaskParts
  <2>7. Once(stack')
    BY <1>5, <1>7, <2>2, <2>3, <2>4, EnterOnce DEF MaskParts
  <2>8. Handled(stack', psigPend')
    BY <1>5, <1>6, <1>8, <2>2, <2>3, <2>4, EnterHandled
  <2>9. MaskParts(stack', mask', psigPend', stuck')
    BY <1>2, <2>6, <2>7, <2>8 DEF MaskParts
  <2>10. stack' \in Seq(Frame) /\ mask' \in SUBSET Sig
    <3>1. stack' \in Seq(Frame)
      BY <1>5, <2>2, <2>4, Pushed
    <3>2. mask \in SUBSET Sig
      BY <1>4 DEF TypeOK
    <3>3. QED  BY <2>4, <3>1, <3>2
  <2>11. TypeOK'
    BY <1>2, <1>4, <1>6, <2>10 DEF TypeOK
  <2>12. QED  BY <2>9, <2>11, PartsMakeInv
<1>10. CASE psigPtr[s] \notin Code
  <2>1. stack' = NextSig /\ mask' = mask
    BY <1>3, <1>10
  <2>2. MaskParts(stack', mask', psigPend', stuck')
    BY <1>2, <1>5, <1>8, <2>1 DEF MaskParts
  <2>3. TypeOK'
    BY <1>2, <1>4, <1>5, <1>6, <2>1 DEF TypeOK
  <2>4. QED  BY <2>2, <2>3, PartsMakeInv
<1>11. QED  BY <1>9, <1>10

LEMMA DespatchedKeepsMask ==
    ASSUME MaskInv, Despatched
    PROVE  MaskInv'
<1>1. TypeOK /\ stack \in Seq(Frame) /\ stack # <<>> /\ mask \in SUBSET Sig
  BY DEF MaskInv, TypeOK, Despatched, Top
<1>2. /\ stack' = Tail(stack) /\ Restored(Head(stack), mask) = mask
      /\ UNCHANGED <<mask, kernel, psigPtr, psigPend, sigPending, process, stuck, sent>>
  BY DEF Despatched, Restored, Top
<1>3. MaskParts(stack, mask, psigPend, stuck)
  BY DEF MaskInv, MaskParts
<1>4. MaskParts(stack', mask', psigPend', stuck') /\ stack' \in Seq(Frame)
  BY <1>1, <1>2, <1>3, PopKeeps
<1>5. TypeOK'
  BY <1>1, <1>2, <1>4 DEF TypeOK
<1>6. QED  BY <1>4, <1>5, PartsMakeInv

LEMMA HandlerReturnsKeepsMask ==
    ASSUME MaskInv, HandlerReturns
    PROVE  MaskInv'
<1>1. TypeOK /\ stack \in Seq(Frame) /\ stack # <<>> /\ mask \in SUBSET Sig
  BY DEF MaskInv, TypeOK, HandlerReturns, Top
<1>2. /\ stack' = Tail(stack) /\ mask' = Restored(Head(stack), mask)
      /\ UNCHANGED <<kernel, psigPtr, psigPend, sigPending, process, stuck, sent>>
  BY DEF HandlerReturns
<1>3. MaskParts(stack, mask, psigPend, stuck)
  BY DEF MaskInv, MaskParts
<1>4. MaskParts(stack', mask', psigPend', stuck') /\ stack' \in Seq(Frame) /\ mask' \in SUBSET Sig
  BY <1>1, <1>2, <1>3, PopKeeps
<1>5. TypeOK'
  BY <1>1, <1>2, <1>4 DEF TypeOK
<1>6. QED  BY <1>4, <1>5, PartsMakeInv

LEMMA HandlerDiesKeepsMask ==
    ASSUME MaskInv, HandlerDies
    PROVE  MaskInv'
<1>1. TypeOK /\ stack \in Seq(Frame) /\ mask \in SUBSET Sig
  BY DEF MaskInv, TypeOK
<1>2. PICK n \in 1 .. Len(stack) : UnwindFrom(n, mask)
  BY DEF HandlerDies
<1>3. UNCHANGED <<kernel, psigPtr, psigPend, sigPending, process, stuck, sent>>
  BY DEF HandlerDies
<1>4. MaskParts(stack, mask, psigPend, stuck) /\ n \in 0 .. Len(stack)
  BY DEF MaskInv, MaskParts
<1>5. MaskParts(stack', mask', psigPend', stuck') /\ stack' \in Seq(Frame) /\ mask' \in SUBSET Sig
  BY <1>1, <1>2, <1>3, <1>4, UnwindKeeps
<1>6. TypeOK'
  BY <1>1, <1>3, <1>5 DEF TypeOK
<1>7. QED  BY <1>5, <1>6, PartsMakeInv

LEMMA AssignSigKeepsMask ==
    ASSUME MaskInv, NEW s \in Sig, NEW v \in Value, AssignSig(s, v)
    PROVE  MaskInv'
<1>1. TypeOK /\ stack \in Seq(Frame) /\ mask \in SUBSET Sig /\ SigSize \in Nat \ {0}
  BY SignalAssumption DEF MaskInv, TypeOK
<1> DEFINE x == SetSig(s, v, mask)
           r == <<x>> \o stack
<1>2. /\ mask' = mask \cup {s} /\ sigPending' = 0
      /\ stack' = (IF sigPending # 0 THEN <<Loop(1)>> ELSE <<>>) \o <<x>> \o stack
      /\ UNCHANGED <<kernel, psigPtr, psigPend, process, stuck, sent>>
  BY DEF AssignSig
<1>3. x \in Frame /\ x.at = "setsig" /\ x.sig = s /\ x.save = mask
  BY <1>1 DEF SetSig, Frame
<1>4. Enters(x, mask, mask')
  BY <1>2, <1>3 DEF Enters
<1>5. MaskParts(stack, mask, psigPend, stuck)
  BY DEF MaskInv, MaskParts
<1>6. r \in Seq(Frame) /\ MaskParts(r, mask', psigPend, stuck)
  BY <1>1, <1>3, <1>4, <1>5, EnterKeeps, Pushed
<1>7. stack' = IF sigPending # 0 THEN <<Loop(1)>> \o r ELSE r
  BY <1>1, <1>2, <1>3, AssignedStack DEF r
<1> HIDE DEF x, r
<1>8. MaskParts(stack', mask', psigPend, stuck) /\ stack' \in Seq(Frame)
  <2>1. Loop(1) \in Frame /\ Enters(Loop(1), mask', mask') /\ Loop(1).at # "handler"
    BY <1>1, LoopFrame DEF Enters
  <2>2. QED  BY <1>6, <1>7, <2>1, EnterKeeps, Pushed
<1>9. TypeOK'
  <2>1. mask' \in SUBSET Sig
    BY <1>1, <1>2
  <2>2. QED  BY <1>1, <1>2, <1>8, <2>1 DEF TypeOK
<1>10. QED  BY <1>2, <1>8, <1>9, PartsMakeInv

LEMMA InstallSigKeepsMask ==
    ASSUME MaskInv, InstallSig
    PROVE  MaskInv'
<1>1. TypeOK /\ stack \in Seq(Frame) /\ stack # <<>> /\ mask \in SUBSET Sig
  BY DEF MaskInv, TypeOK, InstallSig, Top
<1>2. PICK f : f = Head(stack)
  OBVIOUS
<1>3. /\ stack' = Tail(stack) /\ mask' = Restored(f, mask)
      /\ psigPtr' = [psigPtr EXCEPT ![f.sig] = f.value]
      /\ kernel' = IF f.value = "IGNORE" THEN kernel \ {f.sig} ELSE kernel
      /\ UNCHANGED <<psigPend, sigPending, process, stuck, sent>>
  BY <1>2 DEF InstallSig
<1>4. f.sig \in Sig /\ f.value \in Value
  <2>1. f.at = "setsig" /\ f \in Frame
    BY <1>1, <1>2, TopFrame DEF InstallSig, Top
  <2>2. QED  BY <2>1, FrameFacts
<1>5. MaskParts(stack, mask, psigPend, stuck)
  BY DEF MaskInv, MaskParts
<1>6. MaskParts(stack', mask', psigPend', stuck') /\ stack' \in Seq(Frame) /\ mask' \in SUBSET Sig
  BY <1>1, <1>2, <1>3, <1>5, PopKeeps
<1>7. psigPtr' \in [Sig -> Value] /\ kernel' \in SUBSET Sig
  BY <1>1, <1>3, <1>4 DEF TypeOK
<1>8. TypeOK'
  BY <1>1, <1>3, <1>6, <1>7 DEF TypeOK
<1>9. QED  BY <1>6, <1>8, PartsMakeInv

LEMMA ForkChildKeepsMask ==
    ASSUME MaskInv, ForkChild
    PROVE  MaskInv'
<1>1. TypeOK /\ stack \in Seq(Frame)
  BY DEF MaskInv, TypeOK
<1>2. /\ psigPend' = [s \in Sig |-> 0] /\ sigPending' = 0 /\ kernel' = {}
      /\ UNCHANGED <<mask, psigPtr, stack, process, stuck, sent>>
  BY DEF ForkChild
<1>3. Handled(stack, psigPend')
  <2>1. ASSUME NEW i \in 1 .. Len(stack), stack[i].at = "handler" PROVE psigPend'[stack[i].sig] = 0
    <3>1. stack[i].sig \in Sig
      BY <1>1, <2>1, Element, FrameFacts
    <3>2. QED  BY <1>2, <3>1
  <2>2. QED  BY <2>1 DEF Handled
<1>4. MaskParts(stack', mask', psigPend', stuck')
  BY <1>2, <1>3 DEF MaskInv, MaskParts
<1>5. TypeOK'
  BY <1>1, <1>2 DEF TypeOK
<1>6. QED  BY <1>4, <1>5, PartsMakeInv

LEMMA InitMask == Init => MaskInv
<1>1. SUFFICES ASSUME Init PROVE MaskInv
  OBVIOUS
<1>2. stack = <<>> /\ mask = {}
  BY <1>1 DEF Init
<1>3. Len(stack) = 0 /\ stack \in Seq(Frame)
  BY <1>2, EmptySeq
<1>T. TypeOK
  <2>1. psigPtr \in [Sig -> Value]
    BY <1>1 DEF Init, Value
  <2>2. psigPend \in [Sig -> Nat]
    BY <1>1 DEF Init
  <2>3. QED  BY <1>1, <1>2, <1>3, <2>1, <2>2 DEF Init, TypeOK
<1>4. Blocked(stack, mask) /\ Handled(stack, psigPend) /\ Once(stack)
  BY <1>3 DEF Blocked, Handled, Once
<1>5. Restores(stack, mask, stuck)
  <2>1. SUFFICES ASSUME NEW k \in 0 .. 0, NEW s, Blocks(stack, k, 0, mask, s) PROVE FALSE
    BY <1>3, RestoresBlocks
  <2>2. QED  BY <1>2, <2>1 DEF Blocks
<1>6. QED  BY <1>T, <1>4, <1>5 DEF MaskInv

LEMMA StepMask == MaskInv /\ [Next]_vars => MaskInv'
<1>1. SUFFICES ASSUME MaskInv, [Next]_vars PROVE MaskInv'
  OBVIOUS
<1>2. ASSUME NEW s \in Sig, Arrive(s) PROVE MaskInv'
  BY <1>1, <1>2, ArriveKeepsMask
<1>3. ASSUME NEW s \in Sig, Deliver(s) PROVE MaskInv'
  BY <1>1, <1>3, DeliverKeepsMask
<1>4. ASSUME NEW s \in Sig, NEW v \in Value, AssignSig(s, v) PROVE MaskInv'
  BY <1>1, <1>4, AssignSigKeepsMask
<1>5. CASE AsyncCheck
  BY <1>1, <1>5, AsyncCheckKeepsMask
<1>6. CASE SkipSig
  BY <1>1, <1>6, SkipSigKeepsMask
<1>7. CASE CallHandler
  BY <1>1, <1>7, CallHandlerKeepsMask
<1>8. CASE Despatched
  BY <1>1, <1>8, DespatchedKeepsMask
<1>9. CASE HandlerReturns
  BY <1>1, <1>9, HandlerReturnsKeepsMask
<1>10. CASE HandlerDies
  BY <1>1, <1>10, HandlerDiesKeepsMask
<1>11. CASE InstallSig
  BY <1>1, <1>11, InstallSigKeepsMask
<1>12. CASE ForkChild
  BY <1>1, <1>12, ForkChildKeepsMask
<1>13. CASE UNCHANGED vars
  BY <1>1, <1>13 DEF vars, MaskInv, TypeOK
<1>14. QED
  BY <1>1, <1>2, <1>3, <1>4, <1>5, <1>6, <1>7, <1>8, <1>9, <1>10, <1>11, <1>12, <1>13
  DEF Next, Value

\* However loops, handlers and assignments to %SIG nest and are left, each has
\* its signal blocked and will put back what it found: the inductive invariant.
THEOREM Invariance == Spec => []MaskInv
<1>1. QED  BY InitMask, StepMask, PTL DEF Spec

\* The handler of a signal is not entered for that signal before it is done.
THEOREM HandlersAreNotReentered == Spec => []HandlerNotReentered
<1>1. MaskInv => HandlerNotReentered
  <2>1. SUFFICES ASSUME MaskInv PROVE HandlerNotReentered
    OBVIOUS
  <2>2. DOMAIN stack = 1 .. Len(stack)
    BY <2>1, LenProperties DEF MaskInv, TypeOK
  <2>3. QED  BY <2>1, <2>2 DEF MaskInv, Once, HandlerNotReentered
<1>2. QED  BY <1>1, Invariance, PTL

\* When everything is left, nothing stays blocked but the signals whose C
\* handlers were left by an exception.
THEOREM MaskIsRestored == Spec => []MaskRestored
<1>1. MaskInv => MaskRestored
  <2>1. SUFFICES ASSUME MaskInv, stack = <<>>, NEW s \in mask PROVE s \in stuck
    BY DEF MaskRestored
  <2>2. Len(stack) = 0 /\ 0 \in 0 .. 0
    BY <2>1, EmptySeq
  <2>3. Furthest(stack, 0, 0) /\ Blocks(stack, 0, 0, mask, s)
    BY <2>1 DEF Furthest, Blocks
  <2>4. QED  BY <2>1, <2>2, <2>3, RestoresBlocks DEF MaskInv
<1>2. QED  BY <1>1, Invariance, PTL

-----------------------------------------------------------------------------
\* What NoticeInv says of a stack, counts and their sum, frame by frame.

NoticeParts(q, p, n) ==
    /\ Passed(q, p, n)
    /\ MayDie(q, p, n)
    /\ AllNoticed(q, p, n)
    /\ Assigns(q, p)

\* The flag is set, or nothing is pending.
LEMMA FlagNotices ==
    ASSUME NEW q, NEW p, NEW n, \A s \in Sig : p[s] > 0 => n > 0, Assigns(q, p)
    PROVE  NoticeParts(q, p, n)
BY DEF NoticeParts, Passed, MayDie, AllNoticed, Noticed

\* A loop that begins looks at everything.
LEMMA LoopNotices ==
    ASSUME NEW q \in Seq(Frame), NEW p, NEW n, SigSize \in Nat \ {0},
           \A i \in 2 .. Len(q) : q[i].at = "setsig" => Taken(q, p, i)
    PROVE  NoticeParts(<<Loop(1)>> \o q, p, n)
<1> DEFINE r == <<Loop(1)>> \o q
<1>1. /\ Len(q) \in Nat /\ Len(r) = Len(q) + 1 /\ r[1].at = "loop" /\ r[1].sig = 1
      /\ \A i \in 1 .. Len(q) : r[i + 1] = q[i]
      /\ \A i \in 1 .. Len(q) + 1 : i # 1 => i - 1 \in 1 .. Len(q) /\ r[i] = q[i - 1]
  <2>1. /\ Len(q) \in Nat /\ Len(r) = Len(q) + 1 /\ r[1] = Loop(1)
        /\ \A i \in 1 .. Len(q) : r[i + 1] = q[i]
        /\ \A i \in 1 .. Len(q) + 1 : i # 1 => i - 1 \in 1 .. Len(q) /\ r[i] = q[i - 1]
    BY LoopFrame, Pushed
  <2> HIDE DEF r
  <2>2. QED  BY <2>1, LoopFrame
<1> HIDE DEF r
<1>2. \A s \in Sig : 1 <= s
  BY DEF Sig
<1>3. \A i \in 2 .. Len(r) + 1 : \A s \in Sig : Noticed(r, p, n, s, i)
  <2>1. \A i \in 2 .. Len(r) + 1 : 1 \in 1 .. i - 1
    BY <1>1
  <2>2. QED  BY <1>1, <1>2, <2>1 DEF Noticed
<1>4. Passed(r, p, n)
  <2>1. ASSUME NEW i \in 1 .. Len(r), NEW s \in Sig, s < r[i].sig PROVE Noticed(r, p, n, s, i)
    <3>1. i # 1
      <4>1. s \in Int /\ ~ (s < 1)
        BY <1>2 DEF Sig
      <4>2. QED  BY <1>1, <2>1, <4>1
    <3>2. i \in 2 .. Len(r) + 1
      BY <1>1, <3>1
    <3>3. QED  BY <1>3, <3>2
  <2>2. QED  BY <2>1 DEF Passed
<1>5. MayDie(r, p, n)
  <2>1. ASSUME NEW i \in 1 .. Len(r), r[i].at = "handler", NEW s \in Sig PROVE Noticed(r, p, n, s, i)
    <3>1. i \in 2 .. Len(r) + 1
      BY <1>1, <2>1
    <3>2. QED  BY <1>3, <3>1
  <2>2. QED  BY <2>1 DEF MayDie
<1>6. AllNoticed(r, p, n)
  <2>1. Len(r) + 1 \in 2 .. Len(r) + 1
    BY <1>1
  <2>2. QED  BY <1>3, <2>1 DEF AllNoticed
<1>7. Assigns(r, p)
  <2>1. SUFFICES ASSUME NEW i \in 1 .. Len(r), r[i].at = "setsig", p[r[i].sig] > 0
                 PROVE  \E j \in 1 .. Len(r) : j >= i - 1 /\ r[j].at = "loop" /\ r[j].sig <= r[i].sig
    BY DEF Assigns, Taken
  <2>2. i # 1 /\ i - 1 \in 1 .. Len(q) /\ r[i] = q[i - 1]
    BY <1>1, <2>1
  <2>3. CASE i = 2
    <3>1. q[1].sig \in Sig
      BY <2>1, <2>2, <2>3, Element, FrameFacts
    <3>2. QED  BY <1>1, <1>2, <2>2, <2>3, <3>1
  <2>4. CASE i # 2
    <3>1. i - 1 \in 2 .. Len(q)
      BY <2>2, <2>4
    <3>2. PICK j \in 1 .. Len(q) : j >= i - 1 - 1 /\ q[j].at = "loop" /\ q[j].sig <= q[i - 1].sig
      BY <2>1, <2>2, <3>1 DEF Taken
    <3>3. j + 1 \in 1 .. Len(r) /\ j + 1 >= i - 1 /\ r[j + 1] = q[j]
      BY <1>1, <2>2, <3>2
    <3>4. QED  BY <2>2, <3>2, <3>3
  <2>5. QED  BY <2>3, <2>4
<1>8. QED  BY <1>4, <1>5, <1>6, <1>7 DEF NoticeParts, r

\* A handler or an assignment is entered.
LEMMA EnterNotices ==
    ASSUME NEW q \in Seq(Frame), NEW x \in Frame, NEW p, NEW n,
           NoticeParts(q, p, n), x.at # "loop",
           x.at = "handler" /\ x.sig \in Dying => \A s \in Sig : p[s] > 0 => n > 0,
           x.at = "setsig" /\ p[x.sig] > 0 => \E j \in 1 .. Len(q) : q[j].at = "loop" /\ q[j].sig <= x.sig
    PROVE  NoticeParts(<<x>> \o q, p, n)
<1> DEFINE r == <<x>> \o q
<1>1. /\ Len(q) \in Nat /\ Len(r) = Len(q) + 1 /\ r[1] = x
      /\ \A i \in 1 .. Len(q) : r[i + 1] = q[i]
      /\ \A i \in 1 .. Len(q) + 1 : i # 1 => i - 1 \in 1 .. Len(q) /\ r[i] = q[i - 1]
  BY Pushed
<1> HIDE DEF r
<1>2. ASSUME NEW i \in 2 .. Len(q) + 2, NEW s \in Sig, Noticed(q, p, n, s, i - 1)
      PROVE  Noticed(r, p, n, s, i)
  <2>1. SUFFICES ASSUME p[s] > 0, ~ (n > 0)
                 PROVE  \E j \in 1 .. i - 1 : r[j].at = "loop" /\ r[j].sig <= s
    BY DEF Noticed
  <2>2. PICK j \in 1 .. i - 1 - 1 : q[j].at = "loop" /\ q[j].sig <= s
    BY <1>2, <2>1 DEF Noticed
  <2>3. j + 1 \in 1 .. i - 1 /\ r[j + 1] = q[j]
    BY <1>1
  <2>4. QED  BY <2>2, <2>3
<1>3. Passed(r, p, n)
  <2>1. ASSUME NEW i \in 1 .. Len(r), r[i].at = "loop", NEW s \in Sig, s < r[i].sig
        PROVE  Noticed(r, p, n, s, i)
    <3>1. i - 1 \in 1 .. Len(q) /\ r[i] = q[i - 1] /\ i \in 2 .. Len(q) + 2
      BY <1>1, <2>1
    <3>2. Noticed(q, p, n, s, i - 1)
      BY <2>1, <3>1 DEF NoticeParts, Passed
    <3>3. QED  BY <1>2, <3>1, <3>2
  <2>2. QED  BY <2>1 DEF Passed
<1>4. MayDie(r, p, n)
  <2>1. ASSUME NEW i \in 1 .. Len(r), r[i].at = "handler", r[i].sig \in Dying, NEW s \in Sig
        PROVE  Noticed(r, p, n, s, i)
    <3>1. CASE i = 1
      BY <1>1, <2>1, <3>1 DEF Noticed
    <3>2. CASE i # 1
      <4>1. i - 1 \in 1 .. Len(q) /\ r[i] = q[i - 1] /\ i \in 2 .. Len(q) + 2
        BY <1>1, <3>2
      <4>2. Noticed(q, p, n, s, i - 1)
        BY <2>1, <4>1 DEF NoticeParts, MayDie
      <4>3. QED  BY <1>2, <4>1, <4>2
    <3>3. QED  BY <3>1, <3>2
  <2>2. QED  BY <2>1 DEF MayDie
<1>5. AllNoticed(r, p, n)
  <2>1. ASSUME NEW s \in Sig PROVE Noticed(r, p, n, s, Len(r) + 1)
    <3>1. Len(r) + 1 \in 2 .. Len(q) + 2 /\ Len(r) + 1 - 1 = Len(q) + 1
      BY <1>1
    <3>2. Noticed(q, p, n, s, Len(q) + 1)
      BY DEF NoticeParts, AllNoticed
    <3>3. QED  BY <1>2, <3>1, <3>2
  <2>2. QED  BY <2>1 DEF AllNoticed
<1>6. Assigns(r, p)
  <2>1. SUFFICES ASSUME NEW i \in 1 .. Len(r), r[i].at = "setsig", p[r[i].sig] > 0
                 PROVE  \E j \in 1 .. Len(r) : j >= i - 1 /\ r[j].at = "loop" /\ r[j].sig <= r[i].sig
    BY DEF Assigns, Taken
  <2>2. PICK j \in 1 .. Len(q) : j >= i - 1 - 1 /\ q[j].at = "loop" /\ q[j].sig <= r[i].sig
    <3>1. CASE i = 1
      BY <1>1, <2>1, <3>1
    <3>2. CASE i # 1
      <4>1. i - 1 \in 1 .. Len(q) /\ r[i] = q[i - 1]
        BY <1>1, <3>2
      <4>2. QED  BY <2>1, <4>1 DEF NoticeParts, Assigns, Taken
    <3>3. QED  BY <3>1, <3>2
  <2>3. j + 1 \in 1 .. Len(r) /\ j + 1 >= i - 1 /\ r[j + 1] = q[j]
    BY <1>1, <2>2
  <2>4. QED  BY <2>2, <2>3
<1>7. QED  BY <1>3, <1>4, <1>5, <1>6 DEF NoticeParts, r

\* A loop has looked at z, of which nothing is pending any more.
LEMMA MoveNotices ==
    ASSUME NEW q \in Seq(Frame), NEW r \in Seq(Frame), q # <<>>, NEW p, NEW p2, NEW n, NEW z \in Sig,
           Moves(q, r), q[1].sig = z, r[1].sig = z + 1, SigSize \in Nat,
           \A s \in Sig : p2[s] > 0 => p[s] > 0 /\ s # z,
           NoticeParts(q, p, n)
    PROVE  NoticeParts(r, p2, n)
<1>1. Len(q) \in Nat \ {0} /\ Len(r) = Len(q) /\ r[1].at = "loop" /\ q[1].at = "loop" /\ z \in Int
  BY TopFrame DEF Moves, Sig
<1>2. \A i \in 1 .. Len(q) : r[i].at = q[i].at /\ (i # 1 => r[i] = q[i])
  BY <1>1 DEF Moves
<1>3. ASSUME NEW s \in Sig, p2[s] > 0, NEW j \in 1 .. Len(q), q[j].at = "loop", q[j].sig <= s
      PROVE  r[j].at = "loop" /\ r[j].sig <= s
  <2>1. CASE j = 1
    <3>1. z <= s /\ s # z /\ s \in Int
      BY <1>3, <2>1 DEF Sig
    <3>2. QED  BY <1>1, <2>1, <3>1
  <2>2. CASE j # 1
    BY <1>2, <1>3, <2>2
  <2>3. QED  BY <2>1, <2>2
<1>4. ASSUME NEW i \in 1 .. Len(q) + 1, NEW s \in Sig, Noticed(q, p, n, s, i)
      PROVE  Noticed(r, p2, n, s, i)
  <2>1. SUFFICES ASSUME p2[s] > 0, ~ (n > 0)
                 PROVE  \E j \in 1 .. i - 1 : r[j].at = "loop" /\ r[j].sig <= s
    BY DEF Noticed
  <2>2. PICK j \in 1 .. i - 1 : q[j].at = "loop" /\ q[j].sig <= s
    BY <1>4, <2>1 DEF Noticed
  <2>3. j \in 1 .. Len(q)
    BY <1>1
  <2>4. QED  BY <1>3, <2>1, <2>2, <2>3
<1>5. Passed(r, p2, n)
  <2>1. ASSUME NEW i \in 1 .. Len(q), r[i].at = "loop", NEW s \in Sig, s < r[i].sig
        PROVE  Noticed(r, p2, n, s, i)
    <3>1. i \in 1 .. Len(q) + 1
      BY <1>1
    <3>2. CASE i = 1 /\ s = z
      BY <3>2 DEF Noticed
    <3>3. CASE i = 1 /\ s # z
      <4>1. s \in Int /\ s < z
        BY <1>1, <2>1, <3>3 DEF Sig
      <4>2. Noticed(q, p, n, s, i)
        BY <1>1, <3>3, <4>1 DEF NoticeParts, Passed
      <4>3. QED  BY <1>4, <3>1, <4>2
    <3>4. CASE i # 1
      <4>1. Noticed(q, p, n, s, i)
        BY <1>2, <2>1, <3>4 DEF NoticeParts, Passed
      <4>2. QED  BY <1>4, <3>1, <4>1
    <3>5. QED  BY <3>2, <3>3, <3>4
  <2>2. QED  BY <1>1, <2>1 DEF Passed
<1>6. MayDie(r, p2, n)
  <2>1. ASSUME NEW i \in 1 .. Len(q), r[i].at = "handler", r[i].sig \in Dying, NEW s \in Sig
        PROVE  Noticed(r, p2, n, s, i)
    <3>1. i \in 1 .. Len(q) + 1 /\ r[i] = q[i]
      BY <1>1, <1>2, <2>1
    <3>2. Noticed(q, p, n, s, i)
      BY <2>1, <3>1 DEF NoticeParts, MayDie
    <3>3. QED  BY <1>4, <3>1, <3>2
  <2>2. QED  BY <1>1, <2>1 DEF MayDie
<1>7. AllNoticed(r, p2, n)
  <2>1. Len(q) + 1 \in 1 .. Len(q) + 1
    BY <1>1
  <2>2. QED  BY <1>1, <1>4, <2>1 DEF NoticeParts, AllNoticed
<1>8. Assigns(r, p2)
  <2>1. SUFFICES ASSUME NEW i \in 1 .. Len(q), r[i].at = "setsig", p2[r[i].sig] > 0
                 PROVE  \E j \in 1 .. Len(q) : j >= i - 1 /\ r[j].at = "loop" /\ r[j].sig <= r[i].sig
    BY <1>1 DEF Assigns, Taken
  <2>2. r[i] = q[i]
    BY <1>1, <1>2, <2>1
  <2>3. r[i].sig \in Sig
    BY <2>1, <2>2, Element, FrameFacts
  <2>4. PICK j \in 1 .. Len(q) : j >= i - 1 /\ q[j].at = "loop" /\ q[j].sig <= r[i].sig
    BY <2>1, <2>2, <2>3 DEF NoticeParts, Assigns, Taken
  <2>5. QED  BY <1>3, <2>1, <2>3, <2>4
<1>9. QED  BY <1>5, <1>6, <1>7, <1>8 DEF NoticeParts

\* The top frame is left, which awaited nothing.
LEMMA PopNotices ==
    ASSUME NEW q \in Seq(Frame), q # <<>>, NEW p, NEW n,
           q[1].at = "loop" => \A s \in Sig : ~ (q[1].sig <= s),
           NoticeParts(q, p, n)
    PROVE  NoticeParts(Tail(q), p, n)
<1> DEFINE r == Tail(q)
<1>1. Len(q) \in Nat \ {0} /\ 1 \in 0 .. Len(q) /\ r = Without(q, 1)
  BY TopFrame
<1>2. /\ Len(r) = Len(q) - 1
      /\ \A i \in 1 .. Len(q) - 1 : 1 + i \in 1 .. Len(q) /\ r[i] = q[1 + i]
      /\ \A i \in 1 .. Len(q) : i > 1 => i - 1 \in 1 .. Len(q) - 1 /\ r[i - 1] = q[i]
  <2>1. /\ Len(Without(q, 1)) = Len(q) - 1
        /\ \A i \in 1 .. Len(q) - 1 : 1 + i \in 1 .. Len(q) /\ Without(q, 1)[i] = q[1 + i]
        /\ \A i \in 1 .. Len(q) : i > 1 => i - 1 \in 1 .. Len(q) - 1 /\ Without(q, 1)[i - 1] = q[i]
    BY <1>1, Dropped
  <2> HIDE DEF r
  <2>2. QED  BY <1>1, <2>1
<1> HIDE DEF r
<1>3. ASSUME NEW i \in 1 .. Len(q), NEW s \in Sig, Noticed(q, p, n, s, 1 + i)
      PROVE  Noticed(r, p, n, s, i)
  <2>1. SUFFICES ASSUME p[s] > 0, ~ (n > 0)
                 PROVE  \E j \in 1 .. i - 1 : r[j].at = "loop" /\ r[j].sig <= s
    BY DEF Noticed
  <2>2. PICK j \in 1 .. 1 + i - 1 : q[j].at = "loop" /\ q[j].sig <= s
    BY <1>3, <2>1 DEF Noticed
  <2>3. j # 1 /\ j \in 1 .. Len(q) /\ j > 1 /\ j - 1 \in 1 .. i - 1
    BY <1>1, <2>2
  <2>4. r[j - 1] = q[j]
    BY <1>2, <2>3
  <2>5. QED  BY <2>2, <2>3, <2>4
<1>4. ASSUME NEW i \in 1 .. Len(r)
      PROVE  i \in 1 .. Len(q) /\ 1 + i \in 1 .. Len(q) /\ r[i] = q[1 + i]
  BY <1>1, <1>2
<1>5. Passed(r, p, n)
  <2>1. ASSUME NEW i \in 1 .. Len(r), r[i].at = "loop", NEW s \in Sig, s < r[i].sig
        PROVE  Noticed(r, p, n, s, i)
    <3>1. Noticed(q, p, n, s, 1 + i)
      BY <1>4, <2>1 DEF NoticeParts, Passed
    <3>2. QED  BY <1>3, <1>4, <3>1
  <2>2. QED  BY <2>1 DEF Passed
<1>6. MayDie(r, p, n)
  <2>1. ASSUME NEW i \in 1 .. Len(r), r[i].at = "handler", r[i].sig \in Dying, NEW s \in Sig
        PROVE  Noticed(r, p, n, s, i)
    <3>1. Noticed(q, p, n, s, 1 + i)
      BY <1>4, <2>1 DEF NoticeParts, MayDie
    <3>2. QED  BY <1>3, <1>4, <3>1
  <2>2. QED  BY <2>1 DEF MayDie
<1>7. AllNoticed(r, p, n)
  <2>1. Len(r) + 1 = Len(q) /\ Len(q) \in 1 .. Len(q) /\ 1 + Len(q) = Len(q) + 1
    BY <1>1, <1>2
  <2>2. QED  BY <1>3, <2>1 DEF NoticeParts, AllNoticed
<1>8. Assigns(r, p)
  <2>1. SUFFICES ASSUME NEW i \in 1 .. Len(r), r[i].at = "setsig", p[r[i].sig] > 0
                 PROVE  \E j \in 1 .. Len(r) : j >= i - 1 /\ r[j].at = "loop" /\ r[j].sig <= r[i].sig
    BY DEF Assigns, Taken
  <2>2. r[i].sig \in Sig
    BY <1>4, <2>1, Element, FrameFacts
  <2>3. PICK j \in 1 .. Len(q) : j >= 1 + i - 1 /\ q[j].at = "loop" /\ q[j].sig <= r[i].sig
    BY <1>4, <2>1 DEF NoticeParts, Assigns, Taken
  <2>4. j # 1
    BY <2>2, <2>3
  <2>5. j - 1 \in 1 .. Len(r) /\ j - 1 >= i - 1 /\ r[j - 1] = q[j]
    BY <1>1, <1>2, <2>3, <2>4
  <2>6. QED  BY <2>3, <2>5
<1>9. QED  BY <1>5, <1>6, <1>7, <1>8 DEF NoticeParts, r

\* Frames are left up to a handler, or all of them.
LEMMA LeaveAssigns ==
    ASSUME NEW q \in Seq(Frame), NEW n \in 0 .. Len(q), NEW p, Assigns(q, p),
           Without(q, n) # <<>> => Without(q, n)[1].at = "handler"
    PROVE  Assigns(Without(q, n), p)
<1> DEFINE r == Without(q, n)
<1>0. n \in Nat
  OBVIOUS
<1>1. /\ Len(q) \in Nat /\ Len(r) = Len(q) - n /\ r \in Seq(Frame)
      /\ \A i \in 1 .. Len(q) - n : n + i \in 1 .. Len(q) /\ r[i] = q[n + i]
      /\ \A i \in 1 .. Len(q) : i > n => i - n \in 1 .. Len(q) - n /\ r[i - n] = q[i]
  BY Dropped
<1>2. r # <<>> => r[1].at = "handler"
  OBVIOUS
<1> HIDE DEF r
<1>3. SUFFICES ASSUME NEW i \in 1 .. Len(r), r[i].at = "setsig", p[r[i].sig] > 0
               PROVE  \E j \in 1 .. Len(r) : j >= i - 1 /\ r[j].at = "loop" /\ r[j].sig <= r[i].sig
  BY DEF Assigns, Taken, r
<1>4. i # 1
  BY <1>1, <1>2, <1>3, EmptySeq
<1>5. n + i \in 1 .. Len(q) /\ r[i] = q[n + i]
  BY <1>1
<1>6. PICK j \in 1 .. Len(q) : j >= n + i - 1 /\ q[j].at = "loop" /\ q[j].sig <= r[i].sig
  <2>1. q[n + i].at = "setsig" /\ p[q[n + i].sig] > 0
    BY <1>3, <1>5
  <2>2. Taken(q, p, n + i)
    BY <1>5, <2>1 DEF Assigns
  <2>3. QED  BY <1>5, <2>1, <2>2 DEF Taken
<1>7. j > n /\ j - n \in 1 .. Len(r) /\ j - n >= i - 1
  BY <1>0, <1>1, <1>4, <1>6
<1>8. r[j - n] = q[j]
  BY <1>1, <1>7
<1>9. QED  BY <1>6, <1>7, <1>8

-----------------------------------------------------------------------------
\* Every action keeps NoticeInv, if only the handler of the last signal dies.

OnlyLastDies == Dying \subseteq {SigSize - 1}

LEMMA NoticeFacts ==
    ASSUME MaskInv, NoticeInv
    PROVE  /\ NoticeParts(stack, psigPend, sigPending) /\ Assigns(stack, psigPend)
           /\ stack \in Seq(Frame) /\ SigSize \in Nat \ {0}
           /\ psigPend \in [Sig -> Nat] /\ sigPending \in Nat
<1>1. TypeOK /\ SigSize \in Nat \ {0}
  BY SignalAssumption DEF MaskInv
<1>2. stack \in Seq(Frame) /\ psigPend \in [Sig -> Nat] /\ sigPending \in Nat
  BY <1>1 DEF TypeOK
<1>3. QED  BY <1>1, <1>2 DEF NoticeInv, NoticeParts

LEMMA PartsMakeNotice ==
    ASSUME NoticeParts(stack', psigPend', sigPending')
    PROVE  NoticeInv'
BY DEF NoticeInv, NoticeParts

\* The flag is set; a signal that is not blocked is not being assigned.
LEMMA CountKeepsNotice ==
    ASSUME MaskInv, NoticeInv, NEW s \in Sig \ mask, Count(s)
    PROVE  NoticeInv'
<1>1. /\ Assigns(stack, psigPend) /\ stack \in Seq(Frame)
      /\ psigPend \in [Sig -> Nat] /\ sigPending \in Nat
  BY NoticeFacts
<1>2. /\ psigPend' = [psigPend EXCEPT ![s] = @ + 1]
      /\ sigPending' = sigPending + 1
  BY DEF Count
<1>3. sigPending' > 0
  BY <1>1, <1>2
<1>4. Assigns(stack, psigPend')
  <2>1. ASSUME NEW i \in 1 .. Len(stack), stack[i].at = "setsig"
        PROVE  psigPend'[stack[i].sig] = psigPend[stack[i].sig]
    <3>1. stack[i].sig \in mask /\ stack[i].sig # s
      BY <2>1 DEF MaskInv, Blocked
    <3>2. stack[i].sig \in Sig
      BY <1>1, <2>1, Element, FrameFacts
    <3>3. QED  BY <1>1, <1>2, <3>1, <3>2
  <2>2. QED  BY <1>1, <2>1 DEF Assigns, Taken
<1>5. Assigns(stack', psigPend')
  <2>1. CASE stack' = stack
    BY <1>4, <2>1
  <2>2. CASE \E n \in 0 .. Len(stack) : UnwindFrom(n, mask \cup {s})
    <3>1. PICK n \in 0 .. Len(stack) : UnwindFrom(n, mask \cup {s})
      BY <2>2
    <3>2. stack' = Without(stack, n) /\ (stack' # <<>> => Head(stack').at = "handler")
      BY <3>1 DEF UnwindFrom, Without
    <3>3. stack' # <<>> => stack'[1].at = "handler"
      <4>1. Without(stack, n) \in Seq(Frame)
        BY <1>1, Dropped
      <4>2. QED  BY <3>2, <4>1, TopFrame
    <3>4. QED  BY <1>1, <1>4, <3>2, <3>3, LeaveAssigns
  <2>3. QED  BY <2>1, <2>2 DEF Count
<1>6. QED  BY <1>3, <1>5, FlagNotices, PartsMakeNotice

LEMMA ArriveKeepsNotice ==
    ASSUME MaskInv, NoticeInv, NEW s \in Sig, Arrive(s)
    PROVE  NoticeInv'
<1>1. CASE s \in mask
  <2>1. UNCHANGED <<psigPend, sigPending, stack>>
    BY <1>1 DEF Arrive
  <2>2. QED  BY <2>1, NoticeFacts, PartsMakeNotice
<1>2. CASE s \notin mask
  BY <1>2, CountKeepsNotice DEF Arrive
<1>3. QED  BY <1>1, <1>2

LEMMA DeliverKeepsNotice ==
    ASSUME MaskInv, NoticeInv, NEW s \in Sig, Deliver(s)
    PROVE  NoticeInv'
<1>1. CASE psigPtr[s] \notin Code
  <2>1. UNCHANGED <<psigPend, sigPending, stack>>
    BY <1>1 DEF Deliver
  <2>2. QED  BY <2>1, NoticeFacts, PartsMakeNotice
<1>2. CASE psigPtr[s] \in Code
  <2>1. s \in Sig \ mask /\ Count(s)
    BY <1>2 DEF Deliver
  <2>2. QED  BY <2>1, CountKeepsNotice
<1>3. QED  BY <1>1, <1>2

LEMMA AsyncCheckKeepsNotice ==
    ASSUME MaskInv, NoticeInv, AsyncCheck
    PROVE  NoticeInv'
<1>1. stack' = <<Loop(1)>> \o stack /\ psigPend' = psigPend
  BY DEF AsyncCheck
<1>2. \A i \in 2 .. Len(stack) : stack[i].at = "setsig" => Taken(stack, psigPend, i)
  <2>1. \A i \in 2 .. Len(stack) : i \in 1 .. Len(stack)
    BY LenProperties, NoticeFacts
  <2>2. QED  BY <2>1, NoticeFacts DEF Assigns
<1>3. NoticeParts(<<Loop(1)>> \o stack, psigPend, sigPending')
  BY <1>2, NoticeFacts, LoopNotices
<1>4. QED  BY <1>1, <1>3, PartsMakeNotice

\* The loop goes on past z; what was pending of z is counted off.
LEMMA NextNotices ==
    ASSUME MaskInv, NoticeInv, Top("loop"), NEW z \in Sig, z = Head(stack).sig,
           NEW p, \A s \in Sig : p[s] > 0 => psigPend[s] > 0 /\ s # z
    PROVE  NextSig \in Seq(Frame) /\ NoticeParts(NextSig, p, sigPending)
<1>1. /\ NextSig \in Seq(Frame) /\ Moves(stack, NextSig)
      /\ stack # <<>> /\ Head(stack) = stack[1]
  BY NextKeeps
<1>2. stack[1].at = "loop" /\ stack[1].sig = z
  BY <1>1 DEF Top
<1>3. stack \in Seq(Frame) /\ SigSize \in Nat /\ NoticeParts(stack, psigPend, sigPending)
  BY NoticeFacts
<1>4. NextSig[1].sig = z + 1
  BY <1>1, <1>2, <1>3, Advanced DEF NextSig
<1>5. QED  BY <1>1, <1>2, <1>3, <1>4, MoveNotices

LEMMA SkipSigKeepsNotice ==
    ASSUME MaskInv, NoticeInv, SkipSig
    PROVE  NoticeInv'
<1>1. PICK z \in Sig : z = Head(stack).sig
  BY DEF SkipSig
<1>2. /\ stack' = NextSig /\ UNCHANGED <<psigPend, sigPending>>
      /\ psigPend[z] = 0 /\ Top("loop")
  BY <1>1 DEF SkipSig
<1>3. \A s \in Sig : psigPend[s] > 0 => psigPend[s] > 0 /\ s # z
  BY <1>2
<1>4. NoticeParts(NextSig, psigPend, sigPending)
  BY <1>1, <1>2, <1>3, NextNotices
<1>5. QED  BY <1>2, <1>4, PartsMakeNotice

LEMMA CallHandlerKeepsNotice ==
    ASSUME MaskInv, NoticeInv, OnlyLastDies, CallHandler
    PROVE  NoticeInv'
<1>1. PICK z \in Sig : z = Head(stack).sig
  BY DEF CallHandler
<1>2. /\ psigPend' = [psigPend EXCEPT ![z] = 0] /\ sigPending' = sigPending
      /\ Top("loop")
      /\ IF psigPtr[z] \in Code
         THEN stack' = <<Handler(z, z \in mask)>> \o NextSig
         ELSE stack' = NextSig
  BY <1>1 DEF CallHandler
<1>3. \A s \in Sig : psigPend'[s] > 0 => psigPend[s] > 0 /\ s # z
  BY <1>2, NoticeFacts
<1>4. NextSig \in Seq(Frame) /\ NoticeParts(NextSig, psigPend', sigPending)
  BY <1>1, <1>2, <1>3, NextNotices
<1>5. CASE psigPtr[z] \in Code
  <2> DEFINE x == Handler(z, z \in mask)
  <2>1. x \in Frame /\ x.at = "handler" /\ x.sig = z
    <3> DEFINE w == z \in mask
    <3>1. w \in BOOLEAN
      OBVIOUS
    <3> HIDE DEF w
    <3>2. Handler(z, w) \in Frame /\ Handler(z, w).at = "handler" /\ Handler(z, w).sig = z
      BY <3>1 DEF Handler, Frame
    <3>3. QED  BY <3>2 DEF w
  <2>2. ASSUME z \in Dying, NEW s \in Sig, psigPend'[s] > 0 PROVE sigPending > 0
    <3>1. z = SigSize - 1
      BY <2>2 DEF OnlyLastDies
    <3>2. s < z
      <4>1. s # z /\ s \in 1 .. SigSize - 1
        BY <1>3, <2>2 DEF Sig
      <4>2. QED  BY <3>1, <4>1, NoticeFacts
    <3>3. stack # <<>> /\ stack[1].at = "loop" /\ stack[1].sig = z /\ 1 \in 1 .. Len(stack)
      BY <1>1, <1>2, NoticeFacts, TopFrame DEF Top
    <3>4. Noticed(stack, psigPend, sigPending, s, 1)
      BY <3>2, <3>3, NoticeFacts DEF NoticeParts, Passed
    <3>5. psigPend[s] > 0
      BY <1>3, <2>2
    <3>6. QED  BY <3>4, <3>5 DEF Noticed
  <2> HIDE DEF x
  <2>3. NoticeParts(<<x>> \o NextSig, psigPend', sigPending)
    BY <1>4, <2>1, <2>2, EnterNotices
  <2>4. QED  BY <1>2, <1>5, <2>3, PartsMakeNotice DEF x
<1>6. CASE psigPtr[z] \notin Code
  BY <1>2, <1>4, <1>6, PartsMakeNotice
<1>7. QED  BY <1>5, <1>6

\* The top frame, which awaits nothing, is left.
LEMMA PopKeepsNotice ==
    ASSUME MaskInv, NoticeInv, stack # <<>>,
           Head(stack).at = "loop" => Head(stack).sig = SigSize,
           stack' = Tail(stack), UNCHANGED <<psigPend, sigPending>>
    PROVE  NoticeInv'
<1>1. Head(stack) = stack[1]
  BY NoticeFacts, TopFrame
<1>2. \A s \in Sig : ~ (SigSize <= s)
  BY NoticeFacts DEF Sig
<1>3. NoticeParts(Tail(stack), psigPend, sigPending)
  BY <1>1, <1>2, NoticeFacts, PopNotices
<1>4. QED  BY <1>3, PartsMakeNotice

\* The handler that dies takes no loop with it that was still needed.
LEMMA HandlerDiesKeepsNotice ==
    ASSUME MaskInv, NoticeInv, HandlerDies
    PROVE  NoticeInv'
<1>1. PICK n \in 1 .. Len(stack) : UnwindFrom(n, mask)
  BY DEF HandlerDies
<1>2. stack # <<>> /\ stack[1].at = "handler" /\ stack[1].sig \in Dying /\ 1 \in 1 .. Len(stack)
  BY NoticeFacts, TopFrame DEF HandlerDies, Top
<1>3. \A s \in Sig : psigPend[s] > 0 => sigPending > 0
  <2>1. \A s \in Sig : Noticed(stack, psigPend, sigPending, s, 1)
    BY <1>2, NoticeFacts DEF NoticeParts, MayDie
  <2>2. 1 .. 1 - 1 = {}
    OBVIOUS
  <2>3. QED  BY <2>1, <2>2 DEF Noticed
<1>4. n \in 0 .. Len(stack)
  OBVIOUS
<1>5. stack' = Without(stack, n) /\ (stack' # <<>> => Head(stack').at = "handler")
  BY <1>1 DEF UnwindFrom, Without
<1>6. stack' # <<>> => stack'[1].at = "handler"
  <2>1. Without(stack, n) \in Seq(Frame)
    BY <1>4, NoticeFacts, Dropped
  <2>2. QED  BY <1>5, <2>1, TopFrame
<1>7. Assigns(stack', psigPend)
  BY <1>4, <1>5, <1>6, NoticeFacts, LeaveAssigns
<1>8. psigPend' = psigPend /\ sigPending' = sigPending
  BY DEF HandlerDies
<1>9. QED  BY <1>3, <1>7, <1>8, FlagNotices, PartsMakeNotice

LEMMA AssignSigKeepsNotice ==
    ASSUME MaskInv, NoticeInv, NEW s \in Sig, NEW v \in Value, AssignSig(s, v)
    PROVE  NoticeInv'
<1> DEFINE x == SetSig(s, v, mask)
           r == <<x>> \o stack
<1>1. /\ sigPending' = 0 /\ psigPend' = psigPend
      /\ stack' = (IF sigPending # 0 THEN <<Loop(1)>> ELSE <<>>) \o <<x>> \o stack
  BY DEF AssignSig
<1>2. x \in Frame /\ x.at = "setsig" /\ x.sig = s
  <2>1. mask \in SUBSET Sig
    BY DEF MaskInv, TypeOK
  <2>2. QED  BY <2>1 DEF SetSig, Frame
<1>3. Loop(1) \in Frame /\ stack \in Seq(Frame)
  BY NoticeFacts, LoopFrame
<1>4. stack' = IF sigPending # 0 THEN <<Loop(1)>> \o r ELSE r
  BY <1>1, <1>2, <1>3, AssignedStack DEF r
<1>5. /\ r \in Seq(Frame) /\ Len(stack) \in Nat /\ Len(r) = Len(stack) + 1
      /\ \A i \in 1 .. Len(stack) : r[i + 1] = stack[i]
      /\ \A i \in 1 .. Len(stack) + 1 : i # 1 => i - 1 \in 1 .. Len(stack) /\ r[i] = stack[i - 1]
  BY <1>2, <1>3, Pushed DEF r
<1> HIDE DEF x
<1>6. CASE sigPending # 0
  <2>1. ASSUME NEW i \in 2 .. Len(r), r[i].at = "setsig" PROVE Taken(r, psigPend, i)
    <3>1. SUFFICES ASSUME psigPend[r[i].sig] > 0
                   PROVE  \E j \in 1 .. Len(r) : j >= i - 1 /\ r[j].at = "loop" /\ r[j].sig <= r[i].sig
      BY DEF Taken
    <3>2. i - 1 \in 1 .. Len(stack) /\ r[i] = stack[i - 1]
      <4>1. i \in 1 .. Len(stack) + 1 /\ i # 1
        BY <1>5
      <4>2. QED  BY <1>5, <4>1
    <3>3. PICK j \in 1 .. Len(stack) :
              j >= i - 1 - 1 /\ stack[j].at = "loop" /\ stack[j].sig <= stack[i - 1].sig
      <4>1. Assigns(stack, psigPend)
        BY NoticeFacts
      <4>2. QED  BY <2>1, <3>1, <3>2, <4>1 DEF Assigns, Taken
    <3>4. j + 1 \in 1 .. Len(r) /\ j + 1 >= i - 1
      BY <1>5, <3>3
    <3>5. r[j + 1] = stack[j]
      BY <1>5
    <3>6. QED  BY <3>2, <3>3, <3>4, <3>5
  <2> HIDE DEF r
  <2>2. NoticeParts(<<Loop(1)>> \o r, psigPend, 0)
    BY <1>5, <2>1, NoticeFacts, LoopNotices
  <2>3. QED  BY <1>1, <1>4, <1>6, <2>2, PartsMakeNotice
<1>7. CASE sigPending = 0
  <2>1. NoticeParts(stack, psigPend, 0)
    BY <1>7, NoticeFacts
  <2>2. psigPend[s] > 0 => \E j \in 1 .. Len(stack) : stack[j].at = "loop" /\ stack[j].sig <= s
    <3>1. Noticed(stack, psigPend, 0, s, Len(stack) + 1)
      BY <2>1 DEF NoticeParts, AllNoticed
    <3>2. Len(stack) + 1 - 1 = Len(stack)
      BY <1>5
    <3>3. QED  BY <3>1, <3>2 DEF Noticed
  <2>3. NoticeParts(r, psigPend, 0)
    BY <1>2, <1>3, <2>1, <2>2, EnterNotices DEF r
  <2>4. QED  BY <1>1, <1>4, <1>7, <2>3, PartsMakeNotice
<1>8. QED  BY <1>6, <1>7

LEMMA ForkChildKeepsNotice ==
    ASSUME MaskInv, NoticeInv, ForkChild
    PROVE  NoticeInv'
<1>1. stack' = stack /\ psigPend' = [s \in Sig |-> 0] /\ stack \in Seq(Frame)
  BY NoticeFacts DEF ForkChild
<1>2. \A s \in Sig : ~ (psigPend'[s] > 0)
  BY <1>1
<1>3. Assigns(stack, psigPend')
  <2>1. ASSUME NEW i \in 1 .. Len(stack), stack[i].at = "setsig" PROVE Taken(stack, psigPend', i)
    <3>1. stack[i].sig \in Sig
      BY <1>1, <2>1, Element, FrameFacts
    <3>2. QED  BY <1>2, <3>1 DEF Taken
  <2>2. QED  BY <2>1 DEF Assigns
<1>4. QED  BY <1>1, <1>2, <1>3, FlagNotices, PartsMakeNotice

LEMMA InitNotice == Init => NoticeInv
<1>1. SUFFICES ASSUME Init PROVE NoticeInv
  OBVIOUS
<1>2. stack = <<>> /\ Len(stack) = 0 /\ psigPend = [s \in Sig |-> 0]
  BY <1>1, EmptySeq DEF Init
<1>3. Assigns(stack, psigPend)
  BY <1>2 DEF Assigns
<1>4. NoticeParts(stack, psigPend, sigPending)
  BY <1>2, <1>3, FlagNotices
<1>5. QED  BY <1>4 DEF NoticeParts, NoticeInv

LEMMA StepNotice ==
    ASSUME OnlyLastDies
    PROVE  MaskInv /\ NoticeInv /\ [Next]_vars => NoticeInv'
<1>1. SUFFICES ASSUME MaskInv, NoticeInv, [Next]_vars PROVE NoticeInv'
  OBVIOUS
<1>2. ASSUME NEW s \in Sig, Arrive(s) PROVE NoticeInv'
  BY <1>1, <1>2, ArriveKeepsNotice
<1>3. ASSUME NEW s \in Sig, Deliver(s) PROVE NoticeInv'
  BY <1>1, <1>3, DeliverKeepsNotice
<1>4. ASSUME NEW s \in Sig, NEW v \in Value, AssignSig(s, v) PROVE NoticeInv'
  BY <1>1, <1>4, AssignSigKeepsNotice
<1>5. CASE AsyncCheck
  BY <1>1, <1>5, AsyncCheckKeepsNotice
<1>6. CASE SkipSig
  BY <1>1, <1>6, SkipSigKeepsNotice
<1>7. CASE CallHandler
  BY <1>1, <1>7, CallHandlerKeepsNotice
<1>8. CASE Despatched
  <2>1. /\ stack # <<>> /\ Head(stack).at = "loop" /\ Head(stack).sig = SigSize
        /\ stack' = Tail(stack) /\ UNCHANGED <<psigPend, sigPending>>
    BY <1>8 DEF Despatched, Top
  <2>2. QED  BY <1>1, <2>1, PopKeepsNotice
<1>9. CASE HandlerReturns
  <2>1. /\ stack # <<>> /\ Head(stack).at = "handler"
        /\ stack' = Tail(stack) /\ UNCHANGED <<psigPend, sigPending>>
    BY <1>9 DEF HandlerReturns, Top
  <2>2. QED  BY <1>1, <2>1, PopKeepsNotice
<1>10. CASE HandlerDies
  BY <1>1, <1>10, HandlerDiesKeepsNotice
<1>11. CASE InstallSig
  <2>1. /\ stack # <<>> /\ Head(stack).at = "setsig"
        /\ stack' = Tail(stack) /\ UNCHANGED <<psigPend, sigPending>>
    BY <1>11 DEF InstallSig, Top
  <2>2. QED  BY <1>1, <2>1, PopKeepsNotice
<1>12. CASE ForkChild
  BY <1>1, <1>12, ForkChildKeepsNotice
<1>13. CASE UNCHANGED vars
  <2>1. UNCHANGED <<stack, psigPend, sigPending>>
    BY <1>13 DEF vars
  <2>2. QED  BY <1>1, <2>1, NoticeFacts, PartsMakeNotice
<1>14. QED
  BY <1>1, <1>2, <1>3, <1>4, <1>5, <1>6, <1>7, <1>8, <1>9, <1>10, <1>11, <1>12, <1>13
  DEF Next, Value

\* Whoever passes over a pending signal leaves somebody behind who looks at it
\* again, as long as only the handler of the last signal dies.
LEMMA NoticeInvariance ==
    ASSUME OnlyLastDies
    PROVE  Spec => []NoticeInv
<1>1. MaskInv /\ NoticeInv /\ [Next]_vars => NoticeInv'
  BY StepNotice
<1>2. QED  BY InitNotice, Invariance, <1>1, PTL DEF Spec

\* A loop that counts as a witness is one that the signal awaits.
LEMMA LoopAwaited ==
    ASSUME MaskInv, NEW s \in Sig, NEW j \in 1 .. Len(stack), stack[j].at = "loop", stack[j].sig <= s
    PROVE  Awaited(s)
<1>1. DOMAIN stack = 1 .. Len(stack)
  BY LenProperties DEF MaskInv, TypeOK
<1>2. QED  BY <1>1 DEF Awaited

\* A signal that was counted is noticed, unless the handler of a signal that
\* the loop comes to before it dies.
THEOREM NoneIsForgotten ==
    ASSUME OnlyLastDies
    PROVE  Spec => []NoneForgotten
<1>1. MaskInv /\ NoticeInv => NoneForgotten
  <2>1. SUFFICES ASSUME MaskInv, NoticeInv, NEW s \in Sig, psigPend[s] > 0, ~ (sigPending > 0)
                 PROVE  Awaited(s)
    BY DEF NoneForgotten
  <2>2. Noticed(stack, psigPend, sigPending, s, Len(stack) + 1)
    BY <2>1 DEF NoticeInv, AllNoticed
  <2>3. Len(stack) + 1 - 1 = Len(stack)
    BY <2>1, NoticeFacts, LenProperties
  <2>4. PICK j \in 1 .. Len(stack) : stack[j].at = "loop" /\ stack[j].sig <= s
    BY <2>1, <2>2, <2>3 DEF Noticed
  <2>5. QED  BY <2>1, <2>4, LoopAwaited
<1>2. QED  BY <1>1, Invariance, NoticeInvariance, PTL

\* The handler of a signal does not change while a signal that it should have
\* handled is pending, unless a loop further out is to come to it.
THEOREM HandlersAreKept ==
    ASSUME OnlyLastDies
    PROVE  Spec => HandlerKept
<1>1. MaskInv /\ NoticeInv /\ [Next]_vars =>
          [\A s \in Sig : psigPtr'[s] # psigPtr[s] => psigPend[s] = 0 \/ Awaited(s)]_vars
  <2>1. SUFFICES ASSUME MaskInv, NoticeInv, [Next]_vars, NEW s \in Sig, psigPtr'[s] # psigPtr[s]
                 PROVE  psigPend[s] = 0 \/ Awaited(s)
    OBVIOUS
  <2>2. InstallSig
    <3>1. psigPtr' # psigPtr
      BY <2>1
    <3>2. CASE UNCHANGED vars
      BY <3>1, <3>2 DEF vars
    <3>3. CASE Next
      BY <3>1, <3>3 DEF Next, Arrive, Deliver, AssignSig, AsyncCheck, SkipSig, CallHandler,
                        Despatched, HandlerReturns, HandlerDies, ForkChild
    <3>4. QED  BY <2>1, <3>2, <3>3
  <2>3. stack # <<>> /\ stack[1].at = "setsig" /\ Head(stack) = stack[1] /\ 1 \in 1 .. Len(stack)
    BY <2>1, <2>2, NoticeFacts, TopFrame DEF InstallSig, Top
  <2>4. stack[1].sig = s
    <3>1. psigPtr' = [psigPtr EXCEPT ![stack[1].sig] = stack[1].value]
      BY <2>2, <2>3 DEF InstallSig
    <3>2. psigPtr \in [Sig -> Value]
      BY <2>1 DEF MaskInv, TypeOK
    <3>3. QED  BY <2>1, <3>1, <3>2
  <2>5. CASE psigPend[s] > 0
    <3>1. Taken(stack, psigPend, 1)
      BY <2>1, <2>3, NoticeFacts DEF Assigns
    <3>2. PICK j \in 1 .. Len(stack) : stack[j].at = "loop" /\ stack[j].sig <= s
      BY <2>4, <2>5, <3>1 DEF Taken
    <3>3. QED  BY <2>1, <3>2, LoopAwaited
  <2>6. CASE ~ (psigPend[s] > 0)
    <3>1. psigPend[s] \in Nat
      BY <2>1, NoticeFacts
    <3>2. QED  BY <2>6, <3>1
  <2>7. QED  BY <2>5, <2>6
<1>2. QED  BY <1>1, Invariance, NoticeInvariance, PTL DEF Spec, HandlerKept
=============================================================================
