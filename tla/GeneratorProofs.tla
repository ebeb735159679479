--------------------------- MODULE GeneratorProofs ---------------------------
(***************************************************************************)
(* IndInv is an invariant of the generator runtime, for every number of    *)
(* generators, stack-info blocks, C frames and evals, and with it the      *)
(* properties that follow from it.  One lemma per action.                  *)
(***************************************************************************)
EXTENDS GeneratorInvariant, SequenceTheorems, FiniteSetTheorems, WellFoundedInduction, TLAPS

-----------------------------------------------------------------------------
\* The stack-info list.

Linked(c) == c \in Chain /\ DoublyLinked(c) /\ FreshUnlinked(c)

\* push_stackinfo: the block it switches to is an allocated one other than
\* the main block, sits right after the current block, and no other block's
\* si_prev changes.
LEMMA PushedLemma ==
    ASSUME NEW c, Linked(c), c.cur <= c.used, CanPush(c)
    PROVE  /\ Linked(Pushed(c))
           /\ PushTarget(c) \in SI \ {Main}
           /\ PushTarget(c) = Pushed(c).cur
           /\ PushTarget(c) <= Pushed(c).used
           /\ c.used <= Pushed(c).used
           /\ Pushed(c).prev[PushTarget(c)] = c.cur
           /\ \A s \in SI : s # PushTarget(c) => Pushed(c).prev[s] = c.prev[s]
           /\ \A s \in SI : s # PushTarget(c) /\ s # c.cur
                                => Pushed(c).next[s] = c.next[s]
           /\ PushTarget(c) <= c.used => c.prev[PushTarget(c)] = c.cur
<1> USE MaxSIAssumption DEF SI, NULL, Main, Chain, Linked, DoublyLinked, FreshUnlinked
<1>1. CASE c.next[c.cur] # NULL
  <2>1. Pushed(c) = [c EXCEPT !.cur = c.next[c.cur]] /\ PushTarget(c) = c.next[c.cur]
    BY <1>1 DEF Pushed, PushTarget
  <2>2. c.next[c.cur] \in SI /\ c.prev[c.next[c.cur]] = c.cur
    BY <1>1
  <2>3. c.next[c.cur] <= c.used
    <3>1. c.cur # NULL /\ c.used \in Nat /\ c.next[c.cur] \in Nat
      BY <2>2
    <3>2. c.next[c.cur] > c.used => c.prev[c.next[c.cur]] = NULL
      BY <2>2
    <3>3. QED  BY <2>2, <3>1, <3>2
  <2>4. /\ Pushed(c) \in Chain /\ Pushed(c).cur = c.next[c.cur]
        /\ Pushed(c).prev = c.prev /\ Pushed(c).next = c.next
        /\ Pushed(c).used = c.used
    BY <2>1, <2>2
  <2>0. c.used \in Nat
    OBVIOUS
  <2>5. Linked(Pushed(c))
    BY <2>4
  <2>6. c.next[c.cur] # Main
    BY <2>2
  <2> HIDE DEF SI, Main, Chain, Linked, DoublyLinked, FreshUnlinked
  <2>7. QED  BY <2>0, <2>1, <2>2, <2>3, <2>4, <2>5, <2>6
<1>2. CASE c.next[c.cur] = NULL
  <2> DEFINE n == c.used + 1
  <2>1. n \in SI /\ n > c.used /\ n # Main
    BY <1>2 DEF CanPush
  <2>2. PushTarget(c) = n
        /\ Pushed(c) = [prev |-> [c.prev EXCEPT ![n] = c.cur],
                        next |-> [c.next EXCEPT ![c.cur] = n],
                        cur  |-> n,
                        used |-> n]
    BY <1>2 DEF Pushed, PushTarget
  <2>3. c.prev[n] = NULL /\ c.next[n] = NULL
    BY <2>1
  <2>4. c.cur # n
    OBVIOUS
  <2>5. Pushed(c) \in Chain
    BY <2>1, <2>2
  <2>6. DoublyLinked(Pushed(c))
    BY <1>2, <2>1, <2>2, <2>3, <2>4
  <2>7. FreshUnlinked(Pushed(c))
    BY <2>1, <2>2, <2>3, <2>4
  <2>8. QED  BY <2>1, <2>2, <2>3, <2>4, <2>5, <2>6, <2>7
<1>3. QED  BY <1>1, <1>2

\* Switching to another allocated block, pop_stackinfo included, links nothing.
LEMMA SwitchedLemma ==
    ASSUME NEW c, Linked(c), NEW s \in SI
    PROVE  /\ Linked(SwitchedTo(c, s))
           /\ SwitchedTo(c, s).cur = s
           /\ SwitchedTo(c, s).prev = c.prev
           /\ SwitchedTo(c, s).next = c.next
           /\ SwitchedTo(c, s).used = c.used
BY DEF SwitchedTo, SI, NULL, Chain, Linked, DoublyLinked, FreshUnlinked

\* pop_stackinfo on a block with a predecessor.
LEMMA PoppedLemma ==
    ASSUME NEW c, Linked(c), c.prev[c.cur] # NULL
    PROVE  /\ Linked(Popped(c))
           /\ Popped(c).cur = c.prev[c.cur]
           /\ Popped(c).prev = c.prev
           /\ Popped(c).next = c.next
           /\ Popped(c).used = c.used
           /\ c.prev[c.cur] \in SI
<1>1. c.prev[c.cur] \in SI
  BY DEF Linked, Chain
<1>2. QED  BY <1>1, SwitchedLemma DEF Popped

\* S_generator_detach_stackinfo: the list closes behind the block, which ends
\* up linked to nothing; only its two neighbours are touched.
LEMMA DetachedLemma ==
    ASSUME NEW c, Linked(c), NEW s \in SI
    PROVE  /\ Linked(Detached(c, s))
           /\ Isolated(Detached(c, s), s)
           /\ Detached(c, s).cur = c.cur
           /\ Detached(c, s).used = c.used
           /\ \A t \in SI : t # s /\ c.prev[t] # s
                               => Detached(c, s).prev[t] = c.prev[t]
           /\ \A t \in SI : Isolated(c, t) => Isolated(Detached(c, s), t)
<1> DEFINE p == c.prev[s]
           n == c.next[s]
           d == Detached(c, s)
<1> USE DEF SI, NULL, Main, Chain, Linked, DoublyLinked, FreshUnlinked, Isolated
<1>1. /\ d.cur = c.cur
      /\ d.used = c.used
      /\ d.prev = [t \in SI |-> IF t = s THEN NULL ELSE IF t = n THEN p ELSE c.prev[t]]
      /\ d.next = [t \in SI |-> IF t = s THEN NULL ELSE IF t = p THEN n ELSE c.next[t]]
      /\ d = [prev |-> d.prev, next |-> d.next, cur |-> d.cur, used |-> d.used]
  BY DEF Detached
<1>2. p \in SI \cup {NULL} /\ n \in SI \cup {NULL}
  OBVIOUS
<1> HIDE DEF d, p, n
<1>3. d \in Chain
  <2> HIDE DEF SI, NULL, Main
  <2>a. c.prev \in [SI -> SI \cup {NULL}] /\ c.next \in [SI -> SI \cup {NULL}]
    OBVIOUS
  <2> HIDE DEF Linked, Chain, DoublyLinked, FreshUnlinked
  <2>1. \A t \in SI : d.prev[t] \in SI \cup {NULL} /\ d.next[t] \in SI \cup {NULL}
    BY <1>1, <1>2, <2>a
  <2>2. d.prev \in [SI -> SI \cup {NULL}]
    BY <1>1, <2>1
  <2>3. d.next \in [SI -> SI \cup {NULL}]
    BY <1>1, <2>1
  <2>4. d.cur \in SI /\ d.used \in SI
    BY <1>1 DEF Linked, Chain
  <2>5. QED  BY <1>1, <2>2, <2>3, <2>4 DEF Chain
<1>4. DoublyLinked(d)
  BY <1>1, <1>2, MaxSIAssumption DEF p, n
<1>5. FreshUnlinked(d)
  BY <1>1, <1>2 DEF p, n
<1>6. QED  BY <1>1, <1>2, <1>3, <1>4, <1>5 DEF p, n, d

\* S_generator_attach_stackinfo: the block goes between the current one and
\* the block cached behind it; only these two are touched.
LEMMA AttachedLemma ==
    ASSUME NEW c, Linked(c), c.cur <= c.used,
           NEW s \in SI \ {Main}, s <= c.used, Isolated(c, s), s # c.cur
    PROVE  /\ Linked(Attached(c, s))
           /\ Attached(c, s).cur = c.cur
           /\ Attached(c, s).used = c.used
           /\ Attached(c, s).prev[s] = c.cur
           /\ \A t \in SI : t # s /\ c.prev[t] # c.cur
                               => Attached(c, s).prev[t] = c.prev[t]
           /\ \A t \in SI : Isolated(c, t) /\ t # s /\ t # c.cur
                               => Isolated(Attached(c, s), t)
<1> DEFINE p == c.cur
           n == c.next[p]
           d == Attached(c, s)
<1> USE DEF SI, NULL, Main, Chain, Linked, DoublyLinked, FreshUnlinked, Isolated
<1>1. /\ d.cur = c.cur
      /\ d.used = c.used
      /\ d.prev = [t \in SI |-> IF t = s THEN p ELSE IF t = n THEN s ELSE c.prev[t]]
      /\ d.next = [t \in SI |-> IF t = s THEN n ELSE IF t = p THEN s ELSE c.next[t]]
      /\ d = [prev |-> d.prev, next |-> d.next, cur |-> d.cur, used |-> d.used]
  BY DEF Attached
<1>2. p \in SI /\ n \in SI \cup {NULL}
  OBVIOUS
<1> HIDE DEF d, p, n
<1>3. d \in Chain
  <2> HIDE DEF SI, NULL, Main
  <2>a. c.prev \in [SI -> SI \cup {NULL}] /\ c.next \in [SI -> SI \cup {NULL}]
    OBVIOUS
  <2> HIDE DEF Linked, Chain, DoublyLinked, FreshUnlinked
  <2>1. \A t \in SI : d.prev[t] \in SI \cup {NULL} /\ d.next[t] \in SI \cup {NULL}
    BY <1>1, <1>2, <2>a
  <2>2. d.prev \in [SI -> SI \cup {NULL}]
    BY <1>1, <2>1
  <2>3. d.next \in [SI -> SI \cup {NULL}]
    BY <1>1, <2>1
  <2>4. d.cur \in SI /\ d.used \in SI
    BY <1>1 DEF Linked, Chain
  <2>5. QED  BY <1>1, <2>2, <2>3, <2>4 DEF Chain
<1>4. DoublyLinked(d)
  BY <1>1, <1>2, MaxSIAssumption DEF p, n
<1>5. FreshUnlinked(d)
  BY <1>1, <1>2 DEF p, n
<1>6. QED  BY <1>1, <1>2, <1>3, <1>4, <1>5 DEF p, n, d

-----------------------------------------------------------------------------
\* The C stack.

\* d is cs without the frames above m.
Cut(cs, d, m) ==
    /\ cs \in Seq(Frame) /\ d \in Seq(Frame)
    /\ m \in 1 .. Len(cs)
    /\ Len(d) = m
    /\ \A k \in 1 .. m : d[k] = cs[k]

\* d is cs with one more frame.
Grown(cs, d) ==
    /\ cs \in Seq(Frame) /\ d \in Seq(Frame)
    /\ Len(d) = Len(cs) + 1
    /\ \A k \in 1 .. Len(cs) : d[k] = cs[k]

\* SubSeq cuts a C stack: what is left is unchanged.
LEMMA CutLemma ==
    ASSUME NEW cs \in Seq(Frame), NEW m \in 1 .. Len(cs)
    PROVE  Cut(cs, SubSeq(cs, 1, m), m)
<1>1. Len(cs) \in Nat /\ m \in Int /\ 1 \in Int
  BY LenProperties
<1>2. \A i \in 1 .. m : cs[i] \in Frame
  BY <1>1, ElementOfSeq
<1>3. /\ SubSeq(cs, 1, m) \in Seq(Frame)
      /\ Len(SubSeq(cs, 1, m)) = IF 1 <= m THEN m - 1 + 1 ELSE 0
      /\ \A i \in 1 .. m - 1 + 1 : SubSeq(cs, 1, m)[i] = cs[1 + i - 1]
  <2> HIDE DEF Frame
  <2> QED  BY <1>1, <1>2, SubSeqProperties
<1>4. Len(SubSeq(cs, 1, m)) = m /\ \A i \in 1 .. m : SubSeq(cs, 1, m)[i] = cs[i]
  BY <1>1, <1>3
<1>5. QED  BY <1>3, <1>4 DEF Cut

\* Append grows a C stack by one frame.
LEMMA GrownLemma ==
    ASSUME NEW cs \in Seq(Frame), NEW f \in Frame
    PROVE  /\ Grown(cs, Append(cs, f))
           /\ Append(cs, f)[Len(cs) + 1] = f
BY AppendProperties DEF Grown

-----------------------------------------------------------------------------
\* A well-framed stack, cut anywhere above its first frame, is well framed.
LEMMA SameFrames ==
    ASSUME NEW cs, NEW d, NEW k \in Nat \ {0},
           \A j \in 1 .. k : d[j] = cs[j], FrameOK(cs, k)
    PROVE  FrameOK(d, k)
<1>1. cs[k].env \in 1 .. k /\ cs[k].loop \in 1 .. k /\ d[k] = cs[k]
  BY DEF FrameOK
<1>2. InnermostHook(d, k - 1, d[k].oldhook)
  BY <1>1 DEF FrameOK, InnermostHook
<1>3. QED  BY <1>1, <1>2 DEF FrameOK

\* Returning from frames leaves the C stack well framed.
LEMMA CutWellFramed ==
    ASSUME NEW cs, NEW d, NEW m, Cut(cs, d, m), WellFramed(cs)
    PROVE  WellFramed(d)
<1>1. Len(cs) \in 1 .. MaxFrames /\ MaxFrames \in Nat /\ m \in 1 .. Len(cs)
  BY GeneratorAssumption DEF WellFramed, Cut
<1>2. Len(d) = m /\ \A k \in 1 .. m : d[k] = cs[k]
  BY DEF Cut
<1>3. Len(d) \in 1 .. MaxFrames /\ d[1].si = Main
  BY <1>1, <1>2 DEF WellFramed
<1>4. ASSUME NEW k \in 1 .. m  PROVE FrameOK(d, k)
  <2>1. k \in Nat \ {0} /\ k \in 1 .. Len(cs) /\ \A j \in 1 .. k : d[j] = cs[j]
    BY <1>1, <1>2
  <2>2. QED  BY <2>1, SameFrames DEF WellFramed
<1>5. QED  BY <1>2, <1>3, <1>4 DEF WellFramed

\* So is one with a frame whose env and loop are what NewFrame makes them.
LEMMA GrownWellFramed ==
    ASSUME NEW cs, NEW d, NEW f, Grown(cs, d), WellFramed(cs), Len(cs) < MaxFrames,
           d[Len(cs) + 1] = f,
           f.kind \in {"resume", "docatch", "callback"},
           f.kind = "resume" => f.gen \in Generators,
           f.env = IF f.kind = "callback" THEN cs[Len(cs)].env ELSE Len(cs) + 1,
           f.loop = IF f.kind = "docatch" THEN cs[Len(cs)].loop ELSE Len(cs) + 1,
           InnermostHook(cs, Len(cs), f.oldhook)
    PROVE  WellFramed(d)
<1> DEFINE n == Len(cs)
<1>1. n \in 1 .. MaxFrames /\ MaxFrames \in Nat
  BY GeneratorAssumption DEF WellFramed
<1>2. Len(d) = n + 1 /\ d[n + 1] = f /\ \A k \in 1 .. n : d[k] = cs[k]
  BY DEF Grown
<1>3. FrameOK(cs, n)
  BY <1>1 DEF WellFramed
<1>4. /\ f.env = IF f.kind = "callback" THEN cs[n].env ELSE n + 1
      /\ f.loop = IF f.kind = "docatch" THEN cs[n].loop ELSE n + 1
      /\ InnermostHook(cs, n, f.oldhook)
      /\ WellFramed(cs) /\ n < MaxFrames
  OBVIOUS
<1> HIDE DEF n
<1>5. Len(d) \in 1 .. MaxFrames /\ d[1].si = Main
  BY <1>1, <1>2, <1>4 DEF WellFramed
<1>6. ASSUME NEW k \in 1 .. n  PROVE FrameOK(d, k)
  <2>1. k \in Nat \ {0} /\ k \in 1 .. n /\ \A j \in 1 .. k : d[j] = cs[j]
    BY <1>1, <1>2
  <2>2. FrameOK(cs, k)
    BY <1>4 DEF WellFramed, n
  <2>3. QED  BY <2>1, <2>2, SameFrames
<1>7. FrameOK(d, n + 1)
  <2> DEFINE k == n + 1
  <2> k \in Nat /\ n \in 1 .. k /\ n < k /\ d[k] = f
    BY <1>1, <1>2
  <2>0. \A j \in 1 .. k : j = k \/ j \in 1 .. n
    BY <1>1
  <2>1. /\ d[k].env \in 1 .. k
        /\ d[d[k].env].kind # "callback"
        /\ \A j \in 1 .. k : d[j].kind # "callback" => j <= d[k].env
    <3>1. CASE f.kind = "callback"
      <4>1. /\ cs[n].env \in 1 .. n /\ cs[cs[n].env].kind # "callback"
            /\ \A j \in 1 .. n : cs[j].kind # "callback" => j <= cs[n].env
        BY <1>3 DEF FrameOK
      <4>2. d[k].env = cs[n].env /\ d[cs[n].env] = cs[cs[n].env]
        BY <1>2, <1>4, <3>1, <4>1
      <4>3. d[cs[n].env].kind # "callback" /\ cs[n].env \in 1 .. k
        BY <1>1, <4>1, <4>2
      <4>4. ASSUME NEW j \in 1 .. k, d[j].kind # "callback"  PROVE j <= cs[n].env
        <5>1. j \in 1 .. n /\ d[j] = cs[j]
          BY <1>2, <2>0, <3>1, <4>4
        <5>2. QED  BY <4>1, <4>4, <5>1
      <4>5. QED  BY <4>2, <4>3, <4>4
    <3>2. CASE f.kind # "callback"
      <4>1. d[k].env = k
        BY <1>4, <3>2
      <4>2. QED  BY <1>1, <3>2, <4>1
    <3>3. QED  BY <3>1, <3>2
  <2>2. /\ d[k].loop \in 1 .. k
        /\ d[d[k].loop].kind # "docatch"
        /\ \A j \in 1 .. k : d[j].kind # "docatch" => j <= d[k].loop
    <3>1. CASE f.kind = "docatch"
      <4>1. /\ cs[n].loop \in 1 .. n /\ cs[cs[n].loop].kind # "docatch"
            /\ \A j \in 1 .. n : cs[j].kind # "docatch" => j <= cs[n].loop
        BY <1>3 DEF FrameOK
      <4>2. d[k].loop = cs[n].loop /\ d[cs[n].loop] = cs[cs[n].loop]
        BY <1>2, <1>4, <3>1, <4>1
      <4>3. d[cs[n].loop].kind # "docatch" /\ cs[n].loop \in 1 .. k
        BY <1>1, <4>1, <4>2
      <4>4. ASSUME NEW j \in 1 .. k, d[j].kind # "docatch"  PROVE j <= cs[n].loop
        <5>1. j \in 1 .. n /\ d[j] = cs[j]
          BY <1>2, <2>0, <3>1, <4>4
        <5>2. QED  BY <4>1, <4>4, <5>1
      <4>5. QED  BY <4>2, <4>3, <4>4
    <3>2. CASE f.kind # "docatch"
      <4>1. d[k].loop = k
        BY <1>4, <3>2
      <4>2. QED  BY <1>1, <3>2, <4>1
    <3>3. QED  BY <3>1, <3>2
  <2>3. InnermostHook(d, k - 1, d[k].oldhook)
    BY <1>1, <1>2, <1>4 DEF InnermostHook
  <2>4. /\ d[k].kind # "main" /\ k # 1
        /\ d[k].kind = "resume" => d[k].gen \in Generators
    BY <1>1, <1>2
  <2>5. QED  BY <2>1, <2>2, <2>3, <2>4 DEF FrameOK
<1>8. \A k \in 1 .. Len(d) : FrameOK(d, k)
  BY <1>1, <1>2, <1>6, <1>7
<1>9. QED  BY <1>5, <1>8 DEF WellFramed

\* What well-framedness says of activations and boundaries.
LEMMA Framing ==
    ASSUME NEW cs, WellFramed(cs)
    PROVE  /\ Len(cs) \in Nat \ {0} /\ Len(cs) <= MaxFrames /\ MaxFrames \in Nat
           /\ 1 \in Activations(cs)
           /\ cs[1].si = Main
           /\ \A k \in 1 .. Len(cs) :
                 /\ cs[k].loop \in Activations(cs) /\ cs[k].loop <= k
                 /\ \A j \in Activations(cs) : j <= k => j <= cs[k].loop
                 /\ k \in Activations(cs) => cs[k].loop = k
                 /\ cs[k].env \in 1 .. k
                 /\ cs[cs[k].env].kind # "callback"
                 /\ \A j \in 1 .. k : cs[j].kind # "callback" => j <= cs[k].env
           /\ \A k \in Activations(cs) :
                 k \in 1 .. Len(cs) /\ k # 1 => k - 1 \in 1 .. Len(cs)
<1>1. Len(cs) \in Nat \ {0} /\ Len(cs) <= MaxFrames /\ MaxFrames \in Nat
  BY GeneratorAssumption DEF WellFramed
<1>2. 1 \in Activations(cs) /\ cs[1].si = Main
  <2>1. FrameOK(cs, 1)
    BY <1>1 DEF WellFramed
  <2>2. cs[1].kind = "main"
    BY <2>1 DEF FrameOK
  <2>3. QED  BY <1>1, <2>2 DEF Activations, WellFramed
<1>3. ASSUME NEW k \in 1 .. Len(cs)
      PROVE  /\ cs[k].loop \in Activations(cs) /\ cs[k].loop <= k
             /\ \A j \in Activations(cs) : j <= k => j <= cs[k].loop
             /\ k \in Activations(cs) => cs[k].loop = k
             /\ cs[k].env \in 1 .. k
             /\ cs[cs[k].env].kind # "callback"
             /\ \A j \in 1 .. k : cs[j].kind # "callback" => j <= cs[k].env
  <2>1. FrameOK(cs, k)
    BY DEF WellFramed
  <2>2. QED  BY <1>1, <2>1 DEF FrameOK, Activations
<1>4. \A k \in Activations(cs) : k \in 1 .. Len(cs) /\ k # 1 => k - 1 \in 1 .. Len(cs)
  BY <1>1
<1>5. QED  BY <1>1, <1>2, <1>3, <1>4

\* The fields of a frame have their types.
LEMMA Typing ==
    ASSUME NEW cs \in Seq(Frame), NEW k \in 1 .. Len(cs)
    PROVE  /\ cs[k].kind \in Kinds
           /\ cs[k].gen \in Generators \cup {Nobody}
           /\ cs[k].si \in SI /\ cs[k].caller \in SI
           /\ cs[k].oldhook \in FrameIndex
           /\ cs[k].callerav \in Arrays
<1>1. cs[k] \in Frame
  BY ElementOfSeq
<1>2. QED  BY <1>1 DEF Frame

-----------------------------------------------------------------------------
\* The path of blocks.

\* No activation runs on the block after the current one, so no frame's block
\* hangs off the current block, and a push cannot hand out one in use.
LEMMA NothingAfterCurrent ==
    ASSUME NEW cs \in Seq(Frame), NEW c, WellFramed(cs), OnPath(cs, c),
           NEW n \in Activations(cs), NEW k \in Activations(cs), k # 1,
           c.prev[cs[k].si] = cs[n].si
    PROVE  n < k
<1>1. /\ n \in 1 .. Len(cs) /\ k \in 1 .. Len(cs) /\ k - 1 \in 1 .. Len(cs)
      /\ Len(cs) \in Nat
  BY Framing DEF Activations
<1>2. cs[k - 1].loop \in Activations(cs) /\ cs[k - 1].loop <= k - 1
  BY <1>1, Framing
<1>3. c.prev[cs[k].si] = cs[cs[k - 1].loop].si
  BY DEF OnPath
<1>4. n = cs[k - 1].loop
  BY <1>2, <1>3 DEF OnPath
<1>5. QED  BY <1>1, <1>2, <1>4

\* Returning keeps the blocks of the remaining activations linked in order.
LEMMA PathCut ==
    ASSUME NEW cs, NEW d, NEW m, Cut(cs, d, m), WellFramed(cs),
           NEW c, NEW c2, OnPath(cs, c), c.used \in Nat, c2.used \in Nat,
           c.used <= c2.used,
           \A k \in Activations(cs) \ {1} :
               k <= m => c2.prev[cs[k].si] = c.prev[cs[k].si]
    PROVE  OnPath(d, c2)
<1>1. Len(cs) \in Nat \ {0} /\ m \in 1 .. Len(cs) /\ Len(d) = m
      /\ \A k \in 1 .. m : d[k] = cs[k]
  BY Framing DEF Cut
<1>2. \A k \in Activations(d) : k \in Activations(cs) /\ k \in 1 .. m /\ d[k] = cs[k]
  BY <1>1 DEF Activations
<1>3. \A i, j \in Activations(d) : d[i].si = d[j].si => i = j
  BY <1>2 DEF OnPath
<1>4. ASSUME NEW k \in Activations(d)  PROVE d[k].si <= c2.used
  <2>1. k \in 1 .. Len(cs) /\ cs[k].si <= c.used /\ d[k] = cs[k]
    BY <1>1, <1>2 DEF OnPath
  <2>2. cs[k].si \in SI
    BY <2>1, Typing DEF Cut
  <2>3. QED  BY <2>1, <2>2, MaxSIAssumption DEF SI
<1>5. ASSUME NEW k \in Activations(d) \ {1}
      PROVE  d[k].caller = d[d[k - 1].loop].si /\ c2.prev[d[k].si] = d[k].caller
  <2>1. k \in Activations(cs) \ {1} /\ k \in 1 .. m /\ d[k] = cs[k]
    BY <1>2
  <2>2. k - 1 \in 1 .. m /\ k - 1 \in 1 .. Len(cs) /\ d[k - 1] = cs[k - 1]
    BY <1>1, <2>1
  <2>3. cs[k - 1].loop \in Activations(cs) /\ cs[k - 1].loop <= k - 1
    BY <2>2, Framing
  <2>4. cs[k - 1].loop \in 1 .. m
    BY <1>1, <2>2, <2>3 DEF Activations
  <2>5. d[cs[k - 1].loop] = cs[cs[k - 1].loop]
    BY <1>1, <2>4
  <2>6. cs[k].caller = cs[cs[k - 1].loop].si /\ c.prev[cs[k].si] = cs[k].caller
    BY <2>1 DEF OnPath
  <2>7. c2.prev[cs[k].si] = c.prev[cs[k].si]
    BY <1>1, <2>1
  <2>8. QED  BY <2>1, <2>2, <2>5, <2>6, <2>7
<1>6. QED  BY <1>3, <1>4, <1>5 DEF OnPath

\* A new activation on a block no other uses, hanging off its caller's.
LEMMA PathGrown ==
    ASSUME NEW cs, NEW d, NEW f, Grown(cs, d), WellFramed(cs), WellFramed(d),
           d[Len(cs) + 1] = f, f.kind # "docatch",
           NEW c, NEW c2, OnPath(cs, c), c.used \in Nat, c2.used \in Nat,
           c.used <= c2.used, f.si <= c2.used,
           \A k \in Activations(cs) : cs[k].si # f.si,
           f.caller = cs[cs[Len(cs)].loop].si, c2.prev[f.si] = f.caller,
           \A k \in Activations(cs) \ {1} : c2.prev[cs[k].si] = c.prev[cs[k].si]
    PROVE  OnPath(d, c2)
<1>1. Len(cs) \in Nat \ {0} /\ Len(d) = Len(cs) + 1
      /\ \A k \in 1 .. Len(cs) : d[k] = cs[k]
  BY Framing DEF Grown
<1>2. \A k \in Activations(d) : \/ k \in Activations(cs) /\ k \in 1 .. Len(cs) /\ d[k] = cs[k]
                                \/ k = Len(cs) + 1 /\ d[k] = f
  BY <1>1 DEF Activations
<1>3. \A i, j \in Activations(d) : d[i].si = d[j].si => i = j
  BY <1>2 DEF OnPath
<1>4. ASSUME NEW k \in Activations(d)  PROVE d[k].si <= c2.used
  <2>1. CASE k = Len(cs) + 1 /\ d[k] = f
    BY <2>1
  <2>2. CASE k \in Activations(cs) /\ k \in 1 .. Len(cs) /\ d[k] = cs[k]
    <3>1. cs[k].si <= c.used /\ d[k] = cs[k]
      BY <2>2 DEF OnPath
    <3>2. cs[k].si \in SI
      BY <2>2, Typing DEF Grown
    <3>3. QED  BY <3>1, <3>2, MaxSIAssumption DEF SI
  <2>3. QED  BY <1>2, <2>1, <2>2
<1>5. ASSUME NEW k \in Activations(d) \ {1}
      PROVE  d[k].caller = d[d[k - 1].loop].si /\ c2.prev[d[k].si] = d[k].caller
  <2>1. CASE k = Len(cs) + 1 /\ d[k] = f
    <3>1. k - 1 = Len(cs) /\ d[k - 1] = cs[Len(cs)] /\ Len(cs) \in 1 .. Len(cs)
      BY <1>1, <2>1
    <3>2. cs[Len(cs)].loop \in 1 .. Len(cs)
      BY <3>1, Framing DEF Activations
    <3>3. QED  BY <1>1, <2>1, <3>1, <3>2
  <2>2. CASE k \in Activations(cs) /\ k \in 1 .. Len(cs) /\ d[k] = cs[k]
    <3>1. k - 1 \in 1 .. Len(cs) /\ d[k - 1] = cs[k - 1]
      BY <1>1, <2>2
    <3>2. cs[k - 1].loop \in 1 .. Len(cs)
      BY <3>1, Framing DEF Activations
    <3>3. cs[k].caller = cs[cs[k - 1].loop].si /\ c.prev[cs[k].si] = cs[k].caller
      BY <2>2 DEF OnPath
    <3>4. d[cs[k - 1].loop] = cs[cs[k - 1].loop]
      BY <1>1, <3>2
    <3>5. c2.prev[cs[k].si] = c.prev[cs[k].si]
      BY <2>2
    <3>6. QED  BY <2>2, <3>1, <3>3, <3>4, <3>5
  <2>3. QED  BY <1>2, <2>1, <2>2
<1>6. QED  BY <1>3, <1>4, <1>5 DEF OnPath

\* A docatch frame is no activation.
LEMMA PathDocatch ==
    ASSUME NEW cs, NEW d, Grown(cs, d), WellFramed(cs),
           d[Len(cs) + 1].kind = "docatch", NEW c, OnPath(cs, c)
    PROVE  Activations(d) = Activations(cs) /\ OnPath(d, c)
<1>1. Len(cs) \in Nat \ {0} /\ Len(d) = Len(cs) + 1
      /\ \A k \in 1 .. Len(cs) : d[k] = cs[k]
  BY Framing DEF Grown
<1>2. Activations(d) = Activations(cs)
  BY <1>1 DEF Activations
<1>3. \A k \in Activations(cs) : d[k] = cs[k]
  BY <1>1 DEF Activations
<1>4. ASSUME NEW k \in Activations(cs) \ {1}
      PROVE  d[k - 1].loop = cs[k - 1].loop /\ d[cs[k - 1].loop] = cs[cs[k - 1].loop]
  <2>1. k - 1 \in 1 .. Len(cs)
    BY Framing DEF Activations
  <2>2. cs[k - 1].loop \in Activations(cs)
    BY <2>1, Framing
  <2>3. QED  BY <1>1, <1>3, <2>1, <2>2
<1>5. QED  BY <1>2, <1>3, <1>4 DEF OnPath

-----------------------------------------------------------------------------
\* Where evals aim.

\* Cutting the stack leaves an activation's evals aimed as long as none of
\* their boundaries is cut off.
LEMMA AimedCut ==
    ASSUME NEW cs, NEW d, NEW m, Cut(cs, d, m), NEW k, NEW stack,
           Aimed(cs, k, stack),
           \A i \in DOMAIN stack : stack[i].type \in EvalTypes => stack[i].env <= m,
           k \in 1 .. m
    PROVE  Aimed(d, k, stack)
<1>1. Len(cs) \in Nat /\ m \in 1 .. Len(cs) /\ Len(d) = m
      /\ \A j \in 1 .. m : d[j] = cs[j]
  BY LenProperties DEF Cut
<1>2. ASSUME NEW i \in DOMAIN stack, stack[i].type \in EvalTypes
      PROVE  /\ stack[i].env \in k .. Len(d)
             /\ d[stack[i].env].kind # "callback"
             /\ d[stack[i].env].loop = k
  <2>1. /\ stack[i].env \in k .. Len(cs)
        /\ cs[stack[i].env].kind # "callback"
        /\ cs[stack[i].env].loop = k
        /\ stack[i].env <= m
    BY <1>2 DEF Aimed
  <2>2. stack[i].env \in 1 .. m
    BY <1>1, <2>1
  <2>3. QED  BY <1>1, <2>1, <2>2
<1>3. QED  BY <1>2 DEF Aimed

\* Cutting at an activation cuts off no boundary of a lower one.
LEMMA AimedBelow ==
    ASSUME NEW cs, NEW d, NEW m, Cut(cs, d, m), WellFramed(cs),
           m + 1 \in Activations(cs), NEW k \in Activations(d), NEW stack,
           Aimed(cs, k, stack)
    PROVE  Aimed(d, k, stack)
<1>1. Len(cs) \in Nat /\ m \in 1 .. Len(cs) /\ Len(d) = m /\ k \in 1 .. m
  BY LenProperties DEF Cut, Activations
<1>2. ASSUME NEW i \in DOMAIN stack, stack[i].type \in EvalTypes
      PROVE  stack[i].env <= m
  <2>1. stack[i].env \in k .. Len(cs) /\ cs[stack[i].env].loop = k
    BY <1>2 DEF Aimed
  <2>2. stack[i].env \in 1 .. Len(cs)
    BY <1>1, <2>1
  <2>3. m + 1 <= stack[i].env => m + 1 <= k
    BY <2>1, <2>2, Framing
  <2>4. QED  BY <1>1, <2>2, <2>3
<1>3. QED  BY <1>1, <1>2, AimedCut

\* Entering a frame does not disturb the aims of the evals below it.
LEMMA AimedGrown ==
    ASSUME NEW cs, NEW d, Grown(cs, d), NEW k \in 1 .. Len(cs), NEW stack,
           Aimed(cs, k, stack)
    PROVE  Aimed(d, k, stack)
<1>1. Len(cs) \in Nat /\ Len(d) = Len(cs) + 1 /\ \A j \in 1 .. Len(cs) : d[j] = cs[j]
  BY LenProperties DEF Grown
<1>2. ASSUME NEW i \in DOMAIN stack, stack[i].type \in EvalTypes
      PROVE  /\ stack[i].env \in k .. Len(d)
             /\ d[stack[i].env].kind # "callback"
             /\ d[stack[i].env].loop = k
  <2>1. /\ stack[i].env \in k .. Len(cs)
        /\ cs[stack[i].env].kind # "callback"
        /\ cs[stack[i].env].loop = k
    BY <1>2 DEF Aimed
  <2>2. stack[i].env \in 1 .. Len(cs)
    BY <1>1, <2>1
  <2>3. QED  BY <1>1, <2>1, <2>2
<1>3. QED  BY <1>2 DEF Aimed

\* An empty context stack aims at nothing.
LEMMA AimedEmpty ==
    ASSUME NEW cs, NEW k  PROVE Aimed(cs, k, <<>>)
BY DEF Aimed

\* Popping contexts.
LEMMA StackCut ==
    ASSUME NEW S, NEW stack \in Seq(S), NEW n \in 1 .. Len(stack)
    PROVE  /\ SubSeq(stack, 1, n - 1) \in Seq(S)
           /\ DOMAIN SubSeq(stack, 1, n - 1) = 1 .. n - 1
           /\ \A i \in 1 .. n - 1 : SubSeq(stack, 1, n - 1)[i] = stack[i]
           /\ DOMAIN stack = 1 .. Len(stack)
           /\ Len(stack) \in Nat
<1>1. Len(stack) \in Nat /\ n - 1 \in Nat /\ 1 \in Int /\ n - 1 \in Int
      /\ DOMAIN stack = 1 .. Len(stack)
  BY LenProperties
<1>2. \A i \in 1 .. n - 1 : stack[i] \in S
  BY <1>1, ElementOfSeq
<1>3. /\ SubSeq(stack, 1, n - 1) \in Seq(S)
      /\ Len(SubSeq(stack, 1, n - 1)) = IF 1 <= n - 1 THEN n - 1 - 1 + 1 ELSE 0
      /\ \A i \in 1 .. n - 1 - 1 + 1 : SubSeq(stack, 1, n - 1)[i] = stack[1 + i - 1]
  BY <1>1, <1>2, SubSeqProperties
<1>4. Len(SubSeq(stack, 1, n - 1)) = n - 1
  BY <1>1, <1>3
<1>5. \A i \in 1 .. n - 1 : SubSeq(stack, 1, n - 1)[i] = stack[i]
  BY <1>1, <1>3
<1>6. QED  BY <1>1, <1>3, <1>4, <1>5, LenProperties

\* Popping contexts leaves the evals that remain aimed.
LEMMA AimedPopped ==
    ASSUME NEW cs, NEW k, NEW stack \in Seq(Context), NEW n \in 1 .. Len(stack),
           Aimed(cs, k, stack)
    PROVE  Aimed(cs, k, SubSeq(stack, 1, n - 1))
<1>1. /\ DOMAIN SubSeq(stack, 1, n - 1) = 1 .. n - 1
      /\ \A i \in 1 .. n - 1 : SubSeq(stack, 1, n - 1)[i] = stack[i]
      /\ DOMAIN stack = 1 .. Len(stack)
      /\ Len(stack) \in Nat
  <2> HIDE DEF Context
  <2> QED  BY StackCut
<1>2. \A i \in 1 .. n - 1 : i \in DOMAIN stack
  BY <1>1
<1>3. QED  BY <1>1, <1>2 DEF Aimed

\* A new eval may aim at any boundary of its activation, as long as no older
\* one aims higher.
LEMMA AimedPushed ==
    ASSUME NEW cs, NEW k, NEW stack \in Seq(Context), NEW env \in FrameIndex,
           Aimed(cs, k, stack), env \in k .. Len(cs),
           cs[env].kind # "callback", cs[env].loop = k,
           \A i \in DOMAIN stack : stack[i].type \in EvalTypes => stack[i].env <= env
    PROVE  Aimed(cs, k, Append(stack, EvalContext("EVAL", env)))
<1> DEFINE e == EvalContext("EVAL", env)
           new == Append(stack, e)
<1>1. e \in Context /\ e.env = env /\ e.type = "EVAL"
  BY DEF EvalContext, Context, EvalContexts, EvalTypes
<1>2. /\ new \in Seq(Context) /\ Len(new) = Len(stack) + 1
      /\ \A i \in 1 .. Len(stack) : new[i] = stack[i]
      /\ new[Len(stack) + 1] = e
      /\ DOMAIN new = 1 .. Len(new) /\ DOMAIN stack = 1 .. Len(stack)
      /\ Len(stack) \in Nat
  <2> HIDE DEF Context, e
  <2>1. Len(stack) \in Nat /\ DOMAIN stack = 1 .. Len(stack)
    BY LenProperties
  <2>2. /\ new \in Seq(Context) /\ Len(new) = Len(stack) + 1
        /\ \A i \in 1 .. Len(stack) : new[i] = stack[i]
        /\ new[Len(stack) + 1] = e
    BY <1>1, AppendProperties
  <2>3. DOMAIN new = 1 .. Len(new)
    BY <2>2, LenProperties
  <2>4. QED  BY <2>1, <2>2, <2>3
<1> HIDE DEF new, e
<1>3. \A i \in DOMAIN new : \/ i \in DOMAIN stack /\ new[i] = stack[i]
                            \/ i = Len(stack) + 1 /\ new[i] = e
  BY <1>2
<1>4. \A i \in DOMAIN stack : i < Len(stack) + 1
  BY <1>2
<1>5. env \in Nat
  BY GeneratorAssumption DEF FrameIndex
<1>6. ASSUME NEW i \in DOMAIN new, new[i].type \in EvalTypes
      PROVE  /\ new[i].env \in k .. Len(cs)
             /\ cs[new[i].env].kind # "callback"
             /\ cs[new[i].env].loop = k
             /\ \A j \in DOMAIN new :
                   j <= i /\ new[j].type \in EvalTypes => new[j].env <= new[i].env
  <2>1. CASE i \in DOMAIN stack /\ new[i] = stack[i]
    <3>1. \A j \in DOMAIN new : j <= i => j \in DOMAIN stack /\ new[j] = stack[j]
      BY <1>2, <1>3, <1>4, <2>1
    <3>2. QED  BY <1>6, <2>1, <3>1 DEF Aimed
  <2>2. CASE i = Len(stack) + 1 /\ new[i] = e
    BY <1>1, <1>3, <1>5, <2>2
  <2>3. QED  BY <1>3, <2>1, <2>2
<1>7. Aimed(cs, k, new)
  BY <1>6 DEF Aimed
<1>8. QED  BY <1>7 DEF new, e

\* IndInv unfolded to what most steps need.
LEMMA Facts ==
    ASSUME IndInv
    PROVE  /\ cstack \in Seq(Frame)
           /\ Depth \in Nat \ {0} /\ Depth <= MaxFrames /\ MaxFrames \in Nat
           /\ Loop \in Activations(cstack) /\ Loop \in 1 .. Depth
           /\ \A j \in Activations(cstack) : j \in 1 .. Depth /\ j <= Loop
           /\ TopEnv \in 1 .. Depth
           /\ cstack[TopEnv].kind # "callback"
           /\ \A j \in 1 .. Depth : cstack[j].kind # "callback" => j <= TopEnv
           /\ Linked(chain)
           /\ chain.used \in SI /\ cur \in SI /\ cur <= chain.used
           /\ SI \subseteq Nat /\ Main \in SI
           /\ hook \in 0 .. Depth
           /\ hook # 0 => cstack[hook].kind = "resume"
<1>1. cstack \in Seq(Frame) /\ chain \in Chain
  BY DEF IndInv, TypeOK
<1>2. Depth \in Nat \ {0} /\ Depth <= MaxFrames /\ MaxFrames \in Nat
  BY Framing DEF IndInv, Depth
<1>3. Depth \in 1 .. Depth
  BY <1>2
<1>4. Loop \in Activations(cstack) /\ Loop \in 1 .. Depth
      /\ \A j \in Activations(cstack) : j \in 1 .. Depth /\ j <= Loop
  BY <1>3, Framing DEF IndInv, Activations, Loop, Depth
<1>5. /\ TopEnv \in 1 .. Depth
      /\ cstack[TopEnv].kind # "callback"
      /\ \A j \in 1 .. Depth : cstack[j].kind # "callback" => j <= TopEnv
  BY <1>3, Framing DEF IndInv, TopEnv, Depth
<1>6. Linked(chain) /\ chain.used \in SI /\ cur \in SI
  <2>1. Linked(chain)
    BY <1>1 DEF IndInv, ChainLinked, Linked
  <2>2. chain.used \in SI /\ chain.cur \in SI
    BY <1>1 DEF Chain
  <2>3. QED  BY <2>1, <2>2 DEF cur
<1>7. SI \subseteq Nat /\ Main \in SI
  BY MaxSIAssumption DEF SI, Main
<1>8. cur <= chain.used
  BY DEF IndInv, CurOK, OnPath
<1>9. hook \in 0 .. Depth /\ (hook # 0 => cstack[hook].kind = "resume")
  BY DEF IndInv, HookOK, InnermostHook
<1>10. QED  BY <1>1, <1>2, <1>4, <1>5, <1>6, <1>7, <1>8, <1>9

\* A frame pushed by the running code has the shape frames have, and keeps the
\* C stack well framed.
LEMMA NewFrameLemma ==
    ASSUME IndInv, NEW kind \in {"resume", "docatch", "callback"},
           NEW g \in Generators \cup {Nobody}, kind = "resume" => g \in Generators,
           NEW s \in SI, Depth < MaxFrames
    PROVE  LET f == NewFrame(kind, g, s)
               d == Append(cstack, f)
           IN  /\ f \in Frame
               /\ Grown(cstack, d)
               /\ d[Depth + 1] = f
               /\ WellFramed(d)
<1> DEFINE f == NewFrame(kind, g, s)
           d == Append(cstack, f)
<1>1. f \in Frame
  <2>1. hook \in FrameIndex /\ gvav \in Arrays /\ cur \in SI
    BY Facts DEF IndInv, TypeOK
  <2>2. TopEnv \in FrameIndex /\ Loop \in FrameIndex /\ Depth + 1 \in FrameIndex
    BY Facts DEF FrameIndex
  <2>3. QED  BY <2>1, <2>2 DEF NewFrame, Frame, Kinds
<1>2. Grown(cstack, d) /\ d[Depth + 1] = f
  <2> HIDE DEF f
  <2> QED  BY <1>1, Facts, GrownLemma DEF Depth
<1>3. /\ f.kind = kind /\ f.gen = g /\ f.oldhook = hook
      /\ f.env = IF f.kind = "callback" THEN cstack[Len(cstack)].env ELSE Len(cstack) + 1
      /\ f.loop = IF f.kind = "docatch" THEN cstack[Len(cstack)].loop ELSE Len(cstack) + 1
  BY DEF NewFrame, TopEnv, Loop, Depth
<1>4. InnermostHook(cstack, Len(cstack), f.oldhook)
  BY <1>3 DEF IndInv, HookOK, Depth
<1>5. WellFramed(cstack)
  BY DEF IndInv
<1> HIDE DEF f, d
<1>6. WellFramed(d)
  BY <1>2, <1>3, <1>4, <1>5, GrownWellFramed DEF Depth
<1>7. QED  BY <1>1, <1>2, <1>6 DEF f, d

\* Unwinding puts back an array that can be @_ and a pad number.
LEMMA UnwoundType ==
    ASSUME TypeOK, NEW stack \in Seq(Context), NEW i \in Nat
    PROVE  UnwoundArray(stack, i) \in Arrays /\ UnwoundDepth(stack, i) \in [Bodies -> Nat]
<1>1. gvav \in Arrays /\ depth \in [Bodies -> Nat]
  BY DEF TypeOK
<1>2. CASE BodiesAbove(stack, i) = {}
  BY <1>1, <1>2 DEF UnwoundArray, UnwoundDepth
<1>3. CASE BodiesAbove(stack, i) # {}
  <2> DEFINE k == CHOOSE k \in BodiesAbove(stack, i) : TRUE
  <2>1. k \in BodiesAbove(stack, i)
    BY <1>3
  <2>2. k \in 1 .. Len(stack) /\ stack[k].type = "BODY"
    BY <2>1, LenProperties DEF BodiesAbove
  <2> HIDE DEF k
  <2>3. stack[k] \in Context
    <3> HIDE DEF Context
    <3> QED  BY <2>2, ElementOfSeq
  <2>4. stack[k] \in BodyContexts
    BY <2>2, <2>3 DEF Context, EvalContexts, EvalTypes
  <2>5. stack[k].array \in Arrays /\ stack[k].cv \in Bodies /\ stack[k].old \in Nat
    BY <2>4 DEF BodyContexts
  <2>6. BodyAbove(stack, i) = stack[k]
    BY DEF BodyAbove, k
  <2>7. QED  BY <1>1, <1>3, <2>5, <2>6 DEF UnwoundArray, UnwoundDepth
<1>4. QED  BY <1>2, <1>3

-----------------------------------------------------------------------------
\* Calling and returning, in the terms all such steps share.

\* The running code sits on the last activation's block, and no frame's block
\* hangs off it.
LEMMA Innermost ==
    ASSUME IndInv, Executing
    PROVE  /\ cur = cstack[Loop].si
           /\ exc.stage = "none"
           /\ \A k \in Activations(cstack) \ {1} : chain.prev[cstack[k].si] # cur
<1>1. cur = cstack[Loop].si
  BY DEF IndInv, CurOK
<1>2. ASSUME NEW k \in Activations(cstack) \ {1}, chain.prev[cstack[k].si] = cur
      PROVE  FALSE
  <2>1. cstack \in Seq(Frame) /\ WellFramed(cstack) /\ OnPath(cstack, chain)
    BY DEF IndInv, TypeOK
  <2>2. Loop \in Activations(cstack)
    BY Facts
  <2>3. Loop < k
    BY <1>1, <1>2, <2>1, <2>2, NothingAfterCurrent
  <2>4. QED  BY <2>3, Facts
<1>3. QED  BY <1>1, <1>2 DEF Executing

\* A new activation on a block that no other uses.
LEMMA EnterKeeps ==
    ASSUME IndInv, Executing, Depth < MaxFrames,
           NEW kind \in {"resume", "callback"},
           NEW g \in Generators \cup {Nobody}, kind = "resume" => g \in Generators,
           NEW s \in SI, \A k \in Activations(cstack) : cstack[k].si # s,
           cstack' = Append(cstack, NewFrame(kind, g, s)),
           Linked(chain'), chain'.cur = s, s <= chain'.used,
           chain.used <= chain'.used, chain'.prev[s] = cur,
           \A t \in SI : t # s /\ chain.prev[t] # cur => chain'.prev[t] = chain.prev[t],
           \A t \in SI : t # s => cxs'[t] = cxs[t],
           Aimed(cstack', Depth + 1, cxs'[s]), exc' = exc
    PROVE  /\ Grown(cstack, cstack')
           /\ Depth' = Depth + 1
           /\ cstack'[Depth + 1] = NewFrame(kind, g, s)
           /\ Activations(cstack') = Activations(cstack) \cup {Depth + 1}
           /\ WellFramed(cstack') /\ OnPath(cstack', chain')
           /\ CurOK' /\ ContextsOK' /\ DeliveryOK'
<1> DEFINE f == NewFrame(kind, g, s)
<1>1. f \in Frame /\ Grown(cstack, cstack') /\ cstack'[Depth + 1] = f /\ WellFramed(cstack')
  <2>1. kind \in {"resume", "docatch", "callback"}
    OBVIOUS
  <2> HIDE DEF f
  <2>2. QED  BY <2>1, NewFrameLemma DEF f
<1>2. f.kind = kind /\ f.si = s /\ f.caller = cur
  BY DEF NewFrame
<1> HIDE DEF f
<1>3. Depth' = Depth + 1 /\ Depth \in Nat \ {0} /\ \A k \in 1 .. Depth : cstack'[k] = cstack[k]
  BY <1>1, Facts DEF Grown, Depth
<1>4. Activations(cstack') = Activations(cstack) \cup {Depth + 1}
  <2>1. f.kind # "docatch" /\ Len(cstack') = Len(cstack) + 1
    BY <1>2, <1>3 DEF Depth
  <2>2. \A k \in 1 .. Len(cstack') : k \in 1 .. Len(cstack) \/ k = Len(cstack) + 1
    BY <1>3, <2>1 DEF Depth
  <2>3. \A k \in 1 .. Len(cstack) : k \in 1 .. Len(cstack')
    BY <1>3, <2>1 DEF Depth
  <2>4. Len(cstack) + 1 \in 1 .. Len(cstack')
    BY <1>3, <2>1 DEF Depth
  <2>5. QED  BY <1>1, <1>3, <2>1, <2>2, <2>3, <2>4 DEF Activations, Depth
<1>5. cur = cstack[Loop].si /\ exc.stage = "none"
      /\ \A k \in Activations(cstack) \ {1} : chain.prev[cstack[k].si] # cur
  BY Innermost
<1>6. \A k \in Activations(cstack) : k \in 1 .. Depth /\ cstack[k].si \in SI
  BY Facts, Typing DEF Depth
<1>7. WellFramed(cstack) /\ OnPath(cstack, chain)
  BY DEF IndInv
<1>8. OnPath(cstack', chain')
  <2>1. chain.used \in Nat /\ chain'.used \in Nat
    BY Facts DEF Linked, Chain
  <2>2. f.caller = cstack[cstack[Len(cstack)].loop].si
    BY <1>2, <1>5 DEF Loop, Depth
  <2>3. \A k \in Activations(cstack) \ {1} : chain'.prev[cstack[k].si] = chain.prev[cstack[k].si]
    BY <1>5, <1>6
  <2>4. cstack'[Len(cstack) + 1] = f
    BY <1>1 DEF Depth
  <2>5. /\ f.kind # "docatch" /\ f.si <= chain'.used /\ chain'.prev[f.si] = f.caller
        /\ \A k \in Activations(cstack) : cstack[k].si # f.si
    BY <1>2
  <2>6. Grown(cstack, cstack') /\ WellFramed(cstack')
    BY <1>1
  <2>7. QED  BY <1>7, <2>1, <2>2, <2>3, <2>4, <2>5, <2>6, PathGrown
<1>9. Loop' = Depth + 1 /\ cur' = cstack'[Depth + 1].si
  <2>1. Loop' = f.loop
    BY <1>1, <1>3 DEF Loop
  <2>2. f.loop = Depth + 1
    BY DEF f, NewFrame
  <2>3. QED  BY <1>1, <1>2, <2>1, <2>2 DEF cur
<1>10. CurOK'
  BY <1>4, <1>9 DEF CurOK
<1>11. ContextsOK'
  <2>1. \A k \in Activations(cstack) : Aimed(cstack', k, cxs'[cstack'[k].si])
    <3>1. \A k \in Activations(cstack) :
             Aimed(cstack, k, cxs[cstack[k].si]) /\ cxs'[cstack[k].si] = cxs[cstack[k].si]
             /\ cstack'[k] = cstack[k] /\ k \in 1 .. Len(cstack)
      BY <1>3, <1>6 DEF IndInv, ContextsOK, Depth
    <3>2. QED  BY <3>1, <1>1, AimedGrown
  <2>2. Aimed(cstack', Depth + 1, cxs'[cstack'[Depth + 1].si])
    BY <1>1, <1>2
  <2>3. QED  BY <1>4, <2>1, <2>2 DEF ContextsOK
<1>12. DeliveryOK'
  BY <1>5 DEF DeliveryOK
<1>13. QED  BY <1>1, <1>3, <1>4, <1>8, <1>10, <1>11, <1>12 DEF f

\* Control goes back to the caller of activation k; all frames from k up go.
LEMMA ReturnKeeps ==
    ASSUME IndInv, NEW k \in Activations(cstack), k # 1,
           cstack' = SubSeq(cstack, 1, k - 1),
           Linked(chain'), chain.used <= chain'.used, chain'.cur = cstack[k].caller,
           \A j \in Activations(cstack) \ {1} :
               j < k => chain'.prev[cstack[j].si] = chain.prev[cstack[j].si],
           \A j \in Activations(cstack) :
               j < k => \/ cxs'[cstack[j].si] = cxs[cstack[j].si]
                        \/ cxs'[cstack[j].si] = <<>>,
           exc'.stage # "jump"
    PROVE  /\ Cut(cstack, cstack', k - 1)
           /\ k \in Nat /\ k - 1 \in 1 .. Depth /\ Depth' = k - 1
           /\ \A j \in 1 .. k - 1 : cstack'[j] = cstack[j]
           /\ Activations(cstack') = {j \in Activations(cstack) : j < k}
           /\ WellFramed(cstack') /\ OnPath(cstack', chain')
           /\ CurOK' /\ ContextsOK' /\ DeliveryOK'
<1>1. WellFramed(cstack) /\ OnPath(cstack, chain) /\ cstack \in Seq(Frame)
  BY DEF IndInv, TypeOK
<1>2. k \in Nat /\ k - 1 \in 1 .. Depth /\ k \in 1 .. Depth
  BY Facts
<1>3. Cut(cstack, cstack', k - 1)
  BY <1>1, <1>2, CutLemma DEF Depth
<1>4. Depth' = k - 1 /\ \A j \in 1 .. k - 1 : cstack'[j] = cstack[j]
  BY <1>3 DEF Cut, Depth
<1>5. Activations(cstack') = {j \in Activations(cstack) : j < k}
  <2>1. Len(cstack') = k - 1 /\ k - 1 \in 1 .. Len(cstack)
    BY <1>2, <1>4 DEF Depth
  <2>2. \A j \in 1 .. Len(cstack) : j \in 1 .. k - 1 <=> j < k
    BY <1>2 DEF Depth
  <2>3. \A j \in 1 .. k - 1 : j \in 1 .. Len(cstack)
    BY <2>1, <1>2
  <2>4. QED  BY <1>4, <2>1, <2>2, <2>3 DEF Activations
<1>6. WellFramed(cstack')
  BY <1>1, <1>3, CutWellFramed
<1>7. OnPath(cstack', chain')
  <2>1. chain.used \in Nat /\ chain'.used \in Nat
    BY Facts DEF Linked, Chain
  <2>2. \A j \in Activations(cstack) \ {1} :
           j <= k - 1 => chain'.prev[cstack[j].si] = chain.prev[cstack[j].si]
    BY <1>2, Facts
  <2>3. QED  BY <1>1, <1>3, <2>1, <2>2, PathCut
<1>8. Loop' \in Activations(cstack') /\ cur' = cstack'[Loop'].si
      /\ \A j \in Activations(cstack') : j <= Loop'
  <2>1. Loop' = cstack[k - 1].loop
    <3>1. Depth' = k - 1 /\ k - 1 \in 1 .. k - 1
      BY <1>2, <1>4
    <3>2. Loop' = cstack'[Depth'].loop
      BY DEF Loop
    <3>3. QED  BY <1>4, <3>1, <3>2
  <2>2. /\ cstack[k - 1].loop \in Activations(cstack) /\ cstack[k - 1].loop <= k - 1
        /\ \A j \in Activations(cstack) : j <= k - 1 => j <= cstack[k - 1].loop
    BY <1>1, <1>2, Framing DEF Depth
  <2>3. cstack[k - 1].loop \in 1 .. k - 1
    <3>1. cstack[k - 1].loop \in 1 .. Depth
      BY <2>2, Facts
    <3>2. QED  BY <1>2, <2>2, <3>1
  <2>4. cstack[k].caller = cstack[cstack[k - 1].loop].si
    BY <1>1 DEF OnPath
  <2>5. cstack[k - 1].loop \in Activations(cstack')
    BY <1>2, <1>5, <2>2, <2>3
  <2>6. \A j \in Activations(cstack') : j <= cstack[k - 1].loop
    <3>1. ASSUME NEW j \in Activations(cstack')  PROVE j <= k - 1 /\ j \in Activations(cstack)
      <4>1. j \in Activations(cstack) /\ j < k /\ j \in 1 .. Depth
        BY <1>5, Facts
      <4>2. QED  BY <1>2, <4>1
    <3>2. QED  BY <2>2, <3>1
  <2>7. cur' = cstack'[cstack[k - 1].loop].si
    <3>1. chain'.cur = cstack[cstack[k - 1].loop].si
      BY <2>4
    <3>2. cstack'[cstack[k - 1].loop] = cstack[cstack[k - 1].loop]
      BY <1>4, <2>3
    <3>3. QED  BY <3>1, <3>2 DEF cur
  <2>8. QED  BY <2>1, <2>5, <2>6, <2>7
<1>9. CurOK'
  BY <1>8 DEF CurOK
<1>10. \A j \in Activations(cstack') :
          j \in Activations(cstack) /\ j < k /\ cstack'[j] = cstack[j]
  BY <1>2, <1>4, <1>5, Facts
<1>11. ContextsOK'
  <2>1. k - 1 + 1 \in Activations(cstack)
    BY <1>2
  <2>2. ASSUME NEW j \in Activations(cstack')
        PROVE  Aimed(cstack', j, cxs'[cstack'[j].si])
    <3>1. Aimed(cstack, j, cxs[cstack[j].si])
      BY <1>10 DEF IndInv, ContextsOK
    <3>2. \/ cxs'[cstack'[j].si] = cxs[cstack[j].si]
          \/ cxs'[cstack'[j].si] = <<>>
      BY <1>10
    <3>3. Aimed(cstack', j, cxs[cstack[j].si])
      BY <1>1, <1>3, <2>1, <3>1, AimedBelow
    <3>4. QED  BY <3>2, <3>3, AimedEmpty
  <2>3. QED  BY <2>2 DEF ContextsOK
<1>12. DeliveryOK'
  <2>1. ASSUME NEW m \in Activations(cstack'), NEW j \in Activations(cstack'),
               cur' = cstack'[m].si, j > m
        PROVE  FALSE
    <3>0. \A i, k1 \in Activations(cstack') : cstack'[i].si = cstack'[k1].si => i = k1
      BY <1>7 DEF OnPath
    <3>1. m = Loop'
      BY <1>8, <2>1, <3>0
    <3>2. j <= m /\ j \in Nat /\ m \in Nat
      BY <1>8, <1>10, <3>1, Facts
    <3>3. QED  BY <2>1, <3>2
  <2>2. QED  BY <2>1 DEF DeliveryOK
<1>13. QED  BY <1>2, <1>3, <1>4, <1>5, <1>6, <1>7, <1>9, <1>11, <1>12

-----------------------------------------------------------------------------
\* What becomes of the suspended generators: those in G stop being suspended,
\* the others keep their blocks.
LEMMA ParkedKeeps ==
    ASSUME IndInv, NEW G \in SUBSET Generators,
           \A h \in Generators \ G : gen'[h] = gen[h],
           \A h \in G : FlagsOK(gen'[h]) /\ ~gen'[h].stackDetached,
           \A h \in Generators \ G :
               gen[h].stackDetached => SetAside(chain', cstack', gen[h].si)
    PROVE  ParkedOK'
<1>1. ParkedOK
  BY DEF IndInv
<1>2. \A h \in Generators : gen'[h].stackDetached => h \notin G
  OBVIOUS
<1>3. \A h \in Generators : FlagsOK(gen'[h])
  BY <1>1 DEF ParkedOK
<1>4. QED  BY <1>1, <1>2, <1>3 DEF ParkedOK

\* Hooks and owners when the frames from h up go, h being the last
\* generator_resume.
LEMMA ReturnOwned ==
    ASSUME IndInv, NEW h \in 1 .. Depth, cstack[h].kind = "resume",
           \A j \in 1 .. Depth : cstack[j].kind = "resume" => j <= h,
           Depth' = h - 1, \A j \in 1 .. h - 1 : cstack'[j] = cstack[j],
           gen'[cstack[h].gen].state # "RUNNING",
           \A g \in Generators \ {cstack[h].gen} : gen'[g] = gen[g],
           status = "running", status' = status
    PROVE  /\ OwnedOK'
           /\ InnermostHook(cstack', Depth', cstack[h].oldhook)
<1>1. h \in Nat /\ Depth \in Nat /\ h - 1 \in Nat
  BY Facts
<1>2. InnermostHook(cstack, h - 1, cstack[h].oldhook) /\ cstack[h].gen \in Generators
  BY DEF IndInv, WellFramed, FrameOK, Depth
<1>3. InnermostHook(cstack', Depth', cstack[h].oldhook)
  BY <1>1, <1>2 DEF InnermostHook
<1>4. OwnedOK
  BY DEF IndInv
<1>5. \A j \in 1 .. h - 1 : j \in 1 .. Depth /\ j # h
  BY <1>1
<1>6. \A j \in 1 .. h - 1 : cstack[j].kind = "resume" => cstack[j].gen \in Generators \ {cstack[h].gen}
  BY <1>4, <1>5 DEF OwnedOK, IndInv, WellFramed, FrameOK, Depth
<1>7. \A j \in 1 .. Depth' : cstack'[j].kind = "resume" => gen'[cstack'[j].gen].state = "RUNNING"
  BY <1>4, <1>5, <1>6 DEF OwnedOK
<1>8. \A i, j \in 1 .. Depth' : /\ cstack'[i].kind = "resume"
                                /\ cstack'[j].kind = "resume"
                                /\ cstack'[i].gen = cstack'[j].gen
                                => i = j
  BY <1>4, <1>5 DEF OwnedOK
<1>9. ASSUME NEW g \in Generators, gen'[g].state = "RUNNING"
      PROVE  \E j \in 1 .. Depth' : cstack'[j].kind = "resume" /\ cstack'[j].gen = g
  <2>1. g # cstack[h].gen /\ gen[g].state = "RUNNING"
    BY <1>9
  <2>2. PICK j \in 1 .. Depth : cstack[j].kind = "resume" /\ cstack[j].gen = g
    BY <1>4, <2>1 DEF OwnedOK
  <2>3. j \in 1 .. h - 1
    BY <1>1, <2>1, <2>2
  <2>4. QED  BY <2>2, <2>3
<1>10. QED  BY <1>3, <1>7, <1>8, <1>9 DEF OwnedOK

\* Hooks and owners when generator_resume is entered.
LEMMA EnterOwned ==
    ASSUME IndInv, NEW g \in Generators, gen[g].state # "RUNNING",
           Depth' = Depth + 1, \A j \in 1 .. Depth : cstack'[j] = cstack[j],
           cstack'[Depth + 1].kind = "resume", cstack'[Depth + 1].gen = g,
           gen'[g].state = "RUNNING",
           \A h \in Generators \ {g} : gen'[h] = gen[h],
           hook' = Depth + 1, status = "running", status' = status
    PROVE  OwnedOK' /\ HookOK'
<1>1. Depth \in Nat /\ \A j \in 1 .. Depth' : j \in 1 .. Depth \/ j = Depth + 1
  <2>1. Depth \in Nat
    BY Facts
  <2>2. QED  BY <2>1
<1>2. HookOK'
  BY <1>1 DEF HookOK, InnermostHook
<1>3. OwnedOK
  BY DEF IndInv
<1>4. \A j \in 1 .. Depth : cstack[j].kind = "resume" => cstack[j].gen \in Generators \ {g}
  BY <1>3 DEF OwnedOK, IndInv, WellFramed, FrameOK, Depth
<1>5. \A j \in 1 .. Depth' : cstack'[j].kind = "resume" => gen'[cstack'[j].gen].state = "RUNNING"
  BY <1>1, <1>3, <1>4 DEF OwnedOK
<1>6. \A i, j \in 1 .. Depth' : /\ cstack'[i].kind = "resume"
                                /\ cstack'[j].kind = "resume"
                                /\ cstack'[i].gen = cstack'[j].gen
                                => i = j
  BY <1>1, <1>3, <1>4 DEF OwnedOK
<1>7. ASSUME NEW h \in Generators, gen'[h].state = "RUNNING"
      PROVE  \E j \in 1 .. Depth' : cstack'[j].kind = "resume" /\ cstack'[j].gen = h
  <2>1. Depth + 1 \in 1 .. Depth' /\ \A j \in 1 .. Depth : j \in 1 .. Depth'
    BY <1>1
  <2>2. CASE h = g
    BY <2>1, <2>2
  <2>3. CASE h # g
    <3>1. PICK j \in 1 .. Depth : cstack[j].kind = "resume" /\ cstack[j].gen = h
      BY <1>3, <1>7, <2>3 DEF OwnedOK
    <3>2. QED  BY <2>1, <3>1
  <2>4. QED  BY <2>2, <2>3
<1>8. QED  BY <1>2, <1>5, <1>6, <1>7 DEF OwnedOK

\* Hooks and owners when frames that are not generator_resume's go, or come.
LEMMA SameOwned ==
    ASSUME IndInv, Depth' \in Nat,
           \A j \in 1 .. Depth : j \in 1 .. Depth' => cstack'[j] = cstack[j],
           \A j \in 1 .. Depth : j > Depth' => cstack[j].kind # "resume",
           \A j \in 1 .. Depth' : j > Depth => cstack'[j].kind # "resume",
           \A g \in Generators : gen'[g].state = "RUNNING" <=> gen[g].state = "RUNNING",
           hook' = hook, status' = "destruct" => Depth' = 1
    PROVE  OwnedOK' /\ HookOK'
<1>1. Depth \in Nat /\ HookOK /\ OwnedOK
  BY Facts DEF IndInv
<1>2. \A j \in 1 .. Depth' : cstack'[j].kind = "resume" => j \in 1 .. Depth /\ cstack'[j] = cstack[j]
  BY <1>1
<1>3. \A j \in 1 .. Depth : cstack[j].kind = "resume" => j \in 1 .. Depth' /\ cstack'[j] = cstack[j]
  BY <1>1
<1>4. HookOK'
  <2>1. hook \in 0 .. Depth /\ (hook # 0 => cstack[hook].kind = "resume")
        /\ \A j \in 1 .. Depth : cstack[j].kind = "resume" => j <= hook
    BY <1>1 DEF HookOK, InnermostHook
  <2>2. hook # 0 => hook \in 1 .. Depth
    BY <1>1, <2>1
  <2>3. hook \in 0 .. Depth' /\ (hook # 0 => cstack'[hook].kind = "resume")
    BY <1>1, <1>3, <2>1, <2>2
  <2>4. \A j \in 1 .. Depth' : cstack'[j].kind = "resume" => j <= hook
    BY <1>2, <2>1
  <2>5. QED  BY <2>3, <2>4 DEF HookOK, InnermostHook
<1>5. \A j \in 1 .. Depth : cstack[j].kind = "resume" => cstack[j].gen \in Generators
  BY DEF IndInv, WellFramed, FrameOK, Depth
<1>6. \A g \in Generators : gen'[g].state = "RUNNING" =>
         \E k \in 1 .. Depth' : cstack'[k].kind = "resume" /\ cstack'[k].gen = g
  BY <1>1, <1>3 DEF OwnedOK
<1>7. QED  BY <1>1, <1>2, <1>4, <1>5, <1>6 DEF OwnedOK

-----------------------------------------------------------------------------
\* Types of updates that several actions make.

\* Writing one generator record changes that record only.
LEMMA GenUpdate ==
    ASSUME TypeOK, NEW g \in Generators, NEW r \in GenRecord,
           gen' = [gen EXCEPT ![g] = r]
    PROVE  /\ gen' \in [Generators -> GenRecord]
           /\ gen'[g] = r
           /\ \A h \in Generators \ {g} : gen'[h] = gen[h]
<1> HIDE DEF GenRecord
<1> QED  BY DEF TypeOK

\* Writing one context stack changes that stack only.
LEMMA CxsUpdate ==
    ASSUME TypeOK, NEW s \in SI, NEW stack \in Seq(Context),
           cxs' = [cxs EXCEPT ![s] = stack]
    PROVE  /\ cxs' \in [SI -> Seq(Context)]
           /\ cxs'[s] = stack
           /\ \A t \in SI : t # s => cxs'[t] = cxs[t]
<1> HIDE DEF Context
<1> QED  BY DEF TypeOK

\* The fields of a generator record have their types.
LEMMA GenFields ==
    ASSUME TypeOK, NEW g \in Generators
    PROVE  /\ gen[g].state \in States /\ gen[g].captured \in BOOLEAN
           /\ gen[g].yieldPending \in BOOLEAN /\ gen[g].stackPushed \in BOOLEAN
           /\ gen[g].stackDetached \in BOOLEAN /\ gen[g].evalActive \in BOOLEAN
           /\ gen[g].defav \in Arrays /\ gen[g].si \in SI \cup {NULL}
           /\ gen[g] = [state |-> gen[g].state, captured |-> gen[g].captured,
                        yieldPending |-> gen[g].yieldPending,
                        stackPushed |-> gen[g].stackPushed,
                        stackDetached |-> gen[g].stackDetached,
                        evalActive |-> gen[g].evalActive,
                        defav |-> gen[g].defav, si |-> gen[g].si]
<1>1. gen[g] \in GenRecord
  BY DEF TypeOK
<1>2. QED  BY <1>1 DEF GenRecord

\* A new record and a freed one are records, with no flag set.
LEMMA FreshGenType ==
    ASSUME NEW g \in Generators
    PROVE  /\ FreshGen(g) \in GenRecord /\ FlagsOK(FreshGen(g))
           /\ AbsentGen(g) \in GenRecord /\ FlagsOK(AbsentGen(g))
           /\ FreshGen(g).state = "NEW" /\ ~FreshGen(g).stackDetached
           /\ AbsentGen(g).state = "ABSENT" /\ ~AbsentGen(g).stackDetached
<1>1. OwnArray(g) \in Arrays
  BY DEF OwnArray, Arrays
<1>2. QED  BY <1>1 DEF FreshGen, AbsentGen, GenRecord, States, FlagsOK, NULL

\* The exceptions that are raised are exceptions.
LEMMA RaisedType ==
    ASSUME NEW kind \in {"die", "exit"}
    PROVE  Raised(kind) \in Exception /\ Raised(kind).stage = "unwind"
           /\ NoException \in Exception /\ NoException.stage = "none"
<1>1. 0 \in FrameIndex
  BY GeneratorAssumption DEF FrameIndex
<1>2. QED  BY <1>1 DEF Raised, NoException, Exception

-----------------------------------------------------------------------------
\* The actions.

\* The invariant holds when the program starts.
LEMMA InitIndInv ==
    ASSUME Init  PROVE IndInv
<1>1. InitChain \in Chain /\ DoublyLinked(InitChain) /\ FreshUnlinked(InitChain)
  BY MaxSIAssumption DEF InitChain, Chain, DoublyLinked, FreshUnlinked, SI, NULL, Main
<1>2. chain = InitChain /\ cur = Main /\ chain.used = 1
  BY DEF Init, InitChain, cur
<1>3. MainArgs \in Arrays /\ 0 \in FrameIndex /\ 1 \in FrameIndex /\ Main \in SI
  BY GeneratorAssumption, MaxSIAssumption DEF MainArgs, Arrays, FrameIndex, Main, SI
<1>4. MainFrame \in Frame
  BY <1>3 DEF MainFrame, Frame, Kinds
<1>5. Len(cstack) = 1 /\ cstack[1] = MainFrame /\ cstack \in Seq(Frame)
  <2> HIDE DEF MainFrame, Frame
  <2> QED  BY <1>4 DEF Init
<1>6. \A g \in Generators : gen[g] = AbsentGen(g)
  BY DEF Init
<1>7. TypeOK
  <2>1. gen \in [Generators -> GenRecord]
    BY <1>6, FreshGenType DEF Init
  <2>2. chain \in Chain /\ cxs \in [SI -> Seq(Context)] /\ cstack \in Seq(Frame)
    BY <1>1, <1>2, <1>5, EmptySeq DEF Init
  <2>3. hook \in FrameIndex /\ gvav \in Arrays /\ depth \in [Bodies -> Nat]
    BY <1>3 DEF Init
  <2>4. exc \in Exception /\ status \in Statuses
    BY RaisedType DEF Init, Statuses
  <2>5. QED  BY <2>1, <2>2, <2>3, <2>4 DEF TypeOK
<1>8. Activations(cstack) = {1}
  BY <1>5 DEF Activations, MainFrame
<1>9. WellFramed(cstack)
  BY <1>5, GeneratorAssumption DEF WellFramed, FrameOK, InnermostHook, MainFrame
<1>10. HookOK /\ OwnedOK
  BY <1>5, <1>6, FreshGenType DEF Init, HookOK, InnermostHook, OwnedOK, MainFrame, Depth
<1>11. OnPath(cstack, chain) /\ CurOK
  BY <1>2, <1>5, <1>8 DEF OnPath, CurOK, MainFrame, Main, Loop, Depth
<1>12. ParkedOK
  BY <1>6, FreshGenType DEF ParkedOK
<1>13. ContextsOK
  BY <1>3, <1>5, <1>8, AimedEmpty DEF Init, ContextsOK, MainFrame
<1>14. DeliveryOK
  BY DEF Init, DeliveryOK, NoException
<1>15. QED  BY <1>1, <1>2, <1>7, <1>9, <1>10, <1>11, <1>12, <1>13, <1>14 DEF IndInv, ChainLinked

\* Nothing that touches neither stack nor list nor exception disturbs them.
LEMMA SameStacks ==
    ASSUME IndInv, UNCHANGED <<chain, cxs, cstack, exc>>, status' = status
    PROVE  /\ ChainLinked' /\ WellFramed(cstack') /\ OnPath(cstack', chain')
           /\ CurOK' /\ ContextsOK' /\ DeliveryOK'
           /\ Depth' = Depth /\ Depth \in Nat
<1>1. cur' = cur /\ Depth' = Depth /\ Loop' = Loop /\ TopEnv' = TopEnv
      /\ (Executing' <=> Executing)
  BY DEF cur, Depth, Loop, TopEnv, Executing
<1>2. ContextsOK'
  BY DEF IndInv, ContextsOK
<1>3. DeliveryOK'
  BY <1>1 DEF IndInv, DeliveryOK
<1>4. ChainLinked' /\ WellFramed(cstack') /\ OnPath(cstack', chain') /\ CurOK'
  BY <1>1 DEF IndInv, ChainLinked, CurOK
<1>5. QED  BY <1>1, <1>2, <1>3, <1>4, Facts

\* gen BLOCK: only a record is made.
LEMMA MakeStep ==
    ASSUME IndInv, NEW g \in Generators, Make(g)  PROVE IndInv'
<1>1. /\ ChainLinked' /\ WellFramed(cstack') /\ OnPath(cstack', chain')
      /\ CurOK' /\ ContextsOK' /\ DeliveryOK' /\ Depth' = Depth /\ Depth \in Nat
  BY SameStacks DEF Make
<1>2. TypeOK /\ gen[g].state = "ABSENT" /\ status' = status /\ cstack' = cstack /\ chain' = chain
      /\ hook' = hook /\ OwnedOK /\ ParkedOK
  BY DEF Make, IndInv
<1>3. /\ gen' \in [Generators -> GenRecord]
      /\ gen'[g] = FreshGen(g)
      /\ \A h \in Generators \ {g} : gen'[h] = gen[h]
  BY <1>2, FreshGenType, GenUpdate DEF Make
<1>4. TypeOK'
  BY <1>2, <1>3 DEF TypeOK, Make
<1>5. ParkedOK'
  BY <1>2, <1>3, FreshGenType, ParkedKeeps DEF ParkedOK
<1>6. OwnedOK' /\ HookOK'
  BY <1>1, <1>2, <1>3, FreshGenType, SameOwned DEF OwnedOK
<1>7. QED  BY <1>1, <1>4, <1>5, <1>6 DEF IndInv

\* The block that push_stackinfo switches to is used by no activation and set
\* aside by no generator.
LEMMA PushFresh ==
    ASSUME IndInv, Executing, CanPush(chain)
    PROVE  /\ PushTarget(chain) \in SI
           /\ \A k \in Activations(cstack) : cstack[k].si # PushTarget(chain)
           /\ \A t \in SI : t # PushTarget(chain) =>
                 Pushed(chain).prev[t] = chain.prev[t]
           /\ Pushed(chain).prev[PushTarget(chain)] = cur
           /\ Linked(Pushed(chain)) /\ Pushed(chain).cur = PushTarget(chain)
           /\ PushTarget(chain) <= Pushed(chain).used
           /\ chain.used <= Pushed(chain).used
           /\ \A s \in SI : SetAside(chain, cstack, s) =>
                 s # PushTarget(chain) /\ SetAside(Pushed(chain), cstack, s)
<1> DEFINE n == PushTarget(chain)
           c == Pushed(chain)
<1>1. Linked(chain) /\ cur <= chain.used /\ cur \in SI /\ chain.used \in SI /\ SI \subseteq Nat
  BY Facts
<1>2. /\ Linked(c)
      /\ n \in SI \ {Main}
      /\ n = c.cur
      /\ n <= c.used
      /\ chain.used <= c.used
      /\ c.prev[n] = cur
      /\ \A s \in SI : s # n => c.prev[s] = chain.prev[s]
      /\ \A s \in SI : s # n /\ s # cur => c.next[s] = chain.next[s]
      /\ n <= chain.used => chain.prev[n] = cur
  BY <1>1, PushedLemma DEF cur
<1> HIDE DEF n, c
<1>3. \A k \in Activations(cstack) \ {1} : chain.prev[cstack[k].si] # cur
  BY Innermost
<1>4. \A k \in Activations(cstack) : cstack[k].si <= chain.used
  BY DEF IndInv, OnPath
<1>5. cstack[1].si = Main
  BY DEF IndInv, WellFramed
<1>6. \A k \in Activations(cstack) : cstack[k].si # n
  BY <1>2, <1>3, <1>4, <1>5
<1>7. ASSUME NEW s \in SI, SetAside(chain, cstack, s)
      PROVE  s # n /\ SetAside(c, cstack, s)
  <2>1. /\ s # Main /\ s <= chain.used /\ chain.prev[s] = NULL /\ chain.next[s] = NULL
        /\ \A k \in Activations(cstack) : cstack[k].si # s
    BY <1>7 DEF SetAside, Isolated
  <2>2. cur # NULL
    BY <1>1 DEF SI, NULL
  <2>3. s # n
    BY <1>2, <2>1, <2>2
  <2>4. s # cur
    BY <2>1, Innermost, Facts
  <2>5. c.prev[s] = NULL /\ c.next[s] = NULL
    BY <1>2, <2>1, <2>3, <2>4
  <2>6. c.used \in SI
    BY <1>2 DEF Linked, Chain
  <2>7. s <= c.used
    BY <1>1, <1>2, <2>1, <2>6
  <2>8. QED  BY <2>1, <2>3, <2>5, <2>7 DEF SetAside, Isolated
<1>8. QED  BY <1>2, <1>6, <1>7 DEF n, c

\* What is set aside stays so when an activation enters on another block.
LEMMA AsideEntered ==
    ASSUME NEW c, NEW cs, NEW d, NEW n, Activations(d) = Activations(cs) \cup {n},
           \A k \in Activations(cs) : d[k] = cs[k],
           NEW s, SetAside(c, cs, s), d[n].si # s
    PROVE  SetAside(c, d, s)
BY DEF SetAside

\* The first call enters a frame on a pushed block.
LEMMA StartStep ==
    ASSUME IndInv, NEW g \in Generators, Start(g)  PROVE IndInv'
<1> DEFINE s == PushTarget(chain)
           f == NewFrame("resume", g, s)
           fake == EvalContext("FAKE", Depth + 1)
           body == BodyContext(gen[g].defav, BodyOf[g], depth[BodyOf[g]])
<1>1. /\ Executing /\ gen[g].state = "NEW" /\ CanPush(chain) /\ Depth < MaxFrames
      /\ chain' = Pushed(chain)
      /\ cxs' = [cxs EXCEPT ![s] = <<fake, body>>]
      /\ cstack' = Append(cstack, f)
      /\ hook' = Depth + 1
      /\ gvav' = BodyArgs(g)
      /\ depth' = [depth EXCEPT ![BodyOf[g]] = @ + 1]
      /\ exc' = exc /\ status' = status
      /\ TypeOK /\ ParkedOK
  BY DEF Start, IndInv
<1>2. /\ s \in SI
      /\ \A k \in Activations(cstack) : cstack[k].si # s
      /\ \A t \in SI : t # s => chain'.prev[t] = chain.prev[t]
      /\ chain'.prev[s] = cur /\ Linked(chain') /\ chain'.cur = s
      /\ s <= chain'.used /\ chain.used <= chain'.used
      /\ \A t \in SI : SetAside(chain, cstack, t) => t # s /\ SetAside(chain', cstack, t)
  BY <1>1, PushFresh
<1>3. /\ gen[g].defav \in Arrays /\ gvav \in Arrays /\ cur \in SI
      /\ BodyOf[g] \in Bodies /\ depth[BodyOf[g]] \in Nat /\ Depth + 1 \in FrameIndex
      /\ Depth \in Nat \ {0}
  <2>1. Depth \in Nat \ {0} /\ MaxFrames \in Nat /\ cur \in SI
    BY Facts
  <2>2. Depth + 1 \in FrameIndex
    BY <1>1, <2>1 DEF FrameIndex
  <2>3. gen[g].defav \in Arrays /\ gvav \in Arrays
    BY <1>1, GenFields DEF TypeOK
  <2>4. BodyOf[g] \in Bodies /\ depth[BodyOf[g]] \in Nat
    BY <1>1, GeneratorAssumption DEF TypeOK
  <2>5. QED  BY <2>1, <2>2, <2>3, <2>4
<1>4. /\ fake \in Context /\ fake.type = "FAKE" /\ fake.env = Depth + 1
      /\ body \in Context /\ body.type = "BODY"
  BY <1>3 DEF EvalContext, BodyContext, Context, EvalContexts, BodyContexts, EvalTypes
<1> HIDE DEF fake, body, f
<1>5. <<fake, body>> \in Seq(Context)
  <2> HIDE DEF Context
  <2> QED  BY <1>4
<1> HIDE DEF s
<1>6. /\ cxs' \in [SI -> Seq(Context)] /\ cxs'[s] = <<fake, body>>
      /\ \A t \in SI : t # s => cxs'[t] = cxs[t]
  BY <1>1, <1>2, <1>5, CxsUpdate
<1>7. f \in Frame /\ cstack'[Depth + 1] = f /\ f.kind = "resume" /\ f.gen = g /\ f.si = s
      /\ f.loop = Depth + 1 /\ cstack' \in Seq(Frame)
  <2>1. f \in Frame /\ cstack'[Depth + 1] = f /\ Grown(cstack, cstack')
    BY <1>1, <1>2, NewFrameLemma DEF f
  <2>2. QED  BY <2>1 DEF f, NewFrame, Grown
<1>8. Aimed(cstack', Depth + 1, cxs'[s])
  <2>1. Len(cstack') = Depth + 1
    BY <1>1, <1>7, AppendProperties, Facts DEF Depth
  <2>2. \A i \in DOMAIN cxs'[s] : i = 1 \/ i = 2
    BY <1>6
  <2>3. cxs'[s][1] = fake /\ cxs'[s][2] = body
    BY <1>6
  <2>4. QED  BY <1>3, <1>4, <1>7, <2>1, <2>2, <2>3 DEF Aimed, EvalTypes
<1>9. /\ Grown(cstack, cstack')
      /\ Depth' = Depth + 1
      /\ Activations(cstack') = Activations(cstack) \cup {Depth + 1}
      /\ WellFramed(cstack') /\ OnPath(cstack', chain')
      /\ CurOK' /\ ContextsOK' /\ DeliveryOK'
  BY <1>1, <1>2, <1>6, <1>8, EnterKeeps DEF f
<1>10. \A k \in 1 .. Depth : cstack'[k] = cstack[k]
  BY <1>9 DEF Grown, Depth
<1> DEFINE r == [gen[g] EXCEPT !.state = "RUNNING", !.captured = FALSE,
                               !.yieldPending = FALSE, !.stackPushed = TRUE,
                               !.evalActive = TRUE, !.defav = gvav, !.si = cur]
<1>11. r \in GenRecord /\ FlagsOK(r) /\ ~r.stackDetached /\ r.state = "RUNNING"
  <2>1. FlagsOK(gen[g])
    BY <1>1 DEF ParkedOK
  <2>2. /\ gen[g].yieldPending \in BOOLEAN /\ gen[g].stackDetached = FALSE
        /\ gen[g] \in GenRecord
    BY <1>1, <2>1, GenFields DEF FlagsOK, TypeOK
  <2>3. r \in GenRecord
    BY <1>3, <2>2 DEF GenRecord, States
  <2>4. /\ r.state = "RUNNING" /\ r.captured = FALSE /\ r.stackPushed = TRUE
        /\ r.stackDetached = FALSE
    BY <2>2 DEF GenRecord
  <2>5. QED  BY <2>3, <2>4 DEF FlagsOK
<1>12. gen' = [gen EXCEPT ![g] = r]
  BY DEF Start
<1> HIDE DEF r
<1>13. /\ gen' \in [Generators -> GenRecord] /\ gen'[g] = r
       /\ \A h \in Generators \ {g} : gen'[h] = gen[h]
  BY <1>1, <1>11, <1>12, GenUpdate
<1>14. OwnedOK' /\ HookOK'
  BY <1>1, <1>7, <1>9, <1>10, <1>11, <1>13, EnterOwned DEF Executing
<1>15. ParkedOK'
  <2>1. \A k \in Activations(cstack) : cstack'[k] = cstack[k]
    BY <1>10, Facts
  <2>2. ASSUME NEW h \in Generators \ {g}, gen[h].stackDetached
        PROVE  SetAside(chain', cstack', gen[h].si)
    <3>1. SetAside(chain, cstack, gen[h].si) /\ gen[h].si \in SI
      BY <1>1, <2>2 DEF ParkedOK, SetAside
    <3>2. gen[h].si # s /\ SetAside(chain', cstack, gen[h].si)
      BY <1>2, <3>1
    <3>3. cstack'[Depth + 1].si # gen[h].si
      BY <1>7, <3>2
    <3>4. QED  BY <1>9, <2>1, <3>2, <3>3, AsideEntered
  <2>3. {g} \in SUBSET Generators /\ \A h \in {g} : FlagsOK(gen'[h]) /\ ~gen'[h].stackDetached
    BY <1>11, <1>13
  <2>4. QED  BY <1>13, <2>2, <2>3, ParkedKeeps
<1>16. TypeOK'
  <2>1. chain' \in Chain
    BY <1>2 DEF Linked
  <2>2. hook' \in FrameIndex /\ gvav' \in Arrays
    BY <1>1, <1>3 DEF BodyArgs, Arrays
  <2>3. depth' \in [Bodies -> Nat]
    BY <1>1, <1>3 DEF TypeOK
  <2>4. exc' \in Exception /\ status' \in Statuses
    BY <1>1 DEF TypeOK
  <2>5. QED  BY <1>6, <1>7, <1>13, <2>1, <2>2, <2>3, <2>4 DEF TypeOK
<1>17. ChainLinked'
  BY <1>2 DEF Linked, ChainLinked
<1>18. QED  BY <1>9, <1>14, <1>15, <1>16, <1>17 DEF IndInv

\* Attaching a block that was set aside: it hangs off the current one, and the
\* other blocks that are set aside stay so.
LEMMA AttachAside ==
    ASSUME IndInv, NEW s, SetAside(chain, cstack, s)
    PROVE  /\ Linked(Attached(chain, s))
           /\ Attached(chain, s).cur = cur /\ s # cur /\ s \in SI
           /\ Attached(chain, s).used = chain.used
           /\ Attached(chain, s).prev[s] = cur
           /\ \A t \in SI : t # s /\ chain.prev[t] # cur
                               => Attached(chain, s).prev[t] = chain.prev[t]
           /\ \A t \in SI : t # s /\ SetAside(chain, cstack, t)
                               => SetAside(Attached(chain, s), cstack, t)
<1> DEFINE c == Attached(chain, s)
<1>1. /\ s \in SI \ {Main} /\ s <= chain.used /\ Isolated(chain, s)
      /\ \A k \in Activations(cstack) : cstack[k].si # s
  BY DEF SetAside
<1>2. s # cur
  BY <1>1 DEF IndInv, CurOK
<1>3. Linked(chain) /\ cur <= chain.used
  BY Facts
<1>4. /\ Linked(c) /\ c.cur = cur /\ c.used = chain.used /\ c.prev[s] = cur
      /\ \A t \in SI : t # s /\ chain.prev[t] # cur => c.prev[t] = chain.prev[t]
      /\ \A t \in SI : Isolated(chain, t) /\ t # s /\ t # cur => Isolated(c, t)
  BY <1>1, <1>2, <1>3, AttachedLemma DEF cur
<1> HIDE DEF c
<1>5. ASSUME NEW t \in SI, t # s, SetAside(chain, cstack, t)
      PROVE  SetAside(c, cstack, t)
  <2>1. t # cur
    BY <1>5 DEF SetAside, IndInv, CurOK
  <2>2. QED  BY <1>4, <1>5, <2>1 DEF SetAside
<1>6. QED  BY <1>1, <1>2, <1>4, <1>5 DEF c

\* Whatever is set aside does not depend on which block is current.
LEMMA SwitchedAside ==
    ASSUME NEW c, Linked(c), NEW s \in SI, NEW cs, NEW t
    PROVE  SetAside(SwitchedTo(c, s), cs, t) <=> SetAside(c, cs, t)
BY SwitchedLemma DEF SetAside, Isolated

\* A generator that can be resumed has a block set aside.
LEMMA ResumableParked ==
    ASSUME IndInv, NEW g \in Generators, Resumable(g)
    PROVE  /\ gen[g].state = "YIELDED" /\ gen[g].stackDetached
           /\ SetAside(chain, cstack, gen[g].si)
BY DEF IndInv, ParkedOK, FlagsOK, Resumable

\* A later call enters a frame on the block that was set aside.
LEMMA ResumeStep ==
    ASSUME IndInv, NEW g \in Generators, Resume(g)  PROVE IndInv'
<1> DEFINE s == gen[g].si
           f == NewFrame("resume", g, s)
           stack == cxs[s]
           aimed == [i \in DOMAIN stack |->
                        IF stack[i].type \in EvalTypes
                        THEN [stack[i] EXCEPT !.env = Depth + 1] ELSE stack[i]]
<1>1. /\ gen[g].state = "YIELDED" /\ gen[g].stackDetached
      /\ SetAside(chain, cstack, s)
  BY ResumableParked DEF Resume
<1>2. /\ Executing /\ Depth < MaxFrames
      /\ chain' = SwitchedTo(Attached(chain, s), s)
      /\ cxs' = [cxs EXCEPT ![s] = aimed]
      /\ cstack' = Append(cstack, f)
      /\ hook' = Depth + 1
      /\ gvav' = gen[g].defav
      /\ depth' = depth /\ exc' = exc /\ status' = status
      /\ TypeOK /\ ParkedOK
  BY <1>1 DEF Resume, IndInv
<1>3. /\ s \in SI /\ \A k \in Activations(cstack) : cstack[k].si # s
  BY <1>1 DEF SetAside
<1>4. /\ Linked(Attached(chain, s)) /\ Attached(chain, s).used = chain.used
      /\ Attached(chain, s).prev[s] = cur
      /\ \A t \in SI : t # s /\ chain.prev[t] # cur => Attached(chain, s).prev[t] = chain.prev[t]
      /\ \A t \in SI : t # s /\ SetAside(chain, cstack, t)
                          => SetAside(Attached(chain, s), cstack, t)
  BY <1>1, AttachAside
<1>5. /\ Linked(chain') /\ chain'.cur = s /\ chain'.used = chain.used
      /\ chain'.prev[s] = cur
      /\ \A t \in SI : t # s /\ chain.prev[t] # cur => chain'.prev[t] = chain.prev[t]
      /\ \A t \in SI : t # s /\ SetAside(chain, cstack, t) => SetAside(chain', cstack, t)
  <2>1. PICK a : a = Attached(chain, s)
    OBVIOUS
  <2>2. Linked(a) /\ s \in SI /\ chain' = SwitchedTo(a, s)
    BY <1>2, <1>3, <1>4, <2>1
  <2>3. /\ Linked(chain') /\ chain'.cur = s /\ chain'.used = a.used /\ chain'.prev = a.prev
        /\ \A t : SetAside(chain', cstack, t) <=> SetAside(a, cstack, t)
    BY ONLY <2>2, SwitchedLemma, SwitchedAside
  <2>4. QED  BY <1>4, <2>1, <2>3
<1>6. /\ gen[g].defav \in Arrays /\ gvav \in Arrays /\ Depth + 1 \in FrameIndex
      /\ Depth \in Nat \ {0} /\ SI \subseteq Nat /\ chain.used \in SI
  <2>1. Depth \in Nat \ {0} /\ MaxFrames \in Nat /\ SI \subseteq Nat /\ chain.used \in SI
    BY Facts
  <2>2. Depth + 1 \in FrameIndex
    BY <1>2, <2>1 DEF FrameIndex
  <2>3. gen[g].defav \in Arrays /\ gvav \in Arrays
    BY <1>2, GenFields DEF TypeOK
  <2>4. QED  BY <2>1, <2>2, <2>3
<1>7. stack \in Seq(Context) /\ DOMAIN stack = 1 .. Len(stack) /\ Len(stack) \in Nat
  <2>1. stack \in Seq(Context)
    BY <1>2, <1>3 DEF TypeOK
  <2>2. QED  BY <2>1, LenProperties
<1>8. \A i \in DOMAIN stack : stack[i] \in Context
  <2> HIDE DEF Context, stack
  <2> QED  BY <1>7, ElementOfSeq
<1> HIDE DEF f, s, stack
<1>9. ASSUME NEW i \in DOMAIN stack
      PROVE  /\ aimed[i] \in Context
             /\ aimed[i].type = stack[i].type
             /\ aimed[i].type \in EvalTypes => aimed[i].env = Depth + 1
  <2>1. CASE stack[i].type \in EvalTypes
    <3>1. stack[i] \in EvalContexts
      BY <1>8, <2>1 DEF Context, BodyContexts, EvalTypes
    <3>2. aimed[i] = [stack[i] EXCEPT !.env = Depth + 1]
      BY <2>1
    <3>3. QED  BY <1>6, <3>1, <3>2 DEF Context, EvalContexts
  <2>2. CASE stack[i].type \notin EvalTypes
    BY <1>8, <2>2
  <2>3. QED  BY <2>1, <2>2
<1>10. aimed \in Seq(Context) /\ DOMAIN aimed = DOMAIN stack
  <2>1. DOMAIN aimed = 1 .. Len(stack) /\ \A i \in 1 .. Len(stack) : aimed[i] \in Context
    BY <1>7, <1>9
  <2> HIDE DEF Context
  <2>2. aimed = [i \in DOMAIN aimed |-> aimed[i]]
    OBVIOUS
  <2> HIDE DEF aimed
  <2>3. aimed \in [1 .. Len(stack) -> Context]
    BY <2>1, <2>2
  <2>4. aimed \in Seq(Context)
    BY <1>7, <2>3
  <2>5. QED  BY <1>7, <2>1, <2>4
<1> HIDE DEF aimed
<1>11. /\ cxs' \in [SI -> Seq(Context)] /\ cxs'[s] = aimed
       /\ \A t \in SI : t # s => cxs'[t] = cxs[t]
  BY <1>2, <1>3, <1>10, CxsUpdate
<1>12. f \in Frame /\ cstack'[Depth + 1] = f /\ f.kind = "resume" /\ f.gen = g /\ f.si = s
       /\ f.loop = Depth + 1 /\ cstack' \in Seq(Frame)
  <2>1. f \in Frame /\ cstack'[Depth + 1] = f /\ Grown(cstack, cstack')
    BY <1>2, <1>3, NewFrameLemma DEF f
  <2>2. QED  BY <2>1 DEF f, NewFrame, Grown
<1>13. Aimed(cstack', Depth + 1, cxs'[s])
  <2>1. Len(cstack') = Depth + 1
    BY <1>2, <1>12, AppendProperties, Facts DEF Depth
  <2>2. QED  BY <1>6, <1>9, <1>10, <1>11, <1>12, <2>1 DEF Aimed
<1>14. /\ Grown(cstack, cstack')
       /\ Depth' = Depth + 1
       /\ Activations(cstack') = Activations(cstack) \cup {Depth + 1}
       /\ WellFramed(cstack') /\ OnPath(cstack', chain')
       /\ CurOK' /\ ContextsOK' /\ DeliveryOK'
  <2>1. s <= chain'.used /\ chain.used <= chain'.used
    <3>1. s <= chain.used
      BY <1>1 DEF SetAside
    <3>2. chain.used \in Nat
      BY <1>6
    <3>3. QED  BY <1>5, <3>1, <3>2
  <2>2. QED  BY <1>2, <1>3, <1>5, <1>11, <1>13, <2>1, EnterKeeps DEF f
<1>15. \A k \in 1 .. Depth : cstack'[k] = cstack[k]
  BY <1>14 DEF Grown, Depth
<1> DEFINE r == [gen[g] EXCEPT !.state = "RUNNING", !.captured = FALSE,
                               !.yieldPending = FALSE, !.stackDetached = FALSE,
                               !.defav = gvav]
<1>16. r \in GenRecord /\ FlagsOK(r) /\ ~r.stackDetached /\ r.state = "RUNNING"
  <2>1. gen[g].stackPushed = TRUE /\ gen[g] \in GenRecord
    BY <1>1, <1>2, GenFields DEF FlagsOK, ParkedOK, TypeOK
  <2>2. r \in GenRecord
    BY <1>6, <2>1 DEF GenRecord, States
  <2>3. /\ r.state = "RUNNING" /\ r.captured = FALSE /\ r.stackPushed = TRUE
        /\ r.stackDetached = FALSE
    BY <2>1 DEF GenRecord
  <2>4. QED  BY <2>2, <2>3 DEF FlagsOK
<1>17. gen' = [gen EXCEPT ![g] = r]
  BY DEF Resume
<1> HIDE DEF r
<1>18. /\ gen' \in [Generators -> GenRecord] /\ gen'[g] = r
       /\ \A h \in Generators \ {g} : gen'[h] = gen[h]
  BY <1>2, <1>16, <1>17, GenUpdate
<1>19. OwnedOK' /\ HookOK'
  BY <1>1, <1>2, <1>12, <1>14, <1>15, <1>16, <1>18, EnterOwned DEF Executing
<1>20. ParkedOK'
  <2>1. \A k \in Activations(cstack) : cstack'[k] = cstack[k]
    BY <1>15, Facts
  <2>2. ASSUME NEW h \in Generators \ {g}, gen[h].stackDetached
        PROVE  SetAside(chain', cstack', gen[h].si)
    <3>1. SetAside(chain, cstack, gen[h].si) /\ gen[h].si \in SI /\ gen[h].si # s
      BY <1>1, <1>2, <2>2 DEF ParkedOK, SetAside, s
    <3>2. SetAside(chain', cstack, gen[h].si)
      BY <1>5, <3>1
    <3>3. cstack'[Depth + 1].si # gen[h].si
      BY <1>12, <3>1
    <3>4. QED  BY <1>14, <2>1, <3>2, <3>3, AsideEntered
  <2>3. {g} \in SUBSET Generators /\ \A h \in {g} : FlagsOK(gen'[h]) /\ ~gen'[h].stackDetached
    BY <1>16, <1>18
  <2>4. QED  BY <1>18, <2>2, <2>3, ParkedKeeps
<1>21. TypeOK'
  <2>1. chain' \in Chain
    BY <1>5 DEF Linked
  <2>2. hook' \in FrameIndex /\ gvav' \in Arrays
    BY <1>2, <1>6
  <2>3. depth' \in [Bodies -> Nat] /\ exc' \in Exception /\ status' \in Statuses
    BY <1>2 DEF TypeOK
  <2>4. QED  BY <1>11, <1>12, <1>18, <2>1, <2>2, <2>3 DEF TypeOK
<1>22. ChainLinked'
  BY <1>5 DEF Linked, ChainLinked
<1>23. QED  BY <1>14, <1>19, <1>20, <1>21, <1>22 DEF IndInv

\* die, exit and a rejected call: the exception is raised and nothing else.
LEMMA RaiseStep ==
    ASSUME IndInv, Executing, NEW kind \in {"die", "exit"}, exc' = Raised(kind),
           UNCHANGED <<gen, chain, cxs, cstack, hook, gvav, depth, status>>
    PROVE  IndInv'
<1>1. Raised(kind) \in Exception /\ exc'.stage = "unwind"
  BY RaisedType
<1>2. TypeOK'
  BY <1>1 DEF IndInv, TypeOK
<1>3. ChainLinked' /\ WellFramed(cstack') /\ OnPath(cstack', chain') /\ ContextsOK' /\ ParkedOK'
  BY DEF IndInv, ChainLinked, ContextsOK, ParkedOK
<1>4. HookOK' /\ OwnedOK'
  BY DEF IndInv, HookOK, OwnedOK, Depth
<1>5. CurOK'
  BY <1>1 DEF IndInv, CurOK, Executing, cur
<1>6. DeliveryOK'
  <2>1. ASSUME NEW m \in Activations(cstack), NEW k \in Activations(cstack),
               cur = cstack[m].si, k > m
        PROVE  FALSE
    <3>1. m = Loop
      BY <2>1, Innermost, Facts DEF IndInv, OnPath
    <3>2. k <= Loop /\ k \in 1 .. Depth /\ m \in 1 .. Depth
      BY Facts
    <3>3. QED  BY <2>1, <3>1, <3>2
  <2>2. QED  BY <1>1, <2>1 DEF DeliveryOK, cur
<1>7. QED  BY <1>2, <1>3, <1>4, <1>5, <1>6 DEF IndInv

\* A yield in a nested loop only sets a flag.
LEMMA YieldDeferredStep ==
    ASSUME IndInv, YieldDeferred  PROVE IndInv'
<1> DEFINE g == Running
           r == [gen[g] EXCEPT !.yieldPending = TRUE]
<1>1. /\ ChainLinked' /\ WellFramed(cstack') /\ OnPath(cstack', chain')
      /\ CurOK' /\ ContextsOK' /\ DeliveryOK' /\ Depth' = Depth /\ Depth \in Nat
  BY SameStacks DEF YieldDeferred
<1>2. /\ TypeOK /\ ParkedOK /\ OwnedOK /\ status' = status /\ cstack' = cstack
      /\ chain' = chain /\ hook' = hook /\ cxs' = cxs /\ gvav' = gvav /\ depth' = depth
      /\ exc' = exc
  BY DEF YieldDeferred, IndInv
<1>3. g \in Generators /\ gen[g].state = "RUNNING"
  <2>1. hook \in 1 .. Depth /\ cstack[hook].kind = "resume"
    BY <1>1, Facts DEF YieldDeferred
  <2>2. cstack[hook].gen \in Generators
    BY <2>1 DEF IndInv, WellFramed, FrameOK, Depth
  <2>3. QED  BY <1>2, <2>1, <2>2 DEF OwnedOK, Running
<1> HIDE DEF g
<1>4. gen[g] \in GenRecord /\ FlagsOK(gen[g])
  BY <1>2, <1>3 DEF TypeOK, ParkedOK
<1>5. r \in GenRecord /\ r.state = gen[g].state /\ FlagsOK(r) /\ ~r.stackDetached
  <2>1. r \in GenRecord /\ r.state = gen[g].state /\ r.captured = gen[g].captured
        /\ r.stackPushed = gen[g].stackPushed /\ r.stackDetached = gen[g].stackDetached
    BY <1>4 DEF GenRecord
  <2>2. QED  BY <1>3, <1>4, <2>1 DEF FlagsOK
<1>6. gen' = [gen EXCEPT ![g] = r]
  BY DEF YieldDeferred, g
<1> HIDE DEF r
<1>7. /\ gen' \in [Generators -> GenRecord] /\ gen'[g] = r
      /\ \A h \in Generators \ {g} : gen'[h] = gen[h]
  BY <1>2, <1>3, <1>5, <1>6, GenUpdate
<1>8. TypeOK'
  BY <1>2, <1>7 DEF TypeOK
<1>9. ParkedOK'
  <2>1. {g} \in SUBSET Generators /\ \A h \in {g} : FlagsOK(gen'[h]) /\ ~gen'[h].stackDetached
    BY <1>3, <1>5, <1>7
  <2>2. QED  BY <1>2, <1>7, <2>1, ParkedKeeps DEF ParkedOK
<1>10. OwnedOK' /\ HookOK'
  <2>1. \A h \in Generators : gen'[h].state = "RUNNING" <=> gen[h].state = "RUNNING"
    BY <1>5, <1>7
  <2>2. QED  BY <1>1, <1>2, <2>1, SameOwned DEF OwnedOK
<1>11. QED  BY <1>1, <1>8, <1>9, <1>10 DEF IndInv

\* Blocks that are set aside stay so when activations only go.
LEMMA AsideReturned ==
    ASSUME NEW c, NEW cs, NEW d, NEW k, Activations(d) = {j \in Activations(cs) : j < k},
           \A j \in Activations(d) : d[j] = cs[j],
           NEW s, SetAside(c, cs, s)
    PROVE  SetAside(c, d, s)
BY DEF SetAside

\* Taking the block of frame h out of the list, with everything above h gone.
LEMMA DetachBlock ==
    ASSUME IndInv, NEW h \in Activations(cstack), h # 1,
           NEW c, Linked(c), c.cur = cstack[h].si,
           c.prev = chain.prev, c.next = chain.next, c.used = chain.used
    PROVE  LET d == SwitchedTo(Detached(c, c.cur), cstack[h].caller)
           IN  /\ Linked(d) /\ d.cur = cstack[h].caller /\ d.used = chain.used
               /\ cstack[h].si \in SI \ {Main} /\ cstack[h].si <= d.used
               /\ Isolated(d, cstack[h].si)
               /\ \A j \in Activations(cstack) \ {1} :
                     j < h => d.prev[cstack[j].si] = chain.prev[cstack[j].si]
               /\ \A t \in SI : SetAside(chain, cstack, t) => SetAside(d, cstack, t)
<1> DEFINE s == cstack[h].si
           e == Detached(c, s)
           d == SwitchedTo(e, cstack[h].caller)
<1>1. cstack \in Seq(Frame) /\ WellFramed(cstack) /\ OnPath(cstack, chain)
  BY DEF IndInv, TypeOK
<1>2. h \in 1 .. Len(cstack) /\ s \in SI /\ cstack[h].caller \in SI
  BY <1>1, Typing DEF Activations
<1>3. s # Main /\ s <= chain.used
  BY <1>1, Framing DEF OnPath
<1>4. /\ Linked(e) /\ Isolated(e, s) /\ e.used = c.used
      /\ \A t \in SI : t # s /\ c.prev[t] # s => e.prev[t] = c.prev[t]
      /\ \A t \in SI : Isolated(c, t) => Isolated(e, t)
  BY <1>2, DetachedLemma
<1> HIDE DEF e
<1>5. /\ Linked(d) /\ d.cur = cstack[h].caller /\ d.used = chain.used
      /\ d.prev = e.prev /\ d.next = e.next
  BY <1>2, <1>4, SwitchedLemma
<1>6. ASSUME NEW j \in Activations(cstack) \ {1}, j < h
      PROVE  d.prev[cstack[j].si] = chain.prev[cstack[j].si]
  <2>1. cstack[j].si \in SI
    BY <1>1, Typing DEF Activations
  <2>2. cstack[j].si # s
    BY <1>1, <1>6, Facts DEF OnPath
  <2>3. chain.prev[cstack[j].si] # s
    <3>1. SUFFICES ASSUME chain.prev[cstack[j].si] = s  PROVE FALSE
      OBVIOUS
    <3>2. h < j
      BY <1>1, <3>1, NothingAfterCurrent
    <3>3. QED  BY <1>6, <3>2, Facts
  <2>4. QED  BY <1>4, <1>5, <2>1, <2>2, <2>3
<1>7. \A t \in SI : SetAside(chain, cstack, t) => SetAside(d, cstack, t)
  BY <1>4, <1>5 DEF SetAside, Isolated
<1>8. Isolated(d, s)
  BY <1>4, <1>5 DEF Isolated
<1>9. d = SwitchedTo(Detached(c, c.cur), cstack[h].caller)
  BY DEF e
<1> HIDE DEF d, s
<1>10. QED  BY <1>2, <1>3, <1>5, <1>6, <1>7, <1>8, <1>9 DEF s

\* The generator the hook points to.
LEMMA HookRun ==
    ASSUME IndInv, hook # 0
    PROVE  /\ hook \in 1 .. Depth /\ hook \in Activations(cstack) /\ hook # 1
           /\ cstack[hook].kind = "resume"
           /\ Running \in Generators /\ gen[Running].state = "RUNNING"
           /\ ~gen[Running].stackDetached
           /\ \A j \in 1 .. Depth : cstack[j].kind = "resume" => j <= hook
<1>1. hook \in 1 .. Depth /\ cstack[hook].kind = "resume"
  BY Facts
<1>2. hook \in Activations(cstack)
  BY <1>1 DEF Activations, Depth
<1>3. hook # 1 /\ Running \in Generators
  <2>1. FrameOK(cstack, hook)
    BY <1>1 DEF IndInv, WellFramed, Depth
  <2>2. QED  BY <1>1, <2>1 DEF FrameOK, Running
<1>4. gen[Running].state = "RUNNING"
  BY <1>1 DEF IndInv, OwnedOK, Running
<1>5. ~gen[Running].stackDetached
  BY <1>3, <1>4 DEF IndInv, ParkedOK, FlagsOK
<1>6. \A j \in 1 .. Depth : cstack[j].kind = "resume" => j <= hook
  BY DEF IndInv, HookOK, InnermostHook
<1>7. QED  BY <1>1, <1>2, <1>3, <1>4, <1>5, <1>6

\* Suspending returns from the hook's frame and sets its block aside.
LEMMA SuspendStep ==
    ASSUME IndInv, Executing, hook # 0,
           NEW c, Linked(c), c.cur = cstack[hook].si,
           c.prev = chain.prev, c.next = chain.next, c.used = chain.used,
           SuspendOn(c), UNCHANGED <<cxs, depth, exc, status>>
    PROVE  IndInv'
<1> DEFINE g == Running
           s == cstack[hook].si
           r == [gen[g] EXCEPT !.state = "YIELDED", !.captured = TRUE,
                               !.yieldPending = FALSE, !.stackDetached = TRUE,
                               !.defav = gvav, !.si = s]
<1>1. /\ hook \in 1 .. Depth /\ hook \in Activations(cstack) /\ hook # 1
      /\ cstack[hook].kind = "resume" /\ cstack[hook].gen = g
      /\ g \in Generators /\ gen[g].state = "RUNNING" /\ ~gen[g].stackDetached
      /\ \A j \in 1 .. Depth : cstack[j].kind = "resume" => j <= hook
  BY HookRun DEF Running
<1>2. /\ chain' = SwitchedTo(Detached(c, c.cur), cstack[hook].caller)
      /\ cstack' = SubSeq(cstack, 1, hook - 1)
      /\ hook' = cstack[hook].oldhook
      /\ gen' = [gen EXCEPT ![g] = r]
      /\ gvav' = gen[g].defav
      /\ cxs' = cxs /\ depth' = depth /\ exc' = exc /\ status' = status
      /\ exc.stage = "none" /\ status = "running"
      /\ TypeOK /\ ParkedOK
  BY DEF SuspendOn, IndInv, Executing
<1> HIDE DEF g
<1>3. /\ Linked(chain') /\ chain'.cur = cstack[hook].caller /\ chain'.used = chain.used
      /\ s \in SI \ {Main} /\ s <= chain'.used
      /\ Isolated(chain', s)
      /\ \A j \in Activations(cstack) \ {1} :
            j < hook => chain'.prev[cstack[j].si] = chain.prev[cstack[j].si]
      /\ \A t \in SI : SetAside(chain, cstack, t) => SetAside(chain', cstack, t)
  BY <1>1, <1>2, DetachBlock
<1>4. chain.used <= chain'.used /\ exc'.stage # "jump"
  BY <1>2, <1>3, Facts
<1>5. /\ Cut(cstack, cstack', hook - 1)
      /\ Depth' = hook - 1
      /\ \A j \in 1 .. hook - 1 : cstack'[j] = cstack[j]
      /\ Activations(cstack') = {j \in Activations(cstack) : j < hook}
      /\ WellFramed(cstack') /\ OnPath(cstack', chain')
      /\ CurOK' /\ ContextsOK' /\ DeliveryOK'
  BY <1>1, <1>2, <1>3, <1>4, ReturnKeeps
<1>6. /\ gen[g] \in GenRecord /\ FlagsOK(gen[g]) /\ gvav \in Arrays /\ gen[g].defav \in Arrays
  BY <1>1, <1>2, GenFields DEF TypeOK, ParkedOK
<1> HIDE DEF s
<1>7. r \in GenRecord /\ FlagsOK(r) /\ r.state = "YIELDED" /\ r.si = s
  <2>1. r \in GenRecord
    BY <1>3, <1>6 DEF GenRecord, States
  <2>2. /\ r.state = "YIELDED" /\ r.captured = TRUE /\ r.stackDetached = TRUE
        /\ r.stackPushed = gen[g].stackPushed /\ r.si = s
    BY <1>6 DEF GenRecord
  <2>3. QED  BY <1>1, <1>6, <2>1, <2>2 DEF FlagsOK
<1> HIDE DEF r
<1>8. /\ gen' \in [Generators -> GenRecord] /\ gen'[g] = r
      /\ \A h \in Generators \ {g} : gen'[h] = gen[h]
  BY <1>1, <1>2, <1>7, GenUpdate
<1>9. OwnedOK' /\ HookOK'
  <2>1. OwnedOK' /\ InnermostHook(cstack', Depth', cstack[hook].oldhook)
    BY <1>1, <1>2, <1>5, <1>7, <1>8, ReturnOwned
  <2>2. QED  BY <1>2, <2>1 DEF HookOK
<1>10. ParkedOK'
  <2>1. \A j \in Activations(cstack') : cstack'[j] = cstack[j] /\ j \in Activations(cstack) /\ j # hook
    BY <1>1, <1>5, Facts DEF Activations, Depth
  <2>2. SetAside(chain', cstack', s)
    <3>1. \A j \in Activations(cstack') : cstack'[j].si # s
      BY <1>1, <2>1 DEF IndInv, OnPath, s
    <3>2. QED  BY <1>3, <3>1 DEF SetAside
  <2>3. ASSUME NEW h \in Generators \ {g}, gen[h].stackDetached
        PROVE  SetAside(chain', cstack', gen[h].si) /\ gen[h].si # s
    <3>1. SetAside(chain, cstack, gen[h].si) /\ gen[h].si \in SI
      BY <1>2, <2>3 DEF ParkedOK, SetAside
    <3>2. SetAside(chain', cstack, gen[h].si)
      BY <1>3, <3>1
    <3>3. QED  BY <1>1, <1>5, <2>1, <3>1, <3>2, AsideReturned DEF SetAside, s
  <2>4. \A h \in Generators : FlagsOK(gen'[h])
    BY <1>2, <1>7, <1>8 DEF ParkedOK
  <2>5. \A h \in Generators : gen'[h].stackDetached => SetAside(chain', cstack', gen'[h].si)
    BY <1>7, <1>8, <2>2, <2>3
  <2>6. ASSUME NEW i \in Generators, NEW h \in Generators, gen'[i].stackDetached,
               gen'[h].stackDetached, gen'[i].si = gen'[h].si
        PROVE  i = h
    BY <1>2, <1>7, <1>8, <2>3, <2>6 DEF ParkedOK
  <2>7. QED  BY <2>4, <2>5, <2>6 DEF ParkedOK
<1>11. TypeOK'
  <2>1. chain' \in Chain /\ cstack' \in Seq(Frame)
    BY <1>3, <1>5 DEF Linked, Cut
  <2>2. hook' \in FrameIndex
    BY <1>1, <1>2, Typing DEF TypeOK, Depth
  <2>3. QED  BY <1>2, <1>6, <1>8, <2>1, <2>2 DEF TypeOK
<1>12. ChainLinked'
  BY <1>3 DEF Linked, ChainLinked
<1>13. QED  BY <1>5, <1>9, <1>10, <1>11, <1>12 DEF IndInv

\* yield on the generator's own stack.
LEMMA YieldStep ==
    ASSUME IndInv, Yield  PROVE IndInv'
<1>1. Linked(chain) /\ chain.cur = cstack[hook].si
  BY Facts DEF Yield, cur
<1>2. QED  BY <1>1, SuspendStep DEF Yield

\* Entering a callback enters a frame on a pushed block.
LEMMA EnterCallbackStep ==
    ASSUME IndInv, EnterCallback  PROVE IndInv'
<1> DEFINE s == PushTarget(chain)
           f == NewFrame("callback", Nobody, s)
<1>1. /\ Executing /\ CanPush(chain) /\ Depth < MaxFrames
      /\ chain' = Pushed(chain)
      /\ cxs' = [cxs EXCEPT ![s] = <<>>]
      /\ cstack' = Append(cstack, f)
      /\ gen' = gen /\ hook' = hook /\ gvav' = gvav /\ depth' = depth
      /\ exc' = exc /\ status' = status
      /\ TypeOK /\ ParkedOK
  BY DEF EnterCallback, IndInv
<1>2. /\ s \in SI
      /\ \A k \in Activations(cstack) : cstack[k].si # s
      /\ \A t \in SI : t # s => chain'.prev[t] = chain.prev[t]
      /\ chain'.prev[s] = cur /\ Linked(chain') /\ chain'.cur = s
      /\ s <= chain'.used /\ chain.used <= chain'.used
      /\ \A t \in SI : SetAside(chain, cstack, t) => t # s /\ SetAside(chain', cstack, t)
  BY <1>1, PushFresh
<1> HIDE DEF f, s
<1>3. /\ cxs' \in [SI -> Seq(Context)] /\ cxs'[s] = <<>>
      /\ \A t \in SI : t # s => cxs'[t] = cxs[t]
  <2>1. <<>> \in Seq(Context)
    BY EmptySeq
  <2>2. QED  BY <1>1, <1>2, <2>1, CxsUpdate
<1>4. f \in Frame /\ cstack'[Depth + 1] = f /\ f.kind = "callback" /\ f.si = s
      /\ cstack' \in Seq(Frame)
  <2>1. f \in Frame /\ cstack'[Depth + 1] = f /\ Grown(cstack, cstack')
    BY <1>1, <1>2, NewFrameLemma DEF f
  <2>2. QED  BY <2>1 DEF f, NewFrame, Grown
<1>5. Aimed(cstack', Depth + 1, cxs'[s])
  BY <1>3, AimedEmpty
<1>6. /\ Grown(cstack, cstack')
      /\ Depth' = Depth + 1
      /\ Activations(cstack') = Activations(cstack) \cup {Depth + 1}
      /\ WellFramed(cstack') /\ OnPath(cstack', chain')
      /\ CurOK' /\ ContextsOK' /\ DeliveryOK'
  BY <1>1, <1>2, <1>3, <1>5, EnterKeeps DEF f
<1>7. Depth \in Nat /\ \A k \in 1 .. Depth : cstack'[k] = cstack[k]
  BY <1>6, LenProperties DEF Grown, Depth
<1>8. OwnedOK' /\ HookOK'
  <2>1. Depth' \in Nat /\ status' # "destruct"
    BY <1>1, <1>6, <1>7 DEF Executing
  <2>2. \A j \in 1 .. Depth' : j > Depth => cstack'[j].kind # "resume"
    BY <1>4, <1>6, <1>7
  <2>3. \A j \in 1 .. Depth : ~(j > Depth')
    BY <1>6, <1>7
  <2>4. QED  BY <1>1, <1>7, <2>1, <2>2, <2>3, SameOwned
<1>9. ParkedOK'
  <2>1. \A k \in Activations(cstack) : cstack'[k] = cstack[k]
    BY <1>7, Facts
  <2>2. ASSUME NEW h \in Generators, gen[h].stackDetached
        PROVE  SetAside(chain', cstack', gen[h].si)
    <3>1. SetAside(chain, cstack, gen[h].si) /\ gen[h].si \in SI
      BY <1>1, <2>2 DEF ParkedOK, SetAside
    <3>2. gen[h].si # s /\ SetAside(chain', cstack, gen[h].si)
      BY <1>2, <3>1
    <3>3. cstack'[Depth + 1].si # gen[h].si
      BY <1>4, <3>2
    <3>4. QED  BY <1>6, <2>1, <3>2, <3>3, AsideEntered
  <2>3. QED  BY <1>1, <2>2 DEF ParkedOK
<1>10. TypeOK'
  BY <1>1, <1>2, <1>3, <1>4 DEF TypeOK, Linked
<1>11. ChainLinked'
  BY <1>2 DEF Linked, ChainLinked
<1>12. QED  BY <1>6, <1>8, <1>9, <1>10, <1>11 DEF IndInv

\* pop_stackinfo when the innermost activation returns.
LEMMA PopReturns ==
    ASSUME IndInv, Executing, Loop # 1
    PROVE  /\ chain.prev[cur] = cstack[Loop].caller /\ cstack[Loop].caller \in SI
           /\ Linked(Popped(chain)) /\ Popped(chain).cur = cstack[Loop].caller
           /\ Popped(chain).prev = chain.prev /\ Popped(chain).next = chain.next
           /\ Popped(chain).used = chain.used
<1>1. Loop \in Activations(cstack) \ {1} /\ Loop \in 1 .. Len(cstack) /\ cstack \in Seq(Frame)
      /\ Linked(chain)
  BY Facts DEF Depth
<1>2. cur = cstack[Loop].si
  BY Innermost
<1>3. chain.prev[cur] = cstack[Loop].caller
  BY <1>1, <1>2 DEF IndInv, OnPath
<1>4. cstack[Loop].caller \in SI
  BY <1>1, Typing
<1>5. chain.prev[chain.cur] # NULL
  BY <1>3, <1>4 DEF SI, NULL, cur
<1>6. QED  BY <1>1, <1>3, <1>4, <1>5, PoppedLemma DEF cur

\* Leaving it returns from that frame, and may suspend.
LEMMA LeaveCallbackStep ==
    ASSUME IndInv, LeaveCallback  PROVE IndInv'
<1> DEFINE k == Loop
           back == Popped(chain)
<1>1. /\ Executing /\ cstack[k].kind = "callback"
      /\ cxs' = cxs /\ depth' = depth /\ exc' = exc /\ status' = status
      /\ TypeOK /\ ParkedOK
  BY DEF LeaveCallback, IndInv
<1>2. /\ k \in Activations(cstack) /\ k \in 1 .. Depth
      /\ \A j \in Activations(cstack) : j \in 1 .. Depth /\ j <= k
      /\ Depth \in Nat
  BY Facts
<1>3. k # 1
  <2>1. FrameOK(cstack, 1)
    BY <1>2 DEF IndInv, WellFramed, Depth
  <2>2. QED  BY <1>1, <2>1 DEF FrameOK
<1>4. /\ cstack[k].caller \in SI
      /\ Linked(back) /\ back.cur = cstack[k].caller
      /\ back.prev = chain.prev /\ back.next = chain.next /\ back.used = chain.used
  BY <1>1, <1>3, PopReturns
<1>5. \/ /\ hook # 0 /\ back.cur = cstack[hook].si
         /\ SuspendOn(back)
      \/ /\ chain' = back
         /\ cstack' = SubSeq(cstack, 1, k - 1)
         /\ gen' = gen /\ hook' = hook /\ gvav' = gvav
  BY DEF LeaveCallback
<1>6. CASE hook # 0 /\ back.cur = cstack[hook].si /\ SuspendOn(back)
  BY <1>1, <1>4, <1>6, SuspendStep
<1>7. CASE /\ chain' = back
           /\ cstack' = SubSeq(cstack, 1, k - 1)
           /\ gen' = gen /\ hook' = hook /\ gvav' = gvav
  <2> HIDE DEF k, back
  <2>1. chain.used <= chain'.used /\ exc'.stage # "jump"
    <3>1. chain.used \in Nat
      BY Facts
    <3>2. QED  BY <1>1, <1>4, <1>7, <3>1 DEF Executing
  <2>2. /\ Cut(cstack, cstack', k - 1)
        /\ k \in Nat /\ k - 1 \in 1 .. Depth /\ Depth' = k - 1
        /\ \A j \in 1 .. k - 1 : cstack'[j] = cstack[j]
        /\ Activations(cstack') = {j \in Activations(cstack) : j < k}
        /\ WellFramed(cstack') /\ OnPath(cstack', chain')
        /\ CurOK' /\ ContextsOK' /\ DeliveryOK'
    BY <1>1, <1>2, <1>3, <1>4, <1>7, <2>1, ReturnKeeps
  <2>3. OwnedOK' /\ HookOK'
    <3>1. ASSUME NEW j \in 1 .. Depth, j > Depth'  PROVE cstack[j].kind # "resume"
      <4>1. j >= k
        BY <2>2, <3>1
      <4>2. cstack[j].kind # "docatch" => j \in Activations(cstack)
        BY DEF Activations, Depth
      <4>3. QED  BY <1>1, <1>2, <2>2, <4>1, <4>2 DEF k
    <3>2. Depth' \in Nat /\ status' # "destruct"
      BY <1>1, <2>2 DEF Executing
    <3>3. /\ \A j \in 1 .. Depth : j \in 1 .. Depth' => cstack'[j] = cstack[j]
          /\ \A j \in 1 .. Depth' : ~(j > Depth)
      BY <1>2, <2>2
    <3>4. QED  BY <1>7, <3>1, <3>2, <3>3, SameOwned
  <2>4. ParkedOK'
    <3>1. \A j \in Activations(cstack') : cstack'[j] = cstack[j]
      BY <1>2, <2>2
    <3>2. ASSUME NEW h \in Generators, gen[h].stackDetached
          PROVE  SetAside(chain', cstack', gen[h].si)
      <4>1. SetAside(chain, cstack, gen[h].si)
        BY <1>1, <3>2 DEF ParkedOK
      <4>2. SetAside(chain', cstack, gen[h].si)
        BY <1>4, <1>7, <4>1 DEF SetAside, Isolated
      <4>3. QED  BY <2>2, <3>1, <4>2, AsideReturned
    <3>3. QED  BY <1>1, <1>7, <3>2 DEF ParkedOK
  <2>5. TypeOK' /\ ChainLinked'
    BY <1>1, <1>4, <1>7, <2>2 DEF TypeOK, ChainLinked, Linked, Cut
  <2>6. QED  BY <2>2, <2>3, <2>4, <2>5 DEF IndInv
<1>8. QED  BY <1>5, <1>6, <1>7

\* Leaving an eval pops its context.
LEMMA LeaveEvalStep ==
    ASSUME IndInv, LeaveEval  PROVE IndInv'
<1> DEFINE n == Len(cxs[cur])
           stack == SubSeq(cxs[cur], 1, n - 1)
<1>1. /\ Executing /\ n > 0
      /\ cxs' = [cxs EXCEPT ![cur] = stack]
      /\ gen' = gen /\ chain' = chain /\ cstack' = cstack /\ hook' = hook /\ gvav' = gvav
      /\ depth' = depth /\ exc' = exc /\ status' = status
      /\ TypeOK
  BY DEF LeaveEval, IndInv
<1>2. cur \in SI /\ cxs[cur] \in Seq(Context)
  BY <1>1, Facts DEF TypeOK
<1>3. n \in 1 .. Len(cxs[cur])
  <2> HIDE DEF Context
  <2> QED  BY <1>1, <1>2, LenProperties
<1> HIDE DEF n
<1>4. stack \in Seq(Context)
  <2> HIDE DEF Context
  <2> QED  BY <1>2, <1>3, StackCut
<1>5. ContextsOK'
  <2>1. ASSUME NEW k \in Activations(cstack)
        PROVE  Aimed(cstack, k, cxs'[cstack[k].si])
    <3>1. cstack[k].si \in SI /\ Aimed(cstack, k, cxs[cstack[k].si])
      BY <1>1, Typing DEF Activations, TypeOK, IndInv, ContextsOK
    <3>2. CASE cstack[k].si = cur
      <4>1. Aimed(cstack, k, stack)
        BY <1>2, <1>3, <3>1, <3>2, AimedPopped
      <4>2. QED  BY <1>1, <1>2, <1>4, <3>2, <4>1, CxsUpdate
    <3>3. CASE cstack[k].si # cur
      BY <1>1, <1>2, <1>4, <3>1, <3>3, CxsUpdate
    <3>4. QED  BY <3>2, <3>3
  <2>2. QED  BY <1>1, <2>1 DEF ContextsOK
<1>6. TypeOK'
  <2>1. cxs' \in [SI -> Seq(Context)]
    BY <1>1, <1>2, <1>4, CxsUpdate
  <2>2. QED  BY <1>1, <2>1 DEF TypeOK
<1>7. ChainLinked' /\ WellFramed(cstack') /\ HookOK' /\ OwnedOK' /\ OnPath(cstack', chain')
      /\ CurOK' /\ ParkedOK'
  BY <1>1 DEF IndInv, ChainLinked, HookOK, OwnedOK, CurOK, ParkedOK, Depth, cur, Executing, Loop
<1>8. DeliveryOK'
  BY <1>1 DEF Executing, DeliveryOK
<1>9. QED  BY <1>5, <1>6, <1>7, <1>8 DEF IndInv

\* Entering an eval pushes a context, and maybe a docatch frame it aims at.
LEMMA EnterEvalStep ==
    ASSUME IndInv, EnterEval  PROVE IndInv'
<1>1. /\ Executing
      /\ gen' = gen /\ chain' = chain /\ hook' = hook /\ gvav' = gvav
      /\ depth' = depth /\ exc' = exc /\ status' = status
      /\ TypeOK
  BY DEF EnterEval, IndInv
<1>2. /\ Depth \in Nat \ {0} /\ MaxFrames \in Nat /\ Depth <= MaxFrames
      /\ Loop \in Activations(cstack) /\ Loop \in 1 .. Depth
      /\ TopEnv \in 1 .. Depth /\ cstack[TopEnv].kind # "callback"
      /\ cstack \in Seq(Frame)
  BY Facts
<1>3. cur \in SI /\ cxs[cur] \in Seq(Context) /\ cur = cstack[Loop].si
  BY <1>1, Innermost, Facts DEF TypeOK
<1>4. Aimed(cstack, Loop, cxs[cur])
  BY <1>2, <1>3 DEF IndInv, ContextsOK
<1>5. \A k \in Activations(cstack) : /\ k \in 1 .. Depth
                                     /\ cstack[k].si = cur => k = Loop
                                     /\ Aimed(cstack, k, cxs[cstack[k].si])
                                     /\ cstack[k].si \in SI
  BY <1>2, <1>3, Typing, Facts DEF IndInv, OnPath, ContextsOK, Depth
<1>6. ChainLinked' /\ ParkedOK \* the list is not touched
  BY <1>1 DEF IndInv, ChainLinked
<1>7. DeliveryOK'
  BY <1>1 DEF Executing, DeliveryOK
<1>8. CASE CatchGet
  <2> DEFINE f == NewFrame("docatch", Nobody, cur)
             stack == Append(cxs[cur], EvalContext("EVAL", Depth + 1))
  <2>1. /\ Depth < MaxFrames /\ cstack' = Append(cstack, f)
        /\ cxs' = [cxs EXCEPT ![cur] = stack]
    BY <1>8 DEF EnterEval
  <2>2. /\ f \in Frame /\ Grown(cstack, cstack') /\ cstack'[Depth + 1] = f
        /\ WellFramed(cstack') /\ f.kind = "docatch" /\ f.loop = Loop
    <3>1. /\ f \in Frame /\ Grown(cstack, cstack') /\ cstack'[Depth + 1] = f
          /\ WellFramed(cstack')
      BY <1>3, <2>1, NewFrameLemma
    <3>2. QED  BY <3>1 DEF NewFrame
  <2> HIDE DEF f
  <2>3. Activations(cstack') = Activations(cstack) /\ OnPath(cstack', chain')
    <3>1. cstack'[Len(cstack) + 1].kind = "docatch" /\ OnPath(cstack, chain) /\ WellFramed(cstack)
      BY <2>2 DEF Depth, IndInv
    <3>2. QED  BY <1>1, <2>2, <3>1, PathDocatch
  <2>4. /\ Depth' = Depth + 1 /\ Len(cstack') = Depth + 1
        /\ \A j \in 1 .. Depth : cstack'[j] = cstack[j]
    BY <2>2 DEF Grown, Depth
  <2>5. \A k \in Activations(cstack) : Aimed(cstack', k, cxs[cstack[k].si]) /\ cstack'[k] = cstack[k]
    <3>1. \A k \in Activations(cstack) : k \in 1 .. Len(cstack)
      BY <1>5 DEF Depth
    <3>2. QED  BY <1>5, <2>2, <2>4, <3>1, AimedGrown
  <2>6. Aimed(cstack', Loop, stack) /\ stack \in Seq(Context)
    <3>1. Depth + 1 \in FrameIndex /\ Depth + 1 \in Loop .. Len(cstack')
      BY <1>2, <2>1, <2>4 DEF FrameIndex
    <3>2. cstack'[Depth + 1].kind # "callback" /\ cstack'[Depth + 1].loop = Loop
      BY <2>2
    <3>3. \A i \in DOMAIN cxs[cur] :
             cxs[cur][i].type \in EvalTypes => cxs[cur][i].env <= Depth + 1
      <4>1. \A i \in DOMAIN cxs[cur] :
               cxs[cur][i].type \in EvalTypes => cxs[cur][i].env \in Loop .. Depth
        BY <1>4 DEF Aimed, Depth
      <4>2. QED  BY <1>2, <4>1
    <3>4. Aimed(cstack', Loop, cxs[cur])
      BY <1>2, <1>3, <2>5
    <3>5. Aimed(cstack', Loop, stack)
      BY <1>3, <3>1, <3>2, <3>3, <3>4, AimedPushed
    <3>6. EvalContext("EVAL", Depth + 1) \in Context
      BY <3>1 DEF EvalContext, Context, EvalContexts, EvalTypes
    <3>7. stack \in Seq(Context)
      <4> HIDE DEF Context
      <4> QED  BY <1>3, <3>6, AppendProperties
    <3>8. QED  BY <3>5, <3>7
  <2> HIDE DEF stack
  <2>7. /\ cxs' \in [SI -> Seq(Context)] /\ cxs'[cur] = stack
        /\ \A t \in SI : t # cur => cxs'[t] = cxs[t]
    BY <1>1, <1>3, <2>1, <2>6, CxsUpdate
  <2>8. ContextsOK'
    <3>1. ASSUME NEW k \in Activations(cstack)
          PROVE  Aimed(cstack', k, cxs'[cstack'[k].si])
      <4>1. CASE cstack[k].si = cur
        BY <1>5, <2>5, <2>6, <2>7, <4>1
      <4>2. CASE cstack[k].si # cur
        BY <1>5, <2>5, <2>7, <4>2
      <4>3. QED  BY <4>1, <4>2
    <3>2. QED  BY <2>3, <3>1 DEF ContextsOK
  <2>9. CurOK'
    <3>1. Loop' = Loop
      BY <2>2, <2>4 DEF Loop
    <3>2. cur' = cstack'[Loop'].si
      BY <1>1, <1>2, <1>3, <2>4, <3>1 DEF cur
    <3>3. QED  BY <1>2, <2>3, <3>1, <3>2 DEF CurOK
  <2>10. ParkedOK'
    <3>1. \A s \in SI : SetAside(chain, cstack, s) => SetAside(chain', cstack', s)
      BY <1>1, <2>3, <2>5 DEF SetAside
    <3>2. \A h \in Generators : gen[h].stackDetached =>
             SetAside(chain, cstack, gen[h].si) /\ gen[h].si \in SI
      BY <1>6 DEF ParkedOK, SetAside
    <3>3. QED  BY <1>1, <1>6, <3>1, <3>2 DEF ParkedOK
  <2>11. OwnedOK' /\ HookOK'
    <3>1. Depth' \in Nat /\ status' # "destruct"
      BY <1>1, <1>2, <2>4 DEF Executing
    <3>2. \A j \in 1 .. Depth' : j > Depth => cstack'[j].kind # "resume"
      BY <1>2, <2>2, <2>4
    <3>3. \A j \in 1 .. Depth : ~(j > Depth')
      BY <1>2, <2>4
    <3>4. QED  BY <1>1, <2>4, <3>1, <3>2, <3>3, SameOwned
  <2>12. TypeOK'
    <3>1. cstack' \in Seq(Frame)
      BY <2>2 DEF Grown
    <3>2. QED  BY <1>1, <2>7, <3>1 DEF TypeOK
  <2>13. QED  BY <1>6, <1>7, <2>2, <2>3, <2>8, <2>9, <2>10, <2>11, <2>12 DEF IndInv
<1>9. CASE ~CatchGet
  <2> DEFINE stack == Append(cxs[cur], EvalContext("EVAL", TopEnv))
  <2>1. cstack' = cstack /\ cxs' = [cxs EXCEPT ![cur] = stack]
    BY <1>9 DEF EnterEval
  <2>2. TopEnv = Depth /\ cstack[TopEnv].loop = Loop
    <3>1. cstack[Depth].kind # "callback" /\ Depth \in 1 .. Depth
      BY <1>2, <1>9 DEF CatchGet
    <3>2. \A j \in 1 .. Depth : cstack[j].kind # "callback" => j <= TopEnv
      BY Facts
    <3>3. TopEnv = Depth
      BY <1>2, <3>1, <3>2
    <3>4. QED  BY <3>3 DEF Loop
  <2>3. Aimed(cstack, Loop, stack) /\ stack \in Seq(Context)
    <3>1. TopEnv \in FrameIndex /\ TopEnv \in Loop .. Len(cstack)
      BY <1>2, <2>2 DEF FrameIndex, Depth
    <3>2. \A i \in DOMAIN cxs[cur] :
             cxs[cur][i].type \in EvalTypes => cxs[cur][i].env <= TopEnv
      <4>1. \A i \in DOMAIN cxs[cur] :
               cxs[cur][i].type \in EvalTypes => cxs[cur][i].env \in Loop .. Depth
        BY <1>4 DEF Aimed, Depth
      <4>2. QED  BY <1>2, <2>2, <4>1
    <3>3. Aimed(cstack, Loop, stack)
      BY <1>2, <1>3, <1>4, <2>2, <3>1, <3>2, AimedPushed
    <3>4. EvalContext("EVAL", TopEnv) \in Context
      BY <3>1 DEF EvalContext, Context, EvalContexts, EvalTypes
    <3>5. stack \in Seq(Context)
      <4> HIDE DEF Context
      <4> QED  BY <1>3, <3>4, AppendProperties
    <3>6. QED  BY <3>3, <3>5
  <2> HIDE DEF stack
  <2>4. /\ cxs' \in [SI -> Seq(Context)] /\ cxs'[cur] = stack
        /\ \A t \in SI : t # cur => cxs'[t] = cxs[t]
    BY <1>1, <1>3, <2>1, <2>3, CxsUpdate
  <2>5. ContextsOK'
    <3>1. ASSUME NEW k \in Activations(cstack)
          PROVE  Aimed(cstack, k, cxs'[cstack[k].si])
      <4>1. CASE cstack[k].si = cur
        BY <1>5, <2>3, <2>4, <4>1
      <4>2. CASE cstack[k].si # cur
        BY <1>5, <2>4, <4>2
      <4>3. QED  BY <4>1, <4>2
    <3>2. QED  BY <2>1, <3>1 DEF ContextsOK
  <2>6. TypeOK'
    BY <1>1, <2>1, <2>4 DEF TypeOK
  <2>7. WellFramed(cstack') /\ HookOK' /\ OwnedOK' /\ OnPath(cstack', chain') /\ CurOK' /\ ParkedOK'
    BY <1>1, <2>1 DEF IndInv, HookOK, OwnedOK, CurOK, ParkedOK, Depth, cur, Executing, Loop
  <2>8. QED  BY <1>6, <1>7, <2>5, <2>6, <2>7 DEF IndInv
<1>10. QED  BY <1>8, <1>9

\* Attaching the block of an activation that has just returned to the caller,
\* to pop it: what hangs off the caller's block is not part of the path.
LEMMA FinishStep ==
    ASSUME IndInv, Finish  PROVE IndInv'
<1> DEFINE g == Running
           h == hook
           s == cstack[h].si
           f == cstack[h]
           away == SwitchedTo(Detached(chain, s), f.caller)
           att == Attached(away, s)
           back == SwitchedTo(att, s)
           r == [gen[g] EXCEPT !.state = "EXHAUSTED", !.captured = FALSE,
                               !.yieldPending = FALSE, !.stackPushed = FALSE,
                               !.stackDetached = FALSE, !.evalActive = FALSE,
                               !.defav = UnwoundArray(cxs[cur], 0), !.si = cur]
<1>1. /\ h \in 1 .. Depth /\ h \in Activations(cstack) /\ h # 1
      /\ f.kind = "resume" /\ f.gen = g
      /\ g \in Generators /\ gen[g].state = "RUNNING" /\ ~gen[g].stackDetached
      /\ \A j \in 1 .. Depth : cstack[j].kind = "resume" => j <= h
  BY HookRun DEF Running, Finish
<1>2. cur = s
  BY Innermost DEF Finish
<1>3. /\ chain' = SwitchedTo(Popped(back), f.caller)
      /\ cxs' = [cxs EXCEPT ![s] = <<>>]
      /\ cstack' = SubSeq(cstack, 1, h - 1)
      /\ hook' = f.oldhook
      /\ depth' = UnwoundDepth(cxs[cur], 0)
      /\ gen' = [gen EXCEPT ![g] = r]
      /\ gvav' = gen[g].defav
      /\ exc' = exc /\ status' = status
      /\ exc.stage = "none" /\ status = "running"
      /\ TypeOK /\ ParkedOK
  BY <1>2 DEF Finish, IndInv, Executing
<1> HIDE DEF g, h
<1>4. /\ cstack \in Seq(Frame) /\ WellFramed(cstack) /\ OnPath(cstack, chain)
      /\ Linked(chain) /\ chain.used \in SI /\ SI \subseteq Nat /\ Depth \in Nat
      /\ \A j \in Activations(cstack) : j \in 1 .. Depth
  BY Facts DEF IndInv
<1>5. /\ Linked(away) /\ away.cur = f.caller /\ away.used = chain.used
      /\ s \in SI \ {Main} /\ s <= away.used
      /\ Isolated(away, s)
      /\ \A j \in Activations(cstack) \ {1} :
            j < h => away.prev[cstack[j].si] = chain.prev[cstack[j].si]
      /\ \A t \in SI : SetAside(chain, cstack, t) => SetAside(away, cstack, t)
  <2>1. chain.cur = cstack[h].si
    BY <1>2 DEF cur
  <2>2. QED  BY <1>1, <1>4, <2>1, DetachBlock
<1> HIDE DEF away
<1>6. /\ h - 1 \in 1 .. Len(cstack) /\ f.caller = cstack[cstack[h - 1].loop].si
      /\ cstack[h - 1].loop \in Activations(cstack) /\ cstack[h - 1].loop <= h - 1
      /\ \A j \in Activations(cstack) : j <= h - 1 => j <= cstack[h - 1].loop
      /\ f.caller \in SI
  <2>1. h - 1 \in 1 .. Len(cstack) /\ h \in 1 .. Len(cstack)
    BY <1>1, <1>4 DEF Depth
  <2>2. f.caller = cstack[cstack[h - 1].loop].si /\ f.caller \in SI
    BY <1>1, <1>4, <2>1, Typing DEF OnPath
  <2>3. QED  BY <1>4, <2>1, <2>2, Framing
<1>7. f.caller # s /\ f.caller <= away.used
  <2>1. cstack[h - 1].loop # h
    BY <1>1, <1>4, <1>6
  <2>2. QED  BY <1>1, <1>4, <1>5, <1>6, <2>1 DEF OnPath
<1>8. /\ Linked(att) /\ att.cur = f.caller /\ att.used = away.used /\ att.prev[s] = f.caller
      /\ \A t \in SI : t # s /\ away.prev[t] # f.caller => att.prev[t] = away.prev[t]
      /\ \A t \in SI : Isolated(away, t) /\ t # s /\ t # f.caller => Isolated(att, t)
  BY <1>5, <1>7, AttachedLemma
<1> HIDE DEF att
<1>9. /\ Linked(back) /\ back.cur = s /\ back.prev = att.prev /\ back.next = att.next
      /\ back.used = att.used
  BY <1>5, <1>8, SwitchedLemma
<1> HIDE DEF back
<1>10. /\ Linked(chain') /\ chain'.cur = f.caller /\ chain'.used = chain.used
       /\ chain'.prev = att.prev /\ chain'.next = att.next
  <2>1. back.prev[back.cur] # NULL
    BY <1>6, <1>8, <1>9 DEF SI, NULL
  <2>2. /\ Linked(Popped(back)) /\ Popped(back).prev = back.prev
        /\ Popped(back).next = back.next /\ Popped(back).used = back.used
    BY <1>9, <2>1, PoppedLemma
  <2>3. PICK b : b = Popped(back)
    OBVIOUS
  <2>4. /\ Linked(b) /\ b.prev = att.prev /\ b.next = att.next /\ b.used = chain.used
        /\ f.caller \in SI /\ chain' = SwitchedTo(b, f.caller)
    BY <1>3, <1>5, <1>6, <1>8, <1>9, <2>2, <2>3
  <2>5. /\ Linked(SwitchedTo(b, f.caller)) /\ SwitchedTo(b, f.caller).cur = f.caller
        /\ SwitchedTo(b, f.caller).prev = b.prev /\ SwitchedTo(b, f.caller).next = b.next
        /\ SwitchedTo(b, f.caller).used = b.used
    BY ONLY <2>4, SwitchedLemma
  <2>6. QED  BY <2>4, <2>5
<1>11. ASSUME NEW j \in Activations(cstack) \ {1}, j < h
       PROVE  chain'.prev[cstack[j].si] = chain.prev[cstack[j].si]
  <2>1. cstack[j].si \in SI
    BY <1>4, Typing DEF Depth
  <2>2. cstack[j].si # s
    <3>1. j # h
      BY <1>1, <1>4, <1>11
    <3>2. OnPath(cstack, chain) /\ h \in Activations(cstack)
      BY <1>1, <1>4
    <3>3. QED  BY <3>1, <3>2 DEF OnPath
  <2>3. away.prev[cstack[j].si] = chain.prev[cstack[j].si]
    BY <1>5, <1>11
  <2>4. chain.prev[cstack[j].si] # f.caller
    <3>1. SUFFICES ASSUME chain.prev[cstack[j].si] = f.caller  PROVE FALSE
      OBVIOUS
    <3>2. cstack[h - 1].loop < j
      BY <1>4, <1>6, <3>1, NothingAfterCurrent
    <3>3. j <= h - 1
      <4>1. j \in 1 .. Depth /\ h \in 1 .. Depth /\ Depth \in Nat
        BY <1>1, <1>4
      <4>2. QED  BY <1>11, <4>1
    <3>4. j <= cstack[h - 1].loop
      BY <1>6, <3>3
    <3>5. cstack[h - 1].loop \in 1 .. Depth /\ j \in 1 .. Depth
      BY <1>4, <1>6
    <3>6. QED  BY <1>4, <3>2, <3>4, <3>5
  <2>5. QED  BY <1>8, <1>10, <2>1, <2>2, <2>3, <2>4
<1>12. ASSUME NEW t \in SI, SetAside(chain, cstack, t)
       PROVE  SetAside(chain', cstack, t)
  <2>1. SetAside(away, cstack, t)
    BY <1>5, <1>12
  <2>2. t # s /\ t # f.caller
    BY <1>1, <1>6, <1>12 DEF SetAside
  <2>3. Isolated(att, t)
    BY <1>8, <2>1, <2>2 DEF SetAside
  <2>4. QED  BY <1>10, <1>12, <2>3 DEF SetAside, Isolated
<1>13. <<>> \in Seq(Context)
  BY EmptySeq
<1>14. /\ cxs' \in [SI -> Seq(Context)]
       /\ \A t \in SI : t # s => cxs'[t] = cxs[t]
  BY <1>3, <1>5, <1>13, CxsUpdate
<1>15. /\ Cut(cstack, cstack', h - 1)
       /\ Depth' = h - 1
       /\ \A j \in 1 .. h - 1 : cstack'[j] = cstack[j]
       /\ Activations(cstack') = {j \in Activations(cstack) : j < h}
       /\ WellFramed(cstack') /\ OnPath(cstack', chain')
       /\ CurOK' /\ ContextsOK' /\ DeliveryOK'
  <2>1. chain.used <= chain'.used /\ exc'.stage # "jump"
    BY <1>3, <1>4, <1>10
  <2>2. ASSUME NEW j \in Activations(cstack), j < h
        PROVE  cxs'[cstack[j].si] = cxs[cstack[j].si]
    <3>1. cstack[j].si \in SI
      BY <1>4, Typing DEF Depth
    <3>2. j # h /\ OnPath(cstack, chain)
      BY <1>1, <1>4, <2>2
    <3>3. cstack[j].si # s
      BY <1>1, <3>2 DEF OnPath
    <3>4. QED  BY <1>14, <3>1, <3>3
  <2>3. QED  BY <1>1, <1>3, <1>10, <1>11, <2>1, <2>2, ReturnKeeps
<1>16. /\ gen[g] \in GenRecord /\ gen[g].defav \in Arrays
       /\ UnwoundArray(cxs[cur], 0) \in Arrays /\ UnwoundDepth(cxs[cur], 0) \in [Bodies -> Nat]
       /\ cur \in SI
  <2>1. cxs[cur] \in Seq(Context)
    BY <1>2, <1>3, <1>5 DEF TypeOK
  <2>2. QED  BY <1>1, <1>2, <1>3, <1>5, <2>1, GenFields, UnwoundType DEF TypeOK
<1>17. r \in GenRecord /\ FlagsOK(r) /\ ~r.stackDetached /\ r.state = "EXHAUSTED"
  <2>1. r \in GenRecord
    BY <1>16 DEF GenRecord, States
  <2>2. /\ r.state = "EXHAUSTED" /\ r.captured = FALSE /\ r.stackPushed = FALSE
        /\ r.stackDetached = FALSE
    BY <1>16 DEF GenRecord
  <2>3. QED  BY <2>1, <2>2 DEF FlagsOK
<1> HIDE DEF r
<1>18. /\ gen' \in [Generators -> GenRecord] /\ gen'[g] = r
       /\ \A i \in Generators \ {g} : gen'[i] = gen[i]
  BY <1>1, <1>3, <1>17, GenUpdate
<1>19. OwnedOK' /\ HookOK'
  <2>1. OwnedOK' /\ InnermostHook(cstack', Depth', cstack[h].oldhook)
    BY <1>1, <1>3, <1>15, <1>17, <1>18, ReturnOwned
  <2>2. QED  BY <1>3, <2>1 DEF HookOK
<1>20. ParkedOK'
  <2>1. \A j \in Activations(cstack') : cstack'[j] = cstack[j]
    BY <1>1, <1>4, <1>15
  <2>2. ASSUME NEW i \in Generators \ {g}, gen[i].stackDetached
        PROVE  SetAside(chain', cstack', gen[i].si)
    <3>1. SetAside(chain, cstack, gen[i].si) /\ gen[i].si \in SI
      BY <1>3, <2>2 DEF ParkedOK, SetAside
    <3>2. SetAside(chain', cstack, gen[i].si)
      BY <1>12, <3>1
    <3>3. QED  BY <1>15, <2>1, <3>2, AsideReturned
  <2>3. {g} \in SUBSET Generators /\ \A i \in {g} : FlagsOK(gen'[i]) /\ ~gen'[i].stackDetached
    BY <1>1, <1>17, <1>18
  <2>4. QED  BY <1>18, <2>2, <2>3, ParkedKeeps
<1>21. TypeOK'
  <2>1. chain' \in Chain /\ cstack' \in Seq(Frame)
    BY <1>10, <1>15 DEF Linked, Cut
  <2>2. hook' \in FrameIndex
    BY <1>1, <1>3, <1>4, Typing DEF Depth
  <2>3. QED  BY <1>3, <1>14, <1>16, <1>18, <2>1, <2>2 DEF TypeOK
<1>22. ChainLinked'
  BY <1>10 DEF Linked, ChainLinked
<1>23. QED  BY <1>15, <1>19, <1>20, <1>21, <1>22 DEF IndInv

-----------------------------------------------------------------------------
\* Delivering an exception.

\* While the stack infos are unwound only contexts are lost.
LEMMA ContextsCut ==
    ASSUME IndInv, cstack' = cstack, NEW s \in SI, NEW stack \in Seq(Context),
           cxs' = [cxs EXCEPT ![s] = stack],
           \A k \in Activations(cstack) : cstack[k].si = s => Aimed(cstack, k, stack)
    PROVE  /\ ContextsOK'
           /\ cxs' \in [SI -> Seq(Context)] /\ cxs'[s] = stack
           /\ \A t \in SI : t # s => cxs'[t] = cxs[t]
<1>1. /\ cxs' \in [SI -> Seq(Context)] /\ cxs'[s] = stack
      /\ \A t \in SI : t # s => cxs'[t] = cxs[t]
  BY CxsUpdate DEF IndInv
<1>2. ASSUME NEW k \in Activations(cstack)
      PROVE  Aimed(cstack, k, cxs'[cstack[k].si])
  <2>1. cstack[k].si \in SI /\ Aimed(cstack, k, cxs[cstack[k].si])
    BY Typing DEF Activations, TypeOK, IndInv, ContextsOK
  <2>2. CASE cstack[k].si = s
    BY <1>1, <2>2
  <2>3. CASE cstack[k].si # s
    BY <1>1, <2>1, <2>3
  <2>4. QED  BY <2>2, <2>3
<1>3. QED  BY <1>1, <1>2 DEF ContextsOK

\* Unwinding a stack with no eval pops it.
LEMMA UnwindPopStep ==
    ASSUME IndInv, UnwindPop  PROVE IndInv'
<1>1. /\ exc.stage = "unwind"
      /\ cxs' = [cxs EXCEPT ![cur] = <<>>]
      /\ chain' = Popped(chain)
      /\ gvav' = UnwoundArray(cxs[cur], 0) /\ depth' = UnwoundDepth(cxs[cur], 0)
      /\ gen' = gen /\ cstack' = cstack /\ hook' = hook /\ exc' = exc /\ status' = status
      /\ TypeOK /\ ParkedOK /\ OnPath(cstack, chain)
  BY DEF UnwindPop, IndInv
<1>2. PICK m \in Activations(cstack) : cur = cstack[m].si
  BY DEF IndInv, CurOK
<1>3. /\ cstack \in Seq(Frame) /\ Linked(chain) /\ cur \in SI /\ Depth \in Nat
      /\ \A j \in Activations(cstack) : j \in 1 .. Depth
  BY Facts
<1>4. m # 1
  <2>1. cstack[1].si = Main /\ chain.prev[Main] = NULL
    BY DEF IndInv, WellFramed, ChainLinked, DoublyLinked
  <2>2. cur # Main \/ chain.prev[cur] # NULL
    BY DEF UnwindPop
  <2>3. QED  BY <1>2, <2>1, <2>2
<1> DEFINE b == cstack[m - 1].loop
<1>5. /\ chain.prev[cur] = cstack[b].si
      /\ b \in Activations(cstack)
      /\ \A j \in Activations(cstack) : j <= m - 1 => j <= b
  <2>1. m - 1 \in 1 .. Len(cstack)
    BY <1>3, <1>4 DEF Depth
  <2>2. chain.prev[cur] = cstack[b].si
    BY <1>1, <1>2, <1>4 DEF OnPath
  <2>3. QED  BY <2>1, <2>2, Framing DEF IndInv
<1>6. cstack[b].si \in SI
  BY <1>3, <1>5, Typing DEF Depth
<1> HIDE DEF b
<1>7. /\ Linked(chain') /\ chain'.cur = cstack[b].si
      /\ chain'.prev = chain.prev /\ chain'.next = chain.next /\ chain'.used = chain.used
  <2>1. chain.prev[chain.cur] # NULL
    BY <1>5, <1>6 DEF cur, SI, NULL
  <2>2. QED  BY <1>1, <1>3, <1>5, <2>1, PoppedLemma DEF cur
<1>8. /\ ContextsOK'
      /\ cxs' \in [SI -> Seq(Context)] /\ cxs'[cur] = <<>>
      /\ \A t \in SI : t # cur => cxs'[t] = cxs[t]
  BY <1>1, <1>3, EmptySeq, AimedEmpty, ContextsCut
<1>9. DeliveryOK'
  <2>1. ASSUME NEW i \in Activations(cstack), NEW k \in Activations(cstack),
               chain'.cur = cstack[i].si, k > i
        PROVE  cxs'[cstack[k].si] = <<>>
    <3>1. i = b
      BY <1>1, <1>5, <1>7, <2>1 DEF OnPath
    <3>2. k \in 1 .. Depth /\ b \in 1 .. Depth /\ m \in 1 .. Depth
      BY <1>3, <1>5
    <3>3. k >= m
      BY <1>3, <1>5, <2>1, <3>1, <3>2
    <3>4. k = m \/ k > m
      BY <1>3, <3>2, <3>3
    <3>5. k > m => cxs[cstack[k].si] = <<>>
      BY <1>1, <1>2 DEF IndInv, DeliveryOK
    <3>6. cstack[k].si \in SI
      BY <1>3, <3>2, Typing DEF Depth
    <3>7. QED  BY <1>2, <1>8, <3>4, <3>5, <3>6
  <2>2. QED  BY <1>1, <2>1 DEF DeliveryOK, cur
<1>10. CurOK'
  BY <1>1, <1>5, <1>7 DEF CurOK, cur, Executing
<1>11. OnPath(cstack', chain') /\ WellFramed(cstack') /\ HookOK' /\ OwnedOK'
  BY <1>1, <1>7 DEF IndInv, OnPath, HookOK, OwnedOK, Depth
<1>12. ParkedOK'
  <2>1. \A s \in SI : SetAside(chain, cstack, s) => SetAside(chain', cstack', s)
    BY <1>1, <1>7 DEF SetAside, Isolated
  <2>2. \A h \in Generators : gen[h].stackDetached =>
           SetAside(chain, cstack, gen[h].si) /\ gen[h].si \in SI
    BY <1>1 DEF ParkedOK, SetAside
  <2>3. QED  BY <1>1, <2>1, <2>2 DEF ParkedOK
<1>13. TypeOK' /\ ChainLinked'
  <2>1. cxs[cur] \in Seq(Context) /\ 0 \in Nat
    BY <1>1, <1>3 DEF TypeOK
  <2>2. gvav' \in Arrays /\ depth' \in [Bodies -> Nat]
    BY <1>1, <2>1, UnwoundType
  <2>3. QED  BY <1>1, <1>7, <1>8, <2>2 DEF TypeOK, ChainLinked, Linked
<1>14. QED  BY <1>8, <1>9, <1>10, <1>11, <1>12, <1>13 DEF IndInv

\* Unwinding to an eval aims the exception at a boundary of its activation.
LEMMA UnwindFoundStep ==
    ASSUME IndInv, UnwindFound  PROVE IndInv'
<1>1. PICK i \in EvalsOn(cur) :
         /\ \A j \in EvalsOn(cur) : j <= i
         /\ exc' = [exc EXCEPT !.stage = "jump", !.env = cxs[cur][i].env,
                               !.uncaught = cxs[cur][i].type = "FAKE"]
         /\ gvav' = UnwoundArray(cxs[cur], i)
         /\ depth' = UnwoundDepth(cxs[cur], i)
         /\ cxs' = [cxs EXCEPT ![cur] = SubSeq(@, 1, i - 1)]
  BY DEF UnwindFound
<1> DEFINE old == cxs[cur]
           stack == SubSeq(old, 1, i - 1)
<1>2. /\ exc.stage = "unwind" /\ exc.kind = "die"
      /\ gen' = gen /\ chain' = chain /\ cstack' = cstack /\ hook' = hook /\ status' = status
      /\ TypeOK /\ ParkedOK /\ OnPath(cstack, chain)
  BY DEF UnwindFound, IndInv
<1>3. /\ cstack \in Seq(Frame) /\ cur \in SI /\ Depth \in Nat /\ Depth <= MaxFrames
      /\ MaxFrames \in Nat
      /\ \A j \in Activations(cstack) : j \in 1 .. Depth
  BY Facts
<1>4. old \in Seq(Context)
  BY <1>2, <1>3 DEF TypeOK
<1>5. i \in DOMAIN old /\ i \in 1 .. Len(old) /\ old[i].type \in EvalTypes /\ i \in Nat
  <2>1. i \in DOMAIN old /\ old[i].type \in EvalTypes
    BY DEF EvalsOn
  <2> HIDE DEF Context, old
  <2>2. QED  BY <1>4, <2>1, LenProperties
<1>6. /\ stack \in Seq(Context) /\ DOMAIN stack = 1 .. i - 1
      /\ \A j \in 1 .. i - 1 : stack[j] = old[j] /\ j \in DOMAIN old
  <2> HIDE DEF Context, old
  <2>1. /\ stack \in Seq(Context) /\ DOMAIN stack = 1 .. i - 1
        /\ \A j \in 1 .. i - 1 : stack[j] = old[j]
        /\ DOMAIN old = 1 .. Len(old) /\ Len(old) \in Nat
    BY <1>4, <1>5, StackCut
  <2>2. QED  BY <1>5, <2>1
<1>7. \A k \in Activations(cstack) : cstack[k].si = cur => Aimed(cstack, k, old)
  BY DEF IndInv, ContextsOK
<1>8. PICK m \in Activations(cstack) : cur = cstack[m].si
  BY DEF IndInv, CurOK
<1>9. /\ old[i].env \in m .. Depth /\ cstack[old[i].env].kind # "callback"
      /\ cstack[old[i].env].loop = m
      /\ \A j \in 1 .. i - 1 : old[j].type \in EvalTypes => old[j].env <= old[i].env
  <2>1. Aimed(cstack, m, old)
    BY <1>7, <1>8
  <2>2. \A j \in 1 .. i - 1 : j \in DOMAIN old /\ j <= i
    BY <1>5, <1>6
  <2>3. QED  BY <1>5, <2>1, <2>2 DEF Aimed, Depth
<1>10. cxs' = [cxs EXCEPT ![cur] = stack]
  BY <1>1
<1>11. \A k \in Activations(cstack) : cstack[k].si = cur => Aimed(cstack, k, stack)
  BY <1>4, <1>5, <1>7, AimedPopped
<1> HIDE DEF stack, old
<1>12. /\ ContextsOK'
       /\ cxs' \in [SI -> Seq(Context)] /\ cxs'[cur] = stack
       /\ \A t \in SI : t # cur => cxs'[t] = cxs[t]
  BY <1>2, <1>3, <1>6, <1>10, <1>11, ContextsCut
<1>13. /\ exc' \in Exception /\ exc'.stage = "jump" /\ exc'.kind = "die"
       /\ exc'.env = old[i].env
  <2>1. exc \in Exception
    BY <1>2 DEF TypeOK
  <2>2. m \in Nat /\ 1 <= m
    BY <1>3, <1>8
  <2>3. old[i].env \in FrameIndex
    BY <1>3, <1>9, <2>2 DEF FrameIndex
  <2>4. exc' = [exc EXCEPT !.stage = "jump", !.env = old[i].env,
                           !.uncaught = old[i].type = "FAKE"]
    BY <1>1 DEF old
  <2>5. QED  BY <1>2, <2>1, <2>3, <2>4 DEF Exception
<1>14. DeliveryOK'
  <2>1. ASSUME NEW n \in Activations(cstack), NEW k \in Activations(cstack),
               cur = cstack[n].si, k > n
        PROVE  cxs'[cstack[k].si] = <<>>
    <3>1. cxs[cstack[k].si] = <<>>
      BY <1>2, <2>1 DEF IndInv, DeliveryOK
    <3>2. k # n /\ cstack[k].si \in SI
      BY <1>3, <2>1, Typing DEF Depth
    <3>3. cstack[k].si # cur
      BY <1>2, <2>1, <3>2 DEF OnPath
    <3>4. QED  BY <1>12, <3>1, <3>2, <3>3
  <2>2. exc'.env \in 1 .. Depth
    BY <1>3, <1>8, <1>9, <1>13
  <2>3. cstack[exc'.env].kind # "callback" /\ cstack[cstack[exc'.env].loop].si = cur
    BY <1>8, <1>9, <1>13
  <2>4. \A j \in DOMAIN cxs'[cur] :
           cxs'[cur][j].type \in EvalTypes => cxs'[cur][j].env <= exc'.env
    BY <1>6, <1>9, <1>12, <1>13
  <2>5. cur' = cur /\ Depth' = Depth
    BY <1>2 DEF cur, Depth
  <2>6. QED  BY <1>2, <1>13, <2>1, <2>2, <2>3, <2>4, <2>5 DEF DeliveryOK
<1>15. CurOK' /\ OnPath(cstack', chain') /\ WellFramed(cstack') /\ HookOK' /\ OwnedOK'
       /\ ParkedOK' /\ ChainLinked'
  BY <1>2, <1>13 DEF IndInv, CurOK, cur, Executing, HookOK, OwnedOK, ParkedOK, ChainLinked, Depth
<1>16. TypeOK'
  <2>1. gvav' \in Arrays /\ depth' \in [Bodies -> Nat]
    BY <1>1, <1>2, <1>4, <1>5, UnwoundType DEF old
  <2>2. QED  BY <1>2, <1>12, <1>13, <2>1 DEF TypeOK
<1>17. QED  BY <1>12, <1>14, <1>15, <1>16 DEF IndInv

\* Unwinding the main stack turns the exception into an exit.
LEMMA UnwindMainStep ==
    ASSUME IndInv, UnwindMain  PROVE IndInv'
<1>1. /\ exc.stage = "unwind"
      /\ cxs' = [cxs EXCEPT ![cur] = <<>>]
      /\ exc' = [exc EXCEPT !.stage = "jump", !.kind = "exit"]
      /\ gen' = gen /\ chain' = chain /\ cstack' = cstack /\ hook' = hook
      /\ gvav' = gvav /\ depth' = depth /\ status' = status
      /\ TypeOK /\ OnPath(cstack, chain)
  BY DEF UnwindMain, IndInv
<1>2. /\ cstack \in Seq(Frame) /\ cur \in SI /\ SI \subseteq Nat /\ Depth \in Nat
      /\ \A j \in Activations(cstack) : j \in 1 .. Depth
  BY Facts
<1>3. cur = Main
  <2>1. CASE exc.kind = "exit"
    BY <2>1 DEF UnwindMain
  <2>2. CASE exc.kind # "exit"
    <3>1. chain.prev[cur] = NULL
      BY <2>2 DEF UnwindMain
    <3>2. PICK m \in Activations(cstack) : cur = cstack[m].si
      BY DEF IndInv, CurOK
    <3>3. m # 1 => chain.prev[cur] = cstack[m].caller /\ cstack[m].caller \in SI
      BY <1>1, <1>2, <3>2, Typing DEF OnPath, Depth
    <3>4. m = 1
      BY <3>1, <3>3 DEF SI, NULL
    <3>5. QED  BY <3>2, <3>4 DEF IndInv, WellFramed
  <2>3. QED  BY <2>1, <2>2
<1>4. /\ ContextsOK'
      /\ cxs' \in [SI -> Seq(Context)] /\ cxs'[cur] = <<>>
      /\ \A t \in SI : t # cur => cxs'[t] = cxs[t]
  BY <1>1, <1>2, EmptySeq, AimedEmpty, ContextsCut
<1>5. exc' \in Exception /\ exc'.stage = "jump" /\ exc'.kind = "exit"
  <2>1. exc \in Exception
    BY <1>1 DEF TypeOK
  <2>2. QED  BY <1>1, <2>1 DEF Exception
<1>6. DeliveryOK'
  <2>1. ASSUME NEW n \in Activations(cstack), NEW k \in Activations(cstack),
               cur = cstack[n].si, k > n
        PROVE  cxs'[cstack[k].si] = <<>>
    <3>1. cxs[cstack[k].si] = <<>>
      BY <1>1, <2>1 DEF IndInv, DeliveryOK
    <3>2. cstack[k].si \in SI
      BY <1>2, Typing DEF Depth
    <3>3. QED  BY <1>4, <3>1, <3>2
  <2>2. QED  BY <1>1, <1>3, <1>4, <1>5, <2>1 DEF DeliveryOK, cur
<1>7. CurOK' /\ OnPath(cstack', chain') /\ WellFramed(cstack') /\ HookOK' /\ OwnedOK'
      /\ ParkedOK' /\ ChainLinked'
  BY <1>1, <1>5 DEF IndInv, CurOK, cur, Executing, HookOK, OwnedOK, ParkedOK, ChainLinked, Depth
<1>8. TypeOK'
  BY <1>1, <1>4, <1>5 DEF TypeOK
<1>9. QED  BY <1>4, <1>6, <1>7, <1>8 DEF IndInv

\* While the exception jumps from boundary to boundary, its target lies in the
\* current activation, no higher than the boundary now on top, and nothing
\* that could be unwound to is above the target.
LEMMA JumpTarget ==
    ASSUME IndInv, exc.stage = "jump"
    PROVE  \E m \in Activations(cstack) :
              /\ m \in 1 .. TopEnv /\ cur = cstack[m].si
              /\ \A k \in Activations(cstack) : k > m => cxs[cstack[k].si] = <<>>
              /\ exc.kind = "die" =>
                    /\ exc.env \in m .. TopEnv /\ cstack[exc.env].loop = m
                    /\ \A i \in DOMAIN cxs[cur] :
                          cxs[cur][i].type \in EvalTypes => cxs[cur][i].env <= exc.env
              /\ exc.kind = "exit" => m = 1 /\ cxs[cur] = <<>>
<1>1. /\ cstack \in Seq(Frame) /\ Depth \in Nat /\ TopEnv \in 1 .. Depth
      /\ \A j \in 1 .. Depth : cstack[j].kind # "callback" => j <= TopEnv
      /\ \A j \in Activations(cstack) : j \in 1 .. Depth
  BY Facts
<1>2. DeliveryOK /\ WellFramed(cstack)
  BY DEF IndInv
<1>3. exc.kind \in {"die", "exit"}
  BY DEF IndInv, TypeOK, Exception
<1>4. CASE exc.kind = "die"
  <2> DEFINE m == cstack[exc.env].loop
  <2>1. /\ exc.env \in 1 .. Depth /\ cstack[exc.env].kind # "callback"
        /\ cstack[m].si = cur
        /\ \A i \in DOMAIN cxs[cur] :
              cxs[cur][i].type \in EvalTypes => cxs[cur][i].env <= exc.env
    BY <1>2, <1>4 DEF DeliveryOK
  <2>2. m \in Activations(cstack) /\ m <= exc.env
    BY <1>2, <2>1, Framing DEF Depth
  <2>3. exc.env <= TopEnv
    BY <1>1, <2>1
  <2>4. m \in 1 .. TopEnv /\ exc.env \in m .. TopEnv
    <3>1. m \in 1 .. Depth
      BY <1>1, <2>2
    <3>2. QED  BY <1>1, <2>1, <2>2, <2>3, <3>1
  <2>5. \A k \in Activations(cstack) : k > m => cxs[cstack[k].si] = <<>>
    BY <1>2, <2>1, <2>2 DEF DeliveryOK
  <2>6. QED  BY <1>4, <2>1, <2>2, <2>4, <2>5
<1>5. CASE exc.kind = "exit"
  <2>1. cur = Main /\ cxs[cur] = <<>>
    BY <1>2, <1>5 DEF DeliveryOK
  <2>2. 1 \in Activations(cstack) /\ cstack[1].si = cur /\ 1 \in 1 .. TopEnv
    <3>1. 1 \in 1 .. TopEnv
      BY <1>1
    <3>2. 1 \in Activations(cstack) /\ cstack[1].si = Main
      BY <1>2, Framing
    <3>3. QED  BY <2>1, <3>1, <3>2
  <2>3. \A k \in Activations(cstack) : k > 1 => cxs[cstack[k].si] = <<>>
    BY <1>2, <2>2 DEF DeliveryOK
  <2>4. QED  BY <1>5, <2>1, <2>2, <2>3
<1>6. QED  BY <1>3, <1>4, <1>5

\* The C stack is cut to n frames, at a boundary or just below one, and
\* nothing else changes.
LEMMA CutKeeps ==
    ASSUME IndInv, NEW n \in 1 .. Depth, cstack' = SubSeq(cstack, 1, n),
           UNCHANGED <<gen, chain, cxs, hook>>,
           \A j \in 1 .. Depth : j > n => cstack[j].kind # "resume",
           \A k \in Activations(cstack) : \A i \in DOMAIN cxs[cstack[k].si] :
               cxs[cstack[k].si][i].type \in EvalTypes =>
                   (k <= n => cxs[cstack[k].si][i].env <= n),
           status' = "destruct" => n = 1
    PROVE  /\ ChainLinked' /\ WellFramed(cstack') /\ OnPath(cstack', chain')
           /\ ContextsOK' /\ ParkedOK' /\ OwnedOK' /\ HookOK'
           /\ cstack' \in Seq(Frame) /\ Depth' = n
           /\ \A j \in 1 .. n : cstack'[j] = cstack[j]
           /\ Activations(cstack') = {j \in Activations(cstack) : j < n + 1}
<1>1. /\ cstack \in Seq(Frame) /\ Depth \in Nat /\ chain.used \in Nat /\ n \in Nat
      /\ \A j \in Activations(cstack) : j \in 1 .. Depth
  BY Facts
<1>2. WellFramed(cstack) /\ OnPath(cstack, chain) /\ ParkedOK /\ ContextsOK
  BY DEF IndInv
<1>3. Cut(cstack, cstack', n)
  BY <1>1, CutLemma DEF Depth
<1>4. Depth' = n /\ Len(cstack') = n /\ cstack' \in Seq(Frame)
      /\ \A j \in 1 .. n : cstack'[j] = cstack[j]
  BY <1>3 DEF Cut, Depth
<1>5. Activations(cstack') = {j \in Activations(cstack) : j < n + 1}
  <2>1. \A j \in 1 .. Len(cstack) : j \in 1 .. n <=> j < n + 1
    BY <1>1 DEF Depth
  <2>2. \A j \in 1 .. n : j \in 1 .. Len(cstack)
    BY <1>1 DEF Depth
  <2>3. QED  BY <1>4, <2>1, <2>2 DEF Activations
<1>6. WellFramed(cstack') /\ OnPath(cstack', chain')
  BY <1>1, <1>2, <1>3, CutWellFramed, PathCut
<1>7. \A j \in Activations(cstack') :
         j \in Activations(cstack) /\ j \in 1 .. n /\ cstack'[j] = cstack[j]
  BY <1>1, <1>4, <1>5
<1>8. ContextsOK'
  <2>1. ASSUME NEW k \in Activations(cstack')
        PROVE  Aimed(cstack', k, cxs[cstack[k].si])
    <3>1. Aimed(cstack, k, cxs[cstack[k].si])
      BY <1>2, <1>7 DEF ContextsOK
    <3>2. \A i \in DOMAIN cxs[cstack[k].si] :
             cxs[cstack[k].si][i].type \in EvalTypes => cxs[cstack[k].si][i].env <= n
      <4>1. k <= n /\ k \in Activations(cstack)
        BY <1>1, <1>7
      <4>2. QED  BY <4>1
    <3>3. QED  BY <1>3, <1>7, <3>1, <3>2, AimedCut
  <2>2. QED  BY <1>7, <2>1 DEF ContextsOK
<1>9. ParkedOK'
  <2>1. \A j \in Activations(cstack') : cstack'[j] = cstack[j]
    BY <1>7
  <2>2. ASSUME NEW h \in Generators, gen[h].stackDetached
        PROVE  SetAside(chain', cstack', gen[h].si)
    <3>1. SetAside(chain', cstack, gen[h].si)
      BY <1>2, <2>2 DEF ParkedOK
    <3>2. \A j \in Activations(cstack') : j \in Activations(cstack)
      BY <1>5
    <3>3. QED  BY <2>1, <3>1, <3>2 DEF SetAside
  <2>3. QED  BY <1>2, <2>2 DEF ParkedOK
<1>10. OwnedOK' /\ HookOK'
  <2>1. \A j \in 1 .. Depth' : ~(j > Depth)
    BY <1>1, <1>4
  <2>2. QED  BY <1>1, <1>4, <2>1, SameOwned
<1>11. ChainLinked'
  BY DEF IndInv, ChainLinked
<1>12. QED  BY <1>4, <1>5, <1>6, <1>8, <1>9, <1>10, <1>11

\* No eval of a live activation aims above the boundary on top.
LEMMA AimsAtMostTop ==
    ASSUME IndInv, NEW k \in Activations(cstack), NEW i \in DOMAIN cxs[cstack[k].si],
           cxs[cstack[k].si][i].type \in EvalTypes
    PROVE  /\ cxs[cstack[k].si][i].env \in k .. TopEnv
           /\ cstack[cxs[cstack[k].si][i].env].loop = k
<1>1. /\ Depth \in Nat /\ TopEnv \in 1 .. Depth /\ k \in 1 .. Depth
      /\ \A j \in 1 .. Depth : cstack[j].kind # "callback" => j <= TopEnv
  BY Facts
<1>2. PICK e : e = cxs[cstack[k].si][i].env
  OBVIOUS
<1>3. Aimed(cstack, k, cxs[cstack[k].si])
  BY DEF IndInv, ContextsOK
<1>4. e \in k .. Depth /\ cstack[e].kind # "callback" /\ cstack[e].loop = k
  BY <1>2, <1>3 DEF Aimed, Depth
<1>5. e \in 1 .. Depth /\ e \in k .. Depth
  BY <1>1, <1>4
<1>6. e <= TopEnv
  BY <1>1, <1>4, <1>5
<1>7. e \in k .. TopEnv
  BY <1>1, <1>5, <1>6
<1>8. QED  BY <1>2, <1>4, <1>7

\* docatch takes the exception or passes it on.
LEMMA JumpDocatchStep ==
    ASSUME IndInv, JumpDocatch  PROVE IndInv'
<1>1. /\ status = "running" /\ exc.stage = "jump" /\ cstack[TopEnv].kind = "docatch"
      /\ gen' = gen /\ chain' = chain /\ cxs' = cxs /\ hook' = hook /\ gvav' = gvav
      /\ depth' = depth /\ status' = status
      /\ TypeOK
  BY DEF JumpDocatch, Jumping, IndInv
<1>2. /\ Depth \in Nat /\ TopEnv \in 1 .. Depth
      /\ \A j \in 1 .. Depth : cstack[j].kind # "callback" => j <= TopEnv
      /\ \A j \in Activations(cstack) : j \in 1 .. Depth
  BY Facts
<1>3. PICK m \in Activations(cstack) :
         /\ m \in 1 .. TopEnv /\ cur = cstack[m].si
         /\ \A k \in Activations(cstack) : k > m => cxs[cstack[k].si] = <<>>
         /\ exc.kind = "die" =>
               /\ exc.env \in m .. TopEnv /\ cstack[exc.env].loop = m
               /\ \A i \in DOMAIN cxs[cur] :
                     cxs[cur][i].type \in EvalTypes => cxs[cur][i].env <= exc.env
         /\ exc.kind = "exit" => m = 1 /\ cxs[cur] = <<>>
  BY <1>1, JumpTarget
<1>4. TopEnv # 1 /\ cur' = cur
  <2>1. FrameOK(cstack, TopEnv)
    BY <1>2 DEF IndInv, WellFramed, Depth
  <2>2. QED  BY <1>1, <2>1 DEF FrameOK, cur
<1>5. CASE exc.kind = "die" /\ exc.env = TopEnv
  <2>1. exc' = NoException /\ cstack' = SubSeq(cstack, 1, TopEnv)
    BY <1>5 DEF JumpDocatch
  <2>2. \A j \in 1 .. Depth : j > TopEnv => cstack[j].kind # "resume"
    BY <1>2
  <2>3. \A k \in Activations(cstack) : \A i \in DOMAIN cxs[cstack[k].si] :
            cxs[cstack[k].si][i].type \in EvalTypes =>
                (k <= TopEnv => cxs[cstack[k].si][i].env <= TopEnv)
    <3>1. SUFFICES ASSUME NEW k \in Activations(cstack), NEW i \in DOMAIN cxs[cstack[k].si],
                          cxs[cstack[k].si][i].type \in EvalTypes
                   PROVE  cxs[cstack[k].si][i].env <= TopEnv
      OBVIOUS
    <3>2. cxs[cstack[k].si][i].env \in k .. TopEnv
      BY <3>1, AimsAtMostTop
    <3>3. QED  BY <3>2
  <2> DEFINE n == TopEnv
  <2> HIDE DEF n
  <2>4. /\ ChainLinked' /\ WellFramed(cstack') /\ OnPath(cstack', chain')
        /\ ContextsOK' /\ ParkedOK' /\ OwnedOK' /\ HookOK'
        /\ cstack' \in Seq(Frame) /\ Depth' = n
        /\ \A j \in 1 .. n : cstack'[j] = cstack[j]
        /\ Activations(cstack') = {j \in Activations(cstack) : j < n + 1}
    <3>1. n \in 1 .. Depth /\ cstack' = SubSeq(cstack, 1, n)
          /\ (\A j \in 1 .. Depth : j > n => cstack[j].kind # "resume")
          /\ (status' = "destruct" => n = 1)
      BY <1>1, <1>2, <2>1, <2>2 DEF n
    <3>2. \A k \in Activations(cstack) : \A i \in DOMAIN cxs[cstack[k].si] :
            cxs[cstack[k].si][i].type \in EvalTypes =>
                (k <= n => cxs[cstack[k].si][i].env <= n)
      BY <2>3 DEF n
    <3>3. QED  BY <1>1, <3>1, <3>2, CutKeeps
  <2>5. m \in Activations(cstack') /\ cstack'[m] = cstack[m]
    BY <1>2, <1>3, <2>4 DEF n
  <2>6. Loop' = m
    <3>1. n \in 1 .. n
      BY <1>2 DEF n
    <3>2. Loop' = cstack[n].loop
      BY <2>4, <3>1 DEF Loop
    <3>3. QED  BY <1>3, <1>5, <3>2 DEF n
  <2>7. CurOK'
    BY <1>3, <1>4, <2>5, <2>6 DEF CurOK
  <2>8. DeliveryOK' /\ exc' \in Exception
    BY <2>1, RaisedType DEF DeliveryOK
  <2>9. TypeOK'
    BY <1>1, <2>4, <2>8 DEF TypeOK
  <2>10. QED  BY <2>4, <2>7, <2>8, <2>9 DEF IndInv
<1>6. CASE ~(exc.kind = "die" /\ exc.env = TopEnv)
  <2> DEFINE n == TopEnv - 1
  <2>1. exc' = exc /\ cstack' = SubSeq(cstack, 1, n)
    BY <1>6 DEF JumpDocatch
  <2>2. n \in 1 .. Depth /\ TopEnv = n + 1 /\ n \in Nat
    BY <1>2, <1>4
  <2> HIDE DEF n
  <2>3. \A j \in 1 .. Depth : j > n => cstack[j].kind # "resume"
    <3>1. \A j \in 1 .. Depth : j > n => j = TopEnv \/ j > TopEnv
      BY <1>2, <2>2
    <3>2. QED  BY <1>1, <1>2, <3>1
  <2>4. ASSUME NEW k \in Activations(cstack), NEW i \in DOMAIN cxs[cstack[k].si],
               cxs[cstack[k].si][i].type \in EvalTypes
        PROVE  cxs[cstack[k].si][i].env <= n
    <3>1. /\ cxs[cstack[k].si][i].env \in k .. TopEnv
          /\ cstack[cxs[cstack[k].si][i].env].loop = k
          /\ k \in 1 .. Depth
      BY <1>2, <2>4, AimsAtMostTop
    <3>2. cxs[cstack[k].si][i].env # TopEnv
      <4>1. SUFFICES ASSUME cxs[cstack[k].si][i].env = TopEnv  PROVE FALSE
        OBVIOUS
      <4>2. k = cstack[TopEnv].loop /\ TopEnv \in 1 .. Len(cstack) /\ WellFramed(cstack)
        BY <1>2, <3>1, <4>1 DEF Depth, IndInv
      <4>3. m <= k
        <5>1. m <= TopEnv
          BY <1>2, <1>3
        <5>2. \A j \in Activations(cstack) : j <= TopEnv => j <= cstack[TopEnv].loop
          BY <4>2, Framing
        <5>3. QED  BY <4>2, <5>1, <5>2
      <4>4. ~(k > m)
        <5>1. SUFFICES ASSUME k > m  PROVE FALSE
          OBVIOUS
        <5>2. cxs[cstack[k].si] = <<>>
          BY <1>3, <2>4, <5>1
        <5>3. i \in DOMAIN cxs[cstack[k].si]
          BY <2>4
        <5>4. QED  BY <5>2, <5>3
      <4>5. k = m
        <5>1. k \in 1 .. Depth /\ m \in 1 .. Depth
          BY <1>2
        <5>2. QED  BY <1>2, <4>3, <4>4, <5>1
      <4>6. exc.kind = "die"
        <5>1. exc.kind \in {"die", "exit"}
          BY <1>1 DEF TypeOK, Exception
        <5>2. cxs[cur] # <<>>
          <6>1. i \in DOMAIN cxs[cur]
            BY <1>3, <2>4, <4>5
          <6>2. QED  BY <6>1
        <5>3. QED  BY <1>3, <5>1, <5>2
      <4>7. TopEnv <= exc.env /\ exc.env \in m .. TopEnv
        BY <1>3, <2>4, <4>1, <4>5, <4>6
      <4>8. QED  BY <1>2, <1>3, <1>6, <4>6, <4>7
    <3>3. QED  BY <1>2, <2>2, <3>1, <3>2
  <2>5. /\ ChainLinked' /\ WellFramed(cstack') /\ OnPath(cstack', chain')
        /\ ContextsOK' /\ ParkedOK' /\ OwnedOK' /\ HookOK'
        /\ cstack' \in Seq(Frame) /\ Depth' = n
        /\ \A j \in 1 .. n : cstack'[j] = cstack[j]
        /\ Activations(cstack') = {j \in Activations(cstack) : j < n + 1}
    BY <1>1, <2>1, <2>2, <2>3, <2>4, CutKeeps
  <2>6. m \in Activations(cstack') /\ cstack'[m] = cstack[m]
    <3>1. m # TopEnv
      BY <1>1, <1>3 DEF Activations
    <3>2. m < n + 1 /\ m \in 1 .. n
      BY <1>2, <1>3, <2>2, <3>1
    <3>3. QED  BY <1>3, <2>5, <3>2
  <2>7. CurOK'
    BY <1>1, <1>3, <1>4, <2>1, <2>6 DEF CurOK, Executing
  <2>8. DeliveryOK'
    <3>1. ASSUME NEW i \in Activations(cstack'), NEW k \in Activations(cstack'),
                 cur = cstack'[i].si, k > i
          PROVE  cxs[cstack'[k].si] = <<>>
      <4>1. i = m
        BY <1>3, <2>5, <2>6, <3>1 DEF OnPath
      <4>2. k \in Activations(cstack) /\ k \in 1 .. n
        BY <1>2, <2>2, <2>5
      <4>3. QED  BY <1>3, <2>5, <3>1, <4>1, <4>2
    <3>2. ASSUME exc.kind = "die"
          PROVE  /\ exc.env \in 1 .. n /\ cstack'[exc.env].kind # "callback"
                 /\ cstack'[cstack'[exc.env].loop].si = cur
                 /\ \A i \in DOMAIN cxs[cur] :
                       cxs[cur][i].type \in EvalTypes => cxs[cur][i].env <= exc.env
      <4>1. exc.env \in m .. TopEnv /\ cstack[exc.env].loop = m /\ exc.env # TopEnv
        BY <1>3, <1>6, <3>2
      <4>2. exc.env \in 1 .. n
        BY <1>2, <1>3, <2>2, <4>1
      <4>3. cstack[exc.env].kind # "callback"
        BY <1>1, <3>2 DEF IndInv, DeliveryOK
      <4>4. QED  BY <1>3, <2>5, <2>6, <3>2, <4>1, <4>2, <4>3
    <3>3. exc.kind = "exit" => cur = Main /\ cxs[Main] = <<>>
      BY <1>1 DEF IndInv, DeliveryOK
    <3>4. QED  BY <1>1, <1>4, <2>1, <2>5, <3>1, <3>2, <3>3 DEF DeliveryOK
  <2>9. TypeOK'
    BY <1>1, <2>1, <2>5 DEF TypeOK
  <2>10. QED  BY <2>5, <2>7, <2>8, <2>9 DEF IndInv
<1>7. QED  BY <1>5, <1>6

\* Nothing is checked of a program that cannot continue, but it stays put.
LEMMA StoppedStep ==
    ASSUME IndInv, UNCHANGED <<gen, chain, cxs, cstack, hook, gvav, depth, exc>>,
           status = "running", status' \in {"panic", "undefined"}
    PROVE  IndInv'
<1>1. ~Executing' /\ status' # "destruct"
  BY DEF Executing
<1>2. TypeOK'
  BY DEF IndInv, TypeOK, Statuses
<1>3. OwnedOK' /\ HookOK'
  BY <1>1 DEF IndInv, OwnedOK, HookOK, Depth
<1>4. CurOK' /\ DeliveryOK'
  BY <1>1 DEF IndInv, CurOK, DeliveryOK, cur, Depth
<1>5. /\ ChainLinked' /\ WellFramed(cstack') /\ OnPath(cstack', chain')
      /\ ParkedOK' /\ ContextsOK'
  BY DEF IndInv, ChainLinked, ParkedOK, ContextsOK
<1>6. QED  BY <1>2, <1>3, <1>4, <1>5 DEF IndInv

\* generator_resume takes the exception over as the failure of its generator.
LEMMA JumpResumeStep ==
    ASSUME IndInv, JumpResume  PROVE IndInv'
<1> DEFINE h == TopEnv
           f == cstack[h]
           g == f.gen
           r == [gen[g] EXCEPT !.state = "FAILED", !.stackPushed = FALSE,
                               !.evalActive = FALSE, !.si = cur,
                               !.defav = UnwoundArray(cxs[cur], 0)]
<1>1. /\ status = "running" /\ exc.stage = "jump" /\ f.kind = "resume"
      /\ TypeOK /\ ParkedOK /\ WellFramed(cstack) /\ OnPath(cstack, chain)
  BY DEF JumpResume, Jumping, IndInv
<1>2. /\ cstack \in Seq(Frame) /\ Depth \in Nat /\ h \in 1 .. Depth
      /\ \A j \in 1 .. Depth : cstack[j].kind # "callback" => j <= h
      /\ \A j \in Activations(cstack) : j \in 1 .. Depth
      /\ Linked(chain) /\ cur \in SI /\ SI \subseteq Nat
      /\ chain.used \in SI
  BY Facts
<1> HIDE DEF h
<1>3. h \in Activations(cstack) /\ h # 1 /\ g \in Generators
  <2>1. FrameOK(cstack, h)
    BY <1>1, <1>2 DEF WellFramed, Depth
  <2>2. QED  BY <1>1, <1>2, <2>1 DEF FrameOK, Activations, Depth
<1>4. gen[g].state = "RUNNING" /\ ~gen[g].stackDetached /\ ~gen[g].captured
  <2>1. gen[g].state = "RUNNING"
    BY <1>1, <1>2 DEF IndInv, OwnedOK
  <2>2. FlagsOK(gen[g])
    BY <1>1, <1>3 DEF ParkedOK
  <2>3. QED  BY <2>1, <2>2 DEF FlagsOK
<1>5. CASE chain.prev[cur] = NULL
  <2>1. /\ UNCHANGED <<gen, chain, cxs, cstack, hook, gvav, depth, exc>>
        /\ status' = "panic"
    BY <1>5 DEF JumpResume
  <2>2. QED  BY <1>1, <2>1, StoppedStep
<1>6. CASE chain.prev[cur] # NULL
  <2>1. /\ gen' = [gen EXCEPT ![g] = r]
        /\ gvav' = gen[g].defav
        /\ depth' = UnwoundDepth(cxs[cur], 0)
        /\ cxs' = [cxs EXCEPT ![cur] = <<>>]
        /\ chain' = SwitchedTo(Popped(chain), f.caller)
        /\ cstack' = SubSeq(cstack, 1, h - 1)
        /\ hook' = f.oldhook
        /\ exc' = Raised("die")
        /\ status' = status
    BY <1>6 DEF JumpResume, h
  <2>2. f.caller \in SI /\ f.oldhook \in FrameIndex
    BY <1>2, Typing DEF Depth
  <2>3. /\ Linked(chain') /\ chain'.cur = f.caller /\ chain'.used = chain.used
        /\ chain'.prev = chain.prev /\ chain'.next = chain.next
    <3>1. /\ Linked(Popped(chain)) /\ Popped(chain).prev = chain.prev
          /\ Popped(chain).next = chain.next /\ Popped(chain).used = chain.used
      BY <1>2, <1>6, PoppedLemma DEF cur
    <3>2. QED  BY <2>1, <2>2, <3>1, SwitchedLemma
  <2>4. /\ cxs' \in [SI -> Seq(Context)] /\ cxs'[cur] = <<>>
        /\ \A t \in SI : t # cur => cxs'[t] = cxs[t]
    BY <1>1, <1>2, <2>1, EmptySeq, CxsUpdate
  <2>5. /\ exc' \in Exception /\ exc'.stage = "unwind"
    BY <2>1, RaisedType
  <2>6. /\ Cut(cstack, cstack', h - 1)
        /\ Depth' = h - 1
        /\ \A j \in 1 .. h - 1 : cstack'[j] = cstack[j]
        /\ Activations(cstack') = {j \in Activations(cstack) : j < h}
        /\ WellFramed(cstack') /\ OnPath(cstack', chain')
        /\ CurOK' /\ ContextsOK' /\ DeliveryOK'
    <3>1. chain.used <= chain'.used /\ exc'.stage # "jump"
      <4>1. chain.used \in Nat /\ chain'.used = chain.used
        BY <1>2, <2>3
      <4>2. QED  BY <2>5, <4>1
    <3>2. ASSUME NEW j \in Activations(cstack)
          PROVE  cxs'[cstack[j].si] = cxs[cstack[j].si] \/ cxs'[cstack[j].si] = <<>>
      <4>1. cstack[j].si \in SI
        BY <1>2, Typing DEF Depth
      <4>2. QED  BY <2>4, <4>1
    <3>3. QED  BY <1>3, <2>1, <2>3, <3>1, <3>2, ReturnKeeps
  <2>7. /\ gen[g].defav \in Arrays /\ gen[g] \in GenRecord
        /\ UnwoundArray(cxs[cur], 0) \in Arrays
        /\ UnwoundDepth(cxs[cur], 0) \in [Bodies -> Nat]
    <3>1. cxs[cur] \in Seq(Context)
      BY <1>1, <1>2 DEF TypeOK
    <3>2. QED  BY <1>1, <1>3, <3>1, GenFields, UnwoundType DEF TypeOK
  <2>8. r \in GenRecord /\ FlagsOK(r) /\ ~r.stackDetached /\ r.state = "FAILED"
    <3>1. r \in GenRecord
      BY <1>2, <2>7 DEF GenRecord, States
    <3>2. /\ r.state = "FAILED" /\ r.captured = gen[g].captured /\ r.stackPushed = FALSE
          /\ r.stackDetached = gen[g].stackDetached
      BY <2>7 DEF GenRecord
    <3>3. QED  BY <1>4, <3>1, <3>2 DEF FlagsOK
  <2> HIDE DEF r
  <2>9. /\ gen' \in [Generators -> GenRecord] /\ gen'[g] = r
        /\ \A i \in Generators \ {g} : gen'[i] = gen[i]
    BY <1>1, <1>3, <2>1, <2>8, GenUpdate
  <2>10. OwnedOK' /\ HookOK'
    <3>1. \A j \in 1 .. Depth : cstack[j].kind = "resume" => j <= h
      BY <1>2
    <3>2. OwnedOK' /\ InnermostHook(cstack', Depth', cstack[h].oldhook)
      BY <1>1, <1>2, <2>1, <2>6, <2>8, <2>9, <3>1, ReturnOwned
    <3>3. QED  BY <2>1, <3>2 DEF HookOK
  <2>11. ParkedOK'
    <3>1. \A j \in Activations(cstack') : cstack'[j] = cstack[j]
      BY <1>2, <2>6
    <3>2. ASSUME NEW i \in Generators \ {g}, gen[i].stackDetached
          PROVE  SetAside(chain', cstack', gen[i].si)
      <4>1. SetAside(chain, cstack, gen[i].si)
        BY <1>1, <3>2 DEF ParkedOK
      <4>2. SetAside(chain', cstack, gen[i].si)
        BY <2>3, <4>1 DEF SetAside, Isolated
      <4>3. QED  BY <2>6, <3>1, <4>2, AsideReturned
    <3>3. /\ {g} \in SUBSET Generators
          /\ \A i \in {g} : FlagsOK(gen'[i]) /\ ~gen'[i].stackDetached
      BY <1>3, <2>8, <2>9
    <3>4. QED  BY <2>9, <3>2, <3>3, ParkedKeeps
  <2>12. TypeOK'
    <3>1. chain' \in Chain /\ cstack' \in Seq(Frame)
      BY <2>3, <2>6 DEF Linked, Cut
    <3>2. QED  BY <1>1, <2>1, <2>2, <2>4, <2>5, <2>7, <2>9, <3>1 DEF TypeOK
  <2>13. ChainLinked'
    BY <2>3 DEF Linked, ChainLinked
  <2>14. QED  BY <2>6, <2>10, <2>11, <2>12, <2>13 DEF IndInv
<1>7. QED  BY <1>5, <1>6

\* perl_run takes it, and goes on or leaves.
LEMMA JumpMainStep ==
    ASSUME IndInv, JumpMain  PROVE IndInv'
<1>1. /\ status = "running" /\ exc.stage = "jump" /\ cstack[TopEnv].kind = "main"
      /\ cstack' = SubSeq(cstack, 1, TopEnv)
      /\ gen' = gen /\ chain' = chain /\ cxs' = cxs /\ hook' = hook /\ gvav' = gvav
      /\ depth' = depth /\ exc' = NoException /\ status' \in {"running", "destruct"}
      /\ TypeOK
  BY DEF JumpMain, Jumping, IndInv
<1>2. /\ Depth \in Nat /\ TopEnv \in 1 .. Depth
      /\ \A j \in 1 .. Depth : cstack[j].kind # "callback" => j <= TopEnv
      /\ \A j \in Activations(cstack) : j \in 1 .. Depth
  BY Facts
<1>3. TopEnv = 1 /\ cstack[1].loop = 1
  <2>1. FrameOK(cstack, TopEnv)
    BY <1>2 DEF IndInv, WellFramed, Depth
  <2>2. TopEnv = 1
    BY <1>1, <2>1 DEF FrameOK
  <2>3. QED  BY <2>1, <2>2 DEF FrameOK
<1>4. PICK m \in Activations(cstack) : m \in 1 .. TopEnv /\ cur = cstack[m].si
  BY <1>1, JumpTarget
<1>5. m = 1
  BY <1>3, <1>4
<1>6. /\ ChainLinked' /\ WellFramed(cstack') /\ OnPath(cstack', chain')
      /\ ContextsOK' /\ ParkedOK' /\ OwnedOK' /\ HookOK'
      /\ cstack' \in Seq(Frame) /\ Depth' = 1
      /\ \A j \in 1 .. 1 : cstack'[j] = cstack[j]
      /\ Activations(cstack') = {j \in Activations(cstack) : j < 1 + 1}
  <2>1. 1 \in 1 .. Depth
    BY <1>2, <1>3
  <2>2. \A j \in 1 .. Depth : j > 1 => cstack[j].kind # "resume"
    BY <1>2, <1>3
  <2>3. \A k \in Activations(cstack) : \A i \in DOMAIN cxs[cstack[k].si] :
            cxs[cstack[k].si][i].type \in EvalTypes =>
                (k <= 1 => cxs[cstack[k].si][i].env <= 1)
    <3>1. SUFFICES ASSUME NEW k \in Activations(cstack), NEW i \in DOMAIN cxs[cstack[k].si],
                          cxs[cstack[k].si][i].type \in EvalTypes
                   PROVE  cxs[cstack[k].si][i].env <= 1
      OBVIOUS
    <3>2. cxs[cstack[k].si][i].env \in k .. TopEnv
      BY <1>2, <3>1, AimsAtMostTop
    <3>3. QED  BY <1>3, <3>2
  <2>4. QED  BY <1>1, <1>3, <2>1, <2>2, <2>3, CutKeeps
<1>7. CurOK'
  <2>1. 1 \in Activations(cstack') /\ cstack'[1] = cstack[1]
    BY <1>4, <1>5, <1>6
  <2>2. Loop' = 1
    BY <1>3, <1>6, <2>1 DEF Loop
  <2>3. cur' = cstack'[1].si
    BY <1>1, <1>4, <1>5, <2>1 DEF cur
  <2>4. QED  BY <2>1, <2>2, <2>3 DEF CurOK
<1>8. exc' \in Exception /\ DeliveryOK'
  BY <1>1, RaisedType DEF DeliveryOK
<1>9. TypeOK'
  BY <1>1, <1>6, <1>8 DEF TypeOK, Statuses
<1>10. QED  BY <1>6, <1>7, <1>8, <1>9 DEF IndInv

-----------------------------------------------------------------------------
\* Freeing generators, and the end of the program.

\* A suspended generator's block is attached, unwound and popped again.
LEMMA DropSuspendedStep ==
    ASSUME IndInv, NEW g \in Generators, Drop(g), gen[g].state # "RUNNING",
           gen[g].stackPushed
    PROVE  IndInv'
<1> DEFINE s == gen[g].si
           att == Attached(chain, s)
           at == SwitchedTo(att, s)
<1>1. gen[g].stackDetached /\ SetAside(chain, cstack, s) /\ s \in SI
  BY DEF IndInv, ParkedOK, FlagsOK, SetAside
<1>2. /\ exc.stage = "none" /\ status = "running" /\ Executing
      /\ gen' = [gen EXCEPT ![g] = AbsentGen(g)]
      /\ chain' = SwitchedTo(Popped(at), cur)
      /\ \/ gvav' = UnwoundArray(cxs[s], 0) /\ depth' = UnwoundDepth(cxs[s], 0)
         \/ gvav' = gvav /\ depth' = depth
      /\ cxs' = [cxs EXCEPT ![s] = <<>>]
      /\ cstack' = cstack /\ hook' = hook /\ exc' = exc /\ status' = status
      /\ TypeOK /\ ParkedOK /\ OnPath(cstack, chain)
  BY <1>1 DEF Drop, Executing, IndInv
<1>3. /\ cstack \in Seq(Frame) /\ Depth \in Nat /\ cur \in SI /\ SI \subseteq Nat
      /\ \A j \in Activations(cstack) : j \in 1 .. Depth
      /\ \A k \in Activations(cstack) \ {1} : chain.prev[cstack[k].si] # cur
  BY <1>2, Facts, Innermost
<1>4. /\ Linked(att) /\ att.cur = cur /\ s # cur
      /\ att.used = chain.used /\ att.prev[s] = cur
      /\ \A t \in SI : t # s /\ chain.prev[t] # cur => att.prev[t] = chain.prev[t]
      /\ \A t \in SI : t # s /\ SetAside(chain, cstack, t) => SetAside(att, cstack, t)
  BY <1>1, AttachAside
<1> HIDE DEF att
<1>5. /\ Linked(at) /\ at.cur = s /\ at.prev = att.prev /\ at.next = att.next
      /\ at.used = att.used
  BY <1>1, <1>4, SwitchedLemma
<1> HIDE DEF at
<1>6. /\ Linked(chain') /\ chain'.cur = cur /\ chain'.used = chain.used
      /\ chain'.prev = att.prev /\ chain'.next = att.next
  <2>1. at.prev[at.cur] # NULL
    BY <1>3, <1>4, <1>5 DEF SI, NULL
  <2>2. /\ Linked(Popped(at)) /\ Popped(at).prev = at.prev
        /\ Popped(at).next = at.next /\ Popped(at).used = at.used
    BY <1>5, <2>1, PoppedLemma
  <2>3. QED  BY <1>2, <1>3, <1>4, <1>5, <2>2, SwitchedLemma
<1>7. /\ ContextsOK' /\ cxs' \in [SI -> Seq(Context)]
  BY <1>1, <1>2, EmptySeq, AimedEmpty, ContextsCut
<1>8. OnPath(cstack', chain')
  <2>1. ASSUME NEW k \in Activations(cstack) \ {1}
        PROVE  chain'.prev[cstack[k].si] = chain.prev[cstack[k].si]
    <3>1. cstack[k].si \in SI
      BY <1>3, Typing DEF Depth
    <3>2. cstack[k].si # s
      BY <1>1 DEF SetAside
    <3>3. QED  BY <1>3, <1>4, <1>6, <3>1, <3>2
  <2>2. QED  BY <1>2, <1>6, <2>1 DEF OnPath
<1>9. AbsentGen(g) \in GenRecord /\ FlagsOK(AbsentGen(g))
      /\ AbsentGen(g).state = "ABSENT" /\ ~AbsentGen(g).stackDetached
  BY FreshGenType
<1>10. /\ gen' \in [Generators -> GenRecord] /\ gen'[g] = AbsentGen(g)
       /\ \A i \in Generators \ {g} : gen'[i] = gen[i]
  BY <1>2, <1>9, GenUpdate
<1>11. OwnedOK' /\ HookOK'
  <2>1. Depth' = Depth
    BY <1>2 DEF Depth
  <2>2. \A i \in Generators : gen'[i].state = "RUNNING" <=> gen[i].state = "RUNNING"
    BY <1>9, <1>10
  <2>3. \A j \in 1 .. Depth : ~(j > Depth)
    BY <1>3
  <2>4. QED  BY <1>2, <1>3, <2>1, <2>2, <2>3, SameOwned
<1>12. ParkedOK'
  <2>1. ASSUME NEW i \in Generators \ {g}, gen[i].stackDetached
        PROVE  SetAside(chain', cstack', gen[i].si)
    <3>1. SetAside(chain, cstack, gen[i].si) /\ gen[i].si \in SI /\ gen[i].si # s
      BY <1>1, <1>2, <2>1 DEF ParkedOK, SetAside
    <3>2. SetAside(att, cstack, gen[i].si)
      BY <1>4, <3>1
    <3>3. QED  BY <1>2, <1>4, <1>6, <3>2 DEF SetAside, Isolated
  <2>2. /\ {g} \in SUBSET Generators
        /\ \A i \in {g} : FlagsOK(gen'[i]) /\ ~gen'[i].stackDetached
    BY <1>9, <1>10
  <2>3. QED  BY <1>10, <2>1, <2>2, ParkedKeeps
<1>13. TypeOK'
  <2>1. gvav' \in Arrays /\ depth' \in [Bodies -> Nat]
    <3>1. cxs[s] \in Seq(Context)
      BY <1>1, <1>2 DEF TypeOK
    <3>2. QED  BY <1>2, <3>1, UnwoundType DEF TypeOK
  <2>2. chain' \in Chain
    BY <1>6 DEF Linked
  <2>3. QED  BY <1>2, <1>7, <1>10, <2>1, <2>2 DEF TypeOK
<1>14. CurOK' /\ DeliveryOK' /\ WellFramed(cstack')
  <2>1. cur' = cur
    BY <1>6 DEF cur
  <2>2. QED  BY <1>2, <2>1 DEF IndInv, CurOK, DeliveryOK, Executing, Loop, Depth
<1>15. ChainLinked'
  BY <1>6 DEF Linked, ChainLinked
<1>16. QED  BY <1>7, <1>8, <1>11, <1>12, <1>13, <1>14, <1>15 DEF IndInv

\* Freeing a generator that is not in the middle of its body.
LEMMA DropOtherStep ==
    ASSUME IndInv, NEW g \in Generators, gen' = [gen EXCEPT ![g] = AbsentGen(g)],
           gen[g].state # "RUNNING", ~gen[g].stackDetached,
           UNCHANGED <<chain, cxs, cstack, hook, gvav, exc, status>>,
           depth' \in [Bodies -> Nat]
    PROVE  IndInv'
<1>1. AbsentGen(g) \in GenRecord /\ FlagsOK(AbsentGen(g))
      /\ AbsentGen(g).state = "ABSENT" /\ ~AbsentGen(g).stackDetached
  BY FreshGenType
<1>2. /\ gen' \in [Generators -> GenRecord] /\ gen'[g] = AbsentGen(g)
      /\ \A i \in Generators \ {g} : gen'[i] = gen[i]
  BY <1>1, GenUpdate DEF IndInv
<1>3. /\ ChainLinked' /\ WellFramed(cstack') /\ OnPath(cstack', chain')
      /\ CurOK' /\ ContextsOK' /\ DeliveryOK'
      /\ Depth' = Depth /\ Depth \in Nat
  BY SameStacks
<1>4. OwnedOK' /\ HookOK'
  <2>1. \A i \in Generators : gen'[i].state = "RUNNING" <=> gen[i].state = "RUNNING"
    BY <1>1, <1>2
  <2>2. \A j \in 1 .. Depth : ~(j > Depth)
    BY <1>3
  <2>3. status' = "destruct" => Depth' = 1
    BY <1>3 DEF IndInv, OwnedOK
  <2>4. QED  BY <1>3, <2>1, <2>2, <2>3, SameOwned
<1>5. ParkedOK'
  <2>1. \A i \in Generators \ {g} :
            gen[i].stackDetached => SetAside(chain', cstack', gen[i].si)
    BY DEF IndInv, ParkedOK
  <2>2. /\ {g} \in SUBSET Generators
        /\ \A i \in {g} : FlagsOK(gen'[i]) /\ ~gen'[i].stackDetached
    BY <1>1, <1>2
  <2>3. QED  BY <1>2, <2>1, <2>2, ParkedKeeps
<1>6. TypeOK'
  BY <1>2 DEF IndInv, TypeOK
<1>7. QED  BY <1>3, <1>4, <1>5, <1>6 DEF IndInv

\* The last reference to a generator goes away.
LEMMA DropStep ==
    ASSUME IndInv, NEW g \in Generators, Drop(g)  PROVE IndInv'
<1>1. CASE gen[g].state = "RUNNING"
  BY <1>1, StoppedStep DEF Drop, Executing
<1>2. CASE gen[g].state # "RUNNING" /\ gen[g].stackPushed
  BY <1>2, DropSuspendedStep
<1>3. CASE gen[g].state # "RUNNING" /\ ~gen[g].stackPushed
  <2>1. ~gen[g].stackDetached
    BY <1>3 DEF IndInv, ParkedOK, FlagsOK
  <2>2. /\ gen' = [gen EXCEPT ![g] = AbsentGen(g)]
        /\ UNCHANGED <<chain, cxs, cstack, hook, gvav, exc, status>>
        /\ depth' \in [Bodies -> Nat]
    BY <1>3 DEF Drop, IndInv, TypeOK
  <2>3. QED  BY <1>3, <2>1, <2>2, DropOtherStep
<1>4. QED  BY <1>1, <1>2, <1>3

\* The main program reaches its end.
LEMMA EndOfProgramStep ==
    ASSUME IndInv, EndOfProgram  PROVE IndInv'
<1>1. /\ UNCHANGED <<gen, chain, cxs, cstack, hook, gvav, depth, exc>>
      /\ status' = "destruct" /\ Depth = 1 /\ exc.stage = "none" /\ Depth' = Depth
  BY DEF EndOfProgram, Executing, Depth
<1>2. TypeOK'
  BY <1>1 DEF IndInv, TypeOK, Statuses
<1>3. OwnedOK' /\ HookOK'
  BY <1>1 DEF IndInv, OwnedOK, HookOK
<1>4. CurOK' /\ DeliveryOK'
  BY <1>1 DEF IndInv, CurOK, DeliveryOK, Executing, cur
<1>5. /\ ChainLinked' /\ WellFramed(cstack') /\ OnPath(cstack', chain')
      /\ ParkedOK' /\ ContextsOK'
  BY <1>1 DEF IndInv, ChainLinked, ParkedOK, ContextsOK
<1>6. QED  BY <1>2, <1>3, <1>4, <1>5 DEF IndInv

\* Global destruction frees a generator.
LEMMA DestructFreeStep ==
    ASSUME IndInv, NEW g \in Generators, DestructFree(g)  PROVE IndInv'
<1> DEFINE s == gen[g].si
           att == Attached(chain, s)
<1>1. /\ status = "destruct"
      /\ gen' = [gen EXCEPT ![g] = AbsentGen(g)]
      /\ depth' = IF gen[g].stackPushed THEN [depth EXCEPT ![BodyOf[g]] = 0] ELSE depth
      /\ cxs' = cxs /\ cstack' = cstack /\ hook' = hook /\ gvav' = gvav
      /\ exc' = exc /\ status' = status
      /\ TypeOK /\ ParkedOK /\ OnPath(cstack, chain) /\ WellFramed(cstack)
  BY DEF DestructFree, IndInv
<1>2. Depth = 1 /\ gen[g].state # "RUNNING" /\ Depth' = Depth
  <2>1. Depth = 1 /\ Depth' = Depth
    BY <1>1 DEF IndInv, OwnedOK, Depth
  <2>2. FrameOK(cstack, 1) /\ cstack[1].kind = "main"
    BY <1>1, <2>1 DEF WellFramed, FrameOK, Depth
  <2>3. \A k \in 1 .. Depth : cstack[k].kind # "resume"
    BY <2>1, <2>2
  <2>4. QED  BY <2>1, <2>3 DEF IndInv, OwnedOK
<1>3. depth' \in [Bodies -> Nat]
  BY <1>1 DEF TypeOK
<1>4. CASE ~gen[g].stackDetached
  <2>1. chain' = chain
    BY <1>4 DEF DestructFree
  <2>2. QED  BY <1>1, <1>2, <1>3, <1>4, <2>1, DropOtherStep
<1>5. CASE gen[g].stackDetached
  <2>1. SetAside(chain, cstack, s) /\ gen[g].stackPushed /\ chain' = att
    BY <1>1, <1>5 DEF DestructFree, ParkedOK, FlagsOK
  <2>2. /\ Linked(chain') /\ chain'.cur = cur /\ chain'.used = chain.used
        /\ \A t \in SI : t # s /\ SetAside(chain, cstack, t) => SetAside(chain', cstack, t)
    BY <2>1, AttachAside
  <2> HIDE DEF att
  <2>3. AbsentGen(g) \in GenRecord /\ FlagsOK(AbsentGen(g))
        /\ AbsentGen(g).state = "ABSENT" /\ ~AbsentGen(g).stackDetached
    BY FreshGenType
  <2>4. /\ gen' \in [Generators -> GenRecord] /\ gen'[g] = AbsentGen(g)
        /\ \A i \in Generators \ {g} : gen'[i] = gen[i]
    BY <1>1, <2>3, GenUpdate
  <2>5. OwnedOK' /\ HookOK'
    <3>1. \A i \in Generators : gen'[i].state = "RUNNING" <=> gen[i].state = "RUNNING"
      BY <1>2, <2>3, <2>4
    <3>2. \A j \in 1 .. Depth : ~(j > Depth)
      BY <1>2
    <3>3. QED  BY <1>1, <1>2, <3>1, <3>2, SameOwned
  <2>6. ParkedOK'
    <3>1. ASSUME NEW i \in Generators \ {g}, gen[i].stackDetached
          PROVE  SetAside(chain', cstack', gen[i].si)
      <4>1. SetAside(chain, cstack, gen[i].si) /\ gen[i].si \in SI /\ gen[i].si # s
        BY <1>1, <1>5, <3>1 DEF ParkedOK, SetAside
      <4>2. QED  BY <1>1, <2>2, <4>1
    <3>2. /\ {g} \in SUBSET Generators
          /\ \A i \in {g} : FlagsOK(gen'[i]) /\ ~gen'[i].stackDetached
      BY <2>3, <2>4
    <3>3. QED  BY <2>4, <3>1, <3>2, ParkedKeeps
  <2>7. OnPath(cstack', chain')
    <3>1. Activations(cstack) \subseteq {1}
      BY <1>2 DEF Activations, Depth
    <3>2. QED  BY <1>1, <2>2, <3>1 DEF OnPath
  <2>8. TypeOK'
    BY <1>1, <1>3, <2>2, <2>4 DEF TypeOK, Linked
  <2>9. CurOK' /\ DeliveryOK' /\ WellFramed(cstack') /\ ContextsOK'
    <3>1. cur' = cur
      BY <2>2 DEF cur
    <3>2. QED  BY <1>1, <3>1 DEF IndInv, CurOK, DeliveryOK, ContextsOK, Executing, Depth
  <2>10. ChainLinked'
    BY <2>2 DEF Linked, ChainLinked
  <2>11. QED  BY <2>5, <2>6, <2>7, <2>8, <2>9, <2>10 DEF IndInv
<1>6. QED  BY <1>4, <1>5

-----------------------------------------------------------------------------
\* Every step of the runtime keeps the invariant.
LEMMA NextIndInv ==
    ASSUME IndInv, [Next]_vars  PROVE IndInv'
<1>1. ASSUME NEW g \in Generators, Make(g)  PROVE IndInv'
  BY <1>1, MakeStep
<1>2. ASSUME NEW g \in Generators, Start(g)  PROVE IndInv'
  BY <1>2, StartStep
<1>3. ASSUME NEW g \in Generators, Resume(g)  PROVE IndInv'
  BY <1>3, ResumeStep
<1>4. ASSUME NEW g \in Generators, CallRejected(g)  PROVE IndInv'
  BY <1>4, RaiseStep DEF CallRejected
<1>5. ASSUME NEW g \in Generators, Drop(g)  PROVE IndInv'
  BY <1>5, DropStep
<1>6. ASSUME NEW g \in Generators, DestructFree(g)  PROVE IndInv'
  BY <1>6, DestructFreeStep
<1>7. CASE Body
  BY <1>7, YieldStep, YieldDeferredStep, FinishStep DEF Body
<1>8. CASE Nesting
  BY <1>8, EnterCallbackStep, LeaveCallbackStep, EnterEvalStep, LeaveEvalStep DEF Nesting
<1>9. CASE Die
  BY <1>9, RaiseStep DEF Die
<1>10. CASE Exit
  BY <1>10, RaiseStep DEF Exit
<1>11. CASE EndOfProgram
  BY <1>11, EndOfProgramStep
<1>12. CASE Deliver
  BY <1>12, UnwindPopStep, UnwindFoundStep, UnwindMainStep, JumpDocatchStep,
     JumpResumeStep, JumpMainStep DEF Deliver
<1>13. CASE UNCHANGED vars
  <2>1. UNCHANGED <<gen, chain, cxs, cstack, hook, gvav, depth, exc, status>>
    BY <1>13 DEF vars
  <2>2. TypeOK' /\ ChainLinked' /\ WellFramed(cstack') /\ OnPath(cstack', chain')
    BY <2>1 DEF IndInv, TypeOK, ChainLinked
  <2>3. HookOK' /\ OwnedOK' /\ CurOK' /\ ParkedOK' /\ ContextsOK'
    BY <2>1 DEF IndInv, HookOK, OwnedOK, CurOK, ParkedOK, ContextsOK, Depth, Loop, cur,
                Executing
  <2>4. DeliveryOK'
    BY <2>1 DEF IndInv, DeliveryOK, cur, Depth
  <2>5. QED  BY <2>2, <2>3, <2>4 DEF IndInv
<1>14. QED
  BY <1>1, <1>2, <1>3, <1>4, <1>5, <1>6, <1>7, <1>8, <1>9, <1>10, <1>11, <1>12, <1>13
     DEF Next, Call, Free

\* The invariant holds in every state the runtime can reach.
THEOREM Invariance == Spec => []IndInv
<1>1. Init => IndInv
  BY InitIndInv
<1>2. IndInv /\ [Next]_vars => IndInv'
  BY NextIndInv
<1>3. QED  BY <1>1, <1>2, PTL DEF Spec

-----------------------------------------------------------------------------
\* What follows from the invariant.

\* Every variable keeps its shape, whatever the bounds are.
THEOREM TypeCorrect == Spec => []TypeOK
<1>1. IndInv => TypeOK
  BY DEF IndInv
<1>2. QED  BY <1>1, Invariance, PTL

\* The list of stack-info blocks stays doubly linked through every push, pop,
\* detach and attach, in whatever order calls, yields, exceptions and drops
\* make them.
THEOREM ChainStaysLinked == Spec => []ChainLinked
<1>1. IndInv => ChainLinked
  BY DEF IndInv
<1>2. QED  BY <1>1, Invariance, PTL

\* While Perl code runs, si_prev leads back through the blocks of the calls
\* that are under way, innermost first.
THEOREM StackAlwaysFollowsCalls == Spec => []StackFollowsCalls
<1>1. ASSUME IndInv, Executing  PROVE StackFollowsCalls
  <2>1. cur = cstack[Loop].si /\ WellFramed(cstack) /\ OnPath(cstack, chain)
    BY <1>1 DEF IndInv, CurOK
  <2>2. LoopFrames = Activations(cstack)
    BY DEF LoopFrames, Activations, Depth
  <2>3. QED  BY <2>1, <2>2 DEF StackFollowsCalls, OnPath
<1>2. IndInv => StackFollowsCalls
  BY <1>1 DEF StackFollowsCalls
<1>3. QED  BY <1>2, Invariance, PTL

\* No eval of a live stack names an exception boundary that has returned, or
\* one of another activation.
THEOREM JumpTargetsStayLive == Spec => []JumpTargetsLive
<1>1. IndInv => JumpTargetsLive
  <2>1. LoopFrames = Activations(cstack)
    BY DEF LoopFrames, Activations, Depth
  <2>2. QED  BY <2>1 DEF JumpTargetsLive, IndInv, ContextsOK, Aimed, Depth
<1>2. QED  BY <1>1, Invariance, PTL

\* A generator is RUNNING exactly while one generator_resume of it is on the C
\* stack, and then only one is.
THEOREM GeneratorsRunOnce == Spec => []RunningOnce
<1>1. ASSUME IndInv, NEW g \in Generators
      PROVE  LET frames == {k \in ResumeFrames : cstack[k].gen = g}
             IN  /\ gen[g].state = "RUNNING" <=> frames # {}
                 /\ \A i, j \in frames : i = j
  BY <1>1 DEF IndInv, OwnedOK, ResumeFrames
<1>2. IndInv => RunningOnce
  BY <1>1 DEF RunningOnce
<1>3. QED  BY <1>2, Invariance, PTL

\* The boundary hook belongs to the innermost generator_resume, and each such
\* frame remembers the next one out.
THEOREM HookStaysInnermost == Spec => []HookIsInnermost
<1> DEFINE Latest(below) ==
             LET S == {k \in ResumeFrames : k < below}
             IN  IF S = {} THEN 0 ELSE CHOOSE k \in S : \A i \in S : i <= k
<1>1. ASSUME IndInv, NEW n \in 0 .. Depth, NEW h, InnermostHook(cstack, n, h)
      PROVE  h = Latest(n + 1)
  <2> DEFINE S == {k \in ResumeFrames : k < n + 1}
  <2>1. Depth \in Nat /\ n \in Nat /\ \A k \in 1 .. Depth : k < n + 1 <=> k \in 1 .. n
    BY <1>1, Facts
  <2>2. /\ \A k \in S : k \in 1 .. n /\ k <= h
        /\ h \in 0 .. n
        /\ h # 0 => h \in S
    <3>1. \A k \in S : k \in 1 .. n /\ cstack[k].kind = "resume"
      BY <2>1 DEF ResumeFrames
    <3>2. h # 0 => h \in 1 .. n /\ h \in 1 .. Depth /\ cstack[h].kind = "resume"
      BY <1>1, <2>1 DEF InnermostHook
    <3>3. h # 0 => h \in S
      BY <2>1, <3>2 DEF ResumeFrames
    <3>4. QED  BY <1>1, <3>1, <3>3 DEF InnermostHook
  <2>3. CASE h = 0
    <3>1. S = {}
      BY <2>1, <2>2, <2>3
    <3>2. QED  BY <2>3, <3>1
  <2>4. CASE h # 0
    <3>1. \A k \in S : (\A i \in S : i <= k) => k = h
      BY <2>1, <2>2, <2>4
    <3>2. h \in S /\ \A i \in S : i <= h
      BY <2>2, <2>4
    <3> HIDE DEF S
    <3>3. h = CHOOSE k \in S : \A i \in S : i <= k
      BY <3>1, <3>2
    <3>4. QED  BY <3>2, <3>3 DEF S
  <2>5. QED  BY <2>3, <2>4
<1>2. ASSUME IndInv  PROVE HookIsInnermost
  <2>1. hook = Latest(Depth + 1)
    BY <1>1, <1>2, Facts DEF IndInv, HookOK
  <2>2. ASSUME NEW k \in ResumeFrames  PROVE cstack[k].oldhook = Latest(k)
    <3>1. k \in 1 .. Depth /\ Depth \in Nat
      BY <1>2, Facts DEF ResumeFrames
    <3>2. InnermostHook(cstack, k - 1, cstack[k].oldhook)
      BY <1>2, <3>1 DEF IndInv, WellFramed, FrameOK, Depth
    <3>3. k - 1 \in 0 .. Depth /\ (k - 1) + 1 = k
      BY <3>1
    <3> HIDE DEF Latest
    <3>4. cstack[k].oldhook = Latest((k - 1) + 1)
      BY <1>1, <1>2, <3>2, <3>3
    <3>5. QED  BY <3>3, <3>4
  <2>3. QED  BY <2>1, <2>2 DEF HookIsInnermost
<1>3. IndInv => HookIsInnermost
  BY <1>2
<1>4. QED  BY <1>3, Invariance, PTL

-----------------------------------------------------------------------------
\* What follows from IndInv about the calls of generators: the arrays and the
\* deferred yields they carry, what stays as it is while a generator is
\* suspended, and the lifecycle that perlgenerator.pod describes, which rest on
\* the ways in which a step moves the calls in progress; and, from what is on
\* the context stacks, CvDEPTH.

\* Code that runs calls g.
Entered(g) ==
    /\ Executing
    /\ gen[g].state \in {"NEW", "YIELDED"}
    /\ Depth' = Depth + 1
    /\ \A j \in 1 .. Depth : cstack'[j] = cstack[j]
    /\ cstack'[Depth + 1].kind = "resume"
    /\ cstack'[Depth + 1].gen = g
    /\ cstack'[Depth + 1].oldhook = hook
    /\ cstack'[Depth + 1].callerav = gvav
    /\ hook' = Depth + 1
    /\ gen'[g].state = "RUNNING"
    /\ gen'[g].defav = gvav
    /\ ~gen'[g].yieldPending
    /\ \A h \in Generators \ {g} : gen'[h] = gen[h]
    /\ status' = status

\* The innermost call returns, in one way or another.
Returned ==
    /\ status = "running"
    /\ hook # 0
    /\ Depth' = hook - 1
    /\ \A j \in 1 .. hook - 1 : cstack'[j] = cstack[j]
    /\ hook' = cstack[hook].oldhook
    /\ gvav' = gen[Running].defav
    /\ gen'[Running].state \in {"YIELDED", "EXHAUSTED", "FAILED"}
    /\ \A h \in Generators \ {Running} : gen'[h] = gen[h]
    /\ status' = status

\* Other frames come and go above the innermost call, or none does.
Within ==
    /\ Healthy
    /\ Healthy'
    /\ gen' = gen
    /\ hook' = hook
    /\ Depth' \in Nat
    /\ hook <= Depth'
    /\ \A j \in 1 .. Depth : j <= Depth' => cstack'[j] = cstack[j]
    /\ \A j \in 1 .. Depth' : j > Depth => cstack'[j].kind # "resume"
    /\ Executing' /\ hook # 0 /\ hook = Depth' =>
          (Executing /\ hook = Depth) \/ ~gen[Running].yieldPending

\* A yield is put off.
PutOff ==
    /\ Executing
    /\ hook # 0
    /\ hook < Depth
    /\ gen' = [gen EXCEPT ![Running].yieldPending = TRUE]
    /\ UNCHANGED <<cstack, hook, exc, status>>

\* A generator that does not run is made or freed.
Renewed(g) ==
    /\ Healthy
    /\ \/ gen[g].state = "ABSENT" /\ gen'[g].state = "NEW"
       \/ gen[g].state \notin {"ABSENT", "RUNNING"} /\ gen'[g].state = "ABSENT"
    /\ \A h \in Generators \ {g} : gen'[h] = gen[h]
    /\ UNCHANGED <<cstack, hook, exc, status>>

\* The program cannot go on.
Stopped ==
    /\ Healthy
    /\ ~Healthy'
    /\ UNCHANGED <<gen, cstack, hook>>

Moves ==
    \/ \E g \in Generators : Entered(g) \/ Renewed(g)
    \/ Returned \/ Within \/ PutOff \/ Stopped

-----------------------------------------------------------------------------
\* Which of them an action is.

\* The first and the later calls.
LEMMA CallMoves ==
    ASSUME IndInv, NEW g \in Generators, Start(g) \/ Resume(g)  PROVE Entered(g)
<1> DEFINE s == IF gen[g].state = "NEW" THEN PushTarget(chain) ELSE gen[g].si
           f == NewFrame("resume", g, s)
<1>1. /\ Executing /\ gen[g].state \in {"NEW", "YIELDED"} /\ Depth < MaxFrames
      /\ s \in SI /\ cstack' = Append(cstack, f) /\ hook' = Depth + 1 /\ status' = status
  <2>1. CASE Start(g)
    BY <2>1, PushFresh DEF Start
  <2>2. CASE Resume(g)
    BY <2>2, ResumableParked DEF Resume, SetAside
  <2>3. QED  BY <2>1, <2>2
<1>2. f \in Frame /\ Grown(cstack, cstack') /\ cstack'[Depth + 1] = f
  BY <1>1, NewFrameLemma
<1>3. Depth' = Depth + 1 /\ \A j \in 1 .. Depth : cstack'[j] = cstack[j]
  BY <1>2 DEF Grown, Depth
<1>4. f.kind = "resume" /\ f.gen = g /\ f.oldhook = hook /\ f.callerav = gvav
  BY DEF NewFrame
<1>5. TypeOK /\ gen[g] \in GenRecord /\ g \in DOMAIN gen
  BY DEF IndInv, TypeOK
<1>6. /\ gen'[g].state = "RUNNING" /\ gen'[g].defav = gvav /\ ~gen'[g].yieldPending
      /\ \A h \in Generators \ {g} : gen'[h] = gen[h]
  <2>1. CASE Start(g)
    BY <1>5, <2>1 DEF Start, TypeOK, GenRecord
  <2>2. CASE Resume(g)
    BY <1>5, <2>2 DEF Resume, TypeOK, GenRecord
  <2>3. QED  BY <2>1, <2>2
<1> HIDE DEF f
<1>7. QED  BY <1>1, <1>2, <1>3, <1>4, <1>6 DEF Entered

\* Frames above some frame m go, and the record of the hook's generator changes.
LEMMA CutsTo ==
    ASSUME IndInv, NEW m \in 1 .. Depth, cstack' = SubSeq(cstack, 1, m)
    PROVE  Depth' = m /\ \A j \in 1 .. m : cstack'[j] = cstack[j]
<1>1. Cut(cstack, SubSeq(cstack, 1, m), m)
  BY CutLemma, Facts DEF Depth
<1>2. QED  BY <1>1 DEF Cut, Depth

\* Suspending.
LEMMA SuspendMoves ==
    ASSUME IndInv, Executing, hook # 0, NEW c, SuspendOn(c), status' = status
    PROVE  Returned
<1>1. hook \in 1 .. Depth /\ hook # 1 /\ Running \in Generators /\ Depth \in Nat
  BY HookRun, Facts
<1>2. hook - 1 \in 1 .. Depth
  BY <1>1
<1>3. cstack' = SubSeq(cstack, 1, hook - 1) /\ hook' = cstack[hook].oldhook
      /\ gvav' = gen[Running].defav
  BY DEF SuspendOn
<1>4. Depth' = hook - 1 /\ \A j \in 1 .. hook - 1 : cstack'[j] = cstack[j]
  BY <1>2, <1>3, CutsTo
<1>5. gen'[Running].state = "YIELDED" /\ \A h \in Generators \ {Running} : gen'[h] = gen[h]
  BY <1>1 DEF SuspendOn, IndInv, TypeOK, GenRecord
<1>6. QED  BY <1>3, <1>4, <1>5 DEF Returned, Executing

\* The body comes to its end, or an exception leaves it.
LEMMA FinishMoves ==
    ASSUME IndInv, Finish  PROVE Returned
<1>1. hook \in 1 .. Depth /\ hook # 1 /\ Running \in Generators /\ Depth \in Nat
  BY HookRun, Facts DEF Finish
<1>2. hook - 1 \in 1 .. Depth
  BY <1>1
<1>3. cstack' = SubSeq(cstack, 1, hook - 1) /\ hook' = cstack[hook].oldhook
      /\ gvav' = gen[Running].defav /\ hook # 0 /\ status' = status /\ status = "running"
  BY DEF Finish, Executing
<1>4. Depth' = hook - 1 /\ \A j \in 1 .. hook - 1 : cstack'[j] = cstack[j]
  BY <1>2, <1>3, CutsTo
<1>5. gen'[Running].state = "EXHAUSTED" /\ \A h \in Generators \ {Running} : gen'[h] = gen[h]
  BY <1>1 DEF Finish, IndInv, TypeOK, GenRecord
<1>6. QED  BY <1>3, <1>4, <1>5 DEF Returned

\* A boundary lies at the innermost call or above it.
LEMMA BoundaryAbove ==
    ASSUME IndInv
    PROVE  /\ TopEnv \in 1 .. Depth /\ hook \in 0 .. Depth /\ Depth \in Nat
           /\ hook <= TopEnv
           /\ cstack[TopEnv].kind = "resume" => hook = TopEnv
           /\ cstack[TopEnv].kind = "main" => TopEnv = 1 /\ hook = 0
<1>1. /\ TopEnv \in 1 .. Depth /\ hook \in 0 .. Depth /\ Depth \in Nat
      /\ hook # 0 => hook \in 1 .. Depth /\ cstack[hook].kind = "resume" /\ hook # 1
      /\ \A j \in 1 .. Depth : cstack[j].kind # "callback" => j <= TopEnv
  BY Facts, HookRun
<1>2. hook <= TopEnv
  BY <1>1
<1>3. cstack[TopEnv].kind = "resume" => hook = TopEnv
  BY <1>1, <1>2 DEF IndInv, HookOK, InnermostHook
<1>4. cstack[TopEnv].kind = "main" => TopEnv = 1
  BY <1>1 DEF IndInv, WellFramed, FrameOK, Depth
<1>5. QED  BY <1>1, <1>2, <1>3, <1>4

\* generator_resume takes the exception as the failure of its generator.
LEMMA JumpResumeMoves ==
    ASSUME IndInv, JumpResume  PROVE Returned \/ Stopped
<1>1. CASE chain.prev[cur] = NULL
  BY <1>1 DEF JumpResume, Jumping, Stopped, Healthy
<1>2. CASE chain.prev[cur] # NULL
  <2>1. TopEnv \in 1 .. Depth /\ hook = TopEnv /\ Depth \in Nat /\ hook # 0
    BY BoundaryAbove DEF JumpResume, Jumping
  <2>2. hook \in 1 .. Depth /\ hook # 1 /\ Running \in Generators
    BY <2>1, HookRun
  <2>3. hook - 1 \in 1 .. Depth
    BY <2>1, <2>2
  <2>4. cstack' = SubSeq(cstack, 1, hook - 1) /\ hook' = cstack[hook].oldhook
        /\ gvav' = gen[Running].defav /\ status' = status /\ status = "running"
    BY <1>2, <2>1 DEF JumpResume, Jumping, Running
  <2>5. Depth' = hook - 1 /\ \A j \in 1 .. hook - 1 : cstack'[j] = cstack[j]
    BY <2>3, <2>4, CutsTo
  <2>6. gen'[Running].state = "FAILED" /\ \A h \in Generators \ {Running} : gen'[h] = gen[h]
    <3> DEFINE r == [gen[Running] EXCEPT !.state = "FAILED", !.stackPushed = FALSE,
                                         !.evalActive = FALSE, !.si = cur,
                                         !.defav = UnwoundArray(cxs[cur], 0)]
    <3>1. gen' = [gen EXCEPT ![Running] = r]
      BY <1>2, <2>1 DEF JumpResume, Running
    <3>2. gen[Running] \in GenRecord /\ DOMAIN gen = Generators
      BY <2>2 DEF IndInv, TypeOK
    <3>3. r.state = "FAILED"
      BY <3>2 DEF GenRecord
    <3> HIDE DEF r
    <3>4. QED  BY <2>2, <3>1, <3>2, <3>3
  <2>7. QED  BY <2>1, <2>4, <2>5, <2>6 DEF Returned
<1>3. QED  BY <1>1, <1>2

\* A frame that is no generator_resume comes on top.
LEMMA NestMoves ==
    ASSUME IndInv, Executing, Depth < MaxFrames,
           NEW kind \in {"docatch", "callback"}, NEW s \in SI,
           cstack' = Append(cstack, NewFrame(kind, Nobody, s)),
           UNCHANGED <<gen, hook, exc, status>>
    PROVE  Within
<1> DEFINE f == NewFrame(kind, Nobody, s)
<1>1. Grown(cstack, cstack') /\ cstack'[Depth + 1] = f
  BY NewFrameLemma
<1>2. Depth' = Depth + 1 /\ \A j \in 1 .. Depth : cstack'[j] = cstack[j]
  BY <1>1 DEF Grown, Depth
<1>3. f.kind # "resume"
  BY DEF NewFrame
<1>4. Depth \in Nat /\ hook \in 0 .. Depth
  BY Facts
<1> HIDE DEF f
<1>5. Healthy /\ Healthy'
  BY DEF Healthy, Executing
<1>6. /\ Depth' \in Nat /\ hook <= Depth' /\ hook # Depth'
      /\ \A j \in 1 .. Depth' : j > Depth => j = Depth + 1
  BY <1>2, <1>4
<1>7. QED  BY <1>1, <1>2, <1>3, <1>5, <1>6 DEF Within

\* Frames go, down to one not below the innermost call.
LEMMA CutMoves ==
    ASSUME IndInv, NEW m \in 1 .. Depth, hook <= m, cstack' = SubSeq(cstack, 1, m),
           Healthy, Healthy', UNCHANGED <<gen, hook>>,
           Executing' /\ hook # 0 /\ hook = m => ~gen[Running].yieldPending
    PROVE  Within
<1>1. Depth' = m /\ \A j \in 1 .. m : cstack'[j] = cstack[j]
  BY CutsTo
<1>2. Depth \in Nat /\ hook \in 0 .. Depth
  BY Facts
<1>3. QED  BY <1>1, <1>2 DEF Within

\* The end of a callback.
LEMMA LeaveCallbackMoves ==
    ASSUME IndInv, LeaveCallback  PROVE Returned \/ Within
<1> DEFINE k == Loop
           back == Popped(chain)
<1>1. Executing /\ cstack[k].kind = "callback" /\ status' = status /\ exc' = exc
  BY DEF LeaveCallback
<1>2. /\ k \in 1 .. Depth /\ Depth \in Nat /\ hook \in 0 .. Depth
      /\ k \in Activations(cstack)
      /\ \A j \in Activations(cstack) : j <= k
      /\ hook # 0 => hook \in Activations(cstack) /\ cstack[hook].kind = "resume"
  BY Facts, HookRun
<1>3. hook <= k - 1 /\ k # 1
  <2>1. FrameOK(cstack, 1)
    BY <1>2 DEF IndInv, WellFramed, Depth
  <2>2. k # 1
    BY <1>1, <2>1 DEF FrameOK
  <2>3. hook # k
    BY <1>1, <1>2
  <2>4. hook # 0 => hook <= k
    BY <1>2
  <2>5. QED  BY <1>2, <2>2, <2>3, <2>4
<1>4. back.cur = cstack[k].caller
  BY <1>1, <1>3, PopReturns
<1>5. hook # 0 /\ hook = k - 1 => back.cur = cstack[hook].si
  <2>1. SUFFICES ASSUME hook # 0, hook = k - 1  PROVE back.cur = cstack[hook].si
    OBVIOUS
  <2>2. cstack[k].caller = cstack[cstack[k - 1].loop].si
    BY <1>2, <1>3 DEF IndInv, OnPath
  <2>3. cstack[hook].loop = hook
    BY <1>2, <2>1, Framing DEF IndInv, Depth
  <2>4. QED  BY <1>4, <2>1, <2>2, <2>3
<1>6. \/ hook # 0 /\ SuspendOn(back)
      \/ /\ cstack' = SubSeq(cstack, 1, k - 1) /\ gen' = gen /\ hook' = hook
         /\ ~(hook # 0 /\ hook = k - 1 /\ gen[Running].yieldPending)
  BY <1>5 DEF LeaveCallback
<1>7. CASE hook # 0 /\ SuspendOn(back)
  BY <1>1, <1>7, SuspendMoves
<1>8. CASE /\ cstack' = SubSeq(cstack, 1, k - 1) /\ gen' = gen /\ hook' = hook
           /\ ~(hook # 0 /\ hook = k - 1 /\ gen[Running].yieldPending)
  <2> HIDE DEF k
  <2>1. k - 1 \in 1 .. Depth
    BY <1>2, <1>3
  <2>2. Healthy /\ Healthy'
    BY <1>1 DEF Healthy, Executing
  <2>3. QED  BY <1>3, <1>8, <2>1, <2>2, CutMoves
<1>9. QED  BY <1>6, <1>7, <1>8

\* A docatch loop goes on, or passes the exception on.
LEMMA JumpDocatchMoves ==
    ASSUME IndInv, JumpDocatch  PROVE Within
<1>1. /\ status = "running" /\ exc.stage = "jump" /\ cstack[TopEnv].kind = "docatch"
      /\ gen' = gen /\ hook' = hook /\ status' = status
  BY DEF JumpDocatch, Jumping
<1>2. /\ TopEnv \in 1 .. Depth /\ hook \in 0 .. Depth /\ Depth \in Nat /\ hook <= TopEnv
      /\ hook # 0 => cstack[hook].kind = "resume"
  BY BoundaryAbove, Facts
<1>3. hook < TopEnv
  BY <1>1, <1>2
<1>4. Healthy /\ Healthy'
  BY <1>1 DEF Healthy
<1>5. CASE exc.kind = "die" /\ exc.env = TopEnv
  <2>1. cstack' = SubSeq(cstack, 1, TopEnv)
    BY <1>5 DEF JumpDocatch
  <2>2. QED  BY <1>1, <1>2, <1>3, <1>4, <2>1, CutMoves
<1>6. CASE ~(exc.kind = "die" /\ exc.env = TopEnv)
  <2>1. cstack' = SubSeq(cstack, 1, TopEnv - 1) /\ exc' = exc
    BY <1>6 DEF JumpDocatch
  <2>2. TopEnv # 1
    <3>1. FrameOK(cstack, 1)
      BY <1>2 DEF IndInv, WellFramed, Depth
    <3>2. QED  BY <1>1, <3>1 DEF FrameOK
  <2>3. TopEnv - 1 \in 1 .. Depth /\ hook <= TopEnv - 1
    BY <1>2, <1>3, <2>2
  <2>4. ~Executing'
    BY <1>1, <2>1 DEF Executing
  <2>5. QED  BY <1>1, <1>4, <2>1, <2>3, <2>4, CutMoves
<1>7. QED  BY <1>5, <1>6

\* perl_run goes on, or ends the program.
LEMMA JumpMainMoves ==
    ASSUME IndInv, JumpMain  PROVE Within
<1>1. /\ gen' = gen /\ hook' = hook /\ cstack' = SubSeq(cstack, 1, TopEnv)
      /\ Healthy /\ Healthy' /\ cstack[TopEnv].kind = "main"
  BY DEF JumpMain, Jumping, Healthy
<1>2. TopEnv \in 1 .. Depth /\ hook <= TopEnv /\ hook = 0
  BY <1>1, BoundaryAbove
<1>3. QED  BY <1>1, <1>2, CutMoves

\* Steps that touch no frame.
LEMMA StayMoves ==
    ASSUME IndInv, Healthy, Healthy', UNCHANGED <<gen, cstack, hook>>, Executing' => Executing
    PROVE  Within
<1>1. Depth' = Depth /\ Depth \in Nat /\ hook \in 0 .. Depth
  BY Facts DEF Depth
<1>2. QED  BY <1>1 DEF Within

\* Freeing a generator.
LEMMA FreeMoves ==
    ASSUME IndInv, NEW g \in Generators, Make(g) \/ Drop(g) \/ DestructFree(g)
    PROVE  Renewed(g) \/ Stopped
<1>1. CASE Make(g)
  <2>1. gen'[g].state = "NEW" /\ \A h \in Generators \ {g} : gen'[h] = gen[h]
    BY <1>1, FreshGenType, GenUpdate DEF Make, IndInv
  <2>2. QED  BY <1>1, <2>1 DEF Make, Renewed, Healthy, Executing
<1>2. CASE (Drop(g) \/ DestructFree(g)) /\ gen[g].state # "RUNNING"
  <2>1. gen' = [gen EXCEPT ![g] = AbsentGen(g)]
    BY <1>2 DEF Drop, DestructFree
  <2>2. gen'[g].state = "ABSENT" /\ \A h \in Generators \ {g} : gen'[h] = gen[h]
    BY <2>1, FreshGenType, GenUpdate DEF IndInv
  <2>3. QED  BY <1>2, <2>2 DEF Drop, DestructFree, Renewed, Healthy, Executing
<1>3. CASE Drop(g) /\ gen[g].state = "RUNNING"
  BY <1>3 DEF Drop, Stopped, Healthy, Executing
<1>4. CASE DestructFree(g) /\ gen[g].state = "RUNNING"
  <2>1. Depth = 1 /\ \E k \in 1 .. Depth : cstack[k].kind = "resume"
    BY <1>4 DEF DestructFree, IndInv, OwnedOK
  <2>2. FrameOK(cstack, 1)
    BY <2>1 DEF IndInv, WellFramed, Depth
  <2>3. QED  BY <2>1, <2>2 DEF FrameOK
<1>5. QED  BY <1>1, <1>2, <1>3, <1>4

\* Putting a yield off.
LEMMA PutOffMoves ==
    ASSUME IndInv, YieldDeferred  PROVE PutOff
<1>1. hook \in 1 .. Depth /\ hook \in Activations(cstack) /\ Depth \in Nat
  BY HookRun, Facts DEF YieldDeferred
<1>2. hook # Depth
  <2>1. cur = cstack[Loop].si
    BY Innermost DEF YieldDeferred
  <2>2. cstack[hook].loop = hook
    BY <1>1, Framing DEF IndInv, Depth
  <2>3. QED  BY <2>1, <2>2 DEF YieldDeferred, Loop
<1>3. QED  BY <1>1, <1>2 DEF YieldDeferred, PutOff

\* There are no other ways.
LEMMA NextMoves ==
    ASSUME IndInv, Next  PROVE Moves
<1>1. ASSUME NEW g \in Generators, Make(g) \/ Drop(g) \/ DestructFree(g)  PROVE Moves
  BY <1>1, FreeMoves DEF Moves
<1>2. ASSUME NEW g \in Generators, Start(g) \/ Resume(g)  PROVE Moves
  BY <1>2, CallMoves DEF Moves
<1>3. CASE Die \/ Exit \/ EndOfProgram \/ (\E g \in Generators : CallRejected(g))
  BY <1>3, StayMoves DEF Moves, Die, Exit, EndOfProgram, CallRejected, Healthy, Executing
<1>4. CASE Body
  BY <1>4, SuspendMoves, PutOffMoves, FinishMoves DEF Body, Yield, Moves
<1>5. CASE Nesting
  <2>1. CASE EnterCallback
    <3>1. PushTarget(chain) \in SI
      BY <2>1, PushFresh DEF EnterCallback
    <3>2. QED  BY <2>1, <3>1, NestMoves DEF EnterCallback, Moves
  <2>2. CASE LeaveCallback
    BY <2>2, LeaveCallbackMoves DEF Moves
  <2>3. CASE EnterEval
    <3>1. Executing /\ UNCHANGED <<gen, hook, exc, status>>
          /\ (cstack' = cstack \/ /\ Depth < MaxFrames
                                  /\ cstack' = Append(cstack, NewFrame("docatch", Nobody, cur)))
      BY <2>3 DEF EnterEval
    <3>2. Healthy /\ Healthy' /\ cur \in SI
      BY <3>1, Facts DEF Healthy, Executing
    <3>3. Within
      BY <3>1, <3>2, StayMoves, NestMoves
    <3>4. QED  BY <3>3 DEF Moves
  <2>4. CASE LeaveEval
    BY <2>4, StayMoves DEF LeaveEval, Moves, Healthy, Executing
  <2>5. QED  BY <1>5, <2>1, <2>2, <2>3, <2>4 DEF Nesting
<1>6. CASE Deliver
  <2>1. CASE UnwindPop \/ UnwindFound \/ UnwindMain
    <3>1. /\ UNCHANGED <<gen, cstack, hook, status>> /\ status = "running"
      BY <2>1 DEF UnwindPop, UnwindFound, UnwindMain
    <3>2. exc'.stage # "none"
      BY <2>1 DEF UnwindPop, UnwindFound, UnwindMain, IndInv, TypeOK, Exception
    <3>3. Healthy /\ Healthy' /\ ~Executing'
      BY <3>1, <3>2 DEF Healthy, Executing
    <3>4. QED  BY <3>1, <3>3, StayMoves DEF Moves
  <2>2. QED  BY <1>6, <2>1, JumpDocatchMoves, JumpResumeMoves, JumpMainMoves DEF Deliver, Moves
<1>7. QED  BY <1>1, <1>2, <1>3, <1>4, <1>5, <1>6 DEF Next, Call, Free

-----------------------------------------------------------------------------
\* The invariant about the calls in progress.

\* The frames of generator_resume and the records of their generators.
LEMMA Frames ==
    ASSUME IndInv
    PROVE  /\ Depth \in Nat /\ hook \in 0 .. Depth
           /\ \A k \in 1 .. Depth : cstack[k].kind = "resume" =>
                 /\ k <= hook
                 /\ cstack[k].gen \in Generators
                 /\ gen[cstack[k].gen].state = "RUNNING"
                 /\ \A j \in 1 .. Depth :
                       cstack[j].kind = "resume" /\ cstack[j].gen = cstack[k].gen => j = k
           /\ hook # 0 => /\ hook \in 1 .. Depth /\ cstack[hook].kind = "resume"
                          /\ Running = cstack[hook].gen /\ Running \in Generators
BY Facts, HookRun DEF IndInv, OwnedOK, HookOK, InnermostHook, WellFramed, FrameOK, Depth, Running

\* Nobody is called in the initial state.
LEMMA InitCallInv ==
    ASSUME Init  PROVE CallInv
<1>1. IndInv
  BY InitIndInv
<1>2. Depth = 1 /\ cstack[1].kind = "main"
  BY DEF Init, Depth, MainFrame
<1>3. QED  BY <1>1, <1>2 DEF CallInv, ArraysKept, PutOffBelow

\* The record of a running generator changes only when its call returns.
LEMMA ArraysStayKept ==
    ASSUME CallInv, Moves  PROVE ArraysKept'
<1>1. /\ Depth \in Nat /\ hook \in 0 .. Depth
      /\ \A k \in 1 .. Depth : cstack[k].kind = "resume" =>
            /\ k <= hook
            /\ cstack[k].gen \in Generators
            /\ gen[cstack[k].gen].state = "RUNNING"
            /\ gen[cstack[k].gen].defav = cstack[k].callerav
            /\ \A j \in 1 .. Depth :
                  cstack[j].kind = "resume" /\ cstack[j].gen = cstack[k].gen => j = k
      /\ hook # 0 => /\ hook \in 1 .. Depth /\ cstack[hook].kind = "resume"
                     /\ Running = cstack[hook].gen /\ Running \in Generators
  BY Frames DEF CallInv, ArraysKept
<1>2. ASSUME NEW g \in Generators, Entered(g), NEW k \in 1 .. Depth', cstack'[k].kind = "resume"
      PROVE  gen'[cstack'[k].gen].defav = cstack'[k].callerav
  <2>1. CASE k = Depth + 1
    BY <1>2, <2>1 DEF Entered
  <2>2. CASE k \in 1 .. Depth
    BY <1>1, <1>2, <2>2 DEF Entered
  <2>3. QED  BY <1>1, <1>2, <2>1, <2>2 DEF Entered
<1>3. ASSUME NEW g \in Generators, Renewed(g), NEW k \in 1 .. Depth, cstack[k].kind = "resume"
      PROVE  gen'[cstack[k].gen].defav = cstack[k].callerav
  BY <1>1, <1>3 DEF Renewed
<1>4. ASSUME Returned, NEW k \in 1 .. hook - 1, cstack[k].kind = "resume"
      PROVE  gen'[cstack[k].gen].defav = cstack[k].callerav
  <2>1. k \in 1 .. Depth /\ k # hook
    BY <1>1, <1>4
  <2>2. cstack[k].gen # Running
    BY <1>1, <1>4, <2>1 DEF Returned
  <2>3. QED  BY <1>1, <1>4, <2>1, <2>2 DEF Returned
<1>5. ASSUME Within, NEW k \in 1 .. Depth', cstack'[k].kind = "resume"
      PROVE  gen'[cstack'[k].gen].defav = cstack'[k].callerav
  BY <1>1, <1>5 DEF Within
<1>6. ASSUME PutOff, NEW g \in Generators  PROVE gen'[g].defav = gen[g].defav
  <2>1. gen[Running] \in GenRecord /\ Running \in Generators
    BY <1>1, <1>6 DEF PutOff, CallInv, IndInv, TypeOK
  <2>2. [gen[Running] EXCEPT !.yieldPending = TRUE].defav = gen[Running].defav
    BY <2>1 DEF GenRecord
  <2>3. gen' = [gen EXCEPT ![Running] = [gen[Running] EXCEPT !.yieldPending = TRUE]]
    BY <1>6 DEF PutOff
  <2>4. QED  BY <2>1, <2>2, <2>3 DEF CallInv, IndInv, TypeOK
<1>7. Depth' = Len(cstack')
  BY DEF Depth
<1>8. CASE Returned
  BY <1>4, <1>8 DEF ArraysKept, Returned
<1>9. CASE Within
  BY <1>5, <1>9 DEF ArraysKept
<1>10. CASE PutOff
  BY <1>1, <1>6, <1>10 DEF ArraysKept, PutOff, Depth
<1>11. CASE Stopped
  BY <1>1, <1>11 DEF ArraysKept, Stopped, Depth
<1>12. CASE \E g \in Generators : Entered(g)
  BY <1>2, <1>12 DEF ArraysKept
<1>13. CASE \E g \in Generators : Renewed(g)
  BY <1>3, <1>13 DEF ArraysKept, Renewed, Depth
<1>14. QED  BY <1>8, <1>9, <1>10, <1>11, <1>12, <1>13 DEF Moves

\* A deferred yield is not overtaken.
LEMMA PutOffStaysBelow ==
    ASSUME CallInv, Moves  PROVE PutOffBelow'
<1>1. /\ Depth \in Nat /\ hook \in 0 .. Depth
      /\ \A k \in 1 .. Depth : cstack[k].kind = "resume" =>
            /\ k <= hook
            /\ cstack[k].gen \in Generators
            /\ gen[cstack[k].gen].state = "RUNNING"
            /\ gen[cstack[k].gen].yieldPending =>
                  /\ k < Depth => cstack[k + 1].kind # "resume"
                  /\ k = Depth => ~Executing
            /\ \A j \in 1 .. Depth :
                  cstack[j].kind = "resume" /\ cstack[j].gen = cstack[k].gen => j = k
      /\ hook # 0 => /\ hook \in 1 .. Depth /\ cstack[hook].kind = "resume"
                     /\ Running = cstack[hook].gen /\ Running \in Generators
  BY Frames DEF CallInv, PutOffBelow
<1> DEFINE Goal(k) == /\ k < Depth' => cstack'[k + 1].kind # "resume"
                      /\ k = Depth' => ~Executing'
<1>2. SUFFICES ASSUME NEW k \in 1 .. Depth', cstack'[k].kind = "resume",
                      gen'[cstack'[k].gen].yieldPending
               PROVE  Goal(k)
  BY DEF PutOffBelow
<1>3. ASSUME NEW g \in Generators, Entered(g)  PROVE Goal(k)
  <2>1. k # Depth + 1
    BY <1>2, <1>3 DEF Entered
  <2>2. k \in 1 .. Depth /\ Depth' = Depth + 1
    BY <1>1, <1>3, <2>1 DEF Entered
  <2>3. cstack'[k] = cstack[k] /\ cstack[k].gen # g
    BY <1>1, <1>2, <1>3, <2>2 DEF Entered
  <2>4. gen[cstack[k].gen].yieldPending
    BY <1>1, <1>2, <1>3, <2>2, <2>3 DEF Entered
  <2>5. k # Depth /\ cstack[k + 1].kind # "resume"
    BY <1>1, <1>2, <1>3, <2>2, <2>3, <2>4 DEF Entered
  <2>6. k + 1 \in 1 .. Depth
    BY <1>1, <2>2, <2>5
  <2>7. QED  BY <1>1, <1>3, <2>2, <2>5, <2>6 DEF Entered
<1>4. ASSUME NEW g \in Generators, Renewed(g)  PROVE Goal(k)
  <2>1. cstack' = cstack /\ Depth' = Depth /\ (Executing' <=> Executing)
    BY <1>4 DEF Renewed, Depth, Executing
  <2>2. gen'[cstack[k].gen] = gen[cstack[k].gen]
    BY <1>1, <1>2, <1>4, <2>1 DEF Renewed
  <2>3. QED  BY <1>1, <1>2, <2>1, <2>2
<1>5. CASE Returned
  <2>1. k \in 1 .. Depth /\ k < hook /\ cstack'[k] = cstack[k] /\ Depth' = hook - 1
    BY <1>1, <1>2, <1>5 DEF Returned
  <2>2. cstack[k].gen # Running /\ cstack[k].gen \in Generators
    BY <1>1, <1>2, <1>5, <2>1 DEF Returned
  <2>3. gen[cstack[k].gen].yieldPending
    BY <1>2, <1>5, <2>1, <2>2 DEF Returned
  <2>4. k < Depth /\ cstack[k + 1].kind # "resume"
    BY <1>1, <1>2, <2>1, <2>3
  <2>5. k + 1 # hook
    BY <1>1, <2>1, <2>4
  <2>6. k + 1 \in 1 .. hook - 1 /\ k # Depth'
    BY <1>1, <2>1, <2>5
  <2>7. cstack'[k + 1] = cstack[k + 1]
    BY <1>5, <2>6 DEF Returned
  <2>8. QED  BY <2>4, <2>6, <2>7
<1>6. CASE Within
  <2>1. k \in 1 .. Depth /\ cstack'[k] = cstack[k] /\ k <= hook /\ Depth' \in Nat /\ hook <= Depth'
    <3>1. k \in 1 .. Depth /\ Depth' \in Nat
      BY <1>1, <1>2, <1>6 DEF Within
    <3>2. cstack'[k] = cstack[k]
      BY <1>2, <1>6, <3>1 DEF Within
    <3>3. QED  BY <1>1, <1>2, <1>6, <3>1, <3>2 DEF Within
  <2>2. gen[cstack[k].gen].yieldPending
    BY <1>2, <1>6, <2>1 DEF Within
  <2>3. k < Depth => cstack[k + 1].kind # "resume"
    BY <1>1, <1>2, <2>1, <2>2
  <2>4. k < Depth' => cstack'[k + 1].kind # "resume"
    <3>1. CASE k < Depth /\ k < Depth'
      <4>1. k + 1 \in 1 .. Depth /\ k + 1 <= Depth'
        BY <1>1, <2>1, <3>1
      <4>2. cstack'[k + 1] = cstack[k + 1]
        BY <1>6, <4>1 DEF Within
      <4>3. QED  BY <2>3, <3>1, <4>2
    <3>2. CASE k = Depth /\ k < Depth'
      <4>1. k + 1 \in 1 .. Depth' /\ k + 1 > Depth
        BY <1>1, <2>1, <3>2
      <4>2. QED  BY <1>6, <4>1 DEF Within
    <3>3. QED  BY <1>1, <2>1, <3>1, <3>2
  <2>5. k = Depth' => ~Executing'
    <3>1. SUFFICES ASSUME k = Depth', Executing'  PROVE FALSE
      OBVIOUS
    <3>2. hook = k /\ hook # 0 /\ Running = cstack[k].gen
      BY <1>1, <2>1, <3>1
    <3>3. Executing /\ hook = Depth
      BY <1>6, <2>2, <3>1, <3>2 DEF Within
    <3>4. QED  BY <1>1, <1>2, <2>1, <2>2, <3>2, <3>3
  <2>6. QED  BY <2>4, <2>5
<1>7. CASE PutOff
  <2>1. cstack' = cstack /\ Depth' = Depth /\ hook < Depth /\ k <= hook
    BY <1>1, <1>2, <1>7 DEF PutOff, Depth
  <2>2. k \in 1 .. Depth /\ k # Depth
    BY <1>1, <1>2, <2>1
  <2>3. CASE k = hook
    <3>1. hook + 1 \in 1 .. Depth /\ ~(hook + 1 <= hook)
      BY <1>1, <2>1
    <3>2. cstack[hook + 1].kind # "resume"
      BY <1>1, <3>1
    <3>3. QED  BY <2>1, <2>2, <2>3, <3>2
  <2>4. CASE k # hook
    <3>1. cstack[k].gen # Running
      BY <1>1, <1>2, <1>7, <2>1, <2>2, <2>4 DEF PutOff
    <3>2. gen'[cstack[k].gen] = gen[cstack[k].gen]
      BY <1>1, <1>2, <1>7, <2>1, <2>2, <3>1 DEF PutOff, CallInv, IndInv, TypeOK
    <3>3. QED  BY <1>1, <1>2, <2>1, <2>2, <3>2
  <2>5. QED  BY <2>3, <2>4
<1>8. CASE Stopped
  <2>1. cstack' = cstack /\ Depth' = Depth /\ gen' = gen /\ ~Executing'
    BY <1>8 DEF Stopped, Depth, Healthy, Executing
  <2>2. QED  BY <1>1, <1>2, <2>1
<1>9. QED  BY <1>3, <1>4, <1>5, <1>6, <1>7, <1>8 DEF Moves

\* Every step keeps both.
LEMMA NextCallInv ==
    ASSUME CallInv, [Next]_vars  PROVE CallInv'
<1>1. IndInv'
  BY NextIndInv DEF CallInv
<1>2. CASE Next
  <2>1. Moves
    BY <1>2, NextMoves DEF CallInv
  <2>2. QED  BY <1>1, <2>1, ArraysStayKept, PutOffStaysBelow DEF CallInv
<1>3. CASE UNCHANGED vars
  BY <1>1, <1>3 DEF CallInv, vars, ArraysKept, PutOffBelow, Depth, Executing
<1>4. QED  BY <1>2, <1>3

-----------------------------------------------------------------------------
\* What follows.

\* The calls in progress carry their arrays and their deferred yields.
THEOREM CallInvariance == Spec => []CallInv
<1>1. QED  BY InitCallInv, NextCallInv, PTL DEF Spec

\* However a call of a generator ends, its caller gets back the array it had
\* as @_: generator_resume swaps GvAV(PL_defgv) an even number of times.
THEOREM CallersGetTheirArraysBack == Spec => CallerArrayRestored
<1>1. ASSUME CallInv, Next, hook # 0, Len(cstack') < hook
      PROVE  gvav' = cstack[hook].callerav
  <2>1. Moves /\ IndInv
    BY <1>1, NextMoves DEF CallInv
  <2>2. /\ Depth \in Nat /\ hook \in 1 .. Depth /\ Depth' < hook
        /\ cstack[hook].kind = "resume" /\ Running = cstack[hook].gen
    BY <1>1, <2>1, Frames DEF Depth
  <2>3. ~Within
    BY <2>2 DEF Within
  <2>4. Returned
    <3>1. Depth' # Depth /\ Depth' # Depth + 1
      BY <2>2
    <3>2. ~(PutOff \/ Stopped \/ \E g \in Generators : Renewed(g) \/ Entered(g))
      BY <3>1 DEF PutOff, Stopped, Renewed, Entered, Depth
    <3>3. QED  BY <2>1, <2>3, <3>2 DEF Moves
  <2>5. gen[cstack[hook].gen].defav = cstack[hook].callerav
    BY <1>1, <2>2 DEF CallInv, ArraysKept
  <2>6. QED  BY <2>2, <2>4, <2>5 DEF Returned
<1>2. ASSUME CallInv, [Next]_vars
      PROVE  [hook # 0 /\ Len(cstack') < hook => gvav' = cstack[hook].callerav]_vars
  BY <1>1, <1>2
<1>3. CallInv /\ [Next]_vars => [hook # 0 /\ Len(cstack') < hook => gvav' = cstack[hook].callerav]_vars
  BY <1>2
<1>4. QED  BY <1>3, CallInvariance, PTL DEF Spec, CallerArrayRestored

\* The body of a generator does not run on past a yield that was put off.
THEOREM DeferredYieldsComeFirst == Spec => []PendingNotPassed
<1>1. ASSUME CallInv  PROVE PendingNotPassed
  <2>1. SUFFICES ASSUME Executing, hook # 0, hook = Depth, gen[Running].yieldPending
                 PROVE  FALSE
    BY DEF PendingNotPassed
  <2>2. hook \in 1 .. Depth /\ cstack[hook].kind = "resume" /\ Running = cstack[hook].gen
    BY <1>1, <2>1, Frames DEF CallInv
  <2>3. QED  BY <1>1, <2>1, <2>2 DEF CallInv, PutOffBelow
<1>2. CallInv => PendingNotPassed
  BY <1>1
<1>3. QED  BY <1>2, CallInvariance, PTL

\* A generator that is completed or failed remains so until it is freed.
THEOREM OverIsForever == Spec => TerminalForever
<1> DEFINE Stays(g) == IteratorState(g) \in {"COMPLETED", "FAILED"} =>
                           IteratorState(g)' \in {IteratorState(g), "INVALID"}
<1>1. ASSUME IndInv, Next, NEW g \in Generators  PROVE Stays(g)
  <2>1. Moves
    BY <1>1, NextMoves
  <2>2. SUFFICES ASSUME gen[g].state \in {"EXHAUSTED", "FAILED"}
                 PROVE  gen'[g].state \in {gen[g].state, "ABSENT"}
    BY DEF IteratorState
  <2>3. CASE \E h \in Generators : Entered(h) \/ Renewed(h)
    BY <2>2, <2>3 DEF Entered, Renewed
  <2>4. CASE Returned
    <3>1. Running \in Generators /\ gen[Running].state = "RUNNING"
      BY <1>1, <2>4, HookRun DEF Returned
    <3>2. g # Running
      BY <2>2, <3>1
    <3>3. QED  BY <2>4, <3>2 DEF Returned
  <2>5. CASE PutOff
    <3>1. gen \in [Generators -> GenRecord]
      BY <1>1 DEF IndInv, TypeOK
    <3>2. Running \in Generators /\ gen[Running].state = "RUNNING"
      BY <1>1, <2>5, HookRun DEF PutOff
    <3>3. g # Running
      BY <2>2, <3>2
    <3>4. gen'[g] = gen[g]
      BY <2>5, <3>1, <3>2, <3>3 DEF PutOff
    <3>5. QED  BY <3>4
  <2>6. CASE Within \/ Stopped
    BY <2>6 DEF Within, Stopped
  <2>7. QED  BY <2>1, <2>3, <2>4, <2>5, <2>6 DEF Moves
<1> HIDE DEF Stays
<1>2. IndInv /\ [Next]_vars => [\A g \in Generators : Stays(g)]_vars
  BY <1>1
<1>3. Spec => [][\A g \in Generators : Stays(g)]_vars
  BY <1>2, Invariance, PTL DEF Spec
<1>4. QED  BY <1>3 DEF TerminalForever, Stays

-----------------------------------------------------------------------------
\* The contexts of a suspended generator.

\* A block that is set aside is neither that of the running code nor the next
\* one to be pushed.
LEMMA AsideApart ==
    ASSUME IndInv, NEW h \in Suspended
    PROVE  /\ gen[h].si \in SI /\ gen[h].si # cur
           /\ Executing /\ CanPush(chain) => gen[h].si # PushTarget(chain)
           /\ \A g \in Generators \ {h} :
                 gen[g].state = "YIELDED" => gen[g].si # gen[h].si
<1>1. h \in Generators /\ gen[h].state = "YIELDED" /\ gen[h].stackDetached
      /\ SetAside(chain, cstack, gen[h].si)
  BY DEF Suspended, IndInv, ParkedOK, FlagsOK
<1>2. gen[h].si \in SI /\ gen[h].si # cur
  BY <1>1 DEF SetAside, IndInv, CurOK
<1>3. Executing /\ CanPush(chain) => gen[h].si # PushTarget(chain)
  BY <1>1, <1>2, PushFresh
<1>4. \A g \in Generators \ {h} : gen[g].state = "YIELDED" => gen[g].si # gen[h].si
  BY <1>1 DEF IndInv, ParkedOK, FlagsOK
<1>5. QED  BY <1>2, <1>3, <1>4

\* "The generator remembers where it stopped": whatever runs while a generator
\* is suspended leaves its contexts, its block and its @_ alone.
THEOREM ContinuationsStayIntact == Spec => ContinuationIntact
<1> DEFINE Intact(g) == gen'[g].state = "YIELDED" =>
                           /\ gen'[g].si = gen[g].si
                           /\ cxs'[gen[g].si] = cxs[gen[g].si]
                           /\ gen'[g].defav = gen[g].defav
<1>1. ASSUME IndInv, Next, NEW h \in Suspended, gen'[h].state = "YIELDED"
      PROVE  gen'[h] = gen[h]
  <2>1. Moves /\ h \in Generators /\ gen[h].state = "YIELDED"
    BY <1>1, NextMoves DEF Suspended
  <2>2. CASE \E g \in Generators : Entered(g) \/ Renewed(g)
    BY <1>1, <2>1, <2>2 DEF Entered, Renewed
  <2>3. CASE Returned \/ PutOff
    <3>1. Running \in Generators /\ gen[Running].state = "RUNNING" /\ h # Running
      BY <1>1, <2>1, <2>3, HookRun DEF Returned, PutOff
    <3>2. gen \in [Generators -> GenRecord]
      BY <1>1 DEF IndInv, TypeOK
    <3>3. QED  BY <2>1, <2>3, <3>1, <3>2 DEF Returned, PutOff
  <2>4. CASE Within \/ Stopped
    BY <2>4 DEF Within, Stopped
  <2>5. QED  BY <2>1, <2>2, <2>3, <2>4 DEF Moves
<1>2. ASSUME IndInv, Next, NEW h \in Suspended, gen'[h] = gen[h]
      PROVE  cxs'[gen[h].si] = cxs[gen[h].si]
  <2> DEFINE s == gen[h].si
  <2>1. /\ s \in SI /\ s # cur /\ (Executing /\ CanPush(chain) => s # PushTarget(chain))
        /\ \A g \in Generators \ {h} : gen[g].state = "YIELDED" => gen[g].si # s
        /\ h \in Generators /\ gen[h].state = "YIELDED"
        /\ cxs \in [SI -> Seq(Context)]
    BY <1>2, AsideApart DEF Suspended, IndInv, TypeOK
  <2> DEFINE Elsewhere == cxs' = cxs \/ \E t, x : t # s /\ cxs' = [cxs EXCEPT ![t] = x]
  <2>2. SUFFICES Elsewhere
    BY <2>1
  <2>3. ASSUME NEW g \in Generators, Start(g)  PROVE Elsewhere
    BY <2>1, <2>3 DEF Start
  <2>4. ASSUME NEW g \in Generators, Resume(g)  PROVE Elsewhere
    <3>1. gen'[g].state = "RUNNING" /\ gen[g].state = "YIELDED"
      BY <1>2, <2>4, CallMoves, ResumableParked DEF Entered, Resume
    <3>2. gen[g].si # s
      BY <1>2, <2>1, <3>1
    <3>3. QED  BY <2>4, <3>2 DEF Resume
  <2>5. ASSUME NEW g \in Generators, Drop(g)  PROVE Elsewhere
    <3>1. CASE gen[g].state # "RUNNING" /\ gen[g].stackPushed
      <4>1. gen[g].state = "YIELDED"
        BY <1>2, <3>1 DEF IndInv, ParkedOK, FlagsOK
      <4>2. gen'[g].state = "ABSENT"
        <5>1. gen' = [gen EXCEPT ![g] = AbsentGen(g)]
          BY <2>5, <3>1 DEF Drop
        <5>2. QED  BY <1>2, <5>1, FreshGenType, GenUpdate DEF IndInv
      <4>3. gen[g].si # s
        BY <1>2, <2>1, <4>1, <4>2
      <4>4. QED  BY <2>5, <3>1, <4>3 DEF Drop
    <3>2. CASE ~(gen[g].state # "RUNNING" /\ gen[g].stackPushed)
      BY <2>5, <3>2 DEF Drop
    <3>3. QED  BY <3>1, <3>2
  <2>6. CASE \E g \in Generators : Make(g) \/ DestructFree(g) \/ CallRejected(g)
    BY <2>6 DEF Make, DestructFree, CallRejected
  <2>7. CASE Body
    BY <2>1, <2>7 DEF Body, Yield, YieldDeferred, Finish
  <2>8. CASE Nesting
    BY <2>1, <2>8 DEF Nesting, EnterCallback, LeaveCallback, EnterEval, LeaveEval
  <2>9. CASE Die \/ Exit \/ EndOfProgram
    BY <2>9 DEF Die, Exit, EndOfProgram
  <2>10. CASE Deliver
    <3>1. CASE UnwindPop  BY <2>1, <3>1 DEF UnwindPop
    <3>2. CASE UnwindFound
      <4>1. \E x : cxs' = [cxs EXCEPT ![cur] = x]
        BY <3>2 DEF UnwindFound
      <4>2. QED  BY <2>1, <4>1
    <3>6. CASE UnwindMain
      <4>1. cxs' = [cxs EXCEPT ![cur] = <<>>]
        BY <3>6 DEF UnwindMain
      <4>2. QED  BY <2>1, <4>1
    <3>3. CASE JumpDocatch  BY <2>1, <3>3 DEF JumpDocatch
    <3>4. CASE JumpResume  BY <2>1, <3>4 DEF JumpResume
    <3>5. CASE JumpMain  BY <3>5 DEF JumpMain
    <3>7. QED  BY <2>10, <3>1, <3>2, <3>3, <3>4, <3>5, <3>6 DEF Deliver
  <2>11. QED
    BY <1>2, <2>3, <2>4, <2>5, <2>6, <2>7, <2>8, <2>9, <2>10 DEF Next, Call, Free
<1>3. ASSUME IndInv, [Next]_vars  PROVE [\A g \in Suspended : Intact(g)]_vars
  BY <1>1, <1>2, <1>3
<1> HIDE DEF Intact
<1>4. IndInv /\ [Next]_vars => [\A g \in Suspended : Intact(g)]_vars
  BY <1>3
<1>5. Spec => [][\A g \in Suspended : Intact(g)]_vars
  BY <1>4, Invariance, PTL DEF Spec
<1>6. QED  BY <1>5 DEF ContinuationIntact, Intact

-----------------------------------------------------------------------------
\* The lifecycle.

\* A running generator has one frame, which the mapping finds.
LEMMA FrameFound ==
    IndInv => \A k \in 1 .. Depth : cstack[k].kind = "resume" =>
                 FrameOf(cstack[k].gen) = k /\ cstack[k].oldhook \in 0 .. k - 1
<1> SUFFICES ASSUME IndInv, NEW k \in 1 .. Depth, cstack[k].kind = "resume"
             PROVE  FrameOf(cstack[k].gen) = k /\ cstack[k].oldhook \in 0 .. k - 1
  OBVIOUS
<1>1. \A j \in ResumeFrames : cstack[j].gen = cstack[k].gen => j = k
  BY Frames DEF ResumeFrames
<1>2. k \in ResumeFrames
  BY DEF ResumeFrames
<1>3. FrameOf(cstack[k].gen) = k
  BY <1>1, <1>2 DEF FrameOf
<1>4. cstack[k].oldhook \in 0 .. k - 1
  BY DEF IndInv, WellFramed, FrameOK, InnermostHook, Depth
<1>5. QED  BY <1>3, <1>4

\* ... before and after a step.
LEMMA FrameFoundAfter ==
    IndInv' => \A k \in 1 .. Depth', g \in Generators :
                  cstack'[k].kind = "resume" /\ cstack'[k].gen = g => FrameOf(g)' = k
<1>1. IndInv => \A k \in 1 .. Depth, g \in Generators :
                   cstack[k].kind = "resume" /\ cstack[k].gen = g => FrameOf(g) = k
  BY FrameFound
<1>2. (IndInv => \A k \in 1 .. Depth, g \in Generators :
                    cstack[k].kind = "resume" /\ cstack[k].gen = g => FrameOf(g) = k)'
  BY <1>1, PTL
<1>3. QED  BY <1>2

\* Whoever called g: unchanged as long as g runs in the same frame.
LEMMA CallerFact ==
    ASSUME IndInv, IndInv', NEW g \in Generators, NEW k \in 1 .. Depth, k \in 1 .. Depth',
           cstack[k].kind = "resume", cstack[k].gen = g,
           \A j \in 1 .. k : cstack'[j] = cstack[j],
           gen'[g].state = "RUNNING"
    PROVE  CallerOf(g)' = CallerOf(g) /\ CallerOf(g) = Hooked(cstack[k].oldhook)
<1>1. FrameOf(g) = k /\ cstack[k].oldhook \in 0 .. k - 1 /\ gen[g].state = "RUNNING"
  BY FrameFound, Frames
<1>2. k \in 1 .. k /\ k \in Nat
  BY Facts
<1>3. cstack'[k] = cstack[k]
  BY <1>2
<1>4. FrameOf(g)' = k
  BY <1>3, FrameFoundAfter
<1>5. cstack[k].oldhook # 0 => cstack[k].oldhook \in 1 .. k
  BY <1>1, <1>2
<1>6. CallerOf(g) = Hooked(cstack[k].oldhook)
  BY <1>1 DEF CallerOf
<1>7. CallerOf(g)' = IF cstack[k].oldhook = 0 THEN Nobody ELSE cstack'[cstack[k].oldhook].gen
  BY <1>3, <1>4 DEF CallerOf, Hooked
<1>8. QED  BY <1>5, <1>6, <1>7 DEF Hooked

\* The frame of a running generator.
LEMMA RunningFrame ==
    ASSUME IndInv, NEW g \in Generators, gen[g].state = "RUNNING"
    PROVE  \E k \in 1 .. Depth : cstack[k].kind = "resume" /\ cstack[k].gen = g /\ k <= hook
BY Frames DEF IndInv, OwnedOK

\* A call is a call.
LEMMA EnteredCalls ==
    ASSUME IndInv, IndInv', NEW g \in Generators, Entered(g)
    PROVE  Lifecycle!ACall(g)
<1>1. /\ Depth \in Nat /\ hook \in 0 .. Depth /\ Depth' = Depth + 1
      /\ \A j \in 1 .. Depth : cstack'[j] = cstack[j]
      /\ cstack'[Depth + 1].kind = "resume" /\ cstack'[Depth + 1].gen = g
      /\ cstack'[Depth + 1].oldhook = hook
      /\ gen[g].state \in {"NEW", "YIELDED"} /\ gen'[g].state = "RUNNING"
      /\ \A h \in Generators \ {g} : gen'[h] = gen[h]
      /\ hook' = Depth + 1 /\ status = "running" /\ status' = status
  BY Facts DEF Entered, Executing
<1>2. Healthy /\ Healthy'
  BY <1>1 DEF Healthy
<1>3. LifeOf(g) \in {"new", "paused"} /\ LifeOf(g)' = "running"
      /\ \A h \in Generators \ {g} : LifeOf(h)' = LifeOf(h)
  BY <1>1 DEF LifeOf
<1>4. Hooked(hook)' = g
  BY <1>1 DEF Hooked
<1>5. CallerOf(g)' = Hooked(hook)
  <2>1. Depth + 1 \in 1 .. Depth'
    BY <1>1
  <2>2. FrameOf(g)' = Depth + 1
    BY <1>1, <2>1, FrameFoundAfter
  <2>3. CallerOf(g)' = IF hook = 0 THEN Nobody ELSE cstack'[hook].gen
    BY <1>1, <2>2 DEF CallerOf, Hooked
  <2>4. hook # 0 => hook \in 1 .. Depth
    BY <1>1
  <2>5. QED  BY <1>1, <2>3, <2>4 DEF Hooked
<1>6. ASSUME NEW h \in Generators \ {g}  PROVE CallerOf(h)' = CallerOf(h)
  <2>1. CASE gen[h].state = "RUNNING"
    <3>1. PICK k \in 1 .. Depth : cstack[k].kind = "resume" /\ cstack[k].gen = h
      BY <2>1, RunningFrame
    <3>2. k \in 1 .. Depth' /\ \A j \in 1 .. k : j \in 1 .. Depth
      BY <1>1
    <3>3. QED  BY <1>1, <2>1, <3>1, <3>2, CallerFact
  <2>2. CASE gen[h].state # "RUNNING"
    BY <1>1, <2>2 DEF CallerOf
  <2>3. QED  BY <2>1, <2>2
<1>7. QED  BY <1>2, <1>3, <1>4, <1>5, <1>6 DEF Lifecycle!ACall

\* A return is a return to whoever called.
LEMMA ReturnedReturns ==
    ASSUME IndInv, IndInv', Returned
    PROVE  \E how \in {"paused", "completed", "failed"} : Lifecycle!AReturn(how)
<1>0. PICK g \in Generators : g = Running
  BY Frames DEF Returned
<1>1. /\ Depth \in Nat /\ hook \in 1 .. Depth /\ Depth' = hook - 1
      /\ \A j \in 1 .. hook - 1 : cstack'[j] = cstack[j]
      /\ cstack[hook].kind = "resume" /\ cstack[hook].gen = g
      /\ gen[g].state = "RUNNING" /\ gen'[g].state \in {"YIELDED", "EXHAUSTED", "FAILED"}
      /\ \A h \in Generators \ {g} : gen'[h] = gen[h]
      /\ hook' = cstack[hook].oldhook /\ status = "running" /\ status' = status
  BY <1>0, Facts, HookRun, Frames DEF Returned
<1>2. Healthy /\ Healthy'
  BY <1>1 DEF Healthy
<1>3. Hooked(hook) = g /\ g # Nobody
  BY <1>1, GeneratorAssumption DEF Hooked
<1>4. PICK how \in {"paused", "completed", "failed"} : LifeOf(g)' = how
  BY <1>1 DEF LifeOf
<1>5. \A h \in Generators \ {g} : LifeOf(h)' = LifeOf(h)
  BY <1>1 DEF LifeOf
<1>6. cstack[hook].oldhook \in 0 .. hook - 1 /\ FrameOf(g) = hook
  BY <1>1, FrameFound
<1>7. Hooked(hook)' = CallerOf(g)
  <2>1. Hooked(hook)' = IF cstack[hook].oldhook = 0 THEN Nobody
                        ELSE cstack'[cstack[hook].oldhook].gen
    BY <1>1 DEF Hooked
  <2>2. CallerOf(g) = Hooked(cstack[hook].oldhook)
    BY <1>1, <1>6 DEF CallerOf
  <2>3. cstack[hook].oldhook # 0 => cstack[hook].oldhook \in 1 .. hook - 1
    BY <1>6
  <2>4. QED  BY <1>1, <2>1, <2>2, <2>3 DEF Hooked
<1>8. CallerOf(g)' = Nobody
  BY <1>1 DEF CallerOf
<1>9. ASSUME NEW h \in Generators \ {g}  PROVE CallerOf(h)' = CallerOf(h)
  <2>1. CASE gen[h].state = "RUNNING"
    <3>1. PICK k \in 1 .. Depth : cstack[k].kind = "resume" /\ cstack[k].gen = h /\ k <= hook
      BY <2>1, RunningFrame
    <3>2. k # hook
      BY <1>1, <3>1
    <3>3. k \in 1 .. Depth' /\ \A j \in 1 .. k : j \in 1 .. hook - 1
      BY <1>1, <3>1, <3>2
    <3>4. QED  BY <1>1, <2>1, <3>1, <3>3, CallerFact
  <2>2. CASE gen[h].state # "RUNNING"
    BY <1>1, <2>2 DEF CallerOf
  <2>3. QED  BY <2>1, <2>2
<1>10. Lifecycle!AReturn(how)
  BY <1>1, <1>2, <1>3, <1>4, <1>5, <1>7, <1>8, <1>9 DEF Lifecycle!AReturn
<1>11. QED  BY <1>10

\* What the abstract specification sees of the other moves.
LEMMA SameCalls ==
    ASSUME IndInv, IndInv', hook' = hook, Depth' \in Nat, hook <= Depth',
           \A j \in 1 .. Depth : j <= Depth' => cstack'[j] = cstack[j],
           NEW h \in Generators, gen'[h].state = gen[h].state
    PROVE  CallerOf(h)' = CallerOf(h) /\ Hooked(hook)' = Hooked(hook)
<1>1. Depth \in Nat /\ hook \in 0 .. Depth
  BY Facts
<1>2. Hooked(hook)' = Hooked(hook)
  <2>1. hook # 0 => hook \in 1 .. Depth
    BY <1>1
  <2>2. QED  BY <1>1, <2>1 DEF Hooked
<1>3. CASE gen[h].state = "RUNNING"
  <2>1. PICK k \in 1 .. Depth : cstack[k].kind = "resume" /\ cstack[k].gen = h /\ k <= hook
    BY <1>3, RunningFrame
  <2>2. k \in 1 .. Depth' /\ \A j \in 1 .. k : j \in 1 .. Depth /\ j <= Depth'
    BY <1>1, <2>1
  <2>3. QED  BY <1>2, <1>3, <2>1, <2>2, CallerFact
<1>4. CASE gen[h].state # "RUNNING"
  BY <1>2, <1>4 DEF CallerOf
<1>5. QED  BY <1>3, <1>4

\* Nothing of the life of generators changes within a call.
LEMMA WithinStutters ==
    ASSUME IndInv, IndInv', Within \/ PutOff  PROVE UNCHANGED Lifecycle!avars
<1>1. /\ hook' = hook /\ Depth' \in Nat /\ hook <= Depth' /\ (Healthy' <=> Healthy)
      /\ \A j \in 1 .. Depth : j <= Depth' => cstack'[j] = cstack[j]
  <2>1. CASE Within
    BY <2>1 DEF Within
  <2>2. CASE PutOff
    BY <2>2, Facts DEF PutOff, Healthy, Depth
  <2>3. QED  BY <2>1, <2>2
<1>2. ASSUME NEW h \in Generators  PROVE gen'[h].state = gen[h].state
  <2>1. CASE Within
    BY <2>1 DEF Within
  <2>2. CASE PutOff
    <3>1. gen \in [Generators -> GenRecord] /\ Running \in Generators
      BY <2>2, Frames DEF PutOff, IndInv, TypeOK
    <3>2. gen[Running] \in GenRecord
      BY <3>1
    <3>3. [gen[Running] EXCEPT !.yieldPending = TRUE].state = gen[Running].state
      BY <3>2 DEF GenRecord
    <3>4. gen' = [gen EXCEPT ![Running] = [gen[Running] EXCEPT !.yieldPending = TRUE]]
      BY <2>2 DEF PutOff
    <3>5. QED  BY <3>1, <3>3, <3>4
  <2>3. QED  BY <1>1, <2>1, <2>2
<1>3. \A h \in Generators : LifeOf(h)' = LifeOf(h) /\ CallerOf(h)' = CallerOf(h)
  BY <1>1, <1>2, SameCalls DEF LifeOf
<1>4. Hooked(hook)' = Hooked(hook)
  <2>1. Depth \in Nat /\ (hook # 0 => hook \in 1 .. Depth /\ hook <= Depth')
    BY <1>1, Frames
  <2>2. QED  BY <1>1, <2>1 DEF Hooked
<1>5. QED  BY <1>1, <1>3, <1>4 DEF Lifecycle!avars

\* Making and freeing are creating and freeing; a program that stops, stops.
LEMMA OtherMoves ==
    ASSUME IndInv, IndInv', NEW g \in Generators, Renewed(g)
    PROVE  Lifecycle!ACreate(g) \/ Lifecycle!AFree(g)
<1>1. /\ cstack' = cstack /\ hook' = hook /\ Healthy /\ Healthy' /\ Depth' = Depth
      /\ Depth \in Nat /\ hook <= Depth'
      /\ \A h \in Generators \ {g} : gen'[h] = gen[h]
  BY Frames DEF Renewed, Healthy, Depth
<1>2. Hooked(hook)' = Hooked(hook)
  BY <1>1 DEF Hooked
<1>3. \A h \in Generators \ {g} : LifeOf(h)' = LifeOf(h) /\ CallerOf(h)' = CallerOf(h)
  BY <1>1, SameCalls DEF LifeOf
<1>4. gen[g].state # "RUNNING" /\ gen'[g].state # "RUNNING"
  BY DEF Renewed
<1>5. CallerOf(g)' = CallerOf(g)
  BY <1>4 DEF CallerOf
<1>6. \/ LifeOf(g) = "gone" /\ LifeOf(g)' = "new"
      \/ LifeOf(g) \notin {"gone", "running"} /\ LifeOf(g)' = "gone"
  <2>1. gen[g].state \in States
    BY GenFields DEF IndInv
  <2>2. QED  BY <2>1 DEF Renewed, LifeOf, States
<1>7. QED  BY <1>1, <1>2, <1>3, <1>5, <1>6 DEF Lifecycle!ACreate, Lifecycle!AFree

LEMMA StoppedCrashes ==
    ASSUME IndInv, IndInv', Stopped  PROVE Lifecycle!ACrash
<1>1. gen' = gen /\ cstack' = cstack /\ hook' = hook /\ ~Healthy'
      /\ Depth' = Depth /\ Depth \in Nat /\ hook <= Depth'
  BY Frames DEF Stopped, Depth
<1>2. Hooked(hook)' = Hooked(hook) /\ \A h \in Generators : LifeOf(h)' = LifeOf(h)
  BY <1>1 DEF Hooked, LifeOf
<1>3. \A h \in Generators : CallerOf(h)' = CallerOf(h)
  BY <1>1, SameCalls
<1>4. QED  BY <1>1, <1>2, <1>3 DEF Lifecycle!ACrash

\* The runtime does what perlgenerator.pod says of generators, whatever stacks,
\* boundaries, callbacks and exceptions are in between: calls nest, control goes
\* back to the caller, a running generator is not called, one that is over does
\* not run again.
THEOREM RuntimeImplementsLifecycle == Spec => ImplementsLifecycle
<1>1. Init => Lifecycle!AInit
  <2>1. ASSUME Init  PROVE Lifecycle!AInit
    <3>1. \A g \in Generators : gen[g] = AbsentGen(g) /\ AbsentGen(g).state = "ABSENT"
      BY <2>1, FreshGenType DEF Init
    <3>2. \A g \in Generators : LifeOf(g) = "gone" /\ CallerOf(g) = Nobody
      BY <3>1 DEF LifeOf, CallerOf
    <3>3. Hooked(hook) = Nobody /\ Healthy
      BY <2>1 DEF Init, Hooked, Healthy
    <3>4. QED  BY <3>2, <3>3 DEF Lifecycle!AInit
  <2>2. QED  BY <2>1
<1>2. IndInv /\ IndInv' /\ [Next]_vars => [Lifecycle!ANext]_(Lifecycle!avars)
  <2>1. ASSUME IndInv, IndInv', Next  PROVE Lifecycle!ANext \/ UNCHANGED Lifecycle!avars
    <3>1. Moves
      BY <2>1, NextMoves
    <3>2. QED
      BY <2>1, <3>1, EnteredCalls, ReturnedReturns, WithinStutters, OtherMoves, StoppedCrashes
         DEF Moves, Lifecycle!ANext
  <2>2. ASSUME UNCHANGED vars  PROVE UNCHANGED Lifecycle!avars
    BY <2>2 DEF vars, Lifecycle!avars, LifeOf, Hooked, CallerOf, FrameOf, ResumeFrames, Depth,
                Healthy
  <2>3. QED  BY <2>1, <2>2
<1>3. QED  BY <1>1, <1>2, Invariance, PTL DEF Spec, ImplementsLifecycle, Lifecycle!ASpec

-----------------------------------------------------------------------------
\* The contexts of the bodies, and CvDEPTH.

\* Unwinding a generator's stack to below the sub context of its body leaves
\* the body; unwinding it to above that, or unwinding evals only, does not.
LEMMA BodyUnwound ==
    ASSUME NEW g, NEW stack, NEW n \in Nat, DOMAIN stack = 1 .. Len(stack), Len(stack) \in Nat,
           BodyStack(stack, g)
    PROVE  UnwoundDepth(stack, n) =
               IF n < 2 THEN [depth EXCEPT ![BodyOf[g]] = stack[2].old] ELSE depth
<1>1. /\ 2 \in DOMAIN stack /\ stack[2].type = "BODY" /\ stack[2].cv = BodyOf[g]
      /\ stack[1].type = "FAKE"
      /\ \A i \in DOMAIN stack : i > 2 => stack[i].type = "EVAL"
  BY DEF BodyStack, OnlyEvalsAbove
<1>2. \A i \in DOMAIN stack : stack[i].type = "BODY" => i = 2
  <2>1. \A i \in DOMAIN stack : i = 1 \/ i = 2 \/ i > 2
    OBVIOUS
  <2>2. QED  BY <1>1, <2>1
<1>3. CASE n < 2
  <2>1. BodiesAbove(stack, n) = {2}
    BY <1>1, <1>2, <1>3 DEF BodiesAbove
  <2>2. BodyAbove(stack, n) = stack[2] /\ BodiesAbove(stack, n) # {}
    BY <2>1 DEF BodyAbove
  <2>3. QED  BY <1>1, <1>3, <2>2 DEF UnwoundDepth
<1>4. CASE ~(n < 2)
  <2>1. BodiesAbove(stack, n) = {}
    BY <1>2, <1>4 DEF BodiesAbove
  <2>2. QED  BY <1>4, <2>1 DEF UnwoundDepth
<1>5. QED  BY <1>3, <1>4

LEMMA EvalsUnwound ==
    ASSUME NEW stack, NEW n \in Nat, OnlyEvalsAbove(stack, 0), DOMAIN stack \subseteq Nat \ {0}
    PROVE  UnwoundDepth(stack, n) = depth
<1>1. \A i \in DOMAIN stack : stack[i].type = "EVAL"
  BY DEF OnlyEvalsAbove
<1>2. BodiesAbove(stack, n) = {}
  BY <1>1 DEF BodiesAbove
<1>3. QED  BY <1>2 DEF UnwoundDepth

\* Evals come and go above the sub context.
LEMMA EvalPushed ==
    ASSUME NEW stack \in Seq(Context), NEW n \in Nat,
           NEW e \in Context, e.type = "EVAL", OnlyEvalsAbove(stack, n)
    PROVE  /\ OnlyEvalsAbove(Append(stack, e), n)
           /\ \A g : BodyStack(stack, g) =>
                 /\ BodyStack(Append(stack, e), g)
                 /\ Append(stack, e)[1] = stack[1] /\ Append(stack, e)[2] = stack[2]
           /\ Append(stack, e) # <<>>
<1> DEFINE t == Append(stack, e)
<1>1. /\ Len(stack) \in Nat /\ Len(t) = Len(stack) + 1
      /\ DOMAIN stack = 1 .. Len(stack) /\ DOMAIN t = 1 .. Len(stack) + 1
      /\ \A i \in 1 .. Len(stack) : t[i] = stack[i]
      /\ t[Len(stack) + 1] = e
  <2> HIDE DEF Context
  <2> QED  BY LenProperties, AppendProperties
<1> HIDE DEF t
<1>2. ASSUME NEW m \in Nat, OnlyEvalsAbove(stack, m)  PROVE OnlyEvalsAbove(t, m)
  <2>1. ASSUME NEW i \in DOMAIN t, i > m  PROVE t[i].type = "EVAL"
    <3>1. i \in 1 .. Len(stack) \/ i = Len(stack) + 1
      BY <1>1
    <3>2. QED  BY <1>1, <1>2, <2>1, <3>1 DEF OnlyEvalsAbove
  <2>2. QED  BY <2>1 DEF OnlyEvalsAbove
<1>3. ASSUME NEW g, BodyStack(stack, g)
      PROVE  BodyStack(t, g) /\ t[1] = stack[1] /\ t[2] = stack[2]
  <2>1. 1 \in 1 .. Len(stack) /\ 2 \in 1 .. Len(stack) /\ Len(t) >= 2
    BY <1>1, <1>3 DEF BodyStack
  <2>2. QED  BY <1>1, <1>2, <1>3, <2>1 DEF BodyStack
<1>4. t # <<>>
  <2>1. Len(t) # 0
    BY <1>1
  <2>2. QED  BY <2>1
<1>5. QED  BY <1>2, <1>3, <1>4 DEF t

LEMMA EvalPopped ==
    ASSUME NEW stack \in Seq(Context), NEW n \in 1 .. Len(stack), stack[n].type = "EVAL"
    PROVE  /\ OnlyEvalsAbove(stack, 0) => OnlyEvalsAbove(SubSeq(stack, 1, n - 1), 0)
           /\ \A g : BodyStack(stack, g) =>
                 /\ BodyStack(SubSeq(stack, 1, n - 1), g)
                 /\ SubSeq(stack, 1, n - 1)[1] = stack[1]
                 /\ SubSeq(stack, 1, n - 1)[2] = stack[2]
                 /\ SubSeq(stack, 1, n - 1) # <<>>
<1> DEFINE t == SubSeq(stack, 1, n - 1)
<1>1. /\ Len(stack) \in Nat /\ DOMAIN t = 1 .. n - 1 /\ t \in Seq(Context)
      /\ \A i \in 1 .. n - 1 : t[i] = stack[i]
      /\ DOMAIN stack = 1 .. Len(stack)
  <2> HIDE DEF Context
  <2> QED  BY StackCut
<1>2. Len(t) = n - 1
  <2>1. Len(t) \in Nat /\ DOMAIN t = 1 .. Len(t)
    BY <1>1, LenProperties
  <2> HIDE DEF t
  <2>2. QED  BY <1>1, <2>1
<1> HIDE DEF t
<1>3. ASSUME NEW m \in Nat, OnlyEvalsAbove(stack, m)  PROVE OnlyEvalsAbove(t, m)
  <2>1. \A i \in 1 .. n - 1 : i \in DOMAIN stack
    BY <1>1
  <2>2. QED  BY <1>1, <1>3, <2>1 DEF OnlyEvalsAbove
<1>4. ASSUME NEW g, BodyStack(stack, g)
      PROVE  BodyStack(t, g) /\ t[1] = stack[1] /\ t[2] = stack[2] /\ t # <<>>
  <2>1. n # 1 /\ n # 2
    BY <1>4 DEF BodyStack
  <2>2. 1 \in 1 .. n - 1 /\ 2 \in 1 .. n - 1 /\ Len(t) >= 2
    BY <1>1, <1>2, <2>1
  <2>3. t # <<>>
    BY <2>2
  <2>4. OnlyEvalsAbove(t, 2)
    BY <1>3, <1>4 DEF BodyStack
  <2>5. QED  BY <1>1, <1>4, <2>2, <2>3, <2>4 DEF BodyStack
<1>5. QED  BY <1>3, <1>4 DEF t

\* A generator whose record and frame stay what they are, up to its @_ and the
\* yield it may have put off.
Carried(g) ==
    /\ gen'[g].state = gen[g].state
    /\ gen'[g].si = gen[g].si
    /\ gen'[g].evalActive = gen[g].evalActive
    /\ \A k \in 1 .. Depth : Calls(k, g) => k \in 1 .. Depth' /\ cstack'[k] = cstack[k]
    /\ \A k \in 1 .. Depth' : Calls(k, g)' => k \in 1 .. Depth /\ cstack'[k] = cstack[k]

\* A step that does not call or leave a generator carries it along.
LEMMA OthersCarried ==
    ASSUME IndInv, NEW g \in Generators,
           \/ \E h \in Generators \ {g} : Entered(h) \/ Renewed(h)
           \/ Returned /\ g # Running
           \/ Within \/ PutOff
    PROVE  Carried(g)
<1>1. /\ Depth \in Nat /\ hook \in 0 .. Depth
      /\ \A k \in 1 .. Depth : cstack[k].kind = "resume" =>
            k <= hook /\ cstack[k].gen \in Generators
      /\ hook # 0 => Running = cstack[hook].gen /\ Running \in Generators
      /\ gen \in [Generators -> GenRecord]
  BY Frames DEF IndInv, TypeOK
<1>2. ASSUME NEW h \in Generators \ {g}, Entered(h)  PROVE Carried(g)
  <2>1. \A k \in 1 .. Depth' : k \in 1 .. Depth \/ k = Depth + 1
    BY <1>1, <1>2 DEF Entered
  <2>2. \A k \in 1 .. Depth : k \in 1 .. Depth'
    BY <1>1, <1>2 DEF Entered
  <2>3. QED  BY <1>2, <2>1, <2>2 DEF Entered, Carried, Calls
<1>3. ASSUME NEW h \in Generators \ {g}, Renewed(h)  PROVE Carried(g)
  BY <1>3 DEF Renewed, Carried, Calls, Depth
<1>4. CASE Returned /\ g # Running
  <2>1. \A k \in 1 .. Depth : Calls(k, g) => k \in 1 .. hook - 1
    BY <1>1, <1>4 DEF Returned, Calls
  <2>2. \A k \in 1 .. hook - 1 : k \in 1 .. Depth
    BY <1>1, <1>4 DEF Returned
  <2>3. QED  BY <1>4, <2>1, <2>2 DEF Returned, Carried, Calls
<1>5. CASE Within
  <2>1. \A k \in 1 .. Depth : Calls(k, g) => k \in 1 .. Depth'
    BY <1>1, <1>5 DEF Within, Calls
  <2>2. \A k \in 1 .. Depth' : Calls(k, g)' => k \in 1 .. Depth
    BY <1>1, <1>5 DEF Within, Calls
  <2>3. \A k \in 1 .. Depth : k \in 1 .. Depth' => cstack'[k] = cstack[k]
    BY <1>5 DEF Within
  <2>4. QED  BY <1>5, <2>1, <2>2, <2>3 DEF Within, Carried
<1>6. CASE PutOff
  <2>1. Depth' = Depth /\ cstack' = cstack
    BY <1>6 DEF PutOff, Depth
  <2>2. Running \in Generators /\ gen[Running] \in GenRecord
    BY <1>1, <1>6 DEF PutOff
  <2> DEFINE r == [gen[Running] EXCEPT !.yieldPending = TRUE]
  <2>3. r.state = gen[Running].state /\ r.si = gen[Running].si
        /\ r.evalActive = gen[Running].evalActive
    BY <2>2 DEF GenRecord
  <2>4. gen' = [gen EXCEPT ![Running] = r]
    BY <1>6 DEF PutOff
  <2> HIDE DEF r
  <2>5. gen'[g].state = gen[g].state /\ gen'[g].si = gen[g].si
        /\ gen'[g].evalActive = gen[g].evalActive
    BY <1>1, <2>2, <2>3, <2>4
  <2>6. QED  BY <2>1, <2>5 DEF Carried, Calls
<1>7. QED  BY <1>2, <1>3, <1>4, <1>5, <1>6

\* Its stack and the depth of its body with it.
Undisturbed(g) ==
    /\ Carried(g)
    /\ gen[g].state = "YIELDED" => cxs'[gen[g].si] = cxs[gen[g].si]
    /\ \A k \in 1 .. Depth : Calls(k, g) => cxs'[cstack[k].si] = cxs[cstack[k].si]
    /\ \A k \in 1 .. Depth : Calls(k, g) /\ Empty(k) => OnItsWay(k)'
    /\ Alone(g) => depth'[BodyOf[g]] = depth[BodyOf[g]]

LEMMA UndisturbedKept ==
    ASSUME NEW g \in Generators, StacksOf(g), DepthOf(g), Undisturbed(g)
    PROVE  StacksOf(g)' /\ DepthOf(g)'
<1>1. \A k \in 1 .. Depth' : Calls(k, g)' =>
         /\ k \in 1 .. Depth /\ Calls(k, g) /\ cstack'[k] = cstack[k]
         /\ cxs'[cstack'[k].si] = cxs[cstack[k].si]
         /\ (Empty(k)' <=> Empty(k))
  BY DEF Undisturbed, Carried, Calls, Empty
<1>2. \A k \in 1 .. Depth : Calls(k, g) => k \in 1 .. Depth' /\ Calls(k, g)' /\ (Empty(k)' <=> Empty(k))
  BY DEF Undisturbed, Carried, Calls, Empty
<1>3. /\ gen'[g].state = gen[g].state /\ gen'[g].si = gen[g].si
      /\ gen'[g].evalActive = gen[g].evalActive
      /\ gen[g].state = "YIELDED" => cxs'[gen[g].si] = cxs[gen[g].si]
  BY DEF Undisturbed, Carried
<1>4. StacksOf(g)'
  <2>1. ASSUME NEW k \in 1 .. Depth', Calls(k, g)'
        PROVE  \/ Empty(k)' /\ OnItsWay(k)'
               \/ BodyStack(cxs'[cstack'[k].si], g) /\ cxs'[cstack'[k].si][1].env = k
    BY <1>1, <2>1 DEF StacksOf, Undisturbed
  <2>2. gen'[g].state = "YIELDED" => BodyStack(cxs'[gen'[g].si], g)
    BY <1>3 DEF StacksOf
  <2>3. gen'[g].state \in {"RUNNING", "YIELDED"} => gen'[g].evalActive
    BY <1>3 DEF StacksOf
  <2>4. (\A k \in 1 .. Depth : Calls(k, g) =>
            \/ Empty(k) /\ OnItsWay(k)
            \/ BodyStack(cxs[cstack[k].si], g) /\ cxs[cstack[k].si][1].env = k)'
    BY <2>1 DEF BodyStack, OnlyEvalsAbove
  <2>5. QED  BY <2>2, <2>3, <2>4 DEF StacksOf, BodyStack, OnlyEvalsAbove
<1>5. InBody(g)' <=> InBody(g)
  <2>1. (\E k \in 1 .. Depth' : Calls(k, g)' /\ ~Empty(k)') <=> \E k \in 1 .. Depth : Calls(k, g) /\ ~Empty(k)
    BY <1>1, <1>2
  <2>2. QED  BY <1>3, <2>1 DEF InBody
<1>6. DepthOf(g)'
  <2>1. SUFFICES ASSUME Alone(g)
                 PROVE  /\ depth'[BodyOf[g]] = IF InBody(g)' THEN 1 ELSE 0
                        /\ gen'[g].state = "YIELDED" => cxs'[gen'[g].si][2].old = 0
                        /\ \A k \in 1 .. Depth' :
                              Calls(k, g)' /\ ~Empty(k)' => cxs'[cstack'[k].si][2].old = 0
    BY DEF DepthOf, Alone
  <2>2. depth'[BodyOf[g]] = depth[BodyOf[g]]
    BY <2>1 DEF Undisturbed
  <2>3. QED  BY <1>1, <1>3, <1>5, <2>1, <2>2 DEF DepthOf
<1>7. QED  BY <1>4, <1>6

\* No stack of a body is unwound yet while code runs, or a die looks for an eval.
LEMMA NoneUnwound ==
    ASSUME BodiesOK, exc.stage # "jump", exc.stage = "none" \/ exc.kind # "exit",
           NEW g \in Generators, NEW k \in 1 .. Depth, Calls(k, g)
    PROVE  /\ ~Empty(k) /\ BodyStack(cxs[cstack[k].si], g) /\ cxs[cstack[k].si][1].env = k
           /\ Alone(g) => /\ cxs[cstack[k].si][2].old = 0
                          /\ depth[BodyOf[g]] = 1
<1>1. StacksOf(g) /\ DepthOf(g)
  BY DEF BodiesOK
<1>2. ~OnItsWay(k)
  BY DEF OnItsWay
<1>3. BodyStack(cxs[cstack[k].si], g) /\ cxs[cstack[k].si][1].env = k
  BY <1>1, <1>2 DEF StacksOf
<1>4. ~Empty(k)
  BY <1>3 DEF BodyStack, Empty
<1>5. InBody(g)
  BY <1>4 DEF InBody
<1>6. QED  BY <1>1, <1>3, <1>4, <1>5 DEF DepthOf

\* Steps that pop or keep frames and leave the context stacks alone.
LEMMA QuietStep ==
    ASSUME BodiesOK, UNCHANGED <<cxs, depth>>, \A g \in Generators : Carried(g),
           \A k \in 1 .. Depth' : k \in 1 .. Depth /\ cstack'[k] = cstack[k],
           \A g \in Generators, k \in 1 .. Depth : Calls(k, g) /\ Empty(k) => OnItsWay(k)'
    PROVE  BodiesOK'
<1>1. PlainOK'
  BY DEF BodiesOK, PlainOK
<1>2. ASSUME NEW g \in Generators  PROVE StacksOf(g)' /\ DepthOf(g)'
  <2>1. Undisturbed(g)
    BY DEF Undisturbed
  <2>2. QED  BY <2>1, UndisturbedKept DEF BodiesOK
<1>3. QED  BY <1>1, <1>2 DEF BodiesOK

\* Raising an exception, and putting a yield off.
LEMMA RaiseBodies ==
    ASSUME IndInv, BodiesOK, Executing,
           \/ /\ exc' = Raised("die") \/ exc' = Raised("exit")
              /\ UNCHANGED <<gen, cxs, cstack, hook, depth, status>>
           \/ YieldDeferred
    PROVE  BodiesOK'
<1>1. Depth' = Depth /\ cstack' = cstack /\ UNCHANGED <<cxs, depth>>
  BY DEF YieldDeferred, Depth
<1>2. Within \/ PutOff
  <2>1. CASE YieldDeferred
    BY <2>1, PutOffMoves
  <2>2. CASE ~YieldDeferred
    <3>1. Healthy /\ Healthy'
      BY <2>2 DEF Executing, Healthy
    <3>2. QED  BY <2>2, <3>1, StayMoves
  <2>3. QED  BY <2>1, <2>2
<1>3. \A g \in Generators : Carried(g)
  BY <1>2, OthersCarried
<1>4. \A g \in Generators, k \in 1 .. Depth : Calls(k, g) => ~Empty(k)
  BY NoneUnwound DEF Executing
<1>5. QED  BY <1>1, <1>3, <1>4, QuietStep

\* An exception that jumps past a docatch or arrives in perl_run.
LEMMA JumpBodies ==
    ASSUME IndInv, BodiesOK, JumpDocatch \/ (JumpMain /\ exc.kind = "die")
    PROVE  BodiesOK'
<1>1. Within /\ UNCHANGED <<cxs, depth>> /\ exc.stage = "jump"
  BY JumpDocatchMoves, JumpMainMoves DEF JumpDocatch, JumpMain, Jumping
<1>2. \A g \in Generators : Carried(g)
  BY <1>1, OthersCarried
<1>3. TopEnv \in 1 .. Depth /\ Depth \in Nat
  BY Facts
<1>4. \E m \in 1 .. Depth : cstack' = SubSeq(cstack, 1, m)
  <2>1. CASE cstack[TopEnv].kind = "main" \/ (exc.kind = "die" /\ exc.env = TopEnv)
    BY <1>3, <2>1 DEF JumpDocatch, JumpMain, Jumping
  <2>2. CASE JumpDocatch /\ ~(exc.kind = "die" /\ exc.env = TopEnv)
    <3>1. FrameOK(cstack, TopEnv) /\ cstack[TopEnv].kind = "docatch"
      BY <1>3, <2>2 DEF IndInv, WellFramed, Depth, JumpDocatch, Jumping
    <3>2. TopEnv - 1 \in 1 .. Depth
      BY <1>3, <3>1 DEF FrameOK
    <3>3. QED  BY <2>2, <3>2 DEF JumpDocatch
  <2>3. JumpMain => cstack[TopEnv].kind = "main"
    BY DEF JumpMain, Jumping
  <2>4. QED  BY <2>1, <2>2, <2>3
<1>5. \A k \in 1 .. Depth' : k \in 1 .. Depth /\ cstack'[k] = cstack[k]
  <2>1. PICK m \in 1 .. Depth : cstack' = SubSeq(cstack, 1, m)
    BY <1>4
  <2>2. Depth' = m /\ \A j \in 1 .. m : cstack'[j] = cstack[j]
    BY <2>1, CutsTo
  <2>3. QED  BY <1>3, <2>2
<1>6. ASSUME NEW g \in Generators, NEW k \in 1 .. Depth, Calls(k, g), Empty(k)
      PROVE  OnItsWay(k)'
  <2>1. OnItsWay(k)
    BY <1>6 DEF BodiesOK, StacksOf, BodyStack, Empty
  <2>2. CASE exc' = exc
    BY <2>1, <2>2 DEF OnItsWay
  <2>3. CASE exc' # exc
    <3>1. /\ exc.kind = "die" /\ cstack[TopEnv].kind # "resume"
          /\ exc.env = TopEnv \/ cstack[TopEnv].kind = "main"
      BY <2>3 DEF JumpDocatch, JumpMain, Jumping
    <3>2. exc.env = k
      BY <2>1, <3>1 DEF OnItsWay
    <3>3. exc.env <= TopEnv
      BY <1>1, <1>3, <3>1, JumpTarget, Facts
    <3>4. TopEnv = 1 \/ exc.env = TopEnv
      BY <3>1, BoundaryAbove
    <3>5. k = TopEnv
      BY <1>3, <3>2, <3>3, <3>4
    <3>6. QED  BY <1>6, <3>1, <3>5 DEF Calls
  <2>4. QED  BY <2>2, <2>3
<1>7. QED  BY <1>1, <1>2, <1>5, <1>6, QuietStep

\* The stacks of other generators are not the one that is written.
LEMMA BesideKept ==
    ASSUME IndInv, BodiesOK, NEW g \in Generators, NEW s, Carried(g),
           \A t \in SI : t # s => cxs'[t] = cxs[t],
           \A k \in 1 .. Depth : Calls(k, g) => cstack[k].si # s,
           gen[g].state = "YIELDED" => gen[g].si # s,
           \A k \in 1 .. Depth : Calls(k, g) /\ Empty(k) => OnItsWay(k)',
           Alone(g) => depth'[BodyOf[g]] = depth[BodyOf[g]]
    PROVE  StacksOf(g)' /\ DepthOf(g)'
<1>1. \A k \in 1 .. Depth : Calls(k, g) => cxs'[cstack[k].si] = cxs[cstack[k].si]
  <2>1. \A k \in 1 .. Depth : cstack[k].si \in SI
    BY Typing DEF IndInv, TypeOK, Depth
  <2>2. QED  BY <2>1
<1>2. gen[g].state = "YIELDED" => cxs'[gen[g].si] = cxs[gen[g].si]
  BY DEF IndInv, ParkedOK, FlagsOK, SetAside
<1>3. Undisturbed(g)
  BY <1>1, <1>2 DEF Undisturbed
<1>4. QED  BY <1>3, UndisturbedKept DEF BodiesOK

\* A generator that is not in its body, before and after.
LEMMA RestingNow ==
    ASSUME IndInv, BodiesOK, NEW g \in Generators, gen[g].state \notin {"RUNNING", "YIELDED"}
    PROVE  /\ \A k \in 1 .. Depth : ~Calls(k, g)
           /\ Alone(g) => depth[BodyOf[g]] = 0
<1>1. \A k \in 1 .. Depth : ~Calls(k, g)
  BY Frames DEF Calls
<1>2. ~InBody(g)
  BY <1>1 DEF InBody
<1>3. QED  BY <1>1, <1>2 DEF BodiesOK, DepthOf

LEMMA RestingThen ==
    ASSUME NEW g \in Generators, gen'[g].state \notin {"RUNNING", "YIELDED"},
           \A k \in 1 .. Depth' : ~Calls(k, g)',
           Alone(g) => depth'[BodyOf[g]] = 0
    PROVE  StacksOf(g)' /\ DepthOf(g)'
<1>1. StacksOf(g)'
  BY DEF StacksOf
<1>2. ~InBody(g)'
  BY DEF InBody
<1>3. QED  BY <1>1, <1>2 DEF DepthOf, Alone

\* The stack of a suspended generator.
LEMMA SuspendedBody ==
    ASSUME IndInv, BodiesOK, NEW g \in Generators, gen[g].state = "YIELDED"
    PROVE  /\ gen[g].si \in SI /\ gen[g].evalActive
           /\ BodyStack(cxs[gen[g].si], g)
           /\ cxs[gen[g].si] \in Seq(Context)
           /\ DOMAIN cxs[gen[g].si] = 1 .. Len(cxs[gen[g].si])
           /\ Len(cxs[gen[g].si]) \in Nat
           /\ \A k \in Activations(cstack) : cstack[k].si # gen[g].si
           /\ \A k \in 1 .. Depth : ~Calls(k, g)
           /\ \A h \in Generators \ {g} : gen[h].state = "YIELDED" => gen[h].si # gen[g].si
           /\ Alone(g) => cxs[gen[g].si][2].old = 0 /\ depth[BodyOf[g]] = 1
<1>1. gen[g].stackDetached /\ SetAside(chain, cstack, gen[g].si)
  BY DEF IndInv, ParkedOK, FlagsOK
<1>2. StacksOf(g) /\ DepthOf(g) /\ InBody(g)
  BY DEF BodiesOK, InBody
<1>3. gen[g].si \in SI
  BY <1>1 DEF SetAside
<1>4. cxs[gen[g].si] \in Seq(Context)
  BY <1>3 DEF IndInv, TypeOK
<1>5. DOMAIN cxs[gen[g].si] = 1 .. Len(cxs[gen[g].si]) /\ Len(cxs[gen[g].si]) \in Nat
  <2> HIDE DEF Context
  <2> QED  BY <1>4, LenProperties
<1>6. \A k \in Activations(cstack) : cstack[k].si # gen[g].si
  BY <1>1 DEF SetAside
<1>7. \A k \in 1 .. Depth : ~Calls(k, g)
  BY Frames DEF Calls
<1>8. \A h \in Generators \ {g} : gen[h].state = "YIELDED" => gen[h].si # gen[g].si
  BY DEF IndInv, ParkedOK, FlagsOK
<1>9. QED  BY <1>2, <1>3, <1>4, <1>5, <1>6, <1>7, <1>8 DEF StacksOf, DepthOf

\* A generator is made, or one that does not run is freed.
LEMMA RenewedBodies ==
    ASSUME IndInv, BodiesOK, NEW g \in Generators, Make(g) \/ Drop(g), status' = "running"
    PROVE  BodiesOK'
<1>1. Executing /\ cstack' = cstack /\ Depth' = Depth /\ exc' = exc
  BY DEF Make, Drop, Depth
<1>2. Renewed(g)
  <2>1. ~Stopped
    BY DEF Stopped, Healthy
  <2>2. QED  BY <2>1, FreeMoves
<1>3. gen[g].state # "RUNNING" /\ gen'[g].state \in {"NEW", "ABSENT"}
  BY <1>2 DEF Renewed
<1>4. \A k \in 1 .. Depth : ~Calls(k, g) /\ ~Calls(k, g)'
  BY <1>1, <1>3, Frames DEF Calls
<1>5. \A h \in Generators \ {g} : Carried(h)
  BY <1>2, OthersCarried
<1>6. \A h \in Generators, k \in 1 .. Depth : Calls(k, h) => ~Empty(k) /\ k \in Activations(cstack)
  BY NoneUnwound, <1>1 DEF Executing, Calls, Activations, Depth
<1>7. CASE gen[g].state = "YIELDED"
  <2> DEFINE s == gen[g].si
  <2>1. /\ s \in SI /\ gen[g].evalActive /\ BodyStack(cxs[s], g)
        /\ cxs[s] \in Seq(Context)
        /\ DOMAIN cxs[s] = 1 .. Len(cxs[s]) /\ Len(cxs[s]) \in Nat
        /\ \A k \in Activations(cstack) : cstack[k].si # s
        /\ \A h \in Generators \ {g} : gen[h].state = "YIELDED" => gen[h].si # s
        /\ Alone(g) => cxs[s][2].old = 0
    BY <1>7, SuspendedBody
  <2>2. gen[g].stackPushed
    BY <1>7 DEF IndInv, ParkedOK, FlagsOK
  <2>3. depth' = UnwoundDepth(cxs[s], 0) /\ cxs' = [cxs EXCEPT ![s] = <<>>]
    BY <1>7, <2>1, <2>2 DEF Make, Drop
  <2>4. depth' = [depth EXCEPT ![BodyOf[g]] = cxs[s][2].old]
    BY <2>1, <2>3, BodyUnwound
  <2>5. depth \in [Bodies -> Nat] /\ BodyOf \in [Generators -> Bodies] /\ cxs \in [SI -> Seq(Context)]
    BY GeneratorAssumption DEF IndInv, TypeOK
  <2>6. StacksOf(g)' /\ DepthOf(g)'
    <3>1. Alone(g) => depth'[BodyOf[g]] = 0
      BY <2>1, <2>4, <2>5
    <3>2. QED  BY <1>1, <1>3, <1>4, <3>1, RestingThen
  <2>7. \A t \in SI : t # s => cxs'[t] = cxs[t]
    BY <2>3, <2>5
  <2>8. ASSUME NEW h \in Generators \ {g}  PROVE StacksOf(h)' /\ DepthOf(h)'
    <3>1. Alone(h) => depth'[BodyOf[h]] = depth[BodyOf[h]]
      BY <2>4, <2>5 DEF Alone
    <3>2. \A k \in 1 .. Depth : Calls(k, h) => cstack[k].si # s
      BY <1>6, <2>1
    <3>3. /\ Carried(h)
          /\ gen[h].state = "YIELDED" => gen[h].si # s
          /\ \A k \in 1 .. Depth : Calls(k, h) /\ Empty(k) => OnItsWay(k)'
      BY <1>5, <1>6, <2>1
    <3> HIDE DEF s
    <3>4. QED  BY ONLY IndInv, BodiesOK, h \in Generators, <2>7, <3>1, <3>2, <3>3, BesideKept
  <2>9. PlainOK'
    <3>1. ASSUME NEW k \in 1 .. Depth, cstack[k].kind \in {"main", "callback"}
          PROVE  cxs'[cstack[k].si] = cxs[cstack[k].si]
      <4>1. k \in Activations(cstack) /\ cstack[k].si \in SI
        BY <3>1, Typing DEF IndInv, TypeOK, Activations, Depth
      <4>2. QED  BY <2>1, <2>7, <4>1
    <3>2. QED  BY <1>1, <3>1 DEF PlainOK, BodiesOK
  <2>10. QED  BY <2>6, <2>8, <2>9 DEF BodiesOK
<1>8. CASE gen[g].state # "YIELDED"
  <2>1. ~gen[g].stackPushed
    BY <1>3, <1>8 DEF IndInv, ParkedOK, FlagsOK
  <2>2. cxs' = cxs /\ depth' = depth
    BY <1>3, <2>1 DEF Make, Drop
  <2>3. StacksOf(g)' /\ DepthOf(g)'
    BY <1>1, <1>3, <1>4, <1>8, <2>2, RestingNow, RestingThen
  <2>4. ASSUME NEW h \in Generators \ {g}  PROVE StacksOf(h)' /\ DepthOf(h)'
    <3>1. Undisturbed(h)
      BY <1>5, <1>6, <2>2 DEF Undisturbed
    <3>2. QED  BY <3>1, UndisturbedKept DEF BodiesOK
  <2>5. PlainOK'
    BY <1>1, <2>2 DEF PlainOK, BodiesOK
  <2>6. QED  BY <2>3, <2>4, <2>5 DEF BodiesOK
<1>9. QED  BY <1>7, <1>8

\* A generator is called: its stack holds the body, and aims at the new frame.
LEMMA StackOfCall ==
    ASSUME IndInv, BodiesOK, NEW g \in Generators, Start(g) \/ Resume(g)
    PROVE  \E s \in SI, stack \in Seq(Context) :
              /\ cxs' = [cxs EXCEPT ![s] = stack]
              /\ cstack' = Append(cstack, NewFrame("resume", g, s))
              /\ \A k \in Activations(cstack) : cstack[k].si # s
              /\ \A h \in Generators \ {g} : gen[h].state = "YIELDED" => gen[h].si # s
              /\ BodyStack(stack, g) /\ stack[1].env = Depth + 1
              /\ Alone(g) => stack[2].old = 0 /\ depth'[BodyOf[g]] = 1
              /\ \A b \in Bodies \ {BodyOf[g]} : depth'[b] = depth[b]
              /\ gen'[g].evalActive
<1>1. /\ gen[g] \in GenRecord /\ DOMAIN gen = Generators /\ depth \in [Bodies -> Nat]
      /\ BodyOf[g] \in Bodies /\ cxs \in [SI -> Seq(Context)] /\ Depth + 1 \in FrameIndex
      /\ gen[g].defav \in Arrays /\ depth[BodyOf[g]] \in Nat
  <2>1. gen \in [Generators -> GenRecord] /\ depth \in [Bodies -> Nat] /\ cxs \in [SI -> Seq(Context)]
    BY DEF IndInv, TypeOK
  <2>2. BodyOf[g] \in Bodies
    BY GeneratorAssumption
  <2>3. Depth + 1 \in FrameIndex
    <3>1. Depth \in Nat /\ MaxFrames \in Nat
      BY Facts
    <3>2. Depth < MaxFrames
      BY DEF Start, Resume
    <3>3. QED  BY <3>1, <3>2 DEF FrameIndex
  <2>4. gen[g].defav \in Arrays
    BY GenFields DEF IndInv
  <2>5. QED  BY <2>1, <2>2, <2>3, <2>4
<1>2. CASE Start(g)
  <2> DEFINE s == PushTarget(chain)
             f == EvalContext("FAKE", Depth + 1)
             b == BodyContext(gen[g].defav, BodyOf[g], depth[BodyOf[g]])
             stack == <<f, b>>
  <2>1. Executing /\ CanPush(chain) /\ gen[g].state = "NEW"
    BY <1>2 DEF Start
  <2>2. s \in SI /\ \A k \in Activations(cstack) : cstack[k].si # s
    BY <2>1, PushFresh
  <2>3. \A h \in Generators \ {g} : gen[h].state = "YIELDED" => gen[h].si # s
    <3>1. \A h \in Generators : gen[h].state = "YIELDED" => SetAside(chain, cstack, gen[h].si)
      BY DEF IndInv, ParkedOK, FlagsOK
    <3>2. \A h \in Generators : gen[h].state = "YIELDED" => gen[h].si \in SI
      BY <3>1 DEF SetAside
    <3>3. QED  BY <2>1, <3>1, <3>2, PushFresh
  <2>4. f \in Context /\ b \in Context
    BY <1>1 DEF Context, EvalContexts, EvalTypes, BodyContexts, EvalContext, BodyContext
  <2>5. /\ stack \in Seq(Context) /\ Len(stack) = 2 /\ stack[1] = f /\ stack[2] = b
        /\ DOMAIN stack = 1 .. 2
    <3> HIDE DEF f, b, Context
    <3>1. QED  BY <2>4
  <2>6. /\ f.type = "FAKE" /\ f.env = Depth + 1 /\ b.type = "BODY" /\ b.cv = BodyOf[g]
        /\ b.old = depth[BodyOf[g]]
    BY DEF EvalContext, BodyContext
  <2>7. cxs' = [cxs EXCEPT ![s] = stack] /\ cstack' = Append(cstack, NewFrame("resume", g, s))
        /\ depth' = [depth EXCEPT ![BodyOf[g]] = depth[BodyOf[g]] + 1]
    BY <1>2 DEF Start
  <2> HIDE DEF s, f, b, stack
  <2>8. BodyStack(stack, g)
    <3>1. \A i \in 1 .. 2 : ~(i > 2)
      OBVIOUS
    <3>2. QED  BY <2>5, <2>6, <3>1 DEF BodyStack, OnlyEvalsAbove
  <2>9. Alone(g) => stack[2].old = 0 /\ depth'[BodyOf[g]] = 1
    <3>1. Alone(g) => depth[BodyOf[g]] = 0
      BY <2>1, RestingNow
    <3>2. QED  BY <1>1, <2>5, <2>6, <2>7, <3>1
  <2>10. \A c \in Bodies \ {BodyOf[g]} : depth'[c] = depth[c]
    BY <1>1, <2>7
  <2>11. gen'[g].evalActive
    BY <1>1, <1>2 DEF Start, GenRecord
  <2>12. QED  BY <2>2, <2>3, <2>5, <2>6, <2>7, <2>8, <2>9, <2>10, <2>11
<1>3. CASE Resume(g)
  <2> DEFINE s == gen[g].si
             old == cxs[s]
             stack == [i \in DOMAIN old |-> IF old[i].type \in EvalTypes
                                            THEN [old[i] EXCEPT !.env = Depth + 1]
                                            ELSE old[i]]
  <2>1. gen[g].state = "YIELDED"
    BY <1>3, ResumableParked DEF Resume
  <2>2. /\ s \in SI /\ gen[g].evalActive /\ BodyStack(old, g) /\ old \in Seq(Context)
        /\ DOMAIN old = 1 .. Len(old) /\ Len(old) \in Nat
        /\ \A k \in Activations(cstack) : cstack[k].si # s
        /\ \A h \in Generators \ {g} : gen[h].state = "YIELDED" => gen[h].si # s
        /\ Alone(g) => old[2].old = 0 /\ depth[BodyOf[g]] = 1
    BY <2>1, SuspendedBody
  <2>3. cxs' = [cxs EXCEPT ![s] = stack] /\ cstack' = Append(cstack, NewFrame("resume", g, s))
        /\ depth' = depth
    BY <1>3 DEF Resume
  <2>4. cxs' \in [SI -> Seq(Context)]
    BY <1>3, ResumeStep DEF IndInv, TypeOK
  <2>5. stack \in Seq(Context)
    <3>1. cxs'[s] = stack
      BY <1>1, <2>2, <2>3
    <3> HIDE DEF stack, s
    <3>2. cxs'[s] \in Seq(Context)
      BY <2>2, <2>4
    <3>3. QED  BY <3>1, <3>2
  <2>6. gen'[g].evalActive
    BY <1>1, <1>3, <2>2 DEF Resume, GenRecord
  <2>7. \A i \in DOMAIN old : old[i] \in Context
    <3> HIDE DEF Context, s
    <3>1. QED  BY <2>2, ElementOfSeq
  <2>8. ASSUME NEW i \in DOMAIN old, old[i].type \in EvalTypes
        PROVE  /\ [old[i] EXCEPT !.env = Depth + 1].type = old[i].type
               /\ [old[i] EXCEPT !.env = Depth + 1].env = Depth + 1
    <3>1. old[i] \in EvalContexts
      BY <2>7, <2>8 DEF Context, BodyContexts, EvalTypes
    <3>2. QED  BY <3>1 DEF EvalContexts
  <2>9. /\ DOMAIN stack = DOMAIN old /\ Len(stack) = Len(old)
        /\ \A i \in DOMAIN old : stack[i].type = old[i].type
        /\ \A i \in DOMAIN old : old[i].type \in EvalTypes => stack[i].env = Depth + 1
        /\ \A i \in DOMAIN old : old[i].type \notin EvalTypes => stack[i] = old[i]
    <3>1. DOMAIN stack = DOMAIN old
      OBVIOUS
    <3>2. Len(stack) = Len(old)
      <4>1. DOMAIN stack = 1 .. Len(stack) /\ Len(stack) \in Nat
        <5> HIDE DEF Context, stack
        <5>1. QED  BY <2>5, LenProperties
      <4> HIDE DEF stack, old
      <4>2. QED  BY <2>2, <3>1, <4>1
    <3>3. QED  BY <2>8, <3>1, <3>2
  <2> HIDE DEF stack, s, old
  <2>10. /\ 1 \in DOMAIN old /\ 2 \in DOMAIN old /\ old[1].type = "FAKE" /\ old[2].type = "BODY"
    BY <2>2 DEF BodyStack
  <2>11. BodyStack(stack, g) /\ stack[1].env = Depth + 1 /\ stack[2] = old[2]
    <3>1. stack[2] = old[2]
      BY <2>9, <2>10 DEF EvalTypes
    <3>2. stack[1].env = Depth + 1
      BY <2>9, <2>10 DEF EvalTypes
    <3>3. QED  BY <2>2, <2>9, <2>10, <3>1, <3>2 DEF BodyStack, OnlyEvalsAbove
  <2>12. QED  BY <2>2, <2>3, <2>5, <2>6, <2>11
<1>4. QED  BY <1>2, <1>3

LEMMA CallBodies ==
    ASSUME IndInv, BodiesOK, NEW g \in Generators, Start(g) \/ Resume(g)
    PROVE  BodiesOK'
<1>1. PICK s \in SI, stack \in Seq(Context) :
         /\ cxs' = [cxs EXCEPT ![s] = stack]
         /\ cstack' = Append(cstack, NewFrame("resume", g, s))
         /\ \A k \in Activations(cstack) : cstack[k].si # s
         /\ \A h \in Generators \ {g} : gen[h].state = "YIELDED" => gen[h].si # s
         /\ BodyStack(stack, g) /\ stack[1].env = Depth + 1
         /\ Alone(g) => stack[2].old = 0 /\ depth'[BodyOf[g]] = 1
         /\ \A b \in Bodies \ {BodyOf[g]} : depth'[b] = depth[b]
         /\ gen'[g].evalActive
  BY StackOfCall
<1>2. Entered(g)
  BY CallMoves
<1>3. /\ Executing /\ Depth' = Depth + 1 /\ Depth \in Nat /\ gen'[g].state = "RUNNING"
      /\ \A k \in 1 .. Depth : cstack'[k] = cstack[k]
      /\ gen[g].state # "RUNNING"
  BY <1>2, Facts DEF Entered
<1>4. cstack'[Depth + 1].kind = "resume" /\ cstack'[Depth + 1].si = s
  <2> DEFINE f == NewFrame("resume", g, s)
  <2>1. f.si = s /\ f.kind = "resume"
    BY DEF NewFrame
  <2>2. cstack'[Depth + 1] = f
    <3>1. Depth < MaxFrames
      BY DEF Start, Resume
    <3> HIDE DEF f
    <3>2. QED  BY <1>1, <3>1, NewFrameLemma DEF f
  <2>3. QED  BY <2>1, <2>2
<1>5. cxs'[s] = stack /\ \A t \in SI : t # s => cxs'[t] = cxs[t]
  BY <1>1, CxsUpdate DEF IndInv
<1>6. \A k \in 1 .. Depth' : k \in 1 .. Depth \/ k = Depth + 1
  BY <1>3
<1>7. PlainOK'
  <2>1. ASSUME NEW k \in 1 .. Depth', cstack'[k].kind \in {"main", "callback"}
        PROVE  k \in 1 .. Depth /\ cstack'[k] = cstack[k] /\ cxs'[cstack'[k].si] = cxs[cstack[k].si]
    <3>1. k \in 1 .. Depth /\ cstack'[k] = cstack[k]
      BY <1>3, <1>4, <1>6, <2>1
    <3>2. k \in Activations(cstack) /\ cstack[k].si \in SI
      BY <2>1, <3>1, Typing DEF IndInv, TypeOK, Activations, Depth
    <3>3. QED  BY <1>1, <1>5, <3>1, <3>2
  <2>2. QED  BY <2>1 DEF PlainOK, BodiesOK, OnlyEvalsAbove
<1>8. ASSUME NEW h \in Generators \ {g}  PROVE StacksOf(h)' /\ DepthOf(h)'
  <2>1. Carried(h)
    BY <1>2, OthersCarried
  <2>2. \A k \in 1 .. Depth : Calls(k, h) => ~Empty(k) /\ k \in Activations(cstack)
    BY <1>3, NoneUnwound DEF Executing, Calls, Activations, Depth
  <2>3. Alone(h) => depth'[BodyOf[h]] = depth[BodyOf[h]]
    BY <1>1, GeneratorAssumption DEF Alone
  <2>4. \A k \in 1 .. Depth : Calls(k, h) => cstack[k].si # s
    BY <1>1, <2>2
  <2>5. gen[h].state = "YIELDED" => gen[h].si # s
    BY <1>1
  <2>6. \A k \in 1 .. Depth : Calls(k, h) /\ Empty(k) => OnItsWay(k)'
    BY <2>2
  <2>7. QED  BY <1>5, <2>1, <2>3, <2>4, <2>5, <2>6, BesideKept
<1>9. PICK n \in Nat : n = Depth + 1
  BY <1>3
<1>10. \A k \in 1 .. Depth' : Calls(k, g)' => k = n
  BY <1>3, <1>6, <1>9, Frames DEF Calls
<1>11. n \in 1 .. Depth' /\ Calls(n, g)' /\ ~Empty(n)'
  <2>1. stack # <<>>
    BY <1>1 DEF BodyStack
  <2>2. cstack'[n].gen = g /\ cstack'[n].kind = "resume" /\ cxs'[cstack'[n].si] = stack
    BY <1>2, <1>4, <1>5, <1>9 DEF Entered
  <2>3. n \in 1 .. Depth'
    BY <1>3, <1>9
  <2>4. QED  BY <2>1, <2>2, <2>3 DEF Calls, Empty
<1>12. \A k \in 1 .. Depth' : Calls(k, g)' => k = n /\ cxs'[cstack'[k].si] = stack
  BY <1>4, <1>5, <1>9, <1>10
<1>13. StacksOf(g)'
  <2>1. \A k \in 1 .. Depth' : Calls(k, g)' =>
           BodyStack(cxs'[cstack'[k].si], g) /\ cxs'[cstack'[k].si][1].env = k
    BY <1>1, <1>9, <1>12
  <2>2. QED  BY <1>1, <1>3, <2>1 DEF StacksOf, BodyStack, OnlyEvalsAbove
<1>14. DepthOf(g)'
  <2>1. InBody(g)'
    BY <1>11 DEF InBody
  <2>2. QED  BY <1>1, <1>3, <1>12, <2>1 DEF DepthOf, Alone
<1>15. QED  BY <1>7, <1>8, <1>13, <1>14 DEF BodiesOK

\* The call that returns leaves no frame of its generator.
LEMMA NoFrameLeft ==
    ASSUME IndInv, Returned
    PROVE  /\ Running \in Generators /\ hook \in 1 .. Depth /\ Depth \in Nat
           /\ Calls(hook, Running)
           /\ \A k \in 1 .. Depth' : k \in 1 .. Depth /\ k < hook /\ cstack'[k] = cstack[k]
           /\ \A k \in 1 .. Depth, g \in Generators : Calls(k, g) /\ g # Running => k < hook
           /\ \A k \in 1 .. Depth' : cstack'[k].kind = "resume" => cstack'[k].gen # Running
<1>1. /\ Depth \in Nat /\ hook \in 1 .. Depth /\ cstack[hook].kind = "resume"
      /\ Running = cstack[hook].gen /\ Running \in Generators /\ Depth' = hook - 1
      /\ \A k \in 1 .. Depth : cstack[k].kind = "resume" =>
            /\ k <= hook
            /\ \A j \in 1 .. Depth :
                  cstack[j].kind = "resume" /\ cstack[j].gen = cstack[k].gen => j = k
      /\ \A j \in 1 .. hook - 1 : cstack'[j] = cstack[j]
  BY Frames DEF Returned
<1>2. \A k \in 1 .. Depth' : k \in 1 .. Depth /\ k < hook /\ cstack'[k] = cstack[k]
  BY <1>1
<1>3. \A k \in 1 .. Depth, g \in Generators : Calls(k, g) /\ g # Running => k < hook
  BY <1>1 DEF Calls
<1>4. \A k \in 1 .. Depth' : cstack'[k].kind = "resume" => cstack'[k].gen # Running
  BY <1>1, <1>2
<1>5. QED  BY <1>1, <1>2, <1>3, <1>4 DEF Calls

\* A generator suspends.
LEMMA SuspendBodies ==
    ASSUME IndInv, BodiesOK, Executing, hook # 0, NEW c, c.cur = cstack[hook].si, SuspendOn(c),
           UNCHANGED <<cxs, depth, exc, status>>
    PROVE  BodiesOK'
<1>1. Returned
  BY SuspendMoves
<1>2. PICK x \in Generators : x = Running
  BY <1>1, NoFrameLeft
<1>3. /\ hook \in 1 .. Depth /\ Calls(hook, x)
      /\ \A k \in 1 .. Depth' : k \in 1 .. Depth /\ cstack'[k] = cstack[k]
      /\ \A k \in 1 .. Depth' : cstack'[k].kind = "resume" => cstack'[k].gen # x
  BY <1>1, <1>2, NoFrameLeft
<1>4. gen[x] \in GenRecord /\ DOMAIN gen = Generators /\ gen[x].state = "RUNNING"
  BY <1>2, HookRun DEF IndInv, TypeOK
<1>5. gen'[x].state = "YIELDED" /\ gen'[x].si = cstack[hook].si
      /\ gen'[x].evalActive = gen[x].evalActive
  BY <1>2, <1>4 DEF SuspendOn, GenRecord
<1>6. PlainOK'
  BY <1>3 DEF PlainOK, BodiesOK
<1>7. \A g \in Generators, k \in 1 .. Depth : Calls(k, g) => ~Empty(k)
  BY NoneUnwound DEF Executing
<1>8. ASSUME NEW g \in Generators \ {x}  PROVE StacksOf(g)' /\ DepthOf(g)'
  <2>1. Undisturbed(g)
    BY <1>1, <1>2, <1>7, OthersCarried DEF Undisturbed
  <2>2. QED  BY <2>1, UndisturbedKept DEF BodiesOK
<1>9. /\ BodyStack(cxs[cstack[hook].si], x)
      /\ Alone(x) => cxs[cstack[hook].si][2].old = 0 /\ depth[BodyOf[x]] = 1
  BY <1>3, NoneUnwound DEF Executing
<1>10. gen[x].evalActive
  BY <1>4 DEF BodiesOK, StacksOf
<1>11. \A k \in 1 .. Depth' : ~Calls(k, x)'
  BY <1>3 DEF Calls
<1>12. StacksOf(x)'
  BY <1>5, <1>9, <1>10, <1>11 DEF StacksOf, BodyStack, OnlyEvalsAbove
<1>13. DepthOf(x)'
  BY <1>5, <1>9, <1>11 DEF DepthOf, InBody, Alone
<1>14. QED  BY <1>2, <1>6, <1>8, <1>12, <1>13 DEF BodiesOK

\* A callback ends.
LEMMA LeaveCallbackBodies ==
    ASSUME IndInv, BodiesOK, LeaveCallback  PROVE BodiesOK'
<1>1. CASE hook # 0 /\ Popped(chain).cur = cstack[hook].si /\ SuspendOn(Popped(chain))
  BY <1>1, SuspendBodies DEF LeaveCallback
<1>2. CASE ~(hook # 0 /\ Popped(chain).cur = cstack[hook].si /\ SuspendOn(Popped(chain)))
  <2>1. /\ cstack' = SubSeq(cstack, 1, Loop - 1) /\ UNCHANGED <<cxs, depth, gen, hook, exc, status>>
        /\ Executing
    BY <1>2 DEF LeaveCallback
  <2>2. Within
    <3>1. Returned \/ Within
      BY LeaveCallbackMoves
    <3>2. ~Returned
      <4>1. ASSUME Returned  PROVE FALSE
        <5>1. Running \in Generators /\ gen[Running].state = "RUNNING"
          BY <4>1, HookRun DEF Returned
        <5>2. QED  BY <2>1, <4>1, <5>1 DEF Returned
      <4>2. QED  BY <4>1
    <3>3. QED  BY <3>1, <3>2
  <2>3. Loop - 1 \in 1 .. Depth /\ Depth \in Nat
    <3>1. Loop \in 1 .. Depth /\ Depth \in Nat /\ cstack[Loop].kind = "callback"
      BY Facts DEF LeaveCallback
    <3>2. FrameOK(cstack, Loop)
      BY <3>1 DEF IndInv, WellFramed, Depth
    <3>3. QED  BY <3>1, <3>2 DEF FrameOK
  <2>4. \A k \in 1 .. Depth' : k \in 1 .. Depth /\ cstack'[k] = cstack[k]
    <3>1. PICK m \in 1 .. Depth : m = Loop - 1
      BY <2>3
    <3>2. Depth' = m /\ \A j \in 1 .. m : cstack'[j] = cstack[j]
      BY <2>1, <3>1, CutsTo
    <3>3. QED  BY <2>3, <3>2
  <2>5. \A g \in Generators : Carried(g)
    BY <2>2, OthersCarried
  <2>6. \A g \in Generators, k \in 1 .. Depth : Calls(k, g) => ~Empty(k)
    BY <2>1, NoneUnwound DEF Executing
  <2>7. QED  BY <2>1, <2>4, <2>5, <2>6, QuietStep
<1>3. QED  BY <1>1, <1>2

\* A callback begins, on a stack of its own.
LEMMA EnterCallbackBodies ==
    ASSUME IndInv, BodiesOK, EnterCallback  PROVE BodiesOK'
<1> DEFINE s == PushTarget(chain)
           f == NewFrame("callback", Nobody, s)
<1>1. /\ Executing /\ CanPush(chain) /\ Depth < MaxFrames
      /\ cxs' = [cxs EXCEPT ![s] = <<>>] /\ cstack' = Append(cstack, f)
      /\ UNCHANGED <<gen, hook, depth, exc, status>>
  BY DEF EnterCallback
<1>2. s \in SI /\ \A k \in Activations(cstack) : cstack[k].si # s
  BY <1>1, PushFresh
<1>3. \A h \in Generators : gen[h].state = "YIELDED" => gen[h].si # s
  <2>1. \A h \in Generators : gen[h].state = "YIELDED" => SetAside(chain, cstack, gen[h].si)
    BY DEF IndInv, ParkedOK, FlagsOK
  <2>2. \A h \in Generators : gen[h].state = "YIELDED" => gen[h].si \in SI
    BY <2>1 DEF SetAside
  <2>3. QED  BY <1>1, <2>1, <2>2, PushFresh
<1>4. Within
  BY <1>1, <1>2, NestMoves
<1>5. f.si = s
  BY DEF NewFrame
<1>6. /\ Depth' = Depth + 1 /\ Depth \in Nat
      /\ \A j \in 1 .. Depth : cstack'[j] = cstack[j]
      /\ cstack'[Depth + 1].si = s
  <2>1. Grown(cstack, cstack') /\ cstack'[Depth + 1] = f
    <3>1. Nobody \in Generators \cup {Nobody} /\ "callback" \in {"resume", "docatch", "callback"}
      OBVIOUS
    <3> HIDE DEF s
    <3>2. QED  BY <1>1, <1>2, <3>1, NewFrameLemma
  <2> HIDE DEF f
  <2>2. QED  BY <1>5, <2>1, Facts DEF Grown, Depth
<1> HIDE DEF s, f
<1>7. cxs'[s] = <<>> /\ \A t \in SI : t # s => cxs'[t] = cxs[t]
  BY <1>1, <1>2 DEF IndInv, TypeOK
<1>8. PlainOK'
  <2>1. ASSUME NEW k \in 1 .. Depth', cstack'[k].kind \in {"main", "callback"}
        PROVE  OnlyEvalsAbove(cxs'[cstack'[k].si], 0)
    <3>1. CASE k \in 1 .. Depth
      <4>1. cstack'[k] = cstack[k]
        BY <1>6, <3>1
      <4>2. k \in Activations(cstack) /\ cstack[k].si \in SI
        BY <2>1, <3>1, <4>1, Typing DEF IndInv, TypeOK, Activations, Depth
      <4>3. cxs'[cstack'[k].si] = cxs[cstack[k].si]
        BY <1>2, <1>7, <4>1, <4>2
      <4>4. QED  BY <2>1, <3>1, <4>1, <4>3 DEF BodiesOK, PlainOK
    <3>2. CASE k = Depth + 1
      BY <1>6, <1>7, <3>2 DEF OnlyEvalsAbove
    <3>3. QED  BY <1>6, <3>1, <3>2
  <2>2. QED  BY <2>1 DEF PlainOK, OnlyEvalsAbove
<1>9. ASSUME NEW h \in Generators  PROVE StacksOf(h)' /\ DepthOf(h)'
  <2>1. \A k \in 1 .. Depth : Calls(k, h) => ~Empty(k) /\ k \in Activations(cstack)
    BY <1>1, NoneUnwound DEF Executing, Calls, Activations, Depth
  <2>2. \A k \in 1 .. Depth : Calls(k, h) => cstack[k].si # s
    BY <1>2, <2>1
  <2>3. \A k \in 1 .. Depth : Calls(k, h) /\ Empty(k) => OnItsWay(k)'
    BY <2>1
  <2>4. Carried(h)
    BY <1>4, OthersCarried
  <2>5. QED  BY <1>1, <1>3, <1>7, <2>2, <2>3, <2>4, BesideKept
<1>10. QED  BY <1>8, <1>9 DEF BodiesOK

\* The current block is that of one activation only, and of no suspended generator.
LEMMA CurApart ==
    ASSUME IndInv, NEW m \in Activations(cstack), cur = cstack[m].si
    PROVE  /\ m \in 1 .. Depth /\ cur \in SI /\ cxs[cur] \in Seq(Context)
           /\ DOMAIN cxs[cur] = 1 .. Len(cxs[cur]) /\ Len(cxs[cur]) \in Nat
           /\ \A k \in Activations(cstack) : k # m => cstack[k].si # cur
           /\ \A h \in Generators : gen[h].state = "YIELDED" => gen[h].si # cur
<1>1. m \in 1 .. Depth /\ cur \in SI
  BY Facts
<1>2. cxs[cur] \in Seq(Context)
  BY <1>1 DEF IndInv, TypeOK
<1>3. DOMAIN cxs[cur] = 1 .. Len(cxs[cur]) /\ Len(cxs[cur]) \in Nat
  <2> HIDE DEF Context
  <2> QED  BY <1>2, LenProperties
<1>4. \A k \in Activations(cstack) : k # m => cstack[k].si # cur
  BY DEF IndInv, OnPath
<1>5. \A h \in Generators : gen[h].state = "YIELDED" => gen[h].si # cur
  BY DEF IndInv, ParkedOK, FlagsOK, SetAside
<1>6. QED  BY <1>1, <1>2, <1>3, <1>4, <1>5

\* The stack of the current block is written.
LEMMA CurWritten ==
    ASSUME IndInv, BodiesOK, NEW m \in Activations(cstack), cur = cstack[m].si,
           NEW stack \in Seq(Context), cxs' = [cxs EXCEPT ![cur] = stack],
           \A g \in Generators : Carried(g),
           \A k \in 1 .. Depth' : \/ k \in 1 .. Depth /\ cstack'[k] = cstack[k]
                                  \/ cstack'[k].kind = "docatch",
           \A g \in Generators, k \in 1 .. Depth : Calls(k, g) /\ Empty(k) => OnItsWay(k)',
           cstack[m].kind # "resume" => OnlyEvalsAbove(stack, 0) /\ depth' = depth,
           \A g \in Generators : Calls(m, g) =>
               /\ \/ stack = <<>> /\ OnItsWay(m)'
                  \/ BodyStack(stack, g) /\ stack[1].env = m
               /\ Alone(g) => depth'[BodyOf[g]] = IF stack = <<>> THEN 0 ELSE 1
               /\ Alone(g) /\ stack # <<>> => stack[2].old = 0
               /\ \A b \in Bodies \ {BodyOf[g]} : depth'[b] = depth[b]
    PROVE  BodiesOK'
<1>1. /\ m \in 1 .. Depth /\ cur \in SI
      /\ \A k \in Activations(cstack) : k # m => cstack[k].si # cur
      /\ \A h \in Generators : gen[h].state = "YIELDED" => gen[h].si # cur
  BY CurApart
<1>2. cxs'[cur] = stack /\ \A t \in SI : t # cur => cxs'[t] = cxs[t]
  BY <1>1, CxsUpdate DEF IndInv
<1>3. PlainOK'
  <2>1. ASSUME NEW k \in 1 .. Depth', cstack'[k].kind \in {"main", "callback"}
        PROVE  OnlyEvalsAbove(cxs'[cstack'[k].si], 0)
    <3>1. k \in 1 .. Depth /\ cstack'[k] = cstack[k]
      BY <2>1
    <3>2. k \in Activations(cstack) /\ cstack[k].si \in SI
      BY <2>1, <3>1, Typing DEF IndInv, TypeOK, Activations, Depth
    <3>3. CASE k = m
      <4>1. OnlyEvalsAbove(stack, 0)
        BY <2>1, <3>1, <3>3
      <4>2. cstack'[k].si = cur
        BY <3>1, <3>3
      <4>3. QED  BY <1>2, <4>1, <4>2
    <3>4. CASE k # m
      <4>1. cxs'[cstack'[k].si] = cxs[cstack[k].si]
        BY <1>1, <1>2, <3>1, <3>2, <3>4
      <4>2. QED  BY <2>1, <3>1, <4>1 DEF BodiesOK, PlainOK
    <3>5. QED  BY <3>3, <3>4
  <2>2. QED  BY <2>1 DEF PlainOK, OnlyEvalsAbove
<1>4. ASSUME NEW g \in Generators, ~Calls(m, g)  PROVE StacksOf(g)' /\ DepthOf(g)'
  <2>1. \A k \in 1 .. Depth : Calls(k, g) => k # m /\ k \in Activations(cstack)
    BY <1>4 DEF Calls, Activations, Depth
  <2>2. \A k \in 1 .. Depth : Calls(k, g) => cstack[k].si # cur
    BY <1>1, <2>1
  <2>3. Alone(g) => depth'[BodyOf[g]] = depth[BodyOf[g]]
    <3>1. CASE cstack[m].kind # "resume"
      BY <3>1
    <3>2. CASE cstack[m].kind = "resume"
      <4>1. PICK h \in Generators : Calls(m, h)
        BY <1>1, <3>2, Frames DEF Calls
      <4>2. h # g
        BY <1>4, <4>1
      <4>3. QED  BY <4>1, <4>2, GeneratorAssumption DEF Alone
    <3>3. QED  BY <3>1, <3>2
  <2>4. gen[g].state = "YIELDED" => gen[g].si # cur
    BY <1>1
  <2>5. /\ Carried(g)
        /\ \A k \in 1 .. Depth : Calls(k, g) /\ Empty(k) => OnItsWay(k)'
    OBVIOUS
  <2>6. QED  BY ONLY IndInv, BodiesOK, <1>2, <2>2, <2>3, <2>4, <2>5, BesideKept
<1>5. ASSUME NEW g \in Generators, Calls(m, g)  PROVE StacksOf(g)' /\ DepthOf(g)'
  <2>1. gen[g].state = "RUNNING" /\ \A k \in 1 .. Depth : Calls(k, g) => k = m
    BY <1>1, <1>5, Frames DEF Calls
  <2>2. /\ gen'[g].state = "RUNNING" /\ gen'[g].evalActive = gen[g].evalActive
        /\ m \in 1 .. Depth' /\ cstack'[m] = cstack[m]
        /\ \A k \in 1 .. Depth' : Calls(k, g)' => k \in 1 .. Depth /\ cstack'[k] = cstack[k]
    BY <1>1, <1>5, <2>1 DEF Carried
  <2>3. \A k \in 1 .. Depth' : Calls(k, g)' => k = m /\ cxs'[cstack'[k].si] = stack
    BY <1>2, <2>1, <2>2 DEF Calls
  <2>4. gen[g].evalActive
    BY <2>1 DEF BodiesOK, StacksOf
  <2>5. Empty(m)' <=> stack = <<>>
    BY <1>2, <2>2 DEF Empty
  <2>6. StacksOf(g)'
    <3>1. ASSUME NEW k \in 1 .. Depth', Calls(k, g)'
          PROVE  \/ Empty(k)' /\ OnItsWay(k)'
                 \/ BodyStack(cxs'[cstack'[k].si], g) /\ cxs'[cstack'[k].si][1].env = k
      BY <1>5, <2>3, <2>5, <3>1
    <3>2. QED  BY <2>2, <2>4, <3>1 DEF StacksOf, BodyStack, OnlyEvalsAbove
  <2>7. DepthOf(g)'
    <3>1. InBody(g)' <=> stack # <<>>
      <4>1. Calls(m, g)'
        BY <1>5, <2>2 DEF Calls
      <4>2. QED  BY <2>2, <2>3, <2>5, <4>1 DEF InBody, Empty
    <3>2. \A k \in 1 .. Depth' : Calls(k, g)' /\ ~Empty(k)' => stack # <<>> /\ cxs'[cstack'[k].si] = stack
      BY <2>3, <2>5
    <3>3. QED  BY <1>5, <2>2, <3>1, <3>2 DEF DepthOf, Alone
  <2>8. QED  BY <2>6, <2>7
<1>6. QED  BY <1>3, <1>4, <1>5 DEF BodiesOK

\* Evals come and go.
LEMMA EvalBodies ==
    ASSUME IndInv, BodiesOK, EnterEval \/ LeaveEval  PROVE BodiesOK'
<1>1. Executing /\ UNCHANGED <<gen, chain, hook, gvav, depth, exc, status>>
  BY DEF EnterEval, LeaveEval
<1>2. Loop \in Activations(cstack) /\ cur = cstack[Loop].si /\ Depth \in Nat
  BY <1>1, Innermost, Facts
<1>3. PICK m \in Activations(cstack) : m = Loop
  BY <1>2
<1>4. m \in 1 .. Depth /\ cur \in SI /\ cxs[cur] \in Seq(Context)
      /\ DOMAIN cxs[cur] = 1 .. Len(cxs[cur]) /\ Len(cxs[cur]) \in Nat
  BY <1>2, <1>3, CurApart
<1>5. \A g \in Generators, k \in 1 .. Depth : Calls(k, g) => ~Empty(k)
  BY <1>1, NoneUnwound DEF Executing
<1>6. ASSUME NEW g \in Generators, Calls(m, g)
      PROVE  /\ BodyStack(cxs[cur], g) /\ cxs[cur][1].env = m
             /\ Alone(g) => cxs[cur][2].old = 0 /\ depth[BodyOf[g]] = 1
  BY <1>1, <1>2, <1>3, <1>4, <1>6, NoneUnwound DEF Executing
<1>7. cstack[m].kind # "resume" => OnlyEvalsAbove(cxs[cur], 0)
  <2>1. cstack[m].kind \in {"main", "callback", "resume"}
    BY <1>4, Typing DEF IndInv, TypeOK, Activations, Depth, Kinds
  <2>2. QED  BY <1>2, <1>3, <1>4, <2>1 DEF BodiesOK, PlainOK
<1> DEFINE Fits(t, g) ==
        /\ \/ t = <<>> /\ OnItsWay(m)'
           \/ BodyStack(t, g) /\ t[1].env = m
        /\ Alone(g) => depth'[BodyOf[g]] = IF t = <<>> THEN 0 ELSE 1
        /\ Alone(g) /\ t # <<>> => t[2].old = 0
        /\ \A b \in Bodies \ {BodyOf[g]} : depth'[b] = depth[b]
<1> HIDE DEF Fits
<1>8. CASE LeaveEval
  <2> DEFINE n == Len(cxs[cur])
             t == SubSeq(cxs[cur], 1, n - 1)
  <2>1. n \in 1 .. n /\ cxs[cur][n].type = "EVAL" /\ cxs' = [cxs EXCEPT ![cur] = t]
        /\ cstack' = cstack /\ Depth' = Depth
    BY <1>4, <1>8 DEF LeaveEval, Depth
  <2>2. /\ OnlyEvalsAbove(cxs[cur], 0) => OnlyEvalsAbove(t, 0)
        /\ \A g : BodyStack(cxs[cur], g) =>
              BodyStack(t, g) /\ t[1] = cxs[cur][1] /\ t[2] = cxs[cur][2] /\ t # <<>>
    BY <1>4, <2>1, EvalPopped
  <2>3. t \in Seq(Context)
    <3> HIDE DEF Context
    <3> QED  BY <1>4, <2>1, StackCut
  <2>4. \A g \in Generators : Carried(g)
    <3>1. Within
      BY <1>1, <2>1, StayMoves DEF Healthy, Executing
    <3>2. QED  BY <3>1, OthersCarried
  <2> HIDE DEF t, n
  <2>5. \A k \in 1 .. Depth' : k \in 1 .. Depth /\ cstack'[k] = cstack[k]
    BY <2>1
  <2>6. \A x \in Generators, k \in 1 .. Depth : Calls(k, x) /\ Empty(k) => OnItsWay(k)'
    BY <1>5
  <2>7. cstack[m].kind # "resume" => OnlyEvalsAbove(t, 0) /\ depth' = depth
    BY <1>1, <1>7, <2>2
  <2>8. \A g \in Generators : Calls(m, g) => Fits(t, g)
    <3>1. SUFFICES ASSUME NEW g \in Generators, Calls(m, g)  PROVE Fits(t, g)
      OBVIOUS
    <3>2. BodyStack(cxs[cur], g) /\ cxs[cur][1].env = m
      BY <1>6, <3>1
    <3>3. BodyStack(t, g) /\ t[1] = cxs[cur][1] /\ t[2] = cxs[cur][2] /\ t # <<>>
      BY <2>2, <2>3, <3>2
    <3>4. Alone(g) => cxs[cur][2].old = 0 /\ depth[BodyOf[g]] = 1
      BY <1>6, <3>1
    <3>5. depth' = depth
      BY <1>1
    <3>6. QED  BY <3>2, <3>3, <3>4, <3>5 DEF Fits
  <2>9. cur = cstack[m].si /\ cxs' = [cxs EXCEPT ![cur] = t]
    BY <1>2, <1>3, <2>1
  <2>10. QED
    BY ONLY IndInv, BodiesOK, m \in Activations(cstack), <2>3, <2>4, <2>5, <2>6, <2>7, <2>8, <2>9, CurWritten
       DEF Fits
<1>9. CASE EnterEval
  <2>1. PICK e \in Context : e.type = "EVAL" /\ cxs' = [cxs EXCEPT ![cur] = Append(cxs[cur], e)]
    <3> DEFINE e == EvalContext("EVAL", IF CatchGet THEN Depth + 1 ELSE TopEnv)
    <3>1. e.type = "EVAL"
      BY DEF EvalContext
    <3>2. cxs' = [cxs EXCEPT ![cur] = Append(cxs[cur], e)]
      BY <1>9 DEF EnterEval
    <3>3. e \in Context
      <4>1. TopEnv \in FrameIndex
        BY Facts DEF FrameIndex
      <4>2. CatchGet => Depth + 1 \in FrameIndex
        BY <1>9, Facts DEF EnterEval, FrameIndex
      <4>3. QED  BY <4>1, <4>2 DEF EvalContext, Context, EvalContexts, EvalTypes
    <3> HIDE DEF e
    <3>4. QED  BY <3>1, <3>2, <3>3
  <2> DEFINE t == Append(cxs[cur], e)
  <2>2. /\ OnlyEvalsAbove(cxs[cur], 0) => OnlyEvalsAbove(t, 0)
        /\ \A g : BodyStack(cxs[cur], g) =>
              BodyStack(t, g) /\ t[1] = cxs[cur][1] /\ t[2] = cxs[cur][2]
    <3>1. \A n \in Nat : OnlyEvalsAbove(cxs[cur], n) =>
             /\ OnlyEvalsAbove(t, n)
             /\ \A g : BodyStack(cxs[cur], g) =>
                   BodyStack(t, g) /\ t[1] = cxs[cur][1] /\ t[2] = cxs[cur][2]
      BY <1>4, <2>1, EvalPushed
    <3> HIDE DEF t
    <3>2. QED  BY <3>1 DEF BodyStack
  <2>3. t \in Seq(Context) /\ t # <<>>
    <3> HIDE DEF Context
    <3>1. t \in Seq(Context) /\ Len(t) = Len(cxs[cur]) + 1
      BY <1>4, <2>1, AppendProperties
    <3>2. Len(t) # 0
      BY <1>4, <3>1
    <3>3. QED  BY <3>1, <3>2
  <2>4. \/ cstack' = cstack
        \/ Depth < MaxFrames /\ cstack' = Append(cstack, NewFrame("docatch", Nobody, cur))
    BY <1>9 DEF EnterEval
  <2>5. Within
    <3>1. Healthy /\ Healthy'
      BY <1>1 DEF Healthy, Executing
    <3>2. QED  BY <1>1, <1>4, <2>4, <3>1, StayMoves, NestMoves
  <2>6. \A g \in Generators : Carried(g)
    BY <2>5, OthersCarried
  <2>7. \A k \in 1 .. Depth' : \/ k \in 1 .. Depth /\ cstack'[k] = cstack[k]
                               \/ cstack'[k].kind = "docatch"
    <3>1. CASE cstack' = cstack
      BY <3>1 DEF Depth
    <3>2. CASE Depth < MaxFrames /\ cstack' = Append(cstack, NewFrame("docatch", Nobody, cur))
      <4> DEFINE f == NewFrame("docatch", Nobody, cur)
      <4>1. f.kind = "docatch"
        BY DEF NewFrame
      <4>2. Grown(cstack, cstack') /\ cstack'[Depth + 1] = f
        <5>1. "docatch" \in {"resume", "docatch", "callback"} /\ Nobody \in Generators \cup {Nobody}
          OBVIOUS
        <5>2. QED  BY <1>4, <3>2, <5>1, NewFrameLemma
      <4> HIDE DEF f
      <4>3. Depth' = Depth + 1 /\ \A k \in 1 .. Depth : cstack'[k] = cstack[k]
        BY <4>2 DEF Grown, Depth
      <4>4. \A k \in 1 .. Depth' : k \in 1 .. Depth \/ k = Depth + 1
        BY <1>2, <4>3
      <4>5. QED  BY <4>1, <4>2, <4>3, <4>4
    <3>3. QED  BY <2>4, <3>1, <3>2
  <2> HIDE DEF t
  <2>8. cxs' = [cxs EXCEPT ![cur] = t]
    BY <2>1 DEF t
  <2>9. \A x \in Generators, k \in 1 .. Depth : Calls(k, x) /\ Empty(k) => OnItsWay(k)'
    BY <1>5
  <2>10. cstack[m].kind # "resume" => OnlyEvalsAbove(t, 0) /\ depth' = depth
    BY <1>1, <1>7, <2>2
  <2>11. \A g \in Generators : Calls(m, g) => Fits(t, g)
    <3>1. SUFFICES ASSUME NEW g \in Generators, Calls(m, g)  PROVE Fits(t, g)
      OBVIOUS
    <3>2. BodyStack(cxs[cur], g) /\ cxs[cur][1].env = m
      BY <1>6, <3>1
    <3>3. BodyStack(t, g) /\ t[1] = cxs[cur][1] /\ t[2] = cxs[cur][2] /\ t # <<>>
      BY <2>2, <2>3, <3>2
    <3>4. Alone(g) => cxs[cur][2].old = 0 /\ depth[BodyOf[g]] = 1
      BY <1>6, <3>1
    <3>5. depth' = depth
      BY <1>1
    <3>6. QED  BY <3>2, <3>3, <3>4, <3>5 DEF Fits
  <2>12. cur = cstack[m].si /\ cxs' = [cxs EXCEPT ![cur] = t]
    BY <1>2, <1>3, <2>8
  <2>13. QED
    BY ONLY IndInv, BodiesOK, m \in Activations(cstack), <2>3, <2>6, <2>7, <2>9, <2>10, <2>11, <2>12, CurWritten
       DEF Fits
<1>10. QED  BY <1>8, <1>9

\* A body comes to its end.
LEMMA FinishBodies ==
    ASSUME IndInv, BodiesOK, Finish  PROVE BodiesOK'
<1>1. Executing /\ hook # 0 /\ hook = Loop /\ Len(cxs[cur]) = 2
      /\ cxs' = [cxs EXCEPT ![cur] = <<>>] /\ depth' = UnwoundDepth(cxs[cur], 0)
  BY DEF Finish
<1>2. Returned
  BY FinishMoves
<1>3. PICK x \in Generators : x = Running
  BY <1>2, NoFrameLeft
<1>4. /\ hook \in 1 .. Depth /\ Calls(hook, x) /\ Depth \in Nat
      /\ \A k \in 1 .. Depth' : k \in 1 .. Depth /\ k < hook /\ cstack'[k] = cstack[k]
      /\ \A k \in 1 .. Depth, g \in Generators : Calls(k, g) /\ g # x => k < hook
      /\ \A k \in 1 .. Depth' : cstack'[k].kind = "resume" => cstack'[k].gen # x
  BY <1>2, <1>3, NoFrameLeft
<1>5. hook \in Activations(cstack) /\ cur = cstack[hook].si
  BY <1>1, Innermost, HookRun
<1>6. /\ cur \in SI /\ DOMAIN cxs[cur] = 1 .. Len(cxs[cur]) /\ Len(cxs[cur]) \in Nat
      /\ \A k \in Activations(cstack) : k # hook => cstack[k].si # cur
      /\ \A h \in Generators : gen[h].state = "YIELDED" => gen[h].si # cur
  BY <1>5, CurApart
<1>7. BodyStack(cxs[cur], x) /\ (Alone(x) => cxs[cur][2].old = 0)
  BY <1>1, <1>4, <1>5, NoneUnwound DEF Executing
<1>8. depth' = [depth EXCEPT ![BodyOf[x]] = cxs[cur][2].old]
  BY <1>1, <1>6, <1>7, BodyUnwound
<1>9. depth \in [Bodies -> Nat] /\ BodyOf \in [Generators -> Bodies] /\ cxs \in [SI -> Seq(Context)]
  BY GeneratorAssumption DEF IndInv, TypeOK
<1>10. \A t \in SI : t # cur => cxs'[t] = cxs[t]
  BY <1>1, <1>9
<1>11. StacksOf(x)' /\ DepthOf(x)'
  <2>1. gen'[x].state = "EXHAUSTED"
    BY <1>3 DEF Finish, IndInv, TypeOK, GenRecord
  <2>2. Alone(x) => depth'[BodyOf[x]] = 0
    BY <1>7, <1>8, <1>9
  <2>3. \A k \in 1 .. Depth' : ~Calls(k, x)'
    BY <1>4 DEF Calls
  <2>4. QED  BY <2>1, <2>2, <2>3, RestingThen
<1>12. ASSUME NEW g \in Generators \ {x}  PROVE StacksOf(g)' /\ DepthOf(g)'
  <2>1. Carried(g)
    BY <1>2, <1>3, OthersCarried
  <2>2. \A k \in 1 .. Depth : Calls(k, g) => ~Empty(k) /\ k \in Activations(cstack) /\ k # hook
    BY <1>1, <1>4, NoneUnwound DEF Executing, Calls, Activations, Depth
  <2>3. \A k \in 1 .. Depth : Calls(k, g) => cstack[k].si # cur
    BY <1>6, <2>2
  <2>4. \A k \in 1 .. Depth : Calls(k, g) /\ Empty(k) => OnItsWay(k)'
    BY <2>2
  <2>5. Alone(g) => depth'[BodyOf[g]] = depth[BodyOf[g]]
    BY <1>8, <1>9 DEF Alone
  <2>6. gen[g].state = "YIELDED" => gen[g].si # cur
    BY <1>6
  <2>7. QED  BY <1>10, <2>1, <2>3, <2>4, <2>5, <2>6, BesideKept
<1>13. PlainOK'
  <2>1. ASSUME NEW k \in 1 .. Depth', cstack'[k].kind \in {"main", "callback"}
        PROVE  cxs'[cstack'[k].si] = cxs[cstack[k].si] /\ k \in 1 .. Depth /\ cstack'[k] = cstack[k]
    <3>1. k \in 1 .. Depth /\ k # hook /\ cstack'[k] = cstack[k]
      BY <1>4
    <3>2. k \in Activations(cstack) /\ cstack[k].si \in SI
      BY <2>1, <3>1, Typing DEF IndInv, TypeOK, Activations, Depth
    <3>3. QED  BY <1>6, <1>10, <3>1, <3>2
  <2>2. QED  BY <2>1 DEF PlainOK, BodiesOK, OnlyEvalsAbove
<1>14. QED  BY <1>11, <1>12, <1>13 DEF BodiesOK

\* An exception looks for an eval, and unwinds stacks.
LEMMA UnwindBodies ==
    ASSUME IndInv, BodiesOK, UnwindPop \/ UnwindFound \/ UnwindMain  PROVE BodiesOK'
<1>1. /\ status = "running" /\ exc.stage = "unwind"
      /\ UNCHANGED <<gen, cstack, hook, status>> /\ Depth' = Depth
  BY DEF UnwindPop, UnwindFound, UnwindMain, Depth
<1>2. exc'.stage # "none" /\ exc \in Exception
  BY DEF UnwindPop, UnwindFound, UnwindMain, IndInv, TypeOK, Exception
<1>3. \A g \in Generators : Carried(g)
  <2>1. Within
    BY <1>1, <1>2, StayMoves DEF Healthy, Executing
  <2>2. QED  BY <2>1, OthersCarried
<1>4. PICK m \in Activations(cstack) : cur = cstack[m].si
  BY DEF IndInv, CurOK
<1>5. m \in 1 .. Depth /\ cur \in SI /\ cxs[cur] \in Seq(Context)
      /\ DOMAIN cxs[cur] = 1 .. Len(cxs[cur]) /\ Len(cxs[cur]) \in Nat
  BY <1>4, CurApart
<1>6. ASSUME NEW g \in Generators, NEW k \in 1 .. Depth, Calls(k, g), Empty(k)
      PROVE  exc.kind = "exit" /\ OnItsWay(k)'
  <2>1. exc.kind = "exit"
    BY <1>1, <1>6 DEF BodiesOK, StacksOf, OnItsWay, BodyStack, Empty
  <2>2. exc'.kind = "exit"
    BY <1>2, <2>1 DEF UnwindPop, UnwindFound, UnwindMain, Exception
  <2>3. QED  BY <1>2, <2>1, <2>2 DEF OnItsWay
<1>7. ASSUME NEW g \in Generators, Calls(m, g), cxs[cur] # <<>>
      PROVE  /\ BodyStack(cxs[cur], g) /\ cxs[cur][1].env = m
             /\ Alone(g) => cxs[cur][2].old = 0 /\ depth[BodyOf[g]] = 1
             /\ \A b \in Bodies \ {BodyOf[g]} : [depth EXCEPT ![BodyOf[g]] = cxs[cur][2].old][b] = depth[b]
             /\ [depth EXCEPT ![BodyOf[g]] = cxs[cur][2].old][BodyOf[g]] = cxs[cur][2].old
             /\ \A n \in Nat : UnwoundDepth(cxs[cur], n) =
                   IF n < 2 THEN [depth EXCEPT ![BodyOf[g]] = cxs[cur][2].old] ELSE depth
  <2>1. ~Empty(m) /\ InBody(g) /\ StacksOf(g) /\ DepthOf(g)
    BY <1>4, <1>5, <1>7 DEF Empty, InBody, BodiesOK
  <2>2. BodyStack(cxs[cur], g) /\ cxs[cur][1].env = m
    BY <1>4, <1>5, <1>7, <2>1 DEF StacksOf
  <2>3. Alone(g) => cxs[cur][2].old = 0 /\ depth[BodyOf[g]] = 1
    BY <1>4, <1>5, <1>7, <2>1 DEF DepthOf
  <2>4. \A n \in Nat : UnwoundDepth(cxs[cur], n) =
           IF n < 2 THEN [depth EXCEPT ![BodyOf[g]] = cxs[cur][2].old] ELSE depth
    BY <1>5, <2>2, BodyUnwound
  <2>5. depth \in [Bodies -> Nat] /\ BodyOf[g] \in Bodies
    BY GeneratorAssumption DEF IndInv, TypeOK
  <2>6. QED  BY <2>2, <2>3, <2>4, <2>5
<1>8. cstack[m].kind # "resume" =>
         OnlyEvalsAbove(cxs[cur], 0) /\ \A n \in Nat : UnwoundDepth(cxs[cur], n) = depth
  <2>1. cstack[m].kind \in {"main", "callback", "resume"}
    BY <1>5, Typing DEF IndInv, TypeOK, Activations, Depth, Kinds
  <2>2. cstack[m].kind # "resume" => OnlyEvalsAbove(cxs[cur], 0)
    BY <1>4, <1>5, <2>1 DEF BodiesOK, PlainOK
  <2>3. DOMAIN cxs[cur] \subseteq Nat \ {0}
    BY <1>5
  <2>4. QED  BY <2>2, <2>3, EvalsUnwound
<1>9. <<>> \in Seq(Context) /\ OnlyEvalsAbove(<<>>, 0)
  <2>1. OnlyEvalsAbove(<<>>, 0)
    BY DEF OnlyEvalsAbove
  <2> HIDE DEF Context
  <2>2. QED  BY <2>1
<1>10. CASE UnwindMain
  <2>1. cxs' = [cxs EXCEPT ![cur] = <<>>] /\ depth' = depth
    BY <1>10 DEF UnwindMain
  <2>2. chain.prev[cur] = NULL
    BY <1>10, Facts DEF UnwindMain, Linked, DoublyLinked
  <2>3. cstack[m].kind # "resume"
    <3>1. m = 1
      <4>1. m # 1 => chain.prev[cstack[m].si] \in SI
        BY <1>5, Typing DEF IndInv, OnPath, TypeOK, Depth
      <4>2. NULL \notin SI
        BY DEF NULL, SI
      <4>3. QED  BY <1>4, <2>2, <4>1, <4>2
    <3>2. QED  BY <1>5, <3>1 DEF IndInv, WellFramed, FrameOK, Depth
  <2>4. \A g \in Generators : ~Calls(m, g)
    BY <2>3 DEF Calls
  <2>5. \A k \in 1 .. Depth' : k \in 1 .. Depth /\ cstack'[k] = cstack[k]
    BY <1>1
  <2>6. QED  BY <1>3, <1>4, <1>6, <1>9, <2>1, <2>4, <2>5, CurWritten
<1>11. CASE UnwindPop
  <2>1. cxs' = [cxs EXCEPT ![cur] = <<>>] /\ depth' = UnwoundDepth(cxs[cur], 0) /\ exc' = exc
    BY <1>11 DEF UnwindPop
  <2>2. ASSUME NEW g \in Generators, Calls(m, g)
        PROVE  /\ OnItsWay(m)'
               /\ Alone(g) => depth'[BodyOf[g]] = 0
               /\ \A b \in Bodies \ {BodyOf[g]} : depth'[b] = depth[b]
    <3>1. exc.kind = "exit"
      <4>1. CASE cxs[cur] = <<>>
        BY <1>4, <1>5, <1>6, <2>2, <4>1 DEF Empty
      <4>2. CASE cxs[cur] # <<>>
        <5>0. BodyStack(cxs[cur], g)
          BY <1>7, <2>2, <4>2
        <5>1. 1 \in DOMAIN cxs[cur] /\ cxs[cur][1].type = "FAKE"
          BY <1>5, <5>0 DEF BodyStack
        <5>2. EvalsOn(cur) # {}
          BY <5>1 DEF EvalsOn, EvalTypes
        <5>3. QED  BY <1>2, <1>11, <5>2 DEF UnwindPop, Exception
      <4>3. QED  BY <4>1, <4>2
    <3>2. OnItsWay(m)'
      BY <1>1, <2>1, <3>1 DEF OnItsWay
    <3>3. CASE cxs[cur] = <<>>
      <4>1. depth' = depth
        <5>1. BodiesAbove(cxs[cur], 0) = {}
          BY <3>3 DEF BodiesAbove
        <5>2. QED  BY <2>1, <5>1 DEF UnwoundDepth
      <4>2. ~InBody(g)
        <5>1. gen[g].state = "RUNNING" /\ \A k \in 1 .. Depth : Calls(k, g) => k = m
          BY <1>5, <2>2, Frames DEF Calls
        <5>2. QED  BY <1>4, <3>3, <5>1 DEF InBody, Empty
      <4>3. QED  BY <3>2, <4>1, <4>2 DEF BodiesOK, DepthOf
    <3>4. CASE cxs[cur] # <<>>
      <4>1. 0 \in Nat /\ 0 < 2
        OBVIOUS
      <4>2. depth' = [depth EXCEPT ![BodyOf[g]] = cxs[cur][2].old]
        BY <1>7, <2>1, <2>2, <3>4, <4>1
      <4>3. QED  BY <1>7, <2>2, <3>2, <3>4, <4>2
    <3>5. QED  BY <3>3, <3>4
  <2>3. cstack[m].kind # "resume" => depth' = depth
    BY <1>8, <2>1
  <2>4. \A k \in 1 .. Depth' : k \in 1 .. Depth /\ cstack'[k] = cstack[k]
    BY <1>1
  <2>5. QED  BY <1>3, <1>4, <1>6, <1>9, <2>1, <2>2, <2>3, <2>4, CurWritten
<1>12. CASE UnwindFound
  <2>1. PICK i \in EvalsOn(cur) :
           /\ exc' = [exc EXCEPT !.stage = "jump", !.env = cxs[cur][i].env,
                                 !.uncaught = cxs[cur][i].type = "FAKE"]
           /\ depth' = UnwoundDepth(cxs[cur], i)
           /\ cxs' = [cxs EXCEPT ![cur] = SubSeq(cxs[cur], 1, i - 1)]
    BY <1>12 DEF UnwindFound
  <2> DEFINE t == SubSeq(cxs[cur], 1, i - 1)
  <2>2. i \in 1 .. Len(cxs[cur]) /\ i \in Nat /\ cxs[cur][i].type \in EvalTypes /\ cxs[cur] # <<>>
    BY <1>5, <2>1 DEF EvalsOn
  <2>3. t \in Seq(Context)
    <3> HIDE DEF Context
    <3> QED  BY <1>5, <2>2, StackCut
  <2>4. exc'.stage = "jump" /\ exc'.env = cxs[cur][i].env
    BY <1>2, <2>1 DEF Exception
  <2>5. cxs[cur][i].type = "EVAL" =>
           /\ OnlyEvalsAbove(cxs[cur], 0) => OnlyEvalsAbove(t, 0)
           /\ \A g : BodyStack(cxs[cur], g) =>
                 BodyStack(t, g) /\ t[1] = cxs[cur][1] /\ t[2] = cxs[cur][2] /\ t # <<>>
    BY <1>5, <2>2, EvalPopped
  <2>6. cxs[cur][i].type \in {"EVAL", "FAKE"}
    BY <2>2 DEF EvalTypes
  <2>7. cstack[m].kind # "resume" => OnlyEvalsAbove(t, 0) /\ depth' = depth
    <3>1. SUFFICES ASSUME cstack[m].kind # "resume"  PROVE OnlyEvalsAbove(t, 0) /\ depth' = depth
      OBVIOUS
    <3>2. OnlyEvalsAbove(cxs[cur], 0) /\ depth' = depth
      BY <1>8, <2>1, <2>2, <3>1
    <3>3. cxs[cur][i].type = "EVAL"
      BY <1>5, <2>2, <3>2 DEF OnlyEvalsAbove
    <3> HIDE DEF t
    <3>4. QED  BY <2>5, <3>2, <3>3
  <2>8. ASSUME NEW g \in Generators, Calls(m, g)
        PROVE  /\ \/ t = <<>> /\ OnItsWay(m)'
                  \/ BodyStack(t, g) /\ t[1].env = m
               /\ Alone(g) => depth'[BodyOf[g]] = IF t = <<>> THEN 0 ELSE 1
               /\ Alone(g) /\ t # <<>> => t[2].old = 0
               /\ \A b \in Bodies \ {BodyOf[g]} : depth'[b] = depth[b]
    <3>1. /\ BodyStack(cxs[cur], g) /\ cxs[cur][1].env = m
          /\ Alone(g) => cxs[cur][2].old = 0 /\ depth[BodyOf[g]] = 1
          /\ \A b \in Bodies \ {BodyOf[g]} : [depth EXCEPT ![BodyOf[g]] = cxs[cur][2].old][b] = depth[b]
          /\ [depth EXCEPT ![BodyOf[g]] = cxs[cur][2].old][BodyOf[g]] = cxs[cur][2].old
          /\ depth' = IF i < 2 THEN [depth EXCEPT ![BodyOf[g]] = cxs[cur][2].old] ELSE depth
      BY <1>7, <2>1, <2>2, <2>8
    <3>2. CASE i = 1
      <4>1. t = <<>>
        <5>1. DOMAIN t = 1 .. i - 1 /\ DOMAIN t = 1 .. Len(t) /\ Len(t) \in Nat
          <6> HIDE DEF Context
          <6>1. DOMAIN t = 1 .. i - 1
            BY <1>5, <2>2, StackCut
          <6> HIDE DEF t
          <6>2. QED  BY <2>3, <6>1, LenProperties
        <5> HIDE DEF t, Context
        <5>2. Len(t) = 0
          BY <3>2, <5>1
        <5>3. QED  BY <2>3, <5>2, EmptySeq
      <4>2. OnItsWay(m)'
        BY <2>4, <3>1, <3>2 DEF OnItsWay
      <4>3. depth' = [depth EXCEPT ![BodyOf[g]] = cxs[cur][2].old]
        BY <3>1, <3>2
      <4>4. QED  BY <3>1, <4>1, <4>2, <4>3
    <3>3. CASE i # 1
      <4>1. i > 2 /\ ~(i < 2)
        <5>1. i # 2
          BY <2>6, <3>1 DEF BodyStack
        <5>2. QED  BY <2>2, <3>3, <5>1
      <4>2. cxs[cur][i].type = "EVAL"
        BY <1>5, <2>2, <3>1, <4>1 DEF BodyStack, OnlyEvalsAbove
      <4> HIDE DEF t
      <4>3. QED  BY <2>5, <3>1, <4>1, <4>2
    <3>4. QED  BY <3>2, <3>3
  <2> HIDE DEF t
  <2>9. cxs' = [cxs EXCEPT ![cur] = t]
    BY <2>1 DEF t
  <2>10. \A k \in 1 .. Depth' : k \in 1 .. Depth /\ cstack'[k] = cstack[k]
    BY <1>1
  <2>11. QED  BY <1>3, <1>4, <1>6, <2>3, <2>7, <2>8, <2>9, <2>10, CurWritten
<1>13. QED  BY <1>10, <1>11, <1>12

\* An exception arrives in generator_resume: its generator is the current one.
LEMMA FailureBodies ==
    ASSUME IndInv, BodiesOK, JumpResume, status' = "running"  PROVE BodiesOK'
<1>1. /\ status = "running" /\ exc.stage = "jump" /\ cstack[TopEnv].kind = "resume"
      /\ chain.prev[cur] # NULL
      /\ cxs' = [cxs EXCEPT ![cur] = <<>>] /\ depth' = UnwoundDepth(cxs[cur], 0)
  BY DEF JumpResume, Jumping
<1>2. Returned
  BY <1>1, JumpResumeMoves DEF Stopped, Healthy
<1>3. hook = TopEnv /\ Depth \in Nat
  BY <1>1, BoundaryAbove
<1>4. PICK x \in Generators : x = Running
  BY <1>2, NoFrameLeft
<1>5. /\ hook \in 1 .. Depth /\ Calls(hook, x)
      /\ \A k \in 1 .. Depth' : k \in 1 .. Depth /\ k < hook /\ cstack'[k] = cstack[k]
      /\ \A k \in 1 .. Depth, g \in Generators : Calls(k, g) /\ g # x => k < hook
      /\ \A k \in 1 .. Depth' : cstack'[k].kind = "resume" => cstack'[k].gen # x
  BY <1>2, <1>4, NoFrameLeft
<1>6. hook \in Activations(cstack) /\ gen[x].state = "RUNNING"
      /\ \A k \in 1 .. Depth : Calls(k, x) => k = hook
  BY <1>2, <1>4, <1>5, HookRun, Frames DEF Returned, Calls
<1>7. exc.kind = "die"
  <2>1. exc.kind = "exit" => cur = Main
    BY <1>1 DEF IndInv, DeliveryOK
  <2>2. chain.prev[Main] = NULL
    BY Facts DEF Linked, DoublyLinked
  <2>3. exc.kind \in {"die", "exit"}
    BY DEF IndInv, TypeOK, Exception
  <2>4. QED  BY <1>1, <2>1, <2>2, <2>3
<1>8. cur = cstack[hook].si /\ exc.env = hook
  <2>1. PICK m \in Activations(cstack) :
           /\ m \in 1 .. TopEnv /\ cur = cstack[m].si
           /\ \A k \in Activations(cstack) : k > m => cxs[cstack[k].si] = <<>>
           /\ exc.env \in m .. TopEnv /\ cstack[exc.env].loop = m
    BY <1>1, <1>7, JumpTarget
  <2>2. CASE m # hook
    <3>1. Empty(hook)
      BY <1>3, <1>5, <1>6, <2>1, <2>2 DEF Empty
    <3>2. exc.env = hook
      BY <1>5, <1>7, <3>1 DEF BodiesOK, StacksOf, OnItsWay, BodyStack, Empty
    <3>3. cstack[hook].loop = hook
      BY <1>5, <1>6, Framing DEF IndInv, Depth
    <3>4. QED  BY <2>1, <2>2, <3>2, <3>3
  <2>3. CASE m = hook
    BY <1>3, <1>5, <2>1, <2>3
  <2>4. QED  BY <2>2, <2>3
<1>9. /\ cur \in SI /\ DOMAIN cxs[cur] = 1 .. Len(cxs[cur]) /\ Len(cxs[cur]) \in Nat
      /\ \A k \in Activations(cstack) : k # hook => cstack[k].si # cur
      /\ \A h \in Generators : gen[h].state = "YIELDED" => gen[h].si # cur
  BY <1>6, <1>8, CurApart
<1>10. depth \in [Bodies -> Nat] /\ BodyOf \in [Generators -> Bodies] /\ cxs \in [SI -> Seq(Context)]
  BY GeneratorAssumption DEF IndInv, TypeOK
<1>11. \A t \in SI : t # cur => cxs'[t] = cxs[t]
  BY <1>1, <1>10
<1>12. /\ Alone(x) => depth'[BodyOf[x]] = 0
       /\ \A b \in Bodies \ {BodyOf[x]} : depth'[b] = depth[b]
  <2>1. CASE cxs[cur] = <<>>
    <3>1. BodiesAbove(cxs[cur], 0) = {}
      BY <2>1 DEF BodiesAbove
    <3>2. depth' = depth
      BY <1>1, <3>1 DEF UnwoundDepth
    <3>3. ~InBody(x)
      BY <1>6, <1>8, <2>1 DEF InBody, Empty
    <3>4. QED  BY <3>2, <3>3 DEF BodiesOK, DepthOf
  <2>2. CASE cxs[cur] # <<>>
    <3>1. BodyStack(cxs[cur], x) /\ (Alone(x) => cxs[cur][2].old = 0)
      BY <1>5, <1>8, <2>2 DEF BodiesOK, StacksOf, DepthOf, Empty
    <3>2. 0 \in Nat /\ 0 < 2
      OBVIOUS
    <3>3. depth' = [depth EXCEPT ![BodyOf[x]] = cxs[cur][2].old]
      BY <1>1, <1>9, <3>1, <3>2, BodyUnwound
    <3>4. QED  BY <1>10, <3>1, <3>3
  <2>3. QED  BY <2>1, <2>2
<1>13. StacksOf(x)' /\ DepthOf(x)'
  <2>1. gen'[x].state # "RUNNING" /\ gen'[x].state # "YIELDED"
    <3> DEFINE r == [gen[x] EXCEPT !.state = "FAILED", !.stackPushed = FALSE,
                                   !.evalActive = FALSE, !.si = cur,
                                   !.defav = UnwoundArray(cxs[cur], 0)]
    <3>1. gen' = [gen EXCEPT ![x] = r]
      BY <1>1, <1>3, <1>4 DEF JumpResume, Running
    <3>2. gen[x] \in GenRecord /\ DOMAIN gen = Generators
      BY DEF IndInv, TypeOK
    <3>3. r.state = "FAILED"
      BY <3>2 DEF GenRecord
    <3> HIDE DEF r
    <3>4. QED  BY <3>1, <3>2, <3>3
  <2>2. \A k \in 1 .. Depth' : ~Calls(k, x)'
    BY <1>5 DEF Calls
  <2>3. QED  BY <1>12, <2>1, <2>2, RestingThen
<1>14. ASSUME NEW g \in Generators \ {x}  PROVE StacksOf(g)' /\ DepthOf(g)'
  <2>1. Carried(g)
    BY <1>2, <1>4, OthersCarried
  <2>2. \A k \in 1 .. Depth : Calls(k, g) => k \in Activations(cstack) /\ k # hook
    BY <1>5 DEF Calls, Activations, Depth
  <2>3. \A k \in 1 .. Depth : Calls(k, g) => cstack[k].si # cur
    BY <1>9, <2>2
  <2>4. \A k \in 1 .. Depth : Calls(k, g) => ~Empty(k)
    BY <1>7, <1>8, <2>2 DEF BodiesOK, StacksOf, OnItsWay, BodyStack, Empty
  <2>5. \A k \in 1 .. Depth : Calls(k, g) /\ Empty(k) => OnItsWay(k)'
    BY <2>4
  <2>6. Alone(g) => depth'[BodyOf[g]] = depth[BodyOf[g]]
    BY <1>10, <1>12 DEF Alone
  <2>7. gen[g].state = "YIELDED" => gen[g].si # cur
    BY <1>9
  <2>8. QED  BY <1>11, <2>1, <2>3, <2>5, <2>6, <2>7, BesideKept
<1>15. PlainOK'
  <2>1. ASSUME NEW k \in 1 .. Depth', cstack'[k].kind \in {"main", "callback"}
        PROVE  cxs'[cstack'[k].si] = cxs[cstack[k].si] /\ k \in 1 .. Depth /\ cstack'[k] = cstack[k]
    <3>1. k \in 1 .. Depth /\ k # hook /\ cstack'[k] = cstack[k]
      BY <1>3, <1>5
    <3>2. k \in Activations(cstack) /\ cstack[k].si \in SI
      BY <2>1, <3>1, Typing DEF IndInv, TypeOK, Activations, Depth
    <3>3. QED  BY <1>9, <1>11, <3>1, <3>2
  <2>2. QED  BY <2>1 DEF PlainOK, BodiesOK, OnlyEvalsAbove
<1>16. QED  BY <1>13, <1>14, <1>15 DEF BodiesOK

\* Nothing is on the stacks in the initial state.
LEMMA InitDepthInv ==
    ASSUME Init  PROVE DepthInv
<1>1. IndInv
  BY InitIndInv
<1>2. /\ Depth = 1 /\ cstack[1].kind = "main" /\ cstack[1].si = Main
      /\ cxs = [s \in SI |-> <<>>] /\ depth = [b \in Bodies |-> 0]
      /\ \A g \in Generators : gen[g].state = "ABSENT"
  BY FreshGenType DEF Init, Depth, MainFrame
<1>3. \A g : \A k \in 1 .. Depth : ~Calls(k, g)
  BY <1>2 DEF Calls
<1>4. PlainOK
  <2>1. Main \in SI
    BY MaxSIAssumption DEF SI, Main
  <2>2. \A k \in 1 .. Depth : cxs[cstack[k].si] = <<>>
    BY <1>2, <2>1
  <2>3. QED  BY <2>2 DEF PlainOK, OnlyEvalsAbove
<1>5. ASSUME NEW g \in Generators  PROVE StacksOf(g) /\ DepthOf(g)
  <2>1. ~InBody(g)
    BY <1>2, <1>3 DEF InBody
  <2>2. depth[BodyOf[g]] = 0
    BY <1>2, GeneratorAssumption
  <2>3. QED  BY <1>2, <1>3, <2>1, <2>2 DEF StacksOf, DepthOf
<1>6. QED  BY <1>1, <1>4, <1>5 DEF DepthInv, BodiesOK

\* Every step keeps the contexts in order.
LEMMA NextDepthInv ==
    ASSUME DepthInv, [Next]_vars  PROVE DepthInv'
<1>1. IndInv /\ IndInv'
  BY NextIndInv DEF DepthInv
<1>2. SUFFICES ASSUME status' = "running"  PROVE BodiesOK'
  BY <1>1 DEF DepthInv
<1>3. CASE UNCHANGED vars
  <2>1. /\ gen' = gen /\ cxs' = cxs /\ cstack' = cstack /\ depth' = depth /\ exc' = exc
        /\ BodiesOK
    BY <1>2, <1>3 DEF vars, DepthInv
  <2>2. /\ Depth' = Depth
        /\ \A k : (OnItsWay(k)' <=> OnItsWay(k)) /\ (Empty(k)' <=> Empty(k))
        /\ \A k, g : Calls(k, g)' <=> Calls(k, g)
    BY <2>1 DEF Depth, OnItsWay, Empty, Calls
  <2>3. \A g : InBody(g)' <=> InBody(g)
    BY <2>1, <2>2 DEF InBody
  <2>4. PlainOK'
    BY <2>1, <2>2 DEF BodiesOK, PlainOK
  <2>5. ASSUME NEW g \in Generators  PROVE StacksOf(g)'
    BY <2>1, <2>2 DEF BodiesOK, StacksOf
  <2>6. ASSUME NEW g \in Generators  PROVE DepthOf(g)'
    BY <2>1, <2>2, <2>3 DEF BodiesOK, DepthOf
  <2>7. QED  BY <2>4, <2>5, <2>6 DEF BodiesOK
<1>4. CASE Next
  <2>1. ASSUME status = "running"  PROVE BodiesOK
    BY <2>1 DEF DepthInv
  <2>2. ASSUME NEW g \in Generators, Make(g) \/ Drop(g)  PROVE BodiesOK'
    BY <1>1, <1>2, <2>1, <2>2, RenewedBodies DEF Make, Drop, Executing
  <2>3. ASSUME NEW g \in Generators, DestructFree(g)  PROVE FALSE
    BY <1>2, <2>3 DEF DestructFree
  <2>4. ASSUME NEW g \in Generators, Start(g) \/ Resume(g)  PROVE BodiesOK'
    BY <1>1, <2>1, <2>4, CallBodies DEF Start, Resume, Executing
  <2>5. CASE Die \/ Exit \/ YieldDeferred \/ \E g \in Generators : CallRejected(g)
    BY <1>1, <2>1, <2>5, RaiseBodies DEF Die, Exit, YieldDeferred, CallRejected, Executing
  <2>6. CASE Yield
    <3>1. /\ Executing /\ hook # 0 /\ SuspendOn(chain) /\ chain.cur = cstack[hook].si
          /\ UNCHANGED <<cxs, depth, exc, status>> /\ BodiesOK
      BY <2>1, <2>6 DEF Yield, Executing, cur
    <3>2. QED  BY <1>1, <3>1, SuspendBodies
  <2>7. CASE Finish
    BY <1>1, <2>1, <2>7, FinishBodies DEF Finish, Executing
  <2>8. CASE EnterCallback
    BY <1>1, <2>1, <2>8, EnterCallbackBodies DEF EnterCallback, Executing
  <2>9. CASE LeaveCallback
    BY <1>1, <2>1, <2>9, LeaveCallbackBodies DEF LeaveCallback, Executing
  <2>10. CASE EnterEval \/ LeaveEval
    BY <1>1, <2>1, <2>10, EvalBodies DEF EnterEval, LeaveEval, Executing
  <2>11. CASE EndOfProgram
    BY <1>2, <2>11 DEF EndOfProgram
  <2>12. CASE UnwindPop \/ UnwindFound \/ UnwindMain
    BY <1>1, <2>1, <2>12, UnwindBodies DEF UnwindPop, UnwindFound, UnwindMain
  <2>13. CASE JumpDocatch
    BY <1>1, <2>1, <2>13, JumpBodies DEF JumpDocatch, Jumping
  <2>14. CASE JumpMain
    BY <1>1, <1>2, <2>1, <2>14, JumpBodies DEF JumpMain, Jumping
  <2>15. CASE JumpResume
    BY <1>1, <1>2, <2>1, <2>15, FailureBodies DEF JumpResume, Jumping
  <2>16. QED
    BY <1>4, <2>2, <2>3, <2>4, <2>5, <2>6, <2>7, <2>8, <2>9, <2>10, <2>11, <2>12, <2>13, <2>14,
       <2>15 DEF Next, Call, Free, Body, Nesting, Deliver
<1>5. QED  BY <1>3, <1>4

\* What is on the context stacks while the program runs.
THEOREM ContextInvariance == Spec => []DepthInv
<1>1. QED  BY InitDepthInv, NextDepthInv, PTL DEF Spec

\* CvDEPTH of a body that is no other generator's is one while its generator is
\* in the middle of it and zero otherwise, however the body was left: so the
\* next call finds the pad free, and none is handed out twice.
THEOREM DepthsAreRight == Spec => []DepthCountsActivations
<1>1. ASSUME DepthInv  PROVE DepthCountsActivations
  <2>1. SUFFICES ASSUME Executing, NEW g \in Generators, Alone(g)
                 PROVE  depth[BodyOf[g]] =
                            IF gen[g].state \in {"RUNNING", "YIELDED"} THEN 1 ELSE 0
    BY DEF DepthCountsActivations, Alone
  <2>2. BodiesOK /\ IndInv
    BY <1>1, <2>1 DEF DepthInv, Executing
  <2>3. CASE gen[g].state = "RUNNING"
    <3>1. PICK k \in 1 .. Depth : Calls(k, g)
      BY <2>2, <2>3 DEF IndInv, OwnedOK, Calls
    <3>2. QED  BY <2>1, <2>2, <2>3, <3>1, NoneUnwound DEF Executing
  <2>4. CASE gen[g].state = "YIELDED"
    BY <2>1, <2>2, <2>4 DEF BodiesOK, DepthOf, InBody
  <2>5. CASE gen[g].state \notin {"RUNNING", "YIELDED"}
    BY <2>1, <2>2, <2>5, RestingNow
  <2>6. QED  BY <2>3, <2>4, <2>5
<1>2. DepthInv => DepthCountsActivations
  BY <1>1
<1>3. QED  BY <1>2, ContextInvariance, PTL

-----------------------------------------------------------------------------
\* No block is lost: what the four operations on the list do to the blocks on it.

\* What is rooted depends on si_prev and on which blocks are allocated alone.
LEMMA RootedSame ==
    ASSUME NEW c, NEW d, NEW out, Rooted(c, out), d.prev = c.prev, d.used = c.used
    PROVE  Rooted(d, out)
BY DEF Rooted, Kept

\* push_stackinfo: a fresh block is one step beyond the current one.
LEMMA RootedPushed ==
    ASSUME NEW c, Linked(c), NEW out, Rooted(c, out), CanPush(c),
           c.cur \in Kept(c, out), \A s \in out : s \in SI /\ s <= c.used
    PROVE  Rooted(Pushed(c), out)
<1> DEFINE n == c.used + 1
           d == Pushed(c)
<1>1. c \in Chain /\ c.used \in SI /\ c.cur \in SI /\ MaxSI \in Nat
  BY MaxSIAssumption DEF Linked, Chain
<1>2. CASE c.next[c.cur] # NULL
  <2>1. d.prev = c.prev /\ d.used = c.used
    BY <1>1, <1>2 DEF Pushed, Chain
  <2>2. QED  BY <2>1, RootedSame
<1>3. CASE c.next[c.cur] = NULL
  <2>1. /\ d.prev = [c.prev EXCEPT ![n] = c.cur] /\ d.used = n
        /\ n \in SI
    BY <1>1, <1>3 DEF Pushed, PushTarget, CanPush, SI, NULL
  <2>2. PICK far \in [SI -> Nat] :
           \A s \in Kept(c, out) \ {Main} :
               c.prev[s] \in Kept(c, out) /\ far[c.prev[s]] < far[s]
    BY DEF Rooted
  <2>3. /\ \A s \in SI : s \in Kept(d, out) <=> s \in Kept(c, out) \/ s = n
        /\ n \notin Kept(c, out)
    <3>1. n \notin out
      BY <1>1 DEF SI
    <3>2. \A s \in SI : s <= n <=> s <= c.used \/ s = n
      BY <1>1 DEF SI
    <3>3. ~ (n <= c.used)
      BY <1>1 DEF SI
    <3>4. QED  BY <2>1, <3>1, <3>2, <3>3 DEF Kept
  <2> DEFINE farther == [far EXCEPT ![n] = far[c.cur] + 1]
  <2>4. farther \in [SI -> Nat]
    BY <1>1, <2>1, <2>2
  <2>5. ASSUME NEW s \in Kept(d, out) \ {Main}
        PROVE  d.prev[s] \in Kept(d, out) /\ farther[d.prev[s]] < farther[s]
    <3>1. s \in SI /\ c.prev \in [SI -> SI \cup {NULL}] /\ Kept(c, out) \in SUBSET SI
      BY <1>1 DEF Kept, Chain
    <3>2. CASE s = n
      <4>1. d.prev[s] = c.cur /\ c.cur # n
        BY <2>1, <2>3, <3>1, <3>2
      <4>2. c.cur \in Kept(d, out)
        BY <1>1, <2>3
      <4>3. farther[c.cur] = far[c.cur] /\ farther[n] = far[c.cur] + 1 /\ far[c.cur] \in Nat
        BY <1>1, <2>1, <2>2, <4>1
      <4>4. QED  BY <3>2, <4>1, <4>2, <4>3
    <3>3. CASE s # n
      <4>1. s \in Kept(c, out) \ {Main} /\ d.prev[s] = c.prev[s]
        BY <2>1, <2>3, <3>1, <3>3
      <4>2. c.prev[s] \in Kept(c, out) /\ far[c.prev[s]] < far[s]
        BY <2>2, <4>1
      <4>3. c.prev[s] # n /\ c.prev[s] \in SI
        BY <2>3, <3>1, <4>2
      <4>4. farther[c.prev[s]] = far[c.prev[s]] /\ farther[s] = far[s]
        BY <2>2, <3>1, <3>3, <4>3
      <4>5. QED  BY <2>3, <4>1, <4>2, <4>3, <4>4
    <3>4. QED  BY <3>2, <3>3
  <2> HIDE DEF d, farther
  <2>6. QED  BY <2>4, <2>5 DEF Rooted, d
<1>4. QED  BY <1>2, <1>3

\* S_generator_detach_stackinfo: the block behind is joined to the one in front.
LEMMA RootedDetached ==
    ASSUME NEW c, Linked(c), NEW out, Rooted(c, out), NEW s \in Kept(c, out) \ {Main}
    PROVE  Rooted(Detached(c, s), out \cup {s})
<1> DEFINE d == Detached(c, s)
           p == c.prev[s]
           n == c.next[s]
<1>1. /\ c \in Chain /\ s \in SI
      /\ d.used = c.used
      /\ \A t \in SI : t # s => d.prev[t] = IF t = n THEN p ELSE c.prev[t]
  BY DEF Linked, Kept, Detached
<1>2. PICK far \in [SI -> Nat] :
         \A t \in Kept(c, out) \ {Main} :
             c.prev[t] \in Kept(c, out) /\ far[c.prev[t]] < far[t]
  BY DEF Rooted
<1>3. \A t \in SI : t \in Kept(d, out \cup {s}) <=> t \in Kept(c, out) /\ t # s
  BY <1>1 DEF Kept
<1>4. ASSUME NEW t \in Kept(d, out \cup {s}) \ {Main}
      PROVE  d.prev[t] \in Kept(d, out \cup {s}) /\ far[d.prev[t]] < far[t]
  <2>1. t \in SI /\ Kept(c, out) \in SUBSET SI /\ \A u \in SI : far[u] \in Nat
    BY <1>2 DEF Kept
  <2>2. t \in Kept(c, out) \ {Main} /\ t # s
    BY <1>3, <2>1
  <2>3. /\ c.prev[t] \in Kept(c, out) /\ far[c.prev[t]] < far[t]
        /\ p \in Kept(c, out) /\ far[p] < far[s]
    BY <1>2, <2>2
  <2>4. c.prev[t] = s <=> t = n
    BY <1>1, <2>1 DEF Linked, DoublyLinked
  <2>5. p \in SI /\ far[p] \in Nat /\ far[s] \in Nat /\ far[t] \in Nat
    BY <1>1, <2>1, <2>3
  <2>6. CASE t = n
    <3>1. d.prev[t] = p /\ p # s /\ far[p] < far[t]
      BY <1>1, <2>1, <2>2, <2>3, <2>4, <2>5, <2>6
    <3>2. QED  BY <1>3, <2>3, <2>5, <3>1
  <2>7. CASE t # n
    <3>1. d.prev[t] = c.prev[t] /\ c.prev[t] # s /\ c.prev[t] \in SI
      BY <1>1, <2>1, <2>2, <2>3, <2>4, <2>7
    <3>2. QED  BY <1>3, <2>3, <3>1
  <2>8. QED  BY <2>6, <2>7
<1> HIDE DEF d
<1>5. QED  BY <1>4 DEF Rooted, d

\* S_generator_attach_stackinfo: far is stretched to make room for the block.
LEMMA RootedAttached ==
    ASSUME NEW c, Linked(c), NEW out, Rooted(c, out), NEW s \in out,
           s \in SI \ {Main}, s <= c.used, Isolated(c, s), c.cur \in Kept(c, out)
    PROVE  Rooted(Attached(c, s), out \ {s})
<1> DEFINE d == Attached(c, s)
           p == c.cur
           n == c.next[p]
           rest == out \ {s}
<1>1. /\ c \in Chain /\ p \in SI /\ p # s /\ s \in SI
      /\ d.used = c.used
      /\ \A t \in SI : d.prev[t] = IF t = s THEN p ELSE IF t = n THEN s ELSE c.prev[t]
  BY DEF Linked, Kept, Attached
<1>2. PICK far \in [SI -> Nat] :
         \A t \in Kept(c, out) \ {Main} :
             c.prev[t] \in Kept(c, out) /\ far[c.prev[t]] < far[t]
  BY DEF Rooted
<1>3. /\ \A t \in SI : t \in Kept(d, rest) <=> t \in Kept(c, out) \/ t = s
      /\ s \notin Kept(c, out)
  BY <1>1 DEF Kept
<1> DEFINE farther == [t \in SI |-> IF t = s THEN 2 * far[p] + 1 ELSE 2 * far[t]]
<1>4. /\ farther \in [SI -> Nat]
      /\ farther[s] = 2 * far[p] + 1 /\ \A t \in SI : t # s => farther[t] = 2 * far[t]
      /\ \A t \in SI : far[t] \in Nat
  BY <1>1, <1>2
<1>5. ASSUME NEW t \in Kept(d, rest) \ {Main}
      PROVE  d.prev[t] \in Kept(d, rest) /\ farther[d.prev[t]] < farther[t]
  <2>1. t \in SI /\ Kept(c, out) \in SUBSET SI
    BY DEF Kept
  <2> HIDE DEF farther
  <2>2. CASE t = s
    <3>1. d.prev[t] = p
      BY <1>1, <2>2
    <3>2. farther[p] = 2 * far[p] /\ far[p] \in Nat
      BY <1>1, <1>4
    <3>3. farther[p] < farther[s]
      BY <1>4, <3>2
    <3>4. p \in Kept(d, rest)
      BY <1>1, <1>3
    <3>5. QED  BY <2>2, <3>1, <3>3, <3>4
  <2>3. CASE t # s
    <3>1. t \in Kept(c, out) \ {Main}
      BY <1>3, <2>1, <2>3
    <3>2. /\ c.prev[t] \in Kept(c, out) /\ far[c.prev[t]] < far[t]
          /\ c.prev[t] \in SI /\ c.prev[t] # s
      BY <1>2, <1>3, <2>1, <3>1
    <3>3. /\ far[t] \in Nat /\ far[c.prev[t]] \in Nat /\ farther[t] = 2 * far[t]
          /\ farther[c.prev[t]] = 2 * far[c.prev[t]]
      BY <1>4, <2>1, <2>3, <3>2
    <3>4. CASE t = n
      <4>1. c.prev[t] = p /\ d.prev[t] = s
        BY <1>1, <2>1, <2>3, <3>4 DEF Linked, DoublyLinked
      <4>2. far[p] < far[t] /\ far[p] \in Nat
        BY <3>2, <3>3, <4>1
      <4>3. 2 * far[p] + 1 < 2 * far[t]
        BY <3>3, <4>2
      <4>4. QED  BY <1>1, <1>3, <1>4, <3>3, <4>1, <4>3
    <3>5. CASE t # n
      <4>1. d.prev[t] = c.prev[t]
        BY <1>1, <2>1, <2>3, <3>5
      <4>2. farther[c.prev[t]] < farther[t]
        BY <3>2, <3>3
      <4>3. QED  BY <1>3, <3>2, <4>1, <4>2
    <3>6. QED  BY <3>4, <3>5
  <2>4. QED  BY <2>2, <2>3
<1> HIDE DEF d, farther
<1>6. QED  BY <1>4, <1>5 DEF Rooted, d

-----------------------------------------------------------------------------
\* OnList is a recursive function: that it exists, and what it is.

\* A set of naturals that is not empty has a least member.
LEMMA LeastNumber ==
    ASSUME NEW S \in SUBSET Nat, S # {}
    PROVE  \E m \in S : \A n \in S : m <= n
<1> DEFINE R == {p \in Nat \X Nat : p[1] < p[2]}
<1>1. R = OpToRel(<, Nat)
  BY DEF OpToRel
<1>2. IsWellFoundedOn(R, Nat)
  BY <1>1, NatLessThanWellFounded
<1>3. \A x, y \in Nat : <<x, y>> \in R <=> x < y
  OBVIOUS
<1> HIDE DEF R
<1>4. PICK m \in S : \A n \in S : ~ (<<n, m>> \in R)
  BY <1>2, WFMin
<1>5. \A n \in S : ~ (n < m)
  BY <1>3, <1>4, Zenon
<1>6. QED  BY <1>5

\* The blocks that si_next leads to from those of a set, and the set.
Farther(R) == R \cup {s \in SI : \E t \in R : chain.next[t] = s}

\* The sets of blocks reached in 0, 1, ... n steps exist, as a function.
LEMMA LevelsExist ==
    \A n \in Nat : \E r : r = [m \in 0 .. n |-> IF m = 0 THEN {Main} ELSE Farther(r[m - 1])]
<1> DEFINE Levels(r, n) == r = [m \in 0 .. n |-> IF m = 0 THEN {Main} ELSE Farther(r[m - 1])]
           bad == {n \in Nat : ~ \E r : Levels(r, n)}
<1>1. SUFFICES ASSUME bad # {}  PROVE FALSE
  OBVIOUS
<1>2. PICK n \in bad : \A m \in bad : n <= m
  BY <1>1, LeastNumber
<1>3. n \in Nat /\ ~ \E r : Levels(r, n)
  OBVIOUS
<1>4. CASE n = 0
  <2> DEFINE r == [m \in 0 .. 0 |-> {Main}]
  <2>1. r = [m \in 0 .. 0 |-> IF m = 0 THEN {Main} ELSE Farther(r[m - 1])]
    OBVIOUS
  <2>2. Levels(r, n)
    BY <1>4, <2>1
  <2>3. QED  BY <1>3, <2>2
<1>5. CASE n # 0
  <2>1. n - 1 \in Nat /\ ~ (n <= n - 1)
    BY <1>3, <1>5
  <2>2. PICK q : Levels(q, n - 1)
    BY <1>2, <2>1
  <2> DEFINE r == [m \in 0 .. n |-> IF m = n THEN Farther(q[n - 1]) ELSE q[m]]
             e == [m \in 0 .. n |-> IF m = 0 THEN {Main} ELSE Farther(r[m - 1])]
  <2>3. ASSUME NEW m \in 0 .. n  PROVE r[m] = e[m]
    <3>1. \A k \in 0 .. n - 1 : q[k] = IF k = 0 THEN {Main} ELSE Farther(q[k - 1])
      BY <2>2
    <3>2. \A k \in 0 .. n - 1 : r[k] = q[k]
      BY <1>3
    <3>3. r[n] = Farther(q[n - 1])
      BY <1>3
    <3>4. CASE m = n
      <4>1. n - 1 \in 0 .. n - 1 /\ r[n - 1] = q[n - 1]
        BY <2>1, <3>2
      <4>2. QED  BY <1>5, <3>3, <3>4, <4>1
    <3>5. CASE m # n
      <4>1. m \in 0 .. n - 1 /\ r[m] = q[m]
        BY <1>3, <3>2, <3>5
      <4>2. m # 0 => m - 1 \in 0 .. n - 1 /\ r[m - 1] = q[m - 1]
        BY <1>3, <3>2, <4>1
      <4>3. QED  BY <3>1, <4>1, <4>2
    <3>6. QED  BY <3>4, <3>5
  <2>4. r = e
    BY <2>3
  <2>5. Levels(r, n)
    BY <2>4
  <2>6. QED  BY <1>3, <2>5
<1>6. QED  BY <1>4, <1>5

\* OnList is the last of MaxSI such steps from the main block.
LEMMA OnListIs ==
    \E r : /\ OnList = r[MaxSI]
           /\ r[0] = {Main}
           /\ \A n \in 1 .. MaxSI : r[n] = Farther(r[n - 1])
<1> DEFINE reach[n \in 0 .. MaxSI] ==
               IF n = 0 THEN {Main}
               ELSE reach[n - 1] \cup {s \in SI : \E t \in reach[n - 1] : chain.next[t] = s}
<1>1. MaxSI \in Nat
  BY MaxSIAssumption
<1>2. \E r : r = [n \in 0 .. MaxSI |->
                    IF n = 0 THEN {Main}
                    ELSE r[n - 1] \cup {s \in SI : \E t \in r[n - 1] : chain.next[t] = s}]
  BY <1>1, LevelsExist DEF Farther
<1>3. reach = [n \in 0 .. MaxSI |->
                 IF n = 0 THEN {Main}
                 ELSE reach[n - 1] \cup {s \in SI : \E t \in reach[n - 1] : chain.next[t] = s}]
  BY <1>2
<1>4. OnList = reach[MaxSI]
  BY DEF OnList
<1>5. PICK r : r = reach
  OBVIOUS
<1>6. \A R : R \cup {s \in SI : \E t \in R : chain.next[t] = s} = Farther(R)
  BY DEF Farther
<1>7. OnList = r[MaxSI]
  BY <1>4, <1>5
<1> HIDE DEF reach
<1>8. r = [n \in 0 .. MaxSI |-> IF n = 0 THEN {Main} ELSE Farther(r[n - 1])]
  BY <1>3, <1>5 DEF Farther
<1>9. \A n \in 0 .. MaxSI : r[n] = IF n = 0 THEN {Main} ELSE Farther(r[n - 1])
  BY <1>8
<1>10. r[0] = {Main}
  <2>1. 0 \in 0 .. MaxSI
    BY <1>1
  <2>2. QED  BY <1>9, <2>1
<1>11. \A n \in 1 .. MaxSI : r[n] = Farther(r[n - 1])
  <2>1. SUFFICES ASSUME NEW n \in 1 .. MaxSI  PROVE r[n] = Farther(r[n - 1])
    OBVIOUS
  <2>2. n \in 0 .. MaxSI /\ n # 0
    BY <1>1
  <2>3. QED  BY <1>9, <2>2
<1>12. QED  BY <1>7, <1>10, <1>11

\* What holds of 0 and, with a number, of the next, holds of all.
LEMMA StepByStep ==
    ASSUME NEW N \in Nat, NEW S, 0 \in S, \A n \in 1 .. N : n - 1 \in S => n \in S
    PROVE  \A n \in 0 .. N : n \in S
<1> DEFINE bad == {n \in 0 .. N : n \notin S}
<1>1. SUFFICES ASSUME bad # {}  PROVE FALSE
  OBVIOUS
<1>2. bad \in SUBSET Nat
  OBVIOUS
<1>3. PICK m \in bad : \A n \in bad : m <= n
  BY <1>1, <1>2, LeastNumber
<1>4. m \in 1 .. N /\ m - 1 \in 0 .. N /\ ~ (m <= m - 1)
  OBVIOUS
<1>5. m - 1 \in S
  BY <1>3, <1>4
<1>6. QED  BY <1>4, <1>5

\* si_next leads from the blocks that are kept to such blocks only, and to each
\* of them but the main one from another.
LEMMA KeptLinked ==
    ASSUME IndInv
    PROVE  /\ Kept(chain, Aside) \in SUBSET SI
           /\ Main \in Kept(chain, Aside)
           /\ \A R \in SUBSET Kept(chain, Aside) : Farther(R) \in SUBSET Kept(chain, Aside)
           /\ \A s \in SI \ {Main} : chain.prev[s] \in SI => chain.next[chain.prev[s]] = s
<1>1. /\ Linked(chain) /\ chain.used \in SI /\ Main \in SI
      /\ \A s \in SI : s \in Nat /\ s # NULL
  BY Facts DEF SI, NULL
<1>2. \A s \in Aside : s # Main /\ Isolated(chain, s)
  BY DEF Aside, Suspended, IndInv, ParkedOK, FlagsOK, SetAside
<1>3. Main \in Kept(chain, Aside)
  BY <1>1, <1>2 DEF Kept, Main, SI
<1>4. ASSUME NEW R \in SUBSET Kept(chain, Aside), NEW s \in Farther(R)
      PROVE  s \in Kept(chain, Aside)
  <2>1. CASE s \in R
    BY <2>1
  <2>2. CASE s \notin R
    <3>1. PICK t \in R : s \in SI /\ chain.next[t] = s
      BY <2>2 DEF Farther
    <3>2. t \in SI
      BY DEF Kept
    <3>3. chain.prev[s] = t /\ t # NULL
      BY <1>1, <3>1, <3>2 DEF Linked, DoublyLinked
    <3>4. ~ (s > chain.used)
      BY <1>1, <3>1, <3>3 DEF Linked, FreshUnlinked
    <3>5. s \notin Aside
      BY <1>2, <3>3 DEF Isolated
    <3>6. QED  BY <1>1, <3>1, <3>4, <3>5 DEF Kept
  <2>3. QED  BY <2>1, <2>2
<1>5. \A s \in SI : chain.prev[s] \in SI => chain.next[chain.prev[s]] = s
  BY <1>1 DEF Linked, DoublyLinked
<1>6. QED  BY <1>3, <1>4, <1>5 DEF Kept

\* The list that S_nuke_stacks walks consists of the blocks that are kept: the
\* walk reaches no other, and as long as it has not reached all of them it
\* reaches another one with every step.
LEMMA ListHoldsTheKept ==
    ASSUME IndInv, Rooted(chain, Aside)  PROVE OnList = Kept(chain, Aside)
<1>1. PICK r : /\ OnList = r[MaxSI]
               /\ r[0] = {Main}
               /\ \A n \in 1 .. MaxSI : r[n] = Farther(r[n - 1])
  BY OnListIs
<1>2. PICK far \in [SI -> Nat] :
         \A s \in Kept(chain, Aside) \ {Main} :
             chain.prev[s] \in Kept(chain, Aside) /\ far[chain.prev[s]] < far[s]
  BY DEF Rooted
<1>3. PICK K \in SUBSET SI : K = Kept(chain, Aside)
  BY KeptLinked
<1>4. /\ Main \in K
      /\ \A R \in SUBSET K : Farther(R) \in SUBSET K
      /\ \A s \in K \ {Main} : /\ chain.prev[s] \in K /\ far[chain.prev[s]] < far[s]
                               /\ chain.next[chain.prev[s]] = s
  BY <1>2, <1>3, KeptLinked
<1>5. MaxSI \in Nat /\ SI = 1 .. MaxSI
  BY MaxSIAssumption DEF SI
<1>6. \A n \in 0 .. MaxSI : r[n] \subseteq K
  <2> DEFINE S == {n \in 0 .. MaxSI : r[n] \subseteq K}
  <2>1. 0 \in S
    BY <1>1, <1>4, <1>5
  <2>2. ASSUME NEW n \in 1 .. MaxSI, n - 1 \in S  PROVE n \in S
    BY <1>1, <1>4, <1>5, <2>2
  <2> HIDE DEF S
  <2>3. \A n \in 0 .. MaxSI : n \in S
    BY <1>5, <2>1, <2>2, StepByStep
  <2>4. QED  BY <2>3 DEF S
<1>7. \A R \in SUBSET K : IsFiniteSet(R) /\ Cardinality(R) \in Nat /\ Cardinality(R) <= MaxSI
  <2>1. IsFiniteSet(SI) /\ Cardinality(SI) <= MaxSI
    BY <1>5, FS_Interval
  <2>2. ASSUME NEW R \in SUBSET K
        PROVE  IsFiniteSet(R) /\ Cardinality(R) \in Nat /\ Cardinality(R) <= MaxSI
    <3>1. R \in SUBSET SI
      BY <1>3
    <3>2. IsFiniteSet(R) /\ Cardinality(R) <= Cardinality(SI)
      BY <2>1, <3>1, FS_Subset
    <3>3. Cardinality(R) \in Nat /\ Cardinality(SI) \in Nat
      BY <2>1, <3>2, FS_CardinalityType
    <3>4. QED  BY <1>5, <2>1, <3>2, <3>3
  <2>3. QED  BY <2>2
<1>8. \A n \in 0 .. MaxSI : K \subseteq r[n] \/ Cardinality(r[n]) > n
  <2> DEFINE S == {n \in 0 .. MaxSI : K \subseteq r[n] \/ Cardinality(r[n]) > n}
  <2>1. 0 \in S
    <3>1. Cardinality(r[0]) = 1
      BY <1>1, FS_Singleton
    <3>2. QED  BY <1>5, <3>1
  <2>2. ASSUME NEW n \in 1 .. MaxSI, n - 1 \in S  PROVE n \in S
    <3>1. /\ n \in Nat /\ n - 1 \in 0 .. MaxSI /\ n \in 0 .. MaxSI /\ n - 1 \in Nat
      BY <1>5
    <3>2. PICK R \in SUBSET K : R = r[n - 1]
      BY <1>6, <3>1
    <3>3. r[n] = Farther(R) /\ R \subseteq r[n] /\ r[n] \in SUBSET K
      BY <1>1, <1>4, <3>2 DEF Farther
    <3>4. CASE K \subseteq R
      BY <3>1, <3>3, <3>4
    <3>5. CASE ~ (K \subseteq R)
      <4> DEFINE left == K \ R
                 fars == {far[s] : s \in left}
      <4>1. fars \in SUBSET Nat /\ fars # {}
        BY <1>2, <3>5
      <4>2. PICK m \in fars : \A d \in fars : m <= d
        BY <4>1, LeastNumber
      <4>3. PICK s \in left : far[s] = m
        OBVIOUS
      <4>4. s # Main
        <5>1. \A k \in 0 .. MaxSI : Main \in r[k]
          <6> DEFINE T == {k \in 0 .. MaxSI : Main \in r[k]}
          <6>1. 0 \in T
            BY <1>1, <1>5
          <6>2. ASSUME NEW k \in 1 .. MaxSI, k - 1 \in T  PROVE k \in T
            BY <1>1, <1>5, <6>2 DEF Farther
          <6> HIDE DEF T
          <6>3. \A k \in 0 .. MaxSI : k \in T
            BY <1>5, <6>1, <6>2, StepByStep
          <6>4. QED  BY <6>3 DEF T
        <5>2. QED  BY <3>1, <3>2, <5>1
      <4>5. /\ chain.prev[s] \in K /\ far[chain.prev[s]] < far[s]
            /\ chain.next[chain.prev[s]] = s /\ s \in SI
        BY <1>3, <1>4, <4>4
      <4>6. chain.prev[s] \in R
        <5>1. far[chain.prev[s]] \in Nat /\ far[s] \in Nat
          BY <1>2, <1>3, <4>5
        <5>2. ~ (far[s] <= far[chain.prev[s]])
          BY <4>5, <5>1
        <5>3. chain.prev[s] \in left => far[chain.prev[s]] \in fars
          OBVIOUS
        <5>4. QED  BY <4>2, <4>3, <4>5, <5>2, <5>3
      <4>7. s \in r[n] /\ s \notin R
        BY <3>3, <4>5, <4>6 DEF Farther
      <4>8. R \cup {s} \in SUBSET r[n] /\ R \cup {s} \in SUBSET K
        BY <3>3, <4>7
      <4>9. IsFiniteSet(R) /\ IsFiniteSet(r[n]) /\ Cardinality(R) \in Nat
            /\ Cardinality(r[n]) \in Nat /\ Cardinality(R \cup {s}) \in Nat
        BY <1>7, <3>3, <4>8
      <4>10. Cardinality(R \cup {s}) = Cardinality(R) + 1
        BY <4>7, <4>9, FS_AddElement
      <4>11. Cardinality(R \cup {s}) <= Cardinality(r[n])
        BY <4>8, <4>9, FS_Subset
      <4>12. Cardinality(R) > n - 1
        BY <2>2, <3>2, <3>5
      <4>13. Cardinality(r[n]) > n
        BY <3>1, <4>9, <4>10, <4>11, <4>12
      <4>14. QED  BY <3>1, <4>13
    <3>6. QED  BY <3>4, <3>5
  <2> HIDE DEF S
  <2>3. \A n \in 0 .. MaxSI : n \in S
    BY <1>5, <2>1, <2>2, StepByStep
  <2>4. QED  BY <2>3 DEF S
<1>9. MaxSI \in 0 .. MaxSI /\ ~ (Cardinality(r[MaxSI]) > MaxSI)
  BY <1>5, <1>6, <1>7
<1>10. K \subseteq r[MaxSI] /\ r[MaxSI] \subseteq K
  BY <1>6, <1>8, <1>9
<1>11. QED  BY <1>1, <1>3, <1>10

-----------------------------------------------------------------------------
\* How the calls move blocks between the list and the suspended generators.

\* The block of every activation is on the list, that of a suspended generator
\* is not.
LEMMA AsideNow ==
    ASSUME IndInv
    PROVE  /\ \A k \in Activations(cstack) : cstack[k].si \in Kept(chain, Aside)
           /\ cur \in Kept(chain, Aside)
           /\ \A s \in Aside : s \in SI \ {Main} /\ s <= chain.used /\ SetAside(chain, cstack, s)
           /\ \A g \in Generators : gen[g].state = "YIELDED" <=> gen[g].stackDetached
<1>1. \A s \in Aside : s \in SI \ {Main} /\ s <= chain.used /\ SetAside(chain, cstack, s)
  BY DEF Aside, Suspended, IndInv, ParkedOK, FlagsOK, SetAside
<1>2. \A g \in Generators : gen[g].state = "YIELDED" <=> gen[g].stackDetached
  BY DEF IndInv, ParkedOK, FlagsOK
<1>3. ASSUME NEW k \in Activations(cstack)  PROVE cstack[k].si \in Kept(chain, Aside)
  <2>1. cstack[k].si \in SI
    BY Facts, Typing DEF Depth
  <2>2. cstack[k].si <= chain.used
    BY DEF IndInv, OnPath
  <2>3. cstack[k].si \notin Aside
    BY <1>1 DEF SetAside
  <2>4. QED  BY <2>1, <2>2, <2>3 DEF Kept
<1>4. cur \in Kept(chain, Aside)
  BY <1>3 DEF IndInv, CurOK
<1>5. QED  BY <1>1, <1>2, <1>3, <1>4

\* A step that suspends no generator and wakes none sets the same blocks aside.
LEMMA AsideSame ==
    ASSUME NEW G \in SUBSET Generators,
           \A g \in G : gen[g].state # "YIELDED" /\ gen'[g].state # "YIELDED",
           \A g \in Generators \ G : gen'[g] = gen[g]
    PROVE  Aside' = Aside
<1>1. Suspended' = Suspended /\ \A g \in Suspended : gen'[g].si = gen[g].si
  BY DEF Suspended
<1>2. QED  BY <1>1 DEF Aside

\* One that only wakes or frees a suspended generator gives its block back.
LEMMA AsideLess ==
    ASSUME IndInv, NEW g \in Suspended, gen'[g].state # "YIELDED",
           \A h \in Generators \ {g} : gen'[h] = gen[h]
    PROVE  /\ Aside' = Aside \ {gen[g].si}
           /\ gen[g].si \in Aside
<1>1. g \in Generators /\ gen[g].state = "YIELDED"
  BY DEF Suspended
<1>2. Suspended' = Suspended \ {g}
  BY <1>1 DEF Suspended
<1>3. \A h \in Suspended \ {g} : gen'[h].si = gen[h].si /\ gen[h].si # gen[g].si
  BY <1>1, AsideNow DEF Suspended, IndInv, ParkedOK
<1>4. QED  BY <1>2, <1>3 DEF Aside

\* One that only suspends a generator takes its block away.
LEMMA AsideMore ==
    ASSUME NEW g \in Generators, gen[g].state # "YIELDED", gen'[g].state = "YIELDED",
           \A h \in Generators \ {g} : gen'[h] = gen[h]
    PROVE  Aside' = Aside \cup {gen'[g].si}
<1>1. Suspended' = Suspended \cup {g} /\ \A h \in Suspended : gen'[h] = gen[h]
  BY DEF Suspended
<1>2. QED  BY <1>1 DEF Aside

\* A switch of stacks and a pop link nothing.
LEMMA RootedSwitched ==
    ASSUME NEW c \in Chain, NEW s, NEW out, Rooted(c, out)
    PROVE  Rooted(SwitchedTo(c, s), out) /\ Rooted(Popped(c), out)
<1>1. \A t : SwitchedTo(c, t).prev = c.prev /\ SwitchedTo(c, t).used = c.used
  BY DEF SwitchedTo, Chain
<1>2. \A t : Rooted(SwitchedTo(c, t), out)
  BY <1>1, RootedSame
<1>3. QED  BY <1>2 DEF Popped

\* The first call of a generator, and a callback, push a block.
LEMMA PushListed ==
    ASSUME ListInv, Executing, CanPush(chain), chain' = Pushed(chain),
           NEW G \in SUBSET Generators,
           \A g \in G : gen[g].state # "YIELDED" /\ gen'[g].state # "YIELDED",
           \A g \in Generators \ G : gen'[g] = gen[g]
    PROVE  Rooted(chain', Aside')
<1>1. IndInv /\ Rooted(chain, Aside)
  BY DEF ListInv
<1>2. Aside' = Aside
  BY AsideSame
<1>3. Linked(chain) /\ chain.cur \in Kept(chain, Aside)
      /\ \A s \in Aside : s \in SI /\ s <= chain.used
  BY <1>1, Facts, AsideNow DEF cur
<1>4. QED  BY <1>1, <1>2, <1>3, RootedPushed

\* A later call, and the freeing of a suspended generator, attach its block.
LEMMA AttachListed ==
    ASSUME ListInv, NEW g \in Suspended, gen'[g].state # "YIELDED",
           \A h \in Generators \ {g} : gen'[h] = gen[h]
    PROVE  /\ Rooted(Attached(chain, gen[g].si), Aside')
           /\ Attached(chain, gen[g].si) \in Chain
<1>1. IndInv /\ Rooted(chain, Aside)
  BY DEF ListInv
<1>2. Aside' = Aside \ {gen[g].si} /\ gen[g].si \in Aside
  BY <1>1, AsideLess
<1>3. SetAside(chain, cstack, gen[g].si)
  BY <1>1, <1>2, AsideNow
<1>4. /\ Linked(chain) /\ chain.cur \in Kept(chain, Aside)
      /\ gen[g].si \in SI \ {Main} /\ gen[g].si <= chain.used /\ Isolated(chain, gen[g].si)
  BY <1>1, <1>3, Facts, AsideNow DEF cur, SetAside
<1>5. Rooted(Attached(chain, gen[g].si), Aside \ {gen[g].si})
  BY <1>1, <1>2, <1>4, RootedAttached
<1>6. Attached(chain, gen[g].si) \in Chain
  BY <1>1, <1>3, AttachAside DEF Linked
<1>7. QED  BY <1>2, <1>5, <1>6

\* A yield takes the block of its generator out of the list.
LEMMA SuspendListed ==
    ASSUME ListInv, hook # 0, NEW c \in Chain, c.cur = cstack[hook].si,
           c.prev = chain.prev, c.next = chain.next, c.used = chain.used, SuspendOn(c)
    PROVE  Rooted(chain', Aside')
<1>1. IndInv /\ Rooted(chain, Aside)
  BY DEF ListInv
<1>2. /\ hook \in Activations(cstack) /\ hook # 1 /\ hook \in 1 .. Depth
      /\ Running \in Generators /\ gen[Running].state = "RUNNING"
  BY <1>1, HookRun
<1>3. PICK s : s = cstack[hook].si
  OBVIOUS
<1>4. s \in Kept(chain, Aside) /\ s # Main
  <2>1. s \in Kept(chain, Aside)
    BY <1>1, <1>2, <1>3, AsideNow
  <2>2. 1 \in Activations(cstack) /\ cstack[1].si = Main
    BY <1>1, Framing DEF IndInv
  <2>3. QED  BY <1>1, <1>2, <1>3, <2>1, <2>2 DEF IndInv, OnPath
<1>5. Aside' = Aside \cup {s}
  <2>1. PICK g \in Generators : g = Running
    BY <1>2
  <2>2. /\ gen' = [gen EXCEPT ![g] = [gen[g] EXCEPT !.state = "YIELDED", !.captured = TRUE,
                               !.yieldPending = FALSE, !.stackDetached = TRUE,
                               !.defav = gvav, !.si = s]]
        /\ gen \in [Generators -> GenRecord]
    BY <1>1, <1>3, <2>1 DEF SuspendOn, IndInv, TypeOK
  <2>3. gen'[g].state = "YIELDED" /\ gen'[g].si = s
        /\ \A h \in Generators \ {g} : gen'[h] = gen[h]
    BY <2>2 DEF GenRecord
  <2>4. gen[g].state # "YIELDED"
    BY <1>2, <2>1
  <2>5. QED  BY <2>3, <2>4, AsideMore
<1>6. PICK d : d = Detached(chain, s)
  OBVIOUS
<1>7. Linked(chain) /\ Linked(d) /\ Rooted(d, Aside \cup {s})
  <2>1. Linked(chain) /\ s \in SI
    BY <1>1, <1>4, Facts DEF Kept
  <2>2. QED  BY <1>1, <1>4, <1>6, <2>1, DetachedLemma, RootedDetached
<1>8. PICK e : e = Detached(c, s)
  OBVIOUS
<1>9. e.prev = d.prev /\ e.used = d.used /\ e.cur = c.cur
  BY <1>6, <1>8 DEF Detached
<1>10. Rooted(e, Aside \cup {s})
  BY <1>7, <1>9, RootedSame
<1>11. chain' = SwitchedTo(e, cstack[hook].caller)
  BY <1>3, <1>8 DEF SuspendOn
<1>12. chain'.prev = e.prev /\ chain'.used = e.used
  <2>1. e = [prev |-> e.prev, next |-> e.next, cur |-> e.cur, used |-> e.used]
    BY <1>8 DEF Detached
  <2>2. QED  BY <1>11, <2>1 DEF SwitchedTo
<1>13. QED  BY <1>5, <1>10, <1>12, RootedSame

\* A body that returns has its block taken out and put back to be popped.
LEMMA FinishListed ==
    ASSUME ListInv, Finish  PROVE Rooted(chain', Aside')
<1>1. IndInv /\ Rooted(chain, Aside)
  BY DEF ListInv
<1>2. /\ hook \in Activations(cstack) /\ hook # 1 /\ hook \in 1 .. Depth
      /\ Running \in Generators /\ gen[Running].state = "RUNNING"
  BY <1>1, HookRun DEF Finish
<1>3. PICK s : s = cur
  OBVIOUS
<1>4. s = cstack[hook].si /\ s \in Kept(chain, Aside) /\ s # Main
  <2>1. s = cstack[hook].si
    BY <1>1, <1>3, Innermost DEF Finish
  <2>2. s \in Kept(chain, Aside)
    BY <1>1, <1>2, <2>1, AsideNow
  <2>3. 1 \in Activations(cstack) /\ cstack[1].si = Main
    BY <1>1, Framing DEF IndInv
  <2>4. QED  BY <1>1, <1>2, <2>1, <2>2, <2>3 DEF IndInv, OnPath
<1>5. Aside' = Aside
  <2>1. PICK g \in Generators : g = Running
    BY <1>2
  <2>2. /\ gen' = [gen EXCEPT ![g] = [gen[g] EXCEPT !.state = "EXHAUSTED", !.captured = FALSE,
                                  !.yieldPending = FALSE, !.stackPushed = FALSE,
                                  !.stackDetached = FALSE, !.evalActive = FALSE,
                                  !.defav = UnwoundArray(cxs[cur], 0),
                                  !.si = cur]]
        /\ gen \in [Generators -> GenRecord]
    BY <1>1, <2>1 DEF Finish, IndInv, TypeOK
  <2>3. gen'[g].state # "YIELDED" /\ \A h \in Generators \ {g} : gen'[h] = gen[h]
    BY <2>2 DEF GenRecord
  <2>4. gen[g].state # "YIELDED"
    BY <1>2, <2>1
  <2>5. {g} \in SUBSET Generators
    OBVIOUS
  <2>6. QED  BY <2>3, <2>4, <2>5, AsideSame
<1>6. PICK p : p = cstack[hook].caller
  OBVIOUS
<1>7. PICK d : d = SwitchedTo(Detached(chain, s), p)
  OBVIOUS
<1>8. /\ Linked(chain) /\ s \in SI /\ s <= chain.used /\ s \notin Aside
      /\ p \in SI /\ p \in Kept(chain, Aside) /\ p # s
  <2>1. Linked(chain) /\ s \in SI /\ s <= chain.used /\ s \notin Aside
    BY <1>1, <1>4, Facts DEF Kept
  <2>2. p \in SI /\ p = cstack[cstack[hook - 1].loop].si
    BY <1>1, <1>2, <1>6, Typing, Facts DEF IndInv, OnPath, Depth
  <2>3. hook - 1 \in 1 .. Depth
    BY <1>1, <1>2, Facts
  <2>4. cstack[hook - 1].loop \in Activations(cstack) /\ cstack[hook - 1].loop <= hook - 1
    BY <1>1, <2>3, Framing DEF IndInv, Depth
  <2>5. cstack[hook - 1].loop # hook
    BY <1>2, <2>3, <2>4
  <2>6. QED  BY <1>1, <1>2, <1>4, <2>1, <2>2, <2>4, <2>5, AsideNow DEF IndInv, OnPath
<1>9. /\ Linked(d) /\ Isolated(d, s) /\ d.cur = p /\ d.used = chain.used
      /\ Rooted(d, Aside \cup {s})
  <2>1. PICK e : e = Detached(chain, s)
    OBVIOUS
  <2>2. Linked(e) /\ Isolated(e, s) /\ e.used = chain.used
    BY <1>8, <2>1, DetachedLemma
  <2>3. Rooted(e, Aside \cup {s})
    BY <1>1, <1>4, <1>8, <2>1, RootedDetached
  <2>4. d = SwitchedTo(e, p)
    BY <1>7, <2>1
  <2>5. /\ Linked(d) /\ d.cur = p /\ d.prev = e.prev /\ d.next = e.next /\ d.used = e.used
    BY <1>8, <2>2, <2>4, SwitchedLemma
  <2>6. QED  BY <2>2, <2>3, <2>5, RootedSame DEF Isolated
<1>10. PICK a : a = Attached(d, s)
  OBVIOUS
<1>11. Linked(a) /\ Rooted(a, Aside)
  <2>1. /\ s \in SI \ {Main} /\ s <= d.used /\ d.cur \in Kept(d, Aside \cup {s})
        /\ s # d.cur /\ d.cur <= d.used /\ s \in Aside \cup {s}
    BY <1>4, <1>8, <1>9 DEF Kept
  <2>2. Linked(a)
    BY <1>9, <1>10, <2>1, AttachedLemma
  <2>3. Rooted(a, (Aside \cup {s}) \ {s})
    BY <1>9, <1>10, <2>1, RootedAttached
  <2>4. (Aside \cup {s}) \ {s} = Aside
    BY <1>8
  <2>5. QED  BY <2>2, <2>3, <2>4
<1>12. chain' = SwitchedTo(Popped(SwitchedTo(a, s)), p)
  BY <1>3, <1>6, <1>7, <1>10 DEF Finish
<1>13. chain'.prev = a.prev /\ chain'.used = a.used
  BY <1>11, <1>12 DEF SwitchedTo, Popped, Linked, Chain
<1>14. QED  BY <1>5, <1>11, <1>13, RootedSame

\* A step that relinks nothing.
LEMMA UnlinkedListed ==
    ASSUME ListInv, chain'.prev = chain.prev, chain'.used = chain.used,
           NEW G \in SUBSET Generators,
           \A g \in G : gen[g].state # "YIELDED" /\ gen'[g].state # "YIELDED",
           \A g \in Generators \ G : gen'[g] = gen[g]
    PROVE  Rooted(chain', Aside')
BY AsideSame, RootedSame DEF ListInv

\* An exception that arrives in generator_resume pops the block.
LEMMA FailureListed ==
    ASSUME ListInv, JumpResume  PROVE Rooted(chain', Aside')
<1>1. IndInv /\ chain \in Chain
  BY Facts DEF ListInv, Linked
<1>2. Returned \/ Stopped
  BY <1>1, JumpResumeMoves
<1>3. chain'.prev = chain.prev /\ chain'.used = chain.used
  BY <1>1 DEF JumpResume, Popped, SwitchedTo, Chain
<1>4. CASE Stopped
  <2>1. gen' = gen /\ {} \in SUBSET Generators
    BY <1>4 DEF Stopped
  <2>2. QED  BY <1>3, <2>1, UnlinkedListed
<1>5. CASE Returned
  <2>1. PICK g \in Generators : g = Running
    BY <1>1, <1>5, NoFrameLeft
  <2>2. gen[g].state = "RUNNING"
    BY <1>1, <1>5, <2>1, HookRun DEF Returned
  <2>3. \A h \in Generators \ {g} : gen'[h] = gen[h]
    BY <1>5, <2>1 DEF Returned
  <2>4. gen'[g].state # "YIELDED"
    <3>1. chain.prev[cur] # NULL
      BY <1>5, <2>1, <2>2 DEF JumpResume, Returned, Jumping
    <3>2. PICK h \in Generators : h = cstack[TopEnv].gen
      <4>1. Jumping("resume") /\ TopEnv \in 1 .. Depth
        BY <1>1, Facts DEF JumpResume
      <4>2. QED  BY <1>1, <4>1, Frames DEF Jumping
    <3>3. h = g
      <4>1. hook = TopEnv
        BY <1>1, BoundaryAbove DEF JumpResume, Jumping
      <4>2. QED  BY <2>1, <3>2, <4>1 DEF Running
    <3>4. gen' = [gen EXCEPT ![g] = [gen[g] EXCEPT !.state = "FAILED", !.stackPushed = FALSE,
                                       !.evalActive = FALSE, !.si = cur,
                                       !.defav = UnwoundArray(cxs[cur], 0)]]
      BY <3>1, <3>2, <3>3 DEF JumpResume
    <3>5. gen \in [Generators -> GenRecord]
      BY <1>1 DEF IndInv, TypeOK
    <3>6. QED  BY <3>4, <3>5 DEF GenRecord
  <2>5. {g} \in SUBSET Generators
    OBVIOUS
  <2>6. QED  BY <1>3, <2>2, <2>3, <2>4, <2>5, UnlinkedListed
<1>6. QED  BY <1>2, <1>4, <1>5

\* Freeing a generator, and making one.
LEMMA FreeListed ==
    ASSUME ListInv, NEW g \in Generators, Make(g) \/ Drop(g) \/ DestructFree(g)
    PROVE  Rooted(chain', Aside')
<1>1. IndInv /\ chain \in Chain /\ gen \in [Generators -> GenRecord]
      /\ (gen[g].state = "YIELDED" <=> gen[g].stackDetached)
      /\ (gen[g].stackPushed <=> gen[g].state \in {"RUNNING", "YIELDED"})
  BY Facts DEF ListInv, Linked, IndInv, TypeOK, ParkedOK, FlagsOK
<1>2. Renewed(g) \/ Stopped
  BY <1>1, FreeMoves
<1>3. CASE Stopped
  <2>1. gen' = gen /\ {} \in SUBSET Generators
    BY <1>3 DEF Stopped
  <2>2. status' = "undefined" => chain' = chain
    BY <1>3, <2>1 DEF Make, Drop, DestructFree, Stopped, Healthy
  <2>3. chain' = chain
    BY <1>3, <2>2 DEF Make, Drop, DestructFree, Stopped, Healthy
  <2>4. QED  BY <2>1, <2>3, UnlinkedListed
<1>4. CASE Renewed(g)
  <2>1. gen'[g].state # "YIELDED" /\ gen[g].state # "RUNNING"
        /\ \A h \in Generators \ {g} : gen'[h] = gen[h]
    BY <1>4 DEF Renewed
  <2>2. CASE gen[g].state = "YIELDED"
    <3>1. g \in Suspended
      BY <2>2 DEF Suspended
    <3>2. PICK a : a = Attached(chain, gen[g].si)
      OBVIOUS
    <3>3. Rooted(a, Aside') /\ a \in Chain
      BY <2>1, <3>1, <3>2, AttachListed
    <3>4. chain'.prev = a.prev /\ chain'.used = a.used
      <4>1. \/ chain' = SwitchedTo(Popped(SwitchedTo(a, gen[g].si)), cur)
            \/ chain' = a
        BY <1>1, <2>1, <2>2, <3>2 DEF Make, Drop, DestructFree
      <4>2. QED  BY <3>3, <4>1 DEF SwitchedTo, Popped, Chain
    <3>5. QED  BY <3>3, <3>4, RootedSame
  <2>3. CASE gen[g].state # "YIELDED"
    <3>1. chain' = chain
      BY <1>1, <2>1, <2>3 DEF Make, Drop, DestructFree
    <3>2. {g} \in SUBSET Generators
      OBVIOUS
    <3>3. QED  BY <2>1, <2>3, <3>1, <3>2, UnlinkedListed
  <2>4. QED  BY <2>2, <2>3
<1>5. QED  BY <1>2, <1>3, <1>4

\* The first call and the later ones.
LEMMA CallListed ==
    ASSUME ListInv, NEW g \in Generators, Start(g) \/ Resume(g)
    PROVE  Rooted(chain', Aside')
<1>1. IndInv
  BY DEF ListInv
<1>2. Entered(g)
  BY <1>1, CallMoves
<1>3. gen'[g].state # "YIELDED" /\ \A h \in Generators \ {g} : gen'[h] = gen[h]
  BY <1>2 DEF Entered
<1>4. CASE Start(g)
  <2>1. /\ Executing /\ CanPush(chain) /\ chain' = Pushed(chain)
        /\ gen[g].state # "YIELDED" /\ {g} \in SUBSET Generators
    BY <1>4 DEF Start
  <2>2. QED  BY <1>3, <2>1, PushListed
<1>5. CASE Resume(g)
  <2>1. gen[g].state = "YIELDED" /\ gen[g].stackDetached
    BY <1>1, <1>5, ResumableParked DEF Resume
  <2>2. g \in Suspended
    BY <2>1 DEF Suspended
  <2>3. PICK a : a = Attached(chain, gen[g].si)
    OBVIOUS
  <2>4. Rooted(a, Aside') /\ a \in Chain
    BY <1>3, <2>2, <2>3, AttachListed
  <2>5. chain' = SwitchedTo(a, gen[g].si)
    BY <1>5, <2>1, <2>3 DEF Resume
  <2>6. QED  BY <2>4, <2>5, RootedSwitched
<1>6. QED  BY <1>4, <1>5

\* The end of a callback pops its block, and may suspend a generator too.
LEMMA LeaveCallbackListed ==
    ASSUME ListInv, LeaveCallback  PROVE Rooted(chain', Aside')
<1>1. IndInv /\ chain \in Chain
  BY Facts DEF ListInv, Linked
<1>2. PICK back : back = Popped(chain)
  OBVIOUS
<1>3. /\ back.prev = chain.prev /\ back.next = chain.next /\ back.used = chain.used
      /\ back.cur = chain.prev[cur]
  BY <1>1, <1>2 DEF Popped, SwitchedTo, Chain, cur
<1>4. \/ hook # 0 /\ back.cur = cstack[hook].si /\ SuspendOn(back)
      \/ chain' = back /\ gen' = gen
  BY <1>2 DEF LeaveCallback
<1>5. CASE hook # 0 /\ back.cur = cstack[hook].si /\ SuspendOn(back)
  <2>1. back.cur \in SI
    BY <1>1, <1>5, HookRun, Facts, Typing DEF Depth
  <2>2. back \in Chain
    BY <1>1, <1>2, <2>1 DEF Popped, SwitchedTo, Chain
  <2>3. QED  BY <1>3, <1>5, <2>2, SuspendListed
<1>6. CASE chain' = back /\ gen' = gen
  <2>1. {} \in SUBSET Generators
    OBVIOUS
  <2>2. QED  BY <1>3, <1>6, <2>1, UnlinkedListed
<1>7. QED  BY <1>4, <1>5, <1>6

\* All blocks but the main one are still unallocated in the initial state.
LEMMA InitListInv ==
    ASSUME Init  PROVE ListInv
<1>1. IndInv
  BY InitIndInv
<1>2. Kept(chain, Aside) \ {Main} = {}
  BY DEF Init, InitChain, Kept, SI, Main
<1>3. Rooted(chain, Aside)
  <2>1. [s \in SI |-> 0] \in [SI -> Nat]
    OBVIOUS
  <2>2. QED  BY <1>2, <2>1 DEF Rooted
<1>4. QED  BY <1>1, <1>3 DEF ListInv

\* Every step keeps the list together.
LEMMA NextListInv ==
    ASSUME ListInv, [Next]_vars  PROVE ListInv'
<1>1. IndInv /\ IndInv' /\ chain \in Chain /\ {} \in SUBSET Generators
  BY NextIndInv, Facts DEF ListInv, Linked
<1> SUFFICES Rooted(chain', Aside')
  BY <1>1 DEF ListInv
<1>2. ASSUME NEW g \in Generators, Make(g) \/ Drop(g) \/ DestructFree(g)
      PROVE  Rooted(chain', Aside')
  BY <1>2, FreeListed
<1>3. ASSUME NEW g \in Generators, Start(g) \/ Resume(g)  PROVE Rooted(chain', Aside')
  BY <1>3, CallListed
<1>4. CASE \/ Die \/ Exit \/ EndOfProgram \/ EnterEval \/ LeaveEval
           \/ UnwindFound \/ UnwindMain \/ JumpDocatch \/ JumpMain
           \/ \E g \in Generators : CallRejected(g)
           \/ UNCHANGED vars
  <2>1. gen' = gen /\ chain' = chain
    BY <1>4 DEF Die, Exit, EndOfProgram, EnterEval, LeaveEval, UnwindFound, UnwindMain,
                JumpDocatch, JumpMain, CallRejected, vars
  <2>2. QED  BY <1>1, <2>1, UnlinkedListed
<1>5. CASE YieldDeferred
  <2>1. PutOff /\ chain' = chain
    BY <1>1, <1>5, PutOffMoves DEF YieldDeferred
  <2>2. PICK g \in Generators : g = Running /\ gen[g].state = "RUNNING"
    BY <1>1, <2>1, HookRun DEF PutOff
  <2>3. gen' = [gen EXCEPT ![g].yieldPending = TRUE] /\ gen \in [Generators -> GenRecord]
    BY <1>1, <2>1, <2>2 DEF PutOff, IndInv, TypeOK
  <2>4. gen'[g].state = gen[g].state /\ \A h \in Generators \ {g} : gen'[h] = gen[h]
    BY <2>3 DEF GenRecord
  <2>5. {g} \in SUBSET Generators
    OBVIOUS
  <2>6. QED  BY <2>1, <2>2, <2>4, <2>5, UnlinkedListed
<1>6. CASE Yield
  BY <1>1, <1>6, SuspendListed DEF Yield, cur
<1>7. CASE Finish
  BY <1>7, FinishListed
<1>8. CASE EnterCallback
  <2>1. Executing /\ CanPush(chain) /\ chain' = Pushed(chain) /\ gen' = gen
    BY <1>8 DEF EnterCallback
  <2>2. QED  BY <1>1, <2>1, PushListed
<1>9. CASE LeaveCallback
  BY <1>9, LeaveCallbackListed
<1>10. CASE UnwindPop
  <2>1. chain' = Popped(chain) /\ gen' = gen
    BY <1>10 DEF UnwindPop
  <2>2. chain'.prev = chain.prev /\ chain'.used = chain.used
    BY <1>1, <2>1 DEF Popped, SwitchedTo, Chain
  <2>3. QED  BY <1>1, <2>1, <2>2, UnlinkedListed
<1>11. CASE JumpResume
  BY <1>11, FailureListed
<1>12. QED
  BY <1>2, <1>3, <1>4, <1>5, <1>6, <1>7, <1>8, <1>9, <1>10, <1>11
     DEF Next, Call, Free, Body, Nesting, Deliver

\* The list stays in one piece: si_prev leads from every block on it to the
\* block of the main stack.
THEOREM ListInvariance == Spec => []ListInv
<1>1. QED  BY InitListInv, NextListInv, PTL DEF Spec

\* No block is ever lost: after any sequence of pushes, pops, detachments and
\* attachments each allocated block is on the list that S_nuke_stacks walks, or
\* belongs to exactly one suspended generator.
THEOREM NoBlockIsLost == Spec => []BlocksAccountedFor
<1>1. ASSUME ListInv  PROVE BlocksAccountedFor
  <2>1. IndInv /\ OnList = Kept(chain, Aside) /\ chain.used \in SI /\ MaxSI \in Nat
    BY <1>1, Facts, ListHoldsTheKept, MaxSIAssumption DEF ListInv
  <2>2. ASSUME NEW s \in 1 .. chain.used
        PROVE  LET owners == {g \in Generators : gen[g].stackDetached /\ gen[g].si = s}
               IN  IF s \in OnList THEN owners = {}
                   ELSE Isolated(chain, s) /\ \E g \in Suspended : owners = {g}
    <3> DEFINE owners == {g \in Generators : gen[g].stackDetached /\ gen[g].si = s}
    <3>1. owners = {g \in Suspended : gen[g].si = s}
      BY <2>1, AsideNow DEF Suspended
    <3>2. s \in SI /\ s <= chain.used
      BY <2>1 DEF SI
    <3>3. CASE s \in OnList
      <4>1. s \notin Aside
        BY <2>1, <3>3 DEF Kept
      <4>2. QED  BY <3>1, <3>3, <4>1 DEF Aside
    <3>4. CASE s \notin OnList
      <4>1. s \in Aside
        BY <2>1, <3>2, <3>4 DEF Kept
      <4>2. PICK g \in Suspended : gen[g].si = s
        BY <4>1 DEF Aside
      <4>3. Isolated(chain, s)
        BY <2>1, <4>1, AsideNow DEF SetAside
      <4>4. \A h \in owners : h = g
        BY <2>1, <3>1, <4>2, AsideNow DEF Suspended, IndInv, ParkedOK
      <4>5. owners = {g}
        BY <3>1, <4>2, <4>4
      <4>6. QED  BY <3>4, <4>2, <4>3, <4>5
    <3>5. QED  BY <3>3, <3>4
  <2>3. QED  BY <2>2 DEF BlocksAccountedFor
<1>2. ListInv => BlocksAccountedFor
  BY <1>1
<1>3. QED  BY <1>2, ListInvariance, PTL

-----------------------------------------------------------------------------
\* Delivering an exception.

\* The innermost of the evals on a stack.
LEMMA LastOf ==
    ASSUME NEW n \in Nat, NEW S \in SUBSET (1 .. n), S # {}
    PROVE  \E i \in S : \A j \in S : j <= i
<1> DEFINE U == {p \in Nat : \A j \in S : j <= p}
<1>1. n \in U /\ U \in SUBSET Nat
  OBVIOUS
<1>2. PICK p \in U : \A q \in U : p <= q
  <2> HIDE DEF U
  <2> QED  BY <1>1, LeastNumber
<1>3. p \in Nat /\ \A j \in S : j <= p
  BY <1>2
<1> HIDE DEF U
<1>4. p \in S
  <2>1. SUFFICES ASSUME p \notin S  PROVE FALSE
    OBVIOUS
  <2>2. ASSUME NEW j \in S  PROVE j <= p - 1 /\ 1 <= p
    <3>1. j \in Nat /\ 1 <= j /\ j <= p /\ j # p
      BY <1>3, <2>1
    <3>2. QED  BY ONLY <1>3, <3>1
  <2>3. p - 1 \in Nat
    <3>1. 1 <= p
      BY <2>2
    <3>2. QED  BY ONLY <1>3, <3>1
  <2>4. p - 1 \in U
    BY <2>2, <2>3 DEF U
  <2>5. p <= p - 1
    BY <1>2, <2>4
  <2>6. QED  BY <1>3, <2>5
<1>5. QED  BY <1>3, <1>4

\* Which activation the unwinding has arrived at, and which is next.
LEMMA ArrivedAt ==
    ASSUME NEW m \in Activations(cstack), cur = cstack[m].si,
           \A k \in Activations(cstack) : cstack[k].si = cur => k = m
    PROVE  Arrived = m
<1> DEFINE P(k) == cstack[k].si = cur
<1>1. P(m) /\ \A k \in Activations(cstack) : P(k) => k = m
  OBVIOUS
<1> HIDE DEF P
<1>2. (CHOOSE k \in Activations(cstack) : P(k)) = m
  BY <1>1
<1>3. QED  BY <1>2 DEF Arrived, P

LEMMA NextOut ==
    ASSUME IndInv, NEW m \in Activations(cstack), cur = cstack[m].si, cur # Main
    PROVE  /\ chain.prev[cur] \in SI
           /\ \E b \in Activations(cstack) :
                 b \in Nat /\ m \in Nat /\ b < m /\ chain.prev[cur] = cstack[b].si
<1>1. /\ cstack \in Seq(Frame) /\ Depth \in Nat
      /\ \A j \in Activations(cstack) : j \in 1 .. Depth
  BY Facts
<1>2. WellFramed(cstack) /\ OnPath(cstack, chain) /\ cstack[1].si = Main
  BY DEF IndInv, WellFramed
<1>3. m # 1
  BY <1>2
<1>4. m \in 1 .. Depth /\ m - 1 \in 1 .. Len(cstack)
  BY <1>1, <1>3 DEF Depth
<1> DEFINE b == cstack[m - 1].loop
<1>5. chain.prev[cur] = cstack[b].si
  BY <1>2, <1>3 DEF OnPath
<1>6. b \in Activations(cstack) /\ b <= m - 1
  BY <1>2, <1>4, Framing
<1>7. b \in 1 .. Depth
  BY <1>1, <1>6
<1>8. cstack[b].si \in SI
  BY <1>1, <1>7, Typing DEF Depth
<1> HIDE DEF b
<1>9. b \in Nat /\ m \in Nat /\ b < m
  BY <1>1, <1>4, <1>6, <1>7
<1>10. QED  BY <1>5, <1>6, <1>8, <1>9

\* While an exception is delivered nothing but its delivery happens.
LEMMA OnlyDelivery ==
    ASSUME Delivering, Next  PROVE Deliver
<1>1. ~Executing /\ status # "destruct"
  BY DEF Delivering, Executing
<1>2. \A g \in Generators : ~(Make(g) \/ Drop(g) \/ DestructFree(g))
  BY <1>1 DEF Make, Drop, DestructFree
<1>3. \A g \in Generators : ~(Start(g) \/ Resume(g) \/ CallRejected(g))
  BY <1>1 DEF Start, Resume, CallRejected
<1>4. ~(Yield \/ YieldDeferred \/ Finish)
  BY <1>1 DEF Yield, YieldDeferred, Finish
<1>5. ~(EnterCallback \/ LeaveCallback \/ EnterEval \/ LeaveEval)
  BY <1>1 DEF EnterCallback, LeaveCallback, EnterEval, LeaveEval
<1>6. ~(Die \/ Exit \/ EndOfProgram)
  BY <1>1 DEF Die, Exit, EndOfProgram
<1>7. QED  BY <1>2, <1>3, <1>4, <1>5, <1>6 DEF Next, Call, Free, Body, Nesting

\* Popping a stack takes the unwinding to an activation further out.
LEMMA PopGoesOut ==
    ASSUME IndInv, UnwindPop
    PROVE  Depth' = Depth /\ exc.stage = "unwind" /\ Arrived' < Arrived
<1>1. cstack' = cstack /\ chain' = Popped(chain) /\ exc.stage = "unwind"
  BY DEF UnwindPop
<1>2. PICK m \in Activations(cstack) : cur = cstack[m].si
  BY DEF IndInv, CurOK
<1>3. cur # Main
  <2>1. chain.prev[Main] = NULL
    BY DEF IndInv, ChainLinked, DoublyLinked
  <2>2. QED  BY <2>1 DEF UnwindPop
<1>4. PICK b \in Activations(cstack) :
         b \in Nat /\ m \in Nat /\ b < m /\ chain.prev[cur] = cstack[b].si
  BY <1>2, <1>3, NextOut
<1>5. chain'.cur = cstack[b].si
  <2>1. Linked(chain) /\ chain.prev[cur] \in SI
    BY <1>2, <1>3, Facts, NextOut
  <2>2. chain.prev[chain.cur] # NULL
    BY <2>1 DEF cur, SI, NULL
  <2>3. QED  BY <1>1, <1>4, <2>1, <2>2, PoppedLemma DEF cur
<1>6. \A i, j \in Activations(cstack) : cstack[i].si = cstack[j].si => i = j
  BY DEF IndInv, OnPath
<1>7. Arrived = m
  BY <1>2, <1>6, ArrivedAt
<1>8. Arrived' = b
  <2> DEFINE P(k) == cstack[k].si = cstack[b].si
  <2>1. P(b) /\ \A k \in Activations(cstack) : P(k) => k = b
    BY <1>6
  <2> HIDE DEF P
  <2>2. (CHOOSE k \in Activations(cstack) : P(k)) = b
    BY <2>1
  <2>3. QED  BY <1>1, <1>5, <2>2 DEF Arrived, P, cur
<1>9. QED  BY <1>1, <1>4, <1>7, <1>8 DEF Depth

\* Where the unwinding ends, the longjmp begins.
LEMMA UnwindAims ==
    ASSUME IndInv, UnwindFound \/ UnwindMain
    PROVE  Depth' = Depth /\ exc.stage = "unwind" /\ exc'.stage = "jump"
<1>1. exc \in Exception
  BY DEF IndInv, TypeOK
<1>2. CASE UnwindFound
  <2>1. cstack' = cstack /\ exc.stage = "unwind"
    BY ONLY <1>2 DEF UnwindFound
  <2>2. PICK i \in EvalsOn(cur) :
           exc' = [exc EXCEPT !.stage = "jump", !.env = cxs[cur][i].env,
                              !.uncaught = cxs[cur][i].type = "FAKE"]
    BY ONLY <1>2, Zenon DEF UnwindFound
  <2>3. exc'.stage = "jump"
    BY <1>1, <2>2 DEF Exception
  <2>4. QED  BY <2>1, <2>3 DEF Depth
<1>3. CASE UnwindMain
  <2>1. /\ cstack' = cstack /\ exc.stage = "unwind"
        /\ exc' = [exc EXCEPT !.stage = "jump", !.kind = "exit"]
    BY ONLY <1>3 DEF UnwindMain
  <2>2. exc'.stage = "jump"
    BY <1>1, <2>1 DEF Exception
  <2>3. QED  BY <2>1, <2>2 DEF Depth
<1>4. QED  BY <1>2, <1>3

\* A longjmp ends the delivery or leaves a frame.
LEMMA JumpLeaves ==
    ASSUME IndInv, JumpDocatch \/ JumpResume \/ JumpMain
    PROVE  ~Delivering' \/ Depth' < Depth
<1>1. cstack \in Seq(Frame) /\ Depth \in Nat /\ TopEnv \in 1 .. Depth
  BY Facts
<1>2. ASSUME cstack[TopEnv].kind # "main", cstack' = SubSeq(cstack, 1, TopEnv - 1)
      PROVE  Depth' < Depth
  <2>1. TopEnv # 1
    BY <1>1, <1>2 DEF IndInv, WellFramed, FrameOK, Depth
  <2>2. Len(cstack') = TopEnv - 1
    <3>1. TopEnv - 1 \in 1 .. Len(cstack)
      BY <1>1, <2>1 DEF Depth
    <3>2. QED  BY <1>1, <1>2, <3>1, CutLemma DEF Cut
  <2>3. QED  BY <1>1, <2>2 DEF Depth
<1>3. NoException.stage = "none"
  BY DEF NoException
<1>4. CASE JumpDocatch
  <2>1. \/ exc' = NoException
        \/ cstack[TopEnv].kind # "main" /\ cstack' = SubSeq(cstack, 1, TopEnv - 1)
    BY <1>4 DEF JumpDocatch, Jumping
  <2>2. QED  BY <1>2, <1>3, <2>1 DEF Delivering
<1>5. CASE JumpResume
  <2>1. \/ status' = "panic"
        \/ cstack[TopEnv].kind # "main" /\ cstack' = SubSeq(cstack, 1, TopEnv - 1)
    BY <1>5 DEF JumpResume, Jumping
  <2>2. QED  BY <1>2, <2>1 DEF Delivering
<1>6. CASE JumpMain
  BY <1>3, <1>6 DEF JumpMain, Delivering
<1>7. QED  BY <1>4, <1>5, <1>6

\* Delivering an exception does not go round in circles: <<Depth, stage,
\* Arrived>> goes down in lexicographic order with every step, whatever evals,
\* boundaries and generators are in the way.
THEOREM DeliveryComesDown == Spec => DeliveryDescends
<1> DEFINE Down == \/ ~Delivering'
                   \/ Depth' < Depth
                   \/ /\ Depth' = Depth
                      /\ exc.stage = "unwind"
                      /\ exc'.stage = "jump" \/ Arrived' < Arrived
<1>1. ASSUME IndInv, Next, Delivering  PROVE Down
  <2>1. Deliver
    BY <1>1, OnlyDelivery
  <2>2. CASE UnwindPop
    BY <1>1, <2>2, PopGoesOut
  <2>3. CASE UnwindFound \/ UnwindMain
    BY <1>1, <2>3, UnwindAims
  <2>4. CASE JumpDocatch \/ JumpResume \/ JumpMain
    BY <1>1, <2>4, JumpLeaves
  <2>5. QED  BY <2>1, <2>2, <2>3, <2>4 DEF Deliver
<1> HIDE DEF Down
<1>2. IndInv /\ [Next]_vars => [Delivering => Down]_vars
  BY <1>1
<1>3. Spec => [][Delivering => Down]_vars
  BY <1>2, Invariance, PTL DEF Spec
<1>4. QED  BY <1>3 DEF DeliveryDescends, Down

\* Delivering an exception does not get stuck: while one is under way, what a
\* step of its delivery asks for is there.
THEOREM DeliveryNeverStuck == Spec => []DeliveryGoesOn
<1>1. ASSUME IndInv, Delivering  PROVE DeliveryGoesOn
  <2>1. /\ exc.kind \in {"die", "exit"} /\ exc.stage \in {"unwind", "jump"}
        /\ status = "running"
    BY <1>1 DEF IndInv, TypeOK, Exception, Delivering
  <2>2. PICK m \in Activations(cstack) : cur = cstack[m].si
    BY <1>1 DEF IndInv, CurOK
  <2>3. CASE exc.stage = "unwind" /\ exc.kind = "die" /\ EvalsOn(cur) # {}
    <3>1. cur \in SI /\ DOMAIN cxs[cur] = 1 .. Len(cxs[cur]) /\ Len(cxs[cur]) \in Nat
      BY <1>1, <2>2, CurApart
    <3>2. EvalsOn(cur) \in SUBSET (1 .. Len(cxs[cur]))
      BY <3>1 DEF EvalsOn
    <3>3. \E i \in EvalsOn(cur) : \A j \in EvalsOn(cur) : j <= i
      BY <2>3, <3>1, <3>2, LastOf
    <3>4. QED  BY <2>3, <3>3 DEF DeliveryGoesOn
  <2>4. CASE /\ exc.stage = "unwind" /\ cur # Main
             /\ exc.kind = "die" => EvalsOn(cur) = {}
    <3>1. chain.prev[cur] \in SI
      BY <1>1, <2>2, <2>4, NextOut
    <3>2. QED  BY <2>1, <2>4, <3>1 DEF DeliveryGoesOn
  <2>5. CASE /\ exc.stage = "unwind" /\ cur = Main
             /\ exc.kind = "die" => EvalsOn(cur) = {}
    BY <2>5 DEF DeliveryGoesOn
  <2>6. CASE exc.stage = "jump"
    <3>1. TopEnv \in 1 .. Depth /\ cstack[TopEnv].kind # "callback" /\ cstack \in Seq(Frame)
      BY <1>1, Facts
    <3>2. cstack[TopEnv].kind \in Kinds
      BY <3>1, Typing DEF Depth
    <3>3. cstack[TopEnv].kind \in {"docatch", "resume", "main"}
      BY <3>1, <3>2 DEF Kinds
    <3>4. QED  BY <2>1, <2>6, <3>3 DEF DeliveryGoesOn, Jumping
  <2>7. QED  BY <2>1, <2>3, <2>4, <2>5, <2>6
<1>2. IndInv => DeliveryGoesOn
  BY <1>1 DEF DeliveryGoesOn
<1>3. QED  BY <1>2, Invariance, PTL
=============================================================================
