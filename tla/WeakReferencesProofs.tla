------------------------- MODULE WeakReferencesProofs -------------------------
(***************************************************************************)
(* Counts and lists of back-references match the references at every step, *)
(* for any number of objects and variables, provided that set magic leaves *)
(* alone what leads to an object that is dying.                            *)
(***************************************************************************)
EXTENDS WeakReferencesProperties, FiniteSetTheorems, SequenceTheorems, TLAPS

\* The references to o, of either kind.
Weak(o) == {s \in Scalar : value[s] = [to |-> o, weak |-> TRUE]}
Strong(o) == {s \in Scalar : value[s] = [to |-> o, weak |-> FALSE]}

Frees(i) == stack[i].at \in {"destroy", "kill", "empty"}
At(i, at, o) == stack[i].at = at /\ stack[i].obj = o

\* An object is in one place of its end at a time.
FreedOnce ==
    \A i, j \in DOMAIN stack :
        Frees(i) /\ Frees(j) /\ stack[i].obj = stack[j].obj => i = j

Counted(o) ==
    /\ IsFiniteSet(Strong(o))
    /\ refcnt[o] = Cardinality(Strong(o)) + IF o \in InDestructor THEN 1 ELSE 0

Names(list, o) == Range(list) = Weak(o) /\ IsInjective(list)
Listed(o) ==
    /\ \A i \in DOMAIN stack : At(i, "kill", o) => Names(stack[i].list, o)
    /\ (\A i \in DOMAIN stack : ~ At(i, "kill", o)) => Names(backrefs[o], o)

Staged(o) ==
    /\ phase[o] = "alive" <=> refcnt[o] > 0
    /\ phase[o] = "dying" <=>
          \E i \in DOMAIN stack : At(i, "kill", o) \/ At(i, "empty", o)
    /\ phase[o] = "dying" => backrefs[o] = <<>>
    /\ phase[o] \in {"unborn", "freed"} => value[o] = Undef /\ Weak(o) = {}

\* P has all objects that lead, by way of P, to an object that is dying in
\* frame k.  None of them can die before that frame is done: what holds them
\* is in a variable or in P, and no Perl code makes use of that, or belongs to
\* a frame further out.
Guards(P, k) ==
    LET o == stack[k].obj IN
    /\ Weak(o) \cap Obj \subseteq P
    /\ \A u \in P :
          /\ value[u] # Undef
          /\ value[u].to \in P \cup {o}
          /\ o \in Closure({value[u].to}, {})
          /\ \A j \in DOMAIN stack : j > k /\ Frees(j) => stack[j].obj # u
          /\ \/ \E r \in Var \cup P : value[r] = [to |-> u, weak |-> FALSE]
             \/ \E j \in 1 .. k : Frees(j) /\ stack[j].obj = u
Guarded ==
    \A k \in DOMAIN stack : stack[k].at = "kill" => \E P \in SUBSET Obj : Guards(P, k)

BooksInv ==
    /\ TypeOK
    /\ ~ panicked
    /\ FreedOnce
    /\ \A o \in Obj : Counted(o) /\ Listed(o) /\ Staged(o)
    /\ Guarded

-----------------------------------------------------------------------------
\* What leads where.

Links == value \in [Scalar -> {Undef} \cup [to : Obj, weak : BOOLEAN]]

\* A reference is not Undef, and is one of the two kinds.
LEMMA References ==
    ASSUME Links, NEW s \in Scalar, value[s] # Undef
    PROVE  /\ value[s].to \in Obj
           /\ value[s].weak \in BOOLEAN
           /\ value[s] = [to |-> value[s].to, weak |-> value[s].weak]
BY DEF Links

\* A set that is closed contains what it leads to.
LEMMA ClosureLeast ==
    ASSUME NEW S, NEW avoid, NEW C \in SUBSET Obj, (S \cup Targets(C)) \ avoid \subseteq C
    PROVE  Closure(S, avoid) \subseteq C
BY DEF Closure

\* What S has is in the closure, and so is what a member refers to.
LEMMA ClosureClosed ==
    ASSUME Links, NEW S \in SUBSET Obj, NEW avoid
    PROVE  /\ S \ avoid \subseteq Closure(S, avoid)
           /\ \A u \in Closure(S, avoid) :
                 value[u] # Undef /\ value[u].to \notin avoid => value[u].to \in Closure(S, avoid)
<1>1. S \ avoid \subseteq Closure(S, avoid)
  BY DEF Closure
<1>2. ASSUME NEW u \in Closure(S, avoid), value[u] # Undef, value[u].to \notin avoid
      PROVE  value[u].to \in Closure(S, avoid)
  <2>1. u \in Obj /\ u \in Scalar
    BY <1>2 DEF Closure, Scalar
  <2>2. value[u].to \in Obj
    BY <1>2, <2>1, References
  <2>3. ASSUME NEW C \in SUBSET Obj, (S \cup Targets(C)) \ avoid \subseteq C
        PROVE  value[u].to \in C
    <3>1. u \in C
      BY <2>3, <1>2 DEF Closure
    <3>2. value[u].to \in Targets(C)
      BY <3>1, <1>2 DEF Targets
    <3>3. QED  BY <3>2, <2>3, <1>2
  <2>4. QED  BY <2>2, <2>3 DEF Closure
<1>3. QED  BY <1>1, <1>2

\* The way from w to o is empty or begins with the reference that w contains.
LEMMA Onward ==
    ASSUME Links, NEW w \in Obj, NEW o \in Closure({w}, {}), o # w
    PROVE  value[w] # Undef /\ o \in Closure({value[w].to}, {})
<1>0. w \in Scalar /\ {w} \in SUBSET Obj
  BY DEF Scalar
<1>1. CASE value[w] = Undef
  <2>1. ({w} \cup Targets({w})) \ {} \subseteq {w}
    BY <1>1 DEF Targets
  <2>2. QED  BY <1>0, <2>1, ClosureLeast
<1>2. CASE value[w] # Undef
  <2> DEFINE v == value[w].to
             C == {w} \cup Closure({v}, {})
  <2>1. v \in Obj /\ {v} \in SUBSET Obj
    BY <1>0, <1>2, References
  <2>2. /\ v \in Closure({v}, {})
        /\ \A u \in Closure({v}, {}) : value[u] # Undef => value[u].to \in Closure({v}, {})
    BY <2>1, ClosureClosed
  <2>3. C \in SUBSET Obj
    BY DEF Closure
  <2>4. ({w} \cup Targets(C)) \ {} \subseteq C
    BY <2>2 DEF Targets
  <2>5. o \in C
    <3> HIDE DEF C
    <3>1. QED  BY <2>3, <2>4, ClosureLeast
  <2>6. QED  BY <1>2, <2>5
<1>3. QED  BY <1>1, <1>2

LEMMA Backward ==
    ASSUME Links, NEW w \in Obj, value[w] # Undef, NEW o \in Closure({value[w].to}, {})
    PROVE  o \in Closure({w}, {})
<1>1. w \in Scalar /\ {w} \in SUBSET Obj
  BY DEF Scalar
<1>2. value[w].to \in Closure({w}, {})
  BY <1>1, ClosureClosed
<1>3. \A u \in Closure({w}, {}) : value[u] # Undef => value[u].to \in Closure({w}, {})
  BY <1>1, ClosureClosed
<1>4. ({value[w].to} \cup Targets(Closure({w}, {}))) \ {} \subseteq Closure({w}, {})
  BY <1>2, <1>3 DEF Targets
<1>5. Closure({w}, {}) \in SUBSET Obj
  BY DEF Closure
<1>6. QED  BY <1>4, <1>5, ClosureLeast

\* The same, to be used of a state and of its successor.
Ways ==
    \A w, o \in Obj :
        /\ o \in Closure({o}, {})
        /\ o # w /\ o \in Closure({w}, {}) => value[w] # Undef /\ o \in Closure({value[w].to}, {})
        /\ value[w] # Undef /\ o \in Closure({value[w].to}, {}) => o \in Closure({w}, {})

LEMMA WaysLead == Links => Ways
<1>1. SUFFICES ASSUME Links, NEW w \in Obj, NEW o \in Obj
               PROVE  /\ o \in Closure({o}, {})
                      /\ o # w /\ o \in Closure({w}, {}) => value[w] # Undef /\ o \in Closure({value[w].to}, {})
                      /\ value[w] # Undef /\ o \in Closure({value[w].to}, {}) => o \in Closure({w}, {})
  BY DEF Ways
<1>2. o \in Closure({o}, {})
  BY <1>1, ClosureClosed
<1>3. o # w /\ o \in Closure({w}, {}) => value[w] # Undef /\ o \in Closure({value[w].to}, {})
  BY <1>1, Onward
<1>4. value[w] # Undef /\ o \in Closure({value[w].to}, {}) => o \in Closure({w}, {})
  BY <1>1, Backward
<1>5. QED  BY <1>2, <1>3, <1>4

LEMMA WaysLeadThen == Links' => Ways'
BY WaysLead, PTL

\* A way within P to o lasts while the members of P keep their references.
LEMMA PathKept ==
    ASSUME NEW P \in SUBSET Obj, NEW o \in Obj, NEW w \in P \cup {o}, o \in Closure({w}, {}),
           \A u \in P : value'[u] = value[u] /\ value[u].to \in P \cup {o}
    PROVE  o \in Closure({w}, {})'
<1>1. SUFFICES ASSUME NEW C \in SUBSET Obj, ({w} \cup Targets(C)') \ {} \subseteq C
               PROVE  o \in C
  BY DEF Closure
<1>2. SUFFICES ASSUME o \notin C
               PROVE  FALSE
  OBVIOUS
<1>3. ({w} \cup Targets(C \cap P)) \ {} \subseteq C \cap P
  <2>1. w \in C \cap P
    BY <1>1, <1>2
  <2>2. ASSUME NEW u \in C \cap P, value[u] # Undef
        PROVE  value[u].to \in C \cap P
    <3>1. value'[u].to \in Targets(C)'
      BY <2>2 DEF Targets
    <3>2. QED  BY <3>1, <2>2, <1>1, <1>2
  <2>3. QED  BY <2>1, <2>2 DEF Targets
<1>4. o \in C \cap P
  BY <1>3, ClosureLeast
<1>5. QED  BY <1>2, <1>4

-----------------------------------------------------------------------------
\* Lists, counts and the stack.

Ref(o, weak) == [to |-> o, weak |-> weak]

LEMMA RefFacts ==
    ASSUME NEW o \in Obj, NEW w \in BOOLEAN
    PROVE  /\ Ref(o, w) # Undef /\ Ref(o, w) \in [to : Obj, weak : BOOLEAN]
           /\ Ref(o, w).to = o /\ Ref(o, w).weak = w
<1>1. Ref(o, w) \in [to : Obj, weak : BOOLEAN] /\ Ref(o, w).to = o /\ Ref(o, w).weak = w
  BY DEF Ref
<1>2. QED  BY <1>1, WeakAssumption

LEMMA RefInjective ==
    \A o, p \in Obj : \A w, x \in BOOLEAN : Ref(o, w) = Ref(p, x) <=> o = p /\ w = x
BY DEF Ref

LEMMA TailNames ==
    ASSUME NEW S, NEW list \in Seq(S), list # <<>>, IsInjective(list)
    PROVE  /\ Tail(list) \in Seq(S)
           /\ Range(Tail(list)) = Range(list) \ {Head(list)}
           /\ IsInjective(Tail(list))
<1>1. /\ Tail(list) \in Seq(S) /\ Head(list) = list[1]
      /\ Len(list) \in Nat \ {0} /\ Len(Tail(list)) = Len(list) - 1
      /\ \A i \in 1 .. Len(list) - 1 : Tail(list)[i] = list[i + 1]
      /\ DOMAIN list = 1 .. Len(list) /\ DOMAIN Tail(list) = 1 .. Len(list) - 1
  OBVIOUS
<1>2. IsInjective(Tail(list))
  BY <1>1 DEF IsInjective
<1>3. ASSUME NEW x \in Range(Tail(list))  PROVE x \in Range(list) \ {Head(list)}
  <2>1. PICK i \in 1 .. Len(list) - 1 : x = list[i + 1]
    BY <1>1, <1>3 DEF Range
  <2>2. i + 1 \in DOMAIN list /\ i + 1 # 1 /\ 1 \in DOMAIN list
    BY <1>1
  <2>3. QED  BY <1>1, <2>1, <2>2 DEF Range, IsInjective
<1>4. ASSUME NEW x \in Range(list) \ {Head(list)}  PROVE x \in Range(Tail(list))
  <2>1. PICK i \in 1 .. Len(list) : x = list[i] /\ i # 1
    BY <1>1, <1>4 DEF Range
  <2>2. i - 1 \in 1 .. Len(list) - 1 /\ Tail(list)[i - 1] = x
    BY <1>1, <2>1
  <2>3. QED  BY <1>1, <2>2 DEF Range
<1>5. QED  BY <1>1, <1>2, <1>3, <1>4

\* One name goes, whatever its place.
LEMMA WithoutNames ==
    ASSUME NEW S, NEW list \in Seq(S), NEW i \in DOMAIN list, IsInjective(list)
    PROVE  /\ Without(list, i) \in Seq(S)
           /\ Range(Without(list, i)) = Range(list) \ {list[i]}
           /\ IsInjective(Without(list, i))
<1>1. CASE i = 1
  BY <1>1, TailNames DEF Without
<1>2. CASE i # 1
  <2> DEFINE n == Len(list)
             filled == [list EXCEPT ![i] = list[n]]
             rest == Without(list, i)
  <2>1. n \in Nat /\ i \in 2 .. n /\ DOMAIN list = 1 .. n
    BY <1>2
  <2>2. /\ rest = SubSeq(filled, 1, n - 1)
        /\ filled \in Seq(S) /\ Len(filled) = n
        /\ \A j \in 1 .. n : filled[j] = IF j = i THEN list[n] ELSE list[j]
    BY <1>2, <2>1 DEF Without
  <2>3. /\ rest \in Seq(S) /\ Len(rest) = n - 1 /\ DOMAIN rest = 1 .. n - 1
        /\ \A j \in 1 .. n - 1 : rest[j] = IF j = i THEN list[n] ELSE list[j]
    <3> HIDE DEF filled, rest
    <3>1. rest \in Seq(S) /\ Len(rest) = n - 1
      BY <2>1, <2>2
    <3>2. \A j \in 1 .. n - 1 : rest[j] = filled[j]
      BY <2>1, <2>2
    <3>3. QED  BY <2>1, <2>2, <3>1, <3>2
  <2> HIDE DEF filled, rest, n
  <2>4. \A a, b \in 1 .. n : list[a] = list[b] => a = b
    BY <2>1 DEF IsInjective
  <2>5. IsInjective(rest)
    BY <2>1, <2>3, <2>4 DEF IsInjective
  <2>6. ASSUME NEW x \in Range(rest)  PROVE x \in Range(list) \ {list[i]}
    BY <2>1, <2>3, <2>4, <2>6 DEF Range
  <2>7. ASSUME NEW x \in Range(list) \ {list[i]}  PROVE x \in Range(rest)
    <3>1. PICK j \in 1 .. n : x = list[j] /\ j # i
      BY <2>1, <2>7 DEF Range
    <3>2. CASE j = n
      BY <2>1, <2>3, <3>1, <3>2 DEF Range
    <3>3. CASE j # n
      BY <2>1, <2>3, <3>1, <3>3 DEF Range
    <3>4. QED  BY <3>2, <3>3
  <2>8. QED  BY <2>3, <2>5, <2>6, <2>7 DEF rest
<1>3. QED  BY <1>1, <1>2

LEMMA AppendNames ==
    ASSUME NEW S, NEW list \in Seq(S), NEW s \in S, s \notin Range(list), IsInjective(list)
    PROVE  /\ Append(list, s) \in Seq(S)
           /\ Range(Append(list, s)) = Range(list) \cup {s}
           /\ IsInjective(Append(list, s))
<1> DEFINE n == Len(list)
           more == Append(list, s)
<1>1. /\ n \in Nat /\ DOMAIN list = 1 .. n /\ more \in Seq(S)
      /\ DOMAIN more = 1 .. n + 1
      /\ \A j \in 1 .. n : more[j] = list[j]
      /\ more[n + 1] = s
  OBVIOUS
<1> HIDE DEF n, more
<1>2. \A j \in 1 .. n : list[j] # s
  BY <1>1 DEF Range
<1>3. IsInjective(more)
  BY <1>1, <1>2 DEF IsInjective
<1>4. Range(more) = Range(list) \cup {s}
  <2>1. \A x \in Range(more) : x \in Range(list) \cup {s}
    BY <1>1 DEF Range
  <2>2. \A x \in Range(list) \cup {s} : x \in Range(more)
    <3>1. \A j \in 1 .. n : j \in DOMAIN more /\ list[j] = more[j]
      BY <1>1
    <3>2. n + 1 \in DOMAIN more
      BY <1>1
    <3>3. QED  BY <1>1, <3>1, <3>2 DEF Range
  <2>3. QED  BY <2>1, <2>2
<1>5. QED  BY <1>1, <1>3, <1>4 DEF more

\* What becomes of the references to an object when s gets the value v.
LEMMA Retarget ==
    ASSUME Links, NEW s \in Scalar, NEW v, value' = [value EXCEPT ![s] = v], NEW o \in Obj
    PROVE  /\ Strong(o)' = IF v = Ref(o, FALSE) THEN Strong(o) \cup {s} ELSE Strong(o) \ {s}
           /\ Weak(o)' = IF v = Ref(o, TRUE) THEN Weak(o) \cup {s} ELSE Weak(o) \ {s}
           /\ s \in Strong(o) <=> value[s] = Ref(o, FALSE)
           /\ s \in Weak(o) <=> value[s] = Ref(o, TRUE)
<1>1. \A r \in Scalar : value'[r] = IF r = s THEN v ELSE value[r]
  BY DEF Links
<1>2. QED  BY <1>1 DEF Strong, Weak, Ref

\* The inner frame is replaced, a frame is popped, a frame is pushed.
LEMMA StackSteps ==
    ASSUME stack \in Seq(Frame), NEW f \in Frame
    PROVE  /\ Len(stack) \in Nat /\ DOMAIN stack = 1 .. Len(stack)
           /\ \A i \in 1 .. Len(stack) : stack[i] \in Frame
           /\ stack # <<>> => Len(stack) > 0 /\ Inner = stack[Len(stack)] /\ Inner \in Frame
           /\ LET more == Append(stack, f) IN
              /\ more \in Seq(Frame) /\ Len(more) = Len(stack) + 1
              /\ DOMAIN more = 1 .. Len(stack) + 1
              /\ \A i \in 1 .. Len(stack) : more[i] = stack[i]
              /\ more[Len(stack) + 1] = f
           /\ stack # <<>> =>
              /\ Becomes(f) \in Seq(Frame) /\ Len(Becomes(f)) = Len(stack)
              /\ DOMAIN Becomes(f) = 1 .. Len(stack)
              /\ \A i \in 1 .. Len(stack) - 1 : Becomes(f)[i] = stack[i]
              /\ Becomes(f)[Len(stack)] = f
              /\ Popped \in Seq(Frame) /\ Len(Popped) = Len(stack) - 1
              /\ DOMAIN Popped = 1 .. Len(stack) - 1
              /\ \A i \in 1 .. Len(stack) - 1 : Popped[i] = stack[i]
<1> DEFINE n == Len(stack)
<1>1. /\ n \in Nat /\ DOMAIN stack = 1 .. n /\ \A i \in 1 .. n : stack[i] \in Frame
      /\ stack # <<>> => n > 0
  OBVIOUS
<1>2. LET more == Append(stack, f) IN
      /\ more \in Seq(Frame) /\ Len(more) = n + 1
      /\ DOMAIN more = 1 .. n + 1
      /\ \A i \in 1 .. n : more[i] = stack[i]
      /\ more[n + 1] = f
  OBVIOUS
<1>3. ASSUME stack # <<>>
      PROVE  /\ Becomes(f) \in Seq(Frame) /\ Len(Becomes(f)) = n
             /\ DOMAIN Becomes(f) = 1 .. n
             /\ \A i \in 1 .. n - 1 : Becomes(f)[i] = stack[i]
             /\ Becomes(f)[n] = f
  <2>1. n \in 1 .. n
    BY <1>1, <1>3
  <2>2. Becomes(f) = [i \in 1 .. n |-> IF i = n THEN f ELSE stack[i]]
    BY <1>1, <2>1 DEF Becomes
  <2>3. \A i \in 1 .. n : (IF i = n THEN f ELSE stack[i]) \in Frame
    BY <1>1
  <2> HIDE DEF n
  <2>4. Becomes(f) \in Seq(Frame) /\ Len(Becomes(f)) = n /\ DOMAIN Becomes(f) = 1 .. n
    <3>1. Becomes(f) \in [1 .. n -> Frame]
      BY <2>2, <2>3
    <3>2. QED  BY <1>1, <3>1
  <2>5. QED  BY <1>1, <2>1, <2>2, <2>4
<1>4. ASSUME stack # <<>>
      PROVE  /\ Popped \in Seq(Frame) /\ Len(Popped) = n - 1
             /\ DOMAIN Popped = 1 .. n - 1
             /\ \A i \in 1 .. n - 1 : Popped[i] = stack[i]
  <2>1. n - 1 \in Nat /\ n - 1 <= n
    BY <1>1, <1>4
  <2>2. Popped = SubSeq(stack, 1, n - 1)
    BY DEF Popped
  <2>3. QED
    BY <1>1, <2>1, <2>2
<1>5. stack # <<>> => Inner = stack[n] /\ Inner \in Frame
  BY <1>1 DEF Inner
<1> HIDE DEF n
<1>6. QED  BY <1>1, <1>2, <1>3, <1>4, <1>5 DEF n

-----------------------------------------------------------------------------
\* One scalar gets another value.

Values == {Undef} \cup [to : Obj, weak : BOOLEAN]
Pushed(p) == stack' = Append(stack, Destroy(p))

\* Its old value gives up the reference it counted for, its new value takes
\* one, and an object that nothing refers to any more is to be destroyed.
Mutates(s, v) ==
    /\ value' = [value EXCEPT ![s] = v]
    /\ panicked' = FALSE
    /\ refcnt' \in [Obj -> Nat]
    /\ \A o \in Obj :
          refcnt'[o] = IF v = Ref(o, FALSE) THEN refcnt[o] + 1
                       ELSE IF value[s] = Ref(o, FALSE) /\ refcnt[o] # 1 THEN refcnt[o] - 1
                       ELSE refcnt[o]
    /\ \/ stack' = stack /\ \A p \in Obj : value[s] = Ref(p, FALSE) => refcnt[p] # 1
       \/ \E p \in Obj : Pushed(p) /\ value[s] = Ref(p, FALSE) /\ refcnt[p] = 1
    /\ backrefs' \in [Obj -> Seq(Scalar)]
    /\ \A o \in Obj :
          IF \E i \in DOMAIN stack : At(i, "kill", o) \/ At(i, "empty", o)
          THEN backrefs'[o] = backrefs[o]
          ELSE Names(backrefs[o], o)'
    /\ phase' = [o \in Obj |-> IF v # Undef /\ v.to = o /\ phase[o] = "unborn"
                               THEN "alive" ELSE phase[o]]

\* s is nothing that a dying object depends on.
Safe(s) ==
    \A k \in DOMAIN stack : \A P \in SUBSET Obj :
        stack[k].at = "kill" /\ Guards(P, k) =>
            /\ s \notin P
            /\ s \in Var /\ value[s] # Undef => value[s].to \notin P \cup {stack[k].obj}

\* An object that a reference of either kind leads to.
LEMMA Referred ==
    ASSUME BooksInv, NEW s \in Scalar, value[s] # Undef
    PROVE  LET o == value[s].to IN
           \/ phase[o] = "alive"
           \/ /\ value[s] = Ref(o, TRUE)
              /\ phase[o] = "dying"
              /\ \E k \in DOMAIN stack : At(k, "kill", o)
<1> DEFINE o == value[s].to
<1>1. Links
  BY DEF BooksInv, TypeOK, Links
<1>2. o \in Obj /\ (value[s] = Ref(o, TRUE) \/ value[s] = Ref(o, FALSE))
  BY <1>1, References DEF Ref
<1>3. Counted(o) /\ Listed(o) /\ Staged(o) /\ refcnt[o] \in Nat
  BY <1>2 DEF BooksInv, TypeOK
<1>4. CASE value[s] = Ref(o, FALSE)
  <2>1. s \in Strong(o)
    BY <1>4 DEF Strong, Ref
  <2>2. Cardinality(Strong(o)) \in Nat /\ Cardinality(Strong(o)) # 0
    BY <1>3, <2>1, FS_EmptySet, FS_CardinalityType DEF Counted
  <2>3. refcnt[o] > 0
    BY <1>3, <2>2 DEF Counted
  <2>4. QED  BY <1>3, <2>3 DEF Staged
<1>5. CASE value[s] = Ref(o, TRUE)
  <2>1. s \in Weak(o)
    BY <1>5 DEF Weak, Ref
  <2>2. phase[o] \in {"alive", "dying"}
    BY <1>2, <1>3, <2>1 DEF Staged, BooksInv, TypeOK
  <2>3. ASSUME phase[o] = "dying", \A k \in DOMAIN stack : ~ At(k, "kill", o)
        PROVE  FALSE
    <3>1. backrefs[o] = <<>> /\ Range(backrefs[o]) = Weak(o)
      BY <1>3, <2>3 DEF Staged, Listed, Names
    <3>2. QED  BY <2>1, <3>1 DEF Range
  <2>4. QED  BY <1>5, <2>2, <2>3
<1>6. QED  BY <1>2, <1>4, <1>5

\* The object of a frame that is past DESTROY has no strong references.
LEMMA Gone ==
    ASSUME BooksInv, NEW i \in DOMAIN stack, stack[i].at \in {"kill", "empty"}
    PROVE  LET o == stack[i].obj IN
           /\ o \in Obj /\ phase[o] = "dying" /\ refcnt[o] = 0
           /\ Strong(o) = {} /\ o \notin InDestructor
           /\ stack[i].at = "empty" => Weak(o) = {}
<1> DEFINE o == stack[i].obj
<1>1. o \in Obj /\ stack[i] \in Frame
  BY StackSteps DEF BooksInv, TypeOK, Frame
<1>2. Counted(o) /\ Listed(o) /\ Staged(o) /\ refcnt[o] \in Nat
  BY <1>1 DEF BooksInv, TypeOK
<1>3. phase[o] = "dying" /\ refcnt[o] = 0
  BY <1>2 DEF Staged, At
<1>4. Strong(o) = {} /\ o \notin InDestructor
  BY <1>2, <1>3, FS_EmptySet, FS_CardinalityType DEF Counted
<1>5. ASSUME stack[i].at = "empty"  PROVE Weak(o) = {}
  <2>1. \A k \in DOMAIN stack : ~ At(k, "kill", o)
    BY <1>5 DEF BooksInv, FreedOnce, Frees, At
  <2>2. backrefs[o] = <<>> /\ Range(backrefs[o]) = Weak(o)
    BY <1>2, <1>3, <2>1 DEF Staged, Listed, Names
  <2>3. QED  BY <2>2 DEF Range
<1>6. QED  BY <1>1, <1>3, <1>4, <1>5

\* Such a scalar does not lead to an object that is dying.
LEMMA SafeApart ==
    ASSUME BooksInv, NEW s \in Scalar, Safe(s), value[s] # Undef,
           NEW k \in DOMAIN stack, stack[k].at = "kill"
    PROVE  value[s].to # stack[k].obj
<1> DEFINE o == stack[k].obj
<1>1. SUFFICES ASSUME value[s].to = o  PROVE FALSE
  OBVIOUS
<1>2. PICK P \in SUBSET Obj : Guards(P, k)
  BY DEF BooksInv, Guarded
<1>3. value[s] = Ref(o, TRUE)
  BY <1>1, Referred, Gone
<1>4. s \in Weak(o)
  BY <1>3 DEF Weak, Ref
<1>5. CASE s \in Var
  BY <1>1, <1>2, <1>5 DEF Safe
<1>6. CASE s \in Obj
  BY <1>2, <1>4, <1>6 DEF Safe, Guards
<1>7. QED  BY <1>5, <1>6 DEF Scalar

\* Whatever the program stores in a scalar, the books are kept.
LEMMA MutationKeeps ==
    ASSUME BooksInv, NEW s \in Scalar, NEW v \in Values, v # value[s], Mutates(s, v), Safe(s),
           v # Undef => \/ phase[v.to] = "alive"
                        \/ phase[v.to] = "unborn" /\ ~ v.weak,
           v # Undef /\ s \in Obj => phase[s] = "alive"
    PROVE  BooksInv'
<1> DEFINE n == Len(stack)
           New(p) == Pushed(p) /\ value[s] = Ref(p, FALSE) /\ refcnt[p] = 1
<1>1. /\ Links /\ Undef \notin [to : Obj, weak : BOOLEAN]
      /\ stack \in Seq(Frame) /\ n \in Nat /\ DOMAIN stack = 1 .. n
      /\ \A i \in 1 .. n : stack[i] \in Frame /\ stack[i].obj \in Obj
  BY WeakAssumption, StackSteps DEF BooksInv, TypeOK, Links, Frame
<1>2. \A o \in Obj :
         /\ Strong(o)' = IF v = Ref(o, FALSE) THEN Strong(o) \cup {s} ELSE Strong(o) \ {s}
         /\ Weak(o)' = IF v = Ref(o, TRUE) THEN Weak(o) \cup {s} ELSE Weak(o) \ {s}
         /\ s \in Strong(o) <=> value[s] = Ref(o, FALSE)
         /\ s \in Weak(o) <=> value[s] = Ref(o, TRUE)
  BY <1>1, Retarget DEF Mutates
<1>3. \A o \in Obj :
         /\ Counted(o) /\ Listed(o) /\ Staged(o) /\ refcnt[o] \in Nat
         /\ phase[o] \in {"unborn", "alive", "dying", "freed"}
         /\ IsFiniteSet(Strong(o)) /\ Cardinality(Strong(o)) \in Nat
  BY FS_CardinalityType DEF BooksInv, TypeOK, Counted
<1>4. ASSUME NEW p \in Obj, New(p)
      PROVE  /\ Strong(p) = {s} /\ p \notin InDestructor /\ phase[p] = "alive"
             /\ \A i \in 1 .. n : Frees(i) => stack[i].obj # p
             /\ \A o \in Obj : New(o) => o = p
  <2>1. s \in Strong(p) /\ Strong(p) # {} /\ Cardinality(Strong(p)) # 0
    BY <1>2, <1>3, <1>4, FS_EmptySet
  <2>2. Cardinality(Strong(p)) = 1 /\ p \notin InDestructor
    BY <1>3, <1>4, <2>1 DEF Counted
  <2>3. Strong(p) = {s}
    BY <1>3, <2>1, <2>2, FS_Singleton
  <2>4. phase[p] = "alive"
    BY <1>3, <1>4 DEF Staged
  <2>5. \A i \in 1 .. n : Frees(i) => stack[i].obj # p
    BY <1>1, <2>2, <2>4, Gone DEF Frees, InDestructor, Frames
  <2>6. QED  BY <1>4, <2>2, <2>3, <2>4, <2>5 DEF Ref
<1>5. /\ stack' \in Seq(Frame)
      /\ \A i \in 1 .. n : i \in DOMAIN stack' /\ stack'[i] = stack[i]
      /\ \/ stack' = stack /\ \A o \in Obj : ~ New(o)
         \/ \E p \in Obj : /\ New(p) /\ DOMAIN stack' = 1 .. n + 1
                           /\ stack'[n + 1] = Destroy(p)
  <2>1. CASE stack' = stack /\ \A p \in Obj : value[s] = Ref(p, FALSE) => refcnt[p] # 1
    BY <1>1, <2>1
  <2>2. CASE \E p \in Obj : New(p)
    <3>1. PICK p \in Obj : New(p)
      BY <2>2
    <3>2. Destroy(p) \in Frame
      BY DEF Destroy, Frame
    <3>3. LET more == Append(stack, Destroy(p)) IN
          /\ more \in Seq(Frame) /\ DOMAIN more = 1 .. n + 1
          /\ \A i \in 1 .. n : more[i] = stack[i]
          /\ more[n + 1] = Destroy(p)
      BY <1>1, <3>2, StackSteps
    <3>4. /\ stack' \in Seq(Frame) /\ DOMAIN stack' = 1 .. n + 1
          /\ \A i \in 1 .. n : stack'[i] = stack[i]
          /\ stack'[n + 1] = Destroy(p)
      BY <3>1, <3>3 DEF Pushed
    <3>5. \A i \in 1 .. n : i \in 1 .. n + 1
      BY <1>1
    <3> HIDE DEF n, New
    <3>6. QED  BY <3>1, <3>4, <3>5
  <2>3. QED  BY <2>1, <2>2 DEF Mutates
<1>6. \A i \in DOMAIN stack' :
         \/ i \in 1 .. n
         \/ \E p \in Obj : New(p) /\ i = n + 1 /\ stack'[i].at = "destroy" /\ stack'[i].obj = p
  <2>1. CASE stack' = stack
    BY <1>1, <2>1
  <2>2. ASSUME NEW p \in Obj, New(p), DOMAIN stack' = 1 .. n + 1, stack'[n + 1] = Destroy(p)
        PROVE  \A i \in DOMAIN stack' :
                  \/ i \in 1 .. n
                  \/ New(p) /\ i = n + 1 /\ stack'[i].at = "destroy" /\ stack'[i].obj = p
    <3>1. \A i \in 1 .. n + 1 : i \in 1 .. n \/ i = n + 1
      BY <1>1
    <3>2. QED  BY <2>2, <3>1 DEF Destroy
  <2>3. QED  BY <1>5, <2>1, <2>2
<1>7. TypeOK'
  BY <1>1, <1>5 DEF BooksInv, TypeOK, Mutates, Values
<1>8. FreedOnce'
  <2>1. ASSUME NEW i \in DOMAIN stack', NEW j \in DOMAIN stack', Frees(i)', Frees(j)',
               stack'[i].obj = stack'[j].obj
        PROVE  i = j
    <3>1. \A m \in 1 .. n : Frees(m)' => Frees(m)
      BY <1>5 DEF Frees
    <3>2. CASE i \in 1 .. n /\ j \in 1 .. n
      BY <1>1, <1>5, <2>1, <3>1, <3>2 DEF BooksInv, FreedOnce
    <3>3. CASE i \notin 1 .. n /\ j \notin 1 .. n
      BY <1>6, <3>3
    <3>4. ASSUME NEW a \in 1 .. n, NEW b \in DOMAIN stack', b \notin 1 .. n, Frees(a)'
          PROVE  stack'[a].obj # stack'[b].obj
      <4>1. PICK p \in Obj : New(p) /\ stack'[b].obj = p
        BY <1>6, <3>4
      <4>2. stack[a].obj # p /\ stack'[a] = stack[a]
        BY <1>4, <1>5, <3>1, <3>4, <4>1
      <4>3. QED  BY <4>1, <4>2
    <3>5. (i \in 1 .. n) <=> (j \in 1 .. n)
      BY <2>1, <3>4
    <3>6. QED  BY <3>2, <3>3, <3>5
  <2>2. QED  BY <2>1 DEF FreedOnce
<1>9. \A o \in Obj : o \in InDestructor' <=> o \in InDestructor \/ New(o)
  <2>1. ASSUME NEW o \in Obj
        PROVE  /\ o \in InDestructor' <=> \E i \in DOMAIN stack' : At(i, "destroy", o)'
               /\ o \in InDestructor <=> \E i \in 1 .. n : At(i, "destroy", o)
    BY <1>1 DEF InDestructor, Frames, At
  <2>2. ASSUME NEW o \in Obj, NEW i \in 1 .. n
        PROVE  i \in DOMAIN stack' /\ (At(i, "destroy", o)' <=> At(i, "destroy", o))
    BY <1>5 DEF At
  <2>3. ASSUME NEW o \in Obj, New(o)  PROVE \E i \in DOMAIN stack' : At(i, "destroy", o)'
    <3>1. DOMAIN stack' = 1 .. n + 1 /\ stack'[n + 1] = Destroy(o)
      BY <1>4, <1>5, <2>3
    <3>2. n + 1 \in DOMAIN stack'
      BY <1>1, <3>1
    <3>3. QED  BY <3>1, <3>2 DEF At, Destroy
  <2>4. ASSUME NEW o \in Obj, NEW i \in DOMAIN stack', At(i, "destroy", o)', i \notin 1 .. n
        PROVE  New(o)
    BY <1>6, <2>4 DEF At
  <2>5. QED  BY <2>1, <2>2, <2>3, <2>4
<1>10. ASSUME NEW o \in Obj  PROVE Counted(o)'
  <2> DEFINE c == Cardinality(Strong(o))
             d == IF o \in InDestructor THEN 1 ELSE 0
  <2>0. refcnt[o] = c + d /\ c \in Nat /\ d \in Nat /\ d' \in Nat
    BY <1>3 DEF Counted
  <2>1. refcnt'[o] = IF v = Ref(o, FALSE) THEN refcnt[o] + 1
                     ELSE IF value[s] = Ref(o, FALSE) /\ refcnt[o] # 1 THEN refcnt[o] - 1
                     ELSE refcnt[o]
    BY DEF Mutates
  <2>2. CASE v = Ref(o, FALSE)
    <3>1. Strong(o)' = Strong(o) \cup {s} /\ s \notin Strong(o)
      BY <1>2, <2>2
    <3>2. IsFiniteSet(Strong(o)') /\ Cardinality(Strong(o)') = c + 1
      BY <1>3, <3>1, FS_AddElement
    <3>3. ~ New(o) /\ value[s] # Ref(o, FALSE)
      BY <2>2
    <3>4. d' = d
      BY <1>9, <3>3
    <3> HIDE DEF c, d, New
    <3>5. refcnt'[o] = refcnt[o] + 1
      BY <1>3, <2>1, <2>2, <3>3
    <3>6. refcnt'[o] = (c + 1) + d'
      BY ONLY <2>0, <3>4, <3>5
    <3>7. QED  BY <3>2, <3>6 DEF Counted, d
  <2>3. CASE v # Ref(o, FALSE) /\ value[s] = Ref(o, FALSE)
    <3>1. Strong(o)' = Strong(o) \ {s} /\ s \in Strong(o)
      BY <1>2, <2>3
    <3>2. IsFiniteSet(Strong(o)') /\ Cardinality(Strong(o)') = c - 1
      BY <1>3, <3>1, FS_RemoveElement
    <3>3. CASE refcnt[o] = 1
      <4>1. New(o)
        <5>1. PICK p \in Obj : New(p)
          BY <2>3, <3>3 DEF Mutates
        <5>2. p = o
          BY <2>3, <5>1 DEF Ref
        <5>3. QED  BY <5>1, <5>2
      <4>2. d = 0 /\ d' = 1
        BY <1>4, <1>9, <4>1
      <4> HIDE DEF c, d, New
      <4>3. refcnt'[o] = refcnt[o]
        BY <1>3, <2>1, <2>3, <3>3
      <4>4. refcnt'[o] = (c - 1) + d'
        BY ONLY <2>0, <4>2, <4>3, <1>3
      <4>5. QED  BY <3>2, <4>4 DEF Counted, d
    <3>4. CASE refcnt[o] # 1
      <4>1. d' = d
        BY <1>9, <3>4
      <4> HIDE DEF c, d, New
      <4>2. refcnt'[o] = refcnt[o] - 1
        BY <1>3, <2>1, <2>3, <3>4
      <4>3. refcnt'[o] = (c - 1) + d'
        BY ONLY <2>0, <4>1, <4>2
      <4>4. QED  BY <3>2, <4>3 DEF Counted, d
    <3>5. QED  BY <3>3, <3>4
  <2>4. CASE v # Ref(o, FALSE) /\ value[s] # Ref(o, FALSE)
    <3>1. Strong(o)' = Strong(o)
      BY <1>2, <2>4
    <3>2. d' = d
      BY <1>9, <2>4
    <3>3. refcnt'[o] = refcnt[o]
      <4> HIDE DEF c, d, New
      <4>1. QED  BY <1>3, <2>1, <2>4
    <3>4. QED  BY <1>3, <2>0, <3>1, <3>2, <3>3 DEF Counted
  <2>5. QED  BY <2>2, <2>3, <2>4
<1>11. \A o \in Obj : \A i \in DOMAIN stack' : \A at \in {"kill", "empty"} :
          At(i, at, o)' => i \in 1 .. n /\ At(i, at, o)
  BY <1>5, <1>6 DEF At
<1>12. \A o \in Obj : \A i \in 1 .. n : \A at \in {"kill", "empty"} :
          At(i, at, o) => i \in DOMAIN stack' /\ At(i, at, o)'
  BY <1>5 DEF At
<1>13. ASSUME NEW o \in Obj  PROVE Staged(o)'
  <2>1. phase'[o] = IF v # Undef /\ v.to = o /\ phase[o] = "unborn" THEN "alive" ELSE phase[o]
    BY DEF Mutates
  <2>2. phase'[o] = "alive" <=> refcnt'[o] > 0
    <3>1. refcnt'[o] = IF v = Ref(o, FALSE) THEN refcnt[o] + 1
                       ELSE IF value[s] = Ref(o, FALSE) /\ refcnt[o] # 1 THEN refcnt[o] - 1
                       ELSE refcnt[o]
      BY DEF Mutates
    <3>2. CASE v = Ref(o, FALSE)
      <4>1. refcnt'[o] = refcnt[o] + 1 /\ refcnt[o] \in Nat
        <5>1. value[s] # Ref(o, FALSE)
          BY <3>2
        <5>2. QED  BY ONLY <1>3, <3>1, <3>2, <5>1, o \in Obj
      <4>2. v # Undef /\ v.to = o
        BY <3>2, RefFacts
      <4>3. QED  BY <2>1, <4>1, <4>2
    <3>3. CASE v # Ref(o, FALSE) /\ value[s] = Ref(o, FALSE)
      <4>1. value[s] # Undef /\ value[s].to = o /\ value[s] # Ref(o, TRUE)
        BY <3>3, RefFacts
      <4>2. phase[o] = "alive"
        BY <4>1, Referred
      <4>3. refcnt[o] \in Nat /\ refcnt[o] > 0
        BY <1>3, <4>2 DEF Staged
      <4>4. refcnt'[o] > 0
        BY <3>1, <3>3, <4>3
      <4>5. QED  BY <2>1, <4>2, <4>4
    <3>4. CASE v # Ref(o, FALSE) /\ value[s] # Ref(o, FALSE)
      <4>1. refcnt'[o] = refcnt[o]
        BY <1>3, <3>1, <3>4
      <4>2. ~ (v # Undef /\ v.to = o /\ phase[o] = "unborn")
        <5>1. SUFFICES ASSUME v # Undef, v.to = o, phase[o] = "unborn"  PROVE FALSE
          OBVIOUS
        <5>2. v = Ref(o, FALSE)
          BY <5>1 DEF Values, Ref
        <5>3. QED  BY <5>2, <3>4
      <4>3. QED  BY <1>3, <2>1, <4>1, <4>2 DEF Staged
    <3>5. QED  BY <3>2, <3>3, <3>4
  <2>3. phase'[o] \in {"dying", "freed"} <=> phase[o] \in {"dying", "freed"}
    BY <1>3, <2>1
  <2>4. phase'[o] = "dying" <=> \E i \in DOMAIN stack' : At(i, "kill", o)' \/ At(i, "empty", o)'
    <3>1. phase'[o] = "dying" <=> phase[o] = "dying"
      BY <1>3, <2>1
    <3>2. phase[o] = "dying" <=> \E i \in 1 .. n : At(i, "kill", o) \/ At(i, "empty", o)
      BY <1>1, <1>3 DEF Staged
    <3>3. QED  BY <1>11, <1>12, <3>1, <3>2
  <2>5. phase'[o] = "dying" => backrefs'[o] = <<>>
    BY <1>3, <2>1 DEF Mutates, Staged
  <2>6. ASSUME phase'[o] \in {"unborn", "freed"}
        PROVE  value'[o] = Undef /\ Weak(o)' = {}
    <3>1. phase[o] = phase'[o] /\ value[o] = Undef /\ Weak(o) = {}
      BY <1>3, <2>1, <2>6 DEF Staged
    <3>2. value'[o] = IF o = s THEN v ELSE value[o]
      BY <1>1 DEF Mutates, Links, Scalar
    <3>3. v # Ref(o, TRUE)
      <4>1. SUFFICES ASSUME v = Ref(o, TRUE)  PROVE FALSE
        OBVIOUS
      <4>2. v # Undef /\ v.to = o /\ v.weak
        BY <4>1, RefFacts
      <4>3. QED  BY <2>6, <3>1, <4>2
    <3>4. o = s => v = Undef
      BY <2>6, <3>1
    <3>5. QED  BY <1>2, <3>1, <3>2, <3>3, <3>4
  <2>7. QED  BY <2>2, <2>4, <2>5, <2>6 DEF Staged
<1>14. ASSUME NEW k \in 1 .. n, stack[k].at = "kill"
       PROVE  LET o == stack[k].obj IN
              /\ v # Undef => v.to # o
              /\ value[s] # Undef => value[s].to # o
  BY <1>1, <1>14, Gone, SafeApart
<1>15. ASSUME NEW o \in Obj  PROVE Listed(o)'
  <2>1. ASSUME NEW i \in DOMAIN stack', At(i, "kill", o)'
        PROVE  Names(stack[i].list, o)'
    <3>1. i \in 1 .. n /\ At(i, "kill", o) /\ stack'[i] = stack[i]
      BY <1>5, <1>11, <2>1
    <3>3. Weak(o)' = Weak(o)
      <4>1. /\ v # Undef => v.to # o
            /\ value[s] # Undef => value[s].to # o
        BY <1>14, <3>1 DEF At
      <4>2. v # Ref(o, TRUE) /\ value[s] # Ref(o, TRUE)
        BY <4>1, RefFacts
      <4>3. QED  BY <1>2, <4>2
    <3>4. Names(stack[i].list, o)
      BY <1>1, <1>3, <3>1 DEF Listed
    <3>5. QED  BY <3>1, <3>3, <3>4 DEF Names
  <2>2. ASSUME \A i \in DOMAIN stack' : ~ At(i, "kill", o)'
        PROVE  Names(backrefs[o], o)'
    <3>1. \A i \in 1 .. n : ~ At(i, "kill", o)
      BY <1>12, <2>2
    <3>2. CASE \A i \in 1 .. n : ~ At(i, "empty", o)
      BY <1>1, <3>1, <3>2 DEF Mutates
    <3>3. CASE \E i \in 1 .. n : At(i, "empty", o)
      <4>1. PICK i \in 1 .. n : At(i, "empty", o)
        BY <3>3
      <4>2. Weak(o) = {} /\ phase[o] = "dying" /\ Names(backrefs[o], o)
        BY <1>1, <1>3, <3>1, <4>1, Gone DEF At, Listed
      <4>3. backrefs'[o] = backrefs[o]
        BY <1>1, <4>1 DEF Mutates
      <4>4. v # Ref(o, TRUE)
        <5>1. v = Ref(o, TRUE) => v # Undef /\ v.to = o
          BY RefFacts
        <5>2. QED  BY <4>2, <5>1
      <4>5. Weak(o)' = Weak(o)
        BY <1>2, <4>2, <4>4
      <4>6. QED  BY <4>2, <4>3, <4>5 DEF Names
    <3>4. QED  BY <3>2, <3>3
  <2>3. QED  BY <2>1, <2>2 DEF Listed
<1>16. ASSUME NEW k \in 1 .. n, stack[k].at = "kill", NEW P \in SUBSET Obj, Guards(P, k)
       PROVE  Guards(P, k)'
  <2>1. PICK o \in Obj : o = stack[k].obj
    BY <1>1
  <2>2. stack'[k].obj = o
    BY <1>5, <2>1
  <2>3. /\ Weak(o) \cap Obj \subseteq P
        /\ \A u \in P :
              /\ value[u] # Undef
              /\ value[u].to \in P \cup {o}
              /\ o \in Closure({value[u].to}, {})
              /\ \A j \in 1 .. n : j > k /\ Frees(j) => stack[j].obj # u
              /\ \/ \E r \in Var \cup P : value[r] = Ref(u, FALSE)
                 \/ \E j \in 1 .. k : Frees(j) /\ stack[j].obj = u
    BY <1>1, <1>16, <2>1 DEF Guards, Ref
  <2>4. /\ s \notin P
        /\ s \in Var /\ value[s] # Undef => value[s].to \notin P
    BY <1>1, <1>16 DEF Safe
  <2>5. \A r \in Scalar : r # s => value'[r] = value[r]
    BY DEF Mutates
  <2>6. \A u \in P : u \in Scalar /\ u # s /\ value'[u] = value[u]
    BY <2>4, <2>5 DEF Scalar
  <2>7. Weak(o)' \cap Obj \subseteq P
    <3>1. /\ v # Undef => v.to # o
          /\ value[s] # Undef => value[s].to # o
      BY <1>14, <1>16, <2>1
    <3>2. v # Ref(o, TRUE) /\ value[s] # Ref(o, TRUE)
      BY <3>1, RefFacts
    <3>3. Weak(o)' = Weak(o) \ {s}
      BY <1>2, <3>2
    <3>4. Weak(o) \cap Obj \subseteq P
      BY <2>3
    <3>5. QED  BY ONLY <3>3, <3>4
  <2>8. ASSUME NEW u \in P
        PROVE  /\ value'[u] # Undef
               /\ value'[u].to \in P \cup {o}
               /\ o \in Closure({value[u].to}, {})'
    <3>1. PICK w \in P \cup {o} : w = value[u].to
      BY <2>3
    <3>2. o \in Closure({w}, {})
      BY <2>3, <3>1
    <3>3. \A x \in P : value'[x] = value[x] /\ value[x].to \in P \cup {o}
      BY <2>3, <2>6
    <3>4. o \in Closure({w}, {})'
      BY <3>2, <3>3, PathKept
    <3>5. value'[u].to = w
      BY <2>6, <3>1
    <3>6. QED  BY <2>3, <2>6, <3>4, <3>5
  <2>9. ASSUME NEW u \in P, NEW r \in Var \cup P, value[r] = Ref(u, FALSE)
        PROVE  r # s /\ value'[r] = Ref(u, FALSE)
    <3>1. value[r] # Undef /\ value[r].to = u
      BY <2>9, RefFacts
    <3>2. r # s
      BY <2>4, <3>1
    <3>3. QED  BY <2>5, <2>9, <3>2 DEF Scalar
  <2>10. ASSUME NEW u \in P, NEW j \in DOMAIN stack', j > k, Frees(j)'
         PROVE  stack'[j].obj # u
    <3>1. CASE j \in 1 .. n
      <4>1. stack'[j] = stack[j] /\ Frees(j)
        BY <1>5, <2>10, <3>1 DEF Frees
      <4>2. stack[j].obj # u
        BY <2>3, <2>10, <3>1, <4>1
      <4>3. QED  BY <4>1, <4>2
    <3>2. CASE j \notin 1 .. n
      <4>1. PICK p \in Obj : New(p) /\ stack'[j].obj = p
        BY <1>6, <3>2
      <4>2. Strong(p) = {s} /\ \A i \in 1 .. n : Frees(i) => stack[i].obj # p
        BY <1>4, <4>1
      <4>3. ASSUME u = p  PROVE FALSE
        <5>1. CASE \E r \in Var \cup P : value[r] = Ref(u, FALSE)
          <6>1. PICK r \in Var \cup P : value[r] = Ref(u, FALSE)
            BY <5>1
          <6>2. r \in Strong(p) /\ r # s
            BY <2>9, <4>3, <6>1 DEF Strong, Ref, Scalar
          <6>3. QED  BY <4>2, <6>2
        <5>2. CASE \E i \in 1 .. k : Frees(i) /\ stack[i].obj = u
          BY <1>1, <4>2, <4>3, <5>2
        <5>3. QED  BY <2>3, <5>1, <5>2
      <4>4. QED  BY <4>1, <4>3
    <3>3. QED  BY <3>1, <3>2
  <2>11. ASSUME NEW u \in P
         PROVE  \/ \E r \in Var \cup P : value'[r] = Ref(u, FALSE)
                \/ \E j \in 1 .. k : Frees(j)' /\ stack'[j].obj = u
    <3>1. CASE \E r \in Var \cup P : value[r] = Ref(u, FALSE)
      BY <2>9, <3>1
    <3>2. CASE \E j \in 1 .. k : Frees(j) /\ stack[j].obj = u
      <4>1. PICK j \in 1 .. k : Frees(j) /\ stack[j].obj = u
        BY <3>2
      <4>2. j \in 1 .. n
        BY <1>1
      <4>3. stack'[j] = stack[j]
        BY <1>5, <4>2
      <4>4. QED  BY <4>1, <4>3 DEF Frees
    <3>3. QED  BY <2>3, <3>1, <3>2
  <2>12. QED
    BY <2>2, <2>7, <2>8, <2>10, <2>11 DEF Guards, Ref
<1>17. Guarded'
  <2>1. ASSUME NEW k \in DOMAIN stack', stack'[k].at = "kill"
        PROVE  \E P \in SUBSET Obj : Guards(P, k)'
    <3>1. k \in 1 .. n /\ stack[k].at = "kill"
      BY <1>5, <1>6, <2>1
    <3>2. PICK P \in SUBSET Obj : Guards(P, k)
      BY <1>1, <3>1 DEF BooksInv, Guarded
    <3>3. QED  BY <1>16, <3>1, <3>2
  <2>2. QED  BY <2>1 DEF Guarded
<1>18. QED
  BY <1>7, <1>8, <1>10, <1>13, <1>15, <1>17 DEF BooksInv, Mutates

\* A strong reference is given up: the count falls, or the object is destroyed.
LEMMA ReleaseCounts ==
    ASSUME BooksInv, NEW s \in Scalar, NEW p \in Obj, value[s] = Ref(p, FALSE),
           NEW cnt \in [Obj -> Nat], cnt[p] = refcnt[p], Release(cnt, p, stack)
    PROVE  /\ refcnt' \in [Obj -> Nat]
           /\ \A o \in Obj : refcnt'[o] = cnt[o] - (IF o = p /\ refcnt[p] # 1 THEN 1 ELSE 0)
           /\ IF refcnt[p] = 1 THEN Pushed(p) ELSE stack' = stack
<1>1. refcnt[p] \in Nat /\ refcnt[p] > 0
  <2>1. value[s] # Undef /\ value[s].to = p /\ value[s] # Ref(p, TRUE)
    BY RefFacts
  <2>2. phase[p] = "alive"
    BY <2>1, Referred
  <2>3. QED  BY <2>2 DEF BooksInv, TypeOK, Staged
<1>2. CASE refcnt[p] = 1
  BY <1>2 DEF Release, Pushed
<1>3. CASE refcnt[p] # 1
  BY <1>1, <1>3 DEF Release
<1>4. QED  BY <1>2, <1>3

\* A weak reference to an object that is not dying goes, and its entry with it.
LEMMA DelBackrefNames ==
    ASSUME BooksInv, NEW s \in Scalar, NEW p \in Obj, value[s] = Ref(p, TRUE),
           \A k \in DOMAIN stack : ~ At(k, "kill", p),
           NEW v \in Values, \A o \in Obj : v # Ref(o, TRUE), value' = [value EXCEPT ![s] = v],
           DelBackref(p, s)
    PROVE  /\ panicked' = FALSE
           /\ backrefs' \in [Obj -> Seq(Scalar)]
           /\ \A o \in Obj :
                 IF \E i \in DOMAIN stack : At(i, "kill", o) \/ At(i, "empty", o)
                 THEN backrefs'[o] = backrefs[o]
                 ELSE Names(backrefs[o], o)'
<1>1. Links /\ backrefs \in [Obj -> Seq(Scalar)] /\ backrefs[p] \in Seq(Scalar)
  BY DEF BooksInv, TypeOK, Links
<1>2. Names(backrefs[p], p) /\ s \in Weak(p) /\ s \in Range(backrefs[p])
  <2>1. s \in Weak(p)
    BY DEF Weak, Ref
  <2>2. Listed(p)
    BY DEF BooksInv
  <2>3. QED  BY <2>1, <2>2 DEF Listed, Names
<1>3. PICK i \in DOMAIN backrefs[p] :
         backrefs[p][i] = s /\ backrefs' = [backrefs EXCEPT ![p] = Without(backrefs[p], i)]
  <2>1. \E i \in DOMAIN backrefs[p] : backrefs[p][i] = s
    BY <1>2 DEF Range
  <2>2. backrefs' = [backrefs EXCEPT
           ![p] = Without(backrefs[p], CHOOSE i \in DOMAIN backrefs[p] : backrefs[p][i] = s)]
    BY <1>1, <1>2 DEF DelBackref
  <2>3. QED  BY <2>1, <2>2
<1>4. /\ Without(backrefs[p], i) \in Seq(Scalar)
      /\ Range(Without(backrefs[p], i)) = Weak(p) \ {s}
      /\ IsInjective(Without(backrefs[p], i))
  BY <1>1, <1>2, <1>3, WithoutNames DEF Names
<1>5. /\ backrefs' \in [Obj -> Seq(Scalar)]
      /\ backrefs'[p] = Without(backrefs[p], i)
      /\ \A o \in Obj : o # p => backrefs'[o] = backrefs[o]
  BY <1>1, <1>3, <1>4
<1>6. \A o \in Obj : Weak(o)' = IF o = p THEN Weak(p) \ {s} ELSE Weak(o)
  <2>1. \A o \in Obj : o # p => value[s] # Ref(o, TRUE)
    BY RefInjective
  <2>2. \A o \in Obj : Weak(o)' = Weak(o) \ {s} /\ (s \in Weak(o) <=> value[s] = Ref(o, TRUE))
    <3>1. SUFFICES ASSUME NEW o \in Obj
                   PROVE  Weak(o)' = Weak(o) \ {s} /\ (s \in Weak(o) <=> value[s] = Ref(o, TRUE))
      OBVIOUS
    <3>2. /\ Weak(o)' = IF v = Ref(o, TRUE) THEN Weak(o) \cup {s} ELSE Weak(o) \ {s}
          /\ s \in Weak(o) <=> value[s] = Ref(o, TRUE)
      BY ONLY <1>1, s \in Scalar, value' = [value EXCEPT ![s] = v], o \in Obj, Retarget
    <3>3. QED  BY <3>2
  <2>3. QED  BY <2>1, <2>2
<1>7. Names(backrefs[p], p)'
  BY <1>4, <1>5, <1>6 DEF Names
<1>8. ASSUME NEW o \in Obj, o # p,
             ~ \E j \in DOMAIN stack : At(j, "kill", o) \/ At(j, "empty", o)
      PROVE  Names(backrefs[o], o)'
  <2>1. Names(backrefs[o], o)
    BY <1>8 DEF BooksInv, Listed
  <2>2. QED  BY <1>5, <1>6, <1>8, <2>1 DEF Names
<1>9. \A j \in DOMAIN stack : ~ At(j, "empty", p)
  BY <1>2, Gone DEF At
<1>10. panicked' = FALSE
  BY <1>2 DEF DelBackref
<1>11. QED  BY <1>5, <1>7, <1>8, <1>9, <1>10

\* Assignments and undef take this way.
LEMMA UnrefMutates ==
    ASSUME BooksInv, NEW s \in Scalar, Safe(s),
           NEW v \in Values, v # value[s], \A o \in Obj : v # Ref(o, TRUE),
           value' = [value EXCEPT ![s] = v],
           phase' = [o \in Obj |-> IF v # Undef /\ v.to = o /\ phase[o] = "unborn"
                                   THEN "alive" ELSE phase[o]],
           NEW cnt \in [Obj -> Nat],
           \A o \in Obj : cnt[o] = IF v = Ref(o, FALSE) THEN refcnt[o] + 1 ELSE refcnt[o],
           Unref(cnt, s, stack)
    PROVE  Mutates(s, v)
<1>1. Links /\ refcnt \in [Obj -> Nat] /\ backrefs \in [Obj -> Seq(Scalar)] /\ panicked = FALSE
  BY DEF BooksInv, TypeOK, Links
<1>2. CASE \A p \in Obj : value[s] # Ref(p, TRUE)
  <2>1. /\ backrefs' = backrefs /\ panicked' = FALSE
        /\ IF value[s] = Undef THEN refcnt' = cnt /\ stack' = stack
           ELSE Release(cnt, value[s].to, stack)
    <3>1. value[s] # Undef => ~ value[s].weak
      BY <1>1, <1>2, References DEF Ref
    <3>2. QED  BY <1>1, <3>1 DEF Unref
  <2>2. ASSUME NEW o \in Obj
        PROVE  IF \E i \in DOMAIN stack : At(i, "kill", o) \/ At(i, "empty", o)
               THEN backrefs'[o] = backrefs[o]
               ELSE Names(backrefs[o], o)'
    <3>1. Weak(o)' = Weak(o)
      <4>1. Weak(o)' = Weak(o) \ {s} /\ s \notin Weak(o)
        BY <1>1, <1>2, Retarget
      <4>2. QED  BY <4>1
    <3>2. Listed(o)
      BY DEF BooksInv
    <3>3. QED  BY <2>1, <3>1, <3>2 DEF Listed, Names
  <2>3. CASE value[s] = Undef
    <3>1. \A p \in Obj : value[s] # Ref(p, FALSE)
      BY <2>3, RefFacts
    <3>2. refcnt' = cnt /\ stack' = stack
      BY <2>1, <2>3
    <3>3. \A o \in Obj : refcnt'[o] = IF v = Ref(o, FALSE) THEN refcnt[o] + 1
                                      ELSE IF value[s] = Ref(o, FALSE) /\ refcnt[o] # 1 THEN refcnt[o] - 1
                                      ELSE refcnt[o]
      BY <3>1, <3>2
    <3>4. QED  BY <1>1, <2>1, <2>2, <3>1, <3>2, <3>3 DEF Mutates
  <2>4. CASE value[s] # Undef
    <3>1. PICK p \in Obj : value[s] = Ref(p, FALSE)
      BY <1>1, <1>2, <2>4, References DEF Ref
    <3>2. /\ \A o \in Obj : value[s] = Ref(o, FALSE) <=> o = p
          /\ value[s].to = p
      <4>1. \A o \in Obj : Ref(p, FALSE) = Ref(o, FALSE) <=> o = p
        BY RefInjective
      <4>2. QED  BY <3>1, <4>1, RefFacts
    <3>3. cnt[p] = refcnt[p]
      BY <3>1
    <3>4. Release(cnt, p, stack)
      BY <2>1, <2>4, <3>2
    <3>5. /\ refcnt' \in [Obj -> Nat]
          /\ \A o \in Obj : refcnt'[o] = cnt[o] - (IF o = p /\ refcnt[p] # 1 THEN 1 ELSE 0)
          /\ IF refcnt[p] = 1 THEN Pushed(p) ELSE stack' = stack
      BY <3>1, <3>3, <3>4, ReleaseCounts
    <3>6. ASSUME NEW o \in Obj
          PROVE  refcnt'[o] = IF v = Ref(o, FALSE) THEN refcnt[o] + 1
                              ELSE IF value[s] = Ref(o, FALSE) /\ refcnt[o] # 1 THEN refcnt[o] - 1
                              ELSE refcnt[o]
      <4>1. CASE v = Ref(o, FALSE)
        <5>1. o # p /\ cnt[o] = refcnt[o] + 1 /\ cnt[o] \in Nat
          BY <3>1, <4>1
        <5>2. refcnt'[o] = cnt[o]
          BY <3>5, <5>1
        <5>3. QED  BY <4>1, <5>1, <5>2
      <4>2. CASE v # Ref(o, FALSE)
        <5>1. cnt[o] = refcnt[o] /\ cnt[o] \in Nat
          BY <4>2
        <5>2. refcnt'[o] = IF o = p /\ refcnt[p] # 1 THEN cnt[o] - 1 ELSE cnt[o]
          BY <3>5, <5>1
        <5>3. QED  BY <3>2, <4>2, <5>1, <5>2
      <4>3. QED  BY <4>1, <4>2
    <3>7. \/ stack' = stack /\ \A q \in Obj : value[s] = Ref(q, FALSE) => refcnt[q] # 1
          \/ \E q \in Obj : Pushed(q) /\ value[s] = Ref(q, FALSE) /\ refcnt[q] = 1
      BY <3>1, <3>2, <3>5
    <3>8. QED  BY <1>1, <2>1, <2>2, <3>5, <3>6, <3>7 DEF Mutates
  <2>5. QED  BY <2>3, <2>4
<1>3. CASE \E p \in Obj : value[s] = Ref(p, TRUE)
  <2>1. PICK p \in Obj : value[s] = Ref(p, TRUE)
    BY <1>3
  <2>2. value[s] # Undef /\ value[s].to = p /\ value[s].weak
    BY <2>1, RefFacts
  <2>3. DelBackref(p, s) /\ refcnt' = cnt /\ stack' = stack
    BY <2>2 DEF Unref
  <2>4. \A k \in DOMAIN stack : ~ At(k, "kill", p)
    BY <2>2, SafeApart DEF At
  <2>5. \A o \in Obj : value[s] # Ref(o, FALSE)
    BY <2>2, RefFacts
  <2>6. /\ panicked' = FALSE
        /\ backrefs' \in [Obj -> Seq(Scalar)]
        /\ \A o \in Obj :
              IF \E i \in DOMAIN stack : At(i, "kill", o) \/ At(i, "empty", o)
              THEN backrefs'[o] = backrefs[o]
              ELSE Names(backrefs[o], o)'
    BY <2>1, <2>3, <2>4, DelBackrefNames
  <2>7. \A o \in Obj : refcnt'[o] = IF v = Ref(o, FALSE) THEN refcnt[o] + 1
                                    ELSE IF value[s] = Ref(o, FALSE) /\ refcnt[o] # 1 THEN refcnt[o] - 1
                                    ELSE refcnt[o]
    BY <2>3, <2>5
  <2>8. QED  BY <2>3, <2>5, <2>6, <2>7 DEF Mutates
<1>4. QED  BY <1>2, <1>3

-----------------------------------------------------------------------------
\* What the program can get at.

\* What Perl code makes use of is nothing that a dying object depends on.
LEMMA UsableSafe ==
    ASSUME BooksInv, NEW s \in Scalar, Usable(s), ~ Intrudes
    PROVE  Safe(s)
<1>1. Links
  BY DEF BooksInv, TypeOK, Links
<1>2. ASSUME NEW k \in DOMAIN stack, stack[k].at = "kill", NEW P \in SUBSET Obj, Guards(P, k),
             value[s] # Undef, stack[k].obj \in Closure({value[s].to}, {})
      PROVE  FALSE
  <2>1. Targets({s}) = {value[s].to}
    BY <1>2 DEF Targets
  <2>2. stack[k].obj \in Dying
    BY <1>2 DEF Dying
  <2>3. QED  BY <1>2, <2>1, <2>2 DEF Usable
<1>3. ASSUME NEW k \in DOMAIN stack, stack[k].at = "kill", NEW P \in SUBSET Obj, Guards(P, k)
      PROVE  /\ s \notin P
             /\ value[s] # Undef => value[s].to \notin P \cup {stack[k].obj}
  <2> DEFINE o == stack[k].obj
  <2>1. s \notin P
    <3>1. s \in P => value[s] # Undef /\ o \in Closure({value[s].to}, {})
      BY <1>3 DEF Guards
    <3>2. QED  BY <1>2, <1>3, <3>1
  <2>2. ASSUME value[s] # Undef, value[s].to \in P \cup {o}
        PROVE  FALSE
    <3>1. value[s].to \in Obj
      BY <1>1, <2>2, References
    <3>2. CASE value[s].to = o
      <4>1. o \in Closure({o}, {})
        BY <1>1, <3>1, <3>2, ClosureClosed
      <4>2. QED  BY <1>2, <1>3, <2>2, <3>2, <4>1
    <3>3. CASE value[s].to \in P
      <4>1. PICK w \in P : w = value[s].to
        BY <3>3
      <4>2. value[w] # Undef /\ o \in Closure({value[w].to}, {})
        BY <1>3 DEF Guards
      <4>3. o \in Closure({w}, {})
        BY <1>1, <4>2, Backward
      <4>4. QED  BY <1>2, <1>3, <2>2, <4>1, <4>3
    <3>4. QED  BY <2>2, <3>2, <3>3
  <2>3. QED  BY <2>1, <2>2
<1>4. QED  BY <1>3 DEF Safe

\* And it is alive.
LEMMA ReachAlive ==
    ASSUME BooksInv, ~ Intrudes, NEW o \in Reach
    PROVE  o \in Obj /\ phase[o] = "alive"
<1> DEFINE Roots == Targets(Var) \cup IF Top("destroy") THEN {Inner.obj} ELSE {}
           Alive == {u \in Obj : phase[u] = "alive"}
<1>1. \A s \in Scalar : value[s] # Undef =>
         value[s].to \in Obj /\ (phase[value[s].to] = "alive" \/ value[s].to \in Dying)
  <2>1. ASSUME NEW s \in Scalar, value[s] # Undef
        PROVE  value[s].to \in Obj /\ (phase[value[s].to] = "alive" \/ value[s].to \in Dying)
    <3>1. value[s].to \in Obj
      BY <2>1, References DEF BooksInv, TypeOK, Links
    <3>2. \/ phase[value[s].to] = "alive"
          \/ \E k \in DOMAIN stack : At(k, "kill", value[s].to)
      BY <2>1, Referred
    <3>3. QED  BY <3>1, <3>2 DEF At, Dying
  <2>2. QED  BY <2>1
<1>2. ASSUME Top("destroy")
      PROVE  Inner.obj \in Alive
  <2>1. /\ Len(stack) \in DOMAIN stack /\ Inner = stack[Len(stack)]
        /\ Inner.at = "destroy" /\ Inner.obj \in Obj
    BY <1>2, StackSteps DEF BooksInv, TypeOK, Top, Frame
  <2>2. Inner.obj \in InDestructor
    BY <2>1 DEF InDestructor, Frames
  <2>3. Counted(Inner.obj) /\ Staged(Inner.obj)
    BY <2>1 DEF BooksInv
  <2>4. Cardinality(Strong(Inner.obj)) \in Nat
    BY <2>3, FS_CardinalityType DEF Counted
  <2>5. refcnt[Inner.obj] > 0
    BY <2>2, <2>3, <2>4 DEF Counted
  <2>6. QED  BY <2>1, <2>3, <2>5 DEF Staged
<1>3. (Roots \cup Targets(Alive)) \ Dying \subseteq Alive
  BY <1>1, <1>2 DEF Targets, Scalar
<1>4. Closure(Roots, Dying) \subseteq Alive
  <2> HIDE DEF Roots
  <2>1. Alive \in SUBSET Obj
    OBVIOUS
  <2> HIDE DEF Alive
  <2>2. QED  BY <1>3, <2>1, ClosureLeast
<1>5. Reach = Closure(Roots, Dying)
  BY DEF Reach
<1>6. QED  BY <1>4, <1>5

-----------------------------------------------------------------------------
\* The operations of Perl code.

LEMMA AssignKeeps ==
    ASSUME BooksInv, ~ Intrudes, NEW s \in Scalar, NEW o \in Obj, Assign(s, o)
    PROVE  /\ BooksInv' /\ Mutates(s, Ref(o, FALSE)) /\ value[s] # Ref(o, FALSE)
           /\ phase[o] = "alive" \/ phase[o] = "unborn"
<1> DEFINE v == Ref(o, FALSE)
<1>1. v \in Values /\ v # value[s] /\ v # Undef /\ v.to = o /\ ~ v.weak
  BY RefFacts DEF Assign, Values, Ref
<1>2. Safe(s)
  BY UsableSafe DEF Assign
<1>3. phase[o] = "alive" \/ phase[o] = "unborn"
  BY ReachAlive DEF Assign
<1>4. s \in Obj => phase[s] = "alive"
  BY ReachAlive, WeakAssumption DEF Assign, Usable
<1>5. Mutates(s, v)
  <2>1. \A p \in Obj : v # Ref(p, TRUE)
    BY RefInjective
  <2>2. value' = [value EXCEPT ![s] = v]
    BY DEF Assign, Ref
  <2>3. phase' = [p \in Obj |-> IF v # Undef /\ v.to = p /\ phase[p] = "unborn"
                                THEN "alive" ELSE phase[p]]
    BY <1>1 DEF Assign, BooksInv, TypeOK
  <2>4. PICK cnt \in [Obj -> Nat] : cnt = [refcnt EXCEPT ![o] = @ + 1]
    <3>1. refcnt \in [Obj -> Nat]
      BY DEF BooksInv, TypeOK
    <3>2. [refcnt EXCEPT ![o] = @ + 1] \in [Obj -> Nat]
      BY <3>1
    <3>3. QED  BY <3>2
  <2>5. \A p \in Obj : cnt[p] = IF v = Ref(p, FALSE) THEN refcnt[p] + 1 ELSE refcnt[p]
    BY <2>4, RefInjective DEF BooksInv, TypeOK
  <2>6. Unref(cnt, s, stack)
    BY <2>4 DEF Assign
  <2> HIDE DEF v
  <2>7. QED  BY <1>1, <1>2, <2>1, <2>2, <2>3, <2>5, <2>6, UnrefMutates
<1>6. BooksInv'
  <2> HIDE DEF v
  <2>1. QED  BY <1>1, <1>2, <1>3, <1>4, <1>5, MutationKeeps
<1>7. QED  BY <1>1, <1>3, <1>5, <1>6

\* s is emptied, by the program or with the object it belongs to.
LEMMA EmptyingMutates ==
    ASSUME BooksInv, NEW s \in Scalar, Safe(s), value[s] # Undef,
           value' = [value EXCEPT ![s] = Undef], phase' = phase, Unref(refcnt, s, stack)
    PROVE  Mutates(s, Undef) /\ BooksInv'
<1>1. Undef \in Values /\ \A p \in Obj : \A w \in BOOLEAN : Undef # Ref(p, w)
  BY RefFacts DEF Values
<1>2. phase' = [p \in Obj |-> IF Undef # Undef /\ Undef.to = p /\ phase[p] = "unborn"
                              THEN "alive" ELSE phase[p]]
  BY DEF BooksInv, TypeOK
<1>3. PICK cnt \in [Obj -> Nat] : cnt = refcnt
  BY DEF BooksInv, TypeOK
<1>4. \A p \in Obj : cnt[p] = IF Undef = Ref(p, FALSE) THEN refcnt[p] + 1 ELSE refcnt[p]
  BY <1>1, <1>3
<1>5. Mutates(s, Undef)
  BY <1>1, <1>2, <1>3, <1>4, UnrefMutates
<1>6. QED  BY <1>1, <1>5, MutationKeeps

LEMMA ClearKeeps ==
    ASSUME BooksInv, ~ Intrudes, NEW s \in Scalar, Clear(s)
    PROVE  BooksInv' /\ Mutates(s, Undef) /\ value[s] # Undef
BY UsableSafe, EmptyingMutates DEF Clear

LEMMA WeakenMutates ==
    ASSUME BooksInv, ~ Intrudes, NEW s \in Scalar, Weaken(s)
    PROVE  BooksInv' /\ \E p \in Obj : /\ phase[p] = "alive" /\ value[s] = Ref(p, FALSE)
                                       /\ Mutates(s, Ref(p, TRUE))
<1>1. Links /\ backrefs \in [Obj -> Seq(Scalar)] /\ refcnt \in [Obj -> Nat]
  BY DEF BooksInv, TypeOK, Links
<1>2. PICK p \in Obj : value[s] = Ref(p, FALSE)
  BY <1>1, References DEF Weaken, Ref
<1> DEFINE v == Ref(p, TRUE)
<1>3. /\ v \in Values /\ v # value[s] /\ v # Undef /\ v.to = p
      /\ value[s] # Undef /\ value[s].to = p
      /\ value[s] # Ref(p, TRUE)
      /\ \A o \in Obj : v # Ref(o, FALSE)
      /\ \A o \in Obj : v = Ref(o, TRUE) <=> o = p
      /\ \A o \in Obj : value[s] = Ref(o, FALSE) <=> o = p
      /\ \A o \in Obj : value[s] # Ref(o, TRUE)
  <2>1. \A o \in Obj : /\ Ref(p, TRUE) = Ref(o, TRUE) <=> o = p
                       /\ Ref(p, FALSE) = Ref(o, FALSE) <=> o = p
                       /\ Ref(p, TRUE) # Ref(o, FALSE) /\ Ref(p, FALSE) # Ref(o, TRUE)
    BY RefInjective
  <2>2. \A w \in BOOLEAN : Ref(p, w) \in Values /\ Ref(p, w) # Undef /\ Ref(p, w).to = p
    BY RefFacts DEF Values
  <2>3. QED  BY <1>2, <2>1, <2>2
<1>4. phase[p] = "alive"
  BY <1>3, Referred
<1>5. Safe(s)
  BY UsableSafe DEF Weaken
<1>6. s \in Obj => phase[s] = "alive"
  BY ReachAlive, WeakAssumption DEF Weaken, Usable
<1>7. value' = [value EXCEPT ![s] = v] /\ panicked' = FALSE /\ phase' = phase
  <2>1. value[s].to = p
    BY <1>3
  <2>2. QED  BY <2>1 DEF Weaken, BooksInv, TypeOK, Ref
<1>8. backrefs' = [backrefs EXCEPT ![p] = Append(@, s)]
  BY <1>3 DEF Weaken, AddBackref
<1>9. /\ refcnt' \in [Obj -> Nat]
      /\ \A o \in Obj : refcnt'[o] = refcnt[o] - (IF o = p /\ refcnt[p] # 1 THEN 1 ELSE 0)
      /\ IF refcnt[p] = 1 THEN Pushed(p) ELSE stack' = stack
  <2>1. PICK cnt \in [Obj -> Nat] : cnt = refcnt
    BY <1>1
  <2>2. Release(cnt, p, stack)
    BY <1>3, <2>1 DEF Weaken
  <2>3. QED  BY <1>2, <2>1, <2>2, ReleaseCounts
<1>10. \A o \in Obj : /\ Weak(o)' = IF o = p THEN Weak(o) \cup {s} ELSE Weak(o)
                      /\ s \notin Weak(o)
  <2>1. \A o \in Obj : /\ Weak(o)' = IF v = Ref(o, TRUE) THEN Weak(o) \cup {s} ELSE Weak(o) \ {s}
                       /\ s \in Weak(o) <=> value[s] = Ref(o, TRUE)
    BY <1>1, <1>7, Retarget
  <2>2. ASSUME NEW o \in Obj
        PROVE  Weak(o)' = (IF o = p THEN Weak(o) \cup {s} ELSE Weak(o)) /\ s \notin Weak(o)
    <3>1. s \notin Weak(o)
      BY <1>3, <2>1
    <3>2. CASE o = p
      BY <2>1, <3>1, <3>2
    <3>3. CASE o # p
      <4>1. Weak(o)' = Weak(o) \ {s}
        BY <1>3, <2>1, <3>3
      <4>2. QED  BY <3>1, <3>3, <4>1
    <3>4. QED  BY <3>1, <3>2, <3>3
  <2>3. QED  BY <2>2
<1>11. ~ \E i \in DOMAIN stack : At(i, "kill", p) \/ At(i, "empty", p)
  BY <1>4 DEF BooksInv, Staged
<1>12. /\ backrefs' \in [Obj -> Seq(Scalar)]
       /\ Names(backrefs[p], p)'
       /\ \A o \in Obj : o # p => backrefs'[o] = backrefs[o] /\ Weak(o)' = Weak(o)
  <2>1. Names(backrefs[p], p)
    BY <1>11 DEF BooksInv, Listed
  <2>2. backrefs[p] \in Seq(Scalar) /\ s \notin Range(backrefs[p])
    BY <1>1, <1>10, <2>1 DEF Names
  <2>3. /\ Append(backrefs[p], s) \in Seq(Scalar)
        /\ Range(Append(backrefs[p], s)) = Weak(p)'
        /\ IsInjective(Append(backrefs[p], s))
    <3>1. /\ Append(backrefs[p], s) \in Seq(Scalar)
          /\ Range(Append(backrefs[p], s)) = Range(backrefs[p]) \cup {s}
          /\ IsInjective(Append(backrefs[p], s))
      BY <2>1, <2>2, AppendNames DEF Names
    <3>2. Weak(p)' = Weak(p) \cup {s}
      BY <1>10
    <3>3. QED  BY <2>1, <3>1, <3>2 DEF Names
  <2>4. /\ backrefs' \in [Obj -> Seq(Scalar)]
        /\ backrefs'[p] = Append(backrefs[p], s)
        /\ \A o \in Obj : o # p => backrefs'[o] = backrefs[o]
    BY <1>1, <1>8, <2>3
  <2>5. QED  BY <1>10, <2>3, <2>4 DEF Names
<1>13. ASSUME NEW o \in Obj
       PROVE  IF \E i \in DOMAIN stack : At(i, "kill", o) \/ At(i, "empty", o)
              THEN backrefs'[o] = backrefs[o]
              ELSE Names(backrefs[o], o)'
  <2>1. CASE o = p
    BY <1>11, <1>12, <2>1
  <2>2. CASE o # p
    <3>1. Listed(o)
      BY DEF BooksInv
    <3>2. QED  BY <1>12, <2>2, <3>1 DEF Listed, Names
  <2>3. QED  BY <2>1, <2>2
<1>14. Mutates(s, v)
  <2>1. phase' = [o \in Obj |-> IF v # Undef /\ v.to = o /\ phase[o] = "unborn"
                                THEN "alive" ELSE phase[o]]
    <3>1. \A o \in Obj : ~ (v # Undef /\ v.to = o /\ phase[o] = "unborn")
      BY <1>3, <1>4
    <3>2. QED  BY <1>7, <3>1 DEF BooksInv, TypeOK
  <2> HIDE DEF v
  <2>2. \A o \in Obj : refcnt'[o] = IF v = Ref(o, FALSE) THEN refcnt[o] + 1
                                    ELSE IF value[s] = Ref(o, FALSE) /\ refcnt[o] # 1 THEN refcnt[o] - 1
                                    ELSE refcnt[o]
    <3>1. \A o \in Obj : refcnt'[o] = IF o = p /\ refcnt[p] # 1 THEN refcnt[o] - 1 ELSE refcnt[o]
      <4>1. \A o \in Obj : refcnt[o] \in Nat
        BY <1>1
      <4>2. QED  BY <1>9, <4>1
    <3>2. QED  BY <1>3, <3>1
  <2>3. \/ stack' = stack /\ \A q \in Obj : value[s] = Ref(q, FALSE) => refcnt[q] # 1
        \/ \E q \in Obj : Pushed(q) /\ value[s] = Ref(q, FALSE) /\ refcnt[q] = 1
    BY <1>3, <1>9
  <2>4. QED  BY <1>7, <1>9, <1>12, <1>13, <2>1, <2>2, <2>3 DEF Mutates
<1>15. BooksInv'
  <2> HIDE DEF v
  <2>1. QED  BY <1>3, <1>4, <1>5, <1>6, <1>14, MutationKeeps
<1>16. QED  BY <1>2, <1>4, <1>14, <1>15

LEMMA UnweakenMutates ==
    ASSUME BooksInv, ~ Intrudes, NEW s \in Scalar, Unweaken(s)
    PROVE  BooksInv' /\ \E p \in Obj : /\ phase[p] = "alive" /\ value[s] = Ref(p, TRUE)
                                       /\ Mutates(s, Ref(p, FALSE))
<1>1. Links /\ backrefs \in [Obj -> Seq(Scalar)] /\ refcnt \in [Obj -> Nat]
  BY DEF BooksInv, TypeOK, Links
<1>2. PICK p \in Obj : value[s] = Ref(p, TRUE)
  BY <1>1, References DEF Unweaken, Ref
<1> DEFINE v == Ref(p, FALSE)
<1>3. /\ v \in Values /\ v # value[s] /\ v # Undef /\ v.to = p
      /\ value[s] # Undef /\ value[s].to = p
      /\ \A o \in Obj : v # Ref(o, TRUE)
      /\ \A o \in Obj : v = Ref(o, FALSE) <=> o = p
      /\ \A o \in Obj : value[s] # Ref(o, FALSE)
  <2>1. /\ \A w \in BOOLEAN : Ref(p, w) # Undef /\ Ref(p, w).to = p /\ Ref(p, w) \in Values
        /\ TRUE \in BOOLEAN /\ FALSE \in BOOLEAN
    BY RefFacts DEF Values
  <2>2. /\ \A o \in Obj : Ref(p, FALSE) # Ref(o, TRUE) /\ Ref(p, TRUE) # Ref(o, FALSE)
        /\ \A o \in Obj : Ref(p, FALSE) = Ref(o, FALSE) <=> o = p
        /\ Ref(p, FALSE) # Ref(p, TRUE)
    BY <2>1, RefInjective
  <2>3. QED  BY <1>2, <2>1, <2>2
<1>4. Safe(s)
  BY UsableSafe DEF Unweaken
<1>5. \A k \in DOMAIN stack : ~ At(k, "kill", p)
  BY <1>3, <1>4, SafeApart DEF At
<1>6. phase[p] = "alive"
  BY <1>3, <1>5, Referred
<1>7. s \in Obj => phase[s] = "alive"
  BY ReachAlive, WeakAssumption DEF Unweaken, Usable
<1>8. value' = [value EXCEPT ![s] = v] /\ phase' = phase /\ stack' = stack
  <2>1. value[s].to = p
    BY <1>3
  <2>2. QED  BY <2>1 DEF Unweaken, Ref
<1>9. /\ refcnt' \in [Obj -> Nat]
      /\ \A o \in Obj : refcnt'[o] = IF o = p THEN refcnt[o] + 1 ELSE refcnt[o]
  BY <1>1, <1>3 DEF Unweaken
<1>10. DelBackref(p, s)
  BY <1>3 DEF Unweaken
<1>11. /\ panicked' = FALSE
       /\ backrefs' \in [Obj -> Seq(Scalar)]
       /\ \A o \in Obj :
             IF \E i \in DOMAIN stack : At(i, "kill", o) \/ At(i, "empty", o)
             THEN backrefs'[o] = backrefs[o]
             ELSE Names(backrefs[o], o)'
  <2> HIDE DEF v
  <2>1. QED  BY <1>2, <1>3, <1>5, <1>8, <1>10, DelBackrefNames
<1>12. Mutates(s, v)
  <2>1. phase' = [o \in Obj |-> IF v # Undef /\ v.to = o /\ phase[o] = "unborn"
                                THEN "alive" ELSE phase[o]]
    <3>1. \A o \in Obj : ~ (v # Undef /\ v.to = o /\ phase[o] = "unborn")
      BY <1>3, <1>6
    <3>2. QED  BY <1>8, <3>1 DEF BooksInv, TypeOK
  <2> HIDE DEF v
  <2>2. \A o \in Obj : refcnt'[o] = IF v = Ref(o, FALSE) THEN refcnt[o] + 1
                                    ELSE IF value[s] = Ref(o, FALSE) /\ refcnt[o] # 1 THEN refcnt[o] - 1
                                    ELSE refcnt[o]
    BY <1>3, <1>9
  <2>3. QED  BY <1>3, <1>8, <1>9, <1>11, <2>1, <2>2 DEF Mutates
<1>13. BooksInv'
  <2> HIDE DEF v
  <2>1. QED  BY <1>3, <1>4, <1>6, <1>7, <1>12, MutationKeeps
<1>14. QED  BY <1>2, <1>6, <1>12, <1>13

-----------------------------------------------------------------------------
\* The end of objects.

LEMMA FreeElementMutates ==
    ASSUME BooksInv, FreeElement
    PROVE  /\ BooksInv' /\ Inner.obj \in Obj /\ phase[Inner.obj] = "dying"
           /\ value[Inner.obj] # Undef /\ Mutates(Inner.obj, Undef)
<1>1. /\ Len(stack) \in DOMAIN stack /\ DOMAIN stack = 1 .. Len(stack) /\ Len(stack) \in Nat
      /\ Inner = stack[Len(stack)] /\ Inner.at = "empty" /\ Inner.obj \in Obj
  BY StackSteps DEF BooksInv, TypeOK, FreeElement, Top, Frame
<1>2. phase[Inner.obj] = "dying"
  BY <1>1, Gone
<1>3. PICK s \in Obj : s = Inner.obj
  BY <1>1
<1>4. /\ value[s] # Undef /\ value' = [value EXCEPT ![s] = Undef]
      /\ Unref(refcnt, s, stack) /\ phase' = phase
  BY <1>3 DEF FreeElement
<1>5. Safe(s)
  <2>1. ASSUME NEW k \in DOMAIN stack, NEW P \in SUBSET Obj, stack[k].at = "kill", Guards(P, k)
        PROVE  s \notin P
    <3>1. k < Len(stack)
      BY <1>1, <2>1
    <3>2. QED  BY <1>1, <1>3, <2>1, <3>1 DEF Guards, Frees
  <2>2. s \notin Var
    BY WeakAssumption
  <2>3. QED  BY <2>1, <2>2 DEF Safe
<1>6. Mutates(s, Undef) /\ BooksInv'
  BY <1>4, <1>5, EmptyingMutates DEF Scalar
<1>7. QED  BY <1>2, <1>3, <1>4, <1>6

\* The inner frame goes or moves on, and nobody's references change.
LEMMA InnerMoves ==
    ASSUME BooksInv, value' = value, stack # <<>>,
           \/ stack' = Popped
           \/ \E f \in Frame : /\ stack' = Becomes(f) /\ f.obj = Inner.obj
                               /\ Inner.at \in {"destroy", "kill"} /\ f.at \in {"kill", "empty"}
    PROVE  /\ stack' \in Seq(Frame)
           /\ FreedOnce'
           /\ \A k \in 1 .. Len(stack) - 1 :
                 /\ k \in DOMAIN stack /\ k \in DOMAIN stack' /\ stack'[k] = stack[k]
                 /\ stack[k].at = "kill" => \E P \in SUBSET Obj : Guards(P, k)'
           /\ \A k \in DOMAIN stack' : k \in 1 .. Len(stack) - 1 \/ k = Len(stack)
           /\ \A o \in Obj :
                 /\ o # Inner.obj \/ Inner.at = "magic"
                 /\ refcnt'[o] = refcnt[o] /\ backrefs'[o] = backrefs[o] /\ phase'[o] = phase[o]
                 => Counted(o)' /\ Listed(o)' /\ Staged(o)'
<1> DEFINE n == Len(stack)
<1>1. /\ stack \in Seq(Frame) /\ n \in Nat /\ n > 0 /\ DOMAIN stack = 1 .. n /\ Inner = stack[n]
      /\ \A i \in 1 .. n - 1 : i \in 1 .. n
  BY StackSteps DEF BooksInv, TypeOK
<1>2. /\ stack' \in Seq(Frame)
      /\ \A i \in 1 .. n - 1 : i \in DOMAIN stack' /\ stack'[i] = stack[i]
      /\ \/ DOMAIN stack' = 1 .. n - 1
         \/ /\ DOMAIN stack' = 1 .. n
            /\ stack'[n].obj = Inner.obj /\ Inner.at \in {"destroy", "kill"}
            /\ stack'[n].at \in {"kill", "empty"}
  <2>1. CASE stack' = Popped
    <3>1. PICK f \in Frame : TRUE
      BY <1>1
    <3>2. Popped \in Seq(Frame) /\ DOMAIN Popped = 1 .. n - 1 /\ \A i \in 1 .. n - 1 : Popped[i] = stack[i]
      BY <1>1, <3>1, StackSteps
    <3>3. QED  BY <2>1, <3>2
  <2>2. CASE \E f \in Frame : /\ stack' = Becomes(f) /\ f.obj = Inner.obj
                              /\ Inner.at \in {"destroy", "kill"} /\ f.at \in {"kill", "empty"}
    <3>1. PICK f \in Frame : /\ stack' = Becomes(f) /\ f.obj = Inner.obj
                             /\ Inner.at \in {"destroy", "kill"} /\ f.at \in {"kill", "empty"}
      BY <2>2
    <3>2. /\ Becomes(f) \in Seq(Frame) /\ DOMAIN Becomes(f) = 1 .. n /\ Becomes(f)[n] = f
          /\ \A i \in 1 .. n - 1 : Becomes(f)[i] = stack[i]
      BY <1>1, StackSteps
    <3> HIDE DEF n
    <3>3. QED  BY <1>1, <3>1, <3>2
  <2>3. QED  BY <2>1, <2>2
<1>3. \A i \in DOMAIN stack' :
         /\ i \in 1 .. n - 1 \/ i = n
         /\ i \in 1 .. n /\ stack'[i].obj = stack[i].obj
         /\ Frees(i)' => Frees(i)
  <2>1. ASSUME NEW i \in DOMAIN stack'
        PROVE  i \in 1 .. n - 1 \/ (i = n /\ DOMAIN stack' = 1 .. n)
    <3> HIDE DEF n
    <3>1. QED  BY <1>1, <1>2
  <2>2. ASSUME DOMAIN stack' = 1 .. n
        PROVE  stack'[n].obj = stack[n].obj /\ (Frees(n)' => Frees(n)) /\ n \in 1 .. n
    <3>1. DOMAIN stack' # 1 .. n - 1
      <4> HIDE DEF n
      <4>1. n \in 1 .. n /\ n \notin 1 .. n - 1
        BY <1>1
      <4>2. QED  BY <2>2, <4>1
    <3>2. QED  BY <1>1, <1>2, <3>1 DEF Frees
  <2>3. QED  BY <1>1, <1>2, <2>1, <2>2 DEF Frees
<1>4. FreedOnce'
  BY <1>1, <1>3 DEF BooksInv, FreedOnce
<1>5. ASSUME NEW k \in 1 .. n - 1, stack[k].at = "kill"
      PROVE  \E P \in SUBSET Obj : Guards(P, k)'
  <2>1. PICK P \in SUBSET Obj : Guards(P, k)
    BY <1>1, <1>5 DEF BooksInv, Guarded
  <2>2. stack'[k] = stack[k]
    BY <1>2
  <2>3. Weak(stack[k].obj)' = Weak(stack'[k].obj) /\ Weak(stack'[k].obj) = Weak(stack[k].obj)
    BY <2>2 DEF Weak
  <2>4. ASSUME NEW u \in P
        PROVE  /\ \A j \in DOMAIN stack' : j > k /\ Frees(j)' => stack'[j].obj # u
               /\ (\E j \in 1 .. k : Frees(j) /\ stack[j].obj = u)
                     => \E j \in 1 .. k : Frees(j)' /\ stack'[j].obj = u
    <3>1. \A j \in DOMAIN stack : j > k /\ Frees(j) => stack[j].obj # u
      BY <2>1 DEF Guards
    <3>2. \A j \in 1 .. k : j \in 1 .. n - 1
      <4> HIDE DEF n
      <4>1. QED  BY <1>1
    <3>3. ASSUME NEW j \in DOMAIN stack', j > k, Frees(j)'
          PROVE  stack'[j].obj # u
      <4>1. Frees(j) /\ stack'[j].obj = stack[j].obj /\ j \in DOMAIN stack
        BY <1>1, <1>3, <3>3
      <4>2. QED  BY <3>1, <3>3, <4>1
    <3>4. ASSUME NEW j \in 1 .. k, Frees(j), stack[j].obj = u
          PROVE  Frees(j)' /\ stack'[j].obj = u
      <4>1. stack'[j] = stack[j]
        BY <1>2, <3>2
      <4>2. QED  BY <3>4, <4>1 DEF Frees
    <3>5. QED  BY <3>3, <3>4
  <2>5. PICK o \in Obj : o = stack[k].obj
    <3>1. k \in 1 .. n /\ stack[k] \in Frame
      <4> HIDE DEF n
      <4>1. k \in DOMAIN stack
        BY <1>1
      <4>2. QED  BY <1>1, <4>1
    <3>2. QED  BY <3>1 DEF Frame
  <2>6. Guards(P, k)'
    <3>1. Weak(o)' = Weak(o) /\ \A u \in P : Closure({value[u].to}, {})' = Closure({value[u].to}, {})
      BY DEF Weak, Closure, Targets
    <3>2. stack'[k].obj = o
      BY <2>2, <2>5
    <3>3. Weak(o) \cap Obj \subseteq P
      BY <2>1, <2>5 DEF Guards
    <3>4. ASSUME NEW u \in P
          PROVE  /\ value'[u] # Undef /\ value'[u].to \in P \cup {o}
                 /\ o \in Closure({value[u].to}, {})'
                 /\ \A j \in DOMAIN stack' : j > k /\ Frees(j)' => stack'[j].obj # u
                 /\ \/ \E r \in Var \cup P : value'[r] = [to |-> u, weak |-> FALSE]
                    \/ \E j \in 1 .. k : Frees(j)' /\ stack'[j].obj = u
      <4>1. /\ value[u] # Undef /\ value[u].to \in P \cup {o} /\ o \in Closure({value[u].to}, {})
            /\ \/ \E r \in Var \cup P : value[r] = [to |-> u, weak |-> FALSE]
               \/ \E j \in 1 .. k : Frees(j) /\ stack[j].obj = u
        BY <2>1, <2>5 DEF Guards
      <4>2. QED  BY <2>4, <3>1, <4>1
    <3>5. QED  BY <3>1, <3>2, <3>3, <3>4 DEF Guards
  <2>7. QED  BY <2>6
<1>6. ASSUME NEW o \in Obj, o # Inner.obj \/ Inner.at = "magic",
             refcnt'[o] = refcnt[o], backrefs'[o] = backrefs[o], phase'[o] = phase[o]
      PROVE  Counted(o)' /\ Listed(o)' /\ Staged(o)'
  <2>1. ASSUME NEW at \in {"destroy", "kill", "empty"}
        PROVE  /\ \A i \in DOMAIN stack : At(i, at, o) => i \in DOMAIN stack' /\ At(i, at, o)'
               /\ \A i \in DOMAIN stack' : At(i, at, o)' => /\ i \in DOMAIN stack /\ At(i, at, o)
                                                            /\ stack'[i] = stack[i]
    <3>1. \A i \in DOMAIN stack : At(i, at, o) => i \in 1 .. n - 1
      <4>1. ~ At(n, at, o)
        BY <1>1, <1>6 DEF At
      <4> HIDE DEF n
      <4>2. QED  BY <1>1, <4>1
    <3>2. \A i \in DOMAIN stack' : At(i, at, o)' => i \in 1 .. n - 1
      BY <1>1, <1>2, <1>3, <1>6 DEF At
    <3>3. QED  BY <1>1, <1>2, <3>1, <3>2 DEF At
  <2>2. Strong(o)' = Strong(o) /\ Weak(o)' = Weak(o)
    BY DEF Strong, Weak
  <2>3. Counted(o) /\ Listed(o) /\ Staged(o)
    BY DEF BooksInv
  <2>4. o \in InDestructor' <=> o \in InDestructor
    BY <2>1 DEF InDestructor, Frames, At
  <2>5. Counted(o)'
    BY <1>6, <2>2, <2>3, <2>4 DEF Counted
  <2>6. Listed(o)'
    BY <1>6, <2>1, <2>2, <2>3 DEF Listed, Names
  <2>7. Staged(o)'
    BY <1>6, <2>1, <2>2, <2>3 DEF Staged
  <2>8. QED  BY <2>5, <2>6, <2>7
<1>7. QED  BY <1>1, <1>2, <1>3, <1>4, <1>5, <1>6

LEMMA InnerFrame ==
    ASSUME BooksInv, NEW at \in {"destroy", "kill", "magic", "empty"}, Top(at)
    PROVE  /\ stack # <<>> /\ Len(stack) \in DOMAIN stack /\ DOMAIN stack = 1 .. Len(stack)
           /\ Len(stack) \in Nat /\ Inner = stack[Len(stack)] /\ Inner \in Frame
           /\ Inner.at = at /\ Inner.obj \in Obj
           /\ at = "kill" => Inner.list \in Seq(Scalar) /\ Names(Inner.list, Inner.obj)
<1>1. /\ stack # <<>> /\ Len(stack) \in DOMAIN stack /\ DOMAIN stack = 1 .. Len(stack)
      /\ Len(stack) \in Nat /\ Inner = stack[Len(stack)] /\ Inner \in Frame
      /\ Inner.at = at /\ Inner.obj \in Obj
  BY StackSteps DEF BooksInv, TypeOK, Top, Frame
<1>2. ASSUME at = "kill"
      PROVE  Inner.list \in Seq(Scalar) /\ Names(Inner.list, Inner.obj)
  <2>1. Inner.list \in Seq(Scalar)
    BY <1>1, <1>2 DEF Frame
  <2>2. Listed(Inner.obj)
    BY <1>1 DEF BooksInv
  <2>3. QED  BY <1>1, <1>2, <2>1, <2>2 DEF Listed, At
<1>3. QED  BY <1>1, <1>2

LEMMA MagicReturnsKeeps ==
    ASSUME BooksInv, MagicReturns
    PROVE  BooksInv'
<1>1. stack # <<>> /\ Inner.at = "magic"
  BY InnerFrame DEF MagicReturns
<1>2. /\ value' = value /\ refcnt' = refcnt /\ backrefs' = backrefs /\ phase' = phase
      /\ panicked' = panicked /\ stack' = Popped
  BY DEF MagicReturns
<1>3. /\ stack' \in Seq(Frame) /\ FreedOnce'
      /\ \A o \in Obj : Counted(o)' /\ Listed(o)' /\ Staged(o)'
  BY <1>1, <1>2, InnerMoves
<1>4. Guarded'
  <2>1. ASSUME NEW k \in DOMAIN stack', stack'[k].at = "kill"
        PROVE  \E P \in SUBSET Obj : Guards(P, k)'
    <3>1. /\ \A j \in 1 .. Len(stack) - 1 :
                /\ stack'[j] = stack[j]
                /\ stack[j].at = "kill" => \E P \in SUBSET Obj : Guards(P, j)'
      BY <1>1, <1>2, InnerMoves
    <3>2. k \in 1 .. Len(stack) - 1
      <4>1. stack \in Seq(Frame) /\ Inner \in Frame
        BY InnerFrame DEF MagicReturns, BooksInv, TypeOK
      <4>2. DOMAIN Popped = 1 .. Len(stack) - 1
        BY <1>1, <4>1, StackSteps
      <4>3. QED  BY <1>2, <2>1, <4>2
    <3>3. QED  BY <2>1, <3>1, <3>2
  <2>2. QED  BY <2>1 DEF Guarded
<1>5. QED  BY <1>2, <1>3, <1>4 DEF BooksInv, TypeOK

LEMMA KilledAllKeeps ==
    ASSUME BooksInv, KilledAll
    PROVE  BooksInv'
<1> DEFINE n == Len(stack)
<1>1. PICK o \in Obj : o = Inner.obj
  BY InnerFrame DEF KilledAll
<1>2. /\ stack # <<>> /\ n \in 1 .. n /\ DOMAIN stack = 1 .. n /\ n \in Nat /\ stack \in Seq(Frame)
      /\ Inner = stack[n] /\ Inner.at = "kill" /\ Inner.list = <<>> /\ Names(<<>>, o)
  BY <1>1, InnerFrame DEF KilledAll, BooksInv, TypeOK
<1>3. /\ value' = value /\ refcnt' = refcnt /\ backrefs' = backrefs /\ phase' = phase
      /\ panicked' = panicked /\ stack' = Becomes(Empty(o))
  BY <1>1 DEF KilledAll
<1>4. Empty(o) \in Frame /\ Empty(o).obj = o /\ Empty(o).at = "empty"
  BY DEF Empty, Frame
<1>5. /\ stack' \in Seq(Frame) /\ FreedOnce'
      /\ \A k \in 1 .. n - 1 : stack'[k] = stack[k]
      /\ \A k \in 1 .. n - 1 : stack[k].at = "kill" => \E P \in SUBSET Obj : Guards(P, k)'
      /\ \A k \in DOMAIN stack' : k \in 1 .. n - 1 \/ k = n
      /\ \A u \in Obj : u # o => Counted(u)' /\ Listed(u)' /\ Staged(u)'
  BY <1>1, <1>2, <1>3, <1>4, InnerMoves
<1>6. DOMAIN stack' = 1 .. n /\ stack'[n] = Empty(o)
  BY <1>2, <1>3, <1>4, StackSteps
<1>7. \A i \in DOMAIN stack' : Frees(i)' /\ stack'[i].obj = o => i = n
  BY <1>2, <1>4, <1>5, <1>6 DEF FreedOnce, Frees
<1>8. \A i \in DOMAIN stack : Frees(i) /\ stack[i].obj = o => i = n
  BY <1>1, <1>2 DEF BooksInv, FreedOnce, Frees
<1>9. Strong(o)' = Strong(o) /\ Weak(o)' = Weak(o) /\ Counted(o) /\ Staged(o)
  BY <1>3 DEF Strong, Weak, BooksInv
<1>10. phase[o] = "dying" /\ refcnt[o] = 0
  BY <1>1, <1>2, Gone
<1>11. Counted(o)'
  <2>1. o \notin InDestructor /\ o \notin InDestructor'
    BY <1>2, <1>4, <1>6, <1>7, <1>8 DEF InDestructor, Frames, Frees
  <2>2. QED  BY <1>3, <1>9, <2>1 DEF Counted
<1>12. Listed(o)'
  <2>1. \A i \in DOMAIN stack' : ~ At(i, "kill", o)'
    BY <1>4, <1>6, <1>7 DEF At, Frees
  <2>2. backrefs'[o] = <<>>
    BY <1>3, <1>9, <1>10 DEF Staged
  <2>3. QED  BY <1>2, <1>9, <2>1, <2>2 DEF Listed, Names
<1>13. Staged(o)'
  <2>1. n \in DOMAIN stack' /\ At(n, "empty", o)'
    BY <1>2, <1>4, <1>6 DEF At
  <2>2. QED  BY <1>3, <1>9, <1>10, <2>1 DEF Staged
<1>14. Guarded'
  BY <1>4, <1>5, <1>6 DEF Guarded
<1>15. \A u \in Obj : Counted(u)' /\ Listed(u)' /\ Staged(u)'
  BY <1>5, <1>11, <1>12, <1>13
<1>16. QED  BY <1>3, <1>5, <1>14, <1>15 DEF BooksInv, TypeOK

LEMMA FreeBodyKeeps ==
    ASSUME BooksInv, FreeBody
    PROVE  BooksInv' /\ Inner.obj \in Obj /\ phase[Inner.obj] = "dying"
<1> DEFINE n == Len(stack)
<1>1. PICK o \in Obj : o = Inner.obj
  BY InnerFrame DEF FreeBody
<1>2. /\ stack # <<>> /\ n \in 1 .. n /\ DOMAIN stack = 1 .. n /\ n \in Nat /\ stack \in Seq(Frame)
      /\ Inner = stack[n] /\ Inner.at = "empty" /\ Inner \in Frame
  BY InnerFrame DEF FreeBody, BooksInv, TypeOK
<1>3. /\ value' = value /\ refcnt' = refcnt /\ backrefs' = backrefs /\ value[o] = Undef
      /\ phase' = [phase EXCEPT ![o] = "freed"] /\ panicked' = panicked /\ stack' = Popped
  BY <1>1 DEF FreeBody
<1>4. phase'[o] = "freed" /\ \A u \in Obj : u # o => phase'[u] = phase[u]
  BY <1>3 DEF BooksInv, TypeOK
<1>5. /\ stack' \in Seq(Frame) /\ FreedOnce'
      /\ \A k \in 1 .. n - 1 : stack'[k] = stack[k]
      /\ \A k \in 1 .. n - 1 : stack[k].at = "kill" => \E P \in SUBSET Obj : Guards(P, k)'
      /\ \A u \in Obj : u # o => Counted(u)' /\ Listed(u)' /\ Staged(u)'
  BY <1>1, <1>2, <1>3, <1>4, InnerMoves
<1>6. DOMAIN stack' = 1 .. n - 1 /\ \A k \in 1 .. n - 1 : k \in DOMAIN stack /\ k # n
  <2>1. DOMAIN Popped = 1 .. n - 1
    BY <1>2, StackSteps
  <2>2. \A k \in 1 .. n - 1 : k \in 1 .. n /\ k # n
    <3> HIDE DEF n
    <3>1. QED  BY <1>2
  <2>3. QED  BY <1>2, <1>3, <2>1, <2>2
<1>7. \A i \in DOMAIN stack : Frees(i) /\ stack[i].obj = o => i = n
  BY <1>1, <1>2 DEF BooksInv, FreedOnce, Frees
<1>8. \A i \in DOMAIN stack' : ~ (Frees(i)' /\ stack'[i].obj = o)
  BY <1>5, <1>6, <1>7 DEF Frees
<1>9. Strong(o)' = Strong(o) /\ Weak(o)' = Weak(o) /\ Counted(o) /\ Staged(o) /\ Listed(o)
  BY <1>3 DEF Strong, Weak, BooksInv
<1>10. phase[o] = "dying" /\ refcnt[o] = 0 /\ Weak(o) = {} /\ o \notin InDestructor
  BY <1>1, <1>2, Gone
<1>11. Counted(o)'
  <2>1. o \notin InDestructor'
    BY <1>8 DEF InDestructor, Frames, Frees
  <2>2. QED  BY <1>3, <1>9, <1>10, <2>1 DEF Counted
<1>12. Listed(o)'
  <2>1. /\ \A i \in DOMAIN stack' : ~ At(i, "kill", o)'
        /\ \A i \in DOMAIN stack : ~ At(i, "kill", o)
    BY <1>2, <1>7, <1>8 DEF At, Frees
  <2>2. QED  BY <1>3, <1>9, <2>1 DEF Listed, Names
<1>13. Staged(o)'
  <2>1. \A i \in DOMAIN stack' : ~ At(i, "kill", o)' /\ ~ At(i, "empty", o)'
    BY <1>8 DEF At, Frees
  <2>2. QED  BY <1>3, <1>4, <1>9, <1>10, <2>1 DEF Staged
<1>14. Guarded'
  BY <1>5, <1>6 DEF Guarded
<1>15. \A u \in Obj : Counted(u)' /\ Listed(u)' /\ Staged(u)'
  BY <1>5, <1>11, <1>12, <1>13
<1>16. QED  BY <1>1, <1>3, <1>5, <1>10, <1>14, <1>15 DEF BooksInv, TypeOK

LEMMA DestroyReturnsKeeps ==
    ASSUME BooksInv, DestroyReturns
    PROVE  /\ BooksInv' /\ Inner.obj \in InDestructor
           /\ IF Resurrected(Inner.obj)
              THEN /\ Strong(Inner.obj) # {} /\ phase' = phase
                   /\ InDestructor' = InDestructor \ {Inner.obj}
              ELSE /\ Strong(Inner.obj) = {} /\ phase' = [phase EXCEPT ![Inner.obj] = "dying"]
                   /\ InDestructor' = InDestructor \ {Inner.obj}
<1>0. PICK n \in Nat : n = Len(stack)
  BY InnerFrame DEF DestroyReturns
<1>1. PICK o \in Obj : o = Inner.obj
  BY InnerFrame DEF DestroyReturns
<1>2. /\ stack # <<>> /\ n \in 1 .. n /\ DOMAIN stack = 1 .. n /\ n \in Nat /\ stack \in Seq(Frame)
      /\ Inner = stack[n] /\ Inner.at = "destroy" /\ Inner \in Frame
  BY <1>0, InnerFrame DEF DestroyReturns, BooksInv, TypeOK
<1>3. /\ value' = value /\ panicked' = panicked /\ refcnt' = [refcnt EXCEPT ![o] = @ - 1]
      /\ IF Resurrected(o)
         THEN stack' = Popped /\ backrefs' = backrefs /\ phase' = phase
         ELSE /\ stack' = Becomes(Kill(o, backrefs[o]))
              /\ backrefs' = [backrefs EXCEPT ![o] = <<>>]
              /\ phase' = [phase EXCEPT ![o] = "dying"]
  BY <1>1 DEF DestroyReturns
<1>4. /\ refcnt \in [Obj -> Nat] /\ backrefs \in [Obj -> Seq(Scalar)]
      /\ phase \in [Obj -> {"unborn", "alive", "dying", "freed"}]
      /\ Kill(o, backrefs[o]) \in Frame
      /\ Kill(o, backrefs[o]).at = "kill" /\ Kill(o, backrefs[o]).obj = o
      /\ Kill(o, backrefs[o]).list = backrefs[o]
  BY DEF BooksInv, TypeOK, Frame, Kill
<1>5. /\ Counted(o) /\ Listed(o) /\ Staged(o) /\ IsFiniteSet(Strong(o)) /\ Cardinality(Strong(o)) \in Nat
      /\ Strong(o)' = Strong(o) /\ Weak(o)' = Weak(o)
  BY <1>3, FS_CardinalityType DEF BooksInv, Counted, Strong, Weak
<1>6. o \in InDestructor /\ refcnt[o] = Cardinality(Strong(o)) + 1 /\ phase[o] = "alive"
  <2>1. o \in InDestructor
    BY <1>1, <1>2 DEF InDestructor, Frames
  <2>2. QED  BY <1>5, <2>1 DEF Counted, Staged
<1>7. /\ refcnt' \in [Obj -> Nat] /\ refcnt'[o] = Cardinality(Strong(o))
      /\ \A u \in Obj : u # o =>
            refcnt'[u] = refcnt[u] /\ backrefs'[u] = backrefs[u] /\ phase'[u] = phase[u]
  <2>1. refcnt[o] - 1 = Cardinality(Strong(o))
    BY <1>5, <1>6
  <2>2. refcnt' = [refcnt EXCEPT ![o] = Cardinality(Strong(o))]
    BY <1>3, <2>1
  <2>3. QED  BY <1>3, <1>4, <1>5, <2>2
<1>8. /\ stack' \in Seq(Frame) /\ FreedOnce'
      /\ \A k \in 1 .. n - 1 : stack'[k] = stack[k]
      /\ \A k \in 1 .. n - 1 : stack[k].at = "kill" => \E P \in SUBSET Obj : Guards(P, k)'
      /\ \A k \in DOMAIN stack' : k \in 1 .. n - 1 \/ k = n
      /\ \A u \in Obj : u # o => Counted(u)' /\ Listed(u)' /\ Staged(u)'
  BY <1>0, <1>1, <1>2, <1>3, <1>4, <1>7, InnerMoves
<1>9. \A i \in DOMAIN stack : Frees(i) /\ stack[i].obj = o => i = n
  BY <1>1, <1>2 DEF BooksInv, FreedOnce, Frees
<1>10. \A k \in 1 .. n - 1 : k \in DOMAIN stack /\ k # n
  BY <1>2
<1>11. DOMAIN stack' = IF Resurrected(o) THEN 1 .. n - 1 ELSE 1 .. n
  BY <1>0, <1>2, <1>3, <1>4, StackSteps
<1>12. ~ Resurrected(o) => stack'[n] = Kill(o, backrefs[o])
  BY <1>0, <1>2, <1>3, <1>4, StackSteps
<1>13. \A i \in DOMAIN stack' : Frees(i)' /\ stack'[i].obj = o => i = n /\ ~ Resurrected(o)
  BY <1>8, <1>9, <1>10, <1>11 DEF Frees
<1>14. InDestructor' = InDestructor \ {o}
  <2>1. o \notin InDestructor'
    BY <1>4, <1>12, <1>13 DEF InDestructor, Frames, Frees
  <2>2. ASSUME NEW u \in Obj, u # o  PROVE u \in InDestructor' <=> u \in InDestructor
    <3>1. \A i \in DOMAIN stack : stack[i].obj = u => i \in 1 .. n - 1
      <4>1. stack[n].obj # u
        BY <1>1, <1>2, <2>2
      <4>2. QED  BY <1>2, <4>1
    <3>2. \A i \in DOMAIN stack' : stack'[i].obj = u => i \in 1 .. n - 1
      BY <1>4, <1>8, <1>10, <1>11, <1>12, <2>2
    <3>3. \A i \in 1 .. n - 1 : i \in DOMAIN stack /\ i \in DOMAIN stack' /\ stack'[i] = stack[i]
      BY <1>2, <1>8, <1>10, <1>11
    <3>4. QED  BY <3>1, <3>2, <3>3 DEF InDestructor, Frames
  <2>3. QED  BY <2>1, <2>2 DEF InDestructor
<1>15. Resurrected(o) <=> Strong(o) # {}
  BY <1>4, <1>5, <1>6, FS_EmptySet DEF Resurrected
<1>16. Counted(o)'
  BY <1>5, <1>7, <1>14 DEF Counted
<1>17. CASE Resurrected(o)
  <2>1. \A i \in DOMAIN stack' : ~ At(i, "kill", o)' /\ ~ At(i, "empty", o)'
    BY <1>13, <1>17 DEF At, Frees
  <2>2. \A i \in DOMAIN stack : ~ At(i, "kill", o) /\ ~ At(i, "empty", o)
    BY <1>2, <1>9 DEF At, Frees
  <2>3. Listed(o)'
    BY <1>3, <1>5, <1>17, <2>1, <2>2 DEF Listed, Names
  <2>4. Staged(o)'
    <3>1. Cardinality(Strong(o)) > 0
      BY <1>5, <1>15, <1>17, FS_EmptySet
    <3>2. QED  BY <1>3, <1>6, <1>7, <1>17, <2>1, <3>1 DEF Staged
  <2>5. Guarded'
    BY <1>8, <1>11, <1>17 DEF Guarded
  <2>6. TypeOK'
    BY <1>3, <1>7, <1>8, <1>17 DEF BooksInv, TypeOK
  <2>7. \A u \in Obj : Counted(u)' /\ Listed(u)' /\ Staged(u)'
    BY <1>8, <1>16, <2>3, <2>4
  <2>8. BooksInv'
    BY <1>3, <1>8, <2>5, <2>6, <2>7 DEF BooksInv
  <2>9. QED  BY <1>1, <1>3, <1>6, <1>14, <1>15, <1>17, <2>8
<1>18. CASE ~ Resurrected(o)
  <2>1. Names(backrefs[o], o)
    BY <1>2, <1>5, <1>9 DEF Listed, At, Frees
  <2>2. At(n, "kill", o)' /\ stack'[n].list = backrefs[o] /\ n \in DOMAIN stack'
    BY <1>2, <1>4, <1>11, <1>12, <1>18 DEF At
  <2>3. Strong(o) = {} /\ refcnt'[o] = 0
    BY <1>7, <1>15, <1>18, FS_EmptySet
  <2>4. Listed(o)'
    <3>1. \A i \in DOMAIN stack' : At(i, "kill", o)' => i = n
      BY <1>13 DEF At, Frees
    <3>2. Names(stack[n].list, o)'
      BY <1>5, <2>1, <2>2 DEF Names
    <3>3. QED  BY <2>2, <3>1, <3>2 DEF Listed
  <2>5. Staged(o)'
    BY <1>3, <1>4, <1>18, <2>2, <2>3 DEF Staged
  <2>6. \E P \in SUBSET Obj : Guards(P, n)'
    <3> DEFINE P == {u \in Obj : value[u] # Undef /\ o \in Closure({value[u].to}, {})}
    <3>1. Links
      BY DEF BooksInv, TypeOK, Links
    <3>2. Weak(o) \cap Obj \subseteq P
      <4>1. ASSUME NEW u \in Weak(o) \cap Obj  PROVE u \in P
        <5>1. value[u] # Undef /\ value[u].to = o
          <6>1. value[u] = Ref(o, TRUE) /\ TRUE \in BOOLEAN
            BY <4>1 DEF Weak, Ref
          <6>2. QED  BY <6>1, RefFacts
        <5>2. o \in Closure({o}, {})
          BY <3>1, ClosureClosed
        <5>3. QED  BY <5>1, <5>2
      <4>2. QED  BY <4>1
    <3>3. ASSUME NEW u \in P
          PROVE  /\ value[u] # Undef
                 /\ value[u].to \in P \cup {o}
                 /\ o \in Closure({value[u].to}, {})
                 /\ \/ \E r \in Var \cup P : value[r] = Ref(u, FALSE)
                    \/ \E j \in 1 .. n : Frees(j)' /\ stack'[j].obj = u
      <4>1. PICK w \in Obj : w = value[u].to
        BY <3>1, References DEF Scalar
      <4>2. w # o => w \in P
        BY <3>1, <4>1, Onward
      <4>3. \/ \E r \in Var \cup P : value[r] = Ref(u, FALSE)
            \/ \E j \in 1 .. n : Frees(j)' /\ stack'[j].obj = u
        <5>1. CASE Strong(u) # {}
          <6>1. PICK r \in Scalar : value[r] = Ref(u, FALSE)
            BY <5>1 DEF Strong, Ref
          <6>2. r \in Obj => r \in P
            <7>1. value[r] # Undef /\ value[r].to = u
              BY <6>1, RefFacts
            <7>2. o \in Closure({u}, {})
              BY <3>1, Backward
            <7>3. QED  BY <7>1, <7>2
          <6>3. QED  BY <6>1, <6>2 DEF Scalar
        <5>2. CASE u \in InDestructor \/ phase[u] = "dying"
          <6>1. PICK j \in DOMAIN stack : Frees(j) /\ stack[j].obj = u
            BY <5>2 DEF InDestructor, Frames, Frees, BooksInv, Staged, At
          <6>2. CASE j = n
            BY <1>1, <1>2, <2>2, <6>1, <6>2 DEF At, Frees
          <6>3. CASE j # n
            <7>1. j \in 1 .. n - 1
              BY <1>2, <6>1, <6>3
            <7>2. stack'[j] = stack[j]
              BY <1>8, <7>1
            <7>3. QED  BY <1>2, <6>1, <7>2 DEF Frees
          <6>4. QED  BY <6>2, <6>3
        <5>3. CASE Strong(u) = {} /\ u \notin InDestructor
          <6>1. refcnt[u] = 0
            BY <5>3, FS_EmptySet DEF BooksInv, Counted
          <6>2. phase[u] = "dying"
            BY <1>4, <3>3, <6>1 DEF BooksInv, Staged
          <6>3. QED  BY <5>2, <6>2
        <5>4. QED  BY <5>1, <5>2, <5>3
      <4>4. QED  BY <4>1, <4>2, <4>3
    <3>4. \A u \in P : \A j \in DOMAIN stack' : j > n /\ Frees(j)' => stack'[j].obj # u
      BY <1>2, <1>11, <1>18
    <3>5. P \in SUBSET Obj
      OBVIOUS
    <3>6. \A u \in P : Closure({value[u].to}, {})' = Closure({value[u].to}, {})
      BY <1>3 DEF Closure, Targets
    <3>7. stack'[n].obj = o
      BY <2>2 DEF At
    <3>8. PICK Q \in SUBSET Obj : Q = P
      BY <3>5
    <3>9. /\ Weak(o)' \cap Obj \subseteq Q
          /\ \A u \in Q :
                /\ value'[u] # Undef
                /\ value'[u].to \in Q \cup {o}
                /\ o \in Closure({value[u].to}, {})'
                /\ \A j \in DOMAIN stack' : j > n /\ Frees(j)' => stack'[j].obj # u
                /\ \/ \E r \in Var \cup Q : value'[r] = Ref(u, FALSE)
                   \/ \E j \in 1 .. n : Frees(j)' /\ stack'[j].obj = u
      <4> HIDE DEF P
      <4>1. Weak(o)' \cap Obj \subseteq Q
        <5>1. Weak(o)' = Weak(o)
          BY <1>3 DEF Weak
        <5>2. QED  BY <3>2, <3>8, <5>1
      <4>2. ASSUME NEW u \in Q
            PROVE  /\ value'[u] # Undef
                   /\ value'[u].to \in Q \cup {o}
                   /\ o \in Closure({value[u].to}, {})'
                   /\ \A j \in DOMAIN stack' : j > n /\ Frees(j)' => stack'[j].obj # u
                   /\ \/ \E r \in Var \cup Q : value'[r] = Ref(u, FALSE)
                      \/ \E j \in 1 .. n : Frees(j)' /\ stack'[j].obj = u
        <5>1. u \in P
          BY <3>8
        <5>2. /\ value'[u] # Undef /\ value'[u].to \in Q \cup {o}
              /\ o \in Closure({value[u].to}, {})'
          BY <1>3, <3>3, <3>6, <3>8, <5>1
        <5>3. \A j \in DOMAIN stack' : j > n /\ Frees(j)' => stack'[j].obj # u
          BY <3>4, <5>1
        <5>4. \/ \E r \in Var \cup Q : value'[r] = Ref(u, FALSE)
              \/ \E j \in 1 .. n : Frees(j)' /\ stack'[j].obj = u
          BY <1>3, <1>5, <3>3, <3>8, <5>1
        <5>5. QED  BY <5>2, <5>3, <5>4
      <4>3. QED  BY <4>1, <4>2
    <3>10. Guards(Q, n)'
      BY <3>7, <3>9 DEF Guards, Ref
    <3>11. QED  BY <3>10
  <2>7. Guarded'
    <3>1. ASSUME NEW k \in DOMAIN stack', stack'[k].at = "kill"
          PROVE  \E P \in SUBSET Obj : Guards(P, k)'
      <4>1. CASE k = n
        BY <2>6, <4>1
      <4>2. CASE k # n
        BY <1>8, <3>1, <4>2
      <4>3. QED  BY <4>1, <4>2
    <3>2. QED  BY <3>1 DEF Guarded
  <2>8. TypeOK'
    <3>1. backrefs' \in [Obj -> Seq(Scalar)] /\ phase' \in [Obj -> {"unborn", "alive", "dying", "freed"}]
      <4>1. <<>> \in Seq(Scalar) /\ "dying" \in {"unborn", "alive", "dying", "freed"}
        OBVIOUS
      <4>2. QED  BY <1>3, <1>4, <1>18, <4>1
    <3>2. QED  BY <1>3, <1>7, <1>8, <3>1 DEF BooksInv, TypeOK
  <2>9. \A u \in Obj : Counted(u)' /\ Listed(u)' /\ Staged(u)'
    BY <1>8, <1>16, <2>4, <2>5
  <2>10. BooksInv'
    BY <1>3, <1>8, <2>7, <2>8, <2>9 DEF BooksInv
  <2>11. QED  BY <1>1, <1>3, <1>6, <1>14, <1>15, <1>18, <2>10
<1>19. QED  BY <1>17, <1>18

LEMMA KillBackrefKeeps ==
    ASSUME BooksInv, KillBackref
    PROVE  /\ BooksInv' /\ refcnt' = refcnt /\ phase' = phase /\ InDestructor' = InDestructor
           /\ \E s \in Scalar : /\ value[s] = Ref(Inner.obj, TRUE) /\ phase[Inner.obj] = "dying"
                                /\ value' = [value EXCEPT ![s] = Undef]
<1>0. PICK n \in Nat : n = Len(stack)
  BY InnerFrame DEF KillBackref
<1>1. PICK o \in Obj : o = Inner.obj
  BY InnerFrame DEF KillBackref
<1>2. PICK list \in Seq(Scalar) : list = Inner.list /\ list # <<>> /\ Names(list, o)
  BY <1>1, InnerFrame DEF KillBackref
<1>3. PICK h \in Scalar : h = Head(list) /\ h \in Weak(o) /\ h \in Range(list)
  <2>1. Head(list) \in Scalar /\ 1 \in DOMAIN list /\ Head(list) = list[1]
    BY <1>2
  <2>2. Head(list) \in Range(list)
    BY <2>1 DEF Range
  <2>3. QED  BY <1>2, <2>1, <2>2 DEF Names
<1>4. /\ stack # <<>> /\ n \in 1 .. n /\ DOMAIN stack = 1 .. n /\ stack \in Seq(Frame)
      /\ Inner = stack[n] /\ Inner.at = "kill" /\ Inner \in Frame
      /\ \A i \in 1 .. n - 1 : i \in 1 .. n /\ i # n
      /\ \A i \in 1 .. n : i \in 1 .. n - 1 \/ i = n
  <2>1. stack \in Seq(Frame) /\ Top("kill")
    BY DEF KillBackref, BooksInv, TypeOK
  <2>2. /\ stack # <<>> /\ n \in DOMAIN stack /\ DOMAIN stack = 1 .. n
        /\ Inner = stack[n] /\ Inner \in Frame /\ Inner.at = "kill"
    BY <1>0, <2>1, InnerFrame
  <2>3. /\ \A i \in 1 .. n - 1 : i \in 1 .. n /\ i # n
        /\ \A i \in 1 .. n : i \in 1 .. n - 1 \/ i = n
    OBVIOUS
  <2>4. QED  BY <2>1, <2>2, <2>3
<1>5. value[h] = Ref(o, TRUE) /\ value[h] # Undef /\ value[h].weak /\ value[h].to = o
  <2>1. value[h] = Ref(o, TRUE) /\ TRUE \in BOOLEAN
    BY <1>3 DEF Weak, Ref
  <2>2. QED  BY <2>1, RefFacts
<1> DEFINE f == Kill(o, Tail(list))
<1>6. f \in Frame /\ f.obj = o /\ f.at = "kill" /\ f.list = Tail(list)
  <2>1. Tail(list) \in Seq(Scalar)
    BY <1>2
  <2>2. QED  BY <2>1 DEF Kill, Frame
<1>7. Magic(o) \in Frame /\ Magic(o).at = "magic"
  BY DEF Magic, Frame
<1>8. /\ value' = [value EXCEPT ![h] = Undef]
      /\ stack' = (IF h \in Magical THEN Append(Becomes(f), Magic(o)) ELSE Becomes(f))
      /\ panicked' = panicked /\ refcnt' = refcnt /\ backrefs' = backrefs /\ phase' = phase
  BY <1>1, <1>2, <1>3, <1>5 DEF KillBackref
<1>9. /\ stack' \in Seq(Frame)
      /\ \A i \in 1 .. n - 1 : i \in DOMAIN stack' /\ stack'[i] = stack[i]
      /\ n \in DOMAIN stack' /\ stack'[n] = f
      /\ \A i \in DOMAIN stack' : i \in 1 .. n \/ stack'[i].at = "magic"
  <2>1. /\ Becomes(f) \in Seq(Frame) /\ Len(Becomes(f)) = n /\ DOMAIN Becomes(f) = 1 .. n
        /\ \A i \in 1 .. n - 1 : Becomes(f)[i] = stack[i]
        /\ Becomes(f)[n] = f
    BY <1>0, <1>4, <1>6, StackSteps
  <2> DEFINE b == Becomes(f)
             c == Append(b, Magic(o))
  <2> HIDE DEF b, f
  <2>2. /\ c \in Seq(Frame) /\ DOMAIN c = 1 .. n + 1
        /\ \A i \in 1 .. n : c[i] = b[i]
        /\ c[n + 1] = Magic(o)
    <3>1. b \in Seq(Frame) /\ Len(b) = n
      BY <2>1 DEF b
    <3>2. QED  BY <1>7, <3>1
  <2>3. \A i \in 1 .. n : i \in 1 .. n + 1
    OBVIOUS
  <2>4. \A i \in 1 .. n + 1 : i \in 1 .. n \/ i = n + 1
    OBVIOUS
  <2>5. stack' = IF h \in Magical THEN c ELSE b
    BY <1>8 DEF b
  <2>6. /\ b \in Seq(Frame) /\ DOMAIN b = 1 .. n /\ b[n] = f
        /\ \A i \in 1 .. n - 1 : b[i] = stack[i]
    BY <2>1 DEF b
  <2> HIDE DEF c
  <2>7. CASE h \in Magical
    BY <1>4, <1>7, <2>2, <2>3, <2>4, <2>5, <2>6, <2>7
  <2>8. CASE h \notin Magical
    BY <1>4, <2>5, <2>6, <2>8
  <2>9. QED  BY <2>7, <2>8
<1> HIDE DEF f
<1>10. \A at \in {"destroy", "kill", "empty"} : \A u \in Obj :
          /\ \A i \in 1 .. n : At(i, at, u) => i \in DOMAIN stack' /\ At(i, at, u)'
          /\ \A i \in DOMAIN stack' : At(i, at, u)' => i \in 1 .. n /\ At(i, at, u)
  BY <1>1, <1>4, <1>6, <1>9 DEF At
<1>11. /\ \A i \in DOMAIN stack' : Frees(i)' => i \in 1 .. n /\ Frees(i) /\ stack'[i].obj = stack[i].obj
       /\ \A i \in 1 .. n : Frees(i) => i \in DOMAIN stack' /\ Frees(i)' /\ stack'[i].obj = stack[i].obj
  BY <1>1, <1>4, <1>6, <1>9 DEF Frees
<1>12. \A u \in Obj : /\ Strong(u)' = Strong(u)
                      /\ Weak(u)' = IF u = o THEN Weak(u) \ {h} ELSE Weak(u)
  <2>1. Links
    BY DEF BooksInv, TypeOK, Links
  <2>2. ASSUME NEW u \in Obj
        PROVE  /\ Strong(u)' = Strong(u) \ {h} /\ h \notin Strong(u)
               /\ Weak(u)' = Weak(u) \ {h} /\ (h \in Weak(u) <=> u = o)
    <3>1. Undef # Ref(u, FALSE) /\ Undef # Ref(u, TRUE)
      BY RefFacts
    <3>2. Ref(o, TRUE) # Ref(u, FALSE) /\ (Ref(o, TRUE) = Ref(u, TRUE) <=> u = o)
      BY RefInjective
    <3>3. PICK v : v = Undef
      OBVIOUS
    <3>4. value' = [value EXCEPT ![h] = v]
      BY <1>8, <3>3
    <3>5. h \in Scalar
      BY <1>3 DEF Weak
    <3>6. /\ Strong(u)' = IF v = Ref(u, FALSE) THEN Strong(u) \cup {h} ELSE Strong(u) \ {h}
          /\ Weak(u)' = IF v = Ref(u, TRUE) THEN Weak(u) \cup {h} ELSE Weak(u) \ {h}
          /\ h \in Strong(u) <=> value[h] = Ref(u, FALSE)
          /\ h \in Weak(u) <=> value[h] = Ref(u, TRUE)
      BY ONLY <2>1, <3>4, <3>5, u \in Obj, Retarget
    <3>7. QED  BY <1>5, <3>1, <3>2, <3>3, <3>6
  <2>3. ASSUME NEW u \in Obj
        PROVE  Strong(u)' = Strong(u) /\ Weak(u)' = IF u = o THEN Weak(u) \ {h} ELSE Weak(u)
    <3>1. /\ Strong(u)' = Strong(u) \ {h} /\ h \notin Strong(u)
          /\ Weak(u)' = Weak(u) \ {h} /\ (h \in Weak(u) <=> u = o)
      BY <2>2
    <3>2. QED  BY <3>1
  <2>4. QED  BY <2>3
<1>13. TypeOK'
  BY <1>8, <1>9 DEF BooksInv, TypeOK
<1>14. FreedOnce'
  BY <1>4, <1>11 DEF BooksInv, FreedOnce
<1>15. InDestructor' = InDestructor
  <2>1. \A u \in Obj : u \in InDestructor' <=> \E i \in DOMAIN stack' : At(i, "destroy", u)'
    BY DEF InDestructor, Frames, At
  <2>2. \A u \in Obj : u \in InDestructor <=> \E i \in DOMAIN stack : At(i, "destroy", u)
    BY DEF InDestructor, Frames, At
  <2>3. \A u \in Obj : u \in InDestructor' <=> u \in InDestructor
    BY <1>4, <1>10, <2>1, <2>2
  <2>4. QED  BY <2>3 DEF InDestructor
<1>16. ASSUME NEW u \in Obj  PROVE Counted(u)' /\ Listed(u)' /\ Staged(u)'
  <2>1. Counted(u) /\ Listed(u) /\ Staged(u)
    BY DEF BooksInv
  <2>2. Counted(u)'
    BY <1>8, <1>12, <1>15, <2>1 DEF Counted
  <2>3. Staged(u)'
    <3>1. value[u] = Undef => value'[u] = Undef
      BY <1>8 DEF BooksInv, TypeOK, Scalar
    <3>2. Weak(u) = {} => Weak(u)' = {}
      BY <1>12
    <3>3. QED  BY <1>4, <1>8, <1>10, <2>1, <3>1, <3>2 DEF Staged
  <2>4. CASE u = o
    <3>1. At(n, "kill", o) /\ At(n, "kill", o)'
      BY <1>1, <1>4, <1>6, <1>9 DEF At
    <3>2. \A i \in DOMAIN stack' : At(i, "kill", o)' => i = n
      BY <1>4, <1>10, <3>1 DEF BooksInv, FreedOnce, Frees, At
    <3>3. Names(Tail(list), o)'
      BY <1>2, <1>3, <1>12, TailNames DEF Names
    <3>4. stack'[n].list = Tail(list)
      BY <1>6, <1>9
    <3>5. Names(stack[n].list, o)'
      BY <3>3, <3>4 DEF Names
    <3>6. Listed(o)'
      BY <1>9, <3>1, <3>2, <3>5 DEF Listed
    <3>7. QED  BY <2>2, <2>3, <2>4, <3>6
  <2>5. CASE u # o
    <3>1. Weak(u)' = Weak(u)
      BY <1>12, <2>5
    <3>2. \A i \in DOMAIN stack' : At(i, "kill", u)' => stack'[i] = stack[i] /\ i \in DOMAIN stack /\ At(i, "kill", u)
      BY <1>1, <1>4, <1>9, <1>10, <2>5 DEF At
    <3>3. \A i \in DOMAIN stack : At(i, "kill", u) => i \in DOMAIN stack' /\ At(i, "kill", u)'
      BY <1>4, <1>10
    <3>4. Listed(u)'
      BY <1>8, <2>1, <3>1, <3>2, <3>3 DEF Listed, Names
    <3>5. QED  BY <2>2, <2>3, <3>4
  <2>6. QED  BY <2>4, <2>5
<1>17. ASSUME NEW k \in 1 .. n - 1, stack[k].at = "kill"
       PROVE  \E P \in SUBSET Obj : Guards(P, k)'
  <2>1. PICK P \in SUBSET Obj : Guards(P, k)
    BY <1>4, <1>17 DEF BooksInv, Guarded
  <2>2. k \in Nat /\ k \in 1 .. n /\ k < n /\ k # n
    BY <1>17
  <2>3. stack'[k] = stack[k] /\ k \in DOMAIN stack'
    BY <1>9, <1>17
  <2>4. PICK p \in Obj : p = stack[k].obj
    <3>1. stack[k] \in Frame
      BY <1>4, <2>2
    <3>2. QED  BY <3>1 DEF Frame
  <2>5. /\ Weak(p) \cap Obj \subseteq P
        /\ \A u \in P :
              /\ value[u] # Undef
              /\ value[u].to \in P \cup {p}
              /\ p \in Closure({value[u].to}, {})
              /\ \A j \in 1 .. n : j > k /\ Frees(j) => stack[j].obj # u
              /\ \/ \E r \in Var \cup P : value[r] = Ref(u, FALSE)
                 \/ \E j \in 1 .. k : Frees(j) /\ stack[j].obj = u
    BY <1>4, <2>1, <2>4 DEF Guards, Ref
  <2>6. Frees(n) /\ Frees(k) /\ stack[n].obj = o
    BY <1>1, <1>4, <1>17 DEF Frees
  <2>7. p # o
    BY <1>4, <2>2, <2>4, <2>6 DEF BooksInv, FreedOnce
  <2>8. o \notin P
    BY <1>4, <2>2, <2>5, <2>6
  <2>9. h \notin P
    BY <1>5, <2>5, <2>7, <2>8
  <2>10. \A r \in Scalar : r # h => value'[r] = value[r]
    BY <1>8 DEF BooksInv, TypeOK
  <2>11. \A u \in P : u \in Scalar /\ u # h /\ value'[u] = value[u]
    BY <2>9, <2>10 DEF Scalar
  <2>12. Weak(p)' \cap Obj \subseteq P
    BY <1>12, <2>5, <2>7
  <2>13. ASSUME NEW u \in P
         PROVE  /\ value'[u] # Undef
                /\ value'[u].to \in P \cup {p}
                /\ p \in Closure({value[u].to}, {})'
    <3>1. PICK w \in P \cup {p} : w = value[u].to
      BY <2>5
    <3>2. p \in Closure({w}, {})
      BY <2>5, <3>1
    <3>3. \A x \in P : value'[x] = value[x] /\ value[x].to \in P \cup {p}
      BY <2>5, <2>11
    <3>4. p \in Closure({w}, {})'
      BY <3>2, <3>3, PathKept
    <3>5. value'[u].to = w
      BY <2>11, <3>1
    <3>6. QED  BY <2>5, <2>11, <3>4, <3>5
  <2>14. ASSUME NEW u \in P, NEW j \in DOMAIN stack', j > k, Frees(j)'
         PROVE  stack'[j].obj # u
    BY <1>11, <2>5, <2>14
  <2>15. ASSUME NEW u \in P
         PROVE  \/ \E r \in Var \cup P : value'[r] = Ref(u, FALSE)
                \/ \E j \in 1 .. k : Frees(j)' /\ stack'[j].obj = u
    <3>1. CASE \E r \in Var \cup P : value[r] = Ref(u, FALSE)
      <4>1. PICK r \in Var \cup P : value[r] = Ref(u, FALSE)
        BY <3>1
      <4>2. Ref(o, TRUE) # Ref(u, FALSE) /\ r \in Scalar
        BY RefInjective DEF Scalar
      <4>3. r # h
        BY <1>5, <4>1, <4>2
      <4>4. QED  BY <2>10, <4>1, <4>2, <4>3
    <3>2. CASE \E j \in 1 .. k : Frees(j) /\ stack[j].obj = u
      <4>1. PICK j \in 1 .. k : Frees(j) /\ stack[j].obj = u
        BY <3>2
      <4>2. j \in 1 .. n
        BY <2>2
      <4>3. QED  BY <1>11, <4>1, <4>2
    <3>3. QED  BY <2>5, <3>1, <3>2
  <2>16. QED
    <3>1. stack'[k].obj = p /\ Weak(p)' \cap Obj \subseteq P
      BY <2>3, <2>4, <2>12
    <3>2. \A u \in P : \A j \in DOMAIN stack' : j > k /\ Frees(j)' => stack'[j].obj # u
      BY <2>14
    <3>3. \A u \in P : \/ \E r \in Var \cup P : value'[r] = [to |-> u, weak |-> FALSE]
                       \/ \E j \in 1 .. k : Frees(j)' /\ stack'[j].obj = u
      BY <2>15 DEF Ref
    <3>4. Guards(P, k)'
      BY <2>13, <3>1, <3>2, <3>3 DEF Guards
    <3>5. QED  BY <3>4
<1>18. \E Q \in SUBSET Obj : Guards(Q, n)'
  <2>1. PICK P \in SUBSET Obj : Guards(P, n)
    BY <1>4 DEF BooksInv, Guarded
  <2>2. /\ Weak(o) \cap Obj \subseteq P
        /\ \A u \in P :
              /\ value[u] # Undef
              /\ value[u].to \in P \cup {o}
              /\ \A j \in 1 .. n : j > n /\ Frees(j) => stack[j].obj # u
              /\ \/ \E r \in Var \cup P : value[r] = Ref(u, FALSE)
                 \/ \E j \in 1 .. n : Frees(j) /\ stack[j].obj = u
    BY <1>1, <1>4, <2>1 DEF Guards, Ref
  <2>3. Links' /\ Ways'
    BY <1>13, WaysLeadThen DEF TypeOK, Links
  <2> DEFINE R == {u \in P : value'[u] # Undef /\ o \in Closure({value[u].to}, {})'}
  <2>4. PICK Q \in SUBSET Obj : Q = R
    OBVIOUS
  <2>5. \A u \in Obj : u \in Q <=> u \in P /\ value'[u] # Undef /\ o \in Closure({value[u].to}, {})'
    BY <2>4
  <2> HIDE DEF R
  <2>6. \A r \in Scalar : value'[r] = IF r = h THEN Undef ELSE value[r]
    BY <1>8 DEF BooksInv, TypeOK
  <2>7. o \in Closure({o}, {})'
    BY <2>3 DEF Ways
  <2>8. Weak(o)' \cap Obj \subseteq Q
    <3>1. ASSUME NEW u \in Obj, u \in Weak(o)'
          PROVE  u \in Q
      <4>1. u \in P
        BY <1>12, <2>2, <3>1
      <4>2. value'[u] = Ref(o, TRUE)
        BY <3>1 DEF Weak, Ref
      <4>3. value'[u] # Undef /\ value'[u].to = o
        BY <4>2, RefFacts
      <4>4. QED  BY <2>5, <2>7, <4>1, <4>3
    <3>2. QED  BY <3>1
  <2>9. ASSUME NEW u \in Q
        PROVE  /\ value'[u] # Undef
               /\ value'[u].to \in Q \cup {o}
               /\ o \in Closure({value[u].to}, {})'
    <3>1. u \in Obj /\ u \in P /\ u \in Scalar /\ value'[u] # Undef /\ o \in Closure({value[u].to}, {})'
      BY <2>5 DEF Scalar
    <3>2. PICK w \in P \cup {o} : w = value[u].to
      BY <2>2, <3>1
    <3>3. value'[u].to = w
      BY <2>6, <3>1, <3>2
    <3>4. o \in Closure({w}, {})'
      BY <3>1, <3>3
    <3>5. w # o => w \in Q
      <4>1. SUFFICES ASSUME w # o  PROVE w \in Q
        OBVIOUS
      <4>2. w \in P /\ w \in Obj
        BY <4>1
      <4>3. value'[w] # Undef /\ o \in Closure({value[w].to}, {})'
        BY <2>3, <3>4, <4>1, <4>2 DEF Ways
      <4>4. QED  BY <2>5, <4>2, <4>3
    <3>6. QED  BY <3>1, <3>3, <3>5
  <2>10. \A u \in Q : \A j \in DOMAIN stack' : j > n /\ Frees(j)' => stack'[j].obj # u
    <3>1. \A j \in 1 .. n : ~ (j > n)
      OBVIOUS
    <3>2. QED  BY <1>11, <3>1
  <2>11. ASSUME NEW u \in Q
         PROVE  \/ \E r \in Var \cup Q : value'[r] = Ref(u, FALSE)
                \/ \E j \in 1 .. n : Frees(j)' /\ stack'[j].obj = u
    <3>1. u \in Obj /\ u \in P /\ value'[u] # Undef /\ o \in Closure({value[u].to}, {})'
      BY <2>5
    <3>2. CASE \E r \in Var \cup P : value[r] = Ref(u, FALSE)
      <4>1. PICK r \in Var \cup P : value[r] = Ref(u, FALSE)
        BY <3>2
      <4>2. Ref(o, TRUE) # Ref(u, FALSE) /\ r \in Scalar
        BY <3>1, RefInjective DEF Scalar
      <4>3. value'[r] = Ref(u, FALSE)
        BY <1>5, <2>6, <4>1, <4>2
      <4>4. value'[r] # Undef /\ value'[r].to = u
        BY <3>1, <4>3, RefFacts
      <4>5. r \in P => r \in Q
        <5>1. o \in Closure({u}, {})'
          BY <2>3, <3>1 DEF Ways
        <5>2. QED  BY <2>5, <4>4, <5>1
      <4>6. QED  BY <4>1, <4>3, <4>5
    <3>3. CASE \E j \in 1 .. n : Frees(j) /\ stack[j].obj = u
      BY <1>11, <3>3
    <3>4. QED  BY <2>2, <3>1, <3>2, <3>3
  <2>12. stack'[n].obj = o
    BY <1>6, <1>9
  <2>13. Guards(Q, n)'
    BY <2>8, <2>9, <2>10, <2>11, <2>12 DEF Guards, Ref
  <2>14. QED  BY <2>13
<1>19. Guarded'
  <2>1. ASSUME NEW k \in DOMAIN stack', stack'[k].at = "kill"
        PROVE  \E P \in SUBSET Obj : Guards(P, k)'
    <3>1. k \in 1 .. n
      BY <1>9, <2>1
    <3>2. CASE k = n
      BY <1>18, <3>2
    <3>3. CASE k \in 1 .. n - 1
      BY <1>9, <1>17, <2>1, <3>3
    <3>4. QED  BY <1>4, <3>1, <3>2, <3>3
  <2>2. QED  BY <2>1 DEF Guarded
<1>20. BooksInv'
  BY <1>8, <1>13, <1>14, <1>16, <1>19 DEF BooksInv
<1>21. phase[o] = "dying"
  BY <1>1, <1>4, Gone
<1>22. QED  BY <1>1, <1>5, <1>8, <1>15, <1>20, <1>21

-----------------------------------------------------------------------------
\* The theorems.

LEMMA InitBooks == Init => BooksInv
<1> SUFFICES ASSUME Init  PROVE BooksInv
  OBVIOUS
<1>1. /\ value = [s \in Scalar |-> Undef] /\ refcnt = [o \in Obj |-> 0]
      /\ backrefs = [o \in Obj |-> <<>>] /\ phase = [o \in Obj |-> "unborn"]
      /\ stack = <<>> /\ DOMAIN stack = {} /\ panicked = FALSE
  BY DEF Init
<1>2. TypeOK
  <2>1. value \in [Scalar -> {Undef} \cup [to : Obj, weak : BOOLEAN]]
    BY <1>1
  <2>2. refcnt \in [Obj -> Nat] /\ backrefs \in [Obj -> Seq(Scalar)] /\ stack \in Seq(Frame)
    BY <1>1
  <2>3. phase \in [Obj -> {"unborn", "alive", "dying", "freed"}]
    BY <1>1
  <2>4. QED  BY <1>1, <2>1, <2>2, <2>3 DEF TypeOK
<1>3. FreedOnce /\ Guarded
  BY <1>1 DEF FreedOnce, Guarded
<1>4. ASSUME NEW o \in Obj  PROVE Counted(o) /\ Listed(o) /\ Staged(o)
  <2>1. Strong(o) = {} /\ Weak(o) = {}
    <3>1. Undef # Ref(o, TRUE) /\ Undef # Ref(o, FALSE)
      BY RefFacts
    <3>2. QED  BY <1>1, <3>1 DEF Strong, Weak, Ref
  <2>2. o \notin InDestructor
    BY <1>1 DEF InDestructor, Frames
  <2>3. Counted(o)
    BY <1>1, <2>1, <2>2, FS_EmptySet DEF Counted
  <2>4. Listed(o)
    <3>1. Range(<<>>) = {} /\ IsInjective(<<>>)
      BY DEF Range, IsInjective
    <3>2. QED  BY <1>1, <2>1, <3>1 DEF Listed, Names
  <2>5. Staged(o)
    BY <1>1, <2>1 DEF Staged, Scalar
  <2>6. QED  BY <2>3, <2>4, <2>5
<1>5. QED  BY <1>1, <1>2, <1>3, <1>4 DEF BooksInv

LEMMA NextBooks ==
    ASSUME BooksInv, ~ Intrudes, [Next]_vars
    PROVE  BooksInv'
<1>1. CASE \E s \in Scalar : \E o \in Obj : Assign(s, o)
  BY <1>1, AssignKeeps
<1>2. CASE \E s \in Scalar : Clear(s)
  BY <1>2, ClearKeeps
<1>3. CASE \E s \in Scalar : Weaken(s)
  BY <1>3, WeakenMutates
<1>4. CASE \E s \in Scalar : Unweaken(s)
  BY <1>4, UnweakenMutates
<1>5. CASE DestroyReturns
  BY <1>5, DestroyReturnsKeeps
<1>6. CASE KillBackref
  BY <1>6, KillBackrefKeeps
<1>7. CASE MagicReturns
  BY <1>7, MagicReturnsKeeps
<1>8. CASE KilledAll
  BY <1>8, KilledAllKeeps
<1>9. CASE FreeElement
  BY <1>9, FreeElementMutates
<1>10. CASE FreeBody
  BY <1>10, FreeBodyKeeps
<1>11. CASE UNCHANGED vars
  <2>1. /\ value' = value /\ refcnt' = refcnt /\ backrefs' = backrefs /\ phase' = phase
        /\ stack' = stack /\ panicked' = panicked
    BY <1>11 DEF vars
  <2>2. TypeOK' /\ FreedOnce'
    BY <2>1 DEF BooksInv, TypeOK, FreedOnce, Frees
  <2>3. \A o \in Obj : Strong(o)' = Strong(o) /\ Weak(o)' = Weak(o)
    BY <2>1 DEF Strong, Weak
  <2>4. InDestructor' = InDestructor
    BY <2>1 DEF InDestructor, Frames
  <2>5. \A o \in Obj : Counted(o)' /\ Listed(o)' /\ Staged(o)'
    BY <2>1, <2>3, <2>4 DEF BooksInv, Counted, Listed, Names, Staged, At
  <2>6. Guarded'
    <3>1. ASSUME NEW k \in DOMAIN stack, stack[k].at = "kill"
          PROVE  \E P \in SUBSET Obj : Guards(P, k)'
      <4>1. PICK P \in SUBSET Obj : Guards(P, k)
        BY <3>1 DEF BooksInv, Guarded
      <4>2. \A u \in P : Closure({value[u].to}, {})' = Closure({value[u].to}, {})
        BY <2>1 DEF Closure, Targets
      <4>3. Guards(P, k)'
        <5>1. Weak(stack[k].obj)' = Weak(stack[k].obj) /\ \A j : Frees(j)' = Frees(j)
          BY <2>1 DEF Weak, Frees
        <5>2. \A u \in P :
                /\ value'[u] = value[u]
                /\ \A o : o \in Closure({value[u].to}, {})' <=> o \in Closure({value[u].to}, {})
          BY <2>1, <4>2
        <5>3. QED  BY <2>1, <4>1, <5>1, <5>2 DEF Guards
      <4>4. QED  BY <4>3
    <3>2. QED  BY <2>1, <3>1 DEF Guarded
  <2>7. QED  BY <2>1, <2>2, <2>5, <2>6 DEF BooksInv
<1>12. QED
  BY <1>1, <1>2, <1>3, <1>4, <1>5, <1>6, <1>7, <1>8, <1>9, <1>10, <1>11 DEF Next

\* Where the frames of an object are, its list and its count are what BooksKept
\* says of them.
LEMMA BooksFollow == BooksInv => BooksKept
<1> SUFFICES ASSUME BooksInv, NEW o \in Obj
             PROVE  /\ Range(ListOf(o)) = Weak(o) /\ IsInjective(ListOf(o))
                    /\ refcnt[o] = Cardinality(Strong(o)) + Cardinality(Frames("destroy", o))
                    /\ phase[o] = "freed" => Weak(o) \cup Strong(o) = {}
  BY DEF BooksInv, BooksKept, Weak, Strong
<1>1. Counted(o) /\ Listed(o) /\ Staged(o) /\ Cardinality(Strong(o)) \in Nat
  BY FS_CardinalityType DEF BooksInv, Counted
<1>2. Names(ListOf(o), o)
  <2>1. CASE Frames("kill", o) = {}
    <3>1. \A i \in DOMAIN stack : ~ At(i, "kill", o)
      BY <2>1 DEF Frames, At
    <3>2. QED  BY <1>1, <2>1, <3>1 DEF Listed, ListOf
  <2>2. CASE Frames("kill", o) # {}
    <3> DEFINE k == CHOOSE i \in Frames("kill", o) : TRUE
    <3>1. k \in Frames("kill", o)
      BY <2>2
    <3>2. k \in DOMAIN stack /\ At(k, "kill", o)
      BY <3>1 DEF Frames, At
    <3>3. ListOf(o) = stack[k].list
      BY <2>2 DEF ListOf
    <3>4. QED  BY <1>1, <3>2, <3>3 DEF Listed
  <2>3. QED  BY <2>1, <2>2
<1>3. Cardinality(Frames("destroy", o)) = IF o \in InDestructor THEN 1 ELSE 0
  <2>1. CASE Frames("destroy", o) = {}
    BY <2>1, FS_EmptySet DEF InDestructor
  <2>2. CASE Frames("destroy", o) # {}
    <3>1. PICK i \in Frames("destroy", o) : TRUE
      BY <2>2
    <3>2. \A j \in Frames("destroy", o) : j = i
      BY <3>1 DEF BooksInv, FreedOnce, Frees, Frames
    <3>3. Frames("destroy", o) = {i}
      BY <3>1, <3>2
    <3>4. QED  BY <2>2, <3>3, FS_Singleton DEF InDestructor
  <2>3. QED  BY <2>1, <2>2
<1>4. ASSUME phase[o] = "freed"  PROVE Weak(o) = {} /\ Strong(o) = {}
  <2>1. refcnt[o] = 0
    <3>1. refcnt[o] \in Nat /\ ~ (refcnt[o] > 0)
      BY <1>1, <1>4 DEF Staged, BooksInv, TypeOK
    <3>2. QED  BY <3>1
  <2>2. Cardinality(Strong(o)) = 0
    BY <1>1, <2>1 DEF Counted
  <2>3. QED  BY <1>1, <1>4, <2>2, FS_EmptySet DEF Staged, Counted
<1>5. QED  BY <1>1, <1>2, <1>3, <1>4 DEF Names, Counted

\* The counts, the lists, the stage of its end that an object is in, and the
\* references that keep the way to a dying object from being freed under it,
\* agree at every step of every program whose set magic leaves such ways alone.
THEOREM BooksInvariance == ASSUME ~ Intrudes  PROVE Spec => []BooksInv
<1>1. ASSUME BooksInv, [Next]_vars  PROVE BooksInv'
  BY <1>1, NextBooks
<1>2. QED  BY <1>1, InitBooks, PTL DEF Spec

\* Perl_sv_add_backref, Perl_sv_del_backref and sv_kill_backrefs keep each list equal to
\* the set of weak references, and the count to the number of the strong ones.
THEOREM BooksAreKept == ASSUME ~ Intrudes  PROVE Spec => []BooksKept
BY BooksInvariance, BooksFollow, PTL

\* No reference leads to what was freed, and one to an object that is dying is
\* a weak one that the loop of sv_kill_backrefs (sv.c:7365) has still to come
\* to, provided that set magic uses nothing that leads to the dying object.
THEOREM ReferentsStayLive == ASSUME ~ Intrudes  PROVE Spec => []ReferentsLive
<1>1. ASSUME BooksInv, NEW s \in Scalar, value[s] # Undef
      PROVE  \/ phase[value[s].to] = "alive"
             \/ value[s].weak /\ value[s].to \in Dying
  <2> DEFINE o == value[s].to
  <2>1. o \in Obj /\ value[s].weak \in BOOLEAN /\ value[s] = [to |-> o, weak |-> value[s].weak]
    BY <1>1, References DEF BooksInv, TypeOK, Links
  <2>2. phase[o] = "alive" \/ o \in Dying
    BY <1>1, Referred DEF At, Dying
  <2> HIDE DEF o
  <2>3. ASSUME value[s].weak = FALSE
        PROVE  phase[o] = "alive"
    <3>1. Counted(o) /\ Staged(o)
      BY <1>1, <2>1 DEF BooksInv
    <3>2. s \in Strong(o)
      BY <1>1, <2>1, <2>3 DEF Strong
    <3>3. Cardinality(Strong(o)) \in Nat /\ Cardinality(Strong(o)) # 0
      BY <3>1, <3>2, FS_CardinalityType, FS_EmptySet DEF Counted
    <3>4. refcnt[o] > 0
      BY <3>1, <3>3 DEF Counted
    <3>5. QED  BY <3>1, <3>4 DEF Staged
  <2>4. QED  BY <2>1, <2>2, <2>3 DEF o
<1>2. BooksInv => ReferentsLive
  BY <1>1 DEF ReferentsLive
<1>3. QED  BY <1>2, BooksInvariance, PTL

-----------------------------------------------------------------------------
\* The promise made of weak references is kept, step by step.

LEMMA PromisedStrong == Links => \A o \in Obj : Promise!Strong(o) = Strong(o)
<1> SUFFICES ASSUME Links, NEW o \in Obj, NEW s \in Scalar
             PROVE  value[s] # Undef /\ value[s].to \in {o} /\ ~ value[s].weak <=> value[s] = Ref(o, FALSE)
  BY DEF Promise!Strong, Promise!LeadsTo, Strong, Ref
<1>1. value[s] # Undef => value[s] = Ref(value[s].to, value[s].weak) /\ value[s].weak \in BOOLEAN
  BY References DEF Ref
<1>2. Ref(o, FALSE) # Undef /\ Ref(o, FALSE).to = o /\ ~ Ref(o, FALSE).weak
  BY RefFacts
<1>3. QED  BY <1>1, <1>2

LEMMA PromisedStrongThen == Links' => (\A o \in Obj : Promise!Strong(o) = Strong(o))'
BY PromisedStrong, PTL

\* What Perl code makes use of leads to nothing that is disposed of.
LEMMA UsableAlive ==
    ASSUME BooksInv, NEW s \in Scalar, Usable(s), ~ Intrudes
    PROVE  ~ Promise!LeadsTo(s, Disposed)
<1>1. SUFFICES ASSUME value[s] # Undef
               PROVE  value[s].to \notin Disposed
  BY DEF Promise!LeadsTo
<1>2. Links
  BY DEF BooksInv, TypeOK, Links
<1>3. PICK o \in Obj : o = value[s].to
  BY <1>1, <1>2, References
<1>4. ~ \E k \in DOMAIN stack : At(k, "kill", o)
  <2>1. SUFFICES ASSUME NEW k \in DOMAIN stack, At(k, "kill", o)
                 PROVE  FALSE
    OBVIOUS
  <2>2. o \in Dying
    BY <2>1 DEF At, Dying
  <2>3. Targets({s}) = {o}
    BY <1>1, <1>3 DEF Targets
  <2>4. o \in Closure({o}, {})
    BY <1>2, ClosureClosed
  <2>5. QED  BY <2>2, <2>3, <2>4 DEF Usable
<1>5. phase[o] = "alive"
  BY <1>1, <1>3, <1>4, Referred
<1>6. QED  BY <1>3, <1>5 DEF Disposed

\* When a reference is dropped, the destructor of an object begins or none does.
LEMMA MutationHolds ==
    ASSUME BooksInv, BooksInv', NEW s \in Scalar, NEW v, v # value[s], Mutates(s, v)
    PROVE  /\ Disposed' = Disposed
           /\ InDestructor' = InDestructor \/ \E p \in Obj : Promise!Hold(p)
<1>1. Disposed' = Disposed
  BY DEF Disposed, Mutates, BooksInv, TypeOK
<1>2. CASE stack' = stack
  BY <1>1, <1>2 DEF InDestructor, Frames
<1>3. ASSUME NEW p \in Obj, Pushed(p), value[s] = Ref(p, FALSE), refcnt[p] = 1
      PROVE  Promise!Hold(p)
  <2>1. /\ Counted(p) /\ Counted(p)' /\ Staged(p) /\ Links' /\ s \in Strong(p)
        /\ Cardinality(Strong(p)) \in Nat /\ Cardinality(Strong(p)') \in Nat
    BY <1>3, FS_CardinalityType DEF BooksInv, TypeOK, Links, Counted, Strong, Ref
  <2>2. Cardinality(Strong(p)) # 0
    BY <2>1, FS_EmptySet DEF Counted
  <2>3. p \notin InDestructor
    BY <1>3, <2>1, <2>2 DEF Counted
  <2>4. p \notin Disposed
    BY <1>3, <2>1 DEF Staged, Disposed
  <2>5. InDestructor' = InDestructor \cup {p}
    <3>1. Destroy(p) \in Frame /\ Destroy(p).at = "destroy" /\ Destroy(p).obj = p
      BY DEF Destroy, Frame
    <3>2. PICK n \in Nat : n = Len(stack)
      BY DEF BooksInv, TypeOK
    <3>3. /\ DOMAIN stack = 1 .. n /\ DOMAIN stack' = 1 .. n + 1
          /\ \A i \in 1 .. n : stack'[i] = stack[i]
          /\ stack'[n + 1] = Destroy(p)
      BY <1>3, <3>1, <3>2, StackSteps DEF BooksInv, TypeOK, Pushed
    <3>4. /\ \A i \in 1 .. n : i \in 1 .. n + 1
          /\ \A i \in 1 .. n + 1 : i \in 1 .. n \/ i = n + 1
          /\ n + 1 \in 1 .. n + 1
      OBVIOUS
    <3>5. \A o \in Obj : o \in InDestructor' <=> \E i \in 1 .. n + 1 : stack'[i].at = "destroy" /\ stack'[i].obj = o
      BY <3>3 DEF InDestructor, Frames
    <3>6. \A o \in Obj : o \in InDestructor <=> \E i \in 1 .. n : stack[i].at = "destroy" /\ stack[i].obj = o
      BY <3>3 DEF InDestructor, Frames
    <3>7. \A o \in Obj : o \in InDestructor' <=> o \in InDestructor \/ o = p
      BY <3>1, <3>3, <3>4, <3>5, <3>6
    <3>8. QED  BY <3>7 DEF InDestructor
  <2>6. refcnt'[p] = 1
    BY <1>3 DEF Mutates
  <2>7. Strong(p)' = {}
    BY <2>1, <2>5, <2>6, FS_EmptySet DEF Counted
  <2>8. Promise!Strong(p)' = {}
    BY <2>1, <2>7, PromisedStrongThen
  <2>9. QED  BY <1>1, <2>3, <2>4, <2>5, <2>8 DEF Promise!Hold
<1>4. QED  BY <1>1, <1>2, <1>3 DEF Mutates

\* An assignment, with or without the begin of a destructor.
LEMMA MutationAssigns ==
    ASSUME BooksInv, BooksInv', ~ Intrudes, NEW s \in Scalar, Usable(s), NEW v \in Values,
           v # value[s], Mutates(s, v), v # Undef => v.to \notin Disposed
    PROVE  Promise!Next
<1>1. ~ Promise!LeadsTo(s, Disposed)
  BY UsableAlive
<1>2. /\ Disposed' = Disposed
      /\ InDestructor' = InDestructor \/ \E p \in Obj : Promise!Hold(p)
  BY MutationHolds
<1>3. value' = [value EXCEPT ![s] = v] /\ v \in {Undef} \cup Promise!Reference
  BY DEF Mutates, Values, Promise!Reference
<1>4. Promise!Assign(s, v) \/ \E p \in Obj : Promise!AssignHold(s, v, p)
  BY <1>1, <1>2, <1>3 DEF Promise!Assign, Promise!AssignHold
<1>5. QED  BY <1>3, <1>4 DEF Promise!Next

LEMMA DestroyReturnsPromised ==
    ASSUME BooksInv, DestroyReturns
    PROVE  Promise!Next
<1>1. PICK o \in Obj : o = Inner.obj
  BY InnerFrame DEF DestroyReturns
<1>2. Promise!Strong(o) = Strong(o) /\ value' = value
  BY PromisedStrong DEF BooksInv, TypeOK, Links, DestroyReturns
<1>3. CASE Resurrected(o)
  <2>1. Disposed' = Disposed
    BY <1>1, <1>3, DestroyReturnsKeeps DEF Disposed
  <2>2. Promise!Keep(o)
    BY <1>1, <1>2, <1>3, <2>1, DestroyReturnsKeeps DEF Promise!Keep
  <2>3. QED  BY <2>2 DEF Promise!Next
<1>4. CASE ~ Resurrected(o)
  <2>1. phase' = [phase EXCEPT ![o] = "dying"]
    BY <1>1, <1>4, DestroyReturnsKeeps
  <2>2. Disposed' = Disposed \cup {o}
    BY <2>1 DEF BooksInv, TypeOK, Disposed
  <2>3. Promise!Doom(o)
    BY <1>1, <1>2, <1>4, <2>2, DestroyReturnsKeeps DEF Promise!Doom
  <2>4. QED  BY <2>3 DEF Promise!Next
<1>5. QED  BY <1>3, <1>4

LEMMA KillBackrefPromised ==
    ASSUME BooksInv, KillBackref
    PROVE  Promise!Next
<1>1. PICK o \in Obj : o = Inner.obj
  BY InnerFrame DEF KillBackref
<1>2. PICK s \in Scalar : /\ value[s] = Ref(o, TRUE) /\ phase[o] = "dying"
                          /\ value' = [value EXCEPT ![s] = Undef]
  BY <1>1, KillBackrefKeeps
<1>3. Disposed' = Disposed /\ InDestructor' = InDestructor
  BY KillBackrefKeeps DEF Disposed
<1>4. value[s] # Undef /\ value[s].to = o /\ o \in Disposed
  BY <1>2, RefFacts DEF Disposed
<1>5. Promise!Clear(s)
  BY <1>2, <1>3, <1>4 DEF Promise!Clear, Promise!LeadsTo
<1>6. QED  BY <1>5 DEF Promise!Next

LEMMA FreeElementPromised ==
    ASSUME BooksInv, FreeElement
    PROVE  Promise!Next
<1>1. PICK s \in Obj : s = Inner.obj
  BY FreeElementMutates
<1>2. phase[s] = "dying" /\ value[s] # Undef /\ Mutates(s, Undef) /\ BooksInv' /\ s \in Scalar
  BY <1>1, FreeElementMutates DEF Scalar
<1>3. /\ Disposed' = Disposed
      /\ InDestructor' = InDestructor \/ \E p \in Obj : Promise!Hold(p)
  BY <1>2, MutationHolds
<1>4. s \in Disposed /\ value' = [value EXCEPT ![s] = Undef]
  BY <1>2 DEF Disposed, Mutates
<1>5. Promise!Clear(s)
  BY <1>3, <1>4 DEF Promise!Clear
<1>6. QED  BY <1>2, <1>5 DEF Promise!Next

\* The frames of set magic and of what is left of sv_clear are no destructors.
LEMMA InnerStutters ==
    ASSUME BooksInv, MagicReturns \/ KilledAll \/ FreeBody
    PROVE  UNCHANGED Promise!vars
<1>1. PICK n \in Nat : n = Len(stack)
  BY DEF BooksInv, TypeOK
<1>2. /\ stack # <<>> /\ n \in 1 .. n /\ DOMAIN stack = 1 .. n
      /\ Inner = stack[n] /\ Inner.at # "destroy" /\ Inner \in Frame /\ Inner.obj \in Obj
  BY <1>1, InnerFrame DEF MagicReturns, KilledAll, FreeBody
<1>3. stack' = Popped \/ stack' = Becomes(Empty(Inner.obj))
  BY DEF MagicReturns, KilledAll, FreeBody
<1>4. Empty(Inner.obj) \in Frame /\ Empty(Inner.obj).at = "empty"
  BY <1>2 DEF Empty, Frame
<1>5. \/ /\ DOMAIN stack' = 1 .. n - 1
         /\ \A i \in 1 .. n - 1 : stack'[i] = stack[i]
      \/ /\ DOMAIN stack' = 1 .. n /\ stack'[n].at = "empty"
         /\ \A i \in 1 .. n - 1 : stack'[i] = stack[i]
  <2>1. stack \in Seq(Frame)
    BY DEF BooksInv, TypeOK
  <2>2. CASE stack' = Popped
    <3>1. DOMAIN Popped = 1 .. n - 1 /\ \A i \in 1 .. n - 1 : Popped[i] = stack[i]
      BY <1>1, <1>2, <2>1, StackSteps
    <3>2. QED  BY <2>2, <3>1
  <2>3. CASE stack' = Becomes(Empty(Inner.obj))
    <3>1. PICK f \in Frame : f = Empty(Inner.obj) /\ f.at = "empty"
      BY <1>4
    <3>2. /\ DOMAIN Becomes(f) = 1 .. n /\ Becomes(f)[n] = f
          /\ \A i \in 1 .. n - 1 : Becomes(f)[i] = stack[i]
      BY <1>1, <1>2, <2>1, StackSteps
    <3>3. QED  BY <2>3, <3>1, <3>2
  <2>4. QED  BY <1>3, <2>2, <2>3
<1>6. \A i \in 1 .. n : i \in 1 .. n - 1 \/ i = n
  OBVIOUS
<1>7. \A i \in 1 .. n - 1 : i \in 1 .. n
  OBVIOUS
<1>8. \A o \in Obj : /\ o \in InDestructor' <=> \E i \in 1 .. n - 1 : stack[i].at = "destroy" /\ stack[i].obj = o
                     /\ o \in InDestructor <=> \E i \in 1 .. n - 1 : stack[i].at = "destroy" /\ stack[i].obj = o
  BY <1>2, <1>5, <1>6, <1>7 DEF InDestructor, Frames
<1>9. InDestructor' = InDestructor
  BY <1>8 DEF InDestructor
<1>10. value' = value
  BY DEF MagicReturns, KilledAll, FreeBody
<1>11. Disposed' = Disposed
  <2>1. CASE FreeBody
    <3>1. PICK o \in Obj : o = Inner.obj /\ phase[o] = "dying"
      BY <2>1, FreeBodyKeeps
    <3>2. phase' = [phase EXCEPT ![o] = "freed"]
      BY <2>1, <3>1 DEF FreeBody
    <3>3. QED  BY <3>1, <3>2 DEF BooksInv, TypeOK, Disposed
  <2>2. CASE phase' = phase
    BY <2>2 DEF Disposed
  <2>3. QED  BY <2>1, <2>2 DEF MagicReturns, KilledAll
<1>12. QED  BY <1>9, <1>10, <1>11 DEF Promise!vars

LEMMA NextPromised ==
    ASSUME BooksInv, ~ Intrudes, [Next]_vars
    PROVE  [Promise!Next]_(Promise!vars)
<1>0. BooksInv'
  BY NextBooks
<1>1. ASSUME NEW s \in Scalar, NEW o \in Obj, Assign(s, o)  PROVE Promise!Next
  <2>1. PICK v \in Values : v = Ref(o, FALSE)
    BY RefFacts DEF Values
  <2>2. /\ Mutates(s, v) /\ v # value[s] /\ v # Undef /\ v.to = o
        /\ phase[o] = "alive" \/ phase[o] = "unborn"
    BY <1>1, <2>1, AssignKeeps, RefFacts
  <2>3. o \notin Disposed
    BY <2>2 DEF Disposed
  <2>4. QED  BY <1>0, <1>1, <2>2, <2>3, MutationAssigns DEF Assign
<1>2. ASSUME NEW s \in Scalar, Clear(s)  PROVE Promise!Next
  <2>1. Mutates(s, Undef) /\ value[s] # Undef /\ Undef \in Values
    BY <1>2, ClearKeeps DEF Values
  <2>2. QED  BY <1>0, <1>2, <2>1, MutationAssigns DEF Clear
<1>3. ASSUME NEW s \in Scalar, NEW p \in Obj, NEW old \in BOOLEAN, NEW new \in BOOLEAN, old # new,
             Usable(s), phase[p] = "alive", value[s] = Ref(p, old), Mutates(s, Ref(p, new))
      PROVE  Promise!Next
  <2>1. PICK v \in Values : v = Ref(p, new)
    BY RefFacts DEF Values
  <2>2. v # value[s] /\ v.to = p /\ Mutates(s, v)
    BY <1>3, <2>1, RefFacts, RefInjective
  <2>3. p \notin Disposed
    BY <1>3 DEF Disposed
  <2>4. QED  BY <1>0, <1>3, <2>2, <2>3, MutationAssigns
<1>4. ASSUME NEW s \in Scalar, Weaken(s)  PROVE Promise!Next
  <2>1. Usable(s)
    BY <1>4 DEF Weaken
  <2>2. QED  BY <1>3, <1>4, <2>1, WeakenMutates
<1>5. ASSUME NEW s \in Scalar, Unweaken(s)  PROVE Promise!Next
  <2>1. Usable(s)
    BY <1>5 DEF Unweaken
  <2>2. QED  BY <1>3, <1>5, <2>1, UnweakenMutates
<1>6. CASE UNCHANGED vars
  BY <1>6 DEF vars, Promise!vars, InDestructor, Frames, Disposed
<1>7. QED
  BY <1>1, <1>2, <1>4, <1>5, <1>6, DestroyReturnsPromised, KillBackrefPromised,
     FreeElementPromised, InnerStutters DEF Next

\* What builtin.pm promises of weak references is what counts and lists
\* implement: an object is disposed of when no strong reference is left, not
\* sooner and not while its destructor runs; a weak reference is cleared when
\* its object is disposed of, and for no other reason; and no reference to such
\* an object is used or made after that.
THEOREM BooksImplementWeakMap == ASSUME ~ Intrudes  PROVE Spec => ImplementsWeakMap
<1>1. Init => Promise!Init
  BY DEF Init, Promise!Init, InDestructor, Frames, Disposed
<1>2. ASSUME BooksInv, [Next]_vars  PROVE [Promise!Next]_(Promise!vars)
  BY <1>2, NextPromised
<1>3. QED  BY <1>1, <1>2, BooksInvariance, PTL DEF Spec, ImplementsWeakMap, Promise!Spec
=============================================================================
