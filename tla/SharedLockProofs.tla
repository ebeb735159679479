--------------------------- MODULE SharedLockProofs ---------------------------
(***************************************************************************)
(* IndInv is an invariant of the locks of threads::shared, for any threads,*)
(* variables, pairs and bounds; with it the properties of one state, the   *)
(* signals that are never lost and the refinement of the monitor.          *)
(***************************************************************************)
EXTENDS SharedLockInvariant, FiniteSetTheorems, TLAPS

\* The fields of at[t] by the place t is at.
LEMMA Shape ==
    ASSUME TypeOK, NEW t \in Thread
    PROVE  /\ at[t].pc \in {"run", "acquire", "enter", "entering", "waiting", "leave", "leaving"}
           /\ at[t].pc = "run" => at[t] = Running
           /\ at[t].pc = "acquire" => at[t] \in Acquiring /\ at[t].lock \in Var
           /\ InWait(t) => /\ at[t] \in Waiting
                           /\ at[t].cond \in Var
                           /\ at[t].lock \in Var
                           /\ at[t].depth \in Nat
                           /\ at[t].multi \in BOOLEAN
                           /\ at[t].seen \in Int
<1>1. at[t] \in {Running} \cup Acquiring \cup Waiting
  BY DEF TypeOK
<1>2. CASE at[t] = Running
  BY <1>2 DEF Running, InWait
<1>3. CASE at[t] \in Acquiring
  BY <1>3 DEF Acquiring, InWait
<1>4. CASE at[t] \in Waiting
  BY <1>4 DEF Waiting, InWait
<1>5. QED  BY <1>1, <1>2, <1>3, <1>4

\* A variable locked once more is in one more place of the scopes.
LEMMA PlacesAppend ==
    ASSUME NEW s \in Seq(Var), NEW v \in Var, NEW w \in Var, IsFiniteSet(Places(s, w))
    PROVE  /\ IsFiniteSet(Places(Append(s, v), w))
           /\ Cardinality(Places(Append(s, v), w)) =
                Cardinality(Places(s, w)) + (IF v = w THEN 1 ELSE 0)
<1>1. Places(Append(s, v), w) = IF v = w THEN Places(s, w) \cup {Len(s) + 1} ELSE Places(s, w)
  BY DEF Places
<1>2. Len(s) + 1 \notin Places(s, w)
  BY DEF Places
<1>3. QED  BY <1>1, <1>2, FS_AddElement, FS_CardinalityType

\* The innermost scope, when it ends, takes its variable out of one place.
LEMMA PlacesFront ==
    ASSUME NEW s \in Seq(Var), s # <<>>, NEW w \in Var, IsFiniteSet(Places(s, w))
    PROVE  LET r == SubSeq(s, 1, Len(s) - 1)
               v == s[Len(s)]
           IN  /\ r \in Seq(Var) /\ v \in Var
               /\ IsFiniteSet(Places(r, w))
               /\ Cardinality(Places(r, w)) =
                    Cardinality(Places(s, w)) - (IF v = w THEN 1 ELSE 0)
               /\ v = w => Cardinality(Places(s, w)) > 0
<1> DEFINE r == SubSeq(s, 1, Len(s) - 1)
           v == s[Len(s)]
<1>1. Len(s) \in Nat /\ Len(s) > 0 /\ v \in Var /\ r \in Seq(Var)
  BY DEF Places
<1>2. DOMAIN r = 1 .. Len(s) - 1 /\ \A i \in 1 .. Len(s) - 1 : r[i] = s[i]
  BY <1>1
<1>3. Places(r, w) = IF v = w THEN Places(s, w) \ {Len(s)} ELSE Places(s, w)
  BY <1>1, <1>2 DEF Places
<1>4. v = w => Len(s) \in Places(s, w)
  BY <1>1 DEF Places
<1>5. v = w => Cardinality(Places(s, w)) > 0
  BY <1>4, FS_EmptySet, FS_CardinalityType
<1>6. CASE v = w
  <2>1. Places(r, w) = Places(s, w) \ {Len(s)} /\ Len(s) \in Places(s, w)
    BY <1>3, <1>4, <1>6
  <2> HIDE DEF r, v
  <2>2. /\ IsFiniteSet(Places(r, w))
        /\ Cardinality(Places(r, w)) = Cardinality(Places(s, w)) - 1
    BY <2>1, FS_RemoveElement
  <2>3. QED  BY <1>1, <1>5, <1>6, <2>2 DEF r, v
<1>7. CASE v # w
  <2>1. Places(r, w) = Places(s, w) /\ Cardinality(Places(s, w)) \in Nat
    BY <1>3, <1>7, FS_CardinalityType
  <2>2. QED  BY <1>1, <1>7, <2>1
<1>8. QED  BY <1>6, <1>7

\* What a step that leaves the waits and their books alone does not disturb.
LEMMA SameWaits ==
    ASSUME IndInv, UNCHANGED <<waiters, curLock>>,
           \A u \in Thread : InWait(u)' <=> InWait(u),
           \A u \in Thread : InWait(u) => at'[u] = at[u]
    PROVE  WaitsOK' /\ UpdatesOK' /\ WaitersCounted'
<1>1. \A c \in Var : Inside(c)' = Inside(c)
  BY DEF Inside
<1>2. UpdatesOK'
  BY <1>1 DEF IndInv, UpdatesOK
<1>3. WaitersCounted'
  BY <1>1 DEF IndInv, WaitersCounted
<1>4. WaitsOK'
  BY DEF IndInv, WaitsOK
<1>5. QED  BY <1>2, <1>3, <1>4

\* The books of the locks after a step that leaves locks, scopes and the waits
\* alone.
LEMMA SameBooks ==
    ASSUME IndInv, UNCHANGED <<lock, scopes>>,
           \A u \in Thread : InWait(u)' <=> InWait(u),
           \A u \in Thread : InWait(u) =>
                at'[u].lock = at[u].lock /\ at'[u].depth = at[u].depth
    PROVE  LocksMatchScopes'
<1>1. \A u \in Thread, w \in Var :
        /\ Taken(u, w)' = Taken(u, w)
        /\ Parks(u, w)' = Parks(u, w)
        /\ Depth(u, w)' = Depth(u, w)
        /\ Parks(u, w) => at'[u].depth = at[u].depth
  BY DEF Taken, Places, Parks, Depth
<1>2. QED  BY <1>1 DEF IndInv, LocksMatchScopes

\* A step of a thread that keeps no mutex leaves those who do alone.
LEMMA SameMutexes ==
    ASSUME IndInv, UNCHANGED mutex, NEW t \in Thread,
           \A u \in Thread \ {t} : at'[u] = at[u],
           at[t].pc \in {"run", "acquire", "waiting"},
           at'[t].pc \in {"run", "acquire", "waiting"},
           \A w \in Var : mutex[w] # Nobody => lock'[w].owner = lock[w].owner
    PROVE  MutexesKept'
<1>1. \A u \in Thread, w \in Var : Keeps(u, w)' = Keeps(u, w)
  BY DEF Keeps
<1>2. \A u \in Thread, w \in Var : mutex'[w] = u <=> Keeps(u, w)'
  BY <1>1 DEF IndInv, MutexesKept
<1>3. ASSUME NEW u \in Thread, at'[u].pc \in {"enter", "entering", "leave", "leaving"}
      PROVE  lock'[at'[u].lock].owner = Nobody
  <2>1. u # t /\ at'[u] = at[u]
    BY <1>3
  <2>2. at[u].lock \in Var
    BY <1>3, <2>1, Shape DEF IndInv, InWait
  <2>3. mutex[at[u].lock] = u /\ lock[at[u].lock].owner = Nobody
    BY <1>3, <2>1, <2>2 DEF IndInv, MutexesKept, Keeps
  <2>4. QED  BY <2>1, <2>2, <2>3, SharedAssumption
<1>4. QED  BY <1>2, <1>3 DEF MutexesKept

\* A thread takes a lock that is its own or free: lock() at once, or after a
\* wake-up.
LEMMA OwnedStep ==
    ASSUME IndInv, NEW t \in Thread, NEW v \in Var, Owned(t, v),
           at[t].pc \in {"run", "acquire"},
           at[t].pc = "acquire" => at[t].lock = v /\ t \notin contenders[v],
           mutex[v] = Nobody,
           UNCHANGED <<mutex, sleepers, waiters, curLock>>
    PROVE  IndInv'
<1>1. /\ lock' = [lock EXCEPT ![v] = [owner |-> t, locks |-> lock[v].locks + 1]]
      /\ scopes' = [scopes EXCEPT ![t] = Append(scopes[t], v)]
      /\ at' = [at EXCEPT ![t] = Running]
      /\ UNCHANGED contenders
      /\ lock[v].owner \in {t, Nobody}
  BY DEF Owned
<1>2. TypeOK
  BY DEF IndInv
<1>3. /\ at'[t] = Running /\ at'[t].pc = "run" /\ ~ InWait(t) /\ ~ InWait(t)'
      /\ \A u \in Thread \ {t} : at'[u] = at[u]
      /\ lock'[v] = [owner |-> t, locks |-> lock[v].locks + 1]
      /\ \A w \in Var \ {v} : lock'[w] = lock[w]
      /\ lock[v].locks \in Nat
      /\ scopes[t] \in Seq(Var) /\ scopes'[t] = Append(scopes[t], v)
      /\ \A u \in Thread \ {t} : scopes'[u] = scopes[u]
  BY <1>1, <1>2 DEF TypeOK, Running, InWait
<1>4. TypeOK'
  <2>1. lock' \in [Var -> [owner : Thread \cup {Nobody}, locks : Nat]]
    BY <1>1, <1>2, <1>3 DEF TypeOK
  <2>2. scopes' \in [Thread -> Seq(Var)] /\ at' \in [Thread -> {Running} \cup Acquiring \cup Waiting]
    BY <1>1, <1>2, <1>3 DEF TypeOK
  <2>3. QED  BY <1>1, <1>2, <2>1, <2>2 DEF TypeOK
<1>5. WaitsOK' /\ UpdatesOK' /\ WaitersCounted'
  <2>1. \A u \in Thread : (InWait(u)' <=> InWait(u)) /\ (InWait(u) => at'[u] = at[u])
    BY <1>3 DEF InWait
  <2>2. QED  BY <2>1, SameWaits
<1>6. MutexesKept'
  <2>1. \A w \in Var : mutex[w] # Nobody => lock'[w].owner = lock[w].owner
    BY <1>3
  <2>2. QED  BY <1>3, <2>1, SameMutexes
<1>7. LocksMatchScopes'
  <2>1. \A w \in Var : lock'[w].owner = Nobody <=> lock'[w].locks = 0
    <3>1. lock'[v].owner # Nobody /\ lock'[v].locks # 0
      BY <1>3, SharedAssumption
    <3>2. QED  BY <1>3, <3>1 DEF IndInv, LocksMatchScopes
  <2>2. ASSUME NEW u \in Thread, NEW w \in Var
        PROVE  /\ IsFiniteSet(Taken(u, w))'
               /\ Cardinality(Taken(u, w))' = Depth(u, w)'
               /\ Parks(u, w)' => lock'[w].owner # u /\ at'[u].depth > 0
    <3>1. /\ IsFiniteSet(Taken(u, w)) /\ Cardinality(Taken(u, w)) = Depth(u, w)
          /\ Parks(u, w) => lock[w].owner # u /\ at[u].depth > 0
          /\ lock[w].owner = Nobody => lock[w].locks = 0
      BY DEF IndInv, LocksMatchScopes
    <3>2. CASE u = t
      <4>1. ~ Parks(u, w) /\ ~ Parks(u, w)'
        BY <1>3, <3>2 DEF Parks
      <4>2. /\ IsFiniteSet(Taken(u, w))'
            /\ Cardinality(Taken(u, w))' =
                  Cardinality(Taken(u, w)) + (IF v = w THEN 1 ELSE 0)
        <5>1. scopes[t] \in Seq(Var) /\ scopes'[t] = Append(scopes[t], v)
          BY <1>2, <1>3 DEF TypeOK
        <5>2. IsFiniteSet(Places(scopes[t], w))
          BY <3>1, <3>2 DEF Taken
        <5>3. /\ IsFiniteSet(Places(Append(scopes[t], v), w))
              /\ Cardinality(Places(Append(scopes[t], v), w)) =
                    Cardinality(Places(scopes[t], w)) + (IF v = w THEN 1 ELSE 0)
          BY <5>1, <5>2, PlacesAppend
        <5>4. Taken(u, w)' = Places(Append(scopes[t], v), w) /\ Taken(u, w) = Places(scopes[t], w)
          BY <3>2, <5>1 DEF Taken
        <5>5. QED  BY <5>3, <5>4
      <4>3. Depth(u, w)' = Depth(u, w) + (IF v = w THEN 1 ELSE 0)
        BY <1>1, <1>2, <1>3, <3>1, <3>2, <4>1, SharedAssumption DEF Depth, TypeOK
      <4>4. QED  BY <3>1, <4>1, <4>2, <4>3
    <3>3. CASE u # t
      <4>1. Taken(u, w)' = Taken(u, w) /\ at'[u] = at[u] /\ Parks(u, w)' = Parks(u, w)
        BY <1>3, <3>3 DEF Taken, Parks, InWait
      <4>2. Depth(u, w)' = Depth(u, w)
        BY <1>1, <1>3, <3>3, <4>1, SharedAssumption DEF Depth
      <4>3. lock[w].owner # u => lock'[w].owner # u
        BY <1>3, <3>3
      <4>4. Parks(u, w)' => lock'[w].owner # u /\ at'[u].depth > 0
        BY ONLY <3>1, <4>1, <4>3
      <4>5. QED  BY ONLY <3>1, <4>1, <4>2, <4>4
    <3>4. QED  BY <3>2, <3>3
  <2>3. QED  BY <2>1, <2>2 DEF LocksMatchScopes
<1>8. SleepsOK'
  BY <1>1, <1>3 DEF IndInv, SleepsOK, InWait
<1>9. LockHandedOn'
  <2> SUFFICES ASSUME NEW w \in Var, lock'[w].owner = Nobody, contenders'[w] # {}
               PROVE  \E u \in Thread \ contenders'[w] : OnItsWay(u, w)'
    BY DEF LockHandedOn
  <2>1. w # v /\ lock[w].owner = Nobody
    BY <1>3, SharedAssumption
  <2>2. PICK u \in Thread \ contenders[w] : OnItsWay(u, w)
    BY <1>1, <2>1 DEF IndInv, LockHandedOn
  <2>3. u # t
    BY <2>1, <2>2 DEF OnItsWay
  <2>4. QED  BY <1>1, <1>3, <2>2, <2>3 DEF OnItsWay
<1>10. QED  BY <1>4, <1>5, <1>6, <1>7, <1>8, <1>9 DEF IndInv

\* A thread goes to sleep on a lock that is another's.
LEMMA ContendStep ==
    ASSUME IndInv, NEW t \in Thread, NEW v \in Var, Contend(t, v),
           at[t].pc \in {"run", "acquire"},
           at[t].pc = "acquire" => at[t].lock = v,
           mutex[v] = Nobody,
           UNCHANGED <<mutex, sleepers, waiters, curLock>>
    PROVE  IndInv'
<1>1. /\ contenders' = [contenders EXCEPT ![v] = contenders[v] \cup {t}]
      /\ at' = [at EXCEPT ![t] = [pc |-> "acquire", lock |-> v]]
      /\ UNCHANGED <<lock, scopes>>
      /\ lock[v].owner # Nobody
  BY DEF Contend
<1>2. TypeOK
  BY DEF IndInv
<1>3. /\ at'[t] = [pc |-> "acquire", lock |-> v] /\ ~ InWait(t) /\ ~ InWait(t)'
      /\ \A u \in Thread \ {t} : at'[u] = at[u]
      /\ contenders'[v] = contenders[v] \cup {t}
      /\ \A w \in Var \ {v} : contenders'[w] = contenders[w]
  BY <1>1, <1>2 DEF TypeOK, InWait
<1>4. TypeOK'
  <2>1. at' \in [Thread -> {Running} \cup Acquiring \cup Waiting]
    BY <1>1, <1>2, <1>3 DEF TypeOK, Acquiring
  <2>2. contenders' \in [Var -> SUBSET Thread]
    BY <1>1, <1>2 DEF TypeOK
  <2>3. QED  BY <1>1, <1>2, <2>1, <2>2 DEF TypeOK
<1>5. \A u \in Thread : (InWait(u)' <=> InWait(u)) /\ (InWait(u) => at'[u] = at[u])
  BY <1>3 DEF InWait
<1>6. WaitsOK' /\ UpdatesOK' /\ WaitersCounted'
  BY <1>5, SameWaits
<1>7. MutexesKept'
  BY <1>1, <1>3, SameMutexes
<1>8. LocksMatchScopes'
  BY <1>1, <1>5, SameBooks
<1>9. SleepsOK'
  BY <1>1, <1>3 DEF IndInv, SleepsOK, InWait
<1>10. LockHandedOn'
  <2> SUFFICES ASSUME NEW w \in Var, lock'[w].owner = Nobody, contenders'[w] # {}
               PROVE  \E u \in Thread \ contenders'[w] : OnItsWay(u, w)'
    BY DEF LockHandedOn
  <2>1. w # v /\ lock[w].owner = Nobody /\ contenders'[w] = contenders[w]
    BY <1>1, <1>3
  <2>2. PICK u \in Thread \ contenders[w] : OnItsWay(u, w)
    BY <2>1 DEF IndInv, LockHandedOn
  <2>3. u # t
    BY <2>1, <2>2 DEF OnItsWay
  <2>4. QED  BY <1>1, <1>3, <2>1, <2>2, <2>3 DEF OnItsWay
<1>11. QED  BY <1>4, <1>6, <1>7, <1>8, <1>9, <1>10 DEF IndInv

\* The last release wakes one of those who wait, if anybody does.
LEMMA HandedOn ==
    ASSUME TypeOK, NEW v \in Var, HandOn(v)
    PROVE  /\ contenders' \in [Var -> SUBSET Thread]
           /\ \A w \in Var \ {v} : contenders'[w] = contenders[w]
           /\ contenders'[v] \subseteq contenders[v]
           /\ contenders'[v] # {} => \E u \in contenders[v] : u \notin contenders'[v]
<1>1. PICK S \in OneOf(contenders[v]) : contenders' = [contenders EXCEPT ![v] = contenders[v] \ S]
  BY DEF HandOn
<1>2. contenders'[v] = contenders[v] \ S /\ \A w \in Var \ {v} : contenders'[w] = contenders[w]
  BY <1>1 DEF TypeOK
<1>3. contenders[v] # {} => \E u \in contenders[v] : u \in S
  BY DEF OneOf
<1>4. QED  BY <1>1, <1>2, <1>3 DEF TypeOK

\* After a hand-over of a free lock somebody is on the way to it.
LEMMA HandedOnWay ==
    ASSUME IndInv, NEW v \in Var, HandOn(v), UNCHANGED sleepers, NEW t \in Thread,
           \A u \in Thread \ {t} : at'[u] = at[u],
           at[t].pc = "run",
           \A w \in Var \ {v} : lock'[w] = lock[w]
    PROVE  LockHandedOn' /\ SleepsOK'
<1>1. \A w \in Var : t \notin contenders[w] /\ t \notin sleepers[w]
  BY DEF IndInv, SleepsOK
<1>2. /\ \A w \in Var \ {v} : contenders'[w] = contenders[w]
      /\ contenders'[v] \subseteq contenders[v]
      /\ contenders'[v] # {} => \E u \in contenders[v] : u \notin contenders'[v]
  BY HandedOn DEF IndInv
<1>3. ASSUME NEW w \in Var, lock'[w].owner = Nobody, contenders'[w] # {}
      PROVE  \E u \in Thread \ contenders'[w] : OnItsWay(u, w)'
  <2>1. CASE w = v
    <3>1. PICK u \in contenders[v] : u \notin contenders'[v]
      BY <1>2, <1>3, <2>1
    <3>2. u \in Thread /\ u # t /\ OnItsWay(u, v)
      BY <1>1, <3>1 DEF IndInv, SleepsOK, OnItsWay, TypeOK
    <3>3. QED  BY <2>1, <3>1, <3>2 DEF OnItsWay
  <2>2. CASE w # v
    <3>1. PICK u \in Thread \ contenders[w] : OnItsWay(u, w)
      BY <1>2, <1>3, <2>2 DEF IndInv, LockHandedOn
    <3>2. u # t
      BY <3>1 DEF OnItsWay
    <3>3. QED  BY <1>2, <2>2, <3>1, <3>2 DEF OnItsWay
  <2>3. QED  BY <2>1, <2>2
<1>4. SleepsOK'
  <2> SUFFICES ASSUME NEW u \in Thread, NEW w \in Var
               PROVE  /\ u \in sleepers[w] => at'[u].pc = "waiting" /\ at'[u].cond = w
                      /\ u \in contenders'[w] =>
                            /\ at'[u].pc \in {"acquire", "waiting"}
                            /\ at'[u].lock = w
                            /\ at'[u].pc = "waiting" => u \notin sleepers[at'[u].cond]
    BY DEF SleepsOK
  <2>1. u \in contenders'[w] => u \in contenders[w]
    BY <1>2
  <2>2. QED  BY <1>1, <2>1 DEF IndInv, SleepsOK
<1>5. QED  BY <1>3, <1>4 DEF LockHandedOn

\* The end of the innermost scope.
LEMMA ReleaseStep ==
    ASSUME IndInv, NEW t \in Thread, Release(t)
    PROVE  IndInv'
<1> DEFINE v == scopes[t][Len(scopes[t])]
<1>1. /\ at[t].pc = "run" /\ scopes[t] # <<>> /\ mutex[v] = Nobody
      /\ scopes' = [scopes EXCEPT ![t] = SubSeq(scopes[t], 1, Len(scopes[t]) - 1)]
      /\ IF lock[v].owner # t THEN UNCHANGED <<lock, contenders>>
         ELSE IF lock[v].locks > 1
         THEN /\ lock' = [lock EXCEPT ![v].locks = lock[v].locks - 1]
              /\ UNCHANGED contenders
         ELSE /\ lock' = [lock EXCEPT ![v] = Unlocked]
              /\ HandOn(v)
      /\ UNCHANGED <<mutex, sleepers, waiters, curLock, at>>
  BY DEF Release
<1>2. TypeOK
  BY DEF IndInv
<1>3. /\ scopes[t] \in Seq(Var) /\ v \in Var
      /\ scopes'[t] = SubSeq(scopes[t], 1, Len(scopes[t]) - 1)
      /\ scopes'[t] \in Seq(Var)
      /\ \A u \in Thread \ {t} : scopes'[u] = scopes[u]
      /\ \A w \in Var : IsFiniteSet(Taken(t, w)) =>
            /\ IsFiniteSet(Taken(t, w))'
            /\ Cardinality(Taken(t, w))' = Cardinality(Taken(t, w)) - (IF v = w THEN 1 ELSE 0)
            /\ v = w => Cardinality(Taken(t, w)) > 0
  BY <1>1, <1>2, PlacesFront DEF Taken, TypeOK
<1>4. /\ lock[v].owner = t /\ lock[v].locks \in Nat /\ lock[v].locks > 0
      /\ lock[v] = [owner |-> t, locks |-> lock[v].locks]
  <2>1. ~ Parks(t, v)
    BY <1>1 DEF Parks, InWait
  <2>2. Depth(t, v) > 0
    BY <1>3 DEF IndInv, LocksMatchScopes
  <2>3. lock[v] \in [owner : Thread \cup {Nobody}, locks : Nat]
    BY <1>2, <1>3 DEF TypeOK
  <2>4. QED  BY <2>1, <2>2, <2>3 DEF Depth
<1>5. /\ lock'[v] = IF lock[v].locks > 1 THEN [owner |-> t, locks |-> lock[v].locks - 1]
                    ELSE Unlocked
      /\ \A w \in Var \ {v} : lock'[w] = lock[w]
      /\ lock' \in [Var -> [owner : Thread \cup {Nobody}, locks : Nat]]
  <2>1. CASE lock[v].locks > 1
    <3>1. lock' = [lock EXCEPT ![v].locks = lock[v].locks - 1]
      BY <1>1, <1>4, <2>1
    <3>2. lock'[v] = [owner |-> t, locks |-> lock[v].locks - 1]
      BY <1>2, <1>3, <1>4, <3>1 DEF TypeOK
    <3>3. \A w \in Var \ {v} : lock'[w] = lock[w]
      BY <1>2, <3>1 DEF TypeOK
    <3>4. lock' = [lock EXCEPT ![v] = lock'[v]]
      BY <1>2, <3>1, <3>2 DEF TypeOK
    <3>5. lock'[v] \in [owner : Thread \cup {Nobody}, locks : Nat]
      BY <1>4, <2>1, <3>2
    <3>6. lock' \in [Var -> [owner : Thread \cup {Nobody}, locks : Nat]]
      BY <1>2, <3>4, <3>5 DEF TypeOK
    <3>7. QED  BY <2>1, <3>2, <3>3, <3>6
  <2>2. CASE ~ (lock[v].locks > 1)
    <3>1. lock' = [lock EXCEPT ![v] = Unlocked]
      BY <1>1, <1>4, <2>2
    <3>2. Unlocked \in [owner : Thread \cup {Nobody}, locks : Nat]
      BY DEF Unlocked
    <3>3. QED  BY <1>2, <1>3, <2>2, <3>1, <3>2 DEF TypeOK
  <2>3. QED  BY <2>1, <2>2
<1>6. contenders' \in [Var -> SUBSET Thread]
  BY <1>1, <1>2, <1>3, HandedOn DEF TypeOK
<1>7. TypeOK'
  <2>1. scopes' \in [Thread -> Seq(Var)]
    BY <1>1, <1>2, <1>3 DEF TypeOK
  <2>2. QED  BY <1>1, <1>2, <1>5, <1>6, <2>1 DEF TypeOK
<1>8. \A u \in Thread : (InWait(u)' <=> InWait(u)) /\ at'[u] = at[u]
  BY <1>1 DEF InWait
<1>9. WaitsOK' /\ UpdatesOK' /\ WaitersCounted'
  BY <1>1, <1>8, SameWaits
<1>10. MutexesKept'
  BY <1>1, <1>5, <1>8, SameMutexes
<1>11. LocksMatchScopes'
  <2>1. ASSUME NEW w \in Var  PROVE lock'[w].owner = Nobody <=> lock'[w].locks = 0
    <3>1. lock[w].owner = Nobody <=> lock[w].locks = 0
      BY DEF IndInv, LocksMatchScopes
    <3>2. QED  BY <1>4, <1>5, <3>1, SharedAssumption DEF Unlocked
  <2>2. ASSUME NEW u \in Thread, NEW w \in Var
        PROVE  /\ IsFiniteSet(Taken(u, w))'
               /\ Cardinality(Taken(u, w))' = Depth(u, w)'
               /\ Parks(u, w)' => lock'[w].owner # u /\ at'[u].depth > 0
    <3>1. /\ IsFiniteSet(Taken(u, w)) /\ Cardinality(Taken(u, w)) = Depth(u, w)
          /\ Parks(u, w) => lock[w].owner # u /\ at[u].depth > 0
      BY DEF IndInv, LocksMatchScopes
    <3>2. Parks(u, w)' = Parks(u, w) /\ at'[u] = at[u]
      BY <1>8 DEF Parks
    <3>3. CASE u = t
      <4>1. ~ Parks(u, w)
        BY <1>1, <3>3 DEF Parks, InWait
      <4>2. Depth(u, w)' = Depth(u, w) - (IF v = w THEN 1 ELSE 0)
        BY <1>4, <1>5, <3>2, <3>3, <4>1, SharedAssumption DEF Depth, Unlocked
      <4>3. QED  BY <1>3, <3>1, <3>2, <3>3, <4>1, <4>2
    <3>4. CASE u # t
      <4>1. Taken(u, w)' = Taken(u, w)
        BY <1>3, <3>4 DEF Taken
      <4>2. (lock'[w].owner = u <=> lock[w].owner = u) /\ (lock[w].owner = u => lock'[w] = lock[w])
        BY <1>4, <1>5, <3>4, SharedAssumption DEF Unlocked
      <4>3. Depth(u, w)' = Depth(u, w)
        BY <3>2, <4>2 DEF Depth
      <4>4. QED  BY <3>1, <3>2, <4>1, <4>2, <4>3
    <3>5. QED  BY <3>3, <3>4
  <2>3. QED  BY <2>1, <2>2 DEF LocksMatchScopes
<1>12. SleepsOK' /\ LockHandedOn'
  <2>1. CASE lock[v].locks > 1
    <3>1. UNCHANGED <<contenders, sleepers, at>> /\ lock'[v].owner # Nobody
      BY <1>1, <1>4, <1>5, <2>1, SharedAssumption
    <3>2. SleepsOK'
      BY <3>1 DEF IndInv, SleepsOK
    <3>3. LockHandedOn'
      BY <1>5, <3>1 DEF IndInv, LockHandedOn, OnItsWay
    <3>4. QED  BY <3>2, <3>3
  <2>2. CASE ~ (lock[v].locks > 1)
    <3>1. HandOn(v)
      BY <1>1, <1>4, <2>2
    <3>2. QED  BY <1>1, <1>3, <1>5, <1>8, <3>1, HandedOnWay
  <2>3. QED  BY <2>1, <2>2
<1>13. QED  BY <1>7, <1>9, <1>10, <1>11, <1>12 DEF IndInv

\* cond_wait gives up the lock and keeps its mutex.
LEMMA CondWaitStep ==
    ASSUME IndInv, NEW t \in Thread, NEW c \in Var, NEW v \in Var,
           <<c, v>> \in Pairs, CondWait(t, c, v)
    PROVE  IndInv'
<1> DEFINE multi == OtherLock(c, v)
           wait == [pc |-> IF multi THEN "enter" ELSE "entering",
                    cond |-> c, lock |-> v, depth |-> lock[v].locks,
                    multi |-> multi, seen |-> waiters[c]]
<1>1. /\ at[t].pc = "run" /\ lock[v].owner = t /\ mutex[v] = Nobody
      /\ mutex' = [mutex EXCEPT ![v] = t]
      /\ lock' = [lock EXCEPT ![v] = Unlocked]
      /\ HandOn(v)
      /\ at' = [at EXCEPT ![t] = wait]
      /\ UNCHANGED <<sleepers, waiters, curLock, scopes>>
  BY DEF CondWait, KeepMutex
<1>2. TypeOK
  BY DEF IndInv
<1>3. /\ multi \in BOOLEAN /\ lock[v].locks \in Nat /\ lock[v].locks > 0 /\ waiters[c] \in Int
      /\ lock[v] = [owner |-> t, locks |-> lock[v].locks]
  <2>1. lock[v] \in [owner : Thread \cup {Nobody}, locks : Nat] /\ waiters[c] \in Int
    BY <1>2 DEF TypeOK
  <2>2. lock[v].locks # 0
    BY <1>1, SharedAssumption DEF IndInv, LocksMatchScopes
  <2>3. QED  BY <1>1, <2>1, <2>2 DEF OtherLock
<1> HIDE DEF multi
<1>4. wait \in Waiting
  BY <1>3 DEF Waiting
<1>5. /\ at'[t] = wait
      /\ \A u \in Thread \ {t} : at'[u] = at[u]
      /\ lock'[v] = Unlocked
      /\ \A w \in Var \ {v} : lock'[w] = lock[w]
      /\ mutex'[v] = t
      /\ \A w \in Var \ {v} : mutex'[w] = mutex[w]
  BY <1>1, <1>2 DEF TypeOK
<1>6. at'[t].pc \in {"enter", "entering"} /\ InWait(t)' /\ ~ InWait(t)
  BY <1>1, <1>5 DEF InWait
<1>7. TypeOK'
  <2>1. at' \in [Thread -> {Running} \cup Acquiring \cup Waiting]
    BY <1>1, <1>2, <1>4 DEF TypeOK
  <2>2. /\ lock' \in [Var -> [owner : Thread \cup {Nobody}, locks : Nat]]
        /\ mutex' \in [Var -> Thread \cup {Nobody}]
    BY <1>1, <1>2 DEF TypeOK, Unlocked
  <2>3. contenders' \in [Var -> SUBSET Thread]
    BY <1>1, <1>2, HandedOn
  <2>4. QED  BY <1>1, <1>2, <2>1, <2>2, <2>3 DEF TypeOK
<1>8. WaitsOK'
  BY <1>5 DEF IndInv, WaitsOK, InWait
<1>9. MutexesKept'
  <2>1. ASSUME NEW u \in Thread, NEW w \in Var  PROVE mutex'[w] = u <=> Keeps(u, w)'
    <3>1. mutex[w] = u <=> Keeps(u, w)
      BY DEF IndInv, MutexesKept
    <3>2. CASE u = t
      <4>1. Keeps(u, w)' <=> w = v
        BY <1>5, <3>2 DEF Keeps
      <4>2. ~ Keeps(u, w)
        BY <1>1, <3>2 DEF Keeps
      <4>3. QED  BY <1>5, <3>1, <3>2, <4>1, <4>2
    <3>3. CASE u # t
      <4>1. Keeps(u, w)' <=> Keeps(u, w)
        BY <1>5, <3>3 DEF Keeps
      <4>2. QED  BY <1>1, <1>5, <3>1, <3>3, <4>1, SharedAssumption
    <3>4. QED  BY <3>2, <3>3
  <2>2. ASSUME NEW u \in Thread, at'[u].pc \in {"enter", "entering", "leave", "leaving"}
        PROVE  lock'[at'[u].lock].owner = Nobody
    <3>1. CASE u = t
      BY <1>5, <3>1 DEF Unlocked
    <3>2. CASE u # t
      <4>1. at[u].lock \in Var /\ lock[at[u].lock].owner = Nobody
        BY <1>2, <1>5, <2>2, <3>2, Shape DEF IndInv, MutexesKept, InWait
      <4>2. QED  BY <1>5, <3>2, <4>1 DEF Unlocked
    <3>3. QED  BY <3>1, <3>2
  <2>3. QED  BY <2>1, <2>2 DEF MutexesKept
<1>10. LocksMatchScopes'
  <2>1. ASSUME NEW w \in Var  PROVE lock'[w].owner = Nobody <=> lock'[w].locks = 0
    BY <1>5 DEF IndInv, LocksMatchScopes, Unlocked
  <2>2. ASSUME NEW u \in Thread, NEW w \in Var
        PROVE  /\ IsFiniteSet(Taken(u, w))'
               /\ Cardinality(Taken(u, w))' = Depth(u, w)'
               /\ Parks(u, w)' => lock'[w].owner # u /\ at'[u].depth > 0
    <3>1. /\ IsFiniteSet(Taken(u, w)) /\ Cardinality(Taken(u, w)) = Depth(u, w)
          /\ Parks(u, w) => lock[w].owner # u /\ at[u].depth > 0
      BY DEF IndInv, LocksMatchScopes
    <3>2. Taken(u, w)' = Taken(u, w)
      BY <1>1 DEF Taken
    <3>3. CASE u = t
      <4>1. ~ Parks(u, w) /\ (Parks(u, w)' <=> w = v)
        BY <1>5, <1>6, <3>3 DEF Parks
      <4>2. at'[u].depth = lock[v].locks
        BY <1>5, <3>3
      <4>3. Depth(u, w)' = Depth(u, w)
        BY <1>1, <1>5, <3>3, <4>1, <4>2 DEF Depth
      <4>4. QED  BY <1>3, <1>5, <3>1, <3>2, <3>3, <4>1, <4>2, <4>3, SharedAssumption DEF Unlocked
    <3>4. CASE u # t
      <4>1. (Parks(u, w)' <=> Parks(u, w)) /\ at'[u] = at[u]
        BY <1>5, <3>4 DEF Parks, InWait
      <4>2. (lock'[w].owner = u <=> lock[w].owner = u) /\ (lock[w].owner = u => lock'[w] = lock[w])
        BY <1>1, <1>5, <3>4, SharedAssumption DEF Unlocked
      <4>3. Depth(u, w)' = Depth(u, w)
        BY <4>1, <4>2 DEF Depth
      <4>4. QED  BY <3>1, <3>2, <4>1, <4>2, <4>3
    <3>5. QED  BY <3>3, <3>4
  <2>3. QED  BY <2>1, <2>2 DEF LocksMatchScopes
<1>11. SleepsOK' /\ LockHandedOn'
  BY <1>1, <1>5, HandedOnWay
<1>12. \A d \in Var : Inside(d)' = Inside(d)
  BY <1>5, <1>6 DEF Inside, InWait
<1>13. WaitersCounted'
  BY <1>1, <1>12 DEF IndInv, WaitersCounted
<1>14. UpdatesOK'
  <2> SUFFICES ASSUME NEW d \in Var, NEW w \in Var, OnlyWith(d, w)
               PROVE  /\ IsFiniteSet(Inside(d))
                      /\ \A u \in Thread : InWait(u)' /\ at'[u].cond = d =>
                            /\ ~ at'[u].multi
                            /\ at'[u].pc \in {"entering", "leaving"} => at'[u].seen = waiters[d]
    BY <1>1, <1>12 DEF UpdatesOK
  <2>1. /\ IsFiniteSet(Inside(d))
        /\ \A u \in Thread \ {t} : InWait(u)' /\ at'[u].cond = d =>
                            /\ ~ at'[u].multi
                            /\ at'[u].pc \in {"entering", "leaving"} => at'[u].seen = waiters[d]
    BY <1>5 DEF IndInv, UpdatesOK, InWait
  <2>2. at'[t].seen = waiters[c] /\ at'[t].cond = c /\ at'[t].multi = multi
    BY <1>5
  <2>3. ASSUME d = c  PROVE ~ multi
    <3>1. w = v
      BY <2>3 DEF OnlyWith
    <3>2. waiters[c] = Cardinality(Inside(c)) /\ curLock[c] = IF Inside(c) = {} THEN Nobody ELSE v
      BY <2>3, <3>1 DEF IndInv, WaitersCounted
    <3>3. waiters[c] > 0 => Inside(c) # {}
      BY <3>2, FS_EmptySet
    <3>4. QED  BY <3>2, <3>3 DEF multi, OtherLock
  <2>4. QED  BY <2>1, <2>2, <2>3
<1>15. QED  BY <1>7, <1>8, <1>9, <1>10, <1>11, <1>13, <1>14 DEF IndInv

\* A thread in cond_wait moves on: the fields that say what it waits with stay.
MovesTo(t, p, n) == at' = [at EXCEPT ![t].pc = p, ![t].seen = n]

LEMMA MovedOn ==
    ASSUME TypeOK, NEW t \in Thread, InWait(t),
           NEW p \in {"enter", "entering", "waiting", "leave", "leaving"}, NEW n \in Int,
           MovesTo(t, p, n)
    PROVE  /\ at' \in [Thread -> {Running} \cup Acquiring \cup Waiting]
           /\ \A u \in Thread \ {t} : at'[u] = at[u]
           /\ at'[t].pc = p /\ at'[t].seen = n
           /\ at'[t].cond = at[t].cond /\ at'[t].lock = at[t].lock
           /\ at'[t].depth = at[t].depth /\ at'[t].multi = at[t].multi
           /\ InWait(t)'
<1>1. at[t] \in Waiting
  BY Shape
<1> DEFINE w == [pc |-> p, cond |-> at[t].cond, lock |-> at[t].lock,
                 depth |-> at[t].depth, multi |-> at[t].multi, seen |-> n]
<1>2. w \in Waiting
  BY <1>1 DEF Waiting
<1>3. at'[t] = w
  BY <1>1 DEF TypeOK, Waiting, MovesTo
<1>4. at' = [at EXCEPT ![t] = w]
  BY <1>3 DEF TypeOK, MovesTo
<1>5. at' \in [Thread -> {Running} \cup Acquiring \cup Waiting]
  BY <1>2, <1>4 DEF TypeOK
<1>6. \A u \in Thread \ {t} : at'[u] = at[u]
  BY <1>4 DEF TypeOK
<1>7. QED  BY <1>3, <1>5, <1>6 DEF InWait

\* What a step of cond_wait that changes no lock and no waits of others leaves
\* of the books.
LEMMA MovedBooks ==
    ASSUME IndInv, NEW t \in Thread, InWait(t), InWait(t)',
           \A u \in Thread \ {t} : at'[u] = at[u],
           at'[t].cond = at[t].cond, at'[t].lock = at[t].lock,
           at'[t].depth = at[t].depth, at'[t].multi = at[t].multi,
           at'[t].pc \in {"enter", "leave"} => at[t].multi,
           UNCHANGED <<lock, scopes>>
    PROVE  WaitsOK' /\ LocksMatchScopes'
<1>1. WaitsOK'
  BY DEF IndInv, WaitsOK, InWait
<1>2. LocksMatchScopes'
  BY SameBooks DEF InWait
<1>3. QED  BY <1>1, <1>2

\* The second mutex of a wait on a condition that is in use with another lock.
LEMMA TakeCondMutexStep ==
    ASSUME IndInv, NEW t \in Thread, TakeCondMutex(t)
    PROVE  IndInv'
<1> DEFINE c == at[t].cond
           p == IF at[t].pc = "enter" THEN "entering" ELSE "leaving"
<1>1. /\ at[t].pc \in {"enter", "leave"} /\ mutex[c] = Nobody
      /\ mutex' = [mutex EXCEPT ![c] = t]
      /\ at' = [at EXCEPT ![t].pc = p, ![t].seen = waiters[c]]
      /\ UNCHANGED <<lock, contenders, sleepers, waiters, curLock, scopes>>
  BY DEF TakeCondMutex
<1>2. TypeOK
  BY DEF IndInv
<1>3. InWait(t) /\ c \in Var /\ at[t].multi /\ waiters[c] \in Int
  BY <1>1, <1>2, Shape DEF IndInv, WaitsOK, InWait, TypeOK
<1>4. p \in {"entering", "leaving"} /\ (p = "entering" <=> at[t].pc = "enter")
  BY <1>1
<1> HIDE DEF c, p
<1>5. /\ at' \in [Thread -> {Running} \cup Acquiring \cup Waiting]
      /\ \A u \in Thread \ {t} : at'[u] = at[u]
      /\ at'[t].pc = p /\ at'[t].seen = waiters[c]
      /\ at'[t].cond = c /\ at'[t].lock = at[t].lock
      /\ at'[t].depth = at[t].depth /\ at'[t].multi = at[t].multi
      /\ InWait(t)'
  <2>1. p \in {"enter", "entering", "waiting", "leave", "leaving"}
    BY <1>4
  <2>2. PICK n \in Int : n = waiters[c]
    BY <1>3
  <2>3. MovesTo(t, p, n)
    BY <1>1, <2>2 DEF MovesTo
  <2>4. /\ \A u \in Thread \ {t} : at'[u] = at[u]
        /\ at' \in [Thread -> {Running} \cup Acquiring \cup Waiting]
        /\ at'[t].pc = p /\ at'[t].seen = n
        /\ InWait(t)'
    BY ONLY <1>2, <1>3, <2>1, <2>3, MovedOn, t \in Thread
  <2>5. /\ at'[t].cond = at[t].cond /\ at'[t].lock = at[t].lock
        /\ at'[t].depth = at[t].depth /\ at'[t].multi = at[t].multi
    BY ONLY <1>2, <1>3, <2>1, <2>3, MovedOn, t \in Thread
  <2>6. QED  BY <2>2, <2>4, <2>5 DEF c
<1>6. TypeOK'
  BY <1>1, <1>2, <1>5 DEF TypeOK
<1>7. WaitsOK' /\ LocksMatchScopes'
  <2>1. at'[t].pc \notin {"enter", "leave"}
    BY <1>5, <1>4
  <2>2. QED  BY <1>1, <1>3, <1>5, <2>1, MovedBooks DEF c
<1>8. MutexesKept'
  <2>1. ASSUME NEW u \in Thread, NEW w \in Var  PROVE mutex'[w] = u <=> Keeps(u, w)'
    <3>1. (mutex[w] = u <=> Keeps(u, w)) /\ mutex'[w] = IF w = c THEN t ELSE mutex[w]
      BY <1>1, <1>2 DEF IndInv, MutexesKept, TypeOK
    <3>2. CASE u = t
      <4>1. Keeps(u, w) <=> w = at[t].lock
        BY <1>1, <3>2 DEF Keeps
      <4>2. Keeps(u, w)' <=> w = at[t].lock \/ w = c
        BY <1>3, <1>5, <1>4, <3>2 DEF Keeps
      <4>3. QED  BY <3>1, <3>2, <4>1, <4>2
    <3>3. CASE u # t
      <4>1. Keeps(u, w)' <=> Keeps(u, w)
        BY <1>5, <3>3 DEF Keeps
      <4>2. QED  BY <1>1, <3>1, <3>3, <4>1, SharedAssumption
    <3>4. QED  BY <3>2, <3>3
  <2>2. ASSUME NEW u \in Thread, at'[u].pc \in {"enter", "entering", "leave", "leaving"}
        PROVE  lock'[at'[u].lock].owner = Nobody
    BY <1>1, <1>5, <2>2 DEF IndInv, MutexesKept
  <2>3. QED  BY <2>1, <2>2 DEF MutexesKept
<1>9. SleepsOK'
  BY <1>1, <1>5 DEF IndInv, SleepsOK
<1>10. \A d \in Var : Inside(d)' = Inside(d)
  BY <1>1, <1>3, <1>5, <1>4 DEF Inside, InWait
<1>11. WaitersCounted'
  BY <1>1, <1>10 DEF IndInv, WaitersCounted
<1>12. UpdatesOK'
  <2>1. \A w \in Var : ~ OnlyWith(c, w)
    BY <1>3 DEF IndInv, UpdatesOK, c
  <2>2. \A u \in Thread : InWait(u)' => InWait(u) /\ (u # t => at'[u] = at[u])
    BY <1>3, <1>5 DEF InWait
  <2>3. QED  BY <1>1, <1>5, <1>10, <2>1, <2>2 DEF IndInv, UpdatesOK
<1>13. LockHandedOn'
  <2>1. \A u \in Thread, w \in Var : OnItsWay(u, w) => OnItsWay(u, w)'
    BY <1>1, <1>5, <1>4 DEF OnItsWay
  <2>2. QED  BY <1>1, <2>1 DEF IndInv, LockHandedOn
<1>14. QED  BY <1>6, <1>7, <1>8, <1>9, <1>11, <1>12, <1>13 DEF IndInv

\* Which mutexes are kept after a step that drops those of one thread.
LEMMA Dropped ==
    ASSUME IndInv, NEW t \in Thread, DropMutexes(t),
           \A u \in Thread \ {t} : at'[u] = at[u],
           at'[t].pc \in {"run", "waiting"},
           \A w \in Var : mutex[w] \notin {t, Nobody} => lock'[w].owner = lock[w].owner
    PROVE  mutex' \in [Var -> Thread \cup {Nobody}] /\ MutexesKept'
<1>1. mutex' = [w \in Var |-> IF mutex[w] = t THEN Nobody ELSE mutex[w]]
  BY DEF DropMutexes
<1>2. mutex' \in [Var -> Thread \cup {Nobody}]
  BY <1>1 DEF IndInv, TypeOK
<1>3. ASSUME NEW u \in Thread, NEW w \in Var  PROVE mutex'[w] = u <=> Keeps(u, w)'
  <2>1. mutex[w] = u <=> Keeps(u, w)
    BY DEF IndInv, MutexesKept
  <2>2. CASE u = t
    BY <1>1, <2>1, <2>2, SharedAssumption DEF Keeps
  <2>3. CASE u # t
    BY <1>1, <2>1, <2>3, SharedAssumption DEF Keeps
  <2>4. QED  BY <2>2, <2>3
<1>4. ASSUME NEW u \in Thread, at'[u].pc \in {"enter", "entering", "leave", "leaving"}
      PROVE  lock'[at'[u].lock].owner = Nobody
  <2>1. u # t /\ at'[u] = at[u]
    BY <1>4
  <2>2. at[u].lock \in Var
    BY <1>4, <2>1, Shape DEF IndInv, InWait
  <2>3. mutex[at[u].lock] = u /\ lock[at[u].lock].owner = Nobody
    BY <1>4, <2>1, <2>2 DEF IndInv, MutexesKept, Keeps
  <2>4. QED  BY <2>1, <2>2, <2>3, SharedAssumption
<1>5. QED  BY <1>2, <1>3, <1>4 DEF MutexesKept

\* Threads that update a condition used with one lock keep the mutex of that
\* lock: there is one of them at most.
LEMMA OneUpdates ==
    ASSUME IndInv, NEW c \in Var, NEW v \in Var, OnlyWith(c, v),
           NEW t \in Thread, NEW u \in Thread,
           at[t].pc \in {"entering", "leaving"}, at[t].cond = c,
           at[u].pc \in {"entering", "leaving"}, at[u].cond = c
    PROVE  t = u
<1>1. at[t].lock = v /\ at[u].lock = v
  <2>1. <<c, at[t].lock>> \in Pairs /\ <<c, at[u].lock>> \in Pairs
    BY DEF IndInv, WaitsOK, InWait
  <2>2. \A w : <<c, w>> \in Pairs => <<c, w>> \in {<<c, v>>}
    BY DEF OnlyWith
  <2>3. QED  BY <2>1, <2>2
<1>2. mutex[v] = t /\ mutex[v] = u
  BY <1>1 DEF IndInv, MutexesKept, Keeps
<1>3. QED  BY <1>2

\* The wait begins: waiters counts the thread, which drops its mutexes.
LEMMA FallAsleepStep ==
    ASSUME IndInv, NEW t \in Thread, FallAsleep(t)
    PROVE  IndInv'
<1> DEFINE c == at[t].cond
<1>1. /\ at[t].pc = "entering"
      /\ waiters' = [waiters EXCEPT ![c] = at[t].seen + 1]
      /\ curLock' = [curLock EXCEPT ![c] = at[t].lock]
      /\ sleepers' = [sleepers EXCEPT ![c] = sleepers[c] \cup {t}]
      /\ DropMutexes(t)
      /\ at' = [at EXCEPT ![t].pc = "waiting", ![t].seen = 0]
      /\ UNCHANGED <<lock, contenders, scopes>>
  BY DEF FallAsleep
<1>2. TypeOK
  BY DEF IndInv
<1>3. /\ InWait(t) /\ c \in Var /\ at[t].lock \in Var /\ at[t].seen \in Int
      /\ <<c, at[t].lock>> \in Pairs
  BY <1>1, <1>2, Shape DEF IndInv, WaitsOK, InWait
<1>4. /\ at' \in [Thread -> {Running} \cup Acquiring \cup Waiting]
      /\ \A u \in Thread \ {t} : at'[u] = at[u]
      /\ at'[t].pc = "waiting"
      /\ at'[t].cond = c /\ at'[t].lock = at[t].lock
      /\ at'[t].depth = at[t].depth /\ at'[t].multi = at[t].multi
      /\ InWait(t)'
  <2>1. "waiting" \in {"enter", "entering", "waiting", "leave", "leaving"} /\ 0 \in Int
    OBVIOUS
  <2>2. MovesTo(t, "waiting", 0)
    BY <1>1 DEF MovesTo
  <2>3. QED  BY <1>2, <1>3, <2>1, <2>2, MovedOn
<1>5. /\ waiters'[c] = at[t].seen + 1 /\ curLock'[c] = at[t].lock
      /\ sleepers'[c] = sleepers[c] \cup {t}
      /\ \A d \in Var \ {c} : /\ waiters'[d] = waiters[d] /\ curLock'[d] = curLock[d]
                              /\ sleepers'[d] = sleepers[d]
  BY <1>1, <1>2, <1>3 DEF TypeOK
<1> HIDE DEF c
<1>6. mutex' \in [Var -> Thread \cup {Nobody}] /\ MutexesKept'
  BY <1>1, <1>4, Dropped
<1>7. TypeOK'
  <2>1. waiters' \in [Var -> Int] /\ curLock' \in [Var -> Var \cup {Nobody}]
    BY <1>1, <1>2, <1>3 DEF TypeOK
  <2>2. sleepers' \in [Var -> SUBSET Thread]
    BY <1>1, <1>2 DEF TypeOK
  <2>3. QED  BY <1>1, <1>2, <1>4, <1>6, <2>1, <2>2 DEF TypeOK
<1>8. WaitsOK' /\ LocksMatchScopes'
  BY <1>1, <1>3, <1>4, MovedBooks DEF c
<1>9. SleepsOK'
  <2>1. \A w \in Var : t \notin contenders[w]
    BY <1>1 DEF IndInv, SleepsOK
  <2>2. \A u \in Thread \ {t}, w \in Var : u \in sleepers'[w] <=> u \in sleepers[w]
    BY <1>5
  <2>3. \A w \in Var : t \in sleepers'[w] => w = c
    BY <1>1, <1>5 DEF IndInv, SleepsOK
  <2>4. \A u \in Thread \ {t}, w \in Var : u \in contenders[w] /\ at[u].pc = "waiting" => at[u].cond \in Var
    BY <1>2, Shape DEF InWait
  <2>5. QED  BY <1>1, <1>4, <2>1, <2>2, <2>3, <2>4 DEF IndInv, SleepsOK
<1>10. LockHandedOn'
  <2>1. \A u \in Thread, w \in Var : OnItsWay(u, w) => OnItsWay(u, w)'
    <3> SUFFICES ASSUME NEW u \in Thread, NEW w \in Var, OnItsWay(u, w)
                 PROVE  OnItsWay(u, w)'
      OBVIOUS
    <3>1. u # t /\ at'[u] = at[u]
      BY <1>1, <1>4 DEF OnItsWay
    <3>2. at[u].pc = "waiting" => at[u].cond \in Var
      BY <1>2, Shape DEF InWait
    <3>3. QED  BY <1>5, <3>1, <3>2 DEF OnItsWay
  <2>2. QED  BY <1>1, <2>1 DEF IndInv, LockHandedOn
<1>11. /\ t \notin Inside(c)
       /\ \A d \in Var : Inside(d)' = IF d = c THEN Inside(d) \cup {t} ELSE Inside(d)
  <2>1. \A u \in Thread \ {t} : InWait(u)' <=> InWait(u)
    BY <1>4 DEF InWait
  <2>2. QED  BY <1>1, <1>4, <2>1 DEF Inside, c
<1>12. ASSUME NEW d \in Var, NEW w \in Var, OnlyWith(d, w)
       PROVE  /\ IsFiniteSet(Inside(d))'
              /\ waiters'[d] = Cardinality(Inside(d)')
              /\ curLock'[d] = IF Inside(d)' = {} THEN Nobody ELSE w
              /\ \A u \in Thread : InWait(u)' /\ at'[u].cond = d =>
                    /\ ~ at'[u].multi
                    /\ at'[u].pc \in {"entering", "leaving"} => at'[u].seen = waiters'[d]
  <2>1. /\ IsFiniteSet(Inside(d)) /\ waiters[d] = Cardinality(Inside(d))
        /\ curLock[d] = IF Inside(d) = {} THEN Nobody ELSE w
        /\ \A u \in Thread : InWait(u) /\ at[u].cond = d =>
              /\ ~ at[u].multi
              /\ at[u].pc \in {"entering", "leaving"} => at[u].seen = waiters[d]
    BY <1>12 DEF IndInv, UpdatesOK, WaitersCounted
  <2>2. \A u \in Thread \ {t} : (InWait(u)' <=> InWait(u)) /\ at'[u] = at[u]
    BY <1>4 DEF InWait
  <2>3. CASE d = c
    <3>1. at[t].seen = waiters[c] /\ ~ at[t].multi
      BY <1>1, <1>3, <2>1, <2>3 DEF c
    <3>2. at[t].lock = w
      BY <1>3, <1>12, <2>3 DEF OnlyWith
    <3>3. IsFiniteSet(Inside(d))' /\ Cardinality(Inside(d)') = Cardinality(Inside(d)) + 1
      BY <1>11, <2>1, <2>3, FS_AddElement
    <3>4. \A u \in Thread \ {t} : InWait(u)' /\ at'[u].cond = d =>
                    /\ ~ at'[u].multi
                    /\ at'[u].pc \notin {"entering", "leaving"}
      BY <1>1, <1>12, <2>1, <2>2, <2>3, OneUpdates DEF c
    <3>5. QED  BY <1>4, <1>5, <1>11, <2>1, <2>3, <3>1, <3>2, <3>3, <3>4
  <2>4. CASE d # c
    <3>1. \A u \in Thread : InWait(u)' /\ at'[u].cond = d => u # t
      BY <1>4, <2>4
    <3>2. QED  BY <1>5, <1>11, <2>1, <2>2, <2>4, <3>1
  <2>5. QED  BY <2>3, <2>4
<1>13. UpdatesOK' /\ WaitersCounted'
  BY <1>12 DEF UpdatesOK, WaitersCounted
<1>14. QED  BY <1>6, <1>7, <1>8, <1>9, <1>10, <1>13 DEF IndInv

\* A step that only wakes sleepers of a condition.
LEMMA WokenStep ==
    ASSUME IndInv, sleepers' \in [Var -> SUBSET Thread],
           \A w \in Var : sleepers'[w] \subseteq sleepers[w],
           UNCHANGED <<lock, mutex, contenders, waiters, curLock, scopes, at>>
    PROVE  IndInv'
<1>1. TypeOK'
  BY DEF IndInv, TypeOK
<1>2. \A u \in Thread : (InWait(u)' <=> InWait(u)) /\ at'[u] = at[u]
  BY DEF InWait
<1>3. WaitsOK' /\ UpdatesOK' /\ WaitersCounted'
  BY <1>2, SameWaits
<1>4. LocksMatchScopes'
  BY <1>2, SameBooks
<1>5. MutexesKept'
  BY DEF IndInv, MutexesKept, Keeps
<1>6. \A u \in Thread : at[u].pc = "waiting" => at[u].cond \in Var
  BY Shape DEF IndInv, InWait
<1>7. SleepsOK'
  BY <1>6 DEF IndInv, SleepsOK
<1>8. LockHandedOn'
  BY <1>6 DEF IndInv, LockHandedOn, OnItsWay
<1>9. QED  BY <1>1, <1>3, <1>4, <1>5, <1>7, <1>8 DEF IndInv

\* cond_signal and cond_broadcast wake sleepers of their condition only.
LEMMA SignalledType ==
    ASSUME TypeOK, NEW c \in Var, NEW S, sleepers' = [sleepers EXCEPT ![c] = sleepers[c] \ S]
    PROVE  /\ sleepers' \in [Var -> SUBSET Thread]
           /\ \A w \in Var : sleepers'[w] \subseteq sleepers[w]
           /\ sleepers'[c] = sleepers[c] \ S
           /\ \A w \in Var \ {c} : sleepers'[w] = sleepers[w]
BY DEF TypeOK

\* A time-out or a spurious wake-up.
LEMMA WakeUnsignalledStep ==
    ASSUME IndInv, NEW t \in Thread, WakeUnsignalled(t)
    PROVE  IndInv'
<1>1. at[t].cond \in Var
  BY Shape DEF IndInv, WakeUnsignalled, InWait
<1>2. sleepers' = [sleepers EXCEPT ![at[t].cond] = sleepers[at[t].cond] \ {t}]
  BY DEF WakeUnsignalled
<1>3. QED  BY <1>1, <1>2, SignalledType, WokenStep DEF IndInv, WakeUnsignalled

\* cond_signal.
LEMMA SignalStep ==
    ASSUME IndInv, NEW t \in Thread, NEW c \in Var, Signal(t, c)
    PROVE  IndInv'
<1>1. PICK S \in OneOf(sleepers[c]) : sleepers' = [sleepers EXCEPT ![c] = sleepers[c] \ S]
  BY DEF Signal
<1>2. QED  BY <1>1, SignalledType, WokenStep DEF IndInv, Signal

\* cond_broadcast.
LEMMA BroadcastStep ==
    ASSUME IndInv, NEW t \in Thread, NEW c \in Var, Broadcast(t, c)
    PROVE  IndInv'
<1>1. sleepers' = [sleepers EXCEPT ![c] = sleepers[c] \ sleepers[c]]
  BY DEF Broadcast
<1>2. QED  BY <1>1, SignalledType, WokenStep DEF IndInv, Broadcast

\* A woken waiter finds its lock taken, and sleeps on the lock.
LEMMA ReacquireBusy ==
    ASSUME IndInv, NEW t \in Thread, NEW v \in Var, at[t].pc = "waiting", at[t].lock = v,
           t \notin sleepers[at[t].cond], lock[v].owner # Nobody,
           contenders' = [contenders EXCEPT ![v] = contenders[v] \cup {t}],
           UNCHANGED <<lock, mutex, sleepers, waiters, curLock, scopes, at>>
    PROVE  IndInv'
<1>1. TypeOK'
  BY DEF IndInv, TypeOK
<1>2. \A u \in Thread : (InWait(u)' <=> InWait(u)) /\ at'[u] = at[u]
  BY DEF InWait
<1>3. WaitsOK' /\ UpdatesOK' /\ WaitersCounted'
  BY <1>2, SameWaits
<1>4. LocksMatchScopes'
  BY <1>2, SameBooks
<1>5. MutexesKept'
  BY DEF IndInv, MutexesKept, Keeps
<1>6. \A w \in Var : contenders'[w] = IF w = v THEN contenders[v] \cup {t} ELSE contenders[w]
  BY DEF IndInv, TypeOK
<1>7. SleepsOK'
  BY <1>6 DEF IndInv, SleepsOK
<1>8. LockHandedOn'
  BY <1>6 DEF IndInv, LockHandedOn, OnItsWay
<1>9. QED  BY <1>1, <1>3, <1>4, <1>5, <1>7, <1>8 DEF IndInv

\* A woken waiter finds its lock free and keeps the mutex of it.
LEMMA ReacquireFree ==
    ASSUME IndInv, NEW t \in Thread, NEW v \in Var, at[t].pc = "waiting", at[t].lock = v,
           t \notin sleepers[at[t].cond] \cup contenders[v],
           mutex[v] = Nobody, lock[v].owner = Nobody,
           mutex' = [mutex EXCEPT ![v] = t],
           at' = [at EXCEPT ![t].pc = IF at[t].multi THEN "leave" ELSE "leaving",
                            ![t].seen = waiters[at[t].cond]],
           UNCHANGED <<lock, contenders, sleepers, waiters, curLock, scopes>>
    PROVE  IndInv'
<1> DEFINE c == at[t].cond
           p == IF at[t].multi THEN "leave" ELSE "leaving"
<1>1. TypeOK
  BY DEF IndInv
<1>2. /\ InWait(t) /\ c \in Var /\ waiters[c] \in Int
      /\ p \in {"leave", "leaving"} /\ p \in {"enter", "entering", "waiting", "leave", "leaving"}
      /\ p = "leave" <=> at[t].multi
  BY <1>1, Shape DEF InWait, TypeOK
<1>3. MovesTo(t, p, waiters[c])
  BY DEF MovesTo
<1> HIDE DEF c, p
<1>4. /\ at' \in [Thread -> {Running} \cup Acquiring \cup Waiting]
      /\ \A u \in Thread \ {t} : at'[u] = at[u]
      /\ at'[t].pc = p /\ at'[t].seen = waiters[c]
      /\ at'[t].cond = c /\ at'[t].lock = v
      /\ at'[t].depth = at[t].depth /\ at'[t].multi = at[t].multi
      /\ InWait(t)'
  <2>1. /\ \A u \in Thread \ {t} : at'[u] = at[u]
        /\ at' \in [Thread -> {Running} \cup Acquiring \cup Waiting]
        /\ at'[t].pc = p /\ at'[t].seen = waiters[c]
        /\ InWait(t)'
    BY ONLY <1>1, <1>2, <1>3, MovedOn, t \in Thread
  <2>2. /\ at'[t].cond = at[t].cond /\ at'[t].lock = at[t].lock
        /\ at'[t].depth = at[t].depth /\ at'[t].multi = at[t].multi
    BY ONLY <1>1, <1>2, <1>3, MovedOn, t \in Thread
  <2>3. QED  BY <2>1, <2>2 DEF c
<1>5. TypeOK'
  BY <1>1, <1>4 DEF TypeOK
<1>6. WaitsOK' /\ LocksMatchScopes'
  BY <1>2, <1>4, MovedBooks DEF c
<1>7. MutexesKept'
  <2>1. ASSUME NEW u \in Thread, NEW w \in Var  PROVE mutex'[w] = u <=> Keeps(u, w)'
    <3>1. (mutex[w] = u <=> Keeps(u, w)) /\ mutex'[w] = IF w = v THEN t ELSE mutex[w]
      BY <1>1 DEF IndInv, MutexesKept, TypeOK
    <3>2. CASE u = t
      <4>1. ~ Keeps(u, w)
        BY <3>2 DEF Keeps
      <4>2. Keeps(u, w)' <=> w = v
        BY <1>2, <1>4, <3>2 DEF Keeps
      <4>3. QED  BY <3>1, <3>2, <4>1, <4>2
    <3>3. CASE u # t
      <4>1. Keeps(u, w)' <=> Keeps(u, w)
        BY <1>4, <3>3 DEF Keeps
      <4>2. QED  BY <3>1, <3>3, <4>1, SharedAssumption
    <3>4. QED  BY <3>2, <3>3
  <2>2. ASSUME NEW u \in Thread, at'[u].pc \in {"enter", "entering", "leave", "leaving"}
        PROVE  lock'[at'[u].lock].owner = Nobody
    BY <1>4, <2>2 DEF IndInv, MutexesKept
  <2>3. QED  BY <2>1, <2>2 DEF MutexesKept
<1>8. \A w \in Var : t \notin contenders[w] /\ t \notin sleepers[w]
  BY DEF IndInv, SleepsOK
<1>9. SleepsOK'
  BY <1>4, <1>8 DEF IndInv, SleepsOK
<1>10. \A d \in Var : Inside(d)' = Inside(d)
  <2>1. \A u \in Thread : /\ InWait(u)' <=> InWait(u)
                          /\ at'[u].cond = at[u].cond
                          /\ at'[u].pc \in {"enter", "entering"} <=> at[u].pc \in {"enter", "entering"}
    <3>1. ASSUME NEW u \in Thread, u # t  PROVE at'[u] = at[u] /\ (InWait(u)' <=> InWait(u))
      BY <1>4, <3>1 DEF InWait
    <3>2. /\ InWait(t)' /\ InWait(t) /\ at'[t].cond = at[t].cond
          /\ at'[t].pc \notin {"enter", "entering"} /\ at[t].pc \notin {"enter", "entering"}
      BY <1>1, <1>2, <1>4 DEF c
    <3>3. QED  BY <3>1, <3>2
  <2>2. ASSUME NEW d \in Var, NEW u \in Thread  PROVE u \in Inside(d)' <=> u \in Inside(d)
    BY <2>1 DEF Inside
  <2>3. \A d \in Var : Inside(d) \subseteq Thread /\ Inside(d)' \subseteq Thread
    BY DEF Inside
  <2>4. QED  BY <2>2, <2>3
<1>11. WaitersCounted'
  BY <1>10 DEF IndInv, WaitersCounted
<1>12. UpdatesOK'
  <2> SUFFICES ASSUME NEW d \in Var, NEW w \in Var, OnlyWith(d, w)
               PROVE  /\ IsFiniteSet(Inside(d))
                      /\ \A u \in Thread : InWait(u)' /\ at'[u].cond = d =>
                            /\ ~ at'[u].multi
                            /\ at'[u].pc \in {"entering", "leaving"} => at'[u].seen = waiters[d]
    BY <1>10 DEF UpdatesOK
  <2>1. /\ IsFiniteSet(Inside(d))
        /\ \A u \in Thread : InWait(u) /\ at[u].cond = d =>
                            /\ ~ at[u].multi
                            /\ at[u].pc \in {"entering", "leaving"} => at[u].seen = waiters[d]
    BY DEF IndInv, UpdatesOK
  <2>2. \A u \in Thread \ {t} : (InWait(u)' <=> InWait(u)) /\ at'[u] = at[u]
    BY <1>4 DEF InWait
  <2>3. InWait(t) /\ at'[t].cond = at[t].cond /\ at'[t].multi = at[t].multi /\ at'[t].pc = p
        /\ at'[t].seen = waiters[c] /\ c = at[t].cond
    BY <1>2, <1>4 DEF c
  <2>4. ASSUME NEW u \in Thread, InWait(u)', at'[u].cond = d
        PROVE  /\ ~ at'[u].multi
               /\ at'[u].pc \in {"entering", "leaving"} => at'[u].seen = waiters[d]
    <3>1. CASE u = t
      BY <2>1, <2>3, <2>4, <3>1
    <3>2. CASE u # t
      <4>1. InWait(u) /\ at'[u] = at[u]
        BY <2>2, <2>4, <3>2
      <4>2. QED  BY <2>1, <2>4, <4>1
    <3>3. QED  BY <3>1, <3>2
  <2>5. QED  BY <2>1, <2>4
<1>13. LockHandedOn'
  <2>1. \A u \in Thread, w \in Var : OnItsWay(u, w) => OnItsWay(u, w)'
    BY <1>2, <1>4 DEF OnItsWay
  <2>2. QED  BY <2>1 DEF IndInv, LockHandedOn
<1>14. QED  BY <1>5, <1>6, <1>7, <1>9, <1>11, <1>12, <1>13 DEF IndInv

\* The loop of a woken waiter.
LEMMA ReacquireStep ==
    ASSUME IndInv, NEW t \in Thread, Reacquire(t)
    PROVE  IndInv'
<1>1. at[t].pc = "waiting" /\ at[t].lock \in Var
  BY Shape DEF IndInv, Reacquire, InWait
<1>2. CASE lock[at[t].lock].owner # Nobody
  BY <1>1, <1>2, ReacquireBusy DEF Reacquire
<1>3. CASE lock[at[t].lock].owner = Nobody
  BY <1>1, <1>3, ReacquireFree DEF Reacquire
<1>4. QED  BY <1>2, <1>3

\* The wait ends: waiters no longer counts the thread, which has its lock back.
LEMMA LeaveWaitStep ==
    ASSUME IndInv, NEW t \in Thread, LeaveWait(t)
    PROVE  IndInv'
<1> DEFINE c == at[t].cond
           v == at[t].lock
<1>1. /\ at[t].pc = "leaving"
      /\ waiters' = [waiters EXCEPT ![c] = at[t].seen - 1]
      /\ curLock' = IF at[t].seen = 1 THEN [curLock EXCEPT ![c] = Nobody] ELSE curLock
      /\ lock' = [lock EXCEPT ![v] = [owner |-> t, locks |-> at[t].depth]]
      /\ DropMutexes(t)
      /\ at' = [at EXCEPT ![t] = Running]
      /\ UNCHANGED <<contenders, sleepers, scopes>>
  BY DEF LeaveWait, LastOut, TakenBack
<1>2. TypeOK
  BY DEF IndInv
<1>3. /\ InWait(t) /\ c \in Var /\ v \in Var /\ at[t].seen \in Int /\ at[t].depth \in Nat
      /\ <<c, v>> \in Pairs
  BY <1>1, <1>2, Shape DEF IndInv, WaitsOK, InWait
<1>4. /\ lock[v].owner = Nobody /\ mutex[v] = t /\ Parks(t, v) /\ at[t].depth > 0
  <2>1. lock[v].owner = Nobody
    BY <1>1 DEF IndInv, MutexesKept
  <2>2. Keeps(t, v) /\ Parks(t, v)
    BY <1>1, <1>3 DEF Keeps, Parks
  <2>3. QED  BY <1>3, <2>1, <2>2 DEF IndInv, MutexesKept, LocksMatchScopes
<1>5. \A w \in Var : w # v => ~ Parks(t, w)
  BY DEF Parks
<1> HIDE DEF c, v
<1>6. /\ at'[t] = Running /\ at'[t].pc = "run" /\ ~ InWait(t)'
      /\ \A u \in Thread \ {t} : at'[u] = at[u]
      /\ lock'[v] = [owner |-> t, locks |-> at[t].depth]
      /\ \A w \in Var \ {v} : lock'[w] = lock[w]
  BY <1>1, <1>2, <1>3 DEF TypeOK, Running, InWait
<1>7. /\ waiters'[c] = at[t].seen - 1
      /\ curLock'[c] = IF at[t].seen = 1 THEN Nobody ELSE curLock[c]
      /\ \A d \in Var \ {c} : waiters'[d] = waiters[d] /\ curLock'[d] = curLock[d]
  BY <1>1, <1>2, <1>3 DEF TypeOK
<1>8. mutex' \in [Var -> Thread \cup {Nobody}] /\ MutexesKept'
  <2>1. \A w \in Var : mutex[w] \notin {t, Nobody} => lock'[w].owner = lock[w].owner
    BY <1>4, <1>6
  <2>2. QED  BY <1>1, <1>6, <2>1, Dropped
<1>9. TypeOK'
  <2>1. lock' \in [Var -> [owner : Thread \cup {Nobody}, locks : Nat]]
    BY <1>1, <1>2, <1>3 DEF TypeOK
  <2>2. waiters' \in [Var -> Int]
    BY <1>1, <1>2, <1>3 DEF TypeOK
  <2>3. curLock' \in [Var -> Var \cup {Nobody}]
    BY <1>1, <1>2 DEF TypeOK
  <2>4. at' \in [Thread -> {Running} \cup Acquiring \cup Waiting]
    BY <1>1, <1>2 DEF TypeOK
  <2>5. QED  BY <1>1, <1>2, <1>8, <2>1, <2>2, <2>3, <2>4 DEF TypeOK
<1>10. WaitsOK'
  BY <1>6 DEF IndInv, WaitsOK, InWait
<1>11. LocksMatchScopes'
  <2>1. ASSUME NEW w \in Var  PROVE lock'[w].owner = Nobody <=> lock'[w].locks = 0
    <3>1. at[t].depth # 0
      BY <1>3, <1>4
    <3>2. QED  BY <1>6, <3>1, SharedAssumption DEF IndInv, LocksMatchScopes
  <2>2. ASSUME NEW u \in Thread, NEW w \in Var
        PROVE  /\ IsFiniteSet(Taken(u, w))'
               /\ Cardinality(Taken(u, w))' = Depth(u, w)'
               /\ Parks(u, w)' => lock'[w].owner # u /\ at'[u].depth > 0
    <3>1. /\ IsFiniteSet(Taken(u, w)) /\ Cardinality(Taken(u, w)) = Depth(u, w)
          /\ Parks(u, w) => lock[w].owner # u /\ at[u].depth > 0
      BY DEF IndInv, LocksMatchScopes
    <3>2. Taken(u, w)' = Taken(u, w)
      BY <1>1 DEF Taken
    <3>3. CASE u = t
      <4>1. ~ Parks(u, w)'
        BY <1>6, <3>3 DEF Parks
      <4>2. CASE w = v
        <5>1. Parks(u, w)
          BY <1>4, <3>3, <4>2
        <5>2. Depth(u, w)' = Depth(u, w)
          BY <1>6, <3>3, <4>1, <4>2, <5>1 DEF Depth
        <5>3. QED  BY <3>1, <3>2, <4>1, <5>2
      <4>3. CASE w # v
        <5>1. Depth(u, w)' = Depth(u, w)
          BY <1>5, <1>6, <3>3, <4>1, <4>3 DEF Depth
        <5>2. QED  BY <3>1, <3>2, <4>1, <5>1
      <4>4. QED  BY <4>2, <4>3
    <3>4. CASE u # t
      <4>1. (Parks(u, w)' <=> Parks(u, w)) /\ at'[u] = at[u]
        BY <1>6, <3>4 DEF Parks, InWait
      <4>2. (lock'[w].owner = u <=> lock[w].owner = u) /\ (lock[w].owner = u => lock'[w] = lock[w])
        BY <1>4, <1>6, <3>4, SharedAssumption
      <4>3. Depth(u, w)' = Depth(u, w)
        BY <4>1, <4>2 DEF Depth
      <4>4. QED  BY <3>1, <3>2, <4>1, <4>2, <4>3
    <3>5. QED  BY <3>3, <3>4
  <2>3. QED  BY <2>1, <2>2 DEF LocksMatchScopes
<1>12. \A w \in Var : t \notin contenders[w] /\ t \notin sleepers[w]
  BY <1>1 DEF IndInv, SleepsOK
<1>13. SleepsOK'
  BY <1>1, <1>6, <1>12 DEF IndInv, SleepsOK
<1>14. LockHandedOn'
  <2> SUFFICES ASSUME NEW w \in Var, lock'[w].owner = Nobody, contenders'[w] # {}
               PROVE  \E u \in Thread \ contenders'[w] : OnItsWay(u, w)'
    BY DEF LockHandedOn
  <2>1. w # v /\ lock[w].owner = Nobody /\ contenders'[w] = contenders[w]
    BY <1>1, <1>6, SharedAssumption
  <2>2. PICK u \in Thread \ contenders[w] : OnItsWay(u, w)
    BY <2>1 DEF IndInv, LockHandedOn
  <2>3. u # t
    BY <2>1, <2>2 DEF OnItsWay, v
  <2>4. QED  BY <1>1, <1>6, <2>1, <2>2, <2>3 DEF OnItsWay
<1>15. /\ t \in Inside(c)
       /\ \A d \in Var : Inside(d)' = IF d = c THEN Inside(d) \ {t} ELSE Inside(d)
  <2>1. \A u \in Thread \ {t} : InWait(u)' <=> InWait(u)
    BY <1>6 DEF InWait
  <2>2. QED  BY <1>1, <1>3, <1>6, <2>1 DEF Inside, c
<1>16. ASSUME NEW d \in Var, NEW w \in Var, OnlyWith(d, w)
       PROVE  /\ IsFiniteSet(Inside(d))'
              /\ waiters'[d] = Cardinality(Inside(d)')
              /\ curLock'[d] = IF Inside(d)' = {} THEN Nobody ELSE w
              /\ \A u \in Thread : InWait(u)' /\ at'[u].cond = d =>
                    /\ ~ at'[u].multi
                    /\ at'[u].pc \in {"entering", "leaving"} => at'[u].seen = waiters'[d]
  <2>1. /\ IsFiniteSet(Inside(d)) /\ waiters[d] = Cardinality(Inside(d))
        /\ curLock[d] = IF Inside(d) = {} THEN Nobody ELSE w
        /\ \A u \in Thread : InWait(u) /\ at[u].cond = d =>
              /\ ~ at[u].multi
              /\ at[u].pc \in {"entering", "leaving"} => at[u].seen = waiters[d]
    BY <1>16 DEF IndInv, UpdatesOK, WaitersCounted
  <2>2. \A u \in Thread \ {t} : (InWait(u)' <=> InWait(u)) /\ at'[u] = at[u]
    BY <1>6 DEF InWait
  <2>3. CASE d = c
    <3>1. at[t].seen = waiters[c]
      BY <1>1, <1>3, <2>1, <2>3 DEF c
    <3>2. /\ IsFiniteSet(Inside(d))'
          /\ Cardinality(Inside(d)') = Cardinality(Inside(d)) - 1
          /\ Cardinality(Inside(d)) \in Nat
      BY <1>15, <2>1, <2>3, FS_RemoveElement, FS_CardinalityType
    <3>3. Inside(d)' = {} <=> Cardinality(Inside(d)) = 1
      BY <3>2, FS_EmptySet
    <3>4. Inside(d) # {}
      BY <1>15, <2>3
    <3>5. \A u \in Thread \ {t} : InWait(u)' /\ at'[u].cond = d =>
                    /\ ~ at'[u].multi
                    /\ at'[u].pc \notin {"entering", "leaving"}
      BY <1>1, <1>16, <2>1, <2>2, <2>3, OneUpdates DEF c
    <3>6. QED  BY <1>6, <1>7, <2>1, <2>3, <3>1, <3>2, <3>3, <3>4, <3>5
  <2>4. CASE d # c
    <3>1. \A u \in Thread : InWait(u)' => u # t
      BY <1>6
    <3>2. QED  BY <1>7, <1>15, <2>1, <2>2, <2>4, <3>1
  <2>5. QED  BY <2>3, <2>4
<1>17. UpdatesOK' /\ WaitersCounted'
  BY <1>16 DEF UpdatesOK, WaitersCounted
<1>18. QED  BY <1>8, <1>9, <1>10, <1>11, <1>13, <1>14, <1>17 DEF IndInv

LEMMA InitIndInv == Init => IndInv
<1> SUFFICES ASSUME Init  PROVE IndInv
  OBVIOUS
<1>1. /\ lock = [v \in Var |-> Unlocked]
      /\ mutex = [v \in Var |-> Nobody]
      /\ contenders = [v \in Var |-> {}]
      /\ sleepers = [v \in Var |-> {}]
      /\ waiters = [v \in Var |-> 0]
      /\ curLock = [v \in Var |-> Nobody]
      /\ scopes = [t \in Thread |-> <<>>]
      /\ at = [t \in Thread |-> Running]
  BY DEF Init
<1>2. TypeOK
  <2>1. Unlocked \in [owner : Thread \cup {Nobody}, locks : Nat]
    BY DEF Unlocked
  <2>2. QED  BY <1>1, <2>1 DEF TypeOK
<1>3. \A t \in Thread : at[t].pc = "run" /\ ~ InWait(t)
  BY <1>1 DEF Running, InWait
<1>4. WaitsOK
  BY <1>3 DEF WaitsOK
<1>5. MutexesKept
  BY <1>1, <1>3, SharedAssumption DEF MutexesKept, Keeps
<1>6. LocksMatchScopes
  <2>1. \A t \in Thread, v \in Var : Taken(t, v) = {} /\ Depth(t, v) = 0 /\ ~ Parks(t, v)
    BY <1>1, <1>3 DEF Taken, Places, Depth, Parks, Unlocked
  <2>2. \A v \in Var : lock[v].owner = Nobody /\ lock[v].locks = 0
    BY <1>1 DEF Unlocked
  <2>3. QED  BY <2>1, <2>2, FS_EmptySet DEF LocksMatchScopes
<1>7. SleepsOK /\ LockHandedOn
  BY <1>1 DEF SleepsOK, LockHandedOn
<1>8. \A c \in Var : Inside(c) = {}
  BY <1>3 DEF Inside
<1>9. UpdatesOK /\ WaitersCounted
  BY <1>1, <1>3, <1>8, FS_EmptySet DEF UpdatesOK, WaitersCounted
<1>10. QED  BY <1>2, <1>4, <1>5, <1>6, <1>7, <1>9 DEF IndInv

LEMMA NextIndInv == IndInv /\ [Next]_vars => IndInv'
<1> SUFFICES ASSUME IndInv, [Next]_vars  PROVE IndInv'
  OBVIOUS
<1>1. ASSUME NEW t \in Thread, NEW v \in Lockable, Lock(t, v)  PROVE IndInv'
  <2>1. /\ v \in Var /\ at[t].pc = "run" /\ mutex[v] = Nobody
        /\ Owned(t, v) \/ Contend(t, v)
        /\ UNCHANGED <<mutex, sleepers, waiters, curLock>>
    BY <1>1, SharedAssumption DEF Lock
  <2>2. QED  BY <2>1, OwnedStep, ContendStep
<1>2. ASSUME NEW t \in Thread, Relock(t)  PROVE IndInv'
  <2>1. at[t].pc = "acquire" /\ at[t].lock \in Var
    BY <1>2, Shape DEF IndInv, Relock
  <2>2. /\ t \notin contenders[at[t].lock] /\ mutex[at[t].lock] = Nobody
        /\ Owned(t, at[t].lock) \/ Contend(t, at[t].lock)
        /\ UNCHANGED <<mutex, sleepers, waiters, curLock>>
    BY <1>2 DEF Relock
  <2>3. QED  BY <2>1, <2>2, OwnedStep, ContendStep
<1>3. ASSUME NEW p \in Pairs
      PROVE  p[1] \in Var /\ p[2] \in Var /\ <<p[1], p[2]>> \in Pairs
  BY SharedAssumption
<1>4. ASSUME NEW t \in Thread, NEW p \in Pairs, CondWait(t, p[1], p[2])  PROVE IndInv'
  BY <1>3, <1>4, CondWaitStep
<1>5. ASSUME NEW t \in Thread, NEW p \in Pairs, Signal(t, p[1]) \/ Broadcast(t, p[1])
      PROVE  IndInv'
  BY <1>3, <1>5, SignalStep, BroadcastStep
<1>6. CASE UNCHANGED vars
  <2>1. /\ UNCHANGED <<lock, mutex, contenders, waiters, curLock, scopes, at>>
        /\ sleepers' = sleepers
    BY <1>6 DEF vars
  <2>2. QED  BY <2>1, WokenStep DEF IndInv, TypeOK
<1>7. QED
  BY <1>1, <1>2, <1>4, <1>5, <1>6, ReleaseStep, TakeCondMutexStep, FallAsleepStep,
     WakeUnsignalledStep, ReacquireStep, LeaveWaitStep DEF Next

\* The invariant that the properties below follow from: who keeps which mutex
\* at which place, the agreement of the locks with the scopes of the program,
\* and the books of the conditions used with one lock.
THEOREM Invariance == Spec => []IndInv
<1>1. QED  BY InitIndInv, NextIndInv, PTL DEF Spec

\* The fields of the locks and the threads keep their types.
THEOREM TypeCorrect == Spec => []TypeOK
<1>1. IndInv => TypeOK
  BY DEF IndInv
<1>2. QED  BY <1>1, Invariance, PTL

\* A thread that sleeps on the lock of a free variable is not forgotten: another
\* one is awake and on its way to that lock.
THEOREM FreeLocksAreHandedOn == Spec => []LockHandedOn
<1>1. IndInv => LockHandedOn
  BY DEF IndInv
<1>2. QED  BY <1>1, Invariance, PTL

\* waiters and cur_lock of a condition that is used with exactly one lock tell
\* who is inside cond_wait.  Of a condition with several it says nothing: there
\* the count drifts.
THEOREM WaitersAreCounted == Spec => []WaitersCounted
<1>1. IndInv => WaitersCounted
  BY DEF IndInv
<1>2. QED  BY <1>1, Invariance, PTL

\* In a program whose pairs are in order the mutexes that cond_wait takes while
\* it keeps another never close a circle.
THEOREM MutexesStayInOrder == PairsInOrder => (Spec => []MutexOrder)
<1> SUFFICES ASSUME PairsInOrder  PROVE Spec => []MutexOrder
  OBVIOUS
<1> DEFINE several == {p \in Pairs : ~ OnlyWith(p[1], p[2])}
<1>1. ASSUME IndInv, NEW t \in Thread, NEW u \in Thread, WaitsFor(t, u),
             at[u].pc \in {"enter", "leave"}
      PROVE  at[t].cond = at[u].lock /\ <<at[u].cond, at[u].lock>> \in several
  <2>1. at[t].cond \in Var /\ at[u].cond \in Var /\ at[u].lock \in Var /\ InWait(u)
    BY <1>1, Shape DEF IndInv, WaitsFor, InWait
  <2>2. Keeps(u, at[t].cond)
    BY <1>1, <2>1 DEF IndInv, MutexesKept, WaitsFor
  <2>3. at[t].cond = at[u].lock
    BY <1>1, <2>2 DEF Keeps
  <2>4. <<at[u].cond, at[u].lock>> \in Pairs /\ at[u].multi
    BY <1>1, <2>1 DEF IndInv, WaitsOK
  <2>5. ~ OnlyWith(at[u].cond, at[u].lock)
    BY <1>1, <2>1, <2>4 DEF IndInv, UpdatesOK
  <2>6. QED  BY <2>3, <2>4, <2>5
<1>2. ASSUME IndInv, NEW S \in (SUBSET Thread) \ {{}},
             \A t \in S : \E u \in S : WaitsFor(t, u)
      PROVE  FALSE
  <2> DEFINE C == {at[t].cond : t \in S}
  <2>1. \A t \in S : t \in Thread /\ at[t].pc \in {"enter", "leave"} /\ at[t].cond \in Var
    BY <1>2, Shape DEF IndInv, WaitsFor, InWait
  <2>2. C \in (SUBSET Var) \ {{}}
    BY <2>1
  <2>3. PICK v \in C : \A c \in C : <<c, v>> \notin several
    BY <2>2 DEF PairsInOrder
  <2>4. PICK t \in S : at[t].cond = v
    BY <2>3
  <2>5. PICK u \in S : WaitsFor(t, u)
    BY <1>2
  <2>6. at[u].lock = v /\ <<at[u].cond, at[u].lock>> \in several
    BY <1>1, <1>2, <2>1, <2>4, <2>5
  <2>7. QED  BY <2>3, <2>6
<1>3. IndInv => MutexOrder
  BY <1>2 DEF MutexOrder
<1>4. QED  BY <1>3, Invariance, PTL

\* A signal sent by the thread that has the lock a waiter gave up takes some
\* thread off the wait for that condition, and a broadcast each waiter whose
\* lock the sender has: none is between giving up its lock and falling asleep.
\* Of a signal sent without that lock it says nothing.
THEOREM SignalsAreNotLost == Spec => NoSignalLost
<1> DEFINE Due(t, c) == {u \in NotSignalled(c) : lock[at[u].lock].owner = t}
           Kept(t, c) == /\ (Signal(t, c) /\ Due(t, c) # {}) => NotSignalled(c)' # NotSignalled(c)
                         /\ Broadcast(t, c) => Due(t, c) \cap NotSignalled(c)' = {}
<1>1. ASSUME IndInv, NEW t \in Thread, NEW c \in Var, NEW u \in Due(t, c)
      PROVE  u \in sleepers[c] /\ u \in Thread
  <2>1. /\ u \in Thread /\ lock[at[u].lock].owner = t
        /\ at[u].pc \in {"enter", "entering"} \/ u \in sleepers[c]
    BY <1>1 DEF NotSignalled
  <2>2. at[u].pc \notin {"enter", "entering"}
    BY <1>1, <2>1, SharedAssumption DEF IndInv, MutexesKept
  <2>3. QED  BY <2>1, <2>2
<1>2. ASSUME IndInv, NEW c \in Var, NEW u \in sleepers[c]
      PROVE  u \in NotSignalled(c) /\ at[u].pc = "waiting"
  BY <1>2 DEF IndInv, TypeOK, SleepsOK, NotSignalled, InWait
<1>3. ASSUME IndInv, NEW t \in Thread, NEW c \in Var, Signal(t, c), Due(t, c) # {}
      PROVE  NotSignalled(c)' # NotSignalled(c)
  <2>1. sleepers[c] # {}
    BY <1>1, <1>3
  <2>2. PICK S \in OneOf(sleepers[c]) : sleepers' = [sleepers EXCEPT ![c] = sleepers[c] \ S]
    BY <1>3 DEF Signal
  <2>3. PICK u \in sleepers[c] : u \in S
    BY <2>1, <2>2 DEF OneOf
  <2>4. u \notin sleepers'[c] /\ at' = at
    BY <1>3, <2>2, <2>3 DEF IndInv, TypeOK, Signal
  <2>5. u \in NotSignalled(c) /\ at[u].pc = "waiting"
    BY <1>2, <1>3, <2>3
  <2>6. u \notin NotSignalled(c)'
    BY <2>4, <2>5 DEF NotSignalled
  <2>7. QED  BY <2>5, <2>6
<1>4. ASSUME IndInv, NEW t \in Thread, NEW c \in Var, Broadcast(t, c)
      PROVE  Due(t, c) \cap NotSignalled(c)' = {}
  <2> SUFFICES ASSUME NEW u \in Due(t, c)  PROVE u \notin NotSignalled(c)'
    OBVIOUS
  <2>1. u \in sleepers[c] /\ at[u].pc = "waiting"
    BY <1>1, <1>2, <1>4
  <2>2. sleepers'[c] = {} /\ at' = at
    BY <1>4 DEF IndInv, TypeOK, Broadcast
  <2>3. QED  BY <2>1, <2>2 DEF NotSignalled
<1>5. IndInv => \A t \in Thread, c \in Var : Kept(t, c)
  BY <1>3, <1>4
<1>6. IndInv => [\A t \in Thread, c \in Var :
          LET due == {u \in NotSignalled(c) : lock[at[u].lock].owner = t}
          IN  /\ (Signal(t, c) /\ due # {}) => NotSignalled(c)' # NotSignalled(c)
              /\ Broadcast(t, c) => due \cap NotSignalled(c)' = {}]_vars
  BY <1>5
<1>7. QED  BY <1>6, Invariance, PTL DEF NoSignalLost

-----------------------------------------------------------------------------
\* The refinement of the monitor.

\* Signalled: in cond_wait, and nothing to wait for but the lock.
Woken(t) == at[t].pc \in {"waiting", "leave", "leaving"} /\ t \notin sleepers[at[t].cond]

\* What a thread is parked on, by the place it is at.
LEMMA ParkedIs ==
    ASSUME TypeOK, NEW t \in Thread
    PROVE  /\ InWait(t) => Parked[t] = [cond |-> at[t].cond, lock |-> at[t].lock, woken |-> Woken(t)]
           /\ ~ InWait(t) => Parked[t] = NoWait
<1>1. InWait(t) => ((t \notin NotSignalled(at[t].cond)) = Woken(t))
  <2>1. InWait(t) => (t \notin NotSignalled(at[t].cond) <=>
           at[t].pc \notin {"enter", "entering"} /\ t \notin sleepers[at[t].cond])
    BY DEF NotSignalled
  <2>2. InWait(t) => (at[t].pc \notin {"enter", "entering"} <=>
                         at[t].pc \in {"waiting", "leave", "leaving"})
    BY Shape DEF InWait
  <2>3. QED  BY <2>1, <2>2 DEF Woken
<1>2. InWait(t) => Parked[t] = [cond |-> at[t].cond, lock |-> at[t].lock,
                                woken |-> t \notin NotSignalled(at[t].cond)]
  BY DEF Parked
<1>3. ~ InWait(t) => Parked[t] = NoWait
  BY DEF Parked
<1>4. QED  BY <1>1, <1>2, <1>3

\* The same after a step.
LEMMA ParkedBecomes ==
    TypeOK' => \A t \in Thread :
           /\ InWait(t)' => Parked'[t] = [cond |-> at'[t].cond, lock |-> at'[t].lock, woken |-> Woken(t)']
           /\ ~ InWait(t)' => Parked'[t] = NoWait
<1> DEFINE P == \A u \in Thread :
                  /\ InWait(u) => Parked[u] = [cond |-> at[u].cond, lock |-> at[u].lock, woken |-> Woken(u)]
                  /\ ~ InWait(u) => Parked[u] = NoWait
<1>1. TypeOK => P
  BY ParkedIs
<1>2. TypeOK' => P'
  BY <1>1, PTL
<1>3. NoWait' = NoWait
  BY DEF NoWait
<1>4. QED  BY <1>2, <1>3

\* The waits of all threads stay what they are.
LEMMA ParkedStays ==
    ASSUME TypeOK, TypeOK',
           \A u \in Thread : InWait(u)' <=> InWait(u),
           \A u \in Thread : InWait(u) =>
                /\ at'[u].cond = at[u].cond /\ at'[u].lock = at[u].lock
                /\ Woken(u)' <=> Woken(u)
    PROVE  Parked' = Parked
<1>1. ASSUME NEW u \in Thread  PROVE Parked'[u] = Parked[u]
  <2>1. CASE InWait(u)
    <3>1. /\ Parked[u] = [cond |-> at[u].cond, lock |-> at[u].lock, woken |-> Woken(u)]
      BY <2>1, ParkedIs
    <3>2. InWait(u)'
      BY <2>1
    <3>3. Parked'[u] = [cond |-> at'[u].cond, lock |-> at'[u].lock, woken |-> Woken(u)']
      BY <3>2, ParkedBecomes
    <3>4. Woken(u)' = Woken(u)
      BY <2>1 DEF Woken
    <3>5. QED  BY <2>1, <3>1, <3>3, <3>4
  <2>2. CASE ~ InWait(u)
    <3>1. ~ InWait(u)'
      BY <2>2
    <3>2. Parked[u] = NoWait
      BY <2>2, ParkedIs
    <3>3. Parked'[u] = NoWait
      BY <3>1, ParkedBecomes
    <3>4. QED  BY <3>2, <3>3
  <2>3. QED  BY <2>1, <2>2
<1>2. QED  BY <1>1 DEF Parked

\* Owning the lock is holding it in the eyes of the program.
LEMMA HoldsIsOwning ==
    ASSUME IndInv, NEW t \in Thread, NEW v \in Var
    PROVE  Promise!Holds(t, v) <=> lock[v].owner = t
<1>1. v \in Promise!Locked(t) <=> Taken(t, v) # {}
  BY DEF Promise!Locked, Taken, Places
<1>2. Taken(t, v) # {} <=> Depth(t, v) # 0
  BY FS_EmptySet DEF IndInv, LocksMatchScopes
<1>3. Parked[t] = NoWait \/ Parked[t].lock # v <=> ~ Parks(t, v)
  <2>1. CASE InWait(t)
    <3>1. Parked[t] = [cond |-> at[t].cond, lock |-> at[t].lock, woken |-> Woken(t)]
      BY <2>1, ParkedIs DEF IndInv
    <3>2. at[t].cond # Nobody
      BY <2>1, Shape, SharedAssumption DEF IndInv
    <3>3. QED  BY <2>1, <3>1, <3>2 DEF NoWait, Parks
  <2>2. CASE ~ InWait(t)
    BY <2>2, ParkedIs DEF IndInv, Parks
  <2>3. QED  BY <2>1, <2>2
<1>4. ~ Parks(t, v) => (Depth(t, v) # 0 <=> lock[v].owner = t)
  BY SharedAssumption DEF IndInv, LocksMatchScopes, Depth
<1>5. Parks(t, v) => lock[v].owner # t
  BY DEF IndInv, LocksMatchScopes
<1>6. QED  BY <1>1, <1>2, <1>3, <1>4, <1>5 DEF Promise!Holds

\* A lock that is free or the thread's own is free for it.
LEMMA FreeToTake ==
    ASSUME IndInv, NEW t \in Thread, NEW v \in Var, lock[v].owner \in {t, Nobody}
    PROVE  Promise!Free(t, v)
BY HoldsIsOwning, SharedAssumption DEF Promise!Free

\* lock(): the lock is entered, or the thread only sleeps.
LEMMA OwnedEnters ==
    ASSUME IndInv, IndInv', NEW t \in Thread, NEW v \in Var, Owned(t, v),
           at[t].pc \in {"run", "acquire"}, UNCHANGED sleepers
    PROVE  Promise!Enter(t, v)
<1>1. ~ InWait(t) /\ Parked[t] = NoWait
  BY ParkedIs DEF IndInv, InWait
<1>2. Promise!Free(t, v)
  BY FreeToTake DEF Owned
<1>3. Parked' = Parked
  <2>1. at'[t] = Running /\ ~ InWait(t)' /\ \A u \in Thread \ {t} : at'[u] = at[u]
    BY DEF Owned, IndInv, TypeOK, Running, InWait
  <2>2. QED  BY <1>1, <2>1, ParkedStays DEF IndInv, InWait, Woken
<1>4. QED  BY <1>1, <1>2, <1>3 DEF Promise!Enter, Owned

LEMMA ContendStutters ==
    ASSUME IndInv, IndInv', NEW t \in Thread, NEW v \in Var, Contend(t, v),
           at[t].pc \in {"run", "acquire"}, UNCHANGED sleepers
    PROVE  UNCHANGED <<scopes, Parked>>
<1>1. ~ InWait(t)
  BY DEF InWait
<1>2. at'[t].pc = "acquire" /\ ~ InWait(t)' /\ \A u \in Thread \ {t} : at'[u] = at[u]
  BY DEF Contend, IndInv, TypeOK, InWait
<1>3. Parked' = Parked
  BY <1>1, <1>2, ParkedStays DEF IndInv, InWait, Woken
<1>4. QED  BY <1>3 DEF Contend

\* The end of a scope.
LEMMA ReleaseExits ==
    ASSUME IndInv, IndInv', NEW t \in Thread, Release(t)
    PROVE  Promise!Exit(t)
<1>1. ~ InWait(t) /\ Parked[t] = NoWait
  BY ParkedIs DEF IndInv, InWait, Release
<1>2. Parked' = Parked
  BY ParkedStays DEF IndInv, InWait, Woken, Release
<1>3. QED  BY <1>1, <1>2 DEF Promise!Exit, Release

\* Giving up the lock and beginning to wait are one step of the promise.
LEMMA CondWaitParks ==
    ASSUME IndInv, IndInv', NEW t \in Thread, NEW c \in Var, NEW v \in Var, CondWait(t, c, v)
    PROVE  Promise!Park(t, c, v)
<1>1. ~ InWait(t) /\ Parked[t] = NoWait
  BY ParkedIs DEF IndInv, InWait, CondWait
<1>2. Promise!Holds(t, v)
  BY HoldsIsOwning DEF CondWait
<1>3. /\ \A u \in Thread \ {t} : at'[u] = at[u]
      /\ at'[t].pc \in {"enter", "entering"} /\ at'[t].cond = c /\ at'[t].lock = v
      /\ UNCHANGED <<sleepers, scopes>>
  BY DEF CondWait, IndInv, TypeOK
<1>4. Parked'[t] = [cond |-> c, lock |-> v, woken |-> FALSE]
  <2>1. InWait(t)' /\ Woken(t)' = FALSE
    BY <1>3 DEF InWait, Woken
  <2>2. Parked'[t] = [cond |-> at'[t].cond, lock |-> at'[t].lock, woken |-> Woken(t)']
    BY <2>1, ParkedBecomes DEF IndInv
  <2>3. QED  BY <1>3, <2>1, <2>2
<1>5. ASSUME NEW u \in Thread \ {t}  PROVE Parked'[u] = Parked[u]
  <2>1. at'[u] = at[u] /\ (InWait(u)' <=> InWait(u)) /\ Woken(u)' = Woken(u)
    BY <1>3 DEF InWait, Woken
  <2>2. CASE InWait(u)
    <3>1. Parked[u] = [cond |-> at[u].cond, lock |-> at[u].lock, woken |-> Woken(u)]
      BY <2>2, ParkedIs DEF IndInv
    <3>2. Parked'[u] = [cond |-> at'[u].cond, lock |-> at'[u].lock, woken |-> Woken(u)']
      BY <2>1, <2>2, ParkedBecomes DEF IndInv
    <3>3. QED  BY <2>1, <3>1, <3>2
  <2>3. CASE ~ InWait(u)
    <3>1. Parked[u] = NoWait /\ Parked'[u] = NoWait
      BY <2>1, <2>3, ParkedIs, ParkedBecomes DEF IndInv
    <3>2. QED  BY <3>1
  <2>4. QED  BY <2>2, <2>3
<1>6. Parked' = [Parked EXCEPT ![t] = [cond |-> c, lock |-> v, woken |-> FALSE]]
  <2> DEFINE w == [cond |-> c, lock |-> v, woken |-> FALSE]
  <2> HIDE DEF w
  <2>1. \A u \in Thread : Parked'[u] = [Parked EXCEPT ![t] = w][u]
    BY <1>4, <1>5 DEF Parked, w
  <2>2. QED  BY <2>1 DEF Parked, w
<1>7. QED  BY <1>1, <1>2, <1>3, <1>6 DEF Promise!Park

\* The steps of cond_wait on its C structures are not seen by the program.
LEMMA InnerStutters ==
    ASSUME IndInv, IndInv', NEW t \in Thread,
           TakeCondMutex(t) \/ FallAsleep(t) \/ Reacquire(t)
    PROVE  UNCHANGED <<scopes, Parked>>
<1>1. TypeOK /\ TypeOK'
  BY DEF IndInv
<1>2. scopes' = scopes
  BY DEF TakeCondMutex, FallAsleep, Reacquire
<1>3. ASSUME NEW p \in {"enter", "entering", "waiting", "leave", "leaving"}, NEW n \in Int,
             InWait(t), MovesTo(t, p, n),
             Woken(t)' <=> Woken(t),
             \A u \in Thread \ {t} : InWait(u) => Woken(u)' <=> Woken(u)
      PROVE  Parked' = Parked
  <2>1. /\ \A u \in Thread \ {t} : at'[u] = at[u]
        /\ at'[t].cond = at[t].cond /\ at'[t].lock = at[t].lock /\ InWait(t)'
    BY <1>1, <1>3, MovedOn
  <2>2. \A u \in Thread : InWait(u)' <=> InWait(u)
    BY <1>3, <2>1 DEF InWait
  <2>3. QED  BY <1>1, <1>3, <2>1, <2>2, ParkedStays
<1>4. ASSUME NEW p \in {"enter", "entering", "waiting", "leave", "leaving"}, NEW n \in Int,
             InWait(t), MovesTo(t, p, n)
      PROVE  /\ at'[t].pc = p /\ at'[t].cond = at[t].cond
             /\ \A u \in Thread \ {t} : at'[u] = at[u]
  BY <1>1, <1>4, MovedOn
<1>5. ASSUME TakeCondMutex(t)  PROVE Parked' = Parked
  <2> DEFINE p == IF at[t].pc = "enter" THEN "entering" ELSE "leaving"
             n == waiters[at[t].cond]
  <2>1. InWait(t) /\ n \in Int /\ at[t].pc \in {"enter", "leave"} /\ sleepers' = sleepers
    BY <1>1, <1>5, Shape DEF TakeCondMutex, InWait, TypeOK
  <2>2. MovesTo(t, p, n)
    BY <1>5 DEF TakeCondMutex, MovesTo
  <2>3. p \in {"enter", "entering", "waiting", "leave", "leaving"}
        /\ (p = "leaving" <=> at[t].pc = "leave") /\ p \in {"entering", "leaving"}
    BY <2>1
  <2> HIDE DEF p, n
  <2>4. at'[t].pc = p /\ at'[t].cond = at[t].cond /\ \A u \in Thread \ {t} : at'[u] = at[u]
    BY <1>4, <2>1, <2>2, <2>3
  <2>5. \A u \in Thread : Woken(u)' <=> Woken(u)
    BY <2>1, <2>3, <2>4 DEF Woken
  <2>6. QED  BY <1>3, <2>1, <2>2, <2>3, <2>5
<1>6. ASSUME FallAsleep(t)  PROVE Parked' = Parked
  <2> DEFINE c == at[t].cond
  <2>1. InWait(t) /\ at[t].pc = "entering" /\ c \in Var
    BY <1>1, <1>6, Shape DEF FallAsleep, InWait
  <2>2. MovesTo(t, "waiting", 0)
    BY <1>6 DEF FallAsleep, MovesTo
  <2>3. "waiting" \in {"enter", "entering", "waiting", "leave", "leaving"} /\ 0 \in Int
    OBVIOUS
  <2>4. at'[t].pc = "waiting" /\ at'[t].cond = c /\ \A u \in Thread \ {t} : at'[u] = at[u]
    BY <1>4, <2>1, <2>2, <2>3
  <2>5. \A d \in Var : sleepers'[d] = IF d = c THEN sleepers[c] \cup {t} ELSE sleepers[d]
    BY <1>1, <1>6 DEF FallAsleep, TypeOK
  <2>6. ~ Woken(t) /\ ~ Woken(t)'
    BY <2>1, <2>4, <2>5 DEF Woken
  <2>7. ASSUME NEW u \in Thread \ {t}, InWait(u)  PROVE Woken(u)' <=> Woken(u)
    <3>1. at[u].cond \in Var
      BY <1>1, <2>7, Shape
    <3>2. QED  BY <2>4, <2>5, <3>1 DEF Woken
  <2>8. QED  BY <1>3, <2>1, <2>2, <2>3, <2>6, <2>7
<1>7. ASSUME Reacquire(t)  PROVE Parked' = Parked
  <2>1. InWait(t) /\ at[t].pc = "waiting" /\ sleepers' = sleepers
        /\ t \notin sleepers[at[t].cond]
    BY <1>7 DEF Reacquire, InWait
  <2>2. CASE at' = at
    BY <1>1, <2>1, <2>2, ParkedStays DEF InWait, Woken
  <2>3. CASE at' # at
    <3> DEFINE p == IF at[t].multi THEN "leave" ELSE "leaving"
               n == waiters[at[t].cond]
    <3>1. MovesTo(t, p, n)
      BY <1>7, <2>3 DEF Reacquire, MovesTo
    <3>2. n \in Int /\ p \in {"leave", "leaving"}
          /\ p \in {"enter", "entering", "waiting", "leave", "leaving"}
      BY <1>1, <2>1, Shape DEF TypeOK
    <3> HIDE DEF p, n
    <3>3. at'[t].pc = p /\ at'[t].cond = at[t].cond /\ \A u \in Thread \ {t} : at'[u] = at[u]
      BY <1>4, <2>1, <3>1, <3>2
    <3>4. \A u \in Thread : Woken(u)' <=> Woken(u)
      BY <2>1, <3>2, <3>3 DEF Woken
    <3>5. QED  BY <1>3, <2>1, <3>1, <3>2, <3>4
  <2>4. QED  BY <2>2, <2>3
<1>8. QED  BY <1>2, <1>5, <1>6, <1>7

\* Sleepers of a condition that leave it have been woken.
LEMMA WokenWakes ==
    ASSUME IndInv, IndInv', NEW c \in Var, NEW S \in SUBSET sleepers[c],
           sleepers' = [sleepers EXCEPT ![c] = sleepers[c] \ S],
           UNCHANGED <<lock, mutex, contenders, waiters, curLock, scopes, at>>
    PROVE  S \in SUBSET Thread /\ Promise!Wake(S)
<1>1. TypeOK /\ TypeOK'
  BY DEF IndInv
<1>2. \A t \in S : /\ t \in Thread /\ at[t].pc = "waiting" /\ at[t].cond = c
                   /\ InWait(t) /\ t \in sleepers[c]
  BY <1>1 DEF IndInv, TypeOK, SleepsOK, InWait
<1>3. \A t \in S : /\ Parked[t] = [cond |-> at[t].cond, lock |-> at[t].lock, woken |-> FALSE]
                   /\ Parked'[t] = [cond |-> at[t].cond, lock |-> at[t].lock, woken |-> TRUE]
  <2> SUFFICES ASSUME NEW t \in S
               PROVE  /\ Parked[t] = [cond |-> at[t].cond, lock |-> at[t].lock, woken |-> FALSE]
                      /\ Parked'[t] = [cond |-> at[t].cond, lock |-> at[t].lock, woken |-> TRUE]
    OBVIOUS
  <2>1. t \in Thread /\ InWait(t) /\ InWait(t)' /\ at'[t] = at[t]
    BY <1>2 DEF InWait
  <2>2. Woken(t) = FALSE /\ Woken(t)' = TRUE
    BY <1>1, <1>2, <2>1 DEF Woken, TypeOK
  <2>3. Parked[t] = [cond |-> at[t].cond, lock |-> at[t].lock, woken |-> Woken(t)]
    BY <1>1, <2>1, ParkedIs
  <2>4. Parked'[t] = [cond |-> at'[t].cond, lock |-> at'[t].lock, woken |-> Woken(t)']
    BY <1>1, <2>1, ParkedBecomes
  <2>5. QED  BY <2>1, <2>2, <2>3, <2>4
<1>4. \A t \in S : Parked[t] # NoWait
  <2> SUFFICES ASSUME NEW t \in S  PROVE Parked[t] # NoWait
    OBVIOUS
  <2> DEFINE w == [cond |-> at[t].cond, lock |-> at[t].lock, woken |-> FALSE]
  <2>1. Parked[t] = w /\ at[t].cond = c /\ c # Nobody
    BY <1>2, <1>3, SharedAssumption
  <2>2. w.cond = at[t].cond /\ NoWait.cond = Nobody
    BY DEF NoWait
  <2> HIDE DEF w
  <2>3. QED  BY <2>1, <2>2
<1>5. ASSUME NEW t \in Thread \ S  PROVE Parked'[t] = Parked[t]
  <2>1. /\ t \in Thread /\ at'[t] = at[t] /\ (InWait(t)' <=> InWait(t))
    BY DEF InWait
  <2>2. CASE InWait(t)
    <3>1. Woken(t)' = Woken(t)
      <4>1. at[t].cond \in Var
        BY <1>1, <2>2, Shape
      <4>2. t \in sleepers'[at[t].cond] <=> t \in sleepers[at[t].cond]
        BY <1>1, <1>5, <4>1 DEF TypeOK
      <4>3. QED  BY <2>1, <4>2 DEF Woken
    <3>2. Parked[t] = [cond |-> at[t].cond, lock |-> at[t].lock, woken |-> Woken(t)]
      BY <1>1, <2>2, ParkedIs
    <3>3. Parked'[t] = [cond |-> at'[t].cond, lock |-> at'[t].lock, woken |-> Woken(t)']
      BY <1>1, <2>1, <2>2, ParkedBecomes
    <3>4. QED  BY <2>1, <3>1, <3>2, <3>3
  <2>3. CASE ~ InWait(t)
    BY <1>1, <2>1, <2>3, ParkedIs, ParkedBecomes
  <2>4. QED  BY <2>2, <2>3
<1>6. Parked' = [t \in Thread |-> IF t \in S THEN [Parked[t] EXCEPT !.woken = TRUE] ELSE Parked[t]]
  <2>1. ASSUME NEW t \in S  PROVE Parked'[t] = [Parked[t] EXCEPT !.woken = TRUE]
    <3> DEFINE no == FALSE
               yes == TRUE
    <3>1. /\ Parked[t] = [cond |-> at[t].cond, lock |-> at[t].lock, woken |-> no]
          /\ Parked'[t] = [cond |-> at[t].cond, lock |-> at[t].lock, woken |-> yes]
      BY <1>3
    <3> HIDE DEF no, yes
    <3>2. Parked'[t] = [Parked[t] EXCEPT !.woken = yes]
      BY <3>1
    <3>3. QED  BY <3>2 DEF yes
  <2>2. \A t \in Thread : Parked'[t] = IF t \in S THEN [Parked[t] EXCEPT !.woken = TRUE] ELSE Parked[t]
    BY <1>5, <2>1
  <2>3. Parked' = [t \in Thread |-> Parked'[t]]
    BY DEF Parked
  <2>4. QED  BY <2>2, <2>3
<1>7. QED  BY <1>2, <1>4, <1>6 DEF Promise!Wake

\* The wait is over when the lock is back.
LEMMA LeaveWaitResumes ==
    ASSUME IndInv, IndInv', NEW t \in Thread, LeaveWait(t)
    PROVE  Promise!Resume(t)
<1>1. TypeOK /\ TypeOK'
  BY DEF IndInv
<1>2. /\ at[t].pc = "leaving" /\ InWait(t) /\ at[t].cond \in Var /\ at[t].lock \in Var
      /\ UNCHANGED <<scopes, sleepers>>
  BY <1>1, Shape DEF LeaveWait, InWait
<1>3. /\ at'[t].pc = "run" /\ ~ InWait(t)' /\ \A u \in Thread \ {t} : at'[u] = at[u]
  BY <1>1 DEF LeaveWait, TypeOK, Running, InWait
<1>4. Parked[t] = [cond |-> at[t].cond, lock |-> at[t].lock, woken |-> TRUE]
  <2>1. Woken(t) = TRUE
    BY <1>2 DEF IndInv, SleepsOK, Woken
  <2>2. Parked[t] = [cond |-> at[t].cond, lock |-> at[t].lock, woken |-> Woken(t)]
    BY <1>1, <1>2, ParkedIs
  <2>3. QED  BY <2>1, <2>2
<1>5. Parked[t] # NoWait
  <2>1. Parked[t].cond # Nobody
    BY <1>2, <1>4, SharedAssumption
  <2>2. QED  BY <2>1 DEF NoWait
<1>6. Promise!Free(t, Parked[t].lock)
  <2>1. lock[at[t].lock].owner = Nobody
    BY <1>2 DEF IndInv, MutexesKept
  <2>2. QED  BY <1>2, <1>4, <2>1, FreeToTake
<1>7. Parked'[t] = NoWait
  BY <1>1, <1>3, ParkedBecomes
<1>8. ASSUME NEW u \in Thread \ {t}  PROVE Parked'[u] = Parked[u]
  <2>1. at'[u] = at[u] /\ (InWait(u)' <=> InWait(u)) /\ Woken(u)' = Woken(u)
    BY <1>2, <1>3 DEF InWait, Woken
  <2>2. CASE InWait(u)
    <3>1. Parked[u] = [cond |-> at[u].cond, lock |-> at[u].lock, woken |-> Woken(u)]
      BY <1>1, <2>2, ParkedIs
    <3>2. Parked'[u] = [cond |-> at'[u].cond, lock |-> at'[u].lock, woken |-> Woken(u)']
      BY <1>1, <2>1, <2>2, ParkedBecomes
    <3>3. QED  BY <2>1, <3>1, <3>2
  <2>3. CASE ~ InWait(u)
    BY <1>1, <2>1, <2>3, ParkedIs, ParkedBecomes
  <2>4. QED  BY <2>2, <2>3
<1>9. Parked' = [Parked EXCEPT ![t] = NoWait]
  <2>1. \A u \in Thread : Parked'[u] = IF u = t THEN NoWait ELSE Parked[u]
    BY <1>7, <1>8
  <2>2. Parked' = [u \in Thread |-> Parked'[u]] /\ Parked = [u \in Thread |-> Parked[u]]
    BY DEF Parked
  <2>3. QED  BY <2>1, <2>2
<1>10. QED  BY <1>2, <1>4, <1>5, <1>6, <1>9 DEF Promise!Resume

\* Every step of the C structures is a step of the monitor or none.
LEMMA NextImplements ==
    ASSUME IndInv, IndInv', [Next]_vars
    PROVE  [Promise!Next]_(Promise!vars)
<1>1. ASSUME NEW t \in Thread, NEW v \in Var, UNCHANGED sleepers,
             at[t].pc \in {"run", "acquire"}, Owned(t, v) \/ Contend(t, v)
      PROVE  [Promise!Next]_(Promise!vars)
  BY <1>1, OwnedEnters, ContendStutters DEF Promise!Next, Promise!vars
<1>2. ASSUME NEW t \in Thread, NEW v \in Lockable, Lock(t, v)
      PROVE  [Promise!Next]_(Promise!vars)
  BY <1>1, <1>2, SharedAssumption DEF Lock
<1>3. ASSUME NEW t \in Thread, Relock(t)  PROVE [Promise!Next]_(Promise!vars)
  <2>1. at[t].pc = "acquire" /\ at[t].lock \in Var
    BY <1>3, Shape DEF IndInv, Relock
  <2>2. Owned(t, at[t].lock) \/ Contend(t, at[t].lock)
    BY <1>3 DEF Relock
  <2>3. QED  BY <1>1, <1>3, <2>1, <2>2 DEF Relock
<1>4. ASSUME NEW t \in Thread, Release(t)  PROVE [Promise!Next]_(Promise!vars)
  BY <1>4, ReleaseExits DEF Promise!Next
<1>5. \A p \in Pairs : p[1] \in Var /\ p[2] \in Var
  BY SharedAssumption
<1>6. ASSUME NEW t \in Thread, NEW p \in Pairs, CondWait(t, p[1], p[2])
      PROVE  [Promise!Next]_(Promise!vars)
  BY <1>5, <1>6, CondWaitParks DEF Promise!Next
<1>7. ASSUME NEW t \in Thread, TakeCondMutex(t) \/ FallAsleep(t) \/ Reacquire(t)
      PROVE  [Promise!Next]_(Promise!vars)
  BY <1>7, InnerStutters DEF Promise!vars
<1>8. ASSUME NEW t \in Thread, WakeUnsignalled(t)  PROVE [Promise!Next]_(Promise!vars)
  <2>1. at[t].cond \in Var
    BY <1>8, Shape DEF IndInv, WakeUnsignalled, InWait
  <2>2. /\ {t} \in SUBSET sleepers[at[t].cond]
        /\ sleepers' = [sleepers EXCEPT ![at[t].cond] = sleepers[at[t].cond] \ {t}]
        /\ UNCHANGED <<lock, mutex, contenders, waiters, curLock, scopes, at>>
    BY <1>8 DEF WakeUnsignalled
  <2>3. QED  BY <2>1, <2>2, WokenWakes DEF Promise!Next
<1>9. ASSUME NEW t \in Thread, NEW c \in Var, Signal(t, c)
      PROVE  [Promise!Next]_(Promise!vars)
  <2>1. PICK S \in OneOf(sleepers[c]) : sleepers' = [sleepers EXCEPT ![c] = sleepers[c] \ S]
    BY <1>9 DEF Signal
  <2>2. S \in SUBSET sleepers[c]
    BY DEF OneOf
  <2>3. UNCHANGED <<lock, mutex, contenders, waiters, curLock, scopes, at>>
    BY <1>9 DEF Signal
  <2>4. QED  BY <2>1, <2>2, <2>3, WokenWakes DEF Promise!Next
<1>10. ASSUME NEW t \in Thread, NEW c \in Var, Broadcast(t, c)
       PROVE  [Promise!Next]_(Promise!vars)
  <2>1. sleepers' = [sleepers EXCEPT ![c] = sleepers[c] \ sleepers[c]]
    BY <1>10 DEF Broadcast
  <2>2. UNCHANGED <<lock, mutex, contenders, waiters, curLock, scopes, at>>
    BY <1>10 DEF Broadcast
  <2>3. QED  BY <2>1, <2>2, WokenWakes DEF Promise!Next
<1>11. ASSUME NEW t \in Thread, LeaveWait(t)  PROVE [Promise!Next]_(Promise!vars)
  BY <1>11, LeaveWaitResumes DEF Promise!Next
<1>12. CASE UNCHANGED vars
  <2>1. scopes' = scopes /\ at' = at /\ sleepers' = sleepers
    BY <1>12 DEF vars
  <2>2. Parked' = Parked
    BY <2>1 DEF Parked, InWait, NotSignalled, NoWait
  <2>3. QED  BY <2>1, <2>2 DEF Promise!vars
<1>13. QED
  BY <1>2, <1>3, <1>4, <1>5, <1>6, <1>7, <1>8, <1>9, <1>10, <1>11, <1>12 DEF Next

\* The recursive locks, conditions and counters of shared.xs give the program
\* the monitor the documentation of threads::shared describes.
THEOREM LocksImplementMonitor == Spec => ImplementsMonitor
<1>1. Init => Promise!Init
  BY DEF Init, Promise!Init, Parked, InWait, Running
<1>2. IndInv /\ IndInv' /\ [Next]_vars => [Promise!Next]_(Promise!vars)
  BY NextImplements
<1>3. QED  BY <1>1, <1>2, Invariance, PTL DEF Spec, ImplementsMonitor, Promise!Spec

\* Two threads never hold the lock of one variable, whatever cond_wait resets
\* and restores.
THEOREM LocksExclude == Spec => []Promise!MutualExclusion
<1>1. IndInv => Promise!MutualExclusion
  BY HoldsIsOwning DEF Promise!MutualExclusion
<1>2. QED  BY <1>1, Invariance, PTL
=============================================================================
