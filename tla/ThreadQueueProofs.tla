--------------------------- MODULE ThreadQueueProofs ---------------------------
(***************************************************************************)
(* When one condition and one signal are enough for Thread::Queue: for any *)
(* number of threads, if each consumer asks for one item at a time, and    *)
(* there is either no limit, or one that leaves room for an item of each   *)
(* producer and each consumer while producers add single items, all of     *)
(* which can be shared.                                                    *)
(***************************************************************************)
EXTENDS ThreadQueueProperties, Integers, FiniteSetTheorems, TLAPS

\* Consumers ask for single items.
Singly == Counts \subseteq {1}

\* A program that sets a limit that leaves room for all sets that one only.
RoomIsKept == \A n \in NewLimits : RoomFor(n) => Limits \cup NewLimits \subseteq {0, n}

Adding(t) == call[t].method = "enqueue"
Taking(t) == call[t].method \in {"dequeue", "dequeue_timed", "expired"}

AwakeAdders == {t \in Thread : Awake(t) /\ Adding(t)}
AwakeTakers == {t \in Thread : Awake(t) /\ Taking(t)}
SleepingAdders == {t \in asleep : Adding(t)}
SleepingTakers == {t \in asleep : Taking(t)}

\* A producer is in a call only if it has found the queue full.
CallsOK ==
    \A t \in Thread :
        /\ Adding(t) => t \in Producer /\ call[t].n \in {0, 1} /\ limit > 0
        /\ Taking(t) => t \in Consumer /\ call[t].n = 1
        /\ call[t].method = "expired" => t \notin asleep

\* While a consumer sleeps, no producer does, and there is a consumer on its
\* way to the items; if they come singly, to each of them.
TakersServed ==
    SleepingTakers # {} =>
        /\ SleepingAdders = {}
        /\ items > 0 \/ ended => AwakeTakers # {}
        /\ Batches \subseteq {0, 1} => items <= Cardinality(AwakeTakers)

\* While a producer sleeps, there is one on its way to each free place.
AddersServed == SleepingAdders # {} => limit <= items + Cardinality(AwakeAdders)

QueueInv ==
    /\ TypeOK
    /\ RoomFor(limit)
    /\ CallsOK
    /\ TakersServed
    /\ AddersServed

-----------------------------------------------------------------------------
\* Who is where.

LEMMA Groups ==
    ASSUME QueueInv
    PROVE  /\ items \in Nat /\ limit \in Nat /\ ended \in BOOLEAN
           /\ call \in [Thread -> Blocking \cup {NoCall}] /\ asleep \subseteq Thread
           /\ \A t \in Thread : ~ (Adding(t) /\ Taking(t))
           /\ \A t \in Thread : Idle(t) <=> ~ Adding(t) /\ ~ Taking(t)
           /\ \A t \in asleep : Adding(t) \/ Taking(t)
           /\ limit > 0 => /\ Batches \subseteq {0, 1} /\ ~ Unshareable
                           /\ Cardinality(Producer) <= limit
                           /\ Cardinality(Consumer) <= limit
<1>1. \A t \in Thread : call[t] \in Blocking \cup {NoCall}
  BY DEF QueueInv, TypeOK
<1>2. \A t \in Thread : Idle(t) <=> ~ Adding(t) /\ ~ Taking(t)
  BY <1>1 DEF Idle, NoCall, Blocking, Adding, Taking
<1>3. QED
  BY <1>2 DEF QueueInv, TypeOK, RoomFor, Adding, Taking

LEMMA FiniteGroups ==
    ASSUME QueueInv
    PROVE  /\ IsFiniteSet(Producer) /\ IsFiniteSet(Consumer)
           /\ IsFiniteSet(AwakeAdders) /\ IsFiniteSet(AwakeTakers)
           /\ Cardinality(AwakeAdders) \in Nat /\ Cardinality(AwakeTakers) \in Nat
           /\ AwakeAdders = {} <=> Cardinality(AwakeAdders) = 0
           /\ AwakeTakers = {} <=> Cardinality(AwakeTakers) = 0
<1>1. /\ Producer \subseteq Thread /\ Consumer \subseteq Thread
      /\ AwakeAdders \subseteq Thread /\ AwakeTakers \subseteq Thread
  BY QueueAssumption DEF AwakeAdders, AwakeTakers
<1>2. /\ IsFiniteSet(Producer) /\ IsFiniteSet(Consumer)
      /\ IsFiniteSet(AwakeAdders) /\ IsFiniteSet(AwakeTakers)
  BY <1>1, QueueAssumption, FS_Subset
<1>3. QED  BY <1>2, FS_CardinalityType, FS_EmptySet

\* Someone sleeps, so those of a kind who are awake are fewer than all of it.
LEMMA Fewer ==
    ASSUME QueueInv
    PROVE  /\ SleepingAdders # {} => Cardinality(AwakeAdders) < Cardinality(Producer)
           /\ SleepingTakers # {} => Cardinality(AwakeTakers) < Cardinality(Consumer)
<1>1. ASSUME NEW t \in SleepingAdders PROVE Cardinality(AwakeAdders) < Cardinality(Producer)
  <2>1. AwakeAdders \subseteq Producer /\ t \in Producer /\ t \notin AwakeAdders
    BY <1>1, Groups DEF QueueInv, CallsOK, AwakeAdders, SleepingAdders, Awake
  <2>2. AwakeAdders # Producer
    BY <2>1
  <2>3. QED  BY <2>1, <2>2, FiniteGroups, FS_Subset, FS_CardinalityType
<1>2. ASSUME NEW t \in SleepingTakers PROVE Cardinality(AwakeTakers) < Cardinality(Consumer)
  <2>1. AwakeTakers \subseteq Consumer /\ t \in Consumer /\ t \notin AwakeTakers
    BY <1>2, Groups DEF QueueInv, CallsOK, AwakeTakers, SleepingTakers, Awake
  <2>2. AwakeTakers # Consumer
    BY <2>1
  <2>3. QED  BY <2>1, <2>2, FiniteGroups, FS_Subset, FS_CardinalityType
<1>3. QED  BY <1>1, <1>2

\* A queue that is full keeps no consumer asleep, and an empty one no producer.
LEMMA Boundaries ==
    ASSUME QueueInv
    PROVE  /\ Full => SleepingTakers = {}
           /\ items = 0 => SleepingAdders = {}
<1>1. ASSUME Full, SleepingTakers # {} PROVE FALSE
  <2>1. limit > 0 /\ items >= limit /\ items <= Cardinality(AwakeTakers)
    BY <1>1, Groups DEF Full, QueueInv, TakersServed
  <2>2. Cardinality(Consumer) <= limit /\ Cardinality(Consumer) \in Nat
    BY <2>1, Groups, FiniteGroups, FS_CardinalityType
  <2>3. QED  BY <1>1, <2>1, <2>2, Fewer, Groups, FiniteGroups
<1>2. ASSUME items = 0, SleepingAdders # {} PROVE FALSE
  <2>1. limit > 0 /\ limit <= Cardinality(AwakeAdders)
    <3>1. limit > 0
      BY <1>2, Groups DEF QueueInv, CallsOK, SleepingAdders
    <3>2. QED  BY <1>2, <3>1, FiniteGroups DEF QueueInv, AddersServed
  <2>2. Cardinality(Producer) <= limit /\ Cardinality(Producer) \in Nat
    BY <2>1, Groups, FiniteGroups, FS_CardinalityType
  <2>3. QED  BY <1>2, <2>1, <2>2, Fewer, Groups, FiniteGroups
<1>3. QED  BY <1>1, <1>2

-----------------------------------------------------------------------------
\* How a step moves a thread.

LEMMA InitHolds ==
    ASSUME Init, RoomFor(limit)
    PROVE  QueueInv
<1>1. TypeOK
  BY QueueAssumption DEF Init, TypeOK
<1>2. CallsOK
  BY DEF Init, CallsOK, NoCall, Adding, Taking
<1>3. SleepingAdders = {} /\ SleepingTakers = {}
  BY DEF Init, SleepingAdders, SleepingTakers
<1>4. QED  BY <1>1, <1>2, <1>3 DEF QueueInv, TakersServed, AddersServed

\* A limit that is not changed leaves the room it left.
LEMMA LimitKept ==
    ASSUME QueueInv, limit' = limit
    PROVE  RoomFor(limit)'
BY DEF QueueInv

\* A producer goes to sleep before a full queue.
LEMMA AdderSleeps ==
    ASSUME QueueInv, NEW t \in Producer, t \notin asleep, NEW n \in {0, 1}, Full,
           Sleep(t, "enqueue", n)
    PROVE  QueueInv'
<1>1. /\ asleep' = asleep \cup {t} /\ call' = [call EXCEPT ![t] = [method |-> "enqueue", n |-> n]]
      /\ UNCHANGED <<items, limit, ended>> /\ t \in Thread
  BY QueueAssumption DEF Sleep
<1>2. call'[t].method = "enqueue" /\ call'[t].n = n /\ \A u \in Thread : u # t => call'[u] = call[u]
  BY <1>1, Groups
<1>3. TypeOK'
  <2>1. call' \in [Thread -> Blocking \cup {NoCall}]
    BY <1>1, Groups DEF Blocking
  <2>2. \A u \in Thread : u \in asleep' => call'[u] # NoCall
    BY <1>1, <1>2 DEF QueueInv, TypeOK, Idle, NoCall
  <2>3. QED  BY <1>1, <2>1, <2>2, Groups DEF TypeOK, Idle
<1>4. CallsOK'
  BY <1>1, <1>2, Groups DEF QueueInv, CallsOK, Adding, Taking, Full
<1>5. SleepingTakers' = {}
  <2>1. SleepingTakers = {}
    BY Boundaries
  <2>2. QED  BY <1>1, <1>2, <2>1, Groups DEF SleepingTakers, Taking
<1>6. limit' <= items' + Cardinality(AwakeAdders')
  <2>1. AwakeAdders' \subseteq Thread
    BY DEF AwakeAdders
  <2>2. Cardinality(AwakeAdders') \in Nat
    BY <2>1, QueueAssumption, FS_Subset, FS_CardinalityType
  <2>3. QED  BY <1>1, <2>2, Groups DEF Full
<1>7. QED
  BY <1>1, <1>3, <1>4, <1>5, <1>6, LimitKept DEF QueueInv, TakersServed, AddersServed

\* A consumer goes to sleep before an empty queue.
LEMMA TakerSleeps ==
    ASSUME QueueInv, NEW t \in Consumer, t \notin asleep, items = 0, ~ ended,
           NEW m \in {"dequeue", "dequeue_timed"}, Sleep(t, m, 1)
    PROVE  QueueInv'
<1>1. /\ asleep' = asleep \cup {t} /\ call' = [call EXCEPT ![t] = [method |-> m, n |-> 1]]
      /\ UNCHANGED <<items, limit, ended>> /\ t \in Thread
  BY QueueAssumption DEF Sleep
<1>2. call'[t].method = m /\ call'[t].n = 1 /\ \A u \in Thread : u # t => call'[u] = call[u]
  BY <1>1, Groups
<1>3. TypeOK'
  <2>1. call' \in [Thread -> Blocking \cup {NoCall}]
    BY <1>1, Groups DEF Blocking
  <2>2. \A u \in Thread : u \in asleep' => call'[u] # NoCall
    BY <1>1, <1>2 DEF QueueInv, TypeOK, Idle, NoCall
  <2>3. QED  BY <1>1, <2>1, <2>2, Groups DEF TypeOK, Idle
<1>4. CallsOK'
  BY <1>1, <1>2, Groups DEF QueueInv, CallsOK, Adding, Taking
<1>5. SleepingAdders' = {}
  <2>1. SleepingAdders = {}
    BY Boundaries
  <2>2. QED  BY <1>1, <1>2, <2>1, Groups DEF SleepingAdders, Adding
<1>6. Cardinality(AwakeTakers') \in Nat
  <2>1. AwakeTakers' \subseteq Thread
    BY DEF AwakeTakers
  <2>2. QED  BY <2>1, QueueAssumption, FS_Subset, FS_CardinalityType
<1>7. QED
  BY <1>1, <1>3, <1>4, <1>5, <1>6, LimitKept DEF QueueInv, TakersServed, AddersServed

\* A thread is done, and signals the condition if there may be a use for it.
Done(t) ==
    /\ t \notin asleep
    /\ call' = [call EXCEPT ![t] = NoCall]
    /\ limit' = limit
    /\ items' \in Nat /\ ended' \in BOOLEAN
    /\ Batches \subseteq {0, 1} => items' <= items + 1
    /\ Taking(t) => items' <= items
    /\ Taking(t) => items' < items \/ items' = 0
    /\ Adding(t) => items <= items'
    /\ items <= items' + 1
    /\ \/ CondSignal
       \/ items' = items /\ ended' = ended /\ asleep' = asleep /\ (Idle(t) \/ (items = 0 /\ Adding(t)))

LEMMA DoneFacts ==
    ASSUME QueueInv, NEW t \in Thread, Done(t), asleep' \subseteq asleep
    PROVE  /\ TypeOK' /\ CallsOK'
           /\ \A u \in Thread : u # t => (Adding(u)' <=> Adding(u)) /\ (Taking(u)' <=> Taking(u))
           /\ ~ Adding(t)' /\ ~ Taking(t)' /\ Idle(t)'
           /\ SleepingAdders' = SleepingAdders \cap asleep'
           /\ SleepingTakers' = SleepingTakers \cap asleep'
           /\ RoomFor(limit)'
<1>1. call'[t] = NoCall /\ \A u \in Thread : u # t => call'[u] = call[u]
  BY Groups DEF Done
<1>2. /\ \A u \in Thread : u # t => (Adding(u)' <=> Adding(u)) /\ (Taking(u)' <=> Taking(u))
      /\ ~ Adding(t)' /\ ~ Taking(t)' /\ Idle(t)'
  BY <1>1 DEF Adding, Taking, Idle, NoCall
<1>3. t \notin asleep /\ asleep \subseteq Thread
  BY Groups DEF Done
<1>4. TypeOK'
  <2>1. call' \in [Thread -> Blocking \cup {NoCall}]
    BY Groups DEF Done
  <2>2. \A u \in Thread : u \in asleep' => call'[u] # NoCall
    BY <1>1, <1>3 DEF QueueInv, TypeOK, Idle
  <2>3. QED  BY <1>3, <2>1, <2>2, Groups DEF TypeOK, Idle, Done
<1>5. CallsOK'
  BY <1>1, <1>2 DEF QueueInv, CallsOK, Adding, Taking, Done
<1>6. /\ SleepingAdders' = SleepingAdders \cap asleep'
      /\ SleepingTakers' = SleepingTakers \cap asleep'
  BY <1>2, <1>3 DEF SleepingAdders, SleepingTakers
<1>7. RoomFor(limit)'
  BY LimitKept DEF Done
<1>8. QED  BY <1>2, <1>4, <1>5, <1>6, <1>7

\* A consumer is woken, of those on their way one may be done.
LEMMA DoneWakesTaker ==
    ASSUME QueueInv, NEW t \in Thread, Done(t), NEW u \in SleepingTakers, asleep' = asleep \ {u}
    PROVE  QueueInv'
<1>1. u \in asleep /\ u \in Thread /\ u # t /\ Taking(u) /\ SleepingAdders = {}
  BY Groups DEF Done, SleepingTakers, QueueInv, TakersServed
<1>2. AwakeTakers' = (AwakeTakers \ {t}) \cup {u}
  <2>1. ASSUME NEW v \in Thread PROVE v \in AwakeTakers' <=> v \in (AwakeTakers \ {t}) \cup {u}
    <3>1. CASE v = t
      BY <1>1, <3>1, DoneFacts DEF AwakeTakers
    <3>2. CASE v = u
      BY <1>1, <3>2, DoneFacts, Groups DEF AwakeTakers, Awake, Idle, Taking, NoCall
    <3>3. CASE v # t /\ v # u
      <4>1. call'[v] = call[v]
        BY <3>3, Groups DEF Done
      <4>2. QED  BY <3>3, <4>1 DEF AwakeTakers, Awake, Idle, Taking
    <3>4. QED  BY <3>1, <3>2, <3>3
  <2>2. AwakeTakers' \subseteq Thread /\ AwakeTakers \subseteq Thread
    BY DEF AwakeTakers
  <2>3. QED  BY <1>1, <2>1, <2>2
<1>3. u \notin AwakeTakers
  BY <1>1 DEF AwakeTakers, Awake
<1>4. t \in AwakeTakers <=> Taking(t)
  BY Groups DEF AwakeTakers, Awake, Done
<1>5. Cardinality(AwakeTakers') = IF Taking(t) THEN Cardinality(AwakeTakers) ELSE Cardinality(AwakeTakers) + 1
  <2>1. /\ IsFiniteSet(AwakeTakers \ {t})
        /\ Cardinality(AwakeTakers \ {t}) = IF Taking(t) THEN Cardinality(AwakeTakers) - 1 ELSE Cardinality(AwakeTakers)
    BY <1>4, FiniteGroups, FS_RemoveElement
  <2>2. Cardinality(AwakeTakers') = Cardinality(AwakeTakers \ {t}) + 1
    BY <1>2, <1>3, <2>1, FS_AddElement
  <2>3. QED  BY <2>1, <2>2, FiniteGroups
<1>6. Batches \subseteq {0, 1} => items' <= Cardinality(AwakeTakers')
  <2>1. SUFFICES ASSUME Batches \subseteq {0, 1} PROVE items' <= Cardinality(AwakeTakers')
    OBVIOUS
  <2>2. items <= Cardinality(AwakeTakers)
    BY <2>1 DEF QueueInv, TakersServed
  <2>3. QED  BY <1>5, <2>1, <2>2, FiniteGroups, Groups DEF Done
<1>7. SleepingAdders' = {} /\ AwakeTakers' # {}
  BY <1>1, <1>2, DoneFacts
<1>8. QED  BY <1>6, <1>7, DoneFacts DEF QueueInv, TakersServed, AddersServed

\* A producer is woken.
LEMMA DoneWakesAdder ==
    ASSUME QueueInv, NEW t \in Thread, Done(t), NEW u \in SleepingAdders, asleep' = asleep \ {u}
    PROVE  QueueInv'
<1>1. u \in asleep /\ u \in Thread /\ u # t /\ Adding(u) /\ SleepingTakers = {}
  BY Groups DEF Done, SleepingAdders, QueueInv, TakersServed
<1>2. AwakeAdders' = (AwakeAdders \ {t}) \cup {u}
  <2>1. ASSUME NEW v \in Thread PROVE v \in AwakeAdders' <=> v \in (AwakeAdders \ {t}) \cup {u}
    <3>1. CASE v = t
      BY <1>1, <3>1, DoneFacts DEF AwakeAdders
    <3>2. CASE v = u
      BY <1>1, <3>2, DoneFacts, Groups DEF AwakeAdders, Awake, Idle, Adding, NoCall
    <3>3. CASE v # t /\ v # u
      <4>1. call'[v] = call[v]
        BY <3>3, Groups DEF Done
      <4>2. QED  BY <3>3, <4>1 DEF AwakeAdders, Awake, Idle, Adding
    <3>4. QED  BY <3>1, <3>2, <3>3
  <2>2. AwakeAdders' \subseteq Thread /\ AwakeAdders \subseteq Thread
    BY DEF AwakeAdders
  <2>3. QED  BY <1>1, <2>1, <2>2
<1>3. u \notin AwakeAdders
  BY <1>1 DEF AwakeAdders, Awake
<1>4. t \in AwakeAdders <=> Adding(t)
  BY Groups DEF AwakeAdders, Awake, Done
<1>5. Cardinality(AwakeAdders') = IF Adding(t) THEN Cardinality(AwakeAdders) ELSE Cardinality(AwakeAdders) + 1
  <2>1. /\ IsFiniteSet(AwakeAdders \ {t})
        /\ Cardinality(AwakeAdders \ {t}) = IF Adding(t) THEN Cardinality(AwakeAdders) - 1 ELSE Cardinality(AwakeAdders)
    BY <1>4, FiniteGroups, FS_RemoveElement
  <2>2. Cardinality(AwakeAdders') = Cardinality(AwakeAdders \ {t}) + 1
    BY <1>2, <1>3, <2>1, FS_AddElement
  <2>3. QED  BY <2>1, <2>2, FiniteGroups
<1>6. limit' <= items' + Cardinality(AwakeAdders')
  <2>1. limit <= items + Cardinality(AwakeAdders)
    BY DEF QueueInv, AddersServed
  <2>2. QED  BY <1>5, <2>1, FiniteGroups, Groups DEF Done
<1>7. SleepingTakers' = {}
  BY <1>1, DoneFacts
<1>8. QED  BY <1>6, <1>7, DoneFacts DEF QueueInv, TakersServed, AddersServed

\* Nobody is told: there is nobody, or there is nothing to tell.
LEMMA DoneSilently ==
    ASSUME QueueInv, NEW t \in Thread, Done(t), asleep' = asleep,
           \/ asleep = {}
           \/ items' = items /\ ended' = ended /\ (Idle(t) \/ (items = 0 /\ Adding(t)))
    PROVE  QueueInv'
<1>1. CASE asleep = {}
  <2>1. SleepingAdders' = {} /\ SleepingTakers' = {}
    BY <1>1, DoneFacts
  <2>2. QED  BY <2>1, DoneFacts DEF QueueInv, TakersServed, AddersServed
<1>2. CASE items' = items /\ ended' = ended /\ (Idle(t) \/ (items = 0 /\ Adding(t)))
  <2>1. SleepingAdders' = SleepingAdders /\ SleepingTakers' = SleepingTakers
    BY DoneFacts DEF SleepingAdders, SleepingTakers
  <2>2. \A u \in Thread : u # t => call'[u] = call[u]
    BY Groups DEF Done
  <2>3. ~ Taking(t)
    BY <1>2, Groups
  <2>4. AwakeTakers' = AwakeTakers
    BY <2>2, <2>3, DoneFacts DEF AwakeTakers, Awake, Idle, Taking
  <2>5. SleepingAdders # {} => AwakeAdders' = AwakeAdders
    <3>1. SUFFICES ASSUME SleepingAdders # {} PROVE AwakeAdders' = AwakeAdders
      OBVIOUS
    <3>2. ~ Adding(t)
      BY <1>2, <3>1, Boundaries, Groups
    <3>3. QED  BY <2>2, <3>2, DoneFacts DEF AwakeAdders, Awake, Idle, Adding
  <2>6. limit' = limit
    BY DEF Done
  <2>7. QED
    BY <1>2, <2>1, <2>4, <2>5, <2>6, DoneFacts DEF QueueInv, TakersServed, AddersServed
<1>3. QED  BY <1>1, <1>2

LEMMA DoneKeeps ==
    ASSUME QueueInv, NEW t \in Thread, Done(t)
    PROVE  QueueInv'
<1>1. CASE CondSignal /\ asleep # {}
  <2>1. PICK u \in asleep : asleep' = asleep \ {u}
    BY <1>1 DEF CondSignal
  <2>2. u \in SleepingAdders \/ u \in SleepingTakers
    BY Groups DEF SleepingAdders, SleepingTakers
  <2>3. QED  BY <2>1, <2>2, DoneWakesAdder, DoneWakesTaker
<1>2. CASE CondSignal /\ asleep = {}
  <2>1. asleep' = asleep
    BY <1>2 DEF CondSignal
  <2>2. QED  BY <1>2, <2>1, DoneSilently
<1>3. CASE items' = items /\ ended' = ended /\ asleep' = asleep /\ (Idle(t) \/ (items = 0 /\ Adding(t)))
  BY <1>3, DoneSilently
<1>4. QED  BY <1>1, <1>2, <1>3 DEF Done

-----------------------------------------------------------------------------
\* The actions.

\* A thread that is in no call comes out of one.
LEMMA IdleFacts ==
    ASSUME QueueInv, NEW t \in Thread, Idle(t)
    PROVE  /\ t \notin asleep /\ ~ Adding(t) /\ ~ Taking(t)
           /\ [call EXCEPT ![t] = NoCall] = call
<1>1. t \notin asleep /\ ~ Adding(t) /\ ~ Taking(t)
  BY Groups DEF QueueInv, TypeOK
<1>2. call[t] = NoCall
  BY DEF Idle
<1>3. QED  BY <1>1, <1>2, Groups

\* One item, where items come singly.
Single(n) == n \in Nat /\ (n \in Batches \/ n \in {0, 1})

LEMMA AddKeeps ==
    ASSUME QueueInv, NEW t \in Producer, t \notin asleep, ~ Taking(t), NEW n, Single(n),
           Adding(t) \/ Idle(t), Add(t, n)
    PROVE  QueueInv'
<1>1. t \in Thread
  BY QueueAssumption
<1>2. CASE Full /\ Sleep(t, "enqueue", n)
  <2>1. n \in {0, 1}
    BY <1>2, Groups DEF Full, Single
  <2>2. QED  BY <1>2, <2>1, AdderSleeps
<1>3. ASSUME NEW k \in Clones(n), items' = items + k,
             IF items' > 0 THEN CondSignal ELSE UNCHANGED asleep, Return(t),
             UNCHANGED <<limit, ended>>
      PROVE  QueueInv'
  <2>1. k \in Nat /\ (Batches \subseteq {0, 1} => k \in {0, 1})
    BY DEF Clones, Single
  <2>2. CondSignal \/ (items = 0 /\ k = 0 /\ asleep' = asleep)
    BY <1>3, <2>1, Groups
  <2>3. /\ items' \in Nat /\ items <= items' /\ items <= items' + 1
        /\ Batches \subseteq {0, 1} => items' <= items + 1
    BY <1>3, <2>1, Groups
  <2>4. CondSignal \/ (items' = items /\ asleep' = asleep /\ (Idle(t) \/ (items = 0 /\ Adding(t))))
    <3>1. CASE items = 0 /\ k = 0 /\ asleep' = asleep
      <4>1. items' = items
        BY <1>3, <3>1
      <4>2. QED  BY <3>1, <4>1
    <3>2. QED  BY <2>2, <3>1
  <2>5. Done(t)
    BY <1>3, <2>3, <2>4, Groups DEF Done, Return
  <2>6. QED  BY <1>1, <2>5, DoneKeeps
\* Nothing croaks when there is a limit, and without one nobody has waited.
<1>4. CASE Unshareable /\ Return(t) /\ UNCHANGED <<items, limit, ended, asleep>>
  <2>1. limit = 0
    BY <1>4, Groups
  <2>2. Idle(t)
    BY <1>1, <2>1 DEF QueueInv, CallsOK
  <2>3. items' \in Nat /\ items' <= items + 1 /\ items <= items' + 1 /\ items' = items
    BY <1>4, Groups
  <2>4. Done(t)
    BY <1>1, <1>4, <2>2, <2>3, Groups DEF Done, Return
  <2>5. QED  BY <1>1, <2>4, DoneKeeps
<1>5. QED  BY <1>2, <1>3, <1>4 DEF Add

\* An insert that croaks takes items away, which nobody was on its way to in vain.
LEMMA ItemsLost ==
    ASSUME QueueInv, Unshareable, items' \in 0 .. items, UNCHANGED <<limit, ended, call, asleep>>
    PROVE  QueueInv'
<1>1. /\ items' \in Nat /\ items' <= items
      /\ limit' = limit /\ ended' = ended /\ call' = call /\ asleep' = asleep
  BY Groups
<1>2. limit = 0
  BY Groups
<1>3. TypeOK' /\ CallsOK'
  BY <1>1 DEF QueueInv, TypeOK, CallsOK, Idle, Adding, Taking
<1>4. SleepingTakers' = SleepingTakers /\ AwakeTakers' = AwakeTakers
  BY <1>1 DEF SleepingTakers, AwakeTakers, Awake, Idle, Taking
<1>5. SleepingAdders' = {}
  BY <1>1, <1>2, Groups DEF QueueInv, CallsOK, SleepingAdders, Adding
<1>6. TakersServed'
  BY <1>1, <1>4, <1>5, Groups, FiniteGroups DEF QueueInv, TakersServed
<1>7. QED  BY <1>1, <1>3, <1>5, <1>6, LimitKept DEF QueueInv, AddersServed

LEMMA TakeWhatThereIsKeeps ==
    ASSUME QueueInv, NEW t \in Thread, t \notin asleep, ~ Adding(t), TakeWhatThereIs(t, 1)
    PROVE  QueueInv'
<1>1. Valid(1)
  BY Groups DEF Valid
<1>2. /\ items' = (IF items < 1 THEN 0 ELSE items - 1) /\ CondSignal
      /\ limit' = limit /\ ended' = ended /\ call' = [call EXCEPT ![t] = NoCall]
  BY <1>1 DEF TakeWhatThereIs, Return
<1>3. Done(t)
  BY <1>2, Groups DEF Done
<1>4. QED  BY <1>3, DoneKeeps

LEMMA TakeKeeps ==
    ASSUME QueueInv, NEW t \in Consumer, t \notin asleep, ~ Adding(t), Take(t, 1) \/ TakeTimed(t, 1)
    PROVE  QueueInv'
<1>1. t \in Thread
  BY QueueAssumption
<1>2. CASE items < 1 /\ ~ ended /\ (Sleep(t, "dequeue", 1) \/ Sleep(t, "dequeue_timed", 1))
  <2>1. items = 0
    BY <1>2, Groups
  <2>2. QED  BY <1>2, <2>1, TakerSleeps
<1>3. CASE TakeWhatThereIs(t, 1)
  BY <1>1, <1>3, TakeWhatThereIsKeeps
<1>4. CASE items >= 1 /\ items' = items - 1 /\ CondSignal /\ Return(t) /\ UNCHANGED <<limit, ended>>
  <2>1. Done(t)
    BY <1>4, Groups DEF Done, Return
  <2>2. QED  BY <1>1, <2>1, DoneKeeps
<1>5. QED  BY <1>2, <1>3, <1>4 DEF Take, TakeTimed

LEMMA AgainKeeps ==
    ASSUME QueueInv, NEW t \in Thread, Again(t)
    PROVE  QueueInv'
<1>1. t \notin asleep
  BY DEF Again, EnqueueAgain, DequeueAgain, DequeueTimedAgain, Awake
<1>2. CASE EnqueueAgain(t)
  <2>1. Adding(t) /\ Add(t, call[t].n)
    BY <1>2 DEF EnqueueAgain, Adding
  <2>2. t \in Producer /\ call[t].n \in {0, 1} /\ ~ Taking(t)
    BY <2>1, Groups DEF QueueInv, CallsOK
  <2>3. QED  BY <1>1, <2>1, <2>2, AddKeeps DEF Single
<1>3. CASE DequeueAgain(t) \/ DequeueTimedAgain(t)
  <2>1. Taking(t)
    BY <1>3 DEF DequeueAgain, DequeueTimedAgain, Taking
  <2>2. t \in Consumer /\ call[t].n = 1 /\ ~ Adding(t)
    BY <2>1, Groups DEF QueueInv, CallsOK
  <2>3. Take(t, 1) \/ TakeTimed(t, 1) \/ TakeWhatThereIs(t, 1)
    BY <1>3, <2>2 DEF DequeueAgain, DequeueTimedAgain
  <2>4. QED  BY <1>1, <2>2, <2>3, TakeKeeps, TakeWhatThereIsKeeps
<1>4. QED  BY <1>2, <1>3 DEF Again

\* A time-out: one consumer fewer sleeps and one more is on its way.
LEMMA ExpireKeeps ==
    ASSUME QueueInv, NEW t \in Thread, Expire(t)
    PROVE  QueueInv'
<1>1. /\ t \in asleep /\ call[t].method = "dequeue_timed" /\ asleep' = asleep \ {t}
      /\ call' = [call EXCEPT ![t].method = "expired"] /\ UNCHANGED <<items, limit, ended>>
  BY DEF Expire
<1>2. call[t] \in Blocking
  BY <1>1, Groups DEF NoCall
<1>3. /\ call'[t].method = "expired" /\ call'[t].n = call[t].n /\ call'[t] \in Blocking
      /\ \A u \in Thread : u # t => call'[u] = call[u]
  BY <1>1, <1>2, Groups DEF Blocking
<1>4. TypeOK'
  <2>1. call' \in [Thread -> Blocking \cup {NoCall}]
    BY <1>1, <1>3, Groups
  <2>2. \A u \in Thread : u \in asleep' => call'[u] # NoCall
    BY <1>1, <1>3 DEF QueueInv, TypeOK, Idle
  <2>3. QED  BY <1>1, <2>1, <2>2, Groups DEF TypeOK, Idle
<1>5. CallsOK'
  BY <1>1, <1>3, Groups DEF QueueInv, CallsOK, Adding, Taking
<1>6. \A u \in Thread : (Adding(u)' <=> Adding(u)) /\ (Taking(u)' <=> Taking(u))
  BY <1>1, <1>3 DEF Adding, Taking
<1>7. SleepingAdders' = SleepingAdders /\ SleepingTakers' = SleepingTakers \ {t}
  BY <1>1, <1>6, Groups DEF SleepingAdders, SleepingTakers, Adding
<1>8. \A u \in Thread : u # t => (Awake(u)' <=> Awake(u))
  BY <1>1, <1>3 DEF Awake, Idle
<1>9. AwakeAdders' = AwakeAdders
  BY <1>1, <1>6, <1>8 DEF AwakeAdders, Adding
<1>10. AwakeTakers' = AwakeTakers \cup {t}
  BY <1>1, <1>3, <1>6, <1>8 DEF AwakeTakers, Taking, Awake, Idle, NoCall
<1>11. Cardinality(AwakeTakers') \in Nat /\ Cardinality(AwakeTakers') >= Cardinality(AwakeTakers)
  <2>1. Cardinality(AwakeTakers \cup {t}) \in {Cardinality(AwakeTakers), Cardinality(AwakeTakers) + 1}
    BY FiniteGroups, FS_AddElement
  <2>2. QED  BY <1>10, <2>1, FiniteGroups
<1>12. QED
  BY <1>1, <1>4, <1>5, <1>7, <1>9, <1>10, <1>11, LimitKept, FiniteGroups, Groups
  DEF QueueInv, TakersServed, AddersServed

LEMMA SetLimitKeeps ==
    ASSUME QueueInv, RoomIsKept, limit \in Limits \cup NewLimits,
           NEW t \in Thread, NEW n \in NewLimits, SetLimit(t, n), RoomFor(limit)'
    PROVE  QueueInv'
<1>1. limit' = n /\ UNCHANGED <<items, ended, call, asleep>>
  BY DEF SetLimit
<1>2. limit' \in Nat
  BY <1>1, QueueAssumption
<1>3. limit > 0 => limit' = limit
  <2>1. RoomFor(n)
    BY <1>1
  <2>2. limit \in {0, n}
    BY <2>1 DEF RoomIsKept
  <2>3. QED  BY <1>1, <2>2, Groups
<1>4. SleepingAdders # {} => limit' = limit
  BY <1>3, Groups DEF QueueInv, CallsOK, SleepingAdders
<1>5. TypeOK' /\ CallsOK'
  BY <1>1, <1>2, <1>3 DEF QueueInv, TypeOK, CallsOK, Idle, Adding, Taking
<1>6. /\ SleepingAdders' = SleepingAdders /\ SleepingTakers' = SleepingTakers
      /\ AwakeAdders' = AwakeAdders /\ AwakeTakers' = AwakeTakers
  BY <1>1 DEF SleepingAdders, SleepingTakers, AwakeAdders, AwakeTakers, Awake, Idle, Adding, Taking
<1>7. QED
  BY <1>1, <1>4, <1>5, <1>6 DEF QueueInv, TakersServed, AddersServed

LEMMA NextKeeps ==
    ASSUME Singly, RoomIsKept, limit \in Limits \cup NewLimits,
           QueueInv, [Next]_vars, RoomFor(limit)'
    PROVE  QueueInv'
<1>1. ASSUME NEW t \in Thread, Again(t) \/ Expire(t) PROVE QueueInv'
  BY <1>1, AgainKeeps, ExpireKeeps
<1>2. ASSUME NEW t \in Thread, End(t) PROVE QueueInv'
  <2>1. Done(t)
    BY <1>2, IdleFacts, Groups DEF End, Done
  <2>2. QED  BY <2>1, DoneKeeps
<1>3. ASSUME NEW t \in Thread, NEW n \in NewLimits, SetLimit(t, n) PROVE QueueInv'
  BY <1>3, SetLimitKeeps
<1>4. ASSUME NEW t \in Producer, NEW n \in Batches, Enqueue(t, n) \/ Insert(t, n) PROVE QueueInv'
  <2>1. t \in Thread /\ Idle(t) /\ Single(n)
    BY <1>4, QueueAssumption DEF Enqueue, Insert, Single
  <2>2. CASE Enqueue(t, n)
    BY <2>1, <2>2, IdleFacts, AddKeeps DEF Enqueue
  <2>3. CASE Insert(t, n)
    <3>1. CASE Unshareable /\ items' \in 0 .. items /\ UNCHANGED asleep
      BY <2>3, <3>1, ItemsLost DEF Insert
    <3>2. ASSUME NEW k \in Clones(n), items' = items + k, CondSignal  PROVE QueueInv'
      <4>1. k \in Nat /\ (Batches \subseteq {0, 1} => k \in {0, 1})
        BY <2>1 DEF Clones, Single
      <4>2. /\ items' \in Nat /\ items <= items' /\ items <= items' + 1
            /\ Batches \subseteq {0, 1} => items' <= items + 1
        BY <3>2, <4>1, Groups
      <4>3. Done(t)
        BY <2>1, <2>3, <3>2, <4>2, IdleFacts, Groups DEF Insert, Done
      <4>4. QED  BY <2>1, <4>3, DoneKeeps
    <3>3. QED  BY <2>3, <3>1, <3>2 DEF Insert
  <2>4. QED  BY <1>4, <2>2, <2>3
<1>5. ASSUME NEW t \in Consumer, NEW n \in Counts,
             Dequeue(t, n) \/ DequeueNb(t, n) \/ DequeueTimed(t, n) \/ Extract(t, n)
      PROVE  QueueInv'
  <2>1. t \in Thread /\ n = 1 /\ Idle(t)
    BY <1>5, QueueAssumption DEF Singly, Dequeue, DequeueNb, DequeueTimed, Extract
  <2>2. t \notin asleep /\ ~ Adding(t)
    BY <2>1, IdleFacts
  <2>3. CASE ~ Extract(t, n)
    <3>1. Take(t, 1) \/ TakeTimed(t, 1) \/ TakeWhatThereIs(t, 1)
      BY <1>5, <2>1, <2>3 DEF Dequeue, DequeueNb, DequeueTimed
    <3>2. QED  BY <2>1, <2>2, <3>1, TakeKeeps, TakeWhatThereIsKeeps
  <2>4. CASE Extract(t, n)
    <3>1. Done(t)
      <4>1. CASE UNCHANGED <<items, asleep>>
        <5>1. call' = [call EXCEPT ![t] = NoCall] /\ limit' = limit /\ ended' = ended
          BY <2>1, <2>4, IdleFacts DEF Extract
        <5>2. items' = items /\ asleep' = asleep /\ items \in Nat /\ ended \in BOOLEAN
          BY <4>1, Groups
        <5>3. items' \in Nat /\ items' <= items + 1 /\ items <= items' + 1
          BY <5>2
        <5>4. QED  BY <2>1, <2>2, <5>1, <5>2, <5>3, IdleFacts DEF Done
      <4>2. CASE ~ UNCHANGED <<items, asleep>>
        <5>1. PICK k \in 0 .. 1 : k <= items /\ items' = items - k /\ CondSignal
          BY <2>1, <2>4, <4>2 DEF Extract
        <5>2. items' \in Nat /\ items' <= items /\ items <= items' + 1
          BY <5>1, Groups
        <5>3. QED  BY <2>1, <2>4, <5>1, <5>2, IdleFacts, Groups DEF Extract, Done
      <4>3. QED  BY <4>1, <4>2
    <3>2. QED  BY <2>1, <3>1, DoneKeeps
  <2>5. QED  BY <2>3, <2>4
<1>6. CASE UNCHANGED vars
  <2>1. UNCHANGED <<items, limit, ended, call, asleep>>
    BY <1>6 DEF vars
  <2>2. /\ SleepingAdders' = SleepingAdders /\ SleepingTakers' = SleepingTakers
        /\ AwakeAdders' = AwakeAdders /\ AwakeTakers' = AwakeTakers
    BY <2>1 DEF SleepingAdders, SleepingTakers, AwakeAdders, AwakeTakers, Awake, Idle, Adding, Taking
  <2>3. TypeOK' /\ CallsOK'
    BY <2>1 DEF QueueInv, TypeOK, CallsOK, Idle, Adding, Taking
  <2>4. QED  BY <2>1, <2>2, <2>3 DEF QueueInv, TakersServed, AddersServed
<1>7. QED  BY <1>1, <1>2, <1>3, <1>4, <1>5, <1>6 DEF Next

-----------------------------------------------------------------------------
\* What follows.

\* The limit is one of those the program sets.
LEMMA LimitMoves ==
    ASSUME [Next]_vars
    PROVE  limit' = limit \/ limit' \in NewLimits
<1>1. ASSUME NEW t \in Thread, NEW n \in Nat, Add(t, n) \/ Take(t, n) \/ TakeTimed(t, n) \/ TakeWhatThereIs(t, n)
      PROVE  limit' = limit
  BY <1>1 DEF Add, Take, TakeTimed, TakeWhatThereIs, Sleep
<1>2. ASSUME NEW t \in Thread, Again(t)  PROVE limit' = limit
  BY <1>2 DEF Again, EnqueueAgain, DequeueAgain, DequeueTimedAgain, Add, Take, TakeTimed, TakeWhatThereIs, Sleep
<1>3. ASSUME NEW t \in Thread, Expire(t) \/ End(t) \/ \E n \in NewLimits : SetLimit(t, n)
      PROVE  limit' = limit \/ limit' \in NewLimits
  BY <1>3 DEF Expire, End, SetLimit
<1>4. ASSUME NEW t \in Producer, NEW n \in Batches, Enqueue(t, n) \/ Insert(t, n)
      PROVE  limit' = limit
  BY <1>1, <1>4, QueueAssumption DEF Enqueue, Insert
<1>5. ASSUME NEW t \in Consumer, NEW n \in Counts,
             Dequeue(t, n) \/ DequeueNb(t, n) \/ DequeueTimed(t, n) \/ Extract(t, n)
      PROVE  limit' = limit
  BY <1>1, <1>5, QueueAssumption DEF Dequeue, DequeueNb, DequeueTimed, Extract
<1>6. CASE UNCHANGED vars
  BY <1>6 DEF vars
<1>7. QED  BY <1>2, <1>3, <1>4, <1>5, <1>6 DEF Next

\* One condition and one signal keep the queue going while its limit leaves room
\* for all or there is none: producers and consumers never sleep at the same
\* time, so that no signal of enqueue or dequeue goes to a thread that has no
\* use for it.  The limits that threads contend for are outside the hypothesis.
THEOREM Invariance ==
    ASSUME Singly, RoomIsKept
    PROVE  Spec => [](limit \in Limits \cup NewLimits /\ (RoomFor(limit) => QueueInv))
<1> DEFINE Inv == limit \in Limits \cup NewLimits /\ (RoomFor(limit) => QueueInv)
<1>1. Init => Inv
  BY InitHolds DEF Init
<1>2. Inv /\ [Next]_vars => Inv'
  <2>1. SUFFICES ASSUME Inv, [Next]_vars  PROVE Inv'
    OBVIOUS
  <2>2. limit' \in Limits \cup NewLimits
    BY <2>1, LimitMoves
  <2>3. ASSUME RoomFor(limit)'  PROVE RoomFor(limit)
    <3>1. CASE limit' = limit
      BY <2>3, <3>1
    <3>2. CASE limit' \in NewLimits
      <4>1. limit \in {0, limit'}
        BY <2>1, <2>3, <3>2 DEF RoomIsKept
      <4>2. QED  BY <2>3, <4>1 DEF RoomFor
    <3>3. QED  BY <2>1, <3>1, <3>2, LimitMoves
  <2>4. ASSUME RoomFor(limit)'  PROVE QueueInv'
    BY <2>1, <2>3, <2>4, NextKeeps
  <2>5. QED  BY <2>2, <2>4
<1> HIDE DEF Inv
<1>3. Spec => []Inv
  BY <1>1, <1>2, PTL DEF Spec
<1>4. QED  BY <1>3 DEF Inv

\* Nobody oversleeps on a queue without a limit, whatever croaks, or on one whose
\* limit leaves room for all: someone awake will signal the condition.
THEOREM SleepersAreServed == ASSUME Singly, RoomIsKept PROVE Spec => []NobodyOversleeps
<1>1. ASSUME QueueInv, NEW t \in asleep, Satisfied(t) PROVE \E u \in Thread : Awake(u)
  <2>1. t \in Thread /\ (Adding(t) \/ Taking(t))
    BY <1>1, Groups
  <2>2. CASE Adding(t)
    <3>1. ~ Full /\ t \in SleepingAdders /\ limit > 0
      BY <1>1, <2>1, <2>2 DEF Satisfied, Adding, SleepingAdders, QueueInv, CallsOK
    <3>2. limit <= items + Cardinality(AwakeAdders)
      BY <1>1, <3>1 DEF QueueInv, AddersServed
    <3>3. AwakeAdders # {}
      BY <1>1, <3>1, <3>2, Groups, FiniteGroups DEF Full
    <3>4. QED  BY <3>3 DEF AwakeAdders
  <2>3. CASE Taking(t)
    <3>1. t \in SleepingTakers /\ call[t].n = 1 /\ (items >= 1 \/ ended)
      BY <1>1, <2>1, <2>3 DEF Satisfied, Taking, SleepingTakers, QueueInv, CallsOK
    <3>2. AwakeTakers # {}
      BY <1>1, <3>1, Groups DEF QueueInv, TakersServed
    <3>3. QED  BY <3>2 DEF AwakeTakers
  <2>4. QED  BY <2>1, <2>2, <2>3
<1>2. (RoomFor(limit) => QueueInv) => NobodyOversleeps
  BY <1>1 DEF NobodyOversleeps, SleepersServed
<1>3. QED  BY <1>2, Invariance, PTL

-----------------------------------------------------------------------------
\* What holds whatever the limit is, and however many items a call is about.

\* What a step of thread t does to the calls: it is over, or goes to sleep in
\* one of its two ways, or the time of t has run out, or there is no change.
CallOver(t) ==
    /\ t \notin asleep
    /\ asleep' \subseteq asleep
    /\ call' = [call EXCEPT ![t] = NoCall]
AddWaits(t) == \E n \in Nat : t \notin asleep /\ Sleep(t, "enqueue", n)
TakeWaits(t) ==
    /\ ~ ended
    /\ t \notin asleep
    /\ \E m \in {"dequeue", "dequeue_timed"}, n \in Nat : Sleep(t, m, n)
NoCallMoves == asleep' \subseteq asleep /\ call' = call
CallMoves(t) ==
    /\ items' \in Nat /\ limit' \in Nat /\ ended' \in BOOLEAN
    /\ ended => ended'
    /\ CallOver(t) \/ AddWaits(t) \/ TakeWaits(t) \/ Expire(t) \/ NoCallMoves

LEMMA Wakes ==
    ASSUME CondSignal  PROVE asleep' \subseteq asleep
BY DEF CondSignal

LEMMA AddMoves ==
    ASSUME TypeOK, NEW t \in Thread, t \notin asleep, NEW n \in Nat, Add(t, n)
    PROVE  CallMoves(t)
<1>1. items \in Nat /\ limit \in Nat /\ ended \in BOOLEAN
  BY DEF TypeOK
<1>2. CASE Sleep(t, "enqueue", n)
  BY <1>1, <1>2 DEF CallMoves, AddWaits, Sleep
<1>3. CASE ~ Sleep(t, "enqueue", n)
  <2>1. /\ items' = items \/ \E k \in Clones(n) : items' = items + k
        /\ limit' = limit /\ ended' = ended
        /\ call' = [call EXCEPT ![t] = NoCall]
        /\ asleep' \subseteq asleep
    BY <1>3, Wakes DEF Add, Return
  <2>2. items' \in Nat
    BY <1>1, <2>1 DEF Clones
  <2>3. QED  BY <1>1, <2>1, <2>2 DEF CallMoves, CallOver
<1>4. QED  BY <1>2, <1>3

LEMMA TakeWhatThereIsMoves ==
    ASSUME TypeOK, NEW t \in Thread, t \notin asleep, NEW n \in Nat, TakeWhatThereIs(t, n)
    PROVE  CallMoves(t)
<1>1. items \in Nat /\ limit \in Nat /\ ended \in BOOLEAN
  BY DEF TypeOK
<1>2. items' = items \/ items' = 0 \/ (items' = items - n /\ items >= n)
  BY <1>1 DEF TakeWhatThereIs
<1>3. items' \in Nat
  BY <1>1, <1>2
<1>4. asleep' \subseteq asleep
  BY Wakes DEF TakeWhatThereIs
<1>5. QED  BY <1>1, <1>3, <1>4 DEF TakeWhatThereIs, CallMoves, CallOver, Return

LEMMA TakeMoves ==
    ASSUME TypeOK, NEW t \in Thread, t \notin asleep, NEW n \in Nat, Take(t, n) \/ TakeTimed(t, n)
    PROVE  CallMoves(t)
<1>1. items \in Nat /\ limit \in Nat /\ ended \in BOOLEAN
  BY DEF TypeOK
<1>2. CASE ~ ended /\ (Sleep(t, "dequeue", n) \/ Sleep(t, "dequeue_timed", n))
  <2>1. TakeWaits(t)
    BY <1>2 DEF TakeWaits
  <2>2. QED  BY <1>1, <1>2, <2>1 DEF CallMoves, Sleep
<1>3. CASE TakeWhatThereIs(t, n)
  BY <1>3, TakeWhatThereIsMoves
<1>4. CASE items >= n /\ items' = items - n /\ CondSignal /\ Return(t) /\ UNCHANGED <<limit, ended>>
  <2>1. items' \in Nat
    BY <1>1, <1>4
  <2>2. asleep' \subseteq asleep
    BY <1>4, Wakes
  <2>3. QED  BY <1>1, <1>4, <2>1, <2>2 DEF CallMoves, CallOver, Return
<1>5. QED  BY <1>2, <1>3, <1>4 DEF Take, TakeTimed

LEMMA NextMoves ==
    ASSUME TypeOK, Next
    PROVE  \E t \in Thread : CallMoves(t)
<1>1. /\ items \in Nat /\ limit \in Nat /\ ended \in BOOLEAN
      /\ \A t \in Thread : Idle(t) => t \notin asleep
  BY DEF TypeOK
<1>2. ASSUME NEW t \in Thread, Again(t)  PROVE CallMoves(t)
  <2>1. t \notin asleep /\ call[t] \in Blocking
    BY <1>2 DEF Again, EnqueueAgain, DequeueAgain, DequeueTimedAgain, Awake, Idle, TypeOK
  <2>2. call[t].n \in Nat
    BY <2>1 DEF Blocking
  <2>3. \/ Add(t, call[t].n) \/ Take(t, call[t].n) \/ TakeTimed(t, call[t].n)
        \/ TakeWhatThereIs(t, call[t].n)
    BY <1>2 DEF Again, EnqueueAgain, DequeueAgain, DequeueTimedAgain
  <2>4. QED  BY <2>1, <2>2, <2>3, AddMoves, TakeMoves, TakeWhatThereIsMoves
<1>3. ASSUME NEW t \in Thread, Expire(t)  PROVE CallMoves(t)
  BY <1>1, <1>3 DEF CallMoves, Expire
<1>4. ASSUME NEW t \in Thread, End(t)  PROVE CallMoves(t)
  BY <1>1, <1>4, Wakes DEF CallMoves, NoCallMoves, End
<1>5. ASSUME NEW t \in Thread, NEW n \in NewLimits, SetLimit(t, n)  PROVE CallMoves(t)
  BY <1>1, <1>5, QueueAssumption DEF CallMoves, NoCallMoves, SetLimit
<1>6. ASSUME NEW t \in Producer, NEW n \in Batches, Enqueue(t, n) \/ Insert(t, n)
      PROVE  CallMoves(t)
  <2>1. t \in Thread /\ n \in Nat
    BY QueueAssumption
  <2>2. CASE Enqueue(t, n)
    BY <1>1, <2>1, <2>2, AddMoves DEF Enqueue
  <2>3. CASE Insert(t, n)
    <3>1. items' \in Nat
      BY <1>1, <2>1, <2>3 DEF Insert, Clones
    <3>2. QED  BY <1>1, <2>3, <3>1, Wakes DEF Insert, CallMoves, NoCallMoves
  <2>4. QED  BY <1>6, <2>2, <2>3
<1>7. ASSUME NEW t \in Consumer, NEW n \in Counts,
             Dequeue(t, n) \/ DequeueNb(t, n) \/ DequeueTimed(t, n) \/ Extract(t, n)
      PROVE  CallMoves(t)
  <2>1. t \in Thread /\ n \in Nat
    BY QueueAssumption
  <2>2. CASE Dequeue(t, n) \/ DequeueNb(t, n) \/ DequeueTimed(t, n)
    BY <1>1, <2>1, <2>2, TakeMoves, TakeWhatThereIsMoves DEF Dequeue, DequeueNb, DequeueTimed
  <2>3. CASE Extract(t, n)
    <3>1. items' \in Nat
      <4>1. items' = items \/ \E k \in 0 .. n : k <= items /\ items' = items - k
        BY <2>3 DEF Extract
      <4>2. QED  BY <1>1, <2>1, <4>1
    <3>2. asleep' \subseteq asleep
      BY <2>3, Wakes DEF Extract
    <3>3. QED  BY <1>1, <2>3, <3>1, <3>2 DEF Extract, CallMoves, NoCallMoves
  <2>4. QED  BY <1>7, <2>2, <2>3
<1>8. Producer \subseteq Thread /\ Consumer \subseteq Thread
  BY QueueAssumption
<1>9. QED  BY <1>2, <1>3, <1>4, <1>5, <1>6, <1>7, <1>8 DEF Next

LEMMA MovesKeepType ==
    ASSUME TypeOK, NEW t \in Thread, CallMoves(t)
    PROVE  /\ TypeOK'
           /\ ended => ended' /\ \A u \in asleep' \ asleep : call'[u].method = "enqueue"
<1>1. /\ call \in [Thread -> Blocking \cup {NoCall}]
      /\ asleep \subseteq Thread /\ \A u \in asleep : call[u] # NoCall
  BY DEF TypeOK, Idle
<1>2. /\ items' \in Nat /\ limit' \in Nat /\ ended' \in BOOLEAN
      /\ ended => ended'
  BY DEF CallMoves
<1>3. ASSUME NEW c \in Blocking \cup {NoCall}, call' = [call EXCEPT ![t] = c]
      PROVE  /\ call' \in [Thread -> Blocking \cup {NoCall}]
             /\ call'[t] = c
             /\ \A u \in Thread : u # t => call'[u] = call[u]
  <2> HIDE DEF Blocking, NoCall
  <2> QED  BY <1>1, <1>3
<1>4. ASSUME /\ call' \in [Thread -> Blocking \cup {NoCall}]
             /\ asleep' \subseteq Thread /\ \A u \in asleep' : call'[u] # NoCall
      PROVE  TypeOK'
  BY <1>2, <1>4 DEF TypeOK, Idle
<1>5. CASE CallOver(t)
  <2>1. /\ call' = [call EXCEPT ![t] = NoCall]
        /\ asleep' \subseteq asleep /\ t \notin asleep
    BY <1>5 DEF CallOver
  <2>2. \A u \in asleep' : u \in Thread /\ u # t /\ call'[u] = call[u]
    BY <1>1, <1>3, <2>1
  <2>3. QED  BY <1>1, <1>2, <1>3, <1>4, <2>1, <2>2
<1>6. CASE NoCallMoves
  BY <1>1, <1>2, <1>4, <1>6 DEF NoCallMoves
<1>7. ASSUME NEW m \in {"enqueue", "dequeue", "dequeue_timed"}, NEW n \in Nat,
             Sleep(t, m, n), ended => m = "enqueue"
      PROVE  /\ TypeOK'
             /\ ended => ended' /\ \A u \in asleep' \ asleep : call'[u].method = "enqueue"
  <2> DEFINE c == [method |-> m, n |-> n]
  <2>1. c \in Blocking /\ c # NoCall /\ c.method = m
    BY DEF Blocking, NoCall
  <2>2. call' = [call EXCEPT ![t] = c] /\ asleep' = asleep \cup {t}
    BY <1>7 DEF Sleep
  <2> HIDE DEF c
  <2>3. call'[t] = c /\ \A u \in Thread : u # t => call'[u] = call[u]
    BY <1>3, <2>1, <2>2
  <2>4. call' \in [Thread -> Blocking \cup {NoCall}]
    BY <1>3, <2>1, <2>2
  <2>5. \A u \in asleep' : u \in Thread /\ call'[u] # NoCall
    BY <1>1, <2>1, <2>2, <2>3
  <2>6. TypeOK'
    BY <1>4, <2>4, <2>5
  <2>7. \A u \in asleep' \ asleep : call'[u].method = m
    BY <2>1, <2>2, <2>3
  <2>8. QED  BY <1>2, <1>7, <2>6, <2>7
<1>8. CASE AddWaits(t) \/ TakeWaits(t)
  BY <1>7, <1>8 DEF AddWaits, TakeWaits
<1>9. CASE Expire(t)
  <2> DEFINE c == [call[t] EXCEPT !.method = "expired"]
  <2>1. t \in asleep /\ asleep' = asleep \ {t} /\ call' = [call EXCEPT ![t] = c]
    BY <1>9 DEF Expire
  <2>2. call[t] \in Blocking
    BY <1>1, <2>1
  <2>3. c \in Blocking
    BY <2>2 DEF Blocking
  <2> HIDE DEF c
  <2>4. call' \in [Thread -> Blocking \cup {NoCall}]
        /\ \A u \in Thread : u # t => call'[u] = call[u]
    BY <1>3, <2>1, <2>3
  <2>5. \A u \in asleep' : u \in Thread /\ call'[u] # NoCall /\ u \in asleep
    BY <1>1, <2>1, <2>4
  <2>6. QED  BY <1>2, <1>4, <2>4, <2>5
<1>10. QED  BY <1>5, <1>6, <1>8, <1>9 DEF CallMoves

\* Every variable keeps its shape, and who sleeps is in a call.
THEOREM TypeCorrect == Spec => []TypeOK
<1>1. Init => TypeOK
  <2>1. SUFFICES ASSUME Init  PROVE TypeOK
    OBVIOUS
  <2>2. items = 0 /\ limit \in Nat /\ ended = FALSE /\ asleep = {}
    BY <2>1, QueueAssumption DEF Init
  <2>3. call \in [Thread -> Blocking \cup {NoCall}]
    BY <2>1 DEF Init
  <2>4. QED  BY <2>2, <2>3 DEF TypeOK
<1>2. TypeOK /\ [Next]_vars => TypeOK'
  <2>1. TypeOK /\ Next => TypeOK'
    BY NextMoves, MovesKeepType
  <2>2. TypeOK /\ UNCHANGED vars => TypeOK'
    BY DEF TypeOK, vars, Idle
  <2>3. QED  BY <2>1, <2>2
<1>3. QED  BY <1>1, <1>2, PTL DEF Spec

\* What EndUnblocks rests on besides NobodyOversleeps, whatever the limit: the end
\* of the queue is final, and a consumer that is awake, or woken, after it leaves its call with
\* its next step, however many items it asks for.
THEOREM NoneWaitsOnceEnded == Spec => NoneWaitsAfterEnd
<1>1. TypeOK /\ [Next]_vars =>
          [ended => ended' /\ \A t \in asleep' \ asleep : call'[t].method = "enqueue"]_vars
  BY NextMoves, MovesKeepType
<1>2. QED  BY <1>1, TypeCorrect, PTL DEF Spec, NoneWaitsAfterEnd
=============================================================================
