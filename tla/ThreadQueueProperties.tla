------------------------- MODULE ThreadQueueProperties -------------------------
(***************************************************************************)
(* What the users of a Thread::Queue rely on.                              *)
(***************************************************************************)
EXTENDS ThreadQueue

TypeOK ==
    /\ items \in Nat
    /\ limit \in Nat
    /\ ended \in BOOLEAN
    /\ call \in [Thread -> Blocking \cup {NoCall}]
    /\ asleep \subseteq {t \in Thread : ~ Idle(t)}

\* What t sleeps for is there.
Satisfied(t) ==
    IF call[t].method = "enqueue" THEN ~ Full ELSE items >= call[t].n \/ ended

\* When what a sleeper waits for is there, some thread is awake inside a method.
SleepersServed ==
    (\E t \in asleep : Satisfied(t)) => \E t \in Thread : Awake(t)

\* A limit that every producer and every consumer has room in, n = 0 for none:
\* no wake-up is wasted on a thread that sleeps again, or that croaks.
RoomFor(n) ==
    \/ n = 0
    \/ /\ Batches \subseteq {0, 1} /\ ~ Unshareable
       /\ Cardinality(Producer) <= n /\ Cardinality(Consumer) <= n

\* On a queue without a limit, or with one that leaves room for all, nobody
\* oversleeps, though enqueue signals once for a batch of items, a time-out may
\* come together with a signal, and enqueue and insert may croak: each consumer
\* that takes an item passes the signal on.
NobodyOversleeps == RoomFor(limit) => SleepersServed

\* On such a queue end "unblocks" every consumer, though it signals one of them.
EndUnblocks ==
    \A t \in Consumer :
        (ended /\ RoomFor(limit) /\ ~ Idle(t)) ~> (Idle(t) \/ ~ RoomFor(limit))

\* Queue.pm:518: "All threads blocking on dequeue() calls will be unblocked".
\* With a limit that producers sleep for, they are not.
EndUnblocksAll == \A t \in Consumer : (ended /\ ~ Idle(t)) ~> Idle(t)

\* The queue stays ended, and then no dequeue method goes to sleep, not even
\* one that was in its wait loop when the end came.
NoneWaitsAfterEnd ==
    [][ended => ended' /\ \A t \in asleep' \ asleep : call'[t].method = "enqueue"]_vars

\* Once ended, the queue never grows.
NothingAfterEnd == [][ended => items' <= items]_vars
================================================================================
