------------------------------ MODULE ThreadQueue ------------------------------
(***************************************************************************)
(* Thread::Queue: a queue whose methods run under the lock of the shared   *)
(* hash it is kept in and wait on that hash as their only condition.       *)
(* Producers and consumers, whatever number of items each waits for, sleep *)
(* on the same condition, and every method signals one sleeper.            *)
(*                                                                         *)
(* A step is what a thread does between taking the lock and giving it up   *)
(* (to the caller or to cond_wait): SharedLock shows that no other thread  *)
(* gets in between.  Items are counted, not named.                         *)
(***************************************************************************)
EXTENDS Naturals, FiniteSets

CONSTANTS
    Thread,     \* the threads that use the queue
    Producer,   \* those that add items
    Consumer,   \* those that remove items
    Batches,    \* how many items one call of enqueue or insert adds
    Counts,     \* how many items one call of a dequeue method asks for
    Limits,     \* the values LIMIT is created with, 0 for none
    NewLimits,  \* the values the program gives LIMIT later
    Unshareable, \* whether some of what is added cannot be shared
    MaxItems    \* bound: no call of enqueue or insert starts beyond it

ASSUME QueueAssumption ==
    /\ IsFiniteSet(Thread)
    /\ Producer \cup Consumer \subseteq Thread
    /\ Batches \subseteq Nat
    /\ Counts \subseteq Nat \ {0}
    /\ Limits \cup NewLimits \subseteq Nat
    /\ Unshareable \in BOOLEAN
    /\ MaxItems \in Nat

VARIABLES
    items,      \* the number of items on the queue
    limit,      \* LIMIT, 0 when it is not set
    ended,      \* ENDED
    call,       \* call[t]: the blocking method t is in, and its argument
    asleep      \* the threads in cond_wait or cond_timedwait

vars == <<items, limit, ended, call, asleep>>

NoCall == [method |-> "none", n |-> 0]
Blocking == [method : {"enqueue", "dequeue", "dequeue_timed", "expired"}, n : Nat]

Init ==
    /\ items = 0
    /\ limit \in Limits
    /\ ended = FALSE
    /\ call = [t \in Thread |-> NoCall]
    /\ asleep = {}

Idle(t) == call[t] = NoCall
Awake(t) == ~ Idle(t) /\ t \notin asleep

\* cond_signal wakes one sleeper, whichever the system picks.
CondSignal ==
    IF asleep = {} THEN UNCHANGED asleep
    ELSE \E t \in asleep : asleep' = asleep \ {t}

Sleep(t, method, n) ==
    /\ asleep' = asleep \cup {t}
    /\ call' = [call EXCEPT ![t] = [method |-> method, n |-> n]]
    /\ UNCHANGED <<items, limit, ended>>

Return(t) == call' = [call EXCEPT ![t] = NoCall]

-----------------------------------------------------------------------------
\* Adding items.

Full == limit > 0 /\ items >= limit

\* How many of n items shared_clone returns.  One that cannot be shared makes
\* it croak, unless $threads::shared::clone_warn is set: then it is left out.
Clones(n) == IF Unshareable THEN 0 .. n ELSE {n}

\* The wait loop of enqueue and what follows it; ENDED is not looked at again.
\* A croak comes after the wait and before the signal.
Add(t, n) ==
    \/ Full /\ Sleep(t, "enqueue", n)
    \/ /\ ~ Full
       /\ \E k \in Clones(n) : items' = items + k
       /\ IF items' > 0 THEN CondSignal ELSE UNCHANGED asleep
       /\ Return(t)
       /\ UNCHANGED <<limit, ended>>
    \/ /\ ~ Full
       /\ Unshareable /\ n > 0
       /\ Return(t)
       /\ UNCHANGED <<items, limit, ended, asleep>>

Enqueue(t, n) ==
    /\ Idle(t)
    /\ ~ ended
    /\ items <= MaxItems
    /\ Add(t, n)

EnqueueAgain(t) == Awake(t) /\ call[t].method = "enqueue" /\ Add(t, call[t].n)

\* insert pays no regard to LIMIT.  If it croaks, the items that it took off the
\* tail to make room are lost.
Insert(t, n) ==
    /\ Idle(t)
    /\ ~ ended
    /\ n > 0
    /\ items <= MaxItems
    /\ \/ \E k \in Clones(n) : items' = items + k /\ CondSignal
       \/ Unshareable /\ items' \in 0 .. items /\ UNCHANGED asleep
    /\ UNCHANGED <<limit, ended, call>>

-----------------------------------------------------------------------------
\* Removing items.

\* _validate_count
Valid(n) == limit = 0 \/ n <= limit

\* Mutation: who takes items wakes nobody.
TakeWhatThereIs_Silent(t, n) ==
    /\ items' = IF items < n THEN 0 ELSE items - n
    /\ Return(t)
    /\ UNCHANGED <<limit, ended, asleep>>

\* dequeue_nb, also called by the other methods with the lock held: it croaks
\* when LIMIT was lowered below n while the caller slept.
TakeWhatThereIs(t, n) ==
    /\ IF Valid(n)
       THEN /\ items' = IF items < n THEN 0 ELSE items - n
            /\ CondSignal
       ELSE UNCHANGED <<items, asleep>>
    /\ Return(t)
    /\ UNCHANGED <<limit, ended>>

DequeueNb(t, n) == Idle(t) /\ Valid(n) /\ TakeWhatThereIs(t, n)

\* The wait loop of dequeue and what follows it.
Take(t, n) ==
    \/ /\ items < n /\ ~ ended
       /\ Sleep(t, "dequeue", n)
    \/ /\ ended
       /\ TakeWhatThereIs(t, n)
    \/ /\ items >= n /\ ~ ended
       /\ items' = items - n
       /\ CondSignal
       /\ Return(t)
       /\ UNCHANGED <<limit, ended>>

Dequeue(t, n) == Idle(t) /\ Valid(n) /\ Take(t, n)

DequeueAgain(t) == Awake(t) /\ call[t].method = "dequeue" /\ Take(t, call[t].n)

\* The wait loop of dequeue_timed, then dequeue_nb.
TakeTimed(t, n) ==
    \/ /\ items < n /\ ~ ended
       /\ Sleep(t, "dequeue_timed", n)
    \/ /\ items >= n \/ ended
       /\ TakeWhatThereIs(t, n)

DequeueTimed(t, n) == Idle(t) /\ Valid(n) /\ TakeTimed(t, n)

DequeueTimedAgain(t) ==
    /\ Awake(t)
    /\ \/ call[t].method = "dequeue_timed" /\ TakeTimed(t, call[t].n)
       \/ call[t].method = "expired" /\ TakeWhatThereIs(t, call[t].n)

\* cond_timedwait times out; the thread still has to take the lock again.
Expire(t) ==
    /\ t \in asleep
    /\ call[t].method = "dequeue_timed"
    /\ asleep' = asleep \ {t}
    /\ call' = [call EXCEPT ![t].method = "expired"]
    /\ UNCHANGED <<items, limit, ended>>

\* extract: any number of items up to n, depending on the index; nothing is
\* signalled when the index is before the head.
Extract(t, n) ==
    /\ Idle(t)
    /\ Valid(n)
    /\ \/ \E k \in 0 .. n : k <= items /\ items' = items - k /\ CondSignal
       \/ UNCHANGED <<items, asleep>>
    /\ UNCHANGED <<limit, ended, call>>

-----------------------------------------------------------------------------
\* The queue itself.

\* Mutation: nobody is told.
End_Silent(t) ==
    /\ Idle(t)
    /\ ended' = TRUE
    /\ UNCHANGED <<items, limit, call, asleep>>

End(t) ==
    /\ Idle(t)
    /\ ended' = TRUE
    /\ CondSignal
    /\ UNCHANGED <<items, limit, call>>

\* $q->limit = n: the element is assigned after the lock is given up, and
\* nobody is signalled.
SetLimit(t, n) ==
    /\ Idle(t)
    /\ limit' = n
    /\ UNCHANGED <<items, ended, call, asleep>>

Again(t) == EnqueueAgain(t) \/ DequeueAgain(t) \/ DequeueTimedAgain(t)

Next ==
    \/ \E t \in Thread :
          \/ Again(t) \/ Expire(t) \/ End(t)
          \/ \E n \in NewLimits : SetLimit(t, n)
    \/ \E t \in Producer, n \in Batches : Enqueue(t, n) \/ Insert(t, n)
    \/ \E t \in Consumer, n \in Counts :
          Dequeue(t, n) \/ DequeueNb(t, n) \/ DequeueTimed(t, n) \/ Extract(t, n)

Spec == Init /\ [][Next]_vars

\* A thread that was woken runs again, and a time-out comes.
FairSpec == Spec /\ \A t \in Thread : WF_vars(Again(t)) /\ WF_vars(Expire(t))
================================================================================
