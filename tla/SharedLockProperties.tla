------------------------- MODULE SharedLockProperties -------------------------
(***************************************************************************)
(* What the locks of threads::shared have to keep true.                    *)
(***************************************************************************)
EXTENDS SharedLock

TypeOK ==
    /\ lock \in [Var -> [owner : Thread \cup {Nobody}, locks : Nat]]
    /\ mutex \in [Var -> Thread \cup {Nobody}]
    /\ contenders \in [Var -> SUBSET Thread]
    /\ sleepers \in [Var -> SUBSET Thread]
    /\ waiters \in [Var -> Int]
    /\ curLock \in [Var -> Var \cup {Nobody}]
    /\ scopes \in [Thread -> Seq(Var)]
    /\ at \in [Thread -> {Running} \cup Acquiring \cup Waiting]

OnItsWay(t, v) ==
    /\ at[t].pc \in {"acquire", "waiting", "leave", "leaving"}
    /\ at[t].lock = v
    /\ at[t].pc = "waiting" => t \notin sleepers[at[t].cond]
\* A release always leaves somebody awake to take the lock: nobody sleeps on
\* lock.cond of a free lock unless another thread is on its way to it.
\* COND_SIGNAL wakes one thread, and that one may find the lock taken again.
LockHandedOn ==
    \A v \in Var :
        (lock[v].owner = Nobody /\ contenders[v] # {}) =>
            \E t \in Thread \ contenders[v] : OnItsWay(t, v)

\* "The two actions of unlocking the variable and entering the blocked wait
\* state are atomic": a signal sent under the lock that a waiter gave up is
\* never lost, and a broadcast misses none of them.
NotSignalled(c) == {u \in Thread : /\ InWait(u)
                                   /\ at[u].cond = c
                                   /\ \/ at[u].pc \in {"enter", "entering"}
                                      \/ u \in sleepers[c]}
NoSignalLost ==
    [][\A t \in Thread, c \in Var :
          LET due == {u \in NotSignalled(c) : lock[at[u].lock].owner = t}
          IN  /\ (Signal(t, c) /\ due # {}) => NotSignalled(c)' # NotSignalled(c)
              /\ Broadcast(t, c) => due \cap NotSignalled(c)' = {}]_vars

\* While a condition is used with one lock only, waiters counts the threads
\* inside cond_wait on it and cur_lock names their lock; so cond_signal never
\* follows a pointer to the lock of a variable that nobody waits with.
Inside(c) == {t \in Thread : InWait(t) /\ at[t].cond = c
                                /\ at[t].pc \notin {"enter", "entering"}}
OnlyWith(c, v) == {p \in Pairs : p[1] = c} = {<<c, v>>}
WaitersCounted ==
    \A c, v \in Var :
        OnlyWith(c, v) =>
            /\ waiters[c] = Cardinality(Inside(c))
            /\ curLock[c] = IF Inside(c) = {} THEN Nobody ELSE v

\* The discipline of a program: following the pairs of the conditions that are
\* used with several locks from condition to lock never leads back.
PairsInOrder ==
    LET several == {p \in Pairs : ~ OnlyWith(p[1], p[2])}
    IN  \A C \in (SUBSET Var) \ {{}} : \E v \in C : \A c \in C : <<c, v>> \notin several

\* cond_wait asks for the mutex of the condition while it keeps that of the
\* lock: in a program whose pairs are in order no threads wait for one another
\* in a circle, nor a thread for itself.
WaitsFor(t, u) == at[t].pc \in {"enter", "leave"} /\ mutex[at[t].cond] = u
MutexOrder ==
    \A S \in (SUBSET Thread) \ {{}} : \E t \in S : \A u \in S : ~ WaitsFor(t, u)

-----------------------------------------------------------------------------
\* The C structures implement the monitor the documentation describes.

NoWait == [cond |-> Nobody, lock |-> Nobody, woken |-> FALSE]

Parked ==
    [t \in Thread |->
        IF ~ InWait(t) THEN NoWait
        ELSE [cond |-> at[t].cond, lock |-> at[t].lock,
              woken |-> t \notin NotSignalled(at[t].cond)]]

Promise == INSTANCE Monitor WITH parked <- Parked, Idle <- NoWait

\* owner and locks, which cond_wait resets and restores, give the program the
\* mutual exclusion of the lock() scopes it has open.
ImplementsMonitor == Promise!Spec
================================================================================
