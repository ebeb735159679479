-------------------------- MODULE SharedLockInvariant --------------------------
(***************************************************************************)
(* What every step of the locks of threads::shared preserves.              *)
(***************************************************************************)
EXTENDS SharedLockProperties

\* A thread in cond_wait waits with a pair of the program, and has the mutex of
\* the condition to take only when the condition was in use with another lock.
WaitsOK ==
    \A t \in Thread : InWait(t) =>
        /\ <<at[t].cond, at[t].lock>> \in Pairs
        /\ at[t].pc \in {"enter", "leave"} => at[t].multi

\* Mutexes are kept across steps by cond_wait only: that of its lock from the
\* first step until it sleeps and again from when the lock is free until it has
\* it, that of the condition for the update of waiters.
Keeps(t, v) ==
    \/ at[t].pc \in {"enter", "entering", "leave", "leaving"} /\ v = at[t].lock
    \/ at[t].pc \in {"entering", "leaving"} /\ at[t].multi /\ v = at[t].cond
MutexesKept ==
    /\ \A t \in Thread, v \in Var : mutex[v] = t <=> Keeps(t, v)
    /\ \A t \in Thread : at[t].pc \in {"enter", "entering", "leave", "leaving"} =>
          lock[at[t].lock].owner = Nobody

\* owner and locks agree with the scopes a thread has open; the lock a thread
\* waits with is another's, and its depth is put by.
Places(s, v) == {i \in DOMAIN s : s[i] = v}
Taken(t, v) == Places(scopes[t], v)
Parks(t, v) == InWait(t) /\ at[t].lock = v
Depth(t, v) == IF Parks(t, v) THEN at[t].depth
               ELSE IF lock[v].owner = t THEN lock[v].locks ELSE 0
LocksMatchScopes ==
    /\ \A t \in Thread, v \in Var :
          /\ IsFiniteSet(Taken(t, v))
          /\ Cardinality(Taken(t, v)) = Depth(t, v)
          /\ Parks(t, v) => lock[v].owner # t /\ at[t].depth > 0
    /\ \A v \in Var : lock[v].owner = Nobody <=> lock[v].locks = 0

\* Who sleeps on the C conditions.
SleepsOK ==
    \A t \in Thread, v \in Var :
        /\ t \in sleepers[v] => at[t].pc = "waiting" /\ at[t].cond = v
        /\ t \in contenders[v] =>
              /\ at[t].pc \in {"acquire", "waiting"}
              /\ at[t].lock = v
              /\ at[t].pc = "waiting" => t \notin sleepers[at[t].cond]

\* One mutex guards waiters and cur_lock of a condition used with one lock: no
\* update of them is based on an old value.
UpdatesOK ==
    \A c, v \in Var : OnlyWith(c, v) =>
        /\ IsFiniteSet(Inside(c))
        /\ \A t \in Thread : InWait(t) /\ at[t].cond = c =>
              /\ ~ at[t].multi
              /\ at[t].pc \in {"entering", "leaving"} => at[t].seen = waiters[c]

IndInv ==
    /\ TypeOK
    /\ WaitsOK
    /\ MutexesKept
    /\ LocksMatchScopes
    /\ SleepsOK
    /\ UpdatesOK
    /\ WaitersCounted
    /\ LockHandedOn
================================================================================
