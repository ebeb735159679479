------------------------------ MODULE SharedLock ------------------------------
(***************************************************************************)
(* User-level locks of threads::shared: the user_lock attached to each     *)
(* shared variable (a recursive lock, a condition, a waiters count) and    *)
(* the calls lock(), cond_wait(), cond_timedwait(), cond_signal() and      *)
(* cond_broadcast().                                                       *)
(*                                                                         *)
(* A step is what happens under one C mutex.  Only cond_wait keeps one     *)
(* across steps: it updates the fields of the condition variable under the *)
(* mutex of the lock variable, and takes the second mutex as well when it  *)
(* notices that the condition is in use with another lock.                 *)
(***************************************************************************)
EXTENDS Integers, Sequences, FiniteSets

CONSTANTS
    Thread,     \* the interpreters of the process
    Var,        \* the shared variables
    Nobody,     \* NULL
    Lockable,   \* the variables the program calls lock() on
    Pairs,      \* the <<condition, lock>> pairs it calls cond_wait with
    MaxScopes,  \* bound: lock() scopes a thread has open at once
    MaxWaiters  \* bound: no wait begins while waiters is beyond it

ASSUME SharedAssumption ==
    /\ Nobody \notin Thread \cup Var
    /\ Lockable \subseteq Var
    /\ Pairs \subseteq Var \X Lockable
    /\ MaxScopes \in Nat
    /\ MaxWaiters \in Nat

VARIABLES
    lock,       \* lock[v]: owner and locks of the recursive_lock_t
    mutex,      \* mutex[v]: who keeps lock.mutex across steps
    contenders, \* contenders[v]: threads asleep on lock.cond
    sleepers,   \* sleepers[v]: threads asleep on user_cond
    waiters,    \* waiters[v]: the C field
    curLock,    \* curLock[v]: the C field cur_lock
    scopes,     \* scopes[t]: recursive_lock_release entries of the save stack
    at          \* at[t]: where t is

vars == <<lock, mutex, contenders, sleepers, waiters, curLock, scopes, at>>

Running == [pc |-> "run"]
Acquiring == [pc : {"acquire"}, lock : Var]
\* depth: the saved locks; seen: the value of waiters read for an update.
Waiting == [pc : {"enter", "entering", "waiting", "leave", "leaving"},
            cond : Var, lock : Var, depth : Nat, multi : BOOLEAN, seen : Int]

InWait(t) == at[t].pc \notin {"run", "acquire"}

Unlocked == [owner |-> Nobody, locks |-> 0]

Init ==
    /\ lock = [v \in Var |-> Unlocked]
    /\ mutex = [v \in Var |-> Nobody]
    /\ contenders = [v \in Var |-> {}]
    /\ sleepers = [v \in Var |-> {}]
    /\ waiters = [v \in Var |-> 0]
    /\ curLock = [v \in Var |-> Nobody]
    /\ scopes = [t \in Thread |-> <<>>]
    /\ at = [t \in Thread |-> Running]

\* COND_SIGNAL: one sleeper, if there is one, goes back for the mutex.
OneOf(S) == IF S = {} THEN {{}} ELSE {{t} : t \in S}

-----------------------------------------------------------------------------
\* Mutation: the last release signals nobody.
HandOn_Silent(v) == UNCHANGED contenders

\* A lock that becomes free wakes one of those who wait for it.
HandOn(v) ==
    \E S \in OneOf(contenders[v]) : contenders' = [contenders EXCEPT ![v] = @ \ S]

\* recursive_lock_acquire, with the deferred release on the save stack.

Owned(t, v) ==
    /\ lock[v].owner \in {t, Nobody}
    /\ lock' = [lock EXCEPT ![v] = [owner |-> t, locks |-> @.locks + 1]]
    /\ scopes' = [scopes EXCEPT ![t] = Append(@, v)]
    /\ at' = [at EXCEPT ![t] = Running]
    /\ UNCHANGED contenders

Contend(t, v) ==
    /\ lock[v].owner \notin {t, Nobody}
    /\ contenders' = [contenders EXCEPT ![v] = @ \cup {t}]
    /\ at' = [at EXCEPT ![t] = [pc |-> "acquire", lock |-> v]]
    /\ UNCHANGED <<lock, scopes>>

Lock(t, v) ==
    /\ at[t].pc = "run"
    /\ Len(scopes[t]) < MaxScopes
    /\ mutex[v] = Nobody
    /\ Owned(t, v) \/ Contend(t, v)
    /\ UNCHANGED <<mutex, sleepers, waiters, curLock>>

\* The loop around COND_WAIT(&lock->cond), after a wake-up.
Relock(t) ==
    /\ at[t].pc = "acquire"
    /\ LET v == at[t].lock
       IN  /\ t \notin contenders[v]
           /\ mutex[v] = Nobody
           /\ Owned(t, v) \/ Contend(t, v)
    /\ UNCHANGED <<mutex, sleepers, waiters, curLock>>

\* recursive_lock_release, run by the end of the innermost scope.
Release(t) ==
    /\ at[t].pc = "run"
    /\ scopes[t] # <<>>
    /\ LET v == scopes[t][Len(scopes[t])]
       IN  /\ mutex[v] = Nobody
           /\ scopes' = [scopes EXCEPT ![t] = SubSeq(@, 1, Len(@) - 1)]
           /\ IF lock[v].owner # t THEN UNCHANGED <<lock, contenders>>
              ELSE IF lock[v].locks > 1
              THEN /\ lock' = [lock EXCEPT ![v].locks = @ - 1]
                   /\ UNCHANGED contenders
              ELSE /\ lock' = [lock EXCEPT ![v] = Unlocked]
                   /\ HandOn(v)
    /\ UNCHANGED <<mutex, sleepers, waiters, curLock, at>>

-----------------------------------------------------------------------------
\* S_do_cond_timedwait.

\* Mutation: the lock of waits that are over counts.
OtherLock_NoCount(c, v) == curLock[c] # v

\* "cond_wait() called on multiple locks".
OtherLock(c, v) == waiters[c] > 0 /\ curLock[c] # v

\* Mutation: the mutex is dropped before the wait begins.
KeepMutex_Drops(t, v) == UNCHANGED mutex

KeepMutex(t, v) == mutex' = [mutex EXCEPT ![v] = t]

\* The lock is given up completely; its mutex is kept until the wait begins.
CondWait(t, c, v) ==
    /\ at[t].pc = "run"
    /\ lock[v].owner = t
    /\ waiters[c] \in 0 .. MaxWaiters
    /\ mutex[v] = Nobody
    /\ KeepMutex(t, v)
    /\ lock' = [lock EXCEPT ![v] = Unlocked]
    /\ HandOn(v)
    /\ at' = [at EXCEPT ![t] =
                [pc |-> IF OtherLock(c, v) THEN "enter" ELSE "entering",
                 cond |-> c, lock |-> v, depth |-> lock[v].locks,
                 multi |-> OtherLock(c, v), seen |-> waiters[c]]]
    /\ UNCHANGED <<sleepers, waiters, curLock, scopes>>

\* MUTEX_LOCK(&cl->lock.mutex) while the mutex of the lock is held.
TakeCondMutex(t) ==
    /\ at[t].pc \in {"enter", "leave"}
    /\ LET c == at[t].cond
       IN  /\ mutex[c] = Nobody
           /\ mutex' = [mutex EXCEPT ![c] = t]
           /\ at' = [at EXCEPT
                       ![t].pc = IF @ = "enter" THEN "entering" ELSE "leaving",
                       ![t].seen = waiters[c]]
    /\ UNCHANGED <<lock, contenders, sleepers, waiters, curLock, scopes>>

DropMutexes(t) == mutex' = [v \in Var |-> IF mutex[v] = t THEN Nobody ELSE mutex[v]]

\* waiters++, cur_lock, and the wait on user_cond, which drops the mutex.
FallAsleep(t) ==
    /\ at[t].pc = "entering"
    /\ LET c == at[t].cond
       IN  /\ waiters' = [waiters EXCEPT ![c] = at[t].seen + 1]
           /\ curLock' = [curLock EXCEPT ![c] = at[t].lock]
           /\ sleepers' = [sleepers EXCEPT ![c] = @ \cup {t}]
    /\ DropMutexes(t)
    /\ at' = [at EXCEPT ![t].pc = "waiting", ![t].seen = 0]
    /\ UNCHANGED <<lock, contenders, scopes>>

\* The time-out of cond_timedwait, or a wake-up nobody asked for.
WakeUnsignalled(t) ==
    /\ at[t].pc = "waiting"
    /\ t \in sleepers[at[t].cond]
    /\ sleepers' = [sleepers EXCEPT ![at[t].cond] = @ \ {t}]
    /\ UNCHANGED <<lock, mutex, contenders, waiters, curLock, scopes, at>>

\* The loop that waits for the lock to become free again.
Reacquire(t) ==
    /\ at[t].pc = "waiting"
    /\ LET v == at[t].lock
       IN  /\ t \notin sleepers[at[t].cond] \cup contenders[v]
           /\ mutex[v] = Nobody
           /\ \/ /\ lock[v].owner # Nobody
                 /\ contenders' = [contenders EXCEPT ![v] = @ \cup {t}]
                 /\ UNCHANGED <<mutex, at>>
              \/ /\ lock[v].owner = Nobody
                 /\ mutex' = [mutex EXCEPT ![v] = t]
                 /\ at' = [at EXCEPT
                             ![t].pc = IF at[t].multi THEN "leave" ELSE "leaving",
                             ![t].seen = waiters[at[t].cond]]
                 /\ UNCHANGED contenders
    /\ UNCHANGED <<lock, sleepers, waiters, curLock, scopes>>

\* Mutation: one level of the lock is taken back.
TakenBack_Once(t) == [owner |-> t, locks |-> 1]

TakenBack(t) == [owner |-> t, locks |-> at[t].depth]

\* Mutation: cur_lock outlives the last wait.
LastOut_Keeps(t) == UNCHANGED curLock

LastOut(t) ==
    curLock' = IF at[t].seen = 1 THEN [curLock EXCEPT ![at[t].cond] = Nobody] ELSE curLock

\* --waiters; the lock is taken back at the depth it had.
LeaveWait(t) ==
    /\ at[t].pc = "leaving"
    /\ waiters' = [waiters EXCEPT ![at[t].cond] = at[t].seen - 1]
    /\ LastOut(t)
    /\ lock' = [lock EXCEPT ![at[t].lock] = TakenBack(t)]
    /\ DropMutexes(t)
    /\ at' = [at EXCEPT ![t] = Running]
    /\ UNCHANGED <<contenders, sleepers, scopes>>

-----------------------------------------------------------------------------
\* cond_signal and cond_broadcast, with or without the lock.

SignalMutex(c) == IF curLock[c] # Nobody THEN curLock[c] ELSE c

Signal(t, c) ==
    /\ at[t].pc = "run"
    /\ mutex[SignalMutex(c)] = Nobody
    /\ \E S \in OneOf(sleepers[c]) : sleepers' = [sleepers EXCEPT ![c] = @ \ S]
    /\ UNCHANGED <<lock, mutex, contenders, waiters, curLock, scopes, at>>

Broadcast(t, c) ==
    /\ at[t].pc = "run"
    /\ mutex[SignalMutex(c)] = Nobody
    /\ sleepers' = [sleepers EXCEPT ![c] = {}]
    /\ UNCHANGED <<lock, mutex, contenders, waiters, curLock, scopes, at>>

Next ==
    \E t \in Thread :
        \/ \E v \in Lockable : Lock(t, v)
        \/ Relock(t) \/ Release(t)
        \/ \E p \in Pairs : CondWait(t, p[1], p[2])
        \/ TakeCondMutex(t) \/ FallAsleep(t) \/ WakeUnsignalled(t)
        \/ Reacquire(t) \/ LeaveWait(t)
        \/ \E p \in Pairs : Signal(t, p[1]) \/ Broadcast(t, p[1])

Spec == Init /\ [][Next]_vars
================================================================================
