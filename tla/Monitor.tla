-------------------------------- MODULE Monitor --------------------------------
(***************************************************************************)
(* What threads::shared promises to a Perl program that calls lock(),      *)
(* cond_wait(), cond_timedwait(), cond_signal() and cond_broadcast(),      *)
(* stated over the lock() scopes the program has open.                     *)
(***************************************************************************)
EXTENDS Naturals, Sequences

CONSTANTS
    Thread,     \* the interpreters of the process
    Var,        \* the shared variables that are locked or waited on
    Idle        \* what a thread that is not in cond_wait is parked on

VARIABLES
    scopes,     \* scopes[t]: the variables t has locked, innermost scope last
    parked      \* parked[t]: Idle or the wait t is in

vars == <<scopes, parked>>

Wait == [cond : Var, lock : Var, woken : BOOLEAN]

Locked(t) == {scopes[t][i] : i \in DOMAIN scopes[t]}

\* cond_wait gives up the lock it was called with, however often it is taken.
Holds(t, v) == v \in Locked(t) /\ (parked[t] = Idle \/ parked[t].lock # v)

Free(t, v) == \A u \in Thread \ {t} : ~ Holds(u, v)

Init ==
    /\ scopes = [t \in Thread |-> <<>>]
    /\ parked = [t \in Thread |-> Idle]

Enter(t, v) ==
    /\ parked[t] = Idle
    /\ Free(t, v)
    /\ scopes' = [scopes EXCEPT ![t] = Append(@, v)]
    /\ UNCHANGED parked

Exit(t) ==
    /\ parked[t] = Idle
    /\ scopes[t] # <<>>
    /\ scopes' = [scopes EXCEPT ![t] = SubSeq(@, 1, Len(@) - 1)]
    /\ UNCHANGED parked

\* The lock is given up and the wait begins in one step.
Park(t, c, v) ==
    /\ parked[t] = Idle
    /\ Holds(t, v)
    /\ parked' = [parked EXCEPT ![t] = [cond |-> c, lock |-> v, woken |-> FALSE]]
    /\ UNCHANGED scopes

\* Signals, time-outs and spurious wake-ups.
Wake(S) ==
    /\ \A t \in S : parked[t] # Idle
    /\ parked' = [t \in Thread |->
                    IF t \in S THEN [parked[t] EXCEPT !.woken = TRUE] ELSE parked[t]]
    /\ UNCHANGED scopes

Resume(t) ==
    /\ parked[t] # Idle
    /\ parked[t].woken
    /\ Free(t, parked[t].lock)
    /\ parked' = [parked EXCEPT ![t] = Idle]
    /\ UNCHANGED scopes

Next ==
    \/ \E t \in Thread :
          \/ Exit(t) \/ Resume(t)
          \/ \E v \in Var : Enter(t, v) \/ \E c \in Var : Park(t, c, v)
    \/ \E S \in SUBSET Thread : Wake(S)

Spec == Init /\ [][Next]_vars

\* Two threads never hold the lock of one variable.
MutualExclusion ==
    \A v \in Var : \A t, u \in Thread : (Holds(t, v) /\ Holds(u, v)) => t = u
================================================================================
