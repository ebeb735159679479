---------------------------- MODULE ThreadLifecycle ----------------------------
(***************************************************************************)
(* The threads module: ithread records with a reference count, the list    *)
(* and counters of the pool, and create, list, object, self, join, detach  *)
(* and the end of a thread, run by any number of interpreters at once.     *)
(*                                                                         *)
(* A step is a section under one mutex.  The mutex of a record is never    *)
(* kept across steps; the pool's create_destruct_mutex is, by list.        *)
(***************************************************************************)
EXTENDS Naturals, Sequences, FiniteSets

CONSTANTS
    Main,       \* the main interpreter
    Ithread,    \* the records of threads that can be created
    Nobody,
    Creators,   \* the interpreters that call threads->create
    Listers,    \* those that call threads->list and threads->object
    Refused     \* the threads that pthread_create may refuse to start

Interp == {Main} \cup Ithread

ASSUME LifecycleAssumption ==
    /\ Main \notin Ithread
    /\ Nobody \notin Interp
    /\ Creators \cup Listers \subseteq Interp
    /\ Refused \subseteq Ithread

VARIABLES
    rec,        \* rec[t]: the ithread record
    os,         \* os[t]: how far S_ithread_run of t has got
    objs,       \* objs[u]: the records interpreter u has an object for
    pool,       \* the counters of the pool
    poolMutex,  \* who keeps create_destruct_mutex across steps
    op          \* op[u]: the calls u is in, innermost last

vars == <<rec, os, objs, pool, poolMutex, op>>

Flags == {"DETACHED", "JOINED", "FINISHED", "DIED"}
Record == [count : Nat, state : SUBSET Flags, interp : {"none", "live", "gone"},
           listed : BOOLEAN, freed : BOOLEAN]
Unborn == [count |-> 0, state |-> {}, interp |-> "none", listed |-> FALSE, freed |-> FALSE]

Init ==
    /\ rec = [t \in Ithread |-> Unborn]
    /\ os = [t \in Ithread |-> "none"]
    /\ objs = [u \in Interp |-> {}]
    /\ pool = [running |-> 0, joinable |-> 0, detached |-> 0, total |-> 0]
    /\ poolMutex = Nobody
    /\ op = [u \in Interp |-> <<>>]

Frame(pc, t) == [pc |-> pc, on |-> t]
In(u, pc) == op[u] # <<>> /\ op[u][Len(op[u])].pc = pc
On(u) == op[u][Len(op[u])].on
Outer(calls) == SubSeq(calls, 1, Len(calls) - 1)
Push(u, pc, t) == op' = [op EXCEPT ![u] = Append(@, Frame(pc, t))]
Pop(u) == op' = [op EXCEPT ![u] = Outer(@)]
Become(u, pc) == op' = [op EXCEPT ![u] = Append(Outer(@), Frame(pc, On(u)))]
\* First pc, then after.
BecomeBoth(u, pc, after) ==
    op' = [op EXCEPT ![u] = Append(Append(Outer(@), Frame(after, On(u))), Frame(pc, On(u)))]

\* u runs Perl code and may call a method.
Calls(u) == op[u] = <<>> /\ (u # Main => os[u] = "running")

Claimed(t) == rec[t].state \cap {"DETACHED", "JOINED"} # {}
PoolFree == poolMutex = Nobody

-----------------------------------------------------------------------------
\* S_ithread_create.

\* Mutation: the objects the clone gets are not counted.
Counted_Uncloned(u, r) == rec[r]

\* ithread_mg_dup: one more object of r when u is cloned.
Counted(u, r) == IF r \in objs[u] THEN [rec[r] EXCEPT !.count = @ + 1] ELSE rec[r]

\* The interpreter is cloned, with its thread objects; the record enters the
\* list before the thread exists.
Create(u, t) ==
    /\ Calls(u)
    /\ u \in Creators
    /\ rec[t] = Unborn
    /\ PoolFree
    /\ rec' = [r \in Ithread |->
                 IF r = t THEN [Unborn EXCEPT !.count = 3, !.interp = "live", !.listed = TRUE]
                 ELSE Counted(u, r)]
    /\ objs' = [objs EXCEPT ![t] = objs[u]]
    /\ pool' = [pool EXCEPT !.total = @ + 1, !.running = @ + 1]
    /\ Push(u, "start", t)
    /\ UNCHANGED <<os, poolMutex>>

Start(u) ==
    /\ In(u, "start")
    /\ os' = [os EXCEPT ![On(u)] = "running"]
    /\ objs' = [objs EXCEPT ![u] = @ \cup {On(u)}]
    /\ Pop(u)
    /\ UNCHANGED <<rec, pool, poolMutex>>

\* pthread_create failed.
StartFails(u) ==
    /\ In(u, "start")
    /\ On(u) \in Refused
    /\ rec' = [rec EXCEPT ![On(u)].count = 1,
                          ![On(u)].state = @ \cup {"FINISHED", "JOINED"}]
    /\ Become(u, "release")
    /\ UNCHANGED <<os, objs, pool, poolMutex>>

-----------------------------------------------------------------------------
\* S_ithread_dec_free and S_ithread_clear.

Release(u) ==
    /\ In(u, "release")
    /\ LET t == On(u)
       IN  /\ rec' = [rec EXCEPT ![t].count = @ - 1]
           /\ IF rec[t].count > 1 THEN Pop(u) ELSE Become(u, "unlink")
    /\ UNCHANGED <<os, objs, pool, poolMutex>>

Unlink(u) ==
    /\ In(u, "unlink")
    /\ PoolFree
    /\ rec' = [rec EXCEPT ![On(u)].listed = FALSE]
    /\ BecomeBoth(u, "clear", "free")
    /\ UNCHANGED <<os, objs, pool, poolMutex>>

\* thread->interp is NULL before the mutex is given up for perl_destruct.
Clear(u) ==
    /\ In(u, "clear")
    /\ IF rec[On(u)].interp = "live"
       THEN /\ rec' = [rec EXCEPT ![On(u)].interp = "gone"]
            /\ Become(u, "destruct")
       ELSE Pop(u) /\ UNCHANGED rec
    /\ UNCHANGED <<os, objs, pool, poolMutex>>

\* perl_destruct frees the thread objects of the interpreter.
Destruct(u) ==
    /\ In(u, "destruct")
    /\ \/ \E r \in objs[On(u)] :
             /\ objs' = [objs EXCEPT ![On(u)] = @ \ {r}]
             /\ Push(u, "release", r)
       \/ /\ objs[On(u)] = {}
          /\ Pop(u)
          /\ UNCHANGED objs
    /\ UNCHANGED <<rec, os, pool, poolMutex>>

FreeRecord(u) ==
    /\ In(u, "free")
    /\ rec' = [rec EXCEPT ![On(u)].freed = TRUE]
    /\ Become(u, "uncount")
    /\ UNCHANGED <<os, objs, pool, poolMutex>>

\* "Decrement this as the very last thing in the thread's existence."
Uncount(u) ==
    /\ In(u, "uncount")
    /\ PoolFree
    /\ pool' = [pool EXCEPT !.total = @ - 1]
    /\ Pop(u)
    /\ UNCHANGED <<rec, os, objs, poolMutex>>

-----------------------------------------------------------------------------
\* Thread objects.

\* ithread_mg_free
Drop(u, t) ==
    /\ Calls(u)
    /\ t \in objs[u]
    /\ objs' = [objs EXCEPT ![u] = @ \ {t}]
    /\ Push(u, "release", t)
    /\ UNCHANGED <<rec, os, pool, poolMutex>>

\* threads->self
Self(t) ==
    /\ Calls(t)
    /\ t \notin {Main} \cup objs[t]
    /\ objs' = [objs EXCEPT ![t] = @ \cup {t}]
    /\ rec' = [rec EXCEPT ![t].count = @ + 1]
    /\ UNCHANGED <<os, pool, poolMutex, op>>

\* threads->list and threads->object read the state of a listed thread and
\* make an object of it, all the while keeping the pool's mutex.
Look(u, t) ==
    /\ Calls(u)
    /\ u \in Listers
    /\ PoolFree
    /\ rec[t].listed
    /\ ~ Claimed(t)
    /\ t \notin objs[u]
    /\ poolMutex' = u
    /\ Push(u, "take", t)
    /\ UNCHANGED <<rec, os, objs, pool>>

TakeObject(u) ==
    /\ In(u, "take")
    /\ rec' = [rec EXCEPT ![On(u)].count = @ + 1]
    /\ objs' = [objs EXCEPT ![u] = @ \cup {On(u)}]
    /\ poolMutex' = Nobody
    /\ Pop(u)
    /\ UNCHANGED <<os, pool>>

-----------------------------------------------------------------------------
\* $thr->join

Join(u, t) ==
    /\ Calls(u)
    /\ t \in objs[u] \ {u}
    /\ ~ Claimed(t)
    /\ rec' = [rec EXCEPT ![t].state = @ \cup {"JOINED"}]
    /\ Push(u, "join_count", t)
    /\ UNCHANGED <<os, objs, pool, poolMutex>>

\* Mutation: join does not wait for the mutex of the pool.
JoinCount_Unlocked(u) ==
    /\ In(u, "join_count")
    /\ pool' = [pool EXCEPT !.joinable = @ - 1]
    /\ Become(u, "join_wait")
    /\ UNCHANGED <<rec, os, objs, poolMutex>>

JoinCount(u) ==
    /\ In(u, "join_count")
    /\ PoolFree
    /\ pool' = [pool EXCEPT !.joinable = @ - 1]
    /\ Become(u, "join_wait")
    /\ UNCHANGED <<rec, os, objs, poolMutex>>

\* Mutation: the interpreter goes with the thread.
Reclaim_Died(u) ==
    IF "FINISHED" \in rec[On(u)].state
    THEN BecomeBoth(u, "clear", "release")
    ELSE Become(u, "release")

\* The interpreter of a thread that died is kept for $thr->error.
Reclaim(u) ==
    IF {"FINISHED", "DIED"} \cap rec[On(u)].state = {"FINISHED"}
    THEN BecomeBoth(u, "clear", "release")
    ELSE Become(u, "release")

\* pthread_join returns, the results are cloned.
JoinDone(u) ==
    /\ In(u, "join_wait")
    /\ os[On(u)] = "gone"
    /\ Reclaim(u)
    /\ UNCHANGED <<rec, os, objs, pool, poolMutex>>

-----------------------------------------------------------------------------
\* $thr->detach and threads->detach

Detach(u, t) ==
    /\ Calls(u)
    /\ t \in objs[u] \/ t = u
    /\ ~ Claimed(t)
    /\ PoolFree
    /\ rec' = [rec EXCEPT ![t].state = @ \cup {"DETACHED"}]
    /\ pool' = IF "FINISHED" \in rec[t].state
               THEN [pool EXCEPT !.joinable = @ - 1]
               ELSE [pool EXCEPT !.running = @ - 1, !.detached = @ + 1]
    /\ Push(u, "detach_free", t)
    /\ UNCHANGED <<os, objs, poolMutex>>

DetachFree(u) ==
    /\ In(u, "detach_free")
    /\ Reclaim(u)
    /\ UNCHANGED <<rec, os, objs, pool, poolMutex>>

-----------------------------------------------------------------------------
\* The end of S_ithread_run.

\* Mutation: every thread that ends was a running one and can be joined.
EndCounted_Joinable(t) == [pool EXCEPT !.running = @ - 1, !.joinable = @ + 1]

EndCounted(t) ==
    IF "DETACHED" \in rec[t].state
    THEN [pool EXCEPT !.detached = @ - 1]
    ELSE [pool EXCEPT !.running = @ - 1, !.joinable = @ + 1]

Finish(t) ==
    /\ t # Main
    /\ Calls(t)
    /\ PoolFree
    /\ os' = [os EXCEPT ![t] = "finished"]
    /\ \E died \in {{}, {"DIED"}} :
          rec' = [rec EXCEPT ![t].state = @ \cup {"FINISHED"} \cup died]
    /\ pool' = EndCounted(t)
    /\ UNCHANGED <<objs, poolMutex, op>>

\* After thread_locale_term(), which still works on the interpreter.
EndRun(t) ==
    /\ t # Main
    /\ os[t] = "finished"
    /\ os' = [os EXCEPT ![t] = "releasing"]
    /\ Push(t, "release", t)
    /\ UNCHANGED <<rec, objs, pool, poolMutex>>

\* One more lock and unlock of the pool's mutex, and the OS thread is gone.
Gone(t) ==
    /\ t # Main
    /\ os[t] = "releasing"
    /\ op[t] = <<>>
    /\ PoolFree
    /\ os' = [os EXCEPT ![t] = "gone"]
    /\ UNCHANGED <<rec, objs, pool, poolMutex, op>>

Next ==
    \E u \in Interp :
        \/ Start(u) \/ StartFails(u) \/ TakeObject(u)
        \/ Release(u) \/ Unlink(u) \/ Clear(u) \/ Destruct(u) \/ FreeRecord(u) \/ Uncount(u)
        \/ JoinCount(u) \/ JoinDone(u) \/ DetachFree(u)
        \/ Self(u) \/ Finish(u) \/ EndRun(u) \/ Gone(u)
        \/ \E t \in Ithread :
              Create(u, t) \/ Drop(u, t) \/ Look(u, t) \/ Join(u, t) \/ Detach(u, t)

Spec == Init /\ [][Next]_vars
================================================================================
