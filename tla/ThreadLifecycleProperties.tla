----------------------- MODULE ThreadLifecycleProperties -----------------------
(***************************************************************************)
(* What the threads module has to keep true.                               *)
(***************************************************************************)
EXTENDS ThreadLifecycle, Integers

Places == {"start", "take", "join_count", "join_wait", "detach_free",
           "release", "unlink", "clear", "destruct", "free", "uncount"}

TypeOK ==
    /\ rec \in [Ithread -> Record]
    /\ os \in [Ithread -> {"none", "running", "finished", "releasing", "gone"}]
    /\ objs \in [Interp -> SUBSET Ithread]
    /\ pool \in [running : Int, joinable : Int, detached : Int, total : Int]
    /\ poolMutex \in Interp \cup {Nobody}
    /\ op \in [Interp -> Seq([pc : Places, on : Ithread])]

\* The calls in progress on t that are at one of the given places.
At(t, pcs) ==
    UNION {{<<u, i>> : i \in {j \in 1 .. Len(op[u]) : op[u][j].on = t /\ op[u][j].pc \in pcs}} :
             u \in Interp}

Live(t) == rec[t] # Unborn /\ ~ rec[t].freed

\* The count of a record is one for each object, one for the OS thread, one
\* for join or detach to give back, and one for each release on its way.
CountAccounts ==
    \A t \in Ithread :
        Live(t) =>
            LET objects == Cardinality({u \in Interp : t \in objs[u]})
                runner == IF os[t] \in {"running", "finished"} THEN 1 ELSE 0
                unclaimed == IF Claimed(t) THEN 0 ELSE 1
                pending == Cardinality(At(t, {"release", "join_count", "join_wait", "detach_free"}))
                starting == 2 * Cardinality(At(t, {"start"}))
            IN  rec[t].count = objects + runner + unclaimed + pending + starting

\* A freed record is nobody's: no object, no call, no OS thread and no entry
\* of the list leads to it.
NoDanglingRecord ==
    \A t \in Ithread :
        rec[t].freed =>
            /\ ~ rec[t].listed
            /\ \A u \in Interp : t \notin objs[u]
            /\ At(t, {"start", "take", "release", "unlink", "clear", "destruct", "free",
                      "join_count", "join_wait", "detach_free"}) = {}
            /\ os[t] \notin {"running", "finished"}

\* $thr->error clones out of the interpreter of a thread that died: it is
\* there as long as anybody has an object of that thread.
ErrorKept ==
    \A u \in Interp : \A t \in objs[u] : "DIED" \in rec[t].state => rec[t].interp = "live"

\* The numbers of the exit warning: joined threads leave joinable_threads when
\* join has counted them, finished or not; a thread that pthread_create refused
\* stays in running_threads.
Started(t) == os[t] # "none" \/ At(t, {"start"}) # {}
Has(t, flag) == flag \in rec[t].state
Known == {t \in Ithread : rec[t] # Unborn}
Running == {t \in Known : Started(t) => ~ Has(t, "FINISHED") /\ ~ Has(t, "DETACHED")}
Detached == {t \in Known : Has(t, "DETACHED") /\ ~ Has(t, "FINISHED")}
Finished == {t \in Known : Started(t) /\ Has(t, "FINISHED") /\ ~ Has(t, "DETACHED")}
JoinCounted == {t \in Known : Started(t) /\ Has(t, "JOINED") /\ At(t, {"join_count"}) = {}}
Existing == {t \in Known : ~ rec[t].freed \/ At(t, {"uncount"}) # {}}
CountersAgree ==
    /\ pool.running = Cardinality(Running)
    /\ pool.detached = Cardinality(Detached)
    /\ pool.joinable = Cardinality(Finished) - Cardinality(JoinCounted)
    /\ pool.total = Cardinality(Existing)
================================================================================
