------------------------ MODULE ResourceLocksProperties ------------------------
(***************************************************************************)
(* What the callers of libc rely on the many-reader locks for.             *)
(***************************************************************************)
EXTENDS ResourceLocks

\* The sections whose locks t has all got.
Inside(t) ==
    {frames[t][i].section : i \in {j \in DOMAIN frames[t] :
        /\ ~ frames[t][j].leaving
        /\ frames[t][j].taken = Len(Plan(frames[t][j].section))}}

Excludes(m, n) == "x" \in {m, n} /\ "-" \notin {m, n}

Apart(resources) ==
    \A t, u \in Thread : t # u =>
        \A s \in Inside(t), s2 \in Inside(u), r \in resources : ~ Excludes(s[r], s2[r])

\* The purpose of the macros: while one thread is in a section that writes the
\* generic resource or the environment, none is in a section that uses it; and
\* where the locale is one for all threads, the same goes for the locale.
SectionsExclude ==
    Apart(IF build = "separate" THEN Resource ELSE {"gen", "env"})

\* "Any LCx component of a lock macro maps into GENx" (perl.h:8095): two
\* sections that write the global locale never overlap.
LocaleWritersExclude ==
    \A t, u \in Thread : t # u =>
        \A s \in Inside(t), s2 \in Inside(u) : ~ (s["lc"] = "x" /\ s2["lc"] = "x")

\* The counters that macros change in three places each describe the sections
\* the threads are in: readers_count is the number of threads with read access,
\* however nested, and the mutex is kept exactly by the thread that writes.
Level(t, l, mode) ==
    Cardinality({p \in (DOMAIN frames[t]) \X (1 .. 2) :
        /\ p[2] <= frames[t][p[1]].taken
        /\ Plan(frames[t][p[1]].section)[p[2]] = [lock |-> l, mode |-> mode]})
CountersAgree ==
    \A l \in Lock :
        /\ \A t \in Thread :
              /\ xcounter[t][l] = Level(t, l, "x")
              /\ rcounter[t][l] = Level(t, l, "r")
              /\ (holder[l] = t) = (xcounter[t][l] > 0)
        /\ readers[l] = Cardinality({t \in Thread : rcounter[t][l] > 0 /\ xcounter[t][l] = 0})

\* The signal of the last reader, or of a writer, wakes one writer only: as
\* long as one sleeps at a lock that nobody has got, another thread is on its
\* way to the lock and will signal again.
WritersWoken ==
    \A l \in Lock :
        (asleep[l] # {} /\ holder[l] = Nobody /\ readers[l] = 0) =>
            \E t \in Thread : t \notin asleep[l] /\ Entering(t) /\ Next1(t).lock = l

\* t cannot go on before u gives up a lock.
WaitsFor(t, u) ==
    /\ t # u
    /\ Entering(t)
    /\ LET l == Next1(t).lock
       IN  \/ holder[l] = u
           \/ Next1(t).mode = "x" /\ rcounter[u][l] > 0

\* "This prevents deadlock" (perl.h:8098, 8223): whatever two locks the threads
\* take, they never wait for one another in a circle.
NoCircularWait ==
    \A S \in (SUBSET Thread) \ {{}} : \E t \in S : \A u \in S : ~ WaitsFor(t, u)
================================================================================
