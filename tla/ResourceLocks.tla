----------------------------- MODULE ResourceLocks -----------------------------
(***************************************************************************)
(* The many-reader locks of a threaded perl: two perl_RnW1_mutex_t, "env"  *)
(* and "locale", made recursive by a pair of counters per thread, and the  *)
(* 26 compound macros that map what a libc function needs (the generic     *)
(* resource, the environment, the locale, each for reading or writing) to  *)
(* the two of them.                                                        *)
(*                                                                         *)
(* A step takes or gives up one lock.  The C mutex of a lock is kept       *)
(* across steps by an exclusive owner only.                                *)
(***************************************************************************)
EXTENDS Naturals, Sequences, FiniteSets

CONSTANTS
    Thread,
    Nobody,
    Sections,   \* what the libc calls of the program need: gen, env, lc
    MaxNest,    \* bound: sections a thread is in at once
    Builds      \* "repurposed": thread-safe locales, or none; "separate"

Lock == {"env", "locale"}
Resource == {"gen", "env", "lc"}
Need == {"-", "r", "x"}

ASSUME ResourceAssumption ==
    /\ Nobody \notin Thread
    /\ Sections \subseteq [Resource -> Need]
    /\ MaxNest \in Nat
    /\ Builds \subseteq {"repurposed", "separate"}

VARIABLES
    build,      \* which definitions of the macros the perl was compiled with
    holder,     \* holder[l]: who keeps the mutex
    readers,    \* readers[l]: readers_count
    asleep,     \* asleep[l]: the threads in COND_WAIT on wakeup
    xcounter,   \* xcounter[t][l], rcounter[t][l]: the thread's own counters
    rcounter,
    frames      \* frames[t]: the sections t is in, innermost last

vars == <<build, holder, readers, asleep, xcounter, rcounter, frames>>

Init ==
    /\ build \in Builds
    /\ holder = [l \in Lock |-> Nobody]
    /\ readers = [l \in Lock |-> 0]
    /\ asleep = [l \in Lock |-> {}]
    /\ xcounter = [t \in Thread |-> [l \in Lock |-> 0]]
    /\ rcounter = [t \in Thread |-> [l \in Lock |-> 0]]
    /\ frames = [t \in Thread |-> <<>>]

-----------------------------------------------------------------------------
\* The compound macros: the locks a section takes, in the order they are taken.

Take(l, mode) == IF mode = "-" THEN <<>> ELSE <<[lock |-> l, mode |-> mode]>>

\* The stronger of two needs met by one lock.
Strongest(m, n) == IF "x" \in {m, n} THEN "x" ELSE IF "r" \in {m, n} THEN "r" ELSE "-"

\* Mutation: an exclusive generic lock is taken last.
Repurposed_Order(s) ==
    LET gen == Take("locale", Strongest(s["gen"], IF s["env"] = "-" THEN s["lc"] ELSE "-"))
        env == Take("env", s["env"])
    IN  IF s["gen"] = "x" THEN env \o gen ELSE gen \o env

\* The locale mutex serves as the generic one.  LCr is a no-op; LCx is GENx,
\* but in the company of an ENV component it is dropped.
Repurposed(s) ==
    LET lc == IF s["env"] = "-" /\ s["lc"] = "x" THEN "x" ELSE "-"
    IN  Take("locale", Strongest(s["gen"], lc)) \o Take("env", s["env"])

\* Mutation: a macro with GEN and ENV goes by GEN.
Separate_Gen(s) ==
    Take("env", IF s["gen"] = "-" THEN s["env"] ELSE s["gen"])
    \o Take("locale", IF s["lc"] = "-" THEN "-" ELSE "x")

\* The env mutex serves as the generic one; LCr is taken exclusively.
Separate(s) ==
    Take("env", Strongest(s["gen"], s["env"])) \o Take("locale", IF s["lc"] = "-" THEN "-" ELSE "x")

Plan(s) == IF build = "repurposed" THEN Repurposed(s) ELSE Separate(s)

-----------------------------------------------------------------------------

Innermost(t) == frames[t][Len(frames[t])]
Entering(t) ==
    frames[t] # <<>> /\ ~ Innermost(t).leaving /\ Innermost(t).taken < Len(Plan(Innermost(t).section))
Next1(t) == Plan(Innermost(t).section)[Innermost(t).taken + 1]
Last1(t) == Plan(Innermost(t).section)[Innermost(t).taken]

\* "Otherwise, deadlock is possible": a nested section takes no lock that the
\* thread has not got already.  To make a reader exclusive, or to lock the
\* environment exclusively twice, is a panic.
Allowed(t, s) ==
    \A i \in DOMAIN Plan(s) :
        LET l == Plan(s)[i].lock
        IN  /\ frames[t] # <<>> => xcounter[t][l] + rcounter[t][l] > 0
            /\ Plan(s)[i].mode = "x" =>
                  IF xcounter[t][l] = 0 THEN rcounter[t][l] = 0 ELSE l # "env"

Enter(t, s) ==
    /\ ~ Entering(t)
    /\ frames[t] # <<>> => ~ Innermost(t).leaving
    /\ Len(frames[t]) < MaxNest
    /\ Plan(s) # <<>>
    /\ Allowed(t, s)
    /\ frames' = [frames EXCEPT ![t] = Append(@, [section |-> s, taken |-> 0, leaving |-> FALSE])]
    /\ UNCHANGED <<build, holder, readers, asleep, xcounter, rcounter>>

Taken(t) == frames' = [frames EXCEPT ![t][Len(frames[t])].taken = @ + 1]

First(t, l) == xcounter[t][l] = 0 /\ rcounter[t][l] = 0

\* PERL_REENTRANT_READ_LOCK
ReadLock(t) ==
    /\ Entering(t)
    /\ Next1(t).mode = "r"
    /\ LET l == Next1(t).lock
       IN  /\ rcounter' = [rcounter EXCEPT ![t][l] = @ + 1]
           /\ IF First(t, l)
              THEN /\ holder[l] = Nobody
                   /\ readers' = [readers EXCEPT ![l] = @ + 1]
              ELSE UNCHANGED readers
    /\ Taken(t)
    /\ UNCHANGED <<build, holder, asleep, xcounter>>

\* PERL_REENTRANT_LOCK, whose PERL_WRITE_LOCK waits for the readers to leave.
ExclusiveLock(t) ==
    /\ Entering(t)
    /\ Next1(t).mode = "x"
    /\ LET l == Next1(t).lock
       IN  /\ t \notin asleep[l]
           /\ \/ /\ xcounter[t][l] > 0
                 /\ xcounter' = [xcounter EXCEPT ![t][l] = @ + 1]
                 /\ Taken(t)
                 /\ UNCHANGED <<holder, asleep>>
              \/ /\ xcounter[t][l] = 0 /\ holder[l] = Nobody /\ readers[l] = 0
                 /\ holder' = [holder EXCEPT ![l] = t]
                 /\ xcounter' = [xcounter EXCEPT ![t][l] = 1]
                 /\ Taken(t)
                 /\ UNCHANGED asleep
              \/ /\ xcounter[t][l] = 0 /\ holder[l] = Nobody /\ readers[l] > 0
                 /\ asleep' = [asleep EXCEPT ![l] = @ \cup {t}]
                 /\ UNCHANGED <<holder, xcounter, frames>>
    /\ UNCHANGED <<build, readers, rcounter>>

\* POSIX lets COND_WAIT return for no reason.
WakeUnsignalled(t) ==
    /\ \E l \in Lock : t \in asleep[l] /\ asleep' = [asleep EXCEPT ![l] = @ \ {t}]
    /\ UNCHANGED <<build, holder, readers, xcounter, rcounter, frames>>

CondSignal(l) ==
    IF asleep[l] = {} THEN UNCHANGED asleep
    ELSE \E t \in asleep[l] : asleep' = [asleep EXCEPT ![l] = @ \ {t}]

\* The innermost section gives its locks up in reverse order.
Fewer(o) ==
    IF o[Len(o)].taken = 1 THEN SubSeq(o, 1, Len(o) - 1)
    ELSE [o EXCEPT ![Len(o)].taken = @ - 1, ![Len(o)].leaving = TRUE]

GivenUp(t) == frames' = [frames EXCEPT ![t] = Fewer(@)]

Leaving(t, mode) ==
    /\ frames[t] # <<>>
    /\ ~ Entering(t)
    /\ Last1(t).mode = mode

\* Mutation: the count is looked at before it goes down.
LastReader_Early(l) == readers[l] = 0

LastReader(l) == readers[l] = 1

\* PERL_REENTRANT_READ_UNLOCK
ReadUnlock(t) ==
    /\ Leaving(t, "r")
    /\ LET l == Last1(t).lock
       IN  /\ rcounter' = [rcounter EXCEPT ![t][l] = @ - 1]
           /\ IF rcounter[t][l] = 1 /\ xcounter[t][l] = 0
              THEN /\ holder[l] = Nobody
                   /\ readers' = [readers EXCEPT ![l] = @ - 1]
                   /\ IF LastReader(l) THEN CondSignal(l) ELSE UNCHANGED asleep
              ELSE UNCHANGED <<readers, asleep>>
    /\ GivenUp(t)
    /\ UNCHANGED <<build, holder, xcounter>>

\* PERL_REENTRANT_UNLOCK
ExclusiveUnlock(t) ==
    /\ Leaving(t, "x")
    /\ LET l == Last1(t).lock
       IN  /\ xcounter' = [xcounter EXCEPT ![t][l] = @ - 1]
           /\ IF xcounter[t][l] = 1
              THEN holder' = [holder EXCEPT ![l] = Nobody] /\ CondSignal(l)
              ELSE UNCHANGED <<holder, asleep>>
    /\ GivenUp(t)
    /\ UNCHANGED <<build, readers, rcounter>>

Next ==
    \E t \in Thread :
        \/ \E s \in Sections : Enter(t, s)
        \/ ReadLock(t) \/ ExclusiveLock(t) \/ WakeUnsignalled(t)
        \/ ReadUnlock(t) \/ ExclusiveUnlock(t)

Spec == Init /\ [][Next]_vars
================================================================================
