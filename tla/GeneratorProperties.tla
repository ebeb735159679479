------------------------- MODULE GeneratorProperties -------------------------
(***************************************************************************)
(* What the generator runtime has to keep true.                            *)
(***************************************************************************)
EXTENDS Generator

Healthy == status \in {"running", "destruct"}
ResumeFrames == {k \in 1 .. Depth : cstack[k].kind = "resume"}
LoopFrames == {k \in 1 .. Depth : cstack[k].kind # "docatch"}
Suspended == {g \in Generators : gen[g].state = "YIELDED"}

\* Every variable keeps its shape.
TypeOK ==
    /\ gen \in [Generators -> GenRecord]
    /\ chain \in Chain
    /\ cxs \in [SI -> Seq(Context)]
    /\ cstack \in Seq(Frame)
    /\ hook \in FrameIndex
    /\ gvav \in Arrays
    /\ depth \in [Bodies -> Nat]
    /\ exc \in Exception
    /\ status \in Statuses

-----------------------------------------------------------------------------
\* Stack-info blocks.

\* push, pop, detach and attach leave the list doubly linked: si_next and
\* si_prev are inverse, the main stack is first, unallocated blocks are bare.
ChainLinked == DoublyLinked(chain) /\ FreshUnlinked(chain)

\* The blocks reached from the main stack by si_next.
OnList ==
    LET reach[n \in 0 .. MaxSI] ==
            IF n = 0 THEN {Main}
            ELSE reach[n - 1] \cup
                 {s \in SI : \E t \in reach[n - 1] : chain.next[t] = s}
    IN  reach[MaxSI]

\* No block is ever lost: each one allocated is on the list that S_nuke_stacks
\* walks, or is the detached block of exactly one suspended generator.
BlocksAccountedFor ==
    Healthy =>
        \A s \in 1 .. chain.used :
            LET owners == {g \in Generators : gen[g].stackDetached /\ gen[g].si = s}
            IN  IF s \in OnList THEN owners = {}
                ELSE /\ Isolated(chain, s)
                     /\ \E g \in Suspended : owners = {g}

\* While Perl code runs, si_prev leads from PL_curstackinfo back through the
\* block of every activation on the C stack, innermost first, to the main one.
StackFollowsCalls ==
    Executing =>
        /\ cur = cstack[Loop].si
        /\ \A k \in LoopFrames \ {1} :
              LET below == cstack[k - 1].loop
              IN  /\ cstack[k].caller = cstack[below].si
                  /\ chain.prev[cstack[k].si] = cstack[below].si

\* "The generator remembers where it stopped": nothing that other code does
\* touches the contexts of a suspended generator.
ContinuationIntact ==
    [][\A g \in Suspended :
          gen'[g].state = "YIELDED" =>
              /\ gen'[g].si = gen[g].si
              /\ cxs'[gen[g].si] = cxs[gen[g].si]
              /\ gen'[g].defav = gen[g].defav]_vars

-----------------------------------------------------------------------------
\* Activations.

\* A generator is RUNNING exactly while one generator_resume of it is on the
\* C stack; two would use the same saved state at the same time.
RunningOnce ==
    Healthy =>
        \A g \in Generators :
            LET frames == {k \in ResumeFrames : cstack[k].gen = g}
            IN  /\ gen[g].state = "RUNNING" <=> frames # {}
                /\ \A i, j \in frames : i = j

\* The boundary hook always belongs to the innermost generator_resume, and
\* each such frame remembers the next one out, however control left the
\* frames in between.
HookIsInnermost ==
    LET Latest(below) ==
            LET S == {k \in ResumeFrames : k < below}
            IN  IF S = {} THEN 0 ELSE CHOOSE k \in S : \A i \in S : i <= k
    IN  /\ hook = Latest(Depth + 1)
        /\ \A k \in ResumeFrames : cstack[k].oldhook = Latest(k)

\* A yield that was put off is honoured as soon as it can be: with no other
\* frame above generator_resume, the body does not run on past it.
PendingNotPassed ==
    Executing /\ hook # 0 /\ hook = Depth => ~gen[Running].yieldPending

\* Every eval a live stack can be unwound to names a JMPENV that is still on
\* the C stack and belongs to the same activation: PL_restartjmpenv is never
\* a boundary that has returned.
JumpTargetsLive ==
    Executing =>
        \A k \in LoopFrames :
            \A i \in DOMAIN cxs[cstack[k].si] :
                LET cx == cxs[cstack[k].si][i] IN
                cx.type \in EvalTypes =>
                    /\ cx.env \in k .. Depth
                    /\ cstack[cx.env].kind # "callback"
                    /\ cstack[cx.env].loop = k

\* CvDEPTH of a body that no other generator shares says whether its generator
\* is in the middle of it, so that the pad is free for the next use.  (A drop
\* at global destruction resets it; a running one is left as it is.)
DepthCountsActivations ==
    Executing =>
        \A g \in Generators :
            (\A h \in Generators \ {g} : BodyOf[h] # BodyOf[g]) =>
                depth[BodyOf[g]] =
                    IF gen[g].state \in {"RUNNING", "YIELDED"} THEN 1 ELSE 0

\* A call of a generator, whether the body yields, returns or dies, gives the
\* caller back the very array it had as @_.
CallerArrayRestored ==
    [][hook # 0 /\ Len(cstack') < hook
          => gvav' = cstack[hook].callerav]_vars

-----------------------------------------------------------------------------
\* What a program observes.

IteratorState(g) ==
    CASE gen[g].state = "EXHAUSTED" -> "COMPLETED"
      [] gen[g].state = "FAILED" -> "FAILED"
      [] gen[g].state = "ABSENT" -> "INVALID"
      [] OTHER -> "RUNNING"

IsExhausted(g) == gen[g].state \in {"EXHAUSTED", "FAILED"}
IsRunning(g) == gen[g].state \in {"NEW", "YIELDED"}

\* "It remains exhausted permanently": what iterator::state reports of a
\* generator that is over changes only when the generator is freed.
TerminalForever ==
    [][\A g \in Generators :
          IteratorState(g) \in {"COMPLETED", "FAILED"} =>
              IteratorState(g)' \in {IteratorState(g), "INVALID"}]_vars

\* The runtime implements the lifecycle of perlgenerator.pod.
LifeOf(g) ==
    CASE gen[g].state = "ABSENT" -> "gone"
      [] gen[g].state = "NEW" -> "new"
      [] gen[g].state = "RUNNING" -> "running"
      [] gen[g].state = "YIELDED" -> "paused"
      [] gen[g].state = "EXHAUSTED" -> "completed"
      [] gen[g].state = "FAILED" -> "failed"

\* The generator of a hook, and whose hook generator_resume put aside for g.
Hooked(h) == IF h = 0 THEN Nobody ELSE cstack[h].gen
FrameOf(g) == CHOOSE k \in ResumeFrames : cstack[k].gen = g
CallerOf(g) == IF gen[g].state = "RUNNING" THEN Hooked(cstack[FrameOf(g)].oldhook) ELSE Nobody

Lifecycle == INSTANCE GeneratorLifecycle
             WITH life   <- [g \in Generators |-> LifeOf(g)],
                  active <- Hooked(hook),
                  caller <- [g \in Generators |-> CallerOf(g)],
                  over   <- ~Healthy
ImplementsLifecycle == Lifecycle!ASpec

\* An exception is always delivered: some boundary takes it, or the program
\* ends.  No two boundaries hand it back and forth.
ExceptionDelivered == exc.stage # "none" ~> exc.stage = "none" \/ status # "running"

-----------------------------------------------------------------------------
\* Statements of the documentation that the code does not keep.

\* pod/perlgenerator.pod: an exception caught by an eval inside the generator
\* does not by itself finish or fail the generator.
OnlyUncaughtFails ==
    [][\A g \in Generators :
          gen[g].state # "FAILED" /\ gen'[g].state = "FAILED"
              => exc.uncaught]_vars

\* planning/generator-coro-context-audit.md: what a generator does to its @_
\* does not alter the @_ of its caller.
ArgsBelongToCaller ==
    Executing => gvav = IF hook = 0 THEN MainArgs ELSE BodyArgs(Running)

\* t/op/generator.t: a yield reached through nested runops is deferred, that
\* is, the call that resumed the generator still gets it.
NoYieldLost ==
    [][\A g \in Generators :
          gen[g].yieldPending /\ ~gen'[g].yieldPending
              => gen'[g].state \in {"YIELDED", "ABSENT"}]_vars

\* pod/perlgenerator.pod: a block keeps its own variables; creating a second
\* generator creates a separate sequence.  Of two generators that are under
\* way, then, no two use the same pad of the same body.
PadOf(g) ==
    LET stack == cxs[gen[g].si]
        cx == stack[CHOOSE k \in DOMAIN stack : stack[k].type = "BODY"]
    IN  <<cx.cv, cx.old>>
PadsSeparate ==
    Executing =>
        \A g, h \in Suspended : PadOf(g) = PadOf(h) => g = h

\* pod/perlfunc.pod: exit calls the END routines; it does not panic.
ExitIsOrderly == status # "panic"

\* pod/perlgenerator.pod: running returns the generators that are not
\* exhausted.
RunningMeansNotExhausted ==
    \A g \in Generators :
        gen[g].state # "ABSENT" => (IsRunning(g) <=> ~IsExhausted(g))
=============================================================================
