------------------------------ MODULE Generator ------------------------------
(***************************************************************************)
(* The generator runtime of run.c together with the parts of the           *)
(* interpreter it is woven into: stack-info blocks, context stacks, the    *)
(* chain of JMPENV exception boundaries on the C stack, docatch() and      *)
(* die_unwind().                                                           *)
(*                                                                         *)
(* One Perl program runs.  At any moment the code that executes belongs to *)
(* the innermost activation: the main program, the body of a generator     *)
(* that has been called and has not returned, or a callback (a sort block, *)
(* a field initialiser) which runs in a runops loop of its own.  Every     *)
(* operation below is available to whichever code is innermost, so the     *)
(* model explores every way of nesting and interleaving generators.        *)
(***************************************************************************)
EXTENDS StackInfo, Sequences, FiniteSets

CONSTANTS Generators,   \* PERL_GENERATOR records, identified by their wrapper CV
          Nobody,       \* not a generator: the main program
          Bodies,       \* the CVs of gen blocks
          BodyOf,       \* the CV each generator runs: pp_anoncode clones a block
                        \* that closes over something, and shares any other
          MaxFrames,    \* bound on the depth of the C stack
          MaxEvals      \* bound on the evals open on one stack-info block

ASSUME GeneratorAssumption ==
    /\ Nobody \notin Generators
    /\ BodyOf \in [Generators -> Bodies]
    /\ MaxFrames \in Nat \ {0}
    /\ MaxEvals \in Nat

VARIABLES
    gen,     \* the PERL_GENERATOR records
    chain,   \* the stack-info list and PL_curstackinfo
    cxs,     \* the context stack of each stack-info block
    cstack,  \* the C frames that matter: exception boundaries and runops loops
    hook,    \* PL_runops_boundary_data: index in cstack of the run it points to
    gvav,    \* GvAV(PL_defgv): which array is @_ just now
    depth,   \* CvDEPTH of each body: how far up its padlist it is in use
    exc,     \* the exception being delivered, if any
    status   \* what has become of the program

vars == <<gen, chain, cxs, cstack, hook, gvav, depth, exc, status>>

-----------------------------------------------------------------------------
\* Arrays that can be @_: the one a generator is created with, the one in the
\* pad of its running body, and the caller's.
Arrays == (Generators \cup {Nobody}) \X {"own", "args"}
MainArgs == <<Nobody, "args">>
OwnArray(g) == <<g, "own">>
BodyArgs(g) == <<g, "args">>

States == {"ABSENT", "NEW", "RUNNING", "YIELDED", "EXHAUSTED", "FAILED"}

\* si is process.context.Icurstackinfo; NULL until the first resume.
GenRecord == [state : States,
              captured : BOOLEAN, yieldPending : BOOLEAN,
              stackPushed : BOOLEAN, stackDetached : BOOLEAN,
              evalActive : BOOLEAN,
              defav : Arrays, si : SI \cup {NULL}]

\* Contexts.  FAKE is the CXt_EVAL that generator_resume plants at the bottom
\* of a generator's stack, BODY the CXt_SUB of its body, EVAL a Perl eval {}.
\* env is blk_eval.cur_top_env; array, cv and old are savearray, cv and
\* olddepth of blk_sub, and the call uses pad number old + 1 of its padlist.
FrameIndex == 0 .. MaxFrames
EvalTypes == {"FAKE", "EVAL"}
EvalContexts == [type : EvalTypes, env : FrameIndex]
BodyContexts == [type : {"BODY"}, array : Arrays, cv : Bodies, old : Nat]
Context == EvalContexts \cup BodyContexts
EvalContext(type, env) == [type |-> type, env |-> env]
BodyContext(array, cv, old) ==
    [type |-> "BODY", array |-> array, cv |-> cv, old |-> old]

\* Frames of the C stack, bottom first.
\*   main      perl_run: a JMPENV and the plain runops loop
\*   resume    generator_resume: a JMPENV and the loop with the boundary hook
\*   docatch   S_docatch: a JMPENV and the plain loop
\*   callback  a C operation running Perl code on a stack-info of its own: the
\*             plain loop, no JMPENV
\* si is the block the frame's code runs on; caller and oldhook are what its
\* local variables remember.  env is PL_top_env once the frame is there (its
\* own JMPENV, or the one of a frame below), loop the frame that switched to
\* the block.  callerav is a history variable: @_ when the frame was entered.
Kinds == {"main", "resume", "docatch", "callback"}
Frame == [kind : Kinds, gen : Generators \cup {Nobody}, si : SI, caller : SI,
          oldhook : FrameIndex, callerav : Arrays,
          env : FrameIndex, loop : FrameIndex]

Depth == Len(cstack)
TopEnv == cstack[Depth].env      \* PL_top_env
Loop == cstack[Depth].loop       \* the innermost activation
\* Mutation: a callback does not set CATCH.
CatchGet_InResumeOnly == cstack[Depth].kind = "resume"

\* PL_top_env->je_mustcatch: an eval has to set up a boundary of its own.
CatchGet == cstack[Depth].kind \in {"resume", "callback"}

\* stage "unwind" is the loop in die_unwind or my_exit_jump that pops stack
\* infos; "jump" is the longjmp from boundary to boundary.  env is
\* PL_restartjmpenv; uncaught says that the context found was FAKE.
Exception == [stage : {"none", "unwind", "jump"}, kind : {"die", "exit"},
              env : FrameIndex, uncaught : BOOLEAN]
NoException == [stage |-> "none", kind |-> "die", env |-> 0, uncaught |-> FALSE]
Raised(kind) == [NoException EXCEPT !.stage = "unwind", !.kind = kind]

Statuses == {"running", "destruct", "panic", "undefined"}

-----------------------------------------------------------------------------
FreshGen(g) ==
    [state |-> "NEW", captured |-> FALSE, yieldPending |-> FALSE,
     stackPushed |-> FALSE, stackDetached |-> FALSE, evalActive |-> FALSE,
     defav |-> OwnArray(g), si |-> NULL]
AbsentGen(g) == [FreshGen(g) EXCEPT !.state = "ABSENT"]

MainFrame == [kind |-> "main", gen |-> Nobody, si |-> Main, caller |-> Main,
              oldhook |-> 0, callerav |-> MainArgs, env |-> 1, loop |-> 1]

Init ==
    /\ gen = [g \in Generators |-> AbsentGen(g)]
    /\ chain = InitChain
    /\ cxs = [s \in SI |-> <<>>]
    /\ cstack = <<MainFrame>>
    /\ hook = 0
    /\ gvav = MainArgs
    /\ depth = [b \in Bodies |-> 0]
    /\ exc = NoException
    /\ status = "running"

\* Perl code is executing.
Executing == status = "running" /\ exc.stage = "none"
cur == chain.cur
Running == cstack[hook].gen      \* the generator the hook data points to

\* Mutation: generator_resume does not remember the hook it displaces.
NewFrame_ForgetsHook(kind, g, s) ==
    [kind |-> kind, gen |-> g, si |-> s, caller |-> cur,
     oldhook |-> 0, callerav |-> gvav,
     env  |-> IF kind = "callback" THEN TopEnv ELSE Depth + 1,
     loop |-> IF kind = "docatch" THEN Loop ELSE Depth + 1]

NewFrame(kind, g, s) ==
    [kind |-> kind, gen |-> g, si |-> s, caller |-> cur,
     oldhook |-> hook, callerav |-> gvav,
     env  |-> IF kind = "callback" THEN TopEnv ELSE Depth + 1,
     loop |-> IF kind = "docatch" THEN Loop ELSE Depth + 1]

\* dounwind: pop the contexts of a stack above index i.  Popping a BODY
\* context puts the array it saved back into GvAV(PL_defgv), and CvDEPTH back
\* to what it was at the call.
BodiesAbove(stack, i) == {k \in DOMAIN stack : k > i /\ stack[k].type = "BODY"}
BodyAbove(stack, i) == stack[CHOOSE k \in BodiesAbove(stack, i) : TRUE]
UnwoundArray(stack, i) ==
    IF BodiesAbove(stack, i) = {} THEN gvav ELSE BodyAbove(stack, i).array

\* Mutation: leaving a body does not put CvDEPTH back.
UnwoundDepth_Keeps(stack, i) == depth

UnwoundDepth(stack, i) ==
    IF BodiesAbove(stack, i) = {} THEN depth
    ELSE [depth EXCEPT ![BodyAbove(stack, i).cv] = BodyAbove(stack, i).old]

-----------------------------------------------------------------------------
\* gen BLOCK: generator_new and its wrapper.
Make(g) ==
    /\ Executing
    /\ gen[g].state = "ABSENT"
    /\ gen' = [gen EXCEPT ![g] = FreshGen(g)]
    /\ UNCHANGED <<chain, cxs, cstack, hook, gvav, depth, exc, status>>

\* The first call: capture the caller, push a private stack, plant the fake
\* eval, swap the default variables and run entersub, which saves @_.
Start(g) ==
    /\ Executing
    /\ gen[g].state = "NEW"
    /\ CanPush(chain)
    /\ Depth < MaxFrames
    /\ LET s == PushTarget(chain) IN
       /\ chain' = Pushed(chain)
       /\ cxs' = [cxs EXCEPT ![s] = <<EvalContext("FAKE", Depth + 1),
                                      BodyContext(gen[g].defav, BodyOf[g],
                                                  depth[BodyOf[g]])>>]
       /\ cstack' = Append(cstack, NewFrame("resume", g, s))
    /\ hook' = Depth + 1
    /\ gen' = [gen EXCEPT ![g] =
                 [@ EXCEPT !.state = "RUNNING", !.captured = FALSE,
                           !.yieldPending = FALSE, !.stackPushed = TRUE,
                           !.evalActive = TRUE, !.defav = gvav, !.si = cur]]
    /\ gvav' = BodyArgs(g)
    /\ depth' = [depth EXCEPT ![BodyOf[g]] = @ + 1]
    /\ UNCHANGED <<exc, status>>

\* Mutation: whether there is a suspended continuation is not looked at.
Resumable_NotCaptured(g) ==
    gen[g].state \notin {"ABSENT", "NEW", "EXHAUSTED", "FAILED"}

\* Mutation: only a running generator is refused.
Resumable_NotRunning(g) == gen[g].state \notin {"ABSENT", "NEW", "RUNNING"}

\* The guards of generator_resume that let a later call through.
Resumable(g) ==
    /\ gen[g].state \notin {"ABSENT", "NEW", "EXHAUSTED", "FAILED"}
    /\ gen[g].captured

\* A later call: put the private stack back into the list, switch to it, make
\* this C frame the target of every eval on it, swap the default variables.
Resume(g) ==
    /\ Executing
    /\ Resumable(g)
    /\ Depth < MaxFrames
    /\ LET s == gen[g].si IN
       /\ chain' = SwitchedTo(IF gen[g].stackDetached THEN Attached(chain, s)
                                                      ELSE chain, s)
       /\ cxs' = [cxs EXCEPT ![s] =
                    [i \in DOMAIN @ |-> IF @[i].type \in EvalTypes
                                        THEN [@[i] EXCEPT !.env = Depth + 1]
                                        ELSE @[i]]]
       /\ cstack' = Append(cstack, NewFrame("resume", g, s))
    /\ hook' = Depth + 1
    /\ gen' = [gen EXCEPT ![g] =
                 [@ EXCEPT !.state = "RUNNING", !.captured = FALSE,
                           !.yieldPending = FALSE, !.stackDetached = FALSE,
                           !.defav = gvav]]
    /\ gvav' = gen[g].defav
    /\ UNCHANGED <<depth, exc, status>>

\* Calling a failed generator, or one that has no suspended continuation,
\* throws in the caller.
CallRejected(g) ==
    /\ Executing
    /\ \/ gen[g].state = "FAILED"
       \/ /\ gen[g].state \notin {"ABSENT", "NEW", "EXHAUSTED"}
          /\ ~gen[g].captured
    /\ exc' = Raised("die")
    /\ UNCHANGED <<gen, chain, cxs, cstack, hook, gvav, depth, status>>

\* Mutation: the default variables are not swapped back.
SuspendOn_NoSwap(c) ==
    /\ chain' = SwitchedTo(Detached(c, c.cur), cstack[hook].caller)
    /\ cstack' = SubSeq(cstack, 1, hook - 1)
    /\ hook' = cstack[hook].oldhook
    /\ gen' = [gen EXCEPT ![Running] =
                 [@ EXCEPT !.state = "YIELDED", !.captured = TRUE,
                           !.yieldPending = FALSE, !.stackDetached = TRUE,
                           !.si = c.cur]]
    /\ UNCHANGED gvav

\* S_generator_boundary suspending the hook's generator, whose stack c has as
\* its current block, and the way back through generator_resume.
SuspendOn(c) ==
    LET g == Running
        f == cstack[hook]
    IN  /\ chain' = SwitchedTo(Detached(c, c.cur), f.caller)
        /\ cstack' = SubSeq(cstack, 1, hook - 1)
        /\ hook' = f.oldhook
        /\ gen' = [gen EXCEPT ![g] =
                     [@ EXCEPT !.state = "YIELDED", !.captured = TRUE,
                               !.yieldPending = FALSE, !.stackDetached = TRUE,
                               !.defav = gvav, !.si = c.cur]]
        /\ gvav' = gen[g].defav

\* yield reached on the generator's own stack: suspend at once, jumping over
\* any docatch frame above generator_resume.
Yield ==
    /\ Executing
    /\ hook # 0
    /\ cur = cstack[hook].si
    /\ SuspendOn(chain)
    /\ UNCHANGED <<cxs, depth, exc, status>>

\* yield reached in a nested runops loop: only remember it.
YieldDeferred ==
    /\ Executing
    /\ hook # 0
    /\ cur # cstack[hook].si
    /\ gen' = [gen EXCEPT ![Running].yieldPending = TRUE]
    /\ UNCHANGED <<chain, cxs, cstack, hook, gvav, depth, exc, status>>

\* A C operation calls back into Perl on a stack-info of its own.
EnterCallback ==
    /\ Executing
    /\ CanPush(chain)
    /\ Depth < MaxFrames
    /\ LET s == PushTarget(chain) IN
       /\ chain' = Pushed(chain)
       /\ cxs' = [cxs EXCEPT ![s] = <<>>]
       /\ cstack' = Append(cstack, NewFrame("callback", Nobody, s))
    /\ UNCHANGED <<gen, hook, gvav, depth, exc, status>>

\* Mutation: the boundary hook does not look for a deferred yield.
LeaveCallback_NoHook ==
    /\ Executing
    /\ cstack[Loop].kind = "callback"
    /\ cxs[cur] = <<>>
    /\ chain' = Popped(chain)
    /\ cstack' = SubSeq(cstack, 1, Loop - 1)
    /\ UNCHANGED <<gen, cxs, hook, gvav, depth, exc, status>>

\* The operation is over.  The loop that called it goes on; if that is a
\* generator's own loop, the boundary hook runs and sees a deferred yield.
LeaveCallback ==
    /\ Executing
    /\ cstack[Loop].kind = "callback"
    /\ cxs[cur] = <<>>
    /\ LET k == Loop
           back == Popped(chain)
       IN  IF hook = k - 1 /\ hook # 0 /\ back.cur = cstack[hook].si
              /\ gen[Running].yieldPending
           THEN SuspendOn(back)
           ELSE /\ chain' = back
                /\ cstack' = SubSeq(cstack, 1, k - 1)
                /\ UNCHANGED <<gen, hook, gvav>>
    /\ UNCHANGED <<cxs, depth, exc, status>>

OpenEvals(s) == Cardinality({i \in DOMAIN cxs[s] : cxs[s][i].type = "EVAL"})

\* eval {: through docatch when the loop has no boundary of its own.  The
\* docatch loop outlives the eval: it runs the rest of what its caller ran.
EnterEval ==
    /\ Executing
    /\ OpenEvals(cur) < MaxEvals
    /\ IF CatchGet
       THEN /\ Depth < MaxFrames
            /\ cstack' = Append(cstack, NewFrame("docatch", Nobody, cur))
            /\ cxs' = [cxs EXCEPT ![cur] =
                         Append(@, EvalContext("EVAL", Depth + 1))]
       ELSE /\ cxs' = [cxs EXCEPT ![cur] = Append(@, EvalContext("EVAL", TopEnv))]
            /\ UNCHANGED cstack
    /\ UNCHANGED <<gen, chain, hook, gvav, depth, exc, status>>

LeaveEval ==
    /\ Executing
    /\ LET n == Len(cxs[cur]) IN
       /\ n > 0
       /\ cxs[cur][n].type = "EVAL"
       /\ cxs' = [cxs EXCEPT ![cur] = SubSeq(@, 1, n - 1)]
    /\ UNCHANGED <<gen, chain, cstack, hook, gvav, depth, exc, status>>

\* The body returns: leavesub, the hook with no next op, and the exhausted
\* branch of generator_resume, which attaches the block again to pop it.
Finish ==
    /\ Executing
    /\ hook # 0
    /\ hook = Loop
    /\ Len(cxs[cur]) = 2
    /\ LET g == Running
           f == cstack[hook]
           away == SwitchedTo(Detached(chain, cur), f.caller)
           back == SwitchedTo(Attached(away, cur), cur)
       IN  /\ chain' = SwitchedTo(Popped(back), f.caller)
           /\ cxs' = [cxs EXCEPT ![cur] = <<>>]
           /\ cstack' = SubSeq(cstack, 1, hook - 1)
           /\ hook' = f.oldhook
           /\ depth' = UnwoundDepth(cxs[cur], 0)
           /\ gen' = [gen EXCEPT ![g] =
                        [@ EXCEPT !.state = "EXHAUSTED", !.captured = FALSE,
                                  !.yieldPending = FALSE, !.stackPushed = FALSE,
                                  !.stackDetached = FALSE, !.evalActive = FALSE,
                                  !.defav = UnwoundArray(cxs[cur], 0),
                                  !.si = cur]]
           /\ gvav' = gen[g].defav
    /\ UNCHANGED <<exc, status>>

-----------------------------------------------------------------------------
\* Exceptions.  These steps follow one another with nothing in between.

Die ==
    /\ Executing
    /\ exc' = Raised("die")
    /\ UNCHANGED <<gen, chain, cxs, cstack, hook, gvav, depth, status>>

Exit ==
    /\ Executing
    /\ exc' = Raised("exit")
    /\ UNCHANGED <<gen, chain, cxs, cstack, hook, gvav, depth, status>>

EvalsOn(s) == {i \in DOMAIN cxs[s] : cxs[s][i].type \in EvalTypes}

\* Mutation: the stack below is taken for granted.
UnwindPop_NoCheck ==
    /\ status = "running"
    /\ exc.stage = "unwind"
    /\ IF exc.kind = "exit" THEN cur # Main ELSE EvalsOn(cur) = {}
    /\ gvav' = UnwoundArray(cxs[cur], 0)
    /\ depth' = UnwoundDepth(cxs[cur], 0)
    /\ cxs' = [cxs EXCEPT ![cur] = <<>>]
    /\ chain' = Popped(chain)
    /\ UNCHANGED <<gen, cstack, hook, exc, status>>

\* No eval on this stack (or an exit, which wants the main stack): unwind it
\* and pop it.
UnwindPop ==
    /\ status = "running"
    /\ exc.stage = "unwind"
    /\ IF exc.kind = "exit" THEN cur # Main
       ELSE EvalsOn(cur) = {} /\ chain.prev[cur] # NULL
    /\ gvav' = UnwoundArray(cxs[cur], 0)
    /\ depth' = UnwoundDepth(cxs[cur], 0)
    /\ cxs' = [cxs EXCEPT ![cur] = <<>>]
    /\ chain' = Popped(chain)
    /\ UNCHANGED <<gen, cstack, hook, exc, status>>

\* The innermost eval: unwind to it, pop it, and aim at its boundary.
UnwindFound ==
    /\ status = "running"
    /\ exc.stage = "unwind"
    /\ exc.kind = "die"
    /\ \E i \in EvalsOn(cur) :
       /\ \A j \in EvalsOn(cur) : j <= i
       /\ exc' = [exc EXCEPT !.stage = "jump", !.env = cxs[cur][i].env,
                             !.uncaught = cxs[cur][i].type = "FAKE"]
       /\ gvav' = UnwoundArray(cxs[cur], i)
       /\ depth' = UnwoundDepth(cxs[cur], i)
       /\ cxs' = [cxs EXCEPT ![cur] = SubSeq(@, 1, i - 1)]
    /\ UNCHANGED <<gen, chain, cstack, hook, status>>

\* On the main stack with no eval: my_failure_exit, that is, an exit.
UnwindMain ==
    /\ status = "running"
    /\ exc.stage = "unwind"
    /\ IF exc.kind = "exit" THEN cur = Main
       ELSE EvalsOn(cur) = {} /\ chain.prev[cur] = NULL
    /\ cxs' = [cxs EXCEPT ![cur] = <<>>]
    /\ exc' = [exc EXCEPT !.stage = "jump", !.kind = "exit"]
    /\ UNCHANGED <<gen, chain, cstack, hook, gvav, depth, status>>

Jumping(kind) ==
    /\ status = "running"
    /\ exc.stage = "jump"
    /\ cstack[TopEnv].kind = kind

\* Mutation: docatch does not pop its JMPENV before it passes the exception on.
JumpDocatch_KeepsFrame ==
    /\ Jumping("docatch")
    /\ cstack' = SubSeq(cstack, 1, TopEnv)
    /\ exc' = IF exc.kind = "die" /\ exc.env = TopEnv THEN NoException ELSE exc
    /\ UNCHANGED <<gen, chain, cxs, hook, gvav, depth, status>>

\* docatch continues its loop if the eval was entered under it, and otherwise
\* passes the exception on.
JumpDocatch ==
    /\ Jumping("docatch")
    /\ IF exc.kind = "die" /\ exc.env = TopEnv
       THEN /\ exc' = NoException
            /\ cstack' = SubSeq(cstack, 1, TopEnv)
       ELSE /\ cstack' = SubSeq(cstack, 1, TopEnv - 1)
            /\ UNCHANGED exc
    /\ UNCHANGED <<gen, chain, cxs, hook, gvav, depth, status>>

\* generator_resume takes whatever arrives as the failure of its generator
\* and dies again in the caller.  With the main stack current there is
\* nothing left to pop, and croak_popstack panics.
JumpResume ==
    /\ Jumping("resume")
    /\ LET f == cstack[TopEnv]
           g == f.gen
       IN  IF chain.prev[cur] = NULL
           THEN /\ status' = "panic"
                /\ UNCHANGED <<gen, chain, cxs, cstack, hook, gvav, depth, exc>>
           ELSE /\ gen' = [gen EXCEPT ![g] =
                             [@ EXCEPT !.state = "FAILED", !.stackPushed = FALSE,
                                       !.evalActive = FALSE, !.si = cur,
                                       !.defav = UnwoundArray(cxs[cur], 0)]]
                /\ gvav' = gen[g].defav
                /\ depth' = UnwoundDepth(cxs[cur], 0)
                /\ cxs' = [cxs EXCEPT ![cur] = <<>>]
                /\ chain' = SwitchedTo(Popped(chain), f.caller)
                /\ cstack' = SubSeq(cstack, 1, TopEnv - 1)
                /\ hook' = f.oldhook
                /\ exc' = Raised("die")
                /\ UNCHANGED status

\* perl_run: continue after an eval of the main program, or leave.
JumpMain ==
    /\ Jumping("main")
    /\ cstack' = SubSeq(cstack, 1, TopEnv)
    /\ exc' = NoException
    /\ status' = IF exc.kind = "die" THEN "running" ELSE "destruct"
    /\ UNCHANGED <<gen, chain, cxs, hook, gvav, depth>>

-----------------------------------------------------------------------------
\* The last reference to a generator goes away.  A suspended one is attached
\* to the current stack and unwound there.  Freeing one that is running frees
\* the record and the stacks that the C frames above still use.
Drop(g) ==
    /\ Executing
    /\ gen[g].state # "ABSENT"
    /\ IF gen[g].state = "RUNNING"
       THEN /\ status' = "undefined"
            /\ UNCHANGED <<gen, chain, cxs, gvav, depth>>
       ELSE /\ gen' = [gen EXCEPT ![g] = AbsentGen(g)]
            /\ UNCHANGED status
            /\ IF gen[g].stackPushed
               THEN LET s == gen[g].si
                        attached == IF gen[g].stackDetached
                                    THEN Attached(chain, s) ELSE chain
                    IN  /\ chain' = SwitchedTo(Popped(SwitchedTo(attached, s)), cur)
                        /\ IF gen[g].evalActive
                           THEN /\ gvav' = UnwoundArray(cxs[s], 0)
                                /\ depth' = UnwoundDepth(cxs[s], 0)
                           ELSE UNCHANGED <<gvav, depth>>
                        /\ cxs' = [cxs EXCEPT ![s] = <<>>]
               ELSE UNCHANGED <<chain, cxs, gvav, depth>>
    /\ UNCHANGED <<cstack, hook, exc>>

\* The main program reaches its end.
EndOfProgram ==
    /\ Executing
    /\ Depth = 1
    /\ cxs[Main] = <<>>
    /\ status' = "destruct"
    /\ UNCHANGED <<gen, chain, cxs, cstack, hook, gvav, depth, exc>>

\* Global destruction frees the generators that are left.  Their scopes are
\* not unwound; their blocks only go back into the list that is freed last.
DestructFree(g) ==
    /\ status = "destruct"
    /\ gen[g].state # "ABSENT"
    /\ chain' = IF gen[g].stackPushed /\ gen[g].stackDetached
                THEN Attached(chain, gen[g].si) ELSE chain
    /\ depth' = IF gen[g].stackPushed
                THEN [depth EXCEPT ![BodyOf[g]] = 0] ELSE depth
    /\ gen' = [gen EXCEPT ![g] = AbsentGen(g)]
    /\ UNCHANGED <<cxs, cstack, hook, gvav, exc, status>>

-----------------------------------------------------------------------------
Call == \E g \in Generators : Start(g) \/ Resume(g) \/ CallRejected(g)
Free == \E g \in Generators : Drop(g) \/ DestructFree(g)
Body == Yield \/ YieldDeferred \/ Finish
Nesting == EnterCallback \/ LeaveCallback \/ EnterEval \/ LeaveEval
Deliver == \/ UnwindPop \/ UnwindFound \/ UnwindMain
           \/ JumpDocatch \/ JumpResume \/ JumpMain

Next ==
    \/ \E g \in Generators : Make(g)
    \/ Call
    \/ Free
    \/ Body
    \/ Nesting
    \/ Die \/ Exit \/ EndOfProgram
    \/ Deliver

Spec == Init /\ [][Next]_vars

\* The interpreter never waits while it delivers an exception.
FairSpec == Spec /\ WF_vars(Deliver)
=============================================================================
