-------------------------- MODULE GeneratorInvariant --------------------------
(***************************************************************************)
(* The inductive invariant of the generator runtime.  It says how the C    *)
(* stack, the list of stack-info blocks, the context stacks and the        *)
(* generator records fit together in every state, the ones in the middle   *)
(* of delivering an exception included.                                    *)
(***************************************************************************)
EXTENDS GeneratorProperties

Activations(cs) == {k \in 1 .. Len(cs) : cs[k].kind # "docatch"}

\* h is the last resume frame among the first n frames, 0 if there is none.
InnermostHook(cs, n, h) ==
    /\ h \in 0 .. n
    /\ h # 0 => cs[h].kind = "resume"
    /\ \A j \in 1 .. n : cs[j].kind = "resume" => j <= h

\* Frame k by itself: env and loop are the nearest JMPENV and the nearest
\* activation at or below it, oldhook the nearest resume frame below it.
FrameOK(cs, k) ==
    /\ cs[k].kind = "main" <=> k = 1
    /\ cs[k].kind = "resume" => cs[k].gen \in Generators
    /\ cs[k].env \in 1 .. k
    /\ cs[cs[k].env].kind # "callback"
    /\ \A j \in 1 .. k : cs[j].kind # "callback" => j <= cs[k].env
    /\ cs[k].loop \in 1 .. k
    /\ cs[cs[k].loop].kind # "docatch"
    /\ \A j \in 1 .. k : cs[j].kind # "docatch" => j <= cs[k].loop
    /\ InnermostHook(cs, k - 1, cs[k].oldhook)

WellFramed(cs) ==
    /\ Len(cs) \in 1 .. MaxFrames
    /\ cs[1].si = Main
    /\ \A k \in 1 .. Len(cs) : FrameOK(cs, k)

HookOK == InnermostHook(cstack, Depth, hook)

\* Each generator_resume frame is that of a running generator, of which there
\* is no other, and no generator runs without one.
OwnedOK ==
    /\ \A k \in 1 .. Depth :
          cstack[k].kind = "resume" => gen[cstack[k].gen].state = "RUNNING"
    /\ \A j, k \in 1 .. Depth :
          /\ cstack[j].kind = "resume"
          /\ cstack[k].kind = "resume"
          /\ cstack[j].gen = cstack[k].gen
          => j = k
    /\ \A g \in Generators :
          gen[g].state = "RUNNING" =>
              \E k \in 1 .. Depth : cstack[k].kind = "resume" /\ cstack[k].gen = g
    /\ status = "destruct" => Depth = 1

\* The blocks of the activations are distinct, allocated, and linked by
\* si_prev in the order of the calls.
OnPath(cs, c) ==
    /\ \A i, j \in Activations(cs) : cs[i].si = cs[j].si => i = j
    /\ \A k \in Activations(cs) : cs[k].si <= c.used
    /\ \A k \in Activations(cs) \ {1} :
          /\ cs[k].caller = cs[cs[k - 1].loop].si
          /\ c.prev[cs[k].si] = cs[k].caller

\* The current block is one of them; while Perl code runs, the innermost.
CurOK ==
    /\ \E k \in Activations(cstack) : cur = cstack[k].si
    /\ Executing => cur = cstack[Loop].si

\* A suspended generator owns an allocated block of its own, linked to nothing
\* and used by no activation.
FlagsOK(r) ==
    /\ r.stackDetached <=> r.state = "YIELDED"
    /\ r.captured <=> r.state = "YIELDED"
    /\ r.stackPushed <=> r.state \in {"RUNNING", "YIELDED"}

SetAside(c, cs, s) ==
    /\ s \in SI \ {Main}
    /\ s <= c.used
    /\ Isolated(c, s)
    /\ \A k \in Activations(cs) : cs[k].si # s

ParkedOK ==
    /\ \A g \in Generators :
          /\ FlagsOK(gen[g])
          /\ gen[g].stackDetached => SetAside(chain, cstack, gen[g].si)
    /\ \A g, h \in Generators :
          gen[g].stackDetached /\ gen[h].stackDetached /\ gen[g].si = gen[h].si
              => g = h

\* The evals of an activation aim at JMPENVs of that activation, inner ones no
\* lower than outer ones.
Aimed(cs, k, stack) ==
    \A i \in DOMAIN stack :
        stack[i].type \in EvalTypes =>
            /\ stack[i].env \in k .. Len(cs)
            /\ cs[stack[i].env].kind # "callback"
            /\ cs[stack[i].env].loop = k
            /\ \A j \in DOMAIN stack :
                  j <= i /\ stack[j].type \in EvalTypes =>
                      stack[j].env <= stack[i].env

ContextsOK ==
    \A k \in Activations(cstack) : Aimed(cstack, k, cxs[cstack[k].si])

\* While an exception is delivered, the activations above the current block
\* are already unwound, and the boundary aimed at is one of its own.
DeliveryOK ==
    /\ exc.stage # "none" =>
          \A m, k \in Activations(cstack) :
              cur = cstack[m].si /\ k > m => cxs[cstack[k].si] = <<>>
    /\ exc.stage = "jump" /\ exc.kind = "die" =>
          /\ exc.env \in 1 .. Depth
          /\ cstack[exc.env].kind # "callback"
          /\ cstack[cstack[exc.env].loop].si = cur
          /\ \A i \in DOMAIN cxs[cur] :
                cxs[cur][i].type \in EvalTypes => cxs[cur][i].env <= exc.env
    /\ exc.stage = "jump" /\ exc.kind = "exit" =>
          /\ cur = Main
          /\ cxs[Main] = <<>>

IndInv ==
    /\ TypeOK
    /\ ChainLinked
    /\ WellFramed(cstack)
    /\ HookOK
    /\ OwnedOK
    /\ OnPath(cstack, chain)
    /\ CurOK
    /\ ParkedOK
    /\ ContextsOK
    /\ DeliveryOK

-----------------------------------------------------------------------------
\* What the calls in progress remember, besides the stacks.

\* While a generator runs, its record keeps the array its caller had as @_.
ArraysKept ==
    \A k \in 1 .. Depth :
        cstack[k].kind = "resume" => gen[cstack[k].gen].defav = cstack[k].callerav

\* A yield is put off only under another frame, which is no generator_resume;
\* when such frames are gone, the generator is failing.
PutOffBelow ==
    \A k \in 1 .. Depth :
        cstack[k].kind = "resume" /\ gen[cstack[k].gen].yieldPending =>
            /\ k < Depth => cstack[k + 1].kind # "resume"
            /\ k = Depth => ~Executing

CallInv == IndInv /\ ArraysKept /\ PutOffBelow

-----------------------------------------------------------------------------
\* What is on the context stacks, and CvDEPTH with it.

\* The stack of a generator's block holds the fake eval of generator_resume,
\* the sub context of the body, and evals; the stack of any other, evals.
OnlyEvalsAbove(stack, n) == \A i \in DOMAIN stack : i > n => stack[i].type = "EVAL"
BodyStack(stack, g) ==
    /\ Len(stack) >= 2
    /\ stack[1].type = "FAKE"
    /\ stack[2].type = "BODY" /\ stack[2].cv = BodyOf[g]
    /\ OnlyEvalsAbove(stack, 2)

PlainOK ==
    \A k \in 1 .. Depth :
        cstack[k].kind \in {"main", "callback"} => OnlyEvalsAbove(cxs[cstack[k].si], 0)

\* Frame k is the call of g; its stack may have been unwound, but in its own
\* frame only by an exception that is on its way there, or by an exit.
Calls(k, g) == cstack[k].kind = "resume" /\ cstack[k].gen = g
Empty(k) == cxs[cstack[k].si] = <<>>
OnItsWay(k) ==
    \/ exc.stage # "none" /\ exc.kind = "exit"
    \/ exc.stage = "jump" /\ exc.env = k

StacksOf(g) ==
    /\ gen[g].state = "YIELDED" => BodyStack(cxs[gen[g].si], g)
    /\ gen[g].state \in {"RUNNING", "YIELDED"} => gen[g].evalActive
    /\ \A k \in 1 .. Depth : Calls(k, g) =>
          \/ Empty(k) /\ OnItsWay(k)
          \/ BodyStack(cxs[cstack[k].si], g) /\ cxs[cstack[k].si][1].env = k

\* CvDEPTH is one while the sub context of the body is on a stack.
Alone(g) == \A h \in Generators \ {g} : BodyOf[h] # BodyOf[g]
InBody(g) ==
    \/ gen[g].state = "YIELDED"
    \/ \E k \in 1 .. Depth : Calls(k, g) /\ ~Empty(k)
DepthOf(g) ==
    Alone(g) =>
        /\ depth[BodyOf[g]] = IF InBody(g) THEN 1 ELSE 0
        /\ gen[g].state = "YIELDED" => cxs[gen[g].si][2].old = 0
        /\ \A k \in 1 .. Depth :
              Calls(k, g) /\ ~Empty(k) => cxs[cstack[k].si][2].old = 0

BodiesOK == PlainOK /\ \A g \in Generators : StacksOf(g) /\ DepthOf(g)

DepthInv == IndInv /\ (status = "running" => BodiesOK)

-----------------------------------------------------------------------------
\* Which blocks are on the list.

\* The blocks that suspended generators keep, and the allocated ones that no
\* generator keeps.
Aside == {gen[g].si : g \in Suspended}
Kept(c, out) == {s \in SI : s <= c.used /\ s \notin out}

\* si_prev leads from each of those to the main block: it goes down in far.
Rooted(c, out) ==
    \E far \in [SI -> Nat] :
        \A s \in Kept(c, out) \ {Main} :
            c.prev[s] \in Kept(c, out) /\ far[c.prev[s]] < far[s]

ListInv == IndInv /\ Rooted(chain, Aside)

-----------------------------------------------------------------------------
\* Delivering an exception.

Delivering == status = "running" /\ exc.stage # "none"

\* The activation on whose block the unwinding has arrived.
Arrived == CHOOSE k \in Activations(cstack) : cstack[k].si = cur

\* Delivery does not go round: each of its steps delivers the exception, ends
\* the program, leaves C frames for good, or, with the frames as they are,
\* unwinds an activation further out or goes over to the longjmp; and nothing
\* else happens meanwhile.
DeliveryDescends ==
    [][Delivering =>
          \/ ~Delivering'
          \/ Depth' < Depth
          \/ /\ Depth' = Depth
             /\ exc.stage = "unwind"
             /\ exc'.stage = "jump" \/ Arrived' < Arrived]_vars

\* Delivery does not stop halfway: the stack it has arrived at is one to unwind
\* to an eval, one to unwind and pop, or the main stack, and the boundary
\* longjmp goes to is one that looks at what arrives.
DeliveryGoesOn ==
    Delivering =>
        \/ /\ exc.stage = "unwind"
           /\ \/ exc.kind = "die" /\ \E i \in EvalsOn(cur) : \A j \in EvalsOn(cur) : j <= i
              \/ exc.kind = "die" /\ EvalsOn(cur) = {} /\ chain.prev[cur] \in SI
              \/ exc.kind = "exit" /\ cur # Main /\ chain.prev[cur] \in SI
              \/ cur = Main /\ (exc.kind = "die" => EvalsOn(cur) = {})
        \/ exc.stage = "jump" /\ \E kind \in {"docatch", "resume", "main"} : Jumping(kind)
=============================================================================
