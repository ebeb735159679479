------------------------- MODULE SafeSignalsProperties -------------------------
(***************************************************************************)
(* What a program that sets %SIG relies on.                                *)
(***************************************************************************)
EXTENDS SafeSignals

Value == Code \cup {"IGNORE", "none"}

Frame ==
    [at : {"loop"}, sig : 1 .. SigSize]
    \cup [at : {"handler"}, sig : Sig, wasBlocked : BOOLEAN]
    \cup [at : {"setsig"}, sig : Sig, value : Value, save : SUBSET Sig]

TypeOK ==
    /\ mask \in SUBSET Sig
    /\ kernel \in SUBSET Sig
    /\ psigPtr \in [Sig -> Value]
    /\ psigPend \in [Sig -> Nat]
    /\ sigPending \in Nat
    /\ stack \in Seq(Frame)
    /\ process \in {"alive", "default action", "no handler"}
    /\ stuck \in SUBSET Sig
    /\ sent \in Nat

\* A loop has still to look at s.
Awaited(s) == \E i \in DOMAIN stack : stack[i].at = "loop" /\ stack[i].sig <= s

\* "... a flag to say this signal is pending, that is awaiting delivery after
\* the current Perl opcode completes" (mg.c:2271): a signal that was counted is
\* noticed at the next op boundary, or by a loop that has still to look at it.
NoneForgotten ==
    \A s \in Sig :
        psigPend[s] > 0 =>
            sigPending > 0 \/ Awaited(s)

\* "Signal routines normally execute with the signal that caused their
\* invocation blocked" (mg.c:2337): the handler of a signal is never entered
\* for that signal before it is done, through whatever other handlers and
\* assignments to %SIG the two activations are apart.
HandlerNotReentered ==
    \A i, j \in DOMAIN stack :
        (/\ stack[i].at = "handler"
         /\ stack[j].at = "handler"
         /\ stack[i].sig = stack[j].sig) => i = j

\* Loops, handlers and assignments put the signal mask back, however they are
\* left; only a signal whose C handler was left by an exception stays blocked.
MaskRestored == stack = <<>> => mask \subseteq stuck

\* What is pending is despatched before the value of $SIG{s} changes, so that a
\* signal is handled by the handler that was installed when it arrived; unless
\* the handler of another signal makes the change, called by a loop that has
\* not yet looked at s.
HandlerKept ==
    [][\A s \in Sig : psigPtr'[s] # psigPtr[s] => psigPend[s] = 0 \/ Awaited(s)]_vars

\* "Avoid having the signal arrive at a bad time" (mg.c:2442): a signal is never
\* despatched to a handler that is gone, which ends the process.
NeverWithoutHandler == process # "no handler"

\* Every signal that was counted is handled in the end.
PendingHandled ==
    \A s \in Sig : psigPend[s] > 0 ~> (psigPend[s] = 0 \/ process # "alive")
================================================================================
