------------------------------ MODULE SafeSignals ------------------------------
(***************************************************************************)
(* Deferred ("safe") signals: the C handler Perl_csighandler3 only counts, *)
(* PERL_ASYNC_CHECK between two ops runs Perl_despatch_signals, and that   *)
(* calls the handlers of %SIG, whose code is Perl again: it has op         *)
(* boundaries of its own, assigns to %SIG, and dies.                       *)
(*                                                                         *)
(* A signal may arrive between any two steps.  A step touches the pending  *)
(* count of one signal only, or the mask, so that an arrival in the middle *)
(* of one has the effect of an arrival before or after it.                 *)
(***************************************************************************)
EXTENDS Integers, Sequences

CONSTANTS
    SigSize,    \* SIG_SIZE: the signals are 1 .. SigSize - 1
    Code,       \* the subroutines that %SIG may name as handlers
    Dying,      \* the signals whose handlers may die
    DieCount,   \* SIG_PENDING_DIE_COUNT
    MaxSent,    \* bound: signals sent to the process
    MaxFrames   \* bound: frames of the C stack

ASSUME SignalAssumption ==
    /\ SigSize \in Nat \ {0}
    /\ Code \cap {"IGNORE", "none"} = {}
    /\ Dying \subseteq 1 .. SigSize - 1
    /\ {DieCount, MaxSent, MaxFrames} \subseteq Nat

Sig == 1 .. SigSize - 1

VARIABLES
    mask,       \* the signals the process has blocked
    kernel,     \* those the kernel keeps until they are unblocked
    psigPtr,    \* PL_psig_ptr: the value of $SIG{s}; the C handler follows it
    psigPend,   \* PL_psig_pend
    sigPending, \* PL_sig_pending
    stack,      \* the C frames above the main program, innermost first
    process,    \* "alive", or how it ended
    stuck,      \* the signals whose C handler was left by an exception
    sent        \* signals sent so far

vars == <<mask, kernel, psigPtr, psigPend, sigPending, stack, process, stuck, sent>>

\* The loop of despatch_signals, about to look at sig; a handler called by it;
\* magic_setsig, about to install a value.
Loop(s) == [at |-> "loop", sig |-> s]
Handler(s, wasBlocked) == [at |-> "handler", sig |-> s, wasBlocked |-> wasBlocked]
SetSig(s, v, save) == [at |-> "setsig", sig |-> s, value |-> v, save |-> save]

Init ==
    /\ mask = {}
    /\ kernel = {}
    /\ psigPtr \in [Sig -> Code]
    /\ psigPend = [s \in Sig |-> 0]
    /\ sigPending = 0
    /\ stack = <<>>
    /\ process = "alive"
    /\ stuck = {}
    /\ sent = 0

Top(at) == stack # <<>> /\ Head(stack).at = at

\* Perl code runs: the main program, or a handler.
PerlCode == stack = <<>> \/ Top("handler")

\* The kernel delivers what is not blocked before the program goes on.
Runs == process = "alive" /\ kernel \subseteq mask

-----------------------------------------------------------------------------
\* Leaving frames by an exception runs the destructors on the save stack.

\* S_unblock_sigmask and restore_sigmask
Restored(frame, m) ==
    CASE frame.at = "loop" -> m
      [] frame.at = "handler" -> IF frame.wasBlocked THEN m ELSE m \ {frame.sig}
      [] frame.at = "setsig" -> frame.save

\* Mutation: an exception skips the destructors.
MaskAfter_Skipped(k, n, m) == m

\* The n innermost frames are left, k being the assignment furthest out: it puts
\* its mask back, and the handlers further out unblock their signals after that.
MaskAfter(k, n, m) ==
    (IF k = 0 THEN m ELSE stack[k].save)
    \ {stack[i].sig : i \in {j \in k + 1 .. n : stack[j].at = "handler" /\ ~ stack[j].wasBlocked}}

\* There is none among them if k = 0.
LastSave(k, n) ==
    /\ k > 0 => stack[k].at = "setsig"
    /\ \A i \in k + 1 .. n : stack[i].at # "setsig"

\* An eval of the main program or of some handler on the stack catches it.
UnwindFrom(n, m) ==
    /\ stack' = SubSeq(stack, n + 1, Len(stack))
    /\ stack' # <<>> => Head(stack').at = "handler"
    /\ \E k \in 0 .. n : LastSave(k, n) /\ mask' = MaskAfter(k, n, m)

-----------------------------------------------------------------------------
\* Perl_csighandler3

Count(s) ==
    /\ psigPend' = [psigPend EXCEPT ![s] = @ + 1]
    /\ sigPending' = sigPending + 1
    /\ IF sigPending + 1 < DieCount
       THEN UNCHANGED <<stack, mask, stuck>>
       ELSE \* the kernel blocked s for the C handler, which does not return
            /\ \E n \in 0 .. Len(stack) : UnwindFrom(n, mask \cup {s})
            /\ stuck' = stuck \cup {s}

Arrive(s) ==
    /\ process = "alive"
    /\ psigPtr[s] \in Code
    /\ sent < MaxSent
    /\ sent' = sent + 1
    /\ IF s \in mask
       THEN /\ kernel' = kernel \cup {s}
            /\ UNCHANGED <<psigPend, sigPending, stack, mask, stuck>>
       ELSE Count(s) /\ UNCHANGED kernel
    /\ UNCHANGED <<psigPtr, process>>

Deliver(s) ==
    /\ process = "alive"
    /\ s \in kernel \ mask
    /\ kernel' = kernel \ {s}
    /\ IF psigPtr[s] \in Code
       THEN Count(s) /\ UNCHANGED process
       ELSE /\ process' = "default action"
            /\ UNCHANGED <<psigPend, sigPending, stack, mask, stuck>>
    /\ UNCHANGED <<psigPtr, sent>>

-----------------------------------------------------------------------------
\* Perl_despatch_signals

\* PERL_ASYNC_CHECK between two ops
AsyncCheck ==
    /\ Runs
    /\ PerlCode
    /\ sigPending # 0
    /\ Len(stack) + 2 <= MaxFrames
    /\ sigPending' = 0
    /\ stack' = <<Loop(1)>> \o stack
    /\ UNCHANGED <<mask, kernel, psigPtr, psigPend, process, stuck, sent>>

NextSig == [stack EXCEPT ![1].sig = @ + 1]

SkipSig ==
    /\ Runs
    /\ Top("loop")
    /\ Head(stack).sig \in Sig
    /\ psigPend[Head(stack).sig] = 0
    /\ stack' = NextSig
    /\ UNCHANGED <<mask, kernel, psigPtr, psigPend, sigPending, process, stuck, sent>>

\* Mutation: the handler runs with its signal unblocked.
HandlerMask_Open(s) == mask

HandlerMask(s) == mask \cup {s}

\* The signal is blocked, and perly_sighandler calls the handler, warns that
\* there is none of that name, or finds no value at all and exits.
CallHandler ==
    /\ Runs
    /\ Top("loop")
    /\ Head(stack).sig \in Sig
    /\ LET s == Head(stack).sig
       IN  /\ psigPend[s] # 0
           /\ psigPend' = [psigPend EXCEPT ![s] = 0]
           /\ IF psigPtr[s] \in Code
              THEN /\ mask' = HandlerMask(s)
                   /\ stack' = <<Handler(s, s \in mask)>> \o NextSig
              ELSE /\ stack' = NextSig
                   /\ UNCHANGED mask
           /\ process' = IF psigPtr[s] = "none" THEN "no handler" ELSE process
    /\ UNCHANGED <<kernel, psigPtr, sigPending, stuck, sent>>

\* Mutation: the flag is reset after the loop.
Despatched_Resets ==
    /\ Runs
    /\ Top("loop")
    /\ Head(stack).sig = SigSize
    /\ sigPending' = 0
    /\ stack' = Tail(stack)
    /\ UNCHANGED <<mask, kernel, psigPtr, psigPend, process, stuck, sent>>

\* The end of the loop.
Despatched ==
    /\ Runs
    /\ Top("loop")
    /\ Head(stack).sig = SigSize
    /\ stack' = Tail(stack)
    /\ UNCHANGED <<mask, kernel, psigPtr, psigPend, sigPending, process, stuck, sent>>

HandlerReturns ==
    /\ Runs
    /\ Top("handler")
    /\ mask' = Restored(Head(stack), mask)
    /\ stack' = Tail(stack)
    /\ UNCHANGED <<kernel, psigPtr, psigPend, sigPending, process, stuck, sent>>

\* The exception is thrown again by perly_sighandler, through the loop.
HandlerDies ==
    /\ Runs
    /\ Top("handler")
    /\ Head(stack).sig \in Dying
    /\ \E n \in 1 .. Len(stack) : UnwindFrom(n, mask)
    /\ UNCHANGED <<kernel, psigPtr, psigPend, sigPending, process, stuck, sent>>

-----------------------------------------------------------------------------
\* magic_setsig: $SIG{s} is assigned or deleted.

\* Mutation: what is pending is left for later.
AssignSig_Later(s, v) ==
    /\ Runs
    /\ PerlCode
    /\ Len(stack) + 3 <= MaxFrames
    /\ mask' = mask \cup {s}
    /\ stack' = <<SetSig(s, v, mask)>> \o stack
    /\ UNCHANGED <<kernel, psigPtr, psigPend, sigPending, process, stuck, sent>>

\* What is pending is despatched while the signal is blocked.
AssignSig(s, v) ==
    /\ Runs
    /\ PerlCode
    /\ Len(stack) + 3 <= MaxFrames
    /\ mask' = mask \cup {s}
    /\ sigPending' = 0
    /\ stack' = (IF sigPending # 0 THEN <<Loop(1)>> ELSE <<>>) \o <<SetSig(s, v, mask)>> \o stack
    /\ UNCHANGED <<kernel, psigPtr, psigPend, process, stuck, sent>>

InstallSig ==
    /\ Runs
    /\ Top("setsig")
    /\ LET f == Head(stack)
       IN  /\ psigPtr' = [psigPtr EXCEPT ![f.sig] = f.value]
           /\ kernel' = IF f.value = "IGNORE" THEN kernel \ {f.sig} ELSE kernel
           /\ mask' = Restored(f, mask)
    /\ stack' = Tail(stack)
    /\ UNCHANGED <<psigPend, sigPending, process, stuck, sent>>

\* pp_fork, going on as the child.
ForkChild ==
    /\ Runs
    /\ PerlCode
    /\ psigPend' = [s \in Sig |-> 0]
    /\ sigPending' = 0
    /\ kernel' = {}
    /\ UNCHANGED <<mask, psigPtr, stack, process, stuck, sent>>

Next ==
    \/ \E s \in Sig :
          \/ Arrive(s) \/ Deliver(s)
          \/ \E v \in Code \cup {"IGNORE", "none"} : AssignSig(s, v)
    \/ AsyncCheck \/ SkipSig \/ CallHandler \/ Despatched
    \/ HandlerReturns \/ HandlerDies \/ InstallSig \/ ForkChild

Spec == Init /\ [][Next]_vars

\* The C code goes on; a handler that can return time and again does so at
\* last, and Perl code that runs comes to an op boundary.
FairSpec ==
    /\ Spec
    /\ WF_vars(SkipSig \/ CallHandler \/ Despatched \/ InstallSig)
    /\ WF_vars(\E s \in Sig : Deliver(s))
    /\ SF_vars(HandlerReturns)
    /\ SF_vars(AsyncCheck)
================================================================================
