---------------------------- MODULE WeakReferences ----------------------------
(***************************************************************************)
(* Reference counts, weak references and the lists of back-references that *)
(* lead from an object to the weak references to it.  The objects are      *)
(* blessed hashes of one element; the scalar named o is the element of the *)
(* object o.                                                               *)
(*                                                                         *)
(* When a count falls to zero C code takes over: it calls DESTROY, clears  *)
(* the weak references, frees the contents, and may call DESTROY or set    *)
(* magic, which is Perl code again, at each of these places.               *)
(***************************************************************************)
EXTENDS Naturals, Sequences, FiniteSets, Functions

CONSTANTS
    Obj,
    Var,        \* the scalars that belong to no object
    Undef,
    Magical,    \* the variables with set magic that calls Perl code
    Intrudes    \* whether that code uses what leads to the dying object

ASSUME WeakAssumption ==
    /\ Obj \cap Var = {}
    /\ Magical \subseteq Var
    /\ Intrudes \in BOOLEAN
    /\ Undef \notin [to : Obj, weak : BOOLEAN]

Scalar == Var \cup Obj

VARIABLES
    value,      \* value[s]: Undef or [to, weak]
    refcnt,     \* SvREFCNT of each object
    backrefs,   \* xhv_backreferences of each object
    phase,      \* "unborn", "alive", "dying" or "freed"
    stack,      \* the C frames of sv_free2 and below, innermost last
    panicked

vars == <<value, refcnt, backrefs, phase, stack, panicked>>

\* DESTROY; sv_kill_backrefs and what it has still to clear; the set magic of
\* a variable it has cleared; the rest of sv_clear.
Destroy(o) == [at |-> "destroy", obj |-> o]
Kill(o, list) == [at |-> "kill", obj |-> o, list |-> list]
Magic(o) == [at |-> "magic", obj |-> o]
Empty(o) == [at |-> "empty", obj |-> o]

Inner == stack[Len(stack)]
Top(at) == ~ panicked /\ stack # <<>> /\ Inner.at = at

Becomes(frame) == [stack EXCEPT ![Len(stack)] = frame]
Popped == SubSeq(stack, 1, Len(stack) - 1)

Init ==
    /\ value = [s \in Scalar |-> Undef]
    /\ refcnt = [o \in Obj |-> 0]
    /\ backrefs = [o \in Obj |-> <<>>]
    /\ phase = [o \in Obj |-> "unborn"]
    /\ stack = <<>>
    /\ panicked = FALSE

-----------------------------------------------------------------------------
\* SvREFCNT_dec_NN and the begin of sv_free2: DESTROY is called with a
\* reference of its own.

Release(cnt, o, frames) ==
    IF cnt[o] = 1
    THEN /\ refcnt' = cnt
         /\ stack' = Append(frames, Destroy(o))
    ELSE /\ refcnt' = IF cnt[o] = 0 THEN cnt ELSE [cnt EXCEPT ![o] = @ - 1]
         /\ stack' = frames

\* Mutation: the last element is not put into the hole.
Without_Hole(list, i) == SubSeq(list, 1, Len(list) - 1)

\* The first or last element goes; a hole is filled with the last element.
Without(list, i) ==
    IF i = 1 THEN Tail(list)
    ELSE SubSeq([list EXCEPT ![i] = list[Len(list)]], 1, Len(list) - 1)

DelBackref(o, s) ==
    /\ panicked' = (s \notin Range(backrefs[o]))
    /\ backrefs' = IF s \in Range(backrefs[o])
                   THEN [backrefs EXCEPT
                           ![o] = Without(@, CHOOSE i \in DOMAIN @ : @[i] = s)]
                   ELSE backrefs

\* sv_unref_flags for the old value of s, its counts being cnt.
Unref(cnt, s, frames) ==
    IF value[s] = Undef
    THEN refcnt' = cnt /\ stack' = frames /\ UNCHANGED <<backrefs, panicked>>
    ELSE IF value[s].weak
    THEN DelBackref(value[s].to, s) /\ refcnt' = cnt /\ stack' = frames
    ELSE Release(cnt, value[s].to, frames) /\ UNCHANGED <<backrefs, panicked>>

-----------------------------------------------------------------------------
\* What Perl code does: the program, a destructor, or set magic.

PerlCode == ~ panicked /\ (stack = <<>> \/ Top("destroy") \/ Top("magic"))

Dying == {stack[i].obj : i \in {j \in DOMAIN stack : stack[j].at = "kill"}}

Targets(S) == {value[s].to : s \in {r \in S : value[r] # Undef}}

\* The objects that S leads to, by way of none in avoid: they are in every set
\* that has what S has and what its own members refer to.
Closure(S, avoid) ==
    {o \in Obj : \A C \in SUBSET Obj : (S \cup Targets(C)) \ avoid \subseteq C => o \in C}

\* The objects the running code can get at, and makes use of.
Reach ==
    Closure(Targets(Var) \cup IF Top("destroy") THEN {Inner.obj} ELSE {},
            IF Intrudes THEN {} ELSE Dying)

Usable(s) ==
    /\ PerlCode
    /\ s \in Var \cup Reach
    /\ Intrudes \/ Closure(Targets({s}), {}) \cap Dying = {}

\* sv_setsv, undef, and the end of the scope of a variable.
Assign(s, o) ==
    /\ Usable(s)
    /\ o \in Reach \/ phase[o] = "unborn"
    /\ value[s] # [to |-> o, weak |-> FALSE]
    /\ value' = [value EXCEPT ![s] = [to |-> o, weak |-> FALSE]]
    /\ phase' = [phase EXCEPT ![o] = IF @ = "unborn" THEN "alive" ELSE @]
    /\ Unref([refcnt EXCEPT ![o] = @ + 1], s, stack)

Clear(s) ==
    /\ Usable(s)
    /\ value[s] # Undef
    /\ value' = [value EXCEPT ![s] = Undef]
    /\ Unref(refcnt, s, stack)
    /\ UNCHANGED phase

AddBackref(o, s) == backrefs' = [backrefs EXCEPT ![o] = Append(@, s)]

\* sv_rvweaken
Weaken(s) ==
    /\ Usable(s)
    /\ value[s] # Undef /\ ~ value[s].weak
    /\ AddBackref(value[s].to, s)
    /\ value' = [value EXCEPT ![s] = [to |-> @.to, weak |-> TRUE]]
    /\ Release(refcnt, value[s].to, stack)
    /\ UNCHANGED <<phase, panicked>>

\* sv_rvunweaken
Unweaken(s) ==
    /\ Usable(s)
    /\ value[s] # Undef /\ value[s].weak
    /\ value' = [value EXCEPT ![s] = [to |-> @.to, weak |-> FALSE]]
    /\ refcnt' = [refcnt EXCEPT ![value[s].to] = @ + 1]
    /\ DelBackref(value[s].to, s)
    /\ UNCHANGED <<phase, stack>>

-----------------------------------------------------------------------------
\* sv_clear

\* Mutation: a reference that DESTROY has kept is not noticed.
Resurrected_Unnoticed(o) == FALSE

\* "DESTROY gave object new lease on life"
Resurrected(o) == refcnt[o] > 1

\* curse gives up the reference it made; hv_kill_backrefs takes the list.
DestroyReturns ==
    /\ Top("destroy")
    /\ LET o == Inner.obj
       IN  /\ refcnt' = [refcnt EXCEPT ![o] = @ - 1]
           /\ IF Resurrected(o)
              THEN /\ stack' = Popped
                   /\ UNCHANGED <<backrefs, phase>>
              ELSE /\ stack' = Becomes(Kill(o, backrefs[o]))
                   /\ backrefs' = [backrefs EXCEPT ![o] = <<>>]
                   /\ phase' = [phase EXCEPT ![o] = "dying"]
    /\ UNCHANGED <<value, panicked>>

\* One round of the loop of sv_kill_backrefs.
KillBackref ==
    /\ Top("kill")
    /\ LET o == Inner.obj
           list == Inner.list
           rest == Becomes(Kill(o, Tail(list)))
       IN  /\ list # <<>>
           /\ IF value[Head(list)] # Undef /\ value[Head(list)].weak
              THEN /\ value' = [value EXCEPT ![Head(list)] = Undef]
                   /\ stack' = IF Head(list) \in Magical THEN Append(rest, Magic(o)) ELSE rest
                   /\ UNCHANGED panicked
              ELSE panicked' = TRUE /\ UNCHANGED <<value, stack>>
    /\ UNCHANGED <<refcnt, backrefs, phase>>

MagicReturns ==
    /\ Top("magic")
    /\ stack' = Popped
    /\ UNCHANGED <<value, refcnt, backrefs, phase, panicked>>

KilledAll ==
    /\ Top("kill")
    /\ Inner.list = <<>>
    /\ stack' = Becomes(Empty(Inner.obj))
    /\ UNCHANGED <<value, refcnt, backrefs, phase, panicked>>

\* The element is freed, and with it perhaps the object it refers to.
FreeElement ==
    /\ Top("empty")
    /\ LET s == Inner.obj
       IN  /\ value[s] # Undef
           /\ value' = [value EXCEPT ![s] = Undef]
           /\ Unref(refcnt, s, stack)
    /\ UNCHANGED phase

FreeBody ==
    /\ Top("empty")
    /\ value[Inner.obj] = Undef
    /\ phase' = [phase EXCEPT ![Inner.obj] = "freed"]
    /\ stack' = Popped
    /\ UNCHANGED <<value, refcnt, backrefs, panicked>>

Next ==
    \/ \E s \in Scalar :
          \/ \E o \in Obj : Assign(s, o)
          \/ Clear(s) \/ Weaken(s) \/ Unweaken(s)
    \/ DestroyReturns \/ KillBackref \/ MagicReturns \/ KilledAll
    \/ FreeElement \/ FreeBody

Spec == Init /\ [][Next]_vars
================================================================================
