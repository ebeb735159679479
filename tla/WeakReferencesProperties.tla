----------------------- MODULE WeakReferencesProperties -----------------------
(***************************************************************************)
(* What weak references have to keep true.                                 *)
(***************************************************************************)
EXTENDS WeakReferences

Frame ==
    [at : {"destroy", "magic", "empty"}, obj : Obj]
        \cup [at : {"kill"}, obj : Obj, list : Seq(Scalar)]

TypeOK ==
    /\ value \in [Scalar -> {Undef} \cup [to : Obj, weak : BOOLEAN]]
    /\ refcnt \in [Obj -> Nat]
    /\ backrefs \in [Obj -> Seq(Scalar)]
    /\ phase \in [Obj -> {"unborn", "alive", "dying", "freed"}]
    /\ stack \in Seq(Frame)
    /\ panicked \in BOOLEAN

\* The list of an object, or what is left of it while the object dies, names
\* exactly its weak references, each once; and its count is the number of its
\* strong references, the one DESTROY is called with included.  So nothing is
\* left pointing at an object that is freed, and del_backref never panics.
Frames(at, o) == {i \in DOMAIN stack : stack[i].at = at /\ stack[i].obj = o}
ListOf(o) ==
    IF Frames("kill", o) = {} THEN backrefs[o]
    ELSE stack[CHOOSE i \in Frames("kill", o) : TRUE].list
BooksKept ==
    /\ ~ panicked
    /\ \A o \in Obj :
          LET to(weak) == {s \in Scalar : value[s] = [to |-> o, weak |-> weak]}
          IN  /\ Range(ListOf(o)) = to(TRUE)
              /\ IsInjective(ListOf(o))
              /\ refcnt[o] = Cardinality(to(FALSE)) + Cardinality(Frames("destroy", o))
              /\ phase[o] = "freed" => to(TRUE) \cup to(FALSE) = {}

\* A reference leads to a live object, or it is a weak one to an object whose
\* weak references are being cleared at this moment: set magic of those that
\* are cleared before it can see it.  (sv_kill_backrefs, sv.c:7365.)
ReferentsLive ==
    \A s \in Scalar :
        value[s] # Undef =>
            \/ phase[value[s].to] = "alive"
            \/ value[s].weak /\ value[s].to \in Dying

\* "Free back-references before magic, in case the magic calls Perl code that
\* has weak references to sv" (sv.c:7922): no Perl code ever gets at an object
\* that is being freed or was freed.  It is false when Intrudes is TRUE, and
\* says little when it is not: what the comment warns of is then left out.
NeverSeenDying == PerlCode => \A o \in Reach : phase[o] \in {"unborn", "alive"}

-----------------------------------------------------------------------------
\* Counts and lists implement the promise made of weak references.

InDestructor == {o \in Obj : Frames("destroy", o) # {}}
Disposed == {o \in Obj : phase[o] \in {"dying", "freed"}}

Promise == INSTANCE WeakMap WITH held <- InDestructor, doomed <- Disposed

\* An object dies when no strong reference is left, neither sooner nor while
\* its destructor runs; no program uses a reference to it after that; and a
\* weak reference is cleared for no other reason.
ImplementsWeakMap == Promise!Spec
================================================================================
