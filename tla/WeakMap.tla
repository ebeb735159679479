-------------------------------- MODULE WeakMap --------------------------------
(***************************************************************************)
(* What builtin.pm promises of weak references: "If only weakened          *)
(* references to a referent remain, it will be disposed of, and all        *)
(* remaining weak references will be set to undef."  A destructor runs     *)
(* with a reference to its object, and may keep it.                        *)
(***************************************************************************)
EXTENDS FiniteSets

CONSTANTS
    Obj,        \* the objects
    Scalar,     \* the scalars that may hold a reference
    Undef       \* the value of a scalar that holds none

VARIABLES
    value,      \* value[s]: Undef or [to, weak]
    held,       \* the objects whose destructor runs
    doomed      \* the objects that are disposed of

vars == <<value, held, doomed>>

Reference == [to : Obj, weak : BOOLEAN]

LeadsTo(s, S) == value[s] # Undef /\ value[s].to \in S

Strong(o) == {s \in Scalar : LeadsTo(s, {o}) /\ ~ value[s].weak}

Init ==
    /\ value = [s \in Scalar |-> Undef]
    /\ held = {}
    /\ doomed = {}

\* A program never gets hold of an object that is disposed of.
Assign(s, v) ==
    /\ v # Undef => v.to \notin doomed
    /\ ~ LeadsTo(s, doomed)
    /\ value' = [value EXCEPT ![s] = v]
    /\ UNCHANGED <<held, doomed>>

\* A destructor begins when the last strong reference is gone.
Hold(o) ==
    /\ o \notin held \cup doomed
    /\ Strong(o)' = {}
    /\ held' = held \cup {o}
    /\ UNCHANGED doomed

\* The assignment that drops the last reference, or the weakening of it.
AssignHold(s, v, o) ==
    /\ Hold(o)
    /\ v # Undef => v.to \notin doomed
    /\ ~ LeadsTo(s, doomed)
    /\ value' = [value EXCEPT ![s] = v]

\* The destructor is over and has kept the object.
Keep(o) ==
    /\ o \in held
    /\ Strong(o) # {}
    /\ held' = held \ {o}
    /\ UNCHANGED <<value, doomed>>

Doom(o) ==
    /\ o \in held
    /\ Strong(o) = {}
    /\ held' = held \ {o}
    /\ doomed' = doomed \cup {o}
    /\ UNCHANGED value

\* The references to a doomed object go, and those it contains.
Clear(s) ==
    /\ LeadsTo(s, doomed) \/ s \in doomed
    /\ value' = [value EXCEPT ![s] = Undef]
    /\ UNCHANGED <<held, doomed>> \/ \E o \in Obj : Hold(o)

Next ==
    \/ \E s \in Scalar :
          \/ Clear(s)
          \/ \E v \in {Undef} \cup Reference :
                Assign(s, v) \/ \E o \in Obj : AssignHold(s, v, o)
    \/ \E o \in Obj : Keep(o) \/ Doom(o)

Spec == Init /\ [][Next]_vars
================================================================================
