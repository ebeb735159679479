-------------------------- MODULE GeneratorLifecycle --------------------------
(***************************************************************************)
(* What pod/perlgenerator.pod promises of generators, without stacks,      *)
(* exception boundaries or pads: a generator is called, runs until it      *)
(* pauses or finishes, and control always goes back to whoever called it.  *)
(* Calls nest; a generator that is running cannot be called; a finished or *)
(* failed one never runs again.                                            *)
(***************************************************************************)
CONSTANTS Generators,
          Nobody        \* not a generator: the main program

VARIABLES life,     \* how far each generator has got
          active,   \* the generator whose body runs, Nobody outside all of them
          caller,   \* whose code called each running generator
          over      \* the program cannot continue

avars == <<life, active, caller, over>>

Lives == {"gone", "new", "running", "paused", "completed", "failed"}

AInit ==
    /\ life = [g \in Generators |-> "gone"]
    /\ active = Nobody
    /\ caller = [g \in Generators |-> Nobody]
    /\ over = FALSE

ACreate(g) ==
    /\ ~over
    /\ life[g] = "gone"
    /\ life' = [life EXCEPT ![g] = "new"]
    /\ UNCHANGED <<active, caller, over>>

ACall(g) ==
    /\ ~over
    /\ life[g] \in {"new", "paused"}
    /\ life' = [life EXCEPT ![g] = "running"]
    /\ active' = g
    /\ caller' = [caller EXCEPT ![g] = active]
    /\ UNCHANGED over

\* The generator whose body runs pauses, completes or fails.
AReturn(how) ==
    /\ ~over
    /\ active # Nobody
    /\ life' = [life EXCEPT ![active] = how]
    /\ active' = caller[active]
    /\ caller' = [caller EXCEPT ![active] = Nobody]
    /\ UNCHANGED over

AFree(g) ==
    /\ ~over
    /\ life[g] \notin {"gone", "running"}
    /\ life' = [life EXCEPT ![g] = "gone"]
    /\ UNCHANGED <<active, caller, over>>

ACrash ==
    /\ over' = TRUE
    /\ UNCHANGED <<life, active, caller>>

ANext ==
    \/ \E g \in Generators : ACreate(g) \/ ACall(g) \/ AFree(g)
    \/ \E how \in {"paused", "completed", "failed"} : AReturn(how)
    \/ ACrash

ASpec == AInit /\ [][ANext]_avars
=============================================================================
