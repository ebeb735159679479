---------------------------- MODULE MCResourceLocks ----------------------------
(***************************************************************************)
(* Three threads and the sections that the macros tell apart.              *)
(***************************************************************************)
EXTENDS ResourceLocksProperties, TLC

Needs(gen, env, lc) == [gen |-> gen, env |-> env, lc |-> lc]

\* Of the sections that read the locale, one: LCr is a no-op or the same as LCx.
MostSections ==
    {s \in [Resource -> Need] : s["lc"] = "r" => s = Needs("-", "r", "r")}

Symmetry == Permutations(Thread)
================================================================================
