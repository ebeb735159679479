----------------------------- MODULE MCThreadQueue -----------------------------
(***************************************************************************)
(* Two producers and three consumers on a queue that has no limit, has one *)
(* that it overflows, or is given one at any moment; items come one or two *)
(* at a time, and some cannot be shared.                                   *)
(***************************************************************************)
EXTENDS ThreadQueueProperties
================================================================================
