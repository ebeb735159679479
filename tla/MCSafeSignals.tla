----------------------------- MODULE MCSafeSignals -----------------------------
(***************************************************************************)
(* Two signals, and the handlers that may die.                             *)
(***************************************************************************)
EXTENDS SafeSignalsProperties

\* When the handler of the last signal dies, the loop had come to its end.
LastDies == {SigSize - 1}

AnyDies == Sig
================================================================================
