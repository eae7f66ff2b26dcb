-------------------------- MODULE MCCatchAsyncTask --------------------------
(* Model-checking instance of CatchAsyncTask. *)
EXTENDS CatchAsyncTask

NoCustomStates == {}
AllCauses == {"timeout", "http", "zero"}

\* Bounds the timers of the fault variants, which may schedule more than one.
TimerBound == timers + refresh <= 2
=============================================================================
