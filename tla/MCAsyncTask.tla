---------------------------- MODULE MCAsyncTask ----------------------------
(* Model-checking instance of AsyncTask: a task that reports two progress  *)
(* steps and may be retried once.                                         *)
EXTENDS AsyncTask

CONSTANT c1   \* a custom task state, model value

MCCustomStates == {c1}
NoCustomStates == {}

\* Bounds the timers of the fault variants, which schedule more than one.
TimerBound == timers <= 2
=============================================================================
