----------------------------- MODULE WidgetLoop -----------------------------
(***************************************************************************)
(* What the dashboard promises of a widget (drawGraph, dashboard.js       *)
(* 102-128): it alternates between one fetch of its data and a wait for   *)
(* the next refresh, and its graph changes only when a fetch ends, to the *)
(* drawn data or to an emptied element.  The task, its polls and the      *)
(* network are hidden.                                                    *)
(***************************************************************************)

VARIABLES
    phase,   \* "fetch" while a task runs for the widget, "wait" in between
    graph    \* the widget's graph element: "initial", "drawn" or "empty"

vars == <<phase, graph>>

Init ==
    /\ phase = "fetch"
    /\ graph = "initial"

\* A fetch ends: the graph is drawn, emptied, or left as it was, and the
\* next refresh is scheduled.
Fetched ==
    /\ phase = "fetch"
    /\ phase' = "wait"
    /\ graph' \in {graph, "drawn", "empty"}

\* The refresh timeout fires and a new fetch starts.
Refresh ==
    /\ phase = "wait"
    /\ phase' = "fetch"
    /\ UNCHANGED graph

Next == Fetched \/ Refresh

Safety == Init /\ [][Next]_vars

(* The loop never stops. *)
Spec == Safety /\ WF_vars(Next)
=============================================================================
