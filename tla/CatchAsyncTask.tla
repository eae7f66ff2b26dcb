---------------------------- MODULE CatchAsyncTask ----------------------------
(***************************************************************************)
(* The dashboard's refresh loop for one widget graph                       *)
(* (src/legacy/display_widgets/static/dashboard.js 102-128) over           *)
(* gridportal.website.startAsyncTask and catchAsyncTask                    *)
(* (src/legacy/website/static/website.js 1181-1276).                      *)
(*                                                                         *)
(* drawGraph starts a task (useSpinner = false), catchAsyncTask polls its  *)
(* status every 1000 ms (each poll with a 30 s timeout) and POSTs the     *)
(* result URL on SUCCESS.  The success function draws the graph and the   *)
(* failure callback does nothing but reschedule; both call drawGraph again *)
(* after a delay (15 minutes for graphs, 30 s for gauges), which starts a *)
(* fresh task.  The loop has no end.                                      *)
(***************************************************************************)
EXTENDS CeleryTask

CONSTANT FailCauses  \* how an XHR may fail: a subset of
                     \* {"timeout", "http", "zero"}; "zero" is status 0

ASSUME FailCausesAssumption == FailCauses \subseteq {"timeout", "http", "zero"}

VARIABLES
    net,      \* requests and answers in flight
    timers,   \* requestTaskStatus timeouts scheduled and not yet fired
    refresh,  \* drawGraph timeouts scheduled and not yet fired
    shown     \* the widget's graph element: "initial" (as rendered),
              \* "drawn" (Flotr.draw / drawGauge) or "empty" (emptied)

client == <<timers, refresh, shown>>
vars == <<job, done, retries, net, timers, refresh, shown>>

-----------------------------------------------------------------------------
StartReq   == [kind |-> "start"]
StatusReq  == [kind |-> "status"]
ResultReq  == [kind |-> "result"]
StartOk    == [kind |-> "startOk"]
ResultOk   == [kind |-> "resultOk"]
StatusOk(s, c) == [kind |-> "statusOk", status |-> s, current |-> c]
Failed(k, e) == [kind |-> "failed", call |-> k, cause |-> e]

\* Only the status jQuery.ajax carries a timeout (website.js 1271).
CausesOf(k) == IF k = "status" THEN FailCauses ELSE FailCauses \ {"timeout"}

Messages ==
    {StartReq, StatusReq, ResultReq, StartOk, ResultOk}
    \cup {StatusOk(s, c) : s \in TaskStates, c \in 0..MaxProgress}
    \cup {Failed(k, e) : k \in {"start", "status", "result"},
                         e \in {"timeout", "http", "zero"}}

\* The states taskStatusDone waits through (website.js 1252).
CatchWaitStates == {"PENDING", "STARTED", "RETRY"}

\* The failure callback of drawGraph (dashboard.js 116-118, 124-126), and
\* the second half of its success function (115, 123): drawGraph again
\* after a delay.
FailedCallback == refresh' = refresh + 1

-----------------------------------------------------------------------------
\* drawGraph at page load (drawGraphs, dashboard.js 130-137):
\* startAsyncTask(...)() runs runTask, which POSTs the request URL; the
\* spinner is off (useSpinner = false).
Init ==
    /\ job = "NONE"
    /\ done = 0
    /\ retries = 0
    /\ net = {StartReq}
    /\ timers = 0
    /\ refresh = 0
    /\ shown = "initial"

\* drawGraph (dashboard.js 102-128) when its timeout fires: a new task.
DrawGraph ==
    /\ refresh > 0
    /\ refresh' = refresh - 1
    /\ net' = net \cup {StartReq}
    /\ job' = "NONE" /\ done' = 0 /\ retries' = 0
    /\ UNCHANGED <<timers, shown>>

\* catchTask in runTask (1208-1211): catchAsyncTask(data.task_id, ...)()
\* polls the status at once.
CatchTask ==
    /\ StartOk \in net
    /\ net' = (net \ {StartOk}) \cup {StatusReq}
    /\ UNCHANGED <<worker, timers, refresh, shown>>

TaskStartFailSilent(m) ==
    /\ m \in net
    /\ m.kind = "failed" /\ m.call = "start"
    /\ net' = net \ {m}
    /\ refresh' = IF m.cause = "zero" THEN refresh ELSE refresh + 1
    /\ UNCHANGED <<worker, timers, shown>>

\* taskStartFail (1198-1205): notify unless the status is 0 (stopSpinner
\* does nothing with useSpinner = false), then failedCallback.
TaskStartFail(m) ==
    /\ m \in net
    /\ m.kind = "failed" /\ m.call = "start"
    /\ net' = net \ {m}
    /\ FailedCallback
    /\ UNCHANGED <<worker, timers, shown>>

RequestTaskStatusUnguarded ==
    /\ timers' = timers - 1
    /\ net' = net \cup {StatusReq}
    /\ UNCHANGED <<worker, refresh, shown>>

\* requestTaskStatus (1266-1273): the timer fires, the status is POSTed.
RequestTaskStatus ==
    /\ timers > 0
    /\ timers' = timers - 1
    /\ net' = net \cup {StatusReq}
    /\ UNCHANGED <<worker, refresh, shown>>

TaskStatusFailTwice(m) ==
    /\ m \in net
    /\ m.kind = "failed" /\ m.call \in {"status", "result"}
    /\ net' = net \ {m}
    /\ shown' = IF m.cause = "zero" THEN shown ELSE "empty"
    /\ refresh' = refresh + 2
    /\ UNCHANGED <<worker, timers>>

\* taskStatusFail (1235-1245) as the fail handler of a status poll or of
\* the result POST: failStatus (stopSpinner empties resultElem, whatever
\* useSpinner was, and notifies) unless the status is 0; failedCallback.
TaskStatusFail(m) ==
    /\ m \in net
    /\ m.kind = "failed" /\ m.call \in {"status", "result"}
    /\ net' = net \ {m}
    /\ shown' = IF m.cause = "zero" THEN shown ELSE "empty"
    /\ FailedCallback
    /\ UNCHANGED <<worker, timers>>

\* taskStatusDone (1246-1262).  SUCCESS: requestResult.  PENDING, STARTED,
\* RETRY: poll again in 1000 ms.  FAILURE and every other state (RECEIVED,
\* PROGRESS, REVOKED, a custom state): taskStatusFail() with no arguments,
\* which (jqXHR === undefined) empties the element, notifies and calls
\* failedCallback.
TaskStatusDone(m) ==
    /\ m \in net
    /\ m.kind = "statusOk"
    /\ net' = IF m.status = "SUCCESS" THEN (net \ {m}) \cup {ResultReq}
                                      ELSE net \ {m}
    /\ timers' = IF m.status \in CatchWaitStates THEN timers + 1 ELSE timers
    /\ \/ /\ m.status \in CatchWaitStates \cup {"SUCCESS"}
          /\ UNCHANGED <<refresh, shown>>
       \/ /\ m.status \notin CatchWaitStates \cup {"SUCCESS"}
          /\ shown' = "empty"
          /\ FailedCallback
    /\ UNCHANGED worker

SuccessFnNoReschedule ==
    /\ ResultOk \in net
    /\ net' = net \ {ResultOk}
    /\ shown' = "drawn"
    /\ UNCHANGED <<worker, timers, refresh>>

\* successFn (dashboard.js 113-115, 121-123): the result POST answered;
\* draw the graph or the gauge and schedule the next drawGraph.
SuccessFn ==
    /\ ResultOk \in net
    /\ net' = net \ {ResultOk}
    /\ shown' = "drawn"
    /\ refresh' = refresh + 1
    /\ UNCHANGED <<worker, timers>>

-----------------------------------------------------------------------------
(* The server (spec.md 4.1, 6): start, status and result views, each of   *)
(* whose XHRs may fail instead, and the worker.                           *)

ServeStart ==
    /\ StartReq \in net
    /\ \/ /\ job' = "PENDING"
          /\ net' = (net \ {StartReq}) \cup {StartOk}
       \/ /\ \E e \in CausesOf("start") :
                net' = (net \ {StartReq}) \cup {Failed("start", e)}
          /\ job' \in {job, "PENDING"}
    /\ UNCHANGED <<done, retries, client>>

ServeStatus ==
    /\ StatusReq \in net
    /\ \E a \in {StatusOk(job, done)} \cup {Failed("status", e) : e \in CausesOf("status")} :
          net' = (net \ {StatusReq}) \cup {a}
    /\ UNCHANGED <<worker, client>>

ServeResult ==
    /\ ResultReq \in net
    /\ \E a \in {ResultOk} \cup {Failed("result", e) : e \in CausesOf("result")} :
          net' = (net \ {ResultReq}) \cup {a}
    /\ UNCHANGED <<worker, client>>

WorkerStep ==
    /\ TaskStep
    /\ UNCHANGED <<net, client>>

-----------------------------------------------------------------------------
Next ==
    \/ DrawGraph
    \/ CatchTask
    \/ \E m \in net : TaskStartFail(m)
    \/ RequestTaskStatus
    \/ \E m \in net : TaskStatusFail(m)
    \/ \E m \in net : TaskStatusDone(m)
    \/ SuccessFn
    \/ ServeStart \/ ServeStatus \/ ServeResult \/ WorkerStep

(* Every timeout fires, every XHR ends and every handler runs once its    *)
(* event is there (one browser event loop); the worker keeps working.     *)
Fairness ==
    /\ WF_vars(DrawGraph) /\ WF_vars(CatchTask) /\ WF_vars(RequestTaskStatus)
    /\ WF_vars(\E m \in net : TaskStartFail(m))
    /\ WF_vars(\E m \in net : TaskStatusFail(m))
    /\ WF_vars(\E m \in net : TaskStatusDone(m))
    /\ WF_vars(SuccessFn)
    /\ WF_vars(ServeStart) /\ WF_vars(ServeStatus) /\ WF_vars(ServeResult)
    /\ WF_vars(WorkerStep)

Spec == Init /\ [][Next]_vars /\ Fairness

-----------------------------------------------------------------------------
(* Properties *)

\* Type correctness of every variable.
TypeOK ==
    /\ job \in {"NONE"} \cup TaskStates
    /\ done \in 0..MaxProgress
    /\ retries \in 0..MaxRetries
    /\ net \subseteq Messages
    /\ timers \in Nat
    /\ refresh \in Nat
    /\ shown \in {"initial", "drawn", "empty"}

(* Exactly one thing keeps a widget's loop alive at any time: a drawGraph *)
(* timeout, a status timeout, or one request or answer in flight.  Two    *)
(* would mean two refresh loops for one widget (every success and every   *)
(* failure would then double them); none would mean a dead widget.        *)
ExactlyOneChain ==
    /\ \A m1, m2 \in net : m1 = m2
    /\ refresh + timers + (IF net = {} THEN 0 ELSE 1) = 1

(* The refresh loop implements WidgetLoop: the widget waits for its      *)
(* drawGraph timeout exactly while one is scheduled, and its graph         *)
(* changes only in the step that ends a fetch and schedules the next one. *)
Loop == INSTANCE WidgetLoop
            WITH phase <- IF refresh > 0 THEN "wait" ELSE "fetch",
                 graph <- shown

LoopSpec == Loop!Spec

(* The widget is refreshed forever: whatever the task and the network do, *)
(* drawGraph keeps starting new tasks.                                    *)
RefreshForever ==
    []<>(StartReq \in net)

=============================================================================
