---------------------------- MODULE ReportRequest ----------------------------
(***************************************************************************)
(* gridportal.website.requestReport (src/legacy/website/static/website.js, *)
(* 1057-1176): the report wizard's own poller.  It shows a spinner,       *)
(* disables the buttons and shows the notice field, POSTs the form, then   *)
(* polls the status URL every 1000 ms (each poll with a 30 s timeout),     *)
(* drives a progress bar (80% for the task, the rest for finalize), POSTs  *)
(* the finalize URL on SUCCESS and opens the report.                      *)
(*                                                                         *)
(* The start answer is handled like a status answer (taskStatusDone): it  *)
(* carries task_id and the task's state, or the form's errors.            *)
(*                                                                         *)
(* busy stands for the three pieces of UI that startSpinner/showNoticeField *)
(* set and stopSpinner/hideNoticeField clear together: the spinner in     *)
(* resultElem, the disabled buttons and the visible notice field.         *)
(* The progress bar is kept in units of 1/MaxProgress percent (result.total *)
(* is MaxProgress), so bar = 80 * MaxProgress is the bar at 80%.          *)
(***************************************************************************)
EXTENDS CeleryTask

CONSTANT FailCauses  \* how an XHR may fail: a subset of
                     \* {"timeout", "http", "zero"}; "zero" is an error with
                     \* status 0 (network down, or the page navigated away)

VARIABLES
    net,      \* requests and answers in flight
    timers,   \* requestTaskStatus timeouts scheduled and not yet fired
    busy,     \* spinner shown, buttons disabled, notice field shown
    bar,      \* progress bar value, in 1/MaxProgress percent
    outcome,  \* "none", "error" (notify), "formErrors", "report" (window.open)
    thrown    \* an uncaught TypeError ended a callback

client == <<timers, busy, bar, outcome, thrown>>
vars == <<job, done, retries, net, timers, busy, bar, outcome, thrown>>

-----------------------------------------------------------------------------
Total == MaxProgress

StartReq    == [kind |-> "start"]
StatusReq   == [kind |-> "status"]
FinalizeReq == [kind |-> "finalize"]
FormErrors  == [kind |-> "formErrors"]
FinalizeOk  == [kind |-> "finalizeOk"]
StatusOk(s, c) == [kind |-> "statusOk", status |-> s, current |-> c]
Failed(k, e) == [kind |-> "failed", call |-> k, cause |-> e]

\* jQuery.post carries no timeout; only the status jQuery.ajax has one
\* (website.js 1169).
CausesOf(k) == IF k = "status" THEN FailCauses ELSE FailCauses \ {"timeout"}

Messages ==
    {StartReq, StatusReq, FinalizeReq, FormErrors, FinalizeOk}
    \cup {StatusOk(s, c) : s \in TaskStates, c \in 0..MaxProgress}
    \cup {Failed(k, e) : k \in {"start", "status", "finalize"},
                         e \in {"timeout", "http", "zero"}}

\* The states taskStatusDone waits through (website.js 1140-1141).
ReportWaitStates == {"PENDING", "STARTED", "RETRY"}

\* failStatus (1092-1096): stop the spinner, hide the notice, notify.
FailStatus ==
    /\ busy' = FALSE
    /\ outcome' = "error"

\* window.setTimeout(requestTaskStatus, 1000).
ScheduleStatus == timers' = timers + 1

-----------------------------------------------------------------------------
\* startSpinner(); showNoticeField(); jQuery.post(requestUrl, formData)
\* (1172-1175).
Init ==
    /\ job = "NONE"
    /\ done = 0
    /\ retries = 0
    /\ net = {StartReq}
    /\ timers = 0
    /\ busy = TRUE
    /\ bar = 0
    /\ outcome = "none"
    /\ thrown = FALSE

\* requestTaskStatus (1164-1171): the timer fires and the status is POSTed.
RequestTaskStatus ==
    /\ timers > 0
    /\ timers' = timers - 1
    /\ net' = net \cup {StatusReq}
    /\ UNCHANGED <<worker, busy, bar, outcome, thrown>>

\* taskStatusDone (1129-1163), for the start answer and every status answer.
\* SUCCESS: requestFinalize and the bar to 80%.  PENDING/STARTED/RETRY:
\* poll again.  PROGRESS: the bar to current/total * 80%, poll again.
\* FAILURE and every other state (RECEIVED, REVOKED, a custom state): the
\* call taskStatusFail() without arguments reads jqXHR.status of undefined
\* and throws; nothing after it runs.  No task_id but form_errors: show the
\* errors, stop the spinner, hide the notice.
TaskStatusDone(m) ==
    /\ m \in net
    /\ m.kind \in {"statusOk", "formErrors"}
    /\ \/ /\ m.kind = "statusOk" /\ m.status = "SUCCESS"
          /\ net' = (net \ {m}) \cup {FinalizeReq}
          /\ bar' = 80 * Total
          /\ UNCHANGED <<timers, busy, outcome, thrown>>
       \/ /\ m.kind = "statusOk" /\ m.status \in ReportWaitStates
          /\ net' = net \ {m}
          /\ ScheduleStatus
          /\ UNCHANGED <<busy, bar, outcome, thrown>>
       \/ /\ m.kind = "statusOk" /\ m.status = "PROGRESS"
          /\ net' = net \ {m}
          /\ bar' = 80 * m.current
          /\ ScheduleStatus
          /\ UNCHANGED <<busy, outcome, thrown>>
       \/ /\ m.kind = "statusOk"
          /\ m.status \notin ReportWaitStates \cup {"SUCCESS", "PROGRESS"}
          /\ net' = net \ {m}
          /\ thrown' = TRUE
          /\ UNCHANGED <<timers, busy, bar, outcome>>
       \/ /\ m.kind = "formErrors"
          /\ net' = net \ {m}
          /\ busy' = FALSE
          /\ outcome' = "formErrors"
          /\ UNCHANGED <<timers, bar, thrown>>
    /\ UNCHANGED worker

\* taskStatusFail (1121-1128), the fail handler of the start POST and of the
\* status polls: a timeout, or an error with status != 0, is reported
\* (failStatus); an error with status 0 is ignored.
TaskStatusFail(m) ==
    /\ m \in net
    /\ m.kind = "failed" /\ m.call \in {"start", "status"}
    /\ net' = net \ {m}
    /\ \/ /\ m.cause \in {"timeout", "http"}
          /\ FailStatus
       \/ /\ m.cause = "zero"
          /\ UNCHANGED <<busy, outcome>>
    /\ UNCHANGED <<worker, timers, bar, thrown>>

\* finalizeDone (1106-1114): the bar to 100%, successStatus, window.open.
FinalizeDone ==
    /\ FinalizeOk \in net
    /\ net' = net \ {FinalizeOk}
    /\ bar' = 100 * Total
    /\ busy' = FALSE
    /\ outcome' = "report"
    /\ UNCHANGED <<worker, timers, thrown>>

\* finalizeFail (1101-1105): reported unless the status is 0.
FinalizeFail(m) ==
    /\ m \in net
    /\ m.kind = "failed" /\ m.call = "finalize"
    /\ net' = net \ {m}
    /\ \/ /\ m.cause # "zero"
          /\ FailStatus
       \/ /\ m.cause = "zero"
          /\ UNCHANGED <<busy, outcome>>
    /\ UNCHANGED <<worker, timers, bar, thrown>>

-----------------------------------------------------------------------------
(* The server (spec.md 4.1, 6): the start view either rejects the form or *)
(* creates the task and answers with its id and state; the status view    *)
(* reports the state; the finalize view builds the files.  Each XHR may   *)
(* fail instead, in the ways CausesOf allows.                             *)

ServeStart ==
    /\ StartReq \in net
    /\ \/ /\ job' = "PENDING"
          /\ net' = (net \ {StartReq}) \cup {StatusOk("PENDING", 0)}
       \/ /\ net' = (net \ {StartReq}) \cup {FormErrors}
          /\ UNCHANGED job
       \/ /\ \E e \in CausesOf("start") :
                net' = (net \ {StartReq}) \cup {Failed("start", e)}
          /\ job' \in {job, "PENDING"}
    /\ UNCHANGED <<done, retries, client>>

ServeStatus ==
    /\ StatusReq \in net
    /\ \E a \in {StatusOk(job, done)} \cup {Failed("status", e) : e \in CausesOf("status")} :
          net' = (net \ {StatusReq}) \cup {a}
    /\ UNCHANGED <<worker, client>>

ServeFinalize ==
    /\ FinalizeReq \in net
    /\ \E a \in {FinalizeOk} \cup {Failed("finalize", e) : e \in CausesOf("finalize")} :
          net' = (net \ {FinalizeReq}) \cup {a}
    /\ UNCHANGED <<worker, client>>

WorkerStep ==
    /\ TaskStep
    /\ UNCHANGED <<net, client>>

-----------------------------------------------------------------------------
Next ==
    \/ RequestTaskStatus
    \/ \E m \in net : TaskStatusDone(m)
    \/ \E m \in net : TaskStatusFail(m)
    \/ FinalizeDone
    \/ \E m \in net : FinalizeFail(m)
    \/ ServeStart \/ ServeStatus \/ ServeFinalize \/ WorkerStep

Spec == Init /\ [][Next]_vars

-----------------------------------------------------------------------------
(* Properties *)

\* Type correctness of every variable.
TypeOK ==
    /\ job \in {"NONE"} \cup TaskStates
    /\ done \in 0..MaxProgress
    /\ retries \in 0..MaxRetries
    /\ net \subseteq Messages
    /\ timers \in Nat
    /\ busy \in BOOLEAN
    /\ bar \in 0..(100 * Total)
    /\ outcome \in {"none", "error", "formErrors", "report"}
    /\ thrown \in BOOLEAN

(* While the spinner runs and the buttons are disabled, something is on   *)
(* its way to stop them: a timer or a request.  (An XHR error with status *)
(* 0 is deliberately ignored by the code, so this is checked with the     *)
(* failures that are reported.)                                          *)
NoStuckSpinner ==
    busy => (timers > 0 \/ net # {})
=============================================================================
