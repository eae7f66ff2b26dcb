---------------------------- MODULE ManageReports ----------------------------
(***************************************************************************)
(* gridportal.manageReports.requestReport                                 *)
(* (src/legacy/manage_reports/static/manage_reports.js 9-125): the report *)
(* form with a cancel button.  It shows a spinner and the notice field,   *)
(* POSTs the form, then handles the start answer and every status answer  *)
(* with running(): while the task waits, the form's inputs are disabled   *)
(* and the cancel button enabled, and the status is polled every 1000 ms  *)
(* (30 s timeout); on SUCCESS it POSTs the finalize URL and opens the     *)
(* file.  Every end calls disableCancel, which enables the inputs again   *)
(* and disables cancel.  The progress bar is left out: no property here  *)
(* is about it.                                                           *)
(*                                                                         *)
(* busy stands for the spinner in resultElem and the visible notice field, *)
(* which the code always sets and clears together.                        *)
(***************************************************************************)
EXTENDS CeleryTask

CONSTANT FailCauses  \* how an XHR may fail: a subset of
                     \* {"timeout", "http", "zero"}; "zero" is status 0

VARIABLES
    net,      \* requests and answers in flight
    timers,   \* requestStatus timeouts scheduled and not yet fired
    busy,     \* spinner and notice field shown
    inputs,   \* the form's inputs and buttons other than cancel enabled
    cancel,   \* the cancel button enabled
    outcome,  \* "none", "error", "formErrors", "revoked" or "report"
    thrown    \* an uncaught exception ended a callback

client == <<timers, busy, inputs, cancel, outcome, thrown>>
vars == <<job, done, retries, net, timers, busy, inputs, cancel, outcome, thrown>>

-----------------------------------------------------------------------------
StartReq    == [kind |-> "start"]
StatusReq   == [kind |-> "status"]
FinalizeReq == [kind |-> "finalize"]
FinalizeOk  == [kind |-> "finalizeOk"]
StatusOk(s, c) == [kind |-> "statusOk", status |-> s, current |-> c]
\* A failed XHR.  For the start POST, cause "formErrors" is the view's
\* answer to an invalid form: an error status with a JSON body of errors.
Failed(k, e) == [kind |-> "failed", call |-> k, cause |-> e]

\* Only the status jQuery.ajax carries a timeout (manage_reports.js 119).
CausesOf(k) == IF k = "status" THEN FailCauses ELSE FailCauses \ {"timeout"}

Messages ==
    {StartReq, StatusReq, FinalizeReq, FinalizeOk}
    \cup {StatusOk(s, c) : s \in TaskStates, c \in 0..MaxProgress}
    \cup {Failed(k, e) : k \in {"start", "status", "finalize"},
                         e \in {"timeout", "http", "zero", "formErrors"}}

\* The states running() waits through (manage_reports.js 88-89); the
\* result of a PROGRESS answer is always present here, so PROGRESS has a
\* branch of its own.
ManageWaitStates == {"PENDING", "STARTED", "RETRY"}

\* disableCancel (32-35): inputs enabled, cancel disabled.
DisableCancel ==
    /\ inputs' = TRUE
    /\ cancel' = FALSE

\* statusFail (46-58): stop the spinner, hide the notice, notify, then
\* disableCancel.
StatusFail ==
    /\ busy' = FALSE
    /\ outcome' = "error"
    /\ DisableCancel

-----------------------------------------------------------------------------
\* startSpinner(); showNoticeField(); jQuery.post(startUrl, data)
\* (122-124).  The form as rendered: inputs enabled, cancel disabled.
Init ==
    /\ job = "NONE"
    /\ done = 0
    /\ retries = 0
    /\ net = {StartReq}
    /\ timers = 0
    /\ busy = TRUE
    /\ inputs = TRUE
    /\ cancel = FALSE
    /\ outcome = "none"
    /\ thrown = FALSE

\* requestStatus (114-121): the timer fires, the status is POSTed.
RequestStatus ==
    /\ timers > 0
    /\ timers' = timers - 1
    /\ net' = net \cup {StatusReq}
    /\ UNCHANGED <<worker, busy, inputs, cancel, outcome, thrown>>

\* startFail (36-45): JSON.parse(xhr.responseText).  A body of form errors
\* is shown, the spinner stopped, the notice hidden and disableCancel run;
\* any other body (an HTML error page, or the empty body of a status-0
\* error) makes JSON.parse throw, and nothing after it runs.
StartFail(m) ==
    /\ m \in net
    /\ m.kind = "failed" /\ m.call = "start"
    /\ net' = net \ {m}
    /\ \/ /\ m.cause = "formErrors"
          /\ busy' = FALSE
          /\ outcome' = "formErrors"
          /\ DisableCancel
          /\ UNCHANGED thrown
       \/ /\ m.cause # "formErrors"
          /\ thrown' = TRUE
          /\ UNCHANGED <<busy, inputs, cancel, outcome>>
    /\ UNCHANGED <<worker, timers>>

\* running (72-113), the done handler of the start POST and of every poll.
\* SUCCESS: finalize (67-71): POST the finalize URL and disable cancel.
\* PENDING, STARTED, RETRY: disable the inputs, enable cancel, poll again.
\* PROGRESS: poll again.  REVOKED: stop the spinner, hide the notice,
\* disableCancel.  FAILURE and every other state (RECEIVED, a custom
\* state): statusFail().
Running(m) ==
    /\ m \in net
    /\ m.kind = "statusOk"
    /\ \/ /\ m.status = "SUCCESS"
          /\ net' = (net \ {m}) \cup {FinalizeReq}
          /\ cancel' = FALSE
          /\ UNCHANGED <<timers, busy, inputs, outcome>>
       \/ /\ m.status \in ManageWaitStates
          /\ net' = net \ {m}
          /\ inputs' = FALSE /\ cancel' = TRUE
          /\ timers' = timers + 1
          /\ UNCHANGED <<busy, outcome>>
       \/ /\ m.status = "PROGRESS"
          /\ net' = net \ {m}
          /\ timers' = timers + 1
          /\ UNCHANGED <<busy, inputs, cancel, outcome>>
       \/ /\ m.status = "REVOKED"
          /\ net' = net \ {m}
          /\ busy' = FALSE /\ outcome' = "revoked"
          /\ DisableCancel
          /\ UNCHANGED timers
       \/ /\ m.status \notin ManageWaitStates \cup {"SUCCESS", "PROGRESS", "REVOKED"}
          /\ net' = net \ {m}
          /\ StatusFail
          /\ UNCHANGED timers
    /\ UNCHANGED <<worker, thrown>>

\* statusFail as the fail handler of a poll or of the finalize POST: it
\* reports every failure, status 0 included.
StatusFailed(m) ==
    /\ m \in net
    /\ m.kind = "failed" /\ m.call \in {"status", "finalize"}
    /\ net' = net \ {m}
    /\ StatusFail
    /\ UNCHANGED <<worker, timers, thrown>>

\* downloadFile (59-66): stop the spinner, hide the notice, disableCancel,
\* window.open the file.
DownloadFile ==
    /\ FinalizeOk \in net
    /\ net' = net \ {FinalizeOk}
    /\ busy' = FALSE
    /\ outcome' = "report"
    /\ DisableCancel
    /\ UNCHANGED <<worker, timers, thrown>>

-----------------------------------------------------------------------------
(* The server (spec.md 4.1, 6).  The start view answers an invalid form   *)
(* with its errors, or creates the task and answers with its id and       *)
(* state; each XHR may fail instead, in the ways CausesOf allows.         *)

ServeStart ==
    /\ StartReq \in net
    /\ \/ /\ job' = "PENDING"
          /\ net' = (net \ {StartReq}) \cup {StatusOk("PENDING", 0)}
       \/ /\ net' = (net \ {StartReq}) \cup {Failed("start", "formErrors")}
          /\ UNCHANGED job
       \/ /\ \E e \in CausesOf("start") :
                net' = (net \ {StartReq}) \cup {Failed("start", e)}
          /\ job' \in {job, "PENDING"}
    /\ UNCHANGED <<done, retries, client>>

ServeStatus ==
    /\ StatusReq \in net
    /\ \E a \in {StatusOk(job, done)} \cup {Failed("status", e) : e \in CausesOf("status")} :
          net' = (net \ {StatusReq}) \cup {a}
    /\ UNCHANGED <<worker, client>>

ServeFinalize ==
    /\ FinalizeReq \in net
    /\ \E a \in {FinalizeOk} \cup {Failed("finalize", e) : e \in CausesOf("finalize")} :
          net' = (net \ {FinalizeReq}) \cup {a}
    /\ UNCHANGED <<worker, client>>

\* The cancel button (its handler is in the page's template) revokes the
\* task; for the poller this is a worker step to REVOKED.
WorkerStep ==
    /\ TaskStep
    /\ UNCHANGED <<net, client>>

-----------------------------------------------------------------------------
Next ==
    \/ RequestStatus
    \/ \E m \in net : StartFail(m)
    \/ \E m \in net : Running(m)
    \/ \E m \in net : StatusFailed(m)
    \/ DownloadFile
    \/ ServeStart \/ ServeStatus \/ ServeFinalize \/ WorkerStep

Spec == Init /\ [][Next]_vars

-----------------------------------------------------------------------------
(* Properties *)

\* Type correctness of every variable.
TypeOK ==
    /\ job \in {"NONE"} \cup TaskStates
    /\ done \in 0..MaxProgress
    /\ retries \in 0..MaxRetries
    /\ net \subseteq Messages
    /\ timers \in Nat
    /\ busy \in BOOLEAN
    /\ inputs \in BOOLEAN
    /\ cancel \in BOOLEAN
    /\ outcome \in {"none", "error", "formErrors", "revoked", "report"}
    /\ thrown \in BOOLEAN

(* While the spinner runs, something is on its way to stop it: a timer or *)
(* a request.                                                             *)
NoStuckSpinner ==
    busy => (timers > 0 \/ net # {})
=============================================================================
