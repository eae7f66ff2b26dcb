----------------------------- MODULE AsyncTask -----------------------------
(***************************************************************************)
(* utils.asyncTask (src/gridplatform/utils/static/utils/utils.js, 7-64):   *)
(* the browser-side client of a Celery background task.  It POSTs the      *)
(* start request, then polls the status URL every 500 ms until the task    *)
(* reports SUCCESS (then POSTs the finalize URL and resolves its jQuery    *)
(* Deferred with the answer) or FAILURE/REVOKED (then rejects it).  PROGRESS *)
(* answers are passed to the Deferred's progress channel.                  *)
(*                                                                         *)
(* The model has three parts:                                              *)
(*   - the client: its Deferred (dstate, note) and its pending 500 ms      *)
(*     timers (timers);                                                    *)
(*   - the network: the requests and answers in flight (net), a set of     *)
(*     messages; any request may fail (HTTP error, timeout, abort);        *)
(*   - the server's task (job, done, retries), which a Celery worker moves *)
(*     through its states while the client polls.                          *)
(***************************************************************************)
EXTENDS CeleryTask

VARIABLES
    net,      \* requests and answers in flight
    timers,   \* recheckStatus timeouts scheduled and not yet fired
    dstate,   \* state of the Deferred: "pending", "resolved" or "rejected"
    note      \* result.current of the last progress notification; -1: none

server == <<job, done, retries>>
client == <<timers, dstate, note>>
vars == <<job, done, retries, net, timers, dstate, note>>

-----------------------------------------------------------------------------
(* Task states and messages *)

\* The states the client waits through (utils.js 32).
WaitStates == {"PENDING", "RECEIVED", "STARTED", "RETRY"}

Calls == {"start", "status", "finalize"}

StartReq    == [kind |-> "start"]
StatusReq   == [kind |-> "status"]
FinalizeReq == [kind |-> "finalize"]
StartOk     == [kind |-> "startOk"]
FinalizeOk  == [kind |-> "finalizeOk"]
StatusOk(s, c) == [kind |-> "statusOk", status |-> s, current |-> c]
Failed(k)   == [kind |-> "failed", call |-> k]

Requests == {StartReq, StatusReq, FinalizeReq}
Answers  == {StartOk, FinalizeOk}
            \cup {StatusOk(s, c) : s \in TaskStates, c \in 0..MaxProgress}
            \cup {Failed(k) : k \in Calls}
Messages == Requests \cup Answers

-----------------------------------------------------------------------------
(* The jQuery Deferred.  Once resolved or rejected it ignores resolve,     *)
(* reject and notify.                                                      *)

Resolve == dstate' = IF dstate = "pending" THEN "resolved" ELSE dstate
Reject  == dstate' = IF dstate = "pending" THEN "rejected" ELSE dstate
Notify(c) == note' = IF dstate = "pending" THEN c ELSE note

\* recheckStatusAfterDelay (utils.js 58-60): schedule recheckStatus in 500 ms.
RecheckStatusAfterDelay == timers' = timers + 1

-----------------------------------------------------------------------------
Init ==
    /\ job = "NONE"
    /\ done = 0
    /\ retries = 0
    /\ net = {StartReq}
    /\ timers = 0
    /\ dstate = "pending"
    /\ note = -1

-----------------------------------------------------------------------------
(* Client handlers.  Each consumes one answer, or one timer. *)

\* Fault variants of the handlers (each keeps the parameters of the handler
\* it replaces); every property of the runs fails for one of them.
HandleInitialPollTwice ==
    /\ StartOk \in net
    /\ net' = (net \ {StartOk}) \cup {StatusReq}
    /\ RecheckStatusAfterDelay
    /\ UNCHANGED <<server, dstate, note>>

\* handleInitial: keep the URLs and the task id, poll after a delay.
HandleInitial ==
    /\ StartOk \in net
    /\ net' = net \ {StartOk}
    /\ RecheckStatusAfterDelay
    /\ UNCHANGED <<server, dstate, note>>

RecheckStatusUnguarded ==
    /\ timers' = timers - 1
    /\ net' = net \cup {StatusReq}
    /\ UNCHANGED <<server, dstate, note>>

\* recheckStatus: the timer fires and POSTs {task_id} to the status URL.
RecheckStatus ==
    /\ timers > 0
    /\ timers' = timers - 1
    /\ net' = net \cup {StatusReq}
    /\ UNCHANGED <<server, dstate, note>>

HandleStatusFast(m) ==
    /\ m \in net
    /\ m.kind = "statusOk"
    /\ \/ /\ m.status \in WaitStates
          /\ net' = net \ {m}
          /\ RecheckStatusAfterDelay
          /\ UNCHANGED <<dstate, note>>
       \/ /\ m.status = "PROGRESS"
          /\ net' = (net \ {m}) \cup {StatusReq}
          /\ Notify(m.current)
          /\ RecheckStatusAfterDelay
          /\ UNCHANGED dstate
       \/ /\ m.status = "SUCCESS"
          /\ net' = (net \ {m}) \cup {FinalizeReq}
          /\ UNCHANGED client
       \/ /\ m.status \in {"FAILURE", "REVOKED"}
          /\ net' = net \ {m}
          /\ Reject
          /\ UNCHANGED <<timers, note>>
       \/ /\ m.status \in CustomStates
          /\ net' = net \ {m}
          /\ UNCHANGED client
    /\ UNCHANGED server

HandleStatusKeepPolling(m) ==
    /\ m \in net
    /\ m.kind = "statusOk"
    /\ \/ /\ m.status \in WaitStates
          /\ net' = net \ {m}
          /\ RecheckStatusAfterDelay
          /\ UNCHANGED <<dstate, note>>
       \/ /\ m.status = "PROGRESS"
          /\ net' = net \ {m}
          /\ Notify(m.current)
          /\ RecheckStatusAfterDelay
          /\ UNCHANGED dstate
       \/ /\ m.status = "SUCCESS"
          /\ net' = (net \ {m}) \cup {FinalizeReq}
          /\ UNCHANGED client
       \/ /\ m.status \in {"FAILURE", "REVOKED"}
          /\ net' = net \ {m}
          /\ Reject
          /\ RecheckStatusAfterDelay
          /\ UNCHANGED note
       \/ /\ m.status \in CustomStates
          /\ net' = net \ {m}
          /\ UNCHANGED client
    /\ UNCHANGED server

HandleStatusNoRetry(m) ==
    /\ m \in net
    /\ m.kind = "statusOk"
    /\ \/ /\ m.status \in WaitStates \ {"RETRY"}
          /\ net' = net \ {m}
          /\ RecheckStatusAfterDelay
          /\ UNCHANGED <<dstate, note>>
       \/ /\ m.status = "PROGRESS"
          /\ net' = net \ {m}
          /\ Notify(m.current)
          /\ RecheckStatusAfterDelay
          /\ UNCHANGED dstate
       \/ /\ m.status = "SUCCESS"
          /\ net' = (net \ {m}) \cup {FinalizeReq}
          /\ UNCHANGED client
       \/ /\ m.status \in {"FAILURE", "REVOKED"}
          /\ net' = net \ {m}
          /\ Reject
          /\ UNCHANGED <<timers, note>>
       \/ /\ m.status \in CustomStates \cup {"RETRY"}
          /\ net' = net \ {m}
          /\ UNCHANGED client
    /\ UNCHANGED server

\* handleStatus: act on the status the server reported.  A status it does
\* not test for (a custom state) falls through every branch: nothing is
\* scheduled and the Deferred is left pending.
HandleStatus(m) ==
    /\ m \in net
    /\ m.kind = "statusOk"
    /\ \/ /\ m.status \in WaitStates
          /\ net' = net \ {m}
          /\ RecheckStatusAfterDelay
          /\ UNCHANGED <<dstate, note>>
       \/ /\ m.status = "PROGRESS"
          /\ net' = net \ {m}
          /\ Notify(m.current)
          /\ RecheckStatusAfterDelay
          /\ UNCHANGED dstate
       \/ /\ m.status = "SUCCESS"
          /\ net' = (net \ {m}) \cup {FinalizeReq}
          /\ UNCHANGED client
       \/ /\ m.status \in {"FAILURE", "REVOKED"}
          /\ net' = net \ {m}
          /\ Reject
          /\ UNCHANGED <<timers, note>>
       \/ /\ m.status \in CustomStates
          /\ net' = net \ {m}
          /\ UNCHANGED client
    /\ UNCHANGED server

HandleErrorResolves(m) ==
    /\ m \in net
    /\ m.kind = "failed"
    /\ net' = net \ {m}
    /\ Resolve
    /\ UNCHANGED <<server, timers, note>>

\* handleError: any of the three POSTs failed; reject.
HandleError(m) ==
    /\ m \in net
    /\ m.kind = "failed"
    /\ net' = net \ {m}
    /\ Reject
    /\ UNCHANGED <<server, timers, note>>

\* handleSuccess: the finalize POST answered; resolve with its body.
HandleSuccess ==
    /\ FinalizeOk \in net
    /\ net' = net \ {FinalizeOk}
    /\ Resolve
    /\ UNCHANGED <<server, timers, note>>

-----------------------------------------------------------------------------
(* The server: the three views and the Celery worker running the task. *)

\* The start view creates the task and answers; the answer may be lost
\* after the task was created, or the view may fail before creating it.
ServeStart ==
    /\ StartReq \in net
    /\ \/ /\ job' = "PENDING"
          /\ \E a \in {StartOk, Failed("start")} :
                net' = (net \ {StartReq}) \cup {a}
       \/ /\ net' = (net \ {StartReq}) \cup {Failed("start")}
          /\ UNCHANGED job
    /\ UNCHANGED <<done, retries, client>>

\* The status view reports the task's state and result.current as they are
\* when it runs; the answer may be replaced by an error.
ServeStatus ==
    /\ StatusReq \in net
    /\ \E a \in {StatusOk(job, done), Failed("status")} :
          net' = (net \ {StatusReq}) \cup {a}
    /\ UNCHANGED <<server, client>>

\* The finalize view returns the task's result.
ServeFinalize ==
    /\ FinalizeReq \in net
    /\ \E a \in {FinalizeOk, Failed("finalize")} :
          net' = (net \ {FinalizeReq}) \cup {a}
    /\ UNCHANGED <<server, client>>

\* The worker runs the task; the client and the network are not involved.
WorkerStep ==
    /\ TaskStep
    /\ UNCHANGED <<net, client>>

-----------------------------------------------------------------------------
Client ==
    \/ HandleInitial
    \/ RecheckStatus
    \/ \E m \in net : HandleStatus(m)
    \/ \E m \in net : HandleError(m)
    \/ HandleSuccess

Server == ServeStart \/ ServeStatus \/ ServeFinalize \/ WorkerStep

Next == Client \/ Server

(* The browser's event loop runs every handler whose event has arrived and  *)
(* fires every timer; every XHR ends (answer, error or timeout); a Celery   *)
(* worker keeps running the task.                                          *)
Fairness ==
    /\ WF_vars(HandleInitial) /\ WF_vars(RecheckStatus)
    /\ WF_vars(\E m \in net : HandleStatus(m))
    /\ WF_vars(\E m \in net : HandleError(m))
    /\ WF_vars(HandleSuccess)
    /\ WF_vars(ServeStart) /\ WF_vars(ServeStatus) /\ WF_vars(ServeFinalize)
    /\ WF_vars(WorkerStep)

Spec == Init /\ [][Next]_vars /\ Fairness

-----------------------------------------------------------------------------
(* Properties *)

\* Type correctness of every variable.
TypeOK ==
    /\ job \in {"NONE"} \cup TaskStates
    /\ done \in 0..MaxProgress
    /\ retries \in 0..MaxRetries
    /\ net \subseteq Messages
    /\ timers \in Nat
    /\ dstate \in {"pending", "resolved", "rejected"}
    /\ note \in -1..MaxProgress

(* The poller is one chain of callbacks: at any time at most one request  *)
(* or answer is in flight, and no 500 ms timer is pending beside it.      *)
(* Two overlapping polls would let answers arrive out of order.           *)
SingleFlight ==
    /\ timers \in 0..1
    /\ \A m1, m2 \in net : m1 = m2
    /\ timers = 1 => net = {}

(* Once the Deferred is resolved or rejected the client has stopped: no   *)
(* timer is pending and no request is in flight (no polling after the     *)
(* caller has been told the outcome).                                     *)
NoLeakAfterSettle ==
    dstate # "pending" => (timers = 0 /\ net = {})

(* The client never stops while its Deferred is still pending: something  *)
(* (a timer or a request) is always on its way to settling it.  Section 4 *)
(* of the spec says an unknown status fails the operation ("UnknownStatus") *)
(* rather than leaving it hanging.                                        *)
NoSilentHang ==
    dstate = "pending" => (timers > 0 \/ net # {})

(* The Deferred is resolved only for a task that really succeeded on the  *)
(* server: the finalize answer is never delivered for a failed, revoked   *)
(* or unfinished task.                                                    *)
ResolvedOnlyOnSuccess ==
    dstate = "resolved" => job = "SUCCESS"

(* Progress notifications never go backwards: the caller's progress       *)
(* display (loadGraph 105-118) sees result.current in the order the task  *)
(* reported it.                                                           *)
ProgressMonotone ==
    [][note' >= note]_vars

(* Every operation ends: when the task runs to a state the client knows,  *)
(* the Deferred is eventually resolved or rejected.                       *)
Terminates ==
    <>(dstate # "pending")

(* utils.asyncTask implements the promise it returns (AsyncTaskSpec): the  *)
(* Deferred settles once and its progress calls rise, whatever the order   *)
(* of answers, failures and worker steps.                                  *)
Abstract == INSTANCE AsyncTaskSpec

AbstractSpec == Abstract!Spec

=============================================================================
