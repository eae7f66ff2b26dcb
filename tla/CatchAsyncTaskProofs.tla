------------------------ MODULE CatchAsyncTaskProofs ------------------------
(***************************************************************************)
(* Proofs about the dashboard refresh loop (CatchAsyncTask) for every      *)
(* value of the constants and every set of failure causes.                *)
(***************************************************************************)
EXTENDS CatchAsyncTask, TLAPS

(* The strengthening.  Before the start view created the task, the only   *)
(* message in flight is the start request or its failure and no status   *)
(* timer is pending: a status poll, whose answer carries the task's       *)
(* state, always follows a created task.                                  *)
NotCreated ==
    job = "NONE" =>
        /\ net \subseteq {StartReq} \cup {Failed("start", e) : e \in FailCauses}
        /\ timers = 0

IInv ==
    /\ TypeOK
    /\ ExactlyOneChain
    /\ NotCreated

-----------------------------------------------------------------------------
USE ConstAssumption, FailCausesAssumption

\* Every cause of a failed XHR is one the model knows.
LEMMA CausesInMessages ==
    ASSUME NEW k \in {"start", "status", "result"}, NEW e \in CausesOf(k)
    PROVE  Failed(k, e) \in Messages
  BY DEF CausesOf, Messages

\* ExactlyOneChain, case by case: nothing in flight and one timeout, or one
\* message in flight and no timeout.
LEMMA ChainShape ==
    ASSUME NEW N, NEW r \in Nat, NEW t \in Nat
    PROVE  (/\ \A m1, m2 \in N : m1 = m2
            /\ r + t + (IF N = {} THEN 0 ELSE 1) = 1)
           <=> \/ N = {} /\ r + t = 1
               \/ \E m \in N : N = {m} /\ r = 0 /\ t = 0
  <1>1. CASE N = {}
    BY <1>1
  <1>2. CASE N # {}
    <2>1. (\A m1, m2 \in N : m1 = m2) <=> \E m \in N : N = {m}
      BY <1>2
    <2>2. QED
      BY <1>2, <2>1
  <1>3. QED
    BY <1>1, <1>2

LEMMA InitIInv == Init => IInv
  <1> SUFFICES ASSUME Init PROVE IInv
    OBVIOUS
  <1>1. StartReq \in Messages
    BY DEF Messages
  <1>2. TypeOK
    BY <1>1 DEF Init, TypeOK
  <1>3. ExactlyOneChain
    BY ChainShape DEF Init, ExactlyOneChain
  <1>4. NotCreated
    BY DEF Init, NotCreated
  <1>5. QED
    BY <1>2, <1>3, <1>4 DEF IInv

\* The chain as the proofs use it.
OneChain ==
    \/ net = {} /\ refresh + timers = 1
    \/ \E m \in net : net = {m} /\ refresh = 0 /\ timers = 0

LEMMA ChainNow == TypeOK => (ExactlyOneChain <=> OneChain)
  BY ChainShape DEF TypeOK, ExactlyOneChain, OneChain

LEMMA ChainNext == TypeOK' => (ExactlyOneChain' <=> OneChain')
  <1> SUFFICES ASSUME TypeOK' PROVE ExactlyOneChain' <=> OneChain'
    OBVIOUS
  <1>1. refresh' \in Nat /\ timers' \in Nat
    BY DEF TypeOK
  <1>2. QED
    BY <1>1, ChainShape DEF ExactlyOneChain, OneChain

\* A message in flight is the only one, and no timeout is pending.
LEMMA OnlyMessage ==
    ASSUME TypeOK, OneChain, NEW x \in net
    PROVE  net = {x} /\ refresh = 0 /\ timers = 0
  BY DEF TypeOK, OneChain

\* A pending timeout is the only thing that keeps the loop going.
LEMMA OnlyTimeout ==
    ASSUME TypeOK, OneChain, refresh + timers > 0
    PROVE  net = {} /\ refresh + timers = 1
  BY DEF TypeOK, OneChain

\* Handling the only message in flight and sending one in its place.
LEMMA Replace ==
    ASSUME NEW x, NEW y
    PROVE  ({x} \ {x}) \cup {y} = {y} /\ {x} \ {x} = {}
  OBVIOUS

\* A start request or its failure is what may be in flight before the task
\* is created; no other message is one of them.
LEMMA NotStartMessage ==
    ASSUME NEW x \in Messages, x.kind \notin {"start", "failed"}
    PROVE  x \notin {StartReq} \cup {Failed("start", e) : e \in FailCauses}
  BY DEF StartReq, Failed

LEMMA StepIInv == IInv /\ [Next]_vars => IInv'
<1> SUFFICES ASSUME TypeOK, OneChain, NotCreated, [Next]_vars
             PROVE  TypeOK' /\ OneChain' /\ NotCreated'
  BY ChainNow, ChainNext DEF IInv
<1> USE DEF worker, client, vars
<1>1. CASE DrawGraph
  <2>1. net = {} /\ refresh = 1 /\ timers = 0
    BY <1>1, OnlyTimeout DEF DrawGraph, TypeOK
  <2>2. StartReq \in Messages
    BY DEF Messages
  <2>3. QED
    BY <1>1, <2>1, <2>2 DEF DrawGraph, TypeOK, OneChain, NotCreated
<1>2. CASE CatchTask
  <2>1. net = {StartOk} /\ refresh = 0 /\ timers = 0
    BY <1>2, OnlyMessage DEF CatchTask
  <2>2. net' = {StatusReq}
    BY <1>2, <2>1, Replace DEF CatchTask
  <2>3. StatusReq \in Messages /\ StartOk \in Messages
    BY DEF Messages
  <2>4. job # "NONE"
    BY <2>1, <2>3, NotStartMessage DEF NotCreated, StartOk
  <2>5. QED
    BY <1>2, <2>1, <2>2, <2>3, <2>4 DEF CatchTask, TypeOK, OneChain, NotCreated
<1>3. CASE \E m \in net : TaskStartFail(m)
  <2>1. PICK m \in net : TaskStartFail(m)
    BY <1>3
  <2>2. net = {m} /\ refresh = 0 /\ timers = 0
    BY OnlyMessage
  <2>3. net' = {}
    BY <2>1, <2>2, Replace DEF TaskStartFail
  <2>4. QED
    BY <2>1, <2>2, <2>3 DEF TaskStartFail, FailedCallback, TypeOK, OneChain, NotCreated
<1>4. CASE RequestTaskStatus
  <2>1. net = {} /\ refresh = 0 /\ timers = 1
    BY <1>4, OnlyTimeout DEF RequestTaskStatus, TypeOK
  <2>2. StatusReq \in Messages
    BY DEF Messages
  <2>3. QED
    BY <1>4, <2>1, <2>2 DEF RequestTaskStatus, TypeOK, OneChain, NotCreated
<1>5. CASE \E m \in net : TaskStatusFail(m)
  <2>1. PICK m \in net : TaskStatusFail(m)
    BY <1>5
  <2>2. net = {m} /\ refresh = 0 /\ timers = 0
    BY OnlyMessage
  <2>3. net' = {}
    BY <2>1, <2>2, Replace DEF TaskStatusFail
  <2>4. QED
    BY <2>1, <2>2, <2>3 DEF TaskStatusFail, FailedCallback, TypeOK, OneChain, NotCreated
<1>6. CASE \E m \in net : TaskStatusDone(m)
  <2>1. PICK m \in net : TaskStatusDone(m)
    BY <1>6
  <2>2. net = {m} /\ refresh = 0 /\ timers = 0
    BY OnlyMessage
  <2>3. m \in Messages /\ m.kind = "statusOk"
    BY <2>1 DEF TypeOK, TaskStatusDone
  <2>4. job # "NONE"
    BY <2>2, <2>3, NotStartMessage DEF NotCreated
  <2>5. ResultReq \in Messages
    BY DEF Messages
  <2>6. CASE m.status = "SUCCESS"
    <3>1. net' = {ResultReq} /\ timers' = 0 /\ refresh' = 0
      BY <2>1, <2>2, <2>6, Replace DEF TaskStatusDone, CatchWaitStates
    <3>2. QED
      BY <2>1, <2>4, <2>5, <3>1 DEF TaskStatusDone, TypeOK, OneChain, NotCreated
  <2>7. CASE m.status \in CatchWaitStates
    <3>1. net' = {} /\ timers' = 1 /\ refresh' = 0
      BY <2>1, <2>2, <2>7, Replace DEF TaskStatusDone, CatchWaitStates
    <3>2. QED
      BY <2>1, <2>4, <3>1 DEF TaskStatusDone, TypeOK, OneChain, NotCreated
  <2>8. CASE m.status \notin CatchWaitStates \cup {"SUCCESS"}
    <3>1. net' = {} /\ timers' = 0 /\ refresh' = 1
      BY <2>1, <2>2, <2>8, Replace DEF TaskStatusDone, FailedCallback
    <3>2. QED
      BY <2>1, <2>4, <3>1 DEF TaskStatusDone, TypeOK, OneChain, NotCreated
  <2>9. QED
    BY <2>6, <2>7, <2>8
<1>7. CASE SuccessFn
  <2>1. net = {ResultOk} /\ refresh = 0 /\ timers = 0
    BY <1>7, OnlyMessage DEF SuccessFn
  <2>2. net' = {}
    BY <1>7, <2>1, Replace DEF SuccessFn
  <2>3. QED
    BY <1>7, <2>1, <2>2 DEF SuccessFn, TypeOK, OneChain, NotCreated
<1>8. CASE ServeStart
  <2>1. net = {StartReq} /\ refresh = 0 /\ timers = 0
    BY <1>8, OnlyMessage DEF ServeStart
  <2>2. CASE job' = "PENDING" /\ net' = (net \ {StartReq}) \cup {StartOk}
    <3>1. net' = {StartOk} /\ StartOk \in Messages
      BY <2>1, <2>2, Replace DEF Messages
    <3>2. QED
      BY <1>8, <2>1, <2>2, <3>1 DEF ServeStart, TypeOK, OneChain, NotCreated, TaskStates
  <2>3. CASE \E e \in CausesOf("start") :
                net' = (net \ {StartReq}) \cup {Failed("start", e)}
    <3>1. PICK e \in CausesOf("start") :
                net' = (net \ {StartReq}) \cup {Failed("start", e)}
      BY <2>3
    <3>2. Failed("start", e) \in Messages /\ e \in FailCauses
      BY CausesInMessages DEF CausesOf
    <3>3. net' = {Failed("start", e)}
      BY <2>1, <3>1, Replace
    <3>4. job' \in {"NONE"} \cup TaskStates
      BY <1>8 DEF ServeStart, TypeOK, TaskStates
    <3>5. QED
      BY <1>8, <2>1, <3>2, <3>3, <3>4 DEF ServeStart, TypeOK, OneChain, NotCreated
  <2>4. QED
    BY <1>8, <2>2, <2>3 DEF ServeStart
<1>9. CASE ServeStatus
  <2>1. net = {StatusReq} /\ refresh = 0 /\ timers = 0
    BY <1>9, OnlyMessage DEF ServeStatus
  <2>2. job # "NONE"
    <3>1. StatusReq \in Messages
      BY DEF Messages
    <3>2. QED
      BY <2>1, <3>1, NotStartMessage DEF NotCreated, StatusReq
  <2>3. PICK a \in {StatusOk(job, done)} \cup {Failed("status", e) : e \in CausesOf("status")} :
            net' = (net \ {StatusReq}) \cup {a}
    BY <1>9 DEF ServeStatus
  <2>4. /\ a \in Messages
        /\ a.kind \in {"statusOk", "failed"}
        /\ (a.kind = "failed" => a.call = "status")
    <3>1. CASE a = StatusOk(job, done)
      BY <2>2, <3>1 DEF Messages, StatusOk, TypeOK
    <3>2. CASE a \in {Failed("status", e) : e \in CausesOf("status")}
      BY <3>2, CausesInMessages DEF Failed
    <3>3. QED
      BY <2>3, <3>1, <3>2
  <2>5. a \notin {StartReq} \cup {Failed("start", e) : e \in FailCauses}
    BY <2>4 DEF StartReq, Failed
  <2>6. net' = {a}
    BY <2>1, <2>3, Replace
  <2>7. QED
    BY <1>9, <2>1, <2>2, <2>4, <2>5, <2>6 DEF ServeStatus, TypeOK, OneChain, NotCreated
<1>10. CASE ServeResult
  <2>1. net = {ResultReq} /\ refresh = 0 /\ timers = 0
    BY <1>10, OnlyMessage DEF ServeResult
  <2>2. job # "NONE"
    <3>1. ResultReq \in Messages
      BY DEF Messages
    <3>2. QED
      BY <2>1, <3>1, NotStartMessage DEF NotCreated, ResultReq
  <2>3. PICK a \in {ResultOk} \cup {Failed("result", e) : e \in CausesOf("result")} :
            net' = (net \ {ResultReq}) \cup {a}
    BY <1>10 DEF ServeResult
  <2>4. a \in Messages
    BY CausesInMessages DEF Messages
  <2>5. net' = {a}
    BY <2>1, <2>3, Replace
  <2>6. QED
    BY <1>10, <2>1, <2>2, <2>4, <2>5 DEF ServeResult, TypeOK, OneChain, NotCreated
<1>11. CASE WorkerStep
  <2>1. job' \in TaskStates /\ done' \in 0..MaxProgress /\ retries' \in 0..MaxRetries
    BY <1>11, ConstAssumption DEF WorkerStep, TaskStep, TypeOK, TaskStates, Terminal
  <2>2. job # "NONE"
    BY <1>11 DEF WorkerStep, TaskStep
  <2>3. net' = net /\ timers' = timers /\ refresh' = refresh /\ shown' = shown
    BY <1>11 DEF WorkerStep
  <2>4. job' # "NONE"
    BY <2>1, ConstAssumption DEF TaskStates, Terminal
  <2>5. QED
    BY <2>1, <2>3, <2>4 DEF TypeOK, OneChain, NotCreated, TaskStates
<1>12. CASE UNCHANGED vars
  BY <1>12 DEF TypeOK, OneChain, NotCreated
<1> HIDE DEF vars
<1>13. QED
  BY <1>1, <1>2, <1>3, <1>4, <1>5, <1>6, <1>7, <1>8, <1>9, <1>10, <1>11, <1>12
     DEF Next

(* The inductive invariant holds in every reachable state of the loop. *)
THEOREM Invariance == Spec => []IInv
  BY InitIInv, StepIInv, PTL DEF Spec

(* Every variable of the loop keeps its type. *)
THEOREM TypeCorrect == Spec => []TypeOK
  BY Invariance, PTL DEF IInv

(* The dashboard never runs two refresh loops for one widget, and never    *)
(* lets its loop die: exactly one drawGraph timeout, status timeout, or    *)
(* request or answer is pending at any time (dashboard.js 102-128 with     *)
(* website.js 1181-1276), whichever way the XHRs fail.                     *)
THEOREM ExactlyOneChainHolds == Spec => []ExactlyOneChain
  BY Invariance, PTL DEF IInv
-----------------------------------------------------------------------------
(* Refinement of WidgetLoop. *)

\* Steps that leave the scheduled drawGraph timeouts and the graph alone
\* are stuttering steps of the widget loop.
LEMMA LoopStutter ==
    ASSUME refresh' = refresh, shown' = shown
    PROVE  [Loop!Next]_Loop!vars
  BY DEF Loop!vars

\* Every step of the refresh loop is a step of WidgetLoop or leaves it as
\* it is.
LEMMA StepRefines == IInv /\ [Next]_vars => [Loop!Next]_Loop!vars
<1> SUFFICES ASSUME TypeOK, OneChain, NotCreated, [Next]_vars
             PROVE  [Loop!Next]_Loop!vars
  BY ChainNow DEF IInv
<1>1. CASE DrawGraph
  <2>1. refresh = 1 /\ refresh' = 0 /\ shown' = shown
    BY <1>1, OnlyTimeout DEF DrawGraph, TypeOK
  <2>2. Loop!Refresh
    BY <2>1 DEF Loop!Refresh
  <2>3. QED
    BY <2>2 DEF Loop!Next
<1>2. ASSUME NEW m \in net,
             \/ TaskStartFail(m)
             \/ TaskStatusFail(m)
             \/ TaskStatusDone(m) /\ m.status \notin CatchWaitStates \cup {"SUCCESS"}
             \/ SuccessFn /\ m = ResultOk
      PROVE  [Loop!Next]_Loop!vars
  <2>1. refresh = 0
    BY OnlyMessage
  <2>2. refresh' = 1 /\ shown' \in {shown, "drawn", "empty"}
    BY <1>2, <2>1 DEF TaskStartFail, TaskStatusFail, TaskStatusDone, SuccessFn,
                      FailedCallback
  <2>3. Loop!Fetched
    BY <2>1, <2>2 DEF Loop!Fetched
  <2>4. QED
    BY <2>3 DEF Loop!Next
<1>3. ASSUME NEW m \in net, TaskStatusDone(m),
             m.status \in CatchWaitStates \cup {"SUCCESS"}
      PROVE  [Loop!Next]_Loop!vars
  BY <1>3, LoopStutter DEF TaskStatusDone
<1>4. CASE \/ CatchTask \/ RequestTaskStatus \/ ServeStart \/ ServeStatus
           \/ ServeResult \/ WorkerStep \/ UNCHANGED vars
  <2>1. refresh' = refresh /\ shown' = shown
    BY <1>4 DEF CatchTask, RequestTaskStatus, ServeStart, ServeStatus, ServeResult,
                WorkerStep, client, vars
  <2>2. QED
    BY <2>1, LoopStutter
<1>5. CASE SuccessFn
  BY <1>5, <1>2 DEF SuccessFn
<1>6. QED
  BY <1>1, <1>2, <1>3, <1>4, <1>5 DEF Next

(* Refinement: the dashboard's refresh loop implements WidgetLoop (its   *)
(* safety part; the loop's fairness is checked by TLC): a widget          *)
(* alternates between one fetch and one wait, and its graph changes only  *)
(* when a fetch ends (dashboard.js 102-128 over website.js 1181-1276).    *)
THEOREM Refinement == Spec => Loop!Safety
<1>1. Init => Loop!Init
  BY DEF Init, Loop!Init
<1>2. QED
  BY <1>1, StepRefines, Invariance, PTL DEF Spec, Loop!Safety
=============================================================================
