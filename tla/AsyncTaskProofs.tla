-------------------------- MODULE AsyncTaskProofs --------------------------
(***************************************************************************)
(* Proofs about AsyncTask for every value of the constants.               *)
(***************************************************************************)
EXTENDS AsyncTask, TLAPS

(* The strengthening.  Besides the properties it adds what each message    *)
(* in flight says about the task on the server:                           *)
(*   - before the start view ran, no poll can be under way;               *)
(*   - a SUCCESS answer, a finalize request or its answer means the task  *)
(*     has succeeded (SUCCESS is terminal, so this stays true);           *)
(*   - every status answer in flight carries a result.current between the *)
(*     last one notified and the task's present one.                      *)
NotCreated ==
    job = "NONE" => (net \subseteq {StartReq, Failed("start")} /\ timers = 0)

StartOnlyFirst ==
    StartReq \in net => job = "NONE"

SuccessInFlight ==
    (\/ FinalizeReq \in net
     \/ FinalizeOk \in net
     \/ \E c \in 0..MaxProgress : StatusOk("SUCCESS", c) \in net)
    => job = "SUCCESS"

ProgressBound ==
    /\ note <= done
    /\ \A m \in net : m.kind = "statusOk" => note <= m.current /\ m.current <= done

IInv ==
    /\ TypeOK
    /\ SingleFlight
    /\ NoLeakAfterSettle
    /\ ResolvedOnlyOnSuccess
    /\ NotCreated
    /\ StartOnlyFirst
    /\ SuccessInFlight
    /\ ProgressBound

-----------------------------------------------------------------------------
USE ConstAssumption

\* What a status answer carries.
LEMMA StatusAnswer ==
    ASSUME NEW m \in Messages, m.kind = "statusOk"
    PROVE  m.status \in TaskStates /\ m.current \in 0..MaxProgress
  <1>1. \E s \in TaskStates, c \in 0..MaxProgress : m = StatusOk(s, c)
    BY DEF Messages, Requests, Answers, StartReq, StatusReq, FinalizeReq, StartOk,
           FinalizeOk, StatusOk, Failed
  <1>2. QED
    BY <1>1 DEF StatusOk

LEMMA InitIInv == Init => IInv
  <1> SUFFICES ASSUME Init PROVE IInv
    OBVIOUS
  <1>1. TypeOK
    BY DEF Init, TypeOK, Messages, Requests, StartReq
  <1>2. SingleFlight /\ NoLeakAfterSettle /\ ResolvedOnlyOnSuccess
    BY DEF Init, SingleFlight, NoLeakAfterSettle, ResolvedOnlyOnSuccess
  <1>3. NotCreated /\ StartOnlyFirst
    BY DEF Init, NotCreated, StartOnlyFirst
  <1>4. SuccessInFlight
    BY DEF Init, SuccessInFlight, StartReq, FinalizeReq, FinalizeOk, StatusOk
  <1>5. ProgressBound
    BY DEF Init, ProgressBound, StartReq
  <1>6. QED
    BY <1>1, <1>2, <1>3, <1>4, <1>5 DEF IInv

LEMMA StepIInv == IInv /\ [Next]_vars => IInv'
<1> SUFFICES ASSUME IInv, [Next]_vars PROVE IInv'
  OBVIOUS
<1> USE DEF IInv, TypeOK, SingleFlight, NoLeakAfterSettle, ResolvedOnlyOnSuccess,
            NotCreated, StartOnlyFirst, SuccessInFlight, ProgressBound,
            Messages, Requests, Answers, TaskStates, WaitStates, Terminal, Calls,
            StartReq, StatusReq, FinalizeReq, StartOk, FinalizeOk, StatusOk, Failed,
            server, client, vars
<1>1. CASE HandleInitial
  BY <1>1 DEF HandleInitial, RecheckStatusAfterDelay
<1>2. CASE RecheckStatus
  BY <1>2 DEF RecheckStatus
<1>3. CASE \E m \in net : HandleStatus(m)
  <2> PICK m \in net : HandleStatus(m)
    BY <1>3
  <2>1. net = {m} /\ timers = 0 /\ dstate = "pending"
    OBVIOUS
  <2>2. m.kind = "statusOk" /\ m.status \in TaskStates /\ m.current \in 0..MaxProgress
    BY StatusAnswer DEF HandleStatus
  <2>3. job # "NONE" /\ note <= m.current /\ m.current <= done
    BY <2>1, <2>2 DEF StartReq, Failed
  <2>4. CASE m.status \in WaitStates
    <3>1. net' = {} /\ timers' = 1 /\ UNCHANGED <<job, done, retries, dstate, note>>
      BY <2>1, <2>4, ConstAssumption DEF HandleStatus, RecheckStatusAfterDelay
    <3>2. QED
      BY <2>1, <2>2, <2>3, <3>1
  <2>5. CASE m.status = "PROGRESS"
    <3>1. net' = {} /\ timers' = 1 /\ note' = m.current
          /\ UNCHANGED <<job, done, retries, dstate>>
      BY <2>1, <2>5, ConstAssumption DEF HandleStatus, RecheckStatusAfterDelay, Notify
    <3>2. QED
      BY <2>1, <2>2, <2>3, <3>1
  <2>6. CASE m.status = "SUCCESS"
    BY <2>1, <2>2, <2>6 DEF HandleStatus
  <2>7. CASE m.status \in {"FAILURE", "REVOKED"}
    <3>1. net' = {} /\ timers' = 0 /\ dstate' = "rejected"
          /\ UNCHANGED <<job, done, retries, note>>
      BY <2>1, <2>7, ConstAssumption DEF HandleStatus, Reject
    <3>2. QED
      BY <2>1, <2>2, <2>3, <3>1
  <2>8. CASE m.status \in CustomStates
    <3>1. net' = {} /\ UNCHANGED <<job, done, retries, timers, dstate, note>>
      BY <2>1, <2>8, ConstAssumption DEF HandleStatus
    <3>2. QED
      BY <2>1, <2>2, <2>3, <3>1
  <2>9. QED
    BY <2>2, <2>4, <2>5, <2>6, <2>7, <2>8
<1>4. CASE \E m \in net : HandleError(m)
  BY <1>4 DEF HandleError, Reject
<1>5. CASE HandleSuccess
  BY <1>5 DEF HandleSuccess, Resolve
<1>6. CASE ServeStart
  BY <1>6 DEF ServeStart
<1>7. CASE ServeStatus
  BY <1>7 DEF ServeStatus
<1>8. CASE ServeFinalize
  BY <1>8 DEF ServeFinalize
<1>9. CASE WorkerStep
  BY <1>9 DEF WorkerStep, TaskStep
<1>10. CASE UNCHANGED vars
  BY <1>10
<1> HIDE DEF IInv, vars
<1>11. QED
  BY <1>1, <1>2, <1>3, <1>4, <1>5, <1>6, <1>7, <1>8, <1>9, <1>10 DEF Next, Client, Server

(* The inductive invariant holds in every reachable state. *)
THEOREM Invariance == Spec => []IInv
  BY InitIInv, StepIInv, PTL DEF Spec

(* TypeOK: every variable of the poller keeps its type. *)
THEOREM TypeCorrect == Spec => []TypeOK
  BY Invariance, PTL DEF IInv

(* SingleFlight: utils.asyncTask never has two polls, or a poll and a      *)
(* timer, outstanding at once.                                            *)
THEOREM SingleFlightHolds == Spec => []SingleFlight
  BY Invariance, PTL DEF IInv

(* NoLeakAfterSettle: after resolve or reject nothing is left scheduled   *)
(* or in flight.                                                          *)
THEOREM NoLeakAfterSettleHolds == Spec => []NoLeakAfterSettle
  BY Invariance, PTL DEF IInv

(* ResolvedOnlyOnSuccess: the Deferred is resolved only for a task that   *)
(* succeeded on the server.                                               *)
THEOREM ResolvedOnlyOnSuccessHolds == Spec => []ResolvedOnlyOnSuccess
  BY Invariance, PTL DEF IInv

\* No step lowers the last progress value notified.
LEMMA NoteStep == IInv /\ [Next]_vars => note' >= note
<1> SUFFICES ASSUME IInv, [Next]_vars PROVE note' >= note
  OBVIOUS
<1>1. note \in Int
  BY DEF IInv, TypeOK
<1>2. CASE \E m \in net : HandleStatus(m)
  <2> PICK m \in net : HandleStatus(m)
    BY <1>2
  <2>1. m.kind = "statusOk" /\ m.current \in 0..MaxProgress /\ note <= m.current
    BY StatusAnswer DEF HandleStatus, IInv, TypeOK, ProgressBound
  <2>2. note' \in {note, m.current}
    BY DEF HandleStatus, Notify, RecheckStatusAfterDelay, client
  <2>3. QED
    BY <1>1, <2>1, <2>2
<1>3. CASE ~\E m \in net : HandleStatus(m)
  <2>1. UNCHANGED note
    BY <1>3 DEF Next, Client, Server, HandleInitial, RecheckStatus, HandleError,
               HandleSuccess, ServeStart, ServeStatus, ServeFinalize, WorkerStep,
               client, vars
  <2>2. QED
    BY <1>1, <2>1
<1>4. QED
  BY <1>2, <1>3

(* ProgressMonotone: the progress notifications of utils.asyncTask never  *)
(* go backwards.                                                          *)
THEOREM ProgressMonotoneHolds == Spec => ProgressMonotone
<1>1. IInv /\ [Next]_vars => [note' >= note]_vars
  BY NoteStep
<1>2. QED
  BY <1>1, Invariance, PTL DEF Spec, ProgressMonotone

\* Every step of the poller is a step of the promise it returns, or leaves
\* the promise as it is.
LEMMA StepRefines == IInv /\ [Next]_vars => [Abstract!Next]_Abstract!vars
<1> SUFFICES ASSUME IInv, [Next]_vars PROVE [Abstract!Next]_Abstract!vars
  OBVIOUS
<1>1. CASE \E m \in net : HandleStatus(m)
  <2> PICK m \in net : HandleStatus(m)
    BY <1>1
  <2>1. dstate = "pending" /\ note \in Int
    BY DEF IInv, NoLeakAfterSettle, TypeOK
  <2>2. m.kind = "statusOk" /\ m.current \in 0..MaxProgress /\ note <= m.current
    BY StatusAnswer DEF HandleStatus, IInv, TypeOK, ProgressBound
  <2>3. CASE m.status = "PROGRESS"
    <3>1. note' = m.current /\ dstate' = dstate
      BY <2>1, <2>3, ConstAssumption DEF HandleStatus, Notify, WaitStates
    <3>2. Abstract!Progress(m.current)
      BY <2>1, <2>2, <3>1 DEF Abstract!Progress
    <3>3. QED
      BY <2>2, <3>2 DEF Abstract!Next
  <2>4. CASE m.status \in {"FAILURE", "REVOKED"}
    <3>1. Abstract!Settle("rejected")
      BY <2>1, <2>4, ConstAssumption DEF HandleStatus, Reject, WaitStates,
         Abstract!Settle
    <3>2. QED
      BY <3>1 DEF Abstract!Next
  <2>5. CASE m.status \notin {"PROGRESS", "FAILURE", "REVOKED"}
    <3>1. UNCHANGED <<dstate, note>>
      BY <2>5 DEF HandleStatus, client
    <3>2. QED
      BY <3>1 DEF Abstract!vars
  <2>6. QED
    BY <2>3, <2>4, <2>5
<1>2. CASE \E m \in net : HandleError(m)
  <2>1. dstate = "pending"
    BY <1>2 DEF IInv, NoLeakAfterSettle
  <2>2. Abstract!Settle("rejected")
    BY <1>2, <2>1 DEF HandleError, Reject, Abstract!Settle
  <2>3. QED
    BY <2>2 DEF Abstract!Next
<1>3. CASE HandleSuccess
  <2>1. dstate = "pending"
    BY <1>3 DEF HandleSuccess, IInv, NoLeakAfterSettle
  <2>2. Abstract!Settle("resolved")
    BY <1>3, <2>1 DEF HandleSuccess, Resolve, Abstract!Settle
  <2>3. QED
    BY <2>2 DEF Abstract!Next
<1>4. CASE ~(\E m \in net : HandleStatus(m)) /\ ~(\E m \in net : HandleError(m))
           /\ ~HandleSuccess
  <2>1. UNCHANGED <<dstate, note>>
    BY <1>4 DEF Next, Client, Server, HandleInitial, RecheckStatus, ServeStart,
                ServeStatus, ServeFinalize, WorkerStep, server, client, vars
  <2>2. QED
    BY <2>1 DEF Abstract!vars
<1>5. QED
  BY <1>1, <1>2, <1>3, <1>4

(* Refinement: utils.asyncTask implements AsyncTaskSpec, the promise its   *)
(* callers rely on (settled once, progress that never goes backwards).    *)
THEOREM Refinement == Spec => AbstractSpec
<1>1. Init => Abstract!Init
  BY DEF Init, Abstract!Init
<1>2. QED
  BY <1>1, StepRefines, Invariance, PTL DEF Spec, AbstractSpec, Abstract!Spec

=============================================================================
