----------------------------- MODULE CeleryTask -----------------------------
(***************************************************************************)
(* The server side that every poller of this repository talks to: one     *)
(* Celery task, created by a start view and moved through its states by a *)
(* worker.  The Django views and the tasks are not part of this            *)
(* repository; the state machine follows spec.md 4.1 and 6 and Celery's    *)
(* documented states.  A task may also put itself into a state of its own *)
(* (update_state with a custom name), which no poller knows of.           *)
(***************************************************************************)
EXTENDS Integers

CONSTANTS
    CustomStates,   \* task states set by the task itself (update_state) that
                    \* the client does not know of; model values, may be {}
    MaxProgress,    \* number of PROGRESS updates the task makes
    MaxRetries      \* number of times the task is retried

ASSUME ConstAssumption ==
    /\ MaxProgress \in Nat
    /\ MaxRetries \in Nat
    /\ CustomStates \cap {"NONE", "PENDING", "RECEIVED", "STARTED", "RETRY",
                          "PROGRESS", "SUCCESS", "FAILURE", "REVOKED"} = {}

VARIABLES
    job,      \* state of the task on the server; "NONE" before it is created
    done,     \* result.current the task last reported
    retries   \* retries made so far

worker == <<job, done, retries>>

\* The states after which a Celery task does not change any more.
Terminal == {"SUCCESS", "FAILURE", "REVOKED"}
TaskStates == {"PENDING", "RECEIVED", "STARTED", "RETRY", "PROGRESS"}
              \cup Terminal \cup CustomStates

\* One step of the worker.  Revocation may come at any non-terminal state.
TaskStep ==
    /\ job \notin {"NONE"} \cup Terminal
    /\ \/ /\ job = "PENDING"
          /\ job' = "RECEIVED"
          /\ UNCHANGED <<done, retries>>
       \/ /\ job \in {"RECEIVED", "RETRY"} \cup CustomStates
          /\ job' = "STARTED"
          /\ UNCHANGED <<done, retries>>
       \/ /\ job \in {"STARTED", "PROGRESS"}
          /\ done < MaxProgress
          /\ job' = "PROGRESS"
          /\ done' = done + 1
          /\ UNCHANGED retries
       \* A retried task keeps the progress it reported (done is not
       \* lowered); the progress properties of the pollers rest on this.
       \/ /\ job \in {"STARTED", "PROGRESS"}
          /\ retries < MaxRetries
          /\ job' = "RETRY"
          /\ retries' = retries + 1
          /\ UNCHANGED done
       \/ /\ job \in {"STARTED", "PROGRESS"}
          /\ job' \in {"SUCCESS", "FAILURE"} \cup CustomStates
          /\ UNCHANGED <<done, retries>>
       \/ /\ job' = "REVOKED"
          /\ UNCHANGED <<done, retries>>
=============================================================================
