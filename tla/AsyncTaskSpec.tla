---------------------------- MODULE AsyncTaskSpec ----------------------------
(***************************************************************************)
(* What utils.asyncTask promises its callers (the comment at utils.js 14   *)
(* and 62: "attach event handlers with done(), fail(), progress()"): the   *)
(* returned promise is settled at most once, either resolved or rejected,  *)
(* and before that it may report progress, never going backwards.  The     *)
(* polling, the network and the server are hidden.                        *)
(***************************************************************************)
EXTENDS Integers

CONSTANT MaxProgress   \* the largest result.current a task reports

VARIABLES
    dstate,   \* "pending", "resolved" or "rejected"
    note      \* result.current of the last progress notification; -1: none

vars == <<dstate, note>>

Init ==
    /\ dstate = "pending"
    /\ note = -1

\* A progress notification carrying result.current = c.
Progress(c) ==
    /\ dstate = "pending"
    /\ note <= c
    /\ note' = c
    /\ UNCHANGED dstate

\* The promise is settled; the outcome is final.
Settle(d) ==
    /\ dstate = "pending"
    /\ dstate' = d
    /\ UNCHANGED note

Next ==
    \/ \E c \in 0..MaxProgress : Progress(c)
    \/ \E d \in {"resolved", "rejected"} : Settle(d)

Spec == Init /\ [][Next]_vars
=============================================================================
