----------------------------- MODULE ChartLoader -----------------------------
(***************************************************************************)
(* The asyncTask callers of src/gridplatform/utils/static/utils/utils.js  *)
(* (67-365, wired at 424-571): every .load-chart-pie, .load-chart-bar,    *)
(* .load-chart-line and .load-html container loads once when the page is *)
(* ready and again on every click of its form's button.  Each load puts a *)
(* spinner into the container, starts a utils.asyncTask and attaches     *)
(* done, fail and progress handlers that write into the container; an    *)
(* earlier load is never cancelled, and its handlers still fire.         *)
(*                                                                         *)
(* Each load's task is its abstract specification AsyncTaskSpec (pending, *)
(* notes of growing progress, then resolved or rejected once), which     *)
(* AsyncTaskProofs proves utils.asyncTask implements (THEOREM Refinement). *)
(* A container is of one of three kinds: "flotr" (pieChart -> loadGraph,  *)
(* which also binds the window-wide resize.graph handler), "canvas"       *)
(* (barChart -> loadGraphJs, lineChart -> genericLoadGraphJs, Chart.js)   *)
(* and "html" (utils.html).                                               *)
(***************************************************************************)
EXTENDS Integers, Sequences, FiniteSets

CONSTANTS
    Containers,   \* the containers of the page
    Kind,         \* Kind[c] \in {"flotr", "canvas", "html"}
    MaxProgress,  \* the total of a task's progress notes
    MaxLoads      \* bound on the number of loads of a run

VARIABLES
    tasks,   \* the loads so far, in order: [c, dstate, note] (AsyncTaskSpec)
    view,    \* view[c]: what c shows and which load put it there
    resize   \* the resize.graph handler: the load whose chart it redraws, 0 if none

vars == <<tasks, view, resize>>

Loads == 1..Len(tasks)
Shows == {"spinner", "chart", "nodata", "ban", "html"}
\* A view is what the container shows, the load that put it there and the
\* percentage written into the spinner's .graph-progress paragraph, with
\* the load that wrote it (0: none).
View == [shows : Shows, load : 0..MaxLoads, text : 0..100, textFrom : 0..MaxLoads]
Task == [c : Containers, dstate : {"pending", "resolved", "rejected"},
         note : -1..MaxProgress]

\* The last load started on c.
Latest(c) == CHOOSE l \in Loads : tasks[l].c = c
                                  /\ \A k \in Loads : tasks[k].c = c => k <= l

Show(c, s, l) == view' = [view EXCEPT ![c] = [shows |-> s, load |-> l, text |-> 0,
                                              textFrom |-> 0]]

-----------------------------------------------------------------------------
\* A load of c (loadGraph 71-72, loadGraphJs 133-134, genericLoadGraphJs
\* 185-186, html 357-358): the spinner, then a new asyncTask.
StartLoad(c) ==
    /\ Len(tasks) < MaxLoads
    /\ tasks' = Append(tasks, [c |-> c, dstate |-> "pending", note |-> -1])
    /\ Show(c, "spinner", Len(tasks) + 1)

\* Page ready (424-571): loadFromUrlHash calls each container's loader
\* once; the loads are numbered in some order of the containers.
PageOrder == CHOOSE order \in [1..Cardinality(Containers) -> Containers] :
                 \A c \in Containers : \E i \in DOMAIN order : order[i] = c

Init ==
    /\ tasks = [i \in DOMAIN PageOrder |->
                  [c |-> PageOrder[i], dstate |-> "pending", note |-> -1]]
    /\ view = [c \in Containers |->
                 [shows |-> "spinner", text |-> 0, textFrom |-> 0,
                  load |-> CHOOSE i \in DOMAIN PageOrder : PageOrder[i] = c]]
    /\ resize = 0

\* The form's button (471-475, 527-531, 547-551, 565-569): update the
\* location hash and load again; the earlier load goes on.
Click(c) ==
    /\ StartLoad(c)
    /\ UNCHANGED resize

\* The progress handler (loadGraph 105-118 and the same in loadGraphJs and
\* genericLoadGraphJs; utils.html has none) on a note of progress p: if
\* current and total are truthy, write the percentage into whatever
\* .graph-progress paragraph the container holds now.
ShowProgress(l, p) ==
    LET c == tasks[l].c IN
    /\ tasks[l].dstate = "pending"
    /\ tasks[l].note <= p
    /\ tasks' = [tasks EXCEPT ![l].note = p]
    /\ IF Kind[c] # "html" /\ p # 0 /\ view[c].shows = "spinner"
          THEN view' = [view EXCEPT ![c].text = (100 * p + MaxProgress \div 2)
                                                  \div MaxProgress,
                                    ![c].textFrom = l]
          ELSE UNCHANGED view
    /\ UNCHANGED resize

\* The done handler of loadGraph (73-101): empty the container; a pie whose
\* values are all 0 gets "No data for this period", any other data is
\* drawn with Flotr and the window's resize.graph handler is replaced by
\* one that redraws this load's data in this container.
FlotrDone(l, allZero) ==
    LET c == tasks[l].c IN
    /\ IF allZero
          THEN Show(c, "nodata", l) /\ UNCHANGED resize
          ELSE Show(c, "chart", l) /\ resize' = l

\* The done handlers of loadGraphJs (135-156) and genericLoadGraphJs
\* (187-233): empty the container and draw a Chart.js canvas.
CanvasDone(l) ==
    Show(tasks[l].c, "chart", l) /\ UNCHANGED resize

\* The done handler of utils.html (359-361).
HtmlDone(l) ==
    Show(tasks[l].c, "html", l) /\ UNCHANGED resize

\* The task of load l resolves and its done handler runs.
TaskResolve(l) ==
    LET c == tasks[l].c IN
    /\ tasks[l].dstate = "pending"
    /\ tasks' = [tasks EXCEPT ![l].dstate = "resolved"]
    /\ \/ Kind[c] = "flotr" /\ \E z \in BOOLEAN : FlotrDone(l, z)
       \/ Kind[c] = "canvas" /\ CanvasDone(l)
       \/ Kind[c] = "html" /\ HtmlDone(l)

\* The fail handler (102-104, 157-159, 234-236, 362-364): the ban icon.
TaskReject(l) ==
    /\ tasks[l].dstate = "pending"
    /\ tasks' = [tasks EXCEPT ![l].dstate = "rejected"]
    /\ Show(tasks[l].c, "ban", l)
    /\ UNCHANGED resize

\* The window is resized and the debounced resize.graph handler (96-98)
\* runs: Flotr draws its load's data into its container again, whatever
\* the container shows now.
Resize ==
    /\ resize # 0
    /\ Show(tasks[resize].c, "chart", resize)
    /\ UNCHANGED <<tasks, resize>>

Next ==
    \/ \E c \in Containers : Click(c)
    \/ \E l \in Loads : \/ \E p \in 0..MaxProgress : ShowProgress(l, p)
                        \/ TaskResolve(l)
                        \/ TaskReject(l)
    \/ Resize

(* Every task settles (AsyncTask's Terminates, checked for the built-in   *)
(* states) and the browser runs its handlers; clicks and resizes are the  *)
(* user's.                                                                *)
Fairness ==
    \A l \in 1..MaxLoads :
        WF_vars(l \in Loads /\ (TaskResolve(l) \/ TaskReject(l)))

Spec == Init /\ [][Next]_vars /\ Fairness

-----------------------------------------------------------------------------
(* Properties *)

\* Type correctness of every variable.
TypeOK ==
    /\ tasks \in Seq(Task) /\ Len(tasks) <= MaxLoads
    /\ view \in [Containers -> View]
    /\ resize \in 0..Len(tasks)

(* spec.md 4.1: a caller cancels an operation by discarding it and        *)
(* ignoring its later events.  Once every load of a container has         *)
(* settled, the container shows what its latest load produced.            *)
ShowsLatest ==
    \A c \in Containers :
        (\A l \in Loads : tasks[l].c = c => tasks[l].dstate # "pending")
        => view[c].load = Latest(c)

=============================================================================
