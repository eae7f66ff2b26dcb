-------------------------------- MODULE GmList --------------------------------
(***************************************************************************)
(* gridportal.website.gmList (src/legacy/website/static/website.js        *)
(* 765-882): a paginated list that getJSONs its items on every page       *)
(* click, sort click and (debounced) search change.  No request is        *)
(* cancelled: every getJSON in flight renders the list, the paginator and *)
(* hides the shared loader icon when it succeeds, in whatever order the   *)
(* answers arrive; a failed one only notifies (ajaxError, 133-148).       *)
(*                                                                         *)
(* A query is a record of the getParams the code builds (814-820); count  *)
(* is the constant resultsPerPage and offset is page * count, so the      *)
(* page stands for both.  Every request carries its sequence number, so   *)
(* two identical queries in flight stay two requests.                     *)
(***************************************************************************)
EXTENDS Integers

CONSTANTS
    Columns,      \* the data-sort values of the sort buttons
    InitialOrder, \* the orderBy argument ("" when the list has none)
    Terms,        \* search-field values; "" is the empty (labelled) field
    NPages,       \* Math.ceil(response.total / resultsPerPage)
    Errors,       \* TRUE when a getJSON may fail
    MaxRequests   \* bound on the number of getJSON calls of a run

VARIABLES
    orderBy,    \* the closure variable orderBy
    direction,  \* orderDirection
    search,     \* the search string of the next request
    field,      \* the search field's value ("" when labelinside)
    debounce,   \* searchTimeout is set and has not fired
    loader,     \* the loader icon is visible
    net,        \* getJSON requests and answers in flight
    sent,       \* getJSON calls so far (the next sequence number)
    shown,      \* the query whose answer the ul shows, or NoQuery
    active      \* the active page button, -1 before the first render

vars == <<orderBy, direction, search, field, debounce, loader, net, sent,
          shown, active>>

Pages == 0..(NPages - 1)
Query == [order : Columns \cup {""}, direction : {"asc", "desc"},
          search : Terms, page : Pages]
NoQuery == [order |-> "", direction |-> "none", search |-> "", page |-> -1]
Messages == [kind : {"get", "success", "error"}, seq : 0..MaxRequests,
             query : Query]

-----------------------------------------------------------------------------
\* getData(page) (812-830): show the loader and send the getJSON of the
\* current sort and search for that page.  A helper of the handlers below,
\* never a step of its own.
GetData(page, o, d, s) ==
    /\ sent < MaxRequests
    /\ loader' = TRUE
    /\ net' = net \cup {[kind |-> "get", seq |-> sent,
                         query |-> [order |-> o, direction |-> d,
                                    search |-> s, page |-> page]]}
    /\ sent' = sent + 1

\* gmList itself (766-785, 881): orderBy defaults to "", direction "asc",
\* search "", the field is labelled, and getData(0) is called.
Init ==
    /\ orderBy = InitialOrder
    /\ direction = "asc"
    /\ search = ""
    /\ field = ""
    /\ debounce = FALSE
    /\ loader = TRUE
    /\ net = {[kind |-> "get", seq |-> 0,
               query |-> [order |-> InitialOrder, direction |-> "asc",
                          search |-> "", page |-> 0]]}
    /\ sent = 1
    /\ shown = NoQuery
    /\ active = -1

\* The search field's keydown/keyup/change/cut/paste/input handler
\* (832-835, 849) after the user has set the field to v: clear the
\* pending timeout and set a new one of 200 ms.
SearchInput(v) ==
    /\ field' = v
    /\ debounce' = TRUE
    /\ UNCHANGED <<orderBy, direction, search, loader, net, sent, shown,
                   active>>

\* The clear-search button (855-861): empty the field, let labelify label
\* it, and trigger the change handler.
ClearSearch ==
    /\ field' = ""
    /\ debounce' = TRUE
    /\ UNCHANGED <<orderBy, direction, search, loader, net, sent, shown,
                   active>>

\* The search timeout (836-849): read the field ("" if labelled); only a
\* changed value is searched for, from page 0.
SearchTimeout ==
    /\ debounce
    /\ debounce' = FALSE
    /\ \/ /\ field = search
          /\ UNCHANGED <<search, loader, net, sent>>
       \/ /\ field # search
          /\ search' = field
          /\ GetData(0, orderBy, direction, field)
    /\ UNCHANGED <<orderBy, direction, field, shown, active>>

\* A sort button (863-879): the active column toggles its direction, any
\* other column becomes the order, ascending; then getData(0).
SortClick(c) ==
    /\ IF c = orderBy
          THEN /\ orderBy' = orderBy
               /\ direction' = IF direction = "asc" THEN "desc" ELSE "asc"
          ELSE /\ orderBy' = c
               /\ direction' = "asc"
    /\ GetData(0, orderBy', direction', search)
    /\ UNCHANGED <<search, field, debounce, shown, active>>

\* A page button of the rendered paginator (797-802).
PageClick(p) ==
    /\ active # -1
    /\ GetData(p, orderBy, direction, search)
    /\ UNCHANGED <<orderBy, direction, search, field, debounce, shown,
                   active>>

\* The success handler (821-828): render the items and the paginator of
\* that request's page, then hide the loader.
GetDataSuccess(m) ==
    /\ m \in net
    /\ m.kind = "success"
    /\ net' = net \ {m}
    /\ shown' = m.query
    /\ active' = m.query.page
    /\ loader' = FALSE
    /\ UNCHANGED <<orderBy, direction, search, field, debounce, sent>>

\* The error handler (829): ajaxError notifies; the loader stays.
GetDataError(m) ==
    /\ m \in net
    /\ m.kind = "error"
    /\ net' = net \ {m}
    /\ UNCHANGED <<orderBy, direction, search, field, debounce, loader,
                   sent, shown, active>>

\* The list view (json_list_response) answers a request, or the getJSON
\* fails; answers to different requests are independent.
Serve(m) ==
    /\ m \in net
    /\ m.kind = "get"
    /\ \E k \in IF Errors THEN {"success", "error"} ELSE {"success"} :
          net' = (net \ {m}) \cup {[m EXCEPT !.kind = k]}
    /\ UNCHANGED <<orderBy, direction, search, field, debounce, loader,
                   sent, shown, active>>

Next ==
    \/ \E v \in Terms : SearchInput(v)
    \/ ClearSearch
    \/ SearchTimeout
    \/ \E c \in Columns : SortClick(c)
    \/ \E p \in Pages : PageClick(p)
    \/ \E m \in net : GetDataSuccess(m) \/ GetDataError(m) \/ Serve(m)

(* The browser fires a set timeout and runs a due callback, and the       *)
(* server answers every request; the user's clicks and keys are free.     *)
Fairness ==
    /\ WF_vars(SearchTimeout)
    /\ WF_vars(\E m \in net : GetDataSuccess(m))
    /\ WF_vars(\E m \in net : GetDataError(m))
    /\ WF_vars(\E m \in net : Serve(m))

Spec == Init /\ [][Next]_vars /\ Fairness

-----------------------------------------------------------------------------
(* Properties *)

\* Type correctness of every variable.
TypeOK ==
    /\ orderBy \in Columns \cup {""}
    /\ direction \in {"asc", "desc"}
    /\ search \in Terms
    /\ field \in Terms
    /\ debounce \in BOOLEAN
    /\ loader \in BOOLEAN
    /\ net \subseteq Messages
    /\ sent \in 0..MaxRequests
    /\ shown \in Query \cup {NoQuery}
    /\ active \in Pages \cup {-1}

(* The comment above the list wiring (website.js 1002-1012): the list is *)
(* ordered by the chosen sort and filtered by the search.  Once every     *)
(* request has been answered, the items shown are those of the current   *)
(* order, direction and search.                                           *)
ListShowsCurrent ==
    (net = {} /\ shown # NoQuery)
    => /\ shown.order = orderBy
       /\ shown.direction = direction
       /\ shown.search = search

=============================================================================
