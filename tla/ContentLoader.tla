---------------------------- MODULE ContentLoader ----------------------------
(***************************************************************************)
(* ui.loadContent (src/gridplatform/bootstrap/static/bootstrap/base.js    *)
(* 352-489) for one .content-loader element, with its callers: the page   *)
(* load (542), the debounced list search (604-616) and the filter popover *)
(* (234-258).  Every call GETs the element's URL with the sort, filter,   *)
(* page and search of that moment and replaces the element's content     *)
(* when the answer comes; nothing cancels an earlier GET.  The sort and   *)
(* pagination click handlers are bound by the answer that rendered the   *)
(* content, inside the loadContent call that sent it, so they reuse that *)
(* call's search query.  The sort order is saved in localStorage, which  *)
(* outlives a reload of the page; the page number is kept in the location *)
(* hash, which outlives it too.                                           *)
(*                                                                         *)
(* A value read from localStorage is a string or "null" (getItem of a key *)
(* never set); setItem stores String(value), so an undefined direction is *)
(* stored as "undefined".  "none" is an undefined data attribute.         *)
(***************************************************************************)
EXTENDS Naturals

CONSTANTS
    Columns,       \* the data-orderby values of the sortable th elements
    InitialOrder,  \* the element's data-orderby ("none" if absent)
    InitialDir,    \* the element's data-direction ("none" if absent)
    Terms,         \* values of the list-search input, EmptyQuery among them
    Filters,       \* JSON strings of the filter popover's selections
    NPages,        \* the pages the pagination links point to
    SearchBlock,   \* TRUE when the element has the class search-block
    MaxRequests    \* bound on the number of GETs of a run

\* The value of an empty search input (val() of an empty input).
EmptyQuery == ""

ASSUME ContentLoaderAssumption ==
    /\ InitialOrder \in Columns \cup {"none"}
    /\ InitialDir \in {"none", "asc", "desc"}
    /\ EmptyQuery \in Terms
    /\ NPages \in Nat \ {0}
    /\ SearchBlock \in BOOLEAN
    /\ MaxRequests \in Nat \ {0}   \* the page load sends the first GET

VARIABLES
    orderby, direction, extra,  \* contentLoader.data(): sort and filter
    url,        \* the page of data('url'), 0 for the template URL
    hash,       \* the page kept in location.hash, 0 for none
    lsOrder, lsDir, lsExtra,    \* the contentLoader-<url>-* storage items
    search,     \* the list-search input's last searched value (oldQuery)
    content,    \* the element's content: "spinner", "empty", "removed" or
                \* "items" (an answer's content, with its handlers)
    shown,      \* the request whose answer is or was last rendered
    net,        \* GETs and their answers in flight
    sent        \* GETs so far

vars == <<orderby, direction, extra, url, hash, lsOrder, lsDir, lsExtra,
          search, content, shown, net, sent>>
data == <<orderby, direction, extra, url, hash>>
storage == <<lsOrder, lsDir, lsExtra>>

Pages == 1..NPages
Dirs == {"none", "asc", "desc", "undefined"}
\* The query of a GET (458-464); ot is options.direction || 'asc'.
Request == [o : Columns \cup {"none"}, ot : Dirs \ {"none"},
            extra : Filters \cup {"none"}, page : Pages \cup {0},
            q : Terms]
Messages == [kind : {"get", "done", "noData", "fail"}, seq : 0..MaxRequests,
             req : Request]

Rendered == content = "items"
Truthy(v) == v \notin {"none", "null"}

-----------------------------------------------------------------------------
\* loadOptions (368-382) over the data o, d, x: a stored item that is set
\* overrides the data.
LoadOptions(o, d, x) ==
    /\ orderby' = IF Truthy(lsOrder') THEN lsOrder' ELSE o
    /\ direction' = IF Truthy(lsDir') THEN lsDir' ELSE d
    /\ extra' = IF lsExtra' # "null" THEN lsExtra' ELSE x

\* String(v) as localStorage.setItem stores it (saveOptions, 362-366).
Stored(v) == IF v = "none" THEN "undefined" ELSE v

LoadNoDefault(o, d, x, p, q) ==
    /\ sent < MaxRequests
    /\ content' = "spinner"
    /\ hash' = IF p # 0 THEN p ELSE hash
    /\ net' = net \cup {[kind |-> "get", seq |-> sent,
                         req |-> [o |-> o, ot |-> d, extra |-> x,
                                  page |-> IF hash' # 0 THEN hash' ELSE p,
                                  q |-> q]]}
    /\ sent' = sent + 1

\* load (434-487) up to the GET, with the data o, d, x, p and the search q
\* of its loadContent call: the spinner, updateLocationHash (the URL's
\* page, if any, goes into the hash), extractPageFromHash (the hash's page
\* wins) and the GET.
Load(o, d, x, p, q) ==
    /\ sent < MaxRequests
    /\ content' = "spinner"
    /\ hash' = IF p # 0 THEN p ELSE hash
    /\ net' = net \cup {[kind |-> "get", seq |-> sent,
                         req |-> [o |-> o,
                                  ot |-> IF d = "none" THEN "asc" ELSE d,
                                  extra |-> x,
                                  page |-> IF hash' # 0 THEN hash' ELSE p,
                                  q |-> q]]}
    /\ sent' = sent + 1

\* The page is loaded: ui.loadContent('.content-loader') (542) with nothing
\* stored yet and no hash; loadOptions changes nothing and load sends the
\* template's sort for the template URL, without a search.
Init ==
    /\ lsOrder = "null" /\ lsDir = "null" /\ lsExtra = "null"
    /\ orderby = InitialOrder /\ direction = InitialDir /\ extra = "none"
    /\ url = 0 /\ hash = 0 /\ search = EmptyQuery
    /\ content = "spinner"
    /\ shown = [o |-> InitialOrder, ot |-> "asc", extra |-> "none", page |-> 0,
                q |-> EmptyQuery]
    /\ net = {[kind |-> "get", seq |-> 0,
               req |-> [o |-> InitialOrder,
                        ot |-> IF InitialDir = "none" THEN "asc" ELSE InitialDir,
                        extra |-> "none", page |-> 0, q |-> EmptyQuery]]}
    /\ sent = 1

\* A sortable th of the rendered content (386-399): its own column toggles
\* the direction (asc or none -> desc, anything else -> asc), then the
\* column becomes the order, saveOptions stores both, and load runs with
\* the search of the loadContent call that rendered the content.
SortClickSaveFirst(c) ==
    /\ Rendered
    /\ direction' = IF c = orderby
                       THEN IF direction \in {"asc", "none"} THEN "desc" ELSE "asc"
                       ELSE direction
    /\ orderby' = c
    /\ lsOrder' = orderby
    /\ lsDir' = Stored(direction')
    /\ Load(c, direction', extra, url, shown.q)
    /\ UNCHANGED <<extra, url, lsExtra, search, shown>>

SortClick(c) ==
    /\ Rendered
    /\ direction' = IF c = orderby
                       THEN IF direction \in {"asc", "none"} THEN "desc" ELSE "asc"
                       ELSE direction
    /\ orderby' = c
    /\ lsOrder' = c
    /\ lsDir' = Stored(direction')
    /\ Load(c, direction', extra, url, shown.q)
    /\ UNCHANGED <<extra, url, lsExtra, search, shown>>

\* A pagination link of the rendered content (402-409): its href becomes
\* the URL, then load with the rendering call's search.
PageClick(p) ==
    /\ Rendered
    /\ url' = p
    /\ Load(orderby, direction, extra, p, shown.q)
    /\ UNCHANGED <<orderby, direction, extra, storage, search, shown>>

\* The list-search input's debounced handler (604-616): a changed value
\* calls loadContent with no extra and that query; loadOptions, then load.
SearchChange(q) ==
    /\ content # "removed"
    /\ q # search
    /\ search' = q
    /\ UNCHANGED <<storage, url, shown>>
    /\ LoadOptions(orderby, direction, extra)
    /\ Load(orderby', direction', extra', url, q)

\* A filter checkbox of the popover (234-258): loadContent with the new
\* extra, which it stores first (478-481), and the search input's value.
FilterChange(f) ==
    /\ content # "removed"
    /\ lsExtra' = f
    /\ UNCHANGED <<lsOrder, lsDir, url, search, shown>>
    /\ LoadOptions(orderby, direction, extra)
    /\ Load(orderby', direction', extra', url, search)

ReloadTemplateOrder ==
    /\ search' = EmptyQuery
    /\ url' = 0
    /\ UNCHANGED <<storage, shown>>
    /\ LoadOptions(InitialOrder, InitialDir, "none")
    /\ sent < MaxRequests
    /\ content' = "spinner"
    /\ hash' = hash
    /\ net' = {[kind |-> "get", seq |-> sent,
                req |-> [o |-> InitialOrder,
                         ot |-> IF direction' = "none" THEN "asc" ELSE direction',
                         extra |-> extra', page |-> hash, q |-> EmptyQuery]]}
    /\ sent' = sent + 1

\* The user reloads the page: GETs in flight are abandoned, the element
\* comes back with its template data and URL and an empty search input;
\* localStorage and the location hash remain; then the page load's
\* loadContent (542, 476-485).
Reload ==
    /\ search' = EmptyQuery
    /\ url' = 0
    /\ UNCHANGED <<storage, shown>>
    /\ LoadOptions(InitialOrder, InitialDir, "none")
    /\ sent < MaxRequests
    /\ content' = "spinner"
    /\ hash' = hash
    /\ net' = {[kind |-> "get", seq |-> sent,
                req |-> [o |-> orderby',
                         ot |-> IF direction' = "none" THEN "asc" ELSE direction',
                         extra |-> extra', page |-> hash, q |-> EmptyQuery]]}
    /\ sent' = sent + 1

\* The server answers a GET with content, with a no-data page (only seen
\* by a search-block), or the GET fails.
Serve(m) ==
    /\ m \in net
    /\ m.kind = "get"
    /\ \E k \in {"done", "fail"} \cup (IF SearchBlock THEN {"noData"} ELSE {}) :
          net' = (net \ {m}) \cup {[m EXCEPT !.kind = k]}
    /\ UNCHANGED <<data, storage, search, content, shown, sent>>

\* The done handler (465-481): kill the spinner and append the answer,
\* whose sortable headers and pagination links are then bound; for a
\* search-block whose answer has .no-data, fade the box out and remove it.
\* A removed element stays removed.
LoadDone(m) ==
    /\ m \in net
    /\ m.kind \in {"done", "noData"}
    /\ net' = net \ {m}
    /\ content' = IF content = "removed" \/ m.kind = "noData"
                     THEN "removed" ELSE "items"
    /\ shown' = IF content' = "removed" THEN shown ELSE m.req
    /\ UNCHANGED <<data, storage, search, sent>>

LoadFailKeepsSpinner(m) ==
    /\ m \in net
    /\ m.kind = "fail"
    /\ net' = net \ {m}
    /\ UNCHANGED <<data, storage, search, content, shown, sent>>

\* The fail handler (482-485): kill the spinner, report nothing.
LoadFail(m) ==
    /\ m \in net
    /\ m.kind = "fail"
    /\ net' = net \ {m}
    /\ content' = IF content = "removed" THEN "removed" ELSE "empty"
    /\ UNCHANGED <<data, storage, search, shown, sent>>

Next ==
    \/ \E c \in Columns : SortClick(c)
    \/ \E p \in Pages : PageClick(p)
    \/ \E q \in Terms : SearchChange(q)
    \/ \E f \in Filters : FilterChange(f)
    \/ Reload
    \/ \E m \in net : Serve(m) \/ LoadDone(m) \/ LoadFail(m)

(* The server answers or fails every GET and the browser runs every due  *)
(* callback; the user's clicks, edits and reloads are free.               *)
Fairness ==
    /\ WF_vars(\E m \in net : Serve(m))
    /\ WF_vars(\E m \in net : LoadDone(m))
    /\ WF_vars(\E m \in net : LoadFail(m))

Spec == Init /\ [][Next]_vars /\ Fairness

-----------------------------------------------------------------------------
(* Properties *)

\* Type correctness of every variable.
TypeOK ==
    /\ orderby \in Columns \cup {"none"}
    /\ direction \in Dirs
    /\ extra \in Filters \cup {"none"}
    /\ url \in Pages \cup {0}
    /\ hash \in Pages \cup {0}
    /\ lsOrder \in Columns \cup {"null"}
    /\ lsDir \in {"null", "asc", "desc", "undefined"}
    /\ lsExtra \in Filters \cup {"null"}
    /\ search \in Terms
    /\ content \in {"spinner", "empty", "removed", "items"}
    /\ shown \in Request
    /\ net \subseteq Messages
    /\ sent \in 0..MaxRequests

(* The sort survives everything: once a sort has been chosen and saved,  *)
(* the order the element uses is the stored one, through later clicks,   *)
(* searches, filter changes and page reloads (saveOptions after every    *)
(* sort change, loadOptions before every load).                          *)
SortPersisted ==
    Truthy(lsOrder) => orderby = lsOrder

(* The view is asked for the sort the user chose: once a sort is stored, *)
(* every GET sent (by a click, a search, a filter change or a reload)     *)
(* orders by the stored column.                                           *)
SortSent ==
    [][\A m \in net' \ net :
          m.kind = "get" /\ Truthy(lsOrder') => m.req.o = lsOrder']_vars

(* The spinner load puts into the element never stays: every GET ends in *)
(* content, an empty element or a removed box.                           *)
SpinnerReplaced ==
    [](content = "spinner" => <>(content # "spinner"))

(* The view is asked for a sort direction it knows: every GET's ot is    *)
(* asc or desc.                                                           *)
DirectionSent ==
    \A m \in net : m.req.ot \in {"asc", "desc"}

=============================================================================
