---------------------------- MODULE OverlayForms ----------------------------
(***************************************************************************)
(* The inline edit and create forms of gridportal.website.overlay         *)
(* (src/legacy/website/static/website.js 151-656).  A list item (li) is  *)
(* opened by GETting its form and sliding it in over the item's content;  *)
(* the class isOpen marks the li whose form is open, and opening another  *)
(* while one is marked asks (a modal dialog) whether to discard it.  A    *)
(* new item's li is created, marked "new isOpen", only when its form's    *)
(* GET returns (doOpenNew).  Submitting POSTs the form; a saved form      *)
(* replaces the item's content and closes.  The delete button of a form  *)
(* (deleteItem, 587-656) asks for confirmation, GETs the delete view and  *)
(* on success closes the form with closeNew, removing its li.            *)
(*                                                                         *)
(* The animations of slidein and slideout are taken as instantaneous; the *)
(* positioning, tooltips, date pickers and notifications are left out.   *)
(* An li's content is "empty" (a new item not saved yet) or "item".       *)
(***************************************************************************)
EXTENDS Naturals, FiniteSets

CONSTANTS
    Items,       \* the list items rendered with the page
    NewIds,      \* the li elements doOpenNew may create
    MaxRequests  \* bound on the number of GETs and POSTs of a run

ASSUME OverlayAssumption ==
    /\ Items \cap NewIds = {}
    /\ {"none", "new"} \cap (Items \cup NewIds) = {}  \* elements, not the
                                                     \* dialog's sentinels
    /\ MaxRequests \in Nat

VARIABLES
    lis,      \* the li elements in the list
    isOpen,   \* the li elements with class isOpen; a removed li keeps
              \* its class, so $('.isOpen') finds isOpen \cap lis
    isNew,    \* the li elements with class new
    content,  \* content[li]: "empty" or "item"
    overlay,  \* the li elements with a form slid in
    dialog,   \* the modal "Another form is open" dialog: "none", or the
              \* li to open, or "new"
    net,      \* GETs, POSTs and their answers in flight
    sent      \* requests so far

vars == <<lis, isOpen, isNew, content, overlay, dialog, net, sent>>

Ids == Items \cup NewIds
Targets == Ids \cup {"new"}
Messages ==
    [kind : {"get", "getOk", "getError"}, target : Targets, seq : 0..MaxRequests]
    \cup [kind : {"post", "saved", "invalid", "postError",
                  "delete", "deleted", "deleteError"},
          target : Ids, seq : 0..MaxRequests]

Send(kind, t) ==
    /\ sent < MaxRequests
    /\ net' = net \cup {[kind |-> kind, target |-> t, seq |-> sent]}
    /\ sent' = sent + 1

\* The li elements that $('.isOpen') finds.
Marked == isOpen \cap lis

\* $('.isOpen') is a jQuery set: slideout (231-250) gets the first li's
\* content and every overlay of the set, so every marked form slides out
\* and, with remove, only the first li is removed.  The DOM order of the
\* marked li elements is not modelled: the first is any one of them.
FirstOf(S) == IF S = {} THEN {"none"} ELSE S

\* The Discard button of a dialog (283-296, 376-390) before its form is
\* opened: the marked forms slide out; the li of one is removed when any
\* of them is new (li.hasClass('new')) or when remove holds; the marks are
\* removed (li.removeClass) only when none is new.  Leaves the classes
\* isOpen that remain in marks.
DiscardMarked(remove, marks) ==
    \E first \in FirstOf(Marked) :
        LET hasNew == Marked \cap isNew # {}
            gone == IF hasNew \/ remove THEN {first} ELSE {}
        IN  /\ overlay' = overlay \ Marked
            /\ lis' = lis \ gone
            /\ marks = IF hasNew THEN isOpen ELSE isOpen \ Marked

-----------------------------------------------------------------------------
Init ==
    /\ lis = Items
    /\ isOpen = {}
    /\ isNew = {}
    /\ content = [i \in Ids |-> IF i \in Items THEN "item" ELSE "empty"]
    /\ overlay = {}
    /\ dialog = "none"
    /\ net = {}
    /\ sent = 0

OpenNoDialog(li) ==
    /\ li \in lis /\ li \notin overlay /\ content[li] = "item"
    /\ dialog = "none"
    /\ li \notin isOpen
    /\ isOpen' = isOpen \cup {li} /\ Send("get", li)
    /\ UNCHANGED <<lis, isNew, content, overlay, dialog>>

\* overlay.open (260-333) on the open button of li's content: nothing if
\* li is marked already; the dialog if another li is; else GET the form and
\* mark li at once.
Open(li) ==
    /\ li \in lis /\ li \notin overlay /\ content[li] = "item"
    /\ dialog = "none"
    /\ li \notin isOpen
    /\ IF Marked # {}
          THEN dialog' = li /\ UNCHANGED <<isOpen, net, sent>>
          ELSE isOpen' = isOpen \cup {li} /\ Send("get", li) /\ UNCHANGED dialog
    /\ UNCHANGED <<lis, isNew, content, overlay>>

\* overlay.openNew (365-415): the dialog if a form is marked, else
\* doOpenNew's GET (419-422); nothing is marked yet.
OpenNew ==
    /\ dialog = "none"
    /\ IF Marked # {}
          THEN dialog' = "new" /\ UNCHANGED <<net, sent>>
          ELSE Send("get", "new") /\ UNCHANGED dialog
    /\ UNCHANGED <<lis, isOpen, isNew, content, overlay>>

DiscardOpenNoMark ==
    /\ dialog \in Ids
    /\ \E marks \in SUBSET Ids :
          /\ DiscardMarked(content[dialog] = "empty", marks)
          /\ isOpen' = marks
    /\ Send("get", dialog)
    /\ dialog' = "none"
    /\ UNCHANGED <<isNew, content>>

\* Discard in overlay.open's dialog (283-304): discard, with remove the
\* test content.html() === '' made on the li being opened (292), then GET
\* its form and mark it.
DiscardOpen ==
    /\ dialog \in Ids
    /\ \E marks \in SUBSET Ids :
          /\ DiscardMarked(content[dialog] = "empty", marks)
          /\ isOpen' = marks \cup {dialog}
    /\ Send("get", dialog)
    /\ dialog' = "none"
    /\ UNCHANGED <<isNew, content>>

\* Discard in overlay.openNew's dialog (376-392): discard, then doOpenNew.
DiscardNew ==
    /\ dialog = "new"
    /\ \E marks \in SUBSET Ids :
          /\ DiscardMarked(FALSE, marks)
          /\ isOpen' = marks
    /\ Send("get", "new")
    /\ dialog' = "none"
    /\ UNCHANGED <<isNew, content>>

\* "Jump to form" (305-314, 395-404) or "Abort" (315-320, 405-410).
CloseDialog ==
    /\ dialog # "none"
    /\ dialog' = "none"
    /\ UNCHANGED <<lis, isOpen, isNew, content, overlay, net, sent>>

\* The form of an li arrives (open's success handler, 297-298, 324-325):
\* slidein inserts it after the li's content, visibly only if the li is
\* still in the list.
GetItemOk(m) ==
    /\ m \in net /\ m.kind = "getOk" /\ m.target \in Ids
    /\ net' = net \ {m}
    /\ overlay' = IF m.target \in lis THEN overlay \cup {m.target} ELSE overlay
    /\ UNCHANGED <<lis, isOpen, isNew, content, dialog, sent>>

\* doOpenNew's success handler (419-436): a new li, marked "new isOpen",
\* prepended to the list with an empty content and the form slid in.
GetNewOk(m) ==
    /\ m \in net /\ m.kind = "getOk" /\ m.target = "new"
    /\ \E n \in NewIds \ isNew :
          /\ lis' = lis \cup {n}
          /\ isOpen' = isOpen \cup {n}
          /\ isNew' = isNew \cup {n}
          /\ overlay' = overlay \cup {n}
    /\ net' = net \ {m}
    /\ UNCHANGED <<content, dialog, sent>>

\* A GET of a form fails: ajaxError (133-148) notifies; the mark
\* set by open stays.
GetError(m) ==
    /\ m \in net /\ m.kind = "getError"
    /\ net' = net \ {m}
    /\ UNCHANGED <<lis, isOpen, isNew, content, overlay, dialog, sent>>

CloseKeepLi(li) ==
    /\ li \in overlay /\ dialog = "none"
    /\ overlay' = overlay \ {li}
    /\ isOpen' = isOpen \ {li}
    /\ UNCHANGED <<lis, isNew, content, dialog, net, sent>>

\* overlay.close (344-356) on the close button of li's form: slide out,
\* removing the li if its content is empty (a new item never saved), and
\* unmark it.
Close(li) ==
    /\ li \in overlay /\ dialog = "none"
    /\ overlay' = overlay \ {li}
    /\ lis' = IF content[li] = "empty" THEN lis \ {li} ELSE lis
    /\ isOpen' = isOpen \ {li}
    /\ UNCHANGED <<isNew, content, dialog, net, sent>>

\* overlay.submit (482-488, 566-585): disable the submit button and POST.
Submit(li) ==
    /\ li \in overlay /\ dialog = "none"
    /\ ~\E m \in net : m.target = li /\ m.kind = "post"
    /\ Send("post", li)
    /\ UNCHANGED <<lis, isOpen, isNew, content, overlay, dialog>>

\* successHandler on a saved form (529-564): the item's content is
\* replaced and overlay.close runs on the form (content not empty: the li
\* stays).  A form that was slid out meanwhile is detached from its li:
\* form.closest('li') is empty and nothing visible changes.
PostSaved(m) ==
    /\ m \in net /\ m.kind = "saved"
    /\ net' = net \ {m}
    /\ IF m.target \in overlay
          THEN /\ content' = [content EXCEPT ![m.target] = "item"]
               /\ overlay' = overlay \ {m.target}
               /\ isOpen' = isOpen \ {m.target}
          ELSE UNCHANGED <<content, overlay, isOpen>>
    /\ UNCHANGED <<lis, isNew, dialog, sent>>

\* successHandler on a form with errors (504-528): the form is replaced
\* by the one with errors; or removeSpinnerajaxError (457-466) re-enables
\* the submit button.
PostRejected(m) ==
    /\ m \in net /\ m.kind \in {"invalid", "postError"}
    /\ net' = net \ {m}
    /\ UNCHANGED <<lis, isOpen, isNew, content, overlay, dialog, sent>>

\* deleteItem (587-612) on the delete button of li's form, without a
\* reason: the confirmation dialog is modal, and its Ok GETs the delete
\* view (Cancel changes nothing).  With a reason (628-654) only a message
\* is shown.
DeleteItem(li) ==
    /\ li \in overlay /\ dialog = "none"
    /\ Send("delete", li)
    /\ UNCHANGED <<lis, isOpen, isNew, content, overlay, dialog>>

\* The delete view answers: the getJSON callback (600-610) calls closeNew
\* (442-453) on the delete button: the form slides out and its li is
\* removed, keeping its class isOpen.  A form slid out meanwhile is
\* detached: closest('li') is empty and nothing changes.  The getJSON has
\* no error handler: a failed delete changes nothing.
DeleteDone(m) ==
    /\ m \in net /\ m.kind \in {"deleted", "deleteError"}
    /\ net' = net \ {m}
    /\ IF m.kind = "deleted" /\ m.target \in overlay
          THEN /\ overlay' = overlay \ {m.target}
               /\ lis' = lis \ {m.target}
          ELSE UNCHANGED <<overlay, lis>>
    /\ UNCHANGED <<isOpen, isNew, content, dialog, sent>>

\* The views answer a GET with the form or fail it, and a POST with a
\* saved form, a form with errors, or fail it, and a delete with its JSON
\* or fail it.
Serve(m) ==
    /\ m \in net /\ m.kind \in {"get", "post", "delete"}
    /\ \E k \in CASE m.kind = "get" -> {"getOk", "getError"}
                 [] m.kind = "post" -> {"saved", "invalid", "postError"}
                 [] m.kind = "delete" -> {"deleted", "deleteError"} :
          net' = (net \ {m}) \cup {[m EXCEPT !.kind = k]}
    /\ UNCHANGED <<lis, isOpen, isNew, content, overlay, dialog, sent>>

Next ==
    \/ \E li \in Ids : Open(li) \/ Close(li) \/ Submit(li) \/ DeleteItem(li)
    \/ OpenNew \/ DiscardOpen \/ DiscardNew \/ CloseDialog
    \/ \E m \in net : \/ GetItemOk(m) \/ GetNewOk(m) \/ GetError(m)
                      \/ PostSaved(m) \/ PostRejected(m) \/ DeleteDone(m)
                      \/ Serve(m)

Spec == Init /\ [][Next]_vars

(* A user who waits for every form and every save to come back before the *)
(* next click: at most one request or answer is in flight.  The forms'   *)
(* protocol is meant for this user; a user who clicks on meanwhile breaks *)
(* it (a late form slides in on an unmarked li).                          *)
SerialUser == \A m1, m2 \in net : m1 = m2

SerialSpec == Init /\ [][Next /\ SerialUser']_vars

-----------------------------------------------------------------------------
(* Properties *)

\* Type correctness of every variable.
TypeOK ==
    /\ lis \subseteq Ids /\ isOpen \subseteq Ids /\ isNew \subseteq NewIds
    /\ content \in [Ids -> {"empty", "item"}]
    /\ overlay \subseteq lis
    /\ dialog \in Targets \cup {"none"}
    /\ net \subseteq Messages
    /\ sent \in 0..MaxRequests

(* The protocol of overlay.open and openNew (the "Another form is        *)
(* currently open" dialog): at most one form is open at a time.           *)
OneOpenForm ==
    Cardinality(Marked) <= 1

FormOnMarkedItem ==
    overlay \subseteq isOpen

(* No list item is blank: every li shows its item or a form.              *)
NoBlankItem ==
    \A li \in lis : content[li] = "item" \/ li \in overlay
=============================================================================
