------------------------- MODULE OverlayFormsProofs -------------------------
(***************************************************************************)
(* Proofs about the overlay forms (OverlayForms) for every set of items   *)
(* and new ids and every bound on the requests, for the user of           *)
(* SerialSpec, who waits for every answer before the next click.         *)
(***************************************************************************)
EXTENDS OverlayForms, FiniteSetTheorems, TLAPS

(* The strengthening.                                                     *)
(*   - at most one li in the list is marked (OneOpenForm without          *)
(*     Cardinality);                                                       *)
(*   - the list and the marks hold the page's items and the new li        *)
(*     elements made so far, and only a new one can be empty;             *)
(*   - the li of an open dialog is in the list and not marked;            *)
(*   - the li whose form is being fetched is marked, in the list, and has *)
(*     no form yet;                                                        *)
(*   - while the form of a new li is fetched, no li in the list is marked. *)
OneMarked == \A a, b \in Marked : a = b

Created ==
    /\ lis \subseteq Items \cup isNew
    /\ isOpen \subseteq Items \cup isNew
    /\ \A i \in Items : content[i] = "item"

DialogItem ==
    dialog \in Ids => dialog \in lis \ isOpen

FormFetched ==
    \A m \in net : m.kind \in {"get", "getOk"} =>
        IF m.target = "new" THEN Marked = {}
                            ELSE m.target \in Marked \ overlay

\* Every request and answer in flight was sent before the present count.
SeqBelow == \A m \in net : m.seq < sent

IInv ==
    /\ TypeOK
    /\ SeqBelow
    /\ SerialUser
    /\ OneMarked
    /\ FormOnMarkedItem
    /\ NoBlankItem
    /\ Created
    /\ DialogItem
    /\ FormFetched

-----------------------------------------------------------------------------
USE OverlayAssumption

\* A request the serial user sends is the only message in flight.
LEMMA SendAlone ==
    ASSUME TypeOK, SeqBelow, SerialUser', NEW k, NEW t, Send(k, t)
    PROVE  /\ net = {}
           /\ net' = {[kind |-> k, target |-> t, seq |-> sent]}
  <1>1. [kind |-> k, target |-> t, seq |-> sent] \in net'
    BY DEF Send
  <1>2. \A m \in net : m # [kind |-> k, target |-> t, seq |-> sent]
    BY DEF SeqBelow, TypeOK, Messages
  <1>3. net = {}
    BY <1>1, <1>2 DEF Send, SerialUser
  <1>4. QED
    BY <1>3 DEF Send

\* What Send leaves behind when its kind and target fit the message set.
LEMMA SendType ==
    ASSUME TypeOK, SeqBelow, NEW k, NEW t, Send(k, t),
           \/ k = "get" /\ t \in Targets
           \/ k \in {"post", "delete"} /\ t \in Ids
    PROVE  net' \subseteq Messages /\ sent' \in 0..MaxRequests /\ SeqBelow'
  BY DEF Send, TypeOK, SeqBelow, Messages

\* OneMarked is OneOpenForm.
LEMMA OneMarkedCard ==
    ASSUME OneMarked
    PROVE  OneOpenForm
  <1>1. CASE Marked = {}
    BY <1>1, FS_EmptySet DEF OneOpenForm
  <1>2. CASE Marked # {}
    <2>1. PICK a \in Marked : TRUE
      BY <1>2
    <2>2. Marked = {a}
      BY DEF OneMarked
    <2>3. Cardinality({a}) = 1
      BY FS_Singleton
    <2>4. QED
      BY <2>2, <2>3 DEF OneOpenForm
  <1>3. QED
    BY <1>1, <1>2

LEMMA InitIInv == Init => IInv
  <1> SUFFICES ASSUME Init PROVE IInv
    OBVIOUS
  <1>1. content \in [Ids -> {"empty", "item"}] /\ \A i \in Items : content[i] = "item"
    BY DEF Init, Ids
  <1>2. TypeOK
    BY <1>1 DEF Init, TypeOK, Ids, Targets
  <1>3. NoBlankItem /\ Created
    BY <1>1 DEF Init, NoBlankItem, Created
  <1>4. DialogItem
    BY DEF Init, DialogItem, Ids
  <1>5. SeqBelow /\ SerialUser /\ OneMarked /\ FormOnMarkedItem /\ FormFetched
    BY DEF Init, SeqBelow, SerialUser, OneMarked, FormOnMarkedItem, FormFetched,
           Marked
  <1>6. QED
    BY <1>2, <1>3, <1>4, <1>5 DEF IInv

LEMMA StepIInv == IInv /\ [Next /\ SerialUser']_vars => IInv'
<1> SUFFICES ASSUME IInv, Next, SerialUser' PROVE IInv'
  <2>1. IInv /\ UNCHANGED vars => IInv'
    BY DEF IInv, vars, TypeOK, SeqBelow, SerialUser, OneMarked, FormOnMarkedItem,
           NoBlankItem, Created, DialogItem, FormFetched, Marked
  <2>2. QED
    BY <2>1
<1> USE DEF IInv, TypeOK, SeqBelow, SerialUser, OneMarked, FormOnMarkedItem,
            NoBlankItem, Created, DialogItem, FormFetched, Ids, Targets, Marked
<1>1. ASSUME NEW li \in Ids, Open(li) PROVE IInv'
  <2>1. CASE Marked # {}
    <3>1. dialog' = li /\ UNCHANGED <<lis, isOpen, isNew, content, overlay, net, sent>>
      BY <1>1, <2>1 DEF Open
    <3>2. dialog = "none" /\ li \in lis \ isOpen
      BY <1>1 DEF Open
    <3>3. QED
      BY <3>1, <3>2
  <2>2. CASE Marked = {}
    <3>1. Send("get", li)
      BY <1>1, <2>2 DEF Open
    <3>2. net = {} /\ net' = {[kind |-> "get", target |-> li, seq |-> sent]}
      BY <3>1, SendAlone
    <3>3. net' \subseteq Messages /\ sent' \in 0..MaxRequests /\ SeqBelow'
      BY <3>1, SendType
    <3>4. isOpen' = isOpen \cup {li} /\ lis' = lis /\ li \in lis \ overlay
      BY <1>1, <2>2 DEF Open
    <3>5. Marked' = {li}
      BY <2>2, <3>4
    <3>6. QED
      BY <1>1, <3>1, <3>2, <3>3, <3>4, <3>5 DEF Open
  <2>3. QED
    BY <2>1, <2>2
<1>2. ASSUME NEW li \in Ids, Close(li) PROVE IInv'
  BY <1>2 DEF Close
<1>3. ASSUME NEW li \in Ids, DeleteItem(li) PROVE IInv'
  <2>1. net = {} /\ net' = {[kind |-> "delete", target |-> li, seq |-> sent]}
    BY <1>3, SendAlone DEF DeleteItem
  <2>2. net' \subseteq Messages /\ sent' \in 0..MaxRequests /\ SeqBelow'
    BY <1>3, SendType DEF DeleteItem
  <2>3. QED
    BY <1>3, <2>1, <2>2 DEF DeleteItem
<1>4. ASSUME NEW li \in Ids, Submit(li) PROVE IInv'
  <2>1. net = {} /\ net' = {[kind |-> "post", target |-> li, seq |-> sent]}
    BY <1>4, SendAlone DEF Submit
  <2>2. net' \subseteq Messages /\ sent' \in 0..MaxRequests /\ SeqBelow'
    BY <1>4, SendType DEF Submit
  <2>3. QED
    BY <1>4, <2>1, <2>2 DEF Submit
<1>5. ASSUME OpenNew PROVE IInv'
  <2>1. CASE Marked # {}
    BY <1>5, <2>1 DEF OpenNew
  <2>2. CASE Marked = {}
    <3>1. Send("get", "new")
      BY <1>5, <2>2 DEF OpenNew
    <3>2. net = {} /\ net' = {[kind |-> "get", target |-> "new", seq |-> sent]}
      BY <3>1, SendAlone
    <3>3. net' \subseteq Messages /\ sent' \in 0..MaxRequests /\ SeqBelow'
      BY <3>1, SendType
    <3>4. QED
      BY <1>5, <2>2, <3>1, <3>2, <3>3 DEF OpenNew
  <2>3. QED
    BY <2>1, <2>2
<1>6. ASSUME DiscardOpen PROVE IInv'
  <2>1. PICK marks \in SUBSET Ids :
          /\ DiscardMarked(content[dialog] = "empty", marks)
          /\ isOpen' = marks \cup {dialog}
    BY <1>6 DEF DiscardOpen
  <2>2. PICK first \in FirstOf(Marked) :
          LET hasNew == Marked \cap isNew # {}
              gone == IF hasNew \/ content[dialog] = "empty" THEN {first} ELSE {}
          IN  /\ overlay' = overlay \ Marked
              /\ lis' = lis \ gone
              /\ marks = IF hasNew THEN isOpen ELSE isOpen \ Marked
    BY <2>1 DEF DiscardMarked
  <2>3. dialog \in lis \ isOpen /\ content[dialog] = "item"
    BY <1>6 DEF DiscardOpen
  <2>4. Send("get", dialog)
    BY <1>6 DEF DiscardOpen
  <2>5. net = {} /\ net' = {[kind |-> "get", target |-> dialog, seq |-> sent]}
    BY <2>4, SendAlone
  <2>6. net' \subseteq Messages /\ sent' \in 0..MaxRequests /\ SeqBelow'
    BY <1>6, <2>4, SendType DEF DiscardOpen
  <2>7. Marked = {} \/ Marked = {first}
    BY DEF FirstOf
  <2>8. /\ lis' = lis \ (IF Marked \cap isNew # {} THEN {first} ELSE {})
        /\ overlay' = {}
        /\ Marked' = {dialog}
    BY <2>1, <2>2, <2>3, <2>7
  <2>9. NoBlankItem'
    <3>1. SUFFICES ASSUME NEW x \in lis', content'[x] = "empty" PROVE FALSE
      BY <1>6, <2>8 DEF DiscardOpen
    <3>2. x \in lis /\ content[x] = "empty"
      BY <1>6, <2>8, <3>1 DEF DiscardOpen
    <3>3. x \in Marked /\ x \in isNew
      BY <3>2
    <3>4. x = first /\ Marked \cap isNew # {}
      BY <2>7, <3>3
    <3>5. QED
      BY <2>8, <3>1, <3>4
  <2>10. TypeOK' /\ Created' /\ FormOnMarkedItem' /\ OneMarked'
    <3>1. marks \subseteq isOpen
      BY <2>2
    <3>2. QED
      BY <1>6, <2>1, <2>3, <2>6, <2>8, <3>1 DEF DiscardOpen
  <2>11. DialogItem' /\ SerialUser' /\ FormFetched'
    BY <1>6, <2>3, <2>5, <2>8 DEF DiscardOpen
  <2>12. QED
    BY <2>6, <2>9, <2>10, <2>11
<1>7. ASSUME DiscardNew PROVE IInv'
  <2>1. PICK marks \in SUBSET Ids :
          /\ DiscardMarked(FALSE, marks)
          /\ isOpen' = marks
    BY <1>7 DEF DiscardNew
  <2>2. PICK first \in FirstOf(Marked) :
          LET hasNew == Marked \cap isNew # {}
              gone == IF hasNew \/ FALSE THEN {first} ELSE {}
          IN  /\ overlay' = overlay \ Marked
              /\ lis' = lis \ gone
              /\ marks = IF hasNew THEN isOpen ELSE isOpen \ Marked
    BY <2>1 DEF DiscardMarked
  <2>3. Send("get", "new")
    BY <1>7 DEF DiscardNew
  <2>4. net = {} /\ net' = {[kind |-> "get", target |-> "new", seq |-> sent]}
    BY <2>3, SendAlone
  <2>5. net' \subseteq Messages /\ sent' \in 0..MaxRequests /\ SeqBelow'
    BY <2>3, SendType
  <2>6. Marked = {} \/ Marked = {first}
    BY DEF FirstOf
  <2>7. /\ lis' = lis \ (IF Marked \cap isNew # {} THEN {first} ELSE {})
        /\ overlay' = {}
        /\ Marked' = {}
    BY <2>1, <2>2, <2>6
  <2>8. NoBlankItem'
    <3>1. SUFFICES ASSUME NEW x \in lis', content'[x] = "empty" PROVE FALSE
      BY <1>7, <2>7 DEF DiscardNew
    <3>2. x \in lis /\ content[x] = "empty"
      BY <1>7, <2>7, <3>1 DEF DiscardNew
    <3>3. x \in Marked /\ x \in isNew
      BY <3>2
    <3>4. x = first /\ Marked \cap isNew # {}
      BY <2>6, <3>3
    <3>5. QED
      BY <2>7, <3>1, <3>4
  <2>9. TypeOK' /\ Created' /\ DialogItem' /\ FormOnMarkedItem' /\ OneMarked'
    <3>1. marks \subseteq isOpen
      BY <2>2
    <3>2. QED
      BY <1>7, <2>1, <2>5, <2>7, <3>1 DEF DiscardNew
  <2>10. SeqBelow' /\ SerialUser' /\ FormFetched'
    BY <2>4, <2>5, <2>7
  <2>11. QED
    BY <2>8, <2>9, <2>10
<1>8. ASSUME CloseDialog PROVE IInv'
  BY <1>8 DEF CloseDialog
<1>9. ASSUME NEW m \in net, GetItemOk(m) PROVE IInv'
  <2>1. net = {m} /\ net' = {}
    BY <1>9 DEF GetItemOk
  <2>2. m.target \in isOpen \ overlay
    BY <1>9 DEF GetItemOk
  <2>3. QED
    BY <1>9, <2>1, <2>2 DEF GetItemOk
<1>10. ASSUME NEW m \in net, GetNewOk(m) PROVE IInv'
  <2>1. PICK n \in NewIds \ isNew :
          /\ lis' = lis \cup {n}
          /\ isOpen' = isOpen \cup {n}
          /\ isNew' = isNew \cup {n}
          /\ overlay' = overlay \cup {n}
    BY <1>10 DEF GetNewOk
  <2>2. net = {m} /\ net' = {} /\ Marked = {}
    BY <1>10 DEF GetNewOk
  <2>3. n \notin lis /\ n \notin isOpen /\ n \notin Items /\ dialog # n
    BY <2>1
  <2>4. Marked' = {n}
    BY <2>1, <2>2, <2>3
  <2>5. QED
    BY <1>10, <2>1, <2>2, <2>3, <2>4 DEF GetNewOk
<1>11. ASSUME NEW m \in net, GetError(m) PROVE IInv'
  <2>1. net = {m} /\ net' = {}
    BY <1>11 DEF GetError
  <2>2. QED
    BY <1>11, <2>1 DEF GetError
<1>12. ASSUME NEW m \in net, PostSaved(m) PROVE IInv'
  <2>1. net = {m} /\ net' = {} /\ m.target \in Ids
    BY <1>12 DEF PostSaved, Messages
  <2>2. QED
    BY <1>12, <2>1 DEF PostSaved
<1>13. ASSUME NEW m \in net, PostRejected(m) PROVE IInv'
  <2>1. net = {m} /\ net' = {}
    BY <1>13 DEF PostRejected
  <2>2. QED
    BY <1>13, <2>1 DEF PostRejected
<1>14. ASSUME NEW m \in net, DeleteDone(m) PROVE IInv'
  <2>1. net = {m} /\ net' = {}
    BY <1>14 DEF DeleteDone
  <2>2. QED
    BY <1>14, <2>1 DEF DeleteDone
<1>15. ASSUME NEW m \in net, Serve(m) PROVE IInv'
  <2> DEFINE Answers == CASE m.kind = "get" -> {"getOk", "getError"}
                          [] m.kind = "post" -> {"saved", "invalid", "postError"}
                          [] m.kind = "delete" -> {"deleted", "deleteError"}
  <2>1. PICK k \in Answers : net' = (net \ {m}) \cup {[m EXCEPT !.kind = k]}
    BY <1>15 DEF Serve
  <2>2. net = {m} /\ net' = {[m EXCEPT !.kind = k]}
    BY <1>15, <2>1
  <2>3. [m EXCEPT !.kind = k] \in Messages
    BY <1>15, <2>1 DEF Serve, Messages
  <2>4. m.kind \in {"get", "post", "delete"}
        /\ UNCHANGED <<lis, isOpen, isNew, content, overlay, dialog, sent>>
    BY <1>15 DEF Serve
  <2>5. [m EXCEPT !.kind = k].kind \in {"get", "getOk"} => m.kind = "get"
    BY <2>1, <2>4 DEF Messages
  <2>6. [m EXCEPT !.kind = k].target = m.target /\ [m EXCEPT !.kind = k].seq = m.seq
    BY DEF Messages
  <2>7. FormFetched'
    BY <2>2, <2>4, <2>5, <2>6
  <2>8. QED
    BY <2>2, <2>3, <2>4, <2>6, <2>7
<1>16. QED
  BY <1>1, <1>2, <1>3, <1>4, <1>5, <1>6, <1>7, <1>8, <1>9, <1>10, <1>11, <1>12,
     <1>13, <1>14, <1>15 DEF Next
(* For the serial user, the inductive invariant holds in every state. *)
THEOREM Invariance == SerialSpec => []IInv
  BY InitIInv, StepIInv, PTL DEF SerialSpec

(* Every variable keeps its type: in particular an li with a form is     *)
(* always in the list.                                                    *)
THEOREM TypeCorrect == SerialSpec => []TypeOK
  BY Invariance, PTL DEF IInv

(* The "Another form is currently open" dialog of overlay.open and        *)
(* openNew (website.js 260-415) keeps at most one form open at a time,    *)
(* through discards, failed GETs, closes and saves.                       *)
THEOREM OneOpenFormHolds == SerialSpec => []OneOpenForm
  <1>1. IInv => OneOpenForm
    BY OneMarkedCard DEF IInv
  <1>2. QED
    BY Invariance, <1>1, PTL

(* A form is slid in only on the li marked isOpen (slidein in open's and  *)
(* doOpenNew's success handlers, 297-298, 324-325, 419-436).            *)
THEOREM FormOnMarkedItemHolds == SerialSpec => []FormOnMarkedItem
  BY Invariance, PTL DEF IInv

(* No li is left blank: the discards (283-296, 376-392) and close        *)
(* (344-356) remove the new li whose form they slide out.                 *)
THEOREM NoBlankItemHolds == SerialSpec => []NoBlankItem
  BY Invariance, PTL DEF IInv
=============================================================================
