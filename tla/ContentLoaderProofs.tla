------------------------- MODULE ContentLoaderProofs -------------------------
(***************************************************************************)
(* Proofs about ui.loadContent (ContentLoader) for every set of columns,  *)
(* terms, filters and pages and every bound on the GETs.                  *)
(***************************************************************************)
EXTENDS ContentLoader, TLAPS

IInv == TypeOK /\ SortPersisted

USE ContentLoaderAssumption

\* The GET that load sends is a message of the model.
LEMMA GetIsMessage ==
    ASSUME NEW s \in 0..MaxRequests, NEW o \in Columns \cup {"none"},
           NEW d \in Dirs \ {"none"}, NEW x \in Filters \cup {"none"},
           NEW p \in Pages \cup {0}, NEW q \in Terms
    PROVE  [kind |-> "get", seq |-> s,
            req |-> [o |-> o, ot |-> d, extra |-> x, page |-> p, q |-> q]]
           \in Messages
  BY DEF Messages, Request

\* The direction load sends: options.direction || 'asc'.
LEMMA SentDirection ==
    ASSUME NEW d \in Dirs
    PROVE  (IF d = "none" THEN "asc" ELSE d) \in Dirs \ {"none"}
  BY DEF Dirs

\* What load (434-487) leaves behind, given data and a search of the right
\* types: the new message is one of the model's and the count in range.
LEMMA LoadType ==
    ASSUME TypeOK, NEW o \in Columns \cup {"none"}, NEW d \in Dirs,
           NEW x \in Filters \cup {"none"}, NEW p \in Pages \cup {0},
           NEW q \in Terms, Load(o, d, x, p, q)
    PROVE  /\ net' \subseteq Messages
           /\ sent' \in 0..MaxRequests
           /\ hash' \in Pages \cup {0}
           /\ content' = "spinner"
  <1>1. hash' \in Pages \cup {0}
    BY DEF Load, TypeOK
  <1>2. (IF hash' # 0 THEN hash' ELSE p) \in Pages \cup {0}
    BY <1>1
  <1>3. sent \in 0..MaxRequests /\ sent < MaxRequests
    BY DEF Load, TypeOK
  <1>4. [kind |-> "get", seq |-> sent,
         req |-> [o |-> o, ot |-> IF d = "none" THEN "asc" ELSE d, extra |-> x,
                  page |-> IF hash' # 0 THEN hash' ELSE p, q |-> q]]
        \in Messages
    BY <1>2, <1>3, SentDirection, GetIsMessage
  <1>5. net' \subseteq Messages
    BY <1>4 DEF Load, TypeOK
  <1>6. sent' \in 0..MaxRequests
    <2>1. sent' = sent + 1
      BY DEF Load
    <2>2. QED
      BY <1>3, <2>1
  <1>7. QED
    BY <1>1, <1>5, <1>6 DEF Load

\* loadOptions (368-382) gives data of the right types.
LEMMA LoadOptionsType ==
    ASSUME NEW o \in Columns \cup {"none"}, NEW d \in Dirs,
           NEW x \in Filters \cup {"none"},
           lsOrder' \in Columns \cup {"null"},
           lsDir' \in {"null", "asc", "desc", "undefined"},
           lsExtra' \in Filters \cup {"null"},
           LoadOptions(o, d, x)
    PROVE  /\ orderby' \in Columns \cup {"none"}
           /\ direction' \in Dirs
           /\ extra' \in Filters \cup {"none"}
           /\ Truthy(lsOrder') => orderby' = lsOrder'
  BY DEF LoadOptions, Truthy, Dirs

LEMMA InitIInv == Init => IInv
  <1> SUFFICES ASSUME Init PROVE IInv
    OBVIOUS
  <1>1. (IF InitialDir = "none" THEN "asc" ELSE InitialDir) \in Dirs \ {"none"}
    BY SentDirection DEF Dirs
  <1>2. net \subseteq Messages
    <2>1. 0 \in 0..MaxRequests /\ InitialOrder \in Columns \cup {"none"}
          /\ "none" \in Filters \cup {"none"} /\ 0 \in Pages \cup {0} /\ EmptyQuery \in Terms
      OBVIOUS
    <2>2. [kind |-> "get", seq |-> 0,
           req |-> [o |-> InitialOrder,
                    ot |-> IF InitialDir = "none" THEN "asc" ELSE InitialDir,
                    extra |-> "none", page |-> 0, q |-> EmptyQuery]] \in Messages
      BY <1>1, <2>1, GetIsMessage
    <2>3. QED
      BY <2>2 DEF Init
  <1>3. shown \in Request
    BY DEF Init, Request, Dirs
  <1>4. sent \in 0..MaxRequests
    BY DEF Init
  <1>5. QED
    BY <1>2, <1>3, <1>4 DEF Init, IInv, TypeOK, SortPersisted, Truthy, Dirs

\* The direction a sort click sets (386-399) is one of the model's.
LEMMA ToggleType ==
    ASSUME TypeOK, NEW c
    PROVE  (IF c = orderby
               THEN IF direction \in {"asc", "none"} THEN "desc" ELSE "asc"
               ELSE direction) \in Dirs
  BY DEF TypeOK, Dirs

\* Stored(v) is what setItem leaves in localStorage for a direction.
LEMMA StoredType ==
    ASSUME NEW v \in Dirs
    PROVE  Stored(v) \in {"null", "asc", "desc", "undefined"}
  BY DEF Stored, Dirs

LEMMA StepIInv == IInv /\ [Next]_vars => IInv'
<1> SUFFICES ASSUME TypeOK, SortPersisted, [Next]_vars
             PROVE  TypeOK' /\ SortPersisted'
  BY DEF IInv
<1>1. ASSUME NEW c \in Columns, SortClick(c)
      PROVE  TypeOK' /\ SortPersisted'
  <2>1. direction' \in Dirs /\ lsDir' \in {"null", "asc", "desc", "undefined"}
    BY <1>1, ToggleType, StoredType DEF SortClick
  <2>2. shown.q \in Terms /\ url \in Pages \cup {0} /\ extra \in Filters \cup {"none"}
    BY DEF TypeOK, Request
  <2>3. net' \subseteq Messages /\ sent' \in 0..MaxRequests /\ hash' \in Pages \cup {0}
        /\ content' = "spinner"
    BY <1>1, <2>1, <2>2, LoadType DEF SortClick
  <2>4. QED
    BY <1>1, <2>1, <2>3 DEF SortClick, TypeOK, SortPersisted
<1>2. ASSUME NEW p \in Pages, PageClick(p)
      PROVE  TypeOK' /\ SortPersisted'
  <2>1. shown.q \in Terms /\ orderby \in Columns \cup {"none"} /\ direction \in Dirs
        /\ extra \in Filters \cup {"none"}
    BY DEF TypeOK, Request
  <2>2. net' \subseteq Messages /\ sent' \in 0..MaxRequests /\ hash' \in Pages \cup {0}
        /\ content' = "spinner"
    BY <1>2, <2>1, LoadType DEF PageClick
  <2>3. QED
    BY <1>2, <2>2 DEF PageClick, TypeOK, SortPersisted, storage
<1>3. ASSUME NEW q \in Terms, SearchChange(q)
      PROVE  TypeOK' /\ SortPersisted'
  <2>1. UNCHANGED <<lsOrder, lsDir, lsExtra, url, shown>>
    BY <1>3 DEF SearchChange, storage
  <2>2. /\ orderby' \in Columns \cup {"none"} /\ direction' \in Dirs
        /\ extra' \in Filters \cup {"none"} /\ (Truthy(lsOrder') => orderby' = lsOrder')
    BY <1>3, <2>1, LoadOptionsType DEF SearchChange, TypeOK
  <2>3. net' \subseteq Messages /\ sent' \in 0..MaxRequests /\ hash' \in Pages \cup {0}
        /\ content' = "spinner"
    BY <1>3, <2>1, <2>2, LoadType DEF SearchChange, TypeOK
  <2>4. QED
    BY <1>3, <2>1, <2>2, <2>3 DEF SearchChange, TypeOK, SortPersisted
<1>4. ASSUME NEW f \in Filters, FilterChange(f)
      PROVE  TypeOK' /\ SortPersisted'
  <2>1. UNCHANGED <<lsOrder, lsDir, url, search, shown>> /\ lsExtra' = f
    BY <1>4 DEF FilterChange
  <2>2. /\ orderby' \in Columns \cup {"none"} /\ direction' \in Dirs
        /\ extra' \in Filters \cup {"none"} /\ (Truthy(lsOrder') => orderby' = lsOrder')
    BY <1>4, <2>1, LoadOptionsType DEF FilterChange, TypeOK
  <2>3. net' \subseteq Messages /\ sent' \in 0..MaxRequests /\ hash' \in Pages \cup {0}
        /\ content' = "spinner"
    BY <1>4, <2>1, <2>2, LoadType DEF FilterChange, TypeOK
  <2>4. QED
    BY <1>4, <2>1, <2>2, <2>3 DEF FilterChange, TypeOK, SortPersisted
<1>5. ASSUME Reload
      PROVE  TypeOK' /\ SortPersisted'
  <2>1. UNCHANGED <<lsOrder, lsDir, lsExtra, shown>> /\ hash' = hash
    BY <1>5 DEF Reload, storage
  <2>2. /\ orderby' \in Columns \cup {"none"} /\ direction' \in Dirs
        /\ extra' \in Filters \cup {"none"} /\ (Truthy(lsOrder') => orderby' = lsOrder')
    BY <1>5, <2>1, LoadOptionsType DEF Reload, TypeOK, Dirs
  <2>3. sent \in 0..MaxRequests /\ sent < MaxRequests /\ sent' = sent + 1
    BY <1>5 DEF Reload, TypeOK
  <2>4. [kind |-> "get", seq |-> sent,
         req |-> [o |-> orderby',
                  ot |-> IF direction' = "none" THEN "asc" ELSE direction',
                  extra |-> extra', page |-> hash, q |-> EmptyQuery]] \in Messages
    BY <2>2, <2>3, SentDirection, GetIsMessage DEF TypeOK
  <2>5. net' \subseteq Messages /\ sent' \in 0..MaxRequests
    BY <1>5, <2>3, <2>4 DEF Reload
  <2>6. QED
    BY <1>5, <2>1, <2>2, <2>5 DEF Reload, TypeOK, SortPersisted
<1>6. ASSUME NEW m \in net, Serve(m)
      PROVE  TypeOK' /\ SortPersisted'
  <2>1. PICK k \in {"done", "fail"} \cup (IF SearchBlock THEN {"noData"} ELSE {}) :
            net' = (net \ {m}) \cup {[m EXCEPT !.kind = k]}
    BY <1>6 DEF Serve
  <2>2. [m EXCEPT !.kind = k] \in Messages
    BY <2>1 DEF TypeOK, Messages
  <2>3. QED
    BY <1>6, <2>1, <2>2 DEF Serve, TypeOK, SortPersisted, data, storage
<1>7. ASSUME NEW m \in net, LoadDone(m)
      PROVE  TypeOK' /\ SortPersisted'
  <2>1. m.req \in Request
    BY DEF TypeOK, Messages
  <2>2. QED
    BY <1>7, <2>1 DEF LoadDone, TypeOK, SortPersisted, data, storage
<1>8. ASSUME NEW m \in net, LoadFail(m)
      PROVE  TypeOK' /\ SortPersisted'
  BY <1>8 DEF LoadFail, TypeOK, SortPersisted, data, storage
<1>9. CASE UNCHANGED vars
  BY <1>9 DEF vars, TypeOK, SortPersisted
<1>10. QED
  BY <1>1, <1>2, <1>3, <1>4, <1>5, <1>6, <1>7, <1>8, <1>9 DEF Next

(* The inductive invariant holds in every reachable state. *)
THEOREM Invariance == Spec => []IInv
  BY InitIInv, StepIInv, PTL DEF Spec

(* Every variable of the element keeps its type, for every configuration  *)
(* of columns, searches, filters and pages.                               *)
THEOREM TypeCorrect == Spec => []TypeOK
  BY Invariance, PTL DEF IInv

(* Once a sort is stored in localStorage, the element's order is the      *)
(* stored one, whatever clicks, searches, filter changes and reloads come *)
(* after (saveOptions in the th handler, base.js 386-399, and loadOptions  *)
(* before every load, 368-382).                                           *)
THEOREM SortPersistedHolds == Spec => []SortPersisted
  BY Invariance, PTL DEF IInv
-----------------------------------------------------------------------------
(* The GETs sent. *)

\* What a step of the element sends: the GETs new in net' order by the
\* element's order after the step.
SentStep ==
    \A m \in net' \ net : m.kind = "get" /\ Truthy(lsOrder') => m.req.o = lsOrder'

LEMMA SentOrder ==
    ASSUME TypeOK, [Next]_vars
    PROVE  \A m \in net' \ net : m.kind = "get" => m.req.o = orderby'
<1>1. ASSUME NEW o, NEW d, NEW x, NEW p, NEW q, Load(o, d, x, p, q)
      PROVE  \A m \in net' \ net : m.req.o = o
  BY <1>1 DEF Load
<1>2. CASE \E c \in Columns : SortClick(c)
  BY <1>2, <1>1 DEF SortClick
<1>3. CASE \E p \in Pages : PageClick(p)
  BY <1>3, <1>1 DEF PageClick
<1>4. CASE \E q \in Terms : SearchChange(q)
  BY <1>4, <1>1 DEF SearchChange
<1>5. CASE \E f \in Filters : FilterChange(f)
  BY <1>5, <1>1 DEF FilterChange
<1>6. CASE Reload
  BY <1>6 DEF Reload
<1>7. CASE \E m \in net : Serve(m)
  <2>1. PICK m \in net : Serve(m)
    BY <1>7
  <2>2. PICK k \in {"done", "fail"} \cup (IF SearchBlock THEN {"noData"} ELSE {}) :
            net' = (net \ {m}) \cup {[m EXCEPT !.kind = k]}
    BY <2>1 DEF Serve
  <2>3. [m EXCEPT !.kind = k].kind # "get"
    BY <2>2 DEF TypeOK, Messages
  <2>4. QED
    BY <2>2, <2>3
<1>8. CASE \E m \in net : LoadDone(m) \/ LoadFail(m)
  BY <1>8 DEF LoadDone, LoadFail
<1>9. CASE UNCHANGED vars
  BY <1>9 DEF vars
<1>10. QED
  BY <1>2, <1>3, <1>4, <1>5, <1>6, <1>7, <1>8, <1>9 DEF Next

LEMMA StepSortSent == IInv /\ IInv' /\ [Next]_vars => SentStep
  BY SentOrder DEF IInv, SortPersisted, SentStep

(* Once a sort is stored, every GET the element sends orders by the       *)
(* stored column: the th handler stores its column (386-399), the other   *)
(* callers load with loadOptions' order (368-382), and a reload with the  *)
(* stored one (542, 476-485).                                             *)
THEOREM SortSentHolds == Spec => SortSent
<1>1. [][IInv /\ IInv' /\ [Next]_vars => SentStep]_vars
  BY StepSortSent, PTL
<1>2. QED
  BY <1>1, Invariance, StepIInv, PTL DEF Spec, SortSent, SentStep
=============================================================================
