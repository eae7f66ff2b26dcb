\* Every interleaving of sort and page clicks, searches, filter changes,
\* reloads, answers and failures, up to four GETs, for an element with a
\* template order and no template direction.
CONSTANTS
    colA = colA
    colB = colB
    t1 = t1
    f1 = f1
    Columns <- MCColumns
    InitialOrder <- colA
    InitialDir = "none"
    Terms <- MCTerms
    Filters <- MCFilters
    NPages = 2
    SearchBlock = TRUE
    MaxRequests = 4
SPECIFICATION Spec
INVARIANTS
    TypeOK
    SortPersisted
PROPERTIES
    SpinnerReplaced
    SortSent
CHECK_DEADLOCK FALSE
