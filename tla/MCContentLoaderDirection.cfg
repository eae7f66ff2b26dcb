\* An element with no data-orderby and no data-direction, sorted and
\* then reloaded.
CONSTANTS
    colA = colA
    colB = colB
    t1 = t1
    f1 = f1
    Columns <- MCColumns
    InitialOrder = "none"
    InitialDir = "none"
    Terms <- MCTerms
    Filters <- MCFilters
    NPages = 2
    SearchBlock = FALSE
    MaxRequests = 3
SPECIFICATION Spec
INVARIANT
    DirectionSent
CHECK_DEADLOCK FALSE
