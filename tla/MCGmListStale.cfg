\* Two requests answered in the opposite order, no failures.
CONSTANTS
    colA = colA
    colB = colB
    t1 = t1
    Columns <- MCColumns
    InitialOrder <- colA
    Terms <- MCTerms
    NPages = 2
    Errors = FALSE
    MaxRequests = 3
SPECIFICATION Spec
INVARIANT
    ListShowsCurrent
