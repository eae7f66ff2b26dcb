\* A user who waits for every answer: opening, creating, discarding,
\* closing, saving and deleting forms in every order, with failures, two
\* items and two new ones, up to six requests (SerialSpec).  Runs end when the
\* requests are used.
CONSTANTS
    i1 = i1
    i2 = i2
    n1 = n1
    n2 = n2
    Items <- MCItems
    NewIds <- MCNewIds
    MaxRequests = 6
SPECIFICATION SerialSpec
INVARIANTS
    OneOpenForm
    FormOnMarkedItem
    NoBlankItem
CHECK_DEADLOCK FALSE
