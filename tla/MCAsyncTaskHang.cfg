\* A task that reports a custom state leaves the Deferred pending forever.
CONSTANTS
    c1 = c1
    CustomStates <- MCCustomStates
    MaxProgress = 1
    MaxRetries = 0
SPECIFICATION Spec
INVARIANTS
    NoSilentHang
CHECK_DEADLOCK FALSE
