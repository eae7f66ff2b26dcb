\* Safety of the poller with a task that may also report a custom state.
CONSTANTS
    c1 = c1
    CustomStates <- MCCustomStates
    MaxProgress = 2
    MaxRetries = 1
SPECIFICATION Spec
CONSTRAINT TimerBound
INVARIANTS
    TypeOK
    SingleFlight
    NoLeakAfterSettle
    ResolvedOnlyOnSuccess
PROPERTIES
    AbstractSpec
CHECK_DEADLOCK FALSE
