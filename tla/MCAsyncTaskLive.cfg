\* Termination of the poller when the task only enters the states it knows.
CONSTANTS
    c1 = c1
    CustomStates <- NoCustomStates
    MaxProgress = 2
    MaxRetries = 1
SPECIFICATION Spec
CONSTRAINT TimerBound
PROPERTIES
    Terminates
CHECK_DEADLOCK FALSE
