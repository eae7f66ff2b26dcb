\* An error page in answer to the start POST leaves the spinner running.
CONSTANTS
    CustomStates <- NoCustomStates
    FailCauses <- HttpCauses
    MaxProgress = 0
    MaxRetries = 0
SPECIFICATION Spec
INVARIANTS
    NoStuckSpinner
CHECK_DEADLOCK FALSE
