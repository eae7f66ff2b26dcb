\* A RECEIVED answer, missing from the wait list (website.js 1140-1141),
\* takes the else branch (1150): the spinner keeps running and the buttons
\* stay disabled.
CONSTANTS
    CustomStates <- NoCustomStates
    FailCauses <- ReportedCauses
    MaxProgress = 1
    MaxRetries = 0
SPECIFICATION Spec
INVARIANTS
    NoStuckSpinner
CHECK_DEADLOCK FALSE
