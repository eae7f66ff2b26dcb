\* The dashboard refresh loop against every failure and every built-in task
\* state.  A custom state takes the same path as FAILURE (taskStatusDone,
\* website.js 1246-1262), and a task may loop through one without end, so
\* it is left out here.
CONSTANTS
    CustomStates <- NoCustomStates
    FailCauses <- AllCauses
    MaxProgress = 1
    MaxRetries = 1
SPECIFICATION Spec
CONSTRAINT TimerBound
INVARIANTS
    TypeOK
    ExactlyOneChain
PROPERTIES
    RefreshForever
    LoopSpec
