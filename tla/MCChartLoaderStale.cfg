\* One click on a container whose page-ready load is still running.
CONSTANTS
    pie = pie
    bar = bar
    frag = frag
    Containers <- MCContainers
    Kind <- MCKind
    MaxProgress = 2
    MaxLoads = 4
SPECIFICATION Spec
INVARIANT
    ShowsLatest
CHECK_DEADLOCK FALSE
