\* A start that fails over a container that runs takes the running one's mount.
\* The container may stay down once its starts are used up: CHECK_DEADLOCK FALSE.
SPECIFICATION Spec
CONSTANTS
    D = 1
    Modes = {FALSE}
    MaxRuns = 2
    MaxAnyRuns = 2
    MaxCrashes = 1
CHECK_DEADLOCK FALSE
PROPERTY UndoesOwnOnly
