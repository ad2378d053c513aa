\* Two devices, three starts at rest or one at any time, two crashes.
\* The container may stay down once its starts are used up: CHECK_DEADLOCK FALSE.
SPECIFICATION FairSpec
CONSTANTS
    D = 2
    Modes = {TRUE, FALSE}
    MaxRuns = 3
    MaxAnyRuns = 1
    MaxCrashes = 2
CHECK_DEADLOCK FALSE
INVARIANTS TypeOK RunsOnItsOwn SourcesFollowStaging NoDescriptorLeft
PROPERTY CleanedUp
