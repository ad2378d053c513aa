\* A StartedDomain that is closed, rolled back or finalized has no step left.
SPECIFICATION FairSpec
CONSTANT N = 8
CHECK_DEADLOCK FALSE
INVARIANTS TypeOK UndoneOnce AllOrNothing
PROPERTIES ImplementsBracket EndsEmpty
