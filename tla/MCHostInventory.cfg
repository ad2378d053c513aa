\* Four devices, any of which may be missing at first; one comes or goes during the call.
\* The call ends: CHECK_DEADLOCK FALSE.
SPECIFICATION FairSpec
CONSTANTS
    outer = outer
    inner = inner
    smbus = smbus
    gpu = gpu
    Devices = {outer, inner, smbus, gpu}
    Bridges = {outer, inner}
    Sensitive = {smbus}
    Gpus = {gpu}
    Groups = {1, 2}
    NoGroup = 0
    Topologies <- MCTopologies
    Groupings <- MCGroupings
    MaxChanges = 1
CHECK_DEADLOCK FALSE
INVARIANTS VerdictHolds OfferedIsSafe
PROPERTY CallEnds
