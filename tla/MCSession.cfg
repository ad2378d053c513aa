\* Two capabilities, one of which stands for CAP_SETUID and CAP_SETGID, under every policy
\* and override; one namespace besides the user namespace, a restart of the container,
\* one chunk typed. At the end everything stops: CHECK_DEADLOCK FALSE.
SPECIFICATION FairSpec
CONSTANTS
    setid = setid
    mknod = mknod
    mnt = mnt
    User = User
    Caps = {setid, mknod}
    PolicyDrops = {mknod}
    SetIds = {setid}
    Spaces = {mnt}
    PidReuse = FALSE
    MaxInstances = 2
    InRoom = 1
    OutRoom = 1
    MaxTyped = 1
CHECK_DEADLOCK FALSE
INVARIANTS TypeOK Restricted SameInstance MirrorsStatus
PROPERTIES EndsWithProgram
