-------------------------------- MODULE Entry --------------------------------
(***************************************************************************)
(* Entering a running container: nsexec._runner.run_in_container and       *)
(* nsexec._native.enter_and_exec, one action per system call that may      *)
(* fail.  The entering process joins the container's cgroup and namespaces *)
(* and restricts itself; its child, the program, is executed with what it  *)
(* inherits.  Meanwhile the container may stop and start again.            *)
(*                                                                         *)
(* libvirt kills whoever is in the cgroup of a container that stops; what  *)
(* the program started counts as the program's heirs.  The kernel gives a  *)
(* process that enters a user namespace every capability, wants SetIds of  *)
(* one that takes the IDs of its root, and a program that root executes    *)
(* with no_new_privs has what its permitted and bounding sets both have.   *)
(***************************************************************************)
EXTENDS Integers

CONSTANTS
    Caps,          \* the capabilities
    PolicyDrops,   \* the ones that DEFAULT_POLICY_DROPS names
    SetIds,        \* CAP_SETUID and CAP_SETGID
    Spaces,        \* the container's namespaces but the user namespace
    User,          \* its user namespace
    PidReuse,      \* another process may get the process ID of an init that is gone
    MaxInstances   \* bound: times the container was started

ASSUME SomeAreCaps == PolicyDrops \cup SetIds \subseteq Caps
ASSUME UserIsApart == User \notin Spaces
ASSUME MayReuse == PidReuse \in BOOLEAN
ASSUME InstancesNat == MaxInstances \in Nat \ {0}

VARIABLES
    policy, state, \* the policy and the overrides in the domain's XML
    idmap,         \* the container has an ID map
    instance,      \* libvirt: which start of the container runs, 0 for none
    starts,        \* libvirt: how often it was started
    entry,         \* where the entering process is
    init,          \* the instance whose init dom.ID() names, 0 for none
    cgroup,        \* the instance whose cgroup the process is in, or Outside
    target,        \* the instance whose namespaces were opened
    fds,           \* namespaces it has a descriptor of and is yet to enter
    bounding, permitted,  \* its capability sets
    program,       \* where the program is
    grants,        \* the capabilities the program was executed with
    heirs,         \* processes the program started are still there
    ended, status  \* how the program and how the entering process ended

config   == <<policy, state, idmap>>
libvirt  == <<instance, starts>>
place    == <<init, cgroup, target, fds>>
caps     == <<bounding, permitted>>
child    == <<program, grants, heirs, ended>>
entryVars == <<config, libvirt, entry, place, caps, child, status>>

Outside == 0

\* Wait statuses: the process exited with a code, or a signal killed it.
Exit(code)   == <<"exit", code>>
Signal(n) == <<"signal", n>>
Alive     == <<"alive", 0>>
Kill      == Signal(9)
Endings   == {"exit", "signal", "alive"} \X (0..255)

\* Mutant: the wait status is handed on as waitpid gives it.
Code_Raw(end) == IF end[1] = "signal" THEN end[2] ELSE 256 * end[2]

\* The exit status made of a wait status.
Code(end) == IF end[1] = "signal" THEN 128 + end[2] ELSE end[2]

On  == {c \in Caps : state[c] = "on"}
Off == {c \in Caps : state[c] = "off"}

Baseline == [default |-> PolicyDrops, allow |-> {}, deny |-> Caps]

\* Mutant: the overrides are only looked at for what they turn on.
DropNames_OnOnly == Baseline[policy] \ On

DropNames == (Baseline[policy] \ On) \cup Off

EntryTypeOK ==
    /\ policy \in DOMAIN Baseline /\ state \in [Caps -> {"on", "off", "unset"}]
    /\ idmap \in BOOLEAN
    /\ starts \in 1..MaxInstances /\ instance \in {0, starts}
    /\ entry \in {"unborn", "cgroup", "open", "resolve", "setns", "drop", "caps", "fork",
                  "wait", "failed", "exited"}
    /\ init \in 0..starts /\ cgroup \in 0..starts /\ target \in 0..starts
    /\ fds \subseteq Spaces \cup {User}
    /\ bounding \subseteq Caps /\ permitted \subseteq Caps
    /\ program \in {"unborn", "anchor", "terminal", "privs", "exec", "runs", "over"}
    /\ grants \subseteq Caps /\ heirs \in BOOLEAN
    /\ ended \in Endings /\ status \in Endings

EntryInit ==
    /\ policy \in DOMAIN Baseline /\ state \in [Caps -> {"on", "off", "unset"}]
    /\ idmap \in BOOLEAN
    /\ instance = 1 /\ starts = 1
    /\ entry = "unborn"
    /\ init = 0 /\ cgroup = 0 /\ target = 0 /\ fds = {}
    /\ bounding = Caps /\ permitted = Caps
    /\ program = "unborn" /\ grants = {} /\ heirs = FALSE
    /\ ended = Alive /\ status = Alive

-----------------------------------------------------------------------------
(* run_in_container *)

\* An exception of the entering process ends it; what it owned is closed.
Fails ==
    /\ entry' = "failed"
    /\ fds' = {}

\* Mutant: the path is made up, and the directory with it, when init is gone.
JoinsCgroup_Made ==
    /\ entry = "cgroup"
    /\ init # 0
    /\ cgroup' = init
    /\ entry' = "open"
    /\ UNCHANGED <<config, libvirt, init, target, fds, caps, child, status>>

\* /proc/<pid>/cgroup and its cgroup are there while that init is.
JoinsCgroup ==
    /\ entry = "cgroup"
    /\ init # 0 /\ init = instance
    /\ cgroup' = init
    /\ entry' = "open"
    /\ UNCHANGED <<config, libvirt, init, target, fds, caps, child, status>>

\* Or while the process is that has the ID now.
JoinsAnother ==
    /\ entry = "cgroup"
    /\ PidReuse
    /\ init # 0 /\ init # instance
    /\ cgroup' = Outside
    /\ entry' = "open"
    /\ UNCHANGED <<config, libvirt, init, target, fds, caps, child, status>>

\* ID -1, a path that is gone, a write that fails.
CgroupIsGone ==
    /\ entry = "cgroup"
    /\ Fails
    /\ UNCHANGED <<config, libvirt, init, cgroup, target, caps, child, status>>

\* libvirt may return a descriptor of the user namespace of a container without an ID
\* map, too; it is closed unused.
OpensNamespaces ==
    /\ entry = "open"
    /\ instance # 0
    /\ target' = instance
    /\ fds' = Spaces \cup (IF idmap THEN {User} ELSE {})
    /\ entry' = "resolve"
    /\ UNCHANGED <<config, libvirt, init, cgroup, caps, child, status>>

OpenFails ==
    /\ entry = "open"
    /\ Fails
    /\ UNCHANGED <<config, libvirt, init, cgroup, target, caps, child, status>>

-----------------------------------------------------------------------------
(* enter_and_exec, in the entering process *)

\* A capability libcap does not know, a setns, prctl, cap_set_proc or fork that fails.
NativeFails ==
    /\ entry \in {"resolve", "setns", "drop", "caps", "fork"}
    /\ Fails
    /\ UNCHANGED <<config, libvirt, init, cgroup, target, caps, child, status>>

Resolves ==
    /\ entry = "resolve"
    /\ entry' = "setns"
    /\ UNCHANGED <<config, libvirt, place, caps, child, status>>

SetsOther(s) ==
    /\ entry = "setns"
    /\ s \in fds \ {User}
    /\ fds' = fds \ {s}
    /\ UNCHANGED <<config, libvirt, entry, init, cgroup, target, caps, child, status>>

\* Last, for it resets the capabilities.
SetsUser ==
    /\ entry = "setns"
    /\ fds = {User}
    /\ fds' = {}
    /\ bounding' = Caps /\ permitted' = Caps
    /\ UNCHANGED <<config, libvirt, entry, init, cgroup, target, child, status>>

AllSet ==
    /\ entry = "setns"
    /\ fds = {}
    /\ entry' = "drop"
    /\ UNCHANGED <<config, libvirt, place, caps, child, status>>

DropsBounding ==
    /\ entry = "drop"
    /\ bounding' = bounding \ DropNames
    /\ entry' = "caps"
    /\ UNCHANGED <<config, libvirt, place, permitted, child, status>>

\* caps_text is empty if no capability is turned on.
SetsCaps ==
    /\ entry = "caps"
    /\ permitted' = IF On = {} THEN permitted ELSE On
    /\ entry' = "fork"
    /\ UNCHANGED <<config, libvirt, place, bounding, child, status>>

Forks ==
    /\ entry = "fork"
    /\ entry' = "wait"
    /\ program' = IF idmap THEN "anchor" ELSE "terminal"
    /\ UNCHANGED <<config, libvirt, place, caps, grants, heirs, ended, status>>

\* Mutant: only a program that exited has a status to hand on.
Reaps_ExitOnly ==
    /\ entry = "wait"
    /\ program = "over"
    /\ entry' = "exited"
    /\ status' = IF ended[1] = "exit" THEN Exit(ended[2]) ELSE Exit(1)
    /\ UNCHANGED <<config, libvirt, place, caps, child>>

\* It exits with what the status it waited for means.
Reaps ==
    /\ entry = "wait"
    /\ program = "over"
    /\ entry' = "exited"
    /\ status' = Exit(Code(ended))
    /\ UNCHANGED <<config, libvirt, place, caps, child>>

\* What it raises ends the entering process with 1.
RaisesOut ==
    /\ entry = "failed"
    /\ entry' = "exited"
    /\ status' = Exit(1)
    /\ UNCHANGED <<config, libvirt, place, caps, child>>

EntryStep ==
    \/ JoinsCgroup \/ JoinsAnother \/ CgroupIsGone \/ OpensNamespaces \/ OpenFails
    \/ NativeFails \/ Resolves \/ SetsUser \/ AllSet \/ DropsBounding \/ SetsCaps
    \/ Forks \/ Reaps \/ RaisesOut
    \/ \E s \in Spaces : SetsOther(s)

-----------------------------------------------------------------------------
(* enter_and_exec, in the child *)

ProgramEnds(how) == program' = "over" /\ ended' = how

\* setresgid and setresuid, in a container with an ID map.
Anchors ==
    /\ program = "anchor"
    /\ IF SetIds \subseteq permitted
         THEN program' = "terminal" /\ UNCHANGED ended
         ELSE ProgramEnds(Exit(126))
    /\ UNCHANGED <<config, libvirt, entry, place, caps, grants, heirs, status>>

\* setsid and TIOCSCTTY if the slave is nobody's terminal yet; errors are ignored.
ClaimsTerminal ==
    /\ program = "terminal"
    /\ program' = "privs"
    /\ UNCHANGED <<config, libvirt, entry, place, caps, grants, heirs, ended, status>>

SetsNoNewPrivs ==
    /\ program = "privs"
    /\ \/ program' = "exec" /\ UNCHANGED ended
       \/ ProgramEnds(Exit(125))
    /\ UNCHANGED <<config, libvirt, entry, place, caps, grants, heirs, status>>

Execs ==
    /\ program = "exec"
    /\ program' = "runs"
    /\ grants' = permitted \cap bounding
    /\ UNCHANGED <<config, libvirt, entry, place, caps, heirs, ended, status>>

ExecFails ==
    /\ program = "exec"
    /\ \E code \in {126, 127} : ProgramEnds(Exit(code))
    /\ UNCHANGED <<config, libvirt, entry, place, caps, grants, heirs, status>>

ChildStep == Anchors \/ ClaimsTerminal \/ SetsNoNewPrivs \/ Execs \/ ExecFails

\* The program exits, here with 0 or 7, or is killed, and may leave processes behind.
Ends ==
    /\ program = "runs"
    /\ \E how \in {Exit(0), Exit(7), Kill} : ProgramEnds(how)
    /\ heirs' \in BOOLEAN
    /\ UNCHANGED <<config, libvirt, entry, place, caps, grants, status>>

HeirsEnd ==
    /\ heirs
    /\ heirs' = FALSE
    /\ UNCHANGED <<config, libvirt, entry, place, caps, program, grants, ended, status>>

ProgramAlive == program \notin {"unborn", "over"}

-----------------------------------------------------------------------------
(* The container *)

\* Whoever has joined the cgroup dies with the container.
ContainerStops ==
    /\ instance # 0
    /\ instance' = 0
    /\ IF cgroup = instance
         THEN /\ entry' = "exited" /\ fds' = {}
              /\ status' = IF entry = "exited" THEN status ELSE Kill
              /\ program' = IF ProgramAlive THEN "over" ELSE program
              /\ ended' = IF ProgramAlive THEN Kill ELSE ended
              /\ heirs' = FALSE
         ELSE UNCHANGED <<entry, fds, status, program, ended, heirs>>
    /\ UNCHANGED <<config, starts, init, cgroup, target, caps, grants>>

ContainerStarts ==
    /\ instance = 0 /\ starts < MaxInstances
    /\ instance' = starts + 1 /\ starts' = starts + 1
    /\ UNCHANGED <<config, entry, place, caps, child, status>>

=============================================================================
