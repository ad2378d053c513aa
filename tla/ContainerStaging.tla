-------------------------- MODULE ContainerStaging --------------------------
(***************************************************************************)
(* How a container's staged paths come and go, one system call at a time:  *)
(* FilesystemDevice.run, ContainerDomain.run and the clean-ups of          *)
(* truenas_pylibvirt.runtime, on the paths of one container,               *)
(*                                                                         *)
(*   1..D   /run/truenas_containers/devices/<uuid>/<slug>, one per device  *)
(*   Root   /run/truenas_containers/root/<uuid>, the idmapped rootfs       *)
(*   Parent /run/truenas_containers/devices/<uuid>                         *)
(*                                                                         *)
(* Three threads work on them.  "manager" is whoever holds the lock of the *)
(* domain manager: a start, or the event callback.  "boot" is the sweep at *)
(* start-up and "gc" the finalizer of dropped generators; neither takes    *)
(* the lock.  What a thread has still to clean is its job, a sequence of   *)
(* paths and of Scan, which stands for cleanup_for_uuid.                   *)
(***************************************************************************)
EXTENDS Integers, FiniteSets, SequencesExt

CONSTANTS
    D,           \* how many filesystem devices the container has
    Modes,       \* who starts: TRUE, a service that starts only at rest, see Rested; FALSE, any
    MaxRuns,     \* bound: starts in a behaviour
    MaxAnyRuns,  \* bound: starts in a behaviour of any service, MaxRuns at most
    MaxCrashes   \* bound: crashes of the process in a behaviour

ASSUME SomePaths == D \in Nat
ASSUME ModesAreBoolean == Modes \subseteq BOOLEAN
ASSUME BoundsAreNat == MaxRuns \in Nat /\ MaxAnyRuns \in 0..MaxRuns /\ MaxCrashes \in Nat

Devs == 1..D
Root == D + 1
Paths == 1..Root
Parent == 0
Scan == -1
Threads == {"manager", "boot", "gc"}
Runs == 1..MaxRuns

VARIABLES
    careful,   \* which of Modes the service is in
    layers,    \* kernel: the runs whose mounts are stacked at each path, topmost last
    dirs,      \* kernel: the paths that exist, Parent among them
    running,   \* libvirt: the run the container is on, or 0
    stopped,   \* how many of its STOPPED events wait for the callback
    pc,        \* where the manager is
    at,        \* the path being staged
    fd,        \* the detached clone is open
    attached,  \* the clone was moved to the path
    source,    \* where each device's source attribute points
    inside,    \* contexts entered and not yet left, by path: what source was before
    entry,     \* started_domains has an entry for the container
    dropped,   \* contexts of starts that failed half-way, waiting for the finalizer
    job,       \* what each thread has still to clean
    step,      \* where each thread is in umount_and_rmdir
    boot,      \* where the start-up sweep is
    run,       \* the number of the latest start
    faults,    \* "umount", an umount has failed; "map", an id map could not be made and no
               \* sweep of the container has come by since
    crashes

files  == <<layers, dirs>>
thread == <<pc, at, fd, attached>>
python == <<source, inside, entry, dropped>>
work   == <<job, step>>
vars == <<careful, files, running, stopped, thread, python, work, boot, run, faults, crashes>>

NoContext == "none"
NoContexts == [p \in Paths |-> NoContext]
Sources == {"user", "staged"}
Faults == {"umount", "map"}
Contexts == [Paths -> Sources \cup {NoContext}]

TypeOK ==
    /\ careful \in Modes
    /\ layers \in [Paths -> Seq(Runs)]
    /\ dirs \subseteq Paths \cup {Parent}
    /\ running \in 0..MaxRuns
    /\ stopped \in Nat
    /\ pc \in {"idle", "make", "clone", "attach", "close", "failed", "create"}
    /\ at \in Paths
    /\ fd \in BOOLEAN /\ attached \in BOOLEAN /\ entry \in BOOLEAN
    /\ source \in [Devs -> Sources]
    /\ inside \in Contexts
    /\ dropped \in Seq(Contexts)
    /\ job \in [Threads -> Seq(Paths \cup {Parent, Scan})]
    /\ step \in [Threads -> {"umount", "detach", "rmdir"}]
    /\ boot \in {"list", "ask", "scan", "sweep", "up"}
    /\ run \in 0..MaxRuns /\ faults \subseteq Faults
    /\ crashes \in 0..MaxCrashes

Init ==
    /\ careful \in Modes
    /\ layers = [p \in Paths |-> <<>>]
    /\ dirs = {}
    /\ running = 0 /\ stopped = 0
    /\ pc = "idle" /\ at = 1 /\ fd = FALSE /\ attached = FALSE
    /\ source = [d \in Devs |-> "user"]
    /\ inside = NoContexts /\ entry = FALSE /\ dropped = <<>>
    /\ job = [t \in Threads |-> <<>>] /\ step = [t \in Threads |-> "umount"]
    /\ boot = "list"
    /\ run = 0 /\ faults = {} /\ crashes = 0

Idle(t) == job[t] = <<>>
Entered(contexts) == {p \in Paths : contexts[p] # NoContext}

-----------------------------------------------------------------------------
(* runtime.py: umount_and_rmdir of the head of a thread's job *)

Cleans(t, p) == job[t] # <<>> /\ Head(job[t]) = p
Goes(t, where) == step' = [step EXCEPT ![t] = where] /\ UNCHANGED job
Through(t) ==
    /\ job' = [job EXCEPT ![t] = Tail(@)]
    /\ step' = [step EXCEPT ![t] = "umount"]

\* umount takes the topmost layer off, whoever put it there.
TakesOff(p) == layers' = [layers EXCEPT ![p] = Front(@)]

\* FileNotFoundError: there is nothing to remove either.
UmountFindsNoPath(t, p) ==
    /\ Cleans(t, p) /\ step[t] = "umount"
    /\ p \notin dirs
    /\ Through(t)
    /\ UNCHANGED <<files, faults>>

\* EINVAL: nothing is mounted there.
UmountFindsNoMount(t, p) ==
    /\ Cleans(t, p) /\ step[t] = "umount"
    /\ p \in dirs /\ layers[p] = <<>>
    /\ Goes(t, "rmdir")
    /\ UNCHANGED <<files, faults>>

Umounts(t, p) ==
    /\ Cleans(t, p) /\ step[t] = "umount"
    /\ layers[p] # <<>>
    /\ TakesOff(p)
    /\ Goes(t, "rmdir")
    /\ UNCHANGED <<dirs, faults>>

UmountFails(t, p) ==
    /\ Cleans(t, p) /\ step[t] = "umount"
    /\ layers[p] # <<>>
    /\ Goes(t, "detach")
    /\ faults' = faults \cup {"umount"}
    /\ UNCHANGED files

Detaches(t, p) ==
    /\ Cleans(t, p) /\ step[t] = "detach"
    /\ \/ layers[p] # <<>> /\ TakesOff(p)
       \/ UNCHANGED layers
    /\ Goes(t, "rmdir")
    /\ UNCHANGED <<dirs, faults>>

\* A directory is removed only if it exists and nothing is mounted there.
Rmdirs(t, p) ==
    /\ Cleans(t, p) /\ step[t] = "rmdir"
    /\ dirs' = IF layers[p] = <<>> THEN dirs \ {p} ELSE dirs
    /\ Through(t)
    /\ UNCHANGED <<layers, faults>>

\* ... and, for the devices' parent, only if no device is left in it.
RmdirsParent(t) ==
    /\ Cleans(t, Parent)
    /\ dirs' = IF dirs \cap Devs = {} THEN dirs \ {Parent} ELSE dirs
    /\ Through(t)
    /\ UNCHANGED <<layers, faults>>

\* Mutant: without a device directory there is nothing to clean, it seems.
Scans_DevicesOnly(t) ==
    /\ Cleans(t, Scan)
    /\ job' = [job EXCEPT ![t] = IF Parent \in dirs
                                   THEN SetToSeq(dirs \cap Devs) \o <<Parent, Root>> \o Tail(@)
                                   ELSE Tail(@)]
    /\ faults' = faults \ {"map"}
    /\ UNCHANGED <<files, step>>

\* cleanup_for_uuid: what is in the devices' parent, the parent, and the root.
Scans(t) ==
    /\ Cleans(t, Scan)
    /\ job' = [job EXCEPT ![t] = IF Parent \in dirs
                                   THEN SetToSeq(dirs \cap Devs) \o <<Parent, Root>> \o Tail(@)
                                   ELSE <<Root>> \o Tail(@)]
    /\ faults' = faults \ {"map"}
    /\ UNCHANGED <<files, step>>

CleanStep(t) ==
    /\ \/ Scans(t) \/ RmdirsParent(t)
       \/ \E p \in Paths : \/ UmountFindsNoPath(t, p) \/ UmountFindsNoMount(t, p)
                           \/ Umounts(t, p) \/ UmountFails(t, p) \/ Detaches(t, p)
                           \/ Rmdirs(t, p)
    /\ UNCHANGED <<running, stopped, thread, python, boot, run, crashes>>

-----------------------------------------------------------------------------
(* A start: the devices' run() in order, the container's run(), then libvirt *)

Free == pc = "idle" /\ Idle("manager")

\* Nothing of an earlier run is still to be looked at, and the sweep is over.
Rested ==
    /\ boot = "up" /\ running = 0 /\ stopped = 0
    /\ dropped = <<>> /\ Idle("gc")

\* The contexts entered last are left first.
LeavingOrder(contexts) ==
    CHOOSE order \in [1 .. Cardinality(Entered(contexts)) -> Entered(contexts)] :
        \A m, n \in DOMAIN order : m < n => order[m] > order[n]

\* Mutant: the source is not put back.
Leaves_KeepsSource(t, contexts, then) ==
    /\ job' = [job EXCEPT ![t] = LeavingOrder(contexts) \o then]
    /\ UNCHANGED <<source, step>>

\* Each device's finally block puts its source back and cleans the path.
Leaves(t, contexts, then) ==
    /\ job' = [job EXCEPT ![t] = LeavingOrder(contexts) \o then]
    /\ source' = [d \in Devs |-> IF contexts[d] = NoContext THEN source[d] ELSE contexts[d]]
    /\ UNCHANGED step

\* An entry found for a container that is down is unwound first.
Start ==
    /\ Free /\ boot # "list"
    /\ run < IF careful THEN MaxRuns ELSE MaxAnyRuns
    /\ careful => Rested
    /\ entry => running = 0
    /\ Leaves("manager", inside, <<>>)
    /\ inside' = NoContexts /\ entry' = FALSE
    /\ run' = run + 1
    /\ pc' = "make" /\ at' = 1
    /\ UNCHANGED <<files, running, stopped, fd, attached, dropped, boot, faults, crashes>>

\* "already started": the entry is given up with the exception.
StartRefused ==
    /\ Free /\ boot # "list"
    /\ ~careful
    /\ entry /\ running # 0
    /\ dropped' = Append(dropped, inside)
    /\ inside' = NoContexts /\ entry' = FALSE
    /\ UNCHANGED <<files, running, stopped, thread, source, work, boot, run, faults, crashes>>

Makes ==
    /\ pc = "make" /\ Idle("manager")
    /\ dirs' = dirs \cup {at} \cup (IF at = Root THEN {} ELSE {Parent})
    /\ pc' = "clone"
    /\ UNCHANGED <<layers, running, stopped, at, fd, attached, python, work, boot, run, faults, crashes>>

\* makedirs raises, outside any try.
MakeFails ==
    /\ pc = "make" /\ Idle("manager")
    /\ pc' = "failed"
    /\ UNCHANGED <<files, running, stopped, at, fd, attached, python, work, boot, run, faults, crashes>>

Clones ==
    /\ pc = "clone"
    /\ \/ fd' = TRUE /\ pc' = "attach"
       \/ fd' = FALSE /\ pc' = "close"
    /\ UNCHANGED <<files, running, stopped, at, attached, python, work, boot, run, faults, crashes>>

\* A mapping that the kernel does not take: create_idmap_mapping raises after the root's
\* directory was made, and outside the try whose finally would clean it.
MapsRaise ==
    /\ pc = "clone" /\ at = Root
    /\ pc' = "failed"
    /\ faults' = faults \cup {"map"}
    /\ UNCHANGED <<files, running, stopped, at, fd, attached, python, work, boot, run, crashes>>

\* The propagation is set and the clone moved to the path, if it is still there.
Attaches ==
    /\ pc = "attach"
    /\ \/ /\ at \in dirs
          /\ layers' = [layers EXCEPT ![at] = Append(@, run)]
          /\ attached' = TRUE
       \/ UNCHANGED <<layers, attached>>
    /\ pc' = "close"
    /\ UNCHANGED <<dirs, running, stopped, at, fd, python, work, boot, run, faults, crashes>>

\* Mutant: the descriptor closed at the end of the try block, not in its finally.
Closes_OnSuccess ==
    /\ pc = "close"
    /\ IF attached
         THEN /\ inside' = [inside EXCEPT ![at] = IF at = Root THEN "user" ELSE source[at]]
              /\ source' = [d \in Devs |-> IF d = at THEN "staged" ELSE source[d]]
              /\ pc' = IF at = Root THEN "create" ELSE "make"
              /\ at' = IF at = Root THEN at ELSE at + 1
              /\ fd' = FALSE
              /\ UNCHANGED work
         ELSE /\ job' = [job EXCEPT !["manager"] = IF at = Root THEN <<Scan>> ELSE <<at>>]
              /\ pc' = "failed"
              /\ UNCHANGED <<source, inside, at, step, fd>>
    /\ attached' = FALSE
    /\ UNCHANGED <<files, running, stopped, entry, dropped, boot, run, faults, crashes>>

\* A clone that is attached stays; otherwise a device cleans its own path and the
\* container's root sweeps all of the container's.
Closes ==
    /\ pc = "close"
    /\ IF attached
         THEN /\ inside' = [inside EXCEPT ![at] = IF at = Root THEN "user" ELSE source[at]]
              /\ source' = [d \in Devs |-> IF d = at THEN "staged" ELSE source[d]]
              /\ pc' = IF at = Root THEN "create" ELSE "make"
              /\ at' = IF at = Root THEN at ELSE at + 1
              /\ UNCHANGED work
         ELSE /\ job' = [job EXCEPT !["manager"] = IF at = Root THEN <<Scan>> ELSE <<at>>]
              /\ pc' = "failed"
              /\ UNCHANGED <<source, inside, at, step>>
    /\ fd' = FALSE /\ attached' = FALSE
    /\ UNCHANGED <<files, running, stopped, entry, dropped, boot, run, faults, crashes>>

\* The exception goes on: DeviceManager.start rolls back the devices before the one
\* that failed; nobody rolls them back when the container's own run() failed.
Fails ==
    /\ pc = "failed" /\ Idle("manager")
    /\ pc' = "idle"
    /\ inside' = NoContexts
    /\ IF at = Root
         THEN dropped' = Append(dropped, inside) /\ UNCHANGED <<source, work>>
         ELSE Leaves("manager", inside, <<>>) /\ UNCHANGED dropped
    /\ UNCHANGED <<files, running, stopped, at, fd, attached, entry, boot, run, faults, crashes>>

\* xml, define and create; a container that runs already cannot be created.
Creates ==
    /\ pc = "create"
    /\ running = 0
    /\ running' = run
    /\ entry' = TRUE
    /\ pc' = "idle"
    /\ UNCHANGED <<files, stopped, at, fd, attached, source, inside, dropped, work, boot, run,
                   faults, crashes>>

CreateFails ==
    /\ pc = "create"
    /\ Leaves("manager", inside, <<>>)
    /\ inside' = NoContexts
    /\ pc' = "idle"
    /\ UNCHANGED <<files, running, stopped, at, fd, attached, entry, dropped, boot, run, faults, crashes>>

\* Mutant: every event is taken for a stop.
HandlesStop_AnyEvent ==
    /\ Free
    /\ stopped' = stopped - 1
    /\ Leaves("manager", IF entry THEN inside ELSE NoContexts, <<Scan>>)
    /\ inside' = NoContexts /\ entry' = FALSE
    /\ UNCHANGED <<files, running, thread, dropped, boot, run, faults, crashes>>

\* The event callback: the entry's contexts, if there is one, and then the sweep.
HandlesStop ==
    /\ Free /\ stopped > 0
    /\ stopped' = stopped - 1
    /\ Leaves("manager", IF entry THEN inside ELSE NoContexts, <<Scan>>)
    /\ inside' = NoContexts /\ entry' = FALSE
    /\ UNCHANGED <<files, running, thread, dropped, boot, run, faults, crashes>>

ManagerStep ==
    \/ Makes \/ MakeFails \/ Clones \/ MapsRaise \/ Attaches \/ Closes \/ Fails
    \/ Creates \/ CreateFails \/ HandlesStop

-----------------------------------------------------------------------------
(* Finalizer, start-up sweep and environment *)

\* The finally blocks of dropped generators run whenever the interpreter frees them.
Finalizes ==
    /\ dropped # <<>> /\ Idle("gc")
    /\ dropped' = Tail(dropped)
    /\ Leaves("gc", Head(dropped), <<>>)
    /\ UNCHANGED <<files, running, stopped, thread, inside, entry, boot, run, faults, crashes>>

\* list_domains opens the connection and registers the callback: from here on a stop
\* is heard, and the callback may work on the container together with the sweep.
BootLists ==
    /\ boot = "list"
    /\ boot' = "ask"
    /\ UNCHANGED <<files, running, stopped, thread, python, work, run, faults, crashes>>

\* Mutant: containers that run are not told apart.
BootAsks_All ==
    /\ boot = "ask"
    /\ boot' = "scan"
    /\ UNCHANGED <<files, running, stopped, thread, python, work, run, faults, crashes>>

\* A container that runs when isActive is asked is left alone.
BootAsks ==
    /\ boot = "ask"
    /\ boot' = IF running = 0 THEN "scan" ELSE "up"
    /\ UNCHANGED <<files, running, stopped, thread, python, work, run, faults, crashes>>

BootScans ==
    /\ boot = "scan"
    /\ IF dirs # {} \/ \E p \in Paths : layers[p] # <<>>
         THEN boot' = "sweep" /\ job' = [job EXCEPT !["boot"] = <<Scan>>]
         ELSE boot' = "up" /\ UNCHANGED job
    /\ UNCHANGED <<files, running, stopped, thread, python, step, run, faults, crashes>>

BootEnds ==
    /\ boot = "sweep" /\ Idle("boot")
    /\ boot' = "up"
    /\ UNCHANGED <<files, running, stopped, thread, python, work, run, faults, crashes>>

BootStep == BootLists \/ BootAsks \/ BootScans \/ BootEnds

\* The event of a stop is delivered to a process that listens.
GuestStops ==
    /\ running # 0
    /\ running' = 0
    /\ stopped' = IF boot = "list" THEN stopped ELSE stopped + 1
    /\ UNCHANGED <<files, thread, python, work, boot, run, faults, crashes>>

\* The process dies and is started again: mounts, directories and the container stay.
Crash ==
    /\ crashes < MaxCrashes
    /\ crashes' = crashes + 1
    /\ stopped' = 0
    /\ pc' = "idle" /\ at' = 1 /\ fd' = FALSE /\ attached' = FALSE
    /\ source' = [d \in Devs |-> "user"]
    /\ inside' = NoContexts /\ entry' = FALSE /\ dropped' = <<>>
    /\ job' = [t \in Threads |-> <<>>] /\ step' = [t \in Threads |-> "umount"]
    /\ boot' = "list"
    /\ UNCHANGED <<files, running, run, faults>>

Next ==
    /\ \/ Start \/ StartRefused \/ ManagerStep
       \/ \E t \in Threads : CleanStep(t)
       \/ Finalizes \/ BootStep
       \/ GuestStops \/ Crash
    /\ UNCHANGED careful

Spec == Init /\ [][Next]_vars

\* Threads that can run do run; a dropped generator is finalized some day. Nobody is
\* obliged to start the container, and neither it nor the process to stop.
FairSpec ==
    /\ Spec
    /\ WF_vars(ManagerStep /\ UNCHANGED careful)
    /\ WF_vars(Finalizes /\ UNCHANGED careful) /\ WF_vars(BootStep /\ UNCHANGED careful)
    /\ \A t \in Threads : WF_vars(CleanStep(t) /\ UNCHANGED careful)

-----------------------------------------------------------------------------
(* Properties *)

\* A container that is started at rest keeps, at the top of each of its paths, what
\* its own run mounted there, for as long as it runs: no failed start, callback, sweep
\* or finalizer of another time takes it off or covers it, stuck mounts and crashes
\* included.
RunsOnItsOwn ==
    careful /\ running # 0 => \A p \in Paths : layers[p] # <<>> /\ Last(layers[p]) = running

\* With starts at rest, what libvirt is told to mount is the staged clone, and the
\* device objects are given back as they were once no context needs them.
SourcesFollowStaging ==
    careful => /\ pc = "create" => \A d \in Devs : source[d] = "staged"
               /\ Free /\ ~entry /\ dropped = <<>> => \A d \in Devs : source[d] = "user"

\* Whoever starts when: the descriptor of a clone never outlives its staging.
NoDescriptorLeft == fd => pc \in {"attach", "close"}

\* With starts at rest, and unless an umount failed, a container that is down is
\* cleaned up, crashes in the middle of a clean-up included: nothing is left of it but
\* the empty parent, after a start that failed early, and the root's empty directory,
\* until the next sweep, after a start whose id map could not be made: the start itself
\* does not remove that one, see MapsRaise.
Clean ==
    /\ dirs \subseteq {Parent} \cup (IF "map" \in faults THEN {Root} ELSE {})
    /\ \A p \in Paths : layers[p] = <<>>
CleanedUp == careful /\ running = 0 ~> running # 0 \/ Clean \/ "umount" \in faults

\* src/truenas_pylibvirt/device/filesystem.py:126 says of a device's own clean-up:
\* "only undo this device's own mount + dir". A device that could not be staged has no
\* mount of its own: its clean-up leaves alone what a container that runs stands on.
UndoesOwnOnly ==
    [][pc = "failed" /\ at \in Devs /\ job["manager"] = <<at>> /\ running # 0
       => UNCHANGED layers]_vars

=============================================================================
