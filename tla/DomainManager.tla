--------------------------- MODULE DomainManager ---------------------------
(***************************************************************************)
(* truenas_pylibvirt.domain.manager.DomainManager, together with what its  *)
(* correctness depends on: the event thread that runs its callback, the    *)
(* start-up sweep of DomainManagers, the mounts a started domain stages    *)
(* under /run, and libvirt's own view of each domain.                      *)
(*                                                                         *)
(* Threads.  Every element of Callers is a thread of the embedding service *)
(* that calls start, shutdown, destroy, suspend, resume or delete.  One    *)
(* more thread, EventLoop, runs virEventRunDefaultImpl and, from it,       *)
(* _domain_event_callback.  The main thread runs reconcile_runtime_state   *)
(* once after the process starts.  Guests stop on their own at any time,   *)
(* and the process can crash and restart between any two steps.            *)
(*                                                                         *)
(* Abstraction.  All that a start stages for a uuid (device mounts, idmap  *)
(* rootfs) is one mount point: a start stacks one layer on it and every    *)
(* umount takes the topmost layer off, whoever put it there.               *)
(***************************************************************************)
EXTENDS Naturals, Sequences, FiniteSets

CONSTANTS
    Uuids,           \* the domains
    Callers,         \* threads of the service that call the manager
    EventLoop,       \* the libvirt event thread, as an owner of the lock
    Nobody,          \* the lock is free
    Ops,             \* the operations callers use in this instance
    CarefulCallers,  \* TRUE: start(u) is called only as SafeToStart(u) says
    DeleteOutwaits,  \* TRUE: the sleep in delete outlasts the stop's handling
    MaxCalls,        \* bound: calls made in a behaviour
    MaxRestarts,     \* bound: crashes of the process in a behaviour
    Timeout          \* bound: seconds shutdown polls for

Operations == {"start", "shutdown", "destroy", "suspend", "resume", "delete"}

ASSUME LockOwners == EventLoop \notin Callers /\ Nobody \notin Callers \cup {EventLoop}
ASSUME OpsAreOperations == Ops \subseteq Operations
ASSUME Switches == CarefulCallers \in BOOLEAN /\ DeleteOutwaits \in BOOLEAN
ASSUME Bounds == MaxCalls \in Nat /\ MaxRestarts \in Nat /\ Timeout \in Nat

VARIABLES
    run,         \* libvirt: the state of each domain
    persistent,  \* libvirt: the domains it keeps a definition of
    layers,      \* kernel: mounts stacked at each uuid's staged path
    listening,   \* the connection is open and its event callback registered
    events,      \* uuids of queued STOPPED/UNDEFINED events, the head in handling
    started,     \* started_domains: uuids with a recorded StartedDomain
    lock,        \* owner of started_domains_lock
    pc,          \* where each caller is
    arg,         \* the uuid of each caller's current (or last) call
    held,        \* the start in progress still holds the entry it popped
    left,        \* seconds each caller's shutdown still polls for
    dropped,     \* StartedDomains neither recorded nor unwound, by uuid
    loop,        \* where the event thread is
    boot,        \* where the start-up sweep is
    active,      \* the sweep's set of active uuids
    todo,        \* uuids the sweep has still to look at (or to clean)
    calls, restarts

libvirt   == <<run, persistent>>
threads   == <<pc, arg, left>>
sweeper   == <<boot, active, todo>>
manager   == <<started, lock, held, dropped>>
counters  == <<calls, restarts>>
vars == <<libvirt, layers, listening, events, manager, threads, loop, sweeper, counters>>

-----------------------------------------------------------------------------
(* State formulae *)

\* lookupByName finds a domain that runs or has a definition.
Exists(u) == run[u] # "off" \/ persistent[u]

Queued == {events[i] : i \in DOMAIN events}

\* Where a thread is in start once it has the lock, and in the other operations.
StartPlaces == {"lookup", "state", "stage", "define", "create", "record", "undo"}
StopPlaces == {"destroying", "suspending", "polling", "resuming", "forcing", "sleeping",
               "undefining"}
Places == {"idle"} \cup Operations \cup StartPlaces \cup StopPlaces

InStart(c) == pc[c] \in StartPlaces

\* A call of start(u) made in this state meets no other activity on u.
SafeToStart(u) ==
    /\ boot = "up"
    /\ run[u] = "off"
    /\ u \notin Queued
    /\ dropped[u] = 0
    /\ \A c \in Callers : arg[c] = u => pc[c] # "start" /\ ~InStart(c)

TypeOK ==
    /\ run \in [Uuids -> {"off", "running", "paused", "stopping"}]
    /\ persistent \in [Uuids -> BOOLEAN]
    /\ layers \in [Uuids -> Nat]
    /\ listening \in BOOLEAN
    /\ events \in Seq(Uuids)
    /\ started \subseteq Uuids
    /\ lock \in Callers \cup {EventLoop, Nobody}
    /\ pc \in [Callers -> Places]
    /\ arg \in [Callers -> Uuids]
    /\ held \in BOOLEAN
    /\ left \in [Callers -> Nat]
    /\ dropped \in [Uuids -> Nat]
    /\ loop \in {"idle", "wait", "unwind", "sweep"}
    /\ boot \in {"startup", "check", "sweep", "up"}
    /\ active \subseteq Uuids
    /\ todo \subseteq Uuids
    /\ calls \in Nat /\ restarts \in Nat

Init ==
    /\ run = [u \in Uuids |-> "off"]
    /\ persistent \in [Uuids -> BOOLEAN]
    /\ layers = [u \in Uuids |-> 0]
    /\ listening = FALSE
    /\ events = <<>>
    /\ started = {}
    /\ lock = Nobody
    /\ pc = [c \in Callers |-> "idle"]
    /\ arg \in [Callers -> Uuids]
    /\ held = FALSE
    /\ left = [c \in Callers |-> 0]
    /\ dropped = [u \in Uuids |-> 0]
    /\ loop = "idle"
    /\ boot = "startup"
    /\ active = {} /\ todo = {}
    /\ calls = 0 /\ restarts = 0

-----------------------------------------------------------------------------
(* What one call does to libvirt, the kernel and the lock *)

\* libvirt tells a connected client that u stopped or was undefined.
Emit(u) == events' = IF listening THEN Append(events, u) ELSE events

\* A mount made on a staged path covers what is mounted there already.
Pushed(u) == [layers EXCEPT ![u] = @ + 1]

\* umount takes the topmost layer off; on a path without one it does nothing.
Popped(u) == [layers EXCEPT ![u] = IF @ > 0 THEN @ - 1 ELSE 0]

Goto(c, where) == pc' = [pc EXCEPT ![c] = where]
Release == lock' = Nobody

-----------------------------------------------------------------------------
(* The guests, as libvirt reports them *)

GuestShutsDown(u) ==
    /\ run[u] = "running"
    /\ run' = [run EXCEPT ![u] = "stopping"]
    /\ UNCHANGED <<persistent, layers, listening, events, manager, threads, loop, sweeper,
                   counters>>

\* A domain without a definition is gone once it stops.
GuestStops(u) ==
    /\ run[u] # "off"
    /\ run' = [run EXCEPT ![u] = "off"]
    /\ Emit(u)
    /\ UNCHANGED <<persistent, layers, listening, manager, threads, loop, sweeper, counters>>

Call(c, op, u) ==
    /\ pc[c] = "idle"
    /\ calls < MaxCalls
    /\ CarefulCallers => boot = "up" /\ (op = "start" => SafeToStart(u))
    /\ Goto(c, op)
    /\ arg' = [arg EXCEPT ![c] = u]
    /\ calls' = calls + 1
    /\ UNCHANGED <<libvirt, layers, listening, events, manager, left, loop, sweeper, restarts>>

-----------------------------------------------------------------------------
(* start: everything up to Release runs under started_domains_lock *)

StartLock(c) ==
    /\ pc[c] = "start"
    /\ lock = Nobody
    /\ lock' = c
    /\ started' = started \ {arg[c]}
    /\ held' = (arg[c] \in started)
    /\ Goto(c, IF arg[c] \in started THEN "lookup" ELSE "stage")
    /\ UNCHANGED <<libvirt, layers, listening, events, dropped, arg, left, loop, sweeper,
                   counters>>

\* At "stage" a start first validates and then stages. It gets there with the popped
\* entry still in its local variable if libvirt does not know the domain.
StartLooksUp(c) ==
    /\ pc[c] = "lookup"
    /\ Goto(c, IF Exists(arg[c]) THEN "state" ELSE "stage")
    /\ UNCHANGED <<libvirt, layers, listening, events, manager, arg, left, loop, sweeper,
                   counters>>

StartFindsStopped(c) ==
    /\ pc[c] = "state"
    /\ Exists(arg[c])
    /\ run[arg[c]] \in {"off", "stopping"}
    /\ layers' = Popped(arg[c])
    /\ held' = FALSE
    /\ Goto(c, "stage")
    /\ UNCHANGED <<libvirt, listening, events, started, lock, dropped, arg, left, loop,
                   sweeper, counters>>

\* An exception leaves start: what it held and did not unwind is only finalized
\* once nobody keeps the exception any more.
Raise(c, more) ==
    /\ dropped' = [dropped EXCEPT ![arg[c]] = @ + more + (IF held THEN 1 ELSE 0)]
    /\ held' = FALSE
    /\ Goto(c, "idle")
    /\ Release

\* "already started", or domain_state raises because the domain just vanished.
StartRefuses(c) ==
    /\ pc[c] = "state"
    /\ Exists(arg[c]) => run[arg[c]] \in {"running", "paused"}
    /\ Raise(c, 0)
    /\ UNCHANGED <<libvirt, layers, listening, events, started, arg, left, loop, sweeper,
                   counters>>

StartInvalid(c) ==
    /\ pc[c] = "stage"
    /\ Raise(c, 0)
    /\ UNCHANGED <<libvirt, layers, listening, events, started, arg, left, loop, sweeper,
                   counters>>

\* The new StartedDomain replaces the one still held, which is finalized at that
\* point and takes a layer off again.
StageOk(c) ==
    /\ pc[c] = "stage"
    /\ layers' = IF held THEN layers ELSE Pushed(arg[c])
    /\ held' = FALSE
    /\ Goto(c, "define")
    /\ UNCHANGED <<libvirt, listening, events, started, lock, dropped, arg, left, loop,
                   sweeper, counters>>

\* A device cannot be started, and those started before it are rolled back. If it
\* is a filesystem device, its own failure path umounts the staged path.
StageDeviceFails(c) ==
    /\ pc[c] = "stage"
    /\ layers' \in {layers, Popped(arg[c])}
    /\ Raise(c, 0)
    /\ UNCHANGED <<libvirt, listening, events, started, arg, left, loop, sweeper, counters>>

\* The devices are staged but domain.run() fails, and, if it got as far as the
\* mount, sweeps the uuid. The half-built StartedDomain, its devices still entered,
\* is dropped.
StageRootFails(c) ==
    /\ pc[c] = "stage"
    /\ layers' \in {layers, Pushed(arg[c])}
    /\ Raise(c, 1)
    /\ UNCHANGED <<libvirt, listening, events, started, arg, left, loop, sweeper,
                   counters>>

Define(c) ==
    /\ pc[c] = "define"
    /\ listening' = TRUE
    /\ \/ /\ persistent' = [persistent EXCEPT ![arg[c]] = TRUE]
          /\ Goto(c, "create")
       \/ /\ Goto(c, "undo")
          /\ UNCHANGED persistent
    /\ UNCHANGED <<run, layers, events, manager, arg, left, loop, sweeper, counters>>

CreateOk(c) ==
    /\ pc[c] = "create"
    /\ persistent[arg[c]] /\ run[arg[c]] = "off"
    /\ run' = [run EXCEPT ![arg[c]] = "running"]
    /\ Goto(c, "record")
    /\ UNCHANGED <<persistent, layers, listening, events, manager, arg, left, loop, sweeper,
                   counters>>

CreateFails(c) ==
    /\ pc[c] = "create"
    /\ Goto(c, "undo")
    /\ UNCHANGED <<libvirt, layers, listening, events, manager, arg, left, loop, sweeper,
                   counters>>

StartRecords(c) ==
    /\ pc[c] = "record"
    /\ started' = started \cup {arg[c]}
    /\ Goto(c, "idle")
    /\ Release
    /\ UNCHANGED <<libvirt, layers, listening, events, held, dropped, arg, left, loop, sweeper,
                   counters>>

\* Mutant: the lock taken by hand, and not given back on the failing path.
StartUnwinds_KeepsLock(c) ==
    /\ pc[c] = "undo"
    /\ layers' = Popped(arg[c])
    /\ Goto(c, "idle")
    /\ UNCHANGED <<libvirt, listening, events, started, lock, held, dropped, arg, left, loop,
                   sweeper, counters>>

StartUnwinds(c) ==
    /\ pc[c] = "undo"
    /\ layers' = Popped(arg[c])
    /\ Goto(c, "idle")
    /\ Release
    /\ UNCHANGED <<libvirt, listening, events, started, held, dropped, arg, left, loop,
                   sweeper, counters>>

StartStep(c) ==
    \/ StartLock(c) \/ StartLooksUp(c) \/ StartFindsStopped(c) \/ StartRefuses(c)
    \/ StartInvalid(c)
    \/ StageOk(c) \/ StageDeviceFails(c) \/ StageRootFails(c)
    \/ Define(c) \/ CreateOk(c) \/ CreateFails(c) \/ StartRecords(c) \/ StartUnwinds(c)

\* The garbage collector closes the generators of a dropped StartedDomain, whose
\* finally blocks then run.
Finalize(u) ==
    /\ dropped[u] > 0
    /\ dropped' = [dropped EXCEPT ![u] = @ - 1]
    /\ layers' = Popped(u)
    /\ UNCHANGED <<libvirt, listening, events, started, lock, held, threads, loop, sweeper,
                   counters>>

-----------------------------------------------------------------------------
(* The other operations: no lock, one query of libvirt and then the request *)

\* _libvirt_domain_for_stop, for destroy, suspend and shutdown.
StopChecks(c) ==
    /\ pc[c] \in {"destroy", "suspend", "shutdown"}
    /\ listening' = TRUE
    /\ IF run[arg[c]] = "off"
         THEN Goto(c, "idle") /\ UNCHANGED left
         ELSE /\ Goto(c, CASE pc[c] = "destroy"  -> "destroying"
                           [] pc[c] = "suspend"  -> "suspending"
                           [] pc[c] = "shutdown" -> "polling")
              /\ left' = IF pc[c] = "shutdown" THEN [left EXCEPT ![c] = Timeout] ELSE left
    /\ UNCHANGED <<libvirt, layers, events, manager, arg, loop, sweeper, counters>>

\* destroy, and the same request in delete, of an active domain succeeds; it may
\* also fail. Of an inactive one it fails, which is an error only if the domain is
\* not known to be shut off, that is, when it is gone.
Destroyed(u) ==
    IF run[u] # "off"
      THEN run' = [run EXCEPT ![u] = "off"] /\ Emit(u)
      ELSE UNCHANGED <<run, events>>

Destroys(c) ==
    /\ pc[c] = "destroying"
    /\ Destroyed(arg[c]) \/ UNCHANGED <<run, events>>
    /\ Goto(c, "idle")
    /\ UNCHANGED <<persistent, layers, listening, manager, arg, left, loop, sweeper, counters>>

Suspends(c) ==
    /\ pc[c] = "suspending"
    /\ \/ /\ run[arg[c]] = "running"
          /\ run' = [run EXCEPT ![arg[c]] = "paused"]
       \/ UNCHANGED run
    /\ Goto(c, "idle")
    /\ UNCHANGED <<persistent, layers, listening, events, manager, arg, left, loop, sweeper,
                   counters>>

\* Mutant: the loop does not look at the timeout.
ShutdownPolls_Untimed(c) ==
    /\ pc[c] = "polling"
    /\ IF run[arg[c]] = "running"
         THEN left' = [left EXCEPT ![c] = @ - 1] /\ UNCHANGED pc
         ELSE Goto(c, "idle") /\ left' = [left EXCEPT ![c] = 0]
    /\ UNCHANGED <<libvirt, layers, listening, events, manager, arg, loop, sweeper, counters>>

\* One second of shutdown. The request itself is a guest that may shut down.
ShutdownPolls(c) ==
    /\ pc[c] = "polling"
    /\ IF left[c] > 0 /\ run[arg[c]] = "running"
         THEN left' = [left EXCEPT ![c] = @ - 1] /\ UNCHANGED pc
         ELSE Goto(c, "idle") /\ left' = [left EXCEPT ![c] = 0]
    /\ UNCHANGED <<libvirt, layers, listening, events, manager, arg, loop, sweeper, counters>>

ResumeChecks(c) ==
    /\ pc[c] = "resume"
    /\ listening' = TRUE
    /\ Goto(c, IF run[arg[c]] = "paused" THEN "resuming" ELSE "idle")
    /\ UNCHANGED <<libvirt, layers, events, manager, arg, left, loop, sweeper, counters>>

Resumes(c) ==
    /\ pc[c] = "resuming"
    /\ \/ /\ run[arg[c]] = "paused"
          /\ run' = [run EXCEPT ![arg[c]] = "running"]
       \/ UNCHANGED run
    /\ Goto(c, "idle")
    /\ UNCHANGED <<persistent, layers, listening, events, manager, arg, left, loop, sweeper,
                   counters>>

DeleteChecks(c) ==
    /\ pc[c] = "delete"
    /\ listening' = TRUE
    /\ Goto(c, CASE ~Exists(arg[c])                      -> "idle"
                 [] run[arg[c]] \in {"running", "paused"} -> "forcing"
                 [] OTHER                                -> "undefining")
    /\ UNCHANGED <<libvirt, layers, events, manager, arg, left, loop, sweeper, counters>>

DeleteForces(c) ==
    /\ pc[c] = "forcing"
    /\ \/ /\ Exists(arg[c])
          /\ Destroyed(arg[c])
          /\ Goto(c, "sleeping")
       \/ /\ Goto(c, "idle")
          /\ UNCHANGED <<run, events>>
    /\ UNCHANGED <<persistent, layers, listening, manager, arg, left, loop, sweeper, counters>>

DeleteSleeps(c) ==
    /\ pc[c] = "sleeping"
    /\ DeleteOutwaits => arg[c] \notin Queued
    /\ Goto(c, "undefining")
    /\ UNCHANGED <<libvirt, layers, listening, events, manager, arg, left, loop, sweeper,
                   counters>>

\* A running domain that is undefined runs on, until it stops, without a definition.
Undefines(c) ==
    /\ pc[c] = "undefining"
    /\ \/ /\ persistent[arg[c]]
          /\ persistent' = [persistent EXCEPT ![arg[c]] = FALSE]
          /\ Emit(arg[c])
       \/ UNCHANGED <<persistent, events>>
    /\ Goto(c, "idle")
    /\ UNCHANGED <<run, layers, listening, manager, arg, left, loop, sweeper, counters>>

StopStep(c) ==
    \/ StopChecks(c) \/ Destroys(c) \/ Suspends(c) \/ ShutdownPolls(c)
    \/ ResumeChecks(c) \/ Resumes(c)
    \/ DeleteChecks(c) \/ DeleteForces(c) \/ DeleteSleeps(c) \/ Undefines(c)

-----------------------------------------------------------------------------
(* _domain_event_callback, on the event thread; one event at a time *)

\* The domain is looked up before the lock is taken; an event of a domain that
\* libvirt no longer knows is dropped.
EvIgnores ==
    /\ loop = "idle" /\ events # <<>>
    /\ ~Exists(Head(events))
    /\ events' = Tail(events)
    /\ UNCHANGED <<libvirt, layers, listening, manager, threads, loop, sweeper, counters>>

EvTakes ==
    /\ loop = "idle" /\ events # <<>>
    /\ Exists(Head(events))
    /\ loop' = "wait"
    /\ UNCHANGED <<libvirt, layers, listening, events, manager, threads, sweeper, counters>>

\* Mutant: the callback does not wait for the lock.
EvLocks_Unlocked ==
    /\ loop = "wait"
    /\ lock' = EventLoop
    /\ started' = started \ {Head(events)}
    /\ loop' = IF Head(events) \in started THEN "unwind" ELSE "sweep"
    /\ UNCHANGED <<libvirt, layers, listening, events, held, dropped, threads, sweeper,
                   counters>>

\* Mutant: the sweep moved under "if started_domain", next to the unwinding.
EvLocks_SweepsOwnOnly ==
    /\ loop = "wait"
    /\ lock = Nobody
    /\ IF Head(events) \in started
         THEN lock' = EventLoop /\ loop' = "unwind" /\ UNCHANGED events
         ELSE UNCHANGED lock /\ loop' = "idle" /\ events' = Tail(events)
    /\ started' = started \ {Head(events)}
    /\ UNCHANGED <<libvirt, layers, listening, held, dropped, threads, sweeper, counters>>

EvLocks ==
    /\ loop = "wait"
    /\ lock = Nobody
    /\ lock' = EventLoop
    /\ started' = started \ {Head(events)}
    /\ loop' = IF Head(events) \in started THEN "unwind" ELSE "sweep"
    /\ UNCHANGED <<libvirt, layers, listening, events, held, dropped, threads, sweeper,
                   counters>>

EvUnwinds ==
    /\ loop = "unwind"
    /\ layers' = Popped(Head(events))
    /\ loop' = "sweep"
    /\ UNCHANGED <<libvirt, listening, events, manager, threads, sweeper, counters>>

EvSweeps ==
    /\ loop = "sweep"
    /\ layers' = Popped(Head(events))
    /\ events' = Tail(events)
    /\ loop' = "idle"
    /\ Release
    /\ UNCHANGED <<libvirt, listening, started, held, dropped, threads, sweeper, counters>>

EventStep == EvIgnores \/ EvTakes \/ EvLocks \/ EvUnwinds \/ EvSweeps

-----------------------------------------------------------------------------
(* reconcile_runtime_state, once after the process starts; it takes no lock *)

\* Mutant: the domains are listed on a connection that has no event callback yet.
SweepLists_Deaf ==
    /\ boot = "startup"
    /\ todo' = {u \in Uuids : Exists(u)}
    /\ boot' = "check"
    /\ UNCHANGED <<libvirt, layers, listening, events, manager, threads, loop, active, counters>>

SweepLists ==
    /\ boot = "startup"
    /\ listening' = TRUE
    /\ todo' = {u \in Uuids : Exists(u)}
    /\ boot' = "check"
    /\ UNCHANGED <<libvirt, layers, events, manager, threads, loop, active, counters>>

SweepChecks(u) ==
    /\ boot = "check" /\ u \in todo
    /\ Exists(u)
    /\ active' = IF run[u] # "off" THEN active \cup {u} ELSE active
    /\ todo' = todo \ {u}
    /\ UNCHANGED <<libvirt, layers, listening, events, manager, threads, loop, boot, counters>>

\* isActive raises for a domain that vanished after it was listed.
SweepAborts(u) ==
    /\ boot = "check" /\ u \in todo
    /\ ~Exists(u)
    /\ boot' = "up" /\ active' = {} /\ todo' = {}
    /\ UNCHANGED <<libvirt, layers, listening, events, manager, threads, loop, counters>>

\* Mutant: the active domains are not left out.
Orphans_All == {u \in Uuids : layers[u] > 0}
Orphans == {u \in Uuids : layers[u] > 0 /\ u \notin active}

SweepScans ==
    /\ boot = "check" /\ todo = {}
    /\ todo' = Orphans
    /\ boot' = "sweep"
    /\ UNCHANGED <<libvirt, layers, listening, events, manager, threads, loop, active,
                   counters>>

SweepCleans(u) ==
    /\ boot = "sweep" /\ u \in todo
    /\ layers' = Popped(u)
    /\ todo' = todo \ {u}
    /\ UNCHANGED <<libvirt, listening, events, manager, threads, loop, boot, active, counters>>

SweepEnds ==
    /\ boot = "sweep" /\ todo = {}
    /\ boot' = "up" /\ active' = {}
    /\ UNCHANGED <<libvirt, layers, listening, events, manager, threads, loop, todo, counters>>

SweepStep ==
    \/ SweepLists \/ SweepScans \/ SweepEnds
    \/ \E u \in Uuids : SweepChecks(u) \/ SweepAborts(u) \/ SweepCleans(u)

-----------------------------------------------------------------------------
\* The process dies: its memory and its queued events are lost, no finally block
\* runs; mounts and domains stay. The service starts the process again.
Restart ==
    /\ restarts < MaxRestarts
    /\ restarts' = restarts + 1
    /\ listening' = FALSE /\ events' = <<>>
    /\ started' = {} /\ lock' = Nobody /\ held' = FALSE
    /\ dropped' = [u \in Uuids |-> 0]
    /\ pc' = [c \in Callers |-> "idle"]
    /\ left' = [c \in Callers |-> 0]
    /\ loop' = "idle"
    /\ boot' = "startup" /\ active' = {} /\ todo' = {}
    /\ UNCHANGED <<libvirt, layers, arg, calls>>

CallerStep(c) == StartStep(c) \/ StopStep(c)

Next ==
    \/ \E u \in Uuids : GuestShutsDown(u) \/ GuestStops(u) \/ Finalize(u)
    \/ \E c \in Callers, op \in Ops, u \in Uuids : Call(c, op, u)
    \/ \E c \in Callers : CallerStep(c)
    \/ EventStep
    \/ SweepStep
    \/ Restart

Spec == Init /\ [][Next]_vars

\* Threads that can run do run; nothing obliges guests to stop, callers to call or
\* the process to crash. A dropped object is finalized some day.
Fairness ==
    /\ \A c \in Callers : WF_vars(CallerStep(c))
    /\ WF_vars(EventStep)
    /\ WF_vars(SweepStep)
    /\ \A u \in Uuids : WF_vars(Finalize(u))

FairSpec == Spec /\ Fairness

-----------------------------------------------------------------------------
(* Properties *)

\* Whatever callers do and whenever the process crashes: an entry of
\* started_domains whose domain, still defined, no longer runs has its STOPPED
\* event queued or in handling. start's "should not happen" branch meets exactly
\* such entries: it only ever anticipates the callback.
StaleEntryAwaitsItsStop ==
    \A u \in started : run[u] = "off" /\ persistent[u] => u \in Queued

\* The invariant that makes it so: the lock is held by the start in its critical
\* section or by the callback past it, an entry never coexists with a start or an
\* unwinding of the same uuid, whoever has (or is about to record) an entry is
\* connected and so hears of the stop, and the stop of a domain that is created but
\* not yet recorded waits in the queue.
LockIsHeld ==
    /\ \A c \in Callers : InStart(c) <=> lock = c
    /\ loop \in {"unwind", "sweep"} <=> lock = EventLoop
EntryIsAlone ==
    /\ \A c \in Callers : InStart(c) => arg[c] \notin started
    /\ loop \in {"unwind", "sweep"} => Head(events) \notin started
EntriesHear ==
    started # {} \/ (\E c \in Callers : pc[c] \in {"create", "record"}) => listening
CreatedAwaitsItsStop ==
    \A c \in Callers : pc[c] = "record" /\ run[arg[c]] = "off" /\ persistent[arg[c]]
                         => arg[c] \in Queued
EntryInv ==
    /\ LockIsHeld /\ EntryIsAlone /\ EntriesHear
    /\ loop # "idle" => events # <<>>
    /\ CreatedAwaitsItsStop /\ StaleEntryAwaitsItsStop

\* When callers start a domain only after its last stop has been handled, no
\* clean-up (callback, sweep at start-up, rollback of a start, finalizer) ever takes
\* away what a domain that runs has staged, whatever crashes in between.
RunningKeepsStaging ==
    \A u \in Uuids : run[u] # "off" => layers[u] > 0

\* Who will look at what is staged for u: a queued event, a start in progress, a
\* finalizer or the start-up sweep.
Owed(u) ==
    \/ u \in Queued
    \/ \E c \in Callers : arg[c] = u /\ pc[c] \in {"define", "create", "undo"}
    \/ dropped[u] > 0
    \/ boot = "startup"
    \/ boot = "check" /\ u \notin active
    \/ boot = "sweep" /\ u \in todo

\* With such callers, and no delete, nothing is staged for a domain that does not run
\* that nobody will look at.
LeftoversAreOwed ==
    \A u \in Uuids : run[u] = "off" /\ layers[u] > 0 => Owed(u)

\* With such callers and no delete the manager implements the contract in Staging:
\* a domain goes live only on what was staged for it, nothing is cleared under it,
\* and what it leaves when it stops is cleared, crashes in between included.
Phase == [u \in Uuids |-> IF run[u] # "off" THEN "live"
                          ELSE IF layers[u] > 0 THEN "staged" ELSE "clear"]
Contract == INSTANCE Staging WITH phase <- Phase
ImplementsStaging == Contract!FairSpec

\* Every call returns: start and the callback share a lock and neither keeps it, and
\* shutdown gives up on a guest that ignores it.
CallsReturn == \A c \in Callers : pc[c] # "idle" ~> pc[c] = "idle"

\* src/truenas_pylibvirt/runtime.py:12-14 calls the STOPPED/UNDEFINED callback the
\* "authoritative cleanup": once it is through with an event, with no call in
\* progress and no finalizer due, a domain that does not run has nothing staged left.
Handled(u) == loop' = "idle" /\ events # <<>> /\ u = Head(events) /\ events' = Tail(events)
CallbackCleansUp ==
    [][\A u \in Uuids :
         /\ Handled(u) /\ restarts' = restarts
         /\ dropped[u] = 0 /\ \A c \in Callers : pc[c] = "idle"
         => run[u] # "off" \/ layers'[u] = 0]_vars

=============================================================================
