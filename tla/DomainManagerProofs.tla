------------------------ MODULE DomainManagerProofs ------------------------
(***************************************************************************)
(* Theorems about DomainManager, for every set of domains, every number of *)
(* callers, whatever they call, and every number of crashes.               *)
(***************************************************************************)
EXTENDS DomainManager, SequenceTheorems, TLAPS

-----------------------------------------------------------------------------
(* Type correctness *)

LEMMA TypeInit == Init => TypeOK
<1> SUFFICES ASSUME Init PROVE TypeOK
  OBVIOUS
<1>1. events \in Seq(Uuids)
  BY EmptySeq DEF Init
<1>2. pc \in [Callers -> Places]
  BY DEF Init, Places
<1>3. /\ run \in [Uuids -> {"off", "running", "paused", "stopping"}]
      /\ layers \in [Uuids -> Nat] /\ dropped \in [Uuids -> Nat]
      /\ left \in [Callers -> Nat]
      /\ calls \in Nat /\ restarts \in Nat
  BY DEF Init
<1> QED
  BY <1>1, <1>2, <1>3, Zenon DEF Init, TypeOK

LEMMA PoppedType ==
  ASSUME TypeOK, NEW u \in Uuids
  PROVE  Popped(u) \in [Uuids -> Nat] /\ Pushed(u) \in [Uuids -> Nat]
BY DEF TypeOK, Popped, Pushed

LEMMA EmitType ==
  ASSUME TypeOK, NEW u \in Uuids, Emit(u)
  PROVE  events' \in Seq(Uuids)
BY AppendProperties DEF TypeOK, Emit

LEMMA RaiseType ==
  ASSUME TypeOK, NEW c \in Callers, NEW more \in {0, 1}, Raise(c, more)
  PROVE  /\ dropped' \in [Uuids -> Nat]
         /\ held' \in BOOLEAN
         /\ lock' \in Callers \cup {EventLoop, Nobody}
         /\ pc' \in [Callers -> Places]
<1>1. dropped' \in [Uuids -> Nat]
  <2>1. CASE held
    BY <2>1 DEF Raise, TypeOK
  <2>2. CASE ~held
    BY <2>2 DEF Raise, TypeOK
  <2> QED
    BY <2>1, <2>2
<1>2. pc' \in [Callers -> Places]
  BY DEF Raise, Goto, TypeOK, Places
<1> QED
  BY <1>1, <1>2 DEF Raise, Release

LEMMA TypeStart ==
  ASSUME TypeOK, NEW c \in Callers, StartStep(c)
  PROVE  TypeOK'
<1> USE DEF libvirt, threads, sweeper, manager, counters, Goto, Release
<1>1. CASE StartLock(c)
  BY <1>1 DEF StartLock, TypeOK, Places, StartPlaces, StopPlaces
<1>2. CASE StartLooksUp(c)
  BY <1>2 DEF StartLooksUp, TypeOK, Places, StartPlaces, StopPlaces
<1>3. CASE StartFindsStopped(c)
  BY <1>3, PoppedType DEF StartFindsStopped, TypeOK, Places, StartPlaces, StopPlaces
<1>4. CASE StartRefuses(c)
  BY <1>4, RaiseType DEF StartRefuses, TypeOK
<1>5. CASE StartInvalid(c)
  BY <1>5, RaiseType DEF StartInvalid, TypeOK
<1>6. CASE StageOk(c)
  BY <1>6, PoppedType DEF StageOk, TypeOK, Places, StartPlaces, StopPlaces
<1>7. CASE StageDeviceFails(c)
  <2>1. layers' \in [Uuids -> Nat]
    BY <1>7, PoppedType DEF StageDeviceFails, TypeOK
  <2> QED
    BY <1>7, <2>1, RaiseType DEF StageDeviceFails, TypeOK
<1>8. CASE StageRootFails(c)
  <2>1. layers' \in [Uuids -> Nat]
    BY <1>8, PoppedType DEF StageRootFails, TypeOK
  <2> QED
    BY <1>8, <2>1, RaiseType DEF StageRootFails, TypeOK
<1>9. CASE Define(c)
  BY <1>9 DEF Define, TypeOK, Places, StartPlaces, StopPlaces
<1>10. CASE CreateOk(c)
  BY <1>10 DEF CreateOk, TypeOK, Places, StartPlaces, StopPlaces
<1>11. CASE CreateFails(c)
  BY <1>11 DEF CreateFails, TypeOK, Places, StartPlaces, StopPlaces
<1>12. CASE StartRecords(c)
  BY <1>12 DEF StartRecords, TypeOK, Places, StartPlaces, StopPlaces
<1>13. CASE StartUnwinds(c)
  BY <1>13, PoppedType DEF StartUnwinds, TypeOK, Places, StartPlaces, StopPlaces
<1> QED
  BY <1>1, <1>2, <1>3, <1>4, <1>5, <1>6, <1>7, <1>8, <1>9, <1>10, <1>11, <1>12, <1>13
  DEF StartStep

LEMMA TypeStop ==
  ASSUME TypeOK, NEW c \in Callers, StopStep(c)
  PROVE  TypeOK'
<1> USE DEF libvirt, threads, sweeper, manager, counters, Goto
<1>0. Timeout \in Nat
  BY Bounds
<1>1. CASE StopChecks(c)
  <2>1. pc' \in [Callers -> Places]
    BY <1>1 DEF StopChecks, TypeOK, Places, StopPlaces
  <2>2. left' \in [Callers -> Nat]
    BY <1>0, <1>1 DEF StopChecks, TypeOK
  <2> QED
    BY <1>1, <2>1, <2>2 DEF StopChecks, TypeOK, Places, StartPlaces, StopPlaces
<1>2. CASE Destroys(c)
  BY <1>2, EmitType DEF Destroys, Destroyed, TypeOK, Places, StartPlaces, StopPlaces
<1>3. CASE Suspends(c)
  BY <1>3 DEF Suspends, TypeOK, Places, StartPlaces, StopPlaces
<1>4. CASE ShutdownPolls(c)
  <2>1. pc' \in [Callers -> Places]
    BY <1>4 DEF ShutdownPolls, TypeOK, Places
  <2>2. left' \in [Callers -> Nat]
    <3>1. left[c] \in Nat /\ (left[c] > 0 => left[c] - 1 \in Nat)
      BY DEF TypeOK
    <3>2. PICK n \in Nat : left' = [left EXCEPT ![c] = n]
      BY <1>4, <3>1 DEF ShutdownPolls
    <3> QED
      BY <3>2 DEF TypeOK
  <2> QED
    BY <1>4, <2>1, <2>2 DEF ShutdownPolls, TypeOK
<1>5. CASE ResumeChecks(c)
  BY <1>5 DEF ResumeChecks, TypeOK, Places, StartPlaces, StopPlaces
<1>6. CASE Resumes(c)
  BY <1>6 DEF Resumes, TypeOK, Places, StartPlaces, StopPlaces
<1>7. CASE DeleteChecks(c)
  BY <1>7 DEF DeleteChecks, TypeOK, Places, StartPlaces, StopPlaces
<1>8. CASE DeleteForces(c)
  BY <1>8, EmitType DEF DeleteForces, Destroyed, TypeOK, Places, StartPlaces, StopPlaces
<1>9. CASE DeleteSleeps(c)
  BY <1>9 DEF DeleteSleeps, TypeOK, Places, StartPlaces, StopPlaces
<1>10. CASE Undefines(c)
  BY <1>10, EmitType DEF Undefines, TypeOK, Places, StartPlaces, StopPlaces
<1> QED
  BY <1>1, <1>2, <1>3, <1>4, <1>5, <1>6, <1>7, <1>8, <1>9, <1>10 DEF StopStep

LEMMA TailType ==
  ASSUME TypeOK, events # <<>>
  PROVE  Head(events) \in Uuids /\ Tail(events) \in Seq(Uuids)
BY HeadTailProperties DEF TypeOK

LEMMA TypeEvent ==
  ASSUME TypeOK, loop # "idle" => events # <<>>, EventStep
  PROVE  TypeOK'
<1> USE DEF libvirt, threads, sweeper, manager, counters
<1>1. CASE EvIgnores
  BY <1>1, TailType DEF EvIgnores, TypeOK
<1>2. CASE EvTakes
  BY <1>2 DEF EvTakes, TypeOK
<1>3. CASE EvLocks
  BY <1>3 DEF EvLocks, TypeOK
<1>4. CASE EvUnwinds
  BY <1>4, TailType, PoppedType DEF EvUnwinds, TypeOK
<1>5. CASE EvSweeps
  BY <1>5, TailType, PoppedType DEF EvSweeps, TypeOK, Release
<1> QED
  BY <1>1, <1>2, <1>3, <1>4, <1>5 DEF EventStep

LEMMA TypeSweep ==
  ASSUME TypeOK, SweepStep
  PROVE  TypeOK'
<1> USE DEF libvirt, threads, manager, counters
<1>1. CASE SweepLists
  BY <1>1 DEF SweepLists, TypeOK
<1>2. CASE SweepScans
  BY <1>2 DEF SweepScans, Orphans, TypeOK
<1>3. CASE SweepEnds
  BY <1>3 DEF SweepEnds, TypeOK
<1>4. ASSUME NEW u \in Uuids, SweepChecks(u) PROVE TypeOK'
  BY <1>4 DEF SweepChecks, TypeOK
<1>5. ASSUME NEW u \in Uuids, SweepAborts(u) PROVE TypeOK'
  BY <1>5 DEF SweepAborts, TypeOK
<1>6. ASSUME NEW u \in Uuids, SweepCleans(u) PROVE TypeOK'
  BY <1>6, PoppedType DEF SweepCleans, TypeOK
<1> QED
  BY <1>1, <1>2, <1>3, <1>4, <1>5, <1>6 DEF SweepStep

LEMMA TypeStep ==
  ASSUME TypeOK, loop # "idle" => events # <<>>, [Next]_vars
  PROVE  TypeOK'
<1> USE DEF libvirt, threads, sweeper, manager, counters
<1>1. ASSUME NEW u \in Uuids, GuestShutsDown(u) PROVE TypeOK'
  BY <1>1 DEF GuestShutsDown, TypeOK
<1>2. ASSUME NEW u \in Uuids, GuestStops(u) PROVE TypeOK'
  BY <1>2, EmitType DEF GuestStops, TypeOK
<1>3. ASSUME NEW u \in Uuids, Finalize(u) PROVE TypeOK'
  <2>1. dropped' \in [Uuids -> Nat]
    BY <1>3 DEF Finalize, TypeOK
  <2> QED
    BY <1>3, <2>1, PoppedType DEF Finalize, TypeOK
<1>4. ASSUME NEW c \in Callers, NEW op \in Ops, NEW u \in Uuids, Call(c, op, u)
      PROVE  TypeOK'
  <2>1. pc' \in [Callers -> Places]
    BY <1>4, OpsAreOperations DEF Call, Goto, TypeOK, Places
  <2>2. arg' \in [Callers -> Uuids] /\ calls' \in Nat
    BY <1>4 DEF Call, TypeOK
  <2> QED
    BY <1>4, <2>1, <2>2 DEF Call, TypeOK
<1>5. ASSUME NEW c \in Callers, CallerStep(c) PROVE TypeOK'
  BY <1>5, TypeStart, TypeStop DEF CallerStep
<1>6. CASE Restart
  <2>1. events' \in Seq(Uuids)
    BY <1>6, EmptySeq DEF Restart
  <2>2. pc' \in [Callers -> Places]
    BY <1>6 DEF Restart, Places
  <2>3. /\ dropped' \in [Uuids -> Nat] /\ left' \in [Callers -> Nat]
        /\ calls' \in Nat /\ restarts' \in Nat
    BY <1>6 DEF Restart, TypeOK
  <2> QED
    BY <1>6, <2>1, <2>2, <2>3, Zenon DEF Restart, TypeOK
<1>7. CASE UNCHANGED vars
  BY <1>7 DEF vars, TypeOK
<1> QED
  BY <1>1, <1>2, <1>3, <1>4, <1>5, <1>6, <1>7, TypeEvent, TypeSweep DEF Next

-----------------------------------------------------------------------------
(* The queue of events *)

\* Who is queued after an event was added, and after the head was taken off.
LEMMA QueueGrows ==
  ASSUME TypeOK, NEW u \in Uuids, events' = Append(events, u)
  PROVE  Queued' = Queued \cup {u}
<1>1. /\ Len(events) \in Nat /\ DOMAIN events = 1 .. Len(events)
      /\ DOMAIN events' = 1 .. Len(events) + 1
      /\ \A i \in 1 .. Len(events) : events'[i] = events[i]
      /\ events'[Len(events) + 1] = u
  BY AppendProperties, LenProperties DEF TypeOK
<1> QED
  BY <1>1 DEF Queued

LEMMA QueueShrinks ==
  ASSUME TypeOK, events # <<>>, events' = Tail(events)
  PROVE  Queued \ {Head(events)} \subseteq Queued'
<1> SUFFICES ASSUME NEW v \in Queued, v # Head(events) PROVE v \in Queued'
  OBVIOUS
<1>1. PICK i \in 1 .. Len(events) : v = events[i]
  BY LenProperties DEF Queued, TypeOK
<1>2. i # 1
  BY <1>1
<1>3. /\ Len(events) \in Nat /\ Tail(events) \in Seq(Uuids)
      /\ Len(Tail(events)) = Len(events) - 1
      /\ \A j \in 1 .. Len(Tail(events)) : Tail(events)[j] = events[j + 1]
  BY HeadTailProperties, LenProperties DEF TypeOK
<1>4. i - 1 \in 1 .. Len(Tail(events)) /\ Tail(events)[i - 1] = v
  BY <1>1, <1>2, <1>3
<1>5. DOMAIN Tail(events) = 1 .. Len(Tail(events))
  BY <1>3, LenProperties
<1> QED
  BY <1>4, <1>5 DEF Queued

LEMMA TailQueued ==
  ASSUME TypeOK, events # <<>>, events' = Tail(events)
  PROVE  Queued' \subseteq Queued
<1>1. /\ Len(events) \in Nat /\ Tail(events) \in Seq(Uuids)
      /\ Len(Tail(events)) = Len(events) - 1
      /\ \A j \in 1 .. Len(Tail(events)) : Tail(events)[j] = events[j + 1]
      /\ DOMAIN events = 1 .. Len(events)
  BY HeadTailProperties, LenProperties DEF TypeOK
<1>2. DOMAIN Tail(events) = 1 .. Len(Tail(events))
  BY <1>1, LenProperties
<1>3. \A j \in DOMAIN Tail(events) : j + 1 \in DOMAIN events /\ Tail(events)[j] = events[j + 1]
  BY <1>1, <1>2
<1> QED
  BY <1>3 DEF Queued

LEMMA QueueKept ==
  ASSUME UNCHANGED events
  PROVE  Queued' = Queued
BY DEF Queued

\* An event that is emitted leaves the queue no shorter; a client that listens
\* gets it. The event in handling stays at the head.
LEMMA StopHeard ==
  ASSUME TypeOK, NEW u \in Uuids, Emit(u)
  PROVE  /\ Queued \subseteq Queued'
         /\ listening => u \in Queued'
         /\ events # <<>> => events' # <<>> /\ Head(events') = Head(events)
<1>1. CASE listening
  <2>1. events' = Append(events, u)
    BY <1>1 DEF Emit
  <2>2. events # <<>> => events' # <<>> /\ Head(events') = Head(events)
    BY <2>1, AppendProperties, EmptySeq, LenProperties DEF TypeOK
  <2> QED
    BY <2>1, <2>2, QueueGrows
<1>2. CASE ~listening
  BY <1>2, QueueKept DEF Emit
<1> QED
  BY <1>1, <1>2 DEF TypeOK

-----------------------------------------------------------------------------
(* EntryInv is inductive *)

LEMMA EntryInit == Init => EntryInv
BY LockOwners DEF Init, EntryInv, LockIsHeld, EntryIsAlone, EntriesHear, CreatedAwaitsItsStop,
   StaleEntryAwaitsItsStop, InStart, StartPlaces

\* Steps outside start and the callback: they leave entries, lock and places in start
\* alone, and a domain that stops is heard of.
Aside ==
    /\ UNCHANGED <<started, lock, arg, loop>>
    /\ listening => listening'
    /\ \A d \in Callers : pc[d] \in StartPlaces \/ pc'[d] \in StartPlaces => pc'[d] = pc[d]
    /\ Queued \subseteq Queued'
    /\ events # <<>> => events' # <<>> /\ Head(events') = Head(events)
    /\ \A u \in Uuids : listening /\ run'[u] = "off" /\ persistent'[u] =>
                         (run[u] = "off" /\ persistent[u]) \/ u \in Queued'

LEMMA EntryAside ==
  ASSUME TypeOK, EntryInv, Aside
  PROVE  EntryInv'
<1> USE DEF Aside
<1>1. LockIsHeld'
  BY DEF EntryInv, LockIsHeld, InStart
<1>2. EntryIsAlone'
  BY DEF EntryInv, EntryIsAlone, LockIsHeld, InStart, TypeOK
<1>3. EntriesHear'
  BY DEF EntryInv, EntriesHear, StartPlaces
<1>4. CreatedAwaitsItsStop'
  <2> SUFFICES ASSUME NEW c \in Callers, pc'[c] = "record", run'[arg'[c]] = "off",
                      persistent'[arg'[c]]
               PROVE  arg'[c] \in Queued'
    BY DEF CreatedAwaitsItsStop
  <2>1. pc[c] = "record" /\ arg'[c] = arg[c] /\ arg[c] \in Uuids /\ listening
    BY DEF StartPlaces, EntryInv, EntriesHear, TypeOK
  <2> QED
    BY <2>1 DEF EntryInv, CreatedAwaitsItsStop
<1>5. StaleEntryAwaitsItsStop'
  BY DEF EntryInv, EntriesHear, StaleEntryAwaitsItsStop, TypeOK
<1> QED
  BY <1>1, <1>2, <1>3, <1>4, <1>5 DEF EntryInv

LEMMA EntryStart ==
  ASSUME TypeOK, EntryInv, NEW c \in Callers, StartStep(c)
  PROVE  EntryInv'
<1> USE LockOwners DEF libvirt, threads, sweeper, manager, counters, Goto, Release,
        EntryInv, LockIsHeld, EntryIsAlone, EntriesHear, CreatedAwaitsItsStop,
        StaleEntryAwaitsItsStop, InStart, StartPlaces
<1>0. Queued' = Queued
  BY QueueKept DEF StartStep, StartLock, StartLooksUp, StartFindsStopped, StartRefuses,
     StartInvalid, StageOk, StageDeviceFails, StageRootFails, Define, CreateOk, CreateFails,
     StartRecords, StartUnwinds
<1>1. CASE StartLock(c)
  BY <1>0, <1>1 DEF StartLock, TypeOK
<1>2. CASE StartLooksUp(c)
  BY <1>0, <1>2 DEF StartLooksUp, TypeOK
<1>3. CASE StartFindsStopped(c)
  BY <1>0, <1>3 DEF StartFindsStopped, TypeOK
<1>4. CASE StartRefuses(c)
  BY <1>0, <1>4 DEF StartRefuses, Raise, TypeOK
<1>5. CASE StartInvalid(c)
  BY <1>0, <1>5 DEF StartInvalid, Raise, TypeOK
<1>6. CASE StageOk(c)
  BY <1>0, <1>6 DEF StageOk, TypeOK
<1>7. CASE StageDeviceFails(c)
  BY <1>0, <1>7 DEF StageDeviceFails, Raise, TypeOK
<1>8. CASE StageRootFails(c)
  BY <1>0, <1>8 DEF StageRootFails, Raise, TypeOK
<1>9. CASE Define(c)
  <2>1. lock = c /\ arg[c] \notin started /\ listening'
    BY <1>9 DEF Define
  <2>2. /\ pc'[c] \in {"create", "undo"}
        /\ \A d \in Callers \ {c} : pc'[d] = pc[d] /\ ~InStart(d)
    BY <1>9, <2>1 DEF Define, TypeOK
  <2>3. \A u \in started : persistent'[u] = persistent[u]
    BY <1>9, <2>1 DEF Define, TypeOK
  <2> QED
    BY <1>0, <1>9, <2>1, <2>2, <2>3 DEF Define
<1>10. CASE CreateOk(c)
  BY <1>0, <1>10 DEF CreateOk, TypeOK
<1>11. CASE CreateFails(c)
  BY <1>0, <1>11 DEF CreateFails, TypeOK
<1>12. CASE StartRecords(c)
  BY <1>0, <1>12 DEF StartRecords, TypeOK
<1>13. CASE StartUnwinds(c)
  BY <1>0, <1>13 DEF StartUnwinds, TypeOK
<1> QED
  BY <1>1, <1>2, <1>3, <1>4, <1>5, <1>6, <1>7, <1>8, <1>9, <1>10, <1>11, <1>12, <1>13 DEF StartStep

LEMMA EntryStop ==
  ASSUME TypeOK, EntryInv, NEW c \in Callers, StopStep(c)
  PROVE  EntryInv'
<1>0. arg[c] \in Uuids
  BY DEF TypeOK
<1> SUFFICES Aside
  BY EntryAside
<1> USE <1>0 DEF libvirt, threads, sweeper, manager, counters, Goto, Aside, StartPlaces
<1>1. CASE StopChecks(c)
  BY <1>1, QueueKept DEF StopChecks, TypeOK
<1>2. CASE Destroys(c)
  BY <1>2, StopHeard, QueueKept DEF Destroys, Destroyed, TypeOK
<1>3. CASE Suspends(c)
  BY <1>3, QueueKept DEF Suspends, TypeOK
<1>4. CASE ShutdownPolls(c)
  BY <1>4, QueueKept DEF ShutdownPolls, TypeOK
<1>5. CASE ResumeChecks(c)
  BY <1>5, QueueKept DEF ResumeChecks, TypeOK
<1>6. CASE Resumes(c)
  BY <1>6, QueueKept DEF Resumes, TypeOK
<1>7. CASE DeleteChecks(c)
  BY <1>7, QueueKept DEF DeleteChecks, TypeOK
<1>8. CASE DeleteForces(c)
  BY <1>8, StopHeard, QueueKept DEF DeleteForces, Destroyed, TypeOK
<1>9. CASE DeleteSleeps(c)
  BY <1>9, QueueKept DEF DeleteSleeps, TypeOK
<1>10. CASE Undefines(c)
  BY <1>10, StopHeard, QueueKept DEF Undefines, TypeOK
<1> QED
  BY <1>1, <1>2, <1>3, <1>4, <1>5, <1>6, <1>7, <1>8, <1>9, <1>10 DEF StopStep

LEMMA EntryEvent ==
  ASSUME TypeOK, EntryInv, EventStep
  PROVE  EntryInv'
<1> USE LockOwners DEF libvirt, threads, sweeper, manager, counters, Release,
        EntryInv, LockIsHeld, EntryIsAlone, EntriesHear, CreatedAwaitsItsStop,
        StaleEntryAwaitsItsStop, InStart, StartPlaces
<1>1. CASE EvIgnores
  <2>1. Queued \ {Head(events)} \subseteq Queued' /\ ~persistent[Head(events)]
    BY <1>1, QueueShrinks DEF EvIgnores, Exists, TypeOK
  <2> QED
    BY <1>1, <2>1 DEF EvIgnores, TypeOK
<1>2. CASE EvTakes
  BY <1>2, QueueKept DEF EvTakes, TypeOK
<1>3. CASE EvLocks
  BY <1>3, QueueKept DEF EvLocks, TypeOK
<1>4. CASE EvUnwinds
  BY <1>4, QueueKept DEF EvUnwinds, TypeOK
<1>5. CASE EvSweeps
  <2>1. /\ Queued \ {Head(events)} \subseteq Queued'
        /\ Head(events) \notin started
        /\ \A c \in Callers : ~InStart(c)
    BY <1>5, QueueShrinks DEF EvSweeps
  <2> QED
    BY <1>5, <2>1 DEF EvSweeps, TypeOK
<1> QED
  BY <1>1, <1>2, <1>3, <1>4, <1>5 DEF EventStep

LEMMA EntrySweep ==
  ASSUME TypeOK, EntryInv, SweepStep
  PROVE  EntryInv'
<1>1. UNCHANGED <<run, persistent, events, started, lock, pc, arg, loop>>
  BY DEF SweepStep, SweepLists, SweepScans, SweepEnds, SweepChecks, SweepAborts, SweepCleans,
     libvirt, manager, threads
<1>2. listening => listening'
  BY DEF SweepStep, SweepLists, SweepScans, SweepEnds, SweepChecks, SweepAborts, SweepCleans
<1> QED
  BY <1>1, <1>2, QueueKept, EntryAside DEF Aside

LEMMA EntryStep ==
  ASSUME TypeOK, EntryInv, [Next]_vars
  PROVE  EntryInv'
<1> USE DEF libvirt, threads, sweeper, manager, counters, Goto
<1>1. ASSUME NEW u \in Uuids, GuestShutsDown(u) PROVE EntryInv'
  BY <1>1, QueueKept, EntryAside DEF GuestShutsDown, Aside, TypeOK
<1>2. ASSUME NEW u \in Uuids, GuestStops(u) PROVE EntryInv'
  BY <1>2, StopHeard, EntryAside DEF GuestStops, Aside, TypeOK
<1>3. ASSUME NEW u \in Uuids, Finalize(u) PROVE EntryInv'
  BY <1>3, QueueKept, EntryAside DEF Finalize, Aside
<1>4. ASSUME NEW c \in Callers, NEW op \in Ops, NEW u \in Uuids, Call(c, op, u)
      PROVE  EntryInv'
  <2>1. /\ pc[c] = "idle" /\ pc'[c] \in Operations
        /\ \A d \in Callers \ {c} : pc'[d] = pc[d] /\ arg'[d] = arg[d]
    BY <1>4, OpsAreOperations DEF Call, TypeOK
  <2>2. \A d \in Callers : \/ d = c /\ ~InStart(c) /\ ~InStart(c)'
                              /\ pc'[c] \notin {"create", "record"}
                           \/ pc'[d] = pc[d] /\ arg'[d] = arg[d]
    BY <2>1 DEF InStart, StartPlaces, Operations
  <2>3. Queued' = Queued
    BY <1>4, QueueKept DEF Call
  <2> QED
    BY <1>4, <2>2, <2>3 DEF Call, EntryInv, LockIsHeld, EntryIsAlone, EntriesHear,
       CreatedAwaitsItsStop, StaleEntryAwaitsItsStop, InStart
<1>5. ASSUME NEW c \in Callers, CallerStep(c) PROVE EntryInv'
  BY <1>5, EntryStart, EntryStop DEF CallerStep
<1>6. CASE Restart
  BY <1>6, LockOwners DEF Restart, EntryInv, LockIsHeld, EntryIsAlone, EntriesHear,
     CreatedAwaitsItsStop, StaleEntryAwaitsItsStop, InStart, StartPlaces
<1>7. CASE UNCHANGED vars
  BY <1>7, QueueKept, EntryAside DEF vars, Aside
<1> QED
  BY <1>1, <1>2, <1>3, <1>4, <1>5, <1>6, <1>7, EntryEvent, EntrySweep DEF Next

-----------------------------------------------------------------------------
(* The theorems *)

\* Every variable keeps its type and the entry invariant holds: the lock is held by
\* whoever is in a critical section, and by nobody else.
THEOREM EntriesAreSafe == Spec => [](TypeOK /\ EntryInv)
<1>1. Init => TypeOK /\ EntryInv
  BY TypeInit, EntryInit
<1>2. TypeOK /\ EntryInv /\ [Next]_vars => (TypeOK /\ EntryInv)'
  BY TypeStep, EntryStep DEF EntryInv
<1> QED
  BY <1>1, <1>2, PTL DEF Spec

\* Type correctness, for every instance.
THEOREM Typing == Spec => []TypeOK
BY EntriesAreSafe, PTL

\* An entry of started_domains whose domain is defined but does not run is about to be
\* removed by the callback, for any callers and any crashes.
THEOREM StaleEntries == Spec => []StaleEntryAwaitsItsStop
<1>1. EntryInv => StaleEntryAwaitsItsStop
  BY DEF EntryInv
<1> QED
  BY <1>1, EntriesAreSafe, PTL

-----------------------------------------------------------------------------
(* Callers that start a domain only once its last stop is handled, no delete *)

Starting(c) == pc[c] = "start" \/ InStart(c)

\* No two calls start the same domain, and the domain being started is at rest: it
\* has no entry, no queued stop, no finalizer due, and exactly what the start itself
\* has staged so far.
StartsAlone ==
    \A c, d \in Callers : Starting(c) /\ Starting(d) /\ arg[c] = arg[d] => c = d
StartsAtRest ==
    \A c \in Callers : Starting(c) =>
        /\ pc[c] \notin {"lookup", "state"}
        /\ dropped[arg[c]] = 0 /\ arg[c] \notin started
        /\ pc[c] # "record" => run[arg[c]] = "off" /\ arg[c] \notin Queued
        /\ pc[c] \in {"start", "stage"} => layers[arg[c]] = 0
        /\ pc[c] \in {"define", "create", "undo"} => layers[arg[c]] = 1
        /\ pc[c] \in {"create", "record"} => persistent[arg[c]]

\* A domain that runs has its definition and one layer, and nothing is due that would
\* take the layer away.
LiveIsSettled ==
    \A u \in Uuids : run[u] # "off" =>
        layers[u] = 1 /\ dropped[u] = 0 /\ u \notin Queued /\ persistent[u]

\* The start-up sweep, which no call overlaps, knows the domains that run.
SweepKnows ==
    /\ boot # "up" => \A c \in Callers : pc[c] = "idle"
    /\ IF boot = "startup" THEN active = {} ELSE listening
    /\ boot = "check" => \A u \in Uuids : /\ run[u] # "off" => u \in todo \cup active
                                          /\ u \in todo => persistent[u]
    /\ boot = "sweep" => \A u \in todo : run[u] = "off"

CarefulInv ==
    /\ ~held
    /\ \A c \in Callers : pc[c] \notin {"delete", "forcing", "sleeping", "undefining"}
    /\ \A u \in Uuids : layers[u] <= 1
    /\ \A u \in Queued \cup started : persistent[u]
    /\ StartsAlone /\ StartsAtRest /\ LiveIsSettled /\ SweepKnows
    /\ LeftoversAreOwed

LEMMA CarefulInit == Init => CarefulInv
<1> SUFFICES ASSUME Init PROVE CarefulInv
  OBVIOUS
<1>1. Queued = {}
  BY DEF Init, Queued
<1> QED
  BY <1>1 DEF Init, CarefulInv, StartsAlone, StartsAtRest, LiveIsSettled, SweepKnows,
     LeftoversAreOwed, Owed, Starting, InStart, StartPlaces

\* Steps that leave to every domain what is staged for it, and do not stop it.
Calm ==
    /\ UNCHANGED <<persistent, layers, events, started, held, dropped, arg, boot, active, todo>>
    /\ listening => listening'
    /\ \A u \in Uuids : run'[u] = "off" <=> run[u] = "off"

\* Places of callers outside start: a step there neither enters nor leaves start.
Bystanders ==
    \A c \in Callers :
      /\ Starting(c) \/ Starting(c)' => pc'[c] = pc[c]
      /\ pc[c] = "idle" => pc'[c] = "idle"
      /\ pc'[c] \notin {"delete", "forcing", "sleeping", "undefining"}

LEMMA CarefulCalm ==
  ASSUME TypeOK, CarefulInv, Calm, Bystanders
  PROVE  CarefulInv'
<1> USE DEF Calm, Bystanders, Starting, InStart, StartPlaces
<1>0. Queued' = Queued
  BY QueueKept
<1>1. StartsAlone' /\ StartsAtRest'
  BY <1>0 DEF CarefulInv, StartsAlone, StartsAtRest, TypeOK
<1>2. LiveIsSettled'
  BY <1>0 DEF CarefulInv, LiveIsSettled
<1>3. SweepKnows'
  BY DEF CarefulInv, SweepKnows, TypeOK
<1>4. LeftoversAreOwed'
  BY <1>0 DEF CarefulInv, LeftoversAreOwed, Owed
<1> QED
  BY <1>0, <1>1, <1>2, <1>3, <1>4 DEF CarefulInv

\* A domain stops, by itself or because a caller destroys it.
LEMMA CarefulStops ==
  ASSUME TypeOK, CarefulInv, NEW u \in Uuids, run[u] # "off",
         run' = [run EXCEPT ![u] = "off"], Emit(u),
         UNCHANGED <<persistent, layers, listening, started, held, dropped, arg,
                     boot, active, todo>>,
         Bystanders
  PROVE  CarefulInv'
<1> USE DEF Bystanders, Starting, InStart, StartPlaces
<1>1. /\ Queued \subseteq Queued' /\ Queued' \subseteq Queued \cup {u}
      /\ listening => u \in Queued'
  BY StopHeard, QueueGrows, QueueKept DEF Emit
<1>2. layers[u] = 1 /\ dropped[u] = 0 /\ persistent[u]
  BY DEF CarefulInv, LiveIsSettled
<1>3. StartsAlone'
  BY DEF CarefulInv, StartsAlone
<1>4. StartsAtRest'
  BY <1>1, <1>2 DEF CarefulInv, StartsAtRest, TypeOK
<1>5. LiveIsSettled'
  BY <1>1 DEF CarefulInv, LiveIsSettled, TypeOK
<1>6. SweepKnows'
  BY DEF CarefulInv, SweepKnows, TypeOK
<1>7. LeftoversAreOwed'
  <2> SUFFICES ASSUME NEW v \in Uuids, run'[v] = "off", layers'[v] > 0
               PROVE  Owed(v)'
    BY DEF LeftoversAreOwed, Owed
  <2>1. CASE v = u
    BY <1>1, <2>1 DEF CarefulInv, SweepKnows, Owed, TypeOK
  <2>2. CASE v # u
    <3>1. Owed(v)
      BY <2>2 DEF CarefulInv, LeftoversAreOwed, Owed, TypeOK
    <3> QED
      BY <1>1, <3>1 DEF Owed
  <2> QED
    BY <2>1, <2>2
<1> QED
  BY <1>1, <1>2, <1>3, <1>4, <1>5, <1>6, <1>7 DEF CarefulInv

LEMMA CarefulStop ==
  ASSUME TypeOK, CarefulInv, NEW c \in Callers, StopStep(c)
  PROVE  CarefulInv'
<1> USE DEF libvirt, threads, sweeper, manager, counters, Goto
<1>0. /\ arg[c] \in Uuids
      /\ ~DeleteChecks(c) /\ ~DeleteForces(c) /\ ~DeleteSleeps(c) /\ ~Undefines(c)
  BY DEF CarefulInv, DeleteChecks, DeleteForces, DeleteSleeps, Undefines, TypeOK
<1>a. Bystanders
  BY <1>0 DEF StopStep, StopChecks, Destroys, Suspends, ShutdownPolls, ResumeChecks, Resumes,
     Bystanders, Starting, InStart, StartPlaces, CarefulInv, TypeOK
<1>1. CASE StopChecks(c)
  BY <1>1, <1>a, CarefulCalm DEF StopChecks, Calm, TypeOK
<1>2. CASE Destroys(c)
  <2>1. CASE UNCHANGED <<run, events>>
    BY <1>2, <2>1, <1>a, CarefulCalm DEF Destroys, Calm
  <2>2. CASE ~UNCHANGED <<run, events>>
    BY <1>0, <1>2, <2>2, <1>a, CarefulStops DEF Destroys, Destroyed
  <2> QED
    BY <2>1, <2>2
<1>3. CASE Suspends(c)
  BY <1>3, <1>a, CarefulCalm DEF Suspends, Calm, TypeOK
<1>4. CASE ShutdownPolls(c)
  BY <1>4, <1>a, CarefulCalm DEF ShutdownPolls, Calm
<1>5. CASE ResumeChecks(c)
  BY <1>5, <1>a, CarefulCalm DEF ResumeChecks, Calm, TypeOK
<1>6. CASE Resumes(c)
  BY <1>6, <1>a, CarefulCalm DEF Resumes, Calm, TypeOK
<1> QED
  BY <1>0, <1>1, <1>2, <1>3, <1>4, <1>5, <1>6 DEF StopStep

\* What a step of start may do to the domain u it starts; it leaves the others alone.
StartEffect(c, u) ==
    /\ UNCHANGED <<events, arg, boot, active, todo>> /\ (listening => listening')
    /\ \A d \in Callers \ {c} : pc'[d] = pc[d]
    /\ ~held' /\ pc'[c] \in {"idle", "stage", "define", "create", "record", "undo"}
    /\ \A v \in Uuids \ {u} : /\ run'[v] = run[v] /\ persistent'[v] = persistent[v]
                              /\ layers'[v] = layers[v] /\ dropped'[v] = dropped[v]
    /\ \A v \in Uuids \ {u} : v \in started' <=> v \in started
    /\ started' \subseteq Uuids
    /\ u \in started' => persistent'[u]
    /\ persistent[u] => persistent'[u]
    /\ layers'[u] \in {0, 1}
    /\ pc'[c] # "idle" =>
         /\ dropped'[u] = 0 /\ u \notin started'
         /\ pc'[c] # "record" => run'[u] = "off" /\ u \notin Queued
         /\ pc'[c] = "stage" => layers'[u] = 0
         /\ pc'[c] \in {"define", "create", "undo"} => layers'[u] = 1
         /\ pc'[c] \in {"create", "record"} => persistent'[u]
    /\ run'[u] # "off" => /\ layers'[u] = 1 /\ dropped'[u] = 0
                          /\ u \notin Queued /\ persistent'[u]
    /\ run'[u] = "off" /\ layers'[u] > 0 =>
         u \in Queued \/ pc'[c] \in {"define", "create", "undo"} \/ dropped'[u] > 0

LEMMA CarefulEffect ==
  ASSUME TypeOK, CarefulInv, NEW c \in Callers, Starting(c), StartEffect(c, arg[c])
  PROVE  CarefulInv'
<1> DEFINE u == arg[c]
<1> USE DEF StartEffect
<1>1. /\ u \in Uuids
      /\ Queued' = Queued /\ Queued \subseteq Uuids
      /\ boot = "up" /\ boot' = "up"
  <2>1. Queued \subseteq Uuids
    BY ElementOfSeq, LenProperties DEF Queued, TypeOK
  <2> QED
    BY <2>1, QueueKept DEF CarefulInv, SweepKnows, Starting, InStart, StartPlaces, TypeOK
<1>2. \A d \in Callers \ {c} : Starting(d) => arg[d] # u
  BY DEF CarefulInv, StartsAlone
<1>3. StartsAlone'
  BY <1>2 DEF CarefulInv, StartsAlone, Starting, InStart, StartPlaces
<1>4. StartsAtRest'
  <2> SUFFICES ASSUME NEW d \in Callers, Starting(d)'
               PROVE  /\ pc'[d] \notin {"lookup", "state"}
                      /\ dropped'[arg[d]] = 0 /\ arg[d] \notin started'
                      /\ pc'[d] # "record" => run'[arg[d]] = "off" /\ arg[d] \notin Queued
                      /\ pc'[d] \in {"start", "stage"} => layers'[arg[d]] = 0
                      /\ pc'[d] \in {"define", "create", "undo"} => layers'[arg[d]] = 1
                      /\ pc'[d] \in {"create", "record"} => persistent'[arg[d]]
    BY <1>1 DEF StartsAtRest
  <2>1. CASE d = c
    BY <2>1 DEF Starting, InStart, StartPlaces
  <2>2. CASE d # c
    <3>1. Starting(d) /\ pc'[d] = pc[d] /\ arg[d] # u /\ arg[d] \in Uuids
      BY <1>1, <1>2, <2>2 DEF Starting, InStart, TypeOK
    <3> QED
      BY <1>1, <3>1 DEF CarefulInv, StartsAtRest
  <2> QED
    BY <2>1, <2>2
<1>5. LiveIsSettled'
  BY <1>1 DEF CarefulInv, LiveIsSettled
<1>6. SweepKnows'
  BY <1>1 DEF CarefulInv, SweepKnows
<1>7. LeftoversAreOwed'
  <2> SUFFICES ASSUME NEW v \in Uuids, run'[v] = "off", layers'[v] > 0
               PROVE  Owed(v)'
    BY DEF LeftoversAreOwed
  <2>1. CASE v = u
    BY <1>1, <2>1 DEF Owed
  <2>2. CASE v # u
    <3>1. Owed(v)
      BY <2>2 DEF CarefulInv, LeftoversAreOwed
    <3> QED
      BY <1>1, <2>2, <3>1 DEF Owed
  <2> QED
    BY <2>1, <2>2
<1>8. \A v \in Uuids : layers'[v] <= 1
  BY DEF CarefulInv
<1>9. \A v \in Queued' \cup started' : persistent'[v]
  BY <1>1 DEF CarefulInv
<1>10. \A d \in Callers : pc'[d] \notin {"delete", "forcing", "sleeping", "undefining"}
  BY DEF CarefulInv
<1> QED
  BY <1>3, <1>4, <1>5, <1>6, <1>7, <1>8, <1>9, <1>10 DEF CarefulInv

LEMMA CarefulStart ==
  ASSUME TypeOK, CarefulInv, NEW c \in Callers, StartStep(c)
  PROVE  CarefulInv'
<1> DEFINE u == arg[c]
<1>1. Starting(c)
  BY DEF StartStep, StartLock, StartLooksUp, StartFindsStopped, StartRefuses, StartInvalid,
     StageOk, StageDeviceFails, StageRootFails, Define, CreateOk, CreateFails, StartRecords,
     StartUnwinds, Starting, InStart, StartPlaces
<1>2. /\ u \in Uuids /\ ~held /\ u \notin started /\ dropped[u] = 0
      /\ pc[c] \notin {"lookup", "state"}
      /\ pc[c] # "record" => run[u] = "off" /\ u \notin Queued
      /\ pc[c] \in {"start", "stage"} => layers[u] = 0
      /\ pc[c] \in {"define", "create", "undo"} => layers[u] = 1
      /\ pc[c] \in {"create", "record"} => persistent[u]
  BY <1>1 DEF CarefulInv, StartsAtRest, TypeOK
<1>3. run[u] # "off" => layers[u] = 1 /\ u \notin Queued
  BY <1>2 DEF CarefulInv, LiveIsSettled
<1>4. run[u] = "off" /\ layers[u] > 0 /\ pc[c] = "record" => u \in Queued
  BY <1>1, <1>2 DEF CarefulInv, LeftoversAreOwed, Owed, StartsAlone, SweepKnows, Starting,
     InStart, StartPlaces
<1>5. layers[u] \in {0, 1} /\ started \subseteq Uuids
  BY <1>2 DEF CarefulInv, TypeOK
<1> SUFFICES StartEffect(c, u)
  BY <1>1, CarefulEffect
<1> HIDE DEF u
<1> USE <1>2, <1>3, <1>4, <1>5 DEF StartEffect, libvirt, threads, sweeper, manager, counters,
        Goto, Release, Popped, Pushed, TypeOK
<1>11. CASE StartLock(c)
  BY <1>11 DEF StartLock, u
<1>12. CASE StartInvalid(c)
  BY <1>12 DEF StartInvalid, Raise, u
<1>13. CASE StageOk(c)
  BY <1>13 DEF StageOk, u
<1>14. CASE StageDeviceFails(c)
  BY <1>14 DEF StageDeviceFails, Raise, u
<1>15. CASE StageRootFails(c)
  BY <1>15 DEF StageRootFails, Raise, u
<1>16. CASE Define(c)
  BY <1>16 DEF Define, u
<1>17. CASE CreateOk(c)
  BY <1>17 DEF CreateOk, u
<1>18. CASE CreateFails(c)
  BY <1>18 DEF CreateFails, u
<1>19. CASE StartRecords(c)
  BY <1>19 DEF StartRecords, u
<1>20. CASE StartUnwinds(c)
  BY <1>20 DEF StartUnwinds, u
<1> QED
  BY <1>11, <1>12, <1>13, <1>14, <1>15, <1>16, <1>17, <1>18, <1>19, <1>20
  DEF StartStep, StartLooksUp, StartFindsStopped, StartRefuses

\* One layer of a domain that does not run, and that no start is at work on, is taken
\* off: by the callback, by the sweep or by a finalizer.
Clears(u) ==
    /\ UNCHANGED <<run, persistent, listening, held, arg, pc>>
    /\ layers' = Popped(u)
    /\ run[u] = "off"
    /\ \A c \in Callers : Starting(c) /\ arg[c] = u => layers[u] = 0
    /\ started' \subseteq started
    /\ Queued' \subseteq Queued
    /\ \A v \in Uuids : dropped'[v] <= dropped[v]
    /\ SweepKnows'
    /\ \A v \in Uuids \ {u} : Owed(v) => Owed(v)'

LEMMA CarefulClears ==
  ASSUME TypeOK, TypeOK', CarefulInv, NEW u \in Uuids, Clears(u)
  PROVE  CarefulInv'
<1> USE DEF Clears
<1>1. layers[u] \in {0, 1}
  <2>1. layers[u] \in Nat
    BY DEF TypeOK
  <2>2. layers[u] <= 1
    BY DEF CarefulInv
  <2> QED
    BY <2>1, <2>2
<1>2. layers'[u] = 0 /\ \A v \in Uuids \ {u} : layers'[v] = layers[v]
  BY <1>1 DEF Popped, TypeOK
<1>3. \A v \in Uuids : dropped[v] = 0 => dropped'[v] = 0
  BY DEF TypeOK
<1>4. StartsAlone'
  BY DEF CarefulInv, StartsAlone, Starting, InStart
<1>5. StartsAtRest'
  <2> SUFFICES ASSUME NEW d \in Callers, Starting(d)
               PROVE  /\ pc[d] \notin {"lookup", "state"}
                      /\ dropped'[arg[d]] = 0 /\ arg[d] \notin started'
                      /\ pc[d] # "record" => run[arg[d]] = "off" /\ arg[d] \notin Queued'
                      /\ pc[d] \in {"start", "stage"} => layers'[arg[d]] = 0
                      /\ pc[d] \in {"define", "create", "undo"} => layers'[arg[d]] = 1
                      /\ pc[d] \in {"create", "record"} => persistent[arg[d]]
    BY DEF StartsAtRest, Starting, InStart
  <2>1. arg[d] \in Uuids
    BY DEF TypeOK
  <2> QED
    BY <1>2, <1>3, <2>1 DEF CarefulInv, StartsAtRest
<1>6. LiveIsSettled'
  BY <1>2, <1>3 DEF CarefulInv, LiveIsSettled
<1>7. LeftoversAreOwed'
  BY <1>2 DEF CarefulInv, LeftoversAreOwed
<1>8. \A v \in Uuids : layers'[v] <= 1
  BY <1>2 DEF CarefulInv
<1> QED
  BY <1>4, <1>5, <1>6, <1>7, <1>8 DEF CarefulInv

\* What is due for a domain's staging is due for a domain at rest.
LEMMA QueuedIsIdle ==
  ASSUME TypeOK, CarefulInv, NEW u \in Queued
  PROVE  /\ u \in Uuids /\ run[u] = "off" /\ persistent[u]
         /\ \A c \in Callers : Starting(c) /\ arg[c] = u => pc[c] = "record"
<1>1. u \in Uuids
  BY ElementOfSeq, LenProperties DEF Queued, TypeOK
<1> QED
  BY <1>1 DEF CarefulInv, LiveIsSettled, StartsAtRest

LEMMA CarefulEvent ==
  ASSUME TypeOK, TypeOK', EntryInv, CarefulInv, EventStep
  PROVE  CarefulInv'
<1> USE DEF libvirt, threads, sweeper, manager, counters, Release
<1>1. events # <<>> /\ Head(events) \in Queued
  <2>1. events # <<>>
    BY DEF EventStep, EvIgnores, EvTakes, EvLocks, EvUnwinds, EvSweeps, EntryInv
  <2>2. 1 \in DOMAIN events /\ Head(events) = events[1]
    BY <2>1, EmptySeq, LenProperties DEF TypeOK
  <2> QED
    BY <2>1, <2>2 DEF Queued
<1> DEFINE u == Head(events)
<1>2. /\ u \in Uuids /\ run[u] = "off" /\ persistent[u]
      /\ \A c \in Callers : Starting(c) /\ arg[c] = u => pc[c] = "record"
  BY <1>1, QueuedIsIdle
<1>3. ~EvIgnores
  BY <1>2 DEF EvIgnores, Exists
<1>4. CASE EvTakes
  <2>1. Bystanders
    BY <1>4 DEF EvTakes, Bystanders, CarefulInv
  <2> QED
    BY <1>4, <2>1, CarefulCalm DEF EvTakes, Calm
<1>5. CASE EvLocks
  BY <1>5, QueueKept DEF EvLocks, CarefulInv, StartsAlone, StartsAtRest, Starting, InStart,
     LiveIsSettled, SweepKnows, LeftoversAreOwed, Owed
<1>6. ASSUME EvUnwinds \/ EvSweeps
      PROVE  /\ \A c \in Callers : Starting(c) /\ arg[c] = u => layers[u] = 0
             /\ UNCHANGED <<run, persistent, listening, held, arg, pc, started, dropped,
                            boot, active, todo>>
             /\ layers' = Popped(u)
             /\ SweepKnows'
  <2>1. \A c \in Callers : ~InStart(c)
    BY <1>6, LockOwners DEF EvUnwinds, EvSweeps, EntryInv, LockIsHeld
  <2>2. \A c \in Callers : Starting(c) /\ arg[c] = u => layers[u] = 0
    BY <2>1 DEF Starting, CarefulInv, StartsAtRest
  <2>3. UNCHANGED <<run, persistent, listening, held, arg, pc, started, dropped,
                    boot, active, todo>>
    BY <1>6 DEF EvUnwinds, EvSweeps
  <2>4. SweepKnows'
    BY <2>3 DEF CarefulInv, SweepKnows
  <2> QED
    BY <1>6, <2>2, <2>3, <2>4 DEF EvUnwinds, EvSweeps
<1>7. CASE EvUnwinds
  <2>1. Queued' = Queued
    BY <1>7, QueueKept DEF EvUnwinds
  <2>2. \A v \in Uuids \ {u} : Owed(v) => Owed(v)'
    BY <1>6, <1>7, <2>1 DEF Owed
  <2>3. \A v \in Uuids : dropped'[v] <= dropped[v]
    BY <1>6, <1>7 DEF TypeOK
  <2>4. Clears(u)
    BY <1>2, <1>6, <1>7, <2>1, <2>2, <2>3 DEF Clears
  <2> QED
    BY <1>2, <2>4, CarefulClears
<1>8. CASE EvSweeps
  <2>1. Queued \ {u} \subseteq Queued' /\ Queued' \subseteq Queued
    <3>1. events' = Tail(events)
      BY <1>8 DEF EvSweeps
    <3> QED
      BY <1>1, <3>1, QueueShrinks, TailQueued
  <2>2. \A v \in Uuids \ {u} : Owed(v) => Owed(v)'
    BY <1>6, <1>8, <2>1 DEF Owed
  <2>3. \A v \in Uuids : dropped'[v] <= dropped[v]
    BY <1>6, <1>8 DEF TypeOK
  <2>4. Clears(u)
    BY <1>2, <1>6, <1>8, <2>1, <2>2, <2>3 DEF Clears
  <2> QED
    BY <1>2, <2>4, CarefulClears
<1> QED
  BY <1>3, <1>4, <1>5, <1>7, <1>8 DEF EventStep

LEMMA CarefulSweep ==
  ASSUME TypeOK, TypeOK', CarefulInv, SweepStep
  PROVE  CarefulInv'
<1> USE DEF libvirt, threads, manager, counters
<1>1. /\ UNCHANGED <<run, persistent, events, started, held, dropped, arg, pc>>
      /\ Queued' = Queued
      /\ \A c \in Callers : pc[c] = "idle" /\ ~Starting(c)
  BY QueueKept DEF SweepStep, SweepLists, SweepScans, SweepEnds, SweepChecks, SweepAborts,
     SweepCleans, CarefulInv, SweepKnows, Starting, InStart, StartPlaces
<1>2. ASSUME UNCHANGED layers, SweepKnows', \A v \in Uuids : layers[v] > 0 /\ run[v] = "off"
                                                            /\ Owed(v) => Owed(v)'
      PROVE  CarefulInv'
  BY <1>1, <1>2 DEF CarefulInv, StartsAlone, StartsAtRest, LiveIsSettled, LeftoversAreOwed,
     Starting, InStart
<1>3. CASE SweepLists
  <2>1. SweepKnows'
    BY <1>1, <1>3 DEF SweepLists, CarefulInv, SweepKnows, LiveIsSettled, Exists
  <2>2. active = {} /\ active' = active
    BY <1>3 DEF SweepLists, CarefulInv, SweepKnows
  <2> QED
    BY <1>2, <1>3, <2>1, <2>2 DEF SweepLists, Owed
<1>4. CASE SweepScans
  <2>1. SweepKnows'
    BY <1>1, <1>4 DEF SweepScans, Orphans, CarefulInv, SweepKnows
  <2>2. \A v \in Uuids : layers[v] > 0 /\ run[v] = "off" /\ Owed(v) => Owed(v)'
    BY <1>1, <1>4 DEF SweepScans, Orphans, Owed
  <2> QED
    BY <1>2, <1>4, <2>1, <2>2 DEF SweepScans
<1>5. CASE SweepEnds
  <2>1. SweepKnows'
    BY <1>1, <1>5 DEF SweepEnds, CarefulInv, SweepKnows
  <2>2. \A v \in Uuids : Owed(v) => Owed(v)'
    BY <1>1, <1>5 DEF SweepEnds, Owed
  <2> QED
    BY <1>2, <1>5, <2>1, <2>2 DEF SweepEnds
<1>6. ASSUME NEW u \in Uuids, SweepChecks(u) PROVE CarefulInv'
  <2>1. SweepKnows'
    BY <1>1, <1>6 DEF SweepChecks, CarefulInv, SweepKnows
  <2>2. \A v \in Uuids : run[v] = "off" /\ Owed(v) => Owed(v)'
    BY <1>1, <1>6 DEF SweepChecks, Owed
  <2> QED
    BY <1>2, <1>6, <2>1, <2>2 DEF SweepChecks
<1>7. ASSUME NEW u \in Uuids, SweepAborts(u) PROVE CarefulInv'
  BY <1>7 DEF SweepAborts, CarefulInv, SweepKnows, Exists
<1>8. ASSUME NEW u \in Uuids, SweepCleans(u) PROVE CarefulInv'
  <2>1. SweepKnows'
    BY <1>1, <1>8 DEF SweepCleans, CarefulInv, SweepKnows
  <2>2. \A v \in Uuids \ {u} : Owed(v) => Owed(v)'
    BY <1>1, <1>8 DEF SweepCleans, Owed
  <2>3. run[u] = "off"
    BY <1>8 DEF SweepCleans, CarefulInv, SweepKnows
  <2>4. \A v \in Uuids : dropped'[v] <= dropped[v]
    BY <1>1 DEF TypeOK
  <2>5. Clears(u)
    BY <1>1, <1>8, <2>1, <2>2, <2>3, <2>4 DEF SweepCleans, Clears
  <2> QED
    BY <2>5, CarefulClears
<1> QED
  BY <1>3, <1>4, <1>5, <1>6, <1>7, <1>8 DEF SweepStep

LEMMA CarefulFinalize ==
  ASSUME TypeOK, TypeOK', CarefulInv, NEW u \in Uuids, Finalize(u)
  PROVE  CarefulInv'
<1> USE DEF libvirt, threads, sweeper, manager, counters
<1>1. /\ run[u] = "off"
      /\ \A c \in Callers : Starting(c) => arg[c] # u
  BY DEF Finalize, CarefulInv, LiveIsSettled, StartsAtRest
<1>2. /\ Queued' = Queued
      /\ \A v \in Uuids : dropped'[v] <= dropped[v]
      /\ \A v \in Uuids \ {u} : dropped'[v] = dropped[v]
  BY QueueKept DEF Finalize, TypeOK
<1>3. SweepKnows'
  BY DEF Finalize, CarefulInv, SweepKnows
<1>4. \A v \in Uuids \ {u} : Owed(v) => Owed(v)'
  BY <1>2 DEF Finalize, Owed
<1>5. Clears(u)
  BY <1>1, <1>2, <1>3, <1>4 DEF Finalize, Clears
<1> QED
  BY <1>5, CarefulClears

\* A careful caller starts a domain that nothing is staged for.
LEMMA CarefulCall ==
  ASSUME CarefulCallers, "delete" \notin Ops, TypeOK, EntryInv, CarefulInv,
         NEW c \in Callers, NEW op \in Ops, NEW u \in Uuids, Call(c, op, u)
  PROVE  CarefulInv'
<1> USE DEF libvirt, manager, sweeper
<1>1. /\ UNCHANGED <<run, persistent, layers, listening, events, started, held, dropped,
                     boot, active, todo>>
      /\ Queued' = Queued /\ boot = "up" /\ pc[c] = "idle" /\ pc'[c] = op /\ arg'[c] = u
      /\ \A d \in Callers \ {c} : pc'[d] = pc[d] /\ arg'[d] = arg[d]
  BY QueueKept DEF Call, Goto, TypeOK
<1>2. op \in Operations /\ op # "delete"
  BY OpsAreOperations
<1>3. op = "start" =>
        /\ run[u] = "off" /\ u \notin Queued /\ dropped[u] = 0
        /\ \A d \in Callers \ {c} : Starting(d) => arg[d] # u
  BY DEF Call, SafeToStart, Starting
<1>4. op = "start" => u \notin started /\ layers[u] = 0
  <2> SUFFICES ASSUME op = "start" PROVE u \notin started /\ layers[u] = 0
    OBVIOUS
  <2>1. ~Owed(u)
    BY <1>1, <1>3 DEF Owed, Starting, InStart, StartPlaces
  <2>2. layers[u] \in Nat /\ ~(layers[u] > 0)
    BY <1>3, <2>1 DEF CarefulInv, LeftoversAreOwed, TypeOK
  <2>3. u \notin started
    BY <1>3 DEF CarefulInv, EntryInv, StaleEntryAwaitsItsStop
  <2> QED
    BY <2>2, <2>3
<1>5. ~InStart(c) /\ ~InStart(c)' /\ (Starting(c)' => op = "start") /\ ~Starting(c)
  BY <1>1, <1>2 DEF Starting, InStart, StartPlaces, Operations
<1>6. \A d \in Callers : d # c => (Starting(d)' <=> Starting(d))
  BY <1>1 DEF Starting, InStart
<1>7. StartsAlone'
  BY <1>1, <1>3, <1>5, <1>6 DEF CarefulInv, StartsAlone
<1>8. StartsAtRest'
  <2> SUFFICES ASSUME NEW d \in Callers, Starting(d)'
               PROVE  /\ pc'[d] \notin {"lookup", "state"}
                      /\ dropped[arg'[d]] = 0 /\ arg'[d] \notin started
                      /\ pc'[d] # "record" => run[arg'[d]] = "off" /\ arg'[d] \notin Queued
                      /\ pc'[d] \in {"start", "stage"} => layers[arg'[d]] = 0
                      /\ pc'[d] \in {"define", "create", "undo"} => layers[arg'[d]] = 1
                      /\ pc'[d] \in {"create", "record"} => persistent[arg'[d]]
    BY <1>1 DEF StartsAtRest
  <2>1. CASE d = c
    BY <1>1, <1>3, <1>4, <1>5, <2>1
  <2>2. CASE d # c
    BY <1>1, <1>6, <2>2 DEF CarefulInv, StartsAtRest
  <2> QED
    BY <2>1, <2>2
<1>9. LiveIsSettled' /\ SweepKnows'
  BY <1>1 DEF CarefulInv, LiveIsSettled, SweepKnows
<1>10. LeftoversAreOwed'
  <2>1. \A d \in Callers : pc[d] \in {"define", "create", "undo"} =>
                            pc'[d] = pc[d] /\ arg'[d] = arg[d]
    BY <1>1
  <2> QED
    BY <1>1, <2>1 DEF CarefulInv, LeftoversAreOwed, Owed
<1>11. \A d \in Callers : pc'[d] \notin {"delete", "forcing", "sleeping", "undefining"}
  BY <1>1, <1>2 DEF CarefulInv, Operations
<1> QED
  BY <1>1, <1>7, <1>8, <1>9, <1>10, <1>11 DEF CarefulInv

LEMMA CarefulRestart ==
  ASSUME TypeOK, CarefulInv, Restart
  PROVE  CarefulInv'
<1>1. Queued' = {}
  BY DEF Restart, Queued
<1>2. \A c \in Callers : pc'[c] = "idle" /\ ~Starting(c)'
  BY DEF Restart, Starting, InStart, StartPlaces
<1>3. UNCHANGED <<run, persistent, layers>> /\ started' = {} /\ boot' = "startup"
  BY DEF Restart, libvirt
<1>4. LiveIsSettled'
  BY <1>1, <1>3 DEF Restart, CarefulInv, LiveIsSettled
<1>5. SweepKnows'
  BY <1>2 DEF Restart, SweepKnows
<1> QED
  BY <1>1, <1>2, <1>3, <1>4, <1>5
  DEF Restart, CarefulInv, StartsAlone, StartsAtRest, LeftoversAreOwed, Owed

LEMMA CarefulStep ==
  ASSUME CarefulCallers, "delete" \notin Ops, TypeOK, TypeOK', EntryInv, CarefulInv,
         [Next]_vars
  PROVE  CarefulInv'
<1> USE DEF libvirt, threads, sweeper, manager, counters
<1>1. ASSUME NEW u \in Uuids, GuestShutsDown(u) PROVE CarefulInv'
  <2>1. Bystanders
    BY <1>1 DEF GuestShutsDown, Bystanders, CarefulInv
  <2> QED
    BY <1>1, <2>1, CarefulCalm DEF GuestShutsDown, Calm, TypeOK
<1>2. ASSUME NEW u \in Uuids, GuestStops(u) PROVE CarefulInv'
  <2>1. Bystanders
    BY <1>2 DEF GuestStops, Bystanders, CarefulInv
  <2> QED
    BY <1>2, <2>1, CarefulStops DEF GuestStops
<1>3. CASE UNCHANGED vars
  <2>1. Bystanders
    BY <1>3 DEF vars, Bystanders, CarefulInv
  <2> QED
    BY <1>3, <2>1, CarefulCalm DEF vars, Calm
<1> QED
  BY <1>1, <1>2, <1>3, CarefulFinalize, CarefulCall, CarefulStart, CarefulStop, CarefulEvent,
     CarefulSweep, CarefulRestart
  DEF Next, CallerStep

\* If callers start a domain only once its last stop has been handled, and none deletes,
\* no clean-up ever takes away what a running domain has staged, and nothing that is
\* staged for a domain at rest is forgotten: for any number of domains, callers, calls
\* and crashes.
THEOREM StagingIsSafe ==
  ASSUME CarefulCallers, "delete" \notin Ops
  PROVE  Spec => [](RunningKeepsStaging /\ LeftoversAreOwed)
<1>1. Init => TypeOK /\ EntryInv /\ CarefulInv
  BY TypeInit, EntryInit, CarefulInit
<1>2. TypeOK /\ EntryInv /\ CarefulInv /\ [Next]_vars
        => (TypeOK /\ EntryInv /\ CarefulInv)'
  BY TypeStep, EntryStep, CarefulStep DEF EntryInv
<1>3. CarefulInv => RunningKeepsStaging /\ LeftoversAreOwed
  BY DEF CarefulInv, LiveIsSettled, RunningKeepsStaging
<1> QED
  BY <1>1, <1>2, <1>3, PTL DEF Spec

\* What is staged for a domain that does not run is on somebody's list: a call, the
\* callback, the finalizer or the sweep, for any domains, callers and crashes.
THEOREM LeftoversHaveAnOwner ==
  ASSUME CarefulCallers, "delete" \notin Ops
  PROVE  Spec => []LeftoversAreOwed
BY StagingIsSafe, PTL

-----------------------------------------------------------------------------
(* The manager implements the contract of module Staging *)

\* A step touches one domain at most, and either its state or its staging.
LEMMA OneMoves ==
  ASSUME TypeOK, EntryInv, [Next]_vars
  PROVE  \/ UNCHANGED <<run, layers>>
         \/ \E u \in Uuids : /\ \A v \in Uuids \ {u} : run'[v] = run[v] /\ layers'[v] = layers[v]
                             /\ UNCHANGED run \/ UNCHANGED layers
<1> USE DEF libvirt, threads, sweeper, manager, counters, TypeOK
<1>1. ASSUME NEW u \in Uuids, GuestShutsDown(u) \/ GuestStops(u) \/ Finalize(u)
      PROVE  /\ \A v \in Uuids \ {u} : run'[v] = run[v] /\ layers'[v] = layers[v]
             /\ UNCHANGED run \/ UNCHANGED layers
  BY <1>1 DEF GuestShutsDown, GuestStops, Finalize, Popped
<1>2. ASSUME NEW c \in Callers, StartStep(c)
      PROVE  /\ arg[c] \in Uuids
             /\ \A v \in Uuids \ {arg[c]} : run'[v] = run[v] /\ layers'[v] = layers[v]
             /\ UNCHANGED run \/ UNCHANGED layers
  BY <1>2 DEF StartStep, StartLock, StartLooksUp, StartFindsStopped, StartRefuses, StartInvalid,
     StageOk, StageDeviceFails, StageRootFails, Define, CreateOk, CreateFails, StartRecords,
     StartUnwinds, Popped, Pushed
<1>3. ASSUME NEW c \in Callers, StopStep(c)
      PROVE  /\ arg[c] \in Uuids
             /\ \A v \in Uuids \ {arg[c]} : run'[v] = run[v]
             /\ UNCHANGED layers
  BY <1>3 DEF StopStep, StopChecks, Destroys, Destroyed, Suspends, ShutdownPolls, ResumeChecks,
     Resumes, DeleteChecks, DeleteForces, DeleteSleeps, Undefines
<1>4. ASSUME EventStep
      PROVE  /\ Head(events) \in Uuids
             /\ \A v \in Uuids \ {Head(events)} : layers'[v] = layers[v]
             /\ UNCHANGED run
  <2>1. events # <<>>
    BY <1>4 DEF EventStep, EvIgnores, EvTakes, EvLocks, EvUnwinds, EvSweeps, EntryInv
  <2> QED
    BY <1>4, <2>1, TailType
    DEF EventStep, EvIgnores, EvTakes, EvLocks, EvUnwinds, EvSweeps, Popped
<1>5. ASSUME SweepStep
      PROVE  \/ UNCHANGED <<run, layers>>
             \/ \E u \in Uuids : /\ \A v \in Uuids \ {u} : layers'[v] = layers[v]
                                 /\ UNCHANGED run
  BY <1>5 DEF SweepStep, SweepLists, SweepScans, SweepEnds, SweepChecks, SweepAborts,
     SweepCleans, Popped
<1>6. ASSUME NEW c \in Callers, NEW op \in Ops, NEW u \in Uuids, Call(c, op, u)
      PROVE  UNCHANGED <<run, layers>>
  BY <1>6 DEF Call
<1>7. ASSUME Restart \/ UNCHANGED vars PROVE UNCHANGED <<run, layers>>
  BY <1>7 DEF Restart, vars
<1>8. CASE Next
  <2>1. CASE \E u \in Uuids : GuestShutsDown(u) \/ GuestStops(u) \/ Finalize(u)
    BY <2>1, <1>1
  <2>2. CASE \E c \in Callers : CallerStep(c)
    BY <2>2, <1>2, <1>3 DEF CallerStep
  <2>3. CASE EventStep
    BY <2>3, <1>4
  <2>4. CASE SweepStep
    BY <2>4, <1>5
  <2> QED
    BY <1>8, <2>1, <2>2, <2>3, <2>4, <1>6, <1>7 DEF Next
<1> QED
  BY <1>7, <1>8

LEMMA PhaseMoves ==
  ASSUME TypeOK, CarefulInv, TypeOK', CarefulInv', NEW u \in Uuids,
         \A v \in Uuids \ {u} : run'[v] = run[v] /\ layers'[v] = layers[v],
         UNCHANGED run \/ UNCHANGED layers
  PROVE  Phase' = Phase \/ Contract!Next
<1>1. /\ layers[u] \in {0, 1} /\ layers'[u] \in {0, 1}
      /\ run[u] # "off" => layers[u] = 1
      /\ run'[u] # "off" => layers'[u] = 1
  <2>1. layers[u] \in Nat /\ layers'[u] \in Nat
    BY DEF TypeOK
  <2>2. layers[u] <= 1 /\ layers'[u] <= 1
    BY DEF CarefulInv
  <2>3. /\ run[u] # "off" => layers[u] = 1
        /\ run'[u] # "off" => layers'[u] = 1
    BY DEF CarefulInv, LiveIsSettled
  <2> QED
    BY <2>1, <2>2, <2>3
<1>2. Phase' = [Phase EXCEPT ![u] = Phase'[u]]
  BY DEF Phase
<1>3. \/ Phase'[u] = Phase[u]
      \/ Phase[u] = "clear" /\ Phase'[u] = "staged"
      \/ Phase[u] = "staged" /\ Phase'[u] = "live"
      \/ Phase[u] = "live" /\ Phase'[u] = "staged"
      \/ Phase[u] = "staged" /\ Phase'[u] = "clear"
  BY <1>1 DEF Phase
<1>4. Phase'[u] = Phase[u] => Phase' = Phase
  BY <1>2 DEF Phase
<1> QED
  BY <1>2, <1>3, <1>4
  DEF Contract!Next, Contract!Stage, Contract!GoLive, Contract!Stop, Contract!Clear,
      Contract!Moves

\* Under the same conditions every step of the manager is a step of the contract, or
\* leaves the phases of all domains as they are: a domain goes live only on what was
\* staged for it, and what is live is never cleared.
THEOREM ManagerImplementsStaging ==
  ASSUME CarefulCallers, "delete" \notin Ops
  PROVE  Spec => Contract!Spec
<1> DEFINE Inv == TypeOK /\ EntryInv /\ CarefulInv
<1>1. Init => Inv
  BY TypeInit, EntryInit, CarefulInit
<1>2. Inv /\ [Next]_vars => Inv'
  BY TypeStep, EntryStep, CarefulStep DEF EntryInv
<1>3. Init => Contract!Init
  BY DEF Init, Contract!Init, Phase
<1>4. Inv /\ Inv' /\ [Next]_vars => [Contract!Next]_Phase
  <2> SUFFICES ASSUME Inv, Inv', [Next]_vars PROVE Phase' = Phase \/ Contract!Next
    OBVIOUS
  <2>1. CASE UNCHANGED <<run, layers>>
    BY <2>1 DEF Phase
  <2>2. CASE ~UNCHANGED <<run, layers>>
    BY <2>2, OneMoves, PhaseMoves
  <2> QED
    BY <2>1, <2>2
<1> QED
  BY <1>1, <1>2, <1>3, <1>4, PTL DEF Spec, Contract!Spec
=============================================================================
