----------------------- MODULE ExclusiveDevicesProofs -----------------------
(***************************************************************************)
(* For any number of machines and devices: a check that meets no error     *)
(* finds every user of a device, no device is taken from a machine that    *)
(* runs, and what nobody uses goes back to the host (ExclusiveDevices).    *)
(***************************************************************************)
EXTENDS ExclusiveDevices, TLAPS

-----------------------------------------------------------------------------
(* Types                                                                   *)

\* Type correctness in two parts: the flags, and the rest.
Flags == start \in BOOLEAN /\ hasty \in BOOLEAN /\ erred \in BOOLEAN
Places ==
    /\ unit \in [Vms -> Units] /\ kind \in [Vms -> Kinds]
    /\ active \subseteq Vms /\ stopped \subseteq Vms /\ entries \subseteq Vms
    /\ dropped \subseteq Vms
    /\ bound \subseteq Units
    /\ lock \in {"free", "validate", "detach", "create", "leave", "reattach"}
    /\ vm \in Vms \cup {Nobody} /\ gcvm \in Vms \cup {Nobody}
    /\ todo \subseteq Vms /\ gctodo \subseteq Vms
    /\ lock # "free" => vm # Nobody
    /\ crashes \in 0..MaxCrashes

LEMMA TwoParts == (Flags /\ Places => TypeOK) /\ (TypeOK => Flags /\ Places)
  BY DEF Flags, Places, TypeOK

LEMMA TypeInit == Init => TypeOK
  <1> SUFFICES ASSUME Init PROVE TypeOK
    OBVIOUS
  <1>1. Flags
    BY DEF Init, Flags
  <1>2. Places
    BY BoundNat DEF BoundNat, Init, Places
  <1> QED
    BY <1>1, <1>2, TwoParts

LEMMA FlagsKept == Flags /\ [Next]_vars => Flags'
  <1> SUFFICES ASSUME Flags, [Next]_vars PROVE Flags'
    OBVIOUS
  <1> USE DEF Flags
  <1>1. ASSUME NEW v \in Vms, Starts(v) \/ StartRefused(v) \/ GuestStops(v) PROVE Flags'
    BY <1>1 DEF Starts, StartRefused, GuestStops, holder, history
  <1>2. CASE HolderStep
    BY <1>2 DEF HolderStep, SeesFree, Detaches, Creates, CreateFails, Reattaches, GivesBack, SeesOther,
                SeesUser, HandlesStop, GoesOn, Releases, holder, history
  <1>3. CASE GcStep
    BY <1>3 DEF GcStep, GcReattaches, GivesBack, GcTakes, GcSees, holder, history
  <1>4. CASE Crash
    BY <1>4 DEF Crash, Releases
  <1>5. CASE UNCHANGED vars
    BY <1>5 DEF vars, holder, history
  <1> QED
    BY <1>1, <1>2, <1>3, <1>4, <1>5 DEF Next

LEMMA PlacesKept == Places /\ [Next]_vars => Places'
  <1> SUFFICES ASSUME Places, [Next]_vars PROVE Places'
    OBVIOUS
  <1> USE NobodyIsNoVm, BoundNat DEF NobodyIsNoVm, BoundNat, Places, Others, config, libvirt, holder, gc, history
  <1>1. ASSUME NEW v \in Vms, Starts(v) PROVE Places'
    BY <1>1 DEF Starts, Asks
  <1>2. ASSUME NEW v \in Vms, StartRefused(v) \/ GuestStops(v) PROVE Places'
    BY <1>2 DEF StartRefused, GuestStops
  <1>3. ASSUME NEW v \in Vms, HandlesStop(v) PROVE Places'
    BY <1>3 DEF HandlesStop, Asks
  <1>4. ASSUME NEW v \in Vms, SeesOther(v) \/ SeesUser(v) PROVE Places'
    BY <1>4 DEF SeesOther, SeesUser, GoesOn, Asks, Releases
  <1>5. CASE SeesFree \/ Detaches
    BY <1>5 DEF SeesFree, Detaches, Releases
  <1>6. CASE Creates \/ CreateFails
    BY <1>6 DEF Creates, CreateFails, Asks, Releases
  <1>7. CASE Reattaches
    BY <1>7 DEF Reattaches, GivesBack, Without, GoesOn, Asks, Releases
  <1>8. ASSUME NEW v \in Vms, GcTakes(v) \/ GcSees(v) PROVE Places'
    BY <1>8 DEF GcTakes, GcSees
  <1>9. CASE GcReattaches
    BY <1>9 DEF GcReattaches, GivesBack, Without
  <1>10. CASE Crash
    BY <1>10 DEF Crash, Releases
  <1>11. CASE UNCHANGED vars
    BY <1>11 DEF vars
  <1> QED
    BY <1>1, <1>2, <1>3, <1>4, <1>5, <1>6, <1>7, <1>8, <1>9, <1>10, <1>11 DEF Next, HolderStep, GcStep

\* Type correctness; with it, whoever holds the lock holds it for a machine.
THEOREM Typing == Spec => []TypeOK
  <1>1. TypeOK /\ [Next]_vars => TypeOK'
    <2> SUFFICES ASSUME TypeOK, [Next]_vars PROVE TypeOK'
      OBVIOUS
    <2>1. Flags' /\ Places'
      BY TwoParts, FlagsKept, PlacesKept
    <2> QED
      BY <2>1 DEF Flags, Places, TypeOK
  <1> QED
    BY <1>1, TypeInit, PTL DEF Spec

LEMMA PlacesHold == TypeOK => Places
  BY TwoParts

-----------------------------------------------------------------------------
(* The check                                                               *)

\* Of the machines asked about none that still runs has the device: while the lock is held
\* nobody else starts, and who stops does not come back.
CheckedInv ==
    /\ lock = "validate" => \A o \in active \ (todo \cup {vm}) : ~IsIn(vm, o)
    /\ lock \in {"detach", "create"} /\ ~erred => \A o \in active \ {vm} : ~IsIn(vm, o)

LEMMA CheckedNext == Places /\ CheckedInv /\ [Next]_vars => CheckedInv'
  <1> SUFFICES ASSUME Places, CheckedInv, [Next]_vars PROVE CheckedInv'
    OBVIOUS
  <1> USE DEF Places, CheckedInv, IsIn, Shares, Others, config, libvirt, holder, gc, history
  <1>1. ASSUME NEW v \in Vms, Starts(v) PROVE CheckedInv'
    BY <1>1 DEF Starts, Asks
  <1>2. ASSUME NEW v \in Vms, StartRefused(v) \/ GuestStops(v) PROVE CheckedInv'
    BY <1>2 DEF StartRefused, GuestStops
  <1>3. ASSUME NEW v \in Vms, HandlesStop(v) PROVE CheckedInv'
    BY <1>3 DEF HandlesStop, Asks
  <1>4. ASSUME NEW v \in Vms, SeesOther(v) PROVE CheckedInv'
    BY <1>4 DEF SeesOther
  <1>5. ASSUME NEW v \in Vms, SeesUser(v) PROVE CheckedInv'
    BY <1>5 DEF SeesUser, GoesOn, Asks, Releases
  <1>6. CASE SeesFree
    BY <1>6 DEF SeesFree
  <1>7. CASE Detaches
    BY <1>7 DEF Detaches, Releases
  <1>8. CASE Creates \/ CreateFails
    BY <1>8 DEF Creates, CreateFails, Asks, Releases
  <1>9. CASE Reattaches
    BY <1>9 DEF Reattaches, GivesBack, GoesOn, Asks, Releases
  <1>10. CASE GcStep
    BY <1>10 DEF GcStep, GcReattaches, GivesBack, GcTakes, GcSees
  <1>11. CASE Crash
    BY <1>11 DEF Crash, Releases
  <1>12. CASE UNCHANGED vars
    BY <1>12 DEF vars
  <1> QED
    BY <1>1, <1>2, <1>3, <1>4, <1>5, <1>6, <1>7, <1>8, <1>9, <1>10, <1>11, <1>12 DEF Next, HolderStep

\* Where no device is configured by its USB name, a check that meets no error and lets a machine
\* pass is right until that machine is created: no other one that runs has its device, for any
\* number of machines that start, stop and outlive the process (device/base.py:107-131).
THEOREM UsersAreFound == ASSUME "usb name" \notin Kinds PROVE Spec => []ConflictsAreFound
  <1>1. Init => CheckedInv
    BY DEF Init, CheckedInv
  <1>2. Places /\ CheckedInv => ConflictsAreFound
    <2> SUFFICES ASSUME Places, CheckedInv, lock \in {"detach", "create"}, ~erred, NEW o \in active \ {vm}
                 PROVE  ~Shares(vm, o)
      BY DEF ConflictsAreFound
    <2>1. vm \in Vms
      BY DEF Places
    <2>2. kind[vm] \in {"pci", "usb ids"}
      BY <2>1, KindsKnown DEF KindsKnown, AllKinds, Places
    <2>3. ~IsIn(vm, o)
      BY DEF CheckedInv
    <2> QED
      BY <2>2, <2>3 DEF IsIn
  <1> QED
    BY <1>1, <1>2, CheckedNext, PlacesHold, Typing, PTL DEF Spec

-----------------------------------------------------------------------------
(* The way back                                                            *)

\* As long as machines are only started at rest: nothing is left to the finalizer, who is being
\* started or cleaned up after does not run, and when a PCI device is given back, those asked about
\* that still run do not have it.
Asked(o) == kind[vm] = "pci" => ~IsIn(vm, o)
Rested ==
    /\ dropped = {} /\ gcvm = Nobody
    /\ stopped \cap active = {}
    /\ lock # "free" => vm \notin active \cup stopped
    /\ lock = "leave" => \A o \in active \ todo : Asked(o)
    /\ lock = "reattach" /\ ~erred => \A o \in active : Asked(o)
RestedInv == ~hasty => Rested

LEMMA RestedNext == Places /\ RestedInv /\ [Next]_vars => RestedInv'
  <1> SUFFICES ASSUME Places, RestedInv, [Next]_vars, ~hasty' PROVE Rested'
    BY DEF RestedInv
  <1>0. ~hasty
    BY DEF Next, HolderStep, GcStep, Starts, StartRefused, GuestStops, SeesFree, Detaches, Creates, CreateFails,
           Reattaches, SeesOther, SeesUser, HandlesStop, GcReattaches, GcTakes, GcSees, Crash, vars, history
  <1> USE <1>0, NobodyIsNoVm
      DEF NobodyIsNoVm, Places, RestedInv, Rested, Asked, IsIn, Shares, Others, config, libvirt, holder, gc, history
  <1>1. ASSUME NEW v \in Vms, Starts(v) PROVE Rested'
    BY <1>1 DEF Starts, Asks, AtRest
  <1>2. ASSUME NEW v \in Vms, StartRefused(v) \/ GuestStops(v) PROVE Rested'
    BY <1>2 DEF StartRefused, GuestStops
  <1>3. ASSUME NEW v \in Vms, HandlesStop(v) PROVE Rested'
    BY <1>3 DEF HandlesStop, Asks
  <1>4. ASSUME NEW v \in Vms, SeesOther(v) PROVE Rested'
    BY <1>4 DEF SeesOther
  <1>5. ASSUME NEW v \in Vms, SeesUser(v) PROVE Rested'
    BY <1>5 DEF SeesUser, GoesOn, Asks, Releases
  <1>6. CASE SeesFree
    BY <1>6 DEF SeesFree
  <1>7. CASE Detaches
    BY <1>7 DEF Detaches, Releases
  <1>8. CASE Creates \/ CreateFails
    BY <1>8 DEF Creates, CreateFails, Asks, Releases
  <1>9. CASE Reattaches
    BY <1>9 DEF Reattaches, GivesBack, GoesOn, Asks, Releases
  <1>10. CASE GcStep
    BY <1>10 DEF GcStep, GcReattaches, GivesBack, GcTakes, GcSees
  <1>11. CASE Crash
    BY <1>11 DEF Crash, Releases
  <1>12. CASE UNCHANGED vars
    BY <1>12 DEF vars
  <1> QED
    BY <1>1, <1>2, <1>3, <1>4, <1>5, <1>6, <1>7, <1>8, <1>9, <1>10, <1>11, <1>12 DEF Next, HolderStep

\* That libvirt raised an error is not forgotten.
LEMMA ErrorsStay == [Next]_vars /\ ~erred' => ~erred
  <1> SUFFICES ASSUME [Next]_vars, ~erred', erred PROVE FALSE
    OBVIOUS
  <1>1. ASSUME NEW v \in Vms, Starts(v) \/ StartRefused(v) \/ GuestStops(v) PROVE FALSE
    BY <1>1 DEF Starts, StartRefused, GuestStops, history
  <1>2. CASE HolderStep
    BY <1>2 DEF HolderStep, SeesFree, Detaches, Creates, CreateFails, Reattaches, GivesBack, SeesOther,
                SeesUser, HandlesStop, history
  <1>3. CASE GcStep
    BY <1>3 DEF GcStep, GcReattaches, GivesBack, GcTakes, GcSees, history
  <1>4. CASE Crash \/ UNCHANGED vars
    BY <1>4 DEF Crash, vars, history
  <1> QED
    BY <1>1, <1>2, <1>3, <1>4 DEF Next

Keeps ==
    \A v \in active : kind[v] = "pci" /\ unit[v] \in bound /\ ~hasty /\ ~erred' => unit[v] \in bound'

\* Only giving back unbinds a device, and the machine it is given back for was found without others.
LEMMA GivingBackKeeps == Places /\ RestedInv /\ [Next]_vars => Keeps
  <1> SUFFICES ASSUME Places, RestedInv, [Next]_vars, NEW v \in active,
                      kind[v] = "pci", unit[v] \in bound, ~hasty, ~erred'
               PROVE  unit[v] \in bound'
    BY DEF Keeps
  <1> USE NobodyIsNoVm DEF NobodyIsNoVm, Places, RestedInv, Rested
  <1>1. CASE Reattaches
    <2>1. vm \in Vms /\ lock = "reattach" /\ GivesBack(vm)
      BY <1>1 DEF Reattaches
    <2>2. ~erred /\ Asked(v)
      BY <2>1 DEF GivesBack
    <2>3. kind[vm] = "pci" => unit[vm] # unit[v]
      BY <2>1, <2>2 DEF Asked, IsIn, Shares
    <2> QED
      BY <2>1, <2>3 DEF GivesBack, Without
  <1>2. CASE GcStep
    BY <1>2 DEF GcStep, GcReattaches, GcTakes, GcSees
  <1>3. CASE Detaches
    BY <1>3 DEF Detaches
  <1>4. CASE UNCHANGED bound
    BY <1>4
  <1> QED
    BY <1>1, <1>2, <1>3, <1>4
       DEF Next, HolderStep, Starts, StartRefused, GuestStops, SeesFree, Creates, CreateFails, SeesOther,
           SeesUser, HandlesStop, Crash, vars

\* With starts at rest and no error of libvirt, no device is taken from a machine that runs, for
\* any number of machines and devices, whatever stops or crashes meanwhile (device/pci.py:102-119).
THEOREM RunningKeepsDevice == Spec => NeverTakenAway
  <1>1. Init => RestedInv
    BY DEF Init, RestedInv, Rested
  <1>2. Places /\ RestedInv /\ [Next]_vars => [Keeps]_vars
    BY GivingBackKeeps
  <1> QED
    BY <1>1, <1>2, RestedNext, PlacesHold, Typing, PTL DEF Spec, NeverTakenAway, Keeps

\* What is bound was bound for a machine that runs, whose stop is still to be handled, or that
\* the holder of the lock is starting or leaving; the first two are entries.
OwnedBy(u, v) ==
    /\ kind[v] = "pci" /\ unit[v] = u
    /\ v \in active \cup stopped \/ (lock \in {"create", "leave", "reattach"} /\ vm = v)
Owned ==
    /\ active \cup stopped \subseteq entries
    /\ \A u \in bound : \E v \in Vms : OwnedBy(u, v)
OwnedInv == crashes = 0 /\ ~hasty /\ ~erred => Owned

LEMMA OwnedNext == Places /\ CheckedInv /\ RestedInv /\ OwnedInv /\ [Next]_vars => OwnedInv'
  <1> SUFFICES ASSUME Places, CheckedInv, RestedInv, OwnedInv, [Next]_vars, crashes' = 0, ~hasty', ~erred'
               PROVE  Owned'
    BY DEF OwnedInv
  <1>0. crashes = 0 /\ ~hasty /\ ~erred
    <2>1. ~hasty
      BY DEF Next, HolderStep, GcStep, Starts, StartRefused, GuestStops, SeesFree, Detaches, Creates, CreateFails,
             Reattaches, SeesOther, SeesUser, HandlesStop, GcReattaches, GcTakes, GcSees, Crash, vars, history
    <2>2. ~erred
      BY ErrorsStay
    <2>3. crashes = 0
      BY BoundNat DEF BoundNat, Places, Next, HolderStep, GcStep, Starts, StartRefused, GuestStops, SeesFree,
             Detaches, Creates, CreateFails, Reattaches, SeesOther, SeesUser, HandlesStop, GcReattaches, GcTakes,
             GcSees, Crash, vars, history
    <2> QED
      BY <2>1, <2>2, <2>3
  <1> USE <1>0, NobodyIsNoVm
      DEF NobodyIsNoVm, Places, RestedInv, Rested, OwnedInv, Owned, OwnedBy, config, libvirt, holder, gc, history
  <1>1. ASSUME NEW v \in Vms, Starts(v) PROVE Owned'
    BY <1>1 DEF Starts, Asks, AtRest
  <1>2. ASSUME NEW v \in Vms, StartRefused(v) \/ GuestStops(v) PROVE Owned'
    BY <1>2 DEF StartRefused, GuestStops
  <1>3. ASSUME NEW v \in Vms, HandlesStop(v) PROVE Owned'
    BY <1>3 DEF HandlesStop, Asks
  <1>4. ASSUME NEW v \in Vms, SeesOther(v) PROVE Owned'
    BY <1>4 DEF SeesOther
  <1>5. ASSUME NEW v \in Vms, SeesUser(v) PROVE Owned'
    BY <1>5 DEF SeesUser, GoesOn, Asks, Releases, IsIn, Shares
  <1>6. CASE SeesFree
    BY <1>6 DEF SeesFree
  <1>7. CASE Detaches
    BY <1>7 DEF Detaches, Releases
  <1>8. CASE Creates \/ CreateFails
    BY <1>8 DEF Creates, CreateFails, Asks, Releases
  <1>9. CASE Reattaches
    BY <1>9 DEF Reattaches, GivesBack, Without, GoesOn, Asks, Releases
  <1>10. CASE GcStep
    BY <1>10 DEF GcStep, GcReattaches, GcTakes, GcSees
  <1>11. CASE Crash
    BY <1>11 DEF Crash
  <1>12. CASE UNCHANGED vars
    BY <1>12 DEF vars
  <1> QED
    BY <1>1, <1>2, <1>3, <1>4, <1>5, <1>6, <1>7, <1>8, <1>9, <1>10, <1>11, <1>12 DEF Next, HolderStep

\* With starts at rest, no crash and no error, once every stop was handled a device that is
\* bound is used, however many machines shared it one after the other (device/pci.py:107-117).
THEOREM UnusedGoesBack == Spec => []GivenBack
  <1>1. Init => CheckedInv /\ RestedInv /\ OwnedInv
    BY DEF Init, CheckedInv, RestedInv, Rested, OwnedInv, Owned
  <1>2. OwnedInv => GivenBack
    BY DEF OwnedInv, Owned, OwnedBy, GivenBack
  <1> QED
    BY <1>1, <1>2, CheckedNext, RestedNext, OwnedNext, PlacesHold, Typing, PTL DEF Spec

=============================================================================
