--------------------------- MODULE HostInventory ---------------------------
(***************************************************************************)
(* Which devices of the host may be given to guests: the walks of          *)
(* truenas_pylibvirt.utils.iommu over the PCI bridges and what utils.pci   *)
(* and utils.gpu report from them.  Both read sysfs and udev piece by      *)
(* piece while devices come and go.  A behaviour is one call,              *)
(*                                                                         *)
(*   "pci"  get_all_pci_devices_details: one cache per device it judges    *)
(*   "gpu"  get_gpus: one cache for the whole call                         *)
(*                                                                         *)
(* The recursion of _is_bridge_critical_recursive is a set of devices that *)
(* its frames have still to look at: it returns TRUE from all of them at   *)
(* once, and their order decides nothing.  Addresses, names, descriptions  *)
(* and drivers are left out.                                               *)
(***************************************************************************)
EXTENDS Integers, FiniteSets

CONSTANTS
    Devices,     \* the places of PCI devices
    Bridges,     \* those of class 0x0604
    Sensitive,   \* those of another class of SENSITIVE_PCI_DEVICE_TYPES
    Gpus,        \* those of a class of GPU_CLASS_CODES
    Groups,      \* IOMMU groups
    NoGroup,     \* in no group
    Topologies,  \* what may be on the buses that each bridge leads to, [Bridges -> SUBSET Devices]
    Groupings,   \* which devices may share a group, [Devices -> Groups \cup {NoGroup}]
    MaxChanges   \* bound: devices plugged in or out during the call

ASSUME ClassesAreApart ==
    /\ Bridges \subseteq Devices /\ Sensitive \subseteq Devices /\ Gpus \subseteq Devices
    /\ Bridges \cap Sensitive = {} /\ Devices # {}
ASSUME TopologiesAreTyped == Topologies \subseteq [Bridges -> SUBSET Devices]
ASSUME GroupingsAreTyped == NoGroup \notin Groups /\ Groupings \subseteq [Devices -> Groups \cup {NoGroup}]

VARIABLES
    present,   \* kernel: the devices that are there
    behind,    \* kernel: the devices on the buses from secondary to subordinate of each bridge
    group,     \* kernel: the IOMMU group of each device
    changes,
    steady,    \* history: the devices that were there all through the call
    ever,      \* history: those that were there at some time in it
    call,      \* which of the two calls this is
    pc,
    cache,     \* device_to_class and bus_to_devices: the devices that are in them
    listed,    \* final: the devices found in groups so far
    critical,  \* those of them that are marked critical
    root,      \* the device in hand: i in the listing, addr among the GPUs
    todo,      \* what the loops over devices in hand have still to look at
    visited,   \* the bridges that the recursion has entered
    pci,       \* what get_all_pci_devices_details reports
    gpus,      \* the GPUs that get_gpus has in its list,
    marked,    \* those of them that use system critical devices,
    blind,     \* history: those of which a look-up failed
    cut        \* history: the listing broke off

world  == <<present, behind, group, changes, steady, ever>>
walk   == <<root, todo, visited>>
result == <<pci, gpus, marked, blind, cut>>
vars == <<world, call, pc, cache, listed, critical, walk, result>>

Empty == [d \in {} |-> {}]

Init ==
    /\ present \in SUBSET Devices
    /\ behind \in Topologies
    /\ group \in Groupings
    /\ changes = 0 /\ steady = present /\ ever = present
    /\ call \in {"pci", "gpu"}
    /\ pc = IF call = "gpu" THEN "build" ELSE "list"
    /\ cache = {} /\ listed = {} /\ critical = {}
    /\ root = (CHOOSE d \in Devices : TRUE) /\ todo = {} /\ visited = {}
    /\ pci = Empty /\ gpus = {} /\ marked = {} /\ blind = {} /\ cut = FALSE

-----------------------------------------------------------------------------
(* Which devices are critical                                              *)

\* get_gpus builds its cache first; get_iommu_groups_info builds one for each device.
BuildCache ==
    /\ pc = "build"
    /\ cache' = present
    /\ pc' = "list"
    /\ UNCHANGED <<world, call, listed, critical, walk, result>>

\* A bridge whose bus numbers cannot be read, for it has gone, leads nowhere.
DevicesBehind(b, known) ==
    (IF b \in present THEN behind[b] \cap known ELSE {}) \ {b}

\* The next path under /sys/kernel/iommu_groups.
Pick(d) ==
    /\ pc = "list"
    /\ d \in present \ listed /\ group[d] # NoGroup
    /\ root' = d
    /\ pc' = "judge"
    /\ UNCHANGED <<world, call, cache, listed, critical, todo, visited, result>>

Judged(isCritical) ==
    /\ listed' = listed \cup {root}
    /\ critical' = IF isCritical THEN critical \cup {root} ELSE critical
    /\ todo' = {} /\ visited' = {}
    /\ pc' = "list"

\* A device that is not in the cache has class 0, which is no class at all.
Judge ==
    /\ pc = "judge"
    /\ cache' = IF call = "gpu" THEN cache ELSE present
    /\ IF root \in Bridges \cap cache'
          THEN /\ visited' = {root} /\ todo' = DevicesBehind(root, cache')
               /\ pc' = "walk"
               /\ UNCHANGED <<listed, critical>>
          ELSE Judged(root \in Sensitive \cap cache')
    /\ UNCHANGED <<world, call, root, result>>

\* Mutant: the bridges that were entered are not remembered.
Enters_Forgets(d) == d \in Bridges
\* Mutant: only what is directly on the buses of the bridge counts.
Enters_Never(d) == FALSE
Enters(d) == d \in Bridges \ visited

\* One device of the loop in _is_bridge_critical_recursive, and the frame that it opens.
Look(d) ==
    /\ pc = "walk" /\ d \in todo
    /\ IF d \in Sensitive
          THEN Judged(TRUE)
          ELSE /\ IF Enters(d)
                     THEN /\ visited' = visited \cup {d}
                          /\ todo' = (todo \ {d}) \cup DevicesBehind(d, cache)
                     ELSE /\ todo' = todo \ {d}
                          /\ UNCHANGED visited
               /\ UNCHANGED <<pc, listed, critical>>
    /\ UNCHANGED <<world, call, cache, root, result>>

WalkEnds ==
    /\ pc = "walk" /\ todo = {}
    /\ Judged(FALSE)
    /\ UNCHANGED <<world, call, cache, root, result>>

AfterListing == pc' = IF call = "gpu" THEN "gpus" ELSE "report"

\* The listing ends when it has seen every device that was there all the time, ...
ListEnds ==
    /\ pc = "list"
    /\ \A d \in steady : d \in listed \/ group[d] = NoGroup
    /\ AfterListing
    /\ UNCHANGED <<world, call, cache, listed, critical, walk, result>>

\* ... or where the directory of a group goes away under the glob with the last of its
\* devices: the FileNotFoundError is suppressed outside the loop, and nobody is told.
ListBreaks ==
    /\ pc = "list"
    /\ \E d \in (IF call = "gpu" THEN cache ELSE ever) \ present :
          group[d] # NoGroup /\ \A e \in present \cup listed : group[e] # group[d]
    /\ AfterListing
    /\ cut' = TRUE
    /\ UNCHANGED <<world, call, cache, listed, critical, walk, pci, gpus, marked, blind>>

-----------------------------------------------------------------------------
(* What the calls report                                                   *)

\* A device that udev lists and that no group had is critical, with an error.
Details(d) == [critical |-> d \notin listed \/ d \in critical, error |-> d \notin listed]

Report ==
    /\ pc = "report"
    /\ pci' = [d \in present |-> Details(d)]
    /\ pc' = "done"
    /\ UNCHANGED <<world, call, cache, listed, critical, walk, gpus, marked, blind, cut>>

\* PCIDevice.validate_impl finds no error in the details, where there is an IOMMU.
Accepted(d) == d \in DOMAIN pci /\ ~pci[d].error /\ ~pci[d].critical

GroupOf(g) == IF g \in listed THEN {d \in listed : group[d] = group[g]} ELSE {}

\* A device that has gone raises DeviceNotFoundError, a LookupError, out of the call.
Raises ==
    /\ pc' = "raised"
    /\ UNCHANGED <<world, call, cache, listed, critical, walk, result>>

NextGpu(g) ==
    /\ pc = "gpus" /\ g \in (Gpus \cap cache) \ gpus
    /\ IF g \notin present
          THEN Raises
          ELSE /\ gpus' = gpus \cup {g}
               /\ root' = g /\ todo' = GroupOf(g)
               /\ pc' = "look"
               /\ UNCHANGED <<world, call, cache, listed, critical, visited, pci, marked, blind, cut>>

\* Mutant: a bridge in the group is no reason, whatever it leads to.
Marks_NoBridge(d, ok) == ok /\ d \in critical \ Bridges
Marks(d, ok) == ok /\ d \in critical

\* A look-up that fails, ok = FALSE, adds the device without asking if it is critical.
LookUp(d, ok) ==
    /\ pc = "look" /\ d \in todo
    /\ IF d \notin present
          THEN Raises
          ELSE /\ marked' = IF Marks(d, ok) THEN marked \cup {root} ELSE marked
               /\ blind' = IF ok THEN blind ELSE blind \cup {root}
               /\ todo' = todo \ {d}
               /\ UNCHANGED <<world, call, pc, cache, listed, critical, root, visited, pci, gpus, cut>>

GpuEnds ==
    /\ pc = "look" /\ todo = {}
    /\ pc' = "gpus"
    /\ UNCHANGED <<world, call, cache, listed, critical, walk, result>>

GpusEnd ==
    /\ pc = "gpus" /\ Gpus \cap cache \subseteq gpus
    /\ pc' = "done"
    /\ UNCHANGED <<world, call, cache, listed, critical, walk, result>>

-----------------------------------------------------------------------------
(* Devices come and go                                                     *)

Running == pc \notin {"done", "raised"}

Unplug(d) ==
    /\ Running /\ changes < MaxChanges /\ d \in present
    /\ present' = present \ {d} /\ steady' = steady \ {d}
    /\ changes' = changes + 1
    /\ UNCHANGED <<behind, group, ever, call, pc, cache, listed, critical, walk, result>>

Plug(d) ==
    /\ Running /\ changes < MaxChanges /\ d \in Devices \ present
    /\ present' = present \cup {d} /\ ever' = ever \cup {d}
    /\ changes' = changes + 1
    /\ UNCHANGED <<behind, group, steady, call, pc, cache, listed, critical, walk, result>>

-----------------------------------------------------------------------------
Step ==
    \/ BuildCache \/ Judge \/ WalkEnds \/ ListEnds \/ ListBreaks \/ Report \/ GpuEnds \/ GpusEnd
    \/ \E d \in Devices : Pick(d) \/ Look(d) \/ NextGpu(d)
    \/ \E d \in Devices, ok \in BOOLEAN : LookUp(d, ok)

Next == Step \/ \E d \in Devices : Unplug(d) \/ Plug(d)

Spec == Init /\ [][Next]_vars
\* The call runs in a thread that is not suspended.
FairSpec == Spec /\ WF_vars(Step)

-----------------------------------------------------------------------------
(* Properties                                                              *)

TypeOK ==
    /\ present \subseteq Devices /\ steady \subseteq present /\ present \subseteq ever
    /\ ever \subseteq Devices
    /\ behind \in [Bridges -> SUBSET Devices]
    /\ group \in [Devices -> Groups \cup {NoGroup}]
    /\ call \in {"pci", "gpu"}
    /\ pc \in {"build", "list", "judge", "walk", "report", "gpus", "look", "done", "raised"}
    /\ cache \subseteq ever
    /\ critical \subseteq listed /\ listed \subseteq Devices
    /\ root \in Devices /\ todo \subseteq Devices /\ visited \subseteq Bridges
    /\ DOMAIN pci \subseteq Devices /\ gpus \subseteq Gpus /\ marked \cup blind \subseteq gpus
    /\ cut \in BOOLEAN

\* What can be reached from d through the devices of S: it is in every set that holds d
\* and, with a bridge of S, the devices of S behind it.
Closed(S, R) == \A b \in R \cap Bridges \cap S : behind[b] \cap S \subseteq R
Reaches(S, d, e) == \A R \in SUBSET Devices : d \in R /\ Closed(S, R) => e \in R
Critical(S, d) == d \in S /\ \E e \in Sensitive \cap S : Reaches(S, d, e)

\* The recursion that stops at bridges it has seen, over a cache and bus numbers read at
\* different times, decides reachability whatever the bus numbers are: a device it calls
\* critical leads to a sensitive one, and one it does not call critical leads to none
\* through devices that stayed.
VerdictHolds ==
    /\ \A d \in critical : Critical(ever, d)
    /\ \A d \in (listed \ critical) \cap steady : ~Critical(steady, d)

\* No device that stayed is offered if the host needs it.  PCI passthrough accepts none
\* that leads to a sensitive device, a listing that broke off included: what it missed is
\* critical.  A GPU that is not marked, and of whose group no look-up failed, shares its
\* group with none; after a listing that broke off this is so only as far as the listing
\* got, for a GPU that it missed is in no group and one it has seen in a smaller one.
OfferedIsSafe ==
    /\ \A d \in steady : Accepted(d) => ~Critical(steady, d)
    /\ pc = "done" => \A g \in (steady \cap gpus) \ (marked \cup blind), d \in steady :
            group[g] # NoGroup /\ group[d] = group[g] /\ (cut => {g, d} \subseteq listed)
               => ~Critical(steady, d)

\* Bus numbers may lead from a bridge to itself: the walks end all the same.
CallEnds == <>~Running

=============================================================================
