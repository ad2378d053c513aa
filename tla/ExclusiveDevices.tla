-------------------------- MODULE ExclusiveDevices --------------------------
(***************************************************************************)
(* Devices that one virtual machine at a time can use: the check before a  *)
(* start (StartValidator, Device.validate_start, _is_in_use_by_other_vms), *)
(* PCIDevice.run, which takes the device from the host and gives it back,  *)
(* and the domain manager around them.                                     *)
(*                                                                         *)
(* Every machine has one such device.  libvirt does here what it is asked: *)
(* that it refuses some of it by itself is not counted on, and it may      *)
(* raise an error at any question.  The check asks libvirt about one       *)
(* machine after another while guests stop in between.                     *)
(* No two USB devices of the host have the same vendor and product.        *)
(***************************************************************************)
EXTENDS FiniteSets, Naturals

CONSTANTS
    Vms,         \* the machines
    Units,       \* the devices of the host
    Kinds,       \* how devices are configured in this instance
    Nobody,      \* no machine
    MaxCrashes   \* bound: crashes of the process in a behaviour

\* By PCI address, by the USB name usb_<bus>_<device>, or by USB vendor and product.
AllKinds == {"pci", "usb name", "usb ids"}

ASSUME KindsKnown == Kinds \subseteq AllKinds
ASSUME NobodyIsNoVm == Nobody \notin Vms
ASSUME BoundNat == MaxCrashes \in Nat

VARIABLES
    unit, kind,  \* the device of each machine, and how it is configured
    active,      \* libvirt: machines that run
    bound,       \* kernel: devices bound to vfio rather than to their host driver
    stopped,     \* machines whose STOPPED event is queued
    entries,     \* started_domains
    dropped,     \* machines with a context that waits for the finalizer
    lock,        \* what the holder of started_domains_lock does
    vm,          \* the machine it does it for
    start,       \* it is a start that, after giving back an old context, goes on
    todo,        \* machines the lock's holder has still to ask about
    gcvm, gctodo, \* the machine the finalizer works for; whom it has still to ask about
    crashes,
    hasty,       \* somebody started a machine that was not at rest
    erred        \* libvirt raised an error at a check or when a device was given back

config  == <<unit, kind>>
libvirt == <<active, stopped>>
holder  == <<lock, vm, start, todo>>
gc      == <<gcvm, gctodo>>
history == <<crashes, hasty, erred>>
vars == <<config, libvirt, bound, entries, dropped, holder, gc, history>>

TypeOK ==
    /\ unit \in [Vms -> Units] /\ kind \in [Vms -> Kinds]
    /\ active \subseteq Vms /\ stopped \subseteq Vms /\ entries \subseteq Vms
    /\ dropped \subseteq Vms
    /\ bound \subseteq Units
    /\ lock \in {"free", "validate", "detach", "create", "leave", "reattach"}
    /\ vm \in Vms \cup {Nobody} /\ gcvm \in Vms \cup {Nobody}
    /\ start \in BOOLEAN
    /\ todo \subseteq Vms /\ gctodo \subseteq Vms
    /\ lock # "free" => vm # Nobody
    /\ crashes \in 0..MaxCrashes /\ hasty \in BOOLEAN /\ erred \in BOOLEAN

Init ==
    /\ unit \in [Vms -> Units] /\ kind \in [Vms -> Kinds]
    /\ active = {} /\ stopped = {} /\ entries = {} /\ dropped = {} /\ bound = {}
    /\ lock = "free" /\ vm = Nobody /\ start = FALSE /\ todo = {}
    /\ gcvm = Nobody /\ gctodo = {}
    /\ crashes = 0 /\ hasty = FALSE /\ erred = FALSE

Others(v) == Vms \ {v}

\* The devices of v and w are one.
Shares(v, w) == unit[v] = unit[w] /\ (kind[v] = "pci" <=> kind[w] = "pci")

\* What _is_device_in_domain_xml(v's device, w's XML) finds. The XML of a USB device
\* has the vendor, the product and the device number of its address, whichever way it
\* is configured; a USB name is compared with that number.
IsIn(v, w) ==
    \/ kind[v] = "pci" /\ Shares(v, w)
    \/ kind[v] = "usb ids" /\ Shares(v, w)

Releases == lock' = "free" /\ vm' = Nobody /\ start' = FALSE /\ todo' = {}

-----------------------------------------------------------------------------
(* Under the lock: a start, or the callback of a stop *)

\* _is_in_use_by_other_vms goes through the machines.
Asks(next) == lock' = next /\ todo' = Others(vm')

\* Neither running nor with a stop or a context still to be handled.
AtRest(v) == v \notin active \cup stopped \cup dropped /\ gcvm # v

Starts(v) ==
    /\ lock = "free"
    /\ v \in entries => v \notin active
    /\ vm' = v /\ start' = TRUE
    /\ Asks(IF v \in entries THEN "leave" ELSE "validate")
    /\ entries' = entries \ {v}
    /\ hasty' = (hasty \/ ~AtRest(v))
    /\ UNCHANGED <<config, libvirt, bound, dropped, gc, crashes, erred>>

\* "already started": the entry is given up with the exception.
StartRefused(v) ==
    /\ lock = "free"
    /\ v \in entries \cap active
    /\ entries' = entries \ {v}
    /\ dropped' = dropped \cup {v}
    /\ hasty' = TRUE
    /\ UNCHANGED <<config, libvirt, bound, holder, gc, crashes, erred>>

\* Mutant: the device is given back without asking who uses it.
HandlesStop_Blind(v) ==
    /\ lock = "free"
    /\ v \in stopped
    /\ stopped' = stopped \ {v}
    /\ entries' = entries \ {v}
    /\ IF v \in entries
         THEN vm' = v /\ start' = FALSE /\ lock' = "reattach" /\ todo' = {}
         ELSE UNCHANGED holder
    /\ UNCHANGED <<config, active, bound, dropped, gc, history>>

HandlesStop(v) ==
    /\ lock = "free"
    /\ v \in stopped
    /\ stopped' = stopped \ {v}
    /\ entries' = entries \ {v}
    /\ IF v \in entries
         THEN vm' = v /\ start' = FALSE /\ Asks("leave")
         ELSE UNCHANGED holder
    /\ UNCHANGED <<config, active, bound, dropped, gc, history>>

\* Mutant: the last machine is not looked at.
SeesFree_Early ==
    /\ lock \in {"validate", "leave"}
    /\ Cardinality(todo) <= 1
    /\ lock' = IF lock = "validate" THEN "detach" ELSE "reattach"
    /\ UNCHANGED <<config, libvirt, bound, entries, dropped, vm, start, todo, gc, history>>

SeesOther(o) ==
    /\ lock \in {"validate", "leave"}
    /\ o \in todo
    /\ ~(o \in active /\ IsIn(vm, o))
    /\ todo' = todo \ {o}
    /\ UNCHANGED <<config, libvirt, bound, entries, dropped, lock, vm, start, gc, history>>

\* After the last machine, or if libvirt raises an error: not in use, then.
SeesFree ==
    /\ lock \in {"validate", "leave"}
    /\ erred' = (erred \/ todo # {})
    /\ lock' = IF lock = "validate" THEN "detach" ELSE "reattach"
    /\ UNCHANGED <<config, libvirt, bound, entries, dropped, vm, start, todo, gc, crashes, hasty>>

\* A context that was left goes back to the start that found it, or to nobody.
GoesOn == IF start THEN UNCHANGED <<vm, start>> /\ Asks("validate") ELSE Releases

\* In use: the start is refused, or the device is not given back.
SeesUser(o) ==
    /\ lock \in {"validate", "leave"}
    /\ o \in todo
    /\ o \in active /\ IsIn(vm, o)
    /\ IF lock = "validate" THEN Releases ELSE GoesOn
    /\ UNCHANGED <<config, libvirt, bound, entries, dropped, gc, history>>

\* A device that is detached already is as good; another error fails the start. Only
\* PCI devices are detached.
Detaches ==
    /\ lock = "detach"
    /\ \/ /\ bound' = IF kind[vm] = "pci" THEN bound \cup {unit[vm]} ELSE bound
          /\ lock' = "create"
          /\ UNCHANGED <<vm, start, todo>>
       \/ /\ kind[vm] = "pci"
          /\ Releases
          /\ UNCHANGED bound
    /\ UNCHANGED <<config, libvirt, entries, dropped, gc, history>>

Creates ==
    /\ lock = "create"
    /\ vm \notin active
    /\ active' = active \cup {vm}
    /\ entries' = entries \cup {vm}
    /\ Releases
    /\ UNCHANGED <<config, stopped, bound, dropped, gc, history>>

\* Mutant: the clean-up comes after the end of the start.
CreateFails_Released ==
    /\ lock = "create"
    /\ start' = FALSE /\ vm' = Nobody
    /\ Asks("leave")
    /\ UNCHANGED <<config, libvirt, bound, entries, dropped, gc, history>>

\* Mutant: no clean-up.
CreateFails_Leaks ==
    /\ lock = "create"
    /\ Releases
    /\ UNCHANGED <<config, libvirt, bound, entries, dropped, gc, history>>

CreateFails ==
    /\ lock = "create"
    /\ start' = FALSE
    /\ UNCHANGED vm
    /\ Asks("leave")
    /\ UNCHANGED <<config, libvirt, bound, entries, dropped, gc, history>>

\* What raises is logged, and the device stays where it is.
Without(v) == IF kind[v] = "pci" THEN bound \ {unit[v]} ELSE bound

GivesBack(v) ==
    \/ bound' = Without(v) /\ UNCHANGED erred
    \/ kind[v] = "pci" /\ erred' = TRUE /\ UNCHANGED bound

Reattaches ==
    /\ lock = "reattach"
    /\ GivesBack(vm)
    /\ GoesOn
    /\ UNCHANGED <<config, libvirt, entries, dropped, gc, crashes, hasty>>

HolderStep ==
    \/ SeesFree \/ Detaches \/ Creates \/ CreateFails \/ Reattaches
    \/ \E v \in Vms : SeesOther(v) \/ SeesUser(v) \/ HandlesStop(v)

-----------------------------------------------------------------------------
(* The finalizer leaves dropped contexts without the lock *)

GcTakes(v) ==
    /\ gcvm = Nobody
    /\ v \in dropped
    /\ dropped' = dropped \ {v}
    /\ gcvm' = v /\ gctodo' = Others(v)
    /\ UNCHANGED <<config, libvirt, bound, entries, holder, history>>

GcSees(o) ==
    /\ gcvm # Nobody /\ o \in gctodo
    /\ IF o \in active /\ IsIn(gcvm, o)
         THEN gcvm' = Nobody /\ gctodo' = {}
         ELSE gctodo' = gctodo \ {o} /\ UNCHANGED gcvm
    /\ UNCHANGED <<config, libvirt, bound, entries, dropped, holder, history>>

GcReattaches ==
    /\ gcvm # Nobody
    /\ \/ gctodo = {} /\ GivesBack(gcvm)
       \/ gctodo # {} /\ erred' = TRUE /\ bound' \in {bound, Without(gcvm)}
    /\ gcvm' = Nobody /\ gctodo' = {}
    /\ UNCHANGED <<config, libvirt, entries, dropped, holder, crashes, hasty>>

GcStep == GcReattaches \/ \E v \in Vms : GcTakes(v) \/ GcSees(v)

-----------------------------------------------------------------------------
(* Environment *)

GuestStops(v) ==
    /\ v \in active
    /\ active' = active \ {v}
    /\ stopped' = stopped \cup {v}
    /\ UNCHANGED <<config, bound, entries, dropped, holder, gc, history>>

Crash ==
    /\ crashes < MaxCrashes
    /\ crashes' = crashes + 1
    /\ stopped' = {} /\ entries' = {} /\ dropped' = {}
    /\ Releases
    /\ gcvm' = Nobody /\ gctodo' = {}
    /\ UNCHANGED <<config, active, bound, hasty, erred>>

Next ==
    \/ \E v \in Vms : Starts(v) \/ StartRefused(v) \/ GuestStops(v)
    \/ HolderStep \/ GcStep \/ Crash

Spec == Init /\ [][Next]_vars

-----------------------------------------------------------------------------
(* Properties *)

\* Machines may stop while the check goes through them, but none can start: a check
\* that meets no error and finds no user is still right when the device is detached and
\* the machine created, whoever starts what, also after the process was restarted under
\* running machines.
ConflictsAreFound ==
    lock \in {"detach", "create"} /\ ~erred => \A o \in active \ {vm} : ~Shares(vm, o)

\* With starts at rest a device goes back to its host driver only if no machine that
\* runs uses it, although the machine it was detached for may have been off for long
\* and the next one be up already when its event is handled.  Such starts leave nothing to
\* the finalizer: what it may take away after others is not covered.
NeverTakenAway ==
    [][\A v \in active : kind[v] = "pci" /\ unit[v] \in bound /\ ~hasty /\ ~erred'
                            => unit[v] \in bound']_vars

\* With starts at rest, no crash and no error, what no machine uses is back with the
\* host once every stop was handled: of two users one after the other, one gives it back.
GivenBack ==
    lock = "free" /\ stopped = {} /\ crashes = 0 /\ ~hasty /\ ~erred =>
        \A u \in bound : \E v \in active : kind[v] = "pci" /\ unit[v] = u

\* src/truenas_pylibvirt/device/usb.py:15 says: "USB devices can only be used by one
\* VM at a time". A check that meets no error lets no machine pass whose device another
\* one uses.
UsbConflictsAreFound ==
    lock = "detach" /\ kind[vm] # "pci" /\ ~erred => \A o \in active \ {vm} : ~Shares(vm, o)

=============================================================================
