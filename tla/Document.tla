------------------------------ MODULE Document ------------------------------
(***************************************************************************)
(* One start of a domain seen from its devices: the check of each of them  *)
(* (domain/start_validator.py), their contexts (device/nic.py,             *)
(* device/display.py), the document they are written into (domain/*/xml.py *)
(* and the xml methods of device/) and the way back.  Between two steps    *)
(* the host may change under it: links, default route, USB, device nodes.  *)
(***************************************************************************)
EXTENDS Configuration

CONSTANTS
    Starts,     \* what is started, on which host: [config, world]
    Unsteady,   \* the configurations during whose start the host changes
    Worlds,     \* the states of a host
    Links,      \* what a NIC can be on
    Ports,      \* where a USB device is: a bus and a number on it
    Ids,        \* what it is: a vendor and a product
    Nameless,   \* what udev does not tell the ids of
    None, Unasked,
    MostDevices \* the longest list of devices

World ==
    [links : SUBSET Links, up : SUBSET Links, route : Links \cup {None},
     usb : [Ports -> Ids \cup {Nameless, None}], nodes : SUBSET STRING]

\* A USB device is given by its port or by its ids, as validate_impl has it.
Device ==
         [kind : {"disk"}, virtio : BOOLEAN]
    \cup [kind : {"cdrom"}]
    \cup [kind : {"display"}, spice : BOOLEAN]
    \cup [kind : {"usb"}, port : Ports, ids : {None}, controller : {None} \cup STRING]
    \cup [kind : {"usb"}, port : {None}, ids : Ids, controller : {None} \cup STRING]
    \cup [kind : {"nic"}, source : {None} \cup Links, bus : Nat]
    \cup [kind : {"gpu"}, vendor : STRING, slot : STRING]

Machine == [cpuset : Seq(Seq(Nat) \ {<<>>}), pin_vcpus : BOOLEAN]

Config ==
         [vm : {TRUE}, q35 : BOOLEAN, ensure_display : BOOLEAN, devices : Seq(Device),
          idmap : {None}, machine : Machine]
    \cup [vm : {FALSE}, q35 : {FALSE}, ensure_display : {FALSE}, devices : Seq(Device),
          idmap : {None} \cup [uid : Seq(Item), gid : Seq(Item)], machine : {None}]

ASSUME StartsAreTyped ==
    /\ Worlds \subseteq World
    /\ Starts \subseteq [config : Config, world : Worlds]
    /\ \A start \in Starts : Len(start.config.devices) <= MostDevices

ASSUME NothingIsNone ==
    /\ None \notin Nat \cup STRING \cup Links \cup Ports \cup Ids \cup [uid : Seq(Item), gid : Seq(Item)]
    /\ {Nameless, None} \cap Ids = {} /\ Unasked \notin Ports \cup {None}
    /\ MostDevices \in Nat

VARIABLES
    config,        \* what is started
    pc,            \* "configure", "check", "enter", "xml", "create", "up", "leave" or an end
    i,             \* the device at hand
    world,         \* the host
    changed,       \* the parts of it that changed since the start began
    unavailable,   \* the devices that is_available denied
    name,          \* the port that find_usb_device_by_ids returned
    node,          \* the cached path of each GPU's node
    counters,      \* the Counters of the document
    xml,           \* the elements of each device written so far
    proxies        \* the websockify of each display

vars == <<config, pc, i, world, changed, unavailable, name, node, counters, xml, proxies>>

devices == config.devices
device == devices[i]
AtDevice(phase) == pc = phase /\ i \in DOMAIN devices
AfterAll(phase) == pc = phase /\ i = Len(devices) + 1

Init ==
    /\ \E start \in Starts : config = start.config /\ world = start.world
    /\ pc = "configure" /\ i = 1
    /\ changed = {} /\ unavailable = {} /\ name = Unasked /\ xml = <<>>
    /\ node = [n \in DOMAIN devices |-> None]
    /\ proxies = [n \in DOMAIN devices |-> "none"]
    /\ counters = Counters

-----------------------------------------------------------------------------
(* The configuration and the check                                         *)

\* Both maps are checked when the configuration is made.
Configure ==
    /\ pc = "configure"
    /\ pc' = IF config.idmap = None \/ /\ validate_idmap_items(config.idmap.uid)
                                       /\ validate_idmap_items(config.idmap.gid)
             THEN "check" ELSE "rejected"
    /\ UNCHANGED <<config, i, world, changed, unavailable, name, node, counters, xml, proxies>>

\* The link a NIC is on: the one it names, else that of the default route, read anew each time.
LinkOf(nic) == IF nic.source # None THEN nic.source ELSE world.route

\* A device given by its ids is first looked for, then looked at under the name found.
ByIds == device.kind = "usb" /\ device.port = None

find_usb_device_by_ids ==
    /\ \E phase \in {"check", "xml"} : AtDevice(phase)
    /\ ByIds /\ name = Unasked
    /\ LET matching == {p \in Ports : world.usb[p] = device.ids}
       IN  name' \in IF matching = {} THEN {None} ELSE matching
    /\ UNCHANGED <<config, pc, i, world, changed, unavailable, node, counters, xml, proxies>>

Ready == ByIds => name # Unasked

PortOf == IF ByIds THEN name ELSE device.port

\* What is at a port now: ids, or None where nothing is or where udev does not tell its ids.
get_usb_device_details(port) ==
    IF port # None /\ world.usb[port] \in Ids THEN world.usb[port] ELSE None

DriverNodes(vendor) ==
    CASE vendor = "AMD" -> {"kfd"}
      [] vendor = "NVIDIA" -> {"nvidia-uvm", "nvidiactl"}
      [] OTHER -> {}

\* A disk's file is there or not; the rest is asked of the host.
Available ==
    CASE device.kind \in {"disk", "cdrom"} -> BOOLEAN
      [] device.kind = "usb" -> {get_usb_device_details(PortOf) # None}
      [] device.kind = "nic" -> {LinkOf(device) \in world.links}
      [] device.kind = "display" -> {TRUE}
      [] device.kind = "gpu" -> {{device.slot} \cup DriverNodes(device.vendor) \subseteq world.nodes}

\* A GPU keeps the path that it found when it was asked.
Check ==
    /\ AtDevice("check") /\ Ready
    /\ \E available \in Available :
          unavailable' = IF available THEN unavailable ELSE unavailable \cup {i}
    /\ node' = IF device.kind = "gpu" /\ device.slot \in world.nodes
               THEN [node EXCEPT ![i] = device.slot] ELSE node
    /\ i' = i + 1 /\ name' = Unasked
    /\ UNCHANGED <<config, pc, world, changed, counters, xml, proxies>>

\* Mutant: the first error alone is looked at, and it is that of the last device.
Verdict_Last ==
    /\ AfterAll("check")
    /\ IF Len(devices) \in unavailable THEN pc' = "refused" /\ i' = i ELSE pc' = "enter" /\ i' = 1
    /\ UNCHANGED <<config, world, changed, unavailable, name, node, counters, xml, proxies>>

Verdict ==
    /\ AfterAll("check")
    /\ IF unavailable # {} THEN pc' = "refused" /\ i' = i ELSE pc' = "enter" /\ i' = 1
    /\ UNCHANGED <<config, world, changed, unavailable, name, node, counters, xml, proxies>>

-----------------------------------------------------------------------------
(* The contexts of the devices                                             *)

Enter ==
    /\ AtDevice("enter")
    /\ world' = IF device.kind = "nic" /\ LinkOf(device) \in world.links
                THEN [world EXCEPT !.up = @ \cup {LinkOf(device)}] ELSE world
    /\ proxies' = IF device.kind = "display" /\ device.spice
                  THEN [proxies EXCEPT ![i] = "runs"] ELSE proxies
    /\ i' = i + 1
    /\ UNCHANGED <<config, pc, changed, unavailable, name, node, counters, xml>>

\* websockify is not there to be run, or netlink fails a NIC for another reason than that
\* its link is not there: what was entered is left.
EnterRaises ==
    /\ AtDevice("enter")
    /\ device.kind = "nic" \/ (device.kind = "display" /\ device.spice)
    /\ pc' = "leave" /\ i' = i - 1
    /\ UNCHANGED <<config, world, changed, unavailable, name, node, counters, xml, proxies>>

Entered ==
    /\ AfterAll("enter")
    /\ pc' = "xml" /\ i' = 1 /\ counters' = Counters
    /\ UNCHANGED <<config, world, changed, unavailable, name, node, xml, proxies>>

-----------------------------------------------------------------------------
(* The document                                                            *)

Disk(counter) ==
    [elements |-> <<[tag |-> "disk", prefix |-> IF counter = "virtual" THEN "vd" ELSE "sd",
                     dev |-> disk_from_number[counters[counter]], boot |-> counters.boot]>>,
     counters |-> Took(Took(counters, counter), "boot")]

\* Mutant: a CD-ROM, which is named sd.., takes its number from the virtio disks.
CdRom_Virtual ==
    [elements |-> <<[tag |-> "disk", prefix |-> "sd",
                     dev |-> disk_from_number[counters.virtual], boot |-> counters.boot]>>,
     counters |-> Took(Took(counters, "virtual"), "boot")]

CdRom == Disk("scsi")

\* The device's own element, then its controller unless it is nec-xhci or has been written.
Usb ==
    LET type  == device.controller
        bus   == IF type = None THEN None ELSE usb_controller_no(counters, type)
        emits == type \notin {None, "nec-xhci"} \cup counters.emitted
        known == DOMAIN counters.usb
    IN  IF PortOf = None THEN [elements |-> <<>>, counters |-> counters]
        ELSE [elements |->
                <<[tag |-> "usb", port |-> PortOf, ids |-> get_usb_device_details(PortOf), bus |-> bus]>>
                \o IF emits THEN <<[tag |-> "controller", type |-> "usb", model |-> type, index |-> bus]>>
                   ELSE <<>>,
              counters |->
                IF type = None THEN counters
                ELSE [counters EXCEPT
                        !.usb = [t \in known \cup {type} |-> usb_controller_no(counters, t)],
                        !.controller = IF type \in known THEN @ ELSE @ + 1,
                        !.emitted = IF emits THEN @ \cup {type} ELSE @]]

Interface == <<[tag |-> "interface", source |-> LinkOf(device), bus |-> device.bus]>>

\* A display brings a USB controller without a number for its tablet.
Display ==
    <<[tag |-> "graphics", spice |-> device.spice],
      [tag |-> "controller", type |-> "usb", model |-> "nec-xhci", index |-> None],
      [tag |-> "input"], [tag |-> "video"]>>

RenderNode == <<[tag |-> "misc", char |-> node[i]]>>

Uncounted(elements) == [elements |-> elements, counters |-> counters]

\* What xml of the device at hand returns, and the counters after it.
Written ==
    CASE device.kind = "disk" -> Disk(IF device.virtio THEN "virtual" ELSE "scsi")
      [] device.kind = "cdrom" -> CdRom
      [] device.kind = "usb" -> Usb
      [] device.kind = "nic" -> Uncounted(Interface)
      [] device.kind = "display" -> Uncounted(Display)
      [] device.kind = "gpu" -> Uncounted(RenderNode)

Xml ==
    /\ AtDevice("xml") /\ Ready
    /\ xml' = Append(xml, Written.elements)
    /\ counters' = Written.counters
    /\ i' = i + 1 /\ name' = Unasked
    /\ UNCHANGED <<config, pc, world, changed, unavailable, node, proxies>>

OfKind(kind) == {d \in DOMAIN devices : devices[d].kind = kind}

\* One controller for each bus of a NIC that is not the root's.
pci_expansion_controllers ==
    LET needed == {devices[d].bus : d \in OfKind("nic")} \ {0}
        model  == IF config.q35 THEN "pcie-root-port" ELSE "pci-bridge"
    IN  {[tag |-> "controller", type |-> "pci", model |-> model, index |-> bus] : bus \in needed}

VmExtras ==
    (IF config.ensure_display /\ OfKind("display") = {} THEN {[tag |-> "video"]} ELSE {})
    \cup IF \E d \in OfKind("display") : devices[d].spice
         THEN {[tag |-> "channel", type |-> "spicevmc"]} ELSE {}

\* The nodes that the driver of the first of some GPUs needs.
DriverNodesOfFirst(gpus) ==
    IF gpus = {} THEN {}
    ELSE LET first == CHOOSE d \in gpus : \A e \in gpus : d <= e
         IN  {[tag |-> "misc", char |-> n] : n \in DriverNodes(devices[first].vendor)}

\* Mutant: the first GPU of any vendor is asked; that of INTEL needs no nodes.
ContainerExtras_FirstGpu == DriverNodesOfFirst(OfKind("gpu"))

ContainerExtras == DriverNodesOfFirst({d \in OfKind("gpu") : devices[d].vendor \in {"AMD", "NVIDIA"}})

\* What is in the document besides the elements of each device; no two of these are equal.
Extras == IF config.vm THEN pci_expansion_controllers \cup VmExtras ELSE ContainerExtras

document == Extras \cup UNION {ToSet(xml[d]) : d \in DOMAIN xml}

\* What pins the vCPUs of a machine; a container has none.
machine == config.machine

\* The n-th vCPU, from 0, is pinned to the n-th CPU of the set.
Pinned == machine.cpuset # <<>> /\ machine.pin_vcpus
Pins == IF Pinned THEN parse_numeric_set(machine.cpuset) ELSE <<>>

\* An element with an attribute that is None cannot be written out, and a set of CPUs is read
\* only now.
Unwritable(element) ==
    \/ element.tag = "usb" /\ element.ids = None
    \/ element.tag = "interface" /\ element.source = None
PinsRaise == config.vm /\ Pinned /\ \E n \in DOMAIN machine.cpuset : PartRaises(machine.cpuset[n])

Serialise ==
    /\ AfterAll("xml")
    /\ IF PinsRaise \/ \E element \in document : Unwritable(element)
       THEN pc' = "leave" /\ i' = Len(devices)
       ELSE pc' = "create" /\ i' = i
    /\ UNCHANGED <<config, world, changed, unavailable, name, node, counters, xml, proxies>>

\* libvirt takes the document and starts the domain, or refuses one of the two.
Create ==
    /\ pc = "create"
    /\ \/ pc' = "up" /\ i' = i
       \/ pc' = "leave" /\ i' = Len(devices)
    /\ UNCHANGED <<config, world, changed, unavailable, name, node, counters, xml, proxies>>

-----------------------------------------------------------------------------
(* The way back                                                            *)

Stops ==
    /\ pc = "up"
    /\ pc' = "leave" /\ i' = Len(devices)
    /\ UNCHANGED <<config, world, changed, unavailable, name, node, counters, xml, proxies>>

Leave ==
    /\ AtDevice("leave")
    /\ proxies[i] \in {"none", "gone"}
    /\ i' = i - 1
    /\ UNCHANGED <<config, pc, world, changed, unavailable, name, node, counters, xml, proxies>>

Terminate ==
    /\ AtDevice("leave") /\ proxies[i] = "runs"
    /\ proxies' = [proxies EXCEPT ![i] = "asked"]
    /\ UNCHANGED <<config, pc, i, world, changed, unavailable, name, node, counters, xml>>

\* Mutant: a websockify that outlasts the five seconds is left alone.
Kill_Not ==
    /\ AtDevice("leave") /\ proxies[i] = "asked"
    /\ i' = i - 1
    /\ UNCHANGED <<config, pc, world, changed, unavailable, name, node, counters, xml, proxies>>

\* Five seconds have passed.
Kill ==
    /\ AtDevice("leave") /\ proxies[i] = "asked"
    /\ proxies' = [proxies EXCEPT ![i] = "killed"]
    /\ UNCHANGED <<config, pc, i, world, changed, unavailable, name, node, counters, xml>>

Left ==
    /\ pc = "leave" /\ i = 0
    /\ pc' = "down"
    /\ UNCHANGED <<config, i, world, changed, unavailable, name, node, counters, xml, proxies>>

-----------------------------------------------------------------------------
(* What is not this package's: websockify and the host                     *)

\* websockify ends by itself, or when asked to, or not before it is killed.
ProxyEnds(n) ==
    /\ n \in DOMAIN devices
    /\ proxies[n] \in {"runs", "asked", "killed"}
    /\ proxies' = [proxies EXCEPT ![n] = "gone"]
    /\ UNCHANGED <<config, pc, i, world, changed, unavailable, name, node, counters, xml>>

Parts == {"links", "route", "usb", "nodes"}

\* A part of the host changes, each at most once; what hung on a link goes with it.
Change(part) ==
    /\ config \in Unsteady /\ pc \in {"check", "enter", "xml", "create"}
    /\ part \notin changed
    /\ \E w \in Worlds :
          /\ w[part] # world[part]
          /\ LET next == [world EXCEPT ![part] = w[part]]
             IN  world' = [next EXCEPT !.up = @ \cap next.links,
                                       !.route = IF @ \in next.links THEN @ ELSE None]
    /\ changed' = changed \cup {part}
    /\ UNCHANGED <<config, pc, i, unavailable, name, node, counters, xml, proxies>>

-----------------------------------------------------------------------------

Code ==
    \/ Configure \/ find_usb_device_by_ids \/ Check \/ Verdict
    \/ Enter \/ EnterRaises \/ Entered \/ Xml \/ Serialise \/ Create
    \/ Leave \/ Terminate \/ Kill \/ Left

Next ==
    \/ Code
    \/ Stops
    \/ \E n \in 1 .. MostDevices : ProxyEnds(n)
    \/ \E part \in Parts : Change(part)

Spec == Init /\ [][Next]_vars

\* The caller's thread goes on, and the kernel ends what is killed; a domain need not stop.
FairSpec ==
    /\ Spec
    /\ WF_vars(Code)
    /\ \A n \in 1 .. MostDevices : WF_vars(ProxyEnds(n) /\ proxies[n] = "killed")

-----------------------------------------------------------------------------
(* Properties                                                              *)

TypeOK ==
    /\ config \in Config /\ Len(devices) <= MostDevices
    /\ pc \in {"configure", "rejected", "check", "refused", "enter", "xml", "create", "up", "leave", "down"}
    /\ i \in 0 .. Len(devices) + 1
    /\ world \in World /\ changed \subseteq Parts
    /\ unavailable \subseteq DOMAIN devices
    /\ name \in Ports \cup {None, Unasked}
    /\ node \in [DOMAIN devices -> {None} \cup STRING]
    /\ counters \in [boot : Nat, scsi : Nat, virtual : Nat, controller : Nat,
                     usb : [DOMAIN counters.usb -> Nat], emitted : SUBSET STRING]
    /\ xml = [d \in 1 .. Len(xml) |-> xml[d]] /\ Len(xml) \in 0 .. Len(devices)
    /\ proxies \in [DOMAIN devices -> {"none", "runs", "asked", "killed", "gone"}]

\* Where the elements of one kind are among those of the devices.
Places(tag) == UNION {{d} \X {n \in DOMAIN xml[d] : xml[d][n].tag = tag} : d \in DOMAIN xml}
At(place) == xml[place[1]][place[2]]

\* No map is rejected that the kernel would take, and of the maps that are not rejected it
\* takes each that does not break its own limits, which the code does not know: sorted
\* neighbours stand for all pairs (domain/container/configuration.py:47).
IdmapAsKernel ==
    config.idmap # None =>
        LET maps == {config.idmap.uid, config.idmap.gid}
        IN  /\ pc = "rejected" => \E items \in maps : ~KernelTakes(items)
            /\ pc \notin {"configure", "rejected"} =>
                  \A items \in maps : Fits(items) => KernelTakes(items)

\* No two disks of a document, whatever their kinds, have one target or one place in the boot
\* order (device/counters.py: three counters that virtio disks, sata disks and CD-ROMs share).
TargetsAreUnique ==
    pc \in {"create", "up"} =>
        \A p, q \in Places("disk") : p # q =>
            /\ <<At(p).prefix, At(p).dev>> # <<At(q).prefix, At(q).dev>>
            /\ At(p).boot # At(q).boot

\* The controllers of a document differ in their numbers, and each device that has an address
\* has on its bus the controller that its configuration asked for: a USB device one of its
\* type, a NIC of a machine one of that machine's kind.  A controller without a number is given
\* by libvirt the lowest that is left, and libvirt adds its own as number 0 where there is none:
\* that number is left to nec-xhci (device/usb.py:56-60, device/counters.py:12).
AddressesHaveControllers ==
    pc \in {"create", "up"} =>
        LET usbs == {p \in Places("controller") : At(p).type = "usb"}
            pcis == {e \in Extras : e.tag = "controller" /\ e.type = "pci"}
        IN  /\ \A p, q \in usbs : p # q /\ At(p).index # None => At(p).index # At(q).index
            /\ \A p \in usbs : IF At(p).index = None THEN At(p).model = "nec-xhci" ELSE At(p).index # 0
            /\ \A d \in OfKind("usb") : xml[d] # <<>> /\ devices[d].controller # None =>
                  \/ devices[d].controller = "nec-xhci" /\ xml[d][1].bus = 0
                  \/ \E p \in usbs : At(p).index = xml[d][1].bus /\ At(p).model = devices[d].controller
            /\ \A d \in OfKind("nic") : config.vm /\ devices[d].bus > 0 =>
                  \E e \in pcis : e.index = devices[d].bus /\ (e.model = "pcie-root-port") = config.q35
            /\ \A e, f \in pcis : e # f => e.index # f.index

\* A domain that is up has every device that it was configured with, on a host that did not
\* change meanwhile.  Where it did, a USB device given by its name is the one at that port, a
\* NIC that names its link is on it, and a GPU's node is the one that was checked; but one
\* given by its ids may be missing or another one, and a NIC on the default route may be on
\* another link than the one that was set up (device/usb.py:97-99, device/nic.py:118-125).
DevicesAsAsked ==
    pc = "up" => \A d \in DOMAIN devices :
        LET asked   == devices[d]
            written == xml[d]
        IN  CASE asked.kind = "usb" /\ asked.port # None -> written[1].port = asked.port
              [] asked.kind = "usb" /\ asked.port = None ->
                    "usb" \in changed \/ (written # <<>> /\ written[1].ids = asked.ids)
              [] asked.kind = "nic" ->
                    /\ asked.source # None => written[1].source = asked.source
                    /\ changed \cap {"links", "route"} = {} => written[1].source \in world.up
              [] asked.kind = "gpu" -> written[1].char = asked.slot
              [] OTHER -> written # <<>>

\* A start that failed or a domain that stopped leaves no websockify behind, though one may
\* ignore the request to end (device/display.py:96-105).
ProxiesEnd ==
    pc = "leave" ~> (pc = "down" /\ \A n \in DOMAIN proxies : proxies[n] \in {"none", "gone"})

\* A container that is up has the nodes that the driver of each of its GPUs needs, if its
\* GPUs other than Intel's are of one vendor (domain/container/xml.py:66-76: one of them is
\* asked for its nodes, on behalf of all).
OneDriver ==
    \A m, n \in OfKind("gpu") :
        "INTEL" \notin {devices[m].vendor, devices[n].vendor} => devices[m].vendor = devices[n].vendor

DriverNodesPresent ==
    pc = "up" /\ ~config.vm /\ OneDriver =>
        \A d \in OfKind("gpu") : \A n \in DriverNodes(devices[d].vendor) :
            [tag |-> "misc", char |-> n] \in document

\* The vCPUs of a machine that gets as far as libvirt are pinned to exactly the CPUs of its
\* set, each to one of its own, however the ranges overlap and repeat; a set that cannot be
\* read, which nobody looks at before the document is written, starts nothing
\* (domain/base/configuration.py:33-54, domain/vm/xml.py:121-131).
PinsAreTheSet ==
    config.vm /\ Pinned /\ pc \in {"create", "up"} =>
        /\ \A part \in ToSet(machine.cpuset) : Len(part) = 1 \/ (Len(part) = 2 /\ part[1] < part[2])
        /\ ToSet(Pins) = UNION {part[1] .. part[Len(part)] : part \in ToSet(machine.cpuset)}
        /\ Cardinality(ToSet(Pins)) = Len(Pins)

=============================================================================
