----------------------------- MODULE MCDocument -----------------------------
(***************************************************************************)
(* Machines with up to three devices of every kind and up to four disks,   *)
(* with two letters to name disks with; containers with GPUs and with up   *)
(* to three ranges of users, or with maps beyond the limits of the kernel; *)
(* short lists of the devices that ask the host, on a host that changes;   *)
(* and machines with sets of up to three ranges of CPUs.                   *)
(***************************************************************************)
EXTENDS Document

CONSTANTS eth, br, p1, p2, stick, radio

MCLinks == {eth, br}
MCPorts == {p1, p2}
MCIds == {stick, radio}

Disks == {[kind |-> "disk", virtio |-> v] : v \in BOOLEAN} \cup {[kind |-> "cdrom"]}
Displays == {[kind |-> "display", spice |-> s] : s \in BOOLEAN}
Usbs == {[kind |-> "usb", port |-> p1, ids |-> None, controller |-> c] : c \in {None, "nec-xhci", "piix3-uhci"}}
   \cup {[kind |-> "usb", port |-> None, ids |-> radio, controller |-> c] : c \in {"piix3-uhci", "ich9-ehci1"}}
Nics == {[kind |-> "nic", source |-> br, bus |-> 1], [kind |-> "nic", source |-> None, bus |-> 2],
         [kind |-> "nic", source |-> None, bus |-> 0]}
Gpus == {[kind |-> "gpu", vendor |-> "INTEL", slot |-> "renderD129"],
         [kind |-> "gpu", vendor |-> "AMD", slot |-> "renderD128"],
         [kind |-> "gpu", vendor |-> "NVIDIA", slot |-> "nvidia0"]}

UpTo(n, S) == UNION {[1 .. k -> S] : k \in 0 .. n}

Pc == [cpuset |-> <<>>, pin_vcpus |-> FALSE]

Vm(list, q35) ==
    [vm |-> TRUE, q35 |-> q35, ensure_display |-> q35, devices |-> list, idmap |-> None, machine |-> Pc]
Container(list, idmap) ==
    [vm |-> FALSE, q35 |-> FALSE, ensure_display |-> FALSE, devices |-> list, idmap |-> idmap, machine |-> None]

\* Every set of up to three parts of four CPUs, a few of them ill-formed.
CpuParts == {<<cpu>> : cpu \in 0 .. 3} \cup {<<0, 1>>, <<0, 3>>, <<1, 2>>, <<2, 3>>, <<2, 2>>, <<3, 1>>, <<0, 1, 2>>}
Cpusets == {[cpuset |-> parts, pin_vcpus |-> TRUE] : parts \in UpTo(3, CpuParts)}
      \cup {[cpuset |-> <<<<3, 1>>>>, pin_vcpus |-> FALSE]}
OfMachines == {[Vm(<<>>, FALSE) EXCEPT !.machine = m] : m \in Cpusets}

Few == {[kind |-> "cdrom"], [kind |-> "disk", virtio |-> TRUE], [kind |-> "display", spice |-> TRUE],
        [kind |-> "nic", source |-> br, bus |-> 1]}
Machines == {Vm(list, TRUE) : list \in UpTo(3, Few \cup Usbs) \cup UpTo(2, Disks \cup Displays \cup Usbs \cup Nics)}
       \cup {Vm(list, FALSE) : list \in UpTo(2, Nics) \cup UpTo(4, Disks)}

Items(from, counts) == [start : from, target : from, count : counts]
Simple == <<[start |-> 0, target |-> 1, count |-> 2]>>
Idmaps == {[uid |-> uid, gid |-> Simple] : uid \in UpTo(2, Items(-1 .. 2, 0 .. 2)) \cup UpTo(3, Items(0 .. 2, 1 .. 2))}
     \cup {[uid |-> Simple, gid |-> gid] : gid \in UpTo(1, Items(-1 .. 1, 0 .. 1))}
     \cup {[uid |-> Simple, gid |-> Beyond] : Beyond \in {[n \in 1 .. 4 |-> [start |-> n - 1, target |-> 4 - n, count |-> 1]],
                                                     <<[start |-> 3, target |-> 0, count |-> 2]>>}}
Mapped == {Container(<<>>, idmap) : idmap \in Idmaps}

MCUnsteady ==
    {Vm(list, TRUE) : list \in UpTo(2, {d \in Usbs \cup Nics : d.kind = "usb" => d.controller = "piix3-uhci"})}
    \cup {Container(list, None) : list \in UpTo(2, Nics \cup Gpus)}

AllNodes == {"renderD128", "renderD129", "nvidia0", "kfd", "nvidia-uvm", "nvidiactl"}
Host == [links |-> MCLinks, up |-> {}, route |-> eth, usb |-> (p1 :> stick @@ p2 :> radio), nodes |-> AllNodes]
Unplugged == [Host EXCEPT !.usb = (p1 :> stick @@ p2 :> None)]
\* The radio is gone, moved, or has no ids; a link is gone; the route moves or goes; nodes go.
MCWorlds == {Host, Unplugged,
    [Host EXCEPT !.usb = (p1 :> radio @@ p2 :> stick)],
    [Host EXCEPT !.usb = (p1 :> Nameless @@ p2 :> radio)],
    [Host EXCEPT !.links = {br}, !.route = br],
    [Host EXCEPT !.links = {eth}],
    [Host EXCEPT !.route = None],
    [Host EXCEPT !.nodes = {"nvidia0", "nvidia-uvm", "nvidiactl"}]}

MCStarts == [config : Machines \cup Mapped \cup OfMachines \cup MCUnsteady, world : {Host}]
       \cup [config : {c \in MCUnsteady : c.vm}, world : {Unplugged}]

=============================================================================
