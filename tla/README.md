# Formal verification of truenas_pylibvirt

Specifications, model-checking configurations and proofs for `truenas_pylibvirt`,
the library through which the TrueNAS middleware starts, stops and deletes virtual
machines (QEMU) and containers (libvirt-LXC), stages what containers need on the host,
and enters running containers.

## The system

| Part | Source (`src/truenas_pylibvirt/`) | State | Operations |
|---|---|---|---|
| Domain manager | `domain/manager.py` | `started_domains`, its lock | start, shutdown, destroy, suspend, resume, delete, the event callback |
| Start-up reconciliation | `domain/managers.py` | none, a sweep | `reconcile_runtime_state` |
| Runtime state | `runtime.py` | directories and mounts under `/run/truenas_containers` | `umount_and_rmdir`, `cleanup_for_uuid`, `reconcile` |
| Devices and their bracket | `device/manager.py`, `device/base.py` | the devices started, their exit stacks | `DeviceManager.start`, `StartedDevice.cleanup` |
| Container staging | `device/filesystem.py`, `domain/container/domain.py` | a redirected source, file descriptors, mounts | the `run` context managers |
| Exclusive devices | `device/base.py`, `device/pci.py`, `device/usb.py`, `domain/start_validator.py` | host driver bindings | validation at start, detach and reattach |
| Connection | `libvirtd/connection.py`, `libvirtd/connection_manager.py` | one libvirt connection per URI, callbacks | lazy open and reopen, event dispatch |
| Container entry | `nsexec/` | file descriptors, a child, a terminal | `enter_and_exec`, `run_in_container`, the command line |
| Devices of a document | `device/nic.py`, `display.py`, `storage.py`, `cdrom.py`, `gpu.py`, `gpu_utils.py`, `usb.py` | the link brought up, the websockify process, a cached path | identity, availability, `run`, `xml` |
| Configuration and XML | `domain/*/xml.py`, `domain/*/configuration.py`, `device/counters.py`, `device/utils.py` | the counters of one document | validation, generation |
| Host inventory | `utils/` | caches of one call | PCI, IOMMU groups, GPUs, USB, OVMF, CPU |

How they interact. A caller's `start` takes `started_domains_lock`, looks the domain up
through the connection, enters the devices and the domain's own context
(`DeviceManager.start`, `ContainerDomain.run`), writes the devices into one XML document, has
libvirt define and create it and records the whole in `started_domains`. Before that
`StartValidator` has asked each device whether it is there and, for exclusive ones, whether
another machine uses it; what may be given to a guest at all is judged by the host inventory,
from sysfs and udev. Each of these asks the host anew. libvirt answers a stop with an event on
every connection that registered a callback; the event thread takes the lock, unwinds what was recorded and
sweeps the uuid's paths. A restarted process has lost `started_domains` and finds domains
that run and mounts that stay: `reconcile_runtime_state` sweeps what is not active. Whoever
abandons a context leaves it to CPython's finalizer, which runs at any time and takes no
lock. Container entry shares nothing with them but libvirt and the kernel.

What is hard, and what makes each part correct:

| Part | Hard behaviour | Correct if |
|---|---|---|
| Domain manager, reconciliation | callers, the event thread, the finalizer and the sweep interleave; guests stop at any time; crashes; events handled after a restart of the domain | what runs keeps what was staged for it; what is staged and not used is owed to somebody; every call returns |
| Device bracket | a device, or the domain, fails to start; an exit raises; the object is abandoned | everything is undone once, in reverse, and all of it |
| Container staging, runtime state | a system call fails in the middle; three threads clean the same paths; mounts pile up | a container stands on its own run's mounts; nothing, no descriptor either, is left |
| Exclusive devices | a check asks libvirt about one machine after another; the event of a stop is handled long after it | no two machines use a device; it goes back to the host when nobody does |
| Connection | several threads open and reopen it without a lock; it dies | what is used listens for events; a stop is handled, and once |
| Container entry | the container stops or restarts meanwhile; entering the user namespace resets capabilities; the program ends while the user types | the program is restricted, stays with its container, and its status is the command's |
| Devices, configuration, XML | the host changes between check, context and document; devices of several kinds share counters and controllers; websockify ignores the request to end; boundaries of ranges | a domain that is up has what was asked for; names, boot orders and addresses are unique and have their controllers; maps of users and sets of CPUs are what was meant; no websockify stays |
| Host inventory | devices come and go during a listing; bus ranges nest, overlap or lead in a circle | the walk ends, and what the host needs is not offered |

## The modules

| Module | Models | Kind |
|---|---|---|
| `DomainManager` | `domain/manager.py`, `domain/managers.py` and their environment | detailed specification |
| `Staging` | what the manager promises about a domain's staging | abstract; `DomainManager` implements it |
| `StartedDomain` | `DeviceManager.start`, `StartedDevice`, `StartedDomain` | detailed specification |
| `Bracket` | what nested context managers promise | abstract; `StartedDomain` implements it |
| `ContainerStaging` | `device/filesystem.py`, `domain/container/domain.py`, `runtime.py`, by system call | detailed specification |
| `ExclusiveDevices` | the use check, PCI detach and reattach, the manager around them | detailed specification |
| `Connection` | `libvirtd/connection.py`, `libvirtd/connection_manager.py` | detailed specification |
| `Entry` | `_runner.run_in_container`, `_native.enter_and_exec`, `derive_caps`, the container | component |
| `Session` | `nsexec/cli.py` around `Entry`: checks, fork, relay | composes `Entry` |
| `HostInventory` | `utils/iommu.py`, `utils/pci.py`, `utils/gpu.py` while devices come and go | detailed specification |
| `Configuration` | ranges of users, sets of CPUs, names of disks, counters | operators |
| `Document` | one start seen from its devices: check, contexts, document, the way back | extends `Configuration` |
| `DomainManagerProofs`, `StartedDomainProofs`, `ContainerStagingProofs`, `ExclusiveDevicesProofs`, `ConnectionProofs`, `SessionProofs`, `HostInventoryProofs`, `DocumentProofs` | | proofs |
| `MC...` | model values, symmetry, inputs | instances for TLC |

**DomainManager.** `started_domains` is the set `started`, `started_domains_lock` the owner
`lock`. A caller is at a place `pc`; a place is a point where the code has just talked to
libvirt, to the kernel or to the lock, so that another thread can come in between. `StartLock`,
`StartLooksUp`, `StageOk`, `Define`, `CreateOk`, `StartRecords` are the lines of `start` in
order, `StartRefuses`, `StartInvalid`, `StageDeviceFails`, `StageRootFails`, `CreateFails`,
`StartUnwinds` its ways out. `StopStep` is shutdown, destroy, suspend, resume and delete.
`EventStep` is the callback: it looks up before it takes the lock (`EvIgnores`, `EvTakes`),
as the code does. `SweepStep` is the reconciliation, `Finalize` the finalizer, `Restart` a
crash. Abstraction: what a start stages for a uuid is one mount point with a stack of layers
(`ContainerStaging` has the paths); libvirt answers every request.

**StartedDomain.** One action per `__enter__`, per undo in the rollback, in the `finally`
block, in `cleanup` and in the finalizers. The `finally` block runs after the rollback, over
the same devices, as in the code; exits may raise.

**ContainerStaging.** One action per system call: `open_tree`, `mount_setattr`,
`move_mount`, `umount2`, `rmdir`, `scandir`, each of which may fail. A mount is named by the
run that made it, a path holds a stack of them. The manager's thread, the sweep and the
finalizer each have a job, a sequence of paths still to clean. The sweep lists the container, which
registers for its events, and asks later whether it runs: in between its stop is heard, and
callback and sweep work on the same paths. `MapsRaise` is an id map that cannot be made, between
`makedirs` of the root and the `try` that cleans it; `faults` remembers it, and umounts that failed.
A behaviour is of one of the `Modes`: `careful`, a service that starts at rest (`Rested`), or one that starts at any time;
what is claimed of the first only says so.

**ExclusiveDevices.** Machines with one device each; the check (`_is_in_use_by_other_vms`)
asks about one machine per step. libvirt's own refusals are not counted on. libvirt may raise
at any question, which the code takes for "not in use": `erred` remembers it, and properties
that need the answer are stated without it. `hasty` remembers that somebody started a machine
before its last stop was handled. No two USB devices of the host share vendor and product.

**Connection.** The property `Connection.connection`, one action per read or write of the
attribute and per call of libvirt, by callers and by the event loop itself. A connection
with a callback stays in libvirt and goes on delivering, also after it was replaced. `calm`
remembers that nothing died since all threads were idle, `raced` that two threads opened at once.

**Entry, Session.** One action per system call or group of calls that fail alike, in
`enter_and_exec`'s order: the other namespaces, the user namespace, the drops, the
capability set, fork; in the child the IDs, the terminal, `no_new_privs`, exec. What the
kernel does about capabilities is stated in the module's head. `dom.ID()` is what the domain
object got at its look-up. The relay is `select`, read, write with a terminal of bounded room;
`heirs` are processes that the program leaves behind with the terminal open, for which the
relay waits as its docstring says. Terminal settings, window size, environment and argument
parsing are left out.

**HostInventory.** A behaviour is one call of `get_all_pci_devices_details` or of `get_gpus`.
`BuildCache`, `Pick`, `Judge`, `Look` and `WalkEnds` are the steps of `get_iommu_groups_info` and
of the recursion over bridges, `Report` and `Details` those of the listing, `NextGpu` and
`LookUp` the loops of `get_gpus`. sysfs is read at each of them, and between any two a device is
plugged in or out. `ListBreaks` is the listing that ends with a directory that vanishes under the
glob, and `cut` remembers it. The recursion is the set `todo` of what its open frames have still to look
at: TRUE leaves all frames at once, FALSE is returned when the set is empty. `steady` and `ever`,
the devices that were there all the time or at some time, are what a verdict about a changing
host can be held to. `Accepted` is what `PCIDevice.validate_impl` concludes from the details.

**Configuration, Document.** `Configuration` has what is computed from a configuration alone.
A map of users is a sequence of records; what the kernel takes as one (`KernelTakes`) has the
kernel's limits (`Fits`), which the code does not look at. A set of CPUs a sequence of parts of one to three
numbers, the name of a disk a sequence of letters. A sorted list is a permutation in order
(`InOrder`), a dict the sequence of its keys (`WithKey`), a loop a recursive function. `Document` follows one start: `Check` and
`Verdict` are `StartValidator` over all devices, `Enter` and `EnterRaises` the contexts in order, of
which those of displays and NICs may raise, `Xml` one device written with the counters (`Disk`,
`CdRom`, `Usb`, `Interface`, `Display`, `RenderNode`), `Serialise` the whole document, which fails on
an element without a value, a USB device without ids or an interface without a link (`Unwritable`),
and on an ill-formed set of CPUs, `Create` libvirt's answer, `Leave`, `Terminate` and
`Kill` the way back. `find_usb_device_by_ids` is a step of its own, for the host may change
between finding a device and looking at it. `world` is the host (links, default route, USB, device nodes) and
`Change` what happens to it; what can hang on it is the constants `Links`, `Ports`, `Ids` and
`Nameless`, a device of which udev tells no ids. `Starts` is what may be started, and
`StartsAreTyped` says no more of it than that devices and configurations have the fields that
`validate_impl` and the data classes give them. `xml` holds the elements of each device apart;
`document` is all of them with the `Extras`. An element of the document is a record of the attributes that the properties
tell apart. `machine` is what pins the vCPUs of a machine, and `Pins` the pins made of it.

## The runs

| Run | Shows | Bounds and why they are enough |
|---|---|---|
| `careful` | with callers that start a domain at rest: `RunningKeepsStaging`, `LeftoversAreOwed`, the contract of `Staging` (`ImplementsStaging`, with its liveness), `CallsReturn` | two domains and two callers, three calls, one crash: two starts of one domain and a third call that meets them; the lock is contended, an event waits behind a start |
| `any_callers` | `StaleEntryAwaitsItsStop`, with callers that do anything | as above, with delete |
| `vanished` | a documented claim that fails, see Findings | one domain, two callers, no crash |
| `bracket` | `UndoneOnce`, `AllOrNothing`, the contract of `Bracket`, `EndsEmpty` | eight devices; any of them, or the domain, fails |
| `staging` | with starts at rest: `RunsOnItsOwn`, `SourcesFollowStaging`, `CleanedUp`, which allows for the root's directory after a failed id map and for failed umounts; with any start: `NoDescriptorLeft` | two devices and the root; three starts at rest or one at any time, two crashes: a stuck mount of one run under the next, a crash in the clean-up after a crash |
| `others_mount` | a documented claim that fails | one device, two starts, one crash |
| `devices` | `ConflictsAreFound`; with starts at rest `NeverTakenAway`, `GivenBack` | three machines on one PCI device: the one that asks, one that uses it, one that stops meanwhile; a crash |
| `usb` | a documented claim that fails | two machines, a device named in two ways |
| `connection` | `ListensBeforeUse`, `OnceUnlessRaced`, `ReturnsWorking`, `StopsAreHandled` | two callers and the event loop, four connections, a death, a stop: two open at once and again after the death |
| `session` | `Restricted`, `SameInstance`, `MirrorsStatus`, `EndsWithProgram` | every policy and override of two capabilities, ID map or none, a restart, one chunk in each direction, one typed: full buffers, end of input and the program's end meet |
| `host_inventory` | `VerdictHolds`, `OfferedIsSafe`, of GPUs as far as the listing got, `CallEnds` | two bridges, a sensitive device and a GPU, any of them missing at first, one change during the call: the bridges lead to each other, one to itself, to the sensitive device or nowhere; the GPU is alone, with a bridge, with the sensitive device or in no group |
| `document` | `TargetsAreUnique`, `AddressesHaveControllers`, `DevicesAsAsked`, `DriverNodesPresent`, `IdmapAsKernel`, `PinsAreTheSet`, `ProxiesEnd` | lists of up to three devices, of four disks with an alphabet of two letters, which gives names of two letters; three types of USB controllers; maps of up to three ranges that touch, overlap or are empty, and maps beyond the kernel's limits, which are set to three ranges and to the IDs up to 3 (`MostExtents`, `MaxId`); sets of CPUs of up to three parts, ill-formed ones among them; each part of the host changes once during a start of two devices (`MostDevices` is 4) |

Every property of a passing run has a mutant of the code, listed in `PROJECT.json`, that
violates it: a definition `X_Something` beside `X`.

"Careful" callers are a precondition, not a claim. `SafeToStart` says that a domain is
started once the event of its last stop has been handled and nothing holds its staging. The
code does not enforce it; without it a late STOPPED event unwinds the new run
(`_domain_event_callback` knows only the uuid), and `RunningKeepsStaging` is false. Likewise
`careful` uses no delete: what delete leaves is run `vanished`.

Deadlock checking is off where the model stops because its bounds are used up or because the
start or the call that it follows is over; `devices` and `usb` have no such state and check it.

### Fairness

Weak fairness only, of threads that have a step to do: callers inside a call, the event loop,
the sweep, the finalizer (CPython runs it some day), the processes of container entry, the
thread of a listing, the kernel, which ends a websockify that was killed. Nothing
is assumed of websockify itself, of guests, callers between calls, users, programs or crashes. `threading.Lock` is
not fair: with unbounded calls an event could wait for ever behind starts, so `CallsReturn`
rests on the bound on calls; strong fairness of the lock would assume what the code has not.

## Proofs

Safety, for all values of the constants; the assumptions on constants are the named ones in
the modules, and each is evaluated by TLC in the runs.

- **DomainManagerProofs.** `Typing`. `StaleEntries`: `StaleEntryAwaitsItsStop` is not inductive:
  one must know who holds the lock (`LockIsHeld`), that an entry never coexists with a start or
  an unwinding of its uuid (`EntryIsAlone`), that whoever has or is about to have an entry
  listens (`EntriesHear`) and that a stop between create and record is queued
  (`CreatedAwaitsItsStop`). Their conjunction `EntryInv` is inductive with `TypeOK`.
  `StagingIsSafe` and `ManagerImplementsStaging` assume careful callers and no delete; the
  strengthening `CarefulInv` says that a domain that runs has one layer and nothing due that
  would take it (`LiveIsSettled`), that starts are alone and at rest (`StartsAlone`,
  `StartsAtRest`) and that the sweep's idea of what is active covers what is
  (`SweepKnows`).
- **StartedDomainProofs.** `Typing`, `OnceEach`, `Atomic` and `Bracketed`, for any number of
  devices, from `BracketInv`: each resource is held or was undone once (`Accounted`), and what
  is held is a prefix of what was started (`Prefix`), with the domain on top (`DomainHeld`).
- **ContainerStagingProofs.** `DescriptorsAreClosed` and `StagingIsTyped` for any starts. The
  typing needs that contexts can be left in the reverse of their order (`OrderExists`, by
  induction over the paths, without which `LeavingOrder` might be any value). `StandsOnItsOwn` and
  `SourcesAreGivenBack` for starts at rest rest on `RestKeepsApart`: `AtRest` says that
  while a container runs nobody has anything to clean (`RunsAlone`), that a start has the paths
  to itself and what it has staged so far is on top of them (`StagesAlone`), and that an entry is
  that of a container that runs or whose stop is still to be handled (`EntriesAreFresh`). `Devices` adds
  where each source points and what its context would put
  back. The number of devices, starts and crashes is any.
- **ExclusiveDevicesProofs.** `Typing`. `UsersAreFound`, without devices configured by USB name:
  machines not yet asked are in `todo` or share nothing with the one in hand, since nobody
  starts while the lock is held (`CheckedInv`). `RunningKeepsDevice` from `RestedInv`: with
  starts at rest nothing is left to the finalizer, a machine whose stop is queued does not run,
  nor does the one being started or cleaned up after, and whoever was asked about before a device
  is given back and still runs does not have it.
  `UnusedGoesBack` from `OwnedInv`: what is bound is used or somebody has to give it back.
- **ConnectionProofs.** For any number of threads, connections, deaths and stops. `Typing`.
  `Listens`: whoever is about to publish a connection has registered the callback on it
  (`ListenInv`). `WorksWhenReturned` from `CalmInv`: while nothing dies, what a thread has checked
  or published works. `HandledOnce` needs two facts while no two threads raced: at most one
  connection is alive or being opened (`OneOpens`), and each stop is queued or handled, and once
  only (`Waiting`, `Counted`).
- **SessionProofs.** `Typing`. `ProgramIsRestricted`: from the step `caps` on the bounding set
  lacks what is to be dropped, because no user namespace is entered any more (`RestrictInv`).
  `ProgramStays`, if IDs are not used again: once it has joined an instance's cgroup the process
  ends with that instance, so what it opens afterwards is the same one's (`TogetherInv`).
  `StatusIsMirrored`: the status goes through two waits and two exits, and `MirrorInv` says at
  each place what it is then (`CodeOfExit`: the second conversion changes nothing). All use
  `Progress`, how far the entry is.
- **HostInventoryProofs.** For any topology, circles included, and any changes. `IInv` says of a
  walk that what it has seen is closed under "behind" but for what it has still to look at, and
  that whatever it will find can be reached from where it began (`Walks`); so TRUE means reachable
  and FALSE means that no sensitive device is (`ClosedIsSafe`). Reachability is stated as
  membership in every closed set, which needs no recursion. `VerdictsAreReachability` and
  `OffersAreSafe` follow, the latter because what a listing that broke off has missed has an error in
  the PCI listing; of GPUs it is stated of what was listed then.
- **DocumentProofs.** First the functions of `Configuration`, for lists, numbers and alphabets of
  any size: `CpusOfASet` (`parse_numeric_set`), `DiskNamesDiffer` (`disk_from_number` is
  injective) and `ValidIsTaken` (neighbours in order stand for all pairs, and so
  `validate_idmap_items` with `Fits` is `KernelTakes`; that a list can be sorted at all, `OrderExists`, is part of
  it). Then `Inductive`: the invariant `IInv` of a start, for any list of devices on any host that
  changes in any order. Its parts: how far the start is and which devices have written
  (`Progress`); what the look-up by ids found (`Found`); what the check saw of each device holds
  as long as that part of the host has not changed (`StillThere`), hence what it writes is
  what was asked for (`AsAsked`); which elements each kind of device writes (`Shaped`); every number in use is
  below its counter, and no two disks have one (`Numbered`); each type of USB controller has its
  own number, 0 is that of nec-xhci, and one element of a device before has it
  (`Controllers`). `DevicesAsAsked` speaks of "up" only, `TargetsAreUnique` and
  `AddressesHaveControllers` of a document that is complete: none is inductive, for none says
  what the counters may give next. `Typing`, `IdmapChecked`, `TargetsDiffer`, `AddressesHold`,
  `DevicesHold`, `DriverNodesHold` and `PinsHold` follow, the last from `CpusOfASet`. `IInv` was checked by TLC on the
  instance of `document` before.

Induction. The library's induction theorems take an operator, which no prover here can
instantiate. `DocumentProofs` and `ContainerStagingProofs` use `WFMin`, whose parameter is a set:
the numbers for which a fact fails have a least element, unless there are none (`Least`,
`Strongly`, `Upwards`). That a recursive function satisfies its equation, `disk_from_number` and
the loops of `parse_numeric_set`, is proved the same way, by giving a function that does.

Only model-checked: everything temporal under fairness (`CallsReturn`, `ImplementsStaging`'s
liveness, `EndsEmpty`, `CleanedUp`, `StopsAreHandled`, `EndsWithProgram`, `CallEnds`,
`ProxiesEnd`), which TLAPS cannot prove. Every other property of a passing run is a theorem;
of `ImplementsStaging` the safety part is (`ManagerImplementsStaging`).

## Findings

Each is a run in which TLC finds a statement of the repository violated.

1. `vanished`: the callback, "authoritative cleanup" in `runtime.py:12-14`, returns at
   `domain/manager.py:159-160` when the domain is gone by the time it looks, and leaves the
   entry and the mounts.
2. `others_mount`: "only undo this device's own mount + dir" (`device/filesystem.py:126`), but a
   device that was not staged takes off what an earlier run mounted at its path.
3. `usb`: "USB devices can only be used by one VM at a time" (`device/usb.py:15`), but of devices
   configured by bus and number no conflict is found.

Met while reading, without a run of their own:

- `nsexec/cli.py:257`: when the slave is closed between `select` and this write the `OSError` is
  not caught, so the command ends with 1 and not with the program's status (`cli.py:408-409`).
  `MirrorsStatus` therefore excludes a relay that raised.
- `derive_caps` and `SetsCaps`: as soon as one capability is turned on, the permitted set is
  exactly those turned on, also under ALLOW, which `nsexec/__init__.py:112` says to "drop nothing
  except what the user explicitly turned off". In a container with an ID map where
  SETUID and SETGID are not among them, `setresgid` or `setresuid` then fails and the program ends with 126
  (`Anchors`).
- `_native.c:233-236` and the package docstring put the drops "between the user-ns switch and the
  rest of the setns calls"; the code enters the user namespace last and drops then.
- `cli.py:410`: a container that stops after the check makes the command end with 1, not 2.
- `nsexec/_runner.py:88`: libvirt's descriptors remove "the PID-reuse race"
  (`nsexec/__init__.py:30`), but the cgroup is found through `/proc/<pid>` before they are opened.
  `SameInstance` and `ProgramStays` are stated of IDs that are not used again.
- `utils/gpu.py:152`: a look-up that fails adds a device to a GPU's group without asking whether it
  is critical. The `DeviceNotFoundError` of pyudev is a `LookupError`, so a GPU that goes meanwhile
  raises out of `get_gpus`. The PCI listing judges a device alone, `get_gpus` its group.
- `device/usb.py:97-99`: a USB device given by its ids that goes after the check is left out of the
  document without an error; a NIC on the default route is written on the link that has the route
  by then, which need not be the one that was brought up.
- `domain/container/xml.py:66-76`: GPUs of two vendors in one container get the driver nodes of the
  first vendor only (`OneDriver`). A GPU whose path was not found at its first look-up keeps that
  answer (`cached_property`).
- `domain/base/configuration.py:45-52`: a range of one CPU ("3-3") is rejected; the set is read only
  when the document is made, after the devices were entered. The number of pins follows the set,
  not the number of vCPUs.
- `domain/vm/xml.py:163`: the Hyper-V clock is written on aarch64, though the Hyper-V features are
  not. On secure boot there the comments disagree: by 279-280 it is "signaled via <loader
  secure='yes'/>", by 58-61 the attribute is omitted, as it is.
- `utils/usb.py`: the name of a USB device is parsed by stripping the zeros of its bus but not of its
  number.
- `domain/container/domain.py:35-42`: the id maps are made after `makedirs` of the idmapped root and
  before the `try`. When one of them raises, the directory stays, though lines 82-83 say "leave no
  half-created dir for the startup reconcile to mop up"; `CleanedUp` allows for it, next to "map" in `faults`.
- `utils/iommu.py:192`: `FileNotFoundError` is suppressed around the whole loop, so a group that vanishes
  under the glob hides every group after it. A GPU that is then in no group is not marked, whatever its
  group has in it; `OfferedIsSafe` is stated of GPUs as far as the listing got.
- `domain/container/configuration.py:25`: "Reject idmap lists the kernel would refuse", but nothing limits
  their number to the 340 ranges of the kernel, nor ids and counts to its 32 bits. `IdmapAsKernel` is stated
  of maps within those limits (`Fits`).
- Two displays write two controllers without an index; `device/storage.py` writes a physical block
  size alone when both sizes are given; a negative answer about KVM or OVMF is cached for the life
  of the process; after a crash nobody owns the websockify of a machine that runs.

## Not modelled

- Interfaces that the embedding program implements (`device/delegate.py`,
  `libvirtd/service_delegate.py`), exception classes and re-exports: no logic.
- XML that is a text made of fields of the configuration: domain type, loader and features, TPM, CPU
  model and topology, memory, clock, init and command line.
- `validate_impl` of single devices, which compares fields of one device (that of a PCI device is
  `Accepted`).
- Tables: CPU models, OVMF file names, descriptions, the listing of all USB devices, the parsing of a
  GPU's information file.
- Of container entry: argument parsing, environment, window size, the single primitives of
  `_native.c` that nothing here calls, signals that kill the relay.
- Of the modelled parts: replies of libvirt that are lost after it has acted, USB devices that share
  their IDs, a crash while a websockify runs.

## Plan

Done: `DomainManager` against `Staging`; `StartedDomain` against `Bracket`; `ContainerStaging`;
`ExclusiveDevices`; `Connection`; `Entry` and `Session`; `HostInventory`; `Configuration` and
`Document`; proofs of every safety property. The order was that of what hurts most when it is wrong.

Left, in this order:

1. Replies of libvirt that are lost, in `DomainManager`: `create` that acts and raises.
2. A crash in `Document`: the websockify that stays, next to the start that follows.
3. The finalizer of a refused start against a start of another machine in `ExclusiveDevices`, with
   libvirt's own refusal to reattach a device in use.
4. CPU topology and memory of a machine, and the listings of `utils/` that remain.
