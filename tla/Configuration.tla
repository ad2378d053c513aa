--------------------------- MODULE Configuration ---------------------------
(***************************************************************************)
(* What is computed from a configuration alone: the check of the ranges of *)
(* a container's users (domain/container/configuration.py), the list of    *)
(* CPUs of a set (domain/base/configuration.py), the name of a disk from   *)
(* its number (device/utils.py) and the counters that number the devices   *)
(* of one document (device/counters.py).                                   *)
(***************************************************************************)
EXTENDS Integers, Sequences, FiniteSets, SequencesExt

CONSTANTS
    Letters,      \* how many letters disks are named with: 26, fewer to reach two of them
    MostExtents,  \* how many ranges the kernel takes in one map: 340
    MaxId         \* the last user it knows: 2^32 - 2

ASSUME SomeLetters == Letters \in Nat \ {0}
ASSUME LimitsAreNat == MostExtents \in Nat /\ MaxId \in Nat

-----------------------------------------------------------------------------
(* Ranges of users                                                         *)

\* An item maps count users from start, in the container, to target, on the host.
Item == [start : Int, target : Int, count : Int]
Sides == {"start", "target"}
WellFormed(item) == item.count > 0 /\ item.start >= 0 /\ item.target >= 0

\* The items in their order on one side, those that are equal there in any.
InOrder(items, side) ==
    CHOOSE p \in [DOMAIN items -> DOMAIN items] :
        \A m, n \in DOMAIN items : m < n => p[m] # p[n] /\ items[p[m]][side] <= items[p[n]][side]

\* Each item ends, on one side, before its neighbour in that order begins.
Apart(items, order, side) ==
    \A n \in 1 .. Len(items) - 1 :
        items[order[n]][side] + items[order[n]].count <= items[order[n + 1]][side]

\* Mutant: the host's side is compared in the order of the container's.
validate_idmap_items_OneOrder(items) ==
    /\ items # <<>>
    /\ \A n \in DOMAIN items : WellFormed(items[n])
    /\ \A side \in Sides : Apart(items, InOrder(items, "start"), side)

validate_idmap_items(items) ==
    /\ items # <<>>
    /\ \A n \in DOMAIN items : WellFormed(items[n])
    /\ \A side \in Sides : Apart(items, InOrder(items, side), side)

\* External: what the kernel takes as a map.  That ranges may not overlap on either side is
\* the rule that the docstring of _validate_idmap_items tells; how many there may be and how
\* far they may reach are rules of the kernel that this package does not look at.
Users(item, side) == item[side] .. (item[side] + item.count) - 1

Fits(items) ==
    /\ Len(items) <= MostExtents
    /\ \A n \in DOMAIN items, side \in Sides : Users(items[n], side) \subseteq 0 .. MaxId

KernelTakes(items) ==
    /\ items # <<>>
    /\ \A n \in DOMAIN items : WellFormed(items[n])
    /\ \A m, n \in DOMAIN items : m # n =>
          \A side \in Sides : Users(items[m], side) \cap Users(items[n], side) = {}
    /\ Fits(items)

-----------------------------------------------------------------------------
(* Sets of CPUs                                                            *)

\* A part of a set is the sequence of the numbers between its dashes.
PartRaises(part) == Len(part) > 2 \/ (Len(part) = 2 /\ part[1] >= part[2])

\* A dict keeps its keys in the order in which they first came, each once.
WithKey(keys, key) == IF key \in ToSet(keys) THEN keys ELSE Append(keys, key)

WithRange(keys, first, last) ==
    LET with[cpu \in first - 1 .. last] ==
            IF cpu < first THEN keys ELSE WithKey(with[cpu - 1], cpu)
    IN  with[last]

\* Mutant: a range lacks its end.
parse_numeric_set_Short(parts) ==
    LET cpus[n \in 0 .. Len(parts)] ==
            IF n = 0 THEN <<>>
            ELSE WithRange(cpus[n - 1], parts[n][1], parts[n][Len(parts[n])] + 1 - Len(parts[n]))
    IN  cpus[Len(parts)]

parse_numeric_set(parts) ==
    LET cpus[n \in 0 .. Len(parts)] ==
            IF n = 0 THEN <<>>
            ELSE WithRange(cpus[n - 1], parts[n][1], parts[n][Len(parts[n])])
    IN  cpus[Len(parts)]

-----------------------------------------------------------------------------
(* Names and numbers of devices                                            *)

\* a, b, .., z, aa, ab, ..: a numeral without zero.
disk_from_number[number \in Nat] ==
    IF number = 0 THEN <<>>
    ELSE LET a == number \div Letters
             b == number % Letters
         IN  IF b = 0 THEN Append(disk_from_number[a - 1], Letters)
                      ELSE Append(disk_from_number[a], b)

\* The next number of each kind, the number of each type of USB controller, and the types
\* whose controller is in the document.
Counters == [boot |-> 1, scsi |-> 1, virtual |-> 1, controller |-> 1,
             usb |-> [type \in {"nec-xhci"} |-> 0], emitted |-> {}]

Took(counters, kind) == [counters EXCEPT ![kind] = @ + 1]

\* Mutant: the first type of controller that a USB device asks for is number 0.
usb_controller_no_FromZero(counters, type) ==
    IF type \in DOMAIN counters.usb THEN counters.usb[type] ELSE counters.controller - 1

\* nec-xhci is 0 and the others count from 1 in the order in which they are asked for.
usb_controller_no(counters, type) ==
    IF type \in DOMAIN counters.usb THEN counters.usb[type] ELSE counters.controller

=============================================================================
