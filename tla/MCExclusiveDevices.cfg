\* Three machines that use one PCI device, any starts, errors of libvirt, a crash under running machines.
SPECIFICATION Spec
CONSTANTS
    v1 = v1
    v2 = v2
    v3 = v3
    a = a
    b = b
    Vms = {v1, v2, v3}
    Units = {a}
    Kinds = {"pci"}
    Nobody = Nobody
    MaxCrashes = 1
SYMMETRY Symmetry
INVARIANTS TypeOK GivenBack ConflictsAreFound
PROPERTY NeverTakenAway
