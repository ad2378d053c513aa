\* Two machines with USB devices, configured in either way.
SPECIFICATION Spec
CONSTANTS
    v1 = v1
    v2 = v2
    v3 = v3
    a = a
    b = b
    Vms = {v1, v2}
    Units = {a}
    Kinds = {"usb name", "usb ids"}
    Nobody = Nobody
    MaxCrashes = 0
INVARIANTS UsbConflictsAreFound
