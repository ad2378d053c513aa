------------------------- MODULE MCExclusiveDevices -------------------------
(* Constants for the instances of ExclusiveDevices that TLC checks. *)
EXTENDS ExclusiveDevices, TLC

CONSTANTS v1, v2, v3, a, b

Symmetry == Permutations(Vms) \cup Permutations(Units)

=============================================================================
