-------------------------- MODULE MCDomainManager --------------------------
(* Constants for the instances of DomainManager that TLC checks. *)
EXTENDS DomainManager, TLC

CONSTANTS u1, u2, c1, c2

CallerSymmetry == Permutations(Callers)

=============================================================================
