-------------------------- MODULE MCStartedDomain --------------------------
(* The instance of StartedDomain that TLC checks: as many devices as N says. *)
EXTENDS StartedDomain

=============================================================================
