---------------------------- MODULE MCConnection ----------------------------
(* Constants for the instance of Connection that TLC checks. *)
EXTENDS Connection

CONSTANTS c1, c2

=============================================================================
