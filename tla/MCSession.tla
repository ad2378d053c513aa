------------------------------ MODULE MCSession ------------------------------
(* Constants for the instances of Session that TLC checks. *)
EXTENDS Session

CONSTANTS setid, mknod, mnt

=============================================================================
