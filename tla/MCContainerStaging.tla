------------------------- MODULE MCContainerStaging -------------------------
(* The instances of ContainerStaging that TLC checks differ in their constants only. *)
EXTENDS ContainerStaging

=============================================================================
