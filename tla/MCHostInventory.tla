--------------------------- MODULE MCHostInventory ---------------------------
(* Two bridges, nested or in a circle, a sensitive device and a GPU. *)
EXTENDS HostInventory

CONSTANTS outer, inner, smbus, gpu

\* The outer bridge may lead to both and the sensitive device, the inner one to the sensitive device and back.
MCTopologies ==
    {[b \in {outer, inner} |-> IF b = outer THEN far ELSE near] :
        far \in SUBSET {outer, inner, smbus}, near \in SUBSET {outer, smbus}}

\* The GPU alone, with a bridge, with the sensitive device, or in no group.
MCGroupings ==
    {[d \in {outer, inner, smbus, gpu} |-> IF d \in with THEN 1 ELSE 2] :
        with \in {{gpu}, {gpu, outer}, {gpu, smbus}}}
    \cup {[d \in {outer, inner, smbus, gpu} |-> IF d = gpu THEN 0 ELSE 1]}

=============================================================================
