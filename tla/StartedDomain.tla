--------------------------- MODULE StartedDomain ---------------------------
(***************************************************************************)
(* StartedDomain of truenas_pylibvirt.domain.manager, with the context     *)
(* managers it enters: DeviceManager.start, which starts every device of   *)
(* the domain in turn, and then the domain's own run().                    *)
(*                                                                         *)
(* The devices are 1..N, in the order of DeviceManager.devices, and the    *)
(* domain's run() is Domain.  A resource is held while the ExitStack it    *)
(* was entered on still has its exit callback.  An exit may raise; where   *)
(* the exception is caught and logged the state is the same.               *)
(***************************************************************************)
EXTENDS Naturals

CONSTANT N   \* how many devices the domain has

ASSUME DeviceCount == N \in Nat

Devices == 1..N
Domain == N + 1
Resources == 1..Domain

VARIABLES
    pc,        \* where the constructor or the clean-up is
    count,     \* started_devices is the first count devices
    next,      \* the device "for ... in reversed(started_devices)" is at; 0: through
    holds,     \* the resources that are held
    exits,     \* how often each resource's exit ran
    abandoned  \* the object was dropped without a clean-up

vars == <<pc, count, next, holds, exits, abandoned>>

TypeOK ==
    /\ pc \in {"devices", "rollback", "finally", "domain", "up", "dropped", "over"}
    /\ count \in 0..N
    /\ next \in 0..count
    /\ holds \subseteq Resources
    /\ exits \in [Resources -> Nat]
    /\ abandoned \in BOOLEAN

Init ==
    /\ pc = "devices"
    /\ count = 0 /\ next = 0
    /\ holds = {}
    /\ exits = [r \in Resources |-> 0]
    /\ abandoned = FALSE

-----------------------------------------------------------------------------
(* ExitStack *)

\* Mutant: a clean-up that leaves its exit stack as it is.
Exit_Again(r) ==
    /\ exits' = [exits EXCEPT ![r] = IF r \in holds THEN @ + 1 ELSE @]
    /\ UNCHANGED holds

\* close() runs the callback, if the stack still has it, and takes it off before.
Exit(r) ==
    /\ exits' = [exits EXCEPT ![r] = IF r \in holds THEN @ + 1 ELSE @]
    /\ holds' = holds \ {r}

UnwindFrom(d) == pc' = "finally" /\ next' = d

-----------------------------------------------------------------------------
(* The constructor *)

StartDevice ==
    /\ pc = "devices" /\ count < N
    /\ count' = count + 1
    /\ holds' = holds \cup {count + 1}
    /\ UNCHANGED <<pc, next, exits, abandoned>>

\* Mutant: the exception is logged and the rest of the devices left out.
DeviceFails_NotRaised ==
    /\ pc = "devices" /\ count < N
    /\ pc' = "domain"
    /\ UNCHANGED <<count, next, holds, exits, abandoned>>

\* Mutant: the rollback takes the failed device in.
DeviceFails_Included ==
    /\ pc = "devices" /\ count < N
    /\ pc' \in {"rollback", "finally"}
    /\ next' = count + 1
    /\ UNCHANGED <<count, holds, exits, abandoned>>

\* The handler rolls back, unless the identity() it logs raises as well (the one of a
\* NIC asks the kernel): then only the finally block undoes what was started.
DeviceFails ==
    /\ pc = "devices" /\ count < N
    /\ pc' \in {"rollback", "finally"}
    /\ next' = count
    /\ UNCHANGED <<count, holds, exits, abandoned>>

DevicesStarted ==
    /\ pc = "devices" /\ count = N
    /\ pc' = "domain"
    /\ UNCHANGED <<count, next, holds, exits, abandoned>>

RollsBack ==
    /\ pc = "rollback" /\ next > 0
    /\ Exit(next)
    /\ next' = next - 1
    /\ UNCHANGED <<pc, count, abandoned>>

RollbackEnds ==
    /\ pc = "rollback" /\ next = 0
    /\ UnwindFrom(count)
    /\ UNCHANGED <<count, holds, exits, abandoned>>

DomainRuns ==
    /\ pc = "domain"
    /\ pc' = "up"
    /\ holds' = holds \cup {Domain}
    /\ UNCHANGED <<count, next, exits, abandoned>>

\* run() raises out of the constructor: nobody closes the exit stack.
DomainFails ==
    /\ pc = "domain"
    /\ pc' = "dropped"
    /\ abandoned' = TRUE
    /\ UNCHANGED <<count, next, holds, exits>>

-----------------------------------------------------------------------------
(* The end of it *)

\* cleanup(). If run() raises at its exit, the exception is thrown into
\* DeviceManager.start, whose finally block runs either way.
Closes ==
    /\ pc = "up"
    /\ Exit(Domain)
    /\ UnwindFrom(count)
    /\ UNCHANGED <<count, abandoned>>

\* Mutant: an exit that raises ends the loop.
Unwinds_UntilOneRaises ==
    /\ pc = "finally" /\ next > 0
    /\ Exit(next)
    /\ next' \in {next - 1, 0}
    /\ UNCHANGED <<pc, count, abandoned>>

\* Mutant: the loop without reversed().
Unwinds_Forward ==
    /\ pc = "finally" /\ next > 0
    /\ Exit(count + 1 - next)
    /\ next' = next - 1
    /\ UNCHANGED <<pc, count, abandoned>>

Unwinds ==
    /\ pc = "finally" /\ next > 0
    /\ Exit(next)
    /\ next' = next - 1
    /\ UNCHANGED <<pc, count, abandoned>>

Ends ==
    /\ pc = "finally" /\ next = 0
    /\ pc' = "over"
    /\ UNCHANGED <<count, next, holds, exits, abandoned>>

\* The manager gives up its entry without a clean-up.
Abandons ==
    /\ pc = "up"
    /\ pc' = "dropped"
    /\ abandoned' = TRUE
    /\ UNCHANGED <<count, next, holds, exits>>

\* The interpreter closes the generators of a dropped object, in either order.
FinalizesDevices ==
    /\ pc = "dropped"
    /\ UnwindFrom(count)
    /\ UNCHANGED <<count, holds, exits, abandoned>>

FinalizesDomain ==
    /\ abandoned /\ Domain \in holds
    /\ Exit(Domain)
    /\ UNCHANGED <<pc, count, next, abandoned>>

Undoes == RollsBack \/ RollbackEnds \/ Unwinds \/ Ends \/ FinalizesDevices \/ FinalizesDomain

Next ==
    \/ StartDevice \/ DeviceFails \/ DevicesStarted \/ DomainRuns \/ DomainFails
    \/ Closes \/ Abandons
    \/ Undoes

Spec == Init /\ [][Next]_vars

\* The thread that unwinds does not stop half-way, and a dropped object is finalized
\* some day; nothing obliges the manager to close a StartedDomain.
FairSpec == Spec /\ WF_vars(Undoes)

-----------------------------------------------------------------------------
(* Properties *)

\* The finally block of DeviceManager.start runs after its rollback, over the same
\* devices: whatever was started is undone exactly once all the same, and never while
\* it is still counted on. An undo that ran twice would take away, say, a mount that
\* another start made meanwhile.
UndoneOnce ==
    /\ \A r \in Resources : exits[r] <= 1 /\ (r \in holds => exits[r] = 0)
    /\ pc = "over" => \A d \in Devices : exits[d] = IF d <= count THEN 1 ELSE 0

\* A constructor that returns has started every device and the domain; one that
\* raises because of a device, and a clean-up that is through, leave no device started.
AllOrNothing ==
    /\ pc = "up" => holds = Resources
    /\ pc = "over" => holds \subseteq {Domain} /\ (~abandoned => holds = {})

\* Devices and domain are bracketed: undone in the reverse order of their start.
Undoing == pc \in {"rollback", "finally", "over"} \/ exits[Domain] > 0
Brackets == INSTANCE Bracket WITH Top <- Domain, held <- holds, closing <- Undoing
ImplementsBracket == Brackets!Spec

\* One exit that raises keeps no other from running: once it has begun, the undoing
\* comes to an end with nothing held, also of a StartedDomain that nobody closes.
EndsEmpty == pc \notin {"devices", "domain", "up"} ~> holds = {}

=============================================================================
