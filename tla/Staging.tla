------------------------------ MODULE Staging ------------------------------
(***************************************************************************)
(* What the domain manager promises its callers about the durable state of *)
(* a domain, with no threads, locks, events or crashes in sight:           *)
(*                                                                         *)
(*    clear --Stage--> staged --GoLive--> live --Stop--> staged            *)
(*                     staged --Clear--> clear                             *)
(*                                                                         *)
(* A domain runs only on what was staged for it, keeps it for as long as   *)
(* it runs, and what is staged without a running domain does not stay.     *)
(***************************************************************************)
CONSTANT Uuids
VARIABLE phase

Init == phase \in [Uuids -> {"clear"}]

Moves(u, from, to) == phase[u] = from /\ phase' = [phase EXCEPT ![u] = to]

Stage(u)  == Moves(u, "clear", "staged")
GoLive(u) == Moves(u, "staged", "live")
Stop(u)   == Moves(u, "live", "staged")
Clear(u)  == Moves(u, "staged", "clear")

Next == \E u \in Uuids : Stage(u) \/ GoLive(u) \/ Stop(u) \/ Clear(u)

Spec == Init /\ [][Next]_phase

\* What is staged and not in use is used or cleared some day.
Fairness == \A u \in Uuids : WF_phase(GoLive(u) \/ Clear(u))

FairSpec == Spec /\ Fairness

=============================================================================
