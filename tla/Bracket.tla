------------------------------ MODULE Bracket ------------------------------
(***************************************************************************)
(* What nested context managers promise about the resources 1, 2, ..., Top *)
(* they acquire: they are acquired in order, and nothing is acquired any   *)
(* more once one was released; each is released after those acquired later *)
(* on. If the object that brackets them is abandoned rather than closed,   *)
(* the interpreter may release the outermost one, Top, at any time.        *)
(***************************************************************************)
EXTENDS Naturals

CONSTANT Top
VARIABLES held, abandoned, closing

Init == held = {} /\ abandoned = FALSE /\ closing = FALSE

Acquire(r) ==
    /\ ~closing /\ ~abandoned
    /\ held = 1..(r - 1)
    /\ held' = held \cup {r}
    /\ UNCHANGED <<abandoned, closing>>

Release(r) ==
    /\ r \in held
    /\ \A s \in held : s > r => s = Top /\ abandoned
    /\ held' = held \ {r}
    /\ closing' = TRUE
    /\ UNCHANGED abandoned

Abandon == ~closing /\ abandoned' = TRUE /\ UNCHANGED <<held, closing>>

\* An acquisition failed: nothing is acquired any more.
GiveUp == closing' = TRUE /\ UNCHANGED <<held, abandoned>>

Next == Abandon \/ GiveUp \/ \E r \in 1..Top : Acquire(r) \/ Release(r)

Spec == Init /\ [][Next]_<<held, abandoned, closing>>

=============================================================================
