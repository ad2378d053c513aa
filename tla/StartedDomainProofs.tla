------------------------ MODULE StartedDomainProofs ------------------------
(***************************************************************************)
(* Theorems about StartedDomain, for every number of devices.              *)
(***************************************************************************)
EXTENDS StartedDomain, TLAPS

\* Every device that was started is held, or was undone once; the others never were.
Accounted ==
    \A d \in Devices :
        /\ d \in holds => d <= count /\ exits[d] = 0
        /\ d \notin holds => exits[d] = IF d <= count THEN 1 ELSE 0

\* The devices held are the first ones: up to the one the loop is at while it runs
\* for the first time, none when the finally block follows a rollback.
Prefix ==
    /\ pc \in {"devices", "domain", "up", "dropped"} => holds \cap Devices = 1..count
    /\ pc = "rollback" => holds \cap Devices = 1..next
    /\ pc = "finally" => holds \cap Devices \in {1..next, {}}
    /\ pc = "over" => holds \cap Devices = {}

\* The domain is held from "up" on, and longer than that only if it was abandoned.
DomainHeld ==
    /\ pc \in {"domain", "up", "dropped"} => count = N
    /\ pc = "up" => Domain \in holds
    /\ pc \in {"devices", "rollback", "domain"} => Domain \notin holds /\ exits[Domain] = 0
    /\ pc \in {"finally", "over"} /\ ~abandoned => Domain \notin holds
    /\ abandoned => pc \in {"dropped", "finally", "over"}
    /\ pc = "dropped" => abandoned
    /\ exits[Domain] <= 1
    /\ Domain \in holds => exits[Domain] = 0

BracketInv == TypeOK /\ Accounted /\ Prefix /\ DomainHeld

LEMMA BracketInit == Init => BracketInv
<1> SUFFICES ASSUME Init PROVE BracketInv
  OBVIOUS
<1>1. TypeOK
  <2>1. exits \in [Resources -> Nat]
    BY DEF Init
  <2>2. count \in 0..N /\ next \in 0..count
    BY DeviceCount DEF Init
  <2> QED
    BY <2>1, <2>2, Zenon DEF Init, TypeOK
<1>2. Accounted
  BY DeviceCount DEF Init, Accounted, Devices, Resources, Domain
<1>3. Prefix
  BY DeviceCount DEF Init, Prefix, Devices
<1>4. DomainHeld
  <2>1. exits[Domain] = 0
    BY DeviceCount DEF Init, Domain, Resources
  <2> QED
    BY <2>1 DEF Init, DomainHeld
<1> QED
  BY <1>1, <1>2, <1>3, <1>4 DEF BracketInv

LEMMA ExitFacts ==
  ASSUME BracketInv, NEW r \in Resources, Exit(r)
  PROVE  /\ holds' = holds \ {r}
         /\ exits' \in [Resources -> Nat]
         /\ \A s \in Resources \ {r} : exits'[s] = exits[s]
         /\ r \in holds => exits'[r] = exits[r] + 1
         /\ r \notin holds => exits'[r] = exits[r]
BY DEF BracketInv, TypeOK, Exit

LEMMA BracketNext == BracketInv /\ [Next]_vars => BracketInv'
<1> SUFFICES ASSUME BracketInv, [Next]_vars PROVE BracketInv'
  OBVIOUS
<1> USE DeviceCount DEF BracketInv, UnwindFrom
<1>0. /\ Devices \subseteq Resources /\ Domain \in Resources /\ Domain \notin Devices
      /\ \A d : d \in Devices <=> d \in Nat /\ 1 <= d /\ d <= N
      /\ Resources = Devices \cup {Domain}
  BY DEF Devices, Domain, Resources
<1>1. CASE StartDevice
  BY <1>1 DEF StartDevice, TypeOK, Accounted, Prefix, DomainHeld, Devices, Domain, Resources
<1>2. CASE DeviceFails
  BY <1>2 DEF DeviceFails, TypeOK, Accounted, Prefix, DomainHeld, Devices, Domain, Resources
<1>3. CASE DevicesStarted
  BY <1>3 DEF DevicesStarted, TypeOK, Accounted, Prefix, DomainHeld, Devices, Domain, Resources
<1>4. CASE DomainRuns
  BY <1>4 DEF DomainRuns, TypeOK, Accounted, Prefix, DomainHeld, Devices, Domain, Resources
<1>5. CASE DomainFails
  BY <1>5 DEF DomainFails, TypeOK, Accounted, Prefix, DomainHeld, Devices, Domain, Resources
<1>6. CASE Closes
  <2>1. TypeOK'
    BY <1>6, <1>0, ExitFacts DEF Closes, TypeOK
  <2>2. Accounted'
    BY <1>6, <1>0, ExitFacts DEF Closes, Accounted
  <2>3. Prefix'
    <3>1. (holds \ {Domain}) \cap Devices = holds \cap Devices
      BY <1>0
    <3> QED
      BY <1>6, <1>0, <3>1, ExitFacts DEF Closes, Prefix, DomainHeld
  <2>4. DomainHeld'
    BY <1>6, <1>0, ExitFacts DEF Closes, TypeOK, DomainHeld
  <2> QED
    BY <2>1, <2>2, <2>3, <2>4
<1>7. CASE Abandons
  BY <1>7 DEF Abandons, TypeOK, Accounted, Prefix, DomainHeld, Devices, Domain, Resources
<1>8. CASE RollsBack
  <2>1. next \in Devices /\ next \in Resources /\ next # Domain
    BY <1>8, <1>0 DEF RollsBack, TypeOK
  <2>2. TypeOK'
    <3>1. next - 1 \in 0..count
      BY <2>1, <1>0 DEF TypeOK
    <3>2. next' \in 0..count' /\ pc' = pc /\ count' = count /\ abandoned' = abandoned
      BY <1>8, <3>1 DEF RollsBack
    <3>3. holds' \subseteq Resources /\ exits' \in [Resources -> Nat]
      BY <1>8, <2>1, ExitFacts DEF RollsBack, TypeOK
    <3> QED
      BY <3>2, <3>3 DEF TypeOK
  <2>3. Accounted'
    BY <1>8, <1>0, <2>1, ExitFacts DEF RollsBack, TypeOK, Accounted, Prefix
  <2>4. Prefix'
    <3>1. (holds \ {next}) \cap Devices = (holds \cap Devices) \ {next}
      OBVIOUS
    <3>2. (1..next) \ {next} = 1..(next - 1)
      BY <2>1, <1>0
    <3> QED
      BY <1>8, <2>1, <3>1, <3>2, ExitFacts DEF RollsBack, Prefix
  <2>5. DomainHeld'
    BY <1>8, <1>0, <2>1, ExitFacts DEF RollsBack, TypeOK, DomainHeld
  <2> QED
    BY <2>2, <2>3, <2>4, <2>5
<1>9. CASE RollbackEnds
  BY <1>9 DEF RollbackEnds, TypeOK, Accounted, Prefix, DomainHeld, Devices, Domain, Resources
<1>10. CASE Unwinds
  <2>1. next \in Devices /\ next \in Resources /\ next # Domain
    BY <1>10, <1>0 DEF Unwinds, TypeOK
  <2>2. TypeOK'
    <3>1. next - 1 \in 0..count
      BY <2>1, <1>0 DEF TypeOK
    <3>2. next' \in 0..count' /\ pc' = pc /\ count' = count /\ abandoned' = abandoned
      BY <1>10, <3>1 DEF Unwinds
    <3>3. holds' \subseteq Resources /\ exits' \in [Resources -> Nat]
      BY <1>10, <2>1, ExitFacts DEF Unwinds, TypeOK
    <3> QED
      BY <3>2, <3>3 DEF TypeOK
  <2>3. Accounted'
    BY <1>10, <1>0, <2>1, ExitFacts DEF Unwinds, TypeOK, Accounted, Prefix
  <2>4. Prefix'
    <3>1. (holds \ {next}) \cap Devices = (holds \cap Devices) \ {next}
      OBVIOUS
    <3>2. (1..next) \ {next} = 1..(next - 1)
      BY <2>1, <1>0
    <3> QED
      BY <1>10, <2>1, <3>1, <3>2, ExitFacts DEF Unwinds, Prefix
  <2>5. DomainHeld'
    BY <1>10, <1>0, <2>1, ExitFacts DEF Unwinds, TypeOK, DomainHeld
  <2> QED
    BY <2>2, <2>3, <2>4, <2>5
<1>11. CASE Ends
  BY <1>11 DEF Ends, TypeOK, Accounted, Prefix, DomainHeld, Devices, Domain, Resources
<1>12. CASE FinalizesDevices
  BY <1>12 DEF FinalizesDevices, TypeOK, Accounted, Prefix, DomainHeld, Devices, Domain, Resources
<1>13. CASE FinalizesDomain
  <2>1. TypeOK'
    BY <1>13, <1>0, ExitFacts DEF FinalizesDomain, TypeOK
  <2>2. Accounted'
    BY <1>13, <1>0, ExitFacts DEF FinalizesDomain, Accounted
  <2>3. Prefix'
    <3>1. (holds \ {Domain}) \cap Devices = holds \cap Devices
      BY <1>0
    <3> QED
      BY <1>13, <1>0, <3>1, ExitFacts DEF FinalizesDomain, Prefix, DomainHeld
  <2>4. DomainHeld'
    BY <1>13, <1>0, ExitFacts DEF FinalizesDomain, TypeOK, DomainHeld
  <2> QED
    BY <2>1, <2>2, <2>3, <2>4
<1>14. CASE UNCHANGED vars
  BY <1>14 DEF vars, TypeOK, Accounted, Prefix, DomainHeld
<1> QED
  BY <1>1, <1>2, <1>3, <1>4, <1>5, <1>6, <1>7, <1>8, <1>9, <1>10, <1>11, <1>12, <1>13, <1>14
     DEF Next, Undoes

LEMMA BracketSpec == Spec => []BracketInv
BY BracketInit, BracketNext, PTL DEF Spec

\* Type correctness of the bracket.
THEOREM Typing == Spec => []TypeOK
BY BracketSpec, PTL DEF BracketInv

-----------------------------------------------------------------------------
(* Safety *)

\* The rollback and the finally block together undo every started device exactly once,
\* whichever device, or the domain, failed to start, for any number of devices.
THEOREM OnceEach == Spec => []UndoneOnce
<1>1. BracketInv => UndoneOnce
  <2> SUFFICES ASSUME BracketInv PROVE UndoneOnce
    OBVIOUS
  <2>1. \A r \in Resources : exits[r] <= 1 /\ (r \in holds => exits[r] = 0)
    <3> SUFFICES ASSUME NEW r \in Resources
                 PROVE  exits[r] <= 1 /\ (r \in holds => exits[r] = 0)
      OBVIOUS
    <3>1. CASE r = Domain
      BY <3>1 DEF BracketInv, DomainHeld
    <3>2. CASE r \in Devices
      BY <3>2 DEF BracketInv, Accounted
    <3> QED
      BY <3>1, <3>2, DeviceCount DEF Resources, Devices, Domain
  <2>2. pc = "over" => \A d \in Devices : exits[d] = IF d <= count THEN 1 ELSE 0
    BY DEF BracketInv, Accounted, Prefix
  <2> QED
    BY <2>1, <2>2 DEF UndoneOnce
<1> QED
  BY <1>1, BracketSpec, PTL

\* A constructor that returns holds everything; nothing is left of one that was undone.
THEOREM Atomic == Spec => []AllOrNothing
<1>1. BracketInv => AllOrNothing
  <2> SUFFICES ASSUME BracketInv PROVE AllOrNothing
    OBVIOUS
  <2>1. Resources = Devices \cup {Domain} /\ holds \subseteq Resources
    BY DeviceCount DEF BracketInv, TypeOK, Resources, Devices, Domain
  <2>2. CASE pc = "up"
    <3>1. holds \cap Devices = Devices /\ Domain \in holds
      BY <2>2 DEF BracketInv, Prefix, DomainHeld, Devices
    <3> QED
      BY <2>1, <2>2, <3>1 DEF AllOrNothing
  <2>3. CASE pc = "over"
    BY <2>1, <2>3 DEF AllOrNothing, BracketInv, Prefix, DomainHeld
  <2> QED
    BY <2>2, <2>3 DEF AllOrNothing
<1> QED
  BY <1>1, BracketSpec, PTL

-----------------------------------------------------------------------------
(* The bracket is what it promises *)

\* The resource at the top of what is held is the only one that is released.
LEMMA ReleaseOnTop ==
  ASSUME BracketInv, NEW r \in Resources, r \in holds, Exit(r), abandoned' = abandoned,
         Undoing',
         \A s \in holds : s > r => s = Domain /\ abandoned
  PROVE  Brackets!Next
<1>1. Brackets!Release(r)
  BY ExitFacts DEF Brackets!Release
<1>2. r \in 1..Domain
  BY DEF Resources
<1> QED
  BY <1>1, <1>2 DEF Brackets!Next

\* An exit whose stack is empty already changes nothing.
LEMMA ExitOfNothing ==
  ASSUME BracketInv, NEW r \in Resources, r \notin holds, Exit(r)
  PROVE  holds' = holds /\ exits' = exits
BY DEF Exit, BracketInv, TypeOK

\* Started in order, undone in reverse: every step of the rollback, of the finally
\* block, of the exit stack and of the finalizers is a step of Bracket or a stutter.
THEOREM Bracketed == Spec => ImplementsBracket
<1>1. Init => Brackets!Init
  BY DeviceCount DEF Init, Brackets!Init, Undoing, Domain, Resources
<1>2. ASSUME BracketInv, [Next]_vars
      PROVE  [Brackets!Next]_<<holds, abandoned, Undoing>>
  <2> USE DeviceCount, <1>2 DEF UnwindFrom
  <2>0. /\ Devices \subseteq Resources /\ Domain \in Resources /\ Domain \notin Devices
        /\ \A d : d \in Devices <=> d \in Nat /\ 1 <= d /\ d <= N
        /\ Resources = Devices \cup {Domain}
    BY DEF Devices, Domain, Resources
  <2> DEFINE Goal == [Brackets!Next]_<<holds, abandoned, Undoing>>
  <2> SUFFICES Goal
    OBVIOUS
  <2>1. CASE StartDevice
    <3>1. holds = 1..count /\ Domain \notin holds
      BY <2>1, <2>0 DEF StartDevice, BracketInv, TypeOK, Prefix, DomainHeld
    <3>2. count + 1 \in 1..Domain /\ 1..count = 1..((count + 1) - 1)
      BY <2>1 DEF StartDevice, BracketInv, TypeOK, Domain
    <3>3. Undoing = FALSE /\ ~abandoned /\ Undoing' = FALSE
      BY <2>1 DEF StartDevice, BracketInv, TypeOK, DomainHeld, Undoing
    <3>4. Brackets!Acquire(count + 1)
      BY <2>1, <3>1, <3>2, <3>3 DEF StartDevice, Brackets!Acquire
    <3> QED
      BY <3>2, <3>4 DEF Brackets!Next
  <2>2. CASE DeviceFails
    <3>1. Brackets!GiveUp
      BY <2>2 DEF DeviceFails, Brackets!GiveUp, Undoing
    <3> QED
      BY <3>1 DEF Brackets!Next
  <2>3. CASE DomainRuns
    <3>0. Domain - 1 = N /\ Domain \in 1..Domain
      BY DEF Domain
    <3>1. holds = 1..(Domain - 1) /\ Domain \in 1..Domain
      BY <2>3, <2>0, <3>0 DEF DomainRuns, BracketInv, TypeOK, Prefix, DomainHeld
    <3>2. Undoing = FALSE /\ ~abandoned /\ Undoing' = FALSE
      BY <2>3 DEF DomainRuns, BracketInv, TypeOK, DomainHeld, Undoing
    <3>3. Brackets!Acquire(Domain)
      BY <2>3, <3>1, <3>2 DEF DomainRuns, Brackets!Acquire
    <3> QED
      BY <3>1, <3>3 DEF Brackets!Next
  <2>4. CASE DomainFails \/ Abandons
    <3>1. /\ Undoing = FALSE /\ Undoing' = FALSE
          /\ abandoned' = TRUE /\ holds' = holds
      BY <2>4, <2>0 DEF DomainFails, Abandons, BracketInv, TypeOK, DomainHeld, Undoing
    <3>2. Brackets!Abandon
      BY <2>4, <3>1 DEF DomainFails, Abandons, Brackets!Abandon
    <3> QED
      BY <3>2 DEF Brackets!Next
  <2>5. CASE Closes
    <3>1. Domain \in holds /\ \A s \in holds : ~(s > Domain)
      BY <2>5 DEF Closes, BracketInv, TypeOK, DomainHeld, Resources, Domain
    <3> QED
      BY <2>5, <3>1, <2>0, ReleaseOnTop DEF Closes, Undoing
  <2>6. CASE RollsBack
    <3>1. /\ next \in Devices /\ next \in holds
          /\ \A s \in holds : ~(s > next)
      BY <2>6, <2>0 DEF RollsBack, BracketInv, TypeOK, Prefix, DomainHeld
    <3> QED
      BY <2>6, <3>1, <2>0, ReleaseOnTop DEF RollsBack, Undoing
  <2>7. CASE Unwinds
    <3>1. next \in Devices
      BY <2>7, <2>0 DEF Unwinds, BracketInv, TypeOK
    <3>2. CASE next \in holds
      <4>1. \A s \in holds : s > next => s = Domain /\ abandoned
        BY <2>7, <2>0, <3>1, <3>2 DEF Unwinds, BracketInv, TypeOK, Prefix, DomainHeld
      <4> QED
        BY <2>7, <2>0, <3>1, <3>2, <4>1, ReleaseOnTop DEF Unwinds, Undoing
    <3>3. CASE next \notin holds
      BY <2>7, <2>0, <3>1, <3>3, ExitOfNothing DEF Unwinds, Undoing
    <3> QED
      BY <3>2, <3>3
  <2>8. CASE FinalizesDomain
    <3>1. Domain \in holds /\ \A s \in holds : ~(s > Domain)
      BY <2>8 DEF FinalizesDomain, BracketInv, TypeOK, DomainHeld, Resources, Domain
    <3>2. Undoing'
      BY <2>8, <2>0, <3>1, ExitFacts DEF FinalizesDomain, BracketInv, DomainHeld, Undoing
    <3> QED
      BY <2>8, <3>1, <3>2, <2>0, ReleaseOnTop DEF FinalizesDomain
  <2>9. CASE FinalizesDevices
    <3>1. Brackets!GiveUp
      BY <2>9 DEF FinalizesDevices, Brackets!GiveUp, Undoing
    <3> QED
      BY <3>1 DEF Brackets!Next
  <2>10. CASE DevicesStarted \/ RollbackEnds \/ Ends \/ UNCHANGED vars
    BY <2>10 DEF DevicesStarted, RollbackEnds, Ends, vars, Undoing
  <2> QED
    BY <2>1, <2>2, <2>3, <2>4, <2>5, <2>6, <2>7, <2>8, <2>9, <2>10 DEF Next, Undoes
<1> QED
  BY <1>1, <1>2, BracketSpec, PTL DEF Spec, Brackets!Spec, ImplementsBracket
=============================================================================
