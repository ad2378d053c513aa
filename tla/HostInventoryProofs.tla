------------------------ MODULE HostInventoryProofs ------------------------
(***************************************************************************)
(* For every set of devices, every numbering of the buses and every        *)
(* grouping, and however many devices come and go: what the walks of       *)
(* HostInventory decide is reachability, and what is offered from them is  *)
(* not needed by the host.  The invariant says of a walk that all it has   *)
(* met can be reached from its root, and that what stayed behind a bridge  *)
(* it has entered was met, or is neither a bridge nor sensitive: with      *)
(* nothing left to look at, the bridges it has entered make a closed set.  *)
(***************************************************************************)
EXTENDS HostInventory, TLAPS

Early == {"build", "list", "judge", "walk", "report"}

\* Caches hold what stayed, and so do listings that did not break off.
Kept ==
    /\ pc = "walk" \/ (call = "gpu" /\ pc # "build") => steady \subseteq cache
    /\ pc \in {"gpus", "look"} \/ gpus # {}
            => cut \/ \A d \in steady : d \in listed \/ group[d] = NoGroup

Walks == pc = "walk" =>
    /\ root \in visited /\ visited \cup todo \subseteq cache
    /\ \A d \in visited \cup todo : Reaches(ever, root, d)
    /\ \A b \in visited \cap steady : \A e \in behind[b] \cap steady :
            e \in visited \cup todo \/ e \notin Bridges \cup Sensitive

\* Reports are made from the verdicts, after them.
Reported ==
    /\ pc \in Early => DOMAIN pci = {} /\ gpus = {}
    /\ \A d \in DOMAIN pci : pci[d] = Details(d)
    /\ \A g \in (steady \cap gpus) \ (marked \cup blind) :
            group[g] # NoGroup => \A d \in steady :
               group[d] = group[g] /\ (cut => {g, d} \subseteq listed)
                    => d \notin critical \/ (pc \in {"look", "raised"} /\ root = g /\ d \in todo)
    /\ pc = "look" => root \in gpus
    /\ pc \in {"gpus", "look"} => call = "gpu"

IInv == TypeOK /\ Kept /\ Walks /\ VerdictHolds /\ Reported

-----------------------------------------------------------------------------
(* Reachability                                                            *)

\* With more devices no less can be reached.
LEMMA MoreReaches ==
    ASSUME NEW S, NEW T, S \subseteq T, NEW d, NEW e, Reaches(S, d, e)
    PROVE  Reaches(T, d, e)
  BY DEF Reaches, Closed

LEMMA MoreCritical ==
    ASSUME NEW S, NEW T, S \subseteq T, NEW d, Critical(S, d)
    PROVE  Critical(T, d)
  BY MoreReaches DEF Critical

\* What is behind a bridge that can be reached can be reached.
LEMMA OneFurther ==
    ASSUME NEW S, NEW d, NEW b \in Bridges \cap S, Reaches(S, d, b), NEW e \in behind[b] \cap S
    PROVE  Reaches(S, d, e)
  BY DEF Reaches, Closed

\* A closed set without sensitive devices holds none that leads to one.
LEMMA ClosedIsSafe ==
    ASSUME NEW S, NEW R \in SUBSET Devices, Closed(S, R), R \cap Sensitive = {}, NEW d \in R
    PROVE  ~Critical(S, d)
  BY DEF Critical, Reaches

-----------------------------------------------------------------------------
(* Steps that leave the verdicts alone                                     *)

\* Verdicts outlast every device that comes or goes.
LEMMA WorldKeepsVerdicts ==
    ASSUME VerdictHolds, steady' \subseteq steady, ever \subseteq ever',
           UNCHANGED <<listed, critical, behind>>
    PROVE  VerdictHolds'
  <1>1. \A S, d : Critical(S, d)' <=> Critical(S', d)
    BY DEF Critical, Reaches, Closed
  <1>2. \A d \in critical' : Critical(ever, d)'
    BY <1>1, MoreCritical DEF VerdictHolds, Critical, Reaches, Closed
  <1>3. \A d \in (listed' \ critical') \cap steady' : ~Critical(steady, d)'
    BY <1>1, MoreCritical DEF VerdictHolds, Critical, Reaches, Closed
  <1> QED BY <1>2, <1>3 DEF VerdictHolds

\* A verdict that is right of its root keeps all of them right.
LEMMA JudgedKeepsVerdicts ==
    ASSUME VerdictHolds, NEW v \in BOOLEAN, Judged(v), UNCHANGED <<world, root>>,
           v => Critical(ever, root),
           ~v /\ root \in steady => ~Critical(steady, root)
    PROVE  VerdictHolds'
  <1>1. \A S, d : Critical(S, d)' <=> Critical(S', d)
    BY DEF Critical, Reaches, Closed, world
  <1>2. \A d \in critical' : Critical(ever, d)'
    BY <1>1 DEF VerdictHolds, Judged, world
  <1>3. \A d \in (listed' \ critical') \cap steady' : ~Critical(steady, d)'
    BY <1>1 DEF VerdictHolds, Judged, world
  <1> QED BY <1>2, <1>3 DEF VerdictHolds

-----------------------------------------------------------------------------
(* The invariant is inductive                                              *)

LEMMA InitIInv == Init => IInv
  <1> SUFFICES ASSUME Init PROVE IInv
    OBVIOUS
  <1> USE DEF Init, Empty
  <1>1. TypeOK
    BY ClassesAreApart, TopologiesAreTyped, GroupingsAreTyped DEF TypeOK
  <1>2. Kept /\ Walks /\ VerdictHolds /\ Reported
    BY DEF Kept, Walks, VerdictHolds, Reported, Early
  <1> QED BY <1>1, <1>2 DEF IInv

\* The listing and the walks of one device.
LEMMA JudgeKeeps == ASSUME IInv, Judge PROVE IInv'
  <1> USE DEF IInv
  <1>t. TypeOK'
    BY ClassesAreApart DEF TypeOK, Judge, Judged, DevicesBehind, world, result
  <1>k. steady' = steady /\ steady \subseteq cache' /\ cache' \subseteq ever
    BY DEF TypeOK, Kept, Judge, world
  <1>1. CASE root \in Bridges \cap cache'
    <2>1. /\ visited' = {root} /\ todo' = DevicesBehind(root, cache') /\ pc' = "walk"
          /\ UNCHANGED <<listed, critical, world, call, root, result>>
      BY <1>1 DEF Judge
    <2>2. VerdictHolds'
      BY <2>1, WorldKeepsVerdicts DEF world
    <2>4. Reaches(ever, root, root)
      BY DEF Reaches
    <2>5. \A d \in visited' \cup todo' : Reaches(ever, root, d)
      BY <2>1, <2>4, <1>1, <1>k, OneFurther DEF DevicesBehind
    <2>6. \A S, d, e : Reaches(S, d, e)' <=> Reaches(S', d', e')
      BY <2>1 DEF Reaches, Closed, world
    <2>7. \A b \in visited' \cap steady : \A e \in behind[b] \cap steady : e \in visited' \cup todo'
      BY <2>1, <1>k DEF DevicesBehind, TypeOK
    <2>8. Walks'
      BY <2>1, <2>5, <2>6, <2>7, <1>1, <1>k DEF Walks, DevicesBehind, world
    <2>9. Kept' /\ Reported'
      BY <2>1, <1>k DEF Kept, Reported, Early, Judge, Details, world, result
    <2> QED BY <1>t, <2>2, <2>8, <2>9
  <1>2. CASE root \notin Bridges \cap cache'
    <2>1. Judged(root \in Sensitive \cap cache') /\ UNCHANGED <<world, call, root, result>>
      BY <1>2 DEF Judge
    <2>2. root \in Sensitive \cap cache' => Critical(ever, root)
      BY <1>k DEF Critical, Reaches
    <2>3. root \in steady /\ root \notin Sensitive \cap cache' => ~Critical(steady, root)
      BY <1>2, <1>k, ClosedIsSafe DEF Closed, TypeOK
    <2>4. VerdictHolds'
      <3> DEFINE v == root \in Sensitive \cap cache'
      <3>1. v \in BOOLEAN /\ Judged(v) /\ UNCHANGED <<world, root>>
        BY <2>1
      <3>2. (v => Critical(ever, root)) /\ (~v /\ root \in steady => ~Critical(steady, root))
        BY <2>2, <2>3
      <3> HIDE DEF v
      <3> QED BY <3>1, <3>2, JudgedKeepsVerdicts
    <2>5. Walks' /\ Kept' /\ Reported'
      BY <2>1, <1>k DEF Walks, Kept, Reported, Early, Judge, Judged, Details, world, result
    <2> QED BY <1>t, <2>4, <2>5
  <1> QED BY <1>1, <1>2

LEMMA LookKeeps == ASSUME IInv, NEW d \in Devices, Look(d) PROVE IInv'
  <1> USE DEF IInv
  <1>t. TypeOK'
    BY ClassesAreApart DEF TypeOK, Look, Judged, Enters, DevicesBehind, world, result
  <1>w. pc = "walk" /\ d \in todo /\ UNCHANGED <<world, call, cache, root, result>>
    BY DEF Look
  <1>k. steady \subseteq cache /\ cache \subseteq ever /\ Reaches(ever, root, d)
    BY <1>w DEF Kept, Walks, TypeOK
  <1>1. CASE d \in Sensitive
    <2>1. Judged(TRUE)
      BY <1>1 DEF Look
    <2>2. Critical(ever, root)
      BY <1>1, <1>w, <1>k DEF Critical, Walks
    <2>3. VerdictHolds'
      BY <2>1, <2>2, <1>w, JudgedKeepsVerdicts
    <2>4. Walks' /\ Kept' /\ Reported'
      BY <2>1, <1>w, <1>k DEF Walks, Kept, Reported, Early, Judged, Details, world, result
    <2> QED BY <1>t, <2>3, <2>4
  <1>2. CASE d \notin Sensitive
    <2>1. UNCHANGED <<pc, listed, critical>> /\ visited' \cup todo' \subseteq visited \cup todo \cup DevicesBehind(d, cache)
          /\ visited \subseteq visited'
      BY <1>2, <1>w DEF Look, Enters
    <2>2. VerdictHolds'
      BY <2>1, <1>w, WorldKeepsVerdicts DEF world
    <2>3. d \in Bridges => \A e \in DevicesBehind(d, cache) : Reaches(ever, root, e)
      BY <1>w, <1>k, OneFurther DEF Walks, DevicesBehind
    <2>4. visited' \cup todo' \subseteq visited \cup todo \/ d \in Bridges
      BY <1>2, <1>w DEF Look, Enters
    <2>5. \A e \in visited' \cup todo' : Reaches(ever, root, e)
      BY <2>1, <2>3, <2>4, <1>w DEF Walks
    <2>6. visited' \cup todo' \subseteq cache
      BY <2>1, <1>w DEF Walks, DevicesBehind
    <2>7. \A b \in visited' \cap steady : \A e \in behind[b] \cap steady :
            e \in visited' \cup todo' \/ e \notin Bridges \cup Sensitive
      <3> SUFFICES ASSUME NEW b \in visited' \cap steady, NEW e \in behind[b] \cap steady,
                          e \in Bridges \cup Sensitive
                   PROVE  e \in visited' \cup todo'
        OBVIOUS
      <3>1. CASE b \in visited
        BY <3>1, <1>2, <1>w DEF Walks, Look, Enters
      <3>2. CASE b \notin visited
        <4>1. b = d /\ visited' = visited \cup {d} /\ todo' = (todo \ {d}) \cup DevicesBehind(d, cache)
          BY <3>2, <1>2, <1>w DEF Look, Enters
        <4> QED BY <4>1, <1>k DEF DevicesBehind, TypeOK
      <3> QED BY <3>1, <3>2
    <2>8. \A S, a, e : Reaches(S, a, e)' <=> Reaches(S', a', e')
      BY <1>w DEF Reaches, Closed, world
    <2>9. Walks'
      BY <2>1, <2>5, <2>6, <2>7, <2>8, <1>w DEF Walks, world
    <2>10. Kept' /\ Reported'
      BY <2>1, <1>w, <1>k DEF Kept, Reported, Early, Details, world, result
    <2> QED BY <1>t, <2>2, <2>9, <2>10
  <1> QED BY <1>1, <1>2

LEMMA WalkEndsKeeps == ASSUME IInv, WalkEnds PROVE IInv'
  <1> USE DEF IInv
  <1>w. pc = "walk" /\ todo = {} /\ Judged(FALSE) /\ UNCHANGED <<world, call, cache, root, result>>
    BY DEF WalkEnds
  <1>1. ~Critical(steady, root)
    <2> DEFINE R == visited \cup (Devices \ (Bridges \cup Sensitive))
    <2>1. R \in SUBSET Devices /\ R \cap Sensitive = {} /\ root \in R
      BY <1>w, ClassesAreApart DEF Walks, TypeOK
    <2>2. Closed(steady, R)
      BY <1>w, ClassesAreApart DEF Walks, Closed, TypeOK
    <2> QED BY <2>1, <2>2, ClosedIsSafe
  <1>2. VerdictHolds'
    BY <1>w, <1>1, JudgedKeepsVerdicts
  <1>3. TypeOK' /\ Walks' /\ Kept' /\ Reported'
    BY <1>w DEF TypeOK, Walks, Kept, Reported, Early, Judged, Details, world, result
  <1> QED BY <1>2, <1>3

\* The steps after the listing.
LEMMA ReportKeeps == ASSUME IInv, Report PROVE IInv'
  <1> USE DEF IInv
  <1>1. UNCHANGED <<world, call, listed, critical, walk, gpus, marked, blind, cut>> /\ pc = "report" /\ pc' = "done"
    BY DEF Report
  <1>2. VerdictHolds'
    BY <1>1, WorldKeepsVerdicts DEF world
  <1>3. TypeOK' /\ Kept' /\ Walks' /\ Reported'
    BY <1>1 DEF Report, TypeOK, Kept, Walks, Reported, Early, Details, world, walk
  <1> QED BY <1>2, <1>3

LEMMA NextGpuKeeps == ASSUME IInv, NEW g \in Devices, NextGpu(g) PROVE IInv'
  <1> USE DEF IInv
  <1>1. UNCHANGED <<world, call, cache, listed, critical, visited, pci, marked, blind, cut>> /\ pc = "gpus"
    BY DEF NextGpu, Raises, walk, result
  <1>2. VerdictHolds'
    BY <1>1, WorldKeepsVerdicts DEF world
  <1>3. CASE g \notin present
    BY <1>1, <1>2, <1>3 DEF NextGpu, Raises, TypeOK, Kept, Walks, Reported, Early, Details, world, walk, result
  <1>4. CASE g \in present
    <2>1. /\ gpus' = gpus \cup {g}
          /\ root' = g /\ todo' = GroupOf(g) /\ pc' = "look" /\ g \in (Gpus \cap cache) \ gpus
      BY <1>4 DEF NextGpu
    <2>2. TypeOK' /\ Kept' /\ Walks'
      BY <1>1, <2>1 DEF TypeOK, Kept, Walks, GroupOf, world
    <2>3. \A d \in steady : /\ g \in steady /\ group[g] # NoGroup /\ group[d] = group[g]
                           /\ (cut => {g, d} \subseteq listed)
                              => d \in todo'
      BY <1>1, <2>1 DEF Kept, GroupOf
    <2>4. Reported'
      BY <1>1, <2>1, <2>3 DEF Reported, Early, Details, world
    <2> QED BY <1>2, <2>2, <2>4
  <1> QED BY <1>3, <1>4

LEMMA LookUpKeeps == ASSUME IInv, NEW d \in Devices, NEW ok \in BOOLEAN, LookUp(d, ok) PROVE IInv'
  <1> USE DEF IInv
  <1>1. UNCHANGED <<world, call, cache, listed, critical, root, visited, pci, gpus, cut>> /\ pc = "look" /\ d \in todo
    BY DEF LookUp, Raises, walk, result
  <1>2. VerdictHolds'
    BY <1>1, WorldKeepsVerdicts DEF world
  <1>3. CASE d \notin present
    <2>1. pc' = "raised" /\ UNCHANGED <<todo, marked, blind>>
      BY <1>3 DEF LookUp, Raises, walk, result
    <2>2. d \notin steady
      BY <1>3 DEF TypeOK
    <2>3. TypeOK' /\ Kept' /\ Walks'
      BY <1>1, <2>1 DEF TypeOK, Kept, Walks, world
    <2>4. Reported'
      BY <1>1, <2>1 DEF Reported, Early, Details, world
    <2> QED BY <1>2, <2>3, <2>4
  <1>4. CASE d \in present
    <2>1. /\ marked' = IF Marks(d, ok) THEN marked \cup {root} ELSE marked
          /\ blind' = IF ok THEN blind ELSE blind \cup {root}
          /\ todo' = todo \ {d} /\ pc' = "look"
      BY <1>4, <1>1 DEF LookUp
    <2>2. TypeOK' /\ Kept' /\ Walks'
      BY <1>1, <2>1 DEF TypeOK, Kept, Walks, Reported, world
    <2>3. Reported'
      BY <1>1, <2>1 DEF Reported, Early, Details, Marks, world
    <2> QED BY <1>2, <2>2, <2>3
  <1> QED BY <1>3, <1>4

\* A device comes or goes.
LEMMA WorldKeeps ==
    ASSUME IInv, NEW d \in Devices, Unplug(d) \/ Plug(d) PROVE IInv'
  <1> USE DEF IInv
  <1>1. /\ UNCHANGED <<behind, group, call, pc, cache, listed, critical, walk, result>>
        /\ steady' \subseteq steady /\ ever \subseteq ever'
    BY DEF Unplug, Plug
  <1>2. VerdictHolds'
    BY <1>1, WorldKeepsVerdicts
  <1>3. TypeOK' /\ Kept'
    BY <1>1 DEF TypeOK, Kept, Unplug, Plug, walk, result
  <1>4. \A S, a, e : Reaches(S, a, e)' <=> Reaches(S', a', e')
    BY <1>1 DEF Reaches, Closed
  <1>5. Walks'
    BY <1>1, <1>4, MoreReaches DEF Walks, walk
  <1>6. Reported'
    BY <1>1 DEF Reported, Early, Details, walk, result
  <1> QED BY <1>2, <1>3, <1>5, <1>6

LEMMA NextIInv == IInv /\ [Next]_vars => IInv'
  <1> SUFFICES ASSUME IInv, [Next]_vars PROVE IInv'
    OBVIOUS
  <1> USE DEF IInv
  <1>1. CASE BuildCache \/ ListEnds \/ GpuEnds \/ GpusEnd \/ (\E d \in Devices : Pick(d)) \/ UNCHANGED vars
    <2>1. UNCHANGED <<world, call, listed, critical, todo, visited, result>>
      BY <1>1 DEF BuildCache, ListEnds, GpuEnds, GpusEnd, Pick, vars, walk
    <2>2. VerdictHolds'
      BY <2>1, WorldKeepsVerdicts DEF world
    <2>3. CASE BuildCache
      BY <2>1, <2>2, <2>3 DEF BuildCache, TypeOK, Kept, Walks, Reported, Early, Details, world, walk, result
    <2>4. CASE ListEnds
      BY <2>1, <2>2, <2>4 DEF ListEnds, AfterListing, TypeOK, Kept, Walks, Reported, Early, Details, world, walk, result
    <2>5. CASE GpuEnds
      BY <2>1, <2>2, <2>5 DEF GpuEnds, TypeOK, Kept, Walks, Reported, Early, Details, world, walk, result
    <2>6. CASE GpusEnd
      BY <2>1, <2>2, <2>6 DEF GpusEnd, TypeOK, Kept, Walks, Reported, Early, Details, world, walk, result
    <2>7. CASE \E d \in Devices : Pick(d)
      BY <2>1, <2>2, <2>7 DEF Pick, TypeOK, Kept, Walks, Reported, Early, Details, world, result
    <2>8. CASE UNCHANGED vars
      <3>1. UNCHANGED <<world, walk, result, call, pc, cache>>
        BY <2>8 DEF vars
      <3>2. Walks'
        <4>1. \A S, a, e : Reaches(S, a, e)' <=> Reaches(S', a', e')
          BY <3>1 DEF Reaches, Closed, world
        <4> QED BY <3>1, <4>1 DEF Walks, world, walk
      <3> QED BY <2>1, <2>2, <3>1, <3>2 DEF TypeOK, Kept, Reported, Early, Details, world, walk, result
    <2> QED BY <1>1, <2>3, <2>4, <2>5, <2>6, <2>7, <2>8
  <1>2. CASE Judge
    BY <1>2, JudgeKeeps
  <1>3. CASE WalkEnds
    BY <1>3, WalkEndsKeeps
  <1>4. CASE Report
    BY <1>4, ReportKeeps
  <1>5. CASE \E d \in Devices : Look(d)
    BY <1>5, LookKeeps
  <1>6. CASE \E d \in Devices : NextGpu(d)
    BY <1>6, NextGpuKeeps
  <1>7. CASE \E d \in Devices, ok \in BOOLEAN : LookUp(d, ok)
    BY <1>7, LookUpKeeps
  <1>8. CASE \E d \in Devices : Unplug(d) \/ Plug(d)
    BY <1>8, WorldKeeps
  <1>9. CASE ListBreaks
    <2>1. UNCHANGED <<world, call, cache, listed, critical, walk, pci, gpus, marked, blind>>
          /\ pc = "list" /\ pc' \in {"gpus", "report"} /\ (pc' = "gpus" => call = "gpu") /\ cut' = TRUE
      BY <1>9 DEF ListBreaks, AfterListing
    <2>2. VerdictHolds'
      BY <2>1, WorldKeepsVerdicts DEF world
    <2>3. TypeOK' /\ Kept' /\ Walks' /\ Reported'
      BY <2>1 DEF TypeOK, Kept, Walks, Reported, Early, Details, world, walk
    <2> QED BY <2>2, <2>3
  <1> QED BY <1>1, <1>2, <1>3, <1>4, <1>5, <1>6, <1>7, <1>8, <1>9 DEF Next, Step

THEOREM Invariance == Spec => []IInv
  BY InitIInv, NextIInv, PTL DEF Spec

-----------------------------------------------------------------------------
(* The results                                                             *)

\* The variables stay in their ranges.
THEOREM TypeCorrect == Spec => []TypeOK
  BY Invariance, PTL DEF IInv


\* A device that is called critical leads to a sensitive one, and one that is not leads to
\* none through devices that stayed: is_pci_bridge_critical, whatever the numbering.
THEOREM VerdictsAreReachability == Spec => []VerdictHolds
  BY Invariance, PTL DEF IInv

LEMMA ReportedIsSafe == IInv => OfferedIsSafe
  <1> SUFFICES ASSUME IInv PROVE OfferedIsSafe
    OBVIOUS
  <1> USE DEF IInv
  <1>1. \A d \in steady : Accepted(d) => ~Critical(steady, d)
    <2> SUFFICES ASSUME NEW d \in steady, Accepted(d) PROVE ~Critical(steady, d)
      OBVIOUS
    <2>1. pci[d].error = (d \notin listed) /\ pci[d].critical = (d \notin listed \/ d \in critical)
      BY DEF Accepted, Reported, Details
    <2>2. d \in listed \ critical
      BY <2>1 DEF Accepted
    <2> QED BY <2>2 DEF VerdictHolds
  <1>2. ASSUME pc = "done", NEW g \in (steady \cap gpus) \ (marked \cup blind), group[g] # NoGroup,
               NEW d \in steady, group[d] = group[g], cut => {g, d} \subseteq listed
        PROVE  ~Critical(steady, d)
    BY <1>2 DEF Reported, Kept, VerdictHolds
  <1> QED BY <1>1, <1>2 DEF OfferedIsSafe

\* No device that stayed is offered to a guest if it leads to a sensitive one: not by
\* PCIDevice.validate_impl, wherever the listing broke off, and not as a GPU that get_gpus
\* does not mark, as far as the listing got (utils/iommu.py:192).
THEOREM OffersAreSafe == Spec => []OfferedIsSafe
  BY Invariance, ReportedIsSafe, PTL

=============================================================================
