----------------------- MODULE ContainerStagingProofs -----------------------
(***************************************************************************)
(* For every number of devices, of starts and of crashes: descriptors do   *)
(* not leak and every variable keeps its type whoever starts when, and a   *)
(* container that is only started at rest stands on its own mounts.        *)
(***************************************************************************)
EXTENDS ContainerStaging, WellFoundedInduction, FiniteSetTheorems, TLAPS

-----------------------------------------------------------------------------
(* Descriptors                                                             *)

\* The clone of a path is open between Clones and Closes only, whatever the other threads do
\* and wherever the process dies (device/filesystem.py:88-110).
THEOREM DescriptorsAreClosed == Spec => []NoDescriptorLeft
<1>1. Init => NoDescriptorLeft
  BY DEF Init, NoDescriptorLeft
<1>2. NoDescriptorLeft /\ [Next]_vars => NoDescriptorLeft'
  BY DEF NoDescriptorLeft, Next, vars, thread, Start, StartRefused, ManagerStep, Makes, MakeFails,
         Clones, MapsRaise, Attaches, Closes, Fails, Creates, CreateFails, HandlesStop, CleanStep, Finalizes,
         BootStep, BootLists, BootAsks, BootScans, BootEnds, GuestStops, Crash, Free
<1> QED
  BY <1>1, <1>2, PTL DEF Spec

-----------------------------------------------------------------------------
(* Types                                                                   *)

\* A set of numbers that is not empty has a least one.
LEMMA LeastIn ==
    ASSUME NEW R, NEW S, IsWellFoundedOn(R, S), NEW T, T \subseteq S, T # {},
           \A m, n \in S : m < n => <<m, n>> \in R
    PROVE  \E n \in T : \A m \in T : ~(m < n)
<1>1. PICK n \in T : \A m \in T : ~ (<<m, n>> \in R)
  BY WFMin
<1> QED
  BY <1>1

\* What holds of 0, and of the next number whenever it holds of one, holds of each.
LEMMA Upwards ==
    ASSUME NEW S, 0 \in S, \A n \in Nat : n \in S => n + 1 \in S
    PROVE  Nat \subseteq S
<1>1. \A m, n \in Nat : m < n => <<m, n>> \in OpToRel(<, Nat)
  BY DEF OpToRel
<1>2. IsWellFoundedOn(OpToRel(<, Nat), Nat)
  BY NatLessThanWellFounded
<1>3. \E R : IsWellFoundedOn(R, Nat) /\ \A m, n \in Nat : m < n => <<m, n>> \in R
  BY <1>1, <1>2, Zenon
<1> DEFINE T == Nat \ S
<1>4. T # {} => \E n \in T : \A m \in T : ~(m < n)
  <2> T \subseteq Nat
    OBVIOUS
  <2> HIDE DEF T
  <2> QED
    BY <1>3, LeastIn
<1>5. ASSUME NEW n \in T, \A m \in T : ~(m < n) PROVE FALSE
  <2>1. n # 0 /\ n \in Nat
    OBVIOUS
  <2>2. n - 1 \in Nat /\ n - 1 < n /\ (n - 1) + 1 = n
    BY <2>1
  <2>3. n - 1 \in S
    BY <1>5, <2>2
  <2> QED
    BY <2>2, <2>3
<1> QED
  BY <1>4, <1>5

\* A set of paths has an order, the last first.
Descends(order, S) ==
    /\ order \in [1 .. Cardinality(S) -> S]
    /\ \A m, n \in DOMAIN order : m < n => order[m] > order[n]

\* Any set of paths has one: the greatest goes before the order of the others.
LEMMA OrderExists ==
    ASSUME NEW S \in SUBSET Paths
    PROVE  IsFiniteSet(S) /\ \E order : Descends(order, S)
<1> DEFINE Ordered == {n \in Nat : \A U \in SUBSET (1 .. n) : \E order : Descends(order, U)}
<1>1. 0 \in Ordered
  <2> SUFFICES ASSUME NEW U \in SUBSET (1 .. 0) PROVE \E order : Descends(order, U)
    OBVIOUS
  <2>0. 1 .. 0 = {} /\ Cardinality({}) = 0
    BY FS_EmptySet
  <2>1. U = {} /\ Cardinality(U) = 0
    BY <2>0
  <2>2. Descends([n \in 1 .. 0 |-> n], U)
    BY <2>1 DEF Descends
  <2> QED
    BY <2>2
<1>2. ASSUME NEW n \in Nat, n \in Ordered PROVE n + 1 \in Ordered
  <2> SUFFICES ASSUME NEW U \in SUBSET (1 .. n + 1) PROVE \E order : Descends(order, U)
    OBVIOUS
  <2>1. CASE n + 1 \notin U
    <3>1. U \in SUBSET (1 .. n)
      BY <2>1
    <3> QED
      BY <1>2, <3>1
  <2>2. CASE n + 1 \in U
    <3> DEFINE V == U \ {n + 1}
    <3>1. V \in SUBSET (1 .. n)
      OBVIOUS
    <3>2. PICK order : Descends(order, V)
      BY <1>2, <3>1
    <3>3. IsFiniteSet(U)
      <4>1. 1 \in Int /\ n + 1 \in Int
        OBVIOUS
      <4>2. IsFiniteSet(1 .. n + 1)
        BY <4>1, FS_Interval, Zenon
      <4> QED
        BY <4>2, FS_Subset, Zenon
    <3>4. Cardinality(V) = Cardinality(U) - 1 /\ Cardinality(U) \in Nat /\ Cardinality(V) \in Nat
      BY <2>2, <3>3, FS_RemoveElement, FS_CardinalityType
    <3> DEFINE size == Cardinality(U)
               next == [k \in 1 .. size |-> IF k = 1 THEN n + 1 ELSE order[k - 1]]
    <3>5. order \in [1 .. size - 1 -> V] /\ \A k, l \in 1 .. size - 1 : k < l => order[k] > order[l]
      BY <3>2, <3>4 DEF Descends
    <3> HIDE DEF size
    <3>6. size \in Nat
      BY <3>4 DEF size
    <3>7. next \in [1 .. size -> U]
      <4> SUFFICES ASSUME NEW k \in 1 .. size, k # 1 PROVE order[k - 1] \in U
        BY <2>2
      <4>1. k - 1 \in 1 .. size - 1
        BY <3>6
      <4> QED
        BY <3>5, <4>1
    <3>8. ASSUME NEW k \in 1 .. size, NEW l \in 1 .. size, k < l PROVE next[k] > next[l]
      <4>1. l - 1 \in 1 .. size - 1 /\ l # 1 /\ (k # 1 => k - 1 \in 1 .. size - 1 /\ k - 1 < l - 1)
        BY <3>6, <3>8
      <4>2. order[l - 1] \in 1 .. n
        BY <3>1, <3>5, <4>1
      <4> QED
        BY <3>5, <4>1, <4>2
    <3>9. Descends(next, U)
      BY <3>7, <3>8 DEF Descends, size
    <3> QED
      BY <3>9
  <2> QED
    BY <2>1, <2>2
<1>3. Root \in Ordered
  <2> HIDE DEF Ordered
  <2>1. Nat \subseteq Ordered
    BY <1>1, <1>2, Upwards
  <2> QED
    BY <2>1, SomePaths DEF Root
<1>4. IsFiniteSet(S)
  <2>1. 1 \in Int /\ Root \in Int
    BY SomePaths DEF Root
  <2>2. IsFiniteSet(Paths)
    BY <2>1, FS_Interval, Zenon DEF Paths
  <2> QED
    BY <2>2, FS_Subset, Zenon
<1> QED
  BY <1>3, <1>4 DEF Paths

\* The contexts that are left, and the paths that a scan finds, are sequences of paths.
LEMMA LeavingIsOfPaths ==
    ASSUME NEW contexts
    PROVE  LeavingOrder(contexts) \in Seq(Paths)
<1> DEFINE S == Entered(contexts)
<1>1. S \in SUBSET Paths
  BY DEF Entered
<1>2. PICK o : Descends(o, S)
  BY <1>1, OrderExists
<1>3. LeavingOrder(contexts) \in [1 .. Cardinality(S) -> S]
  <2> HIDE DEF S
  <2>1. LeavingOrder(contexts) = CHOOSE order \in [1 .. Cardinality(S) -> S] :
                                     \A m, n \in DOMAIN order : m < n => order[m] > order[n]
    BY DEF LeavingOrder, S
  <2> QED
    BY <1>2, <2>1 DEF Descends
<1>4. Cardinality(S) \in Nat
  BY <1>1, OrderExists, FS_CardinalityType
<1> HIDE DEF S
<1> QED
  BY <1>1, <1>3, <1>4

LEMMA ScanIsOfPaths ==
    ASSUME NEW S \in SUBSET Paths
    PROVE  SetToSeq(S) \in Seq(Paths)
<1>1. Cardinality(S) \in Nat
  BY OrderExists, FS_CardinalityType
<1>2. PICK o : Descends(o, S)
  BY OrderExists
<1>3. o \in [1 .. Cardinality(S) -> S] /\ IsInjective(o)
  <2>1. \A m \in DOMAIN o : o[m] \in Int
    <3>1. \A p \in Paths : p \in Int
      BY SomePaths DEF Paths, Root
    <3> QED
      BY <1>2, <3>1 DEF Descends
  <2>2. \A m, n \in DOMAIN o : m \in Int /\ n \in Int
    BY <1>1, <1>2 DEF Descends
  <2> QED
    BY <1>2, <2>1, <2>2 DEF Descends, IsInjective
<1>4. SetToSeq(S) \in [1 .. Cardinality(S) -> S]
  BY <1>3 DEF SetToSeq, IsInjective
<1> QED
  BY <1>1, <1>4

\* Taking off the topmost layer, and putting two jobs together.
LEMMA FrontOfSeq ==
    ASSUME NEW S, NEW s \in Seq(S), s # <<>>
    PROVE  Front(s) \in Seq(S)
BY DEF Front

\* A start that is under way has a number.
Typed == TypeOK /\ (pc # "idle" => run # 0)

Jobs == Seq(Paths \cup {Parent, Scan})

LEMMA ConcatIsTyped == \A S : \A a, b \in Seq(S) : a \o b \in Seq(S)
OBVIOUS

\* Whoever leaves contexts gets paths to clean, and the sources back as they were.
LEMMA LeavesIsTyped ==
    ASSUME TypeOK, NEW t \in Threads, NEW contexts \in Contexts, NEW then \in {<<>>, <<Scan>>},
           Leaves(t, contexts, then)
    PROVE  job' \in [Threads -> Jobs] /\ step' = step /\ source' \in [Devs -> Sources]
<1>1. LeavingOrder(contexts) \in Seq(Paths)
  BY LeavingIsOfPaths
<1>2. LeavingOrder(contexts) \o then \in Jobs
  <2> DEFINE order == LeavingOrder(contexts)
             places == Paths \cup {Parent, Scan}
  <2>1. Paths \subseteq places /\ Scan \in places
    OBVIOUS
  <2> HIDE DEF order, places
  <2>2. order \in Seq(places)
    BY <1>1, <2>1 DEF order
  <2>3. <<>> \in Seq(places) /\ <<Scan>> \in Seq(places)
    BY <2>1
  <2>4. then \in Seq(places)
    BY <2>3
  <2>5. order \o then \in Seq(places)
    BY <2>2, <2>4, ConcatIsTyped
  <2> QED
    BY <2>5 DEF order, places, Jobs
<1>3. job' \in [Threads -> Jobs]
  BY <1>2 DEF Leaves, TypeOK, Jobs
<1>4. \A d \in Devs : contexts[d] # NoContext => contexts[d] \in Sources
  BY SomePaths DEF Contexts, Devs, Paths, Root
<1>5. source' \in [Devs -> Sources]
  BY <1>4 DEF Leaves, TypeOK
<1> QED
  BY <1>3, <1>5 DEF Leaves

\* A step of a clean-up: layers are only taken off, paths only removed, jobs only shortened,
\* but for a sweep, which puts the paths found into its thread's job.
LEMMA CleanStepIsTyped ==
    ASSUME TypeOK, NEW t \in Threads, CleanStep(t)
    PROVE  /\ layers' \in [Paths -> Seq(Runs)] /\ dirs' \subseteq Paths \cup {Parent}
           /\ job' \in [Threads -> Jobs] /\ step' \in [Threads -> {"umount", "detach", "rmdir"}]
           /\ faults' \subseteq Faults
<1>1. job \in [Threads -> Jobs] /\ step \in [Threads -> {"umount", "detach", "rmdir"}]
      /\ layers \in [Paths -> Seq(Runs)]
  BY DEF TypeOK, Jobs
<1>2. ASSUME job[t] # <<>> PROVE Tail(job[t]) \in Jobs
  BY <1>1, <1>2 DEF Jobs
<1>3. job[t] # <<>> /\ Through(t) => /\ job' \in [Threads -> Jobs]
                                     /\ step' \in [Threads -> {"umount", "detach", "rmdir"}]
  BY <1>1, <1>2 DEF Through
<1>4. \A where \in {"umount", "detach", "rmdir"} :
          Goes(t, where) => job' \in [Threads -> Jobs] /\ step' \in [Threads -> {"umount", "detach", "rmdir"}]
  BY <1>1 DEF Goes
<1>5. \A p \in Paths : layers[p] # <<>> /\ TakesOff(p) => layers' \in [Paths -> Seq(Runs)]
  BY <1>1, FrontOfSeq DEF TakesOff
<1>6. CASE Scans(t)
  <2>1. dirs \cap Devs \in SUBSET Paths
    BY SomePaths DEF Devs, Paths, Root
  <2>2. SetToSeq(dirs \cap Devs) \in Jobs /\ <<Parent, Root>> \in Jobs /\ <<Root>> \in Jobs
    BY <2>1, ScanIsOfPaths, SomePaths DEF Jobs, Paths, Root
  <2>3. Tail(job[t]) \in Jobs
    BY <1>2, <1>6 DEF Scans, Cleans
  <2> DEFINE found == SetToSeq(dirs \cap Devs)
             rest == Tail(job[t])
  <2>4. job' = [job EXCEPT ![t] = IF Parent \in dirs THEN found \o <<Parent, Root>> \o rest ELSE <<Root>> \o rest]
    BY <1>6 DEF Scans
  <2> HIDE DEF found, rest
  <2>5. found \o <<Parent, Root>> \o rest \in Jobs /\ <<Root>> \o rest \in Jobs
    BY <2>2, <2>3 DEF Jobs, found, rest
  <2>6. job' \in [Threads -> Jobs]
    BY <1>1, <2>4, <2>5
  <2> QED
    BY <1>6, <2>6 DEF Scans, files, TypeOK
<1>7. CASE RmdirsParent(t)
  BY <1>3, <1>7 DEF RmdirsParent, Cleans, TypeOK
<1>8. ASSUME NEW p \in Paths,
             UmountFindsNoPath(t, p) \/ UmountFindsNoMount(t, p) \/ Umounts(t, p) \/ UmountFails(t, p)
             \/ Detaches(t, p) \/ Rmdirs(t, p)
      PROVE  /\ layers' \in [Paths -> Seq(Runs)] /\ dirs' \subseteq Paths \cup {Parent}
             /\ job' \in [Threads -> Jobs] /\ step' \in [Threads -> {"umount", "detach", "rmdir"}]
             /\ faults' \subseteq Faults
  <2>1. CASE UmountFindsNoPath(t, p)
    BY <1>3, <2>1 DEF UmountFindsNoPath, Cleans, files, TypeOK
  <2>2. CASE UmountFindsNoMount(t, p)
    BY <1>4, <2>2 DEF UmountFindsNoMount, files, TypeOK
  <2>3. CASE Umounts(t, p)
    BY <1>4, <1>5, <2>3 DEF Umounts, TypeOK
  <2>4. CASE UmountFails(t, p)
    BY <1>4, <2>4 DEF UmountFails, Faults, files, TypeOK
  <2>5. CASE Detaches(t, p)
    BY <1>4, <1>5, <2>5 DEF Detaches, TypeOK
  <2>6. CASE Rmdirs(t, p)
    BY <1>3, <2>6 DEF Rmdirs, Cleans, TypeOK
  <2> QED
    BY <1>8, <2>1, <2>2, <2>3, <2>4, <2>5, <2>6
<1> QED
  BY <1>6, <1>7, <1>8 DEF CleanStep

LEMMA TypedBegins == Init => Typed
<1> SUFFICES ASSUME Init PROVE Typed
  OBVIOUS
<1>1. NoContexts \in Contexts
  BY DEF NoContexts, Contexts
<1>2. 1 \in Paths /\ MaxRuns \in Nat /\ MaxCrashes \in Nat
  BY SomePaths, BoundsAreNat DEF Paths, Root
<1> QED
  <2>1. layers \in [Paths -> Seq(Runs)] /\ job \in [Threads -> Seq(Paths \cup {Parent, Scan})]
    BY DEF Init
  <2>2. source \in [Devs -> Sources] /\ dropped \in Seq(Contexts)
        /\ step \in [Threads -> {"umount", "detach", "rmdir"}]
    BY DEF Init, Sources
  <2>3. run \in 0 .. MaxRuns /\ running \in 0 .. MaxRuns /\ crashes \in 0 .. MaxCrashes /\ stopped \in Nat
        /\ dirs \subseteq Paths \cup {Parent}
    BY <1>2 DEF Init
  <2> QED
    BY <1>1, <1>2, <2>1, <2>2, <2>3 DEF Init, Typed, TypeOK

\* Each action in turn.
LEMMA TypedStays == Typed /\ Next => Typed'
<1> SUFFICES ASSUME Typed, Next PROVE Typed'
  OBVIOUS
<1>1. /\ NoContexts \in Contexts /\ 1 \in Paths /\ MaxRuns \in Nat /\ MaxCrashes \in Nat
      /\ MaxAnyRuns \in 0 .. MaxRuns /\ D \in Nat
  BY SomePaths, BoundsAreNat DEF Paths, Root, NoContexts, Contexts
<1>2. careful' = careful
  BY DEF Next
<1>3. inside \in Contexts /\ source \in [Devs -> Sources] /\ run \in 0 .. MaxRuns /\ at \in Paths
      /\ "manager" \in Threads /\ "gc" \in Threads /\ "boot" \in Threads
  BY DEF Typed, TypeOK, Threads
<1>4. CASE Start
  <2>1. job' \in [Threads -> Jobs] /\ step' = step /\ source' \in [Devs -> Sources]
    BY <1>3, <1>4, LeavesIsTyped DEF Start, Typed
  <2>2. run < MaxRuns
    BY <1>1, <1>3, <1>4 DEF Start
  <2>3. pc' = "make" /\ at' = 1 /\ inside' = NoContexts /\ entry' = FALSE /\ run' = run + 1
    BY <1>4 DEF Start
  <2>4. run' \in 0 .. MaxRuns /\ run' # 0
    BY <1>1, <1>3, <2>2, <2>3
  <2>5. at' \in Paths /\ inside' \in Contexts /\ entry' \in BOOLEAN
    BY <1>1, <2>3
  <2>6. UNCHANGED <<layers, dirs, running, stopped, fd, attached, dropped, boot, faults, crashes>>
    BY <1>4 DEF Start, files
  <2> QED
    BY <1>2, <2>1, <2>3, <2>4, <2>5, <2>6 DEF Typed, TypeOK, Jobs
<1>5. CASE StartRefused
  <2>1. dropped' \in Seq(Contexts)
    BY <1>3, <1>5 DEF StartRefused, Typed, TypeOK
  <2> QED
    BY <1>1, <1>2, <1>5, <2>1 DEF StartRefused, Typed, TypeOK, files, thread, work
<1>6. CASE Makes \/ MakeFails \/ Clones \/ MapsRaise
  <2>1. CASE Makes
    BY <1>2, <2>1 DEF Makes, Typed, TypeOK, python, work
  <2>2. CASE MakeFails
    BY <1>2, <2>2 DEF MakeFails, Typed, TypeOK, python, work, files
  <2>3. CASE Clones
    BY <1>2, <2>3 DEF Clones, Typed, TypeOK, python, work, files
  <2>4. CASE MapsRaise
    BY <1>2, <2>4 DEF MapsRaise, Faults, Typed, TypeOK, python, work, files
  <2> QED
    BY <1>6, <2>1, <2>2, <2>3, <2>4
<1>7. CASE Attaches
  <2>1. run \in Runs
    BY <1>1, <1>3, <1>7 DEF Attaches, Typed, Runs
  <2>2. layers \in [Paths -> Seq(Runs)] /\ attached \in BOOLEAN
    BY DEF Typed, TypeOK
  <2>3. Append(layers[at], run) \in Seq(Runs)
    BY <1>3, <2>1, <2>2
  <2>4. layers' \in [Paths -> Seq(Runs)] /\ attached' \in BOOLEAN
    BY <1>7, <2>2, <2>3 DEF Attaches
  <2> QED
    BY <1>2, <1>7, <2>4 DEF Attaches, Typed, TypeOK, python, work
<1>8. CASE Closes
  <2>1. CASE attached
    <3>1. at # Root => at \in Devs /\ at + 1 \in Paths
      BY <1>1, <1>3 DEF Paths, Devs, Root
    <3>2. inside' \in Contexts
      BY <1>3, <1>8, <2>1, <3>1 DEF Closes, Contexts, Sources
    <3>3. source' \in [Devs -> Sources]
      BY <1>3, <1>8, <2>1 DEF Closes, Sources
    <3>4. at' \in Paths /\ pc' \in {"make", "create"} /\ UNCHANGED work
      BY <1>3, <1>8, <2>1, <3>1 DEF Closes
    <3> QED
      BY <1>2, <1>8, <3>2, <3>3, <3>4 DEF Closes, Typed, TypeOK, files, work
  <2>2. CASE ~attached
    <3>1. <<Scan>> \in Jobs /\ <<at>> \in Jobs
      BY <1>3 DEF Jobs
    <3>2. job' \in [Threads -> Jobs]
      <4>1. job \in [Threads -> Jobs]
        BY DEF Typed, TypeOK, Jobs
      <4> QED
        BY <1>8, <2>2, <3>1, <4>1 DEF Closes
    <3> QED
      BY <1>2, <1>8, <2>2, <3>2 DEF Closes, Typed, TypeOK, files, Jobs
  <2> QED
    BY <2>1, <2>2
<1>9. CASE Fails
  <2>1. CASE at = Root
    <3>1. dropped' \in Seq(Contexts)
      <4>1. dropped \in Seq(Contexts) /\ dropped' = Append(dropped, inside)
        BY <1>9, <2>1 DEF Fails, Typed, TypeOK
      <4> QED
        BY <1>3, <4>1
    <3> QED
      BY <1>1, <1>2, <1>9, <2>1, <3>1 DEF Fails, Typed, TypeOK, files, work
  <2>2. CASE at # Root
    <3>1. job' \in [Threads -> Jobs] /\ step' = step /\ source' \in [Devs -> Sources]
      BY <1>3, <1>9, <2>2, LeavesIsTyped DEF Fails, Typed
    <3> QED
      BY <1>1, <1>2, <1>9, <2>2, <3>1 DEF Fails, Typed, TypeOK, files, Jobs
  <2> QED
    BY <2>1, <2>2
<1>10. CASE Creates
  BY <1>2, <1>10 DEF Creates, Typed, TypeOK, files, work
<1>11. CASE CreateFails
  <2>1. job' \in [Threads -> Jobs] /\ step' = step /\ source' \in [Devs -> Sources]
    BY <1>3, <1>11, LeavesIsTyped DEF CreateFails, Typed
  <2> QED
    BY <1>1, <1>2, <1>11, <2>1 DEF CreateFails, Typed, TypeOK, files, Jobs
<1>12. CASE HandlesStop
  <2> DEFINE contexts == IF entry THEN inside ELSE NoContexts
  <2>1. contexts \in Contexts
    BY <1>1, <1>3
  <2> HIDE DEF contexts
  <2>2. Leaves("manager", contexts, <<Scan>>)
    BY <1>12 DEF HandlesStop, contexts
  <2>3. job' \in [Threads -> Jobs] /\ step' = step /\ source' \in [Devs -> Sources]
    BY <1>3, <2>1, <2>2, LeavesIsTyped DEF Typed
  <2>4. stopped' \in Nat
    BY <1>12 DEF HandlesStop, Typed, TypeOK
  <2>5. inside' \in Contexts /\ entry' \in BOOLEAN
        /\ UNCHANGED <<layers, dirs, running, pc, at, fd, attached, dropped, boot, run, faults, crashes>>
    BY <1>1, <1>12 DEF HandlesStop, files, thread
  <2> QED
    BY <1>2, <2>3, <2>4, <2>5 DEF Typed, TypeOK, Jobs
<1>13. CASE \E t \in Threads : CleanStep(t)
  <2>1. PICK t \in Threads : CleanStep(t)
    BY <1>13
  <2>2. /\ layers' \in [Paths -> Seq(Runs)] /\ dirs' \subseteq Paths \cup {Parent}
        /\ job' \in [Threads -> Jobs] /\ step' \in [Threads -> {"umount", "detach", "rmdir"}]
        /\ faults' \subseteq Faults
    BY <2>1, CleanStepIsTyped DEF Typed
  <2>3. UNCHANGED <<running, stopped, thread, python, boot, run, crashes>>
    BY <2>1 DEF CleanStep
  <2> QED
    BY <1>2, <2>2, <2>3 DEF Typed, TypeOK, thread, python, Jobs
<1>14. CASE Finalizes
  <2>1. Head(dropped) \in Contexts /\ dropped' \in Seq(Contexts)
    <3>1. dropped \in Seq(Contexts) /\ dropped # <<>> /\ dropped' = Tail(dropped)
      BY <1>14 DEF Finalizes, Typed, TypeOK
    <3> QED
      BY <3>1
  <2> DEFINE contexts == Head(dropped)
  <2> HIDE DEF contexts
  <2>2. contexts \in Contexts /\ Leaves("gc", contexts, <<>>)
    BY <1>14, <2>1 DEF Finalizes, contexts
  <2>3. job' \in [Threads -> Jobs] /\ step' = step /\ source' \in [Devs -> Sources]
    BY <1>3, <2>2, LeavesIsTyped DEF Typed
  <2> QED
    BY <1>2, <1>14, <2>1, <2>3 DEF Finalizes, Typed, TypeOK, files, thread, Jobs
<1>15. CASE BootStep
  <2>1. CASE BootLists
    BY <1>2, <2>1 DEF BootLists, Typed, TypeOK, files, thread, python, work
  <2>4. CASE BootAsks
    BY <1>2, <2>4 DEF BootAsks, Typed, TypeOK, files, thread, python, work
  <2>2. CASE BootScans
    <3>1. job' \in [Threads -> Jobs]
      <4>1. job \in [Threads -> Jobs] /\ <<Scan>> \in Jobs
        BY DEF Typed, TypeOK, Jobs
      <4> QED
        BY <2>2, <4>1 DEF BootScans
    <3> QED
      BY <1>2, <2>2, <3>1 DEF BootScans, Typed, TypeOK, files, thread, python, Jobs
  <2>3. CASE BootEnds
    BY <1>2, <2>3 DEF BootEnds, Typed, TypeOK, files, thread, python, work
  <2> QED
    BY <1>15, <2>1, <2>2, <2>3, <2>4 DEF BootStep
<1>16. CASE GuestStops
  BY <1>2, <1>16, <1>1 DEF GuestStops, Typed, TypeOK, files, thread, python, work
<1>17. CASE Crash
  <2>1. crashes' \in 0 .. MaxCrashes
    BY <1>1, <1>17 DEF Crash, Typed, TypeOK
  <2>2. job' \in [Threads -> Jobs] /\ source' \in [Devs -> Sources] /\ dropped' \in Seq(Contexts)
    BY <1>17 DEF Crash, Jobs, Sources
  <2> QED
    BY <1>1, <1>2, <1>17, <2>1, <2>2 DEF Crash, Typed, TypeOK, files, Jobs
<1> QED
  BY <1>4, <1>5, <1>6, <1>7, <1>8, <1>9, <1>10, <1>11, <1>12, <1>13, <1>14, <1>15, <1>16, <1>17
  DEF Next, ManagerStep

\* Every variable keeps its type, whatever is left, swept and finalized when: there are only
\* paths of the container among what the threads have to clean, and runs of it in the stacks.
THEOREM StagingIsTyped == Spec => []TypeOK
<1>1. Typed /\ UNCHANGED vars => Typed'
  BY DEF Typed, TypeOK, vars, files, thread, python, work
<1>2. Typed /\ [Next]_vars => Typed'
  BY <1>1, TypedStays
<1>3. Typed => TypeOK
  BY DEF Typed
<1> QED
  BY TypedBegins, <1>2, <1>3, PTL DEF Spec

-----------------------------------------------------------------------------
(* Starts at rest                                                          *)

\* Nothing is left of contexts of which none is entered.
LEMMA LeavingNothing == LeavingOrder(NoContexts) = <<>>
<1>1. Entered(NoContexts) = {}
  BY DEF Entered, NoContexts
<1>2. Cardinality({}) = 0
  BY FS_EmptySet
<1>3. [n \in 1 .. 0 |-> n] \in [1 .. 0 -> {}]
  OBVIOUS
<1>4. LeavingOrder(NoContexts) \in [1 .. 0 -> {}]
  <2> DEFINE Ordered(order) == \A m, n \in DOMAIN order : m < n => order[m] > order[n]
  <2>1. Ordered([n \in 1 .. 0 |-> n])
    OBVIOUS
  <2>2. (CHOOSE order \in [1 .. 0 -> {}] : Ordered(order)) \in [1 .. 0 -> {}]
    BY <1>3, <2>1, Zenon
  <2>3. LeavingOrder(NoContexts) = CHOOSE order \in [1 .. 0 -> {}] : Ordered(order)
    BY <1>1, <1>2, Zenon DEF LeavingOrder
  <2> QED
    BY <2>2, <2>3
<1> QED
  BY <1>4

\* The part of the type invariant that the argument needs.
Shape ==
    /\ layers \in [Paths -> Seq(Nat)]
    /\ pc \in {"idle", "make", "clone", "attach", "close", "failed", "create"}
    /\ at \in Paths
    /\ run \in Nat /\ running \in Nat /\ stopped \in Nat
    /\ boot \in {"list", "ask", "scan", "sweep", "up"}
    /\ job = [t \in Threads |-> job[t]]

OnTop(p, r) == layers[p] # <<>> /\ Last(layers[p]) = r

\* While a container runs nobody has anything to clean: no start is under way, no sweep, no
\* finalizer, no event waits.
RunsAlone ==
    running # 0 => /\ pc = "idle" /\ \A t \in Threads : Idle(t)
                   /\ dropped = <<>> /\ stopped = 0 /\ boot \in {"list", "ask", "up"}
                   /\ \A p \in Paths : OnTop(p, running)

\* A start has the paths to itself, and what it has staged so far is on top.
StagesAlone ==
    /\ pc # "idle" => /\ running = 0 /\ stopped = 0 /\ dropped = <<>> /\ boot = "up"
                      /\ ~entry /\ run # 0 /\ Idle("boot") /\ Idle("gc")
                      /\ pc # "failed" => Idle("manager")
    /\ pc \in {"make", "clone", "attach", "close"} => \A p \in 1 .. at - 1 : OnTop(p, run)
    /\ pc = "create" => \A p \in Paths : OnTop(p, run)
    /\ attached => pc = "close" /\ OnTop(at, run)

\* An entry is that of a container that runs, or whose stop is still to be handled; without
\* one no context is entered, and before its sweep is listed the sweep has nothing to clean.
EntriesAreFresh ==
    /\ entry => boot # "list" /\ (running # 0 \/ stopped # 0)
    /\ pc = "idle" /\ ~entry => inside = NoContexts
    /\ boot # "sweep" => Idle("boot")

AtRest == Shape /\ (careful => RunsAlone /\ StagesAlone /\ EntriesAreFresh)

LEMMA AppendedIsLast ==
    ASSUME NEW S, NEW s \in Seq(S), NEW e \in S
    PROVE  Append(s, e) \in Seq(S) /\ Append(s, e) # <<>> /\ Last(Append(s, e)) = e
BY DEF Last

LEMMA Begins == Init => AtRest
BY SomePaths DEF Init, AtRest, Shape, RunsAlone, StagesAlone, EntriesAreFresh, Idle, Threads, Paths, Root

\* Who cleans has something to clean, so nothing runs and at most a failed start is under way.
LEMMA CleanStepKeeps ==
    ASSUME AtRest, NEW t \in Threads, CleanStep(t), UNCHANGED careful
    PROVE  AtRest'
<1>1. job[t] # <<>>
  BY DEF CleanStep, Cleans, Scans, RmdirsParent, UmountFindsNoPath, UmountFindsNoMount, Umounts,
         UmountFails, Detaches, Rmdirs
<1>2. job' = [u \in Threads |-> job'[u]] /\ \A u \in Threads \ {t} : job'[u] = job[u]
  BY DEF CleanStep, Goes, Through, Scans, RmdirsParent, UmountFindsNoPath, UmountFindsNoMount,
         Umounts, UmountFails, Detaches, Rmdirs, AtRest, Shape
<1>3. layers' \in [Paths -> Seq(Nat)]
  BY FrontOfSeq DEF CleanStep, Scans, RmdirsParent, UmountFindsNoPath, UmountFindsNoMount, Umounts,
         UmountFails, Detaches, Rmdirs, TakesOff, files, AtRest, Shape
<1>4. Shape'
  BY <1>2, <1>3 DEF CleanStep, thread, AtRest, Shape
<1>5. ASSUME careful PROVE (RunsAlone /\ StagesAlone /\ EntriesAreFresh)'
  <2>1. running = 0 /\ pc \in {"idle", "failed"} /\ (pc = "failed" => t = "manager")
    BY <1>1, <1>5 DEF AtRest, Shape, RunsAlone, StagesAlone, Idle, Threads
  <2>2. t = "boot" => boot = "sweep"
    BY <1>1, <1>5 DEF AtRest, EntriesAreFresh, Idle
  <2>3. UNCHANGED <<running, stopped, thread, python, boot, run, careful>>
    BY DEF CleanStep
  <2> QED
    BY <1>2, <1>5, <2>1, <2>2, <2>3
    DEF AtRest, RunsAlone, StagesAlone, EntriesAreFresh, Idle, Threads, thread, python, NoContexts
<1> QED
  BY <1>4, <1>5 DEF AtRest, CleanStep

\* A start at rest finds no entry, hence nothing to leave.
LEMMA StartKeeps == AtRest /\ Start /\ UNCHANGED careful => AtRest'
<1> SUFFICES ASSUME AtRest, Start, UNCHANGED careful PROVE AtRest'
  OBVIOUS
<1>1. Shape'
  <2>1. job' = [t \in Threads |-> job'[t]]
    BY DEF Start, Leaves, AtRest, Shape
  <2>2. run' \in Nat /\ at' \in Paths /\ pc' = "make"
    BY SomePaths DEF Start, AtRest, Shape, Paths, Root
  <2> QED
    BY <2>1, <2>2 DEF Start, AtRest, Shape, files
<1>2. ASSUME careful PROVE (RunsAlone /\ StagesAlone /\ EntriesAreFresh)'
  <2>1. Rested /\ ~entry /\ inside = NoContexts /\ Free
    BY <1>2 DEF Start, Rested, Free, AtRest, EntriesAreFresh
  <2>2. job'["manager"] = <<>>
    BY <2>1, LeavingNothing DEF Start, Leaves, AtRest, Shape, Threads
  <2>3. \A t \in Threads \ {"manager"} : job'[t] = job[t]
    BY DEF Start, Leaves, AtRest, Shape, Threads
  <2>4. Idle("boot") /\ Idle("gc")
    BY <1>2, <2>1 DEF AtRest, EntriesAreFresh, Rested
  <2>5. \A t \in Threads : job'[t] = <<>>
    BY <2>2, <2>3, <2>4 DEF Idle, Threads
  <2>6. ~attached
    BY <1>2, <2>1 DEF AtRest, StagesAlone, Free
  <2>7. run' \in Nat /\ run' # 0
    BY DEF Start, AtRest, Shape
  <2> QED
    BY <2>1, <2>5, <2>6, <2>7, SomePaths
    DEF Start, Rested, RunsAlone, StagesAlone, EntriesAreFresh, Idle, Threads
<1> QED
  BY <1>1, <1>2 DEF AtRest

\* Each step of a staging puts its run on top of the next path, and no other one.
LEMMA ManagerStepKeeps == AtRest /\ ManagerStep /\ UNCHANGED careful => AtRest'
<1> SUFFICES ASSUME AtRest, ManagerStep, UNCHANGED careful PROVE AtRest'
  OBVIOUS
<1> USE DEF AtRest, RunsAlone, StagesAlone, EntriesAreFresh, Idle, Threads
<1>1. CASE Makes \/ MakeFails
  BY <1>1 DEF Makes, MakeFails, Shape, files, python, work, OnTop
<1>2. CASE Clones \/ MapsRaise
  BY <1>2 DEF Clones, MapsRaise, Shape, files, python, work, OnTop
<1>3. CASE Attaches
  <2> DEFINE grown == Append(layers[at], run)
  <2>a. grown \in Seq(Nat) /\ grown # <<>> /\ Last(grown) = run
    <3>1. layers[at] \in Seq(Nat) /\ run \in Nat
      BY DEF Shape
    <3> QED
      BY <3>1, AppendedIsLast
  <2>b. \/ layers' = [layers EXCEPT ![at] = grown] /\ attached'
        \/ UNCHANGED <<layers, attached>>
    BY <1>3 DEF Attaches
  <2> HIDE DEF grown
  <2>1. Shape'
    BY <1>3, <2>a, <2>b DEF Attaches, Shape, python, work
  <2>2. attached' => attached \/ OnTop(at, run)'
    BY <1>3, <2>a, <2>b DEF Attaches, Shape, OnTop
  <2>3. \A p \in Paths \ {at} : layers'[p] = layers[p]
    BY <1>3 DEF Attaches, Shape
  <2>4. \A p \in 1 .. at - 1 : p \in Paths \ {at}
    BY SomePaths DEF Shape, Paths, Root
  <2> QED
    BY <1>3, <2>1, <2>2, <2>3, <2>4 DEF Attaches, OnTop, python, work
<1>4. CASE Closes
  <2>1. Shape'
    BY <1>4, SomePaths DEF Closes, Shape, files, work, Paths, Root
  <2>2. CASE attached
    <3>1. careful => \A p \in 1 .. at : OnTop(p, run)
      BY <1>4, <2>2, SomePaths DEF Closes, Shape, Paths, Root
    <3> QED
      BY <1>4, <2>1, <2>2, <3>1, SomePaths DEF Closes, Shape, files, work, OnTop, Paths, Root
  <2>3. CASE ~attached
    BY <1>4, <2>1, <2>3 DEF Closes, Shape, files, OnTop
  <2> QED
    BY <2>2, <2>3
<1>5. CASE Fails
  <2>1. Shape'
    BY <1>5 DEF Fails, Leaves, Shape, files, work
  <2> QED
    BY <1>5, <2>1 DEF Fails, Leaves, Shape, files, work
<1>6. CASE Creates
  BY <1>6 DEF Creates, Shape, files, work, OnTop
<1>7. CASE CreateFails
  BY <1>7 DEF CreateFails, Leaves, Shape, files
<1>8. CASE HandlesStop
  <2>1. stopped' \in Nat /\ job' = [t \in Threads |-> job'[t]]
    <3>1. stopped' \in Nat
      BY <1>8 DEF HandlesStop, Shape
    <3>2. \E next : job' = [job EXCEPT !["manager"] = next]
      BY <1>8 DEF HandlesStop, Leaves
    <3> QED
      BY <3>1, <3>2 DEF Shape
  <2>2. Shape'
    BY <1>8, <2>1 DEF HandlesStop, Shape, files, thread
  <2>3. careful => running = 0
    BY <1>8 DEF HandlesStop, Shape
  <2>4. job'["boot"] = job["boot"]
    BY <1>8 DEF HandlesStop, Leaves, Shape
  <2>5. pc = "idle" /\ UNCHANGED <<running, pc, attached, dropped, boot>> /\ inside' = NoContexts /\ ~entry'
    BY <1>8 DEF HandlesStop, Free, thread
  <2> QED
    BY <2>2, <2>3, <2>4, <2>5 DEF NoContexts
<1> QED
  BY <1>1, <1>2, <1>3, <1>4, <1>5, <1>6, <1>7, <1>8 DEF ManagerStep

\* The finalizer, the sweep, a stop and a crash.
LEMMA OthersKeep ==
    AtRest /\ (StartRefused \/ Finalizes \/ BootStep \/ GuestStops \/ Crash) /\ UNCHANGED careful => AtRest'
<1> SUFFICES ASSUME AtRest, StartRefused \/ Finalizes \/ BootStep \/ GuestStops \/ Crash, UNCHANGED careful
             PROVE  AtRest'
  OBVIOUS
<1> USE DEF AtRest, RunsAlone, StagesAlone, EntriesAreFresh, Idle, Threads
<1>1. CASE StartRefused
  BY <1>1 DEF StartRefused, Shape, files, thread, work
<1>2. CASE Finalizes
  BY <1>2 DEF Finalizes, Leaves, Shape, files, thread
<1>3. CASE BootStep
  <2>1. CASE BootLists \/ BootAsks
    BY <2>1 DEF BootLists, BootAsks, Shape, files, thread, python, work, OnTop
  <2>2. CASE BootScans
    BY <2>2 DEF BootScans, Shape, files, thread, python, OnTop
  <2>3. CASE BootEnds
    BY <2>3 DEF BootEnds, Shape, files, thread, python, work, OnTop
  <2> QED
    BY <1>3, <2>1, <2>2, <2>3 DEF BootStep
<1>4. CASE GuestStops
  BY <1>4 DEF GuestStops, Shape, files, thread, python, work
<1>5. CASE Crash
  BY <1>5, SomePaths DEF Crash, Shape, files, Paths, Root, OnTop
<1> QED
  BY <1>1, <1>2, <1>3, <1>4, <1>5

THEOREM RestKeepsApart == Spec => []AtRest
<1>1. AtRest /\ [Next]_vars => AtRest'
  <2>1. ASSUME AtRest, UNCHANGED vars PROVE AtRest'
    BY <2>1 DEF vars, files, thread, python, work, AtRest, Shape, RunsAlone, StagesAlone,
                EntriesAreFresh, Idle, OnTop
  <2> QED
    BY <2>1, CleanStepKeeps, StartKeeps, ManagerStepKeeps, OthersKeep DEF Next
<1> QED
  BY <1>1, Begins, PTL DEF Spec

\* A container that is only started at rest keeps, on top of each of its paths, what its own
\* run mounted there: for any number of devices, starts, crashes and failed umounts
\* (device/filesystem.py:79-131, domain/container/domain.py, runtime.py:57-131).
THEOREM StandsOnItsOwn == Spec => []RunsOnItsOwn
<1>1. AtRest => RunsOnItsOwn
  BY DEF AtRest, RunsAlone, RunsOnItsOwn, OnTop
<1> QED
  BY <1>1, RestKeepsApart, PTL

-----------------------------------------------------------------------------
(* The sources of the devices                                              *)

\* The contexts entered are those of the devices before the one at hand, and each device that
\* has one is redirected.  A dropped start is alone, and has the contexts of all the devices.
Redirected(d) == source[d] = "staged" /\ inside[d] = "user"
AsItWas(d) == source[d] = "user" /\ inside[d] = NoContext

Devices ==
    /\ source = [d \in Devs |-> source[d]] /\ inside = [p \in Paths |-> inside[p]]
    /\ careful =>
         /\ pc \in {"make", "clone", "attach", "close", "failed"} =>
               \A d \in Devs : IF d < at THEN Redirected(d) ELSE AsItWas(d)
         /\ pc = "create" => \A d \in Devs : Redirected(d)
         /\ pc = "idle" /\ entry => dropped = <<>> /\ \A d \in Devs : inside[d] = "user"
         /\ pc = "idle" /\ ~entry /\ dropped = <<>> => \A d \in Devs : source[d] = "user"
         /\ dropped # <<>> => \E contexts : /\ dropped = <<contexts>>
                                            /\ \A d \in Devs : contexts[d] = "user"

\* Leaving contexts gives each device that is in one its source back.
LEMMA LeavingRestores ==
    ASSUME NEW t, NEW contexts, NEW then, Leaves(t, contexts, then),
           \A d \in Devs : contexts[d] = "user" \/ (contexts[d] = NoContext /\ source[d] = "user")
    PROVE  source' = [d \in Devs |-> source'[d]] /\ \A d \in Devs : source'[d] = "user"
BY DEF Leaves, NoContext

LEMMA DevicesBegin == Init => Devices
BY SomePaths DEF Init, Devices, NoContexts, AsItWas

LEMMA DevicesKept == AtRest /\ Devices /\ Next => Devices'
<1> SUFFICES ASSUME AtRest, Devices, Next PROVE Devices'
  OBVIOUS
<1>1. ASSUME NEW t \in Threads, CleanStep(t) PROVE Devices'
  BY <1>1 DEF CleanStep, Devices, Redirected, AsItWas, thread, python, Next
<1>2. CASE StartRefused
  BY <1>2 DEF StartRefused, Devices, Redirected, AsItWas, NoContexts, thread, Next
<1>3. CASE Makes \/ MakeFails \/ Clones \/ MapsRaise \/ Attaches
  <2>1. UNCHANGED <<source, inside, entry, dropped, careful, at>>
    BY <1>3 DEF Makes, MakeFails, Clones, MapsRaise, Attaches, python, Next
  <2>2. pc \in {"make", "clone", "attach"} /\ pc' \in {"clone", "failed", "attach", "close"}
    BY <1>3 DEF Makes, MakeFails, Clones, MapsRaise, Attaches
  <2> QED
    BY <2>1, <2>2 DEF Devices, Redirected, AsItWas
<1>4. CASE BootStep \/ GuestStops
  <2>1. UNCHANGED <<pc, at, source, inside, entry, dropped, careful>>
    BY <1>4 DEF BootStep, BootLists, BootAsks, BootScans, BootEnds, GuestStops, thread, python, Next
  <2> QED
    BY <2>1 DEF Devices, Redirected, AsItWas
<1>5. CASE Start
  <2>1. careful => pc = "idle" /\ ~entry /\ dropped = <<>> /\ inside = NoContexts
    BY <1>5 DEF Start, Free, Rested, AtRest, EntriesAreFresh
  <2>2. careful => \A d \in Devs : source'[d] = "user" /\ inside'[d] = NoContext
    BY <1>5, <2>1, SomePaths DEF Start, Leaves, Devices, NoContexts, Devs, Paths, Root
  <2>3. source' = [d \in Devs |-> source'[d]]
    BY <1>5 DEF Start, Leaves
  <2> QED
    BY <1>5, <2>1, <2>2, <2>3 DEF Start, Devices, NoContexts, AsItWas, Devs, Next
<1>6. CASE Closes
  <2>1. CASE attached
    <3>1. at \in Paths /\ pc = "close"
      BY <1>6 DEF Closes, AtRest, Shape
    <3>2. ASSUME careful, NEW d \in Devs
          PROVE  IF d < at + 1 THEN Redirected(d)' ELSE AsItWas(d)'
      <4>1. at \in Int /\ d \in Int /\ d # Root /\ d \in Paths
        BY <3>1, SomePaths DEF Devs, Paths, Root
      <4>2. IF d < at THEN Redirected(d) ELSE AsItWas(d)
        BY <3>1, <3>2 DEF Devices
      <4>3. d # at => source'[d] = source[d] /\ inside'[d] = inside[d]
        BY <1>6, <2>1, <4>1 DEF Closes, Devices
      <4>4. d = at => source'[d] = "staged" /\ inside'[d] = source[d]
        BY <1>6, <2>1, <4>1 DEF Closes, Devices
      <4> QED
        BY <4>1, <4>2, <4>3, <4>4 DEF Redirected, AsItWas
    <3>3. source' = [d \in Devs |-> source'[d]] /\ inside' = [p \in Paths |-> inside'[p]]
      BY <1>6, <2>1 DEF Closes, Devices
    <3>4. dropped' = dropped /\ careful' = careful /\ (careful => dropped = <<>>)
      BY <1>6, <3>1 DEF Closes, Next, AtRest, StagesAlone
    <3>5. CASE at = Root
      <4>1. \A d \in Devs : d < at + 1
        BY <3>5, SomePaths DEF Devs, Root
      <4> QED
        BY <1>6, <2>1, <3>2, <3>3, <3>4, <3>5, <4>1 DEF Closes, Devices
    <3>6. CASE at # Root
      BY <1>6, <2>1, <3>2, <3>3, <3>4, <3>6 DEF Closes, Devices
    <3> QED
      BY <3>5, <3>6
  <2>2. CASE ~attached
    BY <1>6, <2>2 DEF Closes, Devices, Redirected, AsItWas, Next
  <2> QED
    BY <2>1, <2>2
<1>7. CASE Fails
  <2>1. CASE at = Root
    <3>1. careful => \A d \in Devs : inside[d] = "user"
      <4>1. \A d \in Devs : d < at
        BY <2>1, SomePaths DEF Devs, Root
      <4>2. pc = "failed"
        BY <1>7 DEF Fails
      <4> QED
        BY <4>1, <4>2 DEF Devices, Redirected
    <3>2. careful => dropped' = <<inside>>
      BY <1>7, <2>1 DEF Fails, AtRest, StagesAlone
    <3>3. /\ UNCHANGED <<source, careful, entry>> /\ pc' = "idle" /\ inside' = NoContexts
          /\ careful => ~entry
      BY <1>7, <2>1 DEF Fails, Next, AtRest, StagesAlone
    <3>4. careful => dropped' # <<>>
      BY <3>2
    <3> QED
      BY <3>1, <3>2, <3>3, <3>4 DEF Devices, NoContexts
  <2>2. CASE at # Root
    <3>1. Leaves("manager", inside, <<>>)
      BY <1>7, <2>2 DEF Fails
    <3>2. source' = [d \in Devs |-> source'[d]]
      BY <3>1 DEF Leaves
    <3>3. careful => \A d \in Devs : source'[d] = "user"
      BY <1>7, <3>1, LeavingRestores DEF Fails, Devices, Redirected, AsItWas
    <3> QED
      BY <1>7, <2>2, <3>2, <3>3 DEF Fails, Devices, NoContexts, AtRest, StagesAlone, Next
  <2> QED
    BY <2>1, <2>2
<1>8. CASE Creates
  BY <1>8 DEF Creates, Devices, Redirected, AtRest, StagesAlone, Next
<1>9. CASE CreateFails
  <2>1. Leaves("manager", inside, <<>>)
    BY <1>9 DEF CreateFails
  <2>2. careful => \A d \in Devs : source'[d] = "user"
    BY <1>9, <2>1, LeavingRestores DEF CreateFails, Devices, Redirected
  <2>3. source' = [d \in Devs |-> source'[d]]
    BY <2>1 DEF Leaves
  <2> QED
    BY <1>9, <2>2, <2>3 DEF CreateFails, Devices, NoContexts, AtRest, StagesAlone, Next
<1>10. CASE HandlesStop
  <2> DEFINE left == IF entry THEN inside ELSE NoContexts
  <2>1. Leaves("manager", left, <<Scan>>) /\ pc = "idle" /\ pc' = pc
    BY <1>10 DEF HandlesStop, Free, thread
  <2>2. careful /\ dropped = <<>> => \A d \in Devs : left[d] = "user" \/ (left[d] = NoContext /\ source[d] = "user")
    <3>1. \A d \in Devs : NoContexts[d] = NoContext
      BY SomePaths DEF NoContexts, Devs, Paths, Root
    <3>2. CASE entry
      BY <2>1, <3>2 DEF Devices
    <3>3. CASE ~entry
      BY <2>1, <3>1, <3>3 DEF Devices
    <3> QED
      BY <3>2, <3>3
  <2>3. careful /\ dropped = <<>> => \A d \in Devs : source'[d] = "user"
    BY <2>1, <2>2, LeavingRestores
  <2>4. source' = [d \in Devs |-> source'[d]]
    BY <2>1 DEF Leaves
  <2> QED
    BY <1>10, <2>1, <2>3, <2>4 DEF HandlesStop, Devices, NoContexts, Next
<1>11. CASE Finalizes
  <2>1. Leaves("gc", Head(dropped), <<>>)
    BY <1>11 DEF Finalizes
  <2>2. source' = [d \in Devs |-> source'[d]]
    BY <2>1 DEF Leaves
  <2>3. careful => pc = "idle" /\ dropped' = <<>> /\ ~entry /\ \A d \in Devs : Head(dropped)[d] = "user"
    <3> SUFFICES ASSUME careful
                 PROVE  pc = "idle" /\ dropped' = <<>> /\ ~entry /\ \A d \in Devs : Head(dropped)[d] = "user"
      OBVIOUS
    <3>1. dropped # <<>> /\ dropped' = Tail(dropped)
      BY <1>11 DEF Finalizes
    <3>2. pc = "idle" /\ ~entry
      BY <3>1 DEF Devices, AtRest, StagesAlone
    <3>3. PICK contexts : dropped = <<contexts>> /\ \A d \in Devs : contexts[d] = "user"
      BY <3>1 DEF Devices
    <3>4. Head(dropped) = contexts /\ Tail(dropped) = <<>>
      BY <3>3
    <3> QED
      BY <3>1, <3>2, <3>3, <3>4
  <2>4. careful => \A d \in Devs : source'[d] = "user"
    BY <2>1, <2>3, LeavingRestores
  <2> QED
    BY <1>11, <2>2, <2>3, <2>4 DEF Finalizes, Devices, thread, Next
<1>12. CASE Crash
  BY <1>12, SomePaths DEF Crash, Devices, NoContexts, Next
<1> QED
  BY <1>1, <1>2, <1>5, <1>6, <1>7, <1>8, <1>9, <1>10, <1>11, <1>3, <1>4, <1>12 DEF Next, ManagerStep

\* With starts at rest, what libvirt is told to mount is the staged clone of every device, and
\* once nothing of a start is left its device objects are as they were, for any number of
\* devices, starts that fail anywhere, and crashes (device/filesystem.py:114-124).
THEOREM SourcesAreGivenBack == Spec => []SourcesFollowStaging
<1>1. Devices /\ [Next]_vars /\ AtRest => Devices'
  <2>1. ASSUME Devices, UNCHANGED vars PROVE Devices'
    BY <2>1 DEF vars, thread, python, Devices, Redirected, AsItWas
  <2> QED
    BY <2>1, DevicesKept
<1>2. Devices => SourcesFollowStaging
  BY DEF Devices, Redirected, SourcesFollowStaging, Free
<1> QED
  BY <1>1, <1>2, DevicesBegin, RestKeepsApart, PTL DEF Spec

=============================================================================
