-------------------------- MODULE ConnectionProofs --------------------------
(***************************************************************************)
(* For any number of threads, connections and deaths: the connection in    *)
(* use listens, what a use returns works, and a stop is handled once       *)
(* unless two threads opened a connection at once (Connection).            *)
(***************************************************************************)
EXTENDS Connection, SequenceTheorems, TLAPS

-----------------------------------------------------------------------------
(* Types                                                                   *)

\* Type correctness in two parts: the flags, and what is counted.
Flags ==
    /\ calm \in BOOLEAN /\ raced \in BOOLEAN
    /\ (event = 0) = (pc[EventLoop] = "idle")
Counts ==
    /\ current \in 0..opened /\ opened \in 0..MaxOpens
    /\ alive \subseteq 1..opened /\ registered \subseteq 1..opened
    /\ queue \in [Conns -> Seq(Stops)]
    /\ pc \in [Threads -> {"idle", "check", "list", "open", "register", "assign", "return", "lookup"}]
    /\ mine \in [Threads -> 0..opened]
    /\ event \in 0..MaxStops
    /\ handled \in [Stops -> Nat]
    /\ heard \subseteq 1..stops
    /\ stops \in 0..MaxStops /\ deaths \in 0..MaxDeaths

LEMMA TwoParts == (Flags /\ Counts => TypeOK) /\ (TypeOK => Flags /\ Counts)
  BY DEF Flags, Counts, TypeOK

LEMMA TypeInit == Init => TypeOK
  <1> SUFFICES ASSUME Init PROVE TypeOK
    OBVIOUS
  <1>1. Flags
    BY DEF Init, Flags, Threads
  <1>2. queue \in [Conns -> Seq(Stops)]
    BY DEF Init
  <1>3. Counts
    BY <1>2, BoundsNat DEF BoundsNat, Init, Counts
  <1> QED
    BY <1>1, <1>3, TwoParts

\* A thread that is somewhere else in the property.
LEMMA UseTypes == ASSUME TypeOK, NEW t \in Threads, Uses(t) \/ UseStep(t) PROVE TypeOK'
  <1> USE LoopIsNoCaller, BoundsNat DEF BoundsNat, LoopIsNoCaller, TypeOK, Goto, Threads, Conns
  <1>1. CASE Uses(t)
    BY <1>1 DEF Uses, BeginsUse
  <1>2. CASE Checks(t)
    BY <1>2 DEF Checks, BeginsOpen
  <1>3. CASE Lists(t)
    BY <1>3 DEF Lists
  <1>4. CASE Opens(t)
    BY <1>4 DEF Opens
  <1>5. CASE Raises(t)
    BY <1>5 DEF Raises, EndsUse
  <1>6. CASE Registers(t)
    BY <1>6 DEF Registers
  <1>7. CASE Assigns(t)
    BY <1>7 DEF Assigns
  <1>8. CASE Returns(t)
    BY <1>8 DEF Returns
  <1> QED
    BY <1>1, <1>2, <1>3, <1>4, <1>5, <1>6, <1>7, <1>8 DEF UseStep

\* The event loop and libvirt.
LEMMA OtherTypes == ASSUME TypeOK, LoopStep \/ DomainStops \/ \E c \in Conns : Dies(c) PROVE TypeOK'
  <1>0. Flags /\ Counts
    BY TwoParts
  <1> SUFFICES Flags' /\ Counts'
    BY TwoParts, PTL
  <1> USE <1>0, LoopIsNoCaller DEF LoopIsNoCaller, Goto, Threads
  <1>1. CASE LookUp
    <2>1. Flags'
      BY <1>1 DEF LookUp, EndsUse, Flags, Counts
    <2>2. event \in Stops
      BY <1>1, BoundsNat DEF BoundsNat, LookUp, Flags, Counts, Stops
    <2>3. handled' \in [Stops -> Nat]
      BY <1>1, <2>2 DEF LookUp, Counts
    <2>4. event' \in 0..MaxStops
      BY <1>1, BoundsNat DEF BoundsNat, LookUp, EndsUse, Counts
    <2>5. Counts'
      BY <1>1, <2>3, <2>4 DEF LookUp, EndsUse, Counts
    <2> QED
      BY <2>1, <2>5
  <1>2. ASSUME NEW c \in Conns, Dispatches(c) PROVE Flags' /\ Counts'
    <2>1. queue[c] \in Seq(Stops) /\ queue[c] # <<>>
      BY <1>2 DEF Dispatches, Counts
    <2>2. Head(queue[c]) \in Stops /\ Tail(queue[c]) \in Seq(Stops)
      BY <2>1, HeadTailProperties
    <2>3. event' \in Stops /\ event' # 0 /\ event' \in 0..MaxStops /\ pc'[EventLoop] = "check"
      BY <1>2, <2>2, BoundsNat DEF BoundsNat, Dispatches, Counts, Stops
    <2>4. calm' \in BOOLEAN /\ raced' = raced
      BY <1>2 DEF Dispatches, BeginsUse, Flags
    <2>5. Flags'
      BY <2>3, <2>4 DEF Flags
    <2>6. queue' \in [Conns -> Seq(Stops)]
      BY <1>2, <2>2 DEF Dispatches, Counts
    <2>7. Counts'
      BY <1>2, <2>3, <2>6 DEF Dispatches, Counts
    <2> QED
      BY <2>5, <2>7
  <1>3. CASE DomainStops
    <2>1. stops' \in Stops /\ stops' \in 0..MaxStops
      BY <1>3, BoundsNat DEF BoundsNat, DomainStops, Counts, Stops
    <2>2. \A c \in Conns : queue[c] \in Seq(Stops) /\ Append(queue[c], stops') \in Seq(Stops)
      BY <2>1, AppendProperties DEF Counts
    <2>3. queue' \in [Conns -> Seq(Stops)]
      BY <1>3, <2>2 DEF DomainStops
    <2>4. Flags'
      BY <1>3 DEF DomainStops, Flags
    <2>5. heard' \subseteq 1..stops'
      BY <1>3 DEF DomainStops, Counts
    <2>6. Counts'
      BY <1>3, <2>1, <2>3, <2>5 DEF DomainStops, Counts
    <2> QED
      BY <2>4, <2>6
  <1>4. ASSUME NEW c \in Conns, Dies(c) PROVE Flags' /\ Counts'
    <2>1. <<>> \in Seq(Stops)
      BY EmptySeq
    <2>2. [queue EXCEPT ![c] = <<>>] \in [Conns -> Seq(Stops)]
      BY <2>1 DEF Counts
    <2>3. queue' \in [Conns -> Seq(Stops)]
      BY <1>4, <2>2 DEF Dies, Counts
    <2>4. Flags'
      BY <1>4 DEF Dies, Flags
    <2>5. deaths' \in 0..MaxDeaths
      BY <1>4, BoundsNat DEF BoundsNat, Dies, Counts
    <2>6. Counts'
      BY <1>4, <2>3, <2>5 DEF Dies, Counts
    <2> QED
      BY <2>4, <2>6
  <1> QED
    BY <1>1, <1>2, <1>3, <1>4 DEF LoopStep

\* Type correctness; with it, the event loop has an event in hand exactly while it handles one.
THEOREM Typing == Spec => []TypeOK
  <1>1. TypeOK /\ [Next]_vars => TypeOK'
    <2>1. ASSUME TypeOK, UNCHANGED vars PROVE TypeOK'
      BY <2>1 DEF TypeOK, vars
    <2> QED
      BY <2>1, UseTypes, OtherTypes DEF Next
  <1> QED
    BY <1>1, TypeInit, PTL DEF Spec

-----------------------------------------------------------------------------
(* The connection in use listens                                           *)

\* What makes ListensBeforeUse inductive: a thread that is about to publish a
\* connection has registered the callback on it, and nothing takes that away.
ListenInv ==
    /\ \A t \in Threads : pc[t] = "assign" => mine[t] \in registered
    /\ ListensBeforeUse

\* Every step of a user, of the event loop and of libvirt keeps it.
LEMMA ListenNext == TypeOK /\ ListenInv /\ [Next]_vars => ListenInv'
  <1> SUFFICES ASSUME TypeOK, ListenInv, [Next]_vars PROVE ListenInv'
    OBVIOUS
  <1>0. /\ current \in Nat /\ opened \in Nat
        /\ pc \in [Threads -> {"idle", "check", "list", "open", "register", "assign", "return", "lookup"}]
        /\ mine \in [Threads -> Nat]
    BY BoundsNat DEF BoundsNat, LoopIsNoCaller, TypeOK
  <1> USE <1>0 DEF ListenInv, ListensBeforeUse, Goto
  <1>1. ASSUME NEW t \in Threads, Uses(t) PROVE ListenInv'
    BY <1>1 DEF Uses
  <1>2. ASSUME NEW t \in Threads, Checks(t) PROVE ListenInv'
    BY <1>2 DEF Checks, BeginsOpen
  <1>3. ASSUME NEW t \in Threads, Lists(t) PROVE ListenInv'
    BY <1>3 DEF Lists
  <1>4. ASSUME NEW t \in Threads, Opens(t) PROVE ListenInv'
    BY <1>4 DEF Opens
  <1>5. ASSUME NEW t \in Threads, Raises(t) PROVE ListenInv'
    BY <1>5 DEF Raises, EndsUse
  <1>6. ASSUME NEW t \in Threads, Registers(t) PROVE ListenInv'
    BY <1>6 DEF Registers
  <1>7. ASSUME NEW t \in Threads, Assigns(t) PROVE ListenInv'
    BY <1>7 DEF Assigns
  <1>8. ASSUME NEW t \in Threads, Returns(t) PROVE ListenInv'
    BY <1>8 DEF Returns
  <1>9. ASSUME NEW c \in Conns, Dispatches(c) PROVE ListenInv'
    BY <1>9 DEF Dispatches, Threads
  <1>10. CASE LookUp
    BY <1>10 DEF LookUp, EndsUse, Threads
  <1>11. CASE DomainStops
    BY <1>11 DEF DomainStops
  <1>12. ASSUME NEW c \in Conns, Dies(c) PROVE ListenInv'
    BY <1>12 DEF Dies
  <1>13. CASE UNCHANGED vars
    BY <1>13 DEF vars
  <1> QED
    BY <1>1, <1>2, <1>3, <1>4, <1>5, <1>6, <1>7, <1>8, <1>9, <1>10, <1>11, <1>12, <1>13
       DEF Next, UseStep, LoopStep

\* The connection in use listens (Connection.connection and _open), for every number
\* of threads that open and publish connections at once.
THEOREM Listens == Spec => []ListensBeforeUse
  <1>1. ListenInv => ListensBeforeUse
    BY DEF ListenInv
  <1>2. Init => ListenInv
    BY DEF Init, ListenInv, ListensBeforeUse
  <1> QED
    BY <1>1, <1>2, ListenNext, Typing, PTL DEF Spec

-----------------------------------------------------------------------------
(* What a use returns works                                                *)

Places == {"idle", "check", "list", "open", "register", "assign", "return", "lookup"}

\* The part of the types that the steps of the threads need.
Typed ==
    /\ opened \in Nat /\ current \in 0..opened
    /\ alive \subseteq 1..opened
    /\ pc \in [Threads -> Places]
    /\ mine \in [Threads -> Nat]

LEMMA TypesHold == TypeOK => Typed
  BY BoundsNat DEF BoundsNat, TypeOK, Typed, Places

\* Since the threads were all idle no connection died, so what was found to work still does,
\* and so does what was opened: publishing it does not undo another thread's check.
CalmInv ==
    calm => \A t \in Threads :
        /\ pc[t] = "return" => current \in alive
        /\ pc[t] \in {"register", "assign"} => mine[t] \in alive

LEMMA CalmNext == Typed /\ CalmInv /\ [Next]_vars => CalmInv'
  <1> SUFFICES ASSUME Typed, CalmInv, [Next]_vars PROVE CalmInv'
    OBVIOUS
  <1> USE DEF Typed, Places, CalmInv, Goto
  <1>1. ASSUME NEW t \in Threads, Uses(t) PROVE CalmInv'
    BY <1>1 DEF Uses, BeginsUse, AllIdle
  <1>2. ASSUME NEW t \in Threads, Checks(t) PROVE CalmInv'
    BY <1>2 DEF Checks, BeginsOpen
  <1>3. ASSUME NEW t \in Threads, Lists(t) PROVE CalmInv'
    BY <1>3 DEF Lists
  <1>4. ASSUME NEW t \in Threads, Opens(t) PROVE CalmInv'
    BY <1>4 DEF Opens
  <1>5. ASSUME NEW t \in Threads, Raises(t) PROVE CalmInv'
    BY <1>5 DEF Raises, EndsUse
  <1>6. ASSUME NEW t \in Threads, Registers(t) PROVE CalmInv'
    BY <1>6 DEF Registers
  <1>7. ASSUME NEW t \in Threads, Assigns(t) PROVE CalmInv'
    BY <1>7 DEF Assigns
  <1>8. ASSUME NEW t \in Threads, Returns(t) PROVE CalmInv'
    BY <1>8 DEF Returns
  <1>9. ASSUME NEW c \in Conns, Dispatches(c) PROVE CalmInv'
    BY <1>9 DEF Dispatches, BeginsUse, AllIdle, Threads
  <1>10. CASE LookUp
    BY <1>10 DEF LookUp, EndsUse, Threads
  <1>11. CASE DomainStops
    BY <1>11 DEF DomainStops
  <1>12. ASSUME NEW c \in Conns, Dies(c) PROVE CalmInv'
    BY <1>12 DEF Dies
  <1>13. CASE UNCHANGED vars
    BY <1>13 DEF vars
  <1> QED
    BY <1>1, <1>2, <1>3, <1>4, <1>5, <1>6, <1>7, <1>8, <1>9, <1>10, <1>11, <1>12, <1>13
       DEF Next, UseStep, LoopStep

Returned == \A t \in Threads : pc[t] = "return" /\ pc'[t] # "return" /\ calm => mine'[t] \in alive

\* Only the thread itself leaves "return", with what the attribute is then.
LEMMA LeavesReturn == Typed /\ CalmInv /\ [Next]_vars => Returned
  <1> SUFFICES ASSUME Typed, CalmInv, [Next]_vars,
                      NEW t \in Threads, pc[t] = "return", pc'[t] # "return", calm
               PROVE  mine'[t] \in alive
    BY DEF Returned
  <1> USE DEF Typed, Places, CalmInv, Goto
  <1>1. ASSUME NEW u \in Threads, UseStep(u), ~Returns(u) PROVE FALSE
    BY <1>1 DEF UseStep, Checks, BeginsOpen, Lists, Opens, Raises, EndsUse, Registers, Assigns
  <1>2. ASSUME NEW u \in Threads, Returns(u) PROVE mine'[t] \in alive
    BY <1>2 DEF Returns
  <1>3. ASSUME NEW u \in Threads, Uses(u) PROVE FALSE
    BY <1>3 DEF Uses
  <1>4. CASE LoopStep
    BY <1>4 DEF LoopStep, LookUp, EndsUse, Dispatches, Threads
  <1>5. CASE DomainStops \/ (\E c \in Conns : Dies(c)) \/ UNCHANGED vars
    BY <1>5 DEF DomainStops, Dies, vars
  <1> QED
    BY <1>1, <1>2, <1>3, <1>4, <1>5 DEF Next

\* What Connection.connection returns works, however many threads open and publish at once,
\* unless a connection died since all of them were idle (libvirtd/connection.py:73-86).
THEOREM WorksWhenReturned == Spec => ReturnsWorking
  <1>1. Init => CalmInv
    BY DEF Init, CalmInv
  <1>2. Typed /\ CalmInv /\ [Next]_vars => [Returned]_vars
    BY LeavesReturn
  <1> QED
    BY <1>1, <1>2, CalmNext, TypesHold, Typing, PTL DEF Spec, ReturnsWorking, Returned

-----------------------------------------------------------------------------
(* A stop is handled once                                                  *)

\* Unless two threads raced, one at most is opening, it began when the connection in use was
\* dead, and what works is the connection in use or the one it has just opened.
Holds(t, c) == pc[t] \in {"register", "assign"} /\ mine[t] = c
OneOpens ==
    /\ \A t, u \in Threads : Opening(t) /\ Opening(u) => t = u
    /\ \A t \in Threads : Opening(t) => current \notin alive
    /\ \A c \in alive : c = current \/ \E t \in Threads : Holds(t, c)
OpenInv == ~raced => OneOpens

LEMMA OneWorks == OneOpens => \A c, d \in alive : c = d
  BY DEF OneOpens, Holds, Opening

LEMMA OpenNext == Typed /\ OpenInv /\ [Next]_vars => OpenInv'
  <1> SUFFICES ASSUME Typed, OpenInv, [Next]_vars, ~raced' PROVE OneOpens'
    BY DEF OpenInv
  <1> USE DEF Typed, Places, Goto, Opening, Holds
  <1>0. ~raced
    BY DEF Next, UseStep, LoopStep, Uses, Checks, BeginsOpen, Lists, Opens, Raises, Registers,
           Assigns, Returns, LookUp, Dispatches, DomainStops, Dies, vars
  <1> USE <1>0 DEF OpenInv, OneOpens
  <1>1. ASSUME NEW t \in Threads, Uses(t) PROVE OneOpens'
    BY <1>1 DEF Uses
  <1>2. ASSUME NEW t \in Threads, Checks(t) PROVE OneOpens'
    <2>1. CASE current # 0 /\ pc' = [pc EXCEPT ![t] = "list"]
      BY <1>2, <2>1 DEF Checks
    <2>2. CASE current \notin alive /\ BeginsOpen(t)
      <3>1. \A u \in Threads \ {t} : ~Opening(u)
        BY <2>2 DEF BeginsOpen
      <3> QED
        BY <1>2, <2>2, <3>1 DEF Checks, BeginsOpen
    <2> QED
      BY <1>2, <2>1, <2>2 DEF Checks
  <1>3. ASSUME NEW t \in Threads, Lists(t) PROVE OneOpens'
    BY <1>3 DEF Lists
  <1>4. ASSUME NEW t \in Threads, Opens(t) PROVE OneOpens'
    <2>1. alive = {}
      BY <1>4 DEF Opens
    <2> QED
      BY <1>4, <2>1 DEF Opens
  <1>5. ASSUME NEW t \in Threads, Raises(t) PROVE OneOpens'
    BY <1>5 DEF Raises, EndsUse
  <1>6. ASSUME NEW t \in Threads, Registers(t) PROVE OneOpens'
    BY <1>6 DEF Registers
  <1>7. ASSUME NEW t \in Threads, Assigns(t) PROVE OneOpens'
    BY <1>7 DEF Assigns
  <1>8. ASSUME NEW t \in Threads, Returns(t) PROVE OneOpens'
    BY <1>8 DEF Returns
  <1>9. ASSUME NEW c \in Conns, Dispatches(c) PROVE OneOpens'
    BY <1>9 DEF Dispatches, Threads
  <1>10. CASE LookUp
    BY <1>10 DEF LookUp, EndsUse, Threads
  <1>11. CASE DomainStops
    BY <1>11 DEF DomainStops
  <1>12. ASSUME NEW c \in Conns, Dies(c) PROVE OneOpens'
    BY <1>12 DEF Dies
  <1>13. CASE UNCHANGED vars
    BY <1>13 DEF vars
  <1> QED
    BY <1>1, <1>2, <1>3, <1>4, <1>5, <1>6, <1>7, <1>8, <1>9, <1>10, <1>11, <1>12, <1>13
       DEF Next, UseStep, LoopStep

\* An event that waits is of a stop that was not handled and is in nobody's hands, and it
\* waits on one connection and at one place.
Waiting ==
    /\ \A c \in Conns : \A i \in 1..Len(queue[c]) :
          queue[c][i] <= stops /\ handled[queue[c][i]] = 0 /\ queue[c][i] # event
    /\ \A c, d \in Conns : \A i \in 1..Len(queue[c]), j \in 1..Len(queue[d]) :
          queue[c][i] = queue[d][j] => c = d /\ i = j
Counted ==
    /\ event # 0 => event <= stops /\ handled[event] = 0
    /\ \A s \in Stops : handled[s] <= 1 /\ (s > stops => handled[s] = 0)
EventInv == ~raced => Waiting /\ Counted

LEMMA QueueTypes == ASSUME TypeOK PROVE
    /\ queue \in [Conns -> Seq(Stops)] /\ handled \in [Stops -> Nat] /\ stops \in Nat
    /\ event \in Nat /\ (event # 0 => event \in Stops)
    /\ \A c \in Conns : /\ Len(queue[c]) \in Nat
                        /\ \A i \in 1..Len(queue[c]) : queue[c][i] \in Stops
  <1>1. queue \in [Conns -> Seq(Stops)] /\ handled \in [Stops -> Nat] /\ stops \in Nat /\ event \in Nat
    BY BoundsNat DEF BoundsNat, TypeOK
  <1>2. event # 0 => event \in Stops
    BY BoundsNat DEF BoundsNat, TypeOK, Stops
  <1>3. \A c \in Conns : Len(queue[c]) \in Nat /\ \A i \in 1..Len(queue[c]) : queue[c][i] \in Stops
    BY <1>1
  <1> QED
    BY <1>1, <1>2, <1>3

\* An event goes from the head of a queue to the hands of the event loop.
LEMMA DispatchKeeps ==
    ASSUME TypeOK, Waiting, Counted, NEW c \in Conns, Dispatches(c) PROVE (Waiting /\ Counted)'
  <1>1. queue[c] \in Seq(Stops) /\ queue[c] # <<>>
    BY QueueTypes, Zenon DEF Dispatches
  <1>2. /\ 1 \in 1..Len(queue[c]) /\ Head(queue[c]) = queue[c][1]
        /\ Len(Tail(queue[c])) = Len(queue[c]) - 1
        /\ \A i \in 1..Len(queue[c]) - 1 : Tail(queue[c])[i] = queue[c][i + 1]
    BY <1>1
  <1>3. /\ event' = queue[c][1] /\ queue'[c] = Tail(queue[c])
        /\ \A d \in Conns \ {c} : queue'[d] = queue[d]
        /\ UNCHANGED <<handled, stops>>
    BY <1>2, QueueTypes DEF Dispatches
  <1>4. \A d \in Conns : \A i \in 1..Len(queue'[d]) : \E j \in 1..Len(queue[d]) :
           /\ queue'[d][i] = queue[d][j]
           /\ d = c => j = i + 1
           /\ d # c => j = i
    <2> TAKE d \in Conns
    <2> TAKE i \in 1..Len(queue'[d])
    <2>1. CASE d = c
      <3>1. i \in 1..Len(queue[c]) - 1 /\ i + 1 \in 1..Len(queue[c])
        BY <1>2, <1>3, <2>1, QueueTypes
      <3>2. queue'[d][i] = queue[d][i + 1]
        BY <1>2, <1>3, <2>1, <3>1
      <3> QED
        BY <2>1, <3>1, <3>2
    <2>2. CASE d # c
      BY <1>3, <2>2
    <2> QED
      BY <2>1, <2>2
  <1>5. Waiting'
    <2>1. ASSUME NEW d \in Conns, NEW i \in 1..Len(queue'[d])
          PROVE  queue'[d][i] <= stops /\ handled[queue'[d][i]] = 0 /\ queue'[d][i] # event'
      <3>1. PICK j \in 1..Len(queue[d]) : queue'[d][i] = queue[d][j] /\ (d = c => j = i + 1)
        BY <1>4
      <3>2. queue[d][j] # queue[c][1]
        <4>1. d = c => j # 1
          BY <3>1, QueueTypes
        <4>2. queue[d][j] = queue[c][1] => d = c /\ j = 1
          BY <1>2, SMTT(20) DEF Waiting
        <4> QED
          BY <4>1, <4>2
      <3> QED
        BY <3>1, <3>2, <1>3 DEF Waiting
    <2>2. ASSUME NEW d \in Conns, NEW e \in Conns, NEW i \in 1..Len(queue'[d]), NEW j \in 1..Len(queue'[e]),
                 queue'[d][i] = queue'[e][j]
          PROVE  d = e /\ i = j
      <3>1. PICK m \in 1..Len(queue[d]) : /\ queue'[d][i] = queue[d][m]
                                          /\ d = c => m = i + 1
                                          /\ d # c => m = i
        BY <1>4
      <3>2. PICK n \in 1..Len(queue[e]) : /\ queue'[e][j] = queue[e][n]
                                          /\ e = c => n = j + 1
                                          /\ e # c => n = j
        BY <1>4
      <3>3. queue[d][m] = queue[e][n]
        BY <2>2, <3>1, <3>2
      <3>4. d = e /\ m = n
        BY <3>3, SMTT(20) DEF Waiting
      <3>5. i \in Int /\ j \in Int
        OBVIOUS
      <3>6. CASE d = c
        BY <3>1, <3>2, <3>4, <3>5, <3>6
      <3>7. CASE d # c
        BY <3>1, <3>2, <3>4, <3>7
      <3> QED
        BY <3>6, <3>7
    <2> QED
      BY <1>3, <2>1, <2>2 DEF Waiting
  <1>6. Counted'
    BY <1>2, <1>3, QueueTypes DEF Waiting, Counted
  <1> QED
    BY <1>5, <1>6

\* The event of a new stop goes to the one connection that works, if to any.
LEMMA StopKeeps ==
    ASSUME TypeOK, OneOpens, Waiting, Counted, DomainStops PROVE (Waiting /\ Counted)'
  <1>1. /\ stops' = stops + 1 /\ stops' \in Stops /\ UNCHANGED <<handled, event>>
        /\ \A c \in Conns : queue'[c] = IF c \in alive \cap registered THEN Append(queue[c], stops')
                                         ELSE queue[c]
    BY BoundsNat DEF BoundsNat, DomainStops, TypeOK, Stops
  <1>2. \A c, d \in alive : c = d
    BY OneWorks
  <1>3. \A c \in Conns : \A i \in 1..Len(queue'[c]) :
           \/ i \in 1..Len(queue[c]) /\ queue'[c][i] = queue[c][i]
           \/ c \in alive /\ i = Len(queue[c]) + 1 /\ queue'[c][i] = stops'
    <2> TAKE c \in Conns
    <2>1. queue[c] \in Seq(Stops)
      BY QueueTypes
    <2>2. CASE c \in alive \cap registered
      <3>1. queue'[c] = Append(queue[c], stops')
        BY <1>1, <2>2
      <3>2. /\ Len(queue'[c]) = Len(queue[c]) + 1
            /\ \A i \in 1..Len(queue[c]) : queue'[c][i] = queue[c][i]
            /\ queue'[c][Len(queue[c]) + 1] = stops'
        BY <1>1, <2>1, <3>1, AppendProperties
      <3>3. Len(queue[c]) \in Nat
        BY QueueTypes
      <3> QED
        BY <2>2, <3>2, <3>3
    <2>3. CASE c \notin alive \cap registered
      BY <2>1, <2>3, <1>1
    <2> QED
      BY <2>2, <2>3
  <1>4. \A c \in Conns : \A i \in 1..Len(queue[c]) : queue[c][i] # stops'
    BY <1>1, QueueTypes DEF Waiting, Stops
  <1>5. Waiting'
    <2>1. ASSUME NEW c \in Conns, NEW i \in 1..Len(queue'[c])
          PROVE  queue'[c][i] <= stops' /\ handled[queue'[c][i]] = 0 /\ queue'[c][i] # event
      <3>1. CASE i \in 1..Len(queue[c]) /\ queue'[c][i] = queue[c][i]
        <4>1. /\ queue[c][i] <= stops /\ handled[queue[c][i]] = 0 /\ queue[c][i] # event
              /\ queue[c][i] \in Stops
          BY <3>1, QueueTypes DEF Waiting
        <4> QED
          BY <1>1, <3>1, <4>1, QueueTypes DEF Stops
      <3>2. CASE queue'[c][i] = stops'
        <4>1. stops' > stops /\ stops' <= stops' /\ stops' \in Nat
          BY <1>1, QueueTypes DEF Stops
        <4>2. handled[stops'] = 0
          BY <1>1, <4>1 DEF Counted
        <4>3. stops' # event
          BY <1>1, <4>1, QueueTypes DEF Counted
        <4> QED
          BY <3>2, <4>1, <4>2, <4>3
      <3> QED
        BY <1>3, <3>1, <3>2
    <2>2. ASSUME NEW c \in Conns, NEW d \in Conns, NEW i \in 1..Len(queue'[c]), NEW j \in 1..Len(queue'[d]),
                 queue'[c][i] = queue'[d][j]
          PROVE  c = d /\ i = j
      <3>1. CASE /\ i \in 1..Len(queue[c]) /\ queue'[c][i] = queue[c][i]
                 /\ j \in 1..Len(queue[d]) /\ queue'[d][j] = queue[d][j]
        <4>1. queue[c][i] = queue[d][j]
          BY <2>2, <3>1
        <4> QED
          BY <3>1, <4>1, SMTT(20) DEF Waiting
      <3>2. CASE /\ i \in 1..Len(queue[c]) /\ queue'[c][i] = queue[c][i]
                 /\ queue'[d][j] = stops'
        BY <2>2, <1>4, <3>2, Zenon
      <3>3. CASE /\ j \in 1..Len(queue[d]) /\ queue'[d][j] = queue[d][j]
                 /\ queue'[c][i] = stops'
        BY <2>2, <1>4, <3>3, Zenon
      <3>4. CASE c \in alive /\ i = Len(queue[c]) + 1 /\ d \in alive /\ j = Len(queue[d]) + 1
        BY <1>2, <3>4, Zenon
      <3> QED
        BY <1>3, <3>1, <3>2, <3>3, <3>4, Zenon
    <2> QED
      BY <1>1, <2>1, <2>2 DEF Waiting
  <1>6. Counted'
    BY <1>1, QueueTypes DEF Counted, Stops
  <1> QED
    BY <1>5, <1>6

\* The events that wait on a connection that dies are lost or wait on.
LEMMA DeathKeeps ==
    ASSUME TypeOK, Waiting, Counted, NEW c \in Conns, Dies(c) PROVE (Waiting /\ Counted)'
  <1>1. UNCHANGED <<handled, event, stops>>
    BY DEF Dies
  <1>2. \A d \in Conns : queue'[d] = queue[d] \/ queue'[d] = <<>>
    BY QueueTypes DEF Dies
  <1>3. \A d \in Conns : \A i \in 1..Len(queue'[d]) : i \in 1..Len(queue[d]) /\ queue'[d][i] = queue[d][i]
    <2> TAKE d \in Conns
    <2>1. CASE queue'[d] = queue[d]
      BY <2>1
    <2>2. CASE queue'[d] = <<>>
      <3>1. Len(queue'[d]) = 0
        BY <2>2
      <3>2. 1..Len(queue'[d]) = {}
        BY <3>1
      <3> QED
        BY <3>2
    <2> QED
      BY <1>2, <2>1, <2>2
  <1>4. Waiting'
    <2>1. ASSUME NEW d \in Conns, NEW i \in 1..Len(queue'[d])
          PROVE  queue'[d][i] <= stops /\ handled[queue'[d][i]] = 0 /\ queue'[d][i] # event
      BY <1>3 DEF Waiting
    <2>2. ASSUME NEW d \in Conns, NEW e \in Conns, NEW i \in 1..Len(queue'[d]), NEW j \in 1..Len(queue'[e]),
                 queue'[d][i] = queue'[e][j]
          PROVE  d = e /\ i = j
      <3>1. queue[d][i] = queue[e][j] /\ i \in 1..Len(queue[d]) /\ j \in 1..Len(queue[e])
        BY <1>3, <2>2
      <3> QED
        BY <3>1, SMTT(20) DEF Waiting
    <2> QED
      BY <1>1, <2>1, <2>2 DEF Waiting
  <1>5. Counted'
    BY <1>1 DEF Counted
  <1> QED
    BY <1>4, <1>5

LEMMA EventNext == TypeOK /\ OpenInv /\ EventInv /\ [Next]_vars => EventInv'
  <1> SUFFICES ASSUME TypeOK, OpenInv, EventInv, [Next]_vars, ~raced' PROVE (Waiting /\ Counted)'
    BY DEF EventInv
  <1>1. ~raced
    BY DEF Next, UseStep, LoopStep, Uses, Checks, BeginsOpen, Lists, Opens, Raises, Registers,
           Assigns, Returns, LookUp, Dispatches, DomainStops, Dies, vars
  <1>2. OneOpens /\ Waiting /\ Counted
    BY <1>1 DEF OpenInv, EventInv
  <1>3. ASSUME UNCHANGED <<queue, handled, stops>>, event' \in {event, 0} PROVE (Waiting /\ Counted)'
    <2>1. Waiting'
      BY <1>2, <1>3, QueueTypes DEF Waiting, Stops
    <2>2. Counted'
      BY <1>2, <1>3, QueueTypes DEF Counted
    <2> QED
      BY <2>1, <2>2
  <1>4. ASSUME NEW t \in Threads, Uses(t) \/ UseStep(t) PROVE (Waiting /\ Counted)'
    BY <1>3, <1>4 DEF Uses, UseStep, Checks, Lists, Opens, Raises, EndsUse, Registers, Assigns, Returns
  <1>5. CASE LookUp
    <2>1. event \in Stops /\ event' = 0 /\ UNCHANGED <<queue, stops>>
      BY <1>5, QueueTypes DEF LookUp, EndsUse, TypeOK
    <2>2. \A s \in Stops : handled'[s] = handled[s] \/ (s = event /\ handled'[s] = handled[s] + 1)
      BY <1>5, QueueTypes DEF LookUp
    <2>3. Waiting'
      BY <1>2, <2>1, <2>2, QueueTypes DEF Waiting, Stops
    <2>4. handled[event] = 0 /\ event <= stops
      BY <1>2, <2>1 DEF Counted, Stops
    <2>5. \A s \in Stops : handled'[s] <= 1 /\ (s > stops => handled'[s] = 0)
      <3> TAKE s \in Stops
      <3>1. handled[s] <= 1 /\ (s > stops => handled[s] = 0)
        BY <1>2 DEF Counted
      <3>2. CASE s = event
        BY <2>2, <2>4, <3>1, <3>2, QueueTypes
      <3>3. CASE s # event
        BY <2>2, <3>1, <3>3
      <3> QED
        BY <3>2, <3>3
    <2>6. Counted'
      BY <2>1, <2>5 DEF Counted
    <2> QED
      BY <2>3, <2>6
  <1>6. CASE DomainStops
    BY <1>2, <1>6, StopKeeps
  <1>7. CASE UNCHANGED vars
    BY <1>3, <1>7 DEF vars
  <1> QED
    BY <1>2, <1>4, <1>5, <1>6, <1>7, DispatchKeeps, DeathKeeps DEF Next, LoopStep

\* Unless two threads opened a connection at once, no stop is handled twice, whatever dies and
\* is opened anew, for any number of threads and stops (libvirtd/connection.py:73-86, 145-151).
THEOREM HandledOnce == Spec => []OnceUnlessRaced
  <1>1. Init => OpenInv /\ EventInv
    BY BoundsNat DEF BoundsNat, Init, OpenInv, OneOpens, Opening, EventInv, Waiting, Counted, Conns, Stops
  <1>2. TypeOK /\ EventInv => OnceUnlessRaced
    BY DEF EventInv, Counted, OnceUnlessRaced
  <1> QED
    BY <1>1, <1>2, OpenNext, EventNext, TypesHold, Typing, PTL DEF Spec

=============================================================================
