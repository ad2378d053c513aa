----------------------------- MODULE Connection -----------------------------
(***************************************************************************)
(* libvirtd.connection.Connection: one connection to libvirt that is       *)
(* opened by its first use and opened anew by a use that finds it dead,    *)
(* the events that arrive on it, and the event loop that dispatches them.  *)
(*                                                                         *)
(* The property "connection" takes no lock.  Its users are the callers of  *)
(* the domain manager and, whenever it handles an event, the event loop.   *)
(* libvirt keeps a connection on which a callback is registered, also when *)
(* Connection has gone on to another one.                                  *)
(***************************************************************************)
EXTENDS Naturals, Sequences

CONSTANTS
    Callers,    \* threads that use the connection
    EventLoop,  \* the thread that runs the libvirt event loop
    MaxOpens,   \* bound: connections opened in a behaviour
    MaxDeaths,  \* bound: connections that die
    MaxStops    \* bound: domains that stop

ASSUME LoopIsNoCaller == EventLoop \notin Callers
ASSUME BoundsNat == MaxOpens \in Nat /\ MaxDeaths \in Nat /\ MaxStops \in Nat

Threads == Callers \cup {EventLoop}
Conns == 1..MaxOpens
Stops == 1..MaxStops

VARIABLES
    current,     \* Connection._connection, 0 for None
    opened,      \* how many connections were opened
    alive,       \* libvirt: connections that work
    registered,  \* libvirt: connections that have the event callback
    queue,       \* libvirt: the stops whose events wait on each connection
    pc,          \* where each thread is
    mine,        \* the connection a thread has opened or was given
    calm,        \* no connection died since all threads last were idle
    raced,       \* two threads were opening a connection at once
    event,       \* the stop the event loop is handling
    handled,     \* how often the callbacks ran to their end for each stop
    heard,       \* stops while the connection in use worked; emptied when one dies
    stops, deaths

vars == <<current, opened, alive, registered, queue, pc, mine, calm, raced, event, handled, heard,
          stops, deaths>>

TypeOK ==
    /\ current \in 0..opened /\ opened \in 0..MaxOpens
    /\ alive \subseteq 1..opened /\ registered \subseteq 1..opened
    /\ queue \in [Conns -> Seq(Stops)]
    /\ pc \in [Threads -> {"idle", "check", "list", "open", "register", "assign", "return", "lookup"}]
    /\ mine \in [Threads -> 0..opened]
    /\ calm \in BOOLEAN /\ raced \in BOOLEAN
    /\ event \in 0..MaxStops /\ (event = 0) = (pc[EventLoop] = "idle")
    /\ handled \in [Stops -> Nat]
    /\ heard \subseteq 1..stops
    /\ stops \in 0..MaxStops /\ deaths \in 0..MaxDeaths

Init ==
    /\ current = 0 /\ opened = 0 /\ alive = {} /\ registered = {}
    /\ queue = [c \in Conns |-> <<>>]
    /\ pc = [t \in Threads |-> "idle"]
    /\ mine = [t \in Threads |-> 0] /\ calm = TRUE /\ raced = FALSE
    /\ event = 0 /\ handled = [s \in Stops |-> 0] /\ heard = {}
    /\ stops = 0 /\ deaths = 0

Goto(t, where) == pc' = [pc EXCEPT ![t] = where]

AllIdle == \A t \in Threads : pc[t] = "idle"
BeginsUse == calm' = (calm \/ AllIdle)

-----------------------------------------------------------------------------
(* The property "connection" *)

Uses(t) ==
    /\ t \in Callers /\ pc[t] = "idle"
    /\ Goto(t, "check")
    /\ BeginsUse
    /\ UNCHANGED <<current, opened, alive, registered, queue, mine, raced, event, handled,
                   heard, stops, deaths>>

Opening(t) == pc[t] \in {"open", "register", "assign"}

\* _open begins. The flag remembers that another thread was in it.
BeginsOpen(t) ==
    /\ Goto(t, "open")
    /\ raced' = (raced \/ \E u \in Threads \ {t} : Opening(u))

\* Mutant: a connection that was opened once is taken to work.
Checks_NotAlive(t) ==
    /\ pc[t] = "check"
    /\ \/ current # 0 /\ Goto(t, "return") /\ UNCHANGED raced
       \/ current = 0 /\ BeginsOpen(t)
    /\ UNCHANGED <<current, opened, alive, registered, queue, mine, calm, event, handled, heard,
                   stops, deaths>>

\* Mutant: every use opens a connection of its own.
Checks_Anew(t) ==
    /\ pc[t] = "check"
    /\ BeginsOpen(t)
    /\ UNCHANGED <<current, opened, alive, registered, queue, mine, calm, event, handled, heard,
                   stops, deaths>>

\* isAlive does not know of every dead connection yet.
Checks(t) ==
    /\ pc[t] = "check"
    /\ \/ current # 0 /\ Goto(t, "list") /\ UNCHANGED raced
       \/ current \notin alive /\ BeginsOpen(t)
    /\ UNCHANGED <<current, opened, alive, registered, queue, mine, calm, event, handled, heard,
                   stops, deaths>>

\* listAllDomains answers.
Lists(t) ==
    /\ pc[t] = "list"
    /\ current \in alive
    /\ Goto(t, "return")
    /\ UNCHANGED <<current, opened, alive, registered, queue, mine, calm, raced, event, handled,
                   heard, stops, deaths>>

Opens(t) ==
    /\ pc[t] = "open"
    /\ opened < MaxOpens
    /\ opened' = opened + 1
    /\ alive' = alive \cup {opened'}
    /\ mine' = [mine EXCEPT ![t] = opened']
    /\ Goto(t, "register")
    /\ UNCHANGED <<current, registered, queue, calm, raced, event, handled, heard, stops, deaths>>

\* Mutant: the event loop does not let go of the event.
EndsUse_KeepsEvent(t) ==
    /\ Goto(t, "idle")
    /\ UNCHANGED event

EndsUse(t) ==
    /\ Goto(t, "idle")
    /\ event' = IF t = EventLoop THEN 0 ELSE event

\* A use that raises: the connection listed or just opened is dead, or open fails.
\* An event that was to be handled is lost with it.
Raises(t) ==
    /\ \/ pc[t] = "list" /\ current \notin alive
       \/ pc[t] = "open"
       \/ pc[t] = "register" /\ mine[t] \notin alive
    /\ EndsUse(t)
    /\ UNCHANGED <<current, opened, alive, registered, queue, mine, calm, raced, handled, heard,
                   stops, deaths>>

\* Mutant: the connection is published before it listens.
Registers_Late(t) ==
    /\ pc[t] = "register"
    /\ mine[t] \in alive
    /\ current' = mine[t]
    /\ Goto(t, "assign")
    /\ UNCHANGED <<opened, alive, registered, queue, mine, calm, raced, event, handled, heard, stops,
                   deaths>>

Registers(t) ==
    /\ pc[t] = "register"
    /\ mine[t] \in alive
    /\ registered' = registered \cup {mine[t]}
    /\ Goto(t, "assign")
    /\ UNCHANGED <<current, opened, alive, queue, mine, calm, raced, event, handled, heard, stops,
                   deaths>>

Assigns(t) ==
    /\ pc[t] = "assign"
    /\ current' = mine[t]
    /\ Goto(t, "return")
    /\ UNCHANGED <<opened, alive, registered, queue, mine, calm, raced, event, handled, heard, stops,
                   deaths>>

\* What is returned is the attribute, read once more.
Returns(t) ==
    /\ pc[t] = "return"
    /\ mine' = [mine EXCEPT ![t] = current]
    /\ Goto(t, IF t = EventLoop THEN "lookup" ELSE "idle")
    /\ UNCHANGED <<current, opened, alive, registered, queue, calm, raced, event, handled, heard,
                   stops, deaths>>

UseStep(t) ==
    \/ Checks(t) \/ Lists(t) \/ Opens(t) \/ Raises(t)
    \/ Registers(t) \/ Assigns(t) \/ Returns(t)

-----------------------------------------------------------------------------
(* The event loop *)

\* Mutant: the loop looks only at the connection in use.
Dispatches_CurrentOnly(c) ==
    /\ c = current
    /\ pc[EventLoop] = "idle"
    /\ queue[c] # <<>>
    /\ event' = Head(queue[c])
    /\ queue' = [queue EXCEPT ![c] = Tail(@)]
    /\ Goto(EventLoop, "check")
    /\ BeginsUse
    /\ UNCHANGED <<current, opened, alive, registered, mine, raced, handled, heard, stops, deaths>>

\* Every callback looks the domain up first, on whatever is the connection then.
Dispatches(c) ==
    /\ pc[EventLoop] = "idle"
    /\ queue[c] # <<>>
    /\ event' = Head(queue[c])
    /\ queue' = [queue EXCEPT ![c] = Tail(@)]
    /\ Goto(EventLoop, "check")
    /\ BeginsUse
    /\ UNCHANGED <<current, opened, alive, registered, mine, raced, handled, heard, stops, deaths>>

\* The lookup works or, on a connection that died, raises: that is logged.
LookUp ==
    /\ pc[EventLoop] = "lookup"
    /\ handled' = IF mine[EventLoop] \in alive THEN [handled EXCEPT ![event] = @ + 1]
                  ELSE handled
    /\ EndsUse(EventLoop)
    /\ UNCHANGED <<current, opened, alive, registered, queue, mine, calm, raced, heard, stops, deaths>>

LoopStep == LookUp \/ \E c \in Conns : Dispatches(c)

-----------------------------------------------------------------------------
(* libvirt *)

\* The event of a stop is sent to every connection that listens.
DomainStops ==
    /\ stops < MaxStops
    /\ stops' = stops + 1
    /\ queue' = [c \in Conns |-> IF c \in alive \cap registered THEN Append(queue[c], stops')
                                ELSE queue[c]]
    /\ heard' = IF current \in alive /\ (calm \/ AllIdle) THEN heard \cup {stops'} ELSE heard
    /\ UNCHANGED <<current, opened, alive, registered, pc, mine, calm, raced, event, handled, deaths>>

\* A connection dies; what waits on it may be lost.
Dies(c) ==
    /\ deaths < MaxDeaths
    /\ c \in alive
    /\ deaths' = deaths + 1
    /\ alive' = alive \ {c}
    /\ queue' \in {queue, [queue EXCEPT ![c] = <<>>]}
    /\ heard' = {}
    /\ calm' = FALSE
    /\ UNCHANGED <<current, opened, registered, pc, mine, raced, event, handled, stops>>

Next ==
    \/ \E t \in Threads : Uses(t) \/ UseStep(t)
    \/ LoopStep
    \/ DomainStops
    \/ \E c \in Conns : Dies(c)

Spec == Init /\ [][Next]_vars

FairSpec ==
    /\ Spec
    /\ \A t \in Threads : WF_vars(UseStep(t))
    /\ WF_vars(LoopStep)

-----------------------------------------------------------------------------
(* Properties *)

\* Whatever the threads do at once and whichever connections die: a connection is in
\* use only once it listens, also when another thread publishes its own over it.
\* Nobody can start a domain on a connection that came before its callback.
ListensBeforeUse == current # 0 => current \in registered

\* The event of a stop is handled once, however often connections died and were
\* replaced, unless two threads opened a connection at the same time: then both
\* listen for good, and the manager hears of every later stop twice.
OnceUnlessRaced == raced \/ \A s \in Stops : handled[s] <= 1

\* A stop that happens while a connection is in use is handled, on whichever connection
\* the event arrives and whatever is opened meanwhile, unless a connection died after
\* all threads were last idle, or dies before that.
StopsAreHandled == \A s \in Stops : s \in heard ~> handled[s] > 0 \/ s \notin heard

\* What a use returns works, unless a connection died since all threads were last
\* idle: the check is not undone by what another thread publishes meanwhile, unless
\* what it publishes died.
ReturnsWorking ==
    [][\A t \in Threads : pc[t] = "return" /\ pc'[t] # "return" /\ calm
                            => mine'[t] \in alive]_vars

=============================================================================
