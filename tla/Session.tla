------------------------------- MODULE Session -------------------------------
(***************************************************************************)
(* A call of truenas-nsexec (nsexec.cli): the look-up and main's checks,   *)
(* then the entering process (Entry), either as this process itself or,    *)
(* interactively, as its child on a pseudo-terminal, with a relay between  *)
(* the user and the terminal's master.                                     *)
(*                                                                         *)
(* The kernel holds a bounded number of chunks in each direction of the    *)
(* terminal.  Writing to the master waits for room and, once the slave is  *)
(* closed, raises EIO; reading the master gives what is left, then EIO.    *)
(***************************************************************************)
EXTENDS Entry

CONSTANTS
    InRoom, OutRoom,   \* chunks the terminal holds
    MaxTyped           \* bound: chunks the user types

ASSUME SomeRoom == InRoom \in Nat \ {0} /\ OutRoom \in Nat \ {0} /\ MaxTyped \in Nat

VARIABLES
    relay,      \* where the command is; "inline" while it is the entering process
    ready,      \* what the last select returned
    typed,      \* chunks typed so far
    stdin,      \* chunks typed and not yet read
    closed,     \* the user has closed stdin
    polled,     \* the relay still polls stdin
    inq, outq,  \* chunks in the terminal, to the program and from it
    raised,     \* a write of the relay raised
    result      \* wait status of the command

user     == <<typed, stdin, closed>>
terminal == <<inq, outq>>
cli      == <<relay, ready, polled, raised, result>>
vars == <<entryVars, user, terminal, cli>>

TypeOK ==
    /\ EntryTypeOK
    /\ relay \in {"lookup", "check", "inline", "fork", "select", "output", "input", "feed", "eof",
                  "reap", "finally", "over"}
    /\ ready \subseteq {"master", "stdin"}
    /\ typed \in 0..MaxTyped /\ stdin \in 0..typed /\ closed \in BOOLEAN /\ polled \in BOOLEAN
    /\ inq \in 0..InRoom /\ outq \in 0..OutRoom
    /\ raised \in BOOLEAN
    /\ result \in Endings

Init ==
    /\ EntryInit
    /\ relay = "lookup" /\ ready = {}
    /\ typed = 0 /\ stdin = 0 /\ closed = FALSE /\ polled = TRUE
    /\ inq = 0 /\ outq = 0
    /\ raised = FALSE /\ result = Alive

Goto(where) == relay' = where

-----------------------------------------------------------------------------
(* main *)

\* The domain object keeps the ID of this moment.
LooksUp ==
    /\ relay = "lookup"
    /\ init' = instance
    /\ Goto("check")
    /\ UNCHANGED <<config, libvirt, entry, cgroup, target, fds, caps, child, status,
                   user, terminal, ready, polled, raised, result>>

\* With 2 if it is not found or not running, with 1 if it is gone since the look-up.
Refuses ==
    /\ relay \in {"lookup", "check"} /\ instance = 0
    /\ \E code \in IF relay = "check" THEN {1, 2} ELSE {2} : result' = Exit(code)
    /\ Goto("over")
    /\ UNCHANGED <<entryVars, user, terminal, ready, polled, raised>>

\* This process enters the container, or forks one on a new terminal that does. It has
\* the slave open until "select".
Enters(where) ==
    /\ relay = "check" /\ instance # 0
    /\ entry' = "cgroup"
    /\ Goto(where)
    /\ UNCHANGED <<config, libvirt, place, caps, child, status, user, terminal, ready, polled,
                   raised, result>>

RunsNonInteractive == Enters("inline")
RunsInteractive    == Enters("fork")

InlineEnds ==
    /\ relay = "inline" /\ entry = "exited"
    /\ result' = status /\ Goto("over")
    /\ UNCHANGED <<entryVars, user, terminal, ready, polled, raised>>

-----------------------------------------------------------------------------
(* _run_interactive and _relay *)

SlaveOpen == relay = "fork" \/ entry \notin {"unborn", "exited"} \/ ProgramAlive \/ heirs

ClosesSlave ==
    /\ relay = "fork"
    /\ Goto("select")
    /\ UNCHANGED <<entryVars, user, terminal, ready, polled, raised, result>>

Readable == {x \in {"master", "stdin"} :
               IF x = "master" THEN outq > 0 \/ ~SlaveOpen
                               ELSE polled /\ (stdin > 0 \/ closed)}

Selects ==
    /\ relay = "select"
    /\ Readable # {}
    /\ ready' = Readable
    /\ Goto(IF "master" \in Readable THEN "output" ELSE "input")
    /\ UNCHANGED <<entryVars, user, terminal, polled, raised, result>>

\* Writing to the user's end may raise: it is gone.
RelaysOutput ==
    /\ relay = "output" /\ outq > 0
    /\ outq' = outq - 1
    /\ \/ Goto(IF "stdin" \in ready THEN "input" ELSE "select") /\ UNCHANGED raised
       \/ Goto("finally") /\ raised' = TRUE
    /\ UNCHANGED <<entryVars, user, inq, ready, polled, result>>

\* Mutant: a master that has nothing more is polled on.
OutputEnds_Polls ==
    /\ relay = "output" /\ outq = 0
    /\ Goto("select")
    /\ UNCHANGED <<entryVars, user, terminal, ready, polled, raised, result>>

\* EIO: every process has closed the slave.
OutputEnds ==
    /\ relay = "output" /\ outq = 0
    /\ Goto("reap")
    /\ UNCHANGED <<entryVars, user, terminal, ready, polled, raised, result>>

ReadsInput ==
    /\ relay = "input" /\ stdin > 0
    /\ stdin' = stdin - 1
    /\ Goto("feed")
    /\ UNCHANGED <<entryVars, typed, closed, terminal, ready, polled, raised, result>>

InputEnds ==
    /\ relay = "input" /\ stdin = 0
    /\ Goto("eof")
    /\ UNCHANGED <<entryVars, user, terminal, ready, polled, raised, result>>

Feeds ==
    /\ relay = "feed" /\ SlaveOpen
    /\ inq < InRoom
    /\ inq' = inq + 1
    /\ Goto("select")
    /\ UNCHANGED <<entryVars, user, outq, ready, polled, raised, result>>

\* Nothing in the relay catches the EIO of this write.
FeedRaises ==
    /\ relay = "feed" /\ ~SlaveOpen
    /\ raised' = TRUE /\ Goto("finally")
    /\ UNCHANGED <<entryVars, user, terminal, ready, polled, result>>

\* VEOF to the program, once; an EIO of this write is suppressed.
SendsEof ==
    /\ relay = "eof"
    /\ \/ SlaveOpen /\ inq < InRoom /\ inq' = inq + 1
       \/ ~SlaveOpen /\ UNCHANGED inq
    /\ polled' = FALSE
    /\ Goto("select")
    /\ UNCHANGED <<entryVars, user, outq, ready, raised, result>>

\* The entering process has the slave open, so it has ended by now.
WaitsForEntry ==
    /\ relay = "reap" /\ entry = "exited"
    /\ result' = Exit(Code(status)) /\ Goto("finally")
    /\ UNCHANGED <<entryVars, user, terminal, ready, polled, raised>>

\* The terminal is put back and the master closed; what was raised ends the command
\* with 1.
Cleans ==
    /\ relay = "finally"
    /\ result' = IF raised THEN Exit(1) ELSE result
    /\ Goto("over")
    /\ UNCHANGED <<entryVars, user, terminal, ready, polled, raised>>

CliStep ==
    \/ LooksUp \/ Refuses \/ RunsInteractive \/ RunsNonInteractive \/ InlineEnds
    \/ ClosesSlave \/ Selects \/ RelaysOutput \/ OutputEnds \/ ReadsInput \/ InputEnds
    \/ Feeds \/ FeedRaises \/ SendsEof \/ WaitsForEntry \/ Cleans

-----------------------------------------------------------------------------
(* The other processes, the user and the program *)

Interactive == relay \notin {"lookup", "check", "inline"}

\* The entering process writes what it raised to the terminal, if it has one.
EntrySteps ==
    /\ EntryStep
    /\ IF entry = "failed" /\ Interactive
         THEN outq < OutRoom /\ outq' = outq + 1
         ELSE UNCHANGED outq
    /\ UNCHANGED <<user, inq, cli>>

ChildSteps == ChildStep /\ UNCHANGED <<user, terminal, cli>>

ProgramEndings == (Ends \/ HeirsEnd) /\ UNCHANGED <<user, terminal, cli>>

ProgramReads ==
    /\ program = "runs" \/ heirs
    /\ inq > 0
    /\ inq' = inq - 1
    /\ UNCHANGED <<entryVars, user, outq, cli>>

ProgramWrites ==
    /\ program = "runs" \/ heirs
    /\ Interactive
    /\ outq < OutRoom
    /\ outq' = outq + 1
    /\ UNCHANGED <<entryVars, user, inq, cli>>

Types ==
    /\ typed < MaxTyped /\ ~closed
    /\ typed' = typed + 1 /\ stdin' = stdin + 1
    /\ UNCHANGED <<entryVars, closed, terminal, cli>>

ClosesStdin ==
    /\ ~closed
    /\ closed' = TRUE
    /\ UNCHANGED <<entryVars, typed, stdin, terminal, cli>>

ContainerSteps == (ContainerStops \/ ContainerStarts) /\ UNCHANGED <<user, terminal, cli>>

Next ==
    \/ CliStep \/ EntrySteps \/ ChildSteps
    \/ ProgramEndings \/ ProgramReads \/ ProgramWrites
    \/ Types \/ ClosesStdin \/ ContainerSteps

Spec == Init /\ [][Next]_vars

\* The command and the processes it forks run; the program, the user and the container
\* are free to do nothing.
FairSpec == Spec /\ WF_vars(CliStep) /\ WF_vars(EntrySteps) /\ WF_vars(ChildSteps)

-----------------------------------------------------------------------------
(* Properties *)

\* A program has no capability that the policy drops and the container's XML does not
\* turn on, and none that it turns off, although entering the user namespace gives the
\* process all of them once more.
Restricted ==
    \A c \in grants : (state[c] = "on" \/ c \notin Baseline[policy]) /\ state[c] # "off"

\* A container may stop and start while it is looked up, checked and entered: a program
\* is never in the namespaces of one start and outside of the limits of that start, and
\* none outlives its container.
SameInstance == (ProgramAlive \/ heirs) => (cgroup = target /\ target = instance)

\* Unless a write of the relay raised, the command ends as the program did, through the
\* two processes that wait and the two ways each may end, and not before it; or as killed,
\* if the container stopped under the process that waits for the program.
MirrorsStatus ==
    (relay = "over" /\ ~raised /\ entry # "unborn" /\ program # "unborn")
        => program = "over" /\ Code(result) \in {Code(ended), Code(status)}
                            /\ (status # Kill => Code(result) = Code(ended))

\* The command ends once the program and all it left behind have, also if the user types
\* or closes stdin at that moment and if the terminal is full.
EndsWithProgram == (entry = "exited" /\ ~ProgramAlive /\ ~heirs) ~> (relay = "over")

=============================================================================
