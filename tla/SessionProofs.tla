---------------------------- MODULE SessionProofs ----------------------------
(***************************************************************************)
(* A program that was entered into a container is restricted, and stays    *)
(* with the start of the container it was entered into: proofs for every   *)
(* set of capabilities and of namespaces, and any number of restarts.      *)
(***************************************************************************)
EXTENDS Session, TLAPS

Joined   == {"open", "resolve", "setns", "drop", "caps", "fork", "wait"}
Opened   == Joined \ {"open"}
Dropped  == {"caps", "fork", "wait"}
Childless == {"unborn", "cgroup", "failed"} \cup (Joined \ {"wait"})

\* How far the entering process is determines whether it joined a cgroup and whether
\* there is a program.
Progress ==
    /\ relay \in {"lookup", "check"} => entry = "unborn"
    /\ entry \in {"unborn", "cgroup"} => cgroup = Outside
    /\ entry \in Childless => program = "unborn" /\ ~heirs

\* What is to be dropped is out of the bounding set from the step "caps" on, for the
\* process enters no user namespace any more.
RestrictInv ==
    /\ policy \in DOMAIN Baseline /\ state \in [Caps -> {"on", "off", "unset"}]
    /\ entry \in Dropped \/ ProgramAlive => bounding \cap DropNames = {}
    /\ grants \cap DropNames = {}
    /\ permitted \subseteq Caps /\ grants \subseteq Caps

\* Once it has joined the cgroup of an instance the process ends with that instance,
\* so the namespaces it opens are those of the same one.
TogetherInv ==
    /\ entry \in Joined => cgroup = instance /\ instance # 0
    /\ entry \in Opened => target = cgroup
    /\ ProgramAlive \/ heirs => cgroup = target /\ target = instance /\ instance # 0

LEMMA SessionInit == Init => Progress /\ RestrictInv /\ TogetherInv
BY DEF Init, EntryInit, Progress, RestrictInv, TogetherInv, ProgramAlive, Joined, Opened,
       Dropped, Childless, Outside

-----------------------------------------------------------------------------
(* What other steps than those of the entry leave alone *)

\* The command leaves all of the entry alone, but for its beginning.
CliFrame ==
    /\ UNCHANGED <<policy, state, instance, cgroup, target, bounding, permitted, program, grants,
                   heirs>>
    /\ \/ entry' = entry /\ (relay' \in {"lookup", "check"} => relay \in {"lookup", "check"})
       \/ relay = "check" /\ relay' \in {"inline", "fork"} /\ entry' = "cgroup"

LEMMA CliFrames == CliStep => CliFrame
BY DEF CliStep, CliFrame, LooksUp, Refuses, RunsInteractive, RunsNonInteractive, Enters,
       InlineEnds, ClosesSlave, Selects, RelaysOutput, OutputEnds, ReadsInput, InputEnds,
       Feeds, FeedRaises, SendsEof, WaitsForEntry, Cleans, Goto, entryVars, place, config,
       libvirt, caps, child

\* So do the program while it reads and writes, and the user.
Others == ProgramReads \/ ProgramWrites \/ Types \/ ClosesStdin
LEMMA OthersFrame == Others => UNCHANGED <<entryVars, cli>>
BY DEF Others, ProgramReads, ProgramWrites, Types, ClosesStdin

\* A step is one of the command, of those, or one of the entry, which is not the command's.
EntrySystemStep == EntryStep \/ ChildStep \/ Ends \/ HeirsEnd \/ ContainerStops \/ ContainerStarts
LEMMA StepKinds ==
  [Next]_vars => \/ CliStep
                 \/ UNCHANGED <<entryVars, cli>>
                 \/ EntrySystemStep /\ UNCHANGED cli
<1>1. Next => CliStep \/ Others \/ (EntrySystemStep /\ UNCHANGED cli)
  BY DEF Next, Others, EntrySteps, ChildSteps, ProgramEndings, ContainerSteps, EntrySystemStep
<1>2. UNCHANGED vars => UNCHANGED <<entryVars, cli>>
  BY DEF vars
<1> QED
  BY <1>1, <1>2, OthersFrame

-----------------------------------------------------------------------------
(* Progress *)

LEMMA ProgressEntry == Progress /\ EntryStep /\ UNCHANGED cli => Progress'
<1> SUFFICES ASSUME Progress, EntryStep, UNCHANGED cli PROVE Progress'
  OBVIOUS
<1> USE DEF Progress, Childless, Joined, Outside, config, place, caps, child, cli, Fails
<1>1. ASSUME JoinsCgroup \/ JoinsAnother \/ CgroupIsGone \/ OpensNamespaces \/ OpenFails
      PROVE  Progress'
  BY <1>1 DEF JoinsCgroup, JoinsAnother, CgroupIsGone, OpensNamespaces, OpenFails
<1>2. ASSUME NativeFails \/ Resolves \/ AllSet \/ SetsUser \/ (\E s \in Spaces : SetsOther(s))
      PROVE  Progress'
  BY <1>2 DEF NativeFails, Resolves, AllSet, SetsUser, SetsOther
<1>3. ASSUME DropsBounding \/ SetsCaps \/ Forks \/ Reaps \/ RaisesOut PROVE Progress'
  BY <1>3 DEF DropsBounding, SetsCaps, Forks, Reaps, RaisesOut
<1> QED
  BY <1>1, <1>2, <1>3 DEF EntryStep

LEMMA ProgressNext == Progress /\ [Next]_vars => Progress'
<1> SUFFICES ASSUME Progress, [Next]_vars PROVE Progress'
  OBVIOUS
<1> USE DEF Progress, Childless, Joined, Outside
<1>1. CASE CliStep
  BY <1>1, CliFrames DEF CliFrame
<1>2. CASE UNCHANGED <<entryVars, cli>>
  BY <1>2 DEF entryVars, cli, place, child
<1>3. CASE EntryStep /\ UNCHANGED cli
  BY <1>3, ProgressEntry
<1>4. CASE (ChildStep \/ Ends \/ HeirsEnd) /\ UNCHANGED cli
  BY <1>4 DEF cli, place, ChildStep, Anchors, ClaimsTerminal, SetsNoNewPrivs, Execs, ExecFails,
              Ends, HeirsEnd
<1>5. CASE (ContainerStops \/ ContainerStarts) /\ UNCHANGED cli
  BY <1>5 DEF cli, place, child, ContainerStops, ContainerStarts
<1> QED
  BY <1>1, <1>2, <1>3, <1>4, <1>5, StepKinds DEF EntrySystemStep

-----------------------------------------------------------------------------
(* Restricted *)

LEMMA RestrictEntry == Progress /\ RestrictInv /\ EntryStep => RestrictInv'
<1> SUFFICES ASSUME Progress, RestrictInv, EntryStep PROVE RestrictInv'
  OBVIOUS
<1> USE DEF Progress, RestrictInv, Childless, Joined, Dropped, ProgramAlive, DropNames, On, Off,
            config, place, caps, child, Fails
<1>1. ASSUME JoinsCgroup \/ JoinsAnother \/ CgroupIsGone \/ OpensNamespaces \/ OpenFails
      PROVE  RestrictInv'
  BY <1>1 DEF JoinsCgroup, JoinsAnother, CgroupIsGone, OpensNamespaces, OpenFails
<1>2. ASSUME NativeFails \/ Resolves \/ AllSet \/ (\E s \in Spaces : SetsOther(s))
      PROVE  RestrictInv'
  BY <1>2 DEF NativeFails, Resolves, AllSet, SetsOther
<1>3. ASSUME SetsUser PROVE RestrictInv'
  BY <1>3 DEF SetsUser
<1>4. ASSUME DropsBounding PROVE RestrictInv'
  BY <1>4 DEF DropsBounding
<1>5. ASSUME SetsCaps \/ Forks \/ Reaps \/ RaisesOut PROVE RestrictInv'
  BY <1>5 DEF SetsCaps, Forks, Reaps, RaisesOut
<1> QED
  BY <1>1, <1>2, <1>3, <1>4, <1>5 DEF EntryStep

LEMMA RestrictNext == Progress /\ RestrictInv /\ [Next]_vars => RestrictInv'
<1> SUFFICES ASSUME Progress, RestrictInv, [Next]_vars PROVE RestrictInv'
  OBVIOUS
<1> USE DEF RestrictInv, Dropped, ProgramAlive, DropNames, On, Off
<1>1. CASE CliStep
  BY <1>1, CliFrames DEF CliFrame
<1>2. CASE UNCHANGED <<entryVars, cli>>
  BY <1>2 DEF entryVars, config, caps, child
<1>3. CASE EntryStep
  BY <1>3, RestrictEntry
<1>4. CASE ChildStep \/ Ends \/ HeirsEnd
  <2>1. /\ UNCHANGED <<policy, state, entry, bounding, permitted>>
        /\ ProgramAlive' => ProgramAlive
        /\ grants' = grants \/ (ProgramAlive /\ grants' = permitted \cap bounding)
    BY <1>4 DEF ChildStep, Anchors, ClaimsTerminal, SetsNoNewPrivs, Execs, ExecFails, Ends,
                HeirsEnd, ProgramEnds, config, caps
  <2> QED
    BY <2>1
<1>5. CASE ContainerStops \/ ContainerStarts
  BY <1>5 DEF ContainerStops, ContainerStarts, config, caps, child
<1> QED
  BY <1>1, <1>2, <1>3, <1>4, <1>5, StepKinds DEF EntrySystemStep

\* No program has a capability that the policy or an override takes from it, whatever
\* the capabilities are (derive_caps and enter_and_exec).
THEOREM ProgramIsRestricted == Spec => []Restricted
<1>1. RestrictInv => Restricted
  <2> SUFFICES ASSUME RestrictInv, NEW c \in grants
               PROVE  (state[c] = "on" \/ c \notin Baseline[policy]) /\ state[c] # "off"
    BY DEF Restricted
  <2>1. c \in Caps /\ c \notin DropNames
    BY DEF RestrictInv
  <2> QED
    BY <2>1 DEF DropNames, On, Off
<1> QED
  BY <1>1, SessionInit, ProgressNext, RestrictNext, PTL DEF Spec

-----------------------------------------------------------------------------
(* SameInstance *)

LEMMA TogetherEntry == ~PidReuse /\ Progress /\ TogetherInv /\ EntryStep => TogetherInv'
<1> SUFFICES ASSUME ~PidReuse, Progress, TogetherInv, EntryStep PROVE TogetherInv'
  OBVIOUS
<1> USE DEF Progress, TogetherInv, Childless, Joined, Opened, ProgramAlive, libvirt, place, child,
            Fails
<1>1. ASSUME JoinsCgroup \/ JoinsAnother \/ CgroupIsGone PROVE TogetherInv'
  BY <1>1 DEF JoinsCgroup, JoinsAnother, CgroupIsGone
<1>2. ASSUME OpensNamespaces \/ OpenFails PROVE TogetherInv'
  BY <1>2 DEF OpensNamespaces, OpenFails
<1>3. ASSUME NativeFails \/ Resolves \/ AllSet \/ SetsUser \/ (\E s \in Spaces : SetsOther(s))
      PROVE  TogetherInv'
  BY <1>3 DEF NativeFails, Resolves, AllSet, SetsUser, SetsOther
<1>4. ASSUME DropsBounding \/ SetsCaps \/ Forks \/ Reaps \/ RaisesOut PROVE TogetherInv'
  BY <1>4 DEF DropsBounding, SetsCaps, Forks, Reaps, RaisesOut
<1> QED
  BY <1>1, <1>2, <1>3, <1>4 DEF EntryStep

LEMMA TogetherNext == ~PidReuse /\ Progress /\ TogetherInv /\ [Next]_vars => TogetherInv'
<1> SUFFICES ASSUME ~PidReuse, Progress, TogetherInv, [Next]_vars PROVE TogetherInv'
  OBVIOUS
<1> USE DEF TogetherInv, Joined, Opened, ProgramAlive
<1>1. CASE CliStep
  BY <1>1, CliFrames DEF CliFrame
<1>2. CASE UNCHANGED <<entryVars, cli>>
  BY <1>2 DEF entryVars, libvirt, place, child
<1>3. CASE EntryStep
  BY <1>3, TogetherEntry
<1>4. CASE ChildStep \/ Ends \/ HeirsEnd
  BY <1>4 DEF ChildStep, Anchors, ClaimsTerminal, SetsNoNewPrivs, Execs, ExecFails, Ends,
              HeirsEnd, ProgramEnds, libvirt, place
<1>5. CASE ContainerStops
  BY <1>5 DEF ContainerStops, Progress, Childless
<1>6. CASE ContainerStarts
  BY <1>6 DEF ContainerStarts, place, child, Progress, Childless
<1> QED
  BY <1>1, <1>2, <1>3, <1>4, <1>5, <1>6, StepKinds DEF EntrySystemStep

\* Unless an ID of a process is used again, a program is in the cgroup and in the
\* namespaces of one start of the container and does not outlive it, however often the
\* container restarts (run_in_container).
THEOREM ProgramStays == ASSUME ~PidReuse PROVE Spec => []SameInstance
<1>1. TogetherInv => SameInstance
  BY DEF TogetherInv, SameInstance
<1>2. Progress /\ TogetherInv /\ [Next]_vars => TogetherInv'
  BY TogetherNext
<1> QED
  BY <1>1, <1>2, SessionInit, ProgressNext, PTL DEF Spec

-----------------------------------------------------------------------------
(* The status of the command                                               *)

LEMMA CodeOfExit == \A code : Code(Exit(code)) = code
BY DEF Code, Exit

LEMMA ExitIsNoKill == \A code : Exit(code) # Kill
BY DEF Exit, Kill, Signal

\* When the entering process has ended, so has the program, and its status means the
\* program's unless it was killed; the command took it over only then.
MirrorInv ==
    /\ entry = "exited" /\ program # "unborn" =>
          program = "over" /\ (status # Kill => Code(status) = Code(ended))
    /\ relay = "finally" /\ ~raised => entry = "exited" /\ Code(result) = Code(status)
    /\ relay = "over" /\ ~raised /\ entry # "unborn" => entry = "exited" /\ Code(result) = Code(status)

\* What ended stays ended, and with the program's status if it had one.
LEMMA EntryEnds == Progress /\ EntryStep =>
    /\ entry \notin {"unborn", "exited"}
    /\ entry' # "unborn"
    /\ entry' = "exited" /\ program' # "unborn" => program' = "over" /\ Code(status') = Code(ended')
<1> SUFFICES ASSUME Progress, EntryStep
             PROVE  /\ entry \notin {"unborn", "exited"}
                    /\ entry' # "unborn"
                    /\ entry' = "exited" /\ program' # "unborn" => program' = "over" /\ Code(status') = Code(ended')
  OBVIOUS
<1>1. CASE Reaps
  BY <1>1, CodeOfExit DEF Reaps, child
<1>2. CASE RaisesOut
  BY <1>2 DEF RaisesOut, child, Progress, Childless
<1>3. CASE JoinsCgroup \/ JoinsAnother \/ CgroupIsGone \/ OpensNamespaces \/ OpenFails
  BY <1>3 DEF JoinsCgroup, JoinsAnother, CgroupIsGone, OpensNamespaces, OpenFails, Fails
<1>4. CASE NativeFails \/ Resolves \/ SetsUser \/ AllSet \/ DropsBounding \/ SetsCaps \/ Forks
  BY <1>4 DEF NativeFails, Resolves, SetsUser, AllSet, DropsBounding, SetsCaps, Forks, Fails
<1>5. CASE \E s \in Spaces : SetsOther(s)
  BY <1>5 DEF SetsOther
<1> QED
  BY <1>1, <1>2, <1>3, <1>4, <1>5 DEF EntryStep

LEMMA MirrorNext == Progress /\ MirrorInv /\ [Next]_vars => MirrorInv'
<1> SUFFICES ASSUME Progress, MirrorInv, [Next]_vars PROVE MirrorInv'
  OBVIOUS
<1> USE DEF MirrorInv
<1>1. CASE CliStep
  <2>1. CASE LooksUp \/ Enters("inline") \/ Enters("fork") \/ Refuses
    BY <2>1 DEF LooksUp, Enters, Refuses, Goto, Progress, Childless, entryVars, place, child
  <2>2. CASE InlineEnds
    BY <2>2 DEF InlineEnds, Goto, entryVars, child
  <2>3. CASE WaitsForEntry
    BY <2>3, CodeOfExit DEF WaitsForEntry, Goto, entryVars, child
  <2>4. CASE Cleans
    BY <2>4 DEF Cleans, Goto, entryVars, child
  <2>5. CASE ClosesSlave \/ Selects \/ RelaysOutput \/ OutputEnds \/ ReadsInput \/ InputEnds
    BY <2>5 DEF ClosesSlave, Selects, RelaysOutput, OutputEnds, ReadsInput, InputEnds, Goto, entryVars, child
  <2>6. CASE Feeds \/ FeedRaises \/ SendsEof
    BY <2>6 DEF Feeds, FeedRaises, SendsEof, Goto, entryVars, child
  <2> QED
    BY <1>1, <2>1, <2>2, <2>3, <2>4, <2>5, <2>6 DEF CliStep, RunsInteractive, RunsNonInteractive
<1>2. CASE UNCHANGED <<entryVars, cli>>
  BY <1>2 DEF entryVars, child, cli
<1>3. CASE EntryStep /\ UNCHANGED cli
  BY <1>3, EntryEnds DEF cli
<1>4. CASE (ChildStep \/ Ends \/ HeirsEnd) /\ UNCHANGED cli
  <2>1. /\ UNCHANGED <<entry, status, cli>> /\ (program' = "unborn") = (program = "unborn")
        /\ program = "over" => program' = "over" /\ ended' = ended
    BY <1>4 DEF ChildStep, Anchors, ClaimsTerminal, SetsNoNewPrivs, Execs, ExecFails, Ends, HeirsEnd,
                ProgramEnds
  <2> QED
    BY <2>1 DEF cli
<1>5. CASE ContainerStops /\ UNCHANGED cli
  <2>1. CASE cgroup = instance
    BY <1>5, <2>1 DEF ContainerStops, ProgramAlive, Progress, Outside, cli
  <2>2. CASE cgroup # instance
    BY <1>5, <2>2 DEF ContainerStops, cli
  <2> QED
    BY <2>1, <2>2
<1>6. CASE ContainerStarts /\ UNCHANGED cli
  BY <1>6 DEF ContainerStarts, child, cli
<1> QED
  BY <1>1, <1>2, <1>3, <1>4, <1>5, <1>6, StepKinds DEF EntrySystemStep

\* The command ends as the program did unless its relay raised or the container stopped
\* under the process that waits, however the two processes and the relay end
\* (_native.c's parent, _runner's child and cli._relay).
THEOREM StatusIsMirrored == Spec => []MirrorsStatus
<1>1. Init => MirrorInv
  BY DEF Init, EntryInit, MirrorInv
<1>2. MirrorInv => MirrorsStatus
  BY DEF MirrorInv, MirrorsStatus
<1> QED
  BY <1>1, <1>2, SessionInit, ProgressNext, MirrorNext, PTL DEF Spec

-----------------------------------------------------------------------------
(* Types                                                                   *)

\* The types in parts: flags, what is counted, and wait statuses, of which only those that
\* exit with a code, Kill and Alive come about; a signal above 127 would have no code.
Flags == idmap \in BOOLEAN /\ heirs \in BOOLEAN /\ closed \in BOOLEAN /\ polled \in BOOLEAN /\ raised \in BOOLEAN
Statuses == {Alive, Kill} \cup {Exit(code) : code \in 0..255}
Ending == ended \in Statuses /\ status \in Statuses /\ result \in Statuses
EntryPlaces ==
    /\ starts \in 1..MaxInstances /\ instance \in {0, starts}
    /\ entry \in {"unborn", "cgroup", "open", "resolve", "setns", "drop", "caps", "fork",
                  "wait", "failed", "exited"}
    /\ program \in {"unborn", "anchor", "terminal", "privs", "exec", "runs", "over"}
    /\ init \in 0..starts /\ cgroup \in 0..starts /\ target \in 0..starts
    /\ fds \subseteq Spaces \cup {User}
    /\ bounding \subseteq Caps
RelayPlaces ==
    /\ relay \in {"lookup", "check", "inline", "fork", "select", "output", "input", "feed", "eof",
                  "reap", "finally", "over"}
    /\ ready \subseteq {"master", "stdin"}
    /\ typed \in 0..MaxTyped /\ stdin \in 0..typed
    /\ inq \in 0..InRoom /\ outq \in 0..OutRoom

LEMMA SessionTypes == Flags /\ Ending /\ EntryPlaces /\ RelayPlaces /\ RestrictInv => TypeOK
<1> SUFFICES ASSUME Flags, Ending, EntryPlaces, RelayPlaces, RestrictInv PROVE TypeOK
  OBVIOUS
<1>1. Statuses \subseteq Endings
  BY DEF Statuses, Endings, Alive, Kill, Signal, Exit
<1>2. EntryTypeOK
  BY <1>1 DEF Flags, Ending, EntryPlaces, RestrictInv, EntryTypeOK
<1>3. result \in Endings
  BY <1>1 DEF Ending
<1> QED
  BY <1>2, <1>3 DEF Flags, RelayPlaces, TypeOK

LEMMA TypesInit == Init => Flags /\ Ending /\ EntryPlaces /\ RelayPlaces
<1> SUFFICES ASSUME Init PROVE Flags /\ Ending /\ EntryPlaces /\ RelayPlaces
  OBVIOUS
<1>1. Flags
  BY DEF Init, EntryInit, Flags
<1>2. Ending
  BY DEF Init, EntryInit, Ending, Statuses
<1>3. EntryPlaces
  BY InstancesNat DEF InstancesNat, Init, EntryInit, EntryPlaces
<1>4. RelayPlaces
  BY SomeRoom DEF SomeRoom, Init, RelayPlaces
<1> QED
  BY <1>1, <1>2, <1>3, <1>4

LEMMA FlagsNext == Flags /\ [Next]_vars => Flags'
<1> SUFFICES ASSUME Flags, [Next]_vars PROVE Flags'
  OBVIOUS
<1> USE DEF Flags
<1>1. CASE CliStep
  BY <1>1 DEF CliStep, LooksUp, Refuses, RunsInteractive, RunsNonInteractive, Enters, InlineEnds, ClosesSlave,
              Selects, RelaysOutput, OutputEnds, ReadsInput, InputEnds, Feeds, FeedRaises, SendsEof,
              WaitsForEntry, Cleans, entryVars, config, child, user
<1>2. CASE EntryStep /\ UNCHANGED <<closed, cli>>
  BY <1>2 DEF EntryStep, JoinsCgroup, JoinsAnother, CgroupIsGone, OpensNamespaces, OpenFails, NativeFails,
              Resolves, SetsUser, AllSet, DropsBounding, SetsCaps, Forks, Reaps, RaisesOut, SetsOther,
              config, child, cli
<1>3. CASE (ChildStep \/ Ends \/ HeirsEnd) /\ UNCHANGED <<closed, cli>>
  BY <1>3 DEF ChildStep, Anchors, ClaimsTerminal, SetsNoNewPrivs, Execs, ExecFails, Ends, HeirsEnd, config, cli
<1>4. CASE (ContainerStops \/ ContainerStarts) /\ UNCHANGED <<closed, cli>>
  BY <1>4 DEF ContainerStops, ContainerStarts, config, child, cli
<1>5. CASE Others \/ UNCHANGED vars
  BY <1>5 DEF Others, ProgramReads, ProgramWrites, Types, ClosesStdin, vars, entryVars, config, child, user, cli
<1> QED
  BY <1>1, <1>2, <1>3, <1>4, <1>5
     DEF Next, EntrySteps, ChildSteps, ProgramEndings, ContainerSteps, Others, user

LEMMA CodesInRange == \A s \in Statuses : Exit(Code(s)) \in Statuses
<1> SUFFICES ASSUME NEW s \in Statuses PROVE Code(s) \in 0..255
  BY DEF Statuses
<1>1. CASE s \in {Alive, Kill}
  BY <1>1 DEF Code, Alive, Kill, Signal
<1>2. CASE s \in {Exit(code) : code \in 0..255}
  BY <1>2, CodeOfExit
<1> QED
  BY <1>1, <1>2 DEF Statuses

LEMMA EndingNext == Ending /\ [Next]_vars => Ending'
<1> SUFFICES ASSUME Ending, [Next]_vars PROVE Ending'
  OBVIOUS
<1>0. Kill \in Statuses /\ \A code \in 0..255 : Exit(code) \in Statuses
  BY DEF Statuses
<1> USE DEF Ending
<1>1. CASE CliStep
  BY <1>0, <1>1, CodesInRange
     DEF CliStep, LooksUp, Refuses, RunsInteractive, RunsNonInteractive, Enters, InlineEnds, ClosesSlave,
         Selects, RelaysOutput, OutputEnds, ReadsInput, InputEnds, Feeds, FeedRaises, SendsEof,
         WaitsForEntry, Cleans, entryVars, child
<1>2. CASE EntryStep /\ UNCHANGED cli
  BY <1>0, <1>2, CodesInRange
     DEF EntryStep, JoinsCgroup, JoinsAnother, CgroupIsGone, OpensNamespaces, OpenFails, NativeFails,
         Resolves, SetsUser, AllSet, DropsBounding, SetsCaps, Forks, Reaps, RaisesOut, SetsOther, child, cli
<1>3. CASE (ChildStep \/ Ends \/ HeirsEnd) /\ UNCHANGED cli
  BY <1>0, <1>3 DEF ChildStep, Anchors, ClaimsTerminal, SetsNoNewPrivs, Execs, ExecFails, Ends, HeirsEnd,
                    ProgramEnds, cli
<1>4. CASE (ContainerStops \/ ContainerStarts) /\ UNCHANGED cli
  BY <1>0, <1>4 DEF ContainerStops, ContainerStarts, child, cli
<1>5. CASE UNCHANGED <<entryVars, cli>>
  BY <1>5 DEF entryVars, child, cli
<1> QED
  BY <1>1, <1>2, <1>3, <1>4, <1>5, StepKinds DEF EntrySystemStep

LEMMA EntryPlacesNext == EntryPlaces /\ [Next]_vars => EntryPlaces'
<1> SUFFICES ASSUME EntryPlaces, [Next]_vars PROVE EntryPlaces'
  OBVIOUS
<1> USE InstancesNat DEF InstancesNat, EntryPlaces, libvirt, place, caps, child, Outside, Fails
<1>1. CASE CliStep
  <2>1. CASE LooksUp
    BY <2>1 DEF LooksUp
  <2>2. CASE ~LooksUp
    <3>1. UNCHANGED <<libvirt, place, caps, program>> /\ entry' \in {entry, "cgroup"}
      BY <1>1, <2>2
         DEF CliStep, Refuses, RunsInteractive, RunsNonInteractive, Enters, InlineEnds, ClosesSlave,
             Selects, RelaysOutput, OutputEnds, ReadsInput, InputEnds, Feeds, FeedRaises, SendsEof,
             WaitsForEntry, Cleans, entryVars
    <3> QED
      BY <3>1
  <2> QED
    BY <2>1, <2>2
<1>2. CASE JoinsCgroup \/ JoinsAnother \/ CgroupIsGone \/ OpensNamespaces \/ OpenFails
  BY <1>2 DEF JoinsCgroup, JoinsAnother, CgroupIsGone, OpensNamespaces, OpenFails
<1>3. CASE NativeFails \/ Resolves \/ SetsUser \/ AllSet \/ (\E s \in Spaces : SetsOther(s))
  BY <1>3 DEF NativeFails, Resolves, SetsUser, AllSet, SetsOther
<1>4. CASE DropsBounding \/ SetsCaps \/ Forks \/ Reaps \/ RaisesOut
  BY <1>4 DEF DropsBounding, SetsCaps, Forks, Reaps, RaisesOut
<1>5. CASE ChildStep \/ Ends \/ HeirsEnd
  BY <1>5 DEF ChildStep, Anchors, ClaimsTerminal, SetsNoNewPrivs, Execs, ExecFails, Ends, HeirsEnd, ProgramEnds
<1>6. CASE ContainerStops
  BY <1>6 DEF ContainerStops
<1>7. CASE ContainerStarts
  BY <1>7 DEF ContainerStarts
<1>8. CASE UNCHANGED <<entryVars, cli>>
  BY <1>8 DEF entryVars
<1> QED
  BY <1>1, <1>2, <1>3, <1>4, <1>5, <1>6, <1>7, <1>8, StepKinds DEF EntrySystemStep, EntryStep

LEMMA RelayPlacesNext == RelayPlaces /\ [Next]_vars => RelayPlaces'
<1> SUFFICES ASSUME RelayPlaces, [Next]_vars PROVE RelayPlaces'
  OBVIOUS
<1> USE SomeRoom DEF SomeRoom, RelayPlaces, Goto, user, terminal, cli
<1>0. InRoom \in Nat /\ OutRoom \in Nat /\ MaxTyped \in Nat /\ inq \in Nat /\ outq \in Nat /\ typed \in Nat /\ stdin \in Nat
  OBVIOUS
<1>1. CASE LooksUp \/ Enters("inline") \/ Enters("fork") \/ Refuses \/ InlineEnds \/ WaitsForEntry \/ Cleans
  BY <1>1 DEF LooksUp, Enters, Refuses, InlineEnds, WaitsForEntry, Cleans
<1>2. CASE ClosesSlave \/ Selects \/ OutputEnds \/ InputEnds \/ FeedRaises
  BY <1>2 DEF ClosesSlave, Selects, Readable, OutputEnds, InputEnds, FeedRaises
<1>3. CASE RelaysOutput
  <2>1. outq' \in 0..OutRoom
    BY <1>0, <1>3 DEF RelaysOutput
  <2>2. UNCHANGED <<typed, stdin, inq, ready>> /\ relay' \in {"input", "select", "finally"}
    BY <1>3 DEF RelaysOutput
  <2> QED
    BY <2>1, <2>2
<1>4. CASE ReadsInput
  BY <1>0, <1>4 DEF ReadsInput
<1>5. CASE Feeds
  BY <1>0, <1>5 DEF Feeds
<1>6. CASE SendsEof
  <2>1. inq' \in 0..InRoom
    BY <1>0, <1>6 DEF SendsEof
  <2>2. UNCHANGED <<typed, stdin, outq, ready>> /\ relay' = "select"
    BY <1>6 DEF SendsEof
  <2> QED
    BY <2>1, <2>2
<1>7. CASE EntrySteps
  BY <1>7 DEF EntrySteps
<1>8. CASE ChildSteps \/ ProgramEndings \/ ContainerSteps \/ UNCHANGED vars
  BY <1>8 DEF ChildSteps, ProgramEndings, ContainerSteps, vars
<1>9. CASE ProgramReads
  BY <1>0, <1>9 DEF ProgramReads
<1>10. CASE ProgramWrites
  BY <1>0, <1>10 DEF ProgramWrites
<1>11. CASE Types
  <2>1. typed' = typed + 1 /\ stdin' = stdin + 1 /\ typed < MaxTyped /\ UNCHANGED <<relay, ready, inq, outq>>
    BY <1>11 DEF Types
  <2>2. typed' \in 0..MaxTyped /\ stdin' \in 0..typed'
    BY <1>0, <2>1
  <2> QED
    BY <2>1, <2>2
<1>12. CASE ClosesStdin
  BY <1>12 DEF ClosesStdin
<1> QED
  BY <1>1, <1>2, <1>3, <1>4, <1>5, <1>6, <1>7, <1>8, <1>9, <1>10, <1>11, <1>12
     DEF Next, CliStep, RunsInteractive, RunsNonInteractive

\* Type correctness: the terminal never holds more than it has room for, and every status that
\* comes about has a code.
THEOREM Typing == Spec => []TypeOK
<1>1. Init => Flags /\ Ending /\ EntryPlaces /\ RelayPlaces
  BY TypesInit
<1> QED
  BY <1>1, SessionInit, ProgressNext, RestrictNext, FlagsNext, EndingNext, EntryPlacesNext, RelayPlacesNext,
     SessionTypes, PTL DEF Spec

=============================================================================
