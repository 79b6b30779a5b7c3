----------------------------- MODULE Terminator -----------------------------
(***************************************************************************)
(* Stopping the old OS: TransitionToRescue and WaitForServicesToStop of     *)
(* internal/initsys/coordinator.go, then Terminate of                       *)
(* internal/process/terminator.go over what scanner.go and essential.go     *)
(* see, as runPivot calls them.                                             *)
(*                                                                         *)
(* Everything is known by process id, and looked at one id at a time, while *)
(* processes end, leave zombies and fork: an id may have another holder by  *)
(* the time it is signalled.                                                *)
(*                                                                         *)
(* Simplifications: the files of one process are read at once; names are    *)
(* the kinds of processes that the code tells apart; loops take ids in any  *)
(* order.                                                                   *)
(***************************************************************************)
EXTENDS Naturals, FiniteSets

CONSTANTS
  Pids,       \* process ids
  Self        \* this process's

ASSUME PidsAssumption == IsFiniteSet(Pids) /\ Self \in Pids

VARIABLES
  stage,      \* the next step
  todo,       \* ids the loop of this stage has still to visit
  late,       \* has the deadline of this stage passed?
  systemd,    \* is systemd the init system?
  \* Terminate
  info,       \* info[p]: what the scan has found under p
  targets,    \* what is to be terminated
  alive,      \* has this round of polling found somebody?
  still,      \* stillRunning
  stubborn,   \* StubbornPID
  terminated, \* Terminated
  killed,     \* Killed
  \* the processes
  holder,     \* holder[p]: the kind of process that has p, or "none"
  same,       \* same[p]: is it the one the scan has found there?
  hit         \* kinds of processes that were signalled as the scan found them

result == <<still, stubborn, terminated, killed>>
processes == <<holder, same>>
vars == <<stage, todo, late, systemd, info, targets, alive, result, processes, hit>>

Kinds == {"self", "parent", "essential", "kernel", "plain"}

----------------------------------------------------------------------------
(* Coordinator.  A call over the system bus has no timeout: it waits until  *)
(* systemd answers, or the bus fails (Answers, below).                      *)

\* --no-init-coord, or a container.
SkipCoordination ==
  /\ stage = "coordinate"
  /\ stage' = "scan"
  /\ UNCHANGED <<todo, late, systemd, info, targets, alive, result, processes, hit>>

\* Other init systems are left alone, with some seconds of grace.
WaitBriefly ==
  /\ stage = "coordinate" /\ ~systemd
  /\ stage' = "scan"
  /\ UNCHANGED <<todo, late, systemd, info, targets, alive, result, processes, hit>>

\* StartUnit: isolate basic.target.
TransitionToRescue ==
  /\ stage = "coordinate" /\ systemd
  /\ stage' = "start"
  /\ UNCHANGED <<todo, late, systemd, info, targets, alive, result, processes, hit>>

\* Mutant: the deadline is not looked at.
AskJobsForever ==
  /\ stage = "jobs"
  /\ stage' = "call"
  /\ UNCHANGED <<todo, late, systemd, info, targets, alive, result, processes, hit>>

\* The deadline is looked at between two calls of ListJobs.
AskJobs ==
  /\ stage = "jobs" /\ ~late
  /\ stage' = "call"
  /\ UNCHANGED <<todo, late, systemd, info, targets, alive, result, processes, hit>>

JobsTimeout ==
  /\ stage = "jobs" /\ late
  /\ stage' = "scan"
  /\ UNCHANGED <<todo, late, systemd, info, targets, alive, result, processes, hit>>

----------------------------------------------------------------------------
(* Scan.                                                                   *)

ReadDir ==
  /\ stage = "scan"
  /\ stage' = "read"
  /\ todo' = {p \in Pids : holder[p] # "none"}
  /\ UNCHANGED <<late, systemd, info, targets, alive, result, processes, hit>>

ScanFails ==
  /\ stage = "scan"
  /\ stage' = "done"
  /\ UNCHANGED <<todo, late, systemd, info, targets, alive, result, processes, hit>>

\* readProc; a process that has ended meanwhile is skipped.
ReadProc(p) ==
  /\ stage = "read" /\ p \in todo
  /\ todo' = todo \ {p}
  /\ info' = [info EXCEPT ![p] = holder[p]]
  /\ same' = [same EXCEPT ![p] = holder[p] # "none"]
  /\ UNCHANGED <<stage, late, systemd, targets, alive, result, holder, hit>>

----------------------------------------------------------------------------
(* Terminate.                                                              *)

\* A zombie has no command line and passes for a kernel thread.
IsKernelThread(kind) == kind \in {"kernel", "zombie"}
IsEssential(kind) == kind = "essential" \/ IsKernelThread(kind)

\* Mutant: the parent is not looked up.
ChooseTargetsOrphan ==
  /\ stage = "read" /\ todo = {}
  /\ targets' = {p \in Pids \ {Self} : info[p] # "none" /\ ~IsEssential(info[p])}
  /\ stage' = "term" /\ todo' = targets'
  /\ UNCHANGED <<late, systemd, info, alive, result, processes, hit>>

\* Getppid is asked now: a parent that has ended since it was read is no parent.
ChooseTargets ==
  /\ stage = "read" /\ todo = {}
  /\ targets' = {p \in Pids \ {Self} :
                   info[p] # "none" /\ ~IsEssential(info[p]) /\ holder[p] # "parent"}
  /\ stage' = "term" /\ todo' = targets'
  /\ UNCHANGED <<late, systemd, info, alive, result, processes, hit>>

\* A signal reaches whoever holds p by now, who may end by it or not.
Signal(p) ==
  /\ hit' = IF same[p] THEN hit \union {holder[p]} ELSE hit
  /\ \/ UNCHANGED processes
     \/ /\ holder[p] \in {"parent", "essential", "plain"}
        /\ holder' = [holder EXCEPT ![p] = "zombie"]
        /\ UNCHANGED same

Term(p) ==
  /\ stage = "term" /\ p \in todo
  /\ Signal(p)
  /\ todo' = todo \ {p}
  /\ UNCHANGED <<stage, late, systemd, info, targets, alive, result>>

StartPolling ==
  /\ stage = "term" /\ todo = {}
  /\ stage' = "grace" /\ todo' = targets /\ late' = FALSE /\ alive' = FALSE
  /\ UNCHANGED <<systemd, info, targets, result, processes, hit>>

IsRunning(p) == holder[p] # "none"

\* gracefulPolling
Poll(p) ==
  /\ stage = "grace" /\ p \in todo
  /\ alive' = (alive \/ IsRunning(p))
  /\ todo' = todo \ {p}
  /\ UNCHANGED <<stage, late, systemd, info, targets, result, processes, hit>>

PollAgain ==
  /\ stage = "grace" /\ todo = {} /\ alive /\ ~late
  /\ todo' = targets /\ alive' = FALSE
  /\ UNCHANGED <<stage, late, systemd, info, targets, result, processes, hit>>

\* Mutant: polling goes on until nobody is left.
PollingEndsGone ==
  /\ stage = "grace" /\ todo = {} /\ ~alive
  /\ stage' = "check" /\ todo' = targets
  /\ UNCHANGED <<late, systemd, info, targets, alive, result, processes, hit>>

PollingEnds ==
  /\ stage = "grace" /\ todo = {} /\ (late \/ ~alive)
  /\ stage' = "check" /\ todo' = targets
  /\ UNCHANGED <<late, systemd, info, targets, alive, result, processes, hit>>

Check(p) ==
  /\ stage = "check" /\ p \in todo
  /\ todo' = todo \ {p}
  /\ IF IsRunning(p) THEN still' = still \union {p} /\ UNCHANGED terminated
     ELSE terminated' = terminated + 1 /\ UNCHANGED still
  /\ UNCHANGED <<stage, late, systemd, info, targets, alive, stubborn, killed,
                 processes, hit>>

StartKilling ==
  /\ stage = "check" /\ todo = {}
  /\ stage' = "kill" /\ todo' = still
  /\ UNCHANGED <<late, systemd, info, targets, alive, result, processes, hit>>

Kill(p) ==
  /\ stage = "kill" /\ p \in todo
  /\ Signal(p)
  /\ todo' = todo \ {p}
  /\ killed' = killed + 1
  /\ UNCHANGED <<stage, late, systemd, info, targets, alive, still, stubborn, terminated>>

\* KillTimeout, when somebody was killed.
Sleep ==
  /\ stage = "kill" /\ todo = {}
  /\ stage' = "recheck" /\ todo' = still
  /\ UNCHANGED <<late, systemd, info, targets, alive, result, processes, hit>>

\* Mutant: SIGKILL is taken at its word.
RecheckTrusts(p) ==
  /\ stage = "recheck" /\ p \in todo
  /\ todo' = todo \ {p}
  /\ terminated' = terminated + 1
  /\ UNCHANGED <<stage, late, systemd, info, targets, alive, still, stubborn, killed,
                 processes, hit>>

Recheck(p) ==
  /\ stage = "recheck" /\ p \in todo
  /\ todo' = todo \ {p}
  /\ IF IsRunning(p) THEN stubborn' = stubborn \union {p} /\ UNCHANGED terminated
     ELSE terminated' = terminated + 1 /\ UNCHANGED stubborn
  /\ UNCHANGED <<stage, late, systemd, info, targets, alive, still, killed,
                 processes, hit>>

\* With an error if stubborn is not empty.
Return ==
  /\ stage = "recheck" /\ todo = {}
  /\ stage' = "done"
  /\ UNCHANGED <<todo, late, systemd, info, targets, alive, result, processes, hit>>

----------------------------------------------------------------------------
(* systemd, the clock and the processes.                                   *)

\* StartUnit returns when its job is queued; its failure is a warning.
StartUnitReturns ==
  /\ stage = "start"
  /\ stage' = "connect"
  /\ UNCHANGED <<todo, late, systemd, info, targets, alive, result, processes, hit>>

\* The second connection; without it there is nothing to measure.
BusConnects ==
  /\ stage = "connect"
  /\ stage' \in {"jobs", "scan"}
  /\ late' = FALSE
  /\ UNCHANGED <<todo, systemd, info, targets, alive, result, processes, hit>>

\* ListJobs: some job is left, or none is, or the call fails.
JobsListed ==
  /\ stage = "call"
  /\ stage' \in {"jobs", "scan"}
  /\ UNCHANGED <<todo, late, systemd, info, targets, alive, result, processes, hit>>

Deadline ==
  /\ stage \in {"jobs", "call", "grace"} /\ ~late
  /\ late' = TRUE
  /\ UNCHANGED <<stage, todo, systemd, info, targets, alive, result, processes, hit>>

Exit(p) ==
  /\ stage # "done"
  /\ holder[p] \in {"parent", "essential", "plain"}
  /\ holder' = [holder EXCEPT ![p] = "zombie"]
  /\ UNCHANGED <<stage, todo, late, systemd, info, targets, alive, result, same, hit>>

\* Its parent waits for it: the id is free.
Reaped(p) ==
  /\ stage # "done"
  /\ holder[p] = "zombie"
  /\ holder' = [holder EXCEPT ![p] = "none"]
  /\ same' = [same EXCEPT ![p] = FALSE]
  /\ UNCHANGED <<stage, todo, late, systemd, info, targets, alive, result, hit>>

Fork(p) ==
  /\ stage # "done"
  /\ holder[p] = "none"
  /\ \E kind \in {"essential", "plain"} : holder' = [holder EXCEPT ![p] = kind]
  /\ UNCHANGED <<stage, todo, late, systemd, info, targets, alive, result, same, hit>>

----------------------------------------------------------------------------
(* Specification.                                                          *)

Init ==
  /\ stage = "coordinate" /\ todo = {} /\ late = FALSE
  /\ systemd \in BOOLEAN
  /\ info = [p \in Pids |-> "none"]
  /\ targets = {} /\ alive = FALSE
  /\ still = {} /\ stubborn = {} /\ terminated = 0 /\ killed = 0
  /\ holder \in [Pids -> Kinds \union {"none", "zombie"}]
  /\ \A p \in Pids : holder[p] = "self" <=> p = Self
  /\ \A p, q \in Pids : holder[p] = "parent" /\ holder[q] = "parent" => p = q
  /\ same = [p \in Pids |-> FALSE]
  /\ hit = {}

Coordinate ==
  SkipCoordination \/ WaitBriefly \/ TransitionToRescue \/ AskJobs \/ JobsTimeout

Terminate ==
  \/ ReadDir \/ ScanFails \/ ChooseTargets \/ StartPolling \/ PollAgain \/ PollingEnds
  \/ StartKilling \/ Sleep \/ Return
  \/ \E p \in Pids : ReadProc(p) \/ Term(p) \/ Poll(p) \/ Check(p) \/ Kill(p) \/ Recheck(p)

Answers == StartUnitReturns \/ BusConnects \/ JobsListed

Environment ==
  \/ Answers
  \/ \E p \in Pids : Exit(p) \/ Reaped(p) \/ Fork(p)

Next == Coordinate \/ Terminate \/ Deadline \/ Environment

Spec == Init /\ [][Next]_vars

\* The goroutine is scheduled and time passes.  No process has to end, and systemd
\* need not answer.
FairSpec == Spec /\ WF_vars(Coordinate) /\ WF_vars(Terminate) /\ WF_vars(Deadline)

----------------------------------------------------------------------------
(* Properties.                                                             *)

TypeOK ==
  /\ stage \in {"coordinate", "start", "connect", "jobs", "call", "scan", "read", "term",
                "grace", "check", "kill", "recheck", "done"}
  /\ todo \subseteq Pids
  /\ late \in BOOLEAN /\ systemd \in BOOLEAN
  /\ alive \in BOOLEAN
  /\ info \in [Pids -> Kinds \union {"none", "zombie"}]
  /\ holder \in [Pids -> Kinds \union {"none", "zombie"}]
  /\ same \in [Pids -> BOOLEAN]
  /\ targets \subseteq Pids /\ still \subseteq targets /\ stubborn \subseteq still
  /\ terminated \in Nat /\ killed \in Nat
  /\ hit \subseteq Kinds \union {"zombie"}

\* Processes end and ids are taken over between the scan, the choice of targets and
\* the signals: still nobody is signalled whom the scan found and who must survive.
\* (Who comes to an id later may be: the code knows processes by their ids only.)
SparedAreSpared == hit \intersect {"self", "parent", "essential", "kernel"} = {}

\* A result without an error means that every process the scan has found, and meant
\* to end, has ended, even if its id is in use again.
NoErrorMeansGone ==
  stage = "done" /\ stubborn = {} => \A p \in targets : ~same[p]

\* The counts of the result are consistent, whatever ends between two looks.
ResultCounts ==
  stage = "done" =>
    /\ terminated + Cardinality(stubborn) = Cardinality(targets)
    /\ killed = Cardinality(still)

\* Whatever the processes do, or fork, and however many jobs systemd has, the pivot
\* gets on: the one thing it may wait for without a bound is an answer of systemd.
TerminateReturns == <>(stage = "done") \/ <>[](stage \in {"start", "connect", "call"})
=============================================================================
