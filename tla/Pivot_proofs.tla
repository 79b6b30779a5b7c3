---------------------------- MODULE Pivot_proofs ----------------------------
(***************************************************************************)
(* Proofs about Pivot, for every set of command lines and every number of   *)
(* invocations; and, at the end, about Xmorph, which extends it by the      *)
(* supervisor: their composition takes no step that DeadMan forbids.        *)
(***************************************************************************)
EXTENDS Xmorph, SequenceTheorems, TLAPS

----------------------------------------------------------------------------
(* Types.                                                                  *)

\* TypeOK is inductive with this: a process that exists has a number.
Numbered == pc # "idle" => run \in Runs

TypeInv == Typed /\ Numbered

Calls == {"unmountTmpfs", "disarm", "unlockThread"}

LEMMA NoCalls == <<>> \in Seq(Calls)
  BY DEF Calls

\* Namespaces that lose the tmpfs leave the types of the work directory alone.
LEMMA DropType ==
  ASSUME NEW ns, Typed, DropMounts(ns)
  PROVE  /\ tmpfs' \subseteq {"host", "private"}
         /\ mounter' \in 0..MaxRuns
         /\ ram' \subseteq Runs /\ dir' \subseteq Runs
<1>1. tmpfs' \subseteq tmpfs /\ dir' = dir /\ mounter' = mounter
  BY DEF DropMounts
<1>2. ram' = {} \/ ram' = ram
  BY DEF DropMounts
<1> QED
  BY <1>1, <1>2 DEF Typed

LEMMA InitType == Init => TypeInv /\ Booleans
<1>1. Init => TypeInv
  BY ConfigsAssumption, MaxRunsAssumption DEF Init, TypeInv, Typed, Numbered, Runs
<1>2. Init => Booleans
  BY Zenon DEF Init, Booleans
<1> QED
  BY <1>1, <1>2

\* A stage that leaves the process, the machine and the work directory as they are.
LEMMA StageType ==
  ASSUME TypeInv, pc # "idle", pc' \in Stages, outcome' \in {outcome, "returned"},
         checks' \subseteq {"reachable", "auth", "watchdog", "logdir"},
         harm' \subseteq {"services", "processes"},
         wd' \in 0..MaxRuns, UNCHANGED <<process, machine, workdir>>
  PROVE  TypeInv'
<1>1. run \in Runs
  BY DEF TypeInv, Numbered
<1>2. outcome' \in {"none", "returned", "KILL"} \union Catchable
  BY DEF TypeInv, Typed
<1> QED
  BY <1>1, <1>2 DEF TypeInv, Typed, Numbered, process, machine, workdir

\* One step per action, or per group of actions that assign the same variables.
LEMMA NextType == TypeInv /\ [Next]_vars => TypeInv'
<1> SUFFICES ASSUME TypeInv, [Next]_vars PROVE TypeInv'
  OBVIOUS
<1> USE MaxRunsAssumption DEF TypeInv, Typed, Numbered, Runs, Stages, Catchable
<1>1. CASE UNCHANGED vars
  BY <1>1 DEF vars, process, history, machine, workdir, dog
<1>2. ASSUME NEW c \in Configs, Invoke(c) PROVE TypeInv'
  BY <1>2, ConfigsAssumption DEF Invoke, machine, workdir, dog
<1>3. CASE Relocate
  BY <1>3 DEF Relocate, Goto, machine, workdir, dog
<1>4. CASE IgnoreSession
  BY <1>4 DEF IgnoreSession, Goto, machine, workdir, dog
<1>5. CASE UseWorkDirAsIs \/ ReuseMount \/ RefuseWorkDir
  <2>1. CASE UseWorkDirAsIs
    <3>1. pc # "idle" /\ pc' \in Stages /\ outcome' \in {outcome, "returned"}
      BY <2>1 DEF UseWorkDirAsIs, Goto
    <3>2. wd' \in 0..MaxRuns /\ UNCHANGED <<process, machine, workdir>>
      BY <2>1 DEF UseWorkDirAsIs, dog
    <3>3. /\ checks' \subseteq {"reachable", "auth", "watchdog", "logdir"}
          /\ harm' \subseteq {"services", "processes"}
      BY <2>1 DEF UseWorkDirAsIs
    <3> QED
      BY <3>1, <3>2, <3>3, StageType
  <2>2. CASE ReuseMount
    BY <2>2 DEF ReuseMount, Goto, Return, process, machine, workdir, dog
  <2>3. CASE RefuseWorkDir
    BY <2>3 DEF RefuseWorkDir, Return, process, machine, workdir, dog
  <2> QED
    BY <1>5, <2>1, <2>2, <2>3
<1>6. CASE MountTmpfs
  BY <1>6 DEF MountTmpfs, Defer, Goto, machine, dog
<1>7. CASE Build
  <2>1. UNCHANGED <<process, checks, harm, machine, tmpfs, mounter, dog>>
    BY <1>7 DEF Build
  <2>2. ram' \subseteq Runs /\ dir' \subseteq Runs
    <3>1. run \in Runs
      BY <1>7 DEF Build
    <3> QED
      BY <1>7, <3>1 DEF Build
  <2>3. pc' \in {"stage", "unwind"} /\ outcome' \in {outcome, "returned"} /\ run \in Runs
    BY <1>7 DEF Build, Goto, Return
  <2> QED
    BY <2>1, <2>2, <2>3 DEF process, machine, dog
<1>8. CASE StageFiles \/ PreAuth \/ CheckLogDir
  <2>1. CASE StageFiles
    <3>1. pc # "idle" /\ pc' \in Stages /\ outcome' \in {outcome, "returned"}
      BY <2>1 DEF StageFiles, Goto, Return
    <3>2. wd' \in 0..MaxRuns /\ UNCHANGED <<process, machine, workdir>>
      BY <2>1 DEF StageFiles, dog
    <3>3. /\ checks' \subseteq {"reachable", "auth", "watchdog", "logdir"}
          /\ harm' \subseteq {"services", "processes"}
      BY <2>1 DEF StageFiles
    <3> QED
      BY <3>1, <3>2, <3>3, StageType
  <2>2. CASE PreAuth
    <3>1. pc # "idle" /\ pc' \in Stages /\ outcome' \in {outcome, "returned"}
      BY <2>2 DEF PreAuth, Goto, Return
    <3>2. wd' \in 0..MaxRuns /\ UNCHANGED <<process, machine, workdir>>
      BY <2>2 DEF PreAuth, dog
    <3>3. /\ checks' \subseteq {"reachable", "auth", "watchdog", "logdir"}
          /\ harm' \subseteq {"services", "processes"}
      BY <2>2 DEF PreAuth
    <3> QED
      BY <3>1, <3>2, <3>3, StageType
  <2>3. CASE CheckLogDir
    <3>1. pc # "idle" /\ pc' \in Stages /\ outcome' \in {outcome, "returned"}
      BY <2>3 DEF CheckLogDir, Goto, Return
    <3>2. wd' \in 0..MaxRuns /\ UNCHANGED <<process, machine, workdir>>
      BY <2>3 DEF CheckLogDir, dog
    <3>3. /\ checks' \subseteq {"reachable", "auth", "watchdog", "logdir"}
          /\ harm' \subseteq {"services", "processes"}
      BY <2>3 DEF CheckLogDir
    <3> QED
      BY <3>1, <3>2, <3>3, StageType
  <2> QED
    BY <1>8, <2>1, <2>2, <2>3
<1>9. CASE ProbeWatchdog
  <2>1. pc # "idle" /\ pc' \in Stages /\ outcome' \in {outcome, "returned"}
    BY <1>9 DEF ProbeWatchdog, Goto, Return
  <2>2. wd' \in 0..MaxRuns /\ UNCHANGED <<process, machine, workdir>>
    BY <1>9 DEF ProbeWatchdog, dog
  <2>3. /\ checks' \subseteq {"reachable", "auth", "watchdog", "logdir"}
        /\ harm' \subseteq {"services", "processes"}
    BY <1>9 DEF ProbeWatchdog
  <2> QED
    BY <2>1, <2>2, <2>3, StageType
<1>22. CASE ProbeDisarm
  <2>1. pc # "idle" /\ pc' \in Stages /\ outcome' \in {outcome, "returned"}
    BY <1>22 DEF ProbeDisarm, Goto
  <2>2. wd' \in 0..MaxRuns /\ UNCHANGED <<process, machine, workdir>>
    BY <1>22 DEF ProbeDisarm, Disarm
  <2>3. /\ checks' \subseteq {"reachable", "auth", "watchdog", "logdir"}
        /\ harm' \subseteq {"services", "processes"}
    BY <1>22 DEF ProbeDisarm
  <2> QED
    BY <2>1, <2>2, <2>3, StageType
<1>10. CASE IgnoreOperator
  BY <1>10 DEF IgnoreOperator, Goto, machine, workdir, dog
<1>11. CASE Coordinate \/ TerminateProcesses
  <2>1. CASE Coordinate
    <3>1. pc # "idle" /\ pc' \in Stages /\ outcome' \in {outcome, "returned"}
      BY <2>1 DEF Coordinate, Goto
    <3>2. wd' \in 0..MaxRuns /\ UNCHANGED <<process, machine, workdir>>
      BY <2>1 DEF Coordinate, dog
    <3>3. /\ checks' \subseteq {"reachable", "auth", "watchdog", "logdir"}
          /\ harm' \subseteq {"services", "processes"}
      BY <2>1 DEF Coordinate
    <3> QED
      BY <3>1, <3>2, <3>3, StageType
  <2>2. CASE TerminateProcesses
    <3>1. pc # "idle" /\ pc' \in Stages /\ outcome' \in {outcome, "returned"}
      BY <2>2 DEF TerminateProcesses, Goto
    <3>2. wd' \in 0..MaxRuns /\ UNCHANGED <<process, machine, workdir>>
      BY <2>2 DEF TerminateProcesses, dog
    <3>3. /\ checks' \subseteq {"reachable", "auth", "watchdog", "logdir"}
          /\ harm' \subseteq {"services", "processes"}
      BY <2>2 DEF TerminateProcesses
    <3> QED
      BY <3>1, <3>2, <3>3, StageType
  <2> QED
    BY <1>11, <2>1, <2>2
<1>12. CASE ArmWatchdog
  BY <1>12 DEF ArmWatchdog, Defer, Disarm, Goto, Return, machine, workdir, dog
<1>13. CASE Prepare
  <2>1. tmpfs' = tmpfs \/ tmpfs' = {"host", "private"}
    BY <1>13 DEF Prepare
  <2>2. tmpfs' \subseteq {"host", "private"}
    BY <2>1
  <2> QED
    BY <1>13, <2>2 DEF Prepare, Defer, Goto, Return, machine, dog
<1>14. CASE MakeOldRootDir \/ PivotRoot \/ CleanupOldRoot
  <2>1. CASE MakeOldRootDir
    <3>1. pc # "idle" /\ pc' \in Stages /\ outcome' \in {outcome, "returned"}
      BY <2>1 DEF MakeOldRootDir, Goto, Return
    <3>2. wd' \in 0..MaxRuns /\ UNCHANGED <<process, machine, workdir>>
      BY <2>1 DEF MakeOldRootDir, dog
    <3>3. /\ checks' \subseteq {"reachable", "auth", "watchdog", "logdir"}
          /\ harm' \subseteq {"services", "processes"}
      BY <2>1 DEF MakeOldRootDir
    <3> QED
      BY <3>1, <3>2, <3>3, StageType
  <2>2. CASE PivotRoot
    BY <2>2 DEF PivotRoot, Goto, Return, process, machine, workdir, dog
  <2>3. CASE CleanupOldRoot
    BY <2>3 DEF CleanupOldRoot, Goto, Return, process, machine, workdir, dog
  <2> QED
    BY <1>14, <2>1, <2>2, <2>3
<1>15. CASE Exec
  <2>1. defers' = <<>> \/ defers' = defers
    BY <1>15 DEF Exec
  <2>2. defers' \in Seq(Calls)
    BY <2>1, NoCalls DEF Calls
  <2> QED
    BY <1>15, <2>2 DEF Exec, Return, machine, workdir, dog, Calls
<1>16. CASE UnlockThread
  BY <1>16 DEF UnlockThread, Pending, history, machine, workdir, dog
<1>24. CASE DisarmWatchdog
  BY <1>24 DEF DisarmWatchdog, Pending, Disarm, history, machine, workdir
<1>23. CASE UnmountTmpfs
  <2>1. /\ tmpfs' \subseteq {"host", "private"} /\ mounter' \in 0..MaxRuns
        /\ ram' \subseteq Runs /\ dir' \subseteq Runs
    BY <1>23, DropType DEF UnmountTmpfs, workdir
  <2> QED
    BY <1>23, <2>1 DEF UnmountTmpfs, Pending, history, machine, dog
<1>17. CASE Exit
  BY <1>17, DropType DEF Exit, ProcessEnds, machine
<1>18. ASSUME NEW s \in Catchable, Signal(s) PROVE TypeInv'
  BY <1>18, NoCalls, DropType DEF Signal, ProcessEnds, machine, Calls
<1>19. CASE Reap
  BY <1>19, NoCalls, DropType DEF Reap, ProcessEnds, machine, Calls
<1>20. CASE NetworkChange
  BY <1>20 DEF NetworkChange, Running, process, history, workdir, dog
<1>21. CASE Restart
  BY <1>21 DEF Restart, Disarm, machine
<1> QED
  BY <1>1, <1>2, <1>3, <1>4, <1>5, <1>6, <1>7, <1>8, <1>9, <1>10, <1>11, <1>12,
     <1>13, <1>14, <1>15, <1>16, <1>17, <1>18, <1>19, <1>20, <1>21,
     <1>22, <1>23, <1>24
  DEF Next, Stage, Unwind, Environment

\* The flags that are neither: Zenon knows Boolean values better than SMT.
LEMMA NextBooleans == Booleans /\ [Next]_vars => Booleans'
<1> SUFFICES ASSUME Booleans, [Next]_vars PROVE Booleans'
  OBVIOUS
<1> USE DEF Booleans
<1>1. CASE UNCHANGED vars
  BY <1>1, Zenon DEF vars, process, machine, dog
<1>2. ASSUME NEW c \in Configs, Invoke(c) PROVE Booleans'
  BY <1>2, Zenon DEF Invoke, machine, dog
<1>3. CASE Relocate
  BY <1>3, Zenon DEF Relocate, machine, dog
<1>4. CASE IgnoreSession \/ IgnoreOperator \/ MountTmpfs
  BY <1>4, Zenon DEF IgnoreSession, IgnoreOperator, MountTmpfs, machine, dog
<1>5. CASE UseWorkDirAsIs \/ ReuseMount \/ RefuseWorkDir \/ Build
  BY <1>5, Zenon DEF UseWorkDirAsIs, ReuseMount, RefuseWorkDir, Build, process, machine, dog
<1>6. CASE StageFiles \/ PreAuth \/ CheckLogDir \/ Coordinate \/ TerminateProcesses
  BY <1>6, Zenon DEF StageFiles, PreAuth, CheckLogDir, Coordinate, TerminateProcesses,
                     process, machine, dog
<1>7. CASE ProbeWatchdog \/ ProbeDisarm \/ ArmWatchdog
  BY <1>7, Zenon DEF ProbeWatchdog, ProbeDisarm, ArmWatchdog, Disarm, process, machine, dog
<1>8. CASE Prepare \/ MakeOldRootDir \/ PivotRoot \/ CleanupOldRoot \/ Exec
  BY <1>8, Zenon DEF Prepare, MakeOldRootDir, PivotRoot, CleanupOldRoot, Exec,
                     process, machine, dog
<1>9. CASE UnlockThread \/ DisarmWatchdog \/ UnmountTmpfs
  BY <1>9, Zenon DEF UnlockThread, DisarmWatchdog, UnmountTmpfs, Pending, Disarm, machine, dog
<1>10. CASE Exit
  BY <1>10, Zenon DEF Exit, ProcessEnds, machine
<1>11. ASSUME NEW s \in Catchable, Signal(s) PROVE Booleans'
  BY <1>11, Zenon DEF Signal, ProcessEnds, machine
<1>12. CASE Reap \/ NetworkChange \/ Restart
  BY <1>12, Zenon DEF Reap, NetworkChange, Restart, ProcessEnds, Disarm, process, machine, dog
<1> QED
  BY <1>1, <1>2, <1>3, <1>4, <1>5, <1>6, <1>7, <1>8, <1>9, <1>10, <1>11, <1>12
  DEF Next, Stage, Unwind, Environment

LEMMA PivotTyped == Spec => []TypeInv
<1>1. Init => TypeInv
  BY InitType
<1> QED
  BY <1>1, NextType, PTL DEF Spec

\* Every variable keeps its type, whatever the command lines.
THEOREM PivotTypeOK == Spec => []TypeOK
<1>1. Init => Booleans
  BY InitType
<1>2. Spec => []Booleans
  BY <1>1, NextBooleans, PTL DEF Spec
<1>3. TypeInv /\ Booleans => TypeOK
  BY DEF TypeInv, TypeOK
<1> QED
  BY <1>2, <1>3, PivotTyped, PTL
----------------------------------------------------------------------------
(* The point of no safe abort.                                             *)

\* The stages before signal.Ignore(SIGINT, SIGTERM), and those after it.
Attached  == {"relocate", "detach"}
Revocable == {"workdir", "build", "stage", "auth", "probe", "probed", "logdir", "commit"}
Committed == {"coordinate", "terminate", "arm", "prepare", "oldrootdir", "pivot",
              "cleanup", "exec"}

\* Harm is done only with every catchable signal ignored; the two steps that
\* ignore them come in time.
CommitInv ==
  /\ pc \in Attached \union Revocable => harm = {}
  /\ pc \in Revocable => {"HUP", "PIPE"} \subseteq ignored
  /\ pc \in Committed => Catchable \subseteq ignored
  /\ pc = "unwind" /\ harm # {} => Catchable \subseteq ignored
  /\ pc # "idle" => outcome \notin Catchable
  /\ CommitUninterruptible

LEMMA InitCommit == Init => CommitInv
  BY DEF Init, CommitInv, CommitUninterruptible, Attached, Revocable, Committed, Catchable

LEMMA NextCommit == TypeInv /\ CommitInv /\ [Next]_vars => CommitInv'
<1> SUFFICES ASSUME TypeInv, CommitInv, [Next]_vars PROVE CommitInv'
  OBVIOUS
<1> USE DEF CommitInv, CommitUninterruptible, Attached, Revocable, Committed, Catchable
<1>1. CASE UNCHANGED vars
  BY <1>1 DEF vars, process, history
<1>2. ASSUME NEW c \in Configs, Invoke(c) PROVE CommitInv'
  BY <1>2 DEF Invoke
<1>3. CASE Relocate \/ IgnoreSession
  BY <1>3 DEF Relocate, IgnoreSession, Goto
<1>4. CASE UseWorkDirAsIs \/ ReuseMount \/ MountTmpfs \/ RefuseWorkDir \/ Build
  BY <1>4 DEF UseWorkDirAsIs, ReuseMount, MountTmpfs, RefuseWorkDir, Build,
              Goto, Return, process
<1>5. CASE StageFiles \/ PreAuth \/ ProbeWatchdog \/ ProbeDisarm \/ CheckLogDir
  BY <1>5 DEF StageFiles, PreAuth, ProbeWatchdog, ProbeDisarm, CheckLogDir,
              Goto, Return, process
<1>6. CASE IgnoreOperator
  BY <1>6 DEF IgnoreOperator, Goto
<1>7. CASE Coordinate \/ TerminateProcesses
  BY <1>7 DEF Coordinate, TerminateProcesses, Goto, process
<1>8. CASE ArmWatchdog \/ Prepare \/ MakeOldRootDir
  BY <1>8 DEF ArmWatchdog, Prepare, MakeOldRootDir, Goto, Return, process
<1>9. CASE PivotRoot \/ CleanupOldRoot \/ Exec
  BY <1>9 DEF PivotRoot, CleanupOldRoot, Exec, Goto, Return
<1>10. CASE UnlockThread \/ DisarmWatchdog \/ UnmountTmpfs
  BY <1>10 DEF UnlockThread, DisarmWatchdog, UnmountTmpfs, Pending, history
<1>11. CASE Exit
  BY <1>11 DEF Exit, ProcessEnds
\* A signal that is not ignored finds the running OS whole.
<1>12. ASSUME NEW s \in Catchable, Signal(s) PROVE CommitInv'
  <2>1. harm = {}
    BY <1>12 DEF Signal, Running, Stages
  <2> QED
    BY <1>12, <2>1 DEF Signal, ProcessEnds
<1>13. CASE Reap
  BY <1>13 DEF Reap, ProcessEnds
<1>14. CASE NetworkChange
  BY <1>14 DEF NetworkChange, process, history
<1>15. CASE Restart
  BY <1>15 DEF Restart
<1> QED
  BY <1>1, <1>2, <1>3, <1>4, <1>5, <1>6, <1>7, <1>8, <1>9, <1>10, <1>11, <1>12,
     <1>13, <1>14, <1>15
  DEF Next, Stage, Unwind, Environment

LEMMA PivotCommits == Spec => []CommitInv
  BY InitCommit, NextCommit, PivotTyped, PTL DEF Spec

\* No catchable signal ends a run that has taken services or processes from the
\* running OS.
THEOREM PivotCommitUninterruptible == Spec => []CommitUninterruptible
<1>1. CommitInv => CommitUninterruptible
  BY DEF CommitInv
<1> QED
  BY <1>1, PivotCommits, PTL

----------------------------------------------------------------------------
(* The pre-flight checks.                                                  *)

\* The stages from the pre-authentication, the watchdog probe, the check of the
\* log directory and the commitment on.
CommitOn == {"commit", "supervisor"} \union Committed
LogDirOn == {"logdir"} \union CommitOn
ProbeOn  == {"probe", "probed"} \union LogDirOn
AuthOn   == {"auth"} \union ProbeOn

ChecksInv ==
  /\ pc \in AuthOn => "reachable" \in checks
  /\ pc \in ProbeOn /\ cfg["tailscale"] => "auth" \in checks
  /\ pc \in LogDirOn /\ cfg["watchdog"] => "watchdog" \in checks
  /\ pc \in CommitOn /\ cfg["logPersist"] => "logdir" \in checks
  /\ root = "ram" => pc \in {"cleanup", "exec", "unwind", "supervisor"}
  /\ HarmOnlyAfterChecks

\* Whoever gets as far as the commitment has passed all the checks asked for.
LEMMA CommittedChecked == ChecksInv /\ pc \in CommitOn => Required(cfg) \subseteq checks
  BY DEF ChecksInv, Required, AuthOn, ProbeOn, LogDirOn, CommitOn

LEMMA InitChecks == Init => ChecksInv
  BY DEF Init, ChecksInv, HarmOnlyAfterChecks, AuthOn, ProbeOn, LogDirOn, CommitOn, Committed

LEMMA NextChecks == TypeInv /\ CommitInv /\ ChecksInv /\ [Next]_vars => ChecksInv'
<1> SUFFICES ASSUME TypeInv, CommitInv, ChecksInv, [Next]_vars PROVE ChecksInv'
  OBVIOUS
<1> USE DEF ChecksInv, HarmOnlyAfterChecks, AuthOn, ProbeOn, LogDirOn, CommitOn, Committed
<1>1. CASE UNCHANGED vars
  BY <1>1 DEF vars, process, history
<1>2. ASSUME NEW c \in Configs, Invoke(c) PROVE ChecksInv'
  BY <1>2 DEF Invoke
<1>3. CASE Relocate \/ IgnoreSession
  BY <1>3 DEF Relocate, IgnoreSession, Goto
<1>4. CASE UseWorkDirAsIs \/ ReuseMount \/ MountTmpfs \/ RefuseWorkDir \/ Build
  BY <1>4 DEF UseWorkDirAsIs, ReuseMount, MountTmpfs, RefuseWorkDir, Build,
              Goto, Return, process
<1>5. CASE StageFiles \/ PreAuth
  BY <1>5 DEF StageFiles, PreAuth, Goto, Return, process, CommitInv, Revocable
<1>6. CASE ProbeWatchdog \/ ProbeDisarm \/ CheckLogDir
  BY <1>6 DEF ProbeWatchdog, ProbeDisarm, CheckLogDir, Goto, Return, process,
              CommitInv, Revocable
<1>7. CASE IgnoreOperator
  BY <1>7 DEF IgnoreOperator, Goto
<1>8. CASE Coordinate \/ TerminateProcesses
  <2>1. Required(cfg) \subseteq checks
    BY <1>8, CommittedChecked DEF Coordinate, TerminateProcesses
  <2> QED
    BY <1>8, <2>1 DEF Coordinate, TerminateProcesses, Goto, process
<1>9. CASE ArmWatchdog \/ Prepare \/ MakeOldRootDir
  BY <1>9 DEF ArmWatchdog, Prepare, MakeOldRootDir, Goto, Return, process
<1>10. CASE PivotRoot
  <2>1. Required(cfg) \subseteq checks
    BY <1>10, CommittedChecked DEF PivotRoot
  <2> QED
    BY <1>10, <2>1 DEF PivotRoot, Goto, Return
<1>11. CASE CleanupOldRoot \/ Exec
  BY <1>11 DEF CleanupOldRoot, Exec, Goto, Return
<1>12. CASE UnlockThread \/ DisarmWatchdog \/ UnmountTmpfs
  BY <1>12 DEF UnlockThread, DisarmWatchdog, UnmountTmpfs, Pending, history
<1>13. CASE Exit
  BY <1>13 DEF Exit, ProcessEnds
<1>14. ASSUME NEW s \in Catchable, Signal(s) PROVE ChecksInv'
  BY <1>14 DEF Signal, ProcessEnds
<1>15. CASE Reap
  BY <1>15 DEF Reap, ProcessEnds
<1>16. CASE NetworkChange
  BY <1>16 DEF NetworkChange, process, history
<1>17. CASE Restart
  BY <1>17 DEF Restart
<1> QED
  BY <1>1, <1>2, <1>3, <1>4, <1>5, <1>6, <1>7, <1>8, <1>9, <1>10, <1>11, <1>12,
     <1>13, <1>14, <1>15, <1>16, <1>17
  DEF Next, Stage, Unwind, Environment

LEMMA PivotChecked == Spec => []ChecksInv
  BY InitChecks, NextChecks, PivotTyped, PivotCommits, PTL DEF Spec

\* Services, processes and the root of the running OS are touched only after
\* every check the command line asks for has passed.
THEOREM PivotHarmOnlyAfterChecks == Spec => []HarmOnlyAfterChecks
<1>1. ChecksInv => HarmOnlyAfterChecks
  BY DEF ChecksInv
<1> QED
  BY <1>1, PivotChecked, PTL
----------------------------------------------------------------------------
(* Sequences of deferred calls.                                            *)

Has(s, call) == \E i \in 1..Len(s) : s[i] = call

\* Registering a call keeps the calls registered before it.
LEMMA AppendKeeps ==
  ASSUME NEW s \in Seq(Calls), NEW c \in Calls, NEW d
  PROVE  /\ Has(Append(s, c), c)
         /\ Has(s, d) => Has(Append(s, c), d)
<1>1. Append(s, c) \in Seq(Calls) /\ Len(Append(s, c)) = Len(s) + 1
  OBVIOUS
<1>2. Append(s, c)[Len(s) + 1] = c
  OBVIOUS
<1>3. \A i \in 1..Len(s) : Append(s, c)[i] = s[i]
  OBVIOUS
<1> QED
  BY <1>1, <1>2, <1>3 DEF Has

\* Running the last call leaves the others where they are.
LEMMA Pop ==
  ASSUME NEW s \in Seq(Calls), s # <<>>
  PROVE  LET t == SubSeq(s, 1, Len(s) - 1)
         IN  /\ t \in Seq(Calls)
             /\ Len(s) \in Nat \ {0}
             /\ Len(t) = Len(s) - 1
             /\ \A i \in 1..Len(t) : t[i] = s[i]
             /\ t = <<>> => Len(s) = 1
             /\ Len(s) = 1 => t = <<>>
<1> DEFINE t == SubSeq(s, 1, Len(s) - 1)
<1>1. Len(s) \in Nat \ {0} /\ \A i \in 1..Len(s) : s[i] \in Calls
  BY EmptySeq
<1>2. Len(s) - 1 \in Int /\ \A i \in 1..(Len(s) - 1) : s[i] \in Calls
  BY <1>1
<1>3. /\ t \in Seq(Calls)
      /\ Len(t) = IF 1 <= Len(s) - 1 THEN (Len(s) - 1) - 1 + 1 ELSE 0
      /\ \A i \in 1..((Len(s) - 1) - 1 + 1) : t[i] = s[1 + i - 1]
  BY <1>2, SubSeqProperties
<1> HIDE DEF t
<1>4. Len(t) = Len(s) - 1 /\ \A i \in 1..Len(t) : t[i] = s[i]
  <2>1. Len(t) = Len(s) - 1
    <3> DEFINE n == Len(s)
    <3>1. n \in Nat \ {0} /\ Len(t) = IF 1 <= n - 1 THEN (n - 1) - 1 + 1 ELSE 0
      BY <1>1, <1>3
    <3> HIDE DEF n
    <3>2. Len(t) = n - 1
      BY <3>1
    <3> QED
      BY <3>2 DEF n
  <2>2. ASSUME NEW i \in 1..Len(t) PROVE t[i] = s[i]
    <3>1. i \in Nat /\ i \in 1..((Len(s) - 1) - 1 + 1) /\ 1 + i - 1 = i
      BY <1>1, <2>1
    <3> QED
      BY <3>1, <1>3
  <2> QED
    BY <2>1, <2>2
<1>5. t = <<>> => Len(s) = 1
  <2>1. t = <<>> => Len(t) = 0
    BY EmptySeq
  <2> QED
    BY <1>1, <1>4, <2>1
<1>6. Len(s) = 1 => t = <<>>
  BY <1>4, <1>3, EmptySeq
<1> QED
  BY <1>1, <1>3, <1>4, <1>5, <1>6 DEF t

LEMMA PopKeeps ==
  ASSUME NEW s \in Seq(Calls), s # <<>>, NEW d, s[Len(s)] # d, Has(s, d)
  PROVE  Has(SubSeq(s, 1, Len(s) - 1), d)
<1>1. PICK i \in 1..Len(s) : s[i] = d
  BY DEF Has
<1>2. i \in 1..(Len(s) - 1)
  BY <1>1
<1>3. Len(SubSeq(s, 1, Len(s) - 1)) = Len(s) - 1 /\ SubSeq(s, 1, Len(s) - 1)[i] = s[i]
  BY <1>2
<1> QED
  BY <1>1, <1>2, <1>3 DEF Has

----------------------------------------------------------------------------
(* The watchdog.                                                           *)

Disarmed == {"relocate", "detach", "workdir", "build", "stage", "auth", "probe",
             "logdir", "commit", "coordinate", "terminate", "arm"}
Armed    == {"prepare", "oldrootdir", "pivot", "cleanup", "exec"}

\* A timer of this run ticks only between the arming and the disarming, which
\* is among the deferred calls all the while.
DogInv ==
  /\ wd <= run
  /\ pc \in Disarmed => wd # run
  /\ pc \in Armed /\ cfg["watchdog"] => wd = run /\ wdfd
  /\ pc \in Armed \union {"unwind"} /\ wd = run => Has(defers, "disarm")
  /\ SupervisorIsArmed
  /\ ReturnDisarms

LEMMA InitDog == Init => DogInv
  BY DEF Init, DogInv, SupervisorIsArmed, ReturnDisarms, Disarmed, Armed

LEMMA NextDog == TypeInv /\ DogInv /\ [Next]_vars => DogInv'
<1> SUFFICES ASSUME TypeInv, DogInv, [Next]_vars PROVE DogInv'
  OBVIOUS
<1> USE DEF DogInv, SupervisorIsArmed, ReturnDisarms, Disarmed, Armed
<1>a. run \in Nat /\ wd \in Nat /\ defers \in Seq(Calls) /\ (pc # "idle" => run > 0)
  BY MaxRunsAssumption DEF TypeInv, Typed, Numbered, Runs, Calls
<1>1. CASE UNCHANGED vars
  BY <1>1 DEF vars, process, history, dog
<1>2. ASSUME NEW c \in Configs, Invoke(c) PROVE DogInv'
  BY <1>2, <1>a DEF Invoke, dog
<1>3. CASE Relocate \/ IgnoreSession \/ IgnoreOperator
  BY <1>3 DEF Relocate, IgnoreSession, IgnoreOperator, Goto, dog
<1>4. CASE UseWorkDirAsIs \/ ReuseMount \/ MountTmpfs \/ RefuseWorkDir \/ Build
  BY <1>4 DEF UseWorkDirAsIs, ReuseMount, MountTmpfs, RefuseWorkDir, Build,
              Goto, Return, process, dog
<1>5. CASE StageFiles \/ PreAuth \/ CheckLogDir
  BY <1>5 DEF StageFiles, PreAuth, CheckLogDir, Goto, Return, process, dog
<1>6. CASE ProbeWatchdog
  BY <1>6, <1>a DEF ProbeWatchdog, Goto, Return, process, dog
<1>7. CASE ProbeDisarm
  BY <1>7, <1>a DEF ProbeDisarm, Disarm, Goto, process
<1>8. CASE Coordinate \/ TerminateProcesses
  BY <1>8 DEF Coordinate, TerminateProcesses, Goto, process, dog
\* The three ways through the arming: no watchdog, armed with the disarming
\* deferred, an error.
<1>9. CASE ArmWatchdog
  <2>1. CASE ~cfg["watchdog"] /\ Goto("prepare") /\ UNCHANGED <<dog, defers>>
    BY <1>9, <2>1 DEF ArmWatchdog, Goto, dog
  <2>2. CASE cfg["watchdog"] /\ wd' = run /\ wdfd' = TRUE /\ Defer("disarm") /\ Goto("prepare")
    <3>1. Has(defers', "disarm")
      BY <2>2, <1>a, AppendKeeps DEF Defer, Calls
    <3> QED
      BY <1>9, <2>2, <3>1, <1>a DEF ArmWatchdog, Goto
  <2>3. CASE cfg["watchdog"] /\ Return /\ (Disarm \/ UNCHANGED dog) /\ UNCHANGED defers
    BY <1>9, <2>3, <1>a DEF ArmWatchdog, Return, Disarm, dog
  <2> QED
    BY <1>9, <2>1, <2>2, <2>3 DEF ArmWatchdog
<1>10. CASE Prepare
  <2>1. Has(defers, "disarm") => Has(defers', "disarm")
    BY <1>10, <1>a, AppendKeeps DEF Prepare, Defer, Calls
  <2> QED
    BY <1>10, <2>1 DEF Prepare, Goto, Return, dog
<1>11. CASE MakeOldRootDir \/ PivotRoot \/ CleanupOldRoot \/ Exec
  BY <1>11 DEF MakeOldRootDir, PivotRoot, CleanupOldRoot, Exec, Goto, Return, process, dog
<1>12. CASE UnlockThread \/ UnmountTmpfs
  <2>1. Has(defers, "disarm") => Has(defers', "disarm")
    BY <1>12, <1>a, PopKeeps DEF UnlockThread, UnmountTmpfs, Pending
  <2> QED
    BY <1>12, <2>1 DEF UnlockThread, UnmountTmpfs, Pending, dog
<1>13. CASE DisarmWatchdog
  BY <1>13, <1>a DEF DisarmWatchdog, Disarm, Pending
<1>14. CASE Exit
  <2>1. ~Has(defers, "disarm")
    BY <1>14 DEF Exit, Has
  <2> QED
    BY <1>14, <2>1 DEF Exit, ProcessEnds
<1>15. ASSUME NEW s \in Catchable, Signal(s) PROVE DogInv'
  BY <1>15 DEF Signal, ProcessEnds, Catchable
<1>16. CASE Reap
  BY <1>16 DEF Reap, ProcessEnds
<1>17. CASE NetworkChange
  BY <1>17 DEF NetworkChange, process, history, dog
<1>18. CASE Restart
  BY <1>18, <1>a DEF Restart, Disarm
<1> QED
  BY <1>1, <1>2, <1>3, <1>4, <1>5, <1>6, <1>7, <1>8, <1>9, <1>10, <1>11, <1>12,
     <1>13, <1>14, <1>15, <1>16, <1>17, <1>18
  DEF Next, Stage, Unwind, Environment

LEMMA PivotDog == Spec => []DogInv
  BY InitDog, NextDog, PivotTyped, PTL DEF Spec

\* A run that returns to the shell leaves no timer of its own ticking, wherever
\* it failed.
THEOREM PivotReturnDisarms == Spec => []ReturnDisarms
<1>1. DogInv => ReturnDisarms
  BY DEF DogInv
<1> QED
  BY <1>1, PivotDog, PTL

\* The supervisor finds the watchdog ticking and its descriptor open.
THEOREM PivotSupervisorIsArmed == Spec => []SupervisorIsArmed
<1>1. DogInv => SupervisorIsArmed
  BY DEF DogInv
<1> QED
  BY <1>1, PivotDog, PTL
----------------------------------------------------------------------------
(* The tmpfs of the rootfs.                                                *)

Mounted == {"build", "stage", "auth", "probe", "probed", "logdir"} \union CommitOn
Private == {"oldrootdir", "pivot", "cleanup", "exec"}
Mine    == "host" \in tmpfs /\ mounter = run

\* The unmount is the first call deferred, so the last one run: by then either
\* the goroutine is back on a thread of the host's namespace and the unmount
\* takes the mount away, or it never comes back.
ReleaseInv ==
  /\ mounter <= run
  /\ pc \in {"relocate", "detach", "workdir"} => mounter # run /\ defers = <<>>
  /\ pc \in Mounted \ {"supervisor"} /\ Mine => defers # <<>>
  /\ pc \in (Mounted \ {"supervisor"}) \union {"unwind"} /\ Mine /\ defers # <<>> =>
       defers[1] = "unmountTmpfs"
  /\ \A i \in 2..Len(defers) : defers[i] # "unmountTmpfs"
  /\ pc = "unwind" /\ Mine /\ defers = <<>> => thread = "private"
  /\ thread = "host" => root = "disk"
  /\ pc \in Private => thread = "private"
  /\ ReturnReleases

LEMMA InitRelease == Init => ReleaseInv
  BY DEF Init, ReleaseInv, ReturnReleases, Mounted, Private, CommitOn, Committed

LEMMA NextRelease == TypeInv /\ ChecksInv /\ ReleaseInv /\ [Next]_vars => ReleaseInv'
<1> SUFFICES ASSUME TypeInv, ChecksInv, ReleaseInv, [Next]_vars PROVE ReleaseInv'
  OBVIOUS
<1> USE DEF ReleaseInv, ReturnReleases, Mounted, Private, Mine, CommitOn, Committed
<1>a. /\ run \in Nat /\ mounter \in Nat /\ defers \in Seq(Calls)
      /\ (pc # "idle" => run > 0)
  BY MaxRunsAssumption DEF TypeInv, Typed, Numbered, Runs, Calls
<1>b. pc = "idle" => root = "disk"
  BY DEF ChecksInv, TypeInv, Typed
<1>1. CASE UNCHANGED vars
  BY <1>1 DEF vars, process, history, workdir
<1>2. ASSUME NEW c \in Configs, Invoke(c) PROVE ReleaseInv'
  BY <1>2, <1>a, <1>b DEF Invoke, workdir
<1>3. CASE Relocate \/ IgnoreSession \/ IgnoreOperator
  BY <1>3 DEF Relocate, IgnoreSession, IgnoreOperator, Goto, workdir
<1>4. CASE UseWorkDirAsIs \/ ReuseMount \/ RefuseWorkDir
  BY <1>4 DEF UseWorkDirAsIs, ReuseMount, RefuseWorkDir, Goto, Return, process, workdir
<1>5. CASE MountTmpfs
  <2>1. defers' = <<"unmountTmpfs">>
    BY <1>5 DEF MountTmpfs, Defer
  <2> QED
    BY <1>5, <2>1, <1>a DEF MountTmpfs, Goto
<1>6. CASE Build \/ StageFiles \/ PreAuth \/ ProbeWatchdog \/ ProbeDisarm \/ CheckLogDir
  BY <1>6 DEF Build, StageFiles, PreAuth, ProbeWatchdog, ProbeDisarm, CheckLogDir,
              Goto, Return, process, workdir
<1>7. CASE Coordinate \/ TerminateProcesses
  BY <1>7 DEF Coordinate, TerminateProcesses, Goto, process, workdir
\* What is deferred later lies behind the unmount.
<1>8. ASSUME NEW call \in Calls \ {"unmountTmpfs"}, Defer(call), pc \in Mounted
      PROVE  /\ \A i \in 2..Len(defers') : defers'[i] # "unmountTmpfs"
             /\ defers # <<>> => defers'[1] = defers[1]
             /\ defers' # <<>>
  <2>1. /\ Len(defers') = Len(defers) + 1
        /\ \A i \in 1..Len(defers) : defers'[i] = defers[i]
        /\ defers'[Len(defers) + 1] = call
    BY <1>8, <1>a DEF Defer
  <2> QED
    BY <2>1, <1>8, <1>a
<1>9. CASE ArmWatchdog
  <2>1. CASE UNCHANGED defers
    BY <1>9, <2>1 DEF ArmWatchdog, Goto, Return, workdir
  <2>2. CASE Defer("disarm") /\ Goto("prepare")
    BY <1>9, <2>2, <1>8 DEF ArmWatchdog, Goto, workdir, Calls
  <2> QED
    BY <1>9, <2>1, <2>2 DEF ArmWatchdog
<1>10. CASE Prepare
  <2>1. /\ \A i \in 2..Len(defers') : defers'[i] # "unmountTmpfs"
        /\ defers # <<>> => defers'[1] = defers[1]
        /\ defers' # <<>>
    BY <1>10, <1>8 DEF Prepare, Calls
  <2>2. "host" \in tmpfs' <=> "host" \in tmpfs
    BY <1>10 DEF Prepare
  <2>3. /\ pc = "prepare" /\ pc' \in {"oldrootdir", "unwind"}
        /\ pc' = "oldrootdir" => thread' = "private"
        /\ thread' \in {thread, "private"}
        /\ outcome' \in {outcome, "returned"}
        /\ UNCHANGED <<run, root, mounter>>
    BY <1>10 DEF Prepare, Goto, Return
  <2> QED
    BY <2>1, <2>2, <2>3
<1>11. CASE MakeOldRootDir \/ PivotRoot \/ CleanupOldRoot
  BY <1>11 DEF MakeOldRootDir, PivotRoot, CleanupOldRoot, Goto, Return, process, workdir
<1>12. CASE Exec
  BY <1>12 DEF Exec, Return, workdir
<1>13. ASSUME NEW call, Pending(call)
       PROVE  /\ pc = "unwind" /\ pc' = "unwind" /\ UNCHANGED <<run, outcome>>
              /\ \A i \in 2..Len(defers') : defers'[i] # "unmountTmpfs"
              /\ defers' # <<>> => defers'[1] = defers[1]
              /\ call = "unmountTmpfs" => defers' = <<>>
              /\ defers' = <<>> => defers[1] = call
  <2>1. /\ pc = "unwind" /\ pc' = "unwind" /\ UNCHANGED <<run, outcome>>
        /\ defers # <<>> /\ defers[Len(defers)] = call
        /\ defers' = SubSeq(defers, 1, Len(defers) - 1)
    BY <1>13 DEF Pending, history
  <2>2. /\ Len(defers) \in Nat \ {0}
        /\ Len(defers') = Len(defers) - 1
        /\ \A i \in 1..Len(defers') : defers'[i] = defers[i]
        /\ defers' = <<>> => Len(defers) = 1
        /\ Len(defers) = 1 => defers' = <<>>
        /\ defers' # <<>> => Len(defers') # 0
    BY <2>1, <1>a, Pop
  <2>3. call = "unmountTmpfs" => Len(defers) = 1
    BY <2>1, <2>2
  <2> QED
    BY <2>1, <2>2, <2>3
<1>14. CASE UnlockThread
  <2>1. Pending("unlockThread")
    BY <1>14 DEF UnlockThread
  <2>2. /\ pc = "unwind" /\ pc' = "unwind" /\ UNCHANGED <<run, outcome>>
        /\ \A i \in 2..Len(defers') : defers'[i] # "unmountTmpfs"
        /\ defers' # <<>> => defers'[1] = defers[1]
        /\ defers # <<>>
    BY <2>1, <1>13 DEF Pending
  <2>3. /\ UNCHANGED workdir
        /\ \/ UNCHANGED <<thread, root>>
           \/ thread' = "host" /\ root' = "disk"
    BY <1>14 DEF UnlockThread
  <2>4. ~(Mine /\ defers' = <<>>)
    BY <2>1, <2>2, <1>13
  <2> QED
    BY <2>2, <2>3, <2>4 DEF workdir
<1>15. CASE DisarmWatchdog
  <2>1. Pending("disarm")
    BY <1>15 DEF DisarmWatchdog
  <2>2. /\ pc = "unwind" /\ pc' = "unwind" /\ UNCHANGED <<run, outcome>>
        /\ \A i \in 2..Len(defers') : defers'[i] # "unmountTmpfs"
        /\ defers' # <<>> => defers'[1] = defers[1]
        /\ defers # <<>>
    BY <2>1, <1>13 DEF Pending
  <2>3. UNCHANGED <<thread, root, workdir>>
    BY <1>15 DEF DisarmWatchdog
  <2>4. ~(Mine /\ defers' = <<>>)
    BY <2>1, <2>2, <1>13
  <2> QED
    BY <2>2, <2>3, <2>4 DEF workdir
<1>16. CASE UnmountTmpfs
  <2>1. thread' = thread /\ root' = root /\ mounter' = mounter
    BY <1>16 DEF UnmountTmpfs, workdir, DropMounts
  <2>2. thread = "host" => "host" \notin tmpfs'
    BY <1>16 DEF UnmountTmpfs, DropMounts
  <2>3. thread \in {"host", "private"}
    BY DEF TypeInv, Typed
  <2> QED
    BY <1>16, <1>13, <2>1, <2>2, <2>3 DEF UnmountTmpfs
<1>17. CASE Exit
  <2>1. mounter' = mounter /\ tmpfs' \subseteq tmpfs
    BY <1>17 DEF Exit, ProcessEnds, DropMounts
  <2>2. pc = "unwind" /\ pc' = "idle" /\ defers = <<>> /\ root' = "disk"
        /\ UNCHANGED <<run, thread, defers, outcome>>
    BY <1>17 DEF Exit, ProcessEnds
  <2> QED
    BY <2>1, <2>2
<1>18. ASSUME NEW s \in Catchable, Signal(s) PROVE ReleaseInv'
  BY <1>18 DEF Signal, ProcessEnds, DropMounts, Catchable
<1>19. CASE Reap
  BY <1>19 DEF Reap, ProcessEnds, DropMounts
<1>20. CASE NetworkChange
  BY <1>20 DEF NetworkChange, process, history, workdir
<1>21. CASE Restart
  BY <1>21, <1>a DEF Restart
<1> QED
  BY <1>1, <1>2, <1>3, <1>4, <1>5, <1>6, <1>7, <1>9, <1>10, <1>11, <1>12, <1>14,
     <1>15, <1>16, <1>17, <1>18, <1>19, <1>20, <1>21
  DEF Next, Stage, Unwind, Environment

\* A run that returns on a thread of the host's namespace has released its tmpfs.
THEOREM PivotReturnReleases == Spec => []ReturnReleases
<1>2. Spec => []ReleaseInv
  BY PivotChecked, InitRelease, NextRelease, PivotTyped, PTL DEF Spec
<1>3. ReleaseInv => ReturnReleases
  BY DEF ReleaseInv
<1> QED
  BY <1>2, <1>3, PTL

\* A run that returns leaves behind neither its timer nor, in the host's namespace, its
\* tmpfs, wherever it failed: the deferred calls of runPivot undo both.
THEOREM PivotReturnUndoes == Spec => []ReturnUndoes
  BY PivotReturnDisarms, PivotReturnReleases, PTL DEF ReturnUndoes
----------------------------------------------------------------------------
(* The rootfs.                                                             *)

\* The layers are extracted into an empty tmpfs, which stays as it is.
FreshInv ==
  /\ pc = "build" /\ cfg["ownTmpfs"] => "host" \in tmpfs /\ ram = {}
  /\ pc \in Mounted \ {"build"} /\ cfg["ownTmpfs"] => "host" \in tmpfs /\ ram = {run}
  /\ root = "ram" /\ cfg["ownTmpfs"] => "host" \in tmpfs /\ ram = {run}

LEMMA InitFresh == Init => FreshInv
  BY DEF Init, FreshInv, Mounted, CommitOn, Committed

LEMMA NextFresh == ChecksInv /\ FreshInv /\ [Next]_vars => FreshInv'
<1> SUFFICES ASSUME ChecksInv, FreshInv, [Next]_vars PROVE FreshInv'
  OBVIOUS
<1> USE DEF FreshInv, Mounted, CommitOn, Committed
<1>a. pc \in {"idle", "workdir", "build", "pivot"} => root # "ram"
  BY DEF ChecksInv
<1>1. CASE UNCHANGED vars
  BY <1>1 DEF vars, process, workdir
<1>2. ASSUME NEW c \in Configs, Invoke(c) PROVE FreshInv'
  BY <1>2, <1>a DEF Invoke, workdir
<1>3. CASE Relocate \/ IgnoreSession \/ IgnoreOperator
  BY <1>3 DEF Relocate, IgnoreSession, IgnoreOperator, Goto, workdir
<1>4. CASE UseWorkDirAsIs \/ ReuseMount \/ RefuseWorkDir
  BY <1>4, <1>a DEF UseWorkDirAsIs, ReuseMount, RefuseWorkDir, Goto, Return, process, workdir
<1>5. CASE MountTmpfs
  BY <1>5, <1>a DEF MountTmpfs, Goto
<1>6. CASE Build
  <2>1. /\ pc = "build" /\ pc' \in {"stage", "unwind"} /\ UNCHANGED <<root, cfg, run, tmpfs>>
        /\ pc' = "stage" /\ "host" \in tmpfs => ram' = ram \union {run}
    BY <1>6 DEF Build, Goto, Return, process
  <2> QED
    BY <2>1, <1>a
<1>7. CASE StageFiles \/ PreAuth \/ ProbeWatchdog \/ ProbeDisarm \/ CheckLogDir
  BY <1>7 DEF StageFiles, PreAuth, ProbeWatchdog, ProbeDisarm, CheckLogDir,
              Goto, Return, process, workdir
<1>8. CASE Coordinate \/ TerminateProcesses \/ ArmWatchdog \/ MakeOldRootDir
  BY <1>8 DEF Coordinate, TerminateProcesses, ArmWatchdog, MakeOldRootDir,
              Goto, Return, process, workdir
<1>9. CASE Prepare
  <2>1. "host" \in tmpfs => "host" \in tmpfs'
    BY <1>9 DEF Prepare
  <2> QED
    BY <1>9, <2>1 DEF Prepare, Goto, Return
<1>10. CASE PivotRoot \/ CleanupOldRoot \/ Exec
  BY <1>10 DEF PivotRoot, CleanupOldRoot, Exec, Goto, Return, workdir
<1>11. CASE UnlockThread \/ DisarmWatchdog
  BY <1>11 DEF UnlockThread, DisarmWatchdog, Pending, workdir
\* Inside the new root the unmount finds nothing.
<1>12. CASE UnmountTmpfs
  BY <1>12 DEF UnmountTmpfs, Pending, workdir, DropMounts
<1>13. CASE Exit
  BY <1>13 DEF Exit, ProcessEnds
<1>14. ASSUME NEW s \in Catchable, Signal(s) PROVE FreshInv'
  BY <1>14 DEF Signal, ProcessEnds
<1>15. CASE Reap
  BY <1>15 DEF Reap, ProcessEnds
<1>16. CASE NetworkChange
  BY <1>16 DEF NetworkChange, process, workdir
<1>17. CASE Restart
  BY <1>17 DEF Restart
<1> QED
  BY <1>1, <1>2, <1>3, <1>4, <1>5, <1>6, <1>7, <1>8, <1>9, <1>10, <1>11, <1>12,
     <1>13, <1>14, <1>15, <1>16, <1>17
  DEF Next, Stage, Unwind, Environment

\* The new root holds the layers of this run alone, whatever earlier runs left.
THEOREM PivotFreshRoot == Spec => []FreshRoot
<1>2. Spec => []FreshInv
  BY PivotChecked, InitFresh, NextFresh, PTL DEF Spec
<1>3. FreshInv => FreshRoot
  BY DEF FreshInv, FreshRoot, Contents
<1> QED
  BY <1>2, <1>3, PTL

----------------------------------------------------------------------------
(* Every run comes to an end.                                              *)

\* The stages in the order they come in, down to two: a run that returns from the
\* last one may register a call, and exits.
ToCome ==
  [relocate |-> 19, detach |-> 18, workdir |-> 17, build |-> 16, stage |-> 15, auth |-> 14,
   probe |-> 13, probed |-> 12, logdir |-> 11, commit |-> 10, coordinate |-> 9,
   terminate |-> 8, arm |-> 7, prepare |-> 6, oldrootdir |-> 5, pivot |-> 4, cleanup |-> 3,
   exec |-> 2]

\* A bound for the steps a run has still to take: two for each stage, one of which pays
\* for a call it may register, and one for each deferred call and the exit.
Left ==
  IF pc = "unwind" THEN Len(defers) + 1
  ELSE IF Running THEN 2 * ToCome[pc] + Len(defers)
  ELSE 0

LeftInv == Left \in 0..38 /\ (Left = 0 <=> ~Running)

\* The steps of the program lower the bound, and nothing else raises it while the
\* program runs.
CountsDown == (Stage \/ Unwind => Left' < Left) /\ (Running => Left' <= Left)

LEMMA LenDefers == ASSUME TypeInv PROVE Len(defers) \in Nat
  BY DEF TypeInv, Typed

LEMMA InitLeft == Init => LeftInv
  BY DEF Init, LeftInv, Left, Running, Stages

\* How many stages are still to come after each.
LEMMA ToComes ==
  /\ \A s \in Stages \ {"unwind"} : ToCome[s] \in 2..19
  /\ ToCome["relocate"] = 19 /\ ToCome["detach"] = 18 /\ ToCome["workdir"] = 17
  /\ ToCome["build"] = 16 /\ ToCome["stage"] = 15 /\ ToCome["auth"] = 14
  /\ ToCome["probe"] = 13 /\ ToCome["probed"] = 12 /\ ToCome["logdir"] = 11
  /\ ToCome["commit"] = 10 /\ ToCome["coordinate"] = 9 /\ ToCome["terminate"] = 8
  /\ ToCome["arm"] = 7 /\ ToCome["prepare"] = 6 /\ ToCome["oldrootdir"] = 5
  /\ ToCome["pivot"] = 4 /\ ToCome["cleanup"] = 3 /\ ToCome["exec"] = 2
  BY DEF ToCome, Stages

\* Where a step goes that is none of unwinding: to a later stage, or to the end.
Ahead(from, to) ==
  /\ from \in Stages \ {"unwind"}
  /\ to \in Stages \union {"supervisor"}
  /\ to \in Stages \ {"unwind"} => ToCome[to] < ToCome[from]

LEMMA AheadCounts ==
  ASSUME TypeInv, Ahead(pc, pc'), NEW d \in {0, 1}, pc' # "supervisor" => Len(defers') = Len(defers) + d
  PROVE  Running /\ Left' < Left /\ Left' \in Nat /\ (Left' = 0 <=> ~Running')
<1> DEFINE n == Len(defers)
           k == ToCome[pc]
<1>1. n \in Nat /\ k \in 2..19 /\ d \in 0..1
  BY LenDefers, ToComes DEF Ahead
<1>2. Running /\ Left = 2 * k + n
  BY DEF Ahead, Left, Running
<1>3. CASE pc' = "unwind"
  <2>1. Left' = n + d + 1 /\ Running'
    BY <1>3 DEF Left, Running, Stages
  <2> HIDE DEF n, k, Left
  <2>2. n + d + 1 < 2 * k + n /\ n + d + 1 \in Nat \ {0}
    BY <1>1
  <2> QED
    BY <1>2, <2>1, <2>2
<1>4. CASE pc' = "supervisor"
  <2>1. Left' = 0 /\ ~Running'
    BY <1>4 DEF Left, Running, Stages
  <2> HIDE DEF n, k, Left
  <2> QED
    BY <1>1, <1>2, <2>1
<1>5. CASE pc' \in Stages \ {"unwind"}
  <2> DEFINE h == ToCome[pc']
  <2>1. Left' = 2 * h + (n + d) /\ Running'
    BY <1>5 DEF Left, Running, ToCome, Stages
  <2>2. h \in 2..19 /\ h < k
    BY <1>5, ToComes DEF Ahead
  <2> HIDE DEF n, k, h, Left
  <2>3. 2 * h + (n + d) < 2 * k + n /\ 2 * h + (n + d) \in Nat \ {0}
    BY <1>1, <2>2
  <2> QED
    BY <1>2, <2>1, <2>3
<1> QED
  BY <1>3, <1>4, <1>5 DEF Ahead

\* A stage goes to a later one, and may register a call, or it returns.
LEMMA StageCounts ==
  ASSUME TypeInv, Stage
  PROVE  Running /\ Left' < Left /\ Left' \in Nat /\ (Left' = 0 <=> ~Running')
<1>1. ASSUME NEW call, Defer(call) PROVE Len(defers') = Len(defers) + 1
  <2>1. defers \in Seq({"unmountTmpfs", "disarm", "unlockThread"})
    BY DEF TypeInv, Typed
  <2> QED
    BY <1>1, <2>1 DEF Defer
<1>0. Len(defers) + 0 = Len(defers)
  BY LenDefers
<1>2. Ahead(pc, pc')
  <2> USE ToComes DEF Ahead, Stages, Goto, Return
  <2>1. CASE Relocate \/ IgnoreSession \/ UseWorkDirAsIs \/ ReuseMount \/ MountTmpfs \/ RefuseWorkDir
    BY <2>1 DEF Relocate, IgnoreSession, UseWorkDirAsIs, ReuseMount, MountTmpfs, RefuseWorkDir
  <2>2. CASE Build \/ StageFiles \/ PreAuth \/ ProbeWatchdog \/ ProbeDisarm \/ CheckLogDir
    BY <2>2 DEF Build, StageFiles, PreAuth, ProbeWatchdog, ProbeDisarm, CheckLogDir
  <2>3. CASE IgnoreOperator \/ Coordinate \/ TerminateProcesses \/ ArmWatchdog
    BY <2>3 DEF IgnoreOperator, Coordinate, TerminateProcesses, ArmWatchdog
  <2>4. CASE Prepare \/ MakeOldRootDir \/ PivotRoot \/ CleanupOldRoot \/ Exec
    BY <2>4 DEF Prepare, MakeOldRootDir, PivotRoot, CleanupOldRoot, Exec
  <2> QED
    BY <2>1, <2>2, <2>3, <2>4 DEF Stage
<1>3. CASE MountTmpfs \/ Prepare
  BY <1>1, <1>2, <1>3, AheadCounts DEF MountTmpfs, Prepare
<1>4. CASE ArmWatchdog
  <2>1. Len(defers') = Len(defers) + 0 \/ Len(defers') = Len(defers) + 1
    BY <1>0, <1>1, <1>4 DEF ArmWatchdog
  <2> QED
    BY <1>2, <2>1, AheadCounts
<1>5. CASE Exec
  <2>1. pc' # "supervisor" => Len(defers') = Len(defers) + 0
    BY <1>0, <1>5 DEF Exec, Return
  <2> QED
    BY <1>2, <2>1, AheadCounts
<1>6. CASE ~(MountTmpfs \/ Prepare \/ ArmWatchdog \/ Exec)
  <2>1. defers' = defers
    BY <1>6 DEF Stage, Relocate, IgnoreSession, UseWorkDirAsIs, ReuseMount, RefuseWorkDir, Build,
       StageFiles, PreAuth, ProbeWatchdog, ProbeDisarm, CheckLogDir, IgnoreOperator, Coordinate,
       TerminateProcesses, MakeOldRootDir, PivotRoot, CleanupOldRoot, process
  <2> QED
    BY <1>0, <1>2, <2>1, AheadCounts
<1> QED
  BY <1>3, <1>4, <1>5, <1>6

\* Unwinding pops one call after the other, and the process exits.
LEMMA UnwindCounts == ASSUME TypeInv, Unwind PROVE Running /\ Left' < Left /\ Left' \in Nat
                                                   /\ (Left' = 0 <=> ~Running')
<1>0. Len(defers) \in Nat /\ pc = "unwind" /\ defers \in Seq({"unmountTmpfs", "disarm", "unlockThread"})
  BY LenDefers DEF Unwind, UnlockThread, DisarmWatchdog, UnmountTmpfs, Exit, Pending, TypeInv, Typed
<1>1. CASE Exit
  BY <1>0, <1>1 DEF Exit, ProcessEnds, Left, Running, Stages
<1>2. ASSUME NEW call, Pending(call) PROVE pc' = "unwind" /\ Len(defers') = Len(defers) - 1 /\ Len(defers) > 0
  <2>1. defers # <<>> /\ defers' = SubSeq(defers, 1, Len(defers) - 1) /\ pc' = "unwind"
    BY <1>2 DEF Pending
  <2>2. defers \in Seq(Calls)
    BY <1>0 DEF Calls
  <2>3. Len(defers) \in Nat \ {0} /\ Len(defers') = Len(defers) - 1
    BY <2>1, <2>2, Pop
  <2> QED
    BY <2>1, <2>3
<1>3. CASE UnlockThread \/ DisarmWatchdog \/ UnmountTmpfs
  <2>1. pc' = "unwind" /\ Len(defers') = Len(defers) - 1 /\ Len(defers) > 0
    BY <1>2, <1>3 DEF UnlockThread, DisarmWatchdog, UnmountTmpfs
  <2> QED
    BY <1>0, <2>1 DEF Left, Running, Stages
<1> QED
  BY <1>1, <1>3 DEF Unwind

\* A run begins with 38 steps at the most; what ends one leaves none.
LEMMA EnvironmentCounts ==
  ASSUME TypeInv, LeftInv, Environment \/ UNCHANGED vars
  PROVE  LeftInv' /\ (Running => Left' <= Left)
<1>1. ASSUME NEW c \in Configs, Invoke(c) PROVE Left' = 38 /\ Running' /\ ~Running
  BY <1>1 DEF Invoke, Left, Running, Stages, ToCome
<1>2. CASE (\E s \in Catchable : Signal(s)) \/ Reap \/ Restart
  <2>1. pc' = "idle"
    BY <1>2 DEF Signal, Reap, Restart, ProcessEnds
  <2>2. Left' = 0 /\ ~Running'
    BY <2>1 DEF Left, Running, Stages
  <2> QED
    BY <2>2 DEF LeftInv
<1>3. CASE NetworkChange \/ UNCHANGED vars
  <2>1. UNCHANGED <<pc, defers>>
    BY <1>3 DEF NetworkChange, vars, process
  <2>2. Left' = Left /\ Running' = Running
    BY <2>1 DEF Left, Running
  <2> QED
    BY <2>2 DEF LeftInv
<1> QED
  BY <1>1, <1>2, <1>3 DEF Environment, LeftInv

\* Whatever the command lines and the outcomes, a run has at most 38 steps of its
\* own to take; each brings it nearer to its end, and nothing takes it further away.
THEOREM PivotRunsCountDown == Spec => []LeftInv /\ [][CountsDown]_vars
<1>1. TypeInv /\ LeftInv /\ [Next]_vars => LeftInv' /\ [CountsDown]_vars
  <2> SUFFICES ASSUME TypeInv, LeftInv, [Next]_vars PROVE LeftInv' /\ CountsDown
    OBVIOUS
  <2>1. CASE Stage
    BY <2>1, StageCounts DEF LeftInv, CountsDown
  <2>2. CASE Unwind
    BY <2>2, UnwindCounts DEF LeftInv, CountsDown
  <2>3. CASE ~Stage /\ ~Unwind
    <3>1. Environment \/ UNCHANGED vars
      BY <2>3 DEF Next
    <3> QED
      BY <2>3, <3>1, EnvironmentCounts DEF CountsDown
  <2> QED
    BY <2>1, <2>2, <2>3
<1> QED
  BY <1>1, InitLeft, PivotTyped, PTL DEF Spec

----------------------------------------------------------------------------
(* The whole way: Xmorph implements the safety part of DeadMan.             *)

\* Stages up to the first step that takes something from the running OS.
CheckStages == {"relocate", "detach", "workdir", "build", "stage", "auth", "probe",
                "probed", "logdir", "commit", "coordinate"}

\* Stages between the probe of the watchdog and its arming.
ProbedStages == {"logdir", "commit", "coordinate", "terminate", "arm"}

\* What the mapping of a step may depend on: runs are numbered from one, a process
\* that is gone took its root along, checks touch nothing, the probe has stopped
\* whatever ticked before the arming, and a supervisor is alive or gone.
XInv ==
  /\ run \in Nat /\ (pc # "idle" => run # 0)
  /\ pc = "idle" => root = "disk"
  /\ pc \in CheckStages => ~OldOSTouched
  /\ pc \in ProbedStages /\ cfg["watchdog"] => wd = 0
  /\ pc = "supervisor" => spc \in S!SupervisorStages \union {"gone", "failed"}

LEMMA InitX == ASSUME XInit PROVE XInv /\ D!DMInit
<1>1. XInv
  BY DEF XInit, Init, XInv, CheckStages, ProbedStages
<1>2. D!DMInit
  BY DEF XInit, Init, D!DMInit, Place, Away, Quitting, Lost, Stages
<1> QED
  BY <1>1, <1>2

\* What DeadMan may see of a step.
Seen == D!DMNext \/ UNCHANGED D!dmvars

LEMMA StageX ==
  ASSUME XInv, Stage, pc # "supervisor",
         IF pc' = "supervisor" THEN \E c \in Staged : S!Exec(c) ELSE UNCHANGED own
  PROVE  XInv' /\ Seen
<1> USE DEF XInv, CheckStages, ProbedStages, OldOSTouched, Goto, Return, Defer,
            process, machine, workdir, dog, own
<1> USE DEF Seen, Place, Away, Quitting, Lost, Stages, D!DMNext, D!dmvars
<1>1. CASE Relocate
  BY <1>1 DEF Relocate
<1>2. CASE IgnoreSession
  BY <1>2 DEF IgnoreSession
<1>3. CASE UseWorkDirAsIs \/ ReuseMount \/ RefuseWorkDir
  BY <1>3 DEF UseWorkDirAsIs, ReuseMount, RefuseWorkDir
<1>4. CASE MountTmpfs
  BY <1>4 DEF MountTmpfs
<1>5. CASE Build
  BY <1>5 DEF Build
<1>6. CASE StageFiles \/ PreAuth \/ CheckLogDir
  BY <1>6 DEF StageFiles, PreAuth, CheckLogDir
<1>7. CASE ProbeWatchdog
  BY <1>7 DEF ProbeWatchdog, D!Tinker
<1>8. CASE ProbeDisarm
  BY <1>8 DEF ProbeDisarm, Disarm, D!Tinker
<1>9. CASE IgnoreOperator
  BY <1>9 DEF IgnoreOperator
<1>10. CASE Coordinate \/ TerminateProcesses
  BY <1>10 DEF Coordinate, TerminateProcesses, D!Leave
<1>11. CASE ArmWatchdog
  BY <1>11 DEF ArmWatchdog, Disarm, D!Tinker, D!Arm, D!Quit
<1>12. CASE Prepare
  BY <1>12 DEF Prepare, D!Quit
<1>13. CASE MakeOldRootDir
  BY <1>13 DEF MakeOldRootDir, D!Quit
<1>14. CASE PivotRoot
  BY <1>14 DEF PivotRoot, D!Leave, D!Quit
<1>15. CASE CleanupOldRoot
  BY <1>15 DEF CleanupOldRoot
<1>16. CASE Exec
  BY <1>16 DEF Exec, S!Exec, S!SupervisorStages, D!Leave, D!Quit
<1> QED
  BY <1>1, <1>2, <1>3, <1>4, <1>5, <1>6, <1>7, <1>8, <1>9, <1>10, <1>11, <1>12,
     <1>13, <1>14, <1>15, <1>16 DEF Stage

LEMMA UnwindX ==
  ASSUME XInv, Unwind, UNCHANGED own
  PROVE  XInv' /\ Seen
<1> USE DEF XInv, CheckStages, ProbedStages, OldOSTouched, Pending,
            process, history, machine, workdir, dog, own
<1> USE DEF Seen, Place, Away, Quitting, Lost, Stages, D!DMNext, D!dmvars
<1>1. CASE UnlockThread
  BY <1>1 DEF UnlockThread, D!Finish
<1>2. CASE DisarmWatchdog
  BY <1>2 DEF DisarmWatchdog, Disarm, D!Finish, D!Tinker
<1>3. CASE UnmountTmpfs
  <2>1. UNCHANGED <<pc, cfg, run, root, harm, wd, spc>>
    BY <1>3 DEF UnmountTmpfs
  <2>2. pc = "unwind"
    BY <1>3 DEF UnmountTmpfs
  <2> QED
    BY <2>1, <2>2
<1>4. CASE Exit
  BY <1>4 DEF Exit, ProcessEnds, D!Finish
<1> QED
  BY <1>1, <1>2, <1>3, <1>4 DEF Unwind

LEMMA EnvironmentX ==
  ASSUME XInv, Environment, pc # "supervisor", UNCHANGED own
  PROVE  XInv' /\ Seen
<1> USE DEF XInv, CheckStages, ProbedStages, OldOSTouched,
            process, history, machine, workdir, dog, own
<1> USE DEF Seen, Place, Away, Quitting, Lost, Stages, D!DMNext, D!dmvars
<1>1. ASSUME NEW c \in Configs, Invoke(c) PROVE XInv' /\ Seen
  BY <1>1 DEF Invoke, D!Recover
<1>2. ASSUME NEW s \in Catchable, Signal(s) PROVE XInv' /\ Seen
  BY <1>2 DEF Signal, ProcessEnds, Running, D!Die
<1>3. CASE Reap
  BY <1>3 DEF Reap, ProcessEnds, Running, D!Die
<1>4. CASE NetworkChange
  BY <1>4 DEF NetworkChange, Running
<1>5. CASE Restart
  BY <1>5 DEF Restart, Disarm, D!Return
<1> QED
  BY <1>1, <1>2, <1>3, <1>4, <1>5 DEF Environment

\* What a step of the supervisor may do to its stage and to the watchdog.
SupervisorMoves ==
  \/ spc' = "restarted" /\ (wd # 0 \/ spc = "linger")
  \/ UNCHANGED <<spc, wd>>
  \/ spc \in S!SupervisorStages \ {"deferred"} /\ spc' \in S!SupervisorStages /\ UNCHANGED wd
  \/ spc = "deferred" /\ spc' = "gone" /\ wd' \in {0, wd}
  \/ spc \in S!SupervisorStages /\ spc' \in {"gone", "failed"} /\ UNCHANGED wd

LEMMA SupervisorMove == S!Next => SupervisorMoves
<1> SUFFICES ASSUME S!Next PROVE SupervisorMoves
  OBVIOUS
<1> USE DEF SupervisorMoves, S!SupervisorStages, S!Goto, S!own
<1>1. CASE S!LoadConfig \/ S!AdoptWatchdog \/ S!JoinTailnet \/ S!ServeIdle \/ S!ChooseEntrypoint
  BY <1>1 DEF S!LoadConfig, S!AdoptWatchdog, S!JoinTailnet, S!ServeIdle, S!ChooseEntrypoint
<1>2. CASE S!StopServing \/ S!StartEntrypoint \/ S!NotifySignals \/ S!EntrypointDone
  BY <1>2 DEF S!StopServing, S!StartEntrypoint, S!NotifySignals, S!EntrypointDone
<1>3. CASE S!RunReturns
  BY <1>3 DEF S!RunReturns
<1>4. CASE S!Reboot \/ S!WatchdogFires
  BY <1>4 DEF S!Reboot, S!WatchdogFires, S!Restarted
<1>5. CASE S!ForwardSignal \/ S!Wait
  BY <1>5 DEF S!ForwardSignal, S!Wait, S!WaitReaps, S!WaitReturns
<1>6. ASSUME NEW s \in S!Signals, S!SignalQueued(s) \/ S!SignalKills(s)
      PROVE  SupervisorMoves
  BY <1>6 DEF S!SignalQueued, S!SignalKills, S!Alive
<1>7. CASE S!EntrypointForks \/ S!EntrypointExits \/ S!EntrypointHangs \/ S!HeirExits
  BY <1>7 DEF S!EntrypointForks, S!EntrypointExits, S!EntrypointHangs, S!HeirExits
<1> QED
  BY <1>1, <1>2, <1>3, <1>4, <1>5, <1>6, <1>7 DEF S!Next, S!Step, S!Environment

\* What is Pivot's stays, unless the machine restarts.
LEMMA SupervisorX ==
  ASSUME XInv, SupervisorStep
  PROVE  XInv' /\ Seen
<1> USE DEF XInv, CheckStages, ProbedStages, OldOSTouched, process, history, workdir
<1> USE DEF Seen, Place, Away, Quitting, Lost, Stages, D!DMNext, D!dmvars
<1>1. /\ pc = "supervisor" /\ spc \in S!SupervisorStages \union {"gone", "failed"}
      /\ SupervisorMoves
  BY SupervisorMove DEF SupervisorStep
<1>2. CASE spc' = "restarted"
  <2>1. Restart
    BY <1>2 DEF SupervisorStep
  <2>2. wd # 0 \/ spc = "linger"
    BY <1>1, <1>2 DEF SupervisorMoves, S!SupervisorStages
  <2> QED
    BY <1>1, <2>1, <2>2 DEF Restart, Disarm, D!Return, S!SupervisorStages
<1>3. CASE spc' # "restarted"
  <2>1. UNCHANGED <<pc, process, history, init, workdir>>
    BY <1>3 DEF SupervisorStep, machine
  <2> QED
    BY <1>1, <1>3, <2>1 DEF SupervisorMoves, S!SupervisorStages, D!Quit, D!Finish, D!Die
<1> QED
  BY <1>2, <1>3

LEMMA NextX == XInv /\ [XNext]_xvars => XInv' /\ Seen
<1> SUFFICES ASSUME XInv, [XNext]_xvars PROVE XInv' /\ Seen
  OBVIOUS
<1>1. CASE PivotStep
  <2>1. CASE Stage
    BY <1>1, <2>1, StageX DEF PivotStep
  <2>2. CASE Unwind
    <3>1. pc' # "supervisor"
      BY <2>2 DEF Unwind, UnlockThread, DisarmWatchdog, UnmountTmpfs, Pending, Exit, ProcessEnds
    <3> QED
      BY <1>1, <2>2, <3>1, UnwindX DEF PivotStep
  <2>3. CASE Environment
    <3>1. pc' # "supervisor"
      BY <1>1, <2>3 DEF PivotStep, Environment, Invoke, Signal, Reap, NetworkChange, Restart, ProcessEnds
    <3> QED
      BY <1>1, <2>3, <3>1, EnvironmentX DEF PivotStep
  <2> QED
    BY <1>1, <2>1, <2>2, <2>3 DEF PivotStep
<1>2. CASE SupervisorStep
  BY <1>2, SupervisorX
<1>3. CASE UNCHANGED xvars
  BY <1>3 DEF xvars, vars, own, process, history, machine, workdir, dog, XInv, OldOSTouched,
              Seen, D!dmvars, Place, Away, Quitting, Lost
<1> QED
  BY <1>1, <1>2, <1>3 DEF XNext

\* The pivot and the supervisor together do nothing that DeadMan forbids: no step, of
\* either program image, drops an armed watchdog but an orderly quit, and none leaves
\* the old OS or comes back to it in another way.  (That a lost machine with an armed
\* watchdog restarts is fairness, and the rest of KeepsDeadMan.)
THEOREM XmorphStepsAsDeadMan == XSpec => D!DMSafe
<1>1. XInit => XInv /\ D!DMInit
  BY InitX
<1>2. XInv /\ [XNext]_xvars => XInv'
  BY NextX
<1>3. XInv /\ [XNext]_xvars => [D!DMNext]_(D!dmvars)
  BY NextX DEF Seen
<1> QED
  BY <1>1, <1>2, <1>3, PTL DEF XSpec, D!DMSafe
=============================================================================
