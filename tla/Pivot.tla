------------------------------- MODULE Pivot -------------------------------
(***************************************************************************)
(* `xmorph pivot` from the command line to the exec of the post-pivot       *)
(* supervisor: runPivot of internal/cli/pivot.go and what it calls.         *)
(*                                                                         *)
(* One action per stage of runPivot, each with its early returns.  A return *)
(* runs the deferred calls one at a time, last first; a signal that is not  *)
(* ignored ends the process without running them.  After an abort the       *)
(* operator may invoke the program again on whatever the last run left.     *)
(*                                                                         *)
(* Simplifications: --dry-run, --contain and the refusals for a missing     *)
(* --force or a non-root user return before they change anything and are    *)
(* not invocations here; logging is left out; a rootfs is the set of the    *)
(* runs whose layers lie in it.                                             *)
(***************************************************************************)
EXTENDS Naturals, Sequences

CONSTANTS
  Configs,   \* the command lines the operator may use
  MaxRuns    \* bound: how often the program is invoked

VARIABLES
  \* the process
  pc,        \* the stage runPivot has reached; "idle" when it is not running
  cfg,       \* the flags of this invocation
  run,       \* number of this invocation
  ignored,   \* signals whose disposition is SIG_IGN
  detached,  \* adopted by systemd into a scope of its own
  thread,    \* the mount namespace of the thread that runs the goroutine
  defers,    \* the deferred calls registered so far
  root,      \* what "/" is for that thread: the "disk" OS or the "ram" rootfs
  oldroot,   \* the old root in the pivoted namespace
  checks,    \* pre-flight checks this run has passed
  harm,      \* what this run has taken away from the running OS
  outcome,   \* how the last run ended: "none", "returned" or a signal
  \* the machine
  init,      \* the init system, as initsys.Detect sees it
  control,   \* is the Tailscale control server reachable?
  tmpfs,     \* namespaces in which a tmpfs covers --work-dir
  mounter,   \* the run that mounted it
  ram,       \* what that tmpfs holds
  dir,       \* what the directory under it holds
  wd,        \* the run that armed the watchdog; 0 when it does not tick
  wdfd       \* does the process hold /dev/watchdog open?

process == <<cfg, run, ignored, detached, thread, defers, root, oldroot>>
history == <<checks, harm, outcome>>
workdir == <<tmpfs, mounter, ram, dir>>
dog     == <<wd, wdfd>>
machine == <<init, control>>
vars    == <<pc, process, history, machine, workdir, dog>>

Runs      == 1..MaxRuns
Catchable == {"HUP", "PIPE", "INT", "TERM"}
Flags     == {"systemdMode", "initCoord", "ownTmpfs", "tailscale", "watchdog",
              "keepOldRoot", "logPersist"}
Stages    == {"relocate", "detach", "workdir", "build", "stage", "auth", "probe",
              "probed", "logdir", "commit", "coordinate", "terminate", "arm",
              "prepare", "oldrootdir", "pivot", "cleanup", "exec", "unwind"}

\* The flags this model distinguishes; "ownTmpfs" is the absence of
\* --no-rootfs-tmpfs, "initCoord" that of --no-init-coord.
ASSUME ConfigsAssumption == Configs # {} /\ Configs \subseteq [Flags -> BOOLEAN]
ASSUME MaxRunsAssumption == MaxRuns \in Nat \ {0}

Running  == pc \in Stages
Contents == IF "host" \in tmpfs THEN ram ELSE dir

----------------------------------------------------------------------------
(* Ways out of runPivot.                                                   *)

Goto(stage) == pc' = stage /\ UNCHANGED outcome

\* `return err`: the deferred calls come next.
Return == pc' = "unwind" /\ outcome' = "returned"

Defer(call) == defers' = Append(defers, call)

\* The private mount namespace dies with its last thread; a tmpfs no namespace
\* mounts any more is freed.
DropMounts(ns) ==
  /\ tmpfs' = tmpfs \ ns
  /\ ram' = IF tmpfs \subseteq ns THEN {} ELSE ram
  /\ UNCHANGED <<mounter, dir>>

\* The process is gone.  Its watchdog descriptor is closed without the magic
\* character, so a timer that ticks goes on ticking.
ProcessEnds ==
  /\ pc' = "idle"
  /\ wdfd' = FALSE
  /\ root' = "disk"
  /\ oldroot' = "none"
  /\ DropMounts({"private"})
  /\ UNCHANGED <<wd, machine, checks, harm>>

----------------------------------------------------------------------------
(* The stages.                                                             *)

Invoke(c) ==
  /\ pc = "idle"
  /\ run < MaxRuns
  /\ pc' = "relocate"
  /\ cfg' = c
  /\ run' = run + 1
  /\ ignored' = {}
  /\ detached' = FALSE
  /\ thread' = "host"
  /\ defers' = <<>>
  /\ checks' = {}
  /\ harm' = {}
  /\ outcome' = "none"
  /\ UNCHANGED <<root, oldroot, machine, workdir, dog>>

\* On systemd, ask to be adopted into a transient scope; failure is a warning.
Relocate ==
  /\ pc = "relocate"
  /\ IF init = "systemd" /\ ~cfg["systemdMode"]
       THEN detached' \in BOOLEAN
       ELSE UNCHANGED detached
  /\ Goto("detach")
  /\ UNCHANGED <<cfg, run, ignored, thread, defers, root, oldroot, checks, harm,
                 machine, workdir, dog>>

\* signal.Ignore(SIGHUP, SIGPIPE), after the grace period of an SSH session.
IgnoreSession ==
  /\ pc = "detach"
  /\ ignored' = ignored \union {"HUP", "PIPE"}
  /\ Goto("workdir")
  /\ UNCHANGED <<cfg, run, detached, thread, defers, root, oldroot, checks, harm,
                 machine, workdir, dog>>

UseWorkDirAsIs ==
  /\ pc = "workdir"
  /\ ~cfg["ownTmpfs"]
  /\ Goto("build")
  /\ UNCHANGED <<process, checks, harm, machine, workdir, dog>>

\* Mutant: the mount an earlier run left is used as it is.
ReuseMountUncleaned ==
  /\ pc = "workdir" /\ cfg["ownTmpfs"] /\ "host" \in tmpfs
  /\ Goto("build")
  /\ UNCHANGED <<process, checks, harm, machine, workdir, dog>>

\* --work-dir is a mount point already: empty it (CleanTarget may fail half way)
\* and use it, without a deferred unmount.
ReuseMount ==
  /\ pc = "workdir"
  /\ cfg["ownTmpfs"]
  /\ "host" \in tmpfs
  /\ \/ ram' = {} /\ Goto("build")
     \/ ram' \in SUBSET ram /\ Return
  /\ UNCHANGED <<process, checks, harm, machine, tmpfs, mounter, dir, dog>>

\* Mutants: no deferred unmount; the mount booked for the run after this one.
MountTmpfsForGood ==
  /\ pc = "workdir" /\ cfg["ownTmpfs"] /\ "host" \notin tmpfs
  /\ tmpfs' = tmpfs \union {"host"} /\ mounter' = run /\ ram' = {}
  /\ Goto("build")
  /\ UNCHANGED <<process, checks, harm, machine, dir, dog>>

MountTmpfs ==
  /\ pc = "workdir"
  /\ cfg["ownTmpfs"]
  /\ "host" \notin tmpfs
  /\ tmpfs' = tmpfs \union {"host"}
  /\ mounter' = run
  /\ ram' = {}
  /\ Defer("unmountTmpfs")
  /\ Goto("build")
  /\ UNCHANGED <<cfg, run, ignored, detached, thread, root, oldroot, checks, harm,
                 machine, dir, dog>>

\* mkdir, meminfo, statfs, the size, the headroom check or the mount fail.
RefuseWorkDir ==
  /\ pc = "workdir"
  /\ Return
  /\ UNCHANGED <<process, checks, harm, machine, workdir, dog>>

\* rootfs.Build extracts over what is there; a failing layer leaves a part.
Build ==
  /\ pc = "build"
  /\ \E extracted \in {{}, {run}} :
       /\ IF "host" \in tmpfs
            THEN ram' = ram \union extracted /\ UNCHANGED dir
            ELSE dir' = dir \union extracted /\ UNCHANGED ram
       /\ Return \/ (extracted = {run} /\ Goto("stage"))
  /\ UNCHANGED <<process, checks, harm, machine, tmpfs, mounter, dog>>

\* The entrypoint and SSH refusals, then the config, the binary, resolv.conf.
StageFiles ==
  /\ pc = "stage"
  /\ \/ Goto("auth") /\ checks' = checks \union {"reachable"}
     \/ Return /\ UNCHANGED checks
  /\ UNCHANGED <<process, harm, machine, workdir, dog>>

\* Mutants: a failing PreAuth is only a warning; it has no timeout.
PreAuthWarns ==
  /\ pc = "auth"
  /\ \/ UNCHANGED checks
     \/ cfg["tailscale"] /\ control /\ checks' = checks \union {"auth"}
  /\ Goto("probe")
  /\ UNCHANGED <<process, harm, machine, workdir, dog>>

PreAuthWaits ==
  /\ pc = "auth"
  /\ cfg["tailscale"] => control
  /\ checks' = IF cfg["tailscale"] THEN checks \union {"auth"} ELSE checks
  /\ Goto("probe")
  /\ UNCHANGED <<process, harm, machine, workdir, dog>>

\* tsnetauth.PreAuth under a 30 s timeout.
PreAuth ==
  /\ pc = "auth"
  /\ \/ ~cfg["tailscale"] /\ Goto("probe") /\ UNCHANGED checks
     \/ cfg["tailscale"] /\ control /\ Goto("probe") /\ checks' = checks \union {"auth"}
     \/ cfg["tailscale"] /\ Return /\ UNCHANGED checks
  /\ UNCHANGED <<process, harm, machine, workdir, dog>>

\* EnsureWatchdogAvailable: opening the device starts the timer ...
ProbeWatchdog ==
  /\ pc = "probe"
  /\ \/ ~cfg["watchdog"] /\ Goto("logdir") /\ UNCHANGED dog
     \/ cfg["watchdog"] /\ Return /\ UNCHANGED dog
     \/ cfg["watchdog"] /\ wd' = run /\ wdfd' = TRUE /\ Goto("probed")
  /\ UNCHANGED <<process, checks, harm, machine, workdir>>

\* ... and the magic character before the close stops it again.
Disarm == wd' = 0 /\ wdfd' = FALSE

ProbeDisarm ==
  /\ pc = "probed"
  /\ Disarm
  /\ checks' = checks \union {"watchdog"}
  /\ Goto("logdir")
  /\ UNCHANGED <<process, harm, machine, workdir>>

CheckLogDir ==
  /\ pc = "logdir"
  /\ \/ ~cfg["logPersist"] /\ Goto("commit") /\ UNCHANGED checks
     \/ cfg["logPersist"] /\ cfg["keepOldRoot"] /\ Goto("commit")
        /\ checks' = checks \union {"logdir"}
     \/ cfg["logPersist"] /\ Return /\ UNCHANGED checks
  /\ UNCHANGED <<process, harm, machine, workdir, dog>>

\* Mutant: only Ctrl-C is ignored.
IgnoreOperatorInt ==
  /\ pc = "commit"
  /\ ignored' = ignored \union {"INT"}
  /\ Goto("coordinate")
  /\ UNCHANGED <<cfg, run, detached, thread, defers, root, oldroot, checks, harm,
                 machine, workdir, dog>>

\* "Point of no safe abort": signal.Ignore(SIGINT, SIGTERM).
IgnoreOperator ==
  /\ pc = "commit"
  /\ ignored' = ignored \union {"INT", "TERM"}
  /\ Goto("coordinate")
  /\ UNCHANGED <<cfg, run, detached, thread, defers, root, oldroot, checks, harm,
                 machine, workdir, dog>>

\* Isolate basic.target over D-Bus and wait; failure is a warning, and only
\* systemd is asked at all.
Coordinate ==
  /\ pc = "coordinate"
  /\ IF cfg["initCoord"] /\ ~cfg["systemdMode"] /\ init = "systemd"
       THEN harm' \in {harm, harm \union {"services"}}
       ELSE UNCHANGED harm
  /\ Goto("terminate")
  /\ UNCHANGED <<process, checks, machine, workdir, dog>>

\* process.Terminate; a failing scan of /proc is a warning.
TerminateProcesses ==
  /\ pc = "terminate"
  /\ IF cfg["systemdMode"]
       THEN UNCHANGED harm
       ELSE harm' \in {harm, harm \union {"processes"}}
  /\ Goto("arm")
  /\ UNCHANGED <<process, checks, machine, workdir, dog>>

\* Mutant: an abort does not disarm.
ArmWatchdogForGood ==
  /\ pc = "arm"
  /\ \/ ~cfg["watchdog"] /\ Goto("prepare") /\ UNCHANGED dog
     \/ cfg["watchdog"] /\ wd' = run /\ wdfd' = TRUE /\ Goto("prepare")
     \/ cfg["watchdog"] /\ Return /\ (Disarm \/ UNCHANGED dog)
  /\ UNCHANGED <<process, checks, harm, machine, workdir>>

\* ArmWatchdogPrePivot: the open may fail, or the fcntl after it, which disarms.
ArmWatchdog ==
  /\ pc = "arm"
  /\ \/ ~cfg["watchdog"] /\ Goto("prepare") /\ UNCHANGED <<dog, defers>>
     \/ cfg["watchdog"] /\ wd' = run /\ wdfd' = TRUE /\ Defer("disarm") /\ Goto("prepare")
     \/ cfg["watchdog"] /\ Return /\ (Disarm \/ UNCHANGED dog) /\ UNCHANGED defers
  /\ UNCHANGED <<cfg, run, ignored, detached, thread, root, oldroot, checks, harm,
                 machine, workdir>>

\* LockOSThread, then pivot.Prepare: the new mount namespace starts with a copy
\* of the host's mounts, private from then on.
Prepare ==
  /\ pc = "prepare"
  /\ Defer("unlockThread")
  /\ \/ Return /\ UNCHANGED <<thread, tmpfs>>
     \/ /\ Goto("oldrootdir") \/ Return
        /\ thread' = "private"
        /\ tmpfs' = IF "host" \in tmpfs THEN {"host", "private"} ELSE tmpfs
  /\ UNCHANGED <<cfg, run, ignored, detached, root, oldroot, checks, harm,
                 machine, mounter, ram, dir, dog>>

MakeOldRootDir ==
  /\ pc = "oldrootdir"
  /\ Goto("pivot") \/ Return
  /\ UNCHANGED <<process, checks, harm, machine, workdir, dog>>

\* PivotRoot may fail before the swap or, on the chdir, after it.
PivotRoot ==
  /\ pc = "pivot"
  /\ \/ Return /\ UNCHANGED <<root, oldroot>>
     \/ (Goto("cleanup") \/ Return) /\ root' = "ram" /\ oldroot' = "mounted"
  /\ UNCHANGED <<cfg, run, ignored, detached, thread, defers, checks, harm,
                 machine, workdir, dog>>

\* Without --keep-old-root its mounts are detached, as far as that succeeds.
CleanupOldRoot ==
  /\ pc = "cleanup"
  /\ IF cfg["keepOldRoot"]
       THEN UNCHANGED oldroot
       ELSE oldroot' \in {"mounted", "detached"}
  /\ Goto("exec")
  /\ UNCHANGED <<cfg, run, ignored, detached, thread, defers, root, checks, harm,
                 machine, workdir, dog>>

\* Mutants: the descriptor is closed on exec; the deferred disarm runs before it.
ExecCloses ==
  /\ pc = "exec"
  /\ \/ pc' = "supervisor" /\ defers' = <<>> /\ wdfd' = FALSE /\ UNCHANGED outcome
     \/ Return /\ UNCHANGED <<defers, wdfd>>
  /\ UNCHANGED <<cfg, run, ignored, detached, thread, root, oldroot, checks, harm,
                 machine, workdir, wd>>

ExecDisarms ==
  /\ pc = "exec"
  /\ pc' = "supervisor" /\ defers' = <<>> /\ Disarm
  /\ UNCHANGED <<cfg, run, ignored, detached, thread, root, oldroot, checks, harm,
                 outcome, machine, workdir>>

\* unix.Exec returns only when it fails; the deferred calls are forgotten when
\* it does not.  The watchdog descriptor and the ignored signals are inherited.
Exec ==
  /\ pc = "exec"
  /\ \/ pc' = "supervisor" /\ defers' = <<>> /\ UNCHANGED outcome
     \/ Return /\ UNCHANGED defers
  /\ UNCHANGED <<cfg, run, ignored, detached, thread, root, oldroot, checks, harm,
                 machine, workdir, dog>>

----------------------------------------------------------------------------
(* Unwinding.  Unlocking the thread lets the scheduler move the goroutine   *)
(* to another one, whose mount namespace is the host's.                     *)

Pending(call) ==
  /\ pc = "unwind"
  /\ defers # <<>>
  /\ defers[Len(defers)] = call
  /\ defers' = SubSeq(defers, 1, Len(defers) - 1)
  /\ UNCHANGED <<pc, cfg, run, ignored, detached, history, machine>>

UnlockThread ==
  /\ Pending("unlockThread")
  /\ \/ UNCHANGED <<thread, root>>
     \/ thread' = "host" /\ root' = "disk"
  /\ UNCHANGED <<oldroot, workdir, dog>>

DisarmWatchdog ==
  /\ Pending("disarm")
  /\ Disarm
  /\ UNCHANGED <<thread, root, oldroot, workdir>>

\* UnmountTmpfs, in the namespace the goroutine happens to run in; the path no
\* longer leads to the mount from inside the new root.
UnmountTmpfs ==
  /\ Pending("unmountTmpfs")
  /\ IF root = "disk" THEN DropMounts({thread}) ELSE UNCHANGED workdir
  /\ UNCHANGED <<thread, root, oldroot, dog>>

\* main exits with status 1.
Exit ==
  /\ pc = "unwind"
  /\ defers = <<>>
  /\ ProcessEnds
  /\ UNCHANGED <<cfg, run, ignored, detached, thread, defers, outcome>>

----------------------------------------------------------------------------
(* The environment.                                                        *)

\* A catchable signal arrives: fatal unless ignored.
Signal(s) ==
  /\ Running
  /\ s \notin ignored
  /\ outcome' = s
  /\ ProcessEnds
  /\ defers' = <<>>
  /\ UNCHANGED <<cfg, run, ignored, detached, thread>>

\* The launching session's cgroup is torn down, by its end or by the isolate.
Reap ==
  /\ Running
  /\ init = "systemd" /\ ~cfg["systemdMode"] /\ ~detached
  /\ outcome' = "KILL"
  /\ ProcessEnds
  /\ defers' = <<>>
  /\ UNCHANGED <<cfg, run, ignored, detached, thread>>

NetworkChange ==
  /\ Running
  /\ control' = ~control
  /\ UNCHANGED <<pc, process, history, init, workdir, dog>>

\* The machine restarts into the OS on disk: the watchdog expires, or the
\* supervisor's work is done.  --work-dir may itself lie on a disk.
Restart ==
  /\ wd # 0 \/ pc = "supervisor"
  /\ pc' = "idle" /\ outcome' = "none"
  /\ ignored' = {} /\ detached' = FALSE /\ thread' = "host" /\ defers' = <<>>
  /\ root' = "disk" /\ oldroot' = "none" /\ checks' = {} /\ harm' = {}
  /\ tmpfs' = {} /\ mounter' = 0 /\ ram' = {} /\ dir' \in {dir, {}}
  /\ Disarm
  /\ UNCHANGED <<cfg, run, machine>>

----------------------------------------------------------------------------
Stage ==
  \/ Relocate \/ IgnoreSession
  \/ UseWorkDirAsIs \/ ReuseMount \/ MountTmpfs \/ RefuseWorkDir
  \/ Build \/ StageFiles \/ PreAuth \/ ProbeWatchdog \/ ProbeDisarm \/ CheckLogDir
  \/ IgnoreOperator \/ Coordinate \/ TerminateProcesses \/ ArmWatchdog
  \/ Prepare \/ MakeOldRootDir \/ PivotRoot \/ CleanupOldRoot \/ Exec

Unwind == UnlockThread \/ DisarmWatchdog \/ UnmountTmpfs \/ Exit

Environment ==
  \/ \E c \in Configs : Invoke(c)
  \/ \E s \in Catchable : Signal(s)
  \/ Reap \/ NetworkChange \/ Restart

Init ==
  /\ pc = "idle"
  /\ cfg \in Configs
  /\ run = 0
  /\ ignored = {} /\ detached = FALSE /\ thread = "host" /\ defers = <<>>
  /\ root = "disk" /\ oldroot = "none"
  /\ checks = {} /\ harm = {} /\ outcome = "none"
  /\ init \in {"systemd", "other"} /\ control \in BOOLEAN
  /\ tmpfs = {} /\ mounter = 0 /\ ram = {} /\ dir = {}
  /\ wd = 0 /\ wdfd = FALSE

Next == Stage \/ Unwind \/ Environment

Spec == Init /\ [][Next]_vars

\* The stages that wait for somebody without a timeout: layers of a registry, and
\* systemd's answer on the bus (StartTransientUnit; StartUnit and ListJobs).
AwaitsAnswer ==
  \/ pc = "build"
  \/ /\ init = "systemd" /\ ~cfg["systemdMode"]
     /\ pc = "relocate" \/ (pc = "coordinate" /\ cfg["initCoord"])

\* runPivot is one goroutine; nobody has to answer it.
FairSpec == Spec /\ WF_vars(~AwaitsAnswer /\ Stage) /\ WF_vars(Unwind)

----------------------------------------------------------------------------
(* Properties.                                                             *)

Typed ==
  /\ pc \in Stages \union {"idle", "supervisor"}
  /\ cfg \in [Flags -> BOOLEAN]
  /\ run \in 0..MaxRuns
  /\ ignored \subseteq Catchable
  /\ thread \in {"host", "private"}
  /\ defers \in Seq({"unmountTmpfs", "disarm", "unlockThread"})
  /\ root \in {"disk", "ram"}
  /\ oldroot \in {"none", "mounted", "detached"}
  /\ checks \subseteq {"reachable", "auth", "watchdog", "logdir"}
  /\ harm \subseteq {"services", "processes"}
  /\ outcome \in {"none", "returned", "KILL"} \union Catchable
  /\ init \in {"systemd", "other"}
  /\ tmpfs \subseteq {"host", "private"}
  /\ mounter \in 0..MaxRuns
  /\ ram \subseteq Runs
  /\ dir \subseteq Runs
  /\ wd \in 0..MaxRuns

Booleans == detached \in BOOLEAN /\ control \in BOOLEAN /\ wdfd \in BOOLEAN

\* Every variable keeps its type.
TypeOK == Typed /\ Booleans

\* A signal the program can refuse never ends it once it has stopped services
\* or processes of the running OS: pivot.go's "point of no safe abort".
CommitUninterruptible == outcome \in Catchable => harm = {}

\* The checks this command line asks for.
Required(c) ==
  {"reachable"} \union (IF c["tailscale"] THEN {"auth"} ELSE {})
                \union (IF c["watchdog"] THEN {"watchdog"} ELSE {})
                \union (IF c["logPersist"] THEN {"logdir"} ELSE {})

\* Nothing is taken from the running OS, and its root is not left, before every
\* check has passed: a bad auth key, a missing watchdog, an unwritable log
\* directory or an unreachable entrypoint "abort to keep the running OS alive".
HarmOnlyAfterChecks == (harm # {} \/ root = "ram") => Required(cfg) \subseteq checks

\* A run that returns leaves no timer of its own ticking: a host that stays on
\* the old OS is not reset by the watchdog of a pivot that failed.
ReturnDisarms == pc = "idle" /\ outcome = "returned" => wd # run

\* The supervisor takes over a watchdog that ticks, through a descriptor that
\* is open, whenever --watchdog-timeout was given.
SupervisorIsArmed == pc = "supervisor" /\ cfg["watchdog"] => wd = run /\ wdfd

\* Past pivot_root the new root holds this run's layers and nothing that an
\* earlier, aborted run extracted at the same place.
FreshRoot == root = "ram" /\ cfg["ownTmpfs"] => Contents = {run}

\* A run that unwinds on a thread of the host's mount namespace releases the
\* tmpfs it mounted.
ReturnReleases ==
  pc = "idle" /\ outcome = "returned" /\ thread = "host" =>
    ~("host" \in tmpfs /\ mounter = run)

\* Returning undoes both, wherever the run failed.
ReturnUndoes == ReturnDisarms /\ ReturnReleases

\* Every run ends, in the supervisor or back at the shell with its deferred calls
\* done, or it waits for ever for an answer that does not come: the control server,
\* the services and the processes of the old OS do not hold it up.
RunEnds == []<>~Running \/ <>[]AwaitsAnswer

----------------------------------------------------------------------------
(* What a comment of the code says, and the code does not do (README,       *)
(* "Disagreements").                                                       *)

\* tmpfs.go: UnmountTmpfs is there "so a failed pivot does not leave a RAM-backed
\* filesystem (and its contents) pinned".
FailedPivotReleases ==
  pc = "idle" /\ outcome = "returned" => ~("host" \in tmpfs /\ mounter = run)
=============================================================================
