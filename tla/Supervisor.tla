----------------------------- MODULE Supervisor -----------------------------
(***************************************************************************)
(* `xmorph --init`, the process that runs after the pivot: Run of           *)
(* internal/postpivot/run.go, Supervise and ServeUntilSignal of             *)
(* supervise.go, doReboot, and the adoption of the watchdog.                *)
(*                                                                         *)
(* The supervisor interleaves with the entrypoint it starts (which may      *)
(* leave a descendant behind that still holds its output), with the         *)
(* goroutine that waits for it, with signals from outside and with the      *)
(* watchdog timer of the kernel.  The Go runtime decides what a signal      *)
(* does before os/signal.Notify is called and after Stop: SIGHUP and SIGINT *)
(* stay ignored across the exec, SIGTERM and a SIGPIPE on stderr are fatal, *)
(* SIGUSR1 and SIGUSR2 are caught and dropped.                              *)
(*                                                                         *)
(* Simplifications: device nodes, firewall and log files are prepared       *)
(* without a choice the rest depends on; the SSH server is a part of its    *)
(* own; the timer's arithmetic is in Watchdog, here it expires only    *)
(* when nothing pets it.                                                    *)
(***************************************************************************)
EXTENDS Naturals, Sequences

CONSTANTS
  Confs,   \* the init configurations a pivot may have staged
  SigCap   \* capacity of the signal channel (8 in the code)

VARIABLES
  spc,      \* where the supervisor is; "off" before it exists
  conf,     \* the init configuration in force
  disp,     \* what a signal does to the supervisor
  sigCh,    \* signals received and not yet handled
  child,    \* the entrypoint
  deaf,     \* signals it was started with ignored
  heir,     \* has it left a descendant that holds its output?
  waited,   \* has the waiting goroutine reported its end?
  petting,  \* does the petting goroutine run?
  died,     \* the signal that ended the supervisor, if one did
  \* shared with the pivot
  wd,       \* 0 when the watchdog does not tick
  wdfd      \* is /dev/watchdog held open?

own  == <<conf, disp, sigCh, child, deaf, heir, waited, petting, died>>
svars == <<spc, own, wd, wdfd>>

Signals   == {"HUP", "PIPE", "INT", "TERM", "USR1", "USR2"}
Forwarded == {"TERM", "INT", "HUP", "USR1", "USR2"}
Fields    == {"watchdog", "tailscale", "tee", "idle"}

\* "tee" is a log file to copy the entrypoint's output to, "idle" the entrypoint
\* `xmorph idle`.
ASSUME ConfsAssumption == Confs # {} /\ Confs \subseteq [Fields -> BOOLEAN]
ASSUME SigCapAssumption == SigCap \in Nat \ {0}

SupervisorStages ==
  {"boot", "adopt", "tailnet", "choose", "start", "notify", "loop", "linger",
   "serve", "deferred"}
Alive == spc \in SupervisorStages

\* Dispositions with no handler of ours: after exec, and again after Stop.
Inherited ==
  [s \in Signals |-> CASE s \in {"HUP", "INT"}   -> "ignore"
                       [] s \in {"TERM", "PIPE"} -> "fatal"
                       [] s \in {"USR1", "USR2"} -> "drop"]
Notify(S) == [s \in Signals |-> IF s \in S THEN "notify" ELSE disp[s]]

Goto(stage) == spc' = stage

----------------------------------------------------------------------------
(* Run.                                                                    *)

\* Mutant: the tailnet comes before the watchdog.
LoadConfigTailnetFirst ==
  /\ spc = "boot"
  /\ Goto(IF conf["tailscale"] THEN "tailnet" ELSE "adopt")
  /\ UNCHANGED <<own, wd, wdfd>>

\* An unreadable configuration is a warning: what it asked for is not done, the
\* entrypoint comes from argv instead.
LoadConfig ==
  /\ spc = "boot"
  /\ \/ UNCHANGED conf
     \/ conf' = [f \in Fields |-> f = "idle" /\ conf["idle"]]
  /\ Goto("adopt")
  /\ UNCHANGED <<disp, sigCh, child, deaf, heir, waited, petting, died, wd, wdfd>>

AdoptWatchdog ==
  /\ spc = "adopt"
  /\ petting' = conf["watchdog"]
  /\ Goto("tailnet")
  /\ UNCHANGED <<conf, disp, sigCh, child, deaf, heir, waited, died, wd, wdfd>>

\* NewPostPivotServer under context.Background(): it fails or comes up, or waits for
\* ever.
JoinTailnet ==
  /\ spc = "tailnet"
  /\ Goto("choose")
  /\ UNCHANGED <<own, wd, wdfd>>

\* The shortcut for `xmorph idle`, with ServeUntilSignal's first Notify.
ServeIdle ==
  /\ spc = "choose"
  /\ conf["idle"]
  /\ disp' = Notify({"TERM", "INT"})
  /\ Goto("serve")
  /\ UNCHANGED <<conf, sigCh, child, deaf, heir, waited, petting, died, wd, wdfd>>

ChooseEntrypoint ==
  /\ spc = "choose"
  /\ ~conf["idle"]
  /\ Goto("start")
  /\ UNCHANGED <<own, wd, wdfd>>

\* ServeUntilSignal returns on the first signal.
StopServing ==
  /\ spc = "serve"
  /\ sigCh # <<>>
  /\ sigCh' = <<>>
  /\ disp' = Inherited
  /\ Goto("deferred")
  /\ UNCHANGED <<conf, child, deaf, heir, waited, petting, died, wd, wdfd>>

\* Mutant: Close forgets to stop the petting goroutine.
RunReturnsPetting ==
  /\ spc = "deferred"
  /\ wdfd' = FALSE
  /\ wd' \in (IF petting THEN {0, wd} ELSE {wd})
  /\ Goto("gone")
  /\ UNCHANGED own

\* Run returns, its deferred Close disarms the watchdog if it was adopted, unless
\* the petting goroutine writes last (Watchdog), and the process exits.
RunReturns ==
  /\ spc = "deferred"
  /\ wdfd' = FALSE
  /\ wd' \in (IF petting THEN {0, wd} ELSE {wd})
  /\ petting' = FALSE
  /\ Goto("gone")
  /\ UNCHANGED <<conf, disp, sigCh, child, deaf, heir, waited, died>>

----------------------------------------------------------------------------
(* Supervise.                                                              *)

\* The child inherits the ignored signals.  A failing Start returns 127.
StartEntrypoint ==
  /\ spc = "start"
  /\ \/ child' = "running" /\ deaf' = {s \in Signals : disp[s] = "ignore"} /\ Goto("notify")
     \/ child' = "failed" /\ UNCHANGED deaf /\ Goto("deferred")
  /\ UNCHANGED <<conf, disp, sigCh, heir, waited, petting, died, wd, wdfd>>

NotifySignals ==
  /\ spc = "notify"
  /\ disp' = Notify(Forwarded)
  /\ Goto("loop")
  /\ UNCHANGED <<conf, sigCh, child, deaf, heir, waited, petting, died, wd, wdfd>>

\* The child may end of it, unless it ignores the signal.
ForwardSignal ==
  /\ spc = "loop"
  /\ sigCh # <<>>
  /\ sigCh' = Tail(sigCh)
  /\ \/ UNCHANGED child
     \/ child \in {"running", "hung"} /\ Head(sigCh) \notin deaf /\ child' = "exited"
  /\ UNCHANGED <<spc, conf, disp, deaf, heir, waited, petting, died, wd, wdfd>>

\* cmd.Wait in its goroutine: the process first, then, with a tee, the two
\* copies of its output, which end when the last holder of the pipe is gone.
WaitReaps ==
  /\ spc = "loop"
  /\ child = "exited"
  /\ child' = "reaped"
  /\ UNCHANGED <<spc, conf, disp, sigCh, deaf, heir, waited, petting, died, wd, wdfd>>

\* Mutant: the output is always copied through a pipe.
WaitReturnsPiped ==
  /\ spc = "loop"
  /\ child = "reaped" /\ ~heir
  /\ waited' = TRUE
  /\ UNCHANGED <<spc, conf, disp, sigCh, child, deaf, heir, petting, died, wd, wdfd>>

WaitReturns ==
  /\ spc = "loop"
  /\ child = "reaped"
  /\ conf["tee"] => ~heir
  /\ waited' = TRUE
  /\ UNCHANGED <<spc, conf, disp, sigCh, child, deaf, heir, petting, died, wd, wdfd>>

\* Mutant: cmd.Process.Wait, which does not wait for the copies, in cmd.Wait's place.
EntrypointDoneEarly ==
  /\ spc = "loop"
  /\ child = "reaped"
  /\ disp' = Inherited
  /\ sigCh' = <<>>
  /\ Goto("linger")
  /\ UNCHANGED <<conf, child, deaf, heir, waited, petting, died, wd, wdfd>>

\* Mutant: RebootOnExit is not set.
EntrypointDoneReturns ==
  /\ spc = "loop"
  /\ waited
  /\ disp' = Inherited
  /\ sigCh' = <<>>
  /\ Goto("deferred")
  /\ UNCHANGED <<conf, child, deaf, heir, waited, petting, died, wd, wdfd>>

\* signal.Stop gives the signals their inherited dispositions back; then the
\* orphans are reaped and rebootSystem sleeps for 5 s.
EntrypointDone ==
  /\ spc = "loop"
  /\ waited
  /\ disp' = Inherited
  /\ sigCh' = <<>>
  /\ Goto("linger")
  /\ UNCHANGED <<conf, child, deaf, heir, waited, petting, died, wd, wdfd>>

\* The machine restarts into the OS on disk.
Restarted ==
  /\ Goto("restarted")
  /\ sigCh' = <<>> /\ disp' = Inherited /\ child' = "none" /\ deaf' = {}
  /\ heir' = FALSE /\ waited' = FALSE /\ petting' = FALSE /\ died' = "none"
  /\ wd' = 0 /\ wdfd' = FALSE
  /\ UNCHANGED conf

\* Mutant: a return in place of os.Exit, so that the deferred Close disarms.
RebootReturns ==
  /\ spc = "linger"
  /\ \/ Restarted
     \/ /\ Goto("gone")
        /\ petting' = FALSE /\ wdfd' = FALSE /\ wd' = 0
        /\ UNCHANGED <<conf, disp, sigCh, child, deaf, heir, waited, died>>

\* doReboot: sync, unmount the old root, reboot(2); os.Exit(1) if that fails,
\* without running a deferred call.
Reboot ==
  /\ spc = "linger"
  /\ \/ Restarted
     \/ /\ Goto("failed")
        /\ petting' = FALSE /\ wdfd' = FALSE
        /\ UNCHANGED <<conf, disp, sigCh, child, deaf, heir, waited, died, wd>>

----------------------------------------------------------------------------
(* The environment.                                                        *)

\* Notify never blocks: a full channel drops the signal.
SignalQueued(s) ==
  /\ Alive
  /\ disp[s] = "notify"
  /\ Len(sigCh) < SigCap
  /\ sigCh' = Append(sigCh, s)
  /\ UNCHANGED <<spc, conf, disp, child, deaf, heir, waited, petting, died, wd, wdfd>>

\* The descriptor of the watchdog is closed without the magic character.
SignalKills(s) ==
  /\ Alive
  /\ disp[s] = "fatal"
  /\ died' = s
  /\ petting' = FALSE /\ wdfd' = FALSE
  /\ Goto("gone")
  /\ UNCHANGED <<conf, disp, sigCh, child, deaf, heir, waited, wd>>

EntrypointForks ==
  /\ child = "running"
  /\ heir' = TRUE
  /\ UNCHANGED <<spc, conf, disp, sigCh, child, deaf, waited, petting, died, wd, wdfd>>

EntrypointExits ==
  /\ child = "running"
  /\ child' = "exited"
  /\ UNCHANGED <<spc, conf, disp, sigCh, deaf, heir, waited, petting, died, wd, wdfd>>

\* It stays alive and does nothing any more.
EntrypointHangs ==
  /\ child = "running"
  /\ child' = "hung"
  /\ UNCHANGED <<spc, conf, disp, sigCh, deaf, heir, waited, petting, died, wd, wdfd>>

HeirExits ==
  /\ heir
  /\ heir' = FALSE
  /\ UNCHANGED <<spc, conf, disp, sigCh, child, deaf, waited, petting, died, wd, wdfd>>

WatchdogFires ==
  /\ spc # "off"
  /\ wd # 0
  /\ ~petting
  /\ Restarted

----------------------------------------------------------------------------
\* What runs by itself once it can: the main goroutine and the waiting one.
Step ==
  \/ LoadConfig \/ AdoptWatchdog \/ ServeIdle \/ ChooseEntrypoint
  \/ StopServing \/ RunReturns \/ StartEntrypoint \/ NotifySignals
  \/ EntrypointDone \/ Reboot
Wait == WaitReaps \/ WaitReturns

Environment ==
  \/ \E s \in Signals : SignalQueued(s) \/ SignalKills(s)
  \/ EntrypointForks \/ EntrypointExits \/ EntrypointHangs \/ HeirExits

Next == Step \/ JoinTailnet \/ ForwardSignal \/ Wait \/ WatchdogFires \/ Environment

\* The pivot execs the supervisor with configuration c staged; the watchdog and
\* its descriptor are as the pivot leaves them.
Exec(c) ==
  /\ spc' = "boot" /\ conf' = c /\ disp' = Inherited /\ sigCh' = <<>>
  /\ child' = "none" /\ deaf' = {} /\ heir' = FALSE /\ waited' = FALSE
  /\ petting' = FALSE /\ died' = "none"

Init ==
  /\ spc = "boot" /\ conf \in Confs /\ disp = Inherited /\ sigCh = <<>>
  /\ child = "none" /\ deaf = {} /\ heir = FALSE /\ waited = FALSE
  /\ petting = FALSE /\ died = "none"
  /\ wd = (IF conf["watchdog"] THEN 1 ELSE 0)
  /\ wdfd = conf["watchdog"]

Spec == Init /\ [][Next]_svars

\* The process is scheduled, and the timer of the kernel expires in the end.
\* Nothing makes the entrypoint or a descendant of it exit, the tailnet come up or a
\* signal arrive.
Fairness == WF_svars(Step) /\ WF_svars(Wait) /\ WF_svars(WatchdogFires)

FairSpec == Spec /\ Fairness

----------------------------------------------------------------------------
(* Properties.                                                             *)

TypeOK ==
  /\ spc \in SupervisorStages \union {"off", "gone", "failed", "restarted"}
  /\ conf \in [Fields -> BOOLEAN]
  /\ disp \in [Signals -> {"ignore", "fatal", "drop", "notify"}]
  /\ sigCh \in Seq(Signals) /\ Len(sigCh) <= SigCap
  /\ child \in {"none", "running", "hung", "failed", "exited", "reaped"}
  /\ deaf \subseteq Signals
  /\ heir \in BOOLEAN /\ waited \in BOOLEAN /\ petting \in BOOLEAN
  /\ died \in Signals \union {"none"}
  /\ wd \in Nat
  /\ wdfd \in BOOLEAN

\* While an adopted watchdog is petted, the device ticks and its descriptor is
\* open: no path disarms or closes it and goes on petting, or the reverse.
PetsTheLiveDevice == petting => wd # 0 /\ wdfd

\* The supervisor restarts the machine only when the entrypoint is gone and the
\* last of its output, and of its descendants', is in the log on the old root.
RebootAfterEntrypoint ==
  spc = "linger" => child = "reaped" /\ (conf["tee"] => ~heir)

\* While it supervises or serves, no signal but a broken stderr ends it: TERM,
\* INT, HUP, USR1 and USR2 are forwarded or end the idle service in order.
LoopOutlivesSignals ==
  [][(spc \in {"loop", "serve"} /\ spc' = "gone") => died' = "PIPE"]_svars

\* With the watchdog armed, the end of the entrypoint takes the machine back to
\* the OS on disk even when the supervisor is killed during its last five
\* seconds or reboot(2) fails.  With a log tee, a descendant that never closes its
\* output holds the supervisor up for as long as it likes.
WatchdogBacksReboot ==
  child = "exited" /\ wd # 0 /\ ~conf["tee"] ~> spc = "restarted"

\* Without a watchdog too, whatever the status: it is never followed by an orderly
\* return.  Only a signal, or a reboot(2) that fails, keeps the machine from it.
ExitReboots ==
  child = "exited" /\ ~conf["tee"] ~> spc \in {"restarted", "failed"} \/ died # "none"

\* Wherever the supervisor may wait for longer than any watchdog allows, for the
\* tailnet, the entrypoint or a signal, a watchdog it was told of is petted.
AttendedWhileWaiting ==
  spc \in {"tailnet", "loop", "serve"} /\ conf["watchdog"] => petting

----------------------------------------------------------------------------
(* What a test of the code says, and the code does not do (README,          *)
(* "Disagreements").                                                       *)

\* lifecycle_test.go: for an entrypoint that cannot be exec'd "the machine ...
\* still has to go back to the OS on disk".
StartFailureReboots == child = "failed" ~> spc = "restarted" \/ died # "none"
=============================================================================
