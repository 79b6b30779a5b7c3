# xmorph in TLA+

`xmorph pivot` replaces the running OS of a machine by one in RAM: it builds a
rootfs, stops the services and processes of the old OS, calls `pivot_root` and
execs itself as a supervisor (`xmorph --init`) for one entrypoint. When the
entrypoint ends, the machine restarts into the OS on disk. What is hard about it
is what can happen on the way: a check that fails, a step that fails half way, a
signal, a session that drops, a control server that is away, a supervisor that
is killed, a watchdog that has to be ticking throughout. `xmorph build` prepares the
rootfs beforehand, into a cache. This directory holds models of both, the
model-checking runs over them and proofs about them.

## Inventory

| Part | Source (`src/internal/...`) | State it keeps | Operations | Modelled in |
|---|---|---|---|---|
| `runPivot` | `cli/pivot.go` | signal dispositions, scope, thread's mount namespace, deferred calls, tmpfs on `--work-dir`, armed watchdog | about twenty stages, each with early returns | `Pivot` |
| Supervisor | `postpivot/run.go`, `supervise.go`, `reboot_linux.go` | configuration, signal channel, child, petting goroutine | load, adopt, join tailnet, start, forward, wait, reboot; serve for `xmorph idle` | `Supervisor` |
| Watchdog | `postpivot/watchdog_linux.go` | descriptor, ticker, `done` channel; in the kernel the count and the limit | probe, arm, adopt, pet, close | `Watchdog` (time), `Pivot` and `Supervisor` (who holds it) |
| The whole way | `cmd/xmorph/main.go`, exec | one process image after the other | exec, restart | `Xmorph` over `DeadMan` |
| Mounts | `pivot/pivot.go`, `prepare.go`, `cleanup.go`, `tmpfs.go` | the mount tree of a namespace | unshare, self-bind, essentials, pivot, unmount | `Mounts`; outcomes in `Pivot` |
| SSH server | `postpivot/sshd_linux.go` | listeners, sessions | accept, handshake, run, report; reap beside it | `Reach` (listeners, authentication, connections), `Sessions` (commands) |
| Init coordination | `initsys/*.go` | none of its own; a unit's jobs | relocate, isolate, wait for jobs | `Terminator`; relocation's outcome in `Pivot` |
| Process terminator | `process/*.go` | pids found by a scan | scan, TERM, poll, KILL | `Terminator` |
| Memory budget | `sysmem/meminfo.go`, `config/size.go` | the memory as read, the size chosen | read, parse or recommend a size, check headroom | `Budget`, with the mounts `Rootfs`; refusals in `Pivot` |
| Rootfs and layers | `rootfs/*.go`, `oci/*.go` | the files in the work dir | clean, extract, white out, merge | `Extract`; the sequence of layers in `Builds` and `Pivot` |
| Build command | `cli/build.go`, `build_compose.go`, `oci/layout.go` | cache entries, work dir, output | look up, build, append to a layout, copy | `Builds` |
| Log handler | `log/log.go` | buffer, sinks | handle, flush | not modelled |
| Configuration | `config/*.go`, `postpivot/configwrite.go` | flags | parse, validate, normalise, stage | what is implied and staged in `Reach`, layers in `Builds`; other flags as they steer control flow |
| Tailscale | `tsnetauth/*.go` | a library | pre-auth, join | `Pivot`, `Supervisor` and `Reach`, as calls that need the control server |
| Contain, dry run, device nodes, firewall, resolv.conf, passphrases, packaging | | | | not modelled, see below |

**How they interact.** `runPivot` calls everything up to the exec in one
goroutine. Pivot and supervisor are two images of one process: what passes the
exec is the pid, the open watchdog descriptor (`WatchdogFDEnv`), stderr, the environment,
ignored signal dispositions and the file `/etc/xmorph-init.json` in the new
root; deferred calls and handlers do not. Pivot and the later supervisor share
the kernel's watchdog. A second pivot meets what the first one
left behind: a mount, files, a ticking timer. Builds share the cache, the work
directory and the output, with each other and with what earlier ones left in them.

**What makes each part correct.** Pivot: nothing is taken from the running OS
before every check has passed, nothing catchable ends it after that, and an
abort undoes what it set up. Supervisor: the machine restarts when the
entrypoint ends, whatever signal comes in between, and not before its output is
written; the watchdog is petted wherever it waits. Watchdog: it never fires
under a process that is in charge, and it always fires when that process is
killed. Together: an armed watchdog is only given up in an orderly end. Sessions:
each ends with its command, after its output, and reports no success that was
none. Extraction: the tree is what the layers' changesets say, and a link leads
where the pivoted system will follow it. Mounts: the new system has its
essentials, whatever was mounted before, and the host's other processes see none
of it. Stopping the old OS: nobody who must survive is signalled, what is reported
is true, and it comes to an end whatever the processes do. Reaching the new system:
the operator holds a credential it accepts, what was printed about it is true, and
it runs the entrypoint that was checked. Building: what the cache lists is whole and
is what its key says, and a hit delivers it.

**Hard behaviours.** Signals at every stage, with dispositions that change at the exec
and at `Notify`/`Stop`; deferred calls on a thread whose mount namespace differs from
the host's; partial failure of every mount step; the two writers of the watchdog
descriptor; `cmd.Wait` against the child's descendants, and against `reapOrphans`; links
that earlier layers plant under the paths of later ones; mounts that hide mounts; timers
against scheduling delays; process ids that change hands between a scan and a signal;
builds that break off or run at once over directories nothing locks; credentials that
are printed on a stderr the pivot may take away; calls on the bus that nobody has to
answer. `PROJECT.json` lists them under `hazards`, each at its line.

## Modules

`Pivot` — `runPivot`. One action per stage, in the order of the code (`pc` names
the stage); an action has one disjunct per outcome, early returns included.
`defers` is the stack of deferred calls. `Return` starts unwinding, which pops
one call per step; `Signal` and `Reap` end the process without unwinding.
`tmpfs` is the set of namespaces in which the tmpfs is mounted, `ram` and `dir`
the runs whose layers lie in it and under it. `checks` and `harm` are history:
the checks passed and what was taken from the old OS. `wd` is the run whose open
of the device made it tick.

`Supervisor` — `Run`, `Supervise`, `ServeUntilSignal` and `doReboot`. `spc` is the
main goroutine; `WaitReaps` and `WaitReturns` are the goroutine behind `doneCh`;
`disp` is what a signal does at present. `child` is the entrypoint, `heir` a
descendant that holds its output.

`Watchdog` — the device in time; its specification is `WSpec`, for `Sessions` is proved
about beside it. `age` counts from the last write, `release` says
whether a close may stop the device, `petter` is the goroutine in or between its
`select` and its write, `holder` the process with the descriptor, and how far its
`Close` has got. `Punctual` bounds the handover and the scheduling delay by
constants.

`Xmorph` — `Pivot` extended and `Supervisor` instanced on the same `wd` and `wdfd`. The
exec of `Pivot` becomes `Supervisor`'s `Exec`; `Staged` is what `buildPostpivotConfig`
derives from the flags; a restart ends both.

`Sessions` — the SSH sessions and what reaps beside them. `at` is where a session's
goroutine is, `proc` its command as the kernel has it: a "zombie" becomes "reaped"
by `cmd.Wait` or "lost" by `reapOrphans`. `out` is the copying of the output, which
ends when the command and its `heir` have. `main` is either `ServeUntilSignal`
(`xmorph idle`) or `Supervise`; `chld` counts the notifications in `chldCh`.

`Extract` — one action per kind of tar entry. The tree is a function from paths without
links to nodes. A walk is at a path without links and has the rest before it: `Enter`
takes a component, `Follow` a link, `Ends` fails or leaves. `SecureStep` is one turn of
`secureJoin`'s loop, `KernelStep` what the kernel does with one component, unrestricted
(for the process that builds) or below the new root (for the pivoted system). `Turns` is
how many either can take, for each link brings at most `MaxParts` components and at most
`MaxLinks` are followed; the kernel's own limit is the lower one (40), so that giving it
`secureJoin`'s makes `ResolvesLikeKernel` say more. `LayerOver` is the reference: a
layer's changeset, without the order of its entries. A whiteout's name is what is left
of it behind `.wh.`, which may be nothing, `.` or `..` (`Here`, `Up`); `WhiteoutTarget`
is what `filepath.Join` makes of it.

`Mounts` — a mount table is a function from numbers to mounts; a later mount hides what
earlier ones have at its path and below, and `Covering` is the last one a path leads to.
`host` and `mine` are the tables of the host and of the thread after `unshare`. `stage`
walks through `runPivot`'s mount steps, `Exec` and `doReboot`. In "detach", and before
the restart in "unmount" and "force", `todo` holds the paths that `unmountUnder` read at
the beginning and has still to unmount, a path after those below it, and `failed`
whether one could not be; a pass is one step per path. What the run starts from
(propagation, device numbers, which thread the goroutine is locked to, flags) is chosen
in `Init`.

`Terminator` — `TransitionToRescue`, `WaitForServicesToStop` and `Terminate`, as
`runPivot` calls them one after the other (`stage`). Each loop over ids is one action
per id, with `todo` for the ids left. `holder` says who has an id; `info` is what the
scan has found there and `same` whether that process, or its zombie, still has it.
`Exit`, `Reaped` and `Fork` are the other processes. Each call on the bus is a stage that is
left by an answer of systemd (`StartUnitReturns`, `BusConnects`, `JobsListed`) and by nothing
else; `AskJobs` looks at the deadline before it asks.

`Reach` — what becomes of an entrypoint and of SSH credentials. `line` is a command line
with what its image says; `password`, `entry`, `staged` and `argv` are what `runPivot`
makes of it, `conf` what the supervisor could read of it after the exec. `sshd`,
`bound`, `loop` and `busy` are the goroutine of `StartSSHServer`, its listeners, those
that are still accepted on, and those with connections; `shown` is the history of the
banners, before the pivot and after it, on the one stderr that the exec hands on: a
console, or a session that ends with the old system. `login` says that the node
`PreAuth` registered needs no new login, and a line's `server` whose control server it
is.

`Builds` — `runBuild`, several at once and one after the other. `pc[b]` and `mem[b]` are
a build's stage and what its process holds. `work` is the work directory, one piece per
layer, with the build that extracted it; a layout is its `index` and its `blobs`, which
are written apart. `FromPath`'s look at the index, `layout.Write`'s emptying and its
writing are steps of their own. A copy lists the blobs (`todo`), removes and writes each
(`file` is the one that is open) and then the index; a file another build removes
meanwhile is `lost` to who has it open. `BreakOff` ends a build at any stage, with what
the stage has done by half. `mixed` is the history of builds that another one disturbed
in the work directory, `upset` the copies that another one got in the way of.

`Budget` — the size of the tmpfs in three steps of `runPivot`: the memory is read, a size is
chosen (the one asked for or the recommendation), and the headroom is checked. Byte counts
wrap, and their width is a parameter. Its specification is `BSpec`.

`Rootfs` — both together: `Size` has the steps of `Budget` that come before the tmpfs, and
`MountSized` mounts it as the check passes, or goes on with the work dir as it is. A refusal
leaves the mounts as they were. Each of its steps is one of `Mounts`, of `Budget` or of both
(`RootfsIsBoth`), so that what is proved about either holds of it.

`DeadMan` — the abstract specification: home, away, quitting, lost, and a flag for
the watchdog. `Xmorph` implements it under the refinement mapping `Place`.

`MC*` — command lines, configurations and driver limits for TLC. `*_proofs` — the
theorems.

Operators that begin with the name of an action and are introduced by a comment
"Mutant" are that action with a plausible bug; no specification uses them. They
show that each property depends on the code.

## Runs

| Run | Question | Bounds | States |
|---|---|---|---|
| `pivot` | Is every abort clean, is the commit final, does every run end? | 5 command lines, 3 invocations | 58,000 |
| `supervisor` | Does the machine come back after the entrypoint, and only then? | all 16 configurations, channel of 2 | 5,900 |
| `watchdog` | Is it petted in time and does it fire after a kill? | 5 ticks to a second, timeout 14, driver limits 4 and 15, handover 3, latency 2 | 1,800 |
| `xmorph` | Do both together implement `DeadMan`? | 3 command lines, 16 configurations, 2 invocations, channel of 1 | 163,000 |
| `sessions` | Does each session end, with its output, and say the truth? | 2 clients, SIGCHLD channel of 1 | 310,000 |
| `extract` | Is the tree what the layers say? | 3 of 344 layers of up to two entries, names a and b, 2 links followed | 244,000 |
| `mounts` | Essentials there, old root gone, host untouched? Does the size of the tmpfs hold? | 4 hosts, every flag, thread and propagation; 16 machines with counts of 16 bits, 10 sizes | 98,000 |
| `terminator` | Who is signalled, is the result true, does it return? | 3 ids: its own and two others | 163,000 |
| `builds` | Is the cache what it says, does a hit deliver? | 2 command lines, 3 builds, 2 at once | 5,000,000 |
| `reach` | Can the machine be logged into, does it run what was checked? | 485 command lines | 45,000 |
| two violations | see "Disagreements" | as `supervisor` and `watchdog` | |

**Why the bounds are enough.** Three invocations let an aborted run meet what another
aborted run left and a third one build on both; the state carried over is one mount, two
sets of files and one timer, so more runs bring nothing new. The five command lines
between them set and clear each flag; the theorems cover all others. The signal channel
of 8 is cut to 2 (1 in `xmorph`): full, half full and empty are told apart. In
`watchdog` both the whole seconds of the timeout (10 ticks of 14) and a third of them
(3) are rounded, one driver limit is below the margin of 8 and one above, and time stops
at the limit. In `sessions` two clients are what it takes to drop a notification from a
channel of one and to have one command collected in the other's turn. In `extract` a
third layer acts on what a second one made of a first one's links; two entries are
enough to put a marker behind what it removes and a file in place of a directory; with
two links followed, both a chain and a chain that is too long occur. The hosts of
`mounts` have mounts below `/dev`, stacked and nested mounts, a mount that hides
`/mnt/oldroot`'s parent, a mount over two others and then one over a third, and a
leftover tmpfs. In `terminator` two ids besides its own are two targets, or a target and
one to spare, and each may be freed and taken again at every step; nothing is counted
but the targets, so nothing is capped. In `builds` one command line has an image twice
with an overlay between and writes to an output, at first beside the entry and then as a
copy of it; the other refreshes the default's entry, appending to it, and writes a
tarball; two at once are what it takes to interleave, and a third finds what both have
left. In `reach` the command lines are all combinations of the SSH flags with and
without a tailnet, on either control server, on a console and in a session, and all of
the three sources of an entrypoint with and without a terminal. The byte counts of 16
bits in `mounts` put a product just below, at and just above the width, and a tenth of
the memory is whole or not, and less or more than what is available; the view `Remains`
forgets the size once the tmpfs is mounted, for no later step reads it or changes it.
`MaxRuns`, `SigCap`, `ChldCap`, `MaxLayers`, `MaxLinks`, `MaxParts`, `MaxBuilds`,
`MaxAtOnce` and the scheduling bounds `Handover` and `Latency` are the only caps.

**Deadlock** is checked in `reach`. In the others the system may stop: the operator may
stop invoking the program, the machine may have restarted, no process may be left,
builds or the sequence of mounts may have ended, or the size may have been refused.

**Fairness.** `Pivot`: weak fairness on the stages and on the unwinding; runPivot is one
goroutine that is runnable in every stage, and its waits for the control server (30 s),
the services and the processes (`--timeout`) and its grace of 10 s have timeouts of
their own. Two kinds of call have none and get no fairness (`AwaitsAnswer`): layers
fetched from a registry, and systemd's on the bus (`StartTransientUnit`, `StartUnit`,
`ListJobs`), whose deadline is looked at between the calls only. `Supervisor`: weak
fairness on the main goroutine's own steps, the waiting goroutine and the kernel's
timer; none on the entrypoint, its descendants, signals or the tailnet, so `JoinTailnet`
may wait for ever. `Watchdog`: weak fairness on time. `Xmorph`: on the kernel's timer
alone, which is all that `DeadMan` asks for. `Sessions`: weak fairness on the main
goroutine's own steps and on each session's; each is a goroutine of its own and runnable
when the step is enabled. None on commands, their descendants, clients or signals.
`Terminator`: weak fairness on the coordinator's own steps, on `Terminate` (one
goroutine whose sleeps are bounded) and on the clock; none on the answers of systemd,
nor on the processes, which may go on for ever. `Reach`: weak fairness on the pivot, on
the supervisor and on the server's goroutine; none on clients, none on an error of the
tailnet's, and none on the control server, whose return `GetsReachable` has to assume.
The step onto the tailnet can be taken only by a node that is logged in, on the hosted
server. `Extract`, `Mounts`, `Builds`, `Budget` and `Rootfs` have no liveness property.

## Properties and what they rule out

`Pivot`: `HarmOnlyAfterChecks` (a check after or beside the commit),
`CommitUninterruptible` (a signal list that misses one, or comes late),
`ReturnUndoes` (an abort that leaves the timer, `ReturnDisarms`, or a pinned tmpfs,
`ReturnReleases`) and `SupervisorIsArmed` (an exec that loses the timer: over several runs,
probes and stale timers), `FreshRoot` (layers of an aborted run in the new root), `RunEnds`
(a wait for the control server, the services or the processes without a bound; it excepts
the calls that wait for an answer). `FreshRoot` is about runs with a tmpfs of their own, and
`ReturnReleases` about runs that unwind on a thread of the host's namespace; the
code does not deliver either without that restriction.

`Supervisor`: `ExitReboots` (an entrypoint's end that nobody follows up: a supervisor
that is not killed by a signal reboots, or its `reboot(2)` fails; an orderly return is
not enough), `WatchdogBacksReboot` (the same with a watchdog behind it, killed or not),
`RebootAfterEntrypoint` (a reboot under a process that still writes),
`AttendedWhileWaiting`, `PetsTheLiveDevice`; `LoopOutlivesSignals` is a theorem without
a run.

`Watchdog`: `AttendedNeverFires`, `KillFires`. `Xmorph`: `KeepsDeadMan`.

`Sessions`: `SuccessIsReal` (a lost status taken for 0), `OutputBeforeStatus` (output
cut off by the hang-up), `TruthfulUnderSupervision` (a reaper beside the
entrypoint), `SessionEnds` (a session that waits for its client's stdin or for a
status that is gone), `NoZombieStays` (a dropped or merged SIGCHLD).

`Extract`: `Flattens` is about layers without links over trees without links, whose
markers come before the entries they would cover and name something;
`ResolvesLikeKernel` about trees in whose links no `..` follows a name, for which
lexical cleaning and the kernel agree; `OnlyDirectoriesReachOut` is what contains an
archive, with the two exceptions it names.

`Mounts`: `EssentialsVisible` (a self-bind too many or too late, a flat bind),
`OldRootGone` and `OldRootClosed` (an unmount that stops at a nested or stacked mount),
`HostUntouched` (propagation). `OldRootGone` is about a goroutine locked to the first
thread.

`Terminator`: `SparedAreSpared` (a check that is out of date when the signal is sent),
`NoErrorMeansGone` (a SIGKILL taken at its word), `ResultCounts` (a process counted in
two rounds; a theorem without a run), `TerminateReturns` (a wait without a deadline; it
excepts answers of systemd that do not come). The first is about processes the scan has
found: a later holder of an id may be anybody.

`Reach`: `LoginPossible` (a generated password that is not printed before the pivot, or
not again on a console that outlives it), `BannersTrue` (a port or password printed that
is not the server's, the operator's own password on a console),
`SupervisesWhatWasChecked` (a second way across the exec that says something else),
`GetsReachable` (credentials that are missing, found out where nobody looks; a wait that
goes on after the network is back, for a node that can join it).

`Builds`: `EntriesWhole` (an index written before its blobs), `EntryIsItsKey` (leftovers
or the wrong layers under a key), `SameWinner` (a deduplication that changes which layer
wins), `HitDelivers` (an output in which the reader finds another image, or half a one).
`EntryIsItsKey` excepts builds that shared their work directory with another one, and
`HitDelivers` an entry that is cut while it is copied, and copies that a second copy
into the output or a late `layout.Write` on the entry got in the way of: the code gives
no more.

`Budget`: `SizeHolds`, in three parts: `ReserveLeft` (a difference that wraps when more
is asked for than there is), `RecommendedAccepted` (tenths of two different amounts in
the recommendation and in the check, or rounded differently), `SizeAsAsked` (a suffix
that makes a count overflow to a small size).

Every component has a type invariant `TypeOK` (`WTypeOK` in `Watchdog`, `BTypeOK` in `Budget`).
The runs do not list it, for their other invariants are worth more; added to a cfg it passes,
and every one of them is a theorem.

## Disagreements

Two places where a comment or a test says one thing and the code does another, each
with a run in which TLC finds the counterexample.

1. `StartFailureReboots`. `lifecycle_test.go:94`: for an entrypoint that cannot be
   exec'd the machine "still has to go back to the OS on disk". `Supervise` returns
   127 before the reboot, `Run`'s deferred `Close` disarms the watchdog.
2. `CloseDisarms`. `watchdog_linux.go:233`: "Close disarms the watchdog". The petting
   goroutine may write its zero byte after `Close`'s magic character.

Two more are stated in the modules and violated when they are added to `MCPivot.cfg` or
`MCSessions.cfg` as invariants. `FailedPivotReleases`: `tmpfs.go:50` has `UnmountTmpfs`
"so a failed pivot does not leave a RAM-backed filesystem (and its contents) pinned";
the deferred unmount runs on the thread that was moved into a private mount namespace,
so it unmounts that namespace's copy and the host keeps the mount. `StatusPropagates`:
`sshd_linux_test.go:96` expects a session that runs `exit 42` to end with
`ExitError(42)`; under `xmorph idle` `reapOrphans` may collect the command first,
`cmd.Wait` then fails and the client is told 1.

The models also reach, without a run of their own: an exec that fails after
`pivot_root`, where "reaching a return at all means we are staying on the old OS"
(`pivot.go:227`) no longer holds; an abort after services were stopped, against "at any
failure before step 9 we abort cleanly" (`pivot.go:73`); leftovers of an aborted run
under `--no-rootfs-tmpfs`; a log tee whose pipe a descendant never closes, so that
`cmd.Wait`, and with it the reboot, waits for ever; the end of `xmorph idle`, which does
not reboot; a hung entrypoint under a petted watchdog, which `flags.go:75` says is
reset; a driver that refuses the timeout and fires under a working supervisor; a
supervisor that ends by a write to a stderr whose reader has died, `SIGPIPE` being
ignored up to the exec only, against "From here on a dropped controlling session must
not take xmorph with it" (`pivot.go:143`); a call on the system bus that is not
answered, which holds the pivot up for ever whatever `--timeout` says, before or after
services were stopped.

`Sessions`: a terminal session whose client has gone keeps an idle shell for ever, the
terminal being closed only after the wait; a child that ends before `Notify` stays a
zombie until the next notification; a command killed by a signal is reported as -1,
unsigned.

`Reach`: an accept loop returns for good on any error, such as a moment without
descriptors, and the port stays dead although "Closes every listener on exit"
(`sshd_linux.go:66`); the error is seen when the other listener's loop has returned,
too. Authorized keys that are all comments, or of which one is malformed, count as a
credential, and the machine comes up with a server that never listens, against "can
actually be logged into" (`pivot.go:554`). While the control server is away, neither the
entrypoint nor the SSH server starts, on the kernel's network either, and the watchdog
is petted. So it is for good with `--tailscale.server` (`docs/rescue.md:144`), and for a
node that has to log in again: `postpivot.go:20` drops the server and the key that
`PreAuth` was given, and `Up` waits without a limit. The second copy of a generated
password "goes to the console after the pivot" (`docs/rescue.md:196`; `run.go:99` says
the first one's terminal is dead by then), but both are written to the same inherited
stderr (`pivot.go:261`, `run.go:104`): over SSH the second goes to nobody, and neither
goes to `xmorph.log`, where `docs/rescue.md:205` has it. Outside the model: without
`--hostname` among the Tailscale arguments `run.go:86` passes an empty name, where
`postpivot.go:13` says it "must match what PreAuth used".

`Builds`: a first build that breaks off after the layout is begun leaves an `index.json`
that lists nothing or is cut, and every later build is a hit on it; where it is cut,
`--no-cache` fails as well. A refresh with `--no-cache`, and a second build into the
same output, append, while readers take the first image that loads (`load.go:66`): what
is used stays the old one. Two builds at once extract into one work directory, and one
of two appends to an index may be lost. `layout.go:18` looks and `layout.go:20` writes
without a lock: a late `layout.Write` empties the index of an entry another build has
completed, and a hit that copies it delivers nothing. A copy removes each file of the
output before it writes it: broken off there, or with a second copy in its way, a blob
that is listed is missing, or what is written goes to a file that has no name any more.
A hit returns before `--rootfs-output` is looked at. The key ignores digests, so a
pinned image and its tag share an entry. Outside the model, `build.go:22` says that a
build makes "a later pivot fast", and `runPivot` never looks into the cache.

Outside the model of `Budget`, "75% of available" (`meminfo.go:106`) is what the comment
says of a warning that the code gives below a quarter of the total.

`Extract`: a whiteout or opaque marker that its archive lists after entries of the same
layer removes those as well, against `extract.go:18` ("contributed by earlier layers");
a directory entry over a file fails the build, against "later-wins semantics"
(`builder.go:28`); a directory entry over a link keeps the link and sets the permissions
of what is behind it, against "unlinked (never followed)" (`extract.go:96`); a directory
layer is copied with the kernel's resolution and follows absolute links of earlier
layers to the running OS. The check of `extract.go:119` is about the name with its
`.wh.`, which is trimmed at line 141 only: a whiteout named `.wh...` removes the
directory above its own, at the top the one that holds the target directory, and `.wh.`
removes its own directory, against "joined literally" (`extract.go:95`).

`Mounts`: `/proc/self/mounts` is the table of the process's first thread, which keeps
the host's namespace; when the goroutine is locked to another one, `CleanupOldRoot`
finds nothing to unmount. `--keep-old-root PATH` (`flags.go:58`) never moves the old
root to PATH, but `doReboot` unmounts what lies under PATH. A work dir that is a btrfs
subvolume counts as a mount, is not bound onto itself, and fails in `MakePrivate` after
services were stopped.

`Terminator`: a process forked after the scan is never seen, against "every
non-essential process" (`terminator.go:25`); an id that is free and taken again before
SIGKILL may by then belong to an essential process, which `essential.go:9` says "must
NOT be terminated"; a zombie keeps its entry under `/proc`, so a target that has ended
and is not reaped is waited for, killed and reported as stubborn. Only the direct parent
is spared: a pivot from a shell of an earlier pivot's supervisor kills that supervisor
(outside the model).

## Proofs

Checked by TLAPS for every value of the constants:

- `Pivot_proofs`: `TypeOK`, `CommitUninterruptible`, `HarmOnlyAfterChecks`,
  `ReturnUndoes`, `SupervisorIsArmed`, `FreshRoot`; and that a run has
  at most 38 steps of its own to take (`PivotRunsCountDown`).
- `Pivot_proofs`, of `Xmorph`: every step of the composition is one of `DeadMan`, or none
  (`XmorphStepsAsDeadMan`).
- `Supervisor_proofs`: `TypeOK`, `PetsTheLiveDevice`, `AttendedWhileWaiting`,
  `RebootAfterEntrypoint`, `LoopOutlivesSignals`.
- `Postpivot_proofs`, of `Sessions`: `TypeOK`, `SuccessIsReal`, `OutputBeforeStatus`,
  `TruthfulUnderSupervision`; of `Watchdog`: `WTypeOK`, `AttendedNeverFires`, and what it comes to
  for a driver that takes its limit: two thirds of the whole seconds are left for the handover and
  the delays (`WatchdogTwoThirdsSuffice`).
- `Terminator_proofs`: `TypeOK`, `SparedAreSpared`, `NoErrorMeansGone`,
  `ResultCounts`; and that stopping the old OS counts down, but for
  rounds of polling before the deadline (`TerminatorCountsDown`).
- `Builds_proofs`: `TypeOK`, `EntriesWhole`, `EntryIsItsKey`, `HitDelivers`, `SameWinner`.
- `Reach_proofs`: `TypeOK`, `LoginPossible`, `BannersTrue`, `SupervisesWhatWasChecked`.
- `Mounts_proofs`: `TypeOK`, `HostUntouched`, `EssentialsVisible`, `OldRootGone`, and
  `OldRootClosed` for hosts whose mounts are in two layers (`HidesOnce`); and of `Budget`,
  for byte counts of every width: `BTypeOK`, a tmpfs that is mounted leaves the reserve
  (`ReserveLeft`), the recommendation passes its own check (`RecommendedAccepted`) and is
  the most that does (`RecommendedIsMost`), and no size wraps around (`SizeAsAsked`), which
  together are `SizeHolds`. `Rootfs` implements both (`RootfsIsBoth`).
- `Extract_proofs`: `TypeOK`, `OnlyDirectoriesReachOut`, `ResolvesLikeKernel`, `Flattens`;
  and of the walks: each comes to its end (`WalksEnd`), and `secureJoin` agrees with the
  jailed kernel on every path, not only the short ones of the run (`ResolvesAlike`).

None of the properties is inductive by itself. Each theorem rests on an invariant that
says, stage by stage, what the run has achieved so far, with a lemma for the initial
states, one for every step (one proof step per action) and a last temporal step.
`CommitInv` ties the stages past the commit to the ignored signals; `ChecksInv` ties
each stage to the checks passed by then; `DogInv` ties the timer to the stages from
arming to exec and to a pending `disarm` on the deferred stack, at whose position the
proof has to argue about `Append` and `SubSeq`; `ReleaseInv` does the same for the tmpfs
and the thread; `FreshInv` says what the mount holds at each stage. In
`Supervisor_proofs`, `PettingInv` ties petting to device and stage, `WaitedInv` a
reported end to the child and its output, `SignalsInv` the stage to the dispositions.
For `Sessions` one invariant serves all its properties: what was sent follows from how
the command was collected, only `reapOrphans` loses a status, and a session past its
copying has copied everything. In `Terminator_proofs`, `Found` says that only an end has
changed what the scan found, `Watched` that a target still there is on the list the next
stage looks at, and `Counted` that whoever is not yet counted is in the loop that runs,
which is where the proof argues about cardinalities. `InTime`, of `Watchdog`, is the
arithmetic one: with a tick outstanding, the age of the last write is within what the
delay so far allows; otherwise the age, the rest of the interval and one delay stay
within the margin. In `Builds_proofs` the images a process has read from an index, or is
about to list, have their blobs there already, for blobs of an entry are never removed
and an index only passes from one process to the next; and what is in the work directory
is either the prefix of its own layers that a build has extracted, or the build is in
`mixed`. `HitDelivers` follows the images that can be an entry's first, now or once a
build that has read the index has written it again: after a hit on a filled entry that
set only shrinks, as long as no late `layout.Write` upsets it (`FirstsShrink`), so that
each of its images stays in the output or among those still to be copied (`Covered`,
`Copied`); and a copy whose open file was removed is among the upset ones (`Losers`), so
that one that is not leaves each file it writes where it is. `SameWinner` goes through
the layers from the back: of those dropped by the deduplication each has its last
occurrence still to come. In `Reach_proofs` each property follows from what the
configuration of a running supervisor has in common with the command line.

`HostUntouched` needs that the thread's namespace is private from `MakePrivate` on, and
nothing of the tables. The others of `Mounts` are about the tables themselves. Lemmas
say where a path leads after each operation (`AddLeads`, `RecBindLeads`, `PivotedLeads`,
`UnmountLeads`): as before, unless the operation was at the path or above it. `Inv` then
says, stage by stage, which essentials lead where below the work dir, and after
`pivot_root` below the top; that unmounting under `OldRoot` takes none of them along,
for no path of theirs is below it; and that, while the old root is being detached,
either nothing of it is left, or its own mount is still there, below all others under
it, and its path still in `todo` (`DetachNext`): whatever else fails on the way,
detaching that one takes everything along.

`OldRootClosed` asks more, for ordinary unmounts take one mount each and fail where
another is mounted on it or over it. `unmountUnder` goes by the length of the paths, not
by the order in which mounts hide each other, and passes twice. `HidesOnce` says when
that is enough: the mounts are in two layers, in neither of which one hides another
below it, and what was mounted after a mount of the upper layer, above, at or below its
path, is in the upper layer too. `Outer` carries the two layers through the preparation,
whose own mounts are below the new root, and `PivotedLayers` through `pivot_root`, which
numbers the mounts anew. From there, in `Closing`, every mount of the upper layer has a
turn of its own in `todo` (`Paired`), for stacked mounts have one path and several
turns. A turn comes when none is left for a path below its own; if a mount of the upper
layer is there, the last one is uncovered and bare (`UpperUnmounts`), and takes that one
away with its turn (`PairedWithout`), whatever fails beside it (`TurnCloses`). So the
first pass clears the upper layer. If nothing failed it has cleared all, for then every
turn took a mount; if not, what is left hides none of its own any more and is an upper
layer for the second pass (`PassesClose`). The condition is the right one, though this
half is argued here and not proved: a pass never unmounts both a mount and one that
hides it, nor a mount before what was put on it or over it, so that what two passes
close was in two such layers.

In `Extract`, `WalksEnd` counts down: what a walk has still to enter, and `MaxParts` for
each link it may still follow, falls with every turn; so `Kernel` and `SecureJoin`,
which stop after `Turns`, are at the end of the walk and not in its midst.
`ResolvesAlike` is a simulation. The two walks are out of step, since `secureJoin`
cleans what a link brings before it goes on and the kernel goes up and down on the way:
`Match` says that they stand at one place when what the kernel has before it is cleaned,
and that is kept by every step of the kernel's, with one of `secureJoin`'s or none
(`MatchStep`), as long as no `..` follows a name in a link. `Flattens` follows one
layer: `Extracting` says that the tree is the changeset of the entries already handled
over the tree the layer began with, and each kind of entry adds its own (`WhiteNext`,
`RemovedNext`, `FileNext`, `DirNext`); without links a parent is where its name says
(`LinklessJoin`) and a whiteout removes what it names (`WhiteoutIs`). All of it needs
that the tree is one (`Typed`): what has a parent has a directory for one, across
failures half way.

Two theorems are what can be proved of liveness without fairness. In
`PivotRunsCountDown` the bound is two for each stage still to come, one of them for the
call that a stage may register with `defer`, and one for each registered call (`Left`);
every step of the program lowers it, also the failures, and neither the clock nor a
signal raises it. In `TerminatorCountsDown` it is, for each stage still to come, a turn
for every id and one to leave the stage, and the ids the loop has still to visit; only
`PollAgain` raises it, which is over when the deadline has passed, and a deadline that
has passed stays so. Answers of systemd are steps of others. That some step can be taken
until then, and is, is what `RunEnds` and `TerminateReturns` add.

Induction over natural numbers appears in three of the modules. The library's induction
theorems take the property as an operator, which the provers cannot instantiate; the
lemma `Induct` states it for the set of numbers that have the property, from the
well-foundedness of `<` on the naturals, and that can be cited.

The refinement proof says of each action which action of `DeadMan` it is. It needs the
invariant `XInv`: runs are numbered from one, so that an armed device is not taken for
none; checks come before the first harm, so that only at home is the watchdog probed; and
between the probe and the arming nothing ticks, so that a failed arming, which disarms,
drops nothing.

Assumptions: the named `ASSUME`s on the constants, which TLC evaluates in the runs.
`TimeAssumption` contains what `validate.go:24` enforces (a timeout of a second at
least). `HostTablesAssumption` says of a host that it has one root, which was mounted
first, nothing where the run will create the directory for its old root, and nothing of
the tmpfs that only the run will make; the theorems about mounts are about every such
host, however its mounts are stacked. Only the one about `OldRootClosed` has a
hypothesis of its own, `HidesOnce`, which `HidingAssumption` evaluates for the hosts of
the run. `BudgetAssumption` of `Budget` says that byte counts fit their width and that a
total of memory is none at all or a kilobyte at least, the unit of `/proc/meminfo`.
`NamesAssumption` and `LayersAssumption` of `Extract` say what `extractTar` lets
through: names that were cleaned and do not climb before a whiteout's prefix is trimmed,
whiteouts of anything including `.` and `..`, links to anywhere and hard links that
climb; and that a directory has no whiteouts and no hard links (`copyDir` makes files of
those). `BoundsAssumption` has no more than that limits are numbers.

Only model-checked: the liveness properties (`RunEnds`, `ExitReboots`,
`WatchdogBacksReboot`, `KillFires`, `SessionEnds`, `NoZombieStays`, `TerminateReturns`,
`GetsReachable`), which is a matter of ENABLED; for the same reason the fairness that
`KeepsDeadMan` asks of a lost machine. `OldRootClosed` is false without its hypothesis:
with mounts that hide each other three deep (a mount and one below it, over both of them
the same two again, and over those a third) the two passes leave something behind.

## Not modelled, and why

Dry run and contain touch nothing of the running OS. Device nodes, firewall, hostname,
resolv.conf and passphrases are sequential I/O or pure data whose failure is logged or
returned and changes nothing else here. The log handler's clones share a buffer without
sharing its mutex, but nothing in the program makes a clone. Parsing of flags, merging
of image configurations and the classification of sources are data. A kernel built with
`nowayout`, which makes every disarm of the code ineffective, is left out. Logging is
left out, with the exception of the tee that `cmd.Wait` waits for and of the write that
can raise `SIGPIPE`.

## Plan

What would come next:

1. An abstract specification for `Mounts` (a pivoted tree and an untouched one), which the
   theorems about its tables make provable.
2. `Flattens` for layers with links, against a reference that resolves them.
3. `--contain`: the child's namespaces and what survives its end.
