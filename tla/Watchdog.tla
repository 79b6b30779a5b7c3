------------------------------ MODULE Watchdog ------------------------------
(***************************************************************************)
(* The kernel watchdog and the goroutine that pets it, in time:             *)
(* internal/postpivot/watchdog_linux.go with the device behind it.          *)
(*                                                                         *)
(* ArmWatchdogPrePivot opens the device and sets its limit, the supervisor  *)
(* adopts the descriptor after the mounts and the exec, a Ticker of a third *)
(* of the timeout wakes the petting goroutine, and Close tells that         *)
(* goroutine to stop, writes the magic character and closes, without        *)
(* waiting for it.  The device restarts its count at every write, and a     *)
(* write also decides whether the next close may stop it.                   *)
(*                                                                         *)
(* Simplifications: time is counted in ticks; a kernel built with nowayout, *)
(* which no close stops, is left out.                                      *)
(***************************************************************************)
EXTENDS Naturals

CONSTANTS
  Second,    \* ticks in a second
  Timeout,   \* --watchdog-timeout
  Defaults,  \* limits a driver may have when it refuses to set ours
  Handover,  \* the longest way from the arming to the adoption
  Latency    \* the longest a runnable goroutine waits for its turn

VARIABLES
  device,    \* "off", "ticking" or "fired"
  age,       \* time since the last write
  limit,     \* when it fires
  release,   \* may a close stop it?
  holder,    \* who has the descriptor, and what has become of him
  petter,    \* the petting goroutine
  ticker,    \* time until the Ticker's next tick
  tick,      \* ticks in the Ticker's channel, which has room for one
  waited     \* for how long that tick, or its write, has been due

kernel  == <<device, age, limit, release>>
process == <<holder, petter, ticker, tick, waited>>
wvars   == <<kernel, process>>

\* validate.go refuses a timeout below a second; a third of it is more than nothing.
ASSUME TimeAssumption ==
  /\ Second \in Nat /\ Second >= 3 /\ Timeout \in Nat /\ Timeout >= Second
  /\ Defaults \subseteq Nat \ {0}
  /\ Handover \in Nat /\ Latency \in Nat

\* What is left of the timeout in whole seconds: the configuration carries it to the
\* supervisor so, and the device is told so, with one second at least.
WholeSeconds == (Timeout \div Second) * Second
KernelLimit == IF Timeout \div Second < 1 THEN Second ELSE WholeSeconds

Interval == WholeSeconds \div 3

----------------------------------------------------------------------------
(* The process.                                                            *)

Arm ==
  /\ holder = "nobody"
  /\ device' = "ticking" /\ age' = 0 /\ release' = FALSE
  /\ limit' \in {KernelLimit} \union Defaults
  /\ holder' = "pivot"
  /\ UNCHANGED <<petter, ticker, tick, waited>>

\* The pivot fails: magic character and close, with no goroutine about.
Abort ==
  /\ holder = "pivot"
  /\ holder' = "closed"
  /\ device' = "off"
  /\ UNCHANGED <<age, limit, release, petter, ticker, tick, waited>>

\* Mutant: the goroutine sleeps for the whole timeout.
AdoptSlow ==
  /\ holder = "pivot"
  /\ holder' = "supervisor"
  /\ petter' = "select" /\ ticker' = Timeout
  /\ UNCHANGED <<kernel, tick, waited>>

Adopt ==
  /\ holder = "pivot"
  /\ holder' = "supervisor"
  /\ petter' = "select" /\ ticker' = Interval
  /\ UNCHANGED <<kernel, tick, waited>>

\* `case <-tick.C`; after Close, select may still prefer it to `<-w.done`.
TakeTick ==
  /\ petter = "select" /\ tick = 1
  /\ petter' = "write" /\ tick' = 0
  /\ UNCHANGED <<kernel, holder, ticker, waited>>

\* A write restarts the count and, without the magic character in it, takes the
\* leave to stop back.  On a closed descriptor it fails, which is a warning.
Write(magic) == age' = 0 /\ release' = magic /\ UNCHANGED <<device, limit>>

\* Mutant: what it writes is the magic character.
PetMagic ==
  /\ petter = "write"
  /\ IF holder = "closed" THEN UNCHANGED kernel ELSE Write(TRUE)
  /\ petter' = "select" /\ waited' = 0
  /\ UNCHANGED <<holder, ticker, tick>>

Pet ==
  /\ petter = "write"
  /\ IF holder = "closed" THEN UNCHANGED kernel ELSE Write(FALSE)
  /\ petter' = "select" /\ waited' = 0
  /\ UNCHANGED <<holder, ticker, tick>>

SeeDone ==
  /\ petter = "select" /\ holder \in {"done", "magic", "closed"}
  /\ petter' = "returned"
  /\ UNCHANGED <<kernel, holder, ticker, tick, waited>>

\* Close: close(w.done) ...
CloseDone ==
  /\ holder = "supervisor"
  /\ holder' = "done"
  /\ UNCHANGED <<kernel, petter, ticker, tick, waited>>

\* ... the magic character ...
CloseMagic ==
  /\ holder = "done"
  /\ holder' = "magic"
  /\ Write(TRUE)
  /\ UNCHANGED <<petter, ticker, tick, waited>>

\* ... and the descriptor.  Also the kernel's part of a process's end.
Release == device' = (IF release THEN "off" ELSE device) /\ UNCHANGED <<age, limit, release>>

CloseFd ==
  /\ holder = "magic"
  /\ holder' = "closed"
  /\ Release
  /\ UNCHANGED <<petter, ticker, tick, waited>>

\* The process is killed; after the magic character that is CloseFd.
Killed ==
  /\ holder \in {"pivot", "supervisor", "done"}
  /\ holder' = "killed"
  /\ device' = (IF release THEN "off" ELSE device)
  /\ petter' = "none" /\ tick' = 0 /\ waited' = 0
  /\ UNCHANGED <<age, limit, release, ticker>>

----------------------------------------------------------------------------
(* Time.                                                                   *)

Outstanding == tick = 1 \/ petter = "write"

\* Nobody is slower than the bounds: the handover, and a goroutine whose turn it
\* is.
Punctual ==
  /\ holder = "pivot" => age < Handover
  /\ petter \in {"select", "write"} /\ Outstanding => waited < Latency

TickerRuns ==
  IF petter \in {"select", "write"}
    THEN /\ ticker' = IF ticker <= 1 THEN Interval ELSE ticker - 1
         /\ tick' = IF ticker <= 1 THEN 1 ELSE tick
         /\ waited' = IF Outstanding THEN waited + 1 ELSE 0
    ELSE UNCHANGED <<ticker, tick, waited>>

Elapse ==
  /\ device = "ticking"
  /\ Punctual
  /\ age' = age + 1
  /\ device' = IF age + 1 >= limit THEN "fired" ELSE "ticking"
  /\ TickerRuns
  /\ UNCHANGED <<limit, release, holder, petter>>

----------------------------------------------------------------------------
WInit ==
  /\ device = "off" /\ age = 0 /\ limit = KernelLimit /\ release = FALSE
  /\ holder = "nobody" /\ petter = "none" /\ ticker = Interval /\ tick = 0 /\ waited = 0

\* Once the machine resets, no process runs.
Step == Arm \/ Abort \/ Adopt \/ TakeTick \/ Pet \/ SeeDone \/ CloseDone \/ CloseMagic \/ CloseFd
WNext == (device # "fired" /\ (Step \/ Killed)) \/ Elapse

WSpec == WInit /\ [][WNext]_wvars

\* Time passes, and nothing else has to happen.
WFairSpec == WSpec /\ WF_wvars(Elapse)

----------------------------------------------------------------------------
(* Properties.                                                             *)

WTypeOK ==
  /\ device \in {"off", "ticking", "fired"}
  /\ age \in Nat
  /\ limit \in {KernelLimit} \union Defaults
  /\ holder \in {"nobody", "pivot", "supervisor", "done", "magic", "closed", "killed"}
  /\ petter \in {"none", "select", "write", "returned"}
  /\ ticker \in Nat
  /\ tick \in 0..1
  /\ waited \in Nat
  /\ release \in BOOLEAN

\* What a reset needs: more than the handover, a third of the whole seconds and one
\* turn of the goroutine.
Margin == Handover + Interval + Latency

\* With a limit above the margin the machine is never reset under a process that
\* is in charge, from the arming through the handover and for ever after: the
\* handover is not counted twice and no tick of the Ticker is lost.
AttendedNeverFires == Margin < limit /\ holder \in {"pivot", "supervisor"} => device # "fired"

\* A process that is killed leaves a device that fires, whatever it was writing.
KillFires == holder = "killed" ~> device = "fired"

----------------------------------------------------------------------------
(* What a comment of the code says, and the code does not do (README,       *)
(* "Disagreements").                                                       *)

\* watchdog_linux.go: "Close disarms the watchdog".
CloseDisarms == holder = "closed" => device = "off"
=============================================================================
