-------------------------- MODULE Supervisor_proofs --------------------------
(***************************************************************************)
(* Proofs about Supervisor, for every set of init configurations and every  *)
(* capacity of the signal channel.                                         *)
(***************************************************************************)
EXTENDS Supervisor, TLAPS

\* The stages before the first Notify, and those at which something is waited for.
Early   == {"boot", "adopt", "tailnet", "choose", "start", "notify"}
Waiting == {"tailnet", "choose", "start", "notify", "loop", "serve", "linger"}

----------------------------------------------------------------------------
(* The watchdog.                                                           *)

PettingInv ==
  /\ conf \in [Fields -> BOOLEAN]
  /\ spc \in {"boot", "adopt"} /\ conf["watchdog"] => wd # 0 /\ wdfd
  /\ spc \in Waiting /\ conf["watchdog"] => petting
  /\ PetsTheLiveDevice

LEMMA InitPetting == Init => PettingInv
  BY ConfsAssumption DEF Init, PettingInv, PetsTheLiveDevice, Waiting

LEMMA NextPetting == PettingInv /\ [Next]_svars => PettingInv'
<1> SUFFICES ASSUME PettingInv, [Next]_svars PROVE PettingInv'
  OBVIOUS
<1> USE DEF PettingInv, PetsTheLiveDevice, Waiting, Goto
<1>1. CASE UNCHANGED svars
  BY <1>1 DEF svars, own
<1>2. CASE LoadConfig
  BY <1>2 DEF LoadConfig, Fields
<1>3. CASE AdoptWatchdog
  BY <1>3 DEF AdoptWatchdog, Fields
<1>4. CASE JoinTailnet \/ ChooseEntrypoint
  BY <1>4 DEF JoinTailnet, ChooseEntrypoint, own
<1>5. CASE ServeIdle \/ StartEntrypoint \/ NotifySignals
  BY <1>5 DEF ServeIdle, StartEntrypoint, NotifySignals
<1>6. CASE StopServing \/ ForwardSignal \/ EntrypointDone
  BY <1>6 DEF StopServing, ForwardSignal, EntrypointDone
<1>7. CASE WaitReaps \/ WaitReturns
  BY <1>7 DEF WaitReaps, WaitReturns
<1>8. CASE RunReturns
  BY <1>8 DEF RunReturns
<1>9. CASE Reboot \/ WatchdogFires
  BY <1>9 DEF Reboot, WatchdogFires, Restarted
<1>10. ASSUME NEW s \in Signals, SignalQueued(s) PROVE PettingInv'
  BY <1>10 DEF SignalQueued
<1>13. ASSUME NEW s \in Signals, SignalKills(s) PROVE PettingInv'
  BY <1>13 DEF SignalKills
<1>11. CASE EntrypointForks \/ EntrypointExits \/ EntrypointHangs \/ HeirExits
  BY <1>11 DEF EntrypointForks, EntrypointExits, EntrypointHangs, HeirExits
<1> QED
  BY <1>1, <1>2, <1>3, <1>4, <1>5, <1>6, <1>7, <1>8, <1>9, <1>10, <1>11,
     <1>13
  DEF Next, Step, Wait, Environment

LEMMA SupervisorPetting == Spec => []PettingInv
  BY InitPetting, NextPetting, PTL DEF Spec

\* What the petting goroutine pets is the device that ticks.
THEOREM SupervisorPetsTheLiveDevice == Spec => []PetsTheLiveDevice
<1>1. PettingInv => PetsTheLiveDevice
  BY DEF PettingInv
<1> QED
  BY <1>1, SupervisorPetting, PTL

\* No wait of the supervisor is one the watchdog does not survive.
THEOREM SupervisorAttendedWhileWaiting == Spec => []AttendedWhileWaiting
<1>1. PettingInv => AttendedWhileWaiting
  BY DEF PettingInv, AttendedWhileWaiting, Waiting
<1> QED
  BY <1>1, SupervisorPetting, PTL

----------------------------------------------------------------------------
(* The end of the entrypoint.                                              *)

\* The waiting goroutine reports only what cannot change any more.
WaitedInv ==
  /\ spc \in Early \union {"serve"} => waited = FALSE
  /\ waited = TRUE => child = "reaped" /\ (conf["tee"] => ~heir)
  /\ RebootAfterEntrypoint

LEMMA InitWaited == Init => WaitedInv
  BY DEF Init, WaitedInv, RebootAfterEntrypoint, Early

LEMMA NextWaited == WaitedInv /\ [Next]_svars => WaitedInv'
<1> SUFFICES ASSUME WaitedInv, [Next]_svars PROVE WaitedInv'
  OBVIOUS
<1> USE DEF WaitedInv, RebootAfterEntrypoint, Early, Goto
<1>1. CASE UNCHANGED svars
  BY <1>1 DEF svars, own
<1>2. CASE LoadConfig
  BY <1>2 DEF LoadConfig
<1>3. CASE AdoptWatchdog \/ ServeIdle \/ NotifySignals
  BY <1>3 DEF AdoptWatchdog, ServeIdle, NotifySignals
<1>4. CASE JoinTailnet \/ ChooseEntrypoint
  BY <1>4 DEF JoinTailnet, ChooseEntrypoint, own
<1>5. CASE StartEntrypoint
  BY <1>5 DEF StartEntrypoint
<1>6. CASE StopServing \/ RunReturns
  BY <1>6 DEF StopServing, RunReturns
<1>7. CASE ForwardSignal
  BY <1>7 DEF ForwardSignal
<1>8. CASE WaitReaps
  BY <1>8 DEF WaitReaps
<1>9. CASE WaitReturns
  BY <1>9 DEF WaitReturns
<1>10. CASE EntrypointDone
  BY <1>10 DEF EntrypointDone
<1>11. CASE Reboot \/ WatchdogFires
  BY <1>11 DEF Reboot, WatchdogFires, Restarted
<1>12. ASSUME NEW s \in Signals, SignalQueued(s) \/ SignalKills(s) PROVE WaitedInv'
  BY <1>12 DEF SignalQueued, SignalKills
<1>13. CASE EntrypointForks \/ EntrypointExits \/ EntrypointHangs \/ HeirExits
  BY <1>13 DEF EntrypointForks, EntrypointExits, EntrypointHangs, HeirExits
<1> QED
  BY <1>1, <1>2, <1>3, <1>4, <1>5, <1>6, <1>7, <1>8, <1>9, <1>10, <1>11, <1>12,
     <1>13
  DEF Next, Step, Wait, Environment

\* The machine is not restarted under an entrypoint that lives or whose output
\* is still being copied.
THEOREM SupervisorRebootAfterEntrypoint == Spec => []RebootAfterEntrypoint
<1>1. Spec => []WaitedInv
  BY InitWaited, NextWaited, PTL DEF Spec
<1>2. WaitedInv => RebootAfterEntrypoint
  BY DEF WaitedInv
<1> QED
  BY <1>1, <1>2, PTL

----------------------------------------------------------------------------
(* Signals.                                                                *)

\* While it supervises or serves, no signal but SIGPIPE has its default effect.
SignalsInv ==
  /\ spc \in Early => disp = Inherited
  /\ spc \in {"loop", "serve"} => \A s \in Signals \ {"PIPE"} : disp[s] # "fatal"

LEMMA InitSignals == Init => SignalsInv
  BY DEF Init, SignalsInv, Early

LEMMA NextSignals == SignalsInv /\ [Next]_svars => SignalsInv'
<1> SUFFICES ASSUME SignalsInv, [Next]_svars PROVE SignalsInv'
  OBVIOUS
<1> USE DEF SignalsInv, Early, Goto
<1>1. CASE UNCHANGED svars
  BY <1>1 DEF svars, own
<1>2. CASE LoadConfig \/ AdoptWatchdog \/ StartEntrypoint
  BY <1>2 DEF LoadConfig, AdoptWatchdog, StartEntrypoint
<1>3. CASE JoinTailnet \/ ChooseEntrypoint
  BY <1>3 DEF JoinTailnet, ChooseEntrypoint, own
<1>4. CASE ServeIdle \/ NotifySignals
  <2>1. disp = Inherited /\ spc' \in {"loop", "serve"}
    BY <1>4 DEF ServeIdle, NotifySignals
  <2>2. disp' = Notify({"TERM", "INT"}) \/ disp' = Notify(Forwarded)
    BY <1>4 DEF ServeIdle, NotifySignals
  <2>3. \A s \in Signals \ {"PIPE"} : Inherited[s] = "fatal" => s = "TERM"
    BY DEF Inherited, Signals
  <2>4. \A s \in Signals \ {"PIPE"} : disp'[s] # "fatal"
    BY <2>1, <2>2, <2>3 DEF Notify, Forwarded
  <2> QED
    BY <2>1, <2>4
<1>5. CASE StopServing \/ RunReturns \/ EntrypointDone
  BY <1>5 DEF StopServing, RunReturns, EntrypointDone
<1>6. CASE ForwardSignal \/ WaitReaps \/ WaitReturns
  BY <1>6 DEF ForwardSignal, WaitReaps, WaitReturns
<1>7. CASE Reboot \/ WatchdogFires
  BY <1>7 DEF Reboot, WatchdogFires, Restarted
<1>8. ASSUME NEW s \in Signals, SignalQueued(s) \/ SignalKills(s) PROVE SignalsInv'
  BY <1>8 DEF SignalQueued, SignalKills
<1>9. CASE EntrypointForks \/ EntrypointExits \/ EntrypointHangs \/ HeirExits
  BY <1>9 DEF EntrypointForks, EntrypointExits, EntrypointHangs, HeirExits
<1> QED
  BY <1>1, <1>2, <1>3, <1>4, <1>5, <1>6, <1>7, <1>8, <1>9
  DEF Next, Step, Wait, Environment

\* What a step from the loop or the idle service to the end of the process is.
LEMMA OutlivesStep ==
  SignalsInv /\ [Next]_svars =>
    [(spc \in {"loop", "serve"} /\ spc' = "gone") => died' = "PIPE"]_svars
<1> SUFFICES ASSUME SignalsInv, Next, spc \in {"loop", "serve"}, spc' = "gone"
             PROVE  died' = "PIPE"
  BY DEF svars
<1>1. PICK s \in Signals : SignalKills(s)
  BY DEF Next, Step, Wait, Environment, Goto, LoadConfig, AdoptWatchdog, JoinTailnet,
     ServeIdle, ChooseEntrypoint, StopServing, RunReturns, StartEntrypoint, NotifySignals,
     EntrypointDone, Reboot, ForwardSignal, WaitReaps, WaitReturns, WatchdogFires,
     Restarted, SignalQueued, EntrypointForks, EntrypointExits, EntrypointHangs,
     HeirExits
<1>2. disp[s] = "fatal" /\ died' = s
  BY <1>1 DEF SignalKills
<1>3. s = "PIPE"
  BY <1>2 DEF SignalsInv
<1> QED
  BY <1>2, <1>3

\* Only a broken stderr ends the supervisor while it supervises or serves.
THEOREM SupervisorLoopOutlivesSignals == Spec => LoopOutlivesSignals
<1>1. Spec => []SignalsInv
  BY InitSignals, NextSignals, PTL DEF Spec
<1> QED
  BY <1>1, OutlivesStep, PTL DEF Spec, LoopOutlivesSignals
----------------------------------------------------------------------------
(* Types.  The Booleans have a lemma of their own.                         *)

Dispositions == [Signals -> {"ignore", "fatal", "drop", "notify"}]

Typed ==
  /\ spc \in SupervisorStages \union {"off", "gone", "failed", "restarted"}
  /\ conf \in [Fields -> BOOLEAN]
  /\ disp \in Dispositions
  /\ sigCh \in Seq(Signals) /\ Len(sigCh) <= SigCap
  /\ child \in {"none", "running", "hung", "failed", "exited", "reaped"}
  /\ deaf \subseteq Signals
  /\ died \in Signals \union {"none"}
  /\ wd \in Nat

Booleans == {heir, waited, petting, wdfd} \subseteq BOOLEAN

LEMMA NotifyType ==
  ASSUME disp \in Dispositions, NEW S \in SUBSET Signals
  PROVE  Notify(S) \in Dispositions
BY DEF Notify, Dispositions

LEMMA InheritedType == Inherited \in Dispositions
BY DEF Inherited, Signals, Dispositions

LEMMA EmptyChannel == <<>> \in Seq(Signals) /\ Len(<<>>) <= SigCap
BY SigCapAssumption

LEMMA NextTyped == Typed /\ [Next]_svars => Typed'
<1> SUFFICES ASSUME Typed, [Next]_svars PROVE Typed'
  OBVIOUS
<1> USE InheritedType, EmptyChannel, SigCapAssumption DEF Typed, Goto, SupervisorStages
<1>1. CASE UNCHANGED svars
  BY <1>1 DEF svars, own
<1>2. CASE LoadConfig
  <2>1. [f \in Fields |-> f = "idle" /\ conf["idle"]] \in [Fields -> BOOLEAN]
    OBVIOUS
  <2> QED
    BY <1>2, <2>1 DEF LoadConfig
<1>3. CASE AdoptWatchdog
  BY <1>3 DEF AdoptWatchdog
<1>4. CASE JoinTailnet \/ ChooseEntrypoint
  BY <1>4 DEF JoinTailnet, ChooseEntrypoint, own
<1>5. CASE ServeIdle
  <2>1. Notify({"TERM", "INT"}) \in Dispositions
    BY NotifyType DEF Signals
  <2> QED
    BY <1>5, <2>1 DEF ServeIdle
<1>6. CASE NotifySignals
  <2>1. Notify(Forwarded) \in Dispositions
    BY NotifyType DEF Signals, Forwarded
  <2> QED
    BY <1>6, <2>1 DEF NotifySignals
<1>7. CASE StopServing
  BY <1>7 DEF StopServing
<1>16. CASE EntrypointDone
  BY <1>16 DEF EntrypointDone
<1>8. CASE StartEntrypoint
  BY <1>8 DEF StartEntrypoint
<1>9. CASE ForwardSignal
  <2>1. sigCh' \in Seq(Signals) /\ Len(sigCh') <= SigCap
    BY <1>9 DEF ForwardSignal
  <2> QED
    BY <1>9, <2>1 DEF ForwardSignal
<1>10. CASE Wait
  BY <1>10 DEF Wait, WaitReaps, WaitReturns
<1>11. CASE RunReturns
  BY <1>11 DEF RunReturns
<1>12. CASE Reboot \/ WatchdogFires
  <2>1. CASE Restarted
    BY <2>1 DEF Restarted
  <2>2. CASE Reboot /\ ~Restarted
    BY <2>2 DEF Reboot
  <2> QED
    BY <1>12, <2>1, <2>2 DEF WatchdogFires
<1>13. ASSUME NEW s \in Signals, SignalQueued(s) PROVE Typed'
  BY <1>13 DEF SignalQueued
<1>14. ASSUME NEW s \in Signals, SignalKills(s) PROVE Typed'
  BY <1>14 DEF SignalKills
<1>15. CASE EntrypointForks \/ EntrypointExits \/ EntrypointHangs \/ HeirExits
  BY <1>15 DEF EntrypointForks, EntrypointExits, EntrypointHangs, HeirExits
<1> QED
  BY <1>1, <1>2, <1>3, <1>4, <1>5, <1>6, <1>7, <1>8, <1>9, <1>10, <1>11, <1>12,
     <1>13, <1>14, <1>15, <1>16
  DEF Next, Step, Environment

LEMMA NextBooleans ==
  conf \in [Fields -> BOOLEAN] /\ Booleans /\ [Next]_svars => Booleans'
<1> SUFFICES ASSUME conf \in [Fields -> BOOLEAN], Booleans, [Next]_svars PROVE Booleans'
  OBVIOUS
<1> USE DEF Booleans
<1>1. CASE UNCHANGED svars
  BY <1>1, Zenon DEF svars, own
<1>2. CASE LoadConfig
  BY <1>2, Zenon DEF LoadConfig
<1>3. CASE AdoptWatchdog
  <2>1. conf["watchdog"] \in BOOLEAN
    BY DEF Fields
  <2> QED
    BY <1>3, <2>1, Zenon DEF AdoptWatchdog
<1>4. CASE JoinTailnet \/ ChooseEntrypoint
  BY <1>4, Zenon DEF JoinTailnet, ChooseEntrypoint, own
<1>5. CASE ServeIdle \/ NotifySignals \/ StopServing \/ EntrypointDone
  BY <1>5, Zenon DEF ServeIdle, NotifySignals, StopServing, EntrypointDone
<1>6. CASE StartEntrypoint \/ ForwardSignal
  BY <1>6, Zenon DEF StartEntrypoint, ForwardSignal
<1>7. CASE WaitReaps \/ WaitReturns
  BY <1>7, Zenon DEF WaitReaps, WaitReturns
<1>8. CASE RunReturns
  BY <1>8, Zenon DEF RunReturns
<1>9. CASE Reboot \/ WatchdogFires
  BY <1>9, Zenon DEF Reboot, WatchdogFires, Restarted
<1>10. ASSUME NEW s \in Signals, SignalQueued(s) \/ SignalKills(s) PROVE Booleans'
  BY <1>10, Zenon DEF SignalQueued, SignalKills
<1>11. CASE EntrypointForks \/ EntrypointExits \/ EntrypointHangs \/ HeirExits
  BY <1>11, Zenon DEF EntrypointForks, EntrypointExits, EntrypointHangs, HeirExits
<1> QED
  BY <1>1, <1>2, <1>3, <1>4, <1>5, <1>6, <1>7, <1>8, <1>9, <1>10, <1>11
  DEF Next, Step, Wait, Environment

\* Every variable of Supervisor keeps its type, and the channel its bound.
THEOREM SupervisorTypeOK == Spec => []TypeOK
<1>1. Init => Typed
  BY InheritedType, ConfsAssumption, SigCapAssumption DEF Init, Typed, SupervisorStages
<1>2. Init => Booleans
  <2>1. \A c \in Confs : c["watchdog"] \in BOOLEAN
    BY ConfsAssumption DEF Fields
  <2> QED
    BY <2>1, Zenon DEF Init, Booleans
<1>3. Typed /\ Booleans => TypeOK
  BY DEF Typed, Booleans, TypeOK, Dispositions
<1>4. Typed => conf \in [Fields -> BOOLEAN]
  BY DEF Typed
<1> QED
  BY <1>1, <1>2, <1>3, <1>4, NextTyped, NextBooleans, PTL DEF Spec
=============================================================================
