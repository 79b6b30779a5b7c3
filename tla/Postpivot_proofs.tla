-------------------------- MODULE Postpivot_proofs --------------------------
(***************************************************************************)
(* Proofs about two parts of internal/postpivot: the SSH sessions           *)
(* (Sessions), for any number of clients and any capacity of the channel of *)
(* signals, and the watchdog (Watchdog), for every timeout and every bound  *)
(* on the scheduling.                                                      *)
(***************************************************************************)
EXTENDS Sessions, Watchdog, TLAPS

----------------------------------------------------------------------------
(* Sessions.                                                               *)

Told(c) == sent[c] \notin {"none", "127"}

\* How far a session, its command and the copying of its output are together.
Stage(c) ==
  /\ at[c] = "request" => proc[c] = "none" /\ out[c] = "none" /\ sent[c] = "none"
  /\ proc[c] = "running" => at[c] \in {"copy", "wait"}
  /\ at[c] \in {"copy", "wait"} => proc[c] \in {"running", "zombie", "lost"}
  /\ at[c] = "drain" => proc[c] \in {"reaped", "lost"}
  /\ at[c] \in {"copy", "wait", "drain"} => out[c] # "none"
  /\ proc[c] = "none" => out[c] = "none" /\ ~Told(c)
  /\ Ended(c) => code[c] \in DOMAIN Status
  /\ heir[c] => Ended(c)
  /\ pty[c] /\ at[c] \in {"wait", "drain"} => out[c] \in {"done", "refused"}
  /\ out[c] = "refused" => client[c] = "gone"
  /\ out[c] = "done" /\ client[c] # "gone" => Ended(c) /\ ~heir[c]

\* What has been reported.
Reported(c) ==
  Told(c) =>
    /\ at[c] = "closed" /\ out[c] \in {"done", "refused"} /\ proc[c] \in {"reaped", "lost"}
    /\ sent[c] = Waited(c)

\* Nothing is reaped behind a session's back while the entrypoint runs.
Kept(c) == main = "supervise" => proc[c] # "lost"

SessionsInv == TypeOK /\ \A c \in Clients : Stage(c) /\ Reported(c) /\ Kept(c)

LEMMA InitSessions == Init => SessionsInv
  BY ChldCapAssumption
  DEF Init, SessionsInv, TypeOK, Stage, Reported, Kept, Told, Ended, Status

LEMMA NextType == SessionsInv /\ [Next]_vars => TypeOK'
<1> SUFFICES ASSUME SessionsInv, [Next]_vars PROVE TypeOK'
  OBVIOUS
<1>t. TypeOK
  BY DEF SessionsInv
<1> USE <1>t, ChldCapAssumption DEF TypeOK, Subscribed, command, Status
<1>1. CASE UNCHANGED vars
  BY <1>1 DEF vars
<1>2. ASSUME NEW c \in Clients, SessionStep(c) PROVE TypeOK'
  <2>1. CASE NoRequest(c) \/ OutputEnds(c) \/ CopyReturns(c) \/ WaitProcess(c)
    <3>1. CASE NoRequest(c)
      BY <3>1 DEF NoRequest
    <3>2. CASE OutputEnds(c)
      BY <3>2 DEF OutputEnds
    <3>3. CASE CopyReturns(c)
      BY <3>3 DEF CopyReturns
    <3>4. CASE WaitProcess(c)
      BY <3>4 DEF WaitProcess
    <3> QED
      BY <2>1, <3>1, <3>2, <3>3, <3>4
  <2>2. CASE Report(c)
    <3>1. at[c] = "drain" => code[c] \in DOMAIN Status
      BY DEF SessionsInv, Stage, Ended
    <3> QED
      BY <2>2, <3>1 DEF Report, Waited
  <2> QED
    BY <1>2, <2>1, <2>2 DEF SessionStep
<1>3. ASSUME NEW c \in Clients, Environment(c) PROVE TypeOK'
  <2>1. CASE CommandExits(c)
    BY <2>1 DEF CommandExits
  <2>2. CASE PtyRequest(c) \/ StartFails(c) \/ Start(c)
    <3>1. CASE PtyRequest(c)
      BY <3>1 DEF PtyRequest
    <3>2. CASE StartFails(c)
      BY <3>2 DEF StartFails
    <3>3. CASE Start(c)
      BY <3>3 DEF Start
    <3> QED
      BY <2>2, <3>1, <3>2, <3>3
  <2>3. CASE OutputRefused(c) \/ HeirExits(c) \/ Disconnect(c)
    <3>1. CASE OutputRefused(c)
      BY <3>1 DEF OutputRefused
    <3>2. CASE HeirExits(c)
      BY <3>2 DEF HeirExits
    <3>3. CASE Disconnect(c)
      BY <3>3 DEF Disconnect
    <3> QED
      BY <2>3, <3>1, <3>2, <3>3
  <2> QED
    BY <1>3, <2>1, <2>2, <2>3 DEF Environment
<1>4. CASE MainStep \/ Terminate \/ EntrypointDone
  BY <1>4 DEF MainStep, Subscribe, ChildSignal, ReapReturns, Leave, ReapOne, Terminate,
    EntrypointDone
<1> QED
  BY <1>1, <1>2, <1>3, <1>4 DEF Next

LEMMA NextSessions == SessionsInv /\ [Next]_vars => SessionsInv'
<1> SUFFICES ASSUME SessionsInv, [Next]_vars, NEW d \in Clients
             PROVE Stage(d)' /\ Reported(d)' /\ Kept(d)'
  BY NextType DEF SessionsInv
<1>t. TypeOK /\ Stage(d) /\ Reported(d) /\ Kept(d)
  BY DEF SessionsInv
<1> USE <1>t DEF TypeOK, Stage, Reported, Kept, Told, Ended, Status, Waited, command
<1>1. CASE UNCHANGED vars
  BY <1>1 DEF vars
<1>2. ASSUME NEW c \in Clients, SessionStep(c) PROVE Stage(d)' /\ Reported(d)' /\ Kept(d)'
  <2>1. CASE NoRequest(c)
    BY <2>1 DEF NoRequest
  <2>2. CASE OutputEnds(c)
    BY <2>2 DEF OutputEnds
  <2>3. CASE CopyReturns(c)
    BY <2>3 DEF CopyReturns
  <2>4. CASE WaitProcess(c)
    BY <2>4 DEF WaitProcess
  <2>5. CASE Report(c)
    BY <2>5 DEF Report
  <2> QED
    BY <1>2, <2>1, <2>2, <2>3, <2>4, <2>5 DEF SessionStep
<1>3. ASSUME NEW c \in Clients, Environment(c) PROVE Stage(d)' /\ Reported(d)' /\ Kept(d)'
  <2>1. CASE PtyRequest(c)
    BY <2>1 DEF PtyRequest
  <2>2. CASE StartFails(c)
    BY <2>2 DEF StartFails
  <2>3. CASE Start(c)
    BY <2>3 DEF Start
  <2>4. CASE OutputRefused(c)
    BY <2>4 DEF OutputRefused
  <2>5. CASE CommandExits(c)
    BY <2>5 DEF CommandExits
  <2>6. CASE HeirExits(c)
    BY <2>6 DEF HeirExits
  <2>7. CASE Disconnect(c)
    BY <2>7 DEF Disconnect
  <2> QED
    BY <1>3, <2>1, <2>2, <2>3, <2>4, <2>5, <2>6, <2>7 DEF Environment
<1>4. CASE MainStep
  <2>1. ASSUME NEW c \in Clients, ReapOne(c) PROVE Stage(d)' /\ Reported(d)' /\ Kept(d)'
    BY <2>1 DEF ReapOne
  <2>2. CASE Subscribe \/ ChildSignal \/ ReapReturns \/ Leave
    BY <2>2 DEF Subscribe, ChildSignal, ReapReturns, Leave
  <2> QED
    BY <1>4, <2>1, <2>2 DEF MainStep
<1>5. CASE Terminate \/ EntrypointDone
  BY <1>5 DEF Terminate, EntrypointDone
<1> QED
  BY <1>1, <1>2, <1>3, <1>4, <1>5 DEF Next


\* The invariant the others follow from.
THEOREM SessionsInvariant == Spec => []SessionsInv
  BY InitSessions, NextSessions, PTL DEF Spec

\* The variables stay within their types; the channel never overflows.
THEOREM SessionsTypeOK == Spec => []TypeOK
<1>1. SessionsInv => TypeOK
  BY DEF SessionsInv
<1> QED
  BY <1>1, SessionsInvariant, PTL

\* No client is told of success by a lost status or by another's.
THEOREM SuccessIsRealHolds == Spec => []SuccessIsReal
<1>1. SessionsInv => SuccessIsReal
  BY DEF SessionsInv, SuccessIsReal, Stage, Reported, Waited, Told, Ended, Status, TypeOK
<1> QED
  BY <1>1, SessionsInvariant, PTL

\* A client that is there gets all of the output before the status.
THEOREM OutputBeforeStatusHolds == Spec => []OutputBeforeStatus
<1>1. SessionsInv => OutputBeforeStatus
  BY DEF SessionsInv, OutputBeforeStatus, Stage, Reported, Told
<1> QED
  BY <1>1, SessionsInvariant, PTL

\* A reaper that runs only at the end never takes a status a client waits for
\* while the entrypoint runs.
THEOREM TruthfulUnderSupervisionHolds == Spec => []TruthfulUnderSupervision
<1>1. SessionsInv => TruthfulUnderSupervision
  BY DEF SessionsInv, TruthfulUnderSupervision, Stage, Reported, Waited, Kept, Told, Ended
<1> QED
  BY <1>1, SessionsInvariant, PTL

----------------------------------------------------------------------------
(* Watchdog.                                                               *)

\* The whole seconds of a timeout that validation lets through.
LEMMA Seconds ==
  /\ KernelLimit = WholeSeconds
  /\ WholeSeconds \in Nat /\ WholeSeconds >= 3
<1> DEFINE q == Timeout \div Second
<1>1. Second \in Nat \ {0} /\ Second >= 3 /\ Timeout \in Nat /\ Timeout >= Second
  BY TimeAssumption
<1>2. q \in Nat /\ q >= 1
  BY <1>1
<1>3. WholeSeconds = q * Second /\ KernelLimit = IF q < 1 THEN Second ELSE WholeSeconds
  BY DEF WholeSeconds, KernelLimit
<1> HIDE DEF q
<1>4. Second <= q * Second /\ q * Second \in Nat
  BY <1>1, <1>2
<1> QED
  BY <1>1, <1>2, <1>3, <1>4

\* What the constants are, and what the margin is made of.
LEMMA Numbers ==
  /\ Interval \in Nat /\ Interval >= 1 /\ 3 * Interval <= KernelLimit
  /\ KernelLimit \in Nat
  /\ Margin \in Nat /\ Handover \in Nat /\ Latency \in Nat
  /\ Margin = Handover + Interval + Latency
<1>1. Handover \in Nat /\ Latency \in Nat
  BY TimeAssumption
<1>2. Interval \in Nat /\ Interval >= 1 /\ 3 * Interval <= WholeSeconds
  BY Seconds DEF Interval
<1> QED
  BY <1>1, <1>2, Seconds DEF Margin

\* How old the last write may get by the time of the next one.
InTime ==
  /\ holder \in {"nobody", "pivot"} => petter = "none" /\ tick = 0 /\ waited = 0
  /\ age \in Nat /\ waited \in Nat /\ ticker \in Nat /\ tick \in 0..1 /\ limit \in Nat
  /\ holder = "pivot" => age <= Handover
  /\ holder = "supervisor" =>
       /\ petter \in {"select", "write"}
       /\ 1 <= ticker /\ ticker <= Interval
       /\ Outstanding => waited <= Latency /\ age + Latency <= Margin + waited
       /\ ~Outstanding => age + ticker + Latency <= Margin
  /\ Margin < limit /\ holder \in {"pivot", "supervisor"} => device = "ticking"

\* Nobody holds the device at first.
LEMMA InitInTime == WInit => InTime
  BY Numbers, TimeAssumption DEF WInit, InTime, KernelLimit

\* Every step keeps the age of the last write within bounds.
LEMMA NextInTime == InTime /\ [WNext]_wvars => InTime'
<1> SUFFICES ASSUME InTime, [WNext]_wvars PROVE InTime'
  OBVIOUS
<1> USE Numbers DEF InTime, Outstanding
<1>1. CASE UNCHANGED wvars
  BY <1>1 DEF wvars, kernel, process
<1>2. CASE Arm
  <2>1. KernelLimit \in Nat /\ Defaults \subseteq Nat
    BY TimeAssumption DEF KernelLimit
  <2> QED
    BY <1>2, <2>1 DEF Arm
<1>3. CASE Abort
  BY <1>3 DEF Abort
<1>4. CASE Adopt
  BY <1>4 DEF Adopt, kernel
<1>5. CASE TakeTick
  BY <1>5 DEF TakeTick, kernel
<1>6. CASE Pet
  BY <1>6 DEF Pet, Write, kernel
<1>7. CASE SeeDone
  BY <1>7 DEF SeeDone, kernel
<1>8. CASE CloseDone
  BY <1>8 DEF CloseDone, kernel
<1>9. CASE CloseMagic
  BY <1>9 DEF CloseMagic, Write
<1>10. CASE CloseFd
  BY <1>10 DEF CloseFd, Release
<1>11. CASE Killed
  BY <1>11 DEF Killed
\* Time passes: the pivot, or the goroutine that has a tick to answer, is
\* within its bound still; otherwise the Ticker has not run down.
<1>12. CASE Elapse
  <2>1. /\ age' = age + 1 /\ UNCHANGED <<limit, holder, petter>>
        /\ device' = IF age + 1 >= limit THEN "fired" ELSE "ticking"
        /\ Punctual /\ TickerRuns
    BY <1>12 DEF Elapse
  <2>2. CASE holder = "pivot"
    BY <2>1, <2>2 DEF Punctual, TickerRuns
  <2>3. CASE holder = "supervisor"
    <3>1. /\ ticker' = IF ticker <= 1 THEN Interval ELSE ticker - 1
          /\ tick' = IF ticker <= 1 THEN 1 ELSE tick
          /\ waited' = IF Outstanding THEN waited + 1 ELSE 0
      BY <2>1, <2>3 DEF TickerRuns
    <3>2. CASE Outstanding
      BY <2>1, <2>3, <3>1, <3>2 DEF Punctual
    <3>3. CASE ~Outstanding
      BY <2>1, <2>3, <3>1, <3>3
    <3> QED
      BY <3>2, <3>3
  <2>4. CASE holder \notin {"pivot", "supervisor"}
    BY <2>1, <2>4 DEF TickerRuns
  <2> QED
    BY <2>2, <2>3, <2>4
<1> QED
  BY <1>1, <1>2, <1>3, <1>4, <1>5, <1>6, <1>7, <1>8, <1>9, <1>10, <1>11, <1>12
  DEF WNext, Step

\* Whatever the timeout, a device whose limit exceeds the margin never fires
\* under a process that is in charge of it.
THEOREM WatchdogAttendedNeverFires == WSpec => []AttendedNeverFires
<1>1. WSpec => []InTime
  BY InitInTime, NextInTime, PTL DEF WSpec
<1>2. InTime => AttendedNeverFires
  BY DEF InTime, AttendedNeverFires
<1> QED
  BY <1>1, <1>2, PTL

\* A driver that takes the limit resets nobody, whatever the timeout, as long as the
\* handover and one turn of the goroutine together take less than two thirds of its
\* whole seconds.
TwoThirdsSuffice ==
  3 * (Handover + Latency) < 2 * KernelLimit /\ limit = KernelLimit =>
    (holder \in {"pivot", "supervisor"} => device # "fired")

\* What the interval the code takes leaves for everything else.
THEOREM WatchdogTwoThirdsSuffice == WSpec => []TwoThirdsSuffice
<1>1. AttendedNeverFires => TwoThirdsSuffice
  <2> SUFFICES ASSUME AttendedNeverFires, 3 * (Handover + Latency) < 2 * KernelLimit,
                      limit = KernelLimit, holder \in {"pivot", "supervisor"}
               PROVE  device # "fired"
    BY DEF TwoThirdsSuffice
  <2>1. Margin < limit
    BY Numbers
  <2> QED
    BY <2>1 DEF AttendedNeverFires
<1> QED
  BY <1>1, WatchdogAttendedNeverFires, PTL

----------------------------------------------------------------------------
(* Types.  The one Boolean has a lemma of its own.                         *)

Typed ==
  /\ device \in {"off", "ticking", "fired"}
  /\ age \in Nat /\ limit \in {KernelLimit} \union Defaults
  /\ holder \in {"nobody", "pivot", "supervisor", "done", "magic", "closed", "killed"}
  /\ petter \in {"none", "select", "write", "returned"}
  /\ ticker \in Nat /\ tick \in 0..1 /\ waited \in Nat

LEMMA NextTyped == Typed /\ [WNext]_wvars => Typed'
<1> SUFFICES ASSUME Typed, [WNext]_wvars PROVE Typed'
  OBVIOUS
<1> USE Numbers DEF Typed
<1>1. CASE UNCHANGED wvars
  BY <1>1 DEF wvars, kernel, process
<1>2. CASE Arm \/ Abort \/ Adopt
  BY <1>2 DEF Arm, Abort, Adopt, kernel
<1>3. CASE TakeTick \/ Pet \/ SeeDone
  BY <1>3 DEF TakeTick, Pet, SeeDone, Write, kernel
<1>4. CASE CloseDone \/ CloseMagic \/ CloseFd
  BY <1>4 DEF CloseDone, CloseMagic, CloseFd, Write, Release, kernel
<1>5. CASE Killed
  BY <1>5 DEF Killed
<1>6. CASE Elapse
  BY <1>6 DEF Elapse, TickerRuns
<1> QED
  BY <1>1, <1>2, <1>3, <1>4, <1>5, <1>6 DEF WNext, Step

LEMMA NextRelease == release \in BOOLEAN /\ [WNext]_wvars => (release \in BOOLEAN)'
<1> SUFFICES ASSUME release \in BOOLEAN, [WNext]_wvars PROVE release' \in BOOLEAN
  OBVIOUS
<1>1. CASE UNCHANGED wvars
  BY <1>1, Zenon DEF wvars, kernel
<1>2. CASE Arm \/ Abort \/ Adopt
  BY <1>2, Zenon DEF Arm, Abort, Adopt, kernel
<1>3. CASE TakeTick \/ SeeDone
  BY <1>3, Zenon DEF TakeTick, SeeDone, kernel
<1>4. CASE Pet
  <2>1. release' = release \/ release' = FALSE
    BY <1>4, Zenon DEF Pet, Write, kernel
  <2> QED
    BY <2>1, Zenon
<1>5. CASE CloseDone \/ CloseMagic \/ CloseFd
  BY <1>5, Zenon DEF CloseDone, CloseMagic, CloseFd, Write, Release, kernel
<1>6. CASE Killed \/ Elapse
  BY <1>6, Zenon DEF Killed, Elapse
<1> QED
  BY <1>1, <1>2, <1>3, <1>4, <1>5, <1>6 DEF WNext, Step

\* Every variable of Watchdog keeps its type, for every timeout and bound.
THEOREM WatchdogTypeOK == WSpec => []WTypeOK
<1>1. WInit => Typed
  BY Numbers DEF WInit, Typed
<1>2. WInit => release \in BOOLEAN
  BY Zenon DEF WInit
<1>3. Typed /\ release \in BOOLEAN => WTypeOK
  BY DEF Typed, WTypeOK
<1> QED
  BY <1>1, <1>2, <1>3, NextTyped, NextRelease, PTL DEF WSpec
=============================================================================
