-------------------------- MODULE Terminator_proofs --------------------------
(***************************************************************************)
(* Proofs about Terminator, for any finite set of process ids.              *)
(***************************************************************************)
EXTENDS Terminator, FiniteSetTheorems, TLAPS

Before == {"coordinate", "start", "connect", "jobs", "call", "scan", "read"}

\* Which ids each loop is about, and that a result is filled in by its own stage.
Loops ==
  /\ stage \in {"term", "grace", "check"} => todo \subseteq targets
  /\ stage \in {"kill", "recheck"} => todo \subseteq still
  /\ stage \in Before => targets = {}
  /\ stage \in Before \union {"term", "grace"} => still = {}
  /\ stage \notin {"recheck", "done"} => stubborn = {}

\* Who is where the scan found it: only an end has changed it since.
Found ==
  /\ \A p \in Pids : holder[p] = "self" => p = Self
  /\ \A p \in Pids : same[p] => holder[p] # "none" /\ holder[p] \in {info[p], "zombie"}
  /\ \A p \in targets : same[p] => holder[p] \in {"plain", "zombie"}
  /\ hit \subseteq {"plain", "zombie"}

\* A target that has not gone is on the list that the next stage looks at.
Watched ==
  /\ stage = "check" => \A p \in targets : same[p] => p \in todo \union still
  /\ stage = "kill" => \A p \in targets : same[p] => p \in still
  /\ stage = "recheck" => \A p \in targets : same[p] => p \in todo \union stubborn
  /\ stage = "done" => \A p \in targets : same[p] => p \in stubborn

TerminatorInv == TypeOK /\ Loops /\ Found /\ Watched

LEMMA InitTerminator == Init => TerminatorInv
<1> SUFFICES ASSUME Init PROVE TerminatorInv
  OBVIOUS
<1>1. TypeOK
  BY PidsAssumption DEF Init, TypeOK, Kinds
<1>2. Loops
  BY DEF Init, Loops, Before
<1>3. Found
  BY DEF Init, Found
<1>4. Watched
  BY DEF Init, Watched
<1> QED
  BY <1>1, <1>2, <1>3, <1>4 DEF TerminatorInv

\* Whom a signal ends, and what it leaves.
LEMMA SignalEffect ==
  ASSUME TypeOK, NEW p \in Pids, Signal(p)
  PROVE  /\ same' = same
         /\ \/ holder' = holder
            \/ /\ holder[p] \in {"parent", "essential", "plain"}
               /\ holder' = [holder EXCEPT ![p] = "zombie"]
         /\ hit' = IF same[p] THEN hit \union {holder[p]} ELSE hit
  BY DEF Signal, processes

\* The coordinator and what systemd answers it: nothing but the stage, before the scan.
LEMMA Coordination ==
  ASSUME Coordinate \/ Answers
  PROVE  /\ stage \in Before /\ stage' \in Before /\ late' \in {late, FALSE}
         /\ UNCHANGED <<todo, systemd, info, targets, alive, still, stubborn, terminated,
                        killed, holder, same, hit>>
  BY DEF Coordinate, Answers, SkipCoordination, WaitBriefly, TransitionToRescue, AskJobs,
     JobsTimeout, StartUnitReturns, BusConnects, JobsListed, Before, result, processes

LEMMA NextType == ASSUME TypeOK, Loops, Found, [Next]_vars PROVE TypeOK'
<1> USE PidsAssumption DEF TypeOK
<1>1. CASE UNCHANGED vars
  BY <1>1 DEF vars, result, processes
<1>2. CASE Coordinate \/ Answers
  BY <1>2, Coordination DEF Before
<1>7. CASE ReadDir
  BY <1>7 DEF ReadDir, result, processes
<1>8. CASE ScanFails
  BY <1>8 DEF ScanFails, result, processes
<1>9. CASE ChooseTargets
  <2>1. still = {} /\ stubborn = {}
    BY <1>9 DEF ChooseTargets, Loops, Before
  <2>2. targets' \subseteq Pids
    BY <1>9 DEF ChooseTargets
  <2> QED
    BY <1>9, <2>1, <2>2 DEF ChooseTargets, result, processes
<1>10. CASE StartPolling \/ PollAgain
  BY <1>10 DEF StartPolling, PollAgain, result, processes
<1>11. CASE PollingEnds
  BY <1>11 DEF PollingEnds, result, processes
<1>12. CASE StartKilling
  BY <1>12 DEF StartKilling, result, processes
<1>13. CASE Sleep
  BY <1>13 DEF Sleep, result, processes
<1>14. CASE Return
  BY <1>14 DEF Return, result, processes
<1>15. ASSUME NEW p \in Pids, ReadProc(p) PROVE TypeOK'
  BY <1>15 DEF ReadProc, result, processes, Kinds
<1>16. ASSUME NEW p \in Pids, Term(p) PROVE TypeOK'
  <2>1. Signal(p)
    BY <1>16 DEF Term
  <2>2. holder' \in [Pids -> Kinds \union {"none", "zombie"}] /\ same' = same
    BY <2>1, SignalEffect
  <2>3. hit' = hit \/ (same[p] /\ hit' = hit \union {holder[p]})
    BY <2>1, SignalEffect
  <2>4. same[p] => holder[p] # "none"
    BY DEF Found
  <2>5. hit' \subseteq Kinds \union {"zombie"}
    BY <2>3, <2>4
  <2> QED
    BY <1>16, <2>2, <2>5 DEF Term, result
<1>17. ASSUME NEW p \in Pids, Kill(p) PROVE TypeOK'
  <2>1. Signal(p)
    BY <1>17 DEF Kill
  <2>2. holder' \in [Pids -> Kinds \union {"none", "zombie"}] /\ same' = same
    BY <2>1, SignalEffect
  <2>3. hit' = hit \/ (same[p] /\ hit' = hit \union {holder[p]})
    BY <2>1, SignalEffect
  <2>4. same[p] => holder[p] # "none"
    BY DEF Found
  <2>5. hit' \subseteq Kinds \union {"zombie"}
    BY <2>3, <2>4
  <2> QED
    BY <1>17, <2>2, <2>5 DEF Kill
<1>18. ASSUME NEW p \in Pids, Poll(p) PROVE TypeOK'
  BY <1>18 DEF Poll, IsRunning, result, processes
<1>19. ASSUME NEW p \in Pids, Check(p) PROVE TypeOK'
  <2>1. p \in targets
    BY <1>19 DEF Check, Loops
  <2> QED
    BY <1>19, <2>1 DEF Check, IsRunning, processes
<1>20. ASSUME NEW p \in Pids, Recheck(p) PROVE TypeOK'
  <2>1. p \in still
    BY <1>20 DEF Recheck, Loops
  <2> QED
    BY <1>20, <2>1 DEF Recheck, IsRunning, processes
<1>21. CASE Deadline
  BY <1>21 DEF Deadline, result, processes
<1>22. ASSUME NEW p \in Pids, Exit(p) \/ Reaped(p) PROVE TypeOK'
  <2>1. holder' \in [Pids -> Kinds \union {"none", "zombie"}] /\ same' \in [Pids -> BOOLEAN]
    <3>1. CASE Exit(p)
      BY <3>1 DEF Exit
    <3>2. CASE Reaped(p)
      BY <3>2 DEF Reaped
    <3> QED
      BY <1>22, <3>1, <3>2
  <2>2. UNCHANGED <<stage, todo, late, systemd, info, targets, alive, result, hit>>
    BY <1>22 DEF Exit, Reaped
  <2> QED
    BY <2>1, <2>2 DEF result
<1>23. ASSUME NEW p \in Pids, Fork(p) PROVE TypeOK'
  BY <1>23 DEF Fork, Kinds, result, processes
<1> QED
  BY <1>1, <1>2, <1>7, <1>8, <1>9, <1>10, <1>11, <1>12, <1>13, <1>14, <1>15, <1>16, <1>17,
     <1>18, <1>19, <1>20, <1>21, <1>22, <1>23
  DEF Next, Terminate, Environment

LEMMA NextLoops == ASSUME TypeOK, Loops, [Next]_vars PROVE Loops'
<1> USE DEF Loops, Before
<1>1. CASE UNCHANGED vars
  BY <1>1 DEF vars, result
<1>2. CASE Coordinate \/ Answers
  BY <1>2, Coordination
<1>4. CASE ReadDir \/ ScanFails
  BY <1>4 DEF ReadDir, ScanFails, result
<1>5. CASE ChooseTargets
  BY <1>5 DEF ChooseTargets, result
<1>6. CASE StartPolling \/ PollAgain
  BY <1>6 DEF StartPolling, PollAgain, result
<1>7. CASE PollingEnds
  BY <1>7 DEF PollingEnds, result
<1>8. CASE StartKilling
  BY <1>8 DEF StartKilling, result
<1>9. CASE Sleep
  BY <1>9 DEF Sleep, result
<1>10. CASE Return
  BY <1>10 DEF Return, result
<1>11. ASSUME NEW p \in Pids, ReadProc(p) PROVE Loops'
  BY <1>11 DEF ReadProc, result
<1>12. ASSUME NEW p \in Pids, Term(p) \/ Poll(p) PROVE Loops'
  BY <1>12 DEF Term, Poll, result
<1>13. ASSUME NEW p \in Pids, Check(p) PROVE Loops'
  BY <1>13 DEF Check
<1>14. ASSUME NEW p \in Pids, Kill(p) PROVE Loops'
  BY <1>14 DEF Kill
<1>15. ASSUME NEW p \in Pids, Recheck(p) PROVE Loops'
  BY <1>15 DEF Recheck
<1>16. CASE Deadline
  BY <1>16 DEF Deadline, result
<1>17. ASSUME NEW p \in Pids, Exit(p) \/ Reaped(p) \/ Fork(p) PROVE Loops'
  BY <1>17 DEF Exit, Reaped, Fork, result
<1> QED
  BY <1>1, <1>2, <1>4, <1>5, <1>6, <1>7, <1>8, <1>9, <1>10, <1>11, <1>12, <1>13, <1>14, <1>15,
     <1>16, <1>17
  DEF Next, Terminate, Environment

LEMMA NextFound == ASSUME TypeOK, Loops, Found, [Next]_vars PROVE Found'
<1> USE DEF Found
<1>1. CASE UNCHANGED vars
  BY <1>1 DEF vars, processes
<1>2. CASE Coordinate \/ Answers
  BY <1>2, Coordination
<1>3. CASE ReadDir \/ ScanFails \/ StartPolling \/ PollAgain \/ PollingEnds \/ StartKilling
             \/ Sleep \/ Return
  <2>1. UNCHANGED <<holder, same, hit, info, targets>>
    BY <1>3 DEF ReadDir, ScanFails, StartPolling, PollAgain, PollingEnds, StartKilling, Sleep,
      Return, processes
  <2> QED
    BY <2>1
<1>4. ASSUME NEW p \in Pids, Poll(p) \/ Check(p) \/ Recheck(p) PROVE Found'
  <2>1. UNCHANGED <<holder, same, hit, info, targets>>
    BY <1>4 DEF Poll, Check, Recheck, processes
  <2> QED
    BY <2>1
<1>5. CASE Deadline
  <2>1. UNCHANGED <<holder, same, hit, info, targets>>
    BY <1>5 DEF Deadline, processes
  <2> QED
    BY <2>1
<1>6. CASE ChooseTargets
  <2>1. \A p \in targets' : same[p] => holder[p] \in {"plain", "zombie"}
    BY <1>6 DEF ChooseTargets, IsEssential, IsKernelThread, TypeOK, Kinds
  <2>2. UNCHANGED <<holder, same, hit, info>>
    BY <1>6 DEF ChooseTargets, processes
  <2> QED
    BY <2>1, <2>2
<1>7. ASSUME NEW p \in Pids, ReadProc(p) PROVE Found'
  <2>1. targets = {} /\ UNCHANGED <<targets, holder, hit>>
    BY <1>7 DEF ReadProc, Loops, Before
  <2>2. \A q \in Pids : same'[q] => holder[q] # "none" /\ holder[q] \in {info'[q], "zombie"}
    BY <1>7 DEF ReadProc, TypeOK
  <2> QED
    BY <2>1, <2>2
<1>8. ASSUME NEW p \in Pids, Term(p) \/ Kill(p) PROVE Found'
  <2>1. Signal(p) /\ p \in targets /\ UNCHANGED <<info, targets>>
    BY <1>8 DEF Term, Kill, Loops, TypeOK
  <2>2. hit' \subseteq {"plain", "zombie"}
    BY <2>1, SignalEffect
  <2>3. same' = same /\ \A q \in Pids : holder'[q] \in {holder[q], "zombie"}
    BY <2>1, SignalEffect DEF TypeOK
  <2> QED
    BY <2>1, <2>2, <2>3 DEF TypeOK
<1>9. ASSUME NEW p \in Pids, Exit(p) PROVE Found'
  <2>1. \A q \in Pids : holder'[q] \in {holder[q], "zombie"}
    BY <1>9 DEF Exit, TypeOK
  <2>2. UNCHANGED <<same, hit, info, targets>>
    BY <1>9 DEF Exit
  <2> QED
    BY <2>1, <2>2 DEF TypeOK
<1>10. ASSUME NEW p \in Pids, Reaped(p) PROVE Found'
  <2>1. /\ ~same'[p] /\ holder'[p] = "none"
        /\ \A q \in Pids \ {p} : same'[q] = same[q] /\ holder'[q] = holder[q]
    BY <1>10 DEF Reaped, TypeOK
  <2>2. UNCHANGED <<hit, info, targets>>
    BY <1>10 DEF Reaped
  <2> QED
    BY <2>1, <2>2 DEF TypeOK
<1>11. ASSUME NEW p \in Pids, Fork(p) PROVE Found'
  <2>1. ~same[p] /\ holder'[p] \in {"essential", "plain"}
    BY <1>11 DEF Fork, TypeOK
  <2>2. \A q \in Pids \ {p} : holder'[q] = holder[q]
    BY <1>11 DEF Fork, TypeOK
  <2>3. UNCHANGED <<same, hit, info, targets>>
    BY <1>11 DEF Fork
  <2> QED
    BY <2>1, <2>2, <2>3 DEF TypeOK
<1> QED
  BY <1>1, <1>2, <1>3, <1>4, <1>5, <1>6, <1>7, <1>8, <1>9, <1>10, <1>11
  DEF Next, Terminate, Environment

LEMMA NextWatched == ASSUME TypeOK, Loops, Found, Watched, [Next]_vars PROVE Watched'
<1> USE DEF Watched
<1>1. CASE UNCHANGED vars
  BY <1>1 DEF vars, result, processes
<1>2. CASE Coordinate \/ Answers
  BY <1>2, Coordination DEF Before
<1>3. CASE ReadDir \/ ChooseTargets \/ StartPolling \/ PollAgain
  <2>1. stage' \notin {"check", "kill", "recheck", "done"}
    BY <1>3 DEF ReadDir, ChooseTargets, StartPolling, PollAgain
  <2> QED
    BY <2>1
<1>4. ASSUME NEW p \in Pids, ReadProc(p) \/ Term(p) \/ Poll(p) PROVE Watched'
  <2>1. stage' \notin {"check", "kill", "recheck", "done"}
    BY <1>4 DEF ReadProc, Term, Poll
  <2> QED
    BY <2>1
<1>5. CASE ScanFails
  BY <1>5 DEF ScanFails, Loops, Before
<1>6. CASE PollingEnds
  BY <1>6 DEF PollingEnds
<1>7. CASE StartKilling
  BY <1>7 DEF StartKilling, result, processes
<1>8. CASE Sleep
  BY <1>8 DEF Sleep, result, processes
<1>9. CASE Return
  BY <1>9 DEF Return, result, processes
<1>10. ASSUME NEW p \in Pids, Check(p) PROVE Watched'
  <2>1. same[p] => IsRunning(p)
    BY DEF Found, IsRunning
  <2> QED
    BY <1>10, <2>1 DEF Check, processes
<1>11. ASSUME NEW p \in Pids, Recheck(p) PROVE Watched'
  <2>1. same[p] => IsRunning(p)
    BY DEF Found, IsRunning
  <2> QED
    BY <1>11, <2>1 DEF Recheck, processes
<1>12. ASSUME NEW p \in Pids, Kill(p) PROVE Watched'
  <2>1. same' = same
    BY <1>12, SignalEffect DEF Kill
  <2> QED
    BY <1>12, <2>1 DEF Kill
<1>13. CASE Deadline
  BY <1>13 DEF Deadline, result, processes
<1>15. ASSUME NEW p \in Pids, Exit(p) \/ Fork(p) PROVE Watched'
  BY <1>15 DEF Exit, Fork, result
<1>16. ASSUME NEW p \in Pids, Reaped(p) PROVE Watched'
  <2>1. \A q \in Pids : same'[q] => same[q]
    BY <1>16 DEF Reaped, TypeOK
  <2>2. UNCHANGED <<stage, todo, targets, still, stubborn>>
    BY <1>16 DEF Reaped, result
  <2>3. targets \subseteq Pids
    BY DEF TypeOK
  <2> QED
    BY <2>1, <2>2, <2>3
<1> QED
  BY <1>1, <1>2, <1>3, <1>4, <1>5, <1>6, <1>7, <1>8, <1>9, <1>10, <1>11, <1>12, <1>13, <1>15,
     <1>16
  DEF Next, Terminate, Environment

LEMMA NextTerminator == TerminatorInv /\ [Next]_vars => TerminatorInv'
  BY NextType, NextLoops, NextFound, NextWatched DEF TerminatorInv

\* The inductive invariant holds in every reachable state.
THEOREM TerminatorInvariant == Spec => []TerminatorInv
  BY InitTerminator, NextTerminator, PTL DEF Spec

\* Every variable has its type in every reachable state.
THEOREM TerminatorTypeOK == Spec => []TypeOK
<1>1. TerminatorInv => TypeOK
  BY DEF TerminatorInv
<1> QED
  BY <1>1, TerminatorInvariant, PTL

\* Nobody who must survive is signalled as the scan found it.
THEOREM TerminatorSparedAreSpared == Spec => []SparedAreSpared
<1>1. TerminatorInv => SparedAreSpared
  BY DEF TerminatorInv, Found, SparedAreSpared
<1> QED
  BY <1>1, TerminatorInvariant, PTL

\* Without an error, whatever was to end has ended.
THEOREM TerminatorNoErrorMeansGone == Spec => []NoErrorMeansGone
<1>1. TerminatorInv => NoErrorMeansGone
  BY DEF TerminatorInv, TypeOK, Watched, NoErrorMeansGone
<1> QED
  BY <1>1, TerminatorInvariant, PTL

----------------------------------------------------------------------------
(* The counts.                                                             *)

\* Whoever is not yet counted is in the loop that is running or in the next.
Counted ==
  /\ stage \in Before \union {"term", "grace"} => terminated = 0
  /\ stage \in Before \union {"term", "grace", "check"} => killed = 0
  /\ stage = "check" => terminated + Cardinality(todo \union still) = Cardinality(targets)
  /\ stage = "kill" =>
       terminated + Cardinality(still) = Cardinality(targets)
         /\ killed + Cardinality(todo) = Cardinality(still)
  /\ stage = "recheck" =>
       terminated + Cardinality(todo \union stubborn) = Cardinality(targets)
         /\ killed = Cardinality(still)
  /\ stage = "done" =>
       terminated + Cardinality(stubborn) = Cardinality(targets) /\ killed = Cardinality(still)
  /\ stage = "check" => todo \intersect still = {}
  /\ stage = "recheck" => todo \intersect stubborn = {}

LEMMA FiniteTodo ==
  ASSUME TypeOK
  PROVE  /\ IsFiniteSet(todo) /\ IsFiniteSet(targets) /\ IsFiniteSet(still)
         /\ IsFiniteSet(todo \union still) /\ IsFiniteSet(todo \union stubborn)
<1>1. todo \subseteq Pids /\ targets \subseteq Pids /\ still \subseteq Pids
        /\ todo \union still \subseteq Pids /\ todo \union stubborn \subseteq Pids
  BY DEF TypeOK
<1> QED
  BY <1>1, PidsAssumption, FS_Subset

LEMMA InitCounted == Init => Counted
  BY DEF Init, Counted, Before

\* Taking an id out of a loop.
LEMMA OneLess ==
  ASSUME NEW S, IsFiniteSet(S), NEW p \in S
  PROVE  /\ Cardinality(S \ {p}) = Cardinality(S) - 1
         /\ Cardinality(S) \in Nat
  BY FS_RemoveElement, FS_CardinalityType

\* Steps of others, and those before the first look.
Apart == UNCHANGED <<stage, todo, targets, still, stubborn, terminated, killed>>

LEMMA NextCounted == TerminatorInv /\ Counted /\ [Next]_vars => Counted'
<1> SUFFICES ASSUME TerminatorInv, Counted, [Next]_vars PROVE Counted'
  OBVIOUS
<1>t. TypeOK /\ Loops
  BY DEF TerminatorInv
<1>f. /\ IsFiniteSet(todo) /\ IsFiniteSet(targets) /\ IsFiniteSet(still)
      /\ IsFiniteSet(todo \union still) /\ IsFiniteSet(todo \union stubborn)
  BY <1>t, FiniteTodo
<1>n. /\ Cardinality(targets) \in Nat /\ Cardinality(still) \in Nat
      /\ terminated \in Nat /\ killed \in Nat
  BY <1>t, <1>f, FS_CardinalityType DEF TypeOK
<1>e. Cardinality({}) = 0
  BY FS_EmptySet
<1>a. ASSUME Apart PROVE Counted'
  BY <1>a DEF Apart, Counted
<1>1. CASE UNCHANGED vars
  BY <1>1, <1>a DEF vars, result, Apart
<1>2. CASE Deadline
  BY <1>2, <1>a DEF Deadline, result, Apart
<1>3. ASSUME NEW p \in Pids, Exit(p) \/ Reaped(p) \/ Fork(p) PROVE Counted'
  BY <1>3, <1>a DEF Exit, Reaped, Fork, result, Apart
<1>4. ASSUME stage \in Before \union {"term", "grace"},
             stage' \in Before \union {"term", "grace"},
             UNCHANGED <<terminated, killed>>
      PROVE  Counted'
  BY <1>4 DEF Counted, Before
<1>5. CASE Coordinate \/ Answers
  BY <1>5, <1>4, Coordination
<1>6. CASE ReadDir \/ ChooseTargets \/ StartPolling \/ PollAgain
  BY <1>6, <1>4 DEF ReadDir, ChooseTargets, StartPolling, PollAgain, Before, result
<1>7. ASSUME NEW p \in Pids, ReadProc(p) \/ Term(p) \/ Poll(p) PROVE Counted'
  BY <1>7, <1>4 DEF ReadProc, Term, Poll, Before, result
<1>8. CASE ScanFails
  <2>1. stage = "scan" /\ stage' = "done" /\ UNCHANGED <<targets, result>>
    BY <1>8 DEF ScanFails
  <2>2. targets = {} /\ still = {} /\ stubborn = {}
    BY <1>t, <2>1 DEF Loops, Before
  <2>3. terminated = 0 /\ killed = 0
    BY <2>1 DEF Counted, Before
  <2> QED
    BY <2>1, <2>2, <2>3, <1>e DEF Counted, Before, result
<1>9. CASE PollingEnds
  <2>1. stage = "grace" /\ stage' = "check" /\ todo' = targets /\ UNCHANGED <<targets, result>>
    BY <1>9 DEF PollingEnds
  <2>2. still = {} /\ terminated = 0 /\ killed = 0
    BY <1>t, <2>1 DEF Loops, Counted, Before
  <2>3. todo' \union still' = targets'
    BY <2>1, <2>2 DEF result
  <2>4. todo' \intersect still' = {}
    BY <2>1, <2>2 DEF result
  <2> QED
    BY <2>1, <2>2, <2>3, <2>4, <1>n DEF Counted, Before, result
<1>10. CASE StartKilling
  <2>1. stage = "check" /\ stage' = "kill" /\ todo = {} /\ todo' = still
          /\ UNCHANGED <<targets, result>>
    BY <1>10 DEF StartKilling
  <2>2. todo \union still = still
    BY <2>1
  <2>3. killed = 0 /\ terminated + Cardinality(still) = Cardinality(targets)
    BY <2>1, <2>2 DEF Counted, Before
  <2> QED
    BY <2>1, <2>3, <1>n DEF Counted, Before, result
<1>11. CASE Sleep
  <2>1. stage = "kill" /\ stage' = "recheck" /\ todo = {} /\ todo' = still
          /\ UNCHANGED <<targets, result>>
    BY <1>11 DEF Sleep
  <2>2. terminated + Cardinality(still) = Cardinality(targets) /\ killed = Cardinality(still)
    BY <2>1, <1>n, <1>e DEF Counted
  <2>3. stubborn = {}
    BY <2>1, <1>t DEF Loops
  <2>4. todo' \union stubborn' = still /\ todo' \intersect stubborn' = {}
    BY <2>1, <2>3 DEF result
  <2> QED
    BY <2>1, <2>2, <2>4 DEF Counted, Before, result
<1>12. CASE Return
  <2>1. stage = "recheck" /\ stage' = "done" /\ todo = {} /\ UNCHANGED <<targets, result>>
    BY <1>12 DEF Return
  <2>2. todo \union stubborn = stubborn
    BY <2>1
  <2> QED
    BY <2>1, <2>2 DEF Counted, Before, result
<1>13. ASSUME NEW p \in Pids, Check(p) PROVE Counted'
  <2>1. /\ stage = "check" /\ stage' = "check" /\ p \in todo /\ todo' = todo \ {p}
        /\ UNCHANGED <<targets, stubborn, killed>>
        /\ IF IsRunning(p) THEN still' = still \union {p} /\ UNCHANGED terminated
           ELSE terminated' = terminated + 1 /\ UNCHANGED still
    BY <1>13 DEF Check
  <2>2. /\ terminated + Cardinality(todo \union still) = Cardinality(targets)
        /\ killed = 0 /\ todo \intersect still = {}
    BY <2>1 DEF Counted, Before
  <2>3. todo' \intersect still' = {}
    BY <2>1, <2>2
  <2>4. terminated' + Cardinality(todo' \union still') = Cardinality(targets)
    <3>1. CASE IsRunning(p)
      <4>1. todo' \union still' = todo \union still
        BY <2>1, <3>1
      <4> QED
        BY <2>1, <2>2, <3>1, <4>1
    <3>2. CASE ~IsRunning(p)
      <4>1. todo' \union still' = (todo \union still) \ {p}
        BY <2>1, <2>2, <3>2
      <4>2. /\ Cardinality((todo \union still) \ {p}) = Cardinality(todo \union still) - 1
            /\ Cardinality(todo \union still) \in Nat
        BY <2>1, <1>f, OneLess
      <4> QED
        BY <2>1, <2>2, <3>2, <4>1, <4>2, <1>n
    <3> QED
      BY <3>1, <3>2
  <2> QED
    BY <2>1, <2>2, <2>3, <2>4 DEF Counted, Before
<1>14. ASSUME NEW p \in Pids, Kill(p) PROVE Counted'
  <2>1. /\ stage = "kill" /\ stage' = "kill" /\ p \in todo /\ todo' = todo \ {p}
        /\ killed' = killed + 1 /\ UNCHANGED <<targets, still, stubborn, terminated>>
    BY <1>14 DEF Kill
  <2>2. Cardinality(todo \ {p}) = Cardinality(todo) - 1 /\ Cardinality(todo) \in Nat
    BY <2>1, <1>f, OneLess
  <2>3. killed' + Cardinality(todo') = Cardinality(still)
    BY <2>1, <2>2, <1>n DEF Counted
  <2> QED
    BY <2>1, <2>3 DEF Counted, Before
<1>15. ASSUME NEW p \in Pids, Recheck(p) PROVE Counted'
  <2>1. /\ stage = "recheck" /\ stage' = "recheck" /\ p \in todo /\ todo' = todo \ {p}
        /\ UNCHANGED <<targets, still, killed>>
        /\ IF IsRunning(p) THEN stubborn' = stubborn \union {p} /\ UNCHANGED terminated
           ELSE terminated' = terminated + 1 /\ UNCHANGED stubborn
    BY <1>15 DEF Recheck
  <2>2. /\ terminated + Cardinality(todo \union stubborn) = Cardinality(targets)
        /\ killed = Cardinality(still) /\ todo \intersect stubborn = {}
    BY <2>1 DEF Counted
  <2>3. todo' \intersect stubborn' = {}
    BY <2>1, <2>2
  <2>4. terminated' + Cardinality(todo' \union stubborn') = Cardinality(targets)
    <3>1. CASE IsRunning(p)
      <4>1. todo' \union stubborn' = todo \union stubborn
        BY <2>1, <3>1
      <4> QED
        BY <2>1, <2>2, <3>1, <4>1
    <3>2. CASE ~IsRunning(p)
      <4>1. todo' \union stubborn' = (todo \union stubborn) \ {p}
        BY <2>1, <2>2, <3>2
      <4>2. /\ Cardinality((todo \union stubborn) \ {p}) = Cardinality(todo \union stubborn) - 1
            /\ Cardinality(todo \union stubborn) \in Nat
        BY <2>1, <1>f, OneLess
      <4> QED
        BY <2>1, <2>2, <3>2, <4>1, <4>2, <1>n
    <3> QED
      BY <3>1, <3>2
  <2> QED
    BY <2>1, <2>2, <2>3, <2>4 DEF Counted, Before
<1> QED
  BY <1>1, <1>2, <1>3, <1>5, <1>6, <1>7, <1>8, <1>9, <1>10, <1>11, <1>12, <1>13, <1>14, <1>15
  DEF Next, Terminate, Environment

\* The result counts every target once.
THEOREM TerminatorResultCounts == Spec => []ResultCounts
<1>1. Counted => ResultCounts
  BY DEF Counted, ResultCounts
<1> QED
  BY <1>1, InitCounted, NextCounted, TerminatorInvariant, PTL DEF Spec

----------------------------------------------------------------------------
(* Stopping the old OS comes to an end.                                    *)

\* The stages in the order they come in.
ToCome ==
  [coordinate |-> 11, start |-> 10, connect |-> 9, call |-> 8, jobs |-> 8, scan |-> 7, read |-> 6,
   term |-> 5, grace |-> 4, check |-> 3, kill |-> 2, recheck |-> 1, done |-> 0]

\* A bound for the steps that are left: a turn for every id in each stage that is to
\* come, and one to leave it; and the ids that the loop of this one has still to visit.
Turns == Cardinality(Pids) + 1
Left == ToCome[stage] * Turns + Cardinality(todo)

\* The two rounds that may begin again before their deadline.
Polling == stage \in {"grace", "jobs"} /\ ~late

\* The program's steps lower the bound, and nothing else raises it, but for another
\* round of polling before the deadline; and a deadline that has passed stays passed
\* until the next one is set.
CountsDown ==
  /\ Coordinate \/ Terminate => Left' < Left \/ Polling
  /\ Left' <= Left \/ Polling
  /\ late /\ (stage' = stage \/ stage = "call") => late'

Stages == {"coordinate", "start", "connect", "jobs", "call", "scan", "read", "term", "grace",
           "check", "kill", "recheck", "done"}
LEMMA ToComes ==
  /\ \A s \in Stages : ToCome[s] \in 0..11
  /\ ToCome["coordinate"] = 11 /\ ToCome["start"] = 10 /\ ToCome["connect"] = 9
  /\ ToCome["call"] = 8 /\ ToCome["jobs"] = 8
  /\ ToCome["scan"] = 7 /\ ToCome["read"] = 6 /\ ToCome["term"] = 5 /\ ToCome["grace"] = 4
  /\ ToCome["check"] = 3 /\ ToCome["kill"] = 2 /\ ToCome["recheck"] = 1 /\ ToCome["done"] = 0
  BY DEF ToCome, Stages

\* Ids are fewer than turns.
LEMMA TodoBelowTurns ==
  ASSUME TypeOK
  PROVE  Turns \in Nat /\ Cardinality(todo) \in Nat /\ Cardinality(todo) < Turns
<1>1. todo \subseteq Pids /\ IsFiniteSet(Pids)
  BY PidsAssumption DEF TypeOK
<1>2. /\ Cardinality(todo) <= Cardinality(Pids)
      /\ Cardinality(todo) \in Nat /\ Cardinality(Pids) \in Nat
  BY <1>1, FS_Subset, FS_CardinalityType
<1> QED
  BY <1>2 DEF Turns

\* One stage less outweighs whatever the next loop has to visit.
LEMMA StageLess ==
  ASSUME NEW n \in Nat, NEW k \in Nat, NEW j \in Nat, j < k,
         NEW c \in Nat, NEW d \in Nat, d < n
  PROVE  j * n + d < k * n + c
<1> DEFINE e == k - (j + 1)
<1>1. e \in Nat /\ k = j + 1 + e
  OBVIOUS
<1>2. e * n \in Nat /\ j * n \in Nat
  BY <1>1
<1>3. k * n = j * n + n + e * n
  BY <1>1
<1> HIDE DEF e
<1> QED
  BY <1>2, <1>3

LEMMA LeftIsNatural == ASSUME TypeOK PROVE Left \in Nat
<1>1. ToCome[stage] \in Nat
  BY ToComes DEF TypeOK, Stages
<1> QED
  BY <1>1, TodoBelowTurns DEF Left

\* A step to a later stage.
LEMMA LaterStage ==
  ASSUME TypeOK, TypeOK', ToCome[stage'] < ToCome[stage]
  PROVE  Left' < Left
<1>1. ToCome[stage] \in Nat /\ ToCome[stage'] \in Nat
  BY ToComes DEF TypeOK, Stages
<1>2. Turns \in Nat /\ Cardinality(todo) \in Nat
  BY TodoBelowTurns
<1>3. Cardinality(todo') \in Nat /\ Cardinality(todo') < Turns
  <2>1. todo' \subseteq Pids /\ IsFiniteSet(Pids)
    BY PidsAssumption DEF TypeOK
  <2>2. /\ Cardinality(todo') <= Cardinality(Pids)
        /\ Cardinality(todo') \in Nat /\ Cardinality(Pids) \in Nat
    BY <2>1, FS_Subset, FS_CardinalityType
  <2> QED
    BY <2>2 DEF Turns
<1>4. Left' = ToCome[stage'] * Turns + Cardinality(todo')
  BY DEF Left, Turns, ToCome
<1> QED
  BY <1>1, <1>2, <1>3, <1>4, StageLess DEF Left

\* A turn of the loop of a stage.
LEMMA OneTurn ==
  ASSUME TypeOK, stage' = stage, NEW p \in todo, todo' = todo \ {p}
  PROVE  Left' < Left
<1>1. ToCome[stage] * Turns \in Nat
  <2>1. ToCome[stage] \in Nat
    BY ToComes DEF TypeOK, Stages
  <2> QED
    BY <2>1, TodoBelowTurns
<1>2. Cardinality(todo') = Cardinality(todo) - 1 /\ Cardinality(todo) \in Nat
  BY OneLess, FiniteTodo
<1>3. Left' = ToCome[stage] * Turns + Cardinality(todo')
  BY DEF Left, Turns, ToCome
<1> QED
  BY <1>1, <1>2, <1>3 DEF Left

\* What the program does: on to a later stage, or one id less, or another round.
LEMMA ProgramMoves ==
  ASSUME Coordinate \/ Terminate
  PROVE  \/ ToCome[stage'] < ToCome[stage]
         \/ stage' = stage /\ \E p \in todo : todo' = todo \ {p}
         \/ Polling /\ ToCome[stage'] = ToCome[stage]
<1>1. CASE Coordinate
  BY <1>1, ToComes DEF Coordinate, SkipCoordination, WaitBriefly, TransitionToRescue, AskJobs,
     JobsTimeout, Polling
<1>2. CASE \E p \in Pids : ReadProc(p) \/ Term(p) \/ Poll(p) \/ Check(p) \/ Kill(p) \/ Recheck(p)
  BY <1>2 DEF ReadProc, Term, Poll, Check, Kill, Recheck
<1>3. CASE PollAgain
  BY <1>3 DEF PollAgain, Polling
<1>4. CASE ReadDir \/ ScanFails \/ ChooseTargets \/ StartPolling \/ PollingEnds \/ StartKilling
           \/ Sleep \/ Return
  BY <1>4, ToComes DEF ReadDir, ScanFails, ChooseTargets, StartPolling, PollingEnds, StartKilling,
     Sleep, Return
<1> QED
  BY <1>1, <1>2, <1>3, <1>4 DEF Terminate

\* What others do: nothing about it, but for an answer of systemd.
LEMMA OthersMove ==
  ASSUME Deadline \/ Environment \/ UNCHANGED vars
  PROVE  ToCome[stage'] < ToCome[stage] \/ (ToCome[stage'] = ToCome[stage] /\ todo' = todo)
  BY ToComes DEF Deadline, Environment, Answers, StartUnitReturns, BusConnects, JobsListed,
     Exit, Reaped, Fork, vars

\* Whatever processes and systemd do, and however many ids there are: what is left to
\* do is a number that every step of the program lowers and no other step raises, with
\* the exception of the rounds of polling before a deadline.  (That systemd answers is
\* not said: its answers are steps of others.)
THEOREM TerminatorCountsDown == Spec => [](Left \in Nat) /\ [][CountsDown]_vars
<1>1. TypeOK /\ TypeOK' /\ [Next]_vars => [CountsDown]_vars
  <2> SUFFICES ASSUME TypeOK, TypeOK', [Next]_vars PROVE CountsDown
    OBVIOUS
  <2>1. late /\ (stage' = stage \/ stage = "call") => late'
    BY DEF Next, Coordinate, Terminate, Environment, SkipCoordination, WaitBriefly,
       TransitionToRescue, AskJobs, JobsTimeout, Answers, StartUnitReturns, BusConnects,
       JobsListed, ReadDir, ScanFails, ChooseTargets, StartPolling, PollAgain, PollingEnds,
       StartKilling, Sleep, Return, ReadProc, Term, Poll, Check, Kill, Recheck, Deadline,
       Exit, Reaped, Fork, vars
  <2>2. Left \in Nat /\ Left' \in Nat
    <3>1. Left \in Nat
      BY LeftIsNatural
    <3>2. stage' \in Stages /\ Turns \in Nat /\ IsFiniteSet(todo')
      BY TodoBelowTurns, PidsAssumption, FS_Subset DEF TypeOK, Stages
    <3>3. Cardinality(todo') \in Nat /\ ToCome[stage'] \in Nat
      BY <3>2, FS_CardinalityType, ToComes
    <3>4. Left' = ToCome[stage'] * Turns + Cardinality(todo')
      BY DEF Left, Turns, ToCome
    <3> QED
      BY <3>1, <3>2, <3>3, <3>4
  <2>3. CASE Coordinate \/ Terminate
    <3>1. Left' < Left \/ Polling
      BY <2>3, ProgramMoves, LaterStage, OneTurn
    <3> QED
      BY <2>1, <2>2, <3>1 DEF CountsDown
  <2>4. CASE ~(Coordinate \/ Terminate)
    <3>1. ToCome[stage'] < ToCome[stage] \/ (ToCome[stage'] = ToCome[stage] /\ todo' = todo)
      BY <2>4, OthersMove DEF Next
    <3>2. ToCome[stage'] = ToCome[stage] /\ todo' = todo => Left' = Left
      BY DEF Left, Turns, ToCome
    <3>3. Left' <= Left
      BY <2>2, <3>1, <3>2, LaterStage
    <3> QED
      BY <2>1, <2>4, <3>3 DEF CountsDown
  <2> QED
    BY <2>3, <2>4
<1>2. TypeOK => Left \in Nat
  BY LeftIsNatural
<1> QED
  BY <1>1, <1>2, TerminatorTypeOK, PTL DEF Spec
=============================================================================
