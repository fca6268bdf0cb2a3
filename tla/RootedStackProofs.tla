-------------------------- MODULE RootedStackProofs --------------------------
(***************************************************************************)
(* The supervisor leaves no child behind and its readiness is earned, for  *)
(* any number of attempts, starts, interrupts, kills and crashes.          *)
(***************************************************************************)
EXTENDS RootedStack, TLAPS

\* The children of the first three checks are different.
LEMMA ChildOfType ==
    /\ \A k \in Checks : ChildOf[k] \in Services /\ Behind[k] \in Services
    /\ \A j, k \in 1..3 : ChildOf[j] = ChildOf[k] => j = k
BY DEF Checks, ChildOf, Behind, Services

\* The last of a set of children is one of them.
LEMMA LastType == \A set \in SUBSET Services : set # {} => Last(set) \in set
BY DEF Last, Services

(* At the start nothing runs and no check has been passed. *)
LEMMA InitInv == Init => IInv
<1> SUFFICES ASSUME Init PROVE IInv
  OBVIOUS
<1>1. TypeOK
  BY PollsAssumption, BoundsAssumption
  DEF Init, TypeOK, Checks, Alive, Trying, Cleaning
<1>2. Passed = {}
  BY DEF Init, Passed
<1>3. NotStarted
  BY ChildOfType DEF Init, NotStarted, Checks
<1> QED BY <1>1, <1>2, <1>3 DEF Init, IInv, Listed, Stopped, ChecksPassed, NoChildLeftBehind, Alive, Trying

\* Every step keeps the types; one step of the proof per action.
LEMMA StepTypeOK == IInv /\ [Next]_vars => TypeOK'
<1> SUFFICES ASSUME IInv, [Next]_vars PROVE TypeOK'
  OBVIOUS
<1> USE PollsAssumption, BoundsAssumption, ChildOfType, LastType
    DEF IInv, TypeOK, Checks, Alive, Trying, Cleaning, supervisor, history
<1>1. CASE PreflightPasses
  BY <1>1 DEF PreflightPasses
<1>2. CASE PreflightFails
  BY <1>2 DEF PreflightFails
<1>3. CASE Start
  <2>1. check \in 1..3 /\ proc[ChildOf[check]] = "none"
    BY <1>3 DEF Start, ChecksPassed, NotStarted
  <2> QED BY <1>3, <2>1 DEF Start
<1>4. CASE StartFails
  BY <1>4 DEF StartFails, CleanUp
<1>5. CASE Append
  BY <1>5 DEF Append
<1>6. CASE Poll
  BY <1>6 DEF Poll, CleanUp
<1>7. CASE Answered
  BY <1>7 DEF Answered
<1>8. CASE Unanswered
  BY <1>8 DEF Unanswered
<1>9. CASE Monitor
  BY <1>9 DEF Monitor, CleanUp
<1>10. CASE Terminate
  BY <1>10 DEF Terminate, LoopEnds, ToldToStop
<1>11. CASE Wait
  BY <1>11 DEF Wait, LoopEnds, Freed
<1>12. CASE Reap
  BY <1>12 DEF Reap, LoopEnds
<1>13. ASSUME NEW s \in Services, Boot(s) PROVE TypeOK'
  BY <1>13 DEF Boot
<1>14. ASSUME NEW s \in Services, Crash(s) PROVE TypeOK'
  BY <1>14 DEF Crash, Freed
<1>15. ASSUME NEW s \in Services, Die(s) PROVE TypeOK'
  BY <1>15 DEF Die, Freed
<1>16. ASSUME NEW s \in Services, OrphanEnds(s) PROVE TypeOK'
  BY <1>16 DEF OrphanEnds
<1>17. ASSUME NEW both \in BOOLEAN, Interrupt(both) PROVE TypeOK'
  <2>1. /\ proc' \in [Services -> {"none", "dead"} \cup Alive]
        /\ \A s \in Services : port'[s] = "own" <=> proc'[s] \in {"up", "stopping"}
    BY <1>17 DEF Interrupt, ChildrenInterrupted, ToldToStop
  <2>2. budget' \in [starts : 0..MaxStarts, interrupts : 0..MaxInterrupts, kills : 0..MaxKills,
                     crashes : 0..MaxCrashes]
    BY <1>17 DEF Interrupt
  <2> QED BY <1>17, <2>1, <2>2 DEF Interrupt, CleanUp
<1>18. CASE Kill
  BY <1>18 DEF Kill
<1>19. CASE Restart
  <2>1. budget' \in [starts : 0..MaxStarts, interrupts : 0..MaxInterrupts, kills : 0..MaxKills,
                     crashes : 0..MaxCrashes]
    BY <1>19 DEF Restart
  <2>2. port' \in [Services -> {"free", "own", "orphan"}] /\ \A s \in Services : port'[s] # "own"
    BY <1>19 DEF Restart
  <2>3. ending' = "complete" /\ orphaned' \subseteq Services /\ check' \in Checks /\ polls' = 0
    BY <1>19 DEF Restart
  <2>4. phase' = "preflight" /\ left' = {} /\ children' = {} /\ proc' = [s \in Services |-> "none"]
    BY <1>19 DEF Restart
  <2> QED BY <2>1, <2>2, <2>3, <2>4
<1>20. CASE UNCHANGED vars
  BY <1>20 DEF vars
<1> QED BY <1>1, <1>2, <1>3, <1>4, <1>5, <1>6, <1>7, <1>8, <1>9, <1>10, <1>11, <1>12, <1>13, <1>14, <1>15, <1>16, <1>17, <1>18, <1>19, <1>20 DEF Next, Supervise

\* Every step keeps the invariant.
LEMMA StepIInv == IInv /\ [Next]_vars => IInv'
<1> DEFINE Kept == NotStarted' /\ Listed' /\ Stopped' /\ ChecksPassed' /\ NoChildLeftBehind'
<1> SUFFICES ASSUME IInv, [Next]_vars PROVE Kept
  BY StepTypeOK DEF IInv
<1>0. TypeOK /\ TypeOK'
  BY StepTypeOK DEF IInv
<1> USE <1>0, ChildOfType, LastType
    DEF IInv, TypeOK, NotStarted, Listed, Stopped, ChecksPassed, NoChildLeftBehind, Passed, Checks, Alive, Trying,
        Cleaning, supervisor, history
<1>1. CASE PreflightPasses
  BY <1>1 DEF PreflightPasses
<1>2. CASE PreflightFails
  BY <1>2 DEF PreflightFails
<1>3. CASE Start
  <2>1. check \in 1..3 /\ \A k \in 1..(check - 1) : ChildOf[k] # ChildOf[check]
    BY <1>3 DEF Start
  <2>2. NotStarted'
    BY <1>3, <2>1 DEF Start
  <2>3. ChecksPassed'
    BY <1>3, <2>1 DEF Start
  <2>4. Listed' /\ Stopped' /\ NoChildLeftBehind'
    BY <1>3, <2>1 DEF Start
  <2> QED BY <2>2, <2>3, <2>4
<1>4. CASE StartFails
  BY <1>4 DEF StartFails, CleanUp
<1>5. CASE Append
  BY <1>5 DEF Append
<1>6. CASE Poll
  BY <1>6 DEF Poll, CleanUp
<1>7. CASE Answered
  BY <1>7 DEF Answered
<1>8. CASE Unanswered
  BY <1>8 DEF Unanswered
<1>9. CASE Monitor
  BY <1>9 DEF Monitor, CleanUp
<1>10. CASE Terminate
  <2>1. CASE LoopEnds("wait")
    BY <1>10, <2>1 DEF Terminate, LoopEnds
  <2>2. CASE left # {}
    <3> DEFINE s == Last(left)
    <3>1. s \in left /\ s \in Services
      BY <2>2
    <3> HIDE DEF s
    <3>2. /\ proc' = [proc EXCEPT ![s] = ToldToStop(@)]
          /\ UNCHANGED <<phase, check, polls, children, port, history, budget>>
          /\ phase = "terminate"
      BY <1>10, <2>2 DEF Terminate, LoopEnds, s
    <3>3. \A u \in Services : proc'[u] = "none" <=> proc[u] = "none"
      BY <3>1, <3>2 DEF ToldToStop
    <3>4. \A u \in Services : proc'[u] \in Alive => proc[u] \in Alive
      BY <3>1, <3>2 DEF ToldToStop
    <3> QED BY <3>1, <3>2, <3>3, <3>4
  <2> QED BY <1>10, <2>1, <2>2 DEF Terminate, LoopEnds
<1>11. CASE Wait
  <2>1. CASE LoopEnds("reap")
    BY <1>11, <2>1 DEF Wait, LoopEnds
  <2>2. CASE left # {}
    <3> DEFINE s == Last(left)
    <3>1. s \in left /\ s \in Services
      BY <2>2
    <3> HIDE DEF s
    <3>2. /\ proc' = [proc EXCEPT ![s] = "dead"]
          /\ left' = left \ {s}
          /\ port' = Freed(s)
          /\ UNCHANGED <<phase, check, polls, children, history, budget>>
          /\ phase = "wait"
      BY <1>11, <2>2 DEF Wait, LoopEnds, s
    <3>3. \A u \in Services : port'[u] = "orphan" => port[u] = "orphan"
      BY <3>1, <3>2 DEF Freed
    <3>4. \A k \in 1..3 : k > check => proc'[ChildOf[k]] = "none"
      BY <3>1, <3>2
    <3> QED BY <3>1, <3>2, <3>3, <3>4
  <2> QED BY <1>11, <2>1, <2>2 DEF Wait, LoopEnds
<1>12. CASE Reap
  <2>1. CASE LoopEnds("exited")
    BY <1>12, <2>1 DEF Reap, LoopEnds
  <2>2. CASE left # {}
    <3> DEFINE s == Last(left)
    <3>1. s \in left /\ s \in Services
      BY <2>2
    <3> HIDE DEF s
    <3>2. /\ left' = left \ {s}
          /\ UNCHANGED <<phase, check, polls, children, proc, port, history, budget>>
          /\ phase = "reap"
      BY <1>12, <2>2 DEF Reap, LoopEnds, s
    <3> QED BY <3>1, <3>2
  <2> QED BY <1>12, <2>1, <2>2 DEF Reap, LoopEnds
<1>13. ASSUME NEW s \in Services, Boot(s) PROVE Kept
  BY <1>13 DEF Boot
<1>14. ASSUME NEW s \in Services, Crash(s) PROVE Kept
  BY <1>14 DEF Crash, Freed
<1>15. ASSUME NEW s \in Services, Die(s) PROVE Kept
  BY <1>15 DEF Die, Freed
<1>16. ASSUME NEW s \in Services, OrphanEnds(s) PROVE Kept
  BY <1>16 DEF OrphanEnds
<1>17. ASSUME NEW both \in BOOLEAN, Interrupt(both) PROVE Kept
  BY <1>17 DEF Interrupt, ChildrenInterrupted, ToldToStop, CleanUp
<1>18. CASE Kill
  BY <1>18 DEF Kill
<1>19. CASE Restart
  BY <1>19 DEF Restart
<1>20. CASE UNCHANGED vars
  BY <1>20 DEF vars
<1> QED BY <1>1, <1>2, <1>3, <1>4, <1>5, <1>6, <1>7, <1>8, <1>9, <1>10, <1>11, <1>12, <1>13, <1>14, <1>15, <1>16, <1>17, <1>18, <1>19, <1>20 DEF Next, Supervise

-----------------------------------------------------------------------------
\* The inductive invariant: what runs is on the list of terminate_children.
THEOREM InductiveInvariant == Spec => []IInv
BY InitInv, StepIInv, PTL DEF Spec

\* Type correctness; a port is held by this run's child exactly while that child is up.
THEOREM TypeCorrect == Spec => []TypeOK
BY InductiveInvariant, PTL DEF IInv

\* A supervisor that is not killed, and not interrupted while it cleans up or between Popen
\* and append, leaves no process behind, whatever fails at whatever step.
THEOREM NobodyLeftBehind == Spec => []NoChildLeftBehind
BY InductiveInvariant, PTL DEF IInv

\* "Ready" rests on children that have come up, or on the answers of orphans.
THEOREM ReadinessIsEarned == Spec => []ReadyMeansUp
<1>1. IInv => ReadyMeansUp
  <2> SUFFICES ASSUME IInv, phase = "ready", NEW s \in Services
               PROVE  proc[s] \notin {"none", "booting"} \/ s \in orphaned
    BY DEF ReadyMeansUp
  <2>1. check = 4
    BY DEF IInv, ChecksPassed
  <2>2. \E k \in 1..3 : s = ChildOf[k]
    BY DEF Services, ChildOf
  <2> QED BY <2>1, <2>2 DEF IInv, ChecksPassed, Passed, Trying
<1> QED BY <1>1, InductiveInvariant, PTL
=============================================================================
