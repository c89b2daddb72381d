---------------------------- MODULE BuildProofs ----------------------------
(***************************************************************************)
(* Proofs about a build: Supervisor for any set of RunStage4 calls, and    *)
(* Dispatcher for any set of Dispatch calls, any width and any pool.       *)
(*                                                                         *)
(* OneBuildAtATime is not inductive: a second call enters when the machine *)
(* is idle, so the proof needs that an active call keeps it from being     *)
(* idle, up to the step by which Shutdown forces it there.                 *)
(* OutcomeHonest needs that a call on its way out has recorded its stop    *)
(* and one still on its way has recorded nothing and had no transition     *)
(* refused, and that one that finishes was told "ok" by Dispatch.          *)
(***************************************************************************)
EXTENDS MCBuild, FiniteSetTheorems, TLAPS

-----------------------------------------------------------------------------
(* Supervisor                                                              *)

\* The invariant behind OneBuildAtATime.
Occupied ==
    stopping \in {"new", "waiting", "forceAbort", "forceIdle"} =>
        /\ \A r, s \in Active : r = s
        /\ Active # {} => state # "idle"

\* The invariant behind OutcomeHonest.
Recorded ==
    \A r \in Runs :
        /\ outcome[r] = "success" => dispatched[r] = "ok" /\ r \notin refused
        /\ run[r] = "finish" => dispatched[r] = "ok"
        /\ r \in refused => outcome[r] \in {"transition_failed", "unlogged"}
        /\ run[r] \in {"abort", "cleanup", "done"} => outcome[r] # "none"
        /\ run[r] \in {"new", "starting", "gate", "decide", "confirm", "enter",
                       "dispatch", "finish"} => outcome[r] = "none"

\* Every move of the table ends in a state of the machine, and the table leads
\* to Idle from Running and Aborting only (state_machine.go, transitionTable).
LEMMA TableTyped ==
    ASSUME NEW from \in State, NEW to, IsLegal(from, to)
    PROVE  to \in State
BY DEF IsLegal, TransitionTable, State

\* A transition, taken or ignored, leaves the machine in one of its states.
LEMMA TransitionTyped ==
    ASSUME state \in State, NEW to, NEW c, NEW a,
           Transition(to) \/ TransitionFails(to, c, a) \/ TryTransition(to, c, a)
    PROVE  /\ state' \in State
           /\ state' = state \/ state' = to
BY TableTyped DEF Transition, TransitionFails, TryTransition

\* Every step keeps the types (Supervisor's variables are the fields of
\* Orchestrator, StateMachine and MainLoop, and the program counters).
LEMMA TypeInductive == TypeOK /\ [Next]_vars => TypeOK'
<1> SUFFICES ASSUME TypeOK, [Next]_vars PROVE TypeOK'
    OBVIOUS
<1> USE DEF TypeOK
<1>1. CASE InitOrchestrator
    BY <1>1 DEF InitOrchestrator, runVars
<1>2. ASSUME NEW r \in Runs, RunStage4(r) \/ RunStep(r) \/ Cancel(r)
      PROVE TypeOK'
  <2>1. CASE RunStage4(r)
      BY <2>1 DEF RunStage4, Goto, orchVars, RunPC
  <2>2. CASE EnterInitializing(r)
      BY <2>2, TransitionTyped
      DEF EnterInitializing, Goto, Moves, MoveFails, RecordStopped, orchVars,
          RunPC, Outcome
  <2>3. CASE ResearchGate(r) \/ DecideDepthWidth(r) \/ ConfirmationCallback(r)
      BY <2>3
      DEF ResearchGate, DecideDepthWidth, ConfirmationCallback, Stage, Unwind,
          Goto, RecordStopped, orchVars, RunPC, Outcome
  <2>4. CASE EnterRunning(r)
      BY <2>4, TransitionTyped
      DEF EnterRunning, Goto, Moves, MoveFails, Unwind, RecordStopped, orchVars,
          RunPC, Outcome
  <2>5. CASE Dispatch(r)
      BY <2>5 DEF Dispatch, Goto, Unwind, RecordStopped, orchVars, RunPC, Outcome
  <2>6. CASE Finish(r)
      BY <2>6, TransitionTyped
      DEF Finish, Goto, Moves, MoveFails, Unwind, RecordStopped, orchVars,
          RunPC, Outcome
  <2>7. CASE UnwindAbort(r) \/ UnwindIdle(r)
      BY <2>7, TransitionTyped
      DEF UnwindAbort, UnwindIdle, TryMove, Goto, orchVars, RunPC
  <2>8. CASE Cancel(r)
      BY <2>8 DEF Cancel, runVars, orchVars
  <2> QED
      BY <1>2, <2>1, <2>2, <2>3, <2>4, <2>5, <2>6, <2>7, <2>8 DEF RunStep
<1>3. CASE Shutdown \/ ShutdownWait \/ ShutdownMark
    BY <1>3 DEF Shutdown, ShutdownWait, ShutdownMark, Stopping, StopPC, runVars
<1>4. CASE ForceAbort \/ ForceIdle
    BY <1>4, TransitionTyped
    DEF ForceAbort, ForceIdle, Stopping, StopPC, runVars
<1>5. CASE HandleRecord
  <2>1. deathStreak' \in 0..DeathThreshold
      BY <1>5
      DEF HandleRecord, WorkerDeath, SubstrateDriftHard, BudgetDegradationApplied,
          EmergencyTierActivated, OtherRecord, DeathThreshold
  <2>2. state' \in State
      BY <1>5, TransitionTyped
      DEF HandleRecord, WorkerDeath, SubstrateDriftHard, BudgetDegradationApplied,
          EmergencyTierActivated, OtherRecord, Try
  <2> QED
      BY <1>5, <2>1, <2>2 DEF HandleRecord, orchVars, runVars
<1>6. CASE UNCHANGED vars
    BY <1>6 DEF vars, runVars, orchVars
<1> QED
    BY <1>1, <1>2, <1>3, <1>4, <1>5, <1>6 DEF Next, ShutdownStep

\* The initial state has the declared types.
LEMMA TypeInit == Init => TypeOK
<1> SUFFICES ASSUME Init PROVE TypeOK
    OBVIOUS
<1> USE DEF Init
<1>1. state \in State /\ stopping \in StopPC /\ deathStreak \in 0..DeathThreshold
    BY DEF State, StopPC, DeathThreshold
<1>2. run \in [Runs -> RunPC] /\ outcome \in [Runs -> Outcome]
    BY DEF RunPC, Outcome
<1>3. cancelled \in SUBSET Runs
    OBVIOUS
<1> QED
    BY <1>1, <1>2, <1>3 DEF TypeOK

\* In every state the supervisor's fields hold what their Go types and the
\* transition table allow.
THEOREM TypeCorrect == Spec => []TypeOK
BY TypeInit, TypeInductive, PTL DEF Spec

-----------------------------------------------------------------------------

\* Every step keeps the machine occupied while a call is active.
LEMMA OccupiedInductive == TypeOK /\ Occupied /\ [Next]_vars => Occupied'
<1> SUFFICES ASSUME TypeOK, Occupied, [Next]_vars PROVE Occupied'
    OBVIOUS
<1> USE DEF TypeOK, Occupied, Active
<1>1. CASE InitOrchestrator \/ Shutdown \/ UNCHANGED vars
    BY <1>1 DEF InitOrchestrator, Shutdown, Stopping, runVars, orchVars, vars
<1>2. ASSUME NEW r \in Runs, RunStage4(r) \/ RunStep(r) \/ Cancel(r)
      PROVE Occupied'
  <2>1. CASE RunStage4(r)
      BY <2>1 DEF RunStage4, Goto, orchVars
  <2>2. CASE EnterInitializing(r)
      BY <2>2
      DEF EnterInitializing, Goto, Moves, MoveFails, Transition, TransitionFails,
          IsLegal, TransitionTable, State, orchVars
  <2>3. CASE ResearchGate(r) \/ DecideDepthWidth(r) \/ ConfirmationCallback(r)
      BY <2>3
      DEF ResearchGate, DecideDepthWidth, ConfirmationCallback, Stage, Unwind,
          Goto, orchVars
  <2>4. CASE EnterRunning(r)
      BY <2>4
      DEF EnterRunning, Goto, Moves, MoveFails, Transition, TransitionFails,
          Unwind, orchVars
  <2>5. CASE Dispatch(r)
      BY <2>5 DEF Dispatch, Goto, Unwind, orchVars
  <2>6. CASE Finish(r)
      BY <2>6
      DEF Finish, Goto, Moves, MoveFails, Transition, TransitionFails, Unwind,
          orchVars
  <2>7. CASE UnwindAbort(r) \/ UnwindIdle(r)
      BY <2>7
      DEF UnwindAbort, UnwindIdle, TryMove, TryTransition, Transition,
          TransitionFails, Goto, orchVars
  <2>8. CASE Cancel(r)
      BY <2>8 DEF Cancel, runVars, orchVars
  <2> QED
      BY <1>2, <2>1, <2>2, <2>3, <2>4, <2>5, <2>6, <2>7, <2>8 DEF RunStep
<1>3. CASE ShutdownStep
    BY <1>3
    DEF ShutdownStep, ShutdownWait, ForceAbort, ForceIdle, ShutdownMark, Stopping,
        TryTransition, Transition, TransitionFails, runVars
<1>4. CASE HandleRecord
  <2>1. state' = state \/ state' \in {"hard_paused", "degraded", "emergency"}
      BY <1>4
      DEF HandleRecord, WorkerDeath, SubstrateDriftHard, BudgetDegradationApplied,
          EmergencyTierActivated, OtherRecord, Try, TryTransition, Transition,
          TransitionFails
  <2> QED
      BY <1>4, <2>1 DEF HandleRecord, orchVars, runVars
<1> QED
    BY <1>1, <1>2, <1>3, <1>4 DEF Next

\* Two RunStage4 calls are never between Initializing and their return to Idle at
\* once, for any number of calls and whatever the main loop does to the machine,
\* until Shutdown forces it to Idle (orchestrator.go:267-271).
THEOREM OneBuildCorrect == Spec => []OneBuildAtATime
<1>1. Init => Occupied
    BY DEF Init, Occupied, Active
<1>2. Occupied => OneBuildAtATime
    BY DEF Occupied, OneBuildAtATime
<1> QED
    BY <1>1, <1>2, OccupiedInductive, TypeCorrect, PTL DEF Spec

-----------------------------------------------------------------------------

\* Every step keeps the stopped events honest.
LEMMA RecordedInductive == TypeOK /\ Recorded /\ [Next]_vars => Recorded'
<1> SUFFICES ASSUME TypeOK, Recorded, [Next]_vars PROVE Recorded'
    OBVIOUS
<1> USE DEF TypeOK, Recorded
<1>1. ASSUME UNCHANGED runVars PROVE Recorded'
    BY <1>1 DEF runVars
<1>2. ASSUME NEW r \in Runs, RunStage4(r) \/ RunStep(r) \/ Cancel(r)
      PROVE Recorded'
  <2> USE DEF Goto, RecordStopped, Unwind, Moves, MoveFails
  <2>1. CASE RunStage4(r)
      BY <2>1 DEF RunStage4
  <2>2. CASE EnterInitializing(r)
      BY <2>2 DEF EnterInitializing
  <2>3. CASE ResearchGate(r) \/ DecideDepthWidth(r) \/ ConfirmationCallback(r)
      BY <2>3 DEF ResearchGate, DecideDepthWidth, ConfirmationCallback, Stage
  <2>4. CASE EnterRunning(r)
      BY <2>4 DEF EnterRunning
  <2>5. CASE Dispatch(r)
      BY <2>5 DEF Dispatch
  <2>6. CASE Finish(r)
      BY <2>6 DEF Finish
  <2>7. CASE UnwindAbort(r) \/ UnwindIdle(r)
      BY <2>7 DEF UnwindAbort, UnwindIdle
  <2>8. CASE Cancel(r)
      BY <2>8, <1>1 DEF Cancel
  <2> QED
      BY <1>2, <2>1, <2>2, <2>3, <2>4, <2>5, <2>6, <2>7, <2>8 DEF RunStep
<1>3. CASE InitOrchestrator \/ Shutdown \/ ShutdownStep \/ HandleRecord
           \/ UNCHANGED vars
    BY <1>3, <1>1
    DEF InitOrchestrator, Shutdown, ShutdownStep, ShutdownWait, ForceAbort,
        ForceIdle, ShutdownMark, HandleRecord, vars, runVars
<1> QED
    BY <1>2, <1>3 DEF Next

\* The stopped event of a call says "success" only after its Dispatch returned without
\* error and the machine took all its transitions, a refused transition is reported as
\* one, and a call ends without a stopped event only when the append of that event failed
\* (orchestrator.go:346-388).
THEOREM OutcomeCorrect == Spec => []OutcomeHonest
<1>1. Init => Recorded
    BY DEF Init, Recorded
<1>2. Recorded => OutcomeHonest
    BY DEF Recorded, OutcomeHonest
<1> QED
    BY <1>1, <1>2, RecordedInductive, TypeCorrect, PTL DEF Spec

-----------------------------------------------------------------------------
(* Dispatcher: slices                                                      *)

\* Appending to a slice adds one worktree.
LEMMA PathsAppend ==
  ASSUME NEW s \in Seq(Worktrees), NEW w \in Worktrees
  PROVE  Paths(Append(s, w)) = Paths(s) \cup {w}
<1>1. /\ DOMAIN Append(s, w) = 1..(Len(s) + 1) /\ DOMAIN s = 1..Len(s)
      /\ Len(s) \in Nat
  OBVIOUS
<1>2. \A i \in 1..(Len(s) + 1) :
        Append(s, w)[i] = IF i = Len(s) + 1 THEN w ELSE s[i]
  OBVIOUS
<1> QED BY <1>1, <1>2 DEF Paths

\* What is left of a slice after its head: everything but, perhaps, the head.
LEMMA PathsTail ==
  ASSUME NEW s \in Seq(Worktrees), s # <<>>
  PROVE  /\ Head(s) \in Worktrees
         /\ Paths(Tail(s)) \subseteq Paths(s)
         /\ Paths(s) \subseteq Paths(Tail(s)) \cup {Head(s)}
         /\ Len(s) = 1 => Paths(s) = {Head(s)}
<1>1. /\ Len(s) \in Nat /\ Len(s) # 0 /\ DOMAIN s = 1..Len(s)
      /\ DOMAIN Tail(s) = 1..(Len(s) - 1) /\ Head(s) = s[1]
      /\ s \in [1..Len(s) -> Worktrees]
  OBVIOUS
<1>2. \A i \in 1..(Len(s) - 1) : Tail(s)[i] = s[i + 1]
  OBVIOUS
<1>3. ASSUME NEW i \in 1..Len(s), i # 1
      PROVE  i - 1 \in 1..(Len(s) - 1) /\ s[i] = Tail(s)[i - 1]
  <2>1. i - 1 \in 1..(Len(s) - 1) /\ (i - 1) + 1 = i
    BY <1>1, <1>3
  <2> QED BY <1>2, <2>1
<1>4. \A i \in 1..(Len(s) - 1) : i + 1 \in 1..Len(s)
  BY <1>1
<1>5. Head(s) \in Worktrees
  BY <1>1
<1>6. Paths(Tail(s)) \subseteq Paths(s)
  BY <1>1, <1>2, <1>4 DEF Paths
<1>7. Paths(s) \subseteq Paths(Tail(s)) \cup {Head(s)}
  BY <1>1, <1>3 DEF Paths
<1>8. Len(s) = 1 => Paths(s) = {Head(s)}
  BY <1>1 DEF Paths
<1> QED BY <1>5, <1>6, <1>7, <1>8

\* The worktrees of a slice are worktrees.
LEMMA PathsType ==
  ASSUME NEW s \in Seq(Worktrees)
  PROVE  Paths(s) \subseteq Worktrees
BY DEF Paths

-----------------------------------------------------------------------------
(* Types, and what each phase of a call says of its slice and outcome       *)

Started == {"leased", "tracked", "draining", "aborting", "unregister"}
Undecided == {"idle", "leasing", "leased", "tracked", "draining", "aborting"}

\* From the last Lease to the first Release the slice has Width entries; a call
\* that releases has something to release; the outcome is set once.
Phases ==
  \A d \in Calls : /\ at[d] \in Started => Len(got[d]) = Width
                   /\ at[d] = "releasing" => got[d] # <<>>
                   /\ at[d] \in Undecided => dispatchOutcome[d] = "none"

CallStep(d) ==
  DispatchCall(d) \/ LeaseOne(d) \/ LeaseFails(d) \/ Step(d) \/ DispatchCancelled(d)
OtherStep == DispatchShutdown \/ ShutdownRelease \/ ShutdownAbort \/ WorkerEnds

\* Every step of a call keeps the types.
LEMMA CallType ==
  ASSUME DispatchTypeOK, Phases, NEW d \in Calls, CallStep(d)
  PROVE  DispatchTypeOK'
<1> USE DEF DispatchTypeOK, DispatchGoto, Ends, At, DispatchOutcome, stopVars, workVars
<1>1. CASE DispatchCall(d)
  BY <1>1 DEF DispatchCall
<1>2. CASE LeaseOne(d)
  <2>1. PICK w \in Worktrees : /\ got' = [got EXCEPT ![d] = Append(@, w)]
                               /\ out' = out \cup {w}
    BY <1>2 DEF LeaseOne, Pool!Grant
  <2>2. Append(got[d], w) \in Seq(Worktrees)
    OBVIOUS
  <2>3. got' \in [Calls -> Seq(Worktrees)] /\ out' \in SUBSET Worktrees
    BY <2>1, <2>2
  <2> QED BY <1>2, <2>3 DEF LeaseOne
<1>3. CASE LeaseFails(d)
  BY <1>3 DEF LeaseFails
<1>4. CASE Track(d)
  BY <1>4, PathsType DEF Track
<1>5. CASE SpawnWorkers(d)
  <2>1. \A i \in DOMAIN got[d] : i \in Nat /\ got[d][i] \in Worktrees
    OBVIOUS
  <2>2. workers' \in SUBSET (Calls \X Nat \X Worktrees)
    BY <1>5, <2>1 DEF SpawnWorkers
  <2> QED BY <1>5, <2>2 DEF SpawnWorkers
<1>6. CASE Receive(d)
  <2>1. sent' \in [Calls -> Nat] /\ res' \in [Calls -> Nat]
    BY <1>6 DEF Receive
  <2> QED BY <1>6, <2>1 DEF Receive
<1>7. CASE Drained(d)
  BY <1>7 DEF Drained
<1>8. CASE Abort(d)
  BY <1>8 DEF Abort
<1>9. CASE Deadline(d)
  BY <1>9 DEF Deadline
<1>10. CASE Unregister(d)
  BY <1>10 DEF Unregister
<1>11. CASE ReleaseOne(d)
  <2>1. out' \in SUBSET Worktrees
    BY <1>11 DEF ReleaseOne, Release, Pool!Return, Pool!Reap
  <2>2. Tail(got[d]) \in Seq(Worktrees)
    BY <1>11 DEF ReleaseOne, Phases
  <2>3. got' \in [Calls -> Seq(Worktrees)]
    BY <1>11, <2>2 DEF ReleaseOne
  <2> QED BY <1>11, <2>1, <2>3 DEF ReleaseOne
<1>12. CASE DispatchCancelled(d)
  BY <1>12 DEF DispatchCancelled
<1> QED
  BY <1>1, <1>2, <1>3, <1>4, <1>5, <1>6, <1>7, <1>8, <1>9, <1>10, <1>11, <1>12
     DEF CallStep, Step

\* So do Shutdown and the workers.
LEMMA OtherType ==
  ASSUME DispatchTypeOK, OtherStep
  PROVE  DispatchTypeOK'
<1> USE DEF DispatchTypeOK, stopVars, workVars
<1>1. CASE DispatchShutdown
  BY <1>1 DEF DispatchShutdown
<1>2. CASE ShutdownRelease
  BY <1>2 DEF ShutdownRelease, Pool!Reap
<1>3. CASE ShutdownAbort
  BY <1>3 DEF ShutdownAbort
<1>4. CASE WorkerEnds
  <2>1. PICK p \in workers : /\ workers' = workers \ {p}
                             /\ sent' = [sent EXCEPT ![p[1]] = @ + 1]
    BY <1>4 DEF WorkerEnds
  <2>2. sent' \in [Calls -> Nat]
    BY <2>1
  <2> QED BY <1>4, <2>1, <2>2 DEF WorkerEnds
<1> QED BY <1>1, <1>2, <1>3, <1>4 DEF OtherStep

\* Every step of a call keeps what its phase says.
LEMMA CallPhases ==
  ASSUME DispatchTypeOK, Phases, NEW d \in Calls, CallStep(d)
  PROVE  Phases'
<1> USE WidthAssumption DEF DispatchTypeOK, Phases, DispatchGoto, Ends, Started, Undecided
<1>1. CASE DispatchCall(d)
  BY <1>1 DEF DispatchCall
<1>2. CASE LeaseOne(d)
  <2>1. PICK w \in Worktrees :
          /\ got' = [got EXCEPT ![d] = Append(@, w)]
          /\ DispatchGoto(d, IF Len(got[d]) + 1 = Width THEN "leased" ELSE "leasing")
    BY <1>2 DEF LeaseOne
  <2>2. Len(Append(got[d], w)) = Len(got[d]) + 1
    OBVIOUS
  <2> QED BY <1>2, <2>1, <2>2 DEF LeaseOne
<1>3. CASE LeaseFails(d)
  BY <1>3 DEF LeaseFails
<1>4. CASE Track(d)
  BY <1>4 DEF Track
<1>5. CASE SpawnWorkers(d)
  BY <1>5 DEF SpawnWorkers
<1>6. CASE Receive(d)
  BY <1>6 DEF Receive
<1>7. CASE Drained(d)
  BY <1>7 DEF Drained
<1>8. CASE Abort(d)
  BY <1>8 DEF Abort
<1>9. CASE Deadline(d)
  BY <1>9 DEF Deadline
<1>10. CASE Unregister(d)
  <2>1. got[d] # <<>>
    BY <1>10 DEF Unregister
  <2> QED BY <1>10, <2>1 DEF Unregister
<1>11. CASE ReleaseOne(d)
  <2>1. got[d] \in Seq(Worktrees) /\ got[d] # <<>>
    BY <1>11 DEF ReleaseOne
  <2>2. Len(Tail(got[d])) = Len(got[d]) - 1 /\ Len(got[d]) \in Nat
    BY <2>1
  <2>3. ASSUME Len(got[d]) # 1 PROVE Tail(got[d]) # <<>>
    <3>1. Len(<<>>) = 0
      OBVIOUS
    <3>2. Len(Tail(got[d])) # 0
      BY <2>2, <2>3
    <3> QED BY <3>1, <3>2
  <2> QED BY <1>11, <2>3 DEF ReleaseOne
<1>12. CASE DispatchCancelled(d)
  BY <1>12 DEF DispatchCancelled
<1> QED
  BY <1>1, <1>2, <1>3, <1>4, <1>5, <1>6, <1>7, <1>8, <1>9, <1>10, <1>11, <1>12
     DEF CallStep, Step

\* Types and phases are inductive together.
LEMMA TypesInductive ==
  /\ DispatchInit => DispatchTypeOK /\ Phases
  /\ DispatchTypeOK /\ Phases /\ [DispatchNext]_dispatchVars => DispatchTypeOK' /\ Phases'
<1>1. ASSUME DispatchInit PROVE DispatchTypeOK /\ Phases
  <2>1. <<>> \in Seq(Worktrees)
    OBVIOUS
  <2> QED BY <1>1, <2>1 DEF DispatchInit, DispatchTypeOK, Phases, At, DispatchOutcome, Started
<1>2. ASSUME DispatchTypeOK, Phases, [DispatchNext]_dispatchVars PROVE DispatchTypeOK' /\ Phases'
  <2>1. CASE UNCHANGED dispatchVars
    BY <1>2, <2>1 DEF dispatchVars, stopVars, workVars, DispatchTypeOK, Phases
  <2>2. CASE OtherStep
    <3>1. UNCHANGED <<at, got, dispatchOutcome>>
      BY <2>2 DEF OtherStep, DispatchShutdown, ShutdownRelease, ShutdownAbort, WorkerEnds
    <3> QED BY <1>2, <2>2, <3>1, OtherType DEF Phases
  <2> QED BY <1>2, <2>1, <2>2, CallType, CallPhases DEF DispatchNext, CallStep, OtherStep
<1> QED BY <1>1, <1>2

\* The dispatcher's variables keep their types in every behaviour.
THEOREM DispatchTypeCorrect == DispatchSpec => []DispatchTypeOK
BY TypesInductive, PTL DEF DispatchSpec

-----------------------------------------------------------------------------
(* No lease is forgotten.                                                   *)

\* A step that keeps the slices and ends no call with a slice, and that adds no
\* lease.
LEMMA LeasesKept ==
  ASSUME EveryLeaseReturns, UNCHANGED got, out' \subseteq out,
         \A d \in Calls : at[d] \notin {"idle", "returned"} =>
           at'[d] \notin {"idle", "returned"} \/ got[d] = <<>>
  PROVE  EveryLeaseReturns'
<1>1. Paths(<<>>) = {}
  BY DEF Paths
<1> QED BY <1>1 DEF EveryLeaseReturns

\* Every step of a call keeps every lease in the slice of a call.
LEMMA CallLeases ==
  ASSUME DispatchTypeOK, Phases, EveryLeaseReturns, NEW d \in Calls, CallStep(d)
  PROVE  EveryLeaseReturns'
<1>1. CASE LeaseOne(d)
  <2>1. PICK w \in Worktrees :
          /\ got' = [got EXCEPT ![d] = Append(@, w)]
          /\ out' = out \cup {w}
          /\ DispatchGoto(d, IF Len(got[d]) + 1 = Width THEN "leased" ELSE "leasing")
    BY <1>1 DEF LeaseOne, Pool!Grant
  <2>2. Paths(got'[d]) = Paths(got[d]) \cup {w}
    BY <2>1, PathsAppend DEF DispatchTypeOK
  <2>3. at[d] = "leasing" /\ at'[d] \in {"leased", "leasing"}
    BY <1>1, <2>1 DEF LeaseOne, DispatchGoto, DispatchTypeOK
  <2>4. \A e \in Calls : e # d => got'[e] = got[e] /\ at'[e] = at[e]
    BY <2>1 DEF DispatchGoto, DispatchTypeOK
  <2> QED BY <2>1, <2>2, <2>3, <2>4 DEF EveryLeaseReturns
<1>2. CASE ReleaseOne(d)
  <2> DEFINE w == Head(got[d])
  <2>1. got[d] \in Seq(Worktrees) /\ got[d] # <<>>
    BY <1>2 DEF ReleaseOne, Phases, DispatchTypeOK
  <2>2. out' = out \ {w}
    BY <1>2 DEF ReleaseOne, Release, Pool!Return, Pool!Reap
  <2>3. got'[d] = Tail(got[d]) /\ \A e \in Calls : e # d => got'[e] = got[e]
    BY <1>2 DEF ReleaseOne, DispatchTypeOK
  <2>4. /\ at'[d] = IF Len(got[d]) = 1 THEN "returned" ELSE "releasing"
        /\ \A e \in Calls : e # d => at'[e] = at[e]
    BY <1>2 DEF ReleaseOne, DispatchGoto, DispatchTypeOK
  <2>5. \A v \in Paths(got[d]) : v = w \/ (v \in Paths(got'[d]) /\ Len(got[d]) # 1)
    BY <2>1, <2>3, PathsTail
  <2> QED BY <2>2, <2>3, <2>4, <2>5 DEF EveryLeaseReturns
<1>3. CASE DispatchCall(d) \/ LeaseFails(d) \/ DispatchCancelled(d)
  BY <1>3, LeasesKept DEF DispatchCall, LeaseFails, DispatchCancelled, DispatchGoto, Ends, DispatchTypeOK
<1>4. CASE Track(d) \/ SpawnWorkers(d) \/ Receive(d) \/ Drained(d)
  BY <1>4, LeasesKept
     DEF Track, SpawnWorkers, Receive, Drained, DispatchGoto, Ends, DispatchTypeOK
<1>5. CASE Abort(d) \/ Deadline(d) \/ Unregister(d)
  BY <1>5, LeasesKept DEF Abort, Deadline, Unregister, DispatchGoto, Ends, DispatchTypeOK
<1> QED
  BY <1>1, <1>2, <1>3, <1>4, <1>5 DEF CallStep, Step

\* For any calls, width and pool: a worktree on lease is always in the slice of a
\* call that has yet to release it.
THEOREM LeasesCorrect == DispatchSpec => []EveryLeaseReturns
<1>1. DispatchInit => EveryLeaseReturns
  BY DEF DispatchInit, EveryLeaseReturns
<1>2. ASSUME DispatchTypeOK, Phases, EveryLeaseReturns, [DispatchNext]_dispatchVars
      PROVE  EveryLeaseReturns'
  <2>1. CASE UNCHANGED dispatchVars
    BY <1>2, <2>1 DEF dispatchVars, EveryLeaseReturns
  <2>2. CASE OtherStep
    <3>1. UNCHANGED <<got, at>> /\ out' \subseteq out
      BY <2>2 DEF OtherStep, DispatchShutdown, ShutdownRelease, ShutdownAbort, WorkerEnds,
                  Pool!Reap
    <3> QED BY <1>2, <3>1, LeasesKept
  <2> QED BY <1>2, <2>1, <2>2, CallLeases DEF DispatchNext, CallStep, OtherStep
<1> QED
  BY <1>1, <1>2, TypesInductive, PTL DEF DispatchSpec

-----------------------------------------------------------------------------
(* Isolation.                                                               *)

\* Neither Shutdown nor a drain deadline has taken worktrees from workers.
Calm == stop = "off" /\ \A d \in Calls : dispatchOutcome[d] # "deadline"

\* The entries of all slices are on lease and differ from one another.
SlicesApart ==
  \A d \in Calls : \A i \in DOMAIN got[d] :
    /\ got[d][i] \in out
    /\ \A e \in Calls : \A j \in DOMAIN got[e] :
         got[d][i] = got[e][j] => d = e /\ i = j

\* A running worker is at home in its entry of the slice of a draining call.
WorkersHome ==
  \A p \in workers : /\ at[p[1]] \in {"draining", "aborting"}
                     /\ p[2] \in DOMAIN got[p[1]]
                     /\ p[3] = got[p[1]][p[2]]

IsolationInv == Calm => SlicesApart /\ WorkersHome

\* Once disturbed, the dispatcher stays disturbed.
LEMMA CalmBefore ==
  ASSUME DispatchTypeOK, Phases, [DispatchNext]_dispatchVars, Calm'
  PROVE  Calm
<1>1. CASE UNCHANGED <<stop, dispatchOutcome>>
  BY <1>1 DEF Calm
<1>2. ASSUME NEW d \in Calls, NEW r, dispatchOutcome' = [dispatchOutcome EXCEPT ![d] = r],
             at[d] \in Undecided, UNCHANGED stop
      PROVE  Calm
  BY <1>2 DEF Calm, DispatchTypeOK, Phases
<1>3. ASSUME NEW d \in Calls, CallStep(d) PROVE Calm
  BY <1>1, <1>2, <1>3
     DEF CallStep, Step, DispatchCall, LeaseOne, LeaseFails, Track, SpawnWorkers,
         Receive, Drained, Abort, Deadline, Unregister, ReleaseOne, DispatchCancelled, Ends,
         DispatchGoto, Undecided, stopVars
<1>4. CASE OtherStep
  BY <1>1, <1>4
     DEF OtherStep, DispatchShutdown, ShutdownRelease, ShutdownAbort, WorkerEnds, Calm,
         stopVars
<1> QED BY <1>1, <1>3, <1>4 DEF DispatchNext, CallStep, OtherStep, dispatchVars, stopVars

\* A step that keeps slices and leases, and moves only calls without workers or
\* between the two draining phases, keeps slices apart and workers at home.
LEMMA IsolationKept ==
  ASSUME SlicesApart, WorkersHome, UNCHANGED <<got, out>>,
         workers' \subseteq workers,
         \A p \in workers' : at'[p[1]] \in {"draining", "aborting"}
  PROVE  SlicesApart' /\ WorkersHome'
BY DEF SlicesApart, WorkersHome

\* The index of an entry in the rest of a slice.
LEMMA TailEntry ==
  ASSUME NEW s \in Seq(Worktrees), s # <<>>, NEW i \in DOMAIN Tail(s)
  PROVE  /\ i + 1 \in DOMAIN s /\ i + 1 # 1 /\ 1 \in DOMAIN s
         /\ Tail(s)[i] = s[i + 1] /\ Head(s) = s[1]
<1>1. Len(s) \in Nat /\ Len(s) # 0 /\ DOMAIN s = 1..Len(s)
      /\ DOMAIN Tail(s) = 1..(Len(s) - 1) /\ Head(s) = s[1]
  OBVIOUS
<1>2. Tail(s)[i] = s[i + 1]
  BY <1>1
<1> QED BY <1>1, <1>2

\* A Lease appends a worktree that was not on lease, hence in no slice.
LEMMA LeaseIsolated ==
  ASSUME DispatchTypeOK, SlicesApart, WorkersHome, NEW d \in Calls, LeaseOne(d)
  PROVE  SlicesApart' /\ WorkersHome'
<1>1. PICK w \in Worktrees :
        /\ got' = [got EXCEPT ![d] = Append(@, w)]
        /\ w \notin out /\ out' = out \cup {w}
        /\ DispatchGoto(d, IF Len(got[d]) + 1 = Width THEN "leased" ELSE "leasing")
  BY DEF LeaseOne, Pool!Grant
<1> DEFINE n == Len(got[d])
<1>2. /\ n \in Nat /\ DOMAIN got[d] = 1..n
      /\ got'[d] = Append(got[d], w) /\ DOMAIN got'[d] = 1..(n + 1)
      /\ \A e \in Calls : e # d => got'[e] = got[e]
  BY <1>1 DEF DispatchTypeOK
<1>3. /\ \A i \in 1..n : i \in 1..(n + 1) /\ i # n + 1 /\ got'[d][i] = got[d][i]
      /\ \A i \in 1..(n + 1) : i \in 1..n \/ i = n + 1
      /\ got'[d][n + 1] = w
  BY <1>1, <1>2 DEF DispatchTypeOK
<1>4. \A p \in workers : p[1] # d
  BY DEF WorkersHome, LeaseOne
<1>5. \A e \in Calls : e # d => at'[e] = at[e]
  BY <1>1 DEF DispatchGoto, DispatchTypeOK
<1>6. WorkersHome'
  BY <1>2, <1>4, <1>5 DEF WorkersHome, LeaseOne, workVars, DispatchTypeOK
<1>7. ASSUME NEW e \in Calls, NEW j \in DOMAIN got'[e]
      PROVE  \/ j \in DOMAIN got[e] /\ got'[e][j] = got[e][j]
             \/ e = d /\ j = n + 1 /\ got'[e][j] = w
  BY <1>2, <1>3
<1>8. SlicesApart'
  BY <1>1, <1>7 DEF SlicesApart
<1> QED BY <1>6, <1>8

\* A Release takes the head out of one slice and off lease, and it is in no other.
LEMMA ReleaseIsolated ==
  ASSUME DispatchTypeOK, Phases, SlicesApart, WorkersHome, NEW d \in Calls, ReleaseOne(d)
  PROVE  SlicesApart' /\ WorkersHome'
<1>1. got[d] \in Seq(Worktrees) /\ got[d] # <<>>
  BY DEF ReleaseOne, Phases, DispatchTypeOK
<1>2. /\ got'[d] = Tail(got[d]) /\ \A e \in Calls : e # d => got'[e] = got[e]
      /\ out' = out \ {Head(got[d])}
      /\ \A e \in Calls : e # d => at'[e] = at[e]
  BY DEF ReleaseOne, Release, Pool!Return, Pool!Reap, DispatchTypeOK, DispatchGoto
<1>3. \A p \in workers : p[1] # d
  BY DEF WorkersHome, ReleaseOne
<1>4. WorkersHome'
  BY <1>2, <1>3 DEF WorkersHome, ReleaseOne, workVars, DispatchTypeOK
<1>5. ASSUME NEW j \in DOMAIN got'[d]
      PROVE  /\ j \in Nat /\ j + 1 \in DOMAIN got[d]
             /\ got'[d][j] = got[d][j + 1] /\ got[d][j + 1] # Head(got[d])
  <2>1. j \in DOMAIN Tail(got[d])
    BY <1>2, <1>5
  <2>2. /\ j + 1 \in DOMAIN got[d] /\ j + 1 # 1 /\ 1 \in DOMAIN got[d]
        /\ Tail(got[d])[j] = got[d][j + 1] /\ Head(got[d]) = got[d][1]
    BY <1>1, <2>1, TailEntry
  <2>3. got[d][j + 1] # got[d][1]
    BY <2>2 DEF SlicesApart
  <2>4. j \in Nat
    <3>1. DOMAIN Tail(got[d]) = 1..(Len(got[d]) - 1) /\ Len(got[d]) \in Nat
      BY <1>1
    <3> QED BY <2>1, <3>1
  <2> QED BY <1>2, <2>2, <2>3, <2>4
<1>6. ASSUME NEW e \in Calls, e # d, NEW j \in DOMAIN got'[e]
      PROVE  /\ j \in DOMAIN got[e]
             /\ got'[e][j] = got[e][j] /\ got[e][j] # Head(got[d])
  <2>1. 1 \in DOMAIN got[d] /\ Head(got[d]) = got[d][1]
    BY <1>1
  <2> QED BY <1>2, <1>6, <2>1 DEF SlicesApart
<1>7. SlicesApart'
  <2>1. ASSUME NEW e \in Calls, NEW j \in DOMAIN got'[e] PROVE got'[e][j] \in out'
    <3>1. CASE e = d
      <4>1. j \in DOMAIN got'[d]
        BY <2>1, <3>1
      <4>2. j + 1 \in DOMAIN got[d] /\ got'[d][j] = got[d][j + 1] /\ got[d][j + 1] # Head(got[d])
        BY <1>5, <4>1
      <4>3. got[d][j + 1] \in out
        BY <4>2 DEF SlicesApart
      <4> QED BY <1>2, <3>1, <4>2, <4>3
    <3>2. CASE e # d
      <4>1. j \in DOMAIN got[e] /\ got'[e][j] = got[e][j] /\ got[e][j] # Head(got[d])
        BY <1>6, <2>1, <3>2
      <4>2. got[e][j] \in out
        BY <4>1 DEF SlicesApart
      <4> QED BY <1>2, <4>1, <4>2
    <3> QED BY <3>1, <3>2
  <2>2. ASSUME NEW e \in Calls, NEW j \in DOMAIN got'[e],
               NEW f \in Calls, NEW k \in DOMAIN got'[f],
               got'[e][j] = got'[f][k]
        PROVE  e = f /\ j = k
    <3>1. CASE e = d /\ f = d
      <4>1. j + 1 = k + 1
        BY <1>5, <2>2, <3>1 DEF SlicesApart
      <4> QED BY <1>5, <2>2, <3>1, <4>1
    <3>2. CASE e = d /\ f # d
      BY <1>5, <1>6, <2>2, <3>2 DEF SlicesApart
    <3>3. CASE e # d /\ f = d
      BY <1>5, <1>6, <2>2, <3>3 DEF SlicesApart
    <3>4. CASE e # d /\ f # d
      BY <1>6, <2>2, <3>4 DEF SlicesApart
    <3> QED BY <3>1, <3>2, <3>3, <3>4
  <2> QED BY <2>1, <2>2 DEF SlicesApart
<1> QED BY <1>4, <1>7

\* New workers start in the entries of their call's slice.
LEMMA SpawnIsolated ==
  ASSUME DispatchTypeOK, SlicesApart, WorkersHome, NEW d \in Calls, SpawnWorkers(d)
  PROVE  SlicesApart' /\ WorkersHome'
<1>1. \A p \in workers : p[1] # d /\ p[1] \in Calls
  BY DEF WorkersHome, SpawnWorkers, DispatchTypeOK
<1>2. \A e \in Calls : e # d => at'[e] = at[e]
  BY DEF SpawnWorkers, DispatchGoto, Ends, DispatchTypeOK
<1>3. CASE UNCHANGED workers
  BY <1>1, <1>2, <1>3, IsolationKept DEF SpawnWorkers, WorkersHome
<1>4. CASE workers' = workers \cup {<<d, i, got[d][i]>> : i \in DOMAIN got[d]}
           /\ DispatchGoto(d, "draining")
  <2>1. UNCHANGED <<got, out>> /\ at'[d] = "draining"
    BY <1>4 DEF SpawnWorkers, DispatchGoto, DispatchTypeOK
  <2>2. ASSUME NEW p \in workers'
        PROVE  /\ at'[p[1]] \in {"draining", "aborting"}
               /\ p[2] \in DOMAIN got[p[1]]
               /\ p[3] = got[p[1]][p[2]]
    <3>1. CASE p \in workers
      BY <1>1, <1>2, <3>1 DEF WorkersHome
    <3>2. ASSUME NEW i \in DOMAIN got[d], p = <<d, i, got[d][i]>>
          PROVE  /\ at'[p[1]] \in {"draining", "aborting"}
                 /\ p[2] \in DOMAIN got[p[1]]
                 /\ p[3] = got[p[1]][p[2]]
      BY <2>1, <3>2
    <3> QED BY <1>4, <3>1, <3>2
  <2> QED BY <2>1, <2>2 DEF SlicesApart, WorkersHome
<1> QED BY <1>3, <1>4 DEF SpawnWorkers

\* Every step that leaves the dispatcher calm keeps workers isolated.
LEMMA IsolationStep ==
  ASSUME DispatchTypeOK, Phases, IsolationInv, [DispatchNext]_dispatchVars
  PROVE  IsolationInv'
<1> SUFFICES ASSUME Calm' PROVE SlicesApart' /\ WorkersHome'
  BY DEF IsolationInv
<1>1. Calm /\ SlicesApart /\ WorkersHome
  BY CalmBefore DEF IsolationInv
<1>2. CASE UNCHANGED dispatchVars
  BY <1>1, <1>2, IsolationKept DEF dispatchVars, workVars, WorkersHome
<1>3. CASE OtherStep
  <2>1. CASE DispatchShutdown
    BY <2>1 DEF DispatchShutdown, Calm
  <2>2. CASE ShutdownRelease \/ ShutdownAbort
    BY <1>1, <2>2 DEF ShutdownRelease, ShutdownAbort, Calm
  <2>3. CASE WorkerEnds
    BY <1>1, <2>3, IsolationKept DEF WorkerEnds, WorkersHome
  <2> QED BY <1>3, <2>1, <2>2, <2>3 DEF OtherStep
<1>4. ASSUME NEW d \in Calls, CallStep(d) PROVE SlicesApart' /\ WorkersHome'
  <2>1. ASSUME UNCHANGED <<got, out, workers>>, NEW label, DispatchGoto(d, label),
               \/ label \in {"draining", "aborting"}
               \/ \A p \in workers : p[1] # d
        PROVE  SlicesApart' /\ WorkersHome'
    BY <1>1, <2>1, IsolationKept DEF WorkersHome, DispatchGoto, DispatchTypeOK
  <2>2. CASE DispatchCall(d) \/ LeaseFails(d) \/ Track(d) \/ Unregister(d)
    <3>1. \A p \in workers : p[1] # d
      BY <1>1, <2>2 DEF WorkersHome, DispatchCall, LeaseFails, Track, Unregister
    <3> QED BY <2>1, <2>2, <3>1
            DEF DispatchCall, LeaseFails, Track, Unregister, Ends, workVars
  <2>3. CASE Receive(d) \/ DispatchCancelled(d)
    BY <1>1, <2>3, IsolationKept DEF Receive, DispatchCancelled, WorkersHome, workVars
  <2>4. CASE Drained(d)
    BY <2>1, <2>4 DEF Drained, ChannelClosed, Ends, workVars
  <2>5. CASE Abort(d)
    BY <2>1, <2>5 DEF Abort, workVars
  <2>6. CASE Deadline(d)
    BY <2>6 DEF Deadline, Ends, Calm, DispatchTypeOK
  <2> QED BY <1>1, <1>4, <2>2, <2>3, <2>4, <2>5, <2>6, LeaseIsolated,
             ReleaseIsolated, SpawnIsolated DEF CallStep, Step
<1> QED BY <1>2, <1>3, <1>4 DEF DispatchNext, CallStep, OtherStep

\* For any calls, width and pool: until Shutdown or a drain deadline, every worker
\* runs in a worktree of its own that is on lease to its call.
THEOREM IsolationCorrect == DispatchSpec => []WorkersIsolated
<1>1. DispatchInit => IsolationInv
  BY DEF DispatchInit, IsolationInv, SlicesApart, WorkersHome
<1>2. ASSUME DispatchTypeOK, IsolationInv PROVE WorkersIsolated
  <2> SUFFICES ASSUME Calm, NEW p \in workers
               PROVE  /\ p[3] \in out /\ p[3] \in Paths(got[p[1]])
                      /\ \A q \in workers : q[3] = p[3] => q = p
    BY DEF WorkersIsolated, Calm
  <2>1. SlicesApart /\ WorkersHome
    BY <1>2 DEF IsolationInv
  <2>2. p \in Calls \X Nat \X Worktrees
    BY <1>2 DEF DispatchTypeOK
  <2>3. p[3] \in out /\ p[3] \in Paths(got[p[1]])
    BY <2>1, <2>2 DEF SlicesApart, WorkersHome, Paths
  <2>4. ASSUME NEW q \in workers, q[3] = p[3] PROVE q = p
    <3>1. q \in Calls \X Nat \X Worktrees
      BY <1>2 DEF DispatchTypeOK
    <3>2. q[1] = p[1] /\ q[2] = p[2]
      BY <2>1, <2>2, <2>4, <3>1 DEF SlicesApart, WorkersHome
    <3> QED BY <2>2, <2>4, <3>1, <3>2
  <2> QED BY <2>3, <2>4
<1> QED
  BY <1>1, <1>2, IsolationStep, TypesInductive, PTL DEF DispatchSpec

-----------------------------------------------------------------------------
(* Every result is counted.                                                 *)

WorkersOf(d) == {p \in workers : p[1] = d}

\* Until its workers are spawned a call has counted nothing; from then on a result is
\* counted, in the channel, or still to come from a running worker.
Counts ==
  \A d \in Calls :
    /\ at[d] \in {"idle", "leasing", "leased", "tracked"} =>
         res[d] = 0 /\ sent[d] = 0 /\ WorkersOf(d) = {}
    /\ at[d] \in {"draining", "aborting"} =>
         /\ IsFiniteSet(WorkersOf(d))
         /\ res[d] + sent[d] + Cardinality(WorkersOf(d)) = Width
    /\ dispatchOutcome[d] = "ok" => res[d] = Width

\* A slice has as many workers as entries.
LEMMA WorkersOfSlice ==
  ASSUME NEW d, NEW s \in Seq(Worktrees), Len(s) = Width
  PROVE  LET W == {<<d, i, s[i]>> : i \in DOMAIN s}
         IN IsFiniteSet(W) /\ Cardinality(W) = Width
<1> DEFINE W == {<<d, i, s[i]>> : i \in DOMAIN s}
           f == [i \in 1..Width |-> <<d, i, s[i]>>]
<1>1. DOMAIN s = 1..Width /\ Width \in Nat /\ Width >= 1
  BY WidthAssumption
<1>2. f \in [1..Width -> W] /\ \A i \in 1..Width : f[i] = <<d, i, s[i]>>
  BY <1>1
<1>3. \A i, j \in 1..Width : f[i] = f[j] => i = j
  <2> SUFFICES ASSUME NEW i \in 1..Width, NEW j \in 1..Width, f[i] = f[j] PROVE i = j
    OBVIOUS
  <2>1. <<d, i, s[i]>>[2] = <<d, j, s[j]>>[2]
    BY <1>2
  <2> QED BY <2>1
<1>4. \A w \in W : \E i \in 1..Width : f[i] = w
  BY <1>1, <1>2
<1>5. f \in Surjection(1..Width, W) /\ f \in Injection(1..Width, W)
  BY <1>2, <1>3, <1>4 DEF Surjection, Injection, IsInjective
<1>6. IsFiniteSet(1..Width) /\ Cardinality(1..Width) = Width
  BY <1>1, FS_Interval
<1> QED BY <1>5, <1>6, FS_Surjection

\* A step that touches only call d.
LEMMA CountsKept ==
  ASSUME DispatchTypeOK, Counts, NEW d \in Calls,
         \A e \in Calls : e # d => /\ at'[e] = at[e] /\ res'[e] = res[e] /\ sent'[e] = sent[e]
                                   /\ WorkersOf(e)' = WorkersOf(e)
                                   /\ dispatchOutcome'[e] = dispatchOutcome[e],
         at'[d] \in {"idle", "leasing", "leased", "tracked"} =>
             res'[d] = 0 /\ sent'[d] = 0 /\ WorkersOf(d)' = {},
         at'[d] \in {"draining", "aborting"} =>
             /\ IsFiniteSet(WorkersOf(d)')
             /\ res'[d] + sent'[d] + Cardinality(WorkersOf(d)') = Width,
         dispatchOutcome'[d] = "ok" => res'[d] = Width
  PROVE  Counts'
<1>1. ASSUME NEW e \in Calls
      PROVE  /\ at'[e] \in {"idle", "leasing", "leased", "tracked"} =>
                    res'[e] = 0 /\ sent'[e] = 0 /\ WorkersOf(e)' = {}
             /\ at'[e] \in {"draining", "aborting"} =>
                    /\ IsFiniteSet(WorkersOf(e)')
                    /\ res'[e] + sent'[e] + Cardinality(WorkersOf(e)') = Width
             /\ dispatchOutcome'[e] = "ok" => res'[e] = Width
  <2>1. CASE e = d
    BY <2>1
  <2>2. CASE e # d
    BY <2>2 DEF Counts
  <2> QED BY <2>1, <2>2
<1> QED BY <1>1 DEF Counts

LEMMA CallCounts ==
  ASSUME DispatchTypeOK, Phases, Counts, NEW d \in Calls, CallStep(d)
  PROVE  Counts'
<1>1. /\ res[d] \in Nat /\ sent[d] \in Nat /\ Width \in Nat
      /\ at[d] \in Undecided => dispatchOutcome[d] = "none"
      /\ at[d] \in {"idle", "leasing", "leased", "tracked"} =>
           res[d] = 0 /\ sent[d] = 0 /\ WorkersOf(d) = {}
      /\ at[d] \in {"draining", "aborting"} =>
           /\ IsFiniteSet(WorkersOf(d)) /\ Cardinality(WorkersOf(d)) \in Nat
           /\ res[d] + sent[d] + Cardinality(WorkersOf(d)) = Width
      /\ dispatchOutcome[d] = "ok" => res[d] = Width
  BY WidthAssumption, FS_CardinalityType DEF DispatchTypeOK, Phases, Counts
<1>2. ASSUME NEW label, DispatchGoto(d, label)
      PROVE  at'[d] = label /\ \A e \in Calls : e # d => at'[e] = at[e]
  BY <1>2 DEF DispatchGoto, DispatchTypeOK
<1>3. ASSUME NEW label, NEW r, Ends(d, label, r)
      PROVE  /\ at'[d] = label /\ dispatchOutcome'[d] = r
             /\ \A e \in Calls : e # d => at'[e] = at[e] /\ dispatchOutcome'[e] = dispatchOutcome[e]
  BY <1>3 DEF Ends, DispatchGoto, DispatchTypeOK
<1>4. UNCHANGED workers => \A e \in Calls : WorkersOf(e)' = WorkersOf(e)
  BY DEF WorkersOf
<1>5. CASE DispatchCall(d) \/ LeaseFails(d)
  <2>1. /\ UNCHANGED <<workers, sent, res>> /\ at[d] \in {"idle", "leasing"}
        /\ \/ Ends(d, "returned", "error") \/ Ends(d, "releasing", "error")
           \/ (DispatchGoto(d, "leasing") /\ UNCHANGED dispatchOutcome)
    BY <1>5 DEF DispatchCall, LeaseFails, workVars
  <2> QED BY <1>1, <1>2, <1>3, <1>4, <2>1, CountsKept
<1>6. CASE LeaseOne(d) \/ Track(d)
  <2>1. /\ UNCHANGED <<workers, sent, res, dispatchOutcome>> /\ at[d] \in {"leasing", "leased"}
        /\ \E label \in {"leasing", "leased", "tracked"} : DispatchGoto(d, label)
    BY <1>6 DEF LeaseOne, Track, workVars
  <2>2. at'[d] \in {"leasing", "leased", "tracked"} /\ \A e \in Calls : e # d => at'[e] = at[e]
    BY <1>2, <2>1
  <2> QED BY <1>1, <1>4, <2>1, <2>2, CountsKept
<1>7. CASE SpawnWorkers(d)
  <2>1. UNCHANGED <<sent, res, got>> /\ at[d] = "tracked"
    BY <1>7 DEF SpawnWorkers
  <2>2. CASE Ends(d, "unregister", "error") /\ UNCHANGED workers
    BY <1>1, <1>3, <1>4, <2>1, <2>2, CountsKept
  <2>3. CASE /\ workers' = workers \cup {<<d, i, got[d][i]>> : i \in DOMAIN got[d]}
             /\ DispatchGoto(d, "draining") /\ UNCHANGED dispatchOutcome
    <3> DEFINE W == {<<d, i, got[d][i]>> : i \in DOMAIN got[d]}
    <3>1. IsFiniteSet(W) /\ Cardinality(W) = Width
      <4>1. got[d] \in Seq(Worktrees) /\ Len(got[d]) = Width
        BY <2>1 DEF DispatchTypeOK, Phases, Started
      <4> QED BY <4>1, WorkersOfSlice, Zenon
    <3>2. \A p \in W : p[1] = d
      OBVIOUS
    <3>3. workers' = workers \cup W
      BY <2>3
    <3> HIDE DEF W
    <3>4. WorkersOf(d)' = W /\ \A e \in Calls : e # d => WorkersOf(e)' = WorkersOf(e)
      BY <1>1, <2>1, <3>2, <3>3 DEF WorkersOf
    <3>5. at'[d] = "draining" /\ \A e \in Calls : e # d => at'[e] = at[e]
      BY <1>2, <2>3
    <3>6. dispatchOutcome'[d] # "ok"
      BY <1>1, <2>1, <2>3 DEF Undecided
    <3> QED BY <1>1, <2>1, <2>3, <3>1, <3>4, <3>5, <3>6, CountsKept
  <2> QED BY <1>7, <2>2, <2>3 DEF SpawnWorkers
<1>8. CASE Receive(d)
  <2>1. /\ UNCHANGED <<workers, at, dispatchOutcome>> /\ at[d] \in {"draining", "aborting"} /\ sent[d] > 0
        /\ sent'[d] = sent[d] - 1 /\ res'[d] = res[d] + 1
        /\ \A e \in Calls : e # d => sent'[e] = sent[e] /\ res'[e] = res[e]
    BY <1>8 DEF Receive, DispatchTypeOK
  <2>2. dispatchOutcome'[d] # "ok"
    BY <1>1, <2>1 DEF Undecided
  <2>3. res'[d] + sent'[d] + Cardinality(WorkersOf(d)') = Width
    BY <1>1, <1>4, <2>1
  <2> QED BY <1>1, <1>4, <2>1, <2>2, <2>3, CountsKept
<1>9. CASE Drained(d)
  <2>1. /\ UNCHANGED <<workers, sent, res>> /\ at[d] \in {"draining", "aborting"}
        /\ sent[d] = 0 /\ WorkersOf(d) = {}
        /\ Ends(d, "unregister", IF at[d] = "aborting" THEN "error" ELSE "ok")
    BY <1>9 DEF Drained, ChannelClosed, workVars, WorkersOf
  <2>2. res[d] = Width
    BY <1>1, <2>1, FS_EmptySet
  <2> QED BY <1>1, <1>3, <1>4, <2>1, <2>2, CountsKept
<1>10. CASE Abort(d)
  <2>1. UNCHANGED <<workers, sent, res, dispatchOutcome>> /\ at[d] = "draining" /\ DispatchGoto(d, "aborting")
    BY <1>10 DEF Abort, workVars
  <2> QED BY <1>1, <1>2, <1>4, <2>1, CountsKept
<1>11. CASE Deadline(d)
  <2>1. UNCHANGED <<workers, sent, res>> /\ Ends(d, "unregister", "deadline")
    BY <1>11 DEF Deadline, workVars
  <2> QED BY <1>1, <1>3, <1>4, <2>1, CountsKept
<1>12. CASE Unregister(d) \/ ReleaseOne(d)
  <2>1. /\ UNCHANGED <<workers, sent, res, dispatchOutcome>>
        /\ \E label \in {"releasing", "returned"} : DispatchGoto(d, label)
    BY <1>12 DEF Unregister, ReleaseOne, workVars
  <2>2. at'[d] \in {"releasing", "returned"} /\ \A e \in Calls : e # d => at'[e] = at[e]
    BY <1>2, <2>1
  <2> QED BY <1>1, <1>4, <2>1, <2>2, CountsKept
<1>13. CASE DispatchCancelled(d)
  BY <1>1, <1>4, <1>13, CountsKept DEF DispatchCancelled, workVars
<1> QED
  BY <1>5, <1>6, <1>7, <1>8, <1>9, <1>10, <1>11, <1>12, <1>13 DEF CallStep, Step

LEMMA OtherCounts ==
  ASSUME DispatchTypeOK, Counts, OtherStep
  PROVE  Counts'
<1>1. CASE DispatchShutdown \/ ShutdownRelease \/ ShutdownAbort
  <2>1. UNCHANGED <<at, workers, sent, res, dispatchOutcome>>
    BY <1>1 DEF DispatchShutdown, ShutdownRelease, ShutdownAbort, workVars
  <2> QED BY <2>1 DEF Counts, WorkersOf
<1>2. CASE WorkerEnds
  <2>1. PICK p \in workers : /\ workers' = workers \ {p}
                             /\ sent' = [sent EXCEPT ![p[1]] = @ + 1]
    BY <1>2 DEF WorkerEnds
  <2> DEFINE d == p[1]
  <2>2. d \in Calls /\ UNCHANGED <<at, res, dispatchOutcome>>
    BY <1>2 DEF WorkerEnds, DispatchTypeOK
  <2>3. /\ WorkersOf(d)' = WorkersOf(d) \ {p} /\ p \in WorkersOf(d)
        /\ \A e \in Calls : e # d => WorkersOf(e)' = WorkersOf(e) /\ sent'[e] = sent[e]
        /\ sent'[d] = sent[d] + 1 /\ sent[d] \in Nat /\ res[d] \in Nat /\ Width \in Nat
    BY <2>1, <2>2, WidthAssumption DEF WorkersOf, DispatchTypeOK
  <2>4. at[d] \notin {"idle", "leasing", "leased", "tracked"}
    BY <2>2, <2>3 DEF Counts
  <2>5. at[d] \in {"draining", "aborting"} =>
             /\ IsFiniteSet(WorkersOf(d)')
             /\ res'[d] + sent'[d] + Cardinality(WorkersOf(d)') = Width
    <3>1. CASE at[d] \in {"draining", "aborting"}
      <4>1. /\ IsFiniteSet(WorkersOf(d)) /\ Cardinality(WorkersOf(d)) \in Nat
            /\ res[d] + sent[d] + Cardinality(WorkersOf(d)) = Width
        BY <2>2, <3>1, FS_CardinalityType DEF Counts
      <4>2. /\ IsFiniteSet(WorkersOf(d) \ {p})
            /\ Cardinality(WorkersOf(d) \ {p}) = Cardinality(WorkersOf(d)) - 1
        BY <2>3, <4>1, FS_RemoveElement
      <4> QED BY <2>2, <2>3, <4>1, <4>2
    <3> QED BY <3>1
  <2>6. dispatchOutcome'[d] = "ok" => res'[d] = Width
    BY <2>2 DEF Counts
  <2> HIDE DEF d
  <2> QED BY <2>2, <2>3, <2>4, <2>5, <2>6, CountsKept
<1> QED BY <1>1, <1>2 DEF OtherStep

\* For any calls, width and pool: a Dispatch that returns nil has counted Width results,
\* one of each worker it spawned.
THEOREM CountsCorrect == DispatchSpec => []NilMeansAllCounted
<1>1. DispatchInit => Counts
  BY DEF DispatchInit, Counts, WorkersOf
<1>2. ASSUME DispatchTypeOK, Phases, Counts, [DispatchNext]_dispatchVars PROVE Counts'
  <2>1. CASE UNCHANGED dispatchVars
    BY <1>2, <2>1 DEF dispatchVars, workVars, Counts, WorkersOf
  <2> QED BY <1>2, <2>1, CallCounts, OtherCounts DEF DispatchNext, CallStep, OtherStep
<1>3. Counts => NilMeansAllCounted
  BY DEF Counts, NilMeansAllCounted
<1> QED
  BY <1>1, <1>2, <1>3, TypesInductive, PTL DEF DispatchSpec

-----------------------------------------------------------------------------
(* The two of them side by side                                            *)

\* A behaviour of the instance that TLC checks is one of Supervisor and one of Dispatcher,
\* so that what is proved of each holds of it: RunStage4 and Dispatch share nothing but
\* the call (orchestrator.go:340, dispatcher.go:150-217).
THEOREM BuildIsBoth == BuildSpec => Spec /\ DispatchSpec
<1>1. BuildInit => Init /\ DispatchInit
  BY DEF BuildInit
<1>2. ASSUME [BuildNext]_buildVars PROVE [Next]_vars /\ [DispatchNext]_dispatchVars
  <2>1. CASE BuildNext
    BY <2>1 DEF BuildNext, InSupervisor, InDispatcher, AtRest
  <2>2. CASE UNCHANGED buildVars
    BY <2>2 DEF buildVars
  <2> QED BY <1>2, <2>1, <2>2
<1> QED BY <1>1, <1>2, PTL DEF BuildSpec, Spec, DispatchSpec

=============================================================================
