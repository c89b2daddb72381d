----------------------------- MODULE CostGating -----------------------------
(***************************************************************************)
(* The cost-gating engine of internal/orchestrator with the actuator the   *)
(* daemon gives it (plan5StateActuator), the main loop's reaction to the   *)
(* engine's records, and the builds and the operator who share the state   *)
(* machine.  The poll (tickOnce, Apply) and the recovery walk are two      *)
(* goroutines; the actuator reads the machine and moves it in two steps.   *)
(***************************************************************************)
EXTENDS StateMachine, Integers, Sequences, FiniteSetsExt

CONSTANTS
    Overrides,    \* ProjectOverride values a project may configure
    Budgets,      \* snapshots the budget reader may return
    MaxChanges,   \* bound: changes of the budget
    MaxCostFailures,  \* bound: failed snapshots and appends
    MaxMoves      \* bound: transitions made by builds and the operator

PAYG == -1
Key == {60, 80, 90, 100, PAYG}

severityRank ==
    [continue |-> 0, escalate_l4 |-> 1, drop_l3_strategic |-> 2,
     tier_degrade_l2 |-> 3, tier_degrade_l1_l2 |-> 4, reduce_parallelism |-> 5,
     emergency_only_tier |-> 6, waiting_for_confirmation |-> 7, waiting |-> 8,
     hard_pause |-> 9]

Action == DOMAIN severityRank
HoldActions == {"waiting_for_confirmation", "waiting"}

ASSUME CostAssumption ==
    /\ \A ov \in Overrides : DOMAIN ov \subseteq Key /\ \A k \in DOMAIN ov : ov[k] \in Action
    /\ \A b \in Budgets : b.payg \in BOOLEAN /\ b.cap \in Nat /\ b.spent \in Nat
    /\ MaxChanges \in Nat /\ MaxCostFailures \in Nat /\ MaxMoves \in Nat

VARIABLES
    table,       \* CostGatingEngine.table: the action of each threshold
    budget,      \* what Snapshot would return now
    currentRow,  \* CostGatingEngine.currentRow
    at,          \* where the poll and the recovery walk are
    row,         \* the row each of them is applying
    prior,       \* the row Apply replaced
    records,     \* BudgetDegradationApplied records the main loop has not read
    pending,     \* whether a confirmation request is pending
    restore,     \* the state its acknowledgement restores
    held,        \* whether a hold action stopped the build, unreleased since
    changes, costFailures, moves

engineVars == <<table, currentRow, prior>>
actorVars == <<at, row>>
askVars == <<pending, restore, held>>
bounds == <<changes, costFailures, moves>>
costVars == <<state, budget, engineVars, actorVars, records, askVars, bounds>>

-----------------------------------------------------------------------------
(* The threshold table                                                     *)

BuiltinCostProfile ==
    [max_scope |->
        [k \in Key |-> CASE k = 60 -> "drop_l3_strategic" [] k = 80 -> "tier_degrade_l2"
                         [] k = 90 -> "reduce_parallelism" [] k = 100 -> "hard_pause"
                         [] k = PAYG -> "emergency_only_tier"],
     default |->
        [k \in Key |-> CASE k = 60 -> "continue" [] k = 80 -> "tier_degrade_l1_l2"
                         [] OTHER -> "hard_pause"],
     capa_firewall |->
        [k \in Key |-> CASE k = 60 -> "escalate_l4" [] k = 80 -> "waiting_for_confirmation"
                         [] k = 90 -> "waiting" [] OTHER -> "hard_pause"]]

\* LoadThresholdTable refuses an override that loosens the doctrine.
TightenOnly(actions, ov) ==
    \A k \in DOMAIN ov : severityRank[ov[k]] >= severityRank[actions[k]]

LoadThresholdTable(actions, ov) ==
    [k \in Key |-> IF k \in DOMAIN ov THEN ov[k] ELSE actions[k]]

ContinueRow == [pct |-> 0, action |-> "continue"]
NoRow == [pct |-> 0, action |-> "nil"]
RowAt(k) == [pct |-> k, action |-> table[k]]
ThresholdRow == [pct : Key \cup {0}, action : Action]

\* Mutant: no row matches and the zero ThresholdRow is returned.
RowForZeroValue(below) == IF below = {} THEN NoRow ELSE RowAt(Max(below))

\* The highest row at or below a percentage, and ContinueRow below them all.
RowFor(below) == IF below = {} THEN ContinueRow ELSE RowAt(Max(below))

\* Evaluate: pay-as-you-go wins, a missing cap never degrades.
Evaluate(b) ==
    IF b.payg THEN RowAt(PAYG)
    ELSE IF b.cap = 0 THEN ContinueRow
    ELSE RowFor({k \in Key \ {PAYG} : k <= (100 * b.spent) \div b.cap})

\* Mutant: the row's own threshold is not left out.
NextRowSame(r) == RowFor({k \in Key \ {PAYG} : k <= r.pct})

\* The row the recovery walk applies next.  Nothing is below PctPAYG, which is
\* -1, so the walk that leaves it goes straight to continue.
NextRow(r) == RowFor({k \in Key \ {PAYG} : k < r.pct})

CostInit ==
    /\ state = "idle"
    /\ \E d \in DOMAIN BuiltinCostProfile, ov \in Overrides :
          /\ TightenOnly(BuiltinCostProfile[d], ov)
          /\ table = LoadThresholdTable(BuiltinCostProfile[d], ov)
    /\ budget \in Budgets
    /\ currentRow = NoRow /\ prior = NoRow
    /\ at = [tick |-> "idle", walk |-> "off"]
    /\ row = [tick |-> ContinueRow, walk |-> ContinueRow]
    /\ records = <<>>
    /\ pending = FALSE /\ restore = "idle" /\ held = FALSE
    /\ changes = 0 /\ costFailures = 0 /\ moves = 0

-----------------------------------------------------------------------------
(* plan5StateActuator, called by ApplyAction                               *)

CostGoto(a, label) == at' = [at EXCEPT ![a] = label]

\* The state an action asks for.
TargetOf(action) ==
    CASE action = "continue" -> "running"
      [] action = "hard_pause" -> "hard_paused"
      [] action = "emergency_only_tier" -> "emergency"
      [] action \in {"escalate_l4"} \cup HoldActions -> "waiting"
      [] OTHER -> "degraded"

\* RestoreDefaults leaves DEGRADED and HARD_PAUSED only; every other action does
\* nothing where the table does not allow it.
Attempts(action) ==
    IF action = "continue" THEN state \in {"degraded", "hard_paused"}
                           ELSE IsLegal(state, TargetOf(action))

\* Where the caller of ApplyAction goes on: Apply records, the walk waits.
After(a) == IF a = "tick" THEN "commit" ELSE "timer"
\* Where it goes after an error: Apply returns it, the walk ignores it.
Failed(a) == IF a = "tick" THEN "idle" ELSE "timer"

\* Current() and IsLegal.
Peek(a) ==
    /\ at[a] = "peek"
    /\ CostGoto(a, IF Attempts(row[a].action) THEN "move" ELSE After(a))
    /\ UNCHANGED <<state, budget, engineVars, row, records, askVars, bounds>>

\* EscalateL4 and WaitForConfirmation go through RequestConfirmation, which
\* keeps a pending request as it is; the others call Transition.
AsksOperator(action) == action \in {"escalate_l4", "waiting_for_confirmation"}

Move(a) ==
    /\ at[a] = "move"
    /\ LET action == row[a].action
           to == TargetOf(action)
       IN  \/ /\ AsksOperator(action) /\ pending
              /\ CostGoto(a, After(a))
              /\ UNCHANGED <<state, askVars, costFailures>>
           \/ /\ ~(AsksOperator(action) /\ pending)
              /\ Transition(to)
              /\ pending' = (pending \/ AsksOperator(action))
              /\ restore' = IF AsksOperator(action) THEN state ELSE restore
              /\ held' = (held \/ action \in HoldActions)
              /\ CostGoto(a, After(a))
              /\ UNCHANGED costFailures
           \/ /\ ~IsLegal(state, to)
              /\ CostGoto(a, Failed(a))
              /\ UNCHANGED <<state, askVars, costFailures>>
           \/ /\ costFailures < MaxCostFailures /\ costFailures' = costFailures + 1
              /\ CostGoto(a, Failed(a))
              /\ UNCHANGED <<state, askVars>>
    /\ UNCHANGED <<budget, engineVars, row, records, changes, moves>>

-----------------------------------------------------------------------------
(* tickOnce and Apply                                                      *)

\* A poll that finds another row in force.  The wait for the workers' atomic
\* boundary, bounded by a timeout, lies between this step and the next.
Tick ==
    /\ at.tick = "idle" /\ Evaluate(budget) # currentRow
    /\ row' = [row EXCEPT !.tick = Evaluate(budget)]
    /\ CostGoto("tick", "peek")
    /\ UNCHANGED <<state, budget, engineVars, records, askVars, bounds>>

\* Under e.mu.
Commit ==
    /\ at.tick = "commit"
    /\ prior' = currentRow /\ currentRow' = row.tick
    /\ CostGoto("tick", "append")
    /\ UNCHANGED <<state, budget, table, row, records, askVars, bounds>>

\* triggerRecovery: not while a walk is active, not from a hold action.
Recovers ==
    /\ row.tick.action = "continue"
    /\ prior.action \notin HoldActions \cup {"continue", "nil"}
    /\ at.walk = "off"

\* The record, and recovery when the budget is back to normal; a failed append
\* ends Apply with an error.
AppendRecord ==
    /\ at.tick = "append"
    /\ \/ /\ records' = Append(records, row.tick.action)
          /\ at' = [at EXCEPT !.tick = "idle",
                              !.walk = IF Recovers THEN "timer" ELSE @]
          /\ row' = [row EXCEPT !.walk = IF Recovers THEN prior ELSE @]
          /\ UNCHANGED costFailures
       \/ /\ costFailures < MaxCostFailures /\ costFailures' = costFailures + 1
          /\ CostGoto("tick", "idle")
          /\ UNCHANGED <<records, row>>
    /\ UNCHANGED <<state, budget, engineVars, askVars, changes, moves>>

-----------------------------------------------------------------------------
(* recoveryWalk: one step per RecoveryStepInterval                         *)

WalkStep ==
    /\ at.walk = "timer"
    /\ IF row.walk.action \in {"continue"} \cup HoldActions
       THEN CostGoto("walk", "off") /\ UNCHANGED row
       ELSE CostGoto("walk", "peek") /\ row' = [row EXCEPT !.walk = NextRow(row.walk)]
    /\ UNCHANGED <<state, budget, engineVars, records, askVars, bounds>>

-----------------------------------------------------------------------------
(* The others                                                              *)

\* MainLoop.handleBudgetDegradation, its error ignored.
HandleBudgetDegradation ==
    /\ records # <<>>
    /\ records' = Tail(records)
    /\ IF Head(records) = "continue" THEN UNCHANGED state
       ELSE TryTransition("degraded", FALSE, FALSE)
    /\ UNCHANGED <<budget, engineVars, actorVars, askVars, bounds>>

\* Spend is booked, a cap or pay-as-you-go is switched, or the day ends.
BudgetChanges ==
    /\ changes < MaxChanges /\ changes' = changes + 1
    /\ budget' \in Budgets \ {budget}
    /\ UNCHANGED <<state, engineVars, actorVars, records, askVars, costFailures, moves>>

Counted == moves < MaxMoves /\ moves' = moves + 1

\* RunStage4 starts, runs, finishes or unwinds a build.
BuildMove ==
    /\ Counted
    /\ \/ state = "idle" /\ Transition("initializing") /\ UNCHANGED held
       \/ state = "initializing" /\ Transition("running") /\ UNCHANGED held
       \/ state \in {"running", "aborting"} /\ Transition("idle") /\ held' = FALSE
       \/ Transition("aborting") /\ held' = FALSE
    /\ UNCHANGED <<budget, engineVars, actorVars, records, pending, restore, changes,
                   costFailures>>

\* HandleAck and HandleDeny of the pending request.
Answer ==
    /\ Counted /\ pending
    /\ Transition(restore) \/ Transition("aborting")
    /\ pending' = FALSE /\ held' = FALSE
    /\ UNCHANGED <<budget, engineVars, actorVars, records, restore, changes, costFailures>>

-----------------------------------------------------------------------------

Engine == Tick \/ Commit \/ AppendRecord \/ Peek("tick") \/ Move("tick")
Walk == WalkStep \/ Peek("walk") \/ Move("walk")

CostNext == Engine \/ Walk \/ HandleBudgetDegradation \/ BudgetChanges \/ BuildMove \/ Answer

CostSpec == CostInit /\ [][CostNext]_costVars

\* The poll's ticker, the walk's timer and the main loop keep running.
FairCostSpec ==
    CostSpec /\ WF_costVars(Engine) /\ WF_costVars(Walk) /\ WF_costVars(HandleBudgetDegradation)

-----------------------------------------------------------------------------
(* Properties                                                              *)

\* The table, the row in force and both actors hold known actions and thresholds.
CostTypeOK ==
    /\ state \in State /\ restore \in State
    /\ table \in [Key -> Action] /\ budget \in Budgets
    /\ currentRow \in ThresholdRow \cup {NoRow} /\ prior \in ThresholdRow \cup {NoRow}
    /\ at \in [tick : {"idle", "peek", "move", "commit", "append"},
               walk : {"off", "timer", "peek", "move"}]
    /\ row \in [tick : ThresholdRow, walk : ThresholdRow]
    /\ records \in Seq(Action)
    /\ pending \in BOOLEAN /\ held \in BOOLEAN
    /\ changes \in 0..MaxChanges /\ costFailures \in 0..MaxCostFailures /\ moves \in 0..MaxMoves

\* Once the budget settles, the engine settles on its row, whatever failed or
\* raced on the way: Apply is "effectively at-least-once" (cost_gating.go:448-450).
Converges == <>[](at.tick = "idle" /\ currentRow = Evaluate(budget))

\* Every recovery walk comes to an end, also under an override, and leaves the
\* engine free to start another (recoveryActive).
WalkEnds == at.walk # "off" ~> at.walk = "off"

\* "Apply returns error -> ... Do NOT update currentRow so the next same-snapshot
\* tick retries Apply" (cost_gating.go:448-450), also when it is the append of
\* the record that fails.
FailedApplyIsRetried ==
    [][at.tick = "append" /\ at'.tick = "idle" /\ costFailures' > costFailures
          => currentRow' = prior]_costVars

\* "capa-firewall: operator confirmation required to release"
\* (cost_gating.go:612 and 675): a build that a hold action stopped does not run
\* again before the operator answered or the build ended.
HeldUntilConfirmed == held => state # "running"

=============================================================================
