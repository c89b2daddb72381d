----------------------------- MODULE Supervisor -----------------------------
(***************************************************************************)
(* RunStage4, Shutdown and the main loop of internal/orchestrator, which   *)
(* move one StateMachine.  Each Transition is a step of its own because it *)
(* takes and releases sm.mu by itself.  The research gate, the sizing, the *)
(* operator's answer and Dispatch may each succeed or fail.                *)
(***************************************************************************)
EXTENDS StateMachine

CONSTANTS
    Runs,               \* RunStage4 calls
    MayCancel,          \* whether a caller may cancel its context
    MayShutdown,        \* whether Shutdown may be called
    AppendFails         \* whether an append to the event log may fail

ASSUME SupervisorAssumption ==
    MayCancel \in BOOLEAN /\ MayShutdown \in BOOLEAN /\ AppendFails \in BOOLEAN

VARIABLES
    initialized,  \* Orchestrator.initialized
    shutdown,     \* Orchestrator.shutdown
    run,          \* where each RunStage4 call is
    cancelled,    \* calls whose context is cancelled
    dispatched,   \* what Dispatch returned to each call
    outcome,      \* outcome of the stopped event of each call, or that its append failed
    refused,      \* history: calls one of whose own transitions failed
    stopping,     \* where the Shutdown call is
    deathStreak   \* MainLoop.deathStreak, counted up to the threshold

runVars == <<run, dispatched, refused, outcome>>
orchVars == <<initialized, shutdown, stopping>>
vars == <<state, runVars, orchVars, cancelled, deathStreak>>

RunPC == {"new", "starting", "gate", "decide", "confirm", "enter", "dispatch",
          "finish", "abort", "cleanup", "done"}
StopPC == {"new", "waiting", "forceAbort", "forceIdle", "mark", "done"}
\* "stage_failed" stands for the outcomes of the five ways a stage before Running fails.
Outcome == {"none", "success", "transition_failed", "stage_failed",
            "dispatch_failed", "unlogged"}
DeathThreshold == 3  \* mainLoopDeathThreshold

Init ==
    /\ state = "idle"
    /\ initialized = FALSE /\ shutdown = FALSE
    /\ run = [r \in Runs |-> "new"]
    /\ cancelled = {}
    /\ dispatched = [r \in Runs |-> "none"]
    /\ outcome = [r \in Runs |-> "none"]
    /\ refused = {}
    /\ stopping = "new"
    /\ deathStreak = 0

Goto(r, label) == run' = [run EXCEPT ![r] = label]

\* recordStopped, whose own append may fail unnoticed.
RecordStopped(r, what) ==
    \/ outcome' = [outcome EXCEPT ![r] = what]
    \/ AppendFails /\ outcome' = [outcome EXCEPT ![r] = "unlogged"]

\* o.transition(ctx, to) in call r succeeds, fails, or is ignored.
Moves(r, to) == r \notin cancelled /\ Transition(to) /\ UNCHANGED refused
MoveFails(r, to) ==
    TransitionFails(to, r \in cancelled, AppendFails) /\ refused' = refused \cup {r}
TryMove(r, to) == TryTransition(to, r \in cancelled, AppendFails)

-----------------------------------------------------------------------------
(* Lifecycle                                                               *)

InitOrchestrator ==
    /\ ~initialized /\ ~shutdown
    /\ initialized' = TRUE
    /\ UNCHANGED <<state, shutdown, runVars, cancelled, stopping, deathStreak>>

\* RunStage4 up to the started event.  A call whose context is already
\* cancelled, on an orchestrator that is not initialized, or whose append fails
\* returns without touching anything.
RunStage4(r) ==
    /\ run[r] = "new" /\ initialized /\ r \notin cancelled
    /\ Goto(r, "starting")
    /\ UNCHANGED <<state, dispatched, refused, outcome, orchVars, cancelled, deathStreak>>

\* Mutant: the error of the transition is logged and the build goes on.
EnterInitializingAnyway(r) ==
    /\ run[r] = "starting"
    /\ Moves(r, "initializing") \/ MoveFails(r, "initializing")
    /\ Goto(r, "gate")
    /\ UNCHANGED <<dispatched, outcome, orchVars, cancelled, deathStreak>>

\* Idle -> Initializing; a failure only records the stop.
EnterInitializing(r) ==
    /\ run[r] = "starting"
    /\ \/ Moves(r, "initializing") /\ Goto(r, "gate") /\ UNCHANGED outcome
       \/ /\ MoveFails(r, "initializing") /\ Goto(r, "done")
          /\ RecordStopped(r, "transition_failed")
    /\ UNCHANGED <<dispatched, orchVars, cancelled, deathStreak>>

\* Mutant: the stopped event is left to the caller.
UnwindUnrecorded(r, what) == UNCHANGED outcome /\ Goto(r, "abort")

\* unwind up to its first transition: the stopped event comes first.  From
\* Running it also calls Dispatcher.Shutdown, which is outside this module.
Unwind(r, what) == RecordStopped(r, what) /\ Goto(r, "abort")

\* A stage before Running that passes or unwinds the call.
Stage(r, from, to) ==
    /\ run[r] = from
    /\ (Goto(r, to) /\ UNCHANGED outcome) \/ Unwind(r, "stage_failed")
    /\ UNCHANGED <<state, dispatched, refused, orchVars, cancelled, deathStreak>>

ResearchGate(r) == Stage(r, "gate", "decide")
DecideDepthWidth(r) == Stage(r, "decide", "confirm")
ConfirmationCallback(r) == Stage(r, "confirm", "enter")

\* Initializing -> Running before Dispatch blocks.
EnterRunning(r) ==
    /\ run[r] = "enter"
    /\ \/ Moves(r, "running") /\ Goto(r, "dispatch") /\ UNCHANGED outcome
       \/ MoveFails(r, "running") /\ Unwind(r, "transition_failed")
    /\ UNCHANGED <<dispatched, orchVars, cancelled, deathStreak>>

\* Mutant: an error of Dispatch is not looked at.
DispatchIgnoresError(r) ==
    /\ run[r] = "dispatch"
    /\ \E res \in {"ok", "error"} : dispatched' = [dispatched EXCEPT ![r] = res]
    /\ Goto(r, "finish")
    /\ UNCHANGED <<refused, outcome, state, orchVars, cancelled, deathStreak>>

\* Mutant: the result of an aborted Dispatch is neither success nor error.
DispatchThirdResult(r) ==
    /\ run[r] = "dispatch"
    /\ dispatched' = [dispatched EXCEPT ![r] = "aborted"]
    /\ Goto(r, "finish")
    /\ UNCHANGED <<refused, outcome, state, orchVars, cancelled, deathStreak>>

\* Dispatch returns.
Dispatch(r) ==
    /\ run[r] = "dispatch"
    /\ \/ /\ dispatched' = [dispatched EXCEPT ![r] = "ok"]
          /\ Goto(r, "finish") /\ UNCHANGED outcome
       \/ /\ dispatched' = [dispatched EXCEPT ![r] = "error"]
          /\ Unwind(r, "dispatch_failed")
    /\ UNCHANGED <<state, refused, orchVars, cancelled, deathStreak>>

\* Mutant: the error of the last transition is logged and the build counts as done.
FinishAnyway(r) ==
    /\ run[r] = "finish"
    /\ Moves(r, "idle") \/ MoveFails(r, "idle")
    /\ Goto(r, "done") /\ RecordStopped(r, "success")
    /\ UNCHANGED <<dispatched, orchVars, cancelled, deathStreak>>

\* Running -> Idle after a successful Dispatch.
Finish(r) ==
    /\ run[r] = "finish"
    /\ \/ Moves(r, "idle") /\ Goto(r, "done") /\ RecordStopped(r, "success")
       \/ MoveFails(r, "idle") /\ Unwind(r, "transition_failed")
    /\ UNCHANGED <<dispatched, orchVars, cancelled, deathStreak>>

\* The two transitions of unwind, with the caller's context, errors ignored.
UnwindAbort(r) ==
    /\ run[r] = "abort"
    /\ TryMove(r, "aborting")
    /\ Goto(r, "cleanup")
    /\ UNCHANGED <<dispatched, refused, outcome, orchVars, cancelled, deathStreak>>

UnwindIdle(r) ==
    /\ run[r] = "cleanup"
    /\ TryMove(r, "idle")
    /\ Goto(r, "done")
    /\ UNCHANGED <<dispatched, refused, outcome, orchVars, cancelled, deathStreak>>

\* The caller cancels the context of a call in progress.
Cancel(r) ==
    /\ MayCancel /\ run[r] \notin {"new", "done"} /\ r \notin cancelled
    /\ cancelled' = cancelled \cup {r}
    /\ UNCHANGED <<state, runVars, orchVars, deathStreak>>

-----------------------------------------------------------------------------
(* Shutdown                                                                *)

Stopping(from, to) == stopping = from /\ stopping' = to

\* An orchestrator that is not initialized is only marked; a second call
\* returns; otherwise it waits.
Shutdown ==
    /\ MayShutdown /\ ~shutdown
    /\ \/ ~initialized /\ shutdown' = TRUE /\ Stopping("new", "done")
       \/ initialized /\ UNCHANGED shutdown /\ Stopping("new", "waiting")
    /\ UNCHANGED <<state, initialized, runVars, cancelled, deathStreak>>

\* Mutant: the poll has no deadline.
ShutdownWaitForever ==
    /\ state = "idle" /\ Stopping("waiting", "mark")
    /\ UNCHANGED <<state, initialized, shutdown, runVars, cancelled, deathStreak>>

\* The 5 ms poll sees Idle, or the context of Shutdown ends and it forces.
ShutdownWait ==
    /\ \/ state = "idle" /\ Stopping("waiting", "mark")
       \/ Stopping("waiting", "forceAbort")
    /\ UNCHANGED <<state, initialized, shutdown, runVars, cancelled, deathStreak>>

\* forceUnwindToIdle, with a background context, errors ignored.  What its
\* switch skips (Aborting when already aborting or idle) the table refuses.
ForceAbort ==
    /\ Stopping("forceAbort", "forceIdle")
    /\ TryTransition("aborting", FALSE, AppendFails)
    /\ UNCHANGED <<initialized, shutdown, runVars, cancelled, deathStreak>>

ForceIdle ==
    /\ Stopping("forceIdle", "mark")
    /\ TryTransition("idle", FALSE, AppendFails)
    /\ UNCHANGED <<initialized, shutdown, runVars, cancelled, deathStreak>>

ShutdownMark ==
    /\ Stopping("mark", "done")
    /\ shutdown' = TRUE
    /\ UNCHANGED <<state, initialized, runVars, cancelled, deathStreak>>

-----------------------------------------------------------------------------
(* MainLoop.handleRecord: the records come from workers, the drift check    *)
(* and the cost engine; the errors of Transition are ignored.               *)

Try(to) == TryTransition(to, FALSE, AppendFails)

WorkerDeath ==
    /\ deathStreak' = IF deathStreak < DeathThreshold THEN deathStreak + 1
                                                      ELSE deathStreak
    /\ IF deathStreak + 1 >= DeathThreshold THEN Try("hard_paused")
                                            ELSE UNCHANGED state

SubstrateDriftHard == deathStreak' = 0 /\ Try("hard_paused")
BudgetDegradationApplied == deathStreak' = 0 /\ Try("degraded")
EmergencyTierActivated == deathStreak' = 0 /\ Try("emergency")

\* A soft drift, a "continue" action, a stopped event, or one that does not
\* decode.
OtherRecord == deathStreak' = 0 /\ UNCHANGED state

HandleRecord ==
    /\ \/ WorkerDeath \/ SubstrateDriftHard \/ BudgetDegradationApplied
       \/ EmergencyTierActivated \/ OtherRecord
    /\ UNCHANGED <<orchVars, runVars, cancelled>>

-----------------------------------------------------------------------------

RunStep(r) ==
    \/ EnterInitializing(r) \/ ResearchGate(r) \/ DecideDepthWidth(r)
    \/ ConfirmationCallback(r) \/ EnterRunning(r) \/ Dispatch(r) \/ Finish(r)
    \/ UnwindAbort(r) \/ UnwindIdle(r)

ShutdownStep == ShutdownWait \/ ForceAbort \/ ForceIdle \/ ShutdownMark

Next ==
    \/ InitOrchestrator
    \/ \E r \in Runs : RunStage4(r) \/ RunStep(r) \/ Cancel(r)
    \/ Shutdown \/ ShutdownStep
    \/ HandleRecord

Spec == Init /\ [][Next]_vars

\* Goroutines run, the stages and Dispatch return, and the context of Shutdown
\* has a deadline.
FairSpec ==
    /\ Spec
    /\ \A r \in Runs : WF_vars(RunStep(r))
    /\ WF_vars(ShutdownStep)

-----------------------------------------------------------------------------
(* Properties                                                              *)

\* Every field holds a value its Go type allows, the machine one of its nine states.
TypeOK ==
    /\ state \in State
    /\ initialized \in BOOLEAN /\ shutdown \in BOOLEAN
    /\ run \in [Runs -> RunPC] /\ cancelled \in SUBSET Runs
    /\ dispatched \in [Runs -> {"none", "ok", "error"}]
    /\ outcome \in [Runs -> Outcome]
    /\ refused \in SUBSET Runs
    /\ stopping \in StopPC /\ deathStreak \in 0..DeathThreshold

\* Calls between Initializing and their last transition.
Active == {r \in Runs : run[r] \notin {"new", "starting", "done"}}

\* The table alone keeps builds apart: a second RunStage4 is refused until the
\* first has left the machine (orchestrator.go:267-271), even when the main loop
\* pauses or degrades the first, until Shutdown gives up waiting and forces the
\* machine to Idle.
OneBuildAtATime ==
    stopping \in {"new", "waiting", "forceAbort", "forceIdle"} =>
        \A r, s \in Active : r = s

\* When every call has returned, the machine is back in Idle and the next
\* RunStage4 is accepted: "on dispatch error -> Running -> Aborting -> Idle"
\* (orchestrator.go:33-34), whatever the main loop did in between.
ReturnsToIdle == (\A r \in Runs : run[r] \in {"new", "done"}) => state = "idle"

\* The log tells how a call ended (recordStopped, orchestrator.go:373-388): a stopped
\* event says success only when Dispatch returned without error and the machine took
\* every transition of the call, the last one too, although the main loop may have moved
\* it while Dispatch ran (:346-351); a refused transition is reported as such; and a call
\* has returned without a stopped event only when the append of that event failed.
OutcomeHonest ==
    \A r \in Runs :
        /\ outcome[r] = "success" => dispatched[r] = "ok" /\ r \notin refused
        /\ r \in refused => outcome[r] \in {"transition_failed", "unlogged"}
        /\ run[r] = "done" => outcome[r] # "none"

\* A call that has begun ends, and Shutdown returns even when the machine never
\* becomes idle by itself (orchestrator.go:433-449).
EverythingReturns ==
    /\ \A r \in Runs : run[r] = "starting" ~> run[r] = "done"
    /\ stopping = "waiting" ~> stopping = "done"

=============================================================================
