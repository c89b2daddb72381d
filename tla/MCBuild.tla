------------------------------ MODULE MCBuild ------------------------------
(***************************************************************************)
(* Instances of Supervisor and Dispatcher for TLC.  They share no          *)
(* variable: a behaviour is about one of them, the focus.                  *)
(***************************************************************************)
EXTENDS Supervisor, Dispatcher

CONSTANTS r1, r2, d1, d2, w1, w2

TwoRuns == {r1, r2}
TwoCalls == {d1, d2}
TwoWorktrees == {w1, w2}

VARIABLE focus

buildVars == <<focus, vars, dispatchVars>>

BuildInit == focus \in {"supervisor", "dispatcher"} /\ Init /\ DispatchInit

InSupervisor(A) == focus = "supervisor" /\ A /\ UNCHANGED <<focus, dispatchVars>>
InDispatcher(A) == focus = "dispatcher" /\ A /\ UNCHANGED <<focus, vars>>

\* The dispatcher may come to rest: nothing is left to call, to run or to cancel.
AtRest ==
    /\ \A d \in Calls : at[d] = "returned" /\ d \in ctxDone
    /\ workers = {} /\ stop = "done" /\ UNCHANGED dispatchVars

BuildNext == InSupervisor(Next) \/ InDispatcher(DispatchNext) \/ InDispatcher(AtRest)

BuildSpec == BuildInit /\ [][BuildNext]_buildVars

\* The n-th process of the component in focus, as in FairSpec and FairDispatchSpec.
ProcessStep(n) ==
    \/ InSupervisor(\/ n = 1 /\ RunStep(r1)
                    \/ n = 2 /\ RunStep(r2)
                    \/ n = 3 /\ ShutdownStep)
    \/ InDispatcher(\/ n = 1 /\ Step(d1)
                    \/ n = 2 /\ Step(d2)
                    \/ n = 3 /\ d1 \in ctxDone /\ LeaseFails(d1)
                    \/ n = 4 /\ d2 \in ctxDone /\ LeaseFails(d2))

FairBuildSpec == BuildSpec /\ \A n \in 1..4 : WF_buildVars(ProcessStep(n))

\* What is awaited in the component in focus and what ends the wait.
Awaited(n) ==
    IF focus = "supervisor"
    THEN CASE n = 1 -> run[r1] = "starting" [] n = 2 -> run[r2] = "starting"
           [] n = 3 -> stopping = "waiting"
    ELSE CASE n = 1 -> d1 \in ctxDone /\ at[d1] # "idle"
           [] n = 2 -> d2 \in ctxDone /\ at[d2] # "idle"
           [] n = 3 -> FALSE

Ended(n) ==
    IF focus = "supervisor"
    THEN CASE n = 1 -> run[r1] = "done" [] n = 2 -> run[r2] = "done" [] n = 3 -> stopping = "done"
    ELSE CASE n = 1 -> at[d1] = "returned" [] n = 2 -> at[d2] = "returned" [] n = 3 -> FALSE

\* A RunStage4 that has begun ends and Shutdown returns, even when the machine never
\* becomes idle by itself (orchestrator.go:433-449); a Dispatch whose context ends
\* returns, even when the pool never has a worktree for it or a worker ignores the abort
\* (dispatcher.go:206-217).  The focus never changes, so that this is EverythingReturns
\* of Supervisor and CancelledReturns of Dispatcher.
BuildReturns == \A n \in 1..3 : Awaited(n) ~> Ended(n)

=============================================================================
