---------------------------- MODULE StateMachine ----------------------------
(***************************************************************************)
(* The supervisor state machine of internal/orchestrator/state_machine.go. *)
(* Its clients (RunStage4, the main loop, the confirmation handler, the    *)
(* cost engine) EXTEND this module and share the variable state.           *)
(***************************************************************************)
EXTENDS Naturals, FiniteSets

VARIABLE state

State == {"idle", "initializing", "running", "waiting", "degraded",
          "hard_paused", "recovering", "emergency", "aborting"}

TransitionTable ==
    [s \in State |->
        CASE s = "idle" -> {"initializing"}
          [] s = "initializing" -> {"running", "aborting"}
          [] s = "running" -> {"waiting", "degraded", "hard_paused",
                               "emergency", "aborting", "idle"}
          [] s = "waiting" -> {"running", "degraded", "aborting"}
          [] s = "degraded" -> {"running", "waiting", "hard_paused",
                                "emergency", "aborting"}
          [] s = "hard_paused" -> {"waiting", "aborting", "running"}
          [] s = "emergency" -> {"hard_paused", "aborting", "waiting"}
          [] s = "recovering" -> {"running", "degraded", "waiting", "aborting"}
          [] s = "aborting" -> {"idle"}]

IsLegal(from, to) == to \in TransitionTable[from]

\* Transition under sm.mu, its event appended: current becomes to.
Transition(to) == IsLegal(state, to) /\ state' = to

\* Transition that returns an error and leaves current alone: the context is
\* cancelled, the move is not in the table, or the append fails.
TransitionFails(to, cancelled, appendFails) ==
    /\ cancelled \/ appendFails \/ ~IsLegal(state, to)
    /\ UNCHANGED state

\* Transition by a caller that ignores the error.
TryTransition(to, cancelled, appendFails) ==
    \/ ~cancelled /\ Transition(to)
    \/ TransitionFails(to, cancelled, appendFails)

=============================================================================
