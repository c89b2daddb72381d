---------------------------- MODULE MCSupervisor ----------------------------
(* Instances of Supervisor for TLC. *)
EXTENDS Supervisor

CONSTANTS r1, r2

TwoRuns == {r1, r2}

=============================================================================
