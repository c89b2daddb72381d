--------------------------- MODULE MCConfirmation ---------------------------
(* Instances of Confirmation for TLC. *)
EXTENDS Confirmation

CONSTANTS budget_breach, high_blast_radius, unlisted

ThreeClasses == {budget_breach, high_blast_radius, unlisted}
\* One class that must pause, one that may continue, one the doctrine omits.
SomeThresholds == [c \in {budget_breach, high_blast_radius} |->
                      IF c = budget_breach THEN "high" ELSE "medium"]
AllTargets == {"hard_paused", "degraded", "emergency"}
OneTarget == {"hard_paused"}
OneMode == {"paused_quiet"}
NoMode == {}

=============================================================================
