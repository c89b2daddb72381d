---------------------------- MODULE MCCostGating ----------------------------
(* Instances of CostGating for TLC. *)
EXTENDS CostGating

Snapshot(payg, cap, spent) == [payg |-> payg, cap |-> cap, spent |-> spent]

\* No override; one that pauses early; one that loosens max-scope and default.
SomeOverrides == {[k \in {} |-> "continue"], [k \in {60} |-> "hard_pause"],
                  [k \in {100} |-> "reduce_parallelism"]}
NoOverride == {[k \in {} |-> "continue"]}

\* No cap, below, at and above the thresholds, over the cap, and pay-as-you-go.
SomeBudgets == {Snapshot(FALSE, 0, 5), Snapshot(FALSE, 7, 4), Snapshot(FALSE, 5, 3),
                Snapshot(FALSE, 7, 6), Snapshot(FALSE, 10, 9), Snapshot(FALSE, 3, 4),
                Snapshot(TRUE, 7, 1)}
FewBudgets == {Snapshot(FALSE, 7, 4), Snapshot(FALSE, 10, 9), Snapshot(FALSE, 3, 4)}

=============================================================================
