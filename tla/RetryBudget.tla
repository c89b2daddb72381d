---------------------------- MODULE RetryBudget ----------------------------
(***************************************************************************)
(* internal/orchestrator/recovery.go: what the recovery engine decides for *)
(* a task whose attempts fail, with the daemon's doctrines and its chain   *)
(* of tiers.  Counters are kept per task and class, so one task is enough. *)
(*                                                                         *)
(* HandleWorkerDeath decides in one critical section of r.mu.  Its caller  *)
(* enacts the decision; the heartbeat monitor calls it as well, always     *)
(* with tier 0, and drops the decision: it only uses up the budget.        *)
(***************************************************************************)
EXTENDS Naturals, FiniteSetsExt

CONSTANTS
    DoctrineName,       \* doctrines to choose from
    TierCount,          \* length of the tier chain
    PartialStopBefore,  \* where a partial fallback ends; 0 is the end of the chain
    MaxCount            \* bound: attempts that are told apart by a counter

ASSUME RetryAssumption ==
    /\ TierCount \in Nat \ {0} /\ PartialStopBefore \in Nat
    /\ MaxCount \in Nat /\ MaxCount > 3

VARIABLES
    doctrine,      \* plan5Doctrine.name
    retries,       \* r.retries of the task, by class
    cumulative,    \* r.cumulative of the task, by class
    attempt,       \* the tier of the attempt, and whether it is new, runs or is given up
    redispatched   \* history: how often the task was dispatched again

retryVars == <<doctrine, retries, cumulative, attempt, redispatched>>

Transient == {"transient_llm", "transient_infra"}
FailureClass == Transient \cup {"permanent_infra", "permanent_task"}
Redispatch == {"redispatch_same_tier", "redispatch_next_tier"}
RecoveryAction == Redispatch \cup
    {"escalate_l4", "skip_task", "wait_for_confirmation", "hard_pause"}
Tier == 0..(TierCount - 1)

TransientLLMRetries ==
    CASE doctrine = "max-scope" -> 3 [] doctrine = "capa-firewall" -> 0 [] OTHER -> 1

TransientInfraRetries ==
    CASE doctrine = "max-scope" -> 2 [] doctrine = "capa-firewall" -> 0 [] OTHER -> 1

PermanentAfterNRetries == IF doctrine = "capa-firewall" THEN 1 ELSE 3

OnExhaustAction(class) ==
    CASE doctrine = "max-scope" -> "escalate_l4"
      [] doctrine = "capa-firewall" -> "wait_for_confirmation"
      [] OTHER -> IF class = "permanent_infra" THEN "hard_pause" ELSE "skip_task"

TierFallbackPolicy ==
    CASE doctrine = "max-scope" -> "full" [] doctrine = "capa-firewall" -> "none"
      [] OTHER -> "partial"

\* AdaptTierChain.
PartialStop == IF PartialStopBefore \in 1..TierCount THEN PartialStopBefore ELSE TierCount

RetryInit ==
    /\ doctrine \in DoctrineName
    /\ retries = [c \in Transient |-> 0] /\ cumulative = [c \in Transient |-> 0]
    /\ attempt = [tier |-> 0, at |-> "new"] /\ redispatched = 0

-----------------------------------------------------------------------------

\* tierChainAdapter.NextTier: the next tier, if the policy allows one.
NextTier(current) ==
    {n \in {current + 1} : \/ TierFallbackPolicy = "full" /\ n < TierCount
                           \/ TierFallbackPolicy = "partial" /\ n < PartialStop}

Budget(class) == IF class = "transient_llm" THEN TransientLLMRetries ELSE TransientInfraRetries

Decision(action, tier) == [action |-> action, tier |-> tier]

\* Mutant: the tier's budget starts again for any class.
TransientRefills(class, tier) ==
    IF retries[class] + 1 <= Budget(class) THEN Decision("redispatch_same_tier", tier)
    ELSE IF NextTier(tier) # {}
         THEN Decision("redispatch_next_tier", Min(NextTier(tier)))
         ELSE Decision("redispatch_same_tier", tier)

\* handleTransientLocked, after it has counted: the budget of the tier, then the next
\* tier for LLM failures, then giving up.
HandleTransient(class, tier) ==
    IF retries[class] + 1 <= Budget(class) THEN Decision("redispatch_same_tier", tier)
    ELSE IF class = "transient_llm" /\ NextTier(tier) # {}
         THEN Decision("redispatch_next_tier", Min(NextTier(tier)))
         ELSE Decision(OnExhaustAction(IF cumulative[class] + 1 >= PermanentAfterNRetries
                                       THEN "permanent_task" ELSE class), tier)

\* computeDecisionLocked.
ComputeDecision(class, tier) ==
    CASE class \in Transient -> HandleTransient(class, tier)
      [] class = "permanent_infra" -> Decision("hard_pause", tier)
      [] OTHER -> Decision(OnExhaustAction(class), tier)

\* The two counters: only the per-tier one starts again on a new tier.
Count(class, dec) ==
    IF class \in Transient
    THEN /\ cumulative' = [cumulative EXCEPT ![class] = Min({@ + 1, MaxCount})]
         /\ retries' = [retries EXCEPT ![class] =
                IF dec.action = "redispatch_next_tier" THEN 0 ELSE Min({@ + 1, MaxCount})]
    ELSE UNCHANGED <<retries, cumulative>>

\* The attempt fails and its reporter enacts the decision.
HandleWorkerDeath(class) ==
    LET dec == ComputeDecision(class, attempt.tier) IN
    /\ attempt.at = "runs"
    /\ Count(class, dec)
    /\ attempt' = [tier |-> dec.tier,
                   at |-> IF dec.action \in Redispatch THEN "runs" ELSE "over"]
    /\ redispatched' = IF dec.action \in Redispatch THEN redispatched + 1 ELSE redispatched
    /\ UNCHANGED doctrine

\* The monitor reports the task, rightly or not, with tier 0.
HeartbeatReport ==
    /\ Count("transient_infra", ComputeDecision("transient_infra", 0))
    /\ UNCHANGED <<doctrine, attempt, redispatched>>

\* The task is dispatched for the first time.
FirstDispatch ==
    /\ attempt.at = "new" /\ attempt' = [attempt EXCEPT !.at = "runs"]
    /\ UNCHANGED <<doctrine, retries, cumulative, redispatched>>

RetryNext ==
    \/ FirstDispatch
    \/ \E c \in FailureClass : HandleWorkerDeath(c)
    \/ HeartbeatReport

RetrySpec == RetryInit /\ [][RetryNext]_retryVars

-----------------------------------------------------------------------------
(* Properties                                                              *)

\* The tiers the policy of the doctrine lets a task use.
Reachable == CASE TierFallbackPolicy = "full" -> TierCount
               [] TierFallbackPolicy = "partial" -> PartialStop
               [] OTHER -> 1

\* Counters and tiers stay in range; the tier of an attempt is one of the chain.
RetryTypeOK ==
    /\ doctrine \in DoctrineName
    /\ retries \in [Transient -> 0..MaxCount] /\ cumulative \in [Transient -> 0..MaxCount]
    /\ attempt \in [tier : Tier, at : {"new", "runs", "over"}] /\ redispatched \in Nat

\* A task that fails again and again, in any mixture of ways and with the heartbeat
\* reporting it too, is dispatched again at most as often as its doctrine says: the
\* budget once on every tier the policy allows, one more for each change of tier, and
\* the infrastructure budget once (recovery.go:376-427).
RedispatchesBounded ==
    redispatched <= Reachable * TransientLLMRetries + (Reachable - 1) + TransientInfraRetries

\* Nothing fails for ever: a task whose attempts keep failing is given up
\* ("sustained transient failure across the tier chain eventually flips",
\* recovery.go:373-376).
FailureEnds == attempt.at = "runs" ~> attempt.at = "over"

=============================================================================
