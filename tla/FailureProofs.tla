--------------------------- MODULE FailureProofs ---------------------------
(***************************************************************************)
(* Theorems about what the daemon does with failures: the circuit breakers *)
(* of ProviderCascade, the budgets of RetryBudget, the sessions of         *)
(* SubprocessManager and the threshold rows of CostGating, for any         *)
(* callers, providers, tiers, users, overrides and budgets.                *)
(***************************************************************************)
EXTENDS ProviderCascade, RetryBudget, SubprocessManager, CostGating, TLAPS

-----------------------------------------------------------------------------
(* ProviderCascade                                                         *)

\* A call that awaits a reply is at a registered provider of the cascade.
CallsRegistered ==
    \A c \in Callers : fwd[c].at = "calling" =>
        fwd[c].i <= Len(Cascade) /\ Cascade[fwd[c].i] \in Provider

\* A breaker that is not closed after the threshold was reached is suspect, open or
\* rate limited; one that is rate limited counts the limits since the last success.
LimitsCounted ==
    \A p \in Provider : breaker[p].state = "rate_limited" => breaker[p].rlAttempt > 0

CascadeInv == CascadeTypeOK /\ CallsRegistered /\ LimitsCounted /\ TripsAtThreshold

BreakerRecord == [state : BreakerState, consecF : 0..FailureThreshold,
                  rlAttempt : 0..MaxLimited, cooled : BOOLEAN, expired : BOOLEAN]

\* What CascadeInv says of one breaker.
BreakerSound(b) ==
    /\ b \in BreakerRecord
    /\ b.state = "rate_limited" => b.rlAttempt > 0
    /\ b.state = "closed" /\ b.rlAttempt = 0 => b.consecF < FailureThreshold

\* Every method of the breaker keeps its record sound, in whatever state it finds it.
LEMMA BreakerMethods ==
  ASSUME NEW b, BreakerSound(b)
  PROVE  /\ BreakerSound(Permit(b)) /\ BreakerSound(RecordSuccess(b))
         /\ BreakerSound(RecordFailure(b)) /\ BreakerSound(RecordRateLimited(b))
         /\ BreakerSound([b EXCEPT !.state = "suspect"])
         /\ BreakerSound([b EXCEPT !.state = "closed", !.consecF = 0])
         /\ BreakerSound([b EXCEPT !.state = "open", !.cooled = FALSE])
         /\ BreakerSound([b EXCEPT !.cooled = TRUE])
         /\ BreakerSound([b EXCEPT !.expired = TRUE])
<1>a. /\ FailureThreshold \in Nat /\ FailureThreshold > 0
      /\ MaxLimited \in Nat /\ MaxLimited > 0
  BY CascadeAssumption
<1>b. /\ b \in BreakerRecord /\ b.state \in BreakerState /\ b.consecF \in 0..FailureThreshold
      /\ b.rlAttempt \in 0..MaxLimited /\ b.cooled \in BOOLEAN /\ b.expired \in BOOLEAN
      /\ b.state = "rate_limited" => b.rlAttempt > 0
      /\ b.state = "closed" /\ b.rlAttempt = 0 => b.consecF < FailureThreshold
  BY DEF BreakerSound, BreakerRecord
<1>c. \A x \in BreakerState : [b EXCEPT !.state = x] \in BreakerRecord
  BY <1>b DEF BreakerRecord
<1>d. \A y \in BreakerRecord : [y EXCEPT !.consecF = 0] \in BreakerRecord
  BY <1>a DEF BreakerRecord
<1>e. \A y \in BreakerRecord, k \in 0..MaxLimited : [y EXCEPT !.rlAttempt = k] \in BreakerRecord
  BY <1>a DEF BreakerRecord
<1>f. 0 \in 0..MaxLimited
  BY <1>a
<1>1. BreakerSound(Permit(b))
  <2>1. CASE b.state = "rate_limited" /\ b.expired
    <3> DEFINE x == [b EXCEPT !.state = "closed"]
    <3>1. x \in BreakerRecord /\ x.rlAttempt = b.rlAttempt
      BY <1>b, <1>c DEF BreakerState, BreakerRecord
    <3>2. x.rlAttempt # 0 /\ x.state = "closed"
      BY <1>b, <2>1, <3>1 DEF BreakerRecord
    <3> QED BY <2>1, <3>1, <3>2 DEF BreakerSound, Permit
  <2>2. CASE ~(b.state = "rate_limited" /\ b.expired)
    BY <2>2 DEF Permit
  <2> QED BY <2>1, <2>2
<1>2. BreakerSound(RecordSuccess(b))
  <2> DEFINE x == RecordSuccess(b)
  <2>1. /\ x.state = "closed" /\ x.consecF = 0 /\ x.rlAttempt = 0
        /\ x.cooled = b.cooled /\ x.expired = b.expired
    BY <1>b DEF RecordSuccess, BreakerRecord
  <2>2. x = [[[b EXCEPT !.state = "closed"] EXCEPT !.consecF = 0] EXCEPT !.rlAttempt = 0]
    BY DEF RecordSuccess
  <2>3. x \in BreakerRecord
    <3> HIDE DEF x
    <3>1. [b EXCEPT !.state = "closed"] \in BreakerRecord
      BY <1>c DEF BreakerState
    <3>2. [[b EXCEPT !.state = "closed"] EXCEPT !.consecF = 0] \in BreakerRecord
      BY <1>d, <3>1
    <3> QED BY <1>e, <1>f, <2>2, <3>2
  <2> HIDE DEF x
  <2>4. BreakerSound(x)
    BY <1>a, <2>1, <2>3 DEF BreakerSound
  <2> QED BY <2>4 DEF x
<1>3. BreakerSound(RecordFailure(b))
  <2> DEFINE n == AtMost(b.consecF + 1, FailureThreshold)
             st == IF b.state = "closed" /\ n >= FailureThreshold THEN "suspect" ELSE b.state
             x == RecordFailure(b)
  <2>1. n \in 0..FailureThreshold /\ st \in BreakerState
    BY <1>a, <1>b DEF AtMost, BreakerState
  <2>2. /\ x.state = st /\ x.consecF = n /\ x.rlAttempt = b.rlAttempt
        /\ x.cooled = b.cooled /\ x.expired = b.expired
    BY <1>b DEF RecordFailure, BreakerRecord
  <2>3. x = [[b EXCEPT !.consecF = n] EXCEPT !.state = st]
    BY <1>b DEF RecordFailure, BreakerRecord
  <2>4. x \in BreakerRecord
    <3> HIDE DEF n, st, x
    <3>1. [b EXCEPT !.consecF = n] \in BreakerRecord
      BY <1>b, <2>1 DEF BreakerRecord
    <3> QED BY <2>1, <2>3, <3>1 DEF BreakerRecord
  <2>5. /\ st = "rate_limited" => b.rlAttempt > 0
        /\ st = "closed" /\ b.rlAttempt = 0 => n < FailureThreshold
    BY <1>a, <1>b, <2>1
  <2> HIDE DEF n, st, x
  <2> QED BY <2>2, <2>4, <2>5 DEF BreakerSound, x
<1>4. BreakerSound(RecordRateLimited(b))
  <2> DEFINE k == AtMost(b.rlAttempt + 1, MaxLimited)
             x == RecordRateLimited(b)
  <2>1. k \in 0..MaxLimited /\ k > 0
    BY <1>a, <1>b DEF AtMost
  <2>2. x.state = "rate_limited" /\ x.rlAttempt = k
    BY <1>b DEF RecordRateLimited, BreakerRecord
  <2>3. x = [[[b EXCEPT !.state = "rate_limited"] EXCEPT !.expired = FALSE] EXCEPT !.rlAttempt = k]
    BY <1>b DEF RecordRateLimited, BreakerRecord
  <2>4. x \in BreakerRecord
    <3> HIDE DEF k, x
    <3>1. [b EXCEPT !.state = "rate_limited"] \in BreakerRecord
      BY <1>c DEF BreakerState
    <3>2. [[b EXCEPT !.state = "rate_limited"] EXCEPT !.expired = FALSE] \in BreakerRecord
      BY <3>1 DEF BreakerRecord
    <3> QED BY <2>1, <2>3, <3>2 DEF BreakerRecord
  <2> HIDE DEF k, x
  <2> QED BY <2>1, <2>2, <2>4 DEF BreakerSound, x
<1>5. BreakerSound([b EXCEPT !.state = "suspect"])
  BY <1>b, <1>c DEF BreakerSound, BreakerState, BreakerRecord
<1>6. BreakerSound([b EXCEPT !.state = "closed", !.consecF = 0])
  <2> DEFINE x == [b EXCEPT !.state = "closed", !.consecF = 0]
  <2>1. x.state = "closed" /\ x.consecF = 0
    BY <1>b DEF BreakerRecord
  <2>2. x = [[b EXCEPT !.state = "closed"] EXCEPT !.consecF = 0]
    OBVIOUS
  <2>3. x \in BreakerRecord
    <3> HIDE DEF x
    <3>1. [b EXCEPT !.state = "closed"] \in BreakerRecord
      BY <1>c DEF BreakerState
    <3> QED BY <1>d, <2>2, <3>1
  <2> HIDE DEF x
  <2>4. BreakerSound(x)
    BY <1>a, <2>1, <2>3 DEF BreakerSound
  <2> QED BY <2>4 DEF x
<1>7. BreakerSound([b EXCEPT !.state = "open", !.cooled = FALSE])
  BY <1>b DEF BreakerSound, BreakerState, BreakerRecord
<1>8. BreakerSound([b EXCEPT !.cooled = TRUE]) /\ BreakerSound([b EXCEPT !.expired = TRUE])
  BY <1>b DEF BreakerSound, BreakerRecord
<1> QED BY <1>1, <1>2, <1>3, <1>4, <1>5, <1>6, <1>7, <1>8

\* CascadeInv is about each breaker and each call by itself.
LEMMA CascadeInvIs ==
  CascadeInv <=>
    /\ breaker = [p \in Provider |-> breaker[p]] /\ \A p \in Provider : BreakerSound(breaker[p])
    /\ fwd \in [Callers -> [at : {"idle", "choose", "calling"}, i : 1..(Len(Cascade) + 1)]]
    /\ probing \in [Probers -> SUBSET Provider]
    /\ CallsRegistered
BY DEF CascadeInv, CascadeTypeOK, LimitsCounted, TripsAtThreshold, BreakerSound, BreakerRecord

LEMMA CascadeInitInv == CascadeInit => CascadeInv
<1> SUFFICES ASSUME CascadeInit PROVE CascadeInv
  OBVIOUS
<1>1. Len(Cascade) \in Nat /\ FailureThreshold \in Nat /\ FailureThreshold > 0 /\ MaxLimited \in Nat
  BY CascadeAssumption
<1>2. \A p \in Provider : BreakerSound(breaker[p])
  <2>1. FreshBreaker \in BreakerRecord /\ BreakerSound(FreshBreaker)
    BY <1>1 DEF BreakerSound, BreakerRecord, BreakerState, FreshBreaker
  <2> QED BY <2>1 DEF CascadeInit
<1>3. NoForward \in [at : {"idle", "choose", "calling"}, i : 1..(Len(Cascade) + 1)]
  BY <1>1 DEF NoForward
<1> QED BY <1>2, <1>3, CascadeInvIs DEF CascadeInit, CallsRegistered, NoForward

\* A step that replaces one breaker by a sound one and leaves the calls in order keeps
\* the invariant.
LEMMA OneBreaker ==
  ASSUME CascadeInv, NEW p \in Provider, NEW b, BreakerSound(b),
         breaker' = [breaker EXCEPT ![p] = b]
  PROVE  breaker' = [q \in Provider |-> breaker'[q]] /\ \A q \in Provider : BreakerSound(breaker'[q])
<1>1. breaker = [q \in Provider |-> breaker[q]] /\ \A q \in Provider : BreakerSound(breaker[q])
  BY CascadeInvIs
<1> QED BY <1>1

LEMMA CascadeStepInv == CascadeInv /\ [CascadeNext]_cascadeVars => CascadeInv'
<1> SUFFICES ASSUME CascadeInv, [CascadeNext]_cascadeVars PROVE CascadeInv'
  OBVIOUS
<1> DEFINE Fwd == [at : {"idle", "choose", "calling"}, i : 1..(Len(Cascade) + 1)]
           Breakers == breaker = [p \in Provider |-> breaker[p]]
                          /\ \A p \in Provider : BreakerSound(breaker[p])
<1>1. /\ Breakers /\ fwd \in [Callers -> Fwd] /\ probing \in [Probers -> SUBSET Provider]
      /\ CallsRegistered /\ Len(Cascade) \in Nat
  BY CascadeInvIs, CascadeAssumption
<1>2. SUFFICES Breakers' /\ fwd' \in [Callers -> Fwd] /\ probing' \in [Probers -> SUBSET Provider]
               /\ CallsRegistered'
  BY DEF CascadeInv, CascadeTypeOK, LimitsCounted, TripsAtThreshold, BreakerSound, BreakerRecord
<1>3. NoForward \in Fwd /\ NoForward.at = "idle"
  BY <1>1 DEF NoForward
<1>4. CASE UNCHANGED cascadeVars
  BY <1>1, <1>4 DEF cascadeVars, CallsRegistered
<1>5. ASSUME NEW c \in Callers, ForwardStart(c)
      PROVE  Breakers' /\ fwd' \in [Callers -> Fwd] /\ probing' = probing /\ CallsRegistered'
  BY <1>1, <1>5 DEF ForwardStart, CallsRegistered
<1>6. ASSUME NEW c \in Callers, Choose(c)
      PROVE  Breakers' /\ fwd' \in [Callers -> Fwd] /\ probing' = probing /\ CallsRegistered'
  <2> DEFINE p == Cascade[fwd[c].i]
  <2>1. /\ fwd[c].at = "choose" /\ fwd[c].i <= Len(Cascade) /\ probing' = probing
        /\ fwd[c] \in Fwd /\ fwd[c].i + 1 \in 1..(Len(Cascade) + 1)
    BY <1>1, <1>6 DEF Choose
  <2>2. CASE p \notin Provider
    <3>1. fwd' = [fwd EXCEPT ![c].i = @ + 1] /\ breaker' = breaker
      BY <1>6, <2>2 DEF Choose
    <3> QED BY <1>1, <2>1, <3>1 DEF CallsRegistered
  <2>3. CASE p \in Provider
    <3>1. /\ breaker' = [breaker EXCEPT ![p] = Permit(breaker[p])]
          /\ \/ fwd' = [fwd EXCEPT ![c].at = "calling"]
             \/ fwd' = [fwd EXCEPT ![c].i = @ + 1]
      BY <1>6, <2>3 DEF Choose
    <3>2. Breakers'
      <4>1. BreakerSound(Permit(breaker[p]))
        BY <1>1, <2>3, BreakerMethods
      <4> QED BY <2>3, <3>1, <4>1, OneBreaker
    <3>3. fwd' \in [Callers -> Fwd] /\ CallsRegistered'
      <4>1. CASE fwd' = [fwd EXCEPT ![c].at = "calling"]
        BY <1>1, <2>1, <2>3, <4>1 DEF CallsRegistered
      <4>2. CASE fwd' = [fwd EXCEPT ![c].i = @ + 1]
        BY <1>1, <2>1, <4>2 DEF CallsRegistered
      <4> QED BY <3>1, <4>1, <4>2
    <3> QED BY <2>1, <3>2, <3>3
  <2> QED BY <2>2, <2>3
<1>7. ASSUME NEW c \in Callers, Reply(c)
      PROVE  Breakers' /\ fwd' \in [Callers -> Fwd] /\ probing' = probing /\ CallsRegistered'
  <2> DEFINE p == Cascade[fwd[c].i]
  <2>1. /\ fwd[c].at = "calling" /\ fwd[c].i <= Len(Cascade) /\ p \in Provider /\ probing' = probing
        /\ fwd[c] \in Fwd /\ fwd[c].i + 1 \in 1..(Len(Cascade) + 1)
    BY <1>1, <1>7 DEF Reply, CallsRegistered
  <2>2. Breakers'
    <3>1. /\ BreakerSound(RecordSuccess(breaker[p])) /\ BreakerSound(RecordFailure(breaker[p]))
          /\ BreakerSound(RecordRateLimited(breaker[p]))
      BY <1>1, <2>1, BreakerMethods
    <3>2. \/ breaker' = [breaker EXCEPT ![p] = RecordSuccess(breaker[p])]
          \/ breaker' = [breaker EXCEPT ![p] = RecordFailure(breaker[p])]
          \/ breaker' = [breaker EXCEPT ![p] = RecordRateLimited(breaker[p])]
          \/ breaker' = breaker
      BY <1>7 DEF Reply
    <3>3. CASE breaker' = breaker
      BY <1>1, <3>3
    <3> QED BY <2>1, <3>1, <3>2, <3>3, OneBreaker
  <2>3. \/ fwd' = [fwd EXCEPT ![c] = NoForward]
        \/ fwd' = [fwd EXCEPT ![c].at = "choose", ![c].i = @ + 1]
    BY <1>7 DEF Reply
  <2>4. fwd' \in [Callers -> Fwd] /\ CallsRegistered'
    <3>1. CASE fwd' = [fwd EXCEPT ![c] = NoForward]
      BY <1>1, <1>3, <3>1 DEF CallsRegistered
    <3>2. CASE fwd' = [fwd EXCEPT ![c].at = "choose", ![c].i = @ + 1]
      <4>1. fwd' = [fwd EXCEPT ![c] = [at |-> "choose", i |-> fwd[c].i + 1]]
        BY <1>1, <2>1, <3>2
      <4> QED BY <1>1, <2>1, <4>1 DEF CallsRegistered
    <3> QED BY <2>3, <3>1, <3>2
  <2> QED BY <2>1, <2>2, <2>4
<1>8. ASSUME NEW c \in Callers, Exhausted(c)
      PROVE  Breakers' /\ fwd' \in [Callers -> Fwd] /\ probing' = probing /\ CallsRegistered'
  BY <1>1, <1>3, <1>8 DEF Exhausted, CallsRegistered
<1>9. ASSUME NEW x \in Probers, NEW p \in Provider,
             ProbeStart(x, p) \/ ProbeHeals(x, p) \/ ProbeFails(x, p)
      PROVE  Breakers' /\ fwd' = fwd /\ probing' \in [Probers -> SUBSET Provider]
  <2>1. /\ BreakerSound([breaker[p] EXCEPT !.state = "suspect"])
        /\ BreakerSound([breaker[p] EXCEPT !.state = "closed", !.consecF = 0])
        /\ BreakerSound([breaker[p] EXCEPT !.state = "open", !.cooled = FALSE])
    BY <1>1, BreakerMethods
  <2>2. /\ fwd' = fwd /\ probing' \in [Probers -> SUBSET Provider]
        /\ \/ breaker' = [breaker EXCEPT ![p] = [breaker[p] EXCEPT !.state = "suspect"]]
           \/ breaker' = [breaker EXCEPT ![p] = [breaker[p] EXCEPT !.state = "closed", !.consecF = 0]]
           \/ breaker' = [breaker EXCEPT ![p] = [breaker[p] EXCEPT !.state = "open", !.cooled = FALSE]]
    BY <1>1, <1>9 DEF ProbeStart, ProbeHeals, ProbeFails
  <2> QED BY <2>1, <2>2, OneBreaker
<1>10. ASSUME NEW p \in Provider, CoolDown(p) \/ LimitExpires(p)
       PROVE  Breakers' /\ fwd' = fwd /\ probing' = probing
  <2>1. /\ BreakerSound([breaker[p] EXCEPT !.cooled = TRUE])
        /\ BreakerSound([breaker[p] EXCEPT !.expired = TRUE])
    BY <1>1, BreakerMethods
  <2>2. /\ fwd' = fwd /\ probing' = probing
        /\ \/ breaker' = [breaker EXCEPT ![p] = [breaker[p] EXCEPT !.cooled = TRUE]]
           \/ breaker' = [breaker EXCEPT ![p] = [breaker[p] EXCEPT !.expired = TRUE]]
    BY <1>10 DEF CoolDown, LimitExpires
  <2> QED BY <2>1, <2>2, OneBreaker
<1> QED
  BY <1>1, <1>4, <1>5, <1>6, <1>7, <1>8, <1>9, <1>10
     DEF CascadeNext, ForwardStep, CallsRegistered

\* A provider with FailureThreshold failures in a row is not permitted, for any cascade,
\* callers, probers and threshold, unless a rate limit that no success has followed came
\* in between (circuit_breaker.go:133-174, 191-235).
THEOREM BreakerCorrect == CascadeSpec => []TripsAtThreshold
<1>1. CascadeInv => TripsAtThreshold
  BY DEF CascadeInv
<1> QED BY CascadeInitInv, CascadeStepInv, <1>1, PTL DEF CascadeSpec

-----------------------------------------------------------------------------
(* RetryBudget                                                             *)

\* What an attempt on this tier may have cost already: a change of tier and the LLM
\* budget for every tier below, and what is counted on this one.
SpentAtMost ==
    redispatched <= attempt.tier * (TransientLLMRetries + 1)
                      + AtMost(retries["transient_llm"], TransientLLMRetries)
                      + AtMost(retries["transient_infra"], TransientInfraRetries)

RetryInv == RetryTypeOK /\ attempt.tier < Reachable /\ SpentAtMost

\* The least of two numbers and of one.
LEMMA SmallerOfTwo ==
  ASSUME NEW a \in Nat, NEW b \in Nat
  PROVE  Min({a, b}) = AtMost(a, b)
BY DEF Min, AtMost

LEMMA MinOfOne ==
  ASSUME NEW a \in Nat
  PROVE  Min({a}) = a
BY DEF Min

\* The doctrines differ in their budgets and in the tiers a task may use.
LEMMA Doctrines ==
  /\ TransientLLMRetries \in {0, 1, 3} /\ TransientInfraRetries \in {0, 1, 2}
  /\ Reachable \in 1..TierCount
  /\ \A t \in Nat : NextTier(t) = IF t + 1 < Reachable THEN {t + 1} ELSE {}
<1>1. TierCount \in Nat /\ TierCount > 0 /\ PartialStopBefore \in Nat
  BY RetryAssumption
<1>2. TransientLLMRetries \in {0, 1, 3}
  BY DEF TransientLLMRetries
<1>3. TransientInfraRetries \in {0, 1, 2}
  BY DEF TransientInfraRetries
<1>4. PartialStop \in 1..TierCount
  BY <1>1 DEF PartialStop
<1>5. CASE doctrine = "max-scope"
  <2>1. TierFallbackPolicy = "full"
    BY <1>5 DEF TierFallbackPolicy
  <2> QED BY <1>1, <1>2, <1>3, <2>1 DEF Reachable, NextTier
<1>6. CASE doctrine # "max-scope" /\ doctrine = "capa-firewall"
  <2>1. TierFallbackPolicy = "none"
    BY <1>6 DEF TierFallbackPolicy
  <2> QED BY <1>1, <1>2, <1>3, <2>1 DEF Reachable, NextTier
<1>7. CASE doctrine # "max-scope" /\ doctrine # "capa-firewall"
  <2>1. TierFallbackPolicy = "partial"
    BY <1>7 DEF TierFallbackPolicy
  <2> QED BY <1>1, <1>2, <1>3, <1>4, <2>1 DEF Reachable, NextTier
<1> QED BY <1>5, <1>6, <1>7

LEMMA RetryInitInv == RetryInit => RetryInv
<1> SUFFICES ASSUME RetryInit PROVE RetryInv
  OBVIOUS
<1>1. TierCount \in Nat /\ TierCount > 0 /\ MaxCount \in Nat
  BY RetryAssumption
<1>2. RetryTypeOK
  BY <1>1 DEF RetryInit, RetryTypeOK, Tier
<1>3. attempt.tier = 0 /\ redispatched = 0 /\ \A c \in Transient : retries[c] = 0
  BY DEF RetryInit
<1>4. SpentAtMost
  BY <1>3, Doctrines DEF SpentAtMost, AtMost, Transient
<1> QED BY <1>2, <1>3, <1>4, Doctrines DEF RetryInv

\* The counters after a step: capped increments, and 0 for LLM failures on a new tier.
LEMMA CountStep ==
  ASSUME RetryTypeOK, NEW class \in FailureClass, NEW t \in Nat, NEW action,
         Count(class, Decision(action, t))
  PROVE  /\ retries' \in [Transient -> 0..MaxCount] /\ cumulative' \in [Transient -> 0..MaxCount]
         /\ \A c \in Transient :
               retries'[c] = IF c # class THEN retries[c]
                             ELSE IF action = "redispatch_next_tier" THEN 0
                             ELSE AtMost(retries[c] + 1, MaxCount)
<1>1. /\ MaxCount \in Nat /\ retries \in [Transient -> 0..MaxCount]
      /\ cumulative \in [Transient -> 0..MaxCount]
  BY RetryAssumption DEF RetryTypeOK
<1>2. \A n \in 0..MaxCount : /\ Min({n + 1, MaxCount}) = AtMost(n + 1, MaxCount)
                             /\ AtMost(n + 1, MaxCount) \in 0..MaxCount
  <2>1. \A n \in 0..MaxCount : n + 1 \in Nat /\ AtMost(n + 1, MaxCount) \in 0..MaxCount
    BY <1>1 DEF AtMost
  <2> QED BY <1>1, <2>1, SmallerOfTwo
<1>3. CASE class \notin Transient
  BY <1>1, <1>3 DEF Count
<1>4. CASE class \in Transient
  <2>1. /\ cumulative' = [cumulative EXCEPT ![class] = Min({cumulative[class] + 1, MaxCount})]
        /\ retries' = [retries EXCEPT ![class] =
                          IF action = "redispatch_next_tier" THEN 0
                          ELSE Min({retries[class] + 1, MaxCount})]
    BY <1>4 DEF Count, Decision
  <2> QED BY <1>1, <1>2, <1>4, <2>1
<1> QED BY <1>3, <1>4

\* What is decided for a class on a tier.
LEMMA DecisionIs ==
  ASSUME NEW class \in FailureClass, NEW t \in Nat
  PROVE  LET dec == ComputeDecision(class, t) IN
         /\ dec = Decision(dec.action, dec.tier)
         /\ dec.action \in Redispatch => class \in Transient
         /\ dec.action = "redispatch_same_tier" => dec.tier = t /\ retries[class] + 1 <= Budget(class)
         /\ dec.action = "redispatch_next_tier" =>
               /\ class = "transient_llm" /\ dec.tier = t + 1 /\ t + 1 < Reachable
               /\ ~(retries[class] + 1 <= Budget(class))
         /\ dec.action \notin Redispatch => dec.tier = t
<1> DEFINE dec == ComputeDecision(class, t)
<1>1. \A c : OnExhaustAction(c) \notin Redispatch
  BY DEF OnExhaustAction, Redispatch
<1>2. CASE class \notin Transient
  <2>1. \/ dec = Decision("hard_pause", t)
        \/ dec = Decision(OnExhaustAction(class), t)
    BY <1>2 DEF ComputeDecision
  <2> QED BY <1>1, <2>1 DEF Decision, Redispatch
<1>3. CASE class \in Transient
  <2>1. dec = HandleTransient(class, t)
    BY <1>3 DEF ComputeDecision, Transient
  <2>2. CASE retries[class] + 1 <= Budget(class)
    <3>1. dec = Decision("redispatch_same_tier", t)
      BY <2>1, <2>2 DEF HandleTransient
    <3> QED BY <1>3, <2>2, <3>1 DEF Decision, Redispatch
  <2>3. CASE ~(retries[class] + 1 <= Budget(class)) /\ class = "transient_llm" /\ NextTier(t) # {}
    <3>1. NextTier(t) = {t + 1} /\ t + 1 < Reachable /\ t + 1 \in Nat
      BY <2>3, Doctrines
    <3>2. dec = Decision("redispatch_next_tier", t + 1)
      BY <2>1, <2>3, <3>1, MinOfOne DEF HandleTransient
    <3> QED BY <1>3, <2>3, <3>1, <3>2 DEF Decision, Redispatch
  <2>4. CASE /\ ~(retries[class] + 1 <= Budget(class))
             /\ ~(class = "transient_llm" /\ NextTier(t) # {})
    <3>1. \E c : dec = Decision(OnExhaustAction(c), t)
      BY <2>1, <2>4 DEF HandleTransient
    <3> QED BY <1>1, <3>1 DEF Decision, Redispatch
  <2> QED BY <2>2, <2>3, <2>4
<1> QED BY <1>2, <1>3

\* The tiers, counters and attempts after a failure.
LEMMA FailureSpends ==
  ASSUME RetryInv, NEW class \in FailureClass, HandleWorkerDeath(class)
  PROVE  RetryInv'
<1> DEFINE dec == ComputeDecision(class, attempt.tier)
           L == TransientLLMRetries
           I == TransientInfraRetries
<1>1. /\ TierCount \in Nat /\ MaxCount \in Nat /\ MaxCount > 3
  BY RetryAssumption
<1>2. /\ attempt.tier \in 0..(TierCount - 1) /\ attempt.tier \in Nat /\ redispatched \in Nat
      /\ retries \in [Transient -> 0..MaxCount] /\ doctrine \in DoctrineName
      /\ attempt.tier < Reachable /\ Reachable \in 1..TierCount
      /\ L \in {0, 1, 3} /\ I \in {0, 1, 2}
  BY <1>1, Doctrines DEF RetryInv, RetryTypeOK, Tier
<1>3. /\ doctrine' = doctrine /\ Count(class, dec)
      /\ attempt' = [tier |-> dec.tier, at |-> IF dec.action \in Redispatch THEN "runs" ELSE "over"]
      /\ redispatched' = IF dec.action \in Redispatch THEN redispatched + 1 ELSE redispatched
  BY DEF HandleWorkerDeath
<1>4. L' = L /\ I' = I /\ Reachable' = Reachable
  BY <1>3 DEF TransientLLMRetries, TransientInfraRetries, Reachable, TierFallbackPolicy
<1>5. /\ dec = Decision(dec.action, dec.tier)
      /\ dec.action \in Redispatch => class \in Transient
      /\ dec.action = "redispatch_same_tier" =>
            dec.tier = attempt.tier /\ retries[class] + 1 <= Budget(class)
      /\ dec.action = "redispatch_next_tier" =>
            /\ class = "transient_llm" /\ dec.tier = attempt.tier + 1 /\ attempt.tier + 1 < Reachable
            /\ ~(retries[class] + 1 <= Budget(class))
      /\ dec.action \notin Redispatch => dec.tier = attempt.tier
  BY <1>2, DecisionIs
<1> HIDE DEF dec, L, I
<1>6. dec.tier \in Tier /\ dec.tier < Reachable /\ dec.tier \in Nat
  BY <1>1, <1>2, <1>5 DEF Redispatch, Tier
<1>7. /\ retries' \in [Transient -> 0..MaxCount] /\ cumulative' \in [Transient -> 0..MaxCount]
      /\ \A c \in Transient :
            retries'[c] = IF c # class THEN retries[c]
                          ELSE IF dec.action = "redispatch_next_tier" THEN 0
                          ELSE AtMost(retries[c] + 1, MaxCount)
  BY <1>3, <1>5, <1>6, CountStep DEF RetryInv
<1>8. RetryTypeOK'
  BY <1>2, <1>3, <1>6, <1>7 DEF RetryTypeOK
<1>9. attempt'.tier = dec.tier
  BY <1>3
<1>10. SpentAtMost'
  <2> DEFINE x == retries["transient_llm"]
             y == retries["transient_infra"]
             x2 == retries'["transient_llm"]
             y2 == retries'["transient_infra"]
  <2>1. x \in Nat /\ y \in Nat
    BY <1>2 DEF Transient
  <2>2. redispatched <= attempt.tier * (L + 1) + AtMost(x, L) + AtMost(y, I)
    BY DEF RetryInv, SpentAtMost, L, I
  <2>3. SUFFICES redispatched' <= dec.tier * (L + 1) + AtMost(x2, L) + AtMost(y2, I)
    BY <1>4, <1>9 DEF SpentAtMost, L, I
  <2>4. /\ x2 = IF class # "transient_llm" THEN x
                ELSE IF dec.action = "redispatch_next_tier" THEN 0 ELSE AtMost(x + 1, MaxCount)
        /\ y2 = IF class # "transient_infra" THEN y
                ELSE IF dec.action = "redispatch_next_tier" THEN 0 ELSE AtMost(y + 1, MaxCount)
    BY <1>7 DEF Transient
  <2>5. Budget("transient_llm") = L /\ Budget("transient_infra") = I
    BY DEF Budget, L, I
  <2> HIDE DEF x, y, x2, y2
  <2>5a. /\ AtMost(x, L) \in Nat /\ AtMost(y, I) \in Nat
         /\ AtMost(x2, L) \in Nat /\ AtMost(y2, I) \in Nat /\ attempt.tier * (L + 1) \in Nat
    BY <1>1, <1>2, <2>1, <2>4 DEF AtMost
  <2>6. CASE dec.action = "redispatch_same_tier"
    <3>1. dec.tier = attempt.tier /\ redispatched' = redispatched + 1
          /\ class \in {"transient_llm", "transient_infra"}
      BY <1>3, <1>5, <2>6 DEF Redispatch, Transient
    <3>2. CASE class = "transient_llm"
      <4>1. x + 1 <= L /\ x2 = AtMost(x + 1, MaxCount) /\ y2 = y
        BY <1>5, <2>4, <2>5, <2>6, <3>2 DEF x
      <4>2. AtMost(x2, L) = AtMost(x, L) + 1
        BY <1>1, <1>2, <2>1, <4>1 DEF AtMost
      <4> QED BY <1>2, <2>2, <2>5a, <3>1, <4>1, <4>2
    <3>3. CASE class = "transient_infra"
      <4>1. y + 1 <= I /\ y2 = AtMost(y + 1, MaxCount) /\ x2 = x
        BY <1>5, <2>4, <2>5, <2>6, <3>3 DEF y
      <4>2. AtMost(y2, I) = AtMost(y, I) + 1
        BY <1>1, <1>2, <2>1, <4>1 DEF AtMost
      <4> QED BY <1>2, <2>2, <2>5a, <3>1, <4>1, <4>2
    <3> QED BY <3>1, <3>2, <3>3
  <2>7. CASE dec.action = "redispatch_next_tier"
    <3>1. /\ dec.tier = attempt.tier + 1 /\ redispatched' = redispatched + 1
          /\ ~(x + 1 <= L) /\ x2 = 0 /\ y2 = y
      BY <1>3, <1>5, <2>4, <2>5, <2>7 DEF Redispatch, x
    <3>2. AtMost(x, L) = L /\ AtMost(x2, L) = 0
      BY <1>2, <2>1, <3>1 DEF AtMost
    <3>3. (attempt.tier + 1) * (L + 1) = attempt.tier * (L + 1) + L + 1
      BY <1>2
    <3> QED BY <1>2, <2>2, <2>5a, <3>1, <3>2, <3>3
  <2>8. CASE dec.action \notin Redispatch
    <3>1. dec.tier = attempt.tier /\ redispatched' = redispatched
      BY <1>3, <1>5, <2>8
    <3>2. AtMost(x, L) <= AtMost(x2, L) /\ AtMost(y, I) <= AtMost(y2, I)
      BY <1>1, <1>2, <2>1, <2>4, <2>8 DEF AtMost, Redispatch
    <3> QED BY <1>2, <2>2, <2>5a, <3>1, <3>2
  <2> QED BY <2>6, <2>7, <2>8 DEF Redispatch
<1> QED BY <1>4, <1>6, <1>8, <1>9, <1>10 DEF RetryInv

LEMMA RetryStepInv == RetryInv /\ [RetryNext]_retryVars => RetryInv'
<1> SUFFICES ASSUME RetryInv, [RetryNext]_retryVars PROVE RetryInv'
  OBVIOUS
<1>1. ASSUME doctrine' = doctrine
      PROVE  /\ TransientLLMRetries' = TransientLLMRetries /\ Reachable' = Reachable
             /\ TransientInfraRetries' = TransientInfraRetries
  BY <1>1 DEF TransientLLMRetries, TransientInfraRetries, Reachable, TierFallbackPolicy
<1>2. CASE UNCHANGED retryVars
  BY <1>1, <1>2 DEF retryVars, RetryInv, RetryTypeOK, SpentAtMost
<1>3. CASE FirstDispatch
  <2>1. attempt \in [tier : Tier, at : {"new", "runs", "over"}]
    BY DEF RetryInv, RetryTypeOK
  <2>2. /\ attempt'.tier = attempt.tier /\ attempt' \in [tier : Tier, at : {"new", "runs", "over"}]
        /\ doctrine' = doctrine /\ retries' = retries /\ cumulative' = cumulative
        /\ redispatched' = redispatched
    BY <1>3, <2>1 DEF FirstDispatch
  <2> QED BY <1>1, <2>2 DEF RetryInv, RetryTypeOK, SpentAtMost
<1>4. ASSUME NEW c \in FailureClass, HandleWorkerDeath(c) PROVE RetryInv'
  BY <1>4, FailureSpends
<1>5. CASE HeartbeatReport
  <2> DEFINE dec == ComputeDecision("transient_infra", 0)
             x == retries["transient_llm"]
             y == retries["transient_infra"]
             y2 == retries'["transient_infra"]
  <2>1. "transient_infra" \in FailureClass /\ "transient_infra" # "transient_llm"
    BY DEF FailureClass, Transient
  <2>2. dec = Decision(dec.action, dec.tier) /\ dec.action # "redispatch_next_tier" /\ dec.tier = 0
    BY <2>1, DecisionIs DEF Redispatch
  <2>3. /\ doctrine' = doctrine /\ attempt' = attempt /\ redispatched' = redispatched
        /\ Count("transient_infra", dec)
    BY <1>5 DEF HeartbeatReport
  <2> HIDE DEF dec
  <2>4. /\ retries' \in [Transient -> 0..MaxCount] /\ cumulative' \in [Transient -> 0..MaxCount]
        /\ \A c \in Transient : retries'[c] = IF c # "transient_infra" THEN retries[c]
                                              ELSE AtMost(retries[c] + 1, MaxCount)
    BY <2>1, <2>2, <2>3, CountStep DEF RetryInv
  <2>5. retries'["transient_llm"] = x /\ y2 = AtMost(y + 1, MaxCount)
    BY <2>4 DEF Transient
  <2>6. y \in 0..MaxCount /\ MaxCount \in Nat /\ x \in Nat /\ MaxCount > 3
    BY RetryAssumption DEF RetryInv, RetryTypeOK, Transient
  <2>7. /\ AtMost(y, TransientInfraRetries) <= AtMost(y2, TransientInfraRetries)
        /\ AtMost(y, TransientInfraRetries) \in Nat /\ AtMost(y2, TransientInfraRetries) \in Nat
        /\ AtMost(x, TransientLLMRetries) \in Nat
    BY <2>5, <2>6, Doctrines DEF AtMost
  <2>8. attempt.tier \in Nat /\ redispatched \in Nat /\ attempt.tier * (TransientLLMRetries + 1) \in Nat
    <3>1. attempt.tier \in Nat /\ redispatched \in Nat
      BY RetryAssumption DEF RetryInv, RetryTypeOK, Tier
    <3> QED BY <3>1, Doctrines
  <2>9. redispatched <= attempt.tier * (TransientLLMRetries + 1)
                          + AtMost(x, TransientLLMRetries) + AtMost(y, TransientInfraRetries)
    BY DEF RetryInv, SpentAtMost
  <2>10. redispatched <= attempt.tier * (TransientLLMRetries + 1)
                          + AtMost(x, TransientLLMRetries) + AtMost(y2, TransientInfraRetries)
    BY <2>7, <2>8, <2>9
  <2>11. SpentAtMost'
    BY <1>1, <2>3, <2>5, <2>10 DEF SpentAtMost
  <2> QED BY <1>1, <2>3, <2>4, <2>11 DEF RetryInv, RetryTypeOK
<1> QED BY <1>2, <1>3, <1>4, <1>5 DEF RetryNext

\* The budget of the invariant is within the bound of the property.
LEMMA SpentWithin == RetryInv => RedispatchesBounded
<1> SUFFICES ASSUME RetryInv PROVE RedispatchesBounded
  OBVIOUS
<1> DEFINE L == TransientLLMRetries
           I == TransientInfraRetries
           x == AtMost(retries["transient_llm"], L)
           y == AtMost(retries["transient_infra"], I)
           t == attempt.tier
<1>1. /\ t \in Nat /\ redispatched \in Nat /\ t < Reachable /\ Reachable \in Nat
      /\ L \in {0, 1, 3} /\ I \in {0, 1, 2}
      /\ retries["transient_llm"] \in Nat /\ retries["transient_infra"] \in Nat
  BY Doctrines, RetryAssumption DEF RetryInv, RetryTypeOK, Tier, Transient
<1>2. x \in 0..L /\ y \in 0..I
  BY <1>1 DEF AtMost
<1>3. redispatched <= t * (L + 1) + x + y
  BY DEF RetryInv, SpentAtMost
<1> HIDE DEF x, y, t, L, I
<1>4. t * (L + 1) <= (Reachable - 1) * (L + 1)
  <2>1. CASE L = 0 BY <1>1, <2>1
  <2>2. CASE L = 1 BY <1>1, <2>2
  <2>3. CASE L = 3 BY <1>1, <2>3
  <2> QED BY <1>1, <2>1, <2>2, <2>3
<1>5. (Reachable - 1) * (L + 1) + L + I = Reachable * L + (Reachable - 1) + I
  <2>1. CASE L = 0 BY <1>1, <2>1
  <2>2. CASE L = 1 BY <1>1, <2>2
  <2>3. CASE L = 3 BY <1>1, <2>3
  <2> QED BY <1>1, <2>1, <2>2, <2>3
<1>6. /\ t * (L + 1) \in Int /\ (Reachable - 1) * (L + 1) \in Int /\ Reachable * L \in Int
      /\ L \in Nat /\ I \in Nat
  BY <1>1
<1>7. redispatched <= Reachable * L + (Reachable - 1) + I
  BY <1>1, <1>2, <1>3, <1>4, <1>5, <1>6
<1> QED BY <1>7 DEF RedispatchesBounded, L, I

\* A task that fails again and again is dispatched again at most as often as its doctrine
\* says, for any chain of tiers and any mixture of failures and heartbeat reports
\* (recovery.go:376-427).
THEOREM BudgetCorrect == RetrySpec => []RedispatchesBounded
<1> QED BY RetryInitInv, RetryStepInv, SpentWithin, PTL DEF RetrySpec

-----------------------------------------------------------------------------
(* SubprocessManager                                                       *)

\* Every session that anything names has been started.
Started ==
    /\ open \subseteq 1..spawned /\ ephemerals \subseteq 1..spawned
    /\ entry.s <= spawned
    /\ \A u \in Users : user[u].s <= spawned /\ (user[u].at \notin {"idle", "spawn"} => user[u].s # 0)
    /\ \A x \in Loops : loop[x].s <= spawned

\* An entry marked evicted whose process still runs is in the hands of the loop that
\* marked it, and an entry is removed only after its process was closed.
MarkedClosing ==
    /\ entry.evicted /\ entry.s \in open => \E x \in Loops : loop[x] = [at |-> "close", s |-> entry.s]
    /\ \A x \in Loops : loop[x].at = "remove" => loop[x].s \notin open

\* Shutdown holds sessions only between emptying the maps and closing what was in them;
\* what is in a map afterwards came late, and the loops have ended when it returns.
ShutdownPhases ==
    /\ stopping.at # "close" => stopping.taken = {}
    /\ Emptied => ephemerals \subseteq late /\ entry.s \in late \cup {0}
    /\ stopping.at = "returned" => \A x \in Loops : loop[x].at = "stopped"

ManagerInv ==
    ManagerTypeOK /\ Started /\ MarkedClosing /\ ShutdownPhases /\ NoLostSession

\* Without a call that overlaps with Shutdown nobody has a session, and none came late.
QuietInv ==
    /\ quiet \in BOOLEAN /\ (~Emptied => late = {})
    /\ Emptied /\ quiet => late = {} /\ \A u \in Users : user[u].at = "idle"

LEMMA ManagerInitInv == ManagerInit => ManagerInv
<1> SUFFICES ASSUME ManagerInit PROVE ManagerInv
  OBVIOUS
<1> USE ManagerAssumption DEF ManagerInit, NoEntry, AtRest
<1>1. ManagerTypeOK
  <2>1. entry \in [s : 0..MaxSessions, evicted : BOOLEAN, stale : BOOLEAN, exited : BOOLEAN]
    OBVIOUS
  <2>2. user \in [Users -> [at : UserPC, s : 0..MaxSessions]]
    BY DEF UserPC
  <2>3. loop \in [Loops -> [at : LoopPC, s : 0..MaxSessions]]
    BY DEF LoopPC
  <2>4. stopping \in [at : {"no", "take", "close", "wait", "returned"}, taken : SUBSET SessionID]
    OBVIOUS
  <2> QED BY <2>1, <2>2, <2>3, <2>4 DEF ManagerTypeOK
<1>2. Started
  BY DEF Started
<1>3. MarkedClosing /\ ShutdownPhases /\ NoLostSession
  BY DEF MarkedClosing, ShutdownPhases, NoLostSession, Emptied
<1> QED BY <1>1, <1>2, <1>3 DEF ManagerInv

\* The implication of the two properties.
LEMMA ManagerInvSound == ManagerInv /\ QuietInv => SessionsAccounted
<1> SUFFICES ASSUME ManagerInv, QuietInv PROVE ShutdownCloses
  BY DEF ManagerInv, SessionsAccounted
<1>0. QuietInv /\ stopping.at = "returned" /\ quiet => late = {} /\ InHand = {}
  BY DEF QuietInv, Emptied, InHand
<1> SUFFICES ASSUME stopping.at = "returned", ~orphaned, NEW s \in open
             PROVE  s \in late \cup InHand
  BY <1>0 DEF ShutdownCloses
<1>1. /\ stopping.taken = {} /\ ephemerals \subseteq late /\ entry.s \in late \cup {0}
      /\ s # 0 /\ \A x \in Loops : loop[x].at = "stopped"
  BY DEF ManagerInv, ShutdownPhases, Emptied, ManagerTypeOK, SessionID
<1>2. \A x \in Loops : loop[x] # [at |-> "close", s |-> s]
  BY <1>1
<1> QED BY <1>1, <1>2 DEF ManagerInv, NoLostSession

LEMMA FactoryStep ==
  ASSUME ManagerInv, NEW u \in Users, NEW next \in {"insert", "track"}, Factory(u, next),
         user[u].at \in {"spawn", "idle"},
         UNCHANGED <<entry, ephemerals, loop, stopping, late, orphaned>>
  PROVE  ManagerInv'
<1> DEFINE n == spawned + 1
<1>1. /\ spawned' = n /\ open' = open \cup {n} /\ spawned < MaxSessions
      /\ user' = [user EXCEPT ![u] = [at |-> next, s |-> n]]
  BY DEF Factory
<1>2. /\ ManagerTypeOK /\ Started /\ MarkedClosing /\ ShutdownPhases /\ NoLostSession
      /\ MaxSessions \in Nat
  BY ManagerAssumption DEF ManagerInv
<1>3. n \in SessionID /\ n \in 1..MaxSessions /\ n \in Nat /\ spawned \in Nat /\ n > spawned
  BY <1>1, <1>2 DEF ManagerTypeOK, SessionID
<1>4. ManagerTypeOK'
  BY <1>1, <1>2, <1>3 DEF ManagerTypeOK, UserPC
<1>5. Started'
  <2>1. /\ 1..spawned \subseteq 1..n /\ n \in 1..n
        /\ \A k \in Int : k <= spawned => k <= n
    BY <1>3
  <2>2. /\ entry.s \in Int /\ \A v \in Users : user[v].s \in Int
        /\ \A x \in Loops : loop[x].s \in Int
    BY <1>2, ManagerAssumption DEF ManagerTypeOK
  <2>3. \A v \in Users : user'[v].s <= n /\ (user'[v].at \notin {"idle", "spawn"} => user'[v].s # 0)
    BY <1>1, <1>2, <1>3, <2>1, <2>2 DEF Started, ManagerTypeOK
  <2> QED BY <1>1, <1>2, <2>1, <2>2, <2>3 DEF Started
<1>6. MarkedClosing'
  <2>1. entry.s # n /\ \A x \in Loops : loop[x].s # n
    BY <1>2, <1>3 DEF Started, ManagerTypeOK
  <2> QED BY <1>1, <1>2, <2>1 DEF MarkedClosing
<1>7. ShutdownPhases'
  BY <1>2 DEF ShutdownPhases, Emptied
<1>8. NoLostSession'
  <2>1. \A s : s \in InHand => s \in InHand'
    BY <1>1, <1>2 DEF InHand, ManagerTypeOK
  <2>2. n \in InHand'
    BY <1>1, <1>2 DEF InHand, ManagerTypeOK
  <2> QED BY <1>1, <1>2, <2>1, <2>2 DEF NoLostSession
<1> QED BY <1>4, <1>5, <1>6, <1>7, <1>8 DEF ManagerInv

\* The steps of a caller.
LEMMA UserKeeps ==
  ASSUME ManagerInv, NEW u \in Users,
         \/ AcquirePersistent(u) \/ StartPersistent(u) \/ Insert(u) \/ Persist(u) \/ Undo(u)
         \/ CloseOwn(u) \/ SpawnEphemeral(u) \/ Track(u)
         \/ \E s \in SessionID : ReleaseSession(u, s)
  PROVE  ManagerInv'
<1>1. /\ ManagerTypeOK /\ Started /\ MarkedClosing /\ ShutdownPhases /\ NoLostSession
      /\ MaxSessions \in Nat
  BY ManagerAssumption DEF ManagerInv
<1>2. /\ user \in [Users -> [at : UserPC, s : 0..MaxSessions]]
      /\ entry \in [s : 0..MaxSessions, evicted : BOOLEAN, stale : BOOLEAN, exited : BOOLEAN]
      /\ user[u].s \in 0..MaxSessions /\ user[u].s <= spawned /\ spawned \in 0..MaxSessions
      /\ AtRest \in [at : UserPC, s : 0..MaxSessions] /\ AtRest.s = 0 /\ AtRest.at = "idle"
      /\ NoEntry \in [s : 0..MaxSessions, evicted : BOOLEAN, stale : BOOLEAN, exited : BOOLEAN]
  BY <1>1 DEF ManagerTypeOK, Started, AtRest, UserPC, NoEntry
<1>3. CASE AcquirePersistent(u)
  <2>1. /\ UNCHANGED <<spawned, open, ephemerals, loop, stopping, late, orphaned>>
        /\ \/ user' = user /\ entry' = [entry EXCEPT !.stale = FALSE]
           \/ user[u].at = "idle" /\ user' = [user EXCEPT ![u].at = "spawn"] /\ entry' = entry
    BY <1>3 DEF AcquirePersistent
  <2>2. /\ entry'.s = entry.s /\ entry'.evicted = entry.evicted /\ InHand' = InHand
        /\ \A v \in Users : user'[v].s = user[v].s /\ user'[v].at \in {user[v].at, "spawn"}
    BY <1>2, <2>1 DEF InHand
  <2>3. ManagerTypeOK'
    <3>1. user' \in [Users -> [at : UserPC, s : 0..MaxSessions]]
      BY <1>2, <2>1 DEF UserPC
    <3>2. entry' \in [s : 0..MaxSessions, evicted : BOOLEAN, stale : BOOLEAN, exited : BOOLEAN]
      BY <1>2, <2>1
    <3> QED BY <1>1, <2>1, <3>1, <3>2 DEF ManagerTypeOK
  <2>4. Started'
    BY <1>1, <2>1, <2>2 DEF Started
  <2>5. MarkedClosing' /\ ShutdownPhases'
    BY <1>1, <2>1, <2>2 DEF MarkedClosing, ShutdownPhases, Emptied
  <2>6. NoLostSession'
    BY <1>1, <2>1, <2>2 DEF NoLostSession
  <2> QED BY <2>3, <2>4, <2>5, <2>6 DEF ManagerInv
<1>4. CASE StartPersistent(u)
  <2>1. CASE Factory(u, "insert")
    BY <1>4, <2>1, FactoryStep DEF StartPersistent
  <2>2. CASE /\ user[u].at = "spawn" /\ user' = [user EXCEPT ![u] = AtRest]
             /\ UNCHANGED <<spawned, open, entry, ephemerals, loop, stopping, late, orphaned>>
    <3>1. InHand' = InHand
      BY <1>2, <2>2 DEF InHand
    <3>2. ManagerTypeOK'
      BY <1>1, <1>2, <2>2 DEF ManagerTypeOK
    <3>3. Started'
      BY <1>1, <1>2, <2>2 DEF Started, ManagerTypeOK
    <3>4. MarkedClosing' /\ ShutdownPhases'
      BY <1>1, <2>2 DEF MarkedClosing, ShutdownPhases, Emptied
    <3>5. NoLostSession'
      BY <1>1, <2>2, <3>1 DEF NoLostSession
    <3> QED BY <3>2, <3>3, <3>4, <3>5 DEF ManagerInv
  <2> QED BY <1>4, <2>1, <2>2 DEF StartPersistent
<1>5. CASE Insert(u)
  <2>1. CASE /\ Usable /\ entry' = [entry EXCEPT !.stale = FALSE]
             /\ user' = [user EXCEPT ![u].at = "discard"] /\ UNCHANGED late
    <3>1. user[u].at = "insert" /\ UNCHANGED <<spawned, open, ephemerals, loop, stopping, late, orphaned>>
      BY <1>5, <2>1 DEF Insert
    <3>2. /\ entry'.s = entry.s /\ entry'.evicted = entry.evicted /\ InHand' = InHand
          /\ \A v \in Users : user'[v].s = user[v].s /\ (v # u => user'[v].at = user[v].at)
      BY <1>2, <2>1, <3>1 DEF InHand
    <3>3. ManagerTypeOK'
      BY <1>1, <1>2, <2>1, <3>1 DEF ManagerTypeOK, UserPC
    <3>4. Started'
      BY <1>1, <3>1, <3>2 DEF Started
    <3>5. MarkedClosing' /\ ShutdownPhases'
      BY <1>1, <3>1, <3>2 DEF MarkedClosing, ShutdownPhases, Emptied
    <3>6. NoLostSession'
      BY <1>1, <3>1, <3>2 DEF NoLostSession
    <3> QED BY <3>3, <3>4, <3>5, <3>6 DEF ManagerInv
  <2>2. CASE /\ ~Usable /\ entry' = NewEntry(user[u].s)
             /\ user' = [user EXCEPT ![u].at = "persist"]
             /\ late' = IF Emptied THEN late \cup {user[u].s} ELSE late
    <3>1. user[u].at = "insert" /\ UNCHANGED <<spawned, open, ephemerals, loop, stopping, orphaned>>
      BY <1>5, <2>2 DEF Insert
    <3>2. /\ entry'.s = user[u].s /\ ~entry'.evicted
          /\ entry' \in [s : 0..MaxSessions, evicted : BOOLEAN, stale : BOOLEAN, exited : BOOLEAN]
          /\ \A v \in Users : user'[v].s = user[v].s /\ (v # u => user'[v].at = user[v].at)
      BY <1>2, <2>2 DEF NewEntry, NoEntry
    <3>3. \A s : s \in InHand => s \in InHand' \/ s = user[u].s
      BY <1>2, <2>2 DEF InHand
    <3>4. ManagerTypeOK'
      <4>1. late' \in SUBSET SessionID
        <5>1. user[u].s \in SessionID
          BY <1>1, <1>2, <3>1 DEF SessionID, Started
        <5> QED BY <1>1, <2>2, <5>1 DEF ManagerTypeOK
      <4>2. user' \in [Users -> [at : UserPC, s : 0..MaxSessions]]
        BY <1>2, <2>2 DEF UserPC
      <4> QED BY <1>1, <3>1, <3>2, <4>1, <4>2 DEF ManagerTypeOK
    <3>5. Started'
      BY <1>1, <1>2, <3>1, <3>2 DEF Started
    <3>6. MarkedClosing' /\ ShutdownPhases'
      BY <1>1, <2>2, <3>1, <3>2 DEF MarkedClosing, ShutdownPhases, Emptied
    <3>7. NoLostSession'
      <4>1. ASSUME NEW s \in open, s = entry.s PROVE \E x \in Loops : loop[x] = [at |-> "close", s |-> s]
        <5>1. s # 0
          BY <1>1 DEF ManagerTypeOK, SessionID
        <5> QED BY <1>1, <2>2, <4>1, <5>1 DEF Usable, MarkedClosing
      <4> QED BY <1>1, <3>1, <3>2, <3>3, <4>1 DEF NoLostSession
    <3> QED BY <3>4, <3>5, <3>6, <3>7 DEF ManagerInv
  <2> QED BY <1>5, <2>1, <2>2 DEF Insert
<1>6. CASE Persist(u)
  <2>1. /\ user[u].at = "persist"
        /\ UNCHANGED <<spawned, open, entry, ephemerals, loop, stopping, late, orphaned>>
        /\ \/ user' = [user EXCEPT ![u] = AtRest]
           \/ user' = [user EXCEPT ![u].at = "undo"]
    BY <1>6 DEF Persist
  <2>2. InHand' = InHand
    BY <1>2, <2>1 DEF InHand
  <2>3. /\ user' \in [Users -> [at : UserPC, s : 0..MaxSessions]]
        /\ \A v \in Users : v # u => user'[v] = user[v]
        /\ user'[u] = AtRest \/ user'[u].s = user[u].s
    BY <1>2, <2>1 DEF UserPC
  <2>4. ManagerTypeOK'
    BY <1>1, <2>1, <2>3 DEF ManagerTypeOK
  <2>5. Started'
    BY <1>1, <1>2, <2>1, <2>3 DEF Started
  <2>6. MarkedClosing' /\ ShutdownPhases' /\ NoLostSession'
    BY <1>1, <2>1, <2>2 DEF MarkedClosing, ShutdownPhases, Emptied, NoLostSession
  <2> QED BY <2>4, <2>5, <2>6 DEF ManagerInv
<1>7. CASE Undo(u)
  <2>1. /\ user[u].at = "undo" /\ entry' = NoEntry
        /\ orphaned' = (orphaned \/ entry.s \notin {0, user[u].s})
        /\ user' = [user EXCEPT ![u].at = "close"]
        /\ UNCHANGED <<spawned, open, ephemerals, loop, stopping, late>>
    BY <1>7 DEF Undo
  <2>2. /\ user' \in [Users -> [at : UserPC, s : 0..MaxSessions]]
        /\ \A v \in Users : v # u => user'[v] = user[v]
        /\ user'[u].s = user[u].s /\ user'[u].at = "close"
        /\ entry'.s = 0 /\ ~entry'.evicted
    BY <1>2, <2>1 DEF UserPC, NoEntry
  <2>3. user[u].s \in InHand' /\ \A s : s \in InHand => s \in InHand'
    BY <2>1, <2>2 DEF InHand
  <2>4. ManagerTypeOK'
    BY <1>1, <1>2, <2>1, <2>2 DEF ManagerTypeOK
  <2>5. Started'
    BY <1>1, <1>2, <2>1, <2>2 DEF Started
  <2>6. MarkedClosing' /\ ShutdownPhases'
    BY <1>1, <2>1, <2>2 DEF MarkedClosing, ShutdownPhases, Emptied
  <2>7. NoLostSession'
    <3> SUFFICES ASSUME NEW s \in open, ~orphaned'
                 PROVE  \/ s \in ephemerals \/ s \in stopping.taken \/ s \in InHand'
                        \/ \E x \in Loops : loop[x] = [at |-> "close", s |-> s]
      BY <2>1 DEF NoLostSession
    <3>1. ~orphaned /\ entry.s \in {0, user[u].s}
      BY <2>1, Zenon
    <3>2. s # 0
      BY <1>1 DEF ManagerTypeOK, SessionID
    <3> QED BY <1>1, <2>3, <3>1, <3>2 DEF NoLostSession
  <2> QED BY <2>4, <2>5, <2>6, <2>7 DEF ManagerInv
<1>8. CASE CloseOwn(u)
  <2>1. /\ user[u].at \in {"discard", "close"}
        /\ open' = open \ {user[u].s} /\ user' = [user EXCEPT ![u] = AtRest]
        /\ UNCHANGED <<spawned, entry, ephemerals, loop, stopping, late, orphaned>>
    BY <1>8 DEF CloseOwn
  <2>2. /\ user' \in [Users -> [at : UserPC, s : 0..MaxSessions]]
        /\ \A v \in Users : v # u => user'[v] = user[v]
        /\ user'[u] = AtRest
    BY <1>2, <2>1
  <2>3. \A s : s \in InHand => s \in InHand' \/ s = user[u].s
    BY <2>1, <2>2 DEF InHand
  <2>4. ManagerTypeOK'
    BY <1>1, <1>2, <2>1, <2>2 DEF ManagerTypeOK
  <2>5. Started'
    <3>1. \A v \in Users : user'[v].s <= spawned /\ (user'[v].at \notin {"idle", "spawn"} => user'[v].s # 0)
      <4> SUFFICES ASSUME NEW v \in Users
                   PROVE  user'[v].s <= spawned /\ (user'[v].at \notin {"idle", "spawn"} => user'[v].s # 0)
        OBVIOUS
      <4>1. CASE v = u
        BY <1>2, <2>2, <4>1
      <4>2. CASE v # u
        <5>1. user'[v] = user[v] /\ user[v].s <= spawned /\ (user[v].at \notin {"idle", "spawn"} => user[v].s # 0)
          BY <1>1, <2>2, <4>2 DEF Started
        <5> QED BY <5>1
      <4> QED BY <4>1, <4>2
    <3>2. open' \subseteq 1..spawned
      BY <1>1, <2>1 DEF Started
    <3> QED BY <1>1, <2>1, <3>1, <3>2 DEF Started
  <2>6. MarkedClosing' /\ ShutdownPhases'
    BY <1>1, <2>1 DEF MarkedClosing, ShutdownPhases, Emptied
  <2>7. NoLostSession'
    BY <1>1, <2>1, <2>3 DEF NoLostSession
  <2> QED BY <2>4, <2>5, <2>6, <2>7 DEF ManagerInv
<1>9. CASE SpawnEphemeral(u)
  BY <1>9, FactoryStep DEF SpawnEphemeral
<1>10. CASE Track(u)
  <2>1. /\ user[u].at = "track" /\ ephemerals' = ephemerals \cup {user[u].s}
        /\ late' = IF Emptied THEN late \cup {user[u].s} ELSE late
        /\ user' = [user EXCEPT ![u] = AtRest]
        /\ UNCHANGED <<spawned, open, entry, loop, stopping, orphaned>>
    BY <1>10 DEF Track
  <2>2. /\ user' \in [Users -> [at : UserPC, s : 0..MaxSessions]]
        /\ \A v \in Users : v # u => user'[v] = user[v]
        /\ user'[u] = AtRest
    BY <1>2, <2>1
  <2>3. \A s : s \in InHand => s \in InHand' \/ s = user[u].s
    BY <2>1, <2>2 DEF InHand
  <2>4. user[u].s \in SessionID /\ user[u].s \in 1..spawned
    BY <1>1, <1>2, <2>1 DEF SessionID, Started
  <2>5. ManagerTypeOK'
    BY <1>1, <1>2, <2>1, <2>2, <2>4 DEF ManagerTypeOK
  <2>6. Started'
    <3>1. \A v \in Users : user'[v].s <= spawned /\ (user'[v].at \notin {"idle", "spawn"} => user'[v].s # 0)
      <4> SUFFICES ASSUME NEW v \in Users
                   PROVE  user'[v].s <= spawned /\ (user'[v].at \notin {"idle", "spawn"} => user'[v].s # 0)
        OBVIOUS
      <4>1. CASE v = u
        BY <1>2, <2>2, <4>1
      <4>2. CASE v # u
        <5>1. user'[v] = user[v] /\ user[v].s <= spawned /\ (user[v].at \notin {"idle", "spawn"} => user[v].s # 0)
          BY <1>1, <2>2, <4>2 DEF Started
        <5> QED BY <5>1
      <4> QED BY <4>1, <4>2
    <3>2. ephemerals' \subseteq 1..spawned
      BY <1>1, <2>1, <2>4 DEF Started
    <3> QED BY <1>1, <2>1, <3>1, <3>2 DEF Started
  <2>7. MarkedClosing' /\ ShutdownPhases'
    BY <1>1, <2>1 DEF MarkedClosing, ShutdownPhases, Emptied
  <2>8. NoLostSession'
    BY <1>1, <2>1, <2>3 DEF NoLostSession
  <2> QED BY <2>5, <2>6, <2>7, <2>8 DEF ManagerInv
<1>11. ASSUME NEW s \in SessionID, ReleaseSession(u, s) PROVE ManagerInv'
  <2>1. /\ user[u].at = "idle" /\ s \in ephemerals /\ ephemerals' = ephemerals \ {s}
        /\ user' = [user EXCEPT ![u] = [at |-> "close", s |-> s]]
        /\ UNCHANGED <<spawned, open, entry, loop, stopping, late, orphaned>>
    BY <1>11 DEF ReleaseSession
  <2>2. /\ s \in 1..spawned /\ s # 0 /\ s \in 0..MaxSessions /\ s <= spawned
    BY <1>1, <1>2, <2>1 DEF Started
  <2>3. /\ user' \in [Users -> [at : UserPC, s : 0..MaxSessions]]
        /\ \A v \in Users : v # u => user'[v] = user[v]
        /\ user'[u].s = s /\ user'[u].at = "close"
    BY <1>2, <2>1, <2>2 DEF UserPC
  <2>4. s \in InHand' /\ \A t : t \in InHand => t \in InHand'
    BY <2>1, <2>3 DEF InHand
  <2>5. ManagerTypeOK'
    BY <1>1, <1>2, <2>1, <2>3 DEF ManagerTypeOK
  <2>6. Started'
    BY <1>1, <1>2, <2>1, <2>2, <2>3 DEF Started
  <2>7. MarkedClosing' /\ ShutdownPhases'
    BY <1>1, <2>1 DEF MarkedClosing, ShutdownPhases, Emptied
  <2>8. NoLostSession'
    BY <1>1, <2>1, <2>4 DEF NoLostSession
  <2> QED BY <2>5, <2>6, <2>7, <2>8 DEF ManagerInv
<1> QED BY <1>3, <1>4, <1>5, <1>6, <1>7, <1>8, <1>9, <1>10, <1>11

\* The steps of the evictor, of the crash detector, and of the processes they watch.
LEMMA LoopKeeps ==
  ASSUME ManagerInv,
         TTLPasses \/ ProcessExits \/ \E x \in Loops : LoopStep(x) \/ LoopExits(x)
  PROVE  ManagerInv'
<1>1. /\ ManagerTypeOK /\ Started /\ MarkedClosing /\ ShutdownPhases /\ NoLostSession
      /\ MaxSessions \in Nat
  BY ManagerAssumption DEF ManagerInv
<1>2. /\ loop \in [Loops -> [at : LoopPC, s : 0..MaxSessions]]
      /\ entry \in [s : 0..MaxSessions, evicted : BOOLEAN, stale : BOOLEAN, exited : BOOLEAN]
      /\ entry.s <= spawned /\ spawned \in 0..MaxSessions
      /\ AtRest \in [at : LoopPC, s : 0..MaxSessions] /\ AtRest.s = 0 /\ AtRest.at = "idle"
      /\ NoEntry \in [s : 0..MaxSessions, evicted : BOOLEAN, stale : BOOLEAN, exited : BOOLEAN]
      /\ NoEntry.s = 0 /\ ~NoEntry.evicted
  BY <1>1 DEF ManagerTypeOK, Started, AtRest, LoopPC, NoEntry
<1>3. CASE TTLPasses \/ ProcessExits
  <2>1. /\ UNCHANGED <<spawned, open, ephemerals, user, loop, stopping, late, orphaned>>
        /\ entry' = [entry EXCEPT !.stale = TRUE] \/ entry' = [entry EXCEPT !.exited = TRUE]
    BY <1>3 DEF TTLPasses, ProcessExits
  <2>2. /\ entry'.s = entry.s /\ entry'.evicted = entry.evicted /\ InHand' = InHand
        /\ entry' \in [s : 0..MaxSessions, evicted : BOOLEAN, stale : BOOLEAN, exited : BOOLEAN]
    <3>1. InHand' = InHand
      BY <2>1 DEF InHand
    <3>2. CASE entry' = [entry EXCEPT !.stale = TRUE]
      BY <1>2, <3>1, <3>2
    <3>3. CASE entry' = [entry EXCEPT !.exited = TRUE]
      BY <1>2, <3>1, <3>3
    <3> QED BY <2>1, <3>2, <3>3
  <2>3. ManagerTypeOK' /\ Started'
    BY <1>1, <2>1, <2>2 DEF ManagerTypeOK, Started
  <2>4. MarkedClosing' /\ ShutdownPhases' /\ NoLostSession'
    BY <1>1, <2>1, <2>2 DEF MarkedClosing, ShutdownPhases, Emptied, NoLostSession
  <2> QED BY <2>3, <2>4 DEF ManagerInv
<1>4. ASSUME NEW x \in Loops, Mark(x) PROVE ManagerInv'
  <2>1. /\ loop[x].at = "idle" /\ entry.s # 0 /\ ~entry.evicted
        /\ entry' = [entry EXCEPT !.evicted = TRUE]
        /\ loop' = [loop EXCEPT ![x] = [at |-> "close", s |-> entry.s]]
        /\ UNCHANGED <<spawned, open, ephemerals, user, stopping, late, orphaned>>
    BY <1>4 DEF Mark, Due, Usable
  <2>2. /\ entry'.s = entry.s /\ InHand' = InHand
        /\ entry' \in [s : 0..MaxSessions, evicted : BOOLEAN, stale : BOOLEAN, exited : BOOLEAN]
        /\ loop' \in [Loops -> [at : LoopPC, s : 0..MaxSessions]]
        /\ \A y \in Loops : y # x => loop'[y] = loop[y]
        /\ loop'[x] = [at |-> "close", s |-> entry.s]
    <3>1. /\ entry'.s = entry.s
          /\ entry' \in [s : 0..MaxSessions, evicted : BOOLEAN, stale : BOOLEAN, exited : BOOLEAN]
      BY <1>2, <2>1
    <3>2. InHand' = InHand
      BY <2>1 DEF InHand
    <3>3. [at |-> "close", s |-> entry.s] \in [at : LoopPC, s : 0..MaxSessions]
      BY <1>2 DEF LoopPC
    <3>4. /\ loop' \in [Loops -> [at : LoopPC, s : 0..MaxSessions]]
          /\ \A y \in Loops : y # x => loop'[y] = loop[y]
          /\ loop'[x] = [at |-> "close", s |-> entry.s]
      BY <1>2, <2>1, <3>3
    <3> QED BY <3>1, <3>2, <3>4
  <2>3. ManagerTypeOK' /\ Started'
    <3>1. ManagerTypeOK'
      BY <1>1, <2>1, <2>2 DEF ManagerTypeOK
    <3>2. \A y \in Loops : loop'[y].s <= spawned
      BY <1>1, <1>2, <2>2 DEF Started
    <3> QED BY <1>1, <2>1, <2>2, <3>1, <3>2 DEF Started
  <2>4. MarkedClosing' /\ ShutdownPhases'
    BY <1>1, <2>1, <2>2 DEF MarkedClosing, ShutdownPhases, Emptied
  <2>5. \A s : (\E y \in Loops : loop[y] = [at |-> "close", s |-> s])
                 => \E y \in Loops : loop'[y] = [at |-> "close", s |-> s]
    BY <2>1, <2>2
  <2>6. NoLostSession'
    BY <1>1, <2>1, <2>2, <2>5 DEF NoLostSession
  <2> QED BY <2>3, <2>4, <2>6 DEF ManagerInv
<1>5. ASSUME NEW x \in Loops, CloseMarked(x) PROVE ManagerInv'
  <2>1. /\ loop[x].at = "close" /\ open' = open \ {loop[x].s}
        /\ loop' = [loop EXCEPT ![x].at = "remove"]
        /\ UNCHANGED <<spawned, entry, ephemerals, user, stopping, late, orphaned>>
    BY <1>5 DEF CloseMarked
  <2>2. /\ loop' \in [Loops -> [at : LoopPC, s : 0..MaxSessions]] /\ InHand' = InHand
        /\ \A y \in Loops : y # x => loop'[y] = loop[y]
        /\ loop'[x].at = "remove" /\ loop'[x].s = loop[x].s
    BY <1>2, <2>1 DEF LoopPC, InHand
  <2>3. ManagerTypeOK' /\ Started'
    BY <1>1, <1>2, <2>1, <2>2 DEF ManagerTypeOK, Started
  <2>4. \A s \in open' : (\E y \in Loops : loop[y] = [at |-> "close", s |-> s])
                          => \E y \in Loops : loop'[y] = [at |-> "close", s |-> s]
    BY <2>1, <2>2
  <2>5. MarkedClosing' /\ ShutdownPhases'
    BY <1>1, <2>1, <2>2, <2>4 DEF MarkedClosing, ShutdownPhases, Emptied
  <2>6. NoLostSession'
    BY <1>1, <2>1, <2>2, <2>4 DEF NoLostSession
  <2> QED BY <2>3, <2>5, <2>6 DEF ManagerInv
<1>6. ASSUME NEW x \in Loops, RemoveMarked(x) PROVE ManagerInv'
  <2>1. /\ loop[x].at = "remove" /\ loop[x].s \notin open
        /\ entry' = IF entry.s = loop[x].s THEN NoEntry ELSE entry
        /\ loop' = [loop EXCEPT ![x] = AtRest]
        /\ UNCHANGED <<spawned, open, ephemerals, user, stopping, late, orphaned>>
    BY <1>1, <1>6 DEF RemoveMarked, MarkedClosing
  <2>2. /\ loop' \in [Loops -> [at : LoopPC, s : 0..MaxSessions]] /\ InHand' = InHand
        /\ \A y \in Loops : y # x => loop'[y] = loop[y]
        /\ loop'[x] = AtRest
        /\ entry' \in [s : 0..MaxSessions, evicted : BOOLEAN, stale : BOOLEAN, exited : BOOLEAN]
        /\ entry' = entry \/ (entry'.s = 0 /\ ~entry'.evicted /\ entry.s \notin open)
    BY <1>2, <2>1 DEF InHand
  <2>3. ManagerTypeOK' /\ Started'
    BY <1>1, <1>2, <2>1, <2>2 DEF ManagerTypeOK, Started
  <2>4. \A s : (\E y \in Loops : loop[y] = [at |-> "close", s |-> s])
                 => \E y \in Loops : loop'[y] = [at |-> "close", s |-> s]
    BY <2>1, <2>2
  <2>5. MarkedClosing' /\ ShutdownPhases'
    BY <1>1, <1>2, <2>1, <2>2, <2>4 DEF MarkedClosing, ShutdownPhases, Emptied
  <2>6. NoLostSession'
    BY <1>1, <2>1, <2>2, <2>4 DEF NoLostSession
  <2> QED BY <2>3, <2>5, <2>6 DEF ManagerInv
<1>7. ASSUME NEW x \in Loops, LoopExits(x) PROVE ManagerInv'
  <2>1. /\ loop[x].at = "idle" /\ loop' = [loop EXCEPT ![x].at = "stopped"]
        /\ UNCHANGED <<spawned, open, entry, ephemerals, user, stopping, late, orphaned>>
    BY <1>7 DEF LoopExits
  <2>2. /\ loop' \in [Loops -> [at : LoopPC, s : 0..MaxSessions]] /\ InHand' = InHand
        /\ \A y \in Loops : y # x => loop'[y] = loop[y]
        /\ loop'[x].at = "stopped" /\ loop'[x].s = loop[x].s
    BY <1>2, <2>1 DEF LoopPC, InHand
  <2>3. ManagerTypeOK' /\ Started'
    BY <1>1, <1>2, <2>1, <2>2 DEF ManagerTypeOK, Started
  <2>4. \A s : (\E y \in Loops : loop[y] = [at |-> "close", s |-> s])
                 => \E y \in Loops : loop'[y] = [at |-> "close", s |-> s]
    BY <2>1, <2>2
  <2>5. MarkedClosing' /\ ShutdownPhases'
    BY <1>1, <2>1, <2>2, <2>4 DEF MarkedClosing, ShutdownPhases, Emptied
  <2>6. NoLostSession'
    BY <1>1, <2>1, <2>2, <2>4 DEF NoLostSession
  <2> QED BY <2>3, <2>5, <2>6 DEF ManagerInv
<1> QED BY <1>3, <1>4, <1>5, <1>6, <1>7 DEF LoopStep

\* The steps of Shutdown.
LEMMA ShutdownKeeps ==
  ASSUME ManagerInv, ShutdownSignal \/ ShutdownStep
  PROVE  ManagerInv'
<1>1. /\ ManagerTypeOK /\ Started /\ MarkedClosing /\ ShutdownPhases /\ NoLostSession
      /\ MaxSessions \in Nat
  BY ManagerAssumption DEF ManagerInv
<1>2. /\ stopping \in [at : {"no", "take", "close", "wait", "returned"}, taken : SUBSET SessionID]
      /\ NoEntry \in [s : 0..MaxSessions, evicted : BOOLEAN, stale : BOOLEAN, exited : BOOLEAN]
      /\ NoEntry.s = 0 /\ ~NoEntry.evicted /\ spawned \in Nat
  BY <1>1 DEF ManagerTypeOK, NoEntry
<1>3. CASE ShutdownSignal \/ ShutdownReturn
  <2>1. /\ UNCHANGED <<spawned, open, entry, ephemerals, user, loop, late, orphaned>>
        /\ \/ stopping.at = "no" /\ stopping' = [stopping EXCEPT !.at = "take"]
           \/ /\ stopping.at = "wait" /\ stopping' = [stopping EXCEPT !.at = "returned"]
              /\ \A x \in Loops : loop[x].at = "stopped"
    BY <1>3 DEF ShutdownSignal, ShutdownReturn
  <2>2. /\ stopping' \in [at : {"no", "take", "close", "wait", "returned"}, taken : SUBSET SessionID]
        /\ stopping'.taken = stopping.taken /\ InHand' = InHand
        /\ \/ stopping.at = "no" /\ stopping'.at = "take"
           \/ /\ stopping.at = "wait" /\ stopping'.at = "returned"
              /\ \A x \in Loops : loop[x].at = "stopped"
    BY <1>2, <2>1 DEF InHand
  <2>3. ManagerTypeOK' /\ Started' /\ MarkedClosing'
    BY <1>1, <2>1, <2>2 DEF ManagerTypeOK, Started, MarkedClosing
  <2>4. ShutdownPhases' /\ NoLostSession'
    BY <1>1, <2>1, <2>2 DEF ShutdownPhases, Emptied, NoLostSession
  <2> QED BY <2>3, <2>4 DEF ManagerInv
<1>4. CASE ShutdownTake
  <2>1. /\ stopping.at = "take" /\ ephemerals' = {} /\ entry' = NoEntry
        /\ stopping' = [at |-> "close", taken |-> (ephemerals \cup {entry.s}) \ {0}]
        /\ UNCHANGED <<spawned, open, user, loop, late, orphaned>>
    BY <1>4 DEF ShutdownTake
  <2>2. (ephemerals \cup {entry.s}) \ {0} \in SUBSET SessionID /\ InHand' = InHand
    <3>1. InHand' = InHand
      BY <2>1 DEF InHand
    <3>2. entry.s = 0 \/ entry.s \in SessionID
      BY <1>1 DEF ManagerTypeOK, SessionID
    <3>3. ephemerals \subseteq SessionID
      BY <1>1 DEF ManagerTypeOK
    <3> QED BY <3>1, <3>2, <3>3
  <2>3. /\ stopping' \in [at : {"no", "take", "close", "wait", "returned"}, taken : SUBSET SessionID]
        /\ stopping'.at = "close" /\ stopping'.taken = (ephemerals \cup {entry.s}) \ {0}
    BY <2>1, <2>2
  <2>4. ManagerTypeOK' /\ Started' /\ MarkedClosing'
    BY <1>1, <1>2, <2>1, <2>3 DEF ManagerTypeOK, Started, MarkedClosing
  <2>5. ShutdownPhases'
    BY <1>1, <1>2, <2>1, <2>3 DEF ShutdownPhases, Emptied
  <2>6. NoLostSession'
    <3>1. \A s \in open : s # 0
      BY <1>1 DEF ManagerTypeOK, SessionID
    <3> SUFFICES ASSUME NEW s \in open, ~orphaned
                 PROVE  \/ s \in stopping'.taken \/ s \in InHand
                        \/ \E x \in Loops : loop[x] = [at |-> "close", s |-> s]
      BY <2>1, <2>2 DEF NoLostSession
    <3>2. stopping.taken = {}
      BY <1>1, <2>1 DEF ShutdownPhases
    <3>3. s \in ephemerals \/ s = entry.s => s \in stopping'.taken
      BY <2>3, <3>1
    <3> QED BY <1>1, <3>2, <3>3 DEF NoLostSession
  <2> QED BY <2>4, <2>5, <2>6 DEF ManagerInv
<1>5. CASE ShutdownClose
  <2>1. /\ stopping.at = "close" /\ open' = open \ stopping.taken
        /\ stopping' = [at |-> "wait", taken |-> {}]
        /\ UNCHANGED <<spawned, entry, ephemerals, user, loop, late, orphaned>>
    BY <1>5 DEF ShutdownClose
  <2>2. /\ stopping' \in [at : {"no", "take", "close", "wait", "returned"}, taken : SUBSET SessionID]
        /\ stopping'.at = "wait" /\ stopping'.taken = {} /\ InHand' = InHand
    BY <2>1 DEF InHand
  <2>3. ManagerTypeOK' /\ Started' /\ MarkedClosing'
    BY <1>1, <2>1, <2>2 DEF ManagerTypeOK, Started, MarkedClosing
  <2>4. ShutdownPhases' /\ NoLostSession'
    BY <1>1, <2>1, <2>2 DEF ShutdownPhases, Emptied, NoLostSession
  <2> QED BY <2>3, <2>4 DEF ManagerInv
<1> QED BY <1>3, <1>4, <1>5 DEF ShutdownStep

LEMMA ManagerStepInv == ManagerInv /\ [ManagerNext]_managerVars => ManagerInv'
<1> SUFFICES ASSUME ManagerInv, [ManagerNext]_managerVars PROVE ManagerInv'
  OBVIOUS
<1>1. CASE ManagerNext
  BY <1>1, UserKeeps, LoopKeeps, ShutdownKeeps DEF ManagerNext, UserStep
<1>2. CASE UNCHANGED managerVars
  BY <1>2 DEF managerVars, ManagerInv, ManagerTypeOK, Started, MarkedClosing, ShutdownPhases,
              Emptied, NoLostSession, InHand
<1> QED BY <1>1, <1>2

\* A call that goes on after the maps were emptied was under way then or began since.
LEMMA QuietStays ==
  ASSUME ManagerInv, QuietInv, [ManagerNext]_managerVars
  PROVE  QuietInv'
<1>0. /\ user \in [Users -> [at : UserPC, s : 0..MaxSessions]] /\ quiet \in BOOLEAN
      /\ Emptied => ephemerals \subseteq late
  BY DEF ManagerInv, ManagerTypeOK, ShutdownPhases, QuietInv
<1>1. CASE ShutdownTake
  <2>1. /\ stopping.at = "take" /\ late' = late /\ user' = user
        /\ quiet' = \A u \in Users : user[u].at = "idle"
    BY <1>1 DEF ShutdownTake
  <2>2. late' = {} /\ quiet' \in BOOLEAN
    BY <2>1 DEF QuietInv, Emptied
  <2> QED BY <2>1, <2>2 DEF QuietInv
<1>2. CASE UNCHANGED <<user, late, quiet>> /\ (Emptied' <=> Emptied)
  BY <1>2 DEF QuietInv
<1>3. ASSUME NEW u \in Users, AcquirePersistent(u) \/ SpawnEphemeral(u) PROVE QuietInv'
  <2>1. UNCHANGED <<late, stopping>> /\ (UNCHANGED <<user, quiet>> \/ quiet' = (quiet /\ ~Emptied))
    BY <1>3 DEF AcquirePersistent, SpawnEphemeral
  <2>2. Emptied' <=> Emptied
    BY <2>1 DEF Emptied
  <2>3. CASE UNCHANGED <<user, quiet>>
    BY <1>2, <2>1, <2>2, <2>3
  <2>4. CASE quiet' = (quiet /\ ~Emptied)
    BY <2>1, <2>2, <2>4 DEF QuietInv
  <2> QED BY <2>1, <2>3, <2>4
<1>4. ASSUME NEW u \in Users, UserStep(u) PROVE QuietInv'
  <2>1. /\ user[u].at # "idle" /\ UNCHANGED <<quiet, stopping>>
        /\ late' = late \/ Emptied
    BY <1>4 DEF UserStep, StartPersistent, Insert, Persist, Undo, CloseOwn, Track
  <2>2. Emptied' <=> Emptied
    BY <2>1 DEF Emptied
  <2> QED BY <2>1, <2>2 DEF QuietInv
<1>5. ASSUME NEW u \in Users, NEW s \in SessionID, ReleaseSession(u, s) PROVE QuietInv'
  <2>1. s \in ephemerals /\ UNCHANGED <<late, quiet, stopping>>
    BY <1>5 DEF ReleaseSession
  <2>2. Emptied' <=> Emptied
    BY <2>1 DEF Emptied
  <2> QED BY <1>0, <2>1, <2>2 DEF QuietInv
<1>6. CASE TTLPasses \/ ProcessExits \/ \E x \in Loops : LoopStep(x) \/ LoopExits(x)
  <2>1. UNCHANGED <<user, late, quiet, stopping>>
    BY <1>6 DEF TTLPasses, ProcessExits, LoopStep, Mark, CloseMarked, RemoveMarked, LoopExits
  <2> QED BY <1>2, <2>1 DEF Emptied
<1>7. CASE ShutdownSignal \/ ShutdownClose \/ ShutdownReturn
  <2>1. UNCHANGED <<user, late, quiet>>
    BY <1>7 DEF ShutdownSignal, ShutdownClose, ShutdownReturn
  <2>2. Emptied' <=> Emptied
    BY <1>7 DEF ShutdownSignal, ShutdownClose, ShutdownReturn, Emptied, ManagerInv, ManagerTypeOK
  <2> QED BY <1>2, <2>1, <2>2
<1>8. CASE UNCHANGED managerVars
  BY <1>2, <1>8 DEF managerVars, Emptied
<1> QED BY <1>1, <1>3, <1>4, <1>5, <1>6, <1>7, <1>8 DEF ManagerNext, ShutdownStep

\* No process of the subprocess manager is lost, and Shutdown leaves running only what a
\* call that overlaps with it started, for any number of callers and sessions and any
\* overlap of acquisitions, evictions, crashes and Shutdown (manager.go:205-381).
THEOREM SessionsCorrect == ManagerSpec => []SessionsAccounted
<1>1. ManagerInit => QuietInv
  BY DEF ManagerInit, QuietInv, Emptied
<1> QED BY <1>1, ManagerInitInv, ManagerStepInv, QuietStays, ManagerInvSound, PTL DEF ManagerSpec

-----------------------------------------------------------------------------
(* CostGating: the rows of the threshold table.                            *)

\* The row a doctrine's table, as configured, has for a threshold, or none yet.
OfTable(r) == r = ContinueRow \/ \E k \in Key : r = RowAt(k)

\* The thresholds below a row: how many more steps its recovery can take.
Height(r) == CASE r.pct = PAYG -> 1 [] r.pct = 60 -> 1 [] r.pct = 80 -> 2 [] r.pct = 90 -> 3
               [] r.pct = 100 -> 4 [] OTHER -> 0

\* A project tightens its doctrine and never loosens it: at every threshold the table
\* has an action at least as severe as that of one built-in profile, and the rows in
\* force, replaced, polled and walked are rows of that table (cost_gating.go:277-292,
\* 396-432 and 687-696).
RowsOfDoctrine ==
    /\ \E d \in DOMAIN BuiltinCostProfile : \A k \in Key :
          severityRank[table[k]] >= severityRank[BuiltinCostProfile[d][k]]
    /\ OfTable(row.tick) /\ OfTable(row.walk)
    /\ currentRow = NoRow \/ OfTable(currentRow)
    /\ prior = NoRow \/ OfTable(prior)

\* A recovery walk goes down: while it lasts, neither the poll nor its own steps give it
\* a row that is not below the one it has, so that it has at most four steps.
WalkDescends ==
    [][at.walk # "off" /\ at'.walk # "off" =>
          row'.walk = row.walk \/ Height(row'.walk) < Height(row.walk)]_costVars

LEMMA ActionIs ==
  Action = {"continue", "escalate_l4", "drop_l3_strategic", "tier_degrade_l2", "tier_degrade_l1_l2",
            "reduce_parallelism", "emergency_only_tier", "waiting_for_confirmation", "waiting", "hard_pause"}
BY DEF Action, severityRank

LEMMA RankTyped == \A a \in Action : severityRank[a] \in 0..9
BY ActionIs DEF severityRank

LEMMA ProfilesTyped ==
  /\ DOMAIN BuiltinCostProfile = {"max_scope", "default", "capa_firewall"}
  /\ \A d \in DOMAIN BuiltinCostProfile : BuiltinCostProfile[d] \in [Key -> Action]
<1>1. DOMAIN BuiltinCostProfile = {"max_scope", "default", "capa_firewall"}
  BY DEF BuiltinCostProfile
<1>2. BuiltinCostProfile["max_scope"] \in [Key -> Action]
  BY ActionIs DEF BuiltinCostProfile, Key, PAYG
<1>3. BuiltinCostProfile["default"] \in [Key -> Action]
  BY ActionIs DEF BuiltinCostProfile, Key, PAYG
<1>4. BuiltinCostProfile["capa_firewall"] \in [Key -> Action]
  BY ActionIs DEF BuiltinCostProfile, Key, PAYG
<1> QED BY <1>1, <1>2, <1>3, <1>4

LEMMA HighestThreshold ==
  ASSUME NEW S \in SUBSET {60, 80, 90, 100}, S # {}
  PROVE  Max(S) \in S /\ \A k \in S : k <= Max(S)
<1>1. \E x \in S : \A y \in S : x >= y
  <2>1. CASE 100 \in S
    BY <2>1
  <2>2. CASE 100 \notin S /\ 90 \in S
    BY <2>2
  <2>3. CASE 100 \notin S /\ 90 \notin S /\ 80 \in S
    BY <2>3
  <2>4. CASE 100 \notin S /\ 90 \notin S /\ 80 \notin S
    <3>1. \A y \in S : y = 60
      BY <2>4
    <3>2. PICK x : x \in S
      BY S # {}
    <3> QED BY <3>1, <3>2
  <2> QED BY <2>1, <2>2, <2>3, <2>4
<1>2. Max(S) \in S /\ \A y \in S : Max(S) >= y
  BY <1>1 DEF Max
<1> QED BY <1>2

LEMMA RowsTyped ==
  ASSUME table \in [Key -> Action]
  PROVE  /\ ContinueRow \in ThresholdRow
         /\ \A k \in Key : RowAt(k) \in ThresholdRow /\ RowAt(k).pct = k /\ RowAt(k).action = table[k]
         /\ \A r : OfTable(r) => r \in ThresholdRow
<1>1. ContinueRow \in ThresholdRow
  BY ActionIs DEF ContinueRow, ThresholdRow
<1>2. \A k \in Key : RowAt(k) \in ThresholdRow /\ RowAt(k).pct = k /\ RowAt(k).action = table[k]
  BY DEF RowAt, ThresholdRow
<1> QED BY <1>1, <1>2 DEF OfTable

\* The row for a percentage is ContinueRow or the row of a threshold below it.
LEMMA RowForIs ==
  ASSUME NEW S \in SUBSET (Key \ {PAYG})
  PROVE  RowFor(S) = ContinueRow \/ \E k \in S : RowFor(S) = RowAt(k)
<1>1. S \in SUBSET {60, 80, 90, 100}
  BY DEF Key, PAYG
<1>2. S # {} => Max(S) \in S
  BY <1>1, HighestThreshold
<1> QED BY <1>2 DEF RowFor

LEMMA EvaluateOfTable == \A b : OfTable(Evaluate(b))
<1> SUFFICES ASSUME NEW b PROVE OfTable(Evaluate(b))
  OBVIOUS
<1>1. CASE b.payg
  BY <1>1 DEF Evaluate, OfTable, Key, PAYG
<1>2. CASE ~b.payg /\ b.cap = 0
  BY <1>2 DEF Evaluate, OfTable
<1>3. CASE ~b.payg /\ b.cap # 0
  <2> DEFINE S == {k \in Key \ {PAYG} : k <= (100 * b.spent) \div b.cap}
  <2>1. S \in SUBSET (Key \ {PAYG}) /\ Evaluate(b) = RowFor(S)
    BY <1>3 DEF Evaluate
  <2> HIDE DEF S
  <2>2. RowFor(S) = ContinueRow \/ \E k \in S : RowFor(S) = RowAt(k)
    BY <2>1, RowForIs
  <2> QED BY <2>1, <2>2 DEF OfTable
<1> QED BY <1>1, <1>2, <1>3

\* The next row of a walk is lower, in the table, and has an action of its own.
LEMMA NextRowLower ==
  ASSUME table \in [Key -> Action], NEW r, OfTable(r), r.action # "continue"
  PROVE  OfTable(NextRow(r)) /\ Height(NextRow(r)) < Height(r)
<1>1. PICK h \in Key : r = RowAt(h) /\ r.pct = h
  <2>1. r # ContinueRow
    BY DEF ContinueRow
  <2> QED BY <2>1, RowsTyped DEF OfTable
<1> DEFINE S == {k \in Key \ {PAYG} : k < r.pct}
<1>2. S \in SUBSET (Key \ {PAYG}) /\ NextRow(r) = RowFor(S) /\ \A k \in S : k < h
  BY <1>1 DEF NextRow
<1> HIDE DEF S
<1>3. NextRow(r) = ContinueRow \/ \E k \in S : NextRow(r) = RowAt(k)
  BY <1>2, RowForIs
<1>4. OfTable(NextRow(r))
  BY <1>2, <1>3 DEF OfTable
<1>5. Height(r) \in 1..4
  BY <1>1 DEF Height, Key, PAYG
<1>6. CASE NextRow(r) = ContinueRow
  <2>1. Height(ContinueRow) = 0
    BY DEF Height, ContinueRow, PAYG
  <2> QED BY <1>4, <1>5, <1>6, <2>1
<1>7. ASSUME NEW k \in S, NextRow(r) = RowAt(k) PROVE Height(NextRow(r)) < Height(r)
  <2>1. k \in {60, 80, 90, 100} /\ k < h /\ NextRow(r).pct = k
    BY <1>2, <1>7, RowsTyped DEF Key, PAYG
  <2>2. Height(NextRow(r)) = IF k = 60 THEN 1 ELSE IF k = 80 THEN 2 ELSE IF k = 90 THEN 3 ELSE 4
    BY <2>1 DEF Height, PAYG
  <2>3. h \in {60, 80, 90, 100}
    BY <1>1, <2>1 DEF Key, PAYG
  <2>4. Height(r) = IF h = 60 THEN 1 ELSE IF h = 80 THEN 2 ELSE IF h = 90 THEN 3 ELSE 4
    BY <1>1, <2>3 DEF Height, PAYG
  <2> QED BY <2>1, <2>2, <2>3, <2>4
<1> QED BY <1>3, <1>4, <1>6, <1>7

LEMMA CostTransitions ==
  ASSUME state \in State, NEW to, Transition(to) \/ TryTransition(to, FALSE, FALSE)
  PROVE  state' \in State
<1>1. \A s \in State : \A t : IsLegal(s, t) => t \in State
  BY DEF IsLegal, TransitionTable, State
<1> QED BY <1>1 DEF Transition, TryTransition, TransitionFails

\* Only loading makes a row of the table, and only the budget chooses among them.
CostInv == CostTypeOK /\ RowsOfDoctrine

LEMMA CostInitially == CostInit => CostInv
<1> SUFFICES ASSUME CostInit PROVE CostInv
  OBVIOUS
<1>1. PICK d \in DOMAIN BuiltinCostProfile, ov \in Overrides :
          /\ TightenOnly(BuiltinCostProfile[d], ov)
          /\ table = LoadThresholdTable(BuiltinCostProfile[d], ov)
  BY DEF CostInit
<1>2. /\ BuiltinCostProfile[d] \in [Key -> Action]
      /\ DOMAIN ov \subseteq Key /\ \A k \in DOMAIN ov : ov[k] \in Action
  BY ProfilesTyped, CostAssumption
<1>3. table \in [Key -> Action]
  BY <1>1, <1>2 DEF LoadThresholdTable
<1>4. \A k \in Key : severityRank[table[k]] >= severityRank[BuiltinCostProfile[d][k]]
  <2> TAKE k \in Key
  <2>1. CASE k \in DOMAIN ov
    BY <1>1, <2>1 DEF TightenOnly, LoadThresholdTable
  <2>2. CASE k \notin DOMAIN ov
    <3>1. table[k] = BuiltinCostProfile[d][k] /\ BuiltinCostProfile[d][k] \in Action
      BY <1>1, <1>2, <2>2 DEF LoadThresholdTable
    <3> QED BY <3>1, RankTyped
  <2> QED BY <2>1, <2>2
<1>5. CostTypeOK
  <2>1. ContinueRow \in ThresholdRow
    BY <1>3, RowsTyped
  <2>2. row \in [tick : ThresholdRow, walk : ThresholdRow]
    BY <2>1 DEF CostInit
  <2>3. at \in [tick : {"idle", "peek", "move", "commit", "append"},
               walk : {"off", "timer", "peek", "move"}]
    BY DEF CostInit
  <2>4. records \in Seq(Action)
    BY DEF CostInit
  <2>5. state \in State /\ restore \in State
    BY DEF CostInit, State
  <2>6. changes \in 0..MaxChanges /\ costFailures \in 0..MaxCostFailures /\ moves \in 0..MaxMoves
    <3>1. changes = 0 /\ costFailures = 0 /\ moves = 0
      BY DEF CostInit
    <3> QED BY <3>1, CostAssumption
  <2>7. budget \in Budgets /\ pending \in BOOLEAN /\ held \in BOOLEAN
    BY DEF CostInit
  <2> QED BY <1>3, <2>2, <2>3, <2>4, <2>5, <2>6, <2>7 DEF CostInit, CostTypeOK
<1>6. RowsOfDoctrine
  BY <1>1, <1>4 DEF CostInit, RowsOfDoctrine, OfTable
<1> QED BY <1>5, <1>6 DEF CostInv

\* The actuator leaves the rows alone.
LEMMA ActuatorKeeps ==
  ASSUME CostInv, NEW a \in {"tick", "walk"}, Peek(a) \/ Move(a)
  PROVE  CostTypeOK' /\ UNCHANGED <<table, currentRow, prior, row>>
<1>1. UNCHANGED <<budget, table, currentRow, prior, row, records, changes, moves>>
  BY DEF Peek, Move, engineVars, bounds
<1>2. at' \in [tick : {"idle", "peek", "move", "commit", "append"},
               walk : {"off", "timer", "peek", "move"}]
  <2>1. at' = [at EXCEPT ![a] = "move"] \/ at' = [at EXCEPT ![a] = After(a)] \/ at' = [at EXCEPT ![a] = Failed(a)]
    BY DEF Peek, Move, CostGoto
  <2> QED BY <2>1 DEF CostInv, CostTypeOK, After, Failed
<1>3. state' \in State /\ restore' \in State
  <2>1. CASE Peek(a)
    BY <2>1 DEF Peek, CostInv, CostTypeOK, askVars
  <2>2. CASE Move(a)
    <3>1. (UNCHANGED <<state, restore>>) \/ (Transition(TargetOf(row[a].action)) /\ restore' \in {state, restore})
      BY <2>2 DEF Move, askVars
    <3> QED BY <3>1, CostTransitions DEF CostInv, CostTypeOK
  <2> QED BY <2>1, <2>2
<1>4. pending' \in BOOLEAN /\ held' \in BOOLEAN
  BY Zenon DEF Peek, Move, askVars, CostInv, CostTypeOK
<1>5. costFailures' \in 0..MaxCostFailures
  BY CostAssumption DEF Peek, Move, bounds, CostInv, CostTypeOK
<1> QED BY <1>1, <1>2, <1>3, <1>4, <1>5 DEF CostInv, CostTypeOK

\* What a step does to the rows: the poll takes the row of its snapshot, Commit puts it
\* in force, a recovery starts at the row replaced and goes down.
RowStep ==
    \/ UNCHANGED <<currentRow, prior, row>>
    \/ row' = [row EXCEPT !.tick = Evaluate(budget)] /\ UNCHANGED <<currentRow, prior>>
    \/ prior' = currentRow /\ currentRow' = row.tick /\ UNCHANGED row
    \/ /\ row' = [row EXCEPT !.walk = prior] /\ UNCHANGED <<currentRow, prior>>
       /\ prior.action # "nil" /\ at.walk = "off"
    \/ /\ row' = [row EXCEPT !.walk = NextRow(row.walk)] /\ UNCHANGED <<currentRow, prior>>
       /\ row.walk.action # "continue"

LEMMA CostRowStep == ASSUME CostInv, [CostNext]_costVars PROVE RowStep /\ table' = table
<1>1. CASE Tick
  BY <1>1 DEF Tick, RowStep, engineVars
<1>2. CASE Commit
  BY <1>2 DEF Commit, RowStep
<1>3. CASE AppendRecord
  <2>1. UNCHANGED <<table, currentRow, prior>>
    BY <1>3 DEF AppendRecord, engineVars
  <2>2. CASE Recovers /\ row' = [row EXCEPT !.walk = prior]
    BY <2>1, <2>2 DEF Recovers, RowStep
  <2>3. CASE row' = [row EXCEPT !.walk = row.walk] \/ row' = row
    <3>1. row' = row
      BY <2>3 DEF CostInv, CostTypeOK
    <3> QED BY <2>1, <3>1 DEF RowStep
  <2> QED BY <1>3, <2>2, <2>3 DEF AppendRecord
<1>4. CASE WalkStep
  BY <1>4 DEF WalkStep, RowStep, engineVars
<1>5. ASSUME NEW a \in {"tick", "walk"}, Peek(a) \/ Move(a) PROVE RowStep /\ table' = table
  BY <1>5, ActuatorKeeps DEF RowStep
<1>6. CASE HandleBudgetDegradation \/ BudgetChanges \/ BuildMove \/ Answer
  BY <1>6 DEF HandleBudgetDegradation, BudgetChanges, BuildMove, Answer, RowStep, engineVars, actorVars
<1>7. CASE UNCHANGED costVars
  BY <1>7 DEF costVars, RowStep, engineVars, actorVars
<1> QED BY <1>1, <1>2, <1>3, <1>4, <1>5, <1>6, <1>7 DEF CostNext, Engine, Walk

LEMMA RowsKept ==
  ASSUME CostInv, [CostNext]_costVars
  PROVE  /\ RowsOfDoctrine' /\ table' = table
         /\ row' \in [tick : ThresholdRow, walk : ThresholdRow]
         /\ currentRow' \in ThresholdRow \cup {NoRow} /\ prior' \in ThresholdRow \cup {NoRow}
<1>1. RowStep /\ table' = table
  BY CostRowStep
<1>2. /\ table \in [Key -> Action] /\ row \in [tick : ThresholdRow, walk : ThresholdRow]
      /\ OfTable(row.tick) /\ OfTable(row.walk)
      /\ currentRow = NoRow \/ OfTable(currentRow)
      /\ prior = NoRow \/ OfTable(prior)
  BY DEF CostInv, CostTypeOK, RowsOfDoctrine
<1>3. /\ row' \in [tick : {row.tick, Evaluate(budget)},
                   walk : {row.walk} \cup {x \in {prior, NextRow(row.walk)} : OfTable(x)}]
      /\ currentRow' \in {currentRow, row.tick} /\ prior' \in {prior, currentRow}
  <2>1. prior.action # "nil" => OfTable(prior)
    BY <1>2 DEF NoRow
  <2>2. row.walk.action # "continue" => OfTable(NextRow(row.walk))
    BY <1>2, NextRowLower
  <2> QED BY <1>1, <1>2, <2>1, <2>2 DEF RowStep
<1>4. /\ OfTable(row'.tick) /\ OfTable(row'.walk)
      /\ currentRow' = NoRow \/ OfTable(currentRow')
      /\ prior' = NoRow \/ OfTable(prior')
  BY <1>2, <1>3, EvaluateOfTable
<1>5. RowsOfDoctrine'
  <2>1. /\ OfTable(row.tick)' /\ OfTable(row.walk)'
        /\ currentRow' = NoRow \/ OfTable(currentRow)'
        /\ prior' = NoRow \/ OfTable(prior)'
    BY <1>1, <1>4 DEF OfTable, RowAt, ContinueRow
  <2> QED BY <1>1, <2>1 DEF RowsOfDoctrine, CostInv, NoRow
<1>6. \A r : OfTable(r) => r \in ThresholdRow
  BY <1>2, RowsTyped
<1>7. row'.tick \in ThresholdRow /\ row'.walk \in ThresholdRow
  BY <1>4, <1>6
<1>8. currentRow' \in ThresholdRow \cup {NoRow} /\ prior' \in ThresholdRow \cup {NoRow}
  BY <1>4, <1>6
<1>9. row' \in [tick : ThresholdRow, walk : ThresholdRow]
  <2>1. row' = [tick |-> row'.tick, walk |-> row'.walk]
    BY <1>3
  <2> QED BY <1>7, <2>1
<1> QED BY <1>1, <1>5, <1>8, <1>9

LEMMA CostInductive == ASSUME CostInv, [CostNext]_costVars PROVE CostInv'
<1> USE RowsKept
<1>1. CASE Tick
  BY <1>1 DEF Tick, CostGoto, CostInv, CostTypeOK, engineVars, askVars, bounds
<1>2. CASE Commit
  BY <1>2 DEF Commit, CostGoto, CostInv, CostTypeOK, askVars, bounds
<1>3. CASE AppendRecord
  <2>1. records' \in Seq(Action)
    <3>1. row.tick.action \in Action /\ records \in Seq(Action)
      BY DEF CostInv, CostTypeOK, ThresholdRow
    <3>2. records' = records \/ records' = Append(records, row.tick.action)
      BY <1>3 DEF AppendRecord
    <3> QED BY <3>1, <3>2
  <2>2. at' \in [tick : {"idle", "peek", "move", "commit", "append"},
               walk : {"off", "timer", "peek", "move"}]
    BY <1>3 DEF AppendRecord, CostGoto, CostInv, CostTypeOK
  <2>3. costFailures' \in 0..MaxCostFailures
    BY <1>3, CostAssumption DEF AppendRecord, CostInv, CostTypeOK
  <2> QED BY <1>3, <2>1, <2>2, <2>3 DEF AppendRecord, CostInv, CostTypeOK, engineVars, askVars
<1>4. CASE WalkStep
  BY <1>4 DEF WalkStep, CostGoto, CostInv, CostTypeOK, engineVars, askVars, bounds
<1>5. ASSUME NEW a \in {"tick", "walk"}, Peek(a) \/ Move(a) PROVE CostInv'
  BY <1>5, ActuatorKeeps DEF CostInv
<1>6. CASE HandleBudgetDegradation
  <2>1. records' \in Seq(Action)
    BY <1>6 DEF HandleBudgetDegradation, CostInv, CostTypeOK
  <2>2. state' \in State
    <3>1. UNCHANGED state \/ TryTransition("degraded", FALSE, FALSE)
      BY <1>6 DEF HandleBudgetDegradation
    <3> QED BY <3>1, CostTransitions DEF CostInv, CostTypeOK
  <2> QED BY <1>6, <2>1, <2>2
         DEF HandleBudgetDegradation, CostInv, CostTypeOK, engineVars, actorVars, askVars, bounds
<1>7. CASE BudgetChanges
  BY <1>7, CostAssumption DEF BudgetChanges, CostInv, CostTypeOK, engineVars, actorVars, askVars
<1>8. CASE BuildMove \/ Answer
  <2>1. state' \in State
    <3>1. \E to : Transition(to)
      BY <1>8 DEF BuildMove, Answer
    <3> QED BY <3>1, CostTransitions DEF CostInv, CostTypeOK
  <2>2. held' \in BOOLEAN /\ pending' \in BOOLEAN
    BY <1>8, Zenon DEF BuildMove, Answer, CostInv, CostTypeOK
  <2>3. moves' \in 0..MaxMoves
    BY <1>8, CostAssumption DEF BuildMove, Answer, Counted, CostInv, CostTypeOK
  <2> QED BY <1>8, <2>1, <2>2, <2>3 DEF BuildMove, Answer, CostInv, CostTypeOK, engineVars, actorVars
<1>9. CASE UNCHANGED costVars
  BY <1>9 DEF costVars, CostInv, CostTypeOK, engineVars, actorVars, askVars, bounds
<1> QED BY <1>1, <1>2, <1>3, <1>4, <1>5, <1>6, <1>7, <1>8, <1>9 DEF CostNext, Engine, Walk

\* The table, the rows in force and replaced and the two goroutines keep their types, for
\* every set of overrides and budgets (cost_gating.go:259-310 and 396-432).
THEOREM CostTypeCorrect == CostSpec => []CostTypeOK
<1>1. CostInv => CostTypeOK
  BY DEF CostInv
<1> QED BY <1>1, CostInitially, CostInductive, PTL DEF CostSpec

\* The engine never acts on a row that the doctrine and its tightening override do not
\* have, whatever the budget, and no override loosens the doctrine (cost_gating.go:277-310).
THEOREM RowsCorrect == CostSpec => []RowsOfDoctrine
<1>1. CostInv => RowsOfDoctrine
  BY DEF CostInv
<1> QED BY <1>1, CostInitially, CostInductive, PTL DEF CostSpec

\* A poll has no say in the row of a walk that is under way.
LEMMA WalkStepDescends ==
  ASSUME CostInv, [CostNext]_costVars, at.walk # "off"
  PROVE  row'.walk = row.walk \/ Height(row'.walk) < Height(row.walk)
<1>1. RowStep
  BY CostRowStep
<1>2. /\ table \in [Key -> Action] /\ row \in [tick : ThresholdRow, walk : ThresholdRow]
      /\ OfTable(row.walk)
  BY DEF CostInv, CostTypeOK, RowsOfDoctrine
<1>3. CASE row' = [row EXCEPT !.walk = NextRow(row.walk)] /\ row.walk.action # "continue"
  <2>1. Height(NextRow(row.walk)) < Height(row.walk)
    BY <1>2, <1>3, NextRowLower
  <2>2. row'.walk = NextRow(row.walk)
    BY <1>2, <1>3
  <2> QED BY <2>1, <2>2
<1>4. CASE row' = row \/ row' = [row EXCEPT !.tick = Evaluate(budget)]
  BY <1>2, <1>4
<1> QED BY <1>1, <1>3, <1>4 DEF RowStep

\* A recovery walk only goes down, also when the poll applies other rows meanwhile: it
\* takes at most four steps (cost_gating.go:637-700).
THEOREM WalkCorrect == CostSpec => WalkDescends
<1>1. CostInv /\ [CostNext]_costVars =>
        [at.walk # "off" /\ at'.walk # "off" =>
          row'.walk = row.walk \/ Height(row'.walk) < Height(row.walk)]_costVars
  BY WalkStepDescends
<1> QED BY <1>1, CostInitially, CostInductive, PTL DEF CostSpec, WalkDescends

-----------------------------------------------------------------------------
(* What the inductive invariants say of types                              *)

LEMMA CascadeTyped == CascadeSpec => []CascadeTypeOK
<1>1. CascadeInv => CascadeTypeOK
  BY DEF CascadeInv
<1> QED BY <1>1, CascadeInitInv, CascadeStepInv, PTL DEF CascadeSpec

LEMMA RetryTyped == RetrySpec => []RetryTypeOK
<1>1. RetryInv => RetryTypeOK
  BY DEF RetryInv
<1> QED BY <1>1, RetryInitInv, RetryStepInv, PTL DEF RetrySpec

LEMMA ManagerTyped == ManagerSpec => []ManagerTypeOK
<1>1. ManagerInv => ManagerTypeOK
  BY DEF ManagerInv
<1> QED BY <1>1, ManagerInitInv, ManagerStepInv, PTL DEF ManagerSpec

=============================================================================
