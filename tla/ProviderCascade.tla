--------------------------- MODULE ProviderCascade ---------------------------
(***************************************************************************)
(* The daemon's single way out to the LLM providers: Dispatcher.Forward of *)
(* internal/daemon/dispatcher walks a cascade of providers, each guarded   *)
(* by a CircuitBreaker of internal/daemon/orchestrator, while the recovery *)
(* scheduler and the operator's probe endpoint try to heal the ones that   *)
(* failed.                                                                 *)
(*                                                                         *)
(* Every method of the breaker is one critical section of cb.mu.  A call   *)
(* and a probe run outside it: a reply is recorded, and a probe's verdict  *)
(* written, into whatever the breaker has become meanwhile.  Time is what  *)
(* the two cooldowns tell apart: elapsed or not.                           *)
(***************************************************************************)
EXTENDS Naturals, Sequences

CONSTANTS
    Callers,           \* goroutines in Forward
    Probers,           \* the recovery scheduler and the probe endpoint
    Provider,          \* backends that are registered
    Cascade,           \* the provider names the profile resolves to, in order
    FailureThreshold,  \* consecutive failures that make a provider suspect
    MaxLimited         \* bound: rate limits in a row that are told apart

ASSUME CascadeAssumption ==
    /\ Cascade \in Seq(STRING \cup Provider)
    /\ FailureThreshold \in Nat \ {0} /\ MaxLimited \in Nat \ {0}

VARIABLES
    breaker,   \* cb.breakers
    fwd,       \* the step of each Forward, and its place in the cascade
    probing    \* the providers each prober is probing, at most one at a time

cascadeVars == <<breaker, fwd, probing>>

BreakerState == {"closed", "suspect", "open", "rate_limited"}
FreshBreaker == [state |-> "closed", consecF |-> 0, rlAttempt |-> 0,
                 cooled |-> FALSE, expired |-> FALSE]
NoForward == [at |-> "idle", i |-> 1]

CascadeInit ==
    /\ breaker = [p \in Provider |-> FreshBreaker]
    /\ fwd = [c \in Callers |-> NoForward]
    /\ probing = [x \in Probers |-> {}]

-----------------------------------------------------------------------------
(* The breaker's methods, as updates of one provider's record              *)

\* Permit: a rate limit that has expired closes the breaker again.
Permit(b) ==
    IF b.state = "rate_limited" /\ b.expired THEN [b EXCEPT !.state = "closed"] ELSE b

\* RecordSuccess: any state becomes closed.
RecordSuccess(b) == [b EXCEPT !.state = "closed", !.consecF = 0, !.rlAttempt = 0]

AtMost(n, max) == IF n < max THEN n ELSE max

\* RecordFailure: the count goes on in every state, but only a closed breaker
\* trips.  Failures beyond the threshold make no difference.
RecordFailure(b) ==
    LET n == AtMost(b.consecF + 1, FailureThreshold) IN
    [b EXCEPT !.consecF = n,
              !.state = IF @ = "closed" /\ n >= FailureThreshold THEN "suspect" ELSE @]

\* RecordRateLimited: any state becomes rate_limited, for a new cooldown.
RecordRateLimited(b) ==
    [b EXCEPT !.state = "rate_limited", !.expired = FALSE,
              !.rlAttempt = AtMost(@ + 1, MaxLimited)]

-----------------------------------------------------------------------------
(* Forward                                                                 *)

ForwardStart(c) ==
    /\ fwd[c].at = "idle" /\ fwd' = [fwd EXCEPT ![c].at = "choose"]
    /\ UNCHANGED <<breaker, probing>>

\* A name that is not registered, or not permitted, is skipped.
Choose(c) ==
    /\ fwd[c].at = "choose" /\ fwd[c].i <= Len(Cascade)
    /\ LET p == Cascade[fwd[c].i] IN
       IF p \notin Provider
       THEN fwd' = [fwd EXCEPT ![c].i = @ + 1] /\ UNCHANGED breaker
       ELSE /\ breaker' = [breaker EXCEPT ![p] = Permit(@)]
            /\ fwd' = IF breaker'[p].state = "closed"
                      THEN [fwd EXCEPT ![c].at = "calling"]
                      ELSE [fwd EXCEPT ![c].i = @ + 1]
    /\ UNCHANGED probing

\* The end of attempt: the outcome is recorded, and a call that failed goes on
\* with the next name unless its caller has given up.
Reply(c) ==
    /\ fwd[c].at = "calling"
    /\ LET p == Cascade[fwd[c].i] IN
       \/ /\ breaker' = [breaker EXCEPT ![p] = RecordSuccess(@)]
          /\ fwd' = [fwd EXCEPT ![c] = NoForward]
       \/ /\ \/ breaker' = [breaker EXCEPT ![p] = RecordFailure(@)]
             \/ breaker' = [breaker EXCEPT ![p] = RecordRateLimited(@)]
             \/ UNCHANGED breaker   \* ErrToolsUnsupported says nothing of p
          /\ \/ fwd' = [fwd EXCEPT ![c].at = "choose", ![c].i = @ + 1]
             \/ fwd' = [fwd EXCEPT ![c] = NoForward]
    /\ UNCHANGED probing

\* ErrAllTiersUnavailable.
Exhausted(c) ==
    /\ fwd[c].at = "choose" /\ fwd[c].i > Len(Cascade)
    /\ fwd' = [fwd EXCEPT ![c] = NoForward]
    /\ UNCHANGED <<breaker, probing>>

ForwardStep(c) == Choose(c) \/ Reply(c) \/ Exhausted(c)

-----------------------------------------------------------------------------
(* AttemptRecovery, by the scheduler and by the probe endpoint             *)

\* A closed, a rate limited and a cooling provider are left alone.
ProbeStart(x, p) ==
    /\ probing[x] = {}
    /\ breaker[p].state = "suspect" \/ (breaker[p].state = "open" /\ breaker[p].cooled)
    /\ breaker' = [breaker EXCEPT ![p].state = "suspect"]
    /\ probing' = [probing EXCEPT ![x] = {p}]
    /\ UNCHANGED fwd

\* Mutant: the failures counted before the probe stay.
ProbeHealsKeepCount(x, p) ==
    /\ p \in probing[x] /\ probing' = [probing EXCEPT ![x] = {}]
    /\ breaker' = [breaker EXCEPT ![p].state = "closed"]
    /\ UNCHANGED fwd

\* The verdict replaces the state, whatever it is by now.
ProbeHeals(x, p) ==
    /\ p \in probing[x] /\ probing' = [probing EXCEPT ![x] = {}]
    /\ breaker' = [breaker EXCEPT ![p].state = "closed", ![p].consecF = 0]
    /\ UNCHANGED fwd

ProbeFails(x, p) ==
    /\ p \in probing[x] /\ probing' = [probing EXCEPT ![x] = {}]
    /\ breaker' = [breaker EXCEPT ![p].state = "open", ![p].cooled = FALSE]
    /\ UNCHANGED fwd

\* The ten minutes after openAt pass; so does the wait of a rate limit.
CoolDown(p) ==
    /\ breaker[p].state = "open" /\ ~breaker[p].cooled
    /\ breaker' = [breaker EXCEPT ![p].cooled = TRUE]
    /\ UNCHANGED <<fwd, probing>>

LimitExpires(p) ==
    /\ breaker[p].state = "rate_limited" /\ ~breaker[p].expired
    /\ breaker' = [breaker EXCEPT ![p].expired = TRUE]
    /\ UNCHANGED <<fwd, probing>>

CascadeNext ==
    \/ \E c \in Callers : ForwardStart(c) \/ ForwardStep(c)
    \/ \E x \in Probers, p \in Provider :
           ProbeStart(x, p) \/ ProbeHeals(x, p) \/ ProbeFails(x, p)
    \/ \E p \in Provider : CoolDown(p) \/ LimitExpires(p)

CascadeSpec == CascadeInit /\ [][CascadeNext]_cascadeVars

-----------------------------------------------------------------------------
(* Properties                                                              *)

\* Breakers, calls and probes hold what their Go types allow.
CascadeTypeOK ==
    /\ breaker \in [Provider -> [state : BreakerState, consecF : 0..FailureThreshold,
                                 rlAttempt : 0..MaxLimited,
                                 cooled : BOOLEAN, expired : BOOLEAN]]
    /\ fwd \in [Callers -> [at : {"idle", "choose", "calling"}, i : 1..(Len(Cascade) + 1)]]
    /\ probing \in [Probers -> SUBSET Provider]

\* A provider with FailureThreshold failures in a row is not permitted, however
\* calls, probes and their late results interleave; only a rate limit that came
\* in between, and has not been followed by a success, lets it through once more
\* (circuit_breaker.go:133-174, 191-235).
TripsAtThreshold ==
    \A p \in Provider :
        breaker[p].state = "closed" /\ breaker[p].rlAttempt = 0
            => breaker[p].consecF < FailureThreshold

Healthy(p) == breaker[p].state = "closed"

\* No state of the breaker is for ever: a provider whose probes are answered in
\* the end is permitted again, although a late failure of another probe may open
\* it and a late reply may rate-limit it in between, and although the scheduler
\* never looks at a rate-limited provider (recovery_scheduler.go:103-115).
ProviderRecovers == \A p \in Provider : ~Healthy(p) ~> Healthy(p)

=============================================================================
