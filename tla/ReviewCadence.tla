---------------------------- MODULE ReviewCadence ----------------------------
(***************************************************************************)
(* HRACoordinator: one loop per review layer collects the records of its   *)
(* subscription and, at each tick, aggregates those in the tick's window   *)
(* into a row of the event log.  The rows of the tactical and strategic    *)
(* layers are the records of the architectural one, whose window starts    *)
(* where the last one that had records ended.  Publication is one step     *)
(* here (EventLog has its detail).  Tick and OnPhaseBoundary, which        *)
(* nothing in the daemon calls, are left out.                              *)
(***************************************************************************)
EXTENDS Integers, Sequences, SequencesExt, FiniteSetsExt

CONSTANTS
    Reviewers,          \* writers of checkpoints and wave reports, one each
    Opinion,            \* the verdict each of them reports
    Cadence,            \* each layer's period, 0 for a layer without a loop
    SubscriptionSize,   \* eventlog.DefaultBufferSize
    MaxHraClock         \* bound on the time that passes

Layer == {"tactical", "strategic", "architectural"}
Feeder == Layer \ {"architectural"}

ASSUME CadenceAssumption ==
    /\ Opinion \in [Reviewers -> {"ack", "needs_fix"}] /\ Cadence \in [Layer -> Nat]
    /\ MaxHraClock \in Nat /\ SubscriptionSize \in Nat \ {0}

VARIABLES
    hraClock,
    report,          \* each reviewer's record, [to, stamp, sent]
    inbox,           \* the channels of the three subscriptions
    ticker,          \* each layer's: when it fires next, and its channel of one time or none
    layerLoop,       \* [at: "select", "emit", "operator", "escalate" or "ended", buf, finding]
    lastArchAt,      \* -1 before the first architectural review that had records
    hraRun,          \* Run: "running", "cancelled", "closed" or "returned"
    hraRows,         \* the rows the log was asked to append
    reviews          \* history: the findings of the reviews that had records

hraVars == <<hraClock, report, inbox, ticker, layerLoop, lastArchAt, hraRun,
             hraRows, reviews>>

NoFinding == [layer |-> "none", since |-> 0, until |-> 0, count |-> 0, verdict |-> "ack",
              disagreement |-> FALSE]
NoReport == [to |-> "none", stamp |-> 0, sent |-> FALSE]

\* Run has subscribed and started the loops, whose tickers need not start together.
HraInit ==
    /\ hraClock = 0 /\ report = [w \in Reviewers |-> NoReport]
    /\ inbox = [l \in Layer |-> <<>>]
    /\ \E late \in SUBSET {l \in Layer : Cadence[l] > 0} :
           ticker = [l \in Layer |-> [due |-> IF l \in late THEN Cadence[l] + 1 ELSE Cadence[l],
                                      c |-> {}]]
    /\ layerLoop = [l \in Layer |-> [at |-> IF Cadence[l] > 0 THEN "select" ELSE "ended",
                                     buf |-> <<>>, finding |-> NoFinding]]
    /\ lastArchAt = -1
    /\ hraRun = "running" /\ hraRows = {} /\ reviews = {}

-----------------------------------------------------------------------------
(* The clock and the reviewers                                             *)

\* Time passes.  A ticker whose channel still holds a time drops this one.
ClockAdvances ==
    /\ hraClock < MaxHraClock /\ hraClock' = hraClock + 1
    /\ ticker' = [l \in Layer |->
           IF Cadence[l] = 0 \/ ticker[l].due # hraClock' THEN ticker[l]
           ELSE [due |-> hraClock' + Cadence[l],
                 c |-> IF ticker[l].c = {} THEN {hraClock'} ELSE ticker[l].c]]
    /\ UNCHANGED <<report, inbox, layerLoop, lastArchAt, hraRun, hraRows, reviews>>

\* A record is stamped before it is appended.
ReportStamped(w, l) ==
    /\ report[w].to = "none"
    /\ report' = [report EXCEPT ![w] = [to |-> l, stamp |-> hraClock, sent |-> FALSE]]
    /\ UNCHANGED <<hraClock, inbox, ticker, layerLoop, lastArchAt, hraRun, hraRows,
                   reviews>>

\* publish to the subscription of layer l, which drops its oldest record when full.
Publish(l, stamp, verdict) ==
    LET ch == inbox[l]
        room == IF Len(ch) = SubscriptionSize THEN Tail(ch) ELSE ch
    IN inbox' = IF hraRun \in {"closed", "returned"} THEN inbox
                ELSE [inbox EXCEPT ![l] = Append(room, [stamp |-> stamp, verdict |-> verdict])]

ReportAppended(w) ==
    /\ report[w].to # "none" /\ ~report[w].sent /\ report' = [report EXCEPT ![w].sent = TRUE]
    /\ Publish(report[w].to, report[w].stamp, Opinion[w])
    /\ UNCHANGED <<hraClock, ticker, layerLoop, lastArchAt, hraRun, hraRows, reviews>>

-----------------------------------------------------------------------------
(* The loop of a layer                                                     *)

Collect(l) ==
    /\ layerLoop[l].at = "select" /\ inbox[l] # <<>>
    /\ layerLoop' = [layerLoop EXCEPT ![l].buf = Append(@, Head(inbox[l]))]
    /\ inbox' = [inbox EXCEPT ![l] = Tail(@)]
    /\ UNCHANGED <<hraClock, report, ticker, lastArchAt, hraRun, hraRows, reviews>>

\* WindowOf, and the three aggregators.
WindowOf(records, since, until) ==
    SelectSeq(records, LAMBDA r : since <= r.stamp /\ r.stamp < until)

AggregateLayer(l, records, since, until) ==
    LET window == WindowOf(records, since, until)
        ack == Len(SelectSeq(window, LAMBDA r : r.verdict = "ack"))
        fix == Len(SelectSeq(window, LAMBDA r : r.verdict = "needs_fix"))
        needsFix == fix > 0 /\ (l = "architectural" \/ fix >= ack)
    IN [layer |-> l, since |-> since, until |-> until, count |-> Len(window),
        verdict |-> IF needsFix THEN "needs_fix" ELSE "ack",
        disagreement |-> needsFix /\ (IF l = "architectural" THEN ack > 0 ELSE ack = fix)]

Since(l, fireAt) ==
    IF l = "architectural" /\ lastArchAt >= 0 THEN lastArchAt ELSE fireAt - Cadence[l]

\* Mutant: an architectural tick without records moves the window as well.
ReviewMovesWindow(l) ==
    /\ layerLoop[l].at = "select" /\ ticker[l].c # {}
    /\ ticker' = [ticker EXCEPT ![l].c = {}]
    /\ LET fireAt == CHOOSE t \in ticker[l].c : TRUE
           found == AggregateLayer(l, layerLoop[l].buf, Since(l, fireAt), fireAt)
       IN /\ lastArchAt' = IF l = "architectural" THEN fireAt ELSE lastArchAt
          /\ IF layerLoop[l].buf = <<>> THEN UNCHANGED <<layerLoop, reviews>>
             ELSE /\ layerLoop' = [layerLoop EXCEPT ![l] = [at |-> "emit", buf |-> <<>>, finding |-> found]]
                  /\ reviews' = reviews \cup {found}
    /\ UNCHANGED <<hraClock, report, inbox, hraRun, hraRows>>

\* A tick: the records collected are aggregated and forgotten, in the window or not.
Review(l) ==
    /\ layerLoop[l].at = "select" /\ ticker[l].c # {}
    /\ ticker' = [ticker EXCEPT ![l].c = {}]
    /\ LET fireAt == CHOOSE t \in ticker[l].c : TRUE
           found == AggregateLayer(l, layerLoop[l].buf, Since(l, fireAt), fireAt)
       IN IF layerLoop[l].buf = <<>> THEN UNCHANGED <<layerLoop, lastArchAt, reviews>>
          ELSE /\ layerLoop' = [layerLoop EXCEPT ![l] = [at |-> "emit", buf |-> <<>>, finding |-> found]]
               /\ lastArchAt' = IF l = "architectural" THEN fireAt ELSE lastArchAt
               /\ reviews' = reviews \cup {found}
    /\ UNCHANGED <<hraClock, report, inbox, hraRun, hraRows>>

\* Append, whose error is discarded.
AskLog(type, f) == hraRows' = hraRows \cup {[type |-> type, of |-> f]}

LoopGoes(l, at) == layerLoop' = [layerLoop EXCEPT ![l].at = at]

\* The row of the review, under a context that outlives the cancellation.
EmitReview(l) ==
    LET f == layerLoop[l].finding IN
    /\ layerLoop[l].at = "emit"
    /\ AskLog("review", f)
    /\ \/ /\ l \in Feeder /\ LoopGoes(l, IF f.disagreement THEN "escalate" ELSE "select")
          /\ Publish("architectural", f.until, f.verdict) \/ UNCHANGED inbox
       \/ /\ l \notin Feeder /\ LoopGoes(l, IF f.verdict = "needs_fix" THEN "operator" ELSE "select")
          /\ UNCHANGED inbox
    /\ UNCHANGED <<hraClock, report, ticker, lastArchAt, hraRun, reviews>>

\* emitEscalation, for the architectural layer only.
EmitEscalation(l) ==
    /\ layerLoop[l].at = "operator" /\ AskLog("operator", layerLoop[l].finding) /\ LoopGoes(l, "escalate")
    /\ UNCHANGED <<hraClock, report, inbox, ticker, lastArchAt, hraRun, reviews>>

\* The route and the class of an escalation follow from the layer.
HandleDisagreement(l) ==
    /\ layerLoop[l].at = "escalate" /\ AskLog("escalation", layerLoop[l].finding) /\ LoopGoes(l, "select")
    /\ UNCHANGED <<hraClock, report, inbox, ticker, lastArchAt, hraRun, reviews>>

\* Mutant: a loop that ends as soon as the context does.
LoopEndsAtOnce(l) ==
    /\ hraRun # "running" /\ layerLoop[l].at # "ended" /\ LoopGoes(l, "ended")
    /\ UNCHANGED <<hraClock, report, inbox, ticker, lastArchAt, hraRun, hraRows, reviews>>

LoopEnds(l) ==
    /\ hraRun # "running" /\ layerLoop[l].at = "select" /\ LoopGoes(l, "ended")
    /\ UNCHANGED <<hraClock, report, inbox, ticker, lastArchAt, hraRun, hraRows, reviews>>

-----------------------------------------------------------------------------
(* Run                                                                     *)

Cancel ==
    /\ hraRun = "running" /\ hraRun' = "cancelled"
    /\ UNCHANGED <<hraClock, report, inbox, ticker, layerLoop, lastArchAt, hraRows, reviews>>

\* The subscriptions are closed, then Run waits for the loops.
RunEnds ==
    /\ \/ hraRun = "cancelled" /\ hraRun' = "closed"
       \/ hraRun = "closed" /\ (\A l \in Layer : layerLoop[l].at = "ended") /\ hraRun' = "returned"
    /\ UNCHANGED <<hraClock, report, inbox, ticker, layerLoop, lastArchAt, hraRows, reviews>>

LayerStep(l) == Collect(l) \/ Review(l) \/ EmitReview(l) \/ EmitEscalation(l) \/ HandleDisagreement(l)

\* After Run has returned nothing here changes any more, so the behaviour ends.
HraNext ==
    /\ hraRun # "returned"
    /\ \/ ClockAdvances \/ Cancel \/ RunEnds
       \/ \E w \in Reviewers :
              \/ \E l \in {f \in Feeder : Cadence[f] > 0} : ReportStamped(w, l)
              \/ ReportAppended(w)
       \/ \E l \in Layer : LayerStep(l) \/ LoopEnds(l)

HraSpec == HraInit /\ [][HraNext]_hraVars

-----------------------------------------------------------------------------
(* Properties                                                              *)

HraTypeOK ==
    /\ \A l \in Layer : /\ Len(inbox[l]) <= SubscriptionSize /\ Cardinality(ticker[l].c) <= 1
                        /\ layerLoop[l].at \in {"select", "emit", "operator", "escalate", "ended"}
    /\ lastArchAt \in -1..MaxHraClock
    /\ hraRun \in {"running", "cancelled", "closed", "returned"}

ArchReviews == {f \in reviews : f.layer = "architectural"}
Asked(type, f) == [type |-> type, of |-> f] \in hraRows

\* The windows of the architectural reviews follow each other without a gap or an
\* overlap, whatever ticks came late, were dropped or found nothing; and when Run has
\* returned, each review that had records was appended, with the escalation of a
\* disagreement and the operator's row of an architectural fix, although the context
\* ended in the middle of it (hra/coordinator.go:279-293, 386-403, 496-528).
ReviewsSound ==
    /\ \A f \in ArchReviews :
           /\ f.since < f.until
           /\ \A g \in ArchReviews : g.until < f.until => g.until <= f.since
           /\ (\E g \in ArchReviews : g.until < f.until) => \E g \in ArchReviews : g.until = f.since
    /\ hraRun = "returned" =>
           \A f \in reviews :
               /\ Asked("review", f)
               /\ f.disagreement => Asked("escalation", f)
               /\ f.layer = "architectural" /\ f.verdict = "needs_fix"
                      => Asked("operator", f) /\ Asked("escalation", f)

\* Run returns once its context is over (hra/coordinator.go:279-293).
RunReturns == hraRun = "cancelled" ~> hraRun = "returned"

=============================================================================
