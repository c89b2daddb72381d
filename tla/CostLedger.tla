----------------------------- MODULE CostLedger -----------------------------
(***************************************************************************)
(* What the providers cost: Dispatcher.Forward emits one event per attempt *)
(* into a bounded channel (AsyncEmitter), whose worker writes it to the    *)
(* table cost_ledger; CostCounters keeps rolling sums in memory, rebuilt   *)
(* from the table at boot.  The worker writes the table and not the        *)
(* counters: only Record does both.                                        *)
(*                                                                         *)
(* One project, profile and tier.  A total is modelled by the samples it   *)
(* adds up.  The sink has no rate cards, so that an emitted row is priced  *)
(* at 0 (orchestrator_wiring.go:280, 320-323); the rows given to Record    *)
(* have all the same price.  Time is a counter of ticks.                   *)
(***************************************************************************)
EXTENDS Integers, FiniteSets, SequencesExt

CONSTANTS
    Spenders,      \* sessions whose attempts are emitted
    Recorders,     \* sessions whose costs are given to Record
    Span,          \* the windows' lengths in ticks; "30d" is the one that is rebuilt
    EmitBuffer,    \* capacity of the emitter's channel
    MaxCosts,      \* bound: attempts emitted and costs recorded
    MaxNow,        \* bound: ticks
    MaxReboots     \* bound: restarts

Windows == {"24h", "30d"}

ASSUME CostLedgerAssumption ==
    /\ Span \in [Windows -> Nat \ {0}]
    /\ \A w \in Windows : Span[w] <= Span["30d"]
    /\ EmitBuffer \in Nat \ {0}
    /\ Spenders \cap Recorders = {}     \* the keys of the sink begin with "attempt:"
    /\ MaxCosts \in Nat /\ MaxNow \in Nat /\ MaxReboots \in Nat

VARIABLES
    now,
    ledger,      \* the table cost_ledger; a row's key is unique
    emitter,     \* the channel, and where Close and the worker are
    flusher,     \* a call of Flush: where it is, and the events accepted before it
    samples,     \* the samples of each window, oldest first
    sessionTotal,       \* sessionCounters
    record,      \* each recorder's call of Record
    rebuild,     \* how far the rebuild is, its rows to come, and its check's two readings of the clock
    loaded,      \* history: rows the counters were given since boot
    accepted,    \* history: events that entered the channel since boot
    ownRow,      \* history: events the table gave a row of their own
    failed,      \* history: events the database refused for another reason than the key
    costs, reboots

tableVars == <<ledger, ownRow, failed>>
emitVars == <<emitter, flusher, accepted>>
countVars == <<samples, sessionTotal, record, rebuild, loaded>>
boundVars == <<now, costs, reboots>>
ledgerVars == <<tableVars, emitVars, countVars, boundVars>>

Payer == Spenders \cup Recorders
CostRow == [by : Payer, ts : 0..MaxNow]
\* An attempt, and the key of the row it asks for: the session, the provider and outcome,
\* and the millisecond.  Attempts that differ may have the same key.
Attempt == [key : [by : Spenders, ts : 0..MaxNow], n : 1..MaxCosts]
Priced(r) == r.by \in Recorders
Fresh == [ch |-> <<>>, closed |-> FALSE, worker |-> "run", done |-> FALSE]
NoFlush == [at |-> "idle", before |-> {}]
NoRecord == [at |-> "idle", ts |-> 0]
BootAt(point) == [at |-> point, left |-> {}, expected |-> 0, checked |-> 0]

\* The memory of a process that starts.
FreshMemory ==
    /\ emitter' = Fresh /\ flusher' = NoFlush
    /\ samples' = [w \in Windows |-> <<>>] /\ sessionTotal' = [p \in Payer |-> 0]
    /\ record' = [q \in Recorders |-> NoRecord]
    /\ rebuild' = BootAt("start")
    /\ loaded' = {} /\ accepted' = {} /\ failed' = {} /\ UNCHANGED ownRow

LedgerInit ==
    /\ now = 0 /\ ledger = {} /\ costs = 0 /\ reboots = 0
    /\ emitter = Fresh /\ flusher = NoFlush
    /\ samples = [w \in Windows |-> <<>>] /\ sessionTotal = [p \in Payer |-> 0]
    /\ record = [q \in Recorders |-> NoRecord]
    /\ rebuild = BootAt("start")
    /\ loaded = {} /\ accepted = {} /\ ownRow = {} /\ failed = {}

ClockTicks ==
    /\ now < MaxNow /\ now' = now + 1
    /\ UNCHANGED <<costs, reboots, tableVars, emitVars, countVars>>

-----------------------------------------------------------------------------
(* WindowCounter                                                           *)

\* Mutant: a sample goes to the end, whatever its time.
AddAtEnd(s, r) == Append(s, r)

\* sort.Search: before the first sample that is later.
Add(s, r) ==
    LET i == Cardinality({j \in DOMAIN s : s[j].ts <= r.ts})
    IN InsertAt(s, i + 1, r)

\* Drops the samples before the first that is after the cutoff.
PruneLocked(s, cutoff) ==
    LET late == {j \in DOMAIN s : s[j].ts > cutoff}
    IN IF late = {} THEN <<>> ELSE SubSeq(s, CHOOSE j \in late : \A k \in late : j <= k, Len(s))

\* What Total counts, and leaves in the window.
Totalled(w, s) == PruneLocked(s, now - Span[w])

-----------------------------------------------------------------------------
(* The emitter                                                             *)

DaemonServes == rebuild.at = "serving"

\* One attempt of Forward.  Emit drops the event when the channel is full or closed.
Emit(p) ==
    /\ DaemonServes /\ costs < MaxCosts /\ costs' = costs + 1
    /\ LET e == [key |-> [by |-> p, ts |-> now], n |-> costs + 1]
           takes == ~emitter.closed /\ Len(emitter.ch) < EmitBuffer
       IN /\ emitter' = IF takes THEN [emitter EXCEPT !.ch = Append(@, e)] ELSE emitter
          /\ accepted' = IF takes THEN accepted \cup {e} ELSE accepted
    /\ UNCHANGED <<now, flusher, reboots, tableVars, countVars>>

\* Mutant: a key that is there already is written over.
SinkInsertReplace(e) ==
    \/ ledger' = ledger \cup {e.key} /\ ownRow' = ownRow \cup {e} /\ UNCHANGED failed
    \/ failed' = failed \cup {e} /\ UNCHANGED <<ledger, ownRow>>

\* InsertCostLedger of the sink.  A key that is there already is no error: a second attempt
\* within the millisecond is taken for a retry of the first, and has no row.  Another error
\* is logged.
SinkInsert(e) ==
    \/ e.key \in ledger /\ UNCHANGED tableVars
    \/ /\ e.key \notin ledger
       /\ \/ ledger' = ledger \cup {e.key} /\ ownRow' = ownRow \cup {e} /\ UNCHANGED failed
          \/ failed' = failed \cup {e} /\ UNCHANGED <<ledger, ownRow>>

\* run's first case, and drainTo's: the oldest event.
WorkerDelivers ==
    /\ emitter.worker \in {"run", "drain"} /\ emitter.ch # <<>>
    /\ SinkInsert(Head(emitter.ch))
    /\ emitter' = [emitter EXCEPT !.ch = Tail(@)]
    /\ UNCHANGED <<flusher, accepted, countVars, boundVars>>

\* Mutant: the request is acknowledged at once.
WorkerTakesFlushAtOnce ==
    /\ emitter.worker = "run" /\ flusher.at = "offering"
    /\ flusher' = [flusher EXCEPT !.at = "returned"]
    /\ UNCHANGED <<emitter, accepted, tableVars, countVars, boundVars>>

\* run's second case.
WorkerTakesFlush ==
    /\ emitter.worker = "run" /\ flusher.at = "offering"
    /\ emitter' = [emitter EXCEPT !.worker = "drain"]
    /\ flusher' = [flusher EXCEPT !.at = "waiting"]
    /\ UNCHANGED <<accepted, tableVars, countVars, boundVars>>

\* drainTo finds nothing more, and answers.
WorkerAnswers ==
    /\ emitter.worker = "drain" /\ emitter.ch = <<>>
    /\ emitter' = [emitter EXCEPT !.worker = "run"]
    /\ flusher' = [flusher EXCEPT !.at = "returned"]
    /\ UNCHANGED <<accepted, tableVars, countVars, boundVars>>

\* run sees the closed channel, empty.
WorkerEnds ==
    /\ emitter.worker = "run" /\ emitter.closed /\ emitter.ch = <<>>
    /\ emitter' = [emitter EXCEPT !.worker = "ended"]
    /\ UNCHANGED <<flusher, accepted, tableVars, countVars, boundVars>>

FlushStart ==
    /\ DaemonServes /\ flusher.at \in {"idle", "returned"}
    /\ flusher' = [at |-> "offering", before |-> accepted]
    /\ UNCHANGED <<emitter, accepted, tableVars, countVars, boundVars>>

\* <-e.done, in either of Flush's two selects.
FlushSeesDone ==
    /\ flusher.at \in {"offering", "waiting"} /\ emitter.done
    /\ flusher' = [flusher EXCEPT !.at = "returned"]
    /\ UNCHANGED <<emitter, accepted, tableVars, countVars, boundVars>>

\* Close, deferred by main.
CloseEmitter ==
    /\ DaemonServes /\ ~emitter.closed
    /\ emitter' = [emitter EXCEPT !.closed = TRUE]
    /\ UNCHANGED <<flusher, accepted, tableVars, countVars, boundVars>>

\* wg.Wait returned.
CloseDone ==
    /\ emitter.closed /\ emitter.worker = "ended" /\ ~emitter.done
    /\ emitter' = [emitter EXCEPT !.done = TRUE]
    /\ UNCHANGED <<flusher, accepted, tableVars, countVars, boundVars>>

EmitterStep ==
    WorkerDelivers \/ WorkerTakesFlush \/ WorkerAnswers \/ WorkerEnds \/ FlushSeesDone \/ CloseDone

-----------------------------------------------------------------------------
(* CostCounters                                                            *)

Recorded(q) == [by |-> q, ts |-> record[q].ts]

\* Record is given a row, of now or of a little before.
RecordStart(q) ==
    /\ DaemonServes /\ record[q].at = "idle" /\ costs < MaxCosts /\ costs' = costs + 1
    /\ \E t \in 0..now : record' = [record EXCEPT ![q] = [at |-> "insert", ts |-> t]]
    /\ UNCHANGED <<now, samples, sessionTotal, rebuild, loaded, reboots, tableVars, emitVars>>

\* Mutant: a row that is already there is counted again.
RecordInsertBlind(q) ==
    /\ record[q].at = "insert"
    /\ ledger' = ledger \cup {Recorded(q)} /\ loaded' = loaded \cup {Recorded(q)}
    /\ record' = [record EXCEPT ![q].at = "session"]
    /\ UNCHANGED <<samples, sessionTotal, rebuild, ownRow, failed, emitVars, boundVars>>

\* A row whose key is there, or that the database refuses, is not counted.
RecordInsert(q) ==
    /\ record[q].at = "insert"
    /\ \/ /\ Recorded(q) \notin ledger
          /\ ledger' = ledger \cup {Recorded(q)} /\ loaded' = loaded \cup {Recorded(q)}
          /\ record' = [record EXCEPT ![q].at = "session"]
       \/ record' = [record EXCEPT ![q].at = "idle"] /\ UNCHANGED <<ledger, loaded>>
    /\ UNCHANGED <<samples, sessionTotal, rebuild, ownRow, failed, emitVars, boundVars>>

\* applyToCounters: the session under the lock of all, each window under its own.
ApplySession(q) ==
    /\ record[q].at = "session"
    /\ sessionTotal' = [sessionTotal EXCEPT ![q] = @ + 1]
    /\ record' = [record EXCEPT ![q].at = "24h"]
    /\ UNCHANGED <<samples, rebuild, loaded, tableVars, emitVars, boundVars>>

ApplyWindow(q, w, next) ==
    /\ record[q].at = w
    /\ samples' = [samples EXCEPT ![w] = Add(@, Recorded(q))]
    /\ record' = [record EXCEPT ![q].at = next]
    /\ UNCHANGED <<sessionTotal, rebuild, loaded, tableVars, emitVars, boundVars>>

RecordStep(q) ==
    \/ RecordInsert(q) \/ ApplySession(q)
    \/ ApplyWindow(q, "24h", "30d") \/ ApplyWindow(q, "30d", "idle")

\* Total, by any reader, and the hourly PruneOlderThan, window by window.
PruneWindow(w) ==
    /\ DaemonServes /\ Totalled(w, samples[w]) # samples[w]
    /\ samples' = [samples EXCEPT ![w] = Totalled(w, @)]
    /\ UNCHANGED <<sessionTotal, record, rebuild, loaded, tableVars, emitVars, boundVars>>

-----------------------------------------------------------------------------
(* Boot                                                                    *)

\* The process ends, at any point; only the table stays.
RestartDaemon ==
    /\ reboots < MaxReboots /\ reboots' = reboots + 1
    /\ FreshMemory
    /\ UNCHANGED <<now, ledger, costs>>

\* RebuildFromLedger asks for the rows of the last thirty days ...
RebuildFromLedger ==
    /\ rebuild.at = "start"
    /\ rebuild' = [rebuild EXCEPT !.at = "rows", !.left = {r \in ledger : r.ts >= now - Span["30d"]}]
    /\ UNCHANGED <<samples, sessionTotal, record, loaded, tableVars, emitVars, boundVars>>

\* ... and adds each to all its counters, oldest first.
ReplayRow ==
    /\ rebuild.at = "rows"
    /\ \E r \in rebuild.left :
          /\ \A other \in rebuild.left : r.ts <= other.ts
          /\ rebuild' = [rebuild EXCEPT !.left = @ \ {r}]
          /\ loaded' = loaded \cup {r}
          /\ sessionTotal' = [sessionTotal EXCEPT ![r.by] = @ + 1]
          /\ samples' = [w \in Windows |-> Add(samples[w], r)]
    /\ UNCHANGED <<record, tableVars, emitVars, boundVars>>

\* verifyRebuild reads the clock ...
VerifyExpects ==
    /\ rebuild.at = "rows" /\ rebuild.left = {}
    /\ rebuild' = [rebuild EXCEPT !.at = "verify", !.expected = now]
    /\ UNCHANGED <<samples, sessionTotal, record, loaded, tableVars, emitVars, boundVars>>

\* ... and Total reads it again.  A difference of the sums ends the process.
VerifyCompares ==
    /\ rebuild.at = "verify"
    /\ LET want == {r \in loaded : r.ts >= rebuild.expected - Span["30d"]}
           got == Totalled("30d", samples["30d"])
       IN /\ samples' = [samples EXCEPT !["30d"] = got]
          /\ rebuild' = IF Cardinality({i \in DOMAIN got : Priced(got[i])})
                              = Cardinality({r \in want : Priced(r)})
                     THEN BootAt("serving")
                     ELSE [rebuild EXCEPT !.at = "refused", !.checked = now]
    /\ UNCHANGED <<sessionTotal, record, loaded, tableVars, emitVars, boundVars>>

LedgerNext ==
    \/ ClockTicks \/ EmitterStep \/ FlushStart \/ CloseEmitter
    \/ \E p \in Spenders : Emit(p)
    \/ \E q \in Recorders : RecordStart(q) \/ RecordStep(q)
    \/ \E w \in Windows : PruneWindow(w)
    \/ RestartDaemon \/ RebuildFromLedger \/ ReplayRow \/ VerifyExpects \/ VerifyCompares

LedgerSpec == LedgerInit /\ [][LedgerNext]_ledgerVars

-----------------------------------------------------------------------------
(* Properties                                                              *)

\* The table, the channel, the windows and the rebuild hold what their types allow.
LedgerTypeOK ==
    /\ now \in 0..MaxNow /\ ledger \subseteq CostRow /\ loaded \subseteq ledger /\ ownRow \subseteq Attempt
    /\ emitter.ch \in Seq(Attempt) /\ Len(emitter.ch) <= EmitBuffer
    /\ emitter.worker \in {"run", "drain", "ended"} /\ emitter.closed \in BOOLEAN
    /\ flusher.at \in {"idle", "offering", "waiting", "returned"}
    /\ samples \in [Windows -> Seq(CostRow)] /\ sessionTotal \in [Payer -> Nat]
    /\ record \in [Recorders -> [at : {"idle", "insert", "session"} \cup Windows, ts : 0..MaxNow]]
    /\ rebuild.at \in {"start", "rows", "verify", "serving", "refused"}

\* Rows that Record has written and has not yet added to the window.
Underway(w) ==
    {Recorded(q) : q \in {p \in Recorders :
        record[p].at \in {"session", w} \cup (IF w = "30d" THEN {"24h"} ELSE {})}}

\* What a reader is told of a window is the rows inside it that the counters were given,
\* each once, whatever the order of their times, the retries of a key, the prunes, and
\* the restart; and a row of the table that they were not given came from the emitter,
\* or is older than thirty days.  A boot is refused only for a row that left the window
\* between the two readings of the clock, or stands on its edge: counters that hold exactly
\* the rows they were given may thus be refused, where verifyRebuild says that any
\* difference is a routing or arithmetic bug and that its cutoff matches the window's
\* (cost_counters.go:56-107, 187-227, 362-423, its comments at 381-383 and 391-392).
CountersExact ==
    /\ \A w \in Windows : LET told == Totalled(w, samples[w]) IN
           /\ IsInjective(told)
           /\ Range(told) = {r \in loaded : r.ts > now - Span[w]} \ Underway(w)
    /\ DaemonServes => \A r \in ledger \ loaded :
           r.by \in Spenders \/ r.ts < now - Span["30d"]
    /\ rebuild.at = "refused" => \E r \in loaded : Priced(r)
           /\ r.ts >= rebuild.expected - Span["30d"] /\ r.ts <= rebuild.checked - Span["30d"]

\* The database was asked for a row of the attempt, and took it, refused it, or had the
\* row of another attempt with its key.
Tried(e) == e \in failed \/ \E f \in ownRow : f.key = e.key

\* Flush returns when the attempts accepted before it have been tried, and Close when all
\* have, although both race with the worker, with Emit and with each other
\* (cost_emit.go:133-182, 205-266).
EventsWritten ==
    /\ flusher.at = "returned" => \A e \in flusher.before : Tried(e)
    /\ emitter.done => \A e \in accepted : Tried(e)

\* Each row that came from the emitter is the row of one attempt.
OneRowEach ==
    /\ \A r \in ledger : r.by \in Spenders => \E e \in ownRow : e.key = r
    /\ \A e, f \in ownRow : e.key = f.key => e = f

\* The three together: no cost that was accepted or recorded is counted twice on its way to
\* the table, the counters and back, and none that was accepted is lost, unless the database
\* refuses it or an attempt with its key has the row (orchestrator_wiring.go:309-313,
\* 336-344; cost_emit.go:133-266, cost_counters.go:187-245, 362-457).
CostsKept == CountersExact /\ EventsWritten /\ OneRowEach

=============================================================================
