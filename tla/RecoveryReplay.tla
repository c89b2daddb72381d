--------------------------- MODULE RecoveryReplay ---------------------------
(***************************************************************************)
(* What the event log says of a build, and what a restarted daemon makes   *)
(* of it: the rows that the dispatcher, the heartbeat monitor and the      *)
(* recovery engine append (dispatcher.go, recovery_heartbeat.go,           *)
(* recovery.go) and ReconstructInFlight (recovery_replay.go), which infers *)
(* the tasks in flight from them.                                          *)
(*                                                                         *)
(* A row's timestamp is the clock when its writer read it, and the clock   *)
(* is never set back.  A sweep reads it once, so the deaths it appends may *)
(* be older than rows that are in the log before them: ordinary rows have  *)
(* even times, in the order of the log, and sweeps the odd ones between.   *)
(* The id of a row is another matter: the adapter counts from 1 again when *)
(* the daemon restarts, and a query sorts by it, so that the rows of two   *)
(* lives of a session are read interleaved (orchestratoradapter).          *)
(***************************************************************************)
EXTENDS Naturals, Sequences, FiniteSets, FiniteSetsExt

CONSTANTS
    Worker, Task,
    DispatchNames,    \* formats of the row of a dispatch: TRUE names worker and task
    CorruptionBudget, \* rows that may fail to decode before replay gives up
    MaxEvents,        \* bound: rows in the log and ids in a life of the daemon
    MaxLost           \* bound: rows that are not inserted

None == "none"      \* the empty string in a row

\* An id is never empty: replay and recovery take an empty one for a missing one.
ASSUME ReplayAssumption ==
    /\ None \notin Worker /\ None \notin Task
    /\ DispatchNames \subseteq BOOLEAN
    /\ CorruptionBudget \in Nat /\ MaxEvents \in Nat /\ MaxLost \in Nat

VARIABLES
    named,     \* the format in use
    events,    \* the rows of the session in the order they were written: id, worker and
               \* task they name, time, whether they can be decoded, the task they are
               \* really about, and for a completion the row of its dispatch (0: lost)
    lost,      \* rows that were not inserted
    eventId,   \* Adapter.perSessionCounter
    running,   \* the task each worker runs and the row that dispatched it (0: lost)
    sweep      \* checkOnce: its step and its now, the worker it reports and the task

replayVars == <<named, events, lost, eventId, running, sweep>>

EventKind == {"dispatched", "checkpoint", "death", "redispatched"}
Nothing == [task |-> None, row |-> 0]
NoSweep == [at |-> "idle", now |-> 0, w |-> None, t |-> None]

ReplayInit ==
    /\ named \in DispatchNames /\ events = <<>> /\ eventId = 0 /\ lost = 0
    /\ running = [w \in Worker |-> Nothing] /\ sweep = NoSweep

-----------------------------------------------------------------------------
(* Rows                                                                    *)

\* More rows than the budget allows could not be decoded.
HardPause == Cardinality({i \in DOMAIN events : ~events[i].ok}) > CorruptionBudget

\* EmitRaw takes an id and inserts the row, which may fail: every writer drops the
\* error.  Ids of one life follow the log: the rows of a worker do, and no others are
\* compared by id within a life.  A death or redispatch that cannot be decoded is as good
\* as lost, and once replay has to stop, more rows make no difference.
AddRow(kind, w, t, ts, of, src) ==
    /\ eventId < MaxEvents /\ Len(events) < MaxEvents /\ ~HardPause
    /\ eventId' = eventId + 1
    /\ \/ lost < MaxLost /\ lost' = lost + 1 /\ UNCHANGED events
       \/ \E ok \in BOOLEAN :
             /\ kind \in {"death", "redispatched"} => ok
             /\ events' = Append(events, [kind |-> kind, worker |-> w, task |-> t, ts |-> ts, of |-> of,
                                          src |-> src, id |-> eventId + 1, ok |-> ok])
             /\ UNCHANGED lost

\* QueryRaw sorts by id; rows with one id keep the order in which they were written.
ReadBefore(j) ==
    {i \in DOMAIN events : \/ events[i].id < events[j].id
                           \/ events[i].id = events[j].id /\ i <= j}

Rows(kind) == {i \in DOMAIN events : events[i].ok /\ events[i].kind = kind}

\* The clock, read for the next row and by a sweep.
Clock == 2 * Len(events) + 2
SweepClock == Clock - 1

\* Max(S) for sets of times; 0 says there is none.
Latest(S) == IF S = {} THEN 0 ELSE Max(S)

-----------------------------------------------------------------------------
(* The dispatcher                                                          *)

\* appendDispatched writes neither worker nor task; replay and heartbeat read rows in
\* the format of eventlog.WorkerDispatched, which has both.
DispatchWorker(w, t) ==
    /\ running[w] = Nothing
    /\ IF named THEN AddRow("dispatched", w, t, Clock, t, 0)
                ELSE AddRow("dispatched", None, None, Clock, t, 0)
    /\ running' = [running EXCEPT ![w] = [task |-> t, row |-> IF events' = events THEN 0
                                                             ELSE Len(events) + 1]]
    /\ UNCHANGED <<named, sweep>>

\* recordCompletion: the worker only.
RecordCompletion(w) ==
    /\ running[w] # Nothing
    /\ AddRow("checkpoint", w, None, Clock, running[w].task, running[w].row)
    /\ running' = [running EXCEPT ![w] = Nothing]
    /\ UNCHANGED <<named, sweep>>

-----------------------------------------------------------------------------
(* HeartbeatMonitor.checkOnce                                              *)

\* LastBeats: the workers that have a dispatch or a checkpoint of their own.  The probe
\* reads on from the highest id it has seen, so that it may miss some after a restart;
\* here it may report any of them.
Beating == {events[i].worker : i \in Rows("dispatched") \cup Rows("checkpoint")} \ {None}

\* One of them has been silent for longer than the timeout.  The workers of one sweep
\* share nothing but its clock, so a sweep is about one of them.
SweepStart(w) ==
    /\ sweep = NoSweep /\ w \in Beating
    /\ sweep' = [at |-> "death", now |-> SweepClock, w |-> w, t |-> None]
    /\ UNCHANGED <<named, events, lost, eventId, running>>

\* LastAssignmentFor: the task of the dispatch of the worker that is read last.
LastAssignmentFor(w) ==
    LET rows == {i \in Rows("dispatched") : events[i].worker = w} IN
    IF rows = {} THEN None
    ELSE events[CHOOSE i \in rows : rows \subseteq ReadBefore(i)].task

\* The death is appended, with the time of the sweep.
SweepDeath ==
    LET t == LastAssignmentFor(sweep.w) IN
    /\ sweep.at = "death" /\ sweep' = [sweep EXCEPT !.at = "handle", !.t = t]
    /\ AddRow("death", sweep.w, t, sweep.now, t, 0)
    /\ UNCHANGED <<named, running>>

\* HandleWorkerDeath: WorkerRedispatched is appended if the task has budget left (see
\* RetryBudget).
SweepHandle ==
    /\ sweep.at = "handle" /\ sweep' = NoSweep
    /\ \/ AddRow("redispatched", sweep.w, sweep.t, Clock, sweep.t, 0)
       \/ UNCHANGED <<events, eventId, lost>>
    /\ UNCHANGED <<named, running>>

-----------------------------------------------------------------------------
(* ReconstructInFlight                                                     *)

\* Mutant: the dispatch that is read last counts, not the one with the latest timestamp.
DispatchTaskLastRead(w, rows) ==
    LET mine == {i \in rows \cap Rows("dispatched") : events[i].worker = w}
    IN IF mine = {} THEN None
       ELSE events[CHOOSE i \in mine : mine \subseteq ReadBefore(i)].task

\* The task of the worker's dispatch with the latest timestamp among the given rows.
DispatchTask(w, rows) ==
    LET mine == {i \in rows \cap Rows("dispatched") : events[i].worker = w}
        last == {i \in mine : events[i].ts = Latest({events[j].ts : j \in mine})}
    IN IF mine = {} THEN None ELSE events[Min(last)].task

\* Mutant: a row that names no task is about none.
TaskOfNamed(i, rows) == events[i].task

\* A checkpoint or a death that names no task is about what its worker was given.
TaskOf(i, rows) ==
    IF events[i].task # None THEN events[i].task ELSE DispatchTask(events[i].worker, rows)

\* checkpointByTask and redispatchByWorker: the latest timestamps.
CheckpointTs(t) ==
    Latest({events[i].ts : i \in {j \in Rows("checkpoint") : TaskOf(j, ReadBefore(j)) = t}})
RedispatchTs(w) ==
    Latest({events[i].ts : i \in {j \in Rows("redispatched") : events[j].worker = w}})

\* Mutant: a task that has ever been checkpointed is taken for finished.
UnmatchedDispatchesEver ==
    {events[i].task : i \in {j \in Rows("dispatched") : CheckpointTs(events[j].task) = 0}}

\* "unmatched_dispatch"; the empty task is one like any other.
UnmatchedDispatches ==
    {events[i].task : i \in {j \in Rows("dispatched") :
                                ~(events[j].task # None /\ CheckpointTs(events[j].task) > events[j].ts)}}

\* "worker_death_unrecovered".
UnrecoveredDeaths ==
    {TaskOf(i, DOMAIN events) : i \in {j \in Rows("death") :
         LET t == TaskOf(j, DOMAIN events) IN
         /\ RedispatchTs(events[j].worker) <= events[j].ts
         /\ t # None /\ CheckpointTs(t) <= events[j].ts}}

Redispatches == IF HardPause THEN {} ELSE UnrecoveredDeaths \cup UnmatchedDispatches

\* The daemon stops and starts: workers, sweep and counters are gone, that of the ids too.
ReplayRestart ==
    /\ running' = [w \in Worker |-> Nothing] /\ sweep' = NoSweep /\ eventId' = 0
    /\ UNCHANGED <<named, events, lost>>

ReplayNext ==
    \/ \E w \in Worker, t \in Task : DispatchWorker(w, t)
    \/ \E w \in Worker : RecordCompletion(w) \/ SweepStart(w)
    \/ SweepDeath \/ SweepHandle \/ ReplayRestart

ReplaySpec == ReplayInit /\ [][ReplayNext]_replayVars

-----------------------------------------------------------------------------
(* Properties                                                              *)

\* Rows, workers and the sweep hold what their Go types allow.
ReplayTypeOK ==
    /\ named \in BOOLEAN
    /\ events \in Seq([kind : EventKind, worker : Worker \cup {None}, task : Task \cup {None},
                       ts : Nat \ {0}, of : Task \cup {None}, src : Nat, id : Nat, ok : BOOLEAN])
    /\ eventId \in 0..MaxEvents /\ lost \in 0..MaxLost
    /\ running \in [Worker -> [task : Task \cup {None}, row : 0..MaxEvents]]
    /\ sweep \in [at : {"idle", "death", "handle"}, now : Nat, w : Worker \cup {None},
                  t : Task \cup {None}]

\* Row j is a completion of task t, in truth, after row i.
CompletedAfter(i, j, t) == j > i /\ events[j].kind = "checkpoint" /\ events[j].of = t

\* The dispatch of completion j is lost or cannot be decoded: replay credits j to what the
\* worker was given before (recovery_replay.go:119-141).
Orphaned(j) == events[j].src = 0 \/ ~events[events[j].src].ok

\* A later dispatch of the worker of completion j, in the next life of the daemon, is read
\* before j: replay credits j to it.
Overtaken(j) ==
    \E i \in ReadBefore(j) \cap Rows("dispatched") : i > j /\ events[i].worker = events[j].worker

\* Nothing in flight is forgotten: after any number of crashes, a task whose dispatch is
\* on record by name and that was not completed since is dispatched again, although rows
\* of several lives are read out of order, or replay stops for the operator.  The
\* exception is real: a later completion without its own dispatch may be credited to it.
InFlightRecovered ==
    \A i \in {k \in Rows("dispatched") : events[k].task # None} :
        \/ \E j \in DOMAIN events : CompletedAfter(i, j, events[i].task)
        \/ events[i].task \in Redispatches
        \/ HardPause
        \/ \E j \in Rows("checkpoint") : j > i /\ Orphaned(j)

\* Nothing finished is run again without a reason: a task that replay dispatches was
\* dispatched or reported dead with no completion on record after it, whatever the order
\* in which sweeps, redispatches and completions reached the log.  A worker that is
\* reported after it has finished is such a reason (recovery_heartbeat.go:142-166).  The
\* exception is real: of the completions of the task one is credited to another task.
FinishedNotRerun ==
    \A t \in Redispatches \ {None} :
        \/ \E i \in Rows("dispatched") \cup Rows("death") :
               /\ events[i].of = t
               /\ \A j \in Rows("checkpoint") : ~CompletedAfter(i, j, t)
        \/ \E j \in Rows("checkpoint") : events[j].of = t /\ (Orphaned(j) \/ Overtaken(j))

\* The rows that the dispatcher writes name no task (dispatcher.go:240-243), and all that
\* replay makes of them is one dispatch of the empty task.
NamelessNotFound == ~named => Redispatches \subseteq {None}

\* Replay after a crash dispatches what was in flight and not what was finished
\* (recovery_replay.go:82-221), as far as the rows name the tasks.
ReplaySound == InFlightRecovered /\ FinishedNotRerun /\ NamelessNotFound

=============================================================================
