---------------------------- MODULE EventBatcher ----------------------------
(***************************************************************************)
(* Events posted to the daemon: the handlers of POST /events put them in a *)
(* bounded channel and answer "accepted"; one goroutine, Batcher.Run,      *)
(* writes them to the database in batches.  The server stops as main has   *)
(* it: Stop closes the listeners, Start returns at once and cancels the    *)
(* batcher while requests still run, and the process ends without waiting. *)
(***************************************************************************)
EXTENDS Naturals, Sequences, SequencesExt

CONSTANTS
    Requests,      \* requests posted to the daemon
    PerRequest,    \* events in each
    MaxBatch

ASSUME BatcherAssumption == PerRequest \in Nat \ {0} /\ MaxBatch \in Nat \ {0}

PostedEvent == Requests \X (1..PerRequest)
QueueSize == 2 * MaxBatch

VARIABLES
    queue,       \* b.ch
    batch,
    stored,      \* the table events, in the order of its rows
    dropped,     \* events of a batch whose transaction failed
    posted,      \* each request: 0 before, k when it submits its k-th event, more when answered
    looping,     \* Batcher.Run: "select", "drain" or "ended"
    server,      \* "serving", "closing", "stopped" (Start has returned) or "exited"
    submitted,   \* history: events in the order they entered the channel
    afterCancel         \* history: those that entered it after the batcher was cancelled

batcherVars == <<queue, batch, stored, dropped, posted, looping, server, submitted, afterCancel>>

BatcherInit ==
    /\ queue = <<>> /\ batch = <<>> /\ stored = <<>> /\ dropped = {}
    /\ posted = [r \in Requests |-> 0]
    /\ looping = "select" /\ server = "serving"
    /\ submitted = <<>> /\ afterCancel = {}

\* A request comes in while the listeners are open.
EventsIngest(r) ==
    /\ server = "serving" /\ posted[r] = 0
    /\ posted' = [posted EXCEPT ![r] = 1]
    /\ UNCHANGED <<queue, batch, stored, dropped, looping, server, submitted, afterCancel>>

\* Submit blocks while the channel is full.
Submit(r) ==
    /\ server # "exited" /\ posted[r] \in 1..PerRequest /\ Len(queue) < QueueSize
    /\ LET e == <<r, posted[r]>>
       IN /\ queue' = Append(queue, e)
          /\ submitted' = Append(submitted, e)
          /\ afterCancel' = IF server = "stopped" THEN afterCancel \cup {e} ELSE afterCancel
    /\ posted' = [posted EXCEPT ![r] = @ + 1]
    /\ UNCHANGED <<batch, stored, dropped, looping, server>>

\* flush: one transaction, whose failure is logged and nothing more.
Flush(b) ==
    \/ stored' = stored \o b /\ UNCHANGED dropped
    \/ dropped' = dropped \cup Range(b) /\ UNCHANGED stored

\* Run takes an event, and flushes a full batch.
RunReceive ==
    /\ server # "exited" /\ looping = "select" /\ queue # <<>>
    /\ queue' = Tail(queue)
    /\ LET b == Append(batch, Head(queue))
       IN IF Len(b) >= MaxBatch THEN batch' = <<>> /\ Flush(b)
                                ELSE batch' = b /\ UNCHANGED <<stored, dropped>>
    /\ UNCHANGED <<posted, looping, server, submitted, afterCancel>>

RunTick ==
    /\ server # "exited" /\ looping = "select" /\ batch # <<>>
    /\ batch' = <<>> /\ Flush(batch)
    /\ UNCHANGED <<queue, posted, looping, server, submitted, afterCancel>>

\* The context is over: the select may choose it although events are waiting.
RunDone ==
    /\ server = "stopped" /\ looping = "select" /\ looping' = "drain"
    /\ UNCHANGED <<queue, batch, stored, dropped, posted, server, submitted, afterCancel>>

\* Mutant: Run ends with the batch it has and leaves the channel alone.
RunDrainNothing ==
    /\ server # "exited" /\ looping = "drain"
    /\ Flush(batch) /\ batch' = <<>> /\ looping' = "ended"
    /\ UNCHANGED <<queue, posted, server, submitted, afterCancel>>

\* drain and the last flush.
RunDrain ==
    /\ server # "exited" /\ looping = "drain"
    /\ \/ /\ queue # <<>>
          /\ batch' = Append(batch, Head(queue)) /\ queue' = Tail(queue)
          /\ UNCHANGED <<stored, dropped, looping>>
       \/ queue = <<>> /\ Flush(batch) /\ batch' = <<>> /\ looping' = "ended" /\ UNCHANGED queue
    /\ UNCHANGED <<posted, server, submitted, afterCancel>>

RunStep == RunReceive \/ RunTick \/ RunDone \/ RunDrain

\* Stop comes to srv.Shutdown, which closes the listeners and waits for the requests.
Stop ==
    /\ server = "serving" /\ server' = "closing"
    /\ UNCHANGED <<queue, batch, stored, dropped, posted, looping, submitted, afterCancel>>

\* Serve returns when the listeners are closed, not when the requests have ended, and
\* Start returns with it.
StartReturns ==
    /\ server = "closing" /\ server' = "stopped"
    /\ UNCHANGED <<queue, batch, stored, dropped, posted, looping, submitted, afterCancel>>

\* main returns, and the process ends.
Exit ==
    /\ server = "stopped" /\ server' = "exited"
    /\ UNCHANGED <<queue, batch, stored, dropped, posted, looping, submitted, afterCancel>>

BatcherNext ==
    \/ \E r \in Requests : EventsIngest(r) \/ Submit(r)
    \/ RunStep \/ Stop \/ StartReturns \/ Exit

BatcherSpec == BatcherInit /\ [][BatcherNext]_batcherVars

-----------------------------------------------------------------------------
(* Properties                                                              *)

\* The channel is within its capacity and the batch below its limit, but for the last.
BatcherTypeOK ==
    /\ queue \in Seq(PostedEvent) /\ Len(queue) <= QueueSize
    /\ batch \in Seq(PostedEvent) /\ looping # "drain" => Len(batch) < MaxBatch
    /\ posted \in [Requests -> 0..(PerRequest + 1)]
    /\ looping \in {"select", "drain", "ended"}
    /\ server \in {"serving", "closing", "stopped", "exited"}

\* The events that no failed batch took away, the oldest first.
Retained == stored \o batch \o queue

\* e was accepted before f.
Before(e, f) == \E m, n \in DOMAIN submitted : m < n /\ submitted[m] = e /\ submitted[n] = f

\* Every event that was accepted is in one place: in the table, in a batch that
\* failed, in the batch or in the channel, each once and in the order of acceptance;
\* and what Run leaves in the channel when it ends came after it was cancelled, from
\* requests that Shutdown still waits for (batcher.go:43-87, server.go:1420-1476).
AcceptedKept ==
    /\ IsInjective(submitted)
    /\ Range(submitted) = Range(Retained) \cup dropped /\ Range(Retained) \cap dropped = {}
    /\ \A i, j \in DOMAIN Retained : i < j => Before(Retained[i], Retained[j])
    /\ looping = "ended" => Range(queue) \subseteq afterCancel

Settled(r) ==
    \/ \A k \in 1..PerRequest : <<r, k>> \in Range(stored) \cup dropped
    \/ looping = "ended" \/ server = "exited"

\* However full the channel, a request gets all its events into it and is answered,
\* and each event leaves the memory for the table or a failed batch, within a tick,
\* unless the server stops (batcher.go:39-67, handlers/events.go:36-39).
IngestSettles == \A r \in Requests : posted[r] = 1 ~> Settled(r)

=============================================================================
