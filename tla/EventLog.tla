------------------------------ MODULE EventLog ------------------------------
(***************************************************************************)
(* internal/orchestrator/eventlog: Append and the subscriber hub.          *)
(*                                                                         *)
(* Append persists a row and then publishes it, in the goroutine of its    *)
(* caller; nothing orders two callers.  publish copies the list of         *)
(* subscribers under the hub's read lock, visits the copy without any lock *)
(* (each Go select is one step, and a select with two ready cases takes    *)
(* either), and writes the subscribers it saw open back when it met a      *)
(* closed one.  Close only signals: the channel and what is in it stay.    *)
(***************************************************************************)
EXTENDS Naturals, FiniteSets, Sequences, SequencesExt

CONSTANTS
    Appenders,       \* goroutines that call Append
    Subscriptions,   \* subscriptions that may be made
    EventType,       \* types of the events that are appended
    FilterTypes,     \* the types each subscription asks for; {} is every type
    BufferSize,      \* capacity of each subscription's channel
    MaxRows          \* bound: rows appended

ASSUME EventLogAssumption ==
    /\ DOMAIN FilterTypes = Subscriptions /\ IsFiniteSet(Appenders)
    /\ BufferSize \in Nat \ {0} /\ MaxRows \in Nat

VARIABLES
    rows,      \* audit_events_raw: the type of each row, in event_id order
    hub,       \* subscriberHub.subs
    status,    \* whether a subscription is made, and its closed channel
    chan,      \* the records buffered in each subscription's channel
    pub,       \* each appender's call of publish
    sent,      \* history: the records sent to each subscription, in order
    freed      \* history: how many records the consumer took since the channel was last
               \* full; BufferSize when it never was, or when so many were taken

hubVars == <<rows, hub, status, chan, pub, sent, freed>>

PublishPC == {"idle", "copy", "visit", "send", "drain", "resend"}
NoCall == [at |-> "idle", rec |-> 0, subs |-> <<>>, i |-> 1, live |-> <<>>,
           pruned |-> FALSE]

EventLogInit ==
    /\ rows = <<>> /\ hub = <<>>
    /\ status = [s \in Subscriptions |-> "none"]
    /\ chan = [s \in Subscriptions |-> <<>>]
    /\ pub = [a \in Appenders |-> NoCall]
    /\ sent = [s \in Subscriptions |-> <<>>]
    /\ freed = [s \in Subscriptions |-> BufferSize]

-----------------------------------------------------------------------------
(* Subscribe, Close and the consumer                                       *)

Subscribe(s) ==
    /\ status[s] = "none"
    /\ status' = [status EXCEPT ![s] = "open"] /\ hub' = Append(hub, s)
    /\ UNCHANGED <<rows, chan, pub, sent, freed>>

CloseSubscription(s) ==
    /\ status[s] = "open"
    /\ status' = [status EXCEPT ![s] = "closed"]
    /\ UNCHANGED <<rows, hub, chan, pub, sent, freed>>

\* The consumer takes the oldest record; it may do so after Close as well.
Receive(s) ==
    /\ chan[s] # <<>> /\ chan' = [chan EXCEPT ![s] = Tail(@)]
    /\ freed' = [freed EXCEPT ![s] = IF @ < BufferSize THEN @ + 1 ELSE @]
    /\ UNCHANGED <<rows, hub, status, pub, sent>>

-----------------------------------------------------------------------------
(* Append and publish                                                      *)

\* EmitRaw; a refused or failed append writes nothing and publishes nothing.
AppendRow(a) ==
    /\ pub[a].at = "idle" /\ Len(rows) < MaxRows
    /\ \E t \in EventType : rows' = Append(rows, t)
    /\ pub' = [pub EXCEPT ![a].at = "copy", ![a].rec = Len(rows) + 1]
    /\ UNCHANGED <<hub, status, chan, sent, freed>>

\* The copy under h.mu.RLock.
CopySubs(a) ==
    /\ pub[a].at = "copy"
    /\ pub' = [pub EXCEPT ![a].at = "visit", ![a].subs = hub]
    /\ UNCHANGED <<rows, hub, status, chan, sent, freed>>

Current(a) == pub[a].subs[pub[a].i]

Match(s, r) == FilterTypes[s] = {} \/ rows[r] \in FilterTypes[s]

\* Mutant: only the subscribers that get the record are kept as live.
VisitKeepsMatching(a) ==
    /\ pub[a].at = "visit" /\ pub[a].i <= Len(pub[a].subs)
    /\ LET s == Current(a) IN
       pub' = IF status[s] = "closed"
              THEN [pub EXCEPT ![a].pruned = TRUE, ![a].i = @ + 1]
              ELSE IF Match(s, pub[a].rec)
                   THEN [pub EXCEPT ![a].live = Append(@, s), ![a].at = "send"]
                   ELSE [pub EXCEPT ![a].i = @ + 1]
    /\ UNCHANGED <<rows, hub, status, chan, sent, freed>>

\* The first select and the filter.
Visit(a) ==
    /\ pub[a].at = "visit" /\ pub[a].i <= Len(pub[a].subs)
    /\ LET s == Current(a) IN
       pub' = IF status[s] = "closed"
              THEN [pub EXCEPT ![a].pruned = TRUE, ![a].i = @ + 1]
              ELSE IF Match(s, pub[a].rec)
                   THEN [pub EXCEPT ![a].live = Append(@, s), ![a].at = "send"]
                   ELSE [pub EXCEPT ![a].live = Append(@, s), ![a].i = @ + 1]
    /\ UNCHANGED <<rows, hub, status, chan, sent, freed>>

HasRoom(s) == Len(chan[s]) < BufferSize

\* The cases of a select: the send, the closed signal, and what default does.
Deliver(a) ==
    LET s == Current(a) IN
    /\ HasRoom(s)
    /\ chan' = [chan EXCEPT ![s] = Append(@, pub[a].rec)]
    /\ sent' = [sent EXCEPT ![s] = Append(@, pub[a].rec)]
    /\ freed' = [freed EXCEPT ![s] = IF Len(chan[s]) + 1 = BufferSize THEN 0 ELSE @]
    /\ pub' = [pub EXCEPT ![a].at = "visit", ![a].i = @ + 1]

SeeClosed(a) ==
    /\ status[Current(a)] = "closed"
    /\ pub' = [pub EXCEPT ![a].at = "visit", ![a].i = @ + 1, ![a].pruned = TRUE]
    /\ UNCHANGED <<chan, sent, freed>>

Neither(a) == ~HasRoom(Current(a)) /\ status[Current(a)] # "closed"

\* Mutant: the send waits for room.
SendBlocks(a) ==
    /\ pub[a].at = "send"
    /\ Deliver(a) \/ SeeClosed(a)
    /\ UNCHANGED <<rows, hub, status>>

Send(a) ==
    /\ pub[a].at = "send"
    /\ \/ Deliver(a) \/ SeeClosed(a)
       \/ Neither(a) /\ pub' = [pub EXCEPT ![a].at = "drain"] /\ UNCHANGED <<chan, sent, freed>>
    /\ UNCHANGED <<rows, hub, status>>

\* Mutant: after making room publish goes on to the next subscriber, as it does for one
\* that is closed.
DrainContinues(a) ==
    LET s == Current(a) IN
    /\ pub[a].at = "drain"
    /\ \/ /\ chan[s] # <<>> /\ chan' = [chan EXCEPT ![s] = Tail(@)]
          /\ pub' = [pub EXCEPT ![a].at = "visit", ![a].i = @ + 1] /\ UNCHANGED <<sent, freed>>
       \/ SeeClosed(a)
       \/ /\ chan[s] = <<>> /\ status[s] # "closed"
          /\ pub' = [pub EXCEPT ![a].at = "resend"] /\ UNCHANGED <<chan, sent, freed>>
    /\ UNCHANGED <<rows, hub, status>>

\* The oldest record makes room, unless the consumer has made it meanwhile.
Drain(a) ==
    LET s == Current(a) IN
    /\ pub[a].at = "drain"
    /\ \/ /\ chan[s] # <<>> /\ chan' = [chan EXCEPT ![s] = Tail(@)]
          /\ pub' = [pub EXCEPT ![a].at = "resend"] /\ UNCHANGED <<sent, freed>>
       \/ SeeClosed(a)
       \/ /\ chan[s] = <<>> /\ status[s] # "closed"
          /\ pub' = [pub EXCEPT ![a].at = "resend"] /\ UNCHANGED <<chan, sent, freed>>
    /\ UNCHANGED <<rows, hub, status>>

\* A channel that another appender has filled again drops the new record.
Resend(a) ==
    /\ pub[a].at = "resend"
    /\ \/ Deliver(a) \/ SeeClosed(a)
       \/ /\ Neither(a) /\ pub' = [pub EXCEPT ![a].at = "visit", ![a].i = @ + 1]
          /\ UNCHANGED <<chan, sent, freed>>
    /\ UNCHANGED <<rows, hub, status>>

\* Mutant: the live subscribers are added to the list instead of replacing it.
PrunedListGrows(a) == hub' = IF pub[a].pruned THEN hub \o pub[a].live ELSE hub

\* h.subs = live, under h.mu, when a closed subscriber was met.
PrunedList(a) == hub' = IF pub[a].pruned THEN pub[a].live ELSE hub

FinishPublish(a) ==
    /\ pub[a].at = "visit" /\ pub[a].i > Len(pub[a].subs)
    /\ PrunedList(a)
    /\ pub' = [pub EXCEPT ![a] = NoCall]
    /\ UNCHANGED <<rows, status, chan, sent, freed>>

PublishStep(a) ==
    CopySubs(a) \/ Visit(a) \/ Send(a) \/ Drain(a) \/ Resend(a) \/ FinishPublish(a)

EventLogNext ==
    \/ \E s \in Subscriptions : Subscribe(s) \/ CloseSubscription(s) \/ Receive(s)
    \/ \E a \in Appenders : AppendRow(a) \/ PublishStep(a)

EventLogSpec == EventLogInit /\ [][EventLogNext]_hubVars

-----------------------------------------------------------------------------
(* Properties                                                              *)

Row == 1..MaxRows

\* The log, the hub and the calls of publish hold what their Go types allow,
\* and no channel holds more than its capacity.
EventLogTypeOK ==
    /\ rows \in Seq(EventType) /\ Len(rows) <= MaxRows
    /\ hub \in Seq(Subscriptions)
    /\ status \in [Subscriptions -> {"none", "open", "closed"}]
    /\ chan \in [Subscriptions -> Seq(Row)]
    /\ \A s \in Subscriptions : Len(chan[s]) <= BufferSize
    /\ sent \in [Subscriptions -> Seq(Row)] /\ freed \in [Subscriptions -> 0..BufferSize]
    /\ pub \in [Appenders -> [at : PublishPC, rec : 0..MaxRows,
                              subs : Seq(Subscriptions), i : Nat \ {0},
                              live : Seq(Subscriptions), pruned : BOOLEAN]]

\* No subscriber gets a record twice, however publishes overlap with each other
\* and with the pruning of the list (subscriber.go:116-170).
DeliveredOnce == \A s \in Subscriptions : IsInjective(sent[s])

\* The publishers that have looked for room in s and will try to send again.
Refilling(s) == {a \in Appenders : pub[a].at = "resend" /\ Current(a) = s}

\* Dropping the oldest record is for the new one's sake: while a subscription is open,
\* only its consumer leaves room in a channel that has been full.  However many
\* publishers make room in it at once, and take each other's, all of it is filled again,
\* although one of them may find none left and drop its own record (subscriber.go:144-161).
RoomRefilled ==
    \A s \in Subscriptions : status[s] # "closed" =>
        BufferSize <= Len(chan[s]) + freed[s] + Cardinality(Refilling(s))

\* A subscriber gets no record twice, and a record is dropped only from a channel that
\* is full again in the end (subscriber.go:116-170).
DeliverySound == DeliveredOnce /\ RoomRefilled

\* A publisher takes out of the hub only subscriptions it saw closed and those
\* that were not yet made when it copied the list.  The second half is what
\* h.subs = live does to a Subscribe that runs during a publish
\* (subscriber.go:117-120, 164-169): such a subscription never hears anything.
PrunesWhatItSaw ==
    [][\A s \in Subscriptions : Contains(hub, s) /\ ~Contains(hub', s) =>
           \/ status[s] = "closed"
           \/ \E a \in Appenders : /\ pub[a].pruned /\ pub'[a].at = "idle"
                                   /\ ~Contains(pub[a].subs, s)]_hubVars

Publishing(a) == pub[a].at = "copy"
Published(a) == pub[a].at = "idle"

\* "publisher MUST NOT block" (subscriber.go:100): every Append that has written
\* its row returns, with no help from any consumer.
PublishReturns == \A a \in Appenders : Publishing(a) ~> Published(a)

=============================================================================
