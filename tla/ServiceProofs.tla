---------------------------- MODULE ServiceProofs ----------------------------
(***************************************************************************)
(* Proofs about the services of the daemon: the audit hash chain           *)
(* (AuditChain), the ingestion of events (EventBatcher), the transport of  *)
(* a session (SessionTransport), the replay after a crash                  *)
(* (RecoveryReplay), the embedder's child process (EmbedderProcess) and    *)
(* remote commands (RemoteExec).                                           *)
(***************************************************************************)
EXTENDS Integers, AuditChain, EventBatcher, SessionTransport, RecoveryReplay,
        EmbedderProcess, RemoteExec, FiniteSetTheorems, SequenceTheorems, WellFoundedInduction, TLAPS

-----------------------------------------------------------------------------
(* Numbers                                                                 *)

\* A set of numbers has a smallest one.
LEMMA SmallestOf ==
  ASSUME NEW S, S \subseteq Nat, S # {}
  PROVE  \E n \in S : \A m \in S : n <= m
<1> DEFINE R == {p \in Nat \X Nat : p[1] < p[2]}
<1>1. IsWellFoundedOn(R, Nat)
  BY NatLessThanWellFounded, Zenon DEF OpToRel
<1>2. \A m, n \in Nat : m < n => <<m, n>> \in R
  OBVIOUS
<1> HIDE DEF R
<1>3. PICK n \in S : \A m \in S : ~(<<m, n>> \in R)
  BY <1>1, WFMin, Zenon
<1>4. \A m \in S : ~(m < n)
  BY <1>2, <1>3, Zenon
<1> QED BY <1>4

\* A bounded set of numbers has a largest one.
LEMMA LargestOf ==
  ASSUME NEW S, NEW b \in Nat, S \subseteq 1..b, S # {}
  PROVE  \E n \in S : \A m \in S : m <= n
<1> DEFINE U == {n \in Nat : \A m \in S : m <= n}
<1>1. b \in U
  OBVIOUS
<1>2. PICK n \in U : \A m \in U : n <= m
  <2>1. U # {} /\ U \subseteq Nat
    BY <1>1
  <2> HIDE DEF U
  <2> QED BY <2>1, SmallestOf, Zenon
<1>3. n \in S
  <2>1. SUFFICES ASSUME n \notin S PROVE FALSE
    OBVIOUS
  <2>2. \A m \in S : m <= n - 1 /\ n - 1 \in Nat
    BY <1>2, <2>1
  <2>3. n - 1 \in U
    BY <2>2
  <2> QED BY <1>2, <2>3
<1> QED BY <1>2, <1>3

-----------------------------------------------------------------------------
(* AuditChain                                                              *)

AuditRow(r) == r = [event |-> r.event, prev |-> r.prev, hash |-> r.hash, leaf |-> r.leaf]

\* What the variables hold; a hash is nested too deeply for a set of all hashes.
AuditShape ==
    /\ emitted \in Nat
    /\ \E T : raw \in Seq(T)
    /\ \A i \in DOMAIN raw : AuditRow(raw[i]) /\ raw[i].event \in 1..emitted
    /\ DOMAIN emit = Emitters
    /\ \A a \in Emitters :
           /\ emit[a] = [step |-> emit[a].step, event |-> emit[a].event, tip |-> emit[a].tip]
           /\ emit[a].step \in {"idle", "insert", "link", "leaf", "mark"}
           /\ emit[a].step # "idle" => emit[a].event \in 1..emitted
    /\ boot = [step |-> boot.step, prev |-> boot.prev, batch |-> boot.batch, after |-> boot.after]
    /\ boot.step \in {"scan", "linked", "serving"}
    /\ boot.step # "serving" => \A a \in Emitters : emit[a].step = "idle"

\* An event has one row, and none before its Emit inserts it.
OneRowPerEvent ==
    /\ \A i, j \in DOMAIN raw : raw[i].event = raw[j].event => i = j
    /\ \A a \in Emitters : emit[a].step = "insert" =>
           /\ \A i \in DOMAIN raw : raw[i].event # emit[a].event
           /\ \A b \in Emitters \ {a} : emit[b].step = "insert" => emit[b].event # emit[a].event

\* A hash that the next link may use.
Known(h) == h = NoHash \/ \E j \in Linked : raw[j].hash = h

\* The tips that Emit and Backfill have read are hashes of rows, however long ago.
TipsKnown ==
    /\ \A a \in Emitters : emit[a].step # "idle" => Known(emit[a].tip)
    /\ boot.step = "scan" => Known(boot.prev)

\* Between its link and its leaf, the row of an Emit has the hash of the leaf.
LeafAhead ==
    \A a \in Emitters : emit[a].step \in {"leaf", "mark"} =>
        \E i \in Linked : /\ raw[i].event = emit[a].event
                          /\ raw[i].hash = Compute(emit[a].tip, emit[a].event)

\* Backfill has left no row without a hash behind its cursor, and its batch is what
\* comes first of the rest.
Cursor ==
    boot.step = "scan" =>
        /\ boot.after \in Nat
        /\ \A i \in DOMAIN raw \ Linked : i > boot.after
        /\ boot.batch \subseteq DOMAIN raw \ Linked
        /\ \A i \in boot.batch, j \in (DOMAIN raw \ Linked) \ boot.batch : i < j

AuditInv ==
    /\ AuditShape /\ OneRowPerEvent /\ TipsKnown /\ LeafAhead /\ HashesResolve
    /\ Cursor /\ BackfillLinksAll

\* Two hashes of a row differ from the empty string.
LEMMA ComputeIsHash == \A p, e : Compute(p, e) # NoHash
BY DEF Compute, NoHash

\* The tip is the hash of a linked row.
LEMMA TipKnown ==
  ASSUME AuditShape
  PROVE  Known(GetChainTip)
<1>1. CASE Linked = {}
  BY <1>1 DEF Known, GetChainTip
<1>2. CASE Linked # {}
  <2>1. PICK T : raw \in Seq(T)
    BY DEF AuditShape
  <2>2. Linked \subseteq 1..Len(raw) /\ Len(raw) \in Nat
    BY <2>1 DEF Linked
  <2>3. \E i \in Linked : \A j \in Linked : j <= i
    BY <1>2, <2>2, LargestOf, Zenon
  <2>4. (CHOOSE i \in Linked : \A j \in Linked : j <= i) \in Linked
    BY <2>3
  <2> DEFINE i == CHOOSE k \in Linked : \A j \in Linked : j <= k
  <2>5. i \in Linked /\ GetChainTip = raw[i].hash
    BY <1>2, <2>4 DEF GetChainTip
  <2> HIDE DEF i
  <2> QED BY <2>5 DEF Known
<1> QED BY <1>1, <1>2

LEMMA RawIs ==
  ASSUME AuditShape
  PROVE  Len(raw) \in Nat /\ DOMAIN raw = 1..Len(raw)
BY DEF AuditShape

LEMMA LeafExcept ==
  ASSUME NEW r, AuditRow(r)
  PROVE  [r EXCEPT !.leaf = TRUE]
            = [event |-> r.event, prev |-> r.prev, hash |-> r.hash, leaf |-> TRUE]
<1> DEFINE s == [r EXCEPT !.leaf = TRUE]
<1>1. DOMAIN r = {"event", "prev", "hash", "leaf"}
  BY DEF AuditRow
<1>2. /\ DOMAIN s = {"event", "prev", "hash", "leaf"}
      /\ s.event = r.event /\ s.prev = r.prev /\ s.hash = r.hash /\ s.leaf = TRUE
  BY <1>1
<1>3. s = [k \in {"event", "prev", "hash", "leaf"} |-> s[k]]
  BY <1>1
<1> HIDE DEF s
<1>4. s = [event |-> r.event, prev |-> r.prev, hash |-> r.hash, leaf |-> TRUE]
  BY <1>2, <1>3
<1> QED BY <1>4 DEF s

\* A row without hashes at the end.
LEMMA RowInserted ==
  ASSUME AuditShape, NEW e, InsertRow(e)
  PROVE  /\ \E T : raw' \in Seq(T)
         /\ Len(raw') = Len(raw) + 1 /\ DOMAIN raw' = 1..(Len(raw) + 1)
         /\ \A k \in DOMAIN raw : raw'[k] = raw[k]
         /\ raw'[Len(raw) + 1] = [event |-> e, prev |-> NoHash, hash |-> NoHash, leaf |-> FALSE]
         /\ Linked' = Linked
<1> DEFINE x == [event |-> e, prev |-> NoHash, hash |-> NoHash, leaf |-> FALSE]
<1>1. PICK T : raw \in Seq(T)
  BY DEF AuditShape
<1>2. raw' = Append(raw, x)
  BY DEF InsertRow
<1>3. x.hash = NoHash
  OBVIOUS
<1> HIDE DEF x
<1>4. raw \in Seq(T \cup {x})
  BY <1>1
<1>5. /\ raw' \in Seq(T \cup {x}) /\ Len(raw') = Len(raw) + 1
      /\ DOMAIN raw' = 1..(Len(raw) + 1) /\ DOMAIN raw = 1..Len(raw) /\ Len(raw) \in Nat
      /\ \A k \in 1..Len(raw) : raw'[k] = raw[k]
      /\ raw'[Len(raw) + 1] = x
  BY <1>2, <1>4
<1>6. Linked' = Linked
  BY <1>3, <1>5 DEF Linked
<1> QED BY <1>5, <1>6 DEF x

\* A row that has no hash gets one, once.
LEMMA RowLinked ==
  ASSUME AuditShape, NEW i \in DOMAIN raw, NEW p, raw[i].hash = NoHash,
         raw' = [raw EXCEPT ![i] = [event |-> raw[i].event, prev |-> p,
                                    hash |-> Compute(p, raw[i].event), leaf |-> raw[i].leaf]]
  PROVE  /\ \E T : raw' \in Seq(T)
         /\ DOMAIN raw' = DOMAIN raw
         /\ \A k \in DOMAIN raw \ {i} : raw'[k] = raw[k]
         /\ raw'[i] = [event |-> raw[i].event, prev |-> p, hash |-> Compute(p, raw[i].event),
                       leaf |-> raw[i].leaf]
         /\ Linked' = Linked \cup {i}
<1> DEFINE h == Compute(p, raw[i].event)
           x == [event |-> raw[i].event, prev |-> p, hash |-> h, leaf |-> raw[i].leaf]
<1>1. PICK T : raw \in Seq(T)
  BY DEF AuditShape
<1>3. h # NoHash
  BY ComputeIsHash
<1> HIDE DEF h
<1>4. raw' = [raw EXCEPT ![i] = x]
  BY DEF h
<1>5. x.hash = h
  OBVIOUS
<1> HIDE DEF x
<1>6. /\ raw' \in Seq(T \cup {x}) /\ DOMAIN raw' = DOMAIN raw /\ raw'[i] = x
      /\ \A k \in DOMAIN raw \ {i} : raw'[k] = raw[k]
  <2>1. raw \in Seq(T \cup {x})
    BY <1>1
  <2>2. raw' \in Seq(T \cup {x})
    BY <1>4, <2>1
  <2> QED BY <1>4, <2>1, <2>2
<1>7. Linked' = Linked \cup {i}
  BY <1>3, <1>5, <1>6 DEF Linked
<1> QED BY <1>6, <1>7 DEF x, h

\* A row learns that it has a leaf.
LEMMA RowMarked ==
  ASSUME AuditShape, NEW i \in DOMAIN raw, raw' = [raw EXCEPT ![i].leaf = TRUE]
  PROVE  /\ \E T : raw' \in Seq(T)
         /\ DOMAIN raw' = DOMAIN raw /\ Linked' = Linked
         /\ \A k \in DOMAIN raw : /\ AuditRow(raw'[k]) /\ raw'[k].event = raw[k].event
                                  /\ raw'[k].prev = raw[k].prev /\ raw'[k].hash = raw[k].hash
<1> DEFINE x == [event |-> raw[i].event, prev |-> raw[i].prev, hash |-> raw[i].hash, leaf |-> TRUE]
<1>1. PICK T : raw \in Seq(T)
  BY DEF AuditShape
<1>3. raw' = [raw EXCEPT ![i] = x]
  <2>1. raw' = [raw EXCEPT ![i] = [raw[i] EXCEPT !.leaf = TRUE]]
    BY <1>1
  <2>2. [raw[i] EXCEPT !.leaf = TRUE] = x
    BY LeafExcept, Zenon DEF AuditShape
  <2> HIDE DEF x
  <2> QED BY <2>1, <2>2
<1>4. /\ AuditRow(x) /\ x.event = raw[i].event /\ x.prev = raw[i].prev /\ x.hash = raw[i].hash
  BY DEF AuditRow
<1> HIDE DEF x
<1>5. /\ raw' \in Seq(T \cup {x}) /\ DOMAIN raw' = DOMAIN raw /\ raw'[i] = x
      /\ \A k \in DOMAIN raw \ {i} : raw'[k] = raw[k]
  <2>1. raw \in Seq(T \cup {x})
    BY <1>1
  <2>2. raw' \in Seq(T \cup {x})
    BY <1>3, <2>1
  <2> QED BY <1>3, <2>1, <2>2
<1>6. \A k \in DOMAIN raw : AuditRow(raw[k])
  BY DEF AuditShape
<1>7. \A k \in DOMAIN raw : /\ AuditRow(raw'[k]) /\ raw'[k].event = raw[k].event
                            /\ raw'[k].prev = raw[k].prev /\ raw'[k].hash = raw[k].hash
  BY <1>4, <1>5, <1>6
<1>8. Linked' = Linked
  BY <1>5, <1>7 DEF Linked
<1> QED BY <1>5, <1>7, <1>8

\* A linked row stays as it is, and what is known stays known.
LinksStay ==
    /\ Linked \subseteq Linked'
    /\ \A k \in Linked : /\ raw'[k].event = raw[k].event /\ raw'[k].prev = raw[k].prev
                         /\ raw'[k].hash = raw[k].hash

LEMMA KnownStays ==
  ASSUME LinksStay
  PROVE  \A h : Known(h) => Known(h)'
BY DEF LinksStay, Known, Linked

\* What an invariant says of the table alone.
TableOK ==
    /\ \E T : raw \in Seq(T)
    /\ \A i \in DOMAIN raw : AuditRow(raw[i]) /\ raw[i].event \in 1..emitted
    /\ \A i, j \in DOMAIN raw : raw[i].event = raw[j].event => i = j
    /\ HashesResolve

LEMMA InsertKeeps ==
  ASSUME AuditInv, NEW e, InsertRow(e), emitted' \in {emitted, emitted + 1}, e \in 1..emitted',
         \A i \in DOMAIN raw : raw[i].event # e, leaves' = leaves
  PROVE  /\ TableOK' /\ LinksStay
         /\ \A k \in DOMAIN raw' : (k \in DOMAIN raw /\ raw'[k] = raw[k]) \/ raw'[k].event = e
         /\ \E k \in DOMAIN raw' : raw'[k].event = e
<1> DEFINE n == Len(raw) + 1
<1>1. AuditShape /\ OneRowPerEvent /\ HashesResolve /\ emitted \in Nat
  BY DEF AuditInv, AuditShape
<1>2. Len(raw) \in Nat /\ DOMAIN raw = 1..Len(raw)
  BY <1>1, RawIs
<1>3. /\ \E T : raw' \in Seq(T)
      /\ DOMAIN raw' = 1..n
      /\ \A k \in DOMAIN raw : raw'[k] = raw[k]
      /\ raw'[n] = [event |-> e, prev |-> NoHash, hash |-> NoHash, leaf |-> FALSE]
      /\ Linked' = Linked
  BY <1>1, RowInserted
<1>4. raw'[n].event = e /\ AuditRow(raw'[n])
  BY <1>3 DEF AuditRow
<1>5. \A k \in DOMAIN raw' : k \in DOMAIN raw \/ k = n
  BY <1>2, <1>3
<1>6. Linked \subseteq DOMAIN raw
  BY DEF Linked
<1>7. LinksStay
  BY <1>3, <1>6 DEF LinksStay
<1>8. HashesResolve'
  BY <1>1, <1>3, <1>6 DEF HashesResolve
<1>9. \A k \in DOMAIN raw' : AuditRow(raw'[k]) /\ raw'[k].event \in 1..emitted'
  BY <1>1, <1>3, <1>4, <1>5 DEF AuditShape
<1>10. \A i, j \in DOMAIN raw' : raw'[i].event = raw'[j].event => i = j
  BY <1>1, <1>3, <1>4, <1>5 DEF OneRowPerEvent
<1>11. \A k \in DOMAIN raw' : (k \in DOMAIN raw /\ raw'[k] = raw[k]) \/ raw'[k].event = e
  BY <1>3, <1>4, <1>5
<1>12. n \in DOMAIN raw'
  BY <1>2, <1>3
<1> QED BY <1>3, <1>4, <1>7, <1>8, <1>9, <1>10, <1>11, <1>12 DEF TableOK

LEMMA LinkKeeps ==
  ASSUME AuditInv, NEW e, NEW p, Known(p), UpdateChainColumns(e, p), emitted' = emitted,
         leaves' = leaves
  PROVE  /\ TableOK' /\ LinksStay /\ DOMAIN raw' = DOMAIN raw
         /\ \E i \in DOMAIN raw \ Linked :
                /\ raw[i].event = e /\ raw'[i].event = e /\ raw'[i].hash = Compute(p, e)
                /\ Linked' = Linked \cup {i}
         /\ \A k \in DOMAIN raw : raw'[k].event = raw[k].event
<1>1. AuditShape /\ OneRowPerEvent /\ HashesResolve /\ emitted \in Nat
  BY DEF AuditInv, AuditShape
<1>2. PICK i \in DOMAIN raw :
        /\ raw[i].event = e /\ raw[i].hash = NoHash
        /\ raw' = [raw EXCEPT ![i] = [event |-> e, prev |-> p, hash |-> Compute(p, e),
                                      leaf |-> raw[i].leaf]]
  BY DEF UpdateChainColumns
<1>3. /\ \E T : raw' \in Seq(T)
      /\ DOMAIN raw' = DOMAIN raw
      /\ \A k \in DOMAIN raw \ {i} : raw'[k] = raw[k]
      /\ raw'[i] = [event |-> e, prev |-> p, hash |-> Compute(p, e), leaf |-> raw[i].leaf]
      /\ Linked' = Linked \cup {i}
  <2>1. raw' = [raw EXCEPT ![i] = [event |-> raw[i].event, prev |-> p,
                                   hash |-> Compute(p, raw[i].event), leaf |-> raw[i].leaf]]
    BY <1>2
  <2> QED BY <1>1, <1>2, <2>1, RowLinked
<1>4. raw'[i].event = e /\ raw'[i].prev = p /\ raw'[i].hash = Compute(p, e) /\ AuditRow(raw'[i])
  BY <1>3 DEF AuditRow
<1>5. i \notin Linked /\ Linked \subseteq DOMAIN raw
  BY <1>2 DEF Linked
<1>6. LinksStay
  BY <1>3, <1>5 DEF LinksStay
<1>7. \A k \in DOMAIN raw : raw'[k].event = raw[k].event
  BY <1>2, <1>3, <1>4
<1>8. \A k \in DOMAIN raw' : AuditRow(raw'[k]) /\ raw'[k].event \in 1..emitted'
  BY <1>1, <1>3, <1>4, <1>7 DEF AuditShape
<1>9. \A k, j \in DOMAIN raw' : raw'[k].event = raw'[j].event => k = j
  BY <1>1, <1>3, <1>7 DEF OneRowPerEvent
<1>10. HashesResolve'
  <2>1. ASSUME NEW k \in Linked'
        PROVE  /\ raw'[k].hash = Compute(raw'[k].prev, raw'[k].event)
               /\ raw'[k].prev = NoHash \/ \E j \in Linked' \ {k} : raw'[j].hash = raw'[k].prev
    <3>1. CASE k = i
      BY <1>3, <1>4, <1>5, <3>1 DEF Known
    <3>2. CASE k # i
      <4>1. k \in Linked /\ raw'[k] = raw[k]
        BY <1>3, <1>5, <2>1, <3>2
      <4>2. raw[k].hash = Compute(raw[k].prev, raw[k].event)
        BY <1>1, <4>1 DEF HashesResolve
      <4>3. raw[k].prev = NoHash \/ \E j \in Linked \ {k} : raw[j].hash = raw[k].prev
        BY <1>1, <4>1 DEF HashesResolve
      <4>4. \A j \in Linked \ {k} : j \in Linked' \ {k} /\ raw'[j].hash = raw[j].hash
        BY <1>6 DEF LinksStay
      <4> QED BY <4>1, <4>2, <4>3, <4>4
    <3> QED BY <3>1, <3>2
  <2>2. \A x \in leaves : \E j \in Linked' : raw'[j].event = x.event /\ raw'[j].hash = x.hash
    BY <1>1, <1>6 DEF HashesResolve, LinksStay
  <2> QED BY <2>1, <2>2 DEF HashesResolve
<1> QED BY <1>2, <1>3, <1>4, <1>5, <1>6, <1>7, <1>8, <1>9, <1>10 DEF TableOK

LEMMA EmitMoves ==
  ASSUME AuditShape, NEW a \in Emitters, NEW t, emit' = [emit EXCEPT ![a].step = t]
  PROVE  /\ DOMAIN emit' = Emitters
         /\ emit'[a] = [step |-> t, event |-> emit[a].event, tip |-> emit[a].tip]
         /\ emit'[a].step = t /\ emit'[a].event = emit[a].event /\ emit'[a].tip = emit[a].tip
         /\ \A b \in Emitters \ {a} : emit'[b] = emit[b]
<1>1. DOMAIN emit = Emitters
  BY DEF AuditShape
<1>2. emit[a] = [step |-> emit[a].step, event |-> emit[a].event, tip |-> emit[a].tip]
  BY DEF AuditShape
<1> DEFINE r == emit[a]
           s == [r EXCEPT !.step = t]
<1>3. emit' = [emit EXCEPT ![a] = s]
  BY <1>1
<1>4. s = [step |-> t, event |-> emit[a].event, tip |-> emit[a].tip]
  <2>1. DOMAIN r = {"step", "event", "tip"}
    BY <1>2
  <2> HIDE DEF r
  <2>2. DOMAIN s = {"step", "event", "tip"} /\ s.step = t /\ s.event = r.event /\ s.tip = r.tip
    BY <2>1
  <2>3. s = [k \in {"step", "event", "tip"} |-> s[k]]
    BY <2>1
  <2> HIDE DEF s
  <2>4. s = [step |-> t, event |-> r.event, tip |-> r.tip]
    BY <2>2, <2>3
  <2> QED BY <2>4 DEF r
<1> HIDE DEF s
<1>5. DOMAIN emit' = Emitters /\ emit'[a] = s /\ \A b \in Emitters \ {a} : emit'[b] = emit[b]
  BY <1>1, <1>3
<1> QED BY <1>4, <1>5

\* Emit returns, with or without an error.
LEMMA EmitReturns ==
  ASSUME AuditShape, NEW a \in Emitters, emit' = [emit EXCEPT ![a] = Idle]
  PROVE  /\ DOMAIN emit' = Emitters /\ emit'[a].step = "idle"
         /\ emit'[a] = [step |-> emit'[a].step, event |-> emit'[a].event, tip |-> emit'[a].tip]
         /\ \A b \in Emitters \ {a} : emit'[b] = emit[b]
BY DEF AuditShape, Idle

\* The parts of the invariant about Emit, when nothing but one call and perhaps an
\* inserted or linked row has changed.
LEMMA CallsKeep ==
  ASSUME AuditInv, NEW a \in Emitters, TableOK', LinksStay, boot' = boot, boot.step = "serving",
         emitted' \in Nat, emitted <= emitted',
         DOMAIN emit' = Emitters,
         \A b \in Emitters \ {a} : emit'[b] = emit[b],
         emit'[a] = [step |-> emit'[a].step, event |-> emit'[a].event, tip |-> emit'[a].tip],
         emit'[a].step \in {"idle", "insert", "link", "leaf", "mark"},
         emit'[a].step # "idle" => emit'[a].event \in 1..emitted' /\ Known(emit'[a].tip),
         \A b \in Emitters : emit'[b].step = "insert" =>
             /\ \A i \in DOMAIN raw' : raw'[i].event # emit'[b].event
             /\ \A c \in Emitters \ {b} : emit'[c].step = "insert" => emit'[c].event # emit'[b].event,
         emit'[a].step \in {"leaf", "mark"} =>
             \E i \in Linked' : /\ raw'[i].event = emit'[a].event
                                /\ raw'[i].hash = Compute(emit'[a].tip, emit'[a].event)
  PROVE  AuditInv'
<1>1. AuditShape /\ OneRowPerEvent /\ TipsKnown /\ LeafAhead /\ emitted \in Nat
  BY DEF AuditInv, AuditShape
<1>2. AuditShape'
  <2>1. \A b \in Emitters :
           /\ emit'[b] = [step |-> emit'[b].step, event |-> emit'[b].event, tip |-> emit'[b].tip]
           /\ emit'[b].step \in {"idle", "insert", "link", "leaf", "mark"}
           /\ emit'[b].step # "idle" => emit'[b].event \in 1..emitted'
    BY <1>1 DEF AuditShape
  <2> QED BY <1>1, <2>1 DEF AuditShape, TableOK
<1>3. OneRowPerEvent'
  BY DEF OneRowPerEvent, TableOK
<1>4. TipsKnown'
  <2>1. \A h : Known(h) => Known(h)'
    BY KnownStays
  <2>2. \A b \in Emitters : emit'[b].step # "idle" => Known(emit'[b].tip)
    BY <1>1 DEF TipsKnown
  <2>3. \A b \in Emitters : emit'[b].step # "idle" => Known(emit[b].tip)'
    <3> SUFFICES ASSUME NEW b \in Emitters, emit'[b].step # "idle" PROVE Known(emit[b].tip)'
      OBVIOUS
    <3>1. PICK h : h = emit'[b].tip
      OBVIOUS
    <3>2. Known(h)'
      BY <2>1, <2>2, <3>1
    <3> QED BY <3>1, <3>2 DEF Known, Linked
  <2> QED BY <2>3 DEF TipsKnown
<1>5. LeafAhead'
  BY <1>1 DEF LeafAhead, LinksStay
<1> QED BY <1>2, <1>3, <1>4, <1>5 DEF AuditInv, TableOK, Cursor, BackfillLinksAll

\* Nothing is written to the table.
LEMMA TableStays ==
  ASSUME AuditInv, UNCHANGED <<raw, leaves>>, emitted' \in {emitted, emitted + 1}
  PROVE  TableOK' /\ LinksStay
<1>1. \A i \in DOMAIN raw : raw[i].event \in 1..emitted' /\ AuditRow(raw[i])
  BY DEF AuditInv, AuditShape
<1>2. Linked' = Linked
  BY DEF Linked
<1>3. HashesResolve'
  BY <1>2 DEF AuditInv, HashesResolve
<1> QED BY <1>1, <1>2, <1>3 DEF AuditInv, AuditShape, OneRowPerEvent, TableOK, LinksStay

\* A call that is under way has a daemon that serves.
LEMMA EmitServes ==
  ASSUME AuditInv, NEW a \in Emitters, emit[a].step # "idle"
  PROVE  boot.step = "serving"
BY DEF AuditInv, AuditShape

LEMMA StepEmitRaw == AuditInv /\ EmitRaw => AuditInv'
<1> SUFFICES ASSUME AuditInv, EmitRaw PROVE AuditInv'
  OBVIOUS
<1>1. AuditShape /\ OneRowPerEvent /\ TipsKnown /\ LeafAhead /\ emitted \in Nat
  BY DEF AuditInv, AuditShape
<1>2. /\ emitted' = emitted + 1 /\ InsertRow(emitted + 1) /\ leaves' = leaves /\ emit' = emit
      /\ boot' = boot /\ boot.step = "serving"
  BY DEF EmitRaw, Serving
<1>3. \A i \in DOMAIN raw : raw[i].event # emitted + 1
  BY <1>1 DEF AuditShape
<1>4. /\ TableOK' /\ LinksStay
      /\ \A k \in DOMAIN raw' : (k \in DOMAIN raw /\ raw'[k] = raw[k]) \/ raw'[k].event = emitted + 1
  BY <1>1, <1>2, <1>3, InsertKeeps
<1>5. AuditShape'
  BY <1>1, <1>2, <1>4 DEF AuditShape, TableOK
<1>6. OneRowPerEvent'
  <2>1. \A b \in Emitters : emit[b].step = "insert" => emit[b].event # emitted + 1
    BY <1>1 DEF AuditShape
  <2> QED BY <1>1, <1>2, <1>4, <2>1 DEF OneRowPerEvent, TableOK
<1>7. TipsKnown'
  BY <1>1, <1>2, <1>4 DEF TipsKnown, Known, LinksStay
<1>8. LeafAhead'
  BY <1>1, <1>2, <1>4 DEF LeafAhead, LinksStay
<1> QED BY <1>2, <1>4, <1>5, <1>6, <1>7, <1>8 DEF AuditInv, TableOK, Cursor, BackfillLinksAll

LEMMA StepEmitStart == \A a \in Emitters : AuditInv /\ EmitStart(a) => AuditInv'
<1> SUFFICES ASSUME NEW a \in Emitters, AuditInv, EmitStart(a) PROVE AuditInv'
  OBVIOUS
<1> DEFINE e == emitted + 1
           c == [step |-> "insert", event |-> e, tip |-> GetChainTip]
<1>1. AuditShape /\ OneRowPerEvent /\ emitted \in Nat /\ DOMAIN emit = Emitters
  BY DEF AuditInv, AuditShape
<1>2. /\ emitted' = emitted + 1 /\ emit' = [emit EXCEPT ![a] = c]
      /\ boot' = boot /\ boot.step = "serving"
      /\ UNCHANGED <<raw, leaves>>
  BY DEF EmitStart, Serving
<1>3. TableOK' /\ LinksStay
  BY <1>2, TableStays
<1>4. c.step = "insert" /\ c.event = emitted + 1 /\ c.tip = GetChainTip
      /\ c = [step |-> c.step, event |-> c.event, tip |-> c.tip]
  OBVIOUS
<1>5. Known(c.tip)
  BY <1>1, <1>4, TipKnown
<1> HIDE DEF c
<1>6. DOMAIN emit' = Emitters /\ emit'[a] = c /\ \A b \in Emitters \ {a} : emit'[b] = emit[b]
  BY <1>1, <1>2
<1>7. \A i \in DOMAIN raw' : raw'[i].event # c.event
  BY <1>1, <1>2, <1>4 DEF AuditShape
<1>8. \A b \in Emitters \ {a} : emit[b].step = "insert" => emit[b].event # c.event
  BY <1>1, <1>4 DEF AuditShape
<1>9. \A b \in Emitters : emit'[b].step = "insert" =>
             /\ \A i \in DOMAIN raw' : raw'[i].event # emit'[b].event
             /\ \A d \in Emitters \ {b} : emit'[d].step = "insert" => emit'[d].event # emit'[b].event
  BY <1>1, <1>2, <1>6, <1>7, <1>8 DEF OneRowPerEvent
<1>10. c.event \in 1..emitted' /\ emitted' \in Nat /\ emitted <= emitted'
  BY <1>1, <1>2, <1>4
<1> QED BY <1>2, <1>3, <1>4, <1>5, <1>6, <1>9, <1>10, CallsKeep

LEMMA StepEmitInsert == \A a \in Emitters : AuditInv /\ EmitInsert(a) => AuditInv'
<1> SUFFICES ASSUME NEW a \in Emitters, AuditInv, EmitInsert(a) PROVE AuditInv'
  OBVIOUS
<1>1. AuditShape /\ OneRowPerEvent /\ TipsKnown /\ emitted \in Nat
  BY DEF AuditInv, AuditShape
<1>2. /\ emitted' = emitted /\ InsertRow(emit[a].event) /\ emit[a].step = "insert"
      /\ emit' = [emit EXCEPT ![a].step = "link"] /\ boot' = boot /\ leaves' = leaves
  BY DEF EmitInsert
<1>3. boot.step = "serving" /\ emit[a].event \in 1..emitted /\ Known(emit[a].tip)
  BY <1>1, <1>2, EmitServes DEF AuditShape, TipsKnown
<1>4. /\ TableOK' /\ LinksStay
      /\ \A k \in DOMAIN raw' : (k \in DOMAIN raw /\ raw'[k] = raw[k]) \/ raw'[k].event = emit[a].event
  <2>1. \A i \in DOMAIN raw : raw[i].event # emit[a].event
    BY <1>1, <1>2 DEF OneRowPerEvent
  <2> QED BY <1>2, <1>3, <2>1, InsertKeeps
<1>5. /\ DOMAIN emit' = Emitters
      /\ emit'[a] = [step |-> "link", event |-> emit[a].event, tip |-> emit[a].tip]
      /\ emit'[a].step = "link" /\ emit'[a].event = emit[a].event /\ emit'[a].tip = emit[a].tip
      /\ \A b \in Emitters \ {a} : emit'[b] = emit[b]
  BY <1>1, <1>2, EmitMoves
<1>6. \A b \in Emitters : emit'[b].step = "insert" =>
             /\ \A i \in DOMAIN raw' : raw'[i].event # emit'[b].event
             /\ \A c \in Emitters \ {b} : emit'[c].step = "insert" => emit'[c].event # emit'[b].event
  <2> SUFFICES ASSUME NEW b \in Emitters, emit'[b].step = "insert"
               PROVE  /\ \A i \in DOMAIN raw' : raw'[i].event # emit'[b].event
                      /\ \A c \in Emitters \ {b} :
                             emit'[c].step = "insert" => emit'[c].event # emit'[b].event
    OBVIOUS
  <2>1. b # a /\ emit'[b] = emit[b] /\ emit[b].step = "insert"
    BY <1>5
  <2>2. emit[a].event # emit[b].event
    BY <1>1, <1>2, <2>1 DEF OneRowPerEvent
  <2>3. \A i \in DOMAIN raw' : raw'[i].event # emit[b].event
    BY <1>1, <1>4, <2>1, <2>2 DEF OneRowPerEvent
  <2>4. \A c \in Emitters \ {b} : emit'[c].step = "insert" => emit'[c].event # emit[b].event
    BY <1>1, <1>2, <1>5, <2>1 DEF OneRowPerEvent
  <2> QED BY <2>1, <2>3, <2>4
<1> QED BY <1>1, <1>2, <1>3, <1>4, <1>5, <1>6, CallsKeep

LEMMA StepEmitLink == \A a \in Emitters : AuditInv /\ EmitLink(a) => AuditInv'
<1> SUFFICES ASSUME NEW a \in Emitters, AuditInv, EmitLink(a) PROVE AuditInv'
  OBVIOUS
<1>1. AuditShape /\ OneRowPerEvent /\ TipsKnown /\ emitted \in Nat
  BY DEF AuditInv, AuditShape
<1>2. /\ emitted' = emitted /\ UpdateChainColumns(emit[a].event, emit[a].tip)
      /\ emit[a].step = "link"
      /\ emit' = [emit EXCEPT ![a].step = "leaf"] /\ boot' = boot /\ leaves' = leaves
  BY DEF EmitLink
<1>3. boot.step = "serving" /\ emit[a].event \in 1..emitted /\ Known(emit[a].tip)
  BY <1>1, <1>2, EmitServes DEF AuditShape, TipsKnown
<1>4. /\ TableOK' /\ LinksStay /\ DOMAIN raw' = DOMAIN raw
      /\ \E i \in DOMAIN raw \ Linked :
                /\ raw[i].event = emit[a].event /\ raw'[i].event = emit[a].event
                /\ raw'[i].hash = Compute(emit[a].tip, emit[a].event)
                /\ Linked' = Linked \cup {i}
      /\ \A k \in DOMAIN raw : raw'[k].event = raw[k].event
  BY <1>2, <1>3, LinkKeeps
<1>5. /\ DOMAIN emit' = Emitters
      /\ emit'[a] = [step |-> "leaf", event |-> emit[a].event, tip |-> emit[a].tip]
      /\ emit'[a].step = "leaf" /\ emit'[a].event = emit[a].event /\ emit'[a].tip = emit[a].tip
      /\ \A b \in Emitters \ {a} : emit'[b] = emit[b]
  BY <1>1, <1>2, EmitMoves
<1>6. \A b \in Emitters : emit'[b].step = "insert" =>
             /\ \A i \in DOMAIN raw' : raw'[i].event # emit'[b].event
             /\ \A c \in Emitters \ {b} : emit'[c].step = "insert" => emit'[c].event # emit'[b].event
  BY <1>1, <1>2, <1>4, <1>5 DEF OneRowPerEvent
<1>7. \E i \in Linked' : /\ raw'[i].event = emit'[a].event
                         /\ raw'[i].hash = Compute(emit'[a].tip, emit'[a].event)
  BY <1>4, <1>5
<1> QED BY <1>1, <1>2, <1>3, <1>4, <1>5, <1>6, <1>7, CallsKeep

LEMMA StepEmitFails == \A a \in Emitters : AuditInv /\ EmitFails(a) => AuditInv'
<1> SUFFICES ASSUME NEW a \in Emitters, AuditInv, EmitFails(a) PROVE AuditInv'
  OBVIOUS
<1>1. AuditShape /\ OneRowPerEvent /\ emitted \in Nat
  BY DEF AuditInv, AuditShape
<1>2. /\ emitted' = emitted /\ emit' = [emit EXCEPT ![a] = Idle] /\ boot' = boot
      /\ UNCHANGED <<raw, leaves>>
  BY DEF EmitFails
<1>3. TableOK' /\ LinksStay
  BY <1>2, TableStays
<1>4. /\ DOMAIN emit' = Emitters /\ emit'[a].step = "idle"
      /\ emit'[a] = [step |-> emit'[a].step, event |-> emit'[a].event, tip |-> emit'[a].tip]
      /\ \A b \in Emitters \ {a} : emit'[b] = emit[b]
  BY <1>1, <1>2, EmitReturns
<1>5. CASE boot.step = "serving"
  <2>1. \A b \in Emitters : emit'[b].step = "insert" =>
             /\ \A i \in DOMAIN raw' : raw'[i].event # emit'[b].event
             /\ \A c \in Emitters \ {b} : emit'[c].step = "insert" => emit'[c].event # emit'[b].event
    BY <1>1, <1>2, <1>4 DEF OneRowPerEvent
  <2> QED BY <1>1, <1>2, <1>3, <1>4, <1>5, <2>1, CallsKeep
<1>6. CASE boot.step # "serving"
  <2>1. \A b \in Emitters : emit[b].step = "idle" /\ emit'[b].step = "idle"
    BY <1>1, <1>4, <1>6 DEF AuditShape
  <2>2. AuditShape'
    BY <1>1, <1>2, <1>4, <2>1 DEF AuditShape
  <2>3. Linked' = Linked
    BY <1>2 DEF Linked
  <2>4. OneRowPerEvent' /\ LeafAhead'
    BY <1>1, <1>2, <2>1 DEF OneRowPerEvent, LeafAhead
  <2>5. TipsKnown' /\ Cursor' /\ BackfillLinksAll'
    BY <1>2, <2>1, <2>3 DEF AuditInv, TipsKnown, Known, Cursor, BackfillLinksAll
  <2> QED BY <1>3, <2>2, <2>4, <2>5 DEF AuditInv, TableOK
<1> QED BY <1>5, <1>6

LEMMA StepAppendTesseraLeaf == \A a \in Emitters : AuditInv /\ AppendTesseraLeaf(a) => AuditInv'
<1> SUFFICES ASSUME NEW a \in Emitters, AuditInv, AppendTesseraLeaf(a) PROVE AuditInv'
  OBVIOUS
<1> DEFINE x == [event |-> emit[a].event, hash |-> Compute(emit[a].tip, emit[a].event)]
<1>1. AuditShape /\ OneRowPerEvent /\ TipsKnown /\ LeafAhead /\ emitted \in Nat /\ HashesResolve
  BY DEF AuditInv, AuditShape
<1>2. /\ emitted' = emitted /\ emit[a].step = "leaf" /\ leaves' = leaves \cup {x}
      /\ emit' = [emit EXCEPT ![a].step = "mark"] /\ boot' = boot /\ raw' = raw
  BY DEF AppendTesseraLeaf
<1>3. boot.step = "serving" /\ emit[a].event \in 1..emitted /\ Known(emit[a].tip)
  BY <1>1, <1>2, EmitServes DEF AuditShape, TipsKnown
<1>4. /\ DOMAIN emit' = Emitters
      /\ emit'[a] = [step |-> "mark", event |-> emit[a].event, tip |-> emit[a].tip]
      /\ emit'[a].step = "mark" /\ emit'[a].event = emit[a].event /\ emit'[a].tip = emit[a].tip
      /\ \A b \in Emitters \ {a} : emit'[b] = emit[b]
  BY <1>1, <1>2, EmitMoves
<1>5. Linked' = Linked
  BY <1>2 DEF Linked
<1>6. PICK i \in Linked : /\ raw[i].event = emit[a].event
                          /\ raw[i].hash = Compute(emit[a].tip, emit[a].event)
  BY <1>1, <1>2 DEF LeafAhead
<1>7. x.event = emit[a].event /\ x.hash = Compute(emit[a].tip, emit[a].event)
  OBVIOUS
<1> HIDE DEF x
<1>8. HashesResolve'
  BY <1>1, <1>2, <1>5, <1>6, <1>7 DEF HashesResolve
<1>9. TableOK' /\ LinksStay
  BY <1>1, <1>2, <1>5, <1>8 DEF TableOK, LinksStay, AuditShape, OneRowPerEvent
<1>10. \A b \in Emitters : emit'[b].step = "insert" =>
             /\ \A k \in DOMAIN raw' : raw'[k].event # emit'[b].event
             /\ \A c \in Emitters \ {b} : emit'[c].step = "insert" => emit'[c].event # emit'[b].event
  BY <1>1, <1>2, <1>4 DEF OneRowPerEvent
<1>11. \E k \in Linked' : /\ raw'[k].event = emit'[a].event
                          /\ raw'[k].hash = Compute(emit'[a].tip, emit'[a].event)
  BY <1>2, <1>4, <1>5, <1>6
<1> QED BY <1>1, <1>2, <1>3, <1>4, <1>9, <1>10, <1>11, CallsKeep

LEMMA StepUpdateTesseraLeafID ==
  \A a \in Emitters : AuditInv /\ UpdateTesseraLeafID(a) => AuditInv'
<1> SUFFICES ASSUME NEW a \in Emitters, AuditInv, UpdateTesseraLeafID(a) PROVE AuditInv'
  OBVIOUS
<1>1. AuditShape /\ OneRowPerEvent /\ emitted \in Nat /\ HashesResolve
  BY DEF AuditInv, AuditShape
<1>2. /\ emitted' = emitted /\ emit[a].step = "mark" /\ leaves' = leaves
      /\ emit' = [emit EXCEPT ![a] = Idle] /\ boot' = boot
      /\ \E i \in DOMAIN raw : raw' = [raw EXCEPT ![i].leaf = TRUE]
  BY DEF UpdateTesseraLeafID
<1>3. boot.step = "serving"
  BY <1>2, EmitServes
<1>4. /\ \E T : raw' \in Seq(T)
      /\ DOMAIN raw' = DOMAIN raw /\ Linked' = Linked
      /\ \A k \in DOMAIN raw : /\ AuditRow(raw'[k]) /\ raw'[k].event = raw[k].event
                               /\ raw'[k].prev = raw[k].prev /\ raw'[k].hash = raw[k].hash
  BY <1>1, <1>2, RowMarked
<1>5. Linked \subseteq DOMAIN raw
  BY DEF Linked
<1>6. HashesResolve'
  BY <1>1, <1>2, <1>4, <1>5 DEF HashesResolve
<1>7. TableOK' /\ LinksStay
  <2>1. \A k \in DOMAIN raw' : AuditRow(raw'[k]) /\ raw'[k].event \in 1..emitted'
    BY <1>1, <1>2, <1>4 DEF AuditShape
  <2>2. \A k, j \in DOMAIN raw' : raw'[k].event = raw'[j].event => k = j
    BY <1>1, <1>4 DEF OneRowPerEvent
  <2>3. LinksStay
    BY <1>4, <1>5 DEF LinksStay
  <2> QED BY <1>4, <1>6, <2>1, <2>2, <2>3 DEF TableOK
<1>8. /\ DOMAIN emit' = Emitters /\ emit'[a].step = "idle"
      /\ emit'[a] = [step |-> emit'[a].step, event |-> emit'[a].event, tip |-> emit'[a].tip]
      /\ \A b \in Emitters \ {a} : emit'[b] = emit[b]
  BY <1>1, <1>2, EmitReturns
<1>9. \A b \in Emitters : emit'[b].step = "insert" =>
             /\ \A k \in DOMAIN raw' : raw'[k].event # emit'[b].event
             /\ \A c \in Emitters \ {b} : emit'[c].step = "insert" => emit'[c].event # emit'[b].event
  BY <1>1, <1>4, <1>8 DEF OneRowPerEvent
<1> QED BY <1>1, <1>2, <1>3, <1>7, <1>8, <1>9, CallsKeep

\* While the daemon boots, no Emit is under way, and only the part of the invariant
\* about the table and about Backfill is left to show.
LEMMA BootKeeps ==
  ASSUME AuditInv, \A a \in Emitters : emit'[a].step = "idle",
         \A a \in Emitters :
             emit'[a] = [step |-> emit'[a].step, event |-> emit'[a].event, tip |-> emit'[a].tip],
         DOMAIN emit' = Emitters, TableOK', emitted' = emitted,
         boot' = [step |-> boot'.step, prev |-> boot'.prev, batch |-> boot'.batch,
                  after |-> boot'.after],
         boot'.step \in {"scan", "linked", "serving"},
         boot'.step = "scan" => Known(boot.prev)', Cursor', BackfillLinksAll'
  PROVE  AuditInv'
<1>1. AuditShape'
  BY DEF AuditInv, AuditShape, TableOK
<1>2. OneRowPerEvent' /\ LeafAhead'
  BY DEF OneRowPerEvent, LeafAhead, TableOK
<1>3. TipsKnown'
  BY DEF TipsKnown
<1> QED BY <1>1, <1>2, <1>3 DEF AuditInv, TableOK

\* What a scan returns comes first of the rows without a hash, and is empty only when
\* there are none.
LEMMA ScanTakesFirst ==
  ASSUME AuditShape, NEW c
  PROVE  /\ FirstUnlinked(c) \subseteq Unlinked(c)
         /\ FirstUnlinked(c) = {} => Unlinked(c) = {}
         /\ \A i \in FirstUnlinked(c), j \in Unlinked(c) \ FirstUnlinked(c) : i < j
<1> DEFINE U == Unlinked(c)
           Below(i) == {j \in U : j < i}
<1>1. U \subseteq 1..Len(raw) /\ Len(raw) \in Nat
  BY RawIs DEF Unlinked
<1>2. \A i \in U : IsFiniteSet(Below(i)) /\ Cardinality(Below(i)) \in Nat
  <2>1. IsFiniteSet(1..Len(raw))
    BY <1>1, FS_Interval
  <2>2. \A i \in U : Below(i) \in SUBSET (1..Len(raw))
    BY <1>1
  <2> QED BY <2>1, <2>2, FS_Subset, FS_CardinalityType
<1>3. FirstUnlinked(c) = {i \in U : Cardinality(Below(i)) < BatchSize}
  BY DEF FirstUnlinked
<1>4. BatchSize \in Nat \ {0}
  BY AuditAssumption
<1>5. FirstUnlinked(c) = {} => U = {}
  <2> SUFFICES ASSUME U # {} PROVE FirstUnlinked(c) # {}
    OBVIOUS
  <2>1. PICK m \in U : \A j \in U : m <= j
    <3>1. U \subseteq Nat
      BY <1>1
    <3> HIDE DEF U
    <3> QED BY <3>1, SmallestOf, Zenon
  <2>2. Below(m) = {}
    BY <1>1, <2>1
  <2>3. Cardinality(Below(m)) = 0
    BY <2>2, FS_EmptySet
  <2> QED BY <1>3, <1>4, <2>1, <2>3
<1>6. ASSUME NEW i \in FirstUnlinked(c), NEW j \in U \ FirstUnlinked(c) PROVE i < j
  <2> SUFFICES ASSUME ~(i < j) PROVE FALSE
    OBVIOUS
  <2>1. i \in U /\ j \in U /\ Cardinality(Below(i)) < BatchSize /\ ~(Cardinality(Below(j)) < BatchSize)
    BY <1>3, <1>6
  <2>2. Below(j) \in SUBSET Below(i)
    BY <1>1, <2>1
  <2>3. Cardinality(Below(j)) <= Cardinality(Below(i))
    BY <1>2, <2>1, <2>2, FS_Subset
  <2>4. Cardinality(Below(j)) \in Nat /\ Cardinality(Below(i)) \in Nat
    BY <1>2, <2>1
  <2> HIDE DEF Below
  <2> QED BY <1>4, <2>1, <2>3, <2>4
<1> QED BY <1>3, <1>5, <1>6 DEF FirstUnlinked

LEMMA BootIs ==
  ASSUME AuditShape
  PROVE  /\ \A s : LET b == [boot EXCEPT !.step = s]
                   IN  b = [step |-> s, prev |-> boot.prev, batch |-> boot.batch, after |-> boot.after]
         /\ \A q : LET b == [boot EXCEPT !.batch = q]
                   IN  b = [step |-> boot.step, prev |-> boot.prev, batch |-> q, after |-> boot.after]
<1>1. DOMAIN boot = {"step", "prev", "batch", "after"}
  BY DEF AuditShape
<1>2. ASSUME NEW s, NEW b, b = [boot EXCEPT !.step = s]
      PROVE  b = [step |-> s, prev |-> boot.prev, batch |-> boot.batch, after |-> boot.after]
  <2>1. /\ DOMAIN b = {"step", "prev", "batch", "after"} /\ b.step = s
        /\ b.prev = boot.prev /\ b.batch = boot.batch /\ b.after = boot.after
    BY <1>1, <1>2
  <2>2. b = [k \in {"step", "prev", "batch", "after"} |-> b[k]]
    BY <1>1, <1>2
  <2> QED BY <2>1, <2>2
<1>3. ASSUME NEW q, NEW b, b = [boot EXCEPT !.batch = q]
      PROVE  b = [step |-> boot.step, prev |-> boot.prev, batch |-> q, after |-> boot.after]
  <2>1. /\ DOMAIN b = {"step", "prev", "batch", "after"} /\ b.step = boot.step
        /\ b.prev = boot.prev /\ b.batch = q /\ b.after = boot.after
    BY <1>1, <1>3
  <2>2. b = [k \in {"step", "prev", "batch", "after"} |-> b[k]]
    BY <1>1, <1>3
  <2> QED BY <2>1, <2>2
<1> QED BY <1>2, <1>3, Zenon

LEMMA StepBackfillScan == AuditInv /\ BackfillScan => AuditInv'
<1> SUFFICES ASSUME AuditInv, BackfillScan PROVE AuditInv'
  OBVIOUS
<1> DEFINE q == FirstUnlinked(boot.after)
<1>1. AuditShape /\ TipsKnown /\ Cursor
  BY DEF AuditInv
<1>2. /\ boot.step = "scan" /\ UNCHANGED <<raw, leaves, emit, emitted>>
      /\ boot' = IF q = {} THEN [boot EXCEPT !.step = "linked"] ELSE [boot EXCEPT !.batch = q]
  BY DEF BackfillScan
<1>3. TableOK'
  BY <1>2, TableStays
<1>4. Linked' = Linked
  BY <1>2 DEF Linked
<1>5. Unlinked(boot.after) = DOMAIN raw \ Linked
  BY <1>1, <1>2 DEF Cursor, Unlinked, Linked
<1>6. /\ q \subseteq Unlinked(boot.after) /\ (q = {} => Unlinked(boot.after) = {})
      /\ \A i \in q, j \in Unlinked(boot.after) \ q : i < j
  BY <1>1, ScanTakesFirst
<1>7. /\ \A a \in Emitters : emit'[a].step = "idle"
      /\ \A a \in Emitters :
             emit'[a] = [step |-> emit'[a].step, event |-> emit'[a].event, tip |-> emit'[a].tip]
      /\ DOMAIN emit' = Emitters
  BY <1>1, <1>2 DEF AuditShape
<1> HIDE DEF q
<1>8. CASE q = {}
  <2>1. boot' = [step |-> "linked", prev |-> boot.prev, batch |-> boot.batch, after |-> boot.after]
    BY <1>1, <1>2, <1>8, BootIs, Zenon
  <2>2. boot'.step = "linked"
    BY <2>1
  <2>3. boot' = [step |-> boot'.step, prev |-> boot'.prev, batch |-> boot'.batch, after |-> boot'.after]
    BY <2>1
  <2>4. Linked' = DOMAIN raw'
    BY <1>2, <1>4, <1>5, <1>6, <1>8 DEF Linked
  <2>5. Cursor' /\ BackfillLinksAll'
    BY <2>2, <2>4 DEF Cursor, BackfillLinksAll
  <2> QED BY <1>2, <1>3, <1>7, <2>2, <2>3, <2>5, BootKeeps
<1>9. CASE q # {}
  <2>1. boot' = [step |-> boot.step, prev |-> boot.prev, batch |-> q, after |-> boot.after]
    BY <1>1, <1>2, <1>9, BootIs, Zenon
  <2>2. boot'.step = "scan" /\ boot'.prev = boot.prev /\ boot'.batch = q /\ boot'.after = boot.after
    BY <1>2, <2>1
  <2>3. boot' = [step |-> boot'.step, prev |-> boot'.prev, batch |-> boot'.batch, after |-> boot'.after]
    BY <2>1
  <2>4. Known(boot.prev)'
    BY <1>1, <1>2, <1>4, <2>2 DEF TipsKnown, Known
  <2>5. Cursor' /\ BackfillLinksAll'
    BY <1>1, <1>2, <1>4, <1>5, <1>6, <2>2 DEF Cursor, BackfillLinksAll
  <2> QED BY <1>2, <1>3, <1>7, <2>2, <2>3, <2>4, <2>5, BootKeeps
<1> QED BY <1>8, <1>9

LEMMA StepBackfillRow == AuditInv /\ BackfillRow => AuditInv'
<1> SUFFICES ASSUME AuditInv, BackfillRow PROVE AuditInv'
  OBVIOUS
<1> DEFINE i == FirstOf(boot.batch)
<1>1. AuditShape /\ OneRowPerEvent /\ TipsKnown /\ Cursor
  BY DEF AuditInv
<1>2. /\ boot.step = "scan" /\ boot.batch # {} /\ UNCHANGED <<leaves, emit, emitted>>
      /\ UpdateChainColumns(raw[i].event, boot.prev)
      /\ boot' = [step |-> "scan", prev |-> raw'[i].hash, batch |-> boot.batch \ {i}, after |-> i]
  BY DEF BackfillRow
<1>3. i \in boot.batch /\ \A j \in boot.batch : i <= j
  <2>1. boot.batch \subseteq Nat
    BY <1>1, <1>2, RawIs DEF Cursor
  <2>2. \E k \in boot.batch : \A j \in boot.batch : k <= j
    BY <1>2, <2>1, SmallestOf, Zenon
  <2> QED BY <2>2, Zenon DEF FirstOf
<1> HIDE DEF i
<1>4. i \in DOMAIN raw \ Linked /\ i \in Nat
  BY <1>1, <1>2, <1>3, RawIs DEF Cursor
<1>5. Known(boot.prev)
  BY <1>1, <1>2 DEF TipsKnown
<1>6. /\ TableOK' /\ LinksStay /\ DOMAIN raw' = DOMAIN raw
      /\ \E k \in DOMAIN raw \ Linked :
                /\ raw[k].event = raw[i].event /\ raw'[k].event = raw[i].event
                /\ raw'[k].hash = Compute(boot.prev, raw[i].event)
                /\ Linked' = Linked \cup {k}
  BY <1>2, <1>5, LinkKeeps
<1>7. Linked' = Linked \cup {i}
  BY <1>1, <1>4, <1>6 DEF OneRowPerEvent
<1>8. /\ boot'.step = "scan" /\ boot'.prev = raw'[i].hash /\ boot'.batch = boot.batch \ {i}
      /\ boot'.after = i
      /\ boot' = [step |-> boot'.step, prev |-> boot'.prev, batch |-> boot'.batch,
                  after |-> boot'.after]
  BY <1>2
<1>9. Known(boot.prev)'
  BY <1>7, <1>8 DEF Known
<1>10. Cursor'
  <2>1. \A j \in DOMAIN raw \ Linked' : j > i
    <3> SUFFICES ASSUME NEW j \in DOMAIN raw \ Linked' PROVE j > i
      OBVIOUS
    <3>1. j \in DOMAIN raw \ Linked /\ j # i /\ j \in Nat
      BY <1>1, <1>7, RawIs
    <3>2. CASE j \in boot.batch
      BY <1>3, <1>4, <3>1, <3>2
    <3>3. CASE j \notin boot.batch
      BY <1>1, <1>2, <1>3, <3>1, <3>3 DEF Cursor
    <3> QED BY <3>2, <3>3
  <2>2. boot'.batch \subseteq DOMAIN raw \ Linked'
    BY <1>1, <1>2, <1>7, <1>8 DEF Cursor
  <2>3. \A k \in boot'.batch, j \in (DOMAIN raw \ Linked') \ boot'.batch : k < j
    BY <1>1, <1>2, <1>7, <1>8 DEF Cursor
  <2> QED BY <1>4, <1>6, <1>8, <2>1, <2>2, <2>3 DEF Cursor
<1>11. /\ \A a \in Emitters : emit'[a].step = "idle"
       /\ \A a \in Emitters :
             emit'[a] = [step |-> emit'[a].step, event |-> emit'[a].event, tip |-> emit'[a].tip]
       /\ DOMAIN emit' = Emitters
  BY <1>1, <1>2 DEF AuditShape
<1>12. BackfillLinksAll'
  BY <1>8 DEF BackfillLinksAll
<1> QED BY <1>2, <1>6, <1>8, <1>9, <1>10, <1>11, <1>12, BootKeeps

LEMMA StepBootEnds == AuditInv /\ BootEnds => AuditInv'
<1> SUFFICES ASSUME AuditInv, BootEnds PROVE AuditInv'
  OBVIOUS
<1>1. AuditShape
  BY DEF AuditInv
<1>2. boot.step # "serving" /\ boot' = Serving /\ UNCHANGED <<raw, leaves, emit, emitted>>
  BY DEF BootEnds
<1>3. TableOK'
  BY <1>2, TableStays
<1>4. /\ boot'.step = "serving"
      /\ boot' = [step |-> boot'.step, prev |-> boot'.prev, batch |-> boot'.batch,
                  after |-> boot'.after]
  BY <1>2 DEF Serving
<1>5. /\ \A a \in Emitters : emit'[a].step = "idle"
      /\ \A a \in Emitters :
             emit'[a] = [step |-> emit'[a].step, event |-> emit'[a].event, tip |-> emit'[a].tip]
      /\ DOMAIN emit' = Emitters
  BY <1>1, <1>2 DEF AuditShape
<1>6. Cursor' /\ BackfillLinksAll'
  BY <1>4 DEF Cursor, BackfillLinksAll
<1> QED BY <1>2, <1>3, <1>4, <1>5, <1>6, BootKeeps

LEMMA StepReboot == AuditInv /\ Reboot => AuditInv'
<1> SUFFICES ASSUME AuditInv, Reboot PROVE AuditInv'
  OBVIOUS
<1>1. AuditShape
  BY DEF AuditInv
<1>2. /\ boot' = Backfilling /\ emit' = [a \in Emitters |-> Idle]
      /\ UNCHANGED <<raw, leaves, emitted>>
  BY DEF Reboot
<1>3. TableOK'
  BY <1>2, TableStays
<1>4. /\ boot'.step = "scan" /\ boot'.prev = GetChainTip /\ boot'.batch = {} /\ boot'.after = 0
      /\ boot' = [step |-> boot'.step, prev |-> boot'.prev, batch |-> boot'.batch,
                  after |-> boot'.after]
  BY <1>2 DEF Backfilling
<1>5. Linked' = Linked
  BY <1>2 DEF Linked
<1>6. Known(boot.prev)'
  BY <1>1, <1>2, <1>4, <1>5, TipKnown DEF Known
<1>7. /\ \A a \in Emitters : emit'[a].step = "idle"
      /\ \A a \in Emitters :
             emit'[a] = [step |-> emit'[a].step, event |-> emit'[a].event, tip |-> emit'[a].tip]
      /\ DOMAIN emit' = Emitters
  BY <1>2 DEF Idle
<1>8. Cursor' /\ BackfillLinksAll'
  BY <1>1, <1>2, <1>4, <1>5, RawIs DEF Cursor, BackfillLinksAll
<1> QED BY <1>2, <1>3, <1>4, <1>6, <1>7, <1>8, BootKeeps

\* The invariant holds at first and is kept by every step.
LEMMA AuditInvHolds == AuditSpec => []AuditInv
<1>1. AuditInit => AuditInv
  <2> SUFFICES ASSUME AuditInit PROVE AuditInv
    OBVIOUS
  <2>1. raw = <<>> /\ leaves = {} /\ emitted = 0 /\ emit = [a \in Emitters |-> Idle] /\ boot = Serving
    BY DEF AuditInit
  <2>2. raw \in Seq({}) /\ DOMAIN raw = {}
    BY <2>1
  <2>3. Linked = {}
    BY <2>2 DEF Linked
  <2>4. /\ \A a \in Emitters : /\ emit[a].step = "idle"
                               /\ emit[a] = [step |-> emit[a].step, event |-> emit[a].event, tip |-> emit[a].tip]
        /\ DOMAIN emit = Emitters
    BY <2>1 DEF Idle
  <2>5. /\ boot.step = "serving"
        /\ boot = [step |-> boot.step, prev |-> boot.prev, batch |-> boot.batch, after |-> boot.after]
    BY <2>1 DEF Serving
  <2>6. AuditShape
    BY <2>1, <2>2, <2>4, <2>5 DEF AuditShape
  <2> QED BY <2>1, <2>2, <2>3, <2>4, <2>5, <2>6
          DEF AuditInv, OneRowPerEvent, TipsKnown, LeafAhead, HashesResolve, Cursor, BackfillLinksAll
<1>2. AuditInv /\ UNCHANGED auditVars => AuditInv'
  <2> SUFFICES ASSUME AuditInv, UNCHANGED auditVars PROVE AuditInv'
    OBVIOUS
  <2>1. UNCHANGED <<raw, leaves, emit, boot, emitted>>
    BY DEF auditVars
  <2>2. Linked' = Linked
    BY <2>1 DEF Linked
  <2> QED BY <2>1, <2>2
          DEF AuditInv, AuditShape, OneRowPerEvent, TipsKnown, Known, LeafAhead, HashesResolve,
              Cursor, BackfillLinksAll
<1>3. AuditInv /\ [AuditNext]_auditVars => AuditInv'
  BY <1>2, StepEmitRaw, StepEmitStart, StepEmitInsert, StepEmitLink, StepAppendTesseraLeaf,
     StepUpdateTesseraLeafID, StepEmitFails, StepBackfillScan, StepBackfillRow, StepBootEnds,
     StepReboot
  DEF AuditNext
<1> QED BY <1>1, <1>3, PTL DEF AuditSpec

\* Whatever fails or dies between the statements that write it, every link and every leaf
\* of the audit chain is the hash of a row, and a Backfill that ends without error
\* leaves no row without a hash, for any number of calls of Emit and any size of
\* a batch (audit_anchor.go:42-88, chain/backfill.go:32-65).
THEOREM ChainCorrect == AuditSpec => []ChainSound
<1>1. AuditInv => ChainSound
  BY DEF AuditInv, ChainSound
<1> QED BY <1>1, AuditInvHolds, PTL

-----------------------------------------------------------------------------
(* EventBatcher                                                            *)

\* The sequence k has, of the events accepted as s, those that are not in d, in order.
Account(k, s, d) ==
    /\ IsInjective(s)
    /\ Range(s) = Range(k) \cup d /\ Range(k) \cap d = {}
    /\ \A i, j \in DOMAIN k : i < j => \E m, n \in DOMAIN s : m < n /\ s[m] = k[i] /\ s[n] = k[j]

\* What the invariant adds to AcceptedKept: events are numbered as they are accepted,
\* and Run drains only when it was cancelled.
BatcherInv ==
    /\ queue \in Seq(PostedEvent) /\ batch \in Seq(PostedEvent)
    /\ stored \in Seq(PostedEvent) /\ submitted \in Seq(PostedEvent)
    /\ posted \in [Requests -> 0..(PerRequest + 1)]
    /\ \A i \in DOMAIN submitted : submitted[i][2] < posted[submitted[i][1]]
    /\ server \in {"serving", "closing", "stopped", "exited"}
    /\ looping # "select" => server \in {"stopped", "exited"}
    /\ Account(Retained, submitted, dropped)
    /\ looping = "ended" => Range(queue) \subseteq afterCancel

LEMMA SeqIs ==
  ASSUME NEW S, NEW s \in Seq(S)
  PROVE  Len(s) \in Nat /\ DOMAIN s = 1..Len(s) /\ \A k \in 1..Len(s) : s[k] \in S
OBVIOUS

LEMMA AppendedIs ==
  ASSUME NEW S, NEW s \in Seq(S), NEW e \in S
  PROVE  LET t == Append(s, e)
         IN  /\ t \in Seq(S) /\ Len(t) = Len(s) + 1 /\ DOMAIN t = 1..(Len(s) + 1) /\ t[Len(s) + 1] = e
             /\ \A k \in 1..Len(s) : t[k] = s[k]
             /\ \A k \in DOMAIN t : k \in 1..Len(s) \/ k = Len(s) + 1
OBVIOUS

LEMMA RangeAppended ==
  ASSUME NEW S, NEW s \in Seq(S), NEW e \in S
  PROVE  Range(Append(s, e)) = Range(s) \cup {e}
<1> DEFINE t == Append(s, e)
<1>1. Len(s) \in Nat /\ DOMAIN s = 1..Len(s)
  OBVIOUS
<1>2. /\ DOMAIN t = 1..(Len(s) + 1) /\ t[Len(s) + 1] = e
      /\ \A k \in 1..Len(s) : t[k] = s[k]
      /\ \A k \in DOMAIN t : k \in 1..Len(s) \/ k = Len(s) + 1
  OBVIOUS
<1> HIDE DEF t
<1>3. Range(t) = Range(s) \cup {e}
  <2>1. \A x \in Range(t) : x \in Range(s) \cup {e}
    BY <1>1, <1>2 DEF Range
  <2>2. \A x \in Range(s) \cup {e} : x \in Range(t)
    BY <1>1, <1>2 DEF Range
  <2> QED BY <2>1, <2>2
<1> QED BY <1>3 DEF t

\* k is a, b and c in a row; t is a and c.
InARow(k, a, b, c) ==
    /\ Len(k) = Len(a) + Len(b) + Len(c) /\ DOMAIN k = 1..Len(k)
    /\ \A i \in 1..Len(a) : k[i] = a[i]
    /\ \A i \in 1..Len(b) : k[Len(a) + i] = b[i]
    /\ \A i \in 1..Len(c) : k[Len(a) + Len(b) + i] = c[i]
    /\ \A i \in DOMAIN k : \/ i \in 1..Len(a)
                           \/ \E j \in 1..Len(b) : i = Len(a) + j
                           \/ \E j \in 1..Len(c) : i = Len(a) + Len(b) + j

InAPair(t, a, c) ==
    /\ Len(t) = Len(a) + Len(c) /\ DOMAIN t = 1..Len(t)
    /\ \A i \in 1..Len(a) : t[i] = a[i]
    /\ \A i \in 1..Len(c) : t[Len(a) + i] = c[i]
    /\ \A i \in DOMAIN t : \/ i \in 1..Len(a)
                           \/ \E j \in 1..Len(c) : i = Len(a) + j

LEMMA TwoInARow ==
  ASSUME NEW S, NEW a \in Seq(S), NEW b \in Seq(S), NEW k, k = a \o b
  PROVE  /\ k \in Seq(S) /\ Len(k) = Len(a) + Len(b) /\ DOMAIN k = 1..Len(k)
         /\ \A i \in 1..Len(a) : k[i] = a[i]
         /\ \A i \in 1..Len(b) : k[Len(a) + i] = b[i]
OBVIOUS

\* Three sequences in a row.
LEMMA ThreeInARow ==
  ASSUME NEW S, NEW a \in Seq(S), NEW b \in Seq(S), NEW c \in Seq(S),
         NEW ab, ab = a \o b, NEW k, k = ab \o c
  PROVE  k \in Seq(S) /\ InARow(k, a, b, c)
<1>1. Len(a) \in Nat /\ Len(b) \in Nat /\ Len(c) \in Nat
  OBVIOUS
<1>2. /\ ab \in Seq(S) /\ Len(ab) = Len(a) + Len(b)
      /\ \A i \in 1..Len(a) : ab[i] = a[i]
      /\ \A i \in 1..Len(b) : ab[Len(a) + i] = b[i]
  BY TwoInARow
<1>3. /\ k \in Seq(S) /\ Len(k) = Len(ab) + Len(c) /\ DOMAIN k = 1..Len(k)
      /\ \A i \in 1..Len(ab) : k[i] = ab[i]
      /\ \A i \in 1..Len(c) : k[Len(ab) + i] = c[i]
  <2>1. ab \in Seq(S)
    BY <1>2
  <2> QED BY <2>1, TwoInARow
<1>4. \A i \in DOMAIN k : \/ i \in 1..Len(a)
                          \/ \E j \in 1..Len(b) : i = Len(a) + j
                          \/ \E j \in 1..Len(c) : i = Len(a) + Len(b) + j
  <2> SUFFICES ASSUME NEW i \in DOMAIN k
               PROVE  \/ i \in 1..Len(a)
                      \/ \E j \in 1..Len(b) : i = Len(a) + j
                      \/ \E j \in 1..Len(c) : i = Len(a) + Len(b) + j
    OBVIOUS
  <2>1. i \in Nat /\ i >= 1 /\ i <= Len(a) + Len(b) + Len(c)
    BY <1>1, <1>2, <1>3
  <2>2. CASE i <= Len(a)
    BY <1>1, <2>1, <2>2
  <2>3. CASE i > Len(a) /\ i <= Len(a) + Len(b)
    <3>1. i - Len(a) \in 1..Len(b) /\ i = Len(a) + (i - Len(a))
      BY <1>1, <2>1, <2>3
    <3> QED BY <3>1
  <2>4. CASE i > Len(a) + Len(b)
    <3>1. i - (Len(a) + Len(b)) \in 1..Len(c) /\ i = Len(a) + Len(b) + (i - (Len(a) + Len(b)))
      BY <1>1, <2>1, <2>4
    <3> QED BY <3>1
  <2> QED BY <1>1, <2>1, <2>2, <2>3, <2>4
<1>5. \A i \in 1..Len(a) : k[i] = a[i]
  BY <1>1, <1>2, <1>3
<1>6. \A i \in 1..Len(b) : k[Len(a) + i] = b[i]
  BY <1>1, <1>2, <1>3
<1>7. \A i \in 1..Len(c) : k[Len(a) + Len(b) + i] = c[i]
  BY <1>1, <1>2, <1>3
<1>8. Len(k) = Len(a) + Len(b) + Len(c)
  BY <1>2, <1>3
<1> QED BY <1>3, <1>4, <1>5, <1>6, <1>7, <1>8 DEF InARow

LEMMA PairInARow ==
  ASSUME NEW S, NEW a \in Seq(S), NEW c \in Seq(S), NEW t, t = a \o c
  PROVE  t \in Seq(S) /\ InAPair(t, a, c)
<1>1. Len(a) \in Nat /\ Len(c) \in Nat
  OBVIOUS
<1>2. /\ t \in Seq(S) /\ Len(t) = Len(a) + Len(c) /\ DOMAIN t = 1..Len(t)
      /\ \A i \in 1..Len(a) : t[i] = a[i]
      /\ \A i \in 1..Len(c) : t[Len(a) + i] = c[i]
  BY TwoInARow
<1>3. ASSUME NEW i \in DOMAIN t, i \notin 1..Len(a) PROVE \E j \in 1..Len(c) : i = Len(a) + j
  <2>1. i - Len(a) \in 1..Len(c) /\ i = Len(a) + (i - Len(a))
    BY <1>1, <1>2, <1>3
  <2> QED BY <2>1
<1> QED BY <1>2, <1>3 DEF InAPair

\* An event is accepted.
LEMMA AccountAppends ==
  ASSUME NEW S, NEW k \in Seq(S), NEW s \in Seq(S), NEW d, NEW e \in S,
         Account(k, s, d), e \notin Range(s)
  PROVE  Account(Append(k, e), Append(s, e), d)
<1> DEFINE ke == Append(k, e)
           se == Append(s, e)
<1>1. /\ Len(k) \in Nat /\ DOMAIN k = 1..Len(k) /\ Len(s) \in Nat /\ DOMAIN s = 1..Len(s)
  OBVIOUS
<1>2. /\ DOMAIN ke = 1..(Len(k) + 1) /\ ke[Len(k) + 1] = e
      /\ \A i \in 1..Len(k) : ke[i] = k[i]
      /\ \A i \in DOMAIN ke : i \in 1..Len(k) \/ i = Len(k) + 1
      /\ Range(ke) = Range(k) \cup {e}
  BY AppendedIs, RangeAppended
<1>3. /\ DOMAIN se = 1..(Len(s) + 1) /\ se[Len(s) + 1] = e
      /\ \A i \in 1..Len(s) : se[i] = s[i]
      /\ \A i \in DOMAIN se : i \in 1..Len(s) \/ i = Len(s) + 1
      /\ Range(se) = Range(s) \cup {e}
  BY AppendedIs, RangeAppended
<1> HIDE DEF ke, se
<1>4. \A i \in 1..Len(s) : s[i] # e
  BY <1>1 DEF Range
<1>5. IsInjective(se)
  <2>1. IsInjective(s)
    BY DEF Account
  <2> QED BY <1>1, <1>3, <1>4, <2>1 DEF IsInjective
<1>6. Range(se) = Range(ke) \cup d /\ Range(ke) \cap d = {}
  <2>1. Range(s) = Range(k) \cup d /\ Range(k) \cap d = {}
    BY DEF Account
  <2> QED BY <1>2, <1>3, <2>1
<1>7. ASSUME NEW i \in DOMAIN ke, NEW j \in DOMAIN ke, i < j
      PROVE  \E m, n \in DOMAIN se : m < n /\ se[m] = ke[i] /\ se[n] = ke[j]
  <2>1. i \in 1..Len(k)
    BY <1>1, <1>2, <1>7
  <2>2. CASE j \in 1..Len(k)
    <3>1. PICK m \in DOMAIN s, n \in DOMAIN s : m < n /\ s[m] = k[i] /\ s[n] = k[j]
      BY <1>1, <1>7, <2>1, <2>2 DEF Account
    <3> QED BY <1>1, <1>2, <1>3, <2>1, <2>2, <3>1
  <2>3. CASE j = Len(k) + 1
    <3>1. k[i] \in Range(s)
      BY <1>1, <2>1 DEF Account, Range
    <3>2. PICK m \in DOMAIN s : s[m] = k[i]
      BY <3>1 DEF Range
    <3>3. m < Len(s) + 1 /\ m \in DOMAIN se /\ Len(s) + 1 \in DOMAIN se
      BY <1>1, <1>3, <3>2
    <3> QED BY <1>1, <1>2, <1>3, <2>1, <2>3, <3>2, <3>3
  <2> QED BY <1>2, <2>2, <2>3
<1>8. Account(ke, se, d)
  BY <1>5, <1>6, <1>7 DEF Account
<1> QED BY <1>8 DEF ke, se

\* A batch in the middle is dropped.
LEMMA AccountDrops ==
  ASSUME NEW S, NEW a \in Seq(S), NEW b \in Seq(S), NEW c \in Seq(S), NEW s \in Seq(S), NEW d,
         NEW k, NEW t, InARow(k, a, b, c), InAPair(t, a, c), Account(k, s, d)
  PROVE  Account(t, s, d \cup Range(b))
<1>0. Len(a) \in Nat /\ Len(b) \in Nat /\ Len(c) \in Nat /\ DOMAIN b = 1..Len(b)
  OBVIOUS
<1>1. /\ Len(k) = Len(a) + Len(b) + Len(c) /\ DOMAIN k = 1..Len(k)
      /\ \A i \in 1..Len(a) : k[i] = a[i]
      /\ \A i \in 1..Len(b) : k[Len(a) + i] = b[i]
      /\ \A i \in 1..Len(c) : k[Len(a) + Len(b) + i] = c[i]
      /\ \A i \in DOMAIN k : \/ i \in 1..Len(a)
                             \/ \E j \in 1..Len(b) : i = Len(a) + j
                             \/ \E j \in 1..Len(c) : i = Len(a) + Len(b) + j
  BY DEF InARow
<1>2. /\ Len(t) = Len(a) + Len(c) /\ DOMAIN t = 1..Len(t)
      /\ \A i \in 1..Len(a) : t[i] = a[i]
      /\ \A i \in 1..Len(c) : t[Len(a) + i] = c[i]
      /\ \A i \in DOMAIN t : \/ i \in 1..Len(a)
                             \/ \E j \in 1..Len(c) : i = Len(a) + j
  BY DEF InAPair
<1>3. Account(k, s, d)
  OBVIOUS
<1> DEFINE At(i) == IF i <= Len(a) THEN i ELSE i + Len(b)
<1>4. \A i \in DOMAIN t : At(i) \in DOMAIN k /\ k[At(i)] = t[i]
  <2> SUFFICES ASSUME NEW i \in DOMAIN t PROVE At(i) \in DOMAIN k /\ k[At(i)] = t[i]
    OBVIOUS
  <2>1. CASE i \in 1..Len(a)
    BY <1>0, <1>1, <1>2, <2>1
  <2>2. CASE i \notin 1..Len(a)
    <3>1. PICK j \in 1..Len(c) : i = Len(a) + j
      BY <1>2, <2>2
    <3>2. At(i) = Len(a) + Len(b) + j
      BY <1>0, <3>1
    <3> QED BY <1>0, <1>1, <1>2, <3>1, <3>2
  <2> QED BY <2>1, <2>2
<1>5. \A i, j \in DOMAIN t : i < j => At(i) < At(j)
  BY <1>0, <1>2
<1>6. \A i, j \in DOMAIN k : i < j => k[i] # k[j]
  BY <1>0, <1>1, <1>3 DEF Account, IsInjective
<1>7. \A i \in DOMAIN t, j \in 1..Len(b) : t[i] # b[j]
  <2> SUFFICES ASSUME NEW i \in DOMAIN t, NEW j \in 1..Len(b) PROVE t[i] # b[j]
    OBVIOUS
  <2>1. Len(a) + j \in DOMAIN k /\ k[Len(a) + j] = b[j]
    BY <1>0, <1>1
  <2>2. At(i) < Len(a) + j \/ Len(a) + j < At(i)
    BY <1>0, <1>2
  <2> QED BY <1>4, <1>6, <2>1, <2>2
<1>8. Range(k) = Range(t) \cup Range(b)
  <2>1. \A x \in Range(k) : x \in Range(t) \cup Range(b)
    <3> SUFFICES ASSUME NEW i \in DOMAIN k PROVE k[i] \in Range(t) \cup Range(b)
      BY DEF Range
    <3>1. CASE i \in 1..Len(a)
      BY <1>0, <1>1, <1>2, <3>1 DEF Range
    <3>2. CASE \E j \in 1..Len(b) : i = Len(a) + j
      BY <1>0, <1>1, <3>2 DEF Range
    <3>3. CASE \E j \in 1..Len(c) : i = Len(a) + Len(b) + j
      <4>1. PICK j \in 1..Len(c) : i = Len(a) + Len(b) + j
        BY <3>3
      <4>2. Len(a) + j \in DOMAIN t /\ t[Len(a) + j] = k[i]
        BY <1>0, <1>1, <1>2, <4>1
      <4> QED BY <4>2 DEF Range
    <3> QED BY <1>1, <3>1, <3>2, <3>3
  <2>2. \A x \in Range(t) \cup Range(b) : x \in Range(k)
    <3>1. \A x \in Range(t) : x \in Range(k)
      BY <1>4 DEF Range
    <3>2. ASSUME NEW j \in DOMAIN b PROVE b[j] \in Range(k)
      <4>1. Len(a) + j \in DOMAIN k /\ k[Len(a) + j] = b[j]
        BY <1>0, <1>1, <3>2
      <4> QED BY <4>1 DEF Range
    <3> QED BY <3>1, <3>2 DEF Range
  <2> QED BY <2>1, <2>2
<1>9. Range(t) \cap Range(b) = {}
  BY <1>0, <1>7 DEF Range
<1>10. ASSUME NEW i \in DOMAIN t, NEW j \in DOMAIN t, i < j
       PROVE  \E m, n \in DOMAIN s : m < n /\ s[m] = t[i] /\ s[n] = t[j]
  <2>1. /\ At(i) \in DOMAIN k /\ At(j) \in DOMAIN k /\ At(i) < At(j)
        /\ k[At(i)] = t[i] /\ k[At(j)] = t[j]
    BY <1>4, <1>5, <1>10
  <2> HIDE DEF At
  <2>2. \E m, n \in DOMAIN s : m < n /\ s[m] = k[At(i)] /\ s[n] = k[At(j)]
    BY <1>3, <2>1 DEF Account
  <2> QED BY <2>1, <2>2
<1>11. IsInjective(s) /\ Range(s) = Range(k) \cup d /\ Range(k) \cap d = {}
  BY <1>3 DEF Account
<1>12. Account(t, s, d \cup Range(b))
  BY <1>8, <1>9, <1>10, <1>11 DEF Account
<1> QED BY <1>12

LEMMA EventsAssociate ==
  \A x, y, z \in Seq(PostedEvent) : (x \o y) \o z = x \o (y \o z)
BY ConcatAssociative, SMTT(30)

\* An event goes from the channel to the batch: nothing moves.
LEMMA EventMovesOn ==
  \A a, b, q \in Seq(PostedEvent) :
      q # <<>> => a \o Append(b, Head(q)) \o Tail(q) = a \o b \o q
<1> SUFFICES ASSUME NEW a \in Seq(PostedEvent), NEW b \in Seq(PostedEvent), NEW q \in Seq(PostedEvent), q # <<>>
             PROVE  a \o Append(b, Head(q)) \o Tail(q) = a \o b \o q
  OBVIOUS
<1>1. Append(b, Head(q)) = b \o <<Head(q)>> /\ <<Head(q)>> \o Tail(q) = q
      /\ Head(q) \in PostedEvent /\ Tail(q) \in Seq(PostedEvent) /\ <<Head(q)>> \in Seq(PostedEvent)
  OBVIOUS
<1>2. a \o (b \o <<Head(q)>>) = (a \o b) \o <<Head(q)>>
  BY <1>1, EventsAssociate, Zenon
<1>3. ((a \o b) \o <<Head(q)>>) \o Tail(q) = (a \o b) \o (<<Head(q)>> \o Tail(q))
  <2>1. a \o b \in Seq(PostedEvent)
    OBVIOUS
  <2> QED BY <1>1, <2>1, EventsAssociate, Zenon
<1> QED BY <1>1, <1>2, <1>3, Zenon

\* A batch goes to the table: nothing moves.
LEMMA BatchMovesOn ==
  ASSUME NEW S, NEW a \in Seq(S), NEW b \in Seq(S), NEW q \in Seq(S)
  PROVE  (a \o b) \o <<>> \o q = a \o b \o q
<1>1. a \o b \in Seq(S)
  OBVIOUS
<1>2. (a \o b) \o <<>> = a \o b
  BY <1>1, ConcatEmptySeq
<1> QED BY <1>2, Zenon

LEMMA TailRange ==
  ASSUME NEW S, NEW q \in Seq(S), q # <<>>
  PROVE  Head(q) \in S /\ Tail(q) \in Seq(S) /\ Range(Tail(q)) \subseteq Range(q)
<1>1. Head(q) \in S /\ Tail(q) \in Seq(S) /\ Len(q) \in Nat \ {0} /\ DOMAIN q = 1..Len(q)
  OBVIOUS
<1>2. DOMAIN Tail(q) = 1..(Len(q) - 1) /\ \A i \in 1..(Len(q) - 1) : Tail(q)[i] = q[i + 1]
  OBVIOUS
<1>3. \A i \in 1..(Len(q) - 1) : i + 1 \in DOMAIN q
  BY <1>1
<1> QED BY <1>1, <1>2, <1>3 DEF Range

\* The parts of the invariant, when the requests and the history stay.
LEMMA RunKeeps ==
  ASSUME BatcherInv, UNCHANGED <<posted, server, submitted, afterCancel>>,
         queue' \in Seq(PostedEvent), batch' \in Seq(PostedEvent), stored' \in Seq(PostedEvent),
         looping' # "select" => server \in {"stopped", "exited"},
         looping' = "ended" => Range(queue') \subseteq afterCancel,
         Account(Retained', submitted, dropped')
  PROVE  BatcherInv'
BY DEF BatcherInv

\* flush of a batch b: the table takes it, or it is dropped.
LEMMA FlushKeeps ==
  ASSUME BatcherInv, NEW b \in Seq(PostedEvent), NEW q \in Seq(PostedEvent),
         stored \o b \o q = Retained, Flush(b), batch' = <<>>, queue' = q
  PROVE  stored' \in Seq(PostedEvent) /\ Account(Retained', submitted, dropped')
<1>1. /\ stored \in Seq(PostedEvent) /\ submitted \in Seq(PostedEvent)
      /\ Account(Retained, submitted, dropped)
  BY DEF BatcherInv
<1>2. Retained' = stored' \o <<>> \o q
  BY DEF Retained
<1>3. CASE stored' = stored \o b /\ dropped' = dropped
  <2>1. stored \o b \in Seq(PostedEvent)
    BY <1>1
  <2>2. (stored \o b) \o <<>> \o q = stored \o b \o q
    BY <1>1, BatchMovesOn
  <2>3. Retained' = Retained
    BY <1>2, <1>3, <2>2, Zenon
  <2> QED BY <1>1, <1>3, <2>1, <2>3
<1>4. CASE stored' = stored /\ dropped' = dropped \cup Range(b)
  <2>1. stored \o <<>> = stored
    BY <1>1
  <2>2. Retained' = stored \o q
    BY <1>2, <1>4, <2>1, Zenon
  <2>3. InAPair(Retained', stored, q)
    BY <1>1, <2>2, PairInARow
  <2>4. InARow(Retained, stored, b, q)
    <3>1. PICK ab : ab = stored \o b
      OBVIOUS
    <3>2. Retained = ab \o q
      BY <3>1, Zenon
    <3> QED BY <1>1, <3>1, <3>2, ThreeInARow
  <2>5. Account(Retained', submitted, dropped \cup Range(b))
    BY <1>1, <2>3, <2>4, AccountDrops
  <2> QED BY <1>1, <1>4, <2>5
<1> QED BY <1>3, <1>4 DEF Flush

LEMMA StepSubmit == \A r \in Requests : BatcherInv /\ Submit(r) => BatcherInv'
<1> SUFFICES ASSUME NEW r \in Requests, BatcherInv, Submit(r) PROVE BatcherInv'
  OBVIOUS
<1> DEFINE e == <<r, posted[r]>>
<1>1. /\ queue \in Seq(PostedEvent) /\ batch \in Seq(PostedEvent)
      /\ stored \in Seq(PostedEvent) /\ submitted \in Seq(PostedEvent)
      /\ posted \in [Requests -> 0..(PerRequest + 1)]
      /\ Account(Retained, submitted, dropped) /\ PerRequest \in Nat
  BY BatcherAssumption DEF BatcherInv
<1>2. /\ posted[r] \in 1..PerRequest /\ server # "exited"
      /\ queue' = Append(queue, e) /\ submitted' = Append(submitted, e)
      /\ afterCancel' = (IF server = "stopped" THEN afterCancel \cup {e} ELSE afterCancel)
      /\ posted' = [posted EXCEPT ![r] = @ + 1]
      /\ UNCHANGED <<batch, stored, dropped, looping, server>>
  BY DEF Submit
<1>3. e \in PostedEvent /\ e[1] = r /\ e[2] = posted[r]
  BY <1>2 DEF PostedEvent
<1>4. e \notin Range(submitted)
  BY <1>3 DEF BatcherInv, Range
<1> HIDE DEF e
<1>5. /\ queue' \in Seq(PostedEvent) /\ submitted' \in Seq(PostedEvent)
      /\ Range(queue') = Range(queue) \cup {e}
  BY <1>1, <1>2, <1>3, RangeAppended
<1>6. posted' \in [Requests -> 0..(PerRequest + 1)] /\ \A x \in Requests : posted[x] <= posted'[x]
      /\ posted'[r] = posted[r] + 1
  BY <1>1, <1>2
<1>7. \A i \in DOMAIN submitted' : submitted'[i][2] < posted'[submitted'[i][1]]
  <2> SUFFICES ASSUME NEW i \in DOMAIN submitted' PROVE submitted'[i][2] < posted'[submitted'[i][1]]
    OBVIOUS
  <2>0. /\ DOMAIN submitted = 1..Len(submitted) /\ Len(submitted) \in Nat
        /\ i \in 1..Len(submitted) \/ i = Len(submitted) + 1
        /\ \A k \in 1..Len(submitted) : submitted'[k] = submitted[k]
        /\ submitted'[Len(submitted) + 1] = e
    BY <1>1, <1>2, <1>3, AppendedIs
  <2>1. CASE i \in 1..Len(submitted)
    <3>1. submitted[i] \in PostedEvent /\ submitted[i][2] < posted[submitted[i][1]]
      BY <1>1, <2>0, <2>1 DEF BatcherInv
    <3>2. submitted[i][1] \in Requests /\ submitted[i][2] \in Nat
      BY <3>1 DEF PostedEvent
    <3>3. posted[submitted[i][1]] \in Nat /\ posted'[submitted[i][1]] \in Nat
          /\ posted[submitted[i][1]] <= posted'[submitted[i][1]]
      BY <1>1, <1>6, <3>2
    <3> QED BY <2>0, <2>1, <3>1, <3>2, <3>3
  <2>2. CASE i = Len(submitted) + 1
    BY <1>1, <1>3, <1>6, <2>0, <2>2
  <2> QED BY <2>0, <2>1, <2>2
<1>8. Account(Retained', submitted', dropped')
  <2>1. Retained' = Append(Retained, e) /\ Retained \in Seq(PostedEvent)
    <3>1. PICK ab : ab = stored \o batch
      OBVIOUS
    <3>2. ab \in Seq(PostedEvent)
      BY <1>1, <3>1
    <3>3. Retained = ab \o queue /\ Retained' = ab \o Append(queue, e)
      BY <1>2, <3>1 DEF Retained
    <3>4. ab \o queue \in Seq(PostedEvent)
      BY <1>1, <3>2
    <3>5. ab \o Append(queue, e) = Append(ab \o queue, e)
      <4>1. queue \in Seq(PostedEvent) /\ e \in PostedEvent
        BY <1>1, <1>3
      <4> QED BY <3>2, <4>1
    <3> QED BY <3>3, <3>4, <3>5
  <2>2. Account(Append(Retained, e), Append(submitted, e), dropped)
    BY <1>1, <1>3, <1>4, <2>1, AccountAppends
  <2> QED BY <1>2, <2>1, <2>2
<1>9. looping' = "ended" => Range(queue') \subseteq afterCancel'
  BY <1>2, <1>5 DEF BatcherInv
<1> QED BY <1>1, <1>2, <1>5, <1>6, <1>7, <1>8, <1>9 DEF BatcherInv

LEMMA StepRunReceive == BatcherInv /\ RunReceive => BatcherInv'
<1> SUFFICES ASSUME BatcherInv, RunReceive PROVE BatcherInv'
  OBVIOUS
<1> DEFINE b == Append(batch, Head(queue))
<1>1. /\ queue \in Seq(PostedEvent) /\ batch \in Seq(PostedEvent) /\ stored \in Seq(PostedEvent)
      /\ Account(Retained, submitted, dropped)
  BY DEF BatcherInv
<1>2. /\ looping = "select" /\ queue # <<>> /\ queue' = Tail(queue)
      /\ \/ batch' = <<>> /\ Flush(b)
         \/ batch' = b /\ UNCHANGED <<stored, dropped>>
      /\ UNCHANGED <<posted, looping, server, submitted, afterCancel>>
  BY DEF RunReceive
<1>3. Head(queue) \in PostedEvent /\ Tail(queue) \in Seq(PostedEvent)
  BY <1>1, <1>2, TailRange
<1>4. b \in Seq(PostedEvent) /\ stored \o b \o Tail(queue) = Retained
  <2>1. b \in Seq(PostedEvent)
    BY <1>1, <1>3
  <2>2. stored \o b \o Tail(queue) = stored \o batch \o queue
    <3>1. stored \in Seq(PostedEvent) /\ batch \in Seq(PostedEvent) /\ queue \in Seq(PostedEvent)
          /\ queue # <<>>
      BY <1>1, <1>2
    <3> QED BY <3>1, EventMovesOn, Zenon DEF b
  <2> QED BY <2>1, <2>2, Zenon DEF Retained
<1> HIDE DEF b
<1>5. CASE batch' = <<>> /\ Flush(b)
  <2>1. stored' \in Seq(PostedEvent) /\ Account(Retained', submitted, dropped')
    BY <1>2, <1>3, <1>4, <1>5, FlushKeeps
  <2>2. batch' \in Seq(PostedEvent)
    BY <1>5
  <2> QED BY <1>2, <1>3, <2>1, <2>2, RunKeeps
<1>6. CASE batch' = b /\ UNCHANGED <<stored, dropped>>
  <2>1. Retained' = Retained
    BY <1>2, <1>4, <1>6 DEF Retained
  <2> QED BY <1>1, <1>2, <1>3, <1>4, <1>6, <2>1, RunKeeps
<1> QED BY <1>2, <1>5, <1>6

LEMMA StepRunTick == BatcherInv /\ RunTick => BatcherInv'
<1> SUFFICES ASSUME BatcherInv, RunTick PROVE BatcherInv'
  OBVIOUS
<1>1. queue \in Seq(PostedEvent) /\ batch \in Seq(PostedEvent)
  BY DEF BatcherInv
<1>2. /\ looping = "select" /\ batch' = <<>> /\ Flush(batch) /\ queue' = queue
      /\ UNCHANGED <<posted, looping, server, submitted, afterCancel>>
  BY DEF RunTick
<1>3. stored' \in Seq(PostedEvent) /\ Account(Retained', submitted, dropped')
  <2>1. stored \o batch \o queue = Retained
    BY DEF Retained
  <2> QED BY <1>1, <1>2, <2>1, FlushKeeps
<1>4. batch' \in Seq(PostedEvent)
  BY <1>2
<1> QED BY <1>1, <1>2, <1>3, <1>4, RunKeeps

LEMMA StepRunDrain == BatcherInv /\ RunDrain => BatcherInv'
<1> SUFFICES ASSUME BatcherInv, RunDrain PROVE BatcherInv'
  OBVIOUS
<1>1. /\ queue \in Seq(PostedEvent) /\ batch \in Seq(PostedEvent) /\ stored \in Seq(PostedEvent)
      /\ Account(Retained, submitted, dropped) /\ looping = "drain"
      /\ server \in {"stopped", "exited"}
      /\ UNCHANGED <<posted, server, submitted, afterCancel>>
  BY DEF BatcherInv, RunDrain
<1>2. CASE /\ queue # <<>> /\ batch' = Append(batch, Head(queue)) /\ queue' = Tail(queue)
           /\ UNCHANGED <<stored, dropped, looping>>
  <2>1. Head(queue) \in PostedEvent /\ queue' \in Seq(PostedEvent)
    BY <1>1, <1>2, TailRange
  <2>2. batch' \in Seq(PostedEvent)
    BY <1>1, <1>2, <2>1
  <2>3. Retained' = Retained
    <3>1. stored \o Append(batch, Head(queue)) \o Tail(queue) = stored \o batch \o queue
      <4>1. stored \in Seq(PostedEvent) /\ batch \in Seq(PostedEvent) /\ queue \in Seq(PostedEvent)
            /\ queue # <<>>
        BY <1>1, <1>2
      <4> QED BY <4>1, EventMovesOn, Zenon
    <3>2. stored' = stored /\ batch' = Append(batch, Head(queue)) /\ queue' = Tail(queue)
      BY <1>2
    <3> QED BY <3>1, <3>2, Zenon DEF Retained
  <2> QED BY <1>1, <1>2, <2>1, <2>2, <2>3, RunKeeps
<1>3. CASE /\ queue = <<>> /\ Flush(batch) /\ batch' = <<>> /\ looping' = "ended"
           /\ UNCHANGED queue
  <2>1. stored' \in Seq(PostedEvent) /\ Account(Retained', submitted, dropped')
    <3>1. stored \o batch \o queue = Retained
      BY DEF Retained
    <3> QED BY <1>1, <1>3, <3>1, FlushKeeps
  <2>2. batch' \in Seq(PostedEvent) /\ queue' \in Seq(PostedEvent) /\ Range(queue') = {}
    BY <1>1, <1>3 DEF Range
  <2> QED BY <1>1, <1>3, <2>1, <2>2, RunKeeps
<1> QED BY <1>2, <1>3 DEF RunDrain

LEMMA BatcherInvHolds == BatcherSpec => []BatcherInv
<1>1. BatcherInit => BatcherInv
  <2> SUFFICES ASSUME BatcherInit PROVE BatcherInv
    OBVIOUS
  <2>1. /\ queue = <<>> /\ batch = <<>> /\ stored = <<>> /\ submitted = <<>> /\ dropped = {}
        /\ posted = [r \in Requests |-> 0] /\ looping = "select" /\ server = "serving"
    BY DEF BatcherInit
  <2>2. Retained = <<>> /\ <<>> \in Seq(PostedEvent) /\ DOMAIN <<>> = {}
    BY <2>1 DEF Retained
  <2>3. Account(<<>>, <<>>, {})
    BY DEF Account, Range, IsInjective
  <2>4. posted \in [Requests -> 0..(PerRequest + 1)]
    BY <2>1, BatcherAssumption
  <2> QED BY <2>1, <2>2, <2>3, <2>4 DEF BatcherInv
<1>2. ASSUME BatcherInv, [BatcherNext]_batcherVars PROVE BatcherInv'
  <2>1. CASE \E r \in Requests : EventsIngest(r)
    <3>1. PICK r \in Requests : EventsIngest(r)
      BY <2>1
    <3>2. /\ posted[r] = 0 /\ posted' = [posted EXCEPT ![r] = 1]
          /\ UNCHANGED <<queue, batch, stored, dropped, looping, server, submitted, afterCancel>>
      BY <3>1 DEF EventsIngest
    <3>3. /\ posted \in [Requests -> 0..(PerRequest + 1)] /\ PerRequest \in Nat
          /\ submitted \in Seq(PostedEvent)
      BY <1>2, BatcherAssumption DEF BatcherInv
    <3>4. posted' \in [Requests -> 0..(PerRequest + 1)] /\ \A x \in Requests : posted[x] <= posted'[x]
      BY <3>2, <3>3
    <3>5. ASSUME NEW i \in DOMAIN submitted PROVE submitted[i][2] < posted'[submitted[i][1]]
      <4>1. submitted[i] \in PostedEvent /\ submitted[i][2] < posted[submitted[i][1]]
        BY <1>2, <3>3, <3>5 DEF BatcherInv
      <4>2. submitted[i][1] \in Requests /\ submitted[i][2] \in Nat
        BY <4>1 DEF PostedEvent
      <4>3. posted[submitted[i][1]] \in Nat /\ posted'[submitted[i][1]] \in Nat
            /\ posted[submitted[i][1]] <= posted'[submitted[i][1]]
        BY <3>3, <3>4, <4>2
      <4> QED BY <4>1, <4>2, <4>3
    <3> QED BY <1>2, <3>2, <3>4, <3>5 DEF BatcherInv, Retained
  <2>2. CASE RunDone \/ Stop \/ StartReturns \/ Exit \/ UNCHANGED batcherVars
    BY <1>2, <2>2 DEF RunDone, Stop, StartReturns, Exit, batcherVars, BatcherInv, Retained
  <2> QED BY <1>2, <2>1, <2>2, StepSubmit, StepRunReceive, StepRunTick, StepRunDrain
          DEF BatcherNext, RunStep
<1> QED BY <1>1, <1>2, PTL DEF BatcherSpec

\* Every event that was accepted is in the table, in a failed batch, in the batch or in
\* the channel, in one of them, once and in the order of acceptance, and what Run leaves
\* behind came after it was cancelled, for any number of requests, events per
\* request and size of a batch (batcher.go:43-87, server.go:1420-1476).
THEOREM IngestCorrect == BatcherSpec => []AcceptedKept
<1>1. BatcherInv => AcceptedKept
  BY DEF BatcherInv, Account, AcceptedKept, Before
<1> QED BY <1>1, BatcherInvHolds, PTL

-----------------------------------------------------------------------------
(* SessionTransport: the frames of the child and what Close returns.       *)

\* Frame f has been handed on, or is before place j of the pipe.
Passed(f, j) ==
    \/ \E i \in DOMAIN Delivered : Delivered[i] = f
    \/ \E k \in 1..(j - 1) : stdoutPipe[k] = f

FramesTyped ==
    /\ written \in Seq(FrameKind) /\ stdoutPipe \in Seq(Nat)
    /\ recvCh \in Seq(Nat) /\ receivedMsgs \in Seq(Nat)

HandedInOrder ==
    \A i \in DOMAIN Delivered :
        /\ Delivered[i] \in GoodFrames
        /\ \A j \in 1..(i - 1) : Delivered[j] < Delivered[i]
        /\ \A f \in GoodFrames : f < Delivered[i] => \E j \in 1..(i - 1) : Delivered[j] = f

\* The frames in the pipe are in order and after everything handed on.
PipeInOrder ==
    \A j \in DOMAIN stdoutPipe :
        /\ stdoutPipe[j] \in 1..Len(written)
        /\ \A k \in 1..(j - 1) : stdoutPipe[k] < stdoutPipe[j]
        /\ \A i \in DOMAIN Delivered : Delivered[i] < stdoutPipe[j]

\* Until the reader ends, none but malformed frames are missing before one in the pipe;
\* while the child runs, none is missing at all.
NoneMissing ==
    reader # "ended" => \A j \in DOMAIN stdoutPipe : \A f \in 1..(stdoutPipe[j] - 1) :
        written[f] # "malformed" => Passed(f, j)

AllThere ==
    child = "running" /\ reader # "ended" => \A f \in 1..Len(written) :
        written[f] # "malformed" => Passed(f, Len(stdoutPipe) + 1)

HandIsGood == reader = "hand" => stdoutPipe # <<>> /\ written[stdoutPipe[1]] = "good"

PipeInv == FramesTyped /\ HandedInOrder /\ PipeInOrder /\ NoneMissing /\ AllThere /\ HandIsGood

\* The order of the exit: the child ends, the error is stored, exitCh is closed, and only
\* then does a Close that waits for it load the error.
ExitInv ==
    /\ child \in {"running", "clean", "failed", "killed"}
    /\ waiter \in {"wait", "reaped", "stored", "once", "ended"}
    /\ closeErr \in CloseResult
    /\ closePc \in [Closers -> {"idle", "grace", "reap", "do", "load"} \cup CloseResult]
    /\ waiter # "wait" => child # "running"
    /\ exitCh <=> waiter \in {"once", "ended"}
    /\ waiter \in {"stored", "once", "ended"} /\ child = "failed" /\ ~killedByClose
           => closeErr # "none"
    /\ closedCh => exitCh \/ OnceRuns
    /\ \A c \in Closers :
           /\ closePc[c] = "do" => closedCh
           /\ closePc[c] \in {"load"} \cup CloseResult => exitCh
           /\ closePc[c] = "none" /\ child = "failed" => killedByClose
           /\ closePc[c] \in CloseResult => closePc[c] \in {"none", closeErr}
    /\ closeErr = "plain" \/ panicked => \E i \in DOMAIN written : written[i] = "oversize"

\* The steps of the child, of Send and Receive and of the reader, as the exit sees them.
LEMMA ExitKept ==
  ASSUME ExitInv, UNCHANGED <<exitCh, waiter, closePc, closedCh, killedByClose>>,
         \/ child' = child
         \/ child = "running" /\ child' \in {"clean", "failed"},
         closeErr' \in CloseResult, closeErr # "none" => closeErr' = closeErr,
         closeErr' = "plain" \/ panicked' => \E i \in DOMAIN written' : written'[i] = "oversize"
  PROVE  ExitInv'
<1>1. OnceRuns' = OnceRuns
  BY DEF OnceRuns
<1>2. waiter # "wait" => child' # "running"
  BY DEF ExitInv
<1>3. waiter' \in {"stored", "once", "ended"} /\ child' = "failed" /\ ~killedByClose' => closeErr' # "none"
  BY DEF ExitInv
<1>4. \A c \in Closers : closePc'[c] = "none" /\ child' = "failed" => killedByClose'
  BY DEF ExitInv, CloseResult
<1>5. \A c \in Closers : closePc'[c] \in CloseResult => closePc'[c] \in {"none", closeErr'}
  BY DEF ExitInv, CloseResult
<1> QED BY <1>1, <1>2, <1>3, <1>4, <1>5 DEF ExitInv

LEMMA ErrStored ==
  ASSUME ExitInv, NEW type \in {"plain", "wrapped"}, StoreErr(type),
         type = "plain" => \E i \in DOMAIN written : written[i] = "oversize"
  PROVE  /\ closeErr' \in CloseResult /\ closeErr' # "none"
         /\ closeErr # "none" => closeErr' = closeErr
         /\ closeErr' = "plain" \/ panicked' => \E i \in DOMAIN written : written[i] = "oversize"
BY DEF ExitInv, StoreErr, CloseResult

LEMMA ExitOfWait ==
  ASSUME ExitInv, WaiterStep
  PROVE  ExitInv'
<1>1. CASE WaitReaps
  <2>1. UNCHANGED <<child, written, closedCh, exitCh, errVars, killedByClose, closePc>>
        /\ waiter = "wait" /\ child # "running" /\ waiter' = "reaped"
    BY <1>1 DEF WaitReaps
  <2> QED BY <2>1 DEF ExitInv, OnceRuns, errVars
<1>2. CASE WaitStores
  <2>1. UNCHANGED <<child, written, closedCh, exitCh, killedByClose, closePc>>
        /\ waiter = "reaped" /\ waiter' = "stored"
    BY <1>2 DEF WaitStores, readVars
  <2>2. /\ closeErr' \in CloseResult /\ (closeErr # "none" => closeErr' = closeErr)
        /\ child = "failed" /\ ~killedByClose => closeErr' # "none"
        /\ closeErr' = "plain" \/ panicked' => \E i \in DOMAIN written : written[i] = "oversize"
    <3>1. CASE child # "clean" /\ ~killedByClose
      BY <1>2, <3>1, ErrStored DEF WaitStores
    <3>2. CASE ~(child # "clean" /\ ~killedByClose)
      BY <1>2, <3>2 DEF WaitStores, ExitInv, errVars
    <3> QED BY <3>1, <3>2
  <2> QED BY <2>1, <2>2 DEF ExitInv, OnceRuns
<1>3. CASE WaitSignals
  <2>1. UNCHANGED <<child, written, closedCh, errVars, killedByClose, closePc>>
        /\ waiter = "stored" /\ waiter' = "once" /\ exitCh'
    BY <1>3 DEF WaitSignals, readVars
  <2> QED BY <2>1 DEF ExitInv, OnceRuns, errVars
<1>4. CASE WaitOnce
  <2>1. UNCHANGED <<child, written, exitCh, errVars, killedByClose, closePc>>
        /\ waiter = "once" /\ waiter' = "ended" /\ closedCh'
    BY <1>4 DEF WaitOnce, readVars
  <2> QED BY <2>1 DEF ExitInv, OnceRuns, errVars
<1> QED BY <1>1, <1>2, <1>3, <1>4 DEF WaiterStep

LEMMA ExitOfClose ==
  ASSUME ExitInv, NEW c \in Closers, CloseStart(c) \/ CloseStep(c)
  PROVE  ExitInv'
<1>1. CASE CloseStart(c)
  <2>1. UNCHANGED <<child, written, waiter, exitCh, errVars, killedByClose>>
        /\ closedCh' /\ closePc[c] = "idle"
        /\ closePc' = [closePc EXCEPT ![c] = IF closedCh THEN "do" ELSE "grace"]
    BY <1>1 DEF CloseStart, readVars
  <2>2. exitCh' \/ OnceRuns'
    <3>1. CASE ~closedCh
      <4>1. closePc'[c] = "grace"
        BY <2>1, <3>1 DEF ExitInv
      <4> QED BY <4>1 DEF OnceRuns
    <3>2. CASE closedCh /\ ~exitCh
      <4>1. PICK d \in Closers : closePc[d] \in {"grace", "reap"}
        BY <3>2 DEF ExitInv, OnceRuns
      <4>2. closePc'[d] = closePc[d]
        BY <2>1, <4>1 DEF ExitInv
      <4> QED BY <4>1, <4>2 DEF OnceRuns
    <3> QED BY <2>1, <3>1, <3>2
  <2> QED BY <2>1, <2>2 DEF ExitInv, CloseResult, errVars
<1>2. CASE CloseKills(c)
  <2>1. UNCHANGED <<written, waiter, closedCh, exitCh, errVars>> /\ killedByClose'
        /\ closePc[c] = "grace" /\ closePc' = [closePc EXCEPT ![c] = "reap"]
        /\ child' = IF child = "running" THEN "killed" ELSE child
    BY <1>2 DEF CloseKills, readVars
  <2>2. OnceRuns'
    BY <2>1 DEF ExitInv, OnceRuns
  <2> QED BY <2>1, <2>2 DEF ExitInv, CloseResult, errVars
<1>3. CASE CloseSeesExit(c)
  <2>1. UNCHANGED <<child, written, waiter, closedCh, exitCh, errVars, killedByClose>> /\ exitCh
        /\ closePc' = [closePc EXCEPT ![c] = "load"]
    BY <1>3 DEF CloseSeesExit, readVars
  <2> QED BY <2>1 DEF ExitInv, CloseResult, errVars
<1>4. CASE CloseLoads(c)
  <2>1. UNCHANGED <<child, written, waiter, closedCh, exitCh, errVars, killedByClose>>
        /\ closePc' = [closePc EXCEPT ![c] = closeErr]
    BY <1>4 DEF CloseLoads, readVars
  <2>2. exitCh
    BY <1>4 DEF CloseLoads, ExitInv
  <2>3. closeErr = "none" /\ child = "failed" => killedByClose
    BY <2>2 DEF ExitInv
  <2> QED BY <2>1, <2>2, <2>3 DEF ExitInv, CloseResult, errVars
<1> QED BY <1>1, <1>2, <1>3, <1>4 DEF CloseStep

LEMMA ExitOfWriter ==
  ASSUME ExitInv, WriterStep
  PROVE  ExitInv'
<1>1. UNCHANGED <<child, written, exitCh, waiter, closePc, closedCh, killedByClose>>
      /\ (StoreErr("wrapped") \/ UNCHANGED errVars)
  BY DEF WriterStep, WriterSelect, WriterWrite, readVars
<1>2. CASE StoreErr("wrapped")
  <2>1. /\ closeErr' \in CloseResult /\ (closeErr # "none" => closeErr' = closeErr)
        /\ closeErr' = "plain" \/ panicked' => \E i \in DOMAIN written : written[i] = "oversize"
    BY <1>2, ErrStored
  <2> QED BY <1>1, <2>1, ExitKept
<1>3. CASE UNCHANGED errVars
  <2>1. /\ closeErr' = closeErr /\ closeErr \in CloseResult
        /\ closeErr' = "plain" \/ panicked' => \E i \in DOMAIN written : written[i] = "oversize"
    BY <1>3 DEF ExitInv, errVars
  <2> QED BY <1>1, <2>1, ExitKept
<1> QED BY <1>1, <1>2, <1>3

\* Receive moves a frame within Delivered, and the reader adds one to it.
LEMMA DeliveredMoves ==
  ASSUME recvCh \in Seq(Nat), receivedMsgs \in Seq(Nat)
  PROVE  /\ Delivered \in Seq(Nat)
         /\ ReceiveFrame => Delivered' = Delivered
         /\ \A x \in Nat : receivedMsgs' = receivedMsgs /\ recvCh' = Append(recvCh, x)
                => Delivered' = Append(Delivered, x)
<1>1. Delivered \in Seq(Nat)
  BY DEF Delivered
<1>2. ASSUME ReceiveFrame PROVE Delivered' = Delivered
  <2>1. /\ recvCh # <<>> /\ receivedMsgs' = Append(receivedMsgs, Head(recvCh)) /\ recvCh' = Tail(recvCh)
    BY <1>2 DEF ReceiveFrame
  <2>2. Append(receivedMsgs, Head(recvCh)) \o Tail(recvCh) = receivedMsgs \o recvCh
    BY <2>1
  <2> QED BY <2>1, <2>2, Zenon DEF Delivered
<1>3. ASSUME NEW x \in Nat, receivedMsgs' = receivedMsgs, recvCh' = Append(recvCh, x)
      PROVE  Delivered' = Append(Delivered, x)
  <2>1. receivedMsgs \o Append(recvCh, x) = Append(receivedMsgs \o recvCh, x)
    OBVIOUS
  <2> QED BY <1>3, <2>1, Zenon DEF Delivered
<1> QED BY <1>1, <1>2, <1>3

\* A step that touches neither frames nor reader, and no child that stands up again.
LEMMA PipeKept ==
  ASSUME PipeInv, UNCHANGED readVars, child' = "running" => child = "running"
  PROVE  PipeInv'
<1>1. Delivered' = Delivered /\ GoodFrames' = GoodFrames
  BY DEF readVars, Delivered, GoodFrames
<1>2. \A f, j : Passed(f, j)' <=> Passed(f, j)
  BY <1>1 DEF Passed, readVars
<1> QED BY <1>1, <1>2 DEF PipeInv, FramesTyped, HandedInOrder, PipeInOrder, NoneMissing, AllThere, HandIsGood, readVars

LEMMA PipeOfReceive == PipeInv /\ ReceiveFrame => PipeInv'
<1> SUFFICES ASSUME PipeInv, ReceiveFrame PROVE PipeInv'
  OBVIOUS
<1>1. UNCHANGED <<child, written, stdoutPipe, reader>>
  BY DEF ReceiveFrame
<1>2. Delivered' = Delivered
  BY DeliveredMoves DEF PipeInv, FramesTyped
<1>3. GoodFrames' = GoodFrames
  BY <1>1 DEF GoodFrames
<1>4. \A f, j : Passed(f, j)' <=> Passed(f, j)
  BY <1>1, <1>2 DEF Passed
<1>5. recvCh' \in Seq(Nat) /\ receivedMsgs' \in Seq(Nat)
  BY DEF PipeInv, FramesTyped, ReceiveFrame
<1> QED BY <1>1, <1>2, <1>3, <1>4, <1>5 DEF PipeInv, FramesTyped, HandedInOrder, PipeInOrder, NoneMissing, AllThere, HandIsGood

LEMMA PipeOfChild ==
  ASSUME PipeInv, NEW kind \in FrameKind, ChildWrites(kind)
  PROVE  PipeInv'
<1>1. PICK w \in Nat, p \in Nat : w = Len(written) /\ p = Len(stdoutPipe)
  BY DEF PipeInv, FramesTyped
<1>2. /\ written' = Append(written, kind) /\ stdoutPipe' = Append(stdoutPipe, Len(written'))
      /\ UNCHANGED <<child, recvCh, receivedMsgs, reader>> /\ child = "running"
  BY DEF ChildWrites
<1>3. /\ written' \in Seq(FrameKind) /\ Len(written') = w + 1 /\ written'[w + 1] = kind
      /\ \A f \in 1..w : written'[f] = written[f]
  BY <1>1, <1>2 DEF PipeInv, FramesTyped
<1>4. /\ stdoutPipe' \in Seq(Nat) /\ Len(stdoutPipe') = p + 1 /\ stdoutPipe'[p + 1] = w + 1
      /\ \A k \in 1..p : stdoutPipe'[k] = stdoutPipe[k]
      /\ DOMAIN stdoutPipe' = 1..(p + 1) /\ DOMAIN stdoutPipe = 1..p
  BY <1>1, <1>2, <1>3 DEF PipeInv, FramesTyped
<1>5. Delivered' = Delivered
  BY <1>2 DEF Delivered
<1>6. /\ GoodFrames = {i \in 1..w : written[i] = "good" /\ \A j \in 1..i : written[j] # "oversize"}
      /\ GoodFrames' = {i \in 1..(w + 1) : written'[i] = "good" /\ \A j \in 1..i : written'[j] # "oversize"}
  BY <1>1, <1>3 DEF GoodFrames
<1>7. \A i \in 1..w : i \in 1..(w + 1) /\ \A j \in 1..i : j \in 1..w
  OBVIOUS
<1>8. /\ GoodFrames \subseteq GoodFrames' /\ GoodFrames \subseteq 1..w
      /\ \A f \in GoodFrames' : f \in 1..w => f \in GoodFrames
  BY <1>3, <1>6, <1>7
<1>9. ASSUME NEW f, NEW j \in 1..(p + 1), Passed(f, j) PROVE Passed(f, j)'
  <2>1. \A k \in 1..(j - 1) : k \in 1..p
    OBVIOUS
  <2> QED BY <1>4, <1>5, <1>9, <2>1 DEF Passed
<1>10. FramesTyped'
  BY <1>2, <1>3, <1>4 DEF PipeInv, FramesTyped
<1>11. HandedInOrder'
  <2> SUFFICES ASSUME NEW i \in DOMAIN Delivered
               PROVE  /\ Delivered[i] \in GoodFrames'
                      /\ \A j \in 1..(i - 1) : Delivered[j] < Delivered[i]
                      /\ \A f \in GoodFrames' : f < Delivered[i] => \E j \in 1..(i - 1) : Delivered[j] = f
    BY <1>5 DEF HandedInOrder
  <2>1. Delivered[i] \in 1..w
    BY <1>8 DEF PipeInv, HandedInOrder
  <2>2. ASSUME NEW f \in GoodFrames', f < Delivered[i] PROVE f \in GoodFrames
    <3>1. f \in 1..(w + 1)
      BY <1>6
    <3>2. f \in 1..w
      BY <2>1, <2>2, <3>1
    <3> QED BY <1>8, <3>2
  <2> QED BY <1>8, <2>2 DEF PipeInv, HandedInOrder
<1>12. PipeInOrder'
  <2> SUFFICES ASSUME NEW j \in 1..(p + 1)
               PROVE  /\ stdoutPipe'[j] \in 1..(w + 1)
                      /\ \A k \in 1..(j - 1) : stdoutPipe'[k] < stdoutPipe'[j]
                      /\ \A i \in DOMAIN Delivered : Delivered[i] < stdoutPipe'[j]
    BY <1>3, <1>4, <1>5 DEF PipeInOrder
  <2>1. \A k \in 1..p : stdoutPipe[k] \in 1..w
    BY <1>1, <1>4 DEF PipeInv, PipeInOrder
  <2>2. \A k \in 1..(j - 1) : k \in 1..p
    OBVIOUS
  <2>3. CASE j \in 1..p
    <3>1. stdoutPipe'[j] = stdoutPipe[j] /\ stdoutPipe[j] \in 1..(w + 1)
      BY <1>4, <2>1, <2>3
    <3>2. \A k \in 1..(j - 1) : stdoutPipe'[k] = stdoutPipe[k] /\ stdoutPipe[k] < stdoutPipe[j]
      BY <1>4, <2>2, <2>3 DEF PipeInv, PipeInOrder
    <3>3. \A i \in DOMAIN Delivered : Delivered[i] < stdoutPipe[j]
      BY <1>4, <2>3 DEF PipeInv, PipeInOrder
    <3> QED BY <3>1, <3>2, <3>3
  <2>4. CASE j = p + 1
    <3>1. stdoutPipe'[j] = w + 1
      BY <1>4, <2>4
    <3>2. \A k \in 1..(j - 1) : stdoutPipe'[k] < w + 1
      BY <1>4, <2>1, <2>2
    <3>3. ASSUME NEW i \in DOMAIN Delivered PROVE Delivered[i] < w + 1
      <4>1. Delivered[i] \in 1..w
        BY <1>8 DEF PipeInv, HandedInOrder
      <4> QED BY <4>1
    <3> QED BY <3>1, <3>2, <3>3
  <2> QED BY <2>3, <2>4
<1>13. NoneMissing'
  <2> SUFFICES ASSUME reader # "ended", NEW j \in 1..(p + 1), NEW f \in 1..(stdoutPipe'[j] - 1),
                      written'[f] # "malformed"
               PROVE  Passed(f, j)'
    BY <1>2, <1>4 DEF NoneMissing
  <2>1. CASE j \in 1..p
    <3>1. stdoutPipe'[j] = stdoutPipe[j] /\ stdoutPipe[j] \in 1..w
      BY <1>1, <1>4, <2>1 DEF PipeInv, PipeInOrder
    <3>2. f \in 1..(stdoutPipe[j] - 1) /\ f \in 1..w
      BY <3>1
    <3>3. Passed(f, j)
      BY <1>3, <1>4, <2>1, <3>2 DEF PipeInv, NoneMissing
    <3> QED BY <1>9, <3>3
  <2>2. CASE j = p + 1
    <3>1. f \in 1..w
      BY <1>4, <2>2
    <3>2. Passed(f, j)
      BY <1>1, <1>2, <1>3, <2>2, <3>1 DEF PipeInv, AllThere
    <3> QED BY <1>9, <3>2
  <2> QED BY <2>1, <2>2
<1>14. AllThere'
  <2> SUFFICES ASSUME reader # "ended", NEW f \in 1..(w + 1), written'[f] # "malformed",
                      NEW m, m = p + 1 + 1
               PROVE  Passed(f, m)'
    BY <1>2, <1>3, <1>4 DEF AllThere
  <2>1. CASE f = w + 1
    <3>1. p + 1 \in 1..(m - 1)
      OBVIOUS
    <3> QED BY <1>4, <2>1, <3>1 DEF Passed
  <2>2. CASE f \in 1..w
    <3>1. Passed(f, p + 1)
      BY <1>1, <1>2, <1>3, <2>2 DEF PipeInv, AllThere
    <3>2. Passed(f, p + 1)'
      BY <1>9, <3>1
    <3>3. \A k \in 1..(p + 1 - 1) : k \in 1..(m - 1)
      OBVIOUS
    <3> QED BY <3>2, <3>3 DEF Passed
  <2> QED BY <2>1, <2>2
<1>15. HandIsGood'
  <2> SUFFICES ASSUME reader = "hand" PROVE stdoutPipe' # <<>> /\ written'[stdoutPipe'[1]] = "good"
    BY <1>2 DEF HandIsGood
  <2>1. stdoutPipe # <<>> /\ written[stdoutPipe[1]] = "good"
    BY DEF PipeInv, HandIsGood
  <2>2. p # 0
    BY <1>1, <2>1 DEF PipeInv, FramesTyped
  <2>3. 1 \in 1..p
    BY <2>2
  <2>4. stdoutPipe'[1] = stdoutPipe[1] /\ stdoutPipe[1] \in 1..w
    BY <1>1, <1>4, <2>3 DEF PipeInv, PipeInOrder
  <2>5. stdoutPipe' # <<>>
    BY <1>4
  <2> QED BY <1>3, <2>1, <2>4, <2>5
<1> QED BY <1>10, <1>11, <1>12, <1>13, <1>14, <1>15 DEF PipeInv

\* The reader is done with the frame at the head of the pipe: it has handed it on, or
\* skipped it for being malformed, or ended with it.
LEMMA HeadLeaves ==
  ASSUME PipeInv, stdoutPipe # <<>>, stdoutPipe' = Tail(stdoutPipe), UNCHANGED <<child, written>>,
         recvCh' \in Seq(Nat), receivedMsgs' \in Seq(Nat), HandedInOrder',
         reader # "ended", reader' \in {"read", "ended"},
         \A i \in DOMAIN Delivered' : \/ Delivered'[i] = stdoutPipe[1]
                                      \/ \E k \in DOMAIN Delivered : Delivered[k] = Delivered'[i],
         \A i \in DOMAIN Delivered : \E k \in DOMAIN Delivered' : Delivered'[k] = Delivered[i],
         \/ reader' = "ended"
         \/ written[stdoutPipe[1]] = "malformed"
         \/ \E k \in DOMAIN Delivered' : Delivered'[k] = stdoutPipe[1]
  PROVE  PipeInv'
<1>1. PICK w \in Nat, p \in Nat : w = Len(written) /\ p = Len(stdoutPipe) /\ p # 0
  BY DEF PipeInv, FramesTyped
<1>2. /\ stdoutPipe' \in Seq(Nat) /\ Len(stdoutPipe') = p - 1 /\ p - 1 \in Nat
      /\ DOMAIN stdoutPipe' = 1..(p - 1) /\ DOMAIN stdoutPipe = 1..p
      /\ \A k \in 1..(p - 1) : stdoutPipe'[k] = stdoutPipe[k + 1]
  BY <1>1 DEF PipeInv, FramesTyped
<1>3. FramesTyped'
  BY <1>2 DEF PipeInv, FramesTyped
<1>4. \A j \in 1..p : /\ stdoutPipe[j] \in 1..w
                      /\ \A k \in 1..(j - 1) : stdoutPipe[k] < stdoutPipe[j]
                      /\ \A i \in DOMAIN Delivered : Delivered[i] < stdoutPipe[j]
  BY <1>1, <1>2 DEF PipeInv, PipeInOrder
<1>5. PipeInOrder'
  <2> SUFFICES ASSUME NEW j \in 1..(p - 1)
               PROVE  /\ stdoutPipe'[j] \in 1..w
                      /\ \A k \in 1..(j - 1) : stdoutPipe'[k] < stdoutPipe'[j]
                      /\ \A i \in DOMAIN Delivered' : Delivered'[i] < stdoutPipe'[j]
    BY <1>1, <1>2 DEF PipeInOrder
  <2>1. j + 1 \in 1..p /\ stdoutPipe'[j] = stdoutPipe[j + 1] /\ 1 \in 1..(j + 1 - 1)
    BY <1>2
  <2>2. \A k \in 1..(j - 1) : k \in 1..(p - 1) /\ k + 1 \in 1..(j + 1 - 1)
    OBVIOUS
  <2>3. \A k \in 1..(j - 1) : stdoutPipe'[k] < stdoutPipe'[j]
    BY <1>2, <1>4, <2>1, <2>2
  <2>4. ASSUME NEW i \in DOMAIN Delivered' PROVE Delivered'[i] < stdoutPipe'[j]
    <3>1. CASE Delivered'[i] = stdoutPipe[1]
      <4>1. stdoutPipe[1] < stdoutPipe[j + 1]
        BY <1>4, <2>1
      <4> QED BY <2>1, <3>1, <4>1, Zenon
    <3>2. CASE \E k \in DOMAIN Delivered : Delivered[k] = Delivered'[i]
      BY <1>4, <2>1, <3>2
    <3> QED BY <3>1, <3>2, Zenon
  <2> QED BY <1>4, <2>1, <2>3, <2>4
<1>6. ASSUME reader' # "ended", NEW f, NEW j \in 1..p, Passed(f, j + 1),
             f # stdoutPipe[1] \/ written[f] # "malformed"
      PROVE  Passed(f, j)'
  <2>1. CASE \E i \in DOMAIN Delivered : Delivered[i] = f
    BY <2>1 DEF Passed
  <2>2. CASE \E k \in 1..(j + 1 - 1) : stdoutPipe[k] = f
    <3>1. PICK k \in 1..(j + 1 - 1) : stdoutPipe[k] = f
      BY <2>2
    <3>2. CASE k = 1
      BY <1>6, <3>1, <3>2 DEF Passed
    <3>3. CASE k # 1
      <4>1. k - 1 \in 1..(j - 1) /\ k - 1 \in 1..(p - 1) /\ (k - 1) + 1 = k
        BY <3>3
      <4>2. stdoutPipe'[k - 1] = f
        BY <1>2, <3>1, <4>1
      <4> QED BY <4>1, <4>2 DEF Passed
    <3> QED BY <3>2, <3>3
  <2>3. (\E i \in DOMAIN Delivered : Delivered[i] = f) \/ \E k \in 1..(j + 1 - 1) : stdoutPipe[k] = f
    BY <1>6 DEF Passed
  <2> QED BY <2>1, <2>2, <2>3, Zenon
<1>7. NoneMissing'
  <2> SUFFICES ASSUME reader' # "ended", NEW j \in 1..(p - 1), NEW f \in 1..(stdoutPipe'[j] - 1),
                      written[f] # "malformed"
               PROVE  Passed(f, j)'
    BY <1>2 DEF NoneMissing
  <2>1. j + 1 \in 1..p /\ stdoutPipe'[j] = stdoutPipe[j + 1] /\ j \in 1..p
    BY <1>2
  <2>2. Passed(f, j + 1)
    BY <1>2, <2>1 DEF PipeInv, NoneMissing
  <2> QED BY <1>6, <2>1, <2>2
<1>8. AllThere'
  <2> SUFFICES ASSUME child = "running", reader' # "ended", NEW f \in 1..w, written[f] # "malformed"
               PROVE  Passed(f, p)'
    <3>1. p - 1 + 1 = p
      OBVIOUS
    <3> QED BY <1>1, <1>2, <3>1 DEF AllThere
  <2>1. Passed(f, p + 1)
    BY <1>1 DEF PipeInv, AllThere
  <2>2. p \in 1..p
    BY <1>1
  <2> QED BY <1>6, <2>1, <2>2
<1>9. HandIsGood'
  BY DEF HandIsGood
<1> QED BY <1>3, <1>5, <1>7, <1>8, <1>9 DEF PipeInv

\* The head of the pipe is the next good frame when it is a good one.
LEMMA HandedNext ==
  ASSUME PipeInv, stdoutPipe # <<>>, written[stdoutPipe[1]] = "good", reader # "ended",
         UNCHANGED written, Delivered' = Append(Delivered, stdoutPipe[1])
  PROVE  HandedInOrder'
<1> DEFINE h == stdoutPipe[1]
<1>1. Delivered \in Seq(Nat)
  BY DeliveredMoves DEF PipeInv, FramesTyped
<1>2. 1 \in DOMAIN stdoutPipe /\ h \in 1..Len(written) /\ h \in Nat /\ Len(written) \in Nat
  <2>1. 1 \in DOMAIN stdoutPipe /\ Len(written) \in Nat
    BY DEF PipeInv, FramesTyped
  <2> QED BY <2>1 DEF PipeInv, PipeInOrder
<1>3. \A i \in DOMAIN Delivered : Delivered[i] < h
  BY <1>2 DEF PipeInv, PipeInOrder
<1>4. \A f \in 1..(h - 1) : written[f] # "malformed" => \E i \in DOMAIN Delivered : Delivered[i] = f
  <2> SUFFICES ASSUME NEW f \in 1..(h - 1), written[f] # "malformed"
               PROVE  \E i \in DOMAIN Delivered : Delivered[i] = f
    OBVIOUS
  <2>1. Passed(f, 1)
    BY <1>2 DEF PipeInv, NoneMissing
  <2>2. ~ \E k \in 1..(1 - 1) : stdoutPipe[k] = f
    OBVIOUS
  <2> QED BY <2>1, <2>2 DEF Passed
<1>5. written[h] = "good"
  OBVIOUS
<1>6. PICK n \in Nat : n = Len(Delivered)
  BY <1>1
<1>7. /\ DOMAIN Delivered = 1..n /\ DOMAIN Delivered' = 1..(n + 1)
      /\ \A i \in 1..n : Delivered'[i] = Delivered[i] /\ Delivered[i] \in Nat
      /\ Delivered'[n + 1] = h
  BY <1>1, <1>2, <1>6
<1>8. GoodFrames' = GoodFrames /\ GoodFrames \subseteq 1..Len(written)
      /\ \A f \in GoodFrames : written[f] = "good" /\ \A j \in 1..f : written[j] # "oversize"
  BY DEF GoodFrames
<1> HIDE DEF h
<1>9. h \in GoodFrames
  <2> SUFFICES ASSUME NEW j \in 1..h PROVE written[j] # "oversize"
    BY <1>2, <1>5 DEF GoodFrames
  <2>1. CASE j = h
    BY <1>5, <2>1
  <2>2. CASE j # h
    <3>1. j \in 1..(h - 1)
      BY <1>2, <2>2
    <3>2. SUFFICES ASSUME written[j] = "oversize" PROVE FALSE
      OBVIOUS
    <3>3. PICK i \in DOMAIN Delivered : Delivered[i] = j
      BY <1>4, <3>1, <3>2
    <3>4. j \in GoodFrames
      BY <3>3 DEF PipeInv, HandedInOrder
    <3> QED BY <1>8, <3>2, <3>4
  <2> QED BY <2>1, <2>2
<1>10. SUFFICES ASSUME NEW i \in 1..(n + 1)
                PROVE  /\ Delivered'[i] \in GoodFrames
                       /\ \A j \in 1..(i - 1) : Delivered'[j] < Delivered'[i]
                       /\ \A f \in GoodFrames : f < Delivered'[i] => \E j \in 1..(i - 1) : Delivered'[j] = f
  BY <1>7, <1>8 DEF HandedInOrder
<1>11. \A j \in 1..(i - 1) : j \in 1..n /\ Delivered'[j] = Delivered[j]
  BY <1>7
<1>12. CASE i = n + 1
  <2>1. Delivered'[i] = h
    BY <1>7, <1>12
  <2>2. \A j \in 1..(i - 1) : Delivered'[j] < h
    BY <1>3, <1>7, <1>11
  <2>3. ASSUME NEW f \in GoodFrames, f < h PROVE \E j \in 1..(i - 1) : Delivered'[j] = f
    <3>1. f \in 1..(h - 1) /\ written[f] # "malformed"
      BY <1>2, <1>8, <2>3
    <3>2. PICK j \in 1..n : Delivered[j] = f
      BY <1>4, <1>7, <3>1
    <3>3. j \in 1..(i - 1)
      BY <1>12
    <3> QED BY <1>7, <3>2, <3>3
  <2> QED BY <1>9, <2>1, <2>2, <2>3
<1>13. CASE i \in 1..n
  <2>1. Delivered'[i] = Delivered[i] /\ i \in DOMAIN Delivered
    BY <1>7, <1>13
  <2> QED BY <1>11, <2>1 DEF PipeInv, HandedInOrder
<1>14. i = n + 1 \/ i \in 1..n
  OBVIOUS
<1> QED BY <1>12, <1>13, <1>14, Zenon

LEMMA PipeOfReader ==
  ASSUME PipeInv, ReaderStep
  PROVE  PipeInv'
<1>1. UNCHANGED <<child, written, receivedMsgs>> /\ FramesTyped /\ reader # "ended"
      /\ recvCh \in Seq(Nat) /\ receivedMsgs \in Seq(Nat) /\ stdoutPipe \in Seq(Nat)
  BY DEF ReaderStep, ReadFrame, HandFrame, ReadEnds, PipeInv, FramesTyped
<1>2. ASSUME UNCHANGED <<recvCh, stdoutPipe>>, reader' \in {"hand", "ended"},
             reader' = "hand" => stdoutPipe # <<>> /\ written[stdoutPipe[1]] = "good"
      PROVE  PipeInv'
  <2>1. Delivered' = Delivered /\ GoodFrames' = GoodFrames
    BY <1>1, <1>2 DEF Delivered, GoodFrames
  <2>2. \A f, j : Passed(f, j)' <=> Passed(f, j)
    BY <1>2, <2>1 DEF Passed
  <2> QED BY <1>1, <1>2, <2>1, <2>2
          DEF PipeInv, FramesTyped, HandedInOrder, PipeInOrder, NoneMissing, AllThere, HandIsGood
<1>3. ASSUME stdoutPipe # <<>>, stdoutPipe' = Tail(stdoutPipe), UNCHANGED recvCh,
             \/ reader' = "read" /\ written[stdoutPipe[1]] = "malformed"
             \/ reader' = "ended"
      PROVE  PipeInv'
  <2>1. Delivered' = Delivered /\ GoodFrames' = GoodFrames
    BY <1>1, <1>3 DEF Delivered, GoodFrames
  <2>2. HandedInOrder'
    BY <2>1 DEF PipeInv, HandedInOrder
  <2>3. recvCh' \in Seq(Nat) /\ receivedMsgs' \in Seq(Nat)
    BY <1>1, <1>3
  <2> QED BY <1>1, <1>3, <2>1, <2>2, <2>3, HeadLeaves
<1>4. CASE ReadFrame
  <2>1. stdoutPipe # <<>> /\ UNCHANGED recvCh /\ Head(stdoutPipe) = stdoutPipe[1] /\ reader = "read"
    BY <1>1, <1>4 DEF ReadFrame
  <2>2. \/ written[stdoutPipe[1]] = "good" /\ reader' = "hand" /\ UNCHANGED stdoutPipe
        \/ written[stdoutPipe[1]] = "malformed" /\ stdoutPipe' = Tail(stdoutPipe) /\ UNCHANGED reader
        \/ reader' = "ended" /\ UNCHANGED stdoutPipe
    BY <1>4, <2>1 DEF ReadFrame
  <2> QED BY <1>2, <1>3, <2>1, <2>2
<1>5. CASE HandFrame
  <2>1. stdoutPipe # <<>> /\ written[stdoutPipe[1]] = "good" /\ stdoutPipe' = Tail(stdoutPipe)
    BY <1>5 DEF HandFrame, PipeInv, HandIsGood
  <2>2. CASE reader' = "ended" /\ UNCHANGED recvCh
    BY <1>3, <2>1, <2>2
  <2>3. CASE recvCh' = Append(recvCh, Head(stdoutPipe)) /\ reader' = "read"
    <3>1. Head(stdoutPipe) = stdoutPipe[1] /\ stdoutPipe[1] \in Nat
      BY <1>1, <2>1
    <3>2. Delivered \in Seq(Nat) /\ Delivered' = Append(Delivered, stdoutPipe[1])
      BY <1>1, <2>3, <3>1, DeliveredMoves
    <3>3. HandedInOrder'
      BY <1>1, <2>1, <3>2, HandedNext
    <3>4. recvCh' \in Seq(Nat) /\ receivedMsgs' \in Seq(Nat)
      BY <1>1, <2>3, <3>1
    <3>5. \A i \in DOMAIN Delivered' : \/ Delivered'[i] = stdoutPipe[1]
                                       \/ \E k \in DOMAIN Delivered : Delivered[k] = Delivered'[i]
      BY <3>1, <3>2
    <3>6. \A i \in DOMAIN Delivered : \E k \in DOMAIN Delivered' : Delivered'[k] = Delivered[i]
      BY <3>1, <3>2
    <3>7. \E k \in DOMAIN Delivered' : Delivered'[k] = stdoutPipe[1]
      <4>1. Len(Delivered) + 1 \in DOMAIN Delivered' /\ Delivered'[Len(Delivered) + 1] = stdoutPipe[1]
        BY <3>1, <3>2
      <4> QED BY <4>1
    <3> QED BY <1>1, <2>1, <2>3, <3>3, <3>4, <3>5, <3>6, <3>7, HeadLeaves
  <2> QED BY <1>5, <2>2, <2>3 DEF HandFrame
<1>6. CASE ReadEnds
  BY <1>2, <1>6 DEF ReadEnds
<1> QED BY <1>4, <1>5, <1>6 DEF ReaderStep

\* Wait closes our end of the pipe: what the reader has not buffered is gone from the end.
LEMMA PipeOfWait ==
  ASSUME PipeInv, WaitReaps
  PROVE  PipeInv'
<1>1. UNCHANGED <<child, written, recvCh, receivedMsgs, reader>> /\ child # "running"
  BY DEF WaitReaps
<1>2. PICK p \in Nat : p = Len(stdoutPipe) /\ stdoutPipe \in Seq(Nat) /\ DOMAIN stdoutPipe = 1..p
  BY DEF PipeInv, FramesTyped
<1>3. PICK n \in Nat : n <= p /\ (reader = "hand" => n # 0) /\ stdoutPipe' = SubSeq(stdoutPipe, 1, n)
  BY <1>2 DEF WaitReaps
<1>4. /\ stdoutPipe' \in Seq(Nat) /\ Len(stdoutPipe') = n /\ DOMAIN stdoutPipe' = 1..n
      /\ \A k \in 1..n : stdoutPipe'[k] = stdoutPipe[k]
  BY <1>2, <1>3
<1>5. Delivered' = Delivered /\ GoodFrames' = GoodFrames
  BY <1>1 DEF Delivered, GoodFrames
<1>6. \A k \in 1..n : k \in 1..p /\ \A i \in 1..(k - 1) : i \in 1..n
  BY <1>3
<1>7. \A f : \A j \in 1..n : Passed(f, j) => Passed(f, j)'
  BY <1>4, <1>5, <1>6 DEF Passed
<1>8. PipeInOrder'
  BY <1>1, <1>2, <1>4, <1>5, <1>6 DEF PipeInv, PipeInOrder
<1>9. NoneMissing'
  <2> SUFFICES ASSUME reader # "ended", NEW j \in 1..n, NEW f \in 1..(stdoutPipe'[j] - 1),
                      written[f] # "malformed"
               PROVE  Passed(f, j)'
    BY <1>1, <1>4 DEF NoneMissing
  <2>1. stdoutPipe'[j] = stdoutPipe[j] /\ j \in 1..p
    BY <1>4, <1>6
  <2>2. Passed(f, j)
    BY <1>2, <2>1 DEF PipeInv, NoneMissing
  <2> QED BY <1>7, <2>2
<1>10. HandIsGood'
  <2> SUFFICES ASSUME reader = "hand" PROVE stdoutPipe' # <<>> /\ written[stdoutPipe'[1]] = "good"
    BY <1>1 DEF HandIsGood
  <2>1. 1 \in 1..n
    BY <1>3
  <2>2. stdoutPipe' # <<>>
    BY <1>4, <2>1
  <2> QED BY <1>4, <2>1, <2>2 DEF PipeInv, HandIsGood
<1>11. FramesTyped' /\ HandedInOrder' /\ AllThere'
  BY <1>1, <1>4, <1>5 DEF PipeInv, FramesTyped, HandedInOrder, AllThere
<1> QED BY <1>8, <1>9, <1>10, <1>11 DEF PipeInv

LEMMA TransportInvHolds == TransportSpec => [](PipeInv /\ ExitInv)
<1>1. TransportInit => PipeInv /\ ExitInv
  <2> SUFFICES ASSUME TransportInit PROVE PipeInv /\ ExitInv
    OBVIOUS
  <2>1. written = <<>> /\ stdoutPipe = <<>> /\ recvCh = <<>> /\ receivedMsgs = <<>> /\ reader = "read"
    BY DEF TransportInit
  <2>2. Delivered = <<>>
    BY <2>1 DEF Delivered
  <2>3. PipeInv
    BY <2>1, <2>2 DEF PipeInv, FramesTyped, HandedInOrder, PipeInOrder, NoneMissing, AllThere, HandIsGood
  <2>4. ExitInv
    BY DEF TransportInit, ExitInv, CloseResult
  <2> QED BY <2>3, <2>4
<1>2. PipeInv /\ ExitInv /\ [TransportNext]_transportVars => PipeInv' /\ ExitInv'
  <2> SUFFICES ASSUME PipeInv, ExitInv, [TransportNext]_transportVars PROVE PipeInv' /\ ExitInv'
    OBVIOUS
  <2>0. closeErr \in CloseResult
        /\ (closeErr = "plain" \/ panicked => \E i \in DOMAIN written : written[i] = "oversize")
    BY DEF ExitInv
  <2>1. ASSUME NEW kind \in FrameKind, ChildWrites(kind) PROVE PipeInv' /\ ExitInv'
    <3>1. UNCHANGED <<child, exitCh, waiter, closePc, closedCh, killedByClose, errVars>>
          /\ written' = Append(written, kind)
      BY <2>1 DEF ChildWrites
    <3>2. \A i \in DOMAIN written : i \in DOMAIN written' /\ written'[i] = written[i]
      BY <3>1 DEF PipeInv, FramesTyped
    <3>3. closeErr' = "plain" \/ panicked' => \E i \in DOMAIN written' : written'[i] = "oversize"
      BY <2>0, <3>1, <3>2 DEF errVars
    <3> QED BY <2>0, <2>1, <3>1, <3>3, PipeOfChild, ExitKept DEF errVars
  <2>2. ASSUME NEW how \in {"clean", "failed"}, ChildExits(how) PROVE PipeInv' /\ ExitInv'
    BY <2>0, <2>2, PipeKept, ExitKept DEF ChildExits, readVars, errVars
  <2>3. ASSUME NEW s \in Senders, SendStart(s) \/ SendSelect(s) PROVE PipeInv' /\ ExitInv'
    BY <2>0, <2>3, PipeKept, ExitKept DEF SendStart, SendSelect, readVars, errVars
  <2>4. CASE ReceiveFrame
    <3>1. ExitInv'
      BY <2>0, <2>4, ExitKept DEF ReceiveFrame, errVars
    <3> QED BY <2>4, <3>1, PipeOfReceive
  <2>5. ASSUME NEW c \in Closers, CloseStart(c) \/ CloseStep(c) PROVE PipeInv' /\ ExitInv'
    <3>1. UNCHANGED readVars /\ (child' = "running" => child = "running")
      BY <2>5 DEF CloseStart, CloseStep, CloseKills, CloseSeesExit, CloseLoads
    <3> QED BY <2>5, <3>1, PipeKept, ExitOfClose
  <2>6. CASE ReaderStep
    <3>1. UNCHANGED <<child, written, exitCh, waiter, closePc, closedCh, killedByClose>>
      BY <2>6 DEF ReaderStep, ReadFrame, HandFrame, ReadEnds
    <3>2. UNCHANGED errVars \/ (StoreErr("plain") /\ \E i \in DOMAIN written : written[i] = "oversize")
      <4>1. CASE ReadFrame
        <5>1. Head(stdoutPipe) \in DOMAIN written
          BY <4>1 DEF ReadFrame, PipeInv, PipeInOrder, FramesTyped
        <5> QED BY <4>1, <5>1 DEF ReadFrame
      <4>2. CASE HandFrame \/ ReadEnds
        BY <4>2 DEF HandFrame, ReadEnds
      <4> QED BY <2>6, <4>1, <4>2 DEF ReaderStep
    <3>3. /\ closeErr' \in CloseResult /\ (closeErr # "none" => closeErr' = closeErr)
          /\ closeErr' = "plain" \/ panicked' => \E i \in DOMAIN written : written[i] = "oversize"
      BY <2>0, <3>2, ErrStored DEF errVars
    <3> QED BY <2>6, <3>1, <3>3, PipeOfReader, ExitKept
  <2>7. CASE WriterStep
    <3>1. UNCHANGED <<child, readVars>>
      BY <2>7 DEF WriterStep, WriterSelect, WriterWrite
    <3> QED BY <2>7, <3>1, PipeKept, ExitOfWriter
  <2>8. CASE WaiterStep
    <3>1. CASE WaitReaps
      BY <2>8, <3>1, PipeOfWait, ExitOfWait
    <3>2. CASE WaitStores \/ WaitSignals \/ WaitOnce
      <4>1. UNCHANGED <<child, readVars>>
        BY <3>2 DEF WaitStores, WaitSignals, WaitOnce
      <4> QED BY <2>8, <4>1, PipeKept, ExitOfWait
    <3> QED BY <2>8, <3>1, <3>2 DEF WaiterStep
  <2>9. CASE UNCHANGED transportVars
    BY <2>0, <2>9, PipeKept, ExitKept DEF transportVars, readVars
  <2> QED BY <2>1, <2>2, <2>3, <2>4, <2>5, <2>6, <2>7, <2>8, <2>9 DEF TransportNext
<1> QED BY <1>1, <1>2, PTL DEF TransportSpec

\* Frames are received in order, once and without a gap before the last, and nothing after
\* an oversize frame; a Close that returns leaves no child behind, has not missed the
\* error of a child that failed by itself, and an error it returned stays the kind a later
\* Close returns; and the error value panics only after an oversize frame: for any number of closers, senders and frames
\* (subprocess/openclaude_session.go:114-256).
THEOREM TransportCorrect == TransportSpec => []TransportSound
<1>1. PipeInv /\ ExitInv => TransportSound
  <2> SUFFICES ASSUME PipeInv, ExitInv PROVE TransportSound
    OBVIOUS
  <2>1. \A c \in Closers : Returned(c) =>
            /\ child # "running" /\ exitCh
            /\ closePc[c] = "none" /\ child = "failed" => killedByClose
            /\ closePc[c] \in {"none", closeErr}
    BY DEF ExitInv, Returned
  <2>2. panicked => "oversize" \in Range(written)
    BY DEF ExitInv, Range
  <2>3. HandedInOrder
    BY DEF PipeInv
  <2> QED BY <2>1, <2>2, <2>3 DEF TransportSound, HandedInOrder
<1> QED BY <1>1, TransportInvHolds, PTL

-----------------------------------------------------------------------------
(* RecoveryReplay                                                          *)

LogRow == [kind : EventKind, worker : Worker \cup {None}, task : Task \cup {None},
           ts : Nat \ {0}, of : Task \cup {None}, src : Nat, id : Nat, ok : BOOLEAN]
Assignment == [task : Task \cup {None}, row : 0..MaxEvents]

\* Row k dispatches something to worker w, and says so.
Gives(k, w) == events[k].kind = "dispatched" /\ events[k].worker = w

ReplayShape ==
    /\ named \in BOOLEAN
    /\ events \in Seq(LogRow) /\ Len(events) <= MaxEvents
    /\ eventId \in 0..MaxEvents /\ lost \in 0..MaxLost
    /\ running \in [Worker -> Assignment]
    /\ sweep \in [at : {"idle", "death", "handle"}, now : Nat, w : Worker \cup {None}, t : Task \cup {None}]

\* Times follow the order of the log, but those of deaths, which may be older.
RowsTimed ==
    \A i \in 1..Len(events) :
        IF events[i].kind = "death" THEN events[i].ts < 2 * i ELSE events[i].ts = 2 * i

DispatchesNamed ==
    \A i \in 1..Len(events) : events[i].kind = "dispatched" =>
        IF named THEN events[i].worker \in Worker /\ events[i].task \in Task /\ events[i].of = events[i].task
                 ELSE events[i].worker = None /\ events[i].task = None

\* A completion whose dispatch is on record is of what that gave, the last of its worker,
\* and has a later id: both were written in one life of the daemon.
CompletionsGiven ==
    \A j \in 1..Len(events) : events[j].kind = "checkpoint" =>
        /\ events[j].task = None /\ events[j].worker \in Worker /\ events[j].src < j
        /\ named /\ events[j].src # 0 =>
              /\ Gives(events[j].src, events[j].worker) /\ events[events[j].src].of = events[j].of
              /\ events[events[j].src].id < events[j].id
              /\ \A k \in 1..(j - 1) : Gives(k, events[j].worker) => k <= events[j].src

\* A death that names no task came before any dispatch of its worker that can be decoded,
\* and without names every death names none.
DeathsAssigned ==
    \A i \in 1..Len(events) : events[i].kind = "death" =>
        /\ events[i].of = events[i].task /\ events[i].worker \in Worker
        /\ ~named => events[i].task = None
        /\ events[i].task = None => \A k \in 1..(i - 1) : ~(Gives(k, events[i].worker) /\ events[k].ok)

\* A worker runs what its last dispatch gave it, if that is on record.
RunningGiven ==
    \A w \in Worker : running[w].row # 0 =>
        /\ running[w].row \in 1..Len(events)
        /\ named => /\ Gives(running[w].row, w) /\ events[running[w].row].of = running[w].task
                    /\ events[running[w].row].id <= eventId
                    /\ \A k \in 1..Len(events) : Gives(k, w) => k <= running[w].row

\* Ids start at 1.
IdsTaken == \A i \in 1..Len(events) : events[i].id \in 1..MaxEvents

\* A sweep has read the clock before the next row.
SweepBehind ==
    sweep.at # "idle" => sweep.now \in 1..(2 * Len(events) + 1) /\ sweep.w \in Worker

ReplayInv ==
    ReplayShape /\ RowsTimed /\ DispatchesNamed /\ CompletionsGiven /\ DeathsAssigned /\ RunningGiven
    /\ IdsTaken /\ SweepBehind

LEMMA RowsAre ==
  ASSUME ReplayShape
  PROVE  /\ DOMAIN events = 1..Len(events) /\ Len(events) \in Nat
         /\ \A i \in 1..Len(events) : events[i] \in LogRow
BY DEF ReplayShape

LEMMA RowFields ==
  \A r \in LogRow : /\ r.kind \in EventKind /\ r.worker \in Worker \cup {None} /\ r.task \in Task \cup {None}
                    /\ r.ts \in Nat \ {0} /\ r.of \in Task \cup {None} /\ r.ok \in BOOLEAN
                    /\ r.src \in Nat /\ r.id \in Nat
BY DEF LogRow

LEMMA RowAppended ==
  ASSUME ReplayShape, NEW r \in LogRow, events' = Append(events, r)
  PROVE  /\ events' \in Seq(LogRow) /\ Len(events') = Len(events) + 1 /\ Len(events) \in Nat
         /\ events'[Len(events) + 1] = r
         /\ \A i \in 1..Len(events) : events'[i] = events[i] /\ i \in 1..(Len(events) + 1)
         /\ \A i \in 1..(Len(events) + 1) : i \in 1..Len(events) \/ i = Len(events) + 1
<1>1. events \in Seq(LogRow) /\ Len(events) \in Nat
  BY DEF ReplayShape
<1>2. /\ Append(events, r) \in Seq(LogRow) /\ Len(Append(events, r)) = Len(events) + 1
      /\ Append(events, r)[Len(events) + 1] = r
      /\ \A i \in 1..Len(events) : Append(events, r)[i] = events[i]
  BY <1>1
<1> QED BY <1>1, <1>2

\* What a new row has to satisfy.
RowFits(r) ==
    LET n == Len(events) + 1 IN
    /\ r.id \in 1..MaxEvents
    /\ IF r.kind = "death" THEN r.ts < 2 * n ELSE r.ts = 2 * n
    /\ r.kind = "dispatched" =>
         IF named THEN r.worker \in Worker /\ r.task \in Task /\ r.of = r.task
                  ELSE r.worker = None /\ r.task = None
    /\ r.kind = "checkpoint" =>
         /\ r.task = None /\ r.worker \in Worker /\ r.src \in 0..Len(events)
         /\ named /\ r.src # 0 =>
               /\ Gives(r.src, r.worker) /\ events[r.src].of = r.of /\ events[r.src].id < r.id
               /\ \A k \in 1..Len(events) : Gives(k, r.worker) => k <= r.src
    /\ r.kind = "death" =>
         /\ r.of = r.task /\ r.worker \in Worker
         /\ ~named => r.task = None
         /\ r.task = None => \A k \in 1..Len(events) : ~(Gives(k, r.worker) /\ events[k].ok)

LEMMA RowKeeps ==
  ASSUME ReplayInv, NEW r \in LogRow, events' = Append(events, r), Len(events) < MaxEvents, named' = named,
         RowFits(r)
  PROVE  /\ events' \in Seq(LogRow) /\ Len(events') <= MaxEvents /\ Len(events') = Len(events) + 1
         /\ RowsTimed' /\ DispatchesNamed' /\ CompletionsGiven' /\ DeathsAssigned' /\ IdsTaken'
         /\ \A k \in 1..Len(events) : \A w : Gives(k, w)' <=> Gives(k, w)
         /\ \A k, w : k = Len(events) + 1 => (Gives(k, w)' <=> r.kind = "dispatched" /\ r.worker = w)
         /\ events'[Len(events) + 1] = r /\ \A k \in 1..Len(events) : events'[k] = events[k]
<1>1. PICK n : n = Len(events)
  OBVIOUS
<1>2. /\ events' \in Seq(LogRow) /\ Len(events') = n + 1 /\ n \in Nat /\ events'[n + 1] = r
      /\ \A i \in 1..n : events'[i] = events[i] /\ i \in 1..(n + 1)
      /\ \A i \in 1..(n + 1) : i \in 1..n \/ i = n + 1
  BY <1>1, RowAppended DEF ReplayInv
<1>3. MaxEvents \in Nat
  BY ReplayAssumption
<1>4. \A k \in 1..n : \A w : Gives(k, w)' <=> Gives(k, w)
  BY <1>2 DEF Gives
<1>5. \A k, w : k = n + 1 => (Gives(k, w)' <=> r.kind = "dispatched" /\ r.worker = w)
  BY <1>2 DEF Gives
<1>6. RowsTimed'
  <2> SUFFICES ASSUME NEW i \in 1..(n + 1)
               PROVE  IF events'[i].kind = "death" THEN events'[i].ts < 2 * i ELSE events'[i].ts = 2 * i
    BY <1>2 DEF RowsTimed
  <2>1. CASE i \in 1..n
    BY <1>1, <1>2, <2>1 DEF ReplayInv, RowsTimed
  <2>2. CASE i = n + 1
    BY <1>1, <1>2, <2>2 DEF RowFits
  <2> QED BY <1>2, <2>1, <2>2
<1>7. DispatchesNamed'
  <2> SUFFICES ASSUME NEW i \in 1..(n + 1), events'[i].kind = "dispatched"
               PROVE  IF named THEN events'[i].worker \in Worker /\ events'[i].task \in Task /\ events'[i].of = events'[i].task
                               ELSE events'[i].worker = None /\ events'[i].task = None
    BY <1>2 DEF DispatchesNamed
  <2>1. CASE i \in 1..n
    BY <1>1, <1>2, <2>1 DEF ReplayInv, DispatchesNamed
  <2>2. CASE i = n + 1
    BY <1>1, <1>2, <2>2 DEF RowFits
  <2> QED BY <1>2, <2>1, <2>2
<1>8. CompletionsGiven'
  <2> SUFFICES ASSUME NEW j \in 1..(n + 1), events'[j].kind = "checkpoint"
               PROVE  /\ events'[j].task = None /\ events'[j].worker \in Worker /\ events'[j].src < j
                      /\ named /\ events'[j].src # 0 =>
                            /\ Gives(events[j].src, events[j].worker)'
                            /\ events'[events'[j].src].of = events'[j].of
                            /\ events'[events'[j].src].id < events'[j].id
                            /\ \A k \in 1..(j - 1) : Gives(k, events[j].worker)' => k <= events'[j].src
    BY <1>2 DEF CompletionsGiven
  <2>0. PICK e, d : e = events'[j] /\ d = e.src
    OBVIOUS
  <2>1. Gives(events[j].src, events[j].worker)' <=> Gives(d, e.worker)'
    BY <2>0 DEF Gives
  <2>2. /\ d \in Nat /\ e.worker \in Worker /\ e.task = None /\ d < j
        /\ named /\ d # 0 => /\ d \in 1..n /\ Gives(d, e.worker) /\ events[d].of = e.of /\ events[d].id < e.id
                            /\ \A k \in 1..(j - 1) : k \in 1..n /\ (Gives(k, e.worker) => k <= d)
    <3>1. CASE j \in 1..n
      <4>1. e = events[j] /\ e.kind = "checkpoint" /\ e \in LogRow
        BY <1>1, <1>2, <2>0, <3>1, RowsAre DEF ReplayInv
      <4>2. d \in Nat
        BY <2>0, <4>1, RowFields
      <4>3. /\ e.task = None /\ e.worker \in Worker /\ d < j
            /\ named /\ d # 0 =>
                  /\ Gives(d, e.worker) /\ events[d].of = e.of /\ events[d].id < e.id
                  /\ \A k \in 1..(j - 1) : Gives(k, e.worker) => k <= d
        BY <1>1, <2>0, <3>1, <4>1 DEF ReplayInv, CompletionsGiven
      <4> QED BY <1>2, <3>1, <4>2, <4>3
    <3>2. CASE j = n + 1
      <4>1. e = r /\ r.kind = "checkpoint" /\ j - 1 = n
        BY <1>2, <2>0, <3>2
      <4> QED BY <1>1, <1>2, <2>0, <3>2, <4>1 DEF RowFits
    <3> QED BY <1>2, <3>1, <3>2
  <2>3. ASSUME named, d # 0
        PROVE  /\ Gives(d, e.worker)' /\ events'[d].of = e.of /\ events'[d].id < e.id
               /\ \A k \in 1..(j - 1) : Gives(k, e.worker)' => k <= d
    <3>1. events'[d] = events[d]
      BY <1>2, <2>2, <2>3
    <3> QED BY <1>4, <2>2, <2>3, <3>1
  <2>4. \A k \in 1..(j - 1) : Gives(k, events[j].worker)' <=> Gives(k, e.worker)'
    BY <2>0 DEF Gives
  <2> QED BY <2>0, <2>1, <2>2, <2>3, <2>4
<1>9. DeathsAssigned'
  <2> SUFFICES ASSUME NEW i \in 1..(n + 1), events'[i].kind = "death"
               PROVE  /\ events'[i].of = events'[i].task /\ events'[i].worker \in Worker
                      /\ ~named => events'[i].task = None
                      /\ events'[i].task = None =>
                            \A k \in 1..(i - 1) : ~(Gives(k, events[i].worker)' /\ events'[k].ok)
    BY <1>2 DEF DeathsAssigned
  <2>1. CASE i \in 1..n
    <3>1. \A d \in 1..(i - 1) : d \in 1..n
      BY <1>2, <2>1
    <3>2. events'[i] = events[i] /\ events[i].kind = "death"
      BY <1>2, <2>1
    <3>3. /\ events[i].of = events[i].task /\ events[i].worker \in Worker
          /\ ~named => events[i].task = None
          /\ events[i].task = None => \A k \in 1..(i - 1) : ~(Gives(k, events[i].worker) /\ events[k].ok)
      BY <1>1, <2>1, <3>2 DEF ReplayInv, DeathsAssigned
    <3> QED BY <1>2, <1>4, <3>1, <3>2, <3>3
  <2>2. CASE i = n + 1
    <3>1. i - 1 = n /\ events'[i] = r /\ r.kind = "death"
      BY <1>2, <2>2
    <3>2. /\ r.of = r.task /\ r.worker \in Worker
          /\ ~named => r.task = None
          /\ r.task = None => \A k \in 1..n : ~(Gives(k, r.worker) /\ events[k].ok)
      BY <1>1, <3>1 DEF RowFits
    <3> QED BY <1>2, <1>4, <3>1, <3>2
  <2> QED BY <1>2, <2>1, <2>2
<1>10. Len(events') <= MaxEvents
  <2>1. n < MaxEvents
    BY <1>1
  <2>2. n + 1 <= MaxEvents
    BY <1>2, <1>3, <2>1
  <2> QED BY <1>2, <2>2
<1>11. IdsTaken'
  <2> SUFFICES ASSUME NEW i \in 1..(n + 1) PROVE events'[i].id \in 1..MaxEvents
    BY <1>2 DEF IdsTaken
  <2>1. CASE i \in 1..n
    BY <1>1, <1>2, <2>1 DEF ReplayInv, IdsTaken
  <2>2. CASE i = n + 1
    BY <1>1, <1>2, <2>2 DEF RowFits
  <2> QED BY <1>2, <2>1, <2>2
<1> QED BY <1>1, <1>2, <1>4, <1>5, <1>6, <1>7, <1>8, <1>9, <1>10, <1>11

\* A row that dispatches nothing leaves the workers to what they run.
LEMMA RunningStays ==
  ASSUME ReplayInv, named' = named, Len(events') >= Len(events), Len(events') \in Nat, eventId' \in Nat,
         \A k \in 1..Len(events) : events'[k] = events[k],
         \A k \in 1..Len(events') : \A w : k \notin 1..Len(events) => ~Gives(k, w)',
         \A w \in Worker : running'[w].row = 0 \/ (running'[w] = running[w] /\ eventId' >= eventId)
  PROVE  RunningGiven'
<1> SUFFICES ASSUME NEW w \in Worker, running'[w].row # 0
             PROVE  /\ running'[w].row \in 1..Len(events')
                    /\ named => /\ Gives(running[w].row, w)' /\ events'[running'[w].row].of = running'[w].task
                                /\ events'[running'[w].row].id <= eventId'
                                /\ \A k \in 1..Len(events') : Gives(k, w)' => k <= running'[w].row
  BY DEF RunningGiven
<1>1. PICK m : m = running[w].row
  OBVIOUS
<1>2. running'[w] = running[w] /\ eventId' >= eventId /\ m # 0
  BY <1>1
<1>3. /\ m \in 1..Len(events) /\ Len(events) \in Nat /\ eventId \in Nat /\ events[m].id \in Nat
      /\ named => /\ Gives(m, w) /\ events[m].of = running[w].task /\ events[m].id <= eventId
                  /\ \A k \in 1..Len(events) : Gives(k, w) => k <= m
  <2>1. /\ m \in 1..Len(events) /\ Len(events) \in Nat
        /\ named => /\ Gives(m, w) /\ events[m].of = running[w].task /\ events[m].id <= eventId
                    /\ \A k \in 1..Len(events) : Gives(k, w) => k <= m
    BY <1>1, <1>2, RowsAre DEF ReplayInv, RunningGiven
  <2>2. events[m].id \in Nat /\ eventId \in Nat
    BY <2>1, RowsAre, RowFields, ReplayAssumption DEF ReplayInv, ReplayShape
  <2> QED BY <2>1, <2>2
<1>4. \A k \in 1..Len(events) : \A v : Gives(k, v)' <=> Gives(k, v)
  BY DEF Gives
<1>5. Gives(running[w].row, w)' <=> Gives(m, w)'
  BY <1>1, <1>2 DEF Gives
<1>6. events'[m] = events[m] /\ m \in 1..Len(events') /\ running'[w].row = m
  BY <1>1, <1>2, <1>3
<1>7. named => \A k \in 1..Len(events') : Gives(k, w)' => k <= m
  BY <1>3, <1>4
<1> QED BY <1>2, <1>3, <1>4, <1>5, <1>6, <1>7

\* Of some rows one is read last.
LEMMA ReadLast ==
  ASSUME ReplayInv, NEW S, S \subseteq 1..Len(events), S # {}
  PROVE  \E i \in S : S \subseteq ReadBefore(i)
<1>1. /\ Len(events) \in Nat /\ DOMAIN events = 1..Len(events)
      /\ \A k \in S : events[k].id \in 1..MaxEvents
  <2>1. \A k \in 1..Len(events) : events[k].id \in 1..MaxEvents
    BY DEF ReplayInv, IdsTaken
  <2> QED BY <2>1, RowsAre DEF ReplayInv
<1> DEFINE ids == {events[k].id : k \in S}
<1>2. ids \subseteq 1..MaxEvents /\ ids # {} /\ MaxEvents \in Nat
  BY <1>1, ReplayAssumption
<1>3. \A k \in S : events[k].id \in ids
  OBVIOUS
<1>4. \A x \in ids : \E k \in S : events[k].id = x
  OBVIOUS
<1> HIDE DEF ids
<1>5. PICK m \in ids : \A x \in ids : x <= m
  BY <1>2, LargestOf, Zenon
<1> DEFINE top == {k \in S : events[k].id = m}
<1>6. top \subseteq 1..Len(events) /\ top # {} /\ top \subseteq S
  BY <1>4
<1>7. \A k \in S : k \in top \/ events[k].id < m
  BY <1>1, <1>2, <1>3, <1>5
<1>8. \A k \in top : events[k].id = m
  OBVIOUS
<1> HIDE DEF top
<1>9. PICK i \in top : \A k \in top : k <= i
  BY <1>1, <1>6, LargestOf, Zenon
<1>10. \A k \in S : k \in ReadBefore(i)
  BY <1>1, <1>6, <1>7, <1>8, <1>9 DEF ReadBefore
<1> QED BY <1>6, <1>10

\* The worker's last assignment is missing only when no dispatch of it can be decoded.
LEMMA LastAssigned ==
  ASSUME ReplayInv, NEW w \in Worker
  PROVE  /\ LastAssignmentFor(w) \in Task \cup {None}
         /\ ~named => LastAssignmentFor(w) = None
         /\ LastAssignmentFor(w) = None => \A k \in 1..Len(events) : ~(Gives(k, w) /\ events[k].ok)
<1> DEFINE rows == {i \in Rows("dispatched") : events[i].worker = w}
<1>1. /\ DOMAIN events = 1..Len(events) /\ Len(events) \in Nat
      /\ \A k : k \in rows <=> k \in 1..Len(events) /\ events[k].ok /\ Gives(k, w)
  BY RowsAre DEF ReplayInv, Rows, Gives
<1>2. LastAssignmentFor(w) =
         IF rows = {} THEN None ELSE events[CHOOSE i \in rows : rows \subseteq ReadBefore(i)].task
  BY DEF LastAssignmentFor
<1> HIDE DEF rows
<1>3. CASE rows = {}
  BY <1>1, <1>2, <1>3
<1>4. CASE rows # {}
  <2>1. rows \subseteq 1..Len(events)
    BY <1>1
  <2>2. \E i \in rows : rows \subseteq ReadBefore(i)
    BY <1>1, <1>4, <2>1, ReadLast
  <2>3. PICK m : m = CHOOSE i \in rows : rows \subseteq ReadBefore(i)
    OBVIOUS
  <2>4. m \in rows
    BY <2>2, <2>3
  <2>5. m \in 1..Len(events) /\ Gives(m, w)
    BY <1>1, <2>4
  <2>6. named /\ events[m].task \in Task
    BY <2>5, ReplayAssumption DEF ReplayInv, DispatchesNamed, Gives
  <2>7. LastAssignmentFor(w) = events[m].task
    BY <1>2, <1>4, <2>3
  <2> QED BY <2>6, <2>7, ReplayAssumption
<1> QED BY <1>3, <1>4


\* What an append does, whether the row is inserted or lost.
LEMMA RowAdded ==
  ASSUME ReplayShape, NEW kind, NEW w, NEW t, NEW ts, NEW of, NEW src, AddRow(kind, w, t, ts, of, src)
  PROVE  /\ Len(events) < MaxEvents /\ eventId' = eventId + 1 /\ eventId' \in 1..MaxEvents
         /\ eventId \in Nat /\ lost' \in 0..MaxLost
         /\ \/ UNCHANGED events
            \/ \E ok \in BOOLEAN :
                  events' = Append(events, [kind |-> kind, worker |-> w, task |-> t, ts |-> ts, of |-> of,
                                            src |-> src, id |-> eventId + 1, ok |-> ok])
<1>1. eventId \in 0..MaxEvents /\ lost \in 0..MaxLost /\ MaxEvents \in Nat /\ MaxLost \in Nat
  BY ReplayAssumption DEF ReplayShape
<1>2. /\ Len(events) < MaxEvents /\ eventId < MaxEvents /\ eventId' = eventId + 1
      /\ (lost < MaxLost /\ lost' = lost + 1) \/ lost' = lost
  BY DEF AddRow
<1>3. \/ UNCHANGED events
      \/ \E ok \in BOOLEAN :
            events' = Append(events, [kind |-> kind, worker |-> w, task |-> t, ts |-> ts, of |-> of,
                                      src |-> src, id |-> eventId + 1, ok |-> ok])
  BY DEF AddRow
<1>4. eventId' \in 1..MaxEvents /\ eventId \in Nat
  BY <1>1, <1>2
<1>5. lost' \in 0..MaxLost
  BY <1>1, <1>2
<1> QED BY <1>2, <1>3, <1>4, <1>5, Zenon

\* A row that dispatches nothing.
LEMMA OtherRowKeeps ==
  ASSUME ReplayInv, NEW r \in LogRow, events' = Append(events, r), Len(events) < MaxEvents, named' = named,
         RowFits(r), r.kind # "dispatched", eventId' \in 0..MaxEvents, lost' \in 0..MaxLost,
         running' \in [Worker -> Assignment],
         \A w \in Worker : running'[w].row = 0 \/ (running'[w] = running[w] /\ eventId' >= eventId),
         sweep' \in [at : {"idle", "death", "handle"}, now : Nat, w : Worker \cup {None}, t : Task \cup {None}],
         sweep'.at # "idle" => sweep'.now = sweep.now /\ sweep'.w = sweep.w /\ sweep.at # "idle"
  PROVE  ReplayInv'
<1>1. /\ events' \in Seq(LogRow) /\ Len(events') <= MaxEvents /\ Len(events') = Len(events) + 1
      /\ RowsTimed' /\ DispatchesNamed' /\ CompletionsGiven' /\ DeathsAssigned' /\ IdsTaken'
      /\ \A k \in 1..Len(events) : events'[k] = events[k]
      /\ \A k, w : k = Len(events) + 1 => (Gives(k, w)' <=> r.kind = "dispatched" /\ r.worker = w)
  BY RowKeeps
<1>2. Len(events) \in Nat /\ ReplayShape /\ eventId' \in Nat
  BY RowsAre, ReplayAssumption DEF ReplayInv
<1>3. ReplayShape'
  BY <1>1, <1>2 DEF ReplayShape
<1>4. SweepBehind'
  BY <1>1, <1>2 DEF ReplayInv, SweepBehind
<1>5. RunningGiven'
  <2>1. Len(events') >= Len(events) /\ Len(events') \in Nat
    BY <1>1, <1>2
  <2>2. ASSUME NEW k \in 1..Len(events'), NEW w, k \notin 1..Len(events) PROVE ~Gives(k, w)'
    <3>1. k = Len(events) + 1
      BY <1>1, <1>2, <2>2
    <3> QED BY <1>1, <3>1, Zenon
  <2> QED BY <1>1, <1>2, <2>1, <2>2, RunningStays
<1> QED BY <1>1, <1>3, <1>4, <1>5 DEF ReplayInv

\* No row is written.
LEMMA NoRowKeeps ==
  ASSUME ReplayInv, UNCHANGED <<events, named>>, eventId' \in 0..MaxEvents, lost' \in 0..MaxLost,
         running' \in [Worker -> Assignment],
         \A w \in Worker : running'[w].row = 0 \/ (running'[w] = running[w] /\ eventId' >= eventId),
         sweep' \in [at : {"idle", "death", "handle"}, now : Nat, w : Worker \cup {None}, t : Task \cup {None}],
         sweep'.at # "idle" => sweep'.now \in 1..(2 * Len(events) + 1) /\ sweep'.w \in Worker
  PROVE  ReplayInv'
<1>1. RowsTimed' /\ DispatchesNamed' /\ DeathsAssigned' /\ IdsTaken'
  BY DEF ReplayInv, RowsTimed, DispatchesNamed, DeathsAssigned, Gives, IdsTaken
<1>2. CompletionsGiven'
  BY DEF ReplayInv, CompletionsGiven, Gives
<1>3. ReplayShape' /\ SweepBehind'
  BY DEF ReplayInv, ReplayShape, SweepBehind
<1>4. RunningGiven'
  <2>1. Len(events) \in Nat /\ eventId' \in Nat /\ Len(events') = Len(events)
    BY RowsAre, ReplayAssumption DEF ReplayInv
  <2> QED BY <2>1, RunningStays
<1> QED BY <1>1, <1>2, <1>3, <1>4 DEF ReplayInv

LEMMA DispatchKeeps ==
  ASSUME ReplayInv, NEW w \in Worker, NEW t \in Task, DispatchWorker(w, t)
  PROVE  ReplayInv'
<1>1. PICK x, y : /\ x = (IF named THEN w ELSE None) /\ y = (IF named THEN t ELSE None)
                  /\ AddRow("dispatched", x, y, Clock, t, 0)
  BY DEF DispatchWorker
<1>2. /\ UNCHANGED <<named, sweep>>
      /\ running' = [running EXCEPT ![w] = [task |-> t, row |-> IF events' = events THEN 0 ELSE Len(events) + 1]]
  BY DEF DispatchWorker
<1>3. /\ Len(events) \in Nat /\ Clock = 2 * (Len(events) + 1) /\ Clock \in Nat \ {0} /\ ReplayShape
      /\ MaxEvents \in Nat /\ running \in [Worker -> Assignment]
      /\ sweep \in [at : {"idle", "death", "handle"}, now : Nat, w : Worker \cup {None}, t : Task \cup {None}]
  BY RowsAre, ReplayAssumption DEF Clock, ReplayInv, ReplayShape
<1>4. /\ Len(events) < MaxEvents /\ eventId' = eventId + 1 /\ eventId' \in 1..MaxEvents
      /\ eventId \in Nat /\ lost' \in 0..MaxLost
      /\ \/ UNCHANGED events
         \/ \E ok \in BOOLEAN :
               events' = Append(events, [kind |-> "dispatched", worker |-> x, task |-> y, ts |-> Clock, of |-> t,
                                         src |-> 0, id |-> eventId + 1, ok |-> ok])
  <2>1. AddRow("dispatched", x, y, Clock, t, 0) /\ ReplayShape
    BY <1>1, <1>3
  <2> QED BY <2>1, RowAdded, Zenon
<1>5. PICK row : row = (IF events' = events THEN 0 ELSE Len(events) + 1)
  OBVIOUS
<1>6. row \in 0..MaxEvents
  BY <1>3, <1>4, <1>5
<1>7. /\ running' \in [Worker -> Assignment]
      /\ running'[w].row = row /\ running'[w].task = t
      /\ \A v \in Worker : v # w => running'[v] = running[v]
  BY <1>2, <1>3, <1>5, <1>6 DEF Assignment
<1>8. CASE UNCHANGED events
  <2>1. \A v \in Worker : running'[v].row = 0 \/ (running'[v] = running[v] /\ eventId' >= eventId)
    BY <1>4, <1>5, <1>7, <1>8
  <2>2. sweep'.at # "idle" => sweep'.now \in 1..(2 * Len(events) + 1) /\ sweep'.w \in Worker
    BY <1>2 DEF ReplayInv, SweepBehind
  <2>3. eventId' \in 0..MaxEvents /\ UNCHANGED <<events, named>>
    BY <1>2, <1>3, <1>4, <1>8
  <2> QED BY <1>2, <1>3, <1>4, <1>7, <2>1, <2>2, <2>3, NoRowKeeps
<1>9. ASSUME NEW ok \in BOOLEAN,
             events' = Append(events, [kind |-> "dispatched", worker |-> x, task |-> y, ts |-> Clock, of |-> t,
                                       src |-> 0, id |-> eventId + 1, ok |-> ok])
      PROVE  ReplayInv'
  <2>1. PICK r : r = [kind |-> "dispatched", worker |-> x, task |-> y, ts |-> Clock, of |-> t,
                      src |-> 0, id |-> eventId + 1, ok |-> ok]
    OBVIOUS
  <2>2. r \in LogRow
    BY <1>1, <1>3, <1>4, <2>1 DEF LogRow, EventKind
  <2>3. RowFits(r)
    BY <1>1, <1>3, <1>4, <2>1 DEF RowFits
  <2>4. events' = Append(events, r) /\ named' = named
    BY <1>2, <1>9, <2>1
  <2>5. /\ events' \in Seq(LogRow) /\ Len(events') <= MaxEvents /\ Len(events') = Len(events) + 1
        /\ RowsTimed' /\ DispatchesNamed' /\ CompletionsGiven' /\ DeathsAssigned' /\ IdsTaken'
        /\ \A k \in 1..Len(events) : events'[k] = events[k]
        /\ \A k, v : k = Len(events) + 1 => (Gives(k, v)' <=> r.kind = "dispatched" /\ r.worker = v)
        /\ events'[Len(events) + 1] = r
    BY <1>4, <2>2, <2>3, <2>4, RowKeeps
  <2>6. row = Len(events) + 1
    BY <1>3, <1>5, <2>5
  <2>7. ReplayShape'
    BY <1>2, <1>3, <1>4, <1>7, <2>5 DEF ReplayShape
  <2>8. SweepBehind'
    BY <1>2, <1>3, <2>5 DEF ReplayInv, SweepBehind
  <2>9. RunningGiven'
    <3>1. PICK n : n = Len(events)
      OBVIOUS
    <3>2. /\ n \in Nat /\ Len(events') = n + 1 /\ row = n + 1
          /\ \A k \in 1..(n + 1) : k \in 1..n \/ k = n + 1
      BY <1>3, <2>5, <2>6, <3>1
    <3>3. \A v : Gives(n + 1, v)' <=> x = v
      <4>1. PICK k : k = n + 1
        OBVIOUS
      <4>2. r.kind = "dispatched" /\ r.worker = x
        BY <2>1
      <4>3. \A v : Gives(k, v)' <=> x = v
        BY <2>5, <3>1, <4>1, <4>2, Zenon
      <4> QED BY <4>1, <4>3
    <3> SUFFICES ASSUME NEW v \in Worker, running'[v].row # 0
                 PROVE  /\ running'[v].row \in 1..Len(events')
                        /\ named => /\ Gives(running[v].row, v)' /\ events'[running'[v].row].of = running'[v].task
                                    /\ events'[running'[v].row].id <= eventId'
                                    /\ \A k \in 1..Len(events') : Gives(k, v)' => k <= running'[v].row
      BY <1>2 DEF RunningGiven
    <3>4. PICK m : m = running'[v].row
      OBVIOUS
    <3>5. Gives(running[v].row, v)' <=> Gives(m, v)'
      BY <3>4 DEF Gives
    <3>6. CASE v = w
      <4>1. m = n + 1 /\ running'[v].task = t
        BY <1>7, <3>2, <3>4, <3>6
      <4>2. events'[m].of = t /\ events'[m].id = eventId + 1
        BY <2>1, <2>5, <3>1, <4>1
      <4>3. named => Gives(m, v)'
        BY <1>1, <3>3, <3>6, <4>1
      <4>4. eventId + 1 <= eventId'
        BY <1>4
      <4> QED BY <3>2, <3>4, <3>5, <4>1, <4>2, <4>3, <4>4
    <3>7. CASE v # w
      <4>1. running'[v] = running[v] /\ running[v].row = m
        BY <1>7, <3>4, <3>7
      <4>2. /\ m \in 1..n
            /\ named => /\ Gives(m, v) /\ events[m].of = running[v].task /\ events[m].id <= eventId
                        /\ \A k \in 1..n : Gives(k, v) => k <= m
        BY <3>1, <3>4, <4>1 DEF ReplayInv, RunningGiven
      <4>3. events'[m] = events[m] /\ \A k \in 1..n : Gives(k, v)' <=> Gives(k, v)
        BY <2>5, <3>1, <4>2 DEF Gives
      <4>4. named => ~Gives(n + 1, v)'
        BY <1>1, <3>3, <3>7
      <4>5. events[m].id \in Nat
        BY <3>1, <4>2, RowsAre, RowFields DEF ReplayInv
      <4>6. named => events'[m].id <= eventId'
        BY <1>4, <4>2, <4>3, <4>5
      <4> QED BY <3>2, <3>4, <3>5, <4>1, <4>2, <4>3, <4>4, <4>6
    <3> QED BY <3>6, <3>7
  <2> QED BY <2>5, <2>7, <2>8, <2>9 DEF ReplayInv
<1> QED BY <1>4, <1>8, <1>9

LEMMA CompletionKeeps ==
  ASSUME ReplayInv, NEW w \in Worker, RecordCompletion(w)
  PROVE  ReplayInv'
<1>1. PICK d, t : d = running[w].row /\ t = running[w].task
  OBVIOUS
<1>2. /\ AddRow("checkpoint", w, None, Clock, t, d)
      /\ running' = [running EXCEPT ![w] = Nothing] /\ UNCHANGED <<named, sweep>>
  BY <1>1 DEF RecordCompletion
<1>3. /\ Len(events) \in Nat /\ Clock = 2 * (Len(events) + 1) /\ Clock \in Nat \ {0} /\ ReplayShape
      /\ \A i \in 1..Len(events) : events[i] \in LogRow
      /\ MaxEvents \in Nat /\ running \in [Worker -> Assignment]
      /\ sweep \in [at : {"idle", "death", "handle"}, now : Nat, w : Worker \cup {None}, t : Task \cup {None}]
  BY RowsAre, ReplayAssumption DEF Clock, ReplayInv, ReplayShape
<1>4. /\ Len(events) < MaxEvents /\ eventId' = eventId + 1 /\ eventId' \in 1..MaxEvents
      /\ eventId \in Nat /\ lost' \in 0..MaxLost
      /\ \/ UNCHANGED events
         \/ \E ok \in BOOLEAN :
               events' = Append(events, [kind |-> "checkpoint", worker |-> w, task |-> None, ts |-> Clock, of |-> t,
                                         src |-> d, id |-> eventId + 1, ok |-> ok])
  <2>1. AddRow("checkpoint", w, None, Clock, t, d) /\ ReplayShape
    BY <1>2, <1>3
  <2> QED BY <2>1, RowAdded, Zenon
<1>5. /\ running' \in [Worker -> Assignment]
      /\ \A v \in Worker : running'[v].row = 0 \/ (running'[v] = running[v] /\ eventId' >= eventId)
  BY <1>2, <1>3, <1>4 DEF Assignment, Nothing
<1>6. d \in Nat /\ t \in Task \cup {None}
  BY <1>1, <1>3 DEF Assignment
<1>7. d # 0 =>
        /\ d \in 1..Len(events)
        /\ named => /\ Gives(d, w) /\ events[d].of = t /\ events[d].id <= eventId
                    /\ \A k \in 1..Len(events) : Gives(k, w) => k <= d
  BY <1>1 DEF ReplayInv, RunningGiven
<1>8. sweep'.at # "idle" => sweep'.now \in 1..(2 * Len(events) + 1) /\ sweep'.w \in Worker
  BY <1>2 DEF ReplayInv, SweepBehind
<1>9. CASE UNCHANGED events
  <2>1. eventId' \in 0..MaxEvents /\ UNCHANGED <<events, named>>
    BY <1>2, <1>3, <1>4, <1>9
  <2> QED BY <1>2, <1>3, <1>4, <1>5, <1>8, <2>1, NoRowKeeps
<1>10. ASSUME NEW ok \in BOOLEAN,
              events' = Append(events, [kind |-> "checkpoint", worker |-> w, task |-> None, ts |-> Clock, of |-> t,
                                        src |-> d, id |-> eventId + 1, ok |-> ok])
       PROVE  ReplayInv'
  <2>1. PICK r : r = [kind |-> "checkpoint", worker |-> w, task |-> None, ts |-> Clock, of |-> t,
                      src |-> d, id |-> eventId + 1, ok |-> ok]
    OBVIOUS
  <2>2. r \in LogRow
    BY <1>3, <1>4, <1>6, <2>1 DEF LogRow, EventKind
  <2>3. RowFits(r)
    <3>1. r.src \in 0..Len(events)
      BY <1>3, <1>6, <1>7, <2>1
    <3>2. named /\ d # 0 => events[d].id < eventId + 1
      <4>1. d # 0 => events[d].id \in Nat
        BY <1>3, <1>7, RowFields
      <4> QED BY <1>4, <1>7, <4>1
    <3> QED BY <1>3, <1>4, <1>7, <2>1, <3>1, <3>2 DEF RowFits
  <2>4. /\ events' = Append(events, r) /\ named' = named /\ r.kind # "dispatched" /\ eventId' \in 0..MaxEvents
        /\ sweep' = sweep
    BY <1>2, <1>3, <1>4, <1>10, <2>1
  <2> QED BY <1>3, <1>4, <1>5, <2>2, <2>3, <2>4, OtherRowKeeps
<1> QED BY <1>4, <1>9, <1>10


LEMMA SweepKeeps ==
  ASSUME ReplayInv, SweepDeath \/ SweepHandle
  PROVE  ReplayInv'
<1>1. /\ Len(events) \in Nat /\ Clock = 2 * (Len(events) + 1) /\ Clock \in Nat \ {0} /\ ReplayShape
      /\ sweep \in [at : {"idle", "death", "handle"}, now : Nat, w : Worker \cup {None}, t : Task \cup {None}]
      /\ running \in [Worker -> Assignment] /\ eventId \in 0..MaxEvents /\ lost \in 0..MaxLost /\ MaxEvents \in Nat
      /\ sweep.w \in Worker /\ sweep.now \in 1..(2 * Len(events) + 1) /\ sweep.at # "idle"
  <2>1. sweep.at # "idle"
    BY DEF SweepDeath, SweepHandle
  <2>2. ReplayShape /\ SweepBehind
    BY DEF ReplayInv
  <2>3. Len(events) \in Nat /\ Clock = 2 * (Len(events) + 1) /\ Clock \in Nat \ {0}
    BY <2>2, RowsAre DEF Clock
  <2>4. sweep.w \in Worker /\ sweep.now \in 1..(2 * Len(events) + 1)
    BY <2>1, <2>2 DEF SweepBehind
  <2> QED BY <2>1, <2>2, <2>3, <2>4, ReplayAssumption DEF ReplayShape
\* What is left to show of a step that appends a row or none.
<1>2. ASSUME NEW kind \in {"death", "redispatched"}, NEW t \in Task \cup {None}, NEW ts \in Nat \ {0},
             \/ AddRow(kind, sweep.w, t, ts, t, 0)
             \/ UNCHANGED <<events, eventId, lost>>,
             UNCHANGED <<named, running>>,
             kind = "redispatched" => ts = Clock,
             kind = "death" => /\ ts <= 2 * Len(events) + 1 /\ (~named => t = None)
                               /\ t = None => \A k \in 1..Len(events) : ~(Gives(k, sweep.w) /\ events[k].ok),
             sweep' \in [at : {"idle", "death", "handle"}, now : Nat, w : Worker \cup {None}, t : Task \cup {None}],
             sweep'.at # "idle" => sweep'.now = sweep.now /\ sweep'.w = sweep.w
      PROVE  ReplayInv'
  <2>1. CASE UNCHANGED <<events, eventId, lost>>
    <3>1. \A v \in Worker : running'[v].row = 0 \/ (running'[v] = running[v] /\ eventId' >= eventId)
      BY <1>1, <1>2, <2>1
    <3> QED BY <1>1, <1>2, <2>1, <3>1, NoRowKeeps
  <2>2. CASE AddRow(kind, sweep.w, t, ts, t, 0)
    <3>1. /\ Len(events) < MaxEvents /\ eventId' = eventId + 1 /\ eventId' \in 1..MaxEvents
          /\ eventId \in Nat /\ lost' \in 0..MaxLost
          /\ \/ UNCHANGED events
             \/ \E ok \in BOOLEAN :
                   events' = Append(events, [kind |-> kind, worker |-> sweep.w, task |-> t, ts |-> ts, of |-> t,
                                             src |-> 0, id |-> eventId + 1, ok |-> ok])
      <4>1. ReplayShape
        BY <1>1
      <4> QED BY <2>2, <4>1, RowAdded, Zenon
    <3>2. /\ eventId' \in 0..MaxEvents
          /\ \A v \in Worker : running'[v].row = 0 \/ (running'[v] = running[v] /\ eventId' >= eventId)
      BY <1>1, <1>2, <3>1
    <3>3. running' \in [Worker -> Assignment] /\ named' = named
      BY <1>1, <1>2
    <3>4. CASE UNCHANGED events
      BY <1>1, <1>2, <3>1, <3>2, <3>3, <3>4, NoRowKeeps
    <3>5. ASSUME NEW ok \in BOOLEAN,
                 events' = Append(events, [kind |-> kind, worker |-> sweep.w, task |-> t, ts |-> ts, of |-> t,
                                           src |-> 0, id |-> eventId + 1, ok |-> ok])
          PROVE  ReplayInv'
      <4>1. PICK r : r = [kind |-> kind, worker |-> sweep.w, task |-> t, ts |-> ts, of |-> t,
                          src |-> 0, id |-> eventId + 1, ok |-> ok]
        OBVIOUS
      <4>2. r \in LogRow
        BY <1>1, <3>1, <4>1 DEF LogRow, EventKind
      <4>3. RowFits(r)
        BY <1>1, <1>2, <3>1, <4>1 DEF RowFits
      <4>4. events' = Append(events, r) /\ r.kind # "dispatched"
        BY <3>5, <4>1
      <4> QED BY <1>1, <1>2, <3>1, <3>2, <3>3, <4>2, <4>3, <4>4, OtherRowKeeps
    <3> QED BY <3>1, <3>4, <3>5
  <2> QED BY <1>2, <2>1, <2>2
<1>3. CASE SweepDeath
  <2>1. PICK t : t = LastAssignmentFor(sweep.w)
    OBVIOUS
  <2>2. /\ t \in Task \cup {None} /\ (~named => t = None)
        /\ t = None => \A k \in 1..Len(events) : ~(Gives(k, sweep.w) /\ events[k].ok)
    BY <1>1, <2>1, LastAssigned
  <2>3. /\ sweep' = [sweep EXCEPT !.at = "handle", !.t = t] /\ UNCHANGED <<named, running>>
        /\ AddRow("death", sweep.w, t, sweep.now, t, 0)
    BY <1>3, <2>1 DEF SweepDeath
  <2>4. /\ sweep' = [at |-> "handle", now |-> sweep.now, w |-> sweep.w, t |-> t]
    BY <1>1, <2>3
  <2>5. /\ sweep' \in [at : {"idle", "death", "handle"}, now : Nat, w : Worker \cup {None}, t : Task \cup {None}]
        /\ sweep'.now = sweep.now /\ sweep'.w = sweep.w
    BY <1>1, <2>2, <2>4
  <2>6. sweep.now \in Nat \ {0} /\ sweep.now <= 2 * Len(events) + 1
    BY <1>1
  <2> QED BY <1>2, <2>2, <2>3, <2>5, <2>6
<1>4. CASE SweepHandle
  <2>1. /\ sweep' = NoSweep /\ UNCHANGED <<named, running>>
        /\ \/ AddRow("redispatched", sweep.w, sweep.t, Clock, sweep.t, 0)
           \/ UNCHANGED <<events, eventId, lost>>
    BY <1>4 DEF SweepHandle
  <2>2. /\ sweep' \in [at : {"idle", "death", "handle"}, now : Nat, w : Worker \cup {None}, t : Task \cup {None}]
        /\ sweep'.at = "idle" /\ sweep.t \in Task \cup {None}
    BY <1>1, <2>1 DEF NoSweep
  <2> QED BY <1>1, <1>2, <2>1, <2>2
<1> QED BY <1>3, <1>4

LEMMA ReplayInvHolds == ReplaySpec => []ReplayInv
<1>1. ReplayInit => ReplayInv
  <2> SUFFICES ASSUME ReplayInit PROVE ReplayInv
    OBVIOUS
  <2>1. /\ named \in BOOLEAN /\ events = <<>> /\ Len(events) = 0 /\ events \in Seq(LogRow)
        /\ eventId = 0 /\ lost = 0
        /\ running = [w \in Worker |-> Nothing] /\ sweep = NoSweep
    BY ReplayAssumption DEF ReplayInit
  <2>2. ReplayShape
    BY <2>1, ReplayAssumption DEF ReplayShape, NoSweep, Nothing, Assignment
  <2>3. RowsTimed /\ DispatchesNamed /\ CompletionsGiven /\ DeathsAssigned /\ IdsTaken
    BY <2>1 DEF RowsTimed, DispatchesNamed, CompletionsGiven, DeathsAssigned, IdsTaken
  <2>4. RunningGiven /\ SweepBehind
    BY <2>1 DEF RunningGiven, SweepBehind, NoSweep, Nothing
  <2> QED BY <2>2, <2>3, <2>4 DEF ReplayInv
<1>2. ReplayInv /\ [ReplayNext]_replayVars => ReplayInv'
  <2> SUFFICES ASSUME ReplayInv, [ReplayNext]_replayVars PROVE ReplayInv'
    OBVIOUS
  <2>0. /\ Len(events) \in Nat /\ ReplayShape /\ running \in [Worker -> Assignment]
        /\ eventId \in 0..MaxEvents /\ lost \in 0..MaxLost /\ eventId >= eventId /\ 0 \in 0..MaxEvents
        /\ sweep \in [at : {"idle", "death", "handle"}, now : Nat, w : Worker \cup {None}, t : Task \cup {None}]
        /\ sweep.at # "idle" => sweep.now \in 1..(2 * Len(events) + 1) /\ sweep.w \in Worker
    BY RowsAre, ReplayAssumption DEF ReplayInv, ReplayShape, SweepBehind
  <2>1. ASSUME NEW w \in Worker, NEW t \in Task, DispatchWorker(w, t) PROVE ReplayInv'
    BY <2>1, DispatchKeeps
  <2>2. ASSUME NEW w \in Worker, RecordCompletion(w) PROVE ReplayInv'
    BY <2>2, CompletionKeeps
  <2>3. ASSUME NEW w \in Worker, SweepStart(w) PROVE ReplayInv'
    <3>1. /\ sweep' = [at |-> "death", now |-> SweepClock, w |-> w, t |-> None]
          /\ UNCHANGED <<named, events, lost, eventId, running>>
      BY <2>3 DEF SweepStart
    <3>2. SweepClock = 2 * Len(events) + 1
      BY <2>0 DEF SweepClock, Clock
    <3>3. sweep' \in [at : {"idle", "death", "handle"}, now : Nat, w : Worker \cup {None}, t : Task \cup {None}]
          /\ sweep'.now \in 1..(2 * Len(events) + 1) /\ sweep'.w \in Worker
      BY <2>0, <3>1, <3>2
    <3> QED BY <2>0, <3>1, <3>3, NoRowKeeps
  <2>4. CASE SweepDeath \/ SweepHandle
    BY <2>4, SweepKeeps
  <2>5. CASE ReplayRestart
    <3>1. /\ running' = [w \in Worker |-> Nothing] /\ sweep' = NoSweep /\ eventId' = 0
          /\ UNCHANGED <<named, events, lost>>
      BY <2>5 DEF ReplayRestart
    <3>2. running' \in [Worker -> Assignment] /\ \A w \in Worker : running'[w].row = 0
      BY <2>0, <3>1 DEF Assignment, Nothing
    <3>3. sweep' \in [at : {"idle", "death", "handle"}, now : Nat, w : Worker \cup {None}, t : Task \cup {None}]
          /\ sweep'.at = "idle"
      BY <3>1 DEF NoSweep
    <3> QED BY <2>0, <3>1, <3>2, <3>3, NoRowKeeps
  <2>6. CASE UNCHANGED replayVars
    BY <2>0, <2>6, NoRowKeeps DEF replayVars
  <2> QED BY <2>1, <2>2, <2>3, <2>4, <2>5, <2>6 DEF ReplayNext
<1> QED BY <1>1, <1>2, PTL DEF ReplaySpec


\* Latest is the largest of the times there are, or 0.
LEMMA LatestOf ==
  ASSUME NEW b \in Nat, NEW S, S \subseteq 1..b
  PROVE  /\ S # {} => Latest(S) \in S
         /\ S = {} => Latest(S) = 0
         /\ \A x \in S : x <= Latest(S)
<1>1. CASE S = {}
  BY <1>1 DEF Latest
<1>2. CASE S # {}
  <2>1. \E m \in S : \A k \in S : k <= m
    BY <1>2, LargestOf, Zenon
  <2>2. \E m \in S : \A k \in S : m >= k
    BY <2>1
  <2>3. Max(S) \in S /\ \A k \in S : Max(S) >= k
    BY <2>2, Zenon DEF Max
  <2>4. Latest(S) = Max(S)
    BY <1>2 DEF Latest
  <2> QED BY <1>2, <2>3, <2>4
<1> QED BY <1>1, <1>2

\* The dispatches of w among the given rows.
Mine(w, rows) == {i \in rows \cap Rows("dispatched") : events[i].worker = w}

LEMMA MineAre ==
  ASSUME ReplayInv, NEW w, NEW rows, rows \subseteq 1..Len(events)
  PROVE  \A k : k \in Mine(w, rows) <=> k \in rows /\ events[k].ok /\ Gives(k, w)
BY RowsAre DEF ReplayInv, Mine, Rows, Gives

\* The task that replay takes for the worker's: that of its last dispatch on record.
LEMMA DispatchTaskIs ==
  ASSUME ReplayInv, NEW w, NEW rows, rows \subseteq 1..Len(events)
  PROVE  /\ Mine(w, rows) = {} => DispatchTask(w, rows) = None
         /\ \A m \in Mine(w, rows) : (\A k \in Mine(w, rows) : k <= m) => DispatchTask(w, rows) = events[m].task
         /\ Mine(w, rows) # {} => \E m \in Mine(w, rows) : \A k \in Mine(w, rows) : k <= m
<1> DEFINE mine == Mine(w, rows)
           times == {events[j].ts : j \in mine}
           last == {i \in mine : events[i].ts = Latest(times)}
<1>1. DispatchTask(w, rows) = IF mine = {} THEN None ELSE events[Min(last)].task
  BY DEF DispatchTask, Mine
<1>2. /\ Len(events) \in Nat /\ mine \subseteq 1..Len(events)
      /\ \A k \in mine : Gives(k, w)
  BY MineAre, RowsAre DEF ReplayInv
<1> HIDE DEF mine
<1>3. \A k \in mine : events[k].ts = 2 * k
  BY <1>2 DEF ReplayInv, RowsTimed, Gives
<1>4. ASSUME NEW m \in mine, \A k \in mine : k <= m PROVE DispatchTask(w, rows) = events[m].task
  <2>1. times \subseteq 1..(2 * Len(events)) /\ 2 * Len(events) \in Nat
    BY <1>2, <1>3
  <2>2. 2 * m \in times /\ \A x \in times : x <= 2 * m
    BY <1>2, <1>3, <1>4
  <2> HIDE DEF times
  <2>3. Latest(times) \in times /\ \A x \in times : x <= Latest(times)
    BY <2>1, <2>2, LatestOf
  <2>4. Latest(times) = 2 * m
    <3>1. PICK l : l = Latest(times)
      OBVIOUS
    <3>2. l \in times /\ l <= 2 * m /\ 2 * m <= l
      BY <2>2, <2>3, <3>1
    <3>3. l \in Nat /\ m \in Nat
      BY <1>2, <2>1, <3>2
    <3> QED BY <3>1, <3>2, <3>3
  <2>5. last = {m}
    <3>1. \A i \in mine : events[i].ts = Latest(times) <=> i = m
      BY <1>2, <1>3, <2>4
    <3> QED BY <3>1
  <2> HIDE DEF last
  <2>6. m <= m
    BY <1>2
  <2>7. Min(last) = m
    BY <2>5, <2>6 DEF Min
  <2> QED BY <1>1, <1>4, <2>7
<1>5. mine # {} => \E m \in mine : \A k \in mine : k <= m
  BY <1>2, LargestOf, Zenon
<1>6. mine = {} => DispatchTask(w, rows) = None
  BY <1>1
<1> QED BY <1>4, <1>5, <1>6 DEF mine

\* Replay credits a completion to the task it is of, if the rows name their tasks, its
\* dispatch can be decoded and no later one is read before it; it credits it to such a
\* later one otherwise, and without names to none.
LEMMA CompletionCredited ==
  ASSUME ReplayInv, NEW j \in Rows("checkpoint")
  PROVE  /\ ~named => TaskOf(j, ReadBefore(j)) = None
         /\ named => \/ Orphaned(j)
                     \/ TaskOf(j, ReadBefore(j)) = events[j].of
                     \/ /\ Overtaken(j)
                        /\ \E m \in Rows("dispatched") : m > j /\ TaskOf(j, ReadBefore(j)) = events[m].task
<1>1. /\ j \in 1..Len(events) /\ Len(events) \in Nat /\ DOMAIN events = 1..Len(events)
      /\ events[j].kind = "checkpoint" /\ named \in BOOLEAN /\ events[j] \in LogRow
  BY RowsAre DEF Rows, ReplayInv, ReplayShape
<1>2. PICK w, d, B : w = events[j].worker /\ d = events[j].src /\ B = ReadBefore(j)
  OBVIOUS
<1>3. /\ events[j].task = None /\ w \in Worker /\ d < j /\ d \in Nat
      /\ named /\ d # 0 => /\ Gives(d, w) /\ events[d].of = events[j].of /\ events[d].id < events[j].id
                          /\ \A k \in 1..(j - 1) : Gives(k, w) => k <= d
  <2>1. d \in Nat
    BY <1>1, <1>2, RowFields
  <2> QED BY <1>1, <1>2, <2>1 DEF ReplayInv, CompletionsGiven
<1>4. TaskOf(j, ReadBefore(j)) = DispatchTask(w, B) /\ B \subseteq 1..Len(events)
  BY <1>1, <1>2, <1>3 DEF TaskOf, ReadBefore
<1>5. \A k : k \in Mine(w, B) <=> k \in B /\ events[k].ok /\ Gives(k, w)
  BY <1>4, MineAre
<1>6. CASE ~named
  <2>1. \A k \in 1..Len(events) : ~Gives(k, w)
    BY <1>3, <1>6, ReplayAssumption DEF ReplayInv, DispatchesNamed, Gives
  <2>2. Mine(w, B) = {}
    BY <1>4, <1>5, <2>1
  <2> QED BY <1>4, <1>6, <2>2, DispatchTaskIs
<1>7. CASE named /\ ~Orphaned(j)
  <2>1. /\ d # 0 /\ events[d].ok /\ d \in 1..Len(events)
        /\ Gives(d, w) /\ events[d].of = events[j].of /\ events[d].id < events[j].id
        /\ \A k \in 1..(j - 1) : Gives(k, w) => k <= d
    BY <1>1, <1>2, <1>3, <1>7 DEF Orphaned
  <2>2. d \in B
    BY <1>1, <1>2, <2>1 DEF ReadBefore
  <2>3. d \in Mine(w, B)
    BY <1>5, <2>1, <2>2
  <2>4. PICK m \in Mine(w, B) : \A k \in Mine(w, B) : k <= m
    BY <1>4, <2>3, DispatchTaskIs
  <2>5. DispatchTask(w, B) = events[m].task
    BY <1>4, <2>4, DispatchTaskIs
  <2>6. /\ m \in B /\ events[m].ok /\ Gives(m, w) /\ m \in 1..Len(events) /\ d <= m
        /\ m # j
    BY <1>1, <1>4, <1>5, <2>3, <2>4 DEF Gives
  <2>7. CASE m > j
    <3>1. m \in Rows("dispatched") /\ events[m].worker = events[j].worker
      BY <1>1, <1>2, <2>6 DEF Rows, Gives
    <3>2. Overtaken(j)
      BY <1>2, <2>6, <2>7, <3>1 DEF Overtaken
    <3> QED BY <1>4, <1>7, <2>5, <2>7, <3>1, <3>2
  <2>8. CASE m < j
    <3>1. m = d
      BY <1>1, <2>1, <2>6, <2>8
    <3>2. events[d].task = events[d].of
      BY <1>7, <2>1 DEF ReplayInv, DispatchesNamed, Gives
    <3> QED BY <1>4, <1>7, <2>1, <2>5, <3>1, <3>2
  <2> QED BY <1>1, <2>6, <2>7, <2>8
<1> QED BY <1>1, <1>6, <1>7

\* The time of a task's checkpoint is that of its last completion credited to it.
LEMMA CheckpointTsIs ==
  ASSUME ReplayInv, NEW t
  PROVE  /\ CheckpointTs(t) \in Nat
         /\ \A j \in Rows("checkpoint") : TaskOf(j, ReadBefore(j)) = t => 2 * j <= CheckpointTs(t)
         /\ CheckpointTs(t) # 0 =>
               \E j \in Rows("checkpoint") : TaskOf(j, ReadBefore(j)) = t /\ CheckpointTs(t) = 2 * j
<1> DEFINE mine == {j \in Rows("checkpoint") : TaskOf(j, ReadBefore(j)) = t}
           times == {events[i].ts : i \in mine}
<1>1. CheckpointTs(t) = Latest(times)
  BY DEF CheckpointTs
<1>2. /\ Len(events) \in Nat /\ DOMAIN events = 1..Len(events)
      /\ \A j \in Rows("checkpoint") : j \in 1..Len(events) /\ events[j].kind = "checkpoint"
  BY RowsAre DEF ReplayInv, Rows
<1>3. \A j \in Rows("checkpoint") : events[j].ts = 2 * j
  BY <1>2 DEF ReplayInv, RowsTimed
<1>4. mine \subseteq Rows("checkpoint") /\ \A j \in Rows("checkpoint") : TaskOf(j, ReadBefore(j)) = t <=> j \in mine
  OBVIOUS
<1> HIDE DEF mine
<1>5. times \subseteq 1..(2 * Len(events)) /\ 2 * Len(events) \in Nat
  BY <1>2, <1>3, <1>4
<1>6. \A x \in times : \E j \in mine : x = 2 * j
  BY <1>3, <1>4
<1>7. \A j \in mine : 2 * j \in times
  BY <1>3, <1>4
<1> HIDE DEF times
<1>8. /\ times # {} => Latest(times) \in times
      /\ times = {} => Latest(times) = 0
      /\ \A x \in times : x <= Latest(times)
  BY <1>5, LatestOf
<1>9. PICK l : l = Latest(times)
  OBVIOUS
<1>10. l \in Nat
  <2>1. CASE times = {}
    BY <1>8, <1>9, <2>1
  <2>2. CASE times # {}
    <3>1. l \in times
      BY <1>8, <1>9, <2>2
    <3> QED BY <1>5, <3>1
  <2> QED BY <2>1, <2>2
<1>11. \A j \in Rows("checkpoint") : TaskOf(j, ReadBefore(j)) = t => 2 * j <= l
  BY <1>4, <1>7, <1>8, <1>9
<1>12. l # 0 => \E j \in Rows("checkpoint") : TaskOf(j, ReadBefore(j)) = t /\ l = 2 * j
  BY <1>4, <1>6, <1>8, <1>9
<1> QED BY <1>1, <1>9, <1>10, <1>11, <1>12

LEMMA InFlightHolds == ASSUME ReplayInv PROVE InFlightRecovered
<1> SUFFICES ASSUME NEW i \in Rows("dispatched"), events[i].task # None, ~HardPause,
                    events[i].task \notin Redispatches,
                    \A j \in Rows("checkpoint") : ~(j > i /\ Orphaned(j))
             PROVE  \E j \in DOMAIN events : CompletedAfter(i, j, events[i].task)
  BY DEF InFlightRecovered
<1>1. /\ i \in 1..Len(events) /\ Len(events) \in Nat /\ DOMAIN events = 1..Len(events)
      /\ events[i].kind = "dispatched" /\ named \in BOOLEAN
  BY RowsAre DEF Rows, ReplayInv, ReplayShape
<1>2. PICK t : t = events[i].task
  OBVIOUS
<1>3. named
  BY <1>1 DEF ReplayInv, DispatchesNamed
\* The last of its dispatches.
<1> DEFINE S == {k \in Rows("dispatched") : events[k].task = t}
<1>4. S \subseteq 1..Len(events) /\ i \in S /\ S \subseteq Rows("dispatched") /\ \A k \in S : events[k].task = t
  BY <1>1, <1>2 DEF Rows
<1>5. \A k \in Rows("dispatched") : events[k].task = t => k \in S
  OBVIOUS
<1> HIDE DEF S
<1>6. PICK m \in S : \A k \in S : k <= m
  BY <1>1, <1>4, LargestOf, Zenon
<1>7. m \in 1..Len(events) /\ i <= m /\ m \in Rows("dispatched") /\ events[m].kind = "dispatched"
  BY <1>4, <1>6 DEF Rows
<1>8. events[m].ts = 2 * m
  BY <1>7 DEF ReplayInv, RowsTimed
<1>9. t # None /\ CheckpointTs(t) > 2 * m
  <2>1. t \notin UnmatchedDispatches
    BY <1>2 DEF Redispatches
  <2>2. events[m].task = t
    BY <1>4, <1>6
  <2> QED BY <1>2, <1>7, <1>8, <2>1, <2>2 DEF UnmatchedDispatches
<1>10. PICK j \in Rows("checkpoint") : TaskOf(j, ReadBefore(j)) = t /\ CheckpointTs(t) = 2 * j
  <2>1. CheckpointTs(t) # 0
    BY <1>7, <1>9, CheckpointTsIs
  <2> QED BY <2>1, CheckpointTsIs
<1>11. j \in 1..Len(events) /\ events[j].kind = "checkpoint"
  BY <1>1 DEF Rows
<1>12. j > m /\ j > i
  BY <1>1, <1>7, <1>9, <1>10, <1>11
<1>13. events[j].of = t
  <2>1. SUFFICES ASSUME events[j].of # t PROVE FALSE
    OBVIOUS
  <2>2. ~Orphaned(j)
    BY <1>12
  <2>3. PICK k \in Rows("dispatched") : k > j /\ t = events[k].task
    BY <1>3, <1>10, <2>1, <2>2, CompletionCredited
  <2>4. k \in S /\ k \in 1..Len(events)
    BY <1>1, <1>5, <2>3 DEF Rows
  <2> QED BY <1>6, <1>7, <1>11, <1>12, <2>3, <2>4
<1> QED BY <1>1, <1>2, <1>11, <1>12, <1>13 DEF CompletedAfter

\* No completion of the task is credited to another one.
Credited(t) == \A j \in Rows("checkpoint") : events[j].of = t => ~Orphaned(j) /\ ~Overtaken(j)

\* A completion on record that replay counts for none of the task's times.
LEMMA NoneAfter ==
  ASSUME ReplayInv, named, NEW i \in 1..Len(events), NEW t, Credited(t), CheckpointTs(t) <= 2 * i
  PROVE  \A j \in Rows("checkpoint") : ~CompletedAfter(i, j, t)
<1> SUFFICES ASSUME NEW j \in Rows("checkpoint"), CompletedAfter(i, j, t) PROVE FALSE
  OBVIOUS
<1>1. j > i /\ events[j].of = t
  BY DEF CompletedAfter
<1>2. TaskOf(j, ReadBefore(j)) = t
  BY <1>1, CompletionCredited DEF Credited
<1>3. 2 * j <= CheckpointTs(t) /\ CheckpointTs(t) \in Nat
  BY <1>2, CheckpointTsIs
<1>4. j \in Nat /\ i \in Nat
  BY RowsAre DEF Rows, ReplayInv
<1> QED BY <1>1, <1>3, <1>4

LEMMA NamelessHolds == ASSUME ReplayInv PROVE NamelessNotFound
<1> SUFFICES ASSUME ~named, NEW t \in Redispatches, t # None PROVE FALSE
  BY DEF NamelessNotFound
<1>1. /\ Len(events) \in Nat /\ DOMAIN events = 1..Len(events)
      /\ t \in UnrecoveredDeaths \/ t \in UnmatchedDispatches
  BY RowsAre DEF ReplayInv, Redispatches
<1>2. CASE t \in UnmatchedDispatches
  <2>1. PICK i \in Rows("dispatched") : t = events[i].task
    BY <1>2 DEF UnmatchedDispatches
  <2>2. i \in 1..Len(events) /\ events[i].kind = "dispatched"
    BY <1>1 DEF Rows
  <2> QED BY <2>1, <2>2 DEF ReplayInv, DispatchesNamed
<1>3. CASE t \in UnrecoveredDeaths
  <2>1. PICK i \in Rows("death") : t = TaskOf(i, DOMAIN events)
    BY <1>3 DEF UnrecoveredDeaths
  <2>2. PICK w : w = events[i].worker
    OBVIOUS
  <2>3. i \in 1..Len(events) /\ events[i].kind = "death"
    BY <1>1 DEF Rows
  <2>4. w \in Worker /\ events[i].task = None
    BY <2>2, <2>3 DEF ReplayInv, DeathsAssigned
  <2>5. \A k \in 1..Len(events) : ~Gives(k, w)
    BY <2>4, ReplayAssumption DEF ReplayInv, DispatchesNamed, Gives
  <2>6. t = DispatchTask(w, 1..Len(events)) /\ 1..Len(events) \subseteq 1..Len(events)
    BY <1>1, <2>1, <2>2, <2>4 DEF TaskOf
  <2>7. Mine(w, 1..Len(events)) = {}
    BY <2>5, <2>6, MineAre
  <2> QED BY <2>6, <2>7, DispatchTaskIs
<1> QED BY <1>1, <1>2, <1>3

LEMMA NotRerun == ASSUME ReplayInv PROVE FinishedNotRerun
<1> SUFFICES ASSUME NEW t \in Redispatches \ {None}, Credited(t)
             PROVE  \E i \in Rows("dispatched") \cup Rows("death") :
                       /\ events[i].of = t
                       /\ \A j \in Rows("checkpoint") : ~CompletedAfter(i, j, t)
  BY DEF FinishedNotRerun, Credited
<1>0. /\ Len(events) \in Nat /\ DOMAIN events = 1..Len(events) /\ t # None
      /\ t \in UnrecoveredDeaths \/ t \in UnmatchedDispatches
  BY RowsAre DEF ReplayInv, Redispatches
\* A dispatch that names a task.
<1>1. ASSUME NEW i \in 1..Len(events), events[i].kind = "dispatched", events[i].task = t
      PROVE  named /\ events[i].of = t /\ events[i].ts = 2 * i
  BY <1>0, <1>1 DEF ReplayInv, DispatchesNamed, RowsTimed
<1>2. CASE t \in UnmatchedDispatches
  <2>1. PICK i \in Rows("dispatched") : t = events[i].task /\ ~(t # None /\ CheckpointTs(t) > events[i].ts)
    BY <1>2 DEF UnmatchedDispatches
  <2>2. i \in 1..Len(events) /\ events[i].kind = "dispatched"
    BY <1>0 DEF Rows
  <2>3. named /\ events[i].of = t /\ events[i].ts = 2 * i
    BY <1>1, <2>1, <2>2
  <2>4. CheckpointTs(t) <= 2 * i
    BY <1>0, <2>1, <2>2, <2>3, CheckpointTsIs
  <2>5. \A j \in Rows("checkpoint") : ~CompletedAfter(i, j, t)
    BY <2>2, <2>3, <2>4, NoneAfter
  <2> QED BY <2>3, <2>5
<1>3. CASE t \in UnrecoveredDeaths
  <2>1. PICK i \in Rows("death") : t = TaskOf(i, DOMAIN events) /\ CheckpointTs(t) <= events[i].ts
    BY <1>3 DEF UnrecoveredDeaths
  <2>2. PICK w : w = events[i].worker
    OBVIOUS
  <2>3. i \in 1..Len(events) /\ events[i].kind = "death" /\ i \in Nat
    BY <1>0 DEF Rows
  <2>4. /\ events[i].of = events[i].task /\ w \in Worker /\ events[i].ts < 2 * i /\ events[i].ts \in Nat
        /\ ~named => events[i].task = None
        /\ events[i].task = None => \A k \in 1..(i - 1) : ~(Gives(k, w) /\ events[k].ok)
    <3>1. events[i].ts \in Nat
      BY <2>3, RowsAre, RowFields DEF ReplayInv
    <3> QED BY <2>2, <2>3, <3>1 DEF ReplayInv, DeathsAssigned, RowsTimed
  <2>5. CASE named
    <3>1. CASE events[i].task # None
      <4>1. events[i].of = t
        BY <2>1, <2>4, <3>1 DEF TaskOf
      <4>2. CheckpointTs(t) <= 2 * i
        BY <2>1, <2>3, <2>4, CheckpointTsIs
      <4>3. \A j \in Rows("checkpoint") : ~CompletedAfter(i, j, t)
        BY <2>3, <2>5, <4>2, NoneAfter
      <4> QED BY <4>1, <4>3
    <3>2. CASE events[i].task = None
      <4>1. t = DispatchTask(w, 1..Len(events)) /\ 1..Len(events) \subseteq 1..Len(events)
        BY <1>0, <2>1, <2>2, <3>2 DEF TaskOf
      <4>2. Mine(w, 1..Len(events)) # {}
        BY <1>0, <4>1, DispatchTaskIs
      <4>3. PICK m \in Mine(w, 1..Len(events)) : \A k \in Mine(w, 1..Len(events)) : k <= m
        BY <4>1, <4>2, DispatchTaskIs
      <4>4. t = events[m].task
        BY <4>1, <4>3, DispatchTaskIs
      <4>5. m \in 1..Len(events) /\ events[m].ok /\ Gives(m, w)
        BY <4>1, MineAre
      <4>6. m >= i
        BY <1>0, <2>3, <2>4, <3>2, <4>5
      <4>7. events[m].of = t /\ m \in Rows("dispatched")
        BY <1>0, <1>1, <4>4, <4>5 DEF Gives, Rows
      <4>8. CheckpointTs(t) <= 2 * m
        BY <1>0, <2>1, <2>3, <2>4, <4>5, <4>6, CheckpointTsIs
      <4>9. \A j \in Rows("checkpoint") : ~CompletedAfter(m, j, t)
        BY <2>5, <4>5, <4>8, NoneAfter
      <4> QED BY <4>7, <4>9
    <3> QED BY <3>1, <3>2
  <2>6. CASE ~named
    BY <1>0, <2>6, NamelessHolds DEF NamelessNotFound
  <2> QED BY <2>5, <2>6
<1> QED BY <1>0, <1>2, <1>3

\* After any number of crashes at any points, with rows lost on the way to the log and
\* event ids that start over at every start, replay dispatches what was in flight, not
\* what was finished, and finds no task of a dispatch that names none, for any workers,
\* tasks, budget of corrupt or lost rows and length of the log (recovery_replay.go:82-221).
THEOREM ReplayCorrect == ReplaySpec => []ReplaySound
<1>1. ReplayInv => ReplaySound
  BY InFlightHolds, NotRerun, NamelessHolds DEF ReplaySound
<1> QED BY <1>1, ReplayInvHolds, PTL

-----------------------------------------------------------------------------
(* EmbedderProcess: whose vectors a call gets.                             *)

CallRecord == [at : {"new", "lock", "write", "wait", "returned", "failed"},
               chunk : Nat, got : Seq(Text)]
ReaderRecord == [at : {"none", "scan", "read", "sent"}, overlap : BOOLEAN, out : Seq(Line)]

EmbedShape ==
    /\ embed \in [EmbedCalls -> CallRecord]
    /\ \A c \in EmbedCalls : embed[c].chunk \in 1..Chunks[c]
    /\ reading \in [Text -> ReaderRecord]
    /\ requestsPipe \in Seq(Text) /\ answersPipe \in Seq(Line) /\ scanner = <<>>

InRequest(c) == embed[c].at \in {"write", "wait"}

\* The mutex: one request at a time, and none while Close has it.
OneRequest ==
    /\ \A c, d \in EmbedCalls : InRequest(c) /\ InRequest(d) => c = d
    /\ \A c \in EmbedCalls : InRequest(c) => mutex # {} /\ closing # "waits"
    /\ closing = "waits" => mutex # {}

\* A goroutine reads for the request that waits, and what it has read is the answer to it.
ReadersAwaited ==
    \A t \in Text :
        /\ ~reading[t].overlap
        /\ reading[t].at # "none" => embed[t[1]].at = "wait" /\ embed[t[1]].chunk = t[2]
        /\ reading[t].at = "sent" => \A i \in DOMAIN reading[t].out : reading[t].out[i].text = t

\* The line of the request is in one pipe at most, and awaited there.
LineInOnePlace ==
    /\ Len(requestsPipe) + Len(answersPipe) <= 1
    /\ \A i \in DOMAIN requestsPipe : reading[requestsPipe[i]].at \in {"scan", "read"}
    /\ \A i \in DOMAIN answersPipe : reading[answersPipe[i].text].at \in {"scan", "read"}
    /\ embedChild = "dead" => requestsPipe = <<>>

OwnSoFar ==
    \A c \in EmbedCalls :
        /\ GotItsOwn(c)
        /\ embed[c].at # "returned" => Len(embed[c].got) = embed[c].chunk - 1

EmbedInv == EmbedShape /\ OneRequest /\ ReadersAwaited /\ LineInOnePlace /\ OwnSoFar

\* What a pipe holds.
LEMMA LinesInPipe ==
  /\ \A q \in Seq(Text) : DOMAIN q = 1..Len(q) /\ Len(q) \in Nat /\ \A i \in 1..Len(q) : q[i] \in Text
  /\ \A q \in Seq(Line) : DOMAIN q = 1..Len(q) /\ Len(q) \in Nat
                         /\ \A i \in 1..Len(q) : q[i] \in Line /\ q[i].text \in Text
<1>1. \A q \in Seq(Line) : DOMAIN q = 1..Len(q) /\ Len(q) \in Nat /\ \A i \in 1..Len(q) : q[i] \in Line
  OBVIOUS
<1>2. \A l \in Line : l.text \in Text
  BY DEF Line
<1>3. \A q \in Seq(Text) : DOMAIN q = 1..Len(q) /\ Len(q) \in Nat /\ \A i \in 1..Len(q) : q[i] \in Text
  OBVIOUS
<1> QED BY <1>1, <1>2, <1>3

LEMMA NotEmpty ==
  /\ \A q \in Seq(Line) : q # <<>> => 1 \in 1..Len(q) /\ Head(q) = q[1]
  /\ \A q \in Seq(Text) : q # <<>> => 1 \in 1..Len(q) /\ Head(q) = q[1]
OBVIOUS

LEMMA Texts ==
  /\ \A t \in Text : t[1] \in EmbedCalls /\ t[2] \in 1..Chunks[t[1]] /\ t = <<t[1], t[2]>>
  /\ \A c \in EmbedCalls : \A n \in 1..Chunks[c] : <<c, n>> \in Text
BY DEF Text

\* There is one goroutine that reads at most, and pipes and readers rest without a request.
LEMMA OneReader ==
  ASSUME EmbedInv
  PROVE  /\ \A t, u \in Text : reading[t].at # "none" /\ reading[u].at # "none" => t = u
         /\ \A t \in Text : (\A c \in EmbedCalls : embed[c].at # "wait") => reading[t].at = "none"
         /\ (\A t \in Text : reading[t].at \in {"none", "sent"}) => requestsPipe = <<>> /\ answersPipe = <<>>
<1>1. ASSUME NEW t \in Text, NEW u \in Text, reading[t].at # "none", reading[u].at # "none"
      PROVE  t = u
  <2>1. t[1] \in EmbedCalls /\ u[1] \in EmbedCalls /\ t = <<t[1], t[2]>> /\ u = <<u[1], u[2]>>
    BY Texts
  <2>2. embed[t[1]].at = "wait" /\ embed[t[1]].chunk = t[2] /\ embed[u[1]].at = "wait" /\ embed[u[1]].chunk = u[2]
    BY <1>1 DEF EmbedInv, ReadersAwaited
  <2>3. t[1] = u[1]
    BY <2>1, <2>2 DEF EmbedInv, OneRequest, InRequest
  <2> QED BY <2>1, <2>2, <2>3, Zenon
<1>2. ASSUME NEW t \in Text, \A c \in EmbedCalls : embed[c].at # "wait" PROVE reading[t].at = "none"
  <2>1. t[1] \in EmbedCalls
    BY Texts
  <2> QED BY <1>2, <2>1 DEF EmbedInv, ReadersAwaited
<1>3. ASSUME \A t \in Text : reading[t].at \in {"none", "sent"}
      PROVE  requestsPipe = <<>> /\ answersPipe = <<>>
  <2>1. requestsPipe \in Seq(Text) /\ answersPipe \in Seq(Line)
    BY DEF EmbedInv, EmbedShape
  <2>2. ASSUME requestsPipe # <<>> PROVE FALSE
    <3>1. 1 \in DOMAIN requestsPipe /\ requestsPipe[1] \in Text
      BY <2>1, <2>2
    <3> QED BY <1>3, <3>1 DEF EmbedInv, LineInOnePlace
  <2>3. ASSUME answersPipe # <<>> PROVE FALSE
    <3>1. 1 \in DOMAIN answersPipe /\ answersPipe[1].text \in Text
      BY <2>1, <2>3, LinesInPipe, NotEmpty
    <3> QED BY <1>3, <3>1 DEF EmbedInv, LineInOnePlace
  <2> QED BY <2>2, <2>3
<1> QED BY <1>1, <1>2, <1>3, Zenon

\* What EmbedGoto does, field by field.
LEMMA GotoFields ==
  ASSUME EmbedShape, NEW c \in EmbedCalls,
         NEW where \in {"new", "lock", "write", "wait", "returned", "failed"}, EmbedGoto(c, where)
  PROVE  /\ embed' \in [EmbedCalls -> CallRecord]
         /\ embed'[c].at = where /\ embed'[c].chunk = embed[c].chunk /\ embed'[c].got = embed[c].got
         /\ \A d \in EmbedCalls : d # c => embed'[d] = embed[d]
BY DEF EmbedShape, EmbedGoto, CallRecord

\* A call that moves without an answer keeps what it has.
LEMMA GotoKeepsOwn ==
  ASSUME EmbedInv, NEW c \in EmbedCalls,
         NEW where \in {"new", "lock", "write", "wait", "failed"}, EmbedGoto(c, where),
         embed[c].at # "returned"
  PROVE  /\ OwnSoFar' /\ embed' \in [EmbedCalls -> CallRecord]
         /\ \A d \in EmbedCalls : embed'[d].chunk \in 1..Chunks[d]
         /\ embed'[c].at = where /\ embed'[c].chunk = embed[c].chunk
         /\ \A d \in EmbedCalls : d # c => embed'[d] = embed[d]
<1>1. /\ embed' \in [EmbedCalls -> CallRecord]
      /\ embed'[c].at = where /\ embed'[c].chunk = embed[c].chunk /\ embed'[c].got = embed[c].got
      /\ \A d \in EmbedCalls : d # c => embed'[d] = embed[d]
  BY GotoFields DEF EmbedInv
<1>2. \A d \in EmbedCalls : embed'[d].chunk = embed[d].chunk /\ embed'[d].got = embed[d].got
  BY <1>1
<1>3. OwnSoFar'
  BY <1>1, <1>2 DEF EmbedInv, OwnSoFar, GotItsOwn
<1> QED BY <1>1, <1>2, <1>3 DEF EmbedInv, EmbedShape

\* A call goes on before its request, or gives it up before it is written.
LEMMA EmbedBegins ==
  ASSUME EmbedInv, NEW c \in EmbedCalls,
         NEW where \in {"lock", "write", "failed"}, EmbedGoto(c, where),
         embed[c].at \in {"new", "lock", "write"},
         UNCHANGED <<requestsPipe, answersPipe, scanner, reading, embedChild, closing>>,
         \/ where # "write" /\ mutex' = mutex /\ embed[c].at \in {"new", "lock"}
         \/ where = "failed" /\ embed[c].at = "write"
         \/ where = "write" /\ mutex = {} /\ mutex' # {}
  PROVE  EmbedInv'
<1>1. /\ OwnSoFar' /\ embed' \in [EmbedCalls -> CallRecord]
      /\ \A d \in EmbedCalls : embed'[d].chunk \in 1..Chunks[d]
      /\ embed'[c].at = where /\ embed'[c].chunk = embed[c].chunk
      /\ \A d \in EmbedCalls : d # c => embed'[d] = embed[d]
  BY GotoKeepsOwn
<1>2. EmbedShape'
  BY <1>1 DEF EmbedInv, EmbedShape
<1>3. \A d \in EmbedCalls : d # c => (InRequest(d)' <=> InRequest(d))
  BY <1>1 DEF InRequest
<1>4. InRequest(c)' <=> where = "write"
  BY <1>1 DEF InRequest
<1>5. OneRequest'
  <2>1. CASE where # "write" /\ mutex' = mutex
    BY <1>3, <1>4, <2>1 DEF EmbedInv, OneRequest
  <2>2. CASE where = "failed" /\ embed[c].at = "write"
    <3>1. InRequest(c)
      BY <2>2 DEF InRequest
    <3>2. closing # "waits" /\ \A d \in EmbedCalls : InRequest(d) => d = c
      BY <3>1 DEF EmbedInv, OneRequest
    <3>3. \A d \in EmbedCalls : ~InRequest(d)'
      BY <1>3, <1>4, <2>2, <3>2
    <3> QED BY <3>2, <3>3 DEF OneRequest
  <2>3. CASE where = "write" /\ mutex = {} /\ mutex' # {}
    <3>1. closing # "waits" /\ \A d \in EmbedCalls : ~InRequest(d)
      BY <2>3 DEF EmbedInv, OneRequest
    <3>2. \A d \in EmbedCalls : InRequest(d)' => d = c
      BY <1>3, <3>1
    <3> QED BY <2>3, <3>1, <3>2 DEF OneRequest
  <2> QED BY <2>1, <2>2, <2>3
<1>6. ReadersAwaited'
  <2> SUFFICES ASSUME NEW t \in Text
               PROVE  /\ ~reading[t].overlap
                      /\ reading[t].at # "none" => embed'[t[1]].at = "wait" /\ embed'[t[1]].chunk = t[2]
                      /\ reading[t].at = "sent" => \A i \in DOMAIN reading[t].out : reading[t].out[i].text = t
    BY DEF ReadersAwaited
  <2>1. t[1] \in EmbedCalls
    BY Texts
  <2>2. reading[t].at # "none" => embed[t[1]].at = "wait" /\ embed[t[1]].chunk = t[2]
    BY DEF EmbedInv, ReadersAwaited
  <2>3. reading[t].at # "none" => t[1] # c
    BY <2>2
  <2>4. reading[t].at # "none" => embed'[t[1]].at = "wait" /\ embed'[t[1]].chunk = t[2]
    BY <1>1, <2>1, <2>2, <2>3
  <2> QED BY <2>4 DEF EmbedInv, ReadersAwaited
<1>7. LineInOnePlace'
  BY DEF EmbedInv, LineInOnePlace
<1> QED BY <1>1, <1>2, <1>5, <1>6, <1>7 DEF EmbedInv

LEMMA EmbedWrites ==
  ASSUME EmbedInv, NEW c \in EmbedCalls, embed[c].at = "write", embedChild = "up",
         requestsPipe' = Append(requestsPipe, Asks(c)),
         reading' = [reading EXCEPT ![Asks(c)].at = "scan"], EmbedGoto(c, "wait"),
         UNCHANGED <<mutex, answersPipe, scanner, embedChild, closing>>
  PROVE  EmbedInv'
<1> DEFINE a == Asks(c)
<1>1. /\ OwnSoFar' /\ embed' \in [EmbedCalls -> CallRecord]
      /\ \A d \in EmbedCalls : embed'[d].chunk \in 1..Chunks[d]
      /\ embed'[c].at = "wait" /\ embed'[c].chunk = embed[c].chunk
      /\ \A d \in EmbedCalls : d # c => embed'[d] = embed[d]
  BY GotoKeepsOwn
<1>2. a \in Text /\ a[1] = c /\ a[2] = embed[c].chunk
  <2>1. embed[c].chunk \in 1..Chunks[c]
    BY DEF EmbedInv, EmbedShape
  <2> QED BY <2>1, Texts DEF Asks
<1>3. \A d \in EmbedCalls : InRequest(d) => d = c
  BY DEF EmbedInv, OneRequest, InRequest
<1>4. \A t \in Text : reading[t].at = "none"
  <2>1. \A d \in EmbedCalls : embed[d].at # "wait"
    BY <1>3 DEF InRequest
  <2> QED BY <2>1, OneReader
<1>5. requestsPipe = <<>> /\ answersPipe = <<>>
  BY <1>4, OneReader
<1> HIDE DEF a
<1>6. reading' = [reading EXCEPT ![a].at = "scan"] /\ requestsPipe' = Append(requestsPipe, a)
  BY DEF a
<1>7. /\ reading' \in [Text -> ReaderRecord]
      /\ reading'[a].at = "scan" /\ reading'[a].overlap = reading[a].overlap
      /\ \A t \in Text : t # a => reading'[t] = reading[t]
  <2>1. reading \in [Text -> ReaderRecord]
    BY DEF EmbedInv, EmbedShape
  <2>2. reading' = [reading EXCEPT ![a] = [reading[a] EXCEPT !.at = "scan"]]
    BY <1>6
  <2>3. PICK x : x = [reading[a] EXCEPT !.at = "scan"]
    OBVIOUS
  <2>4. x \in ReaderRecord /\ x.at = "scan" /\ x.overlap = reading[a].overlap
    BY <1>2, <2>1, <2>3 DEF ReaderRecord
  <2>5. reading' = [reading EXCEPT ![a] = x]
    BY <2>2, <2>3
  <2> QED BY <1>2, <2>1, <2>4, <2>5
<1>8. requestsPipe' = <<a>> /\ requestsPipe' \in Seq(Text) /\ Len(requestsPipe') = 1
      /\ DOMAIN requestsPipe' = {1} /\ requestsPipe'[1] = a
  BY <1>2, <1>5, <1>6
<1>9. EmbedShape'
  BY <1>1, <1>7, <1>8 DEF EmbedInv, EmbedShape
<1>10. OneRequest'
  <2>1. \A d \in EmbedCalls : InRequest(d)' <=> InRequest(d)
    BY <1>1 DEF InRequest
  <2> QED BY <2>1 DEF EmbedInv, OneRequest
<1>11. ReadersAwaited'
  <2> SUFFICES ASSUME NEW t \in Text
               PROVE  /\ ~reading'[t].overlap
                      /\ reading'[t].at # "none" => embed'[t[1]].at = "wait" /\ embed'[t[1]].chunk = t[2]
                      /\ reading'[t].at = "sent" => \A i \in DOMAIN reading'[t].out : reading'[t].out[i].text = t
    BY DEF ReadersAwaited
  <2>1. ~reading[t].overlap /\ reading[t].at = "none"
    BY <1>4 DEF EmbedInv, ReadersAwaited
  <2>2. CASE t = a
    BY <1>1, <1>2, <1>7, <2>1, <2>2
  <2>3. CASE t # a
    BY <1>7, <2>1, <2>3
  <2> QED BY <2>2, <2>3
<1>12. LineInOnePlace'
  BY <1>5, <1>7, <1>8 DEF LineInOnePlace
<1> QED BY <1>1, <1>9, <1>10, <1>11, <1>12 DEF EmbedInv

LEMMA EmbedReceives ==
  ASSUME EmbedInv, NEW c \in EmbedCalls, EmbedReceive(c)
  PROVE  EmbedInv'
<1> DEFINE a == Asks(c)
           v == Vectors(c, reading[a].out)
           e == embed[c]
           r == IF v = <<>> THEN [e EXCEPT !.at = "failed"]
                ELSE IF e.chunk < Chunks[c]
                THEN [at |-> "new", chunk |-> e.chunk + 1, got |-> e.got \o v]
                ELSE [e EXCEPT !.at = "returned", !.got = e.got \o v]
<1>1. /\ embed[c].at = "wait" /\ reading[a].at = "sent"
      /\ embed' = [embed EXCEPT ![c] = r] /\ reading' = [reading EXCEPT ![a] = NoReader]
      /\ UNCHANGED <<requestsPipe, answersPipe, scanner, embedChild, closing>>
  BY DEF EmbedReceive
<1>2. e \in CallRecord /\ e.chunk \in 1..Chunks[c] /\ Len(e.got) = e.chunk - 1 /\ GotItsOwn(c)
  BY <1>1 DEF EmbedInv, EmbedShape, OwnSoFar
<1>3. a \in Text /\ a = <<c, e.chunk>>
  BY <1>2, Texts DEF Asks
<1>4. v = <<>> \/ v = <<a>>
  <2>1. \A i \in DOMAIN reading[a].out : reading[a].out[i].text = a
    BY <1>1, <1>3 DEF EmbedInv, ReadersAwaited
  <2>2. reading[a].out \in Seq(Line)
    BY <1>3 DEF EmbedInv, EmbedShape, ReaderRecord
  <2>3. reading[a].out # <<>> => 1 \in DOMAIN reading[a].out
    BY <2>2
  <2> QED BY <2>1, <2>3 DEF Vectors
<1> HIDE DEF a, v
<1>5. /\ r \in CallRecord /\ r.chunk \in 1..Chunks[c] /\ r.at \in {"failed", "new", "returned"}
      /\ \A n \in DOMAIN r.got : r.got[n] = <<c, n>>
      /\ r.at # "returned" => Len(r.got) = r.chunk - 1
  <2>0. Chunks[c] \in Nat
    BY EmbedAssumption
  <2>1. CASE v = <<>>
    <3>1. r = [at |-> "failed", chunk |-> e.chunk, got |-> e.got]
      BY <1>2, <2>1 DEF CallRecord
    <3> HIDE DEF r
    <3> QED BY <1>2, <3>1 DEF CallRecord, GotItsOwn
  <2>2. CASE v = <<a>>
    <3>1. PICK g : g = e.got \o v
      OBVIOUS
    <3>2. e.got \in Seq(Text) /\ e.chunk \in Nat
      BY <1>2 DEF CallRecord
    <3>3. /\ g \in Seq(Text) /\ Len(g) = Len(e.got) + 1 /\ g[Len(e.got) + 1] = a
          /\ \A n \in 1..Len(e.got) : g[n] = e.got[n]
      BY <1>3, <2>2, <3>1, <3>2
    <3>4. \A n \in DOMAIN g : g[n] = <<c, n>>
      <4>0. DOMAIN g = 1..Len(g)
        BY <3>3, LinesInPipe
      <4> SUFFICES ASSUME NEW n \in 1..Len(g) PROVE g[n] = <<c, n>>
        BY <4>0
      <4>1. CASE n = Len(e.got) + 1
        BY <1>2, <1>3, <3>2, <3>3, <4>1
      <4>2. CASE n \in 1..Len(e.got)
        <5>1. n \in DOMAIN e.got
          BY <3>2, <4>2
        <5> QED BY <1>2, <3>3, <4>2, <5>1 DEF GotItsOwn
      <4>3. n = Len(e.got) + 1 \/ n \in 1..Len(e.got)
        BY <3>2, <3>3
      <4> QED BY <4>1, <4>2, <4>3
    <3>5. v # <<>>
      BY <2>2
    <3>6. CASE e.chunk < Chunks[c]
      <4>1. r = [at |-> "new", chunk |-> e.chunk + 1, got |-> g]
        BY <3>1, <3>5, <3>6
      <4> HIDE DEF r
      <4>2. e.chunk + 1 \in 1..Chunks[c] /\ e.chunk + 1 \in Nat /\ Len(g) = (e.chunk + 1) - 1
        BY <1>2, <2>0, <3>2, <3>3, <3>6
      <4> QED BY <3>3, <3>4, <4>1, <4>2 DEF CallRecord
    <3>7. CASE ~(e.chunk < Chunks[c])
      <4>1. r = [at |-> "returned", chunk |-> e.chunk, got |-> g]
        BY <1>2, <3>1, <3>5, <3>7 DEF CallRecord
      <4> HIDE DEF r
      <4> QED BY <1>2, <3>2, <3>3, <3>4, <4>1 DEF CallRecord
    <3> QED BY <3>6, <3>7
  <2> QED BY <1>4, <2>1, <2>2
<1> HIDE DEF r, e
<1>6. /\ embed' \in [EmbedCalls -> CallRecord] /\ embed'[c] = r
      /\ \A d \in EmbedCalls : d # c => embed'[d] = embed[d]
  BY <1>1, <1>5 DEF EmbedInv, EmbedShape
<1>7. \A t \in Text : t # a => reading[t].at = "none"
  BY <1>1, <1>3, OneReader
<1>8. requestsPipe = <<>> /\ answersPipe = <<>>
  BY <1>1, <1>7, OneReader
<1>9. reading' \in [Text -> ReaderRecord] /\ \A t \in Text : reading'[t].at = "none" /\ ~reading'[t].overlap
  <2>1. NoReader \in ReaderRecord /\ NoReader.at = "none" /\ ~NoReader.overlap
    BY DEF NoReader, ReaderRecord
  <2>2. \A t \in Text : ~reading[t].overlap
    BY DEF EmbedInv, ReadersAwaited
  <2>3. /\ reading' \in [Text -> ReaderRecord]
        /\ reading'[a] = NoReader /\ \A t \in Text : t # a => reading'[t] = reading[t]
    BY <1>1, <1>3, <2>1 DEF EmbedInv, EmbedShape
  <2> QED BY <1>7, <2>1, <2>2, <2>3
<1>10. EmbedShape'
  <2>1. \A d \in EmbedCalls : embed'[d].chunk \in 1..Chunks[d]
    BY <1>5, <1>6 DEF EmbedInv, EmbedShape
  <2> QED BY <1>1, <1>6, <1>9, <2>1 DEF EmbedInv, EmbedShape
<1>11. OneRequest'
  <2>1. InRequest(c)
    BY <1>1 DEF InRequest
  <2>2. closing # "waits" /\ \A d \in EmbedCalls : InRequest(d) => d = c
    BY <2>1 DEF EmbedInv, OneRequest
  <2>3. \A d \in EmbedCalls : ~InRequest(d)'
    BY <1>5, <1>6, <2>2 DEF InRequest
  <2> QED BY <1>1, <2>2, <2>3 DEF OneRequest
<1>12. ReadersAwaited'
  BY <1>9 DEF ReadersAwaited
<1>13. LineInOnePlace'
  BY <1>1, <1>8 DEF EmbedInv, LineInOnePlace
<1>14. OwnSoFar'
  <2> SUFFICES ASSUME NEW d \in EmbedCalls
               PROVE  /\ \A n \in DOMAIN embed'[d].got : embed'[d].got[n] = <<d, n>>
                      /\ embed'[d].at # "returned" => Len(embed'[d].got) = embed'[d].chunk - 1
    BY DEF OwnSoFar, GotItsOwn
  <2>1. CASE d = c
    BY <1>5, <1>6, <2>1
  <2>2. CASE d # c
    BY <1>6, <2>2 DEF EmbedInv, OwnSoFar, GotItsOwn
  <2> QED BY <2>1, <2>2
<1> QED BY <1>10, <1>11, <1>12, <1>13, <1>14 DEF EmbedInv

\* A step of the goroutine that reads for t, with what it read.
LEMMA ReaderMoves ==
  ASSUME EmbedInv, NEW t \in Text, reading[t].at \in {"scan", "read"},
         reading' \in [Text -> ReaderRecord], \A u \in Text : u # t => reading'[u] = reading[u],
         reading'[t].at # "none", ~reading'[t].overlap,
         reading'[t].at = "sent" => \A i \in DOMAIN reading'[t].out : reading'[t].out[i].text = t,
         UNCHANGED <<embed, mutex, closing, requestsPipe, embedChild>>,
         scanner' = <<>>, answersPipe' \in Seq(Line),
         \/ answersPipe' = answersPipe /\ reading'[t].at \in {"scan", "read"}
         \/ answersPipe' = <<>> /\ requestsPipe = <<>>
  PROVE  EmbedInv'
<1>1. EmbedShape'
  BY DEF EmbedInv, EmbedShape
<1>2. OneRequest'
  BY DEF EmbedInv, OneRequest, InRequest
<1>3. ReadersAwaited'
  <2> SUFFICES ASSUME NEW u \in Text
               PROVE  /\ ~reading'[u].overlap
                      /\ reading'[u].at # "none" => embed[u[1]].at = "wait" /\ embed[u[1]].chunk = u[2]
                      /\ reading'[u].at = "sent" => \A i \in DOMAIN reading'[u].out : reading'[u].out[i].text = u
    BY DEF ReadersAwaited
  <2>1. CASE u = t
    <3>1. embed[t[1]].at = "wait" /\ embed[t[1]].chunk = t[2]
      BY DEF EmbedInv, ReadersAwaited
    <3> QED BY <2>1, <3>1
  <2>2. CASE u # t
    BY <2>2 DEF EmbedInv, ReadersAwaited
  <2> QED BY <2>1, <2>2
<1>4. LineInOnePlace'
  <2>1. CASE answersPipe' = answersPipe /\ reading'[t].at \in {"scan", "read"}
    <3>1. \A u \in Text : reading[u].at \in {"scan", "read"} => reading'[u].at \in {"scan", "read"}
      BY <2>1
    <3>2. /\ \A i \in DOMAIN requestsPipe : requestsPipe[i] \in Text
          /\ \A i \in DOMAIN answersPipe : answersPipe[i].text \in Text
      BY LinesInPipe DEF EmbedInv, EmbedShape
    <3> QED BY <2>1, <3>1, <3>2 DEF EmbedInv, LineInOnePlace
  <2>2. CASE answersPipe' = <<>> /\ requestsPipe = <<>>
    BY <2>2 DEF LineInOnePlace
  <2> QED BY <2>1, <2>2
<1>5. OwnSoFar'
  BY DEF EmbedInv, OwnSoFar, GotItsOwn
<1> QED BY <1>1, <1>2, <1>3, <1>4, <1>5 DEF EmbedInv

\* A reader that takes its turn leaves its two other fields as they are assigned.
LEMMA ReaderReads ==
  ASSUME NEW x \in ReaderRecord, NEW y \in BOOLEAN
  PROVE  [x EXCEPT !.at = "read", !.overlap = y] = [at |-> "read", overlap |-> y, out |-> x.out]
<1>1. PICK z : z = [x EXCEPT !.at = "read"]
  OBVIOUS
<1>2. z = [at |-> "read", overlap |-> x.overlap, out |-> x.out]
  BY <1>1, SMT DEF ReaderRecord
<1>3. z \in ReaderRecord /\ z.out = x.out /\ z.at = "read"
  BY <1>2, SMT DEF ReaderRecord
<1>4. PICK w : w = [z EXCEPT !.overlap = y]
  OBVIOUS
<1>5. w = [at |-> "read", overlap |-> y, out |-> x.out]
  BY <1>3, <1>4 DEF ReaderRecord
<1>6. [x EXCEPT !.at = "read", !.overlap = y] = [[x EXCEPT !.at = "read"] EXCEPT !.overlap = y]
  OBVIOUS
<1> QED BY <1>1, <1>4, <1>5, <1>6, Zenon

LEMMA EmbedReader ==
  ASSUME EmbedInv, NEW t \in Text, ReaderScan(t) \/ ReaderRead(t)
  PROVE  EmbedInv'
<1>0. /\ reading \in [Text -> ReaderRecord] /\ answersPipe \in Seq(Line) /\ scanner = <<>>
      /\ ~reading[t].overlap
  BY DEF EmbedInv, EmbedShape, ReadersAwaited
<1>1. CASE ReaderScan(t)
  <2>1. reading[t].at = "scan" /\ UNCHANGED <<embed, mutex, requestsPipe, answersPipe, embedChild, closing>>
    BY <1>1 DEF ReaderScan
  <2>2. InRead = {}
    <3> SUFFICES ASSUME NEW u \in Text, reading[u].at = "read" PROVE FALSE
      BY DEF InRead
    <3>1. u = t
      BY <2>1, OneReader
    <3> QED BY <2>1, <3>1
  <2>3. reading' = [u \in Text |->
              IF u = t THEN [reading[t] EXCEPT !.at = "read", !.overlap = InRead # {}]
              ELSE IF u \in InRead THEN [reading[u] EXCEPT !.overlap = TRUE]
              ELSE reading[u]]
        /\ scanner' = scanner
    BY <1>0, <1>1 DEF ReaderScan
  <2>4. /\ \A u \in Text : u # t => reading'[u] = reading[u]
        /\ reading'[t] = [reading[t] EXCEPT !.at = "read", !.overlap = InRead # {}]
        /\ reading' = [u \in Text |-> reading'[u]]
    BY <2>2, <2>3
  <2>5. (InRead # {}) = FALSE
    BY <2>2
  <2>6. reading'[t] = [at |-> "read", overlap |-> FALSE, out |-> reading[t].out]
    <3>1. reading'[t] = [reading[t] EXCEPT !.at = "read", !.overlap = FALSE]
      BY <2>4, <2>5, Zenon
    <3>2. PICK x : x = reading[t]
      OBVIOUS
    <3>3. x \in ReaderRecord
      BY <1>0, <3>2
    <3>4. \A y \in BOOLEAN : [x EXCEPT !.at = "read", !.overlap = y] = [at |-> "read", overlap |-> y, out |-> x.out]
      BY <3>3, ReaderReads
    <3>5. FALSE \in BOOLEAN
      BY Zenon
    <3> QED BY <3>1, <3>2, <3>4, <3>5, Zenon
  <2>7. reading'[t] \in ReaderRecord /\ reading'[t].at = "read" /\ ~reading'[t].overlap
    BY <1>0, <2>6 DEF ReaderRecord
  <2>8. reading' \in [Text -> ReaderRecord]
    BY <1>0, <2>4, <2>7
  <2> QED BY <1>0, <2>1, <2>3, <2>4, <2>7, <2>8, ReaderMoves
<1>2. CASE ReaderRead(t)
  <2>1. reading[t].at = "read" /\ UNCHANGED <<embed, mutex, requestsPipe, embedChild, closing>>
    BY <1>2 DEF ReaderRead
  <2>2. ASSUME NEW out \in Seq(Line), \A i \in DOMAIN out : out[i].text = t, Sends(t, out),
               scanner' = <<>>, answersPipe' = <<>>, requestsPipe = <<>>
        PROVE  EmbedInv'
    <3>1. [at |-> "sent", overlap |-> FALSE, out |-> out] \in ReaderRecord
      BY DEF ReaderRecord
    <3>2. /\ reading' \in [Text -> ReaderRecord] /\ \A u \in Text : u # t => reading'[u] = reading[u]
          /\ reading'[t] = [at |-> "sent", overlap |-> FALSE, out |-> out]
      BY <1>0, <2>2, <3>1 DEF Sends
    <3>3. reading'[t].at = "sent" /\ ~reading'[t].overlap /\ reading'[t].out = out
      BY <3>2
    <3>4. answersPipe' \in Seq(Line)
      BY <2>2
    <3> QED BY <2>1, <2>2, <3>2, <3>3, <3>4, ReaderMoves
  <2>3. CASE \E n \in 1..Len(answersPipe) :
                /\ answersPipe' = SubSeq(answersPipe, n + 1, Len(answersPipe))
                /\ \/ Sends(t, <<Head(answersPipe)>>) /\ scanner' = scanner \o SubSeq(answersPipe, 2, n)
                   \/ reading[t].overlap /\ Sends(t, <<>>) /\ UNCHANGED scanner
    <3>1. PICK n \in 1..Len(answersPipe) :
                /\ answersPipe' = SubSeq(answersPipe, n + 1, Len(answersPipe))
                /\ Sends(t, <<Head(answersPipe)>>) /\ scanner' = scanner \o SubSeq(answersPipe, 2, n)
      BY <1>0, <2>3
    <3>2. requestsPipe \in Seq(Text) /\ Len(requestsPipe) + Len(answersPipe) <= 1
      BY DEF EmbedInv, EmbedShape, LineInOnePlace
    <3>3. Len(answersPipe) = 1 /\ n = 1 /\ Len(requestsPipe) = 0
      BY <1>0, <3>1, <3>2
    <3>4. requestsPipe = <<>>
      BY <3>2, <3>3
    <3>5. answersPipe' = <<>> /\ SubSeq(answersPipe, 2, n) = <<>>
      BY <1>0, <3>1, <3>3
    <3>6. scanner' = <<>>
      <4>1. scanner' = <<>> \o <<>>
        BY <1>0, <3>1, <3>5, Zenon
      <4>2. <<>> \o <<>> = <<>>
        OBVIOUS
      <4> QED BY <4>1, <4>2, Zenon
    <3>7. 1 \in DOMAIN answersPipe /\ Head(answersPipe) = answersPipe[1] /\ answersPipe[1] \in Line
      <4>1. answersPipe # <<>>
        BY <3>3
      <4> QED BY <1>0, <4>1, LinesInPipe, NotEmpty, Zenon
    <3>8. answersPipe[1].text = t
      <4>1. answersPipe[1].text \in Text /\ reading[answersPipe[1].text].at \in {"scan", "read"}
        BY <3>7 DEF EmbedInv, LineInOnePlace, Line
      <4> QED BY <2>1, <4>1, OneReader
    <3>9. PICK out : out = <<Head(answersPipe)>>
      OBVIOUS
    <3>10. out \in Seq(Line) /\ \A i \in DOMAIN out : out[i].text = t
      BY <3>7, <3>8, <3>9
    <3>11. Sends(t, out)
      BY <3>1, <3>9
    <3> QED BY <2>2, <3>4, <3>5, <3>6, <3>10, <3>11
  <2>4. CASE answersPipe = <<>> /\ embedChild = "dead" /\ Sends(t, <<>>) /\ UNCHANGED <<answersPipe, scanner>>
    <3>1. requestsPipe = <<>>
      BY <2>4 DEF EmbedInv, LineInOnePlace
    <3>2. <<>> \in Seq(Line) /\ \A i \in DOMAIN <<>> : <<>>[i].text = t
      OBVIOUS
    <3> QED BY <1>0, <2>2, <2>4, <3>1, <3>2
  <2> QED BY <1>2, <2>3, <2>4 DEF ReaderRead
<1> QED BY <1>1, <1>2

\* The child, and Close.
LEMMA EmbedOthers ==
  ASSUME EmbedInv, ChildAnswers \/ ChildDies \/ EmbedClose \/ CloseLocks \/ CloseReaps
  PROVE  EmbedInv'
<1>0. /\ UNCHANGED <<embed, reading, scanner>>
      /\ requestsPipe \in Seq(Text) /\ answersPipe \in Seq(Line)
  BY DEF ChildAnswers, ChildDies, EmbedClose, CloseLocks, CloseReaps, EmbedInv, EmbedShape
<1>1. ReadersAwaited' /\ OwnSoFar' /\ \A c \in EmbedCalls : InRequest(c)' <=> InRequest(c)
  BY <1>0 DEF EmbedInv, ReadersAwaited, OwnSoFar, GotItsOwn, InRequest
<1>2. SUFFICES OneRequest' /\ LineInOnePlace' /\ requestsPipe' \in Seq(Text) /\ answersPipe' \in Seq(Line)
  BY <1>0, <1>1 DEF EmbedInv, EmbedShape
<1>3. CASE ChildAnswers
  <2>1. PICK l : /\ l \in Line /\ l.text = Head(requestsPipe) /\ answersPipe' = Append(answersPipe, l)
    <3>1. PICK f \in BOOLEAN : answersPipe' = Append(answersPipe, [text |-> Head(requestsPipe), failed |-> f])
      BY <1>3 DEF ChildAnswers
    <3>2. Head(requestsPipe) \in Text
      BY <1>0, <1>3 DEF ChildAnswers
    <3>3. [text |-> Head(requestsPipe), failed |-> f] \in Line
      BY <3>2 DEF Line
    <3> QED BY <3>1, <3>3
  <2>2. requestsPipe # <<>> /\ requestsPipe' = Tail(requestsPipe) /\ UNCHANGED <<mutex, closing, embedChild>>
        /\ embedChild = "up"
    BY <1>3 DEF ChildAnswers
  <2>3. Len(requestsPipe) = 1 /\ Len(answersPipe) = 0
    <3>1. Len(requestsPipe) + Len(answersPipe) <= 1
      BY DEF EmbedInv, LineInOnePlace
    <3>2. Len(requestsPipe) \in Nat /\ Len(answersPipe) \in Nat /\ 1 \in 1..Len(requestsPipe)
      BY <1>0, <2>2, LinesInPipe, NotEmpty
    <3> QED BY <3>1, <3>2
  <2>4. requestsPipe' = <<>> /\ Head(requestsPipe) = requestsPipe[1] /\ 1 \in DOMAIN requestsPipe
    BY <1>0, <2>2, <2>3
  <2>5. answersPipe' \in Seq(Line) /\ Len(answersPipe') = 1 /\ DOMAIN answersPipe' = {1} /\ answersPipe'[1] = l
    BY <1>0, <2>1, <2>3
  <2>6. reading[l.text].at \in {"scan", "read"}
    BY <2>1, <2>4 DEF EmbedInv, LineInOnePlace
  <2>7. LineInOnePlace'
    <3>1. Len(requestsPipe') = 0 /\ DOMAIN requestsPipe' = {}
      BY <2>4
    <3>2. Len(requestsPipe') + Len(answersPipe') <= 1
      BY <2>5, <3>1
    <3> QED BY <1>0, <2>2, <2>5, <2>6, <3>1, <3>2 DEF LineInOnePlace
  <2>8. OneRequest'
    BY <1>1, <2>2 DEF EmbedInv, OneRequest
  <2> QED BY <2>4, <2>5, <2>7, <2>8
<1>4. CASE ChildDies
  <2>1. requestsPipe' = <<>> /\ UNCHANGED <<mutex, closing, answersPipe>>
    BY <1>4 DEF ChildDies
  <2>2. LineInOnePlace'
    BY <1>0, <2>1 DEF EmbedInv, LineInOnePlace
  <2>3. OneRequest'
    BY <1>1, <2>1 DEF EmbedInv, OneRequest
  <2> QED BY <1>0, <2>1, <2>2, <2>3
<1>5. CASE EmbedClose \/ CloseLocks
  <2>1. UNCHANGED <<requestsPipe, answersPipe, embedChild>>
    BY <1>5 DEF EmbedClose, CloseLocks
  <2>2. OneRequest'
    BY <1>1, <1>5 DEF EmbedClose, CloseLocks, EmbedInv, OneRequest
  <2>3. LineInOnePlace'
    BY <1>0, <2>1 DEF EmbedInv, LineInOnePlace
  <2> QED BY <1>0, <2>1, <2>2, <2>3
<1>6. CASE CloseReaps
  <2>1. closing = "waits" /\ closing' = "returned" /\ requestsPipe' = <<>> /\ answersPipe' = <<>>
    BY <1>6 DEF CloseReaps
  <2>2. OneRequest'
    BY <1>1, <2>1 DEF EmbedInv, OneRequest
  <2>3. LineInOnePlace'
    BY <2>1 DEF LineInOnePlace
  <2> QED BY <2>1, <2>2, <2>3
<1> QED BY <1>3, <1>4, <1>5, <1>6

LEMMA EmbedInvHolds == EmbedSpec => [](~abandoned => EmbedInv)
<1>1. EmbedInit => EmbedInv
  <2> SUFFICES ASSUME EmbedInit PROVE EmbedInv
    OBVIOUS
  <2>1. /\ embed = [c \in EmbedCalls |-> [at |-> "new", chunk |-> 1, got |-> <<>>]]
        /\ reading = [t \in Text |-> NoReader] /\ closing = "off"
        /\ requestsPipe = <<>> /\ answersPipe = <<>> /\ scanner = <<>>
    BY DEF EmbedInit
  <2>2. \A c \in EmbedCalls : 1 \in 1..Chunks[c]
    BY EmbedAssumption
  <2>3. NoReader \in ReaderRecord /\ NoReader.at = "none" /\ ~NoReader.overlap
    BY DEF NoReader, ReaderRecord
  <2>4. EmbedShape
    BY <2>1, <2>2, <2>3 DEF EmbedShape, CallRecord
  <2>5. OneRequest
    BY <2>1 DEF OneRequest, InRequest
  <2>6. ReadersAwaited /\ LineInOnePlace
    BY <2>1, <2>3 DEF ReadersAwaited, LineInOnePlace
  <2>7. OwnSoFar
    BY <2>1 DEF OwnSoFar, GotItsOwn
  <2> QED BY <2>4, <2>5, <2>6, <2>7 DEF EmbedInv
<1>2. (~abandoned => EmbedInv) /\ [EmbedNext]_embedVars => (~abandoned' => EmbedInv')
  <2> SUFFICES ASSUME ~abandoned => EmbedInv, [EmbedNext]_embedVars, ~abandoned' PROVE EmbedInv'
    OBVIOUS
  <2>1. ASSUME NEW c \in EmbedCalls, EmbedStep(c) PROVE EmbedInv'
    <3>0. ~EmbedGivesUp(c)
      BY DEF EmbedGivesUp
    <3>1. ~abandoned
      BY <2>1, <3>0 DEF EmbedStep, EmbedStart, EmbedLock, EmbedWrite, EmbedReceive
    <3>2. EmbedInv
      BY <3>1
    <3>3. CASE EmbedStart(c)
      <4>1. PICK where \in {"lock", "failed"} : EmbedGoto(c, where)
        BY <3>3 DEF EmbedStart
      <4> QED BY <3>2, <3>3, <4>1, EmbedBegins DEF EmbedStart
    <3>4. CASE EmbedLock(c)
      <4>1. CASE embedClosed
        BY <3>2, <3>4, <4>1, EmbedBegins DEF EmbedLock
      <4>2. CASE ~embedClosed
        BY <3>2, <3>4, <4>2, EmbedBegins DEF EmbedLock
      <4> QED BY <4>1, <4>2
    <3>5. CASE EmbedWrite(c)
      <4>1. CASE embedChild = "up"
        BY <3>2, <3>5, <4>1, EmbedWrites DEF EmbedWrite
      <4>2. CASE embedChild = "dead"
        BY <3>2, <3>5, <4>2, EmbedBegins DEF EmbedWrite
      <4> QED BY <3>5, <4>1, <4>2 DEF EmbedWrite
    <3>6. CASE EmbedReceive(c)
      BY <3>2, <3>6, EmbedReceives
    <3> QED BY <2>1, <3>0, <3>3, <3>4, <3>5, <3>6 DEF EmbedStep
  <2>2. ASSUME NEW c \in EmbedCalls, EmbedCancel(c) PROVE EmbedInv'
    BY <2>2 DEF EmbedCancel, EmbedInv, EmbedShape, OneRequest, InRequest, ReadersAwaited, LineInOnePlace,
                OwnSoFar, GotItsOwn
  <2>3. ASSUME NEW t \in Text, ReaderScan(t) \/ ReaderRead(t) PROVE EmbedInv'
    <3>1. EmbedInv
      BY <2>3 DEF ReaderScan, ReaderRead
    <3> QED BY <2>3, <3>1, EmbedReader
  <2>4. CASE ChildAnswers \/ ChildDies \/ EmbedClose \/ CloseLocks \/ CloseReaps
    <3>1. EmbedInv
      BY <2>4 DEF ChildAnswers, ChildDies, EmbedClose, CloseLocks, CloseReaps
    <3> QED BY <2>4, <3>1, EmbedOthers
  <2>5. CASE UNCHANGED embedVars
    BY <2>5 DEF embedVars, EmbedInv, EmbedShape, OneRequest, InRequest, ReadersAwaited, LineInOnePlace,
                OwnSoFar, GotItsOwn
  <2> QED BY <2>1, <2>2, <2>3, <2>4, <2>5 DEF EmbedNext
<1> QED BY <1>1, <1>2, PTL DEF EmbedSpec

\* As long as no request was given up, every vector a call has is that of the text it was
\* asked for, for any number of calls, batches of any length and pipes of any capacity,
\* whatever the child refuses and whenever it dies (embedder.go:325-365).
THEOREM EmbedCorrect == EmbedSpec => []EmbedSound
<1>1. (~abandoned => EmbedInv) => EmbedSound
  BY DEF EmbedInv, OwnSoFar, EmbedSound, OwnAnswer
<1> QED BY <1>1, EmbedInvHolds, PTL

-----------------------------------------------------------------------------
(* RemoteExec                                                              *)

CopyRecord == [bytes : Nat, sink : Nat, truncated : BOOLEAN, eof : BOOLEAN]
ResultRecord == [reason : {"normal", "timeout", "transport", "interactive_blocked"},
                 blocked : BOOLEAN, err : BOOLEAN]

\* The sizes of the chunks in q lead from a to b.
Adds(a, q, b) ==
    \E f \in [0..Len(q) -> Nat] :
        f[0] = a /\ f[Len(q)] = b /\ \A i \in 1..Len(q) : f[i] = f[i - 1] + q[i].size

\* The sink has the first bytes, up to the limit, and truncated says whether all.
KeptUpTo(k, limit) ==
    /\ k.sink = (IF k.bytes <= limit THEN k.bytes ELSE limit)
    /\ k.truncated <=> k.bytes > limit

\* What the command wrote was read or is on its way.
StreamInv ==
    /\ wire \in [StreamLabel -> Seq(Chunk)] /\ sentBytes \in [StreamLabel -> Nat]
    /\ copied \in [StreamLabel -> CopyRecord] /\ remote \in {"runs", "exited"}
    /\ \A s \in StreamLabel :
          /\ KeptUpTo(copied[s], StreamCap(s)) /\ Adds(copied[s].bytes, wire[s], sentBytes[s])
          /\ copied[s].eof => wire[s] = <<>> /\ remote # "runs"

Normal == execResult.reason = "normal" /\ ~execResult.blocked /\ ~execResult.err

\* The outcome so far, and how far Run is.
PhaseInv ==
    /\ execResult \in ResultRecord /\ triggered \in BOOLEAN /\ detected \in BOOLEAN /\ lateLook \in BOOLEAN
    /\ unwritten \in BOOLEAN
    /\ exit \in {"none", "exit", "lost"} /\ (exit = "none" <=> remote = "runs")
    /\ exec \in {"new", "started"} => \A s \in StreamLabel : ~copied[s].eof
    /\ exec = "new" => execRows = <<>> /\ ~unwritten
    /\ exec = "started" => execRows = <<"started">> /\ ~unwritten
    /\ exec \in {"new", "started", "select", "grace", "look"} => Normal
    /\ exec \in {"select", "grace", "look", "killed", "join"} =>
          IF execResult.blocked THEN execRows = Closed("blocked")
          ELSE execRows = <<"started">> /\ ~unwritten
    /\ exec \in {"killed", "join"} =>
          IF execResult.blocked THEN execResult.err /\ execResult.reason = "interactive_blocked"
          ELSE Normal \/ (execResult.reason = "timeout" /\ execResult.err)
    /\ exec \in {"grace", "look", "join"} => remote = "exited"
    /\ triggered => detected \/ execResult.blocked
    /\ exec = "look" /\ ~lateLook => StreamsDone
    /\ exec = "killed" => lateLook \/ execResult.blocked
    /\ exec = "join" /\ ~lateLook /\ ~execResult.blocked => StreamsDone /\ ~detected
    /\ exec = "returned" /\ StreamsDone =>
          /\ execRows = Closed(IF execResult.blocked THEN "blocked" ELSE "completed")
          /\ triggered => execResult.blocked \/ lateLook
          /\ ~execResult.err <=> execResult.reason = "normal" /\ exit = "exit"

ExecInv == StreamInv /\ PhaseInv

LEMMA AddsNothing == \A a, b : Adds(a, <<>>, b) => a = b
BY DEF Adds

LEMMA AddsFrom == \A a \in Nat : Adds(a, <<>>, a)
<1> SUFFICES ASSUME NEW a \in Nat PROVE Adds(a, <<>>, a)
  OBVIOUS
<1> DEFINE f == [i \in 0..0 |-> a]
<1>1. f \in [0..Len(<<>>) -> Nat] /\ f[0] = a /\ Len(<<>>) = 0
  OBVIOUS
<1> HIDE DEF f
<1> QED BY <1>1 DEF Adds

LEMMA AddsAtEnd ==
  ASSUME NEW a, NEW b \in Nat, NEW q \in Seq(Chunk), NEW c \in Chunk, Adds(a, q, b)
  PROVE  Adds(a, Append(q, c), b + c.size)
<1>1. PICK n, p, z : n = Len(q) /\ p = Append(q, c) /\ z = c.size
  OBVIOUS
<1>2. /\ n \in Nat /\ Len(p) = n + 1 /\ p[n + 1] = c /\ (\A i \in 1..n : p[i] = q[i]) /\ z \in Nat
  BY <1>1 DEF Chunk
<1>3. PICK f \in [0..n -> Nat] : f[0] = a /\ f[n] = b /\ \A i \in 1..n : f[i] = f[i - 1] + q[i].size
  BY <1>1 DEF Adds
<1> DEFINE g == [i \in 0..(n + 1) |-> IF i = n + 1 THEN b + z ELSE f[i]]
<1>4. /\ g \in [0..(n + 1) -> Nat] /\ g[0] = a /\ g[n + 1] = b + z
      /\ \A i \in 0..n : g[i] = f[i]
  BY <1>2, <1>3
<1> HIDE DEF g
<1>5. \A i \in 1..(n + 1) : g[i] = g[i - 1] + p[i].size
  <2> SUFFICES ASSUME NEW i \in 1..(n + 1) PROVE g[i] = g[i - 1] + p[i].size
    OBVIOUS
  <2>1. CASE i = n + 1
    <3>1. g[i - 1] = b /\ p[i].size = z
      BY <1>1, <1>2, <1>3, <1>4, <2>1
    <3> QED BY <1>4, <2>1, <3>1
  <2>2. CASE i # n + 1
    <3>1. i \in 1..n /\ i \in 0..n /\ i - 1 \in 0..n
      BY <1>2, <2>2
    <3> QED BY <1>2, <1>3, <1>4, <3>1
  <2> QED BY <2>1, <2>2
<1>6. Adds(a, p, b + z)
  BY <1>2, <1>4, <1>5 DEF Adds
<1> QED BY <1>1, <1>6

LEMMA AddsAtFront ==
  ASSUME NEW a \in Nat, NEW b, NEW q \in Seq(Chunk), q # <<>>, Adds(a, q, b)
  PROVE  Adds(a + Head(q).size, Tail(q), b)
<1>1. PICK n, p, z : n = Len(q) /\ p = Tail(q) /\ z = Head(q).size
  OBVIOUS
<1>2. /\ n \in Nat \ {0} /\ Len(p) = n - 1 /\ q[1].size = z /\ (\A i \in 1..(n - 1) : p[i] = q[i + 1])
  <2>1. Head(q) = q[1] /\ Len(q) \in Nat \ {0}
    OBVIOUS
  <2>2. Len(Tail(q)) = Len(q) - 1 /\ \A i \in 1..Len(Tail(q)) : Tail(q)[i] = q[i + 1]
    BY HeadTailProperties, Zenon
  <2> QED BY <1>1, <2>1, <2>2
<1>3. PICK f \in [0..n -> Nat] : f[0] = a /\ f[n] = b /\ \A i \in 1..n : f[i] = f[i - 1] + q[i].size
  BY <1>1 DEF Adds
<1> DEFINE g == [i \in 0..(n - 1) |-> f[i + 1]]
<1>4. g \in [0..(n - 1) -> Nat] /\ \A i \in 0..(n - 1) : g[i] = f[i + 1]
  <2>1. \A i \in 0..(n - 1) : i + 1 \in 0..n
    BY <1>2
  <2>2. \A i \in 0..(n - 1) : f[i + 1] \in Nat
    BY <1>3, <2>1
  <2> QED BY <2>2, Zenon
<1> HIDE DEF g
<1>5. g[0] = a + z /\ g[n - 1] = b
  <2>1. f[1] = f[0] + q[1].size
    <3>1. 1 \in 1..n /\ 1 - 1 = 0
      BY <1>2
    <3>2. f[1] = f[1 - 1] + q[1].size
      BY <1>3, <3>1, Zenon
    <3> QED BY <3>1, <3>2
  <2>2. g[0] = f[1] /\ g[n - 1] = f[n]
    <3>1. 0 \in 0..(n - 1) /\ n - 1 \in 0..(n - 1) /\ 0 + 1 = 1 /\ (n - 1) + 1 = n
      BY <1>2
    <3>2. g[0] = f[0 + 1] /\ g[n - 1] = f[(n - 1) + 1]
      BY <1>4, <3>1, Zenon
    <3> QED BY <3>1, <3>2
  <2> QED BY <1>2, <1>3, <2>1, <2>2
<1>6. \A i \in 1..(n - 1) : g[i] = g[i - 1] + p[i].size
  <2> SUFFICES ASSUME NEW i \in 1..(n - 1) PROVE g[i] = g[i - 1] + p[i].size
    OBVIOUS
  <2>1. i + 1 \in 1..n /\ i \in 0..(n - 1) /\ i - 1 \in 0..(n - 1) /\ (i - 1) + 1 = i /\ (i + 1) - 1 = i
    BY <1>2
  <2>2. f[i + 1] = f[i] + q[i + 1].size
    BY <1>3, <2>1
  <2> QED BY <1>2, <1>4, <2>1, <2>2
<1>7. Adds(a + z, p, b)
  BY <1>2, <1>4, <1>5, <1>6 DEF Adds
<1> QED BY <1>1, <1>7

LEMMA MinOfTwo == \A x, y \in Int : Min({x, y}) = IF x <= y THEN x ELSE y
<1> SUFFICES ASSUME NEW x \in Int, NEW y \in Int PROVE Min({x, y}) = IF x <= y THEN x ELSE y
  OBVIOUS
<1>1. \E m \in {x, y} : \A k \in {x, y} : m <= k
  OBVIOUS
<1>2. Min({x, y}) \in {x, y} /\ \A k \in {x, y} : Min({x, y}) <= k
  BY <1>1, Zenon DEF Min
<1>3. PICK m : m = Min({x, y})
  OBVIOUS
<1>4. (m = x \/ m = y) /\ m <= x /\ m <= y
  BY <1>2, <1>3
<1> QED BY <1>3, <1>4

LEMMA MaxOfTwo == \A x, y \in Int : Max({x, y}) = IF x >= y THEN x ELSE y
<1> SUFFICES ASSUME NEW x \in Int, NEW y \in Int PROVE Max({x, y}) = IF x >= y THEN x ELSE y
  OBVIOUS
<1>1. \E m \in {x, y} : \A k \in {x, y} : m >= k
  OBVIOUS
<1>2. Max({x, y}) \in {x, y} /\ \A k \in {x, y} : Max({x, y}) >= k
  BY <1>1, Zenon DEF Max
<1>3. PICK m : m = Max({x, y})
  OBVIOUS
<1>4. (m = x \/ m = y) /\ m >= x /\ m >= y
  BY <1>2, <1>3
<1> QED BY <1>3, <1>4

LEMMA KeptKeeps ==
  ASSUME NEW k \in CopyRecord, NEW size \in Nat \ {0}, NEW limit \in Nat \ {0}, KeptUpTo(k, limit)
  PROVE  /\ Kept(k, size, limit) \in CopyRecord /\ KeptUpTo(Kept(k, size, limit), limit)
         /\ Kept(k, size, limit).bytes = k.bytes + size /\ Kept(k, size, limit).eof = k.eof
<1>1. PICK room, b : room = Max({0, limit - k.bytes}) /\ b = k.bytes
  OBVIOUS
<1>2. b \in Nat /\ k.sink \in Nat /\ k.truncated \in BOOLEAN /\ k.eof \in BOOLEAN /\ limit - b \in Int
  BY <1>1 DEF CopyRecord
<1>3. room = (IF b <= limit THEN limit - b ELSE 0) /\ room \in Nat
  BY <1>1, <1>2, MaxOfTwo
<1>4. Min({size, room}) = IF size <= room THEN size ELSE room
  BY <1>3, MinOfTwo
<1>5. PICK x : x = k.sink + Min({size, room})
  OBVIOUS
<1>6. x \in Nat /\ x = (IF b + size <= limit THEN b + size ELSE limit)
  <2>1. k.sink = IF b <= limit THEN b ELSE limit
    BY <1>1 DEF KeptUpTo
  <2> QED BY <1>2, <1>3, <1>4, <1>5, <2>1
<1>7. PICK y \in BOOLEAN : y <=> k.truncated \/ room = 0 \/ size > room
  BY Zenon
<1>8. y <=> b + size > limit
  <2>1. k.truncated <=> b > limit
    BY <1>1 DEF KeptUpTo
  <2> QED BY <1>2, <1>3, <1>7, <2>1
<1>9. Kept(k, size, limit) = [bytes |-> b + size, sink |-> x, truncated |-> y, eof |-> k.eof]
  <2>1. (k.truncated \/ room = 0 \/ size > room) = y
    BY <1>7
  <2>2. Kept(k, size, limit) = [k EXCEPT !.bytes = b + size, !.sink = x, !.truncated = y]
    BY <1>1, <1>5, <2>1, Zenon DEF Kept
  <2> QED BY <1>2, <2>2 DEF CopyRecord
<1>10. PICK r : r = Kept(k, size, limit)
  OBVIOUS
<1>11. r.bytes = b + size /\ r.sink = x /\ r.truncated = y /\ r.eof = k.eof /\ r \in CopyRecord
  BY <1>2, <1>6, <1>9, <1>10 DEF CopyRecord
<1>12. KeptUpTo(r, limit)
  BY <1>6, <1>8, <1>11 DEF KeptUpTo
<1> QED BY <1>1, <1>10, <1>11, <1>12

LEMMA RowsOfRun ==
  /\ Append(<<>>, "started") = <<"started">>
  /\ Append(<<"started">>, "blocked") = <<"started", "blocked">>
  /\ Append(<<"started">>, "completed") = <<"started", "completed">>
<1>1. ASSUME NEW T, NEW x \in T PROVE Append(<<>>, x) = <<x>>
  OBVIOUS
<1>2. ASSUME NEW T, NEW x \in T, NEW y \in T PROVE Append(<<x>>, y) = <<x, y>>
  <2>1. <<x>> \in Seq(T) /\ <<x, y>> \in Seq(T) /\ Len(<<x>>) = 1 /\ Len(<<x, y>>) = 2
    OBVIOUS
  <2>2. Append(<<x>>, y) \in Seq(T) /\ Len(Append(<<x>>, y)) = 2
    BY <2>1
  <2>3. Append(<<x>>, y)[1] = x /\ Append(<<x>>, y)[2] = y /\ <<x, y>>[1] = x /\ <<x, y>>[2] = y
    BY <2>1
  <2>4. PICK p, q : p = Append(<<x>>, y) /\ q = <<x, y>>
    OBVIOUS
  <2>5. p \in Seq(T) /\ q \in Seq(T) /\ Len(p) = Len(q) /\ \A i \in 1..Len(p) : p[i] = q[i]
    BY <2>1, <2>2, <2>3, <2>4
  <2>6. p = q
    BY <2>5, SeqEqual
  <2> QED BY <2>4, <2>6
<1>3. PICK T : T = {"started", "blocked", "completed"}
  OBVIOUS
<1>4. "started" \in T /\ "blocked" \in T /\ "completed" \in T
  BY <1>3
<1> QED BY <1>1, <1>2, <1>4

\* Nothing is written or read.
LEMMA StreamsRest ==
  ASSUME StreamInv, UNCHANGED <<wire, sentBytes, copied>>, remote' \in {remote, "exited"}
  PROVE  StreamInv'
<1>1. \A s \in StreamLabel :
         /\ KeptUpTo(copied[s], StreamCap(s))' /\ Adds(copied[s].bytes, wire[s], sentBytes[s])'
         /\ copied'[s].eof => wire'[s] = <<>> /\ remote' # "runs"
  <2>1. ASSUME NEW s \in StreamLabel
        PROVE  KeptUpTo(copied[s], StreamCap(s))' /\ Adds(copied[s].bytes, wire[s], sentBytes[s])'
    <3>1. KeptUpTo(copied[s], StreamCap(s)) /\ Adds(copied[s].bytes, wire[s], sentBytes[s])
      BY DEF StreamInv
    <3>2. KeptUpTo(copied[s], StreamCap(s))'
      BY <3>1 DEF KeptUpTo, StreamCap
    <3>3. Adds(copied[s].bytes, wire[s], sentBytes[s])'
      BY <3>1 DEF Adds
    <3> QED BY <3>2, <3>3
  <2> QED BY <2>1 DEF StreamInv
<1> QED BY <1>1 DEF StreamInv

LEMMA WritesKeep ==
  ASSUME ExecInv, NEW s \in StreamLabel, RemoteWrites(s)
  PROVE  ExecInv'
<1>1. PICK c \in Chunk : /\ wire' = [wire EXCEPT ![s] = Append(wire[s], c)]
                         /\ sentBytes' = [sentBytes EXCEPT ![s] = sentBytes[s] + c.size]
  BY DEF RemoteWrites
<1>2. /\ remote = "runs" /\ UNCHANGED <<exec, exit, execRows, execResult, remote, copied, seen, triggered, detected, lateLook, unwritten>>
      /\ StreamInv /\ PhaseInv
  BY DEF RemoteWrites, ExecInv
<1>3. PICK q, b : q = wire[s] /\ b = sentBytes[s]
  OBVIOUS
<1>4. q \in Seq(Chunk) /\ b \in Nat /\ c.size \in Nat
  BY <1>2, <1>3 DEF StreamInv, Chunk
<1>5. Adds(copied[s].bytes, Append(q, c), b + c.size)
  BY <1>2, <1>3, <1>4, AddsAtEnd DEF StreamInv
<1>6. /\ wire' \in [StreamLabel -> Seq(Chunk)] /\ wire'[s] = Append(q, c)
      /\ \A u \in StreamLabel : u # s => wire'[u] = wire[u]
      /\ sentBytes' \in [StreamLabel -> Nat] /\ sentBytes'[s] = b + c.size
      /\ \A u \in StreamLabel : u # s => sentBytes'[u] = sentBytes[u]
  <2>1. Append(q, c) \in Seq(Chunk) /\ b + c.size \in Nat
    BY <1>4
  <2>2. wire \in [StreamLabel -> Seq(Chunk)] /\ sentBytes \in [StreamLabel -> Nat]
    BY <1>2 DEF StreamInv
  <2> QED BY <1>1, <1>3, <2>1, <2>2
<1>7. ASSUME NEW u \in StreamLabel
      PROVE  /\ KeptUpTo(copied[u], StreamCap(u)) /\ Adds(copied[u].bytes, wire'[u], sentBytes'[u])
             /\ copied[u].eof => wire'[u] = <<>> /\ remote # "runs"
  <2>1. ~copied[u].eof /\ KeptUpTo(copied[u], StreamCap(u)) /\ Adds(copied[u].bytes, wire[u], sentBytes[u])
    BY <1>2 DEF StreamInv
  <2>2. CASE u = s
    BY <1>5, <1>6, <2>1, <2>2
  <2>3. CASE u # s
    BY <1>6, <2>1, <2>3
  <2> QED BY <2>2, <2>3
<1>8. StreamInv'
  <2>1. \A u \in StreamLabel : KeptUpTo(copied[u], StreamCap(u))' /\ Adds(copied[u].bytes, wire[u], sentBytes[u])'
    BY <1>2, <1>7 DEF KeptUpTo, Adds, StreamCap
  <2> QED BY <1>2, <1>6, <1>7, <2>1 DEF StreamInv
<1>9. PhaseInv'
  BY <1>2 DEF PhaseInv, Normal, StreamsDone, Closed
<1> QED BY <1>8, <1>9 DEF ExecInv

\* A copy that goes on has neither ended before nor been waited for.
LEMMA CopyPhase ==
  ASSUME PhaseInv, NEW s \in StreamLabel, ~copied[s].eof, Open,
         UNCHANGED <<exec, exit, execRows, execResult, remote, lateLook, unwritten>>,
         triggered' \in BOOLEAN, detected' \in BOOLEAN,
         triggered' => detected' \/ execResult.blocked
  PROVE  PhaseInv'
<1>1. ~StreamsDone /\ exec \notin {"new", "started", "returned"}
  BY DEF StreamsDone, Open
<1>2. Normal' <=> Normal
  BY DEF Normal
<1>3. /\ execResult' \in ResultRecord /\ lateLook' \in BOOLEAN
      /\ exit' \in {"none", "exit", "lost"} /\ (exit' = "none" <=> remote' = "runs")
      /\ exec' \in {"select", "grace", "look"} => Normal'
      /\ exec' \in {"select", "grace", "look", "killed", "join"} =>
          IF execResult'.blocked THEN execRows' = Closed("blocked")'
          ELSE execRows' = <<"started">> /\ ~unwritten'
      /\ exec' \in {"killed", "join"} =>
          IF execResult'.blocked THEN execResult'.err /\ execResult'.reason = "interactive_blocked"
          ELSE Normal' \/ (execResult'.reason = "timeout" /\ execResult'.err)
      /\ exec' \in {"grace", "look", "join"} => remote' = "exited"
      /\ exec' = "killed" => lateLook' \/ execResult'.blocked
  BY <1>2 DEF PhaseInv, Closed
<1>4. (exec = "look" => lateLook) /\ (exec = "join" => lateLook \/ execResult.blocked)
  BY <1>1 DEF PhaseInv
<1> QED BY <1>1, <1>3, <1>4 DEF PhaseInv

LEMMA CopyKeeps ==
  ASSUME ExecInv, NEW s \in StreamLabel, CopyStream(s)
  PROVE  ExecInv'
<1>1. /\ Open /\ ~copied[s].eof /\ UNCHANGED <<exec, exit, execRows, execResult, remote, sentBytes, lateLook, unwritten>>
      /\ StreamInv /\ PhaseInv
  BY DEF CopyStream, ExecInv
<1>2. PICK k, q : k = copied[s] /\ q = wire[s]
  OBVIOUS
<1>3. /\ k \in CopyRecord /\ q \in Seq(Chunk) /\ KeptUpTo(k, StreamCap(s)) /\ Adds(k.bytes, q, sentBytes[s])
      /\ wire \in [StreamLabel -> Seq(Chunk)] /\ copied \in [StreamLabel -> CopyRecord]
      /\ \A u \in StreamLabel : /\ KeptUpTo(copied[u], StreamCap(u)) /\ Adds(copied[u].bytes, wire[u], sentBytes[u])
                                /\ copied[u].eof => wire[u] = <<>> /\ remote # "runs"
  BY <1>1, <1>2 DEF StreamInv
\* The copy of s is x afterwards, and p is on its way.
<1>4. ASSUME NEW x \in CopyRecord, NEW p \in Seq(Chunk), copied' = [copied EXCEPT ![s] = x],
             wire' = [wire EXCEPT ![s] = p], KeptUpTo(x, StreamCap(s)), Adds(x.bytes, p, sentBytes[s]),
             x.eof => p = <<>> /\ remote # "runs"
      PROVE  StreamInv'
  <2>1. /\ wire' \in [StreamLabel -> Seq(Chunk)] /\ wire'[s] = p
        /\ \A u \in StreamLabel : u # s => wire'[u] = wire[u]
        /\ copied' \in [StreamLabel -> CopyRecord] /\ copied'[s] = x
        /\ \A u \in StreamLabel : u # s => copied'[u] = copied[u]
    BY <1>3, <1>4
  <2>2. \A u \in StreamLabel : /\ KeptUpTo(copied'[u], StreamCap(u)) /\ Adds(copied'[u].bytes, wire'[u], sentBytes[u])
                               /\ copied'[u].eof => wire'[u] = <<>> /\ remote # "runs"
    BY <1>3, <1>4, <2>1
  <2>3. \A u \in StreamLabel : KeptUpTo(copied[u], StreamCap(u))' /\ Adds(copied[u].bytes, wire[u], sentBytes[u])'
    BY <1>1, <2>2 DEF KeptUpTo, Adds, StreamCap
  <2> QED BY <1>1, <2>1, <2>2, <2>3 DEF StreamInv
<1>5. CASE /\ q # <<>> /\ Feed(Head(q)) /\ wire' = [wire EXCEPT ![s] = Tail(q)]
           /\ copied' = [copied EXCEPT ![s] = Kept(k, Head(q).size, StreamCap(s))]
  <2>1. Head(q) \in Chunk /\ Tail(q) \in Seq(Chunk)
    BY <1>3, <1>5
  <2>2. Head(q).size \in Nat \ {0} /\ StreamCap(s) \in Nat \ {0} /\ k.bytes \in Nat
    BY <1>3, <2>1, ExecAssumption DEF Chunk, StreamCap, CopyRecord
  <2>3. PICK x : x = Kept(k, Head(q).size, StreamCap(s))
    OBVIOUS
  <2>4. /\ x \in CopyRecord /\ KeptUpTo(x, StreamCap(s)) /\ x.bytes = k.bytes + Head(q).size /\ x.eof = k.eof
    BY <1>3, <2>2, <2>3, KeptKeeps
  <2>5. Adds(x.bytes, Tail(q), sentBytes[s])
    BY <1>3, <1>5, <2>2, <2>4, AddsAtFront
  <2>6. StreamInv'
    BY <1>1, <1>2, <1>4, <1>5, <2>1, <2>3, <2>4, <2>5
  <2>7. triggered' \in BOOLEAN /\ detected' \in BOOLEAN /\ (triggered' => detected' \/ execResult.blocked)
    <3>1. CASE UNCHANGED <<triggered, detected>>
      BY <1>1, <3>1 DEF PhaseInv
    <3>2. CASE ~UNCHANGED <<triggered, detected>>
      <4>1. PICK c : c = Head(q)
        OBVIOUS
      <4>2. c.prompt \in BOOLEAN
        BY <2>1, <4>1 DEF Chunk
      <4>3. PICK n : triggered' = (c.prompt /\ n = c.size) /\ detected' = (c.prompt /\ n = c.size)
        BY <1>5, <3>2, <4>1, Zenon DEF Feed
      <4> QED BY <4>2, <4>3
    <3> QED BY <3>1, <3>2
  <2>8. PhaseInv'
    BY <1>1, <2>7, CopyPhase
  <2> QED BY <2>6, <2>8 DEF ExecInv
<1>6. CASE /\ q = <<>> /\ remote # "runs" /\ copied' = [copied EXCEPT ![s].eof = TRUE]
           /\ UNCHANGED <<wire, seen, triggered, detected>>
  <2>1. PICK x : x = [k EXCEPT !.eof = TRUE]
    OBVIOUS
  <2>2. x = [bytes |-> k.bytes, sink |-> k.sink, truncated |-> k.truncated, eof |-> TRUE]
    BY <1>3, <2>1 DEF CopyRecord
  <2>3. x \in CopyRecord /\ x.bytes = k.bytes /\ KeptUpTo(x, StreamCap(s))
    BY <1>3, <2>2 DEF CopyRecord, KeptUpTo
  <2>4. copied' = [copied EXCEPT ![s] = x] /\ wire' = [wire EXCEPT ![s] = q]
    BY <1>2, <1>3, <1>6, <2>1
  <2>5. StreamInv'
    BY <1>3, <1>4, <1>6, <2>3, <2>4
  <2>6. PhaseInv'
    BY <1>1, <1>6, CopyPhase DEF PhaseInv
  <2> QED BY <2>5, <2>6 DEF ExecInv
<1> QED BY <1>2, <1>5, <1>6 DEF CopyStream

\* The command ends.
LEMMA EndsKeep == ASSUME ExecInv, RemoteEnds PROVE ExecInv'
<1>1. /\ remote = "runs" /\ remote' = "exited" /\ exit' \in {"exit", "lost"} /\ Open
      /\ UNCHANGED <<exec, execRows, execResult, wire, sentBytes, copied, triggered, detected, lateLook, unwritten>>
  BY DEF RemoteEnds
<1>2. StreamInv'
  BY <1>1, StreamsRest DEF ExecInv
<1>3. PhaseInv'
  BY <1>1 DEF ExecInv, PhaseInv, Normal, StreamsDone, Open, Closed
<1> QED BY <1>2, <1>3 DEF ExecInv

\* The row that closes a command is written, or it is known not to be.
LEMMA RowWritten ==
  ASSUME NEW row \in {"blocked", "completed"}, EmitRow(row), execRows = <<"started">>, ~unwritten,
         unwritten \in BOOLEAN
  PROVE  execRows' = Closed(row)' /\ unwritten' \in BOOLEAN
<1>1. CASE execRows' = Append(execRows, row) /\ UNCHANGED unwritten
  <2>1. Append(<<"started">>, row) = <<"started", row>>
    BY RowsOfRun, Zenon
  <2> QED BY <1>1, <2>1 DEF Closed
<1>2. CASE execRows' = execRows /\ unwritten' = TRUE
  BY <1>2 DEF Closed
<1> QED BY <1>1, <1>2 DEF EmitRow

\* Run, which leaves the streams alone.
LEMMA ExecRunKeeps == ASSUME ExecInv, ExecRun \/ SelectWatchdog PROVE ExecInv'
<1>0. /\ StreamInv /\ PhaseInv /\ UNCHANGED <<exit, remote, wire, sentBytes, copied, triggered>>
      /\ execResult \in ResultRecord
  BY DEF ExecInv, PhaseInv, ExecRun, SelectWatchdog, ExecDenied, ExecUnrecorded, ExecStarted, ExecConnect, SelectDone,
         SelectTriggered, Grace, Look, KilledEnds, Finish
<1>1. StreamInv' /\ (StreamsDone' <=> StreamsDone)
  BY <1>0, StreamsRest DEF StreamsDone
<1>2. PICK res : res = execResult
  OBVIOUS
<1>3. res = [reason |-> res.reason, blocked |-> res.blocked, err |-> res.err]
  BY <1>0, <1>2 DEF ResultRecord
<1>4. SUFFICES PhaseInv'
  BY <1>1 DEF ExecInv
<1>5. CASE ExecDenied \/ ExecUnrecorded \/ (ExecConnect /\ exec' = "returned")
  <2>1. /\ exec \in {"new", "started"} /\ exec' = "returned" /\ UNCHANGED <<detected, lateLook>>
        /\ execResult' = [execResult EXCEPT !.err = TRUE]
        /\ unwritten' = TRUE \/ unwritten' = unwritten
    BY <1>5 DEF ExecDenied, ExecUnrecorded, ExecConnect, RunOver, EmitRow
  <2>2. execResult' = [reason |-> res.reason, blocked |-> res.blocked, err |-> TRUE]
    BY <1>0, <1>2, <2>1 DEF ResultRecord
  <2>3. execResult' \in ResultRecord /\ execResult'.blocked = execResult.blocked
    BY <1>0, <1>2, <2>2 DEF ResultRecord
  <2>4. ~StreamsDone'
    BY <1>0, <1>1, <2>1 DEF PhaseInv, StreamsDone, StreamLabel
  <2> QED BY <1>0, <2>1, <2>3, <2>4 DEF PhaseInv
<1>6. CASE ExecStarted \/ (ExecConnect /\ exec' = "select")
  <2>1. UNCHANGED <<execResult, detected, lateLook, unwritten>> /\ (Normal' <=> Normal)
    BY <1>6 DEF ExecStarted, ExecConnect, RunOver, Normal
  <2>2. \/ exec = "new" /\ exec' = "started" /\ execRows' = Append(execRows, "started")
        \/ exec = "started" /\ exec' = "select" /\ execRows' = execRows
    BY <1>6 DEF ExecStarted, ExecConnect, EmitRow, RunOver
  <2>3. execRows' = <<"started">> /\ ~unwritten
    BY <1>0, <2>2, RowsOfRun DEF PhaseInv
  <2>4. Normal /\ \A s \in StreamLabel : ~copied[s].eof
    BY <1>0, <2>2 DEF PhaseInv
  <2>5. ~execResult.blocked
    BY <2>4 DEF Normal
  <2> QED BY <1>0, <2>1, <2>2, <2>3, <2>4, <2>5 DEF PhaseInv
<1>7. CASE SelectDone \/ Grace \/ KilledEnds
  <2>1. /\ UNCHANGED <<execRows, execResult, detected, unwritten>> /\ (Normal' <=> Normal)
        /\ Closed("blocked")' = Closed("blocked")
        /\ \/ exec = "select" /\ remote = "exited" /\ exec' = "grace" /\ lateLook' = lateLook
           \/ exec = "grace" /\ exec' = "look" /\ lateLook' = ~StreamsDone
           \/ exec = "killed" /\ remote = "exited" /\ exec' = "join" /\ lateLook' = lateLook
    BY <1>7 DEF SelectDone, Grace, KilledEnds, Normal, Closed
  <2>2. CASE exec = "select" /\ remote = "exited" /\ exec' = "grace" /\ lateLook' = lateLook
    BY <1>0, <2>1, <2>2 DEF PhaseInv
  <2>3. CASE exec = "grace" /\ exec' = "look" /\ lateLook' = ~StreamsDone
    <3>1. lateLook' \in BOOLEAN /\ (lateLook' <=> ~StreamsDone)
      BY <2>3
    <3> QED BY <1>0, <1>1, <2>1, <2>3, <3>1 DEF PhaseInv
  <2>4. CASE exec = "killed" /\ remote = "exited" /\ exec' = "join" /\ lateLook' = lateLook
    BY <1>0, <2>1, <2>4 DEF PhaseInv
  <2> QED BY <2>1, <2>2, <2>3, <2>4
<1>8. CASE SelectWatchdog
  <2>1. /\ exec = "select" /\ exec' = "killed" /\ lateLook' = TRUE /\ UNCHANGED <<execRows, detected, unwritten>>
        /\ execResult' = [execResult EXCEPT !.reason = "timeout", !.err = TRUE]
    BY <1>8 DEF SelectWatchdog
  <2>2. execResult' = [reason |-> "timeout", blocked |-> res.blocked, err |-> TRUE]
    BY <1>0, <1>2, <2>1 DEF ResultRecord
  <2>3. /\ execResult' \in ResultRecord /\ execResult'.blocked = execResult.blocked /\ execResult'.err
        /\ execResult'.reason = "timeout"
    BY <1>0, <1>2, <2>2 DEF ResultRecord
  <2>4. ~execResult.blocked
    BY <1>0, <2>1 DEF PhaseInv, Normal
  <2> QED BY <1>0, <2>1, <2>3, <2>4 DEF PhaseInv
\* A prompt is reported.
<1>9. CASE SelectTriggered \/ (Look /\ detected)
  <2>1. /\ exec \in {"select", "look"} /\ execResult' = Blocked /\ EmitRow("blocked")
        /\ detected' = FALSE /\ UNCHANGED lateLook
        /\ (exec = "select" /\ exec' = "killed") \/ (exec = "look" /\ exec' = "join")
    BY <1>9 DEF SelectTriggered, Look
  <2>2. execResult' = [reason |-> "interactive_blocked", blocked |-> TRUE, err |-> TRUE]
    BY <1>0, <2>1 DEF Blocked, ResultRecord
  <2>3. /\ execResult' \in ResultRecord /\ execResult'.blocked /\ execResult'.err
        /\ execResult'.reason = "interactive_blocked"
    BY <2>2 DEF ResultRecord
  <2>4. execRows' = Closed("blocked")' /\ unwritten' \in BOOLEAN
    <3>1. execRows = <<"started">> /\ ~unwritten /\ unwritten \in BOOLEAN
      BY <1>0, <2>1 DEF PhaseInv, Normal
    <3> QED BY <2>1, <3>1, RowWritten
  <2> QED BY <1>0, <2>1, <2>3, <2>4 DEF PhaseInv
<1>10. CASE Look /\ ~detected
  <2>1. exec = "look" /\ exec' = "join" /\ UNCHANGED <<detected, execResult, execRows, lateLook, unwritten>>
        /\ (Normal' <=> Normal)
    BY <1>10 DEF Look, Normal
  <2>2. Normal /\ remote = "exited" /\ (~lateLook => StreamsDone) /\ ~execResult.blocked /\ execRows = <<"started">>
        /\ ~unwritten
    BY <1>0, <2>1 DEF PhaseInv, Normal
  <2>3. ~triggered
    BY <1>0, <1>10, <2>2 DEF PhaseInv
  <2> QED BY <1>0, <1>1, <1>10, <2>1, <2>2, <2>3 DEF PhaseInv
<1>11. CASE Finish
  <2>1. /\ exec = "join" /\ StreamsDone /\ exec' = "returned" /\ UNCHANGED <<detected, lateLook>>
        /\ IF execResult.blocked THEN UNCHANGED <<execRows, unwritten>> ELSE EmitRow("completed")
        /\ execResult' = IF exit = "lost" /\ ~execResult.blocked
                         THEN [execResult EXCEPT !.reason = IF execResult.reason = "normal" THEN "transport" ELSE execResult.reason,
                                                 !.err = TRUE]
                         ELSE execResult
    BY <1>11 DEF Finish, RunOver
  <2>2. /\ exit \in {"exit", "lost"}
        /\ IF execResult.blocked THEN execResult.err /\ execResult.reason = "interactive_blocked"
           ELSE Normal \/ (execResult.reason = "timeout" /\ execResult.err)
        /\ IF execResult.blocked THEN execRows = Closed("blocked")
           ELSE execRows = <<"started">> /\ ~unwritten
        /\ triggered => execResult.blocked \/ lateLook
    BY <1>0, <2>1 DEF PhaseInv
  <2>3. PICK row : row = IF execResult.blocked THEN "blocked" ELSE "completed"
    OBVIOUS
  <2>4. execRows' = Closed(row)' /\ unwritten' \in BOOLEAN
    <3>0. unwritten \in BOOLEAN
      BY <1>0 DEF PhaseInv
    <3>1. CASE execResult.blocked
      BY <2>1, <2>2, <2>3, <3>0, <3>1 DEF Closed
    <3>2. CASE ~execResult.blocked
      BY <2>1, <2>2, <2>3, <3>0, <3>2, RowWritten
    <3> QED BY <3>1, <3>2
  <2>5. CASE exit = "lost" /\ ~execResult.blocked
    <3>1. PICK why : why = IF res.reason = "normal" THEN "transport" ELSE res.reason
      OBVIOUS
    <3>2. why \in {"transport", "timeout"}
      BY <1>2, <2>2, <2>5, <3>1 DEF Normal
    <3>3. execResult' = [reason |-> why, blocked |-> res.blocked, err |-> TRUE]
      BY <1>0, <1>2, <2>1, <2>5, <3>1 DEF ResultRecord
    <3>4. /\ execResult' \in ResultRecord /\ execResult'.blocked = execResult.blocked /\ execResult'.err
          /\ execResult'.reason # "normal"
      BY <1>0, <1>2, <3>2, <3>3 DEF ResultRecord
    <3>5. execRows' = Closed(IF execResult.blocked THEN "blocked" ELSE "completed")'
      BY <2>3, <2>4, <3>4
    <3> QED BY <1>0, <2>1, <2>2, <2>4, <2>5, <3>4, <3>5 DEF PhaseInv
  <2>6. CASE ~(exit = "lost" /\ ~execResult.blocked)
    <3>1. execResult' = execResult
      BY <2>1, <2>6
    <3>2. ~execResult.err <=> execResult.reason = "normal" /\ exit = "exit"
      BY <1>0, <2>2, <2>6 DEF Normal, ResultRecord
    <3>3. execRows' = Closed(IF execResult.blocked THEN "blocked" ELSE "completed")'
      BY <2>3, <2>4, <3>1
    <3> QED BY <1>0, <2>1, <2>2, <2>4, <3>1, <3>2, <3>3 DEF PhaseInv
  <2> QED BY <2>5, <2>6
<1>12. ExecConnect => exec' = "returned" \/ exec' = "select"
  BY DEF ExecConnect, RunOver
<1> QED BY <1>5, <1>6, <1>7, <1>8, <1>9, <1>10, <1>11, <1>12 DEF ExecRun

LEMMA ExecInvHolds == ExecSpec => []ExecInv
<1>1. ExecInit => ExecInv
  <2> SUFFICES ASSUME ExecInit PROVE ExecInv
    OBVIOUS
  <2>1. PICK k : k = [bytes |-> 0, sink |-> 0, truncated |-> FALSE, eof |-> FALSE]
    OBVIOUS
  <2>2. /\ exec = "new" /\ exit = "none" /\ execRows = <<>> /\ remote = "runs"
        /\ execResult = [reason |-> "normal", blocked |-> FALSE, err |-> FALSE]
        /\ wire = [s \in StreamLabel |-> <<>>] /\ sentBytes = [s \in StreamLabel |-> 0]
        /\ copied = [s \in StreamLabel |-> k]
        /\ triggered = FALSE /\ detected = FALSE /\ lateLook = FALSE
        /\ unwritten = FALSE
    BY <2>1 DEF ExecInit
  <2>3. k \in CopyRecord /\ ~k.eof /\ k.bytes = 0 /\ \A s \in StreamLabel : KeptUpTo(k, StreamCap(s))
    BY <2>1, ExecAssumption DEF CopyRecord, KeptUpTo, StreamCap
  <2>4. Adds(0, <<>>, 0)
    BY AddsFrom
  <2>5. StreamInv
    BY <2>2, <2>3, <2>4 DEF StreamInv
  <2>6. PhaseInv
    BY <2>2, <2>3 DEF PhaseInv, Normal, ResultRecord
  <2> QED BY <2>5, <2>6 DEF ExecInv
<1>2. ExecInv /\ [ExecNext]_execVars => ExecInv'
  <2> SUFFICES ASSUME ExecInv, [ExecNext]_execVars PROVE ExecInv'
    OBVIOUS
  <2>1. ASSUME NEW s \in StreamLabel, RemoteWrites(s) PROVE ExecInv'
    BY <2>1, WritesKeep
  <2>2. ASSUME NEW s \in StreamLabel, CopyStream(s) PROVE ExecInv'
    BY <2>2, CopyKeeps
  <2>3. CASE ExecRun \/ SelectWatchdog
    BY <2>3, ExecRunKeeps
  <2>4. CASE RemoteEnds
    BY <2>4, EndsKeep
  <2>5. CASE UNCHANGED execVars
    <3>1. UNCHANGED <<exec, exit, execRows, execResult, remote, wire, sentBytes, copied, triggered, detected, lateLook, unwritten>>
      BY <2>5 DEF execVars
    <3>2. StreamInv'
      BY <3>1, StreamsRest DEF ExecInv
    <3>3. PhaseInv'
      BY <3>1 DEF ExecInv, PhaseInv, Normal, StreamsDone, Closed
    <3> QED BY <3>2, <3>3 DEF ExecInv
  <2> QED BY <2>1, <2>2, <2>3, <2>4, <2>5 DEF ExecNext
<1> QED BY <1>1, <1>2, PTL DEF ExecSpec

\* A command that ran to its end has one row that says how it ended, unless the emitter
\* failed to write it, and never a second or another one, all its bytes read and
\* the first of them kept, up to the limit, a detected prompt reported unless it came after
\* the time or the grace, and an error unless its own status is reported, for windows and
\* limits of any size and output of any length (exec.go:228-313, interactive.go:43-76).
THEOREM ExecCorrect == ExecSpec => []ExecSound
<1>1. ExecInv => ExecSound
  <2> SUFFICES ASSUME ExecInv, exec = "returned", StreamsDone
               PROVE  /\ execRows = Closed(IF execResult.blocked THEN "blocked" ELSE "completed")
                      /\ \A s \in StreamLabel :
                            LET k == copied[s]
                            IN /\ k.bytes = sentBytes[s] /\ k.sink = Min({k.bytes, StreamCap(s)})
                               /\ k.truncated <=> k.bytes > StreamCap(s)
                      /\ triggered => execResult.blocked \/ lateLook
                      /\ ~execResult.err <=> execResult.reason = "normal" /\ exit = "exit"
    BY DEF ExecSound
  <2>1. ASSUME NEW s \in StreamLabel
        PROVE  /\ copied[s].bytes = sentBytes[s] /\ copied[s].sink = Min({copied[s].bytes, StreamCap(s)})
               /\ copied[s].truncated <=> copied[s].bytes > StreamCap(s)
    <3>1. PICK k : k = copied[s]
      OBVIOUS
    <3>2. k \in CopyRecord /\ KeptUpTo(k, StreamCap(s)) /\ Adds(k.bytes, wire[s], sentBytes[s]) /\ wire[s] = <<>>
      BY <3>1 DEF ExecInv, StreamInv, StreamsDone
    <3>3. Adds(k.bytes, <<>>, sentBytes[s])
      BY <3>2
    <3>4. k.bytes = sentBytes[s]
      BY <3>3, AddsNothing
    <3>5. k.bytes \in Int /\ StreamCap(s) \in Int
      BY <3>2, ExecAssumption DEF CopyRecord, StreamCap
    <3>6. k.sink = Min({k.bytes, StreamCap(s)})
      BY <3>2, <3>5, MinOfTwo DEF KeptUpTo
    <3> QED BY <3>1, <3>2, <3>4, <3>6 DEF KeptUpTo
  <2> QED BY <2>1 DEF ExecInv, PhaseInv
<1> QED BY <1>1, ExecInvHolds, PTL

-----------------------------------------------------------------------------
(* What the inductive invariants say of types                              *)

LEMMA ReplayTyped == ReplaySpec => []ReplayTypeOK
<1>1. ReplayInv => ReplayTypeOK
  BY DEF ReplayInv, ReplayShape, ReplayTypeOK, LogRow, Assignment
<1> QED BY <1>1, ReplayInvHolds, PTL

-----------------------------------------------------------------------------
(* AuditChain: the cursor of Backfill stays within the table               *)

AuditBounds ==
    /\ \A i \in DOMAIN raw : raw[i].leaf \in BOOLEAN
    /\ boot.after \in 0..Len(raw)
    /\ boot.step = "serving" => boot = Serving
    /\ \A a \in Emitters : emit[a].step = "idle" => emit[a] = Idle

LEMMA AuditStays ==
  ASSUME AuditInv, AuditBounds, [AuditNext]_auditVars
  PROVE  AuditBounds'
<1>0. AuditShape /\ Len(raw) \in Nat /\ DOMAIN raw = 1..Len(raw) /\ DOMAIN emit = Emitters
  BY RawIs DEF AuditInv, AuditShape
<1>a. ASSUME NEW e, InsertRow(e)
      PROVE  (\A k \in DOMAIN raw' : raw'[k].leaf \in BOOLEAN) /\ boot.after \in 0..Len(raw')
  <2>1. /\ Len(raw') = Len(raw) + 1 /\ DOMAIN raw' = 1..(Len(raw) + 1)
        /\ \A k \in DOMAIN raw : raw'[k] = raw[k]
        /\ raw'[Len(raw) + 1] = [event |-> e, prev |-> NoHash, hash |-> NoHash, leaf |-> FALSE]
    BY <1>0, <1>a, RowInserted, Zenon
  <2>2. raw'[Len(raw) + 1].leaf = FALSE
    BY <2>1
  <2>3. \A k \in DOMAIN raw' : k \in DOMAIN raw \/ k = Len(raw) + 1
    BY <1>0, <2>1
  <2>4. \A k \in DOMAIN raw' : raw'[k].leaf \in BOOLEAN
    BY <2>1, <2>2, <2>3 DEF AuditBounds
  <2> QED BY <1>0, <2>1, <2>4 DEF AuditBounds
<1>1. CASE EmitRaw
  <2>1. InsertRow(emitted') /\ UNCHANGED <<emit, boot>>
    BY <1>1 DEF EmitRaw
  <2> QED BY <1>a, <2>1 DEF AuditBounds, Serving, Idle
<1>2. ASSUME NEW a \in Emitters, EmitStart(a) PROVE AuditBounds'
  <2>1. UNCHANGED <<raw, boot>> /\ emit'[a].step = "insert" /\ \A b \in Emitters \ {a} : emit'[b] = emit[b]
    BY <1>0, <1>2 DEF EmitStart
  <2> QED BY <2>1 DEF AuditBounds, Serving, Idle
<1>3. ASSUME NEW a \in Emitters, EmitInsert(a) PROVE AuditBounds'
  <2>1. InsertRow(emit[a].event) /\ boot' = boot /\ emit' = [emit EXCEPT ![a].step = "link"]
    BY <1>3 DEF EmitInsert
  <2>2. emit'[a].step = "link" /\ \A b \in Emitters \ {a} : emit'[b] = emit[b]
    BY <1>0, <2>1, EmitMoves
  <2> QED BY <1>a, <2>1, <2>2 DEF AuditBounds, Serving, Idle
<1>4. ASSUME NEW e, NEW p, UpdateChainColumns(e, p)
      PROVE  Len(raw') = Len(raw) /\ DOMAIN raw' = DOMAIN raw /\ \A k \in DOMAIN raw : raw'[k].leaf = raw[k].leaf
  <2>1. PICK i \in DOMAIN raw :
           /\ raw[i].event = e /\ raw[i].hash = NoHash
           /\ raw' = [raw EXCEPT ![i] = [event |-> e, prev |-> p, hash |-> Compute(p, e), leaf |-> @.leaf]]
    BY <1>4 DEF UpdateChainColumns
  <2>2. raw' = [raw EXCEPT ![i] = [event |-> raw[i].event, prev |-> p, hash |-> Compute(p, raw[i].event),
                                   leaf |-> raw[i].leaf]]
    BY <2>1
  <2>3. /\ \E T : raw' \in Seq(T)
        /\ DOMAIN raw' = DOMAIN raw /\ \A k \in DOMAIN raw \ {i} : raw'[k] = raw[k]
        /\ raw'[i] = [event |-> raw[i].event, prev |-> p, hash |-> Compute(p, raw[i].event), leaf |-> raw[i].leaf]
    BY <1>0, <2>1, <2>2, RowLinked, Zenon
  <2>4. Len(raw') = Len(raw)
    BY <1>0, <2>3
  <2> QED BY <2>3, <2>4
<1>5. ASSUME NEW a \in Emitters, EmitLink(a) PROVE AuditBounds'
  <2>1. /\ UpdateChainColumns(emit[a].event, emit[a].tip) /\ boot' = boot
        /\ emit' = [emit EXCEPT ![a].step = "leaf"]
    BY <1>5 DEF EmitLink
  <2>2. emit'[a].step = "leaf" /\ \A b \in Emitters \ {a} : emit'[b] = emit[b]
    BY <1>0, <2>1, EmitMoves
  <2> QED BY <1>4, <2>1, <2>2 DEF AuditBounds, Serving, Idle
<1>6. ASSUME NEW a \in Emitters, AppendTesseraLeaf(a) PROVE AuditBounds'
  <2>1. UNCHANGED <<raw, boot>> /\ emit' = [emit EXCEPT ![a].step = "mark"]
    BY <1>6 DEF AppendTesseraLeaf
  <2>2. emit'[a].step = "mark" /\ \A b \in Emitters \ {a} : emit'[b] = emit[b]
    BY <1>0, <2>1, EmitMoves
  <2> QED BY <2>1, <2>2 DEF AuditBounds, Serving, Idle
<1>7. ASSUME NEW a \in Emitters, UpdateTesseraLeafID(a) PROVE AuditBounds'
  <2>1. PICK i \in DOMAIN raw : raw' = [raw EXCEPT ![i].leaf = TRUE]
    BY <1>7 DEF UpdateTesseraLeafID
  <2>2. boot' = boot /\ emit'[a] = Idle /\ \A b \in Emitters \ {a} : emit'[b] = emit[b]
    BY <1>0, <1>7 DEF UpdateTesseraLeafID
  <2>3. (\E T : raw' \in Seq(T)) /\ DOMAIN raw' = DOMAIN raw
    BY <1>0, <2>1, RowMarked
  <2>4. Len(raw') = Len(raw)
    BY <1>0, <2>3
  <2>5. \A k \in DOMAIN raw : raw'[k].leaf \in BOOLEAN
    <3> TAKE k \in DOMAIN raw
    <3>1. CASE k # i
      BY <2>1, <3>1 DEF AuditBounds
    <3>2. CASE k = i
      <4>1. raw'[i] = [raw[i] EXCEPT !.leaf = TRUE] /\ AuditRow(raw[i])
        BY <1>0, <2>1 DEF AuditShape
      <4>2. raw'[i].leaf = TRUE
        BY <4>1, LeafExcept
      <4> QED BY <3>2, <4>2
    <3> QED BY <3>1, <3>2
  <2> QED BY <2>2, <2>3, <2>4, <2>5 DEF AuditBounds, Serving, Idle
<1>8. ASSUME NEW a \in Emitters, EmitFails(a) PROVE AuditBounds'
  <2>1. UNCHANGED <<raw, boot>> /\ emit'[a] = Idle /\ \A b \in Emitters \ {a} : emit'[b] = emit[b]
    BY <1>0, <1>8 DEF EmitFails
  <2> QED BY <2>1 DEF AuditBounds, Serving, Idle
<1>9. CASE BackfillScan
  <2>1. UNCHANGED <<raw, emit>> /\ boot'.after = boot.after /\ boot'.step \in {"scan", "linked"}
    BY <1>0, <1>9, BootIs DEF BackfillScan
  <2> QED BY <2>1 DEF AuditBounds, Idle
<1>10. CASE BackfillRow
  <2> DEFINE i == FirstOf(boot.batch)
  <2>1. /\ boot.step = "scan" /\ boot.batch # {} /\ UpdateChainColumns(raw[i].event, boot.prev) /\ emit' = emit
        /\ boot'.step = "scan" /\ boot'.after = i
    BY <1>10 DEF BackfillRow
  <2>2. i \in DOMAIN raw
    <3>1. boot.batch \subseteq 1..Len(raw)
      BY <1>0, <2>1 DEF AuditInv, Cursor
    <3>2. \E n \in boot.batch : \A m \in boot.batch : n <= m
      BY <2>1, <3>1, SmallestOf
    <3>3. FirstOf(boot.batch) \in boot.batch
      BY <3>2 DEF FirstOf
    <3> QED BY <1>0, <3>1, <3>3
  <2> HIDE DEF i
  <2> QED BY <1>0, <1>4, <2>1, <2>2 DEF AuditBounds, Idle
<1>11. CASE BootEnds
  <2>1. UNCHANGED <<raw, emit>> /\ boot' = Serving
    BY <1>11 DEF BootEnds
  <2> QED BY <1>0, <2>1 DEF AuditBounds, Serving, Idle
<1>12. CASE Reboot
  <2>1. /\ raw' = raw /\ boot'.step = "scan" /\ boot'.after = 0
        /\ \A a \in Emitters : emit'[a] = Idle
    BY <1>12 DEF Reboot, Backfilling
  <2> QED BY <1>0, <2>1 DEF AuditBounds, Idle
<1>13. CASE UNCHANGED auditVars
  BY <1>13 DEF auditVars, AuditBounds, Serving, Idle
<1> QED BY <1>1, <1>2, <1>3, <1>5, <1>6, <1>7, <1>8, <1>9, <1>10, <1>11, <1>12, <1>13 DEF AuditNext

LEMMA AuditTyped == AuditSpec => []AuditTypeOK
<1>1. AuditInit => AuditBounds
  <2> SUFFICES ASSUME AuditInit PROVE AuditBounds
    OBVIOUS
  <2>1. raw = <<>> /\ boot = Serving /\ \A a \in Emitters : emit[a] = Idle
    BY DEF AuditInit
  <2>2. DOMAIN raw = {} /\ Len(raw) = 0
    BY <2>1
  <2> QED BY <2>1, <2>2 DEF AuditBounds, Serving
<1>2. AuditInv /\ AuditBounds => AuditTypeOK
  <2> SUFFICES ASSUME AuditInv, AuditBounds PROVE AuditTypeOK
    OBVIOUS
  <2>1. boot # Serving => boot.step # "serving"
    BY DEF AuditBounds
  <2> QED BY <2>1 DEF AuditInv, AuditShape, AuditBounds, AuditTypeOK
<1> QED BY <1>1, <1>2, AuditStays, AuditInvHolds, PTL DEF AuditSpec

-----------------------------------------------------------------------------
(* EventBatcher: the channel and the batch stay within their sizes         *)

BatcherBounds ==
    /\ Len(queue) <= QueueSize
    /\ looping # "drain" => Len(batch) < MaxBatch
    /\ looping \in {"select", "drain", "ended"}

LEMMA BatcherStays ==
  ASSUME BatcherInv, BatcherBounds, [BatcherNext]_batcherVars
  PROVE  BatcherBounds'
<1>0. /\ queue \in Seq(PostedEvent) /\ batch \in Seq(PostedEvent)
      /\ Len(queue) \in Nat /\ Len(batch) \in Nat /\ MaxBatch \in Nat \ {0} /\ QueueSize \in Nat
      /\ queue # <<>> => Len(Tail(queue)) = Len(queue) - 1
      /\ Len(<<>>) = 0
  BY BatcherAssumption DEF BatcherInv, QueueSize
<1>1. ASSUME NEW r \in Requests, EventsIngest(r) \/ Submit(r) PROVE BatcherBounds'
  <2>1. CASE EventsIngest(r)
    BY <2>1 DEF EventsIngest, BatcherBounds
  <2>2. CASE Submit(r)
    <3>1. /\ UNCHANGED <<batch, looping>> /\ Len(queue) < QueueSize
          /\ \E e \in PostedEvent : queue' = Append(queue, e)
      BY <2>2 DEF Submit, PostedEvent
    <3>2. Len(queue') = Len(queue) + 1
      BY <1>0, <3>1
    <3> QED BY <1>0, <3>1, <3>2 DEF BatcherBounds, QueueSize
  <2> QED BY <1>1, <2>1, <2>2
<1>2. CASE RunReceive
  <2>1. /\ looping = "select" /\ queue # <<>> /\ queue' = Tail(queue) /\ looping' = looping
        /\ batch' = <<>> \/ (batch' = Append(batch, Head(queue)) /\ ~(Len(batch') >= MaxBatch))
    BY <1>2 DEF RunReceive
  <2>2. Head(queue) \in PostedEvent
    BY <1>0, <2>1
  <2>3. Len(batch') < MaxBatch
    <3>1. CASE batch' = <<>>
      BY <1>0, <3>1
    <3>2. CASE batch' = Append(batch, Head(queue)) /\ ~(Len(batch') >= MaxBatch)
      <4>1. Len(batch') = Len(batch) + 1
        BY <1>0, <2>2, <3>2
      <4> QED BY <1>0, <3>2, <4>1
    <3> QED BY <2>1, <3>1, <3>2
  <2> QED BY <1>0, <2>1, <2>3 DEF BatcherBounds, QueueSize
<1>3. CASE RunTick
  <2>1. batch' = <<>> /\ UNCHANGED <<queue, looping>>
    BY <1>3 DEF RunTick
  <2>2. Len(batch') < MaxBatch
    BY <1>0, <2>1
  <2> QED BY <2>1, <2>2 DEF BatcherBounds
<1>4. CASE RunDone
  BY <1>4 DEF RunDone, BatcherBounds
<1>5. CASE RunDrain
  <2>1. CASE queue # <<>> /\ queue' = Tail(queue) /\ looping' = looping /\ looping = "drain"
    BY <1>0, <2>1 DEF BatcherBounds, QueueSize
  <2>2. CASE batch' = <<>> /\ looping' = "ended" /\ queue' = queue
    <3>1. Len(batch') < MaxBatch
      BY <1>0, <2>2
    <3> QED BY <2>2, <3>1 DEF BatcherBounds
  <2> QED BY <1>5, <2>1, <2>2 DEF RunDrain
<1>6. CASE Stop \/ StartReturns \/ Exit \/ UNCHANGED batcherVars
  BY <1>6 DEF Stop, StartReturns, Exit, batcherVars, BatcherBounds
<1> QED BY <1>1, <1>2, <1>3, <1>4, <1>5, <1>6 DEF BatcherNext, RunStep

LEMMA BatcherTyped == BatcherSpec => []BatcherTypeOK
<1>1. BatcherInit => BatcherBounds
  <2> SUFFICES ASSUME BatcherInit PROVE BatcherBounds
    OBVIOUS
  <2>1. queue = <<>> /\ batch = <<>> /\ looping = "select" /\ Len(<<>>) = 0
    BY DEF BatcherInit
  <2>2. Len(queue) = 0 /\ Len(batch) = 0
    BY <2>1
  <2> QED BY <2>1, <2>2, BatcherAssumption DEF BatcherBounds, QueueSize
<1>2. BatcherInv /\ BatcherBounds => BatcherTypeOK
  BY DEF BatcherInv, BatcherBounds, BatcherTypeOK
<1> QED BY <1>1, <1>2, BatcherStays, BatcherInvHolds, PTL DEF BatcherSpec


-----------------------------------------------------------------------------
(* SessionTransport: the two channels stay within their sizes              *)

ChannelBounds ==
    /\ Len(recvCh) <= RecvSize
    /\ sendCh \in Nat /\ sendCh <= SendSize + 1
    /\ writer # "write" => sendCh <= SendSize
    /\ writer = "write" => sendCh > 0

LEMMA TransportStays ==
  ASSUME PipeInv, ChannelBounds, [TransportNext]_transportVars
  PROVE  ChannelBounds'
<1>0. /\ recvCh \in Seq(Nat) /\ Len(recvCh) \in Nat /\ RecvSize \in Nat /\ SendSize \in Nat
      /\ recvCh # <<>> => Len(Tail(recvCh)) = Len(recvCh) - 1
      /\ stdoutPipe \in Seq(Nat) /\ (reader = "hand" => stdoutPipe # <<>>)
  BY TransportAssumption DEF PipeInv, FramesTyped, HandIsGood
<1>1. CASE \/ \E k \in FrameKind : ChildWrites(k)
           \/ \E how \in {"clean", "failed"} : ChildExits(how)
           \/ \E s \in Senders : SendStart(s)
           \/ \E c \in Closers : CloseStart(c) \/ CloseStep(c)
           \/ ReadFrame \/ ReadEnds \/ WaiterStep \/ UNCHANGED transportVars
  <2>1. UNCHANGED <<recvCh, sendCh, writer>>
    BY <1>1 DEF ChildWrites, ChildExits, SendStart, CloseStart, CloseStep, CloseKills, CloseSeesExit,
                CloseLoads, ReadFrame, ReadEnds, WaiterStep, WaitReaps, WaitStores, WaitSignals, WaitOnce,
                transportVars, readVars, writeVars
  <2> QED BY <2>1 DEF ChannelBounds
<1>2. ASSUME NEW s \in Senders, SendSelect(s) PROVE ChannelBounds'
  <2>1. /\ UNCHANGED <<recvCh, writer>>
        /\ \/ sendCh' = sendCh
           \/ sendCh < (IF writer = "write" THEN SendSize + 1 ELSE SendSize) /\ sendCh' = sendCh + 1
    BY <1>2 DEF SendSelect, readVars
  <2> QED BY <1>0, <2>1 DEF ChannelBounds
<1>3. CASE ReceiveFrame
  <2>1. recvCh # <<>> /\ recvCh' = Tail(recvCh) /\ UNCHANGED <<sendCh, writer>>
    BY <1>3 DEF ReceiveFrame, writeVars
  <2> QED BY <1>0, <2>1 DEF ChannelBounds
<1>4. CASE HandFrame
  <2>1. /\ UNCHANGED <<sendCh, writer>> /\ reader = "hand"
        /\ recvCh' = recvCh \/ (Len(recvCh) < RecvSize /\ recvCh' = Append(recvCh, Head(stdoutPipe)))
    BY <1>4 DEF HandFrame, writeVars
  <2>2. Head(stdoutPipe) \in Nat
    BY <1>0, <2>1
  <2>3. Len(recvCh') <= RecvSize
    <3>1. CASE recvCh' = recvCh
      BY <3>1 DEF ChannelBounds
    <3>2. CASE Len(recvCh) < RecvSize /\ recvCh' = Append(recvCh, Head(stdoutPipe))
      <4>1. Len(recvCh') = Len(recvCh) + 1
        BY <1>0, <2>2, <3>2
      <4> QED BY <1>0, <3>2, <4>1
    <3> QED BY <2>1, <3>1, <3>2
  <2> QED BY <2>1, <2>3 DEF ChannelBounds
<1>5. CASE WriterSelect
  <2>1. /\ recvCh' = recvCh /\ writer = "select"
        /\ \/ writer' = "ended" /\ sendCh' = sendCh
           \/ sendCh > 0 /\ writer' = "write" /\ sendCh' = sendCh
           \/ sendCh > 0 /\ writer' = "ended" /\ sendCh' = sendCh - 1
    BY <1>5 DEF WriterSelect, readVars
  <2> QED BY <1>0, <2>1 DEF ChannelBounds
<1>6. CASE WriterWrite
  <2>1. recvCh' = recvCh /\ writer = "write" /\ writer' \in {"select", "ended"} /\ sendCh' = sendCh - 1
    BY <1>6 DEF WriterWrite, readVars
  <2> QED BY <1>0, <2>1 DEF ChannelBounds
<1> QED BY <1>1, <1>2, <1>3, <1>4, <1>5, <1>6 DEF TransportNext, ReaderStep, WriterStep

LEMMA TransportTyped == TransportSpec => []TransportTypeOK
<1>1. TransportInit => ChannelBounds
  <2> SUFFICES ASSUME TransportInit PROVE ChannelBounds
    OBVIOUS
  <2>1. recvCh = <<>> /\ Len(<<>>) = 0 /\ sendCh = 0 /\ writer = "select"
    BY DEF TransportInit
  <2>2. Len(recvCh) = 0
    BY <2>1
  <2> QED BY <2>1, <2>2, TransportAssumption DEF ChannelBounds
<1>2. PipeInv /\ ExitInv /\ ChannelBounds => TransportTypeOK
  BY DEF PipeInv, FramesTyped, HandIsGood, ExitInv, ChannelBounds, TransportTypeOK
<1> QED BY <1>1, <1>2, TransportStays, TransportInvHolds, PTL DEF TransportSpec


-----------------------------------------------------------------------------
(* RemoteExec: bytes, rows and the place of Run                            *)

RowKind == {"denied", "started", "blocked", "completed"}

ExecBounds ==
    /\ exec \in {"new", "started", "select", "grace", "look", "killed", "join", "returned"}
    /\ execRows \in Seq(RowKind) /\ seen \in 0..DetectorWindow
    /\ \A s \in StreamLabel : sentBytes[s] <= MaxSent

\* Chunks have sizes, so that they lead upwards.
LEMMA AddsUpward ==
  ASSUME NEW a \in Nat, NEW b \in Nat, NEW q \in Seq(Chunk), Adds(a, q, b)
  PROVE  a <= b
<1>1. PICK n : n = Len(q)
  OBVIOUS
<1>2. n \in Nat /\ \A i \in 1..n : q[i].size \in Nat
  <2>1. n \in Nat /\ \A i \in 1..n : q[i] \in Chunk
    BY <1>1
  <2>2. \A c \in Chunk : c.size \in Nat
    BY DEF Chunk
  <2> QED BY <2>1, <2>2
<1>3. PICK f \in [0..n -> Nat] : f[0] = a /\ f[n] = b /\ \A i \in 1..n : f[i] = f[i - 1] + q[i].size
  BY <1>1 DEF Adds
<1> SUFFICES ASSUME ~(a <= b) PROVE FALSE
  OBVIOUS
<1> DEFINE S == {i \in 0..n : f[i] < a}
<1>4. S \subseteq Nat /\ n \in S
  BY <1>2, <1>3
<1>5. PICK m \in S : \A k \in S : m <= k
  <2> HIDE DEF S
  <2> QED BY <1>4, SmallestOf, Zenon
<1>6. m \in 0..n /\ f[m] < a /\ f[m] \in Nat
  BY <1>3, <1>5
<1>7. m # 0
  BY <1>3, <1>6
<1>8. m \in 1..n /\ m - 1 \in 0..n
  BY <1>2, <1>6, <1>7
<1>9. m - 1 \notin S
  BY <1>5, <1>8
<1>10. f[m - 1] >= a /\ f[m - 1] \in Nat
  BY <1>3, <1>8, <1>9
<1>11. f[m] = f[m - 1] + q[m].size /\ q[m].size \in Nat
  BY <1>2, <1>3, <1>8
<1> QED BY <1>6, <1>10, <1>11

\* A Read moves the detector forward, up to the end of its window.
LEMMA FeedStays ==
  ASSUME NEW c \in Chunk, Feed(c), seen \in 0..DetectorWindow
  PROVE  seen' \in 0..DetectorWindow
<1>0. c.size \in Nat /\ DetectorWindow \in Nat
  BY ExecAssumption DEF Chunk
<1>1. CASE triggered \/ seen >= DetectorWindow
  BY <1>1 DEF Feed
<1>2. CASE ~(triggered \/ seen >= DetectorWindow)
  <2>1. DetectorWindow - seen \in Nat
    BY <1>0, <1>2
  <2>2. PICK n : n = Min({c.size, DetectorWindow - seen})
    OBVIOUS
  <2>3. n = (IF c.size <= DetectorWindow - seen THEN c.size ELSE DetectorWindow - seen)
    BY <1>0, <2>1, <2>2, MinOfTwo
  <2>4. seen' = seen + n
    BY <1>2, <2>2 DEF Feed
  <2> QED BY <1>0, <2>1, <2>3, <2>4
<1> QED BY <1>1, <1>2

LEMMA ExecStays ==
  ASSUME StreamInv, ExecBounds, [ExecNext]_execVars
  PROVE  ExecBounds'
<1>0. /\ wire \in [StreamLabel -> Seq(Chunk)] /\ sentBytes \in [StreamLabel -> Nat] /\ MaxSent \in Nat
      /\ execRows \in Seq(RowKind) /\ \A s \in StreamLabel : sentBytes[s] <= MaxSent
  BY ExecAssumption DEF StreamInv, ExecBounds
<1>r. \A x \in RowKind : Append(execRows, x) \in Seq(RowKind)
  BY <1>0
<1>1. CASE ExecRun \/ SelectWatchdog
  <2>1. /\ exec' \in {"new", "started", "select", "grace", "look", "killed", "join", "returned"}
        /\ UNCHANGED <<seen, sentBytes>>
        /\ execRows' = execRows \/ \E x \in RowKind : execRows' = Append(execRows, x)
    BY <1>1, Zenon DEF ExecRun, SelectWatchdog, ExecDenied, ExecUnrecorded, ExecStarted, ExecConnect, SelectDone, SelectTriggered,
                Grace, Look, KilledEnds, Finish, EmitRow, RunOver, RowKind
  <2> QED BY <1>r, <2>1 DEF ExecBounds
<1>2. CASE RemoteEnds \/ UNCHANGED execVars
  <2>1. UNCHANGED <<exec, execRows, seen, sentBytes>>
    BY <1>2 DEF RemoteEnds, execVars
  <2> QED BY <2>1 DEF ExecBounds
<1>3. ASSUME NEW s \in StreamLabel, RemoteWrites(s) PROVE ExecBounds'
  <2>1. UNCHANGED <<exec, execRows, seen>>
    BY <1>3 DEF RemoteWrites
  <2>2. PICK c \in Chunk : sentBytes[s] + c.size <= MaxSent /\ sentBytes' = [sentBytes EXCEPT ![s] = @ + c.size]
    BY <1>3 DEF RemoteWrites
  <2>3. \A d \in StreamLabel : sentBytes'[d] <= MaxSent
    BY <1>0, <2>2
  <2> QED BY <2>1, <2>3 DEF ExecBounds
<1>4. ASSUME NEW s \in StreamLabel, CopyStream(s) PROVE ExecBounds'
  <2>1. UNCHANGED <<exec, execRows, sentBytes>>
    BY <1>4 DEF CopyStream
  <2>2. UNCHANGED seen \/ (wire[s] # <<>> /\ Feed(Head(wire[s])))
    BY <1>4 DEF CopyStream
  <2>3. seen' \in 0..DetectorWindow
    <3>1. CASE UNCHANGED seen
      BY <3>1 DEF ExecBounds
    <3>2. CASE wire[s] # <<>> /\ Feed(Head(wire[s]))
      <4>1. Head(wire[s]) \in Chunk
        BY <1>0, <3>2
      <4> QED BY <3>2, <4>1, FeedStays DEF ExecBounds
    <3> QED BY <2>2, <3>1, <3>2
  <2> QED BY <2>1, <2>3 DEF ExecBounds
<1> QED BY <1>1, <1>2, <1>3, <1>4 DEF ExecNext

\* No stream is read further than it was written, and the detector looks at no more than its
\* window.
LEMMA ExecTyped == ExecSpec => []ExecTypeOK
<1>1. ExecInit => ExecBounds
  BY ExecAssumption DEF ExecInit, ExecBounds
<1>2. ExecInv /\ ExecBounds /\ [ExecNext]_execVars => ExecBounds'
  BY ExecStays DEF ExecInv
<1>3. ExecInv /\ ExecBounds => ExecTypeOK
  <2> SUFFICES ASSUME StreamInv, PhaseInv, ExecBounds PROVE ExecTypeOK
    BY DEF ExecInv
  <2>1. copied \in [StreamLabel -> CopyRecord] /\ wire \in [StreamLabel -> Seq(Chunk)] /\ sentBytes \in [StreamLabel -> Nat]
    BY DEF StreamInv
  <2>2. ASSUME NEW s \in StreamLabel
        PROVE copied[s] \in [bytes : 0..MaxSent, sink : Nat, truncated : BOOLEAN, eof : BOOLEAN]
    <3>1. copied[s] \in CopyRecord /\ copied[s].bytes \in Nat /\ sentBytes[s] \in Nat
      BY <2>1 DEF CopyRecord
    <3>2. copied[s].bytes <= sentBytes[s]
      BY <2>1, <3>1, AddsUpward DEF StreamInv
    <3>3. copied[s].bytes \in 0..MaxSent
      BY <3>1, <3>2, ExecAssumption DEF ExecBounds
    <3> QED BY <3>1, <3>3 DEF CopyRecord
  <2>3. copied \in [StreamLabel -> [bytes : 0..MaxSent, sink : Nat, truncated : BOOLEAN, eof : BOOLEAN]]
    BY <2>1, <2>2
  <2> QED BY <2>1, <2>3 DEF ExecTypeOK, ExecBounds, StreamInv, PhaseInv, ResultRecord, RowKind
<1> QED BY <1>1, <1>2, <1>3, ExecInvHolds, PTL DEF ExecSpec

-----------------------------------------------------------------------------
(* EmbedderProcess: the mutex and the pipes                                *)

\* As EmbedShape, but whether or not a request was given up: lines may wait in the scanner.
EmbedBounds ==
    /\ embed \in [EmbedCalls -> CallRecord]
    /\ \A c \in EmbedCalls : embed[c].chunk \in 1..Chunks[c]
    /\ reading \in [Text -> ReaderRecord] /\ scanner \in Seq(Line)
    /\ requestsPipe \in Seq(Text) /\ Len(requestsPipe) <= PipeLines
    /\ answersPipe \in Seq(Line) /\ Len(answersPipe) <= PipeLines
    /\ mutex = {} \/ \E x \in EmbedCalls \cup {"close"} : mutex = {x}
    /\ closing \in {"off", "lock", "waits", "returned"}

LEMMA CallGoes ==
  ASSUME EmbedBounds, NEW c \in EmbedCalls,
         NEW where \in {"new", "lock", "write", "wait", "returned", "failed"}, EmbedGoto(c, where)
  PROVE  embed' \in [EmbedCalls -> CallRecord] /\ \A d \in EmbedCalls : embed'[d].chunk \in 1..Chunks[d]
<1>1. embed' \in [EmbedCalls -> CallRecord] /\ \A d \in EmbedCalls : embed'[d].chunk = embed[d].chunk
  BY DEF EmbedBounds, EmbedGoto, CallRecord
<1> QED BY <1>1 DEF EmbedBounds

\* Vectors that pass a caller's checks are those of one text.
LEMMA VectorsTyped ==
  ASSUME NEW c \in EmbedCalls, NEW out \in Seq(Line)
  PROVE  Vectors(c, out) \in Seq(Text)
<1>1. CASE out = <<>>
  BY <1>1 DEF Vectors
<1>2. CASE out # <<>>
  <2>1. out[1].text \in Text
    BY <1>2, LinesInPipe, NotEmpty
  <2>2. <<out[1].text>> \in Seq(Text) /\ <<>> \in Seq(Text)
    BY <2>1
  <2> QED BY <2>2, Zenon DEF Vectors
<1> QED BY <1>1, <1>2

LEMMA CallStays ==
  ASSUME EmbedBounds, NEW c \in EmbedCalls, EmbedStep(c)
  PROVE  EmbedBounds'
<1>0. /\ embed[c] \in CallRecord /\ embed[c].chunk \in 1..Chunks[c] /\ Chunks[c] \in Nat /\ PipeLines \in Nat
      /\ reading \in [Text -> ReaderRecord]
  BY EmbedAssumption DEF EmbedBounds
<1>t. Asks(c) \in Text
  BY <1>0, Texts DEF Asks
<1>m. mutex' \in {mutex, mutex \ {c}, {c}} => (mutex = {} \/ \E x \in EmbedCalls \cup {"close"} : mutex = {x})'
  BY DEF EmbedBounds
<1>1. CASE EmbedStart(c) \/ EmbedLock(c) \/ EmbedGivesUp(c)
  <2>1. UNCHANGED <<reading, scanner, requestsPipe, answersPipe, closing>>
    BY <1>1 DEF EmbedStart, EmbedLock, EmbedGivesUp
  <2>2. /\ mutex' \in {mutex, mutex \ {c}, {c}}
        /\ \E w \in {"new", "lock", "write", "wait", "returned", "failed"} : EmbedGoto(c, w)
    BY <1>1 DEF EmbedStart, EmbedLock, EmbedGivesUp
  <2>3. embed' \in [EmbedCalls -> CallRecord] /\ \A d \in EmbedCalls : embed'[d].chunk \in 1..Chunks[d]
    BY <2>2, CallGoes
  <2> QED BY <1>m, <2>1, <2>2, <2>3 DEF EmbedBounds
<1>2. CASE EmbedWrite(c)
  <2>1. UNCHANGED <<scanner, answersPipe, closing>>
    BY <1>2 DEF EmbedWrite
  <2>2. /\ mutex' \in {mutex, mutex \ {c}, {c}}
        /\ \E w \in {"new", "lock", "write", "wait", "returned", "failed"} : EmbedGoto(c, w)
    BY <1>2 DEF EmbedWrite
  <2>3. embed' \in [EmbedCalls -> CallRecord] /\ \A d \in EmbedCalls : embed'[d].chunk \in 1..Chunks[d]
    BY <2>2, CallGoes
  <2>4. \/ UNCHANGED <<requestsPipe, reading>>
        \/ /\ Len(requestsPipe) < PipeLines /\ requestsPipe' = Append(requestsPipe, Asks(c))
           /\ reading' = [reading EXCEPT ![Asks(c)].at = "scan"]
    BY <1>2 DEF EmbedWrite
  <2>5. requestsPipe' \in Seq(Text) /\ Len(requestsPipe') <= PipeLines
    <3>1. requestsPipe \in Seq(Text) /\ Len(requestsPipe) \in Nat /\ Len(requestsPipe) <= PipeLines
      BY DEF EmbedBounds
    <3>2. Append(requestsPipe, Asks(c)) \in Seq(Text) /\ Len(Append(requestsPipe, Asks(c))) = Len(requestsPipe) + 1
      BY <1>t, <3>1
    <3>3. CASE requestsPipe' = requestsPipe
      BY <3>1, <3>3
    <3>4. CASE Len(requestsPipe) < PipeLines /\ requestsPipe' = Append(requestsPipe, Asks(c))
      BY <1>0, <3>1, <3>2, <3>4
    <3> QED BY <2>4, <3>3, <3>4
  <2>6. reading' \in [Text -> ReaderRecord]
    <3>1. [reading EXCEPT ![Asks(c)].at = "scan"] \in [Text -> ReaderRecord]
      BY <1>0, <1>t DEF ReaderRecord
    <3> QED BY <1>0, <2>4, <3>1
  <2> QED BY <1>m, <2>1, <2>2, <2>3, <2>5, <2>6 DEF EmbedBounds
<1>3. CASE EmbedReceive(c)
  <2>1. UNCHANGED <<scanner, requestsPipe, answersPipe, closing>> /\ mutex' = mutex \ {c}
    BY <1>3 DEF EmbedReceive
  <2>2. PICK v, e : v = Vectors(c, reading[Asks(c)].out) /\ e = embed[c]
    OBVIOUS
  <2>3. reading[Asks(c)].out \in Seq(Line)
    BY <1>0, <1>t DEF ReaderRecord
  <2>4. v \in Seq(Text) /\ e \in CallRecord /\ e.got \in Seq(Text) /\ e.chunk \in 1..Chunks[c]
    BY <1>0, <2>2, <2>3, VectorsTyped DEF CallRecord
  <2>5. PICK g : g = e.got \o v
    OBVIOUS
  <2>6. g \in Seq(Text)
    BY <2>4, <2>5
  <2>7. PICK r : r = IF v = <<>> THEN [e EXCEPT !.at = "failed"]
                     ELSE IF e.chunk < Chunks[c]
                     THEN [at |-> "new", chunk |-> e.chunk + 1, got |-> g]
                     ELSE [e EXCEPT !.at = "returned", !.got = g]
    OBVIOUS
  <2>8. embed' = [embed EXCEPT ![c] = r]
    BY <1>3, <2>2, <2>5, <2>7 DEF EmbedReceive
  <2>9. r \in CallRecord /\ r.chunk \in 1..Chunks[c]
    <3>1. CASE v = <<>>
      BY <2>4, <2>7, <3>1 DEF CallRecord
    <3>2. CASE v # <<>> /\ e.chunk < Chunks[c]
      BY <1>0, <2>4, <2>6, <2>7, <3>2 DEF CallRecord
    <3>3. CASE v # <<>> /\ ~(e.chunk < Chunks[c])
      <4>1. r = [at |-> "returned", chunk |-> e.chunk, got |-> g]
        BY <2>4, <2>7, <3>3 DEF CallRecord
      <4> QED BY <2>4, <2>6, <4>1 DEF CallRecord
    <3> QED BY <3>1, <3>2, <3>3
  <2>10. embed' \in [EmbedCalls -> CallRecord] /\ \A d \in EmbedCalls : embed'[d].chunk \in 1..Chunks[d]
    BY <2>8, <2>9 DEF EmbedBounds
  <2>11. reading' \in [Text -> ReaderRecord]
    <3>1. NoReader \in ReaderRecord
      BY DEF NoReader, ReaderRecord
    <3>2. reading' = [reading EXCEPT ![Asks(c)] = NoReader]
      BY <1>3 DEF EmbedReceive
    <3> QED BY <1>0, <3>1, <3>2
  <2> QED BY <1>m, <2>1, <2>10, <2>11 DEF EmbedBounds
<1> QED BY <1>1, <1>2, <1>3 DEF EmbedStep

LEMMA ReaderStays ==
  ASSUME EmbedBounds, NEW t \in Text, ReaderScan(t) \/ ReaderRead(t)
  PROVE  EmbedBounds'
<1>0. /\ reading \in [Text -> ReaderRecord] /\ answersPipe \in Seq(Line) /\ scanner \in Seq(Line)
      /\ Len(answersPipe) \in Nat /\ Len(answersPipe) <= PipeLines /\ PipeLines \in Nat
  BY EmbedAssumption DEF EmbedBounds
<1>u. UNCHANGED <<embed, requestsPipe, mutex, closing>>
  BY DEF ReaderScan, ReaderRead
<1>s. ASSUME NEW out \in Seq(Line), Sends(t, out) PROVE reading' \in [Text -> ReaderRecord]
  <2>1. [at |-> "sent", overlap |-> FALSE, out |-> out] \in ReaderRecord
    BY DEF ReaderRecord
  <2>2. reading' = [reading EXCEPT ![t] = [at |-> "sent", overlap |-> FALSE, out |-> out]]
    BY <1>s DEF Sends
  <2> QED BY <1>0, <2>1, <2>2
<1>e. ASSUME Sends(t, <<>>) PROVE reading' \in [Text -> ReaderRecord]
  <2>1. <<>> \in Seq(Line)
    OBVIOUS
  <2> QED BY <1>e, <1>s, <2>1
<1>h. ASSUME NEW q \in Seq(Line), q # <<>>, Sends(t, <<Head(q)>>) PROVE reading' \in [Text -> ReaderRecord]
  <2>1. Head(q) \in Line
    BY <1>h
  <2>2. <<Head(q)>> \in Seq(Line)
    BY <2>1
  <2> QED BY <1>h, <1>s, <2>2
<1>1. CASE ReaderScan(t)
  <2>1. UNCHANGED answersPipe
    BY <1>1 DEF ReaderScan
  <2>2. CASE scanner # <<>>
    <3>1. Sends(t, <<Head(scanner)>>) /\ scanner' = Tail(scanner)
      BY <1>1, <2>2 DEF ReaderScan
    <3>2. scanner' \in Seq(Line)
      BY <1>0, <2>2, <3>1
    <3>3. reading' \in [Text -> ReaderRecord]
      BY <1>0, <1>h, <2>2, <3>1
    <3> QED BY <1>u, <2>1, <3>2, <3>3 DEF EmbedBounds
  <2>3. CASE scanner = <<>>
    <3>1. /\ reading' = [u \in Text |->
                 IF u = t THEN [reading[t] EXCEPT !.at = "read", !.overlap = InRead # {}]
                 ELSE IF u \in InRead THEN [reading[u] EXCEPT !.overlap = TRUE]
                 ELSE reading[u]]
          /\ UNCHANGED scanner
      BY <1>1, <2>3 DEF ReaderScan
    <3>2. [reading[t] EXCEPT !.at = "read", !.overlap = InRead # {}] \in ReaderRecord
      <4>1. reading[t] \in ReaderRecord /\ (InRead # {}) \in BOOLEAN
        BY <1>0
      <4>2. [reading[t] EXCEPT !.at = "read", !.overlap = InRead # {}]
              = [at |-> "read", overlap |-> InRead # {}, out |-> reading[t].out]
        BY <4>1, ReaderReads, Zenon
      <4>3. PICK y \in BOOLEAN : y = (InRead # {})
        BY <4>1, Zenon
      <4>4. [at |-> "read", overlap |-> y, out |-> reading[t].out] \in ReaderRecord
        BY <4>1 DEF ReaderRecord
      <4> QED BY <4>2, <4>3, <4>4, Zenon
    <3>3. \A u \in Text : [reading[u] EXCEPT !.overlap = TRUE] \in ReaderRecord /\ reading[u] \in ReaderRecord
      BY <1>0 DEF ReaderRecord
    <3>4. reading' \in [Text -> ReaderRecord]
      BY <3>1, <3>2, <3>3, Zenon
    <3> QED BY <1>u, <2>1, <3>1, <3>4 DEF EmbedBounds
  <2> QED BY <2>2, <2>3
<1>2. CASE ReaderRead(t)
  <2>1. ASSUME NEW n \in 1..Len(answersPipe), answersPipe' = SubSeq(answersPipe, n + 1, Len(answersPipe)),
               \/ Sends(t, <<Head(answersPipe)>>) /\ scanner' = scanner \o SubSeq(answersPipe, 2, n)
               \/ Sends(t, <<>>) /\ UNCHANGED scanner
        PROVE  EmbedBounds'
    <3>1. answersPipe # <<>>
      BY <1>0
    <3>2. SubSeq(answersPipe, n + 1, Len(answersPipe)) \in Seq(Line) /\ SubSeq(answersPipe, 2, n) \in Seq(Line)
      BY <1>0
    <3>3. Len(answersPipe') <= PipeLines
      <4>1. Len(answersPipe') = Len(answersPipe) - n
        BY <1>0, <2>1
      <4> QED BY <1>0, <4>1
    <3>4. scanner' \in Seq(Line)
      <4>1. scanner \o SubSeq(answersPipe, 2, n) \in Seq(Line)
        BY <1>0, <3>2, ConcatProperties, Zenon
      <4> QED BY <1>0, <2>1, <4>1, Zenon
    <3>5. reading' \in [Text -> ReaderRecord]
      BY <1>0, <1>e, <1>h, <2>1, <3>1
    <3> QED BY <1>u, <2>1, <3>2, <3>3, <3>4, <3>5 DEF EmbedBounds
  <2>2. CASE Sends(t, <<>>) /\ UNCHANGED <<answersPipe, scanner>>
    BY <1>e, <1>u, <2>2 DEF EmbedBounds
  <2> QED BY <1>2, <2>1, <2>2 DEF ReaderRead
<1> QED BY <1>1, <1>2

LEMMA EmbedStays ==
  ASSUME EmbedBounds, [EmbedNext]_embedVars
  PROVE  EmbedBounds'
<1>0. /\ requestsPipe \in Seq(Text) /\ Len(requestsPipe) \in Nat /\ Len(requestsPipe) <= PipeLines
      /\ answersPipe \in Seq(Line) /\ Len(answersPipe) \in Nat /\ PipeLines \in Nat
  BY EmbedAssumption DEF EmbedBounds
<1>e. <<>> \in Seq(Text) /\ <<>> \in Seq(Line) /\ Len(<<>>) = 0
  OBVIOUS
<1>1. ASSUME NEW c \in EmbedCalls, EmbedCancel(c) PROVE EmbedBounds'
  BY <1>1 DEF EmbedBounds, EmbedCancel
<1>2. CASE ChildAnswers
  <2>1. PICK f \in BOOLEAN : answersPipe' = Append(answersPipe, [text |-> Head(requestsPipe), failed |-> f])
    BY <1>2 DEF ChildAnswers
  <2>2. /\ requestsPipe # <<>> /\ Len(answersPipe) < PipeLines /\ requestsPipe' = Tail(requestsPipe)
        /\ UNCHANGED <<embed, mutex, scanner, reading, closing>>
    BY <1>2 DEF ChildAnswers
  <2>3. Head(requestsPipe) \in Text
    BY <1>0, <2>2
  <2>4. [text |-> Head(requestsPipe), failed |-> f] \in Line
    BY <2>3 DEF Line
  <2>5. answersPipe' \in Seq(Line) /\ Len(answersPipe') = Len(answersPipe) + 1
    BY <1>0, <2>1, <2>4
  <2>6. requestsPipe' \in Seq(Text) /\ Len(requestsPipe') = Len(requestsPipe) - 1
    BY <1>0, <2>2
  <2>7. Len(answersPipe') <= PipeLines /\ Len(requestsPipe') <= PipeLines
    BY <1>0, <2>2, <2>5, <2>6
  <2> QED BY <2>2, <2>5, <2>6, <2>7 DEF EmbedBounds
<1>3. CASE ChildDies
  <2>1. requestsPipe' = <<>> /\ UNCHANGED <<embed, mutex, answersPipe, scanner, reading, closing>>
    BY <1>3 DEF ChildDies
  <2>2. requestsPipe' \in Seq(Text) /\ Len(requestsPipe') <= PipeLines
    BY <1>0, <1>e, <2>1
  <2> QED BY <2>1, <2>2 DEF EmbedBounds
<1>4. CASE EmbedClose
  BY <1>4 DEF EmbedBounds, EmbedClose
<1>5. CASE CloseLocks
  BY <1>5 DEF EmbedBounds, CloseLocks
<1>6. CASE CloseReaps
  <2>1. /\ requestsPipe' = <<>> /\ answersPipe' = <<>> /\ mutex' = {} /\ closing' = "returned"
        /\ UNCHANGED <<embed, scanner, reading>>
    BY <1>6 DEF CloseReaps
  <2>2. /\ requestsPipe' \in Seq(Text) /\ Len(requestsPipe') <= PipeLines
        /\ answersPipe' \in Seq(Line) /\ Len(answersPipe') <= PipeLines
    BY <1>0, <1>e, <2>1
  <2> QED BY <2>1, <2>2 DEF EmbedBounds
<1>7. CASE UNCHANGED embedVars
  BY <1>7 DEF EmbedBounds, embedVars
<1> QED BY <1>1, <1>2, <1>3, <1>4, <1>5, <1>6, <1>7, CallStays, ReaderStays DEF EmbedNext

\* One holder of the mutex, and pipes within their capacity, also after a request was given up.
LEMMA EmbedTyped == EmbedSpec => []EmbedTypeOK
<1>1. EmbedInit => EmbedBounds
  <2> SUFFICES ASSUME EmbedInit PROVE EmbedBounds
    OBVIOUS
  <2>1. embed \in [EmbedCalls -> CallRecord] /\ \A c \in EmbedCalls : embed[c].chunk \in 1..Chunks[c]
    <3>1. [at |-> "new", chunk |-> 1, got |-> <<>>] \in CallRecord
      BY DEF CallRecord
    <3>2. embed = [c \in EmbedCalls |-> [at |-> "new", chunk |-> 1, got |-> <<>>]]
      BY DEF EmbedInit
    <3>3. \A c \in EmbedCalls : 1 \in 1..Chunks[c]
      BY EmbedAssumption
    <3> QED BY <3>1, <3>2, <3>3
  <2>2. reading \in [Text -> ReaderRecord]
    <3>1. NoReader \in ReaderRecord
      BY DEF NoReader, ReaderRecord
    <3> QED BY <3>1 DEF EmbedInit
  <2>3. <<>> \in Seq(Text) /\ <<>> \in Seq(Line) /\ Len(<<>>) <= PipeLines
    BY EmbedAssumption
  <2> QED BY <2>1, <2>2, <2>3 DEF EmbedInit, EmbedBounds
<1>2. EmbedBounds /\ [EmbedNext]_embedVars => EmbedBounds'
  BY EmbedStays
<1>3. EmbedBounds => EmbedTypeOK
  <2> SUFFICES ASSUME EmbedBounds PROVE EmbedTypeOK
    OBVIOUS
  <2>1. Cardinality(mutex) <= 1 /\ mutex \subseteq EmbedCalls \cup {"close"}
    <3>1. CASE mutex = {}
      <4>1. Cardinality(mutex) = 0
        BY <3>1, FS_EmptySet
      <4> QED BY <3>1, <4>1
    <3>2. ASSUME NEW x \in EmbedCalls \cup {"close"}, mutex = {x}
          PROVE  Cardinality(mutex) <= 1 /\ mutex \subseteq EmbedCalls \cup {"close"}
      <4>1. Cardinality(mutex) = 1
        BY <3>2, FS_Singleton
      <4> QED BY <3>2, <4>1
    <3> QED BY <3>1, <3>2 DEF EmbedBounds
  <2> QED BY <2>1 DEF EmbedBounds, EmbedTypeOK, CallRecord
<1> QED BY <1>1, <1>2, <1>3, PTL DEF EmbedSpec

=============================================================================
