----------------------------- MODULE AuditChain -----------------------------
(***************************************************************************)
(* The hash chain of audit_events_raw.  Most writers insert rows without   *)
(* hashes; Emit of the augmentation and of the recognizer links its own    *)
(* row in four separate statements, several calls at once; and Backfill    *)
(* links what is left when the daemon starts, before anybody writes.       *)
(* Every statement may fail and the daemon may die between any two.        *)
(* A hash is the pair of what it is computed from.                         *)
(***************************************************************************)
EXTENDS Naturals, Sequences, FiniteSets

CONSTANTS
    Emitters,        \* concurrent calls of Emit
    BatchSize,       \* rows per BackfillScan
    MaxAuditRows,    \* bound: events
    MaxBoots         \* bound: restarts of the daemon

ASSUME AuditAssumption ==
    BatchSize \in Nat \ {0} /\ MaxAuditRows \in Nat /\ MaxBoots \in Nat

VARIABLES
    raw,        \* audit_events_raw in rowid order: event, prev_hash, record_hash, leaf id set
    leaves,     \* the transparency log: events with the hash they were given
    emit,       \* each call of Emit: its step, its event and the tip it read
    boot,       \* Backfill: its step, prevHash, the rest of its batch, afterRowID
    emitted,    \* events so far
    boots

auditVars == <<raw, leaves, emit, boot, emitted, boots>>

\* The empty string: the genesis link and the hash of a row not linked yet.
NoHash == <<>>
Compute(prev, e) == <<prev, e>>
Linked == {i \in DOMAIN raw : raw[i].hash # NoHash}

\* The hash of the linked row inserted last.
GetChainTip ==
    IF Linked = {} THEN NoHash
    ELSE raw[CHOOSE i \in Linked : \A j \in Linked : j <= i].hash

Idle == [step |-> "idle", event |-> 0, tip |-> NoHash]
Backfilling == [step |-> "scan", prev |-> GetChainTip, batch |-> {}, after |-> 0]
Serving == [step |-> "serving", prev |-> NoHash, batch |-> {}, after |-> 0]

AuditInit ==
    /\ raw = <<>> /\ leaves = {}
    /\ emit = [a \in Emitters |-> Idle]
    /\ boot = Serving
    /\ emitted = 0 /\ boots = 0

InsertRow(e) == raw' = Append(raw, [event |-> e, prev |-> NoHash, hash |-> NoHash, leaf |-> FALSE])

\* UpdateChainColumns, which fills the columns once.
UpdateChainColumns(e, prev) ==
    \E i \in DOMAIN raw :
        /\ raw[i].event = e /\ raw[i].hash = NoHash
        /\ raw' = [raw EXCEPT ![i] = [event |-> e, prev |-> prev, hash |-> Compute(prev, e),
                                      leaf |-> @.leaf]]

-----------------------------------------------------------------------------
(* Writers                                                                 *)

\* A writer that knows nothing of the chain.
EmitRaw ==
    /\ boot = Serving /\ emitted < MaxAuditRows
    /\ emitted' = emitted + 1 /\ InsertRow(emitted')
    /\ UNCHANGED <<leaves, emit, boot, boots>>

\* Emit reads the tip, and makes its event and its hash.
EmitStart(a) ==
    /\ boot = Serving /\ emit[a] = Idle /\ emitted < MaxAuditRows
    /\ emitted' = emitted + 1
    /\ emit' = [emit EXCEPT ![a] = [step |-> "insert", event |-> emitted', tip |-> GetChainTip]]
    /\ UNCHANGED <<raw, leaves, boot, boots>>

EmitInsert(a) ==
    /\ emit[a].step = "insert" /\ InsertRow(emit[a].event)
    /\ emit' = [emit EXCEPT ![a].step = "link"]
    /\ UNCHANGED <<leaves, boot, emitted, boots>>

EmitLink(a) ==
    /\ emit[a].step = "link" /\ UpdateChainColumns(emit[a].event, emit[a].tip)
    /\ emit' = [emit EXCEPT ![a].step = "leaf"]
    /\ UNCHANGED <<leaves, boot, emitted, boots>>

\* Mutant: the leaf is appended as soon as the row exists.
AppendTesseraLeafEarly(a) ==
    /\ emit[a].step \in {"link", "leaf"}
    /\ leaves' = leaves \cup {[event |-> emit[a].event, hash |-> Compute(emit[a].tip, emit[a].event)]}
    /\ emit' = IF emit[a].step = "leaf" THEN [emit EXCEPT ![a].step = "mark"] ELSE emit
    /\ UNCHANGED <<raw, boot, emitted, boots>>

AppendTesseraLeaf(a) ==
    /\ emit[a].step = "leaf"
    /\ leaves' = leaves \cup {[event |-> emit[a].event, hash |-> Compute(emit[a].tip, emit[a].event)]}
    /\ emit' = [emit EXCEPT ![a].step = "mark"]
    /\ UNCHANGED <<raw, boot, emitted, boots>>

UpdateTesseraLeafID(a) ==
    /\ emit[a].step = "mark"
    /\ \E i \in DOMAIN raw : raw[i].event = emit[a].event /\ raw' = [raw EXCEPT ![i].leaf = TRUE]
    /\ emit' = [emit EXCEPT ![a] = Idle]
    /\ UNCHANGED <<leaves, boot, emitted, boots>>

\* Emit returns at the first error.
EmitFails(a) ==
    /\ emit[a] # Idle /\ emit' = [emit EXCEPT ![a] = Idle]
    /\ UNCHANGED <<raw, leaves, boot, emitted, boots>>

-----------------------------------------------------------------------------
(* Backfill                                                                *)

\* The rows without a hash behind the cursor.
Unlinked(after) == {i \in DOMAIN raw : i > after /\ raw[i].hash = NoHash}

\* Those that a scan returns: BatchSize of them, the first by rowid.
FirstUnlinked(after) ==
    {i \in Unlinked(after) : Cardinality({j \in Unlinked(after) : j < i}) < BatchSize}

\* The row of a batch that comes first.
FirstOf(rows) == CHOOSE i \in rows : \A j \in rows : i <= j

\* Mutant: the scan starts behind the tip, for what is before it has been linked.
BackfillScanFromTip ==
    /\ boot.step = "scan" /\ boot.batch = {}
    /\ LET tip == CHOOSE i \in Linked \cup {0} : \A j \in Linked : j <= i
           batch == FirstUnlinked(IF boot.after = 0 THEN tip ELSE boot.after)
       IN boot' = IF batch = {} THEN [boot EXCEPT !.step = "linked"]
                                ELSE [boot EXCEPT !.batch = batch]
    /\ UNCHANGED <<raw, leaves, emit, emitted, boots>>

BackfillScan ==
    /\ boot.step = "scan" /\ boot.batch = {}
    /\ LET batch == FirstUnlinked(boot.after)
       IN boot' = IF batch = {} THEN [boot EXCEPT !.step = "linked"]
                                ELSE [boot EXCEPT !.batch = batch]
    /\ UNCHANGED <<raw, leaves, emit, emitted, boots>>

BackfillRow ==
    /\ boot.step = "scan" /\ boot.batch # {}
    /\ LET i == FirstOf(boot.batch)
       IN /\ UpdateChainColumns(raw[i].event, boot.prev)
          /\ boot' = [step |-> "scan", prev |-> raw'[i].hash, batch |-> boot.batch \ {i}, after |-> i]
    /\ UNCHANGED <<leaves, emit, emitted, boots>>

\* The daemon goes on when Backfill has ended, also by an error.
BootEnds ==
    /\ boot.step \in {"scan", "linked"} /\ boot' = Serving
    /\ UNCHANGED <<raw, leaves, emit, emitted, boots>>

\* The daemon dies, at any point, and starts again.
Reboot ==
    /\ boots < MaxBoots /\ boots' = boots + 1
    /\ emit' = [a \in Emitters |-> Idle]
    /\ boot' = Backfilling
    /\ UNCHANGED <<raw, leaves, emitted>>

AuditNext ==
    \/ EmitRaw
    \/ \E a \in Emitters : \/ EmitStart(a) \/ EmitInsert(a) \/ EmitLink(a)
                           \/ AppendTesseraLeaf(a) \/ UpdateTesseraLeafID(a) \/ EmitFails(a)
    \/ BackfillScan \/ BackfillRow \/ BootEnds \/ Reboot

AuditSpec == AuditInit /\ [][AuditNext]_auditVars

-----------------------------------------------------------------------------
(* Properties                                                              *)

\* Calls are at a known step, rows are numbered by events, and only Backfill runs
\* while the daemon boots.
AuditTypeOK ==
    /\ \A i \in DOMAIN raw : raw[i].event \in 1..emitted /\ raw[i].leaf \in BOOLEAN
    /\ \A a \in Emitters : emit[a].step \in {"idle", "insert", "link", "leaf", "mark"}
    /\ boot.step \in {"scan", "linked", "serving"} /\ boot.after \in 0..Len(raw)
    /\ boot # Serving => \A a \in Emitters : emit[a] = Idle

\* No hash dangles, whatever failed or died between the statements that write it: the
\* link of a row is the hash of a row, and a leaf of the transparency log has the hash
\* its row has in the table, although Backfill links a row whose Emit was lost anew
\* (audit_anchor.go:42-88, chain/backfill.go:36-62, augmentwiring.go:182-211).
HashesResolve ==
    /\ \A i \in Linked : /\ raw[i].hash = Compute(raw[i].prev, raw[i].event)
                         /\ raw[i].prev = NoHash \/ \E j \in Linked \ {i} : raw[j].hash = raw[i].prev
    /\ \A x \in leaves : \E i \in Linked : raw[i].event = x.event /\ raw[i].hash = x.hash

\* Backfill without error leaves no row without a hash, with linked rows before and
\* after them and a crash of an earlier Backfill (chain/backfill.go:32-65).
BackfillLinksAll == boot.step = "linked" => Linked = DOMAIN raw

\* No hash dangles and a boot leaves no row without one (chain/backfill.go:32-65,
\* audit_anchor.go:42-88).
ChainSound == HashesResolve /\ BackfillLinksAll

=============================================================================
