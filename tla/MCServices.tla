----------------------------- MODULE MCServices -----------------------------
(***************************************************************************)
(* Instances of the components that share no variable with each other.     *)
(* A behaviour is about one of them, the focus; the others keep their      *)
(* initial state, so that the state space is the sum and not the product.  *)
(***************************************************************************)
EXTENDS WorktreePool, CostGating, EventLog, MergeEngine, RetryBudget,
        RecoveryReplay, ProviderCascade, SubprocessManager, Workforce, AuditChain,
        EventBatcher, CostLedger, SessionTransport, ReviewCadence, EmbedderProcess, RemoteExec

CONSTANTS c1, c2, a1, a2, s1, s2, m1, m2, w1, w2, t1, t2, f1, f2, u1, u2, l1, l2, e1, e2,
          r1, r2, b1, b2

TwoClients == {c1, c2}
OneReaper == {c2}
OneClient == {c2}

Snapshot(payg, cap, spent) == [payg |-> payg, cap |-> cap, spent |-> spent]
NoOverride == [k \in {} |-> "continue"]
\* No override; one that pauses early; one that loosens max-scope and default.
SomeOverrides == {NoOverride, [k \in {60} |-> "hard_pause"],
                  [k \in {100} |-> "reduce_parallelism"]}
\* No cap, below, at and above the thresholds, over the cap, and pay-as-you-go.
SomeBudgets == {Snapshot(FALSE, 0, 5), Snapshot(FALSE, 7, 4), Snapshot(FALSE, 5, 3),
                Snapshot(FALSE, 7, 6), Snapshot(FALSE, 10, 9), Snapshot(FALSE, 3, 4),
                Snapshot(TRUE, 7, 1)}
FewBudgets == {Snapshot(FALSE, 7, 4), Snapshot(FALSE, 10, 9)}

\* One subscription for everything, one for a type that is never appended.
SomeFilters == [s \in {s1, s2} |-> IF s = s1 THEN {} ELSE {"y"}]
OneTarget == [r \in {"r1"} |-> "main"]
TwoCandidates == [r \in {"r1"} |-> {"c1", "c2"}]
\* The first name is not registered.
OneProvider == <<"keychain", "p1">>
\* Checkpoints and architectural reviews, and two reviewers of different opinions.
TwoLayers == [l \in Layer |-> IF l = "strategic" THEN 0 ELSE 1]
TwoOpinions == [w \in Reviewers |-> IF w = "x" THEN "needs_fix" ELSE "ack"]
\* A call for one vector, and a batch of two chunks.
TwoSizes == [c \in EmbedCalls |-> IF c = b2 THEN 2 ELSE 1]
TwoShapes == [c \in EmbedCalls |-> IF c = b2 THEN {"bin", "fp32"} ELSE {"fp32"}]
TwoSpans == [w \in {"24h", "30d"} |-> IF w = "24h" THEN 1 ELSE 2]

VARIABLE focus

servicesVars == <<focus, vars, costVars, hubVars, mergeVars, retryVars, replayVars,
                  cascadeVars, managerVars, workVars, auditVars, batcherVars, ledgerVars,
                  transportVars, hraVars, embedVars, execVars>>

ServicesInit ==
    /\ focus \in {"pool", "cost", "log", "merge", "retry", "replay", "cascade", "manager",
                 "workforce", "audit", "batcher", "ledger", "transport", "hra", "embed", "exec"}
    /\ Init /\ CostInit /\ EventLogInit /\ MergeInit /\ RetryInit /\ ReplayInit
    /\ CascadeInit /\ ManagerInit /\ WorkforceInit /\ AuditInit /\ BatcherInit
    /\ LedgerInit /\ TransportInit /\ HraInit /\ EmbedInit /\ ExecInit
    /\ focus # "cost" => /\ budget = Snapshot(FALSE, 7, 4)
                         /\ table = LoadThresholdTable(BuiltinCostProfile.default, NoOverride)
    /\ focus # "retry" => doctrine = "default"
    /\ focus # "replay" => named
    /\ session[l1] = l1   \* up to the names of the callers
    /\ focus # "workforce" => \A l \in Lead : session[l] = l
    /\ focus # "hra" => \A l \in Layer : ticker[l].due = Cadence[l]

OthersUnchanged ==
    /\ UNCHANGED focus
    /\ IF focus = "pool" THEN TRUE ELSE UNCHANGED vars
    /\ IF focus = "cost" THEN TRUE ELSE UNCHANGED costVars
    /\ IF focus = "log" THEN TRUE ELSE UNCHANGED hubVars
    /\ IF focus = "merge" THEN TRUE ELSE UNCHANGED mergeVars
    /\ IF focus = "retry" THEN TRUE ELSE UNCHANGED retryVars
    /\ IF focus = "replay" THEN TRUE ELSE UNCHANGED replayVars
    /\ IF focus = "cascade" THEN TRUE ELSE UNCHANGED cascadeVars
    /\ IF focus = "manager" THEN TRUE ELSE UNCHANGED managerVars
    /\ IF focus = "workforce" THEN TRUE ELSE UNCHANGED workVars
    /\ IF focus = "audit" THEN TRUE ELSE UNCHANGED auditVars
    /\ IF focus = "batcher" THEN TRUE ELSE UNCHANGED batcherVars
    /\ IF focus = "ledger" THEN TRUE ELSE UNCHANGED ledgerVars
    /\ IF focus = "transport" THEN TRUE ELSE UNCHANGED transportVars
    /\ IF focus = "hra" THEN TRUE ELSE UNCHANGED hraVars
    /\ IF focus = "embed" THEN TRUE ELSE UNCHANGED embedVars
    /\ IF focus = "exec" THEN TRUE ELSE UNCHANGED execVars

ServicesNext ==
    /\ OthersUnchanged
    /\ \/ focus = "pool" /\ Next
       \/ focus = "cost" /\ CostNext
       \/ focus = "log" /\ EventLogNext
       \/ focus = "merge" /\ MergeNext
       \/ focus = "retry" /\ RetryNext
       \/ focus = "replay" /\ ReplayNext
       \/ focus = "cascade" /\ CascadeNext
       \/ focus = "manager" /\ ManagerNext
       \/ focus = "workforce" /\ WorkforceNext
       \/ focus = "audit" /\ AuditNext
       \/ focus = "batcher" /\ BatcherNext
       \/ focus = "ledger" /\ LedgerNext
       \/ focus = "transport" /\ TransportNext
       \/ focus = "hra" /\ HraNext
       \/ focus = "embed" /\ EmbedNext
       \/ focus = "exec" /\ ExecNext

ServicesSpec == ServicesInit /\ [][ServicesNext]_servicesVars

focusVars ==
    CASE focus = "pool" -> vars              [] focus = "cost" -> costVars
      [] focus = "log" -> hubVars            [] focus = "merge" -> mergeVars
      [] focus = "retry" -> retryVars        [] focus = "replay" -> replayVars
      [] focus = "cascade" -> cascadeVars    [] focus = "manager" -> managerVars
      [] focus = "workforce" -> workVars     [] focus = "audit" -> auditVars
      [] focus = "batcher" -> batcherVars    [] focus = "ledger" -> ledgerVars
      [] focus = "transport" -> transportVars [] focus = "hra" -> hraVars
      [] focus = "embed" -> embedVars        [] focus = "exec" -> execVars

\* The n-th process of the component in focus.  The focus never changes, so fairness of
\* this disjunction is that of each process by itself.
ProcessStep(n) ==
    /\ UNCHANGED focus
    \* As in FairSpec of WorktreePool and FairCostSpec of CostGating.
    /\ \/ focus = "pool" /\ \/ n = 1 /\ PrewarmStep
                            \/ n = 2 /\ ClientStep(c1)
                            \/ n = 3 /\ ClientStep(c2)
                            \/ n = 4 /\ Wake(c1)
                            \/ n = 5 /\ Wake(c2)
                            \/ n = 6 /\ Release(c1)
                            \/ n = 7 /\ Release(c2)
       \/ focus = "cost" /\ \/ n = 1 /\ Engine
                            \/ n = 2 /\ Walk
                            \/ n = 3 /\ HandleBudgetDegradation
       \* Publishers and merges run when they can.
       \/ focus = "log" /\ ((n = 1 /\ PublishStep(a1)) \/ (n = 2 /\ PublishStep(a2)))
       \/ focus = "merge" /\ ((n = 1 /\ MergeStep(m1)) \/ (n = 2 /\ MergeStep(m2)))
       \* The attempts of a task that cannot succeed fail.
       \/ focus = "retry" /\ n = 1 /\ \E c \in FailureClass : HandleWorkerDeath(c)
       \* Calls end and are made again; cooldowns pass.
       \/ focus = "cascade" /\ \/ n = 1 /\ (ForwardStep(f1) \/ ForwardStart(f1))
                               \/ n = 2 /\ (ForwardStep(f2) \/ ForwardStart(f2))
                               \/ n = 3 /\ CoolDown("p1")
                               \/ n = 4 /\ LimitExpires("p1")
       \* Callers of the manager, its loops and Shutdown run when they can.
       \/ focus = "manager" /\ \/ n = 1 /\ UserStep(u1)
                               \/ n = 2 /\ UserStep(u2)
                               \/ n = 3 /\ LoopStep("evictor")
                               \/ n = 4 /\ LoopStep("detector")
                               \/ n = 5 /\ ShutdownStep
       \* So do leads and workers, whose calls all have a time limit, and the batcher,
       \* whose ticker ticks.
       \/ focus = "workforce" /\ n = 1 /\ WorkforceStep
       \/ focus = "batcher" /\ n = 1 /\ RunStep
       \* A session's loops and each Close run until a panic; the grace period passes, but
       \* the child need not read its input.
       \/ focus = "transport" /\ ~panicked /\ \/ n = 1 /\ ReaderStep
                                              \/ n = 2 /\ (WriterSelect \/ (~stdinOpen /\ WriterWrite))
                                              \/ n = 3 /\ WaiterStep
                                              \/ n = 4 /\ CloseStep("k1")
                                              \/ n = 5 /\ "k2" \in Closers /\ CloseStep("k2")
       \* So do the loops of the review layers, and their Run.
       \/ focus = "hra" /\ \/ n = 1 /\ (LayerStep("tactical") \/ LoopEnds("tactical"))
                           \/ n = 2 /\ (LayerStep("strategic") \/ LoopEnds("strategic"))
                           \/ n = 3 /\ (LayerStep("architectural") \/ LoopEnds("architectural"))
                           \/ n = 4 /\ RunEnds
       \* And the calls of the embedder with their readers, whose child answers, and Run of
       \* a remote command with its copies.
       \/ focus = "embed" /\ \/ n = 1 /\ EmbedStep(b1)
                             \/ n = 2 /\ EmbedStep(b2)
                             \/ n = 3 /\ \E t \in Text : ReaderScan(t) \/ ReaderRead(t)
                             \/ n = 4 /\ ChildAnswers
                             \/ n = 5 /\ (CloseLocks \/ CloseReaps)
       \/ focus = "exec" /\ \/ n = 1 /\ ExecRun
                            \/ n = 2 /\ CopyStream("stdout")
                            \/ n = 3 /\ CopyStream("stderr")

\* Steps that compete: Go's mutex does not starve a waiter, a select is fair to the
\* channel of a shutdown, a full Go channel serves its senders in order, and the
\* scheduler's probes are made and succeed in the end.
Contended(n) ==
    /\ UNCHANGED focus
    /\ \/ focus = "merge" /\ ((n = 1 /\ LockTarget(m1)) \/ (n = 2 /\ LockTarget(m2)))
       \/ focus = "manager" /\ ((n = 1 /\ LoopExits("evictor")) \/ (n = 2 /\ LoopExits("detector")))
       \/ focus = "cascade" /\ \/ n = 1 /\ ProbeStart("scheduler", "p1")
                               \/ n = 2 /\ ProbeHeals("scheduler", "p1")
       \/ focus = "embed" /\ ((n = 1 /\ EmbedLock(b1)) \/ (n = 2 /\ EmbedLock(b2)))
       \/ focus = "batcher" /\ n = 1 /\ r1 \in Requests /\ Submit(r1)
       \/ focus = "batcher" /\ n = 2 /\ r2 \in Requests /\ Submit(r2)

FairServicesSpec ==
    /\ ServicesSpec
    /\ \A n \in 1..7 : WF_focusVars(ProcessStep(n))
    /\ \A n \in 1..2 : SF_focusVars(Contended(n))

\* The state of the component in focus keeps its type: slots, rows of the threshold table, channel
\* lengths, cached outcomes, tier indices, breaker states, session records, task rows,
\* audit rows, batches, cost windows, frames and review ticks (worktreepool/pool.go, cost_gating.go, eventlog/subscriber.go,
\* merge/engine.go, recovery.go, circuit_breaker.go, subprocess/manager.go,
\* queue_adapter.go, store/audit_chain.go, daemon/batcher.go,
\* daemon/orchestrator/cost_counters.go, openclaude_session.go, hra/coordinator.go).
ServicesTypeOK ==
    CASE focus = "pool" -> TypeOK              [] focus = "cost" -> CostTypeOK
      [] focus = "log" -> EventLogTypeOK       [] focus = "merge" -> MergeTypeOK
      [] focus = "retry" -> RetryTypeOK        [] focus = "replay" -> ReplayTypeOK
      [] focus = "cascade" -> CascadeTypeOK    [] focus = "manager" -> ManagerTypeOK
      [] focus = "workforce" -> WorkforceTypeOK [] focus = "audit" -> AuditTypeOK
      [] focus = "batcher" -> BatcherTypeOK    [] focus = "ledger" -> LedgerTypeOK
      [] focus = "transport" -> TransportTypeOK [] focus = "hra" -> HraTypeOK
      [] focus = "embed" -> EmbedTypeOK        [] focus = "exec" -> ExecTypeOK

\* The two programs that the daemon's tools drive answer for what was asked: see
\* EmbedSound (ecosystem/embedder.go:325-365) and ExecSound (sshexec/exec.go:228-313).
ToolsSound == EmbedSound /\ ExecSound

\* Once the budget settles, the cost engine settles on its row, whatever failed or
\* raced on the way (cost_gating.go:448-450; Converges of CostGating).
EngineConverges == focus = "cost" => Converges

\* The waits of the component in focus in this instance, each with what ends it: first
\* those of calls, then those of loops.  The focus never changes, so that one leads-to for
\* each position says the same as LeaseReturns, PublishReturns, MergeReturns,
\* ShutdownReturns, LeadReturns, IngestSettles, CloseReturns, RunReturns, EmbedReturns
\* and ExecReturns together, and as WalkEnds, ProviderRecovers, IdleIsEvicted and FailureEnds.
CallWaits ==
    CASE focus = "pool" -> <<<<LeaseWaits(c1), LeaseEnds(c1)>>, <<LeaseWaits(c2), LeaseEnds(c2)>>>>
      [] focus = "log" -> <<<<Publishing(a1), Published(a1)>>, <<Publishing(a2), Published(a2)>>>>
      [] focus = "merge" -> <<<<Merging(m1), MergeOver(m1)>>, <<Merging(m2), MergeOver(m2)>>>>
      [] focus = "manager" -> <<<<stopping.at = "take", stopping.at = "returned">>>>
      [] focus = "workforce" -> <<<<Leading(l1), LeadOver(l1)>>>>
      [] focus = "batcher" -> <<<<posted[r1] = 1, Settled(r1)>>>>
      [] focus = "transport" -> <<<<Closing("k1"), Returned("k1") \/ panicked>>,
                                  <<closedCh, LoopsEnded \/ panicked>>>>
      [] focus = "hra" -> <<<<hraRun = "cancelled", hraRun = "returned">>>>
      [] focus = "embed" -> <<<<Embedding(b1), Embedded(b1)>>, <<Embedding(b2), Embedded(b2)>>>>
      [] focus = "exec" -> <<<<Open /\ remote = "exited", exec = "returned">>>>
      [] OTHER -> <<>>

LoopWaits ==
    CASE focus = "cost" -> <<<<at.walk # "off", at.walk = "off">>>>
      [] focus = "cascade" -> <<<<~Healthy("p1"), Healthy("p1")>>>>
      [] focus = "manager" -> [s \in SessionID |-> <<Stale(s), Evicted(s)>>]
      [] focus = "retry" -> <<<<attempt.at = "runs", attempt.at = "over">>>>
      [] OTHER -> <<>>

Waiting(waits, n) == n <= Len(waits) /\ waits[n][1]
Served(waits, n) == n <= Len(waits) /\ waits[n][2]

\* No caller waits for ever on a lock, a full channel, a pool without free slots or a
\* loop that does not stop: Lease, publish, Merge, Shutdown, the call of a lead, a
\* POST of events, a session's Close, the Run of the reviews, a call of the embedder and
\* the Run of a remote command return (pool.go:433, eventlog/subscriber.go:137-161,
\* merge/engine.go:163-165, subprocess/manager.go:273, batcher.go:39-41, openclaude_session.go:150-169,
\* hra/coordinator.go:279-293, ecosystem/embedder.go:325-378, sshexec/exec.go:252-314).
CallsReturn == \A n \in 1..2 : Waiting(CallWaits, n) ~> Served(CallWaits, n)

\* What the daemon's loops promise in the end: the cost engine settles on its row and
\* its walks end, a provider that answers again is used again, an idle or dead session
\* is evicted, and a task that cannot succeed is given up (cost_gating.go:448-450,
\* circuit_breaker.go:191-234, subprocess/manager.go:414-430, recovery.go:383-427).
LoopsSettle ==
    EngineConverges /\ \A n \in 1..2 : Waiting(LoopWaits, n) ~> Served(LoopWaits, n)

=============================================================================
