-------------------------- MODULE CompositionProofs --------------------------
(***************************************************************************)
(* What is proved of the services one by one holds of the composition that *)
(* the runs check (MCServices), for every value of the constants; and each *)
(* keeps the type and the bounds of its state.                             *)
(***************************************************************************)
EXTENDS MCServices, WorktreePoolProofs, FailureProofs, LogProofs, TeamProofs, ServiceProofs

-----------------------------------------------------------------------------
(* The composition                                                         *)

\* The components that a behaviour can be about.
Foci == {"pool", "cost", "log", "merge", "retry", "replay", "cascade", "manager",
         "workforce", "audit", "batcher", "ledger", "transport", "hra", "embed", "exec"}

\* The specifications of the components.
Components ==
    /\ Spec /\ CostSpec /\ EventLogSpec /\ MergeSpec
    /\ RetrySpec /\ ReplaySpec /\ CascadeSpec /\ ManagerSpec
    /\ WorkforceSpec /\ AuditSpec /\ BatcherSpec /\ LedgerSpec
    /\ TransportSpec /\ HraSpec /\ EmbedSpec /\ ExecSpec

\* A step of the composition is one of the component in focus and leaves the others alone.
LEMMA StepOfEach ==
  ASSUME [ServicesNext]_servicesVars
  PROVE  /\ focus' = focus
         /\ [Next]_vars
         /\ [CostNext]_costVars
         /\ [EventLogNext]_hubVars
         /\ [MergeNext]_mergeVars
         /\ [RetryNext]_retryVars
         /\ [ReplayNext]_replayVars
         /\ [CascadeNext]_cascadeVars
         /\ [ManagerNext]_managerVars
         /\ [WorkforceNext]_workVars
         /\ [AuditNext]_auditVars
         /\ [BatcherNext]_batcherVars
         /\ [LedgerNext]_ledgerVars
         /\ [TransportNext]_transportVars
         /\ [HraNext]_hraVars
         /\ [EmbedNext]_embedVars
         /\ [ExecNext]_execVars
<1>1. CASE UNCHANGED servicesVars
  BY <1>1 DEF servicesVars
<1>2. CASE ServicesNext
  <2>0. focus' = focus
    BY <1>2 DEF ServicesNext, OthersUnchanged
  <2>1. [Next]_vars
    BY <1>2, Zenon DEF ServicesNext, OthersUnchanged
  <2>2. [CostNext]_costVars
    BY <1>2, Zenon DEF ServicesNext, OthersUnchanged
  <2>3. [EventLogNext]_hubVars
    BY <1>2, Zenon DEF ServicesNext, OthersUnchanged
  <2>4. [MergeNext]_mergeVars
    BY <1>2, Zenon DEF ServicesNext, OthersUnchanged
  <2>5. [RetryNext]_retryVars
    BY <1>2, Zenon DEF ServicesNext, OthersUnchanged
  <2>6. [ReplayNext]_replayVars
    BY <1>2, Zenon DEF ServicesNext, OthersUnchanged
  <2>7. [CascadeNext]_cascadeVars
    BY <1>2, Zenon DEF ServicesNext, OthersUnchanged
  <2>8. [ManagerNext]_managerVars
    BY <1>2, Zenon DEF ServicesNext, OthersUnchanged
  <2>9. [WorkforceNext]_workVars
    BY <1>2, Zenon DEF ServicesNext, OthersUnchanged
  <2>10. [AuditNext]_auditVars
    BY <1>2, Zenon DEF ServicesNext, OthersUnchanged
  <2>11. [BatcherNext]_batcherVars
    BY <1>2, Zenon DEF ServicesNext, OthersUnchanged
  <2>12. [LedgerNext]_ledgerVars
    BY <1>2, Zenon DEF ServicesNext, OthersUnchanged
  <2>13. [TransportNext]_transportVars
    BY <1>2, Zenon DEF ServicesNext, OthersUnchanged
  <2>14. [HraNext]_hraVars
    BY <1>2, Zenon DEF ServicesNext, OthersUnchanged
  <2>15. [EmbedNext]_embedVars
    BY <1>2, Zenon DEF ServicesNext, OthersUnchanged
  <2>16. [ExecNext]_execVars
    BY <1>2, Zenon DEF ServicesNext, OthersUnchanged
  <2> QED BY <2>0, <2>1, <2>2, <2>3, <2>4, <2>5, <2>6, <2>7, <2>8,
            <2>9, <2>10, <2>11, <2>12, <2>13, <2>14, <2>15, <2>16
<1> QED BY <1>1, <1>2

\* Whatever is proved of a component by itself holds in the composition that the runs check:
\* its behaviours are behaviours of every component, since the services share no variable
\* (cmd/hades-ctld/main.go and internal/daemon/server.go construct them side by side).
THEOREM ServicesAreComponents == ServicesSpec => Components
<1>1. ServicesInit =>
        /\ Init /\ CostInit /\ EventLogInit /\ MergeInit
        /\ RetryInit /\ ReplayInit /\ CascadeInit /\ ManagerInit
        /\ WorkforceInit /\ AuditInit /\ BatcherInit /\ LedgerInit
        /\ TransportInit /\ HraInit /\ EmbedInit /\ ExecInit
  BY DEF ServicesInit
<1>2. [ServicesNext]_servicesVars =>
        /\ [Next]_vars /\ [CostNext]_costVars /\ [EventLogNext]_hubVars /\ [MergeNext]_mergeVars
        /\ [RetryNext]_retryVars /\ [ReplayNext]_replayVars
        /\ [CascadeNext]_cascadeVars /\ [ManagerNext]_managerVars
        /\ [WorkforceNext]_workVars /\ [AuditNext]_auditVars
        /\ [BatcherNext]_batcherVars /\ [LedgerNext]_ledgerVars
        /\ [TransportNext]_transportVars /\ [HraNext]_hraVars
        /\ [EmbedNext]_embedVars /\ [ExecNext]_execVars
  BY StepOfEach
<1> QED BY <1>1, <1>2, PTL DEF ServicesSpec, Components,
      Spec, CostSpec, EventLogSpec, MergeSpec, RetrySpec, ReplaySpec, CascadeSpec,
      ManagerSpec, WorkforceSpec, AuditSpec, BatcherSpec, LedgerSpec, TransportSpec, HraSpec,
      EmbedSpec, ExecSpec

\* The type invariants of all components.
AllTyped ==
    /\ TypeOK /\ CostTypeOK /\ EventLogTypeOK /\ MergeTypeOK
    /\ RetryTypeOK /\ ReplayTypeOK /\ CascadeTypeOK /\ ManagerTypeOK
    /\ WorkforceTypeOK /\ AuditTypeOK /\ BatcherTypeOK /\ LedgerTypeOK
    /\ TransportTypeOK /\ HraTypeOK /\ EmbedTypeOK /\ ExecTypeOK

\* Every component keeps the type and the bounds of its state, whatever the numbers of callers,
\* the sizes of channels and the limits are: slots, rows of the threshold table, buffered
\* events, cached merges, breakers, sessions, tasks, audit rows, batches, cost windows, frames,
\* review ticks, pipes and copied bytes (worktreepool/pool.go, cost_gating.go,
\* eventlog/subscriber.go, merge/engine.go, recovery.go, circuit_breaker.go,
\* subprocess/manager.go, store/audit_chain.go, daemon/batcher.go, cost_counters.go,
\* openclaude_session.go, hra/coordinator.go, ecosystem/embedder.go, sshexec/exec.go).
THEOREM ServicesTypeCorrect == ServicesSpec => []ServicesTypeOK
<1>1. ServicesInit => focus \in Foci
  BY DEF ServicesInit, Foci
<1>2. focus \in Foci /\ [ServicesNext]_servicesVars => (focus \in Foci)'
  BY StepOfEach
<1>3. Components => []AllTyped
  BY TypeCorrect, CostTypeCorrect, LogTyped, MergeTyped, RetryTyped, ReplayTyped, CascadeTyped,
     ManagerTyped, WorkTyped, AuditTyped, BatcherTyped, LedgerTyped, TransportTyped, ReviewTyped,
     EmbedTyped, ExecTyped, PTL
     DEF Components, AllTyped
<1>4. AllTyped /\ focus \in Foci => ServicesTypeOK
  BY DEF AllTyped, Foci, ServicesTypeOK
<1> QED BY <1>1, <1>2, <1>3, <1>4, ServicesAreComponents, PTL DEF ServicesSpec

\* An embedding is that of the text it was asked for as long as no request was
\* given up, and the record, the streams and the result of a remote command agree with what
\* the command did (ecosystem/embedder.go:325-365, sshexec/exec.go:228-313).
THEOREM ToolsCorrect == ServicesSpec => []ToolsSound
<1>1. Components => [](EmbedSound /\ ExecSound)
  BY EmbedCorrect, ExecCorrect, PTL DEF Components
<1>2. EmbedSound /\ ExecSound => ToolsSound
  BY DEF ToolsSound
<1> QED BY <1>1, <1>2, ServicesAreComponents, PTL

=============================================================================
