------------------------- MODULE WorktreePoolProofs -------------------------
(***************************************************************************)
(* Theorems about WorktreePool for every set of clients and every Floor    *)
(* and ElasticMax.                                                         *)
(***************************************************************************)
EXTENDS WorktreePool, FiniteSetTheorems, TLAPS

-----------------------------------------------------------------------------
(* Type correctness                                                        *)

\* The types hold initially: NewPool starts empty, with both goroutines at the
\* head of their loops.
LEMMA InitTypeOK == Init => TypeOK
<1> SUFFICES ASSUME Init PROVE TypeOK
  OBVIOUS
<1>1. PoolTypeOK
  <2>1. slot \in 0..ElasticMax /\ total \in Int /\ nextID \in Nat
    BY ConfigAssumption DEF Init
  <2>2. calls \in [Clients -> Nat]
    BY DEF Init
  <2> QED BY <2>1, <2>2 DEF Init, PoolTypeOK
<1>2. ActorTypeOK
  BY ClientsAssumption
     DEF Init, ActorTypeOK, Actors, ClientPC, PrewarmPC, InFlight, InFlightPC
<1>3. GitTypeOK
  BY DEF Init, GitTypeOK, NoPrune, PrunePC
<1> QED
  BY <1>1, <1>2, <1>3 DEF TypeOK

\* A goroutine that goes to a label of its own kind and works on w from then on,
\* w being an id if it is in flight, keeps pc and wt well typed.
LEMMA WorkType ==
  ASSUME ActorTypeOK, NEW a \in Actors, NEW label, NEW w \in Nat,
         Work(a, label, w), label \in InFlightPC => w \in ID,
         IF a = Prewarm THEN label \in PrewarmPC ELSE label \in ClientPC
  PROVE  ActorTypeOK'
BY ClientsAssumption DEF ActorTypeOK, Work, Goto, InFlight, Actors

\* The same for a move that leaves wt alone.
LEMMA GotoType ==
  ASSUME ActorTypeOK, NEW a \in Actors, NEW label,
         Goto(a, label), UNCHANGED wt, label \in InFlightPC => a \in InFlight,
         IF a = Prewarm THEN label \in PrewarmPC ELSE label \in ClientPC
  PROVE  ActorTypeOK'
BY ClientsAssumption DEF ActorTypeOK, Goto, InFlight, Actors

\* A step that moves no goroutine.
LEMMA StayType ==
  ASSUME ActorTypeOK, UNCHANGED <<pc, wt>>
  PROVE  ActorTypeOK'
BY DEF ActorTypeOK, InFlight

\* Every step of a client keeps the types.
LEMMA ClientTypeOK ==
  ASSUME TypeOK, NEW c \in Clients,
         Lease(c) \/ Wake(c) \/ GiveUp(c) \/ Release(c) \/ ClientStep(c)
  PROVE  TypeOK'
<1> USE ClientsAssumption, ConfigAssumption
<1>a. /\ c \in Actors /\ c # Prewarm /\ wt[c] \in Nat
      /\ pc[c] \in InFlightPC => c \in InFlight /\ wt[c] \in ID
  BY DEF Actors, TypeOK, ActorTypeOK, InFlight
<1>b. ASSUME PopWarm(c) PROVE ActorTypeOK' /\ warm' \subseteq ID /\ leased' \subseteq ID
  <2>1. PICK w \in warm : /\ warm' = warm \ {w}
                          /\ leased' = leased \cup {w}
                          /\ Work(c, "holding", w)
    BY <1>b DEF PopWarm
  <2>2. w \in Nat
    BY DEF TypeOK, PoolTypeOK, ID
  <2>3. ActorTypeOK'
    BY <1>a, <2>1, <2>2, WorkType DEF TypeOK, ClientPC, InFlightPC
  <2> QED BY <2>1, <2>3 DEF TypeOK, PoolTypeOK
<1>1. CASE Lease(c)
  <2>1. ActorTypeOK' /\ warm' \subseteq ID /\ leased' \subseteq ID
    BY <1>1, <1>a, <1>b, GotoType
       DEF Lease, TypeOK, PoolTypeOK, ClientPC, InFlightPC
  <2> QED BY <1>1, <2>1
       DEF Lease, TypeOK, PoolTypeOK, GitTypeOK, slotVars, gcVars, gitVars
<1>2. CASE Wake(c)
  <2>1. ActorTypeOK'
    BY <1>2, <1>a, GotoType DEF Wake, TypeOK, ClientPC, InFlightPC
  <2> QED BY <1>2, <2>1 DEF Wake, TypeOK, PoolTypeOK, GitTypeOK, gcVars, gitVars
<1>3. CASE GiveUp(c)
  <2>1. ActorTypeOK'
    BY <1>3, <1>a, GotoType DEF GiveUp, TypeOK, ClientPC, InFlightPC
  <2> QED BY <1>3, <2>1
       DEF GiveUp, TypeOK, PoolTypeOK, GitTypeOK, slotVars, gcVars, gitVars
<1>4. CASE Release(c)
  <2>1. PICK w \in Returnable(c) :
          \/ Work(c, "idle", 0) /\ UNCHANGED leased
          \/ w \in leased /\ leased' = leased \ {w} /\ Work(c, "resetting", w)
    BY <1>4 DEF Release
  <2>2. ActorTypeOK' /\ leased' \subseteq ID
    <3>1. CASE Work(c, "idle", 0) /\ UNCHANGED leased
      BY <3>1, <1>a, WorkType DEF TypeOK, PoolTypeOK, ClientPC, InFlightPC
    <3>2. CASE w \in leased /\ leased' = leased \ {w} /\ Work(c, "resetting", w)
      <4>1. w \in ID /\ w \in Nat
        BY <3>2 DEF TypeOK, PoolTypeOK, ID
      <4> QED BY <3>2, <4>1, <1>a, WorkType DEF TypeOK, PoolTypeOK, ClientPC
    <3> QED BY <2>1, <3>1, <3>2
  <2> QED BY <1>4, <2>2
       DEF Release, TypeOK, PoolTypeOK, GitTypeOK, slotVars, gcVars, gitVars
<1>5. CASE SlowPath(c)
  <2>1. nextID + 1 \in ID /\ nextID + 1 \in Nat
    BY DEF TypeOK, PoolTypeOK, ID
  <2>2. ActorTypeOK' /\ warm' \subseteq ID /\ leased' \subseteq ID
    BY <1>5, <2>1, <1>a, <1>b, GotoType, WorkType
       DEF SlowPath, TypeOK, PoolTypeOK, ClientPC, InFlightPC
  <2>3. total' \in Int /\ nextID' \in Nat
    BY <1>5 DEF SlowPath, TypeOK, PoolTypeOK
  <2> QED BY <1>5, <2>2, <2>3
       DEF SlowPath, TypeOK, PoolTypeOK, GitTypeOK, slotVars, gcVars, gitVars
<1>6. CASE SpawnLease(c)
  <2>1. pc[c] \in InFlightPC
    BY <1>6 DEF SpawnLease, InFlightPC
  <2>2. ActorTypeOK'
    BY <1>6, <1>a, <2>1, GotoType, WorkType
       DEF SpawnLease, TypeOK, ClientPC, InFlightPC
  <2>3. GitTypeOK'
    BY <1>6, <1>a, <2>1
       DEF SpawnLease, TypeOK, GitTypeOK, GitAdd, GitAddFails, GitFails, gcVars
  <2> QED BY <1>6, <2>2, <2>3
       DEF SpawnLease, TypeOK, PoolTypeOK, slotVars, gcVars
<1>7. CASE PublishLease(c)
  <2>1. pc[c] \in InFlightPC
    BY <1>7 DEF PublishLease, InFlightPC
  <2>2. ActorTypeOK'
    BY <1>7, <1>a, <2>1, GotoType, WorkType
       DEF PublishLease, TypeOK, ClientPC, InFlightPC
  <2>3. total' \in Int /\ leased' \subseteq ID
    BY <1>7, <1>a, <2>1 DEF PublishLease, TypeOK, PoolTypeOK
  <2> QED BY <1>7, <2>2, <2>3
       DEF PublishLease, TypeOK, PoolTypeOK, GitTypeOK, slotVars, gcVars, gitVars
<1>8. CASE ReleaseClean(c)
  <2>1. pc[c] \in InFlightPC
    BY <1>8 DEF ReleaseClean, InFlightPC
  <2>2. ActorTypeOK'
    BY <1>8, <1>a, WorkType DEF ReleaseClean, TypeOK, ClientPC, InFlightPC
  <2>3. warm' \subseteq ID
    BY <1>8, <1>a, <2>1 DEF ReleaseClean, TypeOK, PoolTypeOK
  <2> QED BY <1>8, <2>2, <2>3
       DEF ReleaseClean, TypeOK, PoolTypeOK, GitTypeOK, slotVars, gcVars, gitVars
<1>9. CASE ReleaseDirty(c)
  <2>1. ActorTypeOK'
    BY <1>9, <1>a, GotoType DEF ReleaseDirty, TypeOK, ClientPC, InFlightPC
  <2> QED BY <1>9, <2>1
       DEF ReleaseDirty, TypeOK, PoolTypeOK, GitTypeOK, GitFails, slotVars, gcVars
<1>10. CASE DestroyWorktree(c)
  <2>1. ActorTypeOK'
    BY <1>10, <1>a, WorkType DEF DestroyWorktree, TypeOK, ClientPC, InFlightPC
  <2>2. GitTypeOK'
    BY <1>10 DEF DestroyWorktree, TypeOK, GitTypeOK, GitRemove, GitFails, gcVars
  <2> QED BY <1>10, <2>1, <2>2
       DEF DestroyWorktree, TypeOK, PoolTypeOK, slotVars, gcVars
<1>11. CASE DestroyCapture(c)
  <2>1. ActorTypeOK'
    BY <1>11, <1>a, GotoType DEF DestroyCapture, TypeOK, ClientPC, InFlightPC
  <2> QED BY <1>11, <2>1
       DEF DestroyCapture, TypeOK, PoolTypeOK, GitTypeOK, slotVars, gcVars, gitVars
<1>12. CASE Signal(c)
  <2>1. ActorTypeOK'
    BY <1>12, <1>a, GotoType DEF Signal, TypeOK, ClientPC, InFlightPC
  <2> QED BY <1>12, <2>1
       DEF Signal, TypeOK, PoolTypeOK, GitTypeOK, gcVars, gitVars
<1> QED
  BY <1>1, <1>2, <1>3, <1>4, <1>5, <1>6, <1>7, <1>8, <1>9, <1>10, <1>11, <1>12
     DEF ClientStep

\* Every step of the prewarm goroutine keeps the types.
LEMMA PrewarmTypeOK ==
  ASSUME TypeOK, PrewarmStep
  PROVE  TypeOK'
<1> USE ClientsAssumption, ConfigAssumption
<1>a. /\ Prewarm \in Actors /\ wt[Prewarm] \in Nat
      /\ pc[Prewarm] \in InFlightPC => Prewarm \in InFlight /\ wt[Prewarm] \in ID
  BY DEF Actors, TypeOK, ActorTypeOK, InFlight
<1>1. CASE WarmShouldSpawn
  <2>1. nextID + 1 \in ID /\ nextID + 1 \in Nat
    BY DEF TypeOK, PoolTypeOK, ID
  <2>2. ActorTypeOK'
    BY <1>1, <2>1, <1>a, GotoType, WorkType
       DEF WarmShouldSpawn, TypeOK, PrewarmPC, InFlightPC
  <2>3. total' \in Int /\ nextID' \in Nat
    BY <1>1 DEF WarmShouldSpawn, TypeOK, PoolTypeOK
  <2> QED BY <1>1, <2>2, <2>3
       DEF WarmShouldSpawn, TypeOK, PoolTypeOK, GitTypeOK, slotVars, gcVars, gitVars
<1>2. CASE SpawnWarm
  <2>1. pc[Prewarm] \in InFlightPC
    BY <1>2 DEF SpawnWarm, InFlightPC
  <2>2. ActorTypeOK'
    BY <1>2, <1>a, <2>1, GotoType, WorkType
       DEF SpawnWarm, TypeOK, PrewarmPC, InFlightPC
  <2>3. GitTypeOK'
    BY <1>2, <1>a, <2>1
       DEF SpawnWarm, TypeOK, GitTypeOK, GitAdd, GitAddFails, GitFails, gcVars
  <2> QED BY <1>2, <2>2, <2>3
       DEF SpawnWarm, TypeOK, PoolTypeOK, slotVars, gcVars
<1>3. CASE AppendWarmAndSignal
  <2>1. pc[Prewarm] \in InFlightPC
    BY <1>3 DEF AppendWarmAndSignal, InFlightPC
  <2>2. ActorTypeOK'
    BY <1>3, <1>a, WorkType DEF AppendWarmAndSignal, TypeOK, PrewarmPC, InFlightPC
  <2>3. total' \in Int /\ warm' \subseteq ID
    BY <1>3, <1>a, <2>1 DEF AppendWarmAndSignal, TypeOK, PoolTypeOK
  <2> QED BY <1>3, <2>2, <2>3
       DEF AppendWarmAndSignal, TypeOK, PoolTypeOK, GitTypeOK, slotVars, gcVars, gitVars
<1>4. CASE Signal(Prewarm)
  <2>1. ActorTypeOK'
    BY <1>4, <1>a, GotoType DEF Signal, TypeOK, PrewarmPC, InFlightPC
  <2> QED BY <1>4, <2>1 DEF Signal, TypeOK, PoolTypeOK, GitTypeOK, gcVars, gitVars
<1>5. CASE PrewarmTick
  <2>1. ActorTypeOK'
    BY <1>5, <1>a, GotoType DEF PrewarmTick, TypeOK, PrewarmPC, InFlightPC
  <2> QED BY <1>5, <2>1
       DEF PrewarmTick, TypeOK, PoolTypeOK, GitTypeOK, slotVars, gcVars, gitVars
<1>6. CASE DrainWarmOnClose
  <2>1. ActorTypeOK'
    BY <1>6, <1>a, GotoType DEF DrainWarmOnClose, TypeOK, PrewarmPC, InFlightPC
  <2> QED BY <1>6, <2>1
       DEF DrainWarmOnClose, TypeOK, PoolTypeOK, GitTypeOK, slotVars, gitVars
<1>7. CASE DrainOne
  <2>1. ActorTypeOK'
    BY <1>7, <1>a, GotoType, StayType DEF DrainOne, TypeOK, PrewarmPC, InFlightPC
  <2>2. GitTypeOK'
    BY <1>7 DEF DrainOne, TypeOK, GitTypeOK, GitRemove, GitFails, gitVars
  <2>3. total' \in Int /\ draining' \subseteq ID
    BY <1>7 DEF DrainOne, TypeOK, PoolTypeOK
  <2> QED BY <1>7, <2>1, <2>2, <2>3 DEF DrainOne, TypeOK, PoolTypeOK, slotVars
<1> QED
  BY <1>1, <1>2, <1>3, <1>4, <1>5, <1>6, <1>7 DEF PrewarmStep

\* Every step of Close and of the garbage collection keeps the types.
LEMMA BackgroundTypeOK ==
  ASSUME TypeOK, CloseBegin \/ CloseEnd \/ GCTick \/ GCStop \/ Prune
  PROVE  TypeOK'
<1>0. ActorTypeOK'
  BY StayType DEF TypeOK, CloseBegin, CloseEnd, GCTick, GCStop, Prune
<1>1. CASE CloseBegin
  BY <1>0, <1>1 DEF CloseBegin, TypeOK, PoolTypeOK, GitTypeOK, slotVars, gcVars, gitVars
<1>2. CASE CloseEnd
  BY <1>0, <1>2 DEF CloseEnd, TypeOK, PoolTypeOK, GitTypeOK, gcVars, gitVars
<1>3. CASE GCTick
  BY <1>0, <1>3 DEF GCTick, GitPrune, TypeOK, PoolTypeOK, GitTypeOK, slotVars, gcVars
<1>4. CASE GCStop
  BY <1>0, <1>4 DEF GCStop, TypeOK, PoolTypeOK, GitTypeOK, slotVars, gitVars
<1>5. CASE Prune
  <2>0. PoolTypeOK'
    BY <1>5 DEF Prune, TypeOK, PoolTypeOK, slotVars
  <2> SUFFICES GitTypeOK'
    BY <1>0, <2>0 DEF TypeOK
  <2> USE DEF TypeOK, GitTypeOK, Pruning, PrunePC
  <2>1. CASE PruneOrphans
    <3>1. prune.calls + 1 \in Nat
      OBVIOUS
    <3> QED BY <2>1, <3>1 DEF PruneOrphans, gitVars
  <2>2. CASE PruneLayerA
    BY <2>2 DEF PruneLayerA, GitPrune, GitFails
  <2>3. CASE PruneList
    <3>1. failures' \in Nat
      BY <2>3 DEF PruneList, GitFails, gitVars
    <3>2. UNCHANGED <<disk, admin>>
      BY <2>3 DEF PruneList, gitVars
    <3>3. prune' \in [pc : PrunePC, known : SUBSET ID, entries : SUBSET ID,
                      target : Nat, calls : Nat]
      <4>1. CASE prune' = [prune EXCEPT !.pc = "readdir", !.known = admin]
        BY <4>1
      <4>2. CASE prune' = [NoPrune EXCEPT !.calls = prune.calls]
        BY <4>2 DEF NoPrune
      <4> QED BY <2>3, <4>1, <4>2 DEF PruneList
    <3> QED BY <3>1, <3>2, <3>3
  <2>4. CASE PruneReadDir
    <3>1. CASE Pruning("readdir", [prune EXCEPT !.pc = "sweep", !.entries = disk]) /\ UNCHANGED gitVars
      BY <3>1 DEF gitVars
    <3>2. CASE /\ Pruning("readdir", [NoPrune EXCEPT !.calls = prune.calls])
               /\ GitFails /\ UNCHANGED <<disk, admin>>
      BY <3>2 DEF NoPrune, GitFails
    <3> QED BY <2>4, <3>1, <3>2 DEF PruneReadDir
  <2>5. CASE PruneEntry
    <3>1. CASE prune.entries = {}
      BY <2>5, <3>1 DEF PruneEntry, NoPrune, gitVars
    <3>2. ASSUME NEW w \in prune.entries,
                 IF w \in prune.known \/ w \in leased \/ w \in warm
                 THEN Pruning("sweep", [prune EXCEPT !.entries = @ \ {w}])
                 ELSE Pruning("sweep", [prune EXCEPT !.entries = @ \ {w},
                                               !.pc = "remove", !.target = w]),
                 UNCHANGED gitVars
          PROVE  GitTypeOK'
      <4>1. w \in Nat
        BY DEF ID
      <4> QED BY <3>2, <4>1 DEF gitVars
    <3> QED BY <2>5, <3>1, <3>2 DEF PruneEntry
  <2>6. CASE PruneRemove
    <3>1. failures' \in Nat
      BY <2>6 DEF PruneRemove, GitFails
    <3>2. disk' \in SUBSET ID /\ admin' \in SUBSET ID
      BY <2>6 DEF PruneRemove
    <3>3. prune' \in [pc : PrunePC, known : SUBSET ID, entries : SUBSET ID,
                      target : Nat, calls : Nat]
      BY <2>6 DEF PruneRemove
    <3> QED BY <3>1, <3>2, <3>3
  <2> QED BY <1>5, <2>1, <2>2, <2>3, <2>4, <2>5, <2>6 DEF Prune
<1> QED
  BY <1>1, <1>2, <1>3, <1>4, <1>5

\* Every step keeps the types.
LEMMA NextTypeOK == TypeOK /\ [Next]_vars => TypeOK'
<1> SUFFICES ASSUME TypeOK, [Next]_vars PROVE TypeOK'
  OBVIOUS
<1>1. CASE UNCHANGED vars
  BY <1>1, StayType DEF TypeOK, PoolTypeOK, GitTypeOK, vars
<1> QED
  BY <1>1, ClientTypeOK, PrewarmTypeOK, BackgroundTypeOK DEF Next, UnsweptNext

\* The variables of the pool keep their types in every behaviour.
THEOREM TypeCorrect == Spec => []TypeOK
<1> QED
  BY InitTypeOK, NextTypeOK, PTL DEF Spec

-----------------------------------------------------------------------------
(* The elastic budget.  Seen from warm, leased, total and the goroutines in *)
(* flight, every step of the pool is one of seven moves of a ledger.        *)

\* A goroutine reserves a slot for a fresh id.
Reserve(a) ==
  /\ a \notin InFlight /\ HasCapacity
  /\ total' = total + 1 /\ nextID' = nextID + 1
  /\ Work(a, "spawning", nextID + 1)
  /\ UNCHANGED <<warm, leased, closed>>

\* It gives the slot back: a failed spawn, a destroyed worktree, a late spawn.
Abandon(a) ==
  /\ a \in InFlight
  /\ total' = total - 1
  /\ \E label \in (ClientPC \cup PrewarmPC) \ InFlightPC : Work(a, label, 0)
  /\ UNCHANGED <<warm, leased, nextID, closed>>

\* Its worktree becomes warm.
Deposit(a) ==
  /\ a \in InFlight
  /\ warm' = warm \cup {wt[a]}
  /\ Work(a, "signalling", 0)
  /\ UNCHANGED <<leased, total, nextID, closed>>

\* Its worktree becomes leased.
Grant(a) ==
  /\ a \in InFlight
  /\ leased' = leased \cup {wt[a]}
  /\ Goto(a, "holding")
  /\ UNCHANGED <<warm, total, nextID, closed, wt>>

\* A warm worktree is leased.
Pop(a) ==
  /\ a \notin InFlight
  /\ PopWarm(a)
  /\ UNCHANGED <<total, nextID, closed>>

\* A leased worktree is taken back to be reset.
TakeBack(a) ==
  /\ a \notin InFlight
  /\ \E w \in leased : leased' = leased \ {w} /\ Work(a, "resetting", w)
  /\ UNCHANGED <<warm, total, nextID, closed>>

\* Nothing in the ledger changes, or the pool is closed and only loses entries.
Still ==
  /\ UNCHANGED nextID
  /\ \A a \in InFlight' : a \in InFlight /\ wt'[a] = wt[a]
  /\ \/ UNCHANGED <<warm, leased, total, closed>> /\ InFlight' = InFlight
     \/ /\ closed'
        /\ warm' \subseteq warm /\ leased' \subseteq leased /\ total' <= total

\* Only Close starts the drain, and nothing reopens a pool.
DrainsClosed == pc[Prewarm] = "draining" => closed

LedgerMove ==
  \/ \E a \in Actors : \/ Reserve(a) \/ Abandon(a) \/ Deposit(a) \/ Grant(a)
                       \/ Pop(a) \/ TakeBack(a)
  \/ Still

\* A goroutine that moves outside the flight, or within it with its worktree,
\* leaves the ledger alone.
LEMMA MoveStill ==
  ASSUME TypeOK, NEW a \in Actors, NEW label,
         Goto(a, label),
         \/ a \notin InFlight /\ label \notin InFlightPC
            /\ (UNCHANGED wt \/ \E w : Work(a, label, w))
         \/ a \in InFlight /\ label \in InFlightPC /\ UNCHANGED wt
  PROVE  /\ InFlight' = InFlight
         /\ \A x \in InFlight' : x \in InFlight /\ wt'[x] = wt[x]
BY DEF TypeOK, ActorTypeOK, Goto, Work, InFlight

\* The steps of a client as moves of the ledger.
LEMMA ClientMoves ==
  ASSUME TypeOK, NEW c \in Clients,
         Lease(c) \/ Wake(c) \/ GiveUp(c) \/ Release(c) \/ ClientStep(c)
  PROVE  LedgerMove
<1>a. c \in Actors /\ (c \in InFlight <=> pc[c] \in InFlightPC)
  BY DEF Actors, InFlight
<1>1. CASE Lease(c)
  <2>1. CASE PopWarm(c)
    BY <1>1, <1>a, <2>1 DEF Lease, LedgerMove, Pop, InFlightPC
  <2>2. CASE Goto(c, "slow") /\ UNCHANGED <<warm, leased, wt>>
    BY <1>1, <1>a, <2>2, MoveStill DEF Lease, LedgerMove, Still, InFlightPC
  <2> QED BY <1>1, <2>1, <2>2 DEF Lease
<1>2. CASE Wake(c)
  BY <1>2, <1>a, MoveStill DEF Wake, LedgerMove, Still, InFlightPC
<1>3. CASE GiveUp(c)
  BY <1>3, <1>a, MoveStill DEF GiveUp, LedgerMove, Still, InFlightPC
<1>4. CASE Release(c)
  <2>1. PICK w \in Returnable(c) :
          \/ Work(c, "idle", 0) /\ UNCHANGED leased
          \/ w \in leased /\ leased' = leased \ {w} /\ Work(c, "resetting", w)
    BY <1>4 DEF Release
  <2>2. c \notin InFlight
    BY <2>1, <1>a DEF Returnable, InFlightPC
  <2>3. CASE Work(c, "idle", 0) /\ UNCHANGED leased
    <3>1. Goto(c, "idle") /\ "idle" \notin InFlightPC
      BY <2>3 DEF Work, InFlightPC
    <3> QED BY <1>4, <1>a, <2>2, <2>3, <3>1, MoveStill DEF Release, LedgerMove, Still
  <2>4. CASE w \in leased /\ leased' = leased \ {w} /\ Work(c, "resetting", w)
    BY <1>4, <1>a, <2>2, <2>4 DEF Release, LedgerMove, TakeBack
  <2> QED BY <2>1, <2>3, <2>4
<1>5. CASE SlowPath(c)
  <2>1. c \notin InFlight
    BY <1>5, <1>a DEF SlowPath, InFlightPC
  <2>2. CASE PopWarm(c) /\ UNCHANGED <<total, nextID>>
    BY <1>5, <1>a, <2>1, <2>2 DEF SlowPath, LedgerMove, Pop
  <2>3. CASE /\ HasCapacity /\ total' = total + 1 /\ nextID' = nextID + 1
             /\ Work(c, "spawning", nextID + 1) /\ UNCHANGED <<warm, leased>>
    BY <1>5, <1>a, <2>1, <2>3 DEF SlowPath, LedgerMove, Reserve
  <2>4. CASE (Goto(c, "idle") \/ Goto(c, "parked"))
             /\ UNCHANGED <<warm, leased, wt, total, nextID>>
    BY <1>5, <1>a, <2>1, <2>4, MoveStill
       DEF SlowPath, LedgerMove, Still, InFlightPC
  <2> QED BY <1>5, <2>2, <2>3, <2>4 DEF SlowPath
<1>6. CASE SpawnLease(c)
  <2>1. c \in InFlight
    BY <1>6, <1>a DEF SpawnLease, InFlightPC
  <2>2. CASE Goto(c, "added") /\ UNCHANGED <<wt, total>>
    BY <1>6, <1>a, <2>1, <2>2, MoveStill
       DEF SpawnLease, LedgerMove, Still, InFlightPC
  <2>3. CASE Work(c, "idle", 0) /\ total' = total - 1
    BY <1>6, <1>a, <2>1, <2>3
       DEF SpawnLease, LedgerMove, Abandon, ClientPC, InFlightPC
  <2> QED BY <1>6, <2>2, <2>3 DEF SpawnLease
<1>7. CASE PublishLease(c)
  <2>1. c \in InFlight
    BY <1>7, <1>a DEF PublishLease, InFlightPC
  <2>2. CASE total' = total - 1 /\ Work(c, "idle", 0) /\ UNCHANGED leased
    BY <1>7, <1>a, <2>1, <2>2
       DEF PublishLease, LedgerMove, Abandon, ClientPC, InFlightPC
  <2>3. CASE /\ leased' = leased \cup {wt[c]} /\ Goto(c, "holding")
             /\ UNCHANGED <<total, wt>>
    BY <1>7, <1>a, <2>1, <2>3 DEF PublishLease, LedgerMove, Grant
  <2> QED BY <1>7, <2>2, <2>3 DEF PublishLease
<1>8. CASE ReleaseClean(c)
  <2>1. c \in InFlight
    BY <1>8, <1>a DEF ReleaseClean, InFlightPC
  <2>2. CASE closed /\ Work(c, "idle", 0) /\ UNCHANGED warm
    <3>1. \A x \in InFlight' : x \in InFlight /\ wt'[x] = wt[x]
      BY <2>2 DEF Work, Goto, InFlight, InFlightPC, TypeOK, ActorTypeOK
    <3> QED BY <1>8, <2>2, <3>1
            DEF ReleaseClean, LedgerMove, Still, TypeOK, PoolTypeOK
  <2>3. CASE warm' = warm \cup {wt[c]} /\ Work(c, "signalling", 0)
    BY <1>8, <1>a, <2>1, <2>3 DEF ReleaseClean, LedgerMove, Deposit
  <2> QED BY <1>8, <2>2, <2>3 DEF ReleaseClean
<1>9. CASE ReleaseDirty(c)
  BY <1>9, <1>a, MoveStill DEF ReleaseDirty, LedgerMove, Still, InFlightPC
<1>10. CASE DestroyWorktree(c)
  BY <1>10, <1>a DEF DestroyWorktree, LedgerMove, Abandon, ClientPC, InFlightPC
<1>11. CASE DestroyCapture(c)
  BY <1>11, <1>a, MoveStill DEF DestroyCapture, LedgerMove, Still, InFlightPC
<1>12. CASE Signal(c)
  BY <1>12, <1>a, MoveStill DEF Signal, LedgerMove, Still, InFlightPC
<1> QED
  BY <1>1, <1>2, <1>3, <1>4, <1>5, <1>6, <1>7, <1>8, <1>9, <1>10, <1>11, <1>12
     DEF ClientStep

\* The steps of the prewarm goroutine as moves of the ledger.
LEMMA PrewarmMoves ==
  ASSUME TypeOK, DrainsClosed, PrewarmStep
  PROVE  LedgerMove
<1>a. Prewarm \in Actors /\ (Prewarm \in InFlight <=> pc[Prewarm] \in InFlightPC)
  BY DEF Actors, InFlight
<1>1. CASE WarmShouldSpawn
  <2>1. Prewarm \notin InFlight
    BY <1>1, <1>a DEF WarmShouldSpawn, InFlightPC
  <2>2. CASE /\ HasCapacity /\ total' = total + 1 /\ nextID' = nextID + 1
             /\ Work(Prewarm, "spawning", nextID + 1)
    BY <1>1, <1>a, <2>1, <2>2 DEF WarmShouldSpawn, LedgerMove, Reserve
  <2>3. CASE Goto(Prewarm, "tick") /\ UNCHANGED <<total, nextID, wt>>
    BY <1>1, <1>a, <2>1, <2>3, MoveStill
       DEF WarmShouldSpawn, LedgerMove, Still, InFlightPC
  <2> QED BY <1>1, <2>2, <2>3 DEF WarmShouldSpawn
<1>2. CASE SpawnWarm
  <2>1. Prewarm \in InFlight
    BY <1>2, <1>a DEF SpawnWarm, InFlightPC
  <2>2. CASE Goto(Prewarm, "added") /\ UNCHANGED <<wt, total>>
    BY <1>2, <1>a, <2>1, <2>2, MoveStill
       DEF SpawnWarm, LedgerMove, Still, InFlightPC
  <2>3. CASE Work(Prewarm, "backoff", 0) /\ total' = total - 1
    BY <1>2, <1>a, <2>1, <2>3
       DEF SpawnWarm, LedgerMove, Abandon, PrewarmPC, InFlightPC
  <2> QED BY <1>2, <2>2, <2>3 DEF SpawnWarm
<1>3. CASE AppendWarmAndSignal
  <2>1. Prewarm \in InFlight
    BY <1>3, <1>a DEF AppendWarmAndSignal, InFlightPC
  <2>2. CASE total' = total - 1 /\ Work(Prewarm, "check", 0) /\ UNCHANGED warm
    BY <1>3, <1>a, <2>1, <2>2
       DEF AppendWarmAndSignal, LedgerMove, Abandon, PrewarmPC, InFlightPC
  <2>3. CASE /\ warm' = warm \cup {wt[Prewarm]}
             /\ Work(Prewarm, "signalling", 0) /\ UNCHANGED total
    BY <1>3, <1>a, <2>1, <2>3 DEF AppendWarmAndSignal, LedgerMove, Deposit
  <2> QED BY <1>3, <2>2, <2>3 DEF AppendWarmAndSignal
<1>4. CASE Signal(Prewarm)
  BY <1>4, <1>a, MoveStill DEF Signal, LedgerMove, Still, InFlightPC
<1>5. CASE PrewarmTick
  BY <1>5, <1>a, MoveStill DEF PrewarmTick, LedgerMove, Still, InFlightPC
<1>6. CASE DrainWarmOnClose
  BY <1>6, <1>a, MoveStill
     DEF DrainWarmOnClose, LedgerMove, Still, InFlightPC, TypeOK, PoolTypeOK
<1>7. CASE DrainOne
  <2>1. UNCHANGED <<warm, leased, nextID, closed, wt>>
    BY <1>7 DEF DrainOne
  <2>2. CASE UNCHANGED <<pc>> /\ total' = total - 1
    <3>1. closed'
      BY <1>7, <2>1 DEF DrainOne, DrainsClosed
    <3> QED BY <2>1, <2>2, <3>1 DEF LedgerMove, Still, InFlight, TypeOK, PoolTypeOK
  <2>3. CASE Goto(Prewarm, "done") /\ UNCHANGED total
    BY <1>7, <1>a, <2>1, <2>3, MoveStill
       DEF DrainOne, LedgerMove, Still, InFlightPC
  <2> QED BY <1>7, <2>2, <2>3 DEF DrainOne
<1> QED
  BY <1>1, <1>2, <1>3, <1>4, <1>5, <1>6, <1>7 DEF PrewarmStep

\* Close and the garbage collection only lose entries of the ledger.
LEMMA BackgroundMoves ==
  ASSUME TypeOK, CloseBegin \/ CloseEnd \/ GCTick \/ GCStop \/ Prune
  PROVE  LedgerMove
<1>1. UNCHANGED <<pc, wt, nextID, total>>
  BY DEF CloseBegin, CloseEnd, GCTick, GCStop, Prune
<1>2. InFlight' = InFlight /\ \A a \in InFlight' : a \in InFlight /\ wt'[a] = wt[a]
  BY <1>1 DEF InFlight
<1>3. CASE CloseBegin \/ CloseEnd
  BY <1>1, <1>2, <1>3 DEF CloseBegin, CloseEnd, LedgerMove, Still, TypeOK, PoolTypeOK
<1>4. CASE GCTick \/ GCStop \/ Prune
  BY <1>1, <1>2, <1>4 DEF GCTick, GCStop, Prune, LedgerMove, Still
<1> QED
  BY <1>3, <1>4

\* Every step of the pool is a move of the ledger.
LEMMA NextMoves ==
  ASSUME TypeOK, DrainsClosed, [Next]_vars
  PROVE  LedgerMove
<1>1. CASE UNCHANGED vars
  BY <1>1 DEF vars, LedgerMove, Still, InFlight
<1> QED
  BY <1>1, ClientMoves, PrewarmMoves, BackgroundMoves DEF Next, UnsweptNext

\* The drain starts after Close only.
LEMMA DrainsClosedStep ==
  ASSUME TypeOK, DrainsClosed, [Next]_vars
  PROVE  DrainsClosed'
<1>1. closed => closed'
  BY NextMoves DEF LedgerMove, Reserve, Abandon, Deposit, Grant, Pop, TakeBack, Still
<1>2. ASSUME NEW a \in Actors, NEW label, label # "draining", Goto(a, label)
      PROVE  DrainsClosed'
  BY <1>1, <1>2 DEF DrainsClosed, Goto, TypeOK, ActorTypeOK, Actors
<1>3. CASE UNCHANGED pc
  BY <1>1, <1>3 DEF DrainsClosed
<1>4. ASSUME NEW c \in Clients,
             Lease(c) \/ Wake(c) \/ GiveUp(c) \/ Release(c) \/ ClientStep(c)
      PROVE  DrainsClosed'
  <2>1. pc'[Prewarm] = pc[Prewarm]
    BY <1>4, ClientsAssumption
       DEF TypeOK, ActorTypeOK, Actors, Goto, Work, Lease, Wake, GiveUp, Release,
           ClientStep, SlowPath, PopWarm, SpawnLease, PublishLease, ReleaseClean,
           ReleaseDirty, DestroyWorktree, DestroyCapture, Signal
  <2> QED BY <1>1, <2>1 DEF DrainsClosed
<1>5. CASE PrewarmStep
  <2>1. CASE DrainWarmOnClose
    BY <1>1, <2>1 DEF DrainWarmOnClose, DrainsClosed
  <2>2. CASE DrainOne
    BY <1>1, <1>2, <1>3, <2>2 DEF DrainOne, Actors
  <2>3. CASE WarmShouldSpawn \/ SpawnWarm \/ AppendWarmAndSignal
             \/ Signal(Prewarm) \/ PrewarmTick
    BY <1>2, <2>3 DEF Actors, Work, WarmShouldSpawn, SpawnWarm,
                      AppendWarmAndSignal, Signal, PrewarmTick
  <2> QED BY <1>5, <2>1, <2>2, <2>3 DEF PrewarmStep
<1>6. CASE CloseBegin \/ CloseEnd \/ GCTick \/ GCStop \/ Prune
  BY <1>3, <1>6 DEF CloseBegin, CloseEnd, GCTick, GCStop, Prune
<1> QED
  BY <1>3, <1>4, <1>5, <1>6 DEF Next, UnsweptNext, vars

\* Worktrees are in one place at a time, and no id is handed out twice.
Separate ==
  /\ IsFiniteSet(warm) /\ IsFiniteSet(leased)
  /\ warm \cap leased = {}
  /\ \A w \in warm \cup leased : w <= nextID
  /\ \A a \in InFlight : wt[a] <= nextID /\ wt[a] \notin warm \cup leased
  /\ \A a, b \in InFlight : wt[a] = wt[b] => a = b

\* The goroutines in flight after one of them changes its label.
LEMMA FlightChange ==
  ASSUME TypeOK, NEW a \in Actors, NEW label, Goto(a, label)
  PROVE  InFlight' = IF label \in InFlightPC THEN InFlight \cup {a} ELSE InFlight \ {a}
BY DEF TypeOK, ActorTypeOK, Goto, InFlight

\* Finitely many goroutines, so finitely many in flight.
LEMMA FlightFinite == IsFiniteSet(InFlight)
<1>1. IsFiniteSet(Actors)
  BY ClientsAssumption, FS_AddElement DEF Actors
<1> QED
  BY <1>1, FS_Subset DEF InFlight

\* A ledger move keeps the places of the worktrees separate.
LEMMA SeparateStep ==
  ASSUME TypeOK, TypeOK', Separate, LedgerMove
  PROVE  Separate'
<1>0. nextID \in Nat /\ warm \subseteq Nat /\ leased \subseteq Nat
      /\ wt \in [Actors -> Nat] /\ InFlight \subseteq Actors
  BY DEF TypeOK, PoolTypeOK, ActorTypeOK, ID, InFlight
<1>1. ASSUME NEW a \in Actors, Reserve(a) PROVE Separate'
  <2>1. InFlight' = InFlight \cup {a} /\ wt' = [wt EXCEPT ![a] = nextID + 1]
    BY <1>1, FlightChange DEF Reserve, Work, InFlightPC
  <2>2. nextID' = nextID + 1 /\ UNCHANGED <<warm, leased>> /\ a \notin InFlight
    BY <1>1 DEF Reserve
  <2> QED BY <1>0, <2>1, <2>2 DEF Separate
<1>2. ASSUME NEW a \in Actors, Abandon(a) PROVE Separate'
  <2>1. InFlight' = InFlight \ {a} /\ wt' = [wt EXCEPT ![a] = 0]
    BY <1>2, FlightChange DEF Abandon, Work
  <2> QED BY <1>0, <1>2, <2>1 DEF Separate, Abandon
<1>3. ASSUME NEW a \in Actors, Deposit(a) PROVE Separate'
  <2>1. InFlight' = InFlight \ {a} /\ wt' = [wt EXCEPT ![a] = 0]
    BY <1>3, FlightChange DEF Deposit, Work, InFlightPC
  <2>2. IsFiniteSet(warm')
    BY <1>3, FS_AddElement DEF Deposit, Separate
  <2> QED BY <1>0, <1>3, <2>1, <2>2 DEF Separate, Deposit
<1>4. ASSUME NEW a \in Actors, Grant(a) PROVE Separate'
  <2>1. InFlight' = InFlight \ {a}
    BY <1>4, FlightChange DEF Grant, InFlightPC
  <2>2. IsFiniteSet(leased')
    BY <1>4, FS_AddElement DEF Grant, Separate
  <2> QED BY <1>0, <1>4, <2>1, <2>2 DEF Separate, Grant
<1>5. ASSUME NEW a \in Actors, Pop(a) PROVE Separate'
  <2>1. PICK w \in warm : /\ warm' = warm \ {w}
                          /\ leased' = leased \cup {w}
                          /\ Work(a, "holding", w)
    BY <1>5 DEF Pop, PopWarm
  <2>2. InFlight' = InFlight /\ wt' = [wt EXCEPT ![a] = w] /\ a \notin InFlight
    BY <1>5, <2>1, FlightChange DEF Pop, Work, InFlightPC
  <2>3. IsFiniteSet(warm') /\ IsFiniteSet(leased')
    BY <2>1, FS_AddElement, FS_RemoveElement DEF Separate
  <2> QED BY <1>0, <1>5, <2>1, <2>2, <2>3 DEF Separate, Pop
<1>6. ASSUME NEW a \in Actors, TakeBack(a) PROVE Separate'
  <2>1. PICK w \in leased : leased' = leased \ {w} /\ Work(a, "resetting", w)
    BY <1>6 DEF TakeBack
  <2>2. /\ InFlight' = InFlight \cup {a} /\ wt' = [wt EXCEPT ![a] = w]
        /\ a \notin InFlight
    BY <1>6, <2>1, FlightChange DEF TakeBack, Work, InFlightPC
  <2>3. IsFiniteSet(leased')
    BY <2>1, FS_RemoveElement DEF Separate
  <2> QED BY <1>0, <1>6, <2>1, <2>2, <2>3 DEF Separate, TakeBack
<1>7. CASE Still
  <2>1. warm' \subseteq warm /\ leased' \subseteq leased /\ nextID' = nextID
    BY <1>7 DEF Still
  <2>2. IsFiniteSet(warm') /\ IsFiniteSet(leased')
    BY <2>1, FS_Subset DEF Separate
  <2> QED BY <1>0, <1>7, <2>1, <2>2 DEF Separate, Still
<1> QED
  BY <1>1, <1>2, <1>3, <1>4, <1>5, <1>6, <1>7 DEF LedgerMove

\* A ledger move keeps the counter exact until Close and below ElasticMax.
LEMMA AccountedStep ==
  ASSUME TypeOK, TypeOK', Separate, LedgerMove,
         SlotsAccounted, total <= ElasticMax
  PROVE  SlotsAccounted' /\ total' <= ElasticMax
<1> DEFINE W == Cardinality(warm)
           L == Cardinality(leased)
           F == Cardinality(InFlight)
<1>0. /\ W \in Nat /\ L \in Nat /\ F \in Nat
      /\ total \in Int /\ total' \in Int /\ ElasticMax \in Nat
  BY FS_CardinalityType, FlightFinite, ConfigAssumption
     DEF Separate, TypeOK, PoolTypeOK
<1>1. ASSUME NEW a \in Actors, Reserve(a)
      PROVE  SlotsAccounted' /\ total' <= ElasticMax
  <2>1. InFlight' = InFlight \cup {a} /\ a \notin InFlight
    BY <1>1, FlightChange DEF Reserve, Work, InFlightPC
  <2>2. Cardinality(InFlight') = F + 1
    BY <2>1, FlightFinite, FS_AddElement
  <2> QED BY <1>0, <1>1, <2>2 DEF Reserve, HasCapacity, SlotsAccounted, Live
<1>2. ASSUME NEW a \in Actors, Abandon(a)
      PROVE  SlotsAccounted' /\ total' <= ElasticMax
  <2>1. InFlight' = InFlight \ {a} /\ a \in InFlight
    BY <1>2, FlightChange DEF Abandon, Work
  <2>2. Cardinality(InFlight') = F - 1
    BY <2>1, FlightFinite, FS_RemoveElement
  <2> QED BY <1>0, <1>2, <2>2 DEF Abandon, SlotsAccounted, Live
<1>3. ASSUME NEW a \in Actors, Deposit(a)
      PROVE  SlotsAccounted' /\ total' <= ElasticMax
  <2>1. InFlight' = InFlight \ {a} /\ a \in InFlight
    BY <1>3, FlightChange DEF Deposit, Work, InFlightPC
  <2>2. Cardinality(InFlight') = F - 1
    BY <2>1, FlightFinite, FS_RemoveElement
  <2>3. Cardinality(warm') = W + 1
    BY <1>3, <2>1, FS_AddElement DEF Deposit, Separate
  <2> QED BY <1>0, <1>3, <2>2, <2>3 DEF Deposit, SlotsAccounted, Live
<1>4. ASSUME NEW a \in Actors, Grant(a)
      PROVE  SlotsAccounted' /\ total' <= ElasticMax
  <2>1. InFlight' = InFlight \ {a} /\ a \in InFlight
    BY <1>4, FlightChange DEF Grant, InFlightPC
  <2>2. Cardinality(InFlight') = F - 1
    BY <2>1, FlightFinite, FS_RemoveElement
  <2>3. Cardinality(leased') = L + 1
    BY <1>4, <2>1, FS_AddElement DEF Grant, Separate
  <2> QED BY <1>0, <1>4, <2>2, <2>3 DEF Grant, SlotsAccounted, Live
<1>5. ASSUME NEW a \in Actors, Pop(a)
      PROVE  SlotsAccounted' /\ total' <= ElasticMax
  <2>1. PICK w \in warm : /\ warm' = warm \ {w}
                          /\ leased' = leased \cup {w}
                          /\ Work(a, "holding", w)
    BY <1>5 DEF Pop, PopWarm
  <2>2. InFlight' = InFlight
    BY <1>5, <2>1, FlightChange DEF Pop, Work, InFlightPC
  <2>3. Cardinality(warm') = W - 1
    BY <2>1, FS_RemoveElement DEF Separate
  <2>4. Cardinality(leased') = L + 1
    BY <2>1, FS_AddElement DEF Separate
  <2> QED BY <1>0, <1>5, <2>2, <2>3, <2>4 DEF Pop, SlotsAccounted, Live
<1>6. ASSUME NEW a \in Actors, TakeBack(a)
      PROVE  SlotsAccounted' /\ total' <= ElasticMax
  <2>1. PICK w \in leased : leased' = leased \ {w} /\ Work(a, "resetting", w)
    BY <1>6 DEF TakeBack
  <2>2. InFlight' = InFlight \cup {a} /\ a \notin InFlight
    BY <1>6, <2>1, FlightChange DEF TakeBack, Work, InFlightPC
  <2>3. Cardinality(InFlight') = F + 1
    BY <2>2, FlightFinite, FS_AddElement
  <2>4. Cardinality(leased') = L - 1
    BY <2>1, FS_RemoveElement DEF Separate
  <2> QED BY <1>0, <1>6, <2>3, <2>4 DEF TakeBack, SlotsAccounted, Live
<1>7. CASE Still
  BY <1>0, <1>7 DEF Still, SlotsAccounted, Live
<1> QED
  BY <1>1, <1>2, <1>3, <1>4, <1>5, <1>6, <1>7 DEF LedgerMove

\* The inductive invariant of the elastic budget.
BudgetInv ==
  TypeOK /\ DrainsClosed /\ Separate /\ SlotsAccounted /\ total <= ElasticMax

\* Every step of the pool keeps the budget: it is a ledger move or changes none
\* of what the ledger counts.
LEMMA BudgetInductive ==
  /\ Init => BudgetInv
  /\ BudgetInv /\ [Next]_vars => BudgetInv'
<1>1. ASSUME Init PROVE BudgetInv
  <2>1. TypeOK
    BY <1>1, InitTypeOK
  <2>2. InFlight = {}
    BY <1>1 DEF Init, InFlight, InFlightPC, Actors
  <2>3. Separate
    BY <1>1, <2>2, FS_EmptySet DEF Init, Separate
  <2>4. SlotsAccounted
    BY <1>1, <2>2, FS_EmptySet DEF Init, SlotsAccounted, Live
  <2>5. DrainsClosed
    BY <1>1 DEF Init, DrainsClosed, Actors
  <2>6. total <= ElasticMax
    BY <1>1, ConfigAssumption DEF Init
  <2> QED BY <2>1, <2>3, <2>4, <2>5, <2>6 DEF BudgetInv
<1>2. ASSUME BudgetInv, [Next]_vars PROVE BudgetInv'
  <2>1. TypeOK'
    BY <1>2, NextTypeOK DEF BudgetInv
  <2>2. LedgerMove /\ DrainsClosed'
    BY <1>2, NextMoves, DrainsClosedStep DEF BudgetInv
  <2>3. Separate'
    BY <1>2, <2>1, <2>2, SeparateStep DEF BudgetInv
  <2>4. SlotsAccounted' /\ total' <= ElasticMax
    BY <1>2, <2>1, <2>2, AccountedStep DEF BudgetInv
  <2> QED BY <2>1, <2>2, <2>3, <2>4 DEF BudgetInv
<1> QED
  BY <1>1, <1>2

\* For any number of clients, with or without reapers that release twice, the
\* counter that gates spawning is exact until Close.
THEOREM AccountingCorrect == Spec => []SlotsAccounted
<1>1. BudgetInv => SlotsAccounted
  BY DEF BudgetInv
<1> QED
  BY <1>1, BudgetInductive, PTL DEF Spec

\* Warm, leased and in-flight worktrees never exceed ElasticMax until Close.
THEOREM CeilingCorrect == Spec => []ElasticCeiling
<1>1. BudgetInv => ElasticCeiling
  BY DEF BudgetInv, SlotsAccounted, ElasticCeiling
<1> QED
  BY <1>1, BudgetInductive, PTL DEF Spec

-----------------------------------------------------------------------------
(* The pool implements LeaseLedger.                                         *)

\* A client that is not handed a worktree and hands none back changes nothing
\* of who holds what.
LEMMA HeldStays ==
  ASSUME TypeOK, NEW c \in Clients, pc[c] # "holding",
         NEW label, label # "holding", Goto(c, label),
         UNCHANGED wt \/ \E w : Work(c, label, w)
  PROVE  Held' = Held
<1>1. \A x \in Clients : /\ pc'[x] = "holding" <=> pc[x] = "holding"
                         /\ pc[x] = "holding" => wt'[x] = wt[x]
  BY DEF TypeOK, ActorTypeOK, Actors, Goto, Work
<1> QED BY <1>1 DEF Held

\* Neither does a step that moves no client.
LEMMA HeldUntouched ==
  ASSUME \A x \in Clients : pc'[x] = pc[x] /\ wt'[x] = wt[x]
  PROVE  Held' = Held
BY DEF Held

\* A client that is handed w.
LEMMA HeldGains ==
  ASSUME TypeOK, NEW c \in Clients, pc[c] # "holding", Goto(c, "holding"),
         NEW w, w = wt'[c], UNCHANGED wt \/ Work(c, "holding", w)
  PROVE  Held' = Held \cup {<<c, w>>} /\ <<c, w>> \notin Held
<1>1. \A x \in Clients : /\ pc'[x] = "holding" <=> (x = c \/ pc[x] = "holding")
                         /\ x # c => wt'[x] = wt[x]
  BY DEF TypeOK, ActorTypeOK, Actors, Goto, Work
<1> QED BY <1>1 DEF Held

\* A client that hands its worktree back.
LEMMA HeldLoses ==
  ASSUME TypeOK, NEW c \in Clients, pc[c] = "holding",
         NEW label, label # "holding", NEW w, Work(c, label, w)
  PROVE  Held' = Held \ {<<c, wt[c]>>} /\ <<c, wt[c]>> \in Held
<1>1. \A x \in Clients : /\ pc'[x] = "holding" <=> (x # c /\ pc[x] = "holding")
                         /\ x # c => wt'[x] = wt[x]
  BY DEF TypeOK, ActorTypeOK, Actors, Goto, Work
<1> QED BY <1>1 DEF Held

\* While the pool is open and a worktree is warm or in flight, fewer than
\* ElasticMax are on lease.
LEMMA RoomToGrant ==
  ASSUME BudgetInv, ~closed, warm # {} \/ InFlight # {}
  PROVE  Cardinality(leased) < ElasticMax
<1> DEFINE W == Cardinality(warm)
           L == Cardinality(leased)
           F == Cardinality(InFlight)
<1>1. /\ W \in Nat /\ L \in Nat /\ F \in Nat
      /\ total \in Int /\ ElasticMax \in Nat
  BY FS_CardinalityType, FlightFinite, ConfigAssumption
     DEF BudgetInv, Separate, TypeOK, PoolTypeOK
<1>2. W # 0 \/ F # 0
  BY FS_EmptySet, FlightFinite DEF BudgetInv, Separate
<1>3. W + L + F = total /\ total <= ElasticMax
  BY DEF BudgetInv, SlotsAccounted, Live
<1> QED BY <1>1, <1>2, <1>3

\* The instance counts the worktrees on lease as the pool does.
LEMMA SameCardinality == Ledger!Cardinality(leased) = Cardinality(leased)
BY DEF Ledger!Cardinality, Cardinality

\* A step of the pool as the ledger sees it; only a reaper takes a worktree back
\* from somebody else.
LedgerStep ==
  \/ \E c \in Clients, w \in ID : <<c, w>> \notin Held /\ Ledger!Grant(c, w)
  \/ \E c \in Clients, w \in Nat : Ledger!Return(c, w)
  \/ Reapers # {} /\ \E w \in leased : Ledger!Reap(w)
  \/ Ledger!Close
  \/ Ledger!Clear
  \/ UNCHANGED <<leased, Held, closed>>

\* The warm pop is a grant of the ledger.
LEMMA PopGrants ==
  ASSUME BudgetInv, NEW c \in Clients, pc[c] # "holding", ~closed,
         UNCHANGED closed, PopWarm(c)
  PROVE  LedgerStep
<1>1. PICK w \in warm : /\ warm' = warm \ {w}
                        /\ leased' = leased \cup {w}
                        /\ Work(c, "holding", w)
  BY DEF PopWarm
<1>2. w = wt'[c] /\ Goto(c, "holding")
  BY <1>1 DEF Work, BudgetInv, TypeOK, ActorTypeOK, Actors
<1>3. Held' = Held \cup {<<c, w>>} /\ <<c, w>> \notin Held
  BY <1>1, <1>2, HeldGains DEF BudgetInv
<1>4. w \in ID /\ w \notin leased /\ Cardinality(leased) < ElasticMax
  BY RoomToGrant DEF BudgetInv, Separate, TypeOK, PoolTypeOK
<1>5. Ledger!Grant(c, w)
  BY <1>1, <1>3, <1>4, SameCardinality DEF Ledger!Grant
<1> QED BY <1>3, <1>4, <1>5 DEF LedgerStep

\* The steps of a client as steps of the ledger.
LEMMA ClientLedger ==
  ASSUME BudgetInv, NEW c \in Clients,
         Lease(c) \/ Wake(c) \/ GiveUp(c) \/ Release(c) \/ ClientStep(c)
  PROVE  LedgerStep
<1>0. TypeOK
  BY DEF BudgetInv
<1>1. CASE Lease(c)
  BY <1>0, <1>1, PopGrants, HeldStays DEF Lease, LedgerStep
<1>2. CASE Wake(c)
  BY <1>0, <1>2, HeldStays DEF Wake, LedgerStep
<1>3. CASE GiveUp(c)
  BY <1>0, <1>3, HeldStays DEF GiveUp, LedgerStep
<1>4. CASE Release(c)
  <2>1. PICK w \in Returnable(c) :
          \/ (closed \/ w \notin leased) /\ Work(c, "idle", 0) /\ UNCHANGED leased
          \/ ~closed /\ w \in leased /\ leased' = leased \ {w}
             /\ Work(c, "resetting", w)
    BY <1>4 DEF Release
  <2>2. UNCHANGED closed
    BY <1>4 DEF Release
  <2>3. CASE pc[c] = "holding"
    <3>1. w = wt[c] /\ leased' = IF closed THEN leased ELSE leased \ {w}
      BY <2>1, <2>3 DEF Returnable
    <3>2. Held' = Held \ {<<c, w>>} /\ <<c, w>> \in Held
      BY <1>0, <2>1, <2>3, <3>1, HeldLoses
    <3>3. Ledger!Return(c, w) /\ w \in Nat
      BY <1>0, <2>2, <3>1, <3>2 DEF Ledger!Return, TypeOK, ActorTypeOK, Actors
    <3> QED BY <3>3 DEF LedgerStep
  <2>4. CASE pc[c] # "holding"
    <3>1. Held' = Held
      BY <1>0, <2>1, <2>4, HeldStays DEF Work
    <3>2. CASE ~closed /\ w \in leased /\ leased' = leased \ {w}
      <4>1. c \in Reapers
        BY <2>4 DEF Returnable
      <4> QED BY <2>2, <3>1, <3>2, <4>1 DEF LedgerStep, Ledger!Reap
    <3> QED BY <2>1, <2>2, <3>1, <3>2 DEF LedgerStep
  <2> QED BY <2>3, <2>4
<1>5. CASE SlowPath(c)
  <2>1. CASE ~closed /\ PopWarm(c)
    BY <1>5, <2>1, PopGrants DEF SlowPath
  <2>2. CASE Work(c, "spawning", nextID + 1) /\ UNCHANGED leased
    BY <1>0, <1>5, <2>2, HeldStays DEF SlowPath, Work, LedgerStep
  <2>3. CASE (Goto(c, "idle") \/ Goto(c, "parked")) /\ UNCHANGED <<leased, wt>>
    BY <1>0, <1>5, <2>3, HeldStays DEF SlowPath, LedgerStep
  <2> QED BY <1>5, <2>1, <2>2, <2>3 DEF SlowPath
<1>6. CASE SpawnLease(c)
  BY <1>0, <1>6, HeldStays DEF SpawnLease, Work, LedgerStep
<1>7. CASE PublishLease(c)
  <2>1. CASE closed
    BY <1>0, <1>7, <2>1, HeldStays DEF PublishLease, Work, LedgerStep
  <2>2. CASE ~closed
    <3>1. /\ leased' = leased \cup {wt[c]} /\ Goto(c, "holding")
          /\ UNCHANGED <<wt, closed>> /\ pc[c] = "added"
      BY <1>7, <2>2 DEF PublishLease
    <3>2. c \in InFlight
      BY <3>1 DEF InFlight, InFlightPC, Actors
    <3>3. Held' = Held \cup {<<c, wt[c]>>} /\ <<c, wt[c]>> \notin Held
      BY <1>0, <3>1, HeldGains
    <3>4. wt[c] \notin leased /\ Cardinality(leased) < ElasticMax
      BY <2>2, <3>2, RoomToGrant DEF BudgetInv, Separate
    <3>5. Ledger!Grant(c, wt[c])
      BY <2>2, <3>1, <3>3, <3>4, SameCardinality DEF Ledger!Grant
    <3>6. wt[c] \in ID
      BY <1>0, <3>2 DEF TypeOK, ActorTypeOK
    <3> QED BY <3>3, <3>5, <3>6 DEF LedgerStep
  <2> QED BY <2>1, <2>2
<1>8. CASE ReleaseClean(c) \/ ReleaseDirty(c)
  BY <1>0, <1>8, HeldStays DEF ReleaseClean, ReleaseDirty, Work, LedgerStep
<1>9. CASE DestroyWorktree(c) \/ DestroyCapture(c) \/ Signal(c)
  <2>1. c # Prewarm
    BY ClientsAssumption
  <2> QED BY <1>0, <1>9, <2>1, HeldStays
          DEF DestroyWorktree, DestroyCapture, Signal, Work, LedgerStep
<1> QED
  BY <1>1, <1>2, <1>3, <1>4, <1>5, <1>6, <1>7, <1>8, <1>9 DEF ClientStep

\* Every step of the pool is a step of the ledger or invisible to it.
LEMMA NextLedger ==
  ASSUME BudgetInv, [Next]_vars
  PROVE  LedgerStep
<1>1. CASE UNCHANGED vars
  BY <1>1 DEF vars, Held, LedgerStep
<1>2. CASE PrewarmStep
  <2>1. \A x \in Clients : pc'[x] = pc[x] /\ wt'[x] = wt[x]
    BY <1>2, ClientsAssumption
       DEF BudgetInv, TypeOK, ActorTypeOK, Actors, PrewarmStep, WarmShouldSpawn,
           SpawnWarm, AppendWarmAndSignal, Signal, PrewarmTick, DrainWarmOnClose,
           DrainOne, Goto, Work
  <2>2. UNCHANGED <<leased, closed>>
    BY <1>2 DEF PrewarmStep, WarmShouldSpawn, SpawnWarm, AppendWarmAndSignal,
                Signal, PrewarmTick, DrainWarmOnClose, DrainOne
  <2> QED BY <2>1, <2>2, HeldUntouched DEF LedgerStep
<1>3. CASE CloseBegin \/ CloseEnd \/ GCTick \/ GCStop \/ Prune
  <2>1. Held' = Held
    BY <1>3, HeldUntouched DEF CloseBegin, CloseEnd, GCTick, GCStop, Prune
  <2>2. CASE CloseBegin
    BY <2>1, <2>2 DEF CloseBegin, LedgerStep, Ledger!Close
  <2>3. CASE CloseEnd
    BY <2>1, <2>3 DEF CloseEnd, LedgerStep, Ledger!Clear
  <2>4. CASE GCTick \/ GCStop \/ Prune
    BY <2>1, <2>4 DEF GCTick, GCStop, Prune, LedgerStep
  <2> QED BY <1>3, <2>2, <2>3, <2>4
<1> QED
  BY <1>1, <1>2, <1>3, ClientLedger DEF Next, UnsweptNext

\* For any number of clients and any ElasticMax, every behaviour of the pool is
\* a behaviour of the lease ledger its callers rely on.
THEOREM LedgerImplemented == Spec => ImplementsLedger
<1>1. Init => Ledger!Init
  BY ClientsAssumption DEF Init, Ledger!Init, Held, Actors
<1>2. ASSUME LedgerStep PROVE [Ledger!Next]_(Ledger!vars)
  <2>1. ASSUME NEW c \in Clients, NEW w \in ID,
               <<c, w>> \notin Held, Ledger!Grant(c, w)
        PROVE  Ledger!Next
    BY <2>1 DEF Ledger!Next, Ledger!Grant
  <2>2. ASSUME NEW c \in Clients, NEW w \in Nat, Ledger!Return(c, w)
        PROVE  Ledger!Next
    <3>1. <<c, w>> \in Held
      BY <2>2 DEF Ledger!Return
    <3> QED BY <2>2, <3>1 DEF Ledger!Next
  <2> QED BY <1>2, <2>1, <2>2 DEF LedgerStep, Ledger!Next, Ledger!vars
<1>3. BudgetInv /\ [Next]_vars => [Ledger!Next]_(Ledger!vars)
  BY <1>2, NextLedger
<1> QED
  BY <1>1, <1>3, BudgetInductive, PTL DEF Spec, ImplementsLedger, Ledger!Spec

-----------------------------------------------------------------------------
(* Exclusive leases, seen on the ledger.                                    *)

\* Without reapers, what a client holds is on lease, and to it alone.
OneHolderPerSlot ==
  (Reapers = {} /\ ~closed) =>
    /\ \A c \in Clients, w \in Nat : <<c, w>> \in Held => w \in leased
    /\ \A c, d \in Clients, w \in Nat :
         <<c, w>> \in Held /\ <<d, w>> \in Held => c = d

\* Every step of the ledger keeps it: a grant needs a worktree that is not on
\* lease, and a return ends the only lease on its worktree.
LEMMA OneHolderStep ==
  ASSUME OneHolderPerSlot, LedgerStep
  PROVE  OneHolderPerSlot'
<1> SUFFICES ASSUME Reapers = {}, ~closed' PROVE OneHolderPerSlot'
  BY DEF OneHolderPerSlot
<1>1. ASSUME NEW c \in Clients, NEW w \in ID, Ledger!Grant(c, w) PROVE OneHolderPerSlot'
  BY <1>1 DEF OneHolderPerSlot, Ledger!Grant
<1>2. ASSUME NEW c \in Clients, NEW w \in Nat, Ledger!Return(c, w) PROVE OneHolderPerSlot'
  BY <1>2 DEF OneHolderPerSlot, Ledger!Return
<1>3. CASE Ledger!Close \/ Ledger!Clear
  BY <1>3 DEF Ledger!Close, Ledger!Clear, OneHolderPerSlot
<1>4. CASE UNCHANGED <<leased, Held, closed>>
  BY <1>4 DEF OneHolderPerSlot
<1> QED BY <1>1, <1>2, <1>3, <1>4 DEF LedgerStep

\* For any number of clients that release only what they leased, a worktree is
\* never in two hands until Close.
THEOREM ExclusiveCorrect == Spec => []ExclusiveLease
<1>1. Init => OneHolderPerSlot
  BY ClientsAssumption DEF Init, OneHolderPerSlot, Held, Actors
<1>2. BudgetInv /\ OneHolderPerSlot /\ [Next]_vars => OneHolderPerSlot'
  BY NextLedger, OneHolderStep
<1>3. ASSUME BudgetInv, OneHolderPerSlot PROVE ExclusiveLease
  <2> SUFFICES ASSUME Reapers = {}, ~closed, NEW c \in Clients, pc[c] = "holding"
               PROVE  /\ wt[c] \in leased
                      /\ wt[c] \notin warm
                      /\ \A a \in Actors \ {c} :
                          pc[a] = "holding" \/ a \in InFlight => wt[a] # wt[c]
    BY DEF ExclusiveLease
  <2>1. <<c, wt[c]>> \in Held /\ wt[c] \in Nat
    BY <1>3 DEF Held, BudgetInv, TypeOK, ActorTypeOK, Actors
  <2>2. wt[c] \in leased /\ wt[c] \notin warm
    BY <1>3, <2>1 DEF OneHolderPerSlot, BudgetInv, Separate
  <2>3. ASSUME NEW a \in Actors \ {c}, pc[a] = "holding" PROVE wt[a] # wt[c]
    <3>1. a \in Clients
      BY <1>3, <2>3 DEF Actors, BudgetInv, TypeOK, ActorTypeOK, PrewarmPC
    <3>2. <<a, wt[a]>> \in Held
      BY <2>3, <3>1 DEF Held
    <3> QED BY <1>3, <2>1, <2>3, <3>1, <3>2 DEF OneHolderPerSlot
  <2>4. ASSUME NEW a \in InFlight PROVE wt[a] # wt[c]
    BY <1>3, <2>2 DEF BudgetInv, Separate
  <2> QED BY <2>2, <2>3, <2>4
<1> QED
  BY <1>1, <1>2, <1>3, BudgetInductive, PTL DEF Spec

-----------------------------------------------------------------------------
(* Close and wakeups.                                                       *)

\* For any number of clients, no path adds a worktree once Close has set closed,
\* the ones that were spawning or resetting outside the lock included.
THEOREM CloseCorrect == Spec => NothingAddedAfterClose
<1>1. ASSUME BudgetInv, [Next]_vars, closed
      PROVE  warm' \subseteq warm /\ leased' \subseteq leased
  <2>1. CASE UNCHANGED vars
    BY <2>1 DEF vars
  <2>2. ASSUME NEW c \in Clients,
               Lease(c) \/ Wake(c) \/ GiveUp(c) \/ Release(c) \/ ClientStep(c)
        PROVE  warm' \subseteq warm /\ leased' \subseteq leased
    BY <1>1, <2>2
       DEF Lease, Wake, GiveUp, Release, ClientStep, SlowPath, SpawnLease,
           PublishLease, ReleaseClean, ReleaseDirty, DestroyWorktree,
           DestroyCapture, Signal
  <2>3. CASE PrewarmStep
    BY <1>1, <2>3
       DEF PrewarmStep, WarmShouldSpawn, SpawnWarm, AppendWarmAndSignal, Signal,
           PrewarmTick, DrainWarmOnClose, DrainOne, BudgetInv, TypeOK, PoolTypeOK
  <2>4. CASE CloseBegin \/ CloseEnd \/ GCTick \/ GCStop \/ Prune
    BY <2>4 DEF CloseBegin, CloseEnd, GCTick, GCStop, Prune,
                BudgetInv, TypeOK, PoolTypeOK
  <2> QED BY <1>1, <2>1, <2>2, <2>3, <2>4 DEF Next, UnsweptNext
<1>2. BudgetInv /\ [Next]_vars
      => [closed => warm' \subseteq warm /\ leased' \subseteq leased]_vars
  BY <1>1
<1> QED
  BY <1>2, BudgetInductive, PTL DEF Spec, NothingAddedAfterClose

\* Goroutines that will send a token, or look at the warm set, without being
\* woken.
AlertPC == {"signalling", "slow"}
Alert == {a \in Actors : pc[a] \in AlertPC}

\* Until Close there is a token or an alert goroutine for every warm worktree:
\* each deposit brings one, and a goroutine stops being alert by sending a token,
\* by taking a warm worktree or by finding none.
TokenPerWarm == closed \/ Cardinality(warm) <= slot + Cardinality(Alert)

\* What one goroutine's move does to the number of alert goroutines.
LEMMA AlertChange ==
  ASSUME TypeOK, NEW a \in Actors, NEW label, Goto(a, label)
  PROVE  /\ Cardinality(Alert) \in Nat /\ Cardinality(Alert') \in Nat
         /\ Cardinality(Alert') >= Cardinality(Alert) - 1
         /\ a \notin Alert => Cardinality(Alert') >= Cardinality(Alert)
         /\ a \notin Alert /\ label \in AlertPC
              => Cardinality(Alert') = Cardinality(Alert) + 1
<1>1. IsFiniteSet(Alert)
  <2>1. IsFiniteSet(Actors)
    BY ClientsAssumption, FS_AddElement DEF Actors
  <2> QED BY <2>1, FS_Subset DEF Alert
<1>2. Alert' = IF label \in AlertPC THEN Alert \cup {a} ELSE Alert \ {a}
  BY DEF TypeOK, ActorTypeOK, Goto, Alert
<1>3. Cardinality(Alert) \in Nat
  BY <1>1, FS_CardinalityType
<1>4. Cardinality(Alert \cup {a}) =
        IF a \in Alert THEN Cardinality(Alert) ELSE Cardinality(Alert) + 1
  BY <1>1, FS_AddElement
<1>5. Cardinality(Alert \ {a}) =
        IF a \in Alert THEN Cardinality(Alert) - 1 ELSE Cardinality(Alert)
  BY <1>1, FS_RemoveElement
<1>6. Cardinality(Alert') \in Nat
  BY <1>1, <1>2, FS_AddElement, FS_RemoveElement, FS_CardinalityType
<1> QED BY <1>2, <1>3, <1>4, <1>5, <1>6

\* A step of a goroutine that was not alert and deposits nothing.
LEMMA QuietStep ==
  ASSUME TypeOK, TypeOK', TokenPerWarm, Separate,
         NEW a \in Actors, NEW label, Goto(a, label), a \notin Alert,
         \/ warm' = warm
         \/ \E w \in warm : warm' = warm \ {w},
         UNCHANGED <<slot, closed>>
  PROVE  TokenPerWarm'
<1>1. Cardinality(warm) \in Nat /\ Cardinality(warm') \in Nat
      /\ Cardinality(warm') <= Cardinality(warm)
  <2>1. IsFiniteSet(warm) /\ Cardinality(warm) \in Nat
    BY FS_CardinalityType DEF Separate
  <2>2. CASE warm' = warm
    BY <2>1, <2>2
  <2>3. ASSUME NEW w \in warm, warm' = warm \ {w}
        PROVE  Cardinality(warm') \in Nat /\ Cardinality(warm') <= Cardinality(warm)
    <3>1. IsFiniteSet(warm') /\ Cardinality(warm') = Cardinality(warm) - 1
      BY <2>1, <2>3, FS_RemoveElement
    <3>2. Cardinality(warm') \in Nat
      BY <3>1, FS_CardinalityType
    <3> QED BY <2>1, <3>1, <3>2
  <2> QED BY <2>1, <2>2, <2>3
<1>2. slot \in Nat
  BY ConfigAssumption DEF TypeOK, PoolTypeOK
<1> QED BY <1>1, <1>2, AlertChange DEF TokenPerWarm

\* A step that deposits a worktree and will send a token.
LEMMA DepositStep ==
  ASSUME TypeOK, TypeOK', TokenPerWarm, Separate,
         NEW a \in Actors, Goto(a, "signalling"), a \notin Alert,
         NEW w, warm' = warm \cup {w}, UNCHANGED <<slot, closed>>
  PROVE  TokenPerWarm'
<1>1. Cardinality(warm) \in Nat /\ Cardinality(warm') \in Nat
      /\ Cardinality(warm') <= Cardinality(warm) + 1
  <2>1. IsFiniteSet(warm) /\ Cardinality(warm) \in Nat
    BY FS_CardinalityType DEF Separate
  <2>2. Cardinality(warm') = IF w \in warm THEN Cardinality(warm)
                             ELSE Cardinality(warm) + 1
    BY <2>1, FS_AddElement
  <2> QED BY <2>1, <2>2
<1>2. slot \in Nat
  BY ConfigAssumption DEF TypeOK, PoolTypeOK
<1> QED BY <1>1, <1>2, AlertChange DEF TokenPerWarm, AlertPC

\* The send itself: a full buffer holds a token for every worktree there can be.
LEMMA SignalStep ==
  ASSUME BudgetInv, TypeOK', TokenPerWarm, NEW a \in Actors, Signal(a)
  PROVE  TokenPerWarm'
<1>1. CASE closed
  BY <1>1 DEF Signal, TokenPerWarm
<1>2. CASE ~closed
  <2> DEFINE W == Cardinality(warm)
             A == Cardinality(Alert)
  <2>1. /\ W \in Nat /\ Cardinality(leased) \in Nat /\ Cardinality(InFlight) \in Nat
        /\ slot \in Nat /\ ElasticMax \in Nat /\ total \in Int
    BY FS_CardinalityType, FlightFinite, ConfigAssumption
       DEF BudgetInv, Separate, TypeOK, PoolTypeOK
  <2>2. W <= ElasticMax
    BY <1>2, <2>1 DEF BudgetInv, SlotsAccounted, Live
  <2>3. A \in Nat /\ Cardinality(Alert') \in Nat /\ Cardinality(Alert') >= A - 1
    BY AlertChange DEF Signal, BudgetInv
  <2>4. W <= slot + A /\ slot <= ElasticMax
    BY <1>2, <2>1 DEF TokenPerWarm, BudgetInv, TypeOK, PoolTypeOK
  <2>5. UNCHANGED <<warm, closed>>
        /\ slot' = IF slot < ElasticMax THEN slot + 1 ELSE slot
    BY DEF Signal
  <2>6. W <= slot' + Cardinality(Alert')
    BY <2>1, <2>2, <2>3, <2>4, <2>5
  <2> QED BY <2>5, <2>6 DEF TokenPerWarm
<1> QED BY <1>1, <1>2

\* A goroutine that looked found the warm set empty.
LEMMA EmptyStep ==
  ASSUME TypeOK, TypeOK', NEW a \in Actors, NEW label, Goto(a, label),
         warm = {}, UNCHANGED <<warm, slot>>
  PROVE  TokenPerWarm'
<1>1. Cardinality(warm') = 0 /\ slot' \in Nat
  BY FS_EmptySet, ConfigAssumption DEF TypeOK, PoolTypeOK
<1> QED BY <1>1, AlertChange DEF TokenPerWarm

\* Every step of a client keeps a token or an alert goroutine per warm worktree.
LEMMA ClientTokens ==
  ASSUME BudgetInv, TypeOK', TokenPerWarm, NEW c \in Clients,
         Lease(c) \/ Wake(c) \/ GiveUp(c) \/ Release(c) \/ ClientStep(c)
  PROVE  TokenPerWarm'
<1>a. TypeOK /\ Separate /\ c \in Actors /\ (c \in Alert <=> pc[c] \in AlertPC)
  BY DEF BudgetInv, Actors, Alert
<1>b. UNCHANGED closed
  BY DEF Lease, Wake, GiveUp, Release, ClientStep, SlowPath, SpawnLease,
         PublishLease, ReleaseClean, ReleaseDirty, DestroyWorktree,
         DestroyCapture, Signal
<1>c. CASE closed
  BY <1>b, <1>c DEF TokenPerWarm
<1>d. ASSUME NEW label, Goto(c, label), c \notin Alert, UNCHANGED <<warm, slot>>
      PROVE  TokenPerWarm'
  BY <1>a, <1>b, <1>d, QuietStep
<1>1. CASE Lease(c)
  BY <1>1, <1>a, QuietStep DEF Lease, AlertPC, PopWarm, Work, slotVars
<1>2. CASE Wake(c)
  <2>1. /\ Cardinality(Alert) \in Nat /\ Cardinality(Alert') = Cardinality(Alert) + 1
    BY <1>2, <1>a, AlertChange DEF Wake, AlertPC
  <2>2. slot \in Nat /\ slot' = slot - 1 /\ UNCHANGED <<warm, closed>>
    BY <1>2, <1>a, ConfigAssumption DEF Wake, TypeOK, PoolTypeOK
  <2> QED BY <2>1, <2>2 DEF TokenPerWarm
<1>3. CASE GiveUp(c)
  BY <1>3, <1>a, <1>d DEF GiveUp, AlertPC, slotVars
<1>4. CASE Release(c)
  <2>1. pc[c] \notin AlertPC
    BY <1>4 DEF Release, Returnable, AlertPC
  <2> QED BY <1>4, <1>a, <1>d, <2>1 DEF Release, Work, slotVars
<1>5. CASE SlowPath(c)
  <2>1. CASE ~closed /\ PopWarm(c)
    <3>1. PICK w \in warm : warm' = warm \ {w} /\ Goto(c, "holding")
      BY <2>1 DEF PopWarm, Work
    <3>2. Cardinality(warm) \in Nat /\ Cardinality(warm') = Cardinality(warm) - 1
      BY <1>a, <3>1, FS_CardinalityType, FS_RemoveElement DEF Separate
    <3>3. slot \in Nat /\ slot' = slot
      BY <1>5, <1>a, ConfigAssumption DEF SlowPath, slotVars, TypeOK, PoolTypeOK
    <3> QED BY <1>a, <1>b, <3>1, <3>2, <3>3, AlertChange DEF TokenPerWarm
  <2>2. CASE ~closed /\ warm = {}
    <3>1. UNCHANGED <<warm, slot>> /\ (Goto(c, "spawning") \/ Goto(c, "parked"))
      BY <1>5, <2>2 DEF SlowPath, slotVars, Work, PopWarm
    <3> QED BY <1>a, <2>2, <3>1, EmptyStep
  <2> QED BY <1>5, <1>c, <2>1, <2>2 DEF SlowPath
<1>6. CASE SpawnLease(c)
  BY <1>6, <1>a, <1>d DEF SpawnLease, Work, AlertPC, slotVars
<1>7. CASE PublishLease(c)
  BY <1>7, <1>a, <1>d DEF PublishLease, Work, AlertPC, slotVars
<1>8. CASE ReleaseClean(c)
  <2>1. CASE ~closed
    BY <1>8, <1>a, <2>1, DepositStep DEF ReleaseClean, Work, AlertPC, slotVars
  <2> QED BY <1>c, <2>1
<1>9. CASE ReleaseDirty(c) \/ DestroyWorktree(c) \/ DestroyCapture(c)
  BY <1>9, <1>a, <1>d
     DEF ReleaseDirty, DestroyWorktree, DestroyCapture, Work, AlertPC, slotVars
<1>10. CASE Signal(c)
  BY <1>10, <1>a, SignalStep
<1> QED
  BY <1>1, <1>2, <1>3, <1>4, <1>5, <1>6, <1>7, <1>8, <1>9, <1>10 DEF ClientStep

\* So does every step of the prewarm goroutine.
LEMMA PrewarmTokens ==
  ASSUME BudgetInv, TypeOK', TokenPerWarm, PrewarmStep
  PROVE  TokenPerWarm'
<1>a. /\ TypeOK /\ Separate /\ Prewarm \in Actors
      /\ (Prewarm \in Alert <=> pc[Prewarm] \in AlertPC)
  BY DEF BudgetInv, Actors, Alert
<1>b. UNCHANGED closed
  BY DEF PrewarmStep, WarmShouldSpawn, SpawnWarm, AppendWarmAndSignal, Signal,
         PrewarmTick, DrainWarmOnClose, DrainOne
<1>c. CASE closed
  BY <1>b, <1>c DEF TokenPerWarm
<1>d. ASSUME NEW label, Goto(Prewarm, label), Prewarm \notin Alert,
             UNCHANGED <<warm, slot>>
      PROVE  TokenPerWarm'
  BY <1>a, <1>b, <1>d, QuietStep
<1>1. CASE WarmShouldSpawn \/ SpawnWarm \/ PrewarmTick
  BY <1>1, <1>a, <1>d
     DEF WarmShouldSpawn, SpawnWarm, PrewarmTick, Work, AlertPC, slotVars
<1>2. CASE AppendWarmAndSignal
  <2>1. CASE ~closed
    BY <1>2, <1>a, <2>1, DepositStep DEF AppendWarmAndSignal, Work, AlertPC, slotVars
  <2> QED BY <1>c, <2>1
<1>3. CASE Signal(Prewarm)
  BY <1>3, <1>a, SignalStep
<1>4. CASE DrainWarmOnClose \/ DrainOne
  <2>1. closed
    BY <1>4 DEF DrainWarmOnClose, DrainOne, BudgetInv, DrainsClosed
  <2> QED BY <1>c, <2>1
<1> QED BY <1>1, <1>2, <1>3, <1>4 DEF PrewarmStep

\* For any number of clients, a Lease is never parked beside an idle worktree
\* with no token in the channel and nobody about to send one or to look.
THEOREM WakeupCorrect == Spec => []NoLostWakeup
<1>1. Init => TokenPerWarm
  <2> SUFFICES ASSUME Init PROVE TokenPerWarm
    OBVIOUS
  <2>1. Alert = {}
    BY DEF Init, Alert, AlertPC, Actors
  <2> QED BY <2>1, FS_EmptySet DEF Init, TokenPerWarm
<1>2. ASSUME BudgetInv, BudgetInv', TokenPerWarm, [Next]_vars PROVE TokenPerWarm'
  <2>1. TypeOK /\ TypeOK'
    BY <1>2 DEF BudgetInv
  <2>2. CASE UNCHANGED <<pc, warm, slot, closed>>
    BY <1>2, <2>2 DEF TokenPerWarm, Alert
  <2>3. CASE CloseBegin \/ CloseEnd
    BY <2>3 DEF CloseBegin, CloseEnd, TokenPerWarm
  <2>4. CASE GCTick \/ GCStop \/ Prune
    BY <2>2, <2>4 DEF GCTick, GCStop, Prune, slotVars
  <2> QED BY <1>2, <2>1, <2>2, <2>3, <2>4, ClientTokens, PrewarmTokens DEF Next, UnsweptNext, vars
<1>3. ASSUME BudgetInv, TokenPerWarm PROVE NoLostWakeup
  <2> SUFFICES ASSUME ~closed, warm # {}, slot = 0 PROVE Alert # {}
    BY <1>3, ConfigAssumption
       DEF NoLostWakeup, Alert, AlertPC, BudgetInv, TypeOK, PoolTypeOK
  <2>1. Cardinality(warm) \in Nat /\ Cardinality(warm) # 0
    BY <1>3, FS_CardinalityType, FS_EmptySet DEF BudgetInv, Separate
  <2> QED BY <1>3, <2>1, FS_EmptySet DEF TokenPerWarm
<1> QED
  BY <1>1, <1>2, <1>3, BudgetInductive, PTL DEF Spec

-----------------------------------------------------------------------------
(* The directories, while nobody calls PruneOrphans.                        *)

\* Until Close, what is warm, leased or in the hands of a goroutine that will make it so
\* is on disk.
OnDisk ==
  closed \/ /\ warm \cup leased \subseteq disk
            /\ \A a \in Actors : pc[a] \in {"added", "resetting"} => wt[a] \in disk

\* A goroutine that moves without adding to the warm and the leased ones.
LEMMA MoveOnDisk ==
  ASSUME TypeOK, OnDisk, NEW a \in Actors, NEW label, Goto(a, label), UNCHANGED closed,
         \A b \in Actors : b # a => wt'[b] = wt[b],
         closed \/ /\ warm' \cup leased' \subseteq disk' /\ disk \subseteq disk'
                   /\ label \in {"added", "resetting"} => wt'[a] \in disk'
  PROVE  OnDisk'
BY DEF TypeOK, ActorTypeOK, Goto, OnDisk

LEMMA ClientOnDisk ==
  ASSUME TypeOK, Separate, OnDisk, NEW c \in Clients,
         Lease(c) \/ Wake(c) \/ GiveUp(c) \/ Release(c) \/ ClientStep(c)
  PROVE  OnDisk'
<1>a. /\ c \in Actors /\ wt \in [Actors -> Nat] /\ UNCHANGED closed
      /\ closed \/ (warm \cup leased \subseteq disk /\ (pc[c] \in {"added", "resetting"} => wt[c] \in disk))
  BY DEF Actors, TypeOK, ActorTypeOK, OnDisk, Lease, Wake, GiveUp, Release, ClientStep, SlowPath,
         SpawnLease, PublishLease, ReleaseClean, ReleaseDirty, DestroyWorktree, DestroyCapture, Signal
<1>b. ASSUME PopWarm(c), UNCHANGED disk PROVE OnDisk'
  <2>1. PICK w \in warm : warm' = warm \ {w} /\ leased' = leased \cup {w} /\ Work(c, "holding", w)
    BY <1>b DEF PopWarm
  <2>2. Goto(c, "holding") /\ \A b \in Actors : b # c => wt'[b] = wt[b]
    BY <1>a, <2>1 DEF Work
  <2> QED BY <1>a, <1>b, <2>1, <2>2, MoveOnDisk
<1>c. ASSUME NEW label, Goto(c, label), UNCHANGED <<warm, disk, wt>>, leased' \subseteq leased,
             label \notin {"added", "resetting"}
      PROVE  OnDisk'
  BY <1>a, <1>c, MoveOnDisk
<1>d. ASSUME NEW label, NEW w, Work(c, label, w)
      PROVE  Goto(c, label) /\ wt'[c] = w /\ \A b \in Actors : b # c => wt'[b] = wt[b]
  BY <1>a, <1>d DEF Work
<1>1. CASE Lease(c)
  BY <1>1, <1>b, <1>c DEF Lease, gitVars
<1>2. CASE Wake(c) \/ GiveUp(c) \/ ReleaseDirty(c) \/ DestroyCapture(c) \/ Signal(c)
  <2>1. UNCHANGED <<warm, disk, wt, leased>>
    BY <1>2 DEF Wake, GiveUp, ReleaseDirty, DestroyCapture, Signal, gitVars
  <2>2. \E label \in {"slow", "idle", "destroying", "signalling", "check"} : Goto(c, label)
    BY <1>2 DEF Wake, GiveUp, ReleaseDirty, DestroyCapture, Signal
  <2> QED BY <1>c, <2>1, <2>2
<1>3. CASE Release(c)
  <2>1. UNCHANGED <<warm, disk>>
    BY <1>3 DEF Release, gitVars
  <2>2. CASE Work(c, "idle", 0) /\ UNCHANGED leased
    BY <1>a, <1>d, <2>1, <2>2, MoveOnDisk
  <2>3. CASE \E w \in leased : leased' = leased \ {w} /\ Work(c, "resetting", w)
    <3>1. PICK w \in leased : leased' = leased \ {w} /\ Work(c, "resetting", w)
      BY <2>3
    <3>2. Goto(c, "resetting") /\ wt'[c] = w /\ \A b \in Actors : b # c => wt'[b] = wt[b]
      BY <1>d, <3>1
    <3> QED BY <1>a, <2>1, <3>1, <3>2, MoveOnDisk
  <2> QED BY <1>3, <2>2, <2>3 DEF Release
<1>4. CASE SlowPath(c)
  <2>1. UNCHANGED disk
    BY <1>4 DEF SlowPath, gitVars
  <2>2. CASE Work(c, "spawning", nextID + 1) /\ UNCHANGED <<warm, leased>>
    BY <1>a, <1>d, <2>1, <2>2, MoveOnDisk
  <2> QED BY <1>4, <1>b, <1>c, <2>1, <2>2 DEF SlowPath
<1>5. CASE SpawnLease(c)
  <2>1. UNCHANGED <<warm, leased>> /\ disk \subseteq disk'
    BY <1>5 DEF SpawnLease, GitAdd, GitAddFails
  <2>2. CASE GitAdd(wt[c]) /\ Goto(c, "added") /\ UNCHANGED wt
    <3>1. wt'[c] \in disk'
      BY <2>2 DEF GitAdd
    <3> QED BY <1>a, <2>1, <2>2, <3>1, MoveOnDisk
  <2>3. CASE Work(c, "idle", 0)
    BY <1>a, <1>d, <2>1, <2>3, MoveOnDisk
  <2> QED BY <1>5, <2>2, <2>3 DEF SpawnLease
<1>6. CASE PublishLease(c)
  <2>1. pc[c] = "added" /\ UNCHANGED <<warm, disk>>
    BY <1>6 DEF PublishLease, gitVars
  <2>2. CASE Work(c, "idle", 0) /\ UNCHANGED leased
    BY <1>a, <1>d, <2>1, <2>2, MoveOnDisk
  <2>3. CASE leased' = leased \cup {wt[c]} /\ Goto(c, "holding") /\ UNCHANGED wt
    BY <1>a, <2>1, <2>3, MoveOnDisk
  <2> QED BY <1>6, <2>2, <2>3 DEF PublishLease
<1>7. CASE ReleaseClean(c)
  <2>1. pc[c] = "resetting" /\ UNCHANGED <<leased, disk>>
    BY <1>7 DEF ReleaseClean, gitVars
  <2>2. warm' = warm \/ warm' = warm \cup {wt[c]}
    BY <1>7 DEF ReleaseClean
  <2>3. Work(c, "idle", 0) \/ Work(c, "signalling", 0)
    BY <1>7 DEF ReleaseClean
  <2> QED BY <1>a, <1>d, <2>1, <2>2, <2>3, MoveOnDisk
<1>8. CASE DestroyWorktree(c)
  <2>1. c \in InFlight /\ UNCHANGED <<warm, leased>> /\ disk \ {wt[c]} \subseteq disk' /\ Work(c, "destroyed", 0)
    BY <1>8, <1>a DEF DestroyWorktree, GitRemove, InFlight, InFlightPC
  <2>2. pc'[c] = "destroyed" /\ \A b \in Actors : b # c => pc'[b] = pc[b] /\ wt'[b] = wt[b]
    BY <1>a, <1>d, <2>1 DEF Goto, TypeOK, ActorTypeOK
  <2>3. wt[c] \notin warm \cup leased
    BY <2>1 DEF Separate
  <2>4. ASSUME NEW b \in Actors, b # c, pc[b] \in {"added", "resetting"} PROVE wt[b] # wt[c]
    <3>1. b \in InFlight
      BY <2>4 DEF InFlight, InFlightPC
    <3> QED BY <2>1, <2>4, <3>1 DEF Separate
  <2> QED BY <1>a, <2>1, <2>2, <2>3, <2>4 DEF OnDisk
<1> QED BY <1>1, <1>2, <1>3, <1>4, <1>5, <1>6, <1>7, <1>8 DEF ClientStep

LEMMA PrewarmOnDisk ==
  ASSUME TypeOK, DrainsClosed, OnDisk, PrewarmStep PROVE OnDisk'
<1>a. /\ Prewarm \in Actors /\ wt \in [Actors -> Nat] /\ UNCHANGED closed
      /\ closed \/ (warm \cup leased \subseteq disk /\ (pc[Prewarm] = "added" => wt[Prewarm] \in disk))
  BY DEF Actors, TypeOK, ActorTypeOK, OnDisk, PrewarmStep, WarmShouldSpawn, SpawnWarm,
         AppendWarmAndSignal, Signal, PrewarmTick, DrainWarmOnClose, DrainOne
<1>d. ASSUME NEW label, NEW w, Work(Prewarm, label, w)
      PROVE  Goto(Prewarm, label) /\ wt'[Prewarm] = w /\ \A b \in Actors : b # Prewarm => wt'[b] = wt[b]
  BY <1>a, <1>d DEF Work
<1>1. CASE WarmShouldSpawn
  <2>1. UNCHANGED <<warm, leased, disk>>
    BY <1>1 DEF WarmShouldSpawn, gitVars
  <2>2. CASE Work(Prewarm, "spawning", nextID + 1)
    BY <1>a, <1>d, <2>1, <2>2, MoveOnDisk
  <2>3. CASE Goto(Prewarm, "tick") /\ UNCHANGED wt
    BY <1>a, <2>1, <2>3, MoveOnDisk
  <2> QED BY <1>1, <2>2, <2>3 DEF WarmShouldSpawn
<1>2. CASE SpawnWarm
  <2>1. UNCHANGED <<warm, leased>> /\ disk \subseteq disk'
    BY <1>2 DEF SpawnWarm, GitAdd, GitAddFails
  <2>2. CASE GitAdd(wt[Prewarm]) /\ Goto(Prewarm, "added") /\ UNCHANGED wt
    <3>1. wt'[Prewarm] \in disk'
      BY <2>2 DEF GitAdd
    <3> QED BY <1>a, <2>1, <2>2, <3>1, MoveOnDisk
  <2>3. CASE Work(Prewarm, "backoff", 0)
    BY <1>a, <1>d, <2>1, <2>3, MoveOnDisk
  <2> QED BY <1>2, <2>2, <2>3 DEF SpawnWarm
<1>3. CASE AppendWarmAndSignal
  <2>1. pc[Prewarm] = "added" /\ UNCHANGED <<leased, disk>>
    BY <1>3 DEF AppendWarmAndSignal, gitVars
  <2>2. warm' = warm \/ warm' = warm \cup {wt[Prewarm]}
    BY <1>3 DEF AppendWarmAndSignal
  <2>3. Work(Prewarm, "check", 0) \/ Work(Prewarm, "signalling", 0)
    BY <1>3 DEF AppendWarmAndSignal
  <2> QED BY <1>a, <1>d, <2>1, <2>2, <2>3, MoveOnDisk
<1>4. CASE Signal(Prewarm) \/ PrewarmTick
  <2>1. UNCHANGED <<warm, leased, disk, wt>> /\ \E label \in {"check", "idle"} : Goto(Prewarm, label)
    BY <1>4 DEF Signal, PrewarmTick, gitVars
  <2> QED BY <1>a, <2>1, MoveOnDisk
<1>5. CASE DrainWarmOnClose \/ DrainOne
  BY <1>5, <1>a DEF DrainWarmOnClose, DrainOne, DrainsClosed, OnDisk
<1> QED BY <1>1, <1>2, <1>3, <1>4, <1>5 DEF PrewarmStep

\* For any number of clients and any Floor and ElasticMax, what Lease hands out exists:
\* while nobody calls PruneOrphans, git removes a directory only after its worktree has
\* left the warm and the leased ones for good.
THEOREM DiskCorrect == UnsweptSpec => []LiveOnDisk
<1>1. Init => OnDisk
  BY DEF Init, OnDisk, Actors
<1>2. ASSUME BudgetInv, OnDisk, [UnsweptNext]_vars PROVE OnDisk'
  <2>1. TypeOK /\ DrainsClosed /\ Separate
    BY <1>2 DEF BudgetInv
  <2>2. CASE UNCHANGED <<closed, warm, leased, disk, pc, wt>> \/ CloseBegin \/ (closed /\ UNCHANGED closed)
    BY <1>2, <2>2 DEF OnDisk, CloseBegin
  <2>3. CASE CloseBegin \/ CloseEnd \/ GCTick \/ GCStop
    BY <2>2, <2>3 DEF CloseBegin, CloseEnd, GCTick, GCStop, GitPrune, gitVars
  <2> QED BY <1>2, <2>1, <2>2, <2>3, ClientOnDisk, PrewarmOnDisk DEF UnsweptNext, vars
<1>3. [UnsweptNext]_vars => [Next]_vars
  BY DEF Next
<1>4. OnDisk => LiveOnDisk
  BY DEF OnDisk, LiveOnDisk
<1> QED BY <1>1, <1>2, <1>3, <1>4, BudgetInductive, PTL DEF UnsweptSpec

=============================================================================
