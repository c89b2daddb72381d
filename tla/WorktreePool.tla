---------------------------- MODULE WorktreePool ----------------------------
(***************************************************************************)
(* The git worktree pool of internal/orchestrator/worktreepool: leases,    *)
(* releases, the prewarm goroutine, the two garbage-collection layers and  *)
(* Close.  A worktree is its lease id.  An action is one critical section  *)
(* of p.mu, or one git subprocess, of one goroutine; the closed.Load() a   *)
(* method makes before taking p.mu is part of the section that repeats it. *)
(* The order of the warm slice, the texts of errors and the events sent to *)
(* the event log are left out.                                             *)
(***************************************************************************)
EXTENDS Integers, FiniteSets

CONSTANTS
    Clients,      \* goroutines that call Lease and Release
    Reapers,      \* the clients that also release what others leased,
                  \* as Dispatcher.Shutdown does
    Prewarm,      \* the prewarm goroutine
    Floor,        \* PoolConfig.Floor
    ElasticMax,   \* PoolConfig.ElasticMax
    MaxCalls,     \* bound: Lease calls of one client
    MaxFailures,  \* bound: git subprocesses that fail
    MaxPrunes     \* bound: PruneOrphans calls

ASSUME ClientsAssumption ==
    /\ IsFiniteSet(Clients)
    /\ Reapers \subseteq Clients
    /\ Prewarm \notin Clients

\* PoolConfig.validate
ASSUME ConfigAssumption ==
    /\ Floor \in Nat \ {0}
    /\ ElasticMax \in Nat
    /\ Floor <= ElasticMax

ASSUME BoundsAssumption ==
    MaxCalls \in Nat /\ MaxFailures \in Nat /\ MaxPrunes \in Nat

VARIABLES
    warm,      \* ids of the idle worktrees
    leased,    \* ids of the leased map
    total,     \* the atomic counter that ElasticMax limits
    nextID,    \* last id handed out by spawnOne
    slot,      \* tokens buffered in signalSlot
    slotNil,   \* Close has set p.signalSlot to nil
    closed,    \* p.closed
    pc,        \* where each client and the prewarm goroutine is
    wt,        \* the worktree that goroutine is working on, 0 for none
    calls,     \* Lease calls made by each client
    draining,  \* what drainWarmOnClose has taken from warm
    gcDone,    \* gcLoop has returned
    disk,      \* ids whose directory exists
    admin,     \* ids git worktree list reports
    prune,     \* the PruneOrphans call in progress
    failures   \* git subprocesses that have failed

vars == <<warm, leased, total, nextID, slot, slotNil, closed, pc, wt, calls,
          draining, gcDone, disk, admin, prune, failures>>

gitVars  == <<disk, admin, failures>>
slotVars == <<slot, slotNil>>
gcVars   == <<draining, gcDone, prune>>

Actors == Clients \cup {Prewarm}
ClientPC == {"idle", "slow", "spawning", "added", "parked", "holding",
             "resetting", "destroying", "destroyed", "signalling"}
PrewarmPC == {"check", "tick", "backoff", "spawning", "added", "signalling",
              "draining", "done"}
PrunePC == {"idle", "layerA", "list", "readdir", "sweep", "remove"}
ID == Nat \ {0}  \* spawnOne numbers worktrees from 1; 0 stands for none

NoPrune == [pc |-> "idle", known |-> {}, entries |-> {}, target |-> 0,
            calls |-> 0]

Init ==
    /\ warm = {} /\ leased = {} /\ total = 0 /\ nextID = 0
    /\ slot = 0 /\ slotNil = FALSE /\ closed = FALSE
    /\ pc = [a \in Actors |-> IF a = Prewarm THEN "check" ELSE "idle"]
    /\ wt = [a \in Actors |-> 0]
    /\ calls = [c \in Clients |-> 0]
    /\ draining = {} /\ gcDone = FALSE
    /\ disk = {} /\ admin = {} /\ failures = 0
    /\ prune = NoPrune

Goto(a, label) == pc' = [pc EXCEPT ![a] = label]
Work(a, label, w) == Goto(a, label) /\ wt' = [wt EXCEPT ![a] = w]

\* The elastic budget, read under p.mu by leaseSlowPath and warmShouldSpawn.
\* Mutant: an off-by-one in the comparison.
HasCapacityOffByOne == total <= ElasticMax
HasCapacity == total < ElasticMax

-----------------------------------------------------------------------------
(* git, as the pool uses it (external).  A failed subprocess is one of the *)
(* MaxFailures that may fail.                                              *)

GitFails == failures < MaxFailures /\ failures' = failures + 1

\* git worktree add: a failed add leaves nothing, or a directory without an
\* admin entry when it is killed half-way.
GitAdd(w) ==
    disk' = disk \cup {w} /\ admin' = admin \cup {w} /\ UNCHANGED failures
GitAddFails(w) ==
    /\ GitFails
    /\ disk' \in {disk, disk \cup {w}}
    /\ UNCHANGED admin

\* git worktree remove --force, whose error the pool ignores.
GitRemove(w) ==
    \/ disk' = disk \ {w} /\ admin' = admin \ {w} /\ UNCHANGED failures
    \/ GitFails /\ UNCHANGED <<disk, admin>>

\* git worktree prune forgets the entries whose directory is gone.
GitPrune ==
    admin' = admin \cap disk /\ UNCHANGED <<disk, failures>>

-----------------------------------------------------------------------------
(* Lease                                                                   *)

\* Mutant: the tail is read but the slice is not shortened.
PopWarmKeep(c) ==
    \E w \in warm :
        /\ warm' = warm
        /\ leased' = leased \cup {w}
        /\ Work(c, "holding", w)

\* The warm pop shared by the fast path and the loop of the slow path.
PopWarm(c) ==
    \E w \in warm :
        /\ warm' = warm \ {w}
        /\ leased' = leased \cup {w}
        /\ Work(c, "holding", w)

\* Lease: closed pool, warm fast path, or on to the slow path.
Lease(c) ==
    /\ pc[c] = "idle" /\ calls[c] < MaxCalls
    /\ ~closed
    /\ calls' = [calls EXCEPT ![c] = @ + 1]
    /\ \/ PopWarm(c)
       \/ warm = {} /\ Goto(c, "slow") /\ UNCHANGED <<warm, leased, wt>>
    /\ UNCHANGED <<total, nextID, slotVars, closed, gcVars, gitVars>>

\* A pass through the loop of leaseSlowPath: closed, warm, reserve a slot of
\* the elastic budget and leave p.mu to spawn, or wait for a token.
SlowPath(c) ==
    /\ pc[c] = "slow"
    /\ \/ /\ closed
          /\ Goto(c, "idle")
          /\ UNCHANGED <<warm, leased, wt, total, nextID>>
       \/ /\ ~closed
          /\ PopWarm(c)
          /\ UNCHANGED <<total, nextID>>
       \/ /\ ~closed /\ warm = {} /\ HasCapacity
          /\ total' = total + 1
          /\ nextID' = nextID + 1
          /\ Work(c, "spawning", nextID + 1)
          /\ UNCHANGED <<warm, leased>>
       \/ /\ ~closed /\ warm = {} /\ ~HasCapacity
          /\ Goto(c, "parked")
          /\ UNCHANGED <<warm, leased, wt, total, nextID>>
    /\ UNCHANGED <<slotVars, closed, calls, gcVars, gitVars>>

\* Mutant: a failed spawn keeps its reservation.
SpawnLeaseLeak(c) ==
    /\ pc[c] = "spawning"
    /\ \/ GitAdd(wt[c]) /\ Goto(c, "added") /\ UNCHANGED <<wt, total>>
       \/ GitAddFails(wt[c]) /\ Work(c, "idle", 0) /\ UNCHANGED total
    /\ UNCHANGED <<warm, leased, nextID, slotVars, closed, calls, gcVars>>

\* spawnOne for a lease: a failure gives the reservation back, signals nobody
\* and returns the error.
SpawnLease(c) ==
    /\ pc[c] = "spawning"
    /\ \/ GitAdd(wt[c]) /\ Goto(c, "added") /\ UNCHANGED <<wt, total>>
       \/ GitAddFails(wt[c]) /\ Work(c, "idle", 0) /\ total' = total - 1
    /\ UNCHANGED <<warm, leased, nextID, slotVars, closed, calls, gcVars>>

\* Mutant: closed is not read again after spawnOne.
PublishLeaseBlind(c) ==
    /\ pc[c] = "added"
    /\ leased' = leased \cup {wt[c]}
    /\ Goto(c, "holding")
    /\ UNCHANGED <<total, wt, warm, nextID, slotVars, closed, calls, gcVars,
                   gitVars>>

\* The new worktree enters the leased map unless the pool closed meanwhile.
PublishLease(c) ==
    /\ pc[c] = "added"
    /\ \/ /\ closed
          /\ total' = total - 1
          /\ Work(c, "idle", 0)
          /\ UNCHANGED leased
       \/ /\ ~closed
          /\ leased' = leased \cup {wt[c]}
          /\ Goto(c, "holding")
          /\ UNCHANGED <<total, wt>>
    /\ UNCHANGED <<warm, nextID, slotVars, closed, calls, gcVars, gitVars>>

\* A parked Lease receives a token and runs the loop again.
Wake(c) ==
    /\ pc[c] = "parked" /\ slot > 0
    /\ slot' = slot - 1
    /\ Goto(c, "slow")
    /\ UNCHANGED <<warm, leased, total, nextID, slotNil, closed, wt, calls,
                   gcVars, gitVars>>

\* The caller's context ends while Lease is parked: ErrPoolExhausted.
GiveUp(c) ==
    /\ pc[c] = "parked"
    /\ Goto(c, "idle")
    /\ UNCHANGED <<warm, leased, total, nextID, slotVars, closed, wt, calls,
                   gcVars, gitVars>>

-----------------------------------------------------------------------------
(* Release                                                                 *)

\* What client c may pass to Release: its own lease or, for a reaper that is
\* doing nothing else, the lease of another client.
Returnable(c) ==
    IF pc[c] = "holding" THEN {wt[c]}
    ELSE IF pc[c] = "idle" /\ c \in Reapers
         THEN {wt[d] : d \in {x \in Clients : pc[x] = "holding"}}
         ELSE {}

\* Mutant: the entry stays in the leased map while git reset runs.
ReleaseKeep(c) ==
    \E w \in Returnable(c) :
        /\ \/ (closed \/ w \notin leased) /\ Work(c, "idle", 0)
           \/ ~closed /\ w \in leased /\ Work(c, "resetting", w)
        /\ UNCHANGED <<leased, warm, total, nextID, slotVars, closed, calls,
                       gcVars, gitVars>>

\* Release up to the first unlock: a closed pool and a worktree that is not in
\* the leased map are refused.
Release(c) ==
    \E w \in Returnable(c) :
        /\ \/ (closed \/ w \notin leased) /\ Work(c, "idle", 0) /\ UNCHANGED leased
           \/ ~closed /\ w \in leased /\ leased' = leased \ {w}
              /\ Work(c, "resetting", w)
        /\ UNCHANGED <<warm, total, nextID, slotVars, closed, calls, gcVars,
                       gitVars>>

\* Mutant: the worktree becomes warm without a signal.
ReleaseSilent(c) ==
    /\ pc[c] = "resetting"
    /\ \/ closed /\ UNCHANGED warm
       \/ ~closed /\ warm' = warm \cup {wt[c]}
    /\ Work(c, "idle", 0)
    /\ UNCHANGED <<leased, total, nextID, slotVars, closed, calls, gcVars, gitVars>>

\* git reset and git clean succeed: the worktree is warm again, unless the pool
\* closed meanwhile (then total keeps counting it).
ReleaseClean(c) ==
    /\ pc[c] = "resetting"
    /\ \/ closed /\ Work(c, "idle", 0) /\ UNCHANGED warm
       \/ ~closed /\ warm' = warm \cup {wt[c]} /\ Work(c, "signalling", 0)
    /\ UNCHANGED <<leased, total, nextID, slotVars, closed, calls, gcVars, gitVars>>

\* git reset or git clean fails.
ReleaseDirty(c) ==
    /\ pc[c] = "resetting"
    /\ GitFails
    /\ Goto(c, "destroying")
    /\ UNCHANGED <<warm, leased, total, nextID, slotVars, closed, wt, calls,
                   gcVars, disk, admin>>

\* destroyWorktree: remove it and give its slot back.
DestroyWorktree(c) ==
    /\ pc[c] = "destroying"
    /\ GitRemove(wt[c])
    /\ total' = total - 1
    /\ Work(c, "destroyed", 0)
    /\ UNCHANGED <<warm, leased, nextID, slotVars, closed, calls, gcVars>>

\* destroyWorktree reads p.signalSlot under p.mu; sending to nil does nothing.
DestroyCapture(c) ==
    /\ pc[c] = "destroyed"
    /\ Goto(c, IF slotNil THEN "idle" ELSE "signalling")
    /\ UNCHANGED <<warm, leased, total, nextID, slotVars, closed, wt, calls,
                   gcVars, gitVars>>

\* Mutant: the buffer has no capacity limit.
SignalUnbounded(a) ==
    /\ pc[a] = "signalling"
    /\ slot' = slot + 1
    /\ Goto(a, IF a = Prewarm THEN "check" ELSE "idle")
    /\ UNCHANGED <<warm, leased, total, nextID, slotNil, closed, wt, calls,
                   gcVars, gitVars>>

\* The non-blocking send on the captured channel, whose capacity is ElasticMax.
Signal(a) ==
    /\ pc[a] = "signalling"
    /\ slot' = IF slot < ElasticMax THEN slot + 1 ELSE slot
    /\ Goto(a, IF a = Prewarm THEN "check" ELSE "idle")
    /\ UNCHANGED <<warm, leased, total, nextID, slotNil, closed, wt, calls,
                   gcVars, gitVars>>

-----------------------------------------------------------------------------
(* prewarmLoop                                                             *)

\* warmShouldSpawn, reserving a slot of the elastic budget.
WarmShouldSpawn ==
    /\ pc[Prewarm] = "check"
    /\ IF ~closed /\ Cardinality(warm) < Floor /\ HasCapacity
       THEN /\ total' = total + 1
            /\ nextID' = nextID + 1
            /\ Work(Prewarm, "spawning", nextID + 1)
       ELSE Goto(Prewarm, "tick") /\ UNCHANGED <<total, nextID, wt>>
    /\ UNCHANGED <<warm, leased, slotVars, closed, calls, gcVars, gitVars>>

\* spawnOne for the warm set: a failure gives the reservation back and backs off.
SpawnWarm ==
    /\ pc[Prewarm] = "spawning"
    /\ \/ /\ GitAdd(wt[Prewarm])
          /\ Goto(Prewarm, "added")
          /\ UNCHANGED <<wt, total>>
       \/ /\ GitAddFails(wt[Prewarm])
          /\ Work(Prewarm, "backoff", 0)
          /\ total' = total - 1
    /\ UNCHANGED <<warm, leased, nextID, slotVars, closed, calls, gcVars>>

AppendWarmAndSignal ==
    /\ pc[Prewarm] = "added"
    /\ \/ closed /\ total' = total - 1 /\ Work(Prewarm, "check", 0) /\ UNCHANGED warm
       \/ ~closed /\ warm' = warm \cup {wt[Prewarm]}
          /\ Work(Prewarm, "signalling", 0) /\ UNCHANGED total
    /\ UNCHANGED <<leased, nextID, slotVars, closed, calls, gcVars, gitVars>>

\* The 200ms tick, or the end of a backoff sleep.
PrewarmTick ==
    /\ pc[Prewarm] \in {"tick", "backoff"}
    /\ Goto(Prewarm, "check")
    /\ UNCHANGED <<warm, leased, total, nextID, slotVars, closed, wt, calls,
                   gcVars, gitVars>>

\* prewarmCtx is cancelled (by Close): drainWarmOnClose takes the warm set ...
DrainWarmOnClose ==
    /\ pc[Prewarm] \in {"tick", "backoff"} /\ closed
    /\ draining' = warm
    /\ warm' = {}
    /\ Goto(Prewarm, "draining")
    /\ UNCHANGED <<leased, total, nextID, slotVars, closed, wt, calls, gcDone,
                   prune, gitVars>>

\* ... and removes it worktree by worktree, then closes prewarmDone.
DrainOne ==
    /\ pc[Prewarm] = "draining"
    /\ \/ \E w \in draining :
            /\ GitRemove(w)
            /\ draining' = draining \ {w}
            /\ total' = total - 1
            /\ UNCHANGED pc
       \/ /\ draining = {}
          /\ Goto(Prewarm, "done")
          /\ UNCHANGED <<draining, total, gitVars>>
    /\ UNCHANGED <<warm, leased, nextID, slotVars, closed, wt, calls, gcDone,
                   prune>>

-----------------------------------------------------------------------------
(* Close                                                                   *)

\* Close sets closed and cancels the contexts of both background goroutines.
CloseBegin ==
    /\ ~closed
    /\ closed' = TRUE
    /\ UNCHANGED <<warm, leased, total, nextID, slotVars, pc, wt, calls, gcVars,
                   gitVars>>

\* Close has waited for both goroutines, or its own context ended first.
CloseEnd ==
    /\ closed /\ ~slotNil
    /\ slotNil' = TRUE
    /\ warm' = {} /\ leased' = {}
    /\ UNCHANGED <<total, nextID, slot, closed, pc, wt, calls, gcVars, gitVars>>

-----------------------------------------------------------------------------
(* Garbage collection                                                      *)

\* gcLoop: a tick runs Layer A; a failed prune is only reported.
GCTick ==
    /\ ~gcDone
    /\ GitPrune
    /\ UNCHANGED <<warm, leased, total, nextID, slotVars, closed, pc, wt, calls,
                   gcVars>>

GCStop ==
    /\ ~gcDone /\ closed
    /\ gcDone' = TRUE
    /\ UNCHANGED <<warm, leased, total, nextID, slotVars, closed, pc, wt, calls,
                   draining, prune, gitVars>>

Pruning(label, update) == prune.pc = label /\ prune' = update

\* PruneOrphans: refused when closed, else Layer A ...
PruneOrphans ==
    /\ ~closed /\ prune.calls < MaxPrunes
    /\ Pruning("idle", [prune EXCEPT !.pc = "layerA", !.calls = @ + 1])
    /\ UNCHANGED gitVars

\* ... whose failure is reported and does not stop Layer B.
PruneLayerA ==
    /\ Pruning("layerA", [prune EXCEPT !.pc = "list"])
    /\ GitPrune \/ (GitFails /\ UNCHANGED <<disk, admin>>)

\* Layer B: the list of worktrees git knows; a failure ends the call.
PruneList ==
    \/ /\ Pruning("list", [prune EXCEPT !.pc = "readdir", !.known = admin])
       /\ UNCHANGED gitVars
    \/ /\ Pruning("list", [NoPrune EXCEPT !.calls = prune.calls])
       /\ GitFails /\ UNCHANGED <<disk, admin>>

\* os.ReadDir of WorktreeDir; a failure ends the call.
PruneReadDir ==
    \/ /\ Pruning("readdir", [prune EXCEPT !.pc = "sweep", !.entries = disk])
       /\ UNCHANGED gitVars
    \/ /\ Pruning("readdir", [NoPrune EXCEPT !.calls = prune.calls])
       /\ GitFails /\ UNCHANGED <<disk, admin>>

\* One directory entry: skipped when git listed it or isLeased finds it.
PruneEntry ==
    \/ \E w \in prune.entries :
        /\ IF w \in prune.known \/ w \in leased \/ w \in warm
           THEN Pruning("sweep", [prune EXCEPT !.entries = @ \ {w}])
           ELSE Pruning("sweep", [prune EXCEPT !.entries = @ \ {w},
                                               !.pc = "remove", !.target = w])
        /\ UNCHANGED gitVars
    \/ /\ prune.entries = {}
       /\ Pruning("sweep", [NoPrune EXCEPT !.calls = prune.calls])
       /\ UNCHANGED gitVars

\* os.RemoveAll; an error is reported and the sweep goes on.
PruneRemove ==
    /\ Pruning("remove", [prune EXCEPT !.pc = "sweep", !.target = 0])
    /\ \/ disk' = disk \ {prune.target} /\ UNCHANGED <<admin, failures>>
       \/ GitFails /\ UNCHANGED <<disk, admin>>

Prune ==
    /\ \/ PruneOrphans \/ PruneLayerA \/ PruneList
       \/ PruneReadDir \/ PruneEntry \/ PruneRemove
    /\ UNCHANGED <<warm, leased, total, nextID, slotVars, closed, pc, wt, calls,
                   draining, gcDone>>

-----------------------------------------------------------------------------

ClientStep(c) ==
    \/ SlowPath(c) \/ SpawnLease(c) \/ PublishLease(c)
    \/ ReleaseClean(c) \/ ReleaseDirty(c)
    \/ DestroyWorktree(c) \/ DestroyCapture(c) \/ Signal(c)

PrewarmStep ==
    \/ WarmShouldSpawn \/ SpawnWarm \/ AppendWarmAndSignal \/ Signal(Prewarm)
    \/ PrewarmTick \/ DrainWarmOnClose \/ DrainOne

\* The pool as the daemon runs it: nothing calls PruneOrphans.
UnsweptNext ==
    \/ \E c \in Clients :
        Lease(c) \/ Wake(c) \/ GiveUp(c) \/ Release(c) \/ ClientStep(c)
    \/ PrewarmStep
    \/ CloseBegin \/ CloseEnd
    \/ GCTick \/ GCStop

Next == UnsweptNext \/ Prune

UnsweptSpec == Init /\ [][UnsweptNext]_vars
Spec == Init /\ [][Next]_vars

\* The scheduler runs every goroutine that can run, git subprocesses end, the
\* ticker ticks, the runtime serves the receivers of a channel in order, and a
\* caller that holds a worktree returns it.
FairSpec ==
    /\ Spec
    /\ \A c \in Clients : /\ WF_vars(ClientStep(c))
                          /\ WF_vars(Wake(c))
                          /\ WF_vars(Release(c))
    /\ WF_vars(PrewarmStep)
    /\ WF_vars(GCTick)

-----------------------------------------------------------------------------
(* Properties                                                              *)

\* Goroutines between two critical sections that own a slot of the elastic
\* budget for a worktree that is neither warm nor leased.
InFlightPC == {"spawning", "added", "resetting", "destroying"}
InFlight == {a \in Actors : pc[a] \in InFlightPC}

PoolTypeOK ==
    /\ warm \in SUBSET ID /\ leased \in SUBSET ID /\ draining \in SUBSET ID
    /\ total \in Int /\ nextID \in Nat
    /\ slot \in 0..ElasticMax
    /\ slotNil \in BOOLEAN /\ closed \in BOOLEAN /\ gcDone \in BOOLEAN
    /\ calls \in [Clients -> Nat]

ActorTypeOK ==
    /\ pc \in [Actors -> ClientPC \cup PrewarmPC]
    /\ pc[Prewarm] \in PrewarmPC
    /\ \A c \in Clients : pc[c] \in ClientPC
    /\ wt \in [Actors -> Nat]
    /\ \A a \in InFlight : wt[a] \in ID

GitTypeOK ==
    /\ disk \in SUBSET ID /\ admin \in SUBSET ID /\ failures \in Nat
    /\ prune \in [pc : PrunePC, known : SUBSET ID, entries : SUBSET ID,
                   target : Nat, calls : Nat]

\* The pool, the goroutines and git hold what the code's types and the capacity
\* of signalSlot allow.
TypeOK == PoolTypeOK /\ ActorTypeOK /\ GitTypeOK

Live == Cardinality(warm) + Cardinality(leased) + Cardinality(InFlight)

\* Until Close, the counter that gates spawning is exact at every step: it is
\* incremented before spawnOne, undone on each failure and kept while Release
\* works outside the lock (pool.go:363-410, 519-521; prewarm.go:85-118).
SlotsAccounted == closed \/ total = Live

\* Until Close, warm, leased and in-flight worktrees never exceed ElasticMax,
\* however leases, prewarming and failures interleave: "prewarm must respect
\* the M ceiling exactly" (prewarm.go:84).
ElasticCeiling == closed \/ Live <= ElasticMax

\* No worktree is in two hands: a holder's worktree is leased, belongs to no
\* other holder, and is neither warm nor being reset, destroyed or spawned by
\* another goroutine (callers release only what they leased).
ExclusiveLease ==
    (Reapers = {} /\ ~closed) =>
        \A c \in Clients : pc[c] = "holding" =>
            /\ wt[c] \in leased
            /\ wt[c] \notin warm
            /\ \A a \in Actors \ {c} :
                pc[a] = "holding" \/ a \in InFlight => wt[a] # wt[c]

\* A Lease never stays parked beside an idle worktree: a token is buffered, a
\* send is about to happen, or a woken Lease is about to look (the buffered
\* channel of Release, appendWarmAndSignal and leaseSlowPath).
NoLostWakeup ==
    (~closed /\ warm # {} /\ \E c \in Clients : pc[c] = "parked") =>
        \/ slot > 0
        \/ \E a \in Actors : pc[a] \in {"signalling", "slow"}

\* Once Close has set closed, no critical section adds to warm or leased: the
\* re-check under p.mu that pool.go:289-306 requires of every path.
NothingAddedAfterClose ==
    [][closed => warm' \subseteq warm /\ leased' \subseteq leased]_vars

\* The pairs of a client and the worktree that Lease handed it.
Held == {<<c, wt[c]>> : c \in {x \in Clients : pc[x] = "holding"}}

Ledger == INSTANCE LeaseLedger
    WITH Users <- Clients, Max <- ElasticMax,
         out <- leased, held <- Held, shut <- closed

\* The pool is a ledger of leases: through the fast path, the slow path that
\* spawns outside p.mu, late releases by others and Close, a worktree is handed
\* out only while nobody has it on lease, at most ElasticMax are on lease, and a
\* Lease that is still spawning when Close begins gets nothing (pool.go:325-440).
ImplementsLedger == Ledger!Spec

\* The directory of a warm or leased worktree exists: what Lease hands out can
\* be written to.
LiveOnDisk == closed \/ (warm \cup leased) \subseteq disk

LeaseWaits(c) == pc[c] \in {"slow", "parked"}
LeaseEnds(c) == pc[c] \in {"holding", "idle"} \/ closed

\* While the pool is open, a Lease that found no worktree returns: with a
\* worktree once one is released or spawned, or with an error.
LeaseReturns == \A c \in Clients : LeaseWaits(c) ~> LeaseEnds(c)

=============================================================================
