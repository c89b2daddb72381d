----------------------------- MODULE Dispatcher -----------------------------
(***************************************************************************)
(* The worker dispatcher of internal/orchestrator/dispatcher.go: Dispatch  *)
(* leases Width worktrees, spawns one worker in each, drains their results *)
(* and releases the worktrees; Shutdown releases what the dispatcher has   *)
(* tracked and aborts all workers.  The worktree pool is LeaseLedger,      *)
(* which WorktreePool implements; the workforce manager is external.  An   *)
(* action is one critical section of d.mu, one call of the pool or of the  *)
(* workforce, or one arm of the select.  Event-log records are left out,   *)
(* and the three counters of a DispatchResult are one.                     *)
(***************************************************************************)
EXTENDS Naturals, Sequences, FiniteSets

CONSTANTS
    Calls,      \* the Dispatch calls, each made once
    Worktrees,  \* the worktrees of the pool
    Width,      \* DispatchRequest.Width
    Max         \* PoolConfig.ElasticMax

\* Dispatch refuses a width that is not positive.
ASSUME WidthAssumption == Width \in Nat \ {0}

VARIABLES
    out,       \* the worktrees on lease, see LeaseLedger
    at,        \* where each call is
    got,       \* its local slice `leased`
    tracked,   \* the worktrees in d.leased
    workers,   \* running workers: <<call, index in its slice, worktree>>
    sent,      \* results in each call's channel
    res,       \* results each call has counted: Completed + Aborted + Errors
    dispatchOutcome,   \* how each call ends
    ctxDone,   \* calls whose context has ended
    stop,      \* where Shutdown is; d.shutdown is stop # "off"
    reap       \* what Shutdown has still to release

stopVars == <<stop, reap>>
workVars == <<workers, sent>>
dispatchVars == <<out, at, got, tracked, workVars, res, dispatchOutcome, ctxDone, stopVars>>

\* The worktrees in a slice.
Paths(slice) == {slice[i] : i \in DOMAIN slice}

\* The open pool; a call holds what is in its slice.
Pool == INSTANCE LeaseLedger
    WITH Users <- Calls, shut <- FALSE,
         held <- {p \in Calls \X Worktrees : p[2] \in Paths(got[p[1]])}

At == {"idle", "leasing", "leased", "tracked", "draining", "aborting",
       "unregister", "releasing", "returned"}
DispatchOutcome == {"none", "ok", "error", "deadline"}

DispatchInit ==
    /\ out = {}
    /\ at = [d \in Calls |-> "idle"]
    /\ got = [d \in Calls |-> <<>>]
    /\ tracked = {} /\ workers = {}
    /\ sent = [d \in Calls |-> 0] /\ res = [d \in Calls |-> 0]
    /\ dispatchOutcome = [d \in Calls |-> "none"]
    /\ ctxDone = {} /\ stop = "off" /\ reap = {}

\* Pool.Release called by d; a worktree that is twice in its slice stays there.
Release(d, w) == Pool!Return(d, w) \/ Pool!Reap(w)

DispatchGoto(d, label) == at' = [at EXCEPT ![d] = label]
Ends(d, label, result) == DispatchGoto(d, label) /\ dispatchOutcome' = [dispatchOutcome EXCEPT ![d] = result]

-----------------------------------------------------------------------------
(* Dispatch                                                                *)

\* Dispatch: an ended context is refused.  d.shutdown is not read.
DispatchCall(d) ==
    /\ at[d] = "idle"
    /\ IF d \in ctxDone THEN Ends(d, "returned", "error")
                        ELSE DispatchGoto(d, "leasing") /\ UNCHANGED dispatchOutcome
    /\ UNCHANGED <<out, got, tracked, workVars, res, ctxDone, stopVars>>

\* leaseWorktrees: one Lease after the other, each keeping the earlier ones.
LeaseOne(d) ==
    /\ at[d] = "leasing"
    /\ \E w \in Worktrees :
        /\ got' = [got EXCEPT ![d] = Append(@, w)]
        /\ Pool!Grant(d, w)
        /\ DispatchGoto(d, IF Len(got[d]) + 1 = Width THEN "leased" ELSE "leasing")
    /\ UNCHANGED <<tracked, workVars, res, dispatchOutcome, ctxDone, stopVars>>

\* Mutant: the partial set is not released.
LeaseFailsLeak(d) ==
    /\ at[d] = "leasing"
    /\ Ends(d, "returned", "error")
    /\ UNCHANGED <<out, got, tracked, workVars, res, ctxDone, stopVars>>

\* A Lease fails (context ended while parked, pool closed, git error): the
\* partial set is released and the error returned.
LeaseFails(d) ==
    /\ at[d] = "leasing"
    /\ Ends(d, IF got[d] = <<>> THEN "returned" ELSE "releasing", "error")
    /\ UNCHANGED <<out, got, tracked, workVars, res, ctxDone, stopVars>>

\* d.leased is extended under d.mu, so that Shutdown finds the worktrees.
Track(d) ==
    /\ at[d] = "leased"
    /\ tracked' = tracked \cup Paths(got[d])
    /\ DispatchGoto(d, "tracked")
    /\ UNCHANGED <<out, got, workVars, res, dispatchOutcome, ctxDone, stopVars>>

\* SpawnWorkers starts one worker per worktree, or fails.
SpawnWorkers(d) ==
    /\ at[d] = "tracked"
    /\ \/ workers' = workers \cup {<<d, i, got[d][i]>> : i \in DOMAIN got[d]}
          /\ DispatchGoto(d, "draining") /\ UNCHANGED dispatchOutcome
       \/ Ends(d, "unregister", "error") /\ UNCHANGED workers
    /\ UNCHANGED <<out, got, tracked, sent, res, ctxDone, stopVars>>

\* Mutant: the zero value of a closed channel is counted as a result.
ReceiveClosed(d) ==
    /\ at[d] \in {"draining", "aborting"}
    /\ sent' = [sent EXCEPT ![d] = @ - 1]
    /\ res' = [res EXCEPT ![d] = @ + 1]
    /\ UNCHANGED <<out, at, got, tracked, workers, dispatchOutcome, ctxDone, stopVars>>

\* The result arm of the select: one result is counted, whatever its status.
Receive(d) ==
    /\ at[d] \in {"draining", "aborting"} /\ sent[d] > 0
    /\ sent' = [sent EXCEPT ![d] = @ - 1]
    /\ res' = [res EXCEPT ![d] = @ + 1]
    /\ UNCHANGED <<out, at, got, tracked, workers, dispatchOutcome, ctxDone, stopVars>>

\* The workforce closes the channel after the last result of the call (external).
ChannelClosed(d) ==
    sent[d] = 0 /\ \A p \in workers : p[1] # d

\* Mutant: the drain ends with the last running worker, not with its result.
DrainedEarly(d) ==
    /\ at[d] \in {"draining", "aborting"}
    /\ \A p \in workers : p[1] # d
    /\ Ends(d, "unregister", IF at[d] = "aborting" THEN "error" ELSE "ok")
    /\ UNCHANGED <<out, got, tracked, workVars, res, ctxDone, stopVars>>

\* The channel is closed: ctx.Err() after an abort, nil otherwise.
Drained(d) ==
    /\ at[d] \in {"draining", "aborting"}
    /\ ChannelClosed(d)
    /\ Ends(d, "unregister", IF at[d] = "aborting" THEN "error" ELSE "ok")
    /\ UNCHANGED <<out, got, tracked, workVars, res, ctxDone, stopVars>>

\* Mutant: the arm returns instead of draining on.
AbortReturns(d) ==
    /\ at[d] = "draining" /\ d \in ctxDone
    /\ Ends(d, "unregister", "error")
    /\ UNCHANGED <<out, got, tracked, workVars, res, ctxDone, stopVars>>

\* The ctx.Done arm, taken once: AbortAll asks the workers to stop, which they
\* may ignore; the drain deadline is set and the drain goes on.
Abort(d) ==
    /\ at[d] = "draining" /\ d \in ctxDone
    /\ DispatchGoto(d, "aborting")
    /\ UNCHANGED <<out, got, tracked, workVars, res, dispatchOutcome, ctxDone, stopVars>>

\* Mutant: the deadline is looked at only once the channel is closed.
DeadlineWaits(d) ==
    /\ at[d] = "aborting" /\ ChannelClosed(d)
    /\ Ends(d, "unregister", "deadline")
    /\ UNCHANGED <<out, got, tracked, workVars, res, ctxDone, stopVars>>

\* The drain deadline fires, whatever the workers are doing.
Deadline(d) ==
    /\ at[d] = "aborting"
    /\ Ends(d, "unregister", "deadline")
    /\ UNCHANGED <<out, got, tracked, workVars, res, ctxDone, stopVars>>

\* The deferred unregisterAndRelease: removePointerSet under d.mu ...
Unregister(d) ==
    /\ at[d] = "unregister"
    /\ tracked' = tracked \ Paths(got[d])
    /\ DispatchGoto(d, "releasing")
    /\ UNCHANGED <<out, got, workVars, res, dispatchOutcome, ctxDone, stopVars>>

\* ... then releaseSlice, one Release at a time, errors ignored.
ReleaseOne(d) ==
    /\ at[d] = "releasing"
    /\ got' = [got EXCEPT ![d] = Tail(@)]
    /\ Release(d, Head(got[d]))
    /\ DispatchGoto(d, IF Len(got[d]) = 1 THEN "returned" ELSE "releasing")
    /\ UNCHANGED <<tracked, workVars, res, dispatchOutcome, ctxDone, stopVars>>

-----------------------------------------------------------------------------
(* Shutdown                                                                *)

\* Shutdown marks the dispatcher and takes d.leased; a second call returns.
DispatchShutdown ==
    /\ stop = "off"
    /\ stop' = "releasing"
    /\ reap' = tracked
    /\ tracked' = {}
    /\ UNCHANGED <<out, at, got, workVars, res, dispatchOutcome, ctxDone>>

\* Its releaseSlice, while the workers still run ...
ShutdownRelease ==
    /\ stop = "releasing"
    /\ UNCHANGED <<at, got, tracked, workVars, res, dispatchOutcome, ctxDone, stop>>
    /\ \E w \in reap : Pool!Reap(w) /\ reap' = reap \ {w}

\* ... and its AbortAll.
ShutdownAbort ==
    /\ stop = "releasing" /\ reap = {}
    /\ stop' = "done"
    /\ UNCHANGED <<out, at, got, tracked, workVars, res, dispatchOutcome, ctxDone, reap>>

-----------------------------------------------------------------------------
(* The environment                                                         *)

\* A worker ends and its result is sent (external).
WorkerEnds ==
    /\ \E p \in workers : /\ workers' = workers \ {p}
                          /\ sent' = [sent EXCEPT ![p[1]] = @ + 1]
    /\ UNCHANGED <<out, at, got, tracked, res, dispatchOutcome, ctxDone, stopVars>>

\* The caller's context ends.
DispatchCancelled(d) ==
    /\ d \notin ctxDone
    /\ ctxDone' = ctxDone \cup {d}
    /\ UNCHANGED <<out, at, got, tracked, workVars, res, dispatchOutcome, stopVars>>

-----------------------------------------------------------------------------

\* What a call does by itself once started; a Lease may stay parked.
Step(d) ==
    \/ Track(d) \/ SpawnWorkers(d) \/ Receive(d) \/ Drained(d) \/ Abort(d)
    \/ Deadline(d) \/ Unregister(d) \/ ReleaseOne(d)

DispatchNext ==
    \/ \E d \in Calls : \/ DispatchCall(d) \/ LeaseOne(d) \/ LeaseFails(d) \/ Step(d)
                        \/ DispatchCancelled(d)
    \/ DispatchShutdown \/ ShutdownRelease \/ ShutdownAbort
    \/ WorkerEnds

DispatchSpec == DispatchInit /\ [][DispatchNext]_dispatchVars

\* Goroutines run and the deadline timer fires; a parked Lease returns once its
\* context has ended (the select of leaseSlowPath).  Nothing is assumed of the
\* workers, of the pool or of the caller.
FairDispatchSpec ==
    /\ DispatchSpec
    /\ \A d \in Calls : /\ WF_dispatchVars(Step(d))
                        /\ WF_dispatchVars(d \in ctxDone /\ LeaseFails(d))

-----------------------------------------------------------------------------
(* Properties                                                              *)

\* The calls, the pool's leases, the workers and Shutdown hold what the code's
\* types allow; a closed result channel is never counted as a result.
DispatchTypeOK ==
    /\ out \in SUBSET Worktrees
    /\ at \in [Calls -> At]
    /\ got \in [Calls -> Seq(Worktrees)]
    /\ tracked \in SUBSET Worktrees
    /\ workers \in SUBSET (Calls \X Nat \X Worktrees)
    /\ sent \in [Calls -> Nat] /\ res \in [Calls -> Nat]
    /\ dispatchOutcome \in [Calls -> DispatchOutcome]
    /\ ctxDone \in SUBSET Calls
    /\ stop \in {"off", "releasing", "done"}
    /\ reap \in SUBSET Worktrees

\* No lease is forgotten: every worktree on lease is in the slice of a call that
\* has not returned and will release it, through failed leases, failed spawns,
\* aborts, deadlines and a concurrent Shutdown that releases the same worktrees
\* (dispatcher.go:221-232, 266-277, 299-312).
EveryLeaseReturns ==
    \A w \in out :
        \E d \in Calls : w \in Paths(got[d]) /\ at[d] \notin {"idle", "returned"}

\* Unless Shutdown ran or a drain deadline fired, a running worker has its
\* worktree for itself: it is on lease to the worker's call, and no other worker
\* runs in it ("isolated working directories", worktreepool/doc.go:4).
WorkersIsolated ==
    (stop = "off" /\ \A d \in Calls : dispatchOutcome[d] # "deadline") =>
        \A p \in workers :
            /\ p[3] \in out /\ p[3] \in Paths(got[p[1]])
            /\ \A q \in workers : q[3] = p[3] => q = p

\* A Dispatch that returns nil has counted one result for every worker it
\* spawned, whichever select arm won each round.
NilMeansAllCounted ==
    \A d \in Calls : dispatchOutcome[d] = "ok" => res[d] = Width

\* A Dispatch whose context ends returns, even when the pool never has a
\* worktree for it or a worker ignores the abort (the drain deadline).
CancelledReturns ==
    \A d \in Calls : (d \in ctxDone /\ at[d] # "idle") ~> at[d] = "returned"

=============================================================================
