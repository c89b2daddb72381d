----------------------------- MODULE MergeEngine -----------------------------
(***************************************************************************)
(* internal/orchestrator/merge: the Merge pipeline, its outcome cache and  *)
(* the rollback of a fast-forward whose caller has gone.                   *)
(*                                                                         *)
(* The cache is read before the target's mutex is taken and written under  *)
(* it.  Baseline, candidate runs and scoring touch nothing shared but the  *)
(* worktree pool: they are one step whose result is a winner or a failure. *)
(* Each git command is a step; a context that ends while one runs kills it *)
(* before or after it has done its work.                                   *)
(***************************************************************************)
EXTENDS Naturals

CONSTANTS
    Mergers,      \* goroutines that call Merge
    MergeRequest, \* cache keys: target, base and candidate heads of a request
    Branch,       \* target branches
    TargetBranch, \* the target of each request
    Candidates,   \* the candidate heads of each request
    GitMayFail,     \* whether git may fail for reasons of its own
    MayRestart    \* whether the daemon may die

NoSHA == "none"
Base == "base"
SHA == {Base, NoSHA} \cup UNION {Candidates[r] : r \in MergeRequest}

ASSUME MergeAssumption ==
    /\ TargetBranch \in [MergeRequest -> Branch] /\ DOMAIN Candidates = MergeRequest
    /\ GitMayFail \in BOOLEAN /\ MayRestart \in BOOLEAN

VARIABLES
    ref,        \* refs/heads: the commit of each target branch, NoSHA when it is gone
    outcomes,   \* Cache.m: the winner of each request
    completed,  \* the last EvtMergeCompleted of each request
    merge,      \* each call: its step, its request, whether its context has ended,
                \* preFFTargetSHA and the winner
    landed,     \* history: requests merged for good, with their winners
    tip,        \* history: the commit each branch should be at
    spoilt      \* history: branches that a failed git command, a rollback that did
                \* not know the old commit, or a crash left elsewhere

mergeVars == <<ref, outcomes, completed, merge, landed, tip, spoilt>>
mergeHistory == <<landed, tip, spoilt>>

Locked == {"run", "read", "update", "check", "rollback", "store", "emit"}
MergePC == {"idle", "validate", "lookup", "lock"} \cup Locked
NoMerge == [at |-> "idle", req |-> CHOOSE r \in MergeRequest : TRUE, done |-> FALSE,
            pre |-> NoSHA, winner |-> NoSHA]

MergeInit ==
    /\ ref = [b \in Branch |-> Base] /\ tip = [b \in Branch |-> Base]
    /\ outcomes = [r \in MergeRequest |-> NoSHA]
    /\ completed = [r \in MergeRequest |-> NoSHA]
    /\ merge = [m \in Mergers |-> NoMerge]
    /\ landed = {} /\ spoilt = {}

Req(m) == merge[m].req
Onto(m) == TargetBranch[Req(m)]
TargetHeld(b) == \E m \in Mergers : merge[m].at \in Locked /\ Onto(m) = b

Go(m, to) == merge' = [merge EXCEPT ![m].at = to]
MergeReturn(m) == merge' = [merge EXCEPT ![m] = NoMerge]

-----------------------------------------------------------------------------

CallMerge(m, r) ==
    /\ merge[m].at = "idle"
    /\ merge' = [merge EXCEPT ![m].at = "validate", ![m].req = r]
    /\ UNCHANGED <<ref, outcomes, completed, mergeHistory>>

\* Validate: the target has to exist.
ValidateMerge(m) ==
    /\ merge[m].at = "validate"
    /\ \/ ~merge[m].done /\ ref[Onto(m)] # NoSHA /\ Go(m, "lookup")
       \/ (merge[m].done \/ GitMayFail \/ ref[Onto(m)] = NoSHA) /\ MergeReturn(m)
    /\ UNCHANGED <<ref, outcomes, completed, mergeHistory>>

\* A hit is the answer, whatever has become of the branch.
Lookup(m) ==
    /\ merge[m].at = "lookup"
    /\ IF outcomes[Req(m)] # NoSHA THEN MergeReturn(m) ELSE Go(m, "lock")
    /\ UNCHANGED <<ref, outcomes, completed, mergeHistory>>

\* Mutant: the calls on one target are not serialised.
LockTargetShared(m) ==
    /\ merge[m].at = "lock" /\ Go(m, "run")
    /\ UNCHANGED <<ref, outcomes, completed, mergeHistory>>

\* targetMutex; waiting for it does not look at the context.
LockTarget(m) ==
    /\ merge[m].at = "lock" /\ ~TargetHeld(Onto(m)) /\ Go(m, "run")
    /\ UNCHANGED <<ref, outcomes, completed, mergeHistory>>

\* Baseline, candidates and scoring, with the context checks between them.
RunAndScore(m) ==
    /\ merge[m].at = "run"
    /\ \/ /\ ~merge[m].done
          /\ \E c \in Candidates[Req(m)] :
                 merge' = [merge EXCEPT ![m].at = "read", ![m].winner = c]
       \/ MergeReturn(m)
    /\ UNCHANGED <<ref, outcomes, completed, mergeHistory>>

\* rev-parse of the target; an error leaves preFFTargetSHA empty.
ReadTarget(m) ==
    /\ merge[m].at = "read"
    /\ \/ /\ ~merge[m].done
          /\ merge' = [merge EXCEPT ![m].at = "update", ![m].pre = ref[Onto(m)]]
       \/ (merge[m].done \/ GitMayFail) /\ Go(m, "update")
    /\ UNCHANGED <<ref, outcomes, completed, mergeHistory>>

\* update-ref: done, refused, or killed by a context that ends meanwhile.
UpdateRef(m) ==
    /\ merge[m].at = "update"
    /\ \/ ~merge[m].done /\ ref' = [ref EXCEPT ![Onto(m)] = merge[m].winner] /\ Go(m, "check")
       \/ GitMayFail /\ ~merge[m].done /\ MergeReturn(m) /\ UNCHANGED ref
       \/ /\ \/ UNCHANGED ref
             \/ ~merge[m].done /\ ref' = [ref EXCEPT ![Onto(m)] = merge[m].winner]
          /\ merge' = [merge EXCEPT ![m].at = "rollback", ![m].done = TRUE]
    /\ UNCHANGED <<outcomes, completed, mergeHistory>>

CheckAfter(m) ==
    /\ merge[m].at = "check"
    /\ IF merge[m].done
       THEN Go(m, "rollback") /\ UNCHANGED <<landed, tip>>
       ELSE /\ Go(m, "store")
            /\ landed' = landed \cup {<<Req(m), merge[m].winner>>}
            /\ tip' = [tip EXCEPT ![Onto(m)] = merge[m].winner]
    /\ UNCHANGED <<ref, outcomes, completed, spoilt>>

\* Mutant: the rollback is given the context that has ended, so that git refuses it.
RollbackRefused(m) ==
    /\ merge[m].at = "rollback" /\ MergeReturn(m)
    /\ UNCHANGED <<ref, outcomes, completed, mergeHistory>>

\* rollbackFastForward, with a context of its own: an empty preFFTargetSHA deletes
\* the branch.
Rollback(m) ==
    /\ merge[m].at = "rollback" /\ MergeReturn(m)
    /\ \/ /\ ref' = [ref EXCEPT ![Onto(m)] = merge[m].pre]
          /\ spoilt' = IF merge[m].pre = NoSHA THEN spoilt \cup {Onto(m)} ELSE spoilt
       \/ GitMayFail /\ UNCHANGED ref /\ spoilt' = spoilt \cup {Onto(m)}
    /\ UNCHANGED <<outcomes, completed, landed, tip>>

\* Mutant: the first candidate is stored instead of the winner.
StoreFirst(m) ==
    /\ merge[m].at = "store" /\ Go(m, "emit")
    /\ outcomes' = [outcomes EXCEPT ![Req(m)] = CHOOSE c \in Candidates[Req(m)] : TRUE]
    /\ UNCHANGED <<ref, completed, mergeHistory>>

StoreOutcome(m) ==
    /\ merge[m].at = "store" /\ Go(m, "emit")
    /\ outcomes' = [outcomes EXCEPT ![Req(m)] = merge[m].winner]
    /\ UNCHANGED <<ref, completed, mergeHistory>>

\* The error of the append is dropped.
EmitCompleted(m) ==
    /\ merge[m].at = "emit" /\ MergeReturn(m)
    /\ \/ ~merge[m].done /\ completed' = [completed EXCEPT ![Req(m)] = merge[m].winner]
       \/ UNCHANGED completed
    /\ UNCHANGED <<ref, outcomes, mergeHistory>>

\* The context of a call ends.
CancelMerge(m) ==
    /\ merge[m].at # "idle" /\ ~merge[m].done /\ merge' = [merge EXCEPT ![m].done = TRUE]
    /\ UNCHANGED <<ref, outcomes, completed, mergeHistory>>

-----------------------------------------------------------------------------

\* Cache.Rebuild replays the completed merges into the cache.
RebuildCache ==
    /\ outcomes' = [r \in MergeRequest |->
                        IF completed[r] # NoSHA THEN completed[r] ELSE outcomes[r]]
    /\ UNCHANGED <<ref, completed, merge, mergeHistory>>

\* The daemon dies and starts again with an empty cache.
MergeRestart ==
    /\ MayRestart
    /\ merge' = [m \in Mergers |-> NoMerge]
    /\ outcomes' = [r \in MergeRequest |-> NoSHA]
    /\ spoilt' = spoilt \cup {b \in Branch : ref[b] # tip[b]}
    /\ UNCHANGED <<ref, completed, landed, tip>>

MergeStep(m) ==
    \/ ValidateMerge(m) \/ Lookup(m) \/ LockTarget(m) \/ RunAndScore(m) \/ ReadTarget(m)
    \/ UpdateRef(m) \/ CheckAfter(m) \/ Rollback(m) \/ StoreOutcome(m) \/ EmitCompleted(m)

MergeNext ==
    \/ \E m \in Mergers : MergeStep(m) \/ CancelMerge(m)
    \/ \E m \in Mergers, r \in MergeRequest : CallMerge(m, r)
    \/ RebuildCache \/ MergeRestart

MergeSpec == MergeInit /\ [][MergeNext]_mergeVars

-----------------------------------------------------------------------------
(* Properties                                                              *)

\* Branches, cache, log and calls hold commits and steps of their kinds.
MergeTypeOK ==
    /\ ref \in [Branch -> SHA] /\ tip \in [Branch -> SHA]
    /\ outcomes \in [MergeRequest -> SHA] /\ completed \in [MergeRequest -> SHA]
    /\ merge \in [Mergers -> [at : MergePC, req : MergeRequest \cup {NoMerge.req}, done : BOOLEAN,
                              pre : SHA, winner : SHA]]
    /\ landed \in SUBSET (MergeRequest \X SHA) /\ spoilt \in SUBSET Branch

\* Every outcome in the cache was merged for good.
CacheTruth ==
    \A r \in MergeRequest :
        outcomes[r] # NoSHA => <<r, outcomes[r]>> \in landed

\* A branch whose mutex nobody holds is at the winner of its last lasting merge.
TargetHonest == \A b \in Branch : ~TargetHeld(b) /\ b \notin spoilt => ref[b] = tip[b]

\* What the cache answers was merged for good: no outcome of a merge that was
\* cancelled, refused or rolled back is ever cached, through restarts and rebuilds,
\* although a merge cancelled after its last check is still stored (engine.go:287-305,
\* cache.go:129-148).  And when nobody holds its mutex, a branch is at the winner of the
\* last merge that was not rolled back, however merges of the same target are
\* interleaved and cancelled; except after a git failure, a crash in the middle, or a
\* rollback whose rev-parse had failed (engine.go:262-294).
MergeSound == CacheTruth /\ TargetHonest

\* With a git that works and a daemon that stays up, a cancelled merge leaves its
\* target as it was: "If preSHA == "", the target ref didn't exist pre-FF"
\* (engine.go:353), and Validate has seen it exist.
RevertedLeavesTarget == \A b \in Branch : ~TargetHeld(b) => ref[b] = tip[b]

Merging(m) == merge[m].at = "validate"
MergeOver(m) == merge[m].at = "idle"

\* Every Merge returns, whatever fails: the target's mutex is always released.
MergeReturns == \A m \in Mergers : Merging(m) ~> MergeOver(m)

=============================================================================
