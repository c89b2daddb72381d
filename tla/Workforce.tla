----------------------------- MODULE Workforce -----------------------------
(***************************************************************************)
(* Team leads, their planner and children, and the queues they share: the  *)
(* Kanban board (SharedTaskList) and the fix prompts, in one SQLite file   *)
(* in WAL mode.  Several calls of TeamLead.Run may be given the same       *)
(* parent task, of one lead, which takes no lock, of leads that share one  *)
(* session, or of leads that have their own.  A transaction reads first    *)
(* and writes later; SQLite refuses the write when anything was committed  *)
(* in between.  Every statement may also fail, the context being over or   *)
(* the file busy.                                                          *)
(***************************************************************************)
EXTENDS Naturals

CONSTANTS
    Lead,          \* callers of TeamLead.Run for the parent task, each with one call at a time
    Child,         \* the items of the plan
    MaxRuns,       \* bound: calls of Run by each caller
    MaxRestarts    \* bound: restarts of the daemon

BoardRow == {"parent", "planner"} \cup Child
\* One OpenClaudeWorker.Run of each lead at its planner row and at every child row.
WorkerRun == Lead \X (Child \cup {"planner"})

ASSUME WorkforceAssumption ==
    /\ MaxRuns \in Nat /\ MaxRestarts \in Nat
    /\ "planner" \notin Child /\ "parent" \notin Child /\ Lead \cap WorkerRun = {}

Planner(l) == <<l, "planner">>
Children(l) == {<<l, c>> : c \in Child}
Actor == Lead \cup WorkerRun

VARIABLES
    board,      \* workforce_tasks: the status of each row and the thread that claimed it
    prompts,    \* workforce_fix_prompts not consumed: the failed child runs they tell of
    step,       \* where each call of Run is
    behind,     \* the actors whose open transaction has been overtaken by a commit
    result,     \* what the run will return, or returned
    runs,       \* calls of Run by each caller
    restarts,
    session     \* the session of each caller's lead: callers have the same one if they use
                \* one lead, or leads of one (spec, doctrine)

workVars == <<board, prompts, step, behind, result, runs, restarts, session>>

Status == {"absent", "pending", "in_progress", "review", "done", "failed"}
InTransaction == {"claim_write", "drain_write", "advance_write"}
Result == {"none", "ok", "unsuccessful", "error"}
NoThread == [of |-> "nobody", n |-> 0]

\* The thread of a session: a child has a new session with every run of its lead; the
\* lead's own, which its planner and all leads of its (spec, doctrine) share, is new with
\* every start of the daemon.
ThreadOf(a) ==
    IF a \in Lead THEN [of |-> Planner(session[a]), n |-> restarts]
    ELSE IF a = Planner(a[1]) THEN [of |-> Planner(session[a[1]]), n |-> restarts]
    ELSE [of |-> a, n |-> runs[a[1]]]
RowOf(a) == IF a \in Lead THEN "parent" ELSE a[2]

WorkforceInit ==
    /\ board = [r \in BoardRow |-> [status |-> IF r = "parent" THEN "pending" ELSE "absent",
                                    thread |-> NoThread]]
    /\ prompts = {}
    /\ step = [a \in Actor |-> "idle"]
    /\ behind = {}
    /\ result = [a \in Actor |-> "none"]
    /\ runs = [l \in Lead |-> 0]
    /\ restarts = 0
    /\ session \in {f \in [Lead -> Lead] : \A l \in Lead : f[f[l]] = f[l]}

-----------------------------------------------------------------------------
(* The database                                                            *)

IsValidTransition(current, next) ==
    \/ current = "pending" /\ next \in {"in_progress", "failed"}
    \/ current = "in_progress" /\ next \in {"review", "failed"}
    \/ current = "review" /\ next \in {"done", "failed", "in_progress"}

To(a, label) == step' = [step EXCEPT ![a] = label]

\* The first read of a transaction takes its snapshot.
Snapshots(a) == behind' = behind \ {a}
\* A commit of a overtakes every other open transaction.
Commits(a) == behind' = (behind \cup {b \in Actor : step[b] \in InTransaction}) \ {a}

\* Enqueue of one row: inserted, or a duplicate, which the callers ignore.
Enqueue(a, r) ==
    IF board[r].status = "absent"
    THEN board' = [board EXCEPT ![r].status = "pending"] /\ Commits(a)
    ELSE UNCHANGED <<board, behind>>

\* Run returns r.
Returns(a, r) ==
    /\ step' = [step EXCEPT ![a] = "returned"]
    /\ result' = [result EXCEPT ![a] = r]

\* Claim, first half: the row must be pending.  A refused claim ends Run.
ClaimRead(a) ==
    /\ step[a] = "claim"
    /\ \/ board[RowOf(a)].status = "pending" /\ To(a, "claim_write") /\ Snapshots(a)
          /\ UNCHANGED result
       \/ Returns(a, "error") /\ UNCHANGED behind
    /\ UNCHANGED <<board, prompts, runs, restarts, session>>

Claimed(a) ==
    /\ board' = [board EXCEPT ![RowOf(a)] = [status |-> "in_progress", thread |-> ThreadOf(a)]]
    /\ To(a, IF a \in Lead THEN "dispatch" ELSE "drain")
    /\ Commits(a) /\ UNCHANGED result

\* Mutant: the status is read outside the transaction that writes it.
ClaimWriteBlind(a) ==
    /\ step[a] = "claim_write"
    /\ \/ Claimed(a)
       \/ Returns(a, "error") /\ UNCHANGED <<board, behind>>
    /\ UNCHANGED <<prompts, runs, restarts, session>>

\* Claim, second half.
ClaimWrite(a) ==
    /\ step[a] = "claim_write"
    /\ \/ a \notin behind /\ Claimed(a)
       \/ Returns(a, "error") /\ UNCHANGED <<board, behind>>
    /\ UNCHANGED <<prompts, runs, restarts, session>>

\* The status Run leaves its row in.
Target(a) == IF result[a] = "ok" THEN "review" ELSE "failed"

\* An Advance that fails turns a worker's success into an error; markFailed and the
\* lead's finalizeParent and markParentFailed ignore it.
AdvanceFails(a) ==
    /\ Returns(a, IF a \in WorkerRun /\ result[a] = "ok" THEN "error" ELSE result[a])
    /\ UNCHANGED board

AdvanceRead(a) ==
    /\ step[a] = "advance"
    /\ \/ /\ IsValidTransition(board[RowOf(a)].status, Target(a))
          /\ To(a, "advance_write") /\ Snapshots(a) /\ UNCHANGED <<board, result>>
       \/ AdvanceFails(a) /\ UNCHANGED behind
    /\ UNCHANGED <<prompts, runs, restarts, session>>

Advanced(a) ==
    /\ board' = [board EXCEPT ![RowOf(a)].status = Target(a)]
    /\ Returns(a, result[a]) /\ Commits(a)

\* Mutant: the current status is read outside the transaction that replaces it.
AdvanceWriteBlind(a) ==
    /\ step[a] = "advance_write"
    /\ Advanced(a) \/ (AdvanceFails(a) /\ UNCHANGED behind)
    /\ UNCHANGED <<prompts, runs, restarts, session>>

AdvanceWrite(a) ==
    /\ step[a] = "advance_write"
    /\ (a \notin behind /\ Advanced(a)) \/ (AdvanceFails(a) /\ UNCHANGED behind)
    /\ UNCHANGED <<prompts, runs, restarts, session>>

-----------------------------------------------------------------------------
(* OpenClaudeWorker.Run                                                    *)

\* Mutant: a row in progress is resumed by whoever asks, as claimParent does.
ClaimTaskAnyThread(w) ==
    /\ step[w] = "get"
    /\ \/ /\ To(w, IF board[RowOf(w)].status = "in_progress" THEN "drain" ELSE "claim")
          /\ UNCHANGED result
       \/ Returns(w, "error")
    /\ UNCHANGED <<board, prompts, behind, runs, restarts, session>>

\* claimTask: a row in progress is resumed by the thread that claimed it.
ClaimTask(w) ==
    /\ step[w] = "get"
    /\ \/ /\ board[RowOf(w)] = [status |-> "in_progress", thread |-> ThreadOf(w)]
          /\ To(w, "drain") /\ UNCHANGED result
       \/ board[RowOf(w)].status # "in_progress" /\ To(w, "claim") /\ UNCHANGED result
       \/ Returns(w, "error")
    /\ UNCHANGED <<board, prompts, behind, runs, restarts, session>>

\* After the claim a failure goes through markFailed.
Fails(w, r) ==
    /\ step' = [step EXCEPT ![w] = "advance"]
    /\ result' = [result EXCEPT ![w] = r]

\* The prompts for a lead reach a planner of its spec; none is addressed to a child.
PromptsFor(w) == {p \in prompts : w = Planner(w[1]) /\ session[w[1]] = session[p[1]]}

\* buildPrompt: DrainByWorker, a transaction that writes only if it found prompts.
DrainByWorker(w) ==
    /\ \/ /\ step[w] = "drain"
          /\ To(w, IF PromptsFor(w) = {} THEN "turn" ELSE "drain_write")
          /\ Snapshots(w) /\ UNCHANGED <<prompts, result>>
       \/ /\ step[w] = "drain_write" /\ w \notin behind
          /\ prompts' = prompts \ PromptsFor(w) /\ Commits(w)
          /\ To(w, "turn") /\ UNCHANGED result
       \/ /\ step[w] \in {"drain", "drain_write"}
          /\ Fails(w, "error") /\ UNCHANGED <<prompts, behind>>
    /\ UNCHANGED <<board, runs, restarts, session>>

\* handleNotification: a checkpoint is put in the queue of the same file.
Checkpoint(w) ==
    /\ step[w] = "turn" /\ Commits(w)
    /\ UNCHANGED <<board, prompts, step, result, runs, restarts, session>>

\* sendPrompt and runTurnLoop: the turn ends well, with another stop reason, or with an
\* error (of the session, the quota or the run's time limit).
TurnEnds(w) ==
    /\ step[w] = "turn"
    /\ \E r \in Result \ {"none"} : Fails(w, r)
    /\ UNCHANGED <<board, prompts, behind, runs, restarts, session>>

WorkerStep(w) ==
    \/ ClaimTask(w) \/ ClaimRead(w) \/ ClaimWrite(w) \/ DrainByWorker(w)
    \/ TurnEnds(w) \/ AdvanceRead(w) \/ AdvanceWrite(w)

-----------------------------------------------------------------------------
(* TeamLead.Run                                                            *)

\* The planner's row is enqueued and the planner runs.
LeadStart(l) ==
    /\ step[l] \in {"idle", "returned"} /\ runs[l] < MaxRuns
    /\ runs' = [runs EXCEPT ![l] = @ + 1]
    /\ \/ /\ Enqueue(l, "planner")
          /\ step' = [a \in Actor |-> CASE a = l -> "plan" [] a = Planner(l) -> "get"
                                          [] a \in Children(l) -> "idle" [] OTHER -> step[a]]
          /\ result' = [a \in Actor |-> IF a \in {l, Planner(l)} \cup Children(l)
                                        THEN "none" ELSE result[a]]
       \/ Returns(l, "error") /\ UNCHANGED <<board, behind>>
    /\ UNCHANGED <<prompts, restarts, session>>

\* The planner has returned: its error, or a text without a plan, fails the parent.
\* A run that ended for another stop reason goes on with its text.
ParsePlan(l) ==
    /\ step[l] = "plan" /\ step[Planner(l)] = "returned"
    /\ \/ result[Planner(l)] # "error" /\ To(l, "get") /\ UNCHANGED result
       \/ /\ step' = [step EXCEPT ![l] = "settle"]
          /\ result' = [result EXCEPT ![l] = "error"]
    /\ UNCHANGED <<board, prompts, behind, runs, restarts, session>>

\* claimParent: in progress is taken for claimed, whoever claimed it.
ClaimParent(l) ==
    /\ step[l] = "get"
    /\ \/ /\ To(l, IF board["parent"].status = "in_progress" THEN "dispatch" ELSE "claim")
          /\ UNCHANGED result
       \/ Returns(l, "error")
    /\ UNCHANGED <<board, prompts, behind, runs, restarts, session>>

\* emitChildFixPrompt, whose error is dropped.
EmitChildFixPrompt(w) ==
    \/ prompts' = prompts \cup {w} /\ Commits(w)
    \/ UNCHANGED <<prompts, behind>>

\* One item of dispatchChildren: the row is enqueued and the child starts.
DispatchChild(l, w) ==
    /\ step[l] = "dispatch" /\ step[w] = "idle"
    /\ To(w, "get") /\ Enqueue(w, RowOf(w))
    /\ UNCHANGED <<prompts, result, runs, restarts, session>>

\* The row cannot be enqueued, or it was and NewChild fails, which ends as a failed
\* run does.
DispatchFails(l, w) ==
    /\ step[l] = "dispatch" /\ step[w] = "idle"
    /\ result' = [result EXCEPT ![w] = "error"]
    /\ \/ To(w, "joined") /\ UNCHANGED <<board, behind>>
       \/ To(w, "returned") /\ Enqueue(w, RowOf(w))
    /\ UNCHANGED <<prompts, runs, restarts, session>>

\* The child's goroutine ends.
ChildJoins(w) ==
    /\ step[w] = "returned" /\ w # Planner(w[1])
    /\ To(w, "joined")
    /\ IF result[w] = "error" THEN EmitChildFixPrompt(w) ELSE UNCHANGED <<prompts, behind>>
    /\ UNCHANGED <<board, result, runs, restarts, session>>

\* Mutant: the results of the children are not aggregated.
AggregateErrors(l) ==
    IF \E w \in Children(l) : result[w] = "error" THEN "error" ELSE result[Planner(l)]

\* aggregate, and the joined errors that Run returns.
Aggregate(l) ==
    IF \E w \in Children(l) : result[w] = "error" THEN "error"
    ELSE IF \A w \in Children(l) \cup {Planner(l)} : result[w] = "ok" THEN "ok"
    ELSE "unsuccessful"

Join(l) ==
    /\ step[l] = "dispatch" /\ \A w \in Children(l) : step[w] = "joined"
    /\ step' = [step EXCEPT ![l] = "settle"]
    /\ result' = [result EXCEPT ![l] = Aggregate(l)]
    /\ UNCHANGED <<board, prompts, behind, runs, restarts, session>>

\* The Get of markParentFailed and finalizeParent: a settled parent is left alone.
\* finalizeParent would first claim a pending row, which no claimed row becomes again.
SettleParent(l) ==
    /\ step[l] = "settle"
    /\ \/ board["parent"].status \in {"pending", "in_progress"} /\ To(l, "advance") /\ UNCHANGED result
       \/ Returns(l, result[l])
    /\ UNCHANGED <<board, prompts, behind, runs, restarts, session>>

LeadStep(l) ==
    \/ ParsePlan(l) \/ ClaimParent(l) \/ ClaimRead(l) \/ ClaimWrite(l)
    \/ \E w \in Children(l) : DispatchChild(l, w) \/ DispatchFails(l, w) \/ ChildJoins(w)
    \/ Join(l) \/ SettleParent(l) \/ AdvanceRead(l) \/ AdvanceWrite(l)

\* The steps that do not wait for a new call, a checkpoint or a restart.
WorkforceStep == (\E l \in Lead : LeadStep(l)) \/ (\E w \in WorkerRun : WorkerStep(w))

\* The daemon stops and starts again: its runs are gone, the file stays.
WorkforceRestart ==
    /\ restarts < MaxRestarts /\ restarts' = restarts + 1
    /\ step' = [a \in Actor |-> "idle"]
    /\ result' = [a \in Actor |-> "none"]
    /\ behind' = {}
    /\ UNCHANGED <<board, prompts, runs, session>>

WorkforceNext ==
    \/ \E l \in Lead : LeadStart(l) \/ LeadStep(l)
    \/ \E w \in WorkerRun : WorkerStep(w) \/ Checkpoint(w)
    \/ WorkforceRestart

WorkforceSpec == WorkforceInit /\ [][WorkforceNext]_workVars

-----------------------------------------------------------------------------
(* Properties                                                              *)

\* Rows, steps and results are among those the code knows.
WorkforceTypeOK ==
    /\ \A r \in BoardRow : board[r].status \in Status
    /\ prompts \subseteq WorkerRun
    /\ step \in [Actor -> {"idle", "plan", "get", "claim", "drain", "turn", "dispatch",
                          "settle", "advance", "returned", "joined"} \cup InTransaction]
    /\ behind \subseteq Actor
    /\ result \in [Actor -> Result] /\ session \in [Lead -> Lead]

\* The planners of calls that share a session.
SameSession(v, w) ==
    /\ v = Planner(v[1]) /\ w = Planner(w[1]) /\ session[v[1]] = session[w[1]]

AtWork == {"drain", "drain_write", "turn", "advance", "advance_write"}

\* Two runs are between the claim of a row and its last Advance only at the planner's row
\* and in one session: there claimTask takes the second for a resumption of the first.
OneWorkerPerRow ==
    \A v, w \in WorkerRun :
        /\ RowOf(v) = RowOf(w) /\ v # w /\ step[v] \in AtWork /\ step[w] \in AtWork
        => SameSession(v, w)

\* A row that was settled is never worked at again, a failed row stays failed and a
\* child's row stays in review, although callers of one parent and restarted runs act on
\* what they read before (queue_adapter.go:218-253).  A row leaves review only to fail, for
\* that is a legal transition (shared_task_list.go:78): the parent's by a call that read it
\* before it was settled (teamlead.go:418-428), the planner's by a second run in the
\* session of the first.
SettledStays ==
    [][\A r \in BoardRow :
           /\ board[r].status = "failed" \/ (board[r].status = "review" /\ r \in Child)
              => board'[r] = board[r]
           /\ board[r].status = "review" => board'[r].status \in {"review", "failed"}
           /\ r = "planner" /\ board[r].status = "review" /\ board'[r] # board[r]
              => \E v, w \in Lead : v # w /\ session[v] = session[w]]_workVars

Succeeded(l) == step[l] = "returned" /\ result[l] = "ok"

\* A call that reports success leaves every child's row in review, and the planner's unless
\* another run in its session failed it; no second call reports success.
LeadHonest ==
    \A l \in Lead : Succeeded(l) =>
        /\ \A c \in Child : board[c].status = "review"
        /\ \/ board["planner"].status = "review"
           \/ board["planner"].status = "failed" /\ \E m \in Lead \ {l} : session[m] = session[l]
        /\ \A m \in Lead \ {l} : ~Succeeded(m)

\* Two runs never work at one row, unless they are planners in one session: of two that saw
\* it pending, the transaction of the second is refused, and only the thread that claimed it
\* resumes it (queue_adapter.go:175-204, openclaude_worker.go:147-172).  A call that reports
\* success has every child's row in review: no failed Advance and no failed sibling is
\* swallowed; and of all calls for one parent, whatever they share, at most one reports
\* success (openclaude_worker.go:132-143, teamlead.go:365-391).
WorkSound == OneWorkerPerRow /\ LeadHonest

Leading(l) == step[l] = "dispatch"
LeadOver(l) == step[l] \in {"returned", "idle"}

\* Run of a lead returns: a child ends by its time limit at the latest, and the
\* WaitGroup of dispatchChildren waits only for children that were started
\* (teamlead.go:272-334).
LeadReturns == \A l \in Lead : Leading(l) ~> LeadOver(l)

=============================================================================
