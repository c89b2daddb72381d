---------------------------- MODULE Confirmation ----------------------------
(***************************************************************************)
(* The confirmation handler of internal/orchestrator, its timeout watcher  *)
(* and the OperatorGate of internal/workforce/gate.                        *)
(*                                                                         *)
(* RequestConfirmation and handle keep h.mu for the whole call, so at most *)
(* one of them is under way; every call they make takes and releases a     *)
(* lock of its own (StateMachine.mu, OperatorGate.mu, the event log), so   *)
(* each is a step, between which builds, the main loop and the operator's  *)
(* gate endpoints act on the same machine and the same gate.               *)
(***************************************************************************)
EXTENDS StateMachine

CONSTANTS
    Class,            \* decision classes a caller may name
    thresholds,       \* ConfirmationPolicy.thresholds, on some of the classes
    optionalEnabled,  \* ConfirmationPolicy.optionalEnabled
    MaxRequests,      \* requests that are ever accepted
    MainLoopTargets,  \* states the main loop moves the machine to
    MayCancel,        \* whether a caller may cancel its context
    AppendFails,      \* whether an append to the event log may fail
    SaveFails,        \* whether GatePersist.SaveState may fail
    OperatorModes,    \* pauses the operator asks of the gate endpoints
    MayCrash          \* whether the daemon may restart

Threshold == {"high", "medium", "low", "ignore", "misspelt"}

ASSUME ConfirmationAssumption ==
    /\ DOMAIN thresholds \subseteq Class
    /\ \A c \in DOMAIN thresholds : thresholds[c] \in Threshold
    /\ optionalEnabled \in BOOLEAN
    /\ MaxRequests \in Nat
    /\ MainLoopTargets \subseteq {"hard_paused", "degraded", "emergency"}
    /\ OperatorModes \subseteq {"paused_descriptive", "paused_quiet", "paused_after_apply"}
    /\ {MayCancel, AppendFails, SaveFails, MayCrash} \subseteq BOOLEAN

VARIABLES
    gate,        \* OperatorGate.state, in memory and on disk
    at,          \* where the holder of ConfirmationHandler.mu is
    ctxDone,     \* whether the context of that call is cancelled
    previous,    \* the state RequestConfirmation read first
    answer,      \* the decision handle is applying
    author,      \* who called handle
    pending,     \* event ID of h.pending, 0 when nil
    restore,     \* h.pending.previousState
    requests,    \* events ConfirmationRequested appended so far
    expired,     \* whether h.pending is older than the watcher's timeout
    snapshot,    \* event ID the watcher is about to deny, 0 when none
    decisions,   \* decisions recorded in the event log, per request
    operatorHold, \* whether the operator paused the gate and has not resumed it
    operatorOpen, \* whether the operator resumed it after the last request's Pause
    spoilt        \* whether a rollback's Resume failed, or the daemon restarted

locals == <<ctxDone, previous, answer, author>>
handlerVars == <<at, locals>>
pendingVars == <<pending, restore, expired, requests, decisions>>
watcherVars == snapshot
historyVars == <<operatorHold, operatorOpen, spoilt>>
vars == <<state, gate, handlerVars, pendingVars, watcherVars, historyVars>>

Gate == {"running", "paused_descriptive", "paused_quiet", "paused_after_apply"}
HandlerPC == {"free", "request", "pause", "append", "undoPause", "undoState",
              "record", "move", "resume"}
Request == 1..MaxRequests

\* Mutant: NewOperatorGate keeps whatever it loads from disk.
InitUnvalidated ==
    /\ state = "idle" /\ gate \in {"running", "garbage"}
    /\ at = "free" /\ ctxDone = FALSE /\ previous = "idle"
    /\ answer = "deny" /\ author = "operator"
    /\ pending = 0 /\ restore = "idle" /\ requests = 0
    /\ decisions = [e \in Request |-> {}]
    /\ expired = FALSE /\ snapshot = 0
    /\ operatorHold = (gate # "running") /\ operatorOpen = FALSE /\ spoilt = FALSE

\* The gate is loaded from disk; a state it does not know counts as running.
Init ==
    /\ state = "idle" /\ gate \in {"running", "paused_descriptive"} \cup OperatorModes
    /\ at = "free" /\ ctxDone = FALSE /\ previous = "idle"
    /\ answer = "deny" /\ author = "operator"
    /\ pending = 0 /\ restore = "idle" /\ requests = 0
    /\ decisions = [e \in Request |-> {}]
    /\ expired = FALSE /\ snapshot = 0
    /\ operatorHold = (gate # "running") /\ operatorOpen = FALSE /\ spoilt = FALSE

-----------------------------------------------------------------------------
(* ConfirmationPolicy.Evaluate: an unknown class or threshold must pause.   *)

Evaluate(class) ==
    IF class \notin DOMAIN thresholds THEN "mandatory"
    ELSE CASE thresholds[class] \in {"low", "ignore"} -> "continue"
           [] thresholds[class] = "medium" ->
                  IF optionalEnabled THEN "optional" ELSE "continue"
           [] OTHER -> "mandatory"

(* OperatorGate.Pause and Resume: SaveState comes first, and its failure   *)
(* leaves the gate alone.  Resume of a running gate does nothing.          *)

Pause(mode) == gate' = mode
Resume == gate' = "running"
SaveStateFails(cancelled) == (cancelled \/ SaveFails) /\ UNCHANGED gate
ResumeFails(cancelled) == gate # "running" /\ SaveStateFails(cancelled)

\* The holder of h.mu goes on, or returns: its locals are gone with it.
At(from, to) == at = from /\ at' = to /\ UNCHANGED locals
Return ==
    /\ at' = "free" /\ ctxDone' = FALSE
    /\ previous' = "idle" /\ answer' = "deny" /\ author' = "operator"
Leave(from) == at = from /\ Return
Clear == pending' = 0 /\ restore' = "idle" /\ expired' = FALSE
Keep == UNCHANGED <<pending, restore, expired>>

-----------------------------------------------------------------------------
(* RequestConfirmation                                                     *)

\* Takes h.mu and reads the current state.  A class that may continue, and a
\* request that finds another one pending, return at once.
RequestConfirmation(class) ==
    /\ Evaluate(class) # "continue"
    /\ pending = 0 /\ requests < MaxRequests
    /\ at = "free" /\ at' = "request" /\ previous' = state
    /\ UNCHANGED <<state, gate, ctxDone, answer, author, pendingVars, watcherVars,
                   historyVars>>

RequestTransition ==
    /\ \/ ~ctxDone /\ Transition("waiting") /\ At("request", "pause")
       \/ TransitionFails("waiting", ctxDone, AppendFails) /\ Leave("request")
    /\ UNCHANGED <<gate, pendingVars, watcherVars, historyVars>>

RequestPause ==
    /\ \/ /\ ~ctxDone /\ Pause("paused_descriptive") /\ At("pause", "append")
          /\ operatorOpen' = FALSE
       \/ /\ SaveStateFails(ctxDone) /\ At("pause", "undoState")
          /\ UNCHANGED operatorOpen
    /\ UNCHANGED <<state, pendingVars, watcherVars, operatorHold, spoilt>>

\* Mutant: a failed append forgets the gate.
RequestAppendLeaksPause ==
    /\ \/ /\ ~ctxDone /\ Leave("append")
          /\ requests' = requests + 1
          /\ pending' = requests + 1 /\ restore' = previous /\ UNCHANGED expired
       \/ /\ ctxDone \/ AppendFails
          /\ At("append", "undoState")
          /\ Keep /\ UNCHANGED requests
    /\ UNCHANGED <<state, gate, decisions, watcherVars, historyVars>>

\* The append, and on success h.pending.
RequestAppend ==
    /\ \/ /\ ~ctxDone /\ Leave("append")
          /\ requests' = requests + 1
          /\ pending' = requests + 1 /\ restore' = previous /\ UNCHANGED expired
       \/ /\ ctxDone \/ AppendFails
          /\ At("append", "undoPause")
          /\ Keep /\ UNCHANGED requests
    /\ UNCHANGED <<state, gate, decisions, watcherVars, historyVars>>

\* The rollback uses a context that cannot be cancelled and ignores errors.
UndoPause ==
    /\ At("undoPause", "undoState")
    /\ (Resume /\ UNCHANGED spoilt) \/ (ResumeFails(FALSE) /\ spoilt' = TRUE)
    /\ UNCHANGED <<state, pendingVars, watcherVars, operatorHold, operatorOpen>>

UndoState ==
    /\ Leave("undoState")
    /\ TryTransition(previous, FALSE, AppendFails)
    /\ UNCHANGED <<gate, pendingVars, watcherVars, historyVars>>

-----------------------------------------------------------------------------
(* handle, for HandleAck and HandleDeny                                    *)

\* Mutant: the event ID is not compared with the pending one.
HandleAnyEvent(e, decision, who) ==
    /\ pending # 0
    /\ at = "free" /\ at' = "record" /\ answer' = decision /\ author' = who
    /\ UNCHANGED <<state, gate, ctxDone, previous, pendingVars, historyVars>>

\* Takes h.mu; an answer to anything but the pending request is stale.
Handle(e, decision, who) ==
    /\ pending # 0 /\ pending = e
    /\ at = "free" /\ at' = "record" /\ answer' = decision /\ author' = who
    /\ UNCHANGED <<state, gate, ctxDone, previous, pendingVars, historyVars>>

\* The operator answers a request shown to him, perhaps long ago.
HandleAck(e) == Handle(e, "ack", "operator") /\ UNCHANGED watcherVars
HandleDeny(e) == Handle(e, "deny", "operator") /\ UNCHANGED watcherVars

\* Mutant: the decision is applied without being recorded.
HandleUnrecorded ==
    /\ At("record", "move")
    /\ UNCHANGED <<state, gate, pendingVars, watcherVars, historyVars>>

\* The decision is recorded before it takes effect.
HandleAppend ==
    /\ \/ /\ ~ctxDone /\ At("record", "move")
          /\ decisions' = [decisions EXCEPT ![pending] = @ \cup {answer}]
       \/ (ctxDone \/ AppendFails) /\ Leave("record") /\ UNCHANGED decisions
    /\ Keep
    /\ UNCHANGED <<state, gate, requests, watcherVars, historyVars>>

Target == IF answer = "ack" THEN restore ELSE "aborting"

\* Mutant: an ack opens the gate as soon as it is recorded.
HandleResumesFirst ==
    /\ \/ /\ ~ctxDone /\ Transition(Target) /\ Leave("move") /\ Clear
       \/ /\ TransitionFails(Target, ctxDone, AppendFails)
          /\ Leave("move") /\ Keep
    /\ IF answer = "ack" THEN Resume ELSE UNCHANGED gate
    /\ UNCHANGED <<requests, decisions, watcherVars, historyVars>>

\* A failed transition leaves the request pending.
HandleTransition ==
    /\ \/ /\ ~ctxDone /\ Transition(Target)
          /\ IF answer = "ack"
             THEN At("move", "resume") /\ Keep
             ELSE Leave("move") /\ Clear
       \/ /\ TransitionFails(Target, ctxDone, AppendFails)
          /\ Leave("move") /\ Keep
    /\ UNCHANGED <<gate, requests, decisions, watcherVars, historyVars>>

\* A failed Resume leaves the request pending, its transition already made.
HandleResume ==
    /\ Leave("resume")
    /\ \/ (~ctxDone \/ gate = "running") /\ Resume /\ Clear
       \/ ResumeFails(ctxDone) /\ Keep
    /\ UNCHANGED <<state, requests, decisions, watcherVars, historyVars>>

\* The caller of RequestConfirmation, HandleAck or HandleDeny gives up; the
\* watcher's context ends with the daemon only.
Cancel ==
    /\ MayCancel /\ at # "free" /\ ~ctxDone
    /\ at \in {"record", "move", "resume"} => author = "operator"
    /\ ctxDone' = TRUE
    /\ UNCHANGED <<state, gate, at, previous, answer, author, pendingVars,
                   watcherVars, historyVars>>

-----------------------------------------------------------------------------
(* ConfirmationWatcher.sweepOnce                                           *)

\* The pending request becomes an hour old.
Expire ==
    /\ pending # 0 /\ ~expired /\ expired' = TRUE
    /\ UNCHANGED <<state, gate, handlerVars, pending, restore, requests, decisions,
                   watcherVars, historyVars>>

\* pendingSnapshot, under h.mu, and the age check.
Sweep ==
    /\ snapshot = 0 /\ at = "free"
    /\ pending # 0 /\ expired
    /\ snapshot' = pending
    /\ UNCHANGED <<state, gate, handlerVars, pendingVars, historyVars>>

\* Mutant: the watcher never denies.
WatcherDenyNever ==
    /\ snapshot # 0 /\ at = "free" /\ snapshot' = 0
    /\ UNCHANGED <<state, gate, handlerVars, pendingVars, historyVars>>

\* HandleDeny with the event of the snapshot; a stale one is dropped.
WatcherDeny ==
    /\ snapshot # 0 /\ at = "free"
    /\ \/ Handle(snapshot, "deny", "watcher")
       \/ pending # snapshot /\ UNCHANGED <<state, gate, handlerVars, pendingVars,
                                            historyVars>>
    /\ snapshot' = 0

-----------------------------------------------------------------------------
(* The other clients of the machine and of the gate                        *)

Elsewhere == UNCHANGED <<handlerVars, pendingVars, watcherVars>>

\* RunStage4 starts, runs, finishes and unwinds a build.
BuildMove ==
    /\ \/ state = "idle" /\ Transition("initializing")
       \/ state = "initializing" /\ Transition("running")
       \/ state \in {"running", "aborting"} /\ Transition("idle")
       \/ Transition("aborting")
    /\ Elsewhere /\ UNCHANGED <<gate, historyVars>>

\* The main loop handles a worker-death, drift or budget record.
MainLoopMove ==
    /\ \E to \in MainLoopTargets : Transition(to)
    /\ Elsewhere /\ UNCHANGED <<gate, historyVars>>

\* POST /v1/workforce/gate/pause and /resume.
OperatorGatePause ==
    /\ \E mode \in OperatorModes : Pause(mode)
    /\ operatorHold' = TRUE
    /\ Elsewhere /\ UNCHANGED <<state, operatorOpen, spoilt>>

OperatorGateResume ==
    /\ OperatorModes # {}
    /\ Resume /\ operatorHold' = FALSE /\ operatorOpen' = TRUE
    /\ Elsewhere /\ UNCHANGED <<state, spoilt>>

\* The daemon restarts: the machine, the handler and the watcher start afresh,
\* the gate is loaded from disk, and the event log is kept.
Restart ==
    /\ MayCrash
    /\ state' = "idle" /\ Return /\ Clear /\ snapshot' = 0
    /\ spoilt' = TRUE
    /\ UNCHANGED <<gate, requests, decisions, operatorHold, operatorOpen>>

-----------------------------------------------------------------------------

HandlerStep ==
    \/ RequestTransition \/ RequestPause \/ RequestAppend \/ UndoPause \/ UndoState
    \/ HandleAppend \/ HandleTransition \/ HandleResume

Next ==
    \/ \E c \in Class : RequestConfirmation(c)
    \/ \E e \in Request : HandleAck(e) \/ HandleDeny(e)
    \/ HandlerStep \/ Cancel
    \/ Expire \/ Sweep \/ WatcherDeny
    \/ BuildMove \/ MainLoopMove
    \/ OperatorGatePause \/ OperatorGateResume
    \/ Restart

Spec == Init /\ [][Next]_vars

\* The log takes the decision under way.
HandleRecorded == HandleAppend /\ at' = "move"

\* Calls under way proceed, time passes, the watcher's ticker ticks again and
\* again, however often others hold h.mu when it does, and the event log does
\* not fail for ever.
FairSpec ==
    /\ Spec
    /\ WF_vars(HandlerStep) /\ WF_vars(Expire)
    /\ SF_vars(Sweep) /\ SF_vars(WatcherDeny) /\ SF_vars(HandleRecorded)

-----------------------------------------------------------------------------
(* Properties                                                              *)

\* The machine, the gate, the handler and the watcher hold what their Go types
\* allow; a gate loaded from disk is one the program knows.
TypeOK ==
    /\ state \in State /\ gate \in Gate
    /\ at \in HandlerPC /\ ctxDone \in BOOLEAN /\ previous \in State
    /\ answer \in {"ack", "deny"} /\ author \in {"operator", "watcher"}
    /\ pending \in 0..MaxRequests /\ restore \in State
    /\ requests \in 0..MaxRequests
    /\ decisions \in [Request -> SUBSET {"ack", "deny"}]
    /\ expired \in BOOLEAN /\ snapshot \in 0..MaxRequests
    /\ operatorHold \in BOOLEAN /\ operatorOpen \in BOOLEAN /\ spoilt \in BOOLEAN

\* "L3: Pause until an explicit decision is recorded" (docs/architecture/hra.md:20):
\* while a request is pending the gate is closed, unless the operator opened it
\* himself since, through every failure, cancellation and restart.
PausedUntilDecided == pending # 0 /\ ~operatorOpen => gate # "running"

\* A request stops being pending only by a restart or when the decision that
\* resolves it is in the event log, whatever was retried, refused or cancelled before: handle
\* appends first and clears h.pending last (confirmation_handler.go:274-303).
ResolvedAsRecorded ==
    [][pending # 0 /\ pending' = 0 => Restart \/ answer \in decisions[pending]]_vars

\* A timeout aborts only for the request that timed out: between the watcher's
\* snapshot and its HandleDeny that request may be answered and another made
\* (confirmation_watcher.go:79-97).
TimeoutHitsItsRequest ==
    [][at = "move" /\ author = "watcher" /\ pending' = 0 /\ state' = "aborting"
          => expired]_vars

\* A machine that waits for confirmation can be answered: a request whose Pause
\* or Append failed has taken the machine back where it was, "so a leaked Pause
\* cannot hang the orchestrator" (confirmation_handler.go:22-26).
WaitingIsAnswerable == state = "waiting" /\ at = "free" => pending # 0

\* The gate closed by a request that then failed is open again
\* (confirmation_handler.go:22-26): with nothing pending and no denial, only the
\* operator keeps it closed, unless the rollback's own Resume failed or the
\* daemon restarted in the middle of a request.
NoLeakedPause ==
    /\ at = "free" /\ pending = 0 /\ ~operatorHold /\ ~spoilt
    /\ \A e \in Request : "deny" \notin decisions[e]
    => gate = "running"

\* Every request is answered in the event log in the end, by the operator or by
\* the watcher's timeout (confirmation_watcher.go:61-100), even when the build
\* that asked is gone, whatever is cancelled and however often an append fails;
\* only a restart forgets it (ResolvedAsRecorded).
EveryRequestDecided ==
    \A e \in Request : pending = e ~> (decisions[e] # {} \/ pending # e)

=============================================================================
