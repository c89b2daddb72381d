-------------------------- MODULE ConfirmationProofs --------------------------
(***************************************************************************)
(* Proofs about Confirmation, for any policy, any number of requests and   *)
(* every combination of failures.                                          *)
(*                                                                         *)
(* None of the three properties is inductive: each speaks of a moment when *)
(* nobody holds h.mu, and the proof has to say what is true at each step   *)
(* of the call that holds it.  Holding says that a request under way has   *)
(* nothing pending and room for its event, and that an answer under way    *)
(* has a pending request whose decision is recorded once it is past the    *)
(* append.  GateClosed and GateExplained add what the gate is at each step.*)
(***************************************************************************)
EXTENDS Confirmation, TLAPS

Asking == {"request", "pause", "append", "undoPause", "undoState"}
Answering == {"record", "move", "resume"}

\* What the holder of h.mu may rely on.
Holding ==
    /\ at \in Asking => pending = 0
    /\ at \in {"request", "pause", "append"} => requests < MaxRequests
    /\ at \in Answering => pending # 0
    /\ at \in {"move", "resume"} => answer \in decisions[pending]
    /\ at = "resume" => answer = "ack"

\* The gate from the Pause of a request to the Resume of its ack.
GateClosed ==
    ~operatorOpen /\ (pending # 0 \/ at = "append") => gate # "running"

\* Who keeps the gate closed.
GateExplained ==
    ~spoilt /\ gate # "running" =>
        \/ operatorHold \/ pending # 0 \/ at \in {"append", "undoPause"}
        \/ \E e \in Request : "deny" \in decisions[e]

\* A transition, taken or refused, leaves the machine in one of its states.
LEMMA TransitionTyped ==
    ASSUME state \in State, NEW to, NEW c, NEW a,
           Transition(to) \/ TransitionFails(to, c, a) \/ TryTransition(to, c, a)
    PROVE  state' \in State
BY DEF Transition, TransitionFails, TryTransition, IsLegal, TransitionTable, State

\* The initial state has the declared types, and nobody holds h.mu.
LEMMA InitTyped == Init => TypeOK /\ Holding
<1> SUFFICES ASSUME Init PROVE TypeOK /\ Holding
    OBVIOUS
<1> USE ConfirmationAssumption DEF Init
<1>1. state \in State /\ previous \in State /\ restore \in State
    BY DEF State
<1>2. at \in HandlerPC /\ at = "free" /\ gate \in Gate
    BY DEF HandlerPC, Gate
<1>3. pending \in 0..MaxRequests /\ requests \in 0..MaxRequests
      /\ snapshot \in 0..MaxRequests
    OBVIOUS
<1>4. expired \in BOOLEAN
    OBVIOUS
<1>5. decisions \in [Request -> SUBSET {"ack", "deny"}]
    OBVIOUS
<1>6. operatorHold \in BOOLEAN /\ operatorOpen \in BOOLEAN /\ spoilt \in BOOLEAN
    OBVIOUS
<1>7. Holding
    BY <1>2 DEF Holding, Asking, Answering
<1> QED
    BY <1>1, <1>2, <1>3, <1>4, <1>5, <1>6, <1>7 DEF TypeOK

\* Every step keeps the types and what the holder of h.mu relies on.
LEMMA HoldingInductive == TypeOK /\ Holding /\ [Next]_vars => TypeOK' /\ Holding'
<1> SUFFICES ASSUME TypeOK, Holding, [Next]_vars PROVE TypeOK' /\ Holding'
    OBVIOUS
<1> USE ConfirmationAssumption
        DEF TypeOK, Holding, Asking, Answering, At, Leave, Return, Clear, Keep,
            locals, handlerVars, pendingVars, watcherVars, historyVars
<1>0. "idle" \in State
    BY DEF State
<1>1. ASSUME NEW c \in Class, RequestConfirmation(c) PROVE TypeOK' /\ Holding'
    BY <1>1 DEF RequestConfirmation, HandlerPC
<1>2. ASSUME NEW e \in Request, HandleAck(e) \/ HandleDeny(e)
      PROVE TypeOK' /\ Holding'
    BY <1>2 DEF HandleAck, HandleDeny, Handle, HandlerPC
<1>3. CASE RequestTransition
    BY <1>0, <1>3, TransitionTyped DEF RequestTransition, HandlerPC
<1>4. CASE RequestPause
    BY <1>4 DEF RequestPause, Pause, SaveStateFails, HandlerPC, Gate
<1>5. CASE RequestAppend
  <2>1. /\ pending' \in 0..MaxRequests /\ requests' \in 0..MaxRequests
        /\ restore' \in State /\ previous' \in State /\ at' \in HandlerPC
      BY <1>0, <1>5 DEF RequestAppend, HandlerPC
  <2> QED
      BY <1>5, <2>1 DEF RequestAppend
<1>6. CASE UndoPause
    BY <1>6 DEF UndoPause, Resume, ResumeFails, SaveStateFails, HandlerPC, Gate
<1>7. CASE UndoState
    BY <1>0, <1>7, TransitionTyped DEF UndoState, HandlerPC
<1>8. CASE HandleAppend
  <2>1. pending \in Request
      BY <1>8 DEF HandleAppend, Request
  <2>2. /\ decisions' \in [Request -> SUBSET {"ack", "deny"}]
        /\ at' = "move" => answer \in decisions'[pending]
      BY <1>8, <2>1 DEF HandleAppend
  <2> QED
      BY <1>0, <1>8, <2>2 DEF HandleAppend, HandlerPC
<1>9. CASE HandleTransition
  <2>1. state' \in State
      BY <1>9, TransitionTyped DEF HandleTransition
  <2>2. CASE Clear /\ Leave("move")
    <3>1. pending' \in 0..MaxRequests /\ restore' \in State /\ previous' \in State
        BY <1>0, <2>2
    <3> QED
        BY <1>9, <2>1, <2>2, <3>1 DEF HandleTransition, HandlerPC
  <2>3. CASE Keep /\ ((At("move", "resume") /\ answer = "ack") \/ Leave("move"))
      BY <1>0, <1>9, <2>1, <2>3 DEF HandleTransition, HandlerPC
  <2> QED
      BY <1>9, <2>2, <2>3 DEF HandleTransition
<1>10. CASE HandleResume
  <2>1. gate' \in Gate
      BY <1>10 DEF HandleResume, Resume, ResumeFails, SaveStateFails, Gate
  <2>2. CASE Clear
    <3>1. pending' \in 0..MaxRequests /\ restore' \in State /\ previous' \in State
        BY <1>0, <1>10, <2>2 DEF HandleResume
    <3> QED
        BY <1>10, <2>1, <2>2, <3>1 DEF HandleResume, HandlerPC
  <2>3. CASE Keep
      BY <1>0, <1>10, <2>1, <2>3 DEF HandleResume, HandlerPC
  <2> QED
      BY <1>10, <2>2, <2>3 DEF HandleResume
<1>11. CASE Cancel
    BY <1>11 DEF Cancel
<1>12. CASE Expire \/ Sweep
  <2>1. CASE Expire
      BY <2>1 DEF Expire
  <2>2. CASE Sweep
      BY <2>2 DEF Sweep
  <2> QED
      BY <1>12, <2>1, <2>2
<1>13. CASE WatcherDeny
  <2>1. snapshot' \in 0..MaxRequests
      BY <1>13 DEF WatcherDeny
  <2>2. CASE Handle(snapshot, "deny", "watcher")
      BY <2>1, <2>2 DEF Handle, HandlerPC
  <2>3. CASE UNCHANGED <<state, gate, handlerVars, pendingVars, historyVars>>
      BY <2>1, <2>3
  <2> QED
      BY <1>13, <2>2, <2>3 DEF WatcherDeny
<1>14. CASE BuildMove \/ MainLoopMove
    BY <1>14, TransitionTyped DEF BuildMove, MainLoopMove, Elsewhere
<1>15. CASE OperatorGatePause \/ OperatorGateResume
    BY <1>15, ConfirmationAssumption DEF OperatorGatePause, OperatorGateResume, Elsewhere, Pause, Resume, Gate
<1>16. CASE Restart
  <2>1. /\ pending' \in 0..MaxRequests /\ snapshot' \in 0..MaxRequests
        /\ state' \in State /\ previous' \in State /\ restore' \in State
      BY <1>0, <1>16 DEF Restart
  <2> QED
      BY <1>16, <2>1 DEF Restart, HandlerPC
<1>17. CASE UNCHANGED vars
    BY <1>17 DEF vars
<1> QED
    BY <1>1, <1>2, <1>3, <1>4, <1>5, <1>6, <1>7, <1>8, <1>9, <1>10, <1>11, <1>12,
       <1>13, <1>14, <1>15, <1>16, <1>17
    DEF Next, HandlerStep

\* The types hold, and the holder of h.mu is never surprised.
LEMMA AlwaysHolding == Spec => [](TypeOK /\ Holding)
BY InitTyped, HoldingInductive, PTL DEF Spec

\* The machine, the gate, the handler and the watcher hold in every state what
\* their Go types allow.
THEOREM TypeCorrect == Spec => []TypeOK
BY AlwaysHolding, PTL

-----------------------------------------------------------------------------

\* Every step keeps the gate closed from a request's Pause to its decision.
LEMMA GateClosedInductive ==
    TypeOK /\ Holding /\ GateClosed /\ [Next]_vars => GateClosed'
<1> SUFFICES ASSUME TypeOK, Holding, GateClosed, [Next]_vars PROVE GateClosed'
    OBVIOUS
<1> USE DEF TypeOK, Holding, GateClosed, Asking, Answering, At, Leave, Return, Clear,
            Keep, historyVars
<1>1. CASE \E c \in Class : RequestConfirmation(c)
    BY <1>1 DEF RequestConfirmation, pendingVars
<1>2. CASE \E e \in Request : HandleAck(e) \/ HandleDeny(e)
    BY <1>2 DEF HandleAck, HandleDeny, Handle, pendingVars
<1>3. CASE RequestTransition \/ RequestPause \/ RequestAppend \/ UndoPause \/ UndoState
    BY <1>3
    DEF RequestTransition, RequestPause, RequestAppend, UndoPause, UndoState, Pause,
        SaveStateFails, pendingVars
<1>4. CASE HandleAppend \/ HandleTransition \/ HandleResume
    BY <1>4
    DEF HandleAppend, HandleTransition, HandleResume, ResumeFails, SaveStateFails
<1>5. CASE Cancel \/ Expire \/ Sweep \/ WatcherDeny
    BY <1>5 DEF Cancel, Expire, Sweep, WatcherDeny, Handle, handlerVars, pendingVars
<1>6. CASE BuildMove \/ MainLoopMove \/ Restart \/ UNCHANGED vars
    BY <1>6
    DEF BuildMove, MainLoopMove, Restart, Elsewhere, vars, handlerVars, pendingVars
<1>7. CASE OperatorGatePause \/ OperatorGateResume
    BY <1>7, ConfirmationAssumption DEF OperatorGatePause, OperatorGateResume, Pause, Gate
<1> QED
    BY <1>1, <1>2, <1>3, <1>4, <1>5, <1>6, <1>7 DEF Next, HandlerStep

\* While a request is pending the gate is closed, for any number of requests and
\* through every failure, cancellation and restart, unless the operator opens
\* it himself (confirmation_handler.go:162-228 and 255-305).
THEOREM PausedCorrect == Spec => []PausedUntilDecided
<1>1. Init => GateClosed
    BY DEF Init, GateClosed
<1>2. GateClosed => PausedUntilDecided
    BY DEF GateClosed, PausedUntilDecided
<1> QED
    BY <1>1, <1>2, GateClosedInductive, AlwaysHolding, PTL DEF Spec

-----------------------------------------------------------------------------

\* A step that clears h.pending is the last one of an answer, which is past its
\* append, or a restart.
LEMMA ClearsAfterRecord ==
    TypeOK /\ Holding /\ [Next]_vars
        => (pending # 0 /\ pending' = 0 => Restart \/ answer \in decisions[pending])
<1> SUFFICES ASSUME TypeOK, Holding, [Next]_vars, pending # 0, pending' = 0, ~Restart
             PROVE answer \in decisions[pending]
    OBVIOUS
<1>1. ~UNCHANGED pendingVars
    BY DEF pendingVars
<1>2. RequestAppend \/ HandleAppend \/ HandleTransition \/ HandleResume
    BY <1>1
    DEF Next, HandlerStep, RequestConfirmation, RequestTransition, RequestPause,
        UndoPause, UndoState, HandleAck, HandleDeny, Handle, Cancel, Expire, Sweep,
        WatcherDeny, BuildMove, MainLoopMove, OperatorGatePause, OperatorGateResume,
        Elsewhere, vars
<1>3. at \in {"move", "resume"}
    BY <1>2 DEF RequestAppend, HandleAppend, HandleTransition, HandleResume, At,
                Leave, Return, Clear, Keep, Holding, Asking
<1> QED
    BY <1>3 DEF Holding

\* A request stops being pending only by a restart or when the decision that
\* resolves it is in the event log (handle appends first and clears h.pending last).
THEOREM ResolvedCorrect == Spec => ResolvedAsRecorded
<1>1. TypeOK /\ Holding /\ [Next]_vars
        => [pending # 0 /\ pending' = 0 => Restart \/ answer \in decisions[pending]]_vars
    BY ClearsAfterRecord
<1> QED
    BY <1>1, AlwaysHolding, PTL DEF Spec, ResolvedAsRecorded

-----------------------------------------------------------------------------

\* Every step that leaves the gate closed leaves a reason for it.
LEMMA GateExplainedInductive ==
    TypeOK /\ Holding /\ GateExplained /\ [Next]_vars => GateExplained'
<1> SUFFICES ASSUME TypeOK, Holding, GateExplained, [Next]_vars,
                    ~spoilt', gate' # "running"
             PROVE  \/ operatorHold' \/ pending' # 0 \/ at' \in {"append", "undoPause"}
                    \/ \E e \in Request : "deny" \in decisions'[e]
    BY DEF GateExplained
<1> USE DEF GateExplained, At, Leave, Return, Clear, Keep, historyVars
<1>1. CASE \E c \in Class : RequestConfirmation(c)
    BY <1>1 DEF RequestConfirmation, pendingVars
<1>2. CASE \E e \in Request : HandleAck(e) \/ HandleDeny(e)
    BY <1>2 DEF HandleAck, HandleDeny, Handle, pendingVars
<1>3. CASE RequestTransition \/ RequestPause \/ UndoPause \/ UndoState
    BY <1>3
    DEF RequestTransition, RequestPause, UndoPause, UndoState, Pause, Resume,
        ResumeFails, SaveStateFails, pendingVars
<1>4. CASE RequestAppend
    BY <1>4 DEF RequestAppend, TypeOK
<1>5. CASE HandleAppend
  <2>1. \A e \in Request : decisions[e] \subseteq decisions'[e]
      BY <1>5 DEF HandleAppend, TypeOK
  <2> QED
      BY <1>5, <2>1 DEF HandleAppend
<1>6. CASE HandleTransition
  <2>1. CASE pending' = 0
    <3>1. pending \in Request /\ answer \in decisions[pending]
        BY <1>6 DEF HandleTransition, Holding, Answering, TypeOK, Request
    <3>2. answer = "deny"
        BY <1>6, <2>1, <3>1 DEF HandleTransition, TypeOK, Request
    <3> QED
        BY <1>6, <3>1, <3>2 DEF HandleTransition
  <2> QED
      BY <2>1
<1>7. CASE HandleResume
    BY <1>7 DEF HandleResume, Resume, Holding, Answering
<1>8. CASE Cancel \/ Expire \/ Sweep \/ WatcherDeny
    BY <1>8 DEF Cancel, Expire, Sweep, WatcherDeny, Handle, handlerVars, pendingVars
<1>9. CASE BuildMove \/ MainLoopMove \/ OperatorGatePause \/ OperatorGateResume
           \/ Restart \/ UNCHANGED vars
    BY <1>9
    DEF BuildMove, MainLoopMove, OperatorGatePause, OperatorGateResume, Restart,
        Resume, Elsewhere, vars, handlerVars, pendingVars
<1> QED
    BY <1>1, <1>2, <1>3, <1>4, <1>5, <1>6, <1>7, <1>8, <1>9 DEF Next, HandlerStep

\* A request that failed leaves no pause behind: unless a rollback's own Resume
\* failed or the daemon restarted, a gate that is closed with nothing pending was closed by
\* the operator or by a denial (confirmation_handler.go:22-26).
THEOREM NoLeakCorrect == Spec => []NoLeakedPause
<1>1. Init => GateExplained
    BY DEF Init, GateExplained
<1>2. GateExplained => NoLeakedPause
    BY DEF GateExplained, NoLeakedPause
<1> QED
    BY <1>1, <1>2, GateExplainedInductive, AlwaysHolding, PTL DEF Spec

-----------------------------------------------------------------------------

\* What the watcher relies on although it lets go of h.mu between its snapshot and its
\* HandleDeny: events are numbered once and for all, so that the request of the snapshot,
\* if it is still pending, is the one that was found too old, and the watcher's own
\* call of handle is about a request that is too old until it returns.
Timely ==
    /\ snapshot <= requests /\ pending <= requests
    /\ snapshot # 0 /\ snapshot = pending => expired
    /\ at \in {"record", "move", "resume"} /\ author = "watcher" => expired

\* Every step keeps the watcher's aim.
LEMMA TimelyInductive ==
    TypeOK /\ Holding /\ Timely /\ [Next]_vars => Timely'
<1> SUFFICES ASSUME TypeOK, Holding, Timely, [Next]_vars PROVE Timely'
    OBVIOUS
<1>0. /\ snapshot \in Nat /\ pending \in Nat /\ requests \in Nat
      /\ at \in HandlerPC /\ MaxRequests \in Nat
    BY ConfirmationAssumption DEF TypeOK
<1> USE <1>0 DEF Timely, At, Leave, Return, Clear, Keep, locals, handlerVars,
                 pendingVars, watcherVars
<1>1. CASE \E c \in Class : RequestConfirmation(c)
    BY <1>1 DEF RequestConfirmation
<1>2. CASE \E e \in Request : HandleAck(e) \/ HandleDeny(e)
    BY <1>2 DEF HandleAck, HandleDeny, Handle
<1>3. CASE RequestTransition \/ RequestPause \/ UndoPause \/ UndoState
    BY <1>3 DEF RequestTransition, RequestPause, UndoPause, UndoState
<1>4. CASE RequestAppend
    BY <1>4 DEF RequestAppend
<1>5. CASE HandleAppend
    BY <1>5 DEF HandleAppend
<1>6. CASE HandleTransition
    BY <1>6 DEF HandleTransition
<1>7. CASE HandleResume
    BY <1>7 DEF HandleResume
<1>8. CASE Cancel \/ Expire \/ Sweep
    BY <1>8 DEF Cancel, Expire, Sweep
<1>9. CASE WatcherDeny
    BY <1>9 DEF WatcherDeny, Handle
<1>10. CASE BuildMove \/ MainLoopMove \/ OperatorGatePause \/ OperatorGateResume
            \/ UNCHANGED vars
    BY <1>10
    DEF BuildMove, MainLoopMove, OperatorGatePause, OperatorGateResume, Elsewhere, vars
<1>11. CASE Restart
    BY <1>11 DEF Restart
<1> QED
    BY <1>1, <1>2, <1>3, <1>4, <1>5, <1>6, <1>7, <1>8, <1>9, <1>10, <1>11
    DEF Next, HandlerStep

\* The watcher aborts only for a request that timed out, although another one may be
\* answered and made between its snapshot and its HandleDeny
\* (confirmation_watcher.go:79-97).
THEOREM TimeoutCorrect == Spec => TimeoutHitsItsRequest
<1>1. Init => Timely
    BY ConfirmationAssumption DEF Init, Timely
<1>2. Timely /\ [Next]_vars
        => [at = "move" /\ author = "watcher" /\ pending' = 0 /\ state' = "aborting"
               => expired]_vars
    BY DEF Timely
<1> QED
    BY <1>1, <1>2, TimelyInductive, AlwaysHolding, PTL DEF Spec, TimeoutHitsItsRequest

=============================================================================
