----------------------------- MODULE TeamProofs -----------------------------
(***************************************************************************)
(* Proofs about the team leads, their workers and the board they share     *)
(* (Workforce), and about the reviews of their work (ReviewCadence).       *)
(***************************************************************************)
EXTENDS Workforce, ReviewCadence, FiniteSetTheorems, TLAPS

StepName == {"idle", "plan", "get", "claim", "drain", "turn", "dispatch", "settle", "advance",
             "returned", "joined"} \cup InTransaction
Thread == {NoThread} \cup [of : WorkerRun, n : Nat]
RowState == [status : Status, thread : Thread]
AdvanceTo(r) == IF r = "ok" THEN "review" ELSE "failed"

\* A planner whose session another caller has too.
Shares(w) == w = Planner(w[1]) /\ \E m \in Lead \ {w[1]} : session[m] = session[w[1]]

\* Row e is the one w works at: it holds the thread of w, and only a run in the same
\* session can have settled it meanwhile.
Owns(w, e) ==
    /\ e.status = "in_progress" \/ (Shares(w) /\ e.status \in {"review", "failed"})
    /\ e.thread = ThreadOf(w)

\* The run w has returned with success, and its row e is what it left.
HasDelivered(w) == result[w] = "ok" /\ step[w] \in {"returned", "joined"}
Left(w, e) ==
    /\ e.status = "review" \/ (Shares(w) /\ e.status = "failed")
    /\ w = Planner(w[1]) => e.thread = ThreadOf(w)

WorkShape ==
    /\ board \in [BoardRow -> RowState] /\ prompts \subseteq WorkerRun
    /\ step \in [Actor -> StepName] /\ behind \subseteq Actor
    /\ result \in [Actor -> Result] /\ runs \in [Lead -> Nat] /\ restarts \in Nat
    /\ session \in [Lead -> Lead]

\* A transaction that nothing has overtaken still reads what it read.
SnapshotsHold ==
    \A a \in Actor \ behind :
        /\ step[a] = "claim_write" => board[RowOf(a)].status = "pending"
        /\ step[a] = "advance_write" => IsValidTransition(board[RowOf(a)].status, AdvanceTo(result[a]))

\* A run at work owns its row.
RunsOwn == \A w \in WorkerRun : step[w] \in AtWork => Owns(w, board[RowOf(w)])

\* The planner runs while its lead plans, the children while it dispatches.
LeadPhases ==
    \A l \in Lead :
        /\ step[l] # "plan" => step[Planner(l)] \in {"idle", "returned"}
        /\ step[l] # "dispatch" => \A w \in Children(l) : step[w] \in {"idle", "joined"}

\* A run that has succeeded has left its row in review, and so has every run of a lead
\* that has; a planner's row can then only fail, by the hand of a run in its session.
SuccessTrue ==
    /\ \A w \in WorkerRun :
           /\ result[w] = "ok" => step[w] \in {"advance", "advance_write", "returned", "joined"}
           /\ HasDelivered(w) => Left(w, board[RowOf(w)])
    /\ \A l \in Lead :
           result[l] = "ok" => HasDelivered(Planner(l)) /\ \A c \in Child : board[c].status = "review"

\* Of the planners' runs at most one has succeeded.
OneDelivery == \A l, m \in Lead : l # m => ~(HasDelivered(Planner(l)) /\ HasDelivered(Planner(m)))

WorkInv == WorkShape /\ SnapshotsHold /\ RunsOwn /\ LeadPhases /\ SuccessTrue /\ OneDelivery

-----------------------------------------------------------------------------

\* Who is who.
LEMMA ActorsAre ==
  /\ \A l \in Lead : /\ l \in Actor /\ l \notin WorkerRun /\ RowOf(l) = "parent"
                     /\ Planner(l) \in WorkerRun /\ Planner(l)[1] = l /\ RowOf(Planner(l)) = "planner"
                     /\ Planner(l) \notin Children(l)
  /\ \A l \in Lead : \A w \in Children(l) : w \in WorkerRun /\ w[1] = l /\ w # Planner(w[1])
  /\ \A w \in WorkerRun : /\ w \in Actor /\ w \notin Lead /\ w[1] \in Lead /\ RowOf(w) = w[2]
                          /\ RowOf(w) \in BoardRow \ {"parent"}
                          /\ w = Planner(w[1]) \/ w \in Children(w[1])
                          /\ w = <<w[1], w[2]>>
  /\ \A l \in Lead : \A r \in BoardRow \ {"parent"} :
         \E w \in Children(l) \cup {Planner(l)} : RowOf(w) = r
  /\ "parent" \in BoardRow /\ "planner" \in BoardRow
<1>1. ASSUME NEW l \in Lead
      PROVE  /\ l \in Actor /\ l \notin WorkerRun /\ RowOf(l) = "parent"
             /\ Planner(l) \in WorkerRun /\ Planner(l)[1] = l /\ RowOf(Planner(l)) = "planner"
             /\ Planner(l) \notin Children(l)
  <2>1. l \in Actor /\ l \notin WorkerRun /\ RowOf(l) = "parent"
    BY WorkforceAssumption DEF Actor, RowOf
  <2>2. Planner(l) \in WorkerRun /\ Planner(l)[1] = l /\ Planner(l)[2] = "planner"
    BY DEF WorkerRun, Planner
  <2>3. Planner(l) \notin Lead
    BY <2>2, WorkforceAssumption
  <2>4. \A c \in Child : Planner(l) # <<l, c>>
    BY WorkforceAssumption DEF Planner
  <2> QED BY <2>1, <2>2, <2>3, <2>4 DEF RowOf, Children
<1>2. ASSUME NEW l \in Lead, NEW w \in Children(l) PROVE w \in WorkerRun /\ w[1] = l /\ w # Planner(w[1])
  <2>1. PICK c \in Child : w = <<l, c>>
    BY DEF Children
  <2> QED BY <2>1, WorkforceAssumption DEF WorkerRun, Planner
<1>3. ASSUME NEW w \in WorkerRun
      PROVE  /\ w \in Actor /\ w \notin Lead /\ w[1] \in Lead /\ RowOf(w) = w[2]
             /\ RowOf(w) \in BoardRow \ {"parent"}
             /\ w = Planner(w[1]) \/ w \in Children(w[1])
             /\ w = <<w[1], w[2]>>
  <2>1. w[1] \in Lead /\ w[2] \in Child \cup {"planner"} /\ w = <<w[1], w[2]>>
    BY DEF WorkerRun
  <2>2. w \in Actor /\ w \notin Lead /\ RowOf(w) = w[2]
    BY WorkforceAssumption DEF Actor, RowOf
  <2>3. w = Planner(w[1]) \/ w \in Children(w[1])
    BY <2>1 DEF Planner, Children
  <2> QED BY <2>1, <2>2, <2>3, WorkforceAssumption DEF BoardRow
<1>4. ASSUME NEW l \in Lead, NEW r \in BoardRow \ {"parent"}
      PROVE  \E w \in Children(l) \cup {Planner(l)} : RowOf(w) = r
  <2>1. CASE r = "planner"
    BY <1>1, <2>1
  <2>2. CASE r \in Child
    <3>1. <<l, r>> \in Children(l) /\ <<l, r>>[2] = r
      BY <2>2 DEF Children
    <3> QED BY <1>2, <1>3, <3>1
  <2> QED BY <2>1, <2>2 DEF BoardRow
<1> QED BY <1>1, <1>2, <1>3, <1>4 DEF BoardRow

LEMMA ThreadIs ==
  ASSUME WorkShape
  PROVE  \A a \in Actor : ThreadOf(a) \in Thread
<1> SUFFICES ASSUME NEW a \in Actor PROVE ThreadOf(a) \in Thread
  OBVIOUS
<1>1. ASSUME NEW l \in Lead PROVE Planner(session[l]) \in WorkerRun
  <2>1. session[l] \in Lead
    BY DEF WorkShape
  <2> QED BY <2>1, ActorsAre
<1>2. CASE a \in Lead
  BY <1>1, <1>2 DEF ThreadOf, Thread, WorkShape
<1>3. CASE a \in WorkerRun
  <2>1. a \notin Lead /\ a[1] \in Lead
    BY <1>3, ActorsAre
  <2> QED BY <1>1, <1>3, <2>1 DEF ThreadOf, Thread, WorkShape
<1> QED BY <1>2, <1>3 DEF Actor

\* Two runs at one row have one thread only if they are planners in one session.
LEMMA ThreadMates ==
  ASSUME WorkShape, NEW v \in WorkerRun, NEW w \in WorkerRun, v # w, RowOf(v) = RowOf(w),
         ThreadOf(v) = ThreadOf(w)
  PROVE  SameSession(v, w) /\ Shares(v) /\ Shares(w)
<1>1. /\ v \notin Lead /\ w \notin Lead /\ v[1] \in Lead /\ w[1] \in Lead /\ v[2] = w[2]
      /\ v = <<v[1], v[2]>> /\ w = <<w[1], w[2]>> /\ v[1] # w[1]
  BY ActorsAre
<1>2. (v = Planner(v[1])) <=> (w = Planner(w[1]))
  BY <1>1 DEF Planner
<1>3. CASE v = Planner(v[1]) /\ w = Planner(w[1])
  <2>1. /\ ThreadOf(v) = [of |-> Planner(session[v[1]]), n |-> restarts]
        /\ ThreadOf(w) = [of |-> Planner(session[w[1]]), n |-> restarts]
    BY <1>1, <1>3 DEF ThreadOf
  <2>2. Planner(session[v[1]]) = Planner(session[w[1]])
    <3>1. \A x, y, k : [of |-> x, n |-> k] = [of |-> y, n |-> k] => x = y
      OBVIOUS
    <3>2. [of |-> Planner(session[v[1]]), n |-> restarts] = [of |-> Planner(session[w[1]]), n |-> restarts]
      BY <2>1, Zenon
    <3> QED BY <3>1, <3>2, Zenon
  <2>3. session[v[1]] = session[w[1]]
    BY <2>2 DEF Planner
  <2> QED BY <1>1, <1>3, <2>3 DEF SameSession, Shares
<1>4. CASE v # Planner(v[1]) /\ w # Planner(w[1])
  <2>1. ThreadOf(v) = [of |-> v, n |-> runs[v[1]]] /\ ThreadOf(w) = [of |-> w, n |-> runs[w[1]]]
    BY <1>1, <1>4 DEF ThreadOf
  <2>2. \A x, y, j, k : [of |-> x, n |-> j] = [of |-> y, n |-> k] => x = y
    OBVIOUS
  <2>3. [of |-> v, n |-> runs[v[1]]] = [of |-> w, n |-> runs[w[1]]]
    BY <2>1, Zenon
  <2>4. v = w
    BY <2>2, <2>3, Zenon
  <2> QED BY <2>4
<1> QED BY <1>2, <1>3, <1>4

LEMMA OneOwner == WorkInv => OneWorkerPerRow
<1> SUFFICES ASSUME WorkInv, NEW v \in WorkerRun, NEW w \in WorkerRun, RowOf(v) = RowOf(w), v # w,
                    step[v] \in AtWork, step[w] \in AtWork
             PROVE  SameSession(v, w)
  BY DEF OneWorkerPerRow
<1>1. board[RowOf(v)].thread = ThreadOf(v) /\ board[RowOf(w)].thread = ThreadOf(w)
  BY DEF WorkInv, RunsOwn, Owns
<1> QED BY <1>1, ThreadMates DEF WorkInv

LEMMA WorkInvSound == WorkInv => WorkSound
<1> SUFFICES ASSUME WorkInv PROVE LeadHonest
  BY OneOwner DEF WorkSound
<1> SUFFICES ASSUME NEW l \in Lead, result[l] = "ok"
             PROVE  /\ \A c \in Child : board[c].status = "review"
                    /\ \/ board["planner"].status = "review"
                       \/ /\ board["planner"].status = "failed"
                          /\ \E m \in Lead \ {l} : session[m] = session[l]
                    /\ \A m \in Lead \ {l} : ~Succeeded(m)
  BY DEF LeadHonest, Succeeded
<1>1. HasDelivered(Planner(l)) /\ \A c \in Child : board[c].status = "review"
  BY DEF WorkInv, SuccessTrue
<1>2. Left(Planner(l), board["planner"]) /\ Planner(l)[1] = l
  BY <1>1, ActorsAre DEF WorkInv, SuccessTrue
<1>3. ASSUME NEW m \in Lead \ {l}, Succeeded(m) PROVE FALSE
  <2>1. HasDelivered(Planner(m))
    BY <1>3 DEF Succeeded, WorkInv, SuccessTrue
  <2> QED BY <1>1, <2>1 DEF WorkInv, OneDelivery
<1> QED BY <1>1, <1>2, <1>3 DEF Left, Shares

LEMMA WorkInitInv == WorkforceInit => WorkInv
<1> SUFFICES ASSUME WorkforceInit PROVE WorkInv
  OBVIOUS
<1>1. WorkShape
  <2>1. NoThread \in Thread
    BY DEF Thread
  <2>2. board \in [BoardRow -> RowState]
    BY <2>1 DEF WorkforceInit, RowState, Status
  <2> QED BY <2>2 DEF WorkforceInit, WorkShape, StepName, Result
<1>2. SnapshotsHold /\ RunsOwn
  BY ActorsAre DEF WorkforceInit, SnapshotsHold, RunsOwn, AtWork
<1>3. LeadPhases /\ SuccessTrue /\ OneDelivery
  BY ActorsAre DEF WorkforceInit, LeadPhases, SuccessTrue, OneDelivery, HasDelivered
<1> QED BY <1>1, <1>2, <1>3 DEF WorkInv

-----------------------------------------------------------------------------

\* A run at work changes the row it owns only so: from in progress to settled, or from
\* review to failed.
Settling(e, f) ==
    /\ f.thread = e.thread
    /\ \/ e.status = "in_progress" /\ f.status \in {"review", "failed"}
       \/ e.status = "review" /\ f.status = "failed"

\* A step of one actor: it goes to step p with result r, and leaves its row as e.  What it
\* writes overtakes the other transactions, and it takes no row from a run at work but
\* one in its session.
LEMMA ActorStep ==
  ASSUME WorkInv, NEW a \in Actor, NEW p \in StepName, NEW r \in Result, NEW e \in RowState,
         step' = [step EXCEPT ![a] = p], result' = [result EXCEPT ![a] = r],
         board' = [board EXCEPT ![RowOf(a)] = e], UNCHANGED <<runs, restarts, session>>,
         prompts' \subseteq WorkerRun, behind' \subseteq Actor, behind \ {a} \subseteq behind',
         e = board[RowOf(a)] \/ Commits(a),
         e # board[RowOf(a)] =>
             \/ a \in Lead \/ board[RowOf(a)].status \in {"absent", "pending"}
             \/ step[a] \in AtWork /\ Settling(board[RowOf(a)], e),
         a \notin behind' /\ p = "claim_write" => e.status = "pending",
         a \notin behind' /\ p = "advance_write" => IsValidTransition(e.status, AdvanceTo(r)),
         a \in WorkerRun /\ p \in AtWork => Owns(a, e),
         a \in WorkerRun /\ r = "ok" =>
             /\ p \in {"advance", "advance_write", "returned", "joined"}
             /\ p \in {"returned", "joined"} =>
                    Left(a, e) /\ (a # Planner(a[1]) \/ board[RowOf(a)].status = "in_progress"),
         a \in WorkerRun => a # Planner(a[1]) \/ step[a] \notin {"returned", "joined"},
         a \in Lead /\ r = "ok" => HasDelivered(Planner(a)) /\ \A c \in Child : board[c].status = "review",
         a \in Lead => /\ p # "plan" => step[Planner(a)] \in {"idle", "returned"}
                       /\ p # "dispatch" => \A w \in Children(a) : step[w] \in {"idle", "joined"},
         a \in WorkerRun => \/ a = Planner(a[1]) /\ (p \in {"idle", "returned"} \/ step[a[1]] = "plan")
                            \/ a # Planner(a[1]) /\ (p \in {"idle", "joined"} \/ step[a[1]] = "dispatch")
  PROVE  WorkInv'
<1>1. WorkShape /\ SnapshotsHold /\ RunsOwn /\ LeadPhases /\ SuccessTrue /\ OneDelivery
  BY DEF WorkInv
<1>2. RowOf(a) \in BoardRow
  BY ActorsAre DEF Actor
<1>3. /\ step'[a] = p /\ result'[a] = r /\ board'[RowOf(a)] = e
      /\ \A b \in Actor : b # a => step'[b] = step[b] /\ result'[b] = result[b]
      /\ \A q \in BoardRow : q # RowOf(a) => board'[q] = board[q]
  BY <1>1, <1>2 DEF WorkShape
<1>4. WorkShape'
  BY <1>1, <1>2 DEF WorkShape
<1>5. SnapshotsHold'
  <2> SUFFICES ASSUME NEW b \in Actor, b \notin behind'
               PROVE  /\ step'[b] = "claim_write" => board'[RowOf(b)].status = "pending"
                      /\ step'[b] = "advance_write" =>
                             IsValidTransition(board'[RowOf(b)].status, AdvanceTo(result'[b]))
    BY DEF SnapshotsHold, RowOf
  <2>1. CASE b = a
    BY <1>3, <2>1
  <2>2. CASE b # a /\ e = board[RowOf(a)]
    <3>1. b \notin behind /\ board'[RowOf(b)] = board[RowOf(b)]
      BY <1>1, <1>2, <1>3, <2>2 DEF WorkShape
    <3> QED BY <1>1, <1>3, <2>2, <3>1 DEF SnapshotsHold
  <2>3. CASE b # a /\ Commits(a)
    <3>1. step[b] \notin InTransaction
      BY <2>3 DEF Commits
    <3> QED BY <1>3, <2>3, <3>1 DEF InTransaction
  <2> QED BY <2>1, <2>2, <2>3
<1>6. ASSUME NEW w \in WorkerRun, w # a, board'[RowOf(w)] # board[RowOf(w)],
             step[w] \in AtWork \/ HasDelivered(w)
      PROVE  /\ a \in WorkerRun /\ RowOf(w) = RowOf(a) /\ board'[RowOf(w)] = e
             /\ step[a] \in AtWork /\ Settling(board[RowOf(w)], e) /\ Owns(a, board[RowOf(w)])
  <2>1. RowOf(w) \in BoardRow \ {"parent"}
    BY ActorsAre
  <2>2. RowOf(w) = RowOf(a) /\ board'[RowOf(w)] = e /\ e # board[RowOf(a)]
    BY <1>3, <1>6, <2>1
  <2>3. a \in WorkerRun /\ a \notin Lead
    BY <2>1, <2>2, ActorsAre DEF Actor
  <2>4. board[RowOf(w)].status \notin {"absent", "pending"}
    BY <1>1, <1>6 DEF RunsOwn, SuccessTrue, Owns, Left
  <2>5. step[a] \in AtWork /\ Settling(board[RowOf(a)], e)
    BY <2>2, <2>3, <2>4
  <2> QED BY <1>1, <2>2, <2>3, <2>5 DEF RunsOwn
<1>7. RunsOwn'
  <2> SUFFICES ASSUME NEW w \in WorkerRun, step'[w] \in AtWork
               PROVE  Owns(w, board'[RowOf(w)])
    BY DEF RunsOwn, Owns, Shares, RowOf, ThreadOf
  <2>1. CASE w = a
    BY <1>3, <2>1
  <2>2. CASE w # a
    <3>1. step[w] \in AtWork /\ Owns(w, board[RowOf(w)])
      BY <1>1, <1>3, <2>2, ActorsAre DEF RunsOwn
    <3>2. CASE board'[RowOf(w)] = board[RowOf(w)]
      BY <3>1, <3>2
    <3>3. CASE board'[RowOf(w)] # board[RowOf(w)]
      <4>1. /\ a \in WorkerRun /\ RowOf(w) = RowOf(a) /\ board'[RowOf(w)] = e
            /\ Settling(board[RowOf(w)], e) /\ Owns(a, board[RowOf(w)])
        BY <1>6, <2>2, <3>1, <3>3
      <4>2. ThreadOf(w) = ThreadOf(a)
        BY <3>1, <4>1 DEF Owns
      <4>3. Shares(w)
        BY <1>1, <2>2, <4>1, <4>2, ThreadMates
      <4> QED BY <3>1, <4>1, <4>3 DEF Owns, Settling
    <3> QED BY <3>2, <3>3
  <2> QED BY <2>1, <2>2
<1>8. LeadPhases'
  <2> SUFFICES ASSUME NEW l \in Lead
               PROVE  /\ step'[l] # "plan" => step'[Planner(l)] \in {"idle", "returned"}
                      /\ step'[l] # "dispatch" => \A w \in Children(l) : step'[w] \in {"idle", "joined"}
    BY DEF LeadPhases
  <2>1. /\ step[l] # "plan" => step[Planner(l)] \in {"idle", "returned"}
        /\ step[l] # "dispatch" => \A w \in Children(l) : step[w] \in {"idle", "joined"}
    BY <1>1 DEF LeadPhases
  <2>2. CASE a = l
    <3>1. Planner(l) # a /\ Planner(l) \in Actor /\ \A w \in Children(l) : w # a /\ w \in Actor
      BY <2>2, ActorsAre
    <3> QED BY <1>3, <2>2, <3>1
  <2>3. CASE a # l
    <3>1. step'[l] = step[l]
      BY <1>3, <2>3, ActorsAre
    <3>2. step[l] # "plan" => step'[Planner(l)] \in {"idle", "returned"}
      <4>1. CASE a = Planner(l)
        BY <1>3, <4>1, ActorsAre
      <4>2. CASE a # Planner(l)
        BY <1>3, <2>1, <4>2, ActorsAre
      <4> QED BY <4>1, <4>2
    <3>3. ASSUME NEW w \in Children(l), step[l] # "dispatch" PROVE step'[w] \in {"idle", "joined"}
      <4>1. CASE a = w
        BY <1>3, <3>3, <4>1, ActorsAre
      <4>2. CASE a # w
        BY <1>3, <2>1, <3>3, <4>2, ActorsAre
      <4> QED BY <4>1, <4>2
    <3> QED BY <3>1, <3>2, <3>3
  <2> QED BY <2>2, <2>3
<1>9. \A c \in Child : board[c].status = "review" => board'[c].status = "review"
  <2> SUFFICES ASSUME NEW c \in Child, board[c].status = "review", c = RowOf(a), e # board[c]
               PROVE  FALSE
    BY <1>3 DEF BoardRow
  <2>1. a \in WorkerRun /\ a \notin Lead
    BY ActorsAre, WorkforceAssumption DEF Actor
  <2>2. step[a] \in AtWork /\ Owns(a, board[c])
    BY <1>1, <2>1 DEF RunsOwn
  <2>3. a = Planner(a[1])
    BY <2>2 DEF Owns, Shares
  <2>4. RowOf(a) = "planner"
    BY <2>1, <2>3, ActorsAre
  <2> QED BY <2>4, WorkforceAssumption
<1>10. \A w \in WorkerRun : w # a => (HasDelivered(w)' <=> HasDelivered(w))
  BY <1>3, ActorsAre DEF HasDelivered
<1>11. ASSUME NEW w \in WorkerRun, HasDelivered(w)' PROVE Left(w, board'[RowOf(w)])
  <2>1. CASE w = a
    BY <1>3, <1>11, <2>1 DEF HasDelivered
  <2>2. CASE w # a
    <3>1. HasDelivered(w) /\ Left(w, board[RowOf(w)])
      BY <1>1, <1>10, <1>11, <2>2 DEF SuccessTrue
    <3>2. CASE board'[RowOf(w)] = board[RowOf(w)]
      BY <3>1, <3>2
    <3>3. CASE board'[RowOf(w)] # board[RowOf(w)]
      <4>1. /\ a \in WorkerRun /\ RowOf(w) = RowOf(a) /\ board'[RowOf(w)] = e
            /\ Settling(board[RowOf(w)], e) /\ Owns(a, board[RowOf(w)])
        BY <1>6, <2>2, <3>1, <3>3
      <4>2. board[RowOf(w)].status = "review" /\ e.status = "failed"
        BY <3>1, <4>1 DEF Left, Settling
      <4>3. a = Planner(a[1])
        BY <4>1, <4>2 DEF Owns, Shares
      <4>4. w = Planner(w[1])
        <5>1. RowOf(a) = "planner"
          BY <4>1, <4>3, ActorsAre
        <5> QED BY <4>1, <5>1, ActorsAre DEF Planner
      <4>5. ThreadOf(w) = ThreadOf(a)
        BY <3>1, <4>1, <4>4 DEF Owns, Left
      <4>6. Shares(w)
        BY <1>1, <2>2, <4>1, <4>5, ThreadMates
      <4> QED BY <3>1, <4>1, <4>2, <4>6 DEF Left, Settling
    <3> QED BY <3>2, <3>3
  <2> QED BY <2>1, <2>2
<1>12. SuccessTrue'
  <2>1. ASSUME NEW w \in WorkerRun
        PROVE  /\ result'[w] = "ok" => step'[w] \in {"advance", "advance_write", "returned", "joined"}
               /\ HasDelivered(w)' => Left(w, board'[RowOf(w)])
    <3>1. CASE w = a
      BY <1>3, <1>11, <3>1
    <3>2. CASE w # a
      <4>1. step'[w] = step[w] /\ result'[w] = result[w]
        BY <1>3, <3>2, ActorsAre
      <4> QED BY <1>1, <1>11, <4>1 DEF SuccessTrue
    <3> QED BY <3>1, <3>2
  <2>2. ASSUME NEW l \in Lead, result'[l] = "ok"
        PROVE  HasDelivered(Planner(l))' /\ \A c \in Child : board'[c].status = "review"
    <3>1. HasDelivered(Planner(l)) /\ \A c \in Child : board[c].status = "review"
      <4>1. CASE l = a
        BY <1>3, <2>2, <4>1
      <4>2. CASE l # a
        BY <1>1, <1>3, <2>2, <4>2, ActorsAre DEF SuccessTrue
      <4> QED BY <4>1, <4>2
    <3>2. Planner(l) # a
      BY <3>1, ActorsAre DEF HasDelivered
    <3> QED BY <1>9, <1>10, <3>1, <3>2, ActorsAre
  <2> QED BY <2>1, <2>2 DEF SuccessTrue, Left, Shares, ThreadOf, RowOf
<1>13. OneDelivery'
  <2> SUFFICES ASSUME NEW l \in Lead, NEW m \in Lead, l # m, HasDelivered(Planner(l))', HasDelivered(Planner(m))'
               PROVE  FALSE
    BY DEF OneDelivery
  <2>1. /\ Planner(l) \in WorkerRun /\ Planner(m) \in WorkerRun /\ Planner(l) # Planner(m)
        /\ RowOf(Planner(l)) = "planner" /\ RowOf(Planner(m)) = "planner"
    BY ActorsAre
  <2>2. ASSUME NEW v \in WorkerRun, NEW w \in WorkerRun, RowOf(v) = RowOf(w), w = a, v # a,
               a = Planner(a[1]), HasDelivered(v)', HasDelivered(w)'
        PROVE  FALSE
    <3>1. board[RowOf(a)].status = "in_progress"
      BY <1>3, <2>2 DEF HasDelivered
    <3>2. Left(v, board[RowOf(v)])
      BY <1>1, <1>10, <2>2 DEF SuccessTrue
    <3> QED BY <2>2, <3>1, <3>2 DEF Left
  <2>3. CASE Planner(l) = a
    BY <2>1, <2>2, <2>3, ActorsAre
  <2>4. CASE Planner(m) = a
    BY <2>1, <2>2, <2>4, ActorsAre
  <2>5. CASE Planner(l) # a /\ Planner(m) # a
    BY <1>1, <1>10, <2>1, <2>5 DEF OneDelivery
  <2> QED BY <2>3, <2>4, <2>5
<1> QED BY <1>4, <1>5, <1>7, <1>8, <1>12, <1>13 DEF WorkInv

\* A step of one actor that leaves the board alone.
LEMMA QuietWorkStep ==
  ASSUME WorkInv, NEW a \in Actor, NEW p \in StepName, NEW r \in Result,
         step' = [step EXCEPT ![a] = p], result' = [result EXCEPT ![a] = r],
         UNCHANGED <<board, runs, restarts, session>>,
         prompts' \subseteq WorkerRun, behind' \subseteq Actor, behind \ {a} \subseteq behind',
         a \notin behind' /\ p = "claim_write" => board[RowOf(a)].status = "pending",
         a \notin behind' /\ p = "advance_write" =>
             IsValidTransition(board[RowOf(a)].status, AdvanceTo(r)),
         a \in WorkerRun /\ p \in AtWork => Owns(a, board[RowOf(a)]),
         a \in WorkerRun /\ r = "ok" =>
             /\ p \in {"advance", "advance_write", "returned", "joined"}
             /\ p \in {"returned", "joined"} =>
                    Left(a, board[RowOf(a)]) /\ (a # Planner(a[1]) \/ board[RowOf(a)].status = "in_progress"),
         a \in WorkerRun => a # Planner(a[1]) \/ step[a] \notin {"returned", "joined"},
         a \in Lead /\ r = "ok" => HasDelivered(Planner(a)) /\ \A c \in Child : board[c].status = "review",
         a \in Lead => /\ p # "plan" => step[Planner(a)] \in {"idle", "returned"}
                       /\ p # "dispatch" => \A w \in Children(a) : step[w] \in {"idle", "joined"},
         a \in WorkerRun => \/ a = Planner(a[1]) /\ (p \in {"idle", "returned"} \/ step[a[1]] = "plan")
                            \/ a # Planner(a[1]) /\ (p \in {"idle", "joined"} \/ step[a[1]] = "dispatch")
  PROVE  WorkInv'
<1> DEFINE e == board[RowOf(a)]
<1>1. e \in RowState /\ board' = [board EXCEPT ![RowOf(a)] = e]
  BY ActorsAre DEF Actor, WorkInv, WorkShape
<1>2. e = board[RowOf(a)]
  OBVIOUS
<1> HIDE DEF e
<1> QED BY <1>1, <1>2, ActorStep

\* A worker that is at work has its lead waiting for it.
LEMMA Supervised ==
  ASSUME WorkInv, NEW w \in WorkerRun, step[w] \notin {"idle", "returned", "joined"}
  PROVE  \/ w = Planner(w[1]) /\ step[w[1]] = "plan"
         \/ w # Planner(w[1]) /\ step[w[1]] = "dispatch"
BY ActorsAre DEF WorkInv, LeadPhases

\* A step of a worker at work that leaves the board alone.
LEMMA WorkerQuiet ==
  ASSUME WorkInv, NEW w \in WorkerRun, NEW p \in StepName, NEW r \in Result,
         step[w] \notin {"idle", "returned", "joined"},
         step' = [step EXCEPT ![w] = p],
         (result' = [result EXCEPT ![w] = r]) \/ (UNCHANGED result /\ r = result[w]),
         UNCHANGED <<board, runs, restarts, session>>,
         prompts' \subseteq WorkerRun, behind' \subseteq Actor, behind \ {w} \subseteq behind',
         p = "claim_write" => board[RowOf(w)].status = "pending",
         p = "advance_write" => IsValidTransition(board[RowOf(w)].status, AdvanceTo(r)),
         p \in AtWork => step[w] \in AtWork \/ Owns(w, board[RowOf(w)]),
         r = "ok" => p \in {"advance", "advance_write"}
  PROVE  WorkInv'
<1>1. w \in Actor /\ w \notin Lead
  BY ActorsAre
<1>2. result' = [result EXCEPT ![w] = r]
  BY <1>1 DEF WorkInv, WorkShape
<1>3. p \in AtWork => Owns(w, board[RowOf(w)])
  BY DEF WorkInv, RunsOwn
<1>4. \/ w = Planner(w[1]) /\ (p \in {"idle", "returned"} \/ step[w[1]] = "plan")
      \/ w # Planner(w[1]) /\ (p \in {"idle", "joined"} \/ step[w[1]] = "dispatch")
  BY Supervised
<1> QED BY <1>1, <1>2, <1>3, <1>4, QuietWorkStep

\* A step of a lead that leaves the board alone and neither starts nor ends the planning
\* or the dispatch of the children.
LEMMA LeadQuiet ==
  ASSUME WorkInv, NEW l \in Lead, NEW p \in StepName, NEW r \in Result,
         step[l] \notin {"plan", "dispatch"}, p # "plan",
         step' = [step EXCEPT ![l] = p],
         (result' = [result EXCEPT ![l] = r]) \/ (UNCHANGED result /\ r = result[l]),
         UNCHANGED <<board, runs, restarts, session>>,
         prompts' \subseteq WorkerRun, behind' \subseteq Actor, behind \ {l} \subseteq behind',
         p = "claim_write" => board[RowOf(l)].status = "pending",
         p = "advance_write" => IsValidTransition(board[RowOf(l)].status, AdvanceTo(r)),
         r = "ok" => r = result[l]
  PROVE  WorkInv'
<1>1. l \in Actor /\ l \notin WorkerRun
  BY ActorsAre
<1>2. result' = [result EXCEPT ![l] = r]
  BY <1>1 DEF WorkInv, WorkShape
<1>3. r = "ok" => HasDelivered(Planner(l)) /\ \A c \in Child : board[c].status = "review"
  BY DEF WorkInv, SuccessTrue
<1>4. step[Planner(l)] \in {"idle", "returned"} /\ \A w \in Children(l) : step[w] \in {"idle", "joined"}
  BY DEF WorkInv, LeadPhases
<1> QED BY <1>1, <1>2, <1>3, <1>4, QuietWorkStep

LEMMA BehindGrows ==
  ASSUME WorkInv, NEW a \in Actor, Commits(a) \/ Snapshots(a) \/ UNCHANGED behind
  PROVE  behind' \subseteq Actor /\ behind \ {a} \subseteq behind'
BY DEF WorkInv, WorkShape, Commits, Snapshots

LEMMA ResultTyped ==
  ASSUME WorkInv, NEW a \in Actor PROVE result[a] \in Result /\ step[a] \in StepName
BY DEF WorkInv, WorkShape

\* A worker whose run has not come to its Advance has not succeeded.
LEMMA NotYet ==
  ASSUME WorkInv, NEW w \in WorkerRun, result[w] = "ok"
  PROVE  step[w] \in {"advance", "advance_write", "returned", "joined"}
BY DEF WorkInv, SuccessTrue

LEMMA ClaimTaskInv == ASSUME WorkInv, NEW w \in WorkerRun, ClaimTask(w) PROVE WorkInv'
<1>1. w \in Actor /\ step[w] = "get" /\ result[w] \in Result /\ result[w] # "ok"
  BY ActorsAre, ResultTyped, NotYet DEF ClaimTask
<1>2. /\ UNCHANGED <<board, prompts, behind, runs, restarts, session>> /\ prompts' \subseteq WorkerRun
      /\ behind' \subseteq Actor /\ behind \ {w} \subseteq behind'
  BY DEF ClaimTask, WorkInv, WorkShape
<1>3. CASE /\ board[RowOf(w)] = [status |-> "in_progress", thread |-> ThreadOf(w)]
           /\ To(w, "drain") /\ UNCHANGED result
  <2>1. "drain" \in StepName /\ step' = [step EXCEPT ![w] = "drain"] /\ Owns(w, board[RowOf(w)])
    BY <1>3 DEF StepName, To, Owns
  <2> QED BY <1>1, <1>2, <1>3, <2>1, WorkerQuiet
<1>4. CASE To(w, "claim") /\ UNCHANGED result
  <2>1. "claim" \in StepName /\ "claim" \notin AtWork /\ step' = [step EXCEPT ![w] = "claim"]
    BY <1>4 DEF StepName, AtWork, To
  <2> QED BY <1>1, <1>2, <1>4, <2>1, WorkerQuiet
<1>5. CASE Returns(w, "error")
  <2>1. /\ "returned" \in StepName /\ "returned" \notin AtWork /\ "error" \in Result
        /\ step' = [step EXCEPT ![w] = "returned"] /\ result' = [result EXCEPT ![w] = "error"]
    BY <1>5 DEF StepName, AtWork, Result, Returns
  <2> QED BY <1>1, <1>2, <1>5, <2>1, WorkerQuiet
<1> QED BY <1>3, <1>4, <1>5 DEF ClaimTask

LEMMA DrainInv == ASSUME WorkInv, NEW w \in WorkerRun, DrainByWorker(w) PROVE WorkInv'
<1>1. /\ w \in Actor /\ step[w] \in {"drain", "drain_write"} /\ step[w] \in AtWork
      /\ result[w] \in Result /\ result[w] # "ok"
  BY ActorsAre, ResultTyped, NotYet DEF DrainByWorker, AtWork
<1>2. UNCHANGED <<board, runs, restarts, session>> /\ prompts' \subseteq WorkerRun
  BY DEF DrainByWorker, WorkInv, WorkShape
<1>3. behind' \subseteq Actor /\ behind \ {w} \subseteq behind'
  BY <1>1, BehindGrows DEF DrainByWorker
<1>4. "turn" \in StepName /\ "drain_write" \in StepName /\ "advance" \in StepName /\ "error" \in Result
  BY DEF StepName, Result, InTransaction
<1>5. CASE UNCHANGED result /\ (To(w, "turn") \/ To(w, "drain_write"))
  BY <1>1, <1>2, <1>3, <1>4, <1>5, WorkerQuiet DEF To
<1>6. CASE Fails(w, "error")
  BY <1>1, <1>2, <1>3, <1>4, <1>6, WorkerQuiet DEF Fails
<1> QED BY <1>5, <1>6 DEF DrainByWorker

LEMMA CheckpointInv == ASSUME WorkInv, NEW w \in WorkerRun, Checkpoint(w) PROVE WorkInv'
<1>1. w \in Actor /\ step[w] = "turn" /\ step[w] \in AtWork /\ result[w] \in Result /\ result[w] # "ok"
  BY ActorsAre, ResultTyped, NotYet DEF Checkpoint, AtWork
<1>2. UNCHANGED <<board, result, runs, restarts, session>> /\ prompts' \subseteq WorkerRun
  BY DEF Checkpoint, WorkInv, WorkShape
<1>3. behind' \subseteq Actor /\ behind \ {w} \subseteq behind'
  BY <1>1, BehindGrows DEF Checkpoint
<1>4. "turn" \in StepName /\ step' = [step EXCEPT ![w] = "turn"]
  BY <1>1 DEF StepName, Checkpoint, WorkInv, WorkShape
<1> QED BY <1>1, <1>2, <1>3, <1>4, WorkerQuiet

LEMMA TurnEndsInv == ASSUME WorkInv, NEW w \in WorkerRun, TurnEnds(w) PROVE WorkInv'
<1>1. w \in Actor /\ step[w] = "turn" /\ step[w] \in AtWork
  BY ActorsAre DEF TurnEnds, AtWork
<1>2. /\ UNCHANGED <<board, prompts, behind, runs, restarts, session>> /\ prompts' \subseteq WorkerRun
      /\ behind' \subseteq Actor /\ behind \ {w} \subseteq behind'
  BY DEF TurnEnds, WorkInv, WorkShape
<1>3. PICK r \in Result : step' = [step EXCEPT ![w] = "advance"] /\ result' = [result EXCEPT ![w] = r]
  BY DEF TurnEnds, Fails
<1>4. "advance" \in StepName
  BY DEF StepName
<1> QED BY <1>1, <1>2, <1>3, <1>4, WorkerQuiet

LEMMA ClaimReadInv == ASSUME WorkInv, NEW a \in Actor, ClaimRead(a) PROVE WorkInv'
<1>1. step[a] = "claim" /\ result[a] \in Result /\ (a \in WorkerRun => result[a] # "ok")
  BY ResultTyped, NotYet DEF ClaimRead
<1>2. UNCHANGED <<board, prompts, runs, restarts, session>> /\ prompts' \subseteq WorkerRun
  BY DEF ClaimRead, WorkInv, WorkShape
<1>3. behind' \subseteq Actor /\ behind \ {a} \subseteq behind'
  BY BehindGrows DEF ClaimRead
<1>4. /\ "claim_write" \in StepName /\ "claim_write" \notin AtWork /\ "returned" \in StepName
      /\ "returned" \notin AtWork /\ "error" \in Result
  BY DEF StepName, Result, AtWork, InTransaction
<1>5. CASE board[RowOf(a)].status = "pending" /\ To(a, "claim_write") /\ UNCHANGED result
  <2>1. CASE a \in WorkerRun
    BY <1>1, <1>2, <1>3, <1>4, <1>5, <2>1, WorkerQuiet DEF To
  <2>2. CASE a \in Lead
    BY <1>1, <1>2, <1>3, <1>4, <1>5, <2>2, LeadQuiet DEF To
  <2> QED BY <2>1, <2>2 DEF Actor
<1>6. CASE Returns(a, "error")
  <2>1. CASE a \in WorkerRun
    BY <1>1, <1>2, <1>3, <1>4, <1>6, <2>1, WorkerQuiet DEF Returns
  <2>2. CASE a \in Lead
    BY <1>1, <1>2, <1>3, <1>4, <1>6, <2>2, LeadQuiet DEF Returns
  <2> QED BY <2>1, <2>2 DEF Actor
<1> QED BY <1>5, <1>6 DEF ClaimRead

LEMMA ClaimWriteInv == ASSUME WorkInv, NEW a \in Actor, ClaimWrite(a) PROVE WorkInv'
<1>1. /\ step[a] = "claim_write" /\ step[a] \notin {"idle", "returned", "joined", "plan", "dispatch"}
      /\ result[a] \in Result /\ (a \in WorkerRun => result[a] # "ok")
  BY ResultTyped, NotYet DEF ClaimWrite
<1>2. UNCHANGED <<prompts, runs, restarts, session>> /\ prompts' \subseteq WorkerRun
  BY DEF ClaimWrite, WorkInv, WorkShape
<1>3. behind' \subseteq Actor /\ behind \ {a} \subseteq behind'
  BY BehindGrows DEF ClaimWrite, Claimed
<1>4. /\ "returned" \in StepName /\ "returned" \notin AtWork /\ "error" \in Result
      /\ "dispatch" \in StepName /\ "drain" \in StepName
  BY DEF StepName, Result, AtWork
<1>5. CASE a \notin behind /\ Claimed(a)
  <2> DEFINE e == [status |-> "in_progress", thread |-> ThreadOf(a)]
             p == IF a \in Lead THEN "dispatch" ELSE "drain"
  <2>1. board[RowOf(a)].status = "pending"
    BY <1>1, <1>5 DEF WorkInv, SnapshotsHold
  <2>2. e \in RowState /\ e = [status |-> "in_progress", thread |-> ThreadOf(a)]
    <3>1. ThreadOf(a) \in Thread
      BY ThreadIs DEF WorkInv
    <3> QED BY <3>1 DEF RowState, Status
  <2>3. /\ board' = [board EXCEPT ![RowOf(a)] = e] /\ step' = [step EXCEPT ![a] = p]
        /\ Commits(a) /\ result' = [result EXCEPT ![a] = result[a]]
    BY <1>5 DEF Claimed, To, WorkInv, WorkShape
  <2>4. p \in StepName /\ p \notin {"claim_write", "advance_write", "plan"}
    BY <1>4
  <2>5. a \in Lead /\ result[a] = "ok" =>
            HasDelivered(Planner(a)) /\ \A c \in Child : board[c].status = "review"
    BY DEF WorkInv, SuccessTrue
  <2>6. a \in Lead => /\ p # "plan" => step[Planner(a)] \in {"idle", "returned"}
                      /\ p # "dispatch" => \A w \in Children(a) : step[w] \in {"idle", "joined"}
    BY <1>1 DEF WorkInv, LeadPhases
  <2>7. a \in WorkerRun =>
            \/ a = Planner(a[1]) /\ (p \in {"idle", "returned"} \/ step[a[1]] = "plan")
            \/ a # Planner(a[1]) /\ (p \in {"idle", "joined"} \/ step[a[1]] = "dispatch")
    BY <1>1, Supervised
  <2>8. Owns(a, e)
    BY DEF Owns
  <2> HIDE DEF e, p
  <2> QED BY <1>1, <1>2, <1>3, <2>1, <2>2, <2>3, <2>4, <2>5, <2>6, <2>7, <2>8, ActorStep
<1>6. CASE Returns(a, "error") /\ UNCHANGED <<board, behind>>
  <2>1. CASE a \in WorkerRun
    BY <1>1, <1>2, <1>3, <1>4, <1>6, <2>1, WorkerQuiet DEF Returns
  <2>2. CASE a \in Lead
    BY <1>1, <1>2, <1>3, <1>4, <1>6, <2>2, LeadQuiet DEF Returns
  <2> QED BY <2>1, <2>2 DEF Actor
<1> QED BY <1>5, <1>6 DEF ClaimWrite

\* What a failed Advance leaves, of a worker and of a lead.
LEMMA AdvanceFailsInv ==
  ASSUME WorkInv, NEW a \in Actor, step[a] \in {"advance", "advance_write"}, AdvanceFails(a),
         UNCHANGED <<behind, prompts, runs, restarts, session>>
  PROVE  WorkInv'
<1>1. /\ step[a] \notin {"idle", "returned", "joined", "plan", "dispatch"} /\ result[a] \in Result
      /\ "returned" \in StepName /\ "returned" \notin AtWork /\ "error" \in Result
  BY ResultTyped DEF StepName, AtWork, Result
<1>2. /\ UNCHANGED <<board, runs, restarts, session>> /\ prompts' \subseteq WorkerRun
      /\ behind' \subseteq Actor /\ behind \ {a} \subseteq behind'
  BY DEF AdvanceFails, WorkInv, WorkShape
<1>3. CASE a \in WorkerRun
  <2> DEFINE r == IF result[a] = "ok" THEN "error" ELSE result[a]
  <2>1. /\ r \in Result /\ r # "ok"
        /\ step' = [step EXCEPT ![a] = "returned"] /\ result' = [result EXCEPT ![a] = r]
    BY <1>1, <1>3 DEF AdvanceFails, Returns
  <2> HIDE DEF r
  <2> QED BY <1>1, <1>2, <1>3, <2>1, WorkerQuiet
<1>4. CASE a \in Lead
  <2>1. step' = [step EXCEPT ![a] = "returned"] /\ result' = [result EXCEPT ![a] = result[a]]
    BY <1>4, ActorsAre DEF AdvanceFails, Returns
  <2> QED BY <1>1, <1>2, <1>4, <2>1, LeadQuiet
<1> QED BY <1>3, <1>4 DEF Actor

LEMMA AdvanceReadInv == ASSUME WorkInv, NEW a \in Actor, AdvanceRead(a) PROVE WorkInv'
<1>1. step[a] = "advance" /\ step[a] \in AtWork /\ result[a] \in Result /\ "advance_write" \in StepName
  BY ResultTyped DEF AdvanceRead, AtWork, StepName, InTransaction
<1>2. UNCHANGED <<prompts, runs, restarts, session>> /\ prompts' \subseteq WorkerRun
  BY DEF AdvanceRead, WorkInv, WorkShape
<1>3. behind' \subseteq Actor /\ behind \ {a} \subseteq behind'
  BY BehindGrows DEF AdvanceRead
<1>4. CASE /\ IsValidTransition(board[RowOf(a)].status, Target(a))
           /\ To(a, "advance_write") /\ Snapshots(a) /\ UNCHANGED <<board, result>>
  <2>1. IsValidTransition(board[RowOf(a)].status, AdvanceTo(result[a]))
    BY <1>4 DEF Target, AdvanceTo
  <2>2. CASE a \in WorkerRun
    BY <1>1, <1>2, <1>3, <1>4, <2>1, <2>2, WorkerQuiet DEF To
  <2>3. CASE a \in Lead
    BY <1>1, <1>2, <1>3, <1>4, <2>1, <2>3, LeadQuiet DEF To
  <2> QED BY <2>2, <2>3 DEF Actor
<1>5. CASE AdvanceFails(a) /\ UNCHANGED behind
  BY <1>1, <1>2, <1>5, AdvanceFailsInv
<1> QED BY <1>4, <1>5 DEF AdvanceRead

LEMMA AdvanceWriteInv == ASSUME WorkInv, NEW a \in Actor, AdvanceWrite(a) PROVE WorkInv'
<1>1. /\ step[a] = "advance_write" /\ step[a] \in AtWork /\ result[a] \in Result
      /\ "returned" \in StepName /\ "returned" \notin AtWork
  BY ResultTyped DEF AdvanceWrite, AtWork, StepName
<1>2. UNCHANGED <<prompts, runs, restarts, session>> /\ prompts' \subseteq WorkerRun
  BY DEF AdvanceWrite, WorkInv, WorkShape
<1>3. CASE a \notin behind /\ Advanced(a)
  <2> DEFINE e == [board[RowOf(a)] EXCEPT !.status = Target(a)]
  <2>1. e \in RowState /\ e.status = Target(a) /\ Target(a) = AdvanceTo(result[a])
    <3>1. board[RowOf(a)] \in RowState /\ Target(a) \in Status
      BY ActorsAre DEF Actor, WorkInv, WorkShape, Target, Status
    <3> QED BY <3>1 DEF RowState, Target, AdvanceTo
  <2>2. /\ board' = [board EXCEPT ![RowOf(a)] = e] /\ step' = [step EXCEPT ![a] = "returned"]
        /\ Commits(a) /\ result' = [result EXCEPT ![a] = result[a]]
    BY <1>3, ActorsAre DEF Advanced, Returns, Actor, WorkInv, WorkShape
  <2>3. behind' \subseteq Actor /\ behind \ {a} \subseteq behind'
    BY <2>2, BehindGrows
  <2>4. a \in Lead /\ result[a] = "ok" =>
            HasDelivered(Planner(a)) /\ \A c \in Child : board[c].status = "review"
    BY DEF WorkInv, SuccessTrue
  <2>5. a \in Lead => /\ step[Planner(a)] \in {"idle", "returned"}
                      /\ \A w \in Children(a) : step[w] \in {"idle", "joined"}
    BY <1>1 DEF WorkInv, LeadPhases
  <2>6. a \in WorkerRun => \/ a = Planner(a[1]) /\ step[a[1]] = "plan"
                           \/ a # Planner(a[1]) /\ step[a[1]] = "dispatch"
    BY <1>1, Supervised
  <2>7. a \in WorkerRun =>
            /\ Settling(board[RowOf(a)], e)
            /\ result[a] = "ok" => Left(a, e) /\ board[RowOf(a)].status = "in_progress"
    <3> SUFFICES ASSUME a \in WorkerRun
                 PROVE  /\ Settling(board[RowOf(a)], e)
                        /\ result[a] = "ok" => Left(a, e) /\ board[RowOf(a)].status = "in_progress"
      OBVIOUS
    <3>1. e.thread = board[RowOf(a)].thread
      BY ActorsAre DEF WorkInv, WorkShape, RowState
    <3>2. IsValidTransition(board[RowOf(a)].status, e.status) /\ Owns(a, board[RowOf(a)])
      BY <1>1, <1>3, <2>1 DEF WorkInv, SnapshotsHold, RunsOwn
    <3>3. Settling(board[RowOf(a)], e)
      BY <2>1, <3>1, <3>2 DEF Settling, IsValidTransition, Owns, AdvanceTo
    <3> HIDE DEF e
    <3>4. result[a] = "ok" => e.status = "review"
      BY <2>1 DEF AdvanceTo
    <3> QED BY <3>1, <3>2, <3>3, <3>4 DEF Settling, Left, Owns
  <2>8. a \in Lead \/ a \in WorkerRun
    BY DEF Actor
  <2> HIDE DEF e
  <2> QED BY <1>1, <1>2, <2>1, <2>2, <2>3, <2>4, <2>5, <2>6, <2>7, <2>8, ActorStep
<1>4. CASE AdvanceFails(a) /\ UNCHANGED behind
  BY <1>1, <1>2, <1>4, AdvanceFailsInv
<1> QED BY <1>3, <1>4 DEF AdvanceWrite

\* Enqueue writes only where there is no row.
LEMMA EnqueueIs ==
  ASSUME WorkInv, NEW a \in Actor, NEW q \in BoardRow, Enqueue(a, q)
  PROVE  /\ behind' \subseteq Actor /\ behind \ {a} \subseteq behind'
         /\ \E e \in RowState :
                /\ board' = [board EXCEPT ![q] = e]
                /\ e = board[q] \/ (Commits(a) /\ board[q].status = "absent")
<1>1. board \in [BoardRow -> RowState] /\ board[q] \in RowState
  BY DEF WorkInv, WorkShape
<1>2. CASE board[q].status = "absent"
  <2> DEFINE e == [board[q] EXCEPT !.status = "pending"]
  <2>1. e \in RowState
    BY <1>1 DEF RowState, Status
  <2>2. board' = [board EXCEPT ![q] = e] /\ Commits(a)
    BY <1>1, <1>2 DEF Enqueue
  <2> QED BY <1>2, <2>1, <2>2, BehindGrows
<1>3. CASE board[q].status # "absent"
  <2>1. board' = [board EXCEPT ![q] = board[q]] /\ UNCHANGED behind
    BY <1>1, <1>3 DEF Enqueue
  <2> QED BY <1>1, <2>1, BehindGrows
<1> QED BY <1>2, <1>3

\* A child that is started, or whose start failed.
LEMMA Dispatched ==
  ASSUME WorkInv, NEW l \in Lead, NEW w \in Children(l), NEW p \in {"get", "returned"},
         NEW r \in Result, r # "ok", step[l] = "dispatch",
         step' = [step EXCEPT ![w] = p], result' = [result EXCEPT ![w] = r],
         Enqueue(w, RowOf(w)), UNCHANGED <<prompts, runs, restarts, session>>
  PROVE  WorkInv'
<1>1. /\ w \in WorkerRun /\ w \in Actor /\ w \notin Lead /\ w # Planner(w[1]) /\ w[1] = l
      /\ RowOf(w) \in BoardRow
  BY ActorsAre
<1>2. p \in StepName /\ p \notin AtWork /\ prompts' \subseteq WorkerRun
  BY DEF StepName, AtWork, WorkInv, WorkShape
<1>3. behind' \subseteq Actor /\ behind \ {w} \subseteq behind'
  BY <1>1, EnqueueIs
<1>4. PICK e \in RowState :
          /\ board' = [board EXCEPT ![RowOf(w)] = e]
          /\ e = board[RowOf(w)] \/ (Commits(w) /\ board[RowOf(w)].status = "absent")
  BY <1>1, EnqueueIs
<1> QED BY <1>1, <1>2, <1>3, <1>4, ActorStep

LEMMA DispatchInv ==
  ASSUME WorkInv, NEW l \in Lead, NEW w \in Children(l), DispatchChild(l, w) \/ DispatchFails(l, w)
  PROVE  WorkInv'
<1>1. /\ step[l] = "dispatch" /\ step[w] = "idle" /\ UNCHANGED <<prompts, runs, restarts, session>>
      /\ w \in WorkerRun /\ w \in Actor /\ w \notin Lead /\ w # Planner(w[1]) /\ w[1] = l
      /\ "error" \in Result
  BY ActorsAre DEF DispatchChild, DispatchFails, Result
<1>2. result[w] \in Result /\ result[w] # "ok"
  BY <1>1, ResultTyped, NotYet
<1>3. CASE DispatchChild(l, w)
  <2>1. /\ step' = [step EXCEPT ![w] = "get"] /\ result' = [result EXCEPT ![w] = result[w]]
        /\ Enqueue(w, RowOf(w))
    BY <1>3 DEF DispatchChild, To, WorkInv, WorkShape
  <2> QED BY <1>1, <1>2, <2>1, Dispatched
<1>4. CASE /\ result' = [result EXCEPT ![w] = "error"]
           /\ To(w, "returned") /\ Enqueue(w, RowOf(w))
  BY <1>1, <1>4, Dispatched DEF To
<1>5. CASE /\ result' = [result EXCEPT ![w] = "error"]
           /\ To(w, "joined") /\ UNCHANGED <<board, behind>>
  <2>1. /\ "joined" \in StepName /\ "joined" \notin AtWork /\ step' = [step EXCEPT ![w] = "joined"]
        /\ prompts' \subseteq WorkerRun /\ behind' \subseteq Actor /\ behind \ {w} \subseteq behind'
        /\ UNCHANGED <<board, runs, restarts, session>>
    BY <1>1, <1>5 DEF StepName, AtWork, To, WorkInv, WorkShape
  <2> QED BY <1>1, <1>5, <2>1, QuietWorkStep
<1> QED BY <1>3, <1>4, <1>5 DEF DispatchFails

LEMMA ChildJoinsInv ==
  ASSUME WorkInv, NEW l \in Lead, NEW w \in Children(l), ChildJoins(w) PROVE WorkInv'
<1>1. /\ w \in WorkerRun /\ w \in Actor /\ w \notin Lead /\ w # Planner(w[1]) /\ step[w] = "returned"
      /\ "joined" \in StepName /\ "joined" \notin AtWork /\ step' = [step EXCEPT ![w] = "joined"]
  BY ActorsAre DEF ChildJoins, To, StepName, AtWork
<1>2. UNCHANGED <<board, runs, restarts, session>> /\ result' = [result EXCEPT ![w] = result[w]]
  BY DEF ChildJoins, WorkInv, WorkShape
<1>3. prompts' \subseteq WorkerRun
  BY <1>1 DEF ChildJoins, EmitChildFixPrompt, WorkInv, WorkShape
<1>4. behind' \subseteq Actor /\ behind \ {w} \subseteq behind'
  BY <1>1, BehindGrows DEF ChildJoins, EmitChildFixPrompt
<1>5. result[w] \in Result /\ (result[w] = "ok" => Left(w, board[RowOf(w)]))
  BY <1>1, ResultTyped DEF WorkInv, SuccessTrue, HasDelivered
<1> QED BY <1>1, <1>2, <1>3, <1>4, <1>5, QuietWorkStep

\* The steps of a lead between those of its workers.
LEMMA LeadOwnInv ==
  ASSUME WorkInv, NEW l \in Lead, ParsePlan(l) \/ ClaimParent(l) \/ Join(l) \/ SettleParent(l)
  PROVE  WorkInv'
<1>1. /\ UNCHANGED <<board, prompts, behind, runs, restarts, session>> /\ prompts' \subseteq WorkerRun
      /\ behind' \subseteq Actor /\ behind \ {l} \subseteq behind'
  BY DEF ParsePlan, ClaimParent, Join, SettleParent, WorkInv, WorkShape
<1>2. l \in Actor /\ l \notin WorkerRun /\ result[l] \in Result
  BY ActorsAre, ResultTyped
<1>3. {"get", "settle", "dispatch", "claim", "advance", "returned"} \subseteq StepName
      /\ "error" \in Result
  BY DEF StepName, Result
<1>4. result[l] = "ok" => HasDelivered(Planner(l)) /\ \A c \in Child : board[c].status = "review"
  BY DEF WorkInv, SuccessTrue
<1>5. CASE ParsePlan(l)
  <2>1. /\ step[l] = "plan" /\ step[Planner(l)] = "returned"
        /\ \A w \in Children(l) : step[w] \in {"idle", "joined"}
    BY <1>5 DEF ParsePlan, WorkInv, LeadPhases
  <2>2. CASE To(l, "get") /\ UNCHANGED result
    <3>1. step' = [step EXCEPT ![l] = "get"] /\ result' = [result EXCEPT ![l] = result[l]]
      BY <2>2 DEF To, WorkInv, WorkShape
    <3> QED BY <1>1, <1>2, <1>3, <1>4, <2>1, <3>1, QuietWorkStep
  <2>3. CASE step' = [step EXCEPT ![l] = "settle"] /\ result' = [result EXCEPT ![l] = "error"]
    BY <1>1, <1>2, <1>3, <2>1, <2>3, QuietWorkStep
  <2> QED BY <1>5, <2>2, <2>3 DEF ParsePlan
<1>6. CASE ClaimParent(l)
  <2>1. step[l] \notin {"plan", "dispatch"}
    BY <1>6 DEF ClaimParent
  <2>2. CASE (To(l, "dispatch") \/ To(l, "claim")) /\ UNCHANGED result
    BY <1>1, <1>2, <1>3, <2>1, <2>2, LeadQuiet DEF To
  <2>3. CASE Returns(l, "error")
    BY <1>1, <1>2, <1>3, <2>1, <2>3, LeadQuiet DEF Returns
  <2> QED BY <1>6, <2>2, <2>3 DEF ClaimParent
<1>7. CASE Join(l)
  <2>1. /\ step[l] = "dispatch" /\ step[Planner(l)] \in {"idle", "returned"}
        /\ \A w \in Children(l) : step[w] = "joined"
        /\ step' = [step EXCEPT ![l] = "settle"] /\ result' = [result EXCEPT ![l] = Aggregate(l)]
    BY <1>7 DEF Join, WorkInv, LeadPhases
  <2>2. Aggregate(l) \in Result
    BY DEF Aggregate, Result
  <2>3. ASSUME Aggregate(l) = "ok"
        PROVE  HasDelivered(Planner(l)) /\ \A c \in Child : board[c].status = "review"
    <3>1. \A w \in Children(l) \cup {Planner(l)} : result[w] = "ok"
      BY <2>3 DEF Aggregate
    <3>2. HasDelivered(Planner(l))
      BY <2>1, <3>1, NotYet, ActorsAre DEF HasDelivered
    <3>3. ASSUME NEW c \in Child PROVE board[c].status = "review"
      <4>1. <<l, c>> \in Children(l) /\ <<l, c>>[2] = c
        BY DEF Children
      <4>2. <<l, c>> \in WorkerRun /\ <<l, c>> # Planner(<<l, c>>[1]) /\ RowOf(<<l, c>>) = c
        BY <4>1, ActorsAre
      <4>3. Left(<<l, c>>, board[c])
        BY <2>1, <3>1, <4>1, <4>2 DEF WorkInv, SuccessTrue, HasDelivered
      <4> QED BY <4>2, <4>3 DEF Left, Shares
    <3> QED BY <3>2, <3>3
  <2> QED BY <1>1, <1>2, <1>3, <2>1, <2>2, <2>3, QuietWorkStep
<1>8. CASE SettleParent(l)
  <2>1. step[l] \notin {"plan", "dispatch"}
    BY <1>8 DEF SettleParent
  <2>2. CASE To(l, "advance") /\ UNCHANGED result
    BY <1>1, <1>2, <1>3, <2>1, <2>2, LeadQuiet DEF To
  <2>3. CASE Returns(l, result[l])
    BY <1>1, <1>2, <1>3, <2>1, <2>3, LeadQuiet DEF Returns
  <2> QED BY <1>8, <2>2, <2>3 DEF SettleParent
<1> QED BY <1>5, <1>6, <1>7, <1>8

\* A new call of Run: nothing of the last one of this lead is still at work.
LEMMA LeadStartInv == ASSUME WorkInv, NEW l \in Lead, LeadStart(l) PROVE WorkInv'
<1> DEFINE own == {l, Planner(l)} \cup Children(l)
<1>1. WorkShape /\ SnapshotsHold /\ RunsOwn /\ LeadPhases /\ SuccessTrue /\ OneDelivery
  BY DEF WorkInv
<1>2. /\ l \in Actor /\ l \notin WorkerRun /\ "planner" \in BoardRow
      /\ Planner(l) \in Actor /\ Planner(l) # l /\ Planner(l) \notin Children(l)
      /\ \A w \in Children(l) : w \in Actor /\ w # l /\ w # Planner(l)
  BY ActorsAre
<1>3. /\ step[l] \in {"idle", "returned"} /\ step[Planner(l)] \in {"idle", "returned"}
      /\ \A w \in Children(l) : step[w] \in {"idle", "joined"}
  BY <1>1 DEF LeadStart, LeadPhases
<1>4. /\ \A k \in Lead : k # l => runs'[k] = runs[k]
      /\ runs' \in [Lead -> Nat] /\ UNCHANGED <<prompts, restarts, session>>
  BY <1>1 DEF LeadStart, WorkShape
<1>5. /\ behind' \subseteq Actor
      /\ \E e \in RowState :
             /\ board' = [board EXCEPT !["planner"] = e]
             /\ e = board["planner"] \/ board["planner"].status = "absent"
      /\ \/ UNCHANGED board /\ behind \ {l} \subseteq behind'
         \/ Commits(l)
  <2>1. CASE Enqueue(l, "planner")
    <3>1. /\ behind' \subseteq Actor /\ behind \ {l} \subseteq behind'
          /\ \E e \in RowState :
                 /\ board' = [board EXCEPT !["planner"] = e]
                 /\ e = board["planner"] \/ (Commits(l) /\ board["planner"].status = "absent")
      BY <1>2, <2>1, EnqueueIs
    <3>2. Commits(l) \/ UNCHANGED board
      BY <2>1 DEF Enqueue
    <3> QED BY <3>1, <3>2
  <2>2. CASE UNCHANGED <<board, behind>>
    BY <1>1, <1>2, <2>2 DEF WorkShape
  <2> QED BY <2>1, <2>2 DEF LeadStart
<1>6. \A q \in BoardRow : board[q].status # "absent" => board'[q] = board[q]
  BY <1>1, <1>5 DEF WorkShape
<1>7. /\ step' \in [Actor -> StepName] /\ result' \in [Actor -> Result]
      /\ \A b \in Actor : b \notin own => step'[b] = step[b] /\ result'[b] = result[b]
      /\ \/ step'[l] = "plan"
         \/ UNCHANGED step[Planner(l)] /\ step'[l] = "returned"
      /\ \A b \in own : step'[b] \in {"plan", "get", "idle", "returned", "joined"}
      /\ \A w \in Children(l) : step'[w] \in {"idle", "joined"}
      /\ result'[l] # "ok"
      /\ \A b \in own : result'[b] = "ok" => result[b] = "ok" /\ step'[b] = step[b]
  <2>1. CASE /\ step' = [a \in Actor |-> CASE a = l -> "plan" [] a = Planner(l) -> "get"
                                          [] a \in Children(l) -> "idle" [] OTHER -> step[a]]
             /\ result' = [a \in Actor |-> IF a \in {l, Planner(l)} \cup Children(l)
                                           THEN "none" ELSE result[a]]
    <3>1. /\ step'[l] = "plan" /\ step'[Planner(l)] = "get"
          /\ \A w \in Children(l) : step'[w] = "idle"
          /\ \A b \in Actor : b \notin own => step'[b] = step[b]
      BY <1>2, <2>1
    <3>2. step' \in [Actor -> StepName]
      <4>1. "plan" \in StepName /\ "get" \in StepName /\ "idle" \in StepName
        BY DEF StepName
      <4>2. \A b \in Actor : step[b] \in StepName
        BY <1>1 DEF WorkShape
      <4> QED BY <2>1, <4>1, <4>2
    <3>3. /\ result' \in [Actor -> Result] /\ \A b \in own : result'[b] = "none"
          /\ \A b \in Actor : b \notin own => result'[b] = result[b]
      <4>1. "none" \in Result /\ \A b \in Actor : result[b] \in Result
        BY <1>1 DEF WorkShape, Result
      <4> QED BY <1>2, <2>1, <4>1
    <3> QED BY <3>1, <3>2, <3>3
  <2>2. CASE Returns(l, "error")
    <3>1. /\ step' = [step EXCEPT ![l] = "returned"] /\ result' = [result EXCEPT ![l] = "error"]
          /\ "returned" \in StepName /\ "error" \in Result
      BY <2>2 DEF Returns, StepName, Result
    <3>2. /\ step' \in [Actor -> StepName] /\ result' \in [Actor -> Result]
          /\ step'[l] = "returned" /\ result'[l] = "error"
          /\ \A b \in Actor : b # l => step'[b] = step[b] /\ result'[b] = result[b]
      BY <1>1, <1>2, <3>1 DEF WorkShape
    <3> QED BY <1>2, <1>3, <3>2
  <2> QED BY <2>1, <2>2 DEF LeadStart
<1>8. \A w \in WorkerRun : w \notin own => w \in Actor /\ w[1] \in Lead /\ w[1] # l
  BY ActorsAre
<1> HIDE DEF own
<1>9. WorkShape'
  BY <1>1, <1>2, <1>4, <1>5, <1>7 DEF WorkShape
<1>10. SnapshotsHold'
  <2> SUFFICES ASSUME NEW b \in Actor, b \notin behind'
               PROVE  /\ step'[b] = "claim_write" => board'[RowOf(b)].status = "pending"
                      /\ step'[b] = "advance_write" =>
                             IsValidTransition(board'[RowOf(b)].status, AdvanceTo(result'[b]))
    BY DEF SnapshotsHold, RowOf
  <2>1. CASE b \in own
    BY <1>7, <2>1
  <2>2. CASE b \notin own /\ UNCHANGED board /\ behind \ {l} \subseteq behind'
    <3>1. b \notin behind /\ step'[b] = step[b] /\ result'[b] = result[b]
      BY <1>7, <2>2 DEF own
    <3> QED BY <1>1, <2>2, <3>1 DEF SnapshotsHold
  <2>3. CASE b \notin own /\ Commits(l)
    <3>1. step'[b] = step[b] /\ step[b] \notin InTransaction
      BY <1>7, <2>3 DEF Commits, own
    <3> QED BY <3>1 DEF InTransaction
  <2> QED BY <1>5, <2>1, <2>2, <2>3
<1>11. RunsOwn'
  <2> SUFFICES ASSUME NEW w \in WorkerRun, step'[w] \in AtWork
               PROVE  Owns(w, board[RowOf(w)])'
    BY DEF RunsOwn
  <2>1. w \notin own
    BY <1>7 DEF AtWork
  <2>2. step[w] \in AtWork /\ w[1] \in Lead /\ w[1] # l
    BY <1>7, <1>8, <2>1
  <2>3. ThreadOf(w)' = ThreadOf(w)
    BY <1>4, <2>2, ActorsAre DEF ThreadOf
  <2>4. Owns(w, board[RowOf(w)]) /\ RowOf(w) \in BoardRow
    BY <1>1, <2>2, ActorsAre DEF RunsOwn
  <2>5. board'[RowOf(w)] = board[RowOf(w)]
    BY <1>6, <2>4 DEF Owns
  <2> QED BY <1>4, <2>3, <2>4, <2>5 DEF Owns, Shares, RowOf
<1>12. LeadPhases'
  <2> SUFFICES ASSUME NEW k \in Lead
               PROVE  /\ step'[k] # "plan" => step'[Planner(k)] \in {"idle", "returned"}
                      /\ step'[k] # "dispatch" => \A w \in Children(k) : step'[w] \in {"idle", "joined"}
    BY DEF LeadPhases
  <2>1. CASE k = l
    BY <1>3, <1>7, <2>1
  <2>2. CASE k # l
    <3>1. /\ k \in Actor /\ k \notin own /\ Planner(k) \in Actor /\ Planner(k) \notin own
          /\ \A w \in Children(k) : w \in Actor /\ w \notin own
      BY <2>2, ActorsAre DEF own
    <3> QED BY <1>1, <1>7, <3>1 DEF LeadPhases
  <2> QED BY <2>1, <2>2
<1>13. \A w \in WorkerRun : HasDelivered(w)' => HasDelivered(w)
  BY <1>7, ActorsAre DEF HasDelivered
<1>14. SuccessTrue'
  <2>1. ASSUME NEW w \in WorkerRun
        PROVE  /\ result'[w] = "ok" => step'[w] \in {"advance", "advance_write", "returned", "joined"}
               /\ HasDelivered(w)' => Left(w, board[RowOf(w)])'
    <3>1. w \in Actor /\ RowOf(w) \in BoardRow
      BY ActorsAre
    <3>2. result'[w] = "ok" => result[w] = "ok" /\ step'[w] = step[w]
      BY <1>7, <3>1
    <3>3. ASSUME HasDelivered(w)' PROVE Left(w, board[RowOf(w)])'
      <4>1. Left(w, board[RowOf(w)])
        BY <1>1, <1>13, <3>3 DEF SuccessTrue
      <4>2. board'[RowOf(w)] = board[RowOf(w)]
        BY <1>6, <3>1, <4>1 DEF Left
      <4>3. w = Planner(w[1]) => ThreadOf(w)' = ThreadOf(w)
        BY <1>4, ActorsAre DEF ThreadOf
      <4> QED BY <1>4, <4>1, <4>2, <4>3 DEF Left, Shares, RowOf
    <3> QED BY <1>1, <3>2, <3>3 DEF SuccessTrue
  <2>2. ASSUME NEW k \in Lead, result'[k] = "ok"
        PROVE  HasDelivered(Planner(k))' /\ \A c \in Child : board'[c].status = "review"
    <3>1. k # l
      BY <1>7, <2>2
    <3>2. k \in Actor /\ k \notin own /\ Planner(k) \in Actor /\ Planner(k) \notin own
      BY <3>1, ActorsAre DEF own
    <3>3. HasDelivered(Planner(k)) /\ \A c \in Child : board[c].status = "review"
      BY <1>1, <1>7, <2>2, <3>2 DEF SuccessTrue
    <3> QED BY <1>6, <1>7, <3>2, <3>3 DEF HasDelivered, BoardRow
  <2> QED BY <2>1, <2>2 DEF SuccessTrue
<1>15. OneDelivery'
  BY <1>1, <1>13, ActorsAre DEF OneDelivery
<1> QED BY <1>9, <1>10, <1>11, <1>12, <1>14, <1>15 DEF WorkInv

LEMMA WorkforceRestartInv == ASSUME WorkInv, WorkforceRestart PROVE WorkInv'
<1>1. WorkShape'
  BY DEF WorkInv, WorkShape, WorkforceRestart, StepName, Result
<1>2. \A a \in Actor : step'[a] = "idle" /\ result'[a] = "none"
  BY DEF WorkforceRestart
<1>3. SnapshotsHold' /\ RunsOwn' /\ LeadPhases' /\ SuccessTrue' /\ OneDelivery'
  BY <1>2, ActorsAre DEF SnapshotsHold, RunsOwn, LeadPhases, SuccessTrue, OneDelivery, HasDelivered, AtWork
<1> QED BY <1>1, <1>3 DEF WorkInv

LEMMA WorkNextInv == WorkInv /\ [WorkforceNext]_workVars => WorkInv'
<1> SUFFICES ASSUME WorkInv, [WorkforceNext]_workVars PROVE WorkInv'
  OBVIOUS
<1>1. ASSUME NEW l \in Lead, LeadStep(l) PROVE WorkInv'
  <2>1. l \in Actor
    BY ActorsAre
  <2>2. CASE ClaimRead(l) \/ ClaimWrite(l) \/ AdvanceRead(l) \/ AdvanceWrite(l)
    BY <2>1, <2>2, ClaimReadInv, ClaimWriteInv, AdvanceReadInv, AdvanceWriteInv
  <2>3. CASE ParsePlan(l) \/ ClaimParent(l) \/ Join(l) \/ SettleParent(l)
    BY <2>3, LeadOwnInv
  <2>4. CASE \E w \in Children(l) : DispatchChild(l, w) \/ DispatchFails(l, w) \/ ChildJoins(w)
    BY <2>4, DispatchInv, ChildJoinsInv
  <2> QED BY <1>1, <2>2, <2>3, <2>4 DEF LeadStep
<1>2. ASSUME NEW w \in WorkerRun, WorkerStep(w) PROVE WorkInv'
  <2>1. w \in Actor
    BY ActorsAre
  <2>2. CASE ClaimRead(w) \/ ClaimWrite(w) \/ AdvanceRead(w) \/ AdvanceWrite(w)
    BY <2>1, <2>2, ClaimReadInv, ClaimWriteInv, AdvanceReadInv, AdvanceWriteInv
  <2>3. CASE ClaimTask(w) \/ DrainByWorker(w) \/ TurnEnds(w)
    BY <2>3, ClaimTaskInv, DrainInv, TurnEndsInv
  <2> QED BY <1>2, <2>2, <2>3 DEF WorkerStep
<1>3. CASE UNCHANGED workVars
  BY <1>3 DEF workVars, WorkInv, WorkShape, SnapshotsHold, RunsOwn, LeadPhases, SuccessTrue, OneDelivery,
              RowOf, ThreadOf, Owns, Shares, HasDelivered, Left
<1> QED BY <1>1, <1>2, <1>3, LeadStartInv, CheckpointInv, WorkforceRestartInv DEF WorkforceNext

\* For any number of callers, sessions and children: two runs are at work on one row only
\* if they are planners in one session, a call that reports success leaves every child's
\* row in review, and no two calls report success.
THEOREM WorkCorrect == WorkforceSpec => []WorkSound
<1>1. WorkforceSpec => []WorkInv
  BY WorkInitInv, WorkNextInv, PTL DEF WorkforceSpec
<1> QED BY <1>1, WorkInvSound, PTL

-----------------------------------------------------------------------------

\* What a step may do to a settled row.
RowKept(r) ==
    /\ board[r].status = "failed" \/ (board[r].status = "review" /\ r \in Child) => board'[r] = board[r]
    /\ board[r].status = "review" => board'[r].status \in {"review", "failed"}
    /\ r = "planner" /\ board[r].status = "review" /\ board'[r] # board[r]
       => \E v, w \in Lead : v # w /\ session[v] = session[w]

LEMMA SameBoardKept == UNCHANGED board => \A r \in BoardRow : RowKept(r)
BY DEF RowKept

\* A write to a row that is not settled.
LEMMA WriteUnsettled ==
  ASSUME WorkInv, NEW q \in BoardRow, board[q].status \notin {"failed", "review"}, NEW e,
         board' = [board EXCEPT ![q] = e]
  PROVE  \A r \in BoardRow : RowKept(r)
BY DEF WorkInv, WorkShape, RowKept

LEMMA EnqueueUnsettled ==
  ASSUME WorkInv, NEW a \in Actor, NEW q \in BoardRow, Enqueue(a, q)
  PROVE  \A r \in BoardRow : RowKept(r)
<1>1. CASE board[q].status = "absent"
  <2>1. board' = [board EXCEPT ![q] = [board[q] EXCEPT !.status = "pending"]]
    BY <1>1 DEF Enqueue, WorkInv, WorkShape
  <2> QED BY <1>1, <2>1, WriteUnsettled
<1>2. CASE board[q].status # "absent"
  BY <1>2, SameBoardKept DEF Enqueue
<1> QED BY <1>1, <1>2

LEMMA ActorUnsettled ==
  ASSUME WorkInv, NEW a \in Actor,
         ClaimRead(a) \/ ClaimWrite(a) \/ AdvanceRead(a) \/ AdvanceWrite(a)
  PROVE  \A r \in BoardRow : RowKept(r)
<1>1. RowOf(a) \in BoardRow
  BY ActorsAre DEF Actor
<1>2. CASE UNCHANGED board
  BY <1>2, SameBoardKept
<1>3. CASE step[a] = "claim_write" /\ a \notin behind /\ Claimed(a)
  <2>1. board[RowOf(a)].status = "pending"
    BY <1>3 DEF WorkInv, SnapshotsHold
  <2> QED BY <1>1, <1>3, <2>1, WriteUnsettled DEF Claimed
<1>4. CASE step[a] = "advance_write" /\ a \notin behind /\ Advanced(a)
  <2> DEFINE e == [board[RowOf(a)] EXCEPT !.status = Target(a)]
  <2>1. board' = [board EXCEPT ![RowOf(a)] = e] /\ board \in [BoardRow -> RowState]
    BY <1>1, <1>4 DEF Advanced, WorkInv, WorkShape
  <2>2. IsValidTransition(board[RowOf(a)].status, e.status) /\ e.status \in {"review", "failed"}
    <3>1. e.status = AdvanceTo(result[a])
      BY <1>1, <2>1 DEF RowState, Target, AdvanceTo
    <3> QED BY <1>4, <3>1 DEF WorkInv, SnapshotsHold, AdvanceTo
  <2>3. ASSUME board[RowOf(a)].status = "review"
        PROVE  RowOf(a) \notin Child /\ (RowOf(a) = "planner" => \E v, w \in Lead : v # w /\ session[v] = session[w])
    <3>1. CASE a \in Lead
      BY <3>1, ActorsAre, WorkforceAssumption
    <3>2. CASE a \in WorkerRun
      <4>1. Shares(a)
        BY <1>4, <2>3, <3>2 DEF WorkInv, RunsOwn, Owns, AtWork
      <4>2. RowOf(a) = "planner" /\ a[1] \in Lead
        BY <3>2, <4>1, ActorsAre DEF Shares
      <4> QED BY <4>1, <4>2, WorkforceAssumption DEF Shares
    <3> QED BY <3>1, <3>2 DEF Actor
  <2> HIDE DEF e
  <2>4. board'[RowOf(a)] = e /\ \A r \in BoardRow : r # RowOf(a) => board'[r] = board[r]
    BY <1>1, <2>1
  <2>5. RowKept(RowOf(a))
    BY <2>2, <2>3, <2>4 DEF RowKept, IsValidTransition
  <2>6. ASSUME NEW r \in BoardRow, r # RowOf(a) PROVE RowKept(r)
    BY <2>4, <2>6 DEF RowKept
  <2> QED BY <2>5, <2>6
<1> QED BY <1>2, <1>3, <1>4 DEF ClaimRead, ClaimWrite, AdvanceRead, AdvanceWrite, AdvanceFails

LEMMA NextUnsettled ==
  ASSUME WorkInv, [WorkforceNext]_workVars
  PROVE  \A r \in BoardRow : RowKept(r)
<1>1. ASSUME NEW l \in Lead, LeadStart(l)
      PROVE  \A r \in BoardRow : RowKept(r)
  BY <1>1, ActorsAre, EnqueueUnsettled, SameBoardKept DEF LeadStart
<1>2. ASSUME NEW l \in Lead, LeadStep(l)
      PROVE  \A r \in BoardRow : RowKept(r)
  <2>1. CASE ClaimRead(l) \/ ClaimWrite(l) \/ AdvanceRead(l) \/ AdvanceWrite(l)
    BY <2>1, ActorsAre, ActorUnsettled
  <2>2. CASE ParsePlan(l) \/ ClaimParent(l) \/ Join(l) \/ SettleParent(l)
    BY <2>2, SameBoardKept DEF ParsePlan, ClaimParent, Join, SettleParent
  <2>3. ASSUME NEW w \in Children(l), DispatchChild(l, w) \/ DispatchFails(l, w) \/ ChildJoins(w)
        PROVE  \A r \in BoardRow : RowKept(r)
    <3>1. w \in Actor /\ RowOf(w) \in BoardRow
      BY ActorsAre
    <3>2. UNCHANGED board \/ Enqueue(w, RowOf(w))
      BY <2>3 DEF DispatchChild, DispatchFails, ChildJoins
    <3> QED BY <3>1, <3>2, EnqueueUnsettled, SameBoardKept
  <2> QED BY <1>2, <2>1, <2>2, <2>3 DEF LeadStep
<1>3. ASSUME NEW w \in WorkerRun, WorkerStep(w) \/ Checkpoint(w)
      PROVE  \A r \in BoardRow : RowKept(r)
  <2>1. CASE ClaimRead(w) \/ ClaimWrite(w) \/ AdvanceRead(w) \/ AdvanceWrite(w)
    BY <2>1, ActorsAre, ActorUnsettled
  <2>2. CASE ClaimTask(w) \/ DrainByWorker(w) \/ TurnEnds(w) \/ Checkpoint(w)
    BY <2>2, SameBoardKept DEF ClaimTask, DrainByWorker, TurnEnds, Checkpoint
  <2> QED BY <1>3, <2>1, <2>2 DEF WorkerStep
<1>4. CASE WorkforceRestart \/ UNCHANGED workVars
  BY <1>4, SameBoardKept DEF WorkforceRestart, workVars
<1> QED BY <1>1, <1>2, <1>3, <1>4 DEF WorkforceNext

\* For any number of callers, sessions, children and restarts: a failed row and a child's
\* row in review stay as they are, whatever a run read before; any other row leaves review
\* only to fail, the planner's only where two callers share a session.
THEOREM SettledCorrect == WorkforceSpec => SettledStays
<1>1. WorkforceSpec => []WorkInv
  BY WorkInitInv, WorkNextInv, PTL DEF WorkforceSpec
<1>2. WorkInv /\ [WorkforceNext]_workVars => [\A r \in BoardRow : RowKept(r)]_workVars
  BY NextUnsettled
<1>3. [\A r \in BoardRow : RowKept(r)]_workVars =>
          [\A r \in BoardRow :
               /\ board[r].status = "failed" \/ (board[r].status = "review" /\ r \in Child)
                  => board'[r] = board[r]
               /\ board[r].status = "review" => board'[r].status \in {"review", "failed"}
               /\ r = "planner" /\ board[r].status = "review" /\ board'[r] # board[r]
                  => \E v, w \in Lead : v # w /\ session[v] = session[w]]_workVars
  BY DEF RowKept
<1> QED BY <1>1, <1>2, <1>3, PTL DEF WorkforceSpec, SettledStays

-----------------------------------------------------------------------------
(* The reviews                                                             *)

LoopAt == {"select", "emit", "operator", "escalate", "ended"}

\* The loops and the tickers are records, and a layer without a period has no loop.
LoopShape ==
    /\ DOMAIN layerLoop = Layer /\ DOMAIN ticker = Layer /\ hraClock \in Nat
    /\ \A l \in Layer :
           /\ layerLoop[l] = [at |-> layerLoop[l].at, buf |-> layerLoop[l].buf,
                              finding |-> layerLoop[l].finding]
           /\ layerLoop[l].at \in LoopAt
           /\ layerLoop[l].at # "ended" => Cadence[l] > 0
           /\ ticker[l] = [due |-> ticker[l].due, c |-> ticker[l].c]

\* A tick that is waiting is not of the future, and for the architectural layer later
\* than the end of its last window.
TicksAfter ==
    /\ lastArchAt \in Int /\ -1 <= lastArchAt /\ lastArchAt <= hraClock
    /\ \A l \in Layer : \A t \in ticker[l].c :
           t \in Nat /\ t <= hraClock /\ (l = "architectural" => lastArchAt < t)

\* The windows of the architectural reviews so far, the last of which ends at lastArchAt.
WindowsMeet ==
    /\ \A f \in ArchReviews :
           /\ f.since \in Int /\ f.until \in Int /\ f.since < f.until /\ f.until <= lastArchAt
           /\ \A g \in ArchReviews : g.until < f.until => g.until <= f.since
           /\ (\E g \in ArchReviews : g.until < f.until) => \E g \in ArchReviews : g.until = f.since
    /\ lastArchAt >= 0 => \E g \in ArchReviews : g.until = lastArchAt
    /\ lastArchAt < 0 => ArchReviews = {}

\* What is due for a finding, all of it appended.
Settles(f) ==
    /\ Asked("review", f)
    /\ f.disagreement => Asked("escalation", f)
    /\ f.layer = "architectural" /\ f.verdict = "needs_fix" => Asked("operator", f) /\ Asked("escalation", f)

\* What is appended of the finding that loop l is at.
Carries(l, f) ==
    /\ layerLoop[l].finding = f
    /\ \/ layerLoop[l].at = "emit"
       \/ layerLoop[l].at = "operator" /\ Asked("review", f)
       \/ /\ layerLoop[l].at = "escalate" /\ Asked("review", f)
          /\ f.layer = "architectural" /\ f.verdict = "needs_fix" => Asked("operator", f)

\* No review is lost on the way.
NoReviewLost ==
    /\ \A f \in reviews : Settles(f) \/ \E l \in Layer : Carries(l, f)
    /\ \A l \in Layer : layerLoop[l].at \in {"emit", "operator", "escalate"} =>
           /\ layerLoop[l].finding.layer = l
           /\ layerLoop[l].finding.disagreement => layerLoop[l].finding.verdict = "needs_fix"
    /\ hraRun = "returned" => \A l \in Layer : layerLoop[l].at = "ended"

ReviewInv == LoopShape /\ TicksAfter /\ WindowsMeet /\ NoReviewLost

LEMMA ReviewInvSound == ReviewInv => ReviewsSound
<1> SUFFICES ASSUME ReviewInv PROVE ReviewsSound
  OBVIOUS
<1>1. \A f \in ArchReviews :
           /\ f.since < f.until
           /\ \A g \in ArchReviews : g.until < f.until => g.until <= f.since
           /\ (\E g \in ArchReviews : g.until < f.until) => \E g \in ArchReviews : g.until = f.since
  BY DEF ReviewInv, WindowsMeet
<1>2. ASSUME hraRun = "returned", NEW f \in reviews PROVE Settles(f)
  <2>1. \A l \in Layer : ~Carries(l, f)
    BY <1>2 DEF ReviewInv, NoReviewLost, Carries
  <2> QED BY <2>1 DEF ReviewInv, NoReviewLost
<1> QED BY <1>1, <1>2 DEF ReviewsSound, Settles

LEMMA HraInitInv == HraInit => ReviewInv
<1> SUFFICES ASSUME HraInit PROVE ReviewInv
  OBVIOUS
<1>1. PICK late \in SUBSET {l \in Layer : Cadence[l] > 0} :
           ticker = [l \in Layer |-> [due |-> IF l \in late THEN Cadence[l] + 1 ELSE Cadence[l],
                                      c |-> {}]]
  BY DEF HraInit
<1>2. layerLoop = [l \in Layer |-> [at |-> IF Cadence[l] > 0 THEN "select" ELSE "ended",
                                    buf |-> <<>>, finding |-> NoFinding]]
  BY DEF HraInit
<1>3. LoopShape
  <2>1. DOMAIN layerLoop = Layer /\ DOMAIN ticker = Layer /\ hraClock \in Nat
    BY <1>1, <1>2 DEF HraInit
  <2>2. ASSUME NEW l \in Layer
        PROVE  /\ layerLoop[l] = [at |-> layerLoop[l].at, buf |-> layerLoop[l].buf,
                                  finding |-> layerLoop[l].finding]
               /\ layerLoop[l].at \in LoopAt
               /\ layerLoop[l].at # "ended" => Cadence[l] > 0
    BY <1>2 DEF LoopAt
  <2>3. ASSUME NEW l \in Layer PROVE ticker[l] = [due |-> ticker[l].due, c |-> ticker[l].c]
    BY <1>1
  <2> QED BY <2>1, <2>2, <2>3 DEF LoopShape
<1>4. TicksAfter
  BY <1>1 DEF TicksAfter, HraInit
<1>5. WindowsMeet
  BY DEF WindowsMeet, ArchReviews, HraInit
<1>6. NoReviewLost
  BY <1>2 DEF NoReviewLost, HraInit
<1> QED BY <1>3, <1>4, <1>5, <1>6 DEF ReviewInv

\* What the aggregation of any records says.
LEMMA AggregateIs ==
  ASSUME NEW l, NEW records, NEW since, NEW until
  PROVE  LET f == AggregateLayer(l, records, since, until)
         IN /\ f.layer = l /\ f.since = since /\ f.until = until
            /\ f.disagreement => f.verdict = "needs_fix"
BY DEF AggregateLayer

\* The rows only grow.
LEMMA AskedStays ==
  ASSUME hraRows \subseteq hraRows'
  PROVE  \A type, f : Asked(type, f) => Asked(type, f)'
BY DEF Asked

\* A step in which the loops and what they found do not change.
LEMMA OutsideLoops ==
  ASSUME ReviewInv, hraClock' \in Nat, hraClock <= hraClock',
         UNCHANGED <<layerLoop, lastArchAt, hraRows, reviews>>,
         DOMAIN ticker' = Layer,
         \A l \in Layer : /\ ticker'[l] = [due |-> ticker'[l].due, c |-> ticker'[l].c]
                          /\ \A t \in ticker'[l].c : t \in ticker[l].c \/ (t = hraClock' /\ t = hraClock + 1),
         hraRun' = "returned" => \A l \in Layer : layerLoop[l].at = "ended"
  PROVE  ReviewInv'
<1>1. LoopShape /\ TicksAfter /\ WindowsMeet /\ NoReviewLost
  BY DEF ReviewInv
<1>2. LoopShape'
  BY <1>1 DEF LoopShape
<1>3. TicksAfter'
  BY <1>1 DEF TicksAfter, LoopShape
<1>4. WindowsMeet'
  BY <1>1 DEF WindowsMeet, ArchReviews
<1>5. NoReviewLost'
  BY <1>1 DEF NoReviewLost, Settles, Carries, Asked
<1> QED BY <1>2, <1>3, <1>4, <1>5 DEF ReviewInv

\* A step of loop l that leaves the windows alone: what it carries is done with, or it
\* carries it on.
LEMMA LayerLoopKeeps ==
  ASSUME ReviewInv, NEW l \in Layer, NEW at \in LoopAt, NEW buf,
         at = "ended" \/ layerLoop[l].at # "ended",
         UNCHANGED <<hraClock, ticker, lastArchAt, hraRun, reviews>>, hraRun # "returned",
         hraRows \subseteq hraRows',
         DOMAIN layerLoop' = Layer,
         layerLoop'[l] = [at |-> at, buf |-> buf, finding |-> layerLoop[l].finding],
         \A k \in Layer \ {l} : layerLoop'[k] = layerLoop[k],
         at \in {"emit", "operator", "escalate"} => layerLoop[l].at \in {"emit", "operator", "escalate"},
         Carries(l, layerLoop[l].finding) =>
             Settles(layerLoop[l].finding)' \/ Carries(l, layerLoop[l].finding)'
  PROVE  ReviewInv'
<1>1. LoopShape /\ TicksAfter /\ WindowsMeet /\ NoReviewLost
  BY DEF ReviewInv
<1>2. /\ layerLoop'[l].at = at /\ layerLoop'[l].buf = buf
      /\ layerLoop'[l].finding = layerLoop[l].finding
  OBVIOUS
<1>3. LoopShape'
  BY <1>1, <1>2 DEF LoopShape
<1>4. TicksAfter' /\ WindowsMeet'
  BY <1>1 DEF TicksAfter, WindowsMeet, ArchReviews
<1>5. ASSUME NEW f \in reviews' PROVE Settles(f)' \/ \E k \in Layer : Carries(k, f)'
  <2>1. CASE Settles(f)
    BY <2>1, AskedStays DEF Settles
  <2>2. CASE \E k \in Layer \ {l} : Carries(k, f)
    <3>1. PICK k \in Layer \ {l} : Carries(k, f)
      BY <2>2
    <3>2. layerLoop'[k] = layerLoop[k]
      BY <3>1
    <3>3. Carries(k, f)'
      BY <3>1, <3>2, AskedStays DEF Carries
    <3> QED BY <3>3
  <2>3. CASE Carries(l, f)
    <3>1. f = layerLoop[l].finding
      BY <2>3 DEF Carries
    <3> QED BY <2>3, <3>1
  <2> QED BY <1>1, <2>1, <2>2, <2>3 DEF NoReviewLost
<1>6. ASSUME NEW k \in Layer, layerLoop'[k].at \in {"emit", "operator", "escalate"}
      PROVE  /\ layerLoop'[k].finding.layer = k
             /\ layerLoop'[k].finding.disagreement => layerLoop'[k].finding.verdict = "needs_fix"
  <2>1. CASE k = l
    BY <1>1, <1>2, <1>6, <2>1 DEF NoReviewLost
  <2>2. CASE k # l
    BY <1>1, <1>6, <2>2 DEF NoReviewLost
  <2> QED BY <2>1, <2>2
<1>7. NoReviewLost'
  BY <1>5, <1>6 DEF NoReviewLost
<1> QED BY <1>3, <1>4, <1>7 DEF ReviewInv

LEMMA SameTickers ==
  ASSUME ReviewInv, UNCHANGED ticker
  PROVE  /\ DOMAIN ticker' = Layer
         /\ \A l \in Layer : /\ ticker'[l] = [due |-> ticker'[l].due, c |-> ticker'[l].c]
                             /\ \A t \in ticker'[l].c : t \in ticker[l].c
BY DEF ReviewInv, LoopShape

LEMMA ClockInv == ASSUME ReviewInv, hraRun # "returned", ClockAdvances PROVE ReviewInv'
<1>1. LoopShape /\ hraClock \in Nat /\ MaxHraClock \in Nat /\ hraClock' = hraClock + 1
  BY CadenceAssumption DEF ReviewInv, LoopShape, ClockAdvances
<1>2. UNCHANGED <<layerLoop, lastArchAt, hraRows, reviews, hraRun>> /\ DOMAIN ticker' = Layer
  BY DEF ClockAdvances
<1>3. ASSUME NEW l \in Layer
      PROVE  /\ ticker'[l] = [due |-> ticker'[l].due, c |-> ticker'[l].c]
             /\ \A t \in ticker'[l].c : t \in ticker[l].c \/ (t = hraClock' /\ t = hraClock + 1)
  <2>1. CASE ticker'[l] = ticker[l]
    BY <1>1, <2>1 DEF LoopShape
  <2>2. CASE ticker'[l] = [due |-> hraClock' + Cadence[l],
                           c |-> IF ticker[l].c = {} THEN {hraClock'} ELSE ticker[l].c]
    BY <1>1, <2>2
  <2> QED BY <2>1, <2>2 DEF ClockAdvances
<1> QED BY <1>1, <1>2, <1>3, OutsideLoops

LEMMA OutsideInv ==
  ASSUME ReviewInv, hraRun # "returned",
         \/ \E w \in Reviewers : ReportAppended(w) \/ \E l \in Layer : ReportStamped(w, l)
         \/ Cancel
         \/ RunEnds
  PROVE  ReviewInv'
<1>1. UNCHANGED <<hraClock, ticker, layerLoop, lastArchAt, hraRows, reviews>>
  BY DEF ReportStamped, ReportAppended, Cancel, RunEnds
<1>2. hraRun' = "returned" => \A l \in Layer : layerLoop[l].at = "ended"
  BY DEF ReportStamped, ReportAppended, Cancel, RunEnds
<1>3. hraClock' \in Nat /\ hraClock <= hraClock'
  BY <1>1 DEF ReviewInv, LoopShape
<1> QED BY <1>1, <1>2, <1>3, SameTickers, OutsideLoops

\* Where a loop goes: all but its place stays.
LEMMA GoesIs ==
  ASSUME ReviewInv, NEW l \in Layer, NEW at, LoopGoes(l, at)
  PROVE  /\ DOMAIN layerLoop' = Layer
         /\ layerLoop'[l] = [at |-> at, buf |-> layerLoop[l].buf, finding |-> layerLoop[l].finding]
         /\ \A k \in Layer \ {l} : layerLoop'[k] = layerLoop[k]
<1>1. DOMAIN layerLoop = Layer
  BY DEF ReviewInv, LoopShape
<1>2. layerLoop[l] = [at |-> layerLoop[l].at, buf |-> layerLoop[l].buf, finding |-> layerLoop[l].finding]
  BY DEF ReviewInv, LoopShape
<1>3. /\ DOMAIN layerLoop' = Layer /\ layerLoop'[l] = [layerLoop[l] EXCEPT !.at = at]
      /\ \A k \in Layer \ {l} : layerLoop'[k] = layerLoop[k]
  BY <1>1 DEF LoopGoes
<1>4. [layerLoop[l] EXCEPT !.at = at] =
          [at |-> at, buf |-> layerLoop[l].buf, finding |-> layerLoop[l].finding]
  BY <1>2
<1> QED BY <1>3, <1>4

LEMMA CollectInv == ASSUME ReviewInv, hraRun # "returned", NEW l \in Layer, Collect(l) PROVE ReviewInv'
<1> DEFINE b == Append(layerLoop[l].buf, Head(inbox[l]))
<1>1. layerLoop[l].at = "select" /\ "select" \in LoopAt
      /\ UNCHANGED <<hraClock, ticker, lastArchAt, hraRun, hraRows, reviews>>
  BY DEF Collect, LoopAt
<1>2. DOMAIN layerLoop = Layer
  BY DEF ReviewInv, LoopShape
<1>3. layerLoop[l] = [at |-> layerLoop[l].at, buf |-> layerLoop[l].buf, finding |-> layerLoop[l].finding]
  BY DEF ReviewInv, LoopShape
<1>4. /\ DOMAIN layerLoop' = Layer /\ layerLoop'[l] = [layerLoop[l] EXCEPT !.buf = b]
      /\ \A k \in Layer \ {l} : layerLoop'[k] = layerLoop[k]
  BY <1>2 DEF Collect
<1>5. ~Carries(l, layerLoop[l].finding)
  BY <1>1 DEF Carries
<1> HIDE DEF b
<1>6. layerLoop'[l] = [at |-> "select", buf |-> b, finding |-> layerLoop[l].finding]
  BY <1>1, <1>3, <1>4
<1> QED BY <1>1, <1>4, <1>5, <1>6, LayerLoopKeeps

LEMMA EmitReviewInv ==
  ASSUME ReviewInv, hraRun # "returned", NEW l \in Layer, EmitReview(l) PROVE ReviewInv'
<1> DEFINE f == layerLoop[l].finding
<1>1. /\ layerLoop[l].at = "emit" /\ UNCHANGED <<hraClock, ticker, lastArchAt, hraRun, reviews>>
      /\ hraRows \subseteq hraRows' /\ Asked("review", f)'
      /\ f.layer = l /\ (f.disagreement => f.verdict = "needs_fix")
  <2>1. UNCHANGED <<hraClock, ticker, lastArchAt, hraRun, reviews>> /\ layerLoop[l].at = "emit"
    BY DEF EmitReview
  <2>2. hraRows' = hraRows \cup {[type |-> "review", of |-> f]}
    BY DEF EmitReview, AskLog
  <2>3. f' = f
    <3>1. PICK at : LoopGoes(l, at)
      BY DEF EmitReview
    <3>2. layerLoop'[l] = [at |-> at, buf |-> layerLoop[l].buf, finding |-> layerLoop[l].finding]
      BY <3>1, GoesIs
    <3> QED BY <3>2
  <2>4. f.layer = l /\ (f.disagreement => f.verdict = "needs_fix")
    BY <2>1 DEF ReviewInv, NoReviewLost
  <2> QED BY <2>1, <2>2, <2>3, <2>4 DEF Asked
<1>2. ASSUME NEW at \in LoopAt, LoopGoes(l, at), at # "ended",
             Settles(f)' \/ Carries(l, f)'
      PROVE  ReviewInv'
  <2>1. /\ DOMAIN layerLoop' = Layer
        /\ layerLoop'[l] = [at |-> at, buf |-> layerLoop[l].buf, finding |-> layerLoop[l].finding]
        /\ \A k \in Layer \ {l} : layerLoop'[k] = layerLoop[k]
    BY <1>2, GoesIs
  <2>2. layerLoop[l].at # "ended" /\ layerLoop[l].at \in {"emit", "operator", "escalate"}
    BY <1>1
  <2> QED BY <1>1, <1>2, <2>1, <2>2, LayerLoopKeeps
<1>3. ASSUME NEW at, LoopGoes(l, at) PROVE f' = f /\ layerLoop'[l].at = at
  <2>1. layerLoop'[l] = [at |-> at, buf |-> layerLoop[l].buf, finding |-> layerLoop[l].finding]
    BY <1>3, GoesIs
  <2> QED BY <2>1
<1>4. "select" \in LoopAt /\ "operator" \in LoopAt /\ "escalate" \in LoopAt
  BY DEF LoopAt
<1> HIDE DEF f
<1>5. CASE l \in Feeder /\ LoopGoes(l, IF f.disagreement THEN "escalate" ELSE "select")
  <2>1. l # "architectural"
    BY <1>5 DEF Feeder
  <2>2. CASE f.disagreement
    <3>1. LoopGoes(l, "escalate")
      BY <1>5, <2>2
    <3>2. Carries(l, f)'
      <4>1. f' = f /\ layerLoop'[l].at = "escalate"
        BY <1>3, <3>1
      <4> QED BY <1>1, <2>1, <4>1 DEF Carries, f
    <3> QED BY <1>2, <1>4, <3>1, <3>2
  <2>3. CASE ~f.disagreement
    <3>1. LoopGoes(l, "select")
      BY <1>5, <2>3
    <3>2. Settles(f)'
      BY <1>1, <1>3, <2>1, <2>3, <3>1 DEF Settles
    <3> QED BY <1>2, <1>4, <3>1, <3>2
  <2> QED BY <2>2, <2>3
<1>6. CASE l \notin Feeder /\ LoopGoes(l, IF f.verdict = "needs_fix" THEN "operator" ELSE "select")
  <2>1. CASE f.verdict = "needs_fix"
    <3>1. LoopGoes(l, "operator")
      BY <1>6, <2>1
    <3>2. Carries(l, f)'
      <4>1. f' = f /\ layerLoop'[l].at = "operator"
        BY <1>3, <3>1
      <4> QED BY <1>1, <4>1 DEF Carries, f
    <3> QED BY <1>2, <1>4, <3>1, <3>2
  <2>2. CASE f.verdict # "needs_fix"
    <3>1. LoopGoes(l, "select")
      BY <1>6, <2>2
    <3>2. Settles(f)'
      BY <1>1, <1>3, <2>2, <3>1 DEF Settles
    <3> QED BY <1>2, <1>4, <3>1, <3>2
  <2> QED BY <2>1, <2>2
<1> QED BY <1>5, <1>6 DEF EmitReview, f

LEMMA EscalateInv ==
  ASSUME ReviewInv, hraRun # "returned", NEW l \in Layer,
         EmitEscalation(l) \/ HandleDisagreement(l) \/ LoopEnds(l)
  PROVE  ReviewInv'
<1> DEFINE f == layerLoop[l].finding
<1>1. UNCHANGED <<hraClock, ticker, lastArchAt, hraRun, reviews>>
  BY DEF EmitEscalation, HandleDisagreement, LoopEnds
<1>2. "select" \in LoopAt /\ "escalate" \in LoopAt /\ "ended" \in LoopAt
  BY DEF LoopAt
<1>3. ASSUME NEW at, LoopGoes(l, at) PROVE f' = f /\ layerLoop'[l].at = at
  <2>1. layerLoop'[l] = [at |-> at, buf |-> layerLoop[l].buf, finding |-> layerLoop[l].finding]
    BY <1>3, GoesIs
  <2> QED BY <2>1
<1>4. CASE EmitEscalation(l)
  <2>1. /\ layerLoop[l].at = "operator" /\ LoopGoes(l, "escalate")
        /\ hraRows' = hraRows \cup {[type |-> "operator", of |-> f]}
    BY <1>4 DEF EmitEscalation, AskLog
  <2>2. Carries(l, f) => Carries(l, f)'
    <3>1. f' = f /\ layerLoop'[l].at = "escalate"
      BY <1>3, <2>1
    <3>2. Asked("operator", f)' /\ (Asked("review", f) => Asked("review", f)')
      BY <2>1, <3>1 DEF Asked
    <3> QED BY <2>1, <3>1, <3>2 DEF Carries
  <2>3. /\ DOMAIN layerLoop' = Layer
        /\ layerLoop'[l] = [at |-> "escalate", buf |-> layerLoop[l].buf, finding |-> layerLoop[l].finding]
        /\ \A k \in Layer \ {l} : layerLoop'[k] = layerLoop[k]
    BY <2>1, GoesIs
  <2>4. hraRows \subseteq hraRows' /\ layerLoop[l].at # "ended"
    BY <2>1
  <2> QED BY <1>1, <1>2, <2>1, <2>2, <2>3, <2>4, LayerLoopKeeps
<1>5. CASE HandleDisagreement(l)
  <2>1. /\ layerLoop[l].at = "escalate" /\ LoopGoes(l, "select")
        /\ hraRows' = hraRows \cup {[type |-> "escalation", of |-> f]}
    BY <1>5 DEF HandleDisagreement, AskLog
  <2>2. Carries(l, f) => Settles(f)'
    <3>1. f' = f
      BY <1>3, <2>1
    <3>2. /\ Asked("escalation", f)' /\ (Asked("review", f) => Asked("review", f)')
          /\ Asked("operator", f) => Asked("operator", f)'
      BY <2>1, <3>1 DEF Asked
    <3> QED BY <2>1, <3>1, <3>2 DEF Carries, Settles
  <2>3. /\ DOMAIN layerLoop' = Layer
        /\ layerLoop'[l] = [at |-> "select", buf |-> layerLoop[l].buf, finding |-> layerLoop[l].finding]
        /\ \A k \in Layer \ {l} : layerLoop'[k] = layerLoop[k]
    BY <2>1, GoesIs
  <2>4. hraRows \subseteq hraRows' /\ layerLoop[l].at # "ended"
    BY <2>1
  <2> QED BY <1>1, <1>2, <2>1, <2>2, <2>3, <2>4, LayerLoopKeeps
<1>6. CASE LoopEnds(l)
  <2>1. layerLoop[l].at = "select" /\ LoopGoes(l, "ended") /\ UNCHANGED hraRows
    BY <1>6 DEF LoopEnds
  <2>2. ~Carries(l, f)
    BY <2>1 DEF Carries
  <2>3. /\ DOMAIN layerLoop' = Layer
        /\ layerLoop'[l] = [at |-> "ended", buf |-> layerLoop[l].buf, finding |-> layerLoop[l].finding]
        /\ \A k \in Layer \ {l} : layerLoop'[k] = layerLoop[k]
    BY <2>1, GoesIs
  <2> QED BY <1>1, <1>2, <2>1, <2>2, <2>3, LayerLoopKeeps
<1> QED BY <1>4, <1>5, <1>6

\* A review starts where the last architectural one with records ended.
LEMMA ReviewStepInv ==
  ASSUME ReviewInv, hraRun # "returned", NEW l \in Layer, Review(l) PROVE ReviewInv'
<1>1. LoopShape /\ TicksAfter /\ WindowsMeet /\ NoReviewLost
  BY DEF ReviewInv
<1> DEFINE t == CHOOSE u \in ticker[l].c : TRUE
           f == AggregateLayer(l, layerLoop[l].buf, Since(l, t), t)
<1>2. t \in ticker[l].c /\ layerLoop[l].at = "select" /\ UNCHANGED <<hraClock, hraRun, hraRows>>
  BY DEF Review
<1>3. /\ t \in Nat /\ t <= hraClock /\ (l = "architectural" => lastArchAt < t)
      /\ Cadence[l] \in Nat /\ Cadence[l] > 0 /\ hraClock \in Nat /\ lastArchAt \in Int
  BY <1>1, <1>2, CadenceAssumption DEF TicksAfter, LoopShape
<1>4. /\ DOMAIN ticker' = Layer
      /\ \A k \in Layer : /\ ticker'[k] = [due |-> ticker'[k].due, c |-> ticker'[k].c]
                          /\ \A u \in ticker'[k].c : u \in ticker[k].c /\ k # l
  <2>1. DOMAIN ticker = Layer /\ ticker' = [ticker EXCEPT ![l] = [ticker[l] EXCEPT !.c = {}]]
    BY <1>1 DEF LoopShape, Review
  <2>2. ticker[l] = [due |-> ticker[l].due, c |-> ticker[l].c]
    BY <1>1 DEF LoopShape
  <2>3. [ticker[l] EXCEPT !.c = {}] = [due |-> ticker[l].due, c |-> {}]
    BY <2>2
  <2>4. /\ DOMAIN ticker' = Layer /\ ticker'[l] = [due |-> ticker[l].due, c |-> {}]
        /\ \A k \in Layer : k # l => ticker'[k] = ticker[k]
    BY <2>1, <2>3
  <2>5. ticker'[l] = [due |-> ticker'[l].due, c |-> ticker'[l].c] /\ ticker'[l].c = {}
    BY <2>4
  <2> QED BY <1>1, <2>4, <2>5 DEF LoopShape
<1>5. CASE UNCHANGED <<layerLoop, lastArchAt, reviews>>
  BY <1>2, <1>3, <1>4, <1>5, OutsideLoops
<1>6. CASE /\ layerLoop' = [layerLoop EXCEPT ![l] = [at |-> "emit", buf |-> <<>>, finding |-> f]]
           /\ lastArchAt' = IF l = "architectural" THEN t ELSE lastArchAt
           /\ reviews' = reviews \cup {f}
  <2>1. /\ f.layer = l /\ f.since = Since(l, t) /\ f.until = t
        /\ f.disagreement => f.verdict = "needs_fix"
    BY AggregateIs
  <2> HIDE DEF f, t
  <2>2. f.since \in Int /\ f.since < f.until /\ f.until \in Int
        /\ (l = "architectural" /\ lastArchAt >= 0 => f.since = lastArchAt)
    BY <1>3, <2>1 DEF Since
  <2>3. /\ DOMAIN layerLoop' = Layer
        /\ layerLoop'[l] = [at |-> "emit", buf |-> <<>>, finding |-> f]
        /\ \A k \in Layer : k # l => layerLoop'[k] = layerLoop[k]
    BY <1>1, <1>6 DEF LoopShape
  <2>4. layerLoop'[l].at = "emit" /\ layerLoop'[l].buf = <<>> /\ layerLoop'[l].finding = f
    BY <2>3
  <2>5. LoopShape'
    BY <1>1, <1>2, <1>3, <1>4, <2>3, <2>4 DEF LoopShape, LoopAt
  <2>6. TicksAfter'
    BY <1>1, <1>2, <1>3, <1>4, <1>6 DEF TicksAfter
  <2>7. WindowsMeet'
    <3>1. CASE l # "architectural"
      <4>1. ArchReviews' = ArchReviews /\ lastArchAt' = lastArchAt
        BY <1>6, <2>1, <3>1 DEF ArchReviews
      <4> QED BY <1>1, <4>1 DEF WindowsMeet
    <3>2. CASE l = "architectural"
      <4>1. ArchReviews' = ArchReviews \cup {f} /\ lastArchAt' = t /\ lastArchAt < t /\ f.until = t
        BY <1>3, <1>6, <2>1, <3>2 DEF ArchReviews
      <4>2. \A g \in ArchReviews : g.since \in Int /\ g.until \in Int /\ g.until <= lastArchAt /\ g.until < t
        BY <1>1, <1>3, <4>1 DEF WindowsMeet
      <4>3. \A g \in ArchReviews : g.until <= f.since
        BY <1>1, <1>3, <2>2, <3>2, <4>2 DEF WindowsMeet
      <4>4. ArchReviews # {} => \E g \in ArchReviews : g.until = f.since
        BY <1>1, <1>3, <2>2, <3>2 DEF WindowsMeet
      <4>5. ASSUME NEW h \in ArchReviews'
            PROVE  /\ h.since \in Int /\ h.until \in Int /\ h.since < h.until /\ h.until <= t
                   /\ \A g \in ArchReviews' : g.until < h.until => g.until <= h.since
                   /\ (\E g \in ArchReviews' : g.until < h.until) =>
                          \E g \in ArchReviews' : g.until = h.since
        <5>1. CASE h = f
          BY <1>3, <2>2, <4>1, <4>2, <4>3, <4>4, <5>1
        <5>2. CASE h \in ArchReviews
          <6>1. /\ h.since \in Int /\ h.until \in Int /\ h.since < h.until /\ h.until < t
                /\ \A g \in ArchReviews : g.until < h.until => g.until <= h.since
                /\ (\E g \in ArchReviews : g.until < h.until) =>
                       \E g \in ArchReviews : g.until = h.since
            BY <1>1, <4>2, <5>2 DEF WindowsMeet
          <6>2. ~(f.until < h.until)
            BY <1>3, <4>1, <6>1
          <6> QED BY <1>3, <4>1, <6>1, <6>2
        <5> QED BY <4>1, <5>1, <5>2
      <4> QED BY <1>3, <4>1, <4>5 DEF WindowsMeet
    <3> QED BY <3>1, <3>2
  <2>8. NoReviewLost'
    <3>1. ASSUME NEW h \in reviews' PROVE Settles(h)' \/ \E k \in Layer : Carries(k, h)'
      <4>1. CASE h = f
        <5>1. Carries(l, h)'
          BY <2>4, <4>1 DEF Carries
        <5> QED BY <5>1
      <4>2. CASE Settles(h)
        BY <1>2, <4>2 DEF Settles, Asked
      <4>3. CASE \E k \in Layer : Carries(k, h)
        <5>1. PICK k \in Layer : Carries(k, h)
          BY <4>3
        <5>2. k # l
          BY <1>2, <5>1 DEF Carries
        <5>3. layerLoop'[k] = layerLoop[k]
          BY <2>3, <5>2
        <5>4. Carries(k, h)'
          BY <1>2, <5>1, <5>3 DEF Carries, Asked
        <5> QED BY <5>4
      <4> QED BY <1>1, <1>6, <3>1, <4>1, <4>2, <4>3 DEF NoReviewLost
    <3>2. ASSUME NEW k \in Layer, layerLoop'[k].at \in {"emit", "operator", "escalate"}
          PROVE  /\ layerLoop'[k].finding.layer = k
                 /\ layerLoop'[k].finding.disagreement => layerLoop'[k].finding.verdict = "needs_fix"
      <4>1. CASE k = l
        BY <2>1, <2>4, <4>1
      <4>2. CASE k # l
        BY <1>1, <2>3, <3>2, <4>2 DEF NoReviewLost
      <4> QED BY <4>1, <4>2
    <3> QED BY <1>2, <3>1, <3>2 DEF NoReviewLost
  <2> QED BY <2>5, <2>6, <2>7, <2>8 DEF ReviewInv
<1> QED BY <1>5, <1>6 DEF Review

LEMMA HraNextInv == ReviewInv /\ [HraNext]_hraVars => ReviewInv'
<1> SUFFICES ASSUME ReviewInv, [HraNext]_hraVars PROVE ReviewInv'
  OBVIOUS
<1>1. CASE HraNext
  <2>1. hraRun # "returned"
    BY <1>1 DEF HraNext
  <2>2. CASE ClockAdvances
    BY <2>1, <2>2, ClockInv
  <2>3. CASE \/ \E w \in Reviewers : ReportAppended(w) \/ \E l \in Layer : ReportStamped(w, l)
             \/ Cancel
             \/ RunEnds
    BY <2>1, <2>3, OutsideInv
  <2>4. CASE \E l \in Layer : LayerStep(l) \/ LoopEnds(l)
    BY <2>1, <2>4, CollectInv, ReviewStepInv, EmitReviewInv, EscalateInv DEF LayerStep
  <2> QED BY <1>1, <2>2, <2>3, <2>4 DEF HraNext, Feeder
<1>2. CASE UNCHANGED hraVars
  BY <1>2 DEF hraVars, ReviewInv, LoopShape, TicksAfter, WindowsMeet, NoReviewLost, ArchReviews,
      Settles, Carries, Asked
<1> QED BY <1>1, <1>2

\* For any reviewers, periods and subscription size: the windows of the architectural
\* reviews meet without gap or overlap, and when Run has returned every review that had
\* records was appended with all that is due for it.
THEOREM ReviewsCorrect == HraSpec => []ReviewsSound
<1>1. HraSpec => []ReviewInv
  BY HraInitInv, HraNextInv, PTL DEF HraSpec
<1> QED BY <1>1, ReviewInvSound, PTL

-----------------------------------------------------------------------------
(* What the inductive invariants say of types                              *)

LEMMA WorkTyped == WorkforceSpec => []WorkforceTypeOK
<1>1. WorkInv => WorkforceTypeOK
  <2> SUFFICES ASSUME WorkInv PROVE WorkforceTypeOK
    OBVIOUS
  <2>1. \A r \in BoardRow : board[r].status \in Status
    BY DEF WorkInv, WorkShape, RowState
  <2>2. /\ prompts \subseteq WorkerRun /\ step \in [Actor -> StepName] /\ behind \subseteq Actor
        /\ result \in [Actor -> Result] /\ session \in [Lead -> Lead]
    BY DEF WorkInv, WorkShape
  <2> QED BY <2>1, <2>2 DEF WorkforceTypeOK, StepName
<1> QED BY <1>1, WorkInitInv, WorkNextInv, PTL DEF WorkforceSpec

-----------------------------------------------------------------------------
(* ReviewCadence: a subscription and a ticker stay within their sizes      *)

\* A sequence of anything.
IsQueue(s) == \E T : s \in Seq(T)

LEMMA QueueMoves ==
  ASSUME NEW s, IsQueue(s)
  PROVE  /\ Len(s) \in Nat
         /\ \A x : IsQueue(Append(s, x)) /\ Len(Append(s, x)) = Len(s) + 1
         /\ s # <<>> => IsQueue(Tail(s)) /\ Len(Tail(s)) = Len(s) - 1
         /\ Len(s) > 0 => s # <<>>
<1>1. PICK T : s \in Seq(T)
  BY DEF IsQueue
<1>2. ASSUME NEW x PROVE Append(s, x) \in Seq(T \cup {x}) /\ Len(Append(s, x)) = Len(s) + 1
  <2>1. s \in Seq(T \cup {x})
    BY <1>1
  <2> QED BY <2>1
<1>3. ASSUME s # <<>> PROVE Tail(s) \in Seq(T) /\ Len(Tail(s)) = Len(s) - 1
  BY <1>1, <1>3
<1>4. Len(s) \in Nat /\ (Len(s) > 0 => s # <<>>)
  BY <1>1
<1> QED BY <1>2, <1>3, <1>4 DEF IsQueue

\* A subscription holds no more than its buffer, and a ticker one tick.
InboxBounds ==
    /\ DOMAIN inbox = Layer
    /\ \A l \in Layer : IsQueue(inbox[l]) /\ Len(inbox[l]) <= SubscriptionSize
TickerBounds ==
    /\ \A l \in Layer : ticker[l].c = {} \/ \E t : ticker[l].c = {t}
    /\ hraClock <= MaxHraClock

LEMMA InboxKeeps ==
  ASSUME InboxBounds, NEW l, NEW stamp, NEW verdict, Publish(l, stamp, verdict)
  PROVE  InboxBounds'
<1>1. CASE inbox' = inbox
  BY <1>1 DEF InboxBounds
<1>2. CASE l \notin Layer
  <2>1. inbox' = inbox \/ (DOMAIN inbox' = DOMAIN inbox /\ \A k \in Layer : inbox'[k] = inbox[k])
    BY <1>2 DEF Publish, InboxBounds
  <2> QED BY <2>1 DEF InboxBounds
<1>3. CASE inbox' # inbox /\ l \in Layer
  <2> DEFINE room == IF Len(inbox[l]) = SubscriptionSize THEN Tail(inbox[l]) ELSE inbox[l]
             x == [stamp |-> stamp, verdict |-> verdict]
  <2>1. inbox' = [inbox EXCEPT ![l] = Append(room, x)]
    BY <1>3 DEF Publish
  <2>2. /\ IsQueue(inbox[l]) /\ Len(inbox[l]) <= SubscriptionSize /\ SubscriptionSize \in Nat \ {0}
        /\ Len(inbox[l]) \in Nat
    BY <1>3, CadenceAssumption, QueueMoves DEF InboxBounds
  <2>3. IsQueue(room) /\ Len(room) < SubscriptionSize /\ Len(room) \in Nat
    <3>1. CASE Len(inbox[l]) = SubscriptionSize
      <4>1. inbox[l] # <<>> /\ IsQueue(Tail(inbox[l])) /\ Len(Tail(inbox[l])) = Len(inbox[l]) - 1
        BY <2>2, <3>1, QueueMoves
      <4> QED BY <2>2, <3>1, <4>1
    <3>2. CASE Len(inbox[l]) # SubscriptionSize
      BY <2>2, <3>2
    <3> QED BY <3>1, <3>2
  <2> HIDE DEF room, x
  <2>4. IsQueue(Append(room, x)) /\ Len(Append(room, x)) = Len(room) + 1
    BY <2>3, QueueMoves
  <2>5. IsQueue(Append(room, x)) /\ Len(Append(room, x)) <= SubscriptionSize
    BY <2>2, <2>3, <2>4
  <2>6. DOMAIN inbox' = Layer /\ \A k \in Layer : inbox'[k] = IF k = l THEN Append(room, x) ELSE inbox[k]
    BY <2>1 DEF InboxBounds
  <2> QED BY <2>5, <2>6 DEF InboxBounds
<1> QED BY <1>1, <1>2, <1>3

LEMMA ReviewStays ==
  ASSUME ReviewInv, InboxBounds, TickerBounds, [HraNext]_hraVars
  PROVE  InboxBounds' /\ TickerBounds'
<1>0. DOMAIN ticker = Layer /\ \A l \in Layer : ticker[l] = [due |-> ticker[l].due, c |-> ticker[l].c]
  BY DEF ReviewInv, LoopShape
<1>1. CASE ClockAdvances
  <2>1. inbox' = inbox /\ hraClock' <= MaxHraClock
    BY <1>1, CadenceAssumption DEF ClockAdvances, ReviewInv, LoopShape
  <2>2. \A l \in Layer : ticker'[l].c = ticker[l].c \/ ticker'[l].c = {hraClock'}
    BY <1>1 DEF ClockAdvances
  <2> QED BY <2>1, <2>2 DEF InboxBounds, TickerBounds
<1>2. CASE \/ Cancel \/ RunEnds \/ UNCHANGED hraVars
           \/ \E w \in Reviewers : \E l \in Feeder : ReportStamped(w, l)
           \/ \E l \in Layer : EmitEscalation(l) \/ HandleDisagreement(l) \/ LoopEnds(l)
  <2>1. UNCHANGED <<inbox, ticker, hraClock>>
    BY <1>2 DEF Cancel, RunEnds, hraVars, ReportStamped, EmitEscalation, HandleDisagreement, LoopEnds
  <2> QED BY <2>1 DEF InboxBounds, TickerBounds
<1>3. ASSUME NEW w \in Reviewers, ReportAppended(w) PROVE InboxBounds' /\ TickerBounds'
  <2>1. Publish(report[w].to, report[w].stamp, Opinion[w]) /\ UNCHANGED <<ticker, hraClock>>
    BY <1>3 DEF ReportAppended
  <2> QED BY <2>1, InboxKeeps DEF TickerBounds
<1>4. ASSUME NEW l \in Layer, Collect(l) PROVE InboxBounds' /\ TickerBounds'
  <2>1. inbox[l] # <<>> /\ inbox' = [inbox EXCEPT ![l] = Tail(@)] /\ UNCHANGED <<ticker, hraClock>>
    BY <1>4 DEF Collect
  <2>2. IsQueue(inbox[l]) /\ Len(inbox[l]) <= SubscriptionSize /\ SubscriptionSize \in Nat
    BY CadenceAssumption DEF InboxBounds
  <2>3. IsQueue(Tail(inbox[l])) /\ Len(Tail(inbox[l])) = Len(inbox[l]) - 1 /\ Len(inbox[l]) \in Nat
    BY <2>1, <2>2, QueueMoves
  <2>4. DOMAIN inbox' = Layer /\ \A k \in Layer : inbox'[k] = IF k = l THEN Tail(inbox[l]) ELSE inbox[k]
    BY <2>1 DEF InboxBounds
  <2>5. Len(Tail(inbox[l])) <= SubscriptionSize
    BY <2>2, <2>3
  <2> QED BY <2>1, <2>3, <2>4, <2>5 DEF InboxBounds, TickerBounds
<1>5. ASSUME NEW l \in Layer, Review(l) PROVE InboxBounds' /\ TickerBounds'
  <2>1. ticker' = [ticker EXCEPT ![l].c = {}] /\ UNCHANGED <<inbox, hraClock>>
    BY <1>5 DEF Review
  <2>2. ticker'[l] = [ticker[l] EXCEPT !.c = {}] /\ \A k \in Layer : k # l => ticker'[k] = ticker[k]
    BY <1>0, <2>1
  <2>3. ticker'[l].c = {}
    <3>1. \A x, y : "c" \in DOMAIN [due |-> x, c |-> y]
      OBVIOUS
    <3>2. "c" \in DOMAIN ticker[l]
      BY <1>0, <3>1, Zenon
    <3>3. PICK t : t = ticker[l]
      OBVIOUS
    <3>4. [t EXCEPT !.c = {}].c = {}
      BY <3>2, <3>3
    <3> QED BY <2>2, <3>3, <3>4, Zenon
  <2>4. InboxBounds'
    BY <2>1 DEF InboxBounds
  <2>5. ASSUME NEW k \in Layer PROVE ticker'[k].c = {} \/ \E t : ticker'[k].c = {t}
    <3>1. CASE k = l
      BY <2>3, <3>1, Zenon
    <3>2. CASE k # l
      BY <2>2, <3>2, Zenon DEF TickerBounds
    <3> QED BY <3>1, <3>2
  <2>6. hraClock' <= MaxHraClock
    BY <2>1 DEF TickerBounds
  <2> QED BY <2>4, <2>5, <2>6, Zenon DEF TickerBounds
<1>6. ASSUME NEW l \in Layer, EmitReview(l) PROVE InboxBounds' /\ TickerBounds'
  <2>1. UNCHANGED <<ticker, hraClock>>
    BY <1>6 DEF EmitReview
  <2>2. \/ inbox' = inbox
        \/ Publish("architectural", layerLoop[l].finding.until, layerLoop[l].finding.verdict)
    BY <1>6 DEF EmitReview
  <2>3. InboxBounds'
    BY <2>2, InboxKeeps DEF InboxBounds
  <2> QED BY <2>1, <2>3 DEF TickerBounds
<1> QED BY <1>1, <1>2, <1>3, <1>4, <1>5, <1>6 DEF HraNext, LayerStep

LEMMA ReviewTyped == HraSpec => []HraTypeOK
<1> DEFINE RunAt == hraRun \in {"running", "cancelled", "closed", "returned"}
<1>1. HraInit => InboxBounds /\ TickerBounds /\ RunAt
  <2> SUFFICES ASSUME HraInit PROVE InboxBounds /\ TickerBounds /\ RunAt
    OBVIOUS
  <2>1. /\ inbox = [l \in Layer |-> <<>>] /\ hraClock = 0 /\ hraRun = "running"
        /\ \A l \in Layer : ticker[l].c = {}
    BY DEF HraInit
  <2>2. IsQueue(<<>>) /\ Len(<<>>) = 0
    <3>1. <<>> \in Seq({})
      OBVIOUS
    <3> QED BY <3>1 DEF IsQueue
  <2>3. \A l \in Layer : inbox[l] = <<>>
    BY <2>1
  <2>4. \A l \in Layer : IsQueue(inbox[l]) /\ Len(inbox[l]) = 0
    BY <2>2, <2>3
  <2>5. InboxBounds
    BY <2>1, <2>4, CadenceAssumption DEF InboxBounds
  <2>6. TickerBounds
    BY <2>1, CadenceAssumption DEF TickerBounds
  <2> QED BY <2>1, <2>5, <2>6
<1>2. RunAt /\ [HraNext]_hraVars => RunAt'
  <2> SUFFICES ASSUME RunAt, [HraNext]_hraVars PROVE RunAt'
    OBVIOUS
  <2>1. hraRun' = hraRun \/ hraRun' \in {"cancelled", "closed", "returned"}
    BY DEF HraNext, ClockAdvances, Cancel, RunEnds, ReportStamped, ReportAppended, LayerStep, Collect, Review,
           EmitReview, EmitEscalation, HandleDisagreement, LoopEnds, hraVars
  <2> QED BY <2>1
<1>3. ReviewInv /\ InboxBounds /\ TickerBounds /\ RunAt => HraTypeOK
  <2> SUFFICES ASSUME ReviewInv, InboxBounds, TickerBounds, RunAt PROVE HraTypeOK
    OBVIOUS
  <2>1. \A l \in Layer : Cardinality(ticker[l].c) <= 1
    <3> TAKE l \in Layer
    <3>1. ticker[l].c = {} \/ \E t : ticker[l].c = {t}
      BY DEF TickerBounds
    <3>2. Cardinality(ticker[l].c) = 0 \/ Cardinality(ticker[l].c) = 1
      BY <3>1, FS_EmptySet, FS_Singleton
    <3> QED BY <3>2
  <2>2. lastArchAt \in -1..MaxHraClock
    BY CadenceAssumption DEF ReviewInv, TicksAfter, LoopShape, TickerBounds
  <2>3. \A l \in Layer : layerLoop[l].at \in {"select", "emit", "operator", "escalate", "ended"}
    BY DEF ReviewInv, LoopShape, LoopAt
  <2> QED BY <2>1, <2>2, <2>3 DEF InboxBounds, HraTypeOK
<1> HIDE DEF RunAt
<1> QED BY <1>1, <1>2, <1>3, ReviewStays, HraInitInv, HraNextInv, PTL DEF HraSpec

=============================================================================
