------------------------------ MODULE LogProofs ------------------------------
(***************************************************************************)
(* Proofs about the parts that keep a record others rely on: the merge     *)
(* engine's outcome cache and branches (MergeEngine), the event log's      *)
(* subscribers (EventLog) and the cost ledger with the windows of its      *)
(* counters (CostLedger).                                                  *)
(***************************************************************************)
EXTENDS MergeEngine, EventLog, CostLedger, FiniteSetTheorems, SequenceTheorems, TLAPS

-----------------------------------------------------------------------------
(* MergeEngine                                                             *)

MergeCall == [at : MergePC, req : MergeRequest \cup {NoMerge.req}, done : BOOLEAN,
              pre : SHA, winner : SHA]

\* What the variables hold, with no assumption that there is any request to merge.
MergeShape ==
    /\ ref \in [Branch -> SHA] /\ tip \in [Branch -> SHA]
    /\ outcomes \in [MergeRequest -> SHA] /\ completed \in [MergeRequest -> SHA]
    /\ merge \in [Mergers -> MergeCall]

\* What a call may rely on at its step.  Until it has moved the ref, and once the merge
\* is decided, the branch is at its tip; in between, the commit to go back to is known,
\* unless its rev-parse failed; from the store on, the winner was merged for good.
CallOK(m) ==
    /\ merge[m].at # "idle" => Req(m) \in MergeRequest
    /\ merge[m].at \notin {"update", "check", "rollback", "store", "emit"} => merge[m].pre = NoSHA
    /\ merge[m].at \in {"store", "emit"} => <<Req(m), merge[m].winner>> \in landed
    /\ Onto(m) \notin spoilt =>
          /\ merge[m].at \in {"run", "read", "update", "store", "emit"} => ref[Onto(m)] = tip[Onto(m)]
          /\ merge[m].at \in {"update", "check", "rollback"} => merge[m].pre \in {NoSHA, tip[Onto(m)]}
          /\ merge[m].at = "check" => ref[Onto(m)] = merge[m].winner

\* The mutex of a target has one holder.
OneHolder ==
    \A m, n \in Mergers :
        m # n /\ merge[m].at \in Locked /\ merge[n].at \in Locked => Onto(m) # Onto(n)

\* The log tells of lasting merges only.
LogTruth == \A r \in MergeRequest : completed[r] # NoSHA => <<r, completed[r]>> \in landed

MergeInv ==
    /\ MergeShape /\ OneHolder /\ LogTruth /\ CacheTruth /\ TargetHonest
    /\ \A m \in Mergers : CallOK(m)

LEMMA NoMergeShape ==
  /\ NoMerge \in MergeCall /\ NoMerge.at = "idle" /\ NoMerge.pre = NoSHA
  /\ "idle" \notin Locked /\ NoSHA \in SHA /\ Base \in SHA
BY DEF NoMerge, MergeCall, MergePC, Locked, SHA, NoSHA, Base

LEMMA MergeInitInv == MergeInit => MergeInv
<1> SUFFICES ASSUME MergeInit PROVE MergeInv
  OBVIOUS
<1>1. MergeShape
  BY NoMergeShape DEF MergeInit, MergeShape
<1>2. \A m \in Mergers : merge[m].at = "idle" /\ merge[m].pre = NoSHA
  BY NoMergeShape DEF MergeInit
<1>3. OneHolder /\ \A m \in Mergers : CallOK(m)
  BY <1>2, NoMergeShape DEF OneHolder, CallOK
<1>4. LogTruth /\ CacheTruth /\ TargetHonest
  BY DEF MergeInit, LogTruth, CacheTruth, TargetHonest
<1> QED BY <1>1, <1>3, <1>4 DEF MergeInv

\* A step of one call that touches only the branch whose mutex it holds leaves every
\* other call what it relied on.
LEMMA OneCall ==
  ASSUME MergeInv, NEW m \in Mergers, merge' \in [Mergers -> MergeCall],
         \A n \in Mergers \ {m} : merge'[n] = merge[n],
         \A b \in Branch : b # Onto(m) \/ merge[m].at \notin Locked => ref'[b] = ref[b] /\ tip'[b] = tip[b],
         spoilt \subseteq spoilt', landed \subseteq landed',
         merge'[m].at \in Locked =>
             merge'[m].req = Req(m) /\ (merge[m].at \in Locked \/ ~TargetHeld(Onto(m))),
         merge[m].at \in Locked /\ merge'[m].at \notin Locked =>
             Onto(m) \in spoilt' \/ ref'[Onto(m)] = tip'[Onto(m)],
         CallOK(m)'
  PROVE  OneHolder' /\ TargetHonest' /\ \A n \in Mergers : CallOK(n)'
<1>1. MergeShape /\ OneHolder /\ TargetHonest /\ \A n \in Mergers : CallOK(n)
  BY DEF MergeInv
<1>2. \A n \in Mergers \ {m} : Req(n)' = Req(n) /\ Onto(n)' = Onto(n)
  BY DEF Req, Onto
<1>3. merge'[m].at \in Locked => Onto(m)' = Onto(m)
  BY DEF Req, Onto
<1>4. OneHolder'
  <2> SUFFICES ASSUME NEW n \in Mergers, NEW k \in Mergers, n # k,
                      merge'[n].at \in Locked, merge'[k].at \in Locked
               PROVE  Onto(n)' # Onto(k)'
    BY DEF OneHolder
  <2>1. CASE n # m /\ k # m
    BY <1>1, <1>2, <2>1 DEF OneHolder
  <2>2. CASE n = m
    BY <1>1, <1>2, <1>3, <2>2 DEF OneHolder, TargetHeld
  <2>3. CASE k = m
    BY <1>1, <1>2, <1>3, <2>3 DEF OneHolder, TargetHeld
  <2> QED BY <2>1, <2>2, <2>3
<1>5. ASSUME NEW n \in Mergers PROVE CallOK(n)'
  <2>1. CASE n = m
    BY <2>1
  <2>2. CASE n # m /\ merge[n].at \notin Locked
    BY <1>1, <1>2, <2>2 DEF CallOK, Locked, Req
  <2>3. CASE n # m /\ merge[n].at \in Locked
    <3>1. Onto(n) \in Branch
      BY <1>1, <2>3, MergeAssumption DEF CallOK, Locked, Onto
    <3>2. ref'[Onto(n)] = ref[Onto(n)] /\ tip'[Onto(n)] = tip[Onto(n)]
      BY <1>1, <2>3, <3>1 DEF OneHolder
    <3> QED BY <1>1, <1>2, <2>3, <3>2 DEF CallOK
  <2> QED BY <2>1, <2>2, <2>3
<1>6. TargetHonest'
  <2> SUFFICES ASSUME NEW b \in Branch, ~TargetHeld(b)', b \notin spoilt'
               PROVE  ref'[b] = tip'[b]
    BY DEF TargetHonest
  <2>1. CASE merge[m].at \in Locked /\ b = Onto(m)
    BY <1>3, <2>1 DEF TargetHeld
  <2>2. CASE ~(merge[m].at \in Locked /\ b = Onto(m))
    <3>1. ~TargetHeld(b)
      BY <1>2, <2>2 DEF TargetHeld
    <3> QED BY <1>1, <2>2, <3>1 DEF TargetHonest
  <2> QED BY <2>1, <2>2
<1> QED BY <1>4, <1>5, <1>6

\* The steps of a call that change nothing but the call itself.
LEMMA CallMoves ==
  ASSUME MergeInv, NEW m \in Mergers, NEW r \in MergeRequest,
         \/ CallMerge(m, r) \/ ValidateMerge(m) \/ Lookup(m) \/ LockTarget(m) \/ RunAndScore(m)
         \/ ReadTarget(m) \/ CancelMerge(m)
  PROVE  MergeInv'
<1>1. MergeShape /\ OneHolder /\ TargetHonest /\ LogTruth /\ CacheTruth /\ CallOK(m)
  BY DEF MergeInv
<1>2. UNCHANGED <<ref, outcomes, completed, landed, tip, spoilt>>
  BY DEF CallMerge, ValidateMerge, Lookup, LockTarget, RunAndScore, ReadTarget, CancelMerge, mergeHistory
<1>3. /\ merge \in [Mergers -> MergeCall] /\ merge[m] \in MergeCall
      /\ merge[m].at # "idle" => Req(m) \in MergeRequest /\ Onto(m) \in Branch
  BY <1>1, MergeAssumption DEF MergeShape, CallOK, Onto
<1>4. /\ \A c \in MergeCall, a \in MergePC : [c EXCEPT !.at = a] \in MergeCall
      /\ \A c \in MergeCall : [c EXCEPT !.req = r] \in MergeCall
      /\ \A c \in MergeCall, s \in SHA : [c EXCEPT !.winner = s] \in MergeCall
      /\ \A c \in MergeCall, s \in SHA : [c EXCEPT !.pre = s] \in MergeCall
      /\ \A c \in MergeCall : [c EXCEPT !.done = TRUE] \in MergeCall
  BY DEF MergeCall
<1>5. ASSUME NEW c \in MergeCall, merge' = [merge EXCEPT ![m] = c],
             c.at \in Locked => /\ c.req = Req(m)
                                /\ merge[m].at \in Locked \/ ~TargetHeld(Onto(m)),
             c.at \in {"idle", "validate", "lookup", "lock", "run", "read", "update"} \/ c.at = merge[m].at,
             c.at # "idle" => c.req \in MergeRequest,
             c.at = merge[m].at => c.pre = merge[m].pre /\ c.winner = merge[m].winner /\ c.req = Req(m),
             c.at \in {"idle", "validate", "lookup", "lock", "run", "read"} => c.pre = NoSHA,
             merge[m].at \in Locked /\ c.at # merge[m].at => merge[m].at \in {"run", "read"},
             c.at = "update" /\ c.at # merge[m].at =>
                 merge[m].at = "read" /\ c.pre \in {NoSHA, ref[Onto(m)]}
      PROVE  MergeInv'
  <2>1. merge' \in [Mergers -> MergeCall] /\ merge'[m] = c
    BY <1>3, <1>5
  <2>2. \A n \in Mergers \ {m} : merge'[n] = merge[n]
    BY <1>3, <1>5
  <2>3. c.at \in Locked => Onto(m)' = Onto(m) /\ Req(m)' = Req(m)
    BY <1>5, <2>1 DEF Onto, Req
  <2>4. merge[m].at \in Locked /\ c.at # merge[m].at /\ Onto(m) \notin spoilt => ref[Onto(m)] = tip[Onto(m)]
    BY <1>1, <1>5 DEF CallOK
  <2>5. merge[m].at \notin Locked /\ c.at \in Locked /\ Onto(m) \notin spoilt => ref[Onto(m)] = tip[Onto(m)]
    <3>1. c.at \in Locked => Onto(m) \in Branch
      BY <1>5, MergeAssumption DEF Locked, Onto
    <3> QED BY <1>1, <1>5, <3>1 DEF TargetHonest
  <2>6. CallOK(m)'
    <3>1. CASE c.at = merge[m].at
      <4>1. Req(m)' = Req(m) /\ Onto(m)' = Onto(m)
        BY <1>5, <2>1, <3>1 DEF Req, Onto
      <4> QED BY <1>1, <1>2, <1>5, <2>1, <3>1, <4>1 DEF CallOK
    <3>2. CASE c.at # merge[m].at /\ c.at \notin Locked
      <4>1. Req(m)' = c.req
        BY <2>1 DEF Req
      <4> QED BY <1>5, <2>1, <3>2, <4>1 DEF CallOK, Locked
    <3>3. CASE c.at # merge[m].at /\ c.at \in Locked
      <4>1. c.at \in {"run", "read", "update"}
        BY <1>5, <3>3 DEF Locked
      <4>2. Onto(m)' = Onto(m) /\ Req(m)' = Req(m) /\ Req(m) \in MergeRequest
        BY <1>5, <2>3, <3>3, <4>1
      <4>3. Onto(m) \notin spoilt => ref[Onto(m)] = tip[Onto(m)]
        BY <2>4, <2>5, <3>3
      <4> QED BY <1>2, <1>5, <2>1, <3>3, <4>1, <4>2, <4>3 DEF CallOK
    <3> QED BY <3>1, <3>2, <3>3
  <2>7. merge[m].at \in Locked /\ c.at \notin Locked => Onto(m) \in spoilt' \/ ref'[Onto(m)] = tip'[Onto(m)]
    BY <1>2, <2>4
  <2>8. OneHolder' /\ TargetHonest' /\ \A n \in Mergers : CallOK(n)'
    BY <1>2, <1>5, <2>1, <2>2, <2>6, <2>7, OneCall
  <2> QED BY <1>1, <1>2, <2>1, <2>8 DEF MergeInv, MergeShape, LogTruth, CacheTruth
<1>6. ASSUME MergeReturn(m), merge[m].at \in {"validate", "lookup", "run"} PROVE MergeInv'
  <2>1. "validate" \notin Locked /\ "lookup" \notin Locked
    BY DEF Locked
  <2>2. merge' = [merge EXCEPT ![m] = NoMerge]
    BY <1>6 DEF MergeReturn
  <2> QED BY <1>5, <1>6, <2>1, <2>2, NoMergeShape
<1>7. CASE CallMerge(m, r)
  <2> DEFINE c == [[merge[m] EXCEPT !.at = "validate"] EXCEPT !.req = r]
  <2>1. merge' = [merge EXCEPT ![m] = c] /\ merge[m].at = "idle"
    BY <1>3, <1>7 DEF CallMerge, MergeCall
  <2>2. "validate" \in MergePC /\ "validate" \notin Locked
    BY DEF MergePC, Locked
  <2>3. /\ c \in MergeCall /\ c.at = "validate" /\ c.req = r /\ c.pre = merge[m].pre
    <3>1. c \in MergeCall
      BY <1>3, <1>4, <2>2
    <3> QED BY <1>3, <3>1 DEF MergeCall
  <2>4. merge[m].pre = NoSHA
    BY <1>1, <2>1 DEF CallOK
  <2> HIDE DEF c
  <2> QED BY <1>5, <2>1, <2>2, <2>3, <2>4, NoMergeShape
<1>8. ASSUME NEW a \in {"lookup", "lock", "run", "update"}, Go(m, a),
             \/ merge[m].at = "validate" /\ a = "lookup"
             \/ merge[m].at = "lookup" /\ a = "lock"
             \/ merge[m].at = "lock" /\ a = "run" /\ ~TargetHeld(Onto(m))
             \/ merge[m].at = "read" /\ a = "update"
      PROVE  MergeInv'
  <2> DEFINE c == [merge[m] EXCEPT !.at = a]
  <2>1. merge' = [merge EXCEPT ![m] = c]
    BY <1>8 DEF Go
  <2>2. a \in MergePC /\ (a \in Locked <=> a \in {"run", "update"}) /\ "read" \in Locked
        /\ "validate" \notin Locked /\ "lookup" \notin Locked /\ "lock" \notin Locked
    BY DEF MergePC, Locked
  <2>3. /\ c \in MergeCall /\ c.at = a /\ c.req = Req(m) /\ c.pre = merge[m].pre
    <3>1. c \in MergeCall
      BY <1>3, <1>4, <2>2
    <3> QED BY <1>3, <3>1 DEF MergeCall, Req
  <2>4. merge[m].pre = NoSHA /\ Req(m) \in MergeRequest
    BY <1>1, <1>8 DEF CallOK
  <2> HIDE DEF c
  <2> QED BY <1>5, <1>8, <2>1, <2>2, <2>3, <2>4
<1>9. CASE RunAndScore(m)
  <2>1. CASE MergeReturn(m)
    BY <1>6, <1>9, <2>1 DEF RunAndScore
  <2>2. ASSUME NEW w \in Candidates[Req(m)], merge[m].at = "run",
               merge' = [merge EXCEPT ![m].at = "read", ![m].winner = w]
        PROVE  MergeInv'
    <3> DEFINE c == [[merge[m] EXCEPT !.at = "read"] EXCEPT !.winner = w]
    <3>1. merge' = [merge EXCEPT ![m] = c]
      BY <1>3, <2>2 DEF MergeCall
    <3>2. "read" \in MergePC /\ "read" \in Locked /\ "run" \in Locked /\ w \in SHA
      BY <1>3, <2>2 DEF MergePC, Locked, SHA
    <3>3. /\ c \in MergeCall /\ c.at = "read" /\ c.req = Req(m) /\ c.pre = merge[m].pre
      <4>1. c \in MergeCall
        BY <1>3, <1>4, <3>2
      <4> QED BY <1>3, <4>1 DEF MergeCall, Req
    <3>4. merge[m].pre = NoSHA /\ Req(m) \in MergeRequest
      BY <1>1, <2>2 DEF CallOK
    <3> HIDE DEF c
    <3> QED BY <1>5, <2>2, <3>1, <3>2, <3>3, <3>4
  <2> QED BY <1>9, <2>1, <2>2 DEF RunAndScore
<1>10. CASE ReadTarget(m)
  <2>1. CASE Go(m, "update")
    BY <1>8, <1>10, <2>1 DEF ReadTarget
  <2>2. CASE merge[m].at = "read" /\ merge' = [merge EXCEPT ![m].at = "update", ![m].pre = ref[Onto(m)]]
    <3> DEFINE c == [[merge[m] EXCEPT !.at = "update"] EXCEPT !.pre = ref[Onto(m)]]
    <3>1. merge' = [merge EXCEPT ![m] = c]
      BY <1>3, <2>2 DEF MergeCall
    <3>2. "update" \in MergePC /\ "update" \in Locked /\ "read" \in Locked /\ ref[Onto(m)] \in SHA
      BY <1>1, <1>3, <2>2 DEF MergePC, Locked, MergeShape
    <3>3. /\ c \in MergeCall /\ c.at = "update" /\ c.req = Req(m) /\ c.pre = ref[Onto(m)]
      <4>1. c \in MergeCall
        BY <1>3, <1>4, <3>2
      <4> QED BY <1>3, <4>1 DEF MergeCall, Req
    <3>4. Req(m) \in MergeRequest
      BY <1>1, <2>2 DEF CallOK
    <3> HIDE DEF c
    <3> QED BY <1>5, <2>2, <3>1, <3>2, <3>3, <3>4
  <2> QED BY <1>10, <2>1, <2>2 DEF ReadTarget
<1>11. CASE CancelMerge(m)
  <2> DEFINE c == [merge[m] EXCEPT !.done = TRUE]
  <2>1. merge' = [merge EXCEPT ![m] = c] /\ merge[m].at # "idle"
    BY <1>11 DEF CancelMerge
  <2>2. /\ c \in MergeCall /\ c.at = merge[m].at /\ c.req = Req(m) /\ c.pre = merge[m].pre
        /\ c.winner = merge[m].winner
    BY <1>3, <1>4 DEF MergeCall, Req
  <2>3. /\ Req(m) \in MergeRequest
        /\ merge[m].at \in {"idle", "validate", "lookup", "lock", "run", "read"} => merge[m].pre = NoSHA
    BY <1>1, <2>1 DEF CallOK
  <2> HIDE DEF c
  <2> QED BY <1>5, <2>1, <2>2, <2>3
<1>12. CASE ValidateMerge(m)
  <2>1. merge[m].at = "validate" /\ (Go(m, "lookup") \/ MergeReturn(m))
    BY <1>12 DEF ValidateMerge
  <2>2. CASE Go(m, "lookup")
    BY <1>8, <2>1, <2>2
  <2>3. CASE MergeReturn(m)
    BY <1>6, <2>1, <2>3
  <2> QED BY <2>1, <2>2, <2>3
<1>13. CASE Lookup(m)
  BY <1>6, <1>8, <1>13 DEF Lookup
<1>14. CASE LockTarget(m)
  BY <1>8, <1>14 DEF LockTarget
<1> QED BY <1>7, <1>9, <1>10, <1>11, <1>12, <1>13, <1>14

\* The steps of a call that move its branch, or tell of what it did.
LEMMA CallMerges ==
  ASSUME MergeInv, NEW m \in Mergers,
         UpdateRef(m) \/ CheckAfter(m) \/ Rollback(m) \/ StoreOutcome(m) \/ EmitCompleted(m)
  PROVE  MergeInv'
<1> DEFINE b == Onto(m)
           w == merge[m].winner
<1>1. MergeShape /\ OneHolder /\ TargetHonest /\ LogTruth /\ CacheTruth /\ CallOK(m)
  BY DEF MergeInv
<1>2. /\ merge[m].at \in {"update", "check", "rollback", "store", "emit"} /\ merge[m].at \in Locked
  BY DEF UpdateRef, CheckAfter, Rollback, StoreOutcome, EmitCompleted, Locked
<1>3. /\ merge \in [Mergers -> MergeCall] /\ merge[m] \in MergeCall
      /\ Req(m) \in MergeRequest /\ b \in Branch /\ w \in SHA /\ merge[m].pre \in SHA
      /\ ref \in [Branch -> SHA] /\ tip \in [Branch -> SHA]
  BY <1>1, <1>2, MergeAssumption DEF MergeShape, CallOK, Onto, MergeCall
<1>4. /\ \A c \in MergeCall, a \in MergePC : [c EXCEPT !.at = a] \in MergeCall
      /\ \A c \in MergeCall : [c EXCEPT !.done = TRUE] \in MergeCall
  BY DEF MergeCall
\* It is enough to look at the call and at its branch.
<1>5. ASSUME NEW c \in MergeCall, merge' = [merge EXCEPT ![m] = c],
             c.at # "idle" => c.at \in Locked /\ c.req = Req(m),
             ref' \in [Branch -> SHA], tip' \in [Branch -> SHA],
             \A d \in Branch \ {b} : ref'[d] = ref[d] /\ tip'[d] = tip[d],
             spoilt \subseteq spoilt', landed \subseteq landed',
             outcomes' \in [MergeRequest -> SHA], completed' \in [MergeRequest -> SHA],
             \A r \in MergeRequest : outcomes'[r] = outcomes[r] \/ <<r, outcomes'[r]>> \in landed,
             \A r \in MergeRequest : completed'[r] = completed[r] \/ <<r, completed'[r]>> \in landed,
             c.at = "idle" => b \in spoilt' \/ ref'[b] = tip'[b],
             CallOK(m)'
      PROVE  MergeInv'
  <2>1. merge' \in [Mergers -> MergeCall] /\ merge'[m] = c
    BY <1>3, <1>5
  <2>2. \A n \in Mergers \ {m} : merge'[n] = merge[n]
    BY <1>3, <1>5
  <2>3. OneHolder' /\ TargetHonest' /\ \A n \in Mergers : CallOK(n)'
    <3>1. \A d \in Branch : d # Onto(m) \/ merge[m].at \notin Locked => ref'[d] = ref[d] /\ tip'[d] = tip[d]
      BY <1>2, <1>5
    <3>2. merge'[m].at \in Locked =>
             merge'[m].req = Req(m) /\ (merge[m].at \in Locked \/ ~TargetHeld(Onto(m)))
      BY <1>2, <1>5, <2>1, NoMergeShape
    <3>3. merge[m].at \in Locked /\ merge'[m].at \notin Locked =>
             Onto(m) \in spoilt' \/ ref'[Onto(m)] = tip'[Onto(m)]
      BY <1>5, <2>1
    <3> QED BY <1>5, <2>1, <2>2, <3>1, <3>2, <3>3, OneCall
  <2>4. LogTruth' /\ CacheTruth'
    BY <1>1, <1>5 DEF LogTruth, CacheTruth
  <2> QED BY <1>5, <2>1, <2>3, <2>4 DEF MergeInv, MergeShape
<1>6. /\ outcomes \in [MergeRequest -> SHA] /\ completed \in [MergeRequest -> SHA]
  BY <1>1 DEF MergeShape
\* The call once it has returned.
<1>7. ASSUME MergeReturn(m)
      PROVE  /\ merge' = [merge EXCEPT ![m] = NoMerge] /\ merge'[m] = NoMerge /\ CallOK(m)'
  <2>1. merge' = [merge EXCEPT ![m] = NoMerge] /\ merge'[m] = NoMerge
    BY <1>3, <1>7 DEF MergeReturn
  <2> QED BY <2>1, NoMergeShape DEF CallOK
\* The call once it has gone on.
<1>8. ASSUME NEW a \in {"check", "rollback", "store", "emit"}, Go(m, a)
      PROVE  LET c == [merge[m] EXCEPT !.at = a]
             IN  /\ c \in MergeCall /\ merge' = [merge EXCEPT ![m] = c] /\ c.at = a /\ a \in Locked
                 /\ c.req = Req(m) /\ merge'[m] = c /\ c.pre = merge[m].pre /\ c.winner = w
                 /\ Req(m)' = Req(m) /\ Onto(m)' = b
  <2> DEFINE c == [merge[m] EXCEPT !.at = a]
  <2>1. a \in MergePC /\ a \in Locked
    BY DEF MergePC, Locked
  <2>2. c \in MergeCall
    BY <1>3, <1>4, <2>1
  <2>3. merge' = [merge EXCEPT ![m] = c] /\ merge'[m] = c
    BY <1>3, <1>8 DEF Go
  <2>4. c.at = a /\ c.req = Req(m) /\ c.pre = merge[m].pre /\ c.winner = w
    BY <1>3, <2>2 DEF MergeCall, Req
  <2>5. Req(m)' = Req(m)
    BY <2>3, <2>4 DEF Req
  <2>6. Onto(m)' = b
    BY <2>5 DEF Onto
  <2> QED BY <2>1, <2>2, <2>3, <2>4, <2>5, <2>6
<1>9. CASE UpdateRef(m)
  <2>1. /\ merge[m].at = "update" /\ UNCHANGED <<outcomes, completed, landed, tip, spoilt>>
    BY <1>9 DEF UpdateRef, mergeHistory
  <2>2. /\ b \notin spoilt => ref[b] = tip[b] /\ merge[m].pre \in {NoSHA, tip[b]}
    BY <1>1, <2>1 DEF CallOK
  <2>3. CASE ref' = [ref EXCEPT ![b] = w] /\ Go(m, "check")
    <3> DEFINE c == [merge[m] EXCEPT !.at = "check"]
    <3>1. /\ c \in MergeCall /\ merge' = [merge EXCEPT ![m] = c] /\ c.at = "check" /\ c.at \in Locked
          /\ c.req = Req(m) /\ merge'[m] = c /\ c.pre = merge[m].pre /\ c.winner = w
          /\ Req(m)' = Req(m) /\ Onto(m)' = b
      BY <1>8, <2>3
    <3>2. ref' \in [Branch -> SHA] /\ ref'[b] = w /\ \A d \in Branch \ {b} : ref'[d] = ref[d]
      BY <1>3, <2>3
    <3> HIDE DEF c, b, w
    <3>3. CallOK(m)'
      BY <1>3, <2>1, <2>2, <3>1, <3>2 DEF CallOK
    <3> QED BY <1>3, <1>5, <1>6, <2>1, <3>1, <3>2, <3>3
  <2>4. CASE MergeReturn(m) /\ UNCHANGED ref
    <3>1. merge' = [merge EXCEPT ![m] = NoMerge] /\ CallOK(m)'
      BY <1>7, <2>4
    <3> HIDE DEF b, w
    <3> QED BY <1>3, <1>5, <1>6, <2>1, <2>2, <2>4, <3>1, NoMergeShape
  <2>5. CASE /\ UNCHANGED ref \/ ref' = [ref EXCEPT ![b] = w]
             /\ merge' = [merge EXCEPT ![m].at = "rollback", ![m].done = TRUE]
    <3> DEFINE c == [[merge[m] EXCEPT !.at = "rollback"] EXCEPT !.done = TRUE]
    <3>1. merge' = [merge EXCEPT ![m] = c] /\ merge'[m] = c
      BY <1>3, <2>5 DEF MergeCall
    <3>2. "rollback" \in MergePC /\ "rollback" \in Locked
      BY DEF MergePC, Locked
    <3>3. c \in MergeCall /\ c.at = "rollback" /\ c.req = Req(m) /\ c.pre = merge[m].pre
      <4>1. c \in MergeCall
        BY <1>3, <1>4, <3>2
      <4> QED BY <1>3, <4>1 DEF MergeCall, Req
    <3>4. Req(m)' = Req(m)
      BY <3>1, <3>3 DEF Req
    <3>5. Onto(m)' = b
      BY <3>4 DEF Onto
    <3>6. ref' \in [Branch -> SHA] /\ \A d \in Branch \ {b} : ref'[d] = ref[d]
      BY <1>3, <2>5
    <3> HIDE DEF c, b, w
    <3>7. CallOK(m)'
      BY <1>3, <2>1, <2>2, <3>1, <3>3, <3>4, <3>5 DEF CallOK
    <3> QED BY <1>3, <1>5, <1>6, <2>1, <3>1, <3>2, <3>3, <3>6, <3>7
  <2> QED BY <1>9, <2>3, <2>4, <2>5 DEF UpdateRef
<1>10. CASE CheckAfter(m)
  <2>1. merge[m].at = "check" /\ UNCHANGED <<ref, outcomes, completed, spoilt>>
    BY <1>10 DEF CheckAfter
  <2>2. b \notin spoilt => merge[m].pre \in {NoSHA, tip[b]} /\ ref[b] = w
    BY <1>1, <2>1 DEF CallOK
  <2>3. CASE Go(m, "rollback") /\ UNCHANGED <<landed, tip>>
    <3> DEFINE c == [merge[m] EXCEPT !.at = "rollback"]
    <3>1. /\ c \in MergeCall /\ merge' = [merge EXCEPT ![m] = c] /\ c.at = "rollback" /\ c.at \in Locked
          /\ c.req = Req(m) /\ merge'[m] = c /\ c.pre = merge[m].pre /\ c.winner = w
          /\ Req(m)' = Req(m) /\ Onto(m)' = b
      BY <1>8, <2>3
    <3> HIDE DEF c, b, w
    <3>2. CallOK(m)'
      BY <1>3, <2>1, <2>2, <2>3, <3>1 DEF CallOK
    <3> QED BY <1>3, <1>5, <1>6, <2>1, <2>3, <3>1, <3>2
  <2>4. CASE Go(m, "store") /\ landed' = landed \cup {<<Req(m), w>>} /\ tip' = [tip EXCEPT ![b] = w]
    <3> DEFINE c == [merge[m] EXCEPT !.at = "store"]
    <3>1. /\ c \in MergeCall /\ merge' = [merge EXCEPT ![m] = c] /\ c.at = "store" /\ c.at \in Locked
          /\ c.req = Req(m) /\ merge'[m] = c /\ c.pre = merge[m].pre /\ c.winner = w
          /\ Req(m)' = Req(m) /\ Onto(m)' = b
      BY <1>8, <2>4
    <3>2. tip' \in [Branch -> SHA] /\ tip'[b] = w /\ \A d \in Branch \ {b} : tip'[d] = tip[d]
      BY <1>3, <2>4
    <3>3. <<Req(m), w>> \in landed' /\ landed \subseteq landed'
      BY <2>4
    <3> HIDE DEF c, b, w
    <3>4. CallOK(m)'
      BY <1>3, <2>1, <2>2, <3>1, <3>2, <3>3 DEF CallOK
    <3> QED BY <1>3, <1>5, <1>6, <2>1, <3>1, <3>2, <3>3, <3>4
  <2> QED BY <1>10, <2>3, <2>4 DEF CheckAfter
<1>11. CASE Rollback(m)
  <2>1. /\ merge[m].at = "rollback" /\ MergeReturn(m) /\ UNCHANGED <<outcomes, completed, landed, tip>>
        /\ \/ /\ ref' = [ref EXCEPT ![b] = merge[m].pre]
              /\ spoilt' = IF merge[m].pre = NoSHA THEN spoilt \cup {b} ELSE spoilt
           \/ UNCHANGED ref /\ spoilt' = spoilt \cup {b}
    BY <1>11 DEF Rollback
  <2>2. b \notin spoilt => merge[m].pre \in {NoSHA, tip[b]}
    BY <1>1, <2>1 DEF CallOK
  <2>3. merge' = [merge EXCEPT ![m] = NoMerge] /\ CallOK(m)'
    BY <1>7, <2>1
  <2>4. /\ ref' \in [Branch -> SHA] /\ \A d \in Branch \ {b} : ref'[d] = ref[d]
        /\ \/ ref'[b] = merge[m].pre /\ spoilt' = IF merge[m].pre = NoSHA THEN spoilt \cup {b} ELSE spoilt
           \/ spoilt' = spoilt \cup {b}
    BY <1>3, <2>1
  <2>5. spoilt \subseteq spoilt' /\ (b \in spoilt' \/ ref'[b] = tip[b])
    BY <2>1, <2>2, <2>4
  <2> HIDE DEF b, w
  <2> QED BY <1>3, <1>5, <1>6, <2>1, <2>3, <2>4, <2>5, NoMergeShape
<1>12. CASE StoreOutcome(m)
  <2>1. /\ merge[m].at = "store" /\ Go(m, "emit") /\ UNCHANGED <<ref, completed, landed, tip, spoilt>>
        /\ outcomes' = [outcomes EXCEPT ![Req(m)] = w]
    BY <1>12 DEF StoreOutcome, mergeHistory
  <2>2. /\ b \notin spoilt => ref[b] = tip[b]
        /\ <<Req(m), w>> \in landed
    BY <1>1, <2>1 DEF CallOK
  <2> DEFINE c == [merge[m] EXCEPT !.at = "emit"]
  <2>3. /\ c \in MergeCall /\ merge' = [merge EXCEPT ![m] = c] /\ c.at = "emit" /\ c.at \in Locked
        /\ c.req = Req(m) /\ merge'[m] = c /\ c.pre = merge[m].pre /\ c.winner = w
        /\ Req(m)' = Req(m) /\ Onto(m)' = b
    BY <1>8, <2>1
  <2>4. /\ outcomes' \in [MergeRequest -> SHA]
        /\ \A r \in MergeRequest : outcomes'[r] = outcomes[r] \/ <<r, outcomes'[r]>> \in landed
    BY <1>3, <1>6, <2>1, <2>2
  <2> HIDE DEF c, b, w
  <2>5. CallOK(m)'
    BY <1>3, <2>1, <2>2, <2>3 DEF CallOK
  <2> QED BY <1>3, <1>5, <1>6, <2>1, <2>3, <2>4, <2>5
<1>13. CASE EmitCompleted(m)
  <2>1. /\ merge[m].at = "emit" /\ MergeReturn(m) /\ UNCHANGED <<ref, outcomes, landed, tip, spoilt>>
        /\ completed' = [completed EXCEPT ![Req(m)] = w] \/ completed' = completed
    BY <1>13 DEF EmitCompleted, mergeHistory
  <2>2. /\ b \notin spoilt => ref[b] = tip[b]
        /\ <<Req(m), w>> \in landed
    BY <1>1, <2>1 DEF CallOK
  <2>3. merge' = [merge EXCEPT ![m] = NoMerge] /\ CallOK(m)'
    BY <1>7, <2>1
  <2>4. /\ completed' \in [MergeRequest -> SHA]
        /\ \A r \in MergeRequest : completed'[r] = completed[r] \/ <<r, completed'[r]>> \in landed
    BY <1>3, <1>6, <2>1, <2>2
  <2> HIDE DEF b, w
  <2> QED BY <1>3, <1>5, <1>6, <2>1, <2>2, <2>3, <2>4, NoMergeShape
<1> QED BY <1>9, <1>10, <1>11, <1>12, <1>13

LEMMA MergeStepInv == MergeInv /\ [MergeNext]_mergeVars => MergeInv'
<1> SUFFICES ASSUME MergeInv, [MergeNext]_mergeVars PROVE MergeInv'
  OBVIOUS
<1>1. ASSUME NEW m \in Mergers, MergeStep(m) \/ CancelMerge(m) PROVE MergeInv'
  <2>1. CASE UpdateRef(m) \/ CheckAfter(m) \/ Rollback(m) \/ StoreOutcome(m) \/ EmitCompleted(m)
    BY <2>1, CallMerges
  <2>2. CASE \/ ValidateMerge(m) \/ Lookup(m) \/ LockTarget(m) \/ RunAndScore(m) \/ ReadTarget(m)
             \/ CancelMerge(m)
    <3>1. merge[m].at # "idle"
      BY <2>2 DEF ValidateMerge, Lookup, LockTarget, RunAndScore, ReadTarget, CancelMerge
    <3>2. Req(m) \in MergeRequest
      BY <3>1 DEF MergeInv, CallOK
    <3> QED BY <2>2, <3>2, CallMoves
  <2> QED BY <1>1, <2>1, <2>2 DEF MergeStep
<1>2. ASSUME NEW m \in Mergers, NEW r \in MergeRequest, CallMerge(m, r) PROVE MergeInv'
  BY <1>2, CallMoves
<1>3. CASE RebuildCache
  <2>1. /\ UNCHANGED <<ref, completed, merge, landed, tip, spoilt>>
        /\ outcomes' = [r \in MergeRequest |->
                          IF completed[r] # NoSHA THEN completed[r] ELSE outcomes[r]]
    BY <1>3 DEF RebuildCache, mergeHistory
  <2>2. MergeShape'
    BY <2>1 DEF MergeInv, MergeShape
  <2>3. CacheTruth' /\ LogTruth'
    BY <2>1 DEF MergeInv, CacheTruth, LogTruth
  <2>4. OneHolder' /\ TargetHonest' /\ \A m \in Mergers : CallOK(m)'
    BY <2>1 DEF MergeInv, OneHolder, TargetHonest, TargetHeld, CallOK, Req, Onto
  <2> QED BY <2>2, <2>3, <2>4 DEF MergeInv
<1>4. CASE MergeRestart
  <2>1. /\ UNCHANGED <<ref, completed, landed, tip>>
        /\ merge' = [m \in Mergers |-> NoMerge] /\ outcomes' = [r \in MergeRequest |-> NoSHA]
        /\ spoilt' = spoilt \cup {b \in Branch : ref[b] # tip[b]}
    BY <1>4 DEF MergeRestart
  <2>2. \A m \in Mergers : merge'[m].at = "idle" /\ merge'[m].pre = NoSHA
    BY <2>1, NoMergeShape
  <2>3. MergeShape'
    BY <2>1, NoMergeShape DEF MergeInv, MergeShape
  <2>4. CacheTruth' /\ LogTruth'
    BY <2>1 DEF MergeInv, CacheTruth, LogTruth
  <2>5. OneHolder' /\ \A m \in Mergers : CallOK(m)'
    BY <2>2, NoMergeShape DEF OneHolder, CallOK
  <2>6. TargetHonest'
    BY <2>1 DEF TargetHonest
  <2> QED BY <2>3, <2>4, <2>5, <2>6 DEF MergeInv
<1>5. CASE UNCHANGED mergeVars
  BY <1>5 DEF mergeVars, MergeInv, MergeShape, OneHolder, TargetHonest, TargetHeld, CallOK, Req, Onto,
              LogTruth, CacheTruth
<1> QED BY <1>1, <1>2, <1>3, <1>4, <1>5 DEF MergeNext

\* What the outcome cache answers was merged for good, and a branch whose mutex is free is
\* at the winner of its last lasting merge, for any number of calls, requests and
\* branches, through cancellations, restarts and rebuilds (engine.go:262-305,
\* cache.go:129-148).
THEOREM MergeCorrect == MergeSpec => []MergeSound
<1>1. MergeInv => MergeSound
  BY DEF MergeInv, MergeSound
<1> QED BY <1>1, MergeInitInv, MergeStepInv, PTL DEF MergeSpec

-----------------------------------------------------------------------------
(* EventLog                                                                *)

LEMMA AppendIs ==
  ASSUME NEW S, NEW f \in Seq(S), NEW e \in S
  PROVE  LET t == Append(f, e)
         IN  /\ t \in Seq(S) /\ Len(t) = Len(f) + 1 /\ Len(f) \in Nat /\ t[Len(f) + 1] = e
             /\ \A k \in 1..Len(f) : t[k] = f[k]
             /\ \A k \in 1..Len(t) : k \in 1..Len(f) \/ k = Len(f) + 1
             /\ DOMAIN t = 1..Len(t) /\ DOMAIN f = 1..Len(f)
OBVIOUS

LEMMA TailIs ==
  ASSUME NEW S, NEW s \in Seq(S), s # <<>>
  PROVE  Tail(s) \in Seq(S) /\ Len(Tail(s)) = Len(s) - 1 /\ Len(s) \in Nat \ {0}
BY HeadTailProperties

PubCall == [at : PublishPC, rec : 0..MaxRows, subs : Seq(Subscriptions), i : Nat \ {0},
            live : Seq(Subscriptions), pruned : BOOLEAN]
Sending == {"send", "drain", "resend"}

\* A call of publish has passed the subscriptions before the one it is at, and has filed
\* that one once it sends to it.
PassedOver(c, j) == j < c.i \/ (j = c.i /\ c.at \in Sending)

\* What a call of publish holds: a row of the log; a copy of the list without repetitions;
\* and as live exactly subscriptions it passed, among them all that are not closed.
Sees(c) ==
    /\ c.at = "idle" \/ c.rec \in 1..Len(rows)
    /\ c.at \in {"idle", "copy"} => c.subs = <<>> /\ c.live = <<>> /\ c.i = 1
    /\ c.i <= Len(c.subs) + 1 /\ (c.at \in Sending => c.i <= Len(c.subs))
    /\ IsInjective(c.subs) /\ IsInjective(c.live)
    /\ \A k \in 1..Len(c.subs) : status[c.subs[k]] # "none"
    /\ \A k \in 1..Len(c.live) : \E j \in 1..Len(c.subs) : PassedOver(c, j) /\ c.live[k] = c.subs[j]
    /\ \A j \in 1..Len(c.subs) :
           PassedOver(c, j) => status[c.subs[j]] = "closed" \/ Contains(c.live, c.subs[j])

\* A row was sent only to subscriptions its publisher is done with.
SentBefore(c) ==
    c.at # "idle" =>
        \A s \in Subscriptions : Contains(sent[s], c.rec) =>
            \E j \in 1..Len(c.subs) : j < c.i /\ c.subs[j] = s

\* No two publishers have the same row, and nothing was sent that is not in the log.
RowsApart ==
    /\ \A a, b \in Appenders :
           a # b /\ pub[a].at # "idle" /\ pub[b].at # "idle" => pub[a].rec # pub[b].rec
    /\ \A s \in Subscriptions : \A k \in 1..Len(sent[s]) : sent[s][k] <= Len(rows)

HubListsOnce == IsInjective(hub) /\ \A k \in 1..Len(hub) : status[hub[k]] # "none"

LogInv ==
    /\ EventLogTypeOK /\ RowsApart /\ HubListsOnce /\ DeliveredOnce
    /\ \A a \in Appenders : Sees(pub[a]) /\ SentBefore(pub[a])

LEMMA NoCallShape ==
  /\ NoCall \in PubCall /\ NoCall.at = "idle" /\ NoCall.subs = <<>> /\ NoCall.live = <<>>
  /\ NoCall.i = 1
BY EventLogAssumption DEF NoCall, PubCall, PublishPC

LEMMA NoCallSees == Sees(NoCall) /\ SentBefore(NoCall)
<1>1. NoCall.at \notin Sending
  BY NoCallShape DEF Sending
<1> QED BY <1>1, NoCallShape DEF Sees, SentBefore, IsInjective, PassedOver

LEMMA LogInitInv == EventLogInit => LogInv
<1> SUFFICES ASSUME EventLogInit PROVE LogInv
  OBVIOUS
<1>1. EventLogTypeOK
  BY NoCallShape, EventLogAssumption DEF EventLogInit, EventLogTypeOK, PubCall
<1>2. RowsApart /\ HubListsOnce /\ DeliveredOnce
  BY NoCallShape DEF EventLogInit, RowsApart, HubListsOnce, DeliveredOnce, IsInjective
<1>3. \A a \in Appenders : Sees(pub[a]) /\ SentBefore(pub[a])
  BY NoCallSees DEF EventLogInit
<1> QED BY <1>1, <1>2, <1>3 DEF LogInv

\* A step of publish that sends nothing: only the call changes, and perhaps the channels.
LEMMA PublishMoves ==
  ASSUME LogInv, NEW a \in Appenders, NEW c \in PubCall, pub' = [pub EXCEPT ![a] = c],
         UNCHANGED <<rows, hub, status, sent, freed>>,
         chan' \in [Subscriptions -> Seq(Row)],
         \A s \in Subscriptions : Len(chan'[s]) <= BufferSize,
         pub[a].at # "idle", c.rec = pub[a].rec, Sees(c), SentBefore(c)
  PROVE  LogInv'
<1>1. /\ pub \in [Appenders -> PubCall] /\ pub' \in [Appenders -> PubCall] /\ pub'[a] = c
      /\ \A b \in Appenders : b # a => pub'[b] = pub[b]
  BY DEF LogInv, EventLogTypeOK, PubCall
<1>2. EventLogTypeOK'
  BY <1>1 DEF LogInv, EventLogTypeOK, PubCall
<1>3. RowsApart'
  BY <1>1 DEF LogInv, RowsApart
<1>4. HubListsOnce' /\ DeliveredOnce'
  BY DEF LogInv, HubListsOnce, DeliveredOnce
<1>5. ASSUME NEW b \in Appenders PROVE Sees(pub[b])' /\ SentBefore(pub[b])'
  <2>1. Sees(pub'[b]) /\ SentBefore(pub'[b])
    BY <1>1 DEF LogInv
  <2> QED BY <2>1 DEF Sees, SentBefore
<1> QED BY <1>2, <1>3, <1>4, <1>5 DEF LogInv

LEMMA PubFields ==
  /\ \A c \in PubCall, x \in PublishPC : [c EXCEPT !.at = x] \in PubCall
  /\ \A c \in PubCall, x \in Nat \ {0} : [c EXCEPT !.i = x] \in PubCall
  /\ \A c \in PubCall, x \in Seq(Subscriptions) : [c EXCEPT !.live = x] \in PubCall
  /\ \A c \in PubCall, x \in Seq(Subscriptions) : [c EXCEPT !.subs = x] \in PubCall
  /\ \A c \in PubCall, x \in 0..MaxRows : [c EXCEPT !.rec = x] \in PubCall
  /\ \A c \in PubCall : [c EXCEPT !.pruned = TRUE] \in PubCall
  /\ {"idle", "copy", "visit", "send", "drain", "resend"} \subseteq PublishPC
BY DEF PubCall, PublishPC

\* A call at a subscription it has filed, or that is closed, may go on to the next one.
LEMMA GoesOn ==
  ASSUME NEW c \in PubCall, NEW d \in PubCall, Sees(c), SentBefore(c), c.i <= Len(c.subs),
         c.at \in Sending \/ (c.at = "visit" /\ status[c.subs[c.i]] = "closed"),
         d.at = "visit", d.i = c.i + 1, d.rec = c.rec, d.subs = c.subs, d.live = c.live
  PROVE  Sees(d) /\ SentBefore(d)
<1>1. c.i \in Nat \ {0} /\ Len(c.subs) \in Nat /\ c.subs \in Seq(Subscriptions)
  BY DEF PubCall
<1>2. "visit" \notin Sending /\ "idle" \notin Sending
  BY DEF Sending
<1>3. \A j \in 1..Len(c.subs) : PassedOver(c, j) => PassedOver(d, j)
  BY <1>1, <1>2 DEF PassedOver
<1>4. \A j \in 1..Len(c.subs) : PassedOver(d, j) => PassedOver(c, j) \/ (j = c.i /\ status[c.subs[c.i]] = "closed")
  BY <1>1, <1>2 DEF PassedOver
<1>5. c.rec \in 1..Len(rows)
  BY <1>2 DEF Sees
<1>6. Sees(d)
  BY <1>1, <1>2, <1>3, <1>4, <1>5 DEF Sees
<1>7. SentBefore(d)
  BY <1>1, <1>2 DEF SentBefore
<1> QED BY <1>6, <1>7

\* An open subscription the call is at is filed as live.
LEMMA Files ==
  ASSUME NEW c \in PubCall, NEW d \in PubCall, Sees(c), SentBefore(c), c.i <= Len(c.subs),
         c.at = "visit", d.live = Append(c.live, c.subs[c.i]), d.rec = c.rec, d.subs = c.subs,
         (d.at = "visit" /\ d.i = c.i + 1) \/ (d.at = "send" /\ d.i = c.i)
  PROVE  Sees(d) /\ SentBefore(d)
<1>1. /\ c.i \in Nat \ {0} /\ c.i \in 1..Len(c.subs) /\ Len(c.subs) \in Nat /\ Len(c.live) \in Nat
      /\ c.subs \in Seq(Subscriptions) /\ c.live \in Seq(Subscriptions)
      /\ c.subs[c.i] \in Subscriptions
  BY DEF PubCall
<1>2. "visit" \notin Sending /\ "send" \in Sending
  BY DEF Sending
<1>3. \A j \in 1..Len(c.subs) : PassedOver(d, j) <=> PassedOver(c, j) \/ j = c.i
  BY <1>1, <1>2 DEF PassedOver
<1>4. \A j \in 1..Len(c.subs) : PassedOver(c, j) => j # c.i
  BY <1>1, <1>2 DEF PassedOver
<1>5. /\ Len(d.live) = Len(c.live) + 1 /\ d.live[Len(c.live) + 1] = c.subs[c.i]
      /\ \A k \in 1..Len(c.live) : d.live[k] = c.live[k]
      /\ \A k \in 1..Len(d.live) : k \in 1..Len(c.live) \/ k = Len(c.live) + 1
      /\ \A k \in 1..Len(c.live) : k \in 1..Len(d.live)
      /\ Len(c.live) + 1 \in 1..Len(d.live) /\ DOMAIN d.live = 1..Len(d.live)
      /\ DOMAIN c.live = 1..Len(c.live) /\ DOMAIN c.subs = 1..Len(c.subs)
  BY <1>1
<1>6. \A k \in 1..Len(c.live) : c.live[k] # c.subs[c.i]
  <2>1. \A j, l \in 1..Len(c.subs) : c.subs[j] = c.subs[l] => j = l
    BY <1>5 DEF Sees, IsInjective
  <2>2. \A k \in 1..Len(c.live) : \E j \in 1..Len(c.subs) : PassedOver(c, j) /\ c.live[k] = c.subs[j]
    BY DEF Sees
  <2> QED BY <1>1, <1>4, <2>1, <2>2
<1>7. IsInjective(d.live)
  BY <1>5, <1>6 DEF Sees, IsInjective
<1>8. \A k \in 1..Len(d.live) : \E j \in 1..Len(d.subs) : PassedOver(d, j) /\ d.live[k] = d.subs[j]
  <2>1. \A k \in 1..Len(c.live) : \E j \in 1..Len(c.subs) : PassedOver(c, j) /\ c.live[k] = c.subs[j]
    BY DEF Sees
  <2> SUFFICES ASSUME NEW k \in 1..Len(d.live)
               PROVE  \E j \in 1..Len(c.subs) : PassedOver(d, j) /\ d.live[k] = c.subs[j]
    OBVIOUS
  <2>2. CASE k \in 1..Len(c.live)
    <3>1. d.live[k] = c.live[k]
      BY <1>5, <2>2
    <3> QED BY <1>3, <2>1, <2>2, <3>1
  <2>3. CASE k = Len(c.live) + 1
    BY <1>1, <1>3, <1>5, <2>3
  <2> QED BY <1>5, <2>2, <2>3
<1>9. \A j \in 1..Len(d.subs) : PassedOver(d, j) => status[d.subs[j]] = "closed" \/ Contains(d.live, d.subs[j])
  <2>1. \A j \in 1..Len(c.subs) : PassedOver(c, j) => status[c.subs[j]] = "closed" \/ Contains(c.live, c.subs[j])
    BY DEF Sees
  <2>2. \A x : Contains(c.live, x) => Contains(d.live, x)
    BY <1>5 DEF Contains
  <2>3. Contains(d.live, c.subs[c.i])
    BY <1>5 DEF Contains
  <2> QED BY <1>3, <2>1, <2>2, <2>3
<1>10. c.rec \in 1..Len(rows) /\ d.i <= Len(d.subs) + 1 /\ (d.at \in Sending => d.i <= Len(d.subs))
  BY <1>1, <1>2 DEF Sees
<1>11. Sees(d)
  <2>1. IsInjective(d.subs) /\ \A k \in 1..Len(d.subs) : status[d.subs[k]] # "none"
    BY DEF Sees
  <2> QED BY <1>7, <1>8, <1>9, <1>10, <2>1 DEF Sees
<1>12. SentBefore(d)
  BY <1>1 DEF SentBefore
<1> QED BY <1>11, <1>12

\* The steps of publish that send nothing.
LEMMA PublishKeeps ==
  ASSUME LogInv, NEW a \in Appenders,
         \/ CopySubs(a) \/ Visit(a)
         \/ (Send(a) \/ Drain(a) \/ Resend(a)) /\ UNCHANGED <<sent, freed>>
  PROVE  LogInv'
<1> DEFINE c == pub[a]
<1>1. /\ EventLogTypeOK /\ pub \in [Appenders -> PubCall] /\ c \in PubCall /\ Sees(c) /\ SentBefore(c)
      /\ c.i \in Nat \ {0} /\ Len(c.subs) \in Nat /\ c.subs \in Seq(Subscriptions) /\ hub \in Seq(Subscriptions)
      /\ c.live \in Seq(Subscriptions)
  <2>1. EventLogTypeOK /\ Sees(c) /\ SentBefore(c)
    BY DEF LogInv
  <2>2. pub \in [Appenders -> PubCall] /\ hub \in Seq(Subscriptions)
    BY <2>1 DEF EventLogTypeOK, PubCall
  <2>3. c \in PubCall
    BY <2>2
  <2>4. c.i \in Nat \ {0} /\ c.subs \in Seq(Subscriptions) /\ c.live \in Seq(Subscriptions)
    BY <2>3 DEF PubCall
  <2> QED BY <2>1, <2>2, <2>3, <2>4
<1>2. /\ chan \in [Subscriptions -> Seq(Row)] /\ sent \in [Subscriptions -> Seq(Row)]
      /\ \A s \in Subscriptions : Len(chan[s]) <= BufferSize
  BY DEF LogInv, EventLogTypeOK
<1>3. CASE CopySubs(a)
  <2> DEFINE d == [[c EXCEPT !.at = "visit"] EXCEPT !.subs = hub]
  <2>1. c.at = "copy" /\ UNCHANGED <<rows, hub, status, chan, sent, freed>> /\ pub' = [pub EXCEPT ![a] = d]
    BY <1>1, <1>3 DEF CopySubs, PubCall
  <2>2. d \in PubCall
    BY <1>1, PubFields
  <2>3. d.at = "visit" /\ d.subs = hub /\ d.rec = c.rec /\ d.i = c.i /\ d.live = c.live
    BY <1>1, <2>2 DEF PubCall
  <2> HIDE DEF d
  <2>4. c.i = 1 /\ c.live = <<>> /\ c.subs = <<>> /\ c.rec \in 1..Len(rows)
    BY <1>1, <2>1 DEF Sees
  <2>5. \A j \in Nat : j >= 1 => ~PassedOver(d, j)
    BY <2>3, <2>4 DEF PassedOver, Sending
  <2>6. IsInjective(hub) /\ \A k \in 1..Len(hub) : status[hub[k]] # "none"
    BY DEF LogInv, HubListsOnce
  <2>7. Sees(d)
    <3>1. Len(hub) \in Nat /\ d.i <= Len(hub) + 1 /\ d.at \notin Sending /\ IsInjective(c.live)
      BY <1>1, <2>3, <2>4 DEF Sending, Sees
    <3>2. \A j \in 1..Len(hub) : ~PassedOver(d, j)
      BY <2>5
    <3>3. Len(d.live) = 0
      BY <2>3, <2>4
    <3> QED BY <2>3, <2>4, <2>6, <3>1, <3>2, <3>3 DEF Sees
  <2>8. SentBefore(d)
    <3>1. \A s \in Subscriptions : ~Contains(sent[s], c.rec)
      BY <1>1, <2>1, <2>4 DEF SentBefore
    <3> QED BY <2>3, <3>1 DEF SentBefore
  <2> QED BY <1>2, <2>1, <2>2, <2>3, <2>7, <2>8, PublishMoves
<1>4. CASE Visit(a)
  <2> DEFINE s == c.subs[c.i]
             d == IF status[s] = "closed" THEN [[c EXCEPT !.pruned = TRUE] EXCEPT !.i = c.i + 1]
                  ELSE IF Match(s, c.rec) THEN [[c EXCEPT !.live = Append(c.live, s)] EXCEPT !.at = "send"]
                  ELSE [[c EXCEPT !.live = Append(c.live, s)] EXCEPT !.i = c.i + 1]
  <2>1. /\ c.at = "visit" /\ c.i <= Len(c.subs) /\ UNCHANGED <<rows, hub, status, chan, sent, freed>>
        /\ pub' = [pub EXCEPT ![a] = d]
    BY <1>1, <1>4 DEF Visit, Current, PubCall
  <2>2. c.i + 1 \in Nat \ {0} /\ Append(c.live, s) \in Seq(Subscriptions)
    BY <1>1, <2>1
  <2>3. d \in PubCall
    BY <1>1, <2>2, PubFields
  <2>4. \/ /\ status[s] = "closed" /\ d.at = "visit" /\ d.i = c.i + 1 /\ d.rec = c.rec /\ d.subs = c.subs
           /\ d.live = c.live
        \/ /\ d.live = Append(c.live, s) /\ d.rec = c.rec /\ d.subs = c.subs
           /\ (d.at = "visit" /\ d.i = c.i + 1) \/ (d.at = "send" /\ d.i = c.i)
    <3>1. CASE status[s] = "closed"
      BY <1>1, <2>1, <2>2, <2>3, <3>1 DEF PubCall
    <3>2. CASE status[s] # "closed" /\ Match(s, c.rec)
      BY <1>1, <2>1, <2>2, <2>3, <3>2 DEF PubCall
    <3>3. CASE status[s] # "closed" /\ ~Match(s, c.rec)
      BY <1>1, <2>1, <2>2, <2>3, <3>3 DEF PubCall
    <3> QED BY <3>1, <3>2, <3>3
  <2> HIDE DEF d
  <2>5. Sees(d) /\ SentBefore(d)
    BY <1>1, <2>1, <2>3, <2>4, GoesOn, Files
  <2> QED BY <1>2, <2>1, <2>3, <2>4, <2>5, PublishMoves
<1>5. CASE (Send(a) \/ Drain(a) \/ Resend(a)) /\ UNCHANGED <<sent, freed>>
  <2>1. c.at \in Sending /\ UNCHANGED <<rows, hub, status, sent, freed>>
    BY <1>5 DEF Send, Drain, Resend, Sending
  <2>2. c.i <= Len(c.subs) /\ c.i \in 1..Len(c.subs) /\ c.subs[c.i] \in Subscriptions
    BY <1>1, <2>1 DEF Sees
  <2>3. /\ chan' \in [Subscriptions -> Seq(Row)]
        /\ \A s \in Subscriptions : Len(chan'[s]) <= BufferSize
    <3>1. CASE UNCHANGED chan
      BY <1>2, <3>1
    <3>2. ASSUME NEW s \in Subscriptions, chan[s] # <<>>, chan' = [chan EXCEPT ![s] = Tail(chan[s])]
          PROVE  /\ chan' \in [Subscriptions -> Seq(Row)]
                 /\ \A q \in Subscriptions : Len(chan'[q]) <= BufferSize
      <4>1. Tail(chan[s]) \in Seq(Row) /\ Len(Tail(chan[s])) = Len(chan[s]) - 1
        BY <1>2, <3>2, TailIs
      <4>2. Len(Tail(chan[s])) <= BufferSize
        BY <1>2, <4>1, EventLogAssumption
      <4> QED BY <1>2, <3>2, <4>1, <4>2
    <3>3. ASSUME Deliver(a) PROVE FALSE
      <4>1. sent' = [sent EXCEPT ![Current(a)] = Append(sent[Current(a)], c.rec)] /\ sent' = sent
        BY <1>5, <3>3 DEF Deliver
      <4>2. Current(a) \in Subscriptions /\ sent[Current(a)] \in Seq(Row)
        BY <1>2, <2>2 DEF Current
      <4>3. Append(sent[Current(a)], c.rec) = sent[Current(a)]
        BY <1>2, <4>1, <4>2
      <4>4. Len(Append(sent[Current(a)], c.rec)) = Len(sent[Current(a)]) + 1 /\ Len(sent[Current(a)]) \in Nat
        BY <4>2
      <4> QED BY <4>3, <4>4
    <3> QED BY <1>5, <2>2, <3>1, <3>2, <3>3 DEF Send, Drain, Resend, SeeClosed, Current
  <2>4. ASSUME NEW d \in PubCall, pub' = [pub EXCEPT ![a] = d], d.at = "visit", d.i = c.i + 1,
               d.rec = c.rec, d.subs = c.subs, d.live = c.live
        PROVE  LogInv'
    <3>1. Sees(d) /\ SentBefore(d)
      BY <1>1, <2>1, <2>2, <2>4, GoesOn
    <3>2. c.at # "idle"
      BY <2>1 DEF Sending
    <3> QED BY <2>1, <2>3, <2>4, <3>1, <3>2, PublishMoves
  <2>5. CASE SeeClosed(a)
    <3> DEFINE d == [[[c EXCEPT !.at = "visit"] EXCEPT !.i = c.i + 1] EXCEPT !.pruned = TRUE]
    <3>1. pub' = [pub EXCEPT ![a] = d]
      BY <1>1, <2>5 DEF SeeClosed, PubCall
    <3>2. c.i + 1 \in Nat \ {0}
      BY <1>1
    <3>3. d \in PubCall
      BY <1>1, <3>2, PubFields
    <3>4. d.at = "visit" /\ d.i = c.i + 1 /\ d.rec = c.rec /\ d.subs = c.subs /\ d.live = c.live
      BY <1>1, <3>2, <3>3 DEF PubCall
    <3> HIDE DEF d
    <3> QED BY <2>4, <3>1, <3>3, <3>4
  <2>6. CASE pub' = [pub EXCEPT ![a].at = "visit", ![a].i = @ + 1]
    <3> DEFINE d == [[c EXCEPT !.at = "visit"] EXCEPT !.i = c.i + 1]
    <3>1. pub' = [pub EXCEPT ![a] = d]
      BY <1>1, <2>6 DEF PubCall
    <3>2. c.i + 1 \in Nat \ {0}
      BY <1>1
    <3>3. d \in PubCall
      BY <1>1, <3>2, PubFields
    <3>4. d.at = "visit" /\ d.i = c.i + 1 /\ d.rec = c.rec /\ d.subs = c.subs /\ d.live = c.live
      BY <1>1, <3>2, <3>3 DEF PubCall
    <3> HIDE DEF d
    <3> QED BY <2>4, <3>1, <3>3, <3>4
  <2>7. ASSUME NEW x \in {"drain", "resend"}, pub' = [pub EXCEPT ![a].at = x] PROVE LogInv'
    <3> DEFINE d == [c EXCEPT !.at = x]
    <3>1. pub' = [pub EXCEPT ![a] = d] /\ x \in PublishPC /\ x \in Sending /\ "idle" \notin Sending
          /\ x \notin {"idle", "copy"}
      BY <2>7 DEF PublishPC, Sending
    <3>2. d \in PubCall
      BY <1>1, <3>1, PubFields
    <3>3. d.at = x /\ d.i = c.i /\ d.rec = c.rec /\ d.subs = c.subs /\ d.live = c.live
      BY <1>1, <3>2 DEF PubCall
    <3> HIDE DEF d
    <3>4. \A j : PassedOver(d, j) <=> PassedOver(c, j)
      BY <2>1, <3>1, <3>3 DEF PassedOver
    <3>5. Sees(d) /\ SentBefore(d)
      BY <1>1, <2>1, <2>2, <3>1, <3>3, <3>4 DEF Sees, SentBefore
    <3>6. c.at # "idle"
      BY <2>1 DEF Sending
    <3> QED BY <2>1, <2>3, <3>1, <3>2, <3>3, <3>5, <3>6, PublishMoves
  <2>8. CASE Send(a)
    BY <2>5, <2>6, <2>7, <2>8 DEF Send, Deliver
  <2>9. CASE Drain(a)
    BY <2>5, <2>7, <2>9 DEF Drain
  <2>10. CASE Resend(a)
    BY <2>5, <2>6, <2>10 DEF Resend, Deliver
  <2> QED BY <1>5, <2>8, <2>9, <2>10
<1> QED BY <1>3, <1>4, <1>5

\* A delivery: the row goes to the end of the channel and of what was sent.
LEMMA DeliverKeeps ==
  ASSUME LogInv, NEW a \in Appenders, pub[a].at \in Sending, Deliver(a), UNCHANGED <<rows, hub, status>>
  PROVE  LogInv'
<1> DEFINE c == pub[a]
           s == c.subs[c.i]
           e == c.rec
<1>1. /\ EventLogTypeOK /\ pub \in [Appenders -> PubCall] /\ c \in PubCall /\ Sees(c) /\ SentBefore(c)
      /\ c.i \in Nat \ {0} /\ Len(c.subs) \in Nat /\ c.subs \in Seq(Subscriptions)
      /\ RowsApart /\ DeliveredOnce /\ HubListsOnce
  <2>1. EventLogTypeOK /\ RowsApart /\ DeliveredOnce /\ HubListsOnce /\ Sees(c) /\ SentBefore(c)
    BY DEF LogInv
  <2>2. pub \in [Appenders -> PubCall] /\ c \in PubCall
    BY <2>1 DEF EventLogTypeOK, PubCall
  <2>3. c.i \in Nat \ {0} /\ c.subs \in Seq(Subscriptions)
    BY <2>2 DEF PubCall
  <2> QED BY <2>1, <2>2, <2>3
<1>2. /\ chan \in [Subscriptions -> Seq(Row)] /\ sent \in [Subscriptions -> Seq(Row)]
      /\ \A q \in Subscriptions : Len(chan[q]) <= BufferSize
      /\ rows \in Seq(EventType) /\ Len(rows) <= MaxRows /\ MaxRows \in Nat /\ BufferSize \in Nat
  BY EventLogAssumption DEF LogInv, EventLogTypeOK
<1>3. c.i \in 1..Len(c.subs) /\ s \in Subscriptions /\ e \in 1..Len(rows) /\ e \in Row /\ c.at # "idle"
  <2>1. c.at # "idle"
    BY DEF Sending
  <2>2. c.i <= Len(c.subs) /\ e \in 1..Len(rows)
    BY <1>1, <2>1 DEF Sees
  <2>3. c.i \in 1..Len(c.subs)
    BY <1>1, <2>2
  <2>4. e \in Row
    BY <1>2, <2>2 DEF Row
  <2> QED BY <1>1, <2>1, <2>2, <2>3, <2>4
<1> DEFINE d == [[c EXCEPT !.at = "visit"] EXCEPT !.i = c.i + 1]
<1>4. /\ pub' = [pub EXCEPT ![a] = d] /\ Len(chan[s]) < BufferSize
      /\ chan' = [chan EXCEPT ![s] = Append(chan[s], e)]
      /\ sent' = [sent EXCEPT ![s] = Append(sent[s], e)]
      /\ freed' = [freed EXCEPT ![s] = IF Len(chan[s]) + 1 = BufferSize THEN 0 ELSE freed[s]]
  BY <1>1 DEF Deliver, Current, HasRoom, PubCall
<1>5. d \in PubCall
  <2>1. c.i + 1 \in Nat \ {0}
    BY <1>1
  <2> QED BY <1>1, <2>1, PubFields
<1>6. d.at = "visit" /\ d.i = c.i + 1 /\ d.rec = c.rec /\ d.subs = c.subs /\ d.live = c.live
  BY <1>1, <1>5 DEF PubCall
<1> HIDE DEF d
<1>7. Sees(d)
  <2> HIDE DEF c, s
  <2>1. c.i <= Len(c.subs) /\ c.at \in Sending
    BY <1>1, <1>3 DEF c
  <2> QED BY <1>1, <1>5, <1>6, <2>1, GoesOn
\* The row had not been sent there.
<1>8. ~Contains(sent[s], e)
  <2> SUFFICES ASSUME Contains(sent[s], e) PROVE FALSE
    OBVIOUS
  <2>1. PICK j \in 1..Len(c.subs) : j < c.i /\ c.subs[j] = s
    BY <1>1, <1>3 DEF SentBefore
  <2>2. j = c.i
    BY <1>1, <1>3, <2>1 DEF Sees, IsInjective
  <2> QED BY <1>1, <2>1, <2>2
<1> DEFINE t == Append(sent[s], e)
<1>9. /\ t \in Seq(Row) /\ Len(t) = Len(sent[s]) + 1 /\ Len(sent[s]) \in Nat /\ t[Len(sent[s]) + 1] = e
      /\ \A k \in 1..Len(sent[s]) : t[k] = sent[s][k]
      /\ \A k \in 1..Len(t) : k \in 1..Len(sent[s]) \/ k = Len(sent[s]) + 1
      /\ DOMAIN t = 1..Len(t) /\ DOMAIN sent[s] = 1..Len(sent[s])
  <2>1. sent[s] \in Seq(Row)
    BY <1>2, <1>3
  <2> HIDE DEF s, e
  <2> QED BY <1>3, <2>1, AppendIs
<1>10. \A x : Contains(t, x) => Contains(sent[s], x) \/ x = e
  BY <1>9 DEF Contains
<1>11. IsInjective(t)
  <2>1. \A k \in 1..Len(sent[s]) : sent[s][k] # e
    BY <1>8 DEF Contains
  <2>2. IsInjective(sent[s])
    BY <1>1, <1>3 DEF DeliveredOnce
  <2> QED BY <1>9, <2>1, <2>2 DEF IsInjective
<1>12. Append(chan[s], e) \in Seq(Row) /\ Len(Append(chan[s], e)) <= BufferSize
  <2>1. chan[s] \in Seq(Row)
    BY <1>2, <1>3
  <2> HIDE DEF s, e
  <2>2. /\ Len(Append(chan[s], e)) = Len(chan[s]) + 1 /\ Len(chan[s]) \in Nat
        /\ Append(chan[s], e) \in Seq(Row)
    BY <1>3, <2>1, AppendIs
  <2> QED BY <1>2, <1>4, <2>2
<1> HIDE DEF t
<1>13. /\ sent'[s] = t /\ \A q \in Subscriptions : q # s => sent'[q] = sent[q] /\ chan'[q] = chan[q]
       /\ chan'[s] = Append(chan[s], e)
       /\ sent' \in [Subscriptions -> Seq(Row)] /\ chan' \in [Subscriptions -> Seq(Row)]
  BY <1>2, <1>3, <1>4, <1>9, <1>12 DEF t
<1>14. /\ pub' \in [Appenders -> PubCall] /\ pub'[a] = d
       /\ \A b \in Appenders : b # a => pub'[b] = pub[b]
  BY <1>1, <1>4, <1>5
<1> HIDE DEF s, e
<1>15. EventLogTypeOK'
  <2>1. freed' \in [Subscriptions -> 0..BufferSize]
    BY <1>1, <1>2, <1>3, <1>4 DEF EventLogTypeOK
  <2> QED BY <1>1, <1>2, <1>12, <1>13, <1>14, <2>1 DEF EventLogTypeOK, PubCall
<1>16. RowsApart'
  <2>1. \A q \in Subscriptions : \A k \in 1..Len(sent'[q]) : sent'[q][k] <= Len(rows)
    <3>1. \A k \in 1..Len(t) : t[k] <= Len(rows)
      <4>1. \A k \in 1..Len(sent[s]) : sent[s][k] <= Len(rows)
        BY <1>1, <1>3 DEF RowsApart
      <4>2. e <= Len(rows)
        BY <1>3
      <4> QED BY <1>9, <4>1, <4>2
    <3> QED BY <1>1, <1>13, <3>1 DEF RowsApart
  <2>2. \A b \in Appenders : pub'[b].rec = pub[b].rec /\ (pub'[b].at # "idle" => pub[b].at # "idle")
    BY <1>3, <1>6, <1>14
  <2> QED BY <1>1, <2>1, <2>2 DEF RowsApart
<1>17. HubListsOnce'
  BY <1>1 DEF HubListsOnce
<1>18. DeliveredOnce'
  BY <1>1, <1>11, <1>13 DEF DeliveredOnce
<1>19. ASSUME NEW b \in Appenders PROVE Sees(pub[b])' /\ SentBefore(pub[b])'
  <2>1. Sees(pub[b])'
    <3>1. Sees(pub'[b])
      BY <1>7, <1>14 DEF LogInv
    <3> QED BY <3>1 DEF Sees
  <2>2. CASE b = a
    <3> SUFFICES ASSUME NEW q \in Subscriptions, Contains(sent'[q], d.rec)
                 PROVE  \E j \in 1..Len(d.subs) : j < d.i /\ d.subs[j] = q
      BY <1>14, <2>1, <2>2 DEF SentBefore
    <3>1. CASE q = s
      BY <1>1, <1>3, <1>6, <3>1 DEF s
    <3>2. CASE q # s
      <4>1. \E j \in 1..Len(c.subs) : j < c.i /\ c.subs[j] = q
        BY <1>1, <1>3, <1>6, <1>13, <3>2 DEF SentBefore
      <4> QED BY <1>1, <1>6, <4>1
    <3> QED BY <3>1, <3>2
  <2>3. CASE b # a
    <3>1. pub'[b] = pub[b] /\ SentBefore(pub[b])
      BY <1>14, <2>3 DEF LogInv
    <3>2. pub[b].at # "idle" => pub[b].rec # e
      BY <1>1, <1>3, <2>3 DEF RowsApart, e
    <3>3. \A q \in Subscriptions : pub[b].at # "idle" /\ Contains(sent'[q], pub[b].rec) => Contains(sent[q], pub[b].rec)
      BY <1>10, <1>13, <3>2
    <3> QED BY <2>1, <3>1, <3>3 DEF SentBefore
  <2> QED BY <2>1, <2>2, <2>3
<1> QED BY <1>15, <1>16, <1>17, <1>18, <1>19 DEF LogInv

\* A new row is nobody else's, and was sent to nobody.
LEMMA AppendRowKeeps ==
  ASSUME LogInv, NEW a \in Appenders, AppendRow(a)
  PROVE  LogInv'
<1> DEFINE c == pub[a]
           n == Len(rows) + 1
           d == [[c EXCEPT !.at = "copy"] EXCEPT !.rec = n]
<1>1. /\ EventLogTypeOK /\ pub \in [Appenders -> PubCall] /\ c \in PubCall /\ Sees(c)
      /\ RowsApart /\ DeliveredOnce /\ HubListsOnce /\ rows \in Seq(EventType) /\ MaxRows \in Nat
      /\ Len(rows) \in Nat /\ sent \in [Subscriptions -> Seq(Row)]
  <2>1. /\ EventLogTypeOK /\ RowsApart /\ DeliveredOnce /\ HubListsOnce /\ Sees(c)
    BY Zenon DEF LogInv
  <2>2. /\ pub \in [Appenders -> PubCall] /\ rows \in Seq(EventType) /\ sent \in [Subscriptions -> Seq(Row)]
    BY <2>1 DEF EventLogTypeOK, PubCall
  <2>3. MaxRows \in Nat
    BY EventLogAssumption
  <2>4. c \in PubCall
    BY <2>2
  <2>5. Len(rows) \in Nat
    BY <2>2
  <2> QED BY <2>1, <2>2, <2>3, <2>4, <2>5
<1>2. PICK t \in EventType : rows' = Append(rows, t)
  BY DEF AppendRow
<1>3. /\ c.at = "idle" /\ Len(rows) < MaxRows /\ UNCHANGED <<hub, status, chan, sent, freed>>
      /\ pub' = [pub EXCEPT ![a] = d]
  BY <1>1 DEF AppendRow, PubCall
<1>4. rows' \in Seq(EventType) /\ Len(rows') = n /\ n \in 0..MaxRows /\ n \in 1..n
  BY <1>1, <1>2, <1>3
<1>5. d \in PubCall
  BY <1>1, <1>4, PubFields
<1>6. d.at = "copy" /\ d.rec = n /\ d.subs = <<>> /\ d.live = <<>> /\ d.i = 1
  <2>1. c.subs = <<>> /\ c.live = <<>> /\ c.i = 1
    BY <1>1, <1>3 DEF Sees
  <2> QED BY <1>1, <1>5, <2>1 DEF PubCall
<1> HIDE DEF d
<1>7. /\ pub' \in [Appenders -> PubCall] /\ pub'[a] = d
      /\ \A b \in Appenders : b # a => pub'[b] = pub[b]
  BY <1>1, <1>3, <1>5
<1>8. EventLogTypeOK'
  <2>1. rows' \in Seq(EventType) /\ Len(rows') <= MaxRows /\ pub' \in [Appenders -> PubCall]
    BY <1>1, <1>4, <1>7
  <2> QED BY <1>1, <1>3, <2>1 DEF EventLogTypeOK, PubCall
<1>9. \A b \in Appenders : pub[b].at # "idle" => pub[b].rec \in 1..Len(rows)
  BY DEF LogInv, Sees
<1>10. RowsApart'
  <2>1. \A s \in Subscriptions : \A k \in 1..Len(sent[s]) : sent[s][k] <= n
    <3> SUFFICES ASSUME NEW s \in Subscriptions, NEW k \in 1..Len(sent[s]) PROVE sent[s][k] <= n
      OBVIOUS
    <3>1. sent[s][k] <= Len(rows) /\ sent[s][k] \in Row
      BY <1>1 DEF RowsApart
    <3> QED BY <1>1, <3>1 DEF Row
  <2>2. \A b \in Appenders : b # a /\ pub[b].at # "idle" => pub[b].rec # n
    BY <1>1, <1>9
  <2>3. \A b \in Appenders : b # a => pub'[b] = pub[b]
    BY <1>7
  <2>4. \A b \in Appenders : (pub'[b].at # "idle" /\ b # a => pub'[b].rec = pub[b].rec /\ pub[b].at # "idle")
                            /\ (b = a => pub'[b].rec = n)
    BY <1>6, <1>7
  <2>5. \A b1, b2 \in Appenders :
            pub'[b1].at # "idle" /\ pub'[b2].at # "idle" /\ pub'[b1].rec = pub'[b2].rec => b1 = b2
    BY <1>1, <2>2, <2>4 DEF RowsApart
  <2> QED BY <1>3, <1>4, <2>1, <2>5 DEF RowsApart
<1>11. HubListsOnce' /\ DeliveredOnce'
  BY <1>1, <1>3 DEF HubListsOnce, DeliveredOnce
<1>12. ASSUME NEW b \in Appenders PROVE Sees(pub[b])' /\ SentBefore(pub[b])'
  <2>1. CASE b # a
    <3>1. pub'[b] = pub[b] /\ Sees(pub[b]) /\ SentBefore(pub[b])
      BY <1>7, <2>1 DEF LogInv
    <3>2. pub[b].at = "idle" \/ pub[b].rec \in 1..Len(rows')
      BY <1>1, <1>4, <1>9
    <3> QED BY <1>3, <3>1, <3>2 DEF Sees, SentBefore
  <2>2. CASE b = a
    <3>1. \A s \in Subscriptions : ~Contains(sent[s], n)
      <4> SUFFICES ASSUME NEW s \in Subscriptions, NEW k \in 1..Len(sent[s]), sent[s][k] = n PROVE FALSE
        BY DEF Contains
      <4>1. sent[s][k] <= Len(rows)
        BY <1>1 DEF RowsApart
      <4> QED BY <1>1, <4>1
    <3>2. SentBefore(pub[b])'
      BY <1>3, <1>6, <1>7, <2>2, <3>1 DEF SentBefore
    <3>3. d.at \notin Sending /\ d.at # "idle"
      BY <1>6 DEF Sending
    <3>4. Sees(pub[b])'
      <4>1. Len(<<>>) = 0 /\ IsInjective(<<>>)
        BY DEF IsInjective
      <4> QED BY <1>4, <1>6, <1>7, <2>2, <3>3, <4>1 DEF Sees
    <3> QED BY <3>2, <3>4
  <2> QED BY <2>1, <2>2
<1> QED BY <1>8, <1>10, <1>11, <1>12 DEF LogInv

\* The end of publish: the list it writes back has no repetitions either.
LEMMA FinishKeeps ==
  ASSUME LogInv, NEW a \in Appenders, FinishPublish(a)
  PROVE  LogInv'
<1> DEFINE c == pub[a]
<1>1. /\ EventLogTypeOK /\ pub \in [Appenders -> PubCall] /\ c \in PubCall /\ Sees(c)
      /\ RowsApart /\ DeliveredOnce /\ HubListsOnce
      /\ c.live \in Seq(Subscriptions) /\ c.subs \in Seq(Subscriptions)
  BY DEF LogInv, EventLogTypeOK, PubCall
<1>2. /\ UNCHANGED <<rows, status, chan, sent, freed>> /\ pub' = [pub EXCEPT ![a] = NoCall]
      /\ hub' = IF c.pruned THEN c.live ELSE hub
  BY DEF FinishPublish, PrunedList
<1>3. /\ pub' \in [Appenders -> PubCall] /\ pub'[a] = NoCall
      /\ \A b \in Appenders : b # a => pub'[b] = pub[b]
  BY <1>1, <1>2, NoCallShape
<1>4. EventLogTypeOK'
  BY <1>1, <1>2, <1>3 DEF EventLogTypeOK, PubCall
<1>5. RowsApart' /\ DeliveredOnce'
  BY <1>1, <1>2, <1>3, NoCallShape DEF RowsApart, DeliveredOnce
<1>6. HubListsOnce'
  <2>1. IsInjective(c.live) /\ \A k \in 1..Len(c.live) : status[c.live[k]] # "none"
    BY <1>1 DEF Sees
  <2> QED BY <1>1, <1>2, <2>1 DEF HubListsOnce
<1>7. ASSUME NEW b \in Appenders PROVE Sees(pub[b])' /\ SentBefore(pub[b])'
  <2>1. Sees(pub'[b]) /\ SentBefore(pub'[b])
    BY <1>3, NoCallSees DEF LogInv
  <2> QED BY <1>2, <2>1 DEF Sees, SentBefore
<1> QED BY <1>4, <1>5, <1>6, <1>7 DEF LogInv

\* The steps of a subscriber.
LEMMA SubscriberKeeps ==
  ASSUME LogInv, NEW s \in Subscriptions, Subscribe(s) \/ CloseSubscription(s) \/ Receive(s)
  PROVE  LogInv'
<1>1. /\ EventLogTypeOK /\ RowsApart /\ DeliveredOnce /\ HubListsOnce
      /\ status \in [Subscriptions -> {"none", "open", "closed"}] /\ hub \in Seq(Subscriptions)
      /\ chan \in [Subscriptions -> Seq(Row)] /\ sent \in [Subscriptions -> Seq(Row)]
      /\ \A q \in Subscriptions : Len(chan[q]) <= BufferSize
      /\ \A a \in Appenders : Sees(pub[a]) /\ SentBefore(pub[a])
      /\ pub \in [Appenders -> PubCall]
  BY DEF LogInv, EventLogTypeOK, PubCall
<1>2. CASE Subscribe(s) \/ CloseSubscription(s)
  <2>1. /\ UNCHANGED <<rows, chan, pub, sent, freed>>
        /\ \/ status[s] = "none" /\ status' = [status EXCEPT ![s] = "open"] /\ hub' = Append(hub, s)
           \/ status[s] = "open" /\ status' = [status EXCEPT ![s] = "closed"] /\ hub' = hub
    BY <1>2 DEF Subscribe, CloseSubscription
  <2>2. /\ status' \in [Subscriptions -> {"none", "open", "closed"}] /\ status'[s] # "none"
        /\ \A q \in Subscriptions : (status[q] # "none" => status'[q] # "none")
                                    /\ (status[q] = "closed" => status'[q] = "closed")
    BY <1>1, <2>1
  <2>3. HubListsOnce' /\ hub' \in Seq(Subscriptions)
    <3>1. CASE hub' = hub
      <4>1. \A k \in 1..Len(hub) : hub[k] \in Subscriptions
        BY <1>1
      <4> QED BY <1>1, <2>2, <3>1, <4>1 DEF HubListsOnce
    <3>2. CASE status[s] = "none" /\ hub' = Append(hub, s)
      <4>1. /\ hub' \in Seq(Subscriptions) /\ Len(hub') = Len(hub) + 1 /\ hub'[Len(hub) + 1] = s
            /\ \A k \in 1..Len(hub) : hub'[k] = hub[k]
            /\ \A k \in 1..Len(hub') : k \in 1..Len(hub) \/ k = Len(hub) + 1
            /\ DOMAIN hub' = 1..Len(hub') /\ DOMAIN hub = 1..Len(hub)
        BY <1>1, <3>2, AppendIs
      <4>2. \A k \in 1..Len(hub) : hub[k] # s /\ hub[k] \in Subscriptions /\ status'[hub[k]] # "none"
        BY <1>1, <2>2, <3>2 DEF HubListsOnce
      <4>3. IsInjective(hub')
        BY <1>1, <4>1, <4>2 DEF HubListsOnce, IsInjective
      <4> QED BY <2>2, <4>1, <4>2, <4>3 DEF HubListsOnce
    <3> QED BY <2>1, <3>1, <3>2
  <2>4. EventLogTypeOK' /\ RowsApart' /\ DeliveredOnce'
    BY <1>1, <2>1, <2>2, <2>3 DEF EventLogTypeOK, RowsApart, DeliveredOnce
  <2>5. ASSUME NEW b \in Appenders PROVE Sees(pub[b])' /\ SentBefore(pub[b])'
    <3>1. pub[b].subs \in Seq(Subscriptions) /\ \A k \in 1..Len(pub[b].subs) : pub[b].subs[k] \in Subscriptions
      BY <1>1 DEF PubCall
    <3>2. Sees(pub[b]) /\ SentBefore(pub[b])
      BY <1>1
    <3>3. Sees(pub[b])'
      BY <2>1, <2>2, <3>1, <3>2 DEF Sees
    <3> QED BY <2>1, <3>2, <3>3 DEF SentBefore
  <2> QED BY <2>3, <2>4, <2>5 DEF LogInv
<1>3. CASE Receive(s)
  <2>1. /\ chan[s] # <<>> /\ chan' = [chan EXCEPT ![s] = Tail(chan[s])] /\ UNCHANGED <<rows, hub, status, pub, sent>>
        /\ freed' = [freed EXCEPT ![s] = IF freed[s] < BufferSize THEN freed[s] + 1 ELSE freed[s]]
    BY <1>3 DEF Receive
  <2>2. Tail(chan[s]) \in Seq(Row) /\ Len(Tail(chan[s])) = Len(chan[s]) - 1
    BY <1>1, <2>1, TailIs
  <2>3. Len(Tail(chan[s])) <= BufferSize
    BY <1>1, <2>2, EventLogAssumption
  <2>4. /\ chan' \in [Subscriptions -> Seq(Row)]
        /\ \A q \in Subscriptions : Len(chan'[q]) <= BufferSize
    BY <1>1, <2>1, <2>2, <2>3
  <2>5. freed' \in [Subscriptions -> 0..BufferSize]
    BY <1>1, <2>1, EventLogAssumption DEF EventLogTypeOK
  <2>6. EventLogTypeOK' /\ RowsApart' /\ DeliveredOnce' /\ HubListsOnce'
    BY <1>1, <2>1, <2>4, <2>5 DEF EventLogTypeOK, RowsApart, DeliveredOnce, HubListsOnce
  <2>7. ASSUME NEW b \in Appenders PROVE Sees(pub[b])' /\ SentBefore(pub[b])'
    <3>1. Sees(pub[b]) /\ SentBefore(pub[b])
      BY <1>1
    <3> QED BY <2>1, <3>1 DEF Sees, SentBefore
  <2> QED BY <2>6, <2>7 DEF LogInv
<1> QED BY <1>2, <1>3

LEMMA LogStepInv == LogInv /\ [EventLogNext]_hubVars => LogInv'
<1> SUFFICES ASSUME LogInv, [EventLogNext]_hubVars PROVE LogInv'
  OBVIOUS
<1>1. ASSUME NEW a \in Appenders, Send(a) \/ Drain(a) \/ Resend(a) PROVE LogInv'
  <2>1. pub[a].at \in Sending /\ UNCHANGED <<rows, hub, status>>
    BY <1>1 DEF Send, Drain, Resend, Sending
  <2>2. Deliver(a) \/ UNCHANGED <<sent, freed>>
    BY <1>1 DEF Send, Drain, Resend, SeeClosed
  <2>3. CASE Deliver(a)
    BY <2>1, <2>3, DeliverKeeps
  <2>4. CASE UNCHANGED <<sent, freed>>
    BY <1>1, <2>4, PublishKeeps
  <2> QED BY <2>2, <2>3, <2>4
<1>2. ASSUME NEW a \in Appenders, CopySubs(a) \/ Visit(a) PROVE LogInv'
  BY <1>2, PublishKeeps
<1>3. ASSUME NEW a \in Appenders, AppendRow(a) \/ FinishPublish(a) PROVE LogInv'
  BY <1>3, AppendRowKeeps, FinishKeeps
<1>4. CASE UNCHANGED hubVars
  BY <1>4 DEF hubVars, LogInv, EventLogTypeOK, RowsApart, HubListsOnce, DeliveredOnce, Sees, SentBefore
<1> QED BY <1>1, <1>2, <1>3, <1>4, SubscriberKeeps DEF EventLogNext, PublishStep

-----------------------------------------------------------------------------
(* EventLog: room that is made is filled                                   *)

\* Sets of publishers that differ by one.
LEMMA Publishers ==
  ASSUME NEW R \in SUBSET Appenders, NEW Q \in SUBSET Appenders
  PROVE  /\ Cardinality(R) \in Nat /\ Cardinality(Q) \in Nat
         /\ R \subseteq Q => Cardinality(R) <= Cardinality(Q)
         /\ \A a \in Appenders : R \subseteq Q \cup {a} => Cardinality(R) <= Cardinality(Q) + 1
         /\ \A a \in Appenders : a \in Q \ R /\ R \subseteq Q => Cardinality(R) + 1 <= Cardinality(Q)
<1>1. IsFiniteSet(R) /\ IsFiniteSet(Q)
  BY EventLogAssumption, FS_Subset
<1>2. Cardinality(R) \in Nat /\ Cardinality(Q) \in Nat
  BY <1>1, FS_CardinalityType
<1>3. R \subseteq Q => Cardinality(R) <= Cardinality(Q)
  BY <1>1, FS_Subset
<1>4. ASSUME NEW a \in Appenders, R \subseteq Q \cup {a} PROVE Cardinality(R) <= Cardinality(Q) + 1
  <2>1. IsFiniteSet(Q \cup {a}) /\ Cardinality(Q \cup {a}) <= Cardinality(Q) + 1
    <3>1. CASE a \in Q
      <4>1. Q \cup {a} = Q
        BY <3>1
      <4> QED BY <1>1, <1>2, <4>1
    <3>2. CASE a \notin Q
      <4>1. IsFiniteSet(Q \cup {a}) /\ Cardinality(Q \cup {a}) = Cardinality(Q) + 1
        BY <1>1, <3>2, FS_AddElement
      <4> QED BY <1>2, <4>1
    <3> QED BY <3>1, <3>2
  <2>2. Cardinality(R) <= Cardinality(Q \cup {a}) /\ Cardinality(Q \cup {a}) \in Nat
    BY <1>4, <2>1, FS_Subset, FS_CardinalityType
  <2> QED BY <1>2, <2>1, <2>2
<1>5. ASSUME NEW a \in Appenders, a \in Q \ R, R \subseteq Q PROVE Cardinality(R) + 1 <= Cardinality(Q)
  <2>1. IsFiniteSet(R \cup {a}) /\ Cardinality(R \cup {a}) = Cardinality(R) + 1
    BY <1>1, <1>5, FS_AddElement
  <2>2. R \cup {a} \subseteq Q
    BY <1>5
  <2>3. Cardinality(R \cup {a}) <= Cardinality(Q)
    BY <1>1, <2>2, FS_Subset
  <2> QED BY <2>1, <2>3
<1> QED BY <1>2, <1>3, <1>4, <1>5

LEMMA RoomStep == LogInv /\ LogInv' /\ RoomRefilled /\ [EventLogNext]_hubVars => RoomRefilled'
<1> SUFFICES ASSUME LogInv, LogInv', RoomRefilled, [EventLogNext]_hubVars,
                    NEW s \in Subscriptions, status'[s] # "closed"
             PROVE  BufferSize <= Len(chan'[s]) + freed'[s] + Cardinality(Refilling(s)')
  BY DEF RoomRefilled
<1> DEFINE R == Refilling(s)
           Q == Refilling(s)'
<1>1. /\ pub \in [Appenders -> PubCall] /\ pub' \in [Appenders -> PubCall]
      /\ chan \in [Subscriptions -> Seq(Row)] /\ chan' \in [Subscriptions -> Seq(Row)]
      /\ freed \in [Subscriptions -> 0..BufferSize] /\ freed' \in [Subscriptions -> 0..BufferSize]
      /\ status \in [Subscriptions -> {"none", "open", "closed"}] /\ BufferSize \in Nat \ {0}
  BY EventLogAssumption DEF LogInv, EventLogTypeOK, PubCall
<1>2. /\ Len(chan[s]) \in Nat /\ Len(chan'[s]) \in Nat /\ freed[s] \in 0..BufferSize
      /\ freed'[s] \in 0..BufferSize /\ Len(chan[s]) <= BufferSize
  BY <1>1 DEF LogInv, EventLogTypeOK
<1>3. R \in SUBSET Appenders /\ Q \in SUBSET Appenders
  BY DEF Refilling
<1>4. /\ Cardinality(R) \in Nat /\ Cardinality(Q) \in Nat
      /\ R \subseteq Q => Cardinality(R) <= Cardinality(Q)
      /\ \A a \in Appenders : R \subseteq Q \cup {a} => Cardinality(R) <= Cardinality(Q) + 1
      /\ \A a \in Appenders : a \in Q \ R /\ R \subseteq Q => Cardinality(R) + 1 <= Cardinality(Q)
  BY <1>3, Publishers
<1>5. status[s] # "closed"
  BY <1>1 DEF EventLogNext, hubVars, Subscribe, CloseSubscription, Receive, AppendRow, PublishStep,
              CopySubs, Visit, Send, Drain, Resend, FinishPublish
<1>6. BufferSize <= Len(chan[s]) + freed[s] + Cardinality(R)
  BY <1>5 DEF RoomRefilled
\* Membership in the sets of publishers, by the calls.
<1>7. \A a \in Appenders : /\ a \in R <=> pub[a].at = "resend" /\ Current(a) = s
                           /\ a \in Q <=> pub'[a].at = "resend" /\ Current(a)' = s
                           /\ pub'[a] = pub[a] => (a \in Q <=> a \in R)
  BY DEF Refilling, Current
<1> HIDE DEF R, Q
<1>8. CASE chan'[s] = chan[s] /\ freed'[s] = freed[s] /\ R \subseteq Q
  <2>1. Cardinality(R) <= Cardinality(Q)
    BY <1>4, <1>8
  <2>2. BufferSize <= Len(chan'[s]) + freed'[s] + Cardinality(Q)
    BY <1>1, <1>2, <1>4, <1>6, <1>8, <2>1
  <2> QED BY <2>2 DEF Q
<1>9. CASE UNCHANGED hubVars \/ \E q \in Subscriptions : Subscribe(q) \/ CloseSubscription(q)
  <2>1. UNCHANGED <<chan, freed, pub>>
    BY <1>9 DEF hubVars, Subscribe, CloseSubscription
  <2>2. R \subseteq Q
    BY <1>3, <1>7, <2>1
  <2> QED BY <1>8, <2>1, <2>2
<1>10. ASSUME NEW q \in Subscriptions, Receive(q)
       PROVE  BufferSize <= Len(chan'[s]) + freed'[s] + Cardinality(Refilling(s)')
  <2>1. /\ chan[q] # <<>> /\ chan' = [chan EXCEPT ![q] = Tail(chan[q])] /\ UNCHANGED pub
        /\ freed' = [freed EXCEPT ![q] = IF freed[q] < BufferSize THEN freed[q] + 1 ELSE freed[q]]
    BY <1>10 DEF Receive
  <2>2. R \subseteq Q
    BY <1>3, <1>7, <2>1
  <2>3. CASE q # s
    <3>1. chan'[s] = chan[s] /\ freed'[s] = freed[s]
      BY <1>1, <2>1, <2>3
    <3> QED BY <1>8, <2>2, <3>1
  <2>4. CASE q = s
    <3>1. chan'[s] = Tail(chan[s]) /\ chan[s] # <<>> /\ chan[s] \in Seq(Row)
      BY <1>1, <2>1, <2>4
    <3>2. Len(chan'[s]) = Len(chan[s]) - 1
      BY <3>1, TailIs
    <3>3. freed'[s] = IF freed[s] < BufferSize THEN freed[s] + 1 ELSE freed[s]
      BY <1>1, <2>1, <2>4
    <3>4. Cardinality(R) <= Cardinality(Q)
      BY <1>4, <2>2
    <3>5. BufferSize <= Len(chan'[s]) + freed'[s] + Cardinality(Q)
      <4>1. CASE freed[s] < BufferSize
        <5>1. freed'[s] = freed[s] + 1
          BY <3>3, <4>1
        <5>2. /\ Len(chan[s]) \in Nat /\ freed[s] \in Nat /\ Cardinality(R) \in Nat
              /\ Cardinality(Q) \in Nat
          BY <1>1, <1>2, <1>4
        <5>3. \A l, f, n, m \in Nat :
                  BufferSize <= l + f + n /\ n <= m => BufferSize <= (l - 1) + (f + 1) + m
          BY <1>1
        <5>4. BufferSize <= (Len(chan[s]) - 1) + (freed[s] + 1) + Cardinality(Q)
          BY <1>6, <3>4, <5>2, <5>3
        <5> QED BY <3>2, <5>1, <5>4
      <4>2. CASE ~(freed[s] < BufferSize)
        <5>1. freed'[s] = freed[s] /\ freed[s] = BufferSize
          BY <1>1, <1>2, <3>3, <4>2
        <5> QED BY <1>1, <1>2, <1>4, <3>2, <5>1
      <4> QED BY <4>1, <4>2
    <3> QED BY <3>5 DEF Q
  <2> QED BY <2>3, <2>4
<1>11. ASSUME NEW a \in Appenders, UNCHANGED <<chan, freed>>, a \notin R,
              \A b \in Appenders : b # a => pub'[b] = pub[b]
       PROVE  BufferSize <= Len(chan'[s]) + freed'[s] + Cardinality(Refilling(s)')
  <2>1. R \subseteq Q
    BY <1>3, <1>7, <1>11
  <2> QED BY <1>8, <1>11, <2>1
<1>12. ASSUME NEW a \in Appenders,
              AppendRow(a) \/ CopySubs(a) \/ Visit(a) \/ FinishPublish(a)
       PROVE  BufferSize <= Len(chan'[s]) + freed'[s] + Cardinality(Refilling(s)')
  <2>1. UNCHANGED <<chan, freed>> /\ pub[a].at # "resend"
    BY <1>12 DEF AppendRow, CopySubs, Visit, FinishPublish
  <2>2. \A b \in Appenders : b # a => pub'[b] = pub[b]
    BY <1>1, <1>12 DEF AppendRow, CopySubs, Visit, FinishPublish
  <2>3. a \notin R
    BY <1>7, <2>1
  <2> QED BY <1>11, <2>1, <2>2, <2>3
<1>13. ASSUME NEW a \in Appenders, Send(a) \/ Drain(a) \/ Resend(a)
       PROVE  BufferSize <= Len(chan'[s]) + freed'[s] + Cardinality(Refilling(s)')
  <2> DEFINE q == Current(a)
  <2>1. q \in Subscriptions
    <3>1. Sees(pub[a]) /\ pub[a].at \in Sending /\ pub[a].subs \in Seq(Subscriptions) /\ pub[a].i \in Nat \ {0}
      BY <1>1, <1>13 DEF LogInv, Send, Drain, Resend, Sending, PubCall
    <3>2. pub[a].i \in 1..Len(pub[a].subs)
      BY <3>1 DEF Sees
    <3> QED BY <3>1, <3>2 DEF Current
  <2>2. \A b \in Appenders : b # a => pub'[b] = pub[b]
    BY <1>1, <1>13 DEF Send, Drain, Resend, Deliver, SeeClosed
  <2>3. R \subseteq Q \cup {a}
    BY <1>3, <1>7, <2>2
  <2>4. q # s => a \notin R
    BY <1>7
  <2> HIDE DEF q
  <2>5. ASSUME chan'[s] = chan[s], freed'[s] = freed[s], a \notin R
        PROVE  BufferSize <= Len(chan'[s]) + freed'[s] + Cardinality(Refilling(s)')
    <3>1. R \subseteq Q
      BY <2>3, <2>5
    <3> QED BY <1>8, <2>5, <3>1
  <2>6. CASE Deliver(a)
    <3>1. /\ chan' = [chan EXCEPT ![q] = Append(chan[q], pub[a].rec)]
          /\ freed' = [freed EXCEPT ![q] = IF Len(chan[q]) + 1 = BufferSize THEN 0 ELSE freed[q]]
      BY <2>6 DEF Deliver, q
    <3>2. CASE q # s
      <4>1. chan'[s] = chan[s] /\ freed'[s] = freed[s]
        BY <1>1, <3>1, <3>2
      <4> QED BY <2>4, <2>5, <3>2, <4>1
    <3>3. CASE q = s
      <4>1. /\ chan'[s] = Append(chan[s], pub[a].rec)
            /\ freed'[s] = IF Len(chan[s]) + 1 = BufferSize THEN 0 ELSE freed[s]
        BY <1>1, <3>1, <3>3
      <4>2. Len(chan'[s]) = Len(chan[s]) + 1
        <5>1. chan[s] \in Seq(Row)
          BY <1>1
        <5> QED BY <4>1, <5>1
      <4>3. Cardinality(R) <= Cardinality(Q) + 1
        BY <1>4, <2>3
      <4> QED BY <1>1, <1>2, <1>4, <1>6, <4>1, <4>2, <4>3 DEF Q
    <3> QED BY <3>2, <3>3
  <2>7. CASE SeeClosed(a)
    <3>1. UNCHANGED <<chan, freed>> /\ q # s
      BY <1>5, <2>7 DEF SeeClosed, q
    <3> QED BY <2>4, <2>5, <3>1
  <2>8. CASE UNCHANGED <<chan, freed>> /\ pub[a].at # "resend"
    <3>1. a \notin R
      BY <1>7, <2>8
    <3> QED BY <2>5, <2>8, <3>1
  <2>9. CASE UNCHANGED <<chan, freed>> /\ Neither(a)
    <3>1. CASE q = s
      <4>1. ~(Len(chan[s]) < BufferSize)
        BY <2>9, <3>1 DEF Neither, HasRoom, q
      <4> QED BY <1>1, <1>2, <1>4, <2>9, <4>1 DEF Q
    <3>2. CASE q # s
      BY <2>4, <2>5, <2>9, <3>2
    <3> QED BY <3>1, <3>2
  <2>10. CASE /\ pub[a].at = "drain" /\ chan[q] # <<>> /\ chan' = [chan EXCEPT ![q] = Tail(chan[q])]
              /\ pub' = [pub EXCEPT ![a].at = "resend"] /\ UNCHANGED freed
    <3>1. a \notin R
      BY <1>7, <2>10
    <3>2. CASE q # s
      <4>1. chan'[s] = chan[s] /\ freed'[s] = freed[s]
        BY <1>1, <2>10, <3>2
      <4> QED BY <2>5, <3>1, <4>1
    <3>3. CASE q = s
      <4>1. pub'[a].at = "resend" /\ pub'[a].subs = pub[a].subs /\ pub'[a].i = pub[a].i
        BY <1>1, <2>10 DEF PubCall
      <4>2. Current(a)' = s
        BY <3>3, <4>1 DEF Current, q
      <4>3. a \in Q \ R /\ R \subseteq Q
        BY <1>7, <2>3, <3>1, <4>1, <4>2
      <4>4. Cardinality(R) + 1 <= Cardinality(Q)
        BY <1>4, <4>3
      <4>5. chan'[s] = Tail(chan[s]) /\ chan[s] # <<>> /\ chan[s] \in Seq(Row) /\ freed'[s] = freed[s]
        BY <1>1, <2>10, <3>3
      <4>6. Len(chan'[s]) = Len(chan[s]) - 1
        BY <4>5, TailIs
      <4> QED BY <1>1, <1>2, <1>4, <1>6, <4>4, <4>5, <4>6 DEF Q
    <3> QED BY <3>2, <3>3
  <2>11. CASE Send(a)
    BY <2>6, <2>7, <2>8, <2>11 DEF Send
  <2>12. CASE Drain(a)
    <3>1. pub[a].at = "drain"
      BY <2>12 DEF Drain
    <3> QED BY <2>7, <2>8, <2>10, <2>12, <3>1 DEF Drain, q
  <2>13. CASE Resend(a)
    BY <2>6, <2>7, <2>9, <2>13 DEF Resend
  <2> QED BY <1>13, <2>11, <2>12, <2>13
<1> QED BY <1>9, <1>10, <1>12, <1>13 DEF EventLogNext, PublishStep

\* A subscriber gets no record twice, and room that publishers make in its channel is
\* filled again, for any number of appenders and subscriptions and any buffer size
\* (subscriber.go:116-170).
THEOREM DeliveryCorrect == EventLogSpec => []DeliverySound
<1>1. EventLogInit => RoomRefilled
  <2> SUFFICES ASSUME EventLogInit, NEW s \in Subscriptions
               PROVE  BufferSize <= Len(chan[s]) + freed[s] + Cardinality(Refilling(s))
    BY DEF RoomRefilled
  <2>1. freed[s] = BufferSize /\ Len(chan[s]) = 0 /\ Refilling(s) \in SUBSET Appenders
    BY DEF EventLogInit, Refilling
  <2>2. Cardinality(Refilling(s)) \in Nat
    BY <2>1, Publishers
  <2> QED BY <2>1, <2>2, EventLogAssumption
<1>2. LogInv /\ RoomRefilled => DeliverySound
  BY DEF LogInv, DeliverySound
<1> QED BY <1>1, <1>2, LogInitInv, LogStepInv, RoomStep, PTL DEF EventLogSpec

\* A publisher that writes the list back takes out only subscriptions it saw closed and
\* those it never saw, for any number of publishers and subscriptions
\* (subscriber.go:117-120, 164-169).
THEOREM PruningCorrect == EventLogSpec => PrunesWhatItSaw
<1>1. ASSUME LogInv, [EventLogNext]_hubVars
      PROVE  [\A s \in Subscriptions : Contains(hub, s) /\ ~Contains(hub', s) =>
                 \/ status[s] = "closed"
                 \/ \E a \in Appenders : /\ pub[a].pruned /\ pub'[a].at = "idle"
                                         /\ ~Contains(pub[a].subs, s)]_hubVars
  <2> SUFFICES ASSUME NEW s \in Subscriptions, Contains(hub, s), ~Contains(hub', s)
               PROVE  \/ status[s] = "closed"
                      \/ \E a \in Appenders : /\ pub[a].pruned /\ pub'[a].at = "idle"
                                              /\ ~Contains(pub[a].subs, s)
    OBVIOUS
  <2>1. hub' # hub
    OBVIOUS
  <2>2. CASE \E q \in Subscriptions : Subscribe(q)
    <3>1. PICK q \in Subscriptions : hub' = Append(hub, q)
      BY <2>2 DEF Subscribe
    <3>2. Len(hub') = Len(hub) + 1 /\ \A k \in 1..Len(hub) : hub'[k] = hub[k] /\ k \in 1..Len(hub')
      BY <3>1, AppendIs DEF LogInv, EventLogTypeOK
    <3> QED BY <3>2 DEF Contains
  <2>3. ASSUME NEW a \in Appenders, FinishPublish(a)
        PROVE  status[s] = "closed" \/ (pub[a].pruned /\ pub'[a].at = "idle" /\ ~Contains(pub[a].subs, s))
    <3>1. /\ pub' = [pub EXCEPT ![a] = NoCall] /\ pub[a].i > Len(pub[a].subs)
          /\ pub[a].pruned /\ hub' = pub[a].live
      BY <2>1, <2>3 DEF FinishPublish, PrunedList
    <3>2. /\ pub \in [Appenders -> PubCall] /\ pub[a].i \in Nat /\ Sees(pub[a]) /\ Len(pub[a].subs) \in Nat
      <4>1. pub \in [Appenders -> PubCall] /\ Sees(pub[a])
        BY <1>1 DEF LogInv, EventLogTypeOK, PubCall
      <4> QED BY <4>1 DEF PubCall
    <3>3. pub'[a].at = "idle"
      BY <3>1, <3>2, NoCallShape
    <3>4. ASSUME NEW k \in 1..Len(pub[a].subs), pub[a].subs[k] = s PROVE status[s] = "closed"
      <4>1. PassedOver(pub[a], k)
        BY <3>1, <3>2 DEF PassedOver
      <4> QED BY <3>1, <3>2, <3>4, <4>1 DEF Sees
    <3> QED BY <3>1, <3>3, <3>4 DEF Contains
  <2>4. \/ \E q \in Subscriptions : Subscribe(q)
        \/ \E a \in Appenders : FinishPublish(a)
    BY <1>1, <2>1 DEF EventLogNext, PublishStep, CloseSubscription, Receive, AppendRow, CopySubs, Visit,
                      Send, Drain, Resend, hubVars
  <2> QED BY <2>2, <2>3, <2>4
<1> QED BY <1>1, LogInitInv, LogStepInv, PTL DEF EventLogSpec, PrunesWhatItSaw

-----------------------------------------------------------------------------
(* CostLedger: what a Flush and the Close of the emitter wait for.         *)

EmitterShape ==
    /\ now \in 0..MaxNow /\ costs \in Nat
    /\ emitter \in [ch : Seq(Attempt), closed : BOOLEAN, worker : {"run", "drain", "ended"}, done : BOOLEAN]
    /\ flusher \in [at : {"idle", "offering", "waiting", "returned"}, before : SUBSET Attempt]
    /\ accepted \subseteq Attempt /\ ownRow \subseteq Attempt

\* Each row that came from the emitter is that of one attempt, and is in the table.
RowsOwned == OneRowEach /\ \A e \in ownRow : e.key \in ledger

\* An accepted attempt is tried or in the channel, and a Flush waits for accepted ones only.
NoneLost ==
    /\ \A r \in accepted : Tried(r) \/ r \in Range(emitter.ch)
    /\ flusher.before \subseteq accepted

\* The worker ends behind the last event, and Close is done behind the worker.
EndsEmpty ==
    /\ emitter.worker = "ended" => emitter.closed /\ emitter.ch = <<>>
    /\ emitter.done => emitter.worker = "ended"

FlushedBefore == flusher.at = "returned" => \A e \in flusher.before : Tried(e)

EmitInv == EmitterShape /\ RowsOwned /\ NoneLost /\ EndsEmpty /\ FlushedBefore

LEMMA RangeOfChannel ==
  /\ Range(<<>>) = {}
  /\ \A q \in Seq(Attempt) : \A r \in Attempt : \A x :
         x \in Range(q) \/ x = r <=> x \in Range(Append(q, r))
  /\ \A q \in Seq(Attempt) : q # <<>> =>
         /\ Head(q) \in Attempt /\ Tail(q) \in Seq(Attempt)
         /\ \A x : x \in Range(q) => x = Head(q) \/ x \in Range(Tail(q))
<1>1. Range(<<>>) = {}
  BY DEF Range
<1>2. ASSUME NEW q \in Seq(Attempt), NEW r \in Attempt, NEW x
      PROVE  x \in Range(q) \/ x = r <=> x \in Range(Append(q, r))
  <2>1. /\ DOMAIN q = 1..Len(q) /\ Len(q) \in Nat
        /\ DOMAIN Append(q, r) = 1..(Len(q) + 1) /\ Append(q, r)[Len(q) + 1] = r
        /\ \A i \in 1..Len(q) : Append(q, r)[i] = q[i]
    OBVIOUS
  <2>2. PICK p, n : p = Append(q, r) /\ n = Len(q)
    OBVIOUS
  <2>3. /\ DOMAIN q = 1..n /\ n \in Nat /\ DOMAIN p = 1..(n + 1) /\ p[n + 1] = r
        /\ \A i \in 1..n : p[i] = q[i]
    BY <2>1, <2>2
  <2>4. x \in Range(q) \/ x = r <=> x \in Range(p)
    BY <2>3 DEF Range
  <2> QED BY <2>2, <2>4
<1>3. ASSUME NEW q \in Seq(Attempt), q # <<>>
      PROVE  /\ Head(q) \in Attempt /\ Tail(q) \in Seq(Attempt)
             /\ \A x : x \in Range(q) => x = Head(q) \/ x \in Range(Tail(q))
  <2>1. /\ Head(q) \in Attempt /\ Tail(q) \in Seq(Attempt) /\ Len(q) \in Nat \ {0}
        /\ DOMAIN q = 1..Len(q) /\ DOMAIN Tail(q) = 1..(Len(q) - 1) /\ Head(q) = q[1]
        /\ \A i \in 1..(Len(q) - 1) : Tail(q)[i] = q[i + 1]
    BY <1>3
  <2>2. PICK p, n, h : p = Tail(q) /\ n = Len(q) /\ h = Head(q)
    OBVIOUS
  <2>3. /\ n \in Nat \ {0} /\ DOMAIN q = 1..n /\ DOMAIN p = 1..(n - 1) /\ h = q[1]
        /\ \A i \in 1..(n - 1) : p[i] = q[i + 1]
    BY <2>1, <2>2
  <2>4. ASSUME NEW i \in 1..n PROVE q[i] = h \/ q[i] \in Range(p)
    <3>1. CASE i = 1
      BY <2>3, <3>1
    <3>2. CASE i # 1
      <4>1. i - 1 \in 1..(n - 1) /\ (i - 1) + 1 = i
        BY <2>3, <3>2
      <4> QED BY <2>3, <4>1 DEF Range
    <3> QED BY <3>1, <3>2
  <2>5. \A x : x \in Range(q) => x = h \/ x \in Range(p)
    BY <2>3, <2>4 DEF Range
  <2> QED BY <2>1, <2>2, <2>5
<1> QED BY <1>1, <1>2, <1>3

\* What the emitter does not do: the clock, the counters, the table's other writers.
LEMMA EmitterRests ==
  ASSUME EmitInv, UNCHANGED <<emitVars, ownRow, failed>>, now' \in 0..MaxNow, costs' \in Nat,
         ledger \subseteq ledger', \A r \in ledger' \ ledger : r.by \notin Spenders
  PROVE  EmitInv'
<1>1. UNCHANGED <<emitter, flusher, accepted, ownRow, failed>>
  BY DEF emitVars
<1>2. EmitterShape'
  BY <1>1 DEF EmitInv, EmitterShape
<1>3. \A e : Tried(e)' <=> Tried(e)
  BY <1>1 DEF Tried
<1>4. NoneLost' /\ EndsEmpty'
  BY <1>1, <1>3 DEF EmitInv, NoneLost, EndsEmpty
<1>5. FlushedBefore'
  BY <1>1, <1>3 DEF EmitInv, FlushedBefore
<1>6. RowsOwned'
  BY <1>1 DEF EmitInv, RowsOwned, OneRowEach
<1> QED BY <1>2, <1>4, <1>5, <1>6 DEF EmitInv

LEMMA EmitKeeps ==
  ASSUME EmitInv, NEW p \in Spenders, Emit(p)
  PROVE  EmitInv'
<1> DEFINE r == [key |-> [by |-> p, ts |-> now], n |-> costs + 1]
<1>1. r \in Attempt
  <2>1. costs + 1 \in 1..MaxCosts
    BY CostLedgerAssumption DEF Emit, EmitInv, EmitterShape
  <2>2. [by |-> p, ts |-> now] \in [by : Spenders, ts : 0..MaxNow]
    BY DEF EmitInv, EmitterShape
  <2> QED BY <2>1, <2>2 DEF Attempt
<1>2. /\ UNCHANGED <<now, flusher, ledger, ownRow, failed>> /\ costs' \in Nat
      /\ \A e : Tried(e)' <=> Tried(e)
      /\ \/ /\ ~emitter.closed /\ accepted' = accepted \cup {r}
            /\ emitter' = [emitter EXCEPT !.ch = Append(emitter.ch, r)]
         \/ UNCHANGED <<emitter, accepted>>
  BY DEF Emit, tableVars, Tried, EmitInv, EmitterShape
<1> HIDE DEF r
<1>3. CASE UNCHANGED <<emitter, accepted>>
  BY <1>2, <1>3, EmitterRests DEF emitVars, EmitInv, EmitterShape
<1>4. CASE /\ ~emitter.closed /\ accepted' = accepted \cup {r}
           /\ emitter' = [emitter EXCEPT !.ch = Append(emitter.ch, r)]
  <2>1. PICK q : q = Append(emitter.ch, r)
    OBVIOUS
  <2>2. emitter.ch \in Seq(Attempt) /\ q \in Seq(Attempt) /\ \A x : x \in Range(emitter.ch) \/ x = r => x \in Range(q)
    <3>1. emitter.ch \in Seq(Attempt)
      BY DEF EmitInv, EmitterShape
    <3>2. Append(emitter.ch, r) \in Seq(Attempt)
      BY <1>1, <3>1
    <3> QED BY <1>1, <2>1, <3>1, <3>2, RangeOfChannel, Zenon
  <2>3. emitter' = [ch |-> q, closed |-> emitter.closed, worker |-> emitter.worker, done |-> emitter.done]
    BY <1>4, <2>1 DEF EmitInv, EmitterShape
  <2>4. EmitterShape'
    <3>1. emitter' \in [ch : Seq(Attempt), closed : BOOLEAN, worker : {"run", "drain", "ended"}, done : BOOLEAN]
      BY <2>2, <2>3 DEF EmitInv, EmitterShape
    <3>2. accepted' \subseteq Attempt
      BY <1>1, <1>4 DEF EmitInv, EmitterShape
    <3> QED BY <1>2, <3>1, <3>2 DEF EmitInv, EmitterShape
  <2>5. NoneLost'
    <3>1. emitter'.ch = q
      BY <2>3
    <3> QED BY <1>2, <1>4, <2>2, <3>1 DEF EmitInv, NoneLost
  <2>6. EndsEmpty'
    BY <1>4, <2>3 DEF EmitInv, EmitterShape, EndsEmpty
  <2>7. FlushedBefore'
    BY <1>2 DEF EmitInv, FlushedBefore
  <2>8. RowsOwned'
    BY <1>2 DEF EmitInv, RowsOwned, OneRowEach
  <2> QED BY <2>4, <2>5, <2>6, <2>7, <2>8 DEF EmitInv
<1> QED BY <1>2, <1>3, <1>4

LEMMA EmitterKeeps ==
  ASSUME EmitInv, EmitterStep \/ FlushStart \/ CloseEmitter
  PROVE  EmitInv'
<1>0. /\ EmitterShape /\ RowsOwned /\ NoneLost /\ EndsEmpty /\ FlushedBefore
      /\ emitter \in [ch : Seq(Attempt), closed : BOOLEAN, worker : {"run", "drain", "ended"}, done : BOOLEAN]
      /\ flusher \in [at : {"idle", "offering", "waiting", "returned"}, before : SUBSET Attempt]
  BY DEF EmitInv, EmitterShape
<1>1. CASE WorkerDelivers
  <2>1. PICK h, q : h = Head(emitter.ch) /\ q = Tail(emitter.ch)
    OBVIOUS
  <2>2. emitter.worker \in {"run", "drain"} /\ emitter.ch # <<>> /\ UNCHANGED <<flusher, accepted, now, costs>>
    BY <1>1 DEF WorkerDelivers, boundVars
  <2>3. RowsOwned' /\ ownRow' \subseteq Attempt /\ \A r : Tried(r) \/ r = h => Tried(r)'
    <3>1. h \in Attempt /\ h.key.by \in Spenders /\ SinkInsert(h)
      BY <1>0, <1>1, <2>1, <2>2, RangeOfChannel DEF WorkerDelivers, Attempt
    <3>2. CASE h.key \in ledger /\ UNCHANGED tableVars
      <4>1. UNCHANGED <<ledger, ownRow, failed>>
        BY <3>2 DEF tableVars
      <4>2. Tried(h)
        BY <1>0, <3>1, <3>2 DEF RowsOwned, OneRowEach, Tried
      <4> QED BY <1>0, <4>1, <4>2 DEF RowsOwned, OneRowEach, Tried, EmitterShape
    <3>3. CASE /\ h.key \notin ledger /\ ledger' = ledger \cup {h.key}
               /\ ownRow' = ownRow \cup {h} /\ UNCHANGED failed
      BY <1>0, <3>1, <3>3 DEF RowsOwned, OneRowEach, Tried, EmitterShape
    <3>4. CASE failed' = failed \cup {h} /\ UNCHANGED <<ledger, ownRow>>
      BY <1>0, <3>4 DEF RowsOwned, OneRowEach, Tried, EmitterShape
    <3> QED BY <3>1, <3>2, <3>3, <3>4 DEF SinkInsert
  <2>4. q \in Seq(Attempt) /\ \A r : r \in Range(emitter.ch) => r = h \/ r \in Range(q)
    BY <1>0, <2>1, <2>2, RangeOfChannel
  <2>5. emitter' = [ch |-> q, closed |-> emitter.closed, worker |-> emitter.worker, done |-> emitter.done]
    BY <1>0, <1>1, <2>1 DEF WorkerDelivers
  <2>6. EmitterShape'
    BY <1>0, <2>2, <2>3, <2>4, <2>5 DEF EmitterShape
  <2>7. NoneLost'
    <3>1. emitter'.ch = q
      BY <2>5
    <3> QED BY <1>0, <2>2, <2>3, <2>4, <3>1 DEF NoneLost
  <2>8. EndsEmpty'
    BY <1>0, <2>2, <2>5 DEF EndsEmpty
  <2>9. FlushedBefore'
    BY <1>0, <2>2, <2>3 DEF FlushedBefore
  <2> QED BY <2>3, <2>6, <2>7, <2>8, <2>9 DEF EmitInv
<1>2. ASSUME UNCHANGED <<accepted, tableVars, boundVars>>, emitter'.ch = emitter.ch,
             emitter' \in [ch : Seq(Attempt), closed : BOOLEAN, worker : {"run", "drain", "ended"}, done : BOOLEAN],
             flusher' \in [at : {"idle", "offering", "waiting", "returned"}, before : SUBSET Attempt],
             flusher'.before \in {flusher.before, accepted},
             EndsEmpty', FlushedBefore'
      PROVE  EmitInv'
  <2>1. UNCHANGED <<accepted, now, costs, ledger, ownRow, failed>> /\ \A e : Tried(e)' <=> Tried(e)
    BY <1>2 DEF tableVars, boundVars, Tried
  <2>2. EmitterShape'
    BY <1>0, <1>2, <2>1 DEF EmitterShape
  <2>3. NoneLost'
    BY <1>0, <1>2, <2>1 DEF NoneLost
  <2>4. RowsOwned'
    BY <1>0, <2>1 DEF RowsOwned, OneRowEach
  <2> QED BY <1>2, <2>2, <2>3, <2>4 DEF EmitInv
\* With nothing in the channel, every event accepted is tried.
<1>3. emitter.ch = <<>> => \A r \in flusher.before : Tried(r)
  BY <1>0, RangeOfChannel DEF NoneLost
<1>4. ASSUME UNCHANGED tableVars PROVE \A e : Tried(e)' <=> Tried(e)
  BY <1>4 DEF tableVars, Tried
<1>5. CASE WorkerTakesFlush \/ WorkerAnswers \/ FlushSeesDone
  <2>1. PICK where \in {"waiting", "returned"} : flusher' = [flusher EXCEPT !.at = where]
    BY <1>5 DEF WorkerTakesFlush, WorkerAnswers, FlushSeesDone
  <2>2. /\ flusher' = [at |-> where, before |-> flusher.before]
    BY <1>0, <2>1
  <2>3. /\ UNCHANGED <<accepted, tableVars, boundVars>>
        /\ emitter.ch # <<>> => where = "waiting"
    <3>1. CASE WorkerTakesFlush
      <4>1. flusher'.at = "waiting"
        BY <1>0, <3>1 DEF WorkerTakesFlush
      <4> QED BY <2>2, <3>1, <4>1 DEF WorkerTakesFlush
    <3>2. CASE WorkerAnswers
      BY <3>2 DEF WorkerAnswers
    <3>3. CASE FlushSeesDone
      BY <1>0, <3>3 DEF FlushSeesDone, EndsEmpty
    <3> QED BY <1>5, <3>1, <3>2, <3>3
  <2>4. FlushedBefore'
    BY <1>3, <1>4, <2>2, <2>3 DEF FlushedBefore
  <2>5. \/ emitter' = emitter
        \/ \E x \in {"run", "drain"} : emitter' = [emitter EXCEPT !.worker = x] /\ emitter.worker # "ended"
    BY <1>5 DEF WorkerTakesFlush, WorkerAnswers, FlushSeesDone
  <2>6. /\ emitter'.ch = emitter.ch /\ EndsEmpty'
        /\ emitter' \in [ch : Seq(Attempt), closed : BOOLEAN, worker : {"run", "drain", "ended"}, done : BOOLEAN]
    <3>1. CASE emitter' = emitter
      BY <1>0, <3>1 DEF EndsEmpty
    <3>2. ASSUME NEW x \in {"run", "drain"}, emitter' = [emitter EXCEPT !.worker = x], emitter.worker # "ended"
          PROVE  /\ emitter'.ch = emitter.ch /\ EndsEmpty'
                 /\ emitter' \in [ch : Seq(Attempt), closed : BOOLEAN, worker : {"run", "drain", "ended"}, done : BOOLEAN]
      <4>1. emitter' = [ch |-> emitter.ch, closed |-> emitter.closed, worker |-> x, done |-> emitter.done]
        BY <1>0, <3>2
      <4> QED BY <1>0, <3>2, <4>1 DEF EndsEmpty
    <3> QED BY <2>5, <3>1, <3>2
  <2>7. flusher' \in [at : {"idle", "offering", "waiting", "returned"}, before : SUBSET Attempt]
        /\ flusher'.before = flusher.before
    BY <1>0, <2>2
  <2> QED BY <1>2, <2>3, <2>4, <2>6, <2>7
<1>6. CASE WorkerEnds \/ CloseEmitter \/ CloseDone
  <2>1. UNCHANGED <<flusher, accepted, tableVars, boundVars>>
    BY <1>6 DEF WorkerEnds, CloseEmitter, CloseDone
  <2>2. FlushedBefore'
    BY <1>0, <1>4, <2>1 DEF FlushedBefore
  <2>3. /\ emitter'.ch = emitter.ch /\ EndsEmpty'
        /\ emitter' \in [ch : Seq(Attempt), closed : BOOLEAN, worker : {"run", "drain", "ended"}, done : BOOLEAN]
    <3>1. CASE WorkerEnds
      <4>1. emitter' = [ch |-> emitter.ch, closed |-> emitter.closed, worker |-> "ended", done |-> emitter.done]
            /\ emitter.closed /\ emitter.ch = <<>>
        BY <1>0, <3>1 DEF WorkerEnds
      <4> QED BY <1>0, <4>1 DEF EndsEmpty
    <3>2. CASE CloseEmitter
      <4>1. emitter' = [ch |-> emitter.ch, closed |-> TRUE, worker |-> emitter.worker, done |-> emitter.done]
        BY <1>0, <3>2 DEF CloseEmitter
      <4> QED BY <1>0, <4>1 DEF EndsEmpty
    <3>3. CASE CloseDone
      <4>1. emitter' = [ch |-> emitter.ch, closed |-> emitter.closed, worker |-> emitter.worker, done |-> TRUE]
            /\ emitter.worker = "ended"
        BY <1>0, <3>3 DEF CloseDone
      <4> QED BY <1>0, <4>1 DEF EndsEmpty
    <3> QED BY <1>6, <3>1, <3>2, <3>3
  <2> QED BY <1>0, <1>2, <2>1, <2>2, <2>3
<1>7. CASE FlushStart
  <2>1. /\ UNCHANGED <<emitter, accepted, tableVars, boundVars>>
        /\ flusher' = [at |-> "offering", before |-> accepted]
    BY <1>7 DEF FlushStart
  <2>2. FlushedBefore' /\ EndsEmpty'
    BY <1>0, <2>1 DEF FlushedBefore, EndsEmpty
  <2>3. flusher' \in [at : {"idle", "offering", "waiting", "returned"}, before : SUBSET Attempt]
        /\ flusher'.before = accepted
    BY <1>0, <2>1 DEF EmitterShape
  <2> QED BY <1>0, <1>2, <2>1, <2>2, <2>3
<1> QED BY <1>1, <1>5, <1>6, <1>7 DEF EmitterStep

\* A process that starts has accepted nothing.
LEMMA FreshEmitter ==
  /\ Fresh \in [ch : Seq(Attempt), closed : BOOLEAN, worker : {"run", "drain", "ended"}, done : BOOLEAN]
  /\ Fresh.worker = "run" /\ ~Fresh.done
  /\ NoFlush \in [at : {"idle", "offering", "waiting", "returned"}, before : SUBSET Attempt]
  /\ NoFlush.before = {} /\ NoFlush.at = "idle"
BY DEF Fresh, NoFlush

LEMMA EmitInvHolds == LedgerSpec => []EmitInv
<1>1. LedgerInit => EmitInv
  <2> SUFFICES ASSUME LedgerInit PROVE EmitInv
    OBVIOUS
  <2>1. emitter = Fresh /\ flusher = NoFlush /\ accepted = {} /\ now = 0 /\ costs = 0
        /\ ownRow = {} /\ ledger = {}
    BY DEF LedgerInit
  <2>2. EmitterShape
    BY <2>1, FreshEmitter, CostLedgerAssumption DEF EmitterShape
  <2>3. NoneLost /\ EndsEmpty /\ FlushedBefore /\ RowsOwned
    BY <2>1, FreshEmitter DEF NoneLost, EndsEmpty, FlushedBefore, RowsOwned, OneRowEach
  <2> QED BY <2>2, <2>3 DEF EmitInv
<1>2. EmitInv /\ [LedgerNext]_ledgerVars => EmitInv'
  <2> SUFFICES ASSUME EmitInv, [LedgerNext]_ledgerVars PROVE EmitInv'
    OBVIOUS
  <2>0. now \in 0..MaxNow /\ costs \in Nat
    BY DEF EmitInv, EmitterShape
  <2>1. CASE ClockTicks
    BY <2>0, <2>1, EmitterRests, CostLedgerAssumption DEF ClockTicks, tableVars
  <2>2. CASE EmitterStep \/ FlushStart \/ CloseEmitter
    BY <2>2, EmitterKeeps
  <2>3. ASSUME NEW p \in Spenders, Emit(p) PROVE EmitInv'
    BY <2>3, EmitKeeps
  <2>4. ASSUME NEW q \in Recorders, RecordStart(q) \/ RecordStep(q) PROVE EmitInv'
    <3>1. /\ UNCHANGED <<emitVars, now, ownRow, failed>> /\ costs' \in {costs, costs + 1}
          /\ ledger' = ledger \/ ledger' = ledger \cup {Recorded(q)}
      BY <2>4 DEF RecordStart, RecordStep, RecordInsert, ApplySession, ApplyWindow, boundVars, tableVars
    <3>2. Recorded(q).by \notin Spenders
      BY CostLedgerAssumption DEF Recorded
    <3> QED BY <2>0, <3>1, <3>2, EmitterRests
  <2>5. CASE (\E w \in Windows : PruneWindow(w)) \/ RebuildFromLedger \/ ReplayRow
           \/ VerifyExpects \/ VerifyCompares
    <3>1. UNCHANGED <<emitVars, now, costs, ledger, ownRow, failed>>
      BY <2>5 DEF PruneWindow, RebuildFromLedger, ReplayRow, VerifyExpects, VerifyCompares, boundVars, tableVars
    <3> QED BY <2>0, <3>1, EmitterRests
  <2>6. CASE RestartDaemon
    <3>1. emitter' = Fresh /\ flusher' = NoFlush /\ accepted' = {} /\ UNCHANGED <<now, costs, ledger, ownRow>>
      BY <2>6 DEF RestartDaemon, FreshMemory
    <3>2. EmitterShape'
      BY <2>0, <3>1, FreshEmitter DEF EmitterShape, EmitInv
    <3>3. NoneLost' /\ EndsEmpty' /\ FlushedBefore' /\ RowsOwned'
      BY <3>1, FreshEmitter DEF EmitInv, NoneLost, EndsEmpty, FlushedBefore, RowsOwned, OneRowEach
    <3> QED BY <3>2, <3>3 DEF EmitInv
  <2>7. CASE UNCHANGED ledgerVars
    BY <2>0, <2>7, EmitterRests DEF ledgerVars, boundVars, tableVars
  <2> QED BY <2>1, <2>2, <2>3, <2>4, <2>5, <2>6, <2>7 DEF LedgerNext
<1> QED BY <1>1, <1>2, PTL DEF LedgerSpec

\* Flush returns when the attempts accepted before it were tried (written, refused by the
\* database, or found to have the key of a row that another attempt wrote), and Close when
\* all were, for any sessions, any capacity of the channel and any number of restarts
\* (cost_emit.go:133-182, 205-266).
THEOREM EmissionCorrect == LedgerSpec => []EventsWritten
<1>1. EmitInv => EventsWritten
  <2> SUFFICES ASSUME EmitInv PROVE EventsWritten
    OBVIOUS
  <2>1. flusher.at = "returned" => \A e \in flusher.before : Tried(e)
    BY DEF EmitInv, FlushedBefore
  <2>2. ASSUME emitter.done PROVE \A e \in accepted : Tried(e)
    <3>1. emitter.ch = <<>>
      BY <2>2 DEF EmitInv, EndsEmpty
    <3> QED BY <3>1, RangeOfChannel DEF EmitInv, NoneLost
  <2> QED BY <2>1, <2>2 DEF EventsWritten
<1> QED BY <1>1, EmitInvHolds, PTL

-----------------------------------------------------------------------------
(* CostLedger: the windows of the counters.                                *)

\* The samples of a window are in the order of their times.
Timed(s) == \A i, j \in 1..Len(s) : i <= j => s[i].ts <= s[j].ts

LEMMA InitialSegment ==
  ASSUME NEW n \in Nat, NEW T \in SUBSET (1..n), \A i \in T : \A j \in 1..i : j \in T
  PROVE  Cardinality(T) \in 0..n /\ \A j \in 1..n : j \in T <=> j <= Cardinality(T)
<1>1. IsFiniteSet(1..n) /\ Cardinality(1..n) = n
  BY FS_Interval
<1>2. IsFiniteSet(T) /\ Cardinality(T) <= n
  <2>1. IsFiniteSet(T) /\ Cardinality(T) <= Cardinality(1..n)
    BY <1>1, FS_Subset, Zenon
  <2> QED BY <1>1, <2>1
<1>3. Cardinality(T) \in 0..n
  BY <1>2, FS_CardinalityType
<1>4. ASSUME NEW j \in T PROVE j <= Cardinality(T)
  <2>1. 1..j \subseteq T /\ j \in Nat /\ j >= 1
    BY <1>4
  <2>2. Cardinality(1..j) = j
    BY <2>1, FS_Interval
  <2>3. Cardinality(1..j) <= Cardinality(T)
    BY <1>2, <2>1, FS_Subset
  <2> QED BY <2>2, <2>3
<1>5. ASSUME NEW j \in 1..n, j \notin T PROVE Cardinality(T) < j
  <2>1. T \subseteq 1..(j - 1) /\ j - 1 \in Nat
    BY <1>5
  <2>2. IsFiniteSet(1..(j - 1)) /\ Cardinality(1..(j - 1)) = j - 1
    BY <2>1, FS_Interval
  <2>3. Cardinality(T) <= j - 1
    BY <2>1, <2>2, FS_Subset
  <2> QED BY <1>3, <2>1, <2>3
<1> QED BY <1>3, <1>4, <1>5

LEMMA RowTimes == \A r \in CostRow : r.by \in Payer /\ r.ts \in 0..MaxNow
BY DEF CostRow

\* The samples up to a time are the first ones.
LEMMA FirstSamples ==
  ASSUME NEW s \in Seq(CostRow), Timed(s), NEW c \in Int
  PROVE  LET k == Cardinality({j \in DOMAIN s : s[j].ts <= c})
         IN k \in 0..Len(s) /\ \A j \in 1..Len(s) : s[j].ts <= c <=> j <= k
<1> DEFINE T == {j \in DOMAIN s : s[j].ts <= c}
<1>1. DOMAIN s = 1..Len(s) /\ Len(s) \in Nat /\ \A j \in 1..Len(s) : s[j] \in CostRow
  OBVIOUS
<1>2. \A j \in 1..Len(s) : s[j].ts \in Int
  BY <1>1, RowTimes, CostLedgerAssumption
<1>3. T \in SUBSET (1..Len(s))
  BY <1>1
<1>4. \A i \in T : \A j \in 1..i : j \in T
  <2> SUFFICES ASSUME NEW i \in T, NEW j \in 1..i PROVE j \in T
    OBVIOUS
  <2>1. i \in 1..Len(s) /\ j \in 1..Len(s) /\ j <= i /\ s[i].ts <= c
    BY <1>1
  <2>2. s[j].ts <= s[i].ts
    BY <2>1 DEF Timed
  <2> QED BY <1>1, <1>2, <2>1, <2>2
<1>5. Cardinality(T) \in 0..Len(s) /\ \A j \in 1..Len(s) : j \in T <=> j <= Cardinality(T)
  <2> HIDE DEF T
  <2> QED BY <1>1, <1>3, <1>4, InitialSegment
<1> QED BY <1>1, <1>5

\* Add makes room behind the samples that are not later.
LEMMA AddPuts ==
  ASSUME NEW s \in Seq(CostRow), Timed(s), NEW r \in CostRow
  PROVE  \E k \in 0..Len(s) :
           /\ Add(s, r) \in Seq(CostRow) /\ Len(Add(s, r)) = Len(s) + 1
           /\ \A j \in 1..(Len(s) + 1) :
                 Add(s, r)[j] = IF j <= k THEN s[j] ELSE IF j = k + 1 THEN r ELSE s[j - 1]
           /\ \A j \in 1..Len(s) : s[j].ts <= r.ts <=> j <= k
<1> DEFINE k == Cardinality({j \in DOMAIN s : s[j].ts <= r.ts})
<1>1. r.ts \in Int
  BY RowTimes, CostLedgerAssumption
<1>2. k \in 0..Len(s) /\ \A j \in 1..Len(s) : s[j].ts <= r.ts <=> j <= k
  BY <1>1, FirstSamples
<1>3. Add(s, r) = SubSeq(s, 1, k) \o <<r>> \o SubSeq(s, k + 1, Len(s))
  <2>1. \A i \in Nat : InsertAt(s, i + 1, r) = SubSeq(s, 1, i) \o <<r>> \o SubSeq(s, i + 1, Len(s))
    <3> SUFFICES ASSUME NEW i \in Nat
                 PROVE  InsertAt(s, i + 1, r) = SubSeq(s, 1, i) \o <<r>> \o SubSeq(s, i + 1, Len(s))
      OBVIOUS
    <3>1. i + 1 - 1 = i
      OBVIOUS
    <3>2. SubSeq(s, 1, (i + 1) - 1) = SubSeq(s, 1, i)
      BY <3>1
    <3>3. InsertAt(s, i + 1, r) = SubSeq(s, 1, (i + 1) - 1) \o <<r>> \o SubSeq(s, i + 1, Len(s))
      BY Zenon DEF InsertAt
    <3> QED BY <3>2, <3>3, Zenon
  <2>2. Add(s, r) = InsertAt(s, k + 1, r)
    BY Zenon DEF Add
  <2>3. k \in Nat
    BY <1>2
  <2> QED BY <2>1, <2>2, <2>3, Zenon
<1> HIDE DEF k
<1>4. SubSeq(s, 1, k) \in Seq(CostRow) /\ Len(SubSeq(s, 1, k)) = k
      /\ \A j \in 1..k : SubSeq(s, 1, k)[j] = s[j]
  BY <1>2
<1>5. SubSeq(s, k + 1, Len(s)) \in Seq(CostRow) /\ Len(SubSeq(s, k + 1, Len(s))) = Len(s) - k
      /\ \A j \in 1..(Len(s) - k) : SubSeq(s, k + 1, Len(s))[j] = s[k + j]
  BY <1>2
<1>6. PICK a : a = SubSeq(s, 1, k)
  OBVIOUS
<1>7. PICK b : b = SubSeq(s, k + 1, Len(s))
  OBVIOUS
<1>8. a \in Seq(CostRow) /\ Len(a) = k /\ (\A j \in 1..k : a[j] = s[j])
      /\ b \in Seq(CostRow) /\ Len(b) = Len(s) - k /\ (\A j \in 1..(Len(s) - k) : b[j] = s[k + j])
  BY <1>4, <1>5, <1>6, <1>7
<1>9. /\ a \o <<r>> \o b \in Seq(CostRow) /\ Len(a \o <<r>> \o b) = Len(s) + 1
      /\ \A j \in 1..(Len(s) + 1) :
           (a \o <<r>> \o b)[j] = IF j <= k THEN a[j] ELSE IF j = k + 1 THEN r ELSE b[j - k - 1]
  BY <1>2, <1>8
<1>10. \A j \in 1..(Len(s) + 1) : j > k + 1 => b[j - k - 1] = s[j - 1]
  BY <1>2, <1>8
<1>11. Add(s, r) = a \o <<r>> \o b
  BY <1>3, <1>6, <1>7
<1>12. \A j \in 1..(Len(s) + 1) :
         Add(s, r)[j] = IF j <= k THEN s[j] ELSE IF j = k + 1 THEN r ELSE s[j - 1]
  <2> SUFFICES ASSUME NEW j \in 1..(Len(s) + 1)
               PROVE  Add(s, r)[j] = IF j <= k THEN s[j] ELSE IF j = k + 1 THEN r ELSE s[j - 1]
    OBVIOUS
  <2>1. Add(s, r)[j] = IF j <= k THEN a[j] ELSE IF j = k + 1 THEN r ELSE b[j - k - 1]
    BY <1>9, <1>11
  <2>2. j <= k => a[j] = s[j]
    BY <1>2, <1>8
  <2>3. j <= k \/ j = k + 1 \/ j > k + 1
    BY <1>2
  <2> QED BY <1>10, <2>1, <2>2, <2>3, Zenon
<1>13. Add(s, r) \in Seq(CostRow) /\ Len(Add(s, r)) = Len(s) + 1
  BY <1>9, <1>11, Zenon
<1> QED BY <1>2, <1>12, <1>13, Zenon

\* A window that Add is given a new row of stays in order, and has it once.
LEMMA AddKeeps ==
  ASSUME NEW s \in Seq(CostRow), Timed(s), IsInjective(s), NEW r \in CostRow, r \notin Range(s)
  PROVE  /\ Add(s, r) \in Seq(CostRow) /\ Timed(Add(s, r)) /\ IsInjective(Add(s, r))
         /\ Range(Add(s, r)) = Range(s) \cup {r}
<1>1. PICK k \in 0..Len(s) :
           /\ Add(s, r) \in Seq(CostRow) /\ Len(Add(s, r)) = Len(s) + 1
           /\ \A j \in 1..(Len(s) + 1) :
                 Add(s, r)[j] = IF j <= k THEN s[j] ELSE IF j = k + 1 THEN r ELSE s[j - 1]
           /\ \A j \in 1..Len(s) : s[j].ts <= r.ts <=> j <= k
  BY AddPuts
<1>2. PICK t : t = Add(s, r)
  OBVIOUS
<1>3. DOMAIN s = 1..Len(s) /\ Len(s) \in Nat /\ \A j \in 1..Len(s) : s[j] \in CostRow /\ s[j].ts \in Int
  BY RowTimes, CostLedgerAssumption
<1>4. t \in Seq(CostRow) /\ Len(t) = Len(s) + 1 /\ DOMAIN t = 1..(Len(s) + 1)
  BY <1>1, <1>2
<1>5. /\ \A j \in 1..(Len(s) + 1) : t[j] = IF j <= k THEN s[j] ELSE IF j = k + 1 THEN r ELSE s[j - 1]
      /\ \A j \in 1..Len(s) : s[j].ts <= r.ts <=> j <= k
  BY <1>1, <1>2
<1>6. r.ts \in Int /\ \A j \in 1..(Len(s) + 1) : t[j].ts \in Int
  <2>1. \A j \in 1..(Len(s) + 1) : t[j] \in CostRow
    BY <1>4
  <2> QED BY <2>1, RowTimes, CostLedgerAssumption
<1>7. Timed(t)
  <2> SUFFICES ASSUME NEW i \in 1..(Len(s) + 1), NEW j \in 1..(Len(s) + 1), i < j
               PROVE  t[i].ts <= t[j].ts
    BY <1>4, <1>6 DEF Timed
  <2>1. CASE j <= k
    BY <1>3, <1>5, <2>1 DEF Timed
  <2>2. CASE j = k + 1
    BY <1>3, <1>5, <2>2
  <2>3. CASE j > k + 1 /\ i <= k
    <3>1. /\ j - 1 \in 1..Len(s) /\ ~(j <= k) /\ j # k + 1 /\ ~(j - 1 <= k)
          /\ i \in 1..Len(s)
      BY <1>3, <2>3
    <3>2. t[i] = s[i] /\ t[j] = s[j - 1]
      BY <1>5, <2>3, <3>1
    <3>3. s[i].ts <= r.ts /\ ~(s[j - 1].ts <= r.ts)
      BY <1>5, <2>3, <3>1
    <3> QED BY <1>3, <1>6, <3>1, <3>2, <3>3
  <2>4. CASE j > k + 1 /\ i = k + 1
    <3>1. j - 1 \in 1..Len(s) /\ ~(j - 1 <= k) /\ ~(j <= k) /\ j # k + 1
      BY <1>3, <2>4
    <3>2. t[i] = r /\ t[j] = s[j - 1]
      BY <1>3, <1>5, <2>4, <3>1
    <3>3. ~(s[j - 1].ts <= r.ts) /\ s[j - 1].ts \in Int
      BY <1>3, <1>5, <3>1
    <3> QED BY <1>6, <3>2, <3>3
  <2>5. CASE j > k + 1 /\ i > k + 1
    BY <1>3, <1>5, <2>5 DEF Timed
  <2> QED BY <1>1, <1>3, <2>1, <2>2, <2>3, <2>4, <2>5
<1>8. IsInjective(t)
  <2>1. \A j \in 1..Len(s) : s[j] # r
    BY <1>3 DEF Range
  <2>2. \A i, j \in 1..Len(s) : s[i] = s[j] => i = j
    BY <1>3 DEF IsInjective
  <2> SUFFICES ASSUME NEW i \in 1..(Len(s) + 1), NEW j \in 1..(Len(s) + 1), t[i] = t[j], i < j
               PROVE  FALSE
    BY <1>3, <1>4 DEF IsInjective
  <2>3. CASE i = k + 1
    BY <1>3, <1>5, <2>1, <2>3
  <2>4. CASE j = k + 1
    BY <1>3, <1>5, <2>1, <2>4
  <2>5. CASE i # k + 1 /\ j # k + 1
    <3>1. PICK x \in 1..Len(s) : t[i] = s[x] /\ x = IF i <= k THEN i ELSE i - 1
      BY <1>3, <1>5, <2>5
    <3>2. PICK y \in 1..Len(s) : t[j] = s[y] /\ y = IF j <= k THEN j ELSE j - 1
      BY <1>3, <1>5, <2>5
    <3>3. x = y
      BY <2>2, <3>1, <3>2
    <3> QED BY <1>3, <2>5, <3>1, <3>2, <3>3
  <2> QED BY <2>3, <2>4, <2>5
<1>9. Range(t) = Range(s) \cup {r}
  <2>1. \A j \in 1..Len(s) : \E i \in 1..(Len(s) + 1) : t[i] = s[j]
    <3> SUFFICES ASSUME NEW j \in 1..Len(s) PROVE \E i \in 1..(Len(s) + 1) : t[i] = s[j]
      OBVIOUS
    <3>1. CASE j <= k
      BY <1>3, <1>5, <3>1
    <3>2. CASE j > k
      <4>1. j + 1 \in 1..(Len(s) + 1) /\ ~(j + 1 <= k) /\ j + 1 # k + 1 /\ j + 1 - 1 = j
        BY <1>3, <3>2
      <4>2. t[j + 1] = s[j + 1 - 1]
        BY <1>5, <4>1
      <4> QED BY <4>1, <4>2
    <3> QED BY <1>3, <3>1, <3>2
  <2>2. t[k + 1] = r /\ k + 1 \in 1..(Len(s) + 1)
    BY <1>3, <1>5
  <2>3. \A i \in 1..(Len(s) + 1) : t[i] = r \/ \E j \in 1..Len(s) : t[i] = s[j]
    BY <1>3, <1>5
  <2>4. \A x : x \in Range(t) <=> \E i \in 1..(Len(s) + 1) : x = t[i]
    BY <1>4, Zenon DEF Range
  <2>5. \A x : x \in Range(s) <=> \E i \in 1..Len(s) : x = s[i]
    BY <1>3, Zenon DEF Range
  <2>6. \A x : x \in Range(t) => x \in Range(s) \/ x = r
    BY <2>3, <2>4, <2>5, Zenon
  <2>7. \A x : x \in Range(s) \/ x = r => x \in Range(t)
    <3>1. \A x : x \in Range(s) => x \in Range(t)
      BY <2>1, <2>4, <2>5
    <3> QED BY <2>2, <2>4, <3>1, Zenon
  <2> QED BY <2>6, <2>7, Zenon
<1> QED BY <1>2, <1>4, <1>7, <1>8, <1>9

\* Pruning leaves the samples after the cutoff, in order.
LEMMA PruneKeeps ==
  ASSUME NEW s \in Seq(CostRow), Timed(s), IsInjective(s), NEW c \in Int
  PROVE  /\ PruneLocked(s, c) \in Seq(CostRow) /\ Timed(PruneLocked(s, c)) /\ IsInjective(PruneLocked(s, c))
         /\ Range(PruneLocked(s, c)) = {r \in Range(s) : r.ts > c}
<1> DEFINE k == Cardinality({j \in DOMAIN s : s[j].ts <= c})
           late == {j \in DOMAIN s : s[j].ts > c}
           first == CHOOSE j \in late : \A i \in late : j <= i
<1>1. k \in 0..Len(s) /\ \A j \in 1..Len(s) : s[j].ts <= c <=> j <= k
  BY FirstSamples
<1> HIDE DEF k
<1>2. DOMAIN s = 1..Len(s) /\ Len(s) \in Nat /\ \A j \in 1..Len(s) : s[j] \in CostRow /\ s[j].ts \in Int
  BY RowTimes, CostLedgerAssumption
<1>3. \A j : j \in late <=> j \in 1..Len(s) /\ j > k
  BY <1>1, <1>2
<1>4. PICK t : t = PruneLocked(s, c)
  OBVIOUS
<1>5. t = IF late = {} THEN <<>> ELSE SubSeq(s, first, Len(s))
  BY <1>4 DEF PruneLocked
<1> HIDE DEF late
<1>6. CASE late = {}
  <2>1. t = <<>> /\ k = Len(s)
    <3>1. ~(k < Len(s))
      <4> SUFFICES ASSUME k < Len(s) PROVE FALSE
        OBVIOUS
      <4>1. Len(s) \in late
        BY <1>1, <1>2, <1>3
      <4> QED BY <1>6, <4>1
    <3>2. t = <<>>
      BY <1>5, <1>6, Zenon
    <3>3. k \in Int /\ k <= Len(s) /\ Len(s) \in Int
      BY <1>1, <1>2
    <3>4. k = Len(s)
      BY <3>1, <3>3
    <3> QED BY <3>2, <3>4, Zenon
  <2>2. t \in Seq(CostRow) /\ Timed(t) /\ IsInjective(t) /\ Range(t) = {}
    BY <2>1 DEF Timed, IsInjective, Range
  <2>3. {r \in Range(s) : r.ts > c} = {}
    BY <1>1, <1>2, <2>1 DEF Range
  <2> QED BY <1>4, <2>2, <2>3
<1>7. CASE late # {}
  <2>1. k + 1 \in late /\ \A i \in late : k + 1 <= i
    BY <1>1, <1>2, <1>3, <1>7
  <2>2. first \in late /\ \A i \in late : first <= i
    BY <2>1
  <2> HIDE DEF first
  <2>3. first = k + 1
    BY <1>1, <1>2, <1>3, <2>1, <2>2
  <2>4. t = SubSeq(s, k + 1, Len(s)) /\ k < Len(s)
    <3>1. k < Len(s)
      BY <1>1, <1>2, <1>3, <2>1
    <3> QED BY <1>5, <1>7, <2>3, <3>1, Zenon
  <2>5. t \in Seq(CostRow) /\ Len(t) = Len(s) - k /\ \A j \in 1..(Len(s) - k) : t[j] = s[k + j]
    <3>1. k \in 0..Len(s)
      BY <1>1
    <3>2. SubSeq(s, k + 1, Len(s)) \in Seq(CostRow) /\ Len(SubSeq(s, k + 1, Len(s))) = Len(s) - k
          /\ \A j \in 1..(Len(s) - k) : SubSeq(s, k + 1, Len(s))[j] = s[k + j]
      BY <3>1
    <3> QED BY <2>4, <3>2
  <2>6. DOMAIN t = 1..(Len(s) - k)
    BY <2>5
  <2>7. Timed(t)
    <3> SUFFICES ASSUME NEW i \in 1..(Len(s) - k), NEW j \in 1..(Len(s) - k), i <= j
                 PROVE  t[i].ts <= t[j].ts
      BY <2>5 DEF Timed
    <3>1. k + i \in 1..Len(s) /\ k + j \in 1..Len(s) /\ k + i <= k + j
      BY <1>1, <1>2
    <3> QED BY <2>5, <3>1 DEF Timed
  <2>8. IsInjective(t)
    <3>1. \A i, j \in 1..Len(s) : s[i] = s[j] => i = j
      BY <1>2 DEF IsInjective
    <3> QED BY <1>1, <1>2, <2>5, <2>6, <3>1 DEF IsInjective
  <2>9. Range(t) = {r \in Range(s) : r.ts > c}
    <3>1. \A j \in 1..Len(s) : s[j].ts > c => \E i \in 1..(Len(s) - k) : t[i] = s[j]
      <4> SUFFICES ASSUME NEW j \in 1..Len(s), s[j].ts > c PROVE \E i \in 1..(Len(s) - k) : t[i] = s[j]
        OBVIOUS
      <4>1. j - k \in 1..(Len(s) - k) /\ k + (j - k) = j
        BY <1>1, <1>2
      <4> QED BY <2>5, <4>1
    <3>2. \A i \in 1..(Len(s) - k) : \E j \in 1..Len(s) : t[i] = s[j] /\ s[j].ts > c
      <4> SUFFICES ASSUME NEW i \in 1..(Len(s) - k) PROVE \E j \in 1..Len(s) : t[i] = s[j] /\ s[j].ts > c
        OBVIOUS
      <4>1. k + i \in 1..Len(s) /\ ~(k + i <= k)
        BY <1>1, <1>2
      <4> QED BY <1>1, <1>2, <2>5, <4>1
    <3>3. \A x : x \in Range(t) <=> \E i \in 1..(Len(s) - k) : x = t[i]
      BY <2>6, Zenon DEF Range
    <3>4. \A x : x \in Range(s) <=> \E i \in 1..Len(s) : x = s[i]
      BY <1>2, Zenon DEF Range
    <3>5. \A x : x \in Range(t) => x \in Range(s) /\ x.ts > c
      BY <3>2, <3>3, <3>4
    <3>6. \A x : x \in Range(s) /\ x.ts > c => x \in Range(t)
      BY <3>1, <3>3, <3>4
    <3> QED BY <3>5, <3>6, Zenon
  <2> QED BY <1>4, <2>5, <2>7, <2>8, <2>9
<1> QED BY <1>6, <1>7

-----------------------------------------------------------------------------
(* CostLedger: what the counters are given.                                *)

RecordPhase == {"idle", "insert", "session", "24h", "30d"}

CountShape ==
    /\ now \in 0..MaxNow /\ ledger \subseteq CostRow /\ loaded \subseteq ledger
    /\ samples \in [Windows -> Seq(CostRow)]
    /\ record \in [Recorders -> [at : RecordPhase, ts : 0..MaxNow]]
    /\ rebuild \in [at : {"start", "rows", "verify", "serving", "refused"}, left : SUBSET CostRow,
                    expected : 0..MaxNow, checked : 0..MaxNow]

\* A window has its samples in order, each once: rows the counters were given whose
\* Record has come to the window, and all of those that are young enough.
WindowsHave ==
    \A w \in Windows :
        /\ Timed(samples[w]) /\ IsInjective(samples[w])
        /\ \A r \in Range(samples[w]) : r \in loaded /\ r \notin Underway(w)
        /\ \A r \in loaded : r.ts > now - Span[w] /\ r \notin Underway(w) => r \in Range(samples[w])

\* Record counts what it has written, and is called when the daemon serves.
RecordsLoaded ==
    \A q \in Recorders :
        /\ record[q].at \in {"session", "24h", "30d"} => Recorded(q) \in loaded
        /\ ~DaemonServes => record[q].at = "idle"

\* What the rebuild has still to add is in the table, and nothing else of the last
\* thirty days is missing but what the emitter wrote.
RebuildCovers ==
    /\ rebuild.left \subseteq ledger /\ rebuild.left \cap loaded = {}
    /\ rebuild.at # "rows" => rebuild.left = {}
    /\ rebuild.at = "start" => loaded = {}
    /\ rebuild.at # "start" => \A r \in ledger : r \notin loaded /\ r \notin rebuild.left =>
           r.by \in Spenders \/ r.ts < now - Span["30d"]

RefusedFor ==
    /\ rebuild.at = "verify" => rebuild.expected <= now
    /\ rebuild.at = "refused" => \E r \in loaded : Priced(r)
           /\ r.ts >= rebuild.expected - Span["30d"] /\ r.ts <= rebuild.checked - Span["30d"]

CountInv == CountShape /\ WindowsHave /\ RecordsLoaded /\ RebuildCovers /\ RefusedFor


\* Where a Record that has written its row, and not added it to the window, may be.
OwedAt(w) == IF w = "30d" THEN {"session", "24h", "30d"} ELSE {"session", "24h"}

LEMMA UnderwayIs ==
  ASSUME NEW w \in Windows
  PROVE  \A r : r \in Underway(w) <=> \E q \in Recorders : record[q].at \in OwedAt(w) /\ r = Recorded(q)
<1>1. {"session", w} \cup (IF w = "30d" THEN {"24h"} ELSE {}) = OwedAt(w)
  BY DEF OwedAt, Windows
<1> QED BY <1>1, Zenon DEF Underway

LEMMA RecordFields ==
  ASSUME CountShape, NEW q \in Recorders
  PROVE  /\ record[q] \in [at : RecordPhase, ts : 0..MaxNow]
         /\ record[q].at \in RecordPhase /\ record[q].ts \in 0..MaxNow
         /\ Recorded(q) \in CostRow /\ Recorded(q).by = q /\ Recorded(q).ts = record[q].ts
BY DEF CountShape, Recorded, CostRow, Payer

\* One recorder's step concerns its own row only.
LEMMA UnderwayMoves ==
  ASSUME NEW q \in Recorders, \A p \in Recorders : p # q => record'[p] = record[p], NEW w \in Windows
  PROVE  \A r : r \in Underway(w)' <=>
                  \/ r \in Underway(w) /\ r.by # q
                  \/ record'[q].at \in OwedAt(w) /\ r = [by |-> q, ts |-> record'[q].ts]
<1>1. \A r : r \in Underway(w) <=> \E p \in Recorders : record[p].at \in OwedAt(w) /\ r = [by |-> p, ts |-> record[p].ts]
  BY UnderwayIs, Zenon DEF Recorded
<1>2. \A r : r \in Underway(w)' <=> \E p \in Recorders : record'[p].at \in OwedAt(w) /\ r = [by |-> p, ts |-> record'[p].ts]
  <2>1. {"session", w} \cup (IF w = "30d" THEN {"24h"} ELSE {}) = OwedAt(w)
    BY DEF OwedAt, Windows
  <2> QED BY <2>1, Zenon DEF Underway, Recorded
<1>3. \A p, x : [by |-> p, ts |-> x].by = p
  OBVIOUS
<1> SUFFICES ASSUME NEW r
             PROVE  r \in Underway(w)' <=>
                       \/ r \in Underway(w) /\ r.by # q
                       \/ record'[q].at \in OwedAt(w) /\ r = [by |-> q, ts |-> record'[q].ts]
  OBVIOUS
<1>4. ASSUME r \in Underway(w)', ~(record'[q].at \in OwedAt(w) /\ r = [by |-> q, ts |-> record'[q].ts])
      PROVE  r \in Underway(w) /\ r.by # q
  <2>1. PICK p \in Recorders : record'[p].at \in OwedAt(w) /\ r = [by |-> p, ts |-> record'[p].ts]
    BY <1>2, <1>4, Zenon
  <2>2. p # q
    BY <1>4, <2>1
  <2>3. record'[p] = record[p]
    BY <2>2
  <2>4. r \in Underway(w)
    BY <1>1, <2>1, <2>3
  <2>5. r.by = p
    BY <1>3, <2>1
  <2> QED BY <2>2, <2>4, <2>5
<1>5. ASSUME r \in Underway(w), r.by # q PROVE r \in Underway(w)'
  <2>1. PICK p \in Recorders : record[p].at \in OwedAt(w) /\ r = [by |-> p, ts |-> record[p].ts]
    BY <1>1, <1>5, Zenon
  <2>2. p # q
    BY <1>3, <1>5, <2>1
  <2>3. record'[p] = record[p]
    BY <2>2
  <2> QED BY <1>2, <2>1, <2>3
<1>6. ASSUME record'[q].at \in OwedAt(w), r = [by |-> q, ts |-> record'[q].ts] PROVE r \in Underway(w)'
  BY <1>2, <1>6, Zenon
<1> QED BY <1>4, <1>5, <1>6

LEMMA UnderwayOwn ==
  ASSUME NEW q \in Recorders, NEW w \in Windows
  PROVE  \A r : r \in Underway(w) /\ r.by = q <=> record[q].at \in OwedAt(w) /\ r = Recorded(q)
<1>1. \A p \in Recorders : Recorded(p).by = p
  BY DEF Recorded
<1> SUFFICES ASSUME NEW r
             PROVE  r \in Underway(w) /\ r.by = q <=> record[q].at \in OwedAt(w) /\ r = Recorded(q)
  OBVIOUS
<1>2. ASSUME r \in Underway(w), r.by = q PROVE record[q].at \in OwedAt(w) /\ r = Recorded(q)
  <2>1. PICK p \in Recorders : record[p].at \in OwedAt(w) /\ r = Recorded(p)
    BY <1>2, UnderwayIs
  <2>2. p = q
    BY <1>1, <1>2, <2>1
  <2> QED BY <2>1, <2>2
<1>3. ASSUME record[q].at \in OwedAt(w), r = Recorded(q) PROVE r \in Underway(w) /\ r.by = q
  BY <1>1, <1>3, UnderwayIs
<1> QED BY <1>2, <1>3

\* Steps that leave the counters alone: the clock, the emitter and its worker.
LEMMA CountersRest ==
  ASSUME CountInv, UNCHANGED countVars, now' \in 0..MaxNow, now <= now', ledger \subseteq ledger',
         \A r \in ledger' : r \in ledger \/ (r \in CostRow /\ r.by \in Spenders)
  PROVE  CountInv'
<1>1. now \in Nat /\ now' \in Nat /\ \A w \in Windows : Span[w] \in Nat
  BY CostLedgerAssumption DEF CountInv, CountShape
<1>2. UNCHANGED <<samples, record, rebuild, loaded>>
  BY DEF countVars
<1>3. CountShape'
  BY <1>2 DEF CountInv, CountShape
<1>4. \A w : Underway(w)' = Underway(w)
  BY <1>2, Zenon DEF Underway, Recorded
<1>5. \A r \in loaded : r.ts \in Int
  BY RowTimes, CostLedgerAssumption DEF CountInv, CountShape
<1>6. WindowsHave'
  <2> SUFFICES ASSUME NEW w \in Windows
               PROVE  /\ Timed(samples[w]) /\ IsInjective(samples[w])
                      /\ \A r \in Range(samples[w]) : r \in loaded /\ r \notin Underway(w)
                      /\ \A r \in loaded : r.ts > now' - Span[w] /\ r \notin Underway(w) => r \in Range(samples[w])
    BY <1>2, <1>4, Zenon DEF WindowsHave
  <2>1. \A r \in loaded : r.ts > now' - Span[w] => r.ts > now - Span[w]
    BY <1>1, <1>5
  <2> QED BY <2>1, Zenon DEF CountInv, WindowsHave
<1>7. RecordsLoaded'
  BY <1>2 DEF CountInv, RecordsLoaded, DaemonServes, Recorded
<1>8. RebuildCovers'
  <2>1. "30d" \in Windows /\ \A r \in ledger : r.ts \in Int
    BY RowTimes, CostLedgerAssumption DEF CountInv, CountShape, Windows
  <2>2. \A r \in ledger : r.ts < now - Span["30d"] => r.ts < now' - Span["30d"]
    BY <1>1, <2>1
  <2>3. rebuild.at # "start" => \A r \in ledger' : r \notin loaded /\ r \notin rebuild.left =>
           r.by \in Spenders \/ r.ts < now' - Span["30d"]
    BY <2>2 DEF CountInv, RebuildCovers
  <2> QED BY <1>2, <2>3 DEF CountInv, RebuildCovers
<1>9. RefusedFor'
  <2>1. rebuild.at = "verify" => rebuild.expected <= now'
    BY <1>1 DEF CountInv, CountShape, RefusedFor
  <2> QED BY <1>2, <2>1 DEF CountInv, RefusedFor, Priced
<1> QED BY <1>3, <1>6, <1>7, <1>8, <1>9 DEF CountInv


\* A step of one recorder that adds nothing to the counters, and owes no other window than before.
LEMMA RecorderRests ==
  ASSUME CountInv, NEW q \in Recorders, DaemonServes,
         UNCHANGED <<now, samples, rebuild, loaded, ledger, emitter>>,
         record' \in [Recorders -> [at : RecordPhase, ts : 0..MaxNow]],
         \A p \in Recorders : p # q => record'[p] = record[p],
         \A w \in Windows : record[q].at \in OwedAt(w) <=> record'[q].at \in OwedAt(w),
         record'[q].at \in {"session", "24h", "30d"} =>
            record'[q].ts = record[q].ts /\ record[q].at \in {"session", "24h", "30d"}
  PROVE  CountInv'
<1>1. \A w \in Windows : \A r : r \in Underway(w)' <=> r \in Underway(w)
  <2> SUFFICES ASSUME NEW w \in Windows, NEW r PROVE r \in Underway(w)' <=> r \in Underway(w)
    OBVIOUS
  <2>1. r \in Underway(w)' <=>
           \/ r \in Underway(w) /\ r.by # q
           \/ record'[q].at \in OwedAt(w) /\ r = [by |-> q, ts |-> record'[q].ts]
    BY UnderwayMoves
  <2>2. r \in Underway(w) /\ r.by = q <=> record[q].at \in OwedAt(w) /\ r = Recorded(q)
    BY UnderwayOwn
  <2>3. record'[q].at \in OwedAt(w) => record'[q].ts = record[q].ts
    BY DEF OwedAt
  <2>4. record'[q].at \in OwedAt(w) => [by |-> q, ts |-> record'[q].ts] = Recorded(q)
    BY <2>3 DEF Recorded
  <2> QED BY <2>1, <2>2, <2>4
<1>2. CountShape'
  BY DEF CountInv, CountShape
<1>3. WindowsHave'
  <2> SUFFICES ASSUME NEW w \in Windows
               PROVE  /\ Timed(samples[w]) /\ IsInjective(samples[w])
                      /\ \A r \in Range(samples[w]) : r \in loaded /\ r \notin Underway(w)'
                      /\ \A r \in loaded : r.ts > now - Span[w] /\ r \notin Underway(w)' => r \in Range(samples[w])
    BY Zenon DEF WindowsHave
  <2> QED BY <1>1, Zenon DEF CountInv, WindowsHave
<1>4. RecordsLoaded'
  <2>1. DaemonServes'
    BY DEF DaemonServes
  <2>2. ASSUME NEW p \in Recorders, record'[p].at \in {"session", "24h", "30d"} PROVE Recorded(p)' \in loaded
    <3>1. record'[p].ts = record[p].ts /\ record[p].at \in {"session", "24h", "30d"}
      BY <2>2
    <3> QED BY <3>1 DEF CountInv, RecordsLoaded, Recorded
  <2> QED BY <2>1, <2>2 DEF RecordsLoaded
<1>5. RebuildCovers' /\ RefusedFor'
  BY DEF CountInv, RebuildCovers, RefusedFor, Priced
<1> QED BY <1>2, <1>3, <1>4, <1>5 DEF CountInv

\* A Record that has come past the table is one of a daemon that serves.
LEMMA RecordServes ==
  ASSUME CountInv, NEW q \in Recorders, record[q].at # "idle"
  PROVE  DaemonServes
BY DEF CountInv, RecordsLoaded

LEMMA RecordStartKeeps ==
  ASSUME CountInv, NEW q \in Recorders, RecordStart(q)
  PROVE  CountInv'
<1>0. CountShape
  BY DEF CountInv
<1>1. PICK t \in 0..now : record' = [record EXCEPT ![q] = [at |-> "insert", ts |-> t]]
  BY DEF RecordStart
<1>2. t \in 0..MaxNow
  BY <1>0, <1>1, CostLedgerAssumption DEF CountShape
<1>3. [at |-> "insert", ts |-> t] \in [at : RecordPhase, ts : 0..MaxNow]
  BY <1>2 DEF RecordPhase
<1>4. /\ record' \in [Recorders -> [at : RecordPhase, ts : 0..MaxNow]]
      /\ \A p \in Recorders : p # q => record'[p] = record[p]
      /\ record'[q].at = "insert"
  BY <1>0, <1>1, <1>3 DEF CountShape
<1>5. DaemonServes /\ record[q].at = "idle" /\ UNCHANGED <<now, samples, rebuild, loaded, ledger, emitter>>
  BY DEF RecordStart, tableVars, emitVars
<1>6. \A w \in Windows : record[q].at \in OwedAt(w) <=> record'[q].at \in OwedAt(w)
  BY <1>4, <1>5 DEF OwedAt
<1> QED BY <1>4, <1>5, <1>6, RecorderRests

\* The record after a step of its recorder that changes the phase only.
LEMMA PhaseOnly ==
  ASSUME CountShape, NEW q \in Recorders, NEW x \in RecordPhase, record' = [record EXCEPT ![q].at = x]
  PROVE  /\ record' \in [Recorders -> [at : RecordPhase, ts : 0..MaxNow]]
         /\ \A p \in Recorders : p # q => record'[p] = record[p]
         /\ record'[q].at = x /\ record'[q].ts = record[q].ts
<1>1. record \in [Recorders -> [at : RecordPhase, ts : 0..MaxNow]]
  BY DEF CountShape
<1>2. record'[q] = [record[q] EXCEPT !.at = x] /\ \A p \in Recorders : p # q => record'[p] = record[p]
  BY <1>1
<1>3. record'[q].at = x /\ record'[q].ts = record[q].ts /\ record'[q] \in [at : RecordPhase, ts : 0..MaxNow]
  BY <1>1, <1>2
<1> QED BY <1>1, <1>2, <1>3

LEMMA ApplySessionKeeps ==
  ASSUME CountInv, NEW q \in Recorders, ApplySession(q)
  PROVE  CountInv'
<1>0. CountShape
  BY DEF CountInv
<1>1. record[q].at = "session" /\ record' = [record EXCEPT ![q].at = "24h"] /\ "24h" \in RecordPhase
      /\ UNCHANGED <<now, samples, rebuild, loaded, ledger, emitter>>
  BY DEF ApplySession, RecordPhase, tableVars, emitVars, boundVars
<1>2. /\ record' \in [Recorders -> [at : RecordPhase, ts : 0..MaxNow]]
      /\ \A p \in Recorders : p # q => record'[p] = record[p]
      /\ record'[q].at = "24h" /\ record'[q].ts = record[q].ts
  BY <1>0, <1>1, PhaseOnly
<1>3. \A w \in Windows : record[q].at \in OwedAt(w) <=> record'[q].at \in OwedAt(w)
  BY <1>1, <1>2 DEF OwedAt
<1>4. DaemonServes
  BY <1>1, RecordServes
<1> QED BY <1>1, <1>2, <1>3, <1>4, RecorderRests

LEMMA RecordInsertKeeps ==
  ASSUME CountInv, NEW q \in Recorders, RecordInsert(q)
  PROVE  CountInv'
<1>0. CountShape /\ record[q].at = "insert" /\ UNCHANGED <<now, samples, rebuild, emitter>>
  BY DEF CountInv, RecordInsert, emitVars, boundVars
<1>1. DaemonServes /\ DaemonServes'
  BY <1>0, RecordServes DEF DaemonServes
<1>2. CASE record' = [record EXCEPT ![q].at = "idle"] /\ UNCHANGED <<ledger, loaded>>
  <2>1. /\ record' \in [Recorders -> [at : RecordPhase, ts : 0..MaxNow]]
        /\ \A p \in Recorders : p # q => record'[p] = record[p]
        /\ record'[q].at = "idle"
    BY <1>0, <1>2, PhaseOnly DEF RecordPhase
  <2>2. \A w \in Windows : record[q].at \in OwedAt(w) <=> record'[q].at \in OwedAt(w)
    BY <1>0, <2>1 DEF OwedAt
  <2> QED BY <1>0, <1>1, <1>2, <2>1, <2>2, RecorderRests
<1>3. CASE /\ Recorded(q) \notin ledger
           /\ ledger' = ledger \cup {Recorded(q)} /\ loaded' = loaded \cup {Recorded(q)}
           /\ record' = [record EXCEPT ![q].at = "session"]
  <2>1. /\ record' \in [Recorders -> [at : RecordPhase, ts : 0..MaxNow]]
        /\ \A p \in Recorders : p # q => record'[p] = record[p]
        /\ record'[q].at = "session" /\ record'[q].ts = record[q].ts
    BY <1>0, <1>3, PhaseOnly DEF RecordPhase
  <2>2. Recorded(q)' = Recorded(q) /\ Recorded(q) \in CostRow /\ Recorded(q).by = q
    BY <1>0, <2>1, RecordFields DEF Recorded
  <2>3. \A w \in Windows : \A r : r \in Underway(w)' <=> r \in Underway(w) \/ r = Recorded(q)
    <3> SUFFICES ASSUME NEW w \in Windows, NEW r PROVE r \in Underway(w)' <=> r \in Underway(w) \/ r = Recorded(q)
      OBVIOUS
    <3>1. r \in Underway(w)' <=> \/ r \in Underway(w) /\ r.by # q
                                 \/ record'[q].at \in OwedAt(w) /\ r = [by |-> q, ts |-> record'[q].ts]
      BY <2>1, UnderwayMoves
    <3>2. r \in Underway(w) => r.by # q
      BY <1>0, UnderwayOwn DEF OwedAt
    <3>3. record'[q].at \in OwedAt(w) /\ [by |-> q, ts |-> record'[q].ts] = Recorded(q)
      BY <2>1 DEF OwedAt, Recorded
    <3> QED BY <3>1, <3>2, <3>3, Zenon
  <2>4. CountShape'
    BY <1>0, <1>3, <2>1, <2>2 DEF CountShape
  <2>5. Recorded(q) \notin loaded
    BY <1>0, <1>3 DEF CountShape
  <2>6. WindowsHave'
    <3> SUFFICES ASSUME NEW w \in Windows
                 PROVE  /\ Timed(samples[w]) /\ IsInjective(samples[w])
                        /\ \A r \in Range(samples[w]) : r \in loaded' /\ r \notin Underway(w)'
                        /\ \A r \in loaded' : r.ts > now - Span[w] /\ r \notin Underway(w)' => r \in Range(samples[w])
      BY <1>0, Zenon DEF WindowsHave
    <3> QED BY <1>3, <2>3, <2>5 DEF CountInv, WindowsHave
  <2>7. RecordsLoaded'
    <3>1. ASSUME NEW p \in Recorders, record'[p].at \in {"session", "24h", "30d"} PROVE Recorded(p)' \in loaded'
      <4>1. CASE p = q
        BY <1>3, <2>2, <4>1
      <4>2. CASE p # q
        <5>1. record'[p] = record[p]
          BY <2>1, <4>2
        <5> QED BY <1>3, <3>1, <5>1 DEF CountInv, RecordsLoaded, Recorded
      <4> QED BY <4>1, <4>2
    <3> QED BY <1>1, <3>1 DEF RecordsLoaded
  <2>8. RebuildCovers'
    <3>1. rebuild.left = {} /\ rebuild.at = "serving"
      BY <1>1 DEF CountInv, RebuildCovers, DaemonServes
    <3> QED BY <1>0, <1>3, <3>1 DEF CountInv, RebuildCovers
  <2>9. RefusedFor'
    BY <1>0, <1>1 DEF RefusedFor, DaemonServes
  <2> QED BY <2>4, <2>6, <2>7, <2>8, <2>9 DEF CountInv
<1> QED BY <1>2, <1>3 DEF RecordInsert, tableVars

LEMMA ApplyWindowKeeps ==
  ASSUME CountInv, NEW q \in Recorders, NEW w \in Windows, NEW next,
         (w = "24h" /\ next = "30d") \/ (w = "30d" /\ next = "idle"),
         ApplyWindow(q, w, next)
  PROVE  CountInv'
<1>0. CountShape /\ record[q].at = w /\ UNCHANGED <<now, rebuild, loaded, ledger, emitter>>
  BY DEF CountInv, ApplyWindow, tableVars, emitVars, boundVars
<1>1. DaemonServes /\ DaemonServes'
  BY <1>0, RecordServes DEF DaemonServes
<1>2. /\ record' \in [Recorders -> [at : RecordPhase, ts : 0..MaxNow]]
      /\ \A p \in Recorders : p # q => record'[p] = record[p]
      /\ record'[q].at = next /\ record'[q].ts = record[q].ts
  <2>1. record' = [record EXCEPT ![q].at = next] /\ next \in RecordPhase
    BY DEF ApplyWindow, RecordPhase
  <2> QED BY <1>0, <2>1, PhaseOnly
<1>3. Recorded(q) \in CostRow /\ Recorded(q).by = q /\ Recorded(q)' = Recorded(q)
  BY <1>0, <1>2, RecordFields DEF Recorded
<1>4. samples \in [Windows -> Seq(CostRow)] /\ samples' = [samples EXCEPT ![w] = Add(@, Recorded(q))]
  BY <1>0 DEF ApplyWindow, CountShape
<1>5. Timed(samples[w]) /\ IsInjective(samples[w]) /\ Recorded(q) \notin Range(samples[w])
  <2>1. Recorded(q) \in Underway(w)
    BY <1>0, UnderwayOwn DEF OwedAt
  <2> QED BY <2>1 DEF CountInv, WindowsHave
<1>6. /\ Add(samples[w], Recorded(q)) \in Seq(CostRow) /\ Timed(Add(samples[w], Recorded(q)))
      /\ IsInjective(Add(samples[w], Recorded(q)))
      /\ Range(Add(samples[w], Recorded(q))) = Range(samples[w]) \cup {Recorded(q)}
  BY <1>3, <1>4, <1>5, AddKeeps
<1>7. samples' \in [Windows -> Seq(CostRow)] /\ samples'[w] = Add(samples[w], Recorded(q))
      /\ \A v \in Windows : v # w => samples'[v] = samples[v]
  BY <1>4, <1>6
<1>8. \A v \in Windows : \A r : r \in Underway(v)' <=> r \in Underway(v) /\ ~(v = w /\ r = Recorded(q))
  <2> SUFFICES ASSUME NEW v \in Windows, NEW r
               PROVE  r \in Underway(v)' <=> r \in Underway(v) /\ ~(v = w /\ r = Recorded(q))
    OBVIOUS
  <2>1. r \in Underway(v)' <=> \/ r \in Underway(v) /\ r.by # q
                               \/ record'[q].at \in OwedAt(v) /\ r = [by |-> q, ts |-> record'[q].ts]
    BY <1>2, UnderwayMoves
  <2>2. r \in Underway(v) /\ r.by = q <=> record[q].at \in OwedAt(v) /\ r = Recorded(q)
    BY UnderwayOwn
  <2>3. [by |-> q, ts |-> record'[q].ts] = Recorded(q)
    BY <1>2 DEF Recorded
  <2>4. record'[q].at \in OwedAt(v) <=> v # w /\ record[q].at \in OwedAt(v)
    BY <1>0, <1>2 DEF OwedAt, Windows
  <2>5. r = Recorded(q) => r.by = q
    BY <1>3
  <2> QED BY <2>1, <2>2, <2>3, <2>4, <2>5, Zenon
<1>9. CountShape'
  BY <1>0, <1>2, <1>7 DEF CountShape
<1>10. WindowsHave'
  <2> SUFFICES ASSUME NEW v \in Windows
               PROVE  /\ Timed(samples'[v]) /\ IsInjective(samples'[v])
                      /\ \A r \in Range(samples'[v]) : r \in loaded /\ r \notin Underway(v)'
                      /\ \A r \in loaded : r.ts > now - Span[v] /\ r \notin Underway(v)' => r \in Range(samples'[v])
    BY <1>0, Zenon DEF WindowsHave
  <2>1. CASE v = w
    <3>1. Timed(samples'[v]) /\ IsInjective(samples'[v]) /\ Range(samples'[v]) = Range(samples[w]) \cup {Recorded(q)}
      BY <1>6, <1>7, <2>1
    <3>2. Recorded(q) \in loaded
      BY <1>0 DEF CountInv, RecordsLoaded, Windows
    <3>3. \A r \in Range(samples'[v]) : r \in loaded /\ r \notin Underway(v)'
      BY <1>8, <2>1, <3>1, <3>2 DEF CountInv, WindowsHave
    <3>4. \A r \in loaded : r.ts > now - Span[v] /\ r \notin Underway(v)' => r \in Range(samples'[v])
      BY <1>8, <2>1, <3>1 DEF CountInv, WindowsHave
    <3> QED BY <3>1, <3>3, <3>4
  <2>2. CASE v # w
    BY <1>7, <1>8, <2>2, Zenon DEF CountInv, WindowsHave
  <2> QED BY <2>1, <2>2
<1>11. RecordsLoaded'
  <2>1. ASSUME NEW p \in Recorders, record'[p].at \in {"session", "24h", "30d"} PROVE Recorded(p)' \in loaded'
    <3>1. record'[p].ts = record[p].ts /\ record[p].at \in {"session", "24h", "30d"}
      BY <1>0, <1>2, <2>1
    <3> QED BY <1>0, <3>1 DEF CountInv, RecordsLoaded, Recorded
  <2> QED BY <1>1, <2>1 DEF RecordsLoaded
<1>12. RebuildCovers' /\ RefusedFor'
  BY <1>0 DEF CountInv, RebuildCovers, RefusedFor, Priced
<1> QED BY <1>9, <1>10, <1>11, <1>12 DEF CountInv


\* OwedAt the daemon serves, no Record owes anything.
LEMMA NothingUnderway ==
  ASSUME CountInv, ~DaemonServes, NEW w \in Windows
  PROVE  Underway(w) = {}
<1>1. \A q \in Recorders : record[q].at = "idle"
  BY DEF CountInv, RecordsLoaded
<1>2. "idle" \notin OwedAt(w)
  BY DEF OwedAt
<1>3. \A r : r \notin Underway(w)
  BY <1>1, <1>2, UnderwayIs
<1> QED BY <1>3, Zenon

\* Pruning by the clock takes only what is too old to be told.
LEMMA TotalledKeeps ==
  ASSUME CountInv, NEW w \in Windows
  PROVE  LET told == Totalled(w, samples[w])
         IN /\ told \in Seq(CostRow) /\ Timed(told) /\ IsInjective(told)
            /\ \A r : r \in Range(told) <=> r \in loaded /\ r.ts > now - Span[w] /\ r \notin Underway(w)
<1>1. samples[w] \in Seq(CostRow) /\ Timed(samples[w]) /\ IsInjective(samples[w])
  BY DEF CountInv, CountShape, WindowsHave
<1>2. now - Span[w] \in Int
  BY CostLedgerAssumption DEF CountInv, CountShape
<1>3. PICK told : told = Totalled(w, samples[w])
  OBVIOUS
<1>4. told \in Seq(CostRow) /\ Timed(told) /\ IsInjective(told)
      /\ Range(told) = {r \in Range(samples[w]) : r.ts > now - Span[w]}
  BY <1>1, <1>2, <1>3, PruneKeeps DEF Totalled
<1>5. \A r : r \in Range(told) <=> r \in loaded /\ r.ts > now - Span[w] /\ r \notin Underway(w)
  BY <1>4 DEF CountInv, WindowsHave
<1> QED BY <1>3, <1>4, <1>5

\* A step that prunes one window and changes nothing else of what the counters have.
LEMMA PrunedKeeps ==
  ASSUME CountInv, NEW w \in Windows, samples' = [samples EXCEPT ![w] = Totalled(w, @)],
         UNCHANGED <<now, loaded, record>>
  PROVE  samples' \in [Windows -> Seq(CostRow)] /\ WindowsHave'
<1>1. /\ Totalled(w, samples[w]) \in Seq(CostRow) /\ Timed(Totalled(w, samples[w]))
      /\ IsInjective(Totalled(w, samples[w]))
      /\ \A r : r \in Range(Totalled(w, samples[w])) <=> r \in loaded /\ r.ts > now - Span[w] /\ r \notin Underway(w)
  BY TotalledKeeps
<1>2. samples \in [Windows -> Seq(CostRow)]
  BY DEF CountInv, CountShape
<1>3. samples' \in [Windows -> Seq(CostRow)] /\ samples'[w] = Totalled(w, samples[w])
      /\ \A v \in Windows : v # w => samples'[v] = samples[v]
  BY <1>1, <1>2
<1>4. \A v : Underway(v)' = Underway(v)
  BY Zenon DEF Underway, Recorded
<1>5. WindowsHave'
  <2> SUFFICES ASSUME NEW v \in Windows
               PROVE  /\ Timed(samples'[v]) /\ IsInjective(samples'[v])
                      /\ \A r \in Range(samples'[v]) : r \in loaded /\ r \notin Underway(v)
                      /\ \A r \in loaded : r.ts > now - Span[v] /\ r \notin Underway(v) => r \in Range(samples'[v])
    BY <1>4, Zenon DEF WindowsHave
  <2>1. CASE v = w
    BY <1>1, <1>3, <2>1, Zenon
  <2>2. CASE v # w
    BY <1>3, <2>2, Zenon DEF CountInv, WindowsHave
  <2> QED BY <2>1, <2>2
<1> QED BY <1>3, <1>5

LEMMA PruneWindowKeeps ==
  ASSUME CountInv, NEW w \in Windows, PruneWindow(w)
  PROVE  CountInv'
<1>1. samples' = [samples EXCEPT ![w] = Totalled(w, @)]
      /\ UNCHANGED <<now, record, rebuild, loaded, ledger, emitter>>
  BY DEF PruneWindow, tableVars, emitVars, boundVars
<1>2. samples' \in [Windows -> Seq(CostRow)] /\ WindowsHave'
  BY <1>1, PrunedKeeps
<1>3. CountShape'
  BY <1>1, <1>2 DEF CountInv, CountShape
<1>4. RecordsLoaded' /\ RebuildCovers' /\ RefusedFor'
  BY <1>1 DEF CountInv, RecordsLoaded, DaemonServes, Recorded, RebuildCovers, RefusedFor, Priced
<1> QED BY <1>2, <1>3, <1>4 DEF CountInv

\* The counters and the rebuild of a process that starts.
FreshCounters ==
    /\ samples = [w \in Windows |-> <<>>] /\ record = [q \in Recorders |-> NoRecord]
    /\ rebuild = BootAt("start") /\ loaded = {}

LEMMA FreshCount ==
  ASSUME FreshCounters, now \in 0..MaxNow, ledger \subseteq CostRow
  PROVE  CountInv
<1>1. BootAt("start") = [at |-> "start", left |-> {}, expected |-> 0, checked |-> 0]
  BY DEF BootAt
<1>2. rebuild.at = "start" /\ rebuild.left = {} /\ rebuild \in
         [at : {"start", "rows", "verify", "serving", "refused"}, left : SUBSET CostRow,
          expected : 0..MaxNow, checked : 0..MaxNow]
  BY <1>1, CostLedgerAssumption DEF FreshCounters
<1>3. NoRecord \in [at : RecordPhase, ts : 0..MaxNow] /\ NoRecord.at = "idle"
  BY CostLedgerAssumption DEF NoRecord, RecordPhase
<1>4. record \in [Recorders -> [at : RecordPhase, ts : 0..MaxNow]] /\ \A q \in Recorders : record[q].at = "idle"
  BY <1>3 DEF FreshCounters
<1>5. samples \in [Windows -> Seq(CostRow)] /\ \A w \in Windows : samples[w] = <<>>
  BY DEF FreshCounters
<1>6. loaded = {}
  BY DEF FreshCounters
<1>7. CountShape
  BY <1>2, <1>4, <1>5, <1>6 DEF CountShape
<1>8. WindowsHave
  <2>1. Timed(<<>>) /\ IsInjective(<<>>) /\ Range(<<>>) = {}
    BY DEF Timed, IsInjective, Range
  <2> QED BY <1>5, <1>6, <2>1 DEF WindowsHave
<1>9. RecordsLoaded /\ RefusedFor
  BY <1>2, <1>4 DEF RecordsLoaded, RefusedFor
<1>10. RebuildCovers
  BY <1>2, <1>6 DEF RebuildCovers
<1> QED BY <1>7, <1>8, <1>9, <1>10 DEF CountInv

LEMMA RebuildKeeps ==
  ASSUME CountInv, RebuildFromLedger
  PROVE  CountInv'
<1> DEFINE recent == {r \in ledger : r.ts >= now - Span["30d"]}
<1>0. rebuild.at = "start" /\ loaded = {} /\ UNCHANGED <<now, samples, record, loaded, ledger, emitter>>
  BY DEF CountInv, RebuildCovers, RebuildFromLedger, tableVars, emitVars, boundVars
<1>1. rebuild' = [rebuild EXCEPT !.at = "rows", !.left = recent] /\ recent \in SUBSET CostRow
  BY DEF CountInv, CountShape, RebuildFromLedger
<1>2. /\ rebuild' \in [at : {"start", "rows", "verify", "serving", "refused"}, left : SUBSET CostRow,
                      expected : 0..MaxNow, checked : 0..MaxNow]
      /\ rebuild'.at = "rows" /\ rebuild'.left = recent
  <2> HIDE DEF recent
  <2> QED BY <1>1 DEF CountInv, CountShape
<1>3. CountShape'
  BY <1>0, <1>2 DEF CountInv, CountShape
<1>4. \A v : Underway(v)' = Underway(v)
  BY <1>0, Zenon DEF Underway, Recorded
<1>5. WindowsHave'
  BY <1>0, <1>4, Zenon DEF CountInv, WindowsHave
<1>6. RecordsLoaded'
  <2>1. \A q \in Recorders : record[q].at = "idle"
    BY <1>0 DEF CountInv, RecordsLoaded, DaemonServes
  <2> QED BY <1>0, <2>1 DEF RecordsLoaded
<1>7. RebuildCovers'
  <2>1. \A r \in ledger : r.ts \in Int
    BY RowTimes, CostLedgerAssumption DEF CountInv, CountShape
  <2>2. now - Span["30d"] \in Int
    BY CostLedgerAssumption DEF CountInv, CountShape, Windows
  <2>3. \A r \in ledger : r \notin recent => r.ts < now - Span["30d"]
    BY <2>1, <2>2
  <2>4. recent \subseteq ledger
    OBVIOUS
  <2> HIDE DEF recent
  <2> QED BY <1>0, <1>2, <2>3, <2>4 DEF CountInv, RebuildCovers
<1>8. RefusedFor'
  BY <1>2 DEF RefusedFor
<1> QED BY <1>3, <1>5, <1>6, <1>7, <1>8 DEF CountInv

LEMMA ReplayRowKeeps ==
  ASSUME CountInv, ReplayRow
  PROVE  CountInv'
<1>0. rebuild.at = "rows" /\ ~DaemonServes /\ UNCHANGED <<now, record, ledger, emitter>>
  BY DEF ReplayRow, DaemonServes, tableVars, emitVars, boundVars
<1>1. PICK r \in rebuild.left :
          /\ rebuild' = [rebuild EXCEPT !.left = @ \ {r}]
          /\ loaded' = loaded \cup {r}
          /\ samples' = [w \in Windows |-> Add(samples[w], r)]
  BY DEF ReplayRow
<1>2. r \in CostRow /\ r \in ledger /\ r \notin loaded
  BY DEF CountInv, CountShape, RebuildCovers
<1>3. /\ rebuild' \in [at : {"start", "rows", "verify", "serving", "refused"}, left : SUBSET CostRow,
                      expected : 0..MaxNow, checked : 0..MaxNow]
      /\ rebuild'.at = "rows" /\ rebuild'.left = rebuild.left \ {r}
  BY <1>0, <1>1 DEF CountInv, CountShape
<1>4. ASSUME NEW w \in Windows
      PROVE  /\ samples'[w] \in Seq(CostRow) /\ Timed(samples'[w]) /\ IsInjective(samples'[w])
             /\ Range(samples'[w]) = Range(samples[w]) \cup {r}
  <2>1. samples[w] \in Seq(CostRow) /\ Timed(samples[w]) /\ IsInjective(samples[w]) /\ r \notin Range(samples[w])
    BY <1>2 DEF CountInv, CountShape, WindowsHave
  <2>2. samples'[w] = Add(samples[w], r)
    BY <1>1
  <2> QED BY <1>2, <2>1, <2>2, AddKeeps
<1>5. CountShape'
  <2>1. samples' \in [Windows -> Seq(CostRow)]
    BY <1>1, <1>4
  <2> QED BY <1>0, <1>1, <1>2, <1>3, <2>1 DEF CountInv, CountShape
<1>6. \A w \in Windows : Underway(w) = {} /\ Underway(w)' = {}
  <2>1. \A w \in Windows : Underway(w) = {}
    BY <1>0, NothingUnderway
  <2>2. \A w : Underway(w)' = Underway(w)
    BY <1>0, Zenon DEF Underway, Recorded
  <2> QED BY <2>1, <2>2
<1>7. WindowsHave'
  <2> SUFFICES ASSUME NEW w \in Windows
               PROVE  /\ Timed(samples'[w]) /\ IsInjective(samples'[w])
                      /\ \A x \in Range(samples'[w]) : x \in loaded' /\ x \notin Underway(w)'
                      /\ \A x \in loaded' : x.ts > now - Span[w] /\ x \notin Underway(w)' => x \in Range(samples'[w])
    BY <1>0, Zenon DEF WindowsHave
  <2> QED BY <1>1, <1>4, <1>6 DEF CountInv, WindowsHave
<1>8. RecordsLoaded'
  <2>1. \A q \in Recorders : record[q].at = "idle"
    BY <1>0 DEF CountInv, RecordsLoaded
  <2> QED BY <1>0, <2>1 DEF RecordsLoaded
<1>9. RebuildCovers'
  BY <1>0, <1>1, <1>3 DEF CountInv, RebuildCovers
<1>10. RefusedFor'
  BY <1>3 DEF RefusedFor
<1> QED BY <1>5, <1>7, <1>8, <1>9, <1>10 DEF CountInv

LEMMA VerifyExpectsKeeps ==
  ASSUME CountInv, VerifyExpects
  PROVE  CountInv'
<1>0. rebuild.at = "rows" /\ rebuild.left = {} /\ rebuild' = [rebuild EXCEPT !.at = "verify", !.expected = now]
      /\ UNCHANGED <<now, samples, record, loaded, ledger, emitter>>
  BY DEF VerifyExpects, tableVars, emitVars, boundVars
<1>1. /\ rebuild' \in [at : {"start", "rows", "verify", "serving", "refused"}, left : SUBSET CostRow,
                      expected : 0..MaxNow, checked : 0..MaxNow]
      /\ rebuild'.at = "verify" /\ rebuild'.left = rebuild.left /\ rebuild'.expected = now
  BY <1>0 DEF CountInv, CountShape
<1>2. CountShape'
  BY <1>0, <1>1 DEF CountInv, CountShape
<1>3. \A v : Underway(v)' = Underway(v)
  BY <1>0, Zenon DEF Underway, Recorded
<1>4. WindowsHave'
  BY <1>0, <1>3, Zenon DEF CountInv, WindowsHave
<1>5. RecordsLoaded'
  <2>1. \A q \in Recorders : record[q].at = "idle"
    BY <1>0 DEF CountInv, RecordsLoaded, DaemonServes
  <2> QED BY <1>0, <2>1 DEF RecordsLoaded
<1>6. RebuildCovers'
  BY <1>0, <1>1 DEF CountInv, RebuildCovers
<1>7. RefusedFor'
  <2>1. now \in Int
    BY CostLedgerAssumption DEF CountInv, CountShape
  <2> QED BY <1>0, <1>1, <2>1 DEF RefusedFor
<1> QED BY <1>2, <1>4, <1>5, <1>6, <1>7 DEF CountInv

\* An enumeration without repetition counts what it enumerates.
LEMMA CountsRange ==
  ASSUME NEW s \in Seq(CostRow), IsInjective(s)
  PROVE  Cardinality({i \in DOMAIN s : Priced(s[i])}) = Cardinality({r \in Range(s) : Priced(r)})
<1> DEFINE I == {i \in DOMAIN s : Priced(s[i])}
           R == {r \in Range(s) : Priced(r)}
           f == [i \in I |-> s[i]]
<1>1. DOMAIN s = 1..Len(s) /\ Len(s) \in Nat
  OBVIOUS
<1>2. IsFiniteSet(I)
  <2>1. IsFiniteSet(1..Len(s))
    BY <1>1, FS_Interval
  <2>2. I \in SUBSET (1..Len(s))
    BY <1>1
  <2> QED BY <2>1, <2>2, FS_Subset
<1>3. \A x : x \in Range(s) <=> \E i \in DOMAIN s : x = s[i]
  BY Zenon DEF Range
<1>4. f \in [I -> R]
  BY <1>3
<1>5. \A a, b \in I : f[a] = f[b] => a = b
  BY DEF IsInjective
<1>6. \A x \in R : \E i \in I : f[i] = x
  BY <1>3
<1>7. f \in Bijection(I, R)
  <2> HIDE DEF I, R, f
  <2> QED BY <1>4, <1>5, <1>6 DEF Bijection, Injection, Surjection, IsInjective
<1>8. ExistsBijection(I, R)
  BY <1>7 DEF ExistsBijection
<1> QED BY <1>2, <1>8, FS_Bijection

LEMMA VerifyComparesKeeps ==
  ASSUME CountInv, VerifyCompares
  PROVE  CountInv'
<1> DEFINE got == Totalled("30d", samples["30d"])
           want == {r \in loaded : r.ts >= rebuild.expected - Span["30d"]}
<1>0. rebuild.at = "verify" /\ ~DaemonServes /\ UNCHANGED <<now, record, loaded, ledger, emitter>>
  BY DEF VerifyCompares, DaemonServes, tableVars, emitVars, boundVars
<1>1. samples' = [samples EXCEPT !["30d"] = Totalled("30d", @)]
  BY DEF VerifyCompares
<1>2. "30d" \in Windows
  BY DEF Windows
<1>3. samples' \in [Windows -> Seq(CostRow)] /\ WindowsHave'
  BY <1>0, <1>1, <1>2, PrunedKeeps
<1>4. rebuild' = IF Cardinality({i \in DOMAIN got : Priced(got[i])}) = Cardinality({r \in want : Priced(r)})
                 THEN BootAt("serving") ELSE [rebuild EXCEPT !.at = "refused", !.checked = now]
  BY DEF VerifyCompares
<1>5. rebuild.left = {} /\ \A q \in Recorders : record[q].at = "idle"
  BY <1>0 DEF CountInv, RebuildCovers, RecordsLoaded
<1>6. RecordsLoaded'
  BY <1>0, <1>5 DEF RecordsLoaded
<1>7. CASE rebuild' = BootAt("serving")
  <2>1. /\ rebuild' \in [at : {"start", "rows", "verify", "serving", "refused"}, left : SUBSET CostRow,
                        expected : 0..MaxNow, checked : 0..MaxNow]
        /\ rebuild'.at = "serving" /\ rebuild'.left = {}
    BY <1>7, CostLedgerAssumption DEF BootAt
  <2>2. CountShape' /\ RebuildCovers' /\ RefusedFor'
    BY <1>0, <1>3, <1>5, <2>1 DEF CountInv, CountShape, RebuildCovers, RefusedFor
  <2> QED BY <1>3, <1>6, <2>2 DEF CountInv
<1>8. CASE /\ rebuild' = [rebuild EXCEPT !.at = "refused", !.checked = now]
           /\ Cardinality({i \in DOMAIN got : Priced(got[i])}) # Cardinality({r \in want : Priced(r)})
  <2>1. /\ rebuild' \in [at : {"start", "rows", "verify", "serving", "refused"}, left : SUBSET CostRow,
                        expected : 0..MaxNow, checked : 0..MaxNow]
        /\ rebuild'.at = "refused" /\ rebuild'.left = {}
        /\ rebuild'.expected = rebuild.expected /\ rebuild'.checked = now
    BY <1>5, <1>8 DEF CountInv, CountShape
  <2>2. CountShape' /\ RebuildCovers'
    BY <1>0, <1>3, <1>5, <2>1 DEF CountInv, CountShape, RebuildCovers
  <2>3. got \in Seq(CostRow) /\ IsInjective(got)
        /\ \A r : r \in Range(got) <=> r \in loaded /\ r.ts > now - Span["30d"]
    BY <1>0, <1>2, NothingUnderway, TotalledKeeps
  <2>4. Cardinality({i \in DOMAIN got : Priced(got[i])}) = Cardinality({r \in Range(got) : Priced(r)})
    BY <2>3, CountsRange
  <2>5. {r \in Range(got) : Priced(r)} # {r \in want : Priced(r)}
    BY <1>8, <2>4
  <2>6. \A r \in loaded : r.ts \in Int
    BY RowTimes, CostLedgerAssumption DEF CountInv, CountShape
  <2>7. now \in Nat /\ rebuild.expected \in Nat /\ Span["30d"] \in Nat /\ rebuild.expected <= now
    BY <1>0, <1>2, CostLedgerAssumption DEF CountInv, CountShape, RefusedFor
  <2> HIDE DEF got
  <2>8. PICK r : ~(r \in Range(got) /\ Priced(r) <=> r \in want /\ Priced(r))
    BY <2>5
  <2>9. Priced(r) /\ r \in loaded /\ r.ts >= rebuild.expected - Span["30d"] /\ r.ts <= now - Span["30d"]
    BY <2>3, <2>6, <2>7, <2>8
  <2>10. RefusedFor'
    BY <1>0, <2>1, <2>9 DEF RefusedFor, Priced
  <2> QED BY <1>3, <1>6, <2>2, <2>10 DEF CountInv
<1> HIDE DEF got, want
<1> QED BY <1>4, <1>7, <1>8


LEMMA EmitterCounts ==
  ASSUME CountInv, EmitInv, (\E p \in Spenders : Emit(p)) \/ EmitterStep \/ FlushStart \/ CloseEmitter
  PROVE  CountInv'
<1>0. UNCHANGED <<countVars, now>> /\ now \in 0..MaxNow /\ now <= now'
  <2>1. now \in 0..MaxNow /\ now \in Int
    BY DEF CountInv, CountShape
  <2>2. UNCHANGED countVars /\ now' = now
    BY DEF Emit, EmitterStep, WorkerDelivers, WorkerTakesFlush, WorkerAnswers, WorkerEnds,
           FlushSeesDone, CloseDone, FlushStart, CloseEmitter, boundVars
  <2> QED BY <2>1, <2>2
<1>1. CASE WorkerDelivers
  <2>1. emitter.ch \in Seq(Attempt) /\ emitter.ch # <<>> /\ SinkInsert(Head(emitter.ch))
    BY <1>1 DEF WorkerDelivers, EmitInv, EmitterShape
  <2>2. PICK e \in Attempt : SinkInsert(e)
    BY <2>1, RangeOfChannel
  <2>3. e.key \in CostRow /\ e.key.by \in Spenders
    BY DEF Attempt, CostRow, Payer
  <2>4. ledger \subseteq ledger' /\ \A x \in ledger' : x \in ledger \/ x = e.key
    BY <2>2 DEF SinkInsert, tableVars
  <2> QED BY <1>0, <2>3, <2>4, CountersRest
<1>2. CASE ~WorkerDelivers
  <2>1. UNCHANGED ledger
    BY <1>2 DEF Emit, EmitterStep, WorkerTakesFlush, WorkerAnswers, WorkerEnds, FlushSeesDone, CloseDone,
                FlushStart, CloseEmitter, tableVars
  <2> QED BY <1>0, <2>1, CountersRest
<1> QED BY <1>1, <1>2

LEMMA CountInvHolds == LedgerSpec => []CountInv
<1>1. LedgerInit => CountInv
  BY FreshCount, CostLedgerAssumption DEF LedgerInit, FreshCounters
<1>2. EmitInv /\ CountInv /\ [LedgerNext]_ledgerVars => CountInv'
  <2> SUFFICES ASSUME EmitInv, CountInv, [LedgerNext]_ledgerVars PROVE CountInv'
    OBVIOUS
  <2>0. now \in 0..MaxNow /\ now \in Int
    BY DEF CountInv, CountShape
  <2>1. CASE ClockTicks
    <3>1. UNCHANGED <<countVars, ledger, emitter>> /\ now < MaxNow /\ now' = now + 1
      BY <2>1 DEF ClockTicks, tableVars, emitVars
    <3> QED BY <2>0, <3>1, CountersRest, CostLedgerAssumption
  <2>2. CASE (\E p \in Spenders : Emit(p)) \/ EmitterStep \/ FlushStart \/ CloseEmitter
    BY <2>2, EmitterCounts
  <2>3. ASSUME NEW q \in Recorders, RecordStart(q) \/ RecordStep(q) PROVE CountInv'
    <3>1. "24h" \in Windows /\ "30d" \in Windows
      BY DEF Windows
    <3> QED BY <2>3, <3>1, RecordStartKeeps, RecordInsertKeeps, ApplySessionKeeps, ApplyWindowKeeps DEF RecordStep
  <2>4. ASSUME NEW w \in Windows, PruneWindow(w) PROVE CountInv'
    BY <2>4, PruneWindowKeeps
  <2>5. CASE RestartDaemon
    <3>1. FreshCounters' /\ UNCHANGED <<now, ledger>>
      BY <2>5 DEF RestartDaemon, FreshMemory, FreshCounters
    <3>2. now' \in 0..MaxNow /\ ledger' \subseteq CostRow
      BY <2>0, <3>1 DEF CountInv, CountShape
    <3>3. (FreshCounters /\ now \in 0..MaxNow /\ ledger \subseteq CostRow => CountInv)'
      BY FreshCount, PTL
    <3> QED BY <3>1, <3>2, <3>3
  <2>6. CASE RebuildFromLedger \/ ReplayRow \/ VerifyExpects \/ VerifyCompares
    BY <2>6, RebuildKeeps, ReplayRowKeeps, VerifyExpectsKeeps, VerifyComparesKeeps
  <2>7. CASE UNCHANGED ledgerVars
    <3>1. UNCHANGED <<countVars, ledger, emitter, now>>
      BY <2>7 DEF ledgerVars, tableVars, emitVars, boundVars
    <3> QED BY <2>0, <3>1, CountersRest
  <2> QED BY <2>1, <2>2, <2>3, <2>4, <2>5, <2>6, <2>7 DEF LedgerNext
<1> QED BY <1>1, <1>2, EmitInvHolds, PTL DEF LedgerSpec

\* No cost that was accepted or recorded is counted twice on its way to the table, the
\* counters and back, and none that was accepted is lost, unless the database refuses it or
\* an attempt with its key has the row, for any sessions, windows' lengths, channel size and
\* number of restarts (orchestrator_wiring.go:309-313, 336-344; cost_emit.go:133-266,
\* cost_counters.go:187-245, 362-457).
THEOREM CostsCorrect == LedgerSpec => []CostsKept
<1>1. CountInv => CountersExact
  <2> SUFFICES ASSUME CountInv PROVE CountersExact
    OBVIOUS
  <2>1. ASSUME NEW w \in Windows
        PROVE  /\ IsInjective(Totalled(w, samples[w]))
               /\ Range(Totalled(w, samples[w])) = {r \in loaded : r.ts > now - Span[w]} \ Underway(w)
    <3>1. /\ IsInjective(Totalled(w, samples[w]))
          /\ \A r : r \in Range(Totalled(w, samples[w])) <=>
                       r \in loaded /\ r.ts > now - Span[w] /\ r \notin Underway(w)
      BY TotalledKeeps
    <3> QED BY <3>1, Zenon
  <2>2. DaemonServes => \A r \in ledger \ loaded : r.by \in Spenders \/ r.ts < now - Span["30d"]
    BY DEF CountInv, RebuildCovers, DaemonServes
  <2>3. rebuild.at = "refused" => \E r \in loaded : Priced(r)
           /\ r.ts >= rebuild.expected - Span["30d"] /\ r.ts <= rebuild.checked - Span["30d"]
    BY DEF CountInv, RefusedFor
  <2> QED BY <2>1, <2>2, <2>3 DEF CountersExact
<1>2. EmitInv => OneRowEach
  BY DEF EmitInv, RowsOwned
<1>3. CountersExact /\ EventsWritten /\ OneRowEach => CostsKept
  BY DEF CostsKept
<1> QED BY <1>1, <1>2, <1>3, CountInvHolds, EmitInvHolds, EmissionCorrect, PTL

-----------------------------------------------------------------------------
(* What the inductive invariants say of types                              *)

LEMMA LogTyped == EventLogSpec => []EventLogTypeOK
<1>1. LogInv => EventLogTypeOK
  BY DEF LogInv
<1> QED BY <1>1, LogInitInv, LogStepInv, PTL DEF EventLogSpec

-----------------------------------------------------------------------------
(* MergeEngine: the histories                                              *)

HistoriesTyped == landed \in SUBSET (MergeRequest \X SHA) /\ spoilt \in SUBSET Branch

LEMMA MergeHistories ==
  ASSUME MergeInv, HistoriesTyped, [MergeNext]_mergeVars
  PROVE  HistoriesTyped'
<1>1. ASSUME NEW m \in Mergers, merge[m].at # "idle"
      PROVE  <<Req(m), merge[m].winner>> \in MergeRequest \X SHA /\ Onto(m) \in Branch
  <2>1. Req(m) \in MergeRequest /\ merge[m].winner \in SHA
    BY <1>1 DEF MergeInv, CallOK, MergeShape, MergeCall
  <2> QED BY <2>1, MergeAssumption DEF Onto
<1>2. ASSUME NEW m \in Mergers, CheckAfter(m) PROVE HistoriesTyped'
  <2>1. /\ spoilt' = spoilt
        /\ landed' = landed \/ landed' = landed \cup {<<Req(m), merge[m].winner>>}
    BY <1>2 DEF CheckAfter
  <2>2. merge[m].at # "idle"
    BY <1>2 DEF CheckAfter
  <2> QED BY <1>1, <2>1, <2>2 DEF HistoriesTyped
<1>3. ASSUME NEW m \in Mergers, Rollback(m) PROVE HistoriesTyped'
  <2>1. landed' = landed /\ (spoilt' = spoilt \/ spoilt' = spoilt \cup {Onto(m)})
    BY <1>3 DEF Rollback
  <2>2. merge[m].at # "idle"
    BY <1>3 DEF Rollback
  <2> QED BY <1>1, <2>1, <2>2 DEF HistoriesTyped
<1>4. ASSUME NEW m \in Mergers,
             \/ ValidateMerge(m) \/ Lookup(m) \/ LockTarget(m) \/ RunAndScore(m) \/ ReadTarget(m)
             \/ UpdateRef(m) \/ StoreOutcome(m) \/ EmitCompleted(m) \/ CancelMerge(m)
             \/ \E r \in MergeRequest : CallMerge(m, r)
      PROVE  HistoriesTyped'
  <2>1. UNCHANGED mergeHistory
    BY <1>4 DEF ValidateMerge, Lookup, LockTarget, RunAndScore, ReadTarget, UpdateRef, StoreOutcome,
                EmitCompleted, CancelMerge, CallMerge
  <2> QED BY <2>1 DEF mergeHistory, HistoriesTyped
<1>5. CASE RebuildCache \/ UNCHANGED mergeVars
  BY <1>5 DEF RebuildCache, mergeVars, mergeHistory, HistoriesTyped
<1>6. CASE MergeRestart
  <2>1. landed' = landed /\ spoilt' = spoilt \cup {b \in Branch : ref[b] # tip[b]}
    BY <1>6 DEF MergeRestart
  <2> QED BY <2>1 DEF HistoriesTyped
<1> QED BY <1>2, <1>3, <1>4, <1>5, <1>6 DEF MergeNext, MergeStep

LEMMA MergeTyped == MergeSpec => []MergeTypeOK
<1>1. MergeInit => HistoriesTyped
  BY DEF MergeInit, HistoriesTyped
<1>2. MergeInv /\ HistoriesTyped => MergeTypeOK
  BY DEF MergeInv, MergeShape, MergeCall, HistoriesTyped, MergeTypeOK
<1> QED BY <1>1, <1>2, MergeHistories, MergeInitInv, MergeStepInv, PTL DEF MergeSpec


-----------------------------------------------------------------------------
(* CostLedger: the emitter's channel stays within its buffer               *)

LedgerBounds == Len(emitter.ch) <= EmitBuffer /\ sessionTotal \in [Payer -> Nat]

LEMMA LedgerStays ==
  ASSUME EmitInv, CountInv, LedgerBounds, [LedgerNext]_ledgerVars
  PROVE  LedgerBounds'
<1>0. /\ emitter \in [ch : Seq(Attempt), closed : BOOLEAN, worker : {"run", "drain", "ended"}, done : BOOLEAN]
      /\ emitter.ch \in Seq(Attempt) /\ Len(emitter.ch) \in Nat
      /\ emitter.ch # <<>> => Len(Tail(emitter.ch)) = Len(emitter.ch) - 1
      /\ Len(<<>>) = 0 /\ EmitBuffer \in Nat /\ now \in 0..MaxNow /\ rebuild.left \subseteq CostRow
  BY CostLedgerAssumption DEF EmitInv, EmitterShape, CountInv, CountShape
<1>1. ASSUME NEW p \in Spenders, Emit(p) PROVE LedgerBounds'
  <2>1. sessionTotal' = sessionTotal
    BY <1>1 DEF Emit, countVars
  <2>2. CASE emitter' = emitter
    BY <2>1, <2>2 DEF LedgerBounds
  <2>3. ASSUME NEW e, Len(emitter.ch) < EmitBuffer, emitter' = [emitter EXCEPT !.ch = Append(@, e)]
        PROVE  LedgerBounds'
    <3>1. emitter'.ch = Append(emitter.ch, e)
      BY <1>0, <2>3
    <3>2. Len(Append(emitter.ch, e)) = Len(emitter.ch) + 1
      <4>1. emitter.ch \in Seq(Attempt \cup {e})
        BY <1>0
      <4> QED BY <4>1
    <3> QED BY <1>0, <2>1, <2>3, <3>1, <3>2 DEF LedgerBounds
  <2> QED BY <1>1, <2>2, <2>3 DEF Emit
<1>2. CASE EmitterStep \/ FlushStart \/ CloseEmitter
  <2>1. sessionTotal' = sessionTotal
    BY <1>2 DEF EmitterStep, WorkerDelivers, WorkerTakesFlush, WorkerAnswers, WorkerEnds, FlushSeesDone,
                CloseDone, FlushStart, CloseEmitter, countVars
  <2>2. emitter'.ch = emitter.ch \/ (emitter.ch # <<>> /\ emitter'.ch = Tail(emitter.ch))
    BY <1>0, <1>2 DEF EmitterStep, WorkerDelivers, WorkerTakesFlush, WorkerAnswers, WorkerEnds,
                      FlushSeesDone, CloseDone, FlushStart, CloseEmitter
  <2> QED BY <1>0, <2>1, <2>2 DEF LedgerBounds
<1>3. ASSUME NEW q \in Recorders, RecordStart(q) \/ RecordStep(q) PROVE LedgerBounds'
  <2>1. emitter' = emitter
    BY <1>3 DEF RecordStart, RecordStep, RecordInsert, ApplySession, ApplyWindow, emitVars
  <2>2. sessionTotal' = sessionTotal \/ sessionTotal' = [sessionTotal EXCEPT ![q] = @ + 1]
    BY <1>3 DEF RecordStart, RecordStep, RecordInsert, ApplySession, ApplyWindow
  <2>3. sessionTotal' \in [Payer -> Nat]
    BY <2>2 DEF LedgerBounds, Payer
  <2> QED BY <2>1, <2>3 DEF LedgerBounds
<1>4. CASE ReplayRow
  <2>1. PICK r \in rebuild.left : sessionTotal' = [sessionTotal EXCEPT ![r.by] = @ + 1]
    BY <1>4 DEF ReplayRow
  <2>2. r.by \in Payer
    BY <1>0, <2>1 DEF CostRow
  <2>3. sessionTotal' \in [Payer -> Nat]
    BY <2>1, <2>2 DEF LedgerBounds
  <2>4. emitter' = emitter
    BY <1>4 DEF ReplayRow, emitVars
  <2> QED BY <2>3, <2>4 DEF LedgerBounds
<1>5. CASE RestartDaemon
  <2>1. emitter'.ch = <<>> /\ sessionTotal' = [p \in Payer |-> 0]
    BY <1>5 DEF RestartDaemon, FreshMemory, Fresh
  <2> QED BY <1>0, <2>1 DEF LedgerBounds
<1>6. CASE \/ ClockTicks \/ (\E w \in Windows : PruneWindow(w)) \/ RebuildFromLedger
           \/ VerifyExpects \/ VerifyCompares \/ UNCHANGED ledgerVars
  BY <1>6 DEF ClockTicks, PruneWindow, RebuildFromLedger, VerifyExpects, VerifyCompares, ledgerVars,
              emitVars, countVars, LedgerBounds
<1> QED BY <1>1, <1>2, <1>3, <1>4, <1>5, <1>6 DEF LedgerNext

LEMMA LedgerTyped == LedgerSpec => []LedgerTypeOK
<1>1. LedgerInit => LedgerBounds
  <2> SUFFICES ASSUME LedgerInit PROVE LedgerBounds
    OBVIOUS
  <2>1. emitter.ch = <<>> /\ Len(<<>>) = 0 /\ sessionTotal = [p \in Payer |-> 0]
    BY DEF LedgerInit, Fresh
  <2>2. Len(emitter.ch) = 0
    BY <2>1
  <2> QED BY <2>1, <2>2, CostLedgerAssumption DEF LedgerBounds
<1>2. EmitInv /\ CountInv /\ LedgerBounds => LedgerTypeOK
  <2> SUFFICES ASSUME EmitInv, CountInv, LedgerBounds PROVE LedgerTypeOK
    OBVIOUS
  <2>1. /\ emitter.ch \in Seq(Attempt) /\ ownRow \subseteq Attempt /\ emitter.worker \in {"run", "drain", "ended"}
        /\ emitter.closed \in BOOLEAN /\ flusher.at \in {"idle", "offering", "waiting", "returned"}
    BY DEF EmitInv, EmitterShape
  <2>2. /\ rebuild.at \in {"start", "rows", "verify", "serving", "refused"}
        /\ record \in [Recorders -> [at : {"idle", "insert", "session"} \cup Windows, ts : 0..MaxNow]]
    <3>1. RecordPhase = {"idle", "insert", "session"} \cup Windows
      BY DEF RecordPhase, Windows
    <3> QED BY <3>1 DEF CountInv, CountShape
  <2> QED BY <2>1, <2>2 DEF LedgerBounds, CountInv, CountShape, LedgerTypeOK
<1> QED BY <1>1, <1>2, LedgerStays, EmitInvHolds, CountInvHolds, PTL DEF LedgerSpec

=============================================================================
