------------------------ MODULE SpineSchedulerProofs ------------------------
(***************************************************************************)
(* Proofs about SpineScheduler, for any sessions, classes, capacities and  *)
(* number of turns.  The inductive invariant has six layers, each proved   *)
(* from the ones before it: Shape (types, and what a lane's fields say     *)
(* about each other), Permits (who holds a permit of which pool), Owners   *)
(* (every open turn is held in one place), Records (what the run store     *)
(* holds of a turn follows from who holds the turn, and a queue keeps its  *)
(* order), AtRest (what an idle lane and a closed scheduler leave) and     *)
(* ThreadsRun (whose mailbox a thread may drain).  With them each step is  *)
(* shown to be a step of TurnService or not to be seen by it.              *)
(***************************************************************************)
EXTENDS SpineScheduler, QueueLemmas, FiniteSetTheorems

-----------------------------------------------------------------------------
(* Layer 1.                                                                *)

KnownRequests ==
  \A t \in Turns : /\ t \in Accepted => req[t] \in Requests
                   /\ t \in Accepted <=> future[t] # "none"

LaneShape ==
  \A l \in Sessions :
    /\ worker[l] = "await" <=> running[l] # NoTurn
    /\ task[l] # "none" <=> running[l] # NoTurn
    /\ verdict[l] # "none" <=> task[l] \in {"ended", "closing", "done"}
    /\ running[l] # NoTurn => running[l] \in Accepted /\ LaneOf(running[l]) = l

LaneContents ==
  \A l \in Sessions : \A t \in ToSet(pending[l]) \cup ToSet(mailbox[l]) :
    t \in Accepted /\ LaneOf(t) = l

MergedKnown ==
  \A h \in Turns : \A t \in ToSet(merged[h]) : t \in Accepted

ThreadsKnown == threads \subseteq Accepted

Shape == /\ TypeOK /\ KnownRequests /\ LaneShape
         /\ LaneContents /\ MergedKnown /\ ThreadsKnown

LEMMA AcceptedAreTurns ==
  ASSUME TypeOK
  PROVE  /\ Accepted \subseteq Turns
         /\ NoTurn \notin Turns
  BY MaxTurnsAssumption, NoTurnAssumption DEF TypeOK, Accepted, Turns

(* What the steps of a running task do to the layer-1 facts: they move the *)
(* task of one lane and touch no queue.                                    *)
LEMMA TaskStepKeepsShape ==
  ASSUME Shape, NEW l \in Sessions, NEW from \in TaskPhases,
         NEW to \in TaskPhases \ {"none"}, from # "none",
         TaskStep(l, from, to),
         durable' \in [Turns -> Terminal \cup {"none", "accepted", "running"}],
         threads' \in SUBSET Accepted,
         free' \in [Classes -> Nat],
         \/ /\ UNCHANGED verdict
            /\ from \in {"ended", "closing", "done"}
                 <=> to \in {"ended", "closing", "done"}
         \/ \E v \in Verdicts : /\ verdict' = [verdict EXCEPT ![l] = v]
                                /\ to \in {"ended", "closing", "done"}
  PROVE  Shape'
<1>1. TypeOK'
  BY AcceptedAreTurns
     DEF Shape, TypeOK, TaskStep, TaskPhases, Verdicts, Terminal
<1>2. KnownRequests' /\ LaneContents' /\ MergedKnown' /\ ThreadsKnown'
  BY DEF Shape, TaskStep, KnownRequests, LaneContents, MergedKnown,
         ThreadsKnown, Accepted, LaneOf
<1>3. LaneShape'
  BY DEF Shape, TypeOK, TaskStep, LaneShape, Accepted, LaneOf, Verdicts,
         Terminal, TaskPhases
<1> QED
  BY <1>1, <1>2, <1>3 DEF Shape

(* Taking or giving one permit keeps the counters natural numbers. *)
LEMMA PermitMoves ==
  ASSUME NEW f \in [Classes -> Nat], NEW c
  PROVE  /\ [f EXCEPT ![c] = @ + 1] \in [Classes -> Nat]
         /\ f[c] > 0 => [f EXCEPT ![c] = @ - 1] \in [Classes -> Nat]
<1>1. CASE c \in Classes
  BY <1>1
<1>2. CASE c \notin Classes
  BY <1>2
<1> QED
  BY <1>1, <1>2

(* The steps of the running task, one by one, as TaskStepKeepsShape asks.  *)
LEMMA LaneTaskStepsKeepShape ==
  ASSUME Shape, NEW l \in Sessions,
         \/ TaskStart(l) \/ Acquire(l) \/ AbandonWait(l) \/ AbandonGrant(l)
         \/ Withdrawn(l) \/ BeginRun(l) \/ RunEnds(l) \/ ObserveCancel(l)
         \/ AbortEnds(l) \/ ReleasePermit(l) \/ TaskDone(l)
  PROVE  Shape'
<1> DEFINE States == Terminal \cup {"none", "accepted", "running"}
<1>0. /\ durable \in [Turns -> States] /\ threads \in SUBSET Accepted
      /\ free \in [Classes -> Nat]
      /\ task[l] # "none" => running[l] \in Accepted
  BY DEF Shape, TypeOK, LaneShape, ThreadsKnown
<1>1. CASE TaskStart(l)
  BY <1>1, <1>0, TaskStepKeepsShape DEF TaskStart, TaskPhases
<1>2. CASE Acquire(l)
  BY <1>2, <1>0, PermitMoves, TaskStepKeepsShape DEF Acquire, TakePermit, TaskPhases
<1>3. CASE AbandonWait(l)
  BY <1>3, <1>0, TaskStepKeepsShape DEF AbandonWait, TaskPhases
<1>4. CASE AbandonGrant(l)
  BY <1>4, <1>0, PermitMoves, TaskStepKeepsShape DEF AbandonGrant, GivePermit, TaskPhases
<1>5. CASE Withdrawn(l)
  <2>1. durable' \in [Turns -> States]
    BY <1>5, <1>0 DEF Withdrawn, ExecutorCancel, Terminal
  <2> QED
    BY <2>1, <1>5, <1>0, TaskStepKeepsShape DEF Withdrawn, TaskPhases
<1>6. CASE BeginRun(l)
  <2>1. task[l] = "granted"
    BY <1>6 DEF BeginRun, TaskStep
  <2>2. durable' \in [Turns -> States] /\ threads' \in SUBSET Accepted
    BY <1>6, <1>0, <2>1 DEF BeginRun
  <2>3. CASE TaskStep(l, "granted", "exec") /\ UNCHANGED verdict
    BY <2>2, <2>3, <1>6, <1>0, TaskStepKeepsShape DEF BeginRun, TaskPhases
  <2>4. CASE /\ TaskStep(l, "granted", "ended")
             /\ verdict' = [verdict EXCEPT ![l] = "raised"]
    BY <2>2, <2>4, <1>6, <1>0, TaskStepKeepsShape
       DEF BeginRun, TaskPhases, Verdicts
  <2> QED
    BY <2>3, <2>4, <1>6 DEF BeginRun
<1>7. CASE RunEnds(l)
  <2>1. durable' \in [Turns -> States] /\ threads' \in SUBSET Accepted
    BY <1>7, <1>0 DEF RunEnds, RecordEnd, Terminal
  <2> QED
    BY <2>1, <1>7, <1>0, TaskStepKeepsShape DEF RunEnds, TaskPhases
<1>8. CASE ObserveCancel(l)
  BY <1>8, <1>0, TaskStepKeepsShape DEF ObserveCancel, TaskPhases
<1>9. CASE AbortEnds(l)
  <2>1. durable' \in [Turns -> States] /\ threads' \in SUBSET Accepted
    BY <1>9, <1>0 DEF AbortEnds, RecordEnd, Terminal
  <2> QED
    BY <2>1, <1>9, <1>0, TaskStepKeepsShape DEF AbortEnds, TaskPhases
<1>10. CASE ReleasePermit(l)
  BY <1>10, <1>0, PermitMoves, TaskStepKeepsShape DEF ReleasePermit, GivePermit, TaskPhases
<1>11. CASE TaskDone(l)
  BY <1>11, <1>0, TaskStepKeepsShape DEF TaskDone, TaskPhases
<1> QED
  BY <1>1, <1>2, <1>3, <1>4, <1>5, <1>6, <1>7, <1>8, <1>9, <1>10, <1>11

(* A worker that moves on to the next turn of a queue of its lane.         *)
LEMMA TakeNextKeepsShape ==
  ASSUME Shape, NEW l \in Sessions, NEW q \in Seq(Turns),
         \A t \in ToSet(q) : t \in Accepted /\ LaneOf(t) = l,
         TakeNext(l, q),
         mailbox' \in [Sessions -> Seq(Turns)],
         \A k \in Sessions : ToSet(mailbox'[k]) \subseteq ToSet(mailbox[k]),
         merged' \in [Turns -> Seq(Turns)],
         \A h \in Turns : ToSet(merged'[h]) \subseteq ToSet(merged[h]),
         future' \in [Turns -> Verdicts \cup {"none", "open"}],
         \A t \in Turns : future'[t] = "none" <=> future[t] = "none",
         UNCHANGED <<accepted, req, cancelReq, finalizers, durable, threads,
                     free, shutdown>>
  PROVE  Shape'
<1>1. q # <<>> => /\ Tail(q) \in Seq(Turns) /\ Head(q) \in Turns
                  /\ ToSet(Tail(q)) \subseteq ToSet(q) /\ Head(q) \in ToSet(q)
  BY TailElements
<1>2. NoTurn \notin Turns
  BY NoTurnAssumption DEF Turns
<1>3. TypeOK'
  <2>1. /\ pending' \in [Sessions -> Seq(Turns)]
        /\ running' \in [Sessions -> Turns \cup {NoTurn}]
    <3>1. <<>> \in Seq(Turns)
      OBVIOUS
    <3>2. /\ pending \in [Sessions -> Seq(Turns)]
          /\ running \in [Sessions -> Turns \cup {NoTurn}]
      BY DEF Shape, TypeOK
    <3>3. CASE q = <<>>
      BY <3>1, <3>2, <3>3 DEF TakeNext
    <3>4. CASE q # <<>>
      BY ZenonT(60), <1>1, <3>2, <3>4 DEF TakeNext
    <3> QED
      BY <3>3, <3>4
  <2>2. /\ worker' \in [Sessions -> {"idle", "ready", "await"}]
        /\ task' \in [Sessions -> TaskPhases]
        /\ verdict' \in [Sessions -> Verdicts \cup {"none"}]
    BY DEF Shape, TypeOK, TakeNext, TaskPhases
  <2> QED
    BY <2>1, <2>2 DEF Shape, TypeOK
<1>4. KnownRequests' /\ MergedKnown' /\ ThreadsKnown'
  BY DEF Shape, KnownRequests, MergedKnown, ThreadsKnown, Accepted
<1>5. LaneContents'
  <2>1. ToSet(pending'[l]) \subseteq ToSet(q)
    BY <1>1, EmptyElements DEF Shape, TypeOK, TakeNext
  <2>2. \A k \in Sessions \ {l} : pending'[k] = pending[k]
    BY DEF Shape, TypeOK, TakeNext
  <2> QED
    BY <2>1, <2>2 DEF Shape, LaneContents, Accepted, LaneOf
<1>6. LaneShape'
  BY SMTT(60), <1>1, <1>2 DEF Shape, TypeOK, LaneShape, TakeNext, Accepted, LaneOf
<1> QED
  BY <1>3, <1>4, <1>5, <1>6 DEF Shape

(* What a worker finds in its two queues when it moves on. *)
LEMMA LeftoverQueue ==
  ASSUME Shape, NEW l \in Sessions
  PROVE  /\ pending[l] \o mailbox[l] \in Seq(Turns)
         /\ ToSet(pending[l] \o mailbox[l]) = ToSet(pending[l]) \cup ToSet(mailbox[l])
         /\ \A t \in ToSet(pending[l] \o mailbox[l]) : t \in Accepted /\ LaneOf(t) = l
<1>1. pending[l] \in Seq(Turns) /\ mailbox[l] \in Seq(Turns)
  BY DEF Shape, TypeOK
<1>2. /\ pending[l] \o mailbox[l] \in Seq(Turns)
      /\ ToSet(pending[l] \o mailbox[l]) = ToSet(pending[l]) \cup ToSet(mailbox[l])
  BY <1>1, ConcatElements
<1> QED
  BY <1>2 DEF Shape, LaneContents

LEMMA WorkerStepsKeepShape ==
  ASSUME Shape, NEW l \in Sessions,
         WorkerStart(l) \/ SettleMerged(l) \/ WorkerNext(l) \/ WorkerRaised(l)
  PROVE  Shape'
<1> DEFINE h == running[l]
<1>1. CASE WorkerStart(l)
  BY <1>1, TakeNextKeepsShape DEF Shape, TypeOK, LaneContents, WorkerStart
<1>2. CASE SettleMerged(l)
  <2> DEFINE m == Head(merged[h])
  <2>1. h \in Turns
    BY <1>2, NoTurnAssumption DEF SettleMerged, Shape, TypeOK, LaneShape, Accepted
  <2>2. Tail(merged[h]) \in Seq(Turns) /\ m \in Turns
    BY <1>2, <2>1, TailElements DEF SettleMerged, Shape, TypeOK
  <2>3. TypeOK'
    BY ZenonT(60), <1>2, <2>2, <2>1 DEF SettleMerged, CompleteInjected, Shape, TypeOK, Terminal,
       lanes
  <2>4. LaneShape' /\ LaneContents' /\ ThreadsKnown'
    BY <1>2 DEF SettleMerged, lanes, Shape, LaneShape, LaneContents,
                ThreadsKnown, Accepted, LaneOf
  <2>5. m \in Accepted /\ ToSet(Tail(merged[h])) \subseteq ToSet(merged[h])
    BY <1>2, <2>1, TailElements DEF SettleMerged, Shape, TypeOK, MergedKnown
  <2>6. KnownRequests'
    BY <1>2, <2>2, <2>5 DEF SettleMerged, Shape, TypeOK, KnownRequests,
                            Accepted, Verdicts, Terminal
  <2>7. MergedKnown'
    BY <1>2, <2>5 DEF SettleMerged, Shape, TypeOK, MergedKnown, Accepted
  <2> QED
    BY <2>3, <2>4, <2>6, <2>7 DEF Shape
<1>3. CASE WorkerNext(l)
  <2>1. /\ mailbox' \in [Sessions -> Seq(Turns)]
        /\ \A k \in Sessions : ToSet(mailbox'[k]) \subseteq ToSet(mailbox[k])
    BY <1>3, EmptyElements DEF WorkerNext, Shape, TypeOK
  <2>2. /\ future' \in [Turns -> Verdicts \cup {"none", "open"}]
        /\ \A t \in Turns : future'[t] = "none" <=> future[t] = "none"
    BY <1>3 DEF WorkerNext, Shape, TypeOK, Verdicts, Terminal
  <2>3. /\ merged' \in [Turns -> Seq(Turns)]
        /\ \A k \in Turns : ToSet(merged'[k]) \subseteq ToSet(merged[k])
    BY <1>3, EmptySeq, EmptyElements DEF WorkerNext, Shape, TypeOK
  <2> QED
    BY <1>3, <2>1, <2>2, <2>3, LeftoverQueue, TakeNextKeepsShape DEF WorkerNext
<1>4. CASE WorkerRaised(l)
  <2>1. /\ mailbox' \in [Sessions -> Seq(Turns)]
        /\ \A k \in Sessions : ToSet(mailbox'[k]) \subseteq ToSet(mailbox[k])
    BY <1>4, EmptyElements DEF WorkerRaised, Shape, TypeOK
  <2>2. /\ future' \in [Turns -> Verdicts \cup {"none", "open"}]
        /\ \A t \in Turns : future'[t] = "none" <=> future[t] = "none"
    BY <1>4 DEF WorkerRaised, Shape, TypeOK, Verdicts, Terminal
  <2>3. /\ merged' \in [Turns -> Seq(Turns)]
        /\ \A k \in Turns : ToSet(merged'[k]) \subseteq ToSet(merged[k])
    BY <1>4, EmptySeq, EmptyElements DEF WorkerRaised, Shape, TypeOK
  <2> QED
    BY <1>4, <2>1, <2>2, <2>3, LeftoverQueue, TakeNextKeepsShape DEF WorkerRaised
<1> QED
  BY <1>1, <1>2, <1>3, <1>4

LEMMA SubmitKeepsShape ==
  ASSUME Shape, NEW r \in Requests, Submit(r)
  PROVE  Shape'
<1> DEFINE t == accepted + 1
           l == r.session
<1>1. /\ t \in Turns /\ t \notin Accepted /\ l \in Sessions
      /\ Accepted' = Accepted \cup {t}
      /\ \A u \in Accepted : u \in Turns /\ u # t
  BY MaxTurnsAssumption DEF Submit, Turns, Shape, TypeOK, Requests, Accepted
<1>2. /\ req' = [req EXCEPT ![t] = r] /\ LaneSubmit(t, l, r.busy)
      /\ req'[t] = r /\ \A u \in Accepted : req'[u] = req[u]
  BY <1>1 DEF Submit, Shape, TypeOK
<1>3. /\ pending' \in [Sessions -> Seq(Turns)]
      /\ mailbox' \in [Sessions -> Seq(Turns)]
      /\ \A k \in Sessions :
           /\ ToSet(pending'[k]) \subseteq ToSet(pending[k]) \cup (IF k = l THEN {t} ELSE {})
           /\ ToSet(mailbox'[k]) \subseteq ToSet(mailbox[k]) \cup (IF k = l THEN {t} ELSE {})
  <2>1. pending[l] \in Seq(Turns) /\ mailbox[l] \in Seq(Turns)
    BY <1>1 DEF Shape, TypeOK
  <2>2. /\ Append(pending[l], t) \in Seq(Turns)
        /\ ToSet(Append(pending[l], t)) = ToSet(pending[l]) \cup {t}
        /\ Append(mailbox[l], t) \in Seq(Turns)
        /\ ToSet(Append(mailbox[l], t)) = ToSet(mailbox[l]) \cup {t}
    BY <1>1, <2>1, AppendElements
  <2>3. /\ <<t>> \o pending[l] \in Seq(Turns)
        /\ ToSet(<<t>> \o pending[l]) = ToSet(pending[l]) \cup {t}
    BY <1>1, <2>1, PushElements
  <2> HIDE DEF t, l
  <2>4. CASE SubmitInject(t, l)
    BY <2>4, <2>2, <1>1 DEF SubmitInject, Shape, TypeOK
  <2>5. CASE SubmitInterrupt(t, l)
    BY <2>5, <2>3, <1>1 DEF SubmitInterrupt, Shape, TypeOK
  <2>6. CASE SubmitAppend(t, l)
    BY <2>6, <2>2, <1>1 DEF SubmitAppend, Shape, TypeOK
  <2> QED
    BY <1>2, <2>4, <2>5, <2>6 DEF LaneSubmit
<1>4. TypeOK'
  <2>1. /\ accepted' \in 0..MaxTurns
        /\ req' \in [Turns -> Requests \cup {NoTurn}]
        /\ future' \in [Turns -> Verdicts \cup {"none", "open"}]
        /\ durable' \in [Turns -> Terminal \cup {"none", "accepted", "running"}]
    BY <1>1, MaxTurnsAssumption DEF Submit, Shape, TypeOK, Turns
  <2>2. worker' \in [Sessions -> {"idle", "ready", "await"}]
    <3> HIDE DEF t, l
    <3>1. worker \in [Sessions -> {"idle", "ready", "await"}]
      BY DEF Shape, TypeOK
    <3>2. \/ worker' = worker
          \/ worker' = [worker EXCEPT ![l] = IF @ = "idle" THEN "ready" ELSE @]
      BY <1>2 DEF LaneSubmit, SubmitInject, SubmitInterrupt, SubmitAppend
    <3> QED
      BY <3>1, <3>2, <1>1
  <2>3. cancelReq' \in SUBSET Turns
    <3>1. TaskLive(l) => running[l] \in Turns
      BY <1>1 DEF TaskLive, Shape, TypeOK, LaneShape
    <3> QED
      BY <1>1, <1>2, <3>1 DEF LaneSubmit, SubmitInject, SubmitInterrupt, SubmitAppend,
                        Shape, TypeOK
  <2> QED
    BY <2>1, <2>2, <2>3, <1>3 DEF Submit, Shape, TypeOK
<1>5. KnownRequests'
  BY <1>1, <1>2 DEF Submit, Shape, TypeOK, KnownRequests
<1>6. LaneShape'
  <2>1. /\ UNCHANGED <<running, task, verdict>>
        /\ \A k \in Sessions : worker'[k] = "await" <=> worker[k] = "await"
    BY <1>2 DEF Submit, LaneSubmit, SubmitInject, SubmitInterrupt, SubmitAppend,
                Shape, TypeOK
  <2> QED
    BY <2>1, <1>1, <1>2 DEF Shape, LaneShape, LaneOf
<1>7. LaneContents'
  BY <1>1, <1>2, <1>3 DEF Shape, LaneContents, LaneOf
<1>8. MergedKnown' /\ ThreadsKnown'
  BY <1>1 DEF Submit, Shape, MergedKnown, ThreadsKnown
<1> QED
  BY <1>4, <1>5, <1>6, <1>7, <1>8 DEF Shape

LEMMA ClientStepsKeepShape ==
  ASSUME Shape,
         \/ \E t \in Turns : TurnStep(t)
         \/ \E l \in Sessions : CancelSession(l)
         \/ BeginShutdown \/ DrainLanes \/ EndGrace \/ JoinAll \/ Closed
  PROVE  Shape'
<1>1. ASSUME NEW t \in Turns, CancelQueued(t)
      PROVE  Shape'
  <2> DEFINE l == LaneOf(t)
  <2>1. l \in Sessions
    BY <1>1 DEF CancelQueued, Shape, KnownRequests, LaneOf, Requests
  <2>2. pending[l] \in Seq(Turns) /\ mailbox[l] \in Seq(Turns)
    BY <2>1 DEF Shape, TypeOK
  <2>3. /\ \A i \in DOMAIN pending[l] :
             /\ RemoveAt(pending[l], i) \in Seq(Turns)
             /\ ToSet(RemoveAt(pending[l], i)) \subseteq ToSet(pending[l])
        /\ \A i \in DOMAIN mailbox[l] :
             /\ RemoveAt(mailbox[l], i) \in Seq(Turns)
             /\ ToSet(RemoveAt(mailbox[l], i)) \subseteq ToSet(mailbox[l])
    BY <2>2, RemoveElements
  <2> HIDE DEF l
  <2>4. /\ pending' \in [Sessions -> Seq(Turns)]
        /\ mailbox' \in [Sessions -> Seq(Turns)]
        /\ \A k \in Sessions : /\ ToSet(pending'[k]) \subseteq ToSet(pending[k])
                               /\ ToSet(mailbox'[k]) \subseteq ToSet(mailbox[k])
    BY <1>1, <2>1, <2>3 DEF CancelQueued, Shape, TypeOK, l
  <2> QED
    BY <1>1, <2>4 DEF CancelQueued, Shape, TypeOK, KnownRequests, LaneShape,
                      LaneContents, MergedKnown, ThreadsKnown, Accepted, LaneOf
<1>2. ASSUME NEW t \in Turns, FinishCancel(t)
      PROVE  Shape'
  <2>1. /\ future' \in [Turns -> Verdicts \cup {"none", "open"}]
        /\ \A u \in Turns : future'[u] = "none" <=> future[u] = "none"
        /\ finalizers' \in SUBSET Turns
    BY <1>2 DEF FinishCancel, Shape, TypeOK, Verdicts, Terminal
  <2>2. durable' \in [Turns -> Terminal \cup {"none", "accepted", "running"}]
    BY <1>2 DEF FinishCancel, ExecutorCancel, Shape, TypeOK, Terminal
  <2> QED
    BY <1>2, <2>1, <2>2 DEF FinishCancel, lanes, Shape, TypeOK, KnownRequests,
       LaneShape, LaneContents, MergedKnown, ThreadsKnown, Accepted, LaneOf
<1>3. ASSUME NEW t \in Turns, Drain(t)
      PROVE  Shape'
  <2> DEFINE l == LaneOf(t)
  <2>1. /\ t \in Accepted /\ l \in Sessions /\ running[l] = t
        /\ mailbox[l] \in Seq(Turns) /\ merged[t] \in Seq(Turns)
    BY <1>3 DEF Drain, MayDrain, Shape, TypeOK, ThreadsKnown, KnownRequests,
                LaneOf, Requests
  <2>2. /\ merged[t] \o mailbox[l] \in Seq(Turns)
        /\ ToSet(merged[t] \o mailbox[l]) = ToSet(merged[t]) \cup ToSet(mailbox[l])
    BY <2>1, ConcatElements
  <2> HIDE DEF l
  <2>3. /\ merged' \in [Turns -> Seq(Turns)] /\ mailbox' \in [Sessions -> Seq(Turns)]
        /\ \A k \in Sessions : ToSet(mailbox'[k]) \subseteq ToSet(mailbox[k])
        /\ \A k \in Turns : ToSet(merged'[k]) \subseteq
                               ToSet(merged[k]) \cup ToSet(mailbox[l])
    BY <1>3, <2>1, <2>2, EmptySeq, EmptyElements DEF Drain, Shape, TypeOK, l
  <2>4. MergedKnown'
    BY <1>3, <2>1, <2>3 DEF Drain, Shape, MergedKnown, LaneContents, Accepted
  <2> QED
    BY <1>3, <2>3, <2>4 DEF Drain, Shape, TypeOK, KnownRequests, LaneShape,
                      LaneContents, ThreadsKnown, Accepted, LaneOf
<1>4. ASSUME NEW t \in Turns, CancelRunning(t) \/ ThreadExit(t)
      PROVE  Shape'
  <2>1. cancelReq' \in SUBSET Turns /\ threads' \in SUBSET threads
    BY <1>4 DEF CancelRunning, ThreadExit, Shape, TypeOK
  <2>2. UNCHANGED <<accepted, req, lanes, merged, future, finalizers, durable,
                    free, shutdown>>
    BY <1>4 DEF CancelRunning, ThreadExit
  <2> QED
    BY <2>1, <2>2 DEF lanes, Shape, TypeOK, KnownRequests, LaneShape,
       LaneContents, MergedKnown, ThreadsKnown, Accepted, LaneOf
<1>5. ASSUME NEW L \in SUBSET Sessions, DrainPending(L),
             cancelReq' \in SUBSET Turns,
             shutdown' \in {"up", "sealed", "grace", "joining", "closed"},
             UNCHANGED <<accepted, req, running, worker, task, verdict, merged,
                         future, durable, threads, free>>
      PROVE  Shape'
  <2>1. QueuedIn(L) \subseteq Turns
    <3> SUFFICES ASSUME NEW l \in L, NEW t \in ToSet(pending[l]) \cup ToSet(mailbox[l])
                 PROVE  t \in Turns
      BY DEF QueuedIn
    <3>1. l \in Sessions
      BY <1>5
    <3> QED
      BY <3>1, AcceptedAreTurns DEF Shape, LaneContents
  <2>2. /\ pending' \in [Sessions -> Seq(Turns)]
        /\ mailbox' \in [Sessions -> Seq(Turns)]
        /\ \A k \in Sessions : /\ ToSet(pending'[k]) \subseteq ToSet(pending[k])
                               /\ ToSet(mailbox'[k]) \subseteq ToSet(mailbox[k])
    BY <1>5, EmptySeq, EmptyElements DEF DrainPending, Shape, TypeOK
  <2>3. finalizers' \in SUBSET Turns
    BY <1>5, <2>1 DEF DrainPending, Shape, TypeOK
  <2> QED
    BY <1>5, <2>2, <2>3 DEF Shape, TypeOK, KnownRequests, LaneShape,
                      LaneContents, MergedKnown, ThreadsKnown, Accepted, LaneOf
<1>6. \A L \in SUBSET Sessions : RunningIn(L) \subseteq Turns
  BY AcceptedAreTurns DEF RunningIn, Shape
<1>7. ASSUME NEW l \in Sessions, CancelSession(l)
      PROVE  Shape'
  BY <1>7, <1>6, <1>5 DEF CancelSession, Shape, TypeOK
<1>8. CASE DrainLanes
  BY <1>8, <1>5 DEF DrainLanes, Shape, TypeOK
<1>9. CASE BeginShutdown \/ EndGrace \/ JoinAll \/ Closed
  <2>1. cancelReq' \in SUBSET Turns
        /\ shutdown' \in {"up", "sealed", "grace", "joining", "closed"}
    BY <1>9, <1>6 DEF BeginShutdown, EndGrace, JoinAll, Closed, vars, Shape, TypeOK
  <2>2. UNCHANGED <<accepted, req, lanes, merged, future, finalizers, durable,
                    threads, free>>
    BY <1>9 DEF BeginShutdown, EndGrace, JoinAll, Closed, vars
  <2> QED
    BY <2>1, <2>2 DEF lanes, Shape, TypeOK, KnownRequests, LaneShape, LaneContents,
                      MergedKnown, ThreadsKnown, Accepted, LaneOf
<1> QED
  BY <1>1, <1>2, <1>3, <1>4, <1>7, <1>8, <1>9 DEF TurnStep

LEMMA InitShape ==
  Init => Shape
<1> SUFFICES ASSUME Init PROVE Shape
  OBVIOUS
<1>1. TypeOK
  BY MaxTurnsAssumption, CapacityAssumption
     DEF Init, TypeOK, TaskPhases, Verdicts, Terminal, Turns
<1>2. Accepted = {}
  BY DEF Init, Accepted
<1>3. KnownRequests /\ LaneShape /\ ThreadsKnown
  BY <1>2 DEF Init, KnownRequests, LaneShape, ThreadsKnown
<1>4. LaneContents /\ MergedKnown
  BY EmptyElements DEF Init, LaneContents, MergedKnown
<1> QED
  BY <1>1, <1>3, <1>4 DEF Shape

LEMMA NextKeepsShape ==
  Shape /\ [Next]_vars => Shape'
<1> SUFFICES ASSUME Shape, [Next]_vars PROVE Shape'
  OBVIOUS
<1>1. CASE \E r \in Requests : Submit(r)
  BY <1>1, SubmitKeepsShape
<1>2. CASE \E l \in Sessions : LaneStep(l)
  BY <1>2, WorkerStepsKeepShape, LaneTaskStepsKeepShape DEF LaneStep
<1>3. CASE \/ \E t \in Turns : TurnStep(t)
           \/ \E l \in Sessions : CancelSession(l)
           \/ BeginShutdown \/ DrainLanes \/ EndGrace \/ JoinAll \/ Closed
  BY <1>3, ClientStepsKeepShape
<1>4. CASE UNCHANGED vars
  BY <1>4 DEF vars, lanes, Shape, TypeOK, KnownRequests, LaneShape,
     LaneContents, MergedKnown, ThreadsKnown, Accepted, LaneOf
<1> QED
  BY <1>1, <1>2, <1>3, <1>4 DEF Next

(* The variables of the scheduler keep their types. *)
THEOREM TypeCorrect ==
  Spec => []TypeOK
<1>1. Shape => TypeOK
  BY DEF Shape
<1> QED
  BY <1>1, InitShape, NextKeepsShape, PTL DEF Spec

-----------------------------------------------------------------------------
(* Layer 2: the permits of the pools.                                      *)

(* Only the lanes of accepted turns hold permits, so finitely many do.     *)
LEMMA HoldersFinite ==
  ASSUME Shape, NEW c
  PROVE  IsFiniteSet(Holders(c))
<1> DEFINE turn == [l \in Holders(c) |-> running[l]]
<1>1. IsFiniteSet(Accepted)
  BY FS_Interval DEF Accepted, Shape, TypeOK
<1>2. \A l \in Holders(c) : running[l] \in Accepted /\ LaneOf(running[l]) = l
  BY DEF Holders, Holding, Shape, LaneShape
<1>3. turn \in Injection(Holders(c), Accepted)
  BY <1>2 DEF Injection, IsInjective
<1> QED
  BY <1>1, <1>3, FS_Injection

(* Steps that move no permit: the holders stay the same.                   *)
LEMMA SameHolders ==
  ASSUME PermitsBalance, UNCHANGED free,
         \A l \in Sessions : (task[l] \in Holding)' <=> task[l] \in Holding,
         \A l \in Sessions : task[l] \in Holding =>
           ClassOf(running[l])' = ClassOf(running[l])
  PROVE  PermitsBalance'
<1>1. \A c \in Classes : Holders(c)' = Holders(c)
  BY DEF Holders
<1> QED
  BY <1>1 DEF PermitsBalance

(* One lane takes a permit of its class.                                   *)
LEMMA HolderAdded ==
  ASSUME Shape, PermitsBalance, NEW l \in Sessions,
         running[l] # NoTurn, task[l] \notin Holding,
         TakePermit(l), UNCHANGED <<running, req>>,
         \A k \in Sessions : (task[k] \in Holding)' <=> task[k] \in Holding \/ k = l
  PROVE  PermitsBalance'
<1> DEFINE c == ClassOf(running[l])
<1>1. c \in Classes
  BY AcceptedAreTurns DEF Shape, LaneShape, KnownRequests, ClassOf, Requests
<1>2. \A k \in Sessions : ClassOf(running[k])' = ClassOf(running[k])
  BY DEF ClassOf
<1>3. ASSUME NEW d \in Classes
      PROVE  free'[d] + Cardinality(Holders(d)') = Capacity[d]
  <2>1. free[d] + Cardinality(Holders(d)) = Capacity[d]
    BY DEF PermitsBalance
  <2>2. /\ Cardinality(Holders(d)) \in Nat /\ IsFiniteSet(Holders(d))
        /\ free[d] \in Nat /\ Capacity[d] \in Nat
    BY HoldersFinite, FS_CardinalityType, CapacityAssumption DEF Shape, TypeOK
  <2>3. CASE d = c
    <3>1. Holders(d)' = Holders(d) \cup {l} /\ l \notin Holders(d)
      BY <1>2, <2>3 DEF Holders
    <3>2. Cardinality(Holders(d) \cup {l}) = Cardinality(Holders(d)) + 1
      BY <2>2, <3>1, FS_AddElement
    <3>3. free'[d] = free[d] - 1
      BY <1>1, <2>3 DEF TakePermit, Shape, TypeOK
    <3> QED
      BY <2>1, <2>2, <3>1, <3>2, <3>3
  <2>4. CASE d # c
    <3>1. Holders(d)' = Holders(d) /\ free'[d] = free[d]
      BY <1>1, <1>2, <2>4 DEF Holders, TakePermit, Shape, TypeOK
    <3> QED
      BY <2>1, <3>1
  <2> QED
    BY <2>3, <2>4
<1> QED
  BY <1>3 DEF PermitsBalance

(* One lane gives its permit back.                                         *)
LEMMA HolderRemoved ==
  ASSUME Shape, PermitsBalance, NEW l \in Sessions,
         running[l] # NoTurn, task[l] \in Holding,
         GivePermit(l), UNCHANGED <<running, req>>,
         \A k \in Sessions : (task[k] \in Holding)' <=> task[k] \in Holding /\ k # l
  PROVE  PermitsBalance'
<1> DEFINE c == ClassOf(running[l])
<1>1. c \in Classes
  BY AcceptedAreTurns DEF Shape, LaneShape, KnownRequests, ClassOf, Requests
<1>2. \A k \in Sessions : ClassOf(running[k])' = ClassOf(running[k])
  BY DEF ClassOf
<1>3. ASSUME NEW d \in Classes
      PROVE  free'[d] + Cardinality(Holders(d)') = Capacity[d]
  <2>1. free[d] + Cardinality(Holders(d)) = Capacity[d]
    BY DEF PermitsBalance
  <2>2. /\ Cardinality(Holders(d)) \in Nat /\ IsFiniteSet(Holders(d))
        /\ free[d] \in Nat /\ Capacity[d] \in Nat
    BY HoldersFinite, FS_CardinalityType, CapacityAssumption DEF Shape, TypeOK
  <2>3. CASE d = c
    <3>1. Holders(d)' = Holders(d) \ {l} /\ l \in Holders(d)
      BY <1>2, <2>3 DEF Holders
    <3>2. Cardinality(Holders(d) \ {l}) = Cardinality(Holders(d)) - 1
      BY <2>2, <3>1, FS_RemoveElement
    <3>3. free'[d] = free[d] + 1
      BY <1>1, <2>3 DEF GivePermit, Shape, TypeOK
    <3> QED
      BY <2>1, <2>2, <3>1, <3>2, <3>3
  <2>4. CASE d # c
    <3>1. Holders(d)' = Holders(d) /\ free'[d] = free[d]
      BY <1>1, <1>2, <2>4 DEF Holders, GivePermit, Shape, TypeOK
    <3> QED
      BY <2>1, <3>1
  <2> QED
    BY <2>3, <2>4
<1> QED
  BY <1>3 DEF PermitsBalance

LEMMA NextKeepsPermits ==
  Shape /\ PermitsBalance /\ [Next]_vars => PermitsBalance'
<1> SUFFICES ASSUME Shape, PermitsBalance, [Next]_vars PROVE PermitsBalance'
  OBVIOUS
<1>0. \A k \in Sessions : task[k] \in Holding =>
        /\ running[k] \in Accepted /\ running[k] \in Turns
        /\ running[k] # NoTurn
  BY AcceptedAreTurns DEF Holding, Shape, LaneShape
<1>1. ASSUME NEW r \in Requests, Submit(r)
      PROVE  PermitsBalance'
  BY <1>1, <1>0, SameHolders DEF Submit, Accepted, Shape, TypeOK, ClassOf
<1>2. ASSUME NEW l \in Sessions, Acquire(l)
      PROVE  PermitsBalance'
  BY <1>2, HolderAdded DEF Acquire, TaskStep, Holding, Shape, TypeOK, LaneShape
<1>3. ASSUME NEW l \in Sessions, AbandonGrant(l) \/ ReleasePermit(l)
      PROVE  PermitsBalance'
  BY <1>3, HolderRemoved DEF AbandonGrant, ReleasePermit, TaskStep, Holding, Shape, TypeOK,
     LaneShape
<1>4. ASSUME NEW l \in Sessions,
             \/ TaskStart(l) \/ AbandonWait(l) \/ Withdrawn(l) \/ BeginRun(l)
             \/ RunEnds(l) \/ ObserveCancel(l) \/ AbortEnds(l) \/ TaskDone(l)
      PROVE  PermitsBalance'
  <2>1. \A k \in Sessions : (task[k] \in Holding)' <=> task[k] \in Holding
    BY <1>4 DEF TaskStart, AbandonWait, Withdrawn, BeginRun, RunEnds,
       ObserveCancel, AbortEnds, TaskDone, TaskStep, Holding, Shape, TypeOK
  <2>2. UNCHANGED <<running, req, free>>
    BY <1>4 DEF TaskStart, AbandonWait, Withdrawn, BeginRun, RunEnds,
       ObserveCancel, AbortEnds, TaskDone, TaskStep
  <2> QED
    BY <2>1, <2>2, SameHolders DEF ClassOf
<1>5. ASSUME NEW l \in Sessions,
             WorkerStart(l) \/ WorkerNext(l) \/ WorkerRaised(l)
      PROVE  PermitsBalance'
  <2>1. task[l] \notin Holding
    BY <1>5 DEF WorkerStart, WorkerNext, WorkerRaised, Holding, Shape, LaneShape
  <2>2. \E q : TakeNext(l, q)
    BY <1>5 DEF WorkerStart, WorkerNext, WorkerRaised
  <2>3. /\ \A k \in Sessions : (task[k] \in Holding)' <=> task[k] \in Holding
        /\ \A k \in Sessions \ {l} : running'[k] = running[k]
    BY <2>1, <2>2 DEF TakeNext, Holding, Shape, TypeOK
  <2>4. UNCHANGED <<req, free>>
    BY <1>5 DEF WorkerStart, WorkerNext, WorkerRaised
  <2> QED
    BY <2>1, <2>3, <2>4, SameHolders DEF ClassOf
<1>6. ASSUME \/ \E l \in Sessions : SettleMerged(l) \/ CancelSession(l)
             \/ \E t \in Turns : TurnStep(t)
             \/ BeginShutdown \/ DrainLanes \/ EndGrace \/ JoinAll \/ Closed
             \/ UNCHANGED vars
      PROVE  PermitsBalance'
  <2>1. UNCHANGED <<task, running, req, free>>
    BY <1>6 DEF SettleMerged, CancelSession, TurnStep, CancelQueued, lanes, vars,
       CancelRunning, FinishCancel, Drain, ThreadExit, BeginShutdown, DrainLanes,
       EndGrace, JoinAll, Closed
  <2> QED
    BY <2>1, SameHolders DEF ClassOf
<1> QED
  BY <1>1, <1>2, <1>3, <1>4, <1>5, <1>6 DEF Next, LaneStep

(* No permit of a pool is lost or handed out twice. *)
THEOREM PermitsSafe ==
  Spec => []PermitsBalance
<1>1. Init => PermitsBalance
  <2> SUFFICES ASSUME Init PROVE PermitsBalance
    OBVIOUS
  <2>1. \A c \in Classes : Holders(c) = {}
    BY DEF Init, Holders, Holding
  <2>2. Cardinality({}) = 0
    BY FS_EmptySet
  <2> SUFFICES ASSUME NEW c \in Classes
               PROVE  free[c] + Cardinality(Holders(c)) = Capacity[c]
    BY DEF PermitsBalance
  <2>3. free[c] = Capacity[c] /\ Capacity[c] \in Nat /\ Cardinality(Holders(c)) = 0
    BY <2>1, <2>2, CapacityAssumption DEF Init
  <2> QED
    BY <2>3
<1> QED
  BY <1>1, InitShape, NextKeepsShape, NextKeepsPermits, PTL DEF Spec

-----------------------------------------------------------------------------
(* Layer 3: who holds an unresolved turn.                                  *)

Held(t) == Queued(t) \/ Boxed(t) \/ Served(t) \/ Hosted(t) \/ Withdrawing(t)

Unrepeated ==
  /\ \A l \in Sessions : IsInjective(pending[l]) /\ IsInjective(mailbox[l])
  /\ \A h \in Turns : IsInjective(merged[h])

(* Merged turns ride on the turn their lane runs now. *)
HostsRun ==
  \A h \in Turns : \A t \in ToSet(merged[h]) : running[LaneOf(t)] = h

HeldIsOpen == \A t \in Accepted : Held(t) <=> future[t] = "open"

FinalizersKnown == finalizers \subseteq Accepted

(* Nothing is injected into a lane at rest. *)
IdleMailbox == \A l \in Sessions : running[l] = NoTurn => mailbox[l] = <<>>

Owners == /\ Unrepeated /\ HostsRun /\ HeldIsOpen /\ FinalizersKnown
          /\ IdleMailbox /\ OwnersAreExclusive

ownerVars == <<accepted, req, pending, mailbox, running, merged, future,
               finalizers>>

LEMMA IdleKeepsOwners ==
  ASSUME Owners, UNCHANGED ownerVars
  PROVE  Owners'
  BY DEF Owners, ownerVars, Unrepeated, HostsRun, HeldIsOpen, FinalizersKnown,
     IdleMailbox, OwnersAreExclusive, Held, Queued, Boxed, Served, Hosted, Withdrawing,
     Accepted, LaneOf

(* What the layers say about one accepted turn. *)
LEMMA TurnFacts ==
  ASSUME Shape, NEW t \in Accepted
  PROVE  /\ t \in Turns /\ LaneOf(t) \in Sessions /\ t # NoTurn
         /\ future[t] # "none"
         /\ pending[LaneOf(t)] \in Seq(Turns) /\ mailbox[LaneOf(t)] \in Seq(Turns)
         /\ running[LaneOf(t)] \in Turns \cup {NoTurn}
  BY AcceptedAreTurns DEF Shape, TypeOK, KnownRequests, LaneOf, Requests

LEMMA SubmitKeepsOwners ==
  ASSUME Shape, Owners, NEW r \in Requests, Submit(r)
  PROVE  Owners'
<1> DEFINE l == r.session
<1>0. PICK t \in Turns : t = accepted + 1
  BY DEF Submit
<1>1. /\ t \in Turns /\ t \notin Accepted /\ l \in Sessions
      /\ Accepted' = Accepted \cup {t}
      /\ \A u \in Accepted : u \in Turns /\ u # t
  BY <1>0, MaxTurnsAssumption DEF Submit, Turns, Shape, TypeOK, Requests, Accepted
<1>2. /\ LaneSubmit(t, l, r.busy)
      /\ LaneOf(t)' = l /\ \A u \in Accepted : LaneOf(u)' = LaneOf(u)
      /\ UNCHANGED <<running, merged, finalizers>>
      /\ future'[t] = "open" /\ \A u \in Accepted : future'[u] = future[u]
  BY <1>0, <1>1 DEF Submit, Shape, TypeOK, LaneOf
<1>3. /\ \A k \in Sessions : pending[k] \in Seq(Turns) /\ mailbox[k] \in Seq(Turns)
      /\ t \notin ToSet(pending[l]) /\ t \notin ToSet(mailbox[l])
      /\ \A k \in Sessions : running[k] # t
      /\ \A h \in Turns : t \notin ToSet(merged[h])
      /\ t \notin finalizers
  BY <1>1, AcceptedAreTurns DEF Shape, TypeOK, LaneContents, LaneShape,
     MergedKnown, Owners, FinalizersKnown
<1>4. /\ IsInjective(pending[l]) /\ IsInjective(mailbox[l])
      /\ ToSet(Append(pending[l], t)) = ToSet(pending[l]) \cup {t}
      /\ ToSet(Append(mailbox[l], t)) = ToSet(mailbox[l]) \cup {t}
      /\ ToSet(<<t>> \o pending[l]) = ToSet(pending[l]) \cup {t}
      /\ IsInjective(Append(pending[l], t)) /\ IsInjective(Append(mailbox[l], t))
      /\ IsInjective(<<t>> \o pending[l])
  BY <1>1, <1>3, AppendElements, PushElements DEF Owners, Unrepeated
<1> HIDE DEF l
<1>5. /\ \A k \in Sessions : IsInjective(pending'[k]) /\ IsInjective(mailbox'[k])
      /\ \A k \in Sessions \ {l} : pending'[k] = pending[k] /\ mailbox'[k] = mailbox[k]
      /\ \/ /\ ToSet(pending'[l]) = ToSet(pending[l]) \cup {t}
            /\ ToSet(mailbox'[l]) = ToSet(mailbox[l])
         \/ /\ ToSet(pending'[l]) = ToSet(pending[l])
            /\ ToSet(mailbox'[l]) = ToSet(mailbox[l]) \cup {t}
  <2>0. /\ pending \in [Sessions -> Seq(Turns)] /\ mailbox \in [Sessions -> Seq(Turns)]
        /\ \A k \in Sessions : IsInjective(pending[k]) /\ IsInjective(mailbox[k])
    BY DEF Shape, TypeOK, Owners, Unrepeated
  <2>1. CASE SubmitInject(t, l)
    BY <2>0, <2>1, <1>1, <1>4 DEF SubmitInject
  <2>2. CASE SubmitInterrupt(t, l)
    BY <2>0, <2>2, <1>1, <1>4 DEF SubmitInterrupt
  <2>3. CASE SubmitAppend(t, l)
    BY <2>0, <2>3, <1>1, <1>4 DEF SubmitAppend
  <2> QED
    BY <1>2, <2>1, <2>2, <2>3 DEF LaneSubmit
<1>6. Unrepeated'
  BY <1>2, <1>5 DEF Owners, Unrepeated
<1>7. HostsRun'
  BY <1>1, <1>2 DEF Owners, HostsRun, Shape, MergedKnown
<1>8. FinalizersKnown'
  BY <1>1, <1>2 DEF Owners, FinalizersKnown
<1>9. ASSUME NEW u \in Accepted
      PROVE  /\ Queued(u)' <=> Queued(u)
             /\ Boxed(u)' <=> Boxed(u)
             /\ Served(u)' <=> Served(u)
             /\ Hosted(u)' <=> Hosted(u)
             /\ Withdrawing(u)' <=> Withdrawing(u)
  BY <1>1, <1>2, <1>5, TurnFacts
     DEF Queued, Boxed, Served, Hosted, Withdrawing
<1>10. ASSUME NEW u \in Accepted' \ Accepted
       PROVE  /\ Queued(u)' \/ Boxed(u)'
              /\ ~(Queued(u)' /\ Boxed(u)')
              /\ ~Served(u)' /\ ~Hosted(u)' /\ ~Withdrawing(u)'
              /\ future'[u] = "open"
  <2>1. u = t /\ LaneOf(u)' = l
    BY <1>1, <1>2, <1>10
  <2>2. /\ ~Served(u)' /\ ~Withdrawing(u)'
    BY <2>1, <1>1, <1>2, <1>3 DEF Served, Withdrawing
  <2>3. ~Hosted(u)'
    BY <2>1, <1>1, <1>2, <1>3 DEF Hosted
  <2>4. (Queued(u)' \/ Boxed(u)') /\ ~(Queued(u)' /\ Boxed(u)')
    BY <2>1, <1>1, <1>3, <1>5 DEF Queued, Boxed
  <2> QED
    BY <2>1, <2>2, <2>3, <2>4, <1>2
<1>11. HeldIsOpen'
  <2> SUFFICES ASSUME NEW u \in Accepted'
               PROVE  Held(u)' <=> future'[u] = "open"
    BY DEF HeldIsOpen
  <2>1. CASE u \in Accepted
    BY <2>1, <1>2, <1>9 DEF Owners, HeldIsOpen, Held
  <2>2. CASE u \notin Accepted
    BY <2>2, <1>10 DEF Held
  <2> QED
    BY <2>1, <2>2
<1>12. OwnersAreExclusive'
  BY <1>9, <1>10 DEF Owners, OwnersAreExclusive
<1>13. IdleMailbox'
  <2>1. SubmitInject(t, l) => running[l] # NoTurn
    <3>1. SubmitInject(t, l) => mailbox'[l] # mailbox[l]
      BY <1>1, <1>3, <1>4 DEF SubmitInject, Shape, TypeOK
    <3>2. /\ SubmitInterrupt(t, l) => mailbox' = mailbox
          /\ SubmitAppend(t, l) => mailbox' = mailbox
      BY DEF SubmitInterrupt, SubmitAppend
    <3> QED
      BY <3>1, <3>2, <1>1, <1>2 DEF LaneSubmit, TaskLive, Shape, LaneShape
  <2>2. \/ SubmitInject(t, l) \/ mailbox' = mailbox
    BY <1>2 DEF LaneSubmit, SubmitInterrupt, SubmitAppend
  <2>3. \A k \in Sessions : running'[k] = NoTurn => mailbox'[k] = mailbox[k]
    BY <2>1, <2>2, <1>2, <1>5
  <2> QED
    BY <2>3, <1>2 DEF Owners, IdleMailbox
<1> QED
  BY <1>6, <1>7, <1>8, <1>11, <1>12, <1>13 DEF Owners

(* A lane moves on: its running turn and the turns merged into it are      *)
(* resolved, the next turn leaves the queue q, which holds all of what was *)
(* pending or left in the mailbox.                                         *)
LEMMA TakeNextKeepsOwners ==
  ASSUME Shape, Owners, NEW l \in Sessions, NEW q \in Seq(Turns),
         IsInjective(q),
         ToSet(q) = ToSet(pending[l]) \cup ToSet(mailbox[l]),
         TakeNext(l, q),
         UNCHANGED <<accepted, req, finalizers>>,
         mailbox' = [mailbox EXCEPT ![l] = <<>>],
         \A t \in Accepted :
           IF LaneOf(t) = l /\ (Served(t) \/ Hosted(t)) THEN future'[t] # "open"
                                                       ELSE future'[t] = future[t],
         \A h \in Turns :
           \/ merged'[h] = merged[h] /\ (running[l] = h => merged[h] = <<>>)
           \/ merged'[h] = <<>> /\ running[l] = h
  PROVE  Owners'
<1>1. /\ pending \in [Sessions -> Seq(Turns)] /\ mailbox \in [Sessions -> Seq(Turns)]
      /\ running \in [Sessions -> Turns \cup {NoTurn}]
      /\ merged \in [Turns -> Seq(Turns)]
      /\ NoTurn \notin Turns /\ Accepted \subseteq Turns
  BY AcceptedAreTurns DEF Shape, TypeOK
<1>2. /\ Accepted' = Accepted /\ \A t \in Accepted : LaneOf(t)' = LaneOf(t)
      /\ UNCHANGED finalizers
  BY DEF Accepted, LaneOf
<1>3. /\ ToSet(mailbox'[l]) = {} /\ IsInjective(mailbox'[l])
      /\ \A k \in Sessions \ {l} : mailbox'[k] = mailbox[k] /\ pending'[k] = pending[k]
                                   /\ running'[k] = running[k]
  BY <1>1, EmptyElements DEF TakeNext
<1>4. /\ IsInjective(pending'[l])
      /\ \/ running'[l] = NoTurn /\ ToSet(q) = {} /\ ToSet(pending'[l]) = {}
         \/ /\ running'[l] \in ToSet(q)
            /\ ToSet(pending'[l]) = ToSet(q) \ {running'[l]}
  <2>1. CASE q = <<>>
    BY <2>1, <1>1, EmptyElements DEF TakeNext
  <2>2. CASE q # <<>>
    <3>1. /\ pending'[l] = Tail(q) /\ running'[l] = Head(q)
      BY <2>2, <1>1 DEF TakeNext
    <3>2. /\ ToSet(q) = ToSet(Tail(q)) \cup {Head(q)}
          /\ IsInjective(Tail(q)) /\ Head(q) \notin ToSet(Tail(q))
      BY <2>2, TailElements
    <3> QED
      BY <3>1, <3>2
  <2> QED
    BY <2>1, <2>2
<1>5. \A t \in ToSet(q) : t \in Accepted /\ LaneOf(t) = l /\ t # NoTurn
  BY <1>1 DEF Shape, LaneContents
<1>6. Unrepeated'
  BY <1>3, <1>4, EmptyElements DEF Owners, Unrepeated
<1>7. HostsRun'
  <2> SUFFICES ASSUME NEW h \in Turns, NEW t \in ToSet(merged'[h])
               PROVE  running'[LaneOf(t)'] = h
    BY DEF HostsRun
  <2>1. merged'[h] = merged[h] /\ running[l] # h
    BY EmptyElements
  <2>2. running[LaneOf(t)] = h /\ t \in Accepted
    BY <2>1 DEF Owners, HostsRun, Shape, MergedKnown
  <2>3. LaneOf(t) \in Sessions \ {l}
    BY <2>1, <2>2, TurnFacts
  <2> QED
    BY <2>2, <2>3, <1>2, <1>3
<1>8. FinalizersKnown'
  BY <1>2 DEF Owners, FinalizersKnown
<1>9. ASSUME NEW t \in Accepted, LaneOf(t) # l
      PROVE  /\ Queued(t)' <=> Queued(t)
             /\ Boxed(t)' <=> Boxed(t)
             /\ Served(t)' <=> Served(t)
             /\ Hosted(t)' <=> Hosted(t)
             /\ Withdrawing(t)' <=> Withdrawing(t)
             /\ future'[t] = future[t]
  <2>1. LaneOf(t) \in Sessions \ {l} /\ LaneOf(t)' = LaneOf(t)
    BY <1>2, <1>9, TurnFacts
  <2>2. /\ Queued(t)' <=> Queued(t)
        /\ Boxed(t)' <=> Boxed(t)
        /\ Served(t)' <=> Served(t)
        /\ Withdrawing(t)' <=> Withdrawing(t)
    BY <2>1, <1>2, <1>3 DEF Queued, Boxed, Served, Withdrawing
  <2>3. Hosted(t)' <=> Hosted(t)
    <3> DEFINE h == running[LaneOf(t)]
    <3>1. h \in Turns => h # running[l]
      BY <2>1, <1>1 DEF Shape, LaneShape
    <3>2. h \in Turns => merged'[h] = merged[h]
      BY <3>1
    <3> QED
      BY <2>1, <3>2, <1>3 DEF Hosted
  <2> QED
    BY <2>2, <2>3, <1>9
<1>10. ASSUME NEW t \in Accepted, LaneOf(t) = l
       PROVE  /\ ~Boxed(t)' /\ ~Hosted(t)'
              /\ Withdrawing(t)' <=> Withdrawing(t)
              /\ (Queued(t)' \/ Served(t)') <=> (Queued(t) \/ Boxed(t))
              /\ ~(Queued(t)' /\ Served(t)')
              /\ IF Served(t) \/ Hosted(t) THEN future'[t] # "open"
                                           ELSE future'[t] = future[t]
  <2>1. LaneOf(t)' = l
    BY <1>2, <1>10
  <2>2. ~Boxed(t)' /\ (Withdrawing(t)' <=> Withdrawing(t))
    BY <2>1, <1>2, <1>3 DEF Boxed, Withdrawing
  <2>3. /\ (Queued(t)' \/ Served(t)') <=> t \in ToSet(q)
        /\ ~(Queued(t)' /\ Served(t)')
    BY <2>1, <1>1, <1>4, <1>5 DEF Queued, Served
  <2>4. t \in ToSet(q) <=> Queued(t) \/ Boxed(t)
    BY <1>10 DEF Queued, Boxed
  <2>5. ~Hosted(t)'
    <3> SUFFICES ASSUME running'[l] \in Turns, t \in ToSet(merged'[running'[l]])
                 PROVE  FALSE
      BY <2>1 DEF Hosted
    <3>1. merged'[running'[l]] = merged[running'[l]] /\ running[l] # running'[l]
      BY EmptyElements
    <3>2. running[LaneOf(t)] = running'[l]
      BY <3>1 DEF Owners, HostsRun
    <3> QED
      BY <3>1, <3>2, <1>10
  <2> QED
    BY <2>2, <2>3, <2>4, <2>5, <1>10
<1>11. HeldIsOpen'
  <2> SUFFICES ASSUME NEW t \in Accepted
               PROVE  Held(t)' <=> future'[t] = "open"
    BY <1>2 DEF HeldIsOpen
  <2>1. /\ Held(t) <=> future[t] = "open"
        /\ Queued(t) => ~Boxed(t) /\ ~Served(t) /\ ~Hosted(t) /\ ~Withdrawing(t)
        /\ Boxed(t)  => ~Served(t) /\ ~Hosted(t) /\ ~Withdrawing(t)
        /\ Served(t) => ~Hosted(t) /\ ~Withdrawing(t)
        /\ Hosted(t) => ~Withdrawing(t)
    BY DEF Owners, HeldIsOpen, OwnersAreExclusive
  <2>2. CASE LaneOf(t) # l
    BY <2>1, <2>2, <1>9 DEF Held
  <2>3. CASE LaneOf(t) = l
    BY <2>1, <2>3, <1>10 DEF Held
  <2> QED
    BY <2>2, <2>3
<1>12. OwnersAreExclusive'
  <2> SUFFICES ASSUME NEW t \in Accepted
               PROVE  /\ Queued(t)' => /\ ~Boxed(t)' /\ ~Served(t)'
                                       /\ ~Hosted(t)' /\ ~Withdrawing(t)'
                      /\ Boxed(t)'  => ~Served(t)' /\ ~Hosted(t)' /\ ~Withdrawing(t)'
                      /\ Served(t)' => ~Hosted(t)' /\ ~Withdrawing(t)'
                      /\ Hosted(t)' => ~Withdrawing(t)'
    BY <1>2 DEF OwnersAreExclusive
  <2>1. /\ Queued(t) => ~Boxed(t) /\ ~Served(t) /\ ~Hosted(t) /\ ~Withdrawing(t)
        /\ Boxed(t)  => ~Served(t) /\ ~Hosted(t) /\ ~Withdrawing(t)
        /\ Served(t) => ~Hosted(t) /\ ~Withdrawing(t)
        /\ Hosted(t) => ~Withdrawing(t)
    BY DEF Owners, OwnersAreExclusive
  <2>2. CASE LaneOf(t) # l
    BY <2>1, <2>2, <1>9
  <2>3. CASE LaneOf(t) = l
    BY <2>1, <2>3, <1>10
  <2> QED
    BY <2>2, <2>3
<1>13. IdleMailbox'
  BY <1>1, <1>3 DEF Owners, IdleMailbox
<1> QED
  BY <1>6, <1>7, <1>8, <1>11, <1>12, <1>13 DEF Owners

(* The worker's steps. *)
LEMMA LaneMovesOnKeepsOwners ==
  ASSUME Shape, Owners, NEW l \in Sessions,
         WorkerStart(l) \/ WorkerNext(l) \/ WorkerRaised(l)
  PROVE  Owners'
<1>0. /\ pending \in [Sessions -> Seq(Turns)] /\ mailbox \in [Sessions -> Seq(Turns)]
      /\ merged \in [Turns -> Seq(Turns)] /\ NoTurn \notin Turns
      /\ future \in [Turns -> Verdicts \cup {"none", "open"}]
      /\ "open" \notin Verdicts /\ IsInjective(pending[l]) /\ IsInjective(mailbox[l])
      /\ \A t \in Accepted : t \in Turns
  BY AcceptedAreTurns DEF Shape, TypeOK, Owners, Unrepeated, Verdicts, Terminal
<1>1. CASE WorkerStart(l)
  <2>1. running[l] = NoTurn /\ mailbox[l] = <<>>
    BY <1>1 DEF WorkerStart, Shape, LaneShape, Owners, IdleMailbox
  <2>2. /\ mailbox' = [mailbox EXCEPT ![l] = <<>>]
        /\ ToSet(pending[l]) = ToSet(pending[l]) \cup ToSet(mailbox[l])
    BY <1>0, <1>1, <2>1, EmptyElements DEF WorkerStart
  <2>3. \A t \in Accepted : LaneOf(t) = l => ~Served(t) /\ ~Hosted(t)
    BY <2>1, <1>0, AcceptedAreTurns DEF Served, Hosted, Shape
  <2>4. \A t \in Accepted :
          IF LaneOf(t) = l /\ (Served(t) \/ Hosted(t)) THEN future'[t] # "open"
                                                      ELSE future'[t] = future[t]
    BY <1>1, <2>3 DEF WorkerStart
  <2>5. \A h \in Turns :
          \/ merged'[h] = merged[h] /\ (running[l] = h => merged[h] = <<>>)
          \/ merged'[h] = <<>> /\ running[l] = h
    BY <1>0, <1>1, <2>1 DEF WorkerStart
  <2>6. TakeNext(l, pending[l]) /\ UNCHANGED <<accepted, req, finalizers>>
    BY <1>1 DEF WorkerStart
  <2> QED
    BY <1>0, <2>2, <2>4, <2>5, <2>6, TakeNextKeepsOwners
<1>2. CASE WorkerNext(l) \/ WorkerRaised(l)
  <2> DEFINE q == pending[l] \o mailbox[l]
  <2>1. q \in Seq(Turns) /\ ToSet(q) = ToSet(pending[l]) \cup ToSet(mailbox[l])
    BY <1>0, ConcatElements
  <2>2. IsInjective(q)
    BY <1>0, ConcatElements DEF Owners, OwnersAreExclusive, Queued, Boxed, Shape, LaneContents
  <2>3. /\ TakeNext(l, q) /\ UNCHANGED <<accepted, req, finalizers>>
        /\ mailbox' = [mailbox EXCEPT ![l] = <<>>]
    BY <1>2 DEF WorkerNext, WorkerRaised
  <2>4. PICK h \in Turns : h = running[l] /\ h \in Accepted /\ LaneOf(h) = l
    BY <1>0, <1>2 DEF WorkerNext, WorkerRaised, Shape, LaneShape
  <2>5. \A t \in Accepted : LaneOf(t) = l =>
          /\ Served(t) <=> t = h
          /\ Hosted(t) <=> t \in ToSet(merged[h])
    BY <2>4 DEF Served, Hosted
  <2>6. \A t \in ToSet(merged[h]) : t \in Accepted /\ LaneOf(t) = l
    <3> SUFFICES ASSUME NEW t \in ToSet(merged[h])
                 PROVE  t \in Accepted /\ LaneOf(t) = l
      OBVIOUS
    <3>1. t \in Accepted /\ running[LaneOf(t)] = h
      BY <2>4 DEF Owners, HostsRun, Shape, MergedKnown
    <3>2. LaneOf(t) \in Sessions
      BY <3>1, TurnFacts
    <3> QED
      BY <3>1, <3>2, <2>4, <1>0 DEF Shape, LaneShape
  <2>7. CASE WorkerNext(l)
    <3>1. /\ merged' = merged /\ merged[h] = <<>>
          /\ future' = [future EXCEPT ![h] = IF @ = "open" THEN verdict[l] ELSE @]
          /\ verdict[l] \in Verdicts
      BY <2>7, <2>4 DEF WorkerNext, Verdicts
    <3>2. ToSet(merged[h]) = {}
      BY <3>1, EmptyElements
    <3>3. \A t \in Accepted :
            IF LaneOf(t) = l /\ (Served(t) \/ Hosted(t)) THEN future'[t] # "open"
                                                        ELSE future'[t] = future[t]
      BY <3>1, <3>2, <2>4, <2>5, <1>0
    <3>4. \A g \in Turns :
            \/ merged'[g] = merged[g] /\ (running[l] = g => merged[g] = <<>>)
            \/ merged'[g] = <<>> /\ running[l] = g
      BY <3>1, <2>4
    <3> QED
      BY <3>3, <3>4, <2>1, <2>2, <2>3, TakeNextKeepsOwners
  <2>8. CASE WorkerRaised(l)
    <3>1. /\ merged' = [merged EXCEPT ![h] = <<>>]
          /\ \A t \in Turns : future'[t] =
               IF t \in {h} \cup ToSet(merged[h]) /\ future[t] = "open"
               THEN "raised" ELSE future[t]
      BY <2>8, <2>4 DEF WorkerRaised
    <3>3. \A t \in Accepted :
            IF LaneOf(t) = l /\ (Served(t) \/ Hosted(t)) THEN future'[t] # "open"
                                                        ELSE future'[t] = future[t]
      BY <3>1, <2>4, <2>5, <2>6, <1>0
    <3>4. \A g \in Turns :
            \/ merged'[g] = merged[g] /\ (running[l] = g => merged[g] = <<>>)
            \/ merged'[g] = <<>> /\ running[l] = g
      BY <3>1, <2>4, <1>0
    <3> QED
      BY <3>3, <3>4, <2>1, <2>2, <2>3, TakeNextKeepsOwners
  <2> QED
    BY <1>2, <2>7, <2>8
<1> QED
  BY <1>1, <1>2

(* The owners of one turn, before or after a step. *)
OneOwner(t) ==
  /\ Held(t) <=> future[t] = "open"
  /\ Queued(t) => ~Boxed(t) /\ ~Served(t) /\ ~Hosted(t) /\ ~Withdrawing(t)
  /\ Boxed(t)  => ~Served(t) /\ ~Hosted(t) /\ ~Withdrawing(t)
  /\ Served(t) => ~Hosted(t) /\ ~Withdrawing(t)
  /\ Hosted(t) => ~Withdrawing(t)

LEMMA OwnersTurnByTurn ==
  ASSUME UNCHANGED <<accepted, req>>
  PROVE  /\ Owners => \A t \in Accepted : OneOwner(t)
         /\ (\A t \in Accepted : OneOwner(t)') /\ Unrepeated' /\ HostsRun'
              /\ FinalizersKnown' /\ IdleMailbox' => Owners'
<1>1. Accepted' = Accepted
  BY DEF Accepted
<1> QED
  BY <1>1 DEF Owners, OneOwner, HeldIsOpen, OwnersAreExclusive

LEMMA SettleKeepsOwners ==
  ASSUME Shape, Owners, NEW l \in Sessions, SettleMerged(l)
  PROVE  Owners'
<1>1. PICK h \in Turns : /\ h = running[l] /\ h \in Accepted /\ LaneOf(h) = l
                         /\ merged[h] # <<>>
                         /\ merged' = [merged EXCEPT ![h] = Tail(@)]
  BY AcceptedAreTurns DEF SettleMerged, Shape, LaneShape
<1>2. PICK m \in Turns, r \in Verdicts :
        /\ m = Head(merged[h]) /\ future' = [future EXCEPT ![m] = r]
        /\ ToSet(merged[h]) = ToSet(merged'[h]) \cup {m}
        /\ IsInjective(merged'[h]) /\ m \notin ToSet(merged'[h])
  <2>1. merged[h] \in Seq(Turns) /\ merged'[h] = Tail(merged[h])
        /\ IsInjective(merged[h])
    BY <1>1 DEF Shape, TypeOK, Owners, Unrepeated
  <2>2. \E r \in Verdicts : future' = [future EXCEPT ![Head(merged[h])] = r]
    BY <1>1 DEF SettleMerged
  <2>3. /\ Head(merged[h]) \in Turns
        /\ ToSet(merged[h]) = ToSet(merged'[h]) \cup {Head(merged[h])}
        /\ IsInjective(merged'[h]) /\ Head(merged[h]) \notin ToSet(merged'[h])
    BY <1>1, <2>1, TailElements
  <2> QED
    BY <2>2, <2>3
<1>3. /\ UNCHANGED <<accepted, req, pending, mailbox, running, finalizers>>
      /\ \A g \in Turns \ {h} : merged'[g] = merged[g]
      /\ merged \in [Turns -> Seq(Turns)]
      /\ future \in [Turns -> Verdicts \cup {"none", "open"}]
      /\ "open" \notin Verdicts
  BY <1>1 DEF SettleMerged, lanes, Shape, TypeOK, Verdicts, Terminal
<1>4. \A t \in Accepted : t \in Turns /\ LaneOf(t)' = LaneOf(t)
  BY <1>3, AcceptedAreTurns DEF Shape, LaneOf
<1>5. m \in Accepted /\ Hosted(m)
  BY <1>1, <1>2 DEF Shape, MergedKnown, Hosted, Owners, HostsRun
<1>6. ASSUME NEW t \in Accepted
      PROVE  OneOwner(t)'
  <2>1. OneOwner(t)
    BY <1>3, OwnersTurnByTurn
  <2>3. /\ Queued(t)' <=> Queued(t)
        /\ Boxed(t)' <=> Boxed(t)
        /\ Served(t)' <=> Served(t)
        /\ Withdrawing(t)' <=> Withdrawing(t)
    BY <1>3, <1>4 DEF Queued, Boxed, Served, Withdrawing
  <2>4. Hosted(t)' <=> Hosted(t) /\ t # m
    <3>1. CASE running[LaneOf(t)] = h
      BY <3>1, <1>1, <1>2, <1>3, <1>4 DEF Hosted
    <3>2. CASE running[LaneOf(t)] # h
      BY <3>2, <1>2, <1>3, <1>4 DEF Owners, HostsRun, Hosted
    <3> QED
      BY <3>1, <3>2
  <2>5. future'[t] = IF t = m THEN r ELSE future[t]
    BY <1>2, <1>3, <1>4
  <2> QED
    BY <2>1, <2>3, <2>4, <2>5, <1>2, <1>3, <1>5 DEF OneOwner, Held
<1>7. HostsRun'
  <2> SUFFICES ASSUME NEW g \in Turns, NEW t \in ToSet(merged'[g])
               PROVE  running'[LaneOf(t)'] = g
    BY DEF HostsRun
  <2>1. t \in ToSet(merged[g])
    BY <1>2, <1>3
  <2>2. running[LaneOf(t)] = g /\ t \in Accepted
    BY <2>1 DEF Owners, HostsRun, Shape, MergedKnown
  <2> QED
    BY <2>2, <1>3, <1>4
<1>8. Unrepeated' /\ FinalizersKnown' /\ IdleMailbox'
  BY <1>2, <1>3 DEF Owners, Unrepeated, FinalizersKnown, IdleMailbox, Accepted
<1> QED
  BY <1>3, <1>6, <1>7, <1>8, OwnersTurnByTurn

(* A waiting turn goes to a finalizer; the finalizer answers it. *)
LEMMA CancelQueuedKeepsOwners ==
  ASSUME Shape, Owners, NEW t \in Turns, CancelQueued(t)
  PROVE  Owners'
<1>1. PICK l \in Sessions : l = LaneOf(t) /\ t \in Accepted
  BY TurnFacts DEF CancelQueued
<1>2. /\ pending \in [Sessions -> Seq(Turns)] /\ mailbox \in [Sessions -> Seq(Turns)]
      /\ IsInjective(pending[l]) /\ IsInjective(mailbox[l])
      /\ UNCHANGED <<accepted, req, running, merged, future>>
      /\ finalizers' = finalizers \cup {t}
  BY <1>1 DEF CancelQueued, Shape, TypeOK, Owners, Unrepeated
<1>3. \/ /\ Queued(t) /\ mailbox' = mailbox
         /\ IsInjective(pending'[l]) /\ ToSet(pending'[l]) = ToSet(pending[l]) \ {t}
         /\ \A k \in Sessions \ {l} : pending'[k] = pending[k]
      \/ /\ Boxed(t) /\ pending' = pending
         /\ IsInjective(mailbox'[l]) /\ ToSet(mailbox'[l]) = ToSet(mailbox[l]) \ {t}
         /\ \A k \in Sessions \ {l} : mailbox'[k] = mailbox[k]
         /\ mailbox[l] # <<>>
  <2>1. CASE \E i \in DOMAIN pending[l] :
               /\ pending[l][i] = t
               /\ pending' = [pending EXCEPT ![l] = RemoveAt(@, i)]
               /\ UNCHANGED mailbox
    <3>1. PICK i \in DOMAIN pending[l] :
               /\ pending[l][i] = t
               /\ pending' = [pending EXCEPT ![l] = RemoveAt(@, i)]
               /\ UNCHANGED mailbox
      BY <2>1
    <3>2. t \in ToSet(pending[l])
      BY <3>1 DEF ToSet
    <3> QED
      BY <3>1, <3>2, <1>1, <1>2, RemoveElements DEF Queued
  <2>2. CASE \E i \in DOMAIN mailbox[l] :
               /\ mailbox[l][i] = t
               /\ mailbox' = [mailbox EXCEPT ![l] = RemoveAt(@, i)]
               /\ UNCHANGED pending
    <3>1. PICK i \in DOMAIN mailbox[l] :
               /\ mailbox[l][i] = t
               /\ mailbox' = [mailbox EXCEPT ![l] = RemoveAt(@, i)]
               /\ UNCHANGED pending
      BY <2>2
    <3>2. t \in ToSet(mailbox[l]) /\ mailbox[l] # <<>>
      BY <3>1, EmptyElements DEF ToSet
    <3> QED
      BY <3>1, <3>2, <1>1, <1>2, RemoveElements DEF Boxed
  <2> QED
    BY <2>1, <2>2, <1>1 DEF CancelQueued
<1>4. ASSUME NEW u \in Accepted
      PROVE  OneOwner(u)'
  <2>1. OneOwner(u) /\ OneOwner(t) /\ LaneOf(u)' = LaneOf(u)
    BY <1>1, <1>2, OwnersTurnByTurn DEF LaneOf
  <2>2. /\ Served(u)' <=> Served(u)
        /\ Hosted(u)' <=> Hosted(u)
        /\ Withdrawing(u)' <=> Withdrawing(u) \/ u = t
        /\ future'[u] = future[u]
    BY <1>2, <2>1 DEF Served, Hosted, Withdrawing
  <2>3. CASE u = t
    BY <1>1, <1>3, <2>1, <2>3, <2>2 DEF OneOwner, Queued, Boxed, Held
  <2>4. CASE u # t
    BY <1>3, <2>1, <2>4, <2>2, TurnFacts DEF Queued, Boxed, OneOwner, Held
  <2> QED
    BY <2>3, <2>4
<1>5. Unrepeated'
  BY <1>2, <1>3 DEF Owners, Unrepeated
<1>6. HostsRun' /\ FinalizersKnown'
  BY <1>1, <1>2 DEF Owners, HostsRun, FinalizersKnown, Accepted, LaneOf
<1>7. IdleMailbox'
  BY <1>2, <1>3 DEF Owners, IdleMailbox
<1> QED
  BY <1>2, <1>4, <1>5, <1>6, <1>7, OwnersTurnByTurn

LEMMA FinishCancelKeepsOwners ==
  ASSUME Shape, Owners, NEW t \in Turns, FinishCancel(t)
  PROVE  Owners'
<1>1. PICK r \in Verdicts :
        future' = [future EXCEPT ![t] = IF @ = "open" THEN r ELSE @]
  BY DEF FinishCancel
<1>2. /\ UNCHANGED <<accepted, req, pending, mailbox, running, merged>>
      /\ t \in finalizers /\ finalizers' = finalizers \ {t} /\ t \in Accepted
      /\ future \in [Turns -> Verdicts \cup {"none", "open"}]
      /\ "open" \notin Verdicts
  BY DEF FinishCancel, lanes, Shape, TypeOK, Owners, FinalizersKnown, Verdicts,
         Terminal
<1>3. ASSUME NEW u \in Accepted
      PROVE  OneOwner(u)'
  <2>1. OneOwner(u) /\ LaneOf(u)' = LaneOf(u) /\ u \in Turns
    BY <1>2, OwnersTurnByTurn, TurnFacts DEF LaneOf
  <2>2. /\ Queued(u)' <=> Queued(u)
        /\ Boxed(u)' <=> Boxed(u)
        /\ Served(u)' <=> Served(u)
        /\ Hosted(u)' <=> Hosted(u)
        /\ Withdrawing(u)' <=> Withdrawing(u) /\ u # t
    BY <1>2, <2>1 DEF Queued, Boxed, Served, Hosted, Withdrawing
  <2>3. /\ u # t => future'[u] = future[u]
        /\ u = t => future'[u] # "open" /\ Withdrawing(u)
    BY <1>1, <1>2, <2>1 DEF Withdrawing
  <2> QED
    BY <2>1, <2>2, <2>3 DEF OneOwner, Held
<1>4. Unrepeated' /\ HostsRun' /\ FinalizersKnown' /\ IdleMailbox'
  BY <1>2 DEF Owners, Unrepeated, HostsRun, FinalizersKnown, IdleMailbox,
              Accepted, LaneOf
<1> QED
  BY <1>2, <1>3, <1>4, OwnersTurnByTurn

(* The mailbox moves into the running turn. *)
LEMMA DrainKeepsOwners ==
  ASSUME Shape, Owners, NEW t \in Turns, Drain(t)
  PROVE  Owners'
<1>1. PICK l \in Sessions : l = LaneOf(t) /\ t \in Accepted /\ running[l] = t
  BY TurnFacts DEF Drain, MayDrain, Shape, ThreadsKnown
<1>2. /\ mailbox \in [Sessions -> Seq(Turns)] /\ merged \in [Turns -> Seq(Turns)]
      /\ IsInjective(merged[t]) /\ IsInjective(mailbox[l]) /\ NoTurn \notin Turns
      /\ UNCHANGED <<accepted, req, pending, running, future, finalizers>>
      /\ merged' = [merged EXCEPT ![t] = @ \o mailbox[l]]
      /\ mailbox' = [mailbox EXCEPT ![l] = <<>>]
  BY <1>1, AcceptedAreTurns DEF Drain, Shape, TypeOK, Owners, Unrepeated
<1>3. ToSet(merged[t]) \cap ToSet(mailbox[l]) = {}
  <2> SUFFICES ASSUME NEW u, u \in ToSet(merged[t]), u \in ToSet(mailbox[l])
               PROVE  FALSE
    OBVIOUS
  <2>1. u \in Accepted /\ LaneOf(u) = l
    BY DEF Shape, LaneContents
  <2>2. OneOwner(u)
    BY <1>2, <2>1, OwnersTurnByTurn
  <2> QED
    BY <2>1, <2>2, <1>1 DEF OneOwner, Hosted, Boxed
<1>4. /\ IsInjective(merged'[t]) /\ IsInjective(mailbox'[l])
      /\ ToSet(merged'[t]) = ToSet(merged[t]) \cup ToSet(mailbox[l])
      /\ mailbox'[l] = <<>> /\ ToSet(mailbox'[l]) = {}
      /\ \A k \in Sessions \ {l} : mailbox'[k] = mailbox[k]
      /\ \A h \in Turns \ {t} : merged'[h] = merged[h]
  BY <1>2, <1>3, ConcatElements, EmptyElements
<1>5. ASSUME NEW u \in Accepted
      PROVE  OneOwner(u)'
  <2>1. OneOwner(u) /\ LaneOf(u)' = LaneOf(u) /\ LaneOf(u) \in Sessions
    BY <1>2, OwnersTurnByTurn, TurnFacts DEF LaneOf
  <2>2. /\ Queued(u)' <=> Queued(u)
        /\ Served(u)' <=> Served(u)
        /\ Withdrawing(u)' <=> Withdrawing(u)
        /\ future'[u] = future[u]
    BY <1>2, <2>1 DEF Queued, Served, Withdrawing
  <2>3. CASE LaneOf(u) = l
    <3>1. ~Boxed(u)' /\ (Hosted(u)' <=> Hosted(u) \/ Boxed(u))
      BY <1>1, <1>2, <1>4, <2>1, <2>3 DEF Boxed, Hosted
    <3> QED
      BY <2>1, <2>2, <3>1 DEF OneOwner, Held
  <2>4. CASE LaneOf(u) # l
    <3>1. running[LaneOf(u)] # t
      BY <2>1, <2>4, <1>1, <1>2 DEF Shape, LaneShape
    <3>2. (Boxed(u)' <=> Boxed(u)) /\ (Hosted(u)' <=> Hosted(u))
      BY <1>2, <1>4, <2>1, <2>4, <3>1 DEF Boxed, Hosted
    <3> QED
      BY <2>1, <2>2, <3>2 DEF OneOwner, Held
  <2> QED
    BY <2>3, <2>4
<1>6. HostsRun'
  <2> SUFFICES ASSUME NEW h \in Turns, NEW u \in ToSet(merged'[h])
               PROVE  running'[LaneOf(u)'] = h
    BY DEF HostsRun
  <2>1. CASE u \in ToSet(merged[h])
    BY <2>1, <1>2 DEF Owners, HostsRun, LaneOf
  <2>2. CASE u \notin ToSet(merged[h])
    BY <2>2, <1>4, <1>1, <1>2 DEF Shape, LaneContents, LaneOf
  <2> QED
    BY <2>1, <2>2
<1>7. Unrepeated' /\ FinalizersKnown' /\ IdleMailbox'
  BY <1>2, <1>4 DEF Owners, Unrepeated, FinalizersKnown, IdleMailbox, Accepted
<1> QED
  BY <1>2, <1>5, <1>6, <1>7, OwnersTurnByTurn

(* cancel_session and the shutdown: all waiting turns of some lanes go to  *)
(* finalizers.                                                             *)
LEMMA DrainPendingKeepsOwners ==
  ASSUME Shape, Owners, NEW L \in SUBSET Sessions, DrainPending(L),
         UNCHANGED <<accepted, req, running, merged, future>>
  PROVE  Owners'
<1>1. /\ \A k \in L : /\ pending'[k] = <<>> /\ mailbox'[k] = <<>>
                      /\ ToSet(pending'[k]) = {} /\ ToSet(mailbox'[k]) = {}
      /\ \A k \in Sessions \ L : pending'[k] = pending[k] /\ mailbox'[k] = mailbox[k]
      /\ finalizers' = finalizers \cup QueuedIn(L)
  BY EmptyElements DEF DrainPending
<1>2. \A u \in QueuedIn(L) : /\ u \in Accepted /\ LaneOf(u) \in L
                             /\ Queued(u) \/ Boxed(u)
  <2> SUFFICES ASSUME NEW k \in L, NEW u \in ToSet(pending[k]) \cup ToSet(mailbox[k])
               PROVE  u \in Accepted /\ LaneOf(u) \in L /\ (Queued(u) \/ Boxed(u))
    BY DEF QueuedIn
  <2>1. k \in Sessions
    OBVIOUS
  <2>2. u \in Accepted /\ LaneOf(u) = k
    BY <2>1 DEF Shape, LaneContents
  <2> QED
    BY <2>2 DEF Queued, Boxed
<1>3. \A u \in Accepted : LaneOf(u) \in L /\ (Queued(u) \/ Boxed(u))
                            => u \in QueuedIn(L)
  BY DEF Queued, Boxed, QueuedIn
<1>4. ASSUME NEW u \in Accepted
      PROVE  OneOwner(u)'
  <2>1. OneOwner(u) /\ LaneOf(u)' = LaneOf(u) /\ LaneOf(u) \in Sessions
    BY OwnersTurnByTurn, TurnFacts DEF LaneOf
  <2>2. /\ Served(u)' <=> Served(u)
        /\ Hosted(u)' <=> Hosted(u)
        /\ Withdrawing(u)' <=> Withdrawing(u) \/ u \in QueuedIn(L)
        /\ future'[u] = future[u]
    BY <1>1, <2>1 DEF Served, Hosted, Withdrawing
  <2>3. CASE LaneOf(u) \in L
    <3>1. ~Queued(u)' /\ ~Boxed(u)'
      BY <1>1, <2>1, <2>3 DEF Queued, Boxed
    <3>2. u \in QueuedIn(L) <=> Queued(u) \/ Boxed(u)
      BY <1>2, <1>3, <2>3
    <3> QED
      BY <2>1, <2>2, <3>1, <3>2 DEF OneOwner, Held
  <2>4. CASE LaneOf(u) \notin L
    BY <1>1, <2>1, <2>4, <1>2, <2>2 DEF Queued, Boxed, OneOwner, Held
  <2> QED
    BY <2>3, <2>4
<1>5. Unrepeated'
  BY <1>1, EmptyElements DEF Owners, Unrepeated
<1>6. HostsRun' /\ FinalizersKnown' /\ IdleMailbox'
  BY <1>1, <1>2 DEF Owners, HostsRun, FinalizersKnown, IdleMailbox, Accepted, LaneOf
<1> QED
  BY <1>4, <1>5, <1>6, OwnersTurnByTurn

LEMMA InitOwners ==
  Init => Owners
<1> SUFFICES ASSUME Init PROVE Owners
  OBVIOUS
<1>1. Accepted = {}
  BY DEF Init, Accepted
<1> QED
  BY <1>1, EmptyElements
     DEF Init, Owners, Unrepeated, HostsRun, HeldIsOpen, FinalizersKnown,
         IdleMailbox, OwnersAreExclusive

LEMMA NextKeepsOwners ==
  Shape /\ Owners /\ [Next]_vars => Owners'
<1> SUFFICES ASSUME Shape, Owners, [Next]_vars PROVE Owners'
  OBVIOUS
<1>1. ASSUME NEW r \in Requests, Submit(r)
      PROVE  Owners'
  BY <1>1, SubmitKeepsOwners
<1>2. ASSUME NEW l \in Sessions, LaneStep(l)
      PROVE  Owners'
  <2>1. CASE WorkerStart(l) \/ WorkerNext(l) \/ WorkerRaised(l)
    BY <2>1, LaneMovesOnKeepsOwners
  <2>2. CASE SettleMerged(l)
    BY <2>2, SettleKeepsOwners
  <2>3. CASE \E from, to : TaskStep(l, from, to)
    BY <2>3, IdleKeepsOwners DEF TaskStep, ownerVars
  <2> QED
    BY <1>2, <2>1, <2>2, <2>3 DEF LaneStep, TaskStart, Acquire, AbandonWait,
       AbandonGrant, Withdrawn, BeginRun, RunEnds, ObserveCancel, AbortEnds,
       ReleasePermit, TaskDone
<1>3. ASSUME NEW t \in Turns, TurnStep(t)
      PROVE  Owners'
  <2>1. CASE CancelRunning(t) \/ ThreadExit(t)
    BY <2>1, IdleKeepsOwners DEF CancelRunning, ThreadExit, ownerVars, lanes
  <2> QED
    BY <1>3, <2>1, CancelQueuedKeepsOwners, FinishCancelKeepsOwners,
       DrainKeepsOwners DEF TurnStep
<1>4. ASSUME NEW l \in Sessions, CancelSession(l)
      PROVE  Owners'
  BY <1>4, DrainPendingKeepsOwners DEF CancelSession
<1>5. CASE DrainLanes
  BY <1>5, DrainPendingKeepsOwners DEF DrainLanes
<1>6. CASE BeginShutdown \/ EndGrace \/ JoinAll \/ Closed \/ UNCHANGED vars
  BY <1>6, IdleKeepsOwners DEF BeginShutdown, EndGrace, JoinAll, Closed, vars,
     ownerVars, lanes
<1> QED
  BY <1>1, <1>2, <1>3, <1>4, <1>5, <1>6 DEF Next

(* No handle is forgotten and no turn is held in two places, so every open *)
(* turn is answered by someone, and none is run or settled twice.          *)
THEOREM EveryTurnHasOneOwner ==
  Spec => []OpenTurnHasOneOwner
<1>1. Shape /\ Owners => OpenTurnHasOwner
  BY DEF Owners, HeldIsOpen, Held, OpenTurnHasOwner
<1>2. Owners => OwnersAreExclusive
  BY DEF Owners
<1>3. OpenTurnHasOwner /\ OwnersAreExclusive => OpenTurnHasOneOwner
  BY DEF OpenTurnHasOneOwner
<1> QED
  BY <1>1, <1>2, <1>3, InitShape, NextKeepsShape, InitOwners, NextKeepsOwners, PTL
     DEF Spec

(* No step rewrites the answer of a resolved handle. *)
LEMMA AnswersStay ==
  ASSUME Shape, Owners, [Next]_vars
  PROVE  \A t \in Turns : future[t] \in Verdicts => future'[t] = future[t]
<1> SUFFICES ASSUME NEW t \in Turns, future[t] \in Verdicts
             PROVE  future'[t] = future[t]
  OBVIOUS
<1>0. /\ future[t] # "open" /\ future[t] # "none" /\ t \in Accepted
      /\ future \in [Turns -> Verdicts \cup {"none", "open"}]
  BY DEF Verdicts, Terminal, Shape, KnownRequests, TypeOK
<1>1. ASSUME NEW r \in Requests, Submit(r)
      PROVE  future'[t] = future[t]
  BY <1>0, <1>1 DEF Accepted, Shape, TypeOK, Submit
<1>2. ASSUME NEW l \in Sessions, SettleMerged(l)
      PROVE  future'[t] = future[t]
  <2>1. PICK h \in Turns : h = running[l] /\ merged[h] # <<>> /\ merged[h] \in Seq(Turns)
    BY <1>2, AcceptedAreTurns DEF SettleMerged, Shape, TypeOK, LaneShape
  <2>2. Head(merged[h]) \in ToSet(merged[h])
    BY <2>1, TailElements
  <2>3. \A m \in ToSet(merged[h]) : m \in Accepted /\ Hosted(m)
    BY <2>1 DEF Shape, MergedKnown, Hosted, Owners, HostsRun
  <2>4. t # Head(merged[h])
    BY <1>0, <2>2, <2>3 DEF Owners, HeldIsOpen, Held
  <2> QED
    BY <1>0, <1>2, <2>1, <2>4 DEF SettleMerged
<1>3. ASSUME NEW l \in Sessions, WorkerNext(l) \/ WorkerRaised(l)
      PROVE  future'[t] = future[t]
  BY <1>0, <1>3 DEF WorkerNext, WorkerRaised
<1>4. ASSUME NEW u \in Turns, FinishCancel(u)
      PROVE  future'[t] = future[t]
  BY <1>0, <1>4 DEF FinishCancel
<1>5. ASSUME UNCHANGED future
      PROVE  future'[t] = future[t]
  BY <1>5
<1>6. CASE \E l \in Sessions : LaneStep(l)
  BY <1>2, <1>3, <1>5, <1>6 DEF LaneStep, WorkerStart, TaskStep, TaskStart,
     Acquire, AbandonWait, AbandonGrant, Withdrawn, BeginRun, RunEnds,
     ObserveCancel, AbortEnds, ReleasePermit, TaskDone
<1>7. CASE \E u \in Turns : TurnStep(u)
  BY <1>4, <1>5, <1>7 DEF TurnStep, CancelQueued, CancelRunning, Drain, ThreadExit
<1>8. CASE \/ \E l \in Sessions : CancelSession(l)
           \/ BeginShutdown \/ DrainLanes \/ EndGrace \/ JoinAll \/ Closed
           \/ UNCHANGED vars
  BY <1>5, <1>8 DEF CancelSession, BeginShutdown, DrainLanes, EndGrace, JoinAll,
     Closed, vars
<1> QED
  BY <1>1, <1>6, <1>7, <1>8 DEF Next

(* Worker, host and finalizer may all reach one future: the first answer   *)
(* is kept.                                                                *)
THEOREM AnswersKept ==
  Spec => AnsweredOnce
<1>1. Shape /\ Owners /\ [Next]_vars
      => [\A t \in Turns : future[t] \in Verdicts => future'[t] = future[t]]_vars
  BY AnswersStay
<1> QED
  BY <1>1, InitShape, NextKeepsShape, InitOwners, NextKeepsOwners, PTL
     DEF Spec, AnsweredOnce

-----------------------------------------------------------------------------
(* Layer 4: what the run store holds of a turn, told from who has it in    *)
(* hand, and the order of a queue.                                         *)

Waiting(t) == Queued(t) \/ Boxed(t) \/ Hosted(t) \/ Withdrawing(t)

(* The record of a turn that its lane runs follows the task of the lane.   *)
TaskRecord(t, l) ==
  /\ task[l] \in {"fresh", "wait", "granted", "withdraw"} => durable[t] = "accepted"
  /\ task[l] \in {"exec", "aborting"} => durable[t] = "running"
  /\ verdict[l] \in Terminal => durable[t] = verdict[l]

RecordOf(t) ==
  /\ future[t] \in Terminal => durable[t] = future[t]
  /\ Waiting(t) => durable[t] = "accepted"
  /\ Served(t) => TaskRecord(t, LaneOf(t))

Records == \A t \in Accepted : RecordOf(t)

(* Turns that were injected or that interrupt are not in the order.        *)
Appended == {t \in Accepted : req[t].busy = "append"}

InOrder == \A l \in Sessions : /\ Rising(pending[l], Appended)
                               /\ ToSet(mailbox[l]) \cap Appended = {}

(* Layer 5: a lane at rest has nothing to do, and after a shutdown all are. *)
AtRest ==
  /\ \A l \in Sessions : worker[l] = "idle" => pending[l] = <<>>
  /\ shutdown = "closed" => /\ finalizers = {}
                            /\ \A l \in Sessions : worker[l] = "idle"

LEMMA RecordKept ==
  ASSUME NEW t \in Accepted, RecordOf(t), LaneOf(t)' = LaneOf(t),
         durable'[t] = durable[t],
         future'[t] = future[t] \/ future'[t] \notin Terminal,
         Waiting(t)' => Waiting(t),
         Served(t)' => Served(t) /\ task'[LaneOf(t)] = task[LaneOf(t)]
                                 /\ verdict'[LaneOf(t)] = verdict[LaneOf(t)]
  PROVE  RecordOf(t)'
  BY DEF RecordOf, TaskRecord

(* The places a turn waits in, when the step is about something else.      *)
LEMMA WaitingKept ==
  ASSUME Shape, NEW t \in Accepted, LaneOf(t)' = LaneOf(t),
         pending'[LaneOf(t)] = pending[LaneOf(t)],
         mailbox'[LaneOf(t)] = mailbox[LaneOf(t)],
         running'[LaneOf(t)] = running[LaneOf(t)],
         merged' = merged, finalizers' \subseteq finalizers
  PROVE  /\ Waiting(t)' => Waiting(t)
         /\ Served(t)' <=> Served(t)
<1>1. (Queued(t)' <=> Queued(t)) /\ (Boxed(t)' <=> Boxed(t)) /\ (Served(t)' <=> Served(t))
  BY DEF Queued, Boxed, Served
<1>2. (Hosted(t)' <=> Hosted(t)) /\ (Withdrawing(t)' => Withdrawing(t))
  BY DEF Hosted, Withdrawing
<1> QED
  BY <1>1, <1>2 DEF Waiting

(* Only the record of the turn that runs in lane l moves, with its task.   *)
LEMMA TaskStepKeepsRecords ==
  ASSUME Shape, Owners, Records, NEW l \in Sessions, NEW from, NEW to,
         from # "none", TaskStep(l, from, to), UNCHANGED req,
         \A u \in Turns : u # running[l] => durable'[u] = durable[u],
         \A k \in Sessions : k # l => verdict'[k] = verdict[k],
         TaskRecord(running[l], l)'
  PROVE  Records'
<1>1. /\ UNCHANGED <<accepted, req, pending, mailbox, running, merged, future,
                     finalizers>>
      /\ task[l] = from /\ \A k \in Sessions : k # l => task'[k] = task[k]
  BY DEF TaskStep, Shape, TypeOK
<1>2. PICK h \in Accepted : h = running[l] /\ LaneOf(h) = l /\ Served(h)
  BY <1>1 DEF Shape, LaneShape, Served
<1>3. Accepted' = Accepted /\ \A t \in Accepted : t \in Turns /\ LaneOf(t)' = LaneOf(t)
                                                   /\ LaneOf(t) \in Sessions
  BY <1>1, TurnFacts DEF Accepted, LaneOf
<1>4. ASSUME NEW t \in Accepted, t # h
      PROVE  RecordOf(t)'
  BY <1>2, <1>3, <1>4, <1>1, WaitingKept, RecordKept DEF Records, Served
<1>5. RecordOf(h)'
  <2>1. OneOwner(h)
    BY <1>1, OwnersTurnByTurn
  <2>2. ~Waiting(h) /\ future[h] = "open"
    BY <1>2, <2>1 DEF OneOwner, Held, Waiting
  <2>3. ~Waiting(h)' /\ future'[h] \notin Terminal
    BY <1>1, <1>3, <2>2, WaitingKept DEF Terminal
  <2>4. TaskRecord(h, l)'
    BY <1>1, <1>2
  <2> QED
    BY <1>2, <1>3, <2>3, <2>4 DEF RecordOf
<1> QED
  BY <1>3, <1>4, <1>5 DEF Records

LEMMA LaneTaskStepsKeepRecords ==
  ASSUME Shape, Owners, Records, NEW l \in Sessions,
         \/ TaskStart(l) \/ Acquire(l) \/ AbandonWait(l) \/ AbandonGrant(l)
         \/ Withdrawn(l) \/ BeginRun(l) \/ RunEnds(l) \/ ObserveCancel(l)
         \/ AbortEnds(l) \/ ReleasePermit(l) \/ TaskDone(l)
  PROVE  Records'
<1>0. /\ task[l] # "none" => running[l] \in Turns /\ TaskRecord(running[l], l)
      /\ verdict[l] # "none" <=> task[l] \in {"ended", "closing", "done"}
      /\ verdict \in [Sessions -> Verdicts \cup {"none"}]
      /\ task \in [Sessions -> TaskPhases]
      /\ durable \in [Turns -> Terminal \cup {"none", "accepted", "running"}]
  BY AcceptedAreTurns DEF Shape, LaneShape, Served, Records, RecordOf, TypeOK
<1>1. CASE TaskStart(l) \/ Acquire(l) \/ AbandonWait(l) \/ AbandonGrant(l)
  <2>1. PICK from, to : /\ from # "none" /\ TaskStep(l, from, to)
                        /\ from \in {"fresh", "wait", "granted"}
                        /\ to \in {"wait", "granted", "withdraw"}
    BY <1>1 DEF TaskStart, Acquire, AbandonWait, AbandonGrant
  <2>2. UNCHANGED <<verdict, durable, req, running>>
    BY <1>1 DEF TaskStart, Acquire, AbandonWait, AbandonGrant, TaskStep
  <2>3. task[l] = from /\ task'[l] = to
    BY <1>0, <2>1 DEF TaskStep
  <2>4. TaskRecord(running[l], l)'
    BY <1>0, <2>1, <2>2, <2>3 DEF TaskRecord, Terminal
  <2> QED
    BY <2>1, <2>2, <2>4, TaskStepKeepsRecords
<1>2. CASE Withdrawn(l)
  <2>1. PICK r \in Verdicts : /\ ExecutorCancel(running[l], r)
                              /\ verdict' = [verdict EXCEPT ![l] = r]
    BY <1>2 DEF Withdrawn
  <2>2. /\ TaskStep(l, "withdraw", "closing") /\ UNCHANGED <<req, running>>
        /\ task[l] = "withdraw" /\ task'[l] = "closing"
    BY <1>0, <1>2 DEF Withdrawn, TaskStep
  <2>3. verdict'[l] = r /\ \A k \in Sessions : k # l => verdict'[k] = verdict[k]
    BY <1>0, <2>1
  <2>4. /\ r \in Terminal => durable'[running[l]] = r
        /\ \A u \in Turns : u # running[l] => durable'[u] = durable[u]
    BY <1>0, <2>1, <2>2 DEF ExecutorCancel, Terminal
  <2>5. TaskRecord(running[l], l)'
    BY <2>2, <2>3, <2>4 DEF TaskRecord
  <2> QED
    BY <2>2, <2>3, <2>4, <2>5, TaskStepKeepsRecords
<1>3. CASE BeginRun(l)
  <2>1. UNCHANGED <<req, running>> /\ task[l] = "granted"
    BY <1>3 DEF BeginRun, TaskStep
  <2>2. CASE /\ TaskStep(l, "granted", "exec") /\ UNCHANGED verdict
             /\ durable' = [durable EXCEPT ![running[l]] = "running"]
    BY <1>0, <2>1, <2>2, TaskStepKeepsRecords DEF TaskStep, TaskRecord, Terminal
  <2>3. CASE /\ TaskStep(l, "granted", "ended") /\ UNCHANGED durable
             /\ verdict' = [verdict EXCEPT ![l] = "raised"]
    BY <1>0, <2>1, <2>3, TaskStepKeepsRecords DEF TaskStep, TaskRecord, Terminal
  <2> QED
    BY <1>3, <2>2, <2>3 DEF BeginRun
<1>4. CASE RunEnds(l) \/ AbortEnds(l)
  <2>1. PICK from \in {"exec", "aborting"}, outcomes \in SUBSET Terminal, v \in Verdicts :
          /\ TaskStep(l, from, "ended")
          /\ RecordEnd(running[l], outcomes, v)
          /\ verdict' = [verdict EXCEPT ![l] = v]
    BY <1>4 DEF RunEnds, AbortEnds, Terminal
  <2>2. UNCHANGED <<req, running>> /\ task[l] = from /\ task'[l] = "ended"
    BY <1>0, <2>1 DEF TaskStep
  <2>3. verdict'[l] = v /\ \A k \in Sessions : k # l => verdict'[k] = verdict[k]
    BY <1>0, <2>1
  <2>4. /\ v \in Terminal => durable'[running[l]] = v
        /\ \A u \in Turns : u # running[l] => durable'[u] = durable[u]
    BY <1>0, <2>1, <2>2 DEF RecordEnd, Terminal
  <2>5. TaskRecord(running[l], l)'
    BY <2>2, <2>3, <2>4 DEF TaskRecord
  <2> QED
    BY <2>1, <2>2, <2>3, <2>4, <2>5, TaskStepKeepsRecords
<1>5. CASE ObserveCancel(l) \/ ReleasePermit(l) \/ TaskDone(l)
  <2>1. PICK from \in {"exec", "ended", "closing"}, to \in {"aborting", "closing", "done"} :
          /\ TaskStep(l, from, to)
          /\ from = "exec" <=> to = "aborting"
    BY <1>5 DEF ObserveCancel, ReleasePermit, TaskDone
  <2>2. UNCHANGED <<verdict, durable, req, running>>
    BY <1>5 DEF ObserveCancel, ReleasePermit, TaskDone, TaskStep
  <2>3. task[l] = from /\ task'[l] = to
    BY <1>0, <2>1 DEF TaskStep
  <2>4. TaskRecord(running[l], l)'
    BY <1>0, <2>1, <2>2, <2>3 DEF TaskRecord
  <2> QED
    BY <2>1, <2>2, <2>4, TaskStepKeepsRecords
<1> QED
  BY <1>1, <1>2, <1>3, <1>4, <1>5

LEMMA SubmitKeepsRecords ==
  ASSUME Shape, Owners, Records, NEW r \in Requests, Submit(r)
  PROVE  Records'
<1> DEFINE l == r.session
<1>0. PICK t \in Turns : t = accepted + 1
  BY DEF Submit
<1>1. /\ t \notin Accepted /\ l \in Sessions /\ Accepted' = Accepted \cup {t}
      /\ \A u \in Accepted : u \in Turns /\ u # t
  <2>1. accepted \in 0..MaxTurns /\ accepted' = t /\ t \in 1..MaxTurns
    BY <1>0 DEF Submit, Turns, Shape, TypeOK
  <2> QED
    BY <1>0, <2>1, MaxTurnsAssumption DEF Turns, Accepted, Requests
<1>2. /\ UNCHANGED <<running, task, verdict, merged, finalizers>>
      /\ req'[t] = r /\ \A u \in Accepted : req'[u] = req[u]
      /\ durable'[t] = "accepted" /\ \A u \in Accepted : durable'[u] = durable[u]
      /\ future'[t] = "open" /\ \A u \in Accepted : future'[u] = future[u]
      /\ LaneSubmit(t, l, r.busy)
  BY <1>0, <1>1 DEF Submit, Shape, TypeOK
<1> HIDE DEF l
<1>3. \A k \in Sessions :
        /\ ToSet(pending'[k]) \subseteq ToSet(pending[k]) \cup {t}
        /\ ToSet(mailbox'[k]) \subseteq ToSet(mailbox[k]) \cup {t}
  <2>0. /\ pending \in [Sessions -> Seq(Turns)] /\ mailbox \in [Sessions -> Seq(Turns)]
    BY DEF Shape, TypeOK
  <2>1. /\ ToSet(Append(pending[l], t)) = ToSet(pending[l]) \cup {t}
        /\ ToSet(Append(mailbox[l], t)) = ToSet(mailbox[l]) \cup {t}
        /\ ToSet(<<t>> \o pending[l]) = ToSet(pending[l]) \cup {t}
    BY <1>1, <2>0, AppendElements, PushElements
  <2> QED
    BY <1>1, <1>2, <2>0, <2>1 DEF LaneSubmit, SubmitInject, SubmitInterrupt, SubmitAppend
<1>4. ASSUME NEW u \in Accepted
      PROVE  RecordOf(u)'
  <2>1. /\ LaneOf(u)' = LaneOf(u) /\ LaneOf(u) \in Sessions /\ RecordOf(u) /\ u # t
    BY <1>1, <1>2, TurnFacts DEF Records, LaneOf
  <2>2. /\ Queued(u)' => Queued(u)
        /\ Boxed(u)' => Boxed(u)
        /\ Served(u)' => Served(u)
        /\ Hosted(u)' => Hosted(u)
        /\ Withdrawing(u)' => Withdrawing(u)
    BY <1>2, <1>3, <2>1 DEF Queued, Boxed, Served, Hosted, Withdrawing
  <2> QED
    BY <1>2, <2>1, <2>2, RecordKept DEF Waiting
<1>5. RecordOf(t)'
  <2>1. ~Served(t)'
    BY <1>0, <1>1, <1>2, AcceptedAreTurns DEF Served, LaneOf, Shape, LaneShape, l
  <2> QED
    BY <1>2, <2>1 DEF RecordOf, Terminal
<1> QED
  BY <1>1, <1>4, <1>5 DEF Records

(* A lane moves on: its host, if it had one, is answered what its record   *)
(* says, and the turns left to a host that failed are not answered.        *)
LEMMA LaneMovesOnKeepsRecords ==
  ASSUME Shape, Owners, Records, NEW l \in Sessions,
         WorkerStart(l) \/ WorkerNext(l) \/ WorkerRaised(l)
  PROVE  Records'
<1> DEFINE q == pending[l] \o mailbox[l]
<1>0. /\ pending \in [Sessions -> Seq(Turns)] /\ mailbox \in [Sessions -> Seq(Turns)]
      /\ running \in [Sessions -> Turns \cup {NoTurn}] /\ NoTurn \notin Turns
      /\ task \in [Sessions -> TaskPhases]
      /\ verdict \in [Sessions -> Verdicts \cup {"none"}]
      /\ future \in [Turns -> Verdicts \cup {"none", "open"}]
      /\ q \in Seq(Turns) /\ ToSet(q) = ToSet(pending[l]) \cup ToSet(mailbox[l])
  BY LeftoverQueue, AcceptedAreTurns DEF Shape, TypeOK
<1>1. TakeNext(l, q) /\ mailbox' = [mailbox EXCEPT ![l] = <<>>]
  <2>1. CASE WorkerStart(l)
    <3>1. mailbox[l] = <<>>
      BY <2>1 DEF WorkerStart, Shape, LaneShape, Owners, IdleMailbox
    <3>2. q = pending[l] /\ mailbox' = [mailbox EXCEPT ![l] = <<>>]
      BY <2>1, <3>1, <1>0 DEF WorkerStart
    <3> QED
      BY <2>1, <3>2 DEF WorkerStart
  <2>2. CASE WorkerNext(l) \/ WorkerRaised(l)
    BY <2>2 DEF WorkerNext, WorkerRaised
  <2> QED
    BY <2>1, <2>2
<1> HIDE DEF q
<1>2. /\ UNCHANGED <<accepted, req, durable, finalizers>>
      /\ \A h \in Turns : ToSet(merged'[h]) \subseteq ToSet(merged[h])
  BY EmptySeq, EmptyElements DEF WorkerStart, WorkerNext, WorkerRaised, Shape, TypeOK
<1>3. /\ ToSet(pending'[l]) \subseteq ToSet(q)
      /\ running'[l] = NoTurn \/ running'[l] \in ToSet(q)
      /\ running'[l] # NoTurn => task'[l] = "fresh"
      /\ verdict'[l] = "none" /\ ToSet(mailbox'[l]) = {}
      /\ \A k \in Sessions \ {l} :
           /\ pending'[k] = pending[k] /\ mailbox'[k] = mailbox[k]
           /\ running'[k] = running[k] /\ task'[k] = task[k] /\ verdict'[k] = verdict[k]
  <2>1. q # <<>> => Head(q) \in ToSet(q) /\ ToSet(Tail(q)) \subseteq ToSet(q)
    BY <1>0, TailElements
  <2>2. \A k \in Sessions \ {l} :
           /\ pending'[k] = pending[k] /\ mailbox'[k] = mailbox[k]
           /\ running'[k] = running[k] /\ task'[k] = task[k] /\ verdict'[k] = verdict[k]
    BY <1>0, <1>1 DEF TakeNext
  <2>3. verdict'[l] = "none" /\ ToSet(mailbox'[l]) = {}
    BY <1>0, <1>1, EmptyElements DEF TakeNext
  <2>4. CASE q = <<>>
    BY <2>2, <2>3, <2>4, <1>0, <1>1, EmptyElements DEF TakeNext
  <2>5. CASE q # <<>>
    BY <2>5, <1>0, <1>1, <2>1, <2>2, <2>3 DEF TakeNext
  <2> QED
    BY <2>4, <2>5
<1>4. Accepted' = Accepted
      /\ \A t \in Accepted : t \in Turns /\ LaneOf(t)' = LaneOf(t) /\ LaneOf(t) \in Sessions
  BY <1>2, TurnFacts DEF Accepted, LaneOf
<1>5. \A t \in Accepted : \/ future'[t] = future[t] \/ future'[t] \notin Terminal
                          \/ t = running[l] /\ durable[t] = future'[t]
  <2>1. CASE WorkerNext(l)
    <3>1. running[l] \in Accepted /\ LaneOf(running[l]) = l /\ verdict[l] \in Terminal
      BY <2>1 DEF WorkerNext, Shape, LaneShape
    <3>2. durable[running[l]] = verdict[l]
      BY <3>1 DEF Records, RecordOf, Served, TaskRecord
    <3>3. future' = [future EXCEPT ![running[l]] =
                       IF @ = "open" THEN verdict[l] ELSE @]
      BY <2>1 DEF WorkerNext
    <3> QED
      BY <3>1, <3>2, <3>3, <1>0, <1>4
  <2>2. CASE WorkerStart(l) \/ WorkerRaised(l)
    BY <2>2, <1>4 DEF WorkerStart, WorkerRaised, Terminal
  <2> QED
    BY <2>1, <2>2
<1>6. ASSUME NEW t \in Accepted, LaneOf(t) # l
      PROVE  RecordOf(t)'
  <2>1. RecordOf(t) /\ t # running[l]
    BY <1>0, <1>4, <1>6 DEF Records, Shape, LaneShape
  <2>2. /\ Queued(t)' => Queued(t)
        /\ Boxed(t)' => Boxed(t)
        /\ Served(t)' => Served(t)
        /\ Withdrawing(t)' => Withdrawing(t)
        /\ Hosted(t)' => Hosted(t)
    BY <1>2, <1>3, <1>4, <1>6 DEF Queued, Boxed, Served, Withdrawing, Hosted
  <2> QED
    BY <1>2, <1>3, <1>4, <1>5, <1>6, <2>1, <2>2, RecordKept DEF Waiting
<1>7. ASSUME NEW t \in Accepted, LaneOf(t) = l
      PROVE  RecordOf(t)'
  <2>1. RecordOf(t) /\ durable'[t] = durable[t] /\ LaneOf(t)' = l
    BY <1>2, <1>4, <1>7 DEF Records
  <2>2. /\ Queued(t)' => Queued(t) \/ Boxed(t)
        /\ ~Boxed(t)'
        /\ Served(t)' => (Queued(t) \/ Boxed(t)) /\ task'[l] = "fresh" /\ verdict'[l] = "none"
        /\ Withdrawing(t)' => Withdrawing(t)
    BY <1>0, <1>2, <1>3, <1>4, <1>7, <2>1 DEF Queued, Boxed, Served, Withdrawing
  <2>3. ~Hosted(t)'
    <3> SUFFICES ASSUME running'[l] \in Turns, t \in ToSet(merged'[running'[l]])
                 PROVE  FALSE
      BY <2>1 DEF Hosted
    <3>1. running[l] = running'[l] /\ running'[l] \in ToSet(q)
      BY <1>0, <1>2, <1>3, <1>7 DEF Owners, HostsRun
    <3>2. running[l] \in Accepted /\ LaneOf(running[l]) = l /\ Served(running[l])
      BY <1>0, <3>1 DEF Shape, LaneShape, Served
    <3>3. Queued(running[l]) \/ Boxed(running[l])
      BY <1>0, <3>1, <3>2 DEF Queued, Boxed
    <3> QED
      BY <3>2, <3>3 DEF Owners, OwnersAreExclusive
  <2>4. Waiting(t)' => Waiting(t)
    BY <2>2, <2>3 DEF Waiting
  <2>5. future'[t] \in Terminal => durable[t] = future'[t]
    BY <1>5, <2>1 DEF RecordOf
  <2>6. Served(t)' => TaskRecord(t, l)'
    BY <2>1, <2>2 DEF RecordOf, Waiting, TaskRecord, Terminal
  <2> QED
    BY <2>1, <2>4, <2>5, <2>6 DEF RecordOf
<1> QED
  BY <1>4, <1>6, <1>7 DEF Records

(* The store takes the outcome of the host for the merged turn, or the     *)
(* handle is told that it did not.                                         *)
LEMMA SettleKeepsRecords ==
  ASSUME Shape, Owners, Records, NEW l \in Sessions, SettleMerged(l)
  PROVE  Records'
<1>1. PICK h \in Turns : /\ h = running[l] /\ h \in Accepted /\ LaneOf(h) = l
                         /\ merged[h] # <<>> /\ merged[h] \in Seq(Turns)
                         /\ merged' = [merged EXCEPT ![h] = Tail(@)]
  BY AcceptedAreTurns DEF SettleMerged, Shape, LaneShape, TypeOK
<1>2. PICK m \in Turns, r \in Verdicts :
        /\ m = Head(merged[h]) /\ future' = [future EXCEPT ![m] = r]
        /\ CompleteInjected(m, verdict[l], r) /\ verdict[l] \in Terminal
  BY <1>1, TailElements DEF SettleMerged
<1>3. /\ UNCHANGED <<accepted, req, pending, mailbox, running, task, verdict, finalizers>>
      /\ future \in [Turns -> Verdicts \cup {"none", "open"}]
      /\ durable \in [Turns -> Terminal \cup {"none", "accepted", "running"}]
      /\ merged \in [Turns -> Seq(Turns)]
  BY DEF SettleMerged, lanes, Shape, TypeOK
<1>4. Accepted' = Accepted
      /\ \A t \in Accepted : t \in Turns /\ LaneOf(t)' = LaneOf(t) /\ LaneOf(t) \in Sessions
  BY <1>3, TurnFacts DEF Accepted, LaneOf
<1>5. /\ ToSet(merged[h]) = ToSet(merged'[h]) \cup {m} /\ m \notin ToSet(merged'[h])
      /\ \A g \in Turns \ {h} : merged'[g] = merged[g]
  BY <1>1, <1>3, <1>2, TailElements DEF Owners, Unrepeated
<1>6. m \in Accepted /\ Hosted(m) /\ LaneOf(m) = l
  <2>1. m \in Accepted /\ running[LaneOf(m)] = h
    BY <1>1, <1>5 DEF Shape, MergedKnown, Owners, HostsRun
  <2>2. LaneOf(m) = l
    BY <1>1, <1>4, <2>1, AcceptedAreTurns DEF Shape, LaneShape
  <2> QED
    BY <2>1, <2>2, <1>1, <1>5 DEF Hosted
<1>7. OneOwner(m) /\ RecordOf(m)
  BY <1>3, <1>6, OwnersTurnByTurn DEF Records
<1>8. /\ r \in Terminal => durable'[m] = r
      /\ \A t \in Accepted : t # m => durable'[t] = durable[t] /\ future'[t] = future[t]
      /\ future'[m] = r
  BY <1>2, <1>3, <1>4, <1>6 DEF CompleteInjected, Terminal
<1>9. ASSUME NEW t \in Accepted
      PROVE  /\ Queued(t)' <=> Queued(t)
             /\ Boxed(t)' <=> Boxed(t)
             /\ Served(t)' <=> Served(t)
             /\ Withdrawing(t)' <=> Withdrawing(t)
             /\ Hosted(t)' => Hosted(t) /\ t # m
  <2>1. t # m \/ running[LaneOf(t)] = h
    BY <1>1, <1>6
  <2>2. Hosted(t)' => Hosted(t) /\ t # m
    BY <1>3, <1>4, <1>5, <2>1 DEF Hosted
  <2> QED
    BY <1>3, <1>4, <2>2 DEF Queued, Boxed, Served, Withdrawing
<1>10. ASSUME NEW t \in Accepted, t # m
       PROVE  RecordOf(t)'
  BY <1>3, <1>4, <1>8, <1>9, <1>10, RecordKept DEF Records, Waiting
<1>11. RecordOf(m)'
  BY <1>6, <1>7, <1>8, <1>9 DEF OneOwner, RecordOf, Waiting
<1> QED
  BY <1>4, <1>10, <1>11 DEF Records

LEMMA FinishCancelKeepsRecords ==
  ASSUME Shape, Owners, Records, NEW t \in Turns, FinishCancel(t)
  PROVE  Records'
<1>1. PICK r \in Verdicts :
        /\ ExecutorCancel(t, r)
        /\ future' = [future EXCEPT ![t] = IF @ = "open" THEN r ELSE @]
  BY DEF FinishCancel
<1>2. /\ UNCHANGED <<accepted, req, pending, mailbox, running, task, verdict, merged>>
      /\ t \in finalizers /\ finalizers' = finalizers \ {t} /\ t \in Accepted
      /\ future \in [Turns -> Verdicts \cup {"none", "open"}]
      /\ durable \in [Turns -> Terminal \cup {"none", "accepted", "running"}]
  BY DEF FinishCancel, lanes, Shape, TypeOK, Owners, FinalizersKnown
<1>3. Accepted' = Accepted
      /\ \A u \in Accepted : u \in Turns /\ LaneOf(u)' = LaneOf(u)
  BY <1>2, TurnFacts DEF Accepted, LaneOf
<1>4. ASSUME NEW u \in Accepted
      PROVE  (Waiting(u)' => Waiting(u)) /\ (Served(u)' <=> Served(u))
  BY <1>2, <1>3, WaitingKept
<1>5. ASSUME NEW u \in Accepted, u # t
      PROVE  RecordOf(u)'
  BY <1>1, <1>2, <1>3, <1>5, <1>4, RecordKept DEF ExecutorCancel, Records
<1>6. RecordOf(t)'
  <2>1. OneOwner(t) /\ RecordOf(t) /\ Withdrawing(t)
    BY <1>2, OwnersTurnByTurn DEF Records, Withdrawing
  <2>2. ~Queued(t) /\ ~Boxed(t) /\ ~Hosted(t) /\ ~Served(t) /\ ~Withdrawing(t)'
    BY <1>2, <2>1 DEF OneOwner, Withdrawing
  <2>3. ~Queued(t)' /\ ~Boxed(t)' /\ ~Hosted(t)' /\ ~Served(t)'
    BY <1>2, <1>3, <2>2 DEF Queued, Boxed, Hosted, Served
  <2>4. future'[t] \in Terminal => durable'[t] = future'[t]
    BY <2>1, <1>1, <1>2 DEF OneOwner, Held, ExecutorCancel, Terminal
  <2> QED
    BY <2>2, <2>3, <2>4 DEF RecordOf, Waiting
<1> QED
  BY <1>3, <1>5, <1>6 DEF Records

(* A turn that only moves from one waiting place to another keeps its      *)
(* record.                                                                 *)
LEMMA MovesKeepRecords ==
  ASSUME Shape, Owners, Records,
         UNCHANGED <<accepted, req, running, task, verdict, future, durable>>,
         \A t \in Accepted : Waiting(t)' => Waiting(t)
  PROVE  Records'
<1>1. Accepted' = Accepted
      /\ \A t \in Accepted : LaneOf(t)' = LaneOf(t) /\ (Served(t)' <=> Served(t))
  BY DEF Accepted, LaneOf, Served
<1> QED
  BY <1>1, RecordKept DEF Records

LEMMA DrainPendingKeepsRecords ==
  ASSUME Shape, Owners, Records, NEW L \in SUBSET Sessions, DrainPending(L),
         UNCHANGED <<accepted, req, running, task, verdict, merged, future, durable>>
  PROVE  Records'
<1>1. \A k \in Sessions : /\ ToSet(pending'[k]) \subseteq ToSet(pending[k])
                          /\ ToSet(mailbox'[k]) \subseteq ToSet(mailbox[k])
  BY EmptyElements DEF DrainPending
<1>2. \A u \in QueuedIn(L) : u \in Accepted => Queued(u) \/ Boxed(u)
  <2> SUFFICES ASSUME NEW k \in L, NEW u \in ToSet(pending[k]) \cup ToSet(mailbox[k])
               PROVE  Queued(u) \/ Boxed(u)
    BY DEF QueuedIn
  <2>1. k \in Sessions
    OBVIOUS
  <2>2. LaneOf(u) = k
    BY <2>1 DEF Shape, LaneContents
  <2> QED
    BY <2>2 DEF Queued, Boxed
<1>3. ASSUME NEW t \in Accepted
      PROVE  Waiting(t)' => Waiting(t)
  <2>1. LaneOf(t)' = LaneOf(t) /\ LaneOf(t) \in Sessions
    BY TurnFacts DEF LaneOf
  <2>2. (Queued(t)' => Queued(t)) /\ (Boxed(t)' => Boxed(t)) /\ (Hosted(t)' <=> Hosted(t))
    BY <1>1, <2>1 DEF Queued, Boxed, Hosted
  <2>3. Withdrawing(t)' => Withdrawing(t) \/ Queued(t) \/ Boxed(t)
    BY <1>2 DEF Withdrawing, DrainPending
  <2> QED
    BY <2>2, <2>3 DEF Waiting
<1> QED
  BY <1>3, MovesKeepRecords

LEMMA CancelQueuedKeepsRecords ==
  ASSUME Shape, Owners, Records, NEW t \in Turns, CancelQueued(t)
  PROVE  Records'
<1>1. PICK l \in Sessions : l = LaneOf(t) /\ t \in Accepted
  BY TurnFacts DEF CancelQueued
<1>2. /\ pending \in [Sessions -> Seq(Turns)] /\ mailbox \in [Sessions -> Seq(Turns)]
      /\ UNCHANGED <<accepted, req, running, task, verdict, merged, future, durable>>
      /\ finalizers' = finalizers \cup {t}
  BY DEF CancelQueued, Shape, TypeOK
<1>3. /\ \A k \in Sessions : /\ ToSet(pending'[k]) \subseteq ToSet(pending[k])
                             /\ ToSet(mailbox'[k]) \subseteq ToSet(mailbox[k])
      /\ Queued(t) \/ Boxed(t)
  <2>1. CASE \E i \in DOMAIN pending[l] :
               /\ pending[l][i] = t
               /\ pending' = [pending EXCEPT ![l] = RemoveAt(@, i)]
               /\ UNCHANGED mailbox
    <3>1. t \in ToSet(pending[l])
      BY <2>1 DEF ToSet
    <3> QED
      BY <2>1, <3>1, <1>1, <1>2, RemoveElements DEF Queued
  <2>2. CASE \E i \in DOMAIN mailbox[l] :
               /\ mailbox[l][i] = t
               /\ mailbox' = [mailbox EXCEPT ![l] = RemoveAt(@, i)]
               /\ UNCHANGED pending
    <3>1. t \in ToSet(mailbox[l])
      BY <2>2 DEF ToSet
    <3> QED
      BY <2>2, <3>1, <1>1, <1>2, RemoveElements DEF Boxed
  <2> QED
    BY <2>1, <2>2, <1>1 DEF CancelQueued
<1>4. ASSUME NEW u \in Accepted
      PROVE  Waiting(u)' => Waiting(u)
  BY <1>2, <1>3, TurnFacts DEF LaneOf, Queued, Boxed, Hosted, Withdrawing, Waiting
<1> QED
  BY <1>2, <1>4, MovesKeepRecords

LEMMA DrainKeepsRecords ==
  ASSUME Shape, Owners, Records, NEW t \in Turns, Drain(t)
  PROVE  Records'
<1>1. PICK l \in Sessions : l = LaneOf(t) /\ t \in Accepted /\ running[l] = t
  BY TurnFacts DEF Drain, MayDrain, Shape, ThreadsKnown
<1>2. /\ mailbox \in [Sessions -> Seq(Turns)] /\ merged \in [Turns -> Seq(Turns)]
      /\ UNCHANGED <<accepted, req, pending, running, task, verdict, future,
                     finalizers, durable>>
      /\ merged' = [merged EXCEPT ![t] = @ \o mailbox[l]]
      /\ mailbox' = [mailbox EXCEPT ![l] = <<>>]
  BY <1>1 DEF Drain, Shape, TypeOK
<1>3. /\ \A k \in Sessions : ToSet(mailbox'[k]) \subseteq ToSet(mailbox[k])
      /\ \A h \in Turns : ToSet(merged'[h]) \subseteq ToSet(merged[h])
                            \cup (IF h = t THEN ToSet(mailbox[l]) ELSE {})
  BY <1>1, <1>2, ConcatElements, EmptyElements
<1>4. ASSUME NEW u \in Accepted
      PROVE  Waiting(u)' => Waiting(u)
  <2>1. LaneOf(u)' = LaneOf(u) /\ LaneOf(u) \in Sessions
    BY <1>2, TurnFacts DEF LaneOf
  <2>2. (Queued(u)' => Queued(u)) /\ (Boxed(u)' => Boxed(u))
           /\ (Withdrawing(u)' <=> Withdrawing(u))
    BY <1>2, <1>3, <2>1 DEF Queued, Boxed, Withdrawing
  <2>3. \A k \in ToSet(mailbox[l]) : LaneOf(k) = l
    BY DEF Shape, LaneContents
  <2>4. Hosted(u)' => Hosted(u) \/ Boxed(u)
    BY <1>2, <1>3, <2>1, <2>3 DEF Hosted, Boxed
  <2> QED
    BY <2>2, <2>4 DEF Waiting
<1> QED
  BY <1>2, <1>4, MovesKeepRecords

LEMMA NextKeepsRecords ==
  Shape /\ Owners /\ Records /\ [Next]_vars => Records'
<1> SUFFICES ASSUME Shape, Owners, Records, [Next]_vars PROVE Records'
  OBVIOUS
<1>0. ASSUME UNCHANGED <<accepted, req, lanes, merged, future, finalizers, durable>>
      PROVE  Records'
  BY <1>0, MovesKeepRecords DEF lanes, Waiting, Queued, Boxed, Hosted, Withdrawing, LaneOf
<1>1. ASSUME NEW r \in Requests, Submit(r)
      PROVE  Records'
  BY <1>1, SubmitKeepsRecords
<1>2. ASSUME NEW l \in Sessions, LaneStep(l)
      PROVE  Records'
  BY <1>2, LaneMovesOnKeepsRecords, SettleKeepsRecords, LaneTaskStepsKeepRecords
     DEF LaneStep
<1>3. ASSUME NEW t \in Turns, TurnStep(t)
      PROVE  Records'
  <2>1. CASE CancelRunning(t) \/ ThreadExit(t)
    BY <2>1, <1>0 DEF CancelRunning, ThreadExit
  <2> QED
    BY <1>3, <2>1, CancelQueuedKeepsRecords, FinishCancelKeepsRecords,
       DrainKeepsRecords DEF TurnStep
<1>4. ASSUME NEW l \in Sessions, CancelSession(l)
      PROVE  Records'
  BY <1>4, DrainPendingKeepsRecords DEF CancelSession
<1>5. CASE DrainLanes
  BY <1>5, DrainPendingKeepsRecords DEF DrainLanes
<1>6. CASE BeginShutdown \/ EndGrace \/ JoinAll \/ Closed \/ UNCHANGED vars
  BY <1>6, <1>0 DEF BeginShutdown, EndGrace, JoinAll, Closed, vars
<1> QED
  BY <1>1, <1>2, <1>3, <1>4, <1>5, <1>6 DEF Next

(* The order of a lane's queue, through every operation on it. *)
LEMMA NextKeepsOrder ==
  Shape /\ Owners /\ InOrder /\ [Next]_vars => InOrder'
<1> SUFFICES ASSUME Shape, Owners, InOrder, [Next]_vars PROVE InOrder'
  OBVIOUS
<1>0. /\ pending \in [Sessions -> Seq(Turns)] /\ mailbox \in [Sessions -> Seq(Turns)]
      /\ Turns \in SUBSET Int /\ Accepted \subseteq Turns
      /\ \A l \in Sessions : /\ Rising(pending[l], Appended)
                             /\ ToSet(mailbox[l]) \cap Appended = {}
  BY MaxTurnsAssumption, AcceptedAreTurns DEF Shape, TypeOK, InOrder, Turns
<1>1. ASSUME NEW r \in Requests, Submit(r)
      PROVE  InOrder'
  <2> DEFINE l == r.session
             A == Appended'
  <2>0. PICK t \in Turns : t = accepted + 1
    BY <1>1 DEF Submit
  <2>1. /\ t \notin Accepted /\ l \in Sessions /\ Accepted' = Accepted \cup {t}
        /\ \A u \in Accepted : u < t
    BY <1>1, <2>0, MaxTurnsAssumption DEF Submit, Shape, TypeOK, Turns, Accepted, Requests
  <2>2. /\ req'[t] = r /\ \A u \in Accepted : req'[u] = req[u]
        /\ LaneSubmit(t, l, r.busy)
    BY <1>1, <2>0, <2>1 DEF Submit, Shape, TypeOK
  <2>3. /\ \A u \in Accepted : u \in A <=> u \in Appended
        /\ t \in A <=> r.busy = "append"
    BY <2>1, <2>2 DEF Appended
  <2> HIDE DEF A, l
  <2>4. /\ \A k \in Sessions : \A u \in ToSet(pending[k]) \cup ToSet(mailbox[k]) :
              u \in Accepted
    BY DEF Shape, LaneContents
  <2>5. \A k \in Sessions : Rising(pending[k], A) /\ ToSet(mailbox[k]) \cap A = {}
    BY <2>4, <1>0, <2>3 DEF ToSet, Rising
  <2>6. CASE SubmitInject(t, l) /\ r.busy = "inject"
    BY <1>0, <2>1, <2>3, <2>5, <2>6, AppendElements DEF SubmitInject, InOrder, A
  <2>7. CASE SubmitInterrupt(t, l) /\ r.busy = "interrupt"
    BY <1>0, <2>1, <2>3, <2>5, <2>7, RisingGrows DEF SubmitInterrupt, InOrder, A
  <2>8. CASE SubmitAppend(t, l)
    BY <1>0, <2>1, <2>4, <2>5, <2>8, RisingGrows DEF SubmitAppend, InOrder, A
  <2> QED
    BY <2>2, <2>6, <2>7, <2>8 DEF LaneSubmit
<1>2. ASSUME UNCHANGED <<accepted, req>>,
             \A l \in Sessions : /\ Rising(pending'[l], Appended)
                                 /\ ToSet(mailbox'[l]) \subseteq ToSet(mailbox[l])
      PROVE  InOrder'
  BY <1>2, <1>0 DEF Appended, Accepted, InOrder
<1>3. ASSUME NEW l \in Sessions, WorkerStart(l) \/ WorkerNext(l) \/ WorkerRaised(l)
      PROVE  InOrder'
  <2>1. PICK q \in Seq(Turns) : TakeNext(l, q) /\ Rising(q, Appended)
    <3>1. CASE WorkerStart(l)
      BY <1>0, <3>1 DEF WorkerStart
    <3>2. CASE WorkerNext(l) \/ WorkerRaised(l)
      <4>1. pending[l] \o mailbox[l] \in Seq(Turns) /\ TakeNext(l, pending[l] \o mailbox[l])
        BY <3>2, LeftoverQueue DEF WorkerNext, WorkerRaised
      <4>2. Rising(pending[l] \o mailbox[l], Appended)
        BY <1>0, RisingGrows
      <4> QED
        BY <4>1, <4>2
    <3> QED
      BY <1>3, <3>1, <3>2
  <2>2. \A k \in Sessions : Rising(pending'[k], Appended)
    <3>1. q # <<>> => Rising(Tail(q), Appended)
      BY <1>0, <2>1, RisingShrinks
    <3> QED
      BY <1>0, <2>1, <3>1 DEF TakeNext
  <2>3. \A k \in Sessions : ToSet(mailbox'[k]) \subseteq ToSet(mailbox[k])
    BY <1>0, <1>3, EmptyElements DEF WorkerStart, WorkerNext, WorkerRaised
  <2> QED
    BY <1>2, <1>3, <2>2, <2>3 DEF WorkerStart, WorkerNext, WorkerRaised
<1>4. ASSUME NEW t \in Turns, CancelQueued(t)
      PROVE  InOrder'
  <2>1. PICK l \in Sessions : l = LaneOf(t)
    BY <1>4, TurnFacts DEF CancelQueued
  <2>2. \A i \in DOMAIN pending[l] : Rising(RemoveAt(pending[l], i), Appended)
    BY <1>0, RisingShrinks
  <2>3. \A i \in DOMAIN mailbox[l] :
          ToSet(RemoveAt(mailbox[l], i)) \subseteq ToSet(mailbox[l])
    BY <1>0, RemoveElements
  <2>4. \A k \in Sessions : /\ Rising(pending'[k], Appended)
                            /\ ToSet(mailbox'[k]) \subseteq ToSet(mailbox[k])
    BY <1>0, <1>4, <2>1, <2>2, <2>3 DEF CancelQueued
  <2> QED
    BY <1>2, <1>4, <2>4 DEF CancelQueued
<1>5. ASSUME NEW t \in Turns, Drain(t)
      PROVE  InOrder'
  BY <1>0, <1>2, <1>5, EmptyElements DEF Drain
<1>6. ASSUME NEW L, DrainPending(L), UNCHANGED <<accepted, req>>
      PROVE  InOrder'
  BY <1>0, <1>2, <1>6, EmptyElements DEF Rising, DrainPending
<1>7. ASSUME UNCHANGED <<accepted, req, pending, mailbox>>
      PROVE  InOrder'
  BY <1>0, <1>2, <1>7
<1>8. CASE \E l \in Sessions : LaneStep(l)
  BY <1>3, <1>7, <1>8 DEF LaneStep, SettleMerged, lanes, TaskStep, TaskStart,
     Acquire, AbandonWait, AbandonGrant, Withdrawn, BeginRun, RunEnds,
     ObserveCancel, AbortEnds, ReleasePermit, TaskDone
<1>9. CASE \E t \in Turns : TurnStep(t)
  BY <1>4, <1>5, <1>7, <1>9 DEF TurnStep, CancelRunning, FinishCancel, ThreadExit, lanes
<1>10. CASE \/ \E l \in Sessions : CancelSession(l)
            \/ BeginShutdown \/ DrainLanes \/ EndGrace \/ JoinAll \/ Closed
            \/ UNCHANGED vars
  BY <1>6, <1>7, <1>10 DEF CancelSession, BeginShutdown, DrainLanes, EndGrace, JoinAll,
     Closed, vars, lanes
<1> QED
  BY <1>1, <1>8, <1>9, <1>10 DEF Next

(* What the handles answer, what the run store is asked and the order of a *)
(* queue agree: AnswerIsRecorded, NeverRefused and AppendsInOrder together.*)
THEOREM RecordsAndHandlesAgree ==
  Spec => []RecordsAgree
<1>1. Init => Records /\ InOrder
  <2> SUFFICES ASSUME Init PROVE Records /\ InOrder
    OBVIOUS
  <2>1. Accepted = {}
    BY DEF Init, Accepted
  <2> QED
    BY <2>1, EmptyElements DEF Init, Records, InOrder, Rising, Appended
<1>2. Shape /\ Owners /\ Records /\ InOrder => RecordsAgree
  <2> SUFFICES ASSUME Shape, Owners, Records, InOrder PROVE RecordsAgree
    OBVIOUS
  <2>1. AnswerIsRecorded
    <3> SUFFICES ASSUME NEW t \in Turns, future[t] \in Terminal
                 PROVE  durable[t] = future[t]
      BY DEF AnswerIsRecorded
    <3>1. t \in Accepted
      BY DEF Shape, KnownRequests, Terminal
    <3> QED
      BY <3>1 DEF Records, RecordOf
  <2>2. NeverRefused
    <3>1. \A t \in finalizers : durable[t] = "accepted"
      BY DEF Owners, FinalizersKnown, Records, RecordOf, Waiting, Withdrawing
    <3>2. ASSUME NEW l \in Sessions, task[l] \in {"wait", "granted", "withdraw"}
          PROVE  durable[running[l]] = "accepted"
      BY <3>2 DEF Shape, LaneShape, Records, RecordOf, Served, TaskRecord
    <3>3. ASSUME NEW l \in Sessions, running[l] \in Turns,
                 NEW t \in ToSet(merged[running[l]])
          PROVE  durable[t] = "accepted"
      BY <3>3 DEF Shape, MergedKnown, Owners, HostsRun, Records, RecordOf, Waiting, Hosted
    <3> QED
      BY <3>1, <3>2, <3>3 DEF NeverRefused
  <2>3. AppendsInOrder
    <3> SUFFICES ASSUME NEW l \in Sessions, NEW i \in DOMAIN pending[l],
                        NEW j \in DOMAIN pending[l], i < j,
                        req[pending[l][i]].busy = "append",
                        req[pending[l][j]].busy = "append"
                 PROVE  pending[l][i] < pending[l][j]
      BY DEF AppendsInOrder
    <3>1. pending[l][i] \in Accepted /\ pending[l][j] \in Accepted
      BY DEF Shape, LaneContents, ToSet
    <3> QED
      BY <3>1 DEF InOrder, Rising, Appended
  <2> QED
    BY <2>1, <2>2, <2>3 DEF RecordsAgree, Shape
<1> QED
  BY <1>1, <1>2, InitShape, NextKeepsShape, InitOwners, NextKeepsOwners,
     NextKeepsRecords, NextKeepsOrder, PTL DEF Spec

LEMMA NextKeepsRest ==
  Shape /\ Owners /\ AtRest /\ [Next]_vars => AtRest'
<1> SUFFICES ASSUME Shape, Owners, AtRest, [Next]_vars PROVE AtRest'
  OBVIOUS
<1>0. /\ pending \in [Sessions -> Seq(Turns)] /\ mailbox \in [Sessions -> Seq(Turns)]
      /\ worker \in [Sessions -> {"idle", "ready", "await"}]
      /\ \A l \in Sessions : /\ worker[l] = "idle" => pending[l] = <<>> /\ mailbox[l] = <<>>
                             /\ task[l] # "none" <=> worker[l] = "await"
  BY DEF Shape, TypeOK, LaneShape, AtRest, Owners, IdleMailbox
<1>1. ASSUME NEW r \in Requests, Submit(r)
      PROVE  AtRest'
  <2>1. /\ shutdown = "up" /\ shutdown' = "up" /\ r.session \in Sessions
        /\ LaneSubmit(accepted + 1, r.session, r.busy)
    BY <1>1 DEF Submit, Requests
  <2>2. \A l \in Sessions : worker'[l] = "idle" => pending'[l] = <<>>
    <3>1. CASE SubmitInject(accepted + 1, r.session)
      BY <3>1, <1>0 DEF SubmitInject
    <3>2. CASE TaskLive(r.session) /\ SubmitInterrupt(accepted + 1, r.session)
      BY <3>2, <2>1, <1>0 DEF SubmitInterrupt, TaskLive
    <3>3. CASE SubmitAppend(accepted + 1, r.session)
      BY <3>3, <2>1, <1>0 DEF SubmitAppend
    <3> QED
      BY <2>1, <3>1, <3>2, <3>3 DEF LaneSubmit
  <2> QED
    BY <2>1, <2>2 DEF AtRest
<1>2. ASSUME NEW l \in Sessions, WorkerStart(l) \/ WorkerNext(l) \/ WorkerRaised(l)
      PROVE  AtRest'
  <2>1. PICK q : TakeNext(l, q)
    BY <1>2 DEF WorkerStart, WorkerNext, WorkerRaised
  <2>2. worker[l] # "idle" /\ UNCHANGED <<shutdown, finalizers>>
    BY <1>2 DEF WorkerStart, WorkerNext, WorkerRaised
  <2>3. \A k \in Sessions : worker'[k] = "idle" => pending'[k] = <<>>
    BY <1>0, <2>1 DEF TakeNext
  <2> QED
    BY <2>2, <2>3 DEF AtRest
<1>3. ASSUME UNCHANGED worker,
             \A l \in Sessions : pending[l] = <<>> => pending'[l] = <<>>,
             \/ UNCHANGED <<shutdown, finalizers>>
             \/ shutdown' # "closed"
      PROVE  AtRest'
  BY <1>3 DEF AtRest
<1>4. ASSUME NEW L \in SUBSET Sessions, DrainPending(L), UNCHANGED worker,
             shutdown' = shutdown \/ shutdown' # "closed"
      PROVE  AtRest'
  <2>1. \A l \in Sessions : pending[l] = <<>> => pending'[l] = <<>>
    BY <1>4 DEF DrainPending
  <2>2. CASE shutdown' # "closed"
    BY <1>3, <1>4, <2>1, <2>2
  <2>3. CASE shutdown = "closed" /\ shutdown' = shutdown
    BY <1>0, <2>3, <1>4, <1>3, <2>1, EmptyElements DEF AtRest, QueuedIn, DrainPending
  <2> QED
    BY <1>4, <2>2, <2>3
<1>5. ASSUME NEW t \in Turns, CancelQueued(t)
      PROVE  AtRest'
  <2>1. PICK l \in Sessions : l = LaneOf(t)
    BY <1>5, TurnFacts DEF CancelQueued
  <2>2. DOMAIN <<>> = {}
    OBVIOUS
  <2>3. /\ pending[l] = <<>> => pending' = pending
        /\ pending[l] # <<>> \/ mailbox[l] # <<>>
        /\ \A k \in Sessions \ {l} : pending'[k] = pending[k]
    BY <1>0, <1>5, <2>1, <2>2 DEF CancelQueued
  <2>4. shutdown # "closed" /\ UNCHANGED <<worker, shutdown>>
    BY <1>0, <1>5, <2>3 DEF AtRest, CancelQueued
  <2> QED
    BY <1>3, <2>3, <2>4
<1>6. ASSUME NEW t \in Turns, FinishCancel(t)
      PROVE  AtRest'
  BY <1>6, <1>3 DEF FinishCancel, AtRest, lanes
<1>7. CASE JoinAll
  BY <1>7 DEF JoinAll, AtRest, lanes
<1>8. CASE \E l \in Sessions : LaneStep(l)
  <2>1. PICK l \in Sessions : LaneStep(l)
    BY <1>8
  <2>2. CASE WorkerStart(l) \/ WorkerNext(l) \/ WorkerRaised(l)
    BY <2>2, <1>2
  <2>3. CASE UNCHANGED <<worker, pending, shutdown, finalizers>>
    BY <2>3, <1>3
  <2> QED
    BY <2>1, <2>2, <2>3 DEF LaneStep, SettleMerged, lanes, TaskStep, TaskStart,
       Acquire, AbandonWait, AbandonGrant, Withdrawn, BeginRun, RunEnds,
       ObserveCancel, AbortEnds, ReleasePermit, TaskDone
<1>9. CASE \E t \in Turns : CancelRunning(t) \/ Drain(t) \/ ThreadExit(t)
  BY <1>3, <1>9 DEF CancelRunning, Drain, ThreadExit, lanes
<1>10. CASE \E l \in Sessions : CancelSession(l)
  BY <1>4, <1>10 DEF CancelSession
<1>11. CASE DrainLanes
  BY <1>4, <1>11 DEF DrainLanes
<1>12. CASE BeginShutdown \/ EndGrace \/ Closed \/ UNCHANGED vars
  BY <1>3, <1>12 DEF BeginShutdown, EndGrace, Closed, vars, lanes
<1> QED
  BY <1>1, <1>5, <1>6, <1>7, <1>8, <1>9, <1>10, <1>11, <1>12 DEF Next, TurnStep

(* When shutdown() has returned, no handle is left unanswered, no lane has *)
(* work and every permit is back: all that could hold a turn is empty, and *)
(* a turn nobody holds is answered.                                        *)
THEOREM ShutdownLeavesNothing ==
  Spec => []ClosedIsClean
<1>1. Init => AtRest /\ PermitsBalance
  <2> SUFFICES ASSUME Init PROVE AtRest /\ PermitsBalance
    OBVIOUS
  <2>1. AtRest
    BY DEF Init, AtRest
  <2>2. \A c \in Classes : Holders(c) = {} /\ free[c] = Capacity[c]
                           /\ Capacity[c] \in Nat
    BY CapacityAssumption DEF Init, Holders, Holding
  <2>3. PermitsBalance
    BY <2>2, FS_EmptySet DEF PermitsBalance
  <2> QED
    BY <2>1, <2>3
<1>2. Shape /\ Owners /\ PermitsBalance /\ AtRest => ClosedIsClean
  <2> SUFFICES ASSUME Shape, Owners, PermitsBalance, AtRest, shutdown = "closed"
               PROVE  /\ \A t \in Accepted : future[t] \in Verdicts
                      /\ \A l \in Sessions : /\ running[l] = NoTurn /\ worker[l] = "idle"
                                             /\ pending[l] = <<>> /\ mailbox[l] = <<>>
                      /\ free = Capacity
    BY DEF ClosedIsClean
  <2>1. \A l \in Sessions : /\ running[l] = NoTurn /\ worker[l] = "idle"
                            /\ pending[l] = <<>> /\ mailbox[l] = <<>>
                            /\ task[l] = "none"
    BY DEF AtRest, Shape, LaneShape, Owners, IdleMailbox
  <2>2. ASSUME NEW t \in Accepted
        PROVE  future[t] \in Verdicts
    <3>1. /\ t \in Turns /\ t # NoTurn /\ LaneOf(t) \in Sessions
          /\ future[t] \in Verdicts \cup {"none", "open"} /\ future[t] # "none"
          /\ NoTurn \notin Turns
      BY TurnFacts, AcceptedAreTurns DEF Shape, TypeOK
    <3>2. ~Held(t)
      BY <2>1, <3>1, EmptyElements
         DEF Held, Queued, Boxed, Served, Hosted, Withdrawing, AtRest
    <3> QED
      BY <3>1, <3>2 DEF Owners, HeldIsOpen
  <2>3. free = Capacity
    <3>1. \A c \in Classes : Holders(c) = {}
      BY <2>1 DEF Holders, Holding
    <3>2. /\ free \in [Classes -> Nat] /\ Capacity \in [Classes -> Nat \ {0}]
      BY CapacityAssumption DEF Shape, TypeOK
    <3>3. \A c \in Classes : free[c] = Capacity[c]
      BY <3>1, <3>2, FS_EmptySet DEF PermitsBalance
    <3> QED
      BY <3>2, <3>3
  <2> QED
    BY <2>1, <2>2, <2>3
<1> QED
  BY <1>1, <1>2, InitShape, NextKeepsShape, NextKeepsPermits, InitOwners,
     NextKeepsOwners, NextKeepsRest, PTL DEF Spec

-----------------------------------------------------------------------------
(* Layer 6: the scheduler implements TurnService.                          *)

(* A thread was started for a turn whose run is recorded, and while the    *)
(* turn is served and not cancelled its task is still in the run: so a     *)
(* thread that may still drain the mailbox drains it for an open outcome.  *)
ThreadsRun ==
  \A t \in threads :
    /\ durable[t] # "accepted"
    /\ Served(t) /\ t \notin cancelReq => task[LaneOf(t)] = "exec"

(* A record that has left "accepted" does not come back to it. *)
LEMMA RecordsMoveOn ==
  ASSUME Shape, Owners, [Next]_vars, NEW t \in Accepted, durable[t] # "accepted"
  PROVE  durable'[t] # "accepted"
<1>0. /\ durable \in [Turns -> Terminal \cup {"none", "accepted", "running"}]
      /\ t \in Turns
  BY TurnFacts DEF Shape, TypeOK
<1>1. ASSUME NEW r \in Requests, Submit(r)
      PROVE  durable'[t] # "accepted"
  BY <1>0, <1>1 DEF Accepted, Shape, TypeOK, Submit
<1>2. ASSUME NEW l \in Sessions, LaneStep(l)
      PROVE  durable'[t] # "accepted"
  <2>1. CASE SettleMerged(l)
    BY <1>0, <2>1 DEF SettleMerged, CompleteInjected, Terminal
  <2>2. CASE Withdrawn(l) \/ BeginRun(l) \/ RunEnds(l) \/ AbortEnds(l)
    BY <1>0, <2>2 DEF Withdrawn, BeginRun, RunEnds, AbortEnds, ExecutorCancel, RecordEnd
  <2> QED
    BY <1>2, <2>1, <2>2 DEF LaneStep, WorkerStart, WorkerNext, WorkerRaised, TaskStart,
       Acquire, AbandonWait, AbandonGrant, ObserveCancel, ReleasePermit, TaskDone
<1>3. ASSUME NEW u \in Turns, TurnStep(u)
      PROVE  durable'[t] # "accepted"
  BY <1>0, <1>3 DEF TurnStep, CancelQueued, CancelRunning, FinishCancel, ExecutorCancel,
     Drain, ThreadExit
<1>4. CASE UNCHANGED durable
  BY <1>4
<1> QED
  BY <1>1, <1>2, <1>3, <1>4 DEF Next, CancelSession, BeginShutdown, DrainLanes, EndGrace,
     JoinAll, Closed, vars

LEMMA NextKeepsThreads ==
  Shape /\ Owners /\ Records /\ ThreadsRun /\ [Next]_vars => ThreadsRun'
<1> SUFFICES ASSUME Shape, Owners, Records, ThreadsRun, [Next]_vars PROVE ThreadsRun'
  OBVIOUS
<1>0. /\ task \in [Sessions -> TaskPhases] /\ running \in [Sessions -> Turns \cup {NoTurn}]
      /\ \A t \in threads : /\ t \in Accepted /\ t \in Turns /\ LaneOf(t) \in Sessions
                            /\ t # NoTurn /\ durable[t] # "accepted"
  BY TurnFacts DEF Shape, TypeOK, ThreadsKnown, ThreadsRun
<1>1. ASSUME NEW l \in Sessions, BeginRun(l), threads' # threads
      PROVE  ThreadsRun'
  <2>1. PICK h \in Accepted : h = running[l] /\ h \in Turns /\ LaneOf(h) = l
    BY <1>1, TurnFacts DEF BeginRun, TaskStep, Shape, LaneShape
  <2>2. /\ durable' = [durable EXCEPT ![h] = "running"] /\ threads' = threads \cup {h}
        /\ task' = [task EXCEPT ![l] = "exec"] /\ UNCHANGED <<running, req, cancelReq>>
        /\ task[l] = "granted"
    BY <1>1, <2>1 DEF BeginRun, TaskStep
  <2>3. ASSUME NEW t \in threads'
        PROVE  durable'[t] # "accepted"
    BY <1>0, <2>1, <2>2 DEF Shape, TypeOK
  <2>4. ASSUME NEW t \in threads', Served(t)', t \notin cancelReq'
        PROVE  task'[LaneOf(t)'] = "exec"
    <3>1. Served(t) /\ LaneOf(t)' = LaneOf(t)
      BY <2>2, <2>4 DEF Served, LaneOf
    <3>2. CASE t = h
      BY <1>0, <2>1, <2>2, <3>1, <3>2
    <3>3. CASE t # h
      BY <2>2, <2>4, <3>1, <3>3, <1>0 DEF ThreadsRun
    <3> QED
      BY <3>2, <3>3
  <2> QED
    BY <2>3, <2>4 DEF ThreadsRun
(* The lanes of threads are left alone, or the thread is gone.             *)
<1>2. ASSUME threads' \subseteq threads, cancelReq \subseteq cancelReq',
             \A t \in threads' : t \in Accepted => LaneOf(t)' = LaneOf(t),
             \A t \in threads' : Served(t)' /\ t \notin cancelReq' =>
               Served(t) /\ (task[LaneOf(t)] = "exec" => task'[LaneOf(t)] = "exec")
      PROVE  ThreadsRun'
  <2>1. ASSUME NEW t \in threads'
        PROVE  durable'[t] # "accepted"
    BY <1>0, <1>2, RecordsMoveOn
  <2>2. ASSUME NEW t \in threads', Served(t)', t \notin cancelReq'
        PROVE  task'[LaneOf(t)'] = "exec"
    BY <1>0, <1>2, <2>2 DEF ThreadsRun
  <2> QED
    BY <2>1, <2>2 DEF ThreadsRun
<1>3. ASSUME NEW r \in Requests, Submit(r)
      PROVE  ThreadsRun'
  <2>1. /\ UNCHANGED <<threads, running, task>> /\ cancelReq \subseteq cancelReq'
    BY <1>3 DEF Submit, LaneSubmit, SubmitInject, SubmitInterrupt, SubmitAppend
  <2>2. \A t \in Accepted : LaneOf(t)' = LaneOf(t)
    BY <1>3 DEF Submit, Accepted, Shape, TypeOK, LaneOf
  <2>3. \A t \in threads : Served(t)' <=> Served(t)
    BY <1>0, <2>1, <2>2 DEF Served
  <2> QED
    BY <1>0, <1>2, <2>1, <2>2, <2>3
<1>4. ASSUME NEW l \in Sessions, WorkerStart(l) \/ WorkerNext(l) \/ WorkerRaised(l)
      PROVE  ThreadsRun'
  <2>1. PICK q : /\ TakeNext(l, q) /\ q \in Seq(Turns)
                 /\ ToSet(q) \subseteq ToSet(pending[l]) \cup ToSet(mailbox[l])
    <3>1. CASE WorkerStart(l)
      BY <3>1 DEF WorkerStart, Shape, TypeOK
    <3>2. CASE WorkerNext(l) \/ WorkerRaised(l)
      BY <3>2, LeftoverQueue DEF WorkerNext, WorkerRaised
    <3> QED
      BY <1>4, <3>1, <3>2
  <2>2. UNCHANGED <<req, cancelReq, threads, accepted>>
    BY <1>4 DEF WorkerStart, WorkerNext, WorkerRaised
  <2>3. ASSUME NEW t \in threads, Served(t)'
        PROVE  LaneOf(t) # l /\ Served(t) /\ task'[LaneOf(t)] = task[LaneOf(t)]
    <3>1. LaneOf(t)' = LaneOf(t)
      BY <2>2 DEF LaneOf
    <3>2. LaneOf(t) # l
      <4> SUFFICES ASSUME LaneOf(t) = l PROVE FALSE
        OBVIOUS
      <4>1. running'[l] = t
        BY <2>3, <3>1 DEF Served
      <4>2. q # <<>> /\ t = Head(q)
        BY <1>0, <2>1, <4>1 DEF TakeNext
      <4>3. Queued(t) \/ Boxed(t)
        BY <2>1, <4>2, TailElements DEF Queued, Boxed
      <4> QED
        BY <1>0, <4>3 DEF Records, RecordOf, Waiting
    <3>3. running'[LaneOf(t)] = running[LaneOf(t)] /\ task'[LaneOf(t)] = task[LaneOf(t)]
      BY <1>0, <2>1, <3>2 DEF TakeNext
    <3> QED
      BY <2>3, <3>1, <3>2, <3>3 DEF Served
  <2> QED
    BY <1>2, <2>2, <2>3 DEF LaneOf
<1>5. ASSUME NEW l \in Sessions,
             \/ TaskStart(l) \/ Acquire(l) \/ AbandonWait(l) \/ AbandonGrant(l)
             \/ Withdrawn(l) \/ ReleasePermit(l) \/ TaskDone(l) \/ AbortEnds(l)
             \/ BeginRun(l) /\ threads' = threads
      PROVE  ThreadsRun'
  <2>1. /\ threads' \subseteq threads /\ UNCHANGED <<req, cancelReq, running, accepted>>
        /\ task[l] # "exec" /\ \A k \in Sessions : k # l => task'[k] = task[k]
    BY <1>0, <1>5 DEF TaskStart, Acquire, AbandonWait, AbandonGrant, Withdrawn, BeginRun,
       AbortEnds, ReleasePermit, TaskDone, TaskStep
  <2> QED
    BY <1>0, <1>2, <2>1 DEF Served, LaneOf
<1>6. ASSUME NEW l \in Sessions, RunEnds(l) \/ ObserveCancel(l)
      PROVE  ThreadsRun'
  BY <1>0, <1>6, <1>2 DEF RunEnds, ObserveCancel, TaskStep, Served, LaneOf
<1>7. CASE /\ threads' \subseteq threads /\ cancelReq \subseteq cancelReq'
           /\ UNCHANGED <<req, accepted, running, task>>
  BY <1>2, <1>7 DEF Served, LaneOf
<1>8. CASE \E l \in Sessions : LaneStep(l)
  BY <1>1, <1>4, <1>5, <1>6, <1>7, <1>8 DEF LaneStep, SettleMerged, lanes
<1>9. CASE \E t \in Turns : TurnStep(t)
  BY <1>7, <1>9 DEF TurnStep, CancelQueued, CancelRunning, FinishCancel, Drain,
     ThreadExit, lanes
<1>10. CASE \/ \E l \in Sessions : CancelSession(l)
            \/ BeginShutdown \/ DrainLanes \/ EndGrace \/ JoinAll \/ Closed
            \/ UNCHANGED vars
  BY <1>7, <1>10 DEF CancelSession, BeginShutdown, DrainLanes, EndGrace, JoinAll,
     Closed, vars, lanes
<1> QED
  BY <1>3, <1>8, <1>9, <1>10 DEF Next

(* The abstract state, turn by turn.                                       *)
SessionOf(t) == IF t \in Accepted THEN LaneOf(t) ELSE NoTurn
HostOf(t)    == IF t \in Accepted /\ Hosted(t) THEN running[LaneOf(t)] ELSE NoTurn
VerdictOf(t) == IF t \in Accepted /\ Served(t) THEN verdict[LaneOf(t)] ELSE "none"
AnswerOf(t)  == IF future[t] \in Verdicts THEN future[t] ELSE "none"

SameView(t) ==
  /\ SessionOf(t)' = SessionOf(t) /\ ServicePhase(t)' = ServicePhase(t)
  /\ HostOf(t)' = HostOf(t) /\ VerdictOf(t)' = VerdictOf(t)
  /\ AnswerOf(t)' = AnswerOf(t)

LEMMA SameViews ==
  ASSUME \A t \in Turns : SameView(t)
  PROVE  UNCHANGED Service!vars
<1>1. [t \in Turns |-> SessionOf(t)]' = [t \in Turns |-> SessionOf(t)]
  BY DEF SameView
<1>2. [t \in Turns |-> ServicePhase(t)]' = [t \in Turns |-> ServicePhase(t)]
  BY DEF SameView
<1>3. [t \in Turns |-> HostOf(t)]' = [t \in Turns |-> HostOf(t)]
  BY DEF SameView
<1>4. [t \in Turns |-> VerdictOf(t)]' = [t \in Turns |-> VerdictOf(t)]
  BY DEF SameView
<1>5. [t \in Turns |-> AnswerOf(t)]' = [t \in Turns |-> AnswerOf(t)]
  BY DEF SameView
<1> QED
  BY <1>1, <1>2, <1>3, <1>4, <1>5
     DEF Service!vars, SessionOf, HostOf, VerdictOf, AnswerOf

(* A turn looks the same after a step that leaves its handle, its place    *)
(* and the phase of its run alone.                                         *)
LEMMA SameViewIf ==
  ASSUME NEW t \in Turns, t \in Accepted' <=> t \in Accepted,
         t \in Accepted => LaneOf(t)' = LaneOf(t),
         future'[t] = future[t],
         t \in Accepted => /\ Served(t)' <=> Served(t)
                           /\ Hosted(t)' <=> Hosted(t)
                           /\ Hosted(t) => running'[LaneOf(t)] = running[LaneOf(t)]
                           /\ Served(t) => /\ verdict'[LaneOf(t)] = verdict[LaneOf(t)]
                                           /\ task'[LaneOf(t)] = "fresh"
                                                <=> task[LaneOf(t)] = "fresh"
  PROVE  SameView(t)
<1>1. CASE t \in Accepted
  BY <1>1 DEF SameView, SessionOf, ServicePhase, HostOf, VerdictOf, AnswerOf
<1>2. CASE t \notin Accepted
  BY <1>2 DEF SameView, SessionOf, ServicePhase, HostOf, VerdictOf, AnswerOf
<1> QED
  BY <1>1, <1>2

(* Steps that touch queues and flags only. *)
LEMMA QuietStepsStutter ==
  ASSUME UNCHANGED <<accepted, req, running, task, verdict, merged, future>>
  PROVE  UNCHANGED Service!vars
<1>1. \A t \in Turns : SameView(t)
  BY SameViewIf DEF Accepted, LaneOf, Served, Hosted
<1> QED
  BY <1>1, SameViews

(* What a turn's phase says of its owners. *)
LEMMA PhaseOf ==
  ASSUME Shape, Owners, NEW t \in Accepted
  PROVE  /\ t \in Turns
         /\ future[t] = "open" <=> ServicePhase(t) # "done"
         /\ Hosted(t) <=> ServicePhase(t) = "merged"
         /\ Served(t) /\ task[LaneOf(t)] # "fresh" <=> ServicePhase(t) = "active"
         /\ ServicePhase(t) = "queued" <=>
              \/ Queued(t) \/ Boxed(t) \/ Withdrawing(t)
              \/ Served(t) /\ task[LaneOf(t)] = "fresh"
         /\ ServicePhase(t) \in {"queued", "active", "merged", "done"}
<1>1. /\ OneOwner(t) /\ t \in Turns
      /\ future[t] \in Verdicts \cup {"none", "open"} /\ future[t] # "none"
      /\ "open" \notin Verdicts
  BY TurnFacts DEF Shape, TypeOK, Verdicts, Terminal, Owners, OneOwner, HeldIsOpen,
     OwnersAreExclusive
<1>2. CASE future[t] = "open"
  BY <1>1, <1>2 DEF OneOwner, Held, ServicePhase
<1>3. CASE future[t] # "open"
  BY <1>1, <1>3 DEF OneOwner, Held, ServicePhase
<1> QED
  BY <1>2, <1>3

LEMMA ViewTypes ==
  ASSUME Shape, Owners
  PROVE  /\ \A t \in Turns : t \notin Accepted =>
              /\ ServicePhase(t) = "new" /\ SessionOf(t) = NoTurn /\ HostOf(t) = NoTurn
              /\ VerdictOf(t) = "none" /\ AnswerOf(t) = "none"
         /\ \A t \in Accepted : AnswerOf(t) = "none" <=> future[t] = "open"
         /\ \A t \in Accepted : ServicePhase(t) # "new"
<1>1. \A t \in Turns : t \notin Accepted => future[t] = "none"
  BY DEF Shape, KnownRequests
<1>2. \A t \in Accepted : /\ future[t] \in Verdicts \cup {"open"}
                          /\ "none" \notin Verdicts /\ "open" \notin Verdicts
  BY TurnFacts DEF Shape, TypeOK, Verdicts, Terminal
<1> QED
  BY <1>1, <1>2, PhaseOf
     DEF ServicePhase, SessionOf, HostOf, VerdictOf, AnswerOf, Verdicts, Terminal

(* The abstract state when every turn but t looks the same. *)
LEMMA OneTurnMoves ==
  ASSUME NEW t \in Turns, \A u \in Turns : u # t => SameView(u)
  PROVE  /\ [u \in Turns |-> SessionOf(u)]'
              = [[u \in Turns |-> SessionOf(u)] EXCEPT ![t] = SessionOf(t)']
         /\ [u \in Turns |-> ServicePhase(u)]'
              = [[u \in Turns |-> ServicePhase(u)] EXCEPT ![t] = ServicePhase(t)']
         /\ [u \in Turns |-> HostOf(u)]'
              = [[u \in Turns |-> HostOf(u)] EXCEPT ![t] = HostOf(t)']
         /\ [u \in Turns |-> VerdictOf(u)]'
              = [[u \in Turns |-> VerdictOf(u)] EXCEPT ![t] = VerdictOf(t)']
         /\ [u \in Turns |-> AnswerOf(u)]'
              = [[u \in Turns |-> AnswerOf(u)] EXCEPT ![t] = AnswerOf(t)']
         /\ SessionOf(t)' = SessionOf(t)
              => UNCHANGED [u \in Turns |-> SessionOf(u)]
         /\ ServicePhase(t)' = ServicePhase(t)
              => UNCHANGED [u \in Turns |-> ServicePhase(u)]
         /\ HostOf(t)' = HostOf(t) => UNCHANGED [u \in Turns |-> HostOf(u)]
         /\ VerdictOf(t)' = VerdictOf(t) => UNCHANGED [u \in Turns |-> VerdictOf(u)]
         /\ AnswerOf(t)' = AnswerOf(t) => UNCHANGED [u \in Turns |-> AnswerOf(u)]
<1>1. /\ [u \in Turns |-> SessionOf(u)]'
           = [[u \in Turns |-> SessionOf(u)] EXCEPT ![t] = SessionOf(t)']
      /\ SessionOf(t)' = SessionOf(t) => UNCHANGED [u \in Turns |-> SessionOf(u)]
  BY DEF SameView
<1>2. /\ [u \in Turns |-> ServicePhase(u)]'
           = [[u \in Turns |-> ServicePhase(u)] EXCEPT ![t] = ServicePhase(t)']
      /\ ServicePhase(t)' = ServicePhase(t)
           => UNCHANGED [u \in Turns |-> ServicePhase(u)]
  BY DEF SameView
<1>3. /\ [u \in Turns |-> HostOf(u)]'
           = [[u \in Turns |-> HostOf(u)] EXCEPT ![t] = HostOf(t)']
      /\ HostOf(t)' = HostOf(t) => UNCHANGED [u \in Turns |-> HostOf(u)]
  BY DEF SameView
<1>4. /\ [u \in Turns |-> VerdictOf(u)]'
           = [[u \in Turns |-> VerdictOf(u)] EXCEPT ![t] = VerdictOf(t)']
      /\ VerdictOf(t)' = VerdictOf(t) => UNCHANGED [u \in Turns |-> VerdictOf(u)]
  BY DEF SameView
<1>5. /\ [u \in Turns |-> AnswerOf(u)]'
           = [[u \in Turns |-> AnswerOf(u)] EXCEPT ![t] = AnswerOf(t)']
      /\ AnswerOf(t)' = AnswerOf(t) => UNCHANGED [u \in Turns |-> AnswerOf(u)]
  BY DEF SameView
<1> QED
  BY <1>1, <1>2, <1>3, <1>4, <1>5

(* submit: the new turn is queued. *)
LEMMA SubmitAccepts ==
  ASSUME Shape, Owners, NEW r \in Requests, Submit(r)
  PROVE  \E t \in Turns : Service!Accept(t)
<1>0. PICK t \in Nat : t = accepted + 1
  BY DEF Shape, TypeOK
<1>1. /\ t \in Turns /\ t \notin Accepted /\ Accepted' = Accepted \cup {t}
      /\ Accepted \subseteq Turns /\ NoTurn \notin Turns
      /\ req' = [req EXCEPT ![t] = r] /\ future' = [future EXCEPT ![t] = "open"]
      /\ req \in [Turns -> Requests \cup {NoTurn}]
      /\ future \in [Turns -> Verdicts \cup {"none", "open"}]
      /\ UNCHANGED <<running, task, verdict, merged>>
      /\ r.session \in Sessions /\ "open" \notin Verdicts /\ "none" \notin Verdicts
  <2>1. t \notin Accepted /\ Accepted' = Accepted \cup {t}
    BY <1>0 DEF Submit, Accepted, Shape, TypeOK
  <2> QED
    BY <1>0, <2>1, AcceptedAreTurns DEF Submit, Shape, TypeOK, Requests, Verdicts, Terminal
<1>2. /\ ServicePhase(t) = "new" /\ SessionOf(t) = NoTurn /\ HostOf(t) = NoTurn
      /\ VerdictOf(t) = "none" /\ AnswerOf(t) = "none"
  BY <1>1, ViewTypes
<1>3. LaneOf(t)' = r.session /\ \A u \in Accepted : LaneOf(u)' = LaneOf(u)
  BY <1>1 DEF LaneOf
<1>4. ~Served(t)' /\ ~Hosted(t)'
  BY <1>1, <1>3 DEF Served, Hosted, Shape, LaneShape, MergedKnown
<1>5. /\ ServicePhase(t)' = "queued" /\ SessionOf(t)' = r.session /\ HostOf(t)' = NoTurn
      /\ VerdictOf(t)' = "none" /\ AnswerOf(t)' = "none"
  BY <1>1, <1>3, <1>4 DEF ServicePhase, SessionOf, HostOf, VerdictOf, AnswerOf
<1>6. ASSUME NEW u \in Turns, u # t
      PROVE  SameView(u)
  BY <1>1, <1>6, <1>3, SameViewIf DEF Served, Hosted
<1>7. Service!Accept(t)
  BY <1>1, <1>2, <1>5, <1>6, OneTurnMoves
     DEF Service!Accept, SessionOf, HostOf, VerdictOf, AnswerOf
<1> QED
  BY <1>1, <1>7

(* The turn a lane serves: it is open, and no other turn of the lane is    *)
(* active.                                                                 *)
LEMMA ServedTurn ==
  ASSUME Shape, Owners, NEW l \in Sessions, running[l] # NoTurn
  PROVE  /\ running[l] \in Accepted /\ running[l] \in Turns /\ LaneOf(running[l]) = l
         /\ Served(running[l]) /\ ~Hosted(running[l]) /\ future[running[l]] = "open"
         /\ SessionOf(running[l]) = l /\ HostOf(running[l]) = NoTurn
         /\ VerdictOf(running[l]) = verdict[l] /\ AnswerOf(running[l]) = "none"
         /\ ServicePhase(running[l]) = IF task[l] = "fresh" THEN "queued" ELSE "active"
         /\ \A u \in Accepted : u # running[l] /\ Served(u) => LaneOf(u) # l
<1>1. /\ running[l] \in Accepted /\ running[l] \in Turns /\ LaneOf(running[l]) = l
      /\ Served(running[l])
  BY TurnFacts DEF Shape, LaneShape, Served
<1>2. future[running[l]] = "open" /\ ~Hosted(running[l])
  BY <1>1 DEF Owners, HeldIsOpen, Held, OwnersAreExclusive
<1>3. "open" \notin Verdicts
  BY DEF Verdicts, Terminal
<1> QED
  BY <1>1, <1>2, <1>3 DEF SessionOf, HostOf, VerdictOf, AnswerOf, ServicePhase, Served

(* A step of the task of one lane is seen at the turn it runs only.        *)
LEMMA TaskMoves ==
  ASSUME Shape, Owners, NEW l \in Sessions, running[l] # NoTurn,
         UNCHANGED <<accepted, req, running, merged, future>>,
         \A k \in Sessions : k # l => task'[k] = task[k] /\ verdict'[k] = verdict[k],
         task'[l] # "fresh"
  PROVE  /\ \A u \in Turns : u # running[l] => SameView(u)
         /\ SessionOf(running[l])' = l /\ HostOf(running[l])' = NoTurn
         /\ VerdictOf(running[l])' = verdict'[l] /\ AnswerOf(running[l])' = "none"
         /\ ServicePhase(running[l])' = "active"
<1>1. \A u \in Accepted : /\ (Served(u)' <=> Served(u)) /\ (Hosted(u)' <=> Hosted(u))
                          /\ LaneOf(u)' = LaneOf(u) /\ LaneOf(u) \in Sessions
  BY TurnFacts DEF Served, Hosted, LaneOf
<1>2. Accepted' = Accepted
  BY DEF Accepted
<1>3. ASSUME NEW u \in Turns, u # running[l]
      PROVE  SameView(u)
  BY <1>1, <1>2, <1>3, ServedTurn, SameViewIf
<1>4. /\ Served(running[l])' /\ ~Hosted(running[l])' /\ LaneOf(running[l])' = l
      /\ running[l] \in Accepted' /\ future'[running[l]] = "open"
      /\ "open" \notin Verdicts
  BY <1>1, <1>2, ServedTurn DEF Served, Hosted, LaneOf, Verdicts, Terminal
<1> QED
  BY <1>3, <1>4 DEF SessionOf, HostOf, VerdictOf, AnswerOf, ServicePhase

(* The task of a lane starts: its turn is served.                          *)
LEMMA TaskStartServes ==
  ASSUME Shape, Owners, NEW l \in Sessions, TaskStart(l)
  PROVE  \E h \in Turns : Service!Serve(h)
<1>1. /\ task \in [Sessions -> TaskPhases] /\ task[l] = "fresh"
      /\ task' = [task EXCEPT ![l] = "wait"]
      /\ UNCHANGED <<accepted, req, running, verdict, merged, future>>
  BY DEF TaskStart, TaskStep, Shape, TypeOK
<1>2. running[l] # NoTurn
  BY <1>1 DEF Shape, LaneShape
<1>3. \A u \in Turns : ServicePhase(u) = "active" => SessionOf(u) # SessionOf(running[l])
  <2> SUFFICES ASSUME NEW u \in Turns, ServicePhase(u) = "active", SessionOf(u) = l
               PROVE  FALSE
    BY <1>2, ServedTurn
  <2>1. u \in Accepted /\ Served(u) /\ task[LaneOf(u)] # "fresh"
    BY DEF ServicePhase
  <2> QED
    BY <1>1, <2>1 DEF SessionOf
<1>4. PICK h \in Turns : h = running[l]
  BY <1>2, ServedTurn
<1>5. /\ \A u \in Turns : u # h => SameView(u)
      /\ SessionOf(h)' = SessionOf(h) /\ HostOf(h)' = HostOf(h)
      /\ VerdictOf(h)' = VerdictOf(h) /\ AnswerOf(h)' = AnswerOf(h)
      /\ ServicePhase(h) = "queued" /\ ServicePhase(h)' = "active"
  BY <1>1, <1>2, <1>4, ServedTurn, TaskMoves
<1>6. Service!Serve(h)
  BY <1>3, <1>4, <1>5, OneTurnMoves
     DEF Service!Serve, SessionOf, HostOf, VerdictOf, AnswerOf
<1> QED
  BY <1>4, <1>6

(* The run of an active turn is decided: it ends, or its start is refused, *)
(* or it is withdrawn while it waits for a permit.                         *)
LEMMA RunIsDecided ==
  ASSUME Shape, Owners, NEW l \in Sessions,
         UNCHANGED <<accepted, req, running, merged, future>>,
         task[l] \in {"granted", "exec", "aborting", "withdraw"},
         \E p \in {"ended", "closing"} : task' = [task EXCEPT ![l] = p],
         \E v \in Verdicts : verdict' = [verdict EXCEPT ![l] = v]
  PROVE  \E h \in Turns : Service!Decide(h)
<1>1. /\ task \in [Sessions -> TaskPhases] /\ verdict \in [Sessions -> Verdicts \cup {"none"}]
      /\ running[l] # NoTurn /\ verdict[l] = "none"
  BY DEF Shape, TypeOK, LaneShape
<1>2. PICK h \in Turns : h = running[l]
  BY <1>1, ServedTurn
<1>3. PICK v \in Verdicts : verdict' = [verdict EXCEPT ![l] = v]
  OBVIOUS
<1>4. /\ \A k \in Sessions : k # l => task'[k] = task[k] /\ verdict'[k] = verdict[k]
      /\ task'[l] # "fresh" /\ verdict'[l] = v
  BY <1>1, <1>3
<1>5. /\ \A u \in Turns : u # h => SameView(u)
      /\ SessionOf(h)' = SessionOf(h) /\ HostOf(h)' = HostOf(h)
      /\ VerdictOf(h) = "none" /\ VerdictOf(h)' = v /\ AnswerOf(h)' = AnswerOf(h)
      /\ ServicePhase(h) = "active" /\ ServicePhase(h)' = ServicePhase(h)
  BY <1>1, <1>2, <1>4, ServedTurn, TaskMoves
<1>6. v \in Service!Verdicts
  BY DEF Service!Verdicts, Verdicts, Terminal
<1>7. Service!Decide(h)
  BY <1>5, <1>6, OneTurnMoves
     DEF Service!Decide, SessionOf, HostOf, VerdictOf, AnswerOf
<1> QED
  BY <1>2, <1>7

(* _finish_cancel: a queued turn is withdrawn.                             *)
LEMMA FinishWithdraws ==
  ASSUME Shape, Owners, NEW t \in Turns, FinishCancel(t)
  PROVE  Service!Withdraw(t)
<1>1. /\ t \in Accepted /\ Withdrawing(t) /\ future[t] = "open"
      /\ ~Served(t) /\ ~Hosted(t)
  BY DEF FinishCancel, Withdrawing, Owners, FinalizersKnown, HeldIsOpen, Held,
     OwnersAreExclusive
<1>2. PICK r \in {"cancelled", "raised"} : future' = [future EXCEPT ![t] = r]
  BY <1>1 DEF FinishCancel, ExecutorCancel, Shape, TypeOK
<1>3. /\ UNCHANGED <<accepted, req, running, task, verdict, merged>>
      /\ future \in [Turns -> Verdicts \cup {"none", "open"}]
      /\ r \in Verdicts /\ "open" \notin Verdicts /\ Accepted' = Accepted
  BY DEF FinishCancel, lanes, Shape, TypeOK, Verdicts, Terminal, Accepted
<1>4. /\ \A u \in Accepted : LaneOf(u)' = LaneOf(u) /\ (Served(u)' <=> Served(u))
                             /\ (Hosted(u)' <=> Hosted(u))
      /\ \A u \in Turns : u # t => future'[u] = future[u]
      /\ future'[t] = r
  BY <1>2, <1>3 DEF LaneOf, Served, Hosted
<1>5. \A u \in Turns : u # t => SameView(u)
  BY <1>3, <1>4, SameViewIf
<1>6. /\ ServicePhase(t) = "queued" /\ ServicePhase(t)' = "done"
      /\ AnswerOf(t)' = r /\ SessionOf(t)' = SessionOf(t) /\ HostOf(t)' = HostOf(t)
      /\ VerdictOf(t)' = VerdictOf(t)
  BY <1>1, <1>3, <1>4 DEF ServicePhase, SessionOf, HostOf, VerdictOf, AnswerOf
<1> QED
  BY <1>5, <1>6, OneTurnMoves
     DEF Service!Withdraw, SessionOf, HostOf, VerdictOf, AnswerOf

(* A running turn drains its mailbox: it takes the waiting turns over.     *)
LEMMA DrainAbsorbs ==
  ASSUME Shape, Owners, ThreadsRun, NEW t \in Turns, Drain(t)
  PROVE  Service!Absorb(t)
<1> DEFINE l == LaneOf(t)
           S == ToSet(mailbox[l])
<1>1. /\ t \in Accepted /\ l \in Sessions /\ Served(t) /\ task[l] = "exec"
      /\ running[l] = t /\ verdict[l] = "none" /\ t # NoTurn
  BY TurnFacts DEF Drain, MayDrain, ThreadsRun, Served, Shape, ThreadsKnown, LaneShape
<1>2. /\ merged' = [merged EXCEPT ![t] = merged[t] \o mailbox[l]]
      /\ mailbox[l] \in Seq(Turns) /\ merged \in [Turns -> Seq(Turns)]
      /\ UNCHANGED <<accepted, req, running, task, verdict, future>>
      /\ Accepted' = Accepted /\ \A u \in Accepted : LaneOf(u)' = LaneOf(u)
      /\ future \in [Turns -> Verdicts \cup {"none", "open"}] /\ "open" \notin Verdicts
  BY <1>1 DEF Drain, Shape, TypeOK, Accepted, LaneOf, Verdicts, Terminal
<1>3. merged'[t] = merged[t] \o mailbox[l] /\ \A h \in Turns : h # t => merged'[h] = merged[h]
  BY <1>2
<1>4. ToSet(merged'[t]) = ToSet(merged[t]) \cup S
  BY <1>2, <1>3, ConcatElements
<1>5. ASSUME NEW u \in S
      PROVE  /\ u \in Accepted /\ u \in Turns /\ LaneOf(u) = l /\ Boxed(u)
             /\ ~Served(u) /\ ~Hosted(u) /\ future[u] = "open"
  BY <1>1, TurnFacts DEF Shape, LaneContents, Boxed, Owners, OwnersAreExclusive,
     HeldIsOpen, Held
<1>6. ASSUME NEW u \in S
      PROVE  /\ ServicePhase(u) = "queued" /\ ServicePhase(u)' = "merged"
             /\ SessionOf(u) = l /\ SessionOf(u)' = SessionOf(u)
             /\ HostOf(u)' = t /\ VerdictOf(u)' = VerdictOf(u)
             /\ AnswerOf(u)' = AnswerOf(u)
  <2>1. ServicePhase(u) = "queued" /\ SessionOf(u) = l
    BY <1>2, <1>5 DEF ServicePhase, SessionOf
  <2>2. Hosted(u)' /\ ~Served(u)' /\ LaneOf(u)' = l /\ future'[u] = "open" /\ u \in Accepted'
    BY <1>1, <1>2, <1>4, <1>5 DEF Hosted, Served
  <2> QED
    BY <1>1, <1>2, <1>5, <2>1, <2>2
       DEF ServicePhase, SessionOf, HostOf, VerdictOf, AnswerOf
<1>7. ASSUME NEW u \in Turns, u \notin S
      PROVE  SameView(u)
  <2>1. ASSUME u \in Accepted
        PROVE  Hosted(u)' <=> Hosted(u)
    <3>1. running'[LaneOf(u)'] = running[LaneOf(u)]
      BY <1>2, <2>1
    <3>2. CASE running[LaneOf(u)] = t
      BY <1>4, <1>7, <3>1, <3>2 DEF Hosted
    <3>3. CASE running[LaneOf(u)] # t
      BY <1>3, <3>1, <3>3 DEF Hosted
    <3> QED
      BY <3>2, <3>3
  <2>2. u \in Accepted => (Served(u)' <=> Served(u))
    BY <1>2 DEF Served
  <2> QED
    BY <1>2, <2>1, <2>2, SameViewIf
<1>8. /\ ServicePhase(t) = "active" /\ VerdictOf(t) = "none"
      /\ SessionOf(t) = l /\ t \notin S
  BY <1>1, <1>5, ServedTurn
<1> HIDE DEF l, S
<1>9. /\ UNCHANGED [u \in Turns |-> SessionOf(u)]
      /\ UNCHANGED [u \in Turns |-> VerdictOf(u)]
      /\ UNCHANGED [u \in Turns |-> AnswerOf(u)]
  BY <1>6, <1>7 DEF SameView
<1>10. [u \in Turns |-> ServicePhase(u)]'
         = [u \in Turns |-> IF u \in S THEN "merged" ELSE ServicePhase(u)]
  BY <1>6, <1>7 DEF SameView
<1>11. [u \in Turns |-> HostOf(u)]' = [u \in Turns |-> IF u \in S THEN t ELSE HostOf(u)]
  BY <1>6, <1>7 DEF SameView
<1>12. S \in SUBSET {u \in Turns : ServicePhase(u) = "queued" /\ SessionOf(u) = SessionOf(t)}
  BY <1>5, <1>6, <1>8
<1> QED
  BY <1>8, <1>9, <1>10, <1>11, <1>12
     DEF Service!Absorb, SessionOf, HostOf, VerdictOf, AnswerOf

(* The riders of the turn a lane runs.                                     *)
LEMMA Riders ==
  ASSUME Shape, Owners, NEW l \in Sessions, running[l] # NoTurn,
         NEW m \in ToSet(merged[running[l]])
  PROVE  /\ m \in Accepted /\ m \in Turns /\ LaneOf(m) = l /\ Hosted(m) /\ ~Served(m)
         /\ m # running[l] /\ future[m] = "open" /\ ServicePhase(m) = "merged"
         /\ SessionOf(m) = l /\ HostOf(m) = running[l] /\ VerdictOf(m) = "none"
         /\ AnswerOf(m) = "none"
<1>1. running[l] \in Turns /\ LaneOf(running[l]) = l /\ running[l] \in Accepted
  BY ServedTurn
<1>2. m \in Accepted /\ m \in Turns /\ LaneOf(m) \in Sessions /\ running[LaneOf(m)] = running[l]
  BY <1>1, TurnFacts DEF Shape, MergedKnown, Owners, HostsRun
<1>3. LaneOf(m) = l
  BY <1>1, <1>2 DEF Shape, LaneShape
<1>4. Hosted(m) /\ ~Served(m) /\ future[m] = "open" /\ m # running[l]
  BY <1>1, <1>2, <1>3 DEF Hosted, Owners, OwnersAreExclusive, HeldIsOpen, Held, Served
<1>5. "open" \notin Verdicts
  BY DEF Verdicts, Terminal
<1> QED
  BY <1>2, <1>3, <1>4, <1>5 DEF ServicePhase, SessionOf, HostOf, VerdictOf, AnswerOf

(* A merged turn is settled with its host's verdict.                       *)
LEMMA SettleSettles ==
  ASSUME Shape, Owners, NEW l \in Sessions, SettleMerged(l)
  PROVE  \E m \in Turns : Service!Settle(m)
<1>1. /\ running[l] # NoTurn /\ verdict[l] \in Terminal
      /\ merged \in [Turns -> Seq(Turns)]
  BY DEF SettleMerged, Shape, TypeOK, LaneShape
<1>2. PICK h \in Turns : h = running[l]
  BY <1>1, ServedTurn
<1>3. merged[h] # <<>> /\ merged[h] \in Seq(Turns) /\ IsInjective(merged[h])
  BY <1>1, <1>2 DEF SettleMerged, Owners, Unrepeated
<1>4. PICK m \in Turns : m = Head(merged[h])
  BY <1>3, TailElements
<1>5. PICK r \in {verdict[l], "raised"} : future' = [future EXCEPT ![m] = r]
  BY <1>2, <1>4 DEF SettleMerged, CompleteInjected
<1>6. /\ merged' = [merged EXCEPT ![h] = Tail(merged[h])]
      /\ UNCHANGED <<accepted, req, running, task, verdict>>
      /\ Accepted' = Accepted /\ \A u \in Accepted : LaneOf(u)' = LaneOf(u)
      /\ future \in [Turns -> Verdicts \cup {"none", "open"}] /\ "open" \notin Verdicts
      /\ r \in Verdicts
  BY <1>1, <1>2 DEF SettleMerged, lanes, Shape, TypeOK, Accepted, LaneOf, Verdicts, Terminal
<1>7. /\ ToSet(merged[h]) = ToSet(merged'[h]) \cup {m} /\ m \notin ToSet(merged'[h])
      /\ \A g \in Turns : g # h => merged'[g] = merged[g]
  BY <1>1, <1>6, <1>3, <1>4, TailElements
<1>8. /\ m \in Accepted /\ LaneOf(m) = l /\ ~Served(m) /\ m # h
      /\ ServicePhase(m) = "merged" /\ SessionOf(m) = l /\ HostOf(m) = h
      /\ VerdictOf(m) = "none" /\ VerdictOf(h) = verdict[l]
  BY <1>7, <1>1, <1>2, Riders, ServedTurn
<1>9. ASSUME NEW u \in Turns, u # m
      PROVE  SameView(u)
  <2>1. ASSUME u \in Accepted
        PROVE  Hosted(u)' <=> Hosted(u)
    BY <1>6, <2>1, <1>7, <1>9 DEF Hosted
  <2>2. u \in Accepted => (Served(u)' <=> Served(u))
    BY <1>6 DEF Served
  <2>3. future'[u] = future[u]
    BY <1>5, <1>6, <1>9
  <2> QED
    BY <1>6, <2>1, <2>2, <2>3, SameViewIf
<1>10. ~Hosted(m)' /\ ~Served(m)' /\ future'[m] = r /\ LaneOf(m)' = l /\ m \in Accepted'
  BY <1>2, <1>5, <1>6, <1>7, <1>8 DEF Hosted, Served
<1>11. /\ ServicePhase(m)' = "done" /\ AnswerOf(m)' = r /\ SessionOf(m)' = SessionOf(m)
       /\ HostOf(m)' = NoTurn /\ VerdictOf(m)' = VerdictOf(m)
  BY <1>6, <1>8, <1>10 DEF ServicePhase, SessionOf, HostOf, VerdictOf, AnswerOf
<1>12. /\ VerdictOf(h) \in Service!Verdicts /\ r \in {VerdictOf(h), "raised"}
  BY <1>1, <1>8 DEF Service!Verdicts, Terminal
<1>13. [u \in Turns |-> VerdictOf(u)][[u \in Turns |-> HostOf(u)][m]] = VerdictOf(h)
  BY <1>2, <1>8
<1> QED
  BY <1>8, <1>9, <1>11, <1>12, <1>13, OneTurnMoves
     DEF Service!Settle, SessionOf, HostOf, VerdictOf, AnswerOf

(* A lane moves on to the next turn of its queue q: the turn it leaves and *)
(* that turn's riders apart, nothing is seen to change, for the next turn  *)
(* is served when its task starts.                                         *)
LEMMA MovingOnIsQuiet ==
  ASSUME Shape, Owners, NEW l \in Sessions, NEW q \in Seq(Turns),
         ToSet(q) \subseteq ToSet(pending[l]) \cup ToSet(mailbox[l]),
         TakeNext(l, q), UNCHANGED <<accepted, req>>,
         NEW u \in Turns, u # running[l], future'[u] = future[u],
         running[l] # NoTurn => u \notin ToSet(merged[running[l]]),
         \A h \in Turns : h # running[l] => merged'[h] = merged[h]
  PROVE  SameView(u)
<1>1. /\ Accepted' = Accepted /\ (u \in Accepted => LaneOf(u)' = LaneOf(u))
      /\ running \in [Sessions -> Turns \cup {NoTurn}] /\ task \in [Sessions -> TaskPhases]
      /\ verdict \in [Sessions -> Verdicts \cup {"none"}]
      /\ pending[l] \in Seq(Turns) /\ mailbox[l] \in Seq(Turns)
      /\ merged \in [Turns -> Seq(Turns)]
  BY DEF Accepted, LaneOf, Shape, TypeOK
<1>2. CASE u \notin Accepted
  BY <1>1, <1>2, SameViewIf
<1>3. CASE u \in Accepted /\ LaneOf(u) # l
  <2>1. /\ running'[LaneOf(u)] = running[LaneOf(u)] /\ task'[LaneOf(u)] = task[LaneOf(u)]
        /\ verdict'[LaneOf(u)] = verdict[LaneOf(u)] /\ LaneOf(u) \in Sessions
    BY <1>1, <1>3, TurnFacts DEF TakeNext
  <2>2. running[LaneOf(u)] # NoTurn => running[LaneOf(u)] # running[l]
    BY <1>3, <2>1 DEF Shape, LaneShape
  <2>3. running[LaneOf(u)] \in Turns =>
          merged'[running[LaneOf(u)]] = merged[running[LaneOf(u)]]
    BY <2>2, AcceptedAreTurns DEF Shape
  <2>4. (Served(u)' <=> Served(u)) /\ (Hosted(u)' <=> Hosted(u))
    BY <1>1, <1>3, <2>1, <2>3 DEF Served, Hosted
  <2> QED
    BY <1>1, <1>3, <2>1, <2>4, SameViewIf
<1>4. CASE u \in Accepted /\ LaneOf(u) = l
  <2>1. ~Served(u) /\ ~Hosted(u)
    BY <1>4, AcceptedAreTurns DEF Served, Hosted, Shape
  <2>2. running'[l] = IF q = <<>> THEN NoTurn ELSE Head(q)
    BY <1>1 DEF TakeNext
  <2>3. verdict'[l] = "none" /\ task'[l] \in {"none", "fresh"}
        /\ (q # <<>> => task'[l] = "fresh")
    BY <1>1 DEF TakeNext
  <2>4. ~Hosted(u)'
    <3> SUFFICES ASSUME Hosted(u)' PROVE FALSE
      OBVIOUS
    <3>1. PICK h \in Turns : h = running'[l] /\ u \in ToSet(merged'[h])
      BY <1>1, <1>4 DEF Hosted
    <3>2. q # <<>> /\ h = Head(q)
      BY <2>2, <3>1, AcceptedAreTurns DEF Shape
    <3>3. h \in Accepted /\ LaneOf(h) = l /\ (Queued(h) \/ Boxed(h))
      BY <3>2, TailElements DEF Shape, LaneContents, Queued, Boxed
    <3>4. h # running[l]
      BY <3>3 DEF Owners, OwnersAreExclusive, Served
    <3>5. running[l] = h
      BY <1>4, <3>1, <3>4 DEF Owners, HostsRun
    <3> QED
      BY <3>4, <3>5
  <2>5. CASE Served(u)'
    <3>1. q # <<>> /\ u = Head(q)
      BY <1>1, <1>4, <2>2, <2>5, AcceptedAreTurns DEF Served, Shape
    <3>2. Queued(u) \/ Boxed(u)
      BY <1>4, <3>1, TailElements DEF Queued, Boxed
    <3>3. future[u] = "open"
      BY <1>4, <3>2 DEF Owners, HeldIsOpen, Held
    <3>4. "open" \notin Verdicts
      BY DEF Verdicts, Terminal
    <3>5. task'[l] = "fresh" /\ u \in Accepted' /\ LaneOf(u)' = l
      BY <1>1, <1>4, <2>3, <3>1
    <3> QED
      BY <1>4, <2>1, <2>3, <2>4, <2>5, <3>3, <3>4, <3>5
         DEF SameView, ServicePhase, SessionOf, HostOf, VerdictOf, AnswerOf
  <2>6. CASE ~Served(u)'
    BY <1>1, <1>4, <2>1, <2>4, <2>6, SameViewIf
  <2> QED
    BY <2>5, <2>6
<1> QED
  BY <1>2, <1>3, <1>4

(* The worker answers its host, and the riders with it when the run raised.*)
LEMMA WorkerFinishes ==
  ASSUME Shape, Owners, NEW l \in Sessions, WorkerNext(l) \/ WorkerRaised(l)
  PROVE  \E h \in Turns : Service!Finish(h)
<1>1. /\ running[l] # NoTurn /\ verdict[l] \in Verdicts
      /\ merged \in [Turns -> Seq(Turns)]
      /\ future \in [Turns -> Verdicts \cup {"none", "open"}] /\ "open" \notin Verdicts
      /\ UNCHANGED <<accepted, req>> /\ Accepted' = Accepted
      /\ \A u \in Accepted : LaneOf(u)' = LaneOf(u)
  BY DEF WorkerNext, WorkerRaised, Shape, TypeOK, LaneShape, Verdicts, Terminal, Accepted,
     LaneOf
<1>2. PICK h \in Turns : h = running[l]
  BY <1>1, ServedTurn
<1> DEFINE q == pending[l] \o mailbox[l]
           R == ToSet(merged[h])
<1>3. /\ q \in Seq(Turns) /\ ToSet(q) \subseteq ToSet(pending[l]) \cup ToSet(mailbox[l])
      /\ \A u \in ToSet(q) : u \in Accepted /\ LaneOf(u) = l
  BY LeftoverQueue
<1>4. TakeNext(l, q)
  BY DEF WorkerNext, WorkerRaised
<1>5. ASSUME NEW u \in R
      PROVE  /\ u \in Accepted /\ u \in Turns /\ LaneOf(u) = l /\ u # h /\ future[u] = "open"
             /\ SessionOf(u) = l /\ HostOf(u) = h /\ VerdictOf(u) = "none"
  BY <1>1, <1>2, Riders
<1>6. /\ h \in Accepted /\ LaneOf(h) = l /\ future[h] = "open"
      /\ SessionOf(h) = l /\ HostOf(h) = NoTurn /\ VerdictOf(h) = verdict[l]
      /\ ServicePhase(h) = "active" /\ task[l] = "done"
  BY <1>1, <1>2, ServedTurn DEF WorkerNext, WorkerRaised
<1>7. R = {} \/ verdict[l] = "raised"
  BY <1>2, EmptyElements DEF WorkerNext, WorkerRaised
<1>8. \A u \in Turns : future'[u] = IF u \in R \cup {h} THEN verdict[l] ELSE future[u]
  <2>1. CASE WorkerNext(l)
    BY <1>1, <1>2, <1>6, <2>1, EmptyElements DEF WorkerNext
  <2>2. CASE WorkerRaised(l)
    <3>1. /\ future' = [u \in Turns |-> IF u \in R \cup {h} /\ future[u] = "open"
                                        THEN "raised" ELSE future[u]]
          /\ verdict[l] = "raised"
      BY <1>2, <2>2 DEF WorkerRaised
    <3>2. \A u \in R \cup {h} : future[u] = "open"
      BY <1>5, <1>6
    <3> HIDE DEF R
    <3> QED
      BY <3>1, <3>2
  <2> QED
    BY <2>1, <2>2
<1>9. merged'[h] = <<>> /\ \A g \in Turns : g # h => merged'[g] = merged[g]
  BY <1>1, <1>2 DEF WorkerNext, WorkerRaised
<1> HIDE DEF q
<1>10. ASSUME NEW u \in Turns, u \notin R \cup {h}
       PROVE  SameView(u)
  <2>1. future'[u] = future[u]
    BY <1>8, <1>10
  <2> QED
    BY <1>1, <1>2, <1>3, <1>4, <1>9, <1>10, <2>1, MovingOnIsQuiet
<1>11. ASSUME NEW u \in R \cup {h}
       PROVE  /\ ServicePhase(u)' = "done" /\ AnswerOf(u)' = verdict[l]
              /\ SessionOf(u)' = SessionOf(u) /\ HostOf(u)' = NoTurn
              /\ VerdictOf(u)' = "none" /\ u \in Turns
  <2>1. /\ u \in Accepted /\ u \in Turns /\ LaneOf(u) = l /\ LaneOf(u)' = l
        /\ u \in Accepted' /\ future'[u] = verdict[l] /\ SessionOf(u) = l
    BY <1>1, <1>5, <1>6, <1>8
  <2>2. /\ running'[l] = (IF q = <<>> THEN NoTurn ELSE Head(q)) /\ verdict'[l] = "none"
    BY <1>4 DEF TakeNext, Shape, TypeOK
  <2>3. ~Hosted(u)'
    <3> SUFFICES ASSUME Hosted(u)' PROVE FALSE
      OBVIOUS
    <3>1. PICK g \in Turns : g = running'[l] /\ u \in ToSet(merged'[g])
      BY <2>1 DEF Hosted
    <3>2. g # h
      BY <1>9, <3>1, EmptyElements
    <3>3. running[l] = g
      BY <1>9, <2>1, <3>1, <3>2 DEF Owners, HostsRun
    <3> QED
      BY <1>2, <3>2, <3>3
  <2> QED
    BY <1>1, <2>1, <2>2, <2>3 DEF ServicePhase, SessionOf, HostOf, VerdictOf, AnswerOf
<1>12. {u \in Turns : [t \in Turns |-> HostOf(t)][u] = h} = R
  <2>1. ASSUME NEW u \in Turns, HostOf(u) = h
        PROVE  u \in R
    BY <2>1, AcceptedAreTurns DEF Shape, HostOf, Hosted
  <2> QED
    BY <1>5, <2>1
<1> HIDE DEF R
<1>13. [u \in Turns |-> ServicePhase(u)]'
         = [u \in Turns |-> IF u \in R \cup {h} THEN "done" ELSE ServicePhase(u)]
  BY <1>10, <1>11 DEF SameView
<1>14. [u \in Turns |-> AnswerOf(u)]'
         = [u \in Turns |-> IF u \in R \cup {h} THEN verdict[l] ELSE AnswerOf(u)]
  BY <1>10, <1>11 DEF SameView
<1>15. [u \in Turns |-> HostOf(u)]'
         = [u \in Turns |-> IF u \in R THEN NoTurn ELSE HostOf(u)]
  BY <1>6, <1>10, <1>11 DEF SameView
<1>16. [u \in Turns |-> VerdictOf(u)]' = [[u \in Turns |-> VerdictOf(u)] EXCEPT ![h] = "none"]
  BY ZenonT(60), <1>5, <1>10, <1>11 DEF SameView
<1>17. UNCHANGED [u \in Turns |-> SessionOf(u)]
  BY <1>10, <1>11 DEF SameView
<1>18. verdict[l] \in Service!Verdicts
  BY <1>1 DEF Service!Verdicts, Verdicts, Terminal
<1>19. Service!Finish(h)
  BY <1>6, <1>7, <1>12, <1>13, <1>14, <1>15, <1>16, <1>17, <1>18
     DEF Service!Finish, SessionOf, HostOf, VerdictOf, AnswerOf
<1> QED
  BY <1>19

(* Steps of a task that decide nothing are not seen.                       *)
LEMMA TaskWaits ==
  ASSUME Shape, Owners, NEW l \in Sessions,
         UNCHANGED <<accepted, req, running, merged, future, verdict>>,
         task[l] \notin {"none", "fresh"},
         \E p \in TaskPhases \ {"fresh"} : task' = [task EXCEPT ![l] = p]
  PROVE  UNCHANGED Service!vars
<1>1. /\ task \in [Sessions -> TaskPhases] /\ running[l] # NoTurn
  BY DEF Shape, TypeOK, LaneShape
<1>2. /\ \A k \in Sessions : k # l => task'[k] = task[k] /\ verdict'[k] = verdict[k]
      /\ task'[l] # "fresh" /\ verdict'[l] = verdict[l]
  BY <1>1
<1>3. \A u \in Turns : u # running[l] => SameView(u)
  BY <1>1, <1>2, TaskMoves
<1>4. PICK h \in Turns : h = running[l]
  BY <1>1, ServedTurn
<1>5. /\ SessionOf(h)' = SessionOf(h) /\ ServicePhase(h)' = ServicePhase(h)
      /\ HostOf(h)' = HostOf(h) /\ VerdictOf(h)' = VerdictOf(h)
      /\ AnswerOf(h)' = AnswerOf(h)
  BY <1>1, <1>2, <1>4, ServedTurn, TaskMoves
<1> QED
  BY <1>3, <1>4, <1>5, SameViews DEF SameView

(* Every step of the scheduler is a step of the service, or is not seen.   *)
LEMMA StepsOfTheService ==
  ASSUME Shape, Owners, ThreadsRun, [Next]_vars
  PROVE  [Service!Next]_Service!vars
<1>0. \A l \in Sessions : task[l] \in TaskPhases
  BY DEF Shape, TypeOK
<1>1. ASSUME NEW r \in Requests, Submit(r)
      PROVE  Service!Next
  BY <1>1, SubmitAccepts DEF Service!Next
<1>2. ASSUME NEW l \in Sessions, TaskStart(l)
      PROVE  Service!Next
  BY <1>2, TaskStartServes DEF Service!Next
<1>3. ASSUME NEW l \in Sessions, WorkerNext(l) \/ WorkerRaised(l)
      PROVE  Service!Next
  BY <1>3, WorkerFinishes DEF Service!Next
<1>4. ASSUME NEW l \in Sessions, SettleMerged(l)
      PROVE  Service!Next
  BY <1>4, SettleSettles DEF Service!Next
<1>5. ASSUME NEW l \in Sessions,
             \/ Withdrawn(l) \/ RunEnds(l) \/ AbortEnds(l)
             \/ BeginRun(l) /\ verdict' # verdict
      PROVE  Service!Next
  BY <1>5, RunIsDecided DEF Withdrawn, RunEnds, AbortEnds, BeginRun, TaskStep, Verdicts,
     Service!Next
<1>6. ASSUME NEW l \in Sessions,
             \/ Acquire(l) \/ AbandonWait(l) \/ AbandonGrant(l) \/ ObserveCancel(l)
             \/ ReleasePermit(l) \/ TaskDone(l)
             \/ BeginRun(l) /\ verdict' = verdict
      PROVE  UNCHANGED Service!vars
  <2>1. CASE BeginRun(l) /\ verdict' = verdict
    BY <2>1, TaskWaits DEF BeginRun, TaskStep, Shape, LaneShape, TypeOK, TaskPhases
  <2>2. CASE \/ Acquire(l) \/ AbandonWait(l) \/ AbandonGrant(l) \/ ObserveCancel(l)
             \/ ReleasePermit(l) \/ TaskDone(l)
    <3>1. /\ UNCHANGED <<accepted, req, running, merged, future, verdict>>
          /\ task[l] \notin {"none", "fresh"}
      BY <2>2 DEF Acquire, AbandonWait, AbandonGrant, ObserveCancel, ReleasePermit,
         TaskDone, TaskStep
    <3>2. \E p \in TaskPhases \ {"fresh"} : task' = [task EXCEPT ![l] = p]
      BY <2>2 DEF Acquire, AbandonWait, AbandonGrant, ObserveCancel, ReleasePermit,
         TaskDone, TaskStep, TaskPhases
    <3> QED
      BY <3>1, <3>2, TaskWaits
  <2> QED
    BY <1>6, <2>1, <2>2
<1>7. ASSUME NEW l \in Sessions, WorkerStart(l)
      PROVE  UNCHANGED Service!vars
  <2>1. /\ running[l] = NoTurn /\ pending[l] \in Seq(Turns) /\ NoTurn \notin Turns
        /\ TakeNext(l, pending[l]) /\ UNCHANGED <<accepted, req, merged, future>>
    BY <1>7, AcceptedAreTurns DEF WorkerStart, Shape, TypeOK, LaneShape
  <2>2. \A u \in Turns : SameView(u)
    BY <2>1, MovingOnIsQuiet
  <2> QED
    BY <2>2, SameViews
<1>8. ASSUME NEW t \in Turns, TurnStep(t)
      PROVE  [Service!Next]_Service!vars
  <2>1. CASE FinishCancel(t)
    BY <2>1, FinishWithdraws DEF Service!Next
  <2>2. CASE Drain(t)
    BY <2>2, DrainAbsorbs DEF Service!Next
  <2>3. CASE CancelQueued(t) \/ CancelRunning(t) \/ ThreadExit(t)
    BY <2>3, QuietStepsStutter DEF CancelQueued, CancelRunning, ThreadExit, lanes
  <2> QED
    BY <1>8, <2>1, <2>2, <2>3 DEF TurnStep
<1>9. CASE \/ \E l \in Sessions : CancelSession(l)
           \/ BeginShutdown \/ DrainLanes \/ EndGrace \/ JoinAll \/ Closed
           \/ UNCHANGED vars
  <2>1. UNCHANGED <<accepted, req, running, task, verdict, merged, future>>
    BY <1>9 DEF CancelSession, BeginShutdown, DrainLanes, EndGrace, JoinAll, Closed,
       vars, lanes
  <2> QED
    BY <2>1, QuietStepsStutter
<1>10. ASSUME NEW l \in Sessions, LaneStep(l)
       PROVE  [Service!Next]_Service!vars
  BY <1>2, <1>3, <1>4, <1>5, <1>6, <1>7, <1>10 DEF LaneStep
<1> QED
  BY <1>1, <1>8, <1>9, <1>10 DEF Next

(* The scheduler keeps the promise of TurnService to its callers: a turn   *)
(* is served once, by itself or inside one host of its own session, after  *)
(* the turn before it; a merged turn gets its host's verdict before the    *)
(* host is answered; only a turn that waits is ever withdrawn.             *)
THEOREM ServiceIsImplemented ==
  Spec => ImplementsService
<1>1. Init => Service!Init
  <2> SUFFICES ASSUME Init PROVE Service!Init
    OBVIOUS
  <2>1. /\ Accepted = {} /\ \A t \in Turns : future[t] = "none"
        /\ "none" \notin Verdicts
    BY DEF Init, Accepted, Verdicts, Terminal
  <2>2. \A t \in Turns : /\ ServicePhase(t) = "new" /\ SessionOf(t) = NoTurn
                         /\ HostOf(t) = NoTurn /\ VerdictOf(t) = "none"
                         /\ AnswerOf(t) = "none"
    BY <2>1 DEF ServicePhase, SessionOf, HostOf, VerdictOf, AnswerOf
  <2>3. /\ [t \in Turns |-> SessionOf(t)] \in [Turns -> Sessions \cup {NoTurn}]
        /\ [t \in Turns |-> ServicePhase(t)] = [t \in Turns |-> "new"]
        /\ [t \in Turns |-> HostOf(t)] = [t \in Turns |-> NoTurn]
        /\ [t \in Turns |-> VerdictOf(t)] = [t \in Turns |-> "none"]
        /\ [t \in Turns |-> AnswerOf(t)] = [t \in Turns |-> "none"]
    BY <2>2
  <2> QED
    BY <2>3 DEF Service!Init, SessionOf, HostOf, VerdictOf, AnswerOf
<1>2. Init => Records /\ InOrder /\ ThreadsRun
  <2> SUFFICES ASSUME Init PROVE Records /\ InOrder /\ ThreadsRun
    OBVIOUS
  <2>1. Accepted = {}
    BY DEF Init, Accepted
  <2> QED
    BY <2>1, EmptyElements DEF Init, Records, InOrder, Rising, Appended, ThreadsRun
<1>3. Shape /\ Owners /\ ThreadsRun /\ [Next]_vars => [Service!Next]_Service!vars
  BY StepsOfTheService
<1> QED
  BY <1>1, <1>2, <1>3, InitShape, NextKeepsShape, InitOwners, NextKeepsOwners,
     NextKeepsRecords, NextKeepsOrder, NextKeepsThreads, PTL
     DEF Spec, ImplementsService, Service!Spec
=============================================================================
