--------------------------- MODULE SpineScheduler ---------------------------
(***************************************************************************)
(* The session scheduler of repoagent.spine with TurnRuntime as its        *)
(* executor.  All of it runs on one asyncio event loop, so a step of this  *)
(* module is the code between two awaits, and any other handler or task    *)
(* may run at an await.  Each session has a lane: a deque of pending       *)
(* turns, a mailbox of injected ones, a worker task that takes turns from  *)
(* the deque, and the task (_run_item) of the turn it is running.          *)
(* Outcomes are reduced to their state; "raised" is a handle whose result  *)
(* is an exception.  A definition named Faulty... is the next one with a   *)
(* mistake planted in it, to see that the properties notice.               *)
(***************************************************************************)
EXTENDS Integers, FiniteSets, SequencesExt

CONSTANTS
  Sessions,      \* session ids; one lane each
  MaxTurns,      \* how many turns clients submit in one behaviour
  Classes,       \* work classes: FOREGROUND, BACKGROUND
  Capacity,      \* permits of the pool of each class
  DiskFaults,    \* whether a commit to the run store may fail
  NoTurn         \* None

Policies == {"append", "inject", "interrupt"}

ASSUME MaxTurnsAssumption == MaxTurns \in Nat
ASSUME CapacityAssumption == Capacity \in [Classes -> Nat \ {0}]
ASSUME DiskFaultsAssumption == DiskFaults \in BOOLEAN
ASSUME NoTurnAssumption == NoTurn \notin 1..MaxTurns

(* Turns are numbered in the order the scheduler accepts them. *)
Turns == 1..MaxTurns

Requests == [session : Sessions, class : Classes, busy : Policies]

Terminal == {"completed", "failed", "cancelled"}
Verdicts == Terminal \cup {"raised"}

VARIABLES
  accepted,      \* how many turns have been accepted
  req,           \* the request of each accepted turn
  pending,       \* _Lane._pending
  mailbox,       \* _Lane._mailbox
  running,       \* _Lane._running
  worker,        \* _Lane._worker: idle, ready (created), await (_running_task)
  task,          \* where _Lane._running_task is; "none" when it is None
  verdict,       \* how _running_task ended
  merged,        \* _QueuedTurn.merged, without the entries settled already
  cancelReq,     \* turns whose cancel_requested event is set
  future,        \* _QueuedTurn.future: "none", "open" or its result
  finalizers,    \* turns with a _finish_cancel task in flight
  durable,       \* the state the run store holds of each turn
  threads,       \* turns whose agent thread is alive
  free,          \* permits left in each semaphore
  shutdown       \* progress of _finish_shutdown

lanes == <<pending, mailbox, running, worker, task, verdict>>
vars  == <<accepted, req, lanes, merged, cancelReq, future, finalizers,
           durable, threads, free, shutdown>>

TaskPhases == {"none", "fresh", "wait", "granted", "exec", "aborting",
               "ended", "withdraw", "closing", "done"}

(* The phases of _run_item that own a permit of the pool. *)
Holding == {"granted", "exec", "aborting", "ended"}

Accepted == 1..accepted
LaneOf(t) == req[t].session
ClassOf(t) == req[t].class

(* submit's own notion of a busy lane: _running_task exists, is not done. *)
TaskLive(l) == task[l] \notin {"none", "done"}

Init ==
  /\ accepted = 0
  /\ req = [t \in Turns |-> NoTurn]
  /\ pending = [l \in Sessions |-> <<>>]
  /\ mailbox = [l \in Sessions |-> <<>>]
  /\ running = [l \in Sessions |-> NoTurn]
  /\ worker = [l \in Sessions |-> "idle"]
  /\ task = [l \in Sessions |-> "none"]
  /\ verdict = [l \in Sessions |-> "none"]
  /\ merged = [t \in Turns |-> <<>>]
  /\ cancelReq = {}
  /\ future = [t \in Turns |-> "none"]
  /\ finalizers = {}
  /\ durable = [t \in Turns |-> "none"]
  /\ threads = {}
  /\ free = Capacity
  /\ shutdown = "up"

-----------------------------------------------------------------------------
(* TurnRuntime: what each executor call leaves in the run store, and the   *)
(* result r it hands back.  A commit that the store refuses or that fails  *)
(* raises and leaves the turn's record as it was.                          *)

FaultyCancelSwallows(t, r) ==
  /\ r = "cancelled"
  /\ durable' \in {durable, [durable EXCEPT ![t] = "cancelled"]}

ExecutorCancel(t, r) ==
  \/ /\ r = "cancelled" /\ durable[t] = "accepted"
     /\ durable' = [durable EXCEPT ![t] = "cancelled"]
  \/ /\ r = "raised" /\ (DiskFaults \/ durable[t] # "accepted")
     /\ UNCHANGED durable

CompleteInjected(t, v, r) ==
  \/ /\ r = v /\ durable[t] = "accepted"
     /\ durable' = [durable EXCEPT ![t] = v]
  \/ /\ r = "raised" /\ (DiskFaults \/ durable[t] # "accepted")
     /\ UNCHANGED durable
  \/ /\ r = "raised" /\ DiskFaults /\ durable[t] = "accepted"
     /\ durable' = [durable EXCEPT ![t] = "running"]  \* turn.merged only

(* The end of execute: the terminal event is recorded, or recording it     *)
(* raises.                                                                 *)
RecordEnd(t, outcomes, v) ==
  \/ /\ v \in outcomes
     /\ durable' = [durable EXCEPT ![t] = v]
  \/ /\ v = "raised" /\ DiskFaults
     /\ UNCHANGED durable

-----------------------------------------------------------------------------
(* Scheduler.submit and _Lane.submit.                                      *)
SubmitInject(t, l) ==
  /\ mailbox' = [mailbox EXCEPT ![l] = Append(@, t)]
  /\ UNCHANGED <<pending, worker, cancelReq>>

SubmitInterrupt(t, l) ==
  /\ cancelReq' = cancelReq \cup {running[l]}
  /\ pending' = [pending EXCEPT ![l] = <<t>> \o @]
  /\ UNCHANGED <<mailbox, worker>>

FaultyAppendInFront(t, l) ==
  /\ pending' = [pending EXCEPT ![l] = <<t>> \o @]
  /\ worker' = [worker EXCEPT ![l] = IF @ = "idle" THEN "ready" ELSE @]
  /\ UNCHANGED <<mailbox, cancelReq>>

SubmitAppend(t, l) ==
  /\ pending' = [pending EXCEPT ![l] = Append(@, t)]
  /\ worker' = [worker EXCEPT ![l] = IF @ = "idle" THEN "ready" ELSE @]
  /\ UNCHANGED <<mailbox, cancelReq>>

FaultyInterruptAtRest(t, l, busy) ==
  \/ TaskLive(l) /\ busy = "inject" /\ SubmitInject(t, l)
  \/ busy = "interrupt" /\ SubmitInterrupt(t, l)
  \/ (busy = "append" \/ ~TaskLive(l)) /\ SubmitAppend(t, l)

LaneSubmit(t, l, busy) ==
  \/ TaskLive(l) /\ busy = "inject" /\ SubmitInject(t, l)
  \/ TaskLive(l) /\ busy = "interrupt" /\ SubmitInterrupt(t, l)
  \/ (busy = "append" \/ ~TaskLive(l)) /\ SubmitAppend(t, l)

Submit(r) ==
  LET t == accepted + 1
  IN /\ shutdown = "up"
     /\ t \in Turns
     /\ accepted' = t
     /\ req' = [req EXCEPT ![t] = r]
     /\ durable' = [durable EXCEPT ![t] = "accepted"]
     /\ future' = [future EXCEPT ![t] = "open"]
     /\ LaneSubmit(t, r.session, r.busy)
     /\ UNCHANGED <<running, task, verdict, merged, finalizers, threads,
                    free, shutdown>>

-----------------------------------------------------------------------------
(* TurnHandle.cancel: a queued turn is taken out and finalised by a task   *)
(* of its own, the running one is only asked to stop, and a merged one is  *)
(* left to its host.                                                       *)
FaultyCancelKeepsEntry(t) ==
  /\ t \in Accepted /\ future[t] = "open"
  /\ t \in ToSet(pending[LaneOf(t)]) \cup ToSet(mailbox[LaneOf(t)])
  /\ finalizers' = finalizers \cup {t}
  /\ UNCHANGED <<accepted, req, lanes, merged, cancelReq, future, durable,
                 threads, free, shutdown>>

CancelQueued(t) ==
  LET l == LaneOf(t)
  IN /\ t \in Accepted /\ future[t] = "open"
     /\ \/ \E i \in DOMAIN pending[l] :
             /\ pending[l][i] = t
             /\ pending' = [pending EXCEPT ![l] = RemoveAt(@, i)]
             /\ UNCHANGED mailbox
        \/ \E i \in DOMAIN mailbox[l] :
             /\ mailbox[l][i] = t
             /\ mailbox' = [mailbox EXCEPT ![l] = RemoveAt(@, i)]
             /\ UNCHANGED pending
     /\ finalizers' = finalizers \cup {t}
     /\ UNCHANGED <<accepted, req, running, worker, task, verdict, merged,
                    cancelReq, future, durable, threads, free, shutdown>>

CancelRunning(t) ==
  /\ t \in Accepted /\ future[t] = "open"
  /\ running[LaneOf(t)] = t
  /\ cancelReq' = cancelReq \cup {t}
  /\ UNCHANGED <<accepted, req, lanes, merged, future, finalizers, durable,
                 threads, free, shutdown>>

(* The running turns of the lanes L whose future is still open: what       *)
(* cancel_running signals.                                                 *)
RunningIn(L) == {t \in Accepted : /\ LaneOf(t) \in L
                                  /\ running[LaneOf(t)] = t
                                  /\ future[t] = "open"}

FaultyQueuedWithMerged(L) ==
  UNION {ToSet(pending[l]) \cup ToSet(mailbox[l]) \cup
         (IF running[l] = NoTurn THEN {} ELSE ToSet(merged[running[l]])) : l \in L}

(* The turns waiting in the lanes L: what drain_pending finalises. *)
QueuedIn(L) == UNION {ToSet(pending[l]) \cup ToSet(mailbox[l]) : l \in L}

DrainPending(L) ==
  /\ pending' = [l \in Sessions |-> IF l \in L THEN <<>> ELSE pending[l]]
  /\ mailbox' = [l \in Sessions |-> IF l \in L THEN <<>> ELSE mailbox[l]]
  /\ finalizers' = finalizers \cup QueuedIn(L)

CancelSession(l) ==
  /\ cancelReq' = cancelReq \cup RunningIn({l})
  /\ DrainPending({l})
  /\ UNCHANGED <<accepted, req, running, worker, task, verdict, merged,
                 future, durable, threads, free, shutdown>>

(* _finish_cancel *)
FinishCancel(t) ==
  /\ t \in finalizers
  /\ \E r \in Verdicts :
       /\ ExecutorCancel(t, r)
       /\ future' = [future EXCEPT ![t] = IF @ = "open" THEN r ELSE @]
  /\ finalizers' = finalizers \ {t}
  /\ UNCHANGED <<accepted, req, lanes, merged, cancelReq, threads, free,
                 shutdown>>

-----------------------------------------------------------------------------
(* _run_worker.  TakeNext is its loop head: start the next turn of the     *)
(* queue q, or return.                                                     *)
TakeNext(l, q) ==
  /\ verdict' = [verdict EXCEPT ![l] = "none"]
  /\ \/ /\ q = <<>>
        /\ pending' = [pending EXCEPT ![l] = <<>>]
        /\ running' = [running EXCEPT ![l] = NoTurn]
        /\ task'    = [task EXCEPT ![l] = "none"]
        /\ worker'  = [worker EXCEPT ![l] = "idle"]
     \/ /\ q # <<>>
        /\ pending' = [pending EXCEPT ![l] = Tail(q)]
        /\ running' = [running EXCEPT ![l] = Head(q)]
        /\ task'    = [task EXCEPT ![l] = "fresh"]
        /\ worker'  = [worker EXCEPT ![l] = "await"]

WorkerStart(l) ==
  /\ worker[l] = "ready"
  /\ TakeNext(l, pending[l])
  /\ UNCHANGED <<accepted, req, mailbox, merged, cancelReq, future,
                 finalizers, durable, threads, free, shutdown>>

(* The running task returned and merged turns are left: each is recorded   *)
(* with the host's outcome before the host is answered.                    *)
SettleMerged(l) ==
  LET h == running[l]
  IN /\ worker[l] = "await" /\ task[l] = "done" /\ verdict[l] \in Terminal
     /\ merged[h] # <<>>
     /\ \E r \in Verdicts :
          /\ CompleteInjected(Head(merged[h]), verdict[l], r)
          /\ future' = [future EXCEPT ![Head(merged[h])] = r]
     /\ merged' = [merged EXCEPT ![h] = Tail(@)]
     /\ UNCHANGED <<accepted, req, lanes, cancelReq, finalizers, threads,
                    free, shutdown>>

FaultyNextDropsMailbox(l) ==
  LET h == running[l]
  IN /\ worker[l] = "await" /\ task[l] = "done" /\ verdict[l] \in Terminal
     /\ merged[h] = <<>>
     /\ future' = [future EXCEPT ![h] = IF @ = "open" THEN verdict[l] ELSE @]
     /\ TakeNext(l, pending[l])
     /\ mailbox' = [mailbox EXCEPT ![l] = <<>>]
     /\ UNCHANGED <<accepted, req, merged, cancelReq, finalizers, durable,
                    threads, free, shutdown>>

FaultyHostBeforeMerged(l) ==
  LET h == running[l]
  IN /\ worker[l] = "await" /\ task[l] = "done" /\ verdict[l] \in Terminal
     /\ future' = [future EXCEPT ![h] = IF @ = "open" THEN verdict[l] ELSE @]
     /\ TakeNext(l, pending[l] \o mailbox[l])
     /\ mailbox' = [mailbox EXCEPT ![l] = <<>>]
     /\ UNCHANGED <<accepted, req, merged, cancelReq, finalizers, durable,
                    threads, free, shutdown>>

(* The running task returned, nothing is left to settle: the host is       *)
(* answered, what its runner never drained goes to the tail of the queue.  *)
WorkerNext(l) ==
  LET h == running[l]
  IN /\ worker[l] = "await" /\ task[l] = "done" /\ verdict[l] \in Terminal
     /\ merged[h] = <<>>
     /\ future' = [future EXCEPT ![h] = IF @ = "open" THEN verdict[l] ELSE @]
     /\ TakeNext(l, pending[l] \o mailbox[l])
     /\ mailbox' = [mailbox EXCEPT ![l] = <<>>]
     /\ UNCHANGED <<accepted, req, merged, cancelReq, finalizers, durable,
                    threads, free, shutdown>>

FaultyRaisedHostOnly(l) ==
  LET h == running[l]
  IN /\ worker[l] = "await" /\ task[l] = "done" /\ verdict[l] = "raised"
     /\ future' = [future EXCEPT ![h] = IF @ = "open" THEN "raised" ELSE @]
     /\ merged' = [merged EXCEPT ![h] = <<>>]
     /\ TakeNext(l, pending[l] \o mailbox[l])
     /\ mailbox' = [mailbox EXCEPT ![l] = <<>>]
     /\ UNCHANGED <<accepted, req, cancelReq, finalizers, durable, threads,
                    free, shutdown>>

(* The running task raised: host and merged turns all get the exception. *)
WorkerRaised(l) ==
  LET h == running[l]
      failed == {h} \cup ToSet(merged[h])
  IN /\ worker[l] = "await" /\ task[l] = "done" /\ verdict[l] = "raised"
     /\ future' = [t \in Turns |-> IF t \in failed /\ future[t] = "open"
                                   THEN "raised" ELSE future[t]]
     /\ merged' = [merged EXCEPT ![h] = <<>>]
     /\ TakeNext(l, pending[l] \o mailbox[l])
     /\ mailbox' = [mailbox EXCEPT ![l] = <<>>]
     /\ UNCHANGED <<accepted, req, cancelReq, finalizers, durable, threads,
                    free, shutdown>>

-----------------------------------------------------------------------------
(* _run_item: wait for a permit of the turn's pool or for a cancellation,  *)
(* run the turn, release the permit.                                       *)
TaskStep(l, from, to) ==
  /\ task[l] = from
  /\ task' = [task EXCEPT ![l] = to]
  /\ UNCHANGED <<accepted, req, pending, mailbox, running, worker, merged,
                 cancelReq, future, finalizers, shutdown>>

TakePermit(l) ==
  /\ free[ClassOf(running[l])] > 0
  /\ free' = [free EXCEPT ![ClassOf(running[l])] = @ - 1]

GivePermit(l) == free' = [free EXCEPT ![ClassOf(running[l])] = @ + 1]

TaskStart(l) ==
  /\ TaskStep(l, "fresh", "wait")
  /\ UNCHANGED <<verdict, durable, threads, free>>

Acquire(l) ==
  /\ TaskStep(l, "wait", "granted")
  /\ TakePermit(l)
  /\ UNCHANGED <<verdict, durable, threads>>

(* Cancelled while waiting: the acquire is cancelled. *)
AbandonWait(l) ==
  /\ running[l] \in cancelReq
  /\ TaskStep(l, "wait", "withdraw")
  /\ UNCHANGED <<verdict, durable, threads, free>>

FaultyAbandonKeepsPermit(l) ==
  /\ running[l] \in cancelReq
  /\ TaskStep(l, "granted", "withdraw")
  /\ UNCHANGED <<verdict, durable, threads, free>>

(* Cancelled when the permit had been granted already: it is given back. *)
AbandonGrant(l) ==
  /\ running[l] \in cancelReq
  /\ TaskStep(l, "granted", "withdraw")
  /\ GivePermit(l)
  /\ UNCHANGED <<verdict, durable, threads>>

Withdrawn(l) ==
  /\ TaskStep(l, "withdraw", "closing")
  /\ \E r \in Verdicts :
       /\ ExecutorCancel(running[l], r)
       /\ verdict' = [verdict EXCEPT ![l] = r]
  /\ UNCHANGED <<threads, free>>

BeginRun(l) ==
  LET t == running[l]
  IN /\ t \notin cancelReq
     /\ \/ /\ TaskStep(l, "granted", "exec")
           /\ durable[t] = "accepted"
           /\ durable' = [durable EXCEPT ![t] = "running"]
           /\ threads' = threads \cup {t}
           /\ UNCHANGED verdict
        \/ /\ TaskStep(l, "granted", "ended")
           /\ DiskFaults \/ durable[t] # "accepted"
           /\ verdict' = [verdict EXCEPT ![l] = "raised"]
           /\ UNCHANGED <<durable, threads>>
     /\ UNCHANGED free

(* The runner returns by itself, even when a cancellation is on its way.   *)
RunEnds(l) ==
  /\ TaskStep(l, "exec", "ended")
  /\ \E v \in Verdicts :
       /\ RecordEnd(running[l], {"completed", "failed"}, v)
       /\ verdict' = [verdict EXCEPT ![l] = v]
  /\ threads' = threads \ {running[l]}
  /\ UNCHANGED free

FaultyCancelAwaitsThread(l) ==
  /\ running[l] \in cancelReq \ threads
  /\ TaskStep(l, "exec", "aborting")
  /\ UNCHANGED <<verdict, durable, threads, free>>

(* run_task.cancel() *)
ObserveCancel(l) ==
  /\ running[l] \in cancelReq
  /\ TaskStep(l, "exec", "aborting")
  /\ UNCHANGED <<verdict, durable, threads, free>>

(* The runner's cancellation handler gives its thread two seconds, then    *)
(* re-raises whether or not the thread has returned.                       *)
AbortEnds(l) ==
  /\ TaskStep(l, "aborting", "ended")
  /\ \E v \in Verdicts :
       /\ RecordEnd(running[l], {"cancelled", "failed"}, v)
       /\ verdict' = [verdict EXCEPT ![l] = v]
  /\ threads' \in {threads, threads \ {running[l]}}
  /\ UNCHANGED free

ReleasePermit(l) ==
  /\ TaskStep(l, "ended", "closing")
  /\ GivePermit(l)
  /\ UNCHANGED <<verdict, durable, threads>>

TaskDone(l) ==
  /\ TaskStep(l, "closing", "done")
  /\ UNCHANGED <<verdict, durable, threads, free>>

-----------------------------------------------------------------------------
(* The agent thread of turn t, current or left behind by a cancellation.   *)

(* The guard of _drain_for(t). *)
MayDrain(t, l) ==
  /\ running[l] = t
  /\ t \notin cancelReq
  /\ TaskLive(l)

Drain(t) ==
  LET l == LaneOf(t)
  IN /\ t \in threads
     /\ MayDrain(t, l)
     /\ merged' = [merged EXCEPT ![t] = @ \o mailbox[l]]
     /\ mailbox' = [mailbox EXCEPT ![l] = <<>>]
     /\ UNCHANGED <<accepted, req, pending, running, worker, task, verdict,
                    cancelReq, future, finalizers, durable, threads, free,
                    shutdown>>

ThreadExit(t) ==
  /\ t \in threads
  /\ running[LaneOf(t)] = t => task[LaneOf(t)] \notin {"exec", "aborting"}
  /\ threads' = threads \ {t}
  /\ UNCHANGED <<accepted, req, lanes, merged, cancelReq, future, finalizers,
                 durable, free, shutdown>>

-----------------------------------------------------------------------------
(* Scheduler.shutdown and _finish_shutdown.                                *)
BeginShutdown ==
  /\ shutdown = "up"
  /\ shutdown' = "sealed"
  /\ UNCHANGED <<accepted, req, lanes, merged, cancelReq, future, finalizers,
                 durable, threads, free>>

DrainLanes ==
  /\ shutdown = "sealed"
  /\ shutdown' = "grace"
  /\ DrainPending(Sessions)
  /\ UNCHANGED <<accepted, req, running, worker, task, verdict, merged,
                 cancelReq, future, durable, threads, free>>

FaultyGraceCancelsNothing ==
  /\ shutdown = "grace"
  /\ shutdown' = "joining"
  /\ UNCHANGED <<accepted, req, lanes, merged, cancelReq, future, finalizers,
                 durable, threads, free>>

(* The running turns all ended, or the grace period is over. *)
EndGrace ==
  /\ shutdown = "grace"
  /\ shutdown' = "joining"
  /\ cancelReq' = cancelReq \cup RunningIn(Sessions)
  /\ UNCHANGED <<accepted, req, lanes, merged, future, finalizers, durable,
                 threads, free>>

FaultyJoinOneWorker ==
  /\ shutdown = "joining"
  /\ \E l \in Sessions : worker[l] = "idle"
  /\ finalizers = {}
  /\ shutdown' = "closed"
  /\ UNCHANGED <<accepted, req, lanes, merged, cancelReq, future, finalizers,
                 durable, threads, free>>

(* Workers first, then finalizers; neither can appear again by now. *)
JoinAll ==
  /\ shutdown = "joining"
  /\ \A l \in Sessions : worker[l] = "idle"
  /\ finalizers = {}
  /\ shutdown' = "closed"
  /\ UNCHANGED <<accepted, req, lanes, merged, cancelReq, future, finalizers,
                 durable, threads, free>>

Closed ==
  /\ shutdown = "closed" /\ threads = {}
  /\ UNCHANGED vars

-----------------------------------------------------------------------------
LaneStep(l) ==
  \/ WorkerStart(l) \/ SettleMerged(l) \/ WorkerNext(l) \/ WorkerRaised(l)
  \/ TaskStart(l) \/ Acquire(l) \/ AbandonWait(l) \/ AbandonGrant(l)
  \/ Withdrawn(l) \/ BeginRun(l) \/ RunEnds(l) \/ ObserveCancel(l)
  \/ AbortEnds(l) \/ ReleasePermit(l) \/ TaskDone(l)

TurnStep(t) ==
  \/ CancelQueued(t) \/ CancelRunning(t) \/ FinishCancel(t)
  \/ Drain(t) \/ ThreadExit(t)

Next ==
  \/ \E r \in Requests : Submit(r)
  \/ \E l \in Sessions : CancelSession(l) \/ LaneStep(l)
  \/ \E t \in Turns : TurnStep(t)
  \/ BeginShutdown \/ DrainLanes \/ EndGrace \/ JoinAll \/ Closed

Spec == Init /\ [][Next]_vars

(* The event loop runs every ready callback (weak fairness); a semaphore   *)
(* serves its waiters first in, first out, so a waiter is not passed over  *)
(* for ever (strong fairness).  A cancelled runner re-raises: its handler  *)
(* waits two seconds at most.  The grace period ends by its timer.         *)
LaneFairness(l) ==
  /\ WF_vars(WorkerStart(l)) /\ WF_vars(SettleMerged(l))
  /\ WF_vars(WorkerNext(l)) /\ WF_vars(WorkerRaised(l))
  /\ WF_vars(TaskStart(l)) /\ SF_vars(Acquire(l))
  /\ WF_vars(AbandonWait(l) \/ AbandonGrant(l)) /\ WF_vars(Withdrawn(l))
  /\ WF_vars(BeginRun(l)) /\ WF_vars(ObserveCancel(l))
  /\ WF_vars(AbortEnds(l)) /\ WF_vars(ReleasePermit(l)) /\ WF_vars(TaskDone(l))

LoopFairness ==
  /\ \A l \in Sessions : LaneFairness(l)
  /\ \A t \in Turns : WF_vars(FinishCancel(t))
  /\ WF_vars(DrainLanes) /\ WF_vars(EndGrace) /\ WF_vars(JoinAll)

(* A runner may hang until it is cancelled. *)
FairSpec == Spec /\ LoopFairness

-----------------------------------------------------------------------------
(* Properties.                                                             *)

(* Type invariant of the scheduler's state. *)
TypeOK ==
  /\ accepted \in 0..MaxTurns
  /\ req \in [Turns -> Requests \cup {NoTurn}]
  /\ pending \in [Sessions -> Seq(Turns)]
  /\ mailbox \in [Sessions -> Seq(Turns)]
  /\ running \in [Sessions -> Turns \cup {NoTurn}]
  /\ worker \in [Sessions -> {"idle", "ready", "await"}]
  /\ task \in [Sessions -> TaskPhases]
  /\ verdict \in [Sessions -> Verdicts \cup {"none"}]
  /\ merged \in [Turns -> Seq(Turns)]
  /\ cancelReq \in SUBSET Turns
  /\ future \in [Turns -> Verdicts \cup {"none", "open"}]
  /\ finalizers \in SUBSET Turns
  /\ durable \in [Turns -> Terminal \cup {"none", "accepted", "running"}]
  /\ threads \in SUBSET Turns
  /\ free \in [Classes -> Nat]
  /\ shutdown \in {"up", "sealed", "grace", "joining", "closed"}

(* The lanes whose running task owns a permit of class c. *)
Holders(c) == {l \in Sessions : task[l] \in Holding /\ ClassOf(running[l]) = c}

(* Permits are neither leaked nor handed out twice, through every race of  *)
(* a grant, a cancellation and the end of a run (_run_item's two finally   *)
(* blocks and its early releases): what is free and what running tasks     *)
(* hold always add up to the capacity of the pool.                         *)
PermitsBalance ==
  \A c \in Classes : free[c] + Cardinality(Holders(c)) = Capacity[c]

Queued(t)   == t \in ToSet(pending[LaneOf(t)])
Boxed(t)    == t \in ToSet(mailbox[LaneOf(t)])
Served(t)   == running[LaneOf(t)] = t
Hosted(t)   == /\ running[LaneOf(t)] \in Turns
               /\ t \in ToSet(merged[running[LaneOf(t)]])
Withdrawing(t) == t \in finalizers

(* Someone is going to resolve every open handle: an unresolved turn waits *)
(* in the queue or the mailbox, runs, rides on the turn its lane runs now  *)
(* (not on one that is over), or has a finalizer.                          *)
OpenTurnHasOwner ==
  \A t \in Accepted : future[t] = "open" =>
    Queued(t) \/ Boxed(t) \/ Served(t) \/ Hosted(t) \/ Withdrawing(t)

(* And no two do: a turn is never run twice, run after it was merged, or   *)
(* cancelled in the queue and run as well.                                 *)
OwnersAreExclusive ==
  \A t \in Accepted :
    /\ Queued(t) => ~Boxed(t) /\ ~Served(t) /\ ~Hosted(t) /\ ~Withdrawing(t)
    /\ Boxed(t)  => ~Served(t) /\ ~Hosted(t) /\ ~Withdrawing(t)
    /\ Served(t) => ~Hosted(t) /\ ~Withdrawing(t)
    /\ Hosted(t) => ~Withdrawing(t)

(* Every open turn has an owner, and only one: no handle is forgotten and  *)
(* none is in two hands, through every path a turn may take.               *)
OpenTurnHasOneOwner == OpenTurnHasOwner /\ OwnersAreExclusive

(* A handle's answer is the outcome the run store recorded for that turn.  *)
AnswerIsRecorded ==
  \A t \in Turns : future[t] \in Terminal => durable[t] = future[t]

(* A resolved handle keeps its answer, although a finalizer, a worker and  *)
(* a host may all hold the same turn's future.                             *)
AnsweredOnce ==
  [][\A t \in Turns : future[t] \in Verdicts => future'[t] = future[t]]_vars

(* No executor call made for a turn is ever refused (cancelled twice,      *)
(* started after its terminal event, settled with a host after running): a *)
(* turn that a finalizer, a waiting task or a host still holds is recorded *)
(* as accepted and nothing more.                                           *)
NeverRefused ==
  /\ \A t \in finalizers : durable[t] = "accepted"
  /\ \A l \in Sessions : task[l] \in {"wait", "granted", "withdraw"} =>
       durable[running[l]] = "accepted"
  /\ \A l \in Sessions : running[l] \in Turns =>
       \A t \in ToSet(merged[running[l]]) : durable[t] = "accepted"

(* "Per-session FIFO": appended turns of a session leave the queue in the  *)
(* order they were accepted, whatever is injected, interrupted, cancelled  *)
(* or falls back from the mailbox in between.                              *)
AppendsInOrder ==
  \A l \in Sessions : \A i, j \in DOMAIN pending[l] :
    /\ i < j
    /\ req[pending[l][i]].busy = "append" /\ req[pending[l][j]].busy = "append"
    => pending[l][i] < pending[l][j]

(* Handles and run store agree, whatever is submitted: what a handle       *)
(* answers was recorded, no step the scheduler takes for a turn is one the *)
(* store refuses, and the appended turns of a session run in their order.  *)
RecordsAgree == TypeOK /\ AnswerIsRecorded /\ NeverRefused /\ AppendsInOrder

(* The shutdown barrier: when shutdown() returns, every handle is          *)
(* resolved, every lane is at rest and every permit is back.               *)
ClosedIsClean ==
  shutdown = "closed" =>
    /\ \A t \in Accepted : future[t] \in Verdicts
    /\ \A l \in Sessions : /\ running[l] = NoTurn /\ worker[l] = "idle"
                           /\ pending[l] = <<>> /\ mailbox[l] = <<>>
    /\ free = Capacity

(* Every run ends by itself: the agent loop is bounded by its step budget, *)
(* every model and tool call by a timeout.                                 *)
RunsEnd == \A l \in Sessions : WF_vars(RunEnds(l))

(* Every accepted turn's handle is resolved, when runs end by themselves,  *)
(* faults of the run store and turns merged into a failing host included.  *)
(* Clients submit finitely many turns, so the handles are all resolved in  *)
(* the end.  An interrupted or cancelled turn is resolved even when its    *)
(* runner would never have returned by itself.                             *)
EveryTurnResolves ==
  /\ RunsEnd => <>[](\A t \in Turns : future[t] # "open")
  /\ <>[](\A t \in cancelReq : future[t] # "open")

(* shutdown() returns, hung runners included. *)
ShutdownCompletes == (shutdown = "sealed") ~> (shutdown = "closed")

(* What was asked for ends: every turn is answered and shutdown() returns, *)
(* although hung runners, finalizers and failing writes hold both back.    *)
WorkEnds == EveryTurnResolves /\ ShutdownCompletes

-----------------------------------------------------------------------------
(* The scheduler implements the promise of TurnService.                    *)
ServicePhase(t) ==
  IF t \notin Accepted THEN "new"
  ELSE IF future[t] \in Verdicts THEN "done"
  ELSE IF Hosted(t) THEN "merged"
  ELSE IF Served(t) /\ task[LaneOf(t)] # "fresh" THEN "active"
  ELSE "queued"

Service == INSTANCE TurnService WITH
  session <- [t \in Turns |-> IF t \in Accepted THEN LaneOf(t) ELSE NoTurn],
  phase   <- [t \in Turns |-> ServicePhase(t)],
  host    <- [t \in Turns |-> IF t \in Accepted /\ Hosted(t)
                              THEN running[LaneOf(t)] ELSE NoTurn],
  verdict <- [t \in Turns |-> IF t \in Accepted /\ Served(t)
                              THEN verdict[LaneOf(t)] ELSE "none"],
  answer  <- [t \in Turns |-> IF future[t] \in Verdicts
                              THEN future[t] ELSE "none"]

ImplementsService == Service!Spec
=============================================================================
