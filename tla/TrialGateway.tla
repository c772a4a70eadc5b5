--------------------------- MODULE TrialGateway ----------------------------
(***************************************************************************)
(* One paired trial of a whole agent (repoagent/evolver/agent_snapshot.py, *)
(* hosted_snapshot.py, model_channel.py, model_proxy.py, model_budget.py): *)
(* an untrusted worker in a container asks the host for model calls over a *)
(* pipe, and the host pays for them.  The loop that reads the pipe, the    *)
(* thread that makes a call, the worker and the deadline move on their     *)
(* own.  A call is journaled before it is sent, its price reserved before  *)
(* that; a call that went wrong closes the channel and the budget for good.*)
(***************************************************************************)
EXTENDS Naturals, Sequences, FiniteSets, FiniteSetsExt

CONSTANTS
  MaxModelCalls,   \* EvaluationModelLimits.max_calls
  CallPrice,       \* what the limits reserve for one call
  CostLimit,       \* EvaluationModelLimits.max_estimated_cost_usd
  MaxFrames        \* bound: the frames the worker ever sends

ASSUME GatewayAssumption ==
  {MaxModelCalls, CallPrice, CostLimit, MaxFrames} \subseteq Nat

VARIABLES
  directory,   \* the trial's directory: "live", "removed" or "retained"
  container,   \* "none", "running", "stopped"
  loop,        \* what run_model_worker is doing
  worker,      \* "none", "running", "exited", "killed"
  frames,      \* what the worker wrote and the host has not read
  written,     \* how many frames it has written
  late,        \* whether the deadline has passed
  cancelled,   \* whether the host cancelled the loop
  proxyClosed, sequence,   \* HostModelProxy
  entries,     \* BudgetedEvaluationClient._entries, each status
  blockedFor,  \* whether _blocked_reason is set
  journal,     \* the model.call records
  sent,        \* the calls the provider received
  result       \* what run_trial returned: "none", or an outcome and its cost

gatewayVars == <<directory, container, loop, worker, frames, written, late, cancelled,
                 proxyClosed, sequence, entries, blockedFor, journal, sent, result>>
channelVars == <<directory, container, result>>
proxyVars == <<proxyClosed, sequence, entries, blockedFor, journal, sent>>
workerVars == <<worker, frames, written>>

Spend == CallPrice * Len(entries)

Final == MaxFrames + 1  \* the frame that holds the worker's result

GatewayInit ==
  /\ directory = "live" /\ container = "none" /\ loop = "start" /\ worker = "none"
  /\ frames = <<>> /\ written = 0 /\ late = FALSE /\ cancelled = FALSE
  /\ proxyClosed = FALSE /\ sequence = 0 /\ entries = <<>> /\ blockedFor = FALSE
  /\ journal = <<>> /\ sent = 0 /\ result = [status |-> "none", priced |-> FALSE, cost |-> 0]

(***************************************************************************)
(* The loop of run_model_worker.                                           *)
(***************************************************************************)
\* The container and the worker start; a cancellation waits until each of
\* them is owned, and is raised then.
StartContainer ==
  /\ loop = "start"
  /\ \/ loop' = "kill" /\ UNCHANGED container
     \/ container' = "running" /\ loop' = IF cancelled THEN "kill" ELSE "launch"
  /\ UNCHANGED <<directory, result, workerVars, late, cancelled, proxyVars>>

LaunchWorker ==
  /\ loop = "launch"
  /\ \/ loop' = "kill" /\ UNCHANGED worker
     \/ worker' = "running" /\ loop' = IF cancelled THEN "kill" ELSE "read"
  /\ UNCHANGED <<channelVars, frames, written, late, cancelled, proxyVars>>

\* The worker asks with any sequence number, or sends its result and exits,
\* or just exits; one that has asked may go on without its answer.
WorkerAsks(n) ==
  /\ worker = "running" /\ written < MaxFrames
  /\ frames' = Append(frames, n) /\ written' = written + 1
  /\ UNCHANGED <<channelVars, loop, worker, late, cancelled, proxyVars>>

WorkerExits ==
  /\ worker = "running" /\ worker' = "exited"
  /\ \/ frames' = Append(frames, Final) \/ UNCHANGED frames
  /\ UNCHANGED <<channelVars, loop, written, late, cancelled, proxyVars>>

\* A deadline, a cancellation, the end of the pipe and a frame that is not a
\* frame end the loop.  The result counts when the worker ends well after it.
ReadResult ==
  /\ loop = "read" /\ frames # <<>> /\ ~late /\ ~cancelled
  /\ Head(frames) = Final
  /\ frames' = Tail(frames) /\ loop' \in {"returned", "kill"}
  /\ UNCHANGED <<channelVars, worker, written, late, cancelled, proxyVars>>

LoopEnds ==
  /\ loop = "read" /\ (late \/ cancelled \/ (frames = <<>> /\ worker = "exited"))
  /\ loop' = "kill"
  /\ UNCHANGED <<channelVars, workerVars, late, cancelled, proxyVars>>

(***************************************************************************)
(* HostModelProxy.dispatch on a thread of its own: a request that cannot   *)
(* be decoded or is out of sequence ends the loop; any other closes the    *)
(* proxy before it is journaled.                                           *)
(***************************************************************************)
Fence(n) == ~proxyClosed /\ n = sequence

Dispatch ==
  /\ loop = "read" /\ frames # <<>> /\ ~late /\ ~cancelled
  /\ Head(frames) # Final
  /\ frames' = Tail(frames)
  /\ \/ loop' = "kill" /\ UNCHANGED <<proxyClosed, sequence>>
     \/ /\ Fence(Head(frames))
        /\ loop' = "journal" /\ proxyClosed' = TRUE /\ sequence' = sequence + 1
  /\ UNCHANGED <<channelVars, worker, written, late, cancelled,
                 entries, blockedFor, journal, sent>>

\* The journal may fail, and then the channel stays closed.
Journaled == journal' = Append(journal, "started")
JournalStart ==
  /\ loop = "journal"
  /\ \/ loop' = "kill" /\ UNCHANGED journal
     \/ Journaled /\ loop' = "admit"
  /\ UNCHANGED <<channelVars, workerVars, late, cancelled,
                 proxyClosed, sequence, entries, blockedFor, sent>>

\* BudgetedEvaluationClient.generate up to the send.
FaultyAffordable == Len(entries) < MaxModelCalls
Affordable == Len(entries) < MaxModelCalls /\ Spend + CallPrice <= CostLimit
AdmitCall ==
  /\ loop = "admit"
  /\ \/ /\ ~blockedFor /\ Affordable
        /\ entries' = Append(entries, "started") /\ loop' = "calling"
     \/ loop' = "failed" /\ UNCHANGED entries   \* a limit, a count, a cancellation
  /\ UNCHANGED <<channelVars, workerVars, late, cancelled,
                 proxyClosed, sequence, blockedFor, journal, sent>>

\* The provider answers within the gateway's timeout: a valid result, one that
\* is priced and reports more tokens than the limits, or anything else.
Mark(s) == entries' = [entries EXCEPT ![Len(entries)] = s]
Answered ==
  /\ loop = "calling" /\ sent' = sent + 1
  /\ \/ Mark("completed") /\ loop' = "answered" /\ UNCHANGED blockedFor
     \/ Mark("overrun") /\ loop' = "failed" /\ blockedFor' = TRUE
     \/ Mark("failed") /\ loop' = "failed" /\ blockedFor' = TRUE
  /\ UNCHANGED <<channelVars, workerVars, late, cancelled, proxyClosed, sequence, journal>>

\* The outcome is journaled; only a good one that was journaled reopens the
\* proxy and is written to the worker, unless time ran out meanwhile.
JournalEnd ==
  /\ loop \in {"answered", "failed"}
  /\ \/ UNCHANGED <<journal, proxyClosed>> /\ loop' = "kill"
     \/ /\ journal' = Append(journal, loop)
        /\ proxyClosed' = (loop = "failed")
        /\ loop' = IF loop = "failed" \/ late \/ cancelled THEN "kill" ELSE "read"
  /\ UNCHANGED <<channelVars, workerVars, late, cancelled, sequence, entries, blockedFor, sent>>

\* The last two steps of the loop, on every way out of it.
KillWorker ==
  /\ loop \in {"kill", "returned"}
  /\ worker' = IF worker = "running" THEN "killed" ELSE worker
  /\ frames' = <<>>
  /\ proxyClosed' = TRUE
  /\ loop' = IF loop = "returned" THEN "graded" ELSE "broken"
  /\ UNCHANGED <<channelVars, written, late, cancelled,
                 sequence, entries, blockedFor, journal, sent>>

(***************************************************************************)
(* The end of the trial: HostedAgentSnapshotEvaluator._execute and         *)
(* run_trial.  A container that cannot be stopped keeps its directory.     *)
(***************************************************************************)
Complete == \A i \in DOMAIN entries : entries[i] = "completed"
Priced == \A i \in DOMAIN entries : entries[i] \in {"completed", "overrun"}
Over(es) == Cardinality({i \in DOMAIN es : es[i] = "overrun"})
Known == Spend + Over(entries)
Raised == [status |-> "raised", priced |-> FALSE, cost |-> 0]

StopContainer ==
  /\ loop \in {"graded", "broken"}
  /\ \/ /\ container' = IF container = "running" THEN "stopped" ELSE container
        /\ loop' = IF loop = "graded" /\ Complete /\ entries # <<>> THEN "grade" ELSE "error"
        /\ UNCHANGED <<directory, result>>
     \/ /\ container = "running" /\ loop' = "done"
        /\ directory' = "retained" /\ result' = Raised
        /\ UNCHANGED container
  /\ UNCHANGED <<workerVars, late, cancelled, proxyVars>>

Conclude ==
  /\ loop \in {"grade", "error"}
  /\ \/ result' = Raised
     \/ \E s \in {"completed", "infrastructure_error"} :
          /\ s = "completed" => loop = "grade"
          /\ result' = [status |-> s, priced |-> Priced, cost |-> IF Priced THEN Known ELSE 0]
  /\ directory' = "removed" /\ loop' = "done"
  /\ UNCHANGED <<container, workerVars, late, cancelled, proxyVars>>

TrialTimesOut ==
  /\ ~late /\ loop # "done" /\ late' = TRUE
  /\ UNCHANGED <<channelVars, loop, workerVars, cancelled, proxyVars>>

CancelTrial ==
  /\ ~cancelled /\ loop # "done" /\ cancelled' = TRUE
  /\ UNCHANGED <<channelVars, loop, workerVars, late, proxyVars>>

GatewayWork ==
  \/ StartContainer \/ LaunchWorker \/ ReadResult \/ LoopEnds \/ Dispatch
  \/ JournalStart \/ AdmitCall \/ Answered \/ JournalEnd
  \/ KillWorker \/ StopContainer \/ Conclude \/ TrialTimesOut

GatewayNext ==
  GatewayWork \/ WorkerExits \/ CancelTrial \/ \E n \in 0..MaxFrames : WorkerAsks(n)

(***************************************************************************)
(* Properties.                                                             *)
(***************************************************************************)
Started == Cardinality({i \in DOMAIN journal : journal[i] = "started"})

\* Whatever the worker writes, whenever the deadline or a cancellation comes
\* and whatever fails: what may be billed is journaled first and reserved
\* within the limits, nothing is sent after a call that went wrong, a score is
\* only given when every call is complete and its price known, and a container
\* that may still run keeps its directory (model_proxy.py:89,
\* model_budget.py:262, hosted_snapshot.py:125, agent_snapshot.py:298).
TrialIsAccounted ==
  /\ Len(entries) <= MaxModelCalls /\ Spend <= CostLimit
  /\ sent <= Len(entries) /\ Len(entries) <= Started /\ Started <= sequence
  /\ \A i \in 1..Len(entries) - 1 : entries[i] = "completed"
  /\ ~proxyClosed => Complete /\ Len(journal) = 2 * sent
  /\ loop = "done" <=> directory # "live"
  /\ loop = "done" => worker # "running" /\ result.status # "none"
  /\ result.status = "completed" =>
       Complete /\ sent > 0 /\ result.priced /\ worker = "exited" /\ Len(journal) = 2 * sent
  /\ result.priced => result.cost <= CostLimit + Over(entries)
  /\ directory = "removed" => container # "running"

\* The trial ends, though the worker may hang and the provider be slow.
TrialEnds == (loop = "start") ~> (loop = "done")
=============================================================================
