---------------------------- MODULE ToolGateway ----------------------------
(***************************************************************************)
(* The execution of the tool calls of one model answer:                    *)
(* repoagent/tool_gateway.py plans them into batches, runs the calls of a  *)
(* batch in threads, and reports for each what it did;                     *)
(* repoagent/agent_loop.py goes from batch to batch.                       *)
(*                                                                         *)
(* A call is known by its position in the answer.  The workspace is the    *)
(* set of marks left in it: a call's own, or a user's.  What a call may do *)
(* is nondeterministic; what is reported of it is the gateway's.           *)
(***************************************************************************)
EXTENDS Naturals, Sequences, FiniteSets

CONSTANTS
  MaxCalls,     \* the length of the answer
  MaxParallel,  \* ToolGateway._max_parallel
  MaxUserEdits  \* how often a user edits the workspace meanwhile

ASSUME BoundsAssumption ==
  MaxCalls \in Nat /\ MaxParallel \in Nat \ {0} /\ MaxUserEdits \in Nat

(* The tools, by what the gateway reads of their definitions: a read that   *)
(* may share a batch, a read or an external call that may not, a write done *)
(* in this process, a command in a process of its own, and a name that is   *)
(* not in the table.                                                        *)
Tools == {"read", "probe", "write", "shell", "unknown"}
Mutating == {"write", "shell"}

Invocations == 1..MaxCalls
Edits == (MaxCalls + 1)..(MaxCalls + MaxUserEdits)
Marks == Invocations \cup Edits

VARIABLES
  script,         \* the calls of the answer, in its order
  position,       \* the first call of the batch at hand
  callStage,      \* where the thread of each call is
  workspace,      \* the marks in the workspace
  before,         \* capture_workspace_snapshot() before the call
  outcome,        \* how the tool of each call came back
  callResult,     \* the ToolResult of each call
  observed,       \* the calls whose result the host has taken note of
  turnCancelled,  \* the turn's cancellation token
  late,           \* the calls whose deadline has passed
  halted          \* the loop has stopped taking batches

gatewayVars == <<script, position, callStage, workspace, before, outcome, callResult,
                 observed, turnCancelled, late, halted>>
stageVars == <<callStage, workspace, before, outcome, callResult>>
envVars == <<turnCancelled, late>>

CallStages == {"planned", "started", "armed", "running", "returned", "finished"}
CallOutcomes == {"none", "ok", "truncated", "exit", "raised", "cancelled", "timeout"}
ResultStatuses == {"none", "ok", "rejected", "error", "partial_success", "cancelled",
             "timeout"}
NoCallResult == [status |-> "none", affected |-> {}]

TypeOK ==
  /\ script \in [Invocations -> Tools] /\ position \in 1..(MaxCalls + 1)
  /\ callStage \in [Invocations -> CallStages]
  /\ workspace \subseteq Marks /\ before \in [Invocations -> SUBSET Marks]
  /\ outcome \in [Invocations -> CallOutcomes]
  /\ callResult \in [Invocations -> [status : ResultStatuses, affected : SUBSET Marks]]
  /\ observed \in Seq(Invocations) /\ Len(observed) <= MaxCalls
  /\ turnCancelled \in BOOLEAN
  /\ late \subseteq Invocations /\ halted \in BOOLEAN

GatewayInit ==
  /\ script \in [Invocations -> Tools] /\ position = 1
  /\ callStage = [i \in Invocations |-> "planned"]
  /\ workspace = {} /\ before = [i \in Invocations |-> {}]
  /\ outcome = [i \in Invocations |-> "none"]
  /\ callResult = [i \in Invocations |-> NoCallResult]
  /\ observed = <<>> /\ turnCancelled = FALSE /\ late = {}
  /\ halted = FALSE

---------------------------------------------------------------------------
(* plan_batches *)

ConcurrencySafe(i) == script[i] = "read"

\* Faulty: the batch is cut by what its calls have in common with the first.
FaultyBatchFrom(i) == {j \in i..MaxCalls : j < i + MaxParallel /\
                         \A k \in i..j : ConcurrencySafe(k) = ConcurrencySafe(i)}

\* The batch that starts at call i: one call, or as many of the reads that
\* follow one another as may run at once.
BatchFrom(i) ==
  {j \in i..MaxCalls : \/ j = i
                       \/ /\ j < i + MaxParallel
                          /\ \A k \in i..j : ConcurrencySafe(k)}

Batch == BatchFrom(position)
Parallel == Cardinality(Batch) > 1

\* The loop looks at the token between batches.
StartBatch ==
  /\ ~halted /\ position <= MaxCalls
  /\ \A i \in Batch : callStage[i] = "planned"
  /\ IF turnCancelled
       THEN halted' = TRUE /\ UNCHANGED callStage
       ELSE /\ callStage' = [i \in Invocations |-> IF i \in Batch THEN "started"
                                            ELSE callStage[i]]
            /\ UNCHANGED halted
  /\ UNCHANGED <<script, position, workspace, before, outcome, callResult, observed,
                 envVars>>

---------------------------------------------------------------------------
(* execute, in the thread of the call *)

\* Faulty: the threads of a parallel batch observe their results as well.
FaultyObserve(i) == observed' = Append(observed, i)

\* A call run by itself is observed by its thread; those of a parallel batch
\* are observed by the batch.
Observe(i) == observed' = IF Parallel THEN observed ELSE Append(observed, i)

Finish(i, status, affected) ==
  /\ callStage' = [callStage EXCEPT ![i] = "finished"]
  /\ callResult' = [callResult EXCEPT ![i] = [status |-> status, affected |-> affected]]

(* The guards of execute().  A tool that is in the table may be refused all  *)
(* the same: by the run's allowlist, the capability token or its expiry, the *)
(* sandbox it requires, its arguments, the repetition check, the approval.   *)
Reject(i) ==
  /\ callStage[i] = "started"
  /\ Finish(i, "rejected", {})
  /\ UNCHANGED observed
  /\ UNCHANGED <<script, position, workspace, before, outcome, envVars, halted>>

\* Faulty: the snapshot is taken for commands only.
FaultyAdmit(i) ==
  /\ callStage[i] = "started" /\ script[i] # "unknown"
  /\ callStage' = [callStage EXCEPT ![i] = "armed"]
  /\ before' = [before EXCEPT ![i] = IF script[i] = "shell" THEN workspace ELSE {}]
  /\ UNCHANGED <<script, position, workspace, outcome, callResult, observed, envVars,
                 halted>>

Admit(i) ==
  /\ callStage[i] = "started" /\ script[i] # "unknown"
  /\ callStage' = [callStage EXCEPT ![i] = "armed"]
  /\ before' = [before EXCEPT ![i] = IF script[i] \in Mutating
                                       THEN workspace ELSE {}]
  /\ UNCHANGED <<script, position, workspace, outcome, callResult, observed, envVars,
                 halted>>

\* ToolExecutionControl.status()
Control(i) == IF turnCancelled THEN "cancelled"
              ELSE IF i \in late THEN "timeout" ELSE "running"

\* Faulty: an armed call is entered whatever has happened since.
FaultyEnter(i) ==
  /\ callStage[i] = "armed"
  /\ callStage' = [callStage EXCEPT ![i] = "running"]
  /\ UNCHANGED <<script, position, workspace, before, outcome, callResult, observed,
                 envVars, halted>>

\* control.status() is read once more before the tool is entered.
Enter(i) ==
  /\ callStage[i] = "armed"
  /\ IF Control(i) # "running"
       THEN /\ callStage' = [callStage EXCEPT ![i] = "returned"]
            /\ outcome' = [outcome EXCEPT ![i] = Control(i)]
       ELSE /\ callStage' = [callStage EXCEPT ![i] = "running"] /\ UNCHANGED outcome
  /\ UNCHANGED <<script, position, workspace, before, callResult, observed, envVars,
                 halted>>

\* A mutating tool changes the workspace at some moment of its run.
Act(i) ==
  /\ callStage[i] = "running" /\ script[i] \in Mutating /\ i \notin workspace
  /\ workspace' = workspace \cup {i}
  /\ UNCHANGED <<script, position, callStage, before, outcome, callResult, observed,
                 envVars, halted>>

(* It comes back with its work done, or, done or not, by raising; a command  *)
(* may also end with an exit code, or be stopped for its time or the token.  *)
MayReturn(i, how) ==
  \/ how \in {"ok", "truncated"} /\ (script[i] \in Mutating => i \in workspace)
  \/ how = "raised"
  \/ how = "exit" /\ script[i] = "shell"
  \/ how \in {"cancelled", "timeout"} /\ script[i] = "shell" /\ how = Control(i)

ToolReturns(i, how) ==
  /\ callStage[i] = "running" /\ MayReturn(i, how)
  /\ callStage' = [callStage EXCEPT ![i] = "returned"]
  /\ outcome' = [outcome EXCEPT ![i] = how]
  /\ UNCHANGED <<script, position, workspace, before, callResult, observed, envVars,
                 halted>>

\* diff_workspace_snapshots(before, after)
Affected(i) == IF script[i] \in Mutating THEN workspace \ before[i] ELSE {}

\* A command says itself how its process ended; the others are asked of the
\* control, after the fact.
ExecutionStatus(i) ==
  IF outcome[i] \in {"cancelled", "timeout"} THEN outcome[i]
  ELSE IF script[i] = "shell" /\ outcome[i] # "raised" THEN "completed"
  ELSE Control(i)

\* Faulty: a tool that raised is an error, whatever it had done by then.
FaultyStatus(i) ==
  CASE ExecutionStatus(i) \in {"cancelled", "timeout"} -> ExecutionStatus(i)
    [] outcome[i] \in {"exit", "raised"} -> "error"
    [] outcome[i] = "truncated" -> "partial_success"
    [] OTHER -> "ok"

Status(i) ==
  LET changed == Affected(i) # {} IN
  CASE ExecutionStatus(i) \in {"cancelled", "timeout"} -> ExecutionStatus(i)
    [] outcome[i] \in {"exit", "raised"} ->
         IF changed THEN "partial_success" ELSE "error"
    [] outcome[i] = "truncated" -> "partial_success"
    [] OTHER -> "ok"

Report(i) ==
  /\ callStage[i] = "returned"
  /\ Finish(i, Status(i), Affected(i)) /\ Observe(i)
  /\ UNCHANGED <<script, position, workspace, before, outcome, envVars, halted>>

---------------------------------------------------------------------------
(* execute_batch, and the loop that records its results *)

\* The calls of a set, in the order of the answer.
CallsInOrder(S) == [k \in 1..Cardinality(S) |->
                 CHOOSE i \in S : Cardinality({j \in S : j < i}) = k - 1]

EndBatch ==
  /\ ~halted /\ position <= MaxCalls
  /\ \A i \in Batch : callStage[i] = "finished"
  /\ observed' = IF Parallel THEN observed \o CallsInOrder(Batch) ELSE observed
  /\ position' = position + Cardinality(Batch)
  /\ halted' = (\E i \in Batch : callResult[i].status = "cancelled")
  /\ UNCHANGED <<script, stageVars, envVars>>

---------------------------------------------------------------------------
(* The surroundings *)

CancelAnswer ==
  /\ ~turnCancelled /\ turnCancelled' = TRUE
  /\ UNCHANGED <<script, position, stageVars, observed, late, halted>>

CallExpires(i) ==
  /\ callStage[i] \in {"armed", "running", "returned"} /\ i \notin late
  /\ late' = late \cup {i}
  /\ UNCHANGED <<script, position, stageVars, observed, turnCancelled, halted>>

UserEdits(e) ==
  /\ e \notin workspace /\ workspace' = workspace \cup {e}
  /\ UNCHANGED <<script, position, callStage, before, outcome, callResult, observed,
                 envVars, halted>>

Done == halted \/ position > MaxCalls

CallStep(i) == \/ Reject(i) \/ Admit(i) \/ Enter(i) \/ Act(i) \/ Report(i)
               \/ \E how \in CallOutcomes : ToolReturns(i, how)

GatewayNext ==
  \/ StartBatch \/ EndBatch \/ CancelAnswer
  \/ \E i \in Invocations : CallStep(i) \/ CallExpires(i)
  \/ \E e \in Edits : UserEdits(e)
  \/ Done /\ UNCHANGED gatewayVars

GatewaySpec == GatewayInit /\ [][GatewayNext]_gatewayVars

---------------------------------------------------------------------------
(* Properties *)

Underway(i) == callStage[i] \in {"armed", "running", "returned"}

\* While a call that is not a concurrency-safe read is under way no other call
\* is: reads never see half of a write of the same answer, and the change found
\* between a call's two snapshots is not another call's.
SideEffectsRunAlone ==
  \A i, j \in Invocations : Underway(i) /\ Underway(j) /\ i # j =>
     ConcurrencySafe(i) /\ ConcurrencySafe(j)

\* The host takes note of the results in the order of the answer, whichever
\* thread ends first, and of none twice.
ObservedInOrder == \A k \in DOMAIN observed :
  \A l \in 1..(k - 1) : observed[l] < observed[k]

\* A result does not lie about the workspace: what a call did is among the paths
\* it reports, a call reported as an error or as rejected did nothing, and one
\* reported as ok did its work.
ResultTellsTheWorkspace ==
  \A i \in Invocations : callStage[i] = "finished" =>
     /\ i \in workspace => i \in callResult[i].affected
     /\ callResult[i].status \in {"error", "rejected"} => i \notin workspace
     /\ callResult[i].status = "ok" /\ script[i] \in Mutating => i \in workspace

\* A change that no call of the answer made is reported of a call only if it was
\* made while that call was under way: a later call's report never repeats it.
ChangeIsReportedOnce ==
  \A i, j \in Invocations :
     i # j /\ callStage[i] = "finished" /\ callStage[j] = "finished" =>
       callResult[i].affected \cap callResult[j].affected = {}

\* What the host takes note of: each result once and in order, each change of
\* somebody else at most once.
NotesAreInOrder == TypeOK /\ ObservedInOrder /\ ChangeIsReportedOnce

\* After the turn is cancelled no tool is entered and no batch is started.
CancelledStartsNothing ==
  [][turnCancelled => \A i \in Invocations :
        /\ callStage[i] # "running" => callStage'[i] # "running"
        /\ callStage[i] = "planned" => callStage'[i] = "planned"]_gatewayVars
=============================================================================
