---------------------------- MODULE FocusedPilot ----------------------------
(***************************************************************************)
(* A fixed comparison of two versions of the agent on a frozen             *)
(* configuration (evolver/pilot_protocol.py and evolver/pilot_runner.py):  *)
(* every task is tried once with each of the two arms, in an order of its  *)
(* own, on money that was approved for exactly this configuration.         *)
(* Operators may start it again at any time, its process may die, and the  *)
(* configuration or the implementation may change under it.                *)
(***************************************************************************)
EXTENDS Integers, Sequences, FiniteSets, SequencesExt

CONSTANTS
  Operators,    \* who may start the pilot
  noOperator,   \* a free .execution.lock
  PilotTasks,   \* the number of tasks
  TrialLimit,   \* max_estimated_cost_usd of a trial
  PilotCap,     \* max_total_cost_usd
  Prices,       \* what a trial may be reported to cost
  unpriced,     \* no price
  MaxDrifts,    \* bound: changes of what was frozen
  MaxPilots     \* bound: starts

\* preflight_pilot: "total budget cannot reserve both arms for every task".
ASSUME PilotAssumption ==
  /\ noOperator \notin Operators /\ PilotTasks \in Nat \ {0}
  /\ {TrialLimit, PilotCap, MaxDrifts, MaxPilots} \subseteq Nat
  /\ 2 * PilotTasks * TrialLimit <= PilotCap

VARIABLES
  drifted,     \* whether verify_frozen_pilot would now find a difference
  drifts, pilotStarts,
  pilotLock,   \* the holder of .execution.lock
  fence,       \* whether the directory "execution" exists
  pilotAt,     \* where its process is
  attempted,   \* trials started by this process
  knownCost,   \* of the trials that came back with a price
  pilotLedger, \* ledger.jsonl: the kinds of events and their trials
  receipts,    \* trial-NNN.json
  sends        \* per trial: how often its gateway was asked

pilotVars == <<drifted, drifts, pilotStarts, pilotLock, fence, pilotAt, attempted, knownCost,
               pilotLedger, receipts, sends>>

ReservedTrials == 2 * PilotTasks
PilotTrials == 1..ReservedTrials

\* "alternate-baseline-first-by-task-index"
ArmOf(trial) ==
  LET task == (trial - 1) \div 2 IN
  IF (trial - 1) % 2 = task % 2 THEN "baseline" ELSE "candidate"
TaskOf(trial) == (trial + 1) \div 2

PilotInit ==
  /\ drifted = FALSE /\ drifts = 0 /\ pilotStarts = 0 /\ pilotLock = noOperator
  /\ fence = FALSE /\ pilotAt = "idle" /\ attempted = 0 /\ knownCost = 0
  /\ pilotLedger = <<>> /\ receipts = {} /\ sends = [t \in PilotTrials |-> 0]

\* With, for the properties, whether the pilot was then what was frozen.
Note(kind, trial) ==
  pilotLedger' = Append(pilotLedger, [kind |-> kind, trial |-> trial, frozen |-> ~drifted])

\* Faulty: the directory is made if it is not there yet.
FaultyFenced == FALSE
Fenced == fence

\* run_frozen_pilot, up to pilot.started: alone, on what was approved, and
\* never a second time.  What it refuses changes nothing.
StartPilot(o) ==
  /\ pilotLock = noOperator /\ pilotStarts < MaxPilots /\ ~drifted /\ ~Fenced
  /\ pilotLock' = o /\ fence' = TRUE /\ pilotStarts' = pilotStarts + 1
  /\ Note("started", 0) /\ pilotAt' = "plan" /\ attempted' = 0 /\ knownCost' = 0
  /\ UNCHANGED <<drifted, drifts, receipts, sends>>

\* except BaseException: what is known goes on record, nothing is retried.
FailPilot == Note("failed", attempted) /\ pilotAt' = "idle" /\ pilotLock' = noOperator

\* The gateway, the image and the tasks are the approved ones, or not.
FreezePlan ==
  /\ pilotAt = "plan"
  /\ \/ Note("plan_frozen", 0) /\ pilotAt' = "next" /\ UNCHANGED pilotLock
     \/ FailPilot
  /\ UNCHANGED <<drifted, drifts, pilotStarts, fence, attempted, knownCost, receipts, sends>>

\* Faulty: what is frozen is verified at the start only.
FaultyStillFrozen == TRUE
StillFrozen == ~drifted

StartTrial ==
  /\ pilotAt = "next" /\ attempted < ReservedTrials
  /\ IF StillFrozen
       THEN /\ Note("trial_started", attempted + 1) /\ attempted' = attempted + 1
            /\ pilotAt' = "run" /\ UNCHANGED pilotLock
       ELSE FailPilot /\ UNCHANGED attempted
  /\ UNCHANGED <<drifted, drifts, pilotStarts, fence, knownCost, receipts, sends>>
SendTrial ==
  /\ pilotAt = "run" /\ sends' = [sends EXCEPT ![attempted] = @ + 1] /\ pilotAt' = "sent"
  /\ UNCHANGED <<drifted, drifts, pilotStarts, pilotLock, fence, attempted, knownCost,
                 pilotLedger, receipts>>

\* Faulty: a trial without a price counts as free.
FaultyAcceptableTrial(row) == row.status = "completed" /\ row.cost \in {unpriced} \cup 0..TrialLimit
AcceptableTrial(row) == row.status = "completed" /\ row.cost \in 0..TrialLimit

\* run_trial returns and its receipt is kept, whatever it says; or it raises.
TrialReturns ==
  /\ pilotAt = "sent"
  /\ \/ FailPilot /\ UNCHANGED <<knownCost, receipts>>
     \/ \E status \in {"completed", "failed"}, cost \in Prices \cup {unpriced}, passed \in BOOLEAN :
          LET row == [trial |-> attempted, status |-> status, cost |-> cost, passed |-> passed]
              total == knownCost + (IF cost = unpriced THEN 0 ELSE cost)
          IN /\ receipts' = receipts \cup {row} /\ knownCost' = total
             /\ IF AcceptableTrial(row) /\ total <= PilotCap
                  THEN Note("trial_completed", attempted) /\ pilotAt' = "next" /\ UNCHANGED pilotLock
                  ELSE FailPilot
  /\ UNCHANGED <<drifted, drifts, pilotStarts, fence, attempted, sends>>

CompletePilot ==
  /\ pilotAt = "next" /\ attempted = ReservedTrials
  /\ IF StillFrozen THEN Note("completed", attempted) /\ pilotAt' = "idle" /\ pilotLock' = noOperator
     ELSE FailPilot
  /\ UNCHANGED <<drifted, drifts, pilotStarts, fence, attempted, knownCost, receipts, sends>>

\* The process dies: the lock goes with it, the directory stays.
PilotDies ==
  /\ pilotAt # "idle" /\ pilotAt' = "idle" /\ pilotLock' = noOperator
  /\ UNCHANGED <<drifted, drifts, pilotStarts, fence, attempted, knownCost, pilotLedger,
                 receipts, sends>>

\* A file of the configuration or of the implementation is edited.
Drift ==
  /\ drifts < MaxDrifts /\ drifts' = drifts + 1 /\ drifted' = ~drifted
  /\ UNCHANGED <<pilotStarts, pilotLock, fence, pilotAt, attempted, knownCost, pilotLedger,
                 receipts, sends>>

PilotNext ==
  \/ \E o \in Operators : StartPilot(o)
  \/ FreezePlan \/ StartTrial \/ SendTrial \/ TrialReturns \/ CompletePilot
  \/ PilotDies \/ Drift

---------------------------------------------------------------------------
(* Properties                                                              *)

Noted(kind) == {n \in 1..Len(pilotLedger) : pilotLedger[n].kind = kind}
PilotTypes ==
  /\ pilotLock \in Operators \cup {noOperator} /\ attempted \in 0..ReservedTrials
  /\ (pilotAt = "idle") = (pilotLock = noOperator)

\* "No resume, retry" (pilot_runner.py:78) and "a crash at any later point
\* leaves this fence in place" (pilot_runner.py:98): whoever starts it again
\* after whatever end, no trial is sent twice, none is sent that is not on
\* record, and what a run leaves behind is one story.
PilotIsOnce ==
  /\ PilotTypes
  /\ \A t \in PilotTrials :
       /\ sends[t] <= 1
       /\ sends[t] = 1 => \E n \in Noted("trial_started") : pilotLedger[n].trial = t
  /\ Cardinality(Noted("started")) <= 1
  /\ Cardinality(Noted("completed") \cup Noted("failed")) <= 1
  /\ \A n \in Noted("failed") : pilotLedger[n].trial = Cardinality(Noted("trial_started"))

\* A pilot is completed only if each task has an acceptable result of each
\* arm, made of the frozen configuration, and all of it together cost no
\* more than was approved.
CompletedIsWhole ==
  Noted("completed") # {} =>
    /\ \A task \in 1..PilotTasks, arm \in {"baseline", "candidate"} :
         \E row \in receipts : /\ TaskOf(row.trial) = task /\ ArmOf(row.trial) = arm
                               /\ row.status = "completed" /\ row.cost \in 0..TrialLimit
    /\ Cardinality(receipts) = ReservedTrials /\ knownCost <= PilotCap
    /\ \A n \in Noted("trial_started") \cup Noted("completed") : pilotLedger[n].frozen

PilotIsSound == PilotIsOnce /\ CompletedIsWhole
=============================================================================
