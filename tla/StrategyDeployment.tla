------------------------ MODULE StrategyDeployment -------------------------
(***************************************************************************)
(* How a validated candidate becomes the strategy in use                   *)
(* (repoagent/evolver/activation.py, deployment.py): operators of several  *)
(* processes confirm approvals, activate, roll back and run tasks over one *)
(* ledger.  Nothing but the ledger says which strategy is in use: every    *)
(* reader replays its activations and rollbacks.  Finding the current one  *)
(* and appending the event that replaces it are two steps; deployment.lock *)
(* is held over both, and over the confirmation before them.  A process    *)
(* may stop between any two steps.                                         *)
(*                                                                         *)
(* Candidates are those whose sealed validation has passed; what leads to  *)
(* a request for their approval is CandidateEvidence's.                    *)
(***************************************************************************)
EXTENDS Naturals, Sequences, FiniteSets, SequencesExt

CONSTANTS
  Operators,   \* the processes that deploy
  Strategies,  \* the candidates with a passing sealed validation
  Labels,      \* the routes
  Tokens,      \* the approval tokens that were handed out
  TokenOf,     \* the candidate of each token's request
  LabelOf,     \* the label of each candidate's manifest
  noEvent,     \* no strategy
  MaxEvents,   \* bound: the events of the ledger when an operation starts
  MaxTasks,    \* bound: the tasks run
  MaxStops     \* bound: the processes that stop in the middle

ASSUME DeploymentAssumption ==
  /\ LabelOf \in [Strategies -> Labels] /\ TokenOf \in [Tokens -> Strategies]
  /\ noEvent \notin Operators
  /\ {MaxEvents, MaxTasks, MaxStops} \subseteq Nat

VARIABLES
  dlog,        \* the confirmations, activations and rollbacks, oldest first
  dlock,       \* who holds deployment.lock
  operator,    \* what each operator is doing
  tasks,       \* the tasks that were started, and what became of them
  stops

deployVars == <<dlog, dlock, operator, tasks, stops>>

AtRest == [at |-> "rest", cand |-> noEvent, label |-> noEvent, event |-> 0]

DeployInit ==
  /\ dlog = <<>> /\ dlock = noEvent /\ tasks = <<>> /\ stops = 0
  /\ operator = [o \in Operators |-> AtRest]

(***************************************************************************)
(* The replay of the ledger.                                               *)
(***************************************************************************)
Events(type) == {i \in DOMAIN dlog : dlog[i].type = type}
Of(c) == {i \in DOMAIN dlog : dlog[i].cand = c}
Newest(S) == CHOOSE i \in S : \A j \in S : j <= i

\* ActivationRegistry.resolve: the last activation or rollback of the label
\* decides; a rollback names the activation it brings back, 0 for none.
Resolve(l) ==
  LET moves == {i \in Events("activated") \cup Events("rollback") : dlog[i].label = l}
  IN IF moves = {} THEN 0
     ELSE LET i == Newest(moves)
          IN IF dlog[i].type = "activated" THEN i ELSE dlog[i].event

Confirmed(t) == \E i \in Events("confirmed") : dlog[i].event = t
Room == Len(dlog) < MaxEvents
Record(type, c, l, e) ==
  dlog' = Append(dlog, [type |-> type, cand |-> c, label |-> l, event |-> e])

FaultyUnlocked == TRUE
Unlocked == dlock = noEvent
Lock(o) == Unlocked /\ dlock' = o
Rest(o) ==
  /\ operator' = [operator EXCEPT ![o] = AtRest]
  /\ dlock' = IF dlock = o THEN noEvent ELSE dlock

(***************************************************************************)
(* Approvals.                                                              *)
(***************************************************************************)
\* SnapshotDeployment.approve: no other label may be in use.  Without a token
\* it continues from a confirmation that has not activated anything yet.
OthersAtRest(l) == \A k \in Labels \ {l} : Resolve(k) = 0
FaultyUnspent(c) == Events("confirmed") \cap Of(c) # {}
Unspent(c) ==
  LET confirmations == Events("confirmed") \cap Of(c)
  IN /\ confirmations # {}
     /\ \A i \in Events("activated") \cap Of(c) : i < Newest(confirmations)

Approve(o, t, l) ==
  /\ operator[o] = AtRest /\ Room
  /\ Lock(o) /\ OthersAtRest(l)
  /\ operator' = [operator EXCEPT ![o] =
       [at |-> "confirm", cand |-> TokenOf[t], label |-> l, event |-> t]]
  /\ UNCHANGED <<dlog, tasks, stops>>

ActivateConfirmed(o, c, l) ==
  /\ operator[o] = AtRest /\ Room
  /\ Lock(o) /\ OthersAtRest(l) /\ Unspent(c)
  /\ operator' = [operator EXCEPT ![o] =
       [at |-> "evidence", cand |-> c, label |-> l, event |-> 0]]
  /\ UNCHANGED <<dlog, tasks, stops>>

\* ApprovalBroker.confirm: a token that was confirmed before is refused.
ConfirmToken(o) ==
  /\ operator[o].at = "confirm"
  /\ LET t == operator[o].event IN
     IF Confirmed(t) THEN Rest(o) /\ UNCHANGED dlog
     ELSE /\ Record("confirmed", operator[o].cand, noEvent, t)
          /\ operator' = [operator EXCEPT ![o].at = "evidence", ![o].event = 0]
          /\ UNCHANGED dlock
  /\ UNCHANGED <<tasks, stops>>

(***************************************************************************)
(* ActivationRegistry.activate and rollback: read, then append.            *)
(***************************************************************************)
ReadPrevious(o) ==
  /\ operator[o].at = "evidence"
  /\ LET c == operator[o].cand  l == operator[o].label IN
     IF LabelOf[c] # l THEN Rest(o)
     ELSE /\ operator' = [operator EXCEPT ![o].at = "activate", ![o].event = Resolve(l)]
          /\ UNCHANGED dlock
  /\ UNCHANGED <<dlog, tasks, stops>>

AppendActivation(o) ==
  /\ operator[o].at = "activate"
  /\ Record("activated", operator[o].cand, operator[o].label, operator[o].event)
  /\ Rest(o)
  /\ UNCHANGED <<tasks, stops>>

ReadCurrent(o, l) ==
  /\ operator[o] = AtRest /\ Room /\ Resolve(l) # 0
  /\ Lock(o)
  /\ operator' = [operator EXCEPT ![o] =
       [at |-> "rollback", cand |-> dlog[Resolve(l)].cand, label |-> l, event |-> Resolve(l)]]
  /\ UNCHANGED <<dlog, tasks, stops>>

AppendRollback(o) ==
  /\ operator[o].at = "rollback"
  /\ Record("rollback", operator[o].cand, operator[o].label, dlog[operator[o].event].event)
  /\ Rest(o)
  /\ UNCHANGED <<tasks, stops>>

(***************************************************************************)
(* SnapshotDeployment.run_task: the source is pinned under the lock, the   *)
(* run is recorded and done without it.                                    *)
(***************************************************************************)
PinSource(o, l) ==
  /\ operator[o] = AtRest /\ Len(tasks) < MaxTasks /\ Unlocked
  /\ operator' = [operator EXCEPT ![o] =
       [at |-> "start", cand |-> noEvent, label |-> l, event |-> Resolve(l)]]
  /\ UNCHANGED <<dlog, dlock, tasks, stops>>

StartTask(o) ==
  /\ operator[o].at = "start"
  /\ tasks' = Append(tasks, [source |-> operator[o].event, status |-> "started"])
  /\ operator' = [operator EXCEPT ![o].at = "run", ![o].event = Len(tasks) + 1]
  /\ UNCHANGED <<dlog, dlock, stops>>

FinishTask(o) ==
  /\ operator[o].at = "run"
  /\ \E s \in {"completed", "failed"} : tasks' = [tasks EXCEPT ![operator[o].event].status = s]
  /\ operator' = [operator EXCEPT ![o] = AtRest]
  /\ UNCHANGED <<dlog, dlock, stops>>

StopOperator(o) ==
  /\ operator[o] # AtRest /\ stops < MaxStops
  /\ stops' = stops + 1 /\ Rest(o)
  /\ UNCHANGED <<dlog, tasks>>

DeployWork(o) ==
  \/ ConfirmToken(o) \/ ReadPrevious(o) \/ AppendActivation(o) \/ AppendRollback(o)
  \/ StartTask(o) \/ FinishTask(o)

DeployNext ==
  \E o \in Operators :
    \/ DeployWork(o) \/ StopOperator(o)
    \/ \E l \in Labels, t \in Tokens : Approve(o, t, l)
    \/ \E l \in Labels, c \in Strategies : ActivateConfirmed(o, c, l)
    \/ \E l \in Labels : ReadCurrent(o, l) \/ PinSource(o, l)

(***************************************************************************)
(* Properties.                                                             *)
(***************************************************************************)
\* The strategies in use of a label: the current activation, the one it
\* replaced, the one that replaced, and so on.
ChainTo[i \in 0..Len(dlog)] ==
  IF i \in Events("activated") THEN Append(ChainTo[dlog[i].event], dlog[i].cand) ELSE <<>>
Chains == [l \in Labels |-> ChainTo[Resolve(l)]]

Stack == INSTANCE StrategyStack WITH stack <- Chains

\* Whatever operators do at once and wherever they stop, activating puts a
\* strategy over the one in use and rolling back brings that one back
\* (activation.py:171 and :191 read what :172 and :199 append).
DeploymentIsAStack == Stack!StackSpec

\* A token confirms once, a confirmation activates once however often it is
\* recovered, and a task runs the baseline or a strategy that was activated
\* (activation.py:69, deployment.py:94, :123).
ApprovalsAreSpentOnce ==
  /\ \A i, j \in Events("confirmed") : dlog[i].event = dlog[j].event => i = j
  /\ \A c \in Strategies :
       /\ Cardinality(Events("activated") \cap Of(c)) <= Cardinality(Events("confirmed") \cap Of(c))
       /\ \A i \in Events("activated") \cap Of(c) : dlog[i].label = LabelOf[c]
  /\ \A k \in DOMAIN tasks : tasks[k].source = 0 \/ tasks[k].source \in Events("activated")
=============================================================================
