------------------------------ MODULE MCRecords ------------------------------
(* What is kept and what is made of it: the session file, the agent's own  *)
(* memory, the request that is made for a model, what is reported of the   *)
(* calls it answers with, what evaluations and searches record, and the    *)
(* lease of a gateway.  Each is explored on its own.                       *)
EXTENDS SessionStore, WorkingMemory, RequestBudget, EvalCampaigns, FocusedPilot,
        FocusedSearch, GatewayLease, ToolGateway, TLC

CONSTANTS
  five, ten, alone,            \* texts of notes; the first two on one subject
  left1, right1, bench, input, \* campaigns of one benchmark and one input
  task1, task2, task3          \* tasks of a search; the last two fail alike

VARIABLE part  \* the component that is running in this behaviour

\* A save that raises and a crash; and threads that outlive their turns.
Orderly == [lingering |-> FALSE, rev |-> 4, faults |-> 1, crashes |-> 1]
Late == [lingering |-> TRUE, rev |-> 5, faults |-> 0, crashes |-> 0]
SessionSettings == {Orderly, Late}

Subjects == five :> "timeout" @@ ten :> "timeout" @@ alone :> noSubject

\* Messages of a request: calls with their results, without, and in excess.
Sized(who, size, made, of) ==
  [role |-> who, size |-> size, calls |-> made, of |-> of, full |-> TRUE]
Asks(size) == Sized("user", size, {}, 0)
Makes(size, made) == Sized("assistant", size, made, 0)
Yields(size, of) == Sized("tool", size, {}, of)
Histories == {<<>>,
              <<Asks(1), Makes(0, {91}), Yields(3, 91), Asks(1), Makes(1, {})>>,
              <<Makes(1, {}), Asks(1), Yields(1, 92), Asks(1), Makes(0, {94})>>}
Grown == {<<Makes(0, {1}), Yields(1, 1)>>, <<Makes(1, {1}), Yields(4, 1)>>,
          <<Makes(0, {1, 2}), Yields(3, 1), Yields(2, 2)>>,
          <<Makes(0, {})>>, <<Makes(2, {})>>, <<Asks(1)>>}
Sections == [prefix : {5, 12}, memory : {0, 3}, notes : {4}]
SectionBudgets == [prefix |-> 12, memory |-> 3, notes |-> 3, history |-> 8]
AtLeast == [prefix |-> 11, memory |-> 3, notes |-> 2, history |-> 4]
ReducedIn == <<"notes", "history", "memory", "prefix">>

OneBenchmark == [c \in Campaigns |-> bench]
OneInput == [c \in Campaigns |-> input]
TwoTasks == <<"one", "two">>
Graded == {[status |-> "pass", calls |-> 1], [status |-> "fail", calls |-> 3],
           [status |-> "error", calls |-> 1]}

Causes == task1 :> 1 @@ task2 :> 2 @@ task3 :> 2

vars == <<part, storeVars, memoryVars, budgetVars, campaignVars, pilotVars,
          searchVars, leaseVars, gatewayVars>>

\* A component that is not running is where it may begin.
Init ==
  /\ part \in {"store", "memory", "budget", "campaigns", "pilot", "search", "lease", "calls"}
  /\ StoreInit /\ MemoryInit /\ BudgetInit /\ CampaignsInit /\ PilotInit /\ SearchInit
  /\ LeaseInit /\ GatewayInit
  /\ part # "store" => setting = Late /\ disk.title = CHOOSE t \in Titles : TRUE
  /\ part # "memory" => \A f \in Files : content[f] = five
  /\ part # "budget" =>
       mode = "text" /\ past = <<>> /\ texts.prefix = 5 /\ texts.memory = 0
  /\ part # "calls" => \A i \in Invocations : script[i] = "read"
  /\ Cardinality({i \in Invocations : script[i] \in Mutating \cup {"probe"}}) <= 2

Next ==
  /\ UNCHANGED part
  /\ \/ part = "store" /\ StoreNext
        /\ UNCHANGED <<memoryVars, budgetVars, campaignVars, pilotVars,
                       searchVars, leaseVars, gatewayVars>>
     \/ part = "memory" /\ MemoryNext
        /\ UNCHANGED <<storeVars, budgetVars, campaignVars, pilotVars,
                       searchVars, leaseVars, gatewayVars>>
     \/ part = "budget" /\ BudgetNext
        /\ UNCHANGED <<storeVars, memoryVars, campaignVars, pilotVars,
                       searchVars, leaseVars, gatewayVars>>
     \/ part = "campaigns" /\ CampaignsNext
        /\ UNCHANGED <<storeVars, memoryVars, budgetVars, pilotVars,
                       searchVars, leaseVars, gatewayVars>>
     \/ part = "pilot" /\ PilotNext
        /\ UNCHANGED <<storeVars, memoryVars, budgetVars, campaignVars,
                       searchVars, leaseVars, gatewayVars>>
     \/ part = "search" /\ SearchNext
        /\ UNCHANGED <<storeVars, memoryVars, budgetVars, campaignVars,
                       pilotVars, leaseVars, gatewayVars>>
     \/ part = "lease" /\ LeaseNext
        /\ UNCHANGED <<storeVars, memoryVars, budgetVars, campaignVars,
                       pilotVars, searchVars, gatewayVars>>
     \/ part = "calls" /\ GatewayNext
        /\ UNCHANGED <<storeVars, memoryVars, budgetVars, campaignVars,
                       pilotVars, searchVars, leaseVars>>

Spec == Init /\ [][Next]_vars

\* What a model is told: of its own work so far (WorkingMemory) and in its
\* request (RequestBudget), the invariant of each.
WhatIsToldIsSound == MemoryIsSound /\ RequestIsSound

\* What only one may hold, and what is paid for once: the invariants of campaigns
\* (EvalCampaigns), of searches (FocusedSearch) and of the lease of a gateway
\* (GatewayLease).
NothingIsTakenTwice == CampaignsAreSound /\ SearchIsSound /\ LeaseIsSound
=============================================================================
