----------------------------- MODULE MCEvolver -----------------------------
(* The evolver's components, each explored on its own.                     *)
EXTENDS CandidateEvidence, StrategyDeployment, TrialGateway

CONSTANTS c1, c2, t1, t2, t3, prompt, skill

VARIABLE part  \* the component that is running in this behaviour

\* A comparison that is won, one that is not, a trial over its limit, and one
\* that broke down without a price.
Scores == {[status |-> "completed", passed |-> TRUE, cost |-> 0],
           [status |-> "completed", passed |-> FALSE, cost |-> 1],
           [status |-> "completed", passed |-> TRUE, cost |-> 2],
           [status |-> "infrastructure_error", passed |-> FALSE, cost |-> nobody]}

\* Two candidates without a fault, and with one, on money for the second once the
\* first is settled; one candidate and a fault; and two whose comparisons alone are
\* left to do, with money for both, and for the second once the first is settled.
Searched == [cands |-> {c1, c2}, calls |-> 3, faults |-> 0, budget |-> 3,
             judged |-> FALSE, asks |-> Asks \ {"evaluate"}]
Broken == [Searched EXCEPT !.calls = 2, !.faults = 1, !.asks = Asks]
Repeated == [Broken EXCEPT !.cands = {c1}, !.calls = 3]
Compared == [Searched EXCEPT !.faults = 1, !.budget = 4, !.judged = TRUE, !.asks = {"reserve"}]
Settled == [Compared EXCEPT !.calls = 4, !.budget = 3, !.asks = {"reserve", "settle"}]
Ways == {Searched, Broken, Repeated, Compared, Settled}

ForWhom == (t1 :> c1 @@ t2 :> c1 @@ t3 :> c2)
RouteOf == (c1 :> prompt @@ c2 :> skill)

vars == <<part, evidenceVars, deployVars, gatewayVars>>
Init ==
  /\ part \in {"evidence", "deployment", "gateway"}
  /\ EvidenceInit /\ DeployInit /\ GatewayInit
  /\ part # "evidence" => regime = Searched
Next ==
  /\ UNCHANGED part
  /\ \/ part = "evidence" /\ EvidenceNext /\ UNCHANGED <<deployVars, gatewayVars>>
     \/ part = "deployment" /\ DeployNext /\ UNCHANGED <<evidenceVars, gatewayVars>>
     \/ part = "gateway" /\ GatewayNext /\ UNCHANGED <<evidenceVars, deployVars>>

Fairness ==
  /\ \A h \in Hosts : WF_evidenceVars(part = "evidence" /\ HostWork(h))
  /\ WF_gatewayVars(part = "gateway" /\ GatewayWork)
Spec == Init /\ [][Next]_vars /\ Fairness

\* The evidence of a candidate (CandidateEvidence) and the trials it rests on
\* (TrialGateway): each of their invariants, in its own part.
ExperimentsAreSound == EvidenceHolds /\ TrialIsAccounted

\* Whatever is called for ends: an operation of a host, a trial of an agent.
EvolverEnds == EveryCallEnds /\ (part = "gateway" => TrialEnds)
=============================================================================
