------------------------- MODULE CandidateEvidence -------------------------
(***************************************************************************)
(* How the evolver of RepoAgent (repoagent/evolver/) gathers the evidence  *)
(* for a candidate: several host processes over one ledger directory.      *)
(* A search proposes candidates round by round (search.py); each is pinned *)
(* to a commit, judged by deterministic checks (orchestrator.py), compared *)
(* with its baseline in trials of two arms under a budget shared by the    *)
(* ledger (paired_execution.py, measurements.py), its unused reservation   *)
(* is given back (settlement.py), and one finalist of a finished search is *)
(* validated once on sealed tasks (finalization.py, sealed.py).            *)
(*                                                                         *)
(* The ledger only grows, and every step reads it anew: it is `evidence',  *)
(* `search' and `sealed' here, what the events of one candidate or of one  *)
(* run say.  What a host holds besides is its program counter and locks;   *)
(* a crash loses those and nothing else.  Every ledger event is a step of  *)
(* its own, so a host can stop between any two.                            *)
(***************************************************************************)
EXTENDS Naturals, Sequences, FiniteSets, FiniteSetsExt

CONSTANTS
  Hosts,       \* the processes that share the ledger directory
  Candidates,  \* the candidates a proposal may return
  Runs,        \* the run ids of searches
  nobody,      \* no host, no candidate, no price, no trial
  begun,       \* a trial that was started and has no receipt
  Pairs,       \* the pairs of trials in a plan
  Limit,       \* max_trial_cost_usd
  MaxPairs,    \* run_budget.max_pairs
  Results,     \* what a trial may report
  MaxRounds, Patience, MaxErrors,  \* SearchLimits
  Regimes      \* bounds: what may be proposed or called for, which operations and
               \* how many of them the hosts ever call, how many crashes and
               \* exceptions there are; the budget; and whether the checks of the
               \* candidates are done

Asks == {"search", "evaluate", "reserve", "settle"}

ASSUME EvidenceAssumption ==
  /\ {Pairs, MaxPairs, MaxRounds, Patience, MaxErrors} \subseteq Nat \ {0}
  /\ Limit \in Nat /\ IsFiniteSet(Candidates)
  /\ nobody \notin Hosts \cup Candidates \cup Results \cup {begun} /\ begun \notin Results
  /\ Regimes \subseteq [cands : SUBSET Candidates, calls : Nat, faults : Nat,
                     budget : Nat, judged : BOOLEAN, asks : SUBSET Asks]
  /\ \A r \in Results : r.status \in {"completed", "infrastructure_error"}
                        /\ r.passed \in BOOLEAN /\ r.cost \in Nat \cup {nobody}

VARIABLES
  host,      \* what each host is doing
  locks,     \* who holds each lock file
  evidence,  \* what the ledger says of each candidate
  pinned,    \* the candidates whose git reference exists
  search,    \* the last saved state of each search
  sealed,    \* the sealed validation of each run
  asked,     \* the candidates a human was asked to approve
  runs,      \* history: how often each check, trial and sealed validation has been
             \* launched, and what the launches of each trial have cost
  callsMade, faults,
  regime     \* the bounds of this behaviour; no step changes them

evidenceVars ==
  <<host, locks, evidence, pinned, search, sealed, asked, runs, callsMade, faults, regime>>

Locks == {"search", "materialization", "evaluation", "paired"}
Trials == 0..(2 * Pairs - 1)
Control(i) == i % 2 = 0
Gates == {"none", "pass", "fail", "error"}
Certain == {"qualified", "rejected", "generation_failed"}
Idle == [op |-> "idle", at |-> "idle", run |-> nobody, cand |-> nobody,
         then |-> "idle", trial |-> 0]

NoEvidence ==
  [created |-> FALSE, materialized |-> FALSE, check |-> "none", verdict |-> "none",
   gate |-> "none", reserved |-> FALSE, trial |-> [i \in Trials |-> nobody],
   violation |-> {}, settled |-> FALSE, released |-> 0, paired |-> "none",
   reconciled |-> {}]

\* A candidate whose checks were run by direct calls, before this behaviour.
Judged ==
  [NoEvidence EXCEPT !.created = TRUE, !.materialized = TRUE, !.check = "completed",
                     !.verdict = "pass", !.gate = "pass"]

EvidenceInit ==
  /\ host = [h \in Hosts |-> Idle]
  /\ locks = [l \in Locks |-> nobody]
  /\ regime \in Regimes
  /\ evidence = [c \in Candidates |-> IF regime.judged /\ c \in regime.cands
                                      THEN Judged ELSE NoEvidence]
  /\ pinned = IF regime.judged THEN regime.cands ELSE {}
  /\ search = [r \in Runs |-> [status |-> "none", rows |-> <<>>]]
  /\ sealed = [r \in Runs |-> [status |-> "none", cand |-> nobody]]
  /\ asked = {}
  /\ runs = [check |-> [c \in Candidates |-> IF c \in pinned THEN 1 ELSE 0],
             trial |-> [c \in Candidates |-> [i \in Trials |-> 0]],
             paid |-> [c \in Candidates |-> [i \in Trials |-> 0]],
             sealed |-> [r \in Runs |-> 0]]
  /\ callsMade = 0 /\ faults = 0

(***************************************************************************)
(* Hosts, locks and events.                                                *)
(***************************************************************************)
At(h, pc) == host[h].at = pc
Go(h, pc) == host' = [host EXCEPT ![h].at = pc]
Free(l) == locks[l] = nobody
Take(h, l) == locks' = [locks EXCEPT ![l] = h]
Drop(l) == locks' = [locks EXCEPT ![l] = nobody]
Ledger(c, e) == evidence' = [evidence EXCEPT ![c] = e]
Cand(h) == host[h].cand
Ev(h) == evidence[host[h].cand]

\* An operation returns to the search that called it, or to the caller.
Back(h, pc) ==
  IF host[h].op = "search" THEN Go(h, pc) ELSE host' = [host EXCEPT ![h] = Idle]

\* An exception ends the operation and every lock; a search is saved as
\* blocked (its `except BaseException').
FaultyHeld(h) == {l \in Locks \ {"evaluation"} : locks[l] = h}
Held(h) == {l \in Locks : locks[l] = h}
LeaveAll(h) ==
  /\ host' = [host EXCEPT ![h] = Idle]
  /\ locks' = [l \in Locks |-> IF l \in Held(h) THEN nobody ELSE locks[l]]
Blocked(h) ==
  IF host[h].op = "search" /\ search[host[h].run].status = "running"
  THEN search' = [search EXCEPT ![host[h].run].status = "blocked"]
  ELSE UNCHANGED search
Refuse(h) ==
  /\ LeaveAll(h) /\ Blocked(h)
  /\ UNCHANGED <<evidence, pinned, sealed, asked, runs>>

(***************************************************************************)
(* The search.                                                             *)
(***************************************************************************)
Rows(r) == search[r].rows
RowsAt(rows, v) == {i \in DOMAIN rows : rows[i].status = v}
LastOf(S) == IF S = {} THEN 0 ELSE Max(S)

\* TerminationTracker: rounds that failed to generate count against the
\* errors alone, and do not break a row of rounds without a promotion.
Stops(rows) ==
  LET errors == Len(rows) - LastOf(DOMAIN rows \ RowsAt(rows, "generation_failed"))
      idle == Cardinality({i \in RowsAt(rows, "rejected") : i > LastOf(RowsAt(rows, "qualified"))})
  IN Len(rows) >= MaxRounds \/ errors >= MaxErrors \/ idle >= Patience

Qualified(r) == {Rows(r)[i].cand : i \in RowsAt(Rows(r), "qualified")}

Save(r, status, rows) == search' = [search EXCEPT ![r] = [status |-> status, rows |-> rows]]
SetLast(rows, v) == [rows EXCEPT ![Len(rows)].status = v]

\* run_search: a new run makes its directory first and is anchored later.
OpenSearch(h, r) ==
  /\ host[h] = Idle /\ Free("search") /\ callsMade < regime.calls
  /\ search[r].status = "none"
  /\ Take(h, "search")
  /\ search' = [search EXCEPT ![r].status = "bare"]
  /\ host' = [host EXCEPT ![h] = [Idle EXCEPT !.op = "search", !.at = "anchor", !.run = r]]
  /\ callsMade' = callsMade + 1
  /\ UNCHANGED <<evidence, pinned, sealed, asked, runs, faults>>

AnchorSearch(h) ==
  /\ At(h, "anchor")
  /\ Save(host[h].run, "running", <<>>) /\ Go(h, "round")
  /\ UNCHANGED <<locks, evidence, pinned, sealed, asked, runs>>

Uncertain(r) == \E i \in DOMAIN Rows(r) : Rows(r)[i].status \notin Certain
\* A resumed run goes on only from the end of a round.
ResumeSearch(h, r) ==
  /\ host[h] = Idle /\ Free("search") /\ callsMade < regime.calls
  /\ search[r].status \in {"running", "blocked"}
  /\ ~Uncertain(r) /\ sealed[r].status = "none"
  /\ Take(h, "search")
  /\ Save(r, "running", Rows(r))
  /\ host' = [host EXCEPT ![h] = [Idle EXCEPT !.op = "search", !.at = "round", !.run = r]]
  /\ callsMade' = callsMade + 1
  /\ UNCHANGED <<evidence, pinned, sealed, asked, runs, faults>>

\* The head of the loop: stop, or open a round.
NextRound(h) ==
  /\ At(h, "round")
  /\ LET r == host[h].run IN
     IF Stops(Rows(r))
     THEN Save(r, "finished", Rows(r)) /\ LeaveAll(h)
     ELSE /\ Save(r, "running", Append(Rows(r), [cand |-> nobody, status |-> "generating"]))
          /\ Go(h, "propose") /\ UNCHANGED locks
  /\ UNCHANGED <<evidence, pinned, sealed, asked, runs>>

Seen(r) == {Rows(r)[i].cand : i \in DOMAIN Rows(r)} \ {nobody}

\* propose() fails, or repeats a candidate, or returns a new one.
Propose(h) ==
  /\ At(h, "propose")
  /\ LET r == host[h].run IN
     \/ Save(r, "running", SetLast(Rows(r), "generation_failed")) /\ Go(h, "round")
     \/ \E c \in regime.cands \ Seen(r) :
          /\ Save(r, "running", [Rows(r) EXCEPT ![Len(Rows(r))] =
                                   [cand |-> c, status |-> "deterministic"]])
          /\ host' = [host EXCEPT ![h].at = "materialize", ![h].cand = c, ![h].then = "evaluate"]
  /\ UNCHANGED <<locks, evidence, pinned, sealed, asked, runs>>

\* What the search does with the deterministic decision ...
AfterJudgement(h) ==
  /\ At(h, "judged")
  /\ LET r == host[h].run IN
     \/ Ev(h).verdict = "error" /\ Refuse(h)
     \/ /\ Ev(h).verdict = "fail"
        /\ Save(r, "running", SetLast(Rows(r), "rejected")) /\ Go(h, "round")
        /\ UNCHANGED <<locks, evidence, pinned, sealed, asked, runs>>
     \/ /\ Ev(h).verdict = "pass"
        /\ Save(r, "running", SetLast(Rows(r), "paired"))
        /\ host' = [host EXCEPT ![h].at = "materialize", ![h].then = "reserve"]
        /\ UNCHANGED <<locks, evidence, pinned, sealed, asked, runs>>

\* ... and with the paired one.
AfterComparison(h) ==
  /\ At(h, "compared")
  /\ LET r == host[h].run
         rowStatus == IF Ev(h).paired = "pass" THEN "qualified" ELSE "rejected"
     IN \/ Ev(h).paired = "error" /\ Refuse(h)
        \/ /\ Ev(h).paired # "error"
           /\ Save(r, "running", SetLast(Rows(r), rowStatus)) /\ Go(h, "round")
           /\ UNCHANGED <<locks, evidence, pinned, sealed, asked, runs>>

(***************************************************************************)
(* Materialization and the deterministic checks.                           *)
(***************************************************************************)
\* evaluate_candidate and evaluate_paired_checks are also called directly.
CallOn(h, c, then) ==
  /\ host[h] = Idle /\ callsMade < regime.calls
  /\ then \in {"evaluate", "reserve"}
  /\ host' = [host EXCEPT ![h] = [Idle EXCEPT !.op = "direct", !.at = "materialize",
                                              !.cand = c, !.then = then]]
  /\ callsMade' = callsMade + 1
  /\ UNCHANGED <<locks, evidence, pinned, search, sealed, asked, runs, faults>>

\* materialize_candidate: the first event, the commit and its reference, and
\* the second event; a reference that is already there is verified and kept.
BindManifest(h) ==
  /\ At(h, "materialize") /\ Free("materialization")
  /\ Take(h, "materialization")
  /\ Ledger(Cand(h), [Ev(h) EXCEPT !.created = TRUE])
  /\ Go(h, "pin")
  /\ UNCHANGED <<pinned, search, sealed, asked, runs>>

PinCommit(h) ==
  /\ At(h, "pin")
  /\ \/ Ev(h).materialized /\ Cand(h) \notin pinned /\ Refuse(h)
     \/ /\ Ev(h).materialized => Cand(h) \in pinned
        /\ pinned' = pinned \cup {Cand(h)}
        /\ Go(h, "record")
        /\ UNCHANGED <<locks, evidence, search, sealed, asked, runs>>

RecordMaterialized(h) ==
  /\ At(h, "record")
  /\ Ledger(Cand(h), [Ev(h) EXCEPT !.materialized = TRUE])
  /\ Drop("materialization") /\ Go(h, host[h].then)
  /\ UNCHANGED <<pinned, search, sealed, asked, runs>>

\* Checks that were started and have no receipt are never run again.
FaultyMayCheck(e) == e.check # "completed"
MayCheck(e) == e.check = "none"
StartChecks(h) ==
  /\ At(h, "evaluate") /\ Free("evaluation")
  /\ \/ /\ MayCheck(Ev(h))
        /\ Take(h, "evaluation")
        /\ Ledger(Cand(h), [Ev(h) EXCEPT !.check = "started"])
        /\ Go(h, "checking")
        /\ UNCHANGED <<pinned, search, sealed, asked, runs>>
     \/ /\ Ev(h).check = "completed"
        /\ Take(h, "evaluation") /\ Go(h, "decide")
        /\ UNCHANGED <<evidence, pinned, search, sealed, asked, runs>>
     \/ ~MayCheck(Ev(h)) /\ Ev(h).check # "completed" /\ Refuse(h)

\* evaluator.evaluate is entered ...
LaunchChecks(h) ==
  /\ At(h, "checking") /\ Go(h, "testing")
  /\ runs' = [runs EXCEPT !.check[Cand(h)] = @ + 1]
  /\ UNCHANGED <<locks, evidence, pinned, search, sealed, asked>>

\* ... and the container's verdict is recorded, or an exception of it or of
\* the source's drift.
RunChecks(h) ==
  /\ At(h, "testing")
  /\ \/ /\ Ledger(Cand(h), [Ev(h) EXCEPT !.check = "failed"])
        /\ LeaveAll(h) /\ Blocked(h)
     \/ \E v \in Gates \ {"none"} :
          /\ Ledger(Cand(h), [Ev(h) EXCEPT !.check = "completed", !.verdict = v])
          /\ Go(h, "decide") /\ UNCHANGED <<locks, search>>
  /\ UNCHANGED <<pinned, sealed, asked, runs>>

RecordVerdict(h) ==
  /\ At(h, "decide")
  /\ Ledger(Cand(h), [Ev(h) EXCEPT !.gate = Ev(h).verdict])
  /\ Drop("evaluation") /\ Back(h, "judged")
  /\ UNCHANGED <<pinned, search, sealed, asked, runs>>

(***************************************************************************)
(* The paired trials.                                                      *)
(***************************************************************************)
Cost(x) == IF x \in Results /\ x.cost # nobody THEN x.cost ELSE 0
Spent(c) == MapThenSumSet(LAMBDA i : Cost(evidence[c].trial[i]), Trials)
PlanCost == Limit * 2 * Pairs
Reserved == {c \in Candidates : evidence[c].reserved}
Committed == MapThenSumSet(LAMBDA c : PlanCost - evidence[c].released, Reserved)
Violated == \E c \in Candidates : evidence[c].violation # {}

Fits ==
  /\ (Cardinality(Reserved) + 1) * Pairs <= MaxPairs
  /\ Committed + PlanCost <= regime.budget

\* The head of execute_paired_checks, under its lock.
HastyAdmissible(h) ==
  /\ Ev(h).check = "completed" /\ Ev(h).gate = "pass"
  /\ Ev(h).reserved \/ (Fits /\ Ev(h).paired = "none")

FaultyAdmissible(h) ==
  Ev(h).reserved \/ (~Violated /\ Fits /\ Ev(h).paired = "none")

Admissible(h) ==
  /\ Ev(h).check = "completed" /\ Ev(h).gate = "pass"
  /\ Ev(h).reserved \/ (~Violated /\ Fits /\ Ev(h).paired = "none")
ReserveTrials(h) ==
  /\ At(h, "reserve") /\ Free("paired")
  /\ \/ ~Admissible(h) /\ Refuse(h)
     \/ /\ Admissible(h)
        /\ Take(h, "paired")
        /\ Ledger(Cand(h), [Ev(h) EXCEPT !.reserved = TRUE])
        /\ host' = [host EXCEPT ![h].at = "trial", ![h].trial = 0]
        /\ UNCHANGED <<pinned, search, sealed, asked, runs>>

Index(h) == host[h].trial
Kept(h, i) == Ev(h).trial[i] \in Results

\* A trial that has a receipt is read; one that was started and has none is
\* never run again; any other needs a ledger without a violation.
FaultyMayTry(h, i) == Ev(h).trial[i] = nobody
RepeatedMayTry(h, i) == Ev(h).trial[i] \in {nobody, begun} /\ ~Violated
MayTry(h, i) == Ev(h).trial[i] = nobody /\ ~Violated
StartTrial(h) ==
  /\ At(h, "trial") /\ Index(h) \in Trials
  /\ LET i == Index(h) IN
     \/ /\ Kept(h, i) /\ Go(h, "measure")
        /\ UNCHANGED <<locks, evidence, pinned, search, sealed, asked, runs>>
     \/ ~Kept(h, i) /\ ~MayTry(h, i) /\ Refuse(h)
     \/ /\ MayTry(h, i)
        /\ Ledger(Cand(h), [Ev(h) EXCEPT !.trial[i] = begun])
        /\ Go(h, "trying")
        /\ UNCHANGED <<locks, pinned, search, sealed, asked, runs>>

\* evaluator.run_trial is entered; what it costs is paid, whether or not a
\* receipt ever says so.
Prices == {Cost(x) : x \in Results}
LaunchTrial(h) ==
  /\ At(h, "trying") /\ Go(h, "tried")
  /\ \E price \in Prices :
       runs' = [runs EXCEPT !.trial[Cand(h)][Index(h)] = @ + 1,
                            !.paid[Cand(h)][Index(h)] = @ + price]
  /\ UNCHANGED <<locks, evidence, pinned, search, sealed, asked>>

\* Its receipt; one that breaks down has no price.
RunTrial(h) ==
  /\ At(h, "tried")
  /\ \E x \in Results :
       /\ x.cost \in {nobody, runs.paid[Cand(h)][Index(h)]}
       /\ Ledger(Cand(h), [Ev(h) EXCEPT !.trial[Index(h)] = x])
  /\ Go(h, "measure")
  /\ UNCHANGED <<locks, pinned, search, sealed, asked, runs>>

\* A receipt over the limit closes the ledger to further trials and raises;
\* one that is invalid or has no price ends the plan.
MeasureTrial(h) ==
  /\ At(h, "measure")
  /\ LET i == Index(h)
         x == Ev(h).trial[i]
         last == x.status # "completed" \/ x.cost = nobody
     IN IF x.cost # nobody /\ x.cost > Limit
        THEN /\ Ledger(Cand(h), [Ev(h) EXCEPT !.violation = @ \cup {i}])
             /\ LeaveAll(h) /\ Blocked(h)
        ELSE /\ host' = [host EXCEPT ![h].at = "trial",
                                     ![h].trial = IF last THEN 2 * Pairs ELSE i + 1]
             /\ UNCHANGED <<locks, evidence, search>>
  /\ UNCHANGED <<pinned, sealed, asked, runs>>

\* measured_promotion and PairedPromotionGate.run over a full matrix.
Valid(e) == \A i \in Trials : e.trial[i] \in Results /\ e.trial[i].status = "completed"
                              /\ e.trial[i].cost # nobody
Beats(e, i, j) == e.trial[i].passed /\ ~e.trial[j].passed
Promotion(e) ==
  LET wins == {i \in Trials : Control(i) /\ Beats(e, i + 1, i)}
      losses == {i \in Trials : Control(i) /\ Beats(e, i, i + 1)}
  IN IF ~Valid(e) THEN "error"
     ELSE IF Cardinality(wins) > Cardinality(losses) THEN "pass" ELSE "fail"

RecordPromotion(h) ==
  /\ At(h, "trial") /\ Index(h) \notin Trials
  /\ Ledger(Cand(h), [Ev(h) EXCEPT !.paired = Promotion(Ev(h))])
  /\ Drop("paired") /\ Back(h, "compared")
  /\ UNCHANGED <<pinned, search, sealed, asked, runs>>

(***************************************************************************)
(* Settlement and reconciliation, each in one hold of the paired lock.     *)
(***************************************************************************)
FaultySettleable(c) == evidence[c].reserved /\ ~evidence[c].settled /\ Spent(c) <= PlanCost

Settleable(c) ==
  /\ evidence[c].reserved /\ evidence[c].violation = {} /\ ~evidence[c].settled
  /\ Valid(evidence[c]) /\ Spent(c) <= PlanCost
Settle(h, c) ==
  /\ host[h] = Idle /\ Free("paired") /\ callsMade < regime.calls
  /\ Settleable(c)
  /\ Ledger(c, [evidence[c] EXCEPT !.settled = TRUE, !.released = PlanCost - Spent(c)])
  /\ callsMade' = callsMade + 1
  /\ UNCHANGED <<host, locks, pinned, search, sealed, asked, runs, faults>>

\* Two started trials have the same request when both are the same control
\* trial: the candidates have one baseline.
SameRequest(c, i) ==
  {r \in Candidates \X {i} :
     evidence[r[1]].trial[i] # nobody /\ (r[1] = c \/ Control(i))}

Reconcile(h, c, i) ==
  /\ host[h] = Idle /\ Free("paired") /\ callsMade < regime.calls
  /\ evidence[c].reserved /\ SameRequest(c, i) = {<<c, i>>}
  /\ i \notin evidence[c].reconciled
  /\ Ledger(c, [evidence[c] EXCEPT !.reconciled = @ \cup {i}])
  /\ callsMade' = callsMade + 1
  /\ UNCHANGED <<host, locks, pinned, search, sealed, asked, runs, faults>>

(***************************************************************************)
(* The sealed validation of one finalist, and the request for approval.    *)
(***************************************************************************)
MayBeSealed(r, c) ==
  /\ search[r].status = "finished" /\ c \in Qualified(r)
  /\ sealed[r].status = "none"
  /\ evidence[c].materialized /\ evidence[c].paired = "pass" /\ c \in pinned
StartSealed(h, r, c) ==
  /\ host[h] = Idle /\ Free("search") /\ callsMade < regime.calls
  /\ MayBeSealed(r, c)
  /\ Take(h, "search")
  /\ sealed' = [sealed EXCEPT ![r] = [status |-> "started", cand |-> c]]
  /\ host' = [host EXCEPT ![h] = [Idle EXCEPT !.op = "seal", !.at = "sealing",
                                              !.run = r, !.cand = c]]
  /\ callsMade' = callsMade + 1
  /\ UNCHANGED <<evidence, pinned, search, asked, runs, faults>>

LaunchSealed(h) ==
  /\ At(h, "sealing") /\ Go(h, "scoring")
  /\ runs' = [runs EXCEPT !.sealed[host[h].run] = @ + 1]
  /\ UNCHANGED <<locks, evidence, pinned, search, sealed, asked>>

FinishSealed(h) ==
  /\ At(h, "scoring")
  /\ \E s \in {"passed", "rejected", "failed"} :
       sealed' = [sealed EXCEPT ![host[h].run].status = s]
  /\ LeaveAll(h)
  /\ UNCHANGED <<evidence, pinned, search, asked, runs>>

RequestFinalist(h, r, c) ==
  /\ host[h] = Idle /\ Free("search") /\ callsMade < regime.calls
  /\ sealed[r] = [status |-> "passed", cand |-> c] /\ evidence[c].paired = "pass"
  /\ c \notin asked
  /\ asked' = asked \cup {c} /\ callsMade' = callsMade + 1
  /\ UNCHANGED <<host, locks, evidence, pinned, search, sealed, runs, faults>>

(***************************************************************************)
(* Faults: an exception of git, of a disk or of a keyboard, and a crash.   *)
(***************************************************************************)
Raise(h) ==
  /\ host[h] # Idle /\ faults < regime.faults
  /\ faults' = faults + 1
  /\ IF host[h].at \in {"checking", "testing"}
     THEN Ledger(Cand(h), [Ev(h) EXCEPT !.check = "failed"])
     ELSE UNCHANGED evidence
  /\ IF host[h].at \in {"sealing", "scoring"}
     THEN sealed' = [sealed EXCEPT ![host[h].run].status = "failed"]
     ELSE UNCHANGED sealed
  /\ LeaveAll(h) /\ Blocked(h)
  /\ UNCHANGED <<pinned, asked, runs, callsMade>>

CrashHost(h) ==
  /\ host[h] # Idle /\ faults < regime.faults
  /\ faults' = faults + 1
  /\ LeaveAll(h)
  /\ UNCHANGED <<evidence, pinned, search, sealed, asked, runs, callsMade>>

\* What a host does on its own once it has been called.
HostWork(h) ==
  /\ \/ AnchorSearch(h) \/ NextRound(h) \/ Propose(h) \/ AfterJudgement(h)
     \/ AfterComparison(h) \/ BindManifest(h) \/ PinCommit(h) \/ RecordMaterialized(h)
     \/ StartChecks(h) \/ LaunchChecks(h) \/ RunChecks(h) \/ RecordVerdict(h)
     \/ ReserveTrials(h) \/ StartTrial(h) \/ LaunchTrial(h) \/ RunTrial(h) \/ MeasureTrial(h)
     \/ RecordPromotion(h) \/ LaunchSealed(h) \/ FinishSealed(h)
  /\ UNCHANGED <<callsMade, faults, regime>>

EvidenceNext ==
  /\ UNCHANGED regime
  /\ \E h \in Hosts :
       \/ HostWork(h) \/ Raise(h) \/ CrashHost(h)
       \/ "search" \in regime.asks /\ \E r \in Runs : OpenSearch(h, r) \/ ResumeSearch(h, r)
       \/ \E c \in regime.cands, t \in regime.asks : CallOn(h, c, t)
       \/ "settle" \in regime.asks /\ \E c \in regime.cands :
            Settle(h, c) \/ \E i \in Trials : Reconcile(h, c, i)
       \/ \E r \in Runs, c \in Candidates : StartSealed(h, r, c) \/ RequestFinalist(h, r, c)

(***************************************************************************)
(* Properties.                                                             *)
(***************************************************************************)
RowStatus == {"generating", "deterministic", "paired"} \cup Certain
EvidenceTypes ==
  /\ \A l \in Locks : locks[l] \in Hosts \cup {nobody}
  /\ \A h \in Hosts : host[h].cand \in Candidates \cup {nobody} /\ host[h].trial \in 0..(2 * Pairs)
  /\ pinned \subseteq Candidates /\ asked \subseteq Candidates
  /\ \A r \in Runs : /\ search[r].status \in {"none", "bare", "running", "finished", "blocked"}
                     /\ \A i \in DOMAIN Rows(r) : Rows(r)[i].status \in RowStatus
  /\ \A c \in Candidates :
       /\ evidence[c].trial \in [Trials -> {nobody, begun} \cup Results]
       /\ {evidence[c].verdict, evidence[c].gate, evidence[c].paired} \subseteq Gates

\* What a promotion rests on, whoever gathered it and however often hosts
\* stopped: the receipts behind each gate (evaluate_candidate,
\* execute_paired_checks), the gates behind each qualified row (run_search),
\* and the qualified row of a finished search behind a sealed validation and
\* a request for approval (finalize_search, request_finalist_approval).
EvidenceIsSound ==
  /\ EvidenceTypes
  /\ \A c \in Candidates :
       LET e == evidence[c] IN
       /\ e.gate # "none" => e.materialized /\ e.check = "completed" /\ e.gate = e.verdict
       /\ e.reserved => e.gate = "pass" /\ c \in pinned
       /\ e.paired = "pass" =>
            /\ e.reserved /\ e.violation = {}
            /\ \A i \in Trials : e.trial[i].status = "completed" /\ e.trial[i].cost # nobody
            /\ \E i \in Trials : ~Control(i) /\ e.trial[i].passed /\ ~e.trial[i - 1].passed
       /\ c \in asked => \E r \in Runs : sealed[r] = [status |-> "passed", cand |-> c]
  /\ \A r \in Runs :
       /\ Len(Rows(r)) <= MaxRounds
       /\ \A c \in Qualified(r) : evidence[c].paired = "pass"
       /\ \A i, j \in DOMAIN Rows(r) :
            Rows(r)[i].cand = Rows(r)[j].cand /\ Rows(r)[i].cand # nobody => i = j
       /\ sealed[r].status # "none" => search[r].status = "finished" /\ sealed[r].cand \in Qualified(r)
       /\ search[r].status = "finished" => Stops(Rows(r)) /\ ~Uncertain(r)

\* An attempt that was interrupted is never repeated, by a resumed search, a
\* second host or a direct call: the checks of a candidate, each of its trials
\* and the sealed validation of a run are launched at most once, wherever the
\* host stopped between the launch and the record of its end.  And at most one
\* trial is reconciled with the journal of its request
\* (orchestrator.py:86, paired_execution.py:358, finalization.py:44).
NothingRunsTwice ==
  /\ \A c \in Candidates :
       /\ runs.check[c] <= 1
       /\ \A i \in Trials : runs.trial[c][i] <= 1
       /\ \A i \in evidence[c].reconciled, d \in Candidates \ {c} :
            Control(i) => i \notin evidence[d].reconciled
  /\ \A r \in Runs : runs.sealed[r] <= 1

\* What the trials of all candidates really cost, interrupted ones and ones without
\* a price on their receipt included, stays within the run's budget, settlements
\* included, but for what single trials took over their own limit.
Paid(c) == MapThenSumSet(LAMBDA i : runs.paid[c][i], Trials)
Excess(c) ==
  MapThenSumSet(LAMBDA i : IF runs.paid[c][i] > Limit THEN runs.paid[c][i] - Limit ELSE 0,
                Trials)
BudgetHolds ==
  /\ MapThenSumSet(Paid, Candidates) <= regime.budget + MapThenSumSet(Excess, Candidates)
  /\ Cardinality(Reserved) * Pairs <= MaxPairs

\* The evidence holds: promotions rest on receipts, nothing was run twice to
\* get them, and what was spent stays within the budget that all hosts share.
EvidenceHolds == EvidenceIsSound /\ NothingRunsTwice /\ BudgetHolds

\* Once a trial is recorded as over its limit no other trial of the ledger
\* starts and no budget is reserved; a finished search never changes again,
\* nor does a sealed validation that has ended.
LatchesHold ==
  [][/\ Violated =>
          \A c \in Candidates :
            /\ evidence'[c].reserved = evidence[c].reserved
            /\ \A i \in Trials : evidence'[c].trial[i] = begun => evidence[c].trial[i] = begun
     /\ \A r \in Runs :
          /\ search[r].status = "finished" => search'[r] = search[r]
          /\ sealed[r].status \in {"passed", "rejected", "failed"} => sealed'[r] = sealed[r]]_evidenceVars

\* Every operation a host was called for ends, with a result, a refusal or an
\* exception: no lock is left behind and no two hosts wait for one another.
EveryCallEnds == \A h \in Hosts : host[h] # Idle ~> host[h] = Idle
=============================================================================
