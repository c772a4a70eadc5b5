--------------------------- MODULE EvalCampaigns ---------------------------
(***************************************************************************)
(* Paid evaluation campaigns and their comparison (evaluation/             *)
(* polyglot_suite.py, polyglot_campaign.py, provider_probe.py and          *)
(* polyglot_pair.py).  A campaign works through its plan of attempts, each *)
(* of which checks the source, makes sure that the provider was probed for *)
(* just this source, asks the agent and grades what it did.  After an      *)
(* infrastructure error the rest of the plan is recorded as skipped.       *)
(* Somebody may edit the source at any time, and a campaign may die.       *)
(***************************************************************************)
EXTENDS Naturals, Sequences, FiniteSets, FiniteSetsExt, SequencesExt

CONSTANTS
  Campaigns,    \* each with an output directory of its own
  BenchmarkOf,  \* definition_digest of each one's benchmark
  InputOf,      \* the task and grader inputs each was given
  EvalPlan,     \* the tasks and repetitions, in order; the same for all
  PricedCalls,  \* max_provider_calls_per_attempt of the budget
  MaxProbes,    \* PROVIDER_PROBE_MAX_ATTEMPTS
  CallCap,      \* what the hard cost cap admits, in calls
  nobodyPays,   \* an unlocked campaign lock
  Commits, head, \* versions of the source, and the first
  Outcomes,     \* of an attempt: its status and the calls it took
  MaxEdits,     \* bound: changes to the source
  MaxLaunches   \* bound: starts of campaigns

ASSUME CampaignAssumption ==
  /\ nobodyPays \notin Campaigns /\ head \in Commits
  /\ EvalPlan \in Seq(ToSet(EvalPlan)) /\ EvalPlan # <<>>
  /\ {PricedCalls, MaxProbes, CallCap, MaxEdits, MaxLaunches} \subseteq Nat
  /\ \A o \in Outcomes : o.status \in {"pass", "fail", "error"} /\ o.calls \in Nat

VARIABLES
  tree,       \* commit and dirty of the repository
  edits,
  paidLock,   \* per benchmark: its holder
  probed,     \* provider-probes: the sources with a cached success
  evalAt,     \* per campaign: where it stands
  launches,   \* so far, of all
  outputs,    \* the campaigns whose output directory exists
  startedOn,  \* the source the suite began with
  readAs,     \* the source the current attempt began with
  evalRows,   \* rows.jsonl
  stopReason, \* whether an infrastructure error stopped it
  paidCalls,  \* provider calls, of probes and attempts
  results,    \* per campaign: results.json
  comparison  \* of two campaigns' results

campaignVars == <<tree, edits, paidLock, probed, evalAt, launches, outputs, startedOn,
                  readAs, evalRows, stopReason, paidCalls, results, comparison>>

NoResult == [rows |-> <<>>, gates |-> {}]
NoPair == [left |-> nobodyPays, right |-> nobodyPays, losses |-> 0]
Sources == [commit : Commits, dirty : BOOLEAN]
NoSource == [commit |-> nobodyPays, dirty |-> FALSE]
CampaignsInit ==
  /\ tree = [commit |-> head, dirty |-> FALSE] /\ edits = 0
  /\ paidLock = [b \in {BenchmarkOf[c] : c \in Campaigns} |-> nobodyPays]
  /\ probed = {} /\ outputs = {}
  /\ evalAt = [c \in Campaigns |-> "idle"] /\ launches = 0
  /\ startedOn = [c \in Campaigns |-> NoSource] /\ readAs = startedOn
  /\ evalRows = [c \in Campaigns |-> <<>>] /\ stopReason = [c \in Campaigns |-> FALSE]
  /\ paidCalls = [c \in Campaigns |-> 0]
  /\ results = [c \in Campaigns |-> NoResult] /\ comparison = NoPair

\* Files and commits of the repository, by anybody.
EditSource ==
  /\ edits < MaxEdits /\ edits' = edits + 1
  /\ \E s \in Sources \ {tree} : tree' = s
  /\ UNCHANGED <<paidLock, probed, evalAt, launches, outputs, startedOn, readAs, evalRows,
                 stopReason, paidCalls, results, comparison>>

---------------------------------------------------------------------------
(* The suite                                                               *)

LockOf(c) == BenchmarkOf[c]

\* Faulty: the lock is the campaign's own, as its output is.
FaultyNobodyElsePays(c) == c \notin outputs
NobodyElsePays(c) == paidLock[LockOf(c)] = nobodyPays
Release(c) == paidLock' = [paidLock EXCEPT ![LockOf(c)] = IF @ = c THEN nobodyPays ELSE @]
Planned == Len(EvalPlan)

\* CampaignBudget.estimate: the worst case of the plan and one preflight.
WorstCase == Planned * PricedCalls + MaxProbes

\* run: nothing is paid for unless the worst case is admitted and nobody
\* else pays for this benchmark.
Launch(c) ==
  /\ evalAt[c] \in {"idle", "refused"} /\ launches < MaxLaunches
  /\ launches' = launches + 1
  /\ IF WorstCase <= CallCap /\ NobodyElsePays(c)
       THEN /\ paidLock' = [paidLock EXCEPT ![LockOf(c)] = c]
            /\ evalAt' = [evalAt EXCEPT ![c] = "begin"]
       ELSE evalAt' = [evalAt EXCEPT ![c] = "refused"] /\ UNCHANGED paidLock
  /\ UNCHANGED <<tree, edits, probed, outputs, startedOn, readAs, evalRows, stopReason,
                 paidCalls, results, comparison>>

\* _run_locked: a clean source, and an output that does not exist yet.
Begins(c) ==
  /\ evalAt[c] = "begin"
  /\ IF tree.dirty \/ c \in outputs
       THEN evalAt' = [evalAt EXCEPT ![c] = "refused"] /\ Release(c) /\ UNCHANGED <<outputs, startedOn>>
       ELSE /\ outputs' = outputs \cup {c} /\ startedOn' = [startedOn EXCEPT ![c] = tree]
            /\ evalAt' = [evalAt EXCEPT ![c] = "next"] /\ UNCHANGED paidLock
  /\ UNCHANGED <<tree, edits, probed, launches, readAs, evalRows, stopReason, paidCalls,
                 results, comparison>>

EvalRow(c, status, calls) ==
  [place |-> EvalPlan[Len(evalRows[c]) + 1], status |-> status, calls |-> calls,
   source |-> IF status = "skipped" THEN NoSource ELSE readAs[c], input |-> InputOf[c]]
Writes(c, row) == evalRows' = [evalRows EXCEPT ![c] = Append(@, row)]

\* _skipped_row
SkipRow(c) ==
  /\ evalAt[c] = "next" /\ Len(evalRows[c]) < Planned /\ stopReason[c]
  /\ Writes(c, EvalRow(c, "skipped", 0))
  /\ UNCHANGED <<tree, edits, paidLock, probed, evalAt, launches, outputs, startedOn, readAs,
                 stopReason, paidCalls, results, comparison>>

---------------------------------------------------------------------------
(* One attempt: PolyglotSingleTaskCampaign._run_locked                     *)

\* A dirty source ends the campaign as it is, without a result.
BeginAttempt(c) ==
  /\ evalAt[c] = "next" /\ Len(evalRows[c]) < Planned /\ ~stopReason[c]
  /\ readAs' = [readAs EXCEPT ![c] = tree]
  /\ IF tree.dirty THEN evalAt' = [evalAt EXCEPT ![c] = "aborted"] /\ Release(c)
     ELSE evalAt' = [evalAt EXCEPT ![c] = "preflight"] /\ UNCHANGED paidLock
  /\ UNCHANGED <<tree, edits, probed, launches, outputs, startedOn, evalRows, stopReason,
                 paidCalls, results, comparison>>

\* Faulty: any earlier preflight will do.
FaultyApproval(c) == IF probed = {} THEN readAs[c] ELSE CHOOSE s \in probed : TRUE

\* build_probe_approval: the digest names the source the attempt began with.
Approval(c) == readAs[c]

\* run_provider_probe unless the cache has it: some calls, the last of which
\* is the one that is valid, or the allowed number and none.
Preflight(c) ==
  /\ evalAt[c] = "preflight"
  /\ IF Approval(c) \in probed
       THEN evalAt' = [evalAt EXCEPT ![c] = "probed"] /\ UNCHANGED <<probed, paidCalls>>
       ELSE \E n \in 1..MaxProbes, valid \in BOOLEAN :
              /\ valid \/ n = MaxProbes
              /\ paidCalls' = [paidCalls EXCEPT ![c] = @ + n]
              /\ probed' = IF valid THEN probed \cup {Approval(c)} ELSE probed
              /\ evalAt' = [evalAt EXCEPT ![c] = IF valid THEN "probed" ELSE "error"]
  /\ UNCHANGED <<tree, edits, paidLock, launches, outputs, startedOn, readAs, evalRows,
                 stopReason, results, comparison>>

\* Whatever happened while the provider was probed.
Rechecked(c) ==
  /\ evalAt[c] = "probed"
  /\ evalAt' = [evalAt EXCEPT ![c] = IF tree = readAs[c] THEN "ask" ELSE "error"]
  /\ UNCHANGED <<tree, edits, paidLock, probed, launches, outputs, startedOn, readAs, evalRows,
                 stopReason, paidCalls, results, comparison>>

\* ask and grade; an agent may make more calls than the budget counts on.
AskAndGrade(c) ==
  /\ evalAt[c] = "ask"
  /\ \E o \in Outcomes :
       /\ paidCalls' = [paidCalls EXCEPT ![c] = @ + o.calls]
       /\ Writes(c, EvalRow(c, o.status, o.calls))
       /\ stopReason' = [stopReason EXCEPT ![c] = o.status = "error"]
  /\ evalAt' = [evalAt EXCEPT ![c] = "next"]
  /\ UNCHANGED <<tree, edits, paidLock, probed, launches, outputs, startedOn, readAs, results,
                 comparison>>
FailedAttempt(c) ==
  /\ evalAt[c] = "error"
  /\ Writes(c, EvalRow(c, "error", 0)) /\ stopReason' = [stopReason EXCEPT ![c] = TRUE]
  /\ evalAt' = [evalAt EXCEPT ![c] = "next"]
  /\ UNCHANGED <<tree, edits, paidLock, probed, launches, outputs, startedOn, readAs, paidCalls,
                 results, comparison>>

---------------------------------------------------------------------------
(* _result, and the comparison of two                                      *)

Executed(rows) == {n \in 1..Len(rows) : rows[n].status # "skipped"}

\* Faulty: an attempt that failed may have taken any number of calls.
FaultyGates(c) ==
  LET rows == evalRows[c] IN
  {g \in {"executed", "errorfree", "calls", "source"} :
     /\ g = "executed" => Cardinality(Executed(rows)) = Planned
     /\ g = "errorfree" => \A n \in 1..Len(rows) : rows[n].status # "error"
     /\ g = "calls" => \A n \in 1..Len(rows) : rows[n].status = "pass" => rows[n].calls <= PricedCalls
     /\ g = "source" => tree = startedOn[c]}

\* The gates that pass.
Gates(c) ==
  LET rows == evalRows[c] IN
  {g \in {"executed", "errorfree", "calls", "source"} :
     /\ g = "executed" => Cardinality(Executed(rows)) = Planned
     /\ g = "errorfree" => \A n \in 1..Len(rows) : rows[n].status # "error"
     /\ g = "calls" => \A n \in Executed(rows) : rows[n].calls <= PricedCalls
     /\ g = "source" => tree = startedOn[c]}

Concludes(c) ==
  /\ evalAt[c] = "next" /\ Len(evalRows[c]) = Planned
  /\ results' = [results EXCEPT ![c] = [rows |-> evalRows[c], gates |-> Gates(c)]]
  /\ evalAt' = [evalAt EXCEPT ![c] = "done"] /\ Release(c)
  /\ UNCHANGED <<tree, edits, probed, launches, outputs, startedOn, readAs, evalRows,
                 stopReason, paidCalls, comparison>>

\* The process dies: the lock goes with it, the output stays.
Dies(c) ==
  /\ evalAt[c] \notin {"idle", "refused", "aborted", "done"} /\ launches < MaxLaunches
  /\ evalAt' = [evalAt EXCEPT ![c] = "refused"] /\ Release(c)
  /\ stopReason' = [stopReason EXCEPT ![c] = FALSE]
  /\ UNCHANGED <<tree, edits, probed, launches, outputs, startedOn, readAs, evalRows,
                 paidCalls, results, comparison>>

\* _rows_by_pair and _task_identity: the same places, each of the same input.
Comparable(left, right) ==
  /\ \A r \in {left, right} : results[r] # NoResult
  /\ left # right /\ BenchmarkOf[left] = BenchmarkOf[right]
  /\ {r.place : r \in ToSet(results[left].rows)} = {r.place : r \in ToSet(results[right].rows)}
  /\ \A n \in 1..Planned : results[left].rows[n].input = results[right].rows[n].input

\* Faulty: only the pairs in which both were executed are looked at.
FaultyLosses(left, right) ==
  {n \in Executed(results[left].rows) \cap Executed(results[right].rows) :
     results[left].rows[n].status = "pass" /\ results[right].rows[n].status # "pass"}
Losses(left, right) ==
  {n \in 1..Planned :
     results[left].rows[n].status = "pass" /\ results[right].rows[n].status # "pass"}
Compare(left, right) ==
  /\ comparison = NoPair /\ Comparable(left, right)
  /\ comparison' = [left |-> left, right |-> right, losses |-> Cardinality(Losses(left, right))]
  /\ UNCHANGED <<tree, edits, paidLock, probed, evalAt, launches, outputs, startedOn, readAs,
                 evalRows, stopReason, paidCalls, results>>

CampaignStep(c) ==
  \/ Begins(c) \/ SkipRow(c) \/ BeginAttempt(c) \/ Preflight(c) \/ Rechecked(c)
  \/ AskAndGrade(c) \/ FailedAttempt(c) \/ Concludes(c)
CampaignsNext ==
  \/ EditSource
  \/ \E c \in Campaigns : Launch(c) \/ CampaignStep(c) \/ Dies(c)
  \/ \E left, right \in Campaigns : Compare(left, right)

---------------------------------------------------------------------------
(* Properties                                                              *)

CampaignTypes ==
  /\ tree \in Sources /\ probed \subseteq Sources /\ outputs \subseteq Campaigns
  /\ \A c \in Campaigns : startedOn[c] \in Sources \cup {NoSource} /\ Len(evalRows[c]) <= Planned

\* "This benchmark already has an active paid campaign"
\* (polyglot_suite.py:150): of two campaigns of one benchmark only one can be
\* at a step that pays, and an attempt pays for its task only on the clean
\* source that its provider was probed for.
Paying(c) == evalAt[c] \in {"preflight", "probed", "ask", "error"}
OnePays ==
  /\ \A c, d \in Campaigns : c # d /\ BenchmarkOf[c] = BenchmarkOf[d] => ~(Paying(c) /\ Paying(d))
  /\ \A c \in Campaigns, n \in 1..Planned :
       n <= Len(evalRows[c]) /\ evalRows[c][n].calls > 0 =>
         evalRows[c][n].source \in probed /\ ~evalRows[c][n].source.dirty

\* "Rows marked skipped remain in the planned denominator"
\* (polyglot_suite.py:452), and nothing is skipped that could have run: what
\* is recorded, of a dead campaign too, is a part of the plan in its order,
\* executed up to the first infrastructure error and skipped after it.
RowsFollowPlan ==
  \A c \in Campaigns :
    LET rows == evalRows[c]
        failures == {n \in 1..Len(rows) : rows[n].status = "error"} IN
    /\ \A n \in 1..Len(rows) : rows[n].place = EvalPlan[n]
    /\ Cardinality(failures) <= 1
    /\ \A n \in 1..Len(rows) : rows[n].status = "skipped" <=> \E f \in failures : f < n

\* What a result vouches for: all gates pass only if every attempt of the
\* plan was made, within its calls, and then the whole campaign cost no more
\* than was admitted, unless the source went elsewhere and came back in
\* between (each source is probed for).
ResultsAreTrue ==
  \A c \in Campaigns : results[c] # NoResult =>
    /\ Len(results[c].rows) = Planned /\ c \in outputs
    /\ results[c].gates = {"executed", "errorfree", "calls", "source"} =>
         /\ \A n \in 1..Planned : results[c].rows[n].status \in {"pass", "fail"}
         /\ (\A n \in 1..Planned : results[c].rows[n].source = startedOn[c]) =>
              paidCalls[c] <= WorstCase

\* A comparison without losses is one in which whatever the control passed
\* the treatment passed as well: an error or a skip is not left out of it.
ComparisonIsFair ==
  comparison # NoPair /\ comparison.losses = 0 =>
    \A l \in ToSet(results[comparison.left].rows) : l.status = "pass" =>
      \E r \in ToSet(results[comparison.right].rows) : r.place = l.place /\ r.status = "pass"

CampaignsAreSound ==
  CampaignTypes /\ OnePays /\ RowsFollowPlan /\ ResultsAreTrue /\ ComparisonIsFair
=============================================================================
