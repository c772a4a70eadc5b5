--------------------------- MODULE FocusedSearch ---------------------------
(***************************************************************************)
(* The budgeted search for a repair, one round after another, and its      *)
(* sealed test (evolver/focused_search.py, model_proposer.py,              *)
(* focused_fisher.py, focused_finalization.py and sealed.py).  The ledger  *)
(* has the whole state of the search after each phase; money is reserved   *)
(* there before it is spent.  The process may die anywhere and be started  *)
(* again with resume, and the configuration may be edited in between.      *)
(* Every task is tried once per measurement (k = 1).                       *)
(***************************************************************************)
EXTENDS Naturals, Sequences, FiniteSets, FiniteSetsExt, SequencesExt

CONSTANTS
  TrainTasks,     \* the training tasks
  WhyOf,          \* per task: its WHY, as its place in the order
  SentinelCount,  \* of the stable tasks: sentinel_count - sentinel_count // 2
  MaxTrials,      \* max_scoring_trials
  MaxCandidateTrials, \* what its budget lets one candidate be scored
  MaxModelCalls,  \* the client's max_calls, or what its dollars buy if that is less
  Retries,        \* max_retries of the repair protocol
  SearchRounds, Patience, MaxErrors, \* of the TerminationTracker
  MaxSearchDies,  \* bound: deaths of the process
  MaxReplans      \* bound: changes of the configuration

ASSUME SearchAssumption ==
  /\ IsFiniteSet(TrainTasks) /\ WhyOf \in [TrainTasks -> Nat]
  /\ {SentinelCount, MaxTrials, MaxCandidateTrials, MaxModelCalls, Retries} \subseteq Nat
  /\ {SearchRounds, Patience, MaxErrors} \subseteq Nat \ {0}

VARIABLES
  recorded,   \* the state in the ledger's last event of this search
  finishedAt, \* the state of focused_search.finished
  searchMem,  \* the state in the process
  searchAt,   \* where the process is; "idle" for none
  probe,      \* the measurements of the round: of the probe, and confirmed
  replanned,  \* whether the configuration differs from the plan
  replans, searchDies,
  scored,     \* per measurement that was paid for: how often
  trialsPaid, \* by all of them
  generated,  \* model calls made, per round
  sealedLog,  \* sealed.started, completed and failed
  sealedRuns  \* how often the held-out tasks were run

searchVars == <<recorded, finishedAt, searchMem, searchAt, probe, replanned, replans,
                searchDies, scored, trialsPaid, generated, sealedLog, sealedRuns>>

NoState == [status |-> "none", phase |-> "none", rounds |-> <<>>, parent |-> 0,
            passing |-> {}, cold |-> {}, trials |-> 0, calls |-> 0]
NoProbe == [focused |-> {}, sentinels |-> {}, confirmed |-> {}]
FreshState == [NoState EXCEPT !.status = "running", !.phase = "cold_start"]

SearchInit ==
  /\ recorded = NoState /\ finishedAt = NoState /\ searchMem = NoState /\ searchAt = "idle"
  /\ probe = NoProbe
  /\ replanned = FALSE /\ replans = 0 /\ searchDies = 0
  /\ scored = [m \in (0..SearchRounds) \X {"cold_start", "focused", "confirm"} |-> 0]
  /\ trialsPaid = 0 /\ generated = [round \in 1..SearchRounds |-> 0]
  /\ sealedLog = <<>> /\ sealedRuns = 0

sealedVars == <<sealedLog, sealedRuns>>
paidVars == <<scored, trialsPaid, generated>>
worldVars == <<replanned, replans, searchDies>>

\* persist: what is recorded is what the process holds.
Persist(state) == searchMem' = state /\ recorded' = state

\* except BaseException: blocked, in the phase it was in.
BlockSearch(state) ==
  Persist([state EXCEPT !.status = "blocked"]) /\ searchAt' = "idle" /\ UNCHANGED finishedAt

---------------------------------------------------------------------------
(* Starting, resuming, ending                                              *)

\* Faulty: a search that is not finished goes on.
FaultyResumable(state) == state.status # "finished"
Resumable(state) == state.status # "finished" /\ state.phase = "ready"

\* A changed plan, a finished search and uncertain work are refused.
StartSearch ==
  /\ searchAt = "idle" /\ ~replanned
  /\ IF recorded = NoState THEN Persist(FreshState) /\ searchAt' = "cold"
     ELSE /\ Resumable(recorded)
          /\ Persist([recorded EXCEPT !.status = "running"]) /\ searchAt' = "loop"
  /\ UNCHANGED <<finishedAt, probe, paidVars, worldVars, sealedVars>>

\* TerminationTracker over the rounds: an error neither uses up the patience
\* nor gives it back.
Since(rounds, ends) ==
  Len(rounds) - Max({0} \cup {n \in 1..Len(rounds) : rounds[n].status \in ends})
OutOfRounds(rounds) ==
  LET judged == SelectSeq(rounds, LAMBDA r : r.status # "generation_failed") IN
  \/ Len(rounds) >= SearchRounds
  \/ Since(rounds, {"qualified", "rejected"}) >= MaxErrors
  \/ Since(judged, {"qualified"}) >= Patience

FinishSearch(state) ==
  LET done == [state EXCEPT !.status = "finished", !.phase = "finished"] IN
  Persist(done) /\ finishedAt' = done /\ searchAt' = "idle"

---------------------------------------------------------------------------
(* The cold start                                                          *)

ReserveCold ==
  /\ searchAt = "cold"
  /\ IF Cardinality(TrainTasks) > MaxTrials \/ replanned THEN BlockSearch(searchMem)
     ELSE /\ Persist([searchMem EXCEPT !.trials = @ + Cardinality(TrainTasks)])
          /\ searchAt' = "cold_score" /\ UNCHANGED finishedAt
  /\ UNCHANGED <<probe, paidVars, worldVars, sealedVars>>

Paid(round, phase, count) ==
  /\ scored' = [scored EXCEPT ![<<round, phase>>] = @ + 1] /\ trialsPaid' = trialsPaid + count
  /\ UNCHANGED generated

\* The measurement may be incomplete or invalid, or the plan has changed.
ColdScore ==
  /\ searchAt = "cold_score"
  /\ Paid(0, "cold_start", Cardinality(TrainTasks))
  /\ \/ BlockSearch(searchMem)
     \/ /\ ~replanned /\ searchAt' = "loop" /\ UNCHANGED finishedAt
        /\ \E passing \in SUBSET TrainTasks :
             Persist([searchMem EXCEPT !.passing = passing, !.cold = passing, !.phase = "ready"])
  /\ UNCHANGED <<probe, worldVars, sealedVars>>

---------------------------------------------------------------------------
(* A round                                                                 *)

Failing(state) == TrainTasks \ state.passing
\* One WHY at a time, the first in their order.
Focused(state) ==
  {t \in Failing(state) : \A u \in Failing(state) : WhyOf[t] <= WhyOf[u]}
SentinelsOf(cold) == Min({SentinelCount, Cardinality(cold)})
TrialCeiling(state) ==
  Min({Cardinality(TrainTasks), Cardinality(Focused(state)) + SentinelsOf(state.cold)})
  + Cardinality(TrainTasks)

\* Ends for one of its reasons, or reserves nothing yet and diagnoses.
PlanRound ==
  /\ searchAt = "loop"
  /\ IF replanned /\ ~OutOfRounds(searchMem.rounds) THEN BlockSearch(searchMem)
     ELSE IF \/ OutOfRounds(searchMem.rounds) \/ Failing(searchMem) = {}
             \/ TrialCeiling(searchMem) > MaxCandidateTrials
             \/ searchMem.trials + TrialCeiling(searchMem) > MaxTrials
             \/ searchMem.calls + Retries + 1 > MaxModelCalls
       THEN FinishSearch(searchMem)
     ELSE /\ Persist([searchMem EXCEPT !.phase = "diagnosing"])
          /\ searchAt' = "diagnose" /\ UNCHANGED finishedAt
  /\ UNCHANGED <<probe, paidVars, worldVars, sealedVars>>

\* Faulty: the trials are reserved when the candidate is there.
FaultyReserved(state) == [state EXCEPT !.calls = @ + Retries + 1]
Reserved(state) ==
  [state EXCEPT !.calls = @ + Retries + 1, !.trials = @ + TrialCeiling(state)]

\* "Reserve the entire possible probe+confirm before generating".
Diagnose ==
  /\ searchAt = "diagnose"
  /\ \/ BlockSearch(searchMem)
     \/ /\ ~replanned /\ searchAt' = "generate" /\ UNCHANGED finishedAt
        /\ Persist([Reserved(searchMem) EXCEPT
             !.phase = "generating",
             !.rounds = Append(@, [status |-> "generating", score |-> 0])])
  /\ UNCHANGED <<probe, paidVars, worldVars, sealedVars>>

Round == Len(searchMem.rounds)
Settles(state, row) == [state EXCEPT !.rounds[Round] = row, !.phase = "ready"]

\* Up to Retries answers that cannot be parsed, each asked again.  It is blocked
\* when the directory cannot be made, or by an interrupt, or a changed plan.
Generate ==
  /\ searchAt = "generate"
  /\ \E calls \in 0..Retries + 1 : generated' = [generated EXCEPT ![Round] = @ + calls]
  /\ \/ /\ Persist(Settles(searchMem, [status |-> "generation_failed", score |-> 0]))
        /\ searchAt' = "loop" /\ UNCHANGED finishedAt
     \/ BlockSearch(searchMem)
     \/ /\ ~replanned
        /\ generated'[Round] > generated[Round]
        /\ Persist([searchMem EXCEPT !.phase = "evaluating",
                                     !.rounds[Round] = [status |-> "evaluating", score |-> 0]])
        /\ searchAt' = "probe" /\ UNCHANGED finishedAt
  /\ UNCHANGED <<probe, scored, trialsPaid, worldVars, sealedVars>>

\* A rotating choice of the stable tasks of the cold start.
Probe ==
  /\ searchAt = "probe"
  /\ \E sentinels \in kSubset(SentinelsOf(searchMem.cold), searchMem.cold) :
       LET ids == Focused(searchMem) \cup sentinels IN
       /\ Paid(Round, "focused", Cardinality(ids))
       /\ \E passing \in SUBSET ids :
            probe' = [focused |-> passing, sentinels |-> sentinels, confirmed |-> {}]
  /\ searchAt' = "screen"
  /\ UNCHANGED <<recorded, finishedAt, searchMem, worldVars, sealedVars>>

\* FocusedFisherGate.decide: of the sentinels that the parent passes no more
\* than the guard, 1.5, may be lost; then all of training is measured again.
ScreenedOut ==
  2 * Cardinality((probe.sentinels \cap searchMem.passing) \ probe.focused) > 3
Confirm ==
  /\ searchAt = "screen" /\ ~ScreenedOut
  /\ Paid(Round, "confirm", Cardinality(TrainTasks))
  /\ \E passing \in SUBSET TrainTasks : probe' = [probe EXCEPT !.confirmed = passing]
  /\ searchAt' = "decide"
  /\ UNCHANGED <<recorded, finishedAt, searchMem, worldVars, sealedVars>>

\* Faulty: what is no worse than its parent qualifies.
FaultyLifts(passing) == Cardinality(passing) >= Cardinality(searchMem.passing)
Lifts(passing) == Cardinality(passing) > Cardinality(searchMem.passing)

Decided ==
  IF searchAt = "decide" /\ Lifts(probe.confirmed)
    THEN [Settles(searchMem, [status |-> "qualified", score |-> Cardinality(probe.confirmed)])
            EXCEPT !.parent = Round, !.passing = probe.confirmed]
    ELSE Settles(searchMem, [status |-> "rejected", score |-> 0])

\* An invalid measurement, of the probe too, or evidence that has changed, needs
\* a review.
Decide ==
  /\ searchAt \in {"screen", "decide"}
  /\ \/ BlockSearch(searchMem)
     \/ /\ searchAt = "screen" => ScreenedOut
        /\ \/ replanned /\ BlockSearch([Decided EXCEPT !.phase = "evaluating"])
           \/ ~replanned /\ Persist(Decided) /\ searchAt' = "loop" /\ UNCHANGED finishedAt
  /\ probe' = NoProbe
  /\ UNCHANGED <<paidVars, worldVars, sealedVars>>

---------------------------------------------------------------------------
(* The sealed test                                                         *)

\* Faulty: the first qualified round is the finalist.
FaultyFinalist(rounds) ==
  LET eligible == {n \in 1..Len(rounds) : rounds[n].status = "qualified"} IN
  IF eligible = {} THEN 0 ELSE Min(eligible)

\* The best score, the earliest of those; the baseline if none qualified.
Finalist(rounds) ==
  LET eligible == {n \in 1..Len(rounds) : rounds[n].status = "qualified"} IN
  IF eligible = {} THEN 0
  ELSE CHOOSE n \in eligible : \A m \in eligible :
         \/ rounds[n].score > rounds[m].score
         \/ rounds[n].score = rounds[m].score /\ n <= m

\* Only once, of a search that finished, under the plan frozen before it.
StartSealed ==
  /\ searchAt = "idle" /\ finishedAt # NoState /\ ~replanned /\ sealedLog = <<>>
  /\ sealedLog' = <<[kind |-> "started", finalist |-> Finalist(finishedAt.rounds)]>>
  /\ searchAt' = "sealed"
  /\ UNCHANGED <<recorded, finishedAt, searchMem, probe, paidVars, worldVars, sealedRuns>>
RunSealed ==
  /\ searchAt = "sealed" /\ sealedRuns' = sealedRuns + 1 /\ searchAt' = "sealed_score"
  /\ UNCHANGED <<recorded, finishedAt, searchMem, probe, paidVars, worldVars, sealedLog>>
EndSealed ==
  /\ searchAt = "sealed_score"
  /\ \E kind \in {"completed", "failed"} :
       /\ kind = "completed" => ~replanned
       /\ sealedLog' = Append(sealedLog, [kind |-> kind, finalist |-> sealedLog[1].finalist])
  /\ searchAt' = "idle"
  /\ UNCHANGED <<recorded, finishedAt, searchMem, probe, paidVars, worldVars, sealedRuns>>

---------------------------------------------------------------------------
SearchDies ==
  /\ searchAt # "idle" /\ searchDies < MaxSearchDies /\ searchDies' = searchDies + 1
  /\ searchAt' = "idle" /\ searchMem' = NoState /\ probe' = NoProbe
  /\ UNCHANGED <<recorded, finishedAt, paidVars, replanned, replans, sealedVars>>
Replan ==
  /\ replans < MaxReplans /\ replans' = replans + 1 /\ replanned' = ~replanned
  /\ UNCHANGED <<recorded, finishedAt, searchMem, searchAt, probe, paidVars, searchDies, sealedVars>>

SearchNext ==
  \/ StartSearch \/ ReserveCold \/ ColdScore \/ PlanRound \/ Diagnose \/ Generate
  \/ Probe \/ Confirm \/ Decide \/ StartSealed \/ RunSealed \/ EndSealed
  \/ SearchDies \/ Replan

---------------------------------------------------------------------------
(* Properties                                                              *)

SearchTypes ==
  /\ recorded.phase \in {"none", "cold_start", "ready", "diagnosing", "generating",
                         "evaluating", "finished"}
  /\ recorded.passing \subseteq TrainTasks /\ Len(recorded.rounds) <= SearchRounds

\* "Uncertain work; automatic replay refused" (focused_search.py:141): over
\* all deaths, restarts and changes of the plan, no measurement is paid for
\* twice, no round asks the model for more than it may, and whatever was
\* spent had been reserved on record, within the limits.
SpendingIsReserved ==
  /\ \A m \in DOMAIN scored : scored[m] <= 1
  /\ \A round \in DOMAIN generated : generated[round] <= Retries + 1
  /\ trialsPaid <= recorded.trials /\ recorded.trials <= MaxTrials
  /\ FoldFunction(LAMBDA calls, sum : calls + sum, 0, generated) <= recorded.calls
  /\ recorded.calls <= MaxModelCalls

\* A search that goes on stands on a measured parent that each qualified
\* round improved, with every earlier round settled.
ParentIsEarned ==
  recorded.phase \in {"ready", "finished"} =>
    LET won == {n \in 1..Len(recorded.rounds) : recorded.rounds[n].status = "qualified"} IN
    /\ \A n \in 1..Len(recorded.rounds) :
         recorded.rounds[n].status \in {"qualified", "rejected", "generation_failed"}
    /\ recorded.parent = Max({0} \cup won)
    /\ \A n \in won : /\ scored[<<n, "confirm">>] = 1
                      /\ recorded.rounds[n].score > Cardinality(recorded.cold)
                      /\ \A m \in won : m < n => recorded.rounds[m].score < recorded.rounds[n].score
    /\ recorded.parent > 0 =>
         Cardinality(recorded.passing) = recorded.rounds[recorded.parent].score

\* The held-out tasks are run once at most, of a search that is over for
\* good, and for the best that it found.
SealedOnce ==
  /\ sealedRuns <= 1 /\ Len(sealedLog) <= 2
  /\ sealedLog # <<>> =>
       /\ recorded = finishedAt /\ finishedAt.status = "finished"
       /\ sealedLog[1].finalist = finishedAt.parent
  /\ sealedRuns = 1 => sealedLog # <<>>

SearchIsSound == SearchTypes /\ SpendingIsReserved /\ ParentIsEarned /\ SealedOnce
=============================================================================
