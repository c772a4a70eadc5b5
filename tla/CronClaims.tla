----------------------------- MODULE CronClaims -----------------------------
(***************************************************************************)
(* Scheduled jobs kept in one file that several workers share.  A worker   *)
(* claims the jobs that are due in one locked transaction, runs them one   *)
(* after the other on its own host, and records each outcome in another    *)
(* transaction, as long as the claim is still its own.  Times are kept     *)
(* relative to the clock: next_run_at = 0 is due, claim_expires_at = 0 is  *)
(* expired; the lateness of a periodic job is kept modulo its interval,    *)
(* which is all that its next time depends on.  Occurrences are told apart *)
(* by run_count: instead of the number, a copy of a job says whether it is *)
(* still of the current occurrence.                                        *)
(* A definition named Faulty... is a later one with a mistake planted.     *)
(***************************************************************************)
EXTENDS Integers, FiniteSets, FiniteSetsExt

CONSTANTS
  Workers,      \* owner names, one per worker process
  Jobs,         \* job ids
  Periodic,     \* the jobs with an "every" schedule; others are "at" jobs
  Key,          \* dedup_key of each job: schedule, prompt, channel, chat
  Interval,     \* every_seconds, and how far ahead an "at" job may be
  ClaimTTL,     \* claim_ttl
  Limit,        \* how many jobs one claim takes at most
  MaxCrashes,   \* bound: worker crashes, of workers that are not slow
  Nobody, NoJob

ASSUME TimesAssumption == Interval \in Nat \ {0} /\ ClaimTTL \in Nat \ {0}
ASSUME LimitAssumption == Limit \in Nat \ {0} /\ MaxCrashes \in Nat
ASSUME JobsAssumption == Periodic \subseteq Jobs /\ NoJob \notin Jobs
ASSUME WorkersAssumption == Nobody \notin Workers

\* A job of the file, as far as it decides who runs it and when.
JobRecords == [enabled : BOOLEAN, next : 1 - Interval .. Interval,
               owner : Workers \cup {Nobody}, expires : 0 .. ClaimTTL]

ASSUME NoJobAssumption == NoJob \notin JobRecords

VARIABLES
  slow,     \* whether a worker may take longer than its claims last; a step
            \* never changes it
  store,    \* the jobs in the file; NoJob in a slot that was never added
  batch,    \* the jobs of each worker's claim that it has not started
  doing,    \* the job each worker runs
  stage,    \* where it is: "idle", "submit", "wait" or "complete"
  left,     \* what is left of a worker's claim on a job, as it was made
  current,  \* <<worker, job>> claimed for the present occurrence of the job
  seen,     \* <<worker, job>> whose present occurrence the worker's host knows
  accepts,  \* history: how often the present occurrence was accepted
  crashes

claims == <<left, current>>
cronVars == <<slow, store, batch, doing, stage, left, current, seen, accepts, crashes>>

CronInit ==
  /\ slow \in BOOLEAN
  /\ store = [j \in Jobs |-> NoJob]
  /\ batch = [w \in Workers |-> {}]
  /\ doing = [w \in Workers |-> NoJob]
  /\ stage = [w \in Workers |-> "idle"]
  /\ left = [p \in Workers \X Jobs |-> 0]
  /\ current = {} /\ seen = {}
  /\ accepts = [j \in Jobs |-> 0]
  /\ crashes = 0

InFile(j) == store[j] # NoJob
Due(j) == InFile(j) /\ store[j].enabled /\ store[j].next <= 0

-----------------------------------------------------------------------------
(* An enabled job of the same schedule and content is returned instead.    *)
Add(j) ==
  /\ ~InFile(j)
  /\ \A k \in Jobs : InFile(k) /\ store[k].enabled => Key[k] # Key[j]
  /\ \E first \in (IF j \in Periodic THEN {Interval} ELSE 0 .. Interval) :
       store' = [store EXCEPT ![j] = [enabled |-> TRUE, next |-> first,
                                      owner |-> Nobody, expires |-> 0]]
  /\ UNCHANGED <<batch, doing, stage, claims, seen, accepts, crashes>>

FaultyClaimable(j) == Due(j)
FaultyNeverReclaimed(j) == Due(j) /\ store[j].owner = Nobody

Claimable(j) == Due(j) /\ (store[j].owner = Nobody \/ store[j].expires <= 0)

(* claim_due: as many of the due jobs as the limit allows.                 *)
Claim(w) ==
  LET due == {j \in Jobs : Claimable(j)}
  IN /\ stage[w] = "idle" /\ batch[w] = {} /\ due # {}
     /\ \E taken \in SUBSET due :
          /\ Cardinality(taken) = Min({Limit, Cardinality(due)})
          /\ store' = [j \in Jobs |-> IF j \in taken
                         THEN [store[j] EXCEPT !.owner = w, !.expires = ClaimTTL]
                         ELSE store[j]]
          /\ batch' = [batch EXCEPT ![w] = taken]
          /\ left' = [p \in Workers \X Jobs |->
               IF p[1] = w /\ p[2] \in taken THEN ClaimTTL ELSE left[p]]
          /\ current' = current \cup ({w} \X taken)
     /\ UNCHANGED <<doing, stage, seen, accepts, crashes>>

RunNext(w) ==
  /\ stage[w] = "idle"
  /\ \E j \in batch[w] :
       /\ batch' = [batch EXCEPT ![w] = @ \ {j}]
       /\ doing' = [doing EXCEPT ![w] = j]
  /\ stage' = [stage EXCEPT ![w] = "submit"]
  /\ UNCHANGED <<store, claims, seen, accepts, crashes>>

(* host.submit: the message id names the occurrence, and one that the host *)
(* has seen resolves to its turn.  Only acceptances of the present         *)
(* occurrence are counted.                                                 *)
SubmitJob(w) ==
  LET j == doing[w]
  IN /\ stage[w] = "submit"
     /\ stage' = [stage EXCEPT ![w] = "wait"]
     /\ IF <<w, j>> \in current /\ <<w, j>> \notin seen
        THEN /\ seen' = seen \cup {<<w, j>>}
             /\ accepts' = [accepts EXCEPT ![j] = @ + 1]
        ELSE UNCHANGED <<seen, accepts>>
     /\ UNCHANGED <<store, batch, doing, claims, crashes>>

(* There is no such channel, or submitting raised: an outcome as well.     *)
SubmitFails(w) ==
  /\ stage[w] = "submit"
  /\ stage' = [stage EXCEPT ![w] = "complete"]
  /\ UNCHANGED <<store, batch, doing, claims, seen, accepts, crashes>>

TurnEnds(w) ==
  /\ stage[w] = "wait"
  /\ stage' = [stage EXCEPT ![w] = "complete"]
  /\ UNCHANGED <<store, batch, doing, claims, seen, accepts, crashes>>

(* The first time after now on the job's grid.                             *)
Advanced(next) == Min({n \in next + 1 .. next + 2 * Interval :
                         n > 0 /\ (n - next) % Interval = 0})

FaultyRecord(w) ==
  LET j == doing[w]
  IN /\ stage[w] = "complete"
     /\ store' = [store EXCEPT ![j] =
          [store[j] EXCEPT !.owner = Nobody, !.expires = 0,
                           !.enabled = j \in Periodic,
                           !.next = IF j \in Periodic THEN Advanced(@) ELSE @]]
     /\ current' = {p \in current : p[2] # j}
     /\ seen' = {p \in seen : p[2] # j}
     /\ accepts' = [accepts EXCEPT ![j] = 0]
     /\ doing' = [doing EXCEPT ![w] = NoJob]
     /\ stage' = [stage EXCEPT ![w] = "idle"]
     /\ UNCHANGED <<batch, left, crashes>>

(* complete: the claim is given back and the next occurrence begins.       *)
Record(w) ==
  LET j == doing[w]
  IN /\ stage[w] = "complete"
     /\ store[j].owner = w
     /\ store' = [store EXCEPT ![j] =
          [store[j] EXCEPT !.owner = Nobody, !.expires = 0,
                           !.enabled = j \in Periodic,
                           !.next = IF j \in Periodic THEN Advanced(@) ELSE @]]
     /\ current' = {p \in current : p[2] # j}
     /\ seen' = {p \in seen : p[2] # j}
     /\ accepts' = [accepts EXCEPT ![j] = 0]
     /\ doing' = [doing EXCEPT ![w] = NoJob]
     /\ stage' = [stage EXCEPT ![w] = "idle"]
     /\ UNCHANGED <<batch, left, crashes>>

(* The claim is another's: complete raises, and run_due ends with the rest *)
(* of its batch still claimed.                                             *)
RecordRefused(w) ==
  /\ stage[w] = "complete"
  /\ store[doing[w]].owner # w
  /\ batch' = [batch EXCEPT ![w] = {}]
  /\ doing' = [doing EXCEPT ![w] = NoJob]
  /\ stage' = [stage EXCEPT ![w] = "idle"]
  /\ UNCHANGED <<store, claims, seen, accepts, crashes>>

CrashWorker(w) ==
  /\ ~slow /\ crashes < MaxCrashes
  /\ crashes' = crashes + 1
  /\ batch' = [batch EXCEPT ![w] = {}]
  /\ doing' = [doing EXCEPT ![w] = NoJob]
  /\ stage' = [stage EXCEPT ![w] = "idle"]
  /\ seen' = {p \in seen : p[1] # w}
  /\ UNCHANGED <<store, claims, accepts>>

(* One unit of time for the jobs, for the claims and for the workers.      *)
Works(w, j) == j \in batch[w] \/ doing[w] = j

Tick ==
  /\ slow \/ \A w \in Workers, j \in Jobs : Works(w, j) => left[<<w, j>>] > 1
  /\ store' = [j \in Jobs |->
       IF ~InFile(j) THEN NoJob
       ELSE [store[j] EXCEPT
               !.next = IF @ > 0 THEN @ - 1
                        ELSE IF j \in Periodic /\ @ > 1 - Interval THEN @ - 1
                        ELSE 0,
               !.expires = Max({0, @ - 1})]]
  /\ left' = [p \in Workers \X Jobs |-> Max({0, left[p] - 1})]
  /\ UNCHANGED <<batch, doing, stage, current, seen, accepts, crashes>>

-----------------------------------------------------------------------------
WorkerStep(w) ==
  \/ Claim(w) \/ RunNext(w) \/ SubmitJob(w) \/ SubmitFails(w) \/ TurnEnds(w)
  \/ Record(w) \/ RecordRefused(w)

CronNext ==
  /\ UNCHANGED slow
  /\ \/ Tick
     \/ \E j \in Jobs : Add(j)
     \/ \E w \in Workers : WorkerStep(w) \/ CrashWorker(w)

-----------------------------------------------------------------------------
(* Properties.                                                             *)

(* Type invariant of the file and the workers; only enabled jobs are       *)
(* claimed.                                                                *)
CronTypes ==
  /\ slow \in BOOLEAN
  /\ \A j \in Jobs : InFile(j) =>
       /\ store[j] \in JobRecords
       /\ store[j].owner # Nobody => store[j].enabled
  /\ batch \in [Workers -> SUBSET Jobs]
  /\ doing \in [Workers -> Jobs \cup {NoJob}]
  /\ stage \in [Workers -> {"idle", "submit", "wait", "complete"}]
  /\ left \in [Workers \X Jobs -> 0 .. ClaimTTL]
  /\ current \subseteq Workers \X Jobs /\ seen \subseteq Workers \X Jobs
  /\ accepts \in [Jobs -> Nat] /\ crashes \in Nat

(* "A second worker cannot claim a live lease": two workers have the same  *)
(* occurrence of a job in their hands only when the claim of one of them   *)
(* ran out.                                                                *)
OverlapNeedsExpiry ==
  \A v, w \in Workers, j \in Jobs :
    v # w /\ Works(v, j) /\ Works(w, j) /\ {<<v, j>>, <<w, j>>} \subseteq current
      => left[<<v, j>>] = 0 \/ left[<<w, j>>] = 0

(* Claims are well formed, held for enabled jobs only, and exclusive while *)
(* they live.                                                              *)
ClaimsAreExclusive == CronTypes /\ OverlapNeedsExpiry

(* An outcome is recorded for the occurrence it was claimed for, although  *)
(* only the owner's name is compared: a worker that lost its claim cannot  *)
(* record a later occurrence as run.                                       *)
OutcomeIsOfItsOccurrence ==
  [][\A j \in Jobs, w \in Workers :
       Record(w) /\ doing[w] = j => <<w, j>> \in current]_cronVars

(* Claims hold: one worker at a time has a live one, and only its holder   *)
(* says what became of the occurrence.                                     *)
ClaimsHold == []ClaimsAreExclusive /\ OutcomeIsOfItsOccurrence

(* "An expired claim is recoverable": when runs are shorter than claims, a *)
(* due job does not wait for ever, whichever worker crashes and when.      *)
JobWaits(j) == ~slow /\ Due(j)
=============================================================================
