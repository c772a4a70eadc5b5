--------------------------- MODULE ServicesProofs ---------------------------
(***************************************************************************)
(* Proofs about the services an agent uses, each on its own: the bounded   *)
(* process (BoundedProcess), for every command; the claims on scheduled    *)
(* jobs (CronClaims), for any workers, jobs, intervals and claim times;    *)
(* the sessions with MCP servers (McpSessions), for any servers, threads,  *)
(* calls and catalogs; the life of an agent (AgentLifetime), for any       *)
(* callers and any bounds; the calls of one answer (ToolGateway), for      *)
(* answers of any length; the chain of providers (ProviderChain), for any  *)
(* chains, whatever fails; and how a history is put together               *)
(* (ContextCurator), for any orderly sessions.  Each has an inductive      *)
(* invariant in named parts, and one lemma per action or group of actions  *)
(* that says it is kept.                                                   *)
(***************************************************************************)
EXTENDS MCServices, ToolGateway, QueueLemmas, FiniteSetTheorems

-----------------------------------------------------------------------------
(* BoundedProcess                                                          *)

\* Where the runner is until it has seen a reason to stop the command, once it
\* has seen the leader gone, and while it brings the group down.
Watching == {"entry", "register", "callback", "kill", "append", "poll", "check"}
Settling == {"settle", "leave", "read"}
Reaping == {"term", "sigterm", "grace", "force", "sigkill", "wait"}

\* A thread is in the callback only for a token that is cancelled, and a
\* callback the runner runs itself leads back to its first poll.
CallbacksAreCancelled ==
  /\ back = "poll"
  /\ \A t \in ProcessThreads : pc[t] \in {"callback", "kill", "append"} => cancelled
  /\ pc["canceller"] \in {"idle", "callback", "kill", "append", "done"}

\* The leader is started once; the runner settles only after it has seen it
\* gone, and nothing brings a leader back; the child's death and the leader's
\* are tied by Exit and Killpg unless the command says otherwise.
LeaderIsGone ==
  /\ pc["runner"] = "entry" => group["leader"] = "unborn"
  /\ pc["runner"] \notin {"entry", "done"} => group["leader"] # "unborn"
  /\ pc["runner"] \in Settling => group["leader"] = "reaped"
  /\ pc["runner"] = "done" => ~Alive("leader")
  /\ ~Detaches /\ "child" \notin Stubborn /\ Alive("child") => Alive("leader")

\* Whoever killed a member left its mark: the runner stops a group only for a
\* status other than "completed", the other thread only for a cancellation, and
\* a canceller between its poll and its kill is one that Settle has seen.
KillsAreMarked ==
  /\ pc["runner"] \in Watching => status \in {"completed", "running"}
  /\ pc["runner"] \in Reaping => status \in {"cancelled", "timeout"}
  /\ killed # {} => cancelled \/ status \in {"cancelled", "timeout"}
  /\ pc["runner"] \in {"leave", "read", "done"}
       /\ (killed # {} \/ pc["canceller"] \in {"kill", "append"})
     => status \in {"cancelled", "timeout"}

ProcessInvariant == /\ ProcessTypes /\ CallbacksAreCancelled
                    /\ LeaderIsGone /\ KillsAreMarked

LEMMA ProcessStarts == ProcessInit => ProcessInvariant
<1> SUFFICES ASSUME ProcessInit PROVE ProcessInvariant OBVIOUS
<1> USE DEF ProcessInit
<1>1. pc \in [ProcessThreads -> RunnerPlaces]
  BY DEF ProcessThreads, RunnerPlaces
<1>2. ProcessTypes
  BY <1>1 DEF ProcessTypes, MemberStates, RunnerPlaces, Statuses
<1>3. CallbacksAreCancelled BY DEF CallbacksAreCancelled, ProcessThreads
<1>4. LeaderIsGone /\ KillsAreMarked
  BY DEF LeaderIsGone, KillsAreMarked, Alive, Members, Watching, Settling, Reaping
<1> QED BY <1>2, <1>3, <1>4 DEF ProcessInvariant

(* Killpg only takes the living to "exited"; it takes all of them when it is *)
(* forced, and otherwise all but the stubborn.                               *)
LEMMA KillpgEnds ==
  ASSUME ProcessTypes, NEW force \in BOOLEAN, Killpg(force)
  PROVE  /\ group' \in [Members -> MemberStates] /\ killed' \subseteq Members
         /\ \A m \in Members : Alive(m)' => Alive(m) /\ ~force /\ m \in Stubborn
         /\ \A m \in Members : Alive(m) /\ (force \/ m \notin Stubborn) => ~Alive(m)'
         /\ \A m \in Members : /\ group[m] = "reaped" => group'[m] = "reaped"
                               /\ group[m] = "unborn" <=> group'[m] = "unborn"
  BY DEF ProcessTypes, Killpg, Alive, MemberStates

LEMMA PollCollects ==
  ASSUME ProcessTypes, group' = Polled
  PROVE  /\ group' \in [Members -> MemberStates]
         /\ \A m \in Members : /\ Alive(m)' <=> Alive(m)
                               /\ group[m] = "unborn" <=> group'[m] = "unborn"
         /\ group["leader"] \in {"exited", "reaped"} => group'["leader"] = "reaped"
  BY DEF ProcessTypes, Polled, Alive, MemberStates, Members
(* Every place of a thread is a place of the runner's. *)
LEMMA PlacesMove ==
  ASSUME ProcessTypes, NEW t \in ProcessThreads, NEW place \in RunnerPlaces,
         Goto(t, place)
  PROVE  /\ pc' \in [ProcessThreads -> RunnerPlaces]
         /\ pc'[t] = place
         /\ \A u \in ProcessThreads \ {t} : pc'[u] = pc[u]
  BY DEF ProcessTypes, Goto

(* The group on its own: its members fork and end, the deadline passes. *)
LEMMA GroupStepsKeep ==
  ASSUME ProcessInvariant, UNCHANGED command,
         Fork \/ (\E m \in Members : Exit(m)) \/ DeadlinePasses
  PROVE  ProcessInvariant'
<1> USE DEF ProcessInvariant, ProcessTypes, CallbacksAreCancelled, LeaderIsGone,
            KillsAreMarked, Members, Alive, Detaches, Stubborn, groupVars, tokenVars
<1>1. CASE Fork BY <1>1 DEF Fork, MemberStates, Watching, Settling, Reaping
<1>2. ASSUME NEW m \in Members, Exit(m) PROVE ProcessInvariant'
  BY <1>2 DEF Exit, MemberStates, Watching, Settling, Reaping
<1>3. CASE DeadlinePasses BY <1>3 DEF DeadlinePasses
<1> QED BY <1>1, <1>2, <1>3

(* The callback and the cancellation that starts it. *)
LEMMA CallbackStepsKeep ==
  ASSUME ProcessInvariant, UNCHANGED command, NEW t \in ProcessThreads,
         Callback(t) \/ CancelToken
  PROVE  ProcessInvariant'
<1> USE DEF ProcessInvariant, ProcessTypes, CallbacksAreCancelled, LeaderIsGone,
            KillsAreMarked, Members, ProcessThreads, At, Detaches, Stubborn
<1>a. After(t) \in RunnerPlaces BY DEF After, RunnerPlaces
<1>1. CASE CallbackPolls(t) BY <1>1, <1>a, PollCollects, PlacesMove
     DEF CallbackPolls, RunnerPlaces, After, Watching, Settling, Reaping, tokenVars, Alive
<1>2. CASE CallbackKills(t)
  <2>1. /\ pc[t] = "kill" /\ Killpg(TRUE) /\ cancelled
        /\ UNCHANGED <<deadline, cancelled, callbacks, back, status, signal, reported>>
    BY <1>2 DEF CallbackKills, tokenVars
  <2>2. PICK place \in {"append", After(t)} : Goto(t, place)
    BY <1>2 DEF CallbackKills
  <2>3. /\ pc' \in [ProcessThreads -> RunnerPlaces] /\ pc'[t] = place
        /\ \A u \in ProcessThreads \ {t} : pc'[u] = pc[u]
    BY <2>2, <1>a, PlacesMove DEF RunnerPlaces
  <2>4. /\ group' \in [Members -> MemberStates] /\ killed' \subseteq Members
        /\ \A m \in Members : /\ ~Alive(m)'
                              /\ group[m] = "reaped" => group'[m] = "reaped"
                              /\ group[m] = "unborn" <=> group'[m] = "unborn"
    BY <2>1, KillpgEnds
  <2>5. ProcessTypes' /\ CallbacksAreCancelled'
    BY <2>1, <2>2, <2>3, <2>4 DEF After
  <2>6. LeaderIsGone' BY <2>1, <2>2, <2>3, <2>4 DEF After, Alive, Settling
  <2>7. KillsAreMarked' BY <2>1, <2>2, <2>3, <2>4 DEF After, Watching, Reaping
  <2> QED BY <2>5, <2>6, <2>7
<1>3. CASE CallbackAppends(t) BY <1>3, <1>a, PlacesMove
     DEF CallbackAppends, RunnerPlaces, After, Watching, Settling, Reaping, tokenVars,
         groupVars, Alive
<1>4. CASE CancelToken
  <2>1. PICK place \in {"callback", "done"} : Goto("canceller", place)
    BY <1>4 DEF CancelToken
  <2>2. /\ pc' \in [ProcessThreads -> RunnerPlaces] /\ pc'["canceller"] = place
        /\ pc'["runner"] = pc["runner"]
    BY <2>1, PlacesMove DEF RunnerPlaces
  <2> QED
    BY ZenonT(60), <1>4, <2>2 DEF CancelToken, Watching, Settling, Reaping, groupVars, Alive
<1> QED BY <1>1, <1>2, <1>3, <1>4 DEF Callback

(* The runner's own steps. *)
LEMMA RunnerStepsKeep ==
  ASSUME ProcessInvariant, UNCHANGED command, RunnerStep, ~Callback("runner")
  PROVE  ProcessInvariant'
<1> USE DEF ProcessInvariant, ProcessTypes, CallbacksAreCancelled, LeaderIsGone,
            KillsAreMarked, Members, ProcessThreads, At, Detaches, Stubborn, Alive,
            Watching, Settling, Reaping, RunnerPlaces, tokenVars, groupVars
<1>1. CASE Start
  BY <1>1, PlacesMove DEF Start, MemberStates, Statuses, ControlStatus
<1>2. CASE Register BY ZenonT(60), <1>2, PlacesMove DEF Register
<1>3. CASE Poll BY <1>3, PlacesMove, PollCollects DEF Poll, MemberStates
<1>4. CASE Check BY <1>4, PlacesMove DEF Check, Statuses, ControlStatus
<1>5. CASE Reap
  <2>1. ASSUME NEW place, NEW next, ReapPolls(place, next),
               \/ place = "term" /\ next = "sigterm"
               \/ place = "force" /\ next = "sigkill"
        PROVE  ProcessInvariant'
    BY <2>1, PlacesMove, PollCollects DEF ReapPolls
  <2>2. ASSUME NEW place, NEW force \in BOOLEAN, NEW next,
               ReapSignals(place, force, next),
               \/ place = "sigterm" /\ next = "grace"
               \/ place = "sigkill" /\ next = "wait"
        PROVE  ProcessInvariant'
    BY <2>2, PlacesMove, KillpgEnds DEF ReapSignals
  <2>3. CASE Grace BY <2>3, PlacesMove, PollCollects DEF Grace, MemberStates
  <2>4. CASE Wait BY <2>4, PlacesMove, PollCollects DEF Wait, MemberStates
  <2> QED BY <1>5, <2>1, <2>2, <2>3, <2>4 DEF Reap
<1>6. CASE Settle BY <1>6, PlacesMove DEF Settle, Statuses
<1>7. CASE Unregister BY ZenonT(60), <1>7, PlacesMove DEF Unregister
<1>8. CASE Return BY <1>8, PlacesMove DEF Return
<1> QED BY <1>1, <1>2, <1>3, <1>4, <1>5, <1>6, <1>7, <1>8 DEF RunnerStep

LEMMA ProcessInvariantIsInductive ==
  ProcessInvariant /\ [ProcessNext]_processVars => ProcessInvariant'
<1> SUFFICES ASSUME ProcessInvariant, [ProcessNext]_processVars
             PROVE  ProcessInvariant'
  OBVIOUS
<1>1. CASE UNCHANGED processVars
  BY <1>1 DEF processVars, ProcessInvariant, ProcessTypes, CallbacksAreCancelled,
       LeaderIsGone, KillsAreMarked, Alive, Detaches, Stubborn
<1>2. CASE UNCHANGED command /\ (Callback("runner") \/ Callback("canceller") \/ CancelToken)
  BY <1>2, CallbackStepsKeep DEF ProcessThreads
<1>3. CASE UNCHANGED command /\ RunnerStep /\ ~Callback("runner")
  BY <1>3, RunnerStepsKeep
<1>4. CASE UNCHANGED command /\ (Fork \/ (\E m \in Members : Exit(m)) \/ DeadlinePasses)
  BY <1>4, GroupStepsKeep
<1> QED BY <1>1, <1>2, <1>3, <1>4 DEF ProcessNext

(* Whoever kills a command and whenever the other thread looks: a command that *)
(* was killed is not reported as completed, and of a command that was stopped  *)
(* neither the leader nor a child that heeds SIGTERM is left (the answer of    *)
(* run_bounded_process).  It holds for every command.                          *)
THEOREM AnswersAreTrue ==
  ProcessInit /\ [][ProcessNext]_processVars => []AnswerIsTrue
<1>1. ProcessInvariant => AnswerIsTrue
  BY DEF ProcessInvariant, AnswerIsTrue, KilledIsNotCompleted, GroupIsReaped,
         KillsAreMarked, LeaderIsGone, Returned, At, Alive, Members
<1> QED BY <1>1, ProcessStarts, ProcessInvariantIsInductive, PTL
-----------------------------------------------------------------------------
(* CronClaims                                                              *)

\* The types, with what ties a worker's place to its job: a worker has a job in
\* hand unless it is idle, what it works at is in the file, and a claimed job is
\* due.
CronShape ==
  /\ CronTypes
  /\ store \in [Jobs -> JobRecords \cup {NoJob}]
  /\ \A w \in Workers : stage[w] = "idle" <=> doing[w] = NoJob
  /\ \A w \in Workers, j \in Jobs : Works(w, j) => InFile(j)
  /\ \A j \in Jobs : InFile(j) /\ store[j].owner # Nobody => store[j].next <= 0

\* The claim that the file names is for the present occurrence, and of all those
\* who claimed the present occurrence only the one the file names may have
\* something left of the claim: as much as the file says.
ClaimsAreKnown ==
  /\ \A j \in Jobs : InFile(j) /\ store[j].owner # Nobody =>
       <<store[j].owner, j>> \in current
  /\ \A w \in Workers, j \in Jobs : <<w, j>> \in current =>
       /\ InFile(j) /\ store[j].owner # Nobody
       /\ left[<<w, j>>] = IF store[j].owner = w THEN store[j].expires ELSE 0

CronInvariant == CronShape /\ ClaimsAreKnown
(* The greater of two numbers, as Tick uses it. *)
LEMMA CountDown ==
  ASSUME NEW n \in Nat
  PROVE  /\ Max({0, n - 1}) = IF n = 0 THEN 0 ELSE n - 1
  BY DEF Max

(* The next time on the grid of a job that is due is in the future, at most *)
(* one interval away.                                                       *)
LEMMA GridIsAhead ==
  ASSUME NEW next \in 1 - Interval .. 0
  PROVE  Advanced(next) \in 1 .. Interval
<1> DEFINE grid == {n \in next + 1 .. next + 2 * Interval :
                      n > 0 /\ (n - next) % Interval = 0}
<1>1. Interval \in Nat \ {0} BY TimesAssumption
<1>2. next + Interval \in grid BY <1>1
<1>3. \A n \in grid : next + Interval <= n BY <1>1
<1>4. Advanced(next) = next + Interval BY <1>1, <1>2, <1>3 DEF Advanced, Min
<1> QED BY <1>1, <1>4

LEMMA CronStarts == CronInit => CronInvariant
<1> SUFFICES ASSUME CronInit PROVE CronInvariant OBVIOUS
<1> USE DEF CronInit
<1>1. left \in [Workers \X Jobs -> 0 .. ClaimTTL] BY TimesAssumption
<1>2. \A j \in Jobs : ~InFile(j) BY DEF InFile
<1>3. \A w \in Workers, j \in Jobs : ~Works(w, j) BY JobsAssumption DEF Works
<1>4. CronTypes BY <1>1, <1>2 DEF CronTypes
<1> QED BY <1>2, <1>3, <1>4 DEF CronInvariant, CronShape, ClaimsAreKnown

LEMMA AddKeeps ==
  ASSUME CronInvariant, NEW a \in Jobs, Add(a), UNCHANGED slow
  PROVE  CronInvariant'
<1> USE TimesAssumption, NoJobAssumption, WorkersAssumption
<1>1. PICK first \in 0 .. Interval :
         store' = [store EXCEPT ![a] = [enabled |-> TRUE, next |-> first,
                                        owner |-> Nobody, expires |-> 0]]
  <2>1. CASE a \in Periodic
    <3>1. store' = [store EXCEPT ![a] = [enabled |-> TRUE, next |-> Interval,
                                         owner |-> Nobody, expires |-> 0]]
      BY <2>1 DEF Add
    <3>2. Interval \in 0 .. Interval OBVIOUS
    <3> QED BY <3>1, <3>2, Zenon
  <2>2. CASE a \notin Periodic BY <2>2 DEF Add
  <2> QED BY <2>1, <2>2
<1>2. [enabled |-> TRUE, next |-> first, owner |-> Nobody, expires |-> 0] \in JobRecords
  BY DEF JobRecords
<1>3. CronShape'
  BY <1>1, <1>2 DEF Add, CronInvariant, CronShape, CronTypes, Works, InFile, claims
<1>4. ClaimsAreKnown'
  BY <1>1, <1>2 DEF Add, CronInvariant, CronShape, ClaimsAreKnown, InFile, claims
<1> QED BY <1>3, <1>4 DEF CronInvariant

LEMMA ClaimKeeps ==
  ASSUME CronInvariant, NEW w \in Workers, Claim(w), UNCHANGED slow
  PROVE  CronInvariant'
<1> USE TimesAssumption, NoJobAssumption, WorkersAssumption
<1>1. PICK taken \in SUBSET {j \in Jobs : Claimable(j)} :
         /\ store' = [j \in Jobs |-> IF j \in taken
                        THEN [store[j] EXCEPT !.owner = w, !.expires = ClaimTTL]
                        ELSE store[j]]
         /\ batch' = [batch EXCEPT ![w] = taken]
         /\ left' = [p \in Workers \X Jobs |->
              IF p[1] = w /\ p[2] \in taken THEN ClaimTTL ELSE left[p]]
         /\ current' = current \cup ({w} \X taken)
  BY DEF Claim
<1>2. stage[w] = "idle" /\ UNCHANGED <<doing, stage, seen, accepts, crashes>>
  BY DEF Claim
<1>3. \A j \in taken : /\ store[j] \in JobRecords /\ InFile(j) /\ store[j].enabled
                       /\ store[j].next <= 0
                       /\ store[j].owner = Nobody \/ store[j].expires = 0
  BY DEF Claimable, Due, InFile, CronInvariant, CronShape, JobRecords
<1>4. \A j \in taken : /\ store'[j] \in JobRecords /\ InFile(j)' /\ store'[j].owner = w
                       /\ store'[j].expires = ClaimTTL /\ store'[j].enabled
                       /\ store'[j].next <= 0
  <2> SUFFICES ASSUME NEW j \in taken
               PROVE  /\ store'[j] \in JobRecords /\ store'[j].owner = w
                      /\ store'[j].expires = ClaimTTL /\ store'[j].enabled
                      /\ store'[j].next <= 0
    BY DEF InFile
  <2>1. store'[j] = [store[j] EXCEPT !.owner = w, !.expires = ClaimTTL] BY <1>1
  <2>2. ClaimTTL \in 0 .. ClaimTTL OBVIOUS
  <2> QED BY <1>3, <2>1, <2>2 DEF JobRecords
<1>5. \A j \in Jobs \ taken : store'[j] = store[j] BY <1>1
<1>6. CronShape'
  <2>1. store' \in [Jobs -> JobRecords \cup {NoJob}]
    BY <1>1, <1>4, <1>5 DEF CronInvariant, CronShape
  <2>2. \A j \in Jobs : InFile(j)' => store'[j] \in JobRecords
    BY <2>1 DEF InFile
  <2>3. left' \in [Workers \X Jobs -> 0 .. ClaimTTL]
    <3>1. \A p \in Workers \X Jobs : left[p] \in 0 .. ClaimTTL /\ ClaimTTL \in 0 .. ClaimTTL
      BY DEF CronInvariant, CronShape, CronTypes
    <3> QED BY <1>1, <3>1
  <2>4. current' \subseteq Workers \X Jobs /\ batch' \in [Workers -> SUBSET Jobs]
    BY <1>1 DEF CronInvariant, CronShape, CronTypes
  <2>5. \A j \in Jobs : InFile(j)' /\ store'[j].owner # Nobody => store'[j].enabled
    BY <1>4, <1>5 DEF CronInvariant, CronShape, CronTypes, InFile
  <2>6. CronTypes'
    BY <1>2, <2>2, <2>3, <2>4, <2>5 DEF CronInvariant, CronShape, CronTypes, InFile
  <2> QED
    <3>1. ASSUME NEW v \in Workers, NEW j \in Jobs, Works(v, j)'
          PROVE  InFile(j)'
      <4>1. v = w => j \in taken
        BY <1>1, <1>2, <3>1, JobsAssumption DEF CronInvariant, CronShape, CronTypes, Works
      <4>2. v # w => Works(v, j)
        BY <1>1, <1>2, <3>1 DEF CronInvariant, CronShape, CronTypes, Works
      <4> QED BY <1>4, <1>5, <4>1, <4>2 DEF CronInvariant, CronShape, InFile
    <3>2. \A j \in Jobs : InFile(j)' /\ store'[j].owner # Nobody => store'[j].next <= 0
      BY <1>4, <1>5 DEF CronInvariant, CronShape, InFile
    <3> QED BY <1>2, <2>1, <2>6, <3>1, <3>2 DEF CronInvariant, CronShape
<1>7. ClaimsAreKnown'
  <2>1. \A j \in Jobs : InFile(j)' /\ store'[j].owner # Nobody =>
           <<store'[j].owner, j>> \in current'
    <3>1. \A j \in taken : <<w, j>> \in current' BY <1>1
    <3>2. current \subseteq current' BY <1>1
    <3> QED BY <1>4, <1>5, <3>1, <3>2 DEF CronInvariant, ClaimsAreKnown, InFile
  <2>2. ASSUME NEW v \in Workers, NEW j \in Jobs, <<v, j>> \in current'
        PROVE  /\ InFile(j)' /\ store'[j].owner # Nobody
               /\ left'[<<v, j>>] = IF store'[j].owner = v THEN store'[j].expires ELSE 0
    <3>1. CASE j \notin taken
      BY <1>1, <1>5, <2>2, <3>1 DEF CronInvariant, ClaimsAreKnown, InFile
    <3>2. CASE j \in taken /\ v = w BY <1>1, <1>4, <3>2
    <3>3. CASE j \in taken /\ v # w
      BY <1>1, <2>2, <3>3, <1>3, <1>4 DEF CronInvariant, ClaimsAreKnown
    <3> QED BY <3>1, <3>2, <3>3
  <2> QED BY <2>1, <2>2 DEF ClaimsAreKnown
<1> QED BY <1>6, <1>7 DEF CronInvariant

(* A worker on its own: it takes a job of its batch, submits it, waits, and *)
(* gives up or crashes; the file stays as it is.                            *)
LEMMA WorkerKeeps ==
  ASSUME CronInvariant, NEW w \in Workers, UNCHANGED slow,
         RunNext(w) \/ SubmitJob(w) \/ SubmitFails(w) \/ TurnEnds(w)
           \/ RecordRefused(w) \/ CrashWorker(w)
  PROVE  CronInvariant'
<1> USE DEF CronInvariant, CronShape, CronTypes, claims, Works, InFile
<1>1. ClaimsAreKnown'
  BY DEF ClaimsAreKnown, RunNext, SubmitJob, SubmitFails, TurnEnds, RecordRefused,
         CrashWorker
<1>2. CASE RunNext(w) BY <1>1, <1>2, JobsAssumption DEF RunNext
<1>3. CASE SubmitJob(w) BY <1>1, <1>3 DEF SubmitJob
<1>4. CASE SubmitFails(w) \/ TurnEnds(w) BY <1>1, <1>4 DEF SubmitFails, TurnEnds
<1>5. CASE RecordRefused(w) BY <1>1, <1>5, JobsAssumption DEF RecordRefused
<1>6. CASE CrashWorker(w) BY <1>1, <1>6, JobsAssumption DEF CrashWorker
<1> QED BY <1>2, <1>3, <1>4, <1>5, <1>6
LEMMA RecordKeeps ==
  ASSUME CronInvariant, NEW w \in Workers, Record(w), UNCHANGED slow
  PROVE  CronInvariant'
<1> USE TimesAssumption, NoJobAssumption, WorkersAssumption, JobsAssumption
<1> DEFINE d == doing[w]
           later == IF d \in Periodic THEN Advanced(store[d].next) ELSE store[d].next
           done == [store[d] EXCEPT !.owner = Nobody, !.expires = 0,
                                    !.enabled = d \in Periodic, !.next = later]
<1>1. /\ stage[w] = "complete" /\ d \in Jobs /\ InFile(d) /\ store[d] \in JobRecords
      /\ store[d].owner = w /\ store[d].next \in 1 - Interval .. 0
  BY DEF Record, CronInvariant, CronShape, CronTypes, Works, InFile, JobRecords
<1>2. done \in JobRecords /\ done.owner = Nobody
  <2>1. Advanced(store[d].next) \in 1 .. Interval BY <1>1, GridIsAhead
  <2>2. later \in 1 - Interval .. Interval BY <1>1, <2>1
  <2>3. Nobody \in Workers \cup {Nobody} /\ 0 \in 0 .. ClaimTTL
        /\ (d \in Periodic) \in BOOLEAN
    OBVIOUS
  <2> HIDE DEF d, later
  <2> QED BY <1>1, <2>2, <2>3 DEF JobRecords
<1>3. store' = [store EXCEPT ![d] = done] BY DEF Record
<1>4. /\ current' = {p \in current : p[2] # d} /\ seen' = {p \in seen : p[2] # d}
      /\ accepts' = [accepts EXCEPT ![d] = 0]
      /\ doing' = [doing EXCEPT ![w] = NoJob] /\ stage' = [stage EXCEPT ![w] = "idle"]
      /\ UNCHANGED <<batch, left, crashes>>
  BY DEF Record
<1> HIDE DEF d, later, done
<1>5. /\ store' \in [Jobs -> JobRecords \cup {NoJob}] /\ store'[d] = done
      /\ \A j \in Jobs \ {d} : store'[j] = store[j]
      /\ \A j \in Jobs : InFile(j)' <=> InFile(j)
  BY <1>1, <1>2, <1>3 DEF CronInvariant, CronShape, InFile
<1>6. CronTypes'
  BY <1>1, <1>2, <1>4, <1>5 DEF CronInvariant, CronShape, CronTypes, InFile
<1>7. CronShape'
  BY <1>1, <1>2, <1>4, <1>5, <1>6 DEF CronInvariant, CronShape, CronTypes, Works, InFile
<1>8. ClaimsAreKnown'
  BY <1>1, <1>2, <1>4, <1>5 DEF CronInvariant, ClaimsAreKnown, InFile
<1> QED BY <1>7, <1>8 DEF CronInvariant

LEMMA TickKeeps ==
  ASSUME CronInvariant, Tick, UNCHANGED slow
  PROVE  CronInvariant'
<1> USE TimesAssumption, NoJobAssumption, WorkersAssumption
<1>1. ASSUME NEW j \in Jobs, InFile(j)
      PROVE  /\ store'[j] \in JobRecords
             /\ store'[j].owner = store[j].owner /\ store'[j].enabled = store[j].enabled
             /\ store'[j].expires = Max({0, store[j].expires - 1})
             /\ store[j].next <= 0 => store'[j].next <= 0
  <2> DEFINE on == store[j].next
             later == IF on > 0 THEN on - 1
                      ELSE IF j \in Periodic /\ on > 1 - Interval THEN on - 1 ELSE 0
             rest == Max({0, store[j].expires - 1})
  <2>1. store[j] \in JobRecords BY <1>1 DEF CronInvariant, CronShape, CronTypes
  <2>2. later \in 1 - Interval .. Interval /\ (on <= 0 => later <= 0)
    BY <2>1 DEF JobRecords
  <2>3. rest \in 0 .. ClaimTTL BY <2>1, CountDown DEF JobRecords
  <2>4. store'[j] = [store[j] EXCEPT !.next = later, !.expires = rest]
    BY <1>1 DEF Tick, InFile
  <2> HIDE DEF later, rest
  <2> QED BY <2>1, <2>2, <2>3, <2>4 DEF JobRecords, rest
<1>2. \A j \in Jobs : ~InFile(j) => store'[j] = NoJob BY DEF Tick
<1>3. \A j \in Jobs : InFile(j)' <=> InFile(j) BY <1>1, <1>2 DEF InFile
<1>4. store' \in [Jobs -> JobRecords \cup {NoJob}] BY <1>1, <1>2 DEF Tick
<1>5. /\ left' \in [Workers \X Jobs -> 0 .. ClaimTTL]
      /\ \A v \in Workers, j \in Jobs : left'[<<v, j>>] = Max({0, left[<<v, j>>] - 1})
  <2>1. ASSUME NEW p \in Workers \X Jobs
        PROVE  Max({0, left[p] - 1}) \in 0 .. ClaimTTL
    <3>1. left[p] \in 0 .. ClaimTTL BY DEF CronInvariant, CronShape, CronTypes
    <3> QED BY <3>1, CountDown
  <2> QED BY <2>1 DEF Tick
<1>6. UNCHANGED <<batch, doing, stage, current, seen, accepts, crashes>>
  BY DEF Tick
<1>7. CronShape'
  BY <1>1, <1>3, <1>4, <1>5, <1>6 DEF CronInvariant, CronShape, CronTypes, Works
<1>8. ClaimsAreKnown'
  <2>1. Max({0, 0 - 1}) = 0 BY CountDown
  <2>2. \A j \in Jobs : InFile(j)' /\ store'[j].owner # Nobody =>
           <<store'[j].owner, j>> \in current'
    BY <1>1, <1>3, <1>6 DEF CronInvariant, ClaimsAreKnown
  <2>3. ASSUME NEW v \in Workers, NEW j \in Jobs, <<v, j>> \in current'
        PROVE  /\ InFile(j)' /\ store'[j].owner # Nobody
               /\ left'[<<v, j>>] = IF store'[j].owner = v THEN store'[j].expires ELSE 0
    <3>1. /\ InFile(j) /\ store[j].owner # Nobody
          /\ left[<<v, j>>] = IF store[j].owner = v THEN store[j].expires ELSE 0
      BY <1>6, <2>3 DEF CronInvariant, ClaimsAreKnown
    <3> QED BY <1>1, <1>3, <1>5, <2>1, <3>1
  <2> QED BY <2>2, <2>3 DEF ClaimsAreKnown
<1> QED BY <1>7, <1>8 DEF CronInvariant

LEMMA CronInvariantIsInductive ==
  CronInvariant /\ [CronNext]_cronVars => CronInvariant'
<1> SUFFICES ASSUME CronInvariant, [CronNext]_cronVars
             PROVE  CronInvariant'
  OBVIOUS
<1>1. CASE UNCHANGED cronVars
  BY <1>1 DEF cronVars, CronInvariant, CronShape, CronTypes, ClaimsAreKnown, Works, InFile
<1>2. CASE UNCHANGED slow /\ Tick BY <1>2, TickKeeps
<1>3. CASE UNCHANGED slow /\ \E j \in Jobs : Add(j) BY <1>3, AddKeeps
<1>4. ASSUME NEW w \in Workers, UNCHANGED slow, WorkerStep(w) \/ CrashWorker(w)
      PROVE  CronInvariant'
  BY <1>4, ClaimKeeps, WorkerKeeps, RecordKeeps DEF WorkerStep
<1> QED BY <1>1, <1>2, <1>3, <1>4 DEF CronNext

(* Two workers have the same occurrence of a job in their hands only when the *)
(* claim of one of them ran out, and an outcome is recorded by a worker that  *)
(* claimed the present occurrence (claim_due and complete of the store).  The *)
(* name of the owner is enough for complete to compare, because the claim the *)
(* file names is always one of the present occurrence.                        *)
THEOREM ClaimsAreHeld ==
  CronInit /\ [][CronNext]_cronVars => ClaimsHold
<1>1. CronInvariant => ClaimsAreExclusive
  BY DEF CronInvariant, CronShape, CronTypes, ClaimsAreKnown, ClaimsAreExclusive,
         OverlapNeedsExpiry
<1>2. ASSUME CronInvariant
      PROVE  \A j \in Jobs, w \in Workers :
               Record(w) /\ doing[w] = j => <<w, j>> \in current
  <2> SUFFICES ASSUME NEW j \in Jobs, NEW w \in Workers, Record(w), doing[w] = j
               PROVE  <<w, j>> \in current
    OBVIOUS
  <2>1. store[j].owner = w /\ InFile(j)
    BY <1>2 DEF Record, CronInvariant, CronShape, Works
  <2> QED BY <1>2, <2>1, WorkersAssumption DEF CronInvariant, ClaimsAreKnown
<1> QED BY <1>1, <1>2, CronStarts, CronInvariantIsInductive, PTL
     DEF ClaimsHold, OutcomeIsOfItsOccurrence

-----------------------------------------------------------------------------
(* McpSessions                                                             *)

OwnerStates == {"none", "opening", "ready", "stopping", "done"}

\* Types, and a thread has a server exactly while it is not at rest.
McpShape ==
  /\ thread \in [Threads -> [at : Places, srv : Servers \cup {noServer}, op : Ops,
                             stop : BOOLEAN, ok : BOOLEAN]]
  /\ mcpLock \in [Servers -> Threads \cup {noServer}]
  /\ owner \in [Servers -> OwnerStates]
  /\ link \in [Servers -> Nat] /\ links \in [Servers -> Nat] /\ agreed \in [Servers -> Nat]
  /\ offered \in [Servers -> Nat \ {0}] /\ suspect \in [Servers -> SUBSET Nat]
  /\ toVisit \subseteq Servers /\ tools \subseteq Servers \X Nat
  /\ phase \in {"new", "serving", "closing", "closed"}
  /\ \A t \in Threads : /\ Sits(t, "rest") <=> thread[t] = Resting
                        /\ Sits(t, "rest") <=> Srv(t) = noServer
                        /\ Sits(t, "rest") <=> thread[t].op = "none"

\* A client's lock is held by the one thread that is inside its operation.
LocksAreHeld ==
  /\ \A t \in Threads : thread[t].at \notin {"rest", "lock"} => mcpLock[Srv(t)] = t
  /\ \A s \in Servers : mcpLock[s] # noServer =>
       Srv(mcpLock[s]) = s /\ thread[mcpLock[s]].at \notin {"rest", "lock"}

\* A client has no session or its last one, and a catalog once it has had one.
SessionsAreNumbered ==
  \A s \in Servers :
    /\ link[s] \in {0, links[s]} /\ suspect[s] \subseteq 1..links[s]
    /\ owner[s] = "ready" => link[s] # 0
    /\ link[s] # 0 => owner[s] \in {"ready", "stopping"}
    /\ agreed[s] # 0 <=> links[s] # 0

\* What the owner task may be doing, by the place of the thread that holds the
\* client's lock; a lock is given back in a state that may be found free.
SettledOwners == {"none", "ready", "done"}
OwnerSeenAt(at) ==
  CASE at = "connect" -> SettledOwners
    [] at = "await" -> {"opening", "ready", "done"}
    [] at \in {"connected", "calling"} -> {"ready", "done"}
    [] at = "reopen" -> {"done"}
    [] at = "close" -> {"none", "opening", "ready", "done"}
    [] at = "closing" -> {"stopping", "done"}
    [] OTHER -> SettledOwners
OwnersAreFollowed ==
  /\ \A t \in Threads : thread[t].at \notin {"rest", "lock"} =>
       owner[Srv(t)] \in OwnerSeenAt(thread[t].at)
  /\ \A s \in Servers : mcpLock[s] = noServer => owner[s] \in SettledOwners

\* What a thread has been through: a call or a listing that got a session, and a
\* call that was given up and still has its session to close.
PassagesAreKnown ==
  /\ \A t \in Threads :
       /\ thread[t].at \in {"connect", "await", "connected", "reopen"} =>
            thread[t].op \in {"list", "call"}
       /\ Sits(t, "calling") => thread[t].op = "call"
       /\ thread[t].at \in {"connected", "calling"} => links[Srv(t)] # 0
       /\ thread[t].op = "list" /\ thread[t].ok
            /\ thread[t].at \in {"close", "closing", "release"} => links[Srv(t)] # 0
  /\ \A s \in Servers : link[s] # 0 /\ links[s] \in suspect[s] =>
       mcpLock[s] # noServer /\ thread[mcpLock[s]].at \in {"close", "closing"}

\* Who may be doing what in which phase of the manager; the registered tools are
\* those of the catalogs the clients have agreed to.
PhasesAreKept ==
  /\ \A p \in tools : agreed[p[1]] # 0 /\ p[2] = agreed[p[1]]
  /\ \A t \in Threads :
       /\ thread[t].op = "list" => t = host /\ phase = "new"
       /\ thread[t].op = "shut" => t = host /\ phase = "closing" /\ Srv(t) \notin toVisit
       /\ thread[t].op = "call" => phase # "new" /\ <<Srv(t), agreed[Srv(t)]>> \in tools
       /\ thread[t].op = "call" /\ phase # "serving" => t # host /\ thread[t].stop
  /\ phase = "closed" => thread[host] = Resting /\ toVisit = {}

\* A client that the shutdown has closed: nothing opens it again, for the threads
\* of cancelled turns that come to its lock turn back.
Shut(s) == /\ phase \in {"closing", "closed"} /\ s \notin toVisit
           /\ Srv(host) # s \/ Sits(host, "release")
ShutStaysShut ==
  \A s \in Servers : Shut(s) =>
    /\ owner[s] = "none"
    /\ \A t \in Threads \ {host} : Srv(t) = s => thread[t].at \in {"lock", "release"}

McpInvariant == /\ McpShape /\ LocksAreHeld /\ SessionsAreNumbered /\ OwnersAreFollowed
                /\ PassagesAreKnown /\ PhasesAreKept /\ ShutStaysShut
McpRecords == [at : Places, srv : Servers \cup {noServer}, op : Ops,
               stop : BOOLEAN, ok : BOOLEAN]

(* A thread that moves keeps its server and its operation; no other thread *)
(* notices.                                                                *)
LEMMA ThreadMoves ==
  ASSUME McpShape, NEW t \in Threads, ~Sits(t, "rest"), NEW p \in Places \ {"rest"},
         \/ Move(t, p)
         \/ thread' = [thread EXCEPT ![t].at = p, ![t].ok = FALSE]
  PROVE  /\ thread' \in [Threads -> McpRecords]
         /\ thread'[t].at = p
         /\ thread'[t].srv = thread[t].srv /\ thread'[t].op = thread[t].op
         /\ thread'[t].stop = thread[t].stop /\ (thread'[t].ok => thread[t].ok)
         /\ \A u \in Threads \ {t} : thread'[u] = thread[u]
         /\ thread'[t] # Resting
<1>1. thread[t] \in McpRecords /\ thread \in [Threads -> McpRecords]
  BY DEF McpShape, McpRecords
<1>2. CASE Move(t, p) BY <1>1, <1>2 DEF Move, McpRecords, Resting
<1>3. CASE thread' = [thread EXCEPT ![t].at = p, ![t].ok = FALSE]
  BY <1>1, <1>3 DEF McpRecords, Resting
<1> QED BY <1>2, <1>3

LEMMA McpStarts == McpInit => McpInvariant
  BY McpAssumption
  DEF McpInit, McpInvariant, McpShape, LocksAreHeld, SessionsAreNumbered,
      OwnersAreFollowed,
      PassagesAreKnown, PhasesAreKept, ShutStaysShut, Shut, SettledOwners, Sits, Srv,
         Resting, OwnerStates, Places, Ops

LEMMA OwnerKeeps ==
  ASSUME McpInvariant, NEW s \in Servers, OwnerStep(s) \/ CatalogChanges(s)
  PROVE  McpInvariant'
<1> USE McpAssumption DEF McpInvariant, linkVars, managerVars, Sits, Srv
<1>1. CASE OwnerReady(s)
  <2>1. McpShape' BY <1>1 DEF OwnerReady, McpShape, OwnerStates
  <2>2. LocksAreHeld' BY <1>1 DEF OwnerReady, LocksAreHeld
  <2>3. SessionsAreNumbered'
    BY <1>1 DEF OwnerReady, SessionsAreNumbered, McpShape, SameCatalog
  <2>4. OwnersAreFollowed'
    BY <1>1 DEF OwnerReady, OwnersAreFollowed, McpShape, OwnerSeenAt, SettledOwners
  <2>5. PassagesAreKnown'
    BY <1>1 DEF OwnerReady, PassagesAreKnown, McpShape, SessionsAreNumbered
  <2>6. PhasesAreKept'
    <3>1. \A q \in Servers : agreed[q] # 0 => agreed'[q] = agreed[q]
      BY <1>1 DEF OwnerReady, McpShape, SameCatalog
    <3>2. \A t \in Threads : thread[t].op = "call" => Srv(t) \in Servers /\ agreed[Srv(t)] # 0
      BY ZenonT(60) DEF PhasesAreKept, McpShape
    <3> QED
      <4>1. UNCHANGED <<thread, tools, phase, toVisit>> BY <1>1 DEF OwnerReady
      <4>2. \A q \in tools : q[1] \in Servers BY DEF McpShape
      <4> QED BY <3>1, <3>2, <4>1, <4>2 DEF PhasesAreKept
  <2>7. ShutStaysShut' BY <1>1 DEF OwnerReady, ShutStaysShut, Shut, McpShape
  <2> QED BY <2>1, <2>2, <2>3, <2>4, <2>5, <2>6, <2>7
<1>2. CASE OwnerEnds(s)
  <2>1. McpShape' BY <1>2 DEF OwnerEnds, McpShape, OwnerStates
  <2>2. LocksAreHeld' BY <1>2 DEF OwnerEnds, LocksAreHeld
  <2>3. SessionsAreNumbered'
    BY <1>2 DEF OwnerEnds, SessionsAreNumbered, McpShape
  <2>4. OwnersAreFollowed'
    BY <1>2 DEF OwnerEnds, OwnersAreFollowed, McpShape, OwnerSeenAt, SettledOwners
  <2>5. PassagesAreKnown' BY <1>2 DEF OwnerEnds, PassagesAreKnown, McpShape
  <2>6. PhasesAreKept' BY <1>2 DEF OwnerEnds, PhasesAreKept, McpShape
  <2>7. ShutStaysShut' BY <1>2 DEF OwnerEnds, ShutStaysShut, Shut, McpShape
  <2> QED BY <2>1, <2>2, <2>3, <2>4, <2>5, <2>6, <2>7
<1>3. CASE CatalogChanges(s) BY <1>3
     DEF CatalogChanges, McpShape, LocksAreHeld, SessionsAreNumbered, OwnersAreFollowed,
              PassagesAreKnown, PhasesAreKept, ShutStaysShut, Shut
<1> QED BY <1>1, <1>2, <1>3 DEF OwnerStep

\* Whoever holds the lock of client s moves to place p, and what it does to the
\* owner and to the session fits its new place.
MovesHolding(t, s, p) ==
  /\ Srv(t) = s /\ thread[t].at \notin {"rest", "lock", "release"}
  /\ p \in Places \ {"rest", "lock"}
  /\ Move(t, p) \/ thread' = [thread EXCEPT ![t].at = p, ![t].ok = FALSE]
  /\ UNCHANGED <<mcpLock, links, agreed, offered, toVisit, tools, phase>>
  /\ owner' \in [Servers -> OwnerStates] /\ link' \in [Servers -> Nat]
  /\ suspect' \in [Servers -> SUBSET Nat]
  /\ \A q \in Servers \ {s} :
       owner'[q] = owner[q] /\ link'[q] = link[q] /\ suspect'[q] = suspect[q]

FitsPlace(t, s, p) ==
  /\ owner'[s] \in OwnerSeenAt(p) /\ link'[s] \in {0, link[s]}
  /\ owner'[s] = "ready" => link'[s] # 0
  /\ link'[s] # 0 => owner'[s] \in {"ready", "stopping"}
  /\ suspect'[s] \subseteq 1..links[s]
  /\ link'[s] # 0 /\ links[s] \in suspect'[s] => p \in {"close", "closing"}
  /\ p \in {"connect", "await", "connected", "reopen"} => thread[t].op \in {"list",
     "call"}
  /\ p = "calling" => thread[t].op = "call"
  /\ p \in {"connected", "calling"} => links[s] # 0
  /\ thread[t].op = "list" /\ p \in {"close", "closing", "release"} =>
       links[s] # 0 \/ ~thread'[t].ok
  /\ p = "release" /\ thread[t].op = "shut" => owner'[s] = "none"

(* Such a move keeps the invariant. *)
LEMMA HolderMoves ==
  ASSUME McpInvariant, NEW t \in Threads, NEW s, NEW p,
         MovesHolding(t, s, p), FitsPlace(t, s, p)
  PROVE  McpInvariant'
<1> USE DEF MovesHolding, FitsPlace
<1>1. /\ thread' \in [Threads -> McpRecords]
      /\ thread'[t].at = p
      /\ Srv(t)' = s /\ thread'[t].op = thread[t].op
      /\ thread'[t].stop = thread[t].stop /\ (thread'[t].ok => thread[t].ok)
      /\ \A u \in Threads \ {t} : thread'[u] = thread[u]
      /\ thread'[t] # Resting
  BY ThreadMoves DEF McpInvariant, Sits, Srv
<1>2. s \in Servers /\ thread[t].op # "none"
  BY DEF McpInvariant, McpShape, Sits, Srv
<1>3. mcpLock[s] = t BY DEF McpInvariant, LocksAreHeld
<1>4. \A u \in Threads \ {t} : Srv(u) = s => thread[u].at = "lock"
  BY <1>2, <1>3 DEF McpInvariant, McpShape, LocksAreHeld, Sits
<1>5. McpShape' BY <1>1, <1>2 DEF McpInvariant, McpShape, McpRecords, Sits, Srv
<1>6. LocksAreHeld'
  <2>1. ASSUME NEW u \in Threads, thread'[u].at \notin {"rest", "lock"}
        PROVE  mcpLock'[Srv(u)'] = u
    BY <1>1, <1>3, <2>1 DEF McpInvariant, LocksAreHeld, Srv
  <2>2. ASSUME NEW q \in Servers, mcpLock'[q] # noServer
        PROVE  Srv(mcpLock[q])' = q /\ thread'[mcpLock'[q]].at \notin {"rest", "lock"}
    <3>1. mcpLock[q] \in Threads /\ Srv(mcpLock[q]) = q
      BY <2>2 DEF McpInvariant, McpShape, LocksAreHeld
    <3>2. CASE mcpLock[q] = t BY <1>1, <3>1, <3>2 DEF Srv
    <3>3. CASE mcpLock[q] # t
      BY <1>1, <2>2, <3>1, <3>3 DEF McpInvariant, LocksAreHeld, Srv
    <3> QED BY <3>2, <3>3
  <2> QED BY <2>1, <2>2 DEF LocksAreHeld
<1>7. SessionsAreNumbered' BY <1>2 DEF McpInvariant, SessionsAreNumbered
<1>8. OwnersAreFollowed'
  <2>1. ASSUME NEW u \in Threads, thread'[u].at \notin {"rest", "lock"}
        PROVE  owner'[Srv(u)'] \in OwnerSeenAt(thread'[u].at)
    <3>1. CASE u = t BY <1>1, <3>1
    <3>2. CASE u # t
      BY <1>1, <1>4, <2>1, <3>2 DEF McpInvariant, McpShape, Sits, Srv, OwnersAreFollowed
    <3> QED BY <3>1, <3>2
  <2>2. ASSUME NEW q \in Servers, mcpLock'[q] = noServer PROVE owner'[q] \in SettledOwners
    BY <1>3, <2>2, McpAssumption DEF McpInvariant, OwnersAreFollowed
  <2> QED BY <2>1, <2>2 DEF OwnersAreFollowed
<1>9. PassagesAreKnown'
  <2>1. ASSUME NEW u \in Threads
        PROVE  /\ thread'[u].at \in {"connect", "await", "connected", "reopen"} =>
                    thread'[u].op \in {"list", "call"}
               /\ thread'[u].at = "calling" => thread'[u].op = "call"
               /\ thread'[u].at \in {"connected", "calling"} => links'[Srv(u)'] # 0
               /\ thread'[u].op = "list" /\ thread'[u].ok
                    /\ thread'[u].at \in {"close", "closing",
                       "release"} => links'[Srv(u)'] # 0
    <3>1. CASE u = t BY <1>1, <3>1
    <3>2. CASE u # t BY <1>1, <3>2 DEF McpInvariant, PassagesAreKnown, Sits, Srv
    <3> QED BY <3>1, <3>2
  <2>2. ASSUME NEW q \in Servers, link'[q] # 0, links'[q] \in suspect'[q]
        PROVE  mcpLock'[q] # noServer /\ thread'[mcpLock'[q]].at \in {"close", "closing"}
    <3>1. CASE q = s BY <1>1, <1>3, <2>2, <3>1, McpAssumption
    <3>2. CASE q # s
      BY <2>2, <3>2, <1>1 DEF McpInvariant, PassagesAreKnown, McpShape, LocksAreHeld
    <3> QED BY <3>1, <3>2
  <2> QED BY <2>1, <2>2 DEF PassagesAreKnown, Sits
<1>10. PhasesAreKept'
  <2>1. ASSUME NEW u \in Threads
        PROVE  /\ thread'[u].op = thread[u].op /\ Srv(u)' = Srv(u)
               /\ thread'[u].stop = thread[u].stop
    BY <1>1 DEF Srv
  <2>2. thread[host] = Resting => thread'[host] = thread[host]
    BY <1>1, McpAssumption DEF Resting
  <2> QED BY <2>1, <2>2 DEF McpInvariant, PhasesAreKept
<1>11. ShutStaysShut'
  <2> SUFFICES ASSUME NEW q \in Servers, Shut(q)'
               PROVE  /\ owner'[q] = "none"
                      /\ \A u \in Threads \ {host} :
                           Srv(u)' = q => thread'[u].at \in {"lock", "release"}
    BY DEF ShutStaysShut
  <2>1. Srv(host)' = Srv(host) BY <1>1, McpAssumption DEF Srv
  <2>2. CASE q = s /\ t = host
    <3>1. p = "release" /\ phase # "new" /\ phase # "serving"
      BY <1>1, <2>1, <2>2 DEF Shut, Sits
    <3>2. thread[t].op = "shut"
      BY <1>2, <2>2, <3>1 DEF McpInvariant, McpShape, PhasesAreKept, Ops
    <3> QED BY <1>1, <1>4, <2>2, <3>1, <3>2 DEF Srv
  <2>3. CASE q = s /\ t # host
    BY <1>1, <2>1, <2>3, McpAssumption DEF Shut, Sits, McpInvariant, ShutStaysShut, Srv
  <2>4. CASE q # s
    BY <1>1, <2>1, <2>4, McpAssumption DEF Shut, Sits, McpInvariant, ShutStaysShut, Srv
  <2> QED BY <2>2, <2>3, <2>4
<1> QED BY <1>5, <1>6, <1>7, <1>8, <1>9, <1>10, <1>11 DEF McpInvariant
LEMMA ConnectKeeps ==
  ASSUME McpInvariant, NEW t \in Threads, Connect(t) PROVE McpInvariant'
<1> USE DEF linkVars, managerVars
<1>1. /\ Sits(t, "connect") /\ Srv(t) \in Servers /\ owner[Srv(t)] \in SettledOwners
      /\ thread[t].op \in {"list", "call"}
      /\ UNCHANGED <<mcpLock, link, agreed, links, offered, suspect, managerVars>>
  BY DEF Connect, McpInvariant, McpShape, OwnersAreFollowed, OwnerSeenAt, PassagesAreKnown,
         Sits, Srv
<1>2. CASE Connected(Srv(t))
  <2>1. MovesHolding(t, Srv(t), "connected") BY <1>1, <1>2
       DEF MovesHolding, McpInvariant, McpShape, Places, OwnerStates, Sits, Connect,
           Connected
  <2>2. FitsPlace(t, Srv(t), "connected")
    BY <1>1, <1>2 DEF FitsPlace, McpInvariant, McpShape, SessionsAreNumbered,
       PassagesAreKnown, LocksAreHeld, OwnerSeenAt, SettledOwners, Sits, Connect, Connected
  <2> QED BY <2>1, <2>2, HolderMoves
<1>3. CASE ~Connected(Srv(t)) /\ owner[Srv(t)] # "none"
  <2>1. MovesHolding(t, Srv(t), "reopen") BY <1>1, <1>3
       DEF MovesHolding, McpInvariant, McpShape, Places, OwnerStates, Sits, Connect,
           Connected
  <2>2. FitsPlace(t, Srv(t), "reopen")
    BY <1>1, <1>3 DEF FitsPlace, McpInvariant, McpShape, SessionsAreNumbered,
       PassagesAreKnown, LocksAreHeld, OwnerSeenAt, SettledOwners, Sits, Connect, Connected
  <2> QED BY <2>1, <2>2, HolderMoves
<1>4. CASE ~Connected(Srv(t)) /\ owner[Srv(t)] = "none"
  <2>1. MovesHolding(t, Srv(t), "await") BY <1>1, <1>4
       DEF MovesHolding, McpInvariant, McpShape, Places, OwnerStates, Sits, Connect,
           Connected
  <2>2. FitsPlace(t, Srv(t), "await")
    BY <1>1, <1>4 DEF FitsPlace, McpInvariant, McpShape, SessionsAreNumbered,
       PassagesAreKnown, LocksAreHeld, OwnerSeenAt, SettledOwners, Sits, Connect, Connected
  <2> QED BY <2>1, <2>2, HolderMoves
<1> QED BY <1>2, <1>3, <1>4

LEMMA AwaitOwnerKeeps ==
  ASSUME McpInvariant, NEW t \in Threads, AwaitOwner(t) PROVE McpInvariant'
<1> USE DEF linkVars, managerVars
<1>1. /\ Sits(t, "await") /\ Srv(t) \in Servers
      /\ owner[Srv(t)] \in {"opening", "ready", "done"} /\ thread[t].op \in {"list",
         "call"}
      /\ UNCHANGED <<mcpLock, linkVars, offered, suspect, managerVars>>
  BY DEF AwaitOwner, McpInvariant, McpShape, OwnersAreFollowed, OwnerSeenAt,
       PassagesAreKnown,
         Sits, Srv
<1>2. CASE owner[Srv(t)] = "ready" /\ Move(t, "connected")
  <2>1. MovesHolding(t, Srv(t), "connected")
    BY <1>1, <1>2 DEF MovesHolding, McpInvariant, McpShape, Places, OwnerStates, Sits
  <2>2. FitsPlace(t, Srv(t), "connected")
    BY <1>1, <1>2 DEF FitsPlace, McpInvariant, McpShape, SessionsAreNumbered,
       PassagesAreKnown, LocksAreHeld, OwnerSeenAt, SettledOwners, Sits
  <2> QED BY <2>1, <2>2, HolderMoves
<1>3. CASE thread' = [thread EXCEPT ![t].at = "close", ![t].ok = FALSE]
  <2>1. MovesHolding(t, Srv(t), "close")
    BY <1>1, <1>3 DEF MovesHolding, McpInvariant, McpShape, Places, OwnerStates, Sits
  <2>2. FitsPlace(t, Srv(t), "close")
    BY <1>1, <1>3 DEF FitsPlace, McpInvariant, McpShape, SessionsAreNumbered,
       PassagesAreKnown, LocksAreHeld, OwnerSeenAt, SettledOwners, Sits
  <2> QED BY <2>1, <2>2, HolderMoves
<1> QED BY <1>2, <1>3 DEF AwaitOwner

LEMMA ProceedKeeps ==
  ASSUME McpInvariant, NEW t \in Threads, Proceed(t) PROVE McpInvariant'
<1> USE DEF linkVars, managerVars
<1>1. /\ Sits(t, "connected") /\ Srv(t) \in Servers
      /\ owner[Srv(t)] \in {"ready", "done"} /\ thread[t].op \in {"list", "call"}
      /\ links[Srv(t)] # 0
      /\ link[Srv(t)] # 0 => links[Srv(t)] \notin suspect[Srv(t)]
      /\ UNCHANGED <<mcpLock, linkVars, offered, suspect, managerVars>>
  BY DEF Proceed, McpInvariant, McpShape, OwnersAreFollowed, OwnerSeenAt, PassagesAreKnown,
         LocksAreHeld, Sits, Srv
<1>2. CASE Move(t, "close")
  <2>1. MovesHolding(t, Srv(t), "close")
    BY <1>1, <1>2 DEF MovesHolding, McpInvariant, McpShape, Places, OwnerStates, Sits
  <2>2. FitsPlace(t, Srv(t), "close")
    BY <1>1, <1>2 DEF FitsPlace, McpInvariant, McpShape, SessionsAreNumbered,
       PassagesAreKnown, LocksAreHeld, OwnerSeenAt, SettledOwners, Sits
  <2> QED BY <2>1, <2>2, HolderMoves
<1>3. CASE thread' = [thread EXCEPT ![t].at = "close", ![t].ok = FALSE]
  <2>1. MovesHolding(t, Srv(t), "close")
    BY <1>1, <1>3 DEF MovesHolding, McpInvariant, McpShape, Places, OwnerStates, Sits
  <2>2. FitsPlace(t, Srv(t), "close")
    BY <1>1, <1>3 DEF FitsPlace, McpInvariant, McpShape, SessionsAreNumbered,
       PassagesAreKnown, LocksAreHeld, OwnerSeenAt, SettledOwners, Sits
  <2> QED BY <2>1, <2>2, HolderMoves
<1>4. CASE Move(t, "calling") /\ thread[t].op # "list"
  <2>1. MovesHolding(t, Srv(t), "calling")
    BY <1>1, <1>4 DEF MovesHolding, McpInvariant, McpShape, Places, OwnerStates, Sits
  <2>2. FitsPlace(t, Srv(t), "calling")
    BY <1>1, <1>4 DEF FitsPlace, McpInvariant, McpShape, SessionsAreNumbered,
       PassagesAreKnown, LocksAreHeld, OwnerSeenAt, SettledOwners, Sits
  <2> QED BY <2>1, <2>2, HolderMoves
<1> QED BY <1>2, <1>3, <1>4 DEF Proceed

LEMMA CallingKeeps ==
  ASSUME McpInvariant, NEW t \in Threads, Answer(t) \/ Abandon(t) PROVE McpInvariant'
<1> USE DEF linkVars, managerVars
<1>1. /\ Sits(t, "calling") /\ Srv(t) \in Servers
      /\ owner[Srv(t)] \in {"ready", "done"} /\ thread[t].op = "call"
      /\ links[Srv(t)] # 0 /\ links[Srv(t)] \in Nat
      /\ link[Srv(t)] # 0 => links[Srv(t)] \notin suspect[Srv(t)]
      /\ UNCHANGED <<mcpLock, linkVars, offered, managerVars>>
  BY DEF Answer, Abandon, McpInvariant, McpShape, OwnersAreFollowed, OwnerSeenAt,
         PassagesAreKnown, LocksAreHeld, Sits, Srv
<1>2. CASE Answer(t)
  <2>1. MovesHolding(t, Srv(t), "release") BY <1>1, <1>2
       DEF MovesHolding, McpInvariant, McpShape, Places, OwnerStates, Sits, Answer
  <2>2. FitsPlace(t, Srv(t), "release")
    BY <1>1, <1>2 DEF FitsPlace, McpInvariant, McpShape, SessionsAreNumbered,
       PassagesAreKnown, LocksAreHeld, OwnerSeenAt, SettledOwners, Sits, Answer
  <2> QED BY <2>1, <2>2, HolderMoves
<1>3. CASE Abandon(t)
  <2>1. MovesHolding(t, Srv(t), "close") BY <1>1, <1>3
       DEF MovesHolding, McpInvariant, McpShape, Places, OwnerStates, Sits, Abandon,
           Suspected, AfterUncertain
  <2>2. FitsPlace(t, Srv(t), "close")
    BY <1>1, <1>3 DEF FitsPlace, McpInvariant, McpShape, SessionsAreNumbered,
       PassagesAreKnown, LocksAreHeld, OwnerSeenAt, SettledOwners, Sits, Abandon, Suspected,
          AfterUncertain
  <2> QED BY <2>1, <2>2, HolderMoves
<1> QED BY <1>2, <1>3

LEMMA CloseSessionKeeps ==
  ASSUME McpInvariant, NEW t \in Threads, CloseSession(t) PROVE McpInvariant'
<1> USE DEF linkVars, managerVars
<1>1. /\ Sits(t, "close") /\ Srv(t) \in Servers
      /\ owner' = [owner EXCEPT ![Srv(t)] = "stopping"]
      /\ Move(t, "closing")
      /\ UNCHANGED <<mcpLock, link, agreed, links, offered, suspect, managerVars>>
  BY DEF CloseSession, ToldToStop, McpInvariant, McpShape, Sits, Srv
<1>3. MovesHolding(t, Srv(t), "closing")
  BY <1>1 DEF MovesHolding, McpInvariant, McpShape, Places, OwnerStates, Sits
<1>4. FitsPlace(t, Srv(t), "closing")
  BY <1>1 DEF Move, FitsPlace, McpInvariant, McpShape, SessionsAreNumbered,
       PassagesAreKnown, LocksAreHeld, OwnerSeenAt, SettledOwners, Sits
<1> QED BY <1>3, <1>4, HolderMoves

LEMMA SessionClosedKeeps ==
  ASSUME McpInvariant, NEW t \in Threads, SessionClosed(t) PROVE McpInvariant'
<1> USE DEF linkVars, managerVars
<1>1. /\ thread[t].at \in {"close", "closing", "reopen"} /\ Srv(t) \in Servers
      /\ owner' = [owner EXCEPT ![Srv(t)] = "none"]
      /\ link' = [link EXCEPT ![Srv(t)] = 0]
      /\ thread[t].op = "list" /\ thread[t].ok /\ ~Sits(t, "reopen") => links[Srv(t)] # 0
      /\ Sits(t, "reopen") => thread[t].op \in {"list", "call"}
      /\ UNCHANGED <<mcpLock, agreed, links, offered, suspect, managerVars>>
  BY DEF SessionClosed, McpInvariant, McpShape, PassagesAreKnown, Sits, Srv
<1>2. CASE Sits(t, "reopen") /\ Move(t, "connect")
  <2>1. MovesHolding(t, Srv(t), "connect")
    BY <1>1, <1>2 DEF MovesHolding, McpInvariant, McpShape, Places, OwnerStates, Sits
  <2>2. FitsPlace(t, Srv(t), "connect")
    BY <1>1, <1>2 DEF FitsPlace, McpInvariant, McpShape, SessionsAreNumbered,
       PassagesAreKnown, LocksAreHeld, OwnerSeenAt, SettledOwners, Sits
  <2> QED BY <2>1, <2>2, HolderMoves
<1>3. CASE ~Sits(t, "reopen") /\ Move(t, "release")
  <2>1. MovesHolding(t, Srv(t), "release") BY <1>1, <1>3
       DEF MovesHolding, McpInvariant, McpShape, Places, OwnerStates, Sits, Move
  <2>2. FitsPlace(t, Srv(t), "release")
    BY <1>1, <1>3 DEF FitsPlace, McpInvariant, McpShape, SessionsAreNumbered,
       PassagesAreKnown, LocksAreHeld, OwnerSeenAt, SettledOwners, Sits, Move
  <2> QED BY <2>1, <2>2, HolderMoves
<1>4. CASE thread' = [thread EXCEPT ![t].at = "release", ![t].ok = FALSE]
  <2>1. MovesHolding(t, Srv(t), "release")
    BY <1>1, <1>4 DEF MovesHolding, McpInvariant, McpShape, Places, OwnerStates, Sits
  <2>2. FitsPlace(t, Srv(t), "release")
    BY <1>1, <1>4 DEF FitsPlace, McpInvariant, McpShape, SessionsAreNumbered,
       PassagesAreKnown, LocksAreHeld, OwnerSeenAt, SettledOwners, Sits
  <2> QED BY <2>1, <2>2, HolderMoves
<1> QED BY <1>2, <1>3, <1>4 DEF SessionClosed
LEMMA AcquireKeeps ==
  ASSUME McpInvariant, NEW t \in Threads, Acquire(t) PROVE McpInvariant'
<1> DEFINE s == Srv(t)
<1>1. /\ Sits(t, "lock") /\ s \in Servers /\ mcpLock[s] = noServer
      /\ mcpLock' = [mcpLock EXCEPT ![s] = t]
      /\ owner[s] \in SettledOwners /\ (link[s] # 0 => links[s] \notin suspect[s])
      /\ UNCHANGED <<linkVars, offered, suspect, managerVars>>
  BY DEF Acquire, McpInvariant, McpShape, OwnersAreFollowed, PassagesAreKnown, Sits, Srv
<1>2. PICK p \in {"close", "release", "connect"} :
         /\ Move(t, p)
         /\ p = "close" => thread[t].op = "shut"
         /\ p = "release" => thread[t].op = "call" /\ thread[t].stop
         /\ p = "connect" => thread[t].op \in {"list", "call"}
                             /\ (thread[t].op = "call" => ~thread[t].stop)
  <2>1. thread[t].op \in {"list", "call", "shut"}
    BY <1>1 DEF McpInvariant, McpShape, Ops, Sits
  <2>2. CASE thread[t].op = "shut" BY <2>2 DEF Acquire
  <2>3. CASE thread[t].op = "call" /\ thread[t].stop BY <2>3 DEF Acquire
  <2>4. CASE thread[t].op # "shut" /\ ~(thread[t].op = "call" /\ thread[t].stop)
    BY <2>1, <2>4 DEF Acquire
  <2> QED BY <2>2, <2>3, <2>4
<1>3. /\ thread' \in [Threads -> McpRecords]
      /\ thread'[t].at = p
      /\ Srv(t)' = s /\ thread'[t].op = thread[t].op
      /\ thread'[t].stop = thread[t].stop
      /\ \A u \in Threads \ {t} : thread'[u] = thread[u]
      /\ thread'[t] # Resting
  BY <1>1, <1>2, ThreadMoves DEF McpInvariant, Sits, Srv, Places
<1>4. McpShape' BY <1>1, <1>2, <1>3
     DEF McpInvariant, McpShape, McpRecords, Sits, Srv, linkVars, managerVars
<1>5. LocksAreHeld'
  <2>1. ASSUME NEW u \in Threads, thread'[u].at \notin {"rest", "lock"}
        PROVE  mcpLock'[Srv(u)'] = u
    <3>1. CASE u = t BY <1>1, <1>3, <3>1 DEF McpInvariant, McpShape
    <3>2. CASE u # t BY <1>1, <1>3, <2>1, <3>2, McpAssumption
         DEF McpInvariant, McpShape, LocksAreHeld, Sits, Srv
    <3> QED BY <3>1, <3>2
  <2>2. ASSUME NEW q \in Servers, mcpLock'[q] # noServer
        PROVE  Srv(mcpLock[q])' = q /\ thread'[mcpLock'[q]].at \notin {"rest", "lock"}
    <3>1. CASE q = s BY <1>1, <1>2, <1>3, <3>1 DEF McpInvariant, McpShape, Srv
    <3>2. CASE q # s
      BY <1>1, <2>2, <3>2, <1>3 DEF McpInvariant, McpShape, LocksAreHeld, Sits, Srv
    <3> QED BY <3>1, <3>2
  <2> QED BY <2>1, <2>2 DEF LocksAreHeld, Srv
<1>6. SessionsAreNumbered'
  BY <1>1 DEF McpInvariant, SessionsAreNumbered, linkVars
<1>7. OwnersAreFollowed'
  <2>1. owner[s] \in OwnerSeenAt(p) BY <1>1, <1>2 DEF OwnerSeenAt, SettledOwners
  <2>2. \A q \in Servers : mcpLock'[q] = noServer => mcpLock[q] = noServer
    BY <1>1 DEF McpInvariant, McpShape
  <2>3. \A u \in Threads : u # t => Srv(u)' = Srv(u) /\ thread'[u] = thread[u]
    BY <1>3 DEF Srv
  <2> QED
    BY <1>1, <1>3, <2>1, <2>2, <2>3 DEF McpInvariant, OwnersAreFollowed, linkVars
<1>8. PassagesAreKnown'
  <2>1. \A u \in Threads : u # t => Srv(u)' = Srv(u) /\ thread'[u] = thread[u]
    BY <1>3 DEF Srv
  <2>2. ASSUME NEW q \in Servers, link[q] # 0, links[q] \in suspect[q]
        PROVE  mcpLock'[q] # noServer /\ thread'[mcpLock'[q]].at \in {"close", "closing"}
    BY <1>1, <2>2, <2>1 DEF McpInvariant, PassagesAreKnown, McpShape, Sits
  <2> QED
    BY <1>1, <1>2, <1>3, <2>1, <2>2 DEF McpInvariant, PassagesAreKnown, Sits, linkVars
<1>9. PhasesAreKept'
  <2>1. ASSUME NEW u \in Threads
        PROVE  /\ thread'[u].op = thread[u].op /\ Srv(u)' = Srv(u)
               /\ thread'[u].stop = thread[u].stop
    BY <1>3 DEF Srv
  <2>2. thread[host] = Resting => thread'[host] = thread[host]
    BY <1>1, <1>3, McpAssumption DEF Resting, Sits
  <2> QED
    BY <1>1, <2>1, <2>2 DEF McpInvariant, PhasesAreKept, linkVars, managerVars
<1>10. ShutStaysShut'
  <2> SUFFICES ASSUME NEW q \in Servers, Shut(q)'
               PROVE  /\ owner'[q] = "none"
                      /\ \A u \in Threads \ {host} :
                           Srv(u)' = q => thread'[u].at \in {"lock", "release"}
    BY DEF ShutStaysShut
  <2>1. UNCHANGED <<owner, phase, toVisit>> BY <1>1 DEF linkVars, managerVars
  <2>2. Shut(q)
    <3>1. CASE t = host
      BY <1>2, <3>1, <1>3, <2>1 DEF McpInvariant, PhasesAreKept, Shut, Sits, Srv
    <3>2. CASE t # host BY <1>3, <2>1, <3>2, McpAssumption DEF Shut, Sits, Srv
    <3> QED BY <3>1, <3>2
  <2>3. Srv(t) = q /\ t # host => p = "release"
    BY <1>2, <2>2 DEF McpInvariant, PhasesAreKept, Shut
  <2> QED BY <1>3, <2>1, <2>2, <2>3 DEF McpInvariant, ShutStaysShut, Srv
<1> QED BY <1>4, <1>5, <1>6, <1>7, <1>8, <1>9, <1>10 DEF McpInvariant

LEMMA ReleaseLockKeeps ==
  ASSUME McpInvariant, NEW t \in Threads, ReleaseLock(t) PROVE McpInvariant'
<1> DEFINE s == Srv(t)
<1>1. /\ Sits(t, "release") /\ s \in Servers /\ mcpLock[s] = t
      /\ owner[s] \in SettledOwners /\ (link[s] # 0 => links[s] \notin suspect[s])
      /\ UNCHANGED <<linkVars, offered, suspect>>
      /\ mcpLock' = [mcpLock EXCEPT ![s] = noServer]
      /\ thread' = [thread EXCEPT ![t] = Resting]
  BY McpAssumption
     DEF ReleaseLock, McpInvariant, McpShape, OwnersAreFollowed, PassagesAreKnown,
         LocksAreHeld, OwnerSeenAt, Sits, Srv
<1>2. /\ thread'[t] = Resting /\ Srv(t)' = noServer
      /\ \A u \in Threads \ {t} : thread'[u] = thread[u] /\ Srv(u)' = Srv(u)
      /\ mcpLock'[s] = noServer
      /\ \A q \in Servers \ {s} : mcpLock'[q] = mcpLock[q] /\ mcpLock[q] # t
  BY <1>1, McpAssumption DEF McpInvariant, McpShape, LocksAreHeld, Srv, Resting
<1>3. \/ /\ thread[t].op # "list" \/ s \notin Required
         /\ UNCHANGED <<tools, phase, toVisit>>
      \/ /\ thread[t].op = "list" /\ agreed[s] # 0
         /\ tools' = tools \cup {<<s, agreed[s]>>} /\ UNCHANGED <<phase, toVisit>>
      \/ /\ thread[t].op = "list"
         /\ tools' = {} /\ phase' = "closing" /\ toVisit' = Servers
  BY <1>1 DEF McpInvariant, PassagesAreKnown, SessionsAreNumbered, Sits, ReleaseLock,
     Discovered
<1>4. McpShape'
  <2>1. thread' \in [Threads -> McpRecords]
    BY <1>1 DEF McpInvariant, McpShape, McpRecords, Resting, Places, Ops
  <2>2. /\ toVisit' \subseteq Servers /\ tools' \subseteq Servers \X Nat
        /\ phase' \in {"new", "serving", "closing", "closed"}
    BY <1>1, <1>3 DEF McpInvariant, McpShape
  <2>3. ASSUME NEW u \in Threads
        PROVE  /\ thread'[u].at = "rest" <=> thread'[u] = Resting
               /\ thread'[u].at = "rest" <=> thread'[u].srv = noServer
               /\ thread'[u].at = "rest" <=> thread'[u].op = "none"
    <3>1. CASE u = t BY <1>2, <3>1 DEF Resting
    <3>2. CASE u # t BY <1>2, <3>2 DEF McpInvariant, McpShape, Sits, Srv
    <3> QED BY <3>1, <3>2
  <2> QED
    BY <1>1, <2>1, <2>2, <2>3 DEF McpInvariant, McpShape, McpRecords, Sits, Srv, linkVars
<1>5. LocksAreHeld'
  <2>1. ASSUME NEW u \in Threads, thread'[u].at \notin {"rest", "lock"}
        PROVE  mcpLock'[Srv(u)'] = u
    BY <1>2, <2>1, <1>1 DEF Resting, McpInvariant, McpShape, LocksAreHeld, Sits, Srv
  <2>2. ASSUME NEW q \in Servers, mcpLock'[q] # noServer
        PROVE  Srv(mcpLock[q])' = q /\ thread'[mcpLock'[q]].at \notin {"rest", "lock"}
    BY <1>2, <2>2 DEF McpInvariant, McpShape, LocksAreHeld, Srv
  <2> QED BY <2>1, <2>2 DEF LocksAreHeld, Srv
<1>6. SessionsAreNumbered'
  BY <1>1 DEF McpInvariant, SessionsAreNumbered, linkVars
<1>7. OwnersAreFollowed'
  BY <1>2, <1>1 DEF Resting, McpInvariant, OwnersAreFollowed, linkVars
<1>8. PassagesAreKnown'
  <2>1. ASSUME NEW q \in Servers, link[q] # 0, links[q] \in suspect[q]
        PROVE  mcpLock'[q] # noServer /\ thread'[mcpLock'[q]].at \in {"close", "closing"}
    BY <1>1, <2>1, <1>2 DEF McpInvariant, PassagesAreKnown, McpShape
  <2> QED
    BY <1>1, <1>2, <2>1 DEF McpInvariant, PassagesAreKnown, Sits, Resting, linkVars
<1>9. PhasesAreKept' /\ ShutStaysShut'
  <2>1. CASE UNCHANGED <<tools, phase, toVisit>>
    <3>1. PhasesAreKept'
      BY <1>2, <1>1, <2>1, McpAssumption DEF McpInvariant, PhasesAreKept, Resting, linkVars
    <3>2. ASSUME NEW q \in Servers, Shut(q)' PROVE Shut(q)
      BY <1>1, <1>2, <2>1, <3>2, McpAssumption DEF Shut, Sits
    <3>3. \A u \in Threads, q \in Servers : Srv(u)' = q => u # t
      BY <1>2, McpAssumption
    <3>4. ShutStaysShut'
      BY <1>1, <1>2, <3>2, <3>3 DEF McpInvariant, ShutStaysShut, linkVars
    <3> QED BY <3>1, <3>4
  <2>2. CASE thread[t].op = "list" /\ ~UNCHANGED <<tools, phase, toVisit>>
    <3>1. t = host /\ phase = "new" BY <2>2 DEF McpInvariant, PhasesAreKept
    <3>2. \A u \in Threads : thread'[u].op = "none"
      BY <1>2, <3>1 DEF McpInvariant, McpShape, PhasesAreKept, Ops, Resting
    <3>3. \A q \in Servers : ~Shut(q)' BY <1>3, <2>2, <3>1 DEF Shut
    <3>4. \A r \in tools' : agreed'[r[1]] # 0 /\ r[2] = agreed'[r[1]]
      BY <1>1, <1>3, <2>2 DEF McpInvariant, PhasesAreKept, linkVars
    <3>5. phase' # "closed" BY <1>3, <2>2, <3>1
    <3> QED BY <3>2, <3>3, <3>4, <3>5 DEF PhasesAreKept, ShutStaysShut
  <2> QED BY <1>3, <2>1, <2>2
<1> QED BY <1>4, <1>5, <1>6, <1>7, <1>8, <1>9 DEF McpInvariant
LEMMA StopCallKeeps ==
  ASSUME McpInvariant, NEW t \in Threads, StopCall(t) PROVE McpInvariant'
<1>1. /\ thread[t].op = "call" /\ thread[t] # Resting
      /\ thread' = [thread EXCEPT ![t].stop = TRUE]
      /\ UNCHANGED <<mcpLock, linkVars, offered, suspect, managerVars>>
  BY DEF StopCall, Resting
<1>2. /\ thread' \in [Threads -> McpRecords]
      /\ \A u \in Threads : /\ thread'[u].at = thread[u].at /\ Srv(u)' = Srv(u)
                            /\ thread'[u].op = thread[u].op /\ thread'[u].ok = thread[u].ok
                            /\ thread[u].stop => thread'[u].stop
                            /\ u # t => thread'[u] = thread[u]
      /\ thread'[t] # Resting
  BY <1>1 DEF McpInvariant, McpShape, McpRecords, Srv, Resting
<1>3. McpShape'
  BY <1>1, <1>2 DEF McpInvariant, McpShape, McpRecords, Sits, linkVars, managerVars
<1>4. LocksAreHeld' BY <1>1, <1>2 DEF McpInvariant, McpShape, LocksAreHeld, Srv
<1>5. SessionsAreNumbered' /\ OwnersAreFollowed'
  BY <1>1, <1>2 DEF McpInvariant, SessionsAreNumbered, OwnersAreFollowed, linkVars
<1>6. PassagesAreKnown'
  BY <1>1, <1>2 DEF McpInvariant, McpShape, PassagesAreKnown, Sits, linkVars
<1>7. PhasesAreKept'
  BY <1>1, <1>2, McpAssumption DEF McpInvariant, PhasesAreKept, linkVars, managerVars
<1>8. ShutStaysShut' BY <1>1, <1>2, McpAssumption
     DEF McpInvariant, ShutStaysShut, Shut, Sits, linkVars, managerVars
<1> QED BY <1>3, <1>4, <1>5, <1>6, <1>7, <1>8 DEF McpInvariant

(* A thread at rest begins an operation that the phase allows. *)
LEMMA BeginKeeps ==
  ASSUME McpInvariant, NEW t \in Threads, NEW s \in Servers, NEW op \in Ops \ {"none"},
         thread[t] = Resting, BeginOp(t, op, s),
         UNCHANGED <<mcpLock, linkVars, offered, suspect, tools, phase>>,
         toVisit' \subseteq toVisit,
         \A q \in Servers \ {s} : q \in toVisit => q \in toVisit',
         \/ op = "list" /\ t = host /\ phase = "new"
         \/ op = "call" /\ phase = "serving" /\ <<s, agreed[s]>> \in tools
            /\ UNCHANGED toVisit
         \/ op = "shut" /\ t = host /\ phase = "closing" /\ s \notin toVisit'
  PROVE  McpInvariant'
<1>1. /\ thread'[t] = [at |-> "lock", srv |-> s, op |-> op, stop |-> FALSE, ok |-> TRUE]
      /\ thread' \in [Threads -> McpRecords]
      /\ \A u \in Threads \ {t} : thread'[u] = thread[u] /\ Srv(u)' = Srv(u)
      /\ Srv(t)' = s
  BY DEF BeginOp, Resting, McpInvariant, McpShape, McpRecords, Places, Srv
<1>2. Srv(t) = noServer /\ thread[t].at = "rest" BY DEF Resting, Srv
<1>3. \A q \in Servers : mcpLock[q] # noServer => mcpLock[q] \in Threads \ {t}
  BY <1>2 DEF McpInvariant, McpShape, LocksAreHeld
<1>4. McpShape'
  <2>1. ASSUME NEW u \in Threads
        PROVE  /\ thread'[u].at = "rest" <=> thread'[u] = Resting
               /\ thread'[u].at = "rest" <=> thread'[u].srv = noServer
               /\ thread'[u].at = "rest" <=> thread'[u].op = "none"
    <3>1. CASE u = t BY <1>1, <3>1, McpAssumption DEF Resting
    <3>2. CASE u # t BY <1>1, <3>2 DEF McpInvariant, McpShape, Sits, Srv
    <3> QED BY <3>1, <3>2
  <2> QED
    BY <1>1, <2>1 DEF McpInvariant, McpShape, McpRecords, Sits, Srv, linkVars
<1>5. LocksAreHeld' BY <1>1, <1>3 DEF McpInvariant, LocksAreHeld, Srv
<1>6. SessionsAreNumbered' /\ OwnersAreFollowed'
  BY <1>1 DEF McpInvariant, SessionsAreNumbered, OwnersAreFollowed, linkVars
<1>7. PassagesAreKnown'
  BY <1>1, <1>3 DEF McpInvariant, PassagesAreKnown, Sits, linkVars
<1>8. PhasesAreKept'
  BY <1>1, McpAssumption DEF McpInvariant, PhasesAreKept, Resting, linkVars
<1>9. ShutStaysShut'
  <2> SUFFICES ASSUME NEW q \in Servers, Shut(q)'
               PROVE  /\ owner'[q] = "none"
                      /\ \A u \in Threads \ {host} :
                           Srv(u)' = q => thread'[u].at \in {"lock", "release"}
    BY DEF ShutStaysShut
  <2>1. t = host /\ q # s /\ Shut(q) BY <1>1, <1>2, McpAssumption DEF Shut, Sits
  <2> QED BY <1>1, <2>1 DEF McpInvariant, ShutStaysShut, linkVars
<1> QED BY <1>4, <1>5, <1>6, <1>7, <1>8, <1>9 DEF McpInvariant

LEMMA ManagerKeeps ==
  ASSUME McpInvariant,
         ManagerStep \/ ShutDown \/ \E t \in Threads, s \in Servers : CallTool(t, s)
  PROVE  McpInvariant'
<1> USE McpAssumption
<1>1. CASE Visit
  <2>1. PICK s \in toVisit : BeginOp(host, "list", s) /\ toVisit' = toVisit \ {s}
    BY <1>1 DEF Visit
  <2> QED BY <1>1, <2>1, BeginKeeps DEF Visit, Ops, McpInvariant, McpShape
<1>2. ASSUME NEW t \in Threads, NEW s \in Servers, CallTool(t, s) PROVE McpInvariant'
  BY <1>2, BeginKeeps DEF CallTool, McpInvariant, PhasesAreKept, Ops
<1>3. ASSUME NEW s \in toVisit, CloseNext, BeginOp(host, "shut", s),
   toVisit' = toVisit \ {s},
             UNCHANGED phase
      PROVE  McpInvariant'
  BY <1>3, BeginKeeps DEF CloseNext, Ops, McpInvariant, McpShape
\* The steps that move nobody: what is shut then was shut before, or nothing is.
<1>4. ASSUME UNCHANGED <<thread, mcpLock, linkVars, offered, suspect, tools>>,
             \/ Serve \/ ShutDown
             \/ phase = "closing" /\ phase' = "closed" /\ toVisit = {} /\ UNCHANGED toVisit
                /\ thread[host] = Resting
      PROVE  McpInvariant'
  <2> USE <1>4
  <2>1. McpShape' /\ LocksAreHeld' /\ SessionsAreNumbered' /\ OwnersAreFollowed'
          /\ PassagesAreKnown'
    BY DEF McpInvariant, McpShape, LocksAreHeld, SessionsAreNumbered, OwnersAreFollowed,
           PassagesAreKnown, Sits, Srv, linkVars, Serve, ShutDown
  <2>2. thread[host].op = "none" /\ Srv(host) = noServer
    BY DEF Resting, Srv, Serve, ShutDown
  <2>3. PhasesAreKept'
    BY <2>2 DEF McpInvariant, PhasesAreKept, Serve, ShutDown, linkVars, Srv, Resting
  <2>4. ASSUME NEW q \in Servers, Shut(q)' PROVE Shut(q)
    BY <2>2, <2>4 DEF Shut, Serve, ShutDown
  <2>5. ShutStaysShut' BY <2>4 DEF McpInvariant, ShutStaysShut, linkVars, Srv
  <2> QED BY <2>1, <2>3, <2>5 DEF McpInvariant
<1>5. CASE Serve \/ ShutDown BY <1>4, <1>5 DEF Serve, ShutDown
<1>6. CASE CloseNext /\ toVisit = {} BY <1>4, <1>6 DEF CloseNext
<1> QED BY <1>1, <1>2, <1>3, <1>5, <1>6 DEF ManagerStep, CloseNext

LEMMA McpInvariantIsInductive ==
  McpInvariant /\ [McpNext]_mcpVars => McpInvariant'
<1> SUFFICES ASSUME McpInvariant, [McpNext]_mcpVars PROVE McpInvariant' OBVIOUS
<1>1. CASE UNCHANGED mcpVars
  BY <1>1 DEF mcpVars, McpInvariant, McpShape, LocksAreHeld, SessionsAreNumbered,
     OwnersAreFollowed, PassagesAreKnown, PhasesAreKept, ShutStaysShut, Shut, Sits, Srv
<1>2. ASSUME NEW t \in Threads, OwnStep(t) \/ Answer(t) \/ Abandon(t) \/ StopCall(t)
      PROVE  McpInvariant'
  BY <1>2, AcquireKeeps, ConnectKeeps, AwaitOwnerKeeps, ProceedKeeps, CallingKeeps,
     CloseSessionKeeps, SessionClosedKeeps, ReleaseLockKeeps, StopCallKeeps
     DEF OwnStep
<1>3. ASSUME NEW s \in Servers, OwnerStep(s) \/ CatalogChanges(s) PROVE McpInvariant'
  BY <1>3, OwnerKeeps
<1>4. CASE ManagerStep \/ ShutDown \/ \E t \in Threads, s \in Servers : CallTool(t, s)
  BY <1>4, ManagerKeeps
<1> QED BY <1>1, <1>2, <1>3, <1>4 DEF McpNext

(* Whichever thread opened a session and however it broke, a call is sent only *)
(* by the thread that holds the client's lock, in a session that offers the    *)
(* tools the agent registered and in which no call was given up; a client that *)
(* nobody uses is settled; and after the shutdown no owner task is left        *)
(* (SDKMCPClient and MCPManager).                                              *)
THEOREM SessionsHaveOneOwner ==
  McpInit /\ [][McpNext]_mcpVars => []SessionsAreOwned
<1>1. ASSUME McpInvariant PROVE SessionsAreOwned
  <2> USE <1>1 DEF McpInvariant
  <2>1. McpTypes
    BY DEF McpShape, McpTypes, SessionsAreNumbered, OwnerStates, Srv
  <2>2. \A t \in Threads : Srv(t) # noServer /\ ~Sits(t, "lock") => mcpLock[Srv(t)] = t
    BY DEF McpShape, LocksAreHeld, Sits
  <2>3. ASSUME NEW t \in Threads, Sits(t, "calling"), link[Srv(t)] # 0
        PROVE  <<Srv(t), agreed[Srv(t)]>> \in tools /\ link[Srv(t)] \notin suspect[Srv(t)]
    BY <2>3 DEF LocksAreHeld, McpShape, PassagesAreKnown, Sits, Srv, PhasesAreKept,
       SessionsAreNumbered
  <2>4. ASSUME NEW s \in Servers, mcpLock[s] = noServer
        PROVE  owner[s] \in {"none", "ready", "done"} /\ link[s] \notin suspect[s]
    BY <2>4
       DEF OwnersAreFollowed, PassagesAreKnown, SessionsAreNumbered, SettledOwners, McpShape
  <2>5. ASSUME phase = "closed", NEW s \in Servers PROVE owner[s] = "none"
    BY <2>5, McpAssumption DEF PhasesAreKept, Shut, Resting, Srv, ShutStaysShut
  <2> QED BY <2>1, <2>2, <2>3, <2>4, <2>5 DEF SessionsAreOwned
<1> QED BY <1>1, McpStarts, McpInvariantIsInductive, PTL

-----------------------------------------------------------------------------
(* AgentLifetime                                                           *)

AllNotes == {NoteOf[c] : c \in Callers} \cup {theirs}

LifeShape ==
  /\ asking \in [Callers -> OnTurn \cup {"rest", "start", "failed", "started", "queued"}]
  /\ ended \in [Callers -> {"completed", "unanswered"}]
  /\ stray \in [start : Nat, stop : Nat] /\ mishaps \subseteq {"left up", "stopped under another"}
  /\ flagged \in BOOLEAN /\ backendUp \in BOOLEAN /\ crossed \in BOOLEAN /\ watching \in BOOLEAN
  /\ lane \in {"none", "open", "draining"}
  /\ closing \in {"rest", "drain", "stop", "stopped", "rest of it"}

\* One turn runs at a time and in a scheduler, and what is said of an ask that
\* has ended is kept until the caller asks again.
TurnsAreAlone ==
  /\ \A c, d \in Callers : asking[c] \in OnTurn /\ asking[d] \in OnTurn => c = d
  /\ \A c \in Callers : asking[c] \in OnTurn \cup {"queued"} => lane # "none"
  /\ \A c \in Callers : ended[c] = "completed" /\ asking[c] = AtRest => c \in turnSaved

MemoriesAreKept ==
  /\ memories \in Seq(AllNotes) /\ IsInjective(memories)
  /\ Len(memories) <= MaxRecords

\* What is up without the flag is about to be flagged or stopped, and whoever
\* relies on the backend has it, unless it was stopped under them.
BackendIsKnown ==
  /\ FlagIsTrue
  /\ \A c \in Callers : asking[c] = "started" /\ ~backendUp =>
       "stopped under another" \in mishaps

\* How far a close that nobody's ask came across has got, from the drain of the
\* scheduler to the stop of the backend.
UncrossedClose ==
  ~crossed =>
    /\ closing # "rest" =>
         /\ \A c \in Callers : asking[c] \notin {"start", "started", "failed"}
         /\ lane \in {"none", "draining"}
    /\ closing \in {"stop", "stopped", "rest of it"} =>
         lane = "none" /\ \A c \in Callers : asking[c] = "rest"

LifeInvariant ==
  LifeShape /\ TurnsAreAlone /\ MemoriesAreKept /\ BackendIsKnown /\ UncrossedClose

LEMMA NothingIsKept ==
  <<>> \in Seq(AllNotes) /\ Len(<<>>) <= MaxRecords /\ IsInjective(<<>>)
  BY EmptyElements, LifetimeAssumption

LEMMA LifeStarts == LifeInit => LifeInvariant
<1> SUFFICES ASSUME LifeInit PROVE LifeInvariant OBVIOUS
<1>1. MemoriesAreKept BY NothingIsKept DEF LifeInit, MemoriesAreKept
<1>2. BackendIsKnown BY DEF LifeInit, BackendIsKnown, FlagIsTrue, AtRest
<1> QED BY <1>1, <1>2
     DEF LifeInit, LifeInvariant, LifeShape, TurnsAreAlone, UncrossedClose, AtRest, OnTurn

(* A record stored again is kept once, and the oldest goes beyond the limit. *)
LEMMA StoredIsKept ==
  ASSUME MemoriesAreKept, NEW note \in AllNotes
  PROVE  /\ Stored(note) \in Seq(AllNotes) /\ IsInjective(Stored(note))
         /\ Len(Stored(note)) <= MaxRecords
<1> DEFINE same == {i \in DOMAIN memories : memories[i] = note}
           others == IF same = {} THEN memories
                     ELSE RemoveAt(memories, CHOOSE i \in same : TRUE)
           longer == Append(others, note)
<1>1. /\ others \in Seq(AllNotes) /\ IsInjective(others) /\ note \notin ToSet(others)
      /\ Len(others) <= MaxRecords
  <2>1. CASE same = {} BY <2>1 DEF MemoriesAreKept, ToSet
  <2>2. CASE same # {}
    <3> DEFINE i == CHOOSE k \in same : TRUE
    <3>1. i \in DOMAIN memories /\ memories[i] = note BY <2>2
    <3>2. /\ RemoveAt(memories, i) \in Seq(AllNotes)
          /\ Len(RemoveAt(memories, i)) = Len(memories) - 1
          /\ ToSet(RemoveAt(memories, i)) = ToSet(memories) \ {note}
          /\ IsInjective(RemoveAt(memories, i))
      BY <3>1, RemoveElements DEF MemoriesAreKept
    <3> HIDE DEF i
    <3>3. Len(memories) \in Nat /\ MaxRecords \in Nat
      BY LifetimeAssumption DEF MemoriesAreKept
    <3>4. others = RemoveAt(memories, i) BY <2>2 DEF i
    <3> HIDE DEF others
    <3> QED BY <3>2, <3>3, <3>4 DEF MemoriesAreKept
  <2> QED BY <2>1, <2>2
<1> HIDE DEF others
<1>2. /\ longer \in Seq(AllNotes) /\ IsInjective(longer) /\ Len(longer) = Len(others) + 1
  BY <1>1, AppendElements
<1>3. Stored(note) = IF Len(longer) > MaxRecords THEN Tail(longer) ELSE longer
  BY DEF Stored, others
<1>4. /\ Tail(longer) \in Seq(AllNotes) /\ IsInjective(Tail(longer))
      /\ Len(Tail(longer)) = Len(longer) - 1
  <2>1. longer # <<>> /\ Len(longer) \in Nat BY <1>1, <1>2
  <2> HIDE DEF longer
  <2> QED BY <1>2, <2>1, TailElements, HeadTailProperties
<1> HIDE DEF longer
<1>5. Len(others) \in Nat /\ MaxRecords \in Nat BY <1>1, LifetimeAssumption
<1> QED BY <1>1, <1>2, <1>3, <1>4, <1>5

(* Whoever neither starts nor stops the backend leaves what is known of it. *)
LEMMA BackendStays ==
  ASSUME BackendIsKnown, UNCHANGED <<flagged, backendUp, mishaps, closing, watching>>,
         \A d \in Callers : \/ asking'[d] = asking[d]
                            \/ /\ asking[d] \notin {"started", "failed"}
                               /\ asking'[d] # "started"
  PROVE  BackendIsKnown'
  BY DEF BackendIsKnown, FlagIsTrue

(* What an ask does leaves its caller waiting, or ended for a reason. *)
LEMMA AskKeeps ==
  ASSUME LifeInvariant, NEW c \in Callers, Ask(c)
  PROVE  LifeInvariant'
<1> USE DEF LifeInvariant, LifeShape, Ask, Submit, Await, End, AtRest
<1>1. LifeShape' /\ TurnsAreAlone' /\ MemoriesAreKept' /\ UncrossedClose'
  BY ZenonT(60) DEF TurnsAreAlone, MemoriesAreKept, UncrossedClose, OnTurn, strayVars
<1>2. BackendIsKnown'
  <2>1. /\ UNCHANGED <<flagged, backendUp, mishaps, closing, watching>>
        /\ asking[c] = "rest"
        /\ \E place \in {"rest", "queued", "start"} : asking' = [asking EXCEPT ![c] = place]
    BY DEF strayVars
  <2> QED BY <2>1, BackendStays
<1> QED BY <1>1, <1>2

(* Counting one thread more, or one less. *)
LEMMA StrayCounts ==
  ASSUME NEW s \in [start : Nat, stop : Nat]
  PROVE  /\ [s EXCEPT !.start = @ + 1] \in [start : Nat, stop : Nat]
         /\ [s EXCEPT !.stop = @ + 1] \in [start : Nat, stop : Nat]
         /\ s.start > 0 => [s EXCEPT !.start = @ - 1] \in [start : Nat, stop : Nat]
         /\ s.stop > 0 => [s EXCEPT !.stop = @ - 1] \in [start : Nat, stop : Nat]
  OBVIOUS

(* A caller that goes on from the start of the backend, or from its failure, *)
(* disturbs neither the turns nor the memories nor a close it does not cross. *)
LEMMA StarterMoves ==
  ASSUME LifeShape, TurnsAreAlone, MemoriesAreKept, UncrossedClose, NEW c \in Callers,
         asking[c] \in {"start", "started", "failed"}, NEW place \in {"failed", "rest"},
         asking' = [asking EXCEPT ![c] = place],
         \/ place = "failed" /\ ended' = ended
         \/ place = "rest" /\ ended' = [ended EXCEPT ![c] = "unanswered"],
         UNCHANGED <<flagged, closeVars, memories, turnSaved>>, backendUp' \in BOOLEAN,
         stray' \in [start : Nat, stop : Nat],
         mishaps' \subseteq {"left up", "stopped under another"}
  PROVE  LifeShape' /\ TurnsAreAlone' /\ MemoriesAreKept' /\ UncrossedClose'
<1> USE DEF closeVars, OnTurn, AtRest
<1>1. /\ asking' \in [Callers -> OnTurn \cup {"rest", "start", "failed", "started", "queued"}]
      /\ asking'[c] = place /\ \A d \in Callers : d # c => asking'[d] = asking[d]
  BY DEF LifeShape
<1>2. /\ ended' \in [Callers -> {"completed", "unanswered"}]
      /\ place = "rest" => ended'[c] = "unanswered"
      /\ \A d \in Callers : d # c => ended'[d] = ended[d]
  BY DEF LifeShape
<1>3. LifeShape' BY <1>1, <1>2 DEF LifeShape
<1>4. \A d \in Callers : asking'[d] \in OnTurn \cup {"queued"} => asking'[d] = asking[d]
  BY <1>1
<1>5. \A d \in Callers : ended'[d] = "completed" /\ asking'[d] = "rest" =>
        ended[d] = "completed" /\ asking[d] = "rest"
  BY <1>1, <1>2
<1>6. TurnsAreAlone' BY ZenonT(60), <1>4, <1>5 DEF TurnsAreAlone
<1>7. MemoriesAreKept' BY DEF MemoriesAreKept
<1>8. UncrossedClose'
  <2>1. crossed \/ closing = "rest" BY DEF UncrossedClose
  <2> QED BY <2>1 DEF UncrossedClose
<1> QED BY <1>3, <1>6, <1>7, <1>8

(* What becomes of the others' claims on the backend when one of them goes. *)
LEMMA StartingKeeps ==
  ASSUME LifeInvariant, NEW c \in Callers,
         \/ StartBackend(c) \/ StopFailedStart(c) \/ Started(c)
         \/ CancelStart(c) \/ CancelStop(c)
  PROVE  LifeInvariant'
<1> USE DEF LifeInvariant, LifeShape, TurnsAreAlone, MemoriesAreKept, UncrossedClose,
            Await, End, AtRest, OnTurn, bounds, closeVars, strayVars
<1>1. CASE StartBackend(c)
  <2>1. asking[c] = "start" /\ UNCHANGED <<flagged, stray, mishaps, closeVars, memories,
     turnSaved, ended>>
    BY <1>1 DEF StartBackend
  <2>2. PICK place \in {"started", "failed"} :
           /\ asking' = [asking EXCEPT ![c] = place]
           /\ backendUp' = (place = "started" \/ backendUp)
    BY <1>1 DEF StartBackend, MayFail
  <2>3. LifeShape' /\ TurnsAreAlone' /\ MemoriesAreKept' BY <2>1, <2>2
  <2>4. ~crossed => closing = "rest" BY <2>1
  <2>5. UncrossedClose' BY <2>1, <2>2, <2>4
  <2>6. BackendIsKnown' BY <2>1, <2>2 DEF BackendIsKnown, FlagIsTrue
  <2> QED BY <2>3, <2>5, <2>6
<1>2. CASE StopFailedStart(c)
  <2>1. /\ asking[c] = "failed" /\ asking' = [asking EXCEPT ![c] = "rest"]
        /\ ended' = [ended EXCEPT ![c] = "unanswered"]
        /\ UNCHANGED <<flagged, stray, closeVars, memories, turnSaved>>
    BY <1>2 DEF StopFailedStart
  <2>2. /\ backendUp' \in BOOLEAN /\ mishaps \subseteq mishaps'
        /\ mishaps' \subseteq {"left up", "stopped under another"}
        /\ backendUp' => backendUp /\ (flagged \/ "left up" \in mishaps')
        /\ backendUp /\ ~backendUp' /\ Relied => "stopped under another" \in mishaps'
    <3>1. CASE backendUp' = FALSE /\ Note("stopped under another", backendUp /\ Relied)
      BY ONLY <3>1, LifeShape DEF Note, LifeShape
    <3>2. CASE backendUp' = backendUp /\ Note("left up", backendUp /\ ~flagged)
      BY ONLY <3>2, LifeShape DEF Note, LifeShape
    <3> QED BY ONLY <1>2, <3>1, <3>2 DEF StopFailedStart
  <2>3. LifeShape' /\ TurnsAreAlone' /\ MemoriesAreKept' /\ UncrossedClose'
    BY ONLY LifeInvariant, <2>1, <2>2, StarterMoves
       DEF LifeInvariant, LifeShape, UncrossedClose
  <2>4. BackendIsKnown' BY <2>1, <2>2 DEF BackendIsKnown, FlagIsTrue, Relied
  <2> QED BY <2>3, <2>4
<1>3. CASE Started(c)
  <2>1. LifeShape' /\ TurnsAreAlone' /\ MemoriesAreKept' /\ UncrossedClose'
    BY ZenonT(60), <1>3 DEF Started, Submit
  <2>2. /\ flagged' = TRUE /\ watching' = TRUE /\ UNCHANGED <<backendUp, mishaps, closing>>
        /\ asking[c] = "started"
        /\ \E place \in {"rest", "queued"} : asking' = [asking EXCEPT ![c] = place]
    BY <1>3 DEF Started, Submit
  <2>3. BackendIsKnown' BY <2>2 DEF BackendIsKnown, FlagIsTrue
  <2> QED BY <2>1, <2>3
<1>4. CASE CancelStart(c)
  <2>1. /\ asking[c] \in {"start", "started"} /\ asking' = [asking EXCEPT ![c] = "failed"]
        /\ UNCHANGED <<flagged, backendUp, mishaps, closeVars, memories, turnSaved, ended>>
    BY <1>4 DEF CancelStart
  <2>2. stray' \in [start : Nat, stop : Nat]
    <3>1. stray' = stray \/ stray' = [stray EXCEPT !.start = @ + 1]
      BY ONLY <1>4 DEF CancelStart
    <3> QED BY ONLY <3>1, LifeShape, StrayCounts DEF LifeShape
  <2>3. LifeShape' /\ TurnsAreAlone' /\ MemoriesAreKept' /\ UncrossedClose'
    BY ONLY LifeInvariant, <2>1, <2>2, StarterMoves DEF LifeInvariant, LifeShape
  <2>4. BackendIsKnown' BY <2>1 DEF BackendIsKnown, FlagIsTrue
  <2> QED BY <2>3, <2>4
<1>5. CASE CancelStop(c)
  <2>1. /\ asking[c] = "failed" /\ asking' = [asking EXCEPT ![c] = "rest"]
        /\ ended' = [ended EXCEPT ![c] = "unanswered"]
        /\ UNCHANGED <<flagged, backendUp, closeVars, memories, turnSaved>>
        /\ mishaps \subseteq mishaps' /\ mishaps' \subseteq {"left up", "stopped under another"}
        /\ backendUp /\ ~flagged => "left up" \in mishaps'
    BY <1>5 DEF CancelStop, Note
  <2>2. stray' \in [start : Nat, stop : Nat]
    BY ONLY <1>5, LifeShape, StrayCounts DEF CancelStop, LifeShape
  <2>3. LifeShape' /\ TurnsAreAlone' /\ MemoriesAreKept' /\ UncrossedClose'
    BY ONLY LifeInvariant, <2>1, <2>2, StarterMoves DEF LifeInvariant, LifeShape
  <2>4. BackendIsKnown' BY <2>1 DEF BackendIsKnown, FlagIsTrue
  <2> QED BY <2>3, <2>4
<1> QED BY <1>1, <1>2, <1>3, <1>4, <1>5

(* The threads that cancelled tasks have left behind. *)
LEMMA StraysKeep ==
  ASSUME LifeInvariant, LateStart \/ LateStop
  PROVE  LifeInvariant'
<1> USE DEF LifeInvariant, LifeShape, bounds, closeVars
<1>1. /\ UNCHANGED <<asking, ended, flagged, closeVars, memories, turnSaved>>
      /\ mishaps \subseteq mishaps' /\ mishaps' \subseteq {"left up", "stopped under another"}
      /\ backendUp' /\ ~backendUp => "left up" \in mishaps'
      /\ backendUp /\ ~backendUp' /\ Relied => "stopped under another" \in mishaps'
      /\ backendUp' \in BOOLEAN
  <2>1. CASE LateStart BY <2>1 DEF LateStart, Note
  <2>2. CASE LateStop BY <2>2 DEF LateStop, Note
  <2> QED BY <2>1, <2>2
<1>2. stray' \in [start : Nat, stop : Nat]
  BY ONLY LateStart \/ LateStop, LifeShape, StrayCounts DEF LateStart, LateStop, LifeShape
<1>3. LifeShape' /\ TurnsAreAlone' BY <1>1, <1>2 DEF TurnsAreAlone
<1>4. MemoriesAreKept' /\ UncrossedClose'
  BY <1>1 DEF MemoriesAreKept, UncrossedClose
<1>5. BackendIsKnown' BY <1>1 DEF BackendIsKnown, FlagIsTrue, Relied
<1> QED BY <1>3, <1>4, <1>5

LEMMA TurnKeeps ==
  ASSUME LifeInvariant, NEW c \in Callers,
         BeginTurn(c) \/ Recall(c) \/ Loop(c) \/ Store(c) \/ CancelTurn(c)
  PROVE  LifeInvariant'
<1> USE DEF LifeInvariant, LifeShape, TurnsAreAlone, UncrossedClose,
            Await, End, AtRest, OnTurn, bounds, closeVars, strayVars
<1>1. LifeShape' /\ TurnsAreAlone' /\ MemoriesAreKept' /\ UncrossedClose'
  <2>1. CASE BeginTurn(c)
    <3>1. /\ asking[c] = "queued" /\ lane = "open" /\ \A d \in Callers : asking[d] \notin OnTurn
          /\ asking' = [asking EXCEPT ![c] = "recall"]
          /\ UNCHANGED <<ended, flagged, backendUp, stray, mishaps, closeVars, memories,
                         turnSaved>>
      BY <2>1 DEF BeginTurn, LaneFree
    <3>2. LifeShape' BY ONLY LifeShape, c \in Callers, <3>1 DEF LifeShape, closeVars, OnTurn
    <3>3. TurnsAreAlone'
      <4>1. \A d \in Callers : asking'[d] = IF d = c THEN "recall" ELSE asking[d] BY <3>1
      <4>2. lane' = "open" /\ ended' = ended /\ turnSaved' = turnSaved BY <3>1
      <4> QED
        BY ONLY TurnsAreAlone, <3>1, <4>1, <4>2 DEF TurnsAreAlone, OnTurn, AtRest
    <3>4. MemoriesAreKept' BY <3>1 DEF MemoriesAreKept
    <3>5. UncrossedClose' BY <3>1
    <3> QED BY <3>2, <3>3, <3>4, <3>5
  <2>2. CASE Recall(c) BY <2>2 DEF Recall, MayFail, MemoriesAreKept
  <2>3. CASE Loop(c)
    <3>1. /\ asking[c] = "loop" /\ \/ Await(c, "store")
                                   \/ End(c, "unanswered")
          /\ UNCHANGED <<flagged, backendUp, stray, mishaps, lane, closing, crossed, watching,
                         memories, turnSaved>>
      BY <2>3 DEF Loop
    <3>2. CASE Await(c, "store") BY <3>1, <3>2 DEF MemoriesAreKept
    <3>3. CASE End(c, "unanswered") BY <3>1, <3>3 DEF MemoriesAreKept
    <3> QED BY <3>1, <3>2, <3>3
  <2>4. CASE Store(c)
    <3>1. MemoriesAreKept'
      <4>1. memories' = memories \/ memories' = Stored(NoteOf[c])
        BY ONLY <2>4 DEF Store, bounds
      <4>2. NoteOf[c] \in AllNotes BY ONLY c \in Callers DEF AllNotes
      <4>3. /\ Stored(NoteOf[c]) \in Seq(AllNotes) /\ IsInjective(Stored(NoteOf[c]))
            /\ Len(Stored(NoteOf[c])) <= MaxRecords
        BY ONLY <4>2, MemoriesAreKept, StoredIsKept
      <4>4. CASE memories' = memories
        BY ONLY <4>4, MemoriesAreKept DEF MemoriesAreKept
      <4>5. CASE memories' = Stored(NoteOf[c])
        BY ONLY <4>5, <4>3 DEF MemoriesAreKept
      <4> QED BY ONLY <4>1, <4>4, <4>5
    <3>2. /\ asking[c] = "store" /\ asking' = [asking EXCEPT ![c] = "rest"]
          /\ UNCHANGED <<flagged, backendUp, stray, mishaps, lane, closing, crossed, watching>>
          /\ \/ ended' = [ended EXCEPT ![c] = "completed"] /\ turnSaved' = turnSaved \cup {c}
             \/ ended' = [ended EXCEPT ![c] = "unanswered"] /\ turnSaved' = turnSaved
      BY <2>4 DEF Store, MayFail
    <3>3. LifeShape' /\ TurnsAreAlone' BY <3>2
    <3>4. UncrossedClose' BY <3>2
    <3> QED BY <3>1, <3>3, <3>4
  <2>5. CASE CancelTurn(c) BY <2>5 DEF CancelTurn, MemoriesAreKept
  <2> QED BY <2>1, <2>2, <2>3, <2>4, <2>5
<1>2. BackendIsKnown'
  <2>1. /\ UNCHANGED <<flagged, backendUp, mishaps, closing, watching>>
        /\ asking[c] \in OnTurn \cup {"queued"}
        /\ \E place \in OnTurn \cup {"rest"} : asking' = [asking EXCEPT ![c] = place]
    BY DEF BeginTurn, Recall, Loop, Store, CancelTurn
  <2> QED BY <2>1, BackendStays
<1> QED BY <1>1, <1>2

LEMMA CloserKeeps ==
  ASSUME LifeInvariant, CloseBegin \/ CloserStep \/ Others
  PROVE  LifeInvariant'
<1> USE
   DEF LifeInvariant, LifeShape, TurnsAreAlone, UncrossedClose, AtRest, OnTurn, bounds, strayVars
<1>1. CASE CloseBegin
  <2>1. BackendIsKnown' BY <1>1 DEF CloseBegin, BackendIsKnown, FlagIsTrue
  <2> QED BY <1>1, <2>1 DEF CloseBegin, MemoriesAreKept
<1>2. CASE Forget
  <2>1. BackendIsKnown' BY <1>2 DEF Forget, BackendIsKnown, FlagIsTrue
  <2> QED BY <1>2, <2>1 DEF Forget, Drained, MemoriesAreKept
<1>3. CASE StopBackend
  <2>1. /\ closing = "stop"
        /\ UNCHANGED <<asking, ended, lane, crossed, memories, turnSaved, flagged, stray>>
        /\ \/ /\ backendUp' = FALSE /\ closing' = "stopped" /\ UNCHANGED watching
              /\ mishaps \subseteq mishaps'
              /\ mishaps' \subseteq {"left up", "stopped under another"}
              /\ backendUp /\ (\E c \in Callers : asking[c] = "started") =>
                   "stopped under another" \in mishaps'
           \/ /\ closing' = "rest of it" /\ watching' = FALSE
              /\ UNCHANGED <<backendUp, mishaps>>
    BY <1>3 DEF StopBackend, MayFail, Note
  <2>2. LifeShape' /\ TurnsAreAlone' /\ MemoriesAreKept'
    BY <2>1 DEF MemoriesAreKept
  <2>3. UncrossedClose' BY <2>1
  <2>4. BackendIsKnown'
    <3>1. FlagIsTrue /\ UNCHANGED <<asking, flagged>>
      BY ONLY <2>1, BackendIsKnown DEF BackendIsKnown
    <3>2. CASE /\ backendUp' = FALSE /\ closing' = "stopped" /\ UNCHANGED watching
               /\ mishaps \subseteq mishaps'
               /\ backendUp /\ (\E c \in Callers : asking[c] = "started") =>
                    "stopped under another" \in mishaps'
      <4>1. FlagIsTrue' BY ONLY <3>1, <3>2 DEF FlagIsTrue
      <4>2. ASSUME NEW c \in Callers, asking'[c] = "started"
            PROVE  "stopped under another" \in mishaps'
        BY ONLY <3>1, <3>2, <4>2, BackendIsKnown DEF BackendIsKnown
      <4> QED BY ONLY <4>1, <4>2 DEF BackendIsKnown
    <3>3. CASE /\ closing' = "rest of it" /\ watching' = FALSE /\ UNCHANGED <<backendUp, mishaps>>
      <4>1. FlagIsTrue'
        <5>1. closing = "stop" BY ONLY <2>1
        <5> QED BY ONLY <5>1, <3>1, <3>3 DEF FlagIsTrue
      <4> QED BY ONLY <3>1, <3>3, <4>1, BackendIsKnown DEF BackendIsKnown
    <3> QED BY ONLY <2>1, <3>2, <3>3
  <2> QED BY <2>2, <2>3, <2>4
<1>4. CASE Stopped
  <2>1. BackendIsKnown' BY <1>4 DEF Stopped, Note, BackendIsKnown, FlagIsTrue
  <2> QED BY <1>4, <2>1 DEF Stopped, Note, MemoriesAreKept
<1>5. CASE CloseEnds
  <2>1. BackendIsKnown' BY <1>5 DEF CloseEnds, BackendIsKnown, FlagIsTrue
  <2> QED BY <1>5, <2>1 DEF CloseEnds, MemoriesAreKept
<1>6. CASE Others
  <2>1. MemoriesAreKept'
    <3>1. theirs \in AllNotes /\ MaxRecords \in Nat
      BY LifetimeAssumption DEF AllNotes
    <3>2. memories' = Stored(theirs) \/ memories' = <<>> BY <1>6 DEF Others
    <3>3. CASE memories' = <<>> BY <3>3, NothingIsKept DEF MemoriesAreKept
    <3>4. CASE memories' = Stored(theirs)
      BY <3>1, <3>4, StoredIsKept DEF MemoriesAreKept
    <3> QED BY <3>2, <3>3, <3>4
  <2>2. BackendIsKnown' BY <1>6, BackendStays DEF Others, closeVars
  <2> QED BY <1>6, <2>1, <2>2 DEF Others, closeVars
<1> QED BY <1>1, <1>2, <1>3, <1>4, <1>5, <1>6 DEF CloserStep

LEMMA LifeInvariantIsInductive ==
  LifeInvariant /\ [LifeNext]_lifeVars => LifeInvariant'
<1> SUFFICES ASSUME LifeInvariant, [LifeNext]_lifeVars PROVE LifeInvariant'
  OBVIOUS
<1>1. CASE UNCHANGED lifeVars
  <2>1. BackendIsKnown' BY <1>1, BackendStays DEF lifeVars, LifeInvariant
  <2> QED
    BY <1>1, <2>1 DEF lifeVars, LifeInvariant, LifeShape, TurnsAreAlone, MemoriesAreKept,
                      UncrossedClose
<1> QED BY <1>1, AskKeeps, StartingKeeps, StraysKeep, TurnKeeps, CloserKeeps
     DEF LifeNext, CallerStep

(* One turn of an agent runs at a time over however many schedulers its closes *)
(* leave behind, a turn is said to have completed only when its messages are   *)
(* in the memory, and records are kept once and up to the limit.  Whether the   *)
(* backend is up is what the agent's flag says, except after the mishaps that  *)
(* FlagIsTrue names; and a close that no ask came across leaves no scheduler   *)
(* and no turn, and no backend, except after its own stop failed or after such *)
(* a mishap (RepoAgent.ask_async and aclose).                                  *)
THEOREM LivesAreSound ==
  LifeInit /\ [][LifeNext]_lifeVars => []LifeHolds
<1>1. ASSUME LifeInvariant PROVE LifeHolds
  <2> USE <1>1 DEF LifeInvariant
  <2>1. LifeTypes BY DEF LifeTypes, LifeShape
  <2>2. Cardinality({c \in Callers : asking[c] \in OnTurn}) <= 1
    <3> DEFINE running == {c \in Callers : asking[c] \in OnTurn}
    <3>1. running = {} \/ \E c \in Callers : running = {c} BY DEF TurnsAreAlone
    <3>2. Cardinality({}) = 0 /\ \A c \in Callers : Cardinality({c}) = 1
      BY FS_EmptySet, FS_Singleton
    <3> HIDE DEF running
    <3>3. Cardinality(running) \in {0, 1} BY <3>1, <3>2
    <3> QED BY <3>3 DEF running
  <2>3. LifeIsSound
    BY <2>1, <2>2 DEF LifeIsSound, TurnsAreAlone, MemoriesAreKept
  <2>4. FlagIsTrue BY DEF BackendIsKnown
  <2>5. CloseReleases
    BY <2>4 DEF CloseReleases, UncrossedClose, LifeShape, FlagIsTrue, AtRest
  <2> QED BY <2>3, <2>4, <2>5 DEF LifeHolds
<1> QED BY <1>1, LifeStarts, LifeInvariantIsInductive, PTL

-----------------------------------------------------------------------------
(* ToolGateway: answers of any length and any number of parallel calls.    *)
(* The inductive invariant says of every call what its stage means: calls  *)
(* that have started are in the batch at hand, a call's own mark appears   *)
(* only while it runs, and its snapshot, taken before that, does not hold  *)
(* it.                                                                     *)

(* The types the argument needs; `position' and the sequence of observed     *)
(* results play no part in it.                                               *)
Types ==
  /\ position \in Nat
  /\ callStage \in [Invocations -> CallStages]
  /\ before \in [Invocations -> SUBSET Marks]
  /\ outcome \in [Invocations -> CallOutcomes]
  /\ callResult \in [Invocations -> [status : ResultStatuses, affected : SUBSET Marks]]
  /\ workspace \subseteq Marks

\* What has started and not finished belongs to the batch at hand.
StartedInBatch ==
  \A i \in Invocations : callStage[i] \in {"started", "armed", "running", "returned"} =>
     i \in Batch

\* A call leaves its mark while it runs, and its snapshot is older than that.
MarkedWhileRunning ==
  \A i \in Invocations :
     /\ callStage[i] \in {"planned", "started", "armed"} => i \notin workspace
     /\ i \notin before[i]

\* A call that came back with its work done has done it.
ReturnedDone ==
  \A i \in Invocations :
     /\ callStage[i] = "returned" /\ outcome[i] \in {"ok", "truncated"}
          /\ script[i] \in Mutating => i \in workspace
     /\ callStage[i] = "returned" => outcome[i] # "none"

\* Only tools that change the workspace leave a mark.
MarkedMutating == \A i \in Invocations : i \in workspace => script[i] \in Mutating

GatewayInv ==
  /\ Types /\ StartedInBatch /\ MarkedWhileRunning /\ ReturnedDone
  /\ MarkedMutating /\ ResultTellsTheWorkspace

-----------------------------------------------------------------------------

\* Two calls of one batch are both concurrency-safe reads.
LEMMA BatchOfSeveralIsSafe ==
  ASSUME NEW i \in Invocations, NEW j \in Invocations, i \in Batch, j \in Batch, i # j,
         position \in Nat
  PROVE  ConcurrencySafe(i) /\ ConcurrencySafe(j)
<1>1. CASE i = position
  BY <1>1, BoundsAssumption DEF Batch, BatchFrom, Invocations
<1>2. CASE i # position
  <2>1. \A k \in position..i : ConcurrencySafe(k) BY <1>2 DEF Batch, BatchFrom
  <2>2. i \in position..i /\ position \in position..i
    BY BoundsAssumption DEF Batch, BatchFrom, Invocations
  <2>3. CASE j = position BY <2>1, <2>2, <2>3
  <2>4. CASE j # position
    BY <2>4, <2>1, <2>2, BoundsAssumption DEF Batch, BatchFrom, Invocations
  <2> QED BY <2>3, <2>4
<1> QED BY <1>1, <1>2

\* A call's own mark is in what its report says it changed.
LEMMA OwnMarkIsAffected ==
  ASSUME GatewayInv, NEW i \in Invocations, i \in workspace
  PROVE  i \in Affected(i)
  BY DEF GatewayInv, MarkedWhileRunning, MarkedMutating, Affected

LEMMA AffectedType ==
  ASSUME Types, NEW i \in Invocations
  PROVE  Affected(i) \in SUBSET Marks
  BY DEF Types, Affected

\* The statuses a report may have, and what each tells.
LEMMA StatusTells ==
  ASSUME GatewayInv, NEW i \in Invocations, callStage[i] = "returned"
  PROVE  /\ Status(i) \in ResultStatuses
         /\ Status(i) # "rejected"
         /\ Status(i) = "error" => Affected(i) = {}
         /\ Status(i) = "ok" => outcome[i] = "ok"
<1>1. outcome[i] \in CallOutcomes \ {"none"}
  BY DEF GatewayInv, Types, ReturnedDone
<1>2. CASE ExecutionStatus(i) \in {"cancelled", "timeout"}
  BY <1>2 DEF Status, ResultStatuses
<1>3. CASE ExecutionStatus(i) \notin {"cancelled", "timeout"}
  <2>1. outcome[i] \notin {"cancelled", "timeout"} BY <1>3 DEF ExecutionStatus
  <2>2. outcome[i] \in {"ok", "truncated", "exit", "raised"}
    BY <1>1, <2>1 DEF CallOutcomes
  <2>3. CASE outcome[i] \in {"exit", "raised"}
    BY <1>3, <2>3 DEF Status, ResultStatuses
  <2>4. CASE outcome[i] = "truncated" BY <1>3, <2>4 DEF Status, ResultStatuses
  <2>5. CASE outcome[i] = "ok" BY <1>3, <2>5 DEF Status, ResultStatuses
  <2> QED BY <2>2, <2>3, <2>4, <2>5
<1> QED BY <1>2, <1>3

-----------------------------------------------------------------------------

LEMMA InitEstablishes == GatewayInit => GatewayInv
  BY DEF GatewayInit, GatewayInv, Types, StartedInBatch, MarkedWhileRunning,
         ReturnedDone, MarkedMutating, ResultTellsTheWorkspace, CallStages,
         CallOutcomes, ResultStatuses, NoCallResult, Marks

\* Steps that leave the calls alone: the batch may not move either.
LEMMA QuietStep ==
  ASSUME GatewayInv, UNCHANGED <<script, position, stageVars>>
  PROVE  GatewayInv'
  BY DEF GatewayInv, Types, StartedInBatch, MarkedWhileRunning, ReturnedDone,
         MarkedMutating, ResultTellsTheWorkspace, stageVars, Batch, BatchFrom,
         ConcurrencySafe

LEMMA StartBatchStep ==
  ASSUME GatewayInv, StartBatch
  PROVE  GatewayInv'
<1>1. CASE turnCancelled BY <1>1, QuietStep DEF StartBatch, stageVars
<1>2. CASE ~turnCancelled
  <2>1. /\ callStage' = [i \in Invocations |-> IF i \in Batch THEN "started" ELSE callStage[i]]
        /\ \A i \in Batch : callStage[i] = "planned"
        /\ UNCHANGED <<script, position, workspace, before, outcome, callResult>>
    BY <1>2 DEF StartBatch
  <2>2. Types' BY <2>1 DEF GatewayInv, Types, CallStages
  <2>3. StartedInBatch'
    BY <2>1 DEF GatewayInv, StartedInBatch, Batch, BatchFrom, ConcurrencySafe
  <2>4. MarkedWhileRunning'
    BY <2>1 DEF GatewayInv, MarkedWhileRunning, Batch, BatchFrom, ConcurrencySafe
  <2>5. ReturnedDone' /\ MarkedMutating' /\ ResultTellsTheWorkspace'
    BY <2>1 DEF GatewayInv, ReturnedDone, MarkedMutating, ResultTellsTheWorkspace
  <2> QED BY <2>2, <2>3, <2>4, <2>5 DEF GatewayInv
<1> QED BY <1>1, <1>2

\* The batch ends when all of it has finished, so nothing is under way.
LEMMA EndBatchStep ==
  ASSUME GatewayInv, EndBatch
  PROVE  GatewayInv'
<1>1. /\ \A i \in Batch : callStage[i] = "finished"
      /\ position' = position + Cardinality(Batch)
      /\ UNCHANGED <<script, stageVars>>
  BY DEF EndBatch
<1>2. position' \in Nat
  <2>1. Batch \subseteq position..MaxCalls BY DEF Batch, BatchFrom
  <2>2. IsFiniteSet(Batch)
    <3>1. position \in Int /\ MaxCalls \in Int
      BY BoundsAssumption DEF GatewayInv, Types
    <3>2. IsFiniteSet(position..MaxCalls) BY <3>1, FS_Interval
    <3> QED BY <2>1, <3>2, FS_Subset
  <2>3. Cardinality(Batch) \in Nat BY <2>2, FS_CardinalityType
  <2> QED BY <1>1, <2>3 DEF GatewayInv, Types
<1>3. \A i \in Invocations : callStage[i] \notin {"started", "armed", "running", "returned"}
  BY <1>1 DEF GatewayInv, StartedInBatch
<1>4. StartedInBatch' BY <1>1, <1>3 DEF StartedInBatch, stageVars
<1> QED BY <1>1, <1>2, <1>4
     DEF GatewayInv, Types, MarkedWhileRunning, ReturnedDone, MarkedMutating,
         ResultTellsTheWorkspace, stageVars

LEMMA RejectStep ==
  ASSUME GatewayInv, NEW i \in Invocations, Reject(i)
  PROVE  GatewayInv'
<1>1. /\ callStage[i] = "started" /\ i \notin workspace
      /\ callStage' = [callStage EXCEPT ![i] = "finished"]
      /\ callResult' = [callResult EXCEPT ![i] = [status |-> "rejected", affected |-> {}]]
      /\ UNCHANGED <<script, position, workspace, before, outcome>>
  BY DEF Reject, Finish, GatewayInv, MarkedWhileRunning
<1>2. Types' BY <1>1 DEF GatewayInv, Types, CallStages, ResultStatuses
<1>3. StartedInBatch' /\ MarkedWhileRunning' /\ ReturnedDone' /\ MarkedMutating'
  BY <1>1 DEF GatewayInv, Types, StartedInBatch, MarkedWhileRunning, ReturnedDone,
              MarkedMutating, Batch, BatchFrom, ConcurrencySafe
<1>4. ResultTellsTheWorkspace'
  BY <1>1 DEF GatewayInv, Types, ResultTellsTheWorkspace
<1> QED BY <1>2, <1>3, <1>4 DEF GatewayInv

LEMMA AdmitStep ==
  ASSUME GatewayInv, NEW i \in Invocations, Admit(i)
  PROVE  GatewayInv'
<1>1. /\ callStage[i] = "started" /\ i \notin workspace
      /\ callStage' = [callStage EXCEPT ![i] = "armed"]
      /\ before' = [before EXCEPT ![i] = IF script[i] \in Mutating
                                           THEN workspace ELSE {}]
      /\ UNCHANGED <<script, position, workspace, outcome, callResult>>
  BY DEF Admit, GatewayInv, MarkedWhileRunning
<1>2. Types' BY <1>1 DEF GatewayInv, Types, CallStages
<1>3. StartedInBatch' /\ ReturnedDone' /\ MarkedMutating'
  BY <1>1 DEF GatewayInv, Types, StartedInBatch, ReturnedDone, MarkedMutating,
              Batch, BatchFrom, ConcurrencySafe
<1>4. MarkedWhileRunning' BY <1>1 DEF GatewayInv, Types, MarkedWhileRunning
<1>5. ResultTellsTheWorkspace'
  BY <1>1 DEF GatewayInv, Types, ResultTellsTheWorkspace
<1> QED BY <1>2, <1>3, <1>4, <1>5 DEF GatewayInv

\* Entering a tool and coming back from it: a call in the batch changes its
\* stage, and what it returns with is honest.
LEMMA StageStep ==
  ASSUME GatewayInv, NEW i \in Invocations,
         callStage[i] \in {"armed", "running"},
         NEW to \in {"running", "returned"}, NEW how \in CallOutcomes,
         to = "returned" => how # "none",
         to = "returned" /\ how \in {"ok", "truncated"} /\ script[i] \in Mutating
            => i \in workspace,
         callStage' = [callStage EXCEPT ![i] = to],
         outcome' = [outcome EXCEPT ![i] = how],
         UNCHANGED <<script, position, workspace, before, callResult>>
  PROVE  GatewayInv'
<1>2. Types' BY DEF GatewayInv, Types, CallStages
<1>3. StartedInBatch' /\ MarkedWhileRunning' /\ MarkedMutating'
  BY DEF GatewayInv, Types, StartedInBatch, MarkedWhileRunning, MarkedMutating,
         Batch, BatchFrom, ConcurrencySafe
<1>4. ReturnedDone' BY DEF GatewayInv, Types, ReturnedDone
<1>5. ResultTellsTheWorkspace' BY DEF GatewayInv, Types, ResultTellsTheWorkspace
<1> QED BY <1>2, <1>3, <1>4, <1>5 DEF GatewayInv

LEMMA EnterStep ==
  ASSUME GatewayInv, NEW i \in Invocations, Enter(i)
  PROVE  GatewayInv'
<1>1. Control(i) \in {"cancelled", "timeout", "running"} BY DEF Control
<1>2. CASE Control(i) # "running"
  BY <1>2, <1>1, StageStep DEF Enter, CallOutcomes
<1>3. CASE Control(i) = "running"
  BY <1>3, StageStep DEF Enter, GatewayInv, Types
<1> QED BY <1>2, <1>3

LEMMA ReturnStep ==
  ASSUME GatewayInv, NEW i \in Invocations, NEW how \in CallOutcomes, ToolReturns(i, how)
  PROVE  GatewayInv'
<1>1. how # "none" BY DEF ToolReturns, MayReturn, Control
<1>2. how \in {"ok", "truncated"} /\ script[i] \in Mutating => i \in workspace
  BY DEF ToolReturns, MayReturn, Control
<1> QED BY <1>1, <1>2, StageStep DEF ToolReturns

LEMMA ActStep ==
  ASSUME GatewayInv, NEW i \in Invocations, Act(i)
  PROVE  GatewayInv'
<1>1. /\ callStage[i] = "running" /\ script[i] \in Mutating
      /\ workspace' = workspace \cup {i}
      /\ UNCHANGED <<script, position, callStage, before, outcome, callResult>>
  BY DEF Act
<1>2. Types' BY <1>1 DEF GatewayInv, Types, Marks
<1>3. StartedInBatch' /\ MarkedWhileRunning' /\ ReturnedDone' /\ MarkedMutating'
  BY <1>1 DEF GatewayInv, Types, StartedInBatch, MarkedWhileRunning, ReturnedDone,
              MarkedMutating, Batch, BatchFrom, ConcurrencySafe
<1>4. ResultTellsTheWorkspace'
  BY <1>1 DEF GatewayInv, Types, ResultTellsTheWorkspace
<1> QED BY <1>2, <1>3, <1>4 DEF GatewayInv

LEMMA ReportStep ==
  ASSUME GatewayInv, NEW i \in Invocations, Report(i)
  PROVE  GatewayInv'
<1>1. PICK said \in ResultStatuses, affected \in SUBSET Marks :
        /\ callStage' = [callStage EXCEPT ![i] = "finished"]
        /\ callResult' = [callResult EXCEPT ![i] = [status |-> said,
                                            affected |-> affected]]
        /\ i \in workspace => i \in affected
        /\ said \in {"error", "rejected"} => i \notin workspace
        /\ said = "ok" /\ script[i] \in Mutating => i \in workspace
  <2>1. /\ callStage[i] = "returned"
        /\ callStage' = [callStage EXCEPT ![i] = "finished"]
        /\ callResult' = [callResult EXCEPT ![i] = [status |-> Status(i),
                                            affected |-> Affected(i)]]
    BY DEF Report, Finish
  <2>2. Status(i) \in ResultStatuses /\ Affected(i) \in SUBSET Marks
    BY <2>1, StatusTells, AffectedType DEF GatewayInv
  <2>3. i \in workspace => i \in Affected(i) BY OwnMarkIsAffected
  <2>4. Status(i) \in {"error", "rejected"} => i \notin workspace
    BY <2>1, <2>3, StatusTells
  <2>5. Status(i) = "ok" /\ script[i] \in Mutating => i \in workspace
    BY <2>1, StatusTells DEF GatewayInv, ReturnedDone
  <2> QED BY <2>1, <2>2, <2>3, <2>4, <2>5
<1>2. UNCHANGED <<script, position, workspace, before, outcome>> BY DEF Report
<1>3. Types' BY <1>1, <1>2 DEF GatewayInv, Types, CallStages
<1>4. StartedInBatch' /\ MarkedWhileRunning' /\ ReturnedDone' /\ MarkedMutating'
  BY <1>1, <1>2 DEF GatewayInv, Types, StartedInBatch, MarkedWhileRunning,
              ReturnedDone, MarkedMutating, Batch, BatchFrom, ConcurrencySafe
<1>5. ResultTellsTheWorkspace'
  BY <1>1, <1>2 DEF GatewayInv, Types, ResultTellsTheWorkspace
<1> QED BY <1>3, <1>4, <1>5 DEF GatewayInv

\* A user's mark is no call's.
LEMMA UserEditsStep ==
  ASSUME GatewayInv, NEW e \in Edits, UserEdits(e)
  PROVE  GatewayInv'
<1>1. /\ e \notin Invocations /\ e \in Marks
      /\ workspace' = workspace \cup {e}
      /\ UNCHANGED <<script, position, callStage, before, outcome, callResult>>
  BY BoundsAssumption DEF UserEdits, Edits, Invocations, Marks
<1>2. Types' BY <1>1 DEF GatewayInv, Types
<1>3. StartedInBatch' /\ MarkedWhileRunning' /\ ReturnedDone' /\ MarkedMutating'
  BY <1>1 DEF GatewayInv, StartedInBatch, MarkedWhileRunning, ReturnedDone,
              MarkedMutating, Batch, BatchFrom, ConcurrencySafe
<1>4. ResultTellsTheWorkspace' BY <1>1 DEF GatewayInv, ResultTellsTheWorkspace
<1> QED BY <1>2, <1>3, <1>4 DEF GatewayInv

LEMMA StepPreserves == GatewayInv /\ [GatewayNext]_gatewayVars => GatewayInv'
<1> SUFFICES ASSUME GatewayInv, [GatewayNext]_gatewayVars PROVE GatewayInv'
  OBVIOUS
<1>1. CASE StartBatch BY <1>1, StartBatchStep
<1>2. CASE EndBatch BY <1>2, EndBatchStep
<1>3. CASE CancelAnswer BY <1>3, QuietStep DEF CancelAnswer
<1>4. ASSUME NEW i \in Invocations, CallStep(i) PROVE GatewayInv'
  BY <1>4, RejectStep, AdmitStep, EnterStep, ActStep, ReportStep, ReturnStep
     DEF CallStep
<1>5. ASSUME NEW i \in Invocations, CallExpires(i) PROVE GatewayInv'
  BY <1>5, QuietStep DEF CallExpires
<1>6. ASSUME NEW e \in Edits, UserEdits(e) PROVE GatewayInv'
  BY <1>6, UserEditsStep
<1>7. CASE UNCHANGED gatewayVars BY <1>7, QuietStep DEF gatewayVars, stageVars
<1> QED BY <1>1, <1>2, <1>3, <1>4, <1>5, <1>6, <1>7 DEF GatewayNext

LEMMA GatewayInvHolds == GatewaySpec => []GatewayInv
  BY InitEstablishes, StepPreserves, PTL DEF GatewaySpec

-----------------------------------------------------------------------------

\* A call that is not a concurrency-safe read is never under way beside another
\* call, however long the answer and however wide the batches.
THEOREM RunAlone == GatewaySpec => []SideEffectsRunAlone
<1>1. GatewayInv => SideEffectsRunAlone
  <2> SUFFICES ASSUME GatewayInv, NEW i \in Invocations, NEW j \in Invocations,
                      Underway(i), Underway(j), i # j
               PROVE  ConcurrencySafe(i) /\ ConcurrencySafe(j)
    BY DEF SideEffectsRunAlone
  <2>1. i \in Batch /\ j \in Batch BY DEF GatewayInv, StartedInBatch, Underway
  <2> QED BY <2>1, BatchOfSeveralIsSafe DEF GatewayInv, Types
<1> QED BY <1>1, GatewayInvHolds, PTL

\* No result lies about the workspace, whatever the tool, the token and the
\* user did meanwhile.
THEOREM ResultsAreTrue == GatewaySpec => []ResultTellsTheWorkspace
<1>1. GatewayInv => ResultTellsTheWorkspace BY DEF GatewayInv
<1> QED BY <1>1, GatewayInvHolds, PTL

\* A cancelled turn enters no further tool and starts no further batch.
THEOREM CancelStartsNothing == GatewaySpec => CancelledStartsNothing
<1>1. GatewayInv /\ [GatewayNext]_gatewayVars =>
        [turnCancelled => \A i \in Invocations :
           /\ callStage[i] # "running" => callStage'[i] # "running"
           /\ callStage[i] = "planned" => callStage'[i] = "planned"]_gatewayVars
  <2> SUFFICES ASSUME GatewayInv, GatewayNext, turnCancelled, NEW k \in Invocations
               PROVE  /\ callStage[k] # "running" => callStage'[k] # "running"
                      /\ callStage[k] = "planned" => callStage'[k] = "planned"
    OBVIOUS
  <2> callStage \in [Invocations -> CallStages] BY DEF GatewayInv, Types
  <2>1. CASE StartBatch BY <2>1 DEF StartBatch
  <2>2. CASE EndBatch BY <2>2 DEF EndBatch, stageVars
  <2>3. CASE CancelAnswer BY <2>3 DEF CancelAnswer
  <2>4. ASSUME NEW i \in Invocations, CallStep(i)
        PROVE  /\ callStage[k] # "running" => callStage'[k] # "running"
               /\ callStage[k] = "planned" => callStage'[k] = "planned"
    <3>1. CASE Reject(i) BY <3>1 DEF Reject, Finish
    <3>2. CASE Admit(i) BY <3>2 DEF Admit
    <3>3. CASE Enter(i) BY <3>3 DEF Enter, Control
    <3>4. CASE Act(i) BY <3>4 DEF Act
    <3>5. CASE Report(i) BY <3>5 DEF Report, Finish
    <3>6. CASE \E how \in CallOutcomes : ToolReturns(i, how) BY <3>6 DEF ToolReturns
    <3> QED BY <2>4, <3>1, <3>2, <3>3, <3>4, <3>5, <3>6 DEF CallStep
  <2>5. ASSUME NEW i \in Invocations, CallExpires(i) PROVE callStage' = callStage
    BY <2>5 DEF CallExpires, stageVars
  <2>6. ASSUME NEW e \in Edits, UserEdits(e) PROVE callStage' = callStage
    BY <2>6 DEF UserEdits
  <2>7. CASE UNCHANGED gatewayVars BY <2>7 DEF gatewayVars, stageVars
  <2> QED BY <2>1, <2>2, <2>3, <2>4, <2>5, <2>6, <2>7 DEF GatewayNext
<1> QED BY <1>1, GatewayInvHolds, PTL DEF GatewaySpec, CancelledStartsNothing

-----------------------------------------------------------------------------
(* What the host has taken note of.                                        *)

\* The results noted are those of the batches before, and of the call at hand
\* when it is a batch of its own and has come to its end.
NotedSoFar == \A k \in DOMAIN observed :
  \/ observed[k] < position
  \/ observed[k] = position /\ ~Parallel /\ callStage[position] = "finished"

\* What was reported was in the workspace by then, so it is in every snapshot
\* taken since.
ReportsAreOlder ==
  /\ \A i \in Invocations : callStage[i] = "finished" => callResult[i].affected \subseteq workspace
  /\ \A i, j \in Invocations :
       callStage[i] = "finished" /\ Underway(j) /\ script[j] \in Mutating =>
         callResult[i].affected \subseteq before[j]

NoteInv == NotesAreInOrder /\ NotedSoFar /\ ReportsAreOlder

\* A batch is an unbroken stretch of the answer.
LEMMA BatchIsAStretch ==
  ASSUME position \in 1..MaxCalls
  PROVE  /\ IsFiniteSet(Batch) /\ Cardinality(Batch) \in Nat \ {0}
         /\ Batch = position..(position + Cardinality(Batch) - 1)
         /\ position + Cardinality(Batch) - 1 <= MaxCalls
<1>0. MaxCalls \in Nat /\ MaxParallel \in Nat \ {0} /\ position \in Nat
  BY BoundsAssumption
<1>1. Batch \in SUBSET (1..MaxCalls) /\ position \in Batch
  BY <1>0 DEF Batch, BatchFrom
<1>2. PICK m \in Batch : \A y \in Batch : y <= m BY <1>0, <1>1, GreatestExists
<1>3. m \in position..MaxCalls BY <1>2 DEF Batch, BatchFrom
<1>4. Batch = position..m
  <2>1. Batch \subseteq position..m BY <1>0, <1>1, <1>2 DEF Batch, BatchFrom
  <2>2. ASSUME NEW k \in position..m
        PROVE  k \in Batch
    <3>1. CASE k = position BY <3>1, <1>1
    <3>2. CASE k # position BY <3>2, <1>0, <1>3 DEF Batch, BatchFrom
    <3> QED BY <3>1, <3>2
  <2> QED BY <2>1, <2>2
<1>5. IsFiniteSet(position..m) /\ Cardinality(position..m) = m - position + 1
  BY <1>0, <1>3, FS_Interval
<1>6. position + (m - position + 1) - 1 = m /\ m - position + 1 \in Nat \ {0}
  BY <1>0, <1>3
<1> QED BY <1>3, <1>4, <1>5, <1>6

\* Only a batch of one call is not run in parallel.
LEMMA AloneInBatch ==
  ASSUME position \in 1..MaxCalls, ~Parallel, NEW i \in Batch
  PROVE  i = position
<1>1. Cardinality(Batch) = 1 BY BatchIsAStretch DEF Parallel
<1> QED BY <1>1, BatchIsAStretch

LEMMA InOrderOfAStretch ==
  ASSUME NEW a \in Nat, NEW n \in Nat
  PROVE  CallsInOrder(a..(a + n - 1)) = [k \in 1..n |-> a + k - 1]
<1> DEFINE S == a..(a + n - 1)
           below(i) == {j \in S : j < i}
<1>1. Cardinality(S) = n BY FS_Interval
<1>2. ASSUME NEW i \in S
      PROVE  Cardinality(below(i)) = i - a
  <2>1. below(i) = a..(i - 1) OBVIOUS
  <2>2. Cardinality(a..(i - 1)) = i - a
    <3>1. a \in Int /\ i - 1 \in Int /\ i >= a OBVIOUS
    <3>2. Cardinality(a..(i - 1)) = IF a > i - 1 THEN 0 ELSE (i - 1) - a + 1
      BY <3>1, FS_Interval
    <3> QED BY <3>1, <3>2
  <2> QED BY <2>1, <2>2
<1> HIDE DEF below
<1>3. ASSUME NEW k \in 1..n
      PROVE  (CHOOSE i \in S : Cardinality(below(i)) = k - 1) = a + k - 1
  <2>1. a + k - 1 \in S OBVIOUS
  <2>2. Cardinality(below(a + k - 1)) = k - 1 BY <2>1, <1>2
  <2>3. \A i \in S : Cardinality(below(i)) = k - 1 => i = a + k - 1 BY <1>2
  <2> HIDE DEF S
  <2> QED BY <2>1, <2>2, <2>3
<1>4. CallsInOrder(S) =
        [k \in 1..Cardinality(S) |-> CHOOSE i \in S : Cardinality(below(i)) = k - 1]
  BY DEF CallsInOrder, below
<1> QED BY <1>1, <1>3, <1>4

Increasing(s) == \A k \in DOMAIN s : \A l \in 1..(k - 1) : s[l] < s[k]

LEMMA IncreasingConcat ==
  ASSUME NEW s \in Seq(Invocations), NEW u \in Seq(Invocations), Increasing(s), Increasing(u),
         NEW b \in Nat, \A k \in DOMAIN s : s[k] < b, \A k \in DOMAIN u : u[k] >= b
  PROVE  Increasing(s \o u)
<1> DEFINE c == s \o u
<1> SUFFICES ASSUME NEW k \in DOMAIN c, NEW l \in 1..(k - 1)
             PROVE  c[l] < c[k]
  BY DEF Increasing
<1>1. /\ DOMAIN c = 1..Len(s) + Len(u) /\ Len(s) \in Nat /\ DOMAIN s = 1..Len(s)
      /\ Len(u) \in Nat /\ DOMAIN u = 1..Len(u)
      /\ \A x \in DOMAIN s : s[x] \in Nat
      /\ \A x \in DOMAIN u : u[x] \in Nat
      /\ \A x \in 1..Len(s) + Len(u) : c[x] = IF x <= Len(s) THEN s[x] ELSE u[x - Len(s)]
  <2>1. /\ c \in Seq(Invocations) /\ Len(c) = Len(s) + Len(u)
        /\ \A x \in 1..Len(s) + Len(u) : c[x] = IF x <= Len(s) THEN s[x] ELSE u[x - Len(s)]
    BY ConcatProperties
  <2> HIDE DEF c
  <2>2. /\ Len(s) \in Nat /\ DOMAIN s = 1..Len(s) /\ Len(u) \in Nat /\ DOMAIN u = 1..Len(u)
        /\ \A x \in DOMAIN s : s[x] \in Invocations
        /\ \A x \in DOMAIN u : u[x] \in Invocations
    OBVIOUS
  <2>3. DOMAIN c = 1..Len(s) + Len(u) BY <2>1
  <2>4. \A x \in Invocations : x \in Nat BY DEF Invocations
  <2> QED BY <2>1, <2>2, <2>3, <2>4
<1> HIDE DEF c
<1>2. CASE k <= Len(s) BY <1>1, <1>2 DEF Increasing
<1>3. CASE k > Len(s) /\ l <= Len(s)
  <2>1. /\ l \in DOMAIN s /\ c[l] = s[l]
        /\ k - Len(s) \in DOMAIN u /\ c[k] = u[k - Len(s)]
    BY <1>1, <1>3
  <2> QED BY <1>1, <2>1
<1>4. CASE k > Len(s) /\ l > Len(s)
  <2>1. /\ l - Len(s) \in 1..(k - Len(s) - 1) /\ c[l] = u[l - Len(s)]
        /\ k - Len(s) \in DOMAIN u /\ c[k] = u[k - Len(s)]
    BY <1>1, <1>4
  <2> QED BY <2>1 DEF Increasing
<1> QED BY <1>1, <1>2, <1>3, <1>4

\* An increasing sequence of calls is no longer than the answer.
LEMMA IncreasingIsShort ==
  ASSUME NEW s \in Seq(Invocations), Increasing(s)
  PROVE  Len(s) <= MaxCalls
<1>0. /\ MaxCalls \in Nat /\ Len(s) \in Nat /\ DOMAIN s = 1..Len(s)
      /\ \A k \in DOMAIN s : s[k] \in 1..MaxCalls
  BY BoundsAssumption DEF Invocations
<1> DEFINE T == {k \in Nat : k \in DOMAIN s => s[k] >= k}
<1>1. 0 \in T BY <1>0
<1>2. ASSUME NEW n \in T
      PROVE  n + 1 \in T
  <2>1. CASE n + 1 \in DOMAIN s /\ n # 0
    <3>1. n \in DOMAIN s /\ n \in 1..(n + 1 - 1) BY <2>1, <1>0
    <3>2. s[n] < s[n + 1] /\ s[n] >= n /\ s[n] \in Nat /\ s[n + 1] \in Nat
      BY <2>1, <3>1, <1>0 DEF Increasing
    <3> QED BY <3>2
  <2>2. CASE n + 1 \notin DOMAIN s \/ n = 0 BY <2>2, <1>0
  <2> QED BY <2>1, <2>2
<1>3. T = Nat
  <2> HIDE DEF T
  <2>1. T \in SUBSET Nat BY DEF T
  <2> QED BY <1>1, <1>2, <2>1, SetInduction
<1>4. Len(s) \in DOMAIN s => s[Len(s)] >= Len(s) BY <1>0, <1>3
<1> QED BY <1>0, <1>4

\* A call that has finished stays so, and who started no longer finished.
LEMMA FinishedStays ==
  ASSUME GatewayInv, [GatewayNext]_gatewayVars
  PROVE  \A i \in Invocations : callStage[i] = "finished" => callStage'[i] = "finished"
<1> SUFFICES ASSUME NEW k \in Invocations, callStage[k] = "finished"
             PROVE  callStage'[k] = "finished"
  OBVIOUS
<1>0. callStage \in [Invocations -> CallStages] BY DEF GatewayInv, Types
<1>1. CASE StartBatch BY <1>0, <1>1 DEF StartBatch
<1>2. ASSUME NEW i \in Invocations, CallStep(i) PROVE callStage'[k] = "finished"
  BY <1>0, <1>2 DEF CallStep, Reject, Admit, Enter, Act, ToolReturns, Report, Finish
<1>3. CASE UNCHANGED callStage BY <1>3
<1> QED
  BY <1>1, <1>2, <1>3 DEF GatewayNext, EndBatch, CancelAnswer, CallExpires, UserEdits,
       stageVars, gatewayVars

\* The host's notes: a batch of one call is noted by the call's thread when it
\* ends, a parallel one by the batch, in the order of the answer.
LEMMA NotesKept ==
  ASSUME GatewayInv, TypeOK, ObservedInOrder, NotedSoFar, [GatewayNext]_gatewayVars
  PROVE  /\ position' \in 1..(MaxCalls + 1)
         /\ observed' \in Seq(Invocations) /\ Len(observed') <= MaxCalls
         /\ ObservedInOrder' /\ NotedSoFar'
<1>0. /\ position \in 1..(MaxCalls + 1) /\ MaxCalls \in Nat /\ position \in Nat
      /\ observed \in Seq(Invocations) /\ Len(observed) <= MaxCalls
      /\ Increasing(observed) /\ Invocations \in SUBSET Nat
      /\ \A k \in DOMAIN observed : observed[k] \in Invocations
  BY BoundsAssumption DEF TypeOK, ObservedInOrder, Increasing, Invocations
<1>1. CASE UNCHANGED <<position, observed>>
  <2>1. UNCHANGED script
    BY DEF GatewayNext, StartBatch, EndBatch, CancelAnswer, CallStep, Reject, Admit,
         Enter, Act, ToolReturns,
           Report, CallExpires, UserEdits, gatewayVars
  <2>2. Parallel' <=> Parallel
    BY <1>1, <2>1 DEF Parallel, Batch, BatchFrom, ConcurrencySafe
  <2>3. NotedSoFar' BY <1>0, <1>1, <2>2, FinishedStays DEF NotedSoFar
  <2> QED BY <1>0, <1>1, <2>3 DEF ObservedInOrder
<1>2. ASSUME NEW i \in Invocations, Report(i), ~Parallel
      PROVE  /\ position' = position /\ observed' \in Seq(Invocations) /\ Increasing(observed')
             /\ NotedSoFar'
  <2>1. /\ observed' = Append(observed, i) /\ UNCHANGED <<position, script>>
        /\ callStage[i] = "returned" /\ callStage'[i] = "finished"
    BY <1>2 DEF Report, Observe, Finish, GatewayInv, Types
  <2>2. i \in Batch BY <2>1 DEF GatewayInv, StartedInBatch
  <2>3. position \in 1..MaxCalls BY <1>0, <2>2 DEF Batch, BatchFrom
  <2>4. i = position BY <1>2, <2>2, <2>3, AloneInBatch
  <2>5. \A k \in DOMAIN observed : observed[k] < i BY <2>1, <2>4 DEF NotedSoFar
  <2>6. /\ <<i>> \in Seq(Invocations) /\ Increasing(<<i>>) /\ \A k \in DOMAIN <<i>> : <<i>>[k] >= i
        /\ Append(observed, i) = observed \o <<i>> /\ i \in Nat
    BY <1>0 DEF Increasing
  <2>7. Increasing(observed \o <<i>>) BY <1>0, <2>5, <2>6, IncreasingConcat
  <2>8. Parallel' <=> Parallel
    BY <2>1 DEF Parallel, Batch, BatchFrom, ConcurrencySafe
  <2>9. \A k \in DOMAIN observed' : observed'[k] < position \/ observed'[k] = position
    BY <1>0, <2>1, <2>4, <2>5
  <2>10. NotedSoFar' BY <1>2, <2>1, <2>4, <2>8, <2>9 DEF NotedSoFar
  <2> QED BY <1>0, <2>1, <2>6, <2>7, <2>10
<1>3. ASSUME EndBatch
      PROVE  /\ position' \in 1..(MaxCalls + 1)
             /\ observed' \in Seq(Invocations) /\ Increasing(observed') /\ NotedSoFar'
  <2> DEFINE n == Cardinality(Batch)
  <2>1. /\ position \in 1..MaxCalls /\ position' = position + n
        /\ observed' = IF Parallel THEN observed \o CallsInOrder(Batch) ELSE observed
    BY <1>0, <1>3 DEF EndBatch
  <2>2. /\ n \in Nat \ {0} /\ Batch = position..(position + n - 1)
        /\ position + n - 1 <= MaxCalls
    BY <2>1, BatchIsAStretch
  <2> HIDE DEF n
  <2>3. /\ position' \in 1..(MaxCalls + 1) /\ position' = position + n
        /\ \A x \in Nat : x <= position => x < position + n
    BY <1>0, <2>1, <2>2
  <2>0. \A k \in DOMAIN observed : observed[k] \in Nat /\ observed[k] <= position
    <3>1. \A k \in DOMAIN observed : observed[k] \in Nat BY <1>0
    <3> QED BY <1>0, <3>1 DEF NotedSoFar
  <2>4. CASE ~Parallel BY <2>1, <2>4, <2>0, <2>3, <1>0 DEF NotedSoFar
  <2>5. CASE Parallel
    <3> DEFINE u == [k \in 1..n |-> position + k - 1]
    <3>1. CallsInOrder(Batch) = u BY <1>0, <2>2, InOrderOfAStretch DEF n
    <3>2. \A k \in 1..n : position + k - 1 \in Invocations
      BY <1>0, <2>2 DEF Invocations
    <3>3. /\ u \in Seq(Invocations) /\ DOMAIN u = 1..n BY <2>2, <3>2
    <3>4. Increasing(u) /\ \A k \in DOMAIN u : u[k] >= position
      BY <1>0, <2>2 DEF Increasing
    <3>5. \A k \in DOMAIN observed : observed[k] < position
      BY <2>5 DEF NotedSoFar
    <3>6. Increasing(observed \o u) BY <1>0, <3>3, <3>4, <3>5, IncreasingConcat
    <3>7. observed' = observed \o u BY <2>1, <2>5, <3>1
    <3>8. \A x \in ToSet(observed \o u) : x < position + n
      <4>1. ToSet(observed \o u) = ToSet(observed) \cup ToSet(u)
        BY ZenonT(60), <1>0, <3>3, ConcatElements
      <4>2. \A x \in ToSet(observed) : x < position + n BY <2>0, <2>3 DEF ToSet
      <4>3. \A x \in ToSet(u) : x < position + n BY <1>0, <2>2 DEF ToSet
      <4> QED BY <4>1, <4>2, <4>3
    <3>9. observed \o u \in Seq(Invocations) BY <1>0, <3>3, ConcatElements
    <3> HIDE DEF u
    <3>10. NotedSoFar' BY <2>3, <3>7, <3>8 DEF NotedSoFar, ToSet
    <3> QED BY <2>3, <3>6, <3>7, <3>9, <3>10
  <2> QED BY <2>4, <2>5
<1>4. ASSUME position' \in 1..(MaxCalls + 1), observed' \in Seq(Invocations),
             Increasing(observed'), NotedSoFar'
      PROVE  /\ Len(observed') <= MaxCalls /\ ObservedInOrder'
  BY <1>4, IncreasingIsShort DEF Increasing, ObservedInOrder
<1>5. ASSUME NEW i \in Invocations, CallStep(i)
      PROVE  UNCHANGED <<position, observed>> \/ (Report(i) /\ ~Parallel)
  BY <1>5 DEF CallStep, Reject, Admit, Enter, Act, ToolReturns, Report, Observe
<1>6. \/ UNCHANGED <<position, observed>> \/ EndBatch
      \/ \E i \in Invocations : Report(i) /\ ~Parallel
  BY <1>5 DEF GatewayNext, StartBatch, CancelAnswer, CallExpires, UserEdits, gatewayVars
<1> QED BY <1>0, <1>1, <1>2, <1>3, <1>4, <1>6

\* Steps after which no call has newly finished, been admitted, or lost a mark.
LEMMA ReportsUntouched ==
  ASSUME ReportsAreOlder, ChangeIsReportedOnce, UNCHANGED <<script, callResult, before>>,
         workspace \subseteq workspace',
         \A i \in Invocations : /\ callStage'[i] = "finished" => callStage[i] = "finished"
                                /\ Underway(i)' => Underway(i)
  PROVE  ReportsAreOlder' /\ ChangeIsReportedOnce'
<1>1. ReportsAreOlder' BY DEF ReportsAreOlder
<1> QED BY <1>1 DEF ChangeIsReportedOnce

\* A new snapshot is taken of a workspace that holds all that was reported, and
\* what a call reports beyond its snapshot is new.
LEMMA ReportsKept ==
  ASSUME GatewayInv, TypeOK, ReportsAreOlder, ChangeIsReportedOnce, [GatewayNext]_gatewayVars
  PROVE  ReportsAreOlder' /\ ChangeIsReportedOnce'
<1>0. /\ callStage \in [Invocations -> CallStages] /\ before \in [Invocations -> SUBSET Marks]
      /\ callResult \in [Invocations -> [status : ResultStatuses, affected : SUBSET Marks]]
      /\ position \in Nat
  BY DEF GatewayInv, Types
<1>1. CASE StartBatch BY <1>0, <1>1, ReportsUntouched DEF StartBatch, Underway
<1>2. ASSUME NEW c \in Invocations, Enter(c) \/ Act(c) \/ \E how \in CallOutcomes : ToolReturns(c, how)
      PROVE  ReportsAreOlder' /\ ChangeIsReportedOnce'
  BY <1>2, <1>0, ReportsUntouched DEF Enter, Act, ToolReturns, Underway
<1>3. CASE UNCHANGED <<script, stageVars>>
  BY <1>3, ReportsUntouched DEF stageVars, Underway
<1>4. ASSUME NEW e \in Edits, UserEdits(e)
      PROVE  ReportsAreOlder' /\ ChangeIsReportedOnce'
  BY <1>4, ReportsUntouched DEF UserEdits, Underway
<1>5. ASSUME NEW c \in Invocations, Reject(c)
      PROVE  ReportsAreOlder' /\ ChangeIsReportedOnce'
  BY <1>5, <1>0 DEF Reject, Finish, Underway, ReportsAreOlder, ChangeIsReportedOnce
<1>6. ASSUME NEW c \in Invocations, Admit(c)
      PROVE  ReportsAreOlder' /\ ChangeIsReportedOnce'
  BY <1>6, <1>0 DEF Admit, Underway, ReportsAreOlder, ChangeIsReportedOnce
<1>7. ASSUME NEW c \in Invocations, Report(c)
      PROVE  ReportsAreOlder' /\ ChangeIsReportedOnce'
  <2>1. /\ callStage[c] = "returned" /\ callStage' = [callStage EXCEPT ![c] = "finished"]
        /\ callResult' = [callResult EXCEPT ![c] = [status |-> Status(c),
                                            affected |-> Affected(c)]]
        /\ UNCHANGED <<script, workspace, before>>
    BY <1>7 DEF Report, Finish
  <2>2. /\ callResult'[c].affected = Affected(c)
        /\ \A i \in Invocations \ {c} : callResult'[i] = callResult[i] /\ callStage'[i] = callStage[i]
        /\ \A i \in Invocations : Underway(i)' => Underway(i) /\ i # c
        /\ Underway(c)
    BY <1>0, <2>1 DEF Underway
  <2>3. \A j \in Invocations : Underway(j) /\ j # c /\ script[j] \in Mutating => Affected(c) = {}
    <3> SUFFICES ASSUME NEW j \in Invocations, Underway(j), j # c
                 PROVE  script[j] \notin Mutating
      OBVIOUS
    <3>1. j \in Batch /\ c \in Batch
      BY <2>2 DEF GatewayInv, StartedInBatch, Underway
    <3>2. ConcurrencySafe(j) BY <1>0, <3>1, BatchOfSeveralIsSafe
    <3> QED BY <3>2 DEF ConcurrencySafe, Mutating
  <2>4. /\ Affected(c) \subseteq workspace
        /\ \A j \in Invocations : callStage[j] = "finished" =>
              callResult[j].affected \cap Affected(c) = {}
    BY <2>2 DEF Affected, ReportsAreOlder
  <2>5. ReportsAreOlder' BY <2>1, <2>2, <2>3, <2>4 DEF ReportsAreOlder
  <2>6. ChangeIsReportedOnce' BY <2>2, <2>4 DEF ChangeIsReportedOnce
  <2> QED BY <2>5, <2>6
<1>8. CASE UNCHANGED gatewayVars BY <1>3, <1>8 DEF gatewayVars, stageVars
<1> QED BY <1>1, <1>2, <1>3, <1>4, <1>5, <1>6, <1>7, <1>8
     DEF GatewayNext, CallStep, EndBatch, CancelAnswer, CallExpires

\* The host takes note of each result once and in the order of the answer, and
\* a change of the workspace that no call made is in one report at most.
THEOREM NotesStayInOrder == GatewaySpec => []NotesAreInOrder
<1>1. GatewayInit => NoteInv
  <2> SUFFICES ASSUME GatewayInit PROVE NoteInv OBVIOUS
  <2>1. TypeOK
    <3>1. Types BY InitEstablishes DEF GatewayInv
    <3>2. /\ position \in 1..(MaxCalls + 1)
          /\ observed \in Seq(Invocations) /\ Len(observed) <= MaxCalls
      BY BoundsAssumption DEF GatewayInit
    <3>3. script \in [Invocations -> Tools] /\ turnCancelled \in BOOLEAN /\ late \subseteq Invocations
          /\ halted \in BOOLEAN
      BY DEF GatewayInit
    <3> QED BY <3>1, <3>2, <3>3 DEF TypeOK, Types
  <2>2. ObservedInOrder /\ NotedSoFar /\ ReportsAreOlder /\ ChangeIsReportedOnce
    BY DEF GatewayInit, ObservedInOrder, NotedSoFar, ReportsAreOlder, ChangeIsReportedOnce,
           Underway
  <2> QED BY <2>1, <2>2 DEF NoteInv, NotesAreInOrder
<1>2. GatewayInv /\ GatewayInv' /\ NoteInv /\ [GatewayNext]_gatewayVars => NoteInv'
  <2> SUFFICES ASSUME GatewayInv, GatewayInv', NoteInv, [GatewayNext]_gatewayVars PROVE NoteInv'
    OBVIOUS
  <2>1. TypeOK /\ ObservedInOrder /\ NotedSoFar /\ ReportsAreOlder /\ ChangeIsReportedOnce
    BY DEF NoteInv, NotesAreInOrder
  <2>2. /\ script' = script /\ turnCancelled' \in BOOLEAN
        /\ late' \subseteq Invocations /\ halted' \in BOOLEAN
    <3>1. script' = script
      BY DEF GatewayNext, StartBatch, EndBatch, CancelAnswer, CallStep, Reject, Admit,
           Enter, Act, ToolReturns,
             Report, CallExpires, UserEdits, gatewayVars
    <3>2. late' \subseteq Invocations
      BY <2>1 DEF TypeOK, GatewayNext, StartBatch, EndBatch, CancelAnswer, CallStep,
           Reject, Admit, Enter,
             Act, ToolReturns, Report, CallExpires, UserEdits, gatewayVars, envVars
    <3>3. turnCancelled' \in BOOLEAN
      BY <2>1 DEF TypeOK, GatewayNext, StartBatch, EndBatch, CancelAnswer, CallStep,
           Reject, Admit, Enter,
             Act, ToolReturns, Report, CallExpires, UserEdits, gatewayVars, envVars
    <3>4. halted' \in BOOLEAN
      BY <2>1 DEF TypeOK, GatewayNext, StartBatch, EndBatch, CancelAnswer, CallStep,
           Reject, Admit, Enter,
             Act, ToolReturns, Report, CallExpires, UserEdits, gatewayVars, envVars
    <3> QED BY <3>1, <3>2, <3>3, <3>4
  <2>3. /\ position' \in 1..(MaxCalls + 1)
        /\ observed' \in Seq(Invocations) /\ Len(observed') <= MaxCalls
        /\ ObservedInOrder' /\ NotedSoFar'
    BY <2>1, NotesKept
  <2>4. ReportsAreOlder' /\ ChangeIsReportedOnce' BY <2>1, ReportsKept
  <2>5. TypeOK' BY <2>1, <2>2, <2>3 DEF TypeOK, GatewayInv, Types
  <2> QED BY <2>3, <2>4, <2>5 DEF NoteInv, NotesAreInOrder
<1>3. NoteInv => NotesAreInOrder BY DEF NoteInv
<1> QED BY <1>1, <1>2, <1>3, GatewayInvHolds, PTL DEF GatewaySpec

-----------------------------------------------------------------------------
(* ProviderChain                                                           *)

\* Until there is an answer, there is one failure for each provider whose turn
\* has passed, and all that was shown is of the one whose turn it is.  The
\* callback is in the token only while a response is read.
Attempts == [by : Nat, category : Safe \cup Firm]
ChainShape ==
  /\ chain \in Seq(Nat \ {0}) /\ turnOf \in 1..Len(chain)
  /\ httpAt \in HttpPlaces /\ tried \in Nat /\ tried < chain[turnOf]
  /\ shown \in Seq(Nat) /\ failures \in Seq(Attempts)
  /\ {streams, stopped, hooked, shut, final, stale} \subseteq BOOLEAN
VoicesFit ==
  /\ \A k \in 1..Len(shown) : shown[k] = turnOf
  /\ \A k \in 1..Len(failures) :
       failures[k].by = k /\ (k < turnOf => failures[k].category \in Safe)
  /\ httpAt # "done" => answer = Nothing /\ Len(failures) = turnOf - 1
AnswerFits ==
  /\ answer.kind \in Safe \cup Firm \cup {"pending", "result", "cancelled", "unexpected"}
  /\ answer.kind = "result" => answer.from = turnOf /\ Len(failures) = turnOf - 1
  /\ answer.kind \in Safe => turnOf = Len(chain) \/ shown # <<>>
TokenFits ==
  /\ stale => stopped /\ (httpAt = "begin" \/ answer.kind = "cancelled")
  /\ httpAt \in {"hook", "read", "pass", "plain"} => streams
  /\ hooked => httpAt \in {"read", "pass", "plain"}
ChainFits == ChainShape /\ VoicesFit /\ AnswerFits /\ TokenFits

LEMMA ChainBegins == ChainInit => ChainFits
<1> SUFFICES ASSUME ChainInit PROVE ChainFits OBVIOUS
<1>1. chain \in Seq(Nat \ {0}) /\ Len(chain) > 0 /\ Len(chain) \in Nat
  BY ChainAssumption DEF ChainInit
<1>2. chain[1] \in Nat \ {0} BY <1>1
<1>3. ChainShape
  <2>1. {streams, stopped, hooked, shut, final, stale} \subseteq BOOLEAN
    BY DEF ChainInit
  <2>2. turnOf \in 1..Len(chain) /\ tried \in Nat /\ tried < chain[turnOf]
    BY <1>1, <1>2 DEF ChainInit
  <2>3. shown \in Seq(Nat) /\ failures \in Seq(Attempts) /\ httpAt \in HttpPlaces
    BY DEF ChainInit, HttpPlaces
  <2> QED BY <1>1, <2>1, <2>2, <2>3 DEF ChainShape
<1>4. VoicesFit /\ AnswerFits /\ TokenFits
  BY DEF ChainInit, VoicesFit, AnswerFits, TokenFits, Nothing, Safe, Firm
<1> QED BY <1>3, <1>4 DEF ChainFits

\* From one place to another of the same turn; a callback is left behind
\* nowhere, and none is added where nothing is read.
LEMMA ChainSteps ==
  ASSUME ChainFits, UNCHANGED <<chain, streams>>, httpAt # "done",
         NEW place \in HttpPlaces \ {"done", "begin"}, Step(place),
         hooked' \in BOOLEAN, shut' \in BOOLEAN, final' \in BOOLEAN,
         hooked' => place \in {"read", "pass", "plain"},
         place \in {"hook", "read", "pass", "plain"} => streams,
         stale => httpAt # "begin" \/ ~stopped
  PROVE  ChainFits'
<1> USE DEF ChainFits, Step
<1>1. ChainShape' BY DEF ChainShape
<1>2. VoicesFit' /\ AnswerFits' BY DEF VoicesFit, AnswerFits
<1>3. TokenFits' BY DEF TokenFits, VoicesFit, Nothing
<1> QED BY <1>1, <1>2, <1>3

\* An event is passed on by the provider whose turn it is.
LEMMA ChainPasses ==
  ASSUME ChainFits, UNCHANGED <<chain, streams>>, httpAt # "done",
         NEW place \in {"read", "plain", "result"}, ~stopped, PassedOn(place),
         hooked => place \in {"read", "plain"}, streams
  PROVE  ChainFits'
<1> USE DEF ChainFits
<1>0. /\ shown' = Append(shown, turnOf) /\ httpAt' = place
      /\ UNCHANGED <<turnOf, tried, stopped, failures, answer, stale, hooked, shut, final>>
  BY DEF PassedOn, responseVars
<1>1. ChainShape' BY <1>0 DEF ChainShape, HttpPlaces
<1>2. VoicesFit' BY <1>0, AppendProperties DEF ChainShape, VoicesFit
<1>3. AnswerFits' BY <1>0 DEF AnswerFits, VoicesFit, Nothing, Safe, Firm
<1>4. TokenFits' BY <1>0 DEF TokenFits
<1> QED BY <1>1, <1>2, <1>3, <1>4

\* The end without a failure of a provider.
LEMMA ChainLeaves ==
  ASSUME ChainFits, UNCHANGED <<chain, streams>>, httpAt # "done",
         NEW e \in {"cancelled", "unexpected"}, Leave(e),
         e = "unexpected" => ~stopped
  PROVE  ChainFits'
<1> USE DEF ChainFits
<1>0. /\ httpAt' = "done" /\ answer' = [kind |-> e, from |-> 0, failed |-> Len(failures')]
      /\ UNCHANGED <<turnOf, tried, stale, shown, stopped, failures>>
      /\ hooked' = FALSE /\ shut' = FALSE /\ final' = FALSE
  BY DEF Leave, Raise, LetGo
<1>1. ChainShape' BY <1>0 DEF ChainShape, HttpPlaces
<1>2. VoicesFit' BY <1>0 DEF VoicesFit
<1>3. AnswerFits' BY <1>0 DEF AnswerFits, Safe, Firm
<1>4. TokenFits' BY <1>0 DEF TokenFits
<1> QED BY <1>1, <1>2, <1>3, <1>4

\* The failure of the provider whose turn it is: the turn is the next one's, or
\* the request is over.
LEMMA ChainFails ==
  ASSUME ChainFits, UNCHANGED <<chain, streams>>, httpAt \notin {"begin", "done"},
         NEW e \in Safe \cup Firm, Fail(e)
  PROVE  ChainFits'
<1> USE DEF ChainFits
<1>0. /\ failures' = Append(failures, [by |-> turnOf, category |-> e])
      /\ UNCHANGED <<shown, stopped>>
      /\ hooked' = FALSE /\ shut' = FALSE /\ final' = FALSE
  BY DEF Fail, LetGo
<1>1. ~stale BY DEF TokenFits, VoicesFit, Nothing
<1>2. turnOf \in Nat /\ failures \in Seq(Attempts) /\ Len(failures) = turnOf - 1
  BY DEF ChainShape, VoicesFit
<1>3. /\ failures' \in Seq(Attempts) /\ Len(failures') = turnOf
      /\ failures'[turnOf] = [by |-> turnOf, category |-> e]
      /\ \A k \in 1..(turnOf - 1) : failures'[k] = failures[k]
  BY <1>2, <1>0, AppendProperties DEF Attempts
<1>4. \A k \in 1..turnOf : failures'[k].by = k /\ (k < turnOf => failures'[k].category \in Safe)
  <2> SUFFICES ASSUME NEW k \in 1..turnOf
               PROVE  failures'[k].by = k /\ (k < turnOf => failures'[k].category \in Safe)
    OBVIOUS
  <2>1. CASE k = turnOf BY <1>2, <1>3, <2>1
  <2>2. CASE k # turnOf BY <1>2, <2>2, <1>3 DEF VoicesFit
  <2> QED BY <2>1, <2>2
<1>5. CASE MayContinue(e)
  <2>1. /\ turnOf' = turnOf + 1 /\ httpAt' = "begin" /\ tried' = 0
        /\ stale' = stopped /\ answer' = answer
    BY <1>5 DEF Fail
  <2>2. shown = <<>> /\ e \in Safe /\ turnOf < Len(chain) /\ Len(chain) \in Nat
        /\ turnOf + 1 \in 1..Len(chain)
    BY <1>5, <1>2 DEF MayContinue, ChainShape
  <2>3. ChainShape'
    <3>1. chain[turnOf + 1] \in Nat \ {0} BY <2>2 DEF ChainShape
    <3>2. turnOf' \in 1..Len(chain') /\ tried' \in Nat /\ tried' < chain'[turnOf']
      BY <2>1, <2>2, <3>1
    <3>3. {streams', stopped', hooked', shut', final', stale'} \subseteq BOOLEAN
      BY <1>0, <2>1 DEF ChainShape
    <3>4. shown' \in Seq(Nat) /\ chain' \in Seq(Nat \ {0})
      BY <1>0 DEF ChainShape
    <3> QED BY <1>3, <2>1, <3>2, <3>3, <3>4 DEF ChainShape, HttpPlaces
  <2>4. VoicesFit' BY <1>3, <1>2, <1>4, <2>2, <1>0, <2>1 DEF VoicesFit
  <2>5. AnswerFits' BY <2>1 DEF AnswerFits, VoicesFit, Nothing, Safe, Firm
  <2>6. TokenFits' BY <1>0, <2>1 DEF TokenFits
  <2> QED BY <2>3, <2>4, <2>5, <2>6
<1>6. CASE ~MayContinue(e)
  <2>1. /\ httpAt' = "done" /\ answer' = [kind |-> e, from |-> 0, failed |-> Len(failures')]
        /\ UNCHANGED <<turnOf, tried, stale>>
    BY <1>6 DEF Fail, Raise
  <2>2. ChainShape' BY <1>0, <1>3, <2>1 DEF ChainShape, HttpPlaces
  <2>3. VoicesFit' BY <1>0, <1>3, <1>4, <2>1 DEF VoicesFit
  <2>4. AnswerFits'
    BY <2>1, <1>2, <1>6, <1>0 DEF ChainShape, MayContinue, AnswerFits, Safe, Firm
  <2>5. TokenFits' BY <1>0, <1>1, <2>1 DEF TokenFits
  <2> QED BY <2>2, <2>3, <2>4, <2>5
<1> QED BY <1>5, <1>6

LEMMA ChainIOFails ==
  ASSUME ChainFits, UNCHANGED <<chain, streams>>, httpAt \notin {"begin", "done"},
         NEW e \in {"connection", "unexpected"}, IOFails(e)
  PROVE  ChainFits'
<1>1. CASE stopped BY <1>1, ChainLeaves DEF IOFails
<1>2. CASE ~stopped /\ e = "unexpected" BY <1>2, ChainLeaves DEF IOFails
<1>3. CASE ~stopped /\ e = "connection" BY <1>3, ChainFails DEF IOFails, Safe
<1> QED BY <1>1, <1>2, <1>3

LEMMA ChainMoves ==
  ASSUME ChainFits, ChainNext
  PROVE  ChainFits'
<1>0. UNCHANGED <<chain, streams>> BY DEF ChainNext
<1>1. {streams, stopped, hooked, shut, final, stale} \subseteq BOOLEAN /\ (stale => stopped)
      /\ (httpAt \in {"hook", "read", "pass", "plain"} => streams)
      /\ (hooked => httpAt \in {"read", "pass", "plain"})
      /\ (stale /\ httpAt # "done" => httpAt = "begin")
  BY DEF ChainFits, ChainShape, TokenFits, VoicesFit, Nothing
<1> USE DEF Asked, responseVars
<1>2. CASE Begin
  <2>1. CASE stopped BY <1>0, <1>2, <2>1, ChainLeaves DEF Begin
  <2>2. CASE ~stopped
    BY <1>0, <1>1, <1>2, <2>2, ChainSteps DEF Begin, HttpPlaces
  <2> QED BY <2>1, <2>2
<1>3. CASE Send
  <2>1. CASE Step("body") /\ UNCHANGED responseVars
    BY <1>0, <1>1, <1>3, <2>1, ChainSteps DEF Send, HttpPlaces
  <2>2. ASSUME tried + 1 < chain[turnOf],
               httpAt' = "pause", tried' = tried + 1,
               UNCHANGED <<turnOf, stopped, shown, failures, answer, stale, responseVars>>
        PROVE  ChainFits'
    <3>1. ChainShape' BY <1>0, <2>2 DEF ChainFits, ChainShape, HttpPlaces
    <3>2. VoicesFit' /\ AnswerFits'
      BY <1>0, <1>3, <2>2 DEF ChainFits, VoicesFit, AnswerFits, Send
    <3>3. TokenFits' BY <1>0, <1>1, <1>3, <2>2 DEF TokenFits, Send
    <3> QED BY <3>1, <3>2, <3>3 DEF ChainFits
  <2>3. ASSUME NEW e \in Safe \cup Firm, Fail(e) PROVE ChainFits'
    BY <1>0, <1>3, <2>3, ChainFails DEF Send
  <2> QED BY <1>3, <2>1, <2>2, <2>3 DEF Send
<1>4. CASE Pause BY <1>0, <1>1, <1>4, ChainSteps DEF Pause, HttpPlaces
<1>5. CASE Body
  <2>1. CASE stopped BY <1>0, <1>5, <2>1, ChainLeaves DEF Body
  <2>2. CASE ~stopped /\ Unreadable
    BY <1>0, <1>5, <2>2, ChainFails DEF Body, Unreadable, Firm
  <2>3. CASE ~stopped /\ Step("result") /\ UNCHANGED responseVars
    BY <1>0, <1>1, <1>5, <2>3, ChainSteps DEF Body, HttpPlaces
  <2> QED BY <1>5, <2>1, <2>2, <2>3 DEF Body
<1>6. CASE Open
  <2>1. CASE Step("hook") /\ UNCHANGED responseVars
    BY <1>0, <1>1, <1>6, <2>1, ChainSteps DEF Open, HttpPlaces
  <2>2. ASSUME NEW e \in Safe \cup Firm, Fail(e) PROVE ChainFits'
    BY <1>0, <1>6, <2>2, ChainFails DEF Open
  <2>3. ASSUME NEW e \in {"connection", "unexpected"}, IOFails(e) PROVE ChainFits'
    BY <1>0, <1>6, <2>3, ChainIOFails DEF Open
  <2> QED BY <1>6, <2>1, <2>2, <2>3 DEF Open
<1>7. CASE Hook
  <2>1. CASE stopped BY <1>0, <1>7, <2>1, ChainLeaves DEF Hook
  <2>2. CASE ~stopped BY <1>0, <1>1, <1>7, <2>2, ChainSteps DEF Hook, HttpPlaces
  <2> QED BY <2>1, <2>2
<1>8. CASE ReadLine
  <2>1. CASE stopped BY <1>0, <1>8, <2>1, ChainLeaves DEF ReadLine
  <2>2. CASE ~stopped /\ Step("pass") /\ UNCHANGED responseVars
    BY <1>0, <1>1, <1>8, <2>2, ChainSteps DEF ReadLine, HttpPlaces
  <2>3. CASE ~stopped /\ Step("read") /\ final' = TRUE /\ UNCHANGED <<hooked, shut>>
    BY <1>0, <1>1, <1>8, <2>3, ChainSteps DEF ReadLine, HttpPlaces
  <2>4. CASE ~stopped /\ Unreadable
    BY <1>0, <1>8, <2>4, ChainFails DEF ReadLine, Unreadable, Firm
  <2> QED BY <1>8, <2>1, <2>2, <2>3, <2>4 DEF ReadLine
<1>9. CASE Exhausted
  <2>1. CASE stopped BY <1>0, <1>9, <2>1, ChainLeaves DEF Exhausted
  <2>2. CASE ~stopped /\ ~final
    BY <1>0, <1>9, <2>2, ChainFails DEF Exhausted, Firm
  <2>3. CASE ~stopped /\ final
    BY <1>0, <1>1, <1>9, <2>3, ChainSteps DEF Exhausted, HttpPlaces, LetGo
  <2> QED BY <2>1, <2>2, <2>3
<1>10. CASE Broken BY <1>0, <1>10, ChainIOFails DEF Broken
<1>11. CASE PlainBody
  <2>1. CASE shut /\ Unreadable
    BY <1>0, <1>11, <2>1, ChainFails DEF PlainBody, Unreadable, Firm
  <2>2. CASE stopped /\ Leave("cancelled")
    BY <1>0, <1>11, <2>2, ChainLeaves DEF PlainBody
  <2>3. CASE ~stopped /\ Step("plain") /\ UNCHANGED responseVars
    BY <1>0, <1>1, <1>11, <2>3, ChainSteps DEF PlainBody, HttpPlaces
  <2> QED BY <1>11, <2>1, <2>2, <2>3 DEF PlainBody
<1>12. CASE Pass
  <2>1. CASE stopped BY <1>0, <1>12, <2>1, ChainLeaves DEF Pass, PassedOn
  <2>2. CASE ~stopped BY <1>0, <1>1, <1>12, <2>2, ChainPasses DEF Pass
  <2> QED BY <2>1, <2>2
<1>13. CASE Events
  <2>1. CASE stopped /\ PassedOn("plain")
    BY <1>0, <1>13, <2>1, ChainLeaves DEF Events, PassedOn
  <2>2. CASE ~stopped /\ PassedOn("plain")
    BY <1>0, <1>1, <1>13, <2>2, ChainPasses DEF Events
  <2>3. CASE Step("result") /\ LetGo /\ UNCHANGED <<shut, final>>
    BY <1>0, <1>1, <1>13, <2>3, ChainSteps DEF Events, HttpPlaces, LetGo
  <2> QED BY <1>13, <2>1, <2>2, <2>3 DEF Events
<1>14. CASE Result
  <2>1. CASE stopped BY <1>0, <1>14, <2>1, ChainLeaves DEF Result
  <2>2. CASE ~stopped /\ streams /\ PassedOn("result")
    BY <1>0, <1>1, <1>14, <2>2, ChainPasses DEF Result
  <2>3. CASE /\ ~stopped /\ httpAt' = "done"
             /\ answer' = [kind |-> "result", from |-> turnOf, failed |-> Len(failures)]
             /\ UNCHANGED <<turnOf, tried, stopped, shown, failures, stale, responseVars>>
    <3>1. ChainShape' BY <1>0, <2>3 DEF ChainFits, ChainShape, HttpPlaces
    <3>2. VoicesFit' BY <2>3 DEF ChainFits, VoicesFit
    <3>3. AnswerFits'
      BY <1>14, <2>3 DEF ChainFits, VoicesFit, AnswerFits, Result, Safe, Firm
    <3>4. TokenFits' BY <1>0, <1>1, <1>14, <2>3 DEF TokenFits, Result
    <3> QED BY <3>1, <3>2, <3>3, <3>4 DEF ChainFits
  <2> QED BY <1>14, <2>1, <2>2, <2>3 DEF Result
<1>15. CASE Cancel
  BY <1>0, <1>1, <1>15 DEF ChainFits, ChainShape, Cancel, VoicesFit, AnswerFits, TokenFits
<1> QED
  BY <1>2, <1>3, <1>4, <1>5, <1>6, <1>7, <1>8, <1>9, <1>10, <1>11, <1>12, <1>13, <1>14,
     <1>15 DEF ChainNext, RequestWork

LEMMA ChainIsFit == ChainFits => OneVoice
<1> SUFFICES ASSUME ChainFits PROVE OneVoice OBVIOUS
<1>1. ChainTypes BY DEF ChainFits, ChainShape, AnswerFits, ChainTypes
<1> QED
  BY <1>1 DEF ChainFits, ChainShape, VoicesFit, AnswerFits, TokenFits, OneVoice, Asked

LEMMA ChainRests ==
  ASSUME ChainFits, UNCHANGED chainVars
  PROVE  ChainFits'
<1>1. ChainShape' /\ VoicesFit'
  BY DEF ChainFits, ChainShape, VoicesFit, chainVars
<1>2. AnswerFits' /\ TokenFits'
  BY DEF ChainFits, AnswerFits, TokenFits, chainVars
<1> QED BY <1>1, <1>2 DEF ChainFits

\* For any chains of providers, each with any number of tries: all that the
\* caller has seen, and the result, are one provider's, the recorded failures
\* are those of the providers before, each safe to fall back on, nobody is asked
\* whose turn came after the cancellation, and no callback is left behind.
THEOREM OneVoiceHolds == ChainInit /\ [][ChainNext]_chainVars => []OneVoice
<1>1. ChainFits /\ [ChainNext]_chainVars => ChainFits' BY ChainMoves, ChainRests
<1> QED BY <1>1, ChainBegins, ChainIsFit, PTL
-----------------------------------------------------------------------------
(* ContextCurator.  A set of messages is whole if its turns begin with the *)
(* user's message and no call is parted from its results.  Closing makes   *)
(* it so, and a whole set stays whole when one of its turns goes.          *)

SessionFits == transcript \in Sessions /\ visible \in 0..Len(transcript)
Whole(s) ==
  /\ s \subseteq Ids /\ \A m \in s : \E u \in s : OpensTurn(u) /\ u <= m
  /\ \A m, r \in Ids : ResultOf(r) \in Calls(m) => (m \in s <=> r \in s)

LEMMA IdsAreNumbers ==
  ASSUME SessionFits
  PROVE  /\ visible \in Nat /\ Ids \in SUBSET Nat /\ IsFiniteSet(Ids)
         /\ Ids \subseteq DOMAIN transcript /\ \A s \in SUBSET Ids : s \subseteq 1..visible
<1>1. transcript \in Seq(SessionMessages) BY CuratorAssumption DEF SessionFits
<1>2. visible \in Nat /\ Ids \in SUBSET Nat /\ Ids \subseteq DOMAIN transcript
  BY <1>1 DEF SessionFits, Ids
<1>3. IsFiniteSet(Ids) BY <1>2, FS_Interval DEF Ids
<1> QED BY <1>2, <1>3 DEF Ids

LEMMA ResultsFollow ==
  ASSUME SessionFits, NEW m \in Ids, NEW r \in Ids, ResultOf(r) \in Calls(m)
  PROVE  /\ m < r /\ Calls(r) = {}
         /\ \A u \in Ids : OpensTurn(u) /\ u <= r => u <= m
         /\ \A n \in Ids : ResultOf(r) \in Calls(n) => n = m
<1>1. Orderly(transcript) /\ m \in DOMAIN transcript /\ r \in DOMAIN transcript
  BY IdsAreNumbers, CuratorAssumption DEF SessionFits
<1>2. /\ m < r /\ transcript[r].calls = {}
      /\ \A k \in (m + 1)..r : transcript[k].role # "user"
      /\ \A n \in DOMAIN transcript : transcript[r].result \in transcript[n].calls => n = m
  BY <1>1 DEF Orderly, ResultOf, Calls
<1>3. ASSUME NEW u \in Ids, OpensTurn(u), u <= r PROVE u <= m
  BY <1>2, <1>3, IdsAreNumbers DEF OpensTurn
<1>4. \A n \in Ids : ResultOf(r) \in Calls(n) => n = m
  BY <1>2, IdsAreNumbers DEF ResultOf, Calls
<1> QED BY <1>2, <1>3, <1>4 DEF Calls

\* What is closed is whole.
LEMMA ClosedIsWhole ==
  ASSUME SessionFits, NEW s \in SUBSET Ids
  PROVE  Whole(Closed(s))
<1> DEFINE P == s \cup {m \in Ids : Calls(m) \cap {ResultOf(r) : r \in s} # {}}
           W == P \cup {r \in Ids : \E m \in P : ResultOf(r) \in Calls(m)}
<1>1. Closed(s) = {m \in W : \E u \in W : OpensTurn(u) /\ u <= m} BY DEF Closed
<1>2. /\ P \subseteq W /\ W \subseteq Ids /\ Ids \in SUBSET Nat
      /\ \A r \in W : r \in P \/ \E m \in P : ResultOf(r) \in Calls(m)
      /\ \A r \in Ids : (\E m \in P : ResultOf(r) \in Calls(m)) => r \in W
  BY IdsAreNumbers
<1>3. /\ \A r \in s, m \in Ids : ResultOf(r) \in Calls(m) => m \in P
      /\ \A r \in P : r \in s \/ Calls(r) # {}
  OBVIOUS
<1> HIDE DEF P, W
<1>4. ASSUME NEW m \in Ids, NEW r \in W, ResultOf(r) \in Calls(m) PROVE m \in P
  <2>0. r \in Ids BY <1>2
  <2>1. CASE r \in P BY <1>4, <2>0, <1>3, <2>1, ResultsFollow
  <2>2. CASE \E n \in P : ResultOf(r) \in Calls(n)
    <3>1. PICK n \in P : ResultOf(r) \in Calls(n) BY <2>2
    <3>2. n = m BY <1>2, <1>4, <2>0, <3>1, ResultsFollow
    <3> QED BY <3>1, <3>2
  <2> QED BY <1>2, <2>1, <2>2
<1>5. ASSUME NEW m \in W, NEW r \in Ids, ResultOf(r) \in Calls(m) PROVE r \in W
  <2>1. CASE m \in P BY <1>2, <1>5, <2>1
  <2>2. CASE \E n \in P : ResultOf(m) \in Calls(n)
    BY <1>2, <2>2, <1>5, ResultsFollow
  <2> QED BY <1>2, <2>1, <2>2
<1>6. ASSUME NEW m \in Ids, NEW r \in Ids, ResultOf(r) \in Calls(m)
      PROVE  m \in Closed(s) <=> r \in Closed(s)
  <2>0. m < r /\ m \in Nat /\ r \in Nat BY <1>2, <1>6, ResultsFollow
  <2>1. ASSUME m \in Closed(s) PROVE r \in Closed(s)
    <3>1. PICK u \in W : OpensTurn(u) /\ u <= m BY <1>1, <2>1
    <3>2. u <= r BY <1>2, <2>0, <3>1
    <3>3. r \in W BY <1>1, <1>5, <1>6, <2>1
    <3> QED BY <1>1, <3>1, <3>2, <3>3
  <2>2. ASSUME r \in Closed(s) PROVE m \in Closed(s)
    <3>1. PICK u \in W : OpensTurn(u) /\ u <= r BY <1>1, <2>2
    <3>2. u <= m BY <1>2, <1>6, <3>1, ResultsFollow
    <3>3. m \in W BY <1>1, <1>2, <1>4, <1>6, <2>2
    <3> QED BY <1>1, <3>1, <3>2, <3>3
  <2> QED BY <2>1, <2>2
<1>7. ASSUME NEW m \in Closed(s)
      PROVE  m \in Ids /\ \E u \in Closed(s) : OpensTurn(u) /\ u <= m
  <2>1. PICK u \in W : OpensTurn(u) /\ u <= m BY <1>1
  <2>2. u <= u BY <1>2
  <2>3. u \in Closed(s) BY <1>1, <2>1, <2>2
  <2> QED BY <1>1, <1>2, <2>1, <2>3
<1> QED BY <1>6, <1>7 DEF Whole

\* There is nothing to close in a whole set.
LEMMA WholeIsClosed ==
  ASSUME NEW s, Whole(s)
  PROVE  Closed(s) = s
<1> DEFINE P == s \cup {m \in Ids : Calls(m) \cap {ResultOf(r) : r \in s} # {}}
           W == P \cup {r \in Ids : \E m \in P : ResultOf(r) \in Calls(m)}
<1>1. Closed(s) = {m \in W : \E u \in W : OpensTurn(u) /\ u <= m} BY DEF Closed
<1>2. P = s BY DEF Whole
<1>3. W = s
  <2> HIDE DEF P
  <2> QED BY <1>2 DEF Whole
<1> HIDE DEF W
<1> QED BY <1>1, <1>3 DEF Whole

-----------------------------------------------------------------------------
(* The turns of a whole set part it.                                       *)

LEMMA GroupsCover ==
  ASSUME SessionFits, NEW s, Whole(s), NEW m \in s
  PROVE  \E u \in s : OpensTurn(u) /\ m \in Group(s, u)
<1> DEFINE U == {u \in s : OpensTurn(u) /\ u <= m}
<1>1. U \in SUBSET (1..visible) /\ U # {} /\ visible \in Nat
  BY IdsAreNumbers DEF Whole
<1>2. PICK u \in U : \A v \in U : v <= u
  <2> HIDE DEF U
  <2> QED BY <1>1, GreatestExists
<1> QED BY <1>2 DEF Group

LEMMA GroupsBegin ==
  ASSUME SessionFits, NEW s, Whole(s), NEW u \in s, OpensTurn(u)
  PROVE  u \in Group(s, u) /\ Group(s, u) \subseteq s
<1>1. u \in Nat BY IdsAreNumbers DEF Whole
<1> QED BY <1>1 DEF Group

LEMMA GroupsApart ==
  ASSUME SessionFits, NEW s, Whole(s), NEW g \in Groups(s), NEW h \in Groups(s),
         NEW m \in g, m \in h
  PROVE  g = h
<1>1. PICK u \in s : OpensTurn(u) /\ g = Group(s, u) BY DEF Groups
<1>2. PICK v \in s : OpensTurn(v) /\ h = Group(s, v) BY DEF Groups
<1>3. u \in Nat /\ v \in Nat /\ u <= m /\ v <= m /\ u <= v /\ v <= u
  BY <1>1, <1>2, IdsAreNumbers DEF Whole, Group
<1>4. u = v BY <1>3
<1> QED BY <1>1, <1>2, <1>4

LEMMA GroupsAreParts ==
  ASSUME SessionFits, NEW s, Whole(s), NEW g \in Groups(s)
  PROVE  g # {} /\ g \subseteq s /\ g \in SUBSET (1..visible) /\ visible \in Nat
<1>1. PICK u \in s : OpensTurn(u) /\ g = Group(s, u) BY DEF Groups
<1> QED BY <1>1, GroupsBegin, IdsAreNumbers DEF Whole

\* Calls and their results are in the same turn.
LEMMA GroupsKeepPairs ==
  ASSUME SessionFits, NEW s, Whole(s), NEW g \in Groups(s),
         NEW m \in s, NEW r \in s, ResultOf(r) \in Calls(m)
  PROVE  m \in g <=> r \in g
<1>1. PICK u \in s : OpensTurn(u) /\ g = Group(s, u) BY DEF Groups
<1>2. m \in Ids /\ r \in Ids /\ s \subseteq Ids /\ Ids \in SUBSET Nat
  BY IdsAreNumbers DEF Whole
<1>3. m < r /\ \A v \in Ids : OpensTurn(v) /\ v <= r => v <= m
  BY <1>2, ResultsFollow
<1>4. \A v \in s : OpensTurn(v) => (v <= m <=> v <= r) BY <1>2, <1>3
<1> QED BY <1>1, <1>4 DEF Group

LEMMA DropsLeaveGroups ==
  ASSUME SessionFits, NEW s, Whole(s), NEW g \in Groups(s), NEW u \in s \ g, OpensTurn(u)
  PROVE  Group(s \ g, u) = Group(s, u)
<1>0. s \in SUBSET Nat /\ Group(s, u) \in Groups(s) /\ u \in Group(s, u)
  BY IdsAreNumbers, GroupsBegin DEF Whole, Groups
<1>1. ASSUME NEW m \in Group(s, u) PROVE m \in Group(s \ g, u)
  BY <1>0, GroupsApart DEF Group
<1>2. ASSUME NEW m \in Group(s \ g, u) PROVE m \in Group(s, u)
  <2>0. m \in s /\ m \notin g /\ u <= m BY DEF Group
  <2>1. PICK x \in s : OpensTurn(x) /\ m \in Group(s, x) BY <2>0, GroupsCover
  <2>2. x \notin g BY <2>1, <2>0, GroupsBegin, GroupsApart DEF Groups
  <2>3. x <= u /\ \A v \in s : OpensTurn(v) /\ v <= m => v <= x
    BY <2>1, <2>2 DEF Group
  <2>4. \A v \in s : OpensTurn(v) /\ v <= m => v <= u BY <1>0, <2>3
  <2> QED BY <2>0, <2>4 DEF Group
<1> QED BY <1>1, <1>2

\* A turn that goes leaves a smaller whole set, with the other turns.
LEMMA DropsAreWhole ==
  ASSUME SessionFits, NEW s, Whole(s), NEW g \in Groups(s)
  PROVE  /\ Whole(s \ g) /\ Groups(s \ g) = Groups(s) \ {g}
         /\ IsFiniteSet(s) /\ Cardinality(s \ g) < Cardinality(s)
<1>0. g # {} /\ g \subseteq s /\ s \subseteq Ids BY GroupsAreParts DEF Whole
<1>1. Whole(s \ g)
  <2>1. ASSUME NEW m \in s \ g PROVE \E u \in s \ g : OpensTurn(u) /\ u <= m
    <3>1. PICK u \in s : OpensTurn(u) /\ m \in Group(s, u) BY GroupsCover
    <3>2. u \notin g BY <3>1, GroupsBegin, GroupsApart DEF Groups
    <3> QED BY <3>1, <3>2 DEF Group
  <2>2. ASSUME NEW m \in Ids, NEW r \in Ids, ResultOf(r) \in Calls(m)
        PROVE  m \in s \ g <=> r \in s \ g
    BY <2>2, GroupsKeepPairs DEF Whole
  <2> QED BY <1>0, <2>1, <2>2 DEF Whole
<1>2. ASSUME NEW h \in Groups(s \ g) PROVE h \in Groups(s) \ {g}
  <2>1. PICK u \in s \ g : OpensTurn(u) /\ h = Group(s \ g, u) BY DEF Groups
  <2>2. h = Group(s, u) /\ u \in h BY <2>1, DropsLeaveGroups, GroupsBegin
  <2> QED BY <2>1, <2>2 DEF Groups
<1>3. ASSUME NEW h \in Groups(s) \ {g} PROVE h \in Groups(s \ g)
  <2>1. PICK u \in s : OpensTurn(u) /\ h = Group(s, u) BY DEF Groups
  <2>2. u \notin g BY <2>1, GroupsBegin, GroupsApart
  <2>3. h = Group(s \ g, u) BY <2>1, <2>2, DropsLeaveGroups
  <2> QED BY <2>1, <2>2, <2>3 DEF Groups
<1>4. IsFiniteSet(s) /\ Cardinality(s \ g) < Cardinality(s)
  BY <1>0, IdsAreNumbers, FS_Subset, FS_CardinalityType
<1> QED BY <1>1, <1>2, <1>3, <1>4

-----------------------------------------------------------------------------
(* Trimming.  Which turn goes is determined; the function by which what is *)
(* left is trimmed again exists, whatever it is applied to; and by         *)
(* induction on how much is left, what it returns is a whole set, from     *)
(* which only less relevant turns are missing.                             *)

RelevanceFits == \A m \in Ids : relevance[m] \in 0..10

LEMMA MaxIsGreatest ==
  ASSUME NEW n \in Nat, NEW S \in SUBSET (0..n), S # {}
  PROVE  Max(S) \in S /\ \A y \in S : y <= Max(S)
<1> DEFINE T == {y + 1 : y \in S}
<1>0. \A y \in S : y \in Nat /\ y \in 0..n /\ y + 1 \in 1..(n + 1)
  <2> TAKE y \in S
  <2>1. y \in 0..n OBVIOUS
  <2> QED BY <2>1
<1>1. T \in SUBSET (1..(n + 1)) /\ T # {} /\ n + 1 \in Nat
  <2>1. \A x \in T : x \in 1..(n + 1) BY <1>0
  <2>2. T # {} OBVIOUS
  <2> HIDE DEF T
  <2> QED BY <2>1, <2>2
<1>2. PICK x \in T : \A y \in T : y <= x
  <2> HIDE DEF T
  <2> QED BY <1>1, GreatestExists
<1>3. PICK z \in S : x = z + 1 OBVIOUS
<1>4. \A y \in S : z >= y
  <2> TAKE y \in S
  <2>1. y + 1 <= z + 1 BY <1>2, <1>3
  <2>2. y \in Nat /\ z \in Nat BY <1>0
  <2> QED BY <2>1, <2>2
<1>5. Max(S) \in S /\ \A y \in S : Max(S) >= y BY <1>4 DEF Max
<1> DEFINE top == Max(S)
<1>6. \A y \in S : top >= y /\ y \in Nat /\ top \in Nat BY <1>0, <1>5
<1> HIDE DEF top
<1>7. \A y \in S : y <= top BY <1>6
<1> QED BY <1>5, <1>7 DEF top

LEMMA MinIsLeast ==
  ASSUME NEW S \in SUBSET Nat, S # {}
  PROVE  Min(S) \in S /\ \A y \in S : Min(S) <= y
BY LeastNatural DEF Min

LEMMA GroupsAreRanked ==
  ASSUME SessionFits, RelevanceFits, NEW s, Whole(s), NEW g \in Groups(s)
  PROVE  MaxRelevance(g) \in Nat /\ Max(g) \in Nat /\ Max(g) \in g
<1>1. g # {} /\ g \subseteq Ids /\ g \in SUBSET (0..visible) /\ visible \in Nat
  BY GroupsAreParts DEF Ids
<1>2. Max(g) \in g BY <1>1, MaxIsGreatest
<1>3. {relevance[m] : m \in g} \in SUBSET (0..10) /\ {relevance[m] : m \in g} # {}
  BY <1>1 DEF RelevanceFits
<1>4. Max({relevance[m] : m \in g}) \in {relevance[m] : m \in g}
  BY <1>3, MaxIsGreatest
<1>5. MaxRelevance(g) \in 0..10 BY <1>3, <1>4 DEF MaxRelevance
<1>6. MaxRelevance(g) \in Nat BY <1>5
<1>7. Max(g) \in 0..visible BY <1>1, <1>2
<1>8. Max(g) \in Nat BY <1>1, <1>7
<1> QED BY <1>2, <1>6, <1>8

LEMMA LeastIsLeast ==
  ASSUME SessionFits, RelevanceFits, NEW s, Whole(s), Droppable(s) # {}
  PROVE  /\ Least(s) \in Droppable(s)
         /\ \A h \in Droppable(s) : h # Least(s) => Before(Least(s), h)
<1>0. \A g \in Droppable(s) :
        g \in Groups(s) /\ MaxRelevance(g) \in Nat /\ Max(g) \in Nat /\ Max(g) \in g
  BY GroupsAreRanked DEF Droppable
<1> DEFINE R == {MaxRelevance(g) : g \in Droppable(s)}
<1>1. R \in SUBSET Nat /\ R # {} BY <1>0
<1>2. PICK r \in R : \A q \in R : r <= q
  <2> HIDE DEF R
  <2> QED BY <1>1, LeastNatural
<1> DEFINE D == {g \in Droppable(s) : MaxRelevance(g) = r}
           K == {Max(g) : g \in D}
<1>3. K \in SUBSET Nat /\ K # {} BY <1>0
<1>4. PICK k \in K : \A l \in K : k <= l
  <2> HIDE DEF K
  <2> QED BY <1>3, LeastNatural
<1>5. PICK g \in D : k = Max(g) OBVIOUS
<1>6. ASSUME NEW h \in Droppable(s), h # g PROVE Before(g, h)
  <2>1. r <= MaxRelevance(h) /\ MaxRelevance(g) = r /\ MaxRelevance(h) \in Nat /\ r \in Nat
    BY <1>0, <1>2
  <2>2. CASE MaxRelevance(h) # r BY <2>1, <2>2 DEF Before
  <2>3. CASE MaxRelevance(h) = r
    <3>1. Max(h) \in K BY <2>3
    <3>2. Max(g) <= Max(h) BY <1>4, <1>5, <3>1
    <3>3. Max(g) # Max(h) BY <1>0, <1>6, GroupsApart
    <3>4. Max(g) \in Nat /\ Max(h) \in Nat BY <1>0
    <3>5. Max(g) < Max(h) BY <3>2, <3>3, <3>4
    <3> QED BY <2>1, <2>3, <3>5 DEF Before
  <2> QED BY <2>2, <2>3
<1>7. g \in Droppable(s) /\ \A h \in Droppable(s) : h # g => Before(g, h)
  BY <1>6
<1> QED BY <1>7 DEF Least

\* T is the function that Trimmed takes a value of.
Trimming(extra, T) ==
  T = [s \in SUBSET Ids |->
         IF Fits(s, extra) \/ Droppable(s) = {} THEN s ELSE T[Closed(s \ Least(s))]]

\* It is the choice of an end that can be reached: from a set and from what one
\* step makes of it, the same ends can be.
LEMMA TrimExists ==
  ASSUME SessionFits, NEW extra
  PROVE  \E T : Trimming(extra, T)
<1> DEFINE Ends == {s \in SUBSET Ids : Fits(s, extra) \/ Droppable(s) = {}}
           N(s) == Closed(s \ Least(s))
           Kept(C) == C \subseteq SUBSET Ids /\ \A c \in C : c \notin Ends => N(c) \in C
           Reach(s) ==
             {t \in SUBSET Ids : \A C \in SUBSET SUBSET Ids : s \in C /\ Kept(C) => t \in C}
           T == [s \in SUBSET Ids |-> CHOOSE t \in Ends : t \in Reach(s)]
<1>1. \A s \in SUBSET Ids : N(s) \in SUBSET Ids BY ClosedIsWhole DEF Whole
<1>2. ASSUME NEW s \in SUBSET Ids, s \in Ends PROVE T[s] = s
  <2>1. Kept({s}) /\ {s} \in SUBSET SUBSET Ids
    <3> HIDE DEF Ends, N
    <3> QED BY <1>2
  <2>2. \A t \in Reach(s) : t = s
    <3> HIDE DEF Kept
    <3> QED BY <2>1
  <2>3. s \in Reach(s) OBVIOUS
  <2> HIDE DEF Reach, Ends
  <2> QED BY <1>2, <2>2, <2>3
<1>3. ASSUME NEW s \in SUBSET Ids, s \notin Ends PROVE T[s] = T[N(s)]
  <2>0. N(s) \in SUBSET Ids BY <1>1
  <2>1. ASSUME NEW t \in Reach(N(s)) PROVE t \in Reach(s)
    <3>1. ASSUME NEW C \in SUBSET SUBSET Ids, s \in C, Kept(C) PROVE t \in C
      <4>1. N(s) \in C BY <1>3, <3>1
      <4> HIDE DEF Kept, N
      <4> QED BY <3>1, <4>1
    <3> HIDE DEF Kept, N
    <3> QED BY <3>1
  <2>2. ASSUME NEW t \in Reach(s), t \in Ends PROVE t \in Reach(N(s))
    <3>1. ASSUME NEW C \in SUBSET SUBSET Ids, N(s) \in C, Kept(C) PROVE t \in C
      <4>1. Kept(C \cup {s}) /\ C \cup {s} \in SUBSET SUBSET Ids
        <5> HIDE DEF Ends, N
        <5> QED BY <3>1
      <4>2. t \in C \cup {s}
        <5> HIDE DEF Kept, N, Ends
        <5> QED BY <4>1
      <4>3. t # s BY <1>3, <2>2
      <4> QED BY <4>2, <4>3
    <3> HIDE DEF Kept, N
    <3> QED BY <3>1
  <2>3. \A t \in Ends : t \in Reach(s) <=> t \in Reach(N(s))
    <3> HIDE DEF Reach, Ends, N
    <3> QED BY <2>1, <2>2
  <2> HIDE DEF Reach, Ends, N
  <2> QED BY <2>0, <2>3
<1>4. ASSUME NEW s \in SUBSET Ids
      PROVE  T[s] = IF Fits(s, extra) \/ Droppable(s) = {} THEN s ELSE T[Closed(s \ Least(s))]
  <2>1. s \in Ends <=> Fits(s, extra) \/ Droppable(s) = {} OBVIOUS
  <2>2. N(s) = Closed(s \ Least(s)) OBVIOUS
  <2> HIDE DEF T, Ends, N
  <2> QED BY <1>2, <1>3, <2>1, <2>2
<1>5. T = [s \in SUBSET Ids |-> T[s]]
  <2> HIDE DEF Ends, Reach
  <2> QED OBVIOUS
<1>6. Trimming(extra, T)
  <2> HIDE DEF T
  <2> QED BY <1>4, <1>5 DEF Trimming
<1> QED BY <1>6

\* How a whole set t comes from a whole set s: a turn of s that is not one of t
\* has gone altogether, was not shielded, and comes before any unshielded one
\* that stayed.
TrimStory(s, t) ==
  /\ Whole(s) /\ Whole(t) /\ t \subseteq s /\ Groups(t) \subseteq Groups(s)
  /\ \A g \in Groups(s) \ Groups(t) :
       /\ g \cap t = {} /\ ~Shielded(g)
       /\ \A h \in Groups(t) : ~Shielded(h) => Before(g, h)

LEMMA TrimGoesOn ==
  ASSUME SessionFits, RelevanceFits, NEW s, NEW t, TrimStory(s, t), Droppable(t) # {}
  PROVE  /\ TrimStory(s, Closed(t \ Least(t)))
         /\ Cardinality(Closed(t \ Least(t))) < Cardinality(t)
<1> DEFINE l == Least(t)
<1>0. Whole(t) BY DEF TrimStory
<1>1. /\ l \in Groups(t) /\ ~Shielded(l)
      /\ \A h \in Groups(t) : h # l /\ ~Shielded(h) => Before(l, h)
  <2>1. l \in Droppable(t) /\ \A h \in Droppable(t) : h # l => Before(l, h)
    BY <1>0, LeastIsLeast
  <2> HIDE DEF l
  <2> QED BY <2>1 DEF Droppable
<1> HIDE DEF l
<1>2. /\ Whole(t \ l) /\ Groups(t \ l) = Groups(t) \ {l}
      /\ Cardinality(t \ l) < Cardinality(t)
  BY <1>0, <1>1, DropsAreWhole
<1>3. Closed(t \ l) = t \ l BY <1>2, WholeIsClosed
<1>4. TrimStory(s, t \ l)
  <2>1. ASSUME NEW g \in Groups(s) \ Groups(t \ l)
        PROVE  /\ g \cap (t \ l) = {} /\ ~Shielded(g)
               /\ \A h \in Groups(t \ l) : ~Shielded(h) => Before(g, h)
    <3>1. CASE g = l BY <1>1, <1>2, <3>1
    <3>2. CASE g # l BY <1>2, <3>2 DEF TrimStory
    <3> QED BY <3>1, <3>2
  <2> QED BY <1>2, <2>1 DEF TrimStory
<1> QED BY <1>2, <1>3, <1>4 DEF l

LEMMA TrimEnds ==
  ASSUME SessionFits, RelevanceFits, NEW extra, NEW T, Trimming(extra, T),
         NEW s, NEW t, TrimStory(s, t)
  PROVE  TrimStory(s, T[t]) /\ (Fits(T[t], extra) \/ Droppable(T[t]) = {})
<1> DEFINE Good(u) == TrimStory(s, T[u]) /\ (Fits(T[u], extra) \/ Droppable(T[u]) = {})
           Bad == {n \in Nat : \E u \in SUBSET Ids :
                                 TrimStory(s, u) /\ Cardinality(u) = n /\ ~Good(u)}
<1>0. \A u : TrimStory(s, u) => u \in SUBSET Ids /\ Cardinality(u) \in Nat
  <2> SUFFICES ASSUME NEW u, TrimStory(s, u) PROVE u \in SUBSET Ids /\ Cardinality(u) \in Nat
    OBVIOUS
  <2>1. u \in SUBSET Ids BY DEF TrimStory, Whole
  <2> QED BY <2>1, IdsAreNumbers, FS_Subset, FS_CardinalityType
<1>1. ASSUME Bad # {} PROVE FALSE
  <2>1. Bad \in SUBSET Nat OBVIOUS
  <2>2. PICK n \in Bad : \A k \in Bad : n <= k
    <3> HIDE DEF Bad
    <3> QED BY <1>1, <2>1, LeastNatural
  <2>3. PICK u \in SUBSET Ids : TrimStory(s, u) /\ Cardinality(u) = n /\ ~Good(u)
    OBVIOUS
  <2>4. T[u] = IF Fits(u, extra) \/ Droppable(u) = {} THEN u ELSE T[Closed(u \ Least(u))]
    BY DEF Trimming
  <2>5. ~Fits(u, extra) /\ Droppable(u) # {} BY <2>3, <2>4
  <2> DEFINE v == Closed(u \ Least(u))
  <2>6. TrimStory(s, v) /\ Cardinality(v) < n BY <2>3, <2>5, TrimGoesOn
  <2>7. T[u] = T[v] BY <2>4, <2>5
  <2> HIDE DEF v
  <2>8. ~Good(v) BY <2>3, <2>7
  <2>9. Cardinality(v) \in Bad
    <3> HIDE DEF Good
    <3> QED BY <1>0, <2>6, <2>8
  <2>10. n \in Nat /\ Cardinality(v) \in Nat /\ n <= Cardinality(v)
    <3> HIDE DEF Bad
    <3> QED BY <1>0, <2>1, <2>2, <2>6, <2>9
  <2> QED BY <2>6, <2>10
<1>2. t \in SUBSET Ids /\ Cardinality(t) \in Nat BY <1>0
<1>3. Good(t)
  <2> HIDE DEF Good
  <2> QED BY <1>1, <1>2
<1> QED BY <1>3

LEMMA TrimmedIsTold ==
  ASSUME SessionFits, RelevanceFits, NEW ids \in SUBSET Ids, NEW extra
  PROVE  /\ TrimStory(Closed(ids), Trimmed(ids, extra))
         /\ Fits(Trimmed(ids, extra), extra) \/ Droppable(Trimmed(ids, extra)) = {}
<1> DEFINE T == CHOOSE T : Trimming(extra, T)
<1>1. Trimming(extra, T) BY TrimExists
<1>2. Trimmed(ids, extra) = T[Closed(ids)] BY DEF Trimmed, Trimming
<1>3. TrimStory(Closed(ids), Closed(ids)) BY ClosedIsWhole DEF TrimStory
<1> HIDE DEF T
<1> QED BY <1>1, <1>2, <1>3, TrimEnds

-----------------------------------------------------------------------------
(* What a segment must be, of whole sets of messages.                      *)

WholeHistory(o, way) ==
  /\ o # {} => OpensTurn(Min(o))
  /\ \A m \in Ids, r \in Ids : ResultOf(r) \in Calls(m) => (m \in o <=> r \in o)
  /\ way = "slow" => Fits(o, 0) /\ ~Unanswered(o)
  /\ Fits(o, 0) \/ \A g \in Groups(o) : Shielded(g)
LeastGone(p, o) ==
  \A g \in Groups(Closed(p)) : g \cap o = {} =>
    /\ ~Shielded(g)
    /\ \A h \in Groups(Closed(p)) : h \subseteq o /\ ~Shielded(h) => Before(g, h)

LEMMA WholeIsHistory ==
  ASSUME SessionFits, NEW o, Whole(o), NEW way, Fits(o, 0) \/ Droppable(o) = {},
         way = "slow" => Fits(o, 0) /\ ~Unanswered(o)
  PROVE  WholeHistory(o, way)
<1>1. ASSUME o # {} PROVE OpensTurn(Min(o))
  <2>1. o \in SUBSET Nat BY IdsAreNumbers DEF Whole
  <2> DEFINE x == Min(o)
  <2>2. x \in o /\ \A y \in o : x <= y BY <1>1, <2>1, MinIsLeast
  <2> HIDE DEF x
  <2>3. PICK u \in o : OpensTurn(u) /\ u <= x BY <2>2 DEF Whole
  <2>4. u = x BY <2>1, <2>2, <2>3
  <2> QED BY <2>3, <2>4 DEF x
<1>2. Fits(o, 0) \/ \A g \in Groups(o) : Shielded(g) BY DEF Droppable
<1> QED BY <1>1, <1>2 DEF Whole, WholeHistory

LEMMA StoryIsLeastGone ==
  ASSUME SessionFits, NEW p, NEW o, TrimStory(Closed(p), o)
  PROVE  LeastGone(p, o)
<1> DEFINE s == Closed(p)
<1>1. TrimStory(s, o) OBVIOUS
<1> HIDE DEF s
<1> SUFFICES ASSUME NEW g \in Groups(s), g \cap o = {}
             PROVE  /\ ~Shielded(g)
                    /\ \A h \in Groups(s) : h \subseteq o /\ ~Shielded(h) => Before(g, h)
  BY DEF LeastGone, s
<1>2. g \notin Groups(o) BY <1>1, GroupsAreParts DEF TrimStory
<1>3. ASSUME NEW h \in Groups(s), h \subseteq o PROVE h \in Groups(o)
  BY <1>1, <1>3, GroupsAreParts DEF TrimStory
<1> QED BY <1>1, <1>2, <1>3 DEF TrimStory

LEMMA LessFits ==
  ASSUME SessionFits, NEW o, o \subseteq Ids, NEW extra \in Nat, Fits(o, extra)
  PROVE  Fits(o, 0)
<1>1. Cardinality(o) \in Nat BY IdsAreNumbers, FS_Subset, FS_CardinalityType
<1>2. Capacity \in Nat BY CuratorAssumption
<1> QED BY <1>1, <1>2 DEF Fits

\* A short session, from its first question.
LEMMA ShortIsHistory ==
  ASSUME SessionFits, visible < Threshold
  PROVE  WholeHistory({m \in Ids : \E u \in Ids : OpensTurn(u) /\ u <= m}, "fast")
<1> DEFINE P == Ids \cup {m \in Ids : Calls(m) \cap {ResultOf(r) : r \in Ids} # {}}
           W == P \cup {r \in Ids : \E m \in P : ResultOf(r) \in Calls(m)}
           o == {m \in Ids : \E u \in Ids : OpensTurn(u) /\ u <= m}
<1>1. W = Ids OBVIOUS
<1>2. Closed(Ids) = {m \in W : \E u \in W : OpensTurn(u) /\ u <= m}
  BY DEF Closed
<1>3. Closed(Ids) = o
  <2> HIDE DEF W
  <2> QED BY <1>1, <1>2
<1>4. Whole(o) BY <1>3, ClosedIsWhole
<1>5. Fits(o, 0)
  <2>1. Cardinality(Ids) = visible /\ visible \in Nat
    BY IdsAreNumbers, FS_Interval DEF Ids
  <2>2. IsFiniteSet(Ids) /\ o \in SUBSET Ids BY IdsAreNumbers
  <2>3. Cardinality(o) <= visible /\ Cardinality(o) \in Nat
    BY <2>1, <2>2, FS_Subset, FS_CardinalityType
  <2>4. Threshold \in Nat /\ Capacity \in Nat /\ Threshold <= Capacity
    BY CuratorAssumption
  <2> HIDE DEF o
  <2> QED BY <2>1, <2>3, <2>4 DEF Fits
<1> HIDE DEF o
<1>6. WholeHistory(o, "fast") BY <1>4, <1>5, WholeIsHistory
<1> QED BY <1>6 DEF o

\* A plan, trimmed.
LEMMA TrimmedIsHistory ==
  ASSUME SessionFits, RelevanceFits, NEW ids \in SUBSET Ids, NEW extra \in Nat, NEW way,
         way = "slow" => Acceptable(Trimmed(ids, extra), extra)
  PROVE  /\ WholeHistory(Trimmed(ids, extra), way) /\ Trimmed(ids, extra) \subseteq Ids
         /\ TrimStory(Closed(ids), Trimmed(ids, extra))
<1> DEFINE o == Trimmed(ids, extra)
<1>1. TrimStory(Closed(ids), o) /\ (Fits(o, extra) \/ Droppable(o) = {})
  BY TrimmedIsTold
<1>2. way = "slow" => Fits(o, extra) /\ ~Unanswered(o) BY DEF Acceptable
<1> HIDE DEF o
<1>3. Whole(o) /\ o \subseteq Ids BY <1>1 DEF TrimStory, Whole
<1>4. Fits(o, extra) => Fits(o, 0) BY <1>3, LessFits
<1>5. WholeHistory(o, way) BY <1>1, <1>2, <1>3, <1>4, WholeIsHistory
<1> QED BY <1>1, <1>3, <1>5 DEF o

-----------------------------------------------------------------------------
(* The assembly.                                                           *)

Manifests == [relevance : Seq(0..10), archived : Seq(Nat)]
SegmentPlaces ==
  {"rest", "saving", "choose", "ask", "asked", "joining", "act", "fallback", "done"}
\* The manifest has an entry for each message while there is an assembly.
CuratorShape ==
  /\ SessionFits
  /\ segmentAt \in SegmentPlaces /\ thenTo \in SegmentPlaces \ {"done"}
  /\ segmentAt = "saving" => thenTo \in {"choose", "act"}
  /\ relevance \in Seq(0..10) /\ archived \in Seq(Nat) /\ onDisk \in Manifests
  /\ archives \in Seq(SUBSET Nat)
  /\ Len(relevance) = Len(archived)
  /\ segmentAt # "rest" => Len(relevance) = visible

\* What the manifest names is there, in memory and on disk.
ArchivesHold(a) ==
  \A m \in 1..Len(a) : a[m] # 0 => a[m] \in 1..Len(archives) /\ m \in archives[a[m]]
ArchivesFit == ArchivesHold(archived) /\ ArchivesHold(onDisk.archived)

\* A call is counted as a step when it is begun, and as a call when it has ended.
CallsFit ==
  /\ providerOn \in BOOLEAN /\ modelCalls \in Nat /\ steps \in Nat
  /\ steps = modelCalls + (IF providerOn THEN 1 ELSE 0)
  /\ steps <= MaxSteps /\ steps < CallLimit
  /\ providerOn => segmentAt \in {"asked", "joining"}

LEMMA NothingCalled ==
  ASSUME providerOn = FALSE, modelCalls = 0, steps = 0, 0 < CallLimit, 0 <= MaxSteps
  PROVE  CallsFit
<1>1. steps = modelCalls + (IF providerOn THEN 1 ELSE 0) OBVIOUS
<1>2. providerOn \in BOOLEAN /\ ~providerOn OBVIOUS
<1> QED BY <1>1, <1>2 DEF CallsFit

\* Before it is done there is no plan and no segment.
SegmentFits ==
  /\ segmentAt # "done" => plan = {} /\ outgoing = {}
  /\ outgoing \subseteq Ids /\ plan \subseteq Ids
  /\ HistoryIsWhole /\ LeastRelevantGo

CuratorFits == CuratorShape /\ ArchivesFit /\ CallsFit /\ SegmentFits

LEMMA CuratorBegins == CuratorInit => CuratorFits
<1> SUFFICES ASSUME CuratorInit PROVE CuratorFits OBVIOUS
<1>1. SessionFits BY CuratorAssumption DEF CuratorInit, SessionFits
<1>2. <<>> \in Seq(0..10) /\ <<>> \in Seq(Nat) /\ <<>> \in Seq(SUBSET Nat)
  OBVIOUS
<1>3. CuratorShape
  BY <1>1, <1>2 DEF CuratorInit, CuratorShape, SegmentPlaces, Manifests, NoManifest
<1>4. ArchivesFit BY DEF CuratorInit, ArchivesFit, ArchivesHold, NoManifest
<1>5. CallsFit
  <2>1. 0 < CallLimit /\ 0 <= MaxSteps BY CuratorAssumption
  <2> QED BY <2>1, NothingCalled DEF CuratorInit
<1>6. SegmentFits
  BY DEF CuratorInit, SegmentFits, HistoryIsWhole, LeastRelevantGo, At1
<1> QED BY <1>3, <1>4, <1>5, <1>6 DEF CuratorFits

LEMMA RelevanceIsFit ==
  ASSUME CuratorShape, segmentAt # "rest"
  PROVE  RelevanceFits
BY DEF CuratorShape, RelevanceFits, Ids

\* The parts of the invariant a step leaves alone.
LEMMA SessionRests ==
  ASSUME SessionFits, UNCHANGED <<transcript, visible>>
  PROVE  SessionFits'
BY DEF SessionFits

LEMMA CallsRest ==
  ASSUME CallsFit, UNCHANGED callVars, ~providerOn
  PROVE  CallsFit'
BY DEF CallsFit, callVars

LEMMA ArchivesRest ==
  ASSUME ArchivesFit, UNCHANGED <<archived, onDisk, archives>>
  PROVE  ArchivesFit'
BY DEF ArchivesFit, ArchivesHold

\* Another place before the end, at which nothing has been decided.
LEMMA SegmentRests ==
  ASSUME CuratorShape, SegmentFits, segmentAt # "done", segmentAt' # "done",
         UNCHANGED <<plan, outgoing>>
  PROVE  SegmentFits'
BY DEF SegmentFits, HistoryIsWhole, LeastRelevantGo, At1

LEMMA GoesOn ==
  ASSUME CuratorFits, UNCHANGED <<transcript, visible, manifestVars, onDisk, archives>>,
         UNCHANGED <<plan, outgoing>>, segmentAt \notin {"rest", "done"}, NEW place, Go(place),
         place \in SegmentPlaces \ {"rest", "saving", "done"}, CallsFit'
  PROVE  CuratorFits'
<1>1. segmentAt' = place /\ thenTo' = thenTo /\ UNCHANGED <<relevance, archived>>
  BY DEF Go, manifestVars
<1>2. CuratorShape' BY <1>1, SessionRests DEF CuratorFits, CuratorShape
<1>3. ArchivesFit' BY <1>1, ArchivesRest DEF CuratorFits
<1>4. SegmentFits' BY <1>1, SegmentRests DEF CuratorFits
<1> QED BY <1>2, <1>3, <1>4 DEF CuratorFits

\* The end: what was decided of the sets as they are holds of them afterwards.
LEMMA SegmentIsDone ==
  ASSUME UNCHANGED <<transcript, visible, relevance>>, segmentAt' = "done",
         WholeHistory(outgoing', route'), route' # "fast" => LeastGone(plan', outgoing'),
         outgoing' \subseteq Ids, plan' \subseteq Ids
  PROVE  SegmentFits'
<1>1. HistoryIsWhole'
  BY DEF HistoryIsWhole, WholeHistory, At1, OpensTurn, Ids, ResultOf, Calls, Fits,
         Unanswered, Groups, Group, Shielded
<1>2. LeastRelevantGo'
  <2>1. CASE route' = "fast" BY <2>1 DEF LeastRelevantGo
  <2>2. CASE route' # "fast"
    <3>1. Groups(Closed(plan))' = Groups(Closed(plan'))
      BY DEF Groups, Group, Closed, OpensTurn, Ids, ResultOf, Calls
    <3>2. \A g, h : Before(g, h)' <=> Before(g, h) BY DEF Before, MaxRelevance
    <3>3. \A g : Shielded(g)' <=> Shielded(g) BY DEF Shielded
    <3> QED BY <2>2, <3>1, <3>2, <3>3 DEF LeastRelevantGo, LeastGone
  <2> QED BY <2>1, <2>2
<1> QED BY <1>1, <1>2 DEF SegmentFits, Ids

LEMMA Finishes ==
  ASSUME CuratorFits, UNCHANGED <<transcript, visible, manifestVars, onDisk, archives, callVars>>,
         segmentAt \notin {"rest", "done"}, Go("done"), ~providerOn,
         WholeHistory(outgoing', route'), route' # "fast" => LeastGone(plan', outgoing'),
         outgoing' \subseteq Ids, plan' \subseteq Ids
  PROVE  CuratorFits'
<1>1. segmentAt' = "done" /\ thenTo' = thenTo /\ UNCHANGED <<relevance, archived>>
  BY DEF Go, manifestVars
<1>2. CuratorShape'
  BY <1>1, SessionRests DEF CuratorFits, CuratorShape, SegmentPlaces
<1>3. ArchivesFit' BY <1>1, ArchivesRest DEF CuratorFits
<1>4. CallsFit' BY CallsRest DEF CuratorFits
<1>5. SegmentFits' BY <1>1, SegmentIsDone
<1> QED BY <1>2, <1>3, <1>4, <1>5 DEF CuratorFits

-----------------------------------------------------------------------------
(* Each step.                                                              *)

LEMMA RaisedIsFit ==
  ASSUME CuratorShape, NEW m \in Nat \ {0}, NEW last
  PROVE  Raised(m, last) \in 0..10
<1>1. Prior(m) \in 0..10 BY DEF CuratorShape, Manifests, Prior
<1> DEFINE S == {Prior(m), IF m > last - RecentWindow THEN 7 ELSE 0,
                 IF m <= Protected THEN 8 ELSE 0}
<1>2. S \in SUBSET (0..10) /\ S # {}
  <2> HIDE DEF S
  <2>1. \A x \in S : x \in 0..10 BY <1>1 DEF S
  <2>2. Prior(m) \in S BY DEF S
  <2> QED BY <2>1, <2>2
<1>3. Raised(m, last) = Max(S) BY DEF Raised
<1> HIDE DEF S
<1>4. Max(S) \in S BY <1>2, MaxIsGreatest
<1> QED BY <1>2, <1>3, <1>4

LEMMA AssembleKeeps ==
  ASSUME CuratorFits, UNCHANGED transcript, BeginAssembly
  PROVE  CuratorFits'
<1>0. CuratorShape /\ ArchivesFit /\ CallsFit /\ SegmentFits BY DEF CuratorFits
<1>1. PICK last \in visible..Len(transcript) :
        /\ last > 0 /\ visible' = last
        /\ relevance' = [m \in 1..last |-> Raised(m, last)]
        /\ archived' = [m \in 1..last |->
                          IF m <= Len(onDisk.archived) THEN onDisk.archived[m] ELSE 0]
  BY DEF BeginAssembly
<1>2. /\ segmentAt = "rest" /\ segmentAt' = "saving" /\ thenTo' = "choose"
      /\ UNCHANGED <<onDisk, archives, providerOn, modelCalls, steps, plan, outgoing, route>>
  BY DEF BeginAssembly, At1, Saving, callVars, resultVars
<1>3. /\ visible \in Nat /\ Len(transcript) \in Nat /\ last \in Nat
      /\ visible' \in 0..Len(transcript')
  BY <1>0, <1>1, IdsAreNumbers, CuratorAssumption DEF CuratorShape, SessionFits
<1>4. onDisk.archived \in Seq(Nat) /\ Len(onDisk.archived) \in Nat
  BY <1>0 DEF CuratorShape, Manifests
<1>5. relevance' \in Seq(0..10) /\ Len(relevance') = last
  <2>1. \A m \in 1..last : Raised(m, last) \in 0..10 BY <1>0, RaisedIsFit
  <2>2. relevance' \in [1..last -> 0..10] BY <1>1, <2>1
  <2> QED BY <1>3, <2>2
<1>6. archived' \in Seq(Nat) /\ Len(archived') = last BY <1>4, <1>1, <1>3
<1>7. CuratorShape'
  BY <1>0, <1>3, <1>1, <1>2, <1>5, <1>6 DEF CuratorShape, SessionFits, SegmentPlaces
<1>8. ArchivesFit'
  <2>1. ArchivesHold(onDisk.archived) BY <1>0 DEF ArchivesFit
  <2>2. ASSUME NEW m \in 1..last, archived'[m] # 0
        PROVE  archived'[m] \in 1..Len(archives) /\ m \in archives[archived'[m]]
    BY <1>1, <1>4, <2>2, <2>1 DEF ArchivesHold
  <2> QED BY <1>2, <1>6, <2>1, <2>2 DEF ArchivesFit, ArchivesHold
<1>9. CallsFit' BY <1>0, <1>2, CallsRest DEF CallsFit, callVars
<1>10. SegmentFits' BY <1>0, <1>2, SegmentRests
<1> QED BY <1>7, <1>8, <1>9, <1>10 DEF CuratorFits

LEMMA SaveKeeps ==
  ASSUME CuratorFits, UNCHANGED transcript, Save
  PROVE  CuratorFits'
<1>0. CuratorShape /\ ArchivesFit /\ CallsFit /\ SegmentFits BY DEF CuratorFits
<1>1. /\ segmentAt = "saving" /\ segmentAt' = thenTo /\ thenTo' = thenTo
      /\ onDisk' = [relevance |-> relevance, archived |-> archived]
      /\ UNCHANGED <<visible, relevance, archived, archives, callVars, plan, outgoing>>
  BY DEF Save, At1, manifestVars, resultVars
<1>2. thenTo \in {"choose", "act"} BY <1>0, <1>1 DEF CuratorShape
<1>3. CuratorShape'
  <2>1. SessionFits' BY <1>0, <1>1, SessionRests DEF CuratorShape
  <2>2. onDisk' \in Manifests BY <1>0, <1>1 DEF CuratorShape, Manifests
  <2> QED BY <1>0, <1>1, <1>2, <2>1, <2>2 DEF CuratorShape, SegmentPlaces
<1>4. ArchivesFit' BY <1>1, <1>0 DEF ArchivesFit, ArchivesHold
<1>5. CallsFit' BY <1>0, <1>1, CallsRest DEF CallsFit
<1>6. SegmentFits' BY <1>0, <1>1, <1>2, SegmentRests
<1> QED BY <1>3, <1>4, <1>5, <1>6 DEF CuratorFits

LEMMA ChooseKeeps ==
  ASSUME CuratorFits, UNCHANGED transcript, Choose
  PROVE  CuratorFits'
<1>0. CuratorShape /\ CallsFit /\ SegmentFits /\ SessionFits
  BY DEF CuratorFits, CuratorShape
<1>1. segmentAt = "choose" /\ ~providerOn
      /\ UNCHANGED <<visible, manifestVars, onDisk, archives, callVars, plan>>
  BY <1>0 DEF Choose, At1, CallsFit
<1>2. CASE visible < Threshold
  BY <1>2, <1>0, <1>1, ShortIsHistory, Finishes DEF Choose, SegmentFits
<1>3. CASE ~(visible < Threshold)
  BY <1>3, <1>0, <1>1, CallsRest, GoesOn DEF Choose, SegmentPlaces
<1> QED BY <1>2, <1>3

LEMMA AskCuratorKeeps ==
  ASSUME CuratorFits, UNCHANGED transcript, AskCurator
  PROVE  CuratorFits'
<1>0. CuratorShape /\ CallsFit BY DEF CuratorFits
<1>1. segmentAt = "ask" /\ ~providerOn /\ modelCalls \in Nat /\ steps = modelCalls
      /\ UNCHANGED <<visible, manifestVars, onDisk, archives, plan, outgoing>>
  BY <1>0 DEF AskCurator, At1, CallsFit, resultVars
<1>2. CASE steps < MaxSteps /\ MayAsk
  BY <1>2, <1>1, CuratorAssumption, GoesOn DEF AskCurator, Go, MayAsk, CallsFit, SegmentPlaces
<1>3. CASE ~(steps < MaxSteps /\ MayAsk)
  BY <1>3, <1>0, <1>1, CallsRest, GoesOn DEF AskCurator, SegmentPlaces
<1> QED BY <1>2, <1>3

LEMMA ReturnKeeps ==
  ASSUME CuratorFits, UNCHANGED transcript, ProviderReturns
  PROVE  CuratorFits'
<1>0. CuratorShape /\ ArchivesFit /\ CallsFit /\ SegmentFits BY DEF CuratorFits
<1>1. /\ providerOn /\ providerOn' = FALSE /\ modelCalls' = modelCalls + 1
      /\ UNCHANGED <<visible, segmentAt, thenTo, relevance, archived, onDisk, archives, steps,
                     plan, outgoing>>
  BY DEF ProviderReturns, manifestVars, resultVars
<1>2. segmentAt \in {"asked", "joining"} BY <1>0, <1>1 DEF CallsFit
<1>3. CuratorShape' BY <1>0, <1>1, SessionRests DEF CuratorShape
<1>4. ArchivesFit' BY <1>0, <1>1, ArchivesRest
<1>5. CallsFit'
  <2>1. modelCalls \in Nat /\ steps = modelCalls + 1 BY <1>0, <1>1 DEF CallsFit
  <2>2. modelCalls' \in Nat /\ steps' = modelCalls' BY <1>1, <2>1
  <2>3. steps' \in Nat /\ steps' <= MaxSteps /\ steps' < CallLimit
    BY <1>0, <1>1 DEF CallsFit
  <2>4. providerOn' = FALSE BY <1>1
  <2> QED
    <3>1. steps' = modelCalls' + (IF providerOn' THEN 1 ELSE 0)
      BY <1>1, <2>1, <2>4
    <3>2. providerOn' \in BOOLEAN /\ ~providerOn' BY <2>4
    <3> QED BY <2>2, <2>3, <3>1, <3>2 DEF CallsFit
<1>6. SegmentFits' BY <1>0, <1>1, <1>2, SegmentRests
<1> QED BY <1>3, <1>4, <1>5, <1>6 DEF CuratorFits

\* The steps that only go on.
LEMMA PassingKeeps ==
  ASSUME CuratorFits, UNCHANGED transcript,
         TakeAnswer \/ TimeIsUp \/ JoinProvider \/ NextStep
  PROVE  CuratorFits'
<1>0. CallsFit BY DEF CuratorFits
<1>1. /\ UNCHANGED <<visible, manifestVars, onDisk, archives, callVars, plan, outgoing>>
      /\ segmentAt \in {"asked", "joining", "act"}
  BY DEF TakeAnswer, TimeIsUp, JoinProvider, NextStep, At1, resultVars
<1>2. CASE TimeIsUp
  BY <1>2, <1>0, <1>1, GoesOn DEF TimeIsUp, Go, CallsFit, callVars, SegmentPlaces
<1>3. CASE TakeAnswer \/ JoinProvider \/ NextStep
  <2>1. ~providerOn
    BY <1>0, <1>3 DEF TakeAnswer, JoinProvider, NextStep, Joined, At1, CallsFit
  <2>2. CallsFit' BY <1>0, <1>1, <2>1, CallsRest
  <2>3. Go("act") \/ Go("fallback") \/ Go("ask")
    BY <1>3 DEF TakeAnswer, JoinProvider, NextStep
  <2>4. {"act", "fallback", "ask"} \subseteq SegmentPlaces \ {"rest", "saving", "done"}
    BY DEF SegmentPlaces
  <2> QED BY <1>1, <2>2, <2>3, <2>4, GoesOn
<1> QED BY <1>2, <1>3

LEMMA TuneKeeps ==
  ASSUME CuratorFits, UNCHANGED transcript, segmentAt = "act", Saving("act"),
         UNCHANGED <<visible, onDisk, callVars, resultVars>>,
         relevance' \in Seq(0..10), archived' \in Seq(Nat), archives' \in Seq(SUBSET Nat),
         Len(relevance') = visible, Len(archived') = visible, ArchivesFit'
  PROVE  CuratorFits'
<1>0. CuratorShape /\ CallsFit /\ SegmentFits BY DEF CuratorFits
<1>1. segmentAt' = "saving" /\ thenTo' = "act" /\ UNCHANGED <<plan, outgoing>>
  BY DEF Saving, resultVars
<1>2. CuratorShape' BY <1>0, <1>1, SessionRests DEF CuratorShape, SegmentPlaces
<1>3. CallsFit' BY <1>0, CallsRest DEF CallsFit
<1>4. SegmentFits' BY <1>0, <1>1, SegmentRests
<1> QED BY <1>2, <1>3, <1>4 DEF CuratorFits

LEMMA ArchiveKeeps ==
  ASSUME CuratorFits, UNCHANGED transcript, Archive
  PROVE  CuratorFits'
<1>0. CuratorShape /\ ArchivesFit /\ SessionFits
  BY DEF CuratorFits, CuratorShape
<1>1. PICK moved \in Groups(Ids) :
        /\ archives' = Append(archives, moved)
        /\ archived' = [m \in Ids |-> IF m \in moved THEN Len(archives) + 1 ELSE archived[m]]
        /\ relevance' = [m \in Ids |-> IF m \in moved THEN Min({relevance[m], 4})
                                       ELSE relevance[m]]
  BY DEF Archive
<1>2. /\ segmentAt = "act" /\ Saving("act") /\ UNCHANGED <<visible, onDisk, callVars, resultVars>>
  BY DEF Archive, At1
<1>3. /\ visible \in Nat /\ Ids = 1..visible /\ Ids \in SUBSET Nat /\ Len(archives) \in Nat
      /\ \A m \in Ids : relevance[m] \in 0..10 /\ archived[m] \in Nat
      /\ Len(archived) = visible /\ moved \in SUBSET Nat
  <2>1. visible \in Nat /\ Ids = 1..visible /\ Ids \in SUBSET Nat /\ Len(archives) \in Nat
    BY <1>0, IdsAreNumbers DEF CuratorShape, Ids
  <2>2. Len(archived) = visible /\ Len(relevance) = visible
    BY <1>0, <1>2 DEF CuratorShape
  <2>3. \A m \in Ids : relevance[m] \in 0..10
    BY <1>0, <2>1, <2>2 DEF CuratorShape
  <2>4. \A m \in Ids : archived[m] \in Nat BY <1>0, <2>1, <2>2 DEF CuratorShape
  <2>5. moved \in SUBSET Nat BY <2>1 DEF Groups, Group
  <2> QED BY <2>1, <2>2, <2>3, <2>4, <2>5
<1>4. relevance' \in Seq(0..10) /\ Len(relevance') = visible
  <2>1. \A m \in Ids : Min({relevance[m], 4}) \in 0..10
    <3> TAKE m \in Ids
    <3>1. {relevance[m], 4} \in SUBSET Nat /\ {relevance[m], 4} # {}
      BY SMTT(60), <1>3
    <3>2. Min({relevance[m], 4}) \in {relevance[m], 4} BY <3>1, MinIsLeast
    <3> QED BY <1>3, <3>2
  <2>2. relevance' \in [1..visible -> 0..10] BY <1>1, <1>3, <2>1
  <2> QED BY <1>3, <2>2
<1>5. archived' \in Seq(Nat) /\ Len(archived') = visible BY <1>1, <1>3
<1>6. /\ archives' \in Seq(SUBSET Nat) /\ Len(archives') = Len(archives) + 1
      /\ archives'[Len(archives) + 1] = moved
      /\ \A k \in 1..Len(archives) : archives'[k] = archives[k]
  BY <1>0, <1>1, <1>3, AppendProperties DEF CuratorShape
<1>7. ArchivesFit'
  <2>1. ArchivesHold(archived) /\ ArchivesHold(onDisk.archived)
    BY <1>0 DEF ArchivesFit
  <2>2. \A k \in 1..Len(archives) : k \in 1..Len(archives') /\ archives'[k] = archives[k]
    BY <1>3, <1>6
  <2>3. ArchivesHold(onDisk.archived)' BY <1>2, <2>1, <2>2 DEF ArchivesHold
  <2>4. ASSUME NEW m \in 1..visible, archived'[m] # 0
        PROVE  archived'[m] \in 1..Len(archives') /\ m \in archives'[archived'[m]]
    <3>1. m \in Ids BY <1>3
    <3>2. CASE m \in moved BY <1>1, <3>1, <3>2, <1>3, <1>6
    <3>3. CASE m \notin moved
      BY <1>1, <3>1, <3>3, <1>3, <2>1, <2>2, <2>4 DEF ArchivesHold
    <3> QED BY <3>2, <3>3
  <2>5. ArchivesHold(archived)' BY <1>5, <2>4 DEF ArchivesHold
  <2> QED BY <2>3, <2>5 DEF ArchivesFit
<1> QED BY <1>2, <1>4, <1>5, <1>6, <1>7, TuneKeeps

LEMMA SetKeeps ==
  ASSUME CuratorFits, UNCHANGED transcript, SetRelevance
  PROVE  CuratorFits'
<1>0. CuratorShape /\ ArchivesFit BY DEF CuratorFits
<1>1. PICK m \in Ids, r \in {0, 10} : relevance' = [relevance EXCEPT ![m] = r]
  BY DEF SetRelevance
<1>2. /\ segmentAt = "act" /\ Saving("act")
      /\ UNCHANGED <<visible, archived, onDisk, archives, callVars, resultVars>>
  BY DEF SetRelevance, At1
<1>3. relevance \in Seq(0..10) /\ Len(relevance) = visible /\ Len(archived) = visible
  BY <1>0, <1>2 DEF CuratorShape
<1>4. relevance' \in Seq(0..10) /\ Len(relevance') = visible
  BY <1>3, <1>1 DEF Ids
<1>5. ArchivesFit' BY <1>0, <1>2, ArchivesRest
<1> QED BY <1>0, <1>2, <1>3, <1>4, <1>5, TuneKeeps DEF CuratorShape

LEMMA BuildKeeps ==
  ASSUME CuratorFits, UNCHANGED transcript, BuildContext
  PROVE  CuratorFits'
<1>0. CuratorShape /\ SessionFits /\ CallsFit BY DEF CuratorFits, CuratorShape
<1>1. /\ segmentAt = "act" /\ Go("done")
      /\ UNCHANGED <<visible, manifestVars, onDisk, archives, callVars>>
  BY DEF BuildContext, At1
<1>2. PICK ids \in {Closed(s) : s \in SUBSET Ids}, injected \in {0, 1} :
        /\ Acceptable(Trimmed(ids, injected), injected)
        /\ plan' = ids /\ outgoing' = Trimmed(ids, injected) /\ route' = "slow"
  BY DEF BuildContext
<1>3. ids \subseteq Ids
  <2>1. PICK s \in SUBSET Ids : ids = Closed(s) OBVIOUS
  <2> QED BY <1>0, <2>1, ClosedIsWhole DEF Whole
<1>4. RelevanceFits /\ ~providerOn BY <1>0, <1>1, RelevanceIsFit DEF CallsFit
<1>5. injected \in Nat OBVIOUS
<1>6. /\ WholeHistory(Trimmed(ids, injected), "slow") /\ Trimmed(ids, injected) \subseteq Ids
      /\ TrimStory(Closed(ids), Trimmed(ids, injected))
  BY <1>0, <1>2, <1>3, <1>4, <1>5, TrimmedIsHistory
<1>7. LeastGone(plan', outgoing') BY <1>0, <1>2, <1>6, StoryIsLeastGone
<1>8. WholeHistory(outgoing', route') /\ outgoing' \subseteq Ids /\ plan' \subseteq Ids
  BY <1>2, <1>3, <1>6
<1> QED BY <1>1, <1>4, <1>7, <1>8, Finishes

LEMMA FallbackKeeps ==
  ASSUME CuratorFits, UNCHANGED transcript, Fallback
  PROVE  CuratorFits'
<1>0. CuratorShape /\ SessionFits /\ CallsFit BY DEF CuratorFits, CuratorShape
<1>1. /\ segmentAt = "fallback" /\ Go("done")
      /\ UNCHANGED <<visible, manifestVars, onDisk, archives, callVars>>
      /\ plan' = Closed(FallbackPlan) /\ outgoing' = Trimmed(FallbackPlan, 1)
      /\ route' = "fallback"
  BY DEF Fallback, At1
<1>2. FallbackPlan \subseteq Ids BY DEF FallbackPlan
<1>3. RelevanceFits /\ ~providerOn BY <1>0, <1>1, RelevanceIsFit DEF CallsFit
<1>4. /\ WholeHistory(Trimmed(FallbackPlan, 1), "fallback")
      /\ Trimmed(FallbackPlan, 1) \subseteq Ids
      /\ TrimStory(Closed(FallbackPlan), Trimmed(FallbackPlan, 1))
  BY <1>0, <1>2, <1>3, TrimmedIsHistory
<1>5. Whole(Closed(FallbackPlan)) /\ Closed(Closed(FallbackPlan)) = Closed(FallbackPlan)
  BY <1>0, <1>2, ClosedIsWhole, WholeIsClosed
<1>6. LeastGone(plan', outgoing') BY <1>1, <1>4, <1>5, <1>0, StoryIsLeastGone
<1>7. WholeHistory(outgoing', route') /\ outgoing' \subseteq Ids /\ plan' \subseteq Ids
  BY <1>1, <1>4, <1>5 DEF Whole
<1> QED BY <1>1, <1>3, <1>6, <1>7, Finishes

LEMMA ClearedKeeps ==
  ASSUME CuratorFits, UNCHANGED <<transcript, visible, archives>>, Cleared,
         onDisk' = onDisk \/ onDisk' = NoManifest
  PROVE  CuratorFits'
<1>0. CuratorShape /\ ArchivesFit BY DEF CuratorFits
<1>1. /\ relevance' = <<>> /\ archived' = <<>> /\ modelCalls' = 0 /\ steps' = 0
      /\ plan' = {} /\ outgoing' = {} /\ segmentAt' = "rest" /\ thenTo' = thenTo
      /\ providerOn' = FALSE
  BY DEF Cleared, Go
<1>2. <<>> \in Seq(0..10) /\ <<>> \in Seq(Nat) /\ Len(<<>>) = 0 OBVIOUS
<1>3. CuratorShape'
  <2>1. SessionFits' BY <1>0, SessionRests DEF CuratorShape
  <2>2. NoManifest \in Manifests BY <1>2 DEF NoManifest, Manifests
  <2> QED BY <1>0, <1>1, <1>2, <2>1, <2>2 DEF CuratorShape, SegmentPlaces
<1>4. ArchivesFit'
  <2>1. ArchivesHold(archived)' BY <1>1, <1>2 DEF ArchivesHold
  <2>2. ArchivesHold(onDisk.archived)'
    <3>1. CASE onDisk' = onDisk BY <1>0, <3>1 DEF ArchivesFit, ArchivesHold
    <3>2. CASE onDisk' = NoManifest BY <3>2, <1>2 DEF NoManifest, ArchivesHold
    <3> QED BY <3>1, <3>2
  <2> QED BY <2>1, <2>2 DEF ArchivesFit
<1>5. CallsFit'
  <2>1. 0 < CallLimit /\ 0 <= MaxSteps BY CuratorAssumption
  <2> QED
    <3>1. steps' = modelCalls' + (IF providerOn' THEN 1 ELSE 0) BY <1>1
    <3>2. providerOn' \in BOOLEAN /\ ~providerOn' BY <1>1
    <3>3. modelCalls' \in Nat /\ steps' \in Nat /\ steps' <= MaxSteps /\ steps' < CallLimit
      BY <1>1, <2>1
    <3> QED BY <3>1, <3>2, <3>3 DEF CallsFit
<1>6. SegmentFits' BY <1>1 DEF SegmentFits, HistoryIsWhole, LeastRelevantGo, At1
<1> QED BY <1>3, <1>4, <1>5, <1>6 DEF CuratorFits

LEMMA CuratorRests ==
  ASSUME CuratorFits, UNCHANGED curatorVars
  PROVE  CuratorFits'
<1>1. UNCHANGED <<transcript, visible, segmentAt, thenTo, relevance, archived, onDisk, archives,
                  providerOn, modelCalls, steps, plan, outgoing, route>>
  BY DEF curatorVars
<1>2. CuratorShape' BY <1>1, SessionRests DEF CuratorFits, CuratorShape
<1>3. ArchivesFit' BY <1>1, ArchivesRest DEF CuratorFits
<1>4. CallsFit' BY <1>1 DEF CuratorFits, CallsFit
<1>5. SegmentFits'
  <2>1. CASE segmentAt = "done"
    <3>1. WholeHistory(outgoing', route') /\ (route' # "fast" => LeastGone(plan', outgoing'))
      BY <1>1, <2>1 DEF CuratorFits, SegmentFits, HistoryIsWhole, LeastRelevantGo,
         WholeHistory, LeastGone, At1
    <3>2. outgoing' \subseteq Ids /\ plan' \subseteq Ids
      BY <1>1 DEF CuratorFits, SegmentFits
    <3> QED BY <1>1, <2>1, <3>1, <3>2, SegmentIsDone
  <2>2. CASE segmentAt # "done" BY <1>1, <2>2, SegmentRests DEF CuratorFits
  <2> QED BY <2>1, <2>2
<1> QED BY <1>2, <1>3, <1>4, <1>5 DEF CuratorFits

LEMMA CuratorMoves ==
  ASSUME CuratorFits, CuratorNext
  PROVE  CuratorFits'
<1>0. UNCHANGED transcript BY DEF CuratorNext
<1>1. CASE TurnGoesOn BY <1>0, <1>1, ClearedKeeps DEF TurnGoesOn
<1>2. CASE KillProcess BY <1>0, <1>2, ClearedKeeps DEF KillProcess
<1> QED
  BY <1>0, <1>1, <1>2, AssembleKeeps, SaveKeeps, ChooseKeeps, AskCuratorKeeps, ReturnKeeps,
     PassingKeeps, ArchiveKeeps, SetKeeps, BuildKeeps, FallbackKeeps
     DEF CuratorNext, AssemblyWork, CuratorTool

LEMMA CuratorIsFit == CuratorFits => ContextIsSound
<1> SUFFICES ASSUME CuratorFits PROVE ContextIsSound OBVIOUS
<1>0. CuratorShape /\ ArchivesFit /\ CallsFit /\ SegmentFits BY DEF CuratorFits
<1>1. CuratorTypes
  BY <1>0 DEF CuratorShape, CallsFit, SegmentFits, CuratorTypes, SegmentPlaces
<1>2. CuratorIsContained
  BY <1>0 DEF CallsFit, At1, ArchivesFit, ArchivesHold, CuratorIsContained
<1> QED BY <1>0, <1>1, <1>2 DEF ContextIsSound, SegmentFits

\* For any orderly sessions, capacities and windows, and whatever the curator
\* plans, tunes and archives, and whenever it dies: the history of a request is
\* whole, what was dropped from its plan is what mattered least, no provider of
\* the curator outlives its part, and what the manifest calls archived is there.
THEOREM ContextStaysSound == CuratorInit /\ [][CuratorNext]_curatorVars => []ContextIsSound
<1>1. CuratorFits /\ [CuratorNext]_curatorVars => CuratorFits'
  BY CuratorMoves, CuratorRests
<1> QED BY <1>1, CuratorBegins, CuratorIsFit, PTL

-----------------------------------------------------------------------------
(* What goes to a model and what comes back                                *)

\* Each component begins where it may, and a step of the services is a step of
\* the chain of providers and of the history that is put together, or none.
LEMMA ServicesStep ==
  /\ Init => ChainInit /\ CuratorInit
  /\ [Next]_vars => [ChainNext]_chainVars /\ [CuratorNext]_curatorVars
<1>1. Init => ChainInit /\ CuratorInit BY Zenon DEF Init
<1>2. Next => [ChainNext]_chainVars /\ [CuratorNext]_curatorVars
  BY Zenon DEF Next
<1>3. UNCHANGED vars => UNCHANGED chainVars /\ UNCHANGED curatorVars BY DEF vars
<1> QED BY <1>1, <1>2, <1>3

\* For any chains of providers and any orderly sessions: what is shown of an
\* answer is one provider's, and what is sent for it keeps what it must, keeps
\* calls with their results and was paid for within the limit on calls.
THEOREM RequestsStaySound == Spec => []RequestsAreSound
<1>1. Spec => [](OneVoice /\ ContextIsSound)
  BY ServicesStep, OneVoiceHolds, ContextStaysSound, PTL DEF Spec
<1> QED BY <1>1, PTL DEF RequestsAreSound
=============================================================================
