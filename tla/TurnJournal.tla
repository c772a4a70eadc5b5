----------------------------- MODULE TurnJournal -----------------------------
(***************************************************************************)
(* The run store's record of turns: per turn an append-only event log      *)
(* (turn_events.jsonl), a snapshot projected from it (turn.json) and a     *)
(* lock file.  Processes that share the state directory write to it: the   *)
(* TurnRuntime of the process that accepted a turn, and the recovery that  *)
(* every process runs when it is assembled.  A commit blocks its process's *)
(* event loop, so a process has one at a time; between its two writes, and *)
(* within the first, the process may crash or the write may fail.          *)
(* A definition named Faulty... is a later one with a mistake planted.     *)
(***************************************************************************)
EXTENDS Integers, FiniteSets, SequencesExt

CONSTANTS
  Processes,     \* processes that use one state directory
  Turns,         \* turn ids; each is new when it is submitted
  MaxSequence,   \* bound: events a runtime tries to record of one turn
  MaxStarts,     \* bound: how often processes are started, all together;
                 \* none crashes after the last start
  Nobody

ASSUME BoundsAssumption == MaxSequence \in Nat /\ MaxStarts \in Nat
ASSUME NobodyAssumption == Nobody \notin Processes

Terminal == {"completed", "failed", "cancelled"}
Kinds == {"accepted", "started", "text", "merged"} \cup Terminal

VARIABLES
  calm,      \* whether writes fail only in a crash, and one process runs at a
             \* time; a step never changes it
  log,       \* complete records of each turn's event file
  torn,      \* turns whose event file ends in a partial record
  snap,      \* the state in each turn's snapshot, "none" without a file
  lock,      \* who holds the lock of each turn
  process,   \* "down", "recovering" or "serving"
  listed,    \* the turns recovery found when it listed the directory
  todo,      \* those of them it has not looked at yet
  op,        \* the commit each process is in
  owner,     \* the process that was asked to accept each turn
  life,      \* where that process is with the turn
  sequence,  \* TurnLifecycle.sequence of the turn
  answer,    \* what the turn's caller got: a state, "raised", or "none" yet
  starts     \* how many times a process was started

disk == <<log, torn, snap>>
vars == <<calm, log, torn, snap, lock, process, listed, todo, op, owner, life,
          sequence, answer, starts>>

Lives == {"new", "refused", "accepted", "running", "settling", "left", "ended"}

NoOp == [at |-> "none"]
Ops == [at : {"lock", "append", "replace"}, by : {"runtime", "recovery"},
        turn : Turns, event : Kinds \cup {"none"}, seq : Nat,
        state : Kinds \cup {"none", "running"}]

Init ==
  /\ calm \in BOOLEAN
  /\ log = [t \in Turns |-> <<>>]
  /\ torn = {}
  /\ snap = [t \in Turns |-> "none"]
  /\ lock = [t \in Turns |-> Nobody]
  /\ process = [p \in Processes |-> "down"]
  /\ listed = [p \in Processes |-> {}]
  /\ todo = [p \in Processes |-> {}]
  /\ op = [p \in Processes |-> NoOp]
  /\ owner = [t \in Turns |-> Nobody]
  /\ life = [t \in Turns |-> "new"]
  /\ sequence = [t \in Turns |-> 0]
  /\ answer = [t \in Turns |-> "none"]
  /\ starts = 0

Ended(events) == \E i \in DOMAIN events : events[i] \in Terminal
Fate(t) == IF Ended(log[t]) THEN Last(log[t]) ELSE "none"

FaultyValidAfterEnd(events, e, seq) ==
  /\ seq = Len(events) + 1
  /\ events = <<>> => e = "accepted"

(* _validate_turn_event *)
Valid(events, e, seq) ==
  /\ seq = Len(events) + 1
  /\ events # <<>> => ~Ended(events)
  /\ events = <<>> => e = "accepted"

-----------------------------------------------------------------------------
(* What a process does with the result of a commit.                        *)
Committed(p) ==
  LET t == op[p].turn
      e == op[p].event
  IN IF op[p].by = "recovery" THEN UNCHANGED <<life, answer, process, todo>>
     ELSE /\ life' = [life EXCEPT ![t] =
               CASE e \in {"accepted", "text"} -> IF @ = "new" THEN "accepted" ELSE @
                 [] e = "started" -> "running"
                 [] e = "merged"  -> "settling"
                 [] OTHER -> IF e = "cancelled" /\ @ = "running"
                             THEN "left" ELSE "ended"]
          /\ answer' = [answer EXCEPT ![t] = IF e \in Terminal THEN e ELSE @]
          /\ UNCHANGED <<process, todo>>

(* submit raises; a run, a cancellation or a settlement raises; a text     *)
(* event raises into the runner, which may still end in any way.  What     *)
(* raises in recovery ends the assembly of the process.                    *)
Raised(p) ==
  LET t == op[p].turn
      e == op[p].event
  IN IF op[p].by = "recovery"
     THEN /\ process' = [process EXCEPT ![p] = "down"]
          /\ todo' = [todo EXCEPT ![p] = {}]
          /\ UNCHANGED <<life, answer>>
     ELSE /\ life' = [life EXCEPT ![t] =
               CASE e = "accepted" -> "refused"
                 [] e = "text" -> @
                 [] OTHER -> IF e = "cancelled" /\ @ = "running"
                             THEN "left" ELSE "ended"]
          /\ answer' = [answer EXCEPT ![t] =
               IF e \in {"accepted", "text"} THEN @ ELSE "raised"]
          /\ UNCHANGED <<process, todo>>

Release(p) ==
  /\ lock' = [lock EXCEPT ![op[p].turn] = Nobody]
  /\ op' = [op EXCEPT ![p] = NoOp]

-----------------------------------------------------------------------------
(* commit_turn_event and the locked part of recover_incomplete_turns.      *)

TakeLock(p) ==
  LET t == op[p].turn
  IN /\ op[p].at = "lock" /\ op[p].by = "runtime"
     /\ lock[t] = Nobody
     /\ lock' = [lock EXCEPT ![t] = p]
     /\ op' = [op EXCEPT ![p].at = "append"]
     /\ UNCHANGED <<disk, process, listed, todo, owner, life, sequence, answer,
                    starts>>

FaultyRecoverNoEvent(p) ==
  LET t == op[p].turn
  IN /\ op[p].at = "lock" /\ op[p].by = "recovery"
     /\ lock[t] = Nobody /\ log[t] # <<>>
     /\ torn' = torn \ {t}
     /\ op' = [op EXCEPT ![p].at = "replace",
                         ![p].state = IF Ended(log[t]) THEN Fate(t) ELSE "failed"]
     /\ lock' = [lock EXCEPT ![t] = p]
     /\ UNCHANGED <<log, snap, process, listed, todo, owner, life, sequence,
                    answer, starts>>

FaultyRepairDropsRecord(p) ==
  LET t == op[p].turn
  IN /\ op[p].at = "lock" /\ op[p].by = "recovery"
     /\ lock[t] = Nobody /\ log[t] # <<>>
     /\ torn' = torn \ {t}
     /\ log' = IF t \in torn THEN [log EXCEPT ![t] = Front(@)] ELSE log
     /\ op' = [op EXCEPT ![p] = [@ EXCEPT !.at = "append", !.event = "failed",
                                         !.seq = Len(log'[t]) + 1,
                                         !.state = "failed"]]
     /\ lock' = [lock EXCEPT ![t] = p]
     /\ UNCHANGED <<snap, process, listed, todo, owner, life, sequence,
                    answer, starts>>

(* What recovery goes on to write: the snapshot of an ended turn, or the   *)
(* end of one that has none.                                               *)
Restoring(t) == [at |-> "replace", by |-> "recovery", turn |-> t, event |-> "none",
                 seq |-> 0, state |-> Fate(t)]
Failing(t) == [at |-> "append", by |-> "recovery", turn |-> t, event |-> "failed",
               seq |-> Len(log[t]) + 1, state |-> "failed"]

(* Recovery reads the log, cuts a partial record off, and either restores  *)
(* the snapshot of an ended turn or fails a turn that has no end.          *)
RecoverRead(p) ==
  LET t == op[p].turn
  IN /\ op[p].at = "lock" /\ op[p].by = "recovery"
     /\ lock[t] = Nobody
     /\ torn' = torn \ {t}
     /\ IF log[t] = <<>>
        THEN /\ op' = [op EXCEPT ![p] = NoOp]
             /\ UNCHANGED lock
        ELSE /\ op' = [op EXCEPT ![p] = IF Ended(log[t]) THEN Restoring(t) ELSE Failing(t)]
             /\ lock' = [lock EXCEPT ![t] = p]
     /\ UNCHANGED <<log, snap, process, listed, todo, owner, life, sequence,
                    answer, starts>>

AppendEvent(p) ==
  LET t == op[p].turn
      o == op[p]
  IN /\ o.at = "append"
     /\ Valid(log[t], o.event, o.seq)
     /\ log' = [log EXCEPT ![t] = Append(@, o.event)]
     /\ torn' = torn \ {t}
     /\ IF o.state = "none"
        THEN Committed(p) /\ Release(p)
        ELSE /\ op' = [op EXCEPT ![p].at = "replace"]
             /\ UNCHANGED <<lock, process, todo, life, answer>>
     /\ UNCHANGED <<snap, listed, owner, sequence, starts>>

FaultyRefusalIsSuccess(p) ==
  LET t == op[p].turn
  IN /\ op[p].at = "append"
     /\ ~Valid(log[t], op[p].event, op[p].seq)
     /\ torn' = torn \ {t}
     /\ Committed(p) /\ Release(p)
     /\ UNCHANGED <<log, snap, listed, owner, sequence, starts>>

(* The validator refuses the event; reading the log has repaired it.       *)
RefuseEvent(p) ==
  LET t == op[p].turn
  IN /\ op[p].at = "append"
     /\ ~Valid(log[t], op[p].event, op[p].seq)
     /\ torn' = torn \ {t}
     /\ Raised(p) /\ Release(p)
     /\ UNCHANGED <<log, snap, listed, owner, sequence, starts>>

(* The write fails before anything is written, part of the way, or at the  *)
(* fsync of a record that is complete in the file.                         *)
AppendFails(p) ==
  LET t == op[p].turn
  IN /\ ~calm
     /\ op[p].at = "append"
     /\ Valid(log[t], op[p].event, op[p].seq)
     /\ \/ log' = log /\ torn' \in {torn \ {t}, torn \cup {t}}
        \/ /\ log' = [log EXCEPT ![t] = Append(@, op[p].event)]
           /\ torn' = torn \ {t}
     /\ Raised(p) /\ Release(p)
     /\ UNCHANGED <<snap, listed, owner, sequence, starts>>

ReplaceSnapshot(p) ==
  /\ op[p].at = "replace"
  /\ snap' = [snap EXCEPT ![op[p].turn] = op[p].state]
  /\ Committed(p) /\ Release(p)
  /\ UNCHANGED <<log, torn, listed, owner, sequence, starts>>

(* Before the rename, or at the fsync of the directory after it. *)
ReplaceFails(p) ==
  /\ ~calm
  /\ op[p].at = "replace"
  /\ snap' \in {snap, [snap EXCEPT ![op[p].turn] = op[p].state]}
  /\ Raised(p) /\ Release(p)
  /\ UNCHANGED <<log, torn, listed, owner, sequence, starts>>

-----------------------------------------------------------------------------
(* Processes.                                                              *)
Start(p) ==
  LET dirs == {t \in Turns : log[t] # <<>> \/ t \in torn}
  IN /\ process[p] = "down"
     /\ calm => \A q \in Processes : process[q] = "down"
     /\ starts < MaxStarts
     /\ starts' = starts + 1
     /\ process' = [process EXCEPT ![p] = "recovering"]
     /\ listed' = [listed EXCEPT ![p] = dirs]
     /\ todo' = [todo EXCEPT ![p] = dirs]
     /\ UNCHANGED <<disk, lock, op, owner, life, sequence, answer>>

RecoverNext(p, t) ==
  /\ process[p] = "recovering" /\ op[p] = NoOp
  /\ t \in todo[p]
  /\ todo' = [todo EXCEPT ![p] = @ \ {t}]
  /\ op' = [op EXCEPT ![p] = [at |-> "lock", by |-> "recovery", turn |-> t,
                              event |-> "none", seq |-> 0, state |-> "none"]]
  /\ UNCHANGED <<disk, lock, process, listed, owner, life, sequence, answer,
                 starts>>

FaultyServeEarly(p) ==
  /\ process[p] = "recovering" /\ op[p] = NoOp
  /\ process' = [process EXCEPT ![p] = "serving"]
  /\ UNCHANGED <<disk, lock, listed, todo, op, owner, life, sequence, answer,
                 starts>>

Serve(p) ==
  /\ process[p] = "recovering" /\ op[p] = NoOp /\ todo[p] = {}
  /\ process' = [process EXCEPT ![p] = "serving"]
  /\ UNCHANGED <<disk, lock, listed, todo, op, owner, life, sequence, answer,
                 starts>>

(* A process that dies gives its locks up and leaves its callers without   *)
(* an answer; what it was writing may be there in part.                    *)
Crash(p) ==
  /\ process[p] # "down"
  /\ starts < MaxStarts
  /\ process' = [process EXCEPT ![p] = "down"]
  /\ todo' = [todo EXCEPT ![p] = {}]
  /\ op' = [op EXCEPT ![p] = NoOp]
  /\ lock' = [t \in Turns |-> IF lock[t] = p THEN Nobody ELSE lock[t]]
  /\ life' = [t \in Turns |-> IF owner[t] = p THEN "ended" ELSE life[t]]
  /\ IF op[p].at = "append"
     THEN torn' \in {torn, torn \cup {op[p].turn}}
     ELSE torn' = torn
  /\ UNCHANGED <<log, snap, listed, owner, sequence, answer, starts>>

-----------------------------------------------------------------------------
FaultyNumberKept(p, t, e, state) ==
  /\ process[p] = "serving" /\ op[p] = NoOp
  /\ sequence' = [sequence EXCEPT ![t] = IF e = "text" THEN @ ELSE @ + 1]
  /\ op' = [op EXCEPT ![p] = [at |-> "lock", by |-> "runtime", turn |-> t,
                              event |-> e, seq |-> sequence[t] + 1,
                              state |-> state]]
  /\ UNCHANGED <<disk, lock, process, listed, todo, life, answer, starts>>

(* TurnRuntime: each event is numbered before it is committed, whatever    *)
(* becomes of the commit.                                                  *)
Record(p, t, e, state) ==
  /\ process[p] = "serving" /\ op[p] = NoOp
  /\ sequence' = [sequence EXCEPT ![t] = @ + 1]
  /\ op' = [op EXCEPT ![p] = [at |-> "lock", by |-> "runtime", turn |-> t,
                              event |-> e, seq |-> sequence[t] + 1,
                              state |-> state]]
  /\ UNCHANGED <<disk, lock, process, listed, todo, life, answer, starts>>

FaultyAcceptNoSnapshot(p, t) ==
  /\ owner[t] = Nobody
  /\ owner' = [owner EXCEPT ![t] = p]
  /\ Record(p, t, "accepted", "none")

Accept(p, t) ==
  /\ owner[t] = Nobody
  /\ owner' = [owner EXCEPT ![t] = p]
  /\ Record(p, t, "accepted", "accepted")

Begin(p, t) ==
  /\ owner[t] = p /\ life[t] = "accepted"
  /\ Record(p, t, "started", "running")
  /\ UNCHANGED owner

Text(p, t) ==
  /\ owner[t] = p /\ life[t] = "running"
  /\ sequence[t] < MaxSequence - 1
  /\ Record(p, t, "text", "none")
  /\ UNCHANGED owner

End(p, t) ==
  /\ owner[t] = p /\ life[t] = "running"
  /\ \E e \in Terminal : Record(p, t, e, e)
  /\ UNCHANGED owner

(* A cancelled run's thread is still there and streams on. *)
LateText(p, t) ==
  /\ owner[t] = p /\ life[t] = "left"
  /\ sequence[t] < MaxSequence
  /\ Record(p, t, "text", "none")
  /\ UNCHANGED owner

Cancel(p, t) ==
  /\ owner[t] = p /\ life[t] = "accepted"
  /\ Record(p, t, "cancelled", "cancelled")
  /\ UNCHANGED owner

(* complete_injected *)
Merge(p, t) ==
  /\ owner[t] = p /\ life[t] = "accepted"
  /\ Record(p, t, "merged", "running")
  /\ UNCHANGED owner

Settle(p, t) ==
  /\ owner[t] = p /\ life[t] = "settling"
  /\ \E e \in Terminal : Record(p, t, e, e)
  /\ UNCHANGED owner

-----------------------------------------------------------------------------
CommitStep(p) ==
  \/ TakeLock(p) \/ RecoverRead(p) \/ AppendEvent(p) \/ RefuseEvent(p)
  \/ AppendFails(p) \/ ReplaceSnapshot(p) \/ ReplaceFails(p)

RuntimeStep(p, t) ==
  \/ Accept(p, t) \/ Begin(p, t) \/ Text(p, t) \/ End(p, t)
  \/ LateText(p, t) \/ Cancel(p, t) \/ Merge(p, t) \/ Settle(p, t)

Next ==
  /\ UNCHANGED calm
  /\ \E p \in Processes :
       \/ Start(p) \/ Serve(p) \/ Crash(p) \/ CommitStep(p)
       \/ \E t \in Turns : RecoverNext(p, t) \/ RuntimeStep(p, t)

Spec == Init /\ [][Next]_vars

-----------------------------------------------------------------------------
(* Properties.                                                             *)

(* Type invariant of the files, locks and processes. *)
TypeOK ==
  /\ calm \in BOOLEAN
  /\ log \in [Turns -> Seq(Kinds)]
  /\ torn \in SUBSET Turns
  /\ snap \in [Turns -> Terminal \cup {"none", "accepted", "running"}]
  /\ lock \in [Turns -> Processes \cup {Nobody}]
  /\ process \in [Processes -> {"down", "recovering", "serving"}]
  /\ listed \in [Processes -> SUBSET Turns]
  /\ todo \in [Processes -> SUBSET Turns]
  /\ op \in [Processes -> Ops \cup {NoOp}]
  /\ owner \in [Turns -> Processes \cup {Nobody}]
  /\ life \in [Turns -> Lives]
  /\ sequence \in [Turns -> Nat]
  /\ answer \in [Turns -> Terminal \cup {"none", "raised"}]
  /\ starts \in Nat

(* The log of a turn tells one story: it begins with its acceptance and    *)
(* has one end, although a runtime, its left-behind thread and any number  *)
(* of recoveries append to it.                                             *)
OneStory ==
  \A t \in Turns : log[t] # <<>> =>
    /\ log[t][1] = "accepted"
    /\ \A i \in DOMAIN log[t] : log[t][i] \in Terminal => i = Len(log[t])

(* "The event log is the fact source; turn.json is a recoverable           *)
(* projection": the snapshot never says more than the log.                 *)
SnapshotFollowsLog ==
  \A t \in Turns :
    /\ snap[t] # "none" => log[t] # <<>>
    /\ snap[t] = "running" => \E i \in DOMAIN log[t] :
                                 log[t][i] \in {"started", "merged"}
    /\ snap[t] \in Terminal => Fate(t) = snap[t]

(* What a caller is told happened is what the log says, for good: another  *)
(* process's recovery may refuse a run its answer, never contradict it.    *)
AnswerIsLogged ==
  \A t \in Turns : answer[t] \in Terminal => Fate(t) = answer[t]

(* "A returned Handle always has a durable turn.accepted event and         *)
(* accepted snapshot."                                                     *)
HandleIsDurable ==
  \A t \in Turns : life[t] \in {"accepted", "running", "settling", "left"} =>
    log[t] # <<>> /\ snap[t] # "none"

(* Nothing is shown that the log does not say: snapshots, handles and the  *)
(* answers of callers all follow the log, across crashes and recoveries.   *)
WhatIsShownIsLogged ==
  TypeOK /\ SnapshotFollowsLog /\ HandleIsDurable /\ AnswerIsLogged

(* A process that begins to serve has accounted for every turn it found:   *)
(* each has an end, and its snapshot shows it.                             *)
RecoveryIsComplete ==
  [][\A p \in Processes : process[p] = "recovering" /\ process'[p] = "serving" =>
       \A t \in listed[p] : log[t] # <<>> => Fate(t) \in Terminal
                                              /\ snap[t] = Fate(t)]_vars

(* When writes fail only in a crash and one process at a time uses the     *)
(* directory, no event is ever refused: the numbering of a runtime, its    *)
(* lifecycle and the recoveries before it agree.                           *)
NeverRefused ==
  calm => \A t \in Turns : answer[t] # "raised" /\ life[t] # "refused"

(* And then a turn whose process has done with it has its end in the log,  *)
(* or will be given one by the next start.                                 *)
NothingIsDropped ==
  calm => \A t \in Turns :
    life[t] = "ended" /\ ~Ended(log[t]) /\ log[t] # <<>> =>
      \/ process[owner[t]] = "down"
      \/ \E p \in Processes : process[p] = "recovering" /\ t \in listed[p]

(* A calm directory loses nothing: no event is refused and no turn is left *)
(* without an end that somebody is going to write.                         *)
CalmLosesNothing == NeverRefused /\ NothingIsDropped

(* The log is the truth about every turn, whichever processes crashed and  *)
(* recovered: it tells one story, shows what others show, and is complete  *)
(* in a calm directory.                                                    *)
LogIsTheTruth == OneStory /\ WhatIsShownIsLogged /\ CalmLosesNothing
=============================================================================
