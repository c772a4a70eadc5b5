--------------------------- MODULE DurableDelivery ---------------------------
(***************************************************************************)
(* The gateway's durable directory channel: inbox files become turns, and  *)
(* the replies of turns become outbox files, through a receipt per message *)
(* identity in a database.  The poller and the delivery worker are tasks   *)
(* of one event loop and neither is suspended inside a file or a row, so   *)
(* one runs at a time; but every one of their writes is durable by itself, *)
(* and the process may crash, or a write may fail, between any two.  Other *)
(* processes touch the same files: a restart, an operator's retry command, *)
(* and the recovery of any other program started on the workspace.         *)
(* A definition named Faulty... is a later one with a mistake planted.     *)
(***************************************************************************)
EXTENDS Integers, FiniteSets

CONSTANTS
  Files,         \* inbox files: records [name, id, body, allowed]
  Turns,         \* turn ids that requests may be given
  Settings       \* the settings a gateway may run under

VARIABLE setting    \* those of this gateway; a step never changes them

Arriving == setting.files            \* the files put into the inbox
MaxAttempts == setting.attempts      \* max_attempts of the delivery worker
MaxStarts == setting.starts          \* bound: starts; no crash after the last
MaxRetries == setting.retries        \* bound: operator retries
MaxIntrusions == setting.intrusions  \* bound: other programs assembled while
                                     \* the gateway runs
WriteFaults == setting.faults        \* whether a write may fail without a crash

ASSUME FilesAssumption == \A f \in Files : f.allowed \in BOOLEAN
ASSUME SettingsAssumption == Settings \subseteq
  [files : SUBSET Files, attempts : Nat \ {0}, starts : Nat, retries : Nat,
   intrusions : Nat, faults : BOOLEAN]

Identities == {f.id : f \in Files}
Bodies == {f.body : f \in Files}

(* A turn id is a fresh uuid: there is one for every message.              *)
ASSUME TurnsAssumption ==
  /\ IsFiniteSet(Identities) /\ IsFiniteSet(Turns)
  /\ Cardinality(Identities) <= Cardinality(Turns)

VARIABLES
  place,     \* where each file is: "absent", "inbox", "processed", "rejected"
  receipt,   \* the row of each identity, NoRow before it is reserved
  story,     \* what the journal says of each turn
  outbox,    \* the content published under each turn's delivery id
  phase,     \* of the gateway process
  step,      \* the task that holds the event loop, and where it is
  todo,      \* rows the running reconcile pass has not visited
  live,      \* <<turn, identity>> accepted by this process, not ended yet
  starts, retries, intrusions,
  runs,      \* history: how often a turn was run for each identity
  sends      \* history: publications of each identity since the last retry

disk == <<place, receipt, story, outbox>>
bounds == <<starts, retries, intrusions>>
vars == <<setting, place, receipt, story, outbox, phase, step, todo, live, starts,
          retries, intrusions, runs, sends>>

NoRow == [status |-> "none"]
Statuses == {"reserved", "running", "pending", "delivered", "review"}
Contents == {"", "answer", "notice"}
Rows == [status : Statuses, body : Bodies, turn : Turns, content : Contents,
         attempts : 0 .. MaxAttempts, due : BOOLEAN]
Endings == {"completed", "failed", "cancelled", "interrupted"}
Stories == {"none", "torn", "accepted", "running", "broken"} \cup Endings
Phases == {"down", "starting", "serving", "stopping", "closing"}

Idle == [at |-> "idle"]
Steps == {Idle}
           \cup [at : {"submit", "mark", "move"}, file : Files, turn : Turns]
           \cup [at : {"reject"}, file : Files]
           \cup [at : {"deliver", "send", "ack"}, id : Identities, row : Rows]

Init ==
  /\ setting \in Settings
  /\ place = [f \in Files |-> IF f \in Arriving THEN "inbox" ELSE "absent"]
  /\ receipt = [i \in Identities |-> NoRow]
  /\ story = [t \in Turns |-> "none"]
  /\ outbox = [t \in Turns |-> ""]
  /\ phase = "down" /\ step = Idle /\ todo = {} /\ live = {}
  /\ starts = 0 /\ retries = 0 /\ intrusions = 0
  /\ runs = [i \in Identities |-> 0]
  /\ sends = [i \in Identities |-> 0]

Reserved(i) == receipt[i] # NoRow
FaultyUnsettled == {i \in Identities : receipt[i].status \in {"running", "pending"}}

(* ChannelReceipts.rows *)
Unsettled == {i \in Identities : receipt[i].status \in {"reserved", "running", "pending"}}
(* A log that ends in a partial record cannot be loaded: "torn" holds      *)
(* nothing else, "broken" holds events before it.                          *)
Loadable(t) == story[t] \notin {"torn", "broken"}
HasEvents(t) == story[t] \notin {"none", "torn"}

(* What reconcile sends for a turn that ended. *)
Reply(s) == IF s = "completed" THEN "answer" ELSE "notice"

(* The row of id is written; where the task goes next is the caller's.     *)
Update(i, row) == receipt' = [receipt EXCEPT ![i] = row]

-----------------------------------------------------------------------------
(* The poller: DirectoryChannel.poll_once and DurableDirectoryDelivery.submit *)

FreshTurn ==
  CHOOSE t \in Turns : /\ story[t] = "none"
                       /\ \A i \in Identities : Reserved(i) => receipt[i].turn # t

PollRefused(f) ==
  /\ phase = "serving" /\ step = Idle
  /\ place[f] = "inbox" /\ ~f.allowed
  /\ place' = [place EXCEPT ![f] = "rejected"]
  /\ UNCHANGED <<receipt, story, outbox, phase, step, todo, live, bounds, runs, sends>>

(* reserve() creates the row of a new identity and binds a turn id to it.  *)
PollNew(f) ==
  /\ phase = "serving" /\ step = Idle
  /\ place[f] = "inbox" /\ f.allowed /\ ~Reserved(f.id)
  /\ Update(f.id, [status |-> "reserved", body |-> f.body, turn |-> FreshTurn,
                   content |-> "", attempts |-> 0, due |-> TRUE])
  /\ step' = [at |-> "submit", file |-> f, turn |-> FreshTurn]
  /\ UNCHANGED <<place, story, outbox, phase, todo, live, bounds, runs, sends>>

FaultyPollFreshTurn(f) ==
  /\ phase = "serving" /\ step = Idle
  /\ place[f] = "inbox" /\ f.allowed /\ Reserved(f.id)
  /\ step' = IF receipt[f.id].status # "reserved"
             THEN [at |-> "move", file |-> f, turn |-> receipt[f.id].turn]
             ELSE [at |-> "submit", file |-> f,
                   turn |-> CHOOSE t \in Turns : t # receipt[f.id].turn]
  /\ UNCHANGED <<place, receipt, story, outbox, phase, todo, live, bounds, runs, sends>>

FaultyPollAnyRow(f) ==
  /\ phase = "serving" /\ step = Idle
  /\ place[f] = "inbox" /\ f.allowed /\ Reserved(f.id)
  /\ step' = [at |-> "move", file |-> f, turn |-> receipt[f.id].turn]
  /\ UNCHANGED <<place, receipt, story, outbox, phase, todo, live, bounds, runs, sends>>

(* A file of a known identity conflicts with its row, repeats a message    *)
(* that was submitted, or is one whose submission never happened.  When    *)
(* the turn's events cannot be loaded the file is left for another poll.   *)
PollKnown(f) ==
  LET row == receipt[f.id]
  IN /\ phase = "serving" /\ step = Idle
     /\ place[f] = "inbox" /\ f.allowed /\ Reserved(f.id)
     /\ row.body # f.body \/ Loadable(row.turn)
     /\ step' =
          IF row.body # f.body THEN [at |-> "reject", file |-> f]
          ELSE [at |-> IF HasEvents(row.turn) \/ row.status # "reserved"
                       THEN "move" ELSE "submit",
                file |-> f, turn |-> row.turn]
     /\ UNCHANGED <<place, receipt, story, outbox, phase, todo, live, bounds, runs, sends>>

(* RuntimeHost.submit: the scheduler accepts the turn durably or raises.   *)
SubmitTurn ==
  /\ step.at = "submit"
  /\ story[step.turn] = "none"
  /\ story' = [story EXCEPT ![step.turn] = "accepted"]
  /\ live' = live \cup {<<step.turn, step.file.id>>}
  /\ step' = [step EXCEPT !.at = "mark"]
  /\ UNCHANGED <<place, receipt, outbox, phase, todo, bounds, runs, sends>>

SubmitRaises ==
  /\ WriteFaults
  /\ step.at = "submit"
  /\ story' \in {[story EXCEPT ![step.turn] = s] : s \in {"none", "torn", "accepted"}}
  /\ step' = Idle
  /\ UNCHANGED <<place, receipt, outbox, phase, todo, live, bounds, runs, sends>>

MarkRunning ==
  /\ step.at = "mark"
  /\ Update(step.file.id, [receipt[step.file.id] EXCEPT !.status = "running"])
  /\ step' = [step EXCEPT !.at = "move"]
  /\ UNCHANGED <<place, story, outbox, phase, todo, live, bounds, runs, sends>>

MoveFile ==
  /\ step.at \in {"move", "reject"}
  /\ place' = [place EXCEPT ![step.file] =
                 IF step.at = "move" THEN "processed" ELSE "rejected"]
  /\ step' = Idle
  /\ UNCHANGED <<receipt, story, outbox, phase, todo, live, bounds, runs, sends>>

-----------------------------------------------------------------------------
(* Turns: RuntimeHost, its scheduler and the journal.                      *)

BeginTurn(t, i) ==
  /\ step = Idle /\ phase \in {"serving", "stopping"}
  /\ <<t, i>> \in live /\ story[t] = "accepted"
  /\ story' = [story EXCEPT ![t] = "running"]
  /\ runs' = [runs EXCEPT ![i] = @ + 1]
  /\ UNCHANGED <<place, receipt, outbox, phase, step, todo, live, bounds, sends>>

(* A turn ends by itself or is cancelled; recording it may fail.           *)
EndTurn(t, i) ==
  /\ step = Idle /\ phase \in {"serving", "stopping"}
  /\ <<t, i>> \in live /\ story[t] \in {"accepted", "running"}
  /\ live' = live \ {<<t, i>>}
  /\ \E s \in (IF story[t] = "running" THEN {"completed", "failed"} ELSE {})
               \cup {"cancelled"}
               \cup (IF WriteFaults THEN {story[t], "broken"} ELSE {}) :
       story' = [story EXCEPT ![t] = s]
  /\ UNCHANGED <<place, receipt, outbox, phase, step, todo, bounds, runs, sends>>

(* The next event of a turn that another program's recovery has ended is   *)
(* refused.                                                                *)
RefuseTurn(t, i) ==
  /\ step = Idle /\ phase \in {"serving", "stopping"}
  /\ <<t, i>> \in live /\ story[t] \in Endings
  /\ live' = live \ {<<t, i>>}
  /\ UNCHANGED <<disk, phase, step, todo, bounds, runs, sends>>

-----------------------------------------------------------------------------
(* DurableDirectoryDelivery.reconcile: one pass over the unsettled rows.   *)
ReconcilePhase == phase \in {"starting", "serving", "stopping", "closing"}

BeginPass ==
  /\ phase \in {"serving", "stopping"} /\ step = Idle /\ todo = {}
  /\ Unsettled # {}
  /\ todo' = Unsettled
  /\ UNCHANGED <<disk, phase, step, live, bounds, runs, sends>>

(* A row whose reply is still to be delivered.                             *)
Pending(row, content, attempts, due) ==
  [status |-> "pending", body |-> row.body, turn |-> row.turn, content |-> content,
   attempts |-> attempts, due |-> due]

(* What a pass makes of a row whose turn was not known to have ended.      *)
FaultySettled(row) ==
  LET s == story[row.turn]
  IN IF s \in {"torn", "broken"} THEN [row EXCEPT !.status = "review"]
     ELSE IF s \in Endings
          THEN Pending(row, Reply(s), row.attempts, row.due)
          ELSE row

Settled(row) ==
  LET s == story[row.turn]
  IN IF s \in {"torn", "broken", "interrupted"} THEN [row EXCEPT !.status = "review"]
     ELSE IF s \in Endings
          THEN Pending(row, Reply(s), row.attempts, row.due)
     ELSE IF phase = "starting" /\ (s # "none" \/ row.status = "running")
          THEN [row EXCEPT !.status = "review"]
          ELSE row

(* The pass reaches a row: it is settled if its turn ended, and delivered  *)
(* in the same visit when that made it pending.                            *)
VisitOpen(i) ==
  LET row == Settled(receipt[i])
  IN /\ ReconcilePhase /\ step = Idle /\ i \in todo
     /\ receipt[i].status \in {"reserved", "running"}
     /\ todo' = todo \ {i}
     /\ Update(i, row)
     /\ step' = IF row.status = "pending" /\ row.due
                THEN [at |-> "deliver", id |-> i, row |-> row] ELSE Idle
     /\ UNCHANGED <<place, story, outbox, phase, live, bounds, runs, sends>>

VisitPending(i) ==
  LET row == receipt[i]
  IN /\ ReconcilePhase /\ step = Idle /\ i \in todo
     /\ row.status = "pending"
     /\ todo' = todo \ {i}
     /\ step' = IF row.due THEN [at |-> "deliver", id |-> i, row |-> row] ELSE Idle
     /\ UNCHANGED <<disk, phase, live, bounds, runs, sends>>

FaultyAttempt ==
  /\ step.at = "deliver"
  /\ step' = [step EXCEPT !.at = "send", !.row.attempts = @ + 1]
  /\ UNCHANGED <<disk, phase, todo, live, bounds, runs, sends>>

(* Either the attempts are used up, or this one is counted before it is    *)
(* made.                                                                   *)
Attempt ==
  LET row == step.row
  IN /\ step.at = "deliver"
     /\ IF row.attempts >= MaxAttempts
        THEN /\ Update(step.id, [receipt[step.id] EXCEPT !.status = "review"])
             /\ step' = Idle
        ELSE /\ Update(step.id, [receipt[step.id] EXCEPT !.attempts = row.attempts + 1])
             /\ step' = [at |-> "send", id |-> step.id,
                         row |-> [row EXCEPT !.attempts = row.attempts + 1]]
     /\ UNCHANGED <<place, story, outbox, phase, todo, live, bounds, runs, sends>>

Send ==
  /\ step.at = "send"
  /\ outbox' = [outbox EXCEPT ![step.row.turn] = step.row.content]
  /\ sends' = [sends EXCEPT ![step.id] = @ + 1]
  /\ step' = [step EXCEPT !.at = "ack"]
  /\ UNCHANGED <<place, receipt, story, phase, todo, live, bounds, runs>>

(* send_once raises: before the file is replaced, or after.                *)
SendFails ==
  /\ WriteFaults
  /\ step.at = "send"
  /\ outbox' \in {outbox, [outbox EXCEPT ![step.row.turn] = step.row.content]}
  /\ sends' = [sends EXCEPT ![step.id] = @ + 1]
  /\ Update(step.id, [receipt[step.id] EXCEPT
       !.status = IF step.row.attempts >= MaxAttempts THEN "review" ELSE "pending",
       !.due = FALSE])
  /\ step' = Idle
  /\ UNCHANGED <<place, story, phase, todo, live, bounds, runs>>

Acknowledge ==
  /\ step.at = "ack"
  /\ Update(step.id, [receipt[step.id] EXCEPT !.status = "delivered"])
  /\ step' = Idle
  /\ UNCHANGED <<place, story, outbox, phase, todo, live, bounds, runs, sends>>

Elapse(i) ==
  /\ receipt[i].status = "pending" /\ ~receipt[i].due
  /\ Update(i, [receipt[i] EXCEPT !.due = TRUE])
  /\ UNCHANGED <<place, story, outbox, phase, step, todo, live, bounds, runs, sends>>

(* Any other write of a task fails: the poller leaves its file where it    *)
(* is, the worker ends its pass, and a gateway that starts stops again.    *)
WriteFails ==
  /\ WriteFaults
  /\ step.at \in {"mark", "move", "reject", "deliver", "ack"}
  /\ step' = Idle
  /\ phase' = CASE phase = "starting" -> "closing"
                [] phase = "closing"  -> "down"
                [] OTHER -> phase
  /\ todo' = CASE phase = "starting" -> Unsettled
               [] step.at \in {"deliver", "ack"} -> {}
               [] OTHER -> todo
  /\ UNCHANGED <<disk, live, bounds, runs, sends>>

-----------------------------------------------------------------------------
(* The gateway process: assembly, LocalGateway.start and stop.             *)

(* recover_incomplete_turns *)
Recovered ==
  [t \in Turns |-> CASE story[t] \in {"accepted", "running", "broken"} -> "interrupted"
                     [] story[t] = "torn" -> "none"
                     [] OTHER -> story[t]]

Start ==
  /\ phase = "down" /\ starts < MaxStarts
  /\ starts' = starts + 1
  /\ story' = Recovered
  /\ phase' = "starting"
  /\ todo' = Unsettled
  /\ UNCHANGED <<place, receipt, outbox, step, live, retries, intrusions, runs, sends>>

OpenIntake ==
  /\ phase = "starting" /\ step = Idle /\ todo = {}
  /\ phase' = "serving"
  /\ UNCHANGED <<disk, step, todo, live, bounds, runs, sends>>

(* stop(): the intake is sealed and the poller stopped first. *)
BeginStop ==
  /\ phase = "serving" /\ step = Idle
  /\ starts < MaxStarts
  /\ phase' = "stopping"
  /\ UNCHANGED <<disk, step, todo, live, bounds, runs, sends>>

FaultyFinalPass ==
  /\ phase = "stopping" /\ step = Idle /\ todo = {}
  /\ phase' = "closing"
  /\ todo' = Unsettled
  /\ UNCHANGED <<disk, step, live, bounds, runs, sends>>

(* Then the host is drained, and the worker is stopped and makes a last    *)
(* pass.                                                                   *)
FinalPass ==
  /\ phase = "stopping" /\ step = Idle /\ todo = {}
  /\ live = {}
  /\ phase' = "closing"
  /\ todo' = Unsettled
  /\ UNCHANGED <<disk, step, live, bounds, runs, sends>>

Exit ==
  /\ phase = "closing" /\ step = Idle /\ todo = {}
  /\ phase' = "down"
  /\ UNCHANGED <<disk, step, todo, live, bounds, runs, sends>>

Crash ==
  /\ phase # "down" /\ starts < MaxStarts
  /\ phase' = "down"
  /\ step' = Idle /\ todo' = {} /\ live' = {}
  /\ UNCHANGED <<disk, bounds, runs, sends>>

-----------------------------------------------------------------------------
(* Other processes.                                                        *)

(* Any program assembled on the workspace runs recovery, also when it then *)
(* finds the gateway's lease taken.                                        *)
Intrude ==
  /\ phase # "down" /\ intrusions < MaxIntrusions
  /\ intrusions' = intrusions + 1
  /\ story' = Recovered
  /\ UNCHANGED <<place, receipt, outbox, phase, step, todo, live, starts, retries,
                 runs, sends>>

FaultyRetry(i) ==
  /\ retries < MaxRetries
  /\ receipt[i].status = "review"
  /\ retries' = retries + 1
  /\ Update(i, [receipt[i] EXCEPT !.status = "pending", !.attempts = 0, !.due = TRUE])
  /\ sends' = [sends EXCEPT ![i] = 0]
  /\ UNCHANGED <<place, story, outbox, phase, step, todo, live, starts, intrusions, runs>>

(* retry-delivery *)
Retry(i) ==
  /\ retries < MaxRetries
  /\ receipt[i].status = "review" /\ receipt[i].content # ""
  /\ retries' = retries + 1
  /\ Update(i, Pending(receipt[i], receipt[i].content, 0, TRUE))
  /\ sends' = [sends EXCEPT ![i] = 0]
  /\ UNCHANGED <<place, story, outbox, phase, step, todo, live, starts, intrusions, runs>>

-----------------------------------------------------------------------------
PollOf(f) == PollRefused(f) \/ PollNew(f) \/ PollKnown(f)
Visit(i) == VisitOpen(i) \/ VisitPending(i)

PollStep ==
  \/ \E f \in Files : PollOf(f)
  \/ SubmitTurn \/ SubmitRaises \/ MarkRunning \/ MoveFile

PassStep ==
  \/ BeginPass \/ Attempt \/ Send \/ SendFails \/ Acknowledge
  \/ \E i \in Identities : Visit(i)

TurnStep == \E t \in Turns, i \in Identities :
              BeginTurn(t, i) \/ EndTurn(t, i) \/ RefuseTurn(t, i)

Next ==
  /\ UNCHANGED setting
  /\ \/ PollStep \/ PassStep \/ TurnStep \/ WriteFails
     \/ Start \/ OpenIntake \/ BeginStop \/ FinalPass \/ Exit \/ Crash
     \/ Intrude
     \/ \E i \in Identities : Elapse(i) \/ Retry(i)

Spec == Init /\ [][Next]_vars

(* The task that holds the event loop goes on; the poller and the worker   *)
(* get the loop again and again and then take a file or a row there is;    *)
(* turns end, and a gateway that went down is started again.               *)
Continue == \/ SubmitTurn \/ MarkRunning \/ MoveFile
            \/ Attempt \/ Send \/ Acknowledge
Lifecycle == Start \/ OpenIntake \/ FinalPass \/ Exit

Same == UNCHANGED setting

FairSpec ==
  /\ Spec
  /\ WF_vars(Continue /\ Same) /\ SF_vars(Lifecycle /\ Same)
  /\ SF_vars(BeginPass /\ Same) /\ SF_vars(TurnStep /\ Same)
  /\ SF_vars((\E f \in Files : PollOf(f)) /\ Same)
  /\ SF_vars((\E i \in Identities : Visit(i)) /\ Same)
-----------------------------------------------------------------------------
(* Properties.                                                             *)

(* Type invariant of the rows, the journal's view and the tasks. *)
TypeOK ==
  /\ setting \in Settings
  /\ place \in [Files -> {"absent", "inbox", "processed", "rejected"}]
  /\ receipt \in [Identities -> Rows \cup {NoRow}]
  /\ story \in [Turns -> Stories]
  /\ outbox \in [Turns -> Contents]
  /\ phase \in Phases /\ step \in Steps
  /\ todo \in SUBSET Identities /\ live \in SUBSET (Turns \X Identities)
  /\ starts \in Nat /\ retries \in Nat /\ intrusions \in Nat
  /\ runs \in [Identities -> Nat] /\ sends \in [Identities -> Nat]

(* "Duplicate platform message IDs resolve to the existing Turn and do not *)
(* execute or deliver twice", whatever crashes, however often the file is  *)
(* polled again, and for a copy of the file too.                           *)
RunsOnce == \A i \in Identities : runs[i] <= 1

(* What was published for a turn is the reply of the end its journal has,  *)
(* never of a turn that recovery ended, and a delivered receipt was        *)
(* published.                                                              *)
PublishedIsRecorded ==
  /\ \A t \in Turns : outbox[t] # "" =>
       story[t] \in Endings \ {"interrupted"} /\ outbox[t] = Reply(story[t])
  /\ \A i \in Identities : receipt[i].status = "delivered" =>
       outbox[receipt[i].turn] = receipt[i].content /\ receipt[i].content # ""

(* Attempts are counted before they are made: between two retries of the   *)
(* operator a reply is published at most MaxAttempts times, over restarts. *)
SendsBounded == \A i \in Identities : sends[i] <= MaxAttempts

(* A file leaves the inbox as processed only when its own message has been *)
(* accepted in the journal, or is in the operator's hands.                 *)
ProcessedIsAccepted ==
  \A f \in Files : place[f] = "processed" =>
    /\ Reserved(f.id) /\ receipt[f.id].body = f.body
    /\ HasEvents(receipt[f.id].turn) \/ receipt[f.id].status = "review"

(* Receipts tell the truth: a message runs once, is sent at most as often  *)
(* as was counted, with the reply of the journal, and leaves the inbox     *)
(* when it is in safe hands.                                               *)
ReceiptsAreTrue ==
  TypeOK /\ RunsOnce /\ PublishedIsRecorded /\ SendsBounded /\ ProcessedIsAccepted

(* "None automatically replay": a receipt under review changes only by a   *)
(* retry of the reply it holds, and a delivered one never.                 *)
OnlyRetryLeavesReview ==
  [][\A i \in Identities :
       /\ receipt[i].status = "delivered" => receipt'[i] = receipt[i]
       /\ receipt[i].status = "review" /\ receipt'[i] # receipt[i] =>
            retries' = retries + 1 /\ receipt[i].content # ""
              /\ receipt'[i].status = "pending"]_vars

(* A gateway that stops in order leaves no receipt behind whose turn ended *)
(* in this process, if writes work: the last pass comes after the host is  *)
(* drained.                                                                *)
OrderlyStopSettles ==
  [][~WriteFaults /\ Exit => \A i \in Identities : receipt[i].status \notin {"reserved", "running"}
                                    \/ story[receipt[i].turn] = "none"]_vars

Answered(f) ==
  \/ place[f] = "rejected"
  \/ place[f] = "processed" /\ receipt[f.id].status \in {"delivered", "review"}

(* Every message is rejected, delivered or put in the operator's hands, if *)
(* writes work; there they all stay, as no operator retries for ever.      *)
MessagesSettle == ~WriteFaults => <>[](\A f \in Arriving : Answered(f))

(* Receipts settle: in order when the gateway stops, once and for all, and *)
(* nothing is sent again unless an operator says so.                       *)
ReceiptsSettle == OnlyRetryLeavesReview /\ OrderlyStopSettles /\ MessagesSettle
=============================================================================
