---------------------------- MODULE DeliveryProofs ----------------------------
(***************************************************************************)
(* Proofs about DurableDelivery, for any files, settings and bounds, and   *)
(* turn ids enough for the identities.  The inductive invariant says what  *)
(* a receipt owes to the journal and to the outbox (Books), what the task  *)
(* that holds the event loop has found out and may still rely on           *)
(* (StepHolds), and what a gateway whose writes work has left to do while  *)
(* it closes (Closing).                                                    *)
(***************************************************************************)
EXTENDS DurableDelivery, FiniteSetTheorems, TLAPS

-----------------------------------------------------------------------------
(* Layer 1: types.                                                         *)

LEMMA BoundsAreNumbers ==
  ASSUME setting \in Settings
  PROVE  /\ MaxAttempts \in Nat \ {0} /\ MaxStarts \in Nat /\ MaxRetries \in Nat
         /\ MaxIntrusions \in Nat /\ Arriving \subseteq Files /\ WriteFaults \in BOOLEAN
BY SettingsAssumption DEF MaxAttempts, MaxStarts, MaxRetries, MaxIntrusions, Arriving,
   WriteFaults

LEMMA SameTypes ==
  ASSUME UNCHANGED setting
  PROVE  /\ Rows' = Rows /\ Steps' = Steps /\ MaxAttempts' = MaxAttempts
         /\ WriteFaults' = WriteFaults
BY DEF Rows, Steps, MaxAttempts, WriteFaults

LEMMA RowFields ==
  ASSUME NEW row \in Rows
  PROVE  /\ row.status \in Statuses /\ row.body \in Bodies /\ row.turn \in Turns
         /\ row.content \in Contents /\ row.attempts \in 0 .. MaxAttempts
         /\ row.due \in BOOLEAN /\ row # NoRow /\ row.status # "none"
BY DEF Rows, NoRow, Statuses

LEMMA RestatedRow ==
  ASSUME NEW row \in Rows, NEW s \in Statuses
  PROVE  /\ [row EXCEPT !.status = s] \in Rows
         /\ [row EXCEPT !.status = s].status = s
         /\ [row EXCEPT !.status = s].body = row.body
         /\ [row EXCEPT !.status = s].turn = row.turn
         /\ [row EXCEPT !.status = s].content = row.content
         /\ [row EXCEPT !.status = s].attempts = row.attempts
         /\ [row EXCEPT !.status = s].due = row.due
BY DEF Rows

LEMMA PendingRow ==
  ASSUME NEW row \in Rows, NEW c \in Contents, NEW a \in 0 .. MaxAttempts,
         NEW d \in BOOLEAN, NEW n, n = Pending(row, c, a, d)
  PROVE  /\ n \in Rows /\ n.status = "pending" /\ n.body = row.body
         /\ n.turn = row.turn /\ n.content = c /\ n.attempts = a /\ n.due = d
BY RowFields DEF Pending, Rows, Statuses

LEMMA CountedRow ==
  ASSUME NEW row \in Rows, NEW n \in 0 .. MaxAttempts
  PROVE  /\ [row EXCEPT !.attempts = n] \in Rows
         /\ [row EXCEPT !.attempts = n].status = row.status
         /\ [row EXCEPT !.attempts = n].body = row.body
         /\ [row EXCEPT !.attempts = n].turn = row.turn
         /\ [row EXCEPT !.attempts = n].content = row.content
         /\ [row EXCEPT !.attempts = n].attempts = n
         /\ [row EXCEPT !.attempts = n].due = row.due
BY DEF Rows

LEMMA DelayedRow ==
  ASSUME NEW row \in Rows, NEW s \in Statuses, NEW d \in BOOLEAN
  PROVE  LET n == [row EXCEPT !.status = s, !.due = d]
         IN n \in Rows /\ n.status = s /\ n.body = row.body
            /\ n.turn = row.turn /\ n.content = row.content /\ n.attempts = row.attempts
BY DEF Rows

LEMMA DueRow ==
  ASSUME NEW row \in Rows
  PROVE  LET n == [row EXCEPT !.due = TRUE]
         IN n \in Rows /\ n.status = row.status /\ n.body = row.body
            /\ n.turn = row.turn /\ n.content = row.content /\ n.attempts = row.attempts
BY DEF Rows

LEMMA StepFields ==
  ASSUME step \in Steps
  PROVE  /\ step.at \in {"submit", "mark", "move"} =>
              step.file \in Files /\ step.turn \in Turns
         /\ step.at = "reject" => step.file \in Files
         /\ step.at \in {"deliver", "send", "ack"} =>
              step.id \in Identities /\ step.row \in Rows
         /\ step.at \in {"idle", "submit", "mark", "move", "reject", "deliver", "send", "ack"}
         /\ step.at = "idle" => step = Idle
BY DEF Steps, Idle

LEMMA PollerSteps ==
  ASSUME step \in Steps, step.at \in {"submit", "mark", "move"},
         NEW a \in {"submit", "mark", "move"}
  PROVE  LET n == [step EXCEPT !.at = a]
         IN n \in Steps /\ n.at = a /\ n.file = step.file /\ n.turn = step.turn
<1>1. step \in [at : {"submit", "mark", "move"}, file : Files, turn : Turns]
  BY DEF Steps, Idle
<1> QED
  BY <1>1 DEF Steps

LEMMA WorkerSteps ==
  ASSUME step \in Steps, step.at \in {"deliver", "send", "ack"},
         NEW a \in {"deliver", "send", "ack"}
  PROVE  LET n == [step EXCEPT !.at = a]
         IN n \in Steps /\ n.at = a /\ n.id = step.id /\ n.row = step.row
<1>1. step \in [at : {"deliver", "send", "ack"}, id : Identities, row : Rows]
  BY DEF Steps, Idle
<1> QED
  BY <1>1 DEF Steps

LEMMA FileFields ==
  ASSUME NEW f \in Files
  PROVE  f.id \in Identities /\ f.body \in Bodies /\ f.allowed \in BOOLEAN
BY FilesAssumption DEF Identities, Bodies

LEMMA ReservedRow ==
  ASSUME TypeOK, NEW i \in Identities
  PROVE  /\ Reserved(i) <=> receipt[i] \in Rows
         /\ Reserved(i) <=> receipt[i].status # "none"
<1>1. receipt[i] \in Rows \cup {NoRow}
  BY DEF TypeOK
<1>2. NoRow.status = "none"
  BY DEF NoRow
<1> QED
  BY <1>1, <1>2, RowFields DEF Reserved

-----------------------------------------------------------------------------
(* Layer 2: the invariant.                                                 *)

Answerable == Endings \ {"interrupted"}
TurnOf(i) == receipt[i].turn

(* A row holds a reply only of its turn's recorded end, a delivered row    *)
(* was published, and every publication was counted before it was made.    *)
RowHolds(i) ==
  Reserved(i) =>
    /\ receipt[i].content # "" =>
         story[TurnOf(i)] \in Answerable /\ receipt[i].content = Reply(story[TurnOf(i)])
    /\ receipt[i].status \in {"pending", "delivered"} => receipt[i].content # ""
    /\ receipt[i].status = "running" => HasEvents(TurnOf(i))
    /\ receipt[i].status = "delivered" => outbox[TurnOf(i)] # ""
    /\ sends[i] <= receipt[i].attempts

RanOnce(i) ==
  /\ runs[i] <= 1
  /\ runs[i] > 0 => Reserved(i) /\ story[TurnOf(i)] \notin {"none", "torn", "accepted"}

Blank(i) == ~Reserved(i) => runs[i] = 0 /\ sends[i] = 0

(* Turns and rows belong to each other. *)
OwnTurns == \A i, j \in Identities :
              Reserved(i) /\ Reserved(j) /\ TurnOf(i) = TurnOf(j) => i = j
KnownTurn(t) == story[t] # "none" => \E i \in Identities : Reserved(i) /\ TurnOf(i) = t
LiveTurn(t, i) == <<t, i>> \in live => Reserved(i) /\ TurnOf(i) = t

PublishedTurn(t) ==
  outbox[t] # "" => story[t] \in Answerable /\ outbox[t] = Reply(story[t])

FiledOk(f) ==
  place[f] = "processed" =>
    /\ Reserved(f.id) /\ receipt[f.id].body = f.body
    /\ HasEvents(TurnOf(f.id)) \/ receipt[f.id].status = "review"

Books ==
  /\ \A i \in Identities : RowHolds(i) /\ RanOnce(i) /\ Blank(i)
  /\ OwnTurns
  /\ \A t \in Turns : KnownTurn(t) /\ PublishedTurn(t)
  /\ \A t \in Turns, i \in Identities : LiveTurn(t, i)
  /\ \A f \in Files : FiledOk(f)

(* What the task that holds the event loop has read is still so.           *)
StepHolds ==
  /\ step.at \in {"submit", "mark", "move"} =>
       /\ Reserved(step.file.id) /\ receipt[step.file.id].body = step.file.body
       /\ TurnOf(step.file.id) = step.turn
  /\ step.at = "submit" => story[step.turn] = "none"
  /\ step.at \in {"submit", "mark"} => receipt[step.file.id].status = "reserved"
  /\ step.at = "mark" => HasEvents(step.turn)
  /\ step.at = "move" => HasEvents(step.turn) \/ receipt[step.file.id].status = "review"
  /\ step.at \in {"deliver", "send", "ack"} =>
       receipt[step.id] = step.row /\ step.row.status = "pending" /\ step.row.due
  /\ step.at = "send" => sends[step.id] < step.row.attempts
  /\ step.at = "ack" => outbox[step.row.turn] # ""
  /\ step.at \in {"submit", "mark", "move", "reject"} => phase = "serving"
  /\ phase = "down" => step = Idle

(* Turn ids do not run out.                                                *)
LEMMA AFreshTurn ==
  ASSUME TypeOK, Books, NEW f \in Files, ~Reserved(f.id)
  PROVE  /\ FreshTurn \in Turns /\ story[FreshTurn] = "none"
         /\ \A i \in Identities : Reserved(i) => TurnOf(i) # FreshTurn
<1> DEFINE R == {i \in Identities : Reserved(i)}
           T == {receipt[i].turn : i \in R}
           g == [i \in R |-> receipt[i].turn]
<1>1. f.id \in Identities /\ f.id \notin R /\ R \subseteq Identities
  BY FileFields
<1>2. IsFiniteSet(R) /\ Cardinality(R) < Cardinality(Identities)
      /\ Cardinality(R) \in Nat /\ Cardinality(Identities) \in Nat
  BY <1>1, TurnsAssumption, FS_Subset, FS_CardinalityType
<1>3. T \subseteq Turns
  BY ReservedRow, RowFields DEF TypeOK
<1>4. g \in Surjection(R, T)
  BY DEF Surjection
<1>5. IsFiniteSet(T) /\ Cardinality(T) <= Cardinality(R)
  <2> HIDE DEF g, T, R
  <2> QED
    BY <1>2, <1>4, FS_Surjection
<1>6. T # Turns
  <2>1. Cardinality(T) \in Nat /\ Cardinality(Turns) \in Nat
    BY <1>5, TurnsAssumption, FS_CardinalityType
  <2> HIDE DEF g, T, R
  <2> QED
    BY <1>2, <1>5, <2>1, TurnsAssumption
<1>7. PICK t \in Turns : t \notin T
  BY <1>3, <1>6
<1>8. story[t] = "none" /\ \A i \in Identities : Reserved(i) => receipt[i].turn # t
  BY <1>7 DEF Books, KnownTurn, TurnOf
<1> QED
  BY <1>8 DEF FreshTurn, TurnOf

-----------------------------------------------------------------------------
(* Types are kept.                                                         *)

RowsAreTyped == receipt \in [Identities -> Rows \cup {NoRow}]

LEMMA UpdateTyped ==
  ASSUME TypeOK, UNCHANGED setting, NEW i \in Identities, NEW row \in Rows,
         Update(i, row)
  PROVE  /\ RowsAreTyped' /\ receipt'[i] = row
         /\ \A j \in Identities : j # i => receipt'[j] = receipt[j]
BY SameTypes DEF RowsAreTyped, TypeOK, Update

LEMMA StillTyped ==
  ASSUME TypeOK, UNCHANGED setting
  PROVE  /\ UNCHANGED receipt => RowsAreTyped'
         /\ UNCHANGED step => step' \in Steps'
         /\ Idle \in Steps' /\ Idle.at = "idle"
BY SameTypes DEF RowsAreTyped, TypeOK, Steps, Idle

LEMMA StoriesTyped ==
  ASSUME TypeOK
  PROVE  Recovered \in [Turns -> Stories]
BY DEF TypeOK, Recovered, Stories, Endings

LEMMA TypesOf ==
  ASSUME TypeOK, UNCHANGED setting, RowsAreTyped', step' \in Steps',
         place' \in [Files -> {"absent", "inbox", "processed", "rejected"}],
         story' \in [Turns -> Stories], outbox' \in [Turns -> Contents],
         phase' \in Phases, todo' \in SUBSET Identities,
         live' \in SUBSET (Turns \X Identities),
         starts' \in Nat, retries' \in Nat, intrusions' \in Nat,
         runs' \in [Identities -> Nat], sends' \in [Identities -> Nat]
  PROVE  TypeOK'
BY SameTypes DEF TypeOK, RowsAreTyped

LEMMA PollTyped ==
  ASSUME TypeOK, Books, StepHolds, UNCHANGED setting, PollStep
  PROVE  TypeOK'
<1>1. ASSUME NEW f \in Files, PollRefused(f) PROVE TypeOK'
  BY <1>1, StillTyped, TypesOf DEF PollRefused, TypeOK, bounds
<1>2. ASSUME NEW f \in Files, PollNew(f) PROVE TypeOK'
  <2>1. FreshTurn \in Turns /\ f.id \in Identities /\ f.body \in Bodies
    BY <1>2, AFreshTurn, FileFields DEF PollNew
  <2> DEFINE row == [status |-> "reserved", body |-> f.body, turn |-> FreshTurn,
                     content |-> "", attempts |-> 0, due |-> TRUE]
  <2>2. 0 \in 0 .. MaxAttempts
    BY BoundsAreNumbers DEF TypeOK
  <2>3. row \in Rows
    BY <2>1, <2>2 DEF Rows, Statuses, Contents
  <2>4. RowsAreTyped'
    BY <1>2, <2>1, <2>3, UpdateTyped DEF PollNew
  <2>5. step' \in Steps
    BY <1>2, <2>1 DEF PollNew, Steps
  <2> QED
    BY <1>2, <2>4, <2>5, SameTypes, TypesOf DEF PollNew, TypeOK, bounds
<1>3. ASSUME NEW f \in Files, PollKnown(f) PROVE TypeOK'
  <2>1. receipt[f.id] \in Rows
    BY <1>3, ReservedRow, FileFields DEF PollKnown
  <2>2. step' \in Steps
    BY <1>3, <2>1, RowFields DEF PollKnown, Steps
  <2> QED
    BY <1>3, <2>2, StillTyped, SameTypes, TypesOf DEF PollKnown, TypeOK, bounds
<1>4. CASE SubmitTurn
  <2>1. step.turn \in Turns /\ step.file \in Files /\ step.file.id \in Identities
    BY <1>4, StepFields, FileFields DEF SubmitTurn, TypeOK
  <2>2. story' \in [Turns -> Stories]
    BY <1>4, <2>1 DEF SubmitTurn, TypeOK, Stories
  <2>3. live' \in SUBSET (Turns \X Identities)
    BY <1>4, <2>1 DEF SubmitTurn, TypeOK
  <2>4. step' \in Steps
    BY <1>4, PollerSteps DEF SubmitTurn, TypeOK
  <2> QED
    BY <1>4, <2>2, <2>3, <2>4, StillTyped, SameTypes, TypesOf DEF SubmitTurn, TypeOK, bounds
<1>5. CASE SubmitRaises
  BY <1>5, StepFields, StillTyped, TypesOf DEF SubmitRaises, TypeOK, Stories, bounds
<1>6. CASE MarkRunning
  <2>1. step.file.id \in Identities /\ receipt[step.file.id] \in Rows
    BY <1>6, StepFields, FileFields, ReservedRow DEF MarkRunning, TypeOK, StepHolds
  <2>2. RowsAreTyped'
    BY <1>6, <2>1, RestatedRow, UpdateTyped DEF MarkRunning, Statuses
  <2>3. step' \in Steps
    BY <1>6, PollerSteps DEF MarkRunning, TypeOK
  <2> QED
    BY <1>6, <2>2, <2>3, SameTypes, TypesOf DEF MarkRunning, TypeOK, bounds
<1>7. CASE MoveFile
  BY <1>7, StepFields, StillTyped, TypesOf DEF MoveFile, TypeOK, bounds
<1> QED
  BY <1>1, <1>2, <1>3, <1>4, <1>5, <1>6, <1>7 DEF PollStep, PollOf

LEMMA SettledRow ==
  ASSUME TypeOK, NEW row \in Rows, row.status \in {"reserved", "running"},
         NEW n, n = Settled(row)
  PROVE  /\ n \in Rows /\ n.body = row.body /\ n.turn = row.turn
         /\ n.attempts = row.attempts
         /\ \/ n = row
            \/ n.status = "review" /\ n.content = row.content
            \/ /\ n.status = "pending" /\ n.content = Reply(story[row.turn])
               /\ story[row.turn] \in Answerable
<1>0. PICK s : s = story[row.turn]
  OBVIOUS
<1>1. CASE n = row
  BY <1>1
<1>2. CASE n = [row EXCEPT !.status = "review"]
  <2>1. "review" \in Statuses
    BY DEF Statuses
  <2>2. /\ n \in Rows /\ n.status = "review" /\ n.body = row.body
        /\ n.turn = row.turn /\ n.content = row.content /\ n.attempts = row.attempts
    BY <1>2, <2>1, RestatedRow
  <2> QED
    BY <2>2
<1>3. CASE s \in Answerable /\ n = Pending(row, Reply(s), row.attempts, row.due)
  <2>1. Reply(s) \in Contents /\ row.attempts \in 0 .. MaxAttempts /\ row.due \in BOOLEAN
    BY RowFields DEF Reply, Contents
  <2>2. /\ n \in Rows /\ n.status = "pending" /\ n.body = row.body
        /\ n.turn = row.turn /\ n.content = Reply(s) /\ n.attempts = row.attempts
    BY <1>3, <2>1, PendingRow
  <2> QED
    BY <1>0, <1>3, <2>2
<1>4. \/ n = row
      \/ n = [row EXCEPT !.status = "review"]
      \/ s \in Answerable /\ n = Pending(row, Reply(s), row.attempts, row.due)
  BY <1>0 DEF Settled, Answerable
<1> QED
  BY <1>1, <1>2, <1>3, <1>4

LEMMA PassTyped ==
  ASSUME TypeOK, Books, StepHolds, UNCHANGED setting, PassStep
  PROVE  TypeOK'
<1>1. CASE BeginPass
  BY <1>1, StillTyped, TypesOf DEF BeginPass, Unsettled, TypeOK, bounds, disk
<1>2. CASE Attempt
  <2>1. step.id \in Identities /\ step.row \in Rows /\ receipt[step.id] = step.row
    BY <1>2, StepFields DEF Attempt, TypeOK, StepHolds
  <2>2. CASE step.row.attempts >= MaxAttempts
    <3>1. RowsAreTyped' /\ step' = Idle
      BY <1>2, <2>1, <2>2, RestatedRow, UpdateTyped DEF Attempt, Statuses
    <3> QED
      BY <1>2, <3>1, StillTyped, TypesOf DEF Attempt, TypeOK, bounds
  <2>3. CASE ~(step.row.attempts >= MaxAttempts)
    <3>1. step.row.attempts + 1 \in 0 .. MaxAttempts
      BY <2>1, <2>3, RowFields, BoundsAreNumbers DEF TypeOK
    <3>2. [step.row EXCEPT !.attempts = step.row.attempts + 1] \in Rows
      BY <2>1, <3>1, CountedRow
    <3>3. RowsAreTyped'
      BY <1>2, <2>1, <2>3, <3>2, UpdateTyped DEF Attempt
    <3>4. step' \in Steps
      BY <1>2, <2>1, <2>3, <3>2 DEF Attempt, Steps
    <3> QED
      BY <1>2, <3>3, <3>4, SameTypes, TypesOf DEF Attempt, TypeOK, bounds
  <2> QED
    BY <2>2, <2>3
<1>3. CASE Send
  <2>1. step.id \in Identities /\ step.row.turn \in Turns /\ step.row.content \in Contents
    BY <1>3, StepFields, RowFields DEF Send, TypeOK
  <2>2. outbox' \in [Turns -> Contents] /\ sends' \in [Identities -> Nat]
    BY <1>3, <2>1 DEF Send, TypeOK
  <2>3. step' \in Steps
    BY <1>3, WorkerSteps DEF Send, TypeOK
  <2> QED
    BY <1>3, <2>2, <2>3, StillTyped, SameTypes, TypesOf DEF Send, TypeOK, bounds
<1>4. CASE SendFails
  <2>1. step.id \in Identities /\ step.row \in Rows /\ receipt[step.id] = step.row
        /\ step.row.turn \in Turns /\ step.row.content \in Contents
    BY <1>4, StepFields, RowFields DEF SendFails, TypeOK, StepHolds
  <2>2. outbox' \in [Turns -> Contents] /\ sends' \in [Identities -> Nat]
    BY <1>4, <2>1 DEF SendFails, TypeOK
  <2>3. RowsAreTyped'
    <3>1. PICK s \in Statuses :
            Update(step.id, [receipt[step.id] EXCEPT !.status = s, !.due = FALSE])
      BY <1>4 DEF SendFails, Statuses
    <3> QED
      BY <2>1, <3>1, DelayedRow, UpdateTyped
  <2> QED
    BY <1>4, <2>2, <2>3, StillTyped, TypesOf DEF SendFails, TypeOK, bounds
<1>5. CASE Acknowledge
  <2>1. step.id \in Identities /\ step.row \in Rows /\ receipt[step.id] = step.row
    BY <1>5, StepFields DEF Acknowledge, TypeOK, StepHolds
  <2>2. RowsAreTyped'
    BY <1>5, <2>1, RestatedRow, UpdateTyped DEF Acknowledge, Statuses
  <2> QED
    BY <1>5, <2>2, StillTyped, TypesOf DEF Acknowledge, TypeOK, bounds
<1>6. ASSUME NEW i \in Identities, VisitOpen(i) PROVE TypeOK'
  <2>1. receipt[i] \in Rows /\ receipt[i].status \in {"reserved", "running"}
    BY <1>6, ReservedRow DEF VisitOpen
  <2>2. PICK row : row = Settled(receipt[i])
    OBVIOUS
  <2>3. row \in Rows
    BY <2>1, <2>2, SettledRow
  <2>4. RowsAreTyped'
    BY <1>6, <2>2, <2>3, UpdateTyped DEF VisitOpen
  <2>5. step' \in Steps
    BY <1>6, <2>2, <2>3 DEF VisitOpen, Steps
  <2> QED
    BY <1>6, <2>4, <2>5, SameTypes, TypesOf DEF VisitOpen, TypeOK, bounds
<1>7. ASSUME NEW i \in Identities, VisitPending(i) PROVE TypeOK'
  <2>1. receipt[i] \in Rows
    BY <1>7, ReservedRow DEF VisitPending
  <2>2. step' \in Steps
    BY <1>7, <2>1 DEF VisitPending, Steps
  <2> QED
    BY <1>7, <2>2, StillTyped, SameTypes, TypesOf DEF VisitPending, TypeOK, bounds, disk
<1> QED
  BY <1>1, <1>2, <1>3, <1>4, <1>5, <1>6, <1>7 DEF PassStep, Visit

LEMMA TurnTyped ==
  ASSUME TypeOK, UNCHANGED setting, NEW t \in Turns, NEW i \in Identities,
         BeginTurn(t, i) \/ EndTurn(t, i) \/ RefuseTurn(t, i)
  PROVE  TypeOK'
<1>1. CASE BeginTurn(t, i)
  BY <1>1, StillTyped, TypesOf DEF BeginTurn, TypeOK, Stories, bounds
<1>2. CASE EndTurn(t, i)
  <2>1. PICK s : /\ s \in {"completed", "failed", "cancelled", story[t], "broken"}
                 /\ story' = [story EXCEPT ![t] = s]
    BY <1>2 DEF EndTurn
  <2>2. story' \in [Turns -> Stories]
    BY <2>1 DEF TypeOK, Stories, Endings
  <2> QED
    BY <1>2, <2>2, StillTyped, TypesOf DEF EndTurn, TypeOK, bounds
<1>3. CASE RefuseTurn(t, i)
  BY <1>3, StillTyped, TypesOf DEF RefuseTurn, TypeOK, bounds, disk
<1> QED
  BY <1>1, <1>2, <1>3

Management == \/ Start \/ OpenIntake \/ BeginStop \/ FinalPass \/ Exit \/ Crash \/ Intrude

LEMMA ManagementTyped ==
  ASSUME TypeOK, UNCHANGED setting, Management \/ WriteFails
  PROVE  TypeOK'
<1>1. Unsettled \in SUBSET Identities
  BY DEF Unsettled
<1>2. CASE Start
  BY <1>1, <1>2, StillTyped, StoriesTyped, TypesOf DEF Start, TypeOK, Phases
<1>3. CASE OpenIntake
  BY <1>3, StillTyped, TypesOf DEF OpenIntake, TypeOK, disk, bounds, Phases
<1>4. CASE BeginStop
  BY <1>4, StillTyped, TypesOf DEF BeginStop, TypeOK, disk, bounds, Phases
<1>5. CASE FinalPass
  BY <1>1, <1>5, StillTyped, TypesOf DEF FinalPass, TypeOK, disk, bounds, Phases
<1>6. CASE Exit
  BY <1>6, StillTyped, TypesOf DEF Exit, TypeOK, disk, bounds, Phases
<1>7. CASE Crash
  BY <1>7, StillTyped, TypesOf DEF Crash, TypeOK, disk, bounds, Phases
<1>8. CASE Intrude
  BY <1>8, StillTyped, StoriesTyped, TypesOf DEF Intrude, TypeOK
<1>9. CASE WriteFails
  BY <1>1, <1>9, StillTyped, TypesOf DEF WriteFails, TypeOK, Phases, disk, bounds
<1> QED
  BY <1>2, <1>3, <1>4, <1>5, <1>6, <1>7, <1>8, <1>9 DEF Management

LEMMA RowTyped ==
  ASSUME TypeOK, UNCHANGED setting, NEW i \in Identities, Elapse(i) \/ Retry(i)
  PROVE  TypeOK'
<1>1. receipt[i] \in Rows
  BY ReservedRow DEF Elapse, Retry
<1>2. CASE Elapse(i)
  BY <1>1, <1>2, DueRow, UpdateTyped, StillTyped, TypesOf DEF Elapse, TypeOK, bounds
<1>3. CASE Retry(i)
  <2>1. 0 \in 0 .. MaxAttempts /\ receipt[i].content \in Contents
    BY <1>1, RowFields, BoundsAreNumbers DEF TypeOK
  <2>2. Pending(receipt[i], receipt[i].content, 0, TRUE) \in Rows
    BY <1>1, <2>1, RowFields DEF Pending, Rows, Statuses
  <2>3. RowsAreTyped' /\ sends' \in [Identities -> Nat]
    BY <1>3, <2>2, UpdateTyped DEF Retry, TypeOK
  <2>4. retries' \in Nat
    <3>1. retries \in Nat
      BY DEF TypeOK
    <3>2. retries' = retries + 1
      BY <1>3 DEF Retry
    <3> QED
      BY <3>1, <3>2
  <2> QED
    BY <1>3, <2>3, <2>4, StillTyped, TypesOf DEF Retry, TypeOK
<1> QED
  BY <1>2, <1>3

-----------------------------------------------------------------------------
(* Layer 3: the books are kept.                                            *)

(* What a turn's log may become: an end stays, and events are not lost.    *)
Later(t) ==
  /\ story[t] \in Endings => story'[t] = story[t]
  /\ HasEvents(t) => HasEvents(t)'
  /\ story[t] \notin {"none", "torn", "accepted"} =>
       story'[t] \notin {"none", "torn", "accepted"}

RanFirst(i) ==
  /\ runs[i] = 0 /\ runs'[i] = 1 /\ Reserved(i)
  /\ story'[TurnOf(i)] \notin {"none", "torn", "accepted"}

Filed(f) ==
  /\ Reserved(f.id) /\ receipt[f.id].body = f.body
  /\ HasEvents(TurnOf(f.id)) \/ receipt[f.id].status = "review"

(* The journal, the queue of turns and the inbox may move while the rows   *)
(* and the outbox stand still.                                             *)
LEMMA RowsStand ==
  ASSUME TypeOK, Books, UNCHANGED <<receipt, outbox, sends>>,
         \A t \in Turns : Later(t),
         \A t \in Turns : story'[t] # "none" =>
            story[t] # "none" \/ \E i \in Identities : Reserved(i) /\ TurnOf(i) = t,
         \A i \in Identities : runs'[i] = runs[i] \/ RanFirst(i),
         \A t \in Turns, i \in Identities : <<t, i>> \in live' =>
            <<t, i>> \in live \/ (Reserved(i) /\ TurnOf(i) = t),
         \A f \in Files : place'[f] = "processed" => place[f] = "processed" \/ Filed(f)
  PROVE  Books'
<1>1. ASSUME NEW i \in Identities, Reserved(i)
      PROVE  TurnOf(i) \in Turns
  BY <1>1, ReservedRow, RowFields DEF TurnOf
<1>2. ASSUME NEW i \in Identities PROVE Reserved(i)' <=> Reserved(i)
  BY DEF Reserved
<1>3. ASSUME NEW i \in Identities PROVE TurnOf(i)' = TurnOf(i)
  BY DEF TurnOf
<1>4. ASSUME NEW i \in Identities PROVE RowHolds(i)'
  <2>1. SUFFICES ASSUME Reserved(i) PROVE RowHolds(i)'
    BY <1>2 DEF RowHolds
  <2>2. TurnOf(i) \in Turns /\ RowHolds(i) /\ Later(TurnOf(i))
    BY <1>1, <2>1 DEF Books
  <2> QED
    BY <1>3, <2>1, <2>2 DEF RowHolds, Later, HasEvents, Answerable, TurnOf
<1>5. ASSUME NEW i \in Identities PROVE RanOnce(i)'
  <2>1. RanOnce(i)
    BY DEF Books
  <2>2. CASE RanFirst(i)
    BY <1>2, <1>3, <2>2 DEF RanOnce, RanFirst, TurnOf
  <2>3. CASE runs'[i] = runs[i]
    BY <1>1, <1>2, <1>3, <2>1, <2>3 DEF RanOnce, Later, TurnOf
  <2> QED
    BY <2>2, <2>3
<1>6. ASSUME NEW i \in Identities PROVE Blank(i)'
  BY <1>2 DEF Books, Blank, RanFirst
<1>7. OwnTurns'
  BY <1>2, <1>3 DEF Books, OwnTurns
<1>8. ASSUME NEW t \in Turns PROVE KnownTurn(t)'
  BY <1>2, <1>3 DEF Books, KnownTurn
<1>9. ASSUME NEW t \in Turns PROVE PublishedTurn(t)'
  BY DEF Books, PublishedTurn, Later, Answerable
<1>10. ASSUME NEW t \in Turns, NEW i \in Identities PROVE LiveTurn(t, i)'
  BY <1>2, <1>3 DEF Books, LiveTurn
<1>11. ASSUME NEW f \in Files PROVE FiledOk(f)'
  BY <1>1, <1>2, <1>3, FileFields DEF Books, FiledOk, Filed, Later
<1> QED
  BY <1>4, <1>5, <1>6, <1>7, <1>8, <1>9, <1>10, <1>11 DEF Books

(* One row is written, or what it stands for is published.                 *)
LEMMA OneRow ==
  ASSUME TypeOK, Books, UNCHANGED <<story, runs, live, place>>,
         NEW i \in Identities, NEW row \in Rows, receipt'[i] = row,
         \A j \in Identities : j # i => receipt'[j] = receipt[j] /\ sends'[j] = sends[j],
         Reserved(i) => /\ row.turn = TurnOf(i) /\ row.body = receipt[i].body
                        /\ receipt[i].status = "review" =>
                             row.status = "review" \/ HasEvents(row.turn),
         ~Reserved(i) => /\ story[row.turn] = "none"
                         /\ \A j \in Identities : Reserved(j) => TurnOf(j) # row.turn,
         RowHolds(i)',
         \A t \in Turns : outbox'[t] = outbox[t] \/ (outbox'[t] # "" /\ PublishedTurn(t)')
  PROVE  Books'
<1>1. ASSUME NEW j \in Identities, Reserved(j)
      PROVE  TurnOf(j) \in Turns
  BY <1>1, ReservedRow, RowFields DEF TurnOf
<1>2. Reserved(i)' /\ TurnOf(i)' = row.turn
  BY RowFields DEF Reserved, TurnOf
<1>3. ASSUME NEW j \in Identities, j # i
      PROVE  (Reserved(j)' <=> Reserved(j)) /\ TurnOf(j)' = TurnOf(j)
  BY <1>3 DEF Reserved, TurnOf
<1>4. ASSUME NEW j \in Identities PROVE RowHolds(j)'
  <2>1. CASE j = i
    BY <2>1
  <2>2. CASE j # i /\ Reserved(j)
    BY <1>1, <2>2, <1>3 DEF Books, RowHolds, HasEvents, TurnOf
  <2>3. CASE j # i /\ ~Reserved(j)
    BY <1>3, <2>3 DEF RowHolds
  <2> QED
    BY <2>1, <2>2, <2>3
<1>5. ASSUME NEW j \in Identities PROVE RanOnce(j)'
  BY <1>2, <1>3 DEF Books, RanOnce, TurnOf
<1>6. ASSUME NEW j \in Identities PROVE Blank(j)'
  BY <1>2, <1>3 DEF Books, Blank
<1>7. OwnTurns'
  BY ZenonT(60), <1>2, <1>3 DEF Books, OwnTurns
<1>8. ASSUME NEW t \in Turns PROVE KnownTurn(t)'
  <2>1. SUFFICES ASSUME story[t] # "none" PROVE KnownTurn(t)'
    BY DEF KnownTurn
  <2>2. PICK j \in Identities : Reserved(j) /\ TurnOf(j) = t
    BY <2>1 DEF Books, KnownTurn
  <2>3. Reserved(j)' /\ TurnOf(j)' = t
    BY <1>2, <1>3, <2>2
  <2> QED
    BY <2>3 DEF KnownTurn
<1>9. ASSUME NEW t \in Turns PROVE PublishedTurn(t)'
  BY DEF Books, PublishedTurn
<1>10. ASSUME NEW t \in Turns, NEW j \in Identities PROVE LiveTurn(t, j)'
  BY <1>2, <1>3 DEF Books, LiveTurn
<1>11. ASSUME NEW f \in Files PROVE FiledOk(f)'
  <2>1. FiledOk(f) /\ f.id \in Identities
    BY FileFields DEF Books
  <2>2. CASE f.id = i
    BY <1>2, <2>1, <2>2 DEF FiledOk, HasEvents, TurnOf
  <2>3. CASE f.id # i
    BY <1>3, <2>1, <2>3 DEF FiledOk, HasEvents, TurnOf
  <2> QED
    BY <2>2, <2>3
<1> QED
  BY <1>4, <1>5, <1>6, <1>7, <1>8, <1>9, <1>10, <1>11 DEF Books

-----------------------------------------------------------------------------
(* Layer 4: every action keeps the books, and what its task relies on.     *)

Inv == TypeOK /\ Books /\ StepHolds

LEMMA SameTurns ==
  ASSUME UNCHANGED story
  PROVE  \A t \in Turns : Later(t)
BY DEF Later, HasEvents

LEMMA ChangedTurn ==
  ASSUME TypeOK, NEW t \in Turns, NEW s, story' = [story EXCEPT ![t] = s]
  PROVE  story'[t] = s /\ \A u \in Turns : u # t => story'[u] = story[u] /\ Later(u)
BY DEF Later, HasEvents, TypeOK

LEMMA RecoveredTurns ==
  ASSUME TypeOK, story' = Recovered
  PROVE  \A t \in Turns : Later(t) /\ (story'[t] # "none" => story[t] # "none")
                          /\ (story[t] = "none" => story'[t] = "none")
BY DEF Later, HasEvents, TypeOK, Recovered, Endings, Stories

LEMMA PollKeeps ==
  ASSUME Inv, UNCHANGED setting, NEW f \in Files, PollOf(f)
  PROVE  Books' /\ StepHolds'
<1> USE DEF Inv
<1>0. f.id \in Identities
  BY FileFields
<1>1. CASE PollRefused(f)
  BY <1>1, RowsStand, SameTurns, StillTyped DEF PollRefused, TypeOK, StepHolds
<1>2. CASE PollNew(f)
  <2>1. /\ FreshTurn \in Turns /\ story[FreshTurn] = "none"
        /\ \A j \in Identities : Reserved(j) => TurnOf(j) # FreshTurn
    BY <1>2, AFreshTurn DEF PollNew
  <2>2. PICK t \in Turns : t = FreshTurn
    BY <2>1
  <2> DEFINE row == [status |-> "reserved", body |-> f.body, turn |-> t,
                     content |-> "", attempts |-> 0, due |-> TRUE]
  <2>3. row \in Rows
    <3>1. 0 \in 0 .. MaxAttempts /\ f.body \in Bodies
      BY BoundsAreNumbers, FileFields DEF TypeOK
    <3> QED
      BY <3>1 DEF Rows, Statuses, Contents
  <2>4. /\ receipt'[f.id] = row
        /\ \A j \in Identities : j # f.id => receipt'[j] = receipt[j] /\ sends'[j] = sends[j]
    BY <1>0, <1>2, <2>2 DEF PollNew, Update, TypeOK
  <2>5. sends'[f.id] = 0 /\ ~Reserved(f.id)
    BY <1>0, <1>2 DEF PollNew, Books, Blank
  <2>6. row.status = "reserved" /\ row.body = f.body /\ row.turn = t
        /\ row.content = "" /\ row.attempts = 0
    OBVIOUS
  <2> HIDE DEF row
  <2>7. RowHolds(f.id)'
    <3>1. /\ receipt'[f.id].content = "" /\ receipt'[f.id].status = "reserved"
          /\ receipt'[f.id].attempts = 0
      BY <2>4, <2>6
    <3>2. sends'[f.id] <= receipt'[f.id].attempts
      <4>1. sends'[f.id] = 0 /\ 0 <= 0
        BY <2>5
      <4> QED
        BY <3>1, <4>1, Zenon
    <3> QED
      BY <3>1, <3>2 DEF RowHolds
  <2>8. Books'
    <3>1. UNCHANGED <<story, runs, live, place, outbox>>
      BY <1>2 DEF PollNew
    <3>2. story[row.turn] = "none" /\ \A j \in Identities : Reserved(j) => TurnOf(j) # row.turn
      BY <2>1, <2>2, <2>6
    <3> QED
      BY <1>0, <2>3, <2>4, <2>5, <2>7, <3>1, <3>2, OneRow
  <2>9. /\ step'.at = "submit" /\ step'.file = f /\ step'.turn = t
        /\ story' = story /\ phase' = "serving"
    BY <1>2, <2>2 DEF PollNew
  <2>10. Reserved(f.id)' /\ TurnOf(f.id)' = t
    BY <2>3, <2>4, <2>6, RowFields DEF Reserved, TurnOf
  <2>11. StepHolds'
    BY ZenonT(60), <2>1, <2>2, <2>4, <2>6, <2>9, <2>10 DEF StepHolds
  <2> QED
    BY <2>8, <2>11
<1>3. CASE PollKnown(f)
  <2>1. Books'
    BY <1>3, RowsStand, SameTurns DEF PollKnown
  <2>2. receipt[f.id] \in Rows
    BY <1>0, <1>3, ReservedRow DEF PollKnown
  <2>3. CASE receipt[f.id].body # f.body
    BY <1>3, <2>3, <2>1 DEF PollKnown, StepHolds
  <2>4. CASE receipt[f.id].body = f.body
    <3>1. /\ step'.at = IF HasEvents(receipt[f.id].turn) \/ receipt[f.id].status # "reserved"
                        THEN "move" ELSE "submit"
          /\ step'.file = f /\ step'.turn = receipt[f.id].turn
          /\ phase' = "serving" /\ receipt' = receipt /\ story' = story
          /\ Reserved(f.id) /\ Loadable(receipt[f.id].turn)
      BY <1>3, <2>4 DEF PollKnown
    <3>2. Reserved(f.id)' /\ TurnOf(f.id)' = receipt[f.id].turn
      BY <3>1 DEF Reserved, TurnOf
    <3>3. RowHolds(f.id) /\ receipt[f.id].status \in Statuses
      BY <1>0, <2>2, RowFields DEF Books
    <3>4. CASE step'.at = "move"
      <4>1. HasEvents(receipt[f.id].turn) \/ receipt[f.id].status = "review"
        BY <3>1, <3>3, <3>4 DEF RowHolds, Statuses, HasEvents, Answerable, Endings, TurnOf
      <4> QED
        BY <2>1, <2>4, <3>1, <3>2, <3>4, <4>1 DEF StepHolds, HasEvents
    <3>5. CASE step'.at = "submit"
      BY <2>1, <2>4, <3>1, <3>2, <3>5 DEF StepHolds, HasEvents, Loadable
    <3> QED
      BY <3>1, <3>4, <3>5
  <2> QED
    BY <2>3, <2>4
<1> QED
  BY <1>1, <1>2, <1>3 DEF PollOf

LEMMA SubmitKeeps ==
  ASSUME Inv, UNCHANGED setting, SubmitTurn \/ SubmitRaises
  PROVE  Books' /\ StepHolds'
<1> USE DEF Inv
<1>1. /\ step.at = "submit" /\ step.turn \in Turns /\ step.file \in Files
      /\ step.file.id \in Identities
  BY StepFields, FileFields DEF SubmitTurn, SubmitRaises, TypeOK
<1>2. /\ Reserved(step.file.id) /\ TurnOf(step.file.id) = step.turn
      /\ receipt[step.file.id].body = step.file.body /\ story[step.turn] = "none"
      /\ receipt[step.file.id].status = "reserved"
  BY <1>1 DEF StepHolds
<1>3. PICK t \in Turns : t = step.turn
  BY <1>1
<1>4. PICK s \in {"none", "torn", "accepted"} : story' = [story EXCEPT ![t] = s]
  BY <1>3 DEF SubmitTurn, SubmitRaises
<1>5. \A u \in Turns : Later(u)
  BY <1>2, <1>3, <1>4, ChangedTurn DEF Later, HasEvents, Endings
<1>6. \A u \in Turns : story'[u] # "none" =>
        story[u] # "none" \/ \E i \in Identities : Reserved(i) /\ TurnOf(i) = u
  BY <1>1, <1>2, <1>3, <1>4, ChangedTurn
<1>7. \A u \in Turns, i \in Identities : <<u, i>> \in live' =>
        <<u, i>> \in live \/ (Reserved(i) /\ TurnOf(i) = u)
  BY <1>1, <1>2 DEF SubmitTurn, SubmitRaises
<1>8. UNCHANGED <<receipt, outbox, sends, runs, place, phase>>
  BY DEF SubmitTurn, SubmitRaises
<1>9. Books'
  BY <1>5, <1>6, <1>7, <1>8, RowsStand
<1>10. CASE SubmitRaises
  BY <1>9, <1>10, StillTyped DEF SubmitRaises, StepHolds
<1>11. CASE SubmitTurn
  <2>1. step' = [step EXCEPT !.at = "mark"] /\ story'[t] = "accepted"
    BY <1>3, <1>11 DEF SubmitTurn, TypeOK
  <2>2. step'.at = "mark" /\ step'.file = step.file /\ step'.turn = step.turn
    BY <1>1, <2>1, PollerSteps DEF TypeOK
  <2>3. phase = "serving"
    BY <1>1 DEF StepHolds
  <2> QED
    BY <1>2, <1>3, <1>8, <1>9, <2>1, <2>2, <2>3 DEF StepHolds, HasEvents, Reserved, TurnOf
<1> QED
  BY <1>10, <1>11

LEMMA PollerKeeps ==
  ASSUME Inv, UNCHANGED setting, MarkRunning \/ MoveFile
  PROVE  Books' /\ StepHolds'
<1> USE DEF Inv
<1>1. CASE MarkRunning
  <2>1. /\ step.at = "mark" /\ step.turn \in Turns /\ step.file.id \in Identities
        /\ phase = "serving"
    BY <1>1, StepFields, FileFields DEF MarkRunning, TypeOK, StepHolds
  <2>2. PICK i \in Identities : i = step.file.id
    BY <2>1
  <2>3. /\ Reserved(i) /\ TurnOf(i) = step.turn /\ receipt[i].body = step.file.body
        /\ receipt[i].status = "reserved" /\ HasEvents(step.turn) /\ receipt[i] \in Rows
    BY <2>1, <2>2, ReservedRow DEF StepHolds
  <2>4. PICK row : row = [receipt[i] EXCEPT !.status = "running"]
    OBVIOUS
  <2>5. /\ row \in Rows /\ row.status = "running" /\ row.body = receipt[i].body
        /\ row.turn = receipt[i].turn /\ row.content = receipt[i].content
        /\ row.attempts = receipt[i].attempts
    BY <2>3, <2>4, RestatedRow DEF Statuses
  <2>6. receipt'[i] = row /\ \A j \in Identities : j # i => receipt'[j] = receipt[j]
    BY <1>1, <2>2, <2>4, <2>5, UpdateTyped DEF MarkRunning
  <2>7. UNCHANGED <<story, runs, live, place, outbox, sends, phase>>
    BY <1>1 DEF MarkRunning
  <2>8. RowHolds(i) /\ RowHolds(i)'
    BY <2>3, <2>5, <2>6, <2>7 DEF Books, RowHolds, TurnOf, HasEvents
  <2>9. Books'
    BY <2>3, <2>5, <2>6, <2>7, <2>8, OneRow DEF TurnOf
  <2>10. step'.at = "move" /\ step'.file = step.file /\ step'.turn = step.turn
    BY <1>1, <2>1, PollerSteps DEF MarkRunning, TypeOK
  <2>11. Reserved(i)' /\ TurnOf(i)' = step.turn
    BY <2>3, <2>5, <2>6, RowFields DEF Reserved, TurnOf
  <2> QED
    BY <2>1, <2>2, <2>3, <2>5, <2>6, <2>7, <2>9, <2>10, <2>11 DEF StepHolds, HasEvents
<1>2. CASE MoveFile
  BY <1>2, StepFields, RowsStand, SameTurns, StillTyped DEF MoveFile, TypeOK, StepHolds, Filed
<1> QED
  BY <1>1, <1>2

LEMMA TurnKeeps ==
  ASSUME Inv, UNCHANGED setting, NEW t \in Turns, NEW i \in Identities,
         BeginTurn(t, i) \/ EndTurn(t, i) \/ RefuseTurn(t, i)
  PROVE  Books' /\ StepHolds'
<1> USE DEF Inv
<1>1. /\ step = Idle /\ step' = step /\ phase' = phase /\ <<t, i>> \in live
      /\ UNCHANGED <<receipt, outbox, sends, place>>
  BY DEF BeginTurn, EndTurn, RefuseTurn, disk
<1>2. StepHolds'
  BY <1>1, StillTyped DEF StepHolds
<1>3. Reserved(i) /\ TurnOf(i) = t /\ RanOnce(i)
  BY <1>1 DEF Books, LiveTurn
<1>4. CASE BeginTurn(t, i)
  <2>1. story[t] = "accepted" /\ story' = [story EXCEPT ![t] = "running"]
        /\ runs' = [runs EXCEPT ![i] = runs[i] + 1] /\ live' = live
    BY <1>4 DEF BeginTurn
  <2>2. story'[t] = "running" /\ \A u \in Turns : u # t => story'[u] = story[u] /\ Later(u)
    BY <2>1, ChangedTurn
  <2>3. \A u \in Turns : Later(u)
    BY <2>1, <2>2 DEF Later, HasEvents, Endings
  <2>4. runs[i] = 0
    BY <1>3, <2>1 DEF RanOnce, TypeOK
  <2>5. \A j \in Identities : runs'[j] = runs[j] \/ RanFirst(j)
    BY <2>1, <2>4, <1>3, <2>2 DEF TypeOK, RanFirst
  <2>6. \A u \in Turns : story'[u] # "none" => story[u] # "none"
    BY <2>1, <2>2
  <2> QED
    BY <1>1, <1>2, <2>1, <2>3, <2>5, <2>6, RowsStand
<1>5. CASE EndTurn(t, i)
  <2>1. PICK s : /\ s \in {"completed", "failed", "cancelled", story[t], "broken"}
                 /\ story[t] = "accepted" => s \in {"accepted", "cancelled", "broken"}
                 /\ story' = [story EXCEPT ![t] = s]
    BY <1>5 DEF EndTurn
  <2>2. story[t] \in {"accepted", "running"} /\ runs' = runs /\ live' \subseteq live
    BY <1>5 DEF EndTurn
  <2>3. story'[t] = s /\ \A u \in Turns : u # t => story'[u] = story[u] /\ Later(u)
    BY <2>1, ChangedTurn
  <2>4. \A u \in Turns : Later(u)
    BY <2>1, <2>2, <2>3 DEF Later, HasEvents, Endings
  <2>5. \A u \in Turns : story'[u] # "none" => story[u] # "none"
    BY <2>2, <2>3
  <2> QED
    BY <1>1, <1>2, <2>2, <2>4, <2>5, RowsStand
<1>6. CASE RefuseTurn(t, i)
  BY <1>6, <1>1, <1>2, SameTurns, RowsStand DEF RefuseTurn, disk
<1> QED
  BY <1>4, <1>5, <1>6

LEMMA ManagementKeeps ==
  ASSUME Inv, UNCHANGED setting, Management \/ WriteFails \/ BeginPass
  PROVE  Books' /\ StepHolds'
<1> USE DEF Inv
<1>1. UNCHANGED <<receipt, outbox, sends, runs, place>> /\ live' \subseteq live
  BY DEF Management, Start, OpenIntake, BeginStop, FinalPass, Exit, Crash, Intrude,
     WriteFails, BeginPass, disk
<1>2. story' = story \/ story' = Recovered
  BY DEF Management, Start, OpenIntake, BeginStop, FinalPass, Exit, Crash, Intrude,
     WriteFails, BeginPass, disk
<1>3. \A t \in Turns : /\ Later(t) /\ (story'[t] # "none" => story[t] # "none")
                       /\ story[t] = "none" => story'[t] = "none"
  BY <1>2, SameTurns, RecoveredTurns
<1>4. Books'
  BY <1>1, <1>3, RowsStand
<1>5. CASE step' = Idle
  BY <1>4, <1>5, StillTyped DEF StepHolds
<1>6. CASE step' = step /\ phase' = phase
  <2>1. step.at \in {"submit", "mark", "move"} => step.turn \in Turns
    BY StepFields DEF TypeOK
  <2>2. step.at = "submit" => story'[step.turn] = "none"
    BY <1>3, <2>1 DEF StepHolds
  <2>3. step.at \in {"submit", "mark", "move"} =>
          (HasEvents(step.turn) => HasEvents(step.turn)')
    <3>1. SUFFICES ASSUME step.at \in {"submit", "mark", "move"}, HasEvents(step.turn)
                   PROVE  story'[step.turn] \notin {"none", "torn"}
      BY <1>6 DEF HasEvents
    <3>2. PICK t \in Turns : t = step.turn
      BY <2>1, <3>1
    <3>3. HasEvents(t)'
      BY <1>3, <3>1, <3>2 DEF Later, HasEvents
    <3> QED
      BY <3>2, <3>3 DEF HasEvents
  <2> QED
    BY <1>1, <1>4, <1>6, <2>2, <2>3 DEF StepHolds, Reserved, TurnOf
<1>7. step' = Idle \/ (step' = step /\ phase' = phase)
      \/ (step' = step /\ step = Idle)
  BY DEF Management, Start, OpenIntake, BeginStop, FinalPass, Exit, Crash, Intrude,
     WriteFails, BeginPass, disk, StepHolds
<1> QED
  BY <1>4, <1>5, <1>6, <1>7

LEMMA VisitKeeps ==
  ASSUME Inv, UNCHANGED setting, NEW i \in Identities, Visit(i)
  PROVE  Books' /\ StepHolds'
<1> USE DEF Inv
<1>1. CASE VisitPending(i)
  <2>1. /\ UNCHANGED <<receipt, outbox, sends, runs, place, story, live, phase>>
        /\ phase \in {"starting", "serving", "stopping", "closing"}
    BY <1>1 DEF VisitPending, disk, ReconcilePhase
  <2>2. Books'
    BY <2>1, RowsStand, SameTurns
  <2>3. CASE receipt[i].due
    BY <1>1, <2>3, <2>1, <2>2 DEF VisitPending, StepHolds
  <2>4. CASE ~receipt[i].due
    BY <1>1, <2>4, <2>2, StillTyped DEF VisitPending, StepHolds
  <2> QED
    BY <2>2, <2>3, <2>4
<1>2. CASE VisitOpen(i)
  <2>1. /\ UNCHANGED <<outbox, sends, runs, place, story, live, phase>>
        /\ phase \in {"starting", "serving", "stopping", "closing"}
        /\ receipt[i].status \in {"reserved", "running"}
    BY <1>2 DEF VisitOpen, ReconcilePhase
  <2>2. PICK row : row = Settled(receipt[i])
    OBVIOUS
  <2>3. Reserved(i) /\ receipt[i] \in Rows
    BY <2>1, ReservedRow
  <2>4. /\ row \in Rows /\ row.body = receipt[i].body /\ row.turn = receipt[i].turn
        /\ row.attempts = receipt[i].attempts
        /\ \/ row = receipt[i]
           \/ row.status = "review" /\ row.content = receipt[i].content
           \/ /\ row.status = "pending" /\ row.content = Reply(story[receipt[i].turn])
              /\ story[receipt[i].turn] \in Answerable
    BY <2>1, <2>2, <2>3, SettledRow
  <2>5. receipt'[i] = row /\ \A j \in Identities : j # i => receipt'[j] = receipt[j]
    BY <1>2, <2>2, <2>4, UpdateTyped DEF VisitOpen
  <2>6. RowHolds(i)'
    BY <2>1, <2>3, <2>4, <2>5 DEF Books, RowHolds, Reply, TurnOf, HasEvents
  <2>7. Books'
    BY <2>1, <2>3, <2>4, <2>5, <2>6, OneRow DEF TurnOf
  <2>8. CASE row.status = "pending" /\ row.due
    BY <1>2, <2>2, <2>8, <2>1, <2>5, <2>7 DEF VisitOpen, StepHolds
  <2>9. CASE ~(row.status = "pending" /\ row.due)
    BY <1>2, <2>2, <2>9, <2>7, StillTyped DEF VisitOpen, StepHolds
  <2> QED
    BY <2>7, <2>8, <2>9
<1> QED
  BY <1>1, <1>2 DEF Visit

(* A row that the worker has not got at hand changes: it is still that of  *)
(* its turn, and stays open or becomes another's concern only when its     *)
(* turn is known.                                                          *)
LEMMA StepStands ==
  ASSUME TypeOK, StepHolds, UNCHANGED <<step, story, phase, outbox>>,
         NEW i \in Identities, NEW row \in Rows, receipt'[i] = row,
         \A j \in Identities : j # i => receipt'[j] = receipt[j] /\ sends'[j] = sends[j],
         Reserved(i), row.turn = TurnOf(i), row.body = receipt[i].body,
         \/ row.status = receipt[i].status
         \/ receipt[i].status = "review" /\ HasEvents(TurnOf(i)),
         receipt[i].status = "pending" => ~receipt[i].due
  PROVE  StepHolds'
<1>1. /\ step.at \in {"deliver", "send", "ack"} => step.id \in Identities /\ step.id # i
      /\ step.at \in {"submit", "mark", "move"} => step.file.id \in Identities
  BY StepFields, FileFields DEF TypeOK, StepHolds
<1>2. Reserved(i)' /\ TurnOf(i)' = TurnOf(i)
  BY RowFields DEF Reserved, TurnOf
<1>3. step.at \in {"submit", "mark", "move"} =>
        /\ Reserved(step.file.id)' /\ receipt'[step.file.id].body = step.file.body
        /\ TurnOf(step.file.id)' = step.turn
        /\ \/ receipt'[step.file.id].status = receipt[step.file.id].status
           \/ receipt[step.file.id].status = "review" /\ HasEvents(step.turn)
  BY <1>1, <1>2 DEF StepHolds, Reserved, TurnOf
<1>4. \A t : HasEvents(t)' <=> HasEvents(t)
  BY DEF HasEvents
<1>5. step.at \in {"submit", "mark"} => receipt'[step.file.id].status = "reserved"
  BY <1>3 DEF StepHolds
<1>6. step.at = "move" => HasEvents(step.turn) \/ receipt'[step.file.id].status = "review"
  BY <1>3 DEF StepHolds
<1>7. step.at \in {"deliver", "send", "ack"} =>
        receipt'[step.id] = receipt[step.id] /\ sends'[step.id] = sends[step.id]
  BY <1>1
<1> QED
  BY <1>3, <1>4, <1>5, <1>6, <1>7 DEF StepHolds, HasEvents

LEMMA OperatorKeeps ==
  ASSUME Inv, UNCHANGED setting, NEW i \in Identities, Elapse(i) \/ Retry(i)
  PROVE  Books' /\ StepHolds'
<1> USE DEF Inv
<1>1. receipt[i] \in Rows /\ Reserved(i) /\ RowHolds(i)
  BY ReservedRow DEF Elapse, Retry, Books
<1>2. UNCHANGED <<place, story, outbox, phase, step, todo, live, runs>>
  BY DEF Elapse, Retry
<1>3. CASE Elapse(i)
  <2>1. PICK row : row = [receipt[i] EXCEPT !.due = TRUE]
    OBVIOUS
  <2>2. /\ row \in Rows /\ row.status = receipt[i].status /\ row.body = receipt[i].body
        /\ row.turn = receipt[i].turn /\ row.content = receipt[i].content
        /\ row.attempts = receipt[i].attempts
    BY <1>1, <2>1, DueRow
  <2>3. receipt'[i] = row /\ \A j \in Identities : j # i => receipt'[j] = receipt[j]
    BY <1>3, <2>1, <2>2, UpdateTyped DEF Elapse
  <2>4. sends' = sends /\ receipt[i].status = "pending" /\ ~receipt[i].due
    BY <1>3 DEF Elapse
  <2>5. RowHolds(i)'
    BY <1>1, <1>2, <2>2, <2>3, <2>4 DEF RowHolds, TurnOf, HasEvents
  <2>6. Books'
    BY <1>1, <1>2, <2>2, <2>3, <2>4, <2>5, OneRow DEF TurnOf
  <2> QED
    BY <1>1, <1>2, <2>2, <2>3, <2>4, <2>6, StepStands DEF TurnOf
<1>4. CASE Retry(i)
  <2>1. receipt[i].status = "review" /\ receipt[i].content # ""
        /\ sends' = [sends EXCEPT ![i] = 0]
    BY <1>4 DEF Retry
  <2>2. PICK row : row = Pending(receipt[i], receipt[i].content, 0, TRUE)
    OBVIOUS
  <2>3. /\ row.status = "pending" /\ row.body = receipt[i].body
        /\ row.turn = receipt[i].turn /\ row.content = receipt[i].content
        /\ row.attempts = 0
    BY <2>2 DEF Pending
  <2>4. row \in Rows
    BY <1>1, <2>2, RowFields, BoundsAreNumbers DEF TypeOK, Pending, Rows, Statuses
  <2>5. receipt'[i] = row /\ \A j \in Identities : j # i => receipt'[j] = receipt[j]
    BY <1>4, <2>2, <2>4, UpdateTyped DEF Retry
  <2>6. sends'[i] = 0 /\ \A j \in Identities : j # i => sends'[j] = sends[j]
    BY <2>1 DEF TypeOK
  <2>7. /\ story[TurnOf(i)] \in Answerable
        /\ receipt[i].content = Reply(story[TurnOf(i)])
        /\ HasEvents(TurnOf(i))
    BY <1>1, <2>1 DEF RowHolds, Answerable, Endings, HasEvents
  <2>8. sends'[i] <= row.attempts
    <3>1. 0 <= 0
      OBVIOUS
    <3> QED
      BY <2>3, <2>6, <3>1, Zenon
  <2>9. RowHolds(i)'
    BY <1>2, <2>1, <2>3, <2>5, <2>7, <2>8 DEF RowHolds, TurnOf
  <2>10. Books'
    BY <1>1, <1>2, <2>3, <2>4, <2>5, <2>6, <2>7, <2>9, OneRow DEF TurnOf
  <2> QED
    BY <1>1, <1>2, <2>1, <2>3, <2>4, <2>5, <2>6, <2>7, <2>10, StepStands DEF TurnOf
<1> QED
  BY <1>3, <1>4

LEMMA DeliveryKeeps ==
  ASSUME Inv, UNCHANGED setting, Attempt \/ Send \/ SendFails \/ Acknowledge
  PROVE  Books' /\ StepHolds'
<1> USE DEF Inv
<1>1. /\ step.at \in {"deliver", "send", "ack"} /\ step.id \in Identities
      /\ step.row \in Rows /\ receipt[step.id] = step.row
      /\ step.row.status = "pending" /\ step.row.due /\ phase # "down"
  <2>1. step.at \in {"deliver", "send", "ack"}
    BY DEF Attempt, Send, SendFails, Acknowledge
  <2>2. step # Idle
    BY <2>1 DEF Idle
  <2> QED
    BY <2>1, <2>2, StepFields DEF TypeOK, StepHolds
<1>2. PICK i \in Identities : i = step.id
  BY <1>1
<1>3. PICK row \in Rows : row = receipt[i]
  BY <1>1, <1>2
<1>4. /\ Reserved(i) /\ RowHolds(i) /\ TurnOf(i) = row.turn
      /\ row.status = "pending" /\ row.due /\ row = step.row
  BY <1>1, <1>2, <1>3, RowFields DEF Reserved, Books, TurnOf
<1>5. /\ row.content # "" /\ story[row.turn] \in Answerable
      /\ row.content = Reply(story[row.turn]) /\ sends[i] <= row.attempts
  BY <1>3, <1>4 DEF RowHolds
<1>6. /\ row.turn \in Turns /\ row.attempts \in Nat /\ MaxAttempts \in Nat
      /\ sends[i] \in Nat /\ row.attempts \in 0 .. MaxAttempts
  BY RowFields, BoundsAreNumbers DEF TypeOK
<1>7. UNCHANGED <<story, runs, live, place, phase>>
  BY DEF Attempt, Send, SendFails, Acknowledge
<1>8. CASE Attempt
  <2>1. step.at = "deliver" /\ UNCHANGED <<outbox, sends>>
    BY <1>8 DEF Attempt
  <2>2. CASE row.attempts >= MaxAttempts
    <3>1. PICK n : n = [row EXCEPT !.status = "review"]
      OBVIOUS
    <3>2. /\ n \in Rows /\ n.status = "review" /\ n.body = row.body /\ n.turn = row.turn
          /\ n.content = row.content /\ n.attempts = row.attempts
      BY <3>1, RestatedRow DEF Statuses
    <3>3. step' = Idle /\ Update(i, n)
      BY <1>2, <1>3, <1>4, <1>8, <2>2, <3>1 DEF Attempt
    <3>4. receipt'[i] = n /\ \A j \in Identities : j # i => receipt'[j] = receipt[j]
      BY <3>2, <3>3, UpdateTyped
    <3>5. RowHolds(i)'
      BY <1>3, <1>4, <1>5, <1>7, <2>1, <3>2, <3>4 DEF RowHolds, TurnOf
    <3>6. Books'
      BY <1>3, <1>4, <1>7, <2>1, <3>2, <3>4, <3>5, OneRow
    <3> QED
      BY <3>3, <3>6, StillTyped DEF StepHolds
  <2>3. CASE ~(row.attempts >= MaxAttempts)
    <3>1. PICK n : n = [row EXCEPT !.attempts = row.attempts + 1]
      OBVIOUS
    <3>2. row.attempts + 1 \in 0 .. MaxAttempts
      BY <1>6, <2>3
    <3>3. /\ n \in Rows /\ n.status = row.status /\ n.body = row.body /\ n.turn = row.turn
          /\ n.content = row.content /\ n.attempts = row.attempts + 1 /\ n.due = row.due
      BY <3>1, <3>2, CountedRow
    <3>4. step' = [at |-> "send", id |-> i, row |-> n] /\ Update(i, n)
      BY <1>2, <1>3, <1>4, <1>8, <2>3, <3>1 DEF Attempt
    <3>5. receipt'[i] = n /\ \A j \in Identities : j # i => receipt'[j] = receipt[j]
      BY <3>3, <3>4, UpdateTyped
    <3>6. sends'[i] < n.attempts /\ sends'[i] <= n.attempts
      <4>1. sends'[i] = sends[i]
        BY <2>1
      <4>2. sends[i] < row.attempts + 1 /\ sends[i] <= row.attempts + 1
        <5>1. \A a, b \in Nat : a <= b => a < b + 1 /\ a <= b + 1
          OBVIOUS
        <5>2. sends[i] <= row.attempts /\ sends[i] \in Nat /\ row.attempts \in Nat
          BY <1>5, <1>6
        <5> QED
          BY <5>1, <5>2, Zenon
      <4> QED
        BY <3>3, <4>1, <4>2
    <3>7. RowHolds(i)'
      BY <1>4, <1>5, <1>7, <3>3, <3>5, <3>6 DEF RowHolds, TurnOf
    <3>8. Books'
      BY <1>3, <1>4, <1>7, <2>1, <3>3, <3>5, <3>7, OneRow
    <3>9. step'.at = "send" /\ step'.id = i /\ step'.row = n
      BY <3>4
    <3> QED
      BY <1>1, <1>4, <1>7, <3>3, <3>5, <3>6, <3>8, <3>9 DEF StepHolds
  <2> QED
    BY <2>2, <2>3
<1>9. ASSUME outbox' = outbox \/ outbox' = [outbox EXCEPT ![row.turn] = row.content]
      PROVE  \A t \in Turns : outbox'[t] = outbox[t] \/ (outbox'[t] # "" /\ PublishedTurn(t)')
  BY <1>9, <1>6, <1>5, <1>7 DEF TypeOK, PublishedTurn
<1>10. CASE Send
  <2>1. /\ step.at = "send" /\ receipt' = receipt
        /\ outbox' = [outbox EXCEPT ![row.turn] = row.content]
        /\ sends' = [sends EXCEPT ![i] = sends[i] + 1] /\ step' = [step EXCEPT !.at = "ack"]
    BY <1>2, <1>4, <1>10 DEF Send
  <2>2. sends[i] < row.attempts
    BY <1>2, <1>4, <2>1 DEF StepHolds
  <2>3. sends'[i] = sends[i] + 1 /\ \A j \in Identities : j # i => sends'[j] = sends[j]
    BY <2>1 DEF TypeOK
  <2>4. sends'[i] <= row.attempts
    BY <1>6, <2>2, <2>3
  <2>5. RowHolds(i)'
    BY <1>3, <1>4, <1>5, <1>7, <2>1, <2>4 DEF RowHolds, TurnOf
  <2>6. Books'
    BY <1>3, <1>4, <1>7, <1>9, <2>1, <2>3, <2>5, OneRow
  <2>7. step'.at = "ack" /\ step'.id = i /\ step'.row = row
    BY <1>1, <1>2, <1>4, <2>1, WorkerSteps DEF TypeOK
  <2>8. outbox'[row.turn] # ""
    BY <1>5, <1>6, <2>1 DEF TypeOK
  <2> QED
    BY <1>1, <1>3, <1>4, <1>7, <2>1, <2>6, <2>7, <2>8 DEF StepHolds
<1>11. CASE SendFails
  <2>1. /\ step.at = "send" /\ step' = Idle
        /\ outbox' = outbox \/ outbox' = [outbox EXCEPT ![row.turn] = row.content]
        /\ sends' = [sends EXCEPT ![i] = sends[i] + 1]
    BY <1>2, <1>4, <1>11 DEF SendFails
  <2>2. PICK s \in {"review", "pending"} :
          Update(i, [row EXCEPT !.status = s, !.due = FALSE])
    BY <1>2, <1>3, <1>11 DEF SendFails
  <2>3. PICK n : n = [row EXCEPT !.status = s, !.due = FALSE]
    OBVIOUS
  <2>4. /\ n \in Rows /\ n.status = s /\ n.body = row.body /\ n.turn = row.turn
        /\ n.content = row.content /\ n.attempts = row.attempts
    BY <2>2, <1>3, <2>3 DEF Statuses, Rows
  <2>5. receipt'[i] = n /\ \A j \in Identities : j # i => receipt'[j] = receipt[j]
    BY <2>2, <2>3, <2>4, UpdateTyped
  <2>6. sends[i] < row.attempts
    BY <1>2, <1>4, <2>1 DEF StepHolds
  <2>7. sends'[i] = sends[i] + 1 /\ \A j \in Identities : j # i => sends'[j] = sends[j]
    BY <2>1 DEF TypeOK
  <2>8. sends'[i] <= n.attempts
    BY <1>6, <2>4, <2>6, <2>7
  <2>9. RowHolds(i)'
    BY <1>4, <1>5, <1>7, <2>4, <2>5, <2>8 DEF RowHolds, TurnOf
  <2>10. Books'
    BY ZenonT(60), <1>3, <1>4, <1>7, <1>9, <2>1, <2>4, <2>5, <2>7, <2>9, OneRow
  <2> QED
    BY <2>1, <2>10, StillTyped DEF StepHolds
<1>12. CASE Acknowledge
  <2>1. step.at = "ack" /\ step' = Idle /\ UNCHANGED <<outbox, sends>>
    BY <1>12 DEF Acknowledge
  <2>2. PICK n : n = [row EXCEPT !.status = "delivered"]
    OBVIOUS
  <2>3. /\ n \in Rows /\ n.status = "delivered" /\ n.body = row.body /\ n.turn = row.turn
        /\ n.content = row.content /\ n.attempts = row.attempts
    BY <2>2, RestatedRow DEF Statuses
  <2>4. receipt'[i] = n /\ \A j \in Identities : j # i => receipt'[j] = receipt[j]
    BY <1>2, <1>3, <1>12, <2>2, <2>3, UpdateTyped DEF Acknowledge
  <2>5. outbox[row.turn] # ""
    BY <1>4, <2>1 DEF StepHolds
  <2>6. RowHolds(i)'
    BY <1>4, <1>5, <1>7, <2>1, <2>3, <2>4, <2>5 DEF RowHolds, TurnOf
  <2>7. Books'
    BY <1>3, <1>4, <1>7, <2>1, <2>3, <2>4, <2>6, OneRow
  <2> QED
    BY <2>1, <2>7, StillTyped DEF StepHolds
<1> QED
  BY <1>8, <1>10, <1>11, <1>12

LEMMA InvHolds == Inv /\ [Next]_vars => Inv'
<1> SUFFICES ASSUME Inv, [Next]_vars PROVE Inv'
  OBVIOUS
<1> USE DEF Inv
<1>1. CASE UNCHANGED vars
  <2>1. TypeOK'
    BY <1>1, SameTypes DEF TypeOK, vars
  <2>2. Books'
    BY <1>1, RowsStand, SameTurns DEF vars
  <2>3. StepHolds'
    BY <1>1 DEF StepHolds, vars, HasEvents, Reserved, TurnOf
  <2> QED
    BY <2>1, <2>2, <2>3
<1>2. CASE UNCHANGED setting /\ PollStep
  BY <1>2, PollTyped, PollKeeps, SubmitKeeps, PollerKeeps DEF PollStep
<1>3. CASE UNCHANGED setting /\ PassStep
  BY <1>3, PassTyped, ManagementKeeps, DeliveryKeeps, VisitKeeps DEF PassStep
<1>4. CASE UNCHANGED setting /\ TurnStep
  BY <1>4, TurnTyped, TurnKeeps DEF TurnStep
<1>5. CASE UNCHANGED setting /\ (Management \/ WriteFails)
  BY <1>5, ManagementTyped, ManagementKeeps
<1>6. CASE UNCHANGED setting /\ \E i \in Identities : Elapse(i) \/ Retry(i)
  BY <1>6, RowTyped, OperatorKeeps
<1> QED
  BY <1>1, <1>2, <1>3, <1>4, <1>5, <1>6 DEF Next, Management

LEMMA InvStarts == Init => Inv
<1> SUFFICES ASSUME Init PROVE Inv
  OBVIOUS
<1>1. /\ receipt = [i \in Identities |-> NoRow] /\ story = [t \in Turns |-> "none"]
      /\ outbox = [t \in Turns |-> ""] /\ step = Idle /\ phase = "down"
      /\ live = {} /\ todo = {}
      /\ place = [f \in Files |-> IF f \in Arriving THEN "inbox" ELSE "absent"]
      /\ starts = 0 /\ retries = 0 /\ intrusions = 0 /\ setting \in Settings
      /\ runs = [i \in Identities |-> 0] /\ sends = [i \in Identities |-> 0]
  BY DEF Init
<1>2. TypeOK
  BY <1>1 DEF TypeOK, Stories, Contents, Phases, Steps
<1>3. \A i \in Identities : ~Reserved(i) /\ runs[i] = 0 /\ sends[i] = 0
  BY <1>1 DEF Reserved
<1>4. \A i \in Identities : RowHolds(i) /\ RanOnce(i) /\ Blank(i)
  <2>1. 0 <= 1 /\ ~(0 > 0)
    OBVIOUS
  <2>2. ASSUME NEW i \in Identities PROVE runs[i] <= 1 /\ ~(runs[i] > 0)
    BY <1>3, <2>1, Zenon
  <2> QED
    BY <1>3, <2>2 DEF RowHolds, RanOnce, Blank
<1>5. OwnTurns /\ \A t \in Turns : KnownTurn(t) /\ PublishedTurn(t)
  BY <1>1, <1>3 DEF OwnTurns, KnownTurn, PublishedTurn
<1>6. Books
  BY <1>1, <1>4, <1>5 DEF Books, LiveTurn, FiledOk
<1>7. StepHolds
  BY <1>1 DEF StepHolds, Idle
<1> QED
  BY <1>2, <1>6, <1>7 DEF Inv

LEMMA InvAlways == Spec => []Inv
BY InvStarts, InvHolds, PTL DEF Spec

(* Receipts tell the truth, for any files, turn ids, settings and bounds.  *)
THEOREM ReceiptsStayTrue == Spec => []ReceiptsAreTrue
<1>1. Inv => ReceiptsAreTrue
  <2> SUFFICES ASSUME Inv PROVE ReceiptsAreTrue
    OBVIOUS
  <2>1. TypeOK /\ Books
    BY DEF Inv
  <2>2. RunsOnce
    BY <2>1 DEF RunsOnce, Books, RanOnce
  <2>3. PublishedIsRecorded
    <3>1. ASSUME NEW t \in Turns, outbox[t] # ""
          PROVE  story[t] \in Endings \ {"interrupted"} /\ outbox[t] = Reply(story[t])
      BY <2>1, <3>1 DEF Books, PublishedTurn, Answerable
    <3>2. ASSUME NEW i \in Identities, receipt[i].status = "delivered"
          PROVE  outbox[receipt[i].turn] = receipt[i].content /\ receipt[i].content # ""
      BY <2>1, <3>2, ReservedRow, RowFields DEF Books, TurnOf, RowHolds, PublishedTurn
    <3> QED
      BY <3>1, <3>2 DEF PublishedIsRecorded
  <2>4. SendsBounded
    <3>1. ASSUME NEW i \in Identities PROVE sends[i] <= MaxAttempts
      <4>1. MaxAttempts \in Nat /\ sends[i] \in Nat
        BY <2>1, BoundsAreNumbers DEF TypeOK
      <4>2. CASE Reserved(i)
        <5>1. receipt[i] \in Rows /\ RowHolds(i)
          BY <2>1, <4>2, ReservedRow DEF Books
        <5>2. sends[i] <= receipt[i].attempts /\ receipt[i].attempts \in 0 .. MaxAttempts
          BY <4>2, <5>1, RowFields DEF RowHolds
        <5> QED
          BY <4>1, <5>2
      <4>3. CASE ~Reserved(i)
        BY <2>1, <4>3, <4>1 DEF Books, Blank
      <4> QED
        BY <4>2, <4>3
    <3> QED
      BY <3>1 DEF SendsBounded
  <2>5. ProcessedIsAccepted
    BY <2>1 DEF ProcessedIsAccepted, Books, FiledOk, TurnOf
  <2> QED
    BY <2>1, <2>2, <2>3, <2>4, <2>5 DEF ReceiptsAreTrue
<1> QED
  BY <1>1, InvAlways, PTL

-----------------------------------------------------------------------------
(* Layer 5: who may change a row.                                          *)

Written(i) == receipt'[i] # receipt[i]

LEMMA DeliveryWrites ==
  ASSUME Inv, UNCHANGED setting, Attempt \/ SendFails \/ Acknowledge,
         NEW i \in Identities, Written(i)
  PROVE  receipt[i].status = "pending" /\ receipt'[i].status \in {"pending", "review", "delivered"}
<1> USE DEF Inv
<1>1. /\ step.at \in {"deliver", "send", "ack"} /\ step.id \in Identities
      /\ step.row \in Rows /\ receipt[step.id] = step.row /\ step.row.status = "pending"
  <2>1. step.at \in {"deliver", "send", "ack"}
    BY DEF Attempt, SendFails, Acknowledge
  <2> QED
    BY <2>1, StepFields DEF TypeOK, StepHolds
<1>2. PICK j \in Identities : j = step.id
  BY <1>1
<1>3. PICK row \in Rows : row = receipt[j]
  BY <1>1, <1>2
<1>4. \E n : /\ Update(j, n) /\ n \in Rows
             /\ n.status \in {"pending", "review", "delivered"}
  <2>1. CASE Attempt
    <3>1. CASE step.row.attempts >= MaxAttempts
      <4>1. Update(j, [row EXCEPT !.status = "review"])
        BY <1>2, <1>3, <2>1, <3>1 DEF Attempt
      <4> QED
        <5>1. "review" \in Statuses
          BY DEF Statuses
        <5>2. /\ [row EXCEPT !.status = "review"] \in Rows
              /\ [row EXCEPT !.status = "review"].status = "review"
          BY <1>3, <5>1, RestatedRow
        <5> QED
          BY <4>1, <5>2
    <3>2. CASE ~(step.row.attempts >= MaxAttempts)
      <4>1. PICK a : a = row.attempts + 1
        OBVIOUS
      <4>2. Update(j, [row EXCEPT !.attempts = a])
        BY <1>1, <1>2, <1>3, <2>1, <3>2, <4>1 DEF Attempt
      <4>3. a \in 0 .. MaxAttempts
        BY <1>1, <1>2, <1>3, <3>2, <4>1, RowFields, BoundsAreNumbers DEF TypeOK
      <4>4. /\ [row EXCEPT !.attempts = a] \in Rows
            /\ [row EXCEPT !.attempts = a].status = row.status
        BY <1>3, <4>3, CountedRow
      <4> QED
        BY <1>1, <1>2, <1>3, <4>2, <4>4
    <3> QED
      BY <3>1, <3>2
  <2>2. CASE SendFails
    <3>1. PICK s \in {"review", "pending"} :
            Update(j, [row EXCEPT !.status = s, !.due = FALSE])
      BY <1>2, <1>3, <2>2 DEF SendFails
    <3>2. PICK n : n = [row EXCEPT !.status = s, !.due = FALSE]
      OBVIOUS
    <3>3. n \in Rows /\ n.status = s
      BY <1>3, <3>1, <3>2 DEF Rows, Statuses
    <3> QED
      BY <3>1, <3>2, <3>3
  <2>3. CASE Acknowledge
    <3>1. Update(j, [row EXCEPT !.status = "delivered"])
      BY <1>2, <1>3, <2>3 DEF Acknowledge
    <3> QED
      <4>1. "delivered" \in Statuses
        BY DEF Statuses
      <4>2. /\ [row EXCEPT !.status = "delivered"] \in Rows
            /\ [row EXCEPT !.status = "delivered"].status = "delivered"
        BY <1>3, <4>1, RestatedRow
      <4> QED
        BY <3>1, <4>2
  <2> QED
    BY <2>1, <2>2, <2>3
<1>5. i = j /\ receipt'[i].status \in {"pending", "review", "delivered"}
  BY <1>4, UpdateTyped DEF Written
<1> QED
  BY <1>1, <1>2, <1>5

LEMMA WhoWrites ==
  ASSUME Inv, Next, NEW i \in Identities, Written(i)
  PROVE  \/ phase = "serving" /\ receipt[i].status \in {"none", "reserved"}
         \/ VisitOpen(i)
         \/ /\ receipt[i].status = "pending"
            /\ receipt'[i].status \in {"pending", "review", "delivered"}
         \/ Retry(i)
<1> USE DEF Inv
<1>1. ~(receipt' = receipt) /\ UNCHANGED setting
  BY DEF Written, Next
<1>2. ASSUME NEW j \in Identities, NEW row, Update(j, row)
      PROVE  j = i
  BY <1>2 DEF Update, Written, TypeOK
<1>3. CASE PollStep
  <2>1. ASSUME NEW f \in Files, PollOf(f)
        PROVE  phase = "serving" /\ receipt[i].status \in {"none", "reserved"}
    BY <1>1, <2>1, <1>2, FileFields, ReservedRow DEF PollOf, PollRefused, PollKnown, PollNew
  <2>2. CASE MarkRunning
    BY <2>2, <1>2, StepFields, FileFields DEF MarkRunning, TypeOK, StepHolds
  <2>3. ~SubmitTurn /\ ~SubmitRaises /\ ~MoveFile
    BY <1>1 DEF SubmitTurn, SubmitRaises, MoveFile
  <2> QED
    BY <1>3, <2>1, <2>2, <2>3 DEF PollStep
<1>4. CASE PassStep
  <2>1. ASSUME NEW j \in Identities, Visit(j)
        PROVE  VisitOpen(i)
    BY <1>1, <2>1, <1>2 DEF Visit, VisitPending, disk, VisitOpen
  <2>2. ~BeginPass /\ ~Send
    BY <1>1 DEF BeginPass, Send, disk
  <2> QED
    BY <1>1, <1>4, <2>1, <2>2, DeliveryWrites DEF PassStep
<1>5. ASSUME NEW j \in Identities, Elapse(j) \/ Retry(j)
      PROVE  Retry(i) \/ /\ receipt[i].status = "pending"
                         /\ receipt'[i].status \in {"pending", "review", "delivered"}
  <2>1. CASE Retry(j)
    BY <1>2, <2>1 DEF Retry
  <2>2. CASE Elapse(j)
    BY <1>2, <2>2, ReservedRow, DueRow DEF Elapse, Update, TypeOK
  <2> QED
    BY <1>5, <2>1, <2>2
<1>6. ~TurnStep /\ ~WriteFails /\ ~Management
  BY <1>1 DEF TurnStep, BeginTurn, EndTurn, RefuseTurn, WriteFails, Management, Start,
     OpenIntake, BeginStop, FinalPass, Exit, Crash, Intrude, disk
<1> QED
  BY <1>3, <1>4, <1>5, <1>6 DEF Next, Management

(* A receipt under review changes only by a retry of the reply it holds,   *)
(* and a delivered one never: no crash, restart, poll or pass replays it.  *)
THEOREM ReviewIsFinal == Spec => OnlyRetryLeavesReview
<1> DEFINE A == \A i \in Identities :
       /\ receipt[i].status = "delivered" => receipt'[i] = receipt[i]
       /\ receipt[i].status = "review" /\ receipt'[i] # receipt[i] =>
            retries' = retries + 1 /\ receipt[i].content # ""
              /\ receipt'[i].status = "pending"
<1>1. Inv /\ [Next]_vars => [A]_vars
  <2> SUFFICES ASSUME Inv, Next, NEW i \in Identities, Written(i),
                      receipt[i].status \in {"delivered", "review"}
               PROVE  /\ receipt[i].status = "review" /\ retries' = retries + 1
                      /\ receipt[i].content # "" /\ receipt'[i].status = "pending"
    BY DEF Written
  <2>1. Retry(i)
    BY WhoWrites DEF VisitOpen
  <2>2. receipt'[i] = Pending(receipt[i], receipt[i].content, 0, TRUE)
    BY <2>1 DEF Retry, Update, Inv, TypeOK
  <2>3. receipt'[i].status = "pending"
    BY <2>2 DEF Pending
  <2> QED
    BY <2>1, <2>3 DEF Retry
<1>2. []Inv /\ [][Next]_vars => [][A]_vars
  BY <1>1, PTL
<1> QED
  BY <1>2, InvAlways, PTL DEF Spec, OnlyRetryLeavesReview

-----------------------------------------------------------------------------
(* Layer 6: an orderly stop.                                               *)

Open(i) == receipt[i].status \in {"reserved", "running"}
ClosedRow(i) == Open(i) => story[TurnOf(i)] = "none"

(* Where writes work: no log breaks, whoever is not done is still in this  *)
(* process, nobody is while it starts or closes, and the last pass has     *)
(* settled the rows it went through.                                       *)
Whole == \A t \in Turns : story[t] \notin {"torn", "broken"}
Attended ==
  phase # "down" => \A t \in Turns : story[t] \in {"accepted", "running"} =>
                      \E i \in Identities : <<t, i>> \in live
Alone == phase \in {"down", "starting", "closing"} => live = {}
Visited == phase = "closing" => \A i \in Identities : i \in todo \/ ClosedRow(i)
Closing == ~WriteFaults => Whole /\ Attended /\ Alone /\ Visited

(* A row that is neither visited nor written is as it was.                 *)
LEMMA StillVisited ==
  ASSUME Inv, Closing, ~WriteFaults, Next, phase = "closing", phase' = "closing",
         \A t \in Turns : story[t] = "none" => story'[t] = "none",
         NEW i \in Identities, i \notin todo, ~VisitOpen(i)
  PROVE  ClosedRow(i)'
<1>1. ClosedRow(i) /\ TypeOK
  BY DEF Closing, Visited, Inv
<1>2. CASE Written(i)
  <2>1. receipt'[i].status \in {"pending", "review", "delivered"}
    <3>1. CASE Retry(i)
      BY <1>1, <3>1 DEF Retry, Update, TypeOK, Pending
    <3> QED
      BY <1>2, <3>1, WhoWrites
  <2> QED
    BY <2>1 DEF ClosedRow, Open
<1>3. CASE ~Written(i)
  BY <1>3, <1>1, ReservedRow, RowFields DEF Open, Written, TurnOf, ClosedRow
<1> QED
  BY <1>2, <1>3

LEMMA VisitCloses ==
  ASSUME Inv, Closing, ~WriteFaults, phase = "closing",
         NEW i \in Identities, VisitOpen(i)
  PROVE  ClosedRow(i)'
<1>1. /\ receipt[i].status \in {"reserved", "running"} /\ receipt[i] \in Rows /\ TypeOK
      /\ UNCHANGED story
  BY ReservedRow DEF VisitOpen, Inv
<1>2. PICK t \in Turns : t = receipt[i].turn
  BY <1>1, RowFields
<1>3. story[t] \notin {"torn", "broken", "accepted", "running"}
  BY DEF Closing, Whole, Attended, Alone
<1>4. story[t] \in Endings \/ story[t] = "none"
  BY <1>1, <1>3 DEF TypeOK, Stories
<1>5. PICK row : row = Settled(receipt[i])
  OBVIOUS
<1>6. receipt'[i] = row
  BY <1>1, <1>5 DEF VisitOpen, Update, TypeOK
<1>7. CASE story[t] = "none"
  BY <1>2, <1>5, <1>7, <1>1, <1>6 DEF Settled, Endings, ClosedRow, TurnOf
<1>8. CASE story[t] \in Endings
  <2>1. row.status \in {"review", "pending"}
    <3>1. CASE story[t] = "interrupted"
      BY <1>2, <1>5, <3>1, <1>1, RestatedRow DEF Settled, Statuses
    <3>2. CASE story[t] # "interrupted"
      BY <1>2, <1>5, <1>8, <3>2 DEF Settled, Endings, Pending
    <3> QED
      BY <3>1, <3>2
  <2> QED
    BY <1>6, <2>1 DEF ClosedRow, Open
<1> QED
  BY <1>4, <1>7, <1>8

(* The steps at which turns, processes and rows stay where they are.       *)
LEMMA ClosingStands ==
  ASSUME Inv, Closing, ~WriteFaults, Next, UNCHANGED <<story, live, phase, todo>>,
         \A i \in Identities : ~VisitOpen(i)
  PROVE  Closing'
<1>1. Whole' /\ Attended' /\ Alone'
  BY DEF Closing, Whole, Attended, Alone
<1>2. Visited'
  BY StillVisited DEF Visited
<1> QED
  BY <1>1, <1>2 DEF Closing

LEMMA ClosingHolds ==
  ASSUME Inv, Closing, [Next]_vars
  PROVE  Closing'
<1> SUFFICES ASSUME ~WriteFaults, ~WriteFaults' PROVE Closing'
  BY SameTypes DEF Next, vars, Closing
<1>0. TypeOK /\ StepHolds /\ Whole /\ Attended /\ Alone /\ Visited
  BY DEF Inv, Closing
<1>1. CASE UNCHANGED vars
  BY <1>0, <1>1 DEF Closing, Whole, Attended, Alone, Visited, ClosedRow, Open, TurnOf, vars
<1> SUFFICES ASSUME Next PROVE Closing'
  BY <1>1
<1>2. CASE UNCHANGED <<story, live, phase, todo>>
  BY <1>2, ClosingStands DEF VisitOpen
<1>3. CASE SubmitTurn
  <2>1. /\ phase = "serving" /\ phase' = "serving" /\ step.turn \in Turns
        /\ step.file.id \in Identities
        /\ story' = [story EXCEPT ![step.turn] = "accepted"]
        /\ live' = live \cup {<<step.turn, step.file.id>>}
    BY <1>0, <1>3, StepFields, FileFields DEF SubmitTurn, TypeOK, StepHolds
  <2>2. PICK t \in Turns, i \in Identities : t = step.turn /\ i = step.file.id
    BY <2>1
  <2>3. story'[t] = "accepted" /\ \A u \in Turns : u # t => story'[u] = story[u]
    BY <1>0, <2>1, <2>2, ChangedTurn
  <2>4. Whole'
    BY <1>0, <2>3 DEF Whole
  <2>5. Attended'
    BY <1>0, <2>1, <2>2, <2>3 DEF Attended
  <2> QED
    BY <2>1, <2>4, <2>5 DEF Closing, Alone, Visited
<1>4. ASSUME NEW t \in Turns, NEW i \in Identities,
             BeginTurn(t, i) \/ EndTurn(t, i) \/ RefuseTurn(t, i)
      PROVE  Closing'
  <2>1. phase \in {"serving", "stopping"} /\ phase' = phase
    BY <1>4 DEF BeginTurn, EndTurn, RefuseTurn
  <2>2. \/ \E s \in Endings : story' = [story EXCEPT ![t] = s] /\ live' = live \ {<<t, i>>}
        \/ /\ story[t] = "accepted" /\ story' = [story EXCEPT ![t] = "running"]
           /\ live' = live
        \/ story[t] \in Endings /\ story' = story /\ live' = live \ {<<t, i>>}
    BY <1>4 DEF BeginTurn, EndTurn, RefuseTurn, disk, Endings
  <2>3. \A u \in Turns : u # t => story'[u] = story[u]
    BY <1>0, <2>2, ChangedTurn
  <2>4. \/ story'[t] \in Endings
        \/ story[t] = "accepted" /\ story'[t] = "running" /\ live' = live
    BY <1>0, <2>2, ChangedTurn
  <2>5. Whole'
    BY <1>0, <2>3, <2>4 DEF Whole, Endings
  <2>6. Attended'
    <3>1. SUFFICES ASSUME NEW u \in Turns, story'[u] \in {"accepted", "running"}
                   PROVE  \E j \in Identities : <<u, j>> \in live'
      BY <2>1 DEF Attended
    <3>2. CASE u = t
      BY <2>4, <3>1, <3>2, <1>0, <2>1 DEF Endings, Attended
    <3>3. CASE u # t
      <4>1. PICK j \in Identities : <<u, j>> \in live
        BY <1>0, <2>1, <2>3, <3>1, <3>3 DEF Attended
      <4>2. <<u, j>> \in live'
        BY <2>2, <3>3, <4>1
      <4> QED
        BY <4>2
    <3> QED
      BY <3>2, <3>3
  <2> QED
    BY <2>1, <2>5, <2>6 DEF Closing, Alone, Visited
<1>5. ASSUME NEW i \in Identities, Visit(i)
      PROVE  Closing'
  <2>1. UNCHANGED <<story, live, phase>> /\ todo' = todo \ {i}
    BY <1>5 DEF Visit, VisitOpen, VisitPending, disk
  <2>2. Whole' /\ Attended' /\ Alone'
    BY <1>0, <2>1 DEF Whole, Attended, Alone
  <2>3. Visited'
    <3>1. SUFFICES ASSUME phase = "closing", NEW j \in Identities, j \notin todo'
                   PROVE  ClosedRow(j)'
      BY <2>1 DEF Visited
    <3>2. CASE VisitOpen(j)
      BY <3>1, <3>2, VisitCloses
    <3>3. CASE ~VisitOpen(j) /\ j \notin todo
      BY <2>1, <3>1, <3>3, StillVisited
    <3>4. CASE ~VisitOpen(j) /\ j \in todo
      BY <1>5, <2>1, <3>1, <3>4 DEF Visit, VisitPending, disk, ClosedRow, Open
    <3> QED
      BY <3>2, <3>3, <3>4
  <2> QED
    BY <2>2, <2>3 DEF Closing
<1>6. CASE BeginPass
  BY <1>6, <1>0 DEF BeginPass, disk, Closing, Whole, Attended, Alone, Visited
<1>7. ASSUME story' = Recovered
      PROVE  /\ Whole' /\ \A t \in Turns : story'[t] \notin {"accepted", "running"}
             /\ \A t \in Turns : story[t] = "none" => story'[t] = "none"
  BY <1>0, <1>7 DEF Whole, Recovered, TypeOK, Stories, Endings
<1>8. CASE Start
  BY <1>8, <1>0, <1>7 DEF Start, Closing, Attended, Alone, Visited
<1>9. CASE Intrude
  <2>1. story' = Recovered /\ UNCHANGED <<receipt, live, phase, todo>>
    BY <1>9 DEF Intrude
  <2>2. ~\E i \in Identities : VisitOpen(i)
    BY <1>9 DEF VisitOpen, Intrude
  <2>3. Visited'
    <3>1. SUFFICES ASSUME phase = "closing", NEW i \in Identities, i \notin todo
                   PROVE  ClosedRow(i)'
      BY <2>1 DEF Visited
    <3> QED
      BY <1>7, <2>1, <2>2, <3>1, StillVisited
  <2> QED
    BY <1>0, <1>7, <2>1, <2>3 DEF Closing, Attended, Alone
<1>10. CASE OpenIntake \/ BeginStop \/ Exit
  <2>1. UNCHANGED <<story, live>>
        /\ \/ phase = "starting" /\ phase' = "serving"
           \/ phase = "serving" /\ phase' = "stopping"
           \/ phase = "closing" /\ phase' = "down"
    BY <1>10 DEF OpenIntake, BeginStop, Exit, disk
  <2> QED
    BY <1>0, <2>1 DEF Closing, Whole, Attended, Alone, Visited
<1>11. CASE Crash
  BY <1>11, <1>0 DEF Crash, disk, Closing, Whole, Attended, Alone, Visited
<1>12. CASE FinalPass
  <2>1. /\ UNCHANGED <<receipt, story, live>> /\ phase = "stopping" /\ phase' = "closing"
        /\ live = {} /\ todo' = Unsettled
    BY <1>12 DEF FinalPass, disk
  <2>2. Whole' /\ Attended' /\ Alone'
    BY <1>0, <2>1 DEF Whole, Attended, Alone
  <2>3. Visited'
    BY <2>1 DEF Visited, ClosedRow, Open, Unsettled
  <2> QED
    BY <2>2, <2>3 DEF Closing
<1>13. ~SubmitRaises /\ ~SendFails /\ ~WriteFails
  BY DEF SubmitRaises, SendFails, WriteFails
<1>14. \/ UNCHANGED <<story, live, phase, todo>> \/ SubmitTurn \/ TurnStep \/ BeginPass
       \/ \E i \in Identities : Visit(i)
       \/ Start \/ Intrude \/ OpenIntake \/ BeginStop \/ Exit \/ Crash \/ FinalPass
  BY <1>13 DEF Next, PollStep, PassStep, PollOf, PollRefused, PollNew, PollKnown, MarkRunning,
     MoveFile, Attempt, Send, Acknowledge, Elapse, Retry
<1> QED
  BY <1>2, <1>3, <1>4, <1>5, <1>6, <1>8, <1>9, <1>10, <1>11, <1>12, <1>14 DEF TurnStep

(* A gateway that stops in order, with writes that work, leaves no receipt *)
(* behind whose turn it took.                                              *)
THEOREM StopsInOrder == Spec => OrderlyStopSettles
<1> DEFINE A == ~WriteFaults /\ Exit =>
                  \A i \in Identities : receipt[i].status \notin {"reserved", "running"}
                                          \/ story[receipt[i].turn] = "none"
<1>1. Init => Closing
  BY DEF Init, Closing, Whole, Attended, Alone, Visited
<1>2. Inv /\ Closing /\ [Next]_vars => Closing'
  BY ClosingHolds
<1>3. Inv /\ Closing /\ [Next]_vars => [A]_vars
  BY DEF Closing, Visited, ClosedRow, Open, TurnOf, Exit
<1>4. Inv /\ Closing /\ [][Next]_vars /\ []Inv => [][A]_vars
  BY <1>2, <1>3, PTL
<1> QED
  BY <1>1, <1>2, <1>3, InvAlways, PTL DEF Spec, OrderlyStopSettles
=============================================================================
