--------------------------- MODULE ApprovalProofs ---------------------------
(***************************************************************************)
(* Proofs about what is approved, and on what grounds.  StrategyDeployment, *)
(* for any operators, candidates, routes and tokens and a ledger of any    *)
(* length: what operators know of the ledger while they hold the lock is   *)
(* the heart of the invariant, as nobody appends between their reading it  *)
(* and their own append.  TerminalRpc, for any turns, requests and         *)
(* settings: whose thread waits for which request, and which verdict the   *)
(* client was told.  TrialGateway, for any limits and whatever the worker  *)
(* writes: what the loop knows of the channel at each of its places.       *)
(* CandidateEvidence, for any hosts, candidates, runs and prices: what a   *)
(* host knows of a candidate's evidence while it holds its lock, and what  *)
(* the ledger has committed, as totals over the candidates that are        *)
(* reserved.                                                               *)
(***************************************************************************)
EXTENDS MCEvolver, TerminalRpc, QueueLemmas, FiniteSetTheorems

-----------------------------------------------------------------------------
(* StrategyDeployment: the inductive invariant.                            *)

Numbers == Nat \cup Tokens
Entries == [type : {"confirmed", "activated", "rollback"}, cand : Strategies,
            label : Labels \cup {noEvent}, event : Numbers]
Locked == {"confirm", "evidence", "activate", "rollback"}
Doings == [at : Locked \cup {"rest", "start", "run"}, cand : Strategies \cup {noEvent},
           label : Labels \cup {noEvent}, event : Numbers]

\* Whoever confirms, activates or rolls back holds the lock over it.
DeployShape ==
  /\ dlog \in Seq(Entries) /\ dlock \in Operators \cup {noEvent}
  /\ operator \in [Operators -> Doings]
  /\ tasks \in Seq([source : Nat, status : {"started", "completed", "failed"}])
  /\ \A o \in Operators : /\ operator[o].at \in Locked => dlock = o
                          /\ operator[o].at = "rest" => operator[o] = AtRest

\* An entry refers to an activation before it, or to none.
Activation(e, i) == e = 0 \/ (e \in Events("activated") /\ e < i)
LedgerRefersBack ==
  \A i \in DOMAIN dlog :
    /\ dlog[i].type = "confirmed" => dlog[i].event \in Tokens
    /\ dlog[i].type # "confirmed" => Activation(dlog[i].event, i)
    /\ dlog[i].type = "activated" => dlog[i].label = LabelOf[dlog[i].cand]

\* A confirmation of the candidate that nothing was activated on.
Fresh(c) ==
  \E i \in Events("confirmed") \cap Of(c) : \A j \in Events("activated") \cap Of(c) : j < i

\* Between reading the ledger and appending to it.
Knows(o) ==
  LET at == operator[o].at  c == operator[o].cand
      l == operator[o].label  e == operator[o].event
  IN /\ at \in Locked => c \in Strategies /\ l \in Labels
     /\ at = "confirm" => e \in Tokens
     /\ at \in {"confirm", "evidence", "activate"} => OthersAtRest(l)
     /\ at \in {"evidence", "activate"} => Fresh(c)
     /\ at = "activate" => l = LabelOf[c]
     /\ at \in {"activate", "rollback"} => e = Resolve(l)
     /\ at = "rollback" => e \in Events("activated")
     /\ at = "start" => e = 0 \/ e \in Events("activated")
     /\ at = "run" => e \in DOMAIN tasks
OperatorsKnow == \A o \in Operators : Knows(o)

TokensConfirmOnce ==
  \A i, j \in Events("confirmed") : dlog[i].event = dlog[j].event => i = j

\* As long as a confirmation is unspent, one more has been confirmed than activated.
Confirmations(c) == Cardinality(Events("confirmed") \cap Of(c))
Activations(c) == Cardinality(Events("activated") \cap Of(c))
ApprovalsCover ==
  \A c \in Strategies :
    Activations(c) <= Confirmations(c) /\ (Fresh(c) => Activations(c) < Confirmations(c))

TasksKnow ==
  \A k \in DOMAIN tasks : tasks[k].source = 0 \/ tasks[k].source \in Events("activated")

DeployInvariant ==
  /\ DeployShape /\ LedgerRefersBack /\ OperatorsKnow /\ TokensConfirmOnce
  /\ ApprovalsCover /\ TasksKnow

-----------------------------------------------------------------------------
(* The replay of the ledger.                                               *)

LEMMA ElementOfSequence ==
  ASSUME NEW S, NEW q \in Seq(S), NEW n \in DOMAIN q
  PROVE  q[n] \in S
OBVIOUS

(* A sequence with one element replaced.                                   *)
LEMMA ReplaceInSequence ==
  ASSUME NEW S, NEW q \in Seq(S), NEW n \in DOMAIN q, NEW x \in S
  PROVE  [q EXCEPT ![n] = x] \in Seq(S) /\ DOMAIN [q EXCEPT ![n] = x] = DOMAIN q
OBVIOUS

LEMMA EventsAreBounded ==
  ASSUME DeployShape, NEW type
  PROVE  /\ Len(dlog) \in Nat /\ DOMAIN dlog = 1..Len(dlog)
         /\ Events(type) \subseteq 1..Len(dlog)
         /\ \A c : IsFiniteSet(Events(type) \cap Of(c))
                   /\ Cardinality(Events(type) \cap Of(c)) \in Nat
<1>1. Len(dlog) \in Nat /\ DOMAIN dlog = 1..Len(dlog) BY DEF DeployShape
<1>2. Events(type) \subseteq 1..Len(dlog) BY <1>1 DEF Events
<1>3. IsFiniteSet(1..Len(dlog)) BY <1>1, FS_Interval
<1>4. \A c : IsFiniteSet(Events(type) \cap Of(c))
  <2> TAKE c
  <2>1. Events(type) \cap Of(c) \subseteq 1..Len(dlog) BY <1>2
  <2> QED BY <1>3, <2>1, FS_Subset
<1> QED BY <1>1, <1>2, <1>4, FS_CardinalityType

LEMMA NewestIsGreatest ==
  ASSUME DeployShape, NEW S, S \subseteq 1..Len(dlog), S # {}
  PROVE  Newest(S) \in S /\ \A j \in S : j <= Newest(S)
<1>1. \E i \in S : \A j \in S : j <= i BY GreatestExists, EventsAreBounded
<1> QED BY <1>1 DEF Newest

Moves(l) == {i \in Events("activated") \cup Events("rollback") : dlog[i].label = l}

LEMMA ResolveCases ==
  ASSUME NEW l
  PROVE  /\ Moves(l) = {} => Resolve(l) = 0
         /\ Moves(l) # {} =>
              Resolve(l) = IF dlog[Newest(Moves(l))].type = "activated"
                           THEN Newest(Moves(l)) ELSE dlog[Newest(Moves(l))].event
  BY DEF Resolve, Moves

LEMMA ResolveIsAnActivation ==
  ASSUME DeployShape, LedgerRefersBack, NEW l
  PROVE  /\ Resolve(l) \in Nat
         /\ Resolve(l) = 0 \/ Resolve(l) \in Events("activated")
<1>1. CASE Moves(l) = {} BY <1>1, ResolveCases
<1>2. CASE Moves(l) # {}
  <2>1. Moves(l) \subseteq 1..Len(dlog) BY EventsAreBounded DEF Moves
  <2>2. PICK i \in Moves(l) : i = Newest(Moves(l))
    BY <1>2, <2>1, NewestIsGreatest
  <2>3. /\ i \in DOMAIN dlog /\ i \in Nat
        /\ dlog[i].type = "activated" => i \in Events("activated")
        /\ dlog[i].type \in {"activated", "rollback"}
    BY <2>1, EventsAreBounded DEF Moves, Events
  <2>4. dlog[i].type = "rollback" => Activation(dlog[i].event, i)
    BY <2>3 DEF LedgerRefersBack
  <2>5. Resolve(l) = IF dlog[i].type = "activated" THEN i ELSE dlog[i].event
    BY <1>2, <2>2, ResolveCases
  <2>6. Events("activated") \subseteq Nat BY EventsAreBounded
  <2> QED BY <2>3, <2>4, <2>5, <2>6 DEF Activation
<1> QED BY <1>1, <1>2

(* The ledger after an entry was appended to it.                           *)
Grown(type, c, l, e) ==
  /\ dlog' \in Seq(Entries) /\ DOMAIN dlog' = 1..(Len(dlog) + 1)
  /\ Len(dlog) \in Nat /\ DOMAIN dlog = 1..Len(dlog)
  /\ \A i \in DOMAIN dlog : i \in DOMAIN dlog' /\ dlog'[i] = dlog[i]
  /\ Len(dlog) + 1 \notin DOMAIN dlog /\ Len(dlog') = Len(dlog) + 1
  /\ dlog'[Len(dlog) + 1] = [type |-> type, cand |-> c, label |-> l, event |-> e]
  /\ \A t : Events(t)' = Events(t) \cup (IF t = type THEN {Len(dlog) + 1} ELSE {})
  /\ \A d : Of(d)' = Of(d) \cup (IF d = c THEN {Len(dlog) + 1} ELSE {})

LEMMA RecordGrows ==
  ASSUME DeployShape, NEW type \in {"confirmed", "activated", "rollback"},
         NEW c \in Strategies, NEW l \in Labels \cup {noEvent}, NEW e \in Numbers,
         Record(type, c, l, e)
  PROVE  Grown(type, c, l, e)
<1> DEFINE entry == [type |-> type, cand |-> c, label |-> l, event |-> e]
<1>1. entry \in Entries /\ entry.type = type /\ entry.cand = c BY DEF Entries
<1>2. dlog \in Seq(Entries) /\ dlog' = Append(dlog, entry)
  BY DEF DeployShape, Record
<1> HIDE DEF entry
<1>3. /\ dlog' \in Seq(Entries) /\ Len(dlog') = Len(dlog) + 1 /\ Len(dlog) \in Nat
      /\ DOMAIN dlog' = 1..(Len(dlog) + 1) /\ DOMAIN dlog = 1..Len(dlog)
      /\ \A i \in DOMAIN dlog : dlog'[i] = dlog[i]
      /\ dlog'[Len(dlog) + 1] = entry
  BY <1>1, <1>2
<1>4. \A t : Events(t)' = Events(t) \cup (IF t = type THEN {Len(dlog) + 1} ELSE {})
  BY <1>1, <1>3 DEF Events
<1>5. \A d : Of(d)' = Of(d) \cup (IF d = c THEN {Len(dlog) + 1} ELSE {})
  BY <1>1, <1>3 DEF Of
<1> QED BY <1>3, <1>4, <1>5 DEF entry, Grown

LEMMA LedgerIsKept ==
  ASSUME UNCHANGED dlog
  PROVE  /\ \A t : Events(t)' = Events(t)
         /\ \A c : Of(c)' = Of(c) /\ (Fresh(c)' <=> Fresh(c))
         /\ \A l : Resolve(l)' = Resolve(l) /\ (OthersAtRest(l)' <=> OthersAtRest(l))
<1>1. \A t : Events(t)' = Events(t) BY DEF Events
<1>2. \A c : Of(c)' = Of(c) /\ (Fresh(c)' <=> Fresh(c)) BY <1>1 DEF Of, Fresh
<1>3. \A l : Moves(l)' = Moves(l) BY <1>1 DEF Moves
<1>4. \A l : Resolve(l)' = Resolve(l)
  BY <1>3, ResolveCases DEF Resolve, Newest, Events
<1> QED BY <1>1, <1>2, <1>4 DEF OthersAtRest

(* A confirmation changes nothing of what is in use.                       *)
LEMMA ConfirmationKeepsResolve ==
  ASSUME DeployShape, NEW c \in Strategies, NEW e \in Numbers,
         Record("confirmed", c, noEvent, e), NEW l
  PROVE  Resolve(l)' = Resolve(l)
<1>0. Grown("confirmed", c, noEvent, e) BY RecordGrows
<1>1. Moves(l)' = Moves(l) BY <1>0 DEF Grown, Moves, Events
<1>2. Moves(l) # {} => Newest(Moves(l)) \in DOMAIN dlog
  BY NewestIsGreatest, EventsAreBounded DEF Moves
<1>3. /\ Moves(l)' = {} => Resolve(l)' = 0
      /\ Moves(l)' # {} =>
           Resolve(l)' = IF dlog'[Newest(Moves(l)')].type = "activated"
                         THEN Newest(Moves(l)') ELSE dlog'[Newest(Moves(l)')].event
  BY DEF Resolve, Moves
<1> QED BY <1>0, <1>1, <1>2, <1>3, ResolveCases DEF Grown

(* The last entry of a label decides what is in use of it.                 *)
LEMMA MoveDecides ==
  ASSUME DeployShape, NEW type \in {"activated", "rollback"}, NEW c \in Strategies,
         NEW k \in Labels, NEW e \in Numbers, Record(type, c, k, e), NEW l
  PROVE  Resolve(l)' = IF l # k THEN Resolve(l)
                       ELSE IF type = "activated" THEN Len(dlog) + 1 ELSE e
<1>0. Grown(type, c, k, e) BY RecordGrows
<1>1. Moves(l)' = Moves(l) \cup (IF l = k THEN {Len(dlog) + 1} ELSE {})
  BY <1>0 DEF Grown, Moves, Events
<1>2. Moves(l) # {} => Newest(Moves(l)) \in DOMAIN dlog
  BY NewestIsGreatest, EventsAreBounded DEF Moves
<1>3. /\ Moves(l)' = {} => Resolve(l)' = 0
      /\ Moves(l)' # {} =>
           Resolve(l)' = IF dlog'[Newest(Moves(l)')].type = "activated"
                         THEN Newest(Moves(l)') ELSE dlog'[Newest(Moves(l)')].event
  BY DEF Resolve, Moves
<1>4. CASE l # k BY <1>0, <1>1, <1>2, <1>3, <1>4, ResolveCases DEF Grown
<1>5. CASE l = k
  BY <1>1, <1>5, <1>0, <1>3, EventsAreBounded DEF Moves, Newest, Grown
<1> QED BY <1>4, <1>5

-----------------------------------------------------------------------------
(* The steps.                                                              *)

LEMMA DeployStarts ==
  ASSUME DeployInit
  PROVE  DeployInvariant
<1> USE DEF DeployInit
<1>1. DOMAIN dlog = {} /\ DOMAIN tasks = {} /\ \A t : Events(t) = {}
  BY DEF Events
<1>2. DeployShape BY DEF DeployShape, AtRest, Doings, Locked, Numbers
<1>3. OperatorsKnow BY DEF OperatorsKnow, Knows, AtRest, Locked
<1>4. \A c : ~Fresh(c) /\ Events("confirmed") \cap Of(c) = {}
             /\ Events("activated") \cap Of(c) = {}
  BY <1>1 DEF Fresh
<1>5. \A c : Activations(c) = 0 /\ Confirmations(c) = 0
  BY <1>4, FS_EmptySet DEF Activations, Confirmations
<1>6. ApprovalsCover BY <1>4, <1>5 DEF ApprovalsCover
<1> QED
  BY <1>1, <1>2, <1>3, <1>6 DEF DeployInvariant, LedgerRefersBack, TokensConfirmOnce, TasksKnow

(* A step that appends nothing keeps what is said of the ledger, and what  *)
(* an operator knows that it does not move.                                *)
LEMMA QuietStep ==
  ASSUME DeployInvariant, UNCHANGED dlog
  PROVE  /\ LedgerRefersBack' /\ TokensConfirmOnce' /\ ApprovalsCover'
         /\ UNCHANGED tasks => TasksKnow'
         /\ \A o \in Operators :
              operator'[o] = operator[o] /\ DOMAIN tasks \subseteq DOMAIN tasks' => Knows(o)'
<1>1. LedgerRefersBack'
  BY LedgerIsKept DEF DeployInvariant, LedgerRefersBack, Activation
<1>2. TokensConfirmOnce' BY LedgerIsKept DEF DeployInvariant, TokensConfirmOnce
<1>3. ApprovalsCover'
  BY LedgerIsKept DEF DeployInvariant, ApprovalsCover, Activations, Confirmations
<1>4. UNCHANGED tasks => TasksKnow'
  BY LedgerIsKept DEF DeployInvariant, TasksKnow
<1>5. \A o \in Operators :
        operator'[o] = operator[o] /\ DOMAIN tasks \subseteq DOMAIN tasks' => Knows(o)'
  BY LedgerIsKept DEF DeployInvariant, OperatorsKnow, Knows
<1> QED BY <1>1, <1>2, <1>3, <1>4, <1>5

(* An operator that takes the lock has read a ledger nobody else is about  *)
(* to append to.                                                           *)
Begins(o, to) ==
  /\ UNCHANGED <<dlog, tasks, stops>> /\ operator[o] = AtRest
  /\ operator' = [operator EXCEPT ![o] = to] /\ to \in Doings
  /\ IF to.at \in Locked THEN Lock(o) ELSE to.at # "rest" /\ UNCHANGED dlock

LEMMA BeginKeeps ==
  ASSUME DeployInvariant, NEW o \in Operators, NEW to, Begins(o, to), Knows(o)'
  PROVE  DeployInvariant'
<1>1. DeployShape' BY DeploymentAssumption
     DEF Begins, DeployInvariant, DeployShape, Lock, Unlocked, AtRest, Locked
<1>2. OperatorsKnow'
  <2> SUFFICES ASSUME NEW p \in Operators, p # o
               PROVE  Knows(p)'
    BY DEF OperatorsKnow
  <2>1. operator'[p] = operator[p] BY DEF Begins, DeployInvariant, DeployShape
  <2> QED BY <2>1, QuietStep DEF Begins
<1> QED BY <1>1, <1>2, QuietStep DEF DeployInvariant, Begins

LEMMA BeginningsKeep ==
  ASSUME DeployInvariant, NEW o \in Operators, NEW l \in Labels,
         \/ \E t \in Tokens : Approve(o, t, l)
         \/ \E c \in Strategies : ActivateConfirmed(o, c, l)
         \/ ReadCurrent(o, l) \/ PinSource(o, l)
  PROVE  DeployInvariant'
<1> USE DEF DeployInvariant
<1>0. Resolve(l) \in Nat /\ (Resolve(l) = 0 \/ Resolve(l) \in Events("activated"))
  BY ResolveIsAnActivation
<1>1. ASSUME NEW t \in Tokens, Approve(o, t, l)
      PROVE  DeployInvariant'
  <2> DEFINE to == [at |-> "confirm", cand |-> TokenOf[t], label |-> l, event |-> t]
  <2>1. Begins(o, to) /\ TokenOf[t] \in Strategies
    BY <1>1, DeploymentAssumption DEF Approve, Begins, Doings, Locked, Numbers
  <2>2. operator'[o] = to BY <2>1 DEF Begins, DeployShape
  <2>3. Knows(o)' BY <1>1, <2>1, <2>2, LedgerIsKept DEF Knows, Approve, Locked
  <2> QED BY <2>1, <2>3, BeginKeeps
<1>2. ASSUME NEW c \in Strategies, ActivateConfirmed(o, c, l)
      PROVE  DeployInvariant'
  <2> DEFINE to == [at |-> "evidence", cand |-> c, label |-> l, event |-> 0]
  <2>1. Begins(o, to)
    BY <1>2 DEF ActivateConfirmed, Begins, Doings, Locked, Numbers
  <2>2. operator'[o] = to BY <2>1 DEF Begins, DeployShape
  <2>3. Fresh(c)
    BY <1>2, EventsAreBounded, NewestIsGreatest DEF ActivateConfirmed, Unspent, Fresh
  <2>4. Knows(o)'
    BY <1>2, <2>2, <2>3, LedgerIsKept DEF Knows, ActivateConfirmed, Locked
  <2> QED BY <2>1, <2>4, BeginKeeps
<1>3. ASSUME ReadCurrent(o, l)
      PROVE  DeployInvariant'
  <2> DEFINE to == [at |-> "rollback", cand |-> dlog[Resolve(l)].cand, label |-> l,
                    event |-> Resolve(l)]
  <2>0. Resolve(l) \in Events("activated") /\ dlog[Resolve(l)].cand \in Strategies
    <3>1. Resolve(l) \in Events("activated") /\ Resolve(l) \in DOMAIN dlog
      BY <1>0, <1>3 DEF ReadCurrent, Events
    <3>2. dlog[Resolve(l)] \in Entries BY <3>1 DEF DeployShape
    <3> QED BY <3>1, <3>2 DEF Entries
  <2>1. Begins(o, to)
    BY <1>0, <1>3, <2>0 DEF ReadCurrent, Begins, Doings, Locked, Numbers
  <2>2. operator'[o] = to BY <2>1 DEF Begins, DeployShape
  <2>3. Knows(o)'
    BY <1>3, <2>0, <2>2, LedgerIsKept DEF Knows, ReadCurrent, Locked
  <2> QED BY <2>1, <2>3, BeginKeeps
<1>4. ASSUME PinSource(o, l)
      PROVE  DeployInvariant'
  <2> DEFINE to == [at |-> "start", cand |-> noEvent, label |-> l, event |-> Resolve(l)]
  <2>1. Begins(o, to)
    BY <1>0, <1>4 DEF PinSource, Begins, Doings, Locked, Numbers
  <2>2. operator'[o] = to BY <2>1 DEF Begins, DeployShape
  <2>3. Knows(o)' BY <1>0, <1>4, <2>2, LedgerIsKept DEF Knows, PinSource, Locked
  <2> QED BY <2>1, <2>3, BeginKeeps
<1> QED BY <1>1, <1>2, <1>3, <1>4

(* The holder's append, of whatever kind, leaves the others with what they *)
(* know: none of them is between a reading and an append of its own.       *)
LEMMA AppendKeepsOthers ==
  ASSUME DeployInvariant, NEW o \in Operators, operator[o].at \in Locked,
         NEW type, NEW c, NEW l, NEW e, Grown(type, c, l, e), UNCHANGED tasks
  PROVE  /\ TasksKnow'
         /\ \A p \in Operators : operator'[p] = operator[p] /\ p # o => Knows(p)'
<1>1. Events("activated") \subseteq Events("activated")' BY DEF Grown
<1>2. TasksKnow' BY <1>1 DEF TasksKnow, DeployInvariant
<1>3. ASSUME NEW p \in Operators, operator'[p] = operator[p], p # o
      PROVE  Knows(p)'
  BY <1>3, <1>1 DEF DeployInvariant, DeployShape, OperatorsKnow, Knows, Locked
<1> QED BY <1>2, <1>3

(* The candidates' counts after an entry was appended.                     *)
LEMMA CountsGrow ==
  ASSUME DeployInvariant, NEW type, NEW c, NEW l, NEW e, Grown(type, c, l, e), NEW d
  PROVE  /\ Activations(d) \in Nat /\ Confirmations(d) \in Nat
         /\ Activations(d)' = Activations(d)
                              + (IF d = c /\ type = "activated" THEN 1 ELSE 0)
         /\ Confirmations(d)' = Confirmations(d)
                                + (IF d = c /\ type = "confirmed" THEN 1 ELSE 0)
<1> DEFINE last == Len(dlog) + 1
<1>1. ASSUME NEW t
      PROVE  Cardinality(Events(t) \cap Of(d))'
               = Cardinality(Events(t) \cap Of(d)) + (IF d = c /\ type = t THEN 1 ELSE 0)
  <2>1. (Events(t) \cap Of(d))'
          = (Events(t) \cap Of(d)) \cup (IF d = c /\ type = t THEN {last} ELSE {})
    BY DEF Grown, Events, Of
  <2>2. last \notin Events(t) \cap Of(d) BY DEF Grown, Events
  <2>3. IsFiniteSet(Events(t) \cap Of(d)) /\ Cardinality(Events(t) \cap Of(d)) \in Nat
    BY EventsAreBounded DEF DeployInvariant
  <2>4. Cardinality((Events(t) \cap Of(d)) \cup {last}) = Cardinality(Events(t) \cap Of(d)) + 1
    BY <2>2, <2>3, FS_AddElement
  <2>5. CASE d = c /\ type = t BY <2>1, <2>4, <2>5
  <2>6. CASE ~(d = c /\ type = t)
    <3>1. (Events(t) \cap Of(d))' = Events(t) \cap Of(d) BY <2>1, <2>6
    <3> QED BY <2>3, <2>6, <3>1
  <2> QED BY <2>5, <2>6
<1>2. Activations(d) \in Nat /\ Confirmations(d) \in Nat
  BY EventsAreBounded DEF Activations, Confirmations, DeployInvariant
<1>3. /\ Activations(d)' = Activations(d) + (IF d = c /\ type = "activated" THEN 1 ELSE 0)
      /\ Confirmations(d)' = Confirmations(d) + (IF d = c /\ type = "confirmed" THEN 1 ELSE 0)
  BY <1>1 DEF Activations, Confirmations
<1> QED BY <1>2, <1>3

LEMMA ConfirmKeeps ==
  ASSUME DeployInvariant, NEW o \in Operators, operator[o].at = "confirm",
         ~Confirmed(operator[o].event),
         Record("confirmed", operator[o].cand, noEvent, operator[o].event),
         operator' = [operator EXCEPT ![o].at = "evidence", ![o].event = 0],
         UNCHANGED <<dlock, tasks>>
  PROVE  DeployInvariant'
<1> DEFINE last == Len(dlog) + 1
<1> USE DEF DeployInvariant
<1>0. PICK c, t : c = operator[o].cand /\ t = operator[o].event OBVIOUS
<1>1. c \in Strategies /\ t \in Tokens /\ Knows(o)
  BY <1>0 DEF OperatorsKnow, Knows, Locked
<1>2. Grown("confirmed", c, noEvent, t) BY <1>0, <1>1, RecordGrows DEF Numbers
<1>3. DeployShape'
  <2>1. dlog' \in Seq(Entries) BY <1>2 DEF Grown
  <2>2. /\ operator' \in [Operators -> Doings] /\ dlock = o
        /\ operator'[o].at = "evidence" /\ \A p \in Operators \ {o} : operator'[p] = operator[p]
    BY DEF DeployShape, Doings, Locked, Numbers
  <2> QED BY <2>1, <2>2 DEF DeployShape
<1>4. LedgerRefersBack' BY <1>1, <1>2 DEF LedgerRefersBack, Grown, Activation
<1>5. \A p \in Operators : p # o => Knows(p)'
  BY <1>2, AppendKeepsOthers DEF Locked, DeployShape
<1>6. Fresh(c)' BY <1>2 DEF Grown, Events, Fresh
<1>7. Knows(o)'
  <2>1. \A k : Resolve(k)' = Resolve(k)
    BY <1>0, <1>1, ConfirmationKeepsResolve DEF Numbers
  <2>2. \A l : OthersAtRest(l)' <=> OthersAtRest(l) BY <2>1 DEF OthersAtRest
  <2>3. /\ operator'[o].at = "evidence" /\ operator'[o].cand = c
        /\ operator'[o].label = operator[o].label
    BY <1>0 DEF DeployShape, Doings
  <2> QED BY <1>1, <1>6, <2>2, <2>3 DEF Knows, Locked
<1>8. TokensConfirmOnce'
  BY <1>0, <1>2 DEF TokensConfirmOnce, Grown, Confirmed, Events
<1>9. ApprovalsCover'
  <2> SUFFICES ASSUME NEW d \in Strategies
               PROVE  Activations(d)' <= Confirmations(d)'
                      /\ (Fresh(d)' => Activations(d)' < Confirmations(d)')
    BY DEF ApprovalsCover
  <2>1. /\ Activations(d) \in Nat /\ Confirmations(d) \in Nat
        /\ Activations(d)' = Activations(d)
        /\ Confirmations(d)' = Confirmations(d) + (IF d = c THEN 1 ELSE 0)
    BY <1>2, CountsGrow
  <2>2. d # c => (Fresh(d)' <=> Fresh(d)) BY <1>2 DEF Grown, Of, Fresh
  <2>3. Activations(d) <= Confirmations(d) /\ (Fresh(d) => Activations(d) < Confirmations(d))
    BY DEF ApprovalsCover
  <2> QED BY <2>1, <2>2, <2>3
<1>10. TasksKnow' BY <1>0, <1>2, AppendKeepsOthers DEF Locked
<1> QED BY <1>3, <1>4, <1>5, <1>7, <1>8, <1>9, <1>10 DEF OperatorsKnow

(* A move of a route, either way: the entry refers back to what was in use *)
(* or before it, and the holder rests.                                     *)
LEMMA MoveKeeps ==
  ASSUME DeployInvariant, NEW o \in Operators, operator[o].at \in Locked,
         NEW type \in {"activated", "rollback"}, NEW c \in Strategies, NEW l \in Labels,
         NEW e \in Nat, Record(type, c, l, e), Rest(o), UNCHANGED tasks,
         e = 0 \/ e \in Events("activated"),
         type = "activated" => l = LabelOf[c] /\ Fresh(c)
  PROVE  DeployInvariant'
<1> DEFINE last == Len(dlog) + 1
<1> USE DEF DeployInvariant
<1>1. Grown(type, c, l, e) BY RecordGrows DEF Numbers
<1>2. DeployShape'
  BY <1>1, DeploymentAssumption DEF Grown, Rest, DeployShape, Doings, Locked, Numbers, AtRest
<1>3. LedgerRefersBack'
  <2>1. e < last BY EventsAreBounded
  <2>2. \A i \in DOMAIN dlog' : i \in DOMAIN dlog \/ i = last BY <1>1 DEF Grown
  <2>3. \A i \in DOMAIN dlog : dlog'[i] = dlog[i] BY <1>1 DEF Grown
  <2>4. Events("activated") \subseteq Events("activated")' BY <1>1 DEF Grown
  <2>5. dlog'[last] = [type |-> type, cand |-> c, label |-> l, event |-> e]
    BY <1>1 DEF Grown
  <2> HIDE DEF last
  <2> QED BY <2>1, <2>2, <2>3, <2>4, <2>5 DEF LedgerRefersBack, Activation
<1>4. OperatorsKnow'
  BY <1>1, AppendKeepsOthers DEF Rest, DeployShape, Knows, AtRest, Locked, OperatorsKnow
<1>5. TokensConfirmOnce' BY <1>1 DEF TokensConfirmOnce, Grown, Events
<1>6. ApprovalsCover'
  <2> SUFFICES ASSUME NEW d \in Strategies
               PROVE  Activations(d)' <= Confirmations(d)'
                      /\ (Fresh(d)' => Activations(d)' < Confirmations(d)')
    BY DEF ApprovalsCover
  <2>1. /\ Activations(d) \in Nat /\ Confirmations(d) \in Nat
        /\ Activations(d)' = Activations(d)
                             + (IF d = c /\ type = "activated" THEN 1 ELSE 0)
        /\ Confirmations(d)' = Confirmations(d)
    BY <1>1, CountsGrow
  <2>2. Activations(d) <= Confirmations(d) /\ (Fresh(d) => Activations(d) < Confirmations(d))
    BY DEF ApprovalsCover
  <2>3. Events("confirmed")' \cap Of(d)' = Events("confirmed") \cap Of(d)
    BY <1>1 DEF Grown, Events, Of
  <2>4. CASE d = c /\ type = "activated"
    <3>1. Events("activated")' = Events("activated") \cup {last} /\ Of(d)' = Of(d) \cup {last}
      BY <1>1, <2>4 DEF Grown
    <3>2. \A i \in Events("confirmed") : i < last BY EventsAreBounded
    <3>3. ~Fresh(d)'
      <4>1. last \in Events("activated")' \cap Of(d)' /\ last \in Nat
        BY <3>1, EventsAreBounded
      <4>2. \A i \in Events("confirmed")' \cap Of(d)' : i \in Nat /\ i < last
        BY <2>3, <3>2, EventsAreBounded
      <4> HIDE DEF last
      <4> QED BY <4>1, <4>2 DEF Fresh
    <3> QED BY <2>1, <2>2, <2>4, <3>3
  <2>5. CASE ~(d = c /\ type = "activated")
    BY <1>1, <2>5, <2>3, <2>1, <2>2 DEF Grown, Events, Of, Fresh
  <2> QED BY <2>4, <2>5
<1>7. TasksKnow' BY <1>1, AppendKeepsOthers
<1> QED BY <1>2, <1>3, <1>4, <1>5, <1>6, <1>7

LEMMA AppendsKeep ==
  ASSUME DeployInvariant, NEW o \in Operators, AppendActivation(o) \/ AppendRollback(o)
  PROVE  DeployInvariant'
<1> USE DEF DeployInvariant
<1>0. PICK c, l, e : c = operator[o].cand /\ l = operator[o].label /\ e = operator[o].event
  OBVIOUS
<1>1. operator[o].at \in Locked /\ Knows(o) /\ c \in Strategies /\ l \in Labels
  BY <1>0 DEF AppendActivation, AppendRollback, OperatorsKnow, Knows, Locked
<1>2. e = Resolve(l) /\ e \in Nat /\ (e = 0 \/ e \in Events("activated"))
  BY <1>0, <1>1, ResolveIsAnActivation DEF AppendActivation, AppendRollback, Knows
<1>3. CASE AppendActivation(o)
  BY <1>0, <1>1, <1>3, <1>2, MoveKeeps DEF Knows, AppendActivation
<1>4. CASE AppendRollback(o)
  <2>1. e \in Events("activated") /\ e \in DOMAIN dlog /\ dlog[e].type = "activated"
    BY <1>0, <1>1, <1>4 DEF Knows, AppendRollback, Events
  <2>2. Activation(dlog[e].event, e) BY <2>1 DEF LedgerRefersBack
  <2>3. dlog[e].event \in Nat /\ (dlog[e].event = 0 \/ dlog[e].event \in Events("activated"))
    BY <2>2, EventsAreBounded DEF Activation
  <2> QED BY <1>0, <1>1, <1>4, <2>3, MoveKeeps DEF AppendRollback
<1> QED BY <1>3, <1>4

(* A step of an operator that appends nothing: it goes on to a place whose *)
(* knowledge it has, or it rests and lets the lock go.                     *)
LEMMA MovesOnKeeps ==
  ASSUME DeployInvariant, NEW o \in Operators, UNCHANGED dlog,
         \A p \in Operators : p # o => operator'[p] = operator[p],
         operator' \in [Operators -> Doings],
         operator'[o].at = "rest" => operator'[o] = AtRest,
         \/ UNCHANGED dlock /\ (operator'[o].at \in Locked => operator[o].at \in Locked)
         \/ dlock' = (IF dlock = o THEN noEvent ELSE dlock) /\ operator'[o].at \notin Locked,
         tasks' \in Seq([source : Nat, status : {"started", "completed", "failed"}]),
         DOMAIN tasks \subseteq DOMAIN tasks', TasksKnow', Knows(o)'
  PROVE  DeployInvariant'
<1>1. DeployShape' BY DeploymentAssumption DEF DeployInvariant, DeployShape
<1>2. OperatorsKnow' BY QuietStep DEF OperatorsKnow
<1> QED BY <1>1, <1>2, QuietStep DEF DeployInvariant

LEMMA WorkKeeps ==
  ASSUME DeployInvariant, NEW o \in Operators, DeployWork(o) \/ StopOperator(o)
  PROVE  DeployInvariant'
<1> USE DEF DeployInvariant
<1>0. /\ Knows(o) /\ operator[o] \in Doings /\ operator \in [Operators -> Doings]
      /\ AtRest \in Doings /\ AtRest.at = "rest" /\ "rest" \notin Locked
  BY DEF OperatorsKnow, DeployShape, Doings, AtRest, Numbers, Locked
<1>1. ASSUME Rest(o), UNCHANGED <<dlog, tasks>>
      PROVE  DeployInvariant'
  <2>1. operator'[o] = AtRest /\ \A p \in Operators : p # o => operator'[p] = operator[p]
    BY <1>0, <1>1 DEF Rest
  <2>2. operator' \in [Operators -> Doings] BY <1>0, <1>1 DEF Rest
  <2>3. Knows(o)' BY <2>1 DEF Knows, AtRest, Locked
  <2>4. TasksKnow' BY <1>1, QuietStep
  <2>5. dlock' = IF dlock = o THEN noEvent ELSE dlock BY <1>1 DEF Rest
  <2> QED
    BY <1>0, <1>1, <2>1, <2>2, <2>3, <2>4, <2>5, MovesOnKeeps DEF DeployShape
<1>2. CASE ConfirmToken(o)
  <2>1. CASE Confirmed(operator[o].event) BY <1>1, <1>2, <2>1 DEF ConfirmToken
  <2>2. CASE ~Confirmed(operator[o].event)
    BY <1>2, <2>2, ConfirmKeeps DEF ConfirmToken
  <2> QED BY <2>1, <2>2
<1>3. CASE ReadPrevious(o)
  <2>1. CASE LabelOf[operator[o].cand] # operator[o].label
    BY <1>1, <1>3, <2>1 DEF ReadPrevious
  <2>2. CASE LabelOf[operator[o].cand] = operator[o].label
    <3>0. PICK c, l : c = operator[o].cand /\ l = operator[o].label OBVIOUS
    <3>1. /\ operator' = [operator EXCEPT ![o].at = "activate", ![o].event = Resolve(l)]
          /\ UNCHANGED <<dlog, dlock, tasks>> /\ operator[o].at = "evidence" /\ l = LabelOf[c]
      BY <1>3, <2>2, <3>0 DEF ReadPrevious
    <3>2. Resolve(l) \in Nat BY ResolveIsAnActivation
    <3>3. /\ operator'[o].at = "activate" /\ operator'[o].event = Resolve(l)
          /\ operator'[o].cand = c /\ operator'[o].label = l
          /\ operator' \in [Operators -> Doings]
          /\ \A p \in Operators : p # o => operator'[p] = operator[p]
      BY <1>0, <3>0, <3>1, <3>2 DEF Doings, Locked, Numbers
    <3>4. c \in Strategies /\ l \in Labels /\ OthersAtRest(l) /\ Fresh(c)
      BY <1>0, <3>0, <3>1 DEF Knows, Locked
    <3>5. Knows(o)' BY <3>1, <3>3, <3>4, LedgerIsKept DEF Knows, Locked
    <3>6. TasksKnow' BY <3>1, QuietStep
    <3>7. operator[o].at \in Locked /\ operator'[o].at # "rest"
      BY <3>1, <3>3 DEF Locked
    <3> QED BY <3>1, <3>3, <3>5, <3>6, <3>7, MovesOnKeeps DEF DeployShape
  <2> QED BY <2>1, <2>2
<1>4. CASE AppendActivation(o) \/ AppendRollback(o) BY <1>4, AppendsKeep
<1>5. CASE StartTask(o)
  <2> DEFINE row == [source |-> operator[o].event, status |-> "started"]
  <2>0. PICK e : e = operator[o].event OBVIOUS
  <2>1. /\ e \in Nat /\ (e = 0 \/ e \in Events("activated"))
        /\ row \in [source : Nat, status : {"started", "completed", "failed"}]
    BY <1>0, <1>5, <2>0, EventsAreBounded DEF StartTask, Knows
  <2>2. /\ tasks' \in Seq([source : Nat, status : {"started", "completed", "failed"}])
        /\ DOMAIN tasks \subseteq DOMAIN tasks' /\ Len(tasks) + 1 \in DOMAIN tasks'
        /\ \A k \in DOMAIN tasks' : \/ k \in DOMAIN tasks /\ tasks'[k] = tasks[k]
                                    \/ tasks'[k].source = e
    <3>1. tasks' = Append(tasks, row) /\ row.source = e
      BY <1>5, <2>0 DEF StartTask
    <3>2. tasks \in Seq([source : Nat, status : {"started", "completed", "failed"}])
      BY DEF DeployShape
    <3> HIDE DEF row
    <3> QED BY <2>1, <3>1, <3>2
  <2>3. TasksKnow' BY <1>5, <2>1, <2>2, LedgerIsKept DEF TasksKnow, StartTask
  <2>4. /\ operator'[o].at = "run" /\ operator'[o].event = Len(tasks) + 1
        /\ operator' \in [Operators -> Doings]
        /\ \A p \in Operators : p # o => operator'[p] = operator[p]
    <3>1. Len(tasks) + 1 \in Nat BY DEF DeployShape
    <3> QED BY <1>0, <1>5, <3>1 DEF StartTask, Doings, Locked, Numbers
  <2>5. Knows(o)' BY <2>2, <2>4 DEF Knows, Locked
  <2>6. operator'[o].at # "rest" /\ operator'[o].at \notin Locked /\ UNCHANGED <<dlog, dlock>>
    BY <1>5, <2>4 DEF Locked, StartTask
  <2> QED BY <2>2, <2>3, <2>4, <2>5, <2>6, MovesOnKeeps
<1>6. CASE FinishTask(o)
  <2>0. PICK e, s : /\ e = operator[o].event /\ s \in {"completed", "failed"}
                    /\ tasks' = [tasks EXCEPT ![e].status = s]
    BY <1>6 DEF FinishTask
  <2>1. tasks \in Seq([source : Nat, status : {"started", "completed", "failed"}])
        /\ e \in DOMAIN tasks
    BY <1>0, <1>6, <2>0 DEF DeployShape, FinishTask, Knows
  <2>2. /\ tasks' \in Seq([source : Nat, status : {"started", "completed", "failed"}])
        /\ DOMAIN tasks' = DOMAIN tasks
        /\ \A k \in DOMAIN tasks : tasks'[k].source = tasks[k].source
    <3> DEFINE TaskRows == [source : Nat, status : {"started", "completed", "failed"}]
               row == [tasks[e] EXCEPT !.status = s]
    <3>1. tasks[e] \in TaskRows
      <4>1. tasks \in Seq(TaskRows) /\ e \in DOMAIN tasks BY <2>1
      <4> HIDE DEF TaskRows
      <4> QED BY <4>1, ElementOfSequence
    <3>2. row \in TaskRows /\ row.source = tasks[e].source BY <2>0, <3>1
    <3>3. tasks \in Seq(TaskRows) /\ tasks' = [tasks EXCEPT ![e] = row]
      BY <2>0, <2>1
    <3>4. tasks' \in Seq(TaskRows) /\ DOMAIN tasks' = DOMAIN tasks
      <4> HIDE DEF TaskRows, row
      <4> QED BY <2>1, <3>2, <3>3, ReplaceInSequence
    <3>5. \A k \in DOMAIN tasks : tasks'[k] = IF k = e THEN row ELSE tasks[k]
      <4> HIDE DEF row
      <4> QED BY <3>3
    <3>6. \A k \in DOMAIN tasks : tasks'[k].source = tasks[k].source
      <4> HIDE DEF row
      <4> QED BY <3>2, <3>5
    <3> QED BY <3>4, <3>6
  <2>3. TasksKnow' BY <1>6, <2>2, LedgerIsKept DEF TasksKnow, FinishTask
  <2>4. /\ operator'[o] = AtRest /\ operator' \in [Operators -> Doings]
        /\ \A p \in Operators : p # o => operator'[p] = operator[p]
        /\ UNCHANGED <<dlog, dlock>>
    BY <1>0, <1>6 DEF FinishTask
  <2>5. Knows(o)' BY <2>4 DEF Knows, AtRest, Locked
  <2>6. operator'[o].at \notin Locked BY <1>0, <2>4
  <2> QED BY <2>2, <2>3, <2>4, <2>5, <2>6, MovesOnKeeps
<1>7. CASE StopOperator(o) BY <1>1, <1>7 DEF StopOperator
<1> QED BY <1>2, <1>3, <1>4, <1>5, <1>6, <1>7 DEF DeployWork

LEMMA DeployInvariantHolds ==
  DeployInit /\ [][DeployNext]_deployVars => []DeployInvariant
<1>1. DeployInit => DeployInvariant BY DeployStarts
<1>2. DeployInvariant /\ [DeployNext]_deployVars => DeployInvariant'
  <2> SUFFICES ASSUME DeployInvariant, [DeployNext]_deployVars
               PROVE  DeployInvariant'
    OBVIOUS
  <2>1. CASE UNCHANGED deployVars
    BY <2>1, QuietStep DEF OperatorsKnow, deployVars, DeployInvariant, DeployShape
  <2>2. ASSUME NEW o \in Operators, DeployWork(o) \/ StopOperator(o)
        PROVE  DeployInvariant'
    BY <2>2, WorkKeeps
  <2>3. ASSUME NEW o \in Operators, NEW l \in Labels,
               \/ \E t \in Tokens : Approve(o, t, l)
               \/ \E c \in Strategies : ActivateConfirmed(o, c, l)
               \/ ReadCurrent(o, l) \/ PinSource(o, l)
        PROVE  DeployInvariant'
    BY <2>3, BeginningsKeep
  <2> QED BY <2>1, <2>2, <2>3 DEF DeployNext
<1> QED BY <1>1, <1>2, PTL

(* Every approval is spent at most once and only on its own route, and a   *)
(* task runs nothing that was not activated, however many operators there  *)
(* are and wherever they stop.                                             *)
THEOREM ApprovalsAreSpent ==
  DeployInit /\ [][DeployNext]_deployVars => []ApprovalsAreSpentOnce
<1>1. DeployInvariant => ApprovalsAreSpentOnce
  <2> SUFFICES ASSUME DeployInvariant
               PROVE  ApprovalsAreSpentOnce
    OBVIOUS
  <2>1. \A c \in Strategies : \A i \in Events("activated") \cap Of(c) : dlog[i].label = LabelOf[c]
    BY DEF DeployInvariant, LedgerRefersBack, Events, Of
  <2> QED
    BY <2>1 DEF DeployInvariant, TokensConfirmOnce, ApprovalsCover, Activations,
                Confirmations, TasksKnow, ApprovalsAreSpentOnce
<1> QED BY <1>1, DeployInvariantHolds, PTL

-----------------------------------------------------------------------------
(* The refinement of StrategyStack.  An entry refers to one before it, so  *)
(* the chain of strategies that leads to an entry is well defined, and an  *)
(* append changes no chain that was there.                                 *)

ChainStep(g, i) ==
  IF i \in Events("activated") THEN Append(g[dlog[i].event], dlog[i].cand) ELSE <<>>

LEMMA ChainExists ==
  ASSUME DeployShape, LedgerRefersBack
  PROVE  ChainTo = [i \in 0..Len(dlog) |-> ChainStep(ChainTo, i)]
<1> DEFINE T == {n \in Nat : n <= Len(dlog) =>
                   \E g : g = [i \in 0..n |-> ChainStep(g, i)]}
<1>0. /\ Len(dlog) \in Nat /\ Events("activated") \subseteq 1..Len(dlog)
      /\ \A i \in Events("activated") : dlog[i].event \in 0..(i - 1)
  BY EventsAreBounded DEF LedgerRefersBack, Events, Activation
<1>1. 0 \in T
  <2> DEFINE g == [i \in 0..0 |-> <<>>]
  <2>1. \A h : \A i \in 0..0 : ChainStep(h, i) = <<>> BY <1>0 DEF ChainStep
  <2>2. g = [i \in 0..0 |-> ChainStep(g, i)] BY <2>1
  <2> QED BY <2>2
<1>2. \A n \in T : n + 1 \in T
  <2> SUFFICES ASSUME NEW n \in T, n + 1 <= Len(dlog)
               PROVE  \E g : g = [i \in 0..(n + 1) |-> ChainStep(g, i)]
    OBVIOUS
  <2>1. n \in Nat /\ n <= Len(dlog) BY <1>0
  <2>2. PICK g : g = [i \in 0..n |-> ChainStep(g, i)] BY <2>1
  <2> DEFINE h == [i \in 0..(n + 1) |-> IF i \in 0..n THEN g[i] ELSE ChainStep(g, n + 1)]
  <2>3. \A i \in 0..n : h[i] = g[i] BY <2>1
  <2>4. \A i \in 0..n : g[i] = ChainStep(g, i) BY <2>2
  <2>5. \A i \in 0..(n + 1) : ChainStep(g, i) = ChainStep(h, i)
    <3> TAKE i \in 0..(n + 1)
    <3>1. i \in Events("activated") => dlog[i].event \in 0..n BY <1>0, <2>1
    <3> HIDE DEF h
    <3> QED BY <2>3, <3>1 DEF ChainStep
  <2>6. \A i \in 0..(n + 1) : h[i] = ChainStep(h, i)
    <3> TAKE i \in 0..(n + 1)
    <3>1. CASE i \in 0..n BY <2>3, <2>4, <2>5, <3>1
    <3>2. CASE i \notin 0..n BY <2>1, <3>2, <2>5
    <3> QED BY <3>1, <3>2
  <2>7. h = [i \in 0..(n + 1) |-> h[i]] OBVIOUS
  <2>8. h = [i \in 0..(n + 1) |-> ChainStep(h, i)]
    <3> HIDE DEF h
    <3> QED BY <2>6, <2>7
  <2> QED BY <2>8
<1>3. T = Nat
  <2> HIDE DEF T
  <2>1. T \in SUBSET Nat BY DEF T
  <2> QED BY <1>1, <1>2, <2>1, SetInduction
<1>4. \E g : g = [i \in 0..Len(dlog) |-> ChainStep(g, i)] BY <1>0, <1>3
<1> QED BY <1>4 DEF ChainTo, ChainStep

ChainsUnfold == \A i \in 0..Len(dlog) : ChainTo[i] = ChainStep(ChainTo, i)

LEMMA ChainValue ==
  DeployShape /\ LedgerRefersBack => ChainsUnfold
  BY ChainExists DEF ChainsUnfold

LEMMA ChainsAreStrategies ==
  ASSUME DeployShape, LedgerRefersBack
  PROVE  \A i \in 0..Len(dlog) : ChainTo[i] \in Seq(Strategies)
<1> DEFINE Bad == {i \in 0..Len(dlog) : ChainTo[i] \notin Seq(Strategies)}
<1> SUFFICES ASSUME Bad # {}
             PROVE  FALSE
  OBVIOUS
<1>1. Len(dlog) \in Nat /\ Bad \in SUBSET Nat BY EventsAreBounded
<1>2. PICK i \in Bad : \A j \in Bad : i <= j
  <2> HIDE DEF Bad
  <2> QED BY <1>1, LeastNatural
<1>3. ChainTo[i] = ChainStep(ChainTo, i) BY ChainValue DEF ChainsUnfold
<1>4. i \in Events("activated")
  <2>1. <<>> \in Seq(Strategies) /\ ChainTo[i] \notin Seq(Strategies) OBVIOUS
  <2> QED BY <1>3, <2>1 DEF ChainStep
<1>5. i \in DOMAIN dlog /\ dlog[i] \in Entries /\ Activation(dlog[i].event, i)
  BY <1>4 DEF Events, DeployShape, LedgerRefersBack
<1>6. dlog[i].event \in 0..(i - 1) BY <1>5, EventsAreBounded DEF Activation
<1>7. dlog[i].event \in 0..Len(dlog) /\ dlog[i].event < i BY <1>1, <1>6
<1>8. ChainTo[dlog[i].event] \in Seq(Strategies) BY <1>1, <1>2, <1>7
<1>9. ChainTo[i] \in Seq(Strategies)
  BY <1>3, <1>4, <1>5, <1>8 DEF ChainStep, Entries
<1> QED BY <1>9

LEMMA ChainsAreKept ==
  ASSUME DeployShape, LedgerRefersBack, DeployShape', LedgerRefersBack',
         Len(dlog) <= Len(dlog'), \A i \in DOMAIN dlog : dlog'[i] = dlog[i]
  PROVE  \A i \in 0..Len(dlog) : ChainTo'[i] = ChainTo[i]
<1> DEFINE Bad == {i \in 0..Len(dlog) : ChainTo'[i] # ChainTo[i]}
<1> SUFFICES ASSUME Bad # {}
             PROVE  FALSE
  OBVIOUS
<1>1. /\ Len(dlog) \in Nat /\ Len(dlog') \in Nat /\ Bad \in SUBSET Nat
      /\ DOMAIN dlog = 1..Len(dlog) /\ DOMAIN dlog' = 1..Len(dlog')
  BY DEF DeployShape
<1>2. PICK i \in Bad : \A j \in Bad : i <= j
  <2> HIDE DEF Bad
  <2> QED BY <1>1, LeastNatural
<1>3. ChainTo[i] = ChainStep(ChainTo, i) BY ChainValue DEF ChainsUnfold
<1>4. \A j \in 0..Len(dlog') :
        ChainTo'[j] = IF j \in Events("activated")'
                      THEN Append(ChainTo'[dlog'[j].event], dlog'[j].cand) ELSE <<>>
  <2>1. ChainsUnfold' BY ChainValue, PTL
  <2> QED BY <2>1 DEF ChainsUnfold, ChainStep
<1>5. i \in Events("activated")' <=> i \in Events("activated")
  BY <1>1 DEF Events
<1>6. i \in Events("activated") BY <1>1, <1>3, <1>4, <1>5 DEF ChainStep
<1>7. i \in DOMAIN dlog /\ Activation(dlog[i].event, i) /\ dlog'[i] = dlog[i]
  BY <1>6 DEF Events, LedgerRefersBack
<1>8. dlog[i].event \in 0..Len(dlog) /\ dlog[i].event < i
  BY <1>1, <1>7, EventsAreBounded DEF Activation
<1>9. ChainTo'[dlog[i].event] = ChainTo[dlog[i].event] BY <1>1, <1>2, <1>8
<1>10. ChainTo[i] = Append(ChainTo[dlog[i].event], dlog[i].cand)
  BY <1>3, <1>6 DEF ChainStep
<1>11. ChainTo'[i] = Append(ChainTo'[dlog'[i].event], dlog'[i].cand)
  <2>1. i \in 0..Len(dlog') /\ i \in Events("activated")' BY <1>1, <1>5, <1>6
  <2> QED BY <1>4, <2>1
<1>12. ChainTo'[i] = ChainTo[i] BY <1>7, <1>9, <1>10, <1>11
<1> QED BY <1>12

(* What a step does to the ledger.                                         *)
Confirms(o) ==
  /\ operator[o].at = "confirm"
  /\ Record("confirmed", operator[o].cand, noEvent, operator[o].event)

LEMMA StepsOfLedger ==
  ASSUME DeployNext
  PROVE  \/ UNCHANGED dlog
         \/ \E o \in Operators : Confirms(o) \/ AppendActivation(o) \/ AppendRollback(o)
  BY DEF DeployNext, DeployWork, ConfirmToken, ReadPrevious, StartTask, FinishTask,
         StopOperator, Approve, ActivateConfirmed, ReadCurrent, PinSource, Confirms

LEMMA StacksAreKept ==
  ASSUME DeployShape, LedgerRefersBack, DeployShape', LedgerRefersBack',
         Len(dlog) <= Len(dlog'), \A i \in DOMAIN dlog : dlog'[i] = dlog[i],
         NEW l \in Labels, Resolve(l)' = Resolve(l)
  PROVE  Chains'[l] = Chains[l]
<1>1. Resolve(l) \in 0..Len(dlog) BY ResolveIsAnActivation, EventsAreBounded
<1>2. ChainTo'[Resolve(l)] = ChainTo[Resolve(l)] BY <1>1, ChainsAreKept
<1> QED BY <1>2 DEF Chains

LEMMA StepsOfStack ==
  ASSUME DeployInvariant, DeployInvariant', DeployNext, Chains' # Chains
  PROVE  \E l \in Labels : Stack!Pop(l) \/ \E c \in Strategies : Stack!Push(l, c)
<1> USE DEF DeployInvariant
<1>0. /\ Len(dlog) \in Nat /\ Len(dlog') \in Nat /\ DOMAIN dlog = 1..Len(dlog)
      /\ Chains = [l \in Labels |-> Chains[l]] /\ Chains' = [l \in Labels |-> Chains'[l]]
  BY DEF DeployShape, Chains
<1>1. ASSUME \A l \in Labels : Resolve(l)' = Resolve(l), Len(dlog) <= Len(dlog'),
             \A i \in DOMAIN dlog : dlog'[i] = dlog[i]
      PROVE  FALSE
  BY <1>1, <1>0, StacksAreKept
<1>2. ~UNCHANGED dlog BY <1>0, <1>1, LedgerIsKept
<1>3. PICK o \in Operators : Confirms(o) \/ AppendActivation(o) \/ AppendRollback(o)
  BY <1>2, StepsOfLedger
<1>4. PICK c, l, e : c = operator[o].cand /\ l = operator[o].label /\ e = operator[o].event
  OBVIOUS
<1>5. Knows(o) /\ c \in Strategies /\ l \in Labels
  BY <1>3, <1>4 DEF OperatorsKnow, Knows, Locked, Confirms, AppendActivation, AppendRollback
<1>6. ~Confirms(o)
  <2> SUFFICES ASSUME Confirms(o)
               PROVE  FALSE
    OBVIOUS
  <2>1. e \in Tokens /\ Record("confirmed", c, noEvent, e)
    BY <1>4, <1>5 DEF Knows, Confirms
  <2>2. Grown("confirmed", c, noEvent, e) BY <1>5, <2>1, RecordGrows DEF Numbers
  <2>3. \A k \in Labels : Resolve(k)' = Resolve(k)
    BY <1>5, <2>1, ConfirmationKeepsResolve DEF Numbers
  <2> QED BY <1>0, <1>1, <2>2, <2>3 DEF Grown
<1>7. e = Resolve(l) /\ e \in Nat /\ (e = 0 \/ e \in Events("activated")) /\ e \in 0..Len(dlog)
  BY <1>3, <1>4, <1>5, <1>6, ResolveIsAnActivation, EventsAreBounded
     DEF AppendActivation, AppendRollback, Knows
<1>8. \A i \in 0..Len(dlog) : ChainTo[i] \in Seq(Strategies)
  BY ChainsAreStrategies
<1>9. CASE AppendActivation(o)
  <2>1. Grown("activated", c, l, e) /\ Record("activated", c, l, e)
    BY <1>4, <1>5, <1>7, <1>9, RecordGrows DEF AppendActivation, Numbers
  <2>2. \A k : Resolve(k)' = IF k # l THEN Resolve(k) ELSE Len(dlog) + 1
    BY <1>5, <1>7, <2>1, MoveDecides DEF Numbers
  <2>3. \A k \in Labels \ {l} : Chains'[k] = Chains[k]
    BY <1>0, <2>1, <2>2, StacksAreKept DEF Grown
  <2>4. /\ Len(dlog') = Len(dlog) + 1 /\ dlog'[Len(dlog) + 1].event = e
        /\ dlog'[Len(dlog) + 1].cand = c /\ Len(dlog) + 1 \in Events("activated")'
    BY <2>1 DEF Grown
  <2>5. ChainTo'[Len(dlog) + 1] = Append(ChainTo'[e], c)
    <3>1. ChainsUnfold'
      <4>1. (DeployShape /\ LedgerRefersBack)' OBVIOUS
      <4> QED BY <4>1, ChainValue, PTL
    <3>2. Len(dlog) + 1 \in 0..Len(dlog') BY <1>0, <2>4
    <3> QED BY <2>4, <3>1, <3>2 DEF ChainsUnfold, ChainStep
  <2>6. ChainTo'[e] = ChainTo[e] BY <1>0, <1>7, <2>1, ChainsAreKept DEF Grown
  <2>7. Chains'[l] = Append(Chains[l], c)
    BY <1>5, <1>7, <2>2, <2>5, <2>6 DEF Chains
  <2>8. \A k \in Labels \ {l} : Chains[k] = <<>>
    <3>1. \A k \in Labels \ {l} : Resolve(k) = 0
      BY <1>4, <1>5, <1>9 DEF Knows, AppendActivation, OthersAtRest
    <3>2. ChainTo[0] = <<>>
      BY <1>0, ChainValue, EventsAreBounded DEF ChainsUnfold, ChainStep
    <3> QED BY <3>1, <3>2 DEF Chains
  <2>9. Chains' = [Chains EXCEPT ![l] = Append(Chains[l], c)]
    BY <1>0, <1>5, <2>3, <2>7
  <2>10. Stack!Push(l, c) BY <2>8, <2>9 DEF Stack!Push
  <2> QED BY <1>5, <2>10
<1>10. CASE AppendRollback(o)
  <2>1. e \in Events("activated") /\ e \in DOMAIN dlog
    BY <1>4, <1>5, <1>10 DEF Knows, AppendRollback, Events
  <2>2. PICK b : b = dlog[e].event OBVIOUS
  <2>3. b \in Nat /\ b \in 0..Len(dlog)
    BY <1>0, <2>1, <2>2, EventsAreBounded DEF LedgerRefersBack, Activation, Events
  <2>4. Grown("rollback", c, l, b) /\ Record("rollback", c, l, b)
    BY <1>4, <1>5, <1>10, <2>2, <2>3, RecordGrows DEF AppendRollback, Numbers
  <2>5. \A k : Resolve(k)' = IF k # l THEN Resolve(k) ELSE b
    BY <1>5, <2>3, <2>4, MoveDecides DEF Numbers
  <2>6. \A k \in Labels \ {l} : Chains'[k] = Chains[k]
    BY <1>0, <2>4, <2>5, StacksAreKept DEF Grown
  <2>7. ChainTo'[b] = ChainTo[b] BY <1>0, <2>3, <2>4, ChainsAreKept DEF Grown
  <2>8. Chains'[l] = ChainTo[b] BY <1>5, <2>5, <2>7 DEF Chains
  <2>9. Chains[l] = Append(ChainTo[b], dlog[e].cand)
    BY <1>5, <1>7, <2>1, <2>2, ChainValue DEF ChainsUnfold, Chains, ChainStep
  <2>10. ChainTo[b] \in Seq(Strategies) /\ dlog[e].cand \in Strategies
    <3>1. dlog[e] \in Entries BY <2>1 DEF DeployShape
    <3> QED BY <1>8, <2>3, <3>1 DEF Entries
  <2>11. Chains[l] # <<>> /\ Chains'[l] = SubSeq(Chains[l], 1, Len(Chains[l]) - 1)
    <3>1. ASSUME NEW s \in Seq(Strategies), NEW x \in Strategies
          PROVE  /\ Append(s, x) # <<>>
                 /\ SubSeq(Append(s, x), 1, Len(Append(s, x)) - 1) = s
      OBVIOUS
    <3> QED BY <2>8, <2>9, <2>10, <3>1
  <2>12. Chains' = [Chains EXCEPT ![l] = SubSeq(Chains[l], 1, Len(Chains[l]) - 1)]
    BY <1>0, <1>5, <2>6, <2>11
  <2>13. Stack!Pop(l) BY <2>11, <2>12 DEF Stack!Pop
  <2> QED BY <1>5, <2>13
<1> QED BY <1>3, <1>6, <1>9, <1>10

(* Whatever operators do at once and wherever they stop, activating puts a *)
(* strategy over the one in use, rolling back brings that one back, and    *)
(* only one route is in use: the ledger and its replay implement           *)
(* StrategyStack, for a ledger of any length.                              *)
THEOREM TheLedgerIsAStack ==
  DeployInit /\ [][DeployNext]_deployVars => DeploymentIsAStack
<1>1. DeployInit => Stack!StackInit
  <2> SUFFICES ASSUME DeployInit
               PROVE  Stack!StackInit
    OBVIOUS
  <2>1. DeployShape /\ LedgerRefersBack BY DeployStarts DEF DeployInvariant
  <2>2. Events("activated") = {} /\ Events("rollback") = {} /\ Len(dlog) = 0
    BY DEF DeployInit, Events
  <2>3. \A l : Resolve(l) = 0 BY <2>2, ResolveCases DEF Moves
  <2>4. ChainTo[0] = <<>> BY <2>1, <2>2, ChainValue DEF ChainsUnfold, ChainStep
  <2> QED BY <2>3, <2>4 DEF Stack!StackInit, Chains
<1>2. DeployInvariant /\ DeployInvariant' /\ [DeployNext]_deployVars
        => [\E l \in Labels : Stack!Pop(l) \/ \E c \in Strategies : Stack!Push(l, c)]_Chains
  <2> SUFFICES ASSUME DeployInvariant, DeployInvariant', [DeployNext]_deployVars,
                      Chains' # Chains
               PROVE  \E l \in Labels : Stack!Pop(l) \/ \E c \in Strategies : Stack!Push(l, c)
    OBVIOUS
  <2>1. CASE DeployNext BY <2>1, StepsOfStack
  <2>2. CASE UNCHANGED deployVars
    BY <2>2, LedgerIsKept, StacksAreKept DEF deployVars, DeployInvariant, DeployShape, Chains
  <2> QED BY <2>1, <2>2
<1> QED
  BY <1>1, <1>2, DeployInvariantHolds, PTL DEF DeploymentIsAStack, Stack!StackSpec

-----------------------------------------------------------------------------
(* TerminalRpc: the inductive invariant.                                   *)

Requests == [turn : Turns, kind : {"confirm", "ask"}, broker : Nat,
             at : {"posted", "pending", "ended"}, verdict : {"open", "yes", "no"}]

\* The epochs of the past are shut, and there are as many as sessions were
\* changed.
ServerShape ==
  /\ setting \in Settings
  /\ server \in [at : ServerStates, turn : Turns \cup {"none"}]
  /\ server.at = "cancelling" => server.turn \in Turns
  /\ closed \in BOOLEAN
  /\ epoch \in 0..Switches /\ (server.at = "switching" => epoch < Switches)
  /\ shut \subseteq 0..Switches /\ 0..epoch - 1 \subseteq shut
  /\ cancelledTurns \subseteq Turns /\ mine \subseteq Turns
  /\ home \in [Turns -> 0..MaxSwitches]

\* The lane holds the queued turns, and each once.
LaneShape ==
  /\ turn \in [Turns -> TurnStates]
  /\ lane \in Seq(Turns) /\ IsInjective(lane)
  /\ \A t \in ToSet(lane) : turn[t] = "queued"
  /\ \A t \in Turns : turn[t] = "unsent" \/ t \in Sendable
  /\ told \subseteq {t \in Turns : turn[t] = "cancelled"}
  /\ cancelReq \subseteq Turns /\ token \subseteq Turns

\* A turn that has a thread has begun, and the token of one that was
\* cancelled is set.
ThreadShape ==
  /\ thread \in [Turns -> [at : ThreadStates, r : Nat]]
  /\ calls \in [Turns -> 0..MaxCalls]
  /\ \A t \in Turns :
       /\ turn[t] \in {"unsent", "queued"} => thread[t].at = "none"
       /\ thread[t].at = "none" => calls[t] = 0
       /\ turn[t] = "cancelled" => thread[t].at = "none" \/ t \in token
       /\ ~Slow /\ thread[t].at \notin {"none", "done"} => turn[t] = "running"

\* A verdict of yes is an answer of the client that was accepted.
RequestShape ==
  /\ req \in Seq(Requests) /\ withdrawn \subseteq DOMAIN req /\ ran \subseteq DOMAIN req
  /\ answer \in [1..MaxRequests -> {"none", "yes", "no"}]
  /\ \A r \in DOMAIN req :
       /\ req[r].broker <= epoch
       /\ req[r].verdict = "yes" => answer[r] = "yes"
       /\ req[r].at = "ended" => req[r].verdict # "open"
ScreenShape == asking \in 0..Len(req) /\ shown \subseteq DOMAIN req

\* Who waits for which request, and which request is waited for.
ThreadsWait ==
  /\ \A t \in Turns :
       /\ thread[t].at \notin {"wait", "granted"} => thread[t].r = 0
       /\ thread[t].at \in {"wait", "granted"} =>
            thread[t].r \in DOMAIN req /\ req[thread[t].r].turn = t
       /\ thread[t].at = "granted" =>
            req[thread[t].r].at = "ended" /\ req[thread[t].r].verdict = "yes"
  /\ \A r \in DOMAIN req : req[r].at # "ended" /\ r \notin withdrawn =>
       thread[req[r].turn] = [at |-> "wait", r |-> r]

\* Each request of a turn stands for another of the calls it has counted.
Prompting(t) == IF thread[t].at = "prompt" THEN 1 ELSE 0
CallsOf(n) ==
  /\ n \in [DOMAIN req -> Nat \ {0}]
  /\ \A r \in DOMAIN req : n[r] + Prompting(req[r].turn) <= calls[req[r].turn]
  /\ \A r, s \in DOMAIN req : r # s /\ req[r].turn = req[s].turn => n[r] # n[s]
RequestsCount ==
  /\ \E n \in [DOMAIN req -> Nat \ {0}] : CallsOf(n)
  /\ \A t \in Turns : Prompting(t) <= calls[t]

TerminalInvariant ==
  /\ ServerShape /\ LaneShape /\ ThreadShape /\ RequestShape /\ ScreenShape
  /\ ThreadsWait /\ RequestsCount /\ QuestionIsReachable

-----------------------------------------------------------------------------
(* There are never more requests than the calls of all turns.              *)
LEMMA RequestsAreBounded ==
  ASSUME TerminalInvariant
  PROVE  Len(req) <= MaxRequests
<1> USE DEF TerminalInvariant
<1>1. PICK n \in [DOMAIN req -> Nat \ {0}] : CallsOf(n) BY DEF RequestsCount
<1> DEFINE Slots == Sendable \X (1..MaxCalls)
           f == [r \in DOMAIN req |-> <<req[r].turn, n[r]>>]
<1>2. /\ MaxCalls \in Nat \ {0} /\ IsFiniteSet(Sendable)
      /\ MaxCalls * Cardinality(Sendable) <= MaxRequests /\ MaxRequests \in Nat
  BY BoundsAssumption DEF ServerShape, MaxCalls, Sendable
<1>3. IsFiniteSet(1..MaxCalls) /\ Cardinality(1..MaxCalls) = MaxCalls
  BY <1>2, FS_Interval
<1>4. IsFiniteSet(Slots) /\ Cardinality(Slots) = Cardinality(Sendable) * MaxCalls
  BY <1>2, <1>3, FS_Product
<1>5. Cardinality(Sendable) \in Nat BY <1>2, FS_CardinalityType
<1>6. ASSUME NEW r \in DOMAIN req
      PROVE  <<req[r].turn, n[r]>> \in Slots
  <2>1. req[r] \in Requests BY DEF RequestShape
  <2>2. req[r].turn \in Turns /\ calls[req[r].turn] \in 0..MaxCalls
    BY <2>1 DEF ThreadShape, Requests
  <2>3. n[r] \in 1..MaxCalls BY <1>1, <1>2, <2>2 DEF CallsOf, Prompting
  <2>4. req[r].turn \in Sendable
    <3>1. calls[req[r].turn] # 0 BY <1>1, <2>2 DEF CallsOf, Prompting
    <3> QED BY <2>2, <3>1 DEF LaneShape, ThreadShape
  <2> QED BY <2>3, <2>4
<1>7. f \in Injection(DOMAIN req, Slots)
  <2>1. f \in [DOMAIN req -> Slots] BY <1>6
  <2>2. ASSUME NEW r \in DOMAIN req, NEW s \in DOMAIN req, f[r] = f[s]
        PROVE  r = s
    BY <1>1, <2>2 DEF CallsOf
  <2> QED BY <2>1, <2>2 DEF Injection, IsInjective
<1>8. Cardinality(DOMAIN req) <= Cardinality(Slots) BY <1>4, <1>7, FS_Injection
<1>9. Cardinality(DOMAIN req) = Len(req) /\ Len(req) \in Nat
  <2>1. req \in Seq(Requests) BY DEF RequestShape
  <2>2. Len(req) \in Nat /\ DOMAIN req = 1..Len(req) BY <2>1
  <2>3. Cardinality(1..Len(req)) = IF 1 > Len(req) THEN 0 ELSE Len(req) - 1 + 1
    BY <2>2, FS_Interval
  <2> QED BY <2>2, <2>3
<1> QED BY <1>2, <1>4, <1>5, <1>8, <1>9

-----------------------------------------------------------------------------
(* What a step does to the requests.                                       *)

\* A request keeps its turn, kind and broker; an ended one keeps its verdict;
\* and none is approved that the client has not approved.
RequestsMove ==
  /\ req' \in Seq(Requests) /\ Len(req') = Len(req)
  /\ \A q \in DOMAIN req :
       /\ req'[q].turn = req[q].turn /\ req'[q].kind = req[q].kind
       /\ req'[q].broker = req[q].broker
       /\ req[q].at = "ended" => req'[q] = req[q]
       /\ req'[q].verdict = "yes" => answer'[q] = "yes"
       /\ req'[q].at = "ended" => req'[q].verdict # "open"

AsksNow(q) == req[q].kind = "ask" /\ Open(q) /\ req[q].broker = epoch

LEMMA RequestsAreTyped ==
  ASSUME TerminalInvariant
  PROVE  /\ Len(req) \in Nat /\ DOMAIN req = 1..Len(req)
         /\ \A q \in DOMAIN req :
              /\ req[q] \in Requests
              /\ req[q] = [turn |-> req[q].turn, kind |-> req[q].kind,
                           broker |-> req[q].broker, at |-> req[q].at,
                           verdict |-> req[q].verdict]
<1>1. req \in Seq(Requests) BY DEF TerminalInvariant, RequestShape
<1>2. \A q \in DOMAIN req : req[q] \in Requests BY <1>1
<1>3. Len(req) \in Nat /\ DOMAIN req = 1..Len(req) BY <1>1
<1> QED BY <1>2, <1>3 DEF Requests

(* A function on 1..n is a sequence of what its values are.               *)
LEMMA SequenceOf ==
  ASSUME NEW S, NEW s, NEW n \in Nat, s = [q \in 1..n |-> s[q]],
         \A q \in 1..n : s[q] \in S
  PROVE  s \in Seq(S) /\ Len(s) = n
  OBVIOUS

LEMMA RequestsStay ==
  ASSUME TerminalInvariant, RequestsMove, setting' = setting,
         answer' \in [1..MaxRequests -> {"none", "yes", "no"}],
         epoch \in Nat, epoch' \in Nat, epoch <= epoch',
         UNCHANGED <<workVars, withdrawn>>
  PROVE  RequestShape' /\ ThreadsWait' /\ RequestsCount'
<1> USE DEF TerminalInvariant, workVars
<1>1. /\ Len(req) \in Nat /\ DOMAIN req = 1..Len(req) /\ DOMAIN req' = DOMAIN req
      /\ \A q \in DOMAIN req : req[q] \in Requests /\ req'[q] \in Requests
  BY RequestsAreTyped DEF RequestsMove
<1>2. RequestShape' BY <1>1 DEF RequestsMove, RequestShape, Requests
<1>3. ThreadsWait' BY <1>1 DEF RequestsMove, ThreadsWait
<1>4. RequestsCount'
  <2>1. \A n : CallsOf(n) => CallsOf(n)'
    BY <1>1 DEF CallsOf, RequestsMove, Prompting
  <2> QED BY <1>1, <2>1 DEF RequestsCount, Prompting
<1> QED BY <1>2, <1>3, <1>4

LEMMA DeniedMoves ==
  ASSUME TerminalInvariant, NEW R, req' = Denied(R), answer' = answer
  PROVE  /\ RequestsMove /\ DOMAIN req' = DOMAIN req
         /\ \A q \in DOMAIN req :
              /\ req'[q].at = req[q].at
              /\ req'[q].verdict = IF q \in R /\ Open(q) THEN "no" ELSE req[q].verdict
<1>1. /\ Len(req) \in Nat /\ DOMAIN req = 1..Len(req)
      /\ \A q \in DOMAIN req :
           /\ req[q] \in Requests
           /\ req[q] = [turn |-> req[q].turn, kind |-> req[q].kind,
                        broker |-> req[q].broker, at |-> req[q].at,
                        verdict |-> req[q].verdict]
  BY RequestsAreTyped
<1>2. /\ DOMAIN req' = DOMAIN req
      /\ \A q \in DOMAIN req : req'[q] =
           IF q \in R /\ Open(q) THEN [req[q] EXCEPT !.verdict = "no"] ELSE req[q]
  BY DEF Denied
<1>3. \A q \in DOMAIN req : [req[q] EXCEPT !.verdict = "no"] =
        [turn |-> req[q].turn, kind |-> req[q].kind, broker |-> req[q].broker,
         at |-> req[q].at, verdict |-> "no"]
  BY <1>1
<1>4. \A q \in DOMAIN req : req'[q] \in Requests
  BY <1>1, <1>2, <1>3 DEF Requests
<1>5. req' \in Seq(Requests) /\ Len(req') = Len(req)
  BY <1>1, <1>2, <1>4, SequenceOf DEF Denied
<1>6. \A q \in DOMAIN req :
        /\ req[q].verdict = "yes" => answer[q] = "yes"
        /\ req[q].at = "ended" => req[q].verdict # "open"
  BY DEF TerminalInvariant, RequestShape
<1> QED BY <1>1, <1>2, <1>3, <1>5, <1>6 DEF RequestsMove, Open

LEMMA EndMoves ==
  ASSUME TerminalInvariant, NEW r \in DOMAIN req, NEW v \in {"yes", "no"},
         req[r].at # "ended", v = "yes" => req[r].verdict = "yes",
         End(r, v), answer' = answer
  PROVE  /\ RequestsMove /\ DOMAIN req' = DOMAIN req /\ req'[r].at = "ended"
         /\ \A q \in DOMAIN req : q # r => req'[q] = req[q]
<1>1. /\ Len(req) \in Nat /\ DOMAIN req = 1..Len(req)
      /\ \A q \in DOMAIN req : req[q] \in Requests
      /\ req[r] = [turn |-> req[r].turn, kind |-> req[r].kind, broker |-> req[r].broker,
                   at |-> req[r].at, verdict |-> req[r].verdict]
  BY RequestsAreTyped
<1>2. /\ DOMAIN req' = DOMAIN req
      /\ \A q \in DOMAIN req : q # r => req'[q] = req[q]
      /\ req'[r] = [turn |-> req[r].turn, kind |-> req[r].kind, broker |-> req[r].broker,
                    at |-> "ended", verdict |-> v]
  BY <1>1 DEF End
<1>3. req' \in Seq(Requests) /\ Len(req') = Len(req)
  <2>1. \A q \in DOMAIN req : req'[q] \in Requests BY <1>1, <1>2 DEF Requests
  <2>2. req' = [q \in 1..Len(req) |-> req'[q]] BY <1>1, <1>2 DEF End
  <2> QED BY <1>1, <2>1, <2>2, SequenceOf
<1>4. \A q \in DOMAIN req :
        /\ req[q].verdict = "yes" => answer[q] = "yes"
        /\ req[q].at = "ended" => req[q].verdict # "open"
  BY DEF TerminalInvariant, RequestShape
<1> QED BY <1>1, <1>2, <1>3, <1>4 DEF RequestsMove

-----------------------------------------------------------------------------
(* The frame loop.                                                         *)

LEMMA ReachableStays ==
  ASSUME TerminalInvariant, RequestsMove,
         \A q \in DOMAIN req' : AsksNow(q)' => AsksNow(q) /\ asking' = asking
  PROVE  QuestionIsReachable'
<1>1. DOMAIN req' = DOMAIN req BY RequestsAreTyped DEF RequestsMove
<1>2. QuestionIsReachable BY DEF TerminalInvariant
<1>3. SUFFICES ASSUME NEW q \in DOMAIN req', AsksNow(q)'
               PROVE  asking' = q
  BY DEF QuestionIsReachable, Registered, AsksNow, Open
<1>4. AsksNow(q) /\ asking' = asking BY <1>3
<1> QED
  BY <1>1, <1>2, <1>3, <1>4 DEF QuestionIsReachable, Registered, AsksNow, Open

\* What a step does that leaves the requests and the threads alone.
LEMMA NothingMoves ==
  ASSUME TerminalInvariant, UNCHANGED <<workVars, reqVars, answer, epoch, setting>>
  PROVE  /\ RequestsMove /\ RequestShape' /\ ThreadsWait' /\ RequestsCount'
         /\ QuestionIsReachable'
<1> USE DEF reqVars, workVars
<1>1. RequestsMove /\ epoch \in Nat
  BY DEF TerminalInvariant, RequestsMove, RequestShape, ServerShape, Switches
<1>2. QuestionIsReachable'
  BY DEF QuestionIsReachable, TerminalInvariant, Registered
<1>3. answer' \in [1..MaxRequests -> {"none", "yes", "no"}]
  BY DEF TerminalInvariant, RequestShape
<1> QED BY <1>1, <1>2, <1>3, RequestsStay

LEMMA LaneAppends ==
  ASSUME TerminalInvariant, NEW t \in Turns, turn[t] # "queued"
  PROVE  /\ Append(lane, t) \in Seq(Turns) /\ IsInjective(Append(lane, t))
         /\ ToSet(Append(lane, t)) = ToSet(lane) \cup {t}
<1>1. /\ lane \in Seq(Turns) /\ IsInjective(lane)
      /\ \A x \in ToSet(lane) : turn[x] = "queued"
  BY DEF TerminalInvariant, LaneShape
<1>2. t \notin ToSet(lane) BY <1>1
<1> QED BY <1>1, <1>2, AppendElements

LEMMA SendKeeps ==
  ASSUME TerminalInvariant, NEW t \in Turns, Send(t), UNCHANGED setting
  PROVE  TerminalInvariant'
<1> USE DEF Send, workVars, reqVars, clientVars
<1>1. /\ RequestShape' /\ ThreadsWait' /\ RequestsCount' /\ QuestionIsReachable'
  BY NothingMoves
<1>2. ServerShape'
  BY BoundsAssumption DEF TerminalInvariant, ServerShape, Switches
<1>3. LaneShape'
  BY LaneAppends DEF TerminalInvariant, LaneShape, ToSet, TurnStates, Sendable
<1>4. ThreadShape'
  BY DEF TerminalInvariant, ThreadShape, LaneShape, MaxCalls, Slow
<1>5. ScreenShape' BY DEF TerminalInvariant, ScreenShape
<1> QED BY <1>1, <1>2, <1>3, <1>4, <1>5 DEF TerminalInvariant

\* Cancelling turns that wait or run, whichever lane they leave.
LEMMA CancelsKeep ==
  ASSUME TerminalInvariant, NEW T \in SUBSET Turns, CancelTurns(T),
         UNCHANGED <<workVars, setting, told>>,
         lane' \in Seq(Turns), IsInjective(lane'), ToSet(lane') \subseteq ToSet(lane) \ T
  PROVE  LaneShape' /\ ThreadShape'
<1> USE DEF CancelTurns, workVars
<1>1. /\ turn \in [Turns -> TurnStates] /\ ToSet(lane) \subseteq Turns
      /\ \A x \in ToSet(lane) : turn[x] = "queued"
  BY DEF TerminalInvariant, LaneShape, ToSet
<1>2. turn' \in [Turns -> TurnStates] BY <1>1 DEF TurnStates
<1>3. \A x \in ToSet(lane') : turn'[x] = "queued" BY <1>1
<1>4. LaneShape' BY <1>1, <1>2, <1>3 DEF TerminalInvariant, LaneShape, Sendable
<1>5. ThreadShape' BY <1>1 DEF TerminalInvariant, ThreadShape, MaxCalls, Slow
<1> QED BY <1>4, <1>5

LEMMA CancelKeeps ==
  ASSUME TerminalInvariant, NEW t \in Turns, Cancel(t), UNCHANGED setting
  PROVE  TerminalInvariant'
<1> USE DEF Cancel, workVars, clientVars
<1>1. /\ RequestsMove /\ DOMAIN req' = DOMAIN req
      /\ \A q \in DOMAIN req : AsksNow(q)' => AsksNow(q)
  BY DeniedMoves DEF DenyTurn, RequestsMove, AsksNow, Open
<1>2. epoch \in Nat /\ answer \in [1..MaxRequests -> {"none", "yes", "no"}]
  BY DEF TerminalInvariant, ServerShape, RequestShape, Switches
<1>3. RequestShape' /\ ThreadsWait' /\ RequestsCount'
  BY <1>1, <1>2, RequestsStay
<1>4. QuestionIsReachable' BY <1>1, ReachableStays
<1>5. ServerShape'
  BY DEF TerminalInvariant, ServerShape, DenyTurn, Switches, ServerStates
<1>6. LaneShape' /\ ThreadShape'
  <2>1. /\ lane \in Seq(Turns) /\ IsInjective(lane)
    BY DEF TerminalInvariant, LaneShape
  <2>2. lane' \in Seq(Turns) /\ IsInjective(lane') /\ ToSet(lane') \subseteq ToSet(lane) \ {t}
    <3>1. CASE \E i \in DOMAIN lane : lane[i] = t /\ lane' = RemoveAt(lane, i)
      BY <2>1, <3>1, RemoveElements
    <3>2. CASE t \notin ToSet(lane) /\ UNCHANGED lane BY <2>1, <3>2
    <3> QED BY <3>1, <3>2 DEF LeaveLane
  <2> QED BY <2>2, CancelsKeep
<1>7. ScreenShape' BY <1>1 DEF TerminalInvariant, ScreenShape, RequestsMove
<1> QED BY <1>3, <1>4, <1>5, <1>6, <1>7 DEF TerminalInvariant

\* A step of the frame loop that leaves requests, threads and turns alone.
LEMMA ServerMoves ==
  ASSUME TerminalInvariant,
         UNCHANGED <<setting, workVars, reqVars, turnVars, answer, shown, epoch, home, mine,
                     cancelledTurns, shut>>,
         server' \in [at : ServerStates, turn : Turns \cup {"none"}], server'.at # "cancelling",
         server'.at = "switching" => epoch < Switches, closed' \in BOOLEAN,
         told' \subseteq {t \in Turns : turn[t] = "cancelled"}
  PROVE  TerminalInvariant'
<1> USE DEF workVars, reqVars, turnVars
<1>1. /\ RequestShape' /\ ThreadsWait' /\ RequestsCount' /\ QuestionIsReachable'
  BY NothingMoves
<1>2. ServerShape' /\ LaneShape' /\ ThreadShape' /\ ScreenShape'
  BY DEF TerminalInvariant, ServerShape, LaneShape, ThreadShape, ScreenShape, Switches,
         Slow, MaxCalls, Sendable
<1> QED BY <1>1, <1>2 DEF TerminalInvariant

LEMMA AnswerKeeps ==
  ASSUME TerminalInvariant, NEW r \in DOMAIN req, NEW v \in {"yes", "no"},
         Answer(r, v), UNCHANGED setting
  PROVE  TerminalInvariant'
<1> USE DEF Answer, workVars, rpcVars, turnVars
<1>1. /\ Len(req) \in Nat /\ DOMAIN req = 1..Len(req) /\ r \in 1..MaxRequests
      /\ \A q \in DOMAIN req : req[q] \in Requests
      /\ req[r] = [turn |-> req[r].turn, kind |-> req[r].kind, broker |-> req[r].broker,
                   at |-> req[r].at, verdict |-> req[r].verdict]
  BY RequestsAreTyped, RequestsAreBounded, BoundsAssumption
<1>2. /\ DOMAIN req' = DOMAIN req
      /\ \A q \in DOMAIN req : q # r => req'[q] = req[q]
      /\ req'[r] = [turn |-> req[r].turn, kind |-> req[r].kind, broker |-> req[r].broker,
                    at |-> req[r].at, verdict |-> v]
  BY <1>1
<1>3. req' \in Seq(Requests) /\ Len(req') = Len(req)
  <2>1. Len(req) \in Nat /\ \A q \in 1..Len(req) : req'[q] \in Requests
    BY <1>1, <1>2 DEF Requests
  <2>2. req' = [q \in 1..Len(req) |-> req'[q]] BY <1>1, <1>2
  <2> HIDE DEF Answer
  <2> QED BY <2>1, <2>2, SequenceOf
<1>4. /\ answer \in [1..MaxRequests -> {"none", "yes", "no"}]
      /\ \A q \in DOMAIN req :
           /\ req[q].verdict = "yes" => answer[q] = "yes"
           /\ req[q].at = "ended" => req[q].verdict # "open"
      /\ asking \in 0..Len(req) /\ shown \subseteq DOMAIN req /\ epoch \in Nat
  BY DEF TerminalInvariant, RequestShape, ScreenShape, ServerShape, Switches
<1>5. answer' \in [1..MaxRequests -> {"none", "yes", "no"}] /\ answer'[r] = v
      /\ \A q \in DOMAIN req : q # r => answer'[q] = answer[q]
  BY <1>1, <1>4
<1>6. RequestsMove BY <1>1, <1>2, <1>3, <1>4, <1>5 DEF RequestsMove, Open
<1>7. RequestShape' /\ ThreadsWait' /\ RequestsCount'
  BY <1>4, <1>5, <1>6, RequestsStay
<1>8. QuestionIsReachable' BY <1>2, <1>6, ReachableStays DEF AsksNow, Open
<1>9. ServerShape' /\ LaneShape' /\ ThreadShape' /\ ScreenShape'
  BY <1>2, <1>3 DEF TerminalInvariant, ServerShape, LaneShape, ThreadShape, ScreenShape,
                    Switches, Slow, MaxCalls, Sendable
<1> QED BY <1>7, <1>8, <1>9 DEF TerminalInvariant

\* The brokers of this epoch are closed.
LEMMA ClosingDenies ==
  ASSUME TerminalInvariant, NEW R, req' = Denied(R), UNCHANGED <<workVars, withdrawn>>,
         UNCHANGED <<answer, shown, asking, epoch, setting>>
  PROVE  /\ RequestShape' /\ ThreadsWait' /\ RequestsCount' /\ QuestionIsReachable'
         /\ ScreenShape'
<1>1. /\ RequestsMove /\ DOMAIN req' = DOMAIN req
      /\ \A q \in DOMAIN req : AsksNow(q)' => AsksNow(q)
  BY DeniedMoves DEF RequestsMove, AsksNow, Open
<1>2. epoch \in Nat /\ answer \in [1..MaxRequests -> {"none", "yes", "no"}]
  BY DEF TerminalInvariant, ServerShape, RequestShape, Switches
<1>3. RequestShape' /\ ThreadsWait' /\ RequestsCount'
  BY <1>1, <1>2, RequestsStay
<1>4. QuestionIsReachable' BY <1>1, ReachableStays
<1>5. ScreenShape' BY <1>1 DEF TerminalInvariant, ScreenShape, RequestsMove
<1> QED BY <1>3, <1>4, <1>5

LEMMA FinishSwitchKeeps ==
  ASSUME TerminalInvariant, NEW works \in BOOLEAN, FinishSwitch(works), UNCHANGED setting
  PROVE  TerminalInvariant'
<1> USE DEF FinishSwitch, workVars, clientVars, turnVars
<1>1. /\ RequestsMove /\ DOMAIN req' = DOMAIN req BY DeniedMoves
<1>2. /\ epoch \in Nat /\ epoch' = epoch + 1 /\ Switches \in Nat /\ epoch < Switches
      /\ shut \subseteq 0..Switches /\ 0..epoch - 1 \subseteq shut
      /\ answer \in [1..MaxRequests -> {"none", "yes", "no"}]
  BY BoundsAssumption DEF TerminalInvariant, ServerShape, RequestShape, Switches
<1>3. RequestShape' /\ ThreadsWait' /\ RequestsCount'
  BY <1>1, <1>2, RequestsStay
<1>4. QuestionIsReachable'
  <2>1. \A q \in DOMAIN req' : req'[q].broker <= epoch /\ req'[q].broker \in Nat
    BY <1>1, RequestsAreTyped DEF RequestsMove, TerminalInvariant, RequestShape, Requests
  <2> QED BY <1>2, <2>1 DEF QuestionIsReachable, Registered
<1>5. ServerShape'
  <2>1. epoch' \in 0..Switches BY <1>2
  <2>2. shut' \subseteq 0..Switches /\ 0..epoch' - 1 \subseteq shut'
    <3>1. shut' \subseteq shut \cup {epoch, epoch + 1} /\ shut \cup {epoch} \subseteq shut'
      BY Zenon
    <3>2. \A n \in 0..epoch' - 1 : n = epoch \/ n \in 0..epoch - 1
      BY ONLY <1>2
    <3> HIDE DEF FinishSwitch
    <3> QED BY SMTT(60), <1>2, <3>1, <3>2
  <2>3. Switches' = Switches /\ server'.at \in {"idle", "leaving"} /\ closed' \in BOOLEAN
        /\ server' \in [at : ServerStates, turn : Turns \cup {"none"}]
    BY DEF Switches, TerminalInvariant, ServerShape, ServerStates, LoopIdle, Leaving
  <2> QED BY <2>1, <2>2, <2>3 DEF TerminalInvariant, ServerShape
<1>6. LaneShape' /\ ThreadShape'
  BY DEF TerminalInvariant, LaneShape, ThreadShape, Slow, MaxCalls, Sendable
<1>7. ScreenShape'
  <2>1. shown \subseteq DOMAIN req /\ Len(req') = Len(req) /\ Len(req) \in Nat
    BY <1>1, RequestsAreTyped DEF TerminalInvariant, ScreenShape, RequestsMove
  <2>2. asking' = 0 /\ shown' = shown /\ DOMAIN req' = DOMAIN req BY <1>1
  <2> HIDE DEF FinishSwitch
  <2> QED BY <2>1, <2>2 DEF ScreenShape
<1> QED BY <1>3, <1>4, <1>5, <1>6, <1>7 DEF TerminalInvariant

LEMMA CloseKeeps ==
  ASSUME TerminalInvariant, PipeBreaks \/ Close, UNCHANGED setting
  PROVE  TerminalInvariant'
<1> USE DEF workVars, clientVars, turnVars
<1>1. /\ RequestShape' /\ ThreadsWait' /\ RequestsCount' /\ QuestionIsReachable'
      /\ ScreenShape'
  BY ClosingDenies DEF PipeBreaks, Close, CloseBrokers
<1>2. ServerShape'
  <2>1. /\ UNCHANGED <<epoch, cancelledTurns, mine, home, setting>>
        /\ shut' = shut \cup {epoch} /\ closed' = TRUE
        /\ server' = server \/ server' = [at |-> "closing", turn |-> "none"]
             \/ server' = Leaving
    BY DEF PipeBreaks, Close, CloseBrokers
  <2>2. ServerShape /\ epoch \in 0..Switches
    BY DEF TerminalInvariant, ServerShape
  <2> QED BY <2>1, <2>2 DEF ServerShape, Switches, ServerStates, Leaving
<1>3. CASE PipeBreaks
  <2>1. LaneShape' /\ ThreadShape'
    BY <1>3 DEF TerminalInvariant, LaneShape, ThreadShape, Slow, MaxCalls, Sendable, PipeBreaks
  <2> QED BY <1>1, <1>2, <2>1 DEF TerminalInvariant
<1>4. CASE Close
  BY <1>4, <1>1, <1>2, EmptyElements, CancelsKeep DEF Close, TerminalInvariant
<1> QED BY <1>3, <1>4

LEMMA FrameLoopKeeps ==
  ASSUME TerminalInvariant, ClientStep \/ ServerStep \/ PipeBreaks, UNCHANGED setting
  PROVE  TerminalInvariant'
<1> USE DEF workVars, reqVars, turnVars, clientVars
<1>1. /\ ServerShape /\ shown \subseteq DOMAIN req
      /\ told \subseteq {t \in Turns : turn[t] = "cancelled"}
  BY DEF TerminalInvariant, ScreenShape, LaneShape
<1>2. CASE CancelReply
  BY <1>1, <1>2, ServerMoves DEF CancelReply, ServerShape, ServerStates, LoopIdle, Leaving
<1>3. CASE Gone BY <1>1, <1>3, ServerMoves DEF Gone, ServerShape, ServerStates
<1>10. CASE NextLine
  BY <1>1, <1>10, ServerMoves DEF NextLine, ServerShape, ServerStates, Leaving
<1>4. CASE Switch
  BY <1>1, <1>4, ServerMoves DEF Switch, ServerShape, ServerStates
<1>5. CASE \E works \in BOOLEAN : FinishSwitch(works) BY <1>5, FinishSwitchKeeps
<1>6. CASE \E t \in Turns : Send(t) \/ Cancel(t) BY <1>6, SendKeeps, CancelKeeps
<1>7. CASE \E r \in shown : \E approved \in BOOLEAN : Confirm(r, approved)
  BY <1>1, <1>7, AnswerKeeps DEF Confirm
<1>8. CASE \E r \in Registered : Clarify(r)
  BY <1>8, AnswerKeeps DEF Clarify, Registered
<1>9. CASE PipeBreaks \/ Close BY <1>9, CloseKeeps
<1> QED
  BY <1>2, <1>3, <1>4, <1>5, <1>6, <1>7, <1>8, <1>9, <1>10 DEF ClientStep, ServerStep

-----------------------------------------------------------------------------
(* The runner and the worker thread.                                       *)

\* A thread goes to a place where it waits for nothing that may still come.
LEMMA ThreadGoes ==
  ASSUME TerminalInvariant, NEW t \in Turns, NEW place \in ThreadStates, NEW k \in Nat,
         thread' = [thread EXCEPT ![t] = [at |-> place, r |-> k]],
         calls' \in [Turns -> 0..MaxCalls], \A u \in Turns : u # t => calls'[u] = calls[u],
         calls[t] + (IF place = "prompt" THEN 1 ELSE 0) <= calls'[t] + Prompting(t),
         \/ place \notin {"wait", "granted"} /\ k = 0
         \/ /\ place = "granted" /\ k \in DOMAIN req /\ req[k].turn = t
            /\ req[k].at = "ended" /\ req[k].verdict = "yes",
         req' = req, withdrawn \subseteq withdrawn',
         \A r \in DOMAIN req :
           req[r].turn = t /\ req[r].at # "ended" => r \in withdrawn'
  PROVE  ThreadsWait' /\ RequestsCount'
<1>1. /\ thread \in [Turns -> [at : ThreadStates, r : Nat]]
      /\ calls \in [Turns -> 0..MaxCalls] /\ MaxCalls \in Nat
      /\ \A r \in DOMAIN req : req[r].turn \in Turns
  BY RequestsAreTyped, BoundsAssumption
     DEF TerminalInvariant, ThreadShape, Requests, MaxCalls, ServerShape
<1>2. /\ thread'[t] = [at |-> place, r |-> k]
      /\ \A u \in Turns : u # t => thread'[u] = thread[u]
  BY <1>1
<1>3. ThreadsWait'
  <2>1. ThreadsWait BY DEF TerminalInvariant
  <2>2. ASSUME NEW u \in Turns
        PROVE  /\ thread'[u].at \notin {"wait", "granted"} => thread'[u].r = 0
               /\ thread'[u].at \in {"wait", "granted"} =>
                    thread'[u].r \in DOMAIN req /\ req[thread'[u].r].turn = u
               /\ thread'[u].at = "granted" =>
                    req[thread'[u].r].at = "ended" /\ req[thread'[u].r].verdict = "yes"
    BY <1>2, <2>1 DEF ThreadsWait
  <2>3. ASSUME NEW r \in DOMAIN req, req[r].at # "ended", r \notin withdrawn'
        PROVE  thread'[req[r].turn] = [at |-> "wait", r |-> r]
    BY <1>1, <2>3, <1>2, <2>1 DEF ThreadsWait
  <2> QED BY <2>2, <2>3 DEF ThreadsWait
<1>4. RequestsCount'
  <2>1. \A u \in Turns : calls[u] \in Nat /\ calls'[u] \in Nat BY <1>1
  <2>2. \A u \in Turns : calls[u] + Prompting(u)' <= calls'[u] + Prompting(u)
    BY <1>2, <2>1 DEF Prompting
  <2>3. \A u \in Turns : Prompting(u) <= calls[u] /\ Prompting(u) \in {0, 1}
    BY DEF TerminalInvariant, RequestsCount, Prompting
  <2>4. \A u \in Turns : Prompting(u)' <= calls'[u]
    BY <2>1, <2>2, <2>3 DEF Prompting
  <2>5. PICK n \in [DOMAIN req -> Nat \ {0}] : CallsOf(n)
    BY DEF TerminalInvariant, RequestsCount
  <2>6. \A r \in DOMAIN req : n[r] + Prompting(req[r].turn)' <= calls'[req[r].turn]
    <3>1. SUFFICES ASSUME NEW r \in DOMAIN req
                   PROVE  n[r] + Prompting(req[r].turn)' <= calls'[req[r].turn]
      OBVIOUS
    <3> DEFINE u == req[r].turn
    <3>2. n[r] \in Nat /\ n[r] + Prompting(u) <= calls[u] /\ u \in Turns
      BY <1>1, <2>5 DEF CallsOf
    <3>3. Prompting(u) \in Nat /\ Prompting(u)' \in Nat BY DEF Prompting
    <3>4. calls[u] + Prompting(u)' <= calls'[u] + Prompting(u)
          /\ calls[u] \in Nat /\ calls'[u] \in Nat
      BY <2>1, <2>2, <3>2
    <3> QED BY <3>2, <3>3, <3>4
  <2>7. CallsOf(n)' BY <2>5, <2>6 DEF CallsOf, Prompting
  <2> QED BY <2>4, <2>5, <2>7 DEF RequestsCount
<1> QED BY <1>3, <1>4

\* What else such a step leaves as it is.
LEMMA ThreadGoesAlone ==
  ASSUME TerminalInvariant, UNCHANGED <<setting, rpcVars, req, asking, clientVars>>,
         withdrawn' \subseteq DOMAIN req, ran' \subseteq DOMAIN req
  PROVE  /\ ServerShape' /\ RequestShape' /\ ScreenShape' /\ QuestionIsReachable'
  BY DEF TerminalInvariant, rpcVars, clientVars, ServerShape, RequestShape, ScreenShape,
         QuestionIsReachable, Registered, Switches

\* No request of a turn is open whose thread does not wait.
LEMMA NobodyWaits ==
  ASSUME TerminalInvariant, NEW t \in Turns, thread[t].at # "wait"
  PROVE  \A r \in DOMAIN req : req[r].turn = t /\ req[r].at # "ended" => r \in withdrawn
<1>1. SUFFICES ASSUME NEW r \in DOMAIN req, req[r].turn = t, req[r].at # "ended",
                      r \notin withdrawn
               PROVE  FALSE
  OBVIOUS
<1>2. thread[t] = [at |-> "wait", r |-> r]
  BY <1>1 DEF TerminalInvariant, ThreadsWait
<1>3. thread[t].at = "wait" BY <1>2
<1> QED BY <1>3

LEMMA StartTurnKeeps ==
  ASSUME TerminalInvariant, StartTurn, UNCHANGED setting
  PROVE  TerminalInvariant'
<1> USE DEF StartTurn, reqVars
<1>1. PICK t \in Turns : t = Head(lane)
  BY TailElements DEF TerminalInvariant, LaneShape
<1>2. /\ lane' \in Seq(Turns) /\ IsInjective(lane') /\ t \notin ToSet(lane')
      /\ ToSet(lane) = ToSet(lane') \cup {t} /\ ToSet(lane) \subseteq Turns
  <2>1. lane \in Seq(Turns) /\ IsInjective(lane) /\ lane # <<>>
    BY DEF TerminalInvariant, LaneShape
  <2>2. lane' = Tail(lane) /\ ToSet(lane) \subseteq Turns BY <2>1 DEF ToSet
  <2> HIDE DEF StartTurn
  <2> QED BY <1>1, <2>1, <2>2, TailElements
<1>3. turn \in [Turns -> TurnStates] /\ (\A x \in ToSet(lane) : turn[x] = "queued")
  BY DEF TerminalInvariant, LaneShape
<1>4. /\ turn[t] = "queued" /\ turn'[t] = "running" /\ turn' \in [Turns -> TurnStates]
      /\ \A u \in Turns : u # t => turn'[u] = turn[u]
  BY <1>1, <1>2, <1>3 DEF TurnStates
<1>5. thread[t].at = "none" /\ thread \in [Turns -> [at : ThreadStates, r : Nat]]
      /\ calls \in [Turns -> 0..MaxCalls] /\ MaxCalls \in Nat
  BY <1>4, BoundsAssumption DEF TerminalInvariant, ThreadShape, ServerShape, MaxCalls
<1>6. /\ thread' = [thread EXCEPT ![t] = [at |-> "think", r |-> 0]]
      /\ thread'[t] = [at |-> "think", r |-> 0]
      /\ \A u \in Turns : u # t => thread'[u] = thread[u]
  BY <1>1, <1>5
<1>7. LaneShape'
  BY <1>2, <1>3, <1>4 DEF TerminalInvariant, LaneShape, clientVars, Sendable
<1>8. ThreadShape'
  BY <1>4, <1>5, <1>6 DEF TerminalInvariant, ThreadShape, MaxCalls, Slow, ThreadStates
<1>9. ThreadsWait' /\ RequestsCount'
  <2>1. \A r \in DOMAIN req : req[r].turn = t /\ req[r].at # "ended" => r \in withdrawn
    BY <1>5, NobodyWaits
  <2>2. calls[t] + 0 <= calls[t] + Prompting(t) BY <1>5 DEF Prompting
  <2> QED BY ZenonT(60), <1>5, <1>6, <2>1, <2>2, ThreadGoes DEF ThreadStates
<1>10. ServerShape' /\ RequestShape' /\ ScreenShape' /\ QuestionIsReachable'
  BY ThreadGoesAlone DEF TerminalInvariant, RequestShape
<1> QED BY <1>7, <1>8, <1>9, <1>10 DEF TerminalInvariant

LEMMA RunnerKeeps ==
  ASSUME TerminalInvariant, NEW t \in Turns, RunnerStep(t), UNCHANGED setting
  PROVE  TerminalInvariant'
<1>1. UNCHANGED <<workVars, reqVars, clientVars, rpcVars, setting, lane, cancelReq>>
  BY DEF RunnerStep, RunnerCancelled, RunnerEnds
<1>2. RequestShape' /\ ThreadsWait' /\ RequestsCount' /\ QuestionIsReachable'
  BY <1>1, NothingMoves DEF clientVars, rpcVars
<1>3. ServerShape' /\ ScreenShape'
  BY <1>1 DEF TerminalInvariant, ServerShape, ScreenShape, rpcVars, clientVars, reqVars,
              Switches
<1>4. /\ turn \in [Turns -> TurnStates] /\ token \subseteq Turns /\ turn[t] = "running"
      /\ token \subseteq token' /\ token' \subseteq Turns
      /\ turn' \in [Turns -> TurnStates] /\ \A u \in Turns : u # t => turn'[u] = turn[u]
      /\ \/ turn' = turn
         \/ /\ turn'[t] \in {"cancelled", "completed"}
            /\ turn'[t] = "cancelled" => t \in token'
            /\ thread[t].at = "done" \/ Slow
  BY DEF TerminalInvariant, LaneShape, RunnerStep, RunnerCancelled, RunnerEnds, TurnStates
<1>5. LaneShape'
  BY <1>1, <1>4 DEF TerminalInvariant, LaneShape, ToSet, clientVars, Sendable
<1>6. ThreadShape'
  BY <1>1, <1>4 DEF TerminalInvariant, ThreadShape, workVars, MaxCalls, Slow
<1> QED BY <1>2, <1>3, <1>5, <1>6 DEF TerminalInvariant

\* The thread waits for the request it posts.
LEMMA PostKeeps ==
  ASSUME TerminalInvariant, NEW t \in Turns, NEW kind \in {"confirm", "ask"},
         PostRequest(t, kind), thread[t].at \in {"prompt", "think"},
         calls' \in [Turns -> 0..MaxCalls], \A u \in Turns : u # t => calls'[u] = calls[u],
         calls'[t] = calls[t] + 1 - Prompting(t),
         UNCHANGED <<setting, rpcVars, turnVars, ran, withdrawn, asking, clientVars>>
  PROVE  TerminalInvariant'
<1> USE DEF PostRequest, Goto
<1>1. /\ Len(req) \in Nat /\ DOMAIN req = 1..Len(req)
      /\ \A q \in DOMAIN req : req[q] \in Requests /\ req[q].turn \in Turns
      /\ req \in Seq(Requests) /\ epoch \in Nat
      /\ calls \in [Turns -> 0..MaxCalls] /\ MaxCalls \in Nat
      /\ thread \in [Turns -> [at : ThreadStates, r : Nat]]
  <2> HIDE DEF PostRequest, Goto
  <2>1. /\ Len(req) \in Nat /\ DOMAIN req = 1..Len(req)
        /\ \A q \in DOMAIN req : req[q] \in Requests
    BY RequestsAreTyped
  <2>2. req \in Seq(Requests) BY DEF TerminalInvariant, RequestShape
  <2>3. setting \in Settings /\ epoch \in Nat
    BY BoundsAssumption DEF TerminalInvariant, ServerShape, Switches
  <2>4. MaxCalls \in Nat BY <2>3, BoundsAssumption DEF MaxCalls
  <2>5. /\ calls \in [Turns -> 0..MaxCalls]
        /\ thread \in [Turns -> [at : ThreadStates, r : Nat]]
    BY DEF TerminalInvariant, ThreadShape
  <2> QED BY <2>1, <2>2, <2>3, <2>4, <2>5 DEF Requests
<1> DEFINE new == [turn |-> t, kind |-> kind, broker |-> epoch, at |-> "posted",
                   verdict |-> "open"]
           last == Len(req) + 1
<1>2. new \in Requests BY <1>1 DEF Requests
<1>3. /\ req' \in Seq(Requests) /\ DOMAIN req' = 1..last /\ last \in Nat
      /\ \A q \in DOMAIN req : req'[q] = req[q] /\ q \in DOMAIN req' /\ q # last
      /\ \A q \in DOMAIN req' : q = last \/ q \in DOMAIN req
      /\ req'[last] = new /\ last \in DOMAIN req'
  <2>1. req' = Append(req, new) OBVIOUS
  <2>2. req' \in Seq(Requests) /\ Len(req') = last /\ req'[last] = new
        /\ \A q \in 1..Len(req) : req'[q] = req[q]
    <3> HIDE DEF new, PostRequest
    <3> QED BY <1>1, <1>2, <2>1
  <2> HIDE DEF new, PostRequest
  <2> QED BY <1>1, <2>2
<1>4. /\ thread'[t] = [at |-> "wait", r |-> last]
      /\ thread' \in [Turns -> [at : ThreadStates, r : Nat]]
      /\ \A u \in Turns : u # t => thread'[u] = thread[u]
  BY <1>1, <1>3 DEF ThreadStates
<1>5. /\ req'[last].turn = t /\ req'[last].at = "posted" /\ req'[last].verdict = "open"
      /\ req'[last].broker = epoch
  BY <1>3
<1> HIDE DEF PostRequest, Goto, new, last
<1>6. RequestShape'
  <2>1. /\ withdrawn \subseteq DOMAIN req /\ ran \subseteq DOMAIN req
        /\ answer \in [1..MaxRequests -> {"none", "yes", "no"}]
        /\ \A r \in DOMAIN req :
             /\ req[r].broker <= epoch
             /\ req[r].verdict = "yes" => answer[r] = "yes"
             /\ req[r].at = "ended" => req[r].verdict # "open"
    BY DEF TerminalInvariant, RequestShape
  <2>2. UNCHANGED <<withdrawn, ran, answer, epoch>> BY DEF rpcVars, clientVars
  <2>3. \A r \in DOMAIN req' :
             /\ req'[r].broker <= epoch'
             /\ req'[r].verdict = "yes" => answer'[r] = "yes"
             /\ req'[r].at = "ended" => req'[r].verdict # "open"
    BY <1>1, <1>3, <1>5, <2>1, <2>2
  <2> QED BY <1>3, <2>1, <2>2, <2>3 DEF RequestShape
<1>7. ScreenShape'
  BY <1>3, <1>1 DEF last, TerminalInvariant, ScreenShape, clientVars
<1>8. ThreadsWait'
  <2>1. ThreadsWait /\ thread[t].at # "wait" BY DEF TerminalInvariant
  <2>2. ASSUME NEW u \in Turns
        PROVE  /\ thread'[u].at \notin {"wait", "granted"} => thread'[u].r = 0
               /\ thread'[u].at \in {"wait", "granted"} =>
                    thread'[u].r \in DOMAIN req' /\ req'[thread'[u].r].turn = u
               /\ thread'[u].at = "granted" =>
                    req'[thread'[u].r].at = "ended" /\ req'[thread'[u].r].verdict = "yes"
    BY <1>3, <1>4, <1>5, <2>1 DEF ThreadsWait
  <2>3. ASSUME NEW r \in DOMAIN req', req'[r].at # "ended", r \notin withdrawn'
        PROVE  thread'[req'[r].turn] = [at |-> "wait", r |-> r]
    <3>1. CASE r = last BY <1>4, <1>5, <3>1
    <3>2. CASE r \in DOMAIN req
      BY <1>3, <2>1, <2>3, <3>2, <1>1, <1>4, NobodyWaits DEF ThreadsWait
    <3> QED BY <1>3, <3>1, <3>2
  <2> QED BY <2>2, <2>3 DEF ThreadsWait
<1>9. RequestsCount'
  <2>1. PICK n \in [DOMAIN req -> Nat \ {0}] : CallsOf(n)
    BY DEF TerminalInvariant, RequestsCount
  <2> DEFINE p == [u \in Turns |-> IF thread'[u].at = "prompt" THEN 1 ELSE 0]
  <2>2. /\ p[t] = 0 /\ \A u \in Turns : u # t => p[u] = Prompting(u)
        /\ \A u \in Turns : Prompting(u) \in {0, 1} /\ Prompting(u) <= calls[u]
    BY <1>4 DEF Prompting, TerminalInvariant, RequestsCount
  <2>3. calls'[t] \in Nat \ {0} /\ calls[t] \in Nat
    <3>1. calls[t] \in Nat /\ Prompting(t) \in {0, 1} /\ Prompting(t) <= calls[t]
      BY <1>1, <2>2
    <3>2. calls'[t] = calls[t] + 1 - Prompting(t) OBVIOUS
    <3> QED BY <3>1, <3>2
  <2> DEFINE m == [r \in DOMAIN req' |-> IF r = last THEN calls'[t] ELSE n[r]]
  <2>4. /\ m \in [DOMAIN req' -> Nat \ {0}] /\ m[last] = calls'[t]
        /\ \A r \in DOMAIN req : m[r] = n[r] /\ n[r] \in Nat
    BY <1>3, <2>1, <2>3
  <2>5. \A r \in DOMAIN req : req[r].turn = t => n[r] < calls'[t]
    BY <2>1, <2>2, <2>3, <2>4 DEF CallsOf
  <2> HIDE DEF m, p
  <2>6. ASSUME NEW r \in DOMAIN req'
        PROVE  m[r] + p[req'[r].turn] <= calls'[req'[r].turn]
    <3>1. CASE r = last BY <1>5, <2>2, <2>3, <2>4, <3>1
    <3>2. CASE r \in DOMAIN req /\ req[r].turn = t
      BY <1>3, <2>2, <2>3, <2>4, <2>5, <3>2
    <3>3. CASE r \in DOMAIN req /\ req[r].turn # t
      BY <1>1, <1>3, <2>1, <2>2, <2>4, <3>3 DEF CallsOf
    <3> QED BY <1>3, <3>1, <3>2, <3>3
  <2>7. ASSUME NEW r \in DOMAIN req', NEW s \in DOMAIN req', r # s,
               req'[r].turn = req'[s].turn
        PROVE  m[r] # m[s]
    <3>1. CASE r = last BY <1>3, <1>5, <2>3, <2>4, <2>5, <2>7, <3>1
    <3>2. CASE s = last BY <1>3, <1>5, <2>3, <2>4, <2>5, <2>7, <3>2
    <3>3. CASE r \in DOMAIN req /\ s \in DOMAIN req
      BY <1>3, <2>1, <2>4, <2>7, <3>3 DEF CallsOf
    <3> QED BY <1>3, <3>1, <3>2, <3>3
  <2>8. \A r \in DOMAIN req' :
          m[r] + (IF thread'[req'[r].turn].at = "prompt" THEN 1 ELSE 0)
            <= calls'[req'[r].turn]
    BY <1>1, <1>3, <1>5, <2>6 DEF p
  <2>9. \A u \in Turns : (IF thread'[u].at = "prompt" THEN 1 ELSE 0) <= calls'[u]
    BY <2>2, <2>3 DEF p
  <2>10. \E k \in [DOMAIN req' -> Nat \ {0}] :
           /\ k \in [DOMAIN req' -> Nat \ {0}]
           /\ \A r \in DOMAIN req' :
                k[r] + (IF thread'[req'[r].turn].at = "prompt" THEN 1 ELSE 0)
                  <= calls'[req'[r].turn]
           /\ \A r, s \in DOMAIN req' : r # s /\ req'[r].turn = req'[s].turn => k[r] # k[s]
    BY <2>7, <2>4, <2>8
  <2> QED BY <2>9, <2>10 DEF RequestsCount, CallsOf, Prompting
<1>10. QuestionIsReachable'
  BY <1>3, <1>5 DEF TerminalInvariant, QuestionIsReachable, Registered, rpcVars
<1>11. ServerShape' /\ LaneShape'
  BY DEF TerminalInvariant, ServerShape, LaneShape, rpcVars, turnVars, clientVars, Switches,
         Sendable
<1>12. ThreadShape'
  BY <1>1, <1>4 DEF TerminalInvariant, ThreadShape, turnVars, MaxCalls, Slow
<1> QED BY <1>6, <1>7, <1>8, <1>9, <1>10, <1>11, <1>12 DEF TerminalInvariant

LEMMA WorkerKeeps ==
  ASSUME TerminalInvariant, NEW t \in Turns, WorkerStep(t), UNCHANGED setting
  PROVE  TerminalInvariant'
<1> USE DEF Goto, reqVars
<1>1. /\ thread \in [Turns -> [at : ThreadStates, r : Nat]]
      /\ calls \in [Turns -> 0..MaxCalls] /\ MaxCalls \in Nat /\ MaxCalls' = MaxCalls
      /\ Slow' = Slow
      /\ withdrawn \subseteq DOMAIN req /\ ran \subseteq DOMAIN req
  BY BoundsAssumption DEF TerminalInvariant, ThreadShape, ServerShape, RequestShape,
                          MaxCalls, Slow
<1>2. /\ thread[t].at \in {"wait", "granted"} =>
           thread[t].r \in DOMAIN req /\ req[thread[t].r].turn = t
      /\ \A r \in DOMAIN req : req[r].turn = t /\ req[r].at # "ended" =>
           r \in withdrawn \/ thread[t] = [at |-> "wait", r |-> r]
      /\ thread[t].at # "none" => turn[t] # "unsent" /\ turn[t] # "queued"
  BY DEF TerminalInvariant, ThreadsWait, ThreadShape
<1> DEFINE Others == UNCHANGED <<setting, rpcVars, turnVars, clientVars>>
\* A step to a place where nothing is waited for, from one where something was.
<1>3. ASSUME NEW place \in {"think", "granted", "tool", "done", "prompt"}, NEW k \in Nat,
             thread' = [thread EXCEPT ![t] = [at |-> place, r |-> k]],
             place = "granted" => thread[t].at = "wait" /\ k = thread[t].r /\
               req[k].at = "ended" /\ req[k].verdict = "yes",
             place # "granted" => k = 0,
             calls' \in [Turns -> 0..MaxCalls],
             \A u \in Turns : u # t => calls'[u] = calls[u],
             calls[t] + (IF place = "prompt" THEN 1 ELSE 0) <= calls'[t] + Prompting(t),
             thread[t].at \notin {"none", "done"}, Others, UNCHANGED <<req, asking>>,
             withdrawn' = withdrawn \/
               (thread[t].at = "wait" /\ withdrawn' = withdrawn \cup {thread[t].r}),
             thread[t].at = "wait" =>
               thread[t].r \in withdrawn' \/ req[thread[t].r].at = "ended",
             ran' \subseteq DOMAIN req
      PROVE  TerminalInvariant'
  <2>1. withdrawn \subseteq withdrawn' /\ withdrawn' \subseteq DOMAIN req
    BY <1>1, <1>2, <1>3
  <2>2. \A r \in DOMAIN req : req[r].turn = t /\ req[r].at # "ended" => r \in withdrawn'
    <3>1. SUFFICES ASSUME NEW r \in DOMAIN req, req[r].turn = t, req[r].at # "ended",
                          r \notin withdrawn'
                   PROVE  FALSE
      OBVIOUS
    <3>2. thread[t] = [at |-> "wait", r |-> r] BY <1>2, <2>1, <3>1
    <3>3. thread[t].at = "wait" /\ thread[t].r = r BY <3>2
    <3> QED BY <1>3, <3>1, <3>3
  <2>3. \/ place \notin {"wait", "granted"} /\ k = 0
        \/ /\ place = "granted" /\ k \in DOMAIN req /\ req[k].turn = t
           /\ req[k].at = "ended" /\ req[k].verdict = "yes"
    BY <1>2, <1>3
  <2>4. ThreadsWait' /\ RequestsCount'
    BY <1>3, <2>1, <2>2, <2>3, ThreadGoes DEF ThreadStates
  <2>5. /\ ServerShape' /\ RequestShape' /\ ScreenShape' /\ QuestionIsReachable'
    BY <1>3, <2>1, ThreadGoesAlone
  <2>6. LaneShape'
    BY <1>3 DEF TerminalInvariant, LaneShape, turnVars, clientVars, Sendable
  <2>7. ThreadShape'
    BY <1>1, <1>3, <1>2 DEF ThreadStates, turnVars, TerminalInvariant, ThreadShape
  <2> QED BY <2>4, <2>5, <2>6, <2>7 DEF TerminalInvariant
<1> HIDE DEF Others
<1>4. CASE thread[t].at = "think" /\ calls[t] < MaxCalls /\ UNCHANGED thread
           /\ calls' = [calls EXCEPT ![t] = @ + 1] /\ Others
           /\ UNCHANGED <<req, asking, withdrawn, ran>>
  BY <1>1, <1>4, <1>3 DEF TerminalInvariant, ThreadsWait, Prompting
<1>5. CASE ProposeWrite(t)
  <2>1. CASE Bound(t)
    BY <1>5, <2>1, <1>1, <1>3 DEF ProposeWrite, MayAsk, Asked, Others, Prompting
  <2>2. CASE ~Bound(t)
    BY <1>4, <1>5, <2>2 DEF ProposeWrite, MayAsk, Asked, Others
  <2> QED BY <2>1, <2>2
\* The steps that count no call.
<1>6. ASSUME NEW place \in {"think", "granted", "tool", "done"}, NEW k \in Nat,
             thread' = [thread EXCEPT ![t] = [at |-> place, r |-> k]],
             place = "granted" => thread[t].at = "wait" /\ k = thread[t].r /\
               req[k].at = "ended" /\ req[k].verdict = "yes",
             place # "granted" => k = 0, calls' = calls,
             thread[t].at \notin {"none", "done"}, Others, UNCHANGED <<req, asking>>,
             withdrawn' = withdrawn \/
               (thread[t].at = "wait" /\ withdrawn' = withdrawn \cup {thread[t].r}),
             thread[t].at = "wait" =>
               thread[t].r \in withdrawn' \/ req[thread[t].r].at = "ended",
             ran' \subseteq DOMAIN req
      PROVE  TerminalInvariant'
  <2>1. calls[t] + 0 <= calls'[t] + Prompting(t) BY <1>1, <1>6 DEF Prompting
  <2> QED BY <1>1, <1>3, <1>6, <2>1
<1>7. CASE Approval(t)
  <2>1. CASE closed BY <1>1, <1>6, <1>7, <2>1 DEF Approval, Others
  <2>2. CASE ~closed BY <1>1, <1>7, <2>2, PostKeeps DEF Approval, Prompting
  <2> QED BY <2>1, <2>2
<1>8. CASE AskUser(t)
  <2>1. CASE Bound(t) /\ ~closed /\ t \notin token
    BY <1>8, <2>1, <1>1, PostKeeps DEF AskUser, MayAsk, Asked, Prompting
  <2>2. CASE ~(Bound(t) /\ ~closed /\ t \notin token)
    BY <1>4, <1>8, <2>2 DEF AskUser, MayAsk, Asked, Others
  <2> QED BY <2>1, <2>2
<1>9. CASE TakeVerdict(t)
  <2>1. thread[t].r \in Nat BY <1>1
  <2>2. CASE req[thread[t].r].kind = "confirm" /\ req[thread[t].r].verdict = "yes"
    BY <1>1, <1>6, <1>9, <2>1, <2>2 DEF TakeVerdict, Others
  <2>3. CASE ~(req[thread[t].r].kind = "confirm" /\ req[thread[t].r].verdict = "yes")
    BY <1>1, <1>6, <1>9, <2>1, <2>3 DEF TakeVerdict, Others
  <2> QED BY <2>2, <2>3
<1>10. CASE GiveUp(t) BY <1>1, <1>6, <1>10 DEF GiveUp, Others
<1>11. CASE Execute(t) BY <1>1, <1>2, <1>11, <1>6 DEF Execute, Others
<1>12. CASE ToolReturns(t) \/ WorkerEnds(t)
  BY <1>1, <1>6, <1>12 DEF ToolReturns, WorkerEnds, Others
<1> QED BY <1>5, <1>7, <1>8, <1>9, <1>10, <1>11, <1>12 DEF WorkerStep

-----------------------------------------------------------------------------
(* The coroutine of a request.                                             *)

\* A posted request is registered, and those of R are denied.
LEMMA PendingMoves ==
  ASSUME TerminalInvariant, NEW R, NEW r \in DOMAIN req, req[r].at = "posted",
         req' = [Denied(R) EXCEPT ![r].at = "pending"], answer' = answer
  PROVE  /\ RequestsMove /\ DOMAIN req' = DOMAIN req
         /\ \A q \in DOMAIN req : q # r =>
              /\ req'[q].at = req[q].at
              /\ req'[q].verdict = IF q \in R /\ Open(q) THEN "no" ELSE req[q].verdict
<1>1. /\ Len(req) \in Nat /\ DOMAIN req = 1..Len(req)
      /\ \A q \in DOMAIN req :
           /\ req[q] \in Requests
           /\ req[q] = [turn |-> req[q].turn, kind |-> req[q].kind,
                        broker |-> req[q].broker, at |-> req[q].at,
                        verdict |-> req[q].verdict]
  BY RequestsAreTyped
<1> DEFINE d == Denied(R)
<1>2. /\ DOMAIN d = DOMAIN req /\ d[r] = req[r]
      /\ \A q \in DOMAIN req : d[q] =
           IF q \in R /\ Open(q)
             THEN [turn |-> req[q].turn, kind |-> req[q].kind, broker |-> req[q].broker,
                   at |-> req[q].at, verdict |-> "no"]
             ELSE req[q]
  BY <1>1 DEF Denied, Open
<1>3. req' = [d EXCEPT ![r].at = "pending"] OBVIOUS
<1> HIDE DEF d
<1>4. /\ DOMAIN req' = DOMAIN req
      /\ \A q \in DOMAIN req : q # r => req'[q] = d[q]
      /\ req'[r] = [turn |-> req[r].turn, kind |-> req[r].kind, broker |-> req[r].broker,
                    at |-> "pending", verdict |-> req[r].verdict]
  BY <1>1, <1>2, <1>3
<1>5. req' \in Seq(Requests) /\ Len(req') = Len(req)
  <2>1. Len(req) \in Nat /\ \A q \in 1..Len(req) : req'[q] \in Requests
    BY <1>1, <1>2, <1>4 DEF Requests
  <2>2. req' = [q \in 1..Len(req) |-> req'[q]] BY <1>1, <1>2, <1>3, <1>4
  <2>3. PICK s : s = req' OBVIOUS
  <2>4. s = [q \in 1..Len(req) |-> s[q]] /\ \A q \in 1..Len(req) : s[q] \in Requests
    BY <2>1, <2>2, <2>3
  <2>5. s \in Seq(Requests) /\ Len(s) = Len(req) BY <2>1, <2>4, SequenceOf
  <2> QED BY <2>3, <2>5
<1>6. \A q \in DOMAIN req :
        /\ req[q].verdict = "yes" => answer[q] = "yes"
        /\ req[q].at = "ended" => req[q].verdict # "open"
  BY DEF TerminalInvariant, RequestShape
<1>7. \A q \in DOMAIN req : q # r =>
        /\ req'[q].turn = req[q].turn /\ req'[q].kind = req[q].kind
        /\ req'[q].broker = req[q].broker /\ req'[q].at = req[q].at
        /\ req'[q].verdict = IF q \in R /\ Open(q) THEN "no" ELSE req[q].verdict
        /\ req[q].at = "ended" => req'[q] = req[q]
  BY <1>2, <1>4 DEF Open
<1> QED BY <1>4, <1>5, <1>6, <1>7 DEF RequestsMove

\* A step of a coroutine, given what it does to the requests and to the slot.
LEMMA CoroutineKeeps ==
  ASSUME TerminalInvariant, RequestsMove, QuestionIsReachable',
         UNCHANGED <<setting, rpcVars, turnVars, workVars, withdrawn, clientVars>>,
         asking' \in 0..Len(req)
  PROVE  TerminalInvariant'
<1> USE DEF workVars
<1>1. epoch \in Nat /\ answer' \in [1..MaxRequests -> {"none", "yes", "no"}] /\ epoch' = epoch
  BY DEF TerminalInvariant, ServerShape, RequestShape, Switches, rpcVars, clientVars
<1>2. RequestShape' /\ ThreadsWait' /\ RequestsCount' BY <1>1, RequestsStay
<1>3. ScreenShape'
  BY RequestsAreTyped DEF TerminalInvariant, ScreenShape, RequestsMove, clientVars
<1>4. ServerShape' /\ LaneShape' /\ ThreadShape'
  BY DEF TerminalInvariant, ServerShape, LaneShape, ThreadShape, rpcVars, turnVars,
         clientVars, Switches, Slow, MaxCalls, Sendable
<1> QED BY <1>2, <1>3, <1>4 DEF TerminalInvariant

\* A request that ends gives up the slot that it holds.
LEMMA EndKeeps ==
  ASSUME TerminalInvariant, NEW r \in DOMAIN req, NEW v \in {"yes", "no"},
         req[r].at # "ended", v = "yes" => req[r].verdict = "yes", End(r, v),
         LeaveSlot(r) \/ (req[r].at = "posted" /\ UNCHANGED asking),
         UNCHANGED <<setting, rpcVars, turnVars, workVars, withdrawn, clientVars>>
  PROVE  TerminalInvariant'
<1>1. /\ RequestsMove /\ DOMAIN req' = DOMAIN req /\ req'[r].at = "ended"
      /\ \A q \in DOMAIN req : q # r => req'[q] = req[q]
  BY EndMoves DEF clientVars
<1>2. asking \in 0..Len(req) /\ Len(req) \in Nat /\ QuestionIsReachable
  BY RequestsAreTyped DEF TerminalInvariant, ScreenShape
<1>3. asking' \in 0..Len(req) /\ (asking' = asking \/ (asking = r /\ asking' = 0))
  BY <1>2 DEF LeaveSlot
<1>4. QuestionIsReachable'
  BY <1>1, <1>2, <1>3 DEF QuestionIsReachable, Registered, rpcVars
<1> QED BY <1>1, <1>3, <1>4, CoroutineKeeps

LEMMA RegisterKeeps ==
  ASSUME TerminalInvariant, NEW r \in DOMAIN req, Begin(r), UNCHANGED setting
  PROVE  TerminalInvariant'
<1> DEFINE Elsewhere == UNCHANGED <<setting, rpcVars, turnVars, workVars, withdrawn, clientVars>>
<1>1. /\ req[r].at = "posted" /\ Elsewhere
      /\ \/ End(r, "no") /\ UNCHANGED asking
         \/ req' = [req EXCEPT ![r].at = "pending"] /\ UNCHANGED asking /\ req[r].kind = "confirm"
         \/ req' = [Denied({asking}) EXCEPT ![r].at = "pending"] /\ asking' = r
  BY DEF Begin
<1>2. /\ asking \in 0..Len(req) /\ Len(req) \in Nat /\ DOMAIN req = 1..Len(req)
      /\ QuestionIsReachable /\ req \in Seq(Requests)
  BY RequestsAreTyped DEF TerminalInvariant, ScreenShape, RequestShape
<1>3. CASE End(r, "no") /\ UNCHANGED asking BY <1>1, <1>3, EndKeeps
<1>4. CASE /\ req' = [req EXCEPT ![r].at = "pending"] /\ UNCHANGED asking
           /\ req[r].kind = "confirm"
  <2>1. Denied({}) = req BY <1>2 DEF Denied
  <2>2. req' = [Denied({}) EXCEPT ![r].at = "pending"] /\ answer' = answer
    BY <1>1, <1>4, <2>1 DEF clientVars
  <2>3. /\ RequestsMove /\ DOMAIN req' = DOMAIN req
        /\ \A q \in DOMAIN req : q # r =>
              /\ req'[q].at = req[q].at /\ req'[q].verdict = req[q].verdict
    BY <1>1, <2>2, PendingMoves
  <2>4. QuestionIsReachable'
    BY <1>1, <1>2, <1>4, <2>3 DEF QuestionIsReachable, Registered, rpcVars, RequestsMove
  <2> QED BY <1>1, <1>2, <1>4, <2>3, <2>4, CoroutineKeeps
<1>5. CASE req' = [Denied({asking}) EXCEPT ![r].at = "pending"] /\ asking' = r
  <2>1. /\ RequestsMove /\ DOMAIN req' = DOMAIN req
        /\ \A q \in DOMAIN req : q # r =>
              /\ req'[q].at = req[q].at
              /\ req'[q].verdict = IF q \in {asking} /\ Open(q) THEN "no" ELSE req[q].verdict
    BY <1>1, <1>5, PendingMoves DEF clientVars
  <2>2. QuestionIsReachable'
    <3>1. SUFFICES ASSUME NEW q \in DOMAIN req, q # r, req'[q].at = "pending",
                          req'[q].kind = "ask", req'[q].verdict = "open",
                          req'[q].broker = epoch'
                   PROVE  FALSE
      BY <1>5, <2>1 DEF QuestionIsReachable, Registered
    <3>2. /\ req[q].at = "pending" /\ req[q].kind = "ask" /\ req[q].broker = epoch
          /\ req[q].verdict = "open" /\ q # asking
      BY <1>1, <2>1, <3>1 DEF RequestsMove, rpcVars, Open
    <3> QED BY <1>2, <3>2 DEF QuestionIsReachable, Registered
  <2> QED BY <1>1, <1>2, <1>5, <2>1, <2>2, CoroutineKeeps
<1> QED BY <1>1, <1>3, <1>4, <1>5

LEMMA LoopKeeps ==
  ASSUME TerminalInvariant, NEW r \in DOMAIN req, LoopStep(r) \/ Expire(r), UNCHANGED setting
  PROVE  TerminalInvariant'
<1>1. CASE Begin(r) BY <1>1, RegisterKeeps
<1>2. CASE Show(r)
  <2>1. UNCHANGED <<workVars, reqVars, answer, epoch, setting>> /\ shown' \subseteq DOMAIN req
    BY <1>2 DEF Show, rpcVars, TerminalInvariant, ScreenShape
  <2>2. /\ RequestShape' /\ ThreadsWait' /\ RequestsCount' /\ QuestionIsReachable'
    BY <2>1, NothingMoves
  <2>3. ServerShape' /\ LaneShape' /\ ThreadShape' /\ ScreenShape'
    BY <1>2, <2>1 DEF Show, TerminalInvariant, ServerShape, LaneShape, ThreadShape, rpcVars,
       turnVars, workVars, reqVars, Switches, Slow, MaxCalls, Sendable, ScreenShape
  <2> QED BY <2>2, <2>3 DEF TerminalInvariant
<1>3. CASE Finish(r) BY <1>3, RequestsAreTyped, EndKeeps DEF Finish, Requests
<1>4. CASE Expire(r) \/ Withdraw(r) BY <1>4, EndKeeps DEF Expire, Withdraw
<1> QED BY <1>1, <1>2, <1>3, <1>4 DEF LoopStep

-----------------------------------------------------------------------------
(* TerminalRpc: the theorems.                                              *)

LEMMA TerminalStarts == TerminalInit => TerminalInvariant
<1> SUFFICES ASSUME TerminalInit
             PROVE  TerminalInvariant
  OBVIOUS
<1> USE DEF TerminalInit
<1>1. /\ setting \in Settings /\ Switches \in Nat /\ MaxSwitches \in Nat /\ MaxCalls \in Nat
      /\ Sendable \subseteq Turns /\ MaxRequests \in Nat
  BY BoundsAssumption DEF Switches, MaxCalls, Sendable
<1>2. ServerShape
  <2>1. /\ epoch \in 0..Switches /\ 0..epoch - 1 = {} /\ shut = {}
        /\ home \in [Turns -> 0..MaxSwitches]
    BY <1>1
  <2>2. server \in [at : ServerStates, turn : Turns \cup {"none"}] /\ server.at = "idle"
    BY DEF ServerStates
  <2> QED BY <1>1, <2>1, <2>2 DEF ServerShape
<1>3. LaneShape BY EmptyElements DEF LaneShape, TurnStates
<1>4. ThreadShape BY <1>1 DEF ThreadShape, ThreadStates
<1>5. req = <<>> /\ DOMAIN req = {} /\ req \in Seq(Requests) /\ Len(req) = 0
  OBVIOUS
<1>6. RequestShape /\ ScreenShape /\ QuestionIsReachable
  BY <1>5 DEF RequestShape, ScreenShape, QuestionIsReachable, Registered
<1>7. ThreadsWait BY <1>5 DEF ThreadsWait
<1>8. RequestsCount
  <2>1. \E n : n \in [DOMAIN req -> Nat \ {0}]
    <3>1. [r \in DOMAIN req |-> 1] \in [DOMAIN req -> Nat \ {0}] OBVIOUS
    <3> QED BY <3>1
  <2>2. PICK n : n \in [DOMAIN req -> Nat \ {0}] BY <2>1
  <2>3. CallsOf(n) BY <1>5, <2>2 DEF CallsOf
  <2>4. \A t \in Turns : Prompting(t) <= calls[t] BY DEF Prompting
  <2> QED BY <2>2, <2>3, <2>4 DEF RequestsCount
<1> QED BY <1>2, <1>3, <1>4, <1>6, <1>7, <1>8 DEF TerminalInvariant

LEMMA TerminalInvariantIsInductive ==
  TerminalInvariant /\ [TerminalNext]_terminalVars => TerminalInvariant'
<1> SUFFICES ASSUME TerminalInvariant, [TerminalNext]_terminalVars
             PROVE  TerminalInvariant'
  OBVIOUS
<1>1. CASE UNCHANGED terminalVars
  <2>1. UNCHANGED <<setting, workVars, reqVars, turnVars, rpcVars, clientVars>>
    BY <1>1 DEF terminalVars
  <2>2. RequestShape' /\ ThreadsWait' /\ RequestsCount' /\ QuestionIsReachable'
    BY <2>1, NothingMoves DEF clientVars, rpcVars
  <2>3. ServerShape' /\ LaneShape' /\ ThreadShape' /\ ScreenShape'
    BY <2>1 DEF TerminalInvariant, ServerShape, LaneShape, ThreadShape, rpcVars, ScreenShape,
       turnVars, workVars, reqVars, clientVars, Switches, Slow, MaxCalls, Sendable
  <2> QED BY <2>2, <2>3 DEF TerminalInvariant
<1>2. CASE TerminalNext
  BY <1>1, <1>2, FrameLoopKeeps, StartTurnKeeps, WorkerKeeps, RunnerKeeps, LoopKeeps
     DEF TerminalNext, Stopped
<1> QED BY <1>1, <1>2

(* Whatever the client, the timers and the threads do, the question that    *)
(* waits is the one an answer reaches, and where threads end with their     *)
(* turns a prompt that can be answered is waited for (PromptsAreLive).      *)
THEOREM PromptsStayLive == TerminalSpec => []PromptsAreLive
<1>1. TerminalInvariant => PromptsAreLive
  <2> SUFFICES ASSUME TerminalInvariant
               PROVE  PromptsAreLive
    OBVIOUS
  <2> USE DEF TerminalInvariant
  <2>1. /\ Len(req) \in Nat /\ DOMAIN req = 1..Len(req) /\ Len(req) <= MaxRequests
        /\ \A q \in DOMAIN req : req[q] \in Requests
    BY RequestsAreTyped, RequestsAreBounded
  <2>2. TypeOK
    <3>1. /\ MaxRequests \in Nat /\ MaxSwitches \in Nat /\ Switches \in 0..MaxSwitches
          /\ epoch \in 0..Switches /\ shut \subseteq 0..Switches
      BY BoundsAssumption DEF ServerShape, Switches
    <3>2. epoch \in 0..MaxSwitches /\ shut \subseteq 0..MaxSwitches BY <3>1
    <3>3. req \in Seq([turn : Turns, kind : {"confirm", "ask"}, broker : 0..MaxSwitches,
                       at : {"posted", "pending", "ended"}, verdict : {"open", "yes", "no"}])
      <4>1. \A q \in DOMAIN req : req[q].broker \in 0..MaxSwitches
        BY <2>1, <3>1, <3>2 DEF RequestShape, Requests
      <4>2. \A q \in 1..Len(req) : req[q] \in
              [turn : Turns, kind : {"confirm", "ask"}, broker : 0..MaxSwitches,
               at : {"posted", "pending", "ended"}, verdict : {"open", "yes", "no"}]
        BY <2>1, <4>1 DEF Requests
      <4>3. req \in Seq(Requests) BY DEF RequestShape
      <4>4. req = [q \in 1..Len(req) |-> req[q]] BY <2>1, <4>3
      <4> QED BY <2>1, <4>2, <4>4, SequenceOf
    <3>4. thread \in [Turns -> [at : ThreadStates, r : 0..MaxRequests]]
      BY <2>1, <3>1 DEF ThreadsWait, ThreadShape
    <3> QED
      BY <3>2, <3>3, <3>4 DEF TypeOK, ServerShape, LaneShape, ThreadShape, RequestShape,
                              ScreenShape
  <2>3. PromptHasItsThread
    <3>1. SUFFICES ASSUME ~Slow, NEW r \in Registered, Open(r), r \notin withdrawn
                   PROVE  /\ turn[req[r].turn] = "running"
                          /\ thread[req[r].turn] = [at |-> "wait", r |-> r]
      BY DEF PromptHasItsThread
    <3>2. r \in DOMAIN req /\ req[r].turn \in Turns /\ req[r].at # "ended"
      BY <2>1, <3>1 DEF Registered, Requests
    <3>3. thread[req[r].turn] = [at |-> "wait", r |-> r]
      BY <3>1, <3>2 DEF ThreadsWait
    <3>4. thread[req[r].turn].at = "wait" BY <3>3
    <3> QED BY <3>1, <3>2, <3>3, <3>4 DEF ThreadShape
  <2> QED BY <2>2, <2>3 DEF PromptsAreLive
<1> QED
  BY <1>1, TerminalStarts, TerminalInvariantIsInductive, PTL DEF TerminalSpec

(* No timeout, cancellation, lost connection or answer to another request   *)
(* ends in an effect, and once the client was told that a turn is cancelled *)
(* no call of it starts (OnlyApprovedRuns).                                 *)
THEOREM EffectsAreApproved == TerminalSpec => OnlyApprovedRuns
<1>1. ASSUME TerminalInvariant, [TerminalNext]_terminalVars, NEW r \in ran' \ ran
      PROVE  answer[r] = "yes" /\ req[r].turn \notin told
  <2>1. ~UNCHANGED ran BY <1>1
  <2>2. PICK t \in Turns : Execute(t)
    BY <1>1, <2>1 DEF TerminalNext, terminalVars, ClientStep, ServerStep, PipeBreaks, StartTurn,
       WorkerStep,
       RunnerStep, LoopStep, Expire, Stopped, Send, Cancel, CancelReply, Confirm, Clarify,
       Answer, Switch, FinishSwitch, NextLine, Close, Gone, RunnerCancelled, RunnerEnds, ProposeWrite,
       Approval, AskUser, TakeVerdict, GiveUp, ToolReturns, WorkerEnds, Begin, Show, Finish,
       Withdraw, workVars
  <2>3. thread[t].at = "granted" /\ r = thread[t].r /\ t \notin token
    BY <1>1, <2>2 DEF Execute
  <2>4. r \in DOMAIN req /\ req[r].turn = t /\ req[r].verdict = "yes"
    BY <1>1, <2>3 DEF TerminalInvariant, ThreadsWait
  <2>5. turn[t] # "cancelled" BY <1>1, <2>3 DEF TerminalInvariant, ThreadShape
  <2> QED BY <1>1, <2>4, <2>5 DEF TerminalInvariant, RequestShape, LaneShape
<1>2. TerminalInvariant /\ [TerminalNext]_terminalVars =>
        [\A r \in ran' \ ran : answer[r] = "yes" /\ req[r].turn \notin told]_terminalVars
  BY <1>1
<1> QED
  BY <1>2, TerminalStarts, TerminalInvariantIsInductive, PTL DEF TerminalSpec, OnlyApprovedRuns

-----------------------------------------------------------------------------
(* TrialGateway: the inductive invariant.                                  *)

Outcomes == {"started", "completed", "overrun", "failed"}
Records == {"started", "answered", "failed"}
LoopPlaces == {"start", "launch", "read", "journal", "admit", "calling", "answered", "failed",
               "kill", "returned", "graded", "broken", "grade", "error", "done"}
GatewayShape ==
  /\ directory \in {"live", "removed", "retained"} /\ container \in {"none", "running", "stopped"}
  /\ loop \in LoopPlaces /\ worker \in {"none", "running", "exited", "killed"}
  /\ frames \in Seq(Nat) /\ written \in Nat /\ late \in BOOLEAN /\ cancelled \in BOOLEAN
  /\ proxyClosed \in BOOLEAN /\ blockedFor \in BOOLEAN /\ {sequence, sent} \subseteq Nat
  /\ entries \in Seq(Outcomes) /\ journal \in Seq(Records)
  /\ result \in [status : {"none", "raised", "completed", "infrastructure_error"},
                 priced : BOOLEAN, cost : Nat]

\* Every call but the last is complete; and every one is, with both its records.
OnlyLastIncomplete == \A i \in 1..Len(entries) - 1 : entries[i] = "completed"
AllPaid == Complete /\ sent = Len(entries) /\ Len(journal) = 2 * sent

\* What the loop knows of the channel at each of its places.
ChannelFits ==
  /\ loop \in {"start", "launch", "read", "returned", "graded", "grade"} => AllPaid
  /\ loop \in {"start", "launch", "read", "returned"} => ~proxyClosed
  /\ ~proxyClosed => AllPaid
  /\ loop = "journal" => AllPaid /\ Started < sequence
  /\ loop = "admit" =>
       Complete /\ sent = Len(entries) /\ Len(entries) < Started /\ Len(journal) = 2 * sent + 1
  /\ loop = "calling" => Len(entries) = sent + 1 /\ Len(journal) = 2 * sent + 1
  /\ loop = "answered" =>
       Complete /\ sent = Len(entries) /\ Len(journal) = 2 * sent - 1
  /\ loop \in {"journal", "admit", "calling", "answered", "failed"} => proxyClosed

\* What may be billed: journaled before it is reserved, reserved before it is sent.
CallsFit ==
  /\ Len(entries) <= MaxModelCalls /\ Spend <= CostLimit
  /\ sent <= Len(entries) /\ Len(entries) <= Started /\ Started <= sequence
  /\ OnlyLastIncomplete

\* Who runs at each place of the loop, and what the trial has come to.
TrialFits ==
  /\ (\E i \in DOMAIN frames : frames[i] = Final) => worker = "exited"
  /\ loop \in {"start", "launch"} => worker = "none"
  /\ loop \in {"returned", "graded", "grade"} => worker = "exited"
  /\ loop \in {"graded", "broken", "grade", "error", "done"} => worker # "running"
  /\ loop = "grade" => entries # <<>>
  /\ loop \in {"grade", "error"} => container # "running"
  /\ loop = "done" <=> directory # "live"
  /\ loop = "done" <=> result.status # "none"
  /\ directory = "removed" => container # "running"
  /\ result.status = "completed" =>
       AllPaid /\ entries # <<>> /\ result.priced /\ worker = "exited"
  /\ result.priced => loop = "done" /\ result.cost <= CostLimit + Over(entries)

\* The invariant of a trial.
GatewayInvariant == GatewayShape /\ ChannelFits /\ CallsFit /\ TrialFits

\* How often v occurs in a sequence.
Count(q, v) == Cardinality({i \in DOMAIN q : q[i] = v})

\* The occurrences are finite.
LEMMA CountIsNumber ==
  ASSUME NEW S, NEW q \in Seq(S), NEW v
  PROVE  IsFiniteSet({i \in DOMAIN q : q[i] = v}) /\ Count(q, v) \in Nat
<1>1. IsFiniteSet(1..Len(q)) BY FS_Interval
<1>2. {i \in DOMAIN q : q[i] = v} \subseteq 1..Len(q) OBVIOUS
<1> QED BY <1>1, <1>2, FS_Subset, FS_CardinalityType DEF Count

\* Appending x to a sequence adds one to how often x occurs, and nothing else.
LEMMA CountAppend ==
  ASSUME NEW S, NEW q \in Seq(S), NEW x \in S, NEW v
  PROVE  Count(Append(q, x), v) = IF x = v THEN Count(q, v) + 1 ELSE Count(q, v)
<1> DEFINE A == {i \in DOMAIN q : q[i] = v}
           B == {i \in DOMAIN Append(q, x) : Append(q, x)[i] = v}
           n == Len(q) + 1
<1>1. IsFiniteSet(A) BY CountIsNumber
<1>2. n \notin A OBVIOUS
<1>0. Count(Append(q, x), v) = Cardinality(B) /\ Count(q, v) = Cardinality(A)
  BY DEF Count
<1>3. CASE x = v
  <2>1. B = A \cup {n} BY <1>3
  <2>2. Cardinality(A \cup {n}) = Cardinality(A) + 1
    BY <1>1, <1>2, FS_AddElement
  <2> HIDE DEF A, B
  <2> QED BY <1>0, <1>3, <2>1, <2>2
<1>4. CASE x # v
  <2>1. B = A BY <1>4
  <2> HIDE DEF A, B
  <2> QED BY <1>0, <1>4, <2>1
<1> QED BY <1>3, <1>4

\* The price of one more call.
LEMMA OneMoreCall ==
  ASSUME NEW n \in Nat
  PROVE  CallPrice * n \in Nat /\ CallPrice * (n + 1) = CallPrice * n + CallPrice
BY GatewayAssumption

\* What was journaled, overrun and spent are numbers.
LEMMA CountsAreNumbers ==
  ASSUME GatewayShape
  PROVE  Started \in Nat /\ Over(entries) \in Nat /\ Spend \in Nat
<1>1. Started \in Nat
  <2>1. Started = Count(journal, "started") /\ journal \in Seq(Records)
    BY DEF Started, Count, GatewayShape
  <2> QED BY <2>1, CountIsNumber
<1>2. Over(entries) \in Nat
  <2>1. Over(entries) = Count(entries, "overrun") /\ entries \in Seq(Outcomes)
    BY DEF Over, Count, GatewayShape
  <2> QED BY <2>1, CountIsNumber
<1>3. Spend \in Nat BY OneMoreCall DEF GatewayShape, Spend
<1> QED BY <1>1, <1>2, <1>3

\* A trial starts with nothing journaled, reserved or sent.
LEMMA GatewayStarts ==
  GatewayInit => GatewayInvariant
<1> SUFFICES ASSUME GatewayInit PROVE GatewayInvariant OBVIOUS
<1>1. GatewayShape
  <2>1. result \in [status : {"none", "raised", "completed", "infrastructure_error"},
                    priced : BOOLEAN, cost : Nat]
    BY DEF GatewayInit
  <2>2. frames \in Seq(Nat) /\ entries \in Seq(Outcomes) /\ journal \in Seq(Records)
    BY DEF GatewayInit
  <2>3. /\ late \in BOOLEAN /\ cancelled \in BOOLEAN
        /\ proxyClosed \in BOOLEAN /\ blockedFor \in BOOLEAN
    BY Zenon DEF GatewayInit
  <2>4. /\ written \in Nat /\ {sequence, sent} \subseteq Nat
        /\ directory = "live" /\ container = "none" /\ worker = "none" /\ loop = "start"
    BY DEF GatewayInit
  <2> QED BY <2>1, <2>2, <2>3, <2>4 DEF GatewayShape, LoopPlaces
<1>2. Started = 0 BY FS_EmptySet DEF GatewayInit, Started
<1>3. Spend = 0 /\ Len(entries) = 0 BY GatewayAssumption DEF Spend, GatewayInit
<1>4. AllPaid BY DEF AllPaid, Complete, GatewayInit
<1>5. ChannelFits BY <1>4 DEF ChannelFits, GatewayInit
<1>6. CallsFit
  BY <1>2, <1>3, GatewayAssumption DEF CallsFit, OnlyLastIncomplete, GatewayInit
<1>7. TrialFits BY DEF TrialFits, GatewayInit
<1> QED BY <1>1, <1>5, <1>6, <1>7 DEF GatewayInvariant

\* One more record of the journal.
LEMMA JournalGrows ==
  ASSUME GatewayShape, NEW x \in Records, journal' = Append(journal, x)
  PROVE  /\ journal' \in Seq(Records) /\ Len(journal') = Len(journal) + 1
         /\ Started' = IF x = "started" THEN Started + 1 ELSE Started
<1>1. journal \in Seq(Records) BY DEF GatewayShape
<1>2. Started = Count(journal, "started") /\ Started' = Count(Append(journal, x), "started")
  BY DEF Started, Count
<1> QED BY <1>1, <1>2, CountAppend

\* One more call, reserved at its price.
LEMMA EntriesGrow ==
  ASSUME GatewayShape, entries' = Append(entries, "started")
  PROVE  /\ entries' \in Seq(Outcomes) /\ Len(entries') = Len(entries) + 1
         /\ \A i \in 1..Len(entries) : entries'[i] = entries[i]
         /\ Spend \in Nat /\ Spend' = Spend + CallPrice
<1>1. entries \in Seq(Outcomes) /\ "started" \in Outcomes
  BY DEF GatewayShape, Outcomes
<1>2. entries' \in Seq(Outcomes) /\ Len(entries') = Len(entries) + 1 /\ Len(entries) \in Nat
      /\ \A i \in 1..Len(entries) : entries'[i] = entries[i]
  BY <1>1
<1>3. Spend = CallPrice * Len(entries) /\ Spend' = CallPrice * (Len(entries) + 1)
  BY <1>2 DEF Spend
<1> QED BY <1>2, <1>3, OneMoreCall

\* The last call gets its status.
LEMMA EntriesMarked ==
  ASSUME GatewayShape, Len(entries) > 0, NEW s \in Outcomes, Mark(s)
  PROVE  /\ entries' \in Seq(Outcomes) /\ Len(entries') = Len(entries)
         /\ \A i \in 1..Len(entries) - 1 : entries'[i] = entries[i]
         /\ entries'[Len(entries)] = s
         /\ Spend' = Spend
BY DEF Mark, GatewayShape, Spend

\* No step but the end of the trial touches what the trial has come to.
LEMMA GatewayKeeps ==
  ASSUME GatewayInvariant, GatewayNext
  PROVE  GatewayInvariant'
<1> USE DEF channelVars, workerVars, proxyVars
<1>0. /\ GatewayShape /\ ChannelFits /\ CallsFit /\ TrialFits
      /\ Started \in Nat /\ Over(entries) \in Nat /\ Spend \in Nat
  BY CountsAreNumbers DEF GatewayInvariant
<1>s. ASSUME UNCHANGED <<entries, journal>>
      PROVE  Started' = Started /\ Over(entries)' = Over(entries) /\ Spend' = Spend
             /\ (Complete' <=> Complete) /\ (OnlyLastIncomplete' <=> OnlyLastIncomplete)
  BY <1>s DEF Started, Over, Spend, Complete, OnlyLastIncomplete
<1>1. CASE StartContainer
  <2>1. GatewayShape' BY <1>0, <1>1 DEF GatewayShape, StartContainer, LoopPlaces
  <2>2. ChannelFits'
    BY <1>0, <1>1, <1>s DEF ChannelFits, AllPaid, StartContainer
  <2>3. CallsFit' BY <1>0, <1>1, <1>s DEF CallsFit, StartContainer
  <2>4. TrialFits' BY <1>0, <1>1, <1>s DEF TrialFits, StartContainer, AllPaid
  <2> QED BY <2>1, <2>2, <2>3, <2>4 DEF GatewayInvariant
<1>2. CASE LaunchWorker
  <2>1. GatewayShape' BY <1>0, <1>2 DEF GatewayShape, LaunchWorker, LoopPlaces
  <2>2. ChannelFits' BY <1>0, <1>2, <1>s DEF ChannelFits, AllPaid, LaunchWorker
  <2>3. CallsFit' BY <1>0, <1>2, <1>s DEF CallsFit, LaunchWorker
  <2>4. TrialFits' BY <1>0, <1>2, <1>s DEF TrialFits, LaunchWorker, AllPaid
  <2> QED BY <2>1, <2>2, <2>3, <2>4 DEF GatewayInvariant
<1>3. CASE WorkerExits
  <2>1. GatewayShape'
    <3>1. Final \in Nat /\ frames' \in Seq(Nat)
      <4>1. Final \in Nat /\ frames \in Seq(Nat)
        BY <1>0, GatewayAssumption DEF GatewayShape, Final
      <4> QED BY <1>3, <4>1 DEF WorkerExits
    <3> QED BY <1>0, <1>3, <3>1 DEF GatewayShape, WorkerExits
  <2>2. ChannelFits' BY <1>0, <1>3, <1>s DEF ChannelFits, AllPaid, WorkerExits
  <2>3. CallsFit' BY <1>0, <1>3, <1>s DEF CallsFit, WorkerExits
  <2>4. TrialFits' BY <1>0, <1>3, <1>s DEF TrialFits, WorkerExits, AllPaid
  <2> QED BY <2>1, <2>2, <2>3, <2>4 DEF GatewayInvariant
<1>4. CASE ReadResult
  <2>1. GatewayShape' BY <1>0, <1>4 DEF GatewayShape, ReadResult, LoopPlaces
  <2>2. ChannelFits' BY <1>0, <1>4, <1>s DEF ChannelFits, AllPaid, ReadResult
  <2>3. CallsFit' BY <1>0, <1>4, <1>s DEF CallsFit, ReadResult
  <2>4. TrialFits' BY <1>0, <1>4, <1>s DEF TrialFits, ReadResult, AllPaid
  <2> QED BY <2>1, <2>2, <2>3, <2>4 DEF GatewayInvariant
<1>5. CASE LoopEnds
  <2>1. GatewayShape' BY <1>0, <1>5 DEF GatewayShape, LoopEnds, LoopPlaces
  <2>2. ChannelFits' BY <1>0, <1>5, <1>s DEF ChannelFits, AllPaid, LoopEnds
  <2>3. CallsFit' BY <1>0, <1>5, <1>s DEF CallsFit, LoopEnds
  <2>4. TrialFits' BY <1>0, <1>5, <1>s DEF TrialFits, LoopEnds, AllPaid
  <2> QED BY <2>1, <2>2, <2>3, <2>4 DEF GatewayInvariant
<1>6. CASE Dispatch
  <2>1. GatewayShape'
    <3>1. sequence' \in Nat /\ sent' \in Nat /\ frames' \in Seq(Nat)
      BY <1>0, <1>6 DEF GatewayShape, Dispatch
    <3>2. proxyClosed' \in BOOLEAN
      BY <1>0, <1>6, Zenon DEF GatewayShape, Dispatch
    <3> QED BY <1>0, <1>6, <3>1, <3>2 DEF GatewayShape, Dispatch, LoopPlaces
  <2>2. ChannelFits'
    <3>1. AllPaid /\ Started <= sequence /\ ~proxyClosed /\ sequence \in Nat
      BY <1>0, <1>6 DEF ChannelFits, CallsFit, Dispatch, GatewayShape
    <3>2. AllPaid' /\ Started' = Started
      BY <1>6, <1>s, <3>1 DEF AllPaid, Dispatch
    <3>3. CASE loop' = "kill" BY <3>2, <3>3 DEF ChannelFits
    <3>4. CASE loop' = "journal" /\ proxyClosed' = TRUE /\ sequence' = sequence + 1
      BY <1>0, <3>1, <3>2, <3>4 DEF ChannelFits
    <3> QED BY <1>6, <3>3, <3>4 DEF Dispatch
  <2>3. CallsFit' BY <1>0, <1>6, <1>s DEF Dispatch, GatewayShape, CallsFit
  <2>4. TrialFits' BY <1>0, <1>6, <1>s DEF TrialFits, Dispatch, AllPaid
  <2> QED BY <2>1, <2>2, <2>3, <2>4 DEF GatewayInvariant
<1>7. CASE JournalStart
  <2>0. /\ UNCHANGED <<channelVars, workerVars, late, cancelled, proxyClosed, sequence, entries,
                       blockedFor, sent>>
        /\ \/ loop' = "kill" /\ journal' = journal
           \/ journal' = Append(journal, "started") /\ loop' = "admit"
    BY <1>7 DEF JournalStart, Journaled
  <2>a. /\ AllPaid /\ Started < sequence /\ proxyClosed /\ sequence \in Nat /\ sent \in Nat
        /\ Len(entries) <= Started /\ Len(journal) \in Nat /\ Len(entries) \in Nat
    BY <1>0, <1>7 DEF ChannelFits, CallsFit, JournalStart, GatewayShape
  <2>b. /\ Spend' = Spend /\ (Complete' <=> Complete) /\ (OnlyLastIncomplete' <=> OnlyLastIncomplete)
        /\ Over(entries)' = Over(entries)
    BY <2>0 DEF Spend, Over, Complete, OnlyLastIncomplete
  <2>c. CASE loop' = "kill" /\ journal' = journal
    <3>1. Started' = Started /\ AllPaid'
      BY <1>s, <2>0, <2>a, <2>b, <2>c DEF AllPaid
    <3>2. GatewayShape' BY <1>0, <2>0, <2>c DEF GatewayShape, LoopPlaces
    <3>3. ChannelFits' BY <2>c, <3>1 DEF ChannelFits
    <3>4. CallsFit' BY <1>0, <2>0, <2>b, <3>1 DEF CallsFit
    <3>5. TrialFits' BY <1>0, <1>7, <2>0, <2>b, <2>c DEF TrialFits, JournalStart
    <3> QED BY <3>2, <3>3, <3>4, <3>5 DEF GatewayInvariant
  <2>d. CASE journal' = Append(journal, "started") /\ loop' = "admit"
    <3>1. journal' \in Seq(Records) /\ Len(journal') = Len(journal) + 1 /\ Started' = Started + 1
      BY <1>0, <2>d, JournalGrows DEF Records
    <3>2. GatewayShape' BY <1>0, <2>0, <2>d, <3>1 DEF GatewayShape, LoopPlaces
    <3>3. /\ Complete' /\ sent' = Len(entries') /\ Len(entries') < Started'
          /\ Len(journal') = 2 * sent' + 1 /\ proxyClosed'
      BY <1>0, <2>0, <2>a, <2>b, <3>1 DEF AllPaid
    <3>4. ChannelFits' BY <2>d, <3>3 DEF ChannelFits
    <3>5. CallsFit' BY <1>0, <2>0, <2>a, <2>b, <3>1 DEF CallsFit
    <3>6. TrialFits' BY <1>0, <1>7, <2>0, <2>b, <2>d DEF TrialFits, JournalStart
    <3> QED BY <3>2, <3>4, <3>5, <3>6 DEF GatewayInvariant
  <2> QED BY <2>0, <2>c, <2>d
<1>8. CASE AdmitCall
  <2>a. /\ Complete /\ sent = Len(entries) /\ Len(entries) < Started /\ Len(journal) = 2 * sent + 1
        /\ proxyClosed /\ sent \in Nat
    BY <1>0, <1>8 DEF ChannelFits, AdmitCall, GatewayShape
  <2>0. UNCHANGED <<channelVars, workerVars, late, cancelled, proxyClosed, sequence, blockedFor,
                    journal, sent>>
    BY <1>8 DEF AdmitCall
  <2>c. CASE loop' = "failed" /\ entries' = entries
    BY <1>0, <1>8, <1>s, <2>0, <2>a, <2>c
      DEF GatewayInvariant, GatewayShape, ChannelFits, CallsFit, TrialFits, AllPaid, LoopPlaces,
          AdmitCall
  <2>d. CASE Affordable /\ entries' = Append(entries, "started") /\ loop' = "calling"
    <3>1. /\ entries' \in Seq(Outcomes) /\ Len(entries') = Len(entries) + 1
          /\ \A i \in 1..Len(entries) : entries'[i] = entries[i]
          /\ Spend \in Nat /\ Spend' = Spend + CallPrice
      BY <1>0, <2>d, EntriesGrow
    <3>2. GatewayShape' BY <1>0, <2>0, <2>d, <3>1 DEF GatewayShape, LoopPlaces
    <3>3. Started' = Started BY <2>0 DEF Started
    <3>4. ChannelFits' BY <2>0, <2>a, <2>d, <3>1 DEF ChannelFits
    <3>5. OnlyLastIncomplete' BY <2>a, <3>1 DEF OnlyLastIncomplete, Complete
    <3>6. CallsFit'
      BY <1>0, <2>0, <2>a, <2>d, <3>1, <3>3, <3>5, GatewayAssumption DEF CallsFit, Affordable
    <3>7. TrialFits' BY <1>0, <1>8, <2>0, <2>d DEF TrialFits, AdmitCall
    <3> QED BY <3>2, <3>4, <3>6, <3>7 DEF GatewayInvariant
  <2> QED BY <1>8, <2>c, <2>d DEF AdmitCall
<1>9. CASE Answered
  <2>a. /\ loop = "calling" /\ Len(entries) = sent + 1 /\ Len(journal) = 2 * sent + 1 /\ proxyClosed
        /\ sent \in Nat /\ sent' = sent + 1
    BY <1>0, <1>9 DEF ChannelFits, Answered, GatewayShape
  <2>0. UNCHANGED <<channelVars, workerVars, late, cancelled, proxyClosed, sequence, journal>>
    BY <1>9 DEF Answered
  <2>1. PICK s \in Outcomes :
          Mark(s) /\ loop' = IF s = "completed" THEN "answered" ELSE "failed"
    BY <1>9 DEF Answered, Outcomes
  <2>2. /\ entries' \in Seq(Outcomes) /\ Len(entries') = Len(entries)
        /\ \A i \in 1..Len(entries) - 1 : entries'[i] = entries[i]
        /\ entries'[Len(entries)] = s
        /\ Spend' = Spend
    BY <1>0, <2>1, <2>a, EntriesMarked
  <2>3. blockedFor' \in BOOLEAN BY <1>0, <1>9, Zenon DEF Answered, GatewayShape
  <2>4. GatewayShape'
    BY <1>0, <2>0, <2>1, <2>2, <2>3, <2>a DEF GatewayShape, LoopPlaces
  <2>5. OnlyLastIncomplete' /\ (s = "completed" => Complete')
    BY <1>0, <2>2, <2>a DEF OnlyLastIncomplete, Complete, CallsFit
  <2>6. ChannelFits' BY <2>0, <2>1, <2>2, <2>5, <2>a DEF ChannelFits
  <2>7. Started' = Started BY <2>0 DEF Started
  <2>8. CallsFit' BY <1>0, <2>0, <2>2, <2>5, <2>7, <2>a DEF CallsFit
  <2>9. TrialFits' BY <1>0, <2>0, <2>1, <2>a DEF TrialFits
  <2> QED BY <2>4, <2>6, <2>8, <2>9 DEF GatewayInvariant
<1>10. CASE JournalEnd
  <2>0. /\ UNCHANGED <<channelVars, workerVars, late, cancelled, sequence, entries, blockedFor, sent>>
        /\ loop \in {"answered", "failed"} /\ proxyClosed /\ sent \in Nat /\ Len(journal) \in Nat
        /\ loop = "answered" =>
             Complete /\ sent = Len(entries) /\ Len(journal) = 2 * sent - 1
    BY <1>0, <1>10 DEF JournalEnd, ChannelFits, GatewayShape
  <2>b. /\ Spend' = Spend /\ (Complete' <=> Complete) /\ (OnlyLastIncomplete' <=> OnlyLastIncomplete)
        /\ Over(entries)' = Over(entries)
    BY <2>0 DEF Spend, Over, Complete, OnlyLastIncomplete
  <2>c. CASE journal' = journal /\ proxyClosed' = proxyClosed /\ loop' = "kill"
    BY <1>0, <1>s, <2>0, <2>b, <2>c
      DEF GatewayInvariant, GatewayShape, ChannelFits, CallsFit, TrialFits, AllPaid, LoopPlaces
  <2>d. CASE /\ journal' = Append(journal, loop) /\ proxyClosed' = (loop = "failed")
             /\ loop' = IF loop = "failed" \/ late \/ cancelled THEN "kill" ELSE "read"
    <3>1. journal' \in Seq(Records) /\ Len(journal') = Len(journal) + 1 /\ Started' = Started
      BY <1>0, <2>0, <2>d, JournalGrows DEF Records
    <3>2. proxyClosed' \in BOOLEAN /\ (proxyClosed' <=> loop = "failed")
      BY <2>d, Zenon
    <3>3. loop' \in {"kill", "read"} /\ (loop = "failed" => loop' = "kill")
      BY <2>d
    <3>4. GatewayShape'
      BY <1>0, <2>0, <3>1, <3>2, <3>3 DEF GatewayShape, LoopPlaces
    <3>5. loop = "answered" => AllPaid' BY <2>0, <2>b, <3>1 DEF AllPaid
    <3>6. ChannelFits' BY <2>0, <3>2, <3>3, <3>5 DEF ChannelFits
    <3>7. CallsFit' BY <1>0, <2>0, <2>b, <3>1 DEF CallsFit
    <3>8. TrialFits' BY <1>0, <2>0, <2>b, <3>3 DEF TrialFits
    <3> QED BY <3>4, <3>6, <3>7, <3>8 DEF GatewayInvariant
  <2> QED BY <1>10, <2>c, <2>d DEF JournalEnd
<1>11. CASE KillWorker
  <2>1. GatewayShape' BY <1>0, <1>11 DEF GatewayShape, KillWorker, LoopPlaces
  <2>2. ChannelFits' BY <1>0, <1>11, <1>s DEF ChannelFits, AllPaid, KillWorker
  <2>3. CallsFit' BY <1>0, <1>11, <1>s DEF CallsFit, KillWorker
  <2>4. TrialFits' BY <1>0, <1>11, <1>s DEF TrialFits, KillWorker, AllPaid
  <2> QED BY <2>1, <2>2, <2>3, <2>4 DEF GatewayInvariant
<1>12. CASE StopContainer
  <2>1. GatewayShape'
    <3>1. result' \in [status : {"none", "raised", "completed", "infrastructure_error"},
                      priced : BOOLEAN, cost : Nat]
      <4>1. Raised \in [status : {"none", "raised", "completed", "infrastructure_error"},
                        priced : BOOLEAN, cost : Nat]
        BY DEF Raised
      <4> QED BY <1>0, <1>12, <4>1 DEF StopContainer, GatewayShape
    <3> QED BY <1>0, <1>12, <3>1 DEF GatewayShape, StopContainer, LoopPlaces
  <2>2. ChannelFits'
    BY <1>0, <1>12, <1>s DEF ChannelFits, AllPaid, StopContainer
  <2>3. CallsFit' BY <1>0, <1>12, <1>s DEF CallsFit, StopContainer
  <2>4. TrialFits'
    BY <1>0, <1>12, <1>s DEF Raised, TrialFits, StopContainer, AllPaid
  <2> QED BY <2>1, <2>2, <2>3, <2>4 DEF GatewayInvariant
<1>13. CASE Conclude
  <2> DEFINE Results0 == [status : {"none", "raised", "completed", "infrastructure_error"},
                          priced : BOOLEAN, cost : Nat]
             Holds(r) == /\ r \in Results0 /\ r.status # "none"
                         /\ r.status = "completed" => loop = "grade" /\ r.priced
                         /\ r.priced => r.cost <= CostLimit + Over(entries)
  <2>1. Spend <= CostLimit /\ (loop = "grade" => AllPaid)
    BY <1>0 DEF CallsFit, ChannelFits
  <2>2. Known \in Nat /\ Known <= CostLimit + Over(entries)
    BY <1>0, <2>1, GatewayAssumption DEF Known
  <2>3. AllPaid => Priced BY DEF AllPaid, Complete, Priced
  <2>4. Holds(Raised) BY DEF Raised
  <2>5. ASSUME NEW s \in {"completed", "infrastructure_error"}, s = "completed" => loop = "grade",
               result' = [status |-> s, priced |-> Priced, cost |-> IF Priced THEN Known ELSE 0]
        PROVE  Holds(result')
    <3>0. PICK p \in BOOLEAN, n \in Nat :
            /\ result' = [status |-> s, priced |-> p, cost |-> n]
            /\ p => n = Known
            /\ s = "completed" => p
      <4>1. CASE Priced
        <5>1. result' = [status |-> s, priced |-> TRUE, cost |-> Known]
          BY <2>5, <4>1, Zenon
        <5> QED BY <2>2, <5>1
      <4>2. CASE ~Priced
        <5>1. Priced = FALSE BY <4>2, Zenon DEF Priced
        <5>2. result' = [status |-> s, priced |-> FALSE, cost |-> 0]
          BY <2>5, <5>1, Zenon
        <5>3. s # "completed" BY <2>1, <2>3, <2>5, <4>2
        <5> QED BY <5>2, <5>3
      <4> QED BY <4>1, <4>2
    <3>1. /\ result'.status = s /\ result'.cost = n /\ result' \in Results0
      BY <3>0
    <3>2. result'.priced <=> p BY <3>0
    <3>3. result'.priced => result'.cost <= CostLimit + Over(entries)
      BY <2>2, <3>0, <3>1, <3>2
    <3>4. s = "completed" => loop = "grade" /\ result'.priced
      BY <2>5, <3>0, <3>2
    <3> QED BY <3>1, <3>3, <3>4
  <2>6. Holds(result')
    <3> HIDE DEF Holds
    <3> QED BY <1>13, <2>4, <2>5 DEF Conclude
  <2>7. GatewayShape'
    BY <1>0, <1>13, <2>6 DEF GatewayShape, Conclude, LoopPlaces
  <2>8. ChannelFits' BY <1>0, <1>13, <1>s DEF ChannelFits, AllPaid, Conclude
  <2>9. CallsFit' BY <1>0, <1>13, <1>s DEF CallsFit, Conclude
  <2>10. AllPaid' <=> AllPaid BY <1>13, <1>s DEF AllPaid, Conclude
  <2>11. TrialFits'
    BY <1>0, <1>13, <1>s, <2>1, <2>6, <2>10 DEF TrialFits, Conclude
  <2> QED BY <2>7, <2>8, <2>9, <2>11 DEF GatewayInvariant
<1>14. CASE TrialTimesOut
  <2>1. GatewayShape' BY <1>0, <1>14 DEF GatewayShape, TrialTimesOut, LoopPlaces
  <2>2. ChannelFits'
    BY <1>0, <1>14, <1>s DEF ChannelFits, AllPaid, TrialTimesOut
  <2>3. CallsFit' BY <1>0, <1>14, <1>s DEF CallsFit, TrialTimesOut
  <2>4. TrialFits' BY <1>0, <1>14, <1>s DEF TrialFits, TrialTimesOut, AllPaid
  <2> QED BY <2>1, <2>2, <2>3, <2>4 DEF GatewayInvariant
<1>15. CASE CancelTrial
  <2>1. GatewayShape' BY <1>0, <1>15 DEF GatewayShape, CancelTrial, LoopPlaces
  <2>2. ChannelFits' BY <1>0, <1>15, <1>s DEF ChannelFits, AllPaid, CancelTrial
  <2>3. CallsFit' BY <1>0, <1>15, <1>s DEF CallsFit, CancelTrial
  <2>4. TrialFits' BY <1>0, <1>15, <1>s DEF TrialFits, CancelTrial, AllPaid
  <2> QED BY <2>1, <2>2, <2>3, <2>4 DEF GatewayInvariant
<1>16. ASSUME NEW n \in 0..MaxFrames, WorkerAsks(n) PROVE GatewayInvariant'
  <2>1. GatewayShape' BY <1>0, <1>16 DEF GatewayShape, WorkerAsks
  <2>2. ChannelFits' BY <1>0, <1>16, <1>s DEF ChannelFits, AllPaid, WorkerAsks
  <2>3. CallsFit' BY <1>0, <1>16, <1>s DEF CallsFit, WorkerAsks
  <2>4. TrialFits'
    <3>1. frames \in Seq(Nat) /\ n # Final
      BY <1>0, GatewayAssumption DEF GatewayShape, Final
    <3>2. (\E i \in DOMAIN frames' : frames'[i] = Final) => \E i \in DOMAIN frames : frames[i] = Final
      BY <1>16, <3>1 DEF WorkerAsks
    <3> QED BY <1>0, <1>16, <1>s, <3>2 DEF TrialFits, WorkerAsks, AllPaid
  <2> QED BY <2>1, <2>2, <2>3, <2>4 DEF GatewayInvariant
<1> QED BY <1>1, <1>2, <1>3, <1>4, <1>5, <1>6, <1>7, <1>8, <1>9, <1>10, <1>11, <1>12, <1>13,
           <1>14, <1>15, <1>16 DEF GatewayNext, GatewayWork

\* A step of another component leaves the trial alone.
LEMMA GatewayStutters ==
  ASSUME GatewayInvariant, UNCHANGED gatewayVars
  PROVE  GatewayInvariant'
<1>1. GatewayShape' BY DEF GatewayInvariant, GatewayShape, gatewayVars
<1>2. ChannelFits'
  BY DEF GatewayInvariant, ChannelFits, gatewayVars, AllPaid, Complete, Started
<1>3. CallsFit'
  BY DEF GatewayInvariant, CallsFit, gatewayVars, Started, Spend, OnlyLastIncomplete
<1>4. TrialFits'
  BY DEF GatewayInvariant, TrialFits, gatewayVars, AllPaid, Complete, Over
<1> QED BY <1>1, <1>2, <1>3, <1>4 DEF GatewayInvariant

\* The invariant gives what the run checks.
LEMMA TrialFollows ==
  ASSUME GatewayInvariant
  PROVE  TrialIsAccounted
<1>1. entries # <<>> => Len(entries) > 0 BY DEF GatewayInvariant, GatewayShape
<1>2. {sent, Len(journal), Len(entries)} \subseteq Nat
  BY DEF GatewayInvariant, GatewayShape
<1> QED BY <1>1, <1>2 DEF GatewayInvariant, CallsFit, TrialFits, ChannelFits, OnlyLastIncomplete,
                         AllPaid, TrialIsAccounted

\* Whatever the worker, the provider, the journal and the clock do, every trial
\* is accounted for (model_proxy.py, model_budget.py, hosted_snapshot.py).
THEOREM TrialsAreAccounted == GatewayInit /\ [][GatewayNext]_gatewayVars => []TrialIsAccounted
<1>1. GatewayInvariant /\ [GatewayNext]_gatewayVars => GatewayInvariant'
  BY GatewayKeeps, GatewayStutters
<1>2. GatewayInvariant => TrialIsAccounted BY TrialFollows
<1> QED BY <1>1, <1>2, GatewayStarts, PTL

-----------------------------------------------------------------------------
(* CandidateEvidence: the inductive invariant.                             *)

\* Where a search is between two operations of its own, and where whoever
\* works on a candidate is.
SearchPlaces == {"anchor", "round", "propose", "judged", "compared"}

\* The places of a host: of a candidate's checks, of its trials, and of the rest.
CheckPlaces ==
  {"materialize", "pin", "record", "evaluate", "checking", "testing", "decide", "reserve"}
TrialPlaces == {"trial", "trying", "tried", "measure"}
WorkPlaces == CheckPlaces \cup TrialPlaces
Places == {"idle", "sealing", "scoring"} \cup SearchPlaces \cup WorkPlaces

\* What a host, a candidate's evidence, a search and a sealed validation can be.
HostStates == [op : {"idle", "search", "direct", "seal"},
               at : Places,
               run : Runs \cup {nobody}, cand : Candidates \cup {nobody},
               then : {"idle", "evaluate", "reserve"}, trial : 0..(2 * Pairs)]
Evidence == [created : BOOLEAN, materialized : BOOLEAN,
             check : {"none", "started", "failed", "completed"},
             verdict : Gates, gate : Gates, reserved : BOOLEAN,
             trial : [Trials -> {nobody, begun} \cup Results],
             violation : SUBSET Trials, settled : BOOLEAN, released : Nat,
             paired : Gates, reconciled : SUBSET Trials]
Round == [cand : Candidates \cup {nobody}, status : RowStatus]
SearchStates == [status : {"none", "bare", "running", "finished", "blocked"}, rows : Seq(Round)]
SealedStates == [status : {"none", "started", "passed", "rejected", "failed"},
                 cand : Candidates \cup {nobody}]

\* How often a check and a trial were launched, and what the trials have cost.
RunCounts == [check : [Candidates -> Nat], trial : [Candidates -> [Trials -> Nat]],
              paid : [Candidates -> [Trials -> Nat]], sealed : [Runs -> Nat]]

\* The type invariant.
EvidenceShape ==
  /\ host \in [Hosts -> HostStates] /\ locks \in [Locks -> Hosts \cup {nobody}]
  /\ evidence \in [Candidates -> Evidence]
  /\ pinned \subseteq Candidates /\ asked \subseteq Candidates
  /\ search \in [Runs -> SearchStates] /\ sealed \in [Runs -> SealedStates]
  /\ runs \in RunCounts /\ regime \in Regimes

\* What a host is doing says what it is doing it on and which locks it holds.
HostFits(h) ==
  LET s == host[h] IN
  /\ s.op = "idle" <=> s.at = "idle"
  /\ s.op = "idle" => s = Idle
  /\ s.op = "seal" <=> s.at \in {"sealing", "scoring"}
  /\ s.at \in SearchPlaces => s.op = "search"
  /\ s.op \in {"search", "seal"} => s.run \in Runs
  /\ s.at \in WorkPlaces \cup {"judged", "compared"} =>
       s.cand \in Candidates /\ s.then \in {"evaluate", "reserve"}
  /\ s.at \in {"trying", "tried", "measure"} => s.trial \in Trials

\* A host holds the locks that its place needs, and no other host holds them.
LocksFit(h) ==
  LET s == host[h] IN
  /\ s.op \in {"search", "seal"} <=> locks["search"] = h
  /\ s.at \in {"pin", "record"} <=> locks["materialization"] = h
  /\ s.at \in {"checking", "testing", "decide"} <=> locks["evaluation"] = h
  /\ s.at \in TrialPlaces <=> locks["paired"] = h

\* What a host has seen of its candidate stays so until it moves on: a trial
\* that it has passed was within its limit, or one spoils the comparison.
Within(x) == x \in Results /\ (x.cost # nobody => x.cost <= Limit)

\* A trial that broke down or has no price.
Spoilt(x) == x \in Results /\ (x.status # "completed" \/ x.cost = nobody)
StageIsReached(h) ==
  LET s == host[h] IN
  /\ s.at = "record" => s.cand \in pinned
  /\ s.at \in TrialPlaces \cup {"evaluate", "checking", "testing", "decide", "reserve"} =>
       Ev(h).materialized
  /\ s.at \in {"checking", "testing"} => Ev(h).check = "started"
  /\ s.at = "decide" => Ev(h).check = "completed"
  /\ s.at \in TrialPlaces => Ev(h).reserved
  /\ s.at \in {"trying", "tried"} => Ev(h).trial[s.trial] = begun
  /\ s.at = "measure" => Ev(h).trial[s.trial] \in Results
  /\ s.at \in TrialPlaces =>
       \/ \A i \in Trials : i < s.trial => Within(Ev(h).trial[i])
       \/ \E i \in Trials : Spoilt(Ev(h).trial[i])

\* The run of a search is its host's until the search ends.
RunIsOurs(h) ==
  LET s == host[h]
      rows == Rows(s.run) IN
  /\ s.op = "search" =>
       /\ search[s.run].status = IF s.at = "anchor" THEN "bare" ELSE "running"
       /\ s.at = "round" => ~Uncertain(s.run)
       /\ s.at \notin {"anchor", "round"} => Len(rows) > 0
       /\ s.at = "propose" => rows[Len(rows)].cand = nobody
       /\ s.at \in WorkPlaces \cup {"judged", "compared"} => rows[Len(rows)].cand = s.cand
  /\ s.op = "seal" => sealed[s.run].status = "started"

\* Each gate of a candidate rests on the one before it, and what was begun is
\* on record before it is run.
GatesHold(c) ==
  LET e == evidence[c] IN
  /\ e.materialized => c \in pinned
  /\ e.gate # "none" => e.materialized /\ e.check = "completed" /\ e.gate = e.verdict
  /\ e.reserved => e.gate = "pass"
  /\ e.paired = "pass" =>
       e.reserved /\ Promotion(e) = "pass" /\ \A i \in Trials : Within(e.trial[i])
  /\ \A i \in e.violation : e.trial[i] \in Results /\ ~Within(e.trial[i])
  /\ ~e.reserved => \A i \in Trials : e.trial[i] = nobody
  /\ c \in asked => \E r \in Runs : sealed[r] = [status |-> "passed", cand |-> c]

\* Only a trial that was begun is reconciled, and a shared one for one candidate.
ReconciledOnce(c) ==
  LET e == evidence[c] IN
  \A i \in Trials :
    /\ i \in e.reconciled => e.trial[i] # nobody
    /\ i \in e.reconciled /\ Control(i) =>
         \A d \in Candidates \ {c} : i \notin evidence[d].reconciled

\* The rounds of a run: all but the last are settled, and a search that is
\* finished has settled them all.
RoundsHold(r) ==
  LET rows == Rows(r) IN
  /\ Len(rows) <= MaxRounds
  /\ \A i \in 1..Len(rows) - 1 : rows[i].status \in Certain
  /\ \A i \in DOMAIN rows : rows[i].status = "qualified" =>
       rows[i].cand \in Candidates /\ evidence[rows[i].cand].paired = "pass"
  /\ \A i, j \in DOMAIN rows : rows[i].cand = rows[j].cand /\ rows[i].cand # nobody => i = j
  /\ search[r].status \in {"none", "bare"} => rows = <<>>
  /\ search[r].status = "finished" => Stops(rows) /\ ~Uncertain(r)
  /\ sealed[r].status # "none" => search[r].status = "finished" /\ sealed[r].cand \in Qualified(r)

\* The invariant of the evidence.
EvidenceInvariant ==
  /\ EvidenceShape
  /\ \A h \in Hosts : HostFits(h) /\ LocksFit(h) /\ StageIsReached(h) /\ RunIsOurs(h)
  /\ \A c \in Candidates : GatesHold(c) /\ ReconciledOnce(c)
  /\ \A r \in Runs : RoundsHold(r)

\* It holds before anything was asked for.
LEMMA EvidenceStarts == EvidenceInit => EvidenceInvariant
<1> SUFFICES ASSUME EvidenceInit PROVE EvidenceInvariant OBVIOUS
<1> USE EvidenceAssumption DEF EvidenceInit
<1>r. /\ regime.cands \subseteq Candidates /\ regime.judged \in BOOLEAN
      /\ pinned \subseteq Candidates
  OBVIOUS
<1>t. NoEvidence \in Evidence /\ Judged \in Evidence
  <2>1. [i \in Trials |-> nobody] \in [Trials -> {nobody, begun} \cup Results]
    OBVIOUS
  <2> QED BY <2>1 DEF NoEvidence, Judged, Evidence, Gates
<1>1. EvidenceShape
  BY <1>r, <1>t DEF Idle, HostStates, Places, RunCounts, SearchStates, SealedStates,
     EvidenceShape
<1>2. ASSUME NEW h \in Hosts PROVE HostFits(h) /\ LocksFit(h) /\ StageIsReached(h) /\ RunIsOurs(h)
  <2> host[h] = Idle OBVIOUS
  <2>1. HostFits(h)
    BY DEF HostFits, Idle, SearchPlaces, WorkPlaces, CheckPlaces, TrialPlaces
  <2>2. LocksFit(h) BY DEF LocksFit, Idle, TrialPlaces, Locks
  <2>3. StageIsReached(h) /\ RunIsOurs(h)
    BY DEF StageIsReached, RunIsOurs, Idle, TrialPlaces
  <2> QED BY <2>1, <2>2, <2>3
<1>3. ASSUME NEW c \in Candidates PROVE GatesHold(c) /\ ReconciledOnce(c)
  <2>0. c \in pinned <=> (regime.judged /\ c \in regime.cands) OBVIOUS
  <2>1. evidence[c] = Judged \/ evidence[c] = NoEvidence OBVIOUS
  <2>2. evidence[c].materialized => c \in pinned BY <2>0 DEF Judged, NoEvidence
  <2>3. GatesHold(c) BY <2>1, <2>2 DEF GatesHold, Judged, NoEvidence
  <2>4. \A d \in Candidates : evidence[d].reconciled = {}
    BY DEF Judged, NoEvidence
  <2>5. ReconciledOnce(c) BY <2>4 DEF ReconciledOnce
  <2> QED BY <2>3, <2>5
<1>4. ASSUME NEW r \in Runs PROVE RoundsHold(r) BY DEF RoundsHold, Rows
<1> QED BY <1>1, <1>2, <1>3, <1>4 DEF EvidenceInvariant

\* What a step of host h leaves alone: the other hosts, the locks that they
\* hold, a run that another works on, and what they have seen of candidates.
OthersAlone(h) ==
  /\ \A g \in Hosts \ {h} : host'[g] = host[g]
  /\ \A l \in Locks : locks'[l] # locks[l] => {locks[l], locks'[l]} \subseteq {nobody, h}
  /\ (search' # search \/ sealed' # sealed) => host[h].op \in {"search", "seal"} \/ Free("search")
  /\ pinned \subseteq pinned'
  /\ \A c \in Candidates :
       /\ evidence[c].materialized => evidence'[c].materialized
       /\ evidence[c].reserved => evidence'[c].reserved
       /\ evidence[c].check = "completed" => evidence'[c].check = "completed"
       /\ evidence[c].check = "started" /\ host[h].at \notin {"checking", "testing"} =>
            evidence'[c].check = "started"
       /\ host[h].at \notin TrialPlaces /\ evidence[c].reserved => evidence'[c].trial = evidence[c].trial

\* A host that is not moved keeps its part of the invariant.
LEMMA OthersKeep ==
  ASSUME EvidenceInvariant, EvidenceShape', NEW h \in Hosts, NEW g \in Hosts \ {h}, OthersAlone(h)
  PROVE  (HostFits(g) /\ LocksFit(g) /\ StageIsReached(g) /\ RunIsOurs(g))'
<1> USE EvidenceAssumption
<1>0. /\ host'[g] = host[g] /\ HostFits(g) /\ LocksFit(g) /\ StageIsReached(g) /\ RunIsOurs(g)
      /\ HostFits(h) /\ LocksFit(h)
      /\ g # nobody /\ h # nobody /\ g # h
  BY DEF EvidenceInvariant, OthersAlone
<1>1. HostFits(g)' BY <1>0 DEF HostFits
<1>2. LocksFit(g)' BY <1>0 DEF OthersAlone, LocksFit, Locks
<1>3. StageIsReached(g)'
  <2>1. ASSUME host[g].at \in WorkPlaces PROVE host[g].cand \in Candidates
    BY <2>1, <1>0 DEF HostFits
  <2>2. host[g].at \in TrialPlaces => host[h].at \notin TrialPlaces
    BY <1>0 DEF LocksFit
  <2>3. host[g].at \in {"checking", "testing"} => host[h].at \notin {"checking", "testing"}
    BY <1>0 DEF LocksFit
  <2>4. ASSUME host[g].at \in TrialPlaces PROVE Ev(g)'.trial = Ev(g).trial
    <3>1. host[g].cand \in Candidates /\ evidence[host[g].cand].reserved
      BY <1>0, <2>1, <2>4 DEF WorkPlaces, StageIsReached, Ev
    <3> QED BY <1>0, <2>2, <2>4, <3>1 DEF OthersAlone, Ev
  <2>5. host[g].at = "record" => host[g].cand \in pinned'
    BY <1>0 DEF OthersAlone, StageIsReached
  <2>6. host[g].at \in TrialPlaces \cup {"evaluate", "checking", "testing", "decide", "reserve"}
        => Ev(g)'.materialized
    BY <1>0, <2>1 DEF OthersAlone, Ev, StageIsReached, WorkPlaces, CheckPlaces
  <2>7. /\ host[g].at \in {"checking", "testing"} => Ev(g)'.check = "started"
        /\ host[g].at = "decide" => Ev(g)'.check = "completed"
        /\ host[g].at \in TrialPlaces => Ev(g)'.reserved
    BY <1>0, <2>1, <2>3 DEF OthersAlone, Ev, StageIsReached, WorkPlaces, CheckPlaces
  <2>8. host[g].at \in {"trying", "tried", "measure"} => host[g].at \in TrialPlaces
    BY DEF TrialPlaces
  <2> QED BY <1>0, <2>4, <2>5, <2>6, <2>7, <2>8 DEF StageIsReached
<1>4. RunIsOurs(g)'
  <2>1. CASE host[g].op \in {"search", "seal"}
    BY <1>0, <2>1 DEF LocksFit, OthersAlone, Free, RunIsOurs, Rows, Uncertain
  <2>2. CASE host[g].op \notin {"search", "seal"} BY <1>0, <2>2 DEF RunIsOurs
  <2> QED BY <2>1, <2>2
<1> QED BY <1>1, <1>2, <1>3, <1>4

\* A step that moves one host is checked for that host alone.
LEMMA StepOfHost ==
  ASSUME EvidenceInvariant, EvidenceShape', NEW h \in Hosts, OthersAlone(h),
         (HostFits(h) /\ LocksFit(h) /\ StageIsReached(h) /\ RunIsOurs(h))',
         (\A c \in Candidates : GatesHold(c) /\ ReconciledOnce(c))',
         (\A r \in Runs : RoundsHold(r))'
  PROVE  EvidenceInvariant'
<1>1. ASSUME NEW g \in Hosts
      PROVE  (HostFits(g) /\ LocksFit(g) /\ StageIsReached(g) /\ RunIsOurs(g))'
  <2>1. CASE g = h BY <2>1
  <2>2. CASE g # h BY <2>2, OthersKeep
  <2> QED BY <2>1, <2>2
<1> QED BY <1>1 DEF EvidenceInvariant

\* Evidence that does not change keeps its gates.
LEMMA SameGates ==
  ASSUME NEW c \in Candidates, GatesHold(c), evidence'[c] = evidence[c],
         pinned \subseteq pinned', asked' = asked,
         \A r \in Runs : sealed[r].status = "passed" => sealed'[r] = sealed[r]
  PROVE  GatesHold(c)'
<1>1. c \in asked' => \E r \in Runs : sealed'[r] = [status |-> "passed", cand |-> c]
  BY DEF GatesHold
<1> QED BY <1>1 DEF GatesHold

\* While the trials and what is reconciled stay, nothing is reconciled twice.
LEMMA SameReconciled ==
  ASSUME NEW c \in Candidates, ReconciledOnce(c), evidence'[c].trial = evidence[c].trial,
         \A d \in Candidates : evidence'[d].reconciled = evidence[d].reconciled
  PROVE  ReconciledOnce(c)'
BY DEF ReconciledOnce

\* A search may only be blocked.
MayBlock(r) ==
  \/ search'[r] = search[r]
  \/ search[r].status = "running" /\ search'[r] = [status |-> "blocked", rows |-> Rows(r)]

\* Searches that do not change keep their rounds.
LEMMA SameRounds ==
  ASSUME NEW r \in Runs, EvidenceShape, RoundsHold(r), MayBlock(r), sealed'[r] = sealed[r],
         \A c \in Candidates : evidence[c].paired = "pass" => evidence'[c].paired = "pass"
  PROVE  RoundsHold(r)'
<1>1. /\ Rows(r)' = Rows(r)
      /\ \/ search'[r].status = search[r].status
         \/ search[r].status = "running" /\ search'[r].status = "blocked"
  BY DEF Rows, MayBlock
<1>2. Uncertain(r)' = Uncertain(r) /\ Qualified(r)' = Qualified(r)
  BY <1>1 DEF Uncertain, Qualified
<1> QED BY <1>1, <1>2 DEF RoundsHold

\* A host that is idle fits, whoever has the locks that it does not hold.
LEMMA IdleFits ==
  ASSUME NEW h \in Hosts, host'[h] = Idle, \A l \in Locks : locks'[l] # h
  PROVE  (HostFits(h) /\ LocksFit(h) /\ StageIsReached(h) /\ RunIsOurs(h))'
<1>1. HostFits(h)'
  BY DEF HostFits, Idle, SearchPlaces, WorkPlaces, CheckPlaces, TrialPlaces
<1>2. LocksFit(h)' BY DEF LocksFit, Idle, TrialPlaces, Locks
<1>3. StageIsReached(h)' /\ RunIsOurs(h)'
  BY DEF StageIsReached, RunIsOurs, Idle, TrialPlaces
<1> QED BY <1>1, <1>2, <1>3

\* An idle host holds nothing.
LEMMA IdleHoldsNothing ==
  ASSUME NEW h \in Hosts, host[h] = Idle, LocksFit(h)
  PROVE  \A l \in Locks : locks[l] # h
<1>1. locks["search"] # h /\ locks["materialization"] # h BY DEF LocksFit, Idle
<1>2. locks["evaluation"] # h /\ locks["paired"] # h
  BY DEF LocksFit, Idle, TrialPlaces
<1> QED BY <1>1, <1>2 DEF Locks

\* A host that leaves is idle and holds nothing.
LEMMA LeavingHost ==
  ASSUME EvidenceInvariant, NEW h \in Hosts, LeaveAll(h), Blocked(h) \/ UNCHANGED search
  PROVE  /\ host' \in [Hosts -> HostStates] /\ \A g \in Hosts \ {h} : host'[g] = host[g]
         /\ locks' \in [Locks -> Hosts \cup {nobody}]
         /\ \A l \in Locks : locks'[l] # locks[l] => {locks[l], locks'[l]} \subseteq {nobody, h}
         /\ search' \in [Runs -> SearchStates] /\ (search' # search => host[h].op = "search")
         /\ \A r \in Runs : MayBlock(r)
         /\ (HostFits(h) /\ LocksFit(h) /\ StageIsReached(h) /\ RunIsOurs(h))'
<1> USE EvidenceAssumption
<1>0. EvidenceShape /\ HostFits(h) BY DEF EvidenceInvariant
<1>1. /\ Idle \in HostStates /\ host' = [host EXCEPT ![h] = Idle]
      /\ host' \in [Hosts -> HostStates] /\ host'[h] = Idle
  BY <1>0 DEF Idle, HostStates, Places, LeaveAll, EvidenceShape
<1>2. /\ locks' \in [Locks -> Hosts \cup {nobody}] /\ \A l \in Locks : locks'[l] # h
      /\ \A l \in Locks : locks'[l] # locks[l] => {locks[l], locks'[l]} \subseteq {nobody, h}
  BY <1>0 DEF LeaveAll, Held, EvidenceShape
<1>3. /\ search' \in [Runs -> SearchStates] /\ (search' # search => host[h].op = "search")
      /\ \A r \in Runs : MayBlock(r)
  <2>1. CASE UNCHANGED search BY <2>1, <1>0 DEF MayBlock, EvidenceShape
  <2>2. CASE Blocked(h) /\ search' # search
    <3> DEFINE r == host[h].run
    <3>1. /\ r \in Runs /\ host[h].op = "search" /\ search[r].status = "running"
          /\ search' = [search EXCEPT ![r].status = "blocked"]
      BY <2>2, <1>0 DEF Blocked, HostFits
    <3>2. [status |-> "blocked", rows |-> Rows(r)] \in SearchStates
      BY <3>1, <1>0 DEF EvidenceShape, SearchStates, Rows
    <3>3. search[r] \in SearchStates BY <3>1, <1>0 DEF EvidenceShape
    <3>4. [search[r] EXCEPT !.status = "blocked"] = [status |-> "blocked", rows |-> Rows(r)]
      BY <3>3 DEF SearchStates, Rows
    <3>5. search' = [search EXCEPT ![r] = [search[r] EXCEPT !.status = "blocked"]]
      BY <3>1
    <3>6. search' = [search EXCEPT ![r] = [status |-> "blocked", rows |-> Rows(r)]]
      BY <3>4, <3>5
    <3> QED BY <3>1, <3>2, <3>6, <1>0 DEF MayBlock, EvidenceShape
  <2> QED BY <2>1, <2>2
<1>4. (HostFits(h) /\ LocksFit(h) /\ StageIsReached(h) /\ RunIsOurs(h))'
  BY <1>1, <1>2, IdleFits
<1> QED BY <1>1, <1>2, <1>3, <1>4 DEF LeaveAll

\* Nothing that the ledger says of a candidate changes.
LEMMA CandidatesStay ==
  ASSUME EvidenceInvariant, UNCHANGED <<evidence, pinned, sealed, asked>>
  PROVE  (\A c \in Candidates : GatesHold(c) /\ ReconciledOnce(c))'
BY SameGates, SameReconciled DEF EvidenceInvariant

\* Leaving keeps the invariant.
LEMMA LeaveKeeps ==
  ASSUME EvidenceInvariant, NEW h \in Hosts, LeaveAll(h), Blocked(h) \/ UNCHANGED search,
         UNCHANGED <<evidence, pinned, sealed, asked, runs, regime>>
  PROVE  EvidenceInvariant'
<1>1. EvidenceShape' /\ OthersAlone(h)
  BY LeavingHost DEF EvidenceShape, EvidenceInvariant, OthersAlone
<1>2. (\A r \in Runs : RoundsHold(r))'
  BY LeavingHost, SameRounds DEF EvidenceInvariant
<1> QED BY <1>1, <1>2, LeavingHost, CandidatesStay, StepOfHost

\* Going on changes the place of one host only.
LEMMA GoMoves ==
  ASSUME EvidenceShape, NEW h \in Hosts, NEW pc \in Places, Go(h, pc)
  PROVE  /\ host' \in [Hosts -> HostStates] /\ \A g \in Hosts \ {h} : host'[g] = host[g]
         /\ host'[h].op = host[h].op /\ host'[h].at = pc /\ host'[h].run = host[h].run
         /\ host'[h].cand = host[h].cand /\ host'[h].then = host[h].then
         /\ host'[h].trial = host[h].trial
<1> DEFINE s == [op |-> host[h].op, at |-> pc, run |-> host[h].run, cand |-> host[h].cand,
                 then |-> host[h].then, trial |-> host[h].trial]
<1>1. host[h] \in HostStates BY DEF EvidenceShape
<1>2. s \in HostStates BY <1>1 DEF HostStates
<1>3. [host[h] EXCEPT !.at = pc] = s BY <1>1 DEF HostStates
<1>4. host' = [host EXCEPT ![h] = [host[h] EXCEPT !.at = pc]] BY DEF Go
<1>5. host' = [host EXCEPT ![h] = s] BY <1>3, <1>4
<1> QED BY <1>2, <1>5 DEF EvidenceShape

\* The last round of a search.
LEMMA LastRound ==
  ASSUME NEW rows \in Seq(Round), Len(rows) > 0, NEW x \in Round,
         NEW s, s = [rows EXCEPT ![Len(rows)] = x]
  PROVE  /\ s \in Seq(Round) /\ Len(s) = Len(rows) /\ DOMAIN s = 1..Len(rows) /\ s[Len(rows)] = x
         /\ \A i \in 1..Len(rows) : i # Len(rows) => s[i] = rows[i]
OBVIOUS

\* What replacing the last round leaves.
LEMMA SetLastSays ==
  ASSUME NEW rows \in Seq(Round), Len(rows) > 0, NEW v \in RowStatus
  PROVE  SetLast(rows, v) = [rows EXCEPT ![Len(rows)] = [cand |-> rows[Len(rows)].cand, status |-> v]]
<1>1. rows[Len(rows)] \in Round OBVIOUS
<1>2. [rows[Len(rows)] EXCEPT !.status = v] = [cand |-> rows[Len(rows)].cand, status |-> v]
  BY <1>1 DEF Round
<1>3. SetLast(rows, v) = [rows EXCEPT ![Len(rows)] = [rows[Len(rows)] EXCEPT !.status = v]]
  BY DEF SetLast
<1> QED BY <1>2, <1>3

\* A search goes on, under the lock of searches.
LEMMA RunStep ==
  ASSUME EvidenceInvariant, NEW h \in Hosts, host[h].op = "search",
         NEW rows \in Seq(Round), Save(host[h].run, "running", rows),
         UNCHANGED <<locks, evidence, pinned, sealed, asked, runs, regime>>,
         host' \in [Hosts -> HostStates], \A g \in Hosts \ {h} : host'[g] = host[g],
         Len(rows) <= MaxRounds, \A i \in 1..Len(rows) - 1 : rows[i].status \in Certain,
         \A i \in 1..Len(rows) : rows[i].status = "qualified" =>
           rows[i].cand \in Candidates /\ evidence[rows[i].cand].paired = "pass",
         \A i, j \in 1..Len(rows) : rows[i].cand = rows[j].cand /\ rows[i].cand # nobody => i = j,
         (HostFits(h) /\ LocksFit(h) /\ StageIsReached(h))',
         host'[h].op = "search", host'[h].run = host[h].run,
         host'[h].at # "anchor",
         host'[h].at = "round" => \A i \in 1..Len(rows) : rows[i].status \in Certain,
         host'[h].at # "round" => Len(rows) > 0,
         host'[h].at = "propose" => rows[Len(rows)].cand = nobody,
         host'[h].at \in WorkPlaces \cup {"judged", "compared"} =>
           rows[Len(rows)].cand = host'[h].cand
  PROVE  EvidenceInvariant'
<1> DEFINE r == host[h].run
           new == [status |-> "running", rows |-> rows]
<1>0. /\ EvidenceShape /\ HostFits(h) /\ RunIsOurs(h)
      /\ r \in Runs /\ RoundsHold(r)
      /\ search[r].status \in {"bare", "running"} /\ sealed[r].status = "none"
  BY DEF EvidenceInvariant, HostFits, RunIsOurs, RoundsHold
<1>1. /\ new \in SearchStates /\ search' = [search EXCEPT ![r] = new]
      /\ search' \in [Runs -> SearchStates] /\ search'[r] = new
      /\ \A q \in Runs \ {r} : search'[q] = search[q]
  BY <1>0 DEF SearchStates, Save, EvidenceShape
<1>2. EvidenceShape' /\ OthersAlone(h)
  BY <1>0, <1>1 DEF EvidenceShape, OthersAlone
<1>3. Rows(r)' = rows /\ (Uncertain(r)' <=> ~ \A i \in 1..Len(rows) : rows[i].status \in Certain)
  BY <1>1 DEF Rows, Uncertain
<1>4. RunIsOurs(h)' BY <1>1, <1>3 DEF RunIsOurs, Rows
<1>5. (\A q \in Runs : RoundsHold(q))'
  <2>1. RoundsHold(r)' BY <1>0, <1>1, <1>3 DEF RoundsHold
  <2>2. ASSUME NEW q \in Runs \ {r} PROVE RoundsHold(q)'
    BY <1>0, <1>1, SameRounds DEF EvidenceInvariant, MayBlock
  <2> QED BY <2>1, <2>2
<1> QED BY <1>2, <1>4, <1>5, CandidatesStay, StepOfHost

\* What a search finds when it goes on.
SearchFinds(h) ==
  LET r == host[h].run
      rows == Rows(r) IN
  /\ r \in Runs /\ search[r].status = "running" /\ rows \in Seq(Round) /\ RoundsHold(r)

\* A search that is going on has its run, and the rounds of it.
LEMMA SearchGoesOn ==
  ASSUME EvidenceInvariant, NEW h \in Hosts, host[h].op = "search", ~At(h, "anchor")
  PROVE  SearchFinds(h)
<1>1. EvidenceShape /\ HostFits(h) /\ RunIsOurs(h) BY DEF EvidenceInvariant
<1>2. host[h].run \in Runs /\ search[host[h].run].status = "running"
  BY <1>1 DEF HostFits, RunIsOurs, At
<1> QED BY <1>1, <1>2 DEF SearchFinds, EvidenceInvariant, EvidenceShape, SearchStates, Rows

\* At places of a search a host stands on nothing but its run.
LEMMA SearchPlaceFits ==
  ASSUME EvidenceInvariant, NEW h \in Hosts, host[h].op = "search", UNCHANGED locks,
         ~At(h, "idle"), host[h].at \in SearchPlaces,
         host'[h].op = "search", host'[h].run = host[h].run,
         \/ host'[h].at \in {"round", "propose"}
         \/ /\ host'[h].at \in {"judged", "compared", "materialize"}
            /\ host'[h].cand \in Candidates /\ host'[h].then \in {"evaluate", "reserve"}
  PROVE  (HostFits(h) /\ LocksFit(h) /\ StageIsReached(h))'
<1>0. HostFits(h) /\ LocksFit(h) BY DEF EvidenceInvariant
<1>1. HostFits(h)'
  BY <1>0 DEF HostFits, SearchPlaces, WorkPlaces, CheckPlaces, TrialPlaces
<1>2. LocksFit(h)' BY <1>0 DEF LocksFit, TrialPlaces, SearchPlaces
<1>3. StageIsReached(h)' BY DEF StageIsReached, TrialPlaces
<1> QED BY <1>1, <1>2, <1>3

\* AnchorSearch keeps the invariant.
LEMMA AnchorKeeps ==
  ASSUME EvidenceInvariant, NEW h \in Hosts, AnchorSearch(h), UNCHANGED regime
  PROVE  EvidenceInvariant'
<1> USE EvidenceAssumption DEF AnchorSearch, At
<1>0. EvidenceShape /\ HostFits(h) /\ host[h].op = "search"
  BY DEF EvidenceInvariant, HostFits, SearchPlaces
<1>1. "round" \in Places BY DEF Places, SearchPlaces
<1>2. /\ host' \in [Hosts -> HostStates] /\ \A g \in Hosts \ {h} : host'[g] = host[g]
      /\ host'[h].at = "round" /\ host'[h].op = "search" /\ host'[h].run = host[h].run
  BY <1>0, <1>1, GoMoves
<1>3. (HostFits(h) /\ LocksFit(h) /\ StageIsReached(h))'
  BY <1>0, <1>2, SearchPlaceFits DEF SearchPlaces
<1>4. PICK none : none = <<>> OBVIOUS
<1>9. none \in Seq(Round) BY <1>4
<1>5. Save(host[h].run, "running", none) /\ UNCHANGED <<locks, evidence, pinned, sealed, asked, runs>>
  BY <1>4
<1>6. Len(none) <= MaxRounds /\ \A i \in 1..Len(none) : FALSE BY <1>4
<1>7. host'[h].at \notin WorkPlaces \cup {"judged", "compared", "anchor", "propose"}
  BY <1>2 DEF WorkPlaces, CheckPlaces, TrialPlaces
<1>8. \A i \in 1..Len(none) - 1 : FALSE BY <1>4
<1> HIDE DEF AnchorSearch
<1> QED BY <1>0, <1>2, <1>3, <1>5, <1>6, <1>7, <1>8, <1>9, RunStep

\* NextRound keeps the invariant.
LEMMA NextRoundKeeps ==
  ASSUME EvidenceInvariant, NEW h \in Hosts, NextRound(h), UNCHANGED regime
  PROVE  EvidenceInvariant'
<1> USE EvidenceAssumption DEF NextRound, At
<1>r. PICK r : r = host[h].run OBVIOUS
<1>s. PICK rows : rows = Rows(r) OBVIOUS
<1> DEFINE more == Append(rows, [cand |-> nobody, status |-> "generating"])
<1>0. EvidenceShape /\ HostFits(h) /\ RunIsOurs(h) /\ host[h].op = "search" /\ SearchFinds(h)
  BY SearchGoesOn DEF EvidenceInvariant, HostFits, SearchPlaces
<1>1. /\ r \in Runs /\ search[r].status = "running" /\ rows \in Seq(Round)
      /\ RoundsHold(r) /\ ~Uncertain(r)
  BY <1>0, <1>r, <1>s DEF SearchFinds, RunIsOurs
<1>2. \A i \in 1..Len(rows) : rows[i].status \in Certain
  BY <1>1, <1>s DEF Uncertain
<1>3. CASE Stops(rows)
  <2>1. Save(r, "finished", rows) /\ LeaveAll(h) /\ UNCHANGED <<evidence, pinned, sealed, asked, runs>>
    BY <1>3, <1>r, <1>s
  <2> DEFINE new == [status |-> "finished", rows |-> rows]
  <2>2. /\ new \in SearchStates /\ search' = [search EXCEPT ![r] = new]
        /\ search' \in [Runs -> SearchStates] /\ search'[r] = new
        /\ \A q \in Runs \ {r} : search'[q] = search[q]
    BY <2>1, <1>0, <1>1 DEF SearchStates, Save, EvidenceShape
  <2>3. /\ host' \in [Hosts -> HostStates] /\ \A g \in Hosts \ {h} : host'[g] = host[g]
        /\ host'[h] = Idle
        /\ locks' \in [Locks -> Hosts \cup {nobody}]
        /\ \A l \in Locks : locks'[l] # locks[l] => {locks[l], locks'[l]} \subseteq {nobody, h}
        /\ \A l \in Locks : locks'[l] # h
    BY <2>1, <1>0 DEF LeaveAll, Held, Idle, HostStates, Places, EvidenceShape
  <2>4. (HostFits(h) /\ LocksFit(h) /\ StageIsReached(h) /\ RunIsOurs(h))'
    BY <2>3, IdleFits
  <2>5. EvidenceShape' /\ OthersAlone(h)
    BY <2>1, <2>2, <2>3, <1>0 DEF EvidenceShape, OthersAlone
  <2>6. (\A q \in Runs : RoundsHold(q))'
    <3>1. Rows(r)' = rows /\ ~Uncertain(r)' BY <2>2, <1>2 DEF Rows, Uncertain
    <3>2. RoundsHold(r)'
      BY <3>1, <2>1, <2>2, <1>1, <1>2, <1>3, <1>s DEF RoundsHold, Qualified
    <3>3. ASSUME NEW q \in Runs \ {r} PROVE RoundsHold(q)'
      BY <1>0, <2>1, <2>2, SameRounds DEF EvidenceInvariant, MayBlock
    <3> QED BY <3>2, <3>3, <1>1
  <2> QED BY <2>1, <2>4, <2>5, <2>6, CandidatesStay, StepOfHost
<1>4. CASE ~Stops(rows)
  <2>1. Save(r, "running", more) /\ Go(h, "propose") /\ UNCHANGED <<locks, evidence, pinned, sealed, asked, runs>>
    BY <1>4, <1>r, <1>s
  <2>2. "propose" \in Places BY DEF Places, SearchPlaces
  <2>3. /\ host' \in [Hosts -> HostStates] /\ \A g \in Hosts \ {h} : host'[g] = host[g]
        /\ host'[h].at = "propose" /\ host'[h].op = "search" /\ host'[h].run = r
    BY <2>1, <2>2, <1>0, <1>r, GoMoves
  <2>4. (HostFits(h) /\ LocksFit(h) /\ StageIsReached(h))'
    BY <2>1, <2>3, <1>0, <1>r, SearchPlaceFits DEF SearchPlaces
  <2>5. [cand |-> nobody, status |-> "generating"] \in Round
    BY DEF Round, RowStatus
  <2>6. /\ more \in Seq(Round) /\ Len(more) = Len(rows) + 1 /\ more[Len(more)].cand = nobody
        /\ more[Len(more)].status = "generating"
        /\ \A i \in 1..Len(more) - 1 : more[i] = rows[i]
    BY <2>5, <1>1
  <2>7. Len(more) <= MaxRounds BY <2>6, <1>1, <1>4, <1>s DEF Stops, RoundsHold
  <2>8. \A i \in 1..Len(more) - 1 : more[i].status \in Certain
    BY <2>6, <1>1, <1>2
  <2>9. \A i \in 1..Len(more) : more[i].status = "qualified" =>
           more[i].cand \in Candidates /\ evidence[more[i].cand].paired = "pass"
    BY <2>6, <1>1, <1>s DEF RoundsHold
  <2>10. \A i, j \in 1..Len(more) : more[i].cand = more[j].cand /\ more[i].cand # nobody => i = j
    <3>1. \A i, j \in 1..Len(rows) : rows[i].cand = rows[j].cand /\ rows[i].cand # nobody => i = j
      BY <1>1, <1>s DEF RoundsHold
    <3>2. \A i \in 1..Len(more) : more[i].cand # nobody => i \in 1..Len(rows) /\ more[i] = rows[i]
      BY <2>6, <1>1
    <3> QED BY <3>1, <3>2
  <2>11. Len(more) > 0 /\ host'[h].run = host[h].run BY <2>3, <2>6, <1>1, <1>r
  <2>12. host'[h].at \notin WorkPlaces \cup {"judged", "compared", "anchor", "round"}
    BY <2>3 DEF WorkPlaces, CheckPlaces, TrialPlaces
  <2> HIDE DEF more, NextRound
  <2> QED
    BY <2>1, <2>3, <2>4, <2>6, <2>7, <2>8, <2>9, <2>10, <2>11, <2>12, <1>0, <1>r, RunStep
<1> QED BY <1>3, <1>4

\* A search rewrites its last round.
LEMMA LastRoundStep ==
  ASSUME EvidenceInvariant, NEW h \in Hosts, host[h].op = "search",
         host[h].at \in {"propose", "judged", "compared"},
         NEW c \in Candidates \cup {nobody}, NEW v \in RowStatus,
         Save(host[h].run, "running",
              [Rows(host[h].run) EXCEPT ![Len(Rows(host[h].run))] = [cand |-> c, status |-> v]]),
         UNCHANGED <<locks, evidence, pinned, sealed, asked, runs, regime>>,
         host' \in [Hosts -> HostStates], \A g \in Hosts \ {h} : host'[g] = host[g],
         host'[h].op = "search", host'[h].run = host[h].run,
         c \notin Seen(host[h].run) \/ c = Rows(host[h].run)[Len(Rows(host[h].run))].cand,
         v = "qualified" => c \in Candidates /\ evidence[c].paired = "pass",
         \/ host'[h].at = "round" /\ v \in Certain
         \/ /\ host'[h].at = "materialize" /\ host'[h].cand = c
            /\ c \in Candidates /\ host'[h].then \in {"evaluate", "reserve"}
  PROVE  EvidenceInvariant'
<1> USE EvidenceAssumption
<1>r. PICK r : r = host[h].run OBVIOUS
<1>s. PICK rows : rows = Rows(r) OBVIOUS
<1>0. EvidenceShape /\ HostFits(h) /\ RunIsOurs(h) /\ SearchFinds(h)
  BY SearchGoesOn DEF EvidenceInvariant, At
<1>1. /\ r \in Runs /\ rows \in Seq(Round) /\ Len(rows) > 0 /\ RoundsHold(r)
  BY <1>0, <1>r, <1>s DEF SearchFinds, RunIsOurs
<1>2. PICK x \in Round : x = [cand |-> c, status |-> v] BY DEF Round
<1>3. PICK more : more = [rows EXCEPT ![Len(rows)] = x] OBVIOUS
<1>4. /\ more \in Seq(Round) /\ Len(more) = Len(rows) /\ more[Len(rows)] = x
      /\ \A i \in 1..Len(rows) : i # Len(rows) => more[i] = rows[i]
  BY <1>1, <1>3, LastRound
<1>5. Save(host[h].run, "running", more) BY <1>2, <1>3, <1>r, <1>s
<1>6. /\ Len(rows) <= MaxRounds /\ \A i \in 1..Len(rows) - 1 : rows[i].status \in Certain
      /\ \A i \in 1..Len(rows) : rows[i].status = "qualified" =>
           rows[i].cand \in Candidates /\ evidence[rows[i].cand].paired = "pass"
      /\ \A i, j \in 1..Len(rows) : rows[i].cand = rows[j].cand /\ rows[i].cand # nobody => i = j
  BY <1>1, <1>s DEF RoundsHold
<1>7. /\ Len(more) <= MaxRounds /\ \A i \in 1..Len(more) - 1 : more[i].status \in Certain
  BY SMTT(60), <1>1, <1>4, <1>6
<1>8. \A i \in 1..Len(more) : more[i].status = "qualified" =>
           more[i].cand \in Candidates /\ evidence[more[i].cand].paired = "pass"
  BY <1>1, <1>2, <1>4, <1>6
<1>9. \A i \in 1..Len(rows) : rows[i].cand = c /\ c # nobody => i = Len(rows)
  <2>1. CASE c = rows[Len(rows)].cand BY <2>1, <1>1, <1>6
  <2>2. CASE c \notin Seen(r) BY <2>2, <1>1, <1>s DEF Seen
  <2> QED BY <2>1, <2>2, <1>r, <1>s
<1>10. \A i, j \in 1..Len(more) : more[i].cand = more[j].cand /\ more[i].cand # nobody => i = j
  <2>1. \A i \in 1..Len(more) : more[i].cand = IF i = Len(rows) THEN c ELSE rows[i].cand
    BY <1>2, <1>4
  <2> QED BY <2>1, <1>4, <1>6, <1>9
<1>11. host'[h].at = "round" => \A i \in 1..Len(more) : more[i].status \in Certain
  BY <1>1, <1>2, <1>4, <1>6
<1>12. (HostFits(h) /\ LocksFit(h) /\ StageIsReached(h))'
  BY <1>0, SearchPlaceFits DEF SearchPlaces, At
<1>13. /\ host'[h].at # "anchor" /\ host'[h].at # "propose" /\ Len(more) > 0
       /\ host'[h].at \in WorkPlaces \cup {"judged", "compared"} =>
           more[Len(more)].cand = host'[h].cand
  <2>1. CASE host'[h].at = "round"
    BY <2>1, <1>1, <1>4 DEF WorkPlaces, CheckPlaces, TrialPlaces
  <2>2. CASE host'[h].at = "materialize" /\ host'[h].cand = c
    BY <2>2, <1>1, <1>2, <1>4
  <2> QED BY <2>1, <2>2
<1> QED BY <1>4, <1>5, <1>7, <1>8, <1>10, <1>11, <1>12, <1>13, RunStep

\* Propose keeps the invariant.
LEMMA ProposeKeeps ==
  ASSUME EvidenceInvariant, NEW h \in Hosts, Propose(h), UNCHANGED regime
  PROVE  EvidenceInvariant'
<1> USE EvidenceAssumption
<1> DEFINE rows == Rows(host[h].run)
<1>0. /\ EvidenceShape /\ HostFits(h) /\ RunIsOurs(h) /\ host[h].op = "search" /\ SearchFinds(h)
      /\ At(h, "propose") /\ Len(rows) > 0 /\ rows \in Seq(Round)
  BY SearchGoesOn DEF EvidenceInvariant, HostFits, SearchPlaces, Propose, At, SearchFinds,
     RunIsOurs
<1>1. CASE Save(host[h].run, "running", SetLast(rows, "generation_failed")) /\ Go(h, "round")
  <2>1. "round" \in Places /\ "generation_failed" \in RowStatus \cap Certain
    BY DEF Places, SearchPlaces, RowStatus, Certain
  <2>2. /\ host' \in [Hosts -> HostStates] /\ \A g \in Hosts \ {h} : host'[g] = host[g]
        /\ host'[h].at = "round" /\ host'[h].op = "search" /\ host'[h].run = host[h].run
    BY <1>0, <1>1, <2>1, GoMoves
  <2>3. SetLast(rows, "generation_failed") =
          [rows EXCEPT ![Len(rows)] = [cand |-> rows[Len(rows)].cand, status |-> "generation_failed"]]
    BY <1>0, <2>1, SetLastSays
  <2>4. rows[Len(rows)].cand \in Candidates \cup {nobody}
    BY <1>0 DEF RunIsOurs, At
  <2>5. UNCHANGED <<locks, evidence, pinned, sealed, asked, runs, regime>>
    BY DEF Propose
  <2> QED BY SMTT(60), <1>0, <1>1, <2>1, <2>2, <2>3, <2>4, <2>5, LastRoundStep DEF At
<1>2. ASSUME NEW c \in regime.cands \ Seen(host[h].run),
             Save(host[h].run, "running",
                  [rows EXCEPT ![Len(rows)] = [cand |-> c, status |-> "deterministic"]]),
             host' = [host EXCEPT ![h].at = "materialize", ![h].cand = c, ![h].then = "evaluate"]
      PROVE EvidenceInvariant'
  <2>1. c \in Candidates BY <1>0 DEF EvidenceShape
  <2>2. "materialize" \in Places BY DEF Places, WorkPlaces, CheckPlaces
  <2>5. /\ host' \in [Hosts -> HostStates] /\ \A g \in Hosts \ {h} : host'[g] = host[g]
        /\ host'[h].at = "materialize" /\ host'[h].cand = c /\ host'[h].then = "evaluate"
        /\ host'[h].op = host[h].op /\ host'[h].run = host[h].run
    <3>1. host \in [Hosts -> HostStates] BY <1>0 DEF EvidenceShape
    <3>2. \A g \in Hosts \ {h} : host'[g] = host[g] BY <1>2, <3>1
    <3>3. host[h] \in HostStates BY <3>1
    <3>4. /\ host'[h].at = "materialize" /\ host'[h].cand = c /\ host'[h].then = "evaluate"
        /\ host'[h].op = host[h].op /\ host'[h].run = host[h].run
      BY <1>2, <3>1 DEF HostStates
    <3>5. host' \in [Hosts -> HostStates]
      BY <3>3, <2>1, <2>2, <1>2, <3>1 DEF HostStates
    <3> QED BY <3>2, <3>4, <3>5
  <2>6. UNCHANGED <<locks, evidence, pinned, sealed, asked, runs, regime>>
    BY DEF Propose
  <2>7. "deterministic" \in RowStatus BY DEF RowStatus
  <2> QED BY <1>0, <1>2, <2>1, <2>5, <2>6, <2>7, LastRoundStep DEF At
<1> QED BY <1>1, <1>2 DEF Propose

\* A refusal keeps the invariant.
LEMMA RefuseKeeps ==
  ASSUME EvidenceInvariant, NEW h \in Hosts, Refuse(h), UNCHANGED regime
  PROVE  EvidenceInvariant'
BY LeaveKeeps DEF Refuse

\* AfterJudgement keeps the invariant.
LEMMA JudgedKeeps ==
  ASSUME EvidenceInvariant, NEW h \in Hosts, AfterJudgement(h), UNCHANGED regime
  PROVE  EvidenceInvariant'
<1> USE EvidenceAssumption
<1> DEFINE rows == Rows(host[h].run)
<1>0. /\ EvidenceShape /\ HostFits(h) /\ RunIsOurs(h) /\ host[h].op = "search" /\ SearchFinds(h)
      /\ host[h].at = "judged" /\ Len(rows) > 0 /\ rows \in Seq(Round)
      /\ rows[Len(rows)].cand = host[h].cand /\ host[h].cand \in Candidates
  BY SearchGoesOn DEF EvidenceInvariant, HostFits, SearchPlaces, AfterJudgement, At,
     SearchFinds, RunIsOurs
<1>1. CASE Refuse(h) BY <1>1, RefuseKeeps
<1>2. CASE /\ Save(host[h].run, "running", SetLast(rows, "rejected")) /\ Go(h, "round")
           /\ UNCHANGED <<locks, evidence, pinned, sealed, asked, runs>>
  <2>1. "round" \in Places /\ "rejected" \in RowStatus \cap Certain
    BY DEF Places, SearchPlaces, RowStatus, Certain
  <2>2. /\ host' \in [Hosts -> HostStates] /\ \A g \in Hosts \ {h} : host'[g] = host[g]
        /\ host'[h].at = "round" /\ host'[h].op = "search" /\ host'[h].run = host[h].run
    BY <1>0, <1>2, <2>1, GoMoves
  <2>3. SetLast(rows, "rejected") =
          [rows EXCEPT ![Len(rows)] = [cand |-> rows[Len(rows)].cand, status |-> "rejected"]]
    BY <1>0, <2>1, SetLastSays
  <2> QED BY <1>0, <1>2, <2>1, <2>2, <2>3, LastRoundStep
<1>3. CASE /\ Save(host[h].run, "running", SetLast(rows, "paired"))
           /\ host' = [host EXCEPT ![h].at = "materialize", ![h].then = "reserve"]
           /\ UNCHANGED <<locks, evidence, pinned, sealed, asked, runs>>
  <2>1. "materialize" \in Places /\ "paired" \in RowStatus
    BY DEF Places, WorkPlaces, CheckPlaces, RowStatus
  <2>2. host \in [Hosts -> HostStates] /\ host[h] \in HostStates
    BY <1>0 DEF EvidenceShape
  <2>3. [host[h] EXCEPT !.at = "materialize", !.then = "reserve"] \in HostStates
    BY <2>1, <2>2 DEF HostStates
  <2>4. host' = [host EXCEPT ![h] = [host[h] EXCEPT !.at = "materialize", !.then = "reserve"]]
    BY <1>3
  <2>5. host' \in [Hosts -> HostStates] /\ \A g \in Hosts \ {h} : host'[g] = host[g]
    BY <2>2, <2>3, <2>4
  <2>6. /\ host'[h].at = "materialize" /\ host'[h].then = "reserve"
        /\ host'[h].op = host[h].op /\ host'[h].run = host[h].run /\ host'[h].cand = host[h].cand
    BY <2>2, <1>3 DEF HostStates
  <2>7. SetLast(rows, "paired") =
          [rows EXCEPT ![Len(rows)] = [cand |-> rows[Len(rows)].cand, status |-> "paired"]]
    BY <1>0, <2>1, SetLastSays
  <2>8. /\ host'[h].at = "materialize" /\ host'[h].cand = rows[Len(rows)].cand
        /\ rows[Len(rows)].cand \in Candidates /\ host'[h].then \in {"evaluate", "reserve"}
    BY <1>0, <2>6
  <2>9. Save(host[h].run, "running",
             [rows EXCEPT ![Len(rows)] = [cand |-> rows[Len(rows)].cand, status |-> "paired"]])
    BY <1>3, <2>7
  <2> QED BY <1>0, <1>3, <2>1, <2>5, <2>6, <2>8, <2>9, LastRoundStep
<1> QED BY <1>1, <1>2, <1>3 DEF AfterJudgement

\* AfterComparison keeps the invariant.
LEMMA ComparedKeeps ==
  ASSUME EvidenceInvariant, NEW h \in Hosts, AfterComparison(h), UNCHANGED regime
  PROVE  EvidenceInvariant'
<1> USE EvidenceAssumption
<1> DEFINE rows == Rows(host[h].run)
<1>0. /\ EvidenceShape /\ HostFits(h) /\ RunIsOurs(h) /\ host[h].op = "search" /\ SearchFinds(h)
      /\ host[h].at = "compared" /\ Len(rows) > 0 /\ rows \in Seq(Round)
      /\ rows[Len(rows)].cand = host[h].cand /\ host[h].cand \in Candidates
  BY SearchGoesOn DEF EvidenceInvariant, HostFits, SearchPlaces, AfterComparison, At,
     SearchFinds, RunIsOurs
<1>1. CASE Refuse(h) BY <1>1, RefuseKeeps
<1>2. CASE Ev(h).paired # "error" /\ ~Refuse(h)
  <2>1. PICK v : v = IF Ev(h).paired = "pass" THEN "qualified" ELSE "rejected"
    OBVIOUS
  <2>2. /\ Save(host[h].run, "running", SetLast(rows, v)) /\ Go(h, "round")
        /\ UNCHANGED <<locks, evidence, pinned, sealed, asked, runs>>
    BY <1>2, <2>1 DEF AfterComparison
  <2>3. "round" \in Places /\ v \in RowStatus \cap Certain
    BY <2>1 DEF Places, SearchPlaces, RowStatus, Certain
  <2>4. /\ host' \in [Hosts -> HostStates] /\ \A g \in Hosts \ {h} : host'[g] = host[g]
        /\ host'[h].at = "round" /\ host'[h].op = "search" /\ host'[h].run = host[h].run
    BY <1>0, <2>2, <2>3, GoMoves
  <2>5. SetLast(rows, v) = [rows EXCEPT ![Len(rows)] = [cand |-> rows[Len(rows)].cand, status |-> v]]
    BY <1>0, <2>3, SetLastSays
  <2>6. v = "qualified" => evidence[host[h].cand].paired = "pass" BY <2>1 DEF Ev
  <2> QED BY <1>0, <2>2, <2>3, <2>4, <2>5, <2>6, LastRoundStep
<1> QED BY <1>1, <1>2 DEF AfterComparison

\* An operation is called for on a host that has nothing to do.
LEMMA OpenKeeps ==
  ASSUME EvidenceInvariant, NEW h \in Hosts, NEW r \in Runs, OpenSearch(h, r) \/ ResumeSearch(h, r),
         UNCHANGED regime
  PROVE  EvidenceInvariant'
<1> USE EvidenceAssumption
<1> DEFINE pc == host'[h].at
<1>0. /\ EvidenceShape /\ host[h] = Idle /\ Free("search") /\ RoundsHold(r)
      /\ UNCHANGED <<evidence, pinned, sealed, asked, runs>>
      /\ host' \in [Hosts -> HostStates] /\ \A g \in Hosts \ {h} : host'[g] = host[g]
      /\ host'[h].op = "search" /\ host'[h].run = r
      /\ pc = IF OpenSearch(h, r) THEN "anchor" ELSE "round"
  <2>1. EvidenceShape /\ host[h] = Idle /\ Free("search") /\ RoundsHold(r)
        /\ UNCHANGED <<evidence, pinned, sealed, asked, runs>>
    BY DEF OpenSearch, ResumeSearch, EvidenceInvariant
  <2>4. ASSUME NEW a \in {"anchor", "round"}
        PROVE  LET s == [Idle EXCEPT !.op = "search", !.at = a, !.run = r] IN
               s \in HostStates /\ s.op = "search" /\ s.run = r /\ s.at = a
    <3>1. Idle \in HostStates BY DEF Idle, HostStates, Places
    <3>2. a \in Places BY DEF Places, SearchPlaces
    <3> QED BY <3>1, <3>2 DEF HostStates
  <2>2. CASE OpenSearch(h, r) BY <2>1, <2>2, <2>4 DEF OpenSearch, EvidenceShape
  <2>3. CASE ResumeSearch(h, r) /\ ~OpenSearch(h, r)
    BY <2>1, <2>3, <2>4 DEF ResumeSearch, EvidenceShape
  <2> QED BY <2>1, <2>2, <2>3
<1>1. locks' = [locks EXCEPT !["search"] = h] /\ locks' \in [Locks -> Hosts \cup {nobody}]
  BY <1>0 DEF OpenSearch, ResumeSearch, Take, EvidenceShape
<1>2. /\ search[r] \in SearchStates /\ search' \in [Runs -> SearchStates]
      /\ \A q \in Runs \ {r} : search'[q] = search[q]
      /\ search'[r].rows = search[r].rows
      /\ search'[r].status = (IF pc = "anchor" THEN "bare" ELSE "running")
      /\ search[r].status # "finished"
  <2>1. search \in [Runs -> SearchStates] /\ search[r] \in SearchStates
    BY <1>0 DEF EvidenceShape
  <2>2. CASE OpenSearch(h, r) BY <2>1, <2>2, <1>0 DEF SearchStates, OpenSearch
  <2>3. CASE ResumeSearch(h, r) /\ ~OpenSearch(h, r)
    BY <2>3, <2>1, <1>0 DEF ResumeSearch, Save, Rows, SearchStates
  <2> QED BY <2>2, <2>3
<1>3. EvidenceShape' /\ OthersAlone(h)
  BY <1>0, <1>1, <1>2 DEF EvidenceShape, OthersAlone, Free, Locks
<1>4. HostFits(h)'
  BY <1>0 DEF HostFits, SearchPlaces, WorkPlaces, CheckPlaces, TrialPlaces
<1>5. LocksFit(h)'
  <2>1. \A l \in Locks \ {"search"} : locks'[l] # h
    BY <1>0, <1>1, IdleHoldsNothing DEF EvidenceInvariant, EvidenceShape
  <2>2. /\ locks'["search"] = h /\ locks'["materialization"] # h
        /\ locks'["evaluation"] # h /\ locks'["paired"] # h
    BY <1>0, <1>1, <2>1 DEF EvidenceShape, Locks
  <2> QED BY <1>0, <2>2 DEF LocksFit, TrialPlaces
<1>6. StageIsReached(h)' BY <1>0 DEF StageIsReached, TrialPlaces
<1>7. Rows(r)' = Rows(r) /\ Uncertain(r)' = Uncertain(r)
  BY <1>2 DEF Rows, Uncertain
<1>8. RunIsOurs(h)'
  BY <1>0, <1>2, <1>7 DEF ResumeSearch, RunIsOurs, WorkPlaces, CheckPlaces, TrialPlaces
<1>9. (\A q \in Runs : RoundsHold(q))'
  <2>1. RoundsHold(r)' BY <1>0, <1>2, <1>7 DEF RoundsHold, OpenSearch, Rows
  <2>2. ASSUME NEW q \in Runs \ {r} PROVE RoundsHold(q)'
    BY <1>0, <1>2, SameRounds DEF EvidenceInvariant, MayBlock
  <2> QED BY <2>1, <2>2
<1> QED BY <1>0, <1>3, <1>4, <1>5, <1>6, <1>8, <1>9, CandidatesStay, StepOfHost

\* A host works on its candidate, and writes what it has found to the ledger.
LEMMA WorkStep ==
  ASSUME EvidenceInvariant, NEW h \in Hosts, NEW c \in Candidates, NEW e \in Evidence,
         evidence' = [evidence EXCEPT ![c] = e],
         host' \in [Hosts -> HostStates], \A g \in Hosts \ {h} : host'[g] = host[g],
         locks' \in [Locks -> Hosts \cup {nobody}],
         \A l \in Locks : locks'[l] # locks[l] => {locks[l], locks'[l]} \subseteq {nobody, h},
         search' \in [Runs -> SearchStates], search' # search => host[h].op = "search",
         \A r \in Runs : MayBlock(r),
         UNCHANGED <<sealed, asked, regime>>, pinned' = pinned \/ pinned' = pinned \cup {c},
         evidence[c].materialized => e.materialized,
         evidence[c].reserved => e.reserved,
         evidence[c].check = "completed" => e.check = "completed",
         evidence[c].check = "started" /\ host[h].at \notin {"checking", "testing"} =>
           e.check = "started",
         host[h].at \notin TrialPlaces => e.trial = evidence[c].trial,
         evidence[c].paired = "pass" => e.paired = "pass",
         e.reconciled = evidence[c].reconciled,
         runs' \in RunCounts,
         (HostFits(h) /\ LocksFit(h) /\ StageIsReached(h) /\ RunIsOurs(h))',
         (GatesHold(c) /\ ReconciledOnce(c))'
  PROVE  EvidenceInvariant'
<1>0. EvidenceShape /\ evidence \in [Candidates -> Evidence]
  BY DEF EvidenceInvariant, EvidenceShape
<1>1. /\ evidence' \in [Candidates -> Evidence] /\ evidence'[c] = e
      /\ \A d \in Candidates \ {c} : evidence'[d] = evidence[d]
  BY <1>0
<1>2. EvidenceShape' BY <1>0, <1>1 DEF EvidenceShape
<1>3. OthersAlone(h) BY <1>1 DEF OthersAlone
<1>4. ASSUME NEW d \in Candidates \ {c} PROVE (GatesHold(d) /\ ReconciledOnce(d))'
  BY <1>1, SameGates, SameReconciled DEF EvidenceInvariant
<1>5. ASSUME NEW r \in Runs PROVE RoundsHold(r)'
  BY <1>0, <1>1, SameRounds DEF EvidenceInvariant
<1> QED BY <1>2, <1>3, <1>4, <1>5, StepOfHost

\* A host that works goes on for its search, or for its caller.
LEMMA WorkerGoesOn ==
  ASSUME EvidenceInvariant, NEW h \in Hosts, host[h].at \in WorkPlaces, UNCHANGED <<search, sealed>>,
         host'[h].op = host[h].op, host'[h].run = host[h].run, host'[h].cand = host[h].cand,
         host'[h].then = host[h].then,
         \/ host'[h].at \in WorkPlaces
         \/ host'[h].at \in {"judged", "compared"} /\ host[h].op = "search",
         host'[h].at \in {"trying", "tried", "measure"} => host'[h].trial \in Trials
  PROVE  (HostFits(h) /\ RunIsOurs(h))'
<1> USE DEF SearchPlaces, WorkPlaces, CheckPlaces, TrialPlaces
<1>0. HostFits(h) /\ RunIsOurs(h) BY DEF EvidenceInvariant
<1>1. HostFits(h)' BY <1>0 DEF HostFits
<1>2. RunIsOurs(h)'
  <2>1. CASE host[h].op = "search" BY <1>0, <2>1 DEF Rows, RunIsOurs
  <2>2. CASE host[h].op # "search" BY <1>0, <2>2 DEF RunIsOurs, HostFits
  <2> QED BY <2>1, <2>2
<1> QED BY <1>1, <1>2

\* What a host that works on a candidate may rely on.
WorkerFinds(h) ==
  /\ EvidenceShape /\ HostFits(h) /\ LocksFit(h) /\ StageIsReached(h) /\ RunIsOurs(h)
  /\ host[h].cand \in Candidates /\ Ev(h) \in Evidence /\ evidence \in [Candidates -> Evidence]
  /\ host[h] \in HostStates /\ locks \in [Locks -> Hosts \cup {nobody}]
  /\ GatesHold(host[h].cand) /\ ReconciledOnce(host[h].cand) /\ runs \in RunCounts
  /\ search \in [Runs -> SearchStates] /\ \A r \in Runs : UNCHANGED search => MayBlock(r)

\* What a host knows while it works on a candidate.
LEMMA AtWork ==
  ASSUME EvidenceInvariant, NEW h \in Hosts, host[h].at \in WorkPlaces
  PROVE  WorkerFinds(h)
<1>1. EvidenceShape /\ HostFits(h) /\ LocksFit(h) /\ StageIsReached(h) /\ RunIsOurs(h)
  BY DEF EvidenceInvariant
<1>2. host[h].cand \in Candidates BY <1>1 DEF HostFits
<1> QED BY <1>1, <1>2 DEF WorkerFinds, EvidenceInvariant, EvidenceShape, Ev, MayBlock

\* What the trials say of a promotion depends on the trials alone.
LEMMA PromotionIsOfTrials ==
  ASSUME NEW e, NEW f, e.trial = f.trial
  PROVE  Promotion(e) = Promotion(f) /\ (Valid(e) <=> Valid(f))
<1>1. Valid(e) <=> Valid(f) BY DEF Valid
<1>2. \A i, j : Beats(e, i, j) <=> Beats(f, i, j) BY DEF Beats
<1>3. /\ {i \in Trials : Control(i) /\ Beats(e, i + 1, i)} = {i \in Trials : Control(i) /\ Beats(f, i + 1, i)}
      /\ {i \in Trials : Control(i) /\ Beats(e, i, i + 1)} = {i \in Trials : Control(i) /\ Beats(f, i, i + 1)}
  BY <1>2
<1> QED BY <1>1, <1>3 DEF Promotion

\* What is written besides the gates leaves them.
LEMMA OtherFields ==
  ASSUME NEW c \in Candidates, NEW e, evidence'[c] = e, GatesHold(c),
         e.materialized => c \in pinned', evidence[c].materialized => e.materialized,
         e.check = evidence[c].check, e.verdict = evidence[c].verdict, e.gate = evidence[c].gate,
         e.reserved = evidence[c].reserved, e.trial = evidence[c].trial,
         e.violation = evidence[c].violation, e.paired = evidence[c].paired,
         UNCHANGED <<sealed, asked>>
  PROVE  GatesHold(c)'
<1>1. Promotion(e) = Promotion(evidence[c]) BY PromotionIsOfTrials
<1> QED BY <1>1 DEF GatesHold

\* BindManifest keeps the invariant.
LEMMA BindKeeps ==
  ASSUME EvidenceInvariant, NEW h \in Hosts, BindManifest(h), UNCHANGED regime
  PROVE  EvidenceInvariant'
<1> USE EvidenceAssumption
<1>0. /\ host[h].at = "materialize" /\ host[h].at \in WorkPlaces /\ locks["materialization"] = nobody
      /\ UNCHANGED <<pinned, search, sealed, asked, runs>>
  BY DEF BindManifest, At, Free, WorkPlaces, CheckPlaces
<1>1. WorkerFinds(h) BY <1>0, AtWork
<1>c. PICK c \in Candidates : c = host[h].cand BY <1>1 DEF WorkerFinds
<1>2. PICK e : e = [evidence[c] EXCEPT !.created = TRUE] OBVIOUS
<1>3. evidence' = [evidence EXCEPT ![c] = e]
  BY <1>2, <1>c DEF BindManifest, Ledger, Cand, Ev
<1>4. /\ e \in Evidence /\ e.materialized = evidence[c].materialized /\ e.check = evidence[c].check
      /\ e.verdict = evidence[c].verdict /\ e.gate = evidence[c].gate
      /\ e.reserved = evidence[c].reserved /\ e.trial = evidence[c].trial
      /\ e.violation = evidence[c].violation /\ e.paired = evidence[c].paired
      /\ e.reconciled = evidence[c].reconciled
  BY <1>1, <1>2 DEF WorkerFinds, Evidence
<1>5. "pin" \in Places /\ Go(h, "pin")
  BY DEF Places, WorkPlaces, CheckPlaces, BindManifest
<1>6. /\ host' \in [Hosts -> HostStates] /\ \A g \in Hosts \ {h} : host'[g] = host[g]
      /\ host'[h].op = host[h].op /\ host'[h].at = "pin" /\ host'[h].run = host[h].run
      /\ host'[h].cand = host[h].cand /\ host'[h].then = host[h].then
  BY <1>1, <1>5, GoMoves DEF WorkerFinds
<1>7. locks' = [locks EXCEPT !["materialization"] = h] BY DEF BindManifest, Take
<1>8. /\ locks' \in [Locks -> Hosts \cup {nobody}]
      /\ \A l \in Locks : locks'[l] # locks[l] => {locks[l], locks'[l]} \subseteq {nobody, h}
  BY <1>0, <1>1, <1>7 DEF WorkerFinds, Locks
<1>9. LocksFit(h)'
  BY <1>0, <1>1, <1>6, <1>7 DEF WorkerFinds, LocksFit, Locks, TrialPlaces
<1>10. HostFits(h)' /\ RunIsOurs(h)'
  BY <1>0, <1>6, WorkerGoesOn DEF WorkPlaces, CheckPlaces
<1>11. StageIsReached(h)' BY <1>6 DEF StageIsReached, TrialPlaces
<1>12. evidence'[c] = e BY <1>1, <1>3 DEF WorkerFinds
<1>13. GatesHold(c)'
  <2>1. GatesHold(c) BY <1>1, <1>c DEF WorkerFinds
  <2>2. e.materialized => c \in pinned' BY <1>0, <1>4, <2>1 DEF GatesHold
  <2> QED BY <1>0, <1>4, <1>12, <2>1, <2>2, OtherFields
<1>14. ReconciledOnce(c)'
  BY <1>1, <1>3, <1>4, <1>0, <1>c, <1>12, SameReconciled DEF WorkerFinds
<1> QED
  BY <1>0, <1>1, <1>3, <1>4, <1>6, <1>8, <1>9, <1>10, <1>11, <1>13, <1>14, WorkStep
  DEF WorkerFinds

\* A worker that is done goes back to the search, or leaves.
LEMMA WorkerReturns ==
  ASSUME EvidenceInvariant, NEW h \in Hosts, host[h].at \in WorkPlaces, UNCHANGED <<search, sealed>>,
         NEW pc \in {"judged", "compared"}, Back(h, pc),
         NEW l \in Locks \ {"search"}, locks[l] = h, locks' = [locks EXCEPT ![l] = nobody]
  PROVE  /\ host' \in [Hosts -> HostStates] /\ \A g \in Hosts \ {h} : host'[g] = host[g]
         /\ locks' \in [Locks -> Hosts \cup {nobody}]
         /\ \A k \in Locks : locks'[k] # locks[k] => {locks[k], locks'[k]} \subseteq {nobody, h}
         /\ (HostFits(h) /\ LocksFit(h) /\ StageIsReached(h) /\ RunIsOurs(h))'
<1> USE EvidenceAssumption
<1>0. WorkerFinds(h) BY AtWork
<1>1. /\ locks' \in [Locks -> Hosts \cup {nobody}]
      /\ \A k \in Locks : locks'[k] # locks[k] => {locks[k], locks'[k]} \subseteq {nobody, h}
      /\ \A k \in Locks \ {"search"} : locks'[k] = h => locks[k] = h /\ k # l
      /\ locks'["search"] = locks["search"]
  BY <1>0 DEF WorkerFinds, Locks
<1>2. \A k \in Locks \ {"search"} : locks'[k] # h
  BY <1>0, <1>1 DEF WorkerFinds, LocksFit, Locks, TrialPlaces
<1>3. CASE host[h].op = "search"
  <2>1. pc \in Places /\ Go(h, pc) BY <1>3 DEF Places, SearchPlaces, Back
  <2>2. /\ host' \in [Hosts -> HostStates] /\ \A g \in Hosts \ {h} : host'[g] = host[g]
        /\ host'[h].op = host[h].op /\ host'[h].at = pc /\ host'[h].run = host[h].run
        /\ host'[h].cand = host[h].cand /\ host'[h].then = host[h].then
    BY <1>0, <2>1, GoMoves DEF WorkerFinds
  <2>3. HostFits(h)' /\ RunIsOurs(h)' BY <1>3, <2>2, WorkerGoesOn
  <2>4. LocksFit(h)'
    BY <1>0, <1>1, <1>2, <1>3, <2>2 DEF LocksFit, WorkerFinds, TrialPlaces, Locks
  <2>5. StageIsReached(h)' BY <2>2 DEF StageIsReached, TrialPlaces
  <2> QED BY <1>1, <2>2, <2>3, <2>4, <2>5
<1>4. CASE host[h].op # "search"
  <2>1. /\ Idle \in HostStates /\ host' = [host EXCEPT ![h] = Idle]
    BY <1>4 DEF Idle, HostStates, Places, Back
  <2>2. /\ host' \in [Hosts -> HostStates] /\ \A g \in Hosts \ {h} : host'[g] = host[g]
        /\ host'[h] = Idle
    BY <1>0, <2>1 DEF WorkerFinds, EvidenceShape
  <2>3. host[h].op # "seal"
    BY <1>0 DEF WorkerFinds, HostFits, WorkPlaces, CheckPlaces, TrialPlaces
  <2>4. locks["search"] # h BY <1>0, <1>4, <2>3 DEF WorkerFinds, LocksFit
  <2>5. (HostFits(h) /\ LocksFit(h) /\ StageIsReached(h) /\ RunIsOurs(h))'
    BY <1>1, <1>2, <2>2, <2>4, IdleFits
  <2> QED BY <1>1, <2>2, <2>5
<1> QED BY <1>3, <1>4

\* PinCommit keeps the invariant.
LEMMA PinKeeps ==
  ASSUME EvidenceInvariant, NEW h \in Hosts, PinCommit(h), UNCHANGED regime
  PROVE  EvidenceInvariant'
<1> USE EvidenceAssumption
<1>0. host[h].at = "pin" /\ host[h].at \in WorkPlaces
  BY DEF PinCommit, At, WorkPlaces, CheckPlaces
<1>1. WorkerFinds(h) BY <1>0, AtWork
<1>c. PICK c \in Candidates : c = host[h].cand BY <1>1 DEF WorkerFinds
<1>2. CASE Refuse(h) BY <1>2, RefuseKeeps
<1>3. CASE ~Refuse(h)
  <2>1. /\ pinned' = pinned \cup {c} /\ Go(h, "record")
        /\ UNCHANGED <<locks, evidence, search, sealed, asked, runs>>
    BY <1>3, <1>c DEF PinCommit, Cand
  <2>2. /\ evidence' = [evidence EXCEPT ![c] = evidence[c]] /\ evidence[c] \in Evidence
    BY <1>1, <2>1 DEF WorkerFinds
  <2>3. "record" \in Places BY DEF Places, WorkPlaces, CheckPlaces
  <2>4. /\ host' \in [Hosts -> HostStates] /\ \A g \in Hosts \ {h} : host'[g] = host[g]
        /\ host'[h].op = host[h].op /\ host'[h].at = "record" /\ host'[h].run = host[h].run
        /\ host'[h].cand = host[h].cand /\ host'[h].then = host[h].then
    BY <1>1, <2>1, <2>3, GoMoves DEF WorkerFinds
  <2>5. HostFits(h)' /\ RunIsOurs(h)'
    BY <1>0, <2>1, <2>4, WorkerGoesOn DEF WorkPlaces, CheckPlaces
  <2>6. LocksFit(h)'
    BY <1>0, <1>1, <2>1, <2>4 DEF WorkerFinds, LocksFit, TrialPlaces
  <2>7. StageIsReached(h)' BY <1>c, <2>1, <2>4 DEF StageIsReached, TrialPlaces
  <2>8. GatesHold(c)' BY <1>1, <1>c, <2>1, SameGates DEF WorkerFinds
  <2>9. ReconciledOnce(c)' BY <1>1, <1>c, <2>1, SameReconciled DEF WorkerFinds
  <2> QED
    BY <1>0, <1>1, <2>1, <2>2, <2>4, <2>5, <2>6, <2>7, <2>8, <2>9, WorkStep DEF WorkerFinds
<1> QED BY <1>2, <1>3

\* RecordMaterialized keeps the invariant.
LEMMA RecordKeepsEvidence ==
  ASSUME EvidenceInvariant, NEW h \in Hosts, RecordMaterialized(h), UNCHANGED regime
  PROVE  EvidenceInvariant'
<1> USE EvidenceAssumption
<1>0. /\ host[h].at = "record" /\ host[h].at \in WorkPlaces
      /\ UNCHANGED <<pinned, search, sealed, asked, runs>>
  BY DEF RecordMaterialized, At, WorkPlaces, CheckPlaces
<1>1. WorkerFinds(h) BY <1>0, AtWork
<1>c. PICK c \in Candidates : c = host[h].cand BY <1>1 DEF WorkerFinds
<1>2. PICK e : e = [evidence[c] EXCEPT !.materialized = TRUE] OBVIOUS
<1>3. evidence' = [evidence EXCEPT ![c] = e]
  BY <1>2, <1>c DEF RecordMaterialized, Ledger, Cand, Ev
<1>4. /\ e \in Evidence /\ e.materialized /\ e.check = evidence[c].check
      /\ e.verdict = evidence[c].verdict /\ e.gate = evidence[c].gate
      /\ e.reserved = evidence[c].reserved /\ e.trial = evidence[c].trial
      /\ e.violation = evidence[c].violation /\ e.paired = evidence[c].paired
      /\ e.reconciled = evidence[c].reconciled
  BY <1>1, <1>2 DEF WorkerFinds, Evidence
<1>5. /\ host[h].then \in {"evaluate", "reserve"} /\ host[h].then \in Places /\ Go(h, host[h].then)
  BY <1>0, <1>1 DEF WorkerFinds, HostFits, Places, WorkPlaces, CheckPlaces, RecordMaterialized
<1>6. /\ host' \in [Hosts -> HostStates] /\ \A g \in Hosts \ {h} : host'[g] = host[g]
      /\ host'[h].op = host[h].op /\ host'[h].at \in {"evaluate", "reserve"}
      /\ host'[h].run = host[h].run
      /\ host'[h].cand = host[h].cand /\ host'[h].then = host[h].then
  BY <1>1, <1>5, GoMoves DEF WorkerFinds
<1>7. locks' = [locks EXCEPT !["materialization"] = nobody]
  BY DEF RecordMaterialized, Drop
<1>8. /\ locks' \in [Locks -> Hosts \cup {nobody}]
      /\ \A l \in Locks : locks'[l] # locks[l] => {locks[l], locks'[l]} \subseteq {nobody, h}
  BY <1>0, <1>1, <1>7 DEF WorkerFinds, Locks, LocksFit
<1>9. LocksFit(h)'
  BY <1>0, <1>1, <1>6, <1>7 DEF WorkerFinds, LocksFit, Locks, TrialPlaces
<1>10. HostFits(h)' /\ RunIsOurs(h)'
  BY <1>0, <1>6, WorkerGoesOn DEF WorkPlaces, CheckPlaces
<1>12. evidence'[c] = e BY <1>1, <1>3 DEF WorkerFinds
<1>11. StageIsReached(h)'
  BY <1>c, <1>4, <1>6, <1>12 DEF StageIsReached, TrialPlaces, Ev
<1>13. GatesHold(c)'
  BY <1>0, <1>1, <1>c, <1>4, <1>12, OtherFields DEF WorkerFinds, StageIsReached
<1>14. ReconciledOnce(c)'
  BY <1>1, <1>3, <1>4, <1>0, <1>c, <1>12, SameReconciled DEF WorkerFinds
<1> QED
  BY <1>0, <1>1, <1>3, <1>4, <1>6, <1>8, <1>9, <1>10, <1>11, <1>13, <1>14, WorkStep
  DEF WorkerFinds

\* StartChecks keeps the invariant.
LEMMA StartChecksKeeps ==
  ASSUME EvidenceInvariant, NEW h \in Hosts, StartChecks(h), UNCHANGED regime
  PROVE  EvidenceInvariant'
<1> USE EvidenceAssumption
<1>0. host[h].at = "evaluate" /\ host[h].at \in WorkPlaces /\ locks["evaluation"] = nobody
  BY DEF StartChecks, At, Free, WorkPlaces, CheckPlaces
<1>1. WorkerFinds(h) BY <1>0, AtWork
<1>c. PICK c \in Candidates : c = host[h].cand BY <1>1 DEF WorkerFinds
<1>2. CASE Refuse(h) BY <1>2, RefuseKeeps
<1>3. CASE ~Refuse(h)
  <2>1. PICK pc \in {"checking", "decide"} :
           /\ Go(h, pc) /\ Take(h, "evaluation")
           /\ \/ /\ pc = "checking" /\ evidence[c].check = "none"
                 /\ evidence' = [evidence EXCEPT ![c] = [evidence[c] EXCEPT !.check = "started"]]
              \/ /\ pc = "decide" /\ evidence[c].check = "completed" /\ evidence' = evidence
           /\ UNCHANGED <<pinned, search, sealed, asked, runs>>
    BY <1>3, <1>c DEF StartChecks, Ledger, Cand, Ev, MayCheck
  <2>2. PICK e : e = IF pc = "decide" THEN evidence[c] ELSE [evidence[c] EXCEPT !.check = "started"]
    OBVIOUS
  <2>3. evidence' = [evidence EXCEPT ![c] = e]
    BY <1>1, <2>1, <2>2 DEF WorkerFinds
  <2>4. /\ e \in Evidence /\ e.materialized = evidence[c].materialized
        /\ e.check = (IF pc = "decide" THEN "completed" ELSE "started")
        /\ e.verdict = evidence[c].verdict /\ e.gate = evidence[c].gate
        /\ e.reserved = evidence[c].reserved /\ e.trial = evidence[c].trial
        /\ e.violation = evidence[c].violation /\ e.paired = evidence[c].paired
        /\ e.reconciled = evidence[c].reconciled
    <3>1. evidence[c] \in Evidence BY <1>1 DEF WorkerFinds
    <3>2. CASE pc = "decide" BY <3>1, <3>2, <2>1, <2>2
    <3>3. CASE pc # "decide" BY <3>1, <3>3, <2>2 DEF Evidence
    <3> QED BY <3>2, <3>3
  <2>5. pc \in Places BY DEF Places, WorkPlaces, CheckPlaces
  <2>6. /\ host' \in [Hosts -> HostStates] /\ \A g \in Hosts \ {h} : host'[g] = host[g]
        /\ host'[h].op = host[h].op /\ host'[h].at = pc /\ host'[h].run = host[h].run
        /\ host'[h].cand = host[h].cand /\ host'[h].then = host[h].then
    BY <1>1, <2>1, <2>5, GoMoves DEF WorkerFinds
  <2>7. locks' = [locks EXCEPT !["evaluation"] = h] BY <2>1 DEF Take
  <2>8. /\ locks' \in [Locks -> Hosts \cup {nobody}]
        /\ \A l \in Locks : locks'[l] # locks[l] => {locks[l], locks'[l]} \subseteq {nobody, h}
    BY <1>0, <1>1, <2>7 DEF WorkerFinds, Locks
  <2>9. LocksFit(h)'
    BY <1>0, <1>1, <2>6, <2>7 DEF WorkerFinds, LocksFit, Locks, TrialPlaces
  <2>10. HostFits(h)' /\ RunIsOurs(h)'
    BY <1>0, <2>1, <2>6, WorkerGoesOn DEF WorkPlaces, CheckPlaces
  <2>11. evidence'[c] = e BY <1>1, <2>3 DEF WorkerFinds
  <2>12. StageIsReached(h)'
    BY <1>0, <1>1, <1>c, <2>4, <2>6, <2>11 DEF WorkerFinds, StageIsReached, TrialPlaces, Ev
  <2>13. GatesHold(c)'
    <3>1. Promotion(e) = Promotion(evidence[c]) /\ GatesHold(c)
      BY <1>1, <1>c, <2>4, PromotionIsOfTrials DEF WorkerFinds
    <3>2. evidence[c].check \in {"none", "completed"} /\ (pc # "decide" => evidence[c].check = "none")
      BY ZenonT(60), <2>1
    <3> QED BY ONLY <3>1, <3>2, <2>4, <2>1, <2>11 DEF GatesHold
  <2>14. ReconciledOnce(c)'
    BY <1>1, <2>3, <2>4, <1>c, <2>1, <2>11 DEF WorkerFinds, ReconciledOnce
  <2> QED
    BY <1>0, <1>1, <2>1, <2>3, <2>4, <2>6, <2>8, <2>9, <2>10, <2>12, <2>13, <2>14, WorkStep
    DEF WorkerFinds
<1> QED BY <1>2, <1>3

\* The checks end: with a verdict, or an exception.
LEMMA ChecksEnd ==
  ASSUME EvidenceInvariant, NEW h \in Hosts, NEW c \in Candidates, c = host[h].cand,
         host[h].at \in {"checking", "testing"},
         NEW e \in Evidence, evidence' = [evidence EXCEPT ![c] = e],
         e.materialized = evidence[c].materialized, e.check \in {"failed", "completed"},
         e.gate = evidence[c].gate, e.reserved = evidence[c].reserved,
         e.trial = evidence[c].trial, e.violation = evidence[c].violation,
         e.paired = evidence[c].paired, e.reconciled = evidence[c].reconciled,
         UNCHANGED <<pinned, sealed, asked>>
  PROVE  GatesHold(c)' /\ ReconciledOnce(c)'
<1> USE EvidenceAssumption
<1>a. /\ e.materialized = evidence[c].materialized /\ e.gate = evidence[c].gate
      /\ e.reserved = evidence[c].reserved /\ e.trial = evidence[c].trial
      /\ e.violation = evidence[c].violation /\ e.paired = evidence[c].paired
      /\ e.reconciled = evidence[c].reconciled /\ e.check \in {"failed", "completed"}
      /\ c \in Candidates /\ UNCHANGED pinned /\ UNCHANGED sealed /\ UNCHANGED asked
  OBVIOUS
<1>0. WorkerFinds(h) BY AtWork DEF WorkPlaces, CheckPlaces
<1>1. /\ evidence[c].check = "started" /\ GatesHold(c) /\ ReconciledOnce(c)
      /\ evidence'[c] = e
  BY <1>0 DEF WorkerFinds, StageIsReached, Ev
<1>3. GatesHold(c)'
  <2>1. Promotion(e) = Promotion(evidence[c]) BY PromotionIsOfTrials
  <2>2. e.gate = "none" /\ e.paired # "pass" /\ ~e.reserved
    BY ONLY <1>a, <1>1 DEF GatesHold
  <2> QED BY ONLY <1>a, <1>1, <2>1, <2>2 DEF GatesHold
<1>4. ReconciledOnce(c)' BY <1>0, <1>1, <1>a, SameReconciled DEF WorkerFinds
<1> QED BY <1>3, <1>4

\* RunChecks keeps the invariant.
LEMMA RunChecksKeeps ==
  ASSUME EvidenceInvariant, NEW h \in Hosts, RunChecks(h), UNCHANGED regime
  PROVE  EvidenceInvariant'
<1> USE EvidenceAssumption
<1>0. /\ host[h].at = "testing" /\ host[h].at \in WorkPlaces
      /\ UNCHANGED <<pinned, sealed, asked, runs>>
  BY DEF RunChecks, At, WorkPlaces, CheckPlaces
<1>1. WorkerFinds(h) BY <1>0, AtWork
<1>c. PICK c \in Candidates : c = host[h].cand BY <1>1 DEF WorkerFinds
<1>r. runs' \in RunCounts BY <1>0, <1>1 DEF WorkerFinds
<1>s. evidence[c] \in Evidence /\ evidence \in [Candidates -> Evidence] /\ evidence[c].check = "started"
  BY <1>0, <1>1, <1>c DEF WorkerFinds, StageIsReached, Ev
<1>2. CASE /\ Ledger(Cand(h), [Ev(h) EXCEPT !.check = "failed"]) /\ LeaveAll(h) /\ Blocked(h)
  <2>1. PICK e : e = [evidence[c] EXCEPT !.check = "failed"] OBVIOUS
  <2>2. evidence' = [evidence EXCEPT ![c] = e]
    BY <1>2, <2>1, <1>c DEF Ledger, Cand, Ev
  <2>3. /\ e \in Evidence /\ e.materialized = evidence[c].materialized
        /\ e.check = "failed" /\ e.gate = evidence[c].gate
        /\ e.reserved = evidence[c].reserved /\ e.trial = evidence[c].trial
        /\ e.violation = evidence[c].violation /\ e.paired = evidence[c].paired
        /\ e.reconciled = evidence[c].reconciled
    BY <1>s, <2>1 DEF Evidence
  <2>4. GatesHold(c)' /\ ReconciledOnce(c)' BY <1>0, <1>c, <2>2, <2>3, ChecksEnd
  <2> QED BY ZenonT(60), <1>0, <1>2, <1>r, <1>s, <2>2, <2>3, <2>4, LeavingHost, WorkStep
<1>3. ASSUME NEW v \in Gates \ {"none"},
             Ledger(Cand(h), [Ev(h) EXCEPT !.check = "completed", !.verdict = v]),
             Go(h, "decide"), UNCHANGED <<locks, search>>
      PROVE  EvidenceInvariant'
  <2>1. PICK e : e = [evidence[c] EXCEPT !.check = "completed", !.verdict = v]
    OBVIOUS
  <2>2. evidence' = [evidence EXCEPT ![c] = e]
    BY <1>3, <2>1, <1>c DEF Ledger, Cand, Ev
  <2>3. /\ e \in Evidence /\ e.materialized = evidence[c].materialized
        /\ e.check = "completed" /\ e.gate = evidence[c].gate
        /\ e.reserved = evidence[c].reserved /\ e.trial = evidence[c].trial
        /\ e.violation = evidence[c].violation /\ e.paired = evidence[c].paired
        /\ e.reconciled = evidence[c].reconciled
    BY <1>s, <2>1 DEF Evidence
  <2>4. GatesHold(c)' /\ ReconciledOnce(c)' BY <1>0, <1>c, <2>2, <2>3, ChecksEnd
  <2>5. "decide" \in Places BY DEF Places, WorkPlaces, CheckPlaces
  <2>6. /\ host' \in [Hosts -> HostStates] /\ \A g \in Hosts \ {h} : host'[g] = host[g]
        /\ host'[h].op = host[h].op /\ host'[h].at = "decide" /\ host'[h].run = host[h].run
        /\ host'[h].cand = host[h].cand /\ host'[h].then = host[h].then
    BY <1>1, <1>3, <2>5, GoMoves DEF WorkerFinds
  <2>7. LocksFit(h)'
    BY <1>0, <1>1, <1>3, <2>6 DEF WorkerFinds, LocksFit, TrialPlaces
  <2>8. HostFits(h)' /\ RunIsOurs(h)'
    BY <1>0, <1>3, <2>6, WorkerGoesOn DEF WorkPlaces, CheckPlaces
  <2>9. evidence'[c] = e BY <1>s, <2>2
  <2>10. StageIsReached(h)'
    BY <1>0, <1>1, <1>c, <2>3, <2>6, <2>9 DEF WorkerFinds, StageIsReached, TrialPlaces, Ev
  <2> QED
    BY <1>0, <1>1, <1>3, <1>r, <1>s, <2>2, <2>3, <2>4, <2>6, <2>7, <2>8, <2>10, WorkStep
    DEF WorkerFinds
<1> QED BY <1>2, <1>3 DEF RunChecks

\* RecordVerdict keeps the invariant.
LEMMA VerdictKeeps ==
  ASSUME EvidenceInvariant, NEW h \in Hosts, RecordVerdict(h), UNCHANGED regime
  PROVE  EvidenceInvariant'
<1> USE EvidenceAssumption
<1>0. /\ host[h].at = "decide" /\ host[h].at \in WorkPlaces
      /\ UNCHANGED <<pinned, search, sealed, asked, runs>>
  BY DEF RecordVerdict, At, WorkPlaces, CheckPlaces
<1>1. WorkerFinds(h) BY <1>0, AtWork
<1>c. PICK c \in Candidates : c = host[h].cand BY <1>1 DEF WorkerFinds
<1>2. PICK e : e = [evidence[c] EXCEPT !.gate = evidence[c].verdict] OBVIOUS
<1>3. evidence' = [evidence EXCEPT ![c] = e] /\ evidence[c] \in Evidence
  BY <1>1, <1>2, <1>c DEF RecordVerdict, Ledger, Cand, Ev, WorkerFinds
<1>4. /\ e \in Evidence /\ e.materialized = evidence[c].materialized
      /\ e.check = evidence[c].check /\ e.verdict = evidence[c].verdict
      /\ e.gate = evidence[c].verdict
      /\ e.reserved = evidence[c].reserved /\ e.trial = evidence[c].trial
      /\ e.violation = evidence[c].violation /\ e.paired = evidence[c].paired
      /\ e.reconciled = evidence[c].reconciled
  BY <1>2, <1>3 DEF Evidence
<1>5. locks' = [locks EXCEPT !["evaluation"] = nobody] /\ Back(h, "judged")
  BY DEF RecordVerdict, Drop
<1>6. locks["evaluation"] = h BY <1>0, <1>1 DEF WorkerFinds, LocksFit
<1>7. /\ host' \in [Hosts -> HostStates] /\ \A g \in Hosts \ {h} : host'[g] = host[g]
      /\ locks' \in [Locks -> Hosts \cup {nobody}]
      /\ \A k \in Locks : locks'[k] # locks[k] => {locks[k], locks'[k]} \subseteq {nobody, h}
      /\ (HostFits(h) /\ LocksFit(h) /\ StageIsReached(h) /\ RunIsOurs(h))'
  BY <1>0, <1>5, <1>6, WorkerReturns DEF Locks
<1>8. evidence'[c] = e BY <1>1, <1>3 DEF WorkerFinds
<1>9. GatesHold(c)'
  <2>1. /\ GatesHold(c) /\ evidence[c].materialized /\ evidence[c].check = "completed"
    BY <1>0, <1>1, <1>c DEF WorkerFinds, StageIsReached, Ev
  <2>2. Promotion(e) = Promotion(evidence[c]) BY <1>4, PromotionIsOfTrials
  <2>3. evidence[c].gate = "pass" => e.gate = "pass" BY <1>4, <2>1 DEF GatesHold
  <2> QED BY <2>1, <2>2, <2>3, <1>0, <1>4, <1>8 DEF GatesHold
<1>10. ReconciledOnce(c)'
  BY <1>1, <1>3, <1>4, <1>0, <1>c, <1>8, SameReconciled DEF WorkerFinds
<1> QED BY <1>0, <1>1, <1>3, <1>4, <1>7, <1>9, <1>10, WorkStep DEF WorkerFinds

\* A step that changes what one host is doing, and nothing of the ledger.
LEMMA HostTurns ==
  ASSUME EvidenceInvariant, NEW h \in Hosts,
         host' \in [Hosts -> HostStates], \A g \in Hosts \ {h} : host'[g] = host[g],
         UNCHANGED <<locks, evidence, pinned, search, sealed, asked, regime>>, runs' \in RunCounts,
         (HostFits(h) /\ LocksFit(h) /\ StageIsReached(h) /\ RunIsOurs(h))'
  PROVE  EvidenceInvariant'
<1>1. EvidenceShape' /\ OthersAlone(h)
  BY DEF EvidenceShape, EvidenceInvariant, OthersAlone
<1>2. (\A r \in Runs : RoundsHold(r))'
  BY SameRounds DEF EvidenceInvariant, MayBlock
<1> QED BY <1>1, <1>2, CandidatesStay, StepOfHost

\* CallOn keeps the invariant.
LEMMA CallKeeps ==
  ASSUME EvidenceInvariant, NEW h \in Hosts, NEW c \in Candidates, NEW t, CallOn(h, c, t),
         UNCHANGED regime
  PROVE  EvidenceInvariant'
<1> USE EvidenceAssumption
<1>0. /\ EvidenceShape /\ host[h] = Idle /\ HostFits(h) /\ LocksFit(h)
      /\ t \in {"evaluate", "reserve"}
      /\ UNCHANGED <<locks, evidence, pinned, search, sealed, asked, runs>>
  BY DEF CallOn, EvidenceInvariant
<1>1. PICK s : s = [Idle EXCEPT !.op = "direct", !.at = "materialize", !.cand = c, !.then = t]
  OBVIOUS
<1>2. /\ s \in HostStates /\ s.op = "direct" /\ s.at = "materialize" /\ s.cand = c /\ s.then = t
  <2>1. Idle \in HostStates /\ "materialize" \in Places
    BY DEF Idle, HostStates, Places, WorkPlaces, CheckPlaces
  <2> QED BY <2>1, <1>0, <1>1 DEF HostStates
<1>3. /\ host' \in [Hosts -> HostStates] /\ \A g \in Hosts \ {h} : host'[g] = host[g]
      /\ host'[h] = s
  BY <1>0, <1>1, <1>2 DEF CallOn, EvidenceShape
<1>4. HostFits(h)'
  BY <1>0, <1>2, <1>3 DEF HostFits, SearchPlaces, WorkPlaces, CheckPlaces, TrialPlaces
<1>5. LocksFit(h)'
  <2>1. /\ locks'["search"] # h /\ locks'["materialization"] # h
        /\ locks'["evaluation"] # h /\ locks'["paired"] # h
    BY <1>0, IdleHoldsNothing DEF Locks
  <2> QED BY <2>1, <1>2, <1>3 DEF LocksFit, TrialPlaces
<1>6. StageIsReached(h)' /\ RunIsOurs(h)'
  BY <1>2, <1>3 DEF StageIsReached, RunIsOurs, TrialPlaces
<1> QED BY <1>0, <1>3, <1>4, <1>5, <1>6, HostTurns DEF EvidenceShape

\* ReserveTrials keeps the invariant.
LEMMA ReserveKeeps ==
  ASSUME EvidenceInvariant, NEW h \in Hosts, ReserveTrials(h), UNCHANGED regime
  PROVE  EvidenceInvariant'
<1> USE EvidenceAssumption
<1>0. host[h].at = "reserve" /\ host[h].at \in WorkPlaces /\ locks["paired"] = nobody
  BY DEF ReserveTrials, At, Free, WorkPlaces, CheckPlaces
<1>1. WorkerFinds(h) BY <1>0, AtWork
<1>c. PICK c \in Candidates : c = host[h].cand BY <1>1 DEF WorkerFinds
<1>2. CASE Refuse(h) BY <1>2, RefuseKeeps
<1>3. CASE ~Refuse(h)
  <2>1. /\ Admissible(h) /\ Take(h, "paired")
        /\ evidence' = [evidence EXCEPT ![c] = [evidence[c] EXCEPT !.reserved = TRUE]]
        /\ host' = [host EXCEPT ![h].at = "trial", ![h].trial = 0]
        /\ UNCHANGED <<pinned, search, sealed, asked, runs>>
    BY <1>3, <1>c DEF ReserveTrials, Ledger, Cand, Ev
  <2>2. PICK e : e = [evidence[c] EXCEPT !.reserved = TRUE] OBVIOUS
  <2>3. evidence' = [evidence EXCEPT ![c] = e] /\ evidence[c] \in Evidence
    BY <1>1, <2>1, <2>2 DEF WorkerFinds
  <2>4. /\ e \in Evidence /\ e.materialized = evidence[c].materialized
        /\ e.check = evidence[c].check
        /\ e.verdict = evidence[c].verdict /\ e.gate = evidence[c].gate
        /\ e.reserved /\ e.trial = evidence[c].trial
        /\ e.violation = evidence[c].violation /\ e.paired = evidence[c].paired
        /\ e.reconciled = evidence[c].reconciled
    BY <2>2, <2>3 DEF Evidence
  <2>5. "trial" \in Places /\ 0 \in 0..(2 * Pairs)
    BY DEF Places, WorkPlaces, TrialPlaces
  <2>6. host \in [Hosts -> HostStates] /\ host[h] \in HostStates
    BY <1>1 DEF WorkerFinds, EvidenceShape
  <2>7. [host[h] EXCEPT !.at = "trial", !.trial = 0] \in HostStates
    BY <2>5, <2>6 DEF HostStates
  <2>8. host' = [host EXCEPT ![h] = [host[h] EXCEPT !.at = "trial", !.trial = 0]]
    BY <2>1
  <2>9. /\ host' \in [Hosts -> HostStates] /\ \A g \in Hosts \ {h} : host'[g] = host[g]
        /\ host'[h].op = host[h].op /\ host'[h].at = "trial" /\ host'[h].run = host[h].run
        /\ host'[h].cand = host[h].cand /\ host'[h].then = host[h].then /\ host'[h].trial = 0
    BY <2>6, <2>7, <2>8, <2>1 DEF HostStates
  <2>10. locks' = [locks EXCEPT !["paired"] = h] BY <2>1 DEF Take
  <2>11. /\ locks' \in [Locks -> Hosts \cup {nobody}]
         /\ \A l \in Locks : locks'[l] # locks[l] => {locks[l], locks'[l]} \subseteq {nobody, h}
    BY <1>0, <1>1, <2>10 DEF WorkerFinds, Locks
  <2>12. LocksFit(h)'
    BY <1>0, <1>1, <2>9, <2>10 DEF WorkerFinds, LocksFit, Locks, TrialPlaces
  <2>13. HostFits(h)' /\ RunIsOurs(h)'
    BY <1>0, <2>1, <2>9, WorkerGoesOn DEF WorkPlaces, TrialPlaces
  <2>14. evidence'[c] = e BY <1>1, <2>3 DEF WorkerFinds
  <2>15. StageIsReached(h)'
    <3>1. evidence[c].materialized
      BY <1>0, <1>1, <1>c DEF WorkerFinds, StageIsReached, Ev
    <3>2. \A i \in Trials : ~(i < 0) BY DEF Trials
    <3> QED BY <1>c, <2>4, <2>9, <2>14, <3>1, <3>2 DEF StageIsReached, TrialPlaces, Ev
  <2>16. GatesHold(c)'
    <3>1. GatesHold(c) /\ evidence[c].gate = "pass"
      BY <1>1, <1>c, <2>1 DEF WorkerFinds, Admissible, Ev
    <3>2. Promotion(e) = Promotion(evidence[c]) BY <2>4, PromotionIsOfTrials
    <3> QED BY <3>1, <3>2, <2>1, <2>4, <2>14 DEF GatesHold
  <2>17. ReconciledOnce(c)'
    BY <1>1, <2>3, <2>4, <2>1, <1>c, <2>14, SameReconciled DEF WorkerFinds
  <2>18. /\ search' \in [Runs -> SearchStates] /\ search' = search /\ \A r \in Runs : MayBlock(r)
         /\ runs' \in RunCounts
    BY <1>1, <2>1 DEF WorkerFinds
  <2>19. UNCHANGED <<sealed, asked, regime, pinned, runs>> BY <2>1
  <2> QED
    BY <2>3, <2>4, <2>9, <2>11, <2>12, <2>13, <2>15, <2>16, <2>17, <2>18, <2>19, WorkStep
<1> QED BY <1>2, <1>3

\* What a host at a trial of its candidate may rely on.
LEMMA AtTrial ==
  ASSUME EvidenceInvariant, NEW h \in Hosts, host[h].at \in TrialPlaces
  PROVE  /\ WorkerFinds(h) /\ host[h].at \in WorkPlaces /\ host[h].trial \in Nat
         /\ Ev(h).reserved /\ Ev(h).materialized /\ locks["paired"] = h
         /\ Ev(h).trial \in [Trials -> {nobody, begun} \cup Results]
<1> host[h].at \in WorkPlaces BY DEF WorkPlaces
<1>1. WorkerFinds(h) BY AtWork
<1>2. Ev(h).trial \in [Trials -> {nobody, begun} \cup Results]
  BY <1>1 DEF WorkerFinds, Evidence
<1>3. host[h].trial \in Nat
  BY <1>1, EvidenceAssumption DEF WorkerFinds, HostStates
<1> QED BY <1>1, <1>2, <1>3 DEF WorkerFinds, StageIsReached, LocksFit

\* StartTrial keeps the invariant.
LEMMA StartTrialKeeps ==
  ASSUME EvidenceInvariant, NEW h \in Hosts, StartTrial(h), UNCHANGED regime
  PROVE  EvidenceInvariant'
<1> USE EvidenceAssumption
<1>0. /\ host[h].at = "trial" /\ host[h].at \in TrialPlaces /\ host[h].at \in WorkPlaces
  BY DEF StartTrial, At, WorkPlaces, TrialPlaces
<1>1. WorkerFinds(h) /\ Ev(h).reserved /\ Ev(h).materialized
      /\ Ev(h).trial \in [Trials -> {nobody, begun} \cup Results]
  BY <1>0, AtTrial
<1>c. PICK c \in Candidates : c = host[h].cand BY <1>1 DEF WorkerFinds
<1>i. PICK i \in Trials : i = host[h].trial BY DEF StartTrial, Index
<1>2. CASE Refuse(h) BY <1>2, RefuseKeeps
<1>3. CASE ~Refuse(h)
  <2>1. PICK pc \in {"trying", "measure"} :
           /\ Go(h, pc)
           /\ \/ /\ pc = "trying" /\ evidence[c].trial[i] = nobody
                 /\ evidence' = [evidence EXCEPT ![c] = [evidence[c] EXCEPT !.trial[i] = begun]]
              \/ /\ pc = "measure" /\ evidence[c].trial[i] \in Results /\ evidence' = evidence
           /\ UNCHANGED <<locks, pinned, search, sealed, asked, runs>>
    BY <1>3, <1>c, <1>i DEF StartTrial, Ledger, Cand, Ev, MayTry, Kept, Index
  <2>2. PICK e : e = IF pc = "measure" THEN evidence[c] ELSE [evidence[c] EXCEPT !.trial[i] = begun]
    OBVIOUS
  <2>3. evidence' = [evidence EXCEPT ![c] = e] /\ evidence[c] \in Evidence
    BY <1>1, <2>1, <2>2 DEF WorkerFinds
  <2>4. /\ e \in Evidence /\ e.materialized = evidence[c].materialized
        /\ e.check = evidence[c].check
        /\ e.verdict = evidence[c].verdict /\ e.gate = evidence[c].gate
        /\ e.reserved = evidence[c].reserved
        /\ \A j \in Trials \ {i} : e.trial[j] = evidence[c].trial[j]
        /\ pc = "measure" => e.trial = evidence[c].trial
        /\ pc = "trying" => e.trial[i] = begun
        /\ e.violation = evidence[c].violation /\ e.paired = evidence[c].paired
        /\ e.reconciled = evidence[c].reconciled
    <3>1. CASE pc = "measure" BY <2>2, <2>3, <3>1
    <3>2. CASE pc # "measure"
      <4>1. PICK t : t = [evidence[c].trial EXCEPT ![i] = begun] OBVIOUS
      <4>2. e = [evidence[c] EXCEPT !.trial = t] BY <2>2, <3>2, <4>1
      <4>3. evidence[c].trial \in [Trials -> {nobody, begun} \cup Results]
        BY <2>3 DEF Evidence
      <4>4. /\ t \in [Trials -> {nobody, begun} \cup Results] /\ t[i] = begun
            /\ \A j \in Trials \ {i} : t[j] = evidence[c].trial[j]
        BY <4>1, <4>3
      <4> QED BY <2>3, <3>2, <4>2, <4>4 DEF Evidence
    <3> QED BY <3>1, <3>2
  <2>5. pc \in Places BY DEF Places, WorkPlaces, TrialPlaces
  <2>6. /\ host' \in [Hosts -> HostStates] /\ \A g \in Hosts \ {h} : host'[g] = host[g]
        /\ host'[h].op = host[h].op /\ host'[h].at = pc /\ host'[h].run = host[h].run
        /\ host'[h].cand = host[h].cand /\ host'[h].then = host[h].then
        /\ host'[h].trial = host[h].trial
    BY <1>1, <2>1, <2>5, GoMoves DEF WorkerFinds
  <2>7. LocksFit(h)'
    BY <1>0, <1>1, <2>1, <2>6 DEF WorkerFinds, LocksFit, TrialPlaces
  <2>8. HostFits(h)' /\ RunIsOurs(h)'
    BY <1>0, <1>i, <2>1, <2>6, WorkerGoesOn DEF WorkPlaces, TrialPlaces
  <2>9. evidence'[c] = e BY <1>1, <2>3 DEF WorkerFinds
  <2>10. StageIsReached(h)'
    <3>1. \/ \A j \in Trials : j < i => Within(evidence[c].trial[j])
          \/ \E j \in Trials : Spoilt(evidence[c].trial[j])
      BY <1>0, <1>1, <1>c, <1>i DEF WorkerFinds, StageIsReached, Ev
    <3>2. ~(i < i) BY DEF Trials
    <3>3. nobody \notin Results /\ begun \notin Results OBVIOUS
    <3>4. \A j \in Trials : Spoilt(evidence[c].trial[j]) => e.trial[j] = evidence[c].trial[j]
      BY <2>1, <2>4, <3>3 DEF Spoilt
    <3>5. \/ \A j \in Trials : j < i => Within(e.trial[j])
          \/ \E j \in Trials : Spoilt(e.trial[j])
      BY <2>4, <3>2, <3>1, <3>4
    <3>6. /\ pc = "trying" => e.trial[i] = begun
          /\ pc = "measure" => e.trial[i] \in Results
          /\ e.reserved /\ e.materialized
      BY <1>1, <1>c, <2>1, <2>4 DEF Ev
    <3> QED BY <1>c, <1>i, <2>6, <2>9, <3>5, <3>6 DEF StageIsReached, TrialPlaces, Ev
  <2>11. nobody \notin Results OBVIOUS
  <2>12. GatesHold(c)'
    <3>1. GatesHold(c) /\ evidence[c].reserved BY <1>1, <1>c DEF WorkerFinds, Ev
    <3>2. CASE e.trial = evidence[c].trial
      BY <3>1, <3>2, <2>1, <2>4, <2>9, OtherFields DEF GatesHold
    <3>3. CASE e.trial # evidence[c].trial
      <4>1. pc = "trying" /\ evidence[c].trial[i] = nobody BY <2>1, <2>4, <3>3
      <4>2. evidence[c].paired # "pass" /\ i \notin evidence[c].violation
        BY <3>1, <4>1, <2>11 DEF GatesHold, Within
      <4>3. evidence[c].violation \subseteq Trials BY <2>3 DEF Evidence
      <4>4. /\ e.materialized => c \in pinned'
            /\ e.gate # "none" => e.materialized /\ e.check = "completed" /\ e.gate = e.verdict
            /\ e.reserved /\ e.gate = "pass"
            /\ c \in asked' => \E r \in Runs : sealed'[r] = [status |-> "passed", cand |-> c]
        BY <3>1, <2>1, <2>4 DEF GatesHold
      <4>5. \A j \in e.violation : e.trial[j] \in Results /\ ~Within(e.trial[j])
        BY <3>1, <2>4, <4>2, <4>3 DEF GatesHold
      <4> QED BY <4>2, <4>4, <4>5, <2>4, <2>9 DEF GatesHold
    <3> QED BY <3>2, <3>3
  <2>13. ReconciledOnce(c)'
    <3>1. \A d \in Candidates : evidence'[d].reconciled = evidence[d].reconciled
      BY <1>1, <2>3, <2>4 DEF WorkerFinds
    <3>2. ReconciledOnce(c) BY <1>1, <1>c DEF WorkerFinds
    <3>3. \A j \in Trials : (e.trial[j] \notin Results => evidence[c].trial[j] \notin Results)
                            /\ (evidence[c].trial[j] # nobody => e.trial[j] # nobody)
      BY <2>1, <2>4, <2>11
    <3> QED BY <3>1, <3>2, <3>3, <2>1, <2>4, <2>9 DEF ReconciledOnce
  <2>14. host[h].at \in TrialPlaces BY <1>0
  <2> QED
    BY <1>0, <1>1, <2>1, <2>3, <2>4, <2>6, <2>7, <2>8, <2>10, <2>12, <2>13, <2>14, WorkStep
    DEF WorkerFinds
<1> QED BY <1>2, <1>3

\* RunTrial keeps the invariant.
LEMMA RunTrialKeeps ==
  ASSUME EvidenceInvariant, NEW h \in Hosts, RunTrial(h), UNCHANGED regime
  PROVE  EvidenceInvariant'
<1> USE EvidenceAssumption
<1>0. /\ host[h].at = "tried" /\ host[h].at \in TrialPlaces /\ host[h].at \in WorkPlaces
      /\ UNCHANGED <<locks, pinned, search, sealed, asked, runs>>
  BY DEF RunTrial, At, WorkPlaces, TrialPlaces
<1>1. WorkerFinds(h) /\ Ev(h).reserved /\ Ev(h).materialized
      /\ Ev(h).trial \in [Trials -> {nobody, begun} \cup Results]
  BY <1>0, AtTrial
<1>c. PICK c \in Candidates : c = host[h].cand BY <1>1 DEF WorkerFinds
<1>i. PICK i \in Trials : i = host[h].trial
  BY <1>0, <1>1 DEF WorkerFinds, HostFits
<1>x. PICK x \in Results : evidence' = [evidence EXCEPT ![c] = [evidence[c] EXCEPT !.trial[i] = x]]
  BY <1>c, <1>i DEF RunTrial, Ledger, Cand, Ev, Index
<1>n. x # nobody /\ x # begun /\ begun \notin Results OBVIOUS
<1>2. PICK e : e = [evidence[c] EXCEPT !.trial[i] = x] OBVIOUS
<1>3. /\ evidence' = [evidence EXCEPT ![c] = e] /\ evidence[c] \in Evidence /\ runs' \in RunCounts
      /\ evidence[c].trial[i] = begun /\ GatesHold(c) /\ ReconciledOnce(c)
  BY <1>0, <1>1, <1>2, <1>c, <1>i, <1>x DEF WorkerFinds, StageIsReached, Ev
<1>4. /\ e \in Evidence /\ e.materialized = evidence[c].materialized
      /\ e.check = evidence[c].check
      /\ e.verdict = evidence[c].verdict /\ e.gate = evidence[c].gate
      /\ e.reserved = evidence[c].reserved
      /\ \A j \in Trials \ {i} : e.trial[j] = evidence[c].trial[j]
      /\ e.trial[i] = x
      /\ e.violation = evidence[c].violation /\ e.paired = evidence[c].paired
      /\ e.reconciled = evidence[c].reconciled
  <2>1. PICK t : t = [evidence[c].trial EXCEPT ![i] = x] OBVIOUS
  <2>2. e = [evidence[c] EXCEPT !.trial = t] BY <1>2, <2>1
  <2>3. evidence[c].trial \in [Trials -> {nobody, begun} \cup Results]
    BY <1>3 DEF Evidence
  <2>4. /\ t \in [Trials -> {nobody, begun} \cup Results] /\ t[i] = x
        /\ \A j \in Trials \ {i} : t[j] = evidence[c].trial[j]
    BY <2>1, <2>3
  <2> QED BY <1>3, <2>2, <2>4 DEF Evidence
<1>5. "measure" \in Places /\ Go(h, "measure")
  BY DEF Places, WorkPlaces, TrialPlaces, RunTrial
<1>6. /\ host' \in [Hosts -> HostStates] /\ \A g \in Hosts \ {h} : host'[g] = host[g]
      /\ host'[h].op = host[h].op /\ host'[h].at = "measure" /\ host'[h].run = host[h].run
      /\ host'[h].cand = host[h].cand /\ host'[h].then = host[h].then
      /\ host'[h].trial = host[h].trial
  BY <1>1, <1>5, GoMoves DEF WorkerFinds
<1>7. LocksFit(h)' BY <1>0, <1>1, <1>6 DEF WorkerFinds, LocksFit, TrialPlaces
<1>8. HostFits(h)' /\ RunIsOurs(h)'
  BY <1>0, <1>i, <1>6, WorkerGoesOn DEF WorkPlaces, TrialPlaces
<1>9. evidence'[c] = e BY <1>1, <1>3 DEF WorkerFinds
<1>10. StageIsReached(h)'
  <2>1. \/ \A j \in Trials : j < i => Within(evidence[c].trial[j])
        \/ \E j \in Trials : Spoilt(evidence[c].trial[j])
    BY <1>0, <1>1, <1>c, <1>i DEF WorkerFinds, StageIsReached, Ev
  <2>2. ~(i < i) BY DEF Trials
  <2>3. \A j \in Trials : Spoilt(evidence[c].trial[j]) => j # i
    BY <1>3, <1>n DEF Spoilt
  <2>4. \/ \A j \in Trials : j < i => Within(e.trial[j])
        \/ \E j \in Trials : Spoilt(e.trial[j])
    BY <1>4, <2>2, <2>3, <2>1
  <2>5. e.trial[i] \in Results /\ e.reserved /\ e.materialized
    BY <1>1, <1>c, <1>4 DEF Ev
  <2> QED BY <1>c, <1>i, <1>6, <1>9, <2>4, <2>5 DEF StageIsReached, TrialPlaces, Ev
<1>11. GatesHold(c)'
  <2>1. evidence[c].paired # "pass" /\ i \notin evidence[c].violation
    BY <1>3, <1>n DEF GatesHold, Within
  <2>2. evidence[c].violation \subseteq Trials BY <1>3 DEF Evidence
  <2>3. /\ e.materialized => c \in pinned'
        /\ e.gate # "none" => e.materialized /\ e.check = "completed" /\ e.gate = e.verdict
        /\ e.reserved => e.gate = "pass"
        /\ c \in asked' => \E r \in Runs : sealed'[r] = [status |-> "passed", cand |-> c]
    BY <1>0, <1>3, <1>4 DEF GatesHold
  <2>4. \A j \in e.violation : e.trial[j] \in Results /\ ~Within(e.trial[j])
    BY <1>3, <1>4, <2>1, <2>2 DEF GatesHold
  <2>5. e.reserved BY <1>1, <1>c, <1>4 DEF Ev
  <2> QED BY <2>1, <2>3, <2>4, <2>5, <1>4, <1>9 DEF GatesHold
<1>13. ReconciledOnce(c)'
  <2>1. \A d \in Candidates : evidence'[d].reconciled = evidence[d].reconciled
    BY <1>1, <1>3, <1>4 DEF WorkerFinds
  <2> QED BY ONLY <2>1, <1>3, <1>4, <1>n, <1>9 DEF ReconciledOnce
<1>14. /\ search' \in [Runs -> SearchStates] /\ search' = search /\ \A r \in Runs : MayBlock(r)
       /\ locks' \in [Locks -> Hosts \cup {nobody}] /\ locks' = locks
  BY <1>0, <1>1 DEF WorkerFinds
<1> QED
  BY ZenonT(60), <1>0, <1>3, <1>4, <1>6, <1>7, <1>8, <1>10, <1>11, <1>13, <1>14, WorkStep

\* MeasureTrial keeps the invariant.
LEMMA MeasureTrialKeeps ==
  ASSUME EvidenceInvariant, NEW h \in Hosts, MeasureTrial(h), UNCHANGED regime
  PROVE  EvidenceInvariant'
<1> USE EvidenceAssumption
<1>0. /\ host[h].at = "measure" /\ host[h].at \in TrialPlaces /\ host[h].at \in WorkPlaces
      /\ UNCHANGED <<pinned, sealed, asked, runs>>
  BY DEF MeasureTrial, At, WorkPlaces, TrialPlaces
<1>1. WorkerFinds(h) /\ Ev(h).reserved /\ Ev(h).materialized
      /\ Ev(h).trial \in [Trials -> {nobody, begun} \cup Results]
  BY <1>0, AtTrial
<1>c. PICK c \in Candidates : c = host[h].cand BY <1>1 DEF WorkerFinds
<1>i. PICK i \in Trials : i = host[h].trial
  BY <1>0, <1>1 DEF WorkerFinds, HostFits
<1>x. PICK x \in Results : x = evidence[c].trial[i]
  BY <1>0, <1>1, <1>c, <1>i DEF WorkerFinds, StageIsReached, Ev
<1>n. x.cost # nobody => x.cost \in Nat OBVIOUS
<1>2. CASE x.cost # nobody /\ x.cost > Limit
  <2>1. PICK e : e = [evidence[c] EXCEPT !.violation = evidence[c].violation \cup {i}]
    OBVIOUS
  <2>2. /\ evidence' = [evidence EXCEPT ![c] = e] /\ evidence[c] \in Evidence
        /\ LeaveAll(h) /\ Blocked(h)
    BY <1>1, <1>2, <1>c, <1>i, <1>x, <2>1
    DEF MeasureTrial, Ledger, Cand, Ev, Index, WorkerFinds
  <2>3. /\ e \in Evidence /\ e.materialized = evidence[c].materialized
        /\ e.check = evidence[c].check /\ e.verdict = evidence[c].verdict
        /\ e.gate = evidence[c].gate
        /\ e.reserved = evidence[c].reserved /\ e.trial = evidence[c].trial
        /\ e.violation = evidence[c].violation \cup {i} /\ e.paired = evidence[c].paired
        /\ e.reconciled = evidence[c].reconciled
    BY <2>1, <2>2 DEF Evidence
  <2>4. evidence'[c] = e BY <1>1, <2>2 DEF WorkerFinds
  <2>5. GatesHold(c)'
    <3>1. GatesHold(c) /\ evidence[c].reserved BY <1>1, <1>c DEF WorkerFinds, Ev
    <3>2. ~Within(x) BY <1>2, <1>n DEF Within
    <3>3. evidence[c].paired # "pass" BY <3>1, <3>2, <1>x DEF GatesHold
    <3>4. \A k \in e.violation : e.trial[k] \in Results /\ ~Within(e.trial[k])
      BY <3>1, <3>2, <2>3, <1>x DEF GatesHold
    <3>5. /\ e.materialized => c \in pinned'
          /\ e.gate # "none" => e.materialized /\ e.check = "completed" /\ e.gate = e.verdict
          /\ e.reserved => e.gate = "pass"
          /\ c \in asked' => \E r \in Runs : sealed'[r] = [status |-> "passed", cand |-> c]
      BY <3>1, <2>3, <1>0 DEF GatesHold
    <3> QED BY <3>1, <3>3, <3>4, <3>5, <2>3, <2>4 DEF GatesHold
  <2>6. ReconciledOnce(c)'
    BY <1>1, <2>2, <2>3, <1>0, <1>c, <2>4, SameReconciled DEF WorkerFinds
  <2>7. /\ host' \in [Hosts -> HostStates] /\ \A g \in Hosts \ {h} : host'[g] = host[g]
        /\ locks' \in [Locks -> Hosts \cup {nobody}]
        /\ \A l \in Locks : locks'[l] # locks[l] => {locks[l], locks'[l]} \subseteq {nobody, h}
        /\ search' \in [Runs -> SearchStates] /\ (search' # search => host[h].op = "search")
        /\ \A r \in Runs : MayBlock(r)
        /\ (HostFits(h) /\ LocksFit(h) /\ StageIsReached(h) /\ RunIsOurs(h))'
    BY <2>2, LeavingHost
  <2> QED BY <1>0, <1>1, <2>2, <2>3, <2>5, <2>6, <2>7, WorkStep DEF WorkerFinds
<1>3. CASE ~(x.cost # nobody /\ x.cost > Limit)
  <2>1. PICK j : j = IF x.status # "completed" \/ x.cost = nobody THEN 2 * Pairs ELSE i + 1
    OBVIOUS
  <2>2. /\ host' = [host EXCEPT ![h].at = "trial", ![h].trial = j]
        /\ UNCHANGED <<locks, evidence, search>>
    BY <1>3, <1>c, <1>i, <1>x, <2>1 DEF MeasureTrial, Ev, Index
  <2>3. i \in Nat /\ j \in 0..(2 * Pairs) BY <2>1 DEF Trials
  <2>4. "trial" \in Places /\ host[h] \in HostStates
    BY <1>1 DEF Places, WorkPlaces, TrialPlaces, WorkerFinds
  <2>5. [host[h] EXCEPT !.at = "trial", !.trial = j] \in HostStates
    BY <2>3, <2>4 DEF HostStates
  <2>6. host' = [host EXCEPT ![h] = [host[h] EXCEPT !.at = "trial", !.trial = j]]
    BY <2>2
  <2>7. /\ host' \in [Hosts -> HostStates] /\ \A g \in Hosts \ {h} : host'[g] = host[g]
        /\ host'[h].op = host[h].op /\ host'[h].at = "trial" /\ host'[h].run = host[h].run
        /\ host'[h].cand = host[h].cand /\ host'[h].then = host[h].then /\ host'[h].trial = j
    BY <1>1, <2>5, <2>6, <2>4 DEF WorkerFinds, EvidenceShape, HostStates
  <2>8. LocksFit(h)'
    BY <1>0, <1>1, <2>2, <2>7 DEF WorkerFinds, LocksFit, TrialPlaces
  <2>9. HostFits(h)' /\ RunIsOurs(h)'
    BY <1>0, <2>2, <2>7, WorkerGoesOn DEF WorkPlaces, TrialPlaces
  <2>10. StageIsReached(h)'
    <3>1. \/ \A k \in Trials : k < i => Within(evidence[c].trial[k])
          \/ \E k \in Trials : Spoilt(evidence[c].trial[k])
      BY <1>0, <1>1, <1>c, <1>i DEF WorkerFinds, StageIsReached, Ev
    <3>2. CASE x.status # "completed" \/ x.cost = nobody
      <4>1. Spoilt(evidence[c].trial[i]) BY <1>x, <3>2 DEF Spoilt
      <4> QED BY <1>1, <1>c, <4>1, <2>2, <2>7 DEF StageIsReached, TrialPlaces, Ev
    <3>3. CASE ~(x.status # "completed" \/ x.cost = nobody)
      <4>1. Within(evidence[c].trial[i]) BY <1>x, <1>n, <1>3 DEF Within
      <4>2. j = i + 1 /\ \A k \in Trials : k < j => k < i \/ k = i
        BY <2>1, <2>3, <3>3 DEF Trials
      <4>3. \/ \A k \in Trials : k < j => Within(evidence[c].trial[k])
            \/ \E k \in Trials : Spoilt(evidence[c].trial[k])
        BY <4>1, <4>2, <3>1
      <4> QED BY <1>1, <1>c, <4>3, <2>2, <2>7 DEF StageIsReached, TrialPlaces, Ev
    <3> QED BY <3>2, <3>3
  <2> QED BY <1>0, <1>1, <2>2, <2>7, <2>8, <2>9, <2>10, HostTurns DEF WorkerFinds
<1> QED BY <1>2, <1>3

\* RecordPromotion keeps the invariant.
LEMMA PromotionKeeps ==
  ASSUME EvidenceInvariant, NEW h \in Hosts, RecordPromotion(h), UNCHANGED regime
  PROVE  EvidenceInvariant'
<1> USE EvidenceAssumption
<1>0. /\ host[h].at = "trial" /\ host[h].at \in TrialPlaces /\ host[h].at \in WorkPlaces
      /\ UNCHANGED <<pinned, search, sealed, asked, runs>> /\ host[h].trial \notin Trials
  BY DEF RecordPromotion, At, WorkPlaces, TrialPlaces, Index
<1>1. WorkerFinds(h) /\ Ev(h).reserved /\ Ev(h).materialized
      /\ Ev(h).trial \in [Trials -> {nobody, begun} \cup Results] /\ locks["paired"] = h
  BY <1>0, AtTrial
<1>c. PICK c \in Candidates : c = host[h].cand BY <1>1 DEF WorkerFinds
<1>2. PICK e : e = [evidence[c] EXCEPT !.paired = Promotion(evidence[c])]
  OBVIOUS
<1>3. evidence' = [evidence EXCEPT ![c] = e] /\ evidence[c] \in Evidence
  BY <1>1, <1>2, <1>c DEF RecordPromotion, Ledger, Cand, Ev, WorkerFinds
<1>4. /\ e \in Evidence /\ e.materialized = evidence[c].materialized
      /\ e.check = evidence[c].check /\ e.verdict = evidence[c].verdict
      /\ e.gate = evidence[c].gate
      /\ e.reserved = evidence[c].reserved /\ e.trial = evidence[c].trial
      /\ e.violation = evidence[c].violation /\ e.paired = Promotion(evidence[c])
      /\ e.reconciled = evidence[c].reconciled
  BY <1>2, <1>3 DEF Promotion, Gates, Evidence
<1>5. locks' = [locks EXCEPT !["paired"] = nobody] /\ Back(h, "compared")
  BY DEF RecordPromotion, Drop
<1>7. /\ host' \in [Hosts -> HostStates] /\ \A g \in Hosts \ {h} : host'[g] = host[g]
      /\ locks' \in [Locks -> Hosts \cup {nobody}]
      /\ \A k \in Locks : locks'[k] # locks[k] => {locks[k], locks'[k]} \subseteq {nobody, h}
      /\ (HostFits(h) /\ LocksFit(h) /\ StageIsReached(h) /\ RunIsOurs(h))'
  BY <1>0, <1>1, <1>5, WorkerReturns DEF Locks
<1>8. evidence'[c] = e BY <1>1, <1>3 DEF WorkerFinds
<1>9. GatesHold(c)' /\ (evidence[c].paired = "pass" => e.paired = "pass")
  <2>1. GatesHold(c) /\ evidence[c].reserved BY <1>1, <1>c DEF WorkerFinds, Ev
  <2>2. Promotion(e) = Promotion(evidence[c]) BY <1>4, PromotionIsOfTrials
  <2>3. ASSUME Promotion(evidence[c]) = "pass" PROVE \A i \in Trials : Within(evidence[c].trial[i])
    <3>1. Valid(evidence[c]) BY <2>3 DEF Promotion
    <3>2. \A i \in Trials : ~Spoilt(evidence[c].trial[i])
      BY <3>1 DEF Valid, Spoilt
    <3>3. \A i \in Trials : i < host[h].trial => Within(evidence[c].trial[i])
      BY <1>0, <1>1, <1>c, <3>2 DEF WorkerFinds, StageIsReached, Ev
    <3>4. \A i \in Trials : i < host[h].trial
      BY <1>0, <1>1 DEF WorkerFinds, HostStates, Trials
    <3> QED BY <3>3, <3>4
  <2>4. evidence[c].paired = "pass" => e.paired = "pass"
    BY <1>4, <2>1 DEF GatesHold
  <2> QED BY <2>1, <2>2, <2>3, <2>4, <1>0, <1>4, <1>8 DEF GatesHold
<1>10. ReconciledOnce(c)'
  BY <1>1, <1>3, <1>4, <1>0, <1>c, <1>8, SameReconciled DEF WorkerFinds
<1> QED
  BY ZenonT(60), <1>0, <1>1, <1>3, <1>4, <1>7, <1>9, <1>10, WorkStep DEF WorkerFinds
-----------------------------------------------------------------------------
(* What trials cost, as totals.                                            *)
CostOf(t) == MapThenSumSet(LAMBDA i : Cost(t[i]), Trials)

\* What the ledger holds for the candidates in R.
HeldBy(ev, R) == MapThenSumSet(LAMBDA c : PlanCost - ev[c].released, R)

\* A comparison has two trials of each pair.
LEMMA FiniteTrials == IsFiniteSet(Trials) /\ Cardinality(Trials) = 2 * Pairs /\ Trials \subseteq Nat
<1>1. Pairs \in Nat /\ 0 \in Int /\ 2 * Pairs - 1 \in Int BY EvidenceAssumption
<1>2. /\ IsFiniteSet(0..(2 * Pairs - 1))
      /\ Cardinality(0..(2 * Pairs - 1)) = IF 0 > 2 * Pairs - 1 THEN 0 ELSE 2 * Pairs - 1 - 0 + 1
  BY <1>1, FS_Interval, Zenon
<1>3. Pairs # 0 BY EvidenceAssumption
<1>4. 2 * Pairs - 1 - 0 + 1 = 2 * Pairs /\ ~(0 > 2 * Pairs - 1) BY <1>1, <1>3
<1> QED BY <1>1, <1>2, <1>4 DEF Trials

\* What a candidate's trials cost is a total.
LEMMA CostIsTotal ==
  ASSUME NEW t, NEW w, NEW F, IsTotal(F, w, Trials),
         \A i \in Trials : w[i] = Cost(t[i]) /\ w[i] \in Nat
  PROVE  CostOf(t) = F[Trials]
<1> DEFINE G(f) == [s \in SUBSET Trials |->
                      IF s = {} THEN 0
                      ELSE Cost(t[CHOOSE x \in s : TRUE]) + f[s \ {CHOOSE x \in s : TRUE}]]
<1> DEFINE iter == CHOOSE f : f = G(f)
<1> DEFINE E == [s \in SUBSET Trials |-> F[s]]
<1>1. ASSUME NEW s \in SUBSET Trials, s # {}
      PROVE  /\ (CHOOSE x \in s : TRUE) \in Trials /\ (CHOOSE x \in s : TRUE) \in s
             /\ w[CHOOSE x \in s : TRUE] = Cost(t[CHOOSE x \in s : TRUE])
  BY <1>1
<1>2. E = G(E)
  <2>1. F[{}] = 0 BY DEF IsTotal
  <2>2. ASSUME NEW s \in SUBSET Trials, s # {}
        PROVE  F[s] = Cost(t[CHOOSE x \in s : TRUE]) + F[s \ {CHOOSE x \in s : TRUE}]
    <3>1. PICK y \in s : y = (CHOOSE x \in s : TRUE) /\ w[y] = Cost(t[CHOOSE x \in s : TRUE])
      BY <1>1, <2>2
    <3>2. F[s] = w[y] + F[s \ {y}] BY TotalUnfolds
    <3> QED BY <3>1, <3>2
  <2> QED BY <2>1, <2>2
<1>3. iter = G(iter)
  <2> HIDE DEF G, E
  <2> QED BY <1>2
<1>4. CostOf(t) = iter[Trials] BY DEF CostOf, MapThenSumSet, MapThenFoldSet
<1> HIDE DEF iter
<1>5. IsFold(iter, w, Trials) BY <1>1, <1>3 DEF IsFold
<1> HIDE DEF G, E
<1>6. iter[Trials] = F[Trials]
  <2>1. /\ Trials \in SUBSET Trials /\ IsFiniteSet(Trials)
        /\ \A i \in Trials : w[i] \in Nat
    BY FiniteTrials
  <2> QED BY <1>5, <2>1, FoldIsTotal
<1> QED BY <1>4, <1>6

\* What is held for a set of candidates is a total.
LEMMA HeldIsTotal ==
  ASSUME NEW ev, NEW R \in SUBSET Candidates, NEW w, NEW F, IsTotal(F, w, Candidates),
         \A c \in Candidates : w[c] \in Nat, \A c \in R : w[c] = PlanCost - ev[c].released
  PROVE  HeldBy(ev, R) = F[R]
<1> DEFINE G(f) == [s \in SUBSET R |->
                      IF s = {} THEN 0
                      ELSE PlanCost - ev[CHOOSE x \in s : TRUE].released + f[s \ {CHOOSE x \in s : TRUE}]]
<1> DEFINE iter == CHOOSE f : f = G(f)
<1> DEFINE E == [s \in SUBSET R |-> F[s]]
<1>1. ASSUME NEW s \in SUBSET R, s # {}
      PROVE  /\ (CHOOSE x \in s : TRUE) \in R /\ (CHOOSE x \in s : TRUE) \in s
             /\ w[CHOOSE x \in s : TRUE] = PlanCost - ev[CHOOSE x \in s : TRUE].released
  BY <1>1
<1>2. E = G(E)
  <2>1. F[{}] = 0 BY DEF IsTotal
  <2>2. ASSUME NEW s \in SUBSET R, s # {}
        PROVE  F[s] = PlanCost - ev[CHOOSE x \in s : TRUE].released + F[s \ {CHOOSE x \in s : TRUE}]
    <3>1. PICK y \in s : y = (CHOOSE x \in s : TRUE) /\ w[y] = PlanCost - ev[CHOOSE x \in s : TRUE].released
      BY <1>1, <2>2
    <3>2. F[s] = w[y] + F[s \ {y}] BY TotalUnfolds
    <3> QED BY <3>1, <3>2
  <2> QED BY <2>1, <2>2
<1>3. iter = G(iter)
  <2> HIDE DEF G, E
  <2> QED BY <1>2
<1>4. HeldBy(ev, R) = iter[R] BY DEF HeldBy, MapThenSumSet, MapThenFoldSet
<1> HIDE DEF iter
<1>5. IsFold(iter, w, R) BY <1>1, <1>3 DEF IsFold
<1> HIDE DEF G, E
<1>6. iter[R] = F[R] BY <1>5, EvidenceAssumption, FoldIsTotal
<1> QED BY <1>4, <1>6

\* What a price is over the limit.
OverLimit(x) == IF x > Limit THEN x - Limit ELSE 0

\* What a candidate's trials cost beyond the limit is a total.
LEMMA ExcessIsTotal ==
  ASSUME NEW c, NEW w, NEW F, IsTotal(F, w, Trials), \A i \in Trials : w[i] \in Nat,
         \A i \in Trials : w[i] = OverLimit(runs.paid[c][i])
  PROVE  Excess(c) = F[Trials]
<1> DEFINE G(f) == [s \in SUBSET Trials |->
                      IF s = {} THEN 0
                      ELSE OverLimit(runs.paid[c][CHOOSE x \in s : TRUE])
                           + f[s \ {CHOOSE x \in s : TRUE}]]
<1> DEFINE iter == CHOOSE f : f = G(f)
<1>1. ASSUME NEW s \in SUBSET Trials, s # {}
      PROVE  /\ (CHOOSE x \in s : TRUE) \in Trials /\ (CHOOSE x \in s : TRUE) \in s
             /\ w[CHOOSE x \in s : TRUE] = OverLimit(runs.paid[c][CHOOSE x \in s : TRUE])
  BY <1>1
<1>2. F = G(F)
  <2>1. F \in [SUBSET Trials -> Nat] /\ F[{}] = 0 BY DEF IsTotal
  <2>2. ASSUME NEW s \in SUBSET Trials, s # {}
        PROVE  F[s] = OverLimit(runs.paid[c][CHOOSE x \in s : TRUE]) + F[s \ {CHOOSE x \in s : TRUE}]
    <3>1. PICK y \in s : y = (CHOOSE x \in s : TRUE) /\ w[y] = OverLimit(runs.paid[c][CHOOSE x \in s : TRUE])
      BY <1>1, <2>2
    <3>2. F[s] = w[y] + F[s \ {y}] BY TotalUnfolds
    <3> QED BY <3>1, <3>2
  <2> QED BY <2>1, <2>2
<1>3. iter = G(iter)
  <2> HIDE DEF G
  <2> QED BY <1>2
<1>4. Excess(c) = iter[Trials]
  BY DEF Excess, OverLimit, MapThenSumSet, MapThenFoldSet
<1> HIDE DEF iter
<1>5. IsFold(iter, w, Trials) BY <1>1, <1>3 DEF IsFold
<1> HIDE DEF G
<1>6. iter[Trials] = F[Trials]
  <2>1. Trials \in SUBSET Trials /\ IsFiniteSet(Trials) /\ \A y \in Trials : w[y] \in Nat
    BY FiniteTrials
  <2> QED BY <1>5, <2>1, FoldIsTotal
<1> QED BY <1>4, <1>6

\* What was paid for a candidate's trials is a total.
LEMMA PaymentsAreTotal ==
  ASSUME NEW c, NEW w, NEW F, IsTotal(F, w, Trials), \A i \in Trials : w[i] \in Nat,
         \A i \in Trials : w[i] = runs.paid[c][i]
  PROVE  Paid(c) = F[Trials]
<1> DEFINE G(f) == [s \in SUBSET Trials |->
                      IF s = {} THEN 0
                      ELSE runs.paid[c][CHOOSE x \in s : TRUE]
                           + f[s \ {CHOOSE x \in s : TRUE}]]
<1> DEFINE iter == CHOOSE f : f = G(f)
<1>1. ASSUME NEW s \in SUBSET Trials, s # {}
      PROVE  /\ (CHOOSE x \in s : TRUE) \in Trials /\ (CHOOSE x \in s : TRUE) \in s
             /\ w[CHOOSE x \in s : TRUE] = runs.paid[c][CHOOSE x \in s : TRUE]
  BY <1>1
<1>2. F = G(F)
  <2>1. F \in [SUBSET Trials -> Nat] /\ F[{}] = 0 BY DEF IsTotal
  <2>2. ASSUME NEW s \in SUBSET Trials, s # {}
        PROVE  F[s] = runs.paid[c][CHOOSE x \in s : TRUE] + F[s \ {CHOOSE x \in s : TRUE}]
    <3>1. PICK y \in s : y = (CHOOSE x \in s : TRUE) /\ w[y] = runs.paid[c][CHOOSE x \in s : TRUE]
      BY <1>1, <2>2
    <3>2. F[s] = w[y] + F[s \ {y}] BY TotalUnfolds
    <3> QED BY <3>1, <3>2
  <2> QED BY <2>1, <2>2
<1>3. iter = G(iter)
  <2> HIDE DEF G
  <2> QED BY <1>2
<1>4. Paid(c) = iter[Trials] BY DEF Paid, MapThenSumSet, MapThenFoldSet
<1> HIDE DEF iter
<1>5. IsFold(iter, w, Trials) BY <1>1, <1>3 DEF IsFold
<1> HIDE DEF G
<1>6. iter[Trials] = F[Trials]
  <2>1. Trials \in SUBSET Trials /\ IsFiniteSet(Trials) /\ \A y \in Trials : w[y] \in Nat
    BY FiniteTrials
  <2> QED BY <1>5, <2>1, FoldIsTotal
<1> QED BY <1>4, <1>6

\* What was paid for all candidates is a total.
LEMMA PaidIsTotal ==
  ASSUME NEW w, NEW F, IsTotal(F, w, Candidates),
         \A c \in Candidates : w[c] = Paid(c) /\ w[c] \in Nat
  PROVE  MapThenSumSet(Paid, Candidates) = F[Candidates]
<1> DEFINE G(f) == [s \in SUBSET Candidates |->
                      IF s = {} THEN 0
                      ELSE Paid(CHOOSE x \in s : TRUE)
                           + f[s \ {CHOOSE x \in s : TRUE}]]
<1> DEFINE iter == CHOOSE f : f = G(f)
<1>1. ASSUME NEW s \in SUBSET Candidates, s # {}
      PROVE  /\ (CHOOSE x \in s : TRUE) \in Candidates /\ (CHOOSE x \in s : TRUE) \in s
             /\ w[CHOOSE x \in s : TRUE] = Paid(CHOOSE x \in s : TRUE)
  BY <1>1
<1>2. F = G(F)
  <2>1. F \in [SUBSET Candidates -> Nat] /\ F[{}] = 0 BY DEF IsTotal
  <2>2. ASSUME NEW s \in SUBSET Candidates, s # {}
        PROVE  F[s] = Paid(CHOOSE x \in s : TRUE) + F[s \ {CHOOSE x \in s : TRUE}]
    <3>1. PICK y \in s : y = (CHOOSE x \in s : TRUE) /\ w[y] = Paid(CHOOSE x \in s : TRUE)
      BY <1>1, <2>2
    <3>2. F[s] = w[y] + F[s \ {y}] BY TotalUnfolds
    <3> QED BY <3>1, <3>2
  <2> QED BY <2>1, <2>2
<1>3. iter = G(iter)
  <2> HIDE DEF G
  <2> QED BY <1>2
<1>4. MapThenSumSet(Paid, Candidates) = iter[Candidates]
  BY DEF MapThenSumSet, MapThenFoldSet
<1> HIDE DEF iter
<1>5. IsFold(iter, w, Candidates) BY <1>1, <1>3 DEF IsFold
<1> HIDE DEF G
<1>6. iter[Candidates] = F[Candidates] BY <1>5, EvidenceAssumption, FoldIsTotal
<1> QED BY <1>4, <1>6

\* What all candidates spent beyond the limits is a total.
LEMMA ExcessesAreTotal ==
  ASSUME NEW w, NEW F, IsTotal(F, w, Candidates),
         \A c \in Candidates : w[c] = Excess(c) /\ w[c] \in Nat
  PROVE  MapThenSumSet(Excess, Candidates) = F[Candidates]
<1> DEFINE G(f) == [s \in SUBSET Candidates |->
                      IF s = {} THEN 0
                      ELSE Excess(CHOOSE x \in s : TRUE)
                           + f[s \ {CHOOSE x \in s : TRUE}]]
<1> DEFINE iter == CHOOSE f : f = G(f)
<1>1. ASSUME NEW s \in SUBSET Candidates, s # {}
      PROVE  /\ (CHOOSE x \in s : TRUE) \in Candidates /\ (CHOOSE x \in s : TRUE) \in s
             /\ w[CHOOSE x \in s : TRUE] = Excess(CHOOSE x \in s : TRUE)
  BY <1>1
<1>2. F = G(F)
  <2>1. F \in [SUBSET Candidates -> Nat] /\ F[{}] = 0 BY DEF IsTotal
  <2>2. ASSUME NEW s \in SUBSET Candidates, s # {}
        PROVE  F[s] = Excess(CHOOSE x \in s : TRUE) + F[s \ {CHOOSE x \in s : TRUE}]
    <3>1. PICK y \in s : y = (CHOOSE x \in s : TRUE) /\ w[y] = Excess(CHOOSE x \in s : TRUE)
      BY <1>1, <2>2
    <3>2. F[s] = w[y] + F[s \ {y}] BY TotalUnfolds
    <3> QED BY <3>1, <3>2
  <2> QED BY <2>1, <2>2
<1>3. iter = G(iter)
  <2> HIDE DEF G
  <2> QED BY <1>2
<1>4. MapThenSumSet(Excess, Candidates) = iter[Candidates]
  BY DEF MapThenSumSet, MapThenFoldSet
<1> HIDE DEF iter
<1>5. IsFold(iter, w, Candidates) BY <1>1, <1>3 DEF IsFold
<1> HIDE DEF G
<1>6. iter[Candidates] = F[Candidates] BY <1>5, EvidenceAssumption, FoldIsTotal
<1> QED BY <1>4, <1>6

\* What a trial can be.
TrialStates == {nobody, begun} \cup Results

\* Prices are numbers.
LEMMA CostsAreNumbers ==
  ASSUME NEW x \in TrialStates
  PROVE  Cost(x) \in Nat
BY EvidenceAssumption DEF Cost, TrialStates

\* A price is the limit at most, but for what it is over it.
LEMMA OverLimits == \A n \in Nat : OverLimit(n) \in Nat /\ n <= Limit + OverLimit(n)
<1>1. Limit \in Nat BY EvidenceAssumption
<1> QED BY <1>1 DEF OverLimit

\* The price of a plan is a number.
LEMMA PlanCostIsNumber == PlanCost \in Nat
<1>1. Limit \in Nat /\ Pairs \in Nat BY EvidenceAssumption
<1>2. Limit * 2 \in Nat BY <1>1
<1> QED BY <1>1, <1>2 DEF PlanCost

\* What trials cost is a number; and trials that were never begun cost nothing.
LEMMA CostOfIsNumber ==
  ASSUME NEW t \in [Trials -> TrialStates]
  PROVE  CostOf(t) \in Nat /\ ((\A i \in Trials : t[i] = nobody) => CostOf(t) = 0)
<1>1. PICK w : w = [i \in Trials |-> Cost(t[i])] OBVIOUS
<1>2. w \in [Trials -> Nat] /\ \A i \in Trials : w[i] = Cost(t[i]) /\ w[i] \in Nat
  BY <1>1, CostsAreNumbers
<1>3. PICK F : IsTotal(F, w, Trials) BY <1>2, FiniteTrials, TotalExists
<1>4. CostOf(t) = F[Trials] /\ F[Trials] \in Nat
  <2>1. F[Trials] \in Nat BY <1>3 DEF IsTotal
  <2>2. CostOf(t) = F[Trials] BY <1>2, <1>3, CostIsTotal
  <2> QED BY <2>1, <2>2
<1>5. ASSUME \A i \in Trials : t[i] = nobody PROVE CostOf(t) = 0
  <2>1. \A i \in Trials : w[i] = 0 BY <1>2, <1>5, EvidenceAssumption DEF Cost
  <2>2. F[Trials] = 0 * Cardinality(Trials)
    BY <1>3, <2>1, FiniteTrials, TotalOfEquals
  <2>3. Cardinality(Trials) \in Nat BY FiniteTrials, FS_CardinalityType
  <2> QED BY <1>4, <2>2, <2>3
<1> QED BY <1>4, <1>5

\* What a candidate spent, by its trials.
LEMMA SpentIsCost ==
  ASSUME NEW c PROVE Spent(c) = CostOf(evidence[c].trial)
BY DEF Spent, CostOf, MapThenSumSet, MapThenFoldSet

\* The same, after a step.
LEMMA SpentWillBeCost ==
  ASSUME NEW c PROVE Spent(c)' = CostOf(evidence'[c].trial)
BY DEF Spent, CostOf, MapThenSumSet, MapThenFoldSet

\* What was paid for a candidate is its plan's cost at most, but for the excess.
LEMMA PaidWithinPlan ==
  ASSUME NEW c \in Candidates, runs.paid[c] \in [Trials -> Nat]
  PROVE  Paid(c) \in Nat /\ Excess(c) \in Nat /\ Paid(c) <= PlanCost + Excess(c)
<1>1. PICK t : t = runs.paid[c] OBVIOUS
<1>2. PICK w, v, u : /\ w = [i \in Trials |-> t[i]]
                     /\ v = [i \in Trials |-> Limit]
                     /\ u = [i \in Trials |-> OverLimit(t[i])]
  OBVIOUS
<1>3. \A i \in Trials : /\ w[i] = t[i] /\ v[i] = Limit /\ u[i] = OverLimit(t[i])
                        /\ w[i] \in Nat /\ v[i] \in Nat /\ u[i] \in Nat /\ w[i] <= v[i] + u[i]
  BY <1>1, <1>2, OverLimits, EvidenceAssumption
<1>4. w \in [Trials -> Nat] /\ v \in [Trials -> Nat] /\ u \in [Trials -> Nat]
  BY <1>2, <1>3
<1>5. PICK F, G, H : IsTotal(F, w, Trials) /\ IsTotal(G, v, Trials) /\ IsTotal(H, u, Trials)
  BY <1>4, FiniteTrials, TotalExists
<1>6. F[Trials] <= G[Trials] + H[Trials]
  BY <1>3, <1>5, FiniteTrials, TotalsCompare
<1>7. F[Trials] \in Nat /\ G[Trials] \in Nat /\ H[Trials] \in Nat
  BY <1>5 DEF IsTotal
<1>8. Paid(c) = F[Trials] BY <1>1, <1>3, <1>5, PaymentsAreTotal
<1>9. Excess(c) = H[Trials] BY <1>1, <1>3, <1>5, ExcessIsTotal
<1>10. G[Trials] = PlanCost
  BY <1>3, <1>5, FiniteTrials, EvidenceAssumption, TotalOfEquals DEF PlanCost
<1> QED BY <1>6, <1>7, <1>8, <1>9, <1>10

\* When every receipt says what its trial cost, the ledger knows what was paid.
LEMMA PaidIsCost ==
  ASSUME NEW c \in Candidates, runs.paid[c] \in [Trials -> Nat],
         \A i \in Trials : runs.paid[c][i] = Cost(evidence[c].trial[i])
  PROVE  Paid(c) = CostOf(evidence[c].trial)
<1>1. PICK w : w = runs.paid[c] OBVIOUS
<1>2. \A i \in Trials : w[i] = runs.paid[c][i] /\ w[i] = Cost(evidence[c].trial[i]) /\ w[i] \in Nat
  BY <1>1
<1>3. PICK F : IsTotal(F, w, Trials) BY <1>1, FiniteTrials, TotalExists
<1>4. Paid(c) = F[Trials] BY <1>2, <1>3, PaymentsAreTotal
<1>5. CostOf(evidence[c].trial) = F[Trials] BY <1>2, <1>3, CostIsTotal
<1> QED BY <1>4, <1>5

\* What a reservation holds of the budget: its plan's cost until it is settled,
\* and what it really cost from then on.
SettlementHolds(c) ==
  LET e == evidence[c] IN
  /\ e.settled => /\ e.reserved /\ Valid(e) /\ CostOf(e.trial) <= PlanCost
                  /\ e.released = PlanCost - CostOf(e.trial)
  /\ ~e.settled => e.released = 0

\* The invariant of the budget.
BudgetInvariant ==
  /\ \A c \in Candidates : SettlementHolds(c)
  /\ Committed <= regime.budget
  /\ Cardinality(Reserved) * Pairs <= MaxPairs

\* What is committed, as a total over the reserved candidates.
LEMMA CommittedIsHeld == Committed = HeldBy(evidence, Reserved)
BY DEF Committed, HeldBy, MapThenSumSet, MapThenFoldSet

\* The same, after a step.
LEMMA CommittedWillBeHeld == Committed' = HeldBy(evidence', Reserved')
BY DEF Committed, HeldBy, MapThenSumSet, MapThenFoldSet

\* The weights whose total is what is committed.
Weights(ev) == [c \in Candidates |-> IF ev[c].reserved THEN PlanCost - ev[c].released ELSE 0]

\* What is held is the total of the weights.
LEMMA HeldIsTotalOfWeights ==
  ASSUME NEW ev, NEW R, R = {c \in Candidates : ev[c].reserved}, NEW F,
         Weights(ev) \in [Candidates -> Nat], IsTotal(F, Weights(ev), Candidates)
  PROVE  HeldBy(ev, R) = F[Candidates]
<1>1. PICK w : w = Weights(ev) OBVIOUS
<1>2. /\ R \in SUBSET Candidates /\ \A c \in Candidates : w[c] \in Nat
      /\ \A c \in R : w[c] = PlanCost - ev[c].released
      /\ \A c \in Candidates : c \notin R => w[c] = 0
  BY <1>1 DEF Weights
<1>3. IsTotal(F, w, Candidates) /\ IsFiniteSet(Candidates)
  BY <1>1, EvidenceAssumption
<1>4. HeldBy(ev, R) = F[R] BY <1>2, <1>3, HeldIsTotal
<1>5. F[R] = F[Candidates] BY <1>2, <1>3, TotalOfPart
<1> QED BY <1>4, <1>5

\* Weights are numbers.
LEMMA WeightsAreNumbers ==
  ASSUME EvidenceInvariant, BudgetInvariant
  PROVE  /\ Weights(evidence) \in [Candidates -> Nat]
         /\ \A c \in Candidates : /\ evidence[c].trial \in [Trials -> TrialStates]
                                  /\ PlanCost - evidence[c].released \in Nat
                                  /\ evidence[c].settled \in BOOLEAN
<1>1. ASSUME NEW c \in Candidates
      PROVE  /\ evidence[c].trial \in [Trials -> TrialStates] /\ evidence[c].settled \in BOOLEAN
             /\ PlanCost - evidence[c].released \in Nat
  BY CostOfIsNumber, PlanCostIsNumber DEF EvidenceInvariant, EvidenceShape, Evidence,
     TrialStates, BudgetInvariant, SettlementHolds
<1> QED BY <1>1 DEF Weights

\* A host that has nothing to do stays so.
LEMMA IdleStays ==
  ASSUME EvidenceInvariant, NEW h \in Hosts, host[h] = Idle, UNCHANGED <<host, locks>>
  PROVE  (HostFits(h) /\ LocksFit(h) /\ StageIsReached(h) /\ RunIsOurs(h))'
BY IdleHoldsNothing, IdleFits DEF EvidenceInvariant

\* Settle keeps the invariant.
LEMMA SettleKeeps ==
  ASSUME EvidenceInvariant, NEW h \in Hosts, NEW c \in Candidates, Settle(h, c), UNCHANGED regime
  PROVE  EvidenceInvariant'
<1> USE EvidenceAssumption
<1>0. /\ host[h] = Idle /\ EvidenceShape /\ evidence[c] \in Evidence
      /\ evidence \in [Candidates -> Evidence] /\ GatesHold(c) /\ ReconciledOnce(c)
      /\ UNCHANGED <<host, locks, pinned, search, sealed, asked, runs>>
      /\ evidence[c].trial \in [Trials -> TrialStates]
  BY DEF EvidenceInvariant, EvidenceShape, Settle, Evidence, TrialStates
<1>1. PlanCost - Spent(c) \in Nat
  BY <1>0, SpentIsCost, CostOfIsNumber, PlanCostIsNumber DEF Settle, Settleable
<1>2. PICK n \in Nat : n = PlanCost - Spent(c) BY <1>1
<1>3. PICK e : e = [evidence[c] EXCEPT !.settled = TRUE, !.released = n] OBVIOUS
<1>4. evidence' = [evidence EXCEPT ![c] = e] BY <1>2, <1>3 DEF Settle, Ledger
<1>5. /\ e \in Evidence /\ e.materialized = evidence[c].materialized
      /\ e.check = evidence[c].check /\ e.verdict = evidence[c].verdict
      /\ e.gate = evidence[c].gate
      /\ e.reserved = evidence[c].reserved /\ e.trial = evidence[c].trial
      /\ e.violation = evidence[c].violation /\ e.paired = evidence[c].paired
      /\ e.reconciled = evidence[c].reconciled
  BY <1>0, <1>3 DEF Evidence
<1>6. evidence'[c] = e BY <1>0, <1>4
<1>7. GatesHold(c)' BY <1>0, <1>5, <1>6, OtherFields DEF GatesHold
<1>8. ReconciledOnce(c)' BY <1>0, <1>4, <1>5, <1>6, SameReconciled
<1>9. /\ host' \in [Hosts -> HostStates] /\ locks' \in [Locks -> Hosts \cup {nobody}]
      /\ search' \in [Runs -> SearchStates] /\ runs' \in RunCounts
      /\ \A r \in Runs : MayBlock(r)
  BY <1>0 DEF EvidenceShape, MayBlock
<1>10. (HostFits(h) /\ LocksFit(h) /\ StageIsReached(h) /\ RunIsOurs(h))'
  BY <1>0, IdleStays
<1>11. \A g \in Hosts \ {h} : host'[g] = host[g] BY <1>0
<1>12. UNCHANGED <<sealed, asked, regime, pinned, runs, search, locks>> BY <1>0
<1> QED BY <1>4, <1>5, <1>7, <1>8, <1>9, <1>10, <1>11, <1>12, WorkStep

\* Reconcile keeps the invariant.
LEMMA ReconcileKeeps ==
  ASSUME EvidenceInvariant, NEW h \in Hosts, NEW c \in Candidates, NEW i \in Trials,
         Reconcile(h, c, i), UNCHANGED regime
  PROVE  EvidenceInvariant'
<1> USE EvidenceAssumption
<1>0. /\ host[h] = Idle /\ EvidenceShape /\ evidence[c] \in Evidence
      /\ evidence \in [Candidates -> Evidence]
      /\ UNCHANGED <<host, locks, pinned, search, sealed, asked, runs>>
  BY DEF EvidenceInvariant, EvidenceShape, Reconcile
<1>1. PICK e : e = [evidence[c] EXCEPT !.reconciled = evidence[c].reconciled \cup {i}]
  OBVIOUS
<1>2. evidence' = [evidence EXCEPT ![c] = e] BY <1>0, <1>1 DEF Reconcile, Ledger
<1>3. /\ e \in Evidence /\ e.materialized = evidence[c].materialized
      /\ e.check = evidence[c].check /\ e.verdict = evidence[c].verdict
      /\ e.gate = evidence[c].gate
      /\ e.reserved = evidence[c].reserved /\ e.trial = evidence[c].trial
      /\ e.violation = evidence[c].violation /\ e.paired = evidence[c].paired
      /\ e.reconciled = evidence[c].reconciled \cup {i}
  BY <1>0, <1>1 DEF Evidence
<1>4. /\ evidence'[c] = e /\ \A d \in Candidates \ {c} : evidence'[d] = evidence[d]
      /\ evidence' \in [Candidates -> Evidence]
  BY <1>0, <1>2, <1>3
<1>5. evidence[c].trial[i] # nobody
  <2>1. <<c, i>> \in SameRequest(c, i) BY DEF Reconcile
  <2> QED BY <2>1 DEF SameRequest
<1>6. ASSUME NEW d \in Candidates \ {c}, Control(i) PROVE i \notin evidence[d].reconciled
  <2>1. ReconciledOnce(d) BY DEF EvidenceInvariant
  <2>2. ASSUME evidence[d].trial[i] # nobody PROVE FALSE
    <3>1. <<d, i>> \in SameRequest(c, i) BY <1>6, <2>2 DEF SameRequest
    <3> QED BY <3>1 DEF Reconcile
  <2> QED BY <2>1, <2>2 DEF ReconciledOnce
<1>7. ASSUME NEW d \in Candidates PROVE ReconciledOnce(d)'
  <2>1. ReconciledOnce(d) /\ ReconciledOnce(c) BY DEF EvidenceInvariant
  <2>2. /\ runs' = runs /\ evidence'[d].check = evidence[d].check
        /\ evidence'[d].trial = evidence[d].trial
    BY <1>0, <1>3, <1>4
  <2>3. ASSUME NEW j \in Trials, j \in evidence'[d].reconciled
        PROVE  evidence'[d].trial[j] # nobody
    BY <1>3, <1>4, <1>5, <2>1, <2>2, <2>3 DEF ReconciledOnce
  <2>4. ASSUME NEW j \in Trials, j \in evidence'[d].reconciled, Control(j),
               NEW k \in Candidates \ {d}
        PROVE  j \notin evidence'[k].reconciled
    <3>1. CASE d = c BY <1>4, <3>1, <1>3, <2>4, <1>6, <2>1 DEF ReconciledOnce
    <3>2. CASE d # c /\ k = c
      BY <1>4, <2>4, <3>2, <1>6, <2>1, <1>3 DEF ReconciledOnce
    <3>3. CASE d # c /\ k # c BY <1>4, <2>1, <2>4, <3>3 DEF ReconciledOnce
    <3> QED BY <3>1, <3>2, <3>3
  <2> QED BY <2>1, <2>2, <2>3, <2>4 DEF ReconciledOnce
<1>8. ASSUME NEW d \in Candidates PROVE GatesHold(d)'
  <2>1. GatesHold(d) BY DEF EvidenceInvariant
  <2>2. CASE d = c BY <1>0, <1>3, <2>1, <2>2, <1>4, OtherFields DEF GatesHold
  <2>3. CASE d # c BY <1>0, <1>4, <2>1, <2>3, SameGates
  <2> QED BY <2>2, <2>3
<1>9. EvidenceShape' BY <1>0, <1>4 DEF EvidenceShape
<1>10. OthersAlone(h) BY <1>0, <1>3, <1>4 DEF OthersAlone
<1>11. ASSUME NEW r \in Runs PROVE RoundsHold(r)'
  BY <1>0, <1>3, <1>4, SameRounds DEF EvidenceInvariant, MayBlock
<1>12. (HostFits(h) /\ LocksFit(h) /\ StageIsReached(h) /\ RunIsOurs(h))'
  BY <1>0, IdleStays
<1> QED BY <1>7, <1>8, <1>9, <1>10, <1>11, <1>12, StepOfHost

\* RequestFinalist keeps the invariant.
LEMMA AskKeeps ==
  ASSUME EvidenceInvariant, NEW h \in Hosts, NEW r \in Runs, NEW c \in Candidates,
         RequestFinalist(h, r, c), UNCHANGED regime
  PROVE  EvidenceInvariant'
<1>0. /\ host[h] = Idle /\ EvidenceShape
      /\ UNCHANGED <<host, locks, evidence, pinned, search, sealed, runs>>
      /\ asked' = asked \cup {c} /\ sealed[r] = [status |-> "passed", cand |-> c]
  BY DEF EvidenceInvariant, RequestFinalist
<1>1. EvidenceShape' /\ OthersAlone(h) BY <1>0 DEF EvidenceShape, OthersAlone
<1>2. ASSUME NEW d \in Candidates PROVE (GatesHold(d) /\ ReconciledOnce(d))'
  BY <1>0 DEF EvidenceInvariant, ReconciledOnce, GatesHold
<1>3. ASSUME NEW q \in Runs PROVE RoundsHold(q)'
  BY <1>0, SameRounds DEF EvidenceInvariant, MayBlock
<1>4. (HostFits(h) /\ LocksFit(h) /\ StageIsReached(h) /\ RunIsOurs(h))'
  BY <1>0, IdleStays
<1> QED BY <1>1, <1>2, <1>3, <1>4, StepOfHost

\* StartSealed keeps the invariant.
LEMMA SealKeeps ==
  ASSUME EvidenceInvariant, NEW h \in Hosts, NEW r \in Runs, NEW c \in Candidates,
         StartSealed(h, r, c), UNCHANGED regime
  PROVE  EvidenceInvariant'
<1> USE EvidenceAssumption
<1>0. /\ host[h] = Idle /\ EvidenceShape /\ Free("search") /\ RoundsHold(r)
      /\ UNCHANGED <<evidence, pinned, search, asked, runs>>
      /\ search[r].status = "finished" /\ c \in Qualified(r) /\ sealed[r].status = "none"
      /\ HostFits(h) /\ LocksFit(h)
  BY DEF EvidenceInvariant, StartSealed, MayBeSealed
<1>1. PICK s : s = [Idle EXCEPT !.op = "seal", !.at = "sealing", !.run = r, !.cand = c]
  OBVIOUS
<1>2. /\ s \in HostStates /\ s.op = "seal" /\ s.at = "sealing" /\ s.run = r /\ s.cand = c
  <2>1. Idle \in HostStates /\ "sealing" \in Places
    BY DEF Idle, HostStates, Places
  <2> QED BY <1>1, <2>1 DEF HostStates
<1>3. /\ host' = [host EXCEPT ![h] = s] /\ locks' = [locks EXCEPT !["search"] = h]
      /\ sealed' = [sealed EXCEPT ![r] = [status |-> "started", cand |-> c]]
  BY <1>1 DEF StartSealed, Take
<1>4. /\ host' \in [Hosts -> HostStates] /\ host'[h] = s
      /\ \A g \in Hosts \ {h} : host'[g] = host[g]
      /\ locks' \in [Locks -> Hosts \cup {nobody}] /\ locks'["search"] = h
      /\ \A l \in Locks \ {"search"} : locks'[l] = locks[l]
      /\ sealed' \in [Runs -> SealedStates] /\ sealed'[r] = [status |-> "started", cand |-> c]
      /\ \A q \in Runs \ {r} : sealed'[q] = sealed[q]
  BY <1>0, <1>2, <1>3 DEF SealedStates, Locks, EvidenceShape
<1>5. EvidenceShape' /\ OthersAlone(h)
  BY <1>0, <1>4 DEF EvidenceShape, Free, OthersAlone
<1>6. HostFits(h)'
  BY <1>2, <1>4 DEF HostFits, SearchPlaces, WorkPlaces, CheckPlaces, TrialPlaces
<1>7. LocksFit(h)'
  <2>1. /\ locks'["search"] = h /\ locks'["materialization"] # h
        /\ locks'["evaluation"] # h /\ locks'["paired"] # h
    BY <1>0, <1>4, IdleHoldsNothing DEF Locks
  <2> QED BY <2>1, <1>2, <1>4 DEF LocksFit, TrialPlaces
<1>8. StageIsReached(h)' /\ RunIsOurs(h)'
  <2>1. StageIsReached(h)' BY ONLY <1>2, <1>4 DEF StageIsReached, TrialPlaces
  <2>2. RunIsOurs(h)'
    BY ONLY <1>2, <1>4 DEF RunIsOurs, WorkPlaces, CheckPlaces, TrialPlaces
  <2> QED BY <2>1, <2>2
<1>9. ASSUME NEW d \in Candidates PROVE (GatesHold(d) /\ ReconciledOnce(d))'
  BY <1>0, <1>4, SameGates, SameReconciled DEF EvidenceInvariant
<1>10. ASSUME NEW q \in Runs PROVE RoundsHold(q)'
  <2>1. CASE q = r
    <3>1. Rows(r)' = Rows(r) /\ Uncertain(r)' = Uncertain(r) /\ Qualified(r)' = Qualified(r)
      BY <1>0 DEF Rows, Uncertain, Qualified
    <3>2. sealed'[r].status = "started" /\ sealed'[r].cand = c BY <1>4
    <3> QED BY <1>0, <2>1, <3>1, <3>2 DEF RoundsHold
  <2>2. CASE q # r
    BY <1>0, <1>4, <2>2, SameRounds DEF EvidenceInvariant, MayBlock
  <2> QED BY <2>1, <2>2
<1> QED BY <1>5, <1>6, <1>7, <1>8, <1>9, <1>10, StepOfHost

\* The sealed validation of a run ends: with a verdict, or an exception.
LEMMA SealEnds ==
  ASSUME EvidenceInvariant, NEW h \in Hosts, host[h].at \in {"sealing", "scoring"},
         NEW v \in {"passed", "rejected", "failed"},
         sealed' = [sealed EXCEPT ![host[h].run].status = v], LeaveAll(h),
         UNCHANGED <<evidence, pinned, search, asked, runs, regime>>
  PROVE  EvidenceInvariant'
<1> USE EvidenceAssumption
<1>0. /\ EvidenceShape /\ HostFits(h) /\ LocksFit(h) /\ RunIsOurs(h)
      /\ host[h].op = "seal"
  BY DEF EvidenceInvariant, HostFits
<1>r. PICK r \in Runs : r = host[h].run BY <1>0 DEF HostFits
<1>1. /\ sealed[r].status = "started" /\ RoundsHold(r)
      /\ sealed[r] \in SealedStates /\ sealed \in [Runs -> SealedStates] /\ runs \in RunCounts
  BY <1>0, <1>r DEF RunIsOurs, RoundsHold, EvidenceInvariant, EvidenceShape
<1>2. /\ sealed' \in [Runs -> SealedStates] /\ sealed'[r].status = v
      /\ sealed'[r].cand = sealed[r].cand /\ \A q \in Runs \ {r} : sealed'[q] = sealed[q]
  <2>1. PICK x : x = [sealed[r] EXCEPT !.status = v] OBVIOUS
  <2>2. x \in SealedStates /\ x.status = v /\ x.cand = sealed[r].cand
    BY <1>1, <2>1 DEF SealedStates
  <2>3. sealed' = [sealed EXCEPT ![r] = x] BY <1>r, <2>1
  <2> QED BY <1>1, <2>2, <2>3
<1>4. /\ host' \in [Hosts -> HostStates] /\ \A g \in Hosts \ {h} : host'[g] = host[g]
      /\ locks' \in [Locks -> Hosts \cup {nobody}]
      /\ \A l \in Locks : locks'[l] # locks[l] => {locks[l], locks'[l]} \subseteq {nobody, h}
      /\ (HostFits(h) /\ LocksFit(h) /\ StageIsReached(h) /\ RunIsOurs(h))'
  BY LeavingHost
<1>5. EvidenceShape' BY <1>0, <1>2, <1>4 DEF EvidenceShape
<1>6. OthersAlone(h) BY <1>0, <1>4 DEF OthersAlone
<1>7. ASSUME NEW d \in Candidates PROVE (GatesHold(d) /\ ReconciledOnce(d))'
  BY <1>1, <1>2, SameGates, SameReconciled DEF EvidenceInvariant
<1>8. ASSUME NEW q \in Runs PROVE RoundsHold(q)'
  <2>1. CASE q = r
    <3>1. Rows(r)' = Rows(r) /\ Uncertain(r)' = Uncertain(r) /\ Qualified(r)' = Qualified(r)
      BY DEF Rows, Uncertain, Qualified
    <3> QED BY <1>1, <1>2, <2>1, <3>1 DEF RoundsHold
  <2>2. CASE q # r
    BY <1>0, <1>2, <2>2, SameRounds DEF EvidenceInvariant, MayBlock
  <2> QED BY <2>1, <2>2
<1> QED BY <1>4, <1>5, <1>6, <1>7, <1>8, StepOfHost

\* FinishSealed keeps the invariant.
LEMMA FinishKeeps ==
  ASSUME EvidenceInvariant, NEW h \in Hosts, FinishSealed(h), UNCHANGED regime
  PROVE  EvidenceInvariant'
<1>1. PICK v \in {"passed", "rejected", "failed"} :
         sealed' = [sealed EXCEPT ![host[h].run].status = v]
  BY DEF FinishSealed
<1> QED BY <1>1, SealEnds DEF FinishSealed, At

\* A launch is counted, whatever comes of it.
LEMMA LaunchesAreCounted ==
  ASSUME EvidenceInvariant, NEW h \in Hosts,
         LaunchChecks(h) \/ LaunchTrial(h) \/ LaunchSealed(h)
  PROVE  runs' \in RunCounts
<1> USE EvidenceAssumption
<1>0. /\ runs \in RunCounts /\ HostFits(h)
      /\ runs.check \in [Candidates -> Nat] /\ runs.sealed \in [Runs -> Nat]
      /\ runs.trial \in [Candidates -> [Trials -> Nat]]
      /\ runs.paid \in [Candidates -> [Trials -> Nat]]
  BY DEF EvidenceInvariant, EvidenceShape, RunCounts
<1>1. CASE LaunchChecks(h)
  <2>1. PICK c \in Candidates : c = host[h].cand
    BY <1>0, <1>1 DEF LaunchChecks, At, HostFits, WorkPlaces, CheckPlaces
  <2>2. PICK n : n = [runs.check EXCEPT ![c] = runs.check[c] + 1] OBVIOUS
  <2>3. n \in [Candidates -> Nat] BY <1>0, <2>2
  <2>4. runs' = [runs EXCEPT !.check = n]
    BY <1>1, <2>1, <2>2 DEF LaunchChecks, Cand
  <2> QED BY <1>0, <2>3, <2>4 DEF RunCounts
<1>2. CASE LaunchTrial(h)
  <2>1. PICK c \in Candidates, i \in Trials : c = host[h].cand /\ i = host[h].trial
    BY <1>0, <1>2 DEF LaunchTrial, At, HostFits, WorkPlaces, TrialPlaces
  <2>2. \A x \in Results : Cost(x) \in Nat BY DEF Cost
  <2>3. PICK price \in Nat :
          runs' = [runs EXCEPT !.trial[c][i] = @ + 1, !.paid[c][i] = @ + price]
    BY <1>2, <2>1, <2>2 DEF LaunchTrial, Prices, Cand, Index
  <2>4. PICK n, m : /\ n = [runs.trial EXCEPT ![c] = [runs.trial[c] EXCEPT ![i] = runs.trial[c][i] + 1]]
                    /\ m = [runs.paid EXCEPT ![c] = [runs.paid[c] EXCEPT ![i] = runs.paid[c][i] + price]]
    OBVIOUS
  <2>5. n \in [Candidates -> [Trials -> Nat]] /\ m \in [Candidates -> [Trials -> Nat]]
    BY <1>0, <2>4
  <2>6. runs' = [runs EXCEPT !.trial = n, !.paid = m] BY <2>3, <2>4
  <2> QED BY <1>0, <2>5, <2>6 DEF RunCounts
<1>3. CASE LaunchSealed(h)
  <2>1. PICK r \in Runs : r = host[h].run
    BY <1>0, <1>3 DEF LaunchSealed, At, HostFits
  <2>2. PICK n : n = [runs.sealed EXCEPT ![r] = runs.sealed[r] + 1] OBVIOUS
  <2>3. n \in [Runs -> Nat] BY <1>0, <2>2
  <2>4. runs' = [runs EXCEPT !.sealed = n] BY <1>3, <2>1, <2>2 DEF LaunchSealed
  <2> QED BY <1>0, <2>3, <2>4 DEF RunCounts
<1> QED BY <1>1, <1>2, <1>3

\* LaunchChecks and LaunchTrial keep the invariant.
LEMMA LaunchKeeps ==
  ASSUME EvidenceInvariant, NEW h \in Hosts, LaunchChecks(h) \/ LaunchTrial(h), UNCHANGED regime
  PROVE  EvidenceInvariant'
<1>0. PICK pc \in {"testing", "tried"} :
        /\ pc = "testing" => host[h].at = "checking"
        /\ pc = "tried" => host[h].at = "trying"
        /\ Go(h, pc) /\ UNCHANGED <<locks, evidence, pinned, search, sealed, asked>>
  BY DEF LaunchChecks, LaunchTrial, At
<1>w. host[h].at \in WorkPlaces BY <1>0 DEF WorkPlaces, CheckPlaces, TrialPlaces
<1>1. WorkerFinds(h) /\ pc \in Places
  BY <1>0, <1>w, AtWork DEF Places, WorkPlaces, CheckPlaces, TrialPlaces
<1>2. /\ host' \in [Hosts -> HostStates] /\ \A g \in Hosts \ {h} : host'[g] = host[g]
      /\ host'[h].op = host[h].op /\ host'[h].at = pc /\ host'[h].run = host[h].run
      /\ host'[h].cand = host[h].cand /\ host'[h].then = host[h].then
      /\ host'[h].trial = host[h].trial
  BY <1>0, <1>1, GoMoves DEF WorkerFinds
<1>3. pc = "tried" => host[h].trial \in Trials
  BY <1>0, <1>1 DEF WorkerFinds, HostFits
<1>4. HostFits(h)' /\ RunIsOurs(h)'
  BY <1>0, <1>w, <1>2, <1>3, WorkerGoesOn DEF WorkPlaces, CheckPlaces, TrialPlaces
<1>5. LocksFit(h)' BY <1>0, <1>1, <1>2 DEF WorkerFinds, LocksFit, TrialPlaces
<1>6. StageIsReached(h)'
  BY <1>0, <1>1, <1>2 DEF WorkerFinds, StageIsReached, TrialPlaces, Ev
<1> QED BY <1>0, <1>2, <1>4, <1>5, <1>6, LaunchesAreCounted, HostTurns

\* LaunchSealed keeps the invariant.
LEMMA LaunchSealedKeeps ==
  ASSUME EvidenceInvariant, NEW h \in Hosts, LaunchSealed(h), UNCHANGED regime
  PROVE  EvidenceInvariant'
<1>0. /\ EvidenceShape /\ HostFits(h) /\ LocksFit(h) /\ RunIsOurs(h) /\ host[h].at = "sealing"
      /\ Go(h, "scoring") /\ UNCHANGED <<locks, evidence, pinned, search, sealed, asked>>
  BY DEF EvidenceInvariant, LaunchSealed, At
<1>1. "scoring" \in Places BY DEF Places
<1>2. /\ host' \in [Hosts -> HostStates] /\ \A g \in Hosts \ {h} : host'[g] = host[g]
      /\ host'[h].op = host[h].op /\ host'[h].at = "scoring" /\ host'[h].run = host[h].run
  BY <1>0, <1>1, GoMoves
<1>3. HostFits(h)' /\ LocksFit(h)'
  BY <1>0, <1>2 DEF HostFits, LocksFit, SearchPlaces, WorkPlaces, CheckPlaces, TrialPlaces
<1>4. StageIsReached(h)' /\ RunIsOurs(h)'
  BY <1>0, <1>2 DEF StageIsReached, TrialPlaces, HostFits, RunIsOurs
<1> QED BY <1>0, <1>2, <1>3, <1>4, LaunchesAreCounted, HostTurns

\* Raise keeps the invariant.
LEMMA RaiseKeeps ==
  ASSUME EvidenceInvariant, NEW h \in Hosts, Raise(h), UNCHANGED regime
  PROVE  EvidenceInvariant'
<1>0. EvidenceShape /\ HostFits(h) /\ LeaveAll(h) /\ Blocked(h) /\ UNCHANGED <<pinned, asked, runs>>
  BY DEF EvidenceInvariant, Raise
<1>1. CASE host[h].at \in {"checking", "testing"}
  <2>0. /\ host[h].at \in WorkPlaces /\ sealed' = sealed
    BY <1>1 DEF Raise, WorkPlaces, CheckPlaces
  <2>1. WorkerFinds(h) BY <2>0, AtWork
  <2>c. PICK c \in Candidates : c = host[h].cand BY <2>1 DEF WorkerFinds
  <2>2. PICK e : e = [evidence[c] EXCEPT !.check = "failed"] OBVIOUS
  <2>3. /\ evidence' = [evidence EXCEPT ![c] = e]
        /\ evidence[c] \in Evidence /\ evidence[c].check = "started"
    BY <1>1, <2>0, <2>1, <2>2, <2>c DEF Raise, Ledger, Cand, Ev, WorkerFinds, StageIsReached
  <2>4. /\ e \in Evidence /\ e.materialized = evidence[c].materialized
        /\ e.check = "failed" /\ e.gate = evidence[c].gate
        /\ e.reserved = evidence[c].reserved /\ e.trial = evidence[c].trial
        /\ e.violation = evidence[c].violation /\ e.paired = evidence[c].paired
        /\ e.reconciled = evidence[c].reconciled
    BY <2>2, <2>3 DEF Evidence
  <2>5. GatesHold(c)' /\ ReconciledOnce(c)' /\ runs' \in RunCounts
    BY <1>0, <1>1, <2>0, <2>c, <2>3, <2>4, ChecksEnd DEF EvidenceShape
  <2>6. /\ host' \in [Hosts -> HostStates] /\ \A g \in Hosts \ {h} : host'[g] = host[g]
        /\ locks' \in [Locks -> Hosts \cup {nobody}]
        /\ \A l \in Locks : locks'[l] # locks[l] => {locks[l], locks'[l]} \subseteq {nobody, h}
        /\ search' \in [Runs -> SearchStates] /\ (search' # search => host[h].op = "search")
        /\ \A r \in Runs : MayBlock(r)
        /\ (HostFits(h) /\ LocksFit(h) /\ StageIsReached(h) /\ RunIsOurs(h))'
    BY <1>0, LeavingHost
  <2> QED BY <1>0, <1>1, <2>0, <2>3, <2>4, <2>5, <2>6, WorkStep
<1>2. CASE host[h].at \in {"sealing", "scoring"}
  BY <1>2, <1>0, SealEnds DEF Raise, HostFits, Blocked
<1>3. CASE host[h].at \notin {"checking", "testing", "sealing", "scoring"}
  BY <1>0, <1>3, LeaveKeeps DEF Raise
<1> QED BY <1>1, <1>2, <1>3

\* CrashHost keeps the invariant.
LEMMA CrashKeeps ==
  ASSUME EvidenceInvariant, NEW h \in Hosts, CrashHost(h), UNCHANGED regime
  PROVE  EvidenceInvariant'
BY LeaveKeeps DEF CrashHost

\* A step of another component keeps the invariant.
LEMMA EvidenceStutters ==
  ASSUME EvidenceInvariant, UNCHANGED evidenceVars
  PROVE  EvidenceInvariant'
<1> USE DEF evidenceVars
<1>1. EvidenceShape' BY DEF EvidenceInvariant, EvidenceShape
<1>2. ASSUME NEW h \in Hosts PROVE (HostFits(h) /\ LocksFit(h) /\ StageIsReached(h) /\ RunIsOurs(h))'
  BY DEF EvidenceInvariant, HostFits, LocksFit, StageIsReached, Ev, RunIsOurs, Rows, Uncertain
<1>3. ASSUME NEW c \in Candidates PROVE (GatesHold(c) /\ ReconciledOnce(c))'
  BY SameGates, SameReconciled DEF EvidenceInvariant
<1>4. ASSUME NEW r \in Runs PROVE RoundsHold(r)'
  BY SameRounds DEF EvidenceInvariant, MayBlock
<1> QED BY <1>1, <1>2, <1>3, <1>4 DEF EvidenceInvariant

\* Every step of a host at work keeps the invariant.
LEMMA HostWorkKeeps ==
  ASSUME EvidenceInvariant, NEW h \in Hosts, HostWork(h)
  PROVE  EvidenceInvariant'
<1>1. UNCHANGED regime BY DEF HostWork
<1>2. CASE AnchorSearch(h) \/ NextRound(h) \/ Propose(h) \/ AfterJudgement(h) \/ AfterComparison(h)
  BY <1>1, <1>2, AnchorKeeps, NextRoundKeeps, ProposeKeeps, JudgedKeeps, ComparedKeeps
<1>3. CASE BindManifest(h) \/ PinCommit(h) \/ RecordMaterialized(h) \/ StartChecks(h)
  BY <1>1, <1>3, BindKeeps, PinKeeps, RecordKeepsEvidence, StartChecksKeeps
<1>4. CASE RunChecks(h) \/ RecordVerdict(h) \/ ReserveTrials(h) \/ StartTrial(h) \/ RunTrial(h)
  BY <1>1, <1>4, RunChecksKeeps, VerdictKeeps, ReserveKeeps, StartTrialKeeps, RunTrialKeeps
<1>5. CASE MeasureTrial(h) \/ RecordPromotion(h) \/ FinishSealed(h)
  BY <1>1, <1>5, MeasureTrialKeeps, PromotionKeeps, FinishKeeps
<1>6. CASE LaunchChecks(h) \/ LaunchTrial(h) \/ LaunchSealed(h)
  BY <1>1, <1>6, LaunchKeeps, LaunchSealedKeeps
<1> QED BY <1>2, <1>3, <1>4, <1>5, <1>6 DEF HostWork

\* Whatever a host does, and whatever goes wrong with it, keeps the invariant.
LEMMA EvidenceInvariantIsInductive ==
  ASSUME EvidenceInvariant, [EvidenceNext]_evidenceVars
  PROVE  EvidenceInvariant'
<1>1. CASE UNCHANGED evidenceVars BY <1>1, EvidenceStutters
<1>2. CASE EvidenceNext
  <2>1. UNCHANGED regime BY <1>2 DEF EvidenceNext
  <2>2. regime.cands \subseteq Candidates
    BY EvidenceAssumption DEF EvidenceInvariant, EvidenceShape
  <2>3. PICK h \in Hosts :
          \/ HostWork(h) \/ Raise(h) \/ CrashHost(h)
          \/ \E r \in Runs : OpenSearch(h, r) \/ ResumeSearch(h, r)
          \/ \E c \in Candidates, t \in regime.asks : CallOn(h, c, t)
          \/ \E c \in Candidates : Settle(h, c) \/ \E i \in Trials : Reconcile(h, c, i)
          \/ \E r \in Runs, c \in Candidates : StartSealed(h, r, c) \/ RequestFinalist(h, r, c)
    BY <1>2, <2>2 DEF EvidenceNext
  <2>4. CASE HostWork(h) \/ Raise(h) \/ CrashHost(h)
    BY <2>1, <2>4, HostWorkKeeps, RaiseKeeps, CrashKeeps
  <2>5. CASE \E r \in Runs : OpenSearch(h, r) \/ ResumeSearch(h, r)
    BY <2>1, <2>5, OpenKeeps
  <2>6. CASE \E c \in Candidates, t \in regime.asks : CallOn(h, c, t)
    BY <2>1, <2>6, CallKeeps
  <2>7. CASE \E c \in Candidates : Settle(h, c) \/ \E i \in Trials : Reconcile(h, c, i)
    BY <2>1, <2>7, SettleKeeps, ReconcileKeeps
  <2>8. CASE \E r \in Runs, c \in Candidates : StartSealed(h, r, c) \/ RequestFinalist(h, r, c)
    BY <2>1, <2>8, SealKeeps, AskKeeps
  <2> QED BY <2>3, <2>4, <2>5, <2>6, <2>7, <2>8
<1> QED BY <1>1, <1>2

\* A comparison that passed was won in a pair.
LEMMA PassedIsWon ==
  ASSUME NEW e, Promotion(e) = "pass"
  PROVE  /\ \A i \in Trials : e.trial[i].status = "completed" /\ e.trial[i].cost # nobody
         /\ \E i \in Trials : ~Control(i) /\ e.trial[i].passed /\ ~e.trial[i - 1].passed
<1> DEFINE wins == {i \in Trials : Control(i) /\ Beats(e, i + 1, i)}
           losses == {i \in Trials : Control(i) /\ Beats(e, i, i + 1)}
<1>1. Valid(e) /\ Cardinality(wins) > Cardinality(losses) BY DEF Promotion
<1>2. wins # {}
  BY <1>1, FiniteTrials, FS_Subset, FS_CardinalityType, FS_EmptySet
<1>3. PICK j \in Trials : j % 2 = 0 /\ e.trial[j + 1].passed /\ ~e.trial[j].passed
  BY <1>2 DEF Control, Beats
<1>4. j + 1 \in Trials /\ (j + 1) % 2 # 0 /\ (j + 1) - 1 = j
  BY <1>3, EvidenceAssumption DEF Trials
<1>5. ~Control(j + 1) /\ e.trial[j + 1].passed /\ ~e.trial[(j + 1) - 1].passed
  BY <1>3, <1>4 DEF Control
<1> QED BY <1>1, <1>4, <1>5 DEF Valid

\* The invariant gives what the run checks of promotions.
LEMMA SoundnessFollows ==
  ASSUME EvidenceInvariant
  PROVE  EvidenceIsSound
<1>0. EvidenceShape BY DEF EvidenceInvariant
<1>1. EvidenceTypes
  <2>1. ASSUME NEW h \in Hosts
        PROVE  host[h].cand \in Candidates \cup {nobody} /\ host[h].trial \in 0..(2 * Pairs)
    BY <1>0 DEF EvidenceShape, HostStates
  <2>2. ASSUME NEW r \in Runs
        PROVE  /\ search[r].status \in {"none", "bare", "running", "finished", "blocked"}
               /\ \A i \in DOMAIN Rows(r) : Rows(r)[i].status \in RowStatus
    <3>1. search[r] \in SearchStates BY <1>0 DEF EvidenceShape
    <3>2. Rows(r) \in Seq(Round) /\ search[r].status \in {"none", "bare", "running", "finished", "blocked"}
      BY <3>1 DEF SearchStates, Rows
    <3>3. ASSUME NEW i \in DOMAIN Rows(r) PROVE Rows(r)[i] \in Round BY <3>2
    <3> QED BY <3>2, <3>3 DEF Round
  <2>3. ASSUME NEW c \in Candidates
        PROVE  /\ evidence[c].trial \in [Trials -> {nobody, begun} \cup Results]
               /\ {evidence[c].verdict, evidence[c].gate, evidence[c].paired} \subseteq Gates
    BY <1>0 DEF EvidenceShape, Evidence
  <2> QED BY <1>0, <2>1, <2>2, <2>3 DEF EvidenceTypes, EvidenceShape
<1>2. ASSUME NEW c \in Candidates
      PROVE  LET e == evidence[c] IN
             /\ e.gate # "none" => e.materialized /\ e.check = "completed" /\ e.gate = e.verdict
             /\ e.reserved => e.gate = "pass" /\ c \in pinned
             /\ e.paired = "pass" =>
                  /\ e.reserved /\ e.violation = {}
                  /\ \A i \in Trials : e.trial[i].status = "completed" /\ e.trial[i].cost # nobody
                  /\ \E i \in Trials : ~Control(i) /\ e.trial[i].passed /\ ~e.trial[i - 1].passed
             /\ c \in asked => \E r \in Runs : sealed[r] = [status |-> "passed", cand |-> c]
  BY <1>0, PassedIsWon DEF EvidenceInvariant, EvidenceShape, Evidence, GatesHold
<1>3. ASSUME NEW r \in Runs
      PROVE  /\ Len(Rows(r)) <= MaxRounds
             /\ \A c \in Qualified(r) : evidence[c].paired = "pass"
             /\ \A i, j \in DOMAIN Rows(r) :
                  Rows(r)[i].cand = Rows(r)[j].cand /\ Rows(r)[i].cand # nobody => i = j
             /\ sealed[r].status # "none" =>
                  search[r].status = "finished" /\ sealed[r].cand \in Qualified(r)
             /\ search[r].status = "finished" => Stops(Rows(r)) /\ ~Uncertain(r)
  BY DEF EvidenceInvariant, RoundsHold, Qualified, RowsAt
<1> QED BY <1>1, <1>2, <1>3 DEF EvidenceIsSound

-----------------------------------------------------------------------------
(* CandidateEvidence: what each step does to trials, budgets and runs.     *)

\* A step that neither reserves, settles nor tries anything, nor forgets a check.
CheckIsKept(c, e) == e.check = "none" => evidence[c].check = "none"
TrialsStay ==
  \A c \in Candidates : /\ CheckIsKept(c, evidence'[c])
                        /\ evidence'[c].reserved = evidence[c].reserved
                        /\ evidence'[c].settled = evidence[c].settled
                        /\ evidence'[c].released = evidence[c].released
                        /\ evidence'[c].trial = evidence[c].trial

\* Evidence that changes in nothing the budget looks at.
LEMMA OneChanges ==
  ASSUME EvidenceInvariant, NEW c \in Candidates, NEW e, evidence' = [evidence EXCEPT ![c] = e],
         e.reserved = evidence[c].reserved, e.settled = evidence[c].settled,
         e.released = evidence[c].released, e.trial = evidence[c].trial, CheckIsKept(c, e)
  PROVE  TrialsStay
<1>1. evidence \in [Candidates -> Evidence]
  BY DEF EvidenceInvariant, EvidenceShape
<1>2. \A d \in Candidates : evidence'[d] = IF d = c THEN e ELSE evidence[d]
  BY <1>1
<1> QED BY <1>2 DEF TrialsStay, CheckIsKept

\* What a host writes of its candidate besides its trials.
Notes(f) ==
  {[f EXCEPT !.created = TRUE], [f EXCEPT !.materialized = TRUE], [f EXCEPT !.check = "started"],
   [f EXCEPT !.check = "failed"], [f EXCEPT !.gate = f.verdict],
   [f EXCEPT !.paired = Promotion(f)]}
  \cup {[f EXCEPT !.check = "completed", !.verdict = v] : v \in Gates \ {"none"}}
  \cup {[f EXCEPT !.violation = f.violation \cup {i}] : i \in Trials}
  \cup {[f EXCEPT !.reconciled = f.reconciled \cup {i}] : i \in Trials}

\* A note in the evidence leaves the trials and the reservation.
LEMMA NotesStay ==
  ASSUME EvidenceInvariant, NEW c \in Candidates, NEW e \in Notes(evidence[c]),
         evidence' = [evidence EXCEPT ![c] = e]
  PROVE  TrialsStay
<1>1. evidence[c] \in Evidence BY DEF EvidenceInvariant, EvidenceShape
<1>2. /\ e.reserved = evidence[c].reserved /\ e.settled = evidence[c].settled
      /\ e.released = evidence[c].released /\ e.trial = evidence[c].trial
  BY <1>1 DEF Notes, Evidence
<1>3. CheckIsKept(c, e) BY <1>1 DEF Notes, Evidence, CheckIsKept
<1> QED BY <1>2, <1>3, OneChanges

\* A host that is not at a trial writes notes only.
LEMMA WorkerWrites ==
  ASSUME EvidenceInvariant, NEW h \in Hosts,
         \/ BindManifest(h) \/ RecordMaterialized(h) \/ StartChecks(h) \/ RunChecks(h)
         \/ RecordVerdict(h) \/ MeasureTrial(h) \/ RecordPromotion(h)
  PROVE  TrialsStay
<1>0. host[h].at \in WorkPlaces
  BY DEF BindManifest, RecordMaterialized, StartChecks, RunChecks, RecordVerdict, MeasureTrial,
         RecordPromotion, At, WorkPlaces, CheckPlaces, TrialPlaces
<1>1. WorkerFinds(h) BY <1>0, AtWork
<1>c. PICK c \in Candidates : c = host[h].cand BY <1>1 DEF WorkerFinds
<1>2. evidence' = evidence \/ \E e \in Notes(evidence[c]) : evidence' = [evidence EXCEPT ![c] = e]
  <2>1. CASE BindManifest(h)
    BY <2>1, <1>c DEF BindManifest, Ledger, Ev, Cand, Notes
  <2>2. CASE RecordMaterialized(h)
    BY <2>2, <1>c DEF RecordMaterialized, Ledger, Ev, Cand, Notes
  <2>3. CASE StartChecks(h)
    BY <2>3, <1>c DEF StartChecks, Refuse, Ledger, Ev, Cand, Notes
  <2>4. CASE RunChecks(h) BY <2>4, <1>c DEF RunChecks, Ledger, Ev, Cand, Notes
  <2>5. CASE RecordVerdict(h)
    BY <2>5, <1>c DEF RecordVerdict, Ledger, Ev, Cand, Notes
  <2>6. CASE RecordPromotion(h)
    BY <2>6, <1>c DEF RecordPromotion, Ledger, Ev, Cand, Notes
  <2>7. CASE MeasureTrial(h)
    <3>1. PICK i \in Trials : i = host[h].trial
      BY <1>1, <2>7 DEF MeasureTrial, At, WorkerFinds, HostFits
    <3>2. \/ evidence' = evidence
          \/ evidence' = [evidence EXCEPT ![c] =
               [evidence[c] EXCEPT !.violation = evidence[c].violation \cup {i}]]
      BY <2>7, <3>1, <1>c DEF MeasureTrial, Ledger, Ev, Cand, Index
    <3> QED BY <3>2 DEF Notes
  <2> QED BY <2>1, <2>2, <2>3, <2>4, <2>5, <2>6, <2>7
<1> QED BY <1>2, NotesStay DEF TrialsStay, CheckIsKept

\* Every step leaves trials and reservations alone, but for four actions.
LEMMA StepsOfTrials ==
  ASSUME EvidenceInvariant, [EvidenceNext]_evidenceVars
  PROVE  \/ TrialsStay
         \/ \E h \in Hosts : \/ ReserveTrials(h) \/ StartTrial(h) \/ RunTrial(h)
                             \/ \E c \in Candidates : Settle(h, c)
<1>1. CASE UNCHANGED evidenceVars
  BY <1>1 DEF evidenceVars, TrialsStay, CheckIsKept
<1>2. CASE EvidenceNext
  <2>2. regime.cands \subseteq Candidates
    BY EvidenceAssumption DEF EvidenceInvariant, EvidenceShape
  <2>3. PICK h \in Hosts :
          \/ HostWork(h) \/ Raise(h) \/ CrashHost(h)
          \/ \E r \in Runs : OpenSearch(h, r) \/ ResumeSearch(h, r)
          \/ \E c \in Candidates, t \in regime.asks : CallOn(h, c, t)
          \/ \E c \in Candidates : Settle(h, c) \/ \E i \in Trials : Reconcile(h, c, i)
          \/ \E r \in Runs, c \in Candidates : StartSealed(h, r, c) \/ RequestFinalist(h, r, c)
    BY <1>2, <2>2 DEF EvidenceNext
  <2>4. ASSUME evidence' = evidence PROVE TrialsStay
    BY <2>4 DEF TrialsStay, CheckIsKept
  <2>5. CASE HostWork(h)
    <3>1. CASE AnchorSearch(h) \/ NextRound(h) \/ Propose(h) \/ AfterJudgement(h)
               \/ AfterComparison(h) \/ PinCommit(h) \/ FinishSealed(h)
               \/ LaunchChecks(h) \/ LaunchTrial(h) \/ LaunchSealed(h)
      BY <2>4, <3>1 DEF AnchorSearch, NextRound, Propose, AfterJudgement, AfterComparison,
                        PinCommit, FinishSealed, LaunchChecks, LaunchTrial, LaunchSealed, Refuse
    <3>2. CASE BindManifest(h) \/ RecordMaterialized(h) \/ StartChecks(h) \/ RunChecks(h)
               \/ RecordVerdict(h) \/ MeasureTrial(h) \/ RecordPromotion(h)
      BY <3>2, WorkerWrites
    <3>3. CASE ReserveTrials(h) \/ StartTrial(h) \/ RunTrial(h) BY <3>3
    <3> QED BY <2>5, <3>1, <3>2, <3>3 DEF HostWork
  <2>6. CASE Raise(h)
    <3>1. CASE host[h].at \in {"checking", "testing"}
      <4>1. WorkerFinds(h) BY <3>1, AtWork DEF WorkPlaces, CheckPlaces
      <4>2. PICK c \in Candidates : c = host[h].cand BY <4>1 DEF WorkerFinds
      <4>3. evidence' = [evidence EXCEPT ![c] = [evidence[c] EXCEPT !.check = "failed"]]
        BY <2>6, <3>1, <4>2 DEF Raise, Ledger, Ev, Cand
      <4>4. [evidence[c] EXCEPT !.check = "failed"] \in Notes(evidence[c])
        BY DEF Notes
      <4> QED BY <4>3, <4>4, NotesStay
    <3>2. CASE host[h].at \notin {"checking", "testing"}
      BY <2>4, <2>6, <3>2 DEF Raise
    <3> QED BY <3>1, <3>2
  <2>7. CASE CrashHost(h) \/ (\E r \in Runs : OpenSearch(h, r) \/ ResumeSearch(h, r))
             \/ (\E c \in Candidates, t \in regime.asks : CallOn(h, c, t))
             \/ (\E r \in Runs, c \in Candidates : StartSealed(h, r, c) \/ RequestFinalist(h, r, c))
    BY <2>4, <2>7 DEF CrashHost, OpenSearch, ResumeSearch, CallOn, StartSealed, RequestFinalist
  <2>8. ASSUME NEW c \in Candidates, NEW i \in Trials, Reconcile(h, c, i) PROVE TrialsStay
    BY <2>8, NotesStay DEF Reconcile, Ledger, Notes
  <2> QED BY <2>3, <2>5, <2>6, <2>7, <2>8
<1> QED BY <1>1, <1>2

\* What is written of a trial: that it was begun, or what it reports and has cost.
TrialIs(c, i, x) ==
  /\ x = begun => ~Violated
  /\ x # nobody /\ (x \in Results => x.cost \in {nobody, runs.paid[c][i]})

\* What a step of a trial does: it begins one that was not, or ends one.
LEMMA TrialMoves ==
  ASSUME EvidenceInvariant, NEW h \in Hosts, StartTrial(h) \/ RunTrial(h)
  PROVE  \/ TrialsStay
         \/ \E c \in Candidates, i \in Trials :
              /\ evidence[c].trial[i] \notin Results
              /\ TrialIs(c, i, evidence'[c].trial[i])
              /\ evidence' = [evidence EXCEPT ![c] =
                                [evidence[c] EXCEPT !.trial = evidence'[c].trial]]
              /\ \A j \in Trials \ {i} : evidence'[c].trial[j] = evidence[c].trial[j]
<1> USE EvidenceAssumption
<1>0. host[h].at \in TrialPlaces BY DEF StartTrial, RunTrial, At, TrialPlaces
<1>1. WorkerFinds(h) /\ Ev(h).trial \in [Trials -> {nobody, begun} \cup Results]
  BY <1>0, AtTrial
<1>c. PICK c \in Candidates : c = host[h].cand BY <1>1 DEF WorkerFinds
<1>2. CASE evidence' = evidence BY <1>2 DEF TrialsStay, CheckIsKept
<1>3. CASE evidence' # evidence
  <2>1. PICK i \in Trials : i = host[h].trial
    BY <1>1 DEF StartTrial, RunTrial, At, Index, WorkerFinds, HostFits
  <2>2. PICK x : /\ evidence' = [evidence EXCEPT ![c] = [evidence[c] EXCEPT !.trial[i] = x]]
                 /\ evidence[c].trial[i] \notin Results
                 /\ TrialIs(c, i, x)
    <3>1. CASE StartTrial(h)
      BY <1>3, <3>1, <1>c, <2>1 DEF StartTrial, Refuse, MayTry, Ledger, Ev, Cand, Index, TrialIs
    <3>2. CASE RunTrial(h)
      <4>1. evidence[c].trial[i] = begun
        BY <1>1, <1>c, <2>1, <3>2 DEF RunTrial, At, WorkerFinds, StageIsReached, Ev
      <4>2. PICK x \in Results :
              /\ evidence' = [evidence EXCEPT ![c] = [evidence[c] EXCEPT !.trial[i] = x]]
              /\ x.cost \in {nobody, runs.paid[c][i]}
        BY <1>c, <2>1, <3>2 DEF RunTrial, Ledger, Ev, Cand, Index
      <4> QED BY <4>1, <4>2 DEF TrialIs
    <3> QED BY <3>1, <3>2
  <2>3. PICK t : t = [evidence[c].trial EXCEPT ![i] = x] OBVIOUS
  <2>4. /\ evidence' = [evidence EXCEPT ![c] = [evidence[c] EXCEPT !.trial = t]]
        /\ evidence[c] \in Evidence /\ evidence \in [Candidates -> Evidence]
    BY <1>1, <1>c, <2>2, <2>3 DEF WorkerFinds, Ev
  <2>5. evidence'[c].trial = t BY <2>4 DEF Evidence
  <2>6. evidence[c].trial \in [Trials -> {nobody, begun} \cup Results]
    BY <2>4 DEF Evidence
  <2>7. t[i] = x /\ \A j \in Trials \ {i} : t[j] = evidence[c].trial[j]
    BY <2>3, <2>6
  <2>8. evidence' = [evidence EXCEPT ![c] =
                       [evidence[c] EXCEPT !.trial = evidence'[c].trial]]
    BY <2>4, <2>5
  <2>9. TrialIs(c, i, evidence'[c].trial[i]) BY <2>2, <2>5, <2>7
  <2>10. \A j \in Trials \ {i} : evidence'[c].trial[j] = evidence[c].trial[j]
    BY <2>5, <2>7
  <2> QED BY ZenonT(60), <2>2, <2>8, <2>9, <2>10
<1> QED BY <1>2, <1>3

\* A reservation is made within the budget, and once.
LEMMA ReserveMoves ==
  ASSUME EvidenceInvariant, NEW h \in Hosts, ReserveTrials(h)
  PROVE  \/ TrialsStay
         \/ \E c \in Candidates :
              /\ ~evidence[c].reserved /\ ~Violated /\ Fits
              /\ evidence' = [evidence EXCEPT ![c] = [evidence[c] EXCEPT !.reserved = TRUE]]
<1>0. host[h].at \in WorkPlaces
  BY DEF ReserveTrials, At, WorkPlaces, CheckPlaces
<1>1. WorkerFinds(h) BY <1>0, AtWork
<1>c. PICK c \in Candidates : c = host[h].cand BY <1>1 DEF WorkerFinds
<1>2. CASE evidence' = evidence BY <1>2 DEF TrialsStay, CheckIsKept
<1>3. CASE evidence' # evidence
  <2>1. /\ Admissible(h)
        /\ evidence' = [evidence EXCEPT ![c] = [evidence[c] EXCEPT !.reserved = TRUE]]
    BY <1>3, <1>c DEF ReserveTrials, Refuse, Ledger, Ev, Cand
  <2>2. evidence[c] \in Evidence BY <1>1, <1>c DEF WorkerFinds, Ev
  <2>3. CASE evidence[c].reserved
    <3>1. PICK e : e = [evidence[c] EXCEPT !.reserved = TRUE] OBVIOUS
    <3>2. /\ e.reserved = evidence[c].reserved /\ e.settled = evidence[c].settled
          /\ e.released = evidence[c].released /\ e.trial = evidence[c].trial
          /\ CheckIsKept(c, e)
      BY <2>2, <2>3, <3>1 DEF Evidence, CheckIsKept
    <3> QED BY <2>1, <3>1, <3>2, OneChanges
  <2>4. CASE ~evidence[c].reserved BY <2>1, <2>4, <1>c DEF Admissible, Ev
  <2> QED BY <2>3, <2>4
<1> QED BY <1>2, <1>3

-----------------------------------------------------------------------------
(* CandidateEvidence: the budget.                                          *)

\* A candidate keeps its settlement while its own receipts stay.
LEMMA SettlementStays ==
  ASSUME NEW c \in Candidates, SettlementHolds(c), evidence'[c].reserved = evidence[c].reserved,
         evidence'[c].settled = evidence[c].settled, evidence'[c].released = evidence[c].released,
         evidence[c].settled => evidence'[c].trial = evidence[c].trial
  PROVE  SettlementHolds(c)'
<1>1. evidence[c].settled => (Valid(evidence'[c]) <=> Valid(evidence[c]))
  BY DEF Valid
<1> QED BY <1>1 DEF SettlementHolds

\* As long as no reservation is made, or settled, the budget is what it was.
LEMMA BudgetStays ==
  ASSUME EvidenceInvariant, BudgetInvariant, UNCHANGED regime,
         \A c \in Candidates : /\ evidence'[c].reserved = evidence[c].reserved
                               /\ evidence'[c].settled = evidence[c].settled
                               /\ evidence'[c].released = evidence[c].released
                               /\ evidence[c].settled => evidence'[c].trial = evidence[c].trial
  PROVE  BudgetInvariant'
<1>1. (\A c \in Candidates : SettlementHolds(c))'
  BY SettlementStays DEF BudgetInvariant
<1>2. Reserved' = Reserved BY DEF Reserved
<1>3. Committed' = Committed
  <2>1. Weights(evidence') = Weights(evidence) BY DEF Weights
  <2>2. Weights(evidence) \in [Candidates -> Nat] BY WeightsAreNumbers
  <2>3. PICK F : IsTotal(F, Weights(evidence), Candidates)
    BY <2>2, TotalExists, EvidenceAssumption
  <2>4. HeldBy(evidence, Reserved) = F[Candidates]
    BY <2>2, <2>3, HeldIsTotalOfWeights DEF Reserved
  <2>5. HeldBy(evidence', Reserved') = F[Candidates]
    BY <2>1, <2>2, <2>3, HeldIsTotalOfWeights DEF Reserved
  <2> QED BY <2>4, <2>5, CommittedIsHeld, CommittedWillBeHeld
<1>4. Committed' <= regime'.budget /\ Cardinality(Reserved') * Pairs <= MaxPairs
  BY <1>2, <1>3 DEF BudgetInvariant
<1> QED BY <1>1, <1>4 DEF BudgetInvariant

\* When one candidate changes, what is committed changes as its weight does.
LEMMA CommittedMoves ==
  ASSUME EvidenceInvariant, BudgetInvariant, NEW c \in Candidates,
         \A d \in Candidates \ {c} : evidence'[d] = evidence[d],
         NEW m \in Nat, m = IF evidence'[c].reserved THEN PlanCost - evidence'[c].released ELSE 0
  PROVE  /\ Committed \in Nat /\ Committed' \in Nat /\ Weights(evidence)[c] \in Nat
         /\ Committed' + Weights(evidence)[c] = Committed + m
<1>1. PICK w, v : w = Weights(evidence) /\ v = Weights(evidence') OBVIOUS
<1>2. /\ w \in [Candidates -> Nat] /\ v[c] = m
      /\ \A d \in Candidates : d # c => v[d] = w[d]
  BY <1>1, WeightsAreNumbers DEF Weights
<1>3. v \in [Candidates -> Nat] BY <1>2, <1>1 DEF Weights
<1>f. IsFiniteSet(Candidates) BY EvidenceAssumption
<1>4. PICK F, G : IsTotal(F, w, Candidates) /\ IsTotal(G, v, Candidates)
  BY <1>2, <1>3, <1>f, TotalExists
<1>5. G[Candidates] + w[c] = F[Candidates] + v[c]
  BY <1>2, <1>4, <1>f, TotalChanges
<1>6. Committed = F[Candidates]
  BY <1>1, <1>2, <1>4, HeldIsTotalOfWeights, CommittedIsHeld DEF Reserved
<1>7. Committed' = G[Candidates]
  BY <1>1, <1>3, <1>4, HeldIsTotalOfWeights, CommittedWillBeHeld DEF Reserved
<1>8. F[Candidates] \in Nat /\ G[Candidates] \in Nat BY <1>4 DEF IsTotal
<1> QED BY <1>1, <1>2, <1>5, <1>6, <1>7, <1>8

\* The reserved candidates are counted.
LEMMA ReservedIsFinite == IsFiniteSet(Reserved) /\ Cardinality(Reserved) \in Nat
<1>1. Reserved \subseteq Candidates /\ IsFiniteSet(Candidates)
  BY EvidenceAssumption DEF Reserved
<1> QED BY <1>1, FS_Subset, FS_CardinalityType

\* A reservation keeps the budget.
LEMMA ReserveKeepsBudget ==
  ASSUME EvidenceInvariant, BudgetInvariant, UNCHANGED regime, NEW c \in Candidates,
         ~evidence[c].reserved, Fits,
         evidence' = [evidence EXCEPT ![c] = [evidence[c] EXCEPT !.reserved = TRUE]]
  PROVE  BudgetInvariant'
<1>1. PICK e : e = [evidence[c] EXCEPT !.reserved = TRUE] OBVIOUS
<1>2. evidence[c] \in Evidence /\ evidence \in [Candidates -> Evidence]
  BY DEF EvidenceInvariant, EvidenceShape
<1>3. /\ e.reserved /\ e.settled = evidence[c].settled
      /\ e.released = evidence[c].released /\ e.trial = evidence[c].trial
  BY <1>1, <1>2 DEF Evidence
<1>4. evidence'[c] = e /\ \A d \in Candidates \ {c} : evidence'[d] = evidence[d]
  BY <1>1, <1>2
<1>5. evidence[c].released = 0 /\ ~evidence[c].settled
  BY DEF BudgetInvariant, SettlementHolds
<1>6. ASSUME NEW d \in Candidates PROVE SettlementHolds(d)'
  <2>1. SettlementHolds(d) BY DEF BudgetInvariant
  <2>2. CASE d = c BY <1>3, <1>4, <1>5, <2>2 DEF SettlementHolds
  <2>3. CASE d # c BY <1>4, <2>1, <2>3, SettlementStays
  <2> QED BY <2>2, <2>3
<1>7. Committed' <= regime'.budget
  BY <1>3, <1>4, <1>5, PlanCostIsNumber, CommittedMoves DEF Weights, Fits
<1>8. Cardinality(Reserved') * Pairs <= MaxPairs
  <2>1. Reserved' = Reserved \cup {c} /\ c \notin Reserved
    BY <1>3, <1>4 DEF Reserved
  <2>2. Cardinality(Reserved') = Cardinality(Reserved) + 1
    BY <2>1, ReservedIsFinite, FS_AddElement
  <2> QED BY <2>2 DEF Fits
<1> QED BY <1>6, <1>7, <1>8 DEF BudgetInvariant

\* A settlement keeps the budget.
LEMMA SettleKeepsBudget ==
  ASSUME EvidenceInvariant, BudgetInvariant, UNCHANGED regime, NEW h \in Hosts,
         NEW c \in Candidates, Settle(h, c)
  PROVE  BudgetInvariant'
<1>0. /\ evidence[c].reserved /\ ~evidence[c].settled /\ Valid(evidence[c]) /\ Spent(c) <= PlanCost
  BY DEF Settle, Settleable
<1>1. PICK e : e = [evidence[c] EXCEPT !.settled = TRUE, !.released = PlanCost - Spent(c)]
  OBVIOUS
<1>2. evidence[c] \in Evidence /\ evidence \in [Candidates -> Evidence]
  BY DEF EvidenceInvariant, EvidenceShape
<1>3. /\ e.reserved = evidence[c].reserved /\ e.settled
      /\ e.released = PlanCost - Spent(c) /\ e.trial = evidence[c].trial
  BY <1>1, <1>2 DEF Evidence
<1>4. evidence'[c] = e /\ \A d \in Candidates \ {c} : evidence'[d] = evidence[d]
  BY <1>1, <1>2 DEF Settle, Ledger
<1>5. evidence[c].released = 0 BY <1>0 DEF BudgetInvariant, SettlementHolds
<1>6. Spent(c) = CostOf(evidence[c].trial) /\ Spent(c) \in Nat
  BY WeightsAreNumbers, SpentIsCost, CostOfIsNumber
<1>7. ASSUME NEW d \in Candidates PROVE SettlementHolds(d)'
  <2>1. SettlementHolds(d) BY DEF BudgetInvariant
  <2>2. CASE d = c BY <1>0, <1>3, <1>4, <1>6, <2>2 DEF Valid, SettlementHolds
  <2>3. CASE d # c BY <1>4, <2>1, <2>3, SettlementStays
  <2> QED BY <2>2, <2>3
<1>8. Committed' <= regime'.budget
  <2>1. Spent(c) = IF evidence'[c].reserved THEN PlanCost - evidence'[c].released ELSE 0
    <3>1. \A m, n \in Nat : m - (m - n) = n OBVIOUS
    <3>2. PlanCost - (PlanCost - Spent(c)) = Spent(c)
      BY <1>6, <3>1, PlanCostIsNumber
    <3>3. evidence'[c].reserved /\ evidence'[c].released = PlanCost - Spent(c)
      BY <1>0, <1>3, <1>4
    <3> QED BY <3>2, <3>3
  <2>2. /\ Committed \in Nat /\ Committed' \in Nat
        /\ Committed' + Weights(evidence)[c] = Committed + Spent(c)
    BY <1>4, <1>6, <2>1, CommittedMoves
  <2>3. Weights(evidence)[c] = PlanCost
    BY <1>0, <1>5, PlanCostIsNumber DEF Weights
  <2>4. Committed <= regime.budget /\ regime.budget \in Nat
    BY EvidenceAssumption DEF BudgetInvariant, EvidenceInvariant, EvidenceShape
  <2> QED BY <1>0, <1>6, <2>2, <2>3, <2>4, PlanCostIsNumber
<1>9. Cardinality(Reserved') * Pairs <= MaxPairs
  BY <1>3, <1>4 DEF Reserved, BudgetInvariant
<1> QED BY <1>7, <1>8, <1>9 DEF BudgetInvariant

\* A trial keeps the budget.
LEMMA TrialKeepsBudget ==
  ASSUME EvidenceInvariant, BudgetInvariant, UNCHANGED regime, NEW h \in Hosts,
         StartTrial(h) \/ RunTrial(h)
  PROVE  BudgetInvariant'
<1>1. CASE TrialsStay BY <1>1, BudgetStays DEF TrialsStay
<1>2. ASSUME NEW c \in Candidates, NEW i \in Trials, evidence[c].trial[i] \notin Results,
             evidence' = [evidence EXCEPT ![c] = [evidence[c] EXCEPT !.trial = evidence'[c].trial]]
      PROVE  BudgetInvariant'
  <2>1. ~evidence[c].settled BY <1>2 DEF BudgetInvariant, SettlementHolds, Valid
  <2>2. evidence[c] \in Evidence /\ evidence \in [Candidates -> Evidence]
    BY DEF EvidenceInvariant, EvidenceShape
  <2>3. PICK t : t = evidence'[c].trial OBVIOUS
  <2>4. PICK e : e = [evidence[c] EXCEPT !.trial = t] OBVIOUS
  <2>5. /\ e.reserved = evidence[c].reserved /\ e.settled = evidence[c].settled
        /\ e.released = evidence[c].released
    BY <2>2, <2>4 DEF Evidence
  <2>6. evidence'[c] = e /\ \A d \in Candidates \ {c} : evidence'[d] = evidence[d]
    BY <1>2, <2>2, <2>3, <2>4
  <2>7. \A d \in Candidates : /\ evidence'[d].reserved = evidence[d].reserved
                              /\ evidence'[d].settled = evidence[d].settled
                              /\ evidence'[d].released = evidence[d].released
                              /\ evidence[d].settled => evidence'[d].trial = evidence[d].trial
    BY <2>1, <2>5, <2>6
  <2> QED BY <2>7, BudgetStays
<1> QED BY <1>1, <1>2, TrialMoves

\* The budget is kept by every step.
LEMMA BudgetIsInductive ==
  ASSUME EvidenceInvariant, BudgetInvariant, [EvidenceNext]_evidenceVars
  PROVE  BudgetInvariant'
<1>0. UNCHANGED regime BY DEF EvidenceNext, evidenceVars
<1>1. CASE TrialsStay BY <1>0, <1>1, BudgetStays DEF TrialsStay
<1>2. ASSUME NEW h \in Hosts, ReserveTrials(h) PROVE BudgetInvariant'
  BY <1>0, <1>1, <1>2, ReserveMoves, ReserveKeepsBudget
<1>3. ASSUME NEW h \in Hosts, StartTrial(h) \/ RunTrial(h) PROVE BudgetInvariant'
  BY <1>0, <1>3, TrialKeepsBudget
<1>4. ASSUME NEW h \in Hosts, NEW c \in Candidates, Settle(h, c) PROVE BudgetInvariant'
  BY <1>0, <1>4, SettleKeepsBudget
<1> QED BY <1>1, <1>2, <1>3, <1>4, StepsOfTrials

\* Nothing is committed before anything was asked for.
LEMMA BudgetStarts == EvidenceInit => BudgetInvariant
<1> SUFFICES ASSUME EvidenceInit PROVE BudgetInvariant OBVIOUS
<1>1. \A c \in Candidates : ~evidence[c].reserved /\ ~evidence[c].settled /\ evidence[c].released = 0
  BY DEF EvidenceInit, NoEvidence, Judged
<1>2. Reserved = {} /\ IsFiniteSet(Candidates)
  BY <1>1, EvidenceAssumption DEF Reserved
<1>3. Committed = 0
  <2>1. PICK w : w = Weights(evidence) OBVIOUS
  <2>2. w \in [Candidates -> Nat] /\ \A c \in Candidates : w[c] = 0
    BY <1>1, <2>1 DEF Weights
  <2>3. PICK F : IsTotal(F, w, Candidates) BY <1>2, <2>2, TotalExists
  <2>4. HeldBy(evidence, Reserved) = F[Candidates]
    BY <2>1, <2>2, <2>3, HeldIsTotalOfWeights DEF Reserved
  <2>5. F[Candidates] = 0 * Cardinality(Candidates)
    BY <1>2, <2>2, <2>3, TotalOfEquals
  <2>6. Cardinality(Candidates) \in Nat BY <1>2, FS_CardinalityType
  <2> QED BY <2>4, <2>5, <2>6, CommittedIsHeld
<1>4. regime.budget \in Nat BY EvidenceAssumption DEF EvidenceInit
<1>5. Cardinality(Reserved) * Pairs <= MaxPairs
  BY <1>2, FS_EmptySet, EvidenceAssumption
<1> QED BY <1>1, <1>3, <1>4, <1>5 DEF BudgetInvariant, SettlementHolds

-----------------------------------------------------------------------------
(* CandidateEvidence: what is launched, how often, and what is paid for it. *)

\* What was never begun was never launched; what was launched has cost something
\* from then on, and a receipt with a price says what.
Counted(c) ==
  /\ runs.check[c] <= 1 /\ (evidence[c].check = "none" => runs.check[c] = 0)
  /\ \A i \in Trials :
       LET x == evidence[c].trial[i] IN
       /\ runs.trial[c][i] <= 1 /\ (x = nobody => runs.trial[c][i] = 0)
       /\ runs.trial[c][i] = 0 => runs.paid[c][i] = 0
       /\ x \in Results /\ x.cost # nobody => x.cost = runs.paid[c][i]
SealCounted(r) == runs.sealed[r] <= 1 /\ (sealed[r].status = "none" => runs.sealed[r] = 0)

\* A host that is about to launch something is the first to do so.
ToLaunch(h) ==
  /\ host[h].at = "checking" => runs.check[host[h].cand] = 0
  /\ host[h].at = "trying" => runs.trial[host[h].cand][host[h].trial] = 0
  /\ host[h].at = "sealing" => runs.sealed[host[h].run] = 0

\* The invariant of the launches.
LaunchInvariant ==
  /\ \A c \in Candidates : Counted(c)
  /\ \A r \in Runs : SealCounted(r)
  /\ \A h \in Hosts : ToLaunch(h)

\* A host comes to a launch only from what was not begun before.
Arrives(h) ==
  /\ host'[h].at = "checking" => evidence[host'[h].cand].check = "none"
  /\ host'[h].at = "trying" => evidence[host'[h].cand].trial[host'[h].trial] = nobody
  /\ host'[h].at = "sealing" => sealed[host'[h].run].status = "none"

\* A step that launches nothing: hosts stay or arrive, and a seal once begun stays so.
HostsArrive ==
  /\ runs' = runs
  /\ \A g \in Hosts : host'[g] = host[g] \/ Arrives(g)
  /\ \A r \in Runs : sealed'[r].status = "none" => sealed[r].status = "none"

\* Nothing is launched by a step that records, reads, refuses or fails.
LEMMA StepsArrive ==
  ASSUME EvidenceInvariant, EvidenceNext
  PROVE  \/ HostsArrive
         \/ \E h \in Hosts : LaunchChecks(h) \/ LaunchTrial(h) \/ LaunchSealed(h)
<1>0. /\ host \in [Hosts -> HostStates] /\ sealed \in [Runs -> SealedStates]
      /\ regime.cands \subseteq Candidates
  BY EvidenceAssumption DEF EvidenceInvariant, EvidenceShape
<1>1. PICK h \in Hosts :
        \/ HostWork(h) \/ Raise(h) \/ CrashHost(h)
        \/ \E r \in Runs : OpenSearch(h, r) \/ ResumeSearch(h, r)
        \/ \E c \in Candidates, t \in regime.asks : CallOn(h, c, t)
        \/ \E c \in Candidates : Settle(h, c) \/ \E i \in Trials : Reconcile(h, c, i)
        \/ \E r \in Runs, c \in Candidates : StartSealed(h, r, c) \/ RequestFinalist(h, r, c)
  BY <1>0 DEF EvidenceNext
<1>2. HostFits(h) /\ RunIsOurs(h) /\ host[h] \in HostStates
  BY <1>0 DEF EvidenceInvariant
<1>m. ASSUME NEW s, host' = [host EXCEPT ![h] = s],
             s.at \notin {"checking", "trying", "sealing"},
             runs' = runs, \A r \in Runs : sealed'[r].status = "none" => sealed[r].status = "none"
      PROVE  HostsArrive
  BY <1>0, <1>m DEF HostsArrive, Arrives
<1>a. ASSUME LeaveAll(h), runs' = runs, sealed' = sealed PROVE HostsArrive
  <2>1. Idle.at = "idle" BY DEF Idle
  <2> QED BY ONLY <1>a, <1>m, <2>1 DEF LeaveAll
<1>g. ASSUME NEW pc, Go(h, pc), pc \notin {"checking", "trying", "sealing"},
             runs' = runs, sealed' = sealed
      PROVE  HostsArrive
  <2>1. /\ host' = [host EXCEPT ![h] = [host[h] EXCEPT !.at = pc]]
        /\ [host[h] EXCEPT !.at = pc].at = pc
    BY <1>2, <1>g DEF Go, HostStates
  <2> QED BY ONLY <2>1, <1>g, <1>m
<1>b. ASSUME NEW pc \in {"judged", "compared"}, Back(h, pc), runs' = runs, sealed' = sealed
      PROVE  HostsArrive
  <2>1. CASE host[h].op = "search" BY <2>1, <1>b, <1>g DEF Back
  <2>2. CASE host[h].op # "search"
    <3>1. host' = [host EXCEPT ![h] = Idle] /\ Idle.at = "idle"
      BY <2>2, <1>b DEF Back, Idle
    <3> QED BY ONLY <3>1, <1>b, <1>m
  <2> QED BY <2>1, <2>2
<1>r. ASSUME Refuse(h) PROVE HostsArrive BY <1>a, <1>r DEF Refuse
<1>w. host[h].at \in WorkPlaces => host[h].cand \in Candidates
  BY <1>2 DEF HostFits
<1>3. CASE AnchorSearch(h) \/ NextRound(h)
  BY <1>3, <1>a, <1>g DEF AnchorSearch, NextRound
<1>4. CASE Propose(h)
  <2>1. ASSUME NEW c, host' = [host EXCEPT ![h].at = "materialize", ![h].cand = c,
                                          ![h].then = "evaluate"],
               runs' = runs, sealed' = sealed
        PROVE  HostsArrive
    BY <1>0, <1>2, <2>1 DEF HostsArrive, Arrives, HostStates
  <2> QED BY <1>4, <1>g, <2>1 DEF Propose
<1>5. CASE AfterJudgement(h) \/ AfterComparison(h)
  <2>1. ASSUME host' = [host EXCEPT ![h].at = "materialize", ![h].then = "reserve"],
               runs' = runs, sealed' = sealed
        PROVE  HostsArrive
    BY <1>0, <1>2, <2>1 DEF HostsArrive, Arrives, HostStates
  <2> QED BY <1>5, <1>r, <1>g, <2>1 DEF AfterJudgement, AfterComparison
<1>6. CASE BindManifest(h) \/ PinCommit(h) \/ RecordVerdict(h) \/ RecordPromotion(h)
  BY <1>6, <1>r, <1>g, <1>b DEF BindManifest, PinCommit, RecordVerdict, RecordPromotion
<1>7. CASE RecordMaterialized(h)
  <2>1. host[h].then \in {"evaluate", "reserve"}
    BY <1>2, <1>7 DEF RecordMaterialized, At, HostFits, WorkPlaces, CheckPlaces
  <2> QED BY <1>7, <1>g, <2>1 DEF RecordMaterialized
<1>8. CASE StartChecks(h)
  <2>1. ASSUME Go(h, "checking"), Ev(h).check = "none", runs' = runs, sealed' = sealed
        PROVE  HostsArrive
    BY <1>0, <1>2, <2>1 DEF HostsArrive, Arrives, HostStates, Go, Ev
  <2> QED BY <1>8, <1>r, <1>g, <2>1 DEF StartChecks, MayCheck
<1>9. CASE StartTrial(h)
  <2>1. ASSUME Go(h, "trying"), Ev(h).trial[Index(h)] = nobody, runs' = runs, sealed' = sealed
        PROVE  HostsArrive
    BY <1>0, <1>2, <2>1 DEF HostsArrive, Arrives, HostStates, Go, Ev, Index
  <2> QED BY <1>9, <1>r, <1>g, <2>1 DEF StartTrial, MayTry
<1>10. CASE RunChecks(h) \/ RunTrial(h)
  BY <1>10, <1>a, <1>g DEF RunChecks, RunTrial
<1>11. CASE ReserveTrials(h) \/ MeasureTrial(h)
  <2>1. ASSUME NEW i, host' = [host EXCEPT ![h].at = "trial", ![h].trial = i],
               runs' = runs, sealed' = sealed
        PROVE  HostsArrive
    BY <1>0, <1>2, <2>1 DEF HostsArrive, Arrives, HostStates
  <2>2. CASE ReserveTrials(h) BY <2>2, <1>r, <2>1 DEF ReserveTrials
  <2>3. CASE MeasureTrial(h) BY <2>3, <1>a, <2>1 DEF MeasureTrial
  <2> QED BY <1>11, <2>2, <2>3
<1>12. ASSUME host[h].op = "seal", NEW v \in {"passed", "rejected", "failed"}, LeaveAll(h),
              sealed' = [sealed EXCEPT ![host[h].run].status = v], runs' = runs
       PROVE  HostsArrive
  <2>1. sealed[host[h].run].status = "started" /\ Idle.at = "idle"
    BY <1>2, <1>12 DEF RunIsOurs, Idle
  <2>2. \A r \in Runs : sealed'[r].status = "none" => sealed[r].status = "none"
    BY <1>0, <1>12, <2>1
  <2> QED BY ONLY <1>12, <1>m, <2>1, <2>2 DEF LeaveAll
<1>13. CASE FinishSealed(h) BY <1>2, <1>12, <1>13 DEF FinishSealed, At, HostFits
<1>14. CASE Raise(h) BY <1>2, <1>a, <1>12, <1>14 DEF Raise, HostFits
<1>15. CASE CrashHost(h) BY <1>a, <1>15 DEF CrashHost
<1>16. ASSUME NEW s, host' = [host EXCEPT ![h] = s], runs' = runs, sealed' = sealed,
              s.at \in {"anchor", "round", "materialize"}
       PROVE  HostsArrive
  BY ONLY <1>m, <1>16
<1>17. ASSUME NEW r \in Runs, OpenSearch(h, r) \/ ResumeSearch(h, r) PROVE HostsArrive
  BY <1>16, <1>17 DEF OpenSearch, ResumeSearch, Idle
<1>18. ASSUME NEW c \in Candidates, NEW t, CallOn(h, c, t) PROVE HostsArrive
  BY <1>16, <1>18 DEF CallOn, Idle
<1>19. ASSUME NEW r \in Runs, NEW c \in Candidates, StartSealed(h, r, c) PROVE HostsArrive
  BY <1>0, <1>19 DEF StartSealed, MayBeSealed, HostsArrive, Arrives, Idle, SealedStates
<1>20. ASSUME UNCHANGED <<host, runs, sealed>> PROVE HostsArrive
  BY <1>20 DEF HostsArrive
<1>21. ASSUME NEW r \in Runs, NEW c \in Candidates, NEW i \in Trials,
              Settle(h, c) \/ Reconcile(h, c, i) \/ RequestFinalist(h, r, c)
       PROVE  HostsArrive
  BY <1>20, <1>21 DEF Settle, Reconcile, RequestFinalist
<1>22. CASE HostWork(h)
  BY <1>3, <1>4, <1>5, <1>6, <1>7, <1>8, <1>9, <1>10, <1>11, <1>13, <1>22 DEF HostWork
<1>23. ASSUME NEW c \in Candidates, Settle(h, c) PROVE HostsArrive
  BY <1>20, <1>23 DEF Settle
<1> HIDE DEF HostsArrive
<1> QED BY <1>1, <1>14, <1>15, <1>17, <1>18, <1>19, <1>20, <1>21, <1>22, <1>23
        DEF RequestFinalist, Reconcile

\* What the ledger says of a check or a trial is never taken back, and a receipt's
\* price is what was paid.
Grows(c) ==
  /\ CheckIsKept(c, evidence'[c])
  /\ \A i \in Trials :
       LET x == evidence'[c].trial[i] IN
       /\ x = nobody => evidence[c].trial[i] = nobody
       /\ x \in Results /\ x.cost # nobody => x.cost = runs.paid[c][i]

LEMMA LedgerGrows ==
  ASSUME EvidenceInvariant, LaunchInvariant, [EvidenceNext]_evidenceVars, NEW c \in Candidates
  PROVE  Grows(c)
<1>0. /\ evidence \in [Candidates -> Evidence] /\ Counted(c)
  BY DEF EvidenceInvariant, EvidenceShape, LaunchInvariant
<1>1. ASSUME evidence'[c].trial = evidence[c].trial, CheckIsKept(c, evidence'[c]) PROVE Grows(c)
  BY <1>0, <1>1 DEF Counted, Grows
<1>2. ASSUME TrialsStay PROVE Grows(c) BY <1>1, <1>2 DEF TrialsStay
<1>3. ASSUME NEW d \in Candidates, evidence'[d].check = evidence[d].check,
             evidence'[d].trial = evidence[d].trial,
             \A k \in Candidates \ {d} : evidence'[k] = evidence[k]
      PROVE  Grows(c)
  BY <1>1, <1>3 DEF CheckIsKept
<1>4. ASSUME NEW h \in Hosts, ReserveTrials(h) PROVE Grows(c)
  <2>1. ASSUME NEW d \in Candidates,
               evidence' = [evidence EXCEPT ![d] = [evidence[d] EXCEPT !.reserved = TRUE]]
        PROVE  Grows(c)
    <3>1. PICK e : e = [evidence[d] EXCEPT !.reserved = TRUE] OBVIOUS
    <3>2. e.check = evidence[d].check /\ e.trial = evidence[d].trial
      BY <1>0, <3>1 DEF Evidence
    <3>3. evidence'[d] = e /\ \A k \in Candidates \ {d} : evidence'[k] = evidence[k]
      BY <1>0, <2>1, <3>1
    <3> QED BY ONLY <1>3, <3>2, <3>3
  <2> QED BY <1>2, <1>4, <2>1, ReserveMoves
<1>5. ASSUME NEW h \in Hosts, NEW d \in Candidates, Settle(h, d) PROVE Grows(c)
  <2>1. PICK e : e = [evidence[d] EXCEPT !.settled = TRUE, !.released = PlanCost - Spent(d)]
    OBVIOUS
  <2>2. e.check = evidence[d].check /\ e.trial = evidence[d].trial
    BY <1>0, <2>1 DEF Evidence
  <2>3. evidence'[d] = e /\ \A k \in Candidates \ {d} : evidence'[k] = evidence[k]
    BY <1>0, <1>5, <2>1 DEF Settle, Ledger
  <2> QED BY ONLY <1>3, <2>2, <2>3
<1>6. ASSUME NEW h \in Hosts, StartTrial(h) \/ RunTrial(h) PROVE Grows(c)
  <2>1. ASSUME NEW d \in Candidates, NEW j \in Trials,
               TrialIs(d, j, evidence'[d].trial[j]),
               evidence' = [evidence EXCEPT ![d] = [evidence[d] EXCEPT !.trial = evidence'[d].trial]],
               \A k \in Trials \ {j} : evidence'[d].trial[k] = evidence[d].trial[k]
        PROVE  Grows(c)
    <3>1. PICK t : t = evidence'[d].trial OBVIOUS
    <3>2. PICK e : e = [evidence[d] EXCEPT !.trial = t] OBVIOUS
    <3>3. e.check = evidence[d].check BY <1>0, <3>2 DEF Evidence
    <3>4. evidence'[d] = e /\ \A k \in Candidates \ {d} : evidence'[k] = evidence[k]
      BY <1>0, <2>1, <3>1, <3>2
    <3>5. CASE d = c
      BY ONLY <1>0, <2>1, <3>3, <3>4, <3>5 DEF TrialIs, Counted, CheckIsKept, Grows
    <3>6. CASE d # c BY ONLY <1>1, <3>4, <3>6 DEF CheckIsKept
    <3> QED BY <3>5, <3>6
  <2> QED BY <1>2, <1>6, <2>1, TrialMoves
<1> QED BY ONLY <1>2, <1>4, <1>5, <1>6, StepsOfTrials, EvidenceInvariant, [EvidenceNext]_evidenceVars

\* While nothing is launched the counts stay right.
LEMMA CountsStay ==
  ASSUME EvidenceInvariant, LaunchInvariant, EvidenceInvariant', [EvidenceNext]_evidenceVars,
         HostsArrive
  PROVE  LaunchInvariant'
<1>0. runs' = runs BY DEF HostsArrive
<1>1. ASSUME NEW c \in Candidates PROVE Counted(c)'
  BY <1>0, LedgerGrows DEF LaunchInvariant, Counted, CheckIsKept, Grows
<1>2. ASSUME NEW r \in Runs PROVE SealCounted(r)'
  BY <1>0 DEF LaunchInvariant, SealCounted, HostsArrive
<1>3. ASSUME NEW h \in Hosts PROVE ToLaunch(h)'
  <2>1. CASE host'[h] = host[h] BY <1>0, <2>1 DEF LaunchInvariant, ToLaunch
  <2>2. CASE Arrives(h)
    <3>1. HostFits(h)' BY DEF EvidenceInvariant
    <3>2. /\ host'[h].at \in {"checking", "trying"} => host'[h].cand \in Candidates
          /\ host'[h].at = "trying" => host'[h].trial \in Trials
          /\ host'[h].at = "sealing" => host'[h].run \in Runs
      BY <3>1 DEF HostFits, WorkPlaces, CheckPlaces, TrialPlaces
    <3> QED BY ONLY <1>0, <2>2, <3>2, LaunchInvariant
            DEF Arrives, LaunchInvariant, ToLaunch, Counted, SealCounted
  <2> QED BY <2>1, <2>2 DEF HostsArrive
<1> QED BY <1>1, <1>2, <1>3 DEF LaunchInvariant

\* A launch is the first of what it launches.
LEMMA LaunchesAreFirst ==
  ASSUME EvidenceInvariant, LaunchInvariant, NEW h \in Hosts,
         LaunchChecks(h) \/ LaunchTrial(h) \/ LaunchSealed(h)
  PROVE  LaunchInvariant'
<1> USE EvidenceAssumption
<1>0. /\ HostFits(h) /\ LocksFit(h) /\ StageIsReached(h) /\ RunIsOurs(h) /\ ToLaunch(h)
      /\ runs \in RunCounts /\ host \in [Hosts -> HostStates] /\ host[h] \in HostStates
      /\ UNCHANGED <<evidence, sealed>>
  BY DEF EvidenceInvariant, EvidenceShape, LaunchInvariant, LaunchChecks, LaunchTrial,
         LaunchSealed
<1>1. \A g \in Hosts : LocksFit(g) /\ ToLaunch(g)
  BY DEF EvidenceInvariant, LaunchInvariant
<1>2. \A c \in Candidates : Counted(c) BY DEF LaunchInvariant
<1>3. \A r \in Runs : SealCounted(r) BY DEF LaunchInvariant
<1>t. /\ runs.check \in [Candidates -> Nat] /\ runs.sealed \in [Runs -> Nat]
      /\ runs.trial \in [Candidates -> [Trials -> Nat]]
      /\ runs.paid \in [Candidates -> [Trials -> Nat]]
  BY <1>0 DEF RunCounts
<1>h. ASSUME NEW pc, Go(h, pc), pc \in {"testing", "tried", "scoring"}
      PROVE  host'[h].at = pc /\ \A g \in Hosts \ {h} : host'[g] = host[g]
  BY <1>0, <1>h DEF Go, HostStates
<1>4. CASE LaunchChecks(h)
  <2>1. PICK c \in Candidates : c = host[h].cand
    BY <1>0, <1>4 DEF LaunchChecks, At, HostFits, WorkPlaces, CheckPlaces
  <2>2. /\ runs.check[c] = 0 /\ evidence[c].check = "started" /\ host[h].at = "checking"
        /\ host'[h].at = "testing" /\ \A g \in Hosts \ {h} : host'[g] = host[g]
    BY <1>0, <1>4, <1>h, <2>1 DEF LaunchChecks, At, ToLaunch, StageIsReached, Ev
  <2>3. PICK n : n = [runs.check EXCEPT ![c] = runs.check[c] + 1] OBVIOUS
  <2>4. runs' = [runs EXCEPT !.check = n]
    BY <1>4, <2>1, <2>3 DEF LaunchChecks, Cand
  <2>5. /\ runs'.check = n /\ runs'.trial = runs.trial /\ runs'.paid = runs.paid
        /\ runs'.sealed = runs.sealed
    BY <1>0, <2>4 DEF RunCounts
  <2>6. n[c] = 1 /\ \A d \in Candidates \ {c} : n[d] = runs.check[d]
    BY ONLY <1>t, <2>1, <2>2, <2>3
  <2>7. ASSUME NEW d \in Candidates PROVE Counted(d)'
    <3>1. CASE d = c
      BY ONLY <1>0, <1>2, <2>1, <2>2, <2>5, <2>6, <3>1 DEF Counted
    <3>2. CASE d # c BY ONLY <1>0, <1>2, <2>5, <2>6, <2>7, <3>2 DEF Counted
    <3> QED BY <3>1, <3>2
  <2>8. ASSUME NEW g \in Hosts PROVE ToLaunch(g)'
    <3>1. CASE g = h BY <2>2, <3>1 DEF ToLaunch
    <3>2. CASE g # h
      <4>1. host[g].at # "checking" BY <1>0, <1>1, <2>2, <3>2 DEF LocksFit
      <4> QED BY <1>1, <2>2, <2>5, <3>2, <4>1 DEF ToLaunch
    <3> QED BY <3>1, <3>2
  <2>9. \A r \in Runs : SealCounted(r)' BY <1>0, <1>3, <2>5 DEF SealCounted
  <2> QED BY <2>7, <2>8, <2>9 DEF LaunchInvariant
<1>5. CASE LaunchTrial(h)
  <2>1. PICK c \in Candidates, i \in Trials : c = host[h].cand /\ i = host[h].trial
    BY <1>0, <1>5 DEF LaunchTrial, At, HostFits, WorkPlaces, TrialPlaces
  <2>2. /\ runs.trial[c][i] = 0 /\ evidence[c].trial[i] = begun /\ host[h].at = "trying"
        /\ host'[h].at = "tried" /\ \A g \in Hosts \ {h} : host'[g] = host[g]
    BY <1>0, <1>5, <1>h, <2>1 DEF LaunchTrial, At, ToLaunch, StageIsReached, Ev
  <2>3. PICK price : runs' = [runs EXCEPT !.trial[c][i] = @ + 1, !.paid[c][i] = @ + price]
    BY <1>5, <2>1 DEF LaunchTrial, Cand, Index
  <2>4. PICK n, m : /\ n = [runs.trial EXCEPT ![c] = [runs.trial[c] EXCEPT ![i] = runs.trial[c][i] + 1]]
                    /\ m = [runs.paid EXCEPT ![c] = [runs.paid[c] EXCEPT ![i] = runs.paid[c][i] + price]]
    OBVIOUS
  <2>5. runs' = [runs EXCEPT !.trial = n, !.paid = m] BY <2>3, <2>4
  <2>6. /\ runs'.check = runs.check /\ runs'.trial = n /\ runs'.paid = m
        /\ runs'.sealed = runs.sealed
    BY <1>0, <2>5 DEF RunCounts
  <2>7. /\ n[c][i] = 1
        /\ \A j \in Trials \ {i} : n[c][j] = runs.trial[c][j] /\ m[c][j] = runs.paid[c][j]
        /\ \A d \in Candidates \ {c} : n[d] = runs.trial[d] /\ m[d] = runs.paid[d]
    BY <1>t, <2>2, <2>4
  <2>8. begun # nobody /\ begun \notin Results OBVIOUS
  <2>9. ASSUME NEW d \in Candidates PROVE Counted(d)'
    <3>1. CASE d = c
      BY ONLY <1>0, <1>2, <2>2, <2>6, <2>7, <2>8, <3>1 DEF Counted
    <3>2. CASE d # c BY ONLY <1>0, <1>2, <2>6, <2>7, <2>9, <3>2 DEF Counted
    <3> QED BY <3>1, <3>2
  <2>10. ASSUME NEW g \in Hosts PROVE ToLaunch(g)'
    <3>1. CASE g = h BY <2>2, <3>1 DEF ToLaunch
    <3>2. CASE g # h
      <4>1. host[g].at # "trying"
        BY <1>0, <1>1, <2>2, <3>2 DEF LocksFit, TrialPlaces
      <4> QED BY <1>1, <2>2, <2>6, <3>2, <4>1 DEF ToLaunch
    <3> QED BY <3>1, <3>2
  <2>11. \A r \in Runs : SealCounted(r)' BY <1>0, <1>3, <2>6 DEF SealCounted
  <2> QED BY <2>9, <2>10, <2>11 DEF LaunchInvariant
<1>6. CASE LaunchSealed(h)
  <2>1. PICK r \in Runs : r = host[h].run
    BY <1>0, <1>6 DEF LaunchSealed, At, HostFits
  <2>2. /\ runs.sealed[r] = 0 /\ sealed[r].status = "started" /\ host[h].at = "sealing"
        /\ host'[h].at = "scoring" /\ \A g \in Hosts \ {h} : host'[g] = host[g]
    BY <1>0, <1>6, <1>h, <2>1 DEF LaunchSealed, At, ToLaunch, HostFits, RunIsOurs
  <2>3. PICK n : n = [runs.sealed EXCEPT ![r] = runs.sealed[r] + 1] OBVIOUS
  <2>4. runs' = [runs EXCEPT !.sealed = n] BY <1>6, <2>1, <2>3 DEF LaunchSealed
  <2>5. /\ runs'.check = runs.check /\ runs'.trial = runs.trial /\ runs'.paid = runs.paid
        /\ runs'.sealed = n
    BY <1>0, <2>4 DEF RunCounts
  <2>6. n[r] = 1 /\ \A q \in Runs \ {r} : n[q] = runs.sealed[q]
    BY <1>t, <2>2, <2>3
  <2>7. \A d \in Candidates : Counted(d)' BY <1>0, <1>2, <2>5 DEF Counted
  <2>8. ASSUME NEW g \in Hosts PROVE ToLaunch(g)'
    <3>1. CASE g = h BY <2>2, <3>1 DEF ToLaunch
    <3>2. CASE g # h
      <4>1. HostFits(g) BY DEF EvidenceInvariant
      <4>2. host[g].at # "sealing"
        BY <1>0, <1>1, <2>2, <3>2, <4>1 DEF LocksFit, HostFits
      <4> QED BY <1>1, <2>2, <2>5, <3>2, <4>2 DEF ToLaunch
    <3> QED BY <3>1, <3>2
  <2>9. \A q \in Runs : SealCounted(q)'
    BY <1>0, <1>3, <2>2, <2>5, <2>6 DEF SealCounted
  <2> QED BY <2>7, <2>8, <2>9 DEF LaunchInvariant
<1> QED BY <1>4, <1>5, <1>6

\* Every step keeps the invariant of the launches.
LEMMA LaunchIsInductive ==
  ASSUME EvidenceInvariant, LaunchInvariant, EvidenceInvariant', [EvidenceNext]_evidenceVars
  PROVE  LaunchInvariant'
<1>1. CASE UNCHANGED evidenceVars
  <2>1. HostsArrive BY <1>1 DEF HostsArrive, evidenceVars
  <2> QED BY <2>1, CountsStay
<1>2. CASE EvidenceNext BY <1>2, StepsArrive, CountsStay, LaunchesAreFirst
<1> QED BY <1>1, <1>2

\* Before anything was asked for only the candidates that were judged were checked.
LEMMA LaunchStarts == EvidenceInit => LaunchInvariant
<1> SUFFICES ASSUME EvidenceInit PROVE LaunchInvariant OBVIOUS
<1> USE EvidenceAssumption DEF EvidenceInit
<1>1. ASSUME NEW c \in Candidates PROVE Counted(c)
  <2>1. /\ evidence[c] = Judged \/ evidence[c] = NoEvidence
        /\ evidence[c] = NoEvidence => c \notin pinned
        /\ evidence[c].check = "none" => evidence[c] = NoEvidence
    BY DEF Judged, NoEvidence
  <2>2. \A i \in Trials : evidence[c].trial[i] = nobody
    BY <2>1 DEF Judged, NoEvidence
  <2> QED BY <2>1, <2>2 DEF Counted
<1>2. \A r \in Runs : SealCounted(r) BY DEF SealCounted
<1>3. \A h \in Hosts : ToLaunch(h) BY DEF ToLaunch, Idle
<1> QED BY <1>1, <1>2, <1>3 DEF LaunchInvariant

\* The invariants give what the run checks of repetition.
LEMMA OnceFollows ==
  ASSUME EvidenceInvariant, LaunchInvariant
  PROVE  NothingRunsTwice
<1>1. ASSUME NEW c \in Candidates
      PROVE  \A i \in evidence[c].reconciled, d \in Candidates \ {c} :
               Control(i) => i \notin evidence[d].reconciled
  BY DEF EvidenceInvariant, EvidenceShape, Evidence, ReconciledOnce
<1> QED BY <1>1 DEF NothingRunsTwice, LaunchInvariant, Counted, SealCounted

\* The invariants give what the run checks of the budget.
LEMMA BudgetFollows ==
  ASSUME EvidenceInvariant, BudgetInvariant, LaunchInvariant
  PROVE  BudgetHolds
<1>1. PICK w, v, u : /\ w = [c \in Candidates |-> Paid(c)] /\ v = Weights(evidence)
                     /\ u = [c \in Candidates |-> Excess(c)]
  OBVIOUS
<1>2. /\ v \in [Candidates -> Nat]
      /\ \A c \in Candidates : evidence[c].trial \in [Trials -> TrialStates]
  BY <1>1, WeightsAreNumbers
<1>3. ASSUME NEW c \in Candidates
      PROVE  /\ w[c] = Paid(c) /\ u[c] = Excess(c) /\ w[c] \in Nat /\ v[c] \in Nat /\ u[c] \in Nat
             /\ w[c] <= v[c] + u[c]
  <2>1. w[c] = Paid(c) /\ u[c] = Excess(c) /\ v[c] \in Nat BY <1>1, <1>2
  <2>0. runs.paid[c] \in [Trials -> Nat]
    BY DEF EvidenceInvariant, EvidenceShape, RunCounts
  <2>2. Paid(c) \in Nat /\ Excess(c) \in Nat /\ Paid(c) <= PlanCost + Excess(c)
    BY <2>0, PaidWithinPlan
  <2>3. GatesHold(c) /\ SettlementHolds(c) /\ Counted(c)
    BY DEF EvidenceInvariant, BudgetInvariant, LaunchInvariant
  <2>4. v[c] = IF evidence[c].reserved THEN PlanCost - evidence[c].released ELSE 0
    BY <1>1 DEF Weights
  <2>5. CASE ~evidence[c].reserved
    <3>1. \A i \in Trials : evidence[c].trial[i] = nobody
      BY <2>3, <2>5 DEF GatesHold
    <3>2. \A i \in Trials : runs.paid[c][i] = Cost(evidence[c].trial[i])
      BY <2>3, <3>1, EvidenceAssumption DEF Counted, Cost
    <3>3. Paid(c) = 0 BY <1>2, <2>0, <3>1, <3>2, CostOfIsNumber, PaidIsCost
    <3> QED BY <2>1, <2>2, <3>3
  <2>6. CASE evidence[c].reserved /\ evidence[c].settled
    <3>1. Valid(evidence[c]) BY <2>3, <2>6 DEF SettlementHolds
    <3>2. \A i \in Trials : runs.paid[c][i] = Cost(evidence[c].trial[i])
      BY <2>3, <3>1 DEF Counted, Cost, Valid
    <3>3. Paid(c) = CostOf(evidence[c].trial) BY <2>0, <3>2, PaidIsCost
    <3> QED BY <2>3, <2>6, <2>1, <2>2, <2>4, <3>3, PlanCostIsNumber DEF SettlementHolds
  <2>7. CASE evidence[c].reserved /\ ~evidence[c].settled
    BY <2>3, <2>7, <2>1, <2>2, <2>4, PlanCostIsNumber DEF SettlementHolds
  <2> QED BY <2>5, <2>6, <2>7
<1>4. w \in [Candidates -> Nat] /\ u \in [Candidates -> Nat] BY <1>1, <1>3
<1>f. IsFiniteSet(Candidates) BY EvidenceAssumption
<1>5. PICK F, G, H : /\ IsTotal(F, w, Candidates) /\ IsTotal(G, v, Candidates)
                     /\ IsTotal(H, u, Candidates)
  BY <1>2, <1>4, <1>f, TotalExists
<1>6. F[Candidates] <= G[Candidates] + H[Candidates]
  BY <1>3, <1>5, <1>f, TotalsCompare
<1>7. F[Candidates] \in Nat /\ G[Candidates] \in Nat /\ H[Candidates] \in Nat
  BY <1>5 DEF IsTotal
<1>8. MapThenSumSet(Paid, Candidates) = F[Candidates] BY <1>3, <1>5, PaidIsTotal
<1>9. MapThenSumSet(Excess, Candidates) = H[Candidates]
  BY <1>3, <1>5, ExcessesAreTotal
<1>10. Committed = G[Candidates]
  BY <1>1, <1>2, <1>5, HeldIsTotalOfWeights, CommittedIsHeld DEF Reserved
<1>11. /\ Committed <= regime.budget /\ Cardinality(Reserved) * Pairs <= MaxPairs
       /\ regime.budget \in Nat
  BY EvidenceAssumption DEF BudgetInvariant, EvidenceInvariant, EvidenceShape
<1>12. F[Candidates] <= regime.budget + H[Candidates]
  BY <1>6, <1>7, <1>10, <1>11
<1> HIDE DEF MapThenSumSet
<1> QED BY <1>8, <1>9, <1>11, <1>12 DEF BudgetHolds

-----------------------------------------------------------------------------
(* CandidateEvidence: what never changes again, and the theorems.          *)

\* A finished search and an ended validation stay as they are.
RunStays(r) ==
  /\ search[r].status = "finished" => search'[r] = search[r]
  /\ sealed[r].status \in {"passed", "rejected", "failed"} => sealed'[r] = sealed[r]

\* A host writes only the run that it works on, and that is not finished.
LEMMA OwnSearchMoves ==
  ASSUME EvidenceInvariant, NEW h \in Hosts, NEW r \in Runs, sealed' = sealed,
         \/ search' = search
         \/ /\ host[h].op = "search"
            /\ \E x : search' = [search EXCEPT ![host[h].run] = x]
  PROVE  RunStays(r)
<1>1. CASE search' = search BY <1>1 DEF RunStays
<1>2. ASSUME host[h].op = "search", NEW x, search' = [search EXCEPT ![host[h].run] = x]
      PROVE  RunStays(r)
  BY <1>2 DEF EvidenceInvariant, EvidenceShape, RunIsOurs, RunStays
<1> QED BY <1>1, <1>2

\* A host that blocks its search writes no other.
LEMMA BlockedMoves ==
  ASSUME NEW h \in Hosts, Blocked(h)
  PROVE  \/ search' = search
         \/ /\ host[h].op = "search"
            /\ \E x : search' = [search EXCEPT ![host[h].run] = x]
<1>1. CASE host[h].op = "search" /\ search[host[h].run].status = "running"
  BY <1>1 DEF Blocked
<1>2. CASE ~(host[h].op = "search" /\ search[host[h].run].status = "running")
  BY <1>2 DEF Blocked
<1> QED BY <1>1, <1>2

\* The sealed validation of a run is written by the host that began it.
LEMMA OwnSealMoves ==
  ASSUME EvidenceInvariant, NEW h \in Hosts, NEW r \in Runs, search' = search,
         host[h].at \in {"sealing", "scoring"}, NEW v, sealed' = [sealed EXCEPT ![host[h].run].status = v]
  PROVE  RunStays(r)
<1>1. sealed[host[h].run].status = "started" /\ sealed \in [Runs -> SealedStates]
  BY DEF EvidenceInvariant, EvidenceShape, RunIsOurs, HostFits
<1>2. sealed' = [sealed EXCEPT ![host[h].run] = [sealed[host[h].run] EXCEPT !.status = v]]
  OBVIOUS
<1> QED BY <1>1, <1>2 DEF RunStays

\* A host at work leaves every run that has ended.
LEMMA WorkerLeavesRuns ==
  ASSUME EvidenceInvariant, NEW h \in Hosts, NEW r \in Runs, HostWork(h)
  PROVE  RunStays(r)
<1> DEFINE Mine == \/ search' = search
                   \/ /\ host[h].op = "search"
                      /\ \E x : search' = [search EXCEPT ![host[h].run] = x]
<1>0. HostFits(h) BY DEF EvidenceInvariant
<1>r. Refuse(h) => Mine /\ sealed' = sealed BY BlockedMoves DEF Refuse
<1>s. (\E st, rows : Save(host[h].run, st, rows)) =>
        \E x : search' = [search EXCEPT ![host[h].run] = x]
  BY DEF Save
<1>1. CASE AnchorSearch(h) \/ NextRound(h) \/ Propose(h) \/ AfterJudgement(h) \/ AfterComparison(h)
  <2>1. host[h].op = "search"
    BY <1>0, <1>1 DEF AnchorSearch, NextRound, Propose, AfterJudgement, AfterComparison, At,
                      HostFits, SearchPlaces
  <2>2. CASE AnchorSearch(h) \/ NextRound(h)
    BY <1>s, <2>1, <2>2, OwnSearchMoves DEF AnchorSearch, NextRound
  <2>3. CASE Propose(h) BY <1>s, <2>1, <2>3, OwnSearchMoves DEF Propose
  <2>4. CASE AfterJudgement(h)
    BY <1>r, <1>s, <2>1, <2>4, OwnSearchMoves DEF AfterJudgement
  <2>5. CASE AfterComparison(h)
    BY <1>r, <1>s, <2>1, <2>5, OwnSearchMoves DEF AfterComparison
  <2> QED BY <1>1, <2>2, <2>3, <2>4, <2>5
<1>2. CASE BindManifest(h) \/ PinCommit(h) \/ RecordMaterialized(h) \/ StartChecks(h)
  BY <1>r, <1>2, OwnSearchMoves DEF BindManifest, PinCommit, RecordMaterialized, StartChecks
<1>3. CASE RunChecks(h) \/ RecordVerdict(h) \/ ReserveTrials(h)
  BY <1>r, <1>3, BlockedMoves, OwnSearchMoves DEF RunChecks, RecordVerdict, ReserveTrials
<1>4. CASE StartTrial(h) \/ RunTrial(h) \/ MeasureTrial(h) \/ RecordPromotion(h)
  BY <1>r, <1>4, BlockedMoves, OwnSearchMoves DEF StartTrial, RunTrial, MeasureTrial,
     RecordPromotion
<1>5. CASE FinishSealed(h)
  <2>1. PICK v : sealed' = [sealed EXCEPT ![host[h].run].status = v]
    BY <1>5 DEF FinishSealed
  <2> QED BY <1>5, <2>1, OwnSealMoves DEF FinishSealed, At
<1>6. CASE LaunchChecks(h) \/ LaunchTrial(h) \/ LaunchSealed(h)
  BY <1>6, OwnSearchMoves DEF LaunchChecks, LaunchTrial, LaunchSealed
<1> QED BY <1>1, <1>2, <1>3, <1>4, <1>5, <1>6 DEF HostWork

\* So does every step.
LEMMA RunsStay ==
  ASSUME EvidenceInvariant, EvidenceNext, NEW r \in Runs
  PROVE  RunStays(r)
<1>1. PICK h \in Hosts :
        \/ HostWork(h) \/ Raise(h) \/ CrashHost(h)
        \/ \E q \in Runs : OpenSearch(h, q) \/ ResumeSearch(h, q)
        \/ \E c \in regime.cands, t \in regime.asks : CallOn(h, c, t)
        \/ \E c \in regime.cands : Settle(h, c) \/ \E i \in Trials : Reconcile(h, c, i)
        \/ \E q \in Runs, c \in Candidates : StartSealed(h, q, c) \/ RequestFinalist(h, q, c)
  BY DEF EvidenceNext
<1>0. search \in [Runs -> SearchStates] /\ sealed \in [Runs -> SealedStates]
  BY DEF EvidenceInvariant, EvidenceShape
<1>2. CASE HostWork(h) BY <1>2, WorkerLeavesRuns
<1>3. CASE Raise(h)
  <2>1. CASE host[h].at \in {"sealing", "scoring"}
    BY <1>3, <2>1, OwnSealMoves DEF Raise, Blocked, EvidenceInvariant, HostFits
  <2>2. CASE host[h].at \notin {"sealing", "scoring"}
    BY <1>3, <2>2, BlockedMoves, OwnSearchMoves DEF Raise
  <2> QED BY <2>1, <2>2
<1>4. CASE CrashHost(h) \/ (\E c \in regime.cands, t \in regime.asks : CallOn(h, c, t))
           \/ (\E c \in regime.cands : Settle(h, c) \/ \E i \in Trials : Reconcile(h, c, i))
           \/ (\E q \in Runs, c \in Candidates : RequestFinalist(h, q, c))
  BY <1>4 DEF CrashHost, CallOn, Settle, Reconcile, RequestFinalist, RunStays
<1>5. ASSUME NEW q \in Runs, OpenSearch(h, q) \/ ResumeSearch(h, q) PROVE RunStays(r)
  <2>1. sealed' = sealed /\ search[q].status # "finished"
    BY <1>5 DEF OpenSearch, ResumeSearch
  <2>2. \E x : search' = [search EXCEPT ![q] = x]
    <3>1. CASE OpenSearch(h, q) BY <3>1 DEF OpenSearch
    <3>2. CASE ResumeSearch(h, q) BY <3>2 DEF ResumeSearch, Save
    <3> QED BY <1>5, <3>1, <3>2
  <2>3. search[r].status = "finished" => search'[r] = search[r]
    BY <1>0, <2>1, <2>2
  <2> QED BY <2>1, <2>3 DEF RunStays
<1>6. ASSUME NEW q \in Runs, NEW c \in Candidates, StartSealed(h, q, c) PROVE RunStays(r)
  BY <1>6, <1>0 DEF StartSealed, MayBeSealed, RunStays
<1> QED BY <1>1, <1>2, <1>3, <1>4, <1>5, <1>6

\* The step of LatchesHold.
LatchStep ==
  /\ Violated =>
       \A c \in Candidates :
         /\ evidence'[c].reserved = evidence[c].reserved
         /\ \A i \in Trials : evidence'[c].trial[i] = begun => evidence[c].trial[i] = begun
  /\ \A r \in Runs :
       /\ search[r].status = "finished" => search'[r] = search[r]
       /\ sealed[r].status \in {"passed", "rejected", "failed"} => sealed'[r] = sealed[r]

\* Every step of the evidence is a step of the latches.
LEMMA StepsLatch ==
  ASSUME EvidenceInvariant, EvidenceNext
  PROVE  LatchStep
<1> DEFINE Shut == \A c \in Candidates :
                     /\ evidence'[c].reserved = evidence[c].reserved
                     /\ \A i \in Trials : evidence'[c].trial[i] = begun => evidence[c].trial[i] = begun
<1>0. evidence \in [Candidates -> Evidence]
  BY DEF EvidenceInvariant, EvidenceShape
<1>1. ASSUME TrialsStay PROVE Shut BY <1>1 DEF TrialsStay
<1>2. ASSUME NEW h \in Hosts, ReserveTrials(h) PROVE Violated => Shut
  BY <1>1, <1>2, ReserveMoves
<1>3. ASSUME NEW h \in Hosts, StartTrial(h) \/ RunTrial(h) PROVE Violated => Shut
  <2>1. ASSUME NEW c \in Candidates, NEW i \in Trials,
               TrialIs(c, i, evidence'[c].trial[i]),
               evidence' = [evidence EXCEPT ![c] = [evidence[c] EXCEPT !.trial = evidence'[c].trial]],
               \A j \in Trials \ {i} : evidence'[c].trial[j] = evidence[c].trial[j],
               Violated
        PROVE  Shut
    <3>1. PICK t : t = evidence'[c].trial OBVIOUS
    <3>2. PICK e : e = [evidence[c] EXCEPT !.trial = t] OBVIOUS
    <3>3. e.reserved = evidence[c].reserved BY <1>0, <3>2 DEF Evidence
    <3>4. evidence'[c] = e /\ \A d \in Candidates \ {c} : evidence'[d] = evidence[d]
      BY <1>0, <2>1, <3>1, <3>2
    <3> QED BY <2>1, <3>3, <3>4 DEF TrialIs
  <2> QED BY <1>1, <1>3, <2>1, TrialMoves
<1>4. ASSUME NEW h \in Hosts, NEW c \in Candidates, Settle(h, c) PROVE Shut
  <2>1. PICK e : e = [evidence[c] EXCEPT !.settled = TRUE, !.released = PlanCost - Spent(c)]
    OBVIOUS
  <2>2. e.reserved = evidence[c].reserved /\ e.trial = evidence[c].trial
    BY <1>0, <2>1 DEF Evidence
  <2>3. evidence'[c] = e /\ \A d \in Candidates \ {c} : evidence'[d] = evidence[d]
    BY <1>0, <1>4, <2>1 DEF Settle, Ledger
  <2> QED BY <2>2, <2>3
<1>5. Violated => Shut
  <2> HIDE DEF Shut
  <2> QED BY <1>1, <1>2, <1>3, <1>4, StepsOfTrials
<1>6. \A r \in Runs : RunStays(r) BY RunsStay
<1> QED BY <1>5, <1>6 DEF LatchStep, RunStays

\* The behaviours of the evidence.
EvidenceBehaves == EvidenceInit /\ [][EvidenceNext]_evidenceVars

\* For any hosts, candidates, runs and prices: what a promotion rests on, what
\* the budget has committed and what was launched are the same in every state
\* (repository.py, promotion.py, coordinator.py, budget.py).
AllEvidence == EvidenceInvariant /\ BudgetInvariant /\ LaunchInvariant
THEOREM EvidenceAlwaysHolds == EvidenceBehaves => []AllEvidence
<1>1. EvidenceInit => AllEvidence
  BY EvidenceStarts, BudgetStarts, LaunchStarts DEF AllEvidence
<1>2. AllEvidence /\ [EvidenceNext]_evidenceVars => AllEvidence'
  BY EvidenceInvariantIsInductive, BudgetIsInductive, LaunchIsInductive DEF AllEvidence
<1> QED BY <1>1, <1>2, PTL DEF EvidenceBehaves

\* Once a trial is recorded as over its limit no host reserves and none begins a
\* trial, wherever it was when that trial was recorded; a finished search and an
\* ended sealed validation are never written again (budget.py, search.py, sealed.py).
THEOREM LatchesStayShut == EvidenceBehaves => LatchesHold
<1>1. AllEvidence /\ [EvidenceNext]_evidenceVars => [LatchStep]_evidenceVars
  BY StepsLatch DEF AllEvidence
<1>2. EvidenceBehaves => [][LatchStep]_evidenceVars
  BY <1>1, EvidenceAlwaysHolds, PTL DEF EvidenceBehaves
<1> QED BY <1>2 DEF LatchesHold, LatchStep

\* A candidate is promoted only on evidence that was gathered in order; no check,
\* trial or sealed validation is launched twice, and what all launches have cost
\* stays within the budget, those included whose host crashed or raised before
\* the receipt; and every trial is accounted for, whatever its worker writes.
THEOREM ExperimentsStaySound == Spec => []ExperimentsAreSound
<1> DEFINE Invariants == AllEvidence /\ GatewayInvariant
<1>1. Init => Invariants
  BY EvidenceStarts, BudgetStarts, LaunchStarts, GatewayStarts DEF Init, AllEvidence
<1>2. Invariants /\ [Next]_vars => Invariants'
  BY EvidenceInvariantIsInductive, BudgetIsInductive, LaunchIsInductive, GatewayKeeps,
     GatewayStutters DEF Next, vars, AllEvidence
<1>3. Invariants => ExperimentsAreSound
  BY SoundnessFollows, OnceFollows, BudgetFollows, TrialFollows
  DEF EvidenceHolds, ExperimentsAreSound, AllEvidence
<1> QED BY <1>1, <1>2, <1>3, PTL DEF Spec
=============================================================================
