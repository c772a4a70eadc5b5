---------------------------- MODULE JournalProofs ----------------------------
(***************************************************************************)
(* Proofs about TurnJournal, for any processes, turns, numbers of events   *)
(* and of starts.  The inductive invariant has four layers: Shape (types,  *)
(* which commit a process may be in, who holds a lock), Story (what the    *)
(* log, the snapshot and an answer say of each other), Looked (what a      *)
(* recovery has settled so far) and Calmness (why nothing is refused when  *)
(* one process at a time uses the directory and writes do not fail).       *)
(***************************************************************************)
EXTENDS TurnJournal, QueueLemmas

-----------------------------------------------------------------------------
(* Layer 1.                                                                *)

Busy(p) == op[p].at # "none"

(* What a turn's life lets its runtime record, and the state that a        *)
(* snapshot takes from each event.                                         *)
MayRecord(l, e) ==
  \/ l = "new" /\ e = "accepted"
  \/ l = "accepted" /\ e \in {"started", "merged", "cancelled"}
  \/ l = "running" /\ e \in Terminal \cup {"text"}
  \/ l = "settling" /\ e \in Terminal
  \/ l = "left" /\ e = "text"

StateOf(e) == IF e = "text" THEN "none"
              ELSE IF e \in {"started", "merged"} THEN "running" ELSE e

RuntimeOp(p) ==
  /\ op[p].by = "runtime" /\ process[p] = "serving" /\ owner[op[p].turn] = p
  /\ MayRecord(life[op[p].turn], op[p].event)
  /\ op[p].seq = sequence[op[p].turn]
  /\ op[p].state = StateOf(op[p].event)
  /\ op[p].at = "replace" => op[p].event # "text"

RecoveryOp(p) ==
  /\ op[p].by = "recovery" /\ process[p] = "recovering"
  /\ op[p].turn \in listed[p] \ todo[p]
  /\ op[p].at # "lock" => owner[op[p].turn] # Nobody
  /\ op[p].at = "append" => op[p].event = "failed" /\ op[p].state = "failed"

OpKnown(p) ==
  /\ todo[p] \subseteq listed[p]
  /\ Busy(p) => RuntimeOp(p) \/ RecoveryOp(p)

Holds(p, t) == op[p].at \in {"append", "replace"} /\ op[p].turn = t

LocksHeld == \A t \in Turns : \A p \in Processes : lock[t] = p <=> Holds(p, t)

OwnerKnown(t) ==
  /\ owner[t] = Nobody => life[t] = "new" /\ sequence[t] = 0 /\ log[t] = <<>>
  /\ owner[t] # Nobody => sequence[t] > 0
  /\ owner[t] # Nobody /\ life[t] = "new" => Busy(owner[t]) /\ op[owner[t]].turn = t
  /\ owner[t] # Nobody /\ process[owner[t]] # "serving" => life[t] = "ended"

Shape == /\ TypeOK /\ LocksHeld
         /\ \A p \in Processes : OpKnown(p)
         /\ \A t \in Turns : OwnerKnown(t)

LEMMA OpFields ==
  ASSUME TypeOK, NEW p \in Processes, Busy(p)
  PROVE  /\ op[p] \in Ops /\ op[p].at \in {"lock", "append", "replace"}
         /\ op[p].by \in {"runtime", "recovery"} /\ op[p].turn \in Turns
         /\ op[p].event \in Kinds \cup {"none"} /\ op[p].seq \in Nat
         /\ op[p].state \in Kinds \cup {"none", "running"}
         /\ p # Nobody /\ NoOp.at = "none"
<1>1. op[p] \in Ops \cup {NoOp} /\ op[p] # NoOp
  BY DEF TypeOK, Busy, NoOp
<1>2. op[p] \in Ops
  BY <1>1
<1> QED
  BY <1>2, NobodyAssumption DEF Ops, NoOp

(* What a step of process p leaves alone.                                  *)
OthersStay(p) ==
  /\ \A q \in Processes \ {p} : /\ op'[q] = op[q] /\ process'[q] = process[q]
                                /\ listed'[q] = listed[q] /\ todo'[q] = todo[q]
  /\ \A t \in Turns : owner[t] # Nobody => owner'[t] = owner[t]
  /\ \A t \in Turns : owner[t] \notin {p, Nobody} =>
       life'[t] = life[t] /\ sequence'[t] = sequence[t]

LEMMA OthersKeepOps ==
  ASSUME Shape, NEW p \in Processes, OthersStay(p), NEW q \in Processes \ {p}
  PROVE  OpKnown(q)'
<1> SUFFICES ASSUME Busy(q)'
             PROVE  RuntimeOp(q)' \/ RecoveryOp(q)'
  BY DEF OpKnown, Shape, OthersStay
<1>1. op'[q] = op[q] /\ Busy(q)
  BY DEF OthersStay, Busy
<1>2. RuntimeOp(q) \/ RecoveryOp(q)
  BY <1>1 DEF Shape, OpKnown
<1>3. op[q].turn \in Turns /\ q # Nobody
  BY <1>1, OpFields DEF Shape
<1>4. CASE RuntimeOp(q)
  BY <1>1, <1>3, <1>4 DEF RuntimeOp, OthersStay
<1>5. CASE RecoveryOp(q)
  BY <1>1, <1>3, <1>5 DEF RecoveryOp, OthersStay
<1> QED
  BY <1>2, <1>4, <1>5

LEMMA OthersKeepOwners ==
  ASSUME Shape, NEW p \in Processes, OthersStay(p), NEW t \in Turns,
         owner[t] \notin {p, Nobody}
  PROVE  OwnerKnown(t)'
<1>1. owner[t] \in Processes \ {p} /\ Nobody \notin Processes
  BY NobodyAssumption DEF Shape, TypeOK
<1>2. OwnerKnown(t)
  BY DEF Shape
<1> QED
  BY <1>1, <1>2 DEF OwnerKnown, OthersStay, Busy

LEMMA ShapeIf ==
  ASSUME Shape, NEW p \in Processes, OthersStay(p), TypeOK', LocksHeld', OpKnown(p)',
         \A t \in Turns : owner[t] \in {p, Nobody} => OwnerKnown(t)'
  PROVE  Shape'
<1>1. \A q \in Processes : OpKnown(q)'
  BY OthersKeepOps
<1>2. \A t \in Turns : OwnerKnown(t)'
  BY OthersKeepOwners
<1> QED
  BY <1>1, <1>2 DEF Shape

LEMMA MovedOp ==
  ASSUME NEW o \in Ops, NEW a \in {"lock", "append", "replace"}
  PROVE  /\ [o EXCEPT !.at = a] \in Ops
         /\ [o EXCEPT !.at = a].at = a /\ [o EXCEPT !.at = a].by = o.by
         /\ [o EXCEPT !.at = a].turn = o.turn /\ [o EXCEPT !.at = a].event = o.event
         /\ [o EXCEPT !.at = a].seq = o.seq /\ [o EXCEPT !.at = a].state = o.state
  BY DEF Ops

LEMMA LockStep ==
  ASSUME Shape, UNCHANGED calm, NEW p \in Processes, TakeLock(p)
  PROVE  Shape' /\ op' = [op EXCEPT ![p] = [op[p] EXCEPT !.at = "append"]]
<1> DEFINE t == op[p].turn
<1>1. Busy(p) /\ op[p].at = "lock" /\ op[p].by = "runtime"
  BY DEF TakeLock, Busy
<1>2. op[p] \in Ops /\ t \in Turns /\ p # Nobody /\ TypeOK
  BY <1>1, OpFields DEF Shape
<1>3. op' = [op EXCEPT ![p] = [op[p] EXCEPT !.at = "append"]]
  BY DEF TakeLock
<1>4. op'[p] \in Ops /\ op'[p].at = "append" /\ op'[p].by = "runtime"
      /\ op'[p].turn = t /\ op'[p].event = op[p].event /\ op'[p].seq = op[p].seq
      /\ op'[p].state = op[p].state
  BY ZenonT(60), <1>1, <1>2, <1>3, MovedOp DEF TypeOK
<1>5. \A q \in Processes \ {p} : op'[q] = op[q]
  BY <1>2, <1>3 DEF TypeOK
<1>6. TypeOK'
  BY <1>2, <1>3, <1>4, <1>5 DEF TypeOK, TakeLock, disk
<1>7. OthersStay(p)
  BY <1>5 DEF OthersStay, TakeLock, disk
<1>8. LocksHeld'
  <2> SUFFICES ASSUME NEW u \in Turns, NEW q \in Processes
               PROVE  lock'[u] = q <=> Holds(q, u)'
    BY DEF LocksHeld
  <2>1. lock' = [lock EXCEPT ![t] = p] /\ lock[t] = Nobody
    BY DEF TakeLock
  <2>2. lock[u] = q <=> Holds(q, u)
    BY DEF Shape, LocksHeld
  <2>3. q # Nobody
    BY NobodyAssumption
  <2>4. CASE q = p
    BY <1>1, <1>2, <1>4, <2>1, <2>2, <2>4 DEF Holds, TypeOK
  <2>5. CASE q # p
    BY <1>1, <1>2, <1>5, <2>1, <2>2, <2>3, <2>5 DEF Holds, TypeOK
  <2> QED
    BY <2>4, <2>5
<1>9. OpKnown(p)'
  BY <1>1, <1>4 DEF Shape, OpKnown, RecoveryOp, RuntimeOp, TakeLock, disk
<1>10. \A u \in Turns : OwnerKnown(u)'
  <2> SUFFICES ASSUME NEW u \in Turns
               PROVE  OwnerKnown(u)'
    OBVIOUS
  <2>1. OwnerKnown(u)
    BY DEF Shape
  <2>2. owner' = owner /\ life' = life /\ sequence' = sequence /\ process' = process
        /\ log' = log
    BY DEF TakeLock, disk
  <2>3. \A q \in Processes : Busy(q)' = Busy(q) /\ op'[q].turn = op[q].turn
    BY <1>1, <1>4, <1>5 DEF Busy
  <2>4. owner[u] \in Processes \cup {Nobody}
    BY <1>2 DEF TypeOK
  <2> QED
    BY <2>1, <2>2, <2>3, <2>4 DEF OwnerKnown
<1> QED
  BY <1>3, <1>6, <1>7, <1>8, <1>9, <1>10, ShapeIf

(* Where a commit leaves the turn of a runtime, and what the caller gets.  *)
LEMMA CommittedLife ==
  ASSUME TypeOK, NEW p \in Processes, Busy(p), RuntimeOp(p), Committed(p),
         NEW t, t = op[p].turn, NEW e, e = op[p].event
  PROVE  /\ life' \in [Turns -> Lives] /\ answer' \in [Turns -> Terminal \cup {"none", "raised"}]
         /\ \A u \in Turns : u # t => life'[u] = life[u] /\ answer'[u] = answer[u]
         /\ e = "accepted" => life'[t] = "accepted"
         /\ e = "started" => life'[t] = "running"
         /\ e = "merged" => life'[t] = "settling"
         /\ e = "text" => life'[t] = life[t]
         /\ e \in Terminal => life'[t] \in {"left", "ended"} /\ answer'[t] = e
         /\ e \notin Terminal => answer'[t] = answer[t]
         /\ UNCHANGED <<process, todo>>
<1> DEFINE l == life[t]
           n == CASE e \in {"accepted", "text"} -> IF l = "new" THEN "accepted" ELSE l
                  [] e = "started" -> "running"
                  [] e = "merged"  -> "settling"
                  [] OTHER -> IF e = "cancelled" /\ l = "running" THEN "left" ELSE "ended"
<1>1. t \in Turns /\ e \in Kinds \cup {"none"} /\ op[p].by = "runtime"
  BY OpFields DEF RuntimeOp
<1>2. life' = [life EXCEPT ![t] = n]
      /\ answer' = [answer EXCEPT ![t] = IF e \in Terminal THEN e ELSE @]
      /\ UNCHANGED <<process, todo>>
  BY <1>1 DEF Committed
<1>3. MayRecord(l, e) /\ l \in Lives
  BY <1>1 DEF RuntimeOp, TypeOK
<1>4. /\ e = "accepted" => n = "accepted"
      /\ e = "started" => n = "running"
      /\ e = "merged" => n = "settling"
      /\ e = "text" => n = l
      /\ e \in Terminal => n \in {"left", "ended"}
      /\ n \in Lives
  BY <1>3 DEF MayRecord, Terminal, Lives
<1> HIDE DEF n
<1>5. life' \in [Turns -> Lives] /\ life'[t] = n
      /\ \A u \in Turns : u # t => life'[u] = life[u]
  BY <1>1, <1>2, <1>4 DEF TypeOK
<1>6. answer' \in [Turns -> Terminal \cup {"none", "raised"}]
      /\ answer'[t] = (IF e \in Terminal THEN e ELSE answer[t])
      /\ \A u \in Turns : u # t => answer'[u] = answer[u]
  BY <1>1, <1>2 DEF TypeOK
<1> QED
  BY <1>2, <1>4, <1>5, <1>6

LEMMA RaisedLife ==
  ASSUME TypeOK, NEW p \in Processes, Busy(p), RuntimeOp(p), Raised(p),
         NEW t, t = op[p].turn, NEW e, e = op[p].event
  PROVE  /\ life' \in [Turns -> Lives] /\ answer' \in [Turns -> Terminal \cup {"none", "raised"}]
         /\ \A u \in Turns : u # t => life'[u] = life[u] /\ answer'[u] = answer[u]
         /\ e = "accepted" => life'[t] = "refused"
         /\ e = "text" => life'[t] = life[t]
         /\ e \notin {"accepted", "text"} => life'[t] \in {"left", "ended"}
         /\ life'[t] = "left" => life[t] \in {"left", "running"}
         /\ answer'[t] \in {answer[t], "raised"}
         /\ e = "text" => answer'[t] = answer[t]
         /\ UNCHANGED <<process, todo>>
<1> DEFINE l == life[t]
           n == CASE e = "accepted" -> "refused"
                  [] e = "text" -> l
                  [] OTHER -> IF e = "cancelled" /\ l = "running" THEN "left" ELSE "ended"
<1>1. t \in Turns /\ e \in Kinds \cup {"none"} /\ op[p].by = "runtime"
  BY OpFields DEF RuntimeOp
<1>2. life' = [life EXCEPT ![t] = n]
      /\ answer' = [answer EXCEPT ![t] = IF e \in {"accepted", "text"} THEN @ ELSE "raised"]
      /\ UNCHANGED <<process, todo>>
  BY <1>1 DEF Raised
<1>3. MayRecord(l, e) /\ l \in Lives
  BY <1>1 DEF RuntimeOp, TypeOK
<1>4. /\ e = "accepted" => n = "refused"
      /\ e = "text" => n = l
      /\ e \notin {"accepted", "text"} => n \in {"left", "ended"}
      /\ n = "left" => l \in {"left", "running"}
      /\ n \in Lives
  BY <1>3 DEF MayRecord, Terminal, Lives
<1> HIDE DEF n
<1>5. life' \in [Turns -> Lives] /\ life'[t] = n
      /\ \A u \in Turns : u # t => life'[u] = life[u]
  BY <1>1, <1>2, <1>4 DEF TypeOK
<1>6. answer' \in [Turns -> Terminal \cup {"none", "raised"}]
      /\ answer'[t] = (IF e \in {"accepted", "text"} THEN answer[t] ELSE "raised")
      /\ \A u \in Turns : u # t => answer'[u] = answer[u]
  BY <1>1, <1>2 DEF TypeOK
<1> QED
  BY <1>2, <1>4, <1>5, <1>6

LEMMA RecoveryResult ==
  ASSUME TypeOK, NEW p \in Processes, op[p].by = "recovery", Committed(p) \/ Raised(p)
  PROVE  /\ UNCHANGED <<life, answer>>
         /\ process' \in [Processes -> {"down", "recovering", "serving"}]
         /\ todo' \in [Processes -> SUBSET Turns]
         /\ \A q \in Processes \ {p} : process'[q] = process[q] /\ todo'[q] = todo[q]
         /\ \/ Committed(p) /\ UNCHANGED <<process, todo>>
            \/ Raised(p) /\ process'[p] = "down" /\ todo'[p] = {}
<1>1. CASE Committed(p)
  BY <1>1 DEF Committed, TypeOK
<1>2. CASE Raised(p)
  BY <1>2 DEF Raised, TypeOK
<1> QED
  BY <1>1, <1>2

(* Whatever a commit came to, it ends with its process idle.               *)
LEMMA EndedCommit ==
  ASSUME Shape, UNCHANGED calm, NEW p \in Processes, Busy(p), op[p].at # "lock",
         Committed(p) \/ Raised(p), Release(p),
         UNCHANGED <<listed, owner, sequence, starts>>,
         log' \in [Turns -> Seq(Kinds)], torn' \in SUBSET Turns,
         snap' \in [Turns -> Terminal \cup {"none", "accepted", "running"}],
         \A u \in Turns : u # op[p].turn => log'[u] = log[u]
  PROVE  /\ Shape' /\ op'[p] = NoOp /\ ~Busy(p)'
         /\ \A q \in Processes \ {p} : op'[q] = op[q] /\ process'[q] = process[q]
                                       /\ todo'[q] = todo[q]
<1> DEFINE t == op[p].turn
<1>1. op[p] \in Ops /\ t \in Turns /\ p # Nobody /\ TypeOK /\ NoOp.at = "none"
      /\ op[p].at \in {"append", "replace"}
  BY OpFields DEF Shape
<1>2. op' = [op EXCEPT ![p] = NoOp] /\ lock' = [lock EXCEPT ![t] = Nobody]
  BY DEF Release
<1>3. op' \in [Processes -> Ops \cup {NoOp}] /\ op'[p] = NoOp
      /\ \A q \in Processes \ {p} : op'[q] = op[q]
  BY <1>1, <1>2 DEF TypeOK
<1>4. lock' \in [Turns -> Processes \cup {Nobody}]
  BY <1>1, <1>2 DEF TypeOK
<1>5. RuntimeOp(p) \/ RecoveryOp(p)
  BY DEF Shape, OpKnown
<1>6. owner[t] # Nobody
  BY <1>1, <1>5 DEF RuntimeOp, RecoveryOp
<1>7. ~Busy(p)' /\ OpKnown(p)'
  <2>1. todo'[p] \subseteq todo[p]
    <3>1. CASE op[p].by = "recovery"
      BY <1>1, <3>1, RecoveryResult DEF TypeOK
    <3>2. CASE op[p].by # "recovery"
      BY <3>2 DEF Committed, Raised
    <3> QED
      BY <3>1, <3>2
  <2>2. todo[p] \subseteq listed[p]
    BY DEF Shape, OpKnown
  <2> QED
    BY <1>1, <1>3, <2>1, <2>2 DEF Busy, OpKnown
<1>8. LocksHeld'
  <2> SUFFICES ASSUME NEW u \in Turns, NEW q \in Processes
               PROVE  lock'[u] = q <=> Holds(q, u)'
    BY DEF LocksHeld
  <2>1. /\ lock[u] = q <=> Holds(q, u)
        /\ lock[u] = p <=> Holds(p, u)
    BY DEF Shape, LocksHeld
  <2>2. q # Nobody
    BY NobodyAssumption
  <2>3. CASE q = p
    BY <1>1, <1>2, <1>3, <2>1, <2>3 DEF Holds, TypeOK
  <2>4. CASE q # p
    BY <1>1, <1>2, <1>3, <2>1, <2>2, <2>4 DEF Holds, TypeOK
  <2> QED
    BY <2>3, <2>4
<1>9. CASE RuntimeOp(p)
  <2> DEFINE e == op[p].event
  <2>1. MayRecord(life[t], e) /\ owner[t] = p /\ process[p] = "serving"
    BY <1>9 DEF RuntimeOp
  <2>2. /\ life' \in [Turns -> Lives] /\ answer' \in [Turns -> Terminal \cup {"none", "raised"}]
        /\ \A u \in Turns : u # t => life'[u] = life[u]
        /\ life'[t] # "new" /\ UNCHANGED <<process, todo>>
    <3>1. CASE Committed(p)
      BY <1>1, <1>9, <2>1, <3>1, CommittedLife DEF MayRecord, Terminal
    <3>2. CASE Raised(p)
      BY <1>1, <1>9, <2>1, <3>2, RaisedLife DEF MayRecord
    <3> QED
      BY <3>1, <3>2
  <2>3. TypeOK'
    BY <1>1, <1>3, <1>4, <2>2 DEF TypeOK
  <2>4. OthersStay(p)
    BY <1>3, <2>1, <2>2 DEF OthersStay
  <2>5. \A u \in Turns : owner[u] \in {p, Nobody} => OwnerKnown(u)'
    <3> SUFFICES ASSUME NEW u \in Turns, owner[u] \in {p, Nobody}
                 PROVE  OwnerKnown(u)'
      OBVIOUS
    <3>1. OwnerKnown(u)
      BY DEF Shape
    <3>2. CASE u = t
      BY <1>1, <1>6, <2>1, <2>2, <3>1, <3>2 DEF OwnerKnown
    <3>3. CASE u # t
      BY <1>1, <2>1, <2>2, <3>1, <3>3 DEF OwnerKnown, Busy
    <3> QED
      BY <3>2, <3>3
  <2> QED
    BY <1>3, <1>7, <1>8, <2>2, <2>3, <2>4, <2>5, ShapeIf
<1>10. CASE RecoveryOp(p)
  <2>1. op[p].by = "recovery" /\ process[p] = "recovering"
    BY <1>10 DEF RecoveryOp
  <2>2. /\ UNCHANGED <<life, answer>>
        /\ process' \in [Processes -> {"down", "recovering", "serving"}]
        /\ todo' \in [Processes -> SUBSET Turns]
        /\ \A q \in Processes \ {p} : process'[q] = process[q] /\ todo'[q] = todo[q]
        /\ process'[p] # "serving"
    BY <1>1, <2>1, RecoveryResult
  <2>3. TypeOK'
    BY <1>1, <1>3, <1>4, <2>2 DEF TypeOK
  <2>4. OthersStay(p)
    BY <1>3, <2>2 DEF OthersStay
  <2>5. \A u \in Turns : owner[u] \in {p, Nobody} => OwnerKnown(u)'
    <3> SUFFICES ASSUME NEW u \in Turns, owner[u] \in {p, Nobody}
                 PROVE  OwnerKnown(u)'
      OBVIOUS
    <3>1. OwnerKnown(u)
      BY DEF Shape
    <3>2. CASE owner[u] = p
      BY <1>1, <2>1, <2>2, <3>1, <3>2 DEF OwnerKnown
    <3>3. CASE owner[u] = Nobody
      BY <1>6, <2>2, <3>1, <3>3 DEF OwnerKnown
    <3> QED
      BY <3>2, <3>3
  <2> QED
    BY <1>3, <1>7, <1>8, <2>2, <2>3, <2>4, <2>5, ShapeIf
<1> QED
  BY <1>5, <1>9, <1>10

LEMMA ReadStep ==
  ASSUME Shape, UNCHANGED calm, NEW p \in Processes, RecoverRead(p),
         NEW t, t = op[p].turn
  PROVE  /\ Shape' /\ t \in Turns /\ Busy(p) /\ RecoveryOp(p)
         /\ op'[p] = IF log[t] = <<>> THEN NoOp
                     ELSE IF Ended(log[t]) THEN Restoring(t) ELSE Failing(t)
         /\ \A q \in Processes \ {p} : op'[q] = op[q]
         /\ log[t] # <<>> => owner[t] # Nobody
<1>1. Busy(p) /\ op[p].at = "lock" /\ op[p].by = "recovery" /\ lock[t] = Nobody
  BY DEF RecoverRead, Busy
<1>2. op[p] \in Ops /\ t \in Turns /\ p # Nobody /\ TypeOK /\ NoOp.at = "none"
  BY <1>1, OpFields DEF Shape
<1>3. RecoveryOp(p)
  BY <1>1 DEF Shape, OpKnown, RuntimeOp
<1> DEFINE o == IF log[t] = <<>> THEN NoOp
                ELSE IF Ended(log[t]) THEN Restoring(t) ELSE Failing(t)
<1>4. op' = [op EXCEPT ![p] = o]
      /\ (log[t] = <<>> => lock' = lock)
      /\ (log[t] # <<>> => lock' = [lock EXCEPT ![t] = p])
  BY DEF RecoverRead
<1>5. /\ log[t] \in Seq(Kinds) /\ Len(log[t]) + 1 \in Nat
      /\ Ended(log[t]) => Fate(t) \in Kinds
  <2>1. log[t] \in Seq(Kinds)
    BY <1>2 DEF TypeOK
  <2>2. ASSUME Ended(log[t]) PROVE Last(log[t]) \in Kinds
    BY <2>1, <2>2 DEF Ended, Last
  <2> QED
    BY <2>1, <2>2 DEF Fate
<1>6. log[t] # <<>> /\ Ended(log[t]) => Restoring(t) \in Ops
  BY <1>2, <1>5 DEF Restoring, Ops
<1>7. log[t] # <<>> => Failing(t) \in Ops
  BY <1>2, <1>5 DEF Failing, Ops, Kinds, Terminal
<1>8. o \in Ops \cup {NoOp} /\ o.at \in {"none", "append", "replace"}
      /\ (log[t] = <<>> => o.at = "none")
      /\ (log[t] # <<>> => o.at # "none" /\ o.turn = t /\ o.by = "recovery"
                           /\ (o.at = "append" => o.event = "failed" /\ o.state = "failed"))
  BY <1>6, <1>7 DEF Restoring, Failing, NoOp
<1> HIDE DEF o
<1>9. op' \in [Processes -> Ops \cup {NoOp}] /\ op'[p] = o
      /\ \A q \in Processes \ {p} : op'[q] = op[q]
  BY <1>2, <1>4, <1>8 DEF TypeOK
<1>10. UNCHANGED <<log, snap, process, listed, todo, owner, life, sequence, answer,
                   starts>>
       /\ torn' = torn \ {t}
  BY DEF RecoverRead
<1>11. TypeOK'
  <2>1. lock' \in [Turns -> Processes \cup {Nobody}]
    BY <1>2, <1>4 DEF TypeOK
  <2> QED
    BY <1>2, <1>9, <1>10, <2>1 DEF TypeOK
<1>12. OthersStay(p)
  BY <1>9, <1>10 DEF OthersStay
<1>13. LocksHeld'
  <2> SUFFICES ASSUME NEW u \in Turns, NEW q \in Processes
               PROVE  lock'[u] = q <=> Holds(q, u)'
    BY DEF LocksHeld
  <2>1. lock[u] = q <=> Holds(q, u)
    BY DEF Shape, LocksHeld
  <2>2. q # Nobody
    BY NobodyAssumption
  <2>3. CASE q = p
    BY <1>1, <1>2, <1>4, <1>8, <1>9, <2>1, <2>3 DEF Holds, TypeOK
  <2>4. CASE q # p
    BY <1>1, <1>2, <1>4, <1>9, <2>1, <2>2, <2>4 DEF Holds, TypeOK
  <2> QED
    BY <2>3, <2>4
<1>14. log[t] # <<>> => owner[t] # Nobody
  BY <1>2 DEF Shape, OwnerKnown
<1>15. OpKnown(p)'
  BY <1>3, <1>8, <1>9, <1>10, <1>14 DEF Shape, OpKnown, Busy, RecoveryOp
<1>16. \A u \in Turns : owner[u] \in {p, Nobody} => OwnerKnown(u)'
  <2> SUFFICES ASSUME NEW u \in Turns, owner[u] \in {p, Nobody}
               PROVE  OwnerKnown(u)'
    OBVIOUS
  <2>1. OwnerKnown(u) /\ process[p] = "recovering"
    BY <1>3 DEF Shape, RecoveryOp
  <2> QED
    BY <1>2, <1>10, <2>1 DEF OwnerKnown
<1> QED
  BY <1>1, <1>2, <1>3, <1>9, <1>11, <1>12, <1>13, <1>14, <1>15, <1>16, ShapeIf DEF o

(* An event that also changes the snapshot: the lock is kept for it.       *)
LEMMA HalfCommit ==
  ASSUME Shape, UNCHANGED calm, NEW p \in Processes, AppendEvent(p),
         op[p].state # "none", NEW t, t = op[p].turn
  PROVE  /\ Shape' /\ op'[p] = [op[p] EXCEPT !.at = "replace"]
         /\ \A q \in Processes \ {p} : op'[q] = op[q]
         /\ log' = [log EXCEPT ![t] = Append(log[t], op[p].event)]
         /\ log' \in [Turns -> Seq(Kinds)]
         /\ UNCHANGED <<lock, process, todo, life, answer, snap, listed, owner, sequence,
                        starts>>
<1>1. Busy(p) /\ op[p].at = "append"
  BY DEF AppendEvent, Busy
<1>2. op[p] \in Ops /\ t \in Turns /\ p # Nobody /\ TypeOK
  BY <1>1, OpFields DEF Shape
<1>3. RuntimeOp(p) \/ RecoveryOp(p)
  BY <1>1 DEF Shape, OpKnown
<1>4. op[p].event \in Kinds
  BY <1>1, <1>3 DEF RuntimeOp, RecoveryOp, MayRecord, Kinds, Terminal
<1>5. op' = [op EXCEPT ![p] = [op[p] EXCEPT !.at = "replace"]]
      /\ log' = [log EXCEPT ![t] = Append(log[t], op[p].event)]
      /\ torn' = torn \ {t}
      /\ UNCHANGED <<lock, process, todo, life, answer, snap, listed, owner, sequence,
                     starts>>
  BY DEF AppendEvent
<1>6. op'[p] \in Ops /\ op'[p].at = "replace" /\ op'[p].by = op[p].by
      /\ op'[p].turn = t /\ op'[p].event = op[p].event /\ op'[p].seq = op[p].seq
      /\ op'[p].state = op[p].state /\ op'[p] = [op[p] EXCEPT !.at = "replace"]
  BY ZenonT(60), <1>2, <1>5, MovedOp DEF TypeOK
<1>7. \A q \in Processes \ {p} : op'[q] = op[q]
  BY <1>2, <1>5 DEF TypeOK
<1>8. TypeOK' /\ log' \in [Turns -> Seq(Kinds)]
  BY <1>2, <1>5, <1>6, <1>7, <1>4 DEF TypeOK
<1>9. OthersStay(p)
  BY <1>5, <1>7 DEF OthersStay
<1>10. LocksHeld'
  <2> SUFFICES ASSUME NEW u \in Turns, NEW q \in Processes
               PROVE  lock'[u] = q <=> Holds(q, u)'
    BY DEF LocksHeld
  <2>1. lock[u] = q <=> Holds(q, u)
    BY DEF Shape, LocksHeld
  <2>2. CASE q = p
    BY <1>1, <1>5, <1>6, <2>1, <2>2 DEF Holds
  <2>3. CASE q # p
    BY <1>5, <1>7, <2>1, <2>3 DEF Holds
  <2> QED
    BY <2>2, <2>3
<1>11. OpKnown(p)'
  <2>1. CASE RuntimeOp(p)
    BY <2>1, <1>5, <1>6 DEF RuntimeOp, StateOf, OpKnown, Shape
  <2>2. CASE RecoveryOp(p)
    BY <1>1, <1>5, <1>6, <2>2 DEF RecoveryOp, OpKnown, Shape
  <2> QED
    BY <1>3, <2>1, <2>2
<1>12. \A u \in Turns : owner[u] \in {p, Nobody} => OwnerKnown(u)'
  <2> SUFFICES ASSUME NEW u \in Turns, owner[u] \in {p, Nobody}
               PROVE  OwnerKnown(u)'
    OBVIOUS
  <2>1. OwnerKnown(u) /\ owner[t] # Nobody
    BY <1>1, <1>2, <1>3 DEF Shape, RuntimeOp, RecoveryOp
  <2>2. owner[u] = Nobody => u # t /\ log'[u] = log[u]
    BY <1>2, <1>5, <2>1 DEF TypeOK
  <2>3. Busy(p) /\ Busy(p)' /\ op'[p].turn = op[p].turn
    BY <1>1, <1>6 DEF Busy
  <2> QED
    BY <1>2, <1>5, <2>1, <2>2, <2>3 DEF OwnerKnown
<1> QED
  BY <1>5, <1>6, <1>7, <1>8, <1>9, <1>10, <1>11, <1>12, ShapeIf

LEMMA StartStep ==
  ASSUME Shape, UNCHANGED calm, NEW p \in Processes, Start(p)
  PROVE  Shape' /\ ~Busy(p)
<1>1. process[p] = "down" /\ p # Nobody /\ TypeOK
  BY NobodyAssumption DEF Start, Shape
<1>2. ~Busy(p)
  BY <1>1 DEF Shape, OpKnown, RuntimeOp, RecoveryOp
<1>3. /\ UNCHANGED <<log, torn, snap, lock, op, owner, life, sequence, answer>>
      /\ starts' = starts + 1
      /\ process' = [process EXCEPT ![p] = "recovering"]
      /\ \E dirs \in SUBSET Turns : listed' = [listed EXCEPT ![p] = dirs]
                                    /\ todo' = [todo EXCEPT ![p] = dirs]
  BY DEF Start, disk
<1>4. /\ process' \in [Processes -> {"down", "recovering", "serving"}]
      /\ listed' \in [Processes -> SUBSET Turns] /\ todo' \in [Processes -> SUBSET Turns]
      /\ \A q \in Processes \ {p} : /\ process'[q] = process[q] /\ listed'[q] = listed[q]
                                    /\ todo'[q] = todo[q]
      /\ process'[p] # "serving"
  BY <1>1, <1>3 DEF TypeOK
<1>5. TypeOK'
  BY <1>1, <1>3, <1>4 DEF TypeOK
<1>6. OthersStay(p)
  BY <1>3, <1>4 DEF OthersStay
<1>7. LocksHeld' /\ OpKnown(p)'
  BY <1>1, <1>3, <1>2 DEF TypeOK, Shape, LocksHeld, Holds, OpKnown, Busy
<1>8. \A u \in Turns : owner[u] \in {p, Nobody} => OwnerKnown(u)'
  BY <1>1, <1>3, <1>4 DEF Shape, OwnerKnown
<1> QED
  BY <1>2, <1>5, <1>6, <1>7, <1>8, ShapeIf

Looking(t) == [at |-> "lock", by |-> "recovery", turn |-> t, event |-> "none",
               seq |-> 0, state |-> "none"]

LEMMA NextTurnStep ==
  ASSUME Shape, UNCHANGED calm, NEW p \in Processes, NEW t \in Turns, RecoverNext(p, t)
  PROVE  /\ Shape' /\ ~Busy(p) /\ op'[p] = Looking(t) /\ todo'[p] = todo[p] \ {t}
         /\ \A q \in Processes \ {p} : op'[q] = op[q] /\ todo'[q] = todo[q]
<1>1. process[p] = "recovering" /\ p # Nobody /\ TypeOK /\ ~Busy(p)
  BY NobodyAssumption DEF RecoverNext, Shape, Busy, NoOp
<1>2. /\ UNCHANGED <<log, torn, snap, lock, process, listed, owner, life, sequence,
                     answer, starts>>
      /\ op' = [op EXCEPT ![p] = Looking(t)]
      /\ todo' = [todo EXCEPT ![p] = todo[p] \ {t}]
  BY DEF RecoverNext, disk, Looking
<1>3. Looking(t) \in Ops
  BY DEF Looking, Ops
<1>4. /\ op' \in [Processes -> Ops \cup {NoOp}] /\ op'[p] = Looking(t)
      /\ todo' \in [Processes -> SUBSET Turns] /\ todo'[p] = todo[p] \ {t}
      /\ \A q \in Processes \ {p} : op'[q] = op[q] /\ todo'[q] = todo[q]
  BY <1>1, <1>2, <1>3 DEF TypeOK
<1>5. TypeOK'
  BY <1>1, <1>2, <1>4 DEF TypeOK
<1>6. OthersStay(p)
  BY <1>2, <1>4 DEF OthersStay
<1>7. LocksHeld'
  <2> SUFFICES ASSUME NEW u \in Turns, NEW q \in Processes
               PROVE  lock'[u] = q <=> Holds(q, u)'
    BY DEF LocksHeld
  <2>1. lock[u] = q <=> Holds(q, u)
    BY DEF Shape, LocksHeld
  <2>2. CASE q = p
    BY <1>1, <1>2, <1>4, <2>1, <2>2 DEF Holds, Busy, Looking
  <2>3. CASE q # p
    BY <1>2, <1>4, <2>1, <2>3 DEF Holds
  <2> QED
    BY <2>2, <2>3
<1>8. RecoveryOp(p)'
  BY <1>1, <1>2, <1>4 DEF RecoverNext, Shape, OpKnown, RecoveryOp, Looking
<1>9. \A u \in Turns : owner[u] \in {p, Nobody} => OwnerKnown(u)'
  BY <1>1, <1>2 DEF Shape, OwnerKnown
<1>10. OpKnown(p)'
  BY <1>2, <1>4, <1>8 DEF OpKnown, Shape
<1> QED
  BY <1>1, <1>4, <1>5, <1>6, <1>7, <1>9, <1>10, ShapeIf

LEMMA ServeStep ==
  ASSUME Shape, UNCHANGED calm, NEW p \in Processes, Serve(p)
  PROVE  Shape' /\ ~Busy(p)
<1>1. process[p] = "recovering" /\ p # Nobody /\ TypeOK /\ ~Busy(p)
  BY NobodyAssumption DEF Serve, Shape, Busy, NoOp
<1>2. /\ UNCHANGED <<log, torn, snap, lock, listed, todo, op, owner, life, sequence,
                     answer, starts>>
      /\ process' = [process EXCEPT ![p] = "serving"]
  BY DEF Serve, disk
<1>3. /\ process' \in [Processes -> {"down", "recovering", "serving"}]
      /\ \A q \in Processes \ {p} : process'[q] = process[q]
  BY <1>1, <1>2 DEF TypeOK
<1>4. TypeOK'
  BY <1>1, <1>2, <1>3 DEF TypeOK
<1>5. OthersStay(p)
  BY <1>2, <1>3 DEF OthersStay
<1>6. LocksHeld' /\ OpKnown(p)'
  BY <1>1, <1>2 DEF Shape, LocksHeld, Holds, OpKnown, Busy
<1>7. \A u \in Turns : owner[u] \in {p, Nobody} => OwnerKnown(u)'
  BY <1>1, <1>2 DEF Shape, OwnerKnown
<1> QED
  BY <1>1, <1>4, <1>5, <1>6, <1>7, ShapeIf

LEMMA CrashStep ==
  ASSUME Shape, UNCHANGED calm, NEW p \in Processes, Crash(p)
  PROVE  /\ Shape' /\ op'[p] = NoOp /\ ~Busy(p)'
         /\ \A q \in Processes \ {p} : op'[q] = op[q] /\ process'[q] = process[q]
                                       /\ todo'[q] = todo[q]
         /\ process'[p] = "down" /\ todo'[p] = {}
<1>1. p # Nobody /\ TypeOK /\ NoOp.at = "none"
  BY NobodyAssumption DEF Crash, Shape, NoOp
<1>2. /\ UNCHANGED <<log, snap, listed, owner, sequence, answer, starts>>
      /\ process' = [process EXCEPT ![p] = "down"]
      /\ todo' = [todo EXCEPT ![p] = {}]
      /\ op' = [op EXCEPT ![p] = NoOp]
      /\ lock' = [t \in Turns |-> IF lock[t] = p THEN Nobody ELSE lock[t]]
      /\ life' = [t \in Turns |-> IF owner[t] = p THEN "ended" ELSE life[t]]
  BY DEF Crash
<1>3. torn' \in SUBSET Turns
  <2>1. op[p].at = "append" => op[p].turn \in Turns
    BY <1>1, OpFields DEF Busy
  <2> QED
    BY <1>1, <2>1 DEF Crash, TypeOK
<1>4. /\ process' \in [Processes -> {"down", "recovering", "serving"}]
      /\ todo' \in [Processes -> SUBSET Turns]
      /\ op' \in [Processes -> Ops \cup {NoOp}]
      /\ lock' \in [Turns -> Processes \cup {Nobody}]
      /\ life' \in [Turns -> Lives]
      /\ op'[p] = NoOp /\ process'[p] = "down" /\ todo'[p] = {}
      /\ \A q \in Processes \ {p} : op'[q] = op[q] /\ process'[q] = process[q]
                                    /\ todo'[q] = todo[q]
  BY <1>1, <1>2 DEF TypeOK, Lives
<1>5. TypeOK'
  BY <1>1, <1>2, <1>3, <1>4 DEF TypeOK
<1>6. OthersStay(p)
  BY <1>1, <1>2, <1>4 DEF OthersStay
<1>7. LocksHeld'
  <2> SUFFICES ASSUME NEW u \in Turns, NEW q \in Processes
               PROVE  lock'[u] = q <=> Holds(q, u)'
    BY DEF LocksHeld
  <2>1. (lock[u] = q <=> Holds(q, u)) /\ q # Nobody
    BY NobodyAssumption DEF Shape, LocksHeld
  <2>2. CASE q = p
    BY <1>1, <1>2, <1>4, <2>1, <2>2 DEF Holds
  <2>3. CASE q # p
    BY <1>2, <1>4, <2>1, <2>3 DEF Holds
  <2> QED
    BY <2>2, <2>3
<1>8. OpKnown(p)' /\ ~Busy(p)'
  BY <1>1, <1>4 DEF OpKnown, Busy
<1>9. \A u \in Turns : owner[u] \in {p, Nobody} => OwnerKnown(u)'
  BY <1>1, <1>2 DEF Shape, OwnerKnown
<1> QED
  BY <1>4, <1>5, <1>6, <1>7, <1>8, <1>9, ShapeIf

(* A runtime takes the next number for an event of one of its turns.       *)
Recording(t, e, s) == [at |-> "lock", by |-> "runtime", turn |-> t, event |-> e,
                       seq |-> sequence[t] + 1, state |-> s]

LEMMA RecordStep ==
  ASSUME Shape, UNCHANGED calm, NEW p \in Processes, NEW t \in Turns, NEW e \in Kinds,
         MayRecord(life[t], e), Record(p, t, e, StateOf(e)),
         \/ owner[t] = p /\ life[t] # "new" /\ UNCHANGED owner
         \/ owner[t] = Nobody /\ owner' = [owner EXCEPT ![t] = p]
  PROVE  /\ Shape' /\ ~Busy(p) /\ op'[p] = Recording(t, e, StateOf(e))
         /\ process[p] = "serving"
         /\ \A q \in Processes \ {p} : op'[q] = op[q]
<1> DEFINE s == StateOf(e)
<1>1. process[p] = "serving" /\ p # Nobody /\ TypeOK /\ ~Busy(p)
  BY NobodyAssumption DEF Record, Shape, Busy, NoOp
<1>2. /\ UNCHANGED <<log, torn, snap, lock, process, listed, todo, life, answer, starts>>
      /\ op' = [op EXCEPT ![p] = Recording(t, e, s)]
      /\ sequence' = [sequence EXCEPT ![t] = sequence[t] + 1]
  BY DEF Record, disk, Recording
<1>3. Recording(t, e, s) \in Ops /\ sequence[t] \in Nat
  BY <1>1 DEF Recording, Ops, TypeOK, StateOf
<1>4. /\ op' \in [Processes -> Ops \cup {NoOp}] /\ op'[p] = Recording(t, e, s)
      /\ \A q \in Processes \ {p} : op'[q] = op[q]
      /\ sequence' \in [Turns -> Nat] /\ sequence'[t] = sequence[t] + 1
      /\ \A u \in Turns : u # t => sequence'[u] = sequence[u]
      /\ owner' \in [Turns -> Processes \cup {Nobody}] /\ owner'[t] = p
      /\ \A u \in Turns : u # t => owner'[u] = owner[u]
  <2>1. /\ op' \in [Processes -> Ops \cup {NoOp}] /\ op'[p] = Recording(t, e, s)
        /\ \A q \in Processes \ {p} : op'[q] = op[q]
    BY <1>1, <1>2, <1>3 DEF TypeOK
  <2>2. /\ sequence' \in [Turns -> Nat] /\ sequence'[t] = sequence[t] + 1
        /\ \A u \in Turns : u # t => sequence'[u] = sequence[u]
    BY <1>1, <1>2, <1>3 DEF TypeOK
  <2>3. /\ owner' \in [Turns -> Processes \cup {Nobody}] /\ owner'[t] = p
        /\ \A u \in Turns : u # t => owner'[u] = owner[u]
    BY ZenonT(60), <1>1 DEF TypeOK
  <2> QED
    BY <2>1, <2>2, <2>3
<1>5. TypeOK'
  BY <1>1, <1>2, <1>4 DEF TypeOK
<1>6. OthersStay(p)
  BY <1>2, <1>4 DEF OthersStay
<1>7. LocksHeld'
  <2> SUFFICES ASSUME NEW u \in Turns, NEW q \in Processes
               PROVE  lock'[u] = q <=> Holds(q, u)'
    BY DEF LocksHeld
  <2>1. lock[u] = q <=> Holds(q, u)
    BY DEF Shape, LocksHeld
  <2>2. CASE q = p
    BY <1>1, <1>2, <1>4, <2>1, <2>2 DEF Holds, Busy, Recording
  <2>3. CASE q # p
    BY <1>2, <1>4, <2>1, <2>3 DEF Holds
  <2> QED
    BY <2>2, <2>3
<1>8. RuntimeOp(p)'
  BY <1>1, <1>2, <1>4 DEF RuntimeOp, Recording
<1>9. OpKnown(p)'
  BY <1>2, <1>8 DEF OpKnown, Shape
<1>10. \A u \in Turns : owner[u] \in {p, Nobody} => OwnerKnown(u)'
  <2> SUFFICES ASSUME NEW u \in Turns, owner[u] \in {p, Nobody}
               PROVE  OwnerKnown(u)'
    OBVIOUS
  <2>1. OwnerKnown(u)
    BY DEF Shape
  <2>2. CASE u = t
    BY <1>1, <1>3, <1>4, <1>2, <2>2 DEF Busy, Recording, OwnerKnown
  <2>3. CASE u # t
    BY <1>1, <1>2, <1>4, <2>1, <2>3 DEF OwnerKnown, Busy
  <2> QED
    BY <2>2, <2>3
<1> QED
  BY <1>1, <1>4, <1>5, <1>6, <1>7, <1>9, <1>10, ShapeIf

-----------------------------------------------------------------------------
(* Layer 2: what the log, the snapshot, the life and the answer of a turn  *)
(* say of each other, and what a process under the lock relies on.         *)

StoryOf(t) ==
  /\ log[t] # <<>> =>
       /\ log[t][1] = "accepted"
       /\ \A i \in DOMAIN log[t] : log[t][i] \in Terminal => i = Len(log[t])
  /\ snap[t] # "none" => log[t] # <<>>
  /\ snap[t] = "running" => \E i \in DOMAIN log[t] : log[t][i] \in {"started", "merged"}
  /\ snap[t] \in Terminal => Fate(t) = snap[t]
  /\ answer[t] \in Terminal => Fate(t) = answer[t]
  /\ life[t] \in {"accepted", "running", "settling", "left"} =>
       log[t] # <<>> /\ snap[t] # "none"
  /\ log[t] = <<>> /\ (t \in torn \/ \E p \in Processes : t \in listed[p]) =>
       life[t] \in {"refused", "ended"}

UnderLock(p) ==
  /\ op[p].at = "append" /\ op[p].by = "recovery" =>
       /\ log[op[p].turn] # <<>> /\ ~Ended(log[op[p].turn])
       /\ op[p].seq = Len(log[op[p].turn]) + 1
  /\ op[p].at = "replace" =>
       /\ log[op[p].turn] # <<>>
       /\ op[p].by = "recovery" =>
            Ended(log[op[p].turn]) /\ op[p].state = Fate(op[p].turn)
       /\ op[p].by = "runtime" =>
            /\ Last(log[op[p].turn]) = op[p].event
            /\ Len(log[op[p].turn]) = op[p].seq

Story == /\ \A t \in Turns : StoryOf(t)
         /\ \A p \in Processes : UnderLock(p)

(* An event that the validator accepts continues the story.                *)
LEMMA Appended ==
  ASSUME NEW s \in Seq(Kinds), NEW e \in Kinds, NEW n, Valid(s, e, n),
         s # <<>> => s[1] = "accepted",
         NEW r, r = Append(s, e)
  PROVE  /\ r \in Seq(Kinds) /\ r # <<>> /\ r[1] = "accepted" /\ ~Ended(s)
         /\ Len(r) = n /\ n = Len(s) + 1 /\ Last(r) = e /\ r[Len(r)] = e
         /\ \A i \in DOMAIN r : r[i] \in Terminal => i = Len(r)
         /\ Ended(r) <=> e \in Terminal
         /\ \A i \in DOMAIN s : i \in DOMAIN r /\ r[i] = s[i]
<1>1. n = Len(s) + 1 /\ ~Ended(s) /\ (s = <<>> => e = "accepted")
  BY DEF Valid, Ended
<1>2. /\ r \in Seq(Kinds) /\ r # <<>> /\ Len(r) = n /\ r[Len(r)] = e
      /\ \A i \in DOMAIN s : i \in DOMAIN r /\ r[i] = s[i]
      /\ DOMAIN r = 1 .. n /\ DOMAIN s = 1 .. Len(s) /\ Len(s) \in Nat
  BY <1>1
<1>3. Last(r) = e
  BY <1>2 DEF Last
<1>4. r[1] = "accepted"
  <2>1. CASE s = <<>>
    BY <1>1, <1>2, <2>1
  <2>2. CASE s # <<>>
    BY <1>2, <2>2
  <2> QED
    BY <2>1, <2>2
<1>5. \A i \in DOMAIN r : r[i] \in Terminal => i = Len(r)
  <2> SUFFICES ASSUME NEW i \in 1 .. n, i # n
               PROVE  r[i] \notin Terminal
    BY <1>2
  <2>1. i \in DOMAIN s
    BY <1>1, <1>2
  <2> QED
    BY <1>1, <1>2, <2>1 DEF Ended
<1>6. Ended(r) <=> e \in Terminal
  BY <1>1, <1>2, <1>5 DEF Ended
<1> QED
  BY <1>1, <1>2, <1>3, <1>4, <1>5, <1>6

LEMMA FateIsAnEnd ==
  ASSUME TypeOK, NEW t \in Turns, StoryOf(t)
  PROVE  /\ Ended(log[t]) => Fate(t) \in Terminal /\ Fate(t) = Last(log[t])
         /\ Fate(t) \in Terminal => Ended(log[t])
         /\ Fate(t) # "none" => Ended(log[t])
         /\ Last(log[t]) \in Terminal /\ log[t] # <<>> =>
              Ended(log[t]) /\ Fate(t) = Last(log[t])
<1>1. log[t] \in Seq(Kinds)
  BY DEF TypeOK
<1>2. Last(log[t]) = log[t][Len(log[t])]
  BY DEF Last
<1>3. Ended(log[t]) => Last(log[t]) \in Terminal
  BY <1>1, <1>2 DEF Ended, StoryOf
<1>4. log[t] # <<>> /\ Last(log[t]) \in Terminal => Ended(log[t])
  BY <1>1, <1>2 DEF Ended
<1> QED
  BY <1>3, <1>4 DEF Fate, Terminal

(* The lives that a commit may end a turn's life in without having written *)
(* anything.                                                               *)
LifeFolds(t) ==
  \/ life'[t] = life[t]
  \/ life'[t] \in {"refused", "ended"}
  \/ life'[t] = "left" /\ life[t] \in {"running", "left"}

LEMMA StoryFrame ==
  ASSUME TypeOK, NEW t \in Turns, StoryOf(t), log'[t] = log[t], snap'[t] = snap[t],
         answer'[t] \in {answer[t], "raised"}, LifeFolds(t),
         t \in torn' => t \in torn \/ log[t] # <<>> \/ life'[t] \in {"refused", "ended"},
         (\E q \in Processes : t \in listed'[q]) =>
           (\E q \in Processes : t \in listed[q]) \/ t \in torn \/ log[t] # <<>>
  PROVE  StoryOf(t)'
<1>1. Fate(t)' = Fate(t)
  BY DEF Fate
<1>2. log[t] = <<>> /\ (t \in torn' \/ \E q \in Processes : t \in listed'[q]) =>
        life'[t] \in {"refused", "ended"}
  BY DEF StoryOf, LifeFolds
<1>3. life'[t] \in {"accepted", "running", "settling", "left"} =>
        life[t] \in {"accepted", "running", "settling", "left"}
  BY DEF LifeFolds
<1>4. answer'[t] \in Terminal => answer'[t] = answer[t]
  BY DEF Terminal
<1> QED
  BY <1>1, <1>2, <1>3, <1>4 DEF StoryOf

LEMMA LockFrame ==
  ASSUME NEW q \in Processes, UnderLock(q), op'[q] = op[q],
         op[q].at \in {"append", "replace"} => log'[op[q].turn] = log[op[q].turn]
  PROVE  UnderLock(q)'
<1>1. op[q].at \in {"append", "replace"} => Fate(op[q].turn)' = Fate(op[q].turn)
  BY DEF Fate
<1> QED
  BY <1>1 DEF UnderLock

(* One process at a time is under the lock of a turn.                      *)
LEMMA OneHolder ==
  ASSUME Shape, NEW p \in Processes, NEW q \in Processes \ {p},
         op[p].at \in {"append", "replace"}, op[q].at \in {"append", "replace"}
  PROVE  op[q].turn # op[p].turn
<1>1. op[p].turn \in Turns
  BY OpFields DEF Shape, Busy
<1> QED
  BY <1>1 DEF Shape, LocksHeld, Holds

LEMMA RaisedFolds ==
  ASSUME Shape, NEW p \in Processes, Busy(p), Raised(p), NEW u \in Turns
  PROVE  LifeFolds(u) /\ answer'[u] \in {answer[u], "raised"}
<1>1. TypeOK /\ (RuntimeOp(p) \/ RecoveryOp(p))
  BY DEF Shape, OpKnown
<1>2. CASE RuntimeOp(p)
  <2> DEFINE t == op[p].turn
             e == op[p].event
  <2>1. /\ \A w \in Turns : w # t => life'[w] = life[w] /\ answer'[w] = answer[w]
        /\ e = "accepted" => life'[t] = "refused"
        /\ e = "text" => life'[t] = life[t]
        /\ e \notin {"accepted", "text"} => life'[t] \in {"left", "ended"}
        /\ life'[t] = "left" => life[t] \in {"left", "running"}
        /\ answer'[t] \in {answer[t], "raised"}
    BY <1>1, <1>2, RaisedLife
  <2> QED
    BY <2>1 DEF LifeFolds
<1>3. CASE RecoveryOp(p)
  BY <1>1, <1>3, RecoveryResult DEF RecoveryOp, LifeFolds
<1> QED
  BY <1>1, <1>2, <1>3

LEMMA QuietStory ==
  ASSUME Shape, Story, NEW p \in Processes, UNCHANGED <<log, snap>>, UnderLock(p)',
         \A u \in Turns :
           /\ LifeFolds(u) /\ answer'[u] \in {answer[u], "raised"}
           /\ u \in torn' => u \in torn \/ log[u] # <<>> \/ life'[u] \in {"refused", "ended"}
           /\ (\E q \in Processes : u \in listed'[q]) =>
                (\E q \in Processes : u \in listed[q]) \/ u \in torn \/ log[u] # <<>>,
         \A q \in Processes \ {p} : op'[q] = op[q]
  PROVE  Story'
<1>1. \A u \in Turns : StoryOf(u)'
  BY StoryFrame DEF Story, Shape
<1>2. \A q \in Processes : UnderLock(q)'
  BY LockFrame DEF Story
<1> QED
  BY <1>1, <1>2 DEF Story

(* The same for a step that changes no life and no answer.                 *)
LEMMA StillStory ==
  ASSUME Shape, Story, NEW p \in Processes,
         UNCHANGED <<log, snap, life, answer, listed>>, UnderLock(p)',
         torn' \subseteq torn,
         \A q \in Processes \ {p} : op'[q] = op[q]
  PROVE  Story'
<1>1. \A u \in Turns :
           /\ LifeFolds(u) /\ answer'[u] \in {answer[u], "raised"}
           /\ u \in torn' => u \in torn \/ log[u] # <<>> \/ life'[u] \in {"refused", "ended"}
           /\ (\E q \in Processes : u \in listed'[q]) =>
                (\E q \in Processes : u \in listed[q]) \/ u \in torn \/ log[u] # <<>>
  BY DEF LifeFolds
<1> QED
  BY <1>1, QuietStory

LEMMA IdleUnderLock ==
  ASSUME NEW p \in Processes, op'[p].at \in {"none", "lock"}
  PROVE  UnderLock(p)'
  BY DEF UnderLock

LEMMA AppendStory ==
  ASSUME Shape, Story, NEW p \in Processes, op[p].at = "append",
         NEW t, t = op[p].turn, Valid(log[t], op[p].event, op[p].seq),
         log' = [log EXCEPT ![t] = Append(log[t], op[p].event)],
         torn' = torn \ {t}, UNCHANGED <<snap, listed>>, UnderLock(p)',
         \A u \in Turns : LifeFolds(u) /\ answer'[u] \in {answer[u], "raised"},
         \A q \in Processes \ {p} : op'[q] = op[q]
  PROVE  Story'
<1> DEFINE e == op[p].event
<1>1. Busy(p) /\ TypeOK /\ t \in Turns
  BY OpFields DEF Busy, Shape
<1>2. e \in Kinds
  BY <1>1 DEF Shape, OpKnown, RuntimeOp, RecoveryOp, MayRecord, Kinds, Terminal
<1>3. log[t] \in Seq(Kinds) /\ log'[t] = Append(log[t], e)
      /\ \A u \in Turns : u # t => log'[u] = log[u]
  BY <1>1 DEF TypeOK
<1>4. StoryOf(t)
  BY <1>1 DEF Story
<1>5. /\ log'[t] # <<>> /\ log'[t][1] = "accepted" /\ ~Ended(log[t])
      /\ \A i \in DOMAIN log'[t] : log'[t][i] \in Terminal => i = Len(log'[t])
      /\ \A i \in DOMAIN log[t] : i \in DOMAIN log'[t] /\ log'[t][i] = log[t][i]
  BY SMTT(60), <1>2, <1>3, <1>4, Appended DEF StoryOf
<1>6. snap[t] \notin Terminal /\ answer[t] \notin Terminal
  BY <1>1, <1>4, <1>5, FateIsAnEnd DEF StoryOf
<1>7. StoryOf(t)'
  BY <1>1, <1>6, <1>4, <1>5 DEF Terminal, LifeFolds, StoryOf
<1>8. \A u \in Turns : u # t => StoryOf(u)'
  BY <1>1, <1>3, StoryFrame DEF Story
<1>9. \A q \in Processes \ {p} : UnderLock(q)'
  <2> SUFFICES ASSUME NEW q \in Processes \ {p}
               PROVE  UnderLock(q)'
    OBVIOUS
  <2>1. op[q].at \in {"append", "replace"} => log'[op[q].turn] = log[op[q].turn]
    BY <1>1, <1>3, OneHolder, OpFields DEF Busy
  <2> QED
    BY <2>1, LockFrame DEF Story
<1> QED
  BY <1>1, <1>7, <1>8, <1>9 DEF Story

LEMMA ReplaceStory ==
  ASSUME Shape, Story, NEW p \in Processes, op[p].at = "replace",
         NEW t, t = op[p].turn, Committed(p) \/ Raised(p),
         snap' = [snap EXCEPT ![t] = op[p].state],
         UNCHANGED <<log, torn, listed>>, op'[p] = NoOp,
         \A q \in Processes \ {p} : op'[q] = op[q]
  PROVE  Story'
<1> DEFINE e == op[p].event
           s == op[p].state
<1>1. Busy(p) /\ TypeOK /\ t \in Turns /\ op[p] \in Ops
  BY OpFields DEF Busy, Shape
<1>2. RuntimeOp(p) \/ RecoveryOp(p)
  BY <1>1 DEF Shape, OpKnown
<1>3. StoryOf(t) /\ UnderLock(p) /\ log[t] # <<>>
  BY <1>1 DEF Story, UnderLock
<1>4. snap'[t] = s /\ \A u \in Turns : u # t => snap'[u] = snap[u]
  BY <1>1 DEF TypeOK
<1>5. Fate(t)' = Fate(t)
  BY DEF Fate
<1>6. /\ s \in Terminal \cup {"accepted", "running"}
      /\ s = "running" => \E i \in DOMAIN log[t] : log[t][i] \in {"started", "merged"}
      /\ s \in Terminal => Fate(t) = s
  <2>1. CASE RuntimeOp(p)
    <3>1. /\ MayRecord(life[t], e) /\ e # "text" /\ s = StateOf(e)
          /\ Last(log[t]) = e
      BY <1>3, <2>1 DEF RuntimeOp, UnderLock
    <3>2. /\ s = "running" => e \in {"started", "merged"}
          /\ s \in Terminal => e = s
          /\ s \in Terminal \cup {"accepted", "running"}
      BY <3>1 DEF StateOf, MayRecord, Terminal
    <3>3. Len(log[t]) \in DOMAIN log[t] /\ log[t][Len(log[t])] = e
      BY <1>1, <1>3, <3>1 DEF TypeOK, Last
    <3> QED
      BY <1>1, <1>3, <3>1, <3>2, <3>3, FateIsAnEnd
  <2>2. CASE RecoveryOp(p)
    BY <1>3, <2>2, <1>1, FateIsAnEnd DEF RecoveryOp, UnderLock, Terminal
  <2> QED
    BY <1>2, <2>1, <2>2
<1>7. /\ answer'[t] \in Terminal => Fate(t) = answer'[t]
      /\ \A u \in Turns : u # t => life'[u] = life[u] /\ answer'[u] = answer[u]
  <2>1. CASE RuntimeOp(p) /\ Committed(p)
    BY <1>1, <2>1, <1>3, CommittedLife, FateIsAnEnd DEF UnderLock, RuntimeOp, StoryOf
  <2>2. CASE RuntimeOp(p) /\ Raised(p)
    BY <1>1, <2>2, <1>3, RaisedLife DEF StoryOf, Terminal
  <2>3. CASE RecoveryOp(p)
    BY <1>1, <2>3, <1>3, RecoveryResult DEF RecoveryOp, StoryOf
  <2> QED
    BY <1>2, <2>1, <2>2, <2>3
<1>8. StoryOf(t)'
  BY <1>3, <1>4, <1>5, <1>6, <1>7 DEF StoryOf, Terminal
<1>9. \A u \in Turns : u # t => StoryOf(u)'
  <2> SUFFICES ASSUME NEW u \in Turns, u # t
               PROVE  StoryOf(u)'
    OBVIOUS
  <2>1. LifeFolds(u) /\ answer'[u] \in {answer[u], "raised"}
    BY <1>7 DEF LifeFolds
  <2> QED
    BY <1>1, <1>4, <2>1, StoryFrame DEF Story
<1>10. UnderLock(p)'
  BY IdleUnderLock DEF NoOp
<1>11. \A q \in Processes : UnderLock(q)'
  BY <1>10, LockFrame DEF Story
<1> QED
  BY <1>8, <1>9, <1>11 DEF Story

-----------------------------------------------------------------------------
(* The steps of a commit.                                                  *)

Steady == Shape /\ Story

LEMMA LockIsSteady ==
  ASSUME Steady, UNCHANGED calm, NEW p \in Processes, TakeLock(p)
  PROVE  Steady'
<1>1. /\ Shape' /\ op' = [op EXCEPT ![p] = [op[p] EXCEPT !.at = "append"]]
      /\ UNCHANGED <<log, torn, snap, life, answer, listed>> /\ op[p].by = "runtime"
      /\ TypeOK /\ Busy(p)
  BY LockStep DEF Steady, TakeLock, disk, Busy, Shape
<1>2. op'[p] = [op[p] EXCEPT !.at = "append"] /\ op'[p].at = "append"
      /\ op'[p].by = "runtime" /\ \A q \in Processes \ {p} : op'[q] = op[q]
  BY <1>1, OpFields, MovedOp DEF TypeOK
<1>3. UnderLock(p)'
  BY <1>2 DEF UnderLock
<1> QED
  BY <1>1, <1>2, <1>3, StillStory DEF Steady

LEMMA ReadIsSteady ==
  ASSUME Steady, UNCHANGED calm, NEW p \in Processes, RecoverRead(p)
  PROVE  Steady'
<1>0. PICK t : t = op[p].turn
  OBVIOUS
<1>1. /\ Shape' /\ t \in Turns
      /\ op'[p] = IF log[t] = <<>> THEN NoOp
                  ELSE IF Ended(log[t]) THEN Restoring(t) ELSE Failing(t)
      /\ \A q \in Processes \ {p} : op'[q] = op[q]
  BY <1>0, ReadStep DEF Steady
<1>2. UNCHANGED <<log, snap, life, answer, listed>> /\ torn' \subseteq torn
  BY DEF RecoverRead
<1>3. UnderLock(p)'
  <2>1. CASE log[t] = <<>>
    BY <1>1, <2>1, IdleUnderLock DEF NoOp
  <2>2. CASE log[t] # <<>> /\ Ended(log[t])
    BY <1>1, <1>2, <2>2 DEF Fate, UnderLock, Restoring
  <2>3. CASE log[t] # <<>> /\ ~Ended(log[t])
    BY <1>1, <2>3, <1>2 DEF UnderLock, Failing
  <2> QED
    BY <2>1, <2>2, <2>3
<1> QED
  BY <1>1, <1>2, <1>3, StillStory DEF Steady

LEMMA AppendIsSteady ==
  ASSUME Steady, UNCHANGED calm, NEW p \in Processes, AppendEvent(p)
  PROVE  Steady'
<1> DEFINE e == op[p].event
<1>0. PICK t : t = op[p].turn
  OBVIOUS
<1>1. op[p].at = "append" /\ Busy(p) /\ TypeOK /\ Shape /\ Story
  BY DEF AppendEvent, Busy, Steady, Shape
<1>2. /\ Valid(log[t], e, op[p].seq) /\ torn' = torn \ {t}
      /\ log' = [log EXCEPT ![t] = Append(log[t], e)]
      /\ UNCHANGED <<snap, listed, owner, sequence, starts>>
  BY <1>0 DEF AppendEvent
<1>3. t \in Turns /\ op[p] \in Ops /\ (RuntimeOp(p) \/ RecoveryOp(p))
  BY <1>0, <1>1, OpFields DEF Shape, OpKnown
<1>4. e \in Kinds
  BY <1>0, <1>1, <1>3 DEF RuntimeOp, RecoveryOp, MayRecord, Kinds, Terminal
<1>5. log' \in [Turns -> Seq(Kinds)] /\ \A u \in Turns : u # t => log'[u] = log[u]
  BY <1>0, <1>1, <1>2, <1>3, <1>4 DEF TypeOK
<1>6. CASE op[p].state # "none"
  <2>1. /\ Shape' /\ op'[p] = [op[p] EXCEPT !.at = "replace"]
        /\ \A q \in Processes \ {p} : op'[q] = op[q]
        /\ UNCHANGED <<life, answer>>
    BY <1>0, <1>1, <1>6, HalfCommit
  <2>2. /\ op'[p].at = "replace" /\ op'[p].by = op[p].by /\ op'[p].turn = t
        /\ op'[p].event = e /\ op'[p].seq = op[p].seq /\ op'[p].state = op[p].state
    BY <1>0, <1>3, <2>1, MovedOp
  <2>3. /\ log'[t] # <<>> /\ Last(log'[t]) = e /\ Len(log'[t]) = op[p].seq
        /\ Ended(log'[t]) <=> e \in Terminal
    <3>1. log[t] \in Seq(Kinds) /\ log'[t] = Append(log[t], e)
          /\ (log[t] # <<>> => log[t][1] = "accepted")
      BY <1>1, <1>2, <1>3 DEF TypeOK, Story, StoryOf
    <3> HIDE DEF e
    <3>2. \A n, q : Valid(log[t], e, n) /\ q = Append(log[t], e) =>
            /\ q # <<>> /\ Last(q) = e /\ Len(q) = n
            /\ Ended(q) <=> e \in Terminal
      <4> SUFFICES ASSUME NEW n, NEW q, Valid(log[t], e, n), q = Append(log[t], e)
                   PROVE  /\ q # <<>> /\ Last(q) = e /\ Len(q) = n
                          /\ Ended(q) <=> e \in Terminal
        OBVIOUS
      <4>1. q # <<>> /\ Last(q) = e
        BY ZenonT(60), <1>4, <3>1, Appended
      <4>2. Ended(q) <=> e \in Terminal
        BY ZenonT(60), <1>4, <3>1, Appended
      <4>3. Len(q) = n
        BY <3>1 DEF Valid
      <4> QED
        BY <4>1, <4>2, <4>3
    <3> QED
      BY <1>2, <3>1, <3>2
  <2>4. op[p].by = "recovery" => e = "failed" /\ op[p].state = "failed"
    BY <1>0, <1>1, <1>3 DEF RuntimeOp, RecoveryOp
  <2>5. op[p].by = "recovery" => Ended(log'[t]) /\ Fate(t)' = "failed"
    BY <2>3, <2>4 DEF Fate, Terminal
  <2>6. UnderLock(p)'
    BY <2>2, <2>3, <2>4, <2>5 DEF UnderLock
  <2>7. \A u \in Turns : LifeFolds(u) /\ answer'[u] \in {answer[u], "raised"}
    BY <2>1 DEF LifeFolds
  <2> QED
    BY <1>0, <1>1, <1>2, <2>1, <2>6, <2>7, AppendStory DEF Steady
<1>7. CASE op[p].state = "none"
  <2>1. Committed(p) /\ Release(p)
    BY <1>0, <1>7 DEF AppendEvent
  <2>2. /\ Shape' /\ op'[p] = NoOp
        /\ \A q \in Processes \ {p} : op'[q] = op[q]
    BY <1>0, <1>1, <1>2, <1>3, <1>5, <2>1, EndedCommit DEF TypeOK
  <2>3. RuntimeOp(p) /\ e = "text"
    BY <1>0, <1>1, <1>3, <1>7 DEF RuntimeOp, RecoveryOp, StateOf, MayRecord, Terminal
  <2>4. \A u \in Turns : LifeFolds(u) /\ answer'[u] \in {answer[u], "raised"}
    BY <1>0, <1>1, <2>1, <2>3, CommittedLife DEF LifeFolds, Terminal
  <2>5. UnderLock(p)'
    BY <2>2, IdleUnderLock DEF NoOp
  <2> QED
    BY <1>0, <1>1, <1>2, <2>2, <2>4, <2>5, AppendStory DEF Steady
<1> QED
  BY <1>0, <1>6, <1>7

LEMMA RefusalIsSteady ==
  ASSUME Steady, UNCHANGED calm, NEW p \in Processes, RefuseEvent(p)
  PROVE  Steady'
<1>1. op[p].at = "append" /\ Busy(p) /\ TypeOK /\ Shape /\ Story
  BY DEF RefuseEvent, Busy, Steady, Shape
<1>2. /\ Raised(p) /\ Release(p) /\ torn' \subseteq torn
      /\ UNCHANGED <<log, snap, listed, owner, sequence, starts>>
  BY DEF RefuseEvent
<1>3. Shape' /\ op'[p] = NoOp /\ \A q \in Processes \ {p} : op'[q] = op[q]
  BY <1>1, <1>2, EndedCommit DEF TypeOK
<1>4. \A u \in Turns : LifeFolds(u) /\ answer'[u] \in {answer[u], "raised"}
  BY <1>1, <1>2, RaisedFolds
<1>5. UnderLock(p)'
  BY <1>3, IdleUnderLock DEF NoOp
<1> QED
  BY <1>1, <1>2, <1>3, <1>4, <1>5, QuietStory DEF Steady

LEMMA FailedAppendIsSteady ==
  ASSUME Steady, UNCHANGED calm, NEW p \in Processes, AppendFails(p)
  PROVE  Steady'
<1> DEFINE t == op[p].turn
           e == op[p].event
<1>1. op[p].at = "append" /\ Busy(p) /\ TypeOK /\ Shape /\ Story
  BY DEF AppendFails, Busy, Steady, Shape
<1>2. /\ Raised(p) /\ Release(p) /\ Valid(log[t], e, op[p].seq)
      /\ UNCHANGED <<snap, listed, owner, sequence, starts>>
      /\ \/ log' = log /\ torn' \in {torn \ {t}, torn \cup {t}}
         \/ log' = [log EXCEPT ![t] = Append(log[t], e)] /\ torn' = torn \ {t}
  BY DEF AppendFails
<1>3. t \in Turns /\ op[p] \in Ops /\ (RuntimeOp(p) \/ RecoveryOp(p))
  BY <1>1, OpFields DEF Shape, OpKnown
<1>4. e \in Kinds
  BY <1>1, <1>3 DEF RuntimeOp, RecoveryOp, MayRecord, Kinds, Terminal
<1>5. torn' \in SUBSET Turns
      /\ log' \in [Turns -> Seq(Kinds)] /\ \A u \in Turns : u # t => log'[u] = log[u]
  <2>1. torn' \in SUBSET Turns
    BY <1>1, <1>2, <1>3 DEF TypeOK
  <2>2. Append(log[t], e) \in Seq(Kinds)
    BY <1>1, <1>3, <1>4 DEF TypeOK
  <2>3. log \in [Turns -> Seq(Kinds)]
    BY <1>1 DEF TypeOK
  <2> HIDE DEF e
  <2> QED
    BY <1>2, <1>3, <2>1, <2>2, <2>3
<1>6. Shape' /\ op'[p] = NoOp /\ \A q \in Processes \ {p} : op'[q] = op[q]
  BY <1>1, <1>2, <1>5, EndedCommit DEF TypeOK
<1>7. \A u \in Turns : LifeFolds(u) /\ answer'[u] \in {answer[u], "raised"}
  BY <1>1, <1>2, RaisedFolds
<1>8. UnderLock(p)'
  BY <1>6, IdleUnderLock DEF NoOp
<1>9. CASE log' = log
  <2>1. ASSUME log[t] = <<>> PROVE life'[t] \in {"refused", "ended"}
    BY <1>2, <2>1, <1>1, <1>3, RaisedLife DEF Valid, Story, UnderLock, RecoveryOp
  <2>2. \A u \in Turns :
          /\ u \in torn' => u \in torn \/ log[u] # <<>> \/ life'[u] \in {"refused", "ended"}
          /\ (\E q \in Processes : u \in listed'[q]) =>
               (\E q \in Processes : u \in listed[q]) \/ u \in torn \/ log[u] # <<>>
    <3> SUFFICES ASSUME NEW u \in Turns, u \in torn', u \notin torn
                 PROVE  log[u] # <<>> \/ life'[u] \in {"refused", "ended"}
      BY <1>2
    <3>1. torn' \subseteq torn \cup {t}
      BY <1>2
    <3> QED
      BY <2>1, <3>1
  <2> QED
    BY <1>1, <1>2, <1>6, <1>7, <1>8, <1>9, <2>2, QuietStory DEF Steady
<1>10. CASE log' = [log EXCEPT ![t] = Append(log[t], e)] /\ torn' = torn \ {t}
  BY <1>1, <1>2, <1>6, <1>7, <1>8, <1>10, AppendStory DEF Steady
<1> QED
  BY <1>2, <1>9, <1>10

LEMMA ReplaceIsSteady ==
  ASSUME Steady, UNCHANGED calm, NEW p \in Processes,
         ReplaceSnapshot(p) \/ ReplaceFails(p)
  PROVE  Steady' /\ ~Busy(p)'
<1>0. PICK t : t = op[p].turn
  OBVIOUS
<1>1. op[p].at = "replace" /\ Busy(p) /\ TypeOK /\ Shape /\ Story
  BY DEF ReplaceSnapshot, ReplaceFails, Busy, Steady, Shape
<1>2. /\ Committed(p) \/ Raised(p)
      /\ Release(p) /\ UNCHANGED <<log, torn, listed, owner, sequence, starts>>
      /\ \/ snap' = [snap EXCEPT ![t] = op[p].state]
         \/ snap' = snap /\ Raised(p)
  BY <1>0 DEF ReplaceSnapshot, ReplaceFails
<1>3. t \in Turns /\ (RuntimeOp(p) \/ RecoveryOp(p))
  BY <1>0, <1>1, OpFields DEF Shape, OpKnown
<1>4. op[p].state \in Terminal \cup {"accepted", "running"}
  <2>1. CASE RuntimeOp(p)
    BY <1>1, <2>1 DEF RuntimeOp, StateOf, MayRecord, Terminal
  <2>2. CASE RecoveryOp(p)
    BY <1>0, <1>1, <2>2, <1>3, FateIsAnEnd DEF Story, UnderLock, RecoveryOp
  <2> QED
    BY <1>3, <2>1, <2>2
<1>5. snap' \in [Turns -> Terminal \cup {"none", "accepted", "running"}]
  BY <1>1, <1>2, <1>3, <1>4 DEF TypeOK
<1>6. Shape' /\ op'[p] = NoOp /\ ~Busy(p)' /\ \A q \in Processes \ {p} : op'[q] = op[q]
  BY <1>1, <1>2, <1>5, EndedCommit DEF TypeOK
<1>7. CASE snap' = [snap EXCEPT ![t] = op[p].state]
  BY <1>0, <1>1, <1>2, <1>6, <1>7, ReplaceStory DEF Steady
<1>8. CASE snap' = snap /\ Raised(p)
  BY <1>1, <1>8, <1>6, <1>2, RaisedFolds, IdleUnderLock, QuietStory DEF NoOp, Steady
<1> QED
  BY <1>2, <1>7, <1>8

-----------------------------------------------------------------------------
(* The steps of processes and of runtimes.                                 *)

LEMMA ProcessIsSteady ==
  ASSUME Steady, UNCHANGED calm, NEW p \in Processes,
         \/ Start(p) \/ Serve(p)
         \/ \E t \in Turns : RecoverNext(p, t)
  PROVE  Steady'
<1>1. Shape /\ Story /\ TypeOK
  BY DEF Steady, Shape
<1>2. CASE Start(p)
  <2>1. Shape' /\ ~Busy(p) /\ UNCHANGED <<log, torn, snap, op, life, answer>>
    BY <1>1, <1>2, StartStep DEF Start, disk
  <2>2. listed' = [listed EXCEPT ![p] = {t \in Turns : log[t] # <<>> \/ t \in torn}]
    BY <1>2 DEF Start
  <2>3. UnderLock(p)'
    BY <2>1 DEF Busy, UnderLock
  <2>4. \A u \in Turns :
           /\ LifeFolds(u) /\ answer'[u] \in {answer[u], "raised"}
           /\ u \in torn' => u \in torn \/ log[u] # <<>> \/ life'[u] \in {"refused", "ended"}
           /\ (\E q \in Processes : u \in listed'[q]) =>
                (\E q \in Processes : u \in listed[q]) \/ u \in torn \/ log[u] # <<>>
    BY <1>1, <2>1, <2>2 DEF LifeFolds, TypeOK
  <2> QED
    BY <1>1, <2>1, <2>3, <2>4, QuietStory DEF Steady
<1>3. CASE Serve(p)
  BY <1>1, <1>3, ServeStep, StillStory DEF Serve, disk, Busy, UnderLock, Steady
<1>4. ASSUME NEW t \in Turns, RecoverNext(p, t) PROVE Steady'
  <2>1. /\ Shape' /\ op'[p] = Looking(t) /\ \A q \in Processes \ {p} : op'[q] = op[q]
        /\ UNCHANGED <<log, torn, snap, life, answer, listed>>
    BY <1>1, <1>4, NextTurnStep DEF RecoverNext, disk
  <2>2. UnderLock(p)'
    BY <2>1, IdleUnderLock DEF Looking
  <2> QED
    BY <1>1, <2>1, <2>2, StillStory DEF Steady
<1> QED
  BY <1>2, <1>3, <1>4

LEMMA CrashIsSteady ==
  ASSUME Steady, UNCHANGED calm, NEW p \in Processes, Crash(p)
  PROVE  Steady'
<1>0. PICK t : t = op[p].turn
  OBVIOUS
<1>1. Shape /\ Story /\ TypeOK
  BY DEF Steady, Shape
<1>2. /\ Shape' /\ op'[p] = NoOp /\ \A q \in Processes \ {p} : op'[q] = op[q]
      /\ UNCHANGED <<log, snap, answer, listed>>
      /\ life' = [u \in Turns |-> IF owner[u] = p THEN "ended" ELSE life[u]]
      /\ torn' = torn \/ (op[p].at = "append" /\ torn' = torn \cup {t})
  BY <1>0, <1>1, CrashStep DEF Crash
<1>3. ASSUME op[p].at = "append" PROVE log[t] # <<>> \/ life'[t] = "ended"
  <2>1. Busy(p) /\ t \in Turns /\ (RuntimeOp(p) \/ RecoveryOp(p))
    BY <1>0, <1>1, <1>3, OpFields DEF Busy, Shape, OpKnown
  <2>2. CASE RuntimeOp(p)
    BY <1>0, <1>2, <2>1, <2>2 DEF RuntimeOp
  <2>3. CASE RecoveryOp(p)
    BY <1>0, <1>1, <1>3, <2>1, <2>3 DEF RecoveryOp, Story, UnderLock
  <2> QED
    BY <2>1, <2>2, <2>3
<1>4. \A u \in Turns :
         /\ LifeFolds(u) /\ answer'[u] \in {answer[u], "raised"}
         /\ u \in torn' => u \in torn \/ log[u] # <<>> \/ life'[u] \in {"refused", "ended"}
         /\ (\E q \in Processes : u \in listed'[q]) =>
              (\E q \in Processes : u \in listed[q]) \/ u \in torn \/ log[u] # <<>>
  BY <1>2, <1>3 DEF LifeFolds
<1>5. UnderLock(p)'
  BY <1>2, IdleUnderLock DEF NoOp
<1> QED
  BY <1>1, <1>2, <1>4, <1>5, QuietStory DEF Steady

(* Every step of a runtime records an event that the turn's life allows.   *)
LEMMA RuntimeRecords ==
  ASSUME Shape, NEW p \in Processes, NEW t \in Turns, RuntimeStep(p, t)
  PROVE  \E e \in Kinds :
           /\ MayRecord(life[t], e) /\ Record(p, t, e, StateOf(e))
           /\ \/ owner[t] = p /\ life[t] # "new" /\ UNCHANGED owner
              \/ owner[t] = Nobody /\ owner' = [owner EXCEPT ![t] = p]
<1> DEFINE Recorded(e) ==
             /\ MayRecord(life[t], e) /\ Record(p, t, e, StateOf(e))
             /\ \/ owner[t] = p /\ life[t] # "new" /\ UNCHANGED owner
                \/ owner[t] = Nobody /\ owner' = [owner EXCEPT ![t] = p]
<1>1. /\ {"accepted", "started", "text", "merged", "cancelled"} \subseteq Kinds
      /\ Terminal \subseteq Kinds
      /\ \A e \in Terminal : StateOf(e) = e
      /\ StateOf("accepted") = "accepted" /\ StateOf("started") = "running"
      /\ StateOf("text") = "none" /\ StateOf("merged") = "running"
      /\ StateOf("cancelled") = "cancelled"
  BY DEF Kinds, Terminal, StateOf
<1>2. CASE Accept(p, t)
  BY <1>2, <1>1 DEF Accept, Shape, OwnerKnown, MayRecord
<1>3. CASE Begin(p, t)
  BY <1>1, <1>3 DEF Begin, MayRecord
<1>4. CASE Text(p, t)
  BY <1>1, <1>4 DEF Text, MayRecord
<1>5. CASE LateText(p, t)
  BY <1>1, <1>5 DEF LateText, MayRecord
<1>6. CASE Cancel(p, t)
  BY <1>1, <1>6 DEF Cancel, MayRecord
<1>7. CASE Merge(p, t)
  BY <1>1, <1>7 DEF Merge, MayRecord
<1>8. CASE End(p, t)
  <2>1. PICK e \in Terminal : Record(p, t, e, e)
    BY <1>8 DEF End
  <2>2. Recorded(e)
    BY <1>1, <1>8, <2>1 DEF End, MayRecord
  <2> QED
    BY <1>1, <2>2
<1>9. CASE Settle(p, t)
  <2>1. PICK e \in Terminal : Record(p, t, e, e)
    BY <1>9 DEF Settle
  <2>2. Recorded(e)
    BY <1>1, <1>9, <2>1 DEF Settle, MayRecord
  <2> QED
    BY <1>1, <2>2
<1> QED
  BY <1>2, <1>3, <1>4, <1>5, <1>6, <1>7, <1>8, <1>9 DEF RuntimeStep

LEMMA RecordIsSteady ==
  ASSUME Steady, UNCHANGED calm, NEW p \in Processes, NEW t \in Turns, RuntimeStep(p, t)
  PROVE  Steady'
<1>1. Shape /\ Story
  BY DEF Steady
<1>2. PICK e \in Kinds :
         /\ MayRecord(life[t], e) /\ Record(p, t, e, StateOf(e))
         /\ \/ owner[t] = p /\ life[t] # "new" /\ UNCHANGED owner
            \/ owner[t] = Nobody /\ owner' = [owner EXCEPT ![t] = p]
  BY <1>1, RuntimeRecords
<1>3. /\ Shape' /\ op'[p] = Recording(t, e, StateOf(e))
      /\ \A q \in Processes \ {p} : op'[q] = op[q]
  BY <1>1, <1>2, RecordStep
<1>4. UNCHANGED <<log, torn, snap, life, answer, listed>>
  BY <1>2 DEF Record, disk
<1>5. UnderLock(p)'
  BY <1>3, IdleUnderLock DEF Recording
<1> QED
  BY <1>1, <1>3, <1>4, <1>5, StillStory DEF Steady

LEMMA SteadyStep ==
  ASSUME Steady, [Next]_vars
  PROVE  Steady'
<1>1. CASE UNCHANGED vars
  <2>1. Shape'
    BY <1>1 DEF Steady, Shape, TypeOK, LocksHeld, Holds, OpKnown, Busy, RuntimeOp,
         RecoveryOp, OwnerKnown, vars
  <2>2. Story'
    BY <1>1 DEF Steady, Story, StoryOf, UnderLock, Fate, vars
  <2> QED
    BY <2>1, <2>2 DEF Steady
<1>2. CASE Next
  <2>1. PICK p \in Processes :
          \/ Start(p) \/ Serve(p) \/ Crash(p) \/ CommitStep(p)
          \/ \E t \in Turns : RecoverNext(p, t) \/ RuntimeStep(p, t)
    BY <1>2 DEF Next
  <2>2. UNCHANGED calm
    BY <1>2 DEF Next
  <2>3. CASE CommitStep(p)
    BY <2>2, <2>3, LockIsSteady, ReadIsSteady, AppendIsSteady, RefusalIsSteady,
       FailedAppendIsSteady, ReplaceIsSteady DEF CommitStep
  <2>4. CASE Start(p) \/ Serve(p) \/ \E t \in Turns : RecoverNext(p, t)
    BY <2>2, <2>4, ProcessIsSteady
  <2>5. CASE Crash(p)
    BY <2>2, <2>5, CrashIsSteady
  <2>6. CASE \E t \in Turns : RuntimeStep(p, t)
    BY <2>2, <2>6, RecordIsSteady
  <2> QED
    BY <2>1, <2>3, <2>4, <2>5, <2>6
<1> QED
  BY <1>1, <1>2

LEMMA SteadyAtFirst == Init => Steady
<1> SUFFICES ASSUME Init
             PROVE  Steady
  OBVIOUS
<1>1. TypeOK
  BY DEF Init, TypeOK, Lives
<1>2. \A p \in Processes : ~Busy(p) /\ op[p] = NoOp
  BY DEF Init, Busy, NoOp
<1>3. Shape
  BY <1>1, <1>2, NobodyAssumption DEF Init, Shape, LocksHeld, Holds, OpKnown, OwnerKnown, NoOp
<1>4. \A t \in Turns : StoryOf(t)
  BY DEF Init, StoryOf, Terminal
<1>5. \A p \in Processes : UnderLock(p)
  BY <1>2 DEF UnderLock, NoOp
<1> QED
  BY <1>3, <1>4, <1>5 DEF Steady, Story

-----------------------------------------------------------------------------
(* Layer 3: what a recovery has looked at is in order, and stays so        *)
(* although others write in the same directory.                            *)

StepOf(p) ==
  \/ Start(p) \/ Serve(p) \/ Crash(p) \/ CommitStep(p)
  \/ \E t \in Turns : RecoverNext(p, t) \/ RuntimeStep(p, t)

InOrder(t) == log[t] = <<>> \/ (Ended(log[t]) /\ snap[t] = Fate(t))

LookedAt(p) ==
  process[p] = "recovering" =>
    \A t \in listed[p] \ todo[p] : (Busy(p) /\ op[p].turn = t) \/ InOrder(t)

(* Which files a step changes.                                             *)
LEMMA FilesChange ==
  ASSUME Steady, NEW p \in Processes, StepOf(p), NEW t, t = op[p].turn
  PROVE  \/ UNCHANGED <<log, snap>>
         \/ /\ op[p].at = "append" /\ Valid(log[t], op[p].event, op[p].seq)
            /\ log' = [log EXCEPT ![t] = Append(log[t], op[p].event)] /\ snap' = snap
         \/ /\ op[p].at = "replace"
            /\ log' = log /\ snap' = [snap EXCEPT ![t] = op[p].state]
<1>1. ASSUME NEW u \in Turns, RuntimeStep(p, u) PROVE UNCHANGED <<log, snap>>
  BY <1>1, RuntimeRecords DEF Steady, Record, disk
<1>2. CASE CommitStep(p)
  BY <1>2 DEF CommitStep, TakeLock, RecoverRead, AppendEvent, RefuseEvent, AppendFails,
       ReplaceSnapshot, ReplaceFails, disk
<1> QED
  BY <1>1, <1>2 DEF StepOf, Start, Serve, Crash, RecoverNext, disk

LEMMA OthersKeepPlaces ==
  ASSUME Steady, NEW p \in Processes, StepOf(p), NEW q \in Processes \ {p}
  PROVE  op'[q] = op[q] /\ process'[q] = process[q] /\ listed'[q] = listed[q]
         /\ todo'[q] = todo[q]
<1>1. TypeOK /\ Shape
  BY DEF Steady, Shape
<1>2. CASE Start(p)
  BY <1>1, <1>2 DEF Start, TypeOK
<1>3. CASE Serve(p)
  BY <1>1, <1>3 DEF Serve, TypeOK
<1>4. CASE Crash(p)
  BY <1>1, <1>4 DEF Crash, TypeOK
<1>5. ASSUME NEW t \in Turns, RecoverNext(p, t) \/ RuntimeStep(p, t)
      PROVE  op'[q] = op[q] /\ process'[q] = process[q] /\ listed'[q] = listed[q]
             /\ todo'[q] = todo[q]
  <2>1. CASE RecoverNext(p, t)
    BY <1>1, <2>1 DEF RecoverNext, TypeOK
  <2>2. CASE RuntimeStep(p, t)
    BY <1>1, <2>2, RuntimeRecords DEF Record, TypeOK
  <2> QED
    BY <1>5, <2>1, <2>2
<1>6. CASE TakeLock(p) \/ RecoverRead(p)
  BY <1>1, <1>6 DEF TakeLock, RecoverRead, TypeOK
<1>7. CASE AppendEvent(p) /\ op[p].state # "none"
  BY <1>1, <1>7 DEF AppendEvent, TypeOK
<1>8. CASE (Committed(p) \/ Raised(p)) /\ Release(p) /\ UNCHANGED listed
  BY <1>1, <1>8 DEF Release, TypeOK, Committed, Raised
<1>9. CASE CommitStep(p)
  BY <1>6, <1>7, <1>8, <1>9 DEF CommitStep, AppendEvent, RefuseEvent, AppendFails,
       ReplaceSnapshot, ReplaceFails
<1> QED
  BY <1>2, <1>3, <1>4, <1>5, <1>9 DEF StepOf

LEMMA OrderStays ==
  ASSUME Steady, NEW p \in Processes, StepOf(p), NEW q \in Processes,
         NEW u \in listed[q], u \in Turns, InOrder(u)
  PROVE  InOrder(u)'
<1>0. PICK t : t = op[p].turn
  OBVIOUS
<1>1. Shape /\ Story /\ TypeOK /\ StoryOf(u) /\ UnderLock(p)
  BY DEF Steady, Shape, Story
<1>2. CASE log'[u] = log[u] /\ snap'[u] = snap[u]
  BY <1>2 DEF InOrder, Fate
<1>3. CASE /\ op[p].at = "append" /\ Valid(log[t], op[p].event, op[p].seq)
           /\ log' = [log EXCEPT ![t] = Append(log[t], op[p].event)] /\ snap' = snap
  <2>1. Busy(p) /\ t \in Turns /\ (RuntimeOp(p) \/ RecoveryOp(p))
    BY <1>0, <1>1, <1>3, OpFields DEF Busy, Shape, OpKnown
  <2>2. u # t
    <3>1. ASSUME u = t PROVE FALSE
      <4>1. log[t] = <<>>
        BY <1>1, <1>3, <3>1 DEF InOrder, Valid, Ended
      <4>2. life[t] \in {"refused", "ended"}
        BY <1>1, <3>1, <4>1 DEF StoryOf
      <4>3. CASE RuntimeOp(p)
        BY <1>0, <4>2, <4>3 DEF RuntimeOp, MayRecord
      <4>4. CASE RecoveryOp(p)
        BY <1>0, <1>1, <1>3, <4>1, <4>4 DEF RecoveryOp, UnderLock
      <4> QED
        BY <2>1, <4>3, <4>4
    <3> QED
      BY <3>1
  <2> QED
    BY <1>1, <1>2, <1>3, <2>1, <2>2 DEF TypeOK
<1>4. CASE /\ op[p].at = "replace"
           /\ log' = log /\ snap' = [snap EXCEPT ![t] = op[p].state]
  <2>1. Busy(p) /\ t \in Turns /\ (RuntimeOp(p) \/ RecoveryOp(p))
    BY <1>0, <1>1, <1>4, OpFields DEF Busy, Shape, OpKnown
  <2>2. CASE u = t
    <3>1. log[t] # <<>> /\ Ended(log[t]) /\ Fate(t) \in Terminal /\ Fate(t) = Last(log[t])
      BY <1>0, <1>1, <1>4, <2>2, FateIsAnEnd DEF UnderLock, InOrder
    <3>2. op[p].state = Fate(t)
      <4>1. CASE RuntimeOp(p)
        BY <1>0, <1>1, <1>4, <3>1, <4>1 DEF RuntimeOp, UnderLock, StateOf, Terminal
      <4>2. CASE RecoveryOp(p)
        BY <1>0, <1>1, <1>4, <4>2 DEF RecoveryOp, UnderLock
      <4> QED
        BY <2>1, <4>1, <4>2
    <3>3. snap'[t] = Fate(t) /\ Fate(t)' = Fate(t)
      BY <1>1, <1>4, <2>1, <3>2 DEF TypeOK, Fate
    <3> QED
      BY <1>4, <2>2, <3>1, <3>3 DEF InOrder
  <2>3. CASE u # t
    BY <1>1, <1>2, <1>4, <2>3 DEF TypeOK
  <2> QED
    BY <2>2, <2>3
<1> QED
  BY <1>0, <1>2, <1>3, <1>4, FilesChange

LEMMA LookedStep ==
  ASSUME Steady, UNCHANGED calm, NEW p \in Processes, StepOf(p),
         NEW q \in Processes, LookedAt(q)
  PROVE  LookedAt(q)'
<1>1. Shape /\ Story /\ TypeOK
  BY DEF Steady, Shape
<1>2. \A t \in listed[q] : InOrder(t) => InOrder(t)'
  BY <1>1, OrderStays DEF TypeOK
<1>3. CASE q # p
  BY <1>3, <1>2, OthersKeepPlaces DEF LookedAt, Busy
<1>4. CASE q = p
  <2> SUFFICES ASSUME process'[p] = "recovering", NEW t \in listed'[p] \ todo'[p]
               PROVE  (Busy(p)' /\ op'[p].turn = t) \/ InOrder(t)'
    BY <1>4 DEF LookedAt
  <2>1. CASE Start(p)
    BY <1>1, <2>1 DEF Start, TypeOK
  <2>2. CASE Serve(p) \/ Crash(p)
    BY <1>1, <2>2 DEF Serve, Crash, TypeOK
  <2>3. ASSUME NEW u \in Turns, RecoverNext(p, u)
        PROVE  (Busy(p)' /\ op'[p].turn = t) \/ InOrder(t)'
    <3>1. /\ ~Busy(p) /\ op'[p] = Looking(u) /\ todo'[p] = todo[p] \ {u}
          /\ process[p] = "recovering" /\ listed' = listed
      BY <1>1, <2>3, NextTurnStep DEF RecoverNext
    <3>2. CASE t = u
      BY <3>1, <3>2 DEF Busy, Looking
    <3>3. CASE t # u
      BY <1>2, <1>4, <3>1, <3>3 DEF LookedAt
    <3> QED
      BY <3>2, <3>3
  <2>4. ASSUME NEW u \in Turns, RuntimeStep(p, u) PROVE FALSE
    BY <1>1, <2>4, RuntimeRecords DEF Record
  <2>5. ASSUME CommitStep(p)
        PROVE  (Busy(p)' /\ op'[p].turn = t) \/ InOrder(t)'
    <3>0. PICK u : u = op[p].turn
      OBVIOUS
    <3>1. Busy(p) /\ u \in Turns /\ (RuntimeOp(p) \/ RecoveryOp(p))
      BY <1>1, <2>5, <3>0, OpFields DEF CommitStep, TakeLock, RecoverRead, AppendEvent,
           RefuseEvent, AppendFails, ReplaceSnapshot, ReplaceFails, Busy, Shape, OpKnown
    <3>2. RecoveryOp(p)
      <4>1. CASE op[p].by = "runtime"
        <5>1. process[p] = "serving"
          BY <3>1, <4>1 DEF RuntimeOp, RecoveryOp
        <5>2. process' = process
          BY <2>5, <4>1 DEF CommitStep, TakeLock, RecoverRead, AppendEvent,
               RefuseEvent, AppendFails, ReplaceSnapshot, ReplaceFails, Committed, Raised
        <5> QED
          BY <5>1, <5>2
      <4>2. CASE op[p].by # "runtime"
        BY <3>1, <4>2 DEF RuntimeOp
      <4> QED
        BY <4>1, <4>2
    <3>3. ~Raised(p)
      BY <1>1, <3>2 DEF Raised, RecoveryOp, TypeOK
    <3>4. /\ process[p] = "recovering" /\ op[p].by = "recovery" /\ listed' = listed
          /\ todo' = todo
      BY <2>5, <3>2, <3>3 DEF CommitStep, TakeLock, RecoverRead, AppendEvent,
           RefuseEvent, AppendFails, ReplaceSnapshot, ReplaceFails, Committed, RecoveryOp
    <3>5. (Busy(p) /\ u = t) \/ InOrder(t)
      BY <1>4, <3>0, <3>4 DEF LookedAt
    <3>6. InOrder(t) => InOrder(t)'
      BY <1>2, <1>4, <3>4
    <3>7. CASE RecoverRead(p)
      <4>1. /\ op'[p] = IF log[u] = <<>> THEN NoOp
                        ELSE IF Ended(log[u]) THEN Restoring(u) ELSE Failing(u)
            /\ log' = log
        BY <1>1, <3>0, <3>7, ReadStep DEF RecoverRead
      <4>2. log[u] # <<>> => Busy(p)' /\ op'[p].turn = u
        BY <4>1 DEF Busy, Restoring, Failing
      <4>3. log[u] = <<>> => InOrder(u)'
        BY <4>1 DEF InOrder
      <4> QED
        BY <3>5, <3>6, <4>2, <4>3
    <3>8. CASE AppendEvent(p)
      <4>1. op[p].state # "none"
        BY <3>2, <3>8 DEF RecoveryOp, AppendEvent
      <4>2. op'[p] = [op[p] EXCEPT !.at = "replace"] /\ op[p] \in Ops
        BY <1>1, <3>1, <3>8, <4>1, HalfCommit, OpFields
      <4>3. Busy(p)' /\ op'[p].turn = u
        BY <3>0, <4>2, MovedOp DEF Busy
      <4> QED
        BY <3>5, <3>6, <4>3
    <3>9. CASE ReplaceSnapshot(p)
      <4>1. /\ log[u] # <<>> /\ Ended(log[u]) /\ op[p].state = Fate(u)
            /\ log' = log /\ snap' = [snap EXCEPT ![u] = op[p].state]
        BY <1>1, <3>0, <3>2, <3>9 DEF ReplaceSnapshot, Story, UnderLock, RecoveryOp
      <4>2. InOrder(u)'
        BY <1>1, <3>1, <4>1 DEF InOrder, Fate, TypeOK
      <4> QED
        BY <3>5, <3>6, <4>2
    <3>10. CASE TakeLock(p)
      BY <3>4, <3>10 DEF TakeLock
    <3> QED
      BY <2>5, <3>3, <3>7, <3>8, <3>9, <3>10 DEF CommitStep, RefuseEvent, AppendFails,
           ReplaceFails
  <2> QED
    BY <2>1, <2>2, <2>3, <2>4, <2>5 DEF StepOf
<1> QED
  BY <1>3, <1>4

Watched == Steady /\ \A p \in Processes : LookedAt(p)

LEMMA WatchedStep ==
  ASSUME Watched, [Next]_vars
  PROVE  Watched'
<1>1. Steady'
  BY SteadyStep DEF Watched
<1>2. CASE UNCHANGED vars
  BY <1>1, <1>2 DEF Watched, LookedAt, Busy, InOrder, Fate, vars
<1>3. CASE Next
  <2>1. PICK p \in Processes : StepOf(p)
    BY <1>3 DEF Next, StepOf
  <2>2. UNCHANGED calm
    BY <1>3 DEF Next
  <2> QED
    BY <1>1, <2>1, <2>2, LookedStep DEF Watched
<1> QED
  BY <1>2, <1>3

LEMMA WatchedAlways == Spec => []Watched
<1>1. Init => Watched
  BY SteadyAtFirst DEF Init, Watched, LookedAt
<1>2. Watched /\ [Next]_vars => Watched'
  BY WatchedStep
<1> QED
  BY <1>1, <1>2, PTL DEF Spec

(* A process serves only when every turn it found has its end, and its     *)
(* snapshot shows it, whatever other processes did meanwhile               *)
(* (recover_incomplete_turns before the assembly of the runtime is done).  *)
THEOREM RecoveryCompletes == Spec => RecoveryIsComplete
<1> DEFINE Done == \A p \in Processes : process[p] = "recovering" /\ process'[p] = "serving" =>
                     \A t \in listed[p] : log[t] # <<>> => Fate(t) \in Terminal
                                                            /\ snap[t] = Fate(t)
<1>1. ASSUME Watched, [Next]_vars PROVE [Done]_vars
  <2> SUFFICES ASSUME Next, NEW p \in Processes,
                      process[p] = "recovering", process'[p] = "serving",
                      NEW t \in listed[p], log[t] # <<>>
               PROVE  Fate(t) \in Terminal /\ snap[t] = Fate(t)
    BY <1>1
  <2>1. Shape /\ TypeOK /\ Story
    BY <1>1 DEF Watched, Steady, Shape
  <2>2. PICK q \in Processes : StepOf(q)
    BY DEF Next, StepOf
  <2>3. q = p
    BY <1>1, <2>2, OthersKeepPlaces DEF Watched
  <2>4. Serve(p)
    <3>1. CASE Start(p) \/ Crash(p)
      BY <2>1, <3>1 DEF Start, Crash, TypeOK
    <3>2. ASSUME NEW u \in Turns, RecoverNext(p, u) \/ RuntimeStep(p, u) PROVE FALSE
      BY <2>1, <3>2, RuntimeRecords DEF RecoverNext, Record
    <3>3. CASE CommitStep(p)
      <4>1. process'[p] \in {process[p], "down"}
        BY <2>1, <3>3 DEF CommitStep, TakeLock, RecoverRead, AppendEvent,
             RefuseEvent, AppendFails, ReplaceSnapshot, ReplaceFails, Committed, Raised,
             TypeOK
      <4> QED
        BY <4>1
    <3> QED
      BY <2>2, <2>3, <3>1, <3>2, <3>3 DEF StepOf
  <2>5. ~Busy(p) /\ todo[p] = {}
    BY <2>1, <2>4 DEF Serve, Busy, NoOp
  <2>6. InOrder(t)
    BY <1>1, <2>5 DEF Watched, LookedAt
  <2>7. t \in Turns
    BY <2>1 DEF TypeOK
  <2> QED
    BY <2>1, <2>6, <2>7, FateIsAnEnd DEF InOrder, Story
<1> QED
  BY <1>1, WatchedAlways, PTL DEF Spec, RecoveryIsComplete

-----------------------------------------------------------------------------
(* Layer 4: a calm directory, where writes fail only in a crash and one    *)
(* process runs at a time.  The number that a runtime gives an event is    *)
(* the next one of the log, so the validator has nothing to refuse.        *)

OneAlive == \A p, q \in Processes : process[p] # "down" /\ process[q] # "down" => p = q

Writing(t, places) ==
  /\ owner[t] # Nobody /\ op[owner[t]].at \in places
  /\ op[owner[t]].by = "runtime" /\ op[owner[t]].turn = t

Unwritten(t) == Writing(t, {"lock", "append"})

NumberedAt(t) ==
  life[t] \in {"new", "accepted", "running", "settling"} =>
    /\ Unwritten(t) => sequence[t] = Len(log[t]) + 1
    /\ ~Unwritten(t) => sequence[t] = Len(log[t])
    /\ Ended(log[t]) => Writing(t, {"replace"})

KeptAt(t) ==
  life[t] = "ended" /\ ~Ended(log[t]) /\ log[t] # <<>> =>
    \/ process[owner[t]] = "down"
    \/ \E p \in Processes : process[p] = "recovering" /\ t \in listed[p]

Untroubled(t) == answer[t] # "raised" /\ life[t] # "refused"

CalmAt(t) == NumberedAt(t) /\ KeptAt(t) /\ Untroubled(t)

Calmness == calm => OneAlive /\ \A t \in Turns : CalmAt(t)

LEMMA Alone ==
  ASSUME Watched, Calmness, calm, NEW p \in Processes, StepOf(p)
  PROVE  /\ \A q \in Processes \ {p} : process[q] = "down" /\ process'[q] = "down"
         /\ OneAlive'
         /\ \A t \in Turns : owner[t] \notin {p, Nobody} =>
              life[t] = "ended" /\ process[owner[t]] = "down"
<1>1. Steady /\ Shape /\ TypeOK /\ OneAlive
  BY DEF Watched, Steady, Shape, Calmness
<1>2. \A q \in Processes \ {p} : process[q] = "down"
  <2>1. CASE Start(p)
    BY <1>1, <2>1 DEF Start
  <2>2. CASE process[p] # "down"
    BY <1>1, <2>2 DEF OneAlive
  <2>3. CASE Busy(p)
    BY <1>1, <2>2, <2>3 DEF Shape, OpKnown, RuntimeOp, RecoveryOp
  <2>4. CommitStep(p) => Busy(p)
    BY DEF CommitStep, TakeLock, RecoverRead, AppendEvent, RefuseEvent, AppendFails,
         ReplaceSnapshot, ReplaceFails, Busy
  <2>5. ASSUME NEW t \in Turns, RuntimeStep(p, t) PROVE process[p] # "down"
    BY <1>1, <2>5, RuntimeRecords DEF Record
  <2> QED
    BY <2>1, <2>2, <2>3, <2>4, <2>5 DEF StepOf, Serve, Crash, RecoverNext
<1>3. \A q \in Processes \ {p} : process'[q] = "down"
  BY <1>1, <1>2, OthersKeepPlaces
<1>4. \A t \in Turns : owner[t] \notin {p, Nobody} =>
              life[t] = "ended" /\ process[owner[t]] = "down"
  BY <1>1, <1>2 DEF Shape, OwnerKnown, TypeOK
<1> QED
  BY <1>2, <1>3, <1>4 DEF OneAlive

(* A turn that a step does not touch.                                      *)
LEMMA QuietTurn ==
  ASSUME NEW t \in Turns, NumberedAt(t), Untroubled(t), owner'[t] = owner[t],
         life'[t] = life[t], answer'[t] = answer[t], sequence'[t] = sequence[t],
         log'[t] = log[t],
         Writing(t, {"lock", "append"})' <=> Writing(t, {"lock", "append"}),
         Writing(t, {"replace"}) => Writing(t, {"replace"})'
  PROVE  NumberedAt(t)' /\ Untroubled(t)'
  BY DEF NumberedAt, Untroubled, Unwritten

(* Nobody's turn has nothing in the log, and a turn of a process that is   *)
(* down has ended: a step leaves both as they are unless it accepts it.    *)
LEMMA CommitElsewhere ==
  ASSUME Watched, NEW p \in Processes, CommitStep(p), NEW t, t = op[p].turn,
         NEW u \in Turns, u # t
  PROVE  /\ owner'[u] = owner[u] /\ life'[u] = life[u] /\ answer'[u] = answer[u]
         /\ sequence'[u] = sequence[u] /\ log'[u] = log[u]
         /\ Writing(u, {"lock", "append"})' <=> Writing(u, {"lock", "append"})
         /\ Writing(u, {"replace"}) => Writing(u, {"replace"})'
<1>1. Steady /\ Shape /\ TypeOK /\ StepOf(p)
  BY DEF Watched, Steady, Shape, StepOf
<1>2. Busy(p) /\ t \in Turns /\ op[p] \in Ops /\ (RuntimeOp(p) \/ RecoveryOp(p))
  BY <1>1, OpFields DEF CommitStep, TakeLock, RecoverRead, AppendEvent, RefuseEvent,
       AppendFails, ReplaceSnapshot, ReplaceFails, Busy, Shape, OpKnown
<1>3. owner' = owner /\ sequence' = sequence
  BY DEF CommitStep, TakeLock, RecoverRead, AppendEvent, RefuseEvent, AppendFails,
       ReplaceSnapshot, ReplaceFails
<1>4. log'[u] = log[u]
  <2>1. log' = log \/ log' = [log EXCEPT ![t] = Append(log[t], op[p].event)]
    BY <1>1, FilesChange
  <2> QED
    BY <1>1, <2>1 DEF TypeOK
<1>5. life'[u] = life[u] /\ answer'[u] = answer[u]
  <2>1. CASE Committed(p) \/ Raised(p)
    BY <1>1, <1>2, <2>1, CommittedLife, RaisedLife, RecoveryResult DEF RecoveryOp
  <2> QED
    BY <2>1 DEF CommitStep, TakeLock, RecoverRead, AppendEvent, RefuseEvent, AppendFails,
       ReplaceSnapshot, ReplaceFails, disk
<1>6. op'[p].at = "none" \/ op'[p].turn = t
  <2>1. CASE TakeLock(p)
    BY <1>1, <1>2, <2>1, MovedOp DEF TakeLock, TypeOK
  <2>2. CASE RecoverRead(p)
    BY <1>1, <1>2, <2>2 DEF RecoverRead, TypeOK, NoOp, Restoring, Failing
  <2>3. CASE AppendEvent(p) /\ op[p].state # "none"
    <3>1. op'[p] = [op[p] EXCEPT !.at = "replace"]
      BY <2>3, <1>1 DEF AppendEvent, TypeOK
    <3> QED
      BY <1>2, <3>1, MovedOp
  <2>4. CASE Release(p)
    BY <1>1, <2>4 DEF Release, TypeOK, NoOp
  <2> QED
    BY <2>1, <2>2, <2>3, <2>4 DEF CommitStep, AppendEvent, RefuseEvent, AppendFails,
       ReplaceSnapshot, ReplaceFails
<1>7. \A q \in Processes \ {p} : op'[q] = op[q]
  BY <1>1, OthersKeepPlaces
<1>8. owner[u] \in Processes \cup {Nobody}
  BY <1>1 DEF TypeOK
<1>9. CASE owner[u] = p
  BY <1>3, <1>6, <1>9, <1>4, <1>5 DEF Writing
<1>10. CASE owner[u] # p
  BY <1>3, <1>7, <1>8, <1>10, <1>4, <1>5 DEF Writing
<1> QED
  BY <1>9, <1>10

(* What a runtime appends to a calm log is what comes next, and what       *)
(* recovery appends always is.                                             *)
LEMMA CalmIsValid ==
  ASSUME Watched, Calmness, calm, NEW p \in Processes, op[p].at = "append",
         NEW t, t = op[p].turn, life[t] # "left" \/ RecoveryOp(p)
  PROVE  Valid(log[t], op[p].event, op[p].seq)
<1>1. Shape /\ TypeOK /\ Busy(p) /\ t \in Turns /\ (RuntimeOp(p) \/ RecoveryOp(p))
  BY OpFields DEF Watched, Steady, Shape, Busy, OpKnown
<1>2. UnderLock(p) /\ StoryOf(t) /\ CalmAt(t)
  BY <1>1 DEF Watched, Steady, Story, Calmness
<1>3. CASE RecoveryOp(p)
  BY <1>2, <1>3 DEF RecoveryOp, UnderLock, Valid
<1>4. CASE RuntimeOp(p) /\ life[t] # "left"
  <2>1. /\ owner[t] = p /\ op[p].seq = sequence[t] /\ MayRecord(life[t], op[p].event)
        /\ p # Nobody
    BY <1>4, NobodyAssumption DEF RuntimeOp
  <2>2. /\ life[t] \in {"new", "accepted", "running", "settling"}
        /\ life[t] = "new" => op[p].event = "accepted"
    BY <1>4, <2>1 DEF MayRecord
  <2>3. Unwritten(t) /\ ~Writing(t, {"replace"})
    BY <1>4, <2>1 DEF Unwritten, Writing, RuntimeOp
  <2>4. sequence[t] = Len(log[t]) + 1 /\ ~Ended(log[t])
    BY <1>2, <2>2, <2>3 DEF CalmAt, NumberedAt
  <2>5. log[t] = <<>> => op[p].event = "accepted"
    BY <1>2, <2>2 DEF StoryOf
  <2> QED
    BY <2>1, <2>4, <2>5 DEF Valid
<1> QED
  BY <1>1, <1>3, <1>4

(* A turn without its end is left to the next start of its process, or to  *)
(* the recovery that has found it.                                         *)
Dangling(t) == life[t] = "ended" /\ ~Ended(log[t]) /\ log[t] # <<>>

LEMMA KeptIf ==
  ASSUME Watched, Calmness, calm, NEW p \in Processes, StepOf(p), NEW u \in Turns,
         owner'[u] = owner[u], owner[u] # Nobody,
         Dangling(u)' => Dangling(u) \/ process'[owner'[u]] = "down"
  PROVE  KeptAt(u)'
<1> SUFFICES ASSUME Dangling(u)', process'[owner'[u]] # "down"
             PROVE  \E r \in Processes : process'[r] = "recovering" /\ u \in listed'[r]
  BY DEF KeptAt, Dangling
<1>1. Steady /\ Shape /\ TypeOK /\ Dangling(u) /\ KeptAt(u) /\ owner[u] \in Processes
  BY DEF Watched, Steady, Shape, TypeOK, Calmness, CalmAt
<1>2. /\ \A q \in Processes \ {p} : process[q] = "down" /\ process'[q] = "down"
      /\ owner[u] = p /\ process'[p] # "down"
  BY <1>1, Alone
<1>3. process[p] \in {"down", "recovering"}
  BY <1>1, <1>2 DEF KeptAt, Dangling
<1>4. CASE process[p] = "down"
  <2>1. Start(p)
    <3>1. CASE CommitStep(p)
      <4>1. Busy(p)
        BY <3>1 DEF CommitStep, TakeLock, RecoverRead, AppendEvent, RefuseEvent,
             AppendFails, ReplaceSnapshot, ReplaceFails, Busy
      <4> QED
        BY <1>1, <1>4, <4>1 DEF Shape, OpKnown, RuntimeOp, RecoveryOp
    <3>2. ASSUME NEW t \in Turns, RuntimeStep(p, t) PROVE FALSE
      BY <1>1, <1>4, <3>2, RuntimeRecords DEF Record
    <3> QED
      BY <1>4, <3>1, <3>2 DEF StepOf, Serve, Crash, RecoverNext
  <2>2. process'[p] = "recovering" /\ u \in listed'[p]
    BY <1>1, <2>1 DEF Start, TypeOK, Dangling
  <2> QED
    BY <2>2
<1>5. CASE process[p] = "recovering"
  <2>1. u \in listed[p]
    BY <1>1, <1>2, <1>5 DEF KeptAt, Dangling
  <2>2. CASE Serve(p)
    <3>1. InOrder(u)
      BY <2>2, <1>5, <2>1 DEF Serve, Busy, NoOp, Watched, LookedAt
    <3> QED
      BY <1>1, <3>1 DEF InOrder, Dangling
  <2>3. CASE Start(p) \/ Crash(p)
    BY <1>1, <1>2, <1>5, <2>3 DEF Start, Crash, TypeOK
  <2>4. ASSUME NEW t \in Turns, RecoverNext(p, t)
        PROVE  process'[p] = "recovering" /\ listed' = listed
    BY <1>5, <2>4 DEF RecoverNext
  <2>5. ASSUME NEW t \in Turns, RuntimeStep(p, t) PROVE FALSE
    BY <1>1, <1>5, <2>5, RuntimeRecords DEF Record
  <2>6. CASE CommitStep(p)
    <3>1. process' \in {process, [process EXCEPT ![p] = "down"]} /\ listed' = listed
      BY <2>6 DEF CommitStep, TakeLock, RecoverRead, AppendEvent, RefuseEvent,
           AppendFails, ReplaceSnapshot, ReplaceFails, Committed, Raised, disk
    <3>2. process'[p] = "recovering"
      BY <1>1, <1>2, <1>5, <3>1 DEF TypeOK
    <3> QED
      BY <2>1, <3>1, <3>2
  <2> QED
    BY <1>5, <2>1, <2>2, <2>3, <2>4, <2>5, <2>6 DEF StepOf
<1> QED
  BY <1>3, <1>4, <1>5

(* A turn that no runtime works on any more.                               *)
LEMMA KeptUnowned ==
  ASSUME Watched', NEW u \in Turns, owner'[u] = Nobody
  PROVE  KeptAt(u)'
  BY DEF Watched, Steady, Shape, OwnerKnown, KeptAt

LEMMA QuietCalm ==
  ASSUME Watched, Watched', Calmness, calm, NEW p \in Processes, StepOf(p),
         NEW t \in Turns, owner'[t] = owner[t],
         life'[t] = life[t], answer'[t] = answer[t], sequence'[t] = sequence[t],
         log'[t] = log[t],
         Writing(t, {"lock", "append"})' <=> Writing(t, {"lock", "append"}),
         Writing(t, {"replace"}) => Writing(t, {"replace"})'
  PROVE  CalmAt(t)'
<1>1. CalmAt(t)
  BY DEF Calmness
<1>2. NumberedAt(t)' /\ Untroubled(t)'
  BY <1>1, QuietTurn DEF CalmAt
<1>3. KeptAt(t)'
  <2>1. CASE owner[t] = Nobody
    BY <2>1, KeptUnowned
  <2>2. CASE owner[t] # Nobody
    BY <2>2, KeptIf DEF Dangling
  <2> QED
    BY <2>1, <2>2
<1> QED
  BY <1>2, <1>3 DEF CalmAt

LEMMA CalmRecovery ==
  ASSUME Watched, Watched', Calmness, calm, NEW p \in Processes, CommitStep(p),
         RecoveryOp(p), NEW t, t = op[p].turn
  PROVE  CalmAt(t)'
<1>1. Steady /\ Shape /\ TypeOK /\ StepOf(p) /\ Story
  BY DEF Watched, Steady, Shape, StepOf
<1>2. Busy(p) /\ t \in Turns
  BY <1>1, OpFields DEF CommitStep, TakeLock, RecoverRead, AppendEvent, RefuseEvent,
       AppendFails, ReplaceSnapshot, ReplaceFails, Busy
<1>3. UNCHANGED <<life, answer, sequence, owner>>
  <2>1. Committed(p) \/ Raised(p) => UNCHANGED <<life, answer>>
    BY <1>1, RecoveryResult DEF RecoveryOp
  <2> QED
    BY <2>1 DEF CommitStep, TakeLock, RecoverRead, AppendEvent, RefuseEvent,
         AppendFails, ReplaceSnapshot, ReplaceFails, disk
<1>4. CASE log[t] = <<>>
  <2>1. op[p].at = "lock"
    BY <1>1, <1>2, <1>4, OpFields DEF RecoveryOp, Shape, OwnerKnown, Story, UnderLock
  <2>2. log' = log /\ op'[p].at \in {"none", "append"}
    BY <1>1, <2>1, <1>4 DEF CommitStep, TakeLock, RecoverRead, AppendEvent, RefuseEvent,
         AppendFails, ReplaceSnapshot, ReplaceFails, RecoveryOp, TypeOK, NoOp
  <2>3. op'[p].at = "none"
    BY <1>1, <2>1, <1>4 DEF CommitStep, TakeLock, RecoverRead, AppendEvent, RefuseEvent,
         AppendFails, ReplaceSnapshot, ReplaceFails, RecoveryOp, TypeOK, NoOp
  <2>4. \A q \in Processes \ {p} : op'[q] = op[q]
    BY <1>1, OthersKeepPlaces
  <2>5. owner[t] \in Processes \cup {Nobody}
    BY <1>1, <1>2 DEF TypeOK
  <2>6. ~Writing(t, {"lock", "append"})' <=> ~Writing(t, {"lock", "append"})
    BY <1>3, <2>3, <2>4, <2>5 DEF Writing, RecoveryOp
  <2>7. Writing(t, {"replace"}) => Writing(t, {"replace"})'
    BY <1>3, <2>1, <2>4, <2>5 DEF Writing
  <2> QED
    BY <1>1, <1>2, <1>3, <2>2, <2>6, <2>7, QuietCalm
<1>5. CASE log[t] # <<>>
  <2>1. owner[t] # Nobody /\ life[t] = "ended"
    BY <1>1, <1>2, <1>5, Alone DEF Shape, OwnerKnown, RecoveryOp
  <2>2. Dangling(t)' => Dangling(t)
    <3>1. CASE log' = log
      BY <1>3, <3>1 DEF Dangling
    <3>2. CASE op[p].at = "append" /\ log' = [log EXCEPT ![t] = Append(log[t], op[p].event)]
      BY <2>1, <1>2, <1>5, <1>1, <3>2 DEF Dangling, Story, UnderLock, RecoveryOp
    <3> QED
      BY <1>1, <3>1, <3>2, FilesChange
  <2>3. KeptAt(t)'
    BY <1>1, <1>2, <1>3, <2>1, <2>2, KeptIf
  <2> QED
    BY <1>2, <1>3, <2>1, <2>3 DEF CalmAt, NumberedAt, Untroubled, Calmness
<1> QED
  BY <1>4, <1>5

LEMMA CalmRuntime ==
  ASSUME Watched, Watched', Calmness, calm, UNCHANGED calm, NEW p \in Processes,
         CommitStep(p), RuntimeOp(p), NEW t, t = op[p].turn
  PROVE  CalmAt(t)'
<1> DEFINE e == op[p].event
<1>1. Steady /\ Shape /\ TypeOK /\ StepOf(p) /\ Story
  BY DEF Watched, Steady, Shape, StepOf
<1>2. Busy(p) /\ t \in Turns /\ op[p] \in Ops /\ p # Nobody
  BY <1>1, OpFields DEF CommitStep, TakeLock, RecoverRead, AppendEvent, RefuseEvent,
       AppendFails, ReplaceSnapshot, ReplaceFails, Busy
<1>3. /\ owner[t] = p /\ op[p].by = "runtime" /\ op[p].seq = sequence[t]
      /\ MayRecord(life[t], e) /\ op[p].state = StateOf(e)
      /\ op[p].at = "replace" => e # "text"
  BY DEF RuntimeOp
<1>4. UNCHANGED <<owner, sequence>>
  BY DEF CommitStep, TakeLock, RecoverRead, AppendEvent, RefuseEvent, AppendFails,
       ReplaceSnapshot, ReplaceFails
<1>5. StoryOf(t) /\ UnderLock(p) /\ CalmAt(t) /\ NumberedAt(t) /\ Untroubled(t)
  BY <1>1, <1>2 DEF Story, Calmness, CalmAt
<1>6. log[t] \in Seq(Kinds) /\ sequence[t] \in Nat /\ Len(log[t]) \in Nat
  BY <1>1, <1>2 DEF TypeOK
<1>7. CASE TakeLock(p)
  <2>1. op' = [op EXCEPT ![p] = [op[p] EXCEPT !.at = "append"]]
    BY <1>7 DEF TakeLock
  <2>2. op'[p] = [op[p] EXCEPT !.at = "append"]
    BY <1>1, <2>1 DEF TypeOK
  <2>3. op'[p].at = "append" /\ op'[p].by = "runtime" /\ op'[p].turn = t
    BY <1>2, <1>3, <2>2, MovedOp
  <2>4. op[p].at = "lock" /\ UNCHANGED <<log, life, answer>>
    BY <1>7 DEF TakeLock, disk
  <2>5. /\ Writing(t, {"lock", "append"})' <=> Writing(t, {"lock", "append"})
        /\ Writing(t, {"replace"}) => Writing(t, {"replace"})'
    BY <1>2, <1>3, <1>4, <2>3, <2>4 DEF Writing
  <2> QED
    BY <1>1, <1>2, <1>4, <2>4, <2>5, QuietCalm
<1>8. CASE AppendEvent(p)
  <2>1. op[p].at = "append" /\ Valid(log[t], e, op[p].seq)
        /\ log'[t] = Append(log[t], e) /\ e \in Kinds
    BY <1>1, <1>2, <1>3, <1>8 DEF AppendEvent, TypeOK, MayRecord, Kinds, Terminal
  <2>2. /\ log'[t] # <<>> /\ Len(log'[t]) = sequence[t]
        /\ Ended(log'[t]) <=> e \in Terminal
    <3>1. log[t] # <<>> => log[t][1] = "accepted"
      BY <1>5 DEF StoryOf
    <3>2. log'[t] # <<>>
      BY <1>6, <2>1
    <3>3. Ended(log'[t]) <=> e \in Terminal
      <4>1. PICK k \in Kinds : k = e
        BY <2>1
      <4>2. PICK s \in Seq(Kinds) : s = log[t]
        BY <1>6
      <4>3. PICK q : q = log'[t]
        OBVIOUS
      <4>4. Valid(s, k, op[p].seq) /\ (s # <<>> => s[1] = "accepted") /\ q = Append(s, k)
        BY <2>1, <3>1, <4>1, <4>2, <4>3
      <4>5. Ended(q) <=> k \in Terminal
        BY <4>4, Appended
      <4> QED
        BY <4>1, <4>3, <4>5
    <3>4. Len(log'[t]) = sequence[t]
      BY <1>3, <1>6, <2>1 DEF Valid
    <3> QED
      BY <3>2, <3>3, <3>4
  <2>3. /\ life'[t] = life[t] /\ answer'[t] = answer[t] /\ life[t] # "ended"
        /\ life[t] # "new" \/ e = "accepted"
    <3>1. CASE op[p].state # "none"
      BY <1>1, <1>2, <1>3, <1>8, <3>1 DEF AppendEvent, TypeOK, MayRecord
    <3>2. CASE op[p].state = "none"
      <4>1. Committed(p) /\ e = "text"
        BY <1>3, <1>8, <3>2 DEF AppendEvent, StateOf, MayRecord, Terminal
      <4> QED
        BY <1>1, <1>2, <1>3, <4>1, CommittedLife DEF MayRecord, Terminal
    <3> QED
      BY <3>1, <3>2
  <2>4. /\ ~Unwritten(t)'
        /\ e # "text" => Writing(t, {"replace"})'
    <3>1. CASE op[p].state # "none"
      <4>1. op' = [op EXCEPT ![p] = [op[p] EXCEPT !.at = "replace"]]
        BY <1>8, <3>1 DEF AppendEvent
      <4>2. op'[p] = [op[p] EXCEPT !.at = "replace"]
        BY <1>1, <4>1 DEF TypeOK
      <4>3. op'[p].at = "replace" /\ op'[p].by = "runtime" /\ op'[p].turn = t
        BY <1>2, <1>3, <4>2, MovedOp
      <4> QED
        BY <1>2, <1>3, <1>4, <4>3 DEF Unwritten, Writing
    <3>2. CASE op[p].state = "none"
      <4>1. Release(p) /\ e = "text"
        BY <1>3, <1>8, <3>2 DEF AppendEvent, StateOf, MayRecord, Terminal
      <4>2. op'[p].at = "none"
        BY <1>1, <4>1 DEF Release, TypeOK, NoOp
      <4> QED
        BY <1>3, <1>4, <4>1, <4>2 DEF Unwritten, Writing
    <3> QED
      BY <3>1, <3>2
  <2>5. NumberedAt(t)'
    BY <1>4, <2>2, <2>3, <2>4 DEF NumberedAt, Terminal
  <2>6. Untroubled(t)' /\ KeptAt(t)'
    BY <1>5, <2>3 DEF Untroubled, KeptAt
  <2> QED
    BY <2>5, <2>6 DEF CalmAt
<1>9. CASE RefuseEvent(p)
  <2>1. op[p].at = "append" /\ ~Valid(log[t], e, op[p].seq) /\ Raised(p)
    BY <1>9 DEF RefuseEvent
  <2>2. life[t] = "left"
    BY <2>1, CalmIsValid
  <2>3. e = "text"
    BY <1>3, <2>2 DEF MayRecord
  <2>4. life'[t] = "left" /\ answer'[t] = answer[t]
    BY <1>1, <1>2, <2>1, <2>2, <2>3, RaisedLife
  <2> QED
    BY <1>5, <2>4 DEF CalmAt, NumberedAt, KeptAt, Untroubled
<1>10. CASE ReplaceSnapshot(p)
  <2>1. op[p].at = "replace" /\ Committed(p) /\ Release(p) /\ log' = log
    BY <1>10 DEF ReplaceSnapshot
  <2>2. log[t] # <<>> /\ Last(log[t]) = e /\ Len(log[t]) = sequence[t]
    BY <1>3, <1>5, <2>1 DEF UnderLock
  <2>3. Ended(log[t]) <=> e \in Terminal
    BY <1>1, <1>2, <1>5, <2>2, FateIsAnEnd
  <2>4. op'[p].at = "none"
    BY <1>1, <2>1 DEF Release, TypeOK, NoOp
  <2>5. ~Unwritten(t)'
    BY <1>3, <1>4, <2>4 DEF Unwritten, Writing
  <2>6. /\ e \in Terminal => life'[t] \in {"left", "ended"} /\ answer'[t] = e
        /\ e \notin Terminal => /\ life'[t] \in {"accepted", "running", "settling"}
                                /\ answer'[t] = answer[t]
    <3>1. PICK k : k = e
      OBVIOUS
    <3>2. /\ k = "started" => life'[t] = "running"
          /\ k = "accepted" => life'[t] = "accepted"
          /\ k = "merged" => life'[t] = "settling"
          /\ k \in Terminal => life'[t] \in {"left", "ended"} /\ answer'[t] = k
          /\ k \notin Terminal => answer'[t] = answer[t]
      <4> HIDE DEF e
      <4> QED
        BY <1>1, <1>2, <1>3, <2>1, <3>1, CommittedLife DEF e
    <3>3. k \in {"started", "accepted", "merged"} \cup Terminal
      BY <1>3, <2>1, <3>1 DEF MayRecord, Terminal
    <3> QED
      BY <3>1, <3>2, <3>3
  <2> QED
    BY <1>4, <1>5, <2>1, <2>2, <2>3, <2>5, <2>6 DEF CalmAt, NumberedAt, KeptAt,
         Untroubled, Terminal
<1>11. ~AppendFails(p) /\ ~ReplaceFails(p) /\ ~RecoverRead(p)
  BY <1>3 DEF AppendFails, ReplaceFails, RecoverRead
<1> QED
  BY <1>7, <1>8, <1>9, <1>10, <1>11 DEF CommitStep

LEMMA CalmRecord ==
  ASSUME Watched, Watched', Calmness, calm, UNCHANGED calm, NEW p \in Processes,
         NEW t \in Turns, RuntimeStep(p, t), NEW u \in Turns
  PROVE  CalmAt(u)'
<1>1. Steady /\ Shape /\ TypeOK /\ StepOf(p) /\ Story /\ CalmAt(u) /\ CalmAt(t)
  BY DEF Watched, Steady, Shape, StepOf, Calmness
<1>2. PICK e \in Kinds :
         /\ MayRecord(life[t], e) /\ Record(p, t, e, StateOf(e))
         /\ \/ owner[t] = p /\ life[t] # "new" /\ UNCHANGED owner
            \/ owner[t] = Nobody /\ owner' = [owner EXCEPT ![t] = p]
  BY <1>1, RuntimeRecords
<1>3. /\ ~Busy(p) /\ op'[p] = Recording(t, e, StateOf(e)) /\ p # Nobody
      /\ \A q \in Processes \ {p} : op'[q] = op[q]
  BY <1>1, <1>2, RecordStep, NobodyAssumption
<1>4. /\ UNCHANGED <<log, life, answer>>
      /\ sequence' = [sequence EXCEPT ![t] = sequence[t] + 1]
  BY <1>2 DEF Record, disk
<1>5. CASE u = t
  <2>1. owner'[t] = p /\ sequence'[t] = sequence[t] + 1 /\ sequence[t] \in Nat
        /\ Len(log[t]) \in Nat
    BY <1>1, <1>2, <1>4 DEF TypeOK
  <2>2. ~Unwritten(t) /\ ~Writing(t, {"replace"})
    BY <1>2, <1>3 DEF Unwritten, Writing, Busy
  <2>3. Unwritten(t)'
    BY <1>3, <2>1 DEF Unwritten, Writing, Recording
  <2>4. NumberedAt(t)'
    BY <1>1, <1>4, <2>1, <2>2, <2>3 DEF CalmAt, NumberedAt
  <2>5. Untroubled(t)' /\ KeptAt(t)'
    BY <1>1, <1>2, <1>4 DEF CalmAt, Untroubled, KeptAt, MayRecord
  <2> QED
    BY <1>5, <2>4, <2>5 DEF CalmAt
<1>6. CASE u # t
  <2>1. owner'[u] = owner[u] /\ sequence'[u] = sequence[u]
    BY <1>1, <1>2, <1>4, <1>6 DEF TypeOK
  <2>2. owner[u] \in Processes \cup {Nobody}
    BY <1>1 DEF TypeOK
  <2>3. CASE owner[u] = p
    <3>1. /\ ~Writing(u, {"lock", "append"}) /\ ~Writing(u, {"replace"})
          /\ ~Writing(u, {"lock", "append"})'
      BY <1>3, <1>6, <2>1, <2>3 DEF Writing, Busy, Recording
    <3> QED
      BY <1>1, <1>4, <2>1, <3>1, QuietCalm
  <2>4. CASE owner[u] # p
    BY <1>3, <2>1, <2>2, <2>4, <1>1, <1>4, QuietCalm DEF Writing
  <2> QED
    BY <2>3, <2>4
<1> QED
  BY <1>5, <1>6

LEMMA CalmProcess ==
  ASSUME Watched, Watched', Calmness, calm, UNCHANGED calm, NEW p \in Processes,
         \/ Start(p) \/ Serve(p) \/ Crash(p)
         \/ \E t \in Turns : RecoverNext(p, t),
         NEW u \in Turns
  PROVE  CalmAt(u)'
<1>1. Steady /\ Shape /\ TypeOK /\ StepOf(p) /\ Story /\ CalmAt(u)
      /\ owner[u] \in Processes \cup {Nobody} /\ p # Nobody
  BY NobodyAssumption DEF Watched, Steady, Shape, StepOf, Calmness, TypeOK
<1>2. UNCHANGED <<log, answer, sequence, owner>>
  BY DEF Start, Serve, Crash, RecoverNext, disk
<1>3. \A q \in Processes \ {p} : op'[q] = op[q]
  BY <1>1, OthersKeepPlaces
<1>4. CASE Start(p) \/ Serve(p)
  BY <1>4, <1>2, <1>1, QuietCalm DEF Start, Serve, Writing
<1>5. ASSUME NEW t \in Turns, RecoverNext(p, t) PROVE CalmAt(u)'
  <2>1. ~Busy(p) /\ op'[p] = Looking(t) /\ life' = life
    BY <1>1, <1>5, NextTurnStep DEF RecoverNext
  <2>2. CASE owner[u] = p
    BY <1>2, <2>1, <2>2, <1>1, QuietCalm DEF Writing, Busy, Looking
  <2>3. CASE owner[u] # p
    BY <1>1, <1>2, <1>3, <2>3, <2>1, QuietCalm DEF Writing
  <2> QED
    BY <2>2, <2>3
<1>6. CASE Crash(p)
  <2>1. /\ life' = [w \in Turns |-> IF owner[w] = p THEN "ended" ELSE life[w]]
        /\ process'[p] = "down"
    BY <1>1, <1>6 DEF Crash, TypeOK
  <2>2. CASE owner[u] = p
    BY <1>2, <2>1, <2>2, <1>1 DEF CalmAt, NumberedAt, KeptAt, Untroubled
  <2>3. CASE owner[u] # p
    BY <1>1, <1>2, <1>3, <2>3, <2>1, QuietCalm DEF Writing
  <2> QED
    BY <2>2, <2>3
<1> QED
  BY <1>4, <1>5, <1>6

LEMMA CalmCommit ==
  ASSUME Watched, Watched', Calmness, calm, UNCHANGED calm, NEW p \in Processes,
         CommitStep(p), NEW u \in Turns
  PROVE  CalmAt(u)'
<1>0. PICK t : t = op[p].turn
  OBVIOUS
<1>1. Busy(p) /\ (RuntimeOp(p) \/ RecoveryOp(p)) /\ StepOf(p)
  BY DEF CommitStep, TakeLock, RecoverRead, AppendEvent, RefuseEvent, AppendFails,
       ReplaceSnapshot, ReplaceFails, Busy, Watched, Steady, Shape, OpKnown, StepOf
<1>2. CASE u = t
  BY <1>0, <1>1, <1>2, CalmRuntime, CalmRecovery
<1>3. CASE u # t
  BY <1>0, <1>1, <1>3, CommitElsewhere, QuietCalm
<1> QED
  BY <1>2, <1>3

LEMMA CalmStep ==
  ASSUME Watched, Watched', Calmness, [Next]_vars
  PROVE  Calmness'
<1>1. CASE UNCHANGED vars
  BY <1>1 DEF Calmness, OneAlive, CalmAt, NumberedAt, KeptAt, Untroubled, Unwritten,
       Writing, vars
<1>2. CASE Next
  <2> SUFFICES ASSUME calm'
               PROVE  OneAlive' /\ \A u \in Turns : CalmAt(u)'
    BY DEF Calmness
  <2>1. UNCHANGED calm /\ calm
    BY <1>2 DEF Next
  <2>2. PICK p \in Processes : StepOf(p)
    BY <1>2 DEF Next, StepOf
  <2>3. OneAlive'
    BY <2>1, <2>2, Alone
  <2>4. ASSUME NEW u \in Turns PROVE CalmAt(u)'
    BY <2>1, <2>2, CalmCommit, CalmProcess, CalmRecord DEF StepOf
  <2> QED
    BY <2>3, <2>4
<1> QED
  BY <1>1, <1>2

(* "The event log is the fact source": it tells one story of each turn,    *)
(* snapshots, handles and answers follow it, and in a calm directory no    *)
(* event is refused and no turn is left without an end (run_store.py,      *)
(* turn_runtime.py), for any number of processes, turns and crashes.       *)
THEOREM TheLogIsTheTruth == Spec => []LogIsTheTruth
<1>1. Init => Calmness
  <2> SUFFICES ASSUME Init
               PROVE  OneAlive /\ \A t \in Turns : CalmAt(t)
    BY DEF Calmness
  <2>1. OneAlive
    BY DEF Init, OneAlive
  <2>2. \A t \in Turns : ~Unwritten(t) /\ life[t] = "new" /\ log[t] = <<>>
                         /\ sequence[t] = 0 /\ answer[t] = "none"
    BY DEF Init, Unwritten, Writing
  <2>3. \A t \in Turns : CalmAt(t)
    BY <2>2 DEF CalmAt, NumberedAt, KeptAt, Untroubled, Ended
  <2> QED
    BY <2>1, <2>3
<1>2. Watched /\ Watched' /\ Calmness /\ [Next]_vars => Calmness'
  BY CalmStep
<1>3. Watched /\ Calmness => LogIsTheTruth
  <2> SUFFICES ASSUME Watched, Calmness
               PROVE  LogIsTheTruth
    OBVIOUS
  <2>1. TypeOK /\ \A t \in Turns : StoryOf(t)
    BY DEF Watched, Steady, Shape, Story
  <2>2. OneStory
    BY <2>1 DEF OneStory, StoryOf
  <2>3. WhatIsShownIsLogged
    BY <2>1 DEF WhatIsShownIsLogged, SnapshotFollowsLog, HandleIsDurable, AnswerIsLogged,
         StoryOf
  <2>4. CalmLosesNothing
    BY DEF CalmLosesNothing, NeverRefused, NothingIsDropped, Calmness, CalmAt, KeptAt,
         Untroubled
  <2> QED
    BY <2>2, <2>3, <2>4 DEF LogIsTheTruth
<1> QED
  BY <1>1, <1>2, <1>3, WatchedAlways, PTL DEF Spec
=============================================================================
