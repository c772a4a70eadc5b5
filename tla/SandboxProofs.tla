--------------------------- MODULE SandboxProofs ---------------------------
(***************************************************************************)
(* Proofs about a session's agent: the containers its tools run in, and    *)
(* the turns that call them.                                               *)
(* SandboxSession, for any processes, containers, executions, engines and  *)
(* bounds.  The inductive invariant says what a process may rely on        *)
(* whatever the others do: the lease of the session that it has not        *)
(* invalidated and of the record it cleans up, and a record for every      *)
(* container before there is one.  One lemma for each action.              *)
(* AgentTurn, for any settings and number of turns.  The inductive         *)
(* invariant TurnsFit relates each thread's place to its coroutine, its    *)
(* counters, the entries and the task state of its turn, and the tool      *)
(* calls it has yet to record to the conversation: that is paired once     *)
(* their results are added.  One lemma for each part and kind of step.     *)
(***************************************************************************)
EXTENDS SandboxSession, AgentTurn, QueueLemmas

-----------------------------------------------------------------------------
(* The inductive invariant.                                                *)

HostType == [session : Tokens \cup {None}, broken : BOOLEAN, mine : RecordStates,
             step : Steps, cur : Tokens \cup {None}, eng : Engines \cup {None},
             todo : SUBSET Tokens, bad : BOOLEAN,
             why : {"start", "sweep", "stop", "fail"}, job : Shells \cup {None}]
ExecType == [host : Hosts \cup {None}, box : Tokens \cup {None},
             phase : {"new", "open", "done", "failed", "stale", "unclean", "orphan"},
             guest : {"none", "requested", "running", "dead", "refused"},
             tomb : BOOLEAN]
RecordType == [state : RecordStates, daemon : Engines \cup {None}]
BoxType == [state : {"none", "requested", "present", "gone"}, at : Engines \cup {None}]

\* Where a process cleans up a container, and where it has a session.
Cleaning == {"lookup", "remove", "close"}
Owning == {"create", "ack", "boot", "abort", "run", "wait", "finish"}
Made == {"present", "gone"}

\* What a process may rely on, whatever the others do: it holds the lease of
\* the session that it has not invalidated, and of what it cleans up.
OwnerFits(h) ==
  LET me == host[h] IN
  /\ me.session # None => record[me.session].state # "none"
  /\ me.session # None /\ ~me.broken => lease[me.session] = h
  /\ me.session # None /\ me.mine = "created" => box[me.session].state \in Made
  /\ me.step \in Owning => me.session # None
  /\ me.step \in {"create", "ack"} => ~me.broken /\ record[me.session].state = "intent"
  /\ me.step = "create" => box[me.session].state = "none"
  /\ me.step = "ack" => box[me.session].state \in Made
CleanerFits(h) ==
  LET me == host[h] IN
  /\ me.step \in Cleaning =>
       /\ me.cur # None /\ lease[me.cur] = h
       /\ me.why \in {"stop", "fail"} => me.cur = me.session
       /\ me.cur = me.session => me.broken
  /\ me.step = "remove" => box[me.cur].state \in Made
  /\ me.step = "close" /\ MaxMoves = 0 => box[me.cur].state = "gone"
  /\ me.step = "scan" => me.why \in {"start", "sweep"}
\* Nobody begins anew who has lost a session and was not stopped.
LatchFits(h) ==
  LET me == host[h] IN
  /\ me.step \in Cleaning \cup {"scan"} /\ me.why = "start" => ~me.broken
  /\ me.step = "claim" => ~me.broken
  /\ lost[h] => me.broken
HostFits(h) == OwnerFits(h) /\ CleanerFits(h) /\ LatchFits(h)

\* A token has a record before it has a container; one whose creation was
\* acknowledged was made.  With one engine a closed record's is gone.
RecordsFit ==
  \A t \in Tokens :
    /\ box[t].state # "none" => record[t].state # "none"
    /\ record[t].state = "created" => box[t].state \in Made
    /\ MaxMoves = 0 /\ record[t].state = "closed" => box[t].state = "gone"
    /\ MaxMoves = 0 /\ box[t].state # "none" => box[t].at = engine

SessionsDiffer ==
  \A h, g \in Hosts : h # g /\ host[h].session # None => host[h].session # host[g].session

ExecsFit ==
  \A e \in Execs :
    /\ exec[e].phase \in {"open", "unclean"} => exec[e].box # None /\ exec[e].host # None
    /\ exec[e].phase = "done" => exec[e].tomb /\ exec[e].guest # "running"

SandboxInvariant ==
  /\ TypeOK /\ RecordsFit /\ SessionsDiffer /\ ExecsFit /\ \A h \in Hosts : HostFits(h)

LEMMA Typed ==
  ASSUME TypeOK
  PROVE  /\ record \in [Tokens -> RecordType] /\ lease \in [Tokens -> Hosts \cup {None}]
         /\ box \in [Tokens -> BoxType] /\ host \in [Hosts -> HostType]
         /\ exec \in [Execs -> ExecType] /\ engine \in Engines /\ lost \in [Hosts -> BOOLEAN]
         /\ MaxFaults \in Nat /\ MaxMoves \in Nat /\ MaxCrashes \in Nat
  BY SandboxAssumption DEF TypeOK, RecordType, BoxType, HostType, ExecType, MaxFaults,
     MaxMoves, MaxCrashes

-----------------------------------------------------------------------------
(* What a step of one process does to the others.                          *)

\* Records do not vanish, nor is a container made twice; what another process
\* has leased is left alone.
WorldMoves(h) ==
  /\ record' \in [Tokens -> RecordType] /\ box' \in [Tokens -> BoxType]
  /\ lease' \in [Tokens -> Hosts \cup {None}]
  /\ \A t \in Tokens :
       /\ record[t].state # "none" => record'[t].state # "none"
       /\ box[t].state \in Made => box'[t].state \in Made
       /\ box[t].state = "gone" => box'[t].state = "gone"
       /\ lease[t] \notin {h, None} =>
            /\ lease'[t] = lease[t] /\ record'[t].state = record[t].state
            /\ box[t].state = "none" => box'[t].state = "none"

OthersStay(h) == \A g \in Hosts \ {h} : host'[g] = host[g] /\ lost'[g] = lost[g]

LEMMA OthersFit ==
  ASSUME SandboxInvariant, NEW h, WorldMoves(h), OthersStay(h), setting' = setting
  PROVE  \A g \in Hosts \ {h} : HostFits(g)'
<1> SUFFICES ASSUME NEW g \in Hosts \ {h}
             PROVE  HostFits(g)'
  OBVIOUS
<1>1. /\ host[g] \in HostType /\ host'[g] = host[g] /\ lost'[g] = lost[g]
      /\ MaxMoves' = MaxMoves /\ g # None /\ HostFits(g)
  BY Typed, SandboxAssumption DEF SandboxInvariant, OthersStay, MaxMoves
<1>2. host[g].session \in Tokens \cup {None} /\ host[g].cur \in Tokens \cup {None}
  BY <1>1 DEF HostType
<1>3. OwnerFits(g)'
  BY <1>1, <1>2 DEF WorldMoves, HostFits, OwnerFits, Owning
<1>4. CleanerFits(g)'
  <2>1. CASE host[g].step \in Cleaning
    <3>1. /\ host[g].cur \in Tokens /\ lease[host[g].cur] = g
          /\ host[g].why \in {"stop", "fail"} => host[g].cur = host[g].session
          /\ host[g].cur = host[g].session => host[g].broken
      BY <1>1, <1>2, <2>1 DEF HostFits, CleanerFits
    <3>2. /\ lease'[host[g].cur] = g
          /\ box[host[g].cur].state \in Made => box'[host[g].cur].state \in Made
          /\ box[host[g].cur].state = "gone" => box'[host[g].cur].state = "gone"
      BY <1>1, <3>1 DEF WorldMoves
    <3> QED
      BY <1>1, <3>1, <3>2 DEF HostFits, CleanerFits, Cleaning
  <2>2. CASE host[g].step \notin Cleaning
    BY <1>1, <2>2 DEF HostFits, CleanerFits, Cleaning
  <2> QED
    BY <2>1, <2>2
<1>5. LatchFits(g)'
  BY <1>1 DEF HostFits, LatchFits
<1> QED
  BY <1>3, <1>4, <1>5 DEF HostFits

LEMMA SessionsStayDifferent ==
  ASSUME SandboxInvariant, NEW h \in Hosts, OthersStay(h),
         \/ host'[h].session \in {host[h].session, None}
         \/ host'[h].session \in Tokens /\ record[host'[h].session].state = "none"
  PROVE  SessionsDiffer'
<1>1. CASE host'[h].session \in {host[h].session, None}
  BY <1>1 DEF SandboxInvariant, SessionsDiffer, OthersStay
<1>2. CASE host'[h].session \in Tokens /\ record[host'[h].session].state = "none"
  <2>1. \A g \in Hosts : host[g].session # host'[h].session
    BY <1>2, SandboxAssumption DEF SandboxInvariant, HostFits, OwnerFits
  <2> QED
    BY <2>1 DEF SandboxInvariant, SessionsDiffer, OthersStay
<1> QED
  BY <1>1, <1>2

-----------------------------------------------------------------------------
(* Putting a step together.                                                *)

Paid == Fault \/ Smooth

\* Only h changes; a session that it enters is one nobody has had.
HostMoves(h) ==
  /\ host' \in [Hosts -> HostType] /\ lost' \in [Hosts -> BOOLEAN] /\ OthersStay(h)
  /\ \/ host'[h].session \in {host[h].session, None}
     \/ host'[h].session \in Tokens /\ record[host'[h].session].state = "none"

LEMMA StepIsTyped ==
  ASSUME TypeOK, Paid, setting' = setting,
         record' \in [Tokens -> RecordType], lease' \in [Tokens -> Hosts \cup {None}],
         box' \in [Tokens -> BoxType], host' \in [Hosts -> HostType],
         exec' \in [Execs -> ExecType], engine' \in Engines, lost' \in [Hosts -> BOOLEAN]
  PROVE  TypeOK'
<1>1. /\ MaxFaults' = MaxFaults /\ MaxCrashes' = MaxCrashes /\ MaxMoves' = MaxMoves
      /\ MaxFaults \in Nat
  BY Typed DEF MaxFaults, MaxCrashes, MaxMoves
<1>2. /\ faults' \in 0..MaxFaults' /\ crashes' \in 0..MaxCrashes' /\ moves' \in 0..MaxMoves'
      /\ setting' \in Settings
  BY <1>1 DEF Paid, Fault, Smooth, budget, TypeOK
<1> QED
  BY <1>2 DEF TypeOK, RecordType, BoxType, HostType, ExecType

LEMMA StepHolds ==
  ASSUME SandboxInvariant, NEW h \in Hosts, Paid, setting' = setting,
         WorldMoves(h), HostMoves(h), exec' \in [Execs -> ExecType], engine' \in Engines,
         RecordsFit', ExecsFit', HostFits(h)'
  PROVE  SandboxInvariant'
<1>1. TypeOK'
  BY StepIsTyped DEF WorldMoves, HostMoves, SandboxInvariant
<1>2. \A g \in Hosts : HostFits(g)'
  BY OthersFit DEF HostMoves
<1>3. SessionsDiffer'
  BY SessionsStayDifferent DEF HostMoves
<1> QED
  BY <1>1, <1>2, <1>3 DEF SandboxInvariant

-----------------------------------------------------------------------------
(* Cleanup.                                                                *)

\* Whatever came of the cleanup, the process no longer needs the lease.
LEMMA CleanupEnds ==
  ASSUME SandboxInvariant, NEW h \in Hosts, setting' = setting,
         host[h].step \in Cleaning,
         Cleaned(h) \/ NotCleaned(h, host[h].mine) \/ NotCleaned(h, "closed"),
         record' \in [Tokens -> RecordType], box' \in [Tokens -> BoxType],
         \A t \in Tokens : /\ record[t].state # "none" => record'[t].state # "none"
                           /\ box[t].state \in Made => box'[t].state \in Made
  PROVE  /\ HostMoves(h) /\ HostFits(h)'
         /\ lease' \in [Tokens -> Hosts \cup {None}]
         /\ \A t \in Tokens : lease[t] \notin {h, None} => lease'[t] = lease[t]
<1>1. /\ host \in [Hosts -> HostType] /\ lease \in [Tokens -> Hosts \cup {None}]
      /\ lost \in [Hosts -> BOOLEAN] /\ HostFits(h) /\ None \notin Tokens
  BY Typed, SandboxAssumption DEF SandboxInvariant
<1>2. /\ host[h] \in HostType /\ host[h].cur \in Tokens /\ lease[host[h].cur] = h
      /\ CleansOwn(h) => host[h].cur = host[h].session
      /\ host[h].cur = host[h].session => host[h].broken
  BY <1>1 DEF HostFits, CleanerFits, HostType, CleansOwn
<1>3. lease' = [lease EXCEPT ![host[h].cur] = None]
  BY DEF Cleaned, NotCleaned, Released
<1>4. HostMoves(h)
  BY <1>1, <1>2 DEF Cleaned, NotCleaned, HostMoves, OthersStay, HostType, RecordStates, Steps,
     Latched
<1>5. HostFits(h)'
  <2>1. OwnerFits(h)'
    BY <1>1, <1>2, <1>3 DEF Cleaned, NotCleaned, HostFits, OwnerFits, Owning, HostType
  <2>2. CleanerFits(h)'
    BY <1>1, <1>2 DEF Cleaned, NotCleaned, CleanerFits, Cleaning, CleansOwn, HostType
  <2>3. LatchFits(h)'
    BY <1>1, <1>2
    DEF Cleaned, NotCleaned, LatchFits, HostFits, Cleaning, CleansOwn, HostType, Latched
  <2> QED
    BY <2>1, <2>2, <2>3 DEF HostFits
<1> QED
  BY <1>1, <1>2, <1>3, <1>4, <1>5

LEMMA RemovedKeeps ==
  ASSUME SandboxInvariant, NEW t \in Tokens, box[t].state \in Made, Removed(t),
         setting' = setting, UNCHANGED <<record, engine>>
  PROVE  /\ RecordsFit' /\ ExecsFit'
         /\ box' \in [Tokens -> BoxType] /\ exec' \in [Execs -> ExecType]
         /\ \A s \in Tokens : /\ box[s].state \in Made => box'[s].state \in Made
                              /\ box[s].state = "gone" => box'[s].state = "gone"
                              /\ s # t => box'[s] = box[s]
<1>1. /\ box \in [Tokens -> BoxType] /\ exec \in [Execs -> ExecType]
      /\ MaxMoves' = MaxMoves
  BY Typed DEF SandboxInvariant, MaxMoves
<1>2. /\ box' = [box EXCEPT ![t].state = "gone"] /\ box' \in [Tokens -> BoxType]
      /\ \A s \in Tokens : /\ box'[s].at = box[s].at
                           /\ box'[s].state = IF s = t THEN "gone" ELSE box[s].state
                           /\ s # t => box'[s] = box[s]
  BY <1>1 DEF Removed, BoxType
<1>3. RecordsFit'
  BY <1>1, <1>2 DEF SandboxInvariant, RecordsFit, Made
<1>4. exec' \in [Execs -> ExecType] /\ ExecsFit'
  <2>1. ASSUME NEW e \in Execs
        PROVE  /\ exec'[e] \in ExecType
               /\ exec'[e].phase = exec[e].phase /\ exec'[e].box = exec[e].box
               /\ exec'[e].host = exec[e].host /\ exec'[e].tomb = exec[e].tomb
               /\ exec'[e].guest \in {exec[e].guest, "dead"}
    BY <1>1 DEF Removed, ExecType
  <2>2. DOMAIN exec' = Execs /\ exec' = [e \in Execs |-> exec'[e]]
    BY DEF Removed
  <2>3. exec' \in [Execs -> ExecType]
    BY <2>1, <2>2
  <2> QED
    BY <2>1, <2>3 DEF SandboxInvariant, ExecsFit
<1> QED
  BY <1>1, <1>2, <1>3, <1>4 DEF Made

\* While nothing but a process and leases change, records and executions fit.
LEMMA WorldStays ==
  ASSUME SandboxInvariant, setting' = setting, UNCHANGED <<record, world, exec>>
  PROVE  /\ RecordsFit' /\ ExecsFit' /\ engine' \in Engines
         /\ record' \in [Tokens -> RecordType] /\ box' \in [Tokens -> BoxType]
         /\ exec' \in [Execs -> ExecType]
  BY Typed DEF SandboxInvariant, world, RecordsFit, ExecsFit, MaxMoves

LEMMA LookupKeeps ==
  ASSUME SandboxInvariant, NEW h \in Hosts, setting' = setting, Lookup(h)
  PROVE  SandboxInvariant'
<1>1. /\ host \in [Hosts -> HostType] /\ lease \in [Tokens -> Hosts \cup {None}]
      /\ lost \in [Hosts -> BOOLEAN] /\ HostFits(h) /\ None \notin Tokens
      /\ MaxMoves' = MaxMoves /\ RecordsFit
  BY Typed, SandboxAssumption DEF SandboxInvariant, MaxMoves
<1>2. /\ host[h] \in HostType /\ host[h].cur \in Tokens /\ lease[host[h].cur] = h
      /\ CleansOwn(h) => host[h].cur = host[h].session
      /\ host[h].step = "lookup" /\ host[h].step \in Cleaning
  BY <1>1 DEF HostFits, CleanerFits, HostType, CleansOwn, Lookup, At, Cleaning
<1>3. /\ RecordsFit' /\ ExecsFit' /\ engine' \in Engines
      /\ record' \in [Tokens -> RecordType] /\ box' \in [Tokens -> BoxType]
      /\ exec' \in [Execs -> ExecType] /\ record' = record /\ box' = box
  BY WorldStays DEF Lookup, world
<1>4. Paid
  BY DEF Lookup, Paid
<1>5. ASSUME NEW s \in {"remove", "close"}, Goto(h, s), UNCHANGED <<lease, lost>>,
             s = "remove" => box[host[h].cur].state \in Made,
             s = "close" /\ MaxMoves = 0 => box[host[h].cur].state = "gone"
      PROVE  SandboxInvariant'
  <2>1. /\ host' \in [Hosts -> HostType]
        /\ \A g \in Hosts \ {h} : host'[g] = host[g]
        /\ host'[h] = [host[h] EXCEPT !.step = s]
    BY <1>1, <1>5 DEF Goto, HostType, Steps
  <2>2. HostMoves(h) /\ WorldMoves(h)
    BY <1>1, <1>2, <1>3, <1>5, <2>1 DEF HostMoves, WorldMoves, OthersStay, HostType
  <2>3. HostFits(h)'
    BY <1>1, <1>2, <1>3, <1>5, <2>1
    DEF HostFits, OwnerFits, CleanerFits, LatchFits, Owning, Cleaning, HostType
  <2> QED
    BY <1>3, <1>4, <2>2, <2>3, StepHolds
<1>6. CASE Here(host[h].cur) /\ Goto(h, "remove") /\ UNCHANGED <<lease, lost>>
  BY <1>5, <1>6 DEF Here, Made
<1>7. CASE /\ ~Here(host[h].cur) /\ MayClose(h) /\ Goto(h, "close")
           /\ UNCHANGED <<lease, lost>>
  <2>1. box[host[h].cur].state \in Made
    BY <1>1, <1>2, <1>7
    DEF MayClose, Known, RecordsFit, HostFits, OwnerFits
  <2>2. MaxMoves = 0 => box[host[h].cur].state = "gone"
    BY <1>1, <1>2, <1>7, <2>1 DEF Here, RecordsFit, Made
  <2> QED
    BY <1>5, <1>7, <2>2
<1>8. CASE Cleaned(h) \/ NotCleaned(h, host[h].mine)
  <2>1. /\ HostMoves(h) /\ HostFits(h)'
        /\ lease' \in [Tokens -> Hosts \cup {None}]
        /\ \A t \in Tokens : lease[t] \notin {h, None} => lease'[t] = lease[t]
    BY <1>2, <1>3, <1>8, CleanupEnds
  <2>2. WorldMoves(h)
    BY <1>3, <2>1 DEF WorldMoves
  <2> QED
    BY <1>3, <1>4, <2>1, <2>2, StepHolds
<1> QED
  BY <1>6, <1>7, <1>8 DEF Lookup

LEMMA RemoveKeeps ==
  ASSUME SandboxInvariant, NEW h \in Hosts, setting' = setting, RemoveBox(h)
  PROVE  SandboxInvariant'
<1>1. /\ host \in [Hosts -> HostType] /\ lease \in [Tokens -> Hosts \cup {None}]
      /\ lost \in [Hosts -> BOOLEAN] /\ HostFits(h) /\ None \notin Tokens
      /\ MaxMoves' = MaxMoves /\ record \in [Tokens -> RecordType]
      /\ box \in [Tokens -> BoxType] /\ engine \in Engines
  BY Typed, SandboxAssumption DEF SandboxInvariant, MaxMoves
<1>2. /\ host[h] \in HostType /\ host[h].cur \in Tokens /\ lease[host[h].cur] = h
      /\ host[h].step = "remove" /\ host[h].step \in Cleaning
      /\ box[host[h].cur].state \in Made /\ record' = record /\ engine' = engine
  BY <1>1 DEF HostFits, CleanerFits, HostType, RemoveBox, At, Cleaning
<1>3. Paid
  BY DEF RemoveBox, Paid
<1>4. /\ RecordsFit' /\ ExecsFit' /\ exec' \in [Execs -> ExecType]
      /\ box' \in [Tokens -> BoxType]
      /\ \A s \in Tokens : /\ box[s].state \in Made => box'[s].state \in Made
                           /\ box[s].state = "gone" => box'[s].state = "gone"
                           /\ s # host[h].cur => box'[s] = box[s]
  <2>1. CASE Removed(host[h].cur)
    BY <1>2, <2>1, RemovedKeeps
  <2>2. CASE UNCHANGED <<box, exec>>
    BY <1>1, <1>2, <2>2, WorldStays DEF world
  <2> QED
    BY <2>1, <2>2 DEF RemoveBox
<1>5. CASE Removed(host[h].cur) /\ Goto(h, "close") /\ UNCHANGED <<lease, lost>>
  <2>1. /\ host' \in [Hosts -> HostType]
        /\ \A g \in Hosts \ {h} : host'[g] = host[g]
        /\ host'[h] = [host[h] EXCEPT !.step = "close"]
    BY <1>1, <1>5 DEF Goto, HostType, Steps
  <2>2. HostMoves(h) /\ WorldMoves(h)
    BY <1>1, <1>2, <1>4, <1>5, <2>1 DEF HostMoves, WorldMoves, OthersStay, HostType
  <2>3. box'[host[h].cur].state = "gone"
    BY <1>1, <1>2, <1>5 DEF Removed, BoxType
  <2>4. HostFits(h)'
    BY <1>1, <1>2, <1>4, <1>5, <2>1, <2>3
    DEF HostFits, OwnerFits, CleanerFits, LatchFits, Owning, Cleaning, HostType
  <2> QED
    BY <1>2, <1>1, <1>3, <1>4, <2>2, <2>4, StepHolds
<1>6. CASE NotCleaned(h, host[h].mine)
  <2>1. /\ HostMoves(h) /\ HostFits(h)'
        /\ lease' \in [Tokens -> Hosts \cup {None}]
        /\ \A t \in Tokens : lease[t] \notin {h, None} => lease'[t] = lease[t]
    BY <1>1, <1>2, <1>4, <1>6, CleanupEnds
  <2>2. WorldMoves(h)
    BY <1>1, <1>2, <1>4, <2>1 DEF WorldMoves
  <2> QED
    BY <1>1, <1>2, <1>3, <1>4, <2>1, <2>2, StepHolds
<1> QED
  BY <1>5, <1>6 DEF RemoveBox

LEMMA CloseKeeps ==
  ASSUME SandboxInvariant, NEW h \in Hosts, setting' = setting, Close(h)
  PROVE  SandboxInvariant'
<1>1. /\ host \in [Hosts -> HostType] /\ lease \in [Tokens -> Hosts \cup {None}]
      /\ HostFits(h) /\ None \notin Tokens /\ RecordsFit /\ ExecsFit
      /\ MaxMoves' = MaxMoves /\ record \in [Tokens -> RecordType]
      /\ box \in [Tokens -> BoxType] /\ engine \in Engines /\ exec \in [Execs -> ExecType]
  BY Typed, SandboxAssumption DEF SandboxInvariant, MaxMoves
<1>2. /\ host[h] \in HostType /\ host[h].cur \in Tokens /\ lease[host[h].cur] = h
      /\ host[h].step \in Cleaning /\ (MaxMoves = 0 => box[host[h].cur].state = "gone")
      /\ box' = box /\ engine' = engine /\ exec' = exec
  BY <1>1 DEF HostFits, CleanerFits, HostType, Close, At, Cleaning, world
<1>3. Paid
  BY DEF Close, Paid
<1>4. /\ record' \in [Tokens -> RecordType]
      /\ \A t \in Tokens : /\ t # host[h].cur => record'[t] = record[t]
                           /\ record'[t].state \in {record[t].state, "closed"}
  BY <1>1, <1>2 DEF Close, RecordType, RecordStates
<1>5. RecordsFit' /\ ExecsFit'
  <2>1. ASSUME NEW t \in Tokens
        PROVE  /\ box[t].state # "none" => record'[t].state # "none"
               /\ record'[t].state = "created" => box[t].state \in Made
               /\ MaxMoves = 0 /\ record'[t].state = "closed" => box[t].state = "gone"
               /\ MaxMoves = 0 /\ box[t].state # "none" => box[t].at = engine
    <3>1. CASE t = host[h].cur
      <4>1. record'[t].state \in {record[t].state, "closed"}
        BY <1>4
      <4> QED
        BY <1>1, <1>2, <3>1, <4>1 DEF RecordsFit
    <3>2. CASE t # host[h].cur
      <4>1. record'[t] = record[t]
        BY <1>4, <3>2
      <4> QED
        BY <1>1, <4>1 DEF RecordsFit
    <3> QED
      BY <3>1, <3>2
  <2>2. RecordsFit'
    BY <1>1, <1>2, <2>1 DEF RecordsFit
  <2> QED
    BY <1>1, <1>2, <2>2 DEF ExecsFit
<1>6. /\ HostMoves(h) /\ HostFits(h)'
      /\ lease' \in [Tokens -> Hosts \cup {None}]
      /\ \A t \in Tokens : lease[t] \notin {h, None} => lease'[t] = lease[t]
  <2>1. Cleaned(h) \/ NotCleaned(h, host[h].mine) \/ NotCleaned(h, "closed")
    BY DEF Close
  <2>2. \A t \in Tokens : /\ record[t].state # "none" => record'[t].state # "none"
                          /\ box[t].state \in Made => box'[t].state \in Made
    BY <1>2, <1>4
  <2>3. /\ host[h].step \in Cleaning /\ record' \in [Tokens -> RecordType]
        /\ box' \in [Tokens -> BoxType]
    BY <1>1, <1>2, <1>4
  <2> QED
    BY <2>1, <2>2, <2>3, CleanupEnds
<1>7. WorldMoves(h)
  BY <1>1, <1>2, <1>4, <1>6 DEF WorldMoves
<1> QED
  BY <1>1, <1>2, <1>3, <1>5, <1>6, <1>7, StepHolds

\* The latch is set before anything else is tried.
LEMMA InvalidateKeeps ==
  ASSUME SandboxInvariant, NEW h \in Hosts, setting' = setting,
         NEW why \in {"stop", "fail"}, host[h].session # None, Invalidate(h, why)
  PROVE  SandboxInvariant'
<1> DEFINE t == host[h].session
<1>1. /\ host \in [Hosts -> HostType] /\ lease \in [Tokens -> Hosts \cup {None}]
      /\ lost \in [Hosts -> BOOLEAN] /\ HostFits(h) /\ None \notin Tokens
      /\ None \notin Hosts /\ engine \in Engines
  BY Typed, SandboxAssumption DEF SandboxInvariant
<1>2. /\ host[h] \in HostType /\ t \in Tokens
  BY <1>1 DEF HostType
<1>3. /\ RecordsFit' /\ ExecsFit' /\ engine' \in Engines
      /\ record' \in [Tokens -> RecordType] /\ box' \in [Tokens -> BoxType]
      /\ exec' \in [Execs -> ExecType] /\ record' = record /\ box' = box
  BY WorldStays DEF Invalidate, world
<1>4. Paid
  BY DEF Invalidate, Paid
<1> DEFINE Goal == /\ HostMoves(h) /\ HostFits(h)'
                   /\ lease' \in [Tokens -> Hosts \cup {None}]
                   /\ \A s \in Tokens : lease[s] \notin {h, None} => lease'[s] = lease[s]
<1>5. SUFFICES Goal
  <2>1. WorldMoves(h)
    BY <1>3, <1>5 DEF WorldMoves
  <2> QED
    BY <1>3, <1>4, <1>5, <2>1, StepHolds
<1> DEFINE latched == [host EXCEPT ![h].broken = TRUE, ![h].why = why, ![h].step = "idle",
                                   ![h].job = None]
<1>6. /\ latched \in [Hosts -> HostType]
      /\ \A g \in Hosts \ {h} : latched[g] = host[g]
      /\ latched[h].broken /\ latched[h].why = why /\ latched[h].step = "idle"
      /\ latched[h].session = t /\ latched[h].mine = host[h].mine
  BY <1>1, <1>2 DEF HostType, Steps
<1> HIDE DEF latched
<1>7. ASSUME host' = latched, UNCHANGED lost,
             lease' = lease \/ lease' = [lease EXCEPT ![t] = None],
             lease' = lease \/ lease[t] \in {None, h}
      PROVE  Goal
  <2>1. HostMoves(h)
    BY <1>1, <1>6, <1>7 DEF HostMoves, OthersStay
  <2>2. HostFits(h)'
    BY <1>1, <1>2, <1>3, <1>6, <1>7
    DEF HostFits, OwnerFits, CleanerFits, LatchFits, Owning, Cleaning
  <2> QED
    BY <1>1, <1>2, <1>7, <2>1, <2>2
<1>8. CASE /\ lease[t] \in {None, h} /\ lease' = [lease EXCEPT ![t] = h] /\ UNCHANGED lost
           /\ host' = [latched EXCEPT ![h].cur = t, ![h].eng = engine, ![h].step = "lookup"]
  <2>1. /\ host' \in [Hosts -> HostType]
        /\ \A g \in Hosts \ {h} : host'[g] = host[g]
        /\ host'[h].broken /\ host'[h].why = why /\ host'[h].step = "lookup"
        /\ host'[h].session = t /\ host'[h].mine = host[h].mine /\ host'[h].cur = t
    BY <1>1, <1>2, <1>6, <1>8 DEF HostType, Steps
  <2>2. HostMoves(h)
    BY <1>1, <1>8, <2>1 DEF HostMoves, OthersStay
  <2>3. HostFits(h)'
    BY <1>1, <1>2, <1>3, <1>8, <2>1
    DEF HostFits, OwnerFits, CleanerFits, LatchFits, Owning, Cleaning
  <2> QED
    BY <1>1, <1>2, <1>8, <2>2, <2>3
<1>9. CASE /\ lease[t] \in {None, h} /\ lease' = [lease EXCEPT ![t] = None]
           /\ lost' = [lost EXCEPT ![h] = why = "fail"]
           /\ host' = [latched EXCEPT ![h].session = None, ![h].broken = why = "fail"]
  <2>1. /\ host' \in [Hosts -> HostType]
        /\ \A g \in Hosts \ {h} : host'[g] = host[g]
        /\ host'[h].broken = (why = "fail") /\ host'[h].step = "idle"
        /\ host'[h].session = None
    <3>1. /\ latched[h] \in HostType /\ DOMAIN latched = Hosts
          /\ (why = "fail") \in BOOLEAN
      BY <1>6
    <3>2. [latched[h] EXCEPT !.session = None, !.broken = (why = "fail")] \in HostType
      BY <3>1 DEF HostType
    <3>3. /\ host' = [latched EXCEPT ![h] = [latched[h] EXCEPT !.session = None,
                                                            !.broken = (why = "fail")]]
          /\ \A g \in Hosts \ {h} : host'[g] = host[g]
      BY <1>6, <1>9, <3>1 DEF HostType
    <3>4. /\ host' \in [Hosts -> HostType]
          /\ host'[h] = [latched[h] EXCEPT !.session = None, !.broken = (why = "fail")]
      BY <1>6, <3>1, <3>2, <3>3
    <3> QED
      BY <1>6, <3>1, <3>3, <3>4 DEF HostType
  <2>2. /\ lost' \in [Hosts -> BOOLEAN] /\ lost'[h] = (why = "fail")
        /\ \A g \in Hosts \ {h} : lost'[g] = lost[g]
    BY <1>1, <1>9
  <2>3. HostMoves(h)
    BY <2>1, <2>2 DEF HostMoves, OthersStay
  <2>4. HostFits(h)'
    BY <1>1, <2>1, <2>2 DEF HostFits, OwnerFits, CleanerFits, LatchFits, Owning, Cleaning
  <2> QED
    BY <1>1, <1>2, <1>9, <2>3, <2>4
<1> QED
  BY <1>7, <1>8, <1>9 DEF Invalidate, latched

LEMMA AbortKeeps ==
  ASSUME SandboxInvariant, NEW h \in Hosts, setting' = setting, Abort(h)
  PROVE  SandboxInvariant'
<1>1. host[h].session # None /\ Invalidate(h, "fail")
  BY DEF Abort, At, SandboxInvariant, HostFits, OwnerFits, Owning
<1> QED
  BY <1>1, InvalidateKeeps

\* A step after which records, containers and executions are as before.
LEMMA HostAloneHolds ==
  ASSUME SandboxInvariant, NEW h \in Hosts, setting' = setting, Paid,
         UNCHANGED <<record, lease, world, exec>>, HostMoves(h), HostFits(h)'
  PROVE  SandboxInvariant'
<1>1. /\ RecordsFit' /\ ExecsFit' /\ engine' \in Engines
      /\ record' \in [Tokens -> RecordType] /\ box' \in [Tokens -> BoxType]
      /\ exec' \in [Execs -> ExecType]
  BY WorldStays
<1>2. lease' = lease /\ lease \in [Tokens -> Hosts \cup {None}]
  BY Typed DEF SandboxInvariant
<1>3. WorldMoves(h)
  BY <1>1, <1>2 DEF WorldMoves, world
<1> QED
  BY <1>1, <1>3, StepHolds

LEMMA StopKeeps ==
  ASSUME SandboxInvariant, NEW h \in Hosts, setting' = setting, Stop(h)
  PROVE  SandboxInvariant'
<1>1. CASE host[h].session # None /\ Invalidate(h, "stop")
  BY <1>1, InvalidateKeeps
<1>2. CASE /\ host[h].session = None
           /\ host' = [host EXCEPT ![h].broken = FALSE]
           /\ lost' = [lost EXCEPT ![h] = FALSE]
           /\ Smooth /\ UNCHANGED <<record, lease, world, exec>>
  <2>1. /\ host \in [Hosts -> HostType] /\ lost \in [Hosts -> BOOLEAN] /\ HostFits(h)
        /\ host[h].step = "idle"
    BY Typed DEF SandboxInvariant, Stop, Idle, At
  <2>2. /\ HostMoves(h) /\ host'[h].session = None /\ host'[h].step = "idle" /\ ~lost'[h]
    <3>1. /\ host' \in [Hosts -> HostType]
          /\ \A g \in Hosts \ {h} : host'[g] = host[g]
          /\ host'[h].session = None /\ host'[h].step = "idle"
      <4>1. /\ host[h] \in HostType
            /\ host' = [host EXCEPT ![h] = [host[h] EXCEPT !.broken = FALSE]]
        BY <1>2, <2>1 DEF HostType
      <4>2. [host[h] EXCEPT !.broken = FALSE] \in HostType
        BY <4>1 DEF HostType
      <4>3. /\ host' \in [Hosts -> HostType]
            /\ \A g \in Hosts \ {h} : host'[g] = host[g]
            /\ host'[h] = [host[h] EXCEPT !.broken = FALSE]
        BY <2>1, <4>1, <4>2
      <4> QED
        BY <1>2, <2>1, <4>1, <4>3 DEF HostType
    <3>2. /\ lost' \in [Hosts -> BOOLEAN] /\ ~lost'[h]
          /\ \A g \in Hosts \ {h} : lost'[g] = lost[g]
      BY <1>2, <2>1
    <3> QED
      BY <3>1, <3>2 DEF HostMoves, OthersStay
  <2>3. HostFits(h)'
    BY <2>2 DEF HostFits, OwnerFits, CleanerFits, LatchFits, Owning, Cleaning
  <2> QED
    BY <1>2, <2>2, <2>3, HostAloneHolds DEF Paid
<1> QED
  BY <1>1, <1>2 DEF Stop

-----------------------------------------------------------------------------
(* Recovery.                                                               *)

LEMMA BeginScanKeeps ==
  ASSUME SandboxInvariant, NEW h \in Hosts, setting' = setting,
         NEW why \in {"start", "sweep"}, NEW job \in Shells \cup {None},
         why = "start" => ~host[h].broken, BeginScan(h, why, job)
  PROVE  SandboxInvariant'
<1>1. /\ host \in [Hosts -> HostType] /\ lost \in [Hosts -> BOOLEAN] /\ HostFits(h)
      /\ engine \in Engines
  BY Typed DEF SandboxInvariant
<1>2. Recorded \in SUBSET Tokens
  BY DEF Recorded
<1>3. /\ host' \in [Hosts -> HostType]
      /\ \A g \in Hosts \ {h} : host'[g] = host[g]
      /\ host'[h].step = "scan" /\ host'[h].why = why
      /\ host'[h].session = host[h].session /\ host'[h].broken = host[h].broken
      /\ host'[h].mine = host[h].mine
  <2> DEFINE r == [host[h] EXCEPT !.step = "scan", !.why = why, !.job = job,
                                  !.todo = Recorded, !.bad = FALSE, !.eng = engine]
  <2>1. host[h] \in HostType /\ host' = [host EXCEPT ![h] = r]
    BY <1>1 DEF BeginScan
  <2>2. r \in HostType
    BY <1>1, <1>2, <2>1 DEF HostType, Steps
  <2>3. /\ r.step = "scan" /\ r.why = why /\ r.session = host[h].session
        /\ r.broken = host[h].broken /\ r.mine = host[h].mine
    BY <2>1 DEF HostType
  <2> QED
    BY <1>1, <2>1, <2>2, <2>3
<1>4. UNCHANGED <<record, lease, world, exec, lost>> /\ Paid
  BY DEF BeginScan, Paid
<1>5. HostMoves(h)
  BY <1>1, <1>3, <1>4 DEF HostMoves, OthersStay
<1>6. HostFits(h)'
  BY <1>1, <1>3, <1>4
  DEF world, HostFits, OwnerFits, CleanerFits, LatchFits, Owning, Cleaning
<1> QED
  BY <1>4, <1>5, <1>6, HostAloneHolds

LEMMA ScanNextKeeps ==
  ASSUME SandboxInvariant, NEW h \in Hosts, setting' = setting, ScanNext(h)
  PROVE  SandboxInvariant'
<1>1. /\ host \in [Hosts -> HostType] /\ lost \in [Hosts -> BOOLEAN] /\ HostFits(h)
      /\ lease \in [Tokens -> Hosts \cup {None}] /\ host[h] \in HostType
      /\ None \notin Hosts /\ host[h].step = "scan" /\ host[h].why \in {"start", "sweep"}
  BY Typed, SandboxAssumption DEF SandboxInvariant, ScanNext, At, HostFits, CleanerFits
<1>2. PICK t \in host[h].todo :
          IF MayLease(t) /\ record[t].state # "closed" /\ record[t].daemon = host[h].eng
          THEN /\ lease' = [lease EXCEPT ![t] = h]
               /\ host' = [host EXCEPT ![h].cur = t, ![h].step = "lookup"]
          ELSE host' = [host EXCEPT ![h].todo = host[h].todo \ {t}] /\ UNCHANGED lease
  BY DEF ScanNext
<1>3. t \in Tokens
  BY <1>1 DEF HostType
<1>4. UNCHANGED <<record, world, exec, lost>> /\ Paid
  BY DEF ScanNext, Paid
<1>5. CASE /\ lease[t] = None /\ lease' = [lease EXCEPT ![t] = h]
           /\ host' = [host EXCEPT ![h].cur = t, ![h].step = "lookup"]
  <2>1. /\ host' \in [Hosts -> HostType]
        /\ \A g \in Hosts \ {h} : host'[g] = host[g]
        /\ host'[h].step = "lookup" /\ host'[h].why = host[h].why /\ host'[h].cur = t
        /\ host'[h].session = host[h].session /\ host'[h].broken = host[h].broken
        /\ host'[h].mine = host[h].mine
    BY <1>1, <1>3, <1>5 DEF HostType, Steps
  <2>2. HostMoves(h)
    BY <1>1, <1>4, <2>1 DEF HostMoves, OthersStay
  <2>3. t = host[h].session => host[h].broken
    BY <1>1, <1>3, <1>5, SandboxAssumption DEF HostFits, OwnerFits
  <2>4. HostFits(h)'
    BY <1>1, <1>3, <1>4, <1>5, <2>1, <2>3, SandboxAssumption
    DEF world, HostFits, OwnerFits, CleanerFits, LatchFits, Owning, Cleaning
  <2>5. /\ RecordsFit' /\ ExecsFit' /\ engine' \in Engines
        /\ record' \in [Tokens -> RecordType] /\ box' \in [Tokens -> BoxType]
        /\ exec' \in [Execs -> ExecType]
    BY <1>4, WorldStays
  <2>6. WorldMoves(h)
    BY <1>1, <1>3, <1>4, <1>5, <2>5 DEF WorldMoves, world
  <2> QED
    BY <1>4, <2>2, <2>4, <2>5, <2>6, StepHolds
<1>6. CASE host' = [host EXCEPT ![h].todo = host[h].todo \ {t}] /\ UNCHANGED lease
  <2>1. /\ host' \in [Hosts -> HostType]
        /\ \A g \in Hosts \ {h} : host'[g] = host[g]
        /\ host'[h].step = "scan" /\ host'[h].why = host[h].why
        /\ host'[h].session = host[h].session /\ host'[h].broken = host[h].broken
        /\ host'[h].mine = host[h].mine
    BY <1>1, <1>6 DEF HostType
  <2>2. HostMoves(h)
    BY <1>1, <1>4, <2>1 DEF HostMoves, OthersStay
  <2>3. HostFits(h)'
    BY <1>1, <1>4, <1>6, <2>1
    DEF world, HostFits, OwnerFits, CleanerFits, LatchFits, Owning, Cleaning
  <2> QED
    BY <1>4, <1>6, <2>2, <2>3, HostAloneHolds
<1> QED
  BY <1>2, <1>5, <1>6 DEF MayLease

\* The step changes nothing but where the process is, and perhaps its job.
LEMMA HostStepsHolds ==
  ASSUME SandboxInvariant, NEW h \in Hosts, setting' = setting, Paid,
         UNCHANGED <<record, lease, world, exec, lost>>,
         NEW s \in Steps \ Cleaning, Goto(h, s) \/ (s = "idle" /\ GiveUp(h)),
         s \in Owning => host[h].session # None,
         s \notin {"create", "ack", "scan"}, s = "claim" => ~host[h].broken
  PROVE  SandboxInvariant'
<1>1. /\ host \in [Hosts -> HostType] /\ lost \in [Hosts -> BOOLEAN] /\ HostFits(h)
  BY Typed DEF SandboxInvariant
<1>2. /\ host' \in [Hosts -> HostType]
      /\ \A g \in Hosts \ {h} : host'[g] = host[g]
      /\ host'[h].step = s /\ host'[h].session = host[h].session
      /\ host'[h].broken = host[h].broken /\ host'[h].mine = host[h].mine
  BY <1>1 DEF Goto, GiveUp, HostType
<1>3. HostMoves(h)
  BY <1>1, <1>2 DEF HostMoves, OthersStay
<1>4. HostFits(h)'
  BY <1>1, <1>2
  DEF world, HostFits, OwnerFits, CleanerFits, LatchFits, Owning, Cleaning
<1> QED
  BY <1>3, <1>4, HostAloneHolds

LEMMA ScanEndsKeeps ==
  ASSUME SandboxInvariant, NEW h \in Hosts, setting' = setting, ScanEnds(h)
  PROVE  SandboxInvariant'
<1>1. Paid /\ UNCHANGED <<record, lease, world, exec, lost>>
  BY DEF ScanEnds, Paid
<1>2. CASE GiveUp(h)
  BY <1>1, <1>2, HostStepsHolds DEF Steps, Cleaning, Owning
<1>3. CASE host[h].why # "sweep" /\ Goto(h, "claim")
  <2>1. ~host[h].broken
    BY <1>3 DEF SandboxInvariant, HostFits, CleanerFits, LatchFits, ScanEnds, At
  <2> QED
    BY <1>1, <1>3, <2>1, HostStepsHolds DEF Steps, Cleaning, Owning
<1> QED
  BY <1>2, <1>3 DEF ScanEnds

-----------------------------------------------------------------------------
(* A new container.                                                        *)

LEMMA ClaimKeeps ==
  ASSUME SandboxInvariant, NEW h \in Hosts, setting' = setting, Claim(h)
  PROVE  SandboxInvariant'
<1>1. /\ host \in [Hosts -> HostType] /\ lost \in [Hosts -> BOOLEAN] /\ HostFits(h)
      /\ lease \in [Tokens -> Hosts \cup {None}] /\ record \in [Tokens -> RecordType]
      /\ box \in [Tokens -> BoxType] /\ exec \in [Execs -> ExecType] /\ engine \in Engines
      /\ None \notin Hosts /\ None \notin Tokens
      /\ host[h].step = "claim" /\ ~host[h].broken
  BY Typed, SandboxAssumption DEF SandboxInvariant, Claim, At, HostFits, LatchFits
<1>2. /\ UNCHANGED <<world, exec, lost>> /\ Paid
  BY DEF Claim, Paid
<1>3. ASSUME NEW t \in Tokens,
             record[t].state = "none", box[t].state = "none", lease[t] = None,
             lease' = [lease EXCEPT ![t] = h], record' = [record EXCEPT ![t] = Intent],
             host' = [host EXCEPT ![h].session = t, ![h].mine = "intent",
                                  ![h].step = "create"]
      PROVE  SandboxInvariant'
  <2>1. /\ host' \in [Hosts -> HostType]
        /\ \A g \in Hosts \ {h} : host'[g] = host[g]
        /\ host'[h].step = "create" /\ host'[h].session = t
        /\ host'[h].broken = host[h].broken /\ host'[h].mine = "intent"
    BY <1>1, <1>3 DEF HostType, Steps, RecordStates
  <2>2. /\ record' \in [Tokens -> RecordType] /\ record'[t].state = "intent"
        /\ \A s \in Tokens \ {t} : record'[s] = record[s]
    BY <1>1, <1>3 DEF Intent, RecordType, RecordStates
  <2>3. HostMoves(h)
    BY <1>1, <1>2, <1>3, <2>1 DEF HostMoves, OthersStay
  <2>4. HostFits(h)'
    BY <1>1, <1>2, <1>3, <2>1, <2>2
    DEF world, HostFits, OwnerFits, CleanerFits, LatchFits, Owning, Cleaning
  <2>5. WorldMoves(h)
    BY <1>1, <1>2, <1>3, <2>2 DEF WorldMoves, world
  <2>6. RecordsFit' /\ ExecsFit'
    <3>1. MaxMoves' = MaxMoves /\ box' = box /\ engine' = engine /\ exec' = exec
      BY <1>2 DEF MaxMoves, world
    <3>2. ASSUME NEW s \in Tokens
          PROVE  /\ box[s].state # "none" => record'[s].state # "none"
                 /\ record'[s].state = "created" => box[s].state \in Made
                 /\ MaxMoves = 0 /\ record'[s].state = "closed" => box[s].state = "gone"
                 /\ MaxMoves = 0 /\ box[s].state # "none" => box[s].at = engine
      BY <1>3, <2>2 DEF SandboxInvariant, RecordsFit
    <3> QED
      BY <3>1, <3>2 DEF SandboxInvariant, RecordsFit, ExecsFit
  <2>7. engine' \in Engines /\ exec' \in [Execs -> ExecType]
    BY <1>1, <1>2 DEF world
  <2> QED
    BY <1>2, <2>3, <2>4, <2>5, <2>6, <2>7, StepHolds
<1>4. CASE GiveUp(h) /\ UNCHANGED <<record, lease>>
  BY <1>2, <1>4, HostStepsHolds DEF Steps, Cleaning, Owning
<1> QED
  BY <1>3, <1>4 DEF Claim

LEMMA CreateKeeps ==
  ASSUME SandboxInvariant, NEW h \in Hosts, setting' = setting, Create(h)
  PROVE  SandboxInvariant'
<1> DEFINE t == host[h].session
<1>1. /\ host \in [Hosts -> HostType] /\ lost \in [Hosts -> BOOLEAN] /\ HostFits(h)
      /\ lease \in [Tokens -> Hosts \cup {None}] /\ record \in [Tokens -> RecordType]
      /\ box \in [Tokens -> BoxType] /\ exec \in [Execs -> ExecType] /\ engine \in Engines
      /\ None \notin Hosts /\ host[h].step = "create" /\ host[h] \in HostType
  BY Typed, SandboxAssumption DEF SandboxInvariant, Create, At
<1>2. /\ t \in Tokens /\ ~host[h].broken /\ lease[t] = h /\ record[t].state = "intent"
      /\ box[t].state = "none"
  BY <1>1 DEF HostFits, OwnerFits, Owning, HostType
<1>3. /\ UNCHANGED <<record, lease, exec, engine, lost>> /\ Paid
      /\ \E s \in {"none", "requested", "present"} :
            box' = [box EXCEPT ![t] = [state |-> s, at |-> engine]]
      /\ \/ /\ Goto(h, "ack")
            /\ box' = [box EXCEPT ![t] = [state |-> "present", at |-> engine]]
         \/ Goto(h, "abort")
  BY DEF Create, Paid
<1>4. PICK s \in {"none", "requested", "present"} :
            box' = [box EXCEPT ![t] = [state |-> s, at |-> engine]]
  BY <1>3
<1>5. /\ box' \in [Tokens -> BoxType] /\ box'[t] = [state |-> s, at |-> engine]
      /\ \A u \in Tokens \ {t} : box'[u] = box[u]
  <2>1. [state |-> s, at |-> engine] \in BoxType
    BY <1>1 DEF BoxType
  <2> QED
    BY <1>1, <1>2, <1>4, <2>1
<1>6. box'[t].state = s /\ box'[t].at = engine
  BY <1>5
<1>7. WorldMoves(h)
  BY <1>1, <1>2, <1>3, <1>5, <1>6 DEF WorldMoves, Made
<1>8. RecordsFit' /\ ExecsFit'
  <2>1. MaxMoves' = MaxMoves /\ record' = record /\ engine' = engine /\ exec' = exec
    BY <1>3 DEF MaxMoves
  <2>2. ASSUME NEW u \in Tokens
        PROVE  /\ box'[u].state # "none" => record[u].state # "none"
               /\ record[u].state = "created" => box'[u].state \in Made
               /\ MaxMoves = 0 /\ record[u].state = "closed" => box'[u].state = "gone"
               /\ MaxMoves = 0 /\ box'[u].state # "none" => box'[u].at = engine
    BY <1>2, <1>5, <1>6 DEF SandboxInvariant, RecordsFit
  <2> QED
    BY <2>1, <2>2 DEF SandboxInvariant, RecordsFit, ExecsFit
<1>9. /\ HostMoves(h) /\ HostFits(h)'
  <2>1. PICK p \in {"ack", "abort"} : Goto(h, p) /\ (p = "ack" => box'[t].state = "present")
    BY <1>1, <1>2, <1>3
  <2>2. /\ host' \in [Hosts -> HostType]
        /\ \A g \in Hosts \ {h} : host'[g] = host[g]
        /\ host'[h].step = p /\ host'[h].session = t
        /\ host'[h].broken = host[h].broken /\ host'[h].mine = host[h].mine
    BY <1>1, <2>1 DEF Goto, HostType, Steps
  <2>3. HostMoves(h)
    BY <1>1, <1>3, <2>2 DEF HostMoves, OthersStay
  <2>4. HostFits(h)'
    BY <1>1, <1>2, <1>3, <2>1, <2>2
    DEF HostFits, OwnerFits, CleanerFits, LatchFits, Owning, Cleaning, Made
  <2> QED
    BY <2>3, <2>4
<1> QED
  BY <1>1, <1>3, <1>7, <1>8, <1>9, StepHolds

LEMMA AcknowledgeKeeps ==
  ASSUME SandboxInvariant, NEW h \in Hosts, setting' = setting, Acknowledge(h)
  PROVE  SandboxInvariant'
<1> DEFINE t == host[h].session
<1>1. /\ host \in [Hosts -> HostType] /\ lost \in [Hosts -> BOOLEAN] /\ HostFits(h)
      /\ lease \in [Tokens -> Hosts \cup {None}] /\ record \in [Tokens -> RecordType]
      /\ box \in [Tokens -> BoxType] /\ exec \in [Execs -> ExecType] /\ engine \in Engines
      /\ None \notin Hosts /\ host[h].step = "ack" /\ host[h] \in HostType
  BY Typed, SandboxAssumption DEF SandboxInvariant, Acknowledge, At
<1>2. /\ t \in Tokens /\ ~host[h].broken /\ lease[t] = h /\ record[t].state = "intent"
      /\ box[t].state \in Made
  BY <1>1 DEF HostFits, OwnerFits, Owning, HostType
<1>3. /\ UNCHANGED <<lease, world, exec, lost>> /\ Paid
      /\ \/ record' = [record EXCEPT ![t].state = "created"]
         \/ UNCHANGED record
      /\ \E p \in {"boot", "abort"} :
            host' = [host EXCEPT ![h].mine = "created", ![h].step = p]
  BY DEF Acknowledge, Paid
<1>4. PICK p \in {"boot", "abort"} :
            host' = [host EXCEPT ![h].mine = "created", ![h].step = p]
  BY <1>3
<1>5. /\ record' \in [Tokens -> RecordType] /\ record'[t].state \in {"intent", "created"}
      /\ \A u \in Tokens \ {t} : record'[u] = record[u]
  BY <1>1, <1>2, <1>3 DEF RecordType, RecordStates
<1>6. WorldMoves(h)
  BY <1>1, <1>2, <1>3, <1>5 DEF WorldMoves, world
<1>7. RecordsFit' /\ ExecsFit'
  <2>1. MaxMoves' = MaxMoves /\ box' = box /\ engine' = engine /\ exec' = exec
    BY <1>3 DEF MaxMoves, world
  <2>2. ASSUME NEW u \in Tokens
        PROVE  /\ box[u].state # "none" => record'[u].state # "none"
               /\ record'[u].state = "created" => box[u].state \in Made
               /\ MaxMoves = 0 /\ record'[u].state = "closed" => box[u].state = "gone"
               /\ MaxMoves = 0 /\ box[u].state # "none" => box[u].at = engine
    BY <1>2, <1>5 DEF SandboxInvariant, RecordsFit
  <2> QED
    BY <2>1, <2>2 DEF SandboxInvariant, RecordsFit, ExecsFit
<1>8. HostMoves(h) /\ HostFits(h)'
  <2>1. /\ host' \in [Hosts -> HostType]
        /\ \A g \in Hosts \ {h} : host'[g] = host[g]
        /\ host'[h].step = p /\ host'[h].session = t
        /\ host'[h].broken = host[h].broken /\ host'[h].mine = "created"
    BY <1>1, <1>4 DEF HostType, Steps, RecordStates
  <2>2. HostMoves(h)
    BY <1>1, <1>3, <2>1 DEF HostMoves, OthersStay
  <2>3. HostFits(h)'
    BY <1>1, <1>2, <1>3, <1>5, <2>1
    DEF world, HostFits, OwnerFits, CleanerFits, LatchFits, Owning, Cleaning
  <2> QED
    BY <2>2, <2>3
<1> QED
  BY <1>1, <1>3, <1>6, <1>7, <1>8, StepHolds DEF world

LEMMA BootKeeps ==
  ASSUME SandboxInvariant, NEW h \in Hosts, setting' = setting, Boot(h)
  PROVE  SandboxInvariant'
<1>1. /\ Paid /\ UNCHANGED <<record, lease, world, exec, lost>>
      /\ \E s \in {"idle", "run", "abort"} : Goto(h, s)
  BY DEF Boot, Paid
<1>2. host[h].session # None
  BY DEF Boot, At, SandboxInvariant, HostFits, OwnerFits, Owning
<1> QED
  BY <1>1, <1>2, HostStepsHolds DEF Steps, Cleaning, Owning

-----------------------------------------------------------------------------
(* Executions.                                                             *)

ExecFits(r) ==
  /\ r.phase \in {"open", "unclean"} => r.box # None /\ r.host # None
  /\ r.phase = "done" => r.tomb /\ r.guest # "running"

LEMMA ExecBecomes ==
  ASSUME SandboxInvariant, NEW e, NEW r, exec' = [exec EXCEPT ![e] = r],
         e \in Execs => r \in ExecType /\ ExecFits(r)
  PROVE  exec' \in [Execs -> ExecType] /\ ExecsFit'
<1>1. exec \in [Execs -> ExecType] /\ \A x \in Execs : ExecFits(exec[x])
  BY Typed DEF SandboxInvariant, ExecsFit, ExecFits
<1>2. exec' \in [Execs -> ExecType] /\ \A x \in Execs : ExecFits(exec'[x])
  BY <1>1
<1> QED
  BY <1>2 DEF ExecsFit, ExecFits

LEMMA LaunchedFits ==
  ASSUME SandboxInvariant, NEW h \in Hosts, NEW e \in Execs, host[h].session # None
  PROVE  Launched(e, h) \in ExecType /\ ExecFits(Launched(e, h))
<1>1. exec[e] \in ExecType /\ host[h].session \in Tokens /\ None \notin Hosts
  BY Typed, SandboxAssumption DEF SandboxInvariant, HostType
<1> QED
  BY <1>1 DEF Launched, ExecType, ExecFits

LEMMA CancelledFits ==
  ASSUME SandboxInvariant, NEW e \in Execs
  PROVE  Cancelled(e) \in ExecType /\ ExecFits(Cancelled(e))
<1>1. exec[e] \in ExecType
  BY Typed DEF SandboxInvariant
<1> QED
  BY <1>1 DEF Cancelled, ExecType, ExecFits

LEMMA PhasedFits ==
  ASSUME SandboxInvariant, NEW e \in Execs,
         NEW p \in {"failed", "stale", "unclean"},
         p = "unclean" => exec[e].phase \in {"open", "unclean"}
  PROVE  /\ [exec[e] EXCEPT !.phase = p] \in ExecType
         /\ ExecFits([exec[e] EXCEPT !.phase = p])
<1>1. exec[e] \in ExecType /\ ExecFits(exec[e])
  BY Typed DEF SandboxInvariant, ExecsFit, ExecFits
<1> QED
  BY <1>1 DEF ExecType, ExecFits

\* A step of the guest or of a server's cleanup.
LEMMA ExecsAloneHold ==
  ASSUME SandboxInvariant, setting' = setting, Paid,
         UNCHANGED <<record, lease, world, host, lost>>,
         exec' \in [Execs -> ExecType], ExecsFit'
  PROVE  SandboxInvariant'
<1>1. TypeOK'
  BY Typed, StepIsTyped DEF SandboxInvariant, world
<1>2. RecordsFit' /\ SessionsDiffer' /\ MaxMoves' = MaxMoves
  BY DEF SandboxInvariant, RecordsFit, SessionsDiffer, world, MaxMoves
<1>3. \A h \in Hosts : HostFits(h)'
  BY <1>2 DEF SandboxInvariant, HostFits, OwnerFits, CleanerFits, LatchFits, world
<1> QED
  BY <1>1, <1>2, <1>3 DEF SandboxInvariant

\* A process and the executions change, no record, lease or container.
LEMMA HostAndExecsHold ==
  ASSUME SandboxInvariant, NEW h \in Hosts, setting' = setting, Paid,
         UNCHANGED <<record, lease, world, lost>>, exec' \in [Execs -> ExecType], ExecsFit',
         NEW s \in {"idle", "run", "wait", "abort"}, host[h].session # None,
         \/ Goto(h, s)
         \/ \E j \in Shells \cup {None} : host' = [host EXCEPT ![h].job = j, ![h].step = s]
         \/ \E j \in Shells \cup {None} : host' = [host EXCEPT ![h].step = s, ![h].job = j]
  PROVE  SandboxInvariant'
<1>1. /\ host \in [Hosts -> HostType] /\ lost \in [Hosts -> BOOLEAN] /\ HostFits(h)
      /\ record \in [Tokens -> RecordType] /\ box \in [Tokens -> BoxType]
      /\ lease \in [Tokens -> Hosts \cup {None}] /\ engine \in Engines
  BY Typed DEF SandboxInvariant
<1>2. /\ host' \in [Hosts -> HostType]
      /\ \A g \in Hosts \ {h} : host'[g] = host[g]
      /\ host'[h].step = s /\ host'[h].session = host[h].session
      /\ host'[h].broken = host[h].broken /\ host'[h].mine = host[h].mine
  <2>1. CASE Goto(h, s)
    BY <1>1, <2>1 DEF Goto, HostType, Steps
  <2>2. ASSUME NEW j \in Shells \cup {None},
               \/ host' = [host EXCEPT ![h].job = j, ![h].step = s]
               \/ host' = [host EXCEPT ![h].step = s, ![h].job = j]
        PROVE  <1>2
    <3> DEFINE r == [host[h] EXCEPT !.job = j, !.step = s]
    <3>1. host[h] \in HostType /\ host' = [host EXCEPT ![h] = r]
      BY <1>1, <2>2 DEF HostType
    <3>2. r \in HostType
      BY <3>1 DEF HostType, Steps
    <3>3. /\ r.step = s /\ r.session = host[h].session
          /\ r.broken = host[h].broken /\ r.mine = host[h].mine
      BY <3>1 DEF HostType
    <3> QED
      BY <1>1, <3>1, <3>2, <3>3
  <2> QED
    BY <2>1, <2>2
<1>3. HostMoves(h)
  BY <1>1, <1>2 DEF HostMoves, OthersStay
<1>4. HostFits(h)'
  BY <1>1, <1>2
  DEF world, HostFits, OwnerFits, CleanerFits, LatchFits, Owning, Cleaning
<1>5. WorldMoves(h) /\ RecordsFit' /\ engine' \in Engines
  BY <1>1 DEF WorldMoves, world, SandboxInvariant, RecordsFit, MaxMoves
<1> QED
  BY <1>3, <1>4, <1>5, StepHolds

LEMMA ShellKeeps ==
  ASSUME SandboxInvariant, NEW h \in Hosts, setting' = setting, Shell(h)
  PROVE  SandboxInvariant'
<1>1. PICK e \in Requested \cap Shells :
       /\ ~host[h].broken
       /\ IF host[h].session = None THEN BeginScan(h, "start", e)
          ELSE /\ host' = [host EXCEPT ![h].job = e, ![h].step = "run"]
               /\ Smooth /\ UNCHANGED <<record, lease, world, exec, lost>>
  BY DEF Shell
<1>2. CASE host[h].session = None /\ BeginScan(h, "start", e)
  BY <1>1, <1>2, BeginScanKeeps
<1>3. CASE /\ host[h].session # None
           /\ host' = [host EXCEPT ![h].job = e, ![h].step = "run"]
           /\ Smooth /\ UNCHANGED <<record, lease, world, exec, lost>>
  BY <1>3, WorldStays, HostAndExecsHold DEF Paid
<1> QED
  BY <1>1, <1>2, <1>3

LEMMA RunShellKeeps ==
  ASSUME SandboxInvariant, NEW h \in Hosts, setting' = setting, RunShell(h)
  PROVE  SandboxInvariant'
<1>1. host[h].session # None
  BY DEF RunShell, At, SandboxInvariant, HostFits, OwnerFits, Owning
<1>2. exec' \in [Execs -> ExecType] /\ ExecsFit'
  BY <1>1, LaunchedFits, ExecBecomes DEF RunShell
<1> QED
  BY <1>1, <1>2, HostAndExecsHold DEF RunShell, Paid

LEMMA ShellReturnsKeeps ==
  ASSUME SandboxInvariant, NEW h \in Hosts, setting' = setting, ShellReturns(h)
  PROVE  SandboxInvariant'
<1>1. host[h].session # None
  BY DEF ShellReturns, At, SandboxInvariant, HostFits, OwnerFits, Owning
<1> QED
  BY <1>1, HostStepsHolds DEF ShellReturns, Paid, Steps, Cleaning, Owning

LEMMA FinishShellKeeps ==
  ASSUME SandboxInvariant, NEW h \in Hosts, setting' = setting, FinishShell(h)
  PROVE  SandboxInvariant'
<1> DEFINE e == host[h].job
<1>1. /\ host[h].session # None /\ Paid /\ UNCHANGED <<record, lease, world, lost>>
  BY DEF FinishShell, At, SandboxInvariant, HostFits, OwnerFits, Owning, Paid
<1>2. CASE /\ exec' = [exec EXCEPT ![e] = Cancelled(e)]
           /\ host' = [host EXCEPT ![h].step = "idle", ![h].job = None]
  <2>1. exec' \in [Execs -> ExecType] /\ ExecsFit'
    BY <1>2, CancelledFits, ExecBecomes
  <2> QED
    BY <1>1, <1>2, <2>1, HostAndExecsHold
<1>3. CASE /\ exec' = [exec EXCEPT ![e].phase = "failed"]
           /\ host' = [host EXCEPT ![h].step = "abort", ![h].job = None]
  <2>1. exec' = [exec EXCEPT ![e] = [exec[e] EXCEPT !.phase = "failed"]]
    BY <1>3
  <2>2. exec' \in [Execs -> ExecType] /\ ExecsFit'
    BY <2>1, PhasedFits, ExecBecomes
  <2> QED
    BY <1>1, <1>3, <2>2, HostAndExecsHold
<1> QED
  BY <1>2, <1>3 DEF FinishShell

LEMMA ServeKeeps ==
  ASSUME SandboxInvariant, NEW h \in Hosts, setting' = setting, Serve(h)
  PROVE  SandboxInvariant'
<1>1. PICK e \in Requested \ Shells :
        /\ host[h].session # None /\ exec' = [exec EXCEPT ![e] = Launched(e, h)]
        /\ Smooth /\ UNCHANGED <<record, lease, world, host, lost>>
  BY DEF Serve, Ready
<1>2. exec' \in [Execs -> ExecType] /\ ExecsFit'
  BY <1>1, LaunchedFits, ExecBecomes
<1> QED
  BY <1>1, <1>2, ExecsAloneHold DEF Paid

LEMMA FinishServerKeeps ==
  ASSUME SandboxInvariant, setting' = setting, NEW e \in Execs, FinishServer(e)
  PROVE  SandboxInvariant'
<1>1. /\ exec[e].phase = "open" /\ Paid /\ UNCHANGED <<record, lease, world, host, lost>>
  BY DEF FinishServer, Paid
<1>2. CASE exec' = [exec EXCEPT ![e] = Cancelled(e)]
  BY <1>1, <1>2, CancelledFits, ExecBecomes, ExecsAloneHold
<1>3. ASSUME NEW p \in {"stale", "unclean"}, exec' = [exec EXCEPT ![e].phase = p]
      PROVE  SandboxInvariant'
  <2>1. exec' = [exec EXCEPT ![e] = [exec[e] EXCEPT !.phase = p]]
    BY <1>3
  <2> QED
    BY <1>1, <2>1, PhasedFits, ExecBecomes, ExecsAloneHold
<1> QED
  BY <1>2, <1>3 DEF FinishServer

LEMMA InvalidateServerKeeps ==
  ASSUME SandboxInvariant, setting' = setting, NEW e \in Execs, InvalidateServer(e)
  PROVE  SandboxInvariant'
<1> DEFINE h == exec[e].host
<1>1. /\ exec \in [Execs -> ExecType] /\ exec[e].box # None /\ h \in Hosts
  <2>1. exec \in [Execs -> ExecType] /\ exec[e].box # None /\ h # None
    BY Typed DEF InvalidateServer, SandboxInvariant, ExecsFit
  <2> QED
    BY <2>1 DEF ExecType
<1>2. /\ exec' = [exec EXCEPT ![e] = [exec[e] EXCEPT !.phase = "failed"]]
      /\ Paid /\ UNCHANGED <<record, lease, world, lost>>
  BY DEF InvalidateServer, Paid
<1>3. exec' \in [Execs -> ExecType] /\ ExecsFit'
  BY <1>2, PhasedFits, ExecBecomes
<1>4. CASE exec[e].box = host[h].session /\ Goto(h, "abort")
  BY <1>1, <1>2, <1>3, <1>4, HostAndExecsHold
<1>5. CASE UNCHANGED host
  BY <1>2, <1>3, <1>5, ExecsAloneHold
<1> QED
  BY <1>4, <1>5 DEF InvalidateServer

LEMMA GuestRunKeeps ==
  ASSUME SandboxInvariant, setting' = setting, NEW e \in Execs, GuestRun(e)
  PROVE  SandboxInvariant'
<1>1. exec[e] \in ExecType /\ ExecFits(exec[e])
  BY Typed DEF SandboxInvariant, ExecsFit, ExecFits
<1>2. PICK s \in {"running", "refused"} :
        /\ exec' = [exec EXCEPT ![e] = [exec[e] EXCEPT !.guest = s]]
        /\ exec[e].tomb => s = "refused"
  BY DEF GuestRun, MayLaunch
<1>3. /\ [exec[e] EXCEPT !.guest = s] \in ExecType
      /\ ExecFits([exec[e] EXCEPT !.guest = s])
  BY <1>1, <1>2 DEF ExecType, ExecFits
<1>4. exec' \in [Execs -> ExecType] /\ ExecsFit'
  BY <1>2, <1>3, ExecBecomes
<1> QED
  BY <1>4, ExecsAloneHold DEF GuestRun, Paid

LEMMA GuestEndsKeeps ==
  ASSUME SandboxInvariant, setting' = setting, NEW e \in Execs, GuestEnds(e)
  PROVE  SandboxInvariant'
<1> DEFINE r == [exec[e] EXCEPT !.guest = "dead", !.tomb = TRUE]
<1>1. exec[e] \in ExecType /\ ExecFits(exec[e])
  BY Typed DEF SandboxInvariant, ExecsFit, ExecFits
<1>2. exec' = [exec EXCEPT ![e] = r]
  BY DEF GuestEnds
<1>3. r \in ExecType /\ ExecFits(r)
  BY <1>1 DEF ExecType, ExecFits
<1>4. exec' \in [Execs -> ExecType] /\ ExecsFit'
  BY <1>2, <1>3, ExecBecomes
<1> QED
  BY <1>4, ExecsAloneHold DEF GuestEnds, Paid

-----------------------------------------------------------------------------
(* What the processes do not control.                                      *)

LEMMA LateCreateKeeps ==
  ASSUME SandboxInvariant, setting' = setting, NEW t \in Tokens, LateCreate(t)
  PROVE  SandboxInvariant'
<1>1. /\ record \in [Tokens -> RecordType] /\ box \in [Tokens -> BoxType]
      /\ lease \in [Tokens -> Hosts \cup {None}] /\ None \notin Hosts
      /\ RecordsFit /\ ExecsFit /\ SessionsDiffer /\ MaxMoves' = MaxMoves
      /\ box[t].state = "requested"
  BY Typed, SandboxAssumption DEF SandboxInvariant, LateCreate, MaxMoves
<1>2. /\ UNCHANGED <<record, lease, host, exec, engine, lost>> /\ Paid
  BY DEF LateCreate, Paid
<1>3. /\ box' \in [Tokens -> BoxType] /\ box'[t].state = "present"
      /\ \A s \in Tokens : box'[s].at = box[s].at
      /\ \A s \in Tokens \ {t} : box'[s] = box[s]
  BY <1>1 DEF LateCreate, BoxType
<1>4. WorldMoves(None) /\ OthersStay(None)
  BY <1>1, <1>2, <1>3 DEF WorldMoves, OthersStay, Made
<1>5. \A g \in Hosts : HostFits(g)'
  BY <1>1, <1>4, OthersFit
<1>6. RecordsFit'
  <2>1. ASSUME NEW s \in Tokens
        PROVE  /\ box'[s].state # "none" => record[s].state # "none"
               /\ record[s].state = "created" => box'[s].state \in Made
               /\ MaxMoves = 0 /\ record[s].state = "closed" => box'[s].state = "gone"
               /\ MaxMoves = 0 /\ box'[s].state # "none" => box'[s].at = engine
    BY <1>1, <1>3 DEF RecordsFit, Made
  <2> QED
    BY <1>1, <1>2, <2>1 DEF RecordsFit
<1>7. ExecsFit' /\ SessionsDiffer'
  BY <1>1, <1>2 DEF ExecsFit, SessionsDiffer
<1>8. TypeOK'
  BY Typed, <1>1, <1>2, <1>3, StepIsTyped DEF SandboxInvariant
<1> QED
  BY <1>5, <1>6, <1>7, <1>8 DEF SandboxInvariant

LEMMA MoveEngineKeeps ==
  ASSUME SandboxInvariant, setting' = setting, MoveEngine
  PROVE  SandboxInvariant'
<1>1. /\ MaxMoves' = MaxMoves /\ MaxFaults' = MaxFaults /\ MaxCrashes' = MaxCrashes
      /\ MaxMoves \in Nat /\ moves \in 0..MaxMoves /\ moves < MaxMoves
  BY Typed DEF SandboxInvariant, TypeOK, MoveEngine, MaxMoves, MaxFaults, MaxCrashes
<1>2. TypeOK'
  BY <1>1 DEF SandboxInvariant, TypeOK, MoveEngine
<1>3. MaxMoves # 0
  BY <1>1
<1>4. RecordsFit' /\ SessionsDiffer' /\ ExecsFit'
  BY <1>1, <1>3 DEF SandboxInvariant, RecordsFit, SessionsDiffer, ExecsFit, MoveEngine
<1>5. \A h \in Hosts : HostFits(h)'
  BY <1>1 DEF SandboxInvariant, MoveEngine, HostFits, OwnerFits, CleanerFits, LatchFits
<1> QED
  BY <1>2, <1>4, <1>5 DEF SandboxInvariant

\* The file locks of a process that dies go with it.
LEMMA CrashKeeps ==
  ASSUME SandboxInvariant, NEW h \in Hosts, setting' = setting, Crash(h)
  PROVE  SandboxInvariant'
<1>1. /\ host \in [Hosts -> HostType] /\ lost \in [Hosts -> BOOLEAN]
      /\ record \in [Tokens -> RecordType] /\ box \in [Tokens -> BoxType]
      /\ exec \in [Execs -> ExecType] /\ engine \in Engines
      /\ lease \in [Tokens -> Hosts \cup {None}] /\ ExecsFit /\ RecordsFit
      /\ MaxMoves' = MaxMoves /\ MaxFaults' = MaxFaults /\ MaxCrashes' = MaxCrashes
      /\ crashes \in 0..MaxCrashes /\ crashes < MaxCrashes /\ MaxCrashes \in Nat
  BY Typed DEF SandboxInvariant, Crash, TypeOK, MaxMoves, MaxFaults, MaxCrashes
<1>2. /\ UNCHANGED <<record, world, faults, moves>> /\ crashes' = crashes + 1
  BY DEF Crash
<1>3. NewHost \in HostType
  BY DEF NewHost, HostType, RecordStates, Steps
<1>4. /\ host' \in [Hosts -> HostType] /\ host'[h] = NewHost
      /\ \A g \in Hosts \ {h} : host'[g] = host[g]
  BY <1>1, <1>3 DEF Crash
<1>5. /\ lost' \in [Hosts -> BOOLEAN] /\ ~lost'[h]
      /\ \A g \in Hosts \ {h} : lost'[g] = lost[g]
  BY <1>1 DEF Crash
<1>6. /\ lease' \in [Tokens -> Hosts \cup {None}]
      /\ \A t \in Tokens : lease[t] # h => lease'[t] = lease[t]
  BY <1>1 DEF Crash
<1>7. exec' \in [Execs -> ExecType] /\ ExecsFit'
  <2>1. ASSUME NEW e \in Execs
        PROVE  /\ exec'[e] \in ExecType
               /\ exec'[e].phase \in {exec[e].phase, "orphan"}
               /\ exec'[e].box = exec[e].box /\ exec'[e].host = exec[e].host
               /\ exec'[e].tomb = exec[e].tomb /\ exec'[e].guest = exec[e].guest
    BY <1>1 DEF Crash, ExecType
  <2>2. exec' = [e \in Execs |-> exec'[e]]
    BY DEF Crash
  <2>3. exec' \in [Execs -> ExecType]
    BY <2>1, <2>2
  <2> QED
    BY <1>1, <2>1, <2>3 DEF ExecsFit
<1>8. WorldMoves(h) /\ OthersStay(h)
  BY <1>1, <1>2, <1>4, <1>5, <1>6 DEF WorldMoves, OthersStay, world
<1>9. HostFits(h)'
  BY <1>4, <1>5 DEF NewHost, HostFits, OwnerFits, CleanerFits, LatchFits, Owning, Cleaning
<1>10. \A g \in Hosts : HostFits(g)'
  BY <1>8, <1>9, OthersFit
<1>11. host'[h].session = None
  BY <1>4 DEF NewHost
<1>12. SessionsDiffer' /\ RecordsFit'
  BY <1>1, <1>2, <1>8, <1>11, SessionsStayDifferent DEF RecordsFit, world
<1>13. TypeOK'
  <2>1. setting' \in Settings /\ crashes' \in 0..MaxCrashes'
    BY <1>1, <1>2 DEF SandboxInvariant, TypeOK
  <2>2. faults' \in 0..MaxFaults' /\ moves' \in 0..MaxMoves'
    BY <1>1, <1>2 DEF SandboxInvariant, TypeOK
  <2> QED
    BY <1>1, <1>2, <1>4, <1>5, <1>6, <1>7, <2>1, <2>2
    DEF TypeOK, world, RecordType, BoxType, HostType, ExecType
<1> QED
  BY <1>7, <1>10, <1>12, <1>13 DEF SandboxInvariant

-----------------------------------------------------------------------------
(* The invariant and the theorems.                                         *)

LEMMA SandboxBegins == Init => SandboxInvariant
<1> SUFFICES ASSUME Init
             PROVE  SandboxInvariant
  OBVIOUS
<1>1. MaxFaults \in Nat /\ MaxCrashes \in Nat /\ MaxMoves \in Nat
  BY SandboxAssumption DEF Init, MaxFaults, MaxCrashes, MaxMoves
<1>2. TypeOK
  <2>1. engine \in Engines
    BY SandboxAssumption DEF Init
  <2>2. NewHost \in HostType
    BY DEF NewHost, HostType, RecordStates, Steps
  <2>3. host \in [Hosts -> HostType]
    BY <2>2 DEF Init
  <2> QED
    BY <1>1, <2>1, <2>3 DEF Init, TypeOK, HostType, RecordStates
<1>3. RecordsFit
  BY DEF Init, RecordsFit
<1>4. SessionsDiffer /\ \A h \in Hosts : HostFits(h)
  BY DEF Init, NewHost, SessionsDiffer, HostFits, OwnerFits, CleanerFits, LatchFits,
     Owning, Cleaning
<1>5. ExecsFit
  BY DEF Init, ExecsFit
<1> QED
  BY <1>2, <1>3, <1>4, <1>5 DEF SandboxInvariant

LEMMA SandboxKeeps == SandboxInvariant /\ [Next]_vars => SandboxInvariant'
<1> SUFFICES ASSUME SandboxInvariant, [Next]_vars
             PROVE  SandboxInvariant'
  OBVIOUS
<1>1. CASE UNCHANGED vars
  <2>1. setting' = setting /\ Paid /\ UNCHANGED <<record, lease, world, host, lost>>
    BY <1>1 DEF vars, Paid, Smooth, budget, world
  <2>2. exec' \in [Execs -> ExecType] /\ ExecsFit'
    BY <1>1, Typed DEF vars, SandboxInvariant, ExecsFit
  <2> QED
    BY <2>1, <2>2, ExecsAloneHold
<1>2. CASE Next
  <2> USE <1>2
  <2>1. setting' = setting /\ Adapters \subseteq Hosts /\ Requested \subseteq Execs
    BY SandboxAssumption DEF Next, SandboxInvariant, TypeOK, Adapters, Requested
  <2>2. ASSUME NEW h \in Adapters, HostStep(h)
        PROVE  SandboxInvariant'
    BY <2>1, <2>2, LookupKeeps, RemoveKeeps, CloseKeeps, AbortKeeps, ScanNextKeeps,
       ScanEndsKeeps, ClaimKeeps, CreateKeeps, AcknowledgeKeeps, BootKeeps, RunShellKeeps,
       ShellReturnsKeeps, FinishShellKeeps
    DEF HostStep
  <2>3. ASSUME NEW h \in Adapters, Start(h) \/ Sweep(h)
        PROVE  SandboxInvariant'
    BY <2>1, <2>3, BeginScanKeeps DEF Start, Sweep
  <2>4. ASSUME NEW h \in Adapters, Stop(h) \/ Shell(h) \/ Serve(h) \/ Crash(h)
        PROVE  SandboxInvariant'
    BY <2>1, <2>4, StopKeeps, ShellKeeps, ServeKeeps, CrashKeeps
  <2>5. ASSUME NEW e \in Requested, \/ FinishServer(e) \/ InvalidateServer(e)
                                    \/ GuestRun(e) \/ GuestEnds(e)
        PROVE  SandboxInvariant'
    BY <2>1, <2>5, FinishServerKeeps, InvalidateServerKeeps, GuestRunKeeps, GuestEndsKeeps
  <2>6. ASSUME NEW t \in Tokens, LateCreate(t)
        PROVE  SandboxInvariant'
    BY <2>1, <2>6, LateCreateKeeps
  <2>7. CASE MoveEngine
    BY <2>1, <2>7, MoveEngineKeeps
  <2> QED
    BY <2>2, <2>3, <2>4, <2>5, <2>6, <2>7 DEF Next
<1> QED
  BY <1>1, <1>2

LEMMA SandboxIsInvariant == Spec => []SandboxInvariant
  BY SandboxBegins, SandboxKeeps, PTL DEF Spec

\* Every orphan is on record, and what was cleaned up is dead.
THEOREM BoxesAccounted == Spec => []BoxesAreAccounted
<1>1. SandboxInvariant => BoxesAreAccounted
  <2> SUFFICES ASSUME SandboxInvariant
               PROVE  BoxesAreAccounted
    OBVIOUS
  <2>1. OrphansAreRecorded
    BY Typed DEF OrphansAreRecorded, SandboxInvariant, RecordsFit, RecordType, RecordStates
  <2>2. CleanedUpIsDead
    BY DEF CleanedUpIsDead, SandboxInvariant, ExecsFit
  <2> QED
    BY <2>1, <2>2 DEF BoxesAreAccounted, SandboxInvariant
<1> QED
  BY <1>1, SandboxIsInvariant, PTL

\* Only a process that has the lease, and means to remove it, takes a
\* container away.
LEMMA OnlyRemovalTakes ==
  ASSUME SandboxInvariant, [Next]_vars, NEW t \in Tokens,
         box[t].state = "present", box'[t].state # "present"
  PROVE  \E g \in Hosts : host[g].step = "remove" /\ host[g].cur = t
<1>1. box \in [Tokens -> BoxType] /\ host \in [Hosts -> HostType] /\ box' # box
  BY Typed DEF SandboxInvariant
<1>2. Next
  BY <1>1 DEF vars
<1>3. Adapters \subseteq Hosts
  BY SandboxAssumption DEF SandboxInvariant, TypeOK, Adapters
<1>4. ASSUME NEW g \in Hosts, Create(g)
      PROVE  FALSE
  <2>1. host[g].session \in Tokens /\ box[host[g].session].state = "none"
    BY <1>1, <1>4 DEF SandboxInvariant, HostFits, OwnerFits, Owning, HostType, Create, At
  <2>2. box'[t] = box[t]
    BY <1>1, <1>4, <2>1 DEF Create
  <2> QED
    BY <2>2
<1>5. ASSUME NEW g \in Hosts, RemoveBox(g)
      PROVE  host[g].step = "remove" /\ host[g].cur = t
  BY <1>1, <1>5 DEF RemoveBox, At, Removed, BoxType
<1>6. ASSUME NEW s \in Tokens, LateCreate(s)
      PROVE  FALSE
  BY <1>1, <1>6 DEF LateCreate, BoxType
<1>7. ASSUME NEW g \in Hosts, HostStep(g)
      PROVE  RemoveBox(g) \/ Create(g)
  BY <1>1, <1>7
  DEF HostStep, Lookup, Close, Abort, Invalidate, ScanNext, ScanEnds, Claim, Acknowledge,
      Boot, RunShell, ShellReturns, FinishShell, world
<1>8. ASSUME NEW g \in Hosts, Stop(g) \/ Start(g) \/ Sweep(g) \/ Shell(g) \/ Serve(g)
                              \/ Crash(g)
      PROVE  FALSE
  BY <1>1, <1>8 DEF Stop, Invalidate, Start, Sweep, Shell, BeginScan, Serve, Crash, world
<1>9. ASSUME NEW e, \/ FinishServer(e) \/ InvalidateServer(e)
                    \/ GuestRun(e) \/ GuestEnds(e)
      PROVE  FALSE
  BY <1>1, <1>9 DEF FinishServer, InvalidateServer, GuestRun, GuestEnds, world
<1>10. ~MoveEngine
  BY <1>1 DEF MoveEngine
<1> QED
  BY <1>2, <1>3, <1>4, <1>5, <1>6, <1>7, <1>8, <1>9, <1>10 DEF Next

\* A session begins with a claim, and with nothing else.
LEMMA OnlyClaimBegins ==
  ASSUME SandboxInvariant, [Next]_vars, NEW h \in Hosts,
         host[h].session = None, host'[h].session # None
  PROVE  host[h].step = "claim"
<1>1. host \in [Hosts -> HostType] /\ host' # host
  BY Typed DEF SandboxInvariant
<1>2. Next
  BY <1>1 DEF vars
<1>3. Adapters \subseteq Hosts
  BY SandboxAssumption DEF SandboxInvariant, TypeOK, Adapters
<1>4. ASSUME NEW g \in Hosts, NEW s, Goto(g, s) \/ GiveUp(g)
      PROVE  FALSE
  BY <1>1, <1>4 DEF Goto, GiveUp, HostType
<1>5. ASSUME NEW g \in Hosts, NEW own, Cleaned(g) \/ NotCleaned(g, own)
      PROVE  FALSE
  BY <1>1, <1>5 DEF Cleaned, NotCleaned, HostType
<1>6. ASSUME NEW g \in Hosts, NEW why, NEW job, BeginScan(g, why, job)
      PROVE  FALSE
  BY <1>1, <1>6 DEF BeginScan, HostType
<1>7. ASSUME NEW g \in Hosts, NEW why, host[g].session # None, Invalidate(g, why)
      PROVE  FALSE
  <2>1. g # h
    BY <1>7
  <2>2. host'[h] = host[h]
    BY <1>1, <1>7, <2>1 DEF Invalidate
  <2> QED
    BY <2>2
<1>8. ASSUME NEW g \in Hosts, Lookup(g) \/ RemoveBox(g) \/ Close(g)
      PROVE  FALSE
  BY <1>4, <1>5, <1>8 DEF Lookup, RemoveBox, Close
<1>9. ASSUME NEW g \in Hosts, Abort(g) \/ Stop(g)
       PROVE  FALSE
  <2>1. Abort(g) => host[g].session # None
    BY DEF Abort, At, SandboxInvariant, HostFits, OwnerFits, Owning
  <2>2. ASSUME host' = [host EXCEPT ![g].broken = FALSE]
        PROVE  FALSE
    BY <1>1, <2>2 DEF HostType
  <2> QED
    BY <1>7, <1>9, <2>1, <2>2 DEF Abort, Stop
<1>10. ASSUME NEW g \in Hosts, ScanNext(g) \/ Acknowledge(g)
       PROVE  FALSE
  <2>1. CASE Acknowledge(g)
    BY <1>1, <2>1 DEF Acknowledge, HostType
  <2>2. CASE ScanNext(g)
    <3>1. PICK t \in host[g].todo :
             \/ host' = [host EXCEPT ![g].cur = t, ![g].step = "lookup"]
             \/ host' = [host EXCEPT ![g].todo = host[g].todo \ {t}]
      BY <2>2 DEF ScanNext
    <3> QED
      BY <1>1, <3>1 DEF HostType
  <2> QED
    BY <1>10, <2>1, <2>2
<1>11. ASSUME NEW g \in Hosts, ScanEnds(g) \/ Create(g) \/ Boot(g) \/ RunShell(g)
                               \/ ShellReturns(g)
       PROVE  FALSE
  BY <1>4, <1>11 DEF ScanEnds, Create, Boot, RunShell, ShellReturns
<1>12. ASSUME NEW g \in Hosts, FinishShell(g)
       PROVE  FALSE
  BY <1>1, <1>12 DEF FinishShell, HostType
<1>13. ASSUME NEW g \in Hosts, Claim(g)
       PROVE  g = h
  BY <1>1, <1>4, <1>13 DEF Claim
<1>14. ASSUME NEW g \in Hosts, Start(g) \/ Sweep(g)
       PROVE  FALSE
  BY <1>6, <1>14 DEF Start, Sweep
<1>15. ASSUME NEW g \in Hosts, Shell(g)
       PROVE  FALSE
  <2>1. PICK e \in Requested \cap Shells :
           \/ BeginScan(g, "start", e)
           \/ host' = [host EXCEPT ![g].job = e, ![g].step = "run"]
    BY <1>15 DEF Shell
  <2> QED
    BY <1>1, <1>6, <2>1 DEF HostType
<1>16. ASSUME NEW g \in Hosts, Crash(g)
       PROVE  FALSE
  BY <1>1, <1>16 DEF Crash, NewHost
<1>17. ASSUME NEW g \in Hosts, Serve(g)
       PROVE  FALSE
  BY <1>1, <1>17 DEF Serve
<1>18. ASSUME NEW e \in Requested, \/ FinishServer(e) \/ GuestRun(e) \/ GuestEnds(e)
       PROVE  FALSE
  BY <1>1, <1>18 DEF FinishServer, GuestRun, GuestEnds
<1>19. ASSUME NEW e \in Requested, InvalidateServer(e)
       PROVE  FALSE
  <2>1. \E s : Goto(exec[e].host, s)
    BY <1>1, <1>19 DEF InvalidateServer
  <2> QED
    BY <1>1, <2>1 DEF Goto, HostType
<1>20. ~MoveEngine /\ ~(\E t \in Tokens : LateCreate(t))
  BY <1>1 DEF MoveEngine, LateCreate
<1>21. PICK g \in Hosts : Claim(g)
  BY <1>2, <1>3, <1>8, <1>9, <1>10, <1>11, <1>12, <1>14, <1>15, <1>16, <1>17, <1>18,
     <1>19, <1>20
  DEF Next, HostStep
<1> QED
  BY <1>13, <1>21 DEF Claim, At

\* The container of a session that nobody has invalidated stays, and a session
\* that was lost is not followed by an empty one before a stop.
THEOREM SessionKept == Spec => SessionKeepsItsBox
<1>1. ASSUME SandboxInvariant, [Next]_vars, NEW h \in Hosts,
             host[h].session # None, ~host[h].broken,
             box[host[h].session].state = "present"
      PROVE  box'[host[h].session].state = "present" \/ host'[h].session # host[h].session
  <2>1. /\ host[h].session \in Tokens /\ lease[host[h].session] = h
    BY <1>1, Typed DEF SandboxInvariant, HostFits, OwnerFits, HostType
  <2>2. ASSUME NEW g \in Hosts, host[g].step = "remove", host[g].cur = host[h].session
        PROVE  FALSE
    <3>1. lease[host[g].cur] = g /\ (host[g].cur = host[g].session => host[g].broken)
      <4>1. CleanerFits(g) /\ host[g].step \in Cleaning
        BY <1>1, <2>2 DEF SandboxInvariant, HostFits, Cleaning
      <4> QED
        BY <4>1 DEF CleanerFits
    <3> QED
      BY <1>1, <2>1, <2>2, <3>1
  <2> QED
    BY <1>1, <2>1, <2>2, OnlyRemovalTakes
<1>2. ASSUME SandboxInvariant, [Next]_vars, NEW h \in Hosts,
             host[h].session = None, host'[h].session # None
      PROVE  ~lost[h]
  BY <1>2, OnlyClaimBegins DEF SandboxInvariant, HostFits, LatchFits
<1>3. SandboxInvariant /\ [Next]_vars =>
        [\A h \in Hosts : LET t == host[h].session IN
            t # None /\ ~host[h].broken /\ box[t].state = "present"
            => box'[t].state = "present" \/ host'[h].session # t]_vars
  BY <1>1
<1>4. SandboxInvariant /\ [Next]_vars =>
        [\A h \in Hosts :
            host[h].session = None /\ host'[h].session # None => ~lost[h]]_vars
  BY <1>2
<1> QED
  BY <1>3, <1>4, SandboxIsInvariant, PTL
  DEF Spec, SessionKeepsItsBox, LiveBoxIsKept, NoSilentReplacement

-----------------------------------------------------------------------------
(* The turns of a session.                                                 *)

(* What each variable of a turn may hold. *)
IsLocal(l) ==
  /\ DOMAIN l = {"calls", "nudges", "prefills", "empties", "overflows", "elided",
                 "afterTools", "spent", "cut", "todo", "batch"}
  /\ {l.calls, l.nudges, l.prefills, l.empties, l.overflows, l.elided} \subseteq Nat
  /\ {l.afterTools, l.spent, l.cut} \subseteq BOOLEAN
  /\ l.todo \in Seq(Ids) /\ l.batch \in Seq(Ids)

(* What every variable may hold.                                           *)
TurnsShape ==
  /\ agent \in AgentSettings
  /\ history \in Seq(Entries) /\ current \in Turns \cup {0}
  /\ status \in [Turns -> Statuses]
  /\ steps \in [Turns -> Nat] /\ attempts \in [Turns -> Nat]
  /\ runner \in [Turns -> RunnerPlaces] /\ outcome \in [Turns -> Outcomes]
  /\ cancelled \in SUBSET Turns
  /\ worker \in [Turns -> WorkerPlaces]
  /\ messages \in [Turns -> Seq(Entries)]
  /\ DOMAIN local = Turns /\ \A t \in Turns : IsLocal(local[t])
  /\ inbox \in [Turns -> Nat]

(* Where a thread has not written its question, where it has no task state *)
(* of its own, where it no longer runs, and whether it runs.               *)
Unasked == {"none", "starting", "recording"}
Uncreated == Unasked \cup {"creating"}
Resting == Ended \cup {"none"}
Live(t) == worker[t] \notin Resting

(* A coroutine and its thread: which of their places go together, when a   *)
(* turn is answered, and that an answered turn leaves a thread running     *)
(* only when it was cancelled and threads are slow.                        *)
RunnerFits(t) ==
  /\ runner[t] \in {"idle", "recalling"} <=> worker[t] = "none" /\ outcome[t] = "none"
  /\ runner[t] \in {"idle", "recalling", "running"} => t \notin cancelled
  /\ runner[t] = "storing" => worker[t] = "returned"
  /\ runner[t] = "over" <=> outcome[t] # "none"
  /\ outcome[t] = "completed" => worker[t] = "returned"
  /\ Live(t) /\ outcome[t] # "none" => Slow /\ outcome[t] = "cancelled"

(* The same of every turn, and that a turn starts once the earlier ones    *)
(* were answered.                                                          *)
RunnersFit ==
  /\ \A t \in Turns : RunnerFits(t)
  /\ \A t, u \in Turns : u < t /\ runner[t] # "idle" => outcome[u] # "none"

(* The counters of a turn within their limits, and where a thread has tool *)
(* calls that it has yet to start or to record.                            *)
BudgetFits(t) ==
  LET me == local[t] IN
  /\ steps[t] + Len(me.todo) <= MaxSteps
  /\ me.todo # <<>> => worker[t] \in {"tools", "executing", "results", "raised", "cancelled"}
  /\ me.batch # <<>> => worker[t] \in {"executing", "results", "raised"}
  /\ Len(me.batch) <= MaxParallel
  /\ me.nudges <= MaxNudges /\ me.prefills <= MaxPrefills
  /\ me.empties <= MaxEmpties /\ me.overflows <= MaxOverflows
  /\ inbox[t] <= MaxInjected

(* The attempts and the calls a turn has spent, by the place of its        *)
(* thread: where it may ask the model once more there is a call left.      *)
AttemptsFit(t) ==
  /\ attempts[t] = 0 => local[t].calls = 0
  /\ worker[t] \in Uncreated => attempts[t] = 0
  /\ worker[t] \in {"model", "tools", "executing", "results", "synthesis"} => attempts[t] > 0
  /\ worker[t] = "request" => attempts[t] < AttemptLimit
  /\ worker[t] \in {"synthesis", "stopping"} \cup Ended \/ attempts[t] <= AttemptLimit
  /\ attempts[t] <= AttemptLimit + 1
  /\ Unlimited \/ local[t].calls <= MaxCalls + Candidates - 1
  /\ Unlimited \/ worker[t] \notin {"request", "model", "synthesis"}
     \/ local[t].calls < MaxCalls

(* Every turn's counters and attempts.                                     *)
BudgetsFit == \A t \in Turns : BudgetFits(t) /\ AttemptsFit(t)

(* What the settings are, from the assumption on them.                     *)
LEMMA AgentIsSet ==
  ASSUME agent \in AgentSettings
  PROVE  /\ LastTurn \in 1 .. MaxTurns /\ Native \in BOOLEAN /\ MaxSteps \in Nat
         /\ MaxSteps > 0
         /\ MaxCalls \in Nat /\ Candidates \in Nat /\ Candidates > 0
         /\ MaxOverflows \in Nat /\ MaxNudges \in Nat /\ MaxPrefills \in Nat
         /\ MaxCurator \in Nat /\ MaxInjected \in Nat /\ Slow \in BOOLEAN
         /\ DiskFaults \in BOOLEAN /\ MaxTurns \in Nat
BY AgentAssumption DEF LastTurn, Native, MaxSteps, MaxCalls, Candidates,
   MaxOverflows, MaxNudges,
   MaxPrefills, MaxCurator, MaxInjected, Slow, DiskFaults

(* The limit of a turn's attempts.                                         *)
LEMMA LimitIsANumber ==
  ASSUME agent \in AgentSettings
  PROVE  AttemptLimit \in Nat
<1> DEFINE a == 3 * MaxSteps  b == MaxSteps + 4  c == MaxSteps + MaxNudges + MaxPrefills + MaxEmpties + 1
<1>1. a \in Nat /\ b \in Nat /\ c \in Nat
  BY AgentIsSet DEF MaxEmpties
<1>2. AttemptLimit = CHOOSE x \in {a, b, c} : \A y \in {a, b, c} : x >= y
  BY DEF AttemptLimit, Max
<1> HIDE DEF a, b, c
<1>3. \E x \in {a, b, c} : \A y \in {a, b, c} : x >= y
  BY <1>1
<1> QED BY <1>1, <1>2, <1>3

(* The settings stay, and all that is derived from them.                   *)
LEMMA AgentStays ==
  ASSUME agent' = agent
  PROVE  /\ LastTurn' = LastTurn /\ Native' = Native /\ MaxSteps' = MaxSteps
         /\ MaxCalls' = MaxCalls /\ Candidates' = Candidates
         /\ MaxOverflows' = MaxOverflows
         /\ MaxNudges' = MaxNudges /\ MaxPrefills' = MaxPrefills
         /\ MaxCurator' = MaxCurator
         /\ MaxInjected' = MaxInjected /\ Slow' = Slow
         /\ DiskFaults' = DiskFaults
         /\ AttemptLimit' = AttemptLimit /\ Unlimited' = Unlimited
BY DEF LastTurn, Native, MaxSteps, MaxCalls, Candidates, MaxOverflows,
   MaxNudges, MaxPrefills,
   MaxCurator, MaxInjected, Slow, DiskFaults, AttemptLimit, Unlimited, MaxEmpties

(* A step of a thread is the thread's alone. *)
LEMMA ThreadMoves ==
  ASSUME TurnsShape, NEW t \in Turns, WorkerStep(t)
  PROVE  /\ UNCHANGED <<agent, runner, outcome, cancelled>>
         /\ Live(t)
         /\ \E to \in WorkerPlaces \ {"none", "starting"} :
               worker' = [worker EXCEPT ![t] = to]
<1> USE DEF TurnsShape, Live, Resting, Ended, WorkerPlaces, Proceeds, Saving,
   shared, task
<1>0. UNCHANGED agent
  BY DEF WorkerStep
<1>1. CASE Begin(t)
  BY <1>1, <1>0 DEF Begin
<1>2. CASE RecordUser(t)
  BY <1>2, <1>0 DEF RecordUser
<1>3. CASE CreateState(t)
  BY <1>3, <1>0 DEF CreateState
<1>4. CASE LoopTop(t)
  BY <1>4, <1>0 DEF LoopTop
<1>5. CASE Request(t)
  BY <1>5, <1>0 DEF Request
<1>6. CASE DrainCancelled(t)
  BY <1>6, <1>0 DEF DrainCancelled
<1>7. CASE ModelCancelled(t)
  BY <1>7, <1>0 DEF ModelCancelled
<1>8. CASE ModelFails(t)
  BY <1>8, <1>0 DEF ModelFails
<1>9. CASE Overflow(t)
  BY <1>9, <1>0 DEF Overflow
<1>10. CASE EmptyReply(t)
  BY <1>10, <1>0 DEF EmptyReply
<1>11. CASE ToolReply(t)
  BY <1>11, <1>0 DEF ToolReply
<1>12. CASE Malformed(t)
  BY <1>12, <1>0 DEF Malformed
<1>13. CASE FinalReply(t)
  BY <1>13, <1>0 DEF FinalReply
<1>14. CASE BeginBatch(t)
  BY <1>14, <1>0 DEF BeginBatch
<1>15. CASE BatchCancelled(t)
  BY <1>15, <1>0 DEF BatchCancelled
<1>16. CASE Execute(t)
  BY <1>16, <1>0 DEF Execute
<1>17. CASE RecordResult(t)
  BY <1>17, <1>0 DEF RecordResult
<1>18. CASE EndBatch(t)
  BY <1>18, <1>0 DEF EndBatch
<1>19. CASE EndTools(t)
  BY <1>19, <1>0 DEF EndTools
<1>20. CASE Finish(t)
  BY <1>20, <1>0 DEF Finish
<1>21. CASE Exhausted(t)
  BY <1>21, <1>0 DEF Exhausted
<1>22. CASE Synthesis(t)
  BY <1>22, <1>0 DEF Synthesis
<1>23. CASE StopLoop(t)
  BY <1>23, <1>0 DEF StopLoop
<1> QED BY <1>1, <1>2, <1>3, <1>4, <1>5, <1>6, <1>7, <1>8, <1>9, <1>10, <1>11,
   <1>12, <1>13, <1>14, <1>15, <1>16, <1>17, <1>18, <1>19, <1>20, <1>21, <1>22,
   <1>23 DEF WorkerStep

(* The calls that are prepared are the first ones, as many as there is     *)
(* room for.                                                               *)
LEMMA PreparedIsPrefix ==
  ASSUME NEW S, NEW calls \in Seq(S), NEW room \in Nat
  PROVE  /\ Prepared(calls, room) \in Seq(S)
         /\ Len(Prepared(calls, room)) <= room
         /\ Len(Prepared(calls, room)) <= Len(calls)
         /\ \A i \in 1 .. Len(Prepared(calls, room)) : Prepared(calls, room)[i] = calls[i]
<1> DEFINE m == Min({Len(calls), room})
<1>1. m \in Nat /\ m <= room /\ m <= Len(calls)
  <2>1. m = CHOOSE x \in {Len(calls), room} : \A y \in {Len(calls), room} : x <= y
    BY DEF Min
  <2>2. \E x \in {Len(calls), room} : \A y \in {Len(calls), room} : x <= y
    OBVIOUS
  <2> HIDE DEF m
  <2> QED BY <2>1, <2>2
<1>2. Prepared(calls, room) = SubSeq(calls, 1, m)
  BY DEF Prepared
<1> HIDE DEF m
<1> QED BY <1>1, <1>2

(* The recursive function within Remembered, as a predicate.               *)
Keeps(calls, prepared, kept) ==
  kept = [i \in 0 .. Len(calls) |->
        IF i = 0 THEN <<>>
        ELSE IF calls[i] \in ToSet(prepared) THEN Append(kept[i - 1], calls[i])
        ELSE kept[i - 1]]

(* Any function of that kind is one that Remembered is read from.          *)
LEMMA RememberedIsKept ==
  ASSUME NEW calls, NEW prepared, NEW g, Keeps(calls, prepared, g)
  PROVE  \E kept : Keeps(calls, prepared, kept) /\ Remembered(calls, prepared) = kept[Len(calls)]
<1> DEFINE k == CHOOSE kept : Keeps(calls, prepared, kept)
<1>1. Keeps(calls, prepared, k)
  OBVIOUS
<1>2. Remembered(calls, prepared) = k[Len(calls)]
  BY Zenon DEF Remembered, Keeps
<1> QED BY <1>1, <1>2

(* What is kept of one call, and of two. *)
LEMMA RememberedOfTwo ==
  ASSUME NEW S, NEW calls \in Seq(S), Len(calls) \in 1 .. 2, NEW prepared
  PROVE  \E x, y :
           /\ x = IF calls[1] \in ToSet(prepared) THEN <<calls[1]>> ELSE <<>>
           /\ y = IF calls[2] \in ToSet(prepared) THEN Append(x, calls[2]) ELSE x
           /\ Remembered(calls, prepared) = IF Len(calls) = 1 THEN x ELSE y
<1> DEFINE x == IF calls[1] \in ToSet(prepared) THEN <<calls[1]>> ELSE <<>>
           y == IF calls[2] \in ToSet(prepared) THEN Append(x, calls[2]) ELSE x
           g == [i \in 0 .. Len(calls) |-> IF i = 0 THEN <<>> ELSE IF i = 1 THEN x ELSE y]
<1>0. calls[1] \in S /\ (Len(calls) = 1 \/ Len(calls) = 2)
  <2>1. Len(calls) \in Nat
    OBVIOUS
  <2> QED BY <2>1
<1>1. x = IF calls[1] \in ToSet(prepared) THEN Append(<<>>, calls[1]) ELSE <<>>
  BY <1>0
<1>2. Keeps(calls, prepared, g)
  <2> SUFFICES ASSUME NEW i \in 0 .. Len(calls)
               PROVE  g[i] = IF i = 0 THEN <<>>
                             ELSE IF calls[i] \in ToSet(prepared) THEN Append(g[i - 1], calls[i])
                             ELSE g[i - 1]
    BY DEF Keeps
  <2>1. g[i] = IF i = 0 THEN <<>> ELSE IF i = 1 THEN x ELSE y
    OBVIOUS
  <2>2. g[0] = <<>> /\ g[1] = x
    OBVIOUS
  <2> HIDE DEF g, x
  <2>3. i = 0 \/ i = 1 \/ (i # 0 /\ i # 1 /\ i - 1 = 1 /\ i = 2)
    <3>1. Len(calls) = 1 => i = 0 \/ i = 1
      OBVIOUS
    <3>2. Len(calls) = 2 => i = 0 \/ i = 1 \/ i = 2
      OBVIOUS
    <3> QED BY <1>0, <3>1, <3>2
  <2>4. CASE i = 0
    BY <2>1, <2>4
  <2>5. CASE i = 1
    <3>1. g[i] = x /\ g[i - 1] = <<>> /\ i # 0
      BY <2>1, <2>2, <2>5
    <3> QED BY <1>1, <2>5, <3>1
  <2>6. CASE i # 0 /\ i # 1 /\ i - 1 = 1 /\ i = 2
    BY <2>1, <2>2, <2>6
  <2> QED BY <2>3, <2>4, <2>5, <2>6
<1>3. PICK kept : Keeps(calls, prepared, kept) /\ Remembered(calls, prepared) = kept[Len(calls)]
  BY <1>2, RememberedIsKept
<1>4. kept[0] = <<>> /\ kept[1] = x /\ (Len(calls) = 2 => kept[2] = y)
  <2>0. 0 \in 0 .. Len(calls) /\ 1 \in 0 .. Len(calls)
          /\ (Len(calls) = 2 => 2 \in 0 .. Len(calls))
    BY <1>0
  <2>1. kept[0] = <<>>
    BY <1>3, <2>0 DEF Keeps
  <2>2. kept[1] = IF calls[1] \in ToSet(prepared) THEN Append(kept[0], calls[1]) ELSE kept[0]
    <3>1. \A i \in 0 .. Len(calls) : kept[i] =
            IF i = 0 THEN <<>>
            ELSE IF calls[i] \in ToSet(prepared) THEN Append(kept[i - 1], calls[i])
            ELSE kept[i - 1]
      BY <1>3 DEF Keeps
    <3>2. 1 - 1 = 0 /\ 1 # 0
      OBVIOUS
    <3> QED BY <2>0, <3>1, <3>2
  <2>3. Len(calls) = 2 =>
          kept[2] = IF calls[2] \in ToSet(prepared) THEN Append(kept[1], calls[2]) ELSE kept[1]
    <3>1. \A i \in 0 .. Len(calls) : kept[i] =
            IF i = 0 THEN <<>>
            ELSE IF calls[i] \in ToSet(prepared) THEN Append(kept[i - 1], calls[i])
            ELSE kept[i - 1]
      BY <1>3 DEF Keeps
    <3>2. 2 - 1 = 1 /\ 2 # 0
      OBVIOUS
    <3> QED BY <2>0, <3>1, <3>2
  <2> HIDE DEF g, x
  <2> QED BY <1>1, <2>1, <2>2, <2>3
<1> HIDE DEF g, x, y
<1>6. Remembered(calls, prepared) = IF Len(calls) = 1 THEN x ELSE y
  BY <1>3, <1>4, <1>0
<1> QED BY <1>6 DEF x, y

(* Of calls that differ, what is remembered is what was prepared.          *)
LEMMA PreparedIsRemembered ==
  ASSUME NEW S, NEW calls \in Seq(S), Len(calls) \in 1 .. MaxReply, IsInjective(calls),
         NEW room \in Nat
  PROVE  Remembered(calls, Prepared(calls, room)) = Prepared(calls, room)
<1> DEFINE p == Prepared(calls, room)
<1>1. /\ p \in Seq(S) /\ Len(p) <= Len(calls)
      /\ \A i \in 1 .. Len(p) : p[i] = calls[i]
  BY PreparedIsPrefix
<1>2. Len(calls) \in 1 .. 2
  BY DEF MaxReply
<1> HIDE DEF p
<1>3. PICK x, y :
           /\ x = IF calls[1] \in ToSet(p) THEN <<calls[1]>> ELSE <<>>
           /\ y = IF calls[2] \in ToSet(p) THEN Append(x, calls[2]) ELSE x
           /\ Remembered(calls, p) = IF Len(calls) = 1 THEN x ELSE y
  BY <1>2, RememberedOfTwo
<1>4. \A k \in 1 .. Len(calls) : calls[k] \in ToSet(p) <=> k <= Len(p)
  <2> SUFFICES ASSUME NEW k \in 1 .. Len(calls)
               PROVE  calls[k] \in ToSet(p) <=> k <= Len(p)
    OBVIOUS
  <2>1. k <= Len(p) => calls[k] \in ToSet(p)
    BY <1>1 DEF ToSet
  <2>2. ASSUME calls[k] \in ToSet(p) PROVE k <= Len(p)
    <3>1. PICK j \in DOMAIN p : p[j] = calls[k]
      BY <2>2 DEF ToSet
    <3>2. j \in 1 .. Len(calls) /\ calls[j] = calls[k] /\ j <= Len(p)
      BY <1>1, <3>1
    <3>3. j = k
      BY <3>2 DEF IsInjective
    <3> QED BY <3>2, <3>3
  <2> QED BY <2>1, <2>2
<1>5. Len(p) \in Nat /\ calls[1] \in S /\ (Len(calls) = 2 => calls[2] \in S)
  BY <1>1, <1>2
<1>6. CASE Len(p) = 0
  <2>1. p = <<>>
    BY <1>1, <1>6
  <2>2. Remembered(calls, p) = <<>>
    BY <1>2, <1>3, <1>4, <1>6
  <2> QED BY <2>1, <2>2 DEF p
<1>7. CASE Len(p) = 1
  <2>1. p = <<calls[1]>>
    BY <1>1, <1>7, <1>5
  <2>2. Remembered(calls, p) = <<calls[1]>>
    BY <1>2, <1>3, <1>4, <1>7
  <2> QED BY <2>1, <2>2 DEF p
<1>8. CASE Len(p) = 2
  <2>0. Len(calls) = 2 /\ calls[2] \in S
    BY <1>1, <1>2, <1>5, <1>8
  <2>1. p = Append(<<calls[1]>>, calls[2])
    <3> DEFINE q == Append(<<calls[1]>>, calls[2])
    <3>1. q \in Seq(S) /\ Len(q) = 2 /\ q[1] = calls[1] /\ q[2] = calls[2]
      BY <1>5, <2>0
    <3>2. p[1] = calls[1] /\ p[2] = calls[2]
      BY <1>1, <1>8
    <3> HIDE DEF q
    <3>3. p = q
      BY <1>1, <1>8, <3>1, <3>2
    <3> QED BY <3>3 DEF q
  <2>2. Remembered(calls, p) = Append(<<calls[1]>>, calls[2])
    BY <1>2, <1>3, <1>4, <1>8, <2>0
  <2> QED BY <2>1, <2>2 DEF p
<1>9. Len(p) = 0 \/ Len(p) = 1 \/ Len(p) = 2
  <2>1. \A n \in 1 .. 2 : \A m \in Nat : m <= n => m = 0 \/ m = 1 \/ m = 2
    OBVIOUS
  <2> QED BY <1>1, <1>2, <1>5, <2>1, Zenon
<1> QED BY <1>6, <1>7, <1>8, <1>9

(* The fields of an entry.                                                 *)
LEMMA EntryIsOne ==
  ASSUME NEW r \in {"user", "assistant", "tool", "answer"}, NEW t \in Turns, NEW ids \in Seq(Ids)
  PROVE  /\ Entry(r, t, ids) \in Entries
         /\ Entry(r, t, ids).role = r /\ Entry(r, t, ids).turn = t
         /\ Entry(r, t, ids).ids = ids
         /\ Entry(r, t, <<>>) \in Entries
         /\ Entry(r, t, <<>>).role = r /\ Entry(r, t, <<>>).turn = t
         /\ Entry(r, t, <<>>).ids = <<>>
<1>1. <<>> \in Seq(Ids)
  OBVIOUS
<1> QED BY <1>1 DEF Entry, Entries

(* What a reply's tool calls are. *)
RepliedCalls(t, n) == [k \in 1 .. n |-> <<t, attempts[t], k>>]

(* The calls of a reply that are prepared have identifiers, fit into the   *)
(* steps that remain, and are those remembered.                            *)
LEMMA CallsArePrepared ==
  ASSUME TurnsShape, NEW t \in Turns, BudgetFits(t), AttemptsFit(t), worker[t] = "model",
         NEW n \in 1 .. MaxReply, NEW ids, ids = Prepared(RepliedCalls(t, n), MaxSteps - steps[t])
  PROVE  /\ ids \in Seq(Ids) /\ steps[t] + Len(ids) <= MaxSteps
         /\ Remembered(RepliedCalls(t, n), ids) = ids
<1> DEFINE calls == RepliedCalls(t, n)
<1>1. attempts[t] \in Nat \ {0}
  BY DEF AttemptsFit, TurnsShape
<1>2. MaxSteps - steps[t] \in Nat
  <2>1. steps[t] + Len(local[t].todo) <= MaxSteps
    BY DEF BudgetFits
  <2>2. steps[t] \in Nat /\ Len(local[t].todo) \in Nat
    BY DEF TurnsShape, IsLocal
  <2>3. MaxSteps \in Nat
    BY AgentIsSet DEF TurnsShape
  <2> QED BY <2>1, <2>2, <2>3
<1>3. \A k \in 1 .. n : <<t, attempts[t], k>> \in Ids
  <2>1. \A k \in 1 .. n : k \in 1 .. MaxReply
    BY DEF MaxReply
  <2> QED BY <1>1, <2>1 DEF Ids
<1>4. calls \in Seq(Ids) /\ Len(calls) = n
  BY <1>3 DEF RepliedCalls, MaxReply
<1>5. IsInjective(calls)
  BY DEF IsInjective, RepliedCalls
<1> HIDE DEF calls
<1>6. ids \in Seq(Ids) /\ Len(ids) <= MaxSteps - steps[t]
  BY <1>2, <1>4, PreparedIsPrefix DEF calls
<1>7. Remembered(calls, ids) = ids
  BY <1>2, <1>4, <1>5, PreparedIsRemembered DEF calls
<1>8. steps[t] + Len(ids) <= MaxSteps
  <2>1. steps[t] \in Nat /\ MaxSteps \in Nat /\ Len(ids) \in Nat
    BY <1>6, AgentIsSet DEF TurnsShape
  <2> QED BY <1>6, <2>1
<1> QED BY <1>6, <1>7, <1>8 DEF calls

(* What a thread's step adds to the history is its own turn's.            *)
LEMMA ThreadRecords ==
  ASSUME TurnsShape, BudgetsFit, NEW t \in Turns, WorkerStep(t)
  PROVE  \E d \in Seq(Entries) : history' = history \o d /\ \A i \in DOMAIN d : d[i].turn = t
           /\ (d[i].role # "tool" \/ RecordResult(t))
<1> DEFINE Goal == \E d \in Seq(Entries) : history' = history \o d /\ \A i \in DOMAIN d : d[i].turn = t /\ (d[i].role # "tool" \/ RecordResult(t))
<1>a. history' = history => Goal
  <2> SUFFICES ASSUME history' = history PROVE Goal
    OBVIOUS
  <2>1. history \in Seq(Entries)
    BY DEF TurnsShape
  <2>2. <<>> \in Seq(Entries) /\ history' = history \o <<>> /\ DOMAIN <<>> = {}
    BY <2>1
  <2> QED BY <2>2
<1>b. ASSUME NEW e \in Entries, e.turn = t, e.role # "tool" \/ RecordResult(t),
             history' = Append(history, e)
      PROVE  Goal
  <2>1. history \in Seq(Entries)
    BY DEF TurnsShape
  <2>2. <<e>> \in Seq(Entries) /\ DOMAIN <<e>> = {1} /\ <<e>>[1] = e
    OBVIOUS
  <2>3. history' = history \o <<e>>
    BY <1>b, <2>1, <2>2
  <2>4. \A i \in DOMAIN <<e>> : <<e>>[i].turn = t /\ (<<e>>[i].role # "tool" \/ RecordResult(t))
    BY <1>b, <2>2
  <2> QED BY <2>2, <2>3, <2>4
<1> SUFFICES Goal
  OBVIOUS
<1> HIDE DEF Goal
<1>c. <<>> \in Seq(Ids) /\ BudgetFits(t) /\ AttemptsFit(t)
  BY DEF BudgetsFit
<1>d. \A r \in {"user", "assistant", "answer"} :
        /\ Entry(r, t, <<>>) \in Entries /\ Entry(r, t, <<>>).turn = t
        /\ Entry(r, t, <<>>).role # "tool"
  BY <1>c DEF Entry, Entries
<1>e. \A r \in {"user", "assistant", "answer"} :
        history' = Append(history, Entry(r, t, <<>>)) => Goal
  BY <1>b, <1>d
<1>1. CASE Begin(t)
  BY <1>1, <1>a DEF Begin, shared
<1>2. CASE RecordUser(t)
  BY <1>2, <1>e DEF RecordUser, Record
<1>3. CASE CreateState(t)
  BY <1>3, <1>a DEF CreateState
<1>4. CASE LoopTop(t)
  BY <1>4, <1>a DEF LoopTop, shared
<1>5. CASE Request(t)
  <2>1. CASE attempts[t] = 0
    BY <1>5, <1>a, <2>1 DEF Request
  <2>2. CASE attempts[t] # 0
    <3> DEFINE d == [i \in 1 .. inbox[t] |-> Entry("user", t, <<>>)]
    <3>1. history' = history \o d
      BY <1>5, <2>2 DEF Request
    <3>2. inbox[t] \in Nat
      BY DEF TurnsShape
    <3>3. d \in Seq(Entries) /\ \A i \in DOMAIN d : d[i].turn = t
            /\ (d[i].role # "tool" \/ RecordResult(t))
      BY <1>d, <3>2
    <3> QED BY <3>1, <3>3 DEF Goal
  <2> QED BY <2>1, <2>2
<1>6. CASE DrainCancelled(t)
  BY <1>6, <1>a DEF DrainCancelled, shared
<1>7. CASE ModelCancelled(t)
  BY <1>7, <1>a DEF ModelCancelled, shared
<1>8. CASE ModelFails(t)
  BY <1>8, <1>a DEF ModelFails, shared
<1>9. CASE Overflow(t)
  BY <1>9, <1>a DEF Overflow, shared
<1>10. CASE EmptyReply(t)
  BY <1>10, <1>a DEF EmptyReply, shared
<1>11. CASE ToolReply(t)
  <2>1. PICK n \in 1 .. MaxReply :
          LET ids == Prepared(RepliedCalls(t, n), MaxSteps - steps[t]) IN
          /\ worker[t] = "model"
          /\ \/ history' = history
             \/ history' = Append(history, Entry("assistant", t, Remembered(RepliedCalls(t, n), ids)))
    BY <1>11 DEF ToolReply, RepliedCalls, Record, Saving, Proceeds
  <2> DEFINE ids == Prepared(RepliedCalls(t, n), MaxSteps - steps[t])
  <2>2. ids \in Seq(Ids) /\ Remembered(RepliedCalls(t, n), ids) = ids
    BY <1>c, <2>1, CallsArePrepared
  <2> QED BY <1>a, <1>b, <2>1, <2>2, EntryIsOne
<1>12. CASE Malformed(t)
  BY <1>12, <1>e DEF Malformed, Record
<1>13. CASE FinalReply(t)
  BY <1>13, <1>a DEF FinalReply, shared
<1>14. CASE BeginBatch(t)
  BY <1>14, <1>a DEF BeginBatch, shared
<1>15. CASE BatchCancelled(t)
  BY <1>15, <1>a DEF BatchCancelled, shared
<1>16. CASE Execute(t)
  BY <1>16, <1>a DEF Execute, shared
<1>17. CASE RecordResult(t)
  <2>1. local[t].batch \in Seq(Ids) /\ local[t].batch # <<>>
    BY <1>17 DEF RecordResult, TurnsShape, IsLocal
  <2>2. <<Head(local[t].batch)>> \in Seq(Ids)
    BY <2>1
  <2> DEFINE e == Entry("tool", t, <<Head(local[t].batch)>>)
  <2>3. e \in Entries /\ e.turn = t
    BY <2>2 DEF Entry, Entries
  <2>4. history' = Append(history, e)
    BY <1>17 DEF RecordResult, Record
  <2> HIDE DEF e
  <2> QED BY <1>17, <1>b, <2>3, <2>4
<1>18. CASE EndBatch(t)
  BY <1>18, <1>a DEF EndBatch, shared
<1>19. CASE EndTools(t)
  BY <1>19, <1>a DEF EndTools, shared
<1>20. CASE Finish(t)
  BY <1>20, <1>a, <1>e DEF Finish, Answer, Record, shared
<1>21. CASE Exhausted(t)
  BY <1>21, <1>a DEF Exhausted, shared
<1>22. CASE Synthesis(t)
  BY <1>22, <1>a DEF Synthesis, shared
<1>23. CASE StopLoop(t)
  BY <1>23, <1>e DEF StopLoop, Answer, Record
<1> QED
  BY <1>1, <1>2, <1>3, <1>4, <1>5, <1>6, <1>7, <1>8, <1>9, <1>10, <1>11, <1>12,
     <1>13, <1>14, <1>15,
     <1>16, <1>17, <1>18, <1>19, <1>20, <1>21, <1>22, <1>23 DEF WorkerStep

(* What a thread's step may do to its counters and to its tool calls.      *)
Edited(t) ==
  /\ DOMAIN local' = Turns /\ IsLocal(local'[t])
  /\ \A u \in Turns \ {t} : local'[u] = local[u]

(* The counters of the recoveries, and the tool calls, as they were.       *)
SameRecoveries(e, l) ==
  /\ e.nudges = l.nudges /\ e.prefills = l.prefills
  /\ e.empties = l.empties /\ e.overflows = l.overflows
SameTools(e, l) == e.todo = l.todo /\ e.batch = l.batch

(* An update of a thread's record.                                         *)
LEMMA EditIsOne ==
  ASSUME TurnsShape, NEW t \in Turns, NEW e, IsLocal(e), local' = [local EXCEPT ![t] = e]
  PROVE  Edited(t) /\ local'[t] = e
BY DEF TurnsShape, Edited

(* Recording calls changes their number alone.                             *)
LEMMA CallEdits ==
  ASSUME TurnsShape, NEW t \in Turns, NEW n \in Nat
  PROVE  LET e == Called(t, n) IN
         /\ IsLocal(e) /\ e.calls = local[t].calls + n
         /\ SameRecoveries(e, local[t]) /\ SameTools(e, local[t])
         /\ e.cut = local[t].cut /\ e.elided = local[t].elided
<1> DEFINE l == local[t]  e == [l EXCEPT !.calls = l.calls + n]
<1>1. IsLocal(l)
  BY DEF TurnsShape
<1>2. Called(t, n) = e
  BY DEF Called
<1> HIDE DEF l
<1>3. /\ IsLocal(e) /\ e.calls = l.calls + n /\ e.cut = l.cut
      /\ e.elided = l.elided
  BY <1>1 DEF IsLocal
<1>4. SameRecoveries(e, l) /\ SameTools(e, l)
  BY <1>1 DEF IsLocal, SameRecoveries, SameTools
<1> QED BY <1>2, <1>3, <1>4 DEF l

(* The number of tool results is a number.                                 *)
LEMMA ResultsAreNumbered ==
  ASSUME NEW s \in Seq(Entries)
  PROVE  ToolResults(s) \in Nat
<1>1. DOMAIN s = 1 .. Len(s) /\ Len(s) \in Nat
  OBVIOUS
<1>2. IsFiniteSet(1 .. Len(s))
  BY <1>1, FS_Interval
<1>3. IsFiniteSet({i \in DOMAIN s : s[i].role = "tool"})
  BY <1>1, <1>2, FS_Subset
<1> QED BY <1>3, FS_CardinalityType DEF ToolResults

(* What a request changes in a thread's record.                            *)
LEMMA RequestEdits ==
  ASSUME TurnsShape, NEW t \in Turns, Request(t)
  PROVE  /\ Edited(t) /\ SameRecoveries(local'[t], local[t])
         /\ SameTools(local'[t], local[t])
         /\ \E n \in CuratorCalls(t) : n \in Nat /\ local'[t].calls = local[t].calls + n
<1>1. PICK n \in CuratorCalls(t) : local' = [local EXCEPT ![t].calls = @ + n]
  BY DEF Request
<1>2. n \in Nat
  <2>1. MaxCurator \in Nat
    BY AgentIsSet DEF TurnsShape
  <2> QED BY <2>1 DEF CuratorCalls
<1>3. local' = [local EXCEPT ![t] = Called(t, n)]
  BY <1>1, <1>2 DEF Called, TurnsShape, IsLocal
<1> DEFINE c == Called(t, n)
<1>4. /\ IsLocal(c) /\ c.calls = local[t].calls + n
      /\ SameRecoveries(c, local[t]) /\ SameTools(c, local[t])
  BY <1>2, CallEdits
<1> HIDE DEF c
<1>5. local'[t] = c /\ Edited(t)
  BY <1>3, <1>4, EditIsOne DEF c
<1> QED BY <1>1, <1>2, <1>4, <1>5

(* The steps that record calls and nothing else.                           *)
LEMMA CallOnlyEdits ==
  ASSUME TurnsShape, NEW t \in Turns,
         ModelCancelled(t) \/ ModelFails(t) \/ FinalReply(t) \/ Synthesis(t)
  PROVE  /\ Edited(t) /\ SameRecoveries(local'[t], local[t])
         /\ SameTools(local'[t], local[t])
         /\ \E n \in 1 .. Candidates : local'[t].calls = local[t].calls + n
<1>0. Candidates \in Nat /\ Candidates > 0
  BY AgentIsSet DEF TurnsShape
<1>1. PICK n \in 1 .. Candidates : local' = [local EXCEPT ![t] = Called(t, n)]
  BY <1>0 DEF ModelCancelled, ModelFails, FinalReply, Synthesis
<1>2. n \in Nat
  BY <1>0
<1> DEFINE c == Called(t, n)
<1>4. /\ IsLocal(c) /\ c.calls = local[t].calls + n
      /\ SameRecoveries(c, local[t]) /\ SameTools(c, local[t])
  BY <1>2, CallEdits
<1> HIDE DEF c
<1>5. local'[t] = c /\ Edited(t)
  BY <1>1, <1>4, EditIsOne DEF c
<1> QED BY <1>1, <1>2, <1>4, <1>5

(* An overflow is counted, within its limit.                               *)
LEMMA OverflowEdits ==
  ASSUME TurnsShape, NEW t \in Turns, Overflow(t)
  PROVE  LET e == local'[t]  l == local[t] IN
         /\ Edited(t) /\ SameTools(e, l)
         /\ e.nudges = l.nudges /\ e.prefills = l.prefills
         /\ e.empties = l.empties
         /\ e.overflows = l.overflows + 1 /\ l.overflows < MaxOverflows
         /\ \E n \in 1 .. Candidates : e.calls = l.calls + n
<1>0. Candidates \in Nat /\ Candidates > 0
  BY AgentIsSet DEF TurnsShape
<1>1. PICK n \in 1 .. Candidates :
        local' = [local EXCEPT ![t] = [Called(t, n) EXCEPT !.overflows = @ + 1, !.elided = Elidable(t)]]
  BY DEF Overflow
<1>2. n \in Nat
  BY <1>0
<1>3. Elidable(t) \in Nat
  <2>1. ToolResults(messages[t]) \in Nat /\ ToolResults(history) \in Nat
    BY ResultsAreNumbered DEF TurnsShape
  <2>2. local[t].elided \in Nat
    BY DEF TurnsShape, IsLocal
  <2>3. Elidable(t) \in Int /\ Elidable(t) > local[t].elided
    BY <2>1 DEF Elidable, Overflow, KeepRecent
  <2> QED BY <2>2, <2>3
<1> DEFINE c == Called(t, n)  e == [c EXCEPT !.overflows = c.overflows + 1, !.elided = Elidable(t)]
<1>4. /\ IsLocal(c) /\ c.calls = local[t].calls + n
      /\ SameRecoveries(c, local[t]) /\ SameTools(c, local[t])
  BY <1>2, CallEdits
<1>5. local' = [local EXCEPT ![t] = e]
  BY <1>1 
<1> HIDE DEF c
<1>6. /\ IsLocal(e) /\ e.calls = c.calls /\ SameTools(e, c)
      /\ e.nudges = c.nudges /\ e.prefills = c.prefills /\ e.empties = c.empties
      /\ e.overflows = c.overflows + 1
  BY <1>3, <1>4 DEF IsLocal, SameTools
<1> HIDE DEF e
<1>7. local'[t] = e /\ Edited(t)
  BY <1>5, <1>6, EditIsOne
<1>8. local[t].overflows < MaxOverflows
  BY DEF Overflow
<1> QED BY <1>4, <1>6, <1>7, <1>8 DEF SameRecoveries, SameTools

(* A malformed reply changes no counter but the calls.                     *)
LEMMA MalformedEdits ==
  ASSUME TurnsShape, NEW t \in Turns, Malformed(t)
  PROVE  /\ Edited(t) /\ SameRecoveries(local'[t], local[t])
         /\ SameTools(local'[t], local[t])
         /\ \E n \in 1 .. Candidates : local'[t].calls = local[t].calls + n
<1>0. Candidates \in Nat /\ Candidates > 0
  BY AgentIsSet DEF TurnsShape
<1>1. PICK n \in 1 .. Candidates :
        local' = [local EXCEPT ![t] = [Called(t, n) EXCEPT !.afterTools = FALSE]]
  BY DEF Malformed
<1>2. n \in Nat
  BY <1>0
<1> DEFINE c == Called(t, n)  e == [c EXCEPT !.afterTools = FALSE]
<1>4. /\ IsLocal(c) /\ c.calls = local[t].calls + n
      /\ SameRecoveries(c, local[t]) /\ SameTools(c, local[t])
  BY <1>2, CallEdits
<1>5. local' = [local EXCEPT ![t] = e]
  BY <1>1
<1> HIDE DEF c
<1>6. /\ IsLocal(e) /\ e.calls = c.calls /\ SameTools(e, c)
      /\ SameRecoveries(e, c)
  BY <1>4 DEF IsLocal, SameTools, SameRecoveries
<1> HIDE DEF e
<1>7. local'[t] = e /\ Edited(t)
  BY <1>5, <1>6, EditIsOne
<1> QED BY <1>4, <1>6, <1>7 DEF SameRecoveries, SameTools

(* A reply with tool calls: what is left to do, and what it says of them.  *)
LEMMA ToolReplyEdits ==
  ASSUME TurnsShape, BudgetsFit, NEW t \in Turns, ToolReply(t)
  PROVE  LET e == local'[t]  l == local[t] IN
         /\ Edited(t) /\ SameRecoveries(e, l) /\ e.batch = l.batch
         /\ e.todo \in Seq(Ids) /\ steps[t] + Len(e.todo) <= MaxSteps
         /\ \E n \in 1 .. Candidates : e.calls = l.calls + n
         /\ LET said == Entry("assistant", t, e.todo) IN
            /\ Native => worker'[t] \in {"tools", "raised"} /\ history' = Append(history, said)
            /\ Native => messages' = [messages EXCEPT ![t] = Append(@, said)]
            /\ ~Native => worker'[t] = "tools" /\ history' = history /\ messages' = messages
<1>0. Candidates \in Nat /\ Candidates > 0 /\ Native \in BOOLEAN
  BY AgentIsSet DEF TurnsShape
<1>a. BudgetFits(t) /\ AttemptsFit(t) /\ worker \in [Turns -> WorkerPlaces]
      /\ messages \in [Turns -> Seq(Entries)]
  BY DEF BudgetsFit, TurnsShape
<1>1. PICK k \in 1 .. MaxReply, n \in 1 .. Candidates :
        LET ids == Prepared(RepliedCalls(t, k), MaxSteps - steps[t])
            said == Entry("assistant", t, Remembered(RepliedCalls(t, k), ids)) IN
        /\ IF Native THEN Saving(t, "model", "tools") /\ Record(said)
                      ELSE Proceeds(t, "model", "tools") /\ UNCHANGED history
        /\ Converse(t, said)
        /\ local' = [local EXCEPT ![t] = [Called(t, n) EXCEPT !.todo = ids]]
  BY DEF ToolReply, RepliedCalls
<1>2. n \in Nat
  BY <1>0
<1> DEFINE ids == Prepared(RepliedCalls(t, k), MaxSteps - steps[t])
           said == Entry("assistant", t, ids)
<1>3. worker[t] = "model"
  BY <1>1 DEF Saving, Proceeds
<1>4. /\ ids \in Seq(Ids) /\ steps[t] + Len(ids) <= MaxSteps
      /\ Remembered(RepliedCalls(t, k), ids) = ids
  BY <1>3, <1>a, CallsArePrepared
<1>5. /\ IF Native THEN Saving(t, "model", "tools") /\ Record(said)
                    ELSE Proceeds(t, "model", "tools") /\ UNCHANGED history
      /\ Converse(t, said)
      /\ local' = [local EXCEPT ![t] = [Called(t, n) EXCEPT !.todo = ids]]
  BY <1>1, <1>4
<1> DEFINE c == Called(t, n)  e == [c EXCEPT !.todo = ids]
<1>6. /\ IsLocal(c) /\ c.calls = local[t].calls + n
      /\ SameRecoveries(c, local[t]) /\ SameTools(c, local[t])
  BY <1>2, CallEdits
<1>7. local' = [local EXCEPT ![t] = e]
  BY <1>5
<1> HIDE DEF c, ids
<1>8. /\ IsLocal(e) /\ e.calls = c.calls /\ SameRecoveries(e, c)
      /\ e.batch = c.batch /\ e.todo = ids
  BY <1>4, <1>6 DEF IsLocal, SameTools, SameRecoveries
<1> HIDE DEF e
<1>9. local'[t] = e /\ Edited(t)
  BY <1>7, <1>8, EditIsOne
<1>10. /\ Edited(t) /\ SameRecoveries(e, local[t]) /\ e.batch = local[t].batch
       /\ e.calls = local[t].calls + n
  BY <1>6, <1>8, <1>9 DEF SameRecoveries, SameTools
<1> HIDE DEF said
<1>11. /\ Native => worker'[t] \in {"tools", "raised"} /\ history' = Append(history, said)
       /\ Native => messages' = [messages EXCEPT ![t] = Append(@, said)]
       /\ ~Native => worker'[t] = "tools" /\ history' = history /\ messages' = messages
  BY <1>0, <1>a, <1>5 DEF Saving, Proceeds, Record, Converse
<1>12. said = Entry("assistant", t, e.todo)
  BY <1>8 DEF said
<1> QED BY <1>4, <1>8, <1>9, <1>10, <1>11, <1>12

(* An empty reply stays within the limits of its recoveries, and adds no   *)
(* tool call and no result to the messages.                                *)
LEMMA EmptyReplyEdits ==
  ASSUME TurnsShape, BudgetsFit, NEW t \in Turns, EmptyReply(t)
  PROVE  LET e == local'[t]  l == local[t] IN
         /\ Edited(t) /\ SameTools(e, l)
         /\ e.nudges <= MaxNudges /\ e.prefills <= MaxPrefills
         /\ e.empties <= MaxEmpties
         /\ e.overflows = l.overflows
         /\ \E n \in 1 .. Candidates : e.calls = l.calls + n
         /\ \E d \in Seq(Entries) :
               /\ messages' = [messages EXCEPT ![t] = @ \o d]
               /\ \A i \in DOMAIN d : d[i].role # "tool" /\ d[i].ids = <<>>
<1>0. /\ Candidates \in Nat /\ Candidates > 0 /\ MaxNudges \in Nat
      /\ MaxPrefills \in Nat /\ MaxEmpties \in Nat
  BY AgentIsSet DEF TurnsShape, MaxEmpties
<1>a. BudgetFits(t) /\ IsLocal(local[t])
  BY DEF BudgetsFit, TurnsShape
<1>1. PICK thinking \in BOOLEAN, n \in 1 .. Candidates :
        LET action == Recovery(t, thinking)
            called == [Called(t, n) EXCEPT !.afterTools = FALSE]
        IN /\ local' = [local EXCEPT ![t] =
                CASE action = "prefill"  -> [called EXCEPT !.prefills = @ + 1]
                  [] action = "nudge"    -> [called EXCEPT !.nudges = @ + 1]
                  [] action = "retry"    -> [called EXCEPT !.empties = @ + 1]
                  [] action = "complete" -> [Called(t, n) EXCEPT !.spent = TRUE]]
           /\ messages' = [messages EXCEPT ![t] = @ \o
                CASE action = "prefill" -> <<Entry("assistant", t, <<>>)>>
                  [] action = "nudge" -> <<Entry("assistant", t, <<>>), Entry("user", t, <<>>)>>
                  [] OTHER -> <<>>]
  BY DEF EmptyReply
<1> DEFINE action == Recovery(t, thinking)
           c == Called(t, n)
           f == [c EXCEPT !.afterTools = FALSE]
           e == CASE action = "prefill"  -> [f EXCEPT !.prefills = f.prefills + 1]
                  [] action = "nudge"    -> [f EXCEPT !.nudges = f.nudges + 1]
                  [] action = "retry"    -> [f EXCEPT !.empties = f.empties + 1]
                  [] action = "complete" -> [c EXCEPT !.spent = TRUE]
           d == CASE action = "prefill" -> <<Entry("assistant", t, <<>>)>>
                  [] action = "nudge" -> <<Entry("assistant", t, <<>>), Entry("user", t, <<>>)>>
                  [] OTHER -> <<>>
<1>2. n \in Nat
  BY <1>0
<1>3. /\ local' = [local EXCEPT ![t] = e]
      /\ messages' = [messages EXCEPT ![t] = @ \o d]
  BY <1>1
<1>4. \/ action = "prefill" /\ local[t].prefills < MaxPrefills
      \/ action = "nudge" /\ local[t].nudges < MaxNudges
      \/ action = "retry" /\ local[t].empties < MaxEmpties
      \/ action = "complete"
  BY DEF Recovery
<1>5. /\ IsLocal(c) /\ c.calls = local[t].calls + n
      /\ SameRecoveries(c, local[t]) /\ SameTools(c, local[t])
  BY <1>2, CallEdits
<1> HIDE DEF c, action
<1>6. IsLocal(f) /\ f.calls = c.calls /\ SameRecoveries(f, c) /\ SameTools(f, c)
  BY <1>5 DEF IsLocal, SameRecoveries, SameTools
<1> HIDE DEF f
<1> DEFINE p == [f EXCEPT !.prefills = f.prefills + 1]
           q == [f EXCEPT !.nudges = f.nudges + 1]
           r == [f EXCEPT !.empties = f.empties + 1]
           s == [c EXCEPT !.spent = TRUE]
<1>p. /\ IsLocal(p) /\ p.calls = f.calls /\ SameTools(p, f)
      /\ p.overflows = f.overflows
      /\ p.prefills = f.prefills + 1 /\ p.nudges = f.nudges
      /\ p.empties = f.empties
  BY <1>6 DEF IsLocal, SameTools
<1>q. /\ IsLocal(q) /\ q.calls = f.calls /\ SameTools(q, f)
      /\ q.overflows = f.overflows
      /\ q.prefills = f.prefills /\ q.nudges = f.nudges + 1
      /\ q.empties = f.empties
  BY <1>6 DEF IsLocal, SameTools
<1>r. /\ IsLocal(r) /\ r.calls = f.calls /\ SameTools(r, f)
      /\ r.overflows = f.overflows
      /\ r.prefills = f.prefills /\ r.nudges = f.nudges
      /\ r.empties = f.empties + 1
  BY <1>6 DEF IsLocal, SameTools
<1>s. /\ IsLocal(s) /\ s.calls = c.calls /\ SameTools(s, c)
      /\ SameRecoveries(s, c)
  BY <1>5 DEF IsLocal, SameTools, SameRecoveries
<1>t. /\ action = "prefill" => e = p
      /\ action = "nudge" => e = q
      /\ action = "retry" => e = r
      /\ action = "complete" => e = s
  OBVIOUS
<1> HIDE DEF e, p, q, r, s
<1>7. /\ IsLocal(e) /\ e.calls = c.calls /\ SameTools(e, c)
      /\ e.overflows = c.overflows
      /\ e.prefills = c.prefills \/ (action = "prefill" /\ e.prefills = c.prefills + 1)
      /\ e.nudges = c.nudges \/ (action = "nudge" /\ e.nudges = c.nudges + 1)
      /\ e.empties = c.empties \/ (action = "retry" /\ e.empties = c.empties + 1)
  BY <1>4, <1>6, <1>p, <1>q, <1>r, <1>s, <1>t DEF SameTools, SameRecoveries
<1>8. local'[t] = e /\ Edited(t)
  BY <1>3, <1>7, EditIsOne
<1>9. /\ local[t].prefills <= MaxPrefills /\ local[t].nudges <= MaxNudges
      /\ local[t].empties <= MaxEmpties
  BY <1>a DEF BudgetFits
<1>10. /\ local[t].prefills \in Nat /\ local[t].nudges \in Nat
       /\ local[t].empties \in Nat
  BY <1>a DEF IsLocal
<1>11. /\ e.nudges <= MaxNudges /\ e.prefills <= MaxPrefills
       /\ e.empties <= MaxEmpties
  BY <1>0, <1>4, <1>5, <1>7, <1>9, <1>10 DEF SameRecoveries
<1>12. d \in Seq(Entries) /\ \A i \in DOMAIN d : d[i].role # "tool" /\ d[i].ids = <<>>
  <2> DEFINE a == Entry("assistant", t, <<>>)  u == Entry("user", t, <<>>)
  <2>1. /\ a \in Entries /\ u \in Entries /\ a.role # "tool" /\ u.role # "tool"
        /\ a.ids = <<>> /\ u.ids = <<>>
    BY DEF Entry, Entries
  <2> HIDE DEF a, u
  <2>2. d = <<a>> \/ d = <<a, u>> \/ d = <<>>
    BY DEF a, u
  <2>3. <<a>> \in Seq(Entries) /\ DOMAIN <<a>> = {1} /\ <<a>>[1] = a
    BY <2>1
  <2>4. /\ <<a, u>> \in Seq(Entries) /\ DOMAIN <<a, u>> = {1, 2}
        /\ <<a, u>>[1] = a /\ <<a, u>>[2] = u
    BY <2>1
  <2>5. <<>> \in Seq(Entries) /\ DOMAIN <<>> = {}
    OBVIOUS
  <2> HIDE DEF d
  <2> QED BY <2>1, <2>2, <2>3, <2>4, <2>5
<1> HIDE DEF d
<1> QED BY <1>3, <1>5, <1>7, <1>8, <1>11, <1>12 DEF SameRecoveries, SameTools

(* A batch is taken from the front of what is left to do, and counted.     *)
LEMMA BeginBatchEdits ==
  ASSUME TurnsShape, BudgetsFit, NEW t \in Turns, BeginBatch(t)
  PROVE  LET e == local'[t]  l == local[t] IN
         /\ Edited(t) /\ SameRecoveries(e, l) /\ e.calls = l.calls
         /\ steps' = [steps EXCEPT ![t] = steps[t] + Len(e.batch)]
         /\ Len(e.batch) <= MaxParallel
         /\ Len(e.batch) + Len(e.todo) = Len(l.todo)
         /\ l.batch = <<>> /\ e.batch \o e.todo = l.todo
<1> DEFINE l == local[t]
<1>0. MaxParallel = 2 /\ steps \in [Turns -> Nat]
  BY DEF MaxParallel, TurnsShape
<1>1. IsLocal(l) /\ l.todo \in Seq(Ids) /\ l.todo # <<>> /\ l.batch = <<>>
  BY DEF BeginBatch, TurnsShape, IsLocal, BudgetsFit, BudgetFits, Saving,
     Proceeds
<1>2. PICK n \in 1 .. Min({MaxParallel, Len(l.todo)}) :
        /\ steps' = [steps EXCEPT ![t] = @ + n]
        /\ local' = [local EXCEPT ![t].batch = SubSeq(l.todo, 1, n),
                                  ![t].todo = SubSeq(@, n + 1, Len(@))]
  BY DEF BeginBatch
<1>3. n \in Nat /\ n <= MaxParallel /\ n <= Len(l.todo)
  <2> DEFINE m == Min({MaxParallel, Len(l.todo)})
  <2>0. Len(l.todo) \in Nat
    BY <1>1
  <2>1. m = CHOOSE x \in {MaxParallel, Len(l.todo)} : \A y \in {MaxParallel, Len(l.todo)} : x <= y
    BY DEF Min
  <2>2. \E x \in {MaxParallel, Len(l.todo)} : \A y \in {MaxParallel, Len(l.todo)} : x <= y
    BY <1>0, <2>0
  <2>3. m \in Nat /\ m <= MaxParallel /\ m <= Len(l.todo)
    <3> HIDE DEF m, l
    <3> QED BY <1>0, <2>0, <2>1, <2>2
  <2>4. n \in 1 .. m
    OBVIOUS
  <2> HIDE DEF m, l
  <2> QED BY <2>3, <2>4, <1>0
<1> DEFINE b == SubSeq(l.todo, 1, n)
           d == SubSeq(l.todo, n + 1, Len(l.todo))
           e == [l EXCEPT !.batch = b, !.todo = d]
<1>4. local' = [local EXCEPT ![t] = e]
  BY <1>1, <1>2 DEF TurnsShape, IsLocal
<1> HIDE DEF l
<1>5. /\ b \in Seq(Ids) /\ d \in Seq(Ids) /\ Len(b) = n
      /\ Len(b) + Len(d) = Len(l.todo)
  BY <1>1, <1>3
<1>6. b \o d = l.todo
  BY <1>1, <1>3
<1> HIDE DEF b, d
<1>7. /\ IsLocal(e) /\ SameRecoveries(e, l) /\ e.calls = l.calls /\ e.batch = b
      /\ e.todo = d
  BY <1>1, <1>5 DEF IsLocal, SameRecoveries
<1> HIDE DEF e
<1>8. Edited(t) /\ local'[t] = e
  BY <1>4, <1>7, EditIsOne
<1>9. steps' = [steps EXCEPT ![t] = steps[t] + Len(e.batch)]
  BY <1>2, <1>5, <1>7
<1> QED BY <1>1, <1>3, <1>5, <1>6, <1>7, <1>8, <1>9 DEF l

(* Executing a batch, and ending it, move no tool call.                    *)
LEMMA ExecuteEdits ==
  ASSUME TurnsShape, NEW t \in Turns, Execute(t) \/ EndTools(t)
  PROVE  LET e == local'[t]  l == local[t] IN
         Edited(t) /\ SameRecoveries(e, l) /\ SameTools(e, l) /\ e.calls = l.calls
<1> DEFINE l == local[t]
<1>1. IsLocal(l)
  BY DEF TurnsShape
<1>2. CASE Execute(t)
  <2>1. PICK cut \in BOOLEAN : local' = [local EXCEPT ![t].cut = cut]
    BY <1>2 DEF Execute
  <2> DEFINE e == [l EXCEPT !.cut = cut]
  <2>2. local' = [local EXCEPT ![t] = e]
    BY <2>1
  <2> HIDE DEF l
  <2>3. /\ IsLocal(e) /\ SameRecoveries(e, l) /\ SameTools(e, l)
        /\ e.calls = l.calls
    BY <1>1 DEF IsLocal, SameRecoveries, SameTools
  <2> HIDE DEF e
  <2> QED BY <2>2, <2>3, EditIsOne DEF l
<1>3. CASE EndTools(t)
  <2> DEFINE e == [l EXCEPT !.afterTools = TRUE]
  <2>2. local' = [local EXCEPT ![t] = e]
    BY <1>3 DEF EndTools
  <2> HIDE DEF l
  <2>3. /\ IsLocal(e) /\ SameRecoveries(e, l) /\ SameTools(e, l)
        /\ e.calls = l.calls
    BY <1>1 DEF IsLocal, SameRecoveries, SameTools
  <2> HIDE DEF e
  <2> QED BY <2>2, <2>3, EditIsOne DEF l
<1> QED BY <1>2, <1>3

(* A result that is recorded leaves the batch.                             *)
LEMMA RecordResultEdits ==
  ASSUME TurnsShape, NEW t \in Turns, RecordResult(t)
  PROVE  LET e == local'[t]  l == local[t] IN
         /\ Edited(t) /\ SameRecoveries(e, l) /\ e.calls = l.calls
         /\ e.todo = l.todo
         /\ l.batch \in Seq(Ids) /\ l.batch # <<>> /\ e.batch = Tail(l.batch)
<1> DEFINE l == local[t]  b == Tail(l.batch)  e == [l EXCEPT !.batch = b]
<1>1. IsLocal(l) /\ l.batch \in Seq(Ids) /\ l.batch # <<>>
  BY DEF RecordResult, TurnsShape, IsLocal
<1>2. local' = [local EXCEPT ![t] = e]
  BY DEF RecordResult
<1> HIDE DEF l
<1>3. b \in Seq(Ids)
  BY <1>1
<1> HIDE DEF b
<1>4. /\ IsLocal(e) /\ SameRecoveries(e, l) /\ e.calls = l.calls
      /\ e.todo = l.todo /\ e.batch = b
  BY <1>1, <1>3 DEF IsLocal, SameRecoveries
<1> HIDE DEF e
<1>5. Edited(t) /\ local'[t] = e
  BY <1>2, <1>4, EditIsOne
<1> QED BY <1>1, <1>4, <1>5 DEF l, b

(* A thread's step changes its own record only, which stays well formed.   *)
LEMMA ThreadEdits ==
  ASSUME TurnsShape, BudgetsFit, NEW t \in Turns, WorkerStep(t)
  PROVE  Edited(t)
<1>a. local' = local => Edited(t)
  BY DEF TurnsShape, Edited
<1>1. CASE Begin(t)
  BY <1>1, <1>a DEF Begin
<1>2. CASE RecordUser(t)
  BY <1>2, <1>a DEF RecordUser
<1>3. CASE CreateState(t)
  BY <1>3, <1>a DEF CreateState
<1>4. CASE LoopTop(t)
  BY <1>4, <1>a DEF LoopTop
<1>5. CASE Request(t)
  BY <1>5, RequestEdits
<1>6. CASE DrainCancelled(t)
  BY <1>6, <1>a DEF DrainCancelled
<1>7. CASE ModelCancelled(t)
  BY <1>7, CallOnlyEdits
<1>8. CASE ModelFails(t)
  BY <1>8, CallOnlyEdits
<1>9. CASE Overflow(t)
  BY <1>9, OverflowEdits
<1>10. CASE EmptyReply(t)
  BY <1>10, EmptyReplyEdits
<1>11. CASE ToolReply(t)
  BY <1>11, ToolReplyEdits
<1>12. CASE Malformed(t)
  BY <1>12, MalformedEdits
<1>13. CASE FinalReply(t)
  BY <1>13, CallOnlyEdits
<1>14. CASE BeginBatch(t)
  BY <1>14, BeginBatchEdits
<1>15. CASE BatchCancelled(t)
  BY <1>15, <1>a DEF BatchCancelled
<1>16. CASE Execute(t)
  BY <1>16, ExecuteEdits
<1>17. CASE RecordResult(t)
  BY <1>17, RecordResultEdits
<1>18. CASE EndBatch(t)
  BY <1>18, <1>a DEF EndBatch
<1>19. CASE EndTools(t)
  BY <1>19, ExecuteEdits
<1>20. CASE Finish(t)
  BY <1>20, <1>a DEF Finish
<1>21. CASE Exhausted(t)
  BY <1>21, <1>a DEF Exhausted
<1>22. CASE Synthesis(t)
  BY <1>22, CallOnlyEdits
<1>23. CASE StopLoop(t)
  BY <1>23, <1>a DEF StopLoop
<1> QED BY <1>1, <1>2, <1>3, <1>4, <1>5, <1>6, <1>7, <1>8, <1>9, <1>10, <1>11,
   <1>12,
     <1>13, <1>14, <1>15, <1>16, <1>17, <1>18, <1>19, <1>20, <1>21, <1>22, <1>23 DEF WorkerStep

(* The part of the shape that threads change without conversing.           *)
CountersShape ==
  /\ current \in Turns \cup {0}
  /\ status \in [Turns -> Statuses]
  /\ steps \in [Turns -> Nat] /\ attempts \in [Turns -> Nat]
  /\ inbox \in [Turns -> Nat]

(* What a request adds to the messages and to the history.                 *)
LEMMA RequestSays ==
  ASSUME TurnsShape, NEW t \in Turns, Request(t)
  PROVE  LET drained == [i \in 1 .. inbox[t] |-> Entry("user", t, <<>>)] IN
         /\ attempts[t] = 0 => messages' = [messages EXCEPT ![t] = Replayed(t)]
              /\ history' = history
         /\ attempts[t] # 0 =>
              messages' = [messages EXCEPT ![t] = IF Native THEN @ \o drained ELSE @]
                /\ history' = history \o drained
         /\ attempts' = [attempts EXCEPT ![t] = attempts[t] + 1]
         /\ drained \in Seq(Entries) /\ Replayed(t) \in Seq(Entries)
         /\ \A i \in DOMAIN drained : drained[i].role # "tool" /\ drained[i].ids = <<>>
<1> DEFINE u == Entry("user", t, <<>>)  drained == [i \in 1 .. inbox[t] |-> u]
<1>1. /\ attempts[t] = 0 => messages' = [messages EXCEPT ![t] = Replayed(t)] /\ history' = history
      /\ attempts[t] # 0 =>
           messages' = [messages EXCEPT ![t] = IF Native THEN @ \o drained ELSE @]
             /\ history' = history \o drained
      /\ attempts' = [attempts EXCEPT ![t] = attempts[t] + 1]
  BY DEF Request
<1>2. u \in Entries /\ u.role # "tool" /\ u.ids = <<>>
  BY DEF Entry, Entries
<1>3. inbox[t] \in Nat /\ history \in Seq(Entries)
  BY DEF TurnsShape
<1> HIDE DEF u
<1>4. drained \in Seq(Entries) /\ \A i \in DOMAIN drained : drained[i].role # "tool"
        /\ drained[i].ids = <<>>
  BY <1>2, <1>3
<1>5. Replayed(t) \in Seq(Entries)
  <2>1. Front(history) \in Seq(Entries)
    BY <1>3 DEF Front
  <2>2. Replayed(t) = IF Native THEN Front(history) \o <<u>> ELSE <<u>>
    BY DEF Replayed, u
  <2>3. <<u>> \in Seq(Entries) /\ Front(history) \o <<u>> \in Seq(Entries)
    BY <1>2, <2>1
  <2> QED BY <2>2, <2>3
<1> QED BY <1>1, <1>4, <1>5 DEF u

(* What the record of a result adds to both.                               *)
LEMMA ResultSays ==
  ASSUME TurnsShape, NEW t \in Turns, RecordResult(t)
  PROVE  LET e == Entry("tool", t, <<Head(local[t].batch)>>) IN
         /\ e \in Entries /\ history' = Append(history, e)
         /\ Native => messages' = [messages EXCEPT ![t] = Append(@, e)]
         /\ ~Native => messages' = messages
<1>1. local[t].batch \in Seq(Ids) /\ local[t].batch # <<>>
  BY RecordResultEdits
<1>2. <<Head(local[t].batch)>> \in Seq(Ids)
  BY <1>1
<1>3. Entry("tool", t, <<Head(local[t].batch)>>) \in Entries
  BY <1>2 DEF Entry, Entries
<1>4. Native \in BOOLEAN /\ messages \in [Turns -> Seq(Entries)]
  BY AgentIsSet DEF TurnsShape
<1> QED BY <1>3, <1>4 DEF RecordResult, Record, Converse

(* A thread's step keeps the shape.                                        *)
LEMMA ThreadKeepsShape ==
  ASSUME TurnsShape, BudgetsFit, NEW t \in Turns, WorkerStep(t)
  PROVE  TurnsShape'
<1>a. /\ CountersShape /\ messages \in [Turns -> Seq(Entries)]
      /\ Native \in BOOLEAN
  BY AgentIsSet DEF TurnsShape, CountersShape
<1>1. CountersShape'
  <2> USE DEF CountersShape, shared, task
  <2>1. CASE Begin(t)
    BY <1>a, <2>1 DEF Begin, Statuses
  <2>2. CASE RecordUser(t)
    BY <1>a, <2>2 DEF RecordUser, Statuses
  <2>3. CASE CreateState(t)
    BY <1>a, <2>3 DEF CreateState, Statuses
  <2>4. CASE LoopTop(t)
    BY <1>a, <2>4 DEF LoopTop, Statuses
  <2>5. CASE Request(t)
    <3>1. /\ UNCHANGED <<current, status, steps>>
          /\ inbox' \in {inbox, [inbox EXCEPT ![t] = 0]}
      BY <2>5 DEF Request
    <3>2. attempts' = [attempts EXCEPT ![t] = attempts[t] + 1]
      BY <2>5 DEF Request
    <3>3. inbox' \in [Turns -> Nat]
      <4>1. /\ inbox \in [Turns -> Nat]
            /\ [inbox EXCEPT ![t] = 0] \in [Turns -> Nat]
        BY <1>a
      <4> QED BY <3>1, <4>1
    <3>4. attempts' \in [Turns -> Nat]
      BY <1>a, <3>2
    <3> QED BY <1>a, <3>1, <3>3, <3>4
  <2>6. CASE DrainCancelled(t)
    BY <1>a, <2>6 DEF DrainCancelled, Statuses
  <2>7. CASE ModelCancelled(t)
    BY <1>a, <2>7 DEF ModelCancelled, Statuses
  <2>8. CASE ModelFails(t)
    BY <1>a, <2>8 DEF ModelFails, Statuses
  <2>9. CASE Overflow(t)
    BY <1>a, <2>9 DEF Overflow, Statuses
  <2>10. CASE EmptyReply(t)
    <3>1. UNCHANGED <<current, status, steps, attempts, inbox>>
      BY <2>10 DEF EmptyReply
    <3> QED BY <1>a, <3>1
  <2>11. CASE ToolReply(t)
    <3>1. UNCHANGED <<current, status, steps, attempts, inbox>>
      BY <2>11 DEF ToolReply
    <3> QED BY <1>a, <3>1
  <2>12. CASE Malformed(t)
    BY <1>a, <2>12 DEF Malformed, Statuses
  <2>13. CASE FinalReply(t)
    BY <1>a, <2>13 DEF FinalReply, Statuses
  <2>14. CASE BeginBatch(t)
    <3>1. /\ steps' = [steps EXCEPT ![t] = steps[t] + Len(local'[t].batch)]
          /\ Edited(t)
      BY <2>14, BeginBatchEdits
    <3>2. Len(local'[t].batch) \in Nat
      BY <3>1 DEF Edited, IsLocal
    <3> QED BY SMTT(60), <1>a, <2>14, <3>1, <3>2 DEF BeginBatch
  <2>15. CASE BatchCancelled(t)
    BY <1>a, <2>15 DEF BatchCancelled, Statuses
  <2>16. CASE Execute(t)
    BY <1>a, <2>16 DEF Execute, Statuses
  <2>17. CASE RecordResult(t)
    BY <1>a, <2>17 DEF RecordResult, Statuses
  <2>18. CASE EndBatch(t)
    BY <1>a, <2>18 DEF EndBatch, Statuses
  <2>19. CASE EndTools(t)
    BY <1>a, <2>19 DEF EndTools, Statuses
  <2>20. CASE Finish(t)
    BY <1>a, <2>20 DEF Finish, Statuses
  <2>21. CASE Exhausted(t)
    <3>1. UNCHANGED <<current, steps, inbox>>
            /\ attempts' \in {attempts, [attempts EXCEPT ![t] = attempts[t] + 1]}
          /\ status' \in {status, [status EXCEPT ![t] = "stopped"]}
      BY <2>21 DEF Exhausted
    <3>2. attempts' \in [Turns -> Nat]
      <4>1. attempts \in [Turns -> Nat]
        BY <1>a
      <4>2. [attempts EXCEPT ![t] = attempts[t] + 1] \in [Turns -> Nat]
        BY <4>1
      <4> QED BY <3>1, <4>1, <4>2
    <3>3. status' \in [Turns -> Statuses]
      <4>1. status \in [Turns -> Statuses] /\ "stopped" \in Statuses
        BY <1>a DEF Statuses
      <4>2. [status EXCEPT ![t] = "stopped"] \in [Turns -> Statuses]
        BY <4>1
      <4> QED BY <3>1, <4>1, <4>2
    <3> QED BY <1>a, <3>1, <3>2, <3>3
  <2>22. CASE Synthesis(t)
    BY <1>a, <2>22 DEF Synthesis, Statuses
  <2>23. CASE StopLoop(t)
    BY <1>a, <2>23 DEF StopLoop, Statuses
  <2> QED BY <2>1, <2>2, <2>3, <2>4, <2>5, <2>6, <2>7, <2>8, <2>9, <2>10, <2>11,
     <2>12,
       <2>13, <2>14, <2>15, <2>16, <2>17, <2>18, <2>19, <2>20, <2>21, <2>22, <2>23 DEF WorkerStep
<1>2. messages' \in [Turns -> Seq(Entries)]
  <2> USE DEF shared, task
  <2>a. messages' = messages => messages' \in [Turns -> Seq(Entries)]
    BY <1>a
  <2>1. CASE Begin(t)
    BY <2>a, <2>1 DEF Begin
  <2>2. CASE RecordUser(t)
    BY <2>a, <2>2 DEF RecordUser
  <2>3. CASE CreateState(t)
    BY <2>a, <2>3 DEF CreateState
  <2>4. CASE LoopTop(t)
    BY <2>a, <2>4 DEF LoopTop
  <2>5. CASE Request(t)
    <3> DEFINE d == [i \in 1 .. inbox[t] |-> Entry("user", t, <<>>)]  r == Replayed(t)
    <3>1. /\ d \in Seq(Entries) /\ r \in Seq(Entries)
          /\ attempts[t] = 0 => messages' = [messages EXCEPT ![t] = r]
          /\ attempts[t] # 0 => messages' = [messages EXCEPT ![t] = IF Native THEN @ \o d ELSE @]
      BY <2>5, RequestSays
    <3> HIDE DEF d, r
    <3>2. messages[t] \in Seq(Entries) /\ messages[t] \o d \in Seq(Entries)
      BY <1>a, <3>1
    <3> QED BY <1>a, <3>1, <3>2
  <2>6. CASE DrainCancelled(t)
    BY <2>a, <2>6 DEF DrainCancelled
  <2>7. CASE ModelCancelled(t)
    BY <2>a, <2>7 DEF ModelCancelled
  <2>8. CASE ModelFails(t)
    BY <2>a, <2>8 DEF ModelFails
  <2>9. CASE Overflow(t)
    BY <2>a, <2>9 DEF Overflow
  <2>10. CASE EmptyReply(t)
    <3>1. PICK d \in Seq(Entries) : messages' = [messages EXCEPT ![t] = @ \o d]
      BY <2>10, EmptyReplyEdits
    <3> QED BY <1>a, <3>1
  <2>11. CASE ToolReply(t)
    <3> DEFINE ids == local'[t].todo  e == Entry("assistant", t, ids)
    <3>1. /\ ids \in Seq(Ids) /\ (Native => messages' = [messages EXCEPT ![t] = Append(@, e)])
          /\ ~Native => messages' = messages
      BY <2>11, ToolReplyEdits
    <3>2. e \in Entries
      BY <3>1 DEF Entry, Entries
    <3> HIDE DEF e
    <3> QED BY SMTT(60), <1>a, <2>a, <3>1, <3>2
  <2>12. CASE Malformed(t)
    BY <2>a, <2>12 DEF Malformed
  <2>13. CASE FinalReply(t)
    BY <2>a, <2>13 DEF FinalReply
  <2>14. CASE BeginBatch(t)
    BY <2>a, <2>14 DEF BeginBatch
  <2>15. CASE BatchCancelled(t)
    BY <2>a, <2>15 DEF BatchCancelled
  <2>16. CASE Execute(t)
    BY <2>a, <2>16 DEF Execute
  <2>17. CASE RecordResult(t)
    <3> DEFINE e == Entry("tool", t, <<Head(local[t].batch)>>)
    <3>1. /\ e \in Entries /\ (Native => messages' = [messages EXCEPT ![t] = Append(@, e)])
          /\ ~Native => messages' = messages
      BY <2>17, ResultSays
    <3> HIDE DEF e
    <3> QED BY <1>a, <2>a, <3>1
  <2>18. CASE EndBatch(t)
    BY <2>a, <2>18 DEF EndBatch
  <2>19. CASE EndTools(t)
    BY <2>a, <2>19 DEF EndTools
  <2>20. CASE Finish(t)
    BY <2>a, <2>20 DEF Finish
  <2>21. CASE Exhausted(t)
    BY <2>a, <2>21 DEF Exhausted
  <2>22. CASE Synthesis(t)
    BY <2>a, <2>22 DEF Synthesis
  <2>23. CASE StopLoop(t)
    BY <2>a, <2>23 DEF StopLoop
  <2> QED BY <2>1, <2>2, <2>3, <2>4, <2>5, <2>6, <2>7, <2>8, <2>9, <2>10, <2>11,
     <2>12,
       <2>13, <2>14, <2>15, <2>16, <2>17, <2>18, <2>19, <2>20, <2>21, <2>22, <2>23 DEF WorkerStep
<1>3. history' \in Seq(Entries)
  <2>1. PICK d \in Seq(Entries) : history' = history \o d
    BY ThreadRecords
  <2>2. history \in Seq(Entries)
    BY DEF TurnsShape
  <2> QED BY <2>1, <2>2
<1>4. agent' = agent /\ runner' = runner /\ outcome' = outcome /\ cancelled' = cancelled
      /\ worker' \in [Turns -> WorkerPlaces]
  BY ZenonT(60), ThreadMoves DEF TurnsShape
<1>5. DOMAIN local' = Turns /\ \A u \in Turns : IsLocal(local'[u])
  BY ThreadEdits DEF TurnsShape, Edited
<1> QED BY <1>1, <1>2, <1>3, <1>4, <1>5 DEF TurnsShape, CountersShape

(* A step of a turn's coroutine, or of what comes from outside, leaves the *)
(* conversation and the counters alone; it starts the thread, or settles   *)
(* the task state.                                                         *)
RunnerOrOutside(t) == RunnerStep(t) \/ Interfere(t)

(* What a step of a coroutine, or one from outside, leaves alone.          *)
LEMMA RunnerLeaves ==
  ASSUME TurnsShape, NEW t \in Turns, RunnerOrOutside(t)
  PROVE  /\ UNCHANGED <<agent, history, current, steps, attempts, messages, local>>
         /\ \/ worker' = worker
            \/ worker[t] = "none" /\ worker' = [worker EXCEPT ![t] = "starting"]
                 /\ status' = status
         /\ status' = status \/ Join(t) \/ Failed(t)
         /\ inbox' = inbox \/ (inbox[t] < MaxInjected
              /\ inbox' = [inbox EXCEPT ![t] = inbox[t] + 1])
BY DEF RunnerOrOutside, RunnerStep, Interfere, StartTurn, Recalled, Join,
   Failed, Returned, Store,
   Inject, Cancel, Proceeds, shared, task

(* Such a step keeps the shape.                                            *)
LEMMA RunnerKeepsShape ==
  ASSUME TurnsShape, NEW t \in Turns, RunnerOrOutside(t)
  PROVE  TurnsShape'
<1>1. /\ UNCHANGED <<agent, history, current, steps, attempts, messages, local>>
      /\ worker' \in [Turns -> WorkerPlaces]
  BY RunnerLeaves DEF TurnsShape, WorkerPlaces
<1>2. inbox' \in [Turns -> Nat]
  <2>1. /\ inbox \in [Turns -> Nat]
        /\ [inbox EXCEPT ![t] = inbox[t] + 1] \in [Turns -> Nat]
    BY DEF TurnsShape
  <2> QED BY <2>1, RunnerLeaves
<1>3. status' \in [Turns -> Statuses]
  <2>1. status \in [Turns -> Statuses]
    BY DEF TurnsShape
  <2>2. CASE status' = status
    BY <2>1, <2>2
  <2>3. CASE Join(t)
    BY <2>1, <2>3 DEF Join, SettleRunning, Statuses
  <2>4. CASE Failed(t)
    BY <2>1, <2>4 DEF Failed, Statuses
  <2> QED BY <2>2, <2>3, <2>4, RunnerLeaves
<1>4. /\ runner' \in [Turns -> RunnerPlaces] /\ outcome' \in [Turns -> Outcomes]
      /\ cancelled' \in SUBSET Turns
  <2>1. /\ runner \in [Turns -> RunnerPlaces] /\ outcome \in [Turns -> Outcomes]
        /\ cancelled \in SUBSET Turns
    BY DEF TurnsShape
  <2> QED BY <2>1 DEF RunnerOrOutside, RunnerStep, Interfere, StartTurn,
     Recalled, Join, Failed,
             Returned, Store, Inject, Cancel, Move, Ends, RunnerPlaces, Outcomes
<1> QED BY <1>1, <1>2, <1>3, <1>4 DEF TurnsShape

-----------------------------------------------------------------------------
(* Runners and threads.                                                    *)
LEMMA ThreadKeepsRunners ==
  ASSUME TurnsShape, RunnersFit, NEW t \in Turns, WorkerStep(t)
  PROVE  RunnersFit'
<1>1. /\ UNCHANGED <<agent, runner, outcome, cancelled>> /\ Live(t)
      /\ Slow' = Slow
      /\ \E to \in WorkerPlaces \ {"none", "starting"} : worker' = [worker EXCEPT ![t] = to]
  BY ThreadMoves, AgentStays
<1>2. worker \in [Turns -> WorkerPlaces]
  BY DEF TurnsShape
<1>3. ASSUME NEW u \in Turns PROVE RunnerFits(u)'
  <2>1. RunnerFits(u)
    BY DEF RunnersFit
  <2>2. CASE u = t
    BY <1>1, <1>2, <2>1, <2>2 DEF RunnerFits, Live, Resting, Ended
  <2>3. CASE u # t
    BY <1>1, <1>2, <2>1, <2>3 DEF RunnerFits, Live
  <2> QED BY <2>2, <2>3
<1> QED BY <1>1, <1>3 DEF RunnersFit

(* A coroutine's step keeps the coroutines and their threads in accord.    *)
LEMMA RunnerKeepsRunners ==
  ASSUME TurnsShape, RunnersFit, NEW t \in Turns, RunnerOrOutside(t)
  PROVE  RunnersFit'
<1>0. runner \in [Turns -> RunnerPlaces] /\ outcome \in [Turns -> Outcomes]
        /\ worker \in [Turns -> WorkerPlaces]
      /\ cancelled \in SUBSET Turns /\ \A u \in Turns : RunnerFits(u)
  BY DEF TurnsShape, RunnersFit
<1>1. agent' = agent /\ Slow' = Slow
  BY RunnerLeaves, AgentStays
<1>2. ASSUME NEW u \in Turns PROVE RunnerFits(u)'
  <2>0. RunnerFits(t) /\ RunnerFits(u)
    BY <1>0
  <2> USE DEF RunnerFits, Live, Resting, Ended, Move, Ends, Proceeds
  <2>1. CASE StartTurn(t)
    BY <1>0, <1>1, <2>0, <2>1 DEF StartTurn
  <2>2. CASE Recalled(t)
    <3>1. UNCHANGED cancelled /\ runner[t] = "recalling"
      BY <2>2 DEF Recalled
    <3>2. CASE /\ runner' = [runner EXCEPT ![t] = "running"] /\ outcome' = outcome
               /\ worker[t] = "none"
               /\ worker' = [worker EXCEPT ![t] = "starting"]
      <4>1. t \notin cancelled
        BY <2>0, <3>1 DEF RunnerFits
      <4> QED BY <1>0, <1>1, <2>0, <3>1, <3>2, <4>1
    <3>3. CASE /\ runner' = [runner EXCEPT ![t] = "over"] /\ worker' = worker
               /\ outcome' = [outcome EXCEPT ![t] = "failed"]
      BY <1>0, <1>1, <2>0, <3>1, <3>3
    <3> QED BY <2>2, <3>2, <3>3 DEF Recalled
  <2>3. CASE Join(t)
    BY <1>0, <1>1, <2>0, <2>3 DEF Join
  <2>4. CASE Failed(t)
    BY <1>0, <1>1, <2>0, <2>4 DEF Failed
  <2>5. CASE Returned(t)
    BY <1>0, <1>1, <2>0, <2>5 DEF Returned
  <2>6. CASE Store(t)
    BY <1>0, <1>1, <2>0, <2>6 DEF Store
  <2>7. CASE Inject(t)
    BY <1>0, <1>1, <2>0, <2>7 DEF Inject
  <2>8. CASE Cancel(t)
    BY <1>0, <1>1, <2>0, <2>8 DEF Cancel
  <2> QED BY <2>1, <2>2, <2>3, <2>4, <2>5, <2>6, <2>7, <2>8 DEF RunnerOrOutside,
     RunnerStep, Interfere
<1>3. ASSUME NEW v \in Turns, NEW u \in Turns, u < v, runner'[v] # "idle"
      PROVE  outcome'[u] # "none"
  <2>1. outcome[u] # "none" => outcome'[u] # "none"
    BY <1>0 DEF RunnerOrOutside, RunnerStep, Interfere, StartTurn, Recalled,
       Join, Failed,
         Returned, Store, Inject, Cancel, Move, Ends
  <2>2. runner[v] # "idle" \/ (v = t /\ StartTurn(t))
    BY <1>0, <1>3 DEF RunnerOrOutside, RunnerStep, Interfere, StartTurn,
       Recalled, Join, Failed,
         Returned, Store, Inject, Cancel, Move, Ends
  <2>3. CASE runner[v] # "idle"
    BY <1>3, <2>1, <2>3 DEF RunnersFit
  <2>4. CASE v = t /\ StartTurn(t)
    BY <1>3, <2>1, <2>4 DEF StartTurn
  <2> QED BY <2>2, <2>3, <2>4
<1> QED BY <1>2, <1>3 DEF RunnersFit

(* One turn at a time is between its start and its answer, and if threads  *)
(* end when they are told to, one thread.                                  *)
LEMMA OneTurnRuns ==
  ASSUME TurnsShape, RunnersFit, NEW t \in Turns, NEW u \in Turns
  PROVE  /\ runner[t] \notin {"idle", "over"} /\ runner[u] \notin {"idle", "over"} => t = u
         /\ Live(t) => worker[t] # "none"
              /\ (outcome[t] # "none" => Slow /\ outcome[t] = "cancelled")
         /\ Live(t) /\ ~Slow => runner[t] \in {"running", "joining"} /\ outcome[t] = "none"
         /\ Live(t) /\ Live(u) /\ ~Slow => t = u
         /\ Live(t) /\ ~Slow /\ u > t => worker[u] = "none"
<1>0. t \in Int /\ u \in Int
  BY AgentAssumption DEF Turns
<1>1. RunnerFits(t) /\ RunnerFits(u) /\ runner[t] \in RunnerPlaces
  BY DEF TurnsShape, RunnersFit
<1>2. runner[t] \notin {"idle", "over"} /\ runner[u] \notin {"idle", "over"} => t = u
  <2>1. t < u /\ runner[u] # "idle" => outcome[t] # "none"
    BY DEF RunnersFit
  <2>2. u < t /\ runner[t] # "idle" => outcome[u] # "none"
    BY DEF RunnersFit
  <2>3. ASSUME runner[t] \notin {"idle", "over"}, runner[u] \notin {"idle", "over"}
        PROVE  ~(t < u) /\ ~(u < t)
    BY <1>1, <2>1, <2>2, <2>3 DEF RunnerFits
  <2> QED BY <1>0, <2>3
<1>3. Live(t) => worker[t] # "none" /\ (outcome[t] # "none" => Slow /\ outcome[t] = "cancelled")
  BY <1>1 DEF RunnerFits, Live, Resting
<1>4. ASSUME NEW v \in Turns, Live(v), ~Slow
      PROVE  runner[v] \in {"running", "joining"} /\ outcome[v] = "none"
  <2>1. RunnerFits(v) /\ runner[v] \in RunnerPlaces
    BY DEF TurnsShape, RunnersFit
  <2> QED BY <1>4, <2>1 DEF RunnerFits, Live, Resting, Ended, RunnerPlaces
<1>5. Live(t) /\ Live(u) /\ ~Slow => t = u
  BY <1>2, <1>4
<1>6. ASSUME Live(t), ~Slow, u > t PROVE worker[u] = "none"
  <2>1. runner[u] = "idle"
    BY <1>0, <1>4, <1>6 DEF RunnersFit
  <2> QED BY <1>1, <2>1 DEF RunnerFits
<1> QED BY <1>2, <1>3, <1>4, <1>5, <1>6

(* The budgets of a turn.                                                  *)
LEMMA ThreadKeepsBudget ==
  ASSUME TurnsShape, BudgetsFit, NEW t \in Turns, WorkerStep(t)
  PROVE  BudgetFits(t)'
<1>a. /\ worker \in [Turns -> WorkerPlaces] /\ steps \in [Turns -> Nat]
      /\ inbox \in [Turns -> Nat]
      /\ IsLocal(local[t]) /\ BudgetFits(t)
  BY DEF TurnsShape, BudgetsFit
<1>b. /\ MaxSteps' = MaxSteps /\ MaxNudges' = MaxNudges
      /\ MaxPrefills' = MaxPrefills
      /\ MaxOverflows' = MaxOverflows /\ MaxInjected' = MaxInjected
      /\ MaxSteps \in Nat
      /\ MaxOverflows \in Nat /\ MaxInjected \in Nat
  BY ThreadMoves, AgentStays, AgentIsSet DEF TurnsShape
<1>c. IsLocal(local'[t]) /\ Edited(t)
  BY ThreadEdits DEF Edited
<1> USE DEF BudgetFits, Proceeds, Saving, SameRecoveries, SameTools
<1>1. CASE Begin(t)
  BY <1>a, <1>b, <1>1 DEF Begin, shared, task
<1>2. CASE RecordUser(t)
  BY <1>a, <1>b, <1>2 DEF RecordUser, shared, task
<1>3. CASE CreateState(t)
  BY <1>a, <1>b, <1>3 DEF CreateState, shared, task
<1>4. CASE LoopTop(t)
  BY <1>a, <1>b, <1>4 DEF LoopTop, shared, task
<1>5. CASE Request(t)
  <2>1. SameRecoveries(local'[t], local[t]) /\ SameTools(local'[t], local[t])
    BY <1>5, RequestEdits
  <2>2. /\ steps' = steps /\ worker[t] = "request"
        /\ inbox' \in {inbox, [inbox EXCEPT ![t] = 0]}
        /\ worker'[t] \in {"model", "raised"}
    BY <1>a, <1>5 DEF Request
  <2>3. inbox'[t] <= MaxInjected
    BY <1>a, <1>b, <2>2
  <2>4. local[t].todo = <<>> /\ local[t].batch = <<>>
    BY <1>a, <2>2
  <2> QED BY <1>a, <1>b, <1>c, <2>1, <2>2, <2>3, <2>4
<1>6. CASE DrainCancelled(t)
  BY <1>a, <1>b, <1>6 DEF DrainCancelled, shared, task
<1>7. CASE ModelCancelled(t)
  BY <1>a, <1>b, <1>c, <1>7, CallOnlyEdits DEF ModelCancelled, IsLocal, shared,
     task
<1>8. CASE ModelFails(t)
  BY <1>a, <1>b, <1>c, <1>8, CallOnlyEdits DEF ModelFails, IsLocal, shared, task
<1>9. CASE Overflow(t)
  <2>1. LET e == local'[t]  l == local[t] IN
        /\ SameTools(e, l)
        /\ e.nudges = l.nudges /\ e.prefills = l.prefills
        /\ e.empties = l.empties
        /\ e.overflows = l.overflows + 1 /\ l.overflows < MaxOverflows
    BY <1>9, OverflowEdits
  <2>2. steps' = steps /\ worker[t] = "model" /\ inbox' = inbox
    BY <1>9 DEF Overflow, task
  <2>3. local[t].todo = <<>> /\ local[t].batch = <<>>
    BY <1>a, <2>2
  <2>4. local'[t].overflows <= MaxOverflows
    BY <1>a, <1>b, <2>1 DEF IsLocal
  <2> QED BY <1>a, <1>b, <2>1, <2>2, <2>3, <2>4
<1>10. CASE EmptyReply(t)
  BY <1>a, <1>b, <1>c, <1>10, EmptyReplyEdits DEF EmptyReply, IsLocal, shared,
     task
<1>11. CASE ToolReply(t)
  BY <1>a, <1>b, <1>c, <1>11, ToolReplyEdits DEF ToolReply, IsLocal, shared,
     task
<1>12. CASE Malformed(t)
  BY <1>a, <1>b, <1>c, <1>12, MalformedEdits DEF Malformed, IsLocal, shared,
     task
<1>13. CASE FinalReply(t)
  BY <1>a, <1>b, <1>c, <1>13, CallOnlyEdits DEF FinalReply, IsLocal, shared,
     task
<1>14. CASE BeginBatch(t)
  <2>1. LET e == local'[t]  l == local[t] IN
        /\ SameRecoveries(e, l)
        /\ steps' = [steps EXCEPT ![t] = steps[t] + Len(e.batch)]
        /\ Len(e.batch) <= MaxParallel
        /\ Len(e.batch) + Len(e.todo) = Len(l.todo)
    BY <1>14, BeginBatchEdits
  <2>2. inbox' = inbox /\ worker'[t] \in {"executing", "raised"}
    BY <1>a, <1>14 DEF BeginBatch
  <2>3. /\ Len(local'[t].batch) \in Nat /\ Len(local'[t].todo) \in Nat
        /\ Len(local[t].todo) \in Nat
    <3>1. /\ local'[t].batch \in Seq(Ids) /\ local'[t].todo \in Seq(Ids)
          /\ local[t].todo \in Seq(Ids)
      BY <1>a, <1>c DEF IsLocal
    <3> QED BY <3>1
  <2>4. steps'[t] + Len(local'[t].todo) <= MaxSteps
    <3>1. steps[t] \in Nat /\ steps'[t] = steps[t] + Len(local'[t].batch)
      BY <1>a, <2>1
    <3>2. steps[t] + Len(local[t].todo) <= MaxSteps
      BY <1>a
    <3>3. Len(local'[t].batch) + Len(local'[t].todo) = Len(local[t].todo)
      BY <2>1
    <3> DEFINE x == Len(local'[t].batch)  y == Len(local'[t].todo)  z == Len(local[t].todo)
               s == steps[t]  r == steps'[t]  m == MaxSteps
    <3>4. /\ x \in Nat /\ y \in Nat /\ z \in Nat /\ s \in Nat /\ m \in Nat
          /\ r = s + x /\ s + z <= m /\ x + y = z
      BY <1>b, <2>3, <3>1, <3>2, <3>3
    <3> HIDE DEF x, y, z, s, r, m
    <3>5. r + y <= m
      BY <3>4
    <3> QED BY <3>5 DEF r, y, m
  <2> QED BY <1>a, <1>b, <2>1, <2>2, <2>4
<1>15. CASE BatchCancelled(t)
  BY <1>a, <1>b, <1>15 DEF BatchCancelled, shared, task
<1>16. CASE Execute(t)
  BY <1>a, <1>b, <1>c, <1>16, ExecuteEdits DEF Execute, IsLocal, shared, task
<1>17. CASE RecordResult(t)
  <2>1. LET e == local'[t]  l == local[t] IN
        /\ SameRecoveries(e, l) /\ e.todo = l.todo
        /\ l.batch \in Seq(Ids) /\ l.batch # <<>> /\ e.batch = Tail(l.batch)
    BY <1>17, RecordResultEdits
  <2>2. /\ inbox' = inbox /\ steps' = steps /\ worker[t] = "results"
        /\ worker'[t] \in {"results", "raised"}
    BY <1>a, <1>17 DEF RecordResult, task
  <2>3. /\ Len(Tail(local[t].batch)) = Len(local[t].batch) - 1
        /\ Len(local[t].batch) \in Nat
    BY <2>1
  <2>4. Len(local'[t].batch) <= MaxParallel
    BY <1>a, <2>1, <2>3 DEF MaxParallel
  <2> QED BY <1>a, <1>b, <2>1, <2>2, <2>4
<1>18. CASE EndBatch(t)
  BY <1>a, <1>b, <1>18 DEF EndBatch, shared, task
<1>19. CASE EndTools(t)
  BY <1>a, <1>b, <1>c, <1>19, ExecuteEdits DEF EndTools, IsLocal, shared, task
<1>20. CASE Finish(t)
  BY <1>a, <1>b, <1>20 DEF Finish, shared, task
<1>21. CASE Exhausted(t)
  BY <1>a, <1>b, <1>21 DEF Exhausted, shared, task
<1>22. CASE Synthesis(t)
  BY <1>a, <1>b, <1>c, <1>22, CallOnlyEdits DEF Synthesis, IsLocal, shared, task
<1>23. CASE StopLoop(t)
  BY <1>a, <1>b, <1>23 DEF StopLoop, shared, task
<1> QED BY <1>1, <1>2, <1>3, <1>4, <1>5, <1>6, <1>7, <1>8, <1>9, <1>10, <1>11,
   <1>12,
       <1>13, <1>14, <1>15, <1>16, <1>17, <1>18, <1>19, <1>20, <1>21, <1>22, <1>23 DEF WorkerStep

(* A thread's step keeps its attempts and calls within their limits.       *)
LEMMA ThreadKeepsAttempts ==
  ASSUME TurnsShape, BudgetsFit, NEW t \in Turns, WorkerStep(t)
  PROVE  AttemptsFit(t)'
<1>a. /\ worker \in [Turns -> WorkerPlaces] /\ attempts \in [Turns -> Nat]
      /\ local[t].calls \in Nat /\ AttemptsFit(t)
  BY DEF TurnsShape, BudgetsFit, IsLocal
<1>b. /\ MaxCalls' = MaxCalls /\ Candidates' = Candidates
      /\ AttemptLimit' = AttemptLimit
      /\ Unlimited' = Unlimited /\ MaxCalls \in Nat /\ Candidates \in Nat
      /\ Candidates > 0
      /\ AttemptLimit \in Nat
  BY ThreadMoves, AgentStays, AgentIsSet, LimitIsANumber DEF TurnsShape
<1> USE DEF AttemptsFit, Proceeds, Saving
<1>1. CASE Begin(t)
  BY <1>a, <1>b, <1>1 DEF Begin, shared, task, Uncreated, Unasked, Ended,
     MayContinue, LimitReached, Synthesizes
<1>2. CASE RecordUser(t)
  BY <1>a, <1>b, <1>2 DEF RecordUser, shared, task, Uncreated, Unasked, Ended,
     MayContinue, LimitReached, Synthesizes
<1>3. CASE CreateState(t)
  BY <1>a, <1>b, <1>3 DEF CreateState, shared, task, Uncreated, Unasked, Ended,
     MayContinue, LimitReached, Synthesizes
<1>4. CASE LoopTop(t)
  BY <1>a, <1>b, <1>4 DEF LoopTop, shared, task, Uncreated, Unasked, Ended,
     MayContinue, LimitReached, Synthesizes
<1>5. CASE Request(t)
  <2>1. PICK n \in CuratorCalls(t) : n \in Nat /\ local'[t].calls = local[t].calls + n
    BY <1>5, RequestEdits
  <2>2. /\ attempts' = [attempts EXCEPT ![t] = attempts[t] + 1]
        /\ worker[t] = "request"
        /\ worker'[t] \in {"model", "raised"}
    BY <1>a, <1>5 DEF Request
  <2>3. n = 0 \/ (attempts[t] = 0 /\ (Unlimited \/ n <= MaxCalls - 1))
    BY <2>1 DEF CuratorCalls
  <2>4. Unlimited \/ local'[t].calls < MaxCalls
    BY <1>a, <1>b, <2>1, <2>2, <2>3 DEF Unlimited
  <2> QED BY <1>a, <1>b, <2>1, <2>2, <2>4 DEF Uncreated, Unasked, Ended
<1>6. CASE DrainCancelled(t)
  BY <1>a, <1>b, <1>6 DEF DrainCancelled, shared, task, Uncreated, Unasked,
     Ended, MayContinue, LimitReached, Synthesizes
<1>7. CASE ModelCancelled(t)
  <2>1. PICK n \in 1 .. Candidates : local'[t].calls = local[t].calls + n
    BY <1>7, CallOnlyEdits
  <2>2. n \in Nat /\ n > 0 /\ n <= Candidates
    BY <1>b
  <2>3. /\ attempts' = attempts /\ worker[t] \in {"model", "synthesis"}
        /\ worker'[t] \in {"cancelled", "raised", "top", "exhausted", "tools", "finish", "stopping"}
        /\ worker[t] = "synthesis" => worker'[t] \in {"cancelled", "stopping"}
    BY <1>a, <1>7 DEF ModelCancelled, task
  <2> QED BY <1>a, <1>b, <2>1, <2>2, <2>3 DEF Uncreated, Unasked, Ended
<1>8. CASE ModelFails(t)
  <2>1. PICK n \in 1 .. Candidates : local'[t].calls = local[t].calls + n
    BY <1>8, CallOnlyEdits
  <2>2. n \in Nat /\ n > 0 /\ n <= Candidates
    BY <1>b
  <2>3. /\ attempts' = attempts /\ worker[t] \in {"model", "synthesis"}
        /\ worker'[t] \in {"cancelled", "raised", "top", "exhausted", "tools", "finish", "stopping"}
        /\ worker[t] = "synthesis" => worker'[t] \in {"cancelled", "stopping"}
    BY <1>a, <1>8 DEF ModelFails, task
  <2> QED BY <1>a, <1>b, <2>1, <2>2, <2>3 DEF Uncreated, Unasked, Ended
<1>9. CASE Overflow(t)
  <2>1. PICK n \in 1 .. Candidates : local'[t].calls = local[t].calls + n
    BY <1>9, OverflowEdits
  <2>2. n \in Nat /\ n > 0 /\ n <= Candidates
    BY <1>b
  <2>3. /\ attempts' = attempts /\ worker[t] \in {"model", "synthesis"}
        /\ worker'[t] \in {"cancelled", "raised", "top", "exhausted", "tools", "finish", "stopping"}
        /\ worker[t] = "synthesis" => worker'[t] \in {"cancelled", "stopping"}
    BY <1>a, <1>9 DEF Overflow, task
  <2> QED BY <1>a, <1>b, <2>1, <2>2, <2>3 DEF Uncreated, Unasked, Ended
<1>10. CASE EmptyReply(t)
  <2>1. PICK n \in 1 .. Candidates : local'[t].calls = local[t].calls + n
    BY <1>10, EmptyReplyEdits
  <2>2. n \in Nat /\ n > 0 /\ n <= Candidates
    BY <1>b
  <2>3. /\ attempts' = attempts /\ worker[t] \in {"model", "synthesis"}
        /\ worker'[t] \in {"cancelled", "raised", "top", "exhausted", "tools", "finish", "stopping"}
        /\ worker[t] = "synthesis" => worker'[t] \in {"cancelled", "stopping"}
    BY <1>a, <1>10 DEF EmptyReply, task
  <2> QED BY <1>a, <1>b, <2>1, <2>2, <2>3 DEF Uncreated, Unasked, Ended
<1>11. CASE ToolReply(t)
  <2>1. PICK n \in 1 .. Candidates : local'[t].calls = local[t].calls + n
    BY <1>11, ToolReplyEdits
  <2>2. n \in Nat /\ n > 0 /\ n <= Candidates
    BY <1>b
  <2>3. /\ attempts' = attempts /\ worker[t] \in {"model", "synthesis"}
        /\ worker'[t] \in {"cancelled", "raised", "top", "exhausted", "tools", "finish", "stopping"}
        /\ worker[t] = "synthesis" => worker'[t] \in {"cancelled", "stopping"}
    BY <1>a, <1>11 DEF ToolReply, task
  <2> QED BY <1>a, <1>b, <2>1, <2>2, <2>3 DEF Uncreated, Unasked, Ended
<1>12. CASE Malformed(t)
  <2>1. PICK n \in 1 .. Candidates : local'[t].calls = local[t].calls + n
    BY <1>12, MalformedEdits
  <2>2. n \in Nat /\ n > 0 /\ n <= Candidates
    BY <1>b
  <2>3. /\ attempts' = attempts /\ worker[t] \in {"model", "synthesis"}
        /\ worker'[t] \in {"cancelled", "raised", "top", "exhausted", "tools", "finish", "stopping"}
        /\ worker[t] = "synthesis" => worker'[t] \in {"cancelled", "stopping"}
    BY <1>a, <1>12 DEF Malformed, task
  <2> QED BY <1>a, <1>b, <2>1, <2>2, <2>3 DEF Uncreated, Unasked, Ended
<1>13. CASE FinalReply(t)
  <2>1. PICK n \in 1 .. Candidates : local'[t].calls = local[t].calls + n
    BY <1>13, CallOnlyEdits
  <2>2. n \in Nat /\ n > 0 /\ n <= Candidates
    BY <1>b
  <2>3. /\ attempts' = attempts /\ worker[t] \in {"model", "synthesis"}
        /\ worker'[t] \in {"cancelled", "raised", "top", "exhausted", "tools", "finish", "stopping"}
        /\ worker[t] = "synthesis" => worker'[t] \in {"cancelled", "stopping"}
    BY <1>a, <1>13 DEF FinalReply, task
  <2> QED BY <1>a, <1>b, <2>1, <2>2, <2>3 DEF Uncreated, Unasked, Ended
<1>14. CASE BeginBatch(t)
  BY <1>a, <1>b, <1>14, BeginBatchEdits DEF BeginBatch, shared, task, Uncreated,
     Unasked, Ended
<1>15. CASE BatchCancelled(t)
  BY <1>a, <1>b, <1>15 DEF BatchCancelled, shared, task, Uncreated, Unasked,
     Ended, MayContinue, LimitReached, Synthesizes
<1>16. CASE Execute(t)
  BY <1>a, <1>b, <1>16, ExecuteEdits DEF Execute, shared, task, Uncreated,
     Unasked, Ended
<1>17. CASE RecordResult(t)
  BY <1>a, <1>b, <1>17, RecordResultEdits DEF RecordResult, shared, task,
     Uncreated, Unasked, Ended
<1>18. CASE EndBatch(t)
  BY <1>a, <1>b, <1>18 DEF EndBatch, shared, task, Uncreated, Unasked, Ended,
     MayContinue, LimitReached, Synthesizes
<1>19. CASE EndTools(t)
  BY <1>a, <1>b, <1>19, ExecuteEdits DEF EndTools, shared, task, Uncreated,
     Unasked, Ended
<1>20. CASE Finish(t)
  BY <1>a, <1>b, <1>20 DEF Finish, shared, task, Uncreated, Unasked, Ended,
     MayContinue, LimitReached, Synthesizes
<1>21. CASE Exhausted(t)
  BY <1>a, <1>b, <1>21 DEF Exhausted, shared, task, Uncreated, Unasked, Ended,
     MayContinue, LimitReached, Synthesizes
<1>22. CASE Synthesis(t)
  <2>1. PICK n \in 1 .. Candidates : local'[t].calls = local[t].calls + n
    BY <1>22, CallOnlyEdits
  <2>2. n \in Nat /\ n > 0 /\ n <= Candidates
    BY <1>b
  <2>3. /\ attempts' = attempts /\ worker[t] \in {"model", "synthesis"}
        /\ worker'[t] \in {"cancelled", "raised", "top", "exhausted", "tools", "finish", "stopping"}
        /\ worker[t] = "synthesis" => worker'[t] \in {"cancelled", "stopping"}
    BY <1>a, <1>22 DEF Synthesis, task
  <2> QED BY <1>a, <1>b, <2>1, <2>2, <2>3 DEF Uncreated, Unasked, Ended
<1>23. CASE StopLoop(t)
  BY <1>a, <1>b, <1>23 DEF StopLoop, shared, task, Uncreated, Unasked, Ended,
     MayContinue, LimitReached, Synthesizes
<1> QED BY <1>1, <1>2, <1>3, <1>4, <1>5, <1>6, <1>7, <1>8, <1>9, <1>10, <1>11,
   <1>12,
       <1>13, <1>14, <1>15, <1>16, <1>17, <1>18, <1>19, <1>20, <1>21, <1>22, <1>23 DEF WorkerStep

(* So does every step, of every turn.                                      *)
LEMMA BudgetsStay ==
  ASSUME TurnsShape, BudgetsFit, RunnersFit, NEW t \in Turns, WorkerStep(t) \/ RunnerOrOutside(t)
  PROVE  BudgetsFit'
<1>a. /\ worker \in [Turns -> WorkerPlaces] /\ attempts \in [Turns -> Nat]
      /\ steps \in [Turns -> Nat] /\ inbox \in [Turns -> Nat]
  BY DEF TurnsShape
<1>1. CASE WorkerStep(t)
  <2>1. BudgetFits(t)' /\ AttemptsFit(t)'
    BY <1>1, ThreadKeepsBudget, ThreadKeepsAttempts
  <2>2. ASSUME NEW u \in Turns, u # t PROVE BudgetFits(u)' /\ AttemptsFit(u)'
    <3>1. BudgetFits(u) /\ AttemptsFit(u)
      BY DEF BudgetsFit
    <3>2. agent' = agent /\ worker'[u] = worker[u] /\ local'[u] = local[u]
      BY <1>a, <1>1, <2>2, ThreadMoves, ThreadEdits DEF Edited
    <3>3. /\ steps'[u] = steps[u] /\ attempts'[u] = attempts[u]
          /\ inbox'[u] = inbox[u]
      BY <1>a, <1>1, <2>2 DEF WorkerStep, Begin, RecordUser, CreateState,
         LoopTop, Request, DrainCancelled,
         ModelCancelled, ModelFails, Overflow, EmptyReply, ToolReply, Malformed, FinalReply,
         BeginBatch, BatchCancelled, Execute, RecordResult, EndBatch, EndTools, Finish, Exhausted,
         Synthesis, StopLoop, task
    <3> QED BY <3>1, <3>2, <3>3, AgentStays DEF BudgetFits, AttemptsFit
  <2> QED BY <2>1, <2>2 DEF BudgetsFit
<1>2. CASE RunnerOrOutside(t)
  <2> SUFFICES ASSUME NEW u \in Turns PROVE BudgetFits(u)' /\ AttemptsFit(u)'
    BY DEF BudgetsFit
  <2>1. BudgetFits(u) /\ AttemptsFit(u)
    BY DEF BudgetsFit
  <2>2. UNCHANGED <<agent, steps, attempts, local>>
    BY <1>2, RunnerLeaves
  <2>3. worker'[u] = worker[u] \/ (worker[u] = "none" /\ worker'[u] = "starting")
    BY <1>a, <1>2, RunnerLeaves
  <2>4. inbox'[u] = inbox[u] \/ inbox'[u] <= MaxInjected
    <3>1. MaxInjected \in Nat
      BY AgentIsSet DEF TurnsShape
    <3> QED BY <1>a, <1>2, <3>1, RunnerLeaves
  <2>5. BudgetFits(u)'
    BY <2>1, <2>2, <2>3, <2>4, AgentStays DEF BudgetFits
  <2>6. AttemptsFit(u)'
    BY <2>1, <2>2, <2>3, AgentStays DEF AttemptsFit, Uncreated, Unasked, Ended
  <2> QED BY <2>5, <2>6
<1> QED BY <1>1, <1>2

-----------------------------------------------------------------------------
(* What a turn leaves in the history.                                      *)
Mine(t) == {i \in DOMAIN history : history[i].turn = t}
(* Its first one is a question; its last one an answer.                    *)
Opens(t) == \E i \in Mine(t) : history[i].role = "user" /\ \A j \in Mine(t) : i <= j
Closes(t) == \E i \in Mine(t) : history[i].role = "answer" /\ \A j \in Mine(t) : j <= i

(* What the history has of a turn, by the place of its thread: nothing     *)
(* before the question, the answer last once it returned, and a result for *)
(* every tool call started but those still in the batch.                   *)
EntriesFitOf(t) ==
  /\ worker[t] \in Unasked => Mine(t) = {}
  /\ worker[t] \notin Unasked \cup {"raised", "cancelled"} => Opens(t)
  /\ worker[t] = "returned" => Closes(t)
  /\ ResultsOf(t) + Len(local[t].batch) = steps[t]

(* The same of every turn.                                                 *)
EntriesFit == \A t \in Turns : EntriesFitOf(t)

(* The elements of two sequences joined.                                   *)
LEMMA Joined ==
  ASSUME NEW S, NEW s \in Seq(S), NEW d \in Seq(S)
  PROVE  /\ Len(s) \in Nat /\ Len(d) \in Nat /\ Len(s \o d) = Len(s) + Len(d)
         /\ DOMAIN (s \o d) = 1 .. (Len(s) + Len(d)) /\ DOMAIN s = 1 .. Len(s)
         /\ DOMAIN d = 1 .. Len(d)
         /\ \A i \in 1 .. Len(s) : (s \o d)[i] = s[i] /\ (s \o d)[i] \in S
         /\ \A i \in 1 .. (Len(s) + Len(d)) : i > Len(s) =>
              i - Len(s) \in 1 .. Len(d) /\ (s \o d)[i] = d[i - Len(s)] /\ (s \o d)[i] \in S
         /\ \A i \in 1 .. (Len(s) + Len(d)) : (s \o d)[i] \in S
OBVIOUS

(* Entries of one turn change nothing in what the history has of another.  *)
LEMMA OthersStand ==
  ASSUME TurnsShape, NEW t \in Turns, NEW u, NEW d \in Seq(Entries), history' = history \o d,
         \A i \in DOMAIN d : d[i].turn # u
  PROVE  Mine(u)' = Mine(u) /\ (Opens(u)' <=> Opens(u)) /\ (Closes(u)' <=> Closes(u))
         /\ ResultsOf(u)' = ResultsOf(u)
<1>0. history \in Seq(Entries)
  BY DEF TurnsShape
<1>1. /\ Len(history) \in Nat /\ DOMAIN history = 1 .. Len(history)
      /\ DOMAIN d = 1 .. Len(d)
      /\ DOMAIN history' = 1 .. (Len(history) + Len(d)) /\ Len(d) \in Nat
      /\ \A i \in 1 .. Len(history) : history'[i] = history[i]
      /\ \A i \in 1 .. (Len(history) + Len(d)) : i > Len(history) =>
           i - Len(history) \in 1 .. Len(d) /\ history'[i] = d[i - Len(history)]
  BY <1>0, Joined
<1>2. \A i \in DOMAIN history' : history'[i].turn = u => i \in DOMAIN history
  BY <1>1
<1>3. Mine(u)' = Mine(u) /\ \A i \in Mine(u) : history'[i] = history[i]
  BY <1>1, <1>2 DEF Mine
<1>4. {i \in DOMAIN history' : history'[i].role = "tool" /\ history'[i].turn = u}
      = {i \in DOMAIN history : history[i].role = "tool" /\ history[i].turn = u}
  BY <1>1, <1>2
<1>5. ResultsOf(u)' = ResultsOf(u)
  BY <1>4 DEF ResultsOf
<1> QED BY <1>3, <1>5 DEF Opens, Closes

(* A turn that opens with its question goes on doing so.                   *)
LEMMA OpeningStands ==
  ASSUME TurnsShape, NEW t \in Turns, NEW d \in Seq(Entries), history' = history \o d, Opens(t)
  PROVE  Opens(t)'
<1>0. history \in Seq(Entries)
  BY DEF TurnsShape
<1>1. /\ Len(history) \in Nat /\ DOMAIN history = 1 .. Len(history)
      /\ Len(d) \in Nat
      /\ DOMAIN history' = 1 .. (Len(history) + Len(d))
      /\ \A i \in 1 .. Len(history) : history'[i] = history[i]
  BY <1>0, Joined
<1>2. PICK i \in Mine(t) : history[i].role = "user" /\ \A j \in Mine(t) : i <= j
  BY DEF Opens
<1>3. i \in Mine(t)' /\ history'[i].role = "user"
  BY <1>1, <1>2 DEF Mine
<1>4. \A j \in Mine(t)' : i <= j
  <2> SUFFICES ASSUME NEW j \in Mine(t)' PROVE i <= j
    OBVIOUS
  <2>1. i \in 1 .. Len(history) /\ j \in 1 .. (Len(history) + Len(d))
    BY <1>1 DEF Mine
  <2>2. j \in 1 .. Len(history) => j \in Mine(t)
    BY <1>1 DEF Mine
  <2> QED BY <1>1, <1>2, <2>1, <2>2
<1> QED BY <1>3, <1>4 DEF Opens

(* The results of a turn are finitely many.                                *)
LEMMA ResultsAreFinite ==
  ASSUME TurnsShape, NEW t
  PROVE  /\ ResultsOf(t) \in Nat
         /\ IsFiniteSet({i \in DOMAIN history : history[i].role = "tool" /\ history[i].turn = t})
<1>1. DOMAIN history = 1 .. Len(history) /\ Len(history) \in Nat
  BY DEF TurnsShape
<1>2. IsFiniteSet(1 .. Len(history))
  BY <1>1, FS_Interval
<1>3. IsFiniteSet({i \in DOMAIN history : history[i].role = "tool" /\ history[i].turn = t})
  BY <1>1, <1>2, FS_Subset
<1> QED BY <1>3, FS_CardinalityType DEF ResultsOf

(* Entries that are no results leave their number.                         *)
LEMMA ResultsStay ==
  ASSUME TurnsShape, NEW t, NEW d \in Seq(Entries), history' = history \o d,
         \A i \in DOMAIN d : d[i].role # "tool"
  PROVE  ResultsOf(t)' = ResultsOf(t)
<1>0. history \in Seq(Entries)
  BY DEF TurnsShape
<1>1. /\ Len(history) \in Nat /\ DOMAIN history = 1 .. Len(history)
      /\ DOMAIN d = 1 .. Len(d)
      /\ DOMAIN history' = 1 .. (Len(history) + Len(d)) /\ Len(d) \in Nat
      /\ \A i \in 1 .. Len(history) : history'[i] = history[i]
      /\ \A i \in 1 .. (Len(history) + Len(d)) : i > Len(history) =>
           i - Len(history) \in 1 .. Len(d) /\ history'[i] = d[i - Len(history)]
  BY <1>0, Joined
<1>2. \A i \in DOMAIN history' : history'[i].role = "tool" => i \in DOMAIN history
  BY <1>1
<1>4. {i \in DOMAIN history' : history'[i].role = "tool" /\ history'[i].turn = t}
      = {i \in DOMAIN history : history[i].role = "tool" /\ history[i].turn = t}
  BY <1>1, <1>2
<1> QED BY <1>4 DEF ResultsOf

(* A result adds one to it.                                                *)
LEMMA ResultsGrow ==
  ASSUME TurnsShape, NEW t, NEW e \in Entries, history' = Append(history, e), e.role = "tool",
         e.turn = t
  PROVE  ResultsOf(t)' = ResultsOf(t) + 1
<1> DEFINE n == Len(history)
           R == {i \in DOMAIN history : history[i].role = "tool" /\ history[i].turn = t}
           Q == {i \in DOMAIN history' : history'[i].role = "tool" /\ history'[i].turn = t}
<1>1. /\ n \in Nat /\ DOMAIN history = 1 .. n /\ DOMAIN history' = 1 .. (n + 1)
      /\ \A i \in 1 .. n : history'[i] = history[i]
      /\ history'[n + 1] = e
  BY DEF TurnsShape
<1>2. n + 1 \notin R /\ Q = R \cup {n + 1}
  <2>1. \A i \in 1 .. (n + 1) : i \in 1 .. n \/ i = n + 1
    BY <1>1
  <2>2. /\ 1 .. n \subseteq 1 .. (n + 1) /\ n + 1 \in 1 .. (n + 1)
        /\ n + 1 \notin 1 .. n
    BY <1>1
  <2> HIDE DEF n
  <2> QED BY <1>1, <2>1, <2>2
<1>3. IsFiniteSet(R) /\ Cardinality(R) \in Nat
  BY ResultsAreFinite DEF ResultsOf
<1> HIDE DEF R, Q, n
<1>4. Cardinality(Q) = Cardinality(R) + 1
  BY <1>2, <1>3, FS_AddElement
<1> QED BY <1>4 DEF R, Q, ResultsOf

(* The first entry of a turn opens it, an answer closes it.                *)
LEMMA LastIsSaid ==
  ASSUME TurnsShape, NEW t, NEW e \in Entries, e.turn = t, history' = Append(history, e)
  PROVE  /\ Mine(t) = {} /\ e.role = "user" => Opens(t)'
         /\ e.role = "answer" => Closes(t)'
<1> DEFINE n == Len(history)
<1>1. /\ n \in Nat /\ DOMAIN history = 1 .. n /\ DOMAIN history' = 1 .. (n + 1)
      /\ \A i \in 1 .. n : history'[i] = history[i]
      /\ history'[n + 1] = e
  BY DEF TurnsShape
<1> HIDE DEF n
<1>2. n + 1 \in Mine(t)' /\ \A j \in Mine(t)' : j <= n + 1
  BY <1>1 DEF Mine
<1>3. ASSUME Mine(t) = {}, NEW j \in Mine(t)' PROVE n + 1 <= j
  <2>1. j \in 1 .. (n + 1) /\ history'[j].turn = t
    BY <1>1 DEF Mine
  <2>2. j \notin 1 .. n
    BY <1>1, <1>3, <2>1 DEF Mine
  <2> QED BY <1>1, <2>1, <2>2
<1> QED BY <1>1, <1>2, <1>3 DEF Opens, Closes

(* A started tool call is in the batch or has its result.                  *)
LEMMA ThreadKeepsResults ==
  ASSUME TurnsShape, BudgetsFit, NEW t \in Turns, EntriesFitOf(t), WorkerStep(t)
  PROVE  ResultsOf(t)' + Len(local'[t].batch) = steps'[t]
<1>a. ResultsOf(t) + Len(local[t].batch) = steps[t] /\ ResultsOf(t) \in Nat
      /\ steps \in [Turns -> Nat] /\ local[t].batch \in Seq(Ids)
  BY ResultsAreFinite DEF EntriesFitOf, TurnsShape, IsLocal
<1>1. CASE RecordResult(t)
  <2>1. /\ local[t].batch # <<>> /\ local'[t].batch = Tail(local[t].batch)
        /\ steps' = steps
    BY <1>1, RecordResultEdits DEF RecordResult, task
  <2>2. /\ Len(Tail(local[t].batch)) = Len(local[t].batch) - 1
        /\ Len(local[t].batch) \in Nat
    BY <1>a, <2>1
  <2> DEFINE e == Entry("tool", t, <<Head(local[t].batch)>>)
  <2>3. e \in Entries /\ history' = Append(history, e)
    BY <1>1, ResultSays
  <2>4. e.role = "tool" /\ e.turn = t
    BY DEF Entry
  <2> HIDE DEF e
  <2>5. ResultsOf(t)' = ResultsOf(t) + 1
    BY <2>3, <2>4, ResultsGrow
  <2>6. Len(local'[t].batch) = Len(local[t].batch) - 1 /\ steps'[t] = steps[t]
    BY <2>1, <2>2
  <2> DEFINE x == Len(local[t].batch)  y == Len(local'[t].batch)  r == ResultsOf(t)  q == ResultsOf(t)'
  <2>7. x \in Nat /\ y = x - 1 /\ r \in Nat /\ q = r + 1 /\ r + x = steps[t]
    BY <1>a, <2>2, <2>5, <2>6
  <2> HIDE DEF x, y, r, q
  <2>8. q + y = steps[t]
    BY <2>7
  <2> QED BY <2>6, <2>8 DEF q, y
<1>2. CASE ~RecordResult(t)
  <2>1. PICK d \in Seq(Entries) :
          history' = history \o d /\ \A i \in DOMAIN d : d[i].turn = t
            /\ (d[i].role # "tool" \/ RecordResult(t))
    BY ThreadRecords
  <2>2. ResultsOf(t)' = ResultsOf(t)
    BY <1>2, <2>1, ResultsStay
  <2>3. CASE BeginBatch(t)
    <3>1. LET e == local'[t]  l == local[t] IN
          steps' = [steps EXCEPT ![t] = steps[t] + Len(e.batch)] /\ l.batch = <<>> /\ Edited(t)
      BY <2>3, BeginBatchEdits
    <3>2. Len(local[t].batch) = 0
      BY <3>1
    <3>3. local'[t].batch \in Seq(Ids)
      BY <3>1 DEF Edited, IsLocal
    <3> QED BY <1>a, <2>2, <3>1, <3>2, <3>3
  <2>4. CASE ~BeginBatch(t)
    <3>1. steps' = steps
      BY <2>4 DEF WorkerStep, Begin, RecordUser, CreateState, LoopTop, Request,
         DrainCancelled,
         ModelCancelled, ModelFails, Overflow, EmptyReply, ToolReply, Malformed, FinalReply,
         BatchCancelled, Execute, RecordResult, EndBatch, EndTools, Finish, Exhausted,
         Synthesis, StopLoop, task
    <3>2. local'[t].batch = local[t].batch
      <4>a. local' = local => local'[t].batch = local[t].batch
        OBVIOUS
      <4> USE DEF SameTools
      <4>1. CASE Begin(t)
        BY <4>a, <4>1 DEF Begin
      <4>2. CASE RecordUser(t)
        BY <4>a, <4>2 DEF RecordUser
      <4>3. CASE CreateState(t)
        BY <4>a, <4>3 DEF CreateState
      <4>4. CASE LoopTop(t)
        BY <4>a, <4>4 DEF LoopTop
      <4>5. CASE Request(t)
        BY <4>5, RequestEdits
      <4>6. CASE DrainCancelled(t)
        BY <4>a, <4>6 DEF DrainCancelled
      <4>7. CASE ModelCancelled(t)
        BY <4>7, CallOnlyEdits
      <4>8. CASE ModelFails(t)
        BY <4>8, CallOnlyEdits
      <4>9. CASE Overflow(t)
        BY <4>9, OverflowEdits
      <4>10. CASE EmptyReply(t)
        BY <4>10, EmptyReplyEdits
      <4>11. CASE ToolReply(t)
        BY <4>11, ToolReplyEdits
      <4>12. CASE Malformed(t)
        BY <4>12, MalformedEdits
      <4>13. CASE FinalReply(t)
        BY <4>13, CallOnlyEdits
      <4>15. CASE BatchCancelled(t)
        BY <4>a, <4>15 DEF BatchCancelled
      <4>16. CASE Execute(t)
        BY <4>16, ExecuteEdits
      <4>18. CASE EndBatch(t)
        BY <4>a, <4>18 DEF EndBatch
      <4>19. CASE EndTools(t)
        BY <4>19, ExecuteEdits
      <4>20. CASE Finish(t)
        BY <4>a, <4>20 DEF Finish
      <4>21. CASE Exhausted(t)
        BY <4>a, <4>21 DEF Exhausted
      <4>22. CASE Synthesis(t)
        BY <4>22, CallOnlyEdits
      <4>23. CASE StopLoop(t)
        BY <4>a, <4>23 DEF StopLoop
      <4> QED BY <1>2, <2>4, <4>1, <4>2, <4>3, <4>4, <4>5, <4>6, <4>7, <4>8,
         <4>9, <4>10, <4>11,
           <4>12, <4>13, <4>15, <4>16, <4>18, <4>19, <4>20, <4>21, <4>22, <4>23 DEF WorkerStep
    <3> QED BY <1>a, <2>2, <3>1, <3>2
  <2> QED BY <2>3, <2>4
<1> QED BY <1>1, <1>2

(* A thread's step keeps what the history has of its turn.                 *)
LEMMA ThreadKeepsEntries ==
  ASSUME TurnsShape, BudgetsFit, NEW t \in Turns, EntriesFitOf(t), WorkerStep(t)
  PROVE  EntriesFitOf(t)'
<1>a. worker \in [Turns -> WorkerPlaces] /\ Live(t)
  BY ThreadMoves DEF TurnsShape
<1>b. ASSUME NEW r \in {"user", "answer"}
      PROVE  LET e == Entry(r, t, <<>>) IN e \in Entries /\ e.role = r /\ e.turn = t
  BY DEF Entry, Entries
<1>c. PICK d \in Seq(Entries) : history' = history \o d
  BY ThreadRecords
<1>1. worker'[t] \in Unasked => Mine(t)' = {}
  <2> SUFFICES ASSUME worker'[t] \in Unasked PROVE Mine(t)' = {}
    OBVIOUS
  <2>1. Begin(t)
    <3> USE DEF Unasked, Proceeds, Saving
    <3> QED BY <1>a DEF WorkerStep, RecordUser, CreateState, LoopTop, Request,
       DrainCancelled,
         ModelCancelled, ModelFails, Overflow, EmptyReply, ToolReply, Malformed, FinalReply,
         BeginBatch, BatchCancelled, Execute, RecordResult, EndBatch, EndTools, Finish, Exhausted,
         Synthesis, StopLoop
  <2>2. history' = history /\ worker[t] = "starting"
    BY <2>1 DEF Begin, shared, Proceeds
  <2> QED BY <2>2 DEF EntriesFitOf, Unasked, Mine
<1>2. worker'[t] \notin Unasked \cup {"raised", "cancelled"} => Opens(t)'
  <2> SUFFICES ASSUME worker'[t] \notin Unasked \cup {"raised", "cancelled"}
               PROVE  Opens(t)'
    OBVIOUS
  <2>1. CASE worker[t] \notin Unasked
    <3>1. Opens(t)
      BY <1>a, <2>1 DEF EntriesFitOf, Live, Resting, Ended
    <3> QED BY <1>c, <3>1, OpeningStands
  <2>2. CASE worker[t] \in Unasked
    <3>1. RecordUser(t)
      <4> USE DEF Unasked, Proceeds, Saving
      <4> QED BY <1>a, <2>2 DEF WorkerStep, Begin, CreateState, LoopTop,
         Request, DrainCancelled,
           ModelCancelled, ModelFails, Overflow, EmptyReply, ToolReply, Malformed, FinalReply,
           BeginBatch, BatchCancelled, Execute, RecordResult, EndBatch, EndTools, Finish, Exhausted,
           Synthesis, StopLoop
    <3>2. Mine(t) = {}
      BY <2>2 DEF EntriesFitOf
    <3> DEFINE e == Entry("user", t, <<>>)
    <3>3. /\ history' = Append(history, e) /\ e \in Entries /\ e.role = "user"
          /\ e.turn = t
      BY <1>b, <3>1 DEF RecordUser, Record
    <3> HIDE DEF e
    <3> QED BY <3>2, <3>3, LastIsSaid
  <2> QED BY <2>1, <2>2
<1>3. worker'[t] = "returned" => Closes(t)'
  <2> SUFFICES ASSUME worker'[t] = "returned" PROVE Closes(t)'
    OBVIOUS
  <2>1. Finish(t) \/ StopLoop(t)
    <3> USE DEF Proceeds, Saving
    <3> QED BY <1>a DEF WorkerStep, Begin, RecordUser, CreateState, LoopTop,
       Request, DrainCancelled,
         ModelCancelled, ModelFails, Overflow, EmptyReply, ToolReply, Malformed, FinalReply,
         BeginBatch, BatchCancelled, Execute, RecordResult, EndBatch, EndTools, Exhausted, Synthesis
  <2> DEFINE e == Entry("answer", t, <<>>)
  <2>2. history' = Append(history, e)
    BY <1>a, <2>1 DEF Finish, StopLoop, Answer, Record, Proceeds, Saving
  <2>3. e \in Entries /\ e.role = "answer" /\ e.turn = t
    BY <1>b
  <2> HIDE DEF e
  <2> QED BY <2>2, <2>3, LastIsSaid
<1>4. ResultsOf(t)' + Len(local'[t].batch) = steps'[t]
  BY ThreadKeepsResults
<1> QED BY <1>1, <1>2, <1>3, <1>4 DEF EntriesFitOf

(* Every step keeps what the history has of every turn.                    *)
LEMMA EntriesStay ==
  ASSUME TurnsShape, BudgetsFit, EntriesFit, NEW t \in Turns, WorkerStep(t) \/ RunnerOrOutside(t)
  PROVE  EntriesFit'
<1>a. worker \in [Turns -> WorkerPlaces] /\ steps \in [Turns -> Nat]
  BY DEF TurnsShape
<1> SUFFICES ASSUME NEW u \in Turns PROVE EntriesFitOf(u)'
  BY DEF EntriesFit
<1>1. EntriesFitOf(u) /\ EntriesFitOf(t)
  BY DEF EntriesFit
<1>2. CASE WorkerStep(t) /\ u = t
  BY <1>1, <1>2, ThreadKeepsEntries
<1>3. CASE WorkerStep(t) /\ u # t
  <2>1. PICK d \in Seq(Entries) : history' = history \o d /\ \A i \in DOMAIN d : d[i].turn = t
    BY <1>3, ThreadRecords
  <2>2. worker'[u] = worker[u] /\ local'[u] = local[u]
    BY <1>a, <1>3, ThreadMoves, ThreadEdits DEF Edited
  <2>3. steps'[u] = steps[u]
    BY <1>a, <1>3 DEF WorkerStep, Begin, RecordUser, CreateState, LoopTop,
       Request, DrainCancelled,
       ModelCancelled, ModelFails, Overflow, EmptyReply, ToolReply, Malformed, FinalReply,
       BeginBatch, BatchCancelled, Execute, RecordResult, EndBatch, EndTools, Finish, Exhausted,
       Synthesis, StopLoop, task
  <2>4. Mine(u)' = Mine(u) /\ (Opens(u)' <=> Opens(u)) /\ (Closes(u)' <=> Closes(u))
        /\ ResultsOf(u)' = ResultsOf(u)
    BY <1>3, <2>1, OthersStand
  <2> QED BY <1>1, <2>2, <2>3, <2>4 DEF EntriesFitOf
<1>4. CASE RunnerOrOutside(t)
  <2>1. UNCHANGED <<history, steps, local>>
    BY <1>4, RunnerLeaves
  <2>2. worker'[u] = worker[u] \/ (worker[u] = "none" /\ worker'[u] = "starting")
    BY <1>a, <1>4, RunnerLeaves
  <2>3. Mine(u)' = Mine(u) /\ (Opens(u)' <=> Opens(u)) /\ (Closes(u)' <=> Closes(u))
        /\ ResultsOf(u)' = ResultsOf(u)
    BY <2>1 DEF Mine, Opens, Closes, ResultsOf
  <2> QED BY <1>1, <2>1, <2>2, <2>3 DEF EntriesFitOf, Unasked
<1> QED BY <1>2, <1>3, <1>4

-----------------------------------------------------------------------------
(* Task states.                                                            *)
StatusFits(t) ==
  /\ worker[t] \in Uncreated => status[t] = "none" /\ current # t
  /\ DiskFaults \/ worker[t] \in Uncreated \cup {"cancelled"} \/ status[t] # "none"
  /\ DiskFaults \/ worker[t] # "stopping" \/ outcome[t] # "none" \/ status[t] = "stopped"
  /\ DiskFaults \/ worker[t] # "returned" \/ outcome[t] \notin {"none", "completed"}
     \/ status[t] \in {"completed", "stopped"}
  /\ DiskFaults \/ runner[t] \notin {"running", "joining", "storing"} \/ status[t] = "none"
     \/ current = t \/ (Slow /\ current # 0 /\ outcome[current] = "cancelled")
  /\ DiskFaults \/ Slow \/ outcome[t] = "none" \/ status[t] # "running"

(* The same of every turn.                                                 *)
StatusesFit == \A t \in Turns : StatusFits(t)

(* What a thread's step does to the task states and to the current one.    *)
LEMMA ThreadSettles ==
  ASSUME TurnsShape, NEW t \in Turns, WorkerStep(t)
  PROVE  /\ \A u \in Turns \ {t} : status'[u] = status[u]
         /\ \/ CreateState(t) /\ current' = t /\ status'[t] = "running"
               /\ worker[t] = "creating" /\ worker'[t] \in {"top", "raised"}
            \/ /\ current' = current
                    /\ (worker'[t] \in Uncreated => worker[t] \in Uncreated /\ status'[t] = status[t])
               /\ worker[t] \in Uncreated => worker'[t] \in Uncreated \cup {"cancelled"}
                    \/ DiskFaults
               /\ worker[t] \in Uncreated => status'[t] = status[t]
               /\ status'[t] = status[t] \/ status'[t] # "none"
               /\ worker'[t] = "stopping" => status'[t] = "stopped"
               /\ worker'[t] = "returned" => status'[t] = "completed"
                    \/ (status'[t] = status[t] /\ worker[t] = "stopping")
<1>a. worker \in [Turns -> WorkerPlaces] /\ status \in [Turns -> Statuses]
  BY DEF TurnsShape
<1> USE <1>a DEF Proceeds, Saving, Uncreated, Unasked, shared
<1>1. CASE Begin(t)
  BY <1>1 DEF Begin
<1>2. CASE RecordUser(t)
  BY <1>2 DEF RecordUser
<1>3. CASE CreateState(t)
  BY <1>3 DEF CreateState
<1>4. CASE LoopTop(t)
  BY <1>4 DEF LoopTop
<1>5. CASE Request(t)
  BY <1>5 DEF Request
<1>6. CASE DrainCancelled(t)
  BY <1>6 DEF DrainCancelled
<1>7. CASE ModelCancelled(t)
  BY <1>7 DEF ModelCancelled
<1>8. CASE ModelFails(t)
  BY <1>8 DEF ModelFails
<1>9. CASE Overflow(t)
  BY <1>9 DEF Overflow
<1>10. CASE EmptyReply(t)
  <2>1. /\ UNCHANGED <<current, status>> /\ worker[t] = "model"
        /\ worker'[t] \in {"exhausted", "top", "tools", "raised"}
    BY <1>10 DEF EmptyReply
  <2> QED BY <2>1
<1>11. CASE ToolReply(t)
  <2>1. /\ UNCHANGED <<current, status>> /\ worker[t] = "model"
        /\ worker'[t] \in {"exhausted", "top", "tools", "raised"}
    BY <1>11 DEF ToolReply
  <2> QED BY <2>1
<1>12. CASE Malformed(t)
  BY <1>12 DEF Malformed
<1>13. CASE FinalReply(t)
  BY <1>13 DEF FinalReply
<1>14. CASE BeginBatch(t)
  BY <1>14 DEF BeginBatch
<1>15. CASE BatchCancelled(t)
  BY <1>15 DEF BatchCancelled
<1>16. CASE Execute(t)
  BY <1>16 DEF Execute
<1>17. CASE RecordResult(t)
  BY <1>17 DEF RecordResult
<1>18. CASE EndBatch(t)
  BY <1>18 DEF EndBatch
<1>19. CASE EndTools(t)
  BY <1>19 DEF EndTools
<1>20. CASE Finish(t)
  BY <1>20 DEF Finish
<1>21. CASE Exhausted(t)
  BY <1>21 DEF Exhausted
<1>22. CASE Synthesis(t)
  BY <1>22 DEF Synthesis
<1>23. CASE StopLoop(t)
  BY <1>23 DEF StopLoop
<1> QED BY <1>1, <1>2, <1>3, <1>4, <1>5, <1>6, <1>7, <1>8, <1>9, <1>10, <1>11,
   <1>12,
       <1>13, <1>14, <1>15, <1>16, <1>17, <1>18, <1>19, <1>20, <1>21, <1>22, <1>23 DEF WorkerStep

(* A thread's step keeps the task states in accord with the threads.       *)
LEMMA ThreadKeepsStatuses ==
  ASSUME TurnsShape, RunnersFit, StatusesFit, NEW t \in Turns, WorkerStep(t)
  PROVE  StatusesFit'
<1>a. /\ worker \in [Turns -> WorkerPlaces] /\ status \in [Turns -> Statuses]
      /\ current \in Turns \cup {0}
      /\ DiskFaults \in BOOLEAN /\ Slow \in BOOLEAN
  BY AgentIsSet DEF TurnsShape
<1>t. t # 0 /\ \A u \in Turns : u # 0
  BY DEF Turns
<1>b. /\ UNCHANGED <<runner, outcome>> /\ DiskFaults' = DiskFaults
      /\ Slow' = Slow /\ Live(t)
      /\ \A u \in Turns \ {t} : worker'[u] = worker[u]
  BY <1>a, ThreadMoves, AgentStays
<1>c. Live(t) => outcome[t] = "none" \/ (Slow /\ outcome[t] = "cancelled")
  BY OneTurnRuns
<1>1. StatusFits(t)'
  <2>0. StatusFits(t)
    BY DEF StatusesFit
  <2>1. CASE CreateState(t) /\ current' = t /\ status'[t] = "running"
               /\ worker'[t] \in {"top", "raised"}
    BY <1>a, <1>b, <1>c, <1>t, <2>0, <2>1 DEF StatusFits, Uncreated, Unasked
  <2>2. CASE /\ current' = current
                  /\ (worker'[t] \in Uncreated => worker[t] \in Uncreated /\ status'[t] = status[t])
             /\ worker[t] \in Uncreated => worker'[t] \in Uncreated \cup {"cancelled"}
                  \/ DiskFaults
             /\ worker[t] \in Uncreated => status'[t] = status[t]
             /\ status'[t] = status[t] \/ status'[t] # "none"
             /\ worker'[t] = "stopping" => status'[t] = "stopped"
             /\ worker'[t] = "returned" => status'[t] = "completed"
                  \/ (status'[t] = status[t] /\ worker[t] = "stopping")
    <3>1. (worker'[t] \in Uncreated => status'[t] = "none" /\ current' # t)
      BY <2>0, <2>2 DEF StatusFits
    <3>2. worker[t] \notin Uncreated => worker[t] \notin {"cancelled"}
      BY <1>b DEF Live, Resting, Ended
    <3>3. DiskFaults \/ worker'[t] \in Uncreated \cup {"cancelled"}
            \/ (worker[t] \notin Uncreated /\ status[t] # "none" /\ status'[t] # "none")
      BY <2>0, <2>2, <3>2 DEF StatusFits
    <3>4. DiskFaults \/ worker'[t] # "returned" \/ outcome[t] \notin {"none", "completed"}
          \/ status'[t] \in {"completed", "stopped"}
      BY <1>b, <1>c, <2>0, <2>2 DEF StatusFits
    <3>5. DiskFaults \/ runner[t] \notin {"running", "joining", "storing"} \/ status'[t] = "none"
          \/ current' = t \/ (Slow /\ current' # 0 /\ outcome[current'] = "cancelled")
      BY <2>0, <2>2, <3>3, <3>2 DEF StatusFits
    <3>6. DiskFaults \/ Slow \/ outcome[t] = "none"
      BY <1>b, <1>c
    <3>7. DiskFaults \/ worker'[t] # "stopping" \/ status'[t] = "stopped"
      BY <2>2
    <3> QED BY <1>b, <3>1, <3>3, <3>4, <3>5, <3>6, <3>7 DEF StatusFits
  <2> QED BY <2>1, <2>2, ThreadSettles
<1>2. ASSUME NEW u \in Turns, u # t PROVE StatusFits(u)'
  <2>0. StatusFits(u)
    BY DEF StatusesFit
  <2>1. status'[u] = status[u] /\ worker'[u] = worker[u]
    BY <1>b, <1>2, ThreadSettles
  <2>2. current' = current \/ current' = t
    BY ThreadSettles
  <2>3. CASE current' = current
    BY <1>b, <2>0, <2>1, <2>3 DEF StatusFits
  <2>4. CASE current' = t
    <3>1. runner[u] \in {"running", "joining", "storing"} => Slow /\ outcome[t] = "cancelled"
      <4>1. runner[u] \in {"running", "joining", "storing"} => runner[t] \in {"idle", "over"}
        BY <1>2, OneTurnRuns
      <4>2. RunnerFits(t)
        BY DEF RunnersFit
      <4>3. worker[t] # "none"
        BY <1>b, OneTurnRuns
      <4> QED BY <1>b, <1>c, <4>1, <4>2, <4>3 DEF RunnerFits
    <3> QED BY <1>a, <1>b, <1>t, <1>2, <2>0, <2>1, <2>4, <3>1 DEF StatusFits
  <2> QED BY <2>2, <2>3, <2>4
<1> QED BY <1>1, <1>2 DEF StatusesFit

(* A coroutine's step does, the settling of another's state included.      *)
LEMMA RunnerKeepsStatuses ==
  ASSUME TurnsShape, RunnersFit, StatusesFit, NEW t \in Turns, RunnerOrOutside(t)
  PROVE  StatusesFit'
<1>a. /\ worker \in [Turns -> WorkerPlaces] /\ status \in [Turns -> Statuses]
      /\ current \in Turns \cup {0}
      /\ runner \in [Turns -> RunnerPlaces] /\ outcome \in [Turns -> Outcomes]
      /\ DiskFaults \in BOOLEAN /\ Slow \in BOOLEAN
  BY AgentIsSet DEF TurnsShape
<1>t. t # 0 /\ \A u \in Turns : u # 0
  BY DEF Turns
<1>b. current' = current /\ DiskFaults' = DiskFaults /\ Slow' = Slow
  BY RunnerLeaves, AgentStays
<1>c. RunnerFits(t) /\ StatusFits(t)
  BY DEF RunnersFit, StatusesFit
<1>d. ASSUME NEW u \in Turns
      PROVE  worker'[u] = worker[u] \/ (worker[u] = "none" /\ worker'[u] = "starting" /\ u = t)
  BY <1>a, RunnerLeaves
<1>e. ASSUME NEW u \in Turns, u # t
      PROVE  runner'[u] = runner[u] /\ outcome'[u] = outcome[u]
  BY <1>a, <1>e DEF RunnerOrOutside, RunnerStep, Interfere, StartTurn, Recalled,
     Join, Failed,
     Returned, Store, Inject, Cancel, Move, Ends
<1>f. ASSUME NEW u \in Turns
      PROVE  \/ status'[u] = status[u]
             \/ Join(t) /\ u = current /\ status[u] = "running" /\ status'[u] = "stopped"
             \/ Failed(t) /\ u = current /\ status'[u] = "failed"
  BY <1>a, RunnerLeaves DEF Join, SettleRunning, Failed
\* The state of a failed turn is its own, or that of one cancelled long ago.
<1>g. Failed(t) => DiskFaults \/ current = t
        \/ (Slow /\ current # 0 /\ outcome[current] = "cancelled")
  BY <1>c DEF Failed, Ends, Move, StatusFits, Uncreated, Unasked
<1>h. ASSUME NEW u \in Turns
      PROVE  outcome[u] # "none" => outcome'[u] = outcome[u] /\ runner[u] = "over"
               /\ runner'[u] = "over"
  <2>1. RunnerFits(u)
    BY DEF RunnersFit
  <2>2. CASE u = t
    BY <1>a, <2>1, <2>2 DEF RunnerFits, RunnerOrOutside, RunnerStep, Interfere,
       StartTurn, Recalled, Join, Failed,
       Returned, Store, Inject, Cancel, Move, Ends
  <2>3. CASE u # t
    BY <1>e, <2>1, <2>3 DEF RunnerFits
  <2> QED BY <2>2, <2>3
<1>i. runner[t] \in {"idle", "recalling"} \/ runner'[t] = runner[t]
        \/ runner[t] \in {"running", "joining", "storing"}
  BY <1>a DEF RunnerOrOutside, RunnerStep, Interfere, StartTurn, Recalled, Join,
     Failed,
     Returned, Store, Inject, Cancel, Move, Ends
<1> SUFFICES ASSUME NEW u \in Turns PROVE StatusFits(u)'
  BY DEF StatusesFit
<1>0. StatusFits(u) /\ RunnerFits(u)
  BY DEF StatusesFit, RunnersFit
<1>1. worker'[u] \in Uncreated => status'[u] = "none" /\ current' # u
  BY <1>0, <1>b, <1>d, <1>f DEF StatusFits, Uncreated, Unasked
<1>2. DiskFaults \/ worker'[u] \in Uncreated \cup {"cancelled"} \/ status'[u] # "none"
  BY <1>0, <1>d, <1>f DEF StatusFits, Uncreated, Unasked
<1>3. DiskFaults \/ worker'[u] # "stopping" \/ outcome'[u] # "none" \/ status'[u] = "stopped"
  <2> SUFFICES ASSUME ~DiskFaults, worker'[u] = "stopping"
               PROVE  outcome'[u] # "none" \/ status'[u] = "stopped"
    OBVIOUS
  <2>1. worker[u] = "stopping" /\ (outcome[u] # "none" \/ status[u] = "stopped")
    BY <1>0, <1>d DEF StatusFits
  <2>2. Failed(t) => u # t
    BY <2>1 DEF Failed
  <2> QED BY <1>f, <1>g, <1>h, <2>1, <2>2
<1>4. DiskFaults \/ worker'[u] # "returned" \/ outcome'[u] \notin {"none", "completed"}
      \/ status'[u] \in {"completed", "stopped"}
  <2> SUFFICES ASSUME ~DiskFaults, worker'[u] = "returned", outcome'[u] \in {"none", "completed"}
               PROVE  status'[u] \in {"completed", "stopped"}
    OBVIOUS
  <2>1. /\ worker[u] = "returned" /\ outcome[u] \in {"none", "completed"}
        /\ status[u] \in {"completed", "stopped"}
    BY <1>0, <1>d, <1>h DEF StatusFits
  <2>2. Failed(t) => u # t
    BY <2>1 DEF Failed
  <2>3. Failed(t) /\ u = current => outcome[u] # "cancelled"
    BY <2>1
  <2> QED BY <1>f, <1>g, <2>1, <2>2, <2>3
<1>5. DiskFaults \/ runner'[u] \notin {"running", "joining", "storing"} \/ status'[u] = "none"
      \/ current' = u \/ (Slow /\ current' # 0 /\ outcome'[current'] = "cancelled")
  <2> SUFFICES ASSUME ~DiskFaults, runner'[u] \in {"running", "joining", "storing"},
                      status'[u] # "none", current # u
               PROVE  Slow /\ current # 0 /\ outcome'[current] = "cancelled"
    BY <1>b
  <2>1. status'[u] = status[u]
    BY <1>f
  <2>2. runner[u] \in {"running", "joining", "storing"}
    <3>1. worker[u] = "none" => status[u] = "none"
      BY <1>0 DEF StatusFits, Uncreated, Unasked
    <3>2. runner[u] \in {"idle", "recalling"} => worker[u] = "none"
      BY <1>0 DEF RunnerFits
    <3> QED BY <1>e, <1>i, <2>1, <3>1, <3>2
  <2>3. Slow /\ current # 0 /\ outcome[current] = "cancelled"
    BY <1>0, <2>1, <2>2 DEF StatusFits
  <2> QED BY <1>a, <1>h, <2>3
<1>6. DiskFaults \/ Slow \/ outcome'[u] = "none" \/ status'[u] # "running"
  <2> SUFFICES ASSUME ~DiskFaults, ~Slow, outcome'[u] # "none"
               PROVE  status'[u] # "running"
    OBVIOUS
  <2>1. CASE outcome[u] # "none"
    BY <1>0, <1>f, <2>1 DEF StatusFits
  <2>2. CASE outcome[u] = "none"
    <3>1. u = t
      BY <1>e, <2>2
    <3>2. CASE Join(t)
      <4>1. runner[t] = "joining" /\ status' = SettleRunning
        BY <3>2 DEF Join, Ends, Move
      <4>2. status[t] = "none" \/ current = t
        BY <1>c, <4>1 DEF StatusFits
      <4> QED BY <1>a, <3>1, <4>1, <4>2 DEF SettleRunning
    <3>3. CASE Failed(t)
      <4>1. current = t
        BY <1>g, <3>3
      <4> QED BY <3>1, <3>3, <4>1 DEF Failed
    <3>4. CASE ~Join(t) /\ ~Failed(t)
      <4>1. status' = status /\ runner[t] \in {"recalling", "storing"}
        BY <1>a, <2>2, <3>1, <3>4, RunnerLeaves DEF RunnerOrOutside, RunnerStep,
           Interfere, StartTurn, Recalled,
           Returned, Store, Inject, Cancel, Move, Ends
      <4>2. runner[t] = "recalling" => worker[t] = "none" /\ status[t] = "none"
        BY <1>c DEF RunnerFits, StatusFits, Uncreated, Unasked
      <4>3. runner[t] = "storing" => worker[t] = "returned"
              /\ status[t] \in {"completed", "stopped"}
        BY <1>c, <2>2, <3>1 DEF RunnerFits, StatusFits
      <4> QED BY <3>1, <4>1, <4>2, <4>3
    <3> QED BY <3>2, <3>3, <3>4
  <2> QED BY <2>1, <2>2
<1> QED BY <1>b, <1>1, <1>2, <1>3, <1>4, <1>5, <1>6 DEF StatusFits

-----------------------------------------------------------------------------
(* The turns of the history.                                               *)
LEMMA ThreadKeepsOrder ==
  ASSUME TurnsShape, BudgetsFit, RunnersFit, EntriesFit, TurnsApart, NEW t \in Turns,
         WorkerStep(t)
  PROVE  TurnsApart'
<1>0. Slow' = Slow /\ Live(t) /\ history \in Seq(Entries)
  BY ThreadMoves, AgentStays DEF TurnsShape
<1> SUFFICES ASSUME ~Slow, NEW i \in DOMAIN history', NEW j \in DOMAIN history', i < j
             PROVE  history'[i].turn <= history'[j].turn
  BY <1>0 DEF TurnsApart
<1>1. PICK d \in Seq(Entries) : history' = history \o d /\ \A k \in DOMAIN d : d[k].turn = t
  BY ThreadRecords
<1>2. /\ Len(history) \in Nat /\ DOMAIN history = 1 .. Len(history)
      /\ DOMAIN d = 1 .. Len(d)
      /\ DOMAIN history' = 1 .. (Len(history) + Len(d)) /\ Len(d) \in Nat
      /\ \A k \in 1 .. Len(history) : history'[k] = history[k]
      /\ \A k \in 1 .. (Len(history) + Len(d)) : k > Len(history) =>
           k - Len(history) \in 1 .. Len(d) /\ history'[k] = d[k - Len(history)]
  BY <1>0, <1>1, Joined
<1>3. \A k \in DOMAIN history : history[k].turn \in Turns /\ history[k].turn <= t
  <2> SUFFICES ASSUME NEW k \in DOMAIN history
               PROVE  history[k].turn \in Turns /\ history[k].turn <= t
    OBVIOUS
  <2> DEFINE u == history[k].turn
  <2>1. u \in Turns
    <3>1. history[k] \in Entries
      BY <1>0
    <3> QED BY <3>1 DEF Entries
  <2>2. worker[u] \notin Unasked
    BY <2>1 DEF EntriesFit, EntriesFitOf, Mine
  <2>3. ~(u > t)
    BY <1>0, <2>1, <2>2, OneTurnRuns DEF Unasked
  <2>4. u \in Int /\ t \in Int
    BY <2>1 DEF Turns
  <2> QED BY <2>1, <2>3, <2>4
<1>4. t \in Int /\ Turns \subseteq Int
  BY DEF Turns
<1>5. CASE j \in DOMAIN history
  <2>1. i \in DOMAIN history
    BY <1>2, <1>5
  <2> QED BY <1>2, <1>5, <2>1 DEF TurnsApart
<1>6. CASE j \notin DOMAIN history
  <2>1. j > Len(history) /\ history'[j].turn = t
    BY <1>1, <1>2, <1>6
  <2>2. CASE i \in DOMAIN history
    BY <1>2, <1>3, <2>1, <2>2
  <2>3. CASE i \notin DOMAIN history
    <3>1. history'[i].turn = t
      BY <1>1, <1>2, <2>3
    <3> QED BY <1>4, <2>1, <3>1
  <2> QED BY <2>2, <2>3
<1> QED BY <1>5, <1>6

-----------------------------------------------------------------------------
(* Tool calls and their results.                                           *)
Results(t, ids) == [i \in 1 .. Len(ids) |-> Entry("tool", t, <<ids[i]>>)]
(* The results that a thread owes to its conversation.                     *)
Owed(t) == Results(t, local[t].batch \o local[t].todo)

(* Messages without calls or results leave a conversation paired.          *)
LEMMA PlainKept ==
  ASSUME NEW s \in Seq(Entries), NEW d \in Seq(Entries), Paired(s),
         \A i \in DOMAIN d : d[i].role # "tool" /\ d[i].ids = <<>>
  PROVE  Paired(s \o d)
<1> DEFINE n == Len(s)  m == Len(d)  w == s \o d
<1>1. /\ n \in Nat /\ m \in Nat /\ DOMAIN w = 1 .. (n + m) /\ DOMAIN s = 1 .. n
      /\ DOMAIN d = 1 .. m
      /\ \A i \in 1 .. n : w[i] = s[i]
      /\ \A i \in 1 .. (n + m) : i > n => i - n \in 1 .. m /\ w[i] = d[i - n]
  BY Joined
<1> HIDE DEF n, m, w
<1>2. 1 .. n \subseteq 1 .. (n + m)
  BY <1>1
<1>3. \A i \in DOMAIN w : i \in DOMAIN s \/ (w[i].role # "tool" /\ Calls(w[i]) = <<>>)
  <2> SUFFICES ASSUME NEW i \in DOMAIN w, i \notin DOMAIN s
               PROVE  w[i].role # "tool" /\ Calls(w[i]) = <<>>
    OBVIOUS
  <2>1. i > n
    BY <1>1
  <2>2. i - n \in DOMAIN d /\ w[i] = d[i - n]
    BY <1>1, <2>1
  <2> QED BY <2>2 DEF Calls
<1>4. ASSUME NEW i \in DOMAIN w, NEW id \in ToSet(Calls(w[i]))
      PROVE  \E j \in DOMAIN w : i < j /\ j - i <= Len(Calls(w[i])) /\ w[j].role = "tool"
               /\ w[j].ids = <<id>>
  <2>1. i \in DOMAIN s /\ w[i] = s[i]
    BY <1>1, <1>3, <1>4, EmptyElements
  <2>2. PICK j \in DOMAIN s : i < j /\ j - i <= Len(Calls(s[i])) /\ s[j].role = "tool"
               /\ s[j].ids = <<id>>
    BY <1>4, <2>1 DEF Paired
  <2>3. j \in DOMAIN w /\ w[j] = s[j]
    BY <1>1, <1>2
  <2> QED BY <2>1, <2>2, <2>3
<1>5. ASSUME NEW j \in DOMAIN w, w[j].role = "tool"
      PROVE  \E i \in DOMAIN w : i < j /\ j - i <= Len(Calls(w[i]))
  <2>1. j \in DOMAIN s /\ w[j] = s[j]
    BY <1>1, <1>3, <1>5
  <2>2. PICK i \in DOMAIN s : i < j /\ j - i <= Len(Calls(s[i]))
    BY <1>5, <2>1 DEF Paired
  <2>3. i \in DOMAIN w /\ w[i] = s[i]
    BY <1>1, <1>2
  <2> QED BY <2>2, <2>3
<1>6. Paired(w)
  BY <1>4, <1>5 DEF Paired
<1> QED BY <1>6 DEF w

(* The fields of results.                                                  *)
LEMMA ResultsAreEntries ==
  ASSUME NEW t \in Turns, NEW ids \in Seq(Ids)
  PROVE  /\ Results(t, ids) \in Seq(Entries) /\ Len(Results(t, ids)) = Len(ids)
         /\ \A i \in 1 .. Len(ids) :
              /\ Results(t, ids)[i] \in Entries
              /\ Results(t, ids)[i].role = "tool"
              /\ Results(t, ids)[i].ids = <<ids[i]>>
<1>1. Len(ids) \in Nat /\ \A i \in 1 .. Len(ids) : <<ids[i]>> \in Seq(Ids)
  OBVIOUS
<1>2. \A i \in 1 .. Len(ids) :
        LET e == Entry("tool", t, <<ids[i]>>) IN e \in Entries /\ e.role = "tool"
          /\ e.ids = <<ids[i]>>
  BY <1>1 DEF Entry, Entries
<1> QED BY <1>1, <1>2 DEF Results

(* An assistant's message with its calls, and the results of all of them.  *)
LEMMA Answered ==
  ASSUME NEW s \in Seq(Entries), NEW t \in Turns, NEW ids \in Seq(Ids), Paired(s)
  PROVE  Paired(Append(s, Entry("assistant", t, ids)) \o Results(t, ids))
<1> DEFINE a == Entry("assistant", t, ids)  p == Append(s, a)  r == Results(t, ids)
           n == Len(s)  m == Len(ids)  w == p \o r
<1>1. a \in Entries /\ a.role = "assistant" /\ a.ids = ids /\ Calls(a) = ids
  BY DEF Entry, Entries, Calls
<1>2. /\ r \in Seq(Entries) /\ Len(r) = m /\ m \in Nat
      /\ \A i \in 1 .. m : r[i].role = "tool" /\ r[i].ids = <<ids[i]>>
  BY ResultsAreEntries
<1> HIDE DEF a, r
<1>3. /\ p \in Seq(Entries) /\ Len(p) = n + 1 /\ n \in Nat /\ p[n + 1] = a
      /\ \A i \in 1 .. n : p[i] = s[i]
      /\ DOMAIN s = 1 .. n
  BY <1>1
<1> HIDE DEF p, n, m
<1>4. /\ DOMAIN w = 1 .. (n + 1 + m)
      /\ \A i \in 1 .. (n + 1) : w[i] = p[i]
      /\ \A i \in 1 .. (n + 1 + m) : i > n + 1 => i - (n + 1) \in 1 .. m /\ w[i] = r[i - (n + 1)]
  <2>1. /\ Len(p) \in Nat /\ DOMAIN w = 1 .. (Len(p) + Len(r))
        /\ \A i \in 1 .. Len(p) : w[i] = p[i]
        /\ \A i \in 1 .. (Len(p) + Len(r)) : i > Len(p) =>
              i - Len(p) \in 1 .. Len(r) /\ w[i] = r[i - Len(p)]
    <3>1. p \in Seq(Entries) /\ r \in Seq(Entries)
      BY <1>2, <1>3
    <3> QED BY ONLY <3>1, Joined
  <2> HIDE DEF w
  <2> QED BY <1>2, <1>3, <2>1
<1> HIDE DEF w
<1>5. /\ \A i \in 1 .. n : i \in DOMAIN w /\ w[i] = s[i]
      /\ n + 1 \in DOMAIN w /\ w[n + 1] = a
      /\ \A k \in 1 .. m : n + 1 + k \in DOMAIN w /\ w[n + 1 + k] = r[k]
      /\ \A i \in DOMAIN w : i \in 1 .. n \/ i = n + 1
           \/ (i - (n + 1) \in 1 .. m /\ w[i] = r[i - (n + 1)])
  <2>1. \A i \in 1 .. n : i \in DOMAIN w /\ w[i] = s[i]
    BY <1>2, <1>3, <1>4
  <2>2. n + 1 \in DOMAIN w /\ w[n + 1] = a
    BY <1>2, <1>3, <1>4
  <2>3. ASSUME NEW k \in 1 .. m
        PROVE  n + 1 + k \in DOMAIN w /\ w[n + 1 + k] = r[k]
    <3>1. /\ n + 1 + k \in 1 .. (n + 1 + m) /\ n + 1 + k > n + 1
          /\ (n + 1 + k) - (n + 1) = k
      BY <1>2, <1>3
    <3> QED BY <1>4, <3>1
  <2>4. ASSUME NEW i \in DOMAIN w
        PROVE  i \in 1 .. n \/ i = n + 1 \/ (i - (n + 1) \in 1 .. m /\ w[i] = r[i - (n + 1)])
    BY <1>2, <1>3, <1>4
  <2> QED BY <2>1, <2>2, <2>3, <2>4
<1>6. ASSUME NEW i \in DOMAIN w, NEW id \in ToSet(Calls(w[i]))
      PROVE  \E j \in DOMAIN w : i < j /\ j - i <= Len(Calls(w[i])) /\ w[j].role = "tool"
               /\ w[j].ids = <<id>>
  <2>1. CASE i \in 1 .. n
    <3>1. PICK j \in DOMAIN s : i < j /\ j - i <= Len(Calls(s[i])) /\ s[j].role = "tool"
                 /\ s[j].ids = <<id>>
      BY ZenonT(60), <1>3, <1>5, <1>6, <2>1 DEF Paired
    <3> QED BY <1>3, <1>5, <2>1, <3>1
  <2>2. CASE i = n + 1
    <3>1. PICK k \in 1 .. m : ids[k] = id
      BY <1>1, <1>5, <1>6, <2>2 DEF ToSet, m
    <3>2. LET j == n + 1 + k IN j \in DOMAIN w /\ i < j /\ j - i = k /\ w[j].role = "tool"
            /\ w[j].ids = <<id>>
      BY <1>2, <1>3, <1>5, <2>2, <3>1
    <3>3. Len(Calls(w[i])) = m
      BY <1>1, <1>5, <2>2 DEF m
    <3> QED BY <1>2, <3>1, <3>2, <3>3
  <2>3. CASE i - (n + 1) \in 1 .. m /\ w[i] = r[i - (n + 1)]
    <3>1. Calls(w[i]) = <<>>
      BY <1>2, <2>3 DEF Calls
    <3> QED BY <1>6, <3>1, EmptyElements
  <2> QED BY <1>5, <2>1, <2>2, <2>3
<1>7. ASSUME NEW j \in DOMAIN w, w[j].role = "tool"
      PROVE  \E i \in DOMAIN w : i < j /\ j - i <= Len(Calls(w[i]))
  <2>1. CASE j \in 1 .. n
    <3>1. PICK i \in DOMAIN s : i < j /\ j - i <= Len(Calls(s[i]))
      BY <1>3, <1>5, <1>7, <2>1 DEF Paired
    <3> QED BY <1>3, <1>5, <3>1
  <2>2. CASE j = n + 1
    BY <1>1, <1>5, <1>7, <2>2
  <2>3. CASE j - (n + 1) \in 1 .. m
    <3>1. Len(Calls(w[n + 1])) = m
      BY <1>1, <1>5 DEF m
    <3>2. n + 1 < j /\ j - (n + 1) <= m
      BY <1>2, <1>3, <1>4, <2>3
    <3> QED BY <1>5, <3>1, <3>2
  <2> QED BY <1>5, <2>1, <2>2, <2>3
<1>8. Paired(w)
  BY <1>6, <1>7 DEF Paired
<1> QED BY <1>8 DEF w, p, r, a

(* A conversation is paired once the results owed to it are added; before  *)
(* the first request the question is the last entry of the history.        *)
PairsFit(t) ==
  /\ Paired(history \o Owed(t)) /\ Paired(messages[t] \o Owed(t))
  /\ worker[t] \in {"creating", "top", "request"} /\ attempts[t] = 0 =>
       history # <<>> /\ Last(history) = Entry("user", t, <<>>)

(* Outside of its tools' execution a thread owes no result.                *)
LEMMA NothingOwed ==
  ASSUME TurnsShape, BudgetsFit, NEW t \in Turns,
         worker[t] \notin {"tools", "executing", "results", "raised", "cancelled"}
  PROVE  /\ local[t].batch = <<>> /\ local[t].todo = <<>> /\ Owed(t) = <<>>
         /\ history \o Owed(t) = history /\ messages[t] \o Owed(t) = messages[t]
<1>1. local[t].batch = <<>> /\ local[t].todo = <<>>
  BY DEF BudgetsFit, BudgetFits
<1>2. /\ <<>> \in Seq(Ids) /\ local[t].batch \o local[t].todo = <<>>
      /\ Len(<<>>) = 0
  BY <1>1
<1>3. Owed(t) \in Seq(Entries) /\ Len(Owed(t)) = 0
  BY <1>2, ResultsAreEntries DEF Owed
<1>4. Owed(t) = <<>>
  BY <1>3
<1>5. history \in Seq(Entries) /\ messages[t] \in Seq(Entries)
  BY DEF TurnsShape
<1> QED BY <1>1, <1>4, <1>5

(* Nor does it after a step that leaves its calls alone.                   *)
LEMMA NothingOwedNext ==
  ASSUME TurnsShape, BudgetsFit, NEW t \in Turns,
         worker[t] \notin {"tools", "executing", "results", "raised", "cancelled"},
         local'[t].batch = local[t].batch, local'[t].todo = local[t].todo,
         history' \in Seq(Entries), messages'[t] \in Seq(Entries)
  PROVE  Owed(t)' = <<>> /\ (history \o Owed(t))' = history'
           /\ (messages[t] \o Owed(t))' = messages'[t]
<1>1. Owed(t)' = Owed(t)
  BY DEF Owed
<1>2. Owed(t) = <<>>
  BY NothingOwed
<1> QED BY <1>1, <1>2

(* Steps that say nothing. *)
LEMMA QuietPairs ==
  ASSUME TurnsShape, BudgetsFit, NEW t \in Turns, PairsFit(t), history' = history,
         messages' = messages,
         local'[t].batch \o local'[t].todo = local[t].batch \o local[t].todo,
         worker'[t] \in {"creating", "top", "request"} /\ attempts'[t] = 0 =>
           worker[t] \in {"creating", "top", "request"} /\ attempts[t] = 0
  PROVE  PairsFit(t)'
<1>1. Owed(t)' = Owed(t)
  BY DEF Owed
<1> QED BY <1>1 DEF PairsFit

(* Which steps those are.                                                  *)
LEMMA Silent ==
  ASSUME TurnsShape, BudgetsFit, NEW t \in Turns, WorkerStep(t),
         ~RecordUser(t), ~Request(t), ~EmptyReply(t), ~ToolReply(t), ~Malformed(t),
           ~RecordResult(t),
         ~(Finish(t) /\ t \notin cancelled), ~StopLoop(t)
  PROVE  /\ history' = history /\ messages' = messages
         /\ local'[t].batch \o local'[t].todo = local[t].batch \o local[t].todo
         /\ worker'[t] \in {"creating", "top", "request"} /\ attempts'[t] = 0 =>
              worker[t] \in {"creating", "top", "request"} /\ attempts[t] = 0
<1>a. /\ worker \in [Turns -> WorkerPlaces] /\ attempts \in [Turns -> Nat]
      /\ worker[t] \in {"model", "tools", "executing", "results", "synthesis"} => attempts[t] # 0
      /\ local[t].batch \in Seq(Ids) /\ local[t].todo \in Seq(Ids)
  <2>1. worker[t] \in {"model", "tools", "executing", "results", "synthesis"} => attempts[t] > 0
    BY DEF BudgetsFit, AttemptsFit
  <2>2. /\ worker \in [Turns -> WorkerPlaces] /\ attempts \in [Turns -> Nat]
        /\ local[t].batch \in Seq(Ids) /\ local[t].todo \in Seq(Ids)
    BY DEF TurnsShape, IsLocal
  <2>3. attempts[t] > 0 => attempts[t] # 0
    BY <2>2
  <2> QED BY <2>1, <2>2, <2>3
<1>b. local' = local => local'[t].batch \o local'[t].todo = local[t].batch \o local[t].todo
  OBVIOUS
<1>c. /\ worker' = worker \/ worker'[t] \in WorkerPlaces
  BY ThreadMoves, <1>a
<1> USE DEF SameTools, Proceeds, Saving, shared, task
<1>1. CASE Begin(t)
  BY <1>a, <1>b, <1>1 DEF Begin
<1>3. CASE CreateState(t)
  BY <1>a, <1>b, <1>3 DEF CreateState
<1>4. CASE LoopTop(t)
  BY <1>a, <1>b, <1>4 DEF LoopTop
<1>6. CASE DrainCancelled(t)
  BY <1>a, <1>b, <1>6 DEF DrainCancelled
<1>7. CASE ModelCancelled(t)
  BY <1>a, <1>7, CallOnlyEdits DEF ModelCancelled
<1>8. CASE ModelFails(t)
  BY <1>a, <1>8, CallOnlyEdits DEF ModelFails
<1>9. CASE Overflow(t)
  BY <1>a, <1>9, OverflowEdits DEF Overflow
<1>13. CASE FinalReply(t)
  BY <1>a, <1>13, CallOnlyEdits DEF FinalReply
<1>14. CASE BeginBatch(t)
  <2>1. /\ local[t].batch = <<>>
        /\ local'[t].batch \o local'[t].todo = local[t].todo
    BY <1>14, BeginBatchEdits
  <2>2. local'[t].batch \o local'[t].todo = local[t].batch \o local[t].todo
    BY <1>a, <2>1
  <2> QED BY <1>a, <1>14, <2>2 DEF BeginBatch
<1>15. CASE BatchCancelled(t)
  BY <1>a, <1>b, <1>15 DEF BatchCancelled
<1>16. CASE Execute(t)
  BY <1>a, <1>16, ExecuteEdits DEF Execute
<1>18. CASE EndBatch(t)
  BY <1>a, <1>b, <1>18 DEF EndBatch
<1>19. CASE EndTools(t)
  BY <1>a, <1>19, ExecuteEdits DEF EndTools
<1>20. CASE Finish(t)
  BY <1>a, <1>b, <1>20 DEF Finish
<1>21. CASE Exhausted(t)
  BY <1>a, <1>b, <1>21 DEF Exhausted
<1>22. CASE Synthesis(t)
  BY <1>a, <1>22, CallOnlyEdits DEF Synthesis
<1> QED BY <1>1, <1>3, <1>4, <1>6, <1>7, <1>8, <1>9, <1>13, <1>14, <1>15, <1>16,
   <1>18, <1>19,
         <1>20, <1>21, <1>22 DEF WorkerStep

(* Steps that say something, but no tool call and no result. *)
LEMMA PlainPairs ==
  ASSUME TurnsShape, BudgetsFit, Native, NEW t \in Turns, PairsFit(t),
         (RecordUser(t) \/ Request(t) \/ EmptyReply(t) \/ (Finish(t) /\ t \notin cancelled) \/ StopLoop(t))
  PROVE  PairsFit(t)'
<1>a. /\ worker \in [Turns -> WorkerPlaces] /\ attempts \in [Turns -> Nat]
      /\ worker[t] = "model" => attempts[t] # 0
      /\ history \in Seq(Entries) /\ messages \in [Turns -> Seq(Entries)]
  BY DEF TurnsShape, BudgetsFit, AttemptsFit
<1>b. WorkerStep(t) => TurnsShape'
  BY ThreadKeepsShape
<1>c. worker[t] \in {"recording", "request", "model", "finish", "stopping"}
  BY DEF RecordUser, Request, EmptyReply, Finish, StopLoop, Proceeds, Saving
<1>d. /\ history \o Owed(t) = history /\ messages[t] \o Owed(t) = messages[t]
  BY <1>c, NothingOwed
<1>e. Paired(history) /\ Paired(messages[t])
  BY <1>d DEF PairsFit
<1>f. local'[t].batch = local[t].batch /\ local'[t].todo = local[t].todo
  <2>1. CASE Request(t)
    BY <2>1, RequestEdits DEF SameTools
  <2>2. CASE EmptyReply(t)
    BY <2>2, EmptyReplyEdits DEF SameTools
  <2> QED BY <2>1, <2>2 DEF RecordUser, Finish, StopLoop
<1>s. \A r \in {"user", "answer"} : LET e == Entry(r, t, <<>>) IN
        e \in Entries /\ e.role = r /\ e.ids = <<>>
  <2>1. <<>> \in Seq(Ids)
    OBVIOUS
  <2> QED BY <2>1 DEF Entry, Entries
<1>g. ASSUME NEW s \in Seq(Entries), Paired(s), NEW r \in {"user", "answer"}
      PROVE  Append(s, Entry(r, t, <<>>)) \in Seq(Entries) /\ Paired(Append(s, Entry(r, t, <<>>)))
  <2> DEFINE e == Entry(r, t, <<>>)
  <2>1. e \in Entries /\ e.role \in {"user", "answer"} /\ e.ids = <<>>
    BY <1>s
  <2> HIDE DEF e
  <2>2. /\ <<e>> \in Seq(Entries) /\ Append(s, e) = s \o <<e>>
        /\ Append(s, e) \in Seq(Entries)
        /\ \A i \in DOMAIN <<e>> : <<e>>[i].role # "tool" /\ <<e>>[i].ids = <<>>
    BY <2>1, <1>g
  <2>3. Paired(s \o <<e>>)
    BY <1>g, <2>2, PlainKept
  <2>4. Append(s, e) \in Seq(Entries) /\ Paired(Append(s, e))
    BY <2>2, <2>3
  <2> QED BY <2>4 DEF e
<1>h. ASSUME history' \in Seq(Entries), messages'[t] \in Seq(Entries), Paired(history'),
             Paired(messages'[t])
      PROVE  Paired(history \o Owed(t))' /\ Paired(messages[t] \o Owed(t))'
  <2>1. /\ (history \o Owed(t))' = history'
        /\ (messages[t] \o Owed(t))' = messages'[t]
    BY <1>c, <1>f, <1>h, NothingOwedNext
  <2> QED BY <1>h, <2>1
<1>1. CASE RecordUser(t)
  <2>1. /\ history' = Append(history, Entry("user", t, <<>>))
        /\ messages' = messages
    BY <1>1 DEF RecordUser, Record
  <2>2. history' \in Seq(Entries) /\ Paired(history')
    BY <1>a, <1>e, <1>g, <2>1
  <2>3. history' # <<>> /\ Last(history') = Entry("user", t, <<>>)
    <3> DEFINE e == Entry("user", t, <<>>)
    <3>1. e \in Entries
      BY <1>s
    <3> HIDE DEF e
    <3>2. /\ Append(history, e) # <<>>
          /\ Len(Append(history, e)) = Len(history) + 1
          /\ Append(history, e)[Len(history) + 1] = e
      <4>1. history \in Seq(Entries)
        BY <1>a
      <4>2. Append(history, e) \in Seq(Entries)
        BY <3>1, <4>1
      <4>3. /\ Len(Append(history, e)) = Len(history) + 1
            /\ Append(history, e)[Len(history) + 1] = e
        BY ONLY <3>1, <4>1
      <4>4. Len(history) \in Nat /\ Len(<<>>) = 0
        BY <4>1
      <4> QED BY <4>3, <4>4
    <3>3. Last(Append(history, e)) = e
      BY <3>2 DEF Last
    <3> QED BY <2>1, <3>2, <3>3 DEF e
  <2>4. Paired(history \o Owed(t))' /\ Paired(messages[t] \o Owed(t))'
    BY <1>a, <1>e, <1>h, <2>1, <2>2
  <2> QED BY <2>3, <2>4 DEF PairsFit
<1>2. CASE (Finish(t) /\ t \notin cancelled) \/ StopLoop(t)
  <2>1. /\ history' = Append(history, Entry("answer", t, <<>>))
        /\ messages' = messages
        /\ worker'[t] \in {"returned", "raised"}
    BY <1>a, <1>2 DEF Finish, StopLoop, Answer, Record, Proceeds, Saving
  <2>2. history' \in Seq(Entries) /\ Paired(history')
    BY <1>a, <1>e, <1>g, <2>1
  <2>4. Paired(history \o Owed(t))' /\ Paired(messages[t] \o Owed(t))'
    BY <1>a, <1>e, <1>h, <2>1, <2>2
  <2> QED BY <2>1, <2>4 DEF PairsFit
<1>3. CASE EmptyReply(t)
  <2>1. PICK d \in Seq(Entries) :
               /\ messages' = [messages EXCEPT ![t] = @ \o d]
               /\ \A i \in DOMAIN d : d[i].role # "tool" /\ d[i].ids = <<>>
    BY <1>3, EmptyReplyEdits
  <2>2. messages'[t] = messages[t] \o d /\ messages'[t] \in Seq(Entries)
    BY <1>a, <2>1
  <2>3. Paired(messages'[t])
    BY <1>a, <1>e, <2>1, <2>2, PlainKept
  <2>4. history' = history /\ attempts' = attempts /\ worker[t] = "model"
    BY <1>3 DEF EmptyReply, shared, task, Proceeds
  <2>5. Paired(history \o Owed(t))' /\ Paired(messages[t] \o Owed(t))'
    BY <1>a, <1>e, <1>h, <2>2, <2>3, <2>4
  <2> QED BY <1>a, <2>4, <2>5 DEF PairsFit
<1>4. CASE Request(t)
  <2> DEFINE drained == [i \in 1 .. inbox[t] |-> Entry("user", t, <<>>)]
  <2>1. /\ attempts[t] = 0 => messages' = [messages EXCEPT ![t] = Replayed(t)]
             /\ history' = history
        /\ attempts[t] # 0 =>
              messages' = [messages EXCEPT ![t] = IF Native THEN @ \o drained ELSE @]
                /\ history' = history \o drained
        /\ attempts' = [attempts EXCEPT ![t] = attempts[t] + 1]
        /\ drained \in Seq(Entries) /\ Replayed(t) \in Seq(Entries)
        /\ \A i \in DOMAIN drained : drained[i].role # "tool" /\ drained[i].ids = <<>>
    BY <1>4, RequestSays
  <2> HIDE DEF drained
  <2>2. attempts'[t] # 0
    BY <1>a, <2>1
  <2>3. CASE attempts[t] = 0
    <3>1. worker[t] = "request"
      BY <1>4 DEF Request, Saving, Proceeds
    <3>2. history # <<>> /\ Last(history) = Entry("user", t, <<>>)
      BY <2>3, <3>1 DEF PairsFit
    <3>3. Front(history) \o <<Last(history)>> = history
      BY <1>a, <3>2 DEF Front, Last
    <3>4. messages'[t] = history /\ history' = history
      BY <1>a, <2>1, <2>3, <3>2, <3>3 DEF Replayed
    <3>5. Paired(history \o Owed(t))' /\ Paired(messages[t] \o Owed(t))'
      BY <1>a, <1>e, <1>h, <3>4
    <3> QED BY <2>2, <3>5 DEF PairsFit
  <2>4. CASE attempts[t] # 0
    <3>0. /\ messages' = [messages EXCEPT ![t] = messages[t] \o drained]
          /\ history' = history \o drained
      BY <2>1, <2>4
    <3>1. messages'[t] = messages[t] \o drained /\ messages'[t] \in Seq(Entries)
          /\ history' = history \o drained /\ history' \in Seq(Entries)
      BY <1>a, <2>1, <3>0
    <3>2. Paired(history') /\ Paired(messages'[t])
      BY <1>a, <1>e, <2>1, <3>1, PlainKept
    <3>5. Paired(history \o Owed(t))' /\ Paired(messages[t] \o Owed(t))'
      BY <1>h, <3>1, <3>2
    <3> QED BY <2>2, <3>5 DEF PairsFit
  <2> QED BY <2>3, <2>4
<1> QED BY <1>1, <1>2, <1>3, <1>4

(* A result moves from what is owed to what is said.                       *)
LEMMA ResultFollows ==
  ASSUME NEW s \in Seq(Entries), NEW t \in Turns, NEW ids \in Seq(Ids), ids # <<>>
  PROVE  Append(s, Entry("tool", t, <<Head(ids)>>)) \o Results(t, Tail(ids)) = s \o Results(t, ids)
<1> DEFINE e == Entry("tool", t, <<Head(ids)>>)  r == Results(t, ids)  q == Results(t, Tail(ids))
<1>1. Len(ids) \in Nat /\ Len(ids) > 0 /\ Tail(ids) \in Seq(Ids) /\ Len(Tail(ids)) = Len(ids) - 1
      /\ Head(ids) = ids[1] /\ Head(ids) \in Ids
      /\ \A i \in 1 .. Len(ids) - 1 : Tail(ids)[i] = ids[i + 1]
  OBVIOUS
<1>2. /\ r \in Seq(Entries) /\ Len(r) = Len(ids) /\ q \in Seq(Entries)
      /\ Len(q) = Len(ids) - 1
  BY <1>1, ResultsAreEntries
<1>3. e \in Entries
  <2>1. <<Head(ids)>> \in Seq(Ids)
    BY <1>1
  <2> QED BY <2>1 DEF Entry, Entries
<1>4. r[1] = e /\ \A i \in 2 .. Len(ids) : r[i] = q[i - 1]
  <2>1. r[1] = e
    BY <1>1 DEF Results
  <2>2. ASSUME NEW i \in 2 .. Len(ids) PROVE r[i] = q[i - 1]
    <3>1. r[i] = Entry("tool", t, <<ids[i]>>)
      BY <1>1 DEF Results
    <3>2. i - 1 \in 1 .. Len(Tail(ids)) /\ Tail(ids)[i - 1] = ids[i]
      BY <1>1
    <3>3. q[i - 1] = Entry("tool", t, <<Tail(ids)[i - 1]>>)
      BY <3>2 DEF Results
    <3> QED BY <3>1, <3>2, <3>3
  <2> QED BY <2>1, <2>2
<1> DEFINE n == Len(ids)
<1>5. n \in Nat /\ n > 0 /\ Len(r) = n /\ Len(q) = n - 1 /\ \A i \in 2 .. n : r[i] = q[i - 1]
  BY <1>1, <1>2, <1>4
<1> HIDE DEF e, r, q, n
<1>6. <<e>> \o q = r
  <2> DEFINE w == <<e>> \o q
  <2>1. w \in Seq(Entries) /\ Len(w) = n
    BY <1>2, <1>3, <1>5
  <2>2. \A i \in 1 .. n : w[i] = IF i = 1 THEN e ELSE q[i - 1]
    BY <1>2, <1>3, <1>5
  <2> HIDE DEF w
  <2>3. \A i \in 1 .. n : w[i] = r[i]
    BY <1>4, <1>5, <2>2
  <2>4. w = r
    BY <1>2, <1>5, <2>1, <2>3
  <2> QED BY <2>4 DEF w
<1>7. Append(s, e) \o q = s \o (<<e>> \o q)
  BY <1>2, <1>3
<1> QED BY <1>6, <1>7 DEF e, q, r

(* The head and the tail of sequences joined.                              *)
LEMMA TailOfJoined ==
  ASSUME NEW S, NEW b \in Seq(S), NEW d \in Seq(S), b # <<>>
  PROVE  b \o d \in Seq(S) /\ b \o d # <<>> /\ Head(b \o d) = Head(b)
           /\ Tail(b \o d) = Tail(b) \o d
<1> DEFINE c == b \o d  x == Tail(c)  y == Tail(b) \o d  n == Len(b)  m == Len(d)
<1>1. n \in Nat /\ m \in Nat /\ n > 0 /\ c \in Seq(S) /\ Len(c) = n + m /\ c[1] = b[1]
      /\ \A i \in 1 .. n + m : c[i] = IF i <= n THEN b[i] ELSE d[i - n]
  OBVIOUS
<1>2. Tail(b) \in Seq(S) /\ Len(Tail(b)) = n - 1 /\ \A i \in 1 .. n - 1 : Tail(b)[i] = b[i + 1]
  OBVIOUS
<1> HIDE DEF c, n, m
<1>3. x \in Seq(S) /\ Len(x) = n + m - 1 /\ (\A i \in 1 .. n + m - 1 : x[i] = c[i + 1])
      /\ c # <<>> /\ Head(c) = c[1]
  BY <1>1
<1>4. y \in Seq(S) /\ Len(y) = n + m - 1
      /\ \A i \in 1 .. n + m - 1 : y[i] = IF i <= n - 1 THEN Tail(b)[i] ELSE d[i - (n - 1)]
  <2> DEFINE z == Tail(b)
  <2>0. /\ z \in Seq(S) /\ Len(z) = n - 1 /\ d \in Seq(S) /\ Len(d) = m
        /\ n \in Nat /\ m \in Nat /\ n > 0
    BY <1>1, <1>2 DEF m
  <2> HIDE DEF z
  <2>1. z \o d \in Seq(S) /\ Len(z \o d) = n + m - 1
    BY ONLY <2>0
  <2>2. \A i \in 1 .. n + m - 1 : (z \o d)[i] = IF i <= n - 1 THEN z[i] ELSE d[i - (n - 1)]
    BY ONLY <2>0
  <2> QED BY <2>1, <2>2 DEF z
<1> HIDE DEF x, y
<1>5. ASSUME NEW i \in 1 .. n + m - 1 PROVE x[i] = y[i]
  <2>1. i + 1 \in 1 .. n + m /\ (i + 1 <= n <=> i <= n - 1) /\ (i + 1) - n = i - (n - 1)
    BY <1>1
  <2>2. x[i] = IF i <= n - 1 THEN b[i + 1] ELSE d[i - (n - 1)]
    BY <1>1, <1>3, <2>1
  <2>3. i <= n - 1 => i \in 1 .. n - 1
    BY <1>1
  <2>4. i <= n - 1 => Tail(b)[i] = b[i + 1]
    BY <1>2, <2>3
  <2> QED BY <1>4, <2>2, <2>4
<1>6. x = y
  BY <1>3, <1>4, <1>5
<1>7. Head(b) = b[1]
  OBVIOUS
<1> QED BY <1>1, <1>3, <1>6, <1>7 DEF c, x, y

(* A reply with tool calls, and the record of a result. *)
LEMMA ToolPairs ==
  ASSUME TurnsShape, BudgetsFit, Native, NEW t \in Turns, PairsFit(t), ToolReply(t)
  PROVE  PairsFit(t)'
<1>a. /\ worker[t] = "model" /\ history \in Seq(Entries)
      /\ messages \in [Turns -> Seq(Entries)]
  BY DEF TurnsShape, ToolReply, Proceeds, Saving
<1>d. /\ history \o Owed(t) = history /\ messages[t] \o Owed(t) = messages[t]
      /\ local[t].batch = <<>>
  BY <1>a, NothingOwed
<1>e. Paired(history) /\ Paired(messages[t])
  BY <1>d DEF PairsFit
<1> DEFINE said == Entry("assistant", t, local'[t].todo)  ids == local'[t].todo
<1>1. /\ ids \in Seq(Ids) /\ local'[t].batch = <<>>
      /\ worker'[t] \in {"tools", "raised"}
      /\ history' = Append(history, said)
      /\ messages' = [messages EXCEPT ![t] = Append(messages[t], said)]
  BY <1>d, ToolReplyEdits
<1>2. Owed(t)' = Results(t, ids)
  <2>1. local'[t].batch \o local'[t].todo = ids
    BY <1>1
  <2> QED BY <2>1 DEF Owed
<1>3. /\ Paired(Append(history, said) \o Results(t, ids))
      /\ Paired(Append(messages[t], said) \o Results(t, ids))
  BY <1>a, <1>e, <1>1, Answered
<1>4. messages'[t] = Append(messages[t], said)
  BY <1>a, <1>1
<1>5. Paired(history \o Owed(t))' /\ Paired(messages[t] \o Owed(t))'
  BY <1>1, <1>2, <1>3, <1>4
<1> QED BY <1>1, <1>5 DEF PairsFit

(* A result recorded was owed.                                             *)
LEMMA ResultPairs ==
  ASSUME TurnsShape, BudgetsFit, Native, NEW t \in Turns, PairsFit(t), RecordResult(t)
  PROVE  PairsFit(t)'
<1> DEFINE b == local[t].batch  d == local[t].todo  e == Entry("tool", t, <<Head(b)>>)  c == b \o d
<1>a. /\ history \in Seq(Entries) /\ messages \in [Turns -> Seq(Entries)]
      /\ d \in Seq(Ids)
  BY DEF TurnsShape, IsLocal
<1>1. /\ b \in Seq(Ids) /\ b # <<>> /\ local'[t].batch = Tail(b)
      /\ local'[t].todo = d
  BY RecordResultEdits
<1>2. /\ history' = Append(history, e)
      /\ messages' = [messages EXCEPT ![t] = Append(messages[t], e)]
  BY ResultSays
<1>3. messages'[t] = Append(messages[t], e)
  BY <1>a, <1>2
<1>4. c \in Seq(Ids) /\ c # <<>> /\ Head(c) = Head(b) /\ Tail(c) = Tail(b) \o d
  <2> HIDE DEF b, d
  <2> QED BY <1>a, <1>1, TailOfJoined
<1>5. Owed(t) = Results(t, c) /\ Owed(t)' = Results(t, Tail(c))
  BY <1>1, <1>4 DEF Owed
<1>6. worker'[t] \in {"results", "raised"}
  BY DEF RecordResult, Saving, Proceeds, TurnsShape
<1>7. ASSUME NEW s \in Seq(Entries), Paired(s \o Results(t, c))
      PROVE  Paired(Append(s, e) \o Results(t, Tail(c)))
  <2>1. Append(s, Entry("tool", t, <<Head(c)>>)) \o Results(t, Tail(c)) = s \o Results(t, c)
    BY <1>4, ResultFollows
  <2> QED BY <1>4, <1>7, <2>1
<1>8. Paired(history \o Results(t, c)) /\ Paired(messages[t] \o Results(t, c))
  BY <1>5 DEF PairsFit
<1>9. /\ Paired(Append(history, e) \o Results(t, Tail(c)))
      /\ Paired(Append(messages[t], e) \o Results(t, Tail(c)))
  BY <1>a, <1>7, <1>8
<1>10. Paired(history \o Owed(t))' /\ Paired(messages[t] \o Owed(t))'
  BY <1>2, <1>3, <1>5, <1>9
<1> QED BY <1>6, <1>10 DEF PairsFit

(* Every step of a thread keeps its conversation paired.                   *)
LEMMA ThreadKeepsPairs ==
  ASSUME TurnsShape, BudgetsFit, Native, NEW t \in Turns, PairsFit(t), WorkerStep(t)
  PROVE  PairsFit(t)'
<1>1. CASE ToolReply(t)
  BY <1>1, ToolPairs
<1>2. CASE RecordResult(t)
  BY <1>2, ResultPairs
<1>3. CASE RecordUser(t) \/ Request(t) \/ EmptyReply(t) \/ (Finish(t) /\ t \notin cancelled)
             \/ StopLoop(t)
  BY <1>3, PlainPairs
<1>4. CASE Malformed(t)
  BY <1>4 DEF Malformed
<1>5. CASE ~(ToolReply(t) \/ RecordResult(t) \/ RecordUser(t) \/ Request(t) \/ EmptyReply(t)
             \/ (Finish(t) /\ t \notin cancelled) \/ StopLoop(t) \/ Malformed(t))
  BY <1>5, Silent, QuietPairs
<1> QED BY <1>1, <1>2, <1>3, <1>4, <1>5

(* The thread that is alone: no other one lives, or was broken off. *)
Alone(t) == Live(t) /\ \A u \in Turns \ {t} : worker[u] \in {"none", "returned"}

(* If threads end when they are told to and messages are structured, the   *)
(* history is paired while no thread runs and none was broken off, and the *)
(* conversation of a thread that is alone is.                              *)
PairingFits ==
  ~Slow /\ Native =>
    /\ (\A t \in Turns : worker[t] \in {"none", "returned"}) => Paired(history)
    /\ \A t \in Turns : Alone(t) => PairsFit(t)

(* A thread's step keeps that.                                             *)
LEMMA ThreadKeepsPairing ==
  ASSUME TurnsShape, BudgetsFit, RunnersFit, PairingFits, NEW t \in Turns, WorkerStep(t)
  PROVE  PairingFits'
<1>a. /\ Slow' = Slow /\ Native' = Native /\ Live(t)
      /\ worker \in [Turns -> WorkerPlaces]
      /\ \A u \in Turns \ {t} : worker'[u] = worker[u]
  BY ThreadMoves, AgentStays DEF TurnsShape
<1> SUFFICES ASSUME ~Slow, Native
             PROVE  /\ (\A u \in Turns : worker'[u] \in {"none", "returned"}) => Paired(history')
                    /\ \A u \in Turns : Alone(u)' => PairsFit(u)'
  BY <1>a DEF PairingFits
<1>1. (\A u \in Turns \ {t} : worker'[u] \in {"none", "returned"}) => PairsFit(t)'
  <2> SUFFICES ASSUME \A u \in Turns \ {t} : worker'[u] \in {"none", "returned"}
               PROVE  PairsFit(t)'
    OBVIOUS
  <2>1. Alone(t)
    BY <1>a DEF Alone
  <2>2. PairsFit(t)
    BY <2>1 DEF PairingFits
  <2> QED BY <2>2, ThreadKeepsPairs
<1>2. ASSUME NEW u \in Turns, Alone(u)' PROVE PairsFit(u)'
  <2>1. CASE u = t
    BY <1>1, <1>2, <2>1 DEF Alone
  <2>2. CASE u # t
    <3>1. Live(u)
      BY <1>2, <1>a, <2>2 DEF Alone, Live, Resting, Ended
    <3> QED BY <1>a, <2>2, <3>1, OneTurnRuns
  <2> QED BY <2>1, <2>2
<1>3. ASSUME \A u \in Turns : worker'[u] \in {"none", "returned"}
      PROVE  Paired(history')
  <2>1. PairsFit(t)' /\ worker'[t] = "returned"
    <3>1. worker'[t] # "none"
      <4>1. PICK to \in WorkerPlaces \ {"none", "starting"} : worker' = [worker EXCEPT ![t] = to]
        BY ThreadMoves
      <4> QED BY <1>a, <4>1
    <3> QED BY <1>1, <1>3, <3>1
  <2>2. TurnsShape' /\ BudgetsFit'
    BY ThreadKeepsShape, BudgetsStay
  <2>3. (history \o Owed(t))' = history'
    <3>1. local'[t].batch = <<>> /\ local'[t].todo = <<>>
      BY <2>1, <2>2 DEF BudgetsFit, BudgetFits
    <3>2. /\ <<>> \in Seq(Ids) /\ local'[t].batch \o local'[t].todo = <<>>
          /\ Len(<<>>) = 0
      BY <3>1
    <3>3. Owed(t)' \in Seq(Entries) /\ Len(Owed(t)') = 0
      BY <3>2, ResultsAreEntries DEF Owed
    <3>4. Owed(t)' = <<>>
      BY <3>3
    <3>5. history' \in Seq(Entries)
      BY <2>2 DEF TurnsShape
    <3> QED BY <3>4, <3>5
  <2> QED BY <2>1, <2>3 DEF PairsFit
<1> QED BY <1>2, <1>3

(* What a thread has yet to send: nothing, before its first request. *)
UnheardFits == \A t \in Turns : attempts[t] = 0 => messages[t] = <<>>

(* Messages come with the first request.                                   *)
LEMMA UnheardStays ==
  ASSUME TurnsShape, BudgetsFit, UnheardFits, NEW t \in Turns, WorkerStep(t) \/ RunnerOrOutside(t)
  PROVE  UnheardFits'
<1>a. /\ messages \in [Turns -> Seq(Entries)] /\ attempts \in [Turns -> Nat]
      /\ worker[t] \in {"model", "results"} => attempts[t] > 0
  BY DEF TurnsShape, BudgetsFit, AttemptsFit
<1>1. CASE messages' = messages
             /\ (attempts' = attempts \/ \E n \in Nat \ {0} : attempts' = [attempts EXCEPT ![t] = n])
  BY <1>a, <1>1 DEF UnheardFits
<1>2. CASE (\A u \in Turns \ {t} : messages'[u] = messages[u] /\ attempts'[u] = attempts[u])
             /\ attempts'[t] > 0
  BY <1>a, <1>2 DEF UnheardFits
<1>3. CASE RunnerOrOutside(t)
  BY <1>1, <1>3, RunnerLeaves
<1>4. CASE Request(t)
  <2>1. attempts' = [attempts EXCEPT ![t] = attempts[t] + 1]
          /\ \E s : messages' = [messages EXCEPT ![t] = s]
    <3>1. attempts[t] = 0 \/ attempts[t] # 0
      OBVIOUS
    <3> QED BY <1>4, <3>1, RequestSays, Zenon
  <2> QED BY <1>a, <1>2, <2>1
<1>5. CASE EmptyReply(t) \/ ToolReply(t) \/ RecordResult(t)
  <2>1. attempts' = attempts /\ attempts[t] > 0
    BY <1>a, <1>5 DEF EmptyReply, ToolReply, RecordResult, task, Saving,
       Proceeds
  <2>2. messages' = messages \/ \E s : messages' = [messages EXCEPT ![t] = s]
    BY <1>5 DEF EmptyReply, ToolReply, RecordResult, Converse
  <2> QED BY <1>a, <1>2, <2>1, <2>2
<1>6. CASE WorkerStep(t) /\ ~(Request(t) \/ EmptyReply(t) \/ ToolReply(t) \/ RecordResult(t))
  <2>1. CASE Exhausted(t)
    <3>1. /\ messages' = messages
          /\ (attempts' = attempts \/ attempts' = [attempts EXCEPT ![t] = attempts[t] + 1])
      BY <2>1 DEF Exhausted
    <3>2. attempts[t] + 1 \in Nat \ {0}
      BY <1>a
    <3> QED BY <1>1, <3>1, <3>2
  <2>2. CASE ~Exhausted(t)
    <3>1. messages' = messages /\ attempts' = attempts
      BY <1>6, <2>2 DEF WorkerStep, Begin, RecordUser, CreateState, LoopTop,
         DrainCancelled,
         ModelCancelled, ModelFails, Overflow, Malformed, FinalReply, BeginBatch,
         BatchCancelled, Execute, EndBatch, EndTools, Finish, Synthesis, StopLoop, task
    <3> QED BY <1>1, <3>1
  <2> QED BY <2>1, <2>2
<1> QED BY <1>3, <1>4, <1>5, <1>6

(* A coroutine's step does: its thread starts from a history that is       *)
(* paired.                                                                 *)
LEMMA RunnerKeepsPairing ==
  ASSUME TurnsShape, BudgetsFit, RunnersFit, UnheardFits, PairingFits, NEW t \in Turns,
         RunnerOrOutside(t)
  PROVE  PairingFits'
<1>a. /\ Slow' = Slow /\ Native' = Native /\ worker \in [Turns -> WorkerPlaces]
      /\ UNCHANGED <<history, messages, local, attempts>>
      /\ \/ worker' = worker
         \/ worker[t] = "none" /\ worker' = [worker EXCEPT ![t] = "starting"]
  BY RunnerLeaves, AgentStays DEF TurnsShape
<1>b. ASSUME NEW u PROVE Owed(u)' = Owed(u)
  BY <1>a DEF Owed
<1> SUFFICES ASSUME ~Slow, Native
             PROVE  /\ (\A u \in Turns : worker'[u] \in {"none", "returned"}) => Paired(history')
                    /\ \A u \in Turns : Alone(u)' => PairsFit(u)'
  BY <1>a DEF PairingFits
<1>1. CASE worker' = worker
  <2>1. ASSUME NEW u \in Turns
        PROVE  (Alone(u)' <=> Alone(u)) /\ (PairsFit(u)' <=> PairsFit(u))
    BY <1>a, <1>b, <1>1 DEF Alone, Live, PairsFit
  <2> QED BY <1>a, <1>1, <2>1 DEF PairingFits
<1>2. CASE worker[t] = "none" /\ worker' = [worker EXCEPT ![t] = "starting"]
  <2>0. worker'[t] = "starting" /\ \A u \in Turns \ {t} : worker'[u] = worker[u]
    BY <1>a, <1>2
  <2>1. ASSUME NEW u \in Turns, Alone(u)' PROVE PairsFit(u)'
    <3>1. u = t
      BY <2>0, <2>1 DEF Alone
    <3>2. Paired(history)
      BY <1>2, <2>0, <2>1, <3>1 DEF Alone, PairingFits
    <3>3. /\ Owed(t) = <<>> /\ history \o Owed(t) = history
          /\ messages[t] \o Owed(t) = messages[t]
      BY <1>2, NothingOwed
    <3>4. messages[t] = <<>>
      BY <1>2 DEF UnheardFits, BudgetsFit, AttemptsFit, Uncreated, Unasked
    <3>5. Paired(<<>>)
      <4>1. DOMAIN <<>> = {}
        OBVIOUS
      <4> QED BY <4>1 DEF Paired
    <3>6. Paired(history \o Owed(t))' /\ Paired(messages[t] \o Owed(t))'
      BY <1>a, <1>b, <3>2, <3>3, <3>4, <3>5
    <3> QED BY <2>0, <3>1, <3>6 DEF PairsFit
  <2> QED BY <2>0, <2>1
<1> QED BY <1>a, <1>1, <1>2

-----------------------------------------------------------------------------
(* The inductive invariant.                                                *)
TurnsFit ==
  /\ TurnsShape /\ RunnersFit /\ BudgetsFit /\ EntriesFit /\ StatusesFit
  /\ TurnsApart /\ UnheardFits /\ PairingFits

(* It holds at first.                                                      *)
LEMMA TurnsFitAtFirst ==
  TurnsInit => TurnsFit
<1> SUFFICES ASSUME TurnsInit PROVE TurnsFit
  OBVIOUS
<1>0. /\ agent \in AgentSettings /\ history = <<>> /\ current = 0
      /\ cancelled = {}
      /\ \A t \in Turns : /\ status[t] = "none" /\ steps[t] = 0 /\ attempts[t] = 0
                          /\ runner[t] = "idle"
                          /\ outcome[t] = "none" /\ worker[t] = "none"
                          /\ messages[t] = <<>>
                          /\ local[t] = Fresh /\ inbox[t] = 0
  BY DEF TurnsInit
<1>1. IsLocal(Fresh) /\ Fresh.todo = <<>> /\ Fresh.batch = <<>> /\ Fresh.calls = 0
      /\ Fresh.nudges = 0 /\ Fresh.prefills = 0 /\ Fresh.empties = 0
      /\ Fresh.overflows = 0
  <2>1. <<>> \in Seq(Ids)
    OBVIOUS
  <2> QED BY <2>1 DEF Fresh, IsLocal
<1>2. TurnsShape
  <2>1. history \in Seq(Entries) /\ messages \in [Turns -> Seq(Entries)]
    BY DEF TurnsInit
  <2>2. DOMAIN local = Turns /\ \A t \in Turns : IsLocal(local[t])
    BY <1>1 DEF TurnsInit
  <2>3. /\ status \in [Turns -> Statuses] /\ runner \in [Turns -> RunnerPlaces]
        /\ outcome \in [Turns -> Outcomes] /\ worker \in [Turns -> WorkerPlaces]
    BY DEF TurnsInit, Statuses, RunnerPlaces, Outcomes, WorkerPlaces
  <2>4. /\ steps \in [Turns -> Nat] /\ attempts \in [Turns -> Nat]
        /\ inbox \in [Turns -> Nat]
    BY DEF TurnsInit
  <2> QED BY <1>0, <2>1, <2>2, <2>3, <2>4 DEF TurnsShape
<1>3. RunnersFit
  BY <1>0 DEF RunnersFit, RunnerFits, Live, Resting, Ended
<1>a. /\ MaxSteps \in Nat /\ MaxCalls \in Nat /\ Candidates \in Nat
      /\ Candidates > 0
      /\ MaxOverflows \in Nat /\ MaxNudges \in Nat /\ MaxPrefills \in Nat
      /\ MaxInjected \in Nat
      /\ AttemptLimit \in Nat /\ MaxEmpties = 1 /\ MaxParallel = 2
  BY <1>0, AgentIsSet, LimitIsANumber DEF MaxEmpties, MaxParallel
<1>4. BudgetsFit
  <2> SUFFICES ASSUME NEW t \in Turns PROVE BudgetFits(t) /\ AttemptsFit(t)
    BY DEF BudgetsFit
  <2>1. /\ local[t].todo = <<>> /\ local[t].batch = <<>> /\ local[t].calls = 0
        /\ Len(<<>>) = 0
        /\ local[t].nudges = 0 /\ local[t].prefills = 0 /\ local[t].empties = 0
        /\ local[t].overflows = 0
    BY <1>0, <1>1
  <2>2. steps[t] = 0 /\ attempts[t] = 0 /\ worker[t] = "none" /\ inbox[t] = 0
    BY <1>0
  <2> HIDE DEF MaxEmpties, MaxParallel
  <2>3. BudgetFits(t)
    BY <1>a, <2>1, <2>2 DEF BudgetFits
  <2>4. AttemptsFit(t)
    BY <1>a, <2>1, <2>2 DEF AttemptsFit, Unlimited
  <2> QED BY <2>3, <2>4
<1>5. EntriesFit
  <2> SUFFICES ASSUME NEW t \in Turns PROVE EntriesFitOf(t)
    BY DEF EntriesFit
  <2>1. DOMAIN history = {}
    BY <1>0
  <2>2. /\ Mine(t) = {}
        /\ {i \in DOMAIN history : history[i].role = "tool" /\ history[i].turn = t} = {}
    BY <2>1 DEF Mine
  <2>3. ResultsOf(t) = 0
    BY <2>2, FS_EmptySet DEF ResultsOf
  <2>4. Len(local[t].batch) = 0
    BY <1>0, <1>1
  <2> QED BY <1>0, <2>2, <2>3, <2>4 DEF EntriesFitOf, Unasked
<1>6. StatusesFit
  <2>1. \A t \in Turns : t # 0
    BY DEF Turns
  <2> QED BY <1>0, <2>1 DEF StatusesFit, StatusFits, Uncreated, Unasked
<1>7. TurnsApart
  BY <1>0 DEF TurnsApart
<1>8. UnheardFits
  BY <1>0 DEF UnheardFits
<1>9. PairingFits
  <2>1. DOMAIN history = {}
    BY <1>0
  <2>2. Paired(history)
    BY <2>1 DEF Paired
  <2> QED BY <1>0, <2>2 DEF PairingFits, Alone, Live, Resting
<1> QED BY <1>2, <1>3, <1>4, <1>5, <1>6, <1>7, <1>8, <1>9 DEF TurnsFit

(* Every step keeps it.                                                    *)
LEMMA TurnsFitInNext ==
  ASSUME TurnsFit, [TurnsNext]_turnVars
  PROVE  TurnsFit'
<1>0. /\ TurnsShape /\ RunnersFit /\ BudgetsFit /\ EntriesFit /\ StatusesFit
      /\ TurnsApart /\ UnheardFits /\ PairingFits
  BY DEF TurnsFit
<1>1. ASSUME NEW t \in Turns, WorkerStep(t) PROVE TurnsFit'
  <2>1. TurnsShape' /\ RunnersFit'
    BY <1>0, <1>1, ThreadKeepsShape, ThreadKeepsRunners
  <2>2. BudgetsFit' /\ EntriesFit'
    BY <1>0, <1>1, BudgetsStay, EntriesStay
  <2>3. StatusesFit' /\ TurnsApart'
    BY <1>0, <1>1, ThreadKeepsStatuses, ThreadKeepsOrder
  <2>4. UnheardFits' /\ PairingFits'
    BY <1>0, <1>1, UnheardStays, ThreadKeepsPairing
  <2> QED BY <2>1, <2>2, <2>3, <2>4 DEF TurnsFit
<1>2. ASSUME NEW t \in Turns, RunnerOrOutside(t) PROVE TurnsFit'
  <2>1. TurnsShape' /\ RunnersFit'
    BY <1>0, <1>2, RunnerKeepsShape, RunnerKeepsRunners
  <2>2. BudgetsFit' /\ EntriesFit'
    BY <1>0, <1>2, BudgetsStay, EntriesStay
  <2>3. StatusesFit'
    BY <1>0, <1>2, RunnerKeepsStatuses
  <2>4. TurnsApart'
    <3>1. history' = history /\ Slow' = Slow
      BY <1>0, <1>2, RunnerLeaves, AgentStays
    <3> QED BY <1>0, <3>1 DEF TurnsApart
  <2>5. UnheardFits' /\ PairingFits'
    BY <1>0, <1>2, UnheardStays, RunnerKeepsPairing
  <2> QED BY <2>1, <2>2, <2>3, <2>4, <2>5 DEF TurnsFit
<1>3. CASE UNCHANGED turnVars
  <2>0. /\ agent' = agent /\ history' = history /\ current' = current
        /\ status' = status
        /\ steps' = steps /\ attempts' = attempts /\ runner' = runner
        /\ outcome' = outcome
        /\ cancelled' = cancelled /\ worker' = worker /\ messages' = messages
        /\ local' = local
        /\ inbox' = inbox
    BY <1>3 DEF turnVars
  <2>1. TurnsShape' /\ RunnersFit'
    BY <1>0, <2>0, AgentStays DEF TurnsShape, RunnersFit, RunnerFits, Live
  <2>2. BudgetsFit'
    BY <1>0, <2>0, AgentStays DEF BudgetsFit, BudgetFits, AttemptsFit,
       MaxEmpties, MaxParallel
  <2>3. EntriesFit'
    BY <1>0, <2>0 DEF EntriesFit, EntriesFitOf, Mine, Opens, Closes, ResultsOf
  <2>4. StatusesFit'
    BY <1>0, <2>0, AgentStays DEF StatusesFit, StatusFits
  <2>5. TurnsApart' /\ UnheardFits'
    BY <1>0, <2>0, AgentStays DEF TurnsApart, UnheardFits
  <2>6. PairingFits'
    BY <1>0, <2>0, AgentStays DEF PairingFits, Alone, Live, PairsFit, Owed
  <2> QED BY <2>1, <2>2, <2>3, <2>4, <2>5, <2>6 DEF TurnsFit
<1> QED BY <1>1, <1>2, <1>3 DEF TurnsNext, RunnerOrOutside, Done

(* The inductive invariant holds: every thread is at a place that its      *)
(* coroutine, its budgets, its entries in the history and its task state   *)
(* agree with, in any interleaving of the turns.                           *)
THEOREM TurnsFitHolds ==
  TurnsSpec => []TurnsFit
<1>1. TurnsInit => TurnsFit
  BY TurnsFitAtFirst
<1>2. TurnsFit /\ [TurnsNext]_turnVars => TurnsFit'
  BY TurnsFitInNext
<1> QED BY <1>1, <1>2, PTL DEF TurnsSpec

(* It implies that the turns are sound.                                    *)
LEMMA FitIsSound ==
  ASSUME TurnsFit
  PROVE  TurnsAreSound
<1>0. /\ TurnsShape /\ RunnersFit /\ BudgetsFit /\ EntriesFit /\ StatusesFit
      /\ TurnsApart /\ UnheardFits /\ PairingFits
  BY DEF TurnsFit
<1>1. RequestsArePaired
  <2> SUFFICES ASSUME ~Slow, NEW t \in Turns, Native, worker[t] \in {"model", "synthesis"},
                      \A u \in 1 .. t - 1 : worker[u] = "returned"
               PROVE  Paired(messages[t])
    BY DEF RequestsArePaired
  <2>1. Live(t)
    BY DEF Live, Resting, Ended
  <2>2. ASSUME NEW u \in Turns \ {t} PROVE worker[u] \in {"none", "returned"}
    <3>1. u \in Int /\ t \in Int /\ 1 <= u
      BY DEF Turns
    <3>2. CASE u < t
      BY <3>1, <3>2
    <3>3. CASE u > t
      BY <1>0, <2>1, <3>3, OneTurnRuns
    <3> QED BY <2>2, <3>1, <3>2, <3>3
  <2>3. PairsFit(t)
    BY <1>0, <2>1, <2>2 DEF PairingFits, Alone
  <2>4. messages[t] \o Owed(t) = messages[t]
    BY <1>0, NothingOwed
  <2> QED BY <2>3, <2>4 DEF PairsFit
<1>2. StartedToolsAreRecorded
  <2> SUFFICES ASSUME NEW t \in Turns, worker[t] \in Ended \ {"raised"}
               PROVE  ResultsOf(t) = steps[t]
    BY DEF StartedToolsAreRecorded
  <2>1. local[t].batch = <<>>
    BY <1>0 DEF BudgetsFit, BudgetFits, Ended
  <2>2. ResultsOf(t) + Len(local[t].batch) = steps[t] /\ ResultsOf(t) \in Nat
    BY <1>0, ResultsAreFinite DEF EntriesFit, EntriesFitOf
  <2> QED BY <2>1, <2>2
<1>3. AnswerClosesTurn
  <2> SUFFICES ASSUME NEW t \in Turns, outcome[t] = "completed"
               PROVE  LET mine == {i \in DOMAIN history : history[i].turn = t}
                      IN /\ \E i \in mine : history[i].role = "user" /\ \A j \in mine : i <= j
                         /\ \E i \in mine : history[i].role = "answer" /\ \A j \in mine : j <= i
                         /\ DiskFaults \/ status[t] \in {"completed", "stopped"}
    BY DEF AnswerClosesTurn
  <2>1. worker[t] = "returned"
    BY <1>0 DEF RunnersFit, RunnerFits
  <2>2. Opens(t) /\ Closes(t)
    BY <1>0, <2>1 DEF EntriesFit, EntriesFitOf, Unasked
  <2>3. DiskFaults \/ status[t] \in {"completed", "stopped"}
    BY <1>0, <2>1 DEF StatusesFit, StatusFits
  <2> QED BY <2>2, <2>3 DEF Opens, Closes, Mine
<1>4. TurnsTypeOK
  <2>1. /\ agent \in AgentSettings /\ current \in Turns \cup {0}
        /\ status \in [Turns -> Statuses]
        /\ runner \in [Turns -> RunnerPlaces] /\ outcome \in [Turns -> Outcomes]
        /\ cancelled \subseteq Turns /\ worker \in [Turns -> WorkerPlaces]
        /\ history \in Seq(Entries) /\ messages \in [Turns -> Seq(Entries)]
    BY <1>0 DEF TurnsShape
  <2>2. /\ AttemptLimit \in Nat /\ MaxSteps \in Nat /\ MaxInjected \in Nat
        /\ MaxNudges \in Nat /\ MaxPrefills \in Nat /\ MaxOverflows \in Nat
        /\ MaxEmpties \in Nat
    BY <2>1, AgentIsSet, LimitIsANumber DEF MaxEmpties
  <2>3. \A s \in Seq(Entries) : ToSet(s) \subseteq Entries
    BY DEF ToSet
  <2>4. ASSUME NEW t \in Turns
        PROVE  steps[t] \in 0 .. MaxSteps /\ inbox[t] \in 0 .. MaxInjected
    <3>1. steps[t] \in Nat /\ inbox[t] \in Nat /\ Len(local[t].todo) \in Nat
      BY <1>0 DEF TurnsShape, IsLocal
    <3>2. steps[t] + Len(local[t].todo) <= MaxSteps /\ inbox[t] <= MaxInjected
      BY <1>0 DEF BudgetsFit, BudgetFits
    <3> QED BY <2>2, <3>1, <3>2
  <2>5. ASSUME NEW t \in Turns PROVE attempts[t] \in 0 .. AttemptLimit + 1
    <3>1. attempts[t] \in Nat /\ attempts[t] <= AttemptLimit + 1
      BY <1>0 DEF TurnsShape, BudgetsFit, AttemptsFit
    <3> QED BY <2>2, <3>1
  <2>6. /\ steps \in [Turns -> 0 .. MaxSteps]
        /\ inbox \in [Turns -> 0 .. MaxInjected]
        /\ attempts \in [Turns -> 0 .. AttemptLimit + 1]
    <3>1. /\ steps = [t \in Turns |-> steps[t]]
          /\ inbox = [t \in Turns |-> inbox[t]]
          /\ attempts = [t \in Turns |-> attempts[t]]
      BY <1>0 DEF TurnsShape
    <3> QED BY <2>4, <2>5, <3>1
  <2>7. ASSUME NEW t \in Turns PROVE LocalOK(local[t])
    <3> DEFINE l == local[t]
    <3>1. IsLocal(l) /\ BudgetFits(t)
      BY <1>0 DEF TurnsShape, BudgetsFit
    <3>2. ToSet(l.todo) \subseteq Ids /\ ToSet(l.batch) \subseteq Ids
      <4>1. \A s \in Seq(Ids) : ToSet(s) \subseteq Ids
        BY DEF ToSet
      <4> QED BY <3>1, <4>1 DEF IsLocal
    <3>3. /\ l.nudges <= MaxNudges /\ l.prefills <= MaxPrefills
          /\ l.empties <= MaxEmpties
          /\ l.overflows <= MaxOverflows /\ Len(l.batch) <= MaxParallel
      BY <3>1 DEF BudgetFits
    <3>4. /\ l.calls \in Nat /\ l.nudges \in Nat /\ l.prefills \in Nat
          /\ l.empties \in Nat
          /\ l.overflows \in Nat /\ l.elided \in Nat
      BY <3>1 DEF IsLocal
    <3>5. {l.afterTools, l.spent, l.cut} \subseteq BOOLEAN
      BY <3>1 DEF IsLocal
    <3>6. /\ l.nudges \in 0 .. MaxNudges /\ l.prefills \in 0 .. MaxPrefills
          /\ l.empties \in 0 .. MaxEmpties /\ l.overflows \in 0 .. MaxOverflows
      BY <2>2, <3>3, <3>4
    <3> QED BY <3>2, <3>3, <3>4, <3>5, <3>6 DEF LocalOK
  <2>8. ToSet(history) \subseteq Entries /\ \A t \in Turns : ToSet(messages[t]) \subseteq Entries
    BY <2>1, <2>3
  <2> QED BY <2>1, <2>6, <2>7, <2>8 DEF TurnsTypeOK
<1>5. CallsWithinLimit
  BY <1>0 DEF CallsWithinLimit, BudgetsFit, AttemptsFit
<1>6. NothingLeftRunning
  BY <1>0 DEF NothingLeftRunning, StatusesFit, StatusFits
<1> QED BY <1>0, <1>1, <1>2, <1>3, <1>4, <1>5, <1>6 DEF TurnsAreSound,
   SessionIsSound, TurnIsAccounted

(* TurnsAreSound, for any settings and number of turns: requests show      *)
(* every tool call with its result, no effect is missing in the session,   *)
(* its turns follow one another, a completed one ends with its answer, and *)
(* each stays within its budgets and is settled.                           *)
THEOREM TurnsStaySound ==
  TurnsSpec => []TurnsAreSound
<1>1. TurnsFit => TurnsAreSound
  BY FitIsSound
<1> QED BY <1>1, TurnsFitHolds, PTL

(* No step changes the task state of a turn answered as completed, if      *)
(* saving works: its thread is over, the one that fails is current or      *)
(* comes after a cancelled one, and settling only stops what is running.   *)
LEMMA CompletedIsLeft ==
  ASSUME TurnsFit, [TurnsNext]_turnVars, ~DiskFaults, NEW t \in Turns, outcome[t] = "completed"
  PROVE  status'[t] = status[t]
<1>0. TurnsShape /\ RunnersFit /\ StatusesFit
  BY DEF TurnsFit
<1>1. worker[t] = "returned" /\ status[t] \in {"completed", "stopped"}
  <2>1. worker[t] = "returned"
    BY <1>0 DEF RunnersFit, RunnerFits
  <2> QED BY <1>0, <2>1 DEF StatusesFit, StatusFits
<1>2. ASSUME NEW u \in Turns, WorkerStep(u) PROVE status'[t] = status[t]
  <2>1. t # u
    BY <1>0, <1>1, <1>2, ThreadMoves DEF Live, Resting, Ended
  <2> QED BY <1>0, <1>2, <2>1, ThreadSettles
<1>3. ASSUME NEW u \in Turns, RunnerOrOutside(u) PROVE status'[t] = status[t]
  <2>1. CASE status' = status
    BY <2>1
  <2>2. CASE Join(u)
    BY <1>1, <2>2 DEF Join, SettleRunning
  <2>3. CASE Failed(u)
    <3>1. /\ worker[u] = "raised" /\ runner[u] = "running"
          /\ status' = [v \in Turns |-> IF v = current THEN "failed" ELSE status[v]]
      BY <2>3 DEF Failed, Ends, Move
    <3>2. status[u] # "none"
      BY <1>0, <3>1 DEF StatusesFit, StatusFits, Uncreated, Unasked
    <3>3. current = u \/ (current # 0 /\ outcome[current] = "cancelled")
      BY <1>0, <3>1, <3>2 DEF StatusesFit, StatusFits
    <3>4. u # t
      BY <1>1, <3>1
    <3>5. current # t
      BY <3>3, <3>4
    <3> QED BY <3>1, <3>5
  <2> QED BY <1>0, <1>3, <2>1, <2>2, <2>3, RunnerLeaves
<1>4. CASE UNCHANGED turnVars
  BY <1>4 DEF turnVars
<1> QED BY <1>2, <1>3, <1>4 DEF TurnsNext, RunnerOrOutside, Done

(* CompletedStands: the task state of a completed turn is not rewritten by *)
(* a late thread, by the runner of a later turn or by the settling of one. *)
THEOREM CompletedStaysSo ==
  TurnsSpec => CompletedStands
<1> DEFINE A == ~DiskFaults => \A t \in Turns : outcome[t] = "completed" => status'[t] = status[t]
<1>1. TurnsFit /\ [TurnsNext]_turnVars => A
  BY CompletedIsLeft
<1>2. TurnsFit /\ [TurnsNext]_turnVars => [A]_turnVars
  BY <1>1
<1> QED BY <1>2, TurnsFitHolds, PTL DEF TurnsSpec, CompletedStands
=============================================================================
