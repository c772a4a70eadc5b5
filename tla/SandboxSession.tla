--------------------------- MODULE SandboxSession ---------------------------
(***************************************************************************)
(* The persistent Docker sandbox: one container per host process, kept     *)
(* until it is stopped (sandbox_session.py), with a durable record and a   *)
(* file lease that let another process remove it after a crash             *)
(* (sandbox_ownership.py), and the executions inside it, shell calls under *)
(* the session lock and MCP servers beside them (sandbox_exec_guest.py).   *)
(* The Docker daemon is external: a command may fail, may time out with    *)
(* its effect done, undone or still to come, and the engine behind the CLI *)
(* may be another one after a change of context.                           *)
(* A definition named Faulty... is a later one with a mistake planted.     *)
(***************************************************************************)
EXTENDS Naturals, FiniteSets

CONSTANTS Hosts,        \* processes that may have an adapter on the workspace
          Tokens,       \* the random tokens, each naming one container
          Execs,        \* executions
          Shells,       \* those that are shell calls; the others are MCP
          Engines,      \* Docker engines
          Settings,     \* the settings a workspace may be used under
          None

VARIABLE setting        \* those of this workspace; a step never changes them

Adapters == setting.hosts           \* the processes that run
Requested == setting.execs          \* the executions asked for
MaxFaults == setting.faults         \* bound: failed commands and failed saves
MaxCrashes == setting.crashes       \* bound: host crashes
MaxMoves == setting.moves           \* bound: changes of the engine behind the CLI

ASSUME SandboxAssumption ==
    /\ Shells \subseteq Execs
    /\ None \notin Hosts \cup Tokens \cup Execs /\ Engines # {}
    /\ Settings \subseteq [hosts : SUBSET Hosts, execs : SUBSET Execs,
                            faults : Nat, crashes : Nat, moves : Nat]

VARIABLES record,   \* the owner records on disk: their state and engine
          lease,    \* who holds the file lock beside each record
          box,      \* external: the container of each token
          host,     \* each process: session, latch, lock holder's step
          exec,     \* the executions, on the host and in the guest
          engine,   \* external: the engine the CLI talks to
          lost,     \* history: the environment went without a stop
          faults, crashes, moves

vars == <<setting, record, lease, box, host, exec, engine, lost, faults, crashes, moves>>
budget == <<faults, crashes, moves>>
world == <<box, engine>>

RecordStates == {"none", "intent", "created", "closed"}
Steps == {"idle", "scan", "lookup", "remove", "close", "claim", "create", "ack",
          "boot", "abort", "run", "wait", "finish"}

NewHost == [session |-> None, broken |-> FALSE, mine |-> "none", step |-> "idle",
            cur |-> None, eng |-> None, todo |-> {}, bad |-> FALSE,
            why |-> "start", job |-> None]

Init == /\ setting \in Settings
        /\ record = [t \in Tokens |-> [state |-> "none", daemon |-> None]]
        /\ lease = [t \in Tokens |-> None]
        /\ box = [t \in Tokens |-> [state |-> "none", at |-> None]]
        /\ host = [h \in Hosts |-> NewHost]
        /\ exec = [e \in Execs |-> [host |-> None, box |-> None, phase |-> "new",
                                    guest |-> "none", tomb |-> FALSE]]
        /\ engine = CHOOSE d \in Engines : TRUE   \* they are alike
        /\ lost = [h \in Hosts |-> FALSE]
        /\ faults = 0 /\ crashes = 0 /\ moves = 0

\* A command or a save fails.
Fault == faults < MaxFaults /\ faults' = faults + 1 /\ UNCHANGED <<crashes, moves>>
Smooth == UNCHANGED budget

Here(t) == box[t].state = "present" /\ box[t].at = engine
At(h, s) == host[h].step = s
Goto(h, s) == host' = [host EXCEPT ![h].step = s]
GiveUp(h) == host' = [host EXCEPT ![h].step = "idle", ![h].job = None]
Idle(h) == At(h, "idle")
Ready(h) == Idle(h) /\ host[h].session # None /\ ~host[h].broken
CleansOwn(h) == host[h].why \in {"stop", "fail"}

\* The container goes, and every process in it.
Removed(t) ==
    /\ box' = [box EXCEPT ![t].state = "gone"]
    /\ exec' = [e \in Execs |->
                  IF exec[e].box = t /\ exec[e].guest \in {"requested", "running"}
                  THEN [exec[e] EXCEPT !.guest = "dead"] ELSE exec[e]]

-----------------------------------------------------------------------------
(* Cleanup of one record, by its owner or by a process that recovers it. *)

FaultyReleased(h) == lease
Released(h) == [lease EXCEPT ![host[h].cur] = None]

\* Only a stop takes the latch back.
FaultyLatched(h) == FALSE
Latched(h) == host[h].why = "fail"

\* The lease is given up whatever came of the cleanup; the owner forgets the
\* session only when the cleanup succeeded.
Cleaned(h) ==
    /\ lease' = Released(h)
    /\ IF CleansOwn(h)
       THEN /\ host' = [host EXCEPT ![h].session = None, ![h].cur = None,
                            ![h].broken = Latched(h), ![h].step = "idle"]
            /\ lost' = [lost EXCEPT ![h] = host[h].why = "fail"]
       ELSE /\ host' = [host EXCEPT ![h].todo = host[h].todo \ {host[h].cur},
                            ![h].cur = None, ![h].step = "scan"]
            /\ UNCHANGED lost

\* own: what the owner's copy of the record says once the cleanup has failed.
NotCleaned(h, own) ==
    /\ lease' = Released(h)
    /\ IF CleansOwn(h)
       THEN host' = [host EXCEPT ![h].cur = None, ![h].step = "idle", ![h].mine = own]
       ELSE host' = [host EXCEPT ![h].todo = host[h].todo \ {host[h].cur},
                         ![h].cur = None, ![h].step = "scan", ![h].bad = TRUE]
    /\ UNCHANGED lost

Known(h) == IF CleansOwn(h) THEN host[h].mine ELSE record[host[h].cur].state

\* Only an observed removal, or an acknowledged creation, may close a record.
FaultyMayClose(h) == TRUE
MayClose(h) == Known(h) = "created"

Lookup(h) ==
    /\ At(h, "lookup")
    /\ UNCHANGED <<record, world, exec>>
    /\ \/ Smooth /\ Here(host[h].cur) /\ Goto(h, "remove") /\ UNCHANGED <<lease, lost>>
       \/ Smooth /\ ~Here(host[h].cur) /\ MayClose(h)
          /\ Goto(h, "close") /\ UNCHANGED <<lease, lost>>
       \/ Smooth /\ ~Here(host[h].cur) /\ ~MayClose(h) /\ Cleaned(h)
       \/ Fault /\ NotCleaned(h, host[h].mine)

RemoveBox(h) ==
    /\ At(h, "remove")
    /\ UNCHANGED <<record, engine>>
    /\ \/ Smooth /\ Removed(host[h].cur) /\ Goto(h, "close") /\ UNCHANGED <<lease, lost>>
       \/ Fault /\ NotCleaned(h, host[h].mine)
          /\ (Removed(host[h].cur) \/ UNCHANGED <<box, exec>>)

Close(h) ==
    /\ At(h, "close")
    /\ UNCHANGED <<world, exec>>
    /\ \/ Smooth /\ record' = [record EXCEPT ![host[h].cur].state = "closed"] /\ Cleaned(h)
       \/ Fault /\ NotCleaned(h, "closed") /\ UNCHANGED record

\* The owner invalidates its session: latch first, then the lease, the engine
\* and the container. Another process that holds the lease, a command that
\* fails or an engine that changed leaves the session to a later stop.
Invalidate(h, why) ==
    LET t == host[h].session
        latched == [host EXCEPT ![h].broken = TRUE, ![h].why = why, ![h].step = "idle",
                                ![h].job = None]
        begun == [latched EXCEPT ![h].cur = t, ![h].eng = engine, ![h].step = "lookup"]
    IN /\ UNCHANGED <<record, world, exec>>
       /\ \/ lease[t] \notin {None, h}
             /\ host' = latched /\ Smooth /\ UNCHANGED <<lease, lost>>
          \/ lease[t] \in {None, h} /\ record[t].daemon # engine
             /\ host' = latched /\ lease' = [lease EXCEPT ![t] = None]
             /\ Smooth /\ UNCHANGED lost
          \/ lease[t] \in {None, h}
             /\ host' = latched /\ lease' = [lease EXCEPT ![t] = None]
             /\ Fault /\ UNCHANGED lost
          \/ lease[t] \in {None, h} /\ record[t].daemon = engine
             /\ host[h].mine # "closed"
             /\ host' = begun /\ lease' = [lease EXCEPT ![t] = h]
             /\ Smooth /\ UNCHANGED lost
          \/ lease[t] \in {None, h} /\ record[t].daemon = engine
             /\ host[h].mine = "closed"
             /\ host' = [latched EXCEPT ![h].session = None, ![h].broken = why = "fail"]
             /\ lease' = [lease EXCEPT ![t] = None]
             /\ lost' = [lost EXCEPT ![h] = why = "fail"]
             /\ Smooth

Abort(h) == At(h, "abort") /\ Invalidate(h, "fail")

Stop(h) ==
    /\ Idle(h)
    /\ \/ host[h].session # None /\ Invalidate(h, "stop")
       \/ /\ host[h].session = None /\ host[h].broken
          /\ host' = [host EXCEPT ![h].broken = FALSE]
          /\ lost' = [lost EXCEPT ![h] = FALSE]
          /\ Smooth /\ UNCHANGED <<record, lease, world, exec>>

-----------------------------------------------------------------------------
(* Recovery of other processes' records, before a start or on its own. *)

Recorded == {t \in Tokens : record[t].state # "none"}

\* The engine is identified once; when that fails nothing has changed yet.
BeginScan(h, why, job) ==
    /\ host' = [host EXCEPT ![h].step = "scan", ![h].why = why, ![h].job = job,
                    ![h].todo = Recorded, ![h].bad = FALSE, ![h].eng = engine]
    /\ Smooth /\ UNCHANGED <<record, lease, world, exec, lost>>

Start(h) ==
    /\ Idle(h) /\ host[h].session = None /\ ~host[h].broken
    /\ BeginScan(h, "start", None)

Sweep(h) ==
    /\ Idle(h) /\ Recorded # {}
    /\ BeginScan(h, "sweep", None)

\* A record whose lease another process holds is skipped.
FaultyMayLease(t) == TRUE
MayLease(t) == lease[t] = None

ScanNext(h) ==
    /\ At(h, "scan")
    /\ \E t \in host[h].todo :
          IF MayLease(t) /\ record[t].state # "closed" /\ record[t].daemon = host[h].eng
          THEN /\ lease' = [lease EXCEPT ![t] = h]
               /\ host' = [host EXCEPT ![h].cur = t, ![h].step = "lookup"]
          ELSE host' = [host EXCEPT ![h].todo = host[h].todo \ {t}] /\ UNCHANGED lease
    /\ Smooth /\ UNCHANGED <<record, world, exec, lost>>

ScanEnds(h) ==
    /\ At(h, "scan") /\ host[h].todo = {}
    /\ IF host[h].why = "sweep" \/ host[h].bad THEN GiveUp(h) ELSE Goto(h, "claim")
    /\ Smooth /\ UNCHANGED <<record, lease, world, exec, lost>>

-----------------------------------------------------------------------------
(* A new container: intent on disk, create, acknowledgement, start. *)

Intent == [state |-> "intent", daemon |-> engine]

Claim(h) ==
    /\ At(h, "claim")
    /\ UNCHANGED <<world, exec, lost>>
    /\ \/ \E t \in Tokens :
             /\ record[t].state = "none" /\ box[t].state = "none" /\ lease[t] = None
             /\ lease' = [lease EXCEPT ![t] = h]
             /\ record' = [record EXCEPT ![t] = Intent]
             /\ host' = [host EXCEPT ![h].session = t, ![h].mine = "intent",
                             ![h].step = "create"]
             /\ Smooth
       \/ Fault /\ GiveUp(h) /\ UNCHANGED <<record, lease>>
       \/ Tokens = Recorded /\ GiveUp(h) /\ Smooth /\ UNCHANGED <<record, lease>>  \* bound

\* A failed create may have been refused, may have worked, or is still pending.
Create(h) ==
    /\ At(h, "create")
    /\ \/ /\ box' = [box EXCEPT ![host[h].session] = [state |-> "present", at |-> engine]]
          /\ Goto(h, "ack") /\ Smooth
       \/ /\ \E s \in {"none", "requested", "present"} :
                box' = [box EXCEPT ![host[h].session] = [state |-> s, at |-> engine]]
          /\ Goto(h, "abort") /\ Fault
    /\ UNCHANGED <<record, lease, exec, engine, lost>>

Acknowledge(h) ==
    /\ At(h, "ack")
    /\ \/ /\ record' = [record EXCEPT ![host[h].session].state = "created"]
          /\ host' = [host EXCEPT ![h].mine = "created", ![h].step = "boot"] /\ Smooth
       \/ /\ host' = [host EXCEPT ![h].mine = "created", ![h].step = "abort"]
          /\ Fault /\ UNCHANGED record
    /\ UNCHANGED <<lease, world, exec, lost>>

Boot(h) ==
    /\ At(h, "boot")
    /\ \/ /\ Here(host[h].session) /\ Smooth
          /\ Goto(h, IF host[h].job = None THEN "idle" ELSE "run")
       \/ ~Here(host[h].session) /\ Goto(h, "abort") /\ Smooth
       \/ Goto(h, "abort") /\ Fault
    /\ UNCHANGED <<record, lease, world, exec, lost>>

-----------------------------------------------------------------------------
(* Executions: a shell call keeps the session lock from start to cleanup;  *)
(* an MCP server takes it only to read the session it will run in.         *)

\* docker exec reaches the guest only if the container is there.
Launched(e, h) == [exec[e] EXCEPT !.host = h, !.box = host[h].session, !.phase = "open",
                      !.guest = IF Here(host[h].session) THEN "requested" ELSE "dead"]

Shell(h) ==
    \E e \in Requested \cap Shells :
       /\ Idle(h) /\ ~host[h].broken /\ exec[e].phase = "new"
       /\ \A g \in Hosts : host[g].job # e
       /\ IF host[h].session = None THEN BeginScan(h, "start", e)
          ELSE /\ host' = [host EXCEPT ![h].job = e, ![h].step = "run"]
               /\ Smooth /\ UNCHANGED <<record, lease, world, exec, lost>>

RunShell(h) ==
    /\ At(h, "run")
    /\ exec' = [exec EXCEPT ![host[h].job] = Launched(host[h].job, h)]
    /\ Goto(h, "wait")
    /\ Smooth /\ UNCHANGED <<record, lease, world, lost>>

\* The CLI ends with the command, or is killed at a deadline or cancellation.
ShellReturns(h) ==
    /\ At(h, "wait") /\ Goto(h, "finish")
    /\ Smooth /\ UNCHANGED <<record, lease, world, exec, lost>>

Cancelled(e) == [exec[e] EXCEPT !.tomb = TRUE, !.phase = "done",
                    !.guest = IF exec[e].guest = "running" THEN "dead"
                              ELSE exec[e].guest]

FinishShell(h) ==
    LET e == host[h].job IN
    /\ At(h, "finish")
    /\ \/ /\ Here(exec[e].box) /\ Smooth
          /\ exec' = [exec EXCEPT ![e] = Cancelled(e)]
          /\ host' = [host EXCEPT ![h].step = "idle", ![h].job = None]
       \/ /\ IF Here(exec[e].box) THEN Fault ELSE Smooth
          /\ exec' = [exec EXCEPT ![e].phase = "failed"]
          /\ host' = [host EXCEPT ![h].step = "abort", ![h].job = None]
    /\ UNCHANGED <<record, lease, world, lost>>

Serve(h) ==
    \E e \in Requested \ Shells :
       /\ Ready(h) /\ exec[e].phase = "new"
       /\ exec' = [exec EXCEPT ![e] = Launched(e, h)]
       /\ Smooth /\ UNCHANGED <<record, lease, world, host, lost>>

\* Cleanup belongs to the captured container; a later session is left alone.
FinishServer(e) ==
    LET h == exec[e].host IN
    /\ e \notin Shells /\ exec[e].phase = "open"
    /\ \/ /\ exec[e].box # host[h].session /\ Smooth
          /\ exec' = [exec EXCEPT ![e].phase = "stale"]
       \/ /\ exec[e].box = host[h].session /\ Here(exec[e].box) /\ Smooth
          /\ exec' = [exec EXCEPT ![e] = Cancelled(e)]
       \/ /\ exec[e].box = host[h].session
          /\ IF Here(exec[e].box) THEN Fault ELSE Smooth
          /\ exec' = [exec EXCEPT ![e].phase = "unclean"]
    /\ UNCHANGED <<record, lease, world, host, lost>>

\* The failed cleanup waits for the session lock before it invalidates.
InvalidateServer(e) ==
    LET h == exec[e].host IN
    /\ exec[e].phase = "unclean" /\ Idle(h)
    /\ exec' = [exec EXCEPT ![e].phase = "failed"]
    /\ IF exec[e].box = host[h].session THEN Goto(h, "abort") ELSE UNCHANGED host
    /\ Smooth /\ UNCHANGED <<record, lease, world, lost>>

\* The guest supervisor, under the file lock of the execution.
FaultyMayLaunch(e) == TRUE
MayLaunch(e) == ~exec[e].tomb

GuestRun(e) ==
    /\ exec[e].guest = "requested" /\ box[exec[e].box].state = "present"
    /\ exec' = [exec EXCEPT ![e].guest = IF MayLaunch(e) THEN "running" ELSE "refused"]
    /\ Smooth /\ UNCHANGED <<record, lease, world, host, lost>>

GuestEnds(e) ==
    /\ exec[e].guest = "running"
    /\ exec' = [exec EXCEPT ![e].guest = "dead", ![e].tomb = TRUE]
    /\ Smooth /\ UNCHANGED <<record, lease, world, host, lost>>

-----------------------------------------------------------------------------
(* What the hosts do not control. *)

LateCreate(t) ==
    /\ box[t].state = "requested"
    /\ box' = [box EXCEPT ![t].state = "present"]
    /\ Smooth /\ UNCHANGED <<record, lease, host, exec, engine, lost>>

MoveEngine ==
    /\ moves < MaxMoves /\ moves' = moves + 1
    /\ engine' \in Engines \ {engine}
    /\ UNCHANGED <<record, lease, box, host, exec, lost, faults, crashes>>

\* The process dies and is started again: its file locks go with it.
Crash(h) ==
    /\ crashes < MaxCrashes /\ crashes' = crashes + 1
    /\ host[h] # NewHost
    /\ host' = [host EXCEPT ![h] = NewHost]
    /\ lease' = [t \in Tokens |-> IF lease[t] = h THEN None ELSE lease[t]]
    /\ exec' = [e \in Execs |-> IF exec[e].host = h /\ exec[e].phase \in {"open", "unclean"}
                                THEN [exec[e] EXCEPT !.phase = "orphan"] ELSE exec[e]]
    /\ lost' = [lost EXCEPT ![h] = FALSE]
    /\ UNCHANGED <<record, world, faults, moves>>

HostStep(h) ==
    \/ Lookup(h) \/ RemoveBox(h) \/ Close(h) \/ Abort(h)
    \/ ScanNext(h) \/ ScanEnds(h)
    \/ Claim(h) \/ Create(h) \/ Acknowledge(h) \/ Boot(h)
    \/ RunShell(h) \/ ShellReturns(h) \/ FinishShell(h)

Next ==
    /\ UNCHANGED setting
    /\ \/ \E h \in Adapters : \/ HostStep(h) \/ Stop(h) \/ Start(h) \/ Sweep(h)
                               \/ Shell(h) \/ Serve(h) \/ Crash(h)
       \/ \E e \in Requested : \/ FinishServer(e) \/ InvalidateServer(e)
                                \/ GuestRun(e) \/ GuestEnds(e)
       \/ \E t \in Tokens : LateCreate(t)
       \/ MoveEngine

Spec == Init /\ [][Next]_vars

\* Begun operations go on. That somebody sweeps again and again is the
\* operator's part: recovery is on demand.
Sweeps(h) == h \in Adapters /\ Sweep(h) /\ UNCHANGED setting
Continues(h) == h \in Adapters /\ HostStep(h) /\ UNCHANGED setting

SweptSpec ==
    /\ Spec
    /\ \A h \in Hosts : WF_vars(Continues(h)) /\ WF_vars(Sweeps(h))

-----------------------------------------------------------------------------
(* Properties. *)

TypeOK ==
    /\ setting \in Settings
    /\ record \in [Tokens -> [state : RecordStates, daemon : Engines \cup {None}]]
    /\ lease \in [Tokens -> Hosts \cup {None}]
    /\ box \in [Tokens -> [state : {"none", "requested", "present", "gone"},
                           at : Engines \cup {None}]]
    /\ host \in [Hosts -> [session : Tokens \cup {None}, broken : BOOLEAN,
                           mine : RecordStates, step : Steps, cur : Tokens \cup {None},
                           eng : Engines \cup {None}, todo : SUBSET Tokens, bad : BOOLEAN,
                           why : {"start", "sweep", "stop", "fail"},
                           job : Shells \cup {None}]]
    /\ exec \in [Execs -> [host : Hosts \cup {None}, box : Tokens \cup {None},
                           phase : {"new", "open", "done", "failed", "stale",
                                    "unclean", "orphan"},
                           guest : {"none", "requested", "running", "dead", "refused"},
                           tomb : BOOLEAN]]
    /\ engine \in Engines /\ lost \in [Hosts -> BOOLEAN]
    /\ faults \in 0..MaxFaults /\ crashes \in 0..MaxCrashes /\ moves \in 0..MaxMoves

\* A container that exists, or that the daemon may still create, has a record
\* on disk that is not closed: no crash and no timeout leaves one that a sweep
\* would not look for, as long as the CLI talks to one engine.
OrphansAreRecorded ==
    MaxMoves = 0 => \A t \in Tokens : box[t].state \in {"requested", "present"} =>
        record[t].state \in {"intent", "created"}

\* The container of a session that nobody has invalidated is never removed,
\* whatever other processes recover at the same time.
LiveBoxIsKept ==
    [][\A h \in Hosts : LET t == host[h].session IN
          t # None /\ ~host[h].broken /\ box[t].state = "present"
          => box'[t].state = "present" \/ host'[h].session # t]_vars

\* A session that was lost is never followed by a fresh, empty one unless the
\* caller has stopped the sandbox in between.
NoSilentReplacement ==
    [][\A h \in Hosts : host[h].session = None /\ host'[h].session # None => ~lost[h]]_vars

\* Once an execution has been cleaned up nothing of it runs in the guest, not
\* even when its launch reaches the guest after the cancellation.
CleanedUpIsDead == \A e \in Execs : exec[e].phase = "done" => exec[e].guest # "running"

\* Containers and executions are accounted for: each orphan is on record, and
\* what was cleaned up is dead.
BoxesAreAccounted == TypeOK /\ OrphansAreRecorded /\ CleanedUpIsDead

\* A session keeps its environment: the container is not removed under it, and
\* a lost one is not replaced in silence.
SessionKeepsItsBox == LiveBoxIsKept /\ NoSilentReplacement

\* A container that nobody owns any more is removed, if somebody keeps sweeping
\* and the CLI talks to one engine.
OrphansAreReclaimed ==
    MaxMoves = 0 => \A t \in Tokens :
        (box[t].state = "present" /\ lease[t] = None) ~> (box[t].state = "gone")
=============================================================================
