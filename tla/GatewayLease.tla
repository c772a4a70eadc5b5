---------------------------- MODULE GatewayLease ----------------------------
(***************************************************************************)
(* The lease that keeps one gateway at a time on a state directory         *)
(* (gateway.py): a directory with an owner file in it, taken and given     *)
(* back under a file lock, and taken over from an owner that died.  Every  *)
(* file operation is a step, and a process may die between any two.        *)
(***************************************************************************)
EXTENDS Naturals, FiniteSets

CONSTANTS
  Gateways,    \* processes that may run a gateway, each with its own pid
  noGateway,   \* no owner file, or a lock that is free
  MaxDeaths,   \* bound: deaths of a gateway's process
  MaxStarts,   \* bound: calls of acquire
  MaxReuses    \* bound: pids given to a process that is no gateway

ASSUME LeaseAssumption ==
  /\ IsFiniteSet(Gateways) /\ noGateway \notin Gateways
  /\ MaxDeaths \in Nat /\ MaxStarts \in Nat /\ MaxReuses \in Nat

VARIABLES
  lease,     \* the lease: its directory, owner.json, and a temporary file
  gate,      \* what each process does, and in which attempt of _acquire_locked
  transition, \* who holds gateway-transition.lock; the kernel frees it at a death
  holders,      \* the processes whose GatewayLease.held is set
  pidsReused,    \* dead gateways whose pid now is that of another process
  refusal,    \* how the last acquire of each ended
  spoiled,   \* whether a replacement of owner.json was broken off
  leaseUsed  \* deaths, starts and reuses so far

leaseVars == <<lease, gate, transition, holders, pidsReused, refusal, spoiled, leaseUsed>>

GateSites == {"down", "idle", "asking", "mkdir", "unlink", "rmdir", "write", "replace",
          "up", "leaving", "removing", "closing"}

Refusals == {"none", "running", "write", "could not be acquired"}

NewLease == [dir |-> FALSE, owner |-> noGateway, temp |-> FALSE]
GatewayAlive(p) == gate[p].at # "down"

LeaseInit ==
  /\ lease = NewLease /\ transition = noGateway
  /\ gate = [p \in Gateways |-> [at |-> "idle", attempt |-> 0]]
  /\ holders = {} /\ pidsReused = {} /\ spoiled = FALSE
  /\ refusal = [p \in Gateways |-> "none"]
  /\ leaseUsed = [deaths |-> 0, starts |-> 0, reuses |-> 0]

GateGoes(p, site) == gate' = [gate EXCEPT ![p].at = site]
GateAt(p, site) == gate[p].at = site

\* _pid_alive: a pid lives also when it is another program's by now.
PidAlive(p) == p # noGateway /\ (GatewayAlive(p) \/ p \in pidsReused)

-----------------------------------------------------------------------------
(* acquire                                                                 *)

StartGateway(p) ==
  /\ GateAt(p, "idle") /\ leaseUsed.starts < MaxStarts
  /\ GateGoes(p, "asking")
  /\ leaseUsed' = [leaseUsed EXCEPT !.starts = @ + 1]
  /\ UNCHANGED <<lease, transition, holders, pidsReused, refusal, spoiled>>

FaultyMayEnter == TRUE
MayEnter == transition = noGateway

EnterLock(p) ==
  /\ GateAt(p, "asking") /\ MayEnter
  /\ transition' = p
  /\ gate' = [gate EXCEPT ![p] = [at |-> "mkdir", attempt |-> 1]]
  /\ UNCHANGED <<lease, holders, pidsReused, refusal, spoiled, leaseUsed>>

\* An acquire ends with an error; whoever holds the lock lets it go.
AcquireFails(p, why) ==
  /\ gate' = [gate EXCEPT ![p] = [at |-> "idle", attempt |-> 0]]
  /\ refusal' = [refusal EXCEPT ![p] = why]
  /\ transition' = noGateway

MakeDirectory(p) ==
  /\ GateAt(p, "mkdir")
  /\ \/ ~lease.dir
        /\ lease' = [lease EXCEPT !.dir = TRUE]
        /\ GateGoes(p, "write") /\ UNCHANGED <<refusal, transition>>
     \/ lease.dir /\ PidAlive(lease.owner) /\ AcquireFails(p, "running") /\ UNCHANGED lease
     \/ lease.dir /\ ~PidAlive(lease.owner)
        /\ GateGoes(p, "unlink") /\ UNCHANGED <<lease, refusal, transition>>
  /\ UNCHANGED <<holders, pidsReused, spoiled, leaseUsed>>

\* The owner file of the dead goes, then the directory, if it is empty.
FaultyOwnerRemoved == lease
OwnerRemoved == [lease EXCEPT !.owner = noGateway]
DirRemoved ==
  [lease EXCEPT !.dir = lease.owner # noGateway \/ lease.temp]

TakeOver(p) ==
  /\ \/ GateAt(p, "unlink") /\ lease' = OwnerRemoved
        /\ GateGoes(p, "rmdir") /\ UNCHANGED <<refusal, transition>>
     \/ GateAt(p, "rmdir") /\ lease' = DirRemoved
        /\ IF gate[p].attempt = 1
           THEN gate' = [gate EXCEPT ![p] = [at |-> "mkdir", attempt |-> 2]]
                /\ UNCHANGED <<refusal, transition>>
           ELSE AcquireFails(p, "could not be acquired")
  /\ UNCHANGED <<holders, pidsReused, spoiled, leaseUsed>>

\* atomic_replace: a temporary file beside owner.json is written, then renamed.
\* A write that fails leaves it behind; a rename that fails does not; and when the
\* directory cannot be synchronized, the owner is on file and does not hold it.
WriteOwner(p) ==
  /\ GateAt(p, "write")
  /\ lease' = [lease EXCEPT !.temp = TRUE]
  /\ \/ GateGoes(p, "replace") /\ UNCHANGED <<refusal, transition, spoiled>>
     \/ AcquireFails(p, "write") /\ spoiled' = TRUE
  /\ UNCHANGED <<holders, pidsReused, leaseUsed>>

Replaced(p) == [lease EXCEPT !.owner = p, !.temp = FALSE]

ReplaceOwner(p) ==
  /\ GateAt(p, "replace")
  /\ \/ /\ lease' = Replaced(p)
        /\ gate' = [gate EXCEPT ![p] = [at |-> "up", attempt |-> 0]]
        /\ holders' = holders \cup {p}
        /\ refusal' = [refusal EXCEPT ![p] = "none"]
        /\ transition' = noGateway
     \/ /\ lease' \in {[lease EXCEPT !.temp = FALSE], Replaced(p)}
        /\ AcquireFails(p, "write") /\ UNCHANGED holders
  /\ UNCHANGED <<pidsReused, spoiled, leaseUsed>>

-----------------------------------------------------------------------------
(* release: the last act of LocalGateway.stop, also of a start that failed *)

StopGateway(p) ==
  /\ GateAt(p, "up")
  /\ GateGoes(p, "leaving")
  /\ UNCHANGED <<lease, transition, holders, pidsReused, refusal, spoiled, leaseUsed>>

\* Only an owner removes the owner file.
ReleaseLease(p) ==
  /\ \/ /\ GateAt(p, "leaving") /\ MayEnter
        /\ IF lease.owner = p
           THEN GateGoes(p, "removing") /\ transition' = p /\ UNCHANGED holders
           ELSE GateGoes(p, "idle") /\ holders' = holders \ {p} /\ UNCHANGED transition
        /\ UNCHANGED lease
     \/ /\ GateAt(p, "removing")
        /\ lease' = OwnerRemoved /\ GateGoes(p, "closing")
        /\ UNCHANGED <<holders, transition>>
     \/ /\ GateAt(p, "closing")
        /\ lease' = DirRemoved /\ GateGoes(p, "idle")
        /\ holders' = holders \ {p} /\ transition' = noGateway
  /\ UNCHANGED <<pidsReused, refusal, spoiled, leaseUsed>>

-----------------------------------------------------------------------------
(* Processes die, and their pids are used again.                           *)

Die(p) ==
  /\ GatewayAlive(p) /\ leaseUsed.deaths < MaxDeaths
  /\ gate' = [gate EXCEPT ![p] = [at |-> "down", attempt |-> 0]]
  /\ holders' = holders \ {p}
  /\ transition' = IF transition = p THEN noGateway ELSE transition
  /\ spoiled' = (spoiled \/ GateAt(p, "replace"))
  /\ leaseUsed' = [leaseUsed EXCEPT !.deaths = @ + 1]
  /\ UNCHANGED <<lease, pidsReused, refusal>>

\* The kernel gives the pid of a dead process to another, until that ends.
PidTaken(p) ==
  /\ ~GatewayAlive(p) /\ p \notin pidsReused /\ leaseUsed.reuses < MaxReuses
  /\ pidsReused' = pidsReused \cup {p}
  /\ leaseUsed' = [leaseUsed EXCEPT !.reuses = @ + 1]
  /\ UNCHANGED <<lease, gate, transition, holders, refusal, spoiled>>

PidFreed(p) ==
  /\ p \in pidsReused
  /\ pidsReused' = pidsReused \ {p}
  /\ UNCHANGED <<lease, gate, transition, holders, refusal, spoiled, leaseUsed>>

LeaseNext ==
  \E p \in Gateways :
    \/ StartGateway(p) \/ EnterLock(p) \/ MakeDirectory(p) \/ TakeOver(p)
    \/ WriteOwner(p) \/ ReplaceOwner(p) \/ StopGateway(p) \/ ReleaseLease(p)
    \/ Die(p) \/ PidTaken(p) \/ PidFreed(p)

-----------------------------------------------------------------------------
LeaseTypes ==
  /\ lease \in [dir : BOOLEAN, owner : Gateways \cup {noGateway}, temp : BOOLEAN]
  /\ gate \in [Gateways -> [at : GateSites, attempt : 0..2]]
  /\ transition \in Gateways \cup {noGateway}
  /\ holders \in SUBSET Gateways /\ pidsReused \in SUBSET Gateways
  /\ refusal \in [Gateways -> Refusals]

\* "crash-recoverable single-instance ownership" (gateway.py:1), single: no two
\* gateways run on a state directory, whoever dies or takes over meanwhile, and
\* the file names the one that runs until it removes the file itself.
OneGateway ==
  /\ Cardinality(holders) <= 1
  /\ \A p \in holders : GatewayAlive(p) /\ (~GateAt(p, "closing") => lease.dir /\ lease.owner = p)

\* And recoverable, as far as it goes: a lease can only not be taken, with nobody
\* named in it, after a replacement of the owner file was broken off and left
\* its temporary file, which nothing removes.
LeaseIsRecoverable ==
  (\E p \in Gateways : refusal[p] = "could not be acquired") => spoiled /\ lease.temp

LeaseIsSound == LeaseTypes /\ OneGateway /\ LeaseIsRecoverable
=============================================================================
