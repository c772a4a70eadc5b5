--------------------------- MODULE RecordsProofs ----------------------------
(***************************************************************************)
(* Proofs about what is kept and what is paid for: the lease of a gateway  *)
(* (GatewayLease), a pilot (FocusedPilot), the session file (SessionStore), *)
(* campaigns (EvalCampaigns), a search (FocusedSearch) and what an agent   *)
(* remembers (WorkingMemory), each for any number of processes, tasks,     *)
(* rows or notes and of deaths, restarts and faults.                       *)
(***************************************************************************)
EXTENDS MCRecords, QueueLemmas, FiniteSetTheorems

-----------------------------------------------------------------------------
(* The lease.  Whoever is at a step that reads or writes it holds the lock *)
(* of the transition; and from the moment it has found the owner dead,     *)
(* there is no gateway that runs.                                          *)

Takes == {"unlink", "rmdir", "write", "replace"}
Leaves == {"removing", "closing"}
LocksHoldFor(p) ==
  /\ gate[p].at \in {"mkdir"} \cup Takes \cup Leaves => transition = p
  /\ gate[p].at \in Takes => holders = {}
  /\ gate[p].at = "closing" => holders \subseteq {p}
LocksHold == \A p \in Gateways : LocksHoldFor(p)

HoldersRun ==
  /\ holders = {p \in Gateways : gate[p].at \in {"up", "leaving"} \cup Leaves}
  /\ \A p \in holders : ~GateAt(p, "closing") => lease.dir /\ lease.owner = p

\* What each step has found, or made, of the lease.
LeaseIsKnown ==
  /\ ~lease.dir \/ lease.temp => lease.owner = noGateway
  /\ lease.temp => lease.dir /\ (spoiled \/ \E p \in Gateways : GateAt(p, "replace"))
  /\ \A p \in Gateways :
       /\ GateAt(p, "write") => lease.dir /\ ~lease.temp
       /\ GateAt(p, "replace") => lease.dir /\ lease.temp
       /\ gate[p].at \in {"rmdir", "write", "replace", "closing"} => lease.owner = noGateway
       /\ gate[p].at \in {"mkdir", "unlink", "rmdir"} =>
            \/ gate[p].attempt = 1
            \/ gate[p].attempt = 2 /\ lease.owner = noGateway /\ (lease.dir => lease.temp)
       /\ gate[p].at \in {"unlink", "rmdir"} => lease.dir

\* Once it cannot be taken, nobody writes it any more.
StuckStaysStuck ==
  (\E p \in Gateways : refusal[p] = "could not be acquired")
    => spoiled /\ lease.temp /\ \A p \in Gateways : ~GateAt(p, "replace")

LeaseInvariant ==
  /\ LeaseTypes /\ LocksHold /\ HoldersRun /\ LeaseIsKnown /\ StuckStaysStuck

LEMMA LeaseStarts ==
  ASSUME LeaseInit
  PROVE  LeaseInvariant
  BY DEF LeaseInit, LeaseInvariant, LeaseTypes, LocksHold, LocksHoldFor, HoldersRun,
       LeaseIsKnown,
         StuckStaysStuck, NewLease, GateSites, Takes, Leaves, GateAt, Refusals

(* A step moves one gateway, and leaves the lease with these three parts.  *)
Moves(p, site, attempt) ==
  /\ gate' \in [Gateways -> [at : GateSites, attempt : 0..2]]
  /\ gate'[p].at = site /\ gate'[p].attempt = attempt
  /\ \A q \in Gateways : q # p => gate'[q] = gate[q]

Leases == [dir : BOOLEAN, owner : Gateways \cup {noGateway}, temp : BOOLEAN]
LeaseIsLeft(dir, owner, temp) ==
  /\ lease' \in Leases /\ lease'.owner = owner
  /\ (lease'.dir <=> dir) /\ (lease'.temp <=> temp)
Keeps == UNCHANGED lease

Fails(p, why) ==
  /\ Moves(p, "idle", 0) /\ transition' = noGateway
  /\ refusal' \in [Gateways -> Refusals] /\ refusal'[p] = why
  /\ \A q \in Gateways : q # p => refusal'[q] = refusal[q]

LEMMA GatewayMoves ==
  ASSUME LeaseTypes, NEW p \in Gateways, NEW site \in GateSites, NEW attempt \in 0..2,
         \/ gate' = [gate EXCEPT ![p] = [at |-> site, attempt |-> attempt]]
         \/ GateGoes(p, site) /\ attempt = gate[p].attempt
  PROVE  Moves(p, site, attempt)
<1>1. gate \in [Gateways -> [at : GateSites, attempt : 0..2]] BY DEF LeaseTypes
<1> QED BY <1>1 DEF GateGoes, Moves

LEMMA AcquireEnds ==
  ASSUME LeaseTypes, NEW p \in Gateways, NEW why \in Refusals, AcquireFails(p, why)
  PROVE  Fails(p, why)
<1>1. "idle" \in GateSites /\ 0 \in 0..2 BY DEF GateSites
<1>2. Moves(p, "idle", 0) BY <1>1, GatewayMoves DEF AcquireFails
<1> QED BY <1>2 DEF AcquireFails, Fails, LeaseTypes

LEMMA LeaseBecomes ==
  ASSUME LeaseTypes, NEW p \in Gateways
  PROVE  /\ lease' = [lease EXCEPT !.dir = TRUE] => LeaseIsLeft(TRUE, lease.owner, lease.temp)
         /\ lease' = [lease EXCEPT !.temp = TRUE] => LeaseIsLeft(lease.dir, lease.owner, TRUE)
         /\ lease' = [lease EXCEPT !.temp = FALSE] => LeaseIsLeft(lease.dir, lease.owner, FALSE)
         /\ lease' = Replaced(p) => LeaseIsLeft(lease.dir, p, FALSE)
         /\ lease' = OwnerRemoved => LeaseIsLeft(lease.dir, noGateway, lease.temp)
         /\ lease' = DirRemoved =>
              LeaseIsLeft(lease.owner # noGateway \/ lease.temp, lease.owner, lease.temp)
<1>1. lease \in Leases BY DEF LeaseTypes, Leases
<1> QED BY <1>1 DEF LeaseIsLeft, Leases, Replaced, OwnerRemoved, DirRemoved

(* What each step does, in these terms.                                    *)
LEMMA GatewaysDo ==
  ASSUME LeaseTypes, NEW p \in Gateways
  PROVE  /\ gate[p].at \in GateSites /\ gate[p].attempt \in 0..2
         /\ StartGateway(p) => GateAt(p, "idle") /\ Moves(p, "asking", gate[p].attempt)
         /\ StopGateway(p) => GateAt(p, "up") /\ Moves(p, "leaving", gate[p].attempt)
         /\ EnterLock(p) => GateAt(p, "asking") /\ Moves(p, "mkdir", 1)
         /\ Die(p) => gate[p].at # "down" /\ Moves(p, "down", 0)
<1>1. /\ \A s \in {"asking", "leaving", "mkdir", "down"} : s \in GateSites
      /\ gate[p].at \in GateSites /\ gate[p].attempt \in 0..2
  BY DEF GateSites, LeaseTypes
<1> QED
  BY <1>1, GatewayMoves DEF StartGateway, StopGateway, EnterLock, Die, GatewayAlive

LEMMA MakeDirectoryDoes ==
  ASSUME LeaseTypes, NEW p \in Gateways, MakeDirectory(p)
  PROVE  /\ GateAt(p, "mkdir") /\ UNCHANGED <<holders, pidsReused, spoiled>>
         /\ \/ /\ ~lease.dir /\ LeaseIsLeft(TRUE, lease.owner, lease.temp)
               /\ Moves(p, "write", gate[p].attempt) /\ UNCHANGED <<refusal, transition>>
            \/ Keeps /\ Fails(p, "running")
            \/ /\ Keeps /\ ~PidAlive(lease.owner) /\ Moves(p, "unlink", gate[p].attempt)
               /\ lease.dir /\ UNCHANGED <<refusal, transition>>
<1>1. "write" \in GateSites /\ "unlink" \in GateSites /\ "running" \in Refusals
  BY DEF GateSites, Refusals
<1>2. gate[p].attempt \in 0..2 BY DEF LeaseTypes
<1> QED
  BY <1>1, <1>2, GatewayMoves, AcquireEnds, LeaseBecomes DEF MakeDirectory, Keeps

LEMMA TakeOverDoes ==
  ASSUME LeaseTypes, NEW p \in Gateways, TakeOver(p)
  PROVE  /\ UNCHANGED <<holders, pidsReused, spoiled>>
         /\ \/ /\ GateAt(p, "unlink") /\ LeaseIsLeft(lease.dir, noGateway, lease.temp)
               /\ Moves(p, "rmdir", gate[p].attempt) /\ UNCHANGED <<refusal, transition>>
            \/ /\ GateAt(p, "rmdir")
               /\ LeaseIsLeft(lease.owner # noGateway \/ lease.temp, lease.owner, lease.temp)
               /\ \/ Moves(p, "mkdir", 2) /\ UNCHANGED <<refusal, transition>>
                  \/ Fails(p, "could not be acquired") /\ gate[p].attempt # 1
<1>1. "rmdir" \in GateSites /\ "mkdir" \in GateSites /\ "could not be acquired" \in Refusals
  BY DEF GateSites, Refusals
<1>2. gate[p].attempt \in 0..2 BY DEF LeaseTypes
<1>3. CASE GateAt(p, "unlink") /\ lease' = OwnerRemoved /\ GateGoes(p, "rmdir")
           /\ UNCHANGED <<refusal, transition>>
  BY <1>1, <1>2, <1>3, GatewayMoves, LeaseBecomes DEF TakeOver
<1>4. CASE GateAt(p, "rmdir") /\ lease' = DirRemoved
  <2>1. LeaseIsLeft(lease.owner # noGateway \/ lease.temp, lease.owner, lease.temp)
    BY <1>4, LeaseBecomes
  <2>2. UNCHANGED <<holders, pidsReused, spoiled>> /\ ~GateAt(p, "unlink")
    BY <1>4 DEF TakeOver, GateAt
  <2>3. CASE gate[p].attempt = 1
    <3>1. /\ gate' = [gate EXCEPT ![p] = [at |-> "mkdir", attempt |-> 2]]
          /\ UNCHANGED <<refusal, transition>> /\ 2 \in 0..2
      BY <2>2, <2>3 DEF TakeOver
    <3> QED BY <1>1, <1>4, <2>1, <2>2, <3>1, GatewayMoves
  <2>4. CASE gate[p].attempt # 1
    <3>1. AcquireFails(p, "could not be acquired") BY <2>2, <2>4 DEF TakeOver
    <3> QED BY <1>1, <1>4, <2>1, <2>2, <2>4, <3>1, AcquireEnds
  <2> QED BY <2>3, <2>4
<1> QED BY <1>3, <1>4 DEF TakeOver

LEMMA WriteDoes ==
  ASSUME LeaseTypes, NEW p \in Gateways
  PROVE  /\ WriteOwner(p) =>
              /\ GateAt(p, "write") /\ LeaseIsLeft(lease.dir, lease.owner, TRUE)
              /\ UNCHANGED <<holders, pidsReused>>
              /\ \/ /\ Moves(p, "replace", gate[p].attempt)
                    /\ UNCHANGED <<refusal, transition, spoiled>>
                 \/ Fails(p, "write") /\ spoiled'
         /\ ReplaceOwner(p) =>
              /\ GateAt(p, "replace") /\ UNCHANGED <<pidsReused, spoiled>>
              /\ \/ /\ LeaseIsLeft(lease.dir, p, FALSE) /\ Moves(p, "up", 0)
                    /\ holders' = holders \cup {p} /\ transition' = noGateway
                    /\ refusal' = [refusal EXCEPT ![p] = "none"]
                 \/ /\ \/ LeaseIsLeft(lease.dir, lease.owner, FALSE)
                       \/ LeaseIsLeft(lease.dir, p, FALSE)
                    /\ Fails(p, "write") /\ UNCHANGED holders
<1>1. "replace" \in GateSites /\ "up" \in GateSites /\ "write" \in Refusals /\ 0 \in 0..2
  BY DEF GateSites, Refusals
<1>2. gate[p].attempt \in 0..2 BY DEF LeaseTypes
<1>3. WriteOwner(p) =>
        /\ GateAt(p, "write") /\ LeaseIsLeft(lease.dir, lease.owner, TRUE)
        /\ UNCHANGED <<holders, pidsReused>>
        /\ \/ /\ Moves(p, "replace", gate[p].attempt)
              /\ UNCHANGED <<refusal, transition, spoiled>>
           \/ Fails(p, "write") /\ spoiled'
  BY <1>1, <1>2, GatewayMoves, AcquireEnds, LeaseBecomes DEF WriteOwner
<1> QED
  BY <1>1, <1>2, <1>3, GatewayMoves, AcquireEnds, LeaseBecomes DEF ReplaceOwner

LEMMA ReleaseDoes ==
  ASSUME LeaseTypes, NEW p \in Gateways, ReleaseLease(p)
  PROVE  /\ UNCHANGED <<pidsReused, refusal, spoiled>>
         /\ \/ /\ GateAt(p, "leaving") /\ transition = noGateway /\ Keeps
               /\ \/ /\ lease.owner = p /\ Moves(p, "removing", gate[p].attempt)
                     /\ transition' = p /\ UNCHANGED holders
                  \/ /\ lease.owner # p /\ Moves(p, "idle", gate[p].attempt)
                     /\ holders' = holders \ {p} /\ UNCHANGED transition
            \/ /\ GateAt(p, "removing") /\ LeaseIsLeft(lease.dir, noGateway, lease.temp)
               /\ Moves(p, "closing", gate[p].attempt) /\ UNCHANGED <<holders, transition>>
            \/ /\ GateAt(p, "closing")
               /\ LeaseIsLeft(lease.owner # noGateway \/ lease.temp, lease.owner, lease.temp)
               /\ Moves(p, "idle", gate[p].attempt)
               /\ holders' = holders \ {p} /\ transition' = noGateway
<1>1. "removing" \in GateSites /\ "closing" \in GateSites /\ "idle" \in GateSites
  BY DEF GateSites
<1>2. gate[p].attempt \in 0..2 BY DEF LeaseTypes
<1> QED
  BY <1>1, <1>2, GatewayMoves, LeaseBecomes DEF ReleaseLease, MayEnter, Keeps

(* Each step keeps the invariant.                                          *)
LEMMA OthersAreOutside ==
  ASSUME LocksHold, NEW p \in Gateways, gate[p].at \in {"mkdir"} \cup Takes \cup Leaves
  PROVE  /\ transition = p
         /\ \A q \in Gateways : q # p => gate[q].at \notin {"mkdir"} \cup Takes \cup Leaves
  BY DEF LocksHold, LocksHoldFor

LEMMA GatewaysStartKeeps ==
  ASSUME LeaseInvariant, NEW p \in Gateways, StartGateway(p) \/ StopGateway(p) \/ EnterLock(p)
  PROVE  LeaseInvariant'
<1> USE LeaseAssumption
    DEF LeaseInvariant, Moves, LeaseIsLeft, Keeps, Fails, GateAt, Takes, Leaves
<1>1. LeaseTypes'
  BY GatewaysDo DEF LeaseTypes, Leases, StartGateway, StopGateway, EnterLock, MayEnter
<1>2. LocksHold' BY GatewaysDo
  DEF LeaseTypes, LocksHold, LocksHoldFor, StartGateway, StopGateway, EnterLock, MayEnter
<1>3. HoldersRun'
  <2>1. UNCHANGED <<lease, holders>> BY DEF StartGateway, StopGateway, EnterLock
  <2>2. \A q \in Gateways : gate'[q].at \in {"up", "leaving"} \cup Leaves
                            <=> gate[q].at \in {"up", "leaving"} \cup Leaves
    BY GatewaysDo
  <2>3. ~GateAt(p, "closing") /\ gate'[p].at # "closing" BY GatewaysDo
  <2> QED BY <2>1, <2>2, <2>3, GatewaysDo DEF HoldersRun
<1>4. LeaseIsKnown'
  BY GatewaysDo DEF LeaseTypes, LeaseIsKnown, LocksHold, LocksHoldFor, HoldersRun,
       StartGateway, StopGateway, EnterLock, MayEnter
<1>5. StuckStaysStuck'
  BY ZenonT(60), GatewaysDo DEF LeaseTypes, LeaseIsKnown, StuckStaysStuck, LocksHold, LocksHoldFor,
       StartGateway, StopGateway, EnterLock, MayEnter
<1> QED BY <1>1, <1>2, <1>3, <1>4, <1>5

LEMMA MakeDirectoryKeeps ==
  ASSUME LeaseInvariant, NEW p \in Gateways, MakeDirectory(p)
  PROVE  LeaseInvariant'
<1> USE LeaseAssumption
    DEF LeaseInvariant, Moves, LeaseIsLeft, Keeps, Fails, GateAt, Takes, Leaves
<1>1. LeaseTypes'
  BY MakeDirectoryDoes DEF LeaseTypes, Leases, PidAlive, GatewayAlive
<1>2. LocksHold'
  <2>1. transition = p BY MakeDirectoryDoes DEF LocksHold, LocksHoldFor
  <2>2. \A q \in holders : ~GateAt(q, "closing") /\ GatewayAlive(q)
    BY <2>1, MakeDirectoryDoes DEF LocksHold, LocksHoldFor, HoldersRun, LeaseTypes, GatewayAlive
  <2>3. ~lease.dir \/ ~PidAlive(lease.owner) => holders = {}
    BY <2>2 DEF HoldersRun, PidAlive, LeaseTypes
  <2>4. gate'[p].at \in Takes => holders = {}
    <3>0. Fails(p, "running") => gate'[p].at = "idle" OBVIOUS
    <3>1. gate'[p].at = "idle" \/ ~lease.dir \/ ~PidAlive(lease.owner)
      <4> HIDE DEF LeaseIsLeft, Keeps, Fails, Moves, LeaseInvariant
      <4>1. LeaseTypes BY DEF LeaseInvariant
      <4> QED BY <3>0, <4>1, MakeDirectoryDoes
    <3> QED BY <2>3, <3>1
  <2>5. UNCHANGED transition \/ (transition' = noGateway /\ gate'[p].at = "idle")
    BY MakeDirectoryDoes
  <2> QED
    BY <2>1, <2>4, <2>5, MakeDirectoryDoes DEF LeaseTypes, LocksHold, LocksHoldFor
<1>3. HoldersRun' BY MakeDirectoryDoes
  DEF LeaseTypes, HoldersRun, LocksHold, LocksHoldFor, LeaseIsKnown, PidAlive, GatewayAlive
<1>4. LeaseIsKnown' BY MakeDirectoryDoes
  DEF LeaseTypes, LeaseIsKnown, LocksHold, LocksHoldFor, HoldersRun, PidAlive, GatewayAlive
<1>5. StuckStaysStuck'
  <2>1. (lease'.temp <=> lease.temp) /\ UNCHANGED spoiled /\ gate'[p].at # "replace"
    BY MakeDirectoryDoes
  <2>2. \A q \in Gateways : ~GateAt(q, "replace") => gate'[q].at # "replace"
    BY <2>1, MakeDirectoryDoes
  <2>3. /\ \A q \in Gateways : q # p => refusal'[q] = refusal[q]
        /\ refusal'[p] \in {"running", refusal[p]}
    BY MakeDirectoryDoes
  <2> QED BY <2>1, <2>2, <2>3 DEF StuckStaysStuck
<1> QED BY <1>1, <1>2, <1>3, <1>4, <1>5

LEMMA TakeOverKeeps ==
  ASSUME LeaseInvariant, NEW p \in Gateways, TakeOver(p)
  PROVE  LeaseInvariant'
<1> USE LeaseAssumption
    DEF LeaseInvariant, Moves, LeaseIsLeft, Keeps, Fails, GateAt, Takes, Leaves
<1>1. LeaseTypes' BY TakeOverDoes DEF LeaseTypes, Leases
<1>2. LocksHold'
  <2>1. LocksHoldFor(p)'
    BY TakeOverDoes DEF LeaseTypes, LocksHold, LocksHoldFor, HoldersRun
  <2>2. ASSUME NEW q \in Gateways, q # p
        PROVE  LocksHoldFor(q)'
    BY <2>2, TakeOverDoes DEF LeaseTypes, LocksHold, LocksHoldFor
  <2> QED BY <2>1, <2>2 DEF LocksHold
<1>3. HoldersRun'
  <2>1. holders = {} /\ UNCHANGED holders
    BY TakeOverDoes DEF LocksHold, LocksHoldFor
  <2>2. gate'[p].at \in {"rmdir", "mkdir", "idle"} /\ gate[p].at \in {"unlink", "rmdir"}
    BY TakeOverDoes
  <2>3. \A q \in Gateways : q # p => gate'[q] = gate[q] BY TakeOverDoes
  <2> QED BY <2>1, <2>2, <2>3 DEF HoldersRun
<1>4. LeaseIsKnown'
  <2>1. \A q \in Gateways : q # p => gate'[q] = gate[q]
                                     /\ gate[q].at \notin {"mkdir"} \cup Takes \cup Leaves
    BY TakeOverDoes, OthersAreOutside
  <2>2. /\ lease'.owner = noGateway /\ (lease'.temp <=> lease.temp) /\ UNCHANGED spoiled
        /\ gate'[p].at \in {"rmdir", "mkdir", "idle"} /\ ~GateAt(p, "replace")
        /\ lease'.temp => lease'.dir
    BY TakeOverDoes DEF LeaseIsKnown
  <2>3. gate'[p].at = "rmdir" => lease'.dir /\ (gate'[p].attempt = 1 \/
                                  (gate'[p].attempt = 2 /\ (lease.dir => lease.temp)))
    BY TakeOverDoes DEF LeaseIsKnown
  <2>4. gate'[p].at = "mkdir" => gate'[p].attempt = 2 /\ (lease'.dir => lease'.temp)
    BY TakeOverDoes DEF LeaseIsKnown
  <2>5. lease'.dir => lease.dir BY TakeOverDoes DEF LeaseIsKnown
  <2> QED BY <2>1, <2>2, <2>3, <2>4, <2>5 DEF LeaseIsKnown
<1>5. StuckStaysStuck'
  <2>1. \A q \in Gateways : q # p => gate'[q] = gate[q] /\ ~GateAt(q, "replace")
    BY TakeOverDoes, OthersAreOutside
  <2>2. /\ (lease'.temp <=> lease.temp) /\ UNCHANGED spoiled
        /\ gate'[p].at # "replace" /\ ~GateAt(p, "replace")
    BY TakeOverDoes
  <2>3. refusal' = refusal \/ (GateAt(p, "rmdir") /\ gate[p].attempt # 1)
    BY TakeOverDoes
  <2>4. refusal' = refusal \/ lease.temp BY <2>3 DEF LeaseIsKnown
  <2> QED BY <2>1, <2>2, <2>4 DEF StuckStaysStuck, LeaseIsKnown
<1> QED BY <1>1, <1>2, <1>3, <1>4, <1>5

LEMMA WriteKeeps ==
  ASSUME LeaseInvariant, NEW p \in Gateways, WriteOwner(p) \/ ReplaceOwner(p)
  PROVE  LeaseInvariant'
<1> USE LeaseAssumption
    DEF LeaseInvariant, Moves, LeaseIsLeft, Keeps, Fails, GateAt, Takes, Leaves
<1>0. "none" \in Refusals BY DEF Refusals
<1>1. LeaseTypes' BY <1>0, WriteDoes DEF LeaseTypes, Leases
<1>2. LocksHold'
  <2>1. LocksHoldFor(p)'
    BY WriteDoes DEF LeaseTypes, LocksHold, LocksHoldFor, HoldersRun
  <2>2. ASSUME NEW q \in Gateways, q # p
        PROVE  LocksHoldFor(q)'
    BY <2>2, WriteDoes DEF LeaseTypes, LocksHold, LocksHoldFor
  <2> QED BY <2>1, <2>2 DEF LocksHold
<1>3. HoldersRun'
  BY SMTT(60), WriteDoes DEF LeaseTypes, HoldersRun, LocksHold, LocksHoldFor, LeaseIsKnown
<1>4. LeaseIsKnown'
  BY WriteDoes DEF LeaseTypes, LeaseIsKnown, LocksHold, LocksHoldFor, HoldersRun
<1>5. StuckStaysStuck'
  <2>1. ~\E q \in Gateways : refusal[q] = "could not be acquired"
    BY WriteDoes DEF StuckStaysStuck, LeaseIsKnown
  <2>2. \/ \A q \in Gateways : q # p => refusal'[q] = refusal[q]
        \/ UNCHANGED refusal
    BY WriteDoes DEF LeaseTypes
  <2>3. refusal'[p] \in {"write", "none", refusal[p]}
    BY WriteDoes DEF LeaseTypes
  <2>4. \A q \in Gateways : refusal'[q] # "could not be acquired"
    BY <2>1, <2>2, <2>3
  <2> QED BY <2>4 DEF StuckStaysStuck
<1> QED BY <1>1, <1>2, <1>3, <1>4, <1>5

LEMMA ReleaseKeeps ==
  ASSUME LeaseInvariant, NEW p \in Gateways, ReleaseLease(p)
  PROVE  LeaseInvariant'
<1> USE LeaseAssumption
    DEF LeaseInvariant, Moves, LeaseIsLeft, Keeps, Fails, GateAt, Takes, Leaves
<1>1. LeaseTypes' BY ReleaseDoes DEF LeaseTypes, Leases
<1>2. LocksHold'
  <2>1. LocksHoldFor(p)'
    BY ReleaseDoes DEF LeaseTypes, LocksHold, LocksHoldFor, HoldersRun
  <2>2. ASSUME NEW q \in Gateways, q # p
        PROVE  LocksHoldFor(q)'
    BY <2>2, ReleaseDoes DEF LeaseTypes, LocksHold, LocksHoldFor
  <2> QED BY <2>1, <2>2 DEF LocksHold
<1>3. HoldersRun'
  BY ReleaseDoes DEF LeaseTypes, HoldersRun, LocksHold, LocksHoldFor, LeaseIsKnown
<1>4. LeaseIsKnown'
  BY ReleaseDoes DEF LeaseTypes, LeaseIsKnown, LocksHold, LocksHoldFor, HoldersRun
<1>5. StuckStaysStuck'
  <2>1. (lease'.temp <=> lease.temp) /\ UNCHANGED <<spoiled, refusal>>
    BY ReleaseDoes
  <2>2. \A q \in Gateways : ~GateAt(q, "replace") => gate'[q].at # "replace"
    BY ReleaseDoes
  <2> QED BY <2>1, <2>2 DEF StuckStaysStuck
<1> QED BY <1>1, <1>2, <1>3, <1>4, <1>5

LEMMA DeathKeeps ==
  ASSUME LeaseInvariant, NEW p \in Gateways, Die(p) \/ PidTaken(p) \/ PidFreed(p)
  PROVE  LeaseInvariant'
<1> USE LeaseAssumption
    DEF LeaseInvariant, Moves, LeaseIsLeft, Keeps, Fails, GateAt, Takes, Leaves
<1>1. LeaseTypes' BY GatewaysDo DEF LeaseTypes, Leases, Die, PidTaken, PidFreed
<1>2. LocksHold'
  BY GatewaysDo DEF LeaseTypes, LocksHold, LocksHoldFor, Die, PidTaken, PidFreed
<1>3. HoldersRun'
  BY GatewaysDo DEF LeaseTypes, HoldersRun, LocksHold, LocksHoldFor, LeaseIsKnown, Die,
       PidTaken, PidFreed
<1>4. LeaseIsKnown'
  BY GatewaysDo DEF LeaseTypes, LeaseIsKnown, LocksHold, LocksHoldFor, HoldersRun, Die,
       PidTaken, PidFreed
<1>5. StuckStaysStuck'
  <2>1. UNCHANGED <<lease, refusal>> BY DEF Die, PidTaken, PidFreed
  <2>3. spoiled => spoiled' BY DEF Die, PidTaken, PidFreed
  <2>2. \A q \in Gateways : ~GateAt(q, "replace") => gate'[q].at # "replace"
    BY GatewaysDo DEF Die, PidTaken, PidFreed
  <2> QED BY <2>1, <2>2, <2>3 DEF StuckStaysStuck
<1> QED BY <1>1, <1>2, <1>3, <1>4, <1>5

LEMMA LeaseInvariantIsSound ==
  ASSUME LeaseInvariant
  PROVE  LeaseIsSound
<1> USE DEF LeaseInvariant
<1>1. \A p, q \in holders : p = q
  BY LeaseAssumption DEF HoldersRun, LocksHold, LocksHoldFor, GateAt, LeaseTypes
<1>2. Cardinality(holders) <= 1
  <2>1. CASE holders = {} BY <2>1, FS_EmptySet
  <2>2. CASE holders # {}
    <3>0. PICK p : p \in holders BY <2>2
    <3>1. holders = {p} BY <1>1, <3>0
    <3> QED BY <3>1, FS_Singleton
  <2> QED BY <2>1, <2>2
<1>3. \A p \in holders : GatewayAlive(p) BY DEF HoldersRun, GatewayAlive, Leaves
<1> QED
  BY <1>2, <1>3 DEF LeaseIsSound, OneGateway, LeaseIsRecoverable, HoldersRun, StuckStaysStuck

(* No two gateways run on a state directory, the lease names the one that  *)
(* does, and it stays untakeable only behind a replacement of the owner    *)
(* file that was broken off, whoever dies between any two file operations. *)
THEOREM OneGatewayHolds ==
  LeaseInit /\ [][LeaseNext]_leaseVars => []LeaseIsSound
<1>1. LeaseInvariant /\ [LeaseNext]_leaseVars => LeaseInvariant'
  <2> SUFFICES ASSUME LeaseInvariant, [LeaseNext]_leaseVars
               PROVE  LeaseInvariant'
    OBVIOUS
  <2>1. CASE UNCHANGED leaseVars
    BY <2>1 DEF LeaseInvariant, leaseVars, LeaseTypes, LocksHold, LocksHoldFor, HoldersRun,
         LeaseIsKnown,
                StuckStaysStuck, GateAt
  <2>2. CASE LeaseNext
    BY <2>2, GatewaysStartKeeps, MakeDirectoryKeeps, TakeOverKeeps, WriteKeeps, ReleaseKeeps,
       DeathKeeps DEF LeaseNext
  <2> QED BY <2>1, <2>2
<1> QED BY <1>1, LeaseStarts, LeaseInvariantIsSound, PTL

-----------------------------------------------------------------------------
(* The pilot.  The directory "execution" is the only thing that keeps a    *)
(* second start out, so all that a start finds is tied to it; and what a   *)
(* run leaves behind is read off its position.                             *)

Stages == {"idle", "plan", "next", "run", "sent"}
PilotEvents == {"started", "plan_frozen", "trial_started", "trial_completed", "completed",
                "failed"}
PilotNotes == [kind : PilotEvents, trial : 0..ReservedTrials, frozen : BOOLEAN]
Endings == Noted("completed") \cup Noted("failed")

PilotShape ==
  /\ PilotTypes /\ pilotAt \in Stages /\ fence \in BOOLEAN /\ drifted \in BOOLEAN
  /\ pilotLedger \in Seq(PilotNotes) /\ sends \in [PilotTrials -> Nat]
  /\ IsFiniteSet(receipts)

NothingBeforeTheFence ==
  ~fence => /\ pilotAt = "idle" /\ pilotLedger = <<>> /\ attempted = 0 /\ receipts = {}
            /\ \A t \in PilotTrials : sends[t] = 0

OneStory ==
  /\ Noted("started") \subseteq {1}
  /\ pilotAt # "idle" => Endings = {}
  /\ \E n \in 0..Len(pilotLedger) : Endings \subseteq {n}
  /\ \A n \in Noted("failed") : pilotLedger[n].trial = attempted
  /\ Cardinality(Noted("trial_started")) = attempted
  /\ \A t \in 1..attempted : \E n \in Noted("trial_started") : pilotLedger[n].trial = t
  /\ \A n \in Noted("trial_started") \cup Noted("completed") : pilotLedger[n].frozen

SentOnce ==
  \A t \in PilotTrials :
    /\ sends[t] <= 1
    /\ t > attempted => sends[t] = 0
    /\ t = attempted /\ pilotAt = "run" => sends[t] = 0

\* The trials of a run that goes on, or went through, that are over.
Over == IF pilotAt \in {"run", "sent"} THEN attempted - 1 ELSE attempted
OverIsGood ==
  /\ pilotAt = "plan" => attempted = 0
  /\ pilotAt \in {"run", "sent"} => attempted # 0
  /\ pilotAt # "idle" \/ Noted("completed") # {} =>
       /\ knownCost <= PilotCap /\ Cardinality(receipts) = Over
       /\ \A t \in 1..Over : \E row \in receipts : row.trial = t /\ AcceptableTrial(row)
       /\ \A row \in receipts : row.trial \in 1..Over
  /\ Noted("completed") # {} => attempted = ReservedTrials

PilotInvariant ==
  /\ PilotShape /\ NothingBeforeTheFence /\ OneStory /\ SentOnce /\ OverIsGood

(* What each event on record is, and when: the ledger only grows.          *)
Noting(kind, trial) ==
  /\ pilotLedger' \in Seq(PilotNotes)
  /\ Len(pilotLedger) \in Nat /\ Len(pilotLedger') = Len(pilotLedger) + 1
  /\ \A n \in 1..Len(pilotLedger) : pilotLedger'[n] = pilotLedger[n]
  /\ pilotLedger'[Len(pilotLedger) + 1] = [kind |-> kind, trial |-> trial, frozen |-> ~drifted]

LEMMA EventIsNoted ==
  ASSUME PilotShape, NEW kind \in PilotEvents, NEW trial \in 0..ReservedTrials, Note(kind, trial)
  PROVE  Noting(kind, trial)
<1> DEFINE event == [kind |-> kind, trial |-> trial, frozen |-> ~drifted]
<1>1. event \in PilotNotes BY DEF PilotShape, PilotNotes
<1>2. pilotLedger \in Seq(PilotNotes) /\ pilotLedger' = Append(pilotLedger, event)
  BY DEF PilotShape, Note
<1>3. pilotLedger' \in Seq(PilotNotes)
  <2> HIDE DEF event
  <2> QED BY <1>1, <1>2
<1>4. /\ Len(pilotLedger) \in Nat /\ Len(pilotLedger') = Len(pilotLedger) + 1
      /\ \A n \in 1..Len(pilotLedger) : pilotLedger'[n] = pilotLedger[n]
      /\ pilotLedger'[Len(pilotLedger) + 1] = event
  <2> HIDE DEF event
  <2> QED BY <1>1, <1>2
<1> QED BY <1>3, <1>4 DEF Noting

LEMMA NotedEvents ==
  ASSUME NEW kind, NEW trial, Noting(kind, trial), NEW k
  PROVE  /\ Noted(k)' = IF k = kind THEN Noted(k) \cup {Len(pilotLedger) + 1} ELSE Noted(k)
         /\ Noted(k) \subseteq 1..Len(pilotLedger) /\ Len(pilotLedger) + 1 \notin Noted(k)
         /\ IsFiniteSet(Noted(k))
<1>1. /\ Noted(k)' = {n \in 1..Len(pilotLedger) + 1 : pilotLedger'[n].kind = k}
      /\ Noted(k) \subseteq 1..Len(pilotLedger) /\ Len(pilotLedger) \in Nat
  BY DEF Noted, Noting
<1>2. ASSUME NEW n \in 1..Len(pilotLedger) + 1
      PROVE  pilotLedger'[n].kind = IF n \in 1..Len(pilotLedger) THEN pilotLedger[n].kind ELSE kind
  <2>1. CASE n \in 1..Len(pilotLedger) BY <2>1 DEF Noting
  <2>2. CASE n = Len(pilotLedger) + 1 BY <1>1, <2>2 DEF Noting
  <2> QED BY <1>1, <2>1, <2>2
<1>3. Noted(k)' = IF k = kind THEN Noted(k) \cup {Len(pilotLedger) + 1} ELSE Noted(k)
  BY <1>1, <1>2 DEF Noted
<1>4. IsFiniteSet(Noted(k))
  <2>1. IsFiniteSet(1..Len(pilotLedger)) BY <1>1, FS_Interval
  <2> QED BY <1>1, <2>1, FS_Subset
<1> QED BY <1>1, <1>3, <1>4

LEMMA PilotBegins ==
  ASSUME PilotInit
  PROVE  PilotInvariant
<1>1. ReservedTrials \in Nat BY PilotAssumption DEF ReservedTrials
<1>2. \A k : Noted(k) = {} BY DEF PilotInit, Noted
<1>3. IsFiniteSet({}) /\ Cardinality({}) = 0 BY FS_EmptySet
<1>4. PilotShape
  <2>1. PilotTypes /\ pilotAt \in Stages
    BY <1>1, PilotAssumption DEF PilotInit, PilotTypes, Stages
  <2>2. sends \in [PilotTrials -> Nat] BY DEF PilotInit
  <2>3. pilotLedger \in Seq(PilotNotes) BY DEF PilotInit
  <2> QED BY <1>3, <2>1, <2>2, <2>3 DEF PilotInit, PilotShape
<1>5. OneStory BY <1>2, <1>3 DEF PilotInit, OneStory, Endings
<1> QED
  BY <1>1, <1>2, <1>4, <1>5 DEF PilotInit, PilotInvariant, NothingBeforeTheFence, SentOnce,
     OverIsGood, PilotTrials

LEMMA NothingIsNoted ==
  ASSUME UNCHANGED pilotLedger
  PROVE  /\ \A k : Noted(k)' = Noted(k)
         /\ Endings' = Endings
BY DEF Noted, Endings

(* However a run fails: that is the last of it.                            *)
LEMMA FailureIsLast ==
  ASSUME PilotInvariant, FailPilot, pilotAt # "idle", IsFiniteSet(receipts'),
         UNCHANGED <<drifted, fence, attempted, sends>>
  PROVE  PilotInvariant'
<1>1. /\ attempted \in 0..ReservedTrials /\ pilotAt' = "idle" /\ pilotLock' = noOperator
      /\ noOperator \notin Operators
  BY PilotAssumption DEF PilotInvariant, PilotShape, PilotTypes, FailPilot
<1>2. Noting("failed", attempted)
  BY <1>1, EventIsNoted DEF PilotInvariant, FailPilot, PilotEvents
<1>3. /\ \A k : Noted(k)' = IF k = "failed" THEN Noted(k) \cup {Len(pilotLedger) + 1} ELSE Noted(k)
      /\ \A k : Noted(k) \subseteq 1..Len(pilotLedger)
  BY <1>2, NotedEvents
<1>4. Endings = {} /\ Noted("failed") = {} /\ Noted("completed") = {}
  BY DEF PilotInvariant, OneStory, Endings
<1>5. PilotShape'
  BY <1>1, <1>2 DEF PilotInvariant, PilotShape, PilotTypes, Stages, Noting, ReservedTrials,
     PilotTrials, PilotNotes
<1>6. Noted("failed")' = {Len(pilotLedger) + 1} /\ Endings' = {Len(pilotLedger) + 1}
  BY <1>3, <1>4 DEF Endings
<1>7. /\ Noted("started")' = Noted("started") /\ Noted("trial_started")' = Noted("trial_started")
      /\ Noted("completed")' = {} /\ Noted("trial_started") \subseteq 1..Len(pilotLedger)
  BY <1>3, <1>4
<1>8. OneStory'
  <2>1. \E n \in 0..Len(pilotLedger') : Endings' \subseteq {n}
    BY <1>2, <1>6 DEF Noting
  <2>2. \A n \in Noted("failed")' : pilotLedger'[n].trial = attempted'
    BY <1>2, <1>6 DEF Noting
  <2>3. \A t \in 1..attempted' : \E n \in Noted("trial_started")' : pilotLedger'[n].trial = t
    BY <1>2, <1>7 DEF Noting, PilotInvariant, OneStory
  <2>4. \A n \in Noted("trial_started")' \cup Noted("completed")' : pilotLedger'[n].frozen
    BY <1>2, <1>7 DEF Noting, PilotInvariant, OneStory
  <2> QED BY <1>1, <1>7, <2>1, <2>2, <2>3, <2>4 DEF OneStory, PilotInvariant
<1>9. SentOnce' /\ OverIsGood' /\ NothingBeforeTheFence' BY <1>1, <1>7, <1>4
  DEF PilotInvariant, NothingBeforeTheFence, SentOnce, OverIsGood, PilotTrials,
     ReservedTrials
<1> QED BY <1>5, <1>8, <1>9 DEF PilotInvariant

(* The events of a run that goes on.  A start is the first.                *)
LEMMA StartIsFirst ==
  ASSUME PilotInvariant, NEW o \in Operators, StartPilot(o)
  PROVE  PilotInvariant'
<1>1. /\ ~fence /\ pilotLedger = <<>> /\ receipts = {} /\ \A t \in PilotTrials : sends[t] = 0
      /\ attempted' = 0 /\ pilotAt' = "plan" /\ pilotLock' = o /\ fence' = TRUE /\ knownCost' = 0
      /\ UNCHANGED <<drifted, receipts, sends>> /\ ~drifted /\ Note("started", 0)
  BY DEF PilotInvariant, NothingBeforeTheFence, StartPilot, Fenced
<1>2. ReservedTrials \in Nat /\ noOperator \notin Operators /\ PilotCap \in Nat
  BY PilotAssumption DEF ReservedTrials
<1>3. Noting("started", 0)
  BY <1>1, <1>2, EventIsNoted DEF PilotInvariant, PilotEvents
<1>4. \A k : Noted(k)' = IF k = "started" THEN {1} ELSE {}
  <2>1. Len(pilotLedger) = 0 /\ \A k : Noted(k) = {} BY <1>1 DEF Noted
  <2> QED BY <1>3, <2>1, NotedEvents
<1>5. PilotShape' BY <1>1, <1>2, <1>3
  DEF PilotInvariant, PilotShape, PilotTypes, Stages, Noting, ReservedTrials,
     PilotTrials, PilotNotes
<1>6. OneStory'
  <2>1. Endings' = {} /\ Noted("trial_started")' = {} /\ Noted("started")' = {1}
    BY <1>4 DEF Endings
  <2>2. Noted("failed")' = {} /\ Noted("completed")' = {} BY <1>4
  <2>3. Cardinality({}) = 0 /\ 0 \in 0..Len(pilotLedger')
    BY <1>3, FS_EmptySet DEF Noting
  <2>4. Cardinality(Noted("trial_started")') = attempted' BY <1>1, <2>1, <2>3
  <2>5. \E n \in 0..Len(pilotLedger') : Endings' \subseteq {n} BY <2>1, <2>3
  <2> QED BY <1>1, <2>1, <2>2, <2>4, <2>5 DEF OneStory
<1>7. OverIsGood'
  <2>1. Over' = 0 /\ Cardinality(receipts') = 0 /\ Noted("completed")' = {}
    BY <1>1, <1>4, FS_EmptySet DEF Over
  <2> QED BY <1>1, <1>2, <2>1 DEF OverIsGood
<1>8. SentOnce' /\ NothingBeforeTheFence'
  BY <1>1, <1>2 DEF SentOnce, NothingBeforeTheFence, PilotTrials, ReservedTrials
<1> QED BY <1>5, <1>6, <1>7, <1>8 DEF PilotInvariant

\* Of a run that goes on: an event that neither starts a trial nor ends it.
LEMMA RunGoesOn ==
  ASSUME PilotInvariant, pilotAt # "idle", pilotAt' # "idle", pilotAt' \in Stages,
         NEW kind \in {"plan_frozen", "trial_completed"}, NEW trial \in 0..ReservedTrials,
         Note(kind, trial), IsFiniteSet(receipts'),
         UNCHANGED <<drifted, fence, pilotLock, attempted, sends>>
  PROVE  /\ PilotShape' /\ NothingBeforeTheFence' /\ OneStory'
         /\ Noted("completed")' = {}
<1>1. Noting(kind, trial) BY EventIsNoted DEF PilotInvariant, PilotEvents
<1>2. /\ \A k : Noted(k)' = IF k = kind THEN Noted(k) \cup {Len(pilotLedger) + 1} ELSE Noted(k)
      /\ \A k : Noted(k) \subseteq 1..Len(pilotLedger)
  BY <1>1, NotedEvents
<1>3. /\ Noted("started")' = Noted("started") /\ Noted("failed")' = Noted("failed")
      /\ Noted("trial_started")' = Noted("trial_started")
      /\ Noted("completed")' = Noted("completed") /\ Endings' = Endings
      /\ Noted("trial_started") \subseteq 1..Len(pilotLedger)
  BY <1>2 DEF Endings
<1>4. Endings = {} /\ Noted("failed") = {} /\ Noted("completed") = {}
  BY DEF PilotInvariant, OneStory, Endings
<1>5. PilotShape'
  BY <1>1 DEF PilotInvariant, PilotShape, PilotTypes, Noting, ReservedTrials, PilotTrials,
     PilotNotes
<1>6. OneStory'
  <2>1. 0 \in 0..Len(pilotLedger') BY <1>1 DEF Noting
  <2>2. \A t \in 1..attempted' : \E n \in Noted("trial_started")' : pilotLedger'[n].trial = t
    BY <1>1, <1>3 DEF Noting, PilotInvariant, OneStory
  <2>3. \A n \in Noted("trial_started")' : pilotLedger'[n].frozen
    BY <1>1, <1>3 DEF Noting, PilotInvariant, OneStory
  <2> QED BY <1>3, <1>4, <2>1, <2>2, <2>3 DEF OneStory, PilotInvariant
<1> QED BY <1>3, <1>4, <1>5, <1>6 DEF PilotInvariant, NothingBeforeTheFence

LEMMA PlanIsFrozen ==
  ASSUME PilotInvariant, FreezePlan
  PROVE  PilotInvariant'
<1>1. pilotAt = "plan" /\ IsFiniteSet(receipts') /\ ReservedTrials \in Nat
      /\ UNCHANGED <<drifted, fence, attempted, knownCost, receipts, sends>>
  BY PilotAssumption DEF FreezePlan, PilotInvariant, PilotShape, ReservedTrials
<1>2. CASE Note("plan_frozen", 0) /\ pilotAt' = "next" /\ UNCHANGED pilotLock
  <2>1. /\ PilotShape' /\ NothingBeforeTheFence' /\ OneStory' /\ Noted("completed")' = {}
    BY <1>1, <1>2, RunGoesOn DEF Stages
  <2>2. attempted = 0 /\ Over = 0 /\ Over' = 0
    BY <1>1, <1>2 DEF PilotInvariant, OverIsGood, Over
  <2>3. OverIsGood' /\ SentOnce' BY <1>1, <1>2, <2>1, <2>2
    DEF PilotInvariant, OverIsGood, SentOnce, PilotTrials, ReservedTrials,
       AcceptableTrial
  <2> QED BY <2>1, <2>3 DEF PilotInvariant
<1>3. CASE FailPilot BY <1>1, <1>3, FailureIsLast
<1> QED BY <1>2, <1>3 DEF FreezePlan

LEMMA TrialIsStarted ==
  ASSUME PilotInvariant, StartTrial
  PROVE  PilotInvariant'
<1>1. /\ pilotAt = "next" /\ attempted \in 0..ReservedTrials /\ attempted < ReservedTrials
      /\ ReservedTrials \in Nat /\ IsFiniteSet(receipts')
      /\ UNCHANGED <<drifted, fence, knownCost, receipts, sends>>
  BY PilotAssumption DEF StartTrial, PilotInvariant, PilotShape, PilotTypes, ReservedTrials
<1>2. CASE ~StillFrozen BY <1>1, <1>2, FailureIsLast DEF StartTrial
<1>3. CASE StillFrozen
  <2>1. /\ Note("trial_started", attempted + 1) /\ attempted' = attempted + 1
        /\ pilotAt' = "run" /\ ~drifted /\ UNCHANGED pilotLock
    BY <1>3 DEF StartTrial, StillFrozen
  <2>2. Noting("trial_started", attempted + 1)
    BY <1>1, <2>1, EventIsNoted DEF PilotInvariant, PilotEvents
  <2>3. /\ \A k : Noted(k)' = IF k = "trial_started" THEN Noted(k) \cup {Len(pilotLedger) + 1}
                              ELSE Noted(k)
        /\ \A k : /\ Noted(k) \subseteq 1..Len(pilotLedger) /\ IsFiniteSet(Noted(k))
                  /\ Len(pilotLedger) + 1 \notin Noted(k)
    BY <2>2, NotedEvents
  <2>4. Endings = {} /\ Noted("failed") = {} /\ Noted("completed") = {}
    BY <1>1 DEF PilotInvariant, OneStory, Endings
  <2>5. /\ Noted("started")' = Noted("started") /\ Noted("failed")' = {}
        /\ Noted("completed")' = {} /\ Endings' = {}
        /\ Noted("trial_started")' = Noted("trial_started") \cup {Len(pilotLedger) + 1}
        /\ Noted("trial_started") \subseteq 1..Len(pilotLedger)
    BY <2>3, <2>4 DEF Endings
  <2>6. PilotShape'
    BY <1>1, <2>1, <2>2 DEF PilotInvariant, PilotShape, PilotTypes, Noting, ReservedTrials,
       PilotTrials, PilotNotes, Stages
  <2>7. Cardinality(Noted("trial_started")') = attempted + 1
    <3>1. Cardinality(Noted("trial_started")) = attempted
      BY <1>1 DEF PilotInvariant, OneStory
    <3>2. /\ IsFiniteSet(Noted("trial_started"))
          /\ Len(pilotLedger) + 1 \notin Noted("trial_started")
      BY <2>3
    <3>3. Cardinality(Noted("trial_started") \cup {Len(pilotLedger) + 1})
            = Cardinality(Noted("trial_started")) + 1
      BY <3>2, FS_AddElement
    <3> QED BY <2>5, <3>1, <3>3
  <2>8. OneStory'
    <3>1. 0 \in 0..Len(pilotLedger') BY <2>2 DEF Noting
    <3>2. ASSUME NEW t \in 1..attempted'
          PROVE  \E n \in Noted("trial_started")' : pilotLedger'[n].trial = t
      <4>1. CASE t \in 1..attempted
        BY <2>2, <2>5, <4>1 DEF Noting, PilotInvariant, OneStory
      <4>2. CASE t = attempted + 1 BY <2>2, <2>5, <4>2 DEF Noting
      <4> QED BY <1>1, <2>1, <4>1, <4>2
    <3>3. ASSUME NEW n \in Noted("trial_started")'
          PROVE  pilotLedger'[n].frozen
      <4>1. CASE n \in Noted("trial_started")
        BY <2>2, <2>5, <4>1 DEF Noting, PilotInvariant, OneStory
      <4>2. CASE n = Len(pilotLedger) + 1
        <5>1. pilotLedger'[n].frozen = ~drifted BY <2>2, <4>2 DEF Noting
        <5> QED BY <2>1, <5>1
      <4> QED BY <2>5, <4>1, <4>2
    <3> QED BY <2>1, <2>5, <2>7, <3>1, <3>2, <3>3 DEF OneStory, PilotInvariant
  <2>9. OverIsGood' /\ SentOnce' /\ NothingBeforeTheFence'
    <3>1. Over' = Over /\ attempted' # 0 BY <1>1, <2>1 DEF Over
    <3>2. OverIsGood'
      BY <1>1, <2>1, <2>5, <3>1 DEF PilotInvariant, OverIsGood, AcceptableTrial
    <3>3. SentOnce'
      BY <1>1, <2>1 DEF PilotInvariant, SentOnce, PilotTrials, ReservedTrials
    <3> QED BY <1>1, <3>2, <3>3 DEF PilotInvariant, NothingBeforeTheFence
  <2> QED BY <2>6, <2>8, <2>9 DEF PilotInvariant
<1> QED BY <1>2, <1>3

LEMMA TrialIsOver ==
  ASSUME PilotInvariant, TrialReturns
  PROVE  PilotInvariant'
<1>1. /\ pilotAt = "sent" /\ attempted \in 0..ReservedTrials /\ attempted # 0
      /\ ReservedTrials \in Nat /\ IsFiniteSet(receipts)
      /\ UNCHANGED <<drifted, fence, attempted, sends>>
  BY PilotAssumption
     DEF TrialReturns, PilotInvariant, PilotShape, PilotTypes, ReservedTrials, OverIsGood
<1>2. CASE FailPilot /\ UNCHANGED <<knownCost, receipts>>
  BY <1>1, <1>2, FailureIsLast
<1>3. CASE ~(FailPilot /\ UNCHANGED <<knownCost, receipts>>)
  <2>1. PICK status \in {"completed", "failed"}, cost \in Prices \cup {unpriced},
             passed \in BOOLEAN :
          LET row == [trial |-> attempted, status |-> status, cost |-> cost, passed |-> passed]
              total == knownCost + (IF cost = unpriced THEN 0 ELSE cost)
          IN /\ receipts' = receipts \cup {row} /\ knownCost' = total
             /\ IF AcceptableTrial(row) /\ total <= PilotCap
                  THEN /\ Note("trial_completed", attempted) /\ pilotAt' = "next"
                       /\ UNCHANGED pilotLock
                  ELSE FailPilot
    BY <1>3 DEF TrialReturns
  <2> DEFINE row == [trial |-> attempted, status |-> status, cost |-> cost, passed |-> passed]
  <2>2. receipts' = receipts \cup {row} /\ row.trial = attempted /\ IsFiniteSet(receipts')
    BY <1>1, <2>1, FS_AddElement
  <2>3. CASE FailPilot BY <1>1, <2>2, <2>3, FailureIsLast
  <2>4. CASE ~FailPilot
    <3>1. /\ AcceptableTrial(row) /\ knownCost' <= PilotCap
          /\ Note("trial_completed", attempted) /\ pilotAt' = "next" /\ UNCHANGED pilotLock
      BY <2>1, <2>4
    <3>2. /\ PilotShape' /\ NothingBeforeTheFence' /\ OneStory' /\ Noted("completed")' = {}
      BY <1>1, <2>2, <3>1, RunGoesOn DEF Stages
    <3>3. /\ Over = attempted - 1 /\ Over' = attempted /\ Cardinality(receipts) = attempted - 1
          /\ \A t \in 1..Over : \E r \in receipts : r.trial = t /\ AcceptableTrial(r)
          /\ \A r \in receipts : r.trial \in 1..Over
      BY <1>1, <3>1 DEF PilotInvariant, OverIsGood, Over
    <3>4. row \notin receipts BY <1>1, <2>2, <3>3
    <3> HIDE DEF row
    <3>5. Cardinality(receipts') = attempted
      BY <1>1, <2>2, <3>3, <3>4, FS_AddElement
    <3>6. ASSUME NEW t \in 1..attempted
          PROVE  \E r \in receipts' : r.trial = t /\ AcceptableTrial(r)
      <4>1. CASE t = attempted BY <2>2, <3>1, <4>1
      <4>2. CASE t \in 1..Over BY <2>2, <3>3, <4>2
      <4> QED BY <1>1, <3>3, <4>1, <4>2
    <3>7. \A r \in receipts' : r.trial \in 1..attempted BY <1>1, <2>2, <3>3
    <3>8. OverIsGood'
      BY <1>1, <3>1, <3>2, <3>3, <3>5, <3>6, <3>7 DEF OverIsGood, AcceptableTrial
    <3>9. SentOnce'
      BY <1>1, <3>1 DEF PilotInvariant, SentOnce, PilotTrials, ReservedTrials
    <3> QED BY <3>2, <3>8, <3>9 DEF PilotInvariant
  <2> QED BY <2>3, <2>4
<1> QED BY <1>2, <1>3

LEMMA PilotIsCompleted ==
  ASSUME PilotInvariant, CompletePilot
  PROVE  PilotInvariant'
<1>1. /\ pilotAt = "next" /\ attempted = ReservedTrials /\ ReservedTrials \in Nat
      /\ IsFiniteSet(receipts') /\ noOperator \notin Operators
      /\ UNCHANGED <<drifted, fence, attempted, knownCost, receipts, sends>>
  BY PilotAssumption DEF CompletePilot, PilotInvariant, PilotShape, ReservedTrials
<1>2. CASE ~StillFrozen BY <1>1, <1>2, FailureIsLast DEF CompletePilot
<1>3. CASE StillFrozen
  <2>1. /\ Note("completed", attempted) /\ pilotAt' = "idle" /\ pilotLock' = noOperator /\ ~drifted
    BY <1>3 DEF CompletePilot, StillFrozen
  <2>2. Noting("completed", attempted)
    BY <1>1, <2>1, EventIsNoted DEF PilotInvariant, PilotEvents
  <2>3. /\ \A k : Noted(k)' = IF k = "completed" THEN Noted(k) \cup {Len(pilotLedger) + 1}
                              ELSE Noted(k)
        /\ \A k : Noted(k) \subseteq 1..Len(pilotLedger)
    BY <2>2, NotedEvents
  <2>4. Endings = {} /\ Noted("failed") = {} /\ Noted("completed") = {}
    BY <1>1 DEF PilotInvariant, OneStory, Endings
  <2>5. /\ Noted("started")' = Noted("started") /\ Noted("failed")' = {}
        /\ Noted("completed")' = {Len(pilotLedger) + 1} /\ Endings' = {Len(pilotLedger) + 1}
        /\ Noted("trial_started")' = Noted("trial_started")
        /\ Noted("trial_started") \subseteq 1..Len(pilotLedger)
    BY <2>3, <2>4 DEF Endings
  <2>6. PilotShape'
    BY <1>1, <2>1, <2>2 DEF PilotInvariant, PilotShape, PilotTypes, Noting, ReservedTrials,
       PilotTrials, PilotNotes, Stages
  <2>7. OneStory'
    <3>1. \E n \in 0..Len(pilotLedger') : Endings' \subseteq {n}
      BY <2>2, <2>5 DEF Noting
    <3>2. \A t \in 1..attempted' : \E n \in Noted("trial_started")' : pilotLedger'[n].trial = t
      BY <1>1, <2>2, <2>5 DEF Noting, PilotInvariant, OneStory
    <3>3. \A n \in Noted("trial_started")' : pilotLedger'[n].frozen
      BY <2>2, <2>5 DEF Noting, PilotInvariant, OneStory
    <3>4. \A n \in Noted("completed")' : pilotLedger'[n].frozen
      <4>1. pilotLedger'[Len(pilotLedger) + 1].frozen = ~drifted
        BY <2>2 DEF Noting
      <4> QED BY <2>1, <2>5, <4>1
    <3> QED
      BY <1>1, <2>1, <2>5, <3>1, <3>2, <3>3, <3>4 DEF OneStory, PilotInvariant
  <2>8. OverIsGood' /\ SentOnce' /\ NothingBeforeTheFence'
    <3>1. Over' = Over BY <1>1, <2>1 DEF Over
    <3>2. OverIsGood'
      BY <1>1, <2>1, <3>1 DEF PilotInvariant, OverIsGood, AcceptableTrial
    <3>3. fence BY <1>1 DEF PilotInvariant, NothingBeforeTheFence
    <3> QED BY <1>1, <2>1, <3>2, <3>3
      DEF PilotInvariant, NothingBeforeTheFence, SentOnce, PilotTrials,
         ReservedTrials
  <2> QED BY <2>6, <2>7, <2>8 DEF PilotInvariant
<1> QED BY <1>2, <1>3

LEMMA UnrecordedSteps ==
  ASSUME PilotInvariant, SendTrial \/ PilotDies \/ Drift \/ UNCHANGED pilotVars
  PROVE  PilotInvariant'
<1>1. /\ UNCHANGED <<fence, attempted, receipts, pilotLedger, knownCost>>
      /\ \A k : Noted(k)' = Noted(k) /\ Endings' = Endings
      /\ attempted \in 0..ReservedTrials /\ ReservedTrials \in Nat /\ noOperator \notin Operators
  BY PilotAssumption, NothingIsNoted DEF SendTrial, PilotDies, Drift, pilotVars, PilotInvariant,
     PilotShape, PilotTypes, ReservedTrials
<1>2. CASE SendTrial
  <2>1. /\ pilotAt = "run" /\ pilotAt' = "sent" /\ sends' = [sends EXCEPT ![attempted] = @ + 1]
        /\ UNCHANGED <<drifted, pilotLock>> /\ attempted \in PilotTrials
    BY <1>1, <1>2 DEF SendTrial, PilotInvariant, OverIsGood, PilotTrials
  <2>2. PilotShape' /\ SentOnce'
    <3>1. sends \in [PilotTrials -> Nat] BY DEF PilotInvariant, PilotShape
    <3>2. /\ sends' \in [PilotTrials -> Nat] /\ sends'[attempted] = sends[attempted] + 1
          /\ \A t \in PilotTrials : t # attempted => sends'[t] = sends[t]
      BY <2>1, <3>1
    <3>3. SentOnce'
      BY <1>1, <2>1, <3>1, <3>2 DEF PilotInvariant, SentOnce, PilotTrials, ReservedTrials
    <3> QED BY <1>1, <2>1, <3>2, <3>3
         DEF PilotInvariant, PilotShape, PilotTypes, Stages, PilotTrials, ReservedTrials,
             PilotNotes
  <2>3. OneStory' /\ NothingBeforeTheFence'
    BY <1>1, <2>1 DEF PilotInvariant, OneStory, NothingBeforeTheFence
  <2>4. OverIsGood'
    <3>1. Over' = Over BY <1>1, <2>1 DEF Over
    <3> QED BY <1>1, <2>1, <3>1 DEF PilotInvariant, OverIsGood, AcceptableTrial
  <2> QED BY <2>2, <2>3, <2>4 DEF PilotInvariant
<1>3. CASE PilotDies
  <2>1. pilotAt # "idle" /\ pilotAt' = "idle" /\ pilotLock' = noOperator
        /\ UNCHANGED <<drifted, sends>>
    BY <1>3 DEF PilotDies
  <2>2. Noted("completed") = {} /\ Noted("failed") = {} /\ fence
    BY <2>1 DEF PilotInvariant, OneStory, Endings, NothingBeforeTheFence
  <2>3. PilotShape' BY <1>1, <2>1
    DEF PilotInvariant, PilotShape, PilotTypes, Stages, PilotTrials, ReservedTrials,
       PilotNotes
  <2>4. OneStory' /\ OverIsGood' /\ NothingBeforeTheFence'
    BY <1>1, <2>1, <2>2 DEF PilotInvariant, OneStory, NothingBeforeTheFence, OverIsGood
  <2>5. SentOnce'
    BY <1>1, <2>1 DEF PilotInvariant, SentOnce, PilotTrials, ReservedTrials
  <2> QED BY <2>3, <2>4, <2>5 DEF PilotInvariant
<1>4. CASE Drift \/ UNCHANGED pilotVars
  <2>1. UNCHANGED <<pilotAt, pilotLock, sends>> /\ drifted' \in BOOLEAN
    BY <1>4 DEF Drift, pilotVars, PilotInvariant, PilotShape
  <2>2. Over' = Over BY <1>1, <2>1 DEF Over
  <2>3. PilotShape' BY <1>1, <2>1
    DEF PilotInvariant, PilotShape, PilotTypes, Stages, PilotTrials, ReservedTrials,
       PilotNotes
  <2>4. OneStory' /\ OverIsGood' /\ NothingBeforeTheFence' /\ SentOnce'
    BY <1>1, <2>1, <2>2
    DEF PilotInvariant, OneStory, NothingBeforeTheFence, OverIsGood, SentOnce,
       PilotTrials, ReservedTrials, AcceptableTrial
  <2> QED BY <2>3, <2>4 DEF PilotInvariant
<1> QED BY <1>2, <1>3, <1>4

\* The order of the trials gives each task to each arm.
LEMMA EachArmIsTried ==
  ASSUME NEW task \in 1..PilotTasks, NEW arm \in {"baseline", "candidate"}
  PROVE  \E trial \in PilotTrials : TaskOf(trial) = task /\ ArmOf(trial) = arm
<1>1. task \in Nat \ {0} /\ PilotTasks \in Nat /\ task <= PilotTasks
  BY PilotAssumption
<1>2. PICK first \in PilotTrials : first = 2 * task - 1
  BY <1>1 DEF PilotTrials, ReservedTrials
<1>3. PICK second \in PilotTrials : second = 2 * task
  BY <1>1 DEF PilotTrials, ReservedTrials
<1>4. /\ (first + 1) \div 2 = task /\ (first - 1) \div 2 = task - 1 /\ (first - 1) % 2 = 0
      /\ (second + 1) \div 2 = task /\ (second - 1) \div 2 = task - 1 /\ (second - 1) % 2 = 1
  BY <1>1, <1>2, <1>3
<1>5. (task - 1) % 2 \in {0, 1} BY <1>1
<1>6. TaskOf(first) = task /\ TaskOf(second) = task BY <1>4 DEF TaskOf
<1>7. /\ ArmOf(first) = IF (task - 1) % 2 = 0 THEN "baseline" ELSE "candidate"
      /\ ArmOf(second) = IF (task - 1) % 2 = 1 THEN "baseline" ELSE "candidate"
  BY <1>4, <1>5 DEF ArmOf
<1> QED BY <1>5, <1>6, <1>7

LEMMA PilotInvariantIsEnough ==
  ASSUME PilotInvariant
  PROVE  PilotIsSound
<1>1. PilotIsOnce
  <2>1. \A n, S : S \subseteq {n} => Cardinality(S) <= 1
    <3> SUFFICES ASSUME NEW n, NEW S, S \subseteq {n}
                 PROVE  Cardinality(S) <= 1
      OBVIOUS
    <3>1. S = {} \/ S = {n} OBVIOUS
    <3> QED BY SMTT(60), <3>1, FS_EmptySet, FS_Singleton
  <2>2. Cardinality(Noted("started")) <= 1 BY <2>1 DEF PilotInvariant, OneStory
  <2>3. Cardinality(Noted("completed") \cup Noted("failed")) <= 1
    BY <2>1 DEF PilotInvariant, OneStory, Endings
  <2>4. ASSUME NEW t \in PilotTrials, sends[t] = 1
        PROVE  \E n \in Noted("trial_started") : pilotLedger[n].trial = t
    <3>1. t \in 1..attempted
      BY <2>4 DEF PilotInvariant, PilotShape, PilotTypes, SentOnce, PilotTrials, ReservedTrials
    <3> QED BY <3>1 DEF PilotInvariant, OneStory
  <2>5. \A n \in Noted("failed") : pilotLedger[n].trial = Cardinality(Noted("trial_started"))
    BY DEF PilotInvariant, OneStory
  <2>6. PilotTypes /\ \A t \in PilotTrials : sends[t] <= 1
    BY DEF PilotInvariant, PilotShape, SentOnce
  <2> QED BY <2>2, <2>3, <2>4, <2>5, <2>6 DEF PilotIsOnce
<1>2. CompletedIsWhole
  <2>1. SUFFICES ASSUME Noted("completed") # {}
                 PROVE  CompletedIsWhole
    BY DEF CompletedIsWhole
  <2>2. pilotAt = "idle" /\ Over = ReservedTrials /\ knownCost <= PilotCap
    BY <2>1 DEF PilotInvariant, OneStory, Endings, OverIsGood, Over
  <2>3. /\ Cardinality(receipts) = ReservedTrials
        /\ \A t \in PilotTrials : \E row \in receipts : row.trial = t /\ AcceptableTrial(row)
    BY <2>1, <2>2 DEF PilotInvariant, OverIsGood, PilotTrials
  <2>4. ASSUME NEW task \in 1..PilotTasks, NEW arm \in {"baseline", "candidate"}
        PROVE  \E row \in receipts : /\ TaskOf(row.trial) = task /\ ArmOf(row.trial) = arm
                                     /\ row.status = "completed" /\ row.cost \in 0..TrialLimit
    BY <2>3, EachArmIsTried DEF AcceptableTrial
  <2>5. \A n \in Noted("trial_started") \cup Noted("completed") : pilotLedger[n].frozen
    BY DEF PilotInvariant, OneStory
  <2> QED BY <2>2, <2>3, <2>4, <2>5 DEF CompletedIsWhole
<1> QED BY <1>1, <1>2 DEF PilotIsSound

\* Any number of operators may start a pilot again and again, its process may
\* die at any step and the configuration may change at any time: no trial is
\* sent twice, there is one story of the run on record, and a pilot that is
\* completed has an acceptable trial of each task with each arm, within what
\* was approved (run_frozen_pilot).
THEOREM PilotsRunOnce == PilotInit /\ [][PilotNext]_pilotVars => []PilotIsSound
<1>1. PilotInit => PilotInvariant BY PilotBegins
<1>2. PilotInvariant /\ [PilotNext]_pilotVars => PilotInvariant'
  BY StartIsFirst, PlanIsFrozen, TrialIsStarted, TrialIsOver, PilotIsCompleted, UnrecordedSteps
     DEF PilotNext
<1>3. PilotInvariant => PilotIsSound BY PilotInvariantIsEnough
<1> QED BY <1>1, <1>2, <1>3, PTL

-----------------------------------------------------------------------------
(* The session file.  Whoever is at the revision on disk knows what is on  *)
(* disk, or at least nothing that was undone: except the agent that a      *)
(* rewrite has brought up to date, which is given up before it may save.   *)

Agents == [open : {"no", "opening", "yes"}, rev : Nat, hist : Seq(Row), title : Titles,
           busy : BOOLEAN, late : BOOLEAN]
Jobs == [op : {"none", "title", "undo", "switch", "delete"}, rev : Nat, hist : Seq(Row),
         title : Titles]

Clean(hist) == undone \cap ToSet(hist) = {}

DiskFits ==
  /\ disk.rev # 0 /\ ToSet(disk.hist) \subseteq 1..rows /\ undone \subseteq 1..rows
  /\ ~Lingering => Clean(disk.hist)

\* No thread outlives its turn, and nobody is at the revision on disk who
\* would write what was undone.
InTime(p) ==
  /\ ~agent[Now(p)].late /\ agent[Old(p)] = Closed
  /\ agent[Now(p)].rev = disk.rev /\ job[p].op # "switch" => Clean(agent[Now(p)].hist)
  /\ job[p].op \in {"title", "undo"} /\ job[p].rev = disk.rev => Clean(job[p].hist)
  /\ job[p].op = "title" /\ Has(p) => job[p].hist = agent[Now(p)].hist

ProcFits(p) ==
  /\ \A s \in {Now(p), Old(p)} :
       agent[s].rev <= disk.rev /\ ToSet(agent[s].hist) \subseteq 1..rows
  /\ job[p].rev <= disk.rev /\ ToSet(job[p].hist) \subseteq 1..rows
  /\ job[p].op # "none" => ~agent[Now(p)].busy /\ agent[Now(p)].open # "opening"
  /\ ~Lingering => InTime(p)

StoreInvariant == StoreTypes /\ DiskFits /\ \A p \in Procs : ProcFits(p)

Disks == [hist : Seq(Row), title : Titles, rev : Nat, deleted : BOOLEAN]

LEMMA StoreIsTyped ==
  ASSUME StoreTypes
  PROVE  /\ disk \in Disks /\ agent \in [Slots -> Agents] /\ job \in [Procs -> Jobs]
         /\ setting \in Settings /\ offer \in [Procs -> Nat] /\ rows \in 0..MaxRows
         /\ undone \subseteq Row /\ faults \in 0..MaxFaults /\ crashes \in 0..MaxCrashes
         /\ Titles # {} /\ MaxRows \in Nat /\ MaxFaults \in Nat /\ MaxCrashes \in Nat
BY StoreAssumption DEF StoreTypes, Disks, Agents, Jobs, MaxFaults, MaxCrashes

LEMMA WellTyped ==
  ASSUME disk \in Disks, agent \in [Slots -> Agents], job \in [Procs -> Jobs],
         setting \in Settings, offer \in [Procs -> Nat], rows \in 0..MaxRows,
         undone \subseteq Row, faults \in 0..MaxFaults, crashes \in 0..MaxCrashes
  PROVE  StoreTypes
BY DEF StoreTypes, Disks, Agents, Jobs

LEMMA TheSlots ==
  /\ \A p \in Procs : Now(p) \in Slots /\ Old(p) \in Slots
  /\ \A p, q \in Procs : Now(p) # Old(q) /\ (p # q => Now(p) # Now(q) /\ Old(p) # Old(q))
  /\ \A s \in Slots : \E p \in Procs : s \in {Now(p), Old(p)}
  /\ \A p \in Procs : Now(p)[2] = "now" /\ Old(p)[2] = "old"
BY DEF Slots, Now, Old

\* A slot that is set, and a job.
LEMMA SlotIsSet ==
  ASSUME agent \in [Slots -> Agents], NEW s \in Slots, NEW x \in Agents,
         agent' = [agent EXCEPT ![s] = x]
  PROVE  /\ agent' \in [Slots -> Agents] /\ agent'[s] = x
         /\ \A r \in Slots : r # s => agent'[r] = agent[r]
OBVIOUS

LEMMA JobIsSet ==
  ASSUME job \in [Procs -> Jobs], NEW p \in Procs, NEW x \in Jobs,
         job' = [job EXCEPT ![p] = x]
  PROVE  /\ job' \in [Procs -> Jobs] /\ job'[p] = x
         /\ \A q \in Procs \ {p} : job'[q] = job[q]
OBVIOUS

LEMMA RowsOfAHistory ==
  /\ ToSet(<<>>) = {}
  /\ \A S, h, x : h \in Seq(S) /\ x \in S
       => Append(h, x) \in Seq(S) /\ ToSet(Append(h, x)) = ToSet(h) \cup {x}
  /\ \A S, h, n : h \in Seq(S) /\ n \in 0..Len(h)
       => SubSeq(h, 1, n) \in Seq(S) /\ ToSet(SubSeq(h, 1, n)) \subseteq ToSet(h)
<1>1. ToSet(<<>>) = {} BY DEF ToSet
<1>2. ASSUME NEW S, NEW h \in Seq(S), NEW x \in S
      PROVE  Append(h, x) \in Seq(S) /\ ToSet(Append(h, x)) = ToSet(h) \cup {x}
  <2>1. /\ Append(h, x) \in Seq(S) /\ DOMAIN Append(h, x) = (DOMAIN h) \cup {Len(h) + 1}
        /\ \A i \in DOMAIN h : Append(h, x)[i] = h[i]
        /\ Append(h, x)[Len(h) + 1] = x
    OBVIOUS
  <2> QED BY <2>1 DEF ToSet
<1>3. ASSUME NEW S, NEW h \in Seq(S), NEW n \in 0..Len(h)
      PROVE  SubSeq(h, 1, n) \in Seq(S) /\ ToSet(SubSeq(h, 1, n)) \subseteq ToSet(h)
  <2>1. /\ SubSeq(h, 1, n) \in Seq(S) /\ DOMAIN SubSeq(h, 1, n) = 1..n /\ DOMAIN h = 1..Len(h)
        /\ \A i \in 1..n : SubSeq(h, 1, n)[i] = h[i] /\ i \in DOMAIN h
    OBVIOUS
  <2> QED BY <2>1 DEF ToSet
<1> QED BY <1>1, <1>2, <1>3

LEMMA NothingIsClosed ==
  ASSUME Titles # {}
  PROVE  /\ Closed \in Agents /\ Closed.open = "no" /\ Closed.rev = 0 /\ Closed.hist = <<>>
         /\ Closed.busy = FALSE /\ Closed.late = FALSE
         /\ NoJob \in Jobs /\ NoJob.op = "none" /\ NoJob.rev = 0 /\ NoJob.hist = <<>>
BY DEF Closed, NoJob, Agents, Jobs

LEMMA WhatIsWritten ==
  ASSUME disk \in Disks, NEW hist \in Seq(Row), NEW title \in Titles
  PROVE  /\ Written(hist, title) \in Disks /\ Written(hist, title).rev = disk.rev + 1
         /\ Written(hist, title).hist = hist
         /\ Written(hist, title).deleted = disk.deleted
BY DEF Written, NextRev, Disks

(* A step is one process's; of the file it keeps the revision and what was *)
(* undone, or goes on to the next.                                         *)
StepOf(p) ==
  /\ UNCHANGED setting /\ rows' \in Nat /\ rows <= rows'
  /\ \A q \in Procs \ {p} : /\ agent'[Now(q)] = agent[Now(q)] /\ agent'[Old(q)] = agent[Old(q)]
                            /\ job'[q] = job[q]
  /\ disk'.rev = disk.rev + 1 \/ (disk'.rev = disk.rev /\ undone' = undone)

LEMMA OthersStillFit ==
  ASSUME StoreInvariant, NEW p \in Procs, StepOf(p), StoreTypes', DiskFits', ProcFits(p)'
  PROVE  StoreInvariant'
<1> SUFFICES ASSUME NEW q \in Procs \ {p}
             PROVE  ProcFits(q)'
  BY DEF StoreInvariant
<1>1. /\ disk.rev \in Nat /\ disk'.rev \in Nat /\ rows \in Nat /\ rows' \in Nat /\ rows <= rows'
      /\ agent[Now(q)].rev \in Nat /\ agent[Old(q)].rev \in Nat /\ job[q].rev \in Nat
  <2>1. disk \in Disks /\ agent \in [Slots -> Agents] /\ job \in [Procs -> Jobs]
        /\ rows \in 0..MaxRows /\ MaxRows \in Nat
    BY StoreIsTyped DEF StoreInvariant
  <2>2. disk' \in [hist : Seq(Row), title : Titles, rev : Nat, deleted : BOOLEAN]
    BY DEF StoreTypes, Row
  <2>3. disk.rev \in Nat /\ disk'.rev \in Nat BY <2>1, <2>2 DEF Disks
  <2>4. agent[Now(q)] \in Agents /\ agent[Old(q)] \in Agents /\ job[q] \in Jobs
    BY <2>1, TheSlots
  <2>5. agent[Now(q)].rev \in Nat /\ agent[Old(q)].rev \in Nat /\ job[q].rev \in Nat
    BY <2>4 DEF Agents, Jobs
  <2> QED BY <2>1, <2>3, <2>5 DEF StepOf
<1>2. /\ agent'[Now(q)] = agent[Now(q)] /\ agent'[Old(q)] = agent[Old(q)] /\ job'[q] = job[q]
      /\ disk.rev <= disk'.rev /\ Lingering' = Lingering /\ Has(q)' = Has(q)
      /\ disk'.rev = disk.rev => undone' = undone
  BY <1>1 DEF StepOf, Lingering, Has
<1>3. 1..rows \subseteq 1..rows' BY <1>1
<1>4. ProcFits(q) BY DEF StoreInvariant
<1>5. /\ \A s \in {Now(q), Old(q)} :
           agent'[s].rev <= disk'.rev /\ ToSet(agent'[s].hist) \subseteq 1..rows'
      /\ job'[q].rev <= disk'.rev /\ ToSet(job'[q].hist) \subseteq 1..rows'
      /\ job'[q].op # "none" => ~agent'[Now(q)].busy /\ agent'[Now(q)].open # "opening"
  BY <1>1, <1>2, <1>3, <1>4 DEF ProcFits
<1>6. ASSUME ~Lingering
      PROVE  InTime(q)'
  <2>1. InTime(q) BY <1>4, <1>6 DEF ProcFits
  <2>2. CASE disk'.rev = disk.rev BY <1>2, <2>1, <2>2 DEF InTime, Clean
  <2>3. CASE disk'.rev # disk.rev
    <3>1. agent'[Now(q)].rev # disk'.rev /\ job'[q].rev # disk'.rev
      BY <1>1, <1>2, <1>4, <2>3 DEF ProcFits
    <3> QED BY <1>2, <2>1, <3>1 DEF InTime
  <2> QED BY <2>2, <2>3
<1> QED BY <1>2, <1>5, <1>6 DEF ProcFits

LEMMA RevisedAgent ==
  ASSUME NEW a \in Agents, NEW n \in Nat
  PROVE  a.rev \in Nat /\ [a EXCEPT !.rev = n] \in Agents
  BY DEF Agents

(* Of a save: the agent is what was saved, at the revision it has made, or *)
(* what it is made after a failure.                                        *)
SaveEnds(p, s, kept, failed) ==
  /\ StepOf(p) /\ StoreTypes' /\ DiskFits'
  /\ \A r \in Slots : r # s => agent'[r] = agent[r]
  /\ \/ /\ Fence(agent[s].rev) /\ disk'.rev = disk.rev + 1
        /\ agent'[s] = [kept EXCEPT !.rev = disk.rev + 1]
     \/ agent'[s] = failed /\ disk'.rev \in {disk.rev, disk.rev + 1}

LEMMA SaveFits ==
  ASSUME StoreInvariant, NEW p \in Procs, NEW s \in {Now(p), Old(p)},
         NEW hist \in Seq(Row), NEW title \in Titles, NEW kept \in Agents, NEW failed \in Agents,
         Save(s, hist, title, kept, failed), kept.rev = agent[s].rev,
         UNCHANGED <<setting, offer, undone, crashes>>, rows' \in 0..MaxRows, rows <= rows',
         job' \in [Procs -> Jobs], \A q \in Procs \ {p} : job'[q] = job[q],
         ToSet(hist) \subseteq 1..rows', ~Lingering /\ Fence(agent[s].rev) => Clean(hist)
  PROVE  SaveEnds(p, s, kept, failed)
<1>1. /\ disk \in Disks /\ agent \in [Slots -> Agents] /\ setting \in Settings
      /\ offer \in [Procs -> Nat] /\ rows \in 0..MaxRows /\ undone \subseteq Row
      /\ faults \in 0..MaxFaults /\ crashes \in 0..MaxCrashes /\ MaxFaults \in Nat
      /\ MaxRows \in Nat
  BY StoreIsTyped DEF StoreInvariant
<1>2. s \in Slots /\ disk.rev \in Nat BY <1>1, TheSlots DEF Disks
<1>3. /\ Written(hist, title) \in Disks /\ Written(hist, title).rev = disk.rev + 1
      /\ Written(hist, title).hist = hist
  BY <1>1, WhatIsWritten
<1>4. DiskFits /\ 1..rows \subseteq 1..rows' /\ Lingering' = Lingering
  BY <1>1 DEF StoreInvariant, Lingering
<1>5. faults' \in 0..MaxFaults /\ MaxFaults' = MaxFaults /\ MaxCrashes' = MaxCrashes
  BY <1>1 DEF Save, Smooth, Fault, MaxFaults, MaxCrashes
<1>6. PICK x : /\ agent' = [agent EXCEPT ![s] = x]
               /\ \/ /\ Fence(agent[s].rev) /\ x = [kept EXCEPT !.rev = NextRev(kept.rev)]
                     /\ disk' = Written(hist, title)
                  \/ /\ x = failed
                     /\ disk' = disk \/ (Fence(agent[s].rev) /\ disk' = Written(hist, title))
  BY DEF Save
<1>7. [kept EXCEPT !.rev = NextRev(kept.rev)] = [kept EXCEPT !.rev = kept.rev + 1]
  BY DEF NextRev
<1>8. x \in Agents
  <2>1. kept.rev \in Nat BY RevisedAgent
  <2>2. kept.rev + 1 \in Nat BY <2>1
  <2>3. [kept EXCEPT !.rev = kept.rev + 1] \in Agents BY <2>2, RevisedAgent
  <2> QED BY <1>6, <1>7, <2>3
<1>9. /\ agent' \in [Slots -> Agents] /\ agent'[s] = x
      /\ \A r \in Slots : r # s => agent'[r] = agent[r]
  BY <1>1, <1>2, <1>6, <1>8, SlotIsSet
<1>10. disk' \in Disks BY <1>1, <1>3, <1>6
<1>11. StoreTypes'
  <2>1. /\ disk \in Disks /\ agent \in [Slots -> Agents] /\ job \in [Procs -> Jobs]
        /\ setting \in Settings
        /\ offer \in [Procs -> Nat] /\ rows \in 0..MaxRows /\ undone \subseteq Row
        /\ faults \in 0..MaxFaults /\ crashes \in 0..MaxCrashes
        => StoreTypes
    BY WellTyped
  <2>2. (/\ disk \in Disks /\ agent \in [Slots -> Agents] /\ job \in [Procs -> Jobs]
         /\ setting \in Settings
         /\ offer \in [Procs -> Nat] /\ rows \in 0..MaxRows /\ undone \subseteq Row
         /\ faults \in 0..MaxFaults /\ crashes \in 0..MaxCrashes)'
    BY <1>1, <1>5, <1>9, <1>10 DEF Disks, Agents, Jobs, Row, Slots
  <2> QED BY <2>1, <2>2, WellTyped, PTL
<1>12. DiskFits'
  <2>1. CASE disk' = disk BY <1>1, <1>4, <2>1 DEF DiskFits, Clean
  <2>2. CASE Fence(agent[s].rev) /\ disk' = Written(hist, title)
    BY <1>1, <1>2, <1>3, <1>4, <2>2 DEF DiskFits, Clean
  <2> QED BY <1>6, <2>1, <2>2
<1>13. StepOf(p)
  <2>1. \A q \in Procs \ {p} : agent'[Now(q)] = agent[Now(q)] /\ agent'[Old(q)] = agent[Old(q)]
    BY <1>9, TheSlots
  <2>2. disk'.rev = disk.rev \/ disk'.rev = disk.rev + 1 BY <1>3, <1>6
  <2> QED BY <1>1, <2>1, <2>2 DEF StepOf
<1>14. \/ /\ Fence(agent[s].rev) /\ disk'.rev = disk.rev + 1
          /\ agent'[s] = [kept EXCEPT !.rev = disk.rev + 1]
       \/ agent'[s] = failed /\ disk'.rev \in {disk.rev, disk.rev + 1}
  <2>1. CASE /\ Fence(agent[s].rev) /\ x = [kept EXCEPT !.rev = NextRev(kept.rev)]
             /\ disk' = Written(hist, title)
    BY <1>3, <1>7, <1>9, <2>1 DEF Fence
  <2>2. CASE /\ x = failed
             /\ disk' = disk \/ (Fence(agent[s].rev) /\ disk' = Written(hist, title))
    BY <1>3, <1>9, <2>2
  <2> QED BY <1>6, <2>1, <2>2
<1> QED BY <1>9, <1>11, <1>12, <1>13, <1>14 DEF SaveEnds

LEMMA AgentSaysFirst ==
  ASSUME StoreInvariant, NEW p \in Procs, FirstSave(p), UNCHANGED setting
  PROVE  StoreInvariant'
<1> DEFINE a == agent[Now(p)]
           kept == [a EXCEPT !.open = "yes"]
<1>1. /\ a.open = "opening" /\ Save(Now(p), a.hist, a.title, kept, Closed)
      /\ UNCHANGED <<setting, offer, undone, crashes, rows, job>>
  BY DEF FirstSave
<1>2. /\ a \in Agents /\ rows \in 0..MaxRows /\ job \in [Procs -> Jobs] /\ Titles # {}
      /\ disk.rev \in Nat /\ Now(p) \in Slots /\ Old(p) \in Slots /\ Now(p) # Old(p)
      /\ agent[Old(p)] \in Agents
  BY StoreIsTyped, TheSlots DEF StoreInvariant, Disks
<1>3. /\ a.hist \in Seq(Row) /\ a.title \in Titles /\ a.rev \in Nat /\ kept \in Agents
      /\ kept.rev = a.rev /\ kept.hist = a.hist /\ kept.late = a.late /\ kept.open = "yes"
      /\ kept.busy = a.busy
  BY <1>2 DEF Agents
<1>4. /\ ProcFits(p) /\ job[p].op = "none" /\ Closed \in Agents
  BY <1>1, <1>2, NothingIsClosed DEF StoreInvariant, ProcFits
<1>5. ToSet(a.hist) \subseteq 1..rows /\ (~Lingering /\ Fence(a.rev) => Clean(a.hist))
  BY <1>4 DEF ProcFits, InTime, Fence
<1>6. SaveEnds(p, Now(p), kept, Closed)
  <2> HIDE DEF kept
  <2> QED BY <1>1, <1>2, <1>3, <1>4, <1>5, SaveFits
<1>7. ProcFits(p)'
  <2>1. agent'[Old(p)] = agent[Old(p)] /\ job'[p] = job[p] /\ Lingering' = Lingering
    BY <1>1, <1>2, <1>6 DEF SaveEnds, Lingering
  <2>2. CASE /\ Fence(a.rev) /\ disk'.rev = disk.rev + 1
             /\ agent'[Now(p)] = [kept EXCEPT !.rev = disk.rev + 1]
    <3>1. /\ agent'[Now(p)].rev = disk.rev + 1 /\ agent'[Now(p)].hist = a.hist
          /\ agent'[Now(p)].late = a.late /\ agent'[Now(p)].open = "yes"
      BY <1>2, <1>3, <2>2 DEF Agents
    <3>2. agent'[Old(p)].rev <= disk'.rev /\ job'[p].rev <= disk'.rev
      BY <1>2, <1>4, <2>1, <2>2 DEF ProcFits, Agents, Jobs
    <3>3. ~Lingering => InTime(p)'
      BY <1>1, <1>4, <1>5, <2>1, <2>2, <3>1 DEF ProcFits, InTime, Clean
    <3>4. agent'[Now(p)].rev <= disk'.rev /\ ToSet(agent'[Now(p)].hist) \subseteq 1..rows'
      BY <1>1, <1>2, <1>5, <2>2, <3>1
    <3> QED BY <1>1, <1>4, <2>1, <3>2, <3>3, <3>4 DEF ProcFits
  <2>3. CASE agent'[Now(p)] = Closed /\ disk'.rev \in {disk.rev, disk.rev + 1}
    <3>1. /\ Closed.rev = 0 /\ Closed.hist = <<>> /\ Closed.late = FALSE /\ ToSet(<<>>) = {}
      BY <1>2, NothingIsClosed, RowsOfAHistory
    <3>2. agent'[Old(p)].rev <= disk'.rev /\ job'[p].rev <= disk'.rev
      BY <1>2, <1>4, <2>1, <2>3 DEF ProcFits, Agents, Jobs
    <3>3. ~Lingering => InTime(p)'
      BY <1>1, <1>4, <1>5, <2>1, <2>3, <3>1 DEF ProcFits, InTime, Clean
    <3>4. agent'[Now(p)].rev <= disk'.rev /\ ToSet(agent'[Now(p)].hist) \subseteq 1..rows'
      BY <1>2, <2>3, <3>1
    <3> QED BY <1>1, <1>2, <1>4, <2>1, <3>2, <3>3, <3>4 DEF ProcFits
  <2> QED BY <1>6, <2>2, <2>3 DEF SaveEnds
<1> QED BY <1>6, <1>7, OthersStillFit DEF SaveEnds

LEMMA RowIsRecorded ==
  ASSUME StoreInvariant, NEW s \in Slots, Record(s), UNCHANGED setting
  PROVE  StoreInvariant'
<1> DEFINE a == agent[s]
           grown == [a EXCEPT !.hist = Append(a.hist, rows + 1)]
<1>1. /\ a.busy \/ a.late
      /\ rows < MaxRows /\ rows' = rows + 1
      /\ Save(s, grown.hist, a.title, grown, grown)
      /\ UNCHANGED <<setting, offer, undone, crashes, job>>
  BY DEF Record
<1>2. PICK p \in Procs : s \in {Now(p), Old(p)} BY TheSlots
<1>3. /\ a \in Agents /\ rows \in 0..MaxRows /\ job \in [Procs -> Jobs] /\ Titles # {}
      /\ disk.rev \in Nat /\ Now(p) \in Slots /\ Old(p) \in Slots /\ Now(p) # Old(p)
      /\ agent \in [Slots -> Agents] /\ MaxRows \in Nat /\ undone \subseteq 1..rows
  BY StoreIsTyped, TheSlots DEF StoreInvariant, Disks, DiskFits
<1>4. /\ rows + 1 \in Row /\ a.hist \in Seq(Row) /\ a.title \in Titles /\ a.rev \in Nat
      /\ job[p].rev \in Nat /\ rows' \in 0..MaxRows /\ rows <= rows'
  BY <1>1, <1>3 DEF Agents, Jobs, Row
<1>5. /\ Append(a.hist, rows + 1) \in Seq(Row)
      /\ ToSet(Append(a.hist, rows + 1)) = ToSet(a.hist) \cup {rows + 1}
  BY <1>4, RowsOfAHistory
<1>6. /\ grown \in Agents /\ grown.rev = a.rev /\ grown.late = a.late /\ grown.busy = a.busy
      /\ grown.open = a.open /\ grown.hist = Append(a.hist, rows + 1)
  BY <1>3, <1>5 DEF Agents
<1>7. ProcFits(p) /\ rows + 1 \notin undone /\ 1..rows \subseteq 1..rows'
  BY <1>1, <1>3 DEF StoreInvariant
<1>8. ToSet(grown.hist) \subseteq 1..rows'
  BY <1>1, <1>2, <1>3, <1>5, <1>6, <1>7 DEF ProcFits
<1>9. ~Lingering => s = Now(p) /\ job[p].op = "none" /\ (a.rev = disk.rev => Clean(grown.hist))
  <2>1. SUFFICES ASSUME ~Lingering
                 PROVE  s = Now(p) /\ job[p].op = "none" /\ (a.rev = disk.rev => Clean(grown.hist))
    OBVIOUS
  <2>2. s = Now(p)
    BY <1>1, <1>2, <1>3, <1>7, <2>1, NothingIsClosed DEF ProcFits, InTime
  <2>3. job[p].op = "none" BY <1>1, <1>7, <2>1, <2>2 DEF ProcFits, InTime
  <2> QED BY <1>5, <1>6, <1>7, <2>1, <2>2, <2>3 DEF ProcFits, InTime, Clean
<1>10. SaveEnds(p, s, grown, grown)
  <2>1. ~Lingering /\ Fence(a.rev) => Clean(grown.hist) BY <1>9 DEF Fence
  <2> HIDE DEF grown
  <2> QED BY <1>1, <1>2, <1>3, <1>4, <1>5, <1>6, <1>8, <2>1, SaveFits
<1>11. /\ agent'[s].hist = grown.hist /\ agent'[s].late = a.late /\ agent'[s].busy = a.busy
       /\ agent'[s].open = a.open
       /\ \/ agent'[s].rev = a.rev /\ disk'.rev \in {disk.rev, disk.rev + 1}
          \/ a.rev = disk.rev /\ agent'[s].rev = disk.rev + 1 /\ disk'.rev = disk.rev + 1
  <2>1. CASE /\ Fence(a.rev) /\ disk'.rev = disk.rev + 1
             /\ agent'[s] = [grown EXCEPT !.rev = disk.rev + 1]
    <3> HIDE DEF grown
    <3> QED BY <1>6, <2>1 DEF Agents, Fence
  <2>2. CASE agent'[s] = grown /\ disk'.rev \in {disk.rev, disk.rev + 1}
    <3> HIDE DEF grown
    <3> QED BY <1>6, <2>2
  <2> QED BY <1>10, <2>1, <2>2 DEF SaveEnds
<1>12. /\ \A r \in {Now(p), Old(p)} : r # s => agent'[r] = agent[r]
       /\ job'[p] = job[p] /\ Lingering' = Lingering /\ undone' = undone
  BY <1>1, <1>3, <1>10 DEF SaveEnds, Lingering
<1>13. ProcFits(p)'
  <2>1. \A r \in {Now(p), Old(p)} : agent'[r].rev <= disk'.rev
    <3>1. agent[Now(p)].rev \in Nat /\ agent[Old(p)].rev \in Nat
      BY <1>3 DEF Agents
    <3> QED BY <1>3, <1>7, <1>11, <1>12, <3>1 DEF ProcFits
  <2>2. \A r \in {Now(p), Old(p)} : ToSet(agent'[r].hist) \subseteq 1..rows'
    BY <1>7, <1>8, <1>11, <1>12 DEF ProcFits
  <2>3. job'[p].rev <= disk'.rev /\ ToSet(job'[p].hist) \subseteq 1..rows'
    BY <1>3, <1>4, <1>7, <1>11, <1>12 DEF ProcFits
  <2>4. job'[p].op # "none" => ~agent'[Now(p)].busy /\ agent'[Now(p)].open # "opening"
    BY <1>2, <1>7, <1>11, <1>12 DEF ProcFits
  <2>5. ~Lingering => InTime(p)'
    <3>1. SUFFICES ASSUME ~Lingering
                   PROVE  InTime(p)'
      OBVIOUS
    <3>2. InTime(p) /\ s = Now(p) /\ job[p].op = "none"
      BY <1>7, <1>9, <3>1 DEF ProcFits
    <3>3. ~agent'[Now(p)].late /\ agent'[Old(p)] = Closed
      BY <1>3, <1>11, <1>12, <3>2 DEF InTime
    <3>4. agent'[Now(p)].rev = disk'.rev => a.rev = disk.rev
      BY <1>3, <1>4, <1>7, <1>11, <3>2 DEF ProcFits
    <3>5. agent'[Now(p)].rev = disk'.rev => undone' \cap ToSet(agent'[Now(p)].hist) = {}
      BY <1>9, <1>11, <1>12, <3>1, <3>2, <3>4 DEF Clean
    <3> QED BY <1>12, <3>2, <3>3, <3>5 DEF InTime, Clean
  <2> QED BY <1>12, <2>1, <2>2, <2>3, <2>4, <2>5 DEF ProcFits
<1> QED BY <1>10, <1>13, OthersStillFit DEF SaveEnds

(* The other steps of a process.                                           *)
OnlyOf(p) ==
  \A q \in Procs \ {p} : /\ agent'[Now(q)] = agent[Now(q)] /\ agent'[Old(q)] = agent[Old(q)]
                         /\ job'[q] = job[q]

LEMMA OneStep ==
  ASSUME StoreInvariant, NEW p \in Procs, OnlyOf(p),
         disk' \in Disks, agent' \in [Slots -> Agents], job' \in [Procs -> Jobs],
         offer' \in [Procs -> Nat], UNCHANGED <<setting, rows>>, undone' \subseteq Row,
         faults' \in 0..MaxFaults, crashes' \in 0..MaxCrashes,
         disk'.rev = disk.rev + 1 \/ (disk'.rev = disk.rev /\ undone' = undone),
         DiskFits', ProcFits(p)'
  PROVE  StoreInvariant'
<1>1. rows \in 0..MaxRows /\ setting \in Settings /\ MaxRows \in Nat
  BY StoreIsTyped DEF StoreInvariant
<1>2. StoreTypes'
  <2>1. (/\ disk \in Disks /\ agent \in [Slots -> Agents] /\ job \in [Procs -> Jobs]
         /\ setting \in Settings /\ offer \in [Procs -> Nat] /\ rows \in 0..MaxRows
         /\ undone \subseteq Row /\ faults \in 0..MaxFaults /\ crashes \in 0..MaxCrashes)'
    BY <1>1 DEF Disks, Agents, Jobs, Row, Slots, MaxFaults, MaxCrashes
  <2>2. /\ disk \in Disks /\ agent \in [Slots -> Agents] /\ job \in [Procs -> Jobs]
        /\ setting \in Settings /\ offer \in [Procs -> Nat] /\ rows \in 0..MaxRows
        /\ undone \subseteq Row /\ faults \in 0..MaxFaults /\ crashes \in 0..MaxCrashes
        => StoreTypes
    BY WellTyped
  <2> QED BY <2>1, <2>2, WellTyped, PTL
<1>3. StepOf(p) BY <1>1 DEF StepOf, OnlyOf
<1> QED BY <1>2, <1>3, OthersStillFit

\* One that leaves the file alone.
LEMMA QuietStep ==
  ASSUME StoreInvariant, NEW p \in Procs, OnlyOf(p), agent' \in [Slots -> Agents],
         job' \in [Procs -> Jobs], offer' \in [Procs -> Nat], crashes' \in 0..MaxCrashes,
         UNCHANGED <<setting, disk, rows, undone, faults>>, ProcFits(p)'
  PROVE  StoreInvariant'
<1>1. /\ disk' \in Disks /\ undone' \subseteq Row /\ faults' \in 0..MaxFaults
  BY StoreIsTyped DEF StoreInvariant
<1>2. DiskFits' BY DEF StoreInvariant, DiskFits, Clean, Lingering
<1> QED BY <1>1, <1>2, OneStep

\* One that sets a slot of the process, or its job, or neither.
LEMMA SlotStep ==
  ASSUME StoreInvariant, NEW p \in Procs, NEW s \in {Now(p), Old(p)}, NEW x \in Agents,
         agent' = [agent EXCEPT ![s] = x]
  PROVE  /\ agent' \in [Slots -> Agents] /\ agent'[s] = x
         /\ \A r \in {Now(p), Old(p)} : r # s => agent'[r] = agent[r]
         /\ UNCHANGED job => OnlyOf(p) /\ job' \in [Procs -> Jobs]
<1>1. agent \in [Slots -> Agents] /\ job \in [Procs -> Jobs] /\ s \in Slots
  BY StoreIsTyped, TheSlots DEF StoreInvariant
<1>2. /\ agent' \in [Slots -> Agents] /\ agent'[s] = x
      /\ \A r \in Slots : r # s => agent'[r] = agent[r]
  BY <1>1, SlotIsSet
<1> QED BY <1>1, <1>2, TheSlots DEF OnlyOf

LEMMA JobStep ==
  ASSUME StoreInvariant, NEW p \in Procs, NEW x \in Jobs, job' = [job EXCEPT ![p] = x]
  PROVE  /\ job' \in [Procs -> Jobs] /\ job'[p] = x
         /\ UNCHANGED agent => OnlyOf(p) /\ agent' \in [Slots -> Agents]
<1>1. agent \in [Slots -> Agents] /\ job \in [Procs -> Jobs]
  BY StoreIsTyped DEF StoreInvariant
<1>2. job' \in [Procs -> Jobs] /\ job'[p] = x /\ \A q \in Procs \ {p} : job'[q] = job[q]
  BY <1>1, JobIsSet
<1> QED BY <1>1, <1>2 DEF OnlyOf

\* What is known of a process before its step.
LEMMA BeforeAStep ==
  ASSUME StoreInvariant, NEW p \in Procs
  PROVE  /\ disk \in Disks /\ disk.rev \in Nat /\ disk.hist \in Seq(Row) /\ disk.title \in Titles
         /\ agent[Now(p)] \in Agents /\ agent[Old(p)] \in Agents /\ job[p] \in Jobs
         /\ agent[Now(p)].rev \in Nat /\ agent[Old(p)].rev \in Nat /\ job[p].rev \in Nat
         /\ Now(p) # Old(p) /\ Now(p) \in Slots /\ Old(p) \in Slots
         /\ ProcFits(p) /\ DiskFits /\ offer \in [Procs -> Nat] /\ crashes \in 0..MaxCrashes
         /\ rows \in 0..MaxRows /\ MaxRows \in Nat /\ Titles # {}
         /\ agent \in [Slots -> Agents] /\ job \in [Procs -> Jobs]
<1>1. /\ disk \in Disks /\ agent \in [Slots -> Agents] /\ job \in [Procs -> Jobs]
      /\ offer \in [Procs -> Nat] /\ crashes \in 0..MaxCrashes /\ Titles # {}
      /\ rows \in 0..MaxRows /\ MaxRows \in Nat /\ DiskFits /\ ProcFits(p)
  BY StoreIsTyped DEF StoreInvariant
<1>2. Now(p) # Old(p) /\ Now(p) \in Slots /\ Old(p) \in Slots BY TheSlots
<1>3. agent[Now(p)] \in Agents /\ agent[Old(p)] \in Agents /\ job[p] \in Jobs
  BY <1>1, <1>2
<1>4. /\ disk.rev \in Nat /\ disk.hist \in Seq(Row) /\ disk.title \in Titles
  BY <1>1 DEF Disks
<1>5. agent[Now(p)].rev \in Nat /\ agent[Old(p)].rev \in Nat /\ job[p].rev \in Nat
  BY <1>3 DEF Agents, Jobs
<1> QED BY <1>1, <1>2, <1>3, <1>4, <1>5

LEMMA LoadedAgent ==
  ASSUME StoreInvariant, NEW p \in Procs
  PROVE  /\ Loaded \in Agents /\ Loaded.rev = disk.rev /\ Loaded.hist = disk.hist
         /\ Loaded.late = FALSE /\ Loaded.busy = FALSE /\ Loaded.open = "opening"
BY BeforeAStep DEF Loaded, Agents

LEMMA OpenKeeps ==
  ASSUME StoreInvariant, NEW p \in Procs, Open(p), UNCHANGED setting
  PROVE  StoreInvariant'
<1>1. /\ agent' = [agent EXCEPT ![Now(p)] = Loaded] /\ job[p].op = "none"
      /\ UNCHANGED <<setting, disk, job, offer, rows, undone, crashes, faults>>
  BY BeforeAStep, NothingIsClosed DEF Open, Smooth, Free
<1>2. /\ agent' \in [Slots -> Agents] /\ agent'[Now(p)] = Loaded
      /\ agent'[Old(p)] = agent[Old(p)] /\ OnlyOf(p) /\ job' \in [Procs -> Jobs]
  BY <1>1, SlotStep, LoadedAgent, BeforeAStep
<1>3. ProcFits(p)'
  <2>1. ~Lingering => InTime(p)'
    BY <1>1, <1>2, BeforeAStep, LoadedAgent DEF ProcFits, InTime, Clean, DiskFits
  <2>2. /\ Loaded.rev = disk.rev /\ ToSet(Loaded.hist) \subseteq 1..rows
        /\ job'[p] = job[p] /\ Lingering' = Lingering
    BY <1>1, BeforeAStep, LoadedAgent DEF DiskFits, Lingering
  <2>3. \A s \in {Now(p), Old(p)} :
          agent'[s].rev <= disk'.rev /\ ToSet(agent'[s].hist) \subseteq 1..rows'
    BY <1>1, <1>2, <2>2, BeforeAStep DEF ProcFits
  <2> QED BY <1>1, <2>1, <2>2, <2>3, BeforeAStep DEF ProcFits
<1> QED BY <1>1, <1>2, <1>3, QuietStep, BeforeAStep

LEMMA TurnKeeps ==
  ASSUME StoreInvariant, NEW p \in Procs, StartTurn(p) \/ EndTurn(p), UNCHANGED setting
  PROVE  StoreInvariant'
<1> DEFINE a == agent[Now(p)]
<1>1. /\ UNCHANGED <<setting, disk, job, offer, rows, undone, crashes, faults>>
      /\ job[p].op = "none" \/ a.busy
  BY BeforeAStep, NothingIsClosed DEF StartTurn, EndTurn, Smooth, Free, Has
<1>2. job[p].op = "none" BY <1>1, BeforeAStep DEF ProcFits
<1>3. PICK x \in Agents : /\ agent' = [agent EXCEPT ![Now(p)] = x] /\ x.rev = a.rev
                          /\ x.hist = a.hist /\ x.open = a.open
                          /\ ~Lingering => x.late = a.late
  <2>1. CASE StartTurn(p)
    <3> DEFINE x == [a EXCEPT !.busy = TRUE]
    <3>1. agent' = [agent EXCEPT ![Now(p)] = x] BY <2>1 DEF StartTurn
    <3>2. /\ x \in Agents /\ x.rev = a.rev /\ x.hist = a.hist /\ x.open = a.open
          /\ x.late = a.late
      BY BeforeAStep DEF Agents
    <3> HIDE DEF x
    <3> QED BY <3>1, <3>2
  <2>2. CASE EndTurn(p)
    <3>1. PICK lingers \in {FALSE, Lingering} :
            agent' = [agent EXCEPT ![Now(p)] =
                        [a EXCEPT !.busy = FALSE, !.late = a.late \/ lingers]]
      BY <2>2 DEF EndTurn
    <3> DEFINE x == [a EXCEPT !.busy = FALSE, !.late = a.late \/ lingers]
    <3>2. a.late \in BOOLEAN /\ (a.late \/ lingers) \in BOOLEAN
      BY BeforeAStep DEF Agents
    <3>3. /\ x \in Agents /\ x.rev = a.rev /\ x.hist = a.hist /\ x.open = a.open
          /\ x.late = (a.late \/ lingers)
      BY <3>2, BeforeAStep DEF Agents
    <3>4. ~Lingering => x.late = a.late BY <3>2, <3>3
    <3>5. agent' = [agent EXCEPT ![Now(p)] = x] BY <3>1
    <3>6. x \in Agents /\ x.rev = a.rev /\ x.hist = a.hist /\ x.open = a.open
      BY <3>3
    <3> HIDE DEF x
    <3> QED BY <3>4, <3>5, <3>6
  <2> QED BY <2>1, <2>2
<1>4. /\ agent' \in [Slots -> Agents] /\ agent'[Now(p)] = x
      /\ agent'[Old(p)] = agent[Old(p)] /\ OnlyOf(p) /\ job' \in [Procs -> Jobs]
  BY <1>1, <1>3, SlotStep, BeforeAStep
<1>5. ProcFits(p)'
  <2>1. ~Lingering => InTime(p)'
    BY <1>1, <1>2, <1>3, <1>4, BeforeAStep DEF ProcFits, InTime, Clean
  <2> QED BY <1>1, <1>2, <1>3, <1>4, <2>1, BeforeAStep DEF ProcFits, Lingering
<1> QED BY <1>1, <1>4, <1>5, QuietStep, BeforeAStep

LEMMA ThreadKeeps ==
  ASSUME StoreInvariant, NEW s \in Slots, ThreadEnds(s), UNCHANGED setting
  PROVE  StoreInvariant'
<1>1. PICK p \in Procs : s \in {Now(p), Old(p)} BY TheSlots
<1>2. /\ UNCHANGED <<setting, disk, job, offer, rows, undone, crashes, faults>>
      /\ agent[s].late
  BY DEF ThreadEnds, Smooth
<1>3. Lingering BY <1>1, <1>2, BeforeAStep, NothingIsClosed DEF ProcFits, InTime
<1>4. /\ Closed \in Agents /\ Closed.rev = 0 /\ ToSet(Closed.hist) = {} /\ Closed.open = "no"
      /\ Closed.busy = FALSE
  BY BeforeAStep, NothingIsClosed, RowsOfAHistory
<1>5. agent[s] \in Agents BY <1>1, BeforeAStep
<1>6. PICK x \in Agents : /\ agent' = [agent EXCEPT ![s] = x]
                          /\ x = Closed \/ (x.rev = agent[s].rev /\ x.hist = agent[s].hist
                                            /\ x.busy = agent[s].busy /\ x.open = agent[s].open)
  <2> DEFINE ended == [agent[s] EXCEPT !.late = FALSE]
  <2>1. /\ ended \in Agents /\ ended.rev = agent[s].rev /\ ended.hist = agent[s].hist
        /\ ended.busy = agent[s].busy /\ ended.open = agent[s].open
    BY <1>5 DEF Agents
  <2>2. \/ agent' = [agent EXCEPT ![s] = Closed]
        \/ agent' = [agent EXCEPT ![s] = ended]
    BY DEF ThreadEnds
  <2> HIDE DEF ended
  <2> QED BY <1>4, <2>1, <2>2
<1>7. /\ agent' \in [Slots -> Agents] /\ agent'[s] = x /\ OnlyOf(p) /\ job' \in [Procs -> Jobs]
      /\ \A r \in {Now(p), Old(p)} : r # s => agent'[r] = agent[r]
  BY <1>1, <1>2, <1>6, SlotStep
<1>8. ProcFits(p)'
  <2>1. x.rev <= disk.rev /\ ToSet(x.hist) \subseteq 1..rows
    <3>1. ProcFits(p) /\ disk.rev \in Nat BY BeforeAStep
    <3>2. CASE x = Closed BY <1>4, <3>1, <3>2
    <3>3. CASE x.rev = agent[s].rev /\ x.hist = agent[s].hist
      BY <1>1, <3>1, <3>3 DEF ProcFits
    <3> QED BY <1>6, <3>2, <3>3
  <2>2. job[p].op # "none" => ~agent'[Now(p)].busy /\ agent'[Now(p)].open # "opening"
    BY <1>1, <1>4, <1>6, <1>7, BeforeAStep DEF ProcFits
  <2>3. Lingering' /\ job'[p] = job[p] BY <1>2, <1>3 DEF Lingering
  <2>4. \A r \in {Now(p), Old(p)} :
          agent'[r].rev <= disk'.rev /\ ToSet(agent'[r].hist) \subseteq 1..rows'
    BY <1>1, <1>2, <1>7, <2>1, BeforeAStep DEF ProcFits
  <2> QED BY <1>2, <2>2, <2>3, <2>4, BeforeAStep DEF ProcFits
<1> QED BY <1>1, <1>2, <1>7, <1>8, QuietStep, BeforeAStep

\* Of an operation that begins: what it remembers.
LEMMA JobBegins ==
  ASSUME StoreInvariant, NEW p \in Procs, NEW x \in Jobs, job' = [job EXCEPT ![p] = x],
         UNCHANGED <<setting, disk, agent, offer, rows, undone, crashes, faults>>,
         job[p].op = "none", ~agent[Now(p)].busy, agent[Now(p)].open # "opening",
         x.op \in {"title", "undo", "delete"}, x.rev <= disk.rev, ToSet(x.hist) \subseteq 1..rows,
         ~Lingering => /\ x.op \in {"title", "undo"} /\ x.rev = disk.rev => Clean(x.hist)
                       /\ x.op = "title" /\ Has(p) => x.hist = agent[Now(p)].hist
  PROVE  StoreInvariant'
<1>1. /\ agent' \in [Slots -> Agents] /\ job' \in [Procs -> Jobs] /\ OnlyOf(p) /\ job'[p] = x
  BY JobStep
<1>2. ProcFits(p)'
  <2>1. ~Lingering => InTime(p)'
    BY <1>1, BeforeAStep DEF ProcFits, InTime, Clean, Has
  <2> QED BY <1>1, <2>1, BeforeAStep DEF ProcFits, Lingering
<1> QED BY <1>1, <1>2, QuietStep, BeforeAStep

LEMMA ReadKeeps ==
  ASSUME StoreInvariant, NEW p \in Procs, TitleRead(p) \/ UndoRead(p) \/ DeleteRead(p),
         UNCHANGED setting
  PROVE  StoreInvariant'
<1> DEFINE a == agent[Now(p)]
<1>1. /\ UNCHANGED <<setting, disk, agent, offer, rows, undone, crashes, faults>>
      /\ job[p].op = "none" /\ ~a.busy /\ a.open # "opening"
  BY BeforeAStep, NothingIsClosed DEF TitleRead, UndoRead, DeleteRead, Smooth, Editing, Free
<1>2. /\ a.hist \in Seq(Row) /\ a.rev \in Nat /\ a.rev <= disk.rev
      /\ ToSet(a.hist) \subseteq 1..rows /\ ToSet(disk.hist) \subseteq 1..rows
      /\ NoJob \in Jobs /\ ToSet(NoJob.hist) = {} /\ NoJob.rev = 0
      /\ ~Lingering => Clean(disk.hist) /\ (a.rev = disk.rev => Clean(a.hist))
  BY <1>1, BeforeAStep, NothingIsClosed, RowsOfAHistory DEF ProcFits, InTime, DiskFits, Agents
<1>3. CASE TitleRead(p) /\ Has(p)
  <2>1. PICK t \in Titles :
          job' = [job EXCEPT ![p] = [op |-> "title", rev |-> a.rev, hist |-> a.hist, title |-> t]]
    BY <1>3 DEF TitleRead
  <2> DEFINE x == [op |-> "title", rev |-> a.rev, hist |-> a.hist, title |-> t]
  <2>2. /\ x \in Jobs /\ x.op = "title" /\ x.rev = a.rev /\ x.hist = a.hist
        /\ job' = [job EXCEPT ![p] = x]
    BY <1>2, <2>1 DEF Jobs
  <2> HIDE DEF x
  <2> QED BY <1>1, <1>2, <2>2, JobBegins
<1>4. CASE TitleRead(p) /\ ~Has(p)
  <2>1. PICK t \in Titles :
          job' = [job EXCEPT ![p] = [op |-> "title", rev |-> disk.rev, hist |-> disk.hist,
                                     title |-> t]]
    BY <1>4 DEF TitleRead
  <2> DEFINE x == [op |-> "title", rev |-> disk.rev, hist |-> disk.hist, title |-> t]
  <2>2. /\ x \in Jobs /\ x.op = "title" /\ x.rev = disk.rev /\ x.hist = disk.hist
        /\ job' = [job EXCEPT ![p] = x]
    BY <2>1, BeforeAStep DEF Jobs
  <2>3. x.rev <= disk.rev BY <2>2, BeforeAStep
  <2> HIDE DEF x
  <2> QED BY <1>1, <1>2, <1>4, <2>2, <2>3, JobBegins
<1>5. CASE UndoRead(p)
  <2>1. PICK n \in 0..(Len(disk.hist) - 1) :
          job' = [job EXCEPT ![p] = [op |-> "undo", rev |-> disk.rev,
                                     hist |-> SubSeq(disk.hist, 1, n), title |-> disk.title]]
    BY <1>5 DEF UndoRead
  <2>2. n \in 0..Len(disk.hist) BY BeforeAStep
  <2>3. /\ SubSeq(disk.hist, 1, n) \in Seq(Row)
        /\ ToSet(SubSeq(disk.hist, 1, n)) \subseteq ToSet(disk.hist)
    BY <2>2, BeforeAStep, RowsOfAHistory
  <2> DEFINE x == [op |-> "undo", rev |-> disk.rev, hist |-> SubSeq(disk.hist, 1, n),
                   title |-> disk.title]
  <2>4. x \in Jobs /\ x.op = "undo" /\ x.rev = disk.rev /\ x.hist = SubSeq(disk.hist, 1, n)
    BY <2>3, BeforeAStep DEF Jobs
  <2>5. ToSet(x.hist) \subseteq 1..rows /\ (~Lingering => Clean(x.hist))
    BY <1>2, <2>3, <2>4 DEF Clean
  <2>6. job' = [job EXCEPT ![p] = x] /\ x.rev <= disk.rev
    BY <2>1, <2>4, BeforeAStep
  <2> HIDE DEF x
  <2> QED BY <1>1, <2>4, <2>5, <2>6, JobBegins
<1>6. CASE DeleteRead(p)
  <2> DEFINE x == [NoJob EXCEPT !.op = "delete", !.rev = disk.rev]
  <2>1. /\ job' = [job EXCEPT ![p] = x] /\ x \in Jobs /\ x.op = "delete" /\ x.rev = disk.rev
        /\ x.hist = NoJob.hist
    BY <1>2, <1>6, BeforeAStep DEF DeleteRead, Jobs
  <2>2. x.rev <= disk.rev /\ ToSet(x.hist) \subseteq 1..rows
    BY <1>2, <2>1, BeforeAStep
  <2> HIDE DEF x
  <2> QED BY <1>1, <2>1, <2>2, JobBegins
<1> QED BY <1>3, <1>4, <1>5, <1>6

(* A process without an operation, when its agent is what it was, is given *)
(* up or has just been loaded.                                             *)
FileMoves == disk'.rev = disk.rev + 1 \/ (disk'.rev = disk.rev /\ undone' = undone)
AtRestAgain(p) ==
  /\ job'[p] = NoJob /\ UNCHANGED <<setting, rows>> /\ FileMoves
  /\ \/ agent'[Now(p)] = Closed
     \/ agent'[Now(p)] = Loaded /\ UNCHANGED <<disk, undone>>
     \/ agent'[Now(p)] = agent[Now(p)] /\ job[p].op # "switch"
  /\ \/ agent'[Old(p)] \in {agent[Old(p)], Closed}
     \/ Lingering /\ agent'[Old(p)] = agent[Now(p)]

LEMMA RestFits ==
  ASSUME StoreInvariant, NEW p \in Procs, AtRestAgain(p)
  PROVE  ProcFits(p)'
<1>1. /\ ProcFits(p) /\ DiskFits /\ disk.rev \in Nat /\ agent[Now(p)].rev \in Nat
      /\ agent[Old(p)].rev \in Nat /\ Now(p) # Old(p)
  BY BeforeAStep
<1>2. /\ Closed.rev = 0 /\ ToSet(Closed.hist) = {} /\ Closed.late = FALSE
      /\ NoJob.rev = 0 /\ ToSet(NoJob.hist) = {} /\ NoJob.op = "none"
  BY BeforeAStep, NothingIsClosed, RowsOfAHistory
<1>3. Loaded.rev = disk.rev /\ Loaded.hist = disk.hist /\ Loaded.late = FALSE
  BY LoadedAgent
<1>4. /\ job'[p] = NoJob /\ rows' = rows /\ Lingering' = Lingering
      /\ disk'.rev = disk.rev + 1 \/ (disk'.rev = disk.rev /\ undone' = undone)
  BY DEF AtRestAgain, FileMoves, Lingering
<1>5. /\ agent[Now(p)].rev <= disk'.rev /\ agent[Old(p)].rev <= disk'.rev /\ 0 <= disk'.rev
      /\ disk.rev <= disk'.rev
  BY <1>1, <1>4 DEF ProcFits
<1>6. agent'[Now(p)].rev <= disk'.rev /\ ToSet(agent'[Now(p)].hist) \subseteq 1..rows'
  <2>1. CASE agent'[Now(p)] = Closed BY <1>2, <1>5, <2>1
  <2>2. CASE agent'[Now(p)] = Loaded
    BY <1>1, <1>3, <1>4, <1>5, <2>2 DEF DiskFits
  <2>3. CASE agent'[Now(p)] = agent[Now(p)]
    BY <1>1, <1>4, <1>5, <2>3 DEF ProcFits
  <2> QED BY <2>1, <2>2, <2>3 DEF AtRestAgain
<1>7. agent'[Old(p)].rev <= disk'.rev /\ ToSet(agent'[Old(p)].hist) \subseteq 1..rows'
  <2>1. CASE agent'[Old(p)] = Closed BY <1>2, <1>5, <2>1
  <2>2. CASE agent'[Old(p)] \in {agent[Old(p)], agent[Now(p)]}
    BY <1>1, <1>4, <1>5, <2>2 DEF ProcFits
  <2> QED BY <2>1, <2>2 DEF AtRestAgain
<1>8. ASSUME ~Lingering
      PROVE  InTime(p)'
  <2>1. InTime(p) /\ Clean(disk.hist) BY <1>1, <1>8 DEF ProcFits, DiskFits
  <2>2. agent'[Old(p)] = Closed BY <1>8, <2>1 DEF AtRestAgain, InTime
  <2>3. ~agent'[Now(p)].late BY <1>2, <1>3, <2>1 DEF AtRestAgain, InTime
  <2>4. agent'[Now(p)].rev = disk'.rev => undone' \cap ToSet(agent'[Now(p)].hist) = {}
    <3>1. CASE agent'[Now(p)] = Closed BY <1>2, <3>1
    <3>2. CASE agent'[Now(p)] = Loaded /\ UNCHANGED <<disk, undone>>
      BY <1>3, <2>1, <3>2 DEF Clean
    <3>3. CASE agent'[Now(p)] = agent[Now(p)] /\ job[p].op # "switch"
      BY <1>1, <1>4, <2>1, <3>3 DEF InTime, Clean, ProcFits
    <3> QED BY <3>1, <3>2, <3>3 DEF AtRestAgain
  <2> QED BY <1>2, <1>4, <2>2, <2>3, <2>4 DEF InTime, Clean
<1> QED BY <1>2, <1>4, <1>5, <1>6, <1>7, <1>8 DEF ProcFits

LEMMA AgentIsGivenUp ==
  ASSUME StoreInvariant, NEW p \in Procs, NEW next \in Agents, agent' = Retired(p, next)
  PROVE  /\ agent' \in [Slots -> Agents] /\ agent'[Now(p)] = next
         /\ agent'[Old(p)] = IF agent[Now(p)].late THEN agent[Now(p)] ELSE agent[Old(p)]
         /\ agent[Now(p)].late => Lingering
         /\ \A q \in Procs \ {p} : agent'[Now(q)] = agent[Now(q)] /\ agent'[Old(q)] = agent[Old(q)]
<1>1. /\ agent \in [Slots -> Agents] /\ Now(p) \in Slots /\ Old(p) \in Slots /\ Now(p) # Old(p)
      /\ ProcFits(p)
  BY BeforeAStep
<1> DEFINE old == IF agent[Now(p)].late THEN agent[Now(p)] ELSE agent[Old(p)]
<1>2. agent' = [agent EXCEPT ![Now(p)] = next, ![Old(p)] = old] /\ old \in Agents
  BY <1>1 DEF Retired
<1>3. agent' \in [Slots -> Agents] /\ agent'[Now(p)] = next /\ agent'[Old(p)] = old
      /\ \A r \in Slots : r # Now(p) /\ r # Old(p) => agent'[r] = agent[r]
  <2> HIDE DEF old
  <2> QED BY <1>1, <1>2
<1>4. agent[Now(p)].late => Lingering BY <1>1 DEF ProcFits, InTime
<1> QED BY <1>3, <1>4, TheSlots

LEMMA SwitchKeeps ==
  ASSUME StoreInvariant, NEW p \in Procs, Switch(p), UNCHANGED setting
  PROVE  StoreInvariant'
<1>1. PICK next \in {Closed, Loaded} :
        /\ agent' = Retired(p, next) /\ job' = [job EXCEPT ![p] = NoJob]
        /\ UNCHANGED <<setting, disk, offer, rows, undone, crashes, faults>>
  BY DEF Switch, Smooth
<1>2. next \in Agents /\ NoJob \in Jobs
  BY <1>1, BeforeAStep, NothingIsClosed, LoadedAgent
<1>3. /\ agent' \in [Slots -> Agents] /\ agent'[Now(p)] = next
      /\ agent'[Old(p)] = IF agent[Now(p)].late THEN agent[Now(p)] ELSE agent[Old(p)]
      /\ agent[Now(p)].late => Lingering
      /\ \A q \in Procs \ {p} : agent'[Now(q)] = agent[Now(q)] /\ agent'[Old(q)] = agent[Old(q)]
  BY <1>1, <1>2, AgentIsGivenUp
<1>4. /\ job' \in [Procs -> Jobs] /\ job'[p] = NoJob /\ OnlyOf(p)
  BY <1>1, <1>2, <1>3, BeforeAStep, JobIsSet DEF OnlyOf
<1>5. AtRestAgain(p) BY <1>1, <1>3, <1>4 DEF AtRestAgain, FileMoves
<1>6. offer' \in [Procs -> Nat] /\ crashes' \in 0..MaxCrashes
  BY <1>1, BeforeAStep
<1> QED BY <1>1, <1>3, <1>4, <1>5, <1>6, RestFits, QuietStep

LEMMA CrashKeeps ==
  ASSUME StoreInvariant, NEW p \in Procs, Crash(p), UNCHANGED setting
  PROVE  StoreInvariant'
<1>1. /\ agent' = [agent EXCEPT ![Now(p)] = Closed, ![Old(p)] = Closed]
      /\ job' = [job EXCEPT ![p] = NoJob] /\ offer' = [offer EXCEPT ![p] = 0]
      /\ UNCHANGED <<setting, disk, rows, undone, faults>>
      /\ crashes < MaxCrashes /\ crashes' = crashes + 1
  BY DEF Crash
<1>2. Closed \in Agents /\ NoJob \in Jobs BY BeforeAStep, NothingIsClosed
<1>3. /\ agent \in [Slots -> Agents] /\ Now(p) \in Slots /\ Old(p) \in Slots /\ Now(p) # Old(p)
      /\ job \in [Procs -> Jobs] /\ offer \in [Procs -> Nat] /\ crashes \in 0..MaxCrashes
  BY BeforeAStep
<1>4. /\ agent' \in [Slots -> Agents] /\ agent'[Now(p)] = Closed /\ agent'[Old(p)] = Closed
      /\ \A r \in Slots : r # Now(p) /\ r # Old(p) => agent'[r] = agent[r]
  BY <1>1, <1>2, <1>3
<1>5. /\ job' \in [Procs -> Jobs] /\ job'[p] = NoJob /\ OnlyOf(p)
  BY <1>1, <1>2, <1>3, <1>4, JobIsSet, TheSlots DEF OnlyOf
<1>6. AtRestAgain(p) BY <1>1, <1>4, <1>5 DEF AtRestAgain, FileMoves
<1>7. offer' \in [Procs -> Nat] /\ crashes' \in 0..MaxCrashes
  <2>1. MaxCrashes \in Nat BY StoreIsTyped DEF StoreInvariant
  <2> QED BY <1>1, <1>3, <2>1
<1> QED BY <1>1, <1>4, <1>5, <1>6, <1>7, RestFits, QuietStep

LEMMA AskKeeps ==
  ASSUME StoreInvariant, NEW p \in Procs, Ask(p), UNCHANGED setting
  PROVE  StoreInvariant'
<1>1. /\ offer' = [offer EXCEPT ![p] = disk.rev] /\ job[p].op = "none"
      /\ UNCHANGED <<setting, disk, agent, job, rows, undone, crashes, faults>>
  BY BeforeAStep, NothingIsClosed DEF Ask, Editing, Free, Smooth
<1>2. offer' \in [Procs -> Nat] /\ crashes' \in 0..MaxCrashes
  BY <1>1, BeforeAStep
<1>3. agent' \in [Slots -> Agents] /\ job' \in [Procs -> Jobs] /\ OnlyOf(p)
  BY <1>1, BeforeAStep DEF OnlyOf
<1>4. ProcFits(p)'
  BY <1>1, BeforeAStep DEF ProcFits, InTime, Clean, Has, Lingering
<1> QED BY <1>1, <1>2, <1>3, <1>4, QuietStep

(* The steps that write the file.                                          *)
LEMMA FileIsWritten ==
  ASSUME StoreInvariant, NEW hist \in Seq(Row), NEW title \in Titles,
         disk' = Written(hist, title), UNCHANGED <<setting, rows>>,
         undone' \subseteq 1..rows, ToSet(hist) \subseteq 1..rows,
         ~Lingering => undone' \cap ToSet(hist) = {}
  PROVE  disk' \in Disks /\ disk'.rev = disk.rev + 1 /\ DiskFits' /\ FileMoves
<1>1. disk \in Disks /\ disk.rev \in Nat
  BY StoreIsTyped DEF StoreInvariant, Disks
<1>2. disk' \in Disks /\ disk'.rev = disk.rev + 1 /\ disk'.hist = hist
  BY <1>1, WhatIsWritten
<1>3. DiskFits' BY <1>1, <1>2 DEF DiskFits, Clean, Lingering
<1> QED BY <1>2, <1>3 DEF FileMoves

LEMMA FileIsKept ==
  ASSUME StoreInvariant, UNCHANGED <<setting, rows, disk, undone>>
  PROVE  disk' \in Disks /\ DiskFits' /\ FileMoves
<1>1. disk \in Disks /\ DiskFits BY StoreIsTyped DEF StoreInvariant
<1> QED BY <1>1 DEF DiskFits, Clean, Lingering, FileMoves

LEMMA FaultsAreCounted ==
  ASSUME StoreInvariant, Smooth \/ Fault
  PROVE  faults' \in 0..MaxFaults
<1>1. faults \in 0..MaxFaults /\ MaxFaults \in Nat
  BY StoreIsTyped DEF StoreInvariant
<1> QED BY <1>1 DEF Smooth, Fault

LEMMA RemembersWell ==
  ASSUME StoreInvariant, NEW p \in Procs
  PROVE  /\ job[p].hist \in Seq(Row) /\ job[p].title \in Titles
         /\ ToSet(job[p].hist) \subseteq 1..rows
         /\ undone \subseteq 1..rows /\ ToSet(disk.hist) \subseteq 1..rows
         /\ ~Lingering /\ job[p].op \in {"title", "undo"} /\ Fence(job[p].rev)
              => Clean(job[p].hist)
BY BeforeAStep DEF Jobs, ProcFits, InTime, Fence, DiskFits

LEMMA TitleOfAnotherKeeps ==
  ASSUME StoreInvariant, NEW p \in Procs, TitleWrite(p), ~Has(p), UNCHANGED setting
  PROVE  StoreInvariant'
<1>1. /\ job[p].op = "title" /\ job' = [job EXCEPT ![p] = NoJob]
      /\ UNCHANGED <<setting, agent, offer, rows, undone, crashes>> /\ (Smooth \/ Fault)
      /\ \/ UNCHANGED disk
         \/ Fence(job[p].rev) /\ disk' = Written(job[p].hist, job[p].title)
  BY DEF TitleWrite
<1>2. NoJob \in Jobs BY BeforeAStep, NothingIsClosed
<1>3. agent' \in [Slots -> Agents] /\ job' \in [Procs -> Jobs] /\ OnlyOf(p) /\ job'[p] = NoJob
  BY <1>1, <1>2, JobStep
<1>4. disk' \in Disks /\ DiskFits' /\ FileMoves
  <2>1. CASE UNCHANGED disk BY <1>1, <2>1, FileIsKept
  <2>2. CASE Fence(job[p].rev) /\ disk' = Written(job[p].hist, job[p].title)
    <3>1. ~Lingering => undone' \cap ToSet(job[p].hist) = {}
      BY <1>1, <2>2, RemembersWell DEF Clean
    <3> QED BY <1>1, <2>2, <3>1, RemembersWell, FileIsWritten
  <2> QED BY <1>1, <2>1, <2>2
<1>5. AtRestAgain(p) BY <1>1, <1>3, <1>4 DEF AtRestAgain
<1>6. /\ offer' \in [Procs -> Nat] /\ crashes' \in 0..MaxCrashes /\ faults' \in 0..MaxFaults
      /\ undone' \subseteq Row
  BY <1>1, BeforeAStep, FaultsAreCounted, StoreIsTyped DEF StoreInvariant
<1> QED BY <1>1, <1>3, <1>4, <1>5, <1>6, RestFits, OneStep DEF FileMoves

LEMMA TitleKeeps ==
  ASSUME StoreInvariant, NEW p \in Procs, TitleWrite(p), Has(p), UNCHANGED setting
  PROVE  StoreInvariant'
<1> DEFINE a == agent[Now(p)]
           kept == [a EXCEPT !.title = job[p].title]
<1>1. /\ job[p].op = "title" /\ job' = [job EXCEPT ![p] = NoJob]
      /\ UNCHANGED <<setting, offer, rows, undone, crashes>>
      /\ Save(Now(p), job[p].hist, job[p].title, kept, a)
  BY DEF TitleWrite
<1>2. /\ a \in Agents /\ a.rev \in Nat /\ rows \in 0..MaxRows /\ rows \in Nat /\ disk.rev \in Nat
      /\ ProcFits(p) /\ job \in [Procs -> Jobs] /\ agent[Old(p)].rev \in Nat
      /\ Now(p) \in Slots /\ Old(p) \in Slots /\ Now(p) # Old(p)
      /\ NoJob \in Jobs /\ NoJob.op = "none" /\ NoJob.rev = 0 /\ ToSet(NoJob.hist) = {}
  <2>1. Titles # {} /\ rows \in 0..MaxRows /\ MaxRows \in Nat BY BeforeAStep
  <2>2. NoJob \in Jobs /\ NoJob.op = "none" /\ NoJob.rev = 0 /\ ToSet(NoJob.hist) = {}
    BY <2>1, NothingIsClosed, RowsOfAHistory
  <2> QED BY <2>1, <2>2, BeforeAStep
<1>3. /\ job' \in [Procs -> Jobs] /\ job'[p] = NoJob /\ \A q \in Procs \ {p} : job'[q] = job[q]
  BY <1>1, <1>2, JobIsSet
<1>4. /\ kept \in Agents /\ kept.rev = a.rev /\ kept.hist = a.hist /\ kept.late = a.late
  BY <1>2, RemembersWell DEF Agents
<1>5. ~Lingering /\ Fence(a.rev) => Clean(job[p].hist) /\ Clean(a.hist)
  BY <1>1, <1>2 DEF ProcFits, InTime, Fence
<1>6. SaveEnds(p, Now(p), kept, a)
  <2>1. /\ job[p].hist \in Seq(Row) /\ job[p].title \in Titles
        /\ ToSet(job[p].hist) \subseteq 1..rows' /\ rows' \in 0..MaxRows /\ rows <= rows'
    BY <1>1, <1>2, RemembersWell
  <2> HIDE DEF kept
  <2> QED BY <1>1, <1>2, <1>3, <1>4, <1>5, <2>1, SaveFits
<1>7. CASE agent'[Now(p)] = a /\ disk'.rev \in {disk.rev, disk.rev + 1}
  <2>1. AtRestAgain(p)
    BY <1>1, <1>2, <1>3, <1>6, <1>7 DEF AtRestAgain, FileMoves, SaveEnds
  <2> QED BY <1>6, <2>1, RestFits, OthersStillFit DEF SaveEnds
<1>8. CASE /\ Fence(a.rev) /\ disk'.rev = disk.rev + 1
           /\ agent'[Now(p)] = [kept EXCEPT !.rev = disk.rev + 1]
  <2>1. /\ agent'[Now(p)].rev = disk.rev + 1 /\ agent'[Now(p)].hist = a.hist
        /\ agent'[Now(p)].late = a.late
    <3> HIDE DEF kept
    <3> QED BY <1>4, <1>8 DEF Agents
  <2>2. agent'[Old(p)] = agent[Old(p)] /\ Lingering' = Lingering
    BY <1>1, <1>2, <1>6 DEF SaveEnds, Lingering
  <2>3. ~Lingering => InTime(p)'
    BY <1>1, <1>2, <1>3, <1>5, <1>8, <2>1, <2>2 DEF ProcFits, InTime, Clean
  <2>4. /\ agent'[Now(p)].rev <= disk'.rev /\ agent'[Old(p)].rev <= disk'.rev
        /\ ToSet(agent'[Now(p)].hist) \subseteq 1..rows'
        /\ ToSet(agent'[Old(p)].hist) \subseteq 1..rows'
    BY <1>1, <1>2, <1>8, <2>1, <2>2 DEF ProcFits
  <2>5. ProcFits(p)'
    <3>1. /\ job'[p].rev <= disk'.rev /\ ToSet(job'[p].hist) \subseteq 1..rows'
          /\ job'[p].op = "none"
      BY <1>2, <1>3, <1>8
    <3> QED BY <2>2, <2>3, <2>4, <3>1 DEF ProcFits
  <2> QED BY <1>6, <2>5, OthersStillFit DEF SaveEnds
<1> QED BY <1>6, <1>7, <1>8 DEF SaveEnds

LEMMA DeleteKeeps ==
  ASSUME StoreInvariant, NEW p \in Procs, DeleteWrite(p), UNCHANGED setting
  PROVE  StoreInvariant'
<1>1. /\ job[p].op = "delete" /\ job' = [job EXCEPT ![p] = NoJob]
      /\ UNCHANGED <<setting, agent, offer, rows, undone, crashes>> /\ (Smooth \/ Fault)
      /\ disk' \in {disk, [disk EXCEPT !.deleted = TRUE]}
  BY DEF DeleteWrite
<1>2. NoJob \in Jobs /\ disk \in Disks /\ DiskFits
  BY BeforeAStep, NothingIsClosed
<1>3. agent' \in [Slots -> Agents] /\ job' \in [Procs -> Jobs] /\ OnlyOf(p) /\ job'[p] = NoJob
  BY <1>1, <1>2, JobStep
<1>4. disk' \in Disks /\ disk'.rev = disk.rev /\ disk'.hist = disk.hist
  BY <1>1, <1>2 DEF Disks
<1>5. DiskFits' /\ FileMoves
  BY <1>1, <1>2, <1>4 DEF DiskFits, Clean, Lingering, FileMoves
<1>6. AtRestAgain(p) BY <1>1, <1>3, <1>5 DEF AtRestAgain
<1>7. /\ offer' \in [Procs -> Nat] /\ crashes' \in 0..MaxCrashes /\ faults' \in 0..MaxFaults
      /\ undone' \subseteq Row
  BY <1>1, BeforeAStep, FaultsAreCounted, StoreIsTyped DEF StoreInvariant
<1> QED BY <1>1, <1>3, <1>4, <1>5, <1>6, <1>7, RestFits, OneStep DEF FileMoves

\* A rewrite that takes rows away.
LEMMA CutIsClean ==
  ASSUME StoreInvariant, NEW p \in Procs, job[p].op = "undo", Fence(job[p].rev), Cut(p),
         UNCHANGED <<setting, rows>>
  PROVE  /\ disk' \in Disks /\ disk'.rev = disk.rev + 1 /\ DiskFits' /\ FileMoves
         /\ undone' \subseteq Row
<1>1. /\ disk' = Written(job[p].hist, disk.title)
      /\ undone' = undone \cup (ToSet(disk.hist) \ ToSet(job[p].hist))
  BY DEF Cut
<1>2. undone' \subseteq 1..rows /\ (~Lingering => undone' \cap ToSet(job[p].hist) = {})
  BY <1>1, RemembersWell DEF Clean
<1>3. undone' \subseteq Row BY <1>2, BeforeAStep DEF Row
<1> QED BY <1>1, <1>2, <1>3, RemembersWell, BeforeAStep, FileIsWritten

\* Afterwards there is no operation, and the agent is what it was or given up.
LEMMA UndoIsOver ==
  ASSUME StoreInvariant, NEW p \in Procs, job[p].op = "undo", job' = [job EXCEPT ![p] = NoJob],
         UNCHANGED <<setting, offer, rows, crashes>>, Smooth \/ Fault,
         \/ UNCHANGED <<disk, undone>>
         \/ Cut(p) /\ Fence(job[p].rev),
         \/ UNCHANGED agent
         \/ agent' = Retired(p, Closed)
  PROVE  StoreInvariant'
<1>1. NoJob \in Jobs /\ Closed \in Agents BY BeforeAStep, NothingIsClosed
<1>2. /\ agent' \in [Slots -> Agents] /\ agent'[Now(p)] \in {agent[Now(p)], Closed}
      /\ \/ agent'[Old(p)] = agent[Old(p)]
         \/ Lingering /\ agent'[Old(p)] = agent[Now(p)]
      /\ \A q \in Procs \ {p} : agent'[Now(q)] = agent[Now(q)] /\ agent'[Old(q)] = agent[Old(q)]
  <2>1. CASE UNCHANGED agent BY <2>1, BeforeAStep
  <2>2. CASE agent' = Retired(p, Closed) BY <1>1, <2>2, AgentIsGivenUp
  <2> QED BY <2>1, <2>2
<1>3. job' \in [Procs -> Jobs] /\ job'[p] = NoJob /\ OnlyOf(p)
  BY <1>1, <1>2, BeforeAStep, JobIsSet DEF OnlyOf
<1>4. disk' \in Disks /\ DiskFits' /\ FileMoves /\ undone' \subseteq Row
  <2>1. CASE UNCHANGED <<disk, undone>>
    BY <2>1, FileIsKept, StoreIsTyped DEF StoreInvariant
  <2>2. CASE Cut(p) /\ Fence(job[p].rev) BY <2>2, CutIsClean
  <2> QED BY <2>1, <2>2
<1>5. AtRestAgain(p) BY <1>2, <1>3, <1>4 DEF AtRestAgain
<1>6. /\ offer' \in [Procs -> Nat] /\ crashes' \in 0..MaxCrashes /\ faults' \in 0..MaxFaults
  BY BeforeAStep, FaultsAreCounted
<1> QED BY <1>2, <1>3, <1>4, <1>5, <1>6, RestFits, OneStep DEF FileMoves

\* The current agent learns the revision, and is then switched.
LEMMA UndoIsCommitted ==
  ASSUME StoreInvariant, NEW p \in Procs, job[p].op = "undo", Fence(job[p].rev), Smooth, Cut(p),
         agent' = [agent EXCEPT ![Now(p)].rev = NextRev(job[p].rev)],
         job' = [job EXCEPT ![p] = [NoJob EXCEPT !.op = "switch"]],
         UNCHANGED <<setting, offer, rows, crashes>>
  PROVE  StoreInvariant'
<1> DEFINE a == agent[Now(p)]
           x == [a EXCEPT !.rev = disk.rev + 1]
           y == [NoJob EXCEPT !.op = "switch"]
<1>1. /\ disk.rev \in Nat /\ job[p].rev = disk.rev /\ a \in Agents /\ ProcFits(p)
      /\ agent[Old(p)].rev \in Nat /\ Now(p) # Old(p)
      /\ disk' \in Disks /\ disk'.rev = disk.rev + 1 /\ DiskFits' /\ FileMoves
      /\ undone' \subseteq Row /\ Titles # {}
  BY BeforeAStep, CutIsClean DEF Fence
<1>2. /\ NoJob \in Jobs /\ NoJob.rev = 0 /\ NoJob.hist = <<>> /\ ToSet(<<>>) = {}
  BY <1>1, NothingIsClosed, RowsOfAHistory
<1>3. /\ x \in Agents /\ x.rev = disk.rev + 1 /\ x.hist = a.hist /\ x.open = a.open
      /\ x.busy = a.busy /\ x.late = a.late /\ agent' = [agent EXCEPT ![Now(p)] = x]
  BY <1>1 DEF Agents, NextRev
<1>4. /\ y \in Jobs /\ y.op = "switch" /\ y.rev = 0 /\ ToSet(y.hist) = {}
      /\ job' = [job EXCEPT ![p] = y]
  BY <1>2 DEF Jobs
<1> HIDE DEF x, y
<1>5. /\ agent' \in [Slots -> Agents] /\ agent'[Now(p)] = x /\ agent'[Old(p)] = agent[Old(p)]
  BY <1>1, <1>3, SlotStep
<1>6. job' \in [Procs -> Jobs] /\ job'[p] = y /\ OnlyOf(p)
  <2>1. agent \in [Slots -> Agents] /\ job \in [Procs -> Jobs] BY BeforeAStep
  <2>2. /\ job' \in [Procs -> Jobs] /\ job'[p] = y /\ \A q \in Procs \ {p} : job'[q] = job[q]
    BY <1>4, <2>1, JobIsSet
  <2>3. Now(p) \in Slots /\ \A r \in Slots : r # Now(p) => agent'[r] = agent[r]
    BY <1>3, <2>1, TheSlots
  <2> QED BY <2>2, <2>3, TheSlots DEF OnlyOf
<1>7. ProcFits(p)'
  <2>1. ~Lingering => InTime(p)'
    BY <1>1, <1>3, <1>4, <1>5, <1>6 DEF ProcFits, InTime
  <2>2. /\ agent'[Now(p)].rev <= disk'.rev /\ agent'[Old(p)].rev <= disk'.rev
        /\ ToSet(agent'[Now(p)].hist) \subseteq 1..rows'
        /\ ToSet(agent'[Old(p)].hist) \subseteq 1..rows'
    <3>1. /\ agent[Old(p)].rev <= disk.rev /\ ToSet(agent[Old(p)].hist) \subseteq 1..rows
          /\ ToSet(a.hist) \subseteq 1..rows
      BY <1>1 DEF ProcFits
    <3>2. agent'[Now(p)].rev <= disk'.rev /\ agent'[Old(p)].rev <= disk'.rev
      <4>1. disk.rev + 1 <= disk.rev + 1 /\ agent[Old(p)].rev <= disk.rev + 1
        BY <1>1, <3>1
      <4> QED BY <1>1, <1>3, <1>5, <4>1
    <3> QED BY <1>3, <1>5, <3>1, <3>2
  <2>3. /\ job'[p].rev <= disk'.rev /\ ToSet(job'[p].hist) \subseteq 1..rows'
        /\ Lingering' = Lingering
    <3>1. 0 <= disk.rev + 1 BY <1>1
    <3> QED BY <1>1, <1>4, <1>6, <3>1 DEF Lingering
  <2>4. ~agent'[Now(p)].busy /\ agent'[Now(p)].open # "opening"
    BY <1>1, <1>3, <1>5 DEF ProcFits
  <2> QED BY <2>1, <2>2, <2>3, <2>4 DEF ProcFits
<1>8. /\ offer' \in [Procs -> Nat] /\ crashes' \in 0..MaxCrashes /\ faults' \in 0..MaxFaults
  BY BeforeAStep, FaultsAreCounted
<1> QED BY <1>1, <1>5, <1>6, <1>7, <1>8, OneStep DEF FileMoves

LEMMA UndoKeeps ==
  ASSUME StoreInvariant, NEW p \in Procs, UndoWrite(p), UNCHANGED setting
  PROVE  StoreInvariant'
<1>1. job[p].op = "undo" /\ UNCHANGED <<setting, offer, rows, crashes>>
  BY DEF UndoWrite
<1>2. CASE Fence(job[p].rev) /\ Smooth /\ Cut(p) /\ Has(p)
           /\ agent' = [agent EXCEPT ![Now(p)].rev = NextRev(job[p].rev)]
           /\ job' = [job EXCEPT ![p] = [NoJob EXCEPT !.op = "switch"]]
  BY <1>1, <1>2, UndoIsCommitted
<1>3. CASE ~(Fence(job[p].rev) /\ Smooth /\ Cut(p) /\ Has(p)
             /\ agent' = [agent EXCEPT ![Now(p)].rev = NextRev(job[p].rev)]
             /\ job' = [job EXCEPT ![p] = [NoJob EXCEPT !.op = "switch"]])
  <2>1. /\ job' = [job EXCEPT ![p] = NoJob] /\ (Smooth \/ Fault)
        /\ UNCHANGED <<disk, undone>> \/ (Cut(p) /\ Fence(job[p].rev))
        /\ UNCHANGED agent \/ agent' = Retired(p, Closed)
    BY <1>3 DEF UndoWrite
  <2> QED BY <1>1, <2>1, UndoIsOver
<1> QED BY <1>2, <1>3

LEMMA StoreBegins ==
  ASSUME StoreInit
  PROVE  StoreInvariant
<1>1. PICK t \in Titles : disk = [hist |-> <<>>, title |-> t, rev |-> 1, deleted |-> FALSE]
  BY DEF StoreInit
<1>2. /\ setting \in Settings /\ agent = [s \in Slots |-> Closed] /\ job = [p \in Procs |-> NoJob]
      /\ offer = [p \in Procs |-> 0] /\ rows = 0 /\ undone = {} /\ faults = 0 /\ crashes = 0
  BY DEF StoreInit
<1>3. MaxRows \in Nat /\ MaxFaults \in Nat /\ MaxCrashes \in Nat
  BY <1>2, StoreAssumption DEF MaxFaults, MaxCrashes
<1>4. /\ Closed \in Agents /\ Closed.rev = 0 /\ Closed.hist = <<>> /\ Closed.late = FALSE
      /\ NoJob \in Jobs /\ NoJob.rev = 0 /\ NoJob.hist = <<>> /\ NoJob.op = "none"
      /\ ToSet(<<>>) = {}
  BY <1>1, NothingIsClosed, RowsOfAHistory
<1>5. disk \in Disks /\ disk.rev = 1 /\ disk.hist = <<>> BY <1>1 DEF Disks
<1>6. StoreTypes BY <1>2, <1>3, <1>4, <1>5, WellTyped
<1>7. DiskFits BY <1>2, <1>4, <1>5 DEF DiskFits, Clean
<1>8. ASSUME NEW p \in Procs
      PROVE  ProcFits(p)
  <2>1. agent[Now(p)] = Closed /\ agent[Old(p)] = Closed /\ job[p] = NoJob
    BY <1>2, TheSlots
  <2> QED BY <1>2, <1>4, <1>5, <2>1 DEF ProcFits, InTime, Clean
<1> QED BY <1>6, <1>7, <1>8 DEF StoreInvariant

LEMMA NothingHappens ==
  ASSUME StoreInvariant, UNCHANGED storeVars
  PROVE  StoreInvariant'
<1>1. StoreTypes'
  BY DEF StoreInvariant, StoreTypes, storeVars, Slots, Row, MaxFaults, MaxCrashes
<1>2. DiskFits' BY DEF StoreInvariant, DiskFits, Clean, Lingering, storeVars
<1>3. ASSUME NEW p \in Procs
      PROVE  ProcFits(p)'
  BY DEF StoreInvariant, ProcFits, InTime, Clean, Has, Lingering, storeVars
<1> QED BY <1>1, <1>2, <1>3 DEF StoreInvariant

LEMMA StoreIsKept == StoreInvariant /\ [StoreNext]_storeVars => StoreInvariant'
<1> SUFFICES ASSUME StoreInvariant, StoreNext
             PROVE  StoreInvariant'
  BY NothingHappens
<1>1. UNCHANGED setting BY DEF StoreNext
<1>2. ASSUME NEW p \in Procs,
             \/ Open(p) \/ FirstSave(p) \/ StartTurn(p) \/ EndTurn(p)
             \/ TitleRead(p) \/ TitleWrite(p) \/ Ask(p) \/ UndoRead(p) \/ UndoWrite(p)
             \/ Switch(p) \/ DeleteRead(p) \/ DeleteWrite(p) \/ Crash(p)
      PROVE  StoreInvariant'
  BY <1>1, <1>2, OpenKeeps, AgentSaysFirst, TurnKeeps, ReadKeeps, TitleKeeps,
     TitleOfAnotherKeeps, AskKeeps, UndoKeeps, SwitchKeeps, DeleteKeeps, CrashKeeps
<1>3. ASSUME NEW s \in Slots, Record(s) \/ ThreadEnds(s)
      PROVE  StoreInvariant'
  BY <1>1, <1>3, RowIsRecorded, ThreadKeeps
<1> QED BY <1>2, <1>3 DEF StoreNext

\* Any number of processes may open, extend, retitle, rewind and delete one
\* session in any order, their saves may fail and they may die: unless threads
\* outlive their turns, what a committed undo or clear has removed does not
\* come back (SessionStore.save, undo_session, clear_session).
THEOREM UndoneIsGone == StoreInit /\ [][StoreNext]_storeVars => []StoreIsSound
<1>1. StoreInvariant => StoreIsSound
  BY DEF StoreInvariant, StoreIsSound, UndoneStaysUndone, DiskFits, Clean
<1> QED BY <1>1, StoreBegins, StoreIsKept, PTL

-----------------------------------------------------------------------------
(* What is on the file.  Whoever is at the revision on disk has the title  *)
(* that is there, and its rows at least; except the agent that a rewrite   *)
(* has brought up to date, and its thread that outlives it, which may know *)
(* an older title: but then rows were undone.                              *)

NowKnows(p) ==
  agent[Now(p)].rev = disk.rev =>
    /\ agent[Now(p)].title = disk.title \/ (job[p].op = "switch" /\ undone # {})
    /\ ~Lingering /\ job[p].op # "switch" => IsPrefix(disk.hist, agent[Now(p)].hist)

OldKnows(p) ==
  /\ agent[Old(p)].late \/ agent[Old(p)] = Closed
  /\ agent[Old(p)].rev = disk.rev => agent[Old(p)].title = disk.title \/ undone # {}

\* An operation remembers the file as it was at its revision, which the client
\* has confirmed if it takes something away.
JobKnows(p) ==
  /\ job[p].op = "title" /\ job[p].rev = disk.rev /\ ~Lingering =>
       IsPrefix(disk.hist, job[p].hist)
  /\ job[p].op = "undo" /\ job[p].rev = disk.rev =>
       IsPrefix(job[p].hist, disk.hist) /\ Len(job[p].hist) < Len(disk.hist)
  /\ job[p].op \in {"undo", "delete"} => offer[p] = job[p].rev

\* No row is twice in a history.
RowsAreDistinct ==
  /\ IsInjective(disk.hist) /\ \A s \in Slots : IsInjective(agent[s].hist)
  /\ \A p \in Procs : IsInjective(job[p].hist)

Knowledge == RowsAreDistinct /\ \A p \in Procs : NowKnows(p) /\ OldKnows(p) /\ JobKnows(p)

LEMMA PartsOfAHistory ==
  ASSUME NEW S, NEW h \in Seq(S)
  PROVE  /\ IsPrefix(h, h)
         /\ \A g \in Seq(S), x \in S : IsPrefix(g, h) => IsPrefix(g, Append(h, x))
         /\ \A n \in 0..Len(h) : IsPrefix(SubSeq(h, 1, n), h) /\ Len(SubSeq(h, 1, n)) = n
<1>1. IsPrefix(h, h) BY DEF IsPrefix
<1>2. ASSUME NEW g \in Seq(S), NEW x \in S, IsPrefix(g, h)
      PROVE  IsPrefix(g, Append(h, x))
  <2>1. Len(g) <= Len(h) /\ Len(Append(h, x)) = Len(h) + 1 /\ Len(g) \in Nat /\ Len(h) \in Nat
    BY <1>2 DEF IsPrefix
  <2>2. SubSeq(Append(h, x), 1, Len(g)) = SubSeq(h, 1, Len(g)) BY <2>1
  <2> QED BY <1>2, <2>1, <2>2 DEF IsPrefix
<1>3. ASSUME NEW n \in 0..Len(h)
      PROVE  IsPrefix(SubSeq(h, 1, n), h) /\ Len(SubSeq(h, 1, n)) = n
  <2>1. Len(SubSeq(h, 1, n)) = n /\ SubSeq(SubSeq(h, 1, n), 1, n) = SubSeq(h, 1, n)
    OBVIOUS
  <2> QED BY <2>1 DEF IsPrefix
<1> QED BY <1>1, <1>2, <1>3

LEMMA DistinctParts ==
  ASSUME NEW S, NEW h \in Seq(S), IsInjective(h)
  PROVE  /\ \A x \in S : x \notin ToSet(h) => IsInjective(Append(h, x))
         /\ \A n \in 0..Len(h) : IsInjective(SubSeq(h, 1, n))
         /\ \A g \in Seq(S) : IsPrefix(g, h) /\ Len(g) < Len(h) => ToSet(h) \ ToSet(g) # {}
<1>1. ASSUME NEW x \in S, x \notin ToSet(h)
      PROVE  IsInjective(Append(h, x))
  <2>1. /\ DOMAIN Append(h, x) = (DOMAIN h) \cup {Len(h) + 1} /\ Append(h, x)[Len(h) + 1] = x
        /\ \A i \in DOMAIN h : Append(h, x)[i] = h[i] /\ h[i] # x
    BY <1>1 DEF ToSet
  <2> QED BY <2>1 DEF IsInjective
<1>2. ASSUME NEW n \in 0..Len(h)
      PROVE  IsInjective(SubSeq(h, 1, n))
  <2>1. /\ DOMAIN SubSeq(h, 1, n) = 1..n
        /\ \A i \in 1..n : SubSeq(h, 1, n)[i] = h[i] /\ i \in DOMAIN h
    OBVIOUS
  <2> QED BY <2>1 DEF IsInjective
<1>3. ASSUME NEW g \in Seq(S), IsPrefix(g, h), Len(g) < Len(h)
      PROVE  ToSet(h) \ ToSet(g) # {}
  <2>1. /\ Len(g) \in Nat /\ Len(h) \in DOMAIN h /\ DOMAIN g = 1..Len(g) /\ Len(h) \notin 1..Len(g)
    BY <1>3
  <2>2. \A i \in DOMAIN g : g[i] = h[i] /\ i \in DOMAIN h /\ i # Len(h)
    <3> TAKE i \in DOMAIN g
    <3>1. SubSeq(g, 1, Len(g))[i] = g[i] /\ SubSeq(h, 1, Len(g))[i] = h[i] /\ i \in DOMAIN h
      BY <1>3, <2>1
    <3> QED BY <1>3, <2>1, <3>1 DEF IsPrefix
  <2>3. h[Len(h)] \in ToSet(h) /\ h[Len(h)] \notin ToSet(g)
    BY <2>1, <2>2 DEF IsInjective, ToSet
  <2> QED BY <2>3
<1> QED BY <1>1, <1>2, <1>3

(* How a step may move the file under the others.                          *)
FileFollows ==
  /\ UNCHANGED setting /\ undone \subseteq undone'
  /\ \/ disk'.rev = disk.rev + 1
     \/ disk'.rev = disk.rev /\ disk'.hist = disk.hist /\ disk'.title = disk.title

\* What a step may change on the file, and who has asked for it.
StepAgrees ==
  /\ Lingering \/ History!Next \/ UNCHANGED History!hvars
  /\ disk'.title # disk.title =>
       \/ \E p \in Procs : job[p].op = "title" /\ job[p].title = disk'.title
       \/ undone # {} /\ \E s \in Slots : agent[s].late
  /\ ~Lingering /\ (Len(disk'.hist) < Len(disk.hist) \/ (disk'.deleted /\ ~disk.deleted)) =>
       \E p \in Procs : job[p].op \in {"undo", "delete"} /\ offer[p] = disk.rev

LEMMA NowStaysKnown ==
  ASSUME StoreInvariant, NEW p \in Procs, NowKnows(p), FileFollows,
         agent'[Now(p)] = agent[Now(p)], job'[p].op = "switch" <=> job[p].op = "switch"
  PROVE  NowKnows(p)'
<1>1. /\ agent[Now(p)].rev \in Nat /\ disk.rev \in Nat /\ agent[Now(p)].rev <= disk.rev
      /\ Lingering' = Lingering
  BY BeforeAStep DEF ProcFits, FileFollows, Lingering
<1>2. CASE disk'.rev = disk.rev + 1 BY <1>1, <1>2 DEF NowKnows
<1>3. CASE disk'.rev = disk.rev /\ disk'.hist = disk.hist /\ disk'.title = disk.title
  BY <1>1, <1>3 DEF NowKnows, FileFollows
<1> QED BY <1>2, <1>3 DEF FileFollows

LEMMA OldStaysKnown ==
  ASSUME StoreInvariant, NEW p \in Procs, OldKnows(p), FileFollows,
         agent'[Old(p)] = agent[Old(p)]
  PROVE  OldKnows(p)'
<1>1. /\ agent[Old(p)].rev \in Nat /\ disk.rev \in Nat /\ agent[Old(p)].rev <= disk.rev
  BY BeforeAStep DEF ProcFits
<1>2. CASE disk'.rev = disk.rev + 1 BY <1>1, <1>2 DEF OldKnows
<1>3. CASE disk'.rev = disk.rev /\ disk'.hist = disk.hist /\ disk'.title = disk.title
  BY <1>1, <1>3 DEF OldKnows, FileFollows
<1> QED BY <1>2, <1>3 DEF FileFollows

LEMMA JobStaysKnown ==
  ASSUME StoreInvariant, NEW p \in Procs, JobKnows(p), FileFollows,
         job'[p] = job[p], offer'[p] = offer[p]
  PROVE  JobKnows(p)'
<1>1. /\ job[p].rev \in Nat /\ disk.rev \in Nat /\ job[p].rev <= disk.rev
      /\ Lingering' = Lingering
  BY BeforeAStep DEF ProcFits, FileFollows, Lingering
<1>2. CASE disk'.rev = disk.rev + 1 BY <1>1, <1>2 DEF JobKnows
<1>3. CASE disk'.rev = disk.rev /\ disk'.hist = disk.hist /\ disk'.title = disk.title
  BY <1>1, <1>3 DEF JobKnows
<1> QED BY <1>2, <1>3 DEF FileFollows

LEMMA OthersStayKnown ==
  ASSUME StoreInvariant, Knowledge, NEW p \in Procs, OnlyOf(p), FileFollows,
         \A q \in Procs \ {p} : offer'[q] = offer[q],
         NowKnows(p)', OldKnows(p)', JobKnows(p)', RowsAreDistinct'
  PROVE  Knowledge'
<1> SUFFICES ASSUME NEW q \in Procs \ {p}
             PROVE  NowKnows(q)' /\ OldKnows(q)' /\ JobKnows(q)'
  BY DEF Knowledge
<1> QED BY NowStaysKnown, OldStaysKnown, JobStaysKnown DEF Knowledge, OnlyOf

LEMMA WhatTheFileShows ==
  ASSUME disk \in Disks, NEW hist \in Seq(Row), NEW title \in Titles,
         disk' = Written(hist, title)
  PROVE  /\ disk'.rev = disk.rev + 1 /\ disk'.hist = hist /\ disk'.title = title
         /\ disk'.deleted = disk.deleted
BY DEF Written, NextRev

LEMMA SaveSplits ==
  ASSUME StoreInvariant, NEW s \in Slots, NEW hist \in Seq(Row), NEW title \in Titles,
         NEW kept \in Agents, NEW failed \in Agents, Save(s, hist, title, kept, failed),
         kept.rev = agent[s].rev
  PROVE  /\ \A r \in Slots : r # s => agent'[r] = agent[r]
         /\ \/ disk' = disk /\ agent'[s] = failed
            \/ /\ Fence(agent[s].rev) /\ disk' = Written(hist, title)
               /\ \/ agent'[s] = failed
                  \/ /\ agent'[s].rev = disk.rev + 1 /\ agent'[s].hist = kept.hist
                     /\ agent'[s].title = kept.title /\ agent'[s].late = kept.late
<1>1. PICK x : /\ agent' = [agent EXCEPT ![s] = x]
               /\ \/ x = failed /\ disk' = disk
                  \/ /\ Fence(agent[s].rev) /\ disk' = Written(hist, title)
                     /\ x = failed \/ x = [kept EXCEPT !.rev = NextRev(kept.rev)]
  BY DEF Save
<1>2. agent \in [Slots -> Agents] BY StoreIsTyped DEF StoreInvariant
<1>3. agent'[s] = x /\ \A r \in Slots : r # s => agent'[r] = agent[r]
  BY <1>1, <1>2
<1>4. CASE x = failed BY <1>1, <1>3, <1>4
<1>5. CASE Fence(agent[s].rev) /\ x = [kept EXCEPT !.rev = NextRev(kept.rev)]
           /\ disk' = Written(hist, title)
  <2>1. /\ x.rev = kept.rev + 1 /\ x.hist = kept.hist /\ x.title = kept.title
        /\ x.late = kept.late
    BY <1>5 DEF NextRev, Agents
  <2> QED BY <1>3, <1>5, <2>1 DEF Fence
<1> QED BY <1>1, <1>4, <1>5

LEMMA UntouchedAgrees ==
  ASSUME StoreInvariant, disk' = disk
  PROVE  StepAgrees
<1>1. disk.hist \in Seq(Row) BY StoreIsTyped DEF StoreInvariant, Disks
<1> QED BY <1>1 DEF StepAgrees, History!hvars

LEMMA WriteAgrees ==
  ASSUME StoreInvariant, NEW hist \in Seq(Row), NEW title \in Titles, NEW n, Fence(n),
         disk' = Written(hist, title), ~Lingering => IsPrefix(disk.hist, hist),
         \/ title = disk.title
         \/ \E p \in Procs : job[p].op = "title" /\ job[p].title = title
         \/ undone # {} /\ \E s \in Slots : agent[s].late
  PROVE  StepAgrees
<1>1. disk \in Disks /\ ~disk.deleted BY StoreIsTyped DEF StoreInvariant, Fence
<1>2. /\ disk'.hist = hist /\ disk'.title = title /\ disk'.deleted = disk.deleted
  BY <1>1, WhatTheFileShows
<1>3. ~Lingering => History!Extend
  BY <1>1, <1>2 DEF History!Extend, History!IsPrefix, IsPrefix
<1>4. ~Lingering => ~(Len(disk'.hist) < Len(disk.hist))
  <2>1. Len(hist) \in Nat /\ Len(disk.hist) \in Nat BY <1>1 DEF Disks
  <2> QED BY <1>2, <2>1 DEF IsPrefix
<1> QED BY <1>1, <1>2, <1>3, <1>4 DEF StepAgrees, History!Next

LEMMA NothingIsRepeated == IsInjective(<<>>)
<1>1. DOMAIN <<>> = {} OBVIOUS
<1> QED BY <1>1 DEF IsInjective

(* The saves of an agent.                                                  *)
LEMMA SaveIsKnown ==
  ASSUME StoreInvariant, Knowledge, NEW p \in Procs, NEW s \in {Now(p), Old(p)},
         NEW hist \in Seq(Row), NEW title \in Titles, NEW kept \in Agents, NEW failed \in Agents,
         Save(s, hist, title, kept, failed), kept.rev = agent[s].rev,
         UNCHANGED <<setting, undone>>,
         IsInjective(hist), IsInjective(kept.hist), IsInjective(failed.hist),
         \A q \in Procs : IsInjective(job'[q].hist)
  PROVE  /\ RowsAreDistinct' /\ FileFollows
         /\ \A r \in Slots : r # s => agent'[r] = agent[r]
         /\ \/ disk' = disk /\ agent'[s] = failed
            \/ /\ Fence(agent[s].rev) /\ disk' = Written(hist, title)
               /\ disk'.rev = disk.rev + 1 /\ disk'.hist = hist /\ disk'.title = title
               /\ \/ agent'[s] = failed
                  \/ /\ agent'[s].rev = disk.rev + 1 /\ agent'[s].hist = kept.hist
                     /\ agent'[s].title = kept.title /\ agent'[s].late = kept.late
<1>1. s \in Slots /\ disk \in Disks BY BeforeAStep
<1>2. /\ \A r \in Slots : r # s => agent'[r] = agent[r]
      /\ \/ disk' = disk /\ agent'[s] = failed
         \/ /\ Fence(agent[s].rev) /\ disk' = Written(hist, title)
            /\ \/ agent'[s] = failed
               \/ /\ agent'[s].rev = disk.rev + 1 /\ agent'[s].hist = kept.hist
                  /\ agent'[s].title = kept.title /\ agent'[s].late = kept.late
  BY <1>1, SaveSplits
<1>3. disk' = Written(hist, title) =>
        disk'.rev = disk.rev + 1 /\ disk'.hist = hist /\ disk'.title = title
  BY <1>1, WhatTheFileShows
<1>4. FileFollows BY <1>2, <1>3 DEF FileFollows
<1>5. IsInjective(agent'[s].hist) /\ IsInjective(disk'.hist)
  BY <1>2, <1>3 DEF Knowledge, RowsAreDistinct
<1>6. \A r \in Slots : IsInjective(agent'[r].hist)
  BY <1>2, <1>5 DEF Knowledge, RowsAreDistinct
<1>7. RowsAreDistinct' BY <1>5, <1>6 DEF RowsAreDistinct, Slots
<1> QED BY <1>2, <1>3, <1>4, <1>7

LEMMA FirstSaveIsKnown ==
  ASSUME StoreInvariant, Knowledge, NEW p \in Procs, FirstSave(p), UNCHANGED setting
  PROVE  Knowledge' /\ StepAgrees
<1> DEFINE a == agent[Now(p)]
           kept == [a EXCEPT !.open = "yes"]
<1>1. /\ a.open = "opening" /\ Save(Now(p), a.hist, a.title, kept, Closed)
      /\ UNCHANGED <<setting, offer, undone, crashes, rows, job>>
  BY DEF FirstSave
<1>2. /\ a \in Agents /\ disk \in Disks /\ disk.rev \in Nat /\ disk.rev # 0 /\ ProcFits(p)
      /\ Now(p) \in Slots /\ Old(p) \in Slots /\ Now(p) # Old(p) /\ Titles # {}
  BY BeforeAStep DEF DiskFits
<1>3. /\ a.hist \in Seq(Row) /\ a.title \in Titles /\ kept \in Agents /\ kept.rev = a.rev
      /\ kept.hist = a.hist /\ kept.title = a.title
  BY <1>2 DEF Agents
<1>4. Closed \in Agents /\ Closed.rev = 0 /\ Closed.hist = <<>> /\ IsInjective(<<>>)
  BY <1>2, NothingIsClosed, NothingIsRepeated
<1>5. /\ IsInjective(a.hist) /\ \A q \in Procs : IsInjective(job'[q].hist)
      /\ NowKnows(p) /\ OldKnows(p) /\ JobKnows(p) /\ job[p].op # "switch"
  BY <1>1, <1>2 DEF Knowledge, RowsAreDistinct, ProcFits
<1> HIDE DEF kept
<1>6. /\ RowsAreDistinct' /\ FileFollows
      /\ \A r \in Slots : r # Now(p) => agent'[r] = agent[r]
      /\ \/ disk' = disk /\ agent'[Now(p)] = Closed
         \/ /\ Fence(a.rev) /\ disk' = Written(a.hist, a.title)
            /\ disk'.rev = disk.rev + 1 /\ disk'.hist = a.hist /\ disk'.title = a.title
            /\ \/ agent'[Now(p)] = Closed
               \/ /\ agent'[Now(p)].rev = disk.rev + 1 /\ agent'[Now(p)].hist = kept.hist
                  /\ agent'[Now(p)].title = kept.title /\ agent'[Now(p)].late = kept.late
  BY <1>1, <1>3, <1>4, <1>5, SaveIsKnown
<1>7. NowKnows(p)'
  <2>1. CASE agent'[Now(p)] = Closed BY <1>2, <1>4, <1>6, <2>1 DEF NowKnows
  <2>2. CASE disk'.hist = a.hist /\ disk'.title = a.title
             /\ agent'[Now(p)].hist = kept.hist /\ agent'[Now(p)].title = kept.title
    BY <1>3, <2>2, PartsOfAHistory DEF NowKnows
  <2> QED BY <1>6, <2>1, <2>2
<1>8. OldKnows(p)' /\ JobKnows(p)' /\ OnlyOf(p)
  BY <1>1, <1>2, <1>5, <1>6, TheSlots, OldStaysKnown, JobStaysKnown DEF OnlyOf
<1>9. StepAgrees
  <2>1. CASE disk' = disk BY <2>1, UntouchedAgrees
  <2>2. CASE Fence(a.rev) /\ disk' = Written(a.hist, a.title)
    BY <1>3, <1>5, <2>2, WriteAgrees DEF NowKnows, Fence
  <2> QED BY <1>6, <2>1, <2>2
<1> QED BY <1>1, <1>6, <1>7, <1>8, <1>9, OthersStayKnown

LEMMA RecordIsKnown ==
  ASSUME StoreInvariant, Knowledge, NEW s \in Slots, Record(s), UNCHANGED setting
  PROVE  Knowledge' /\ StepAgrees
<1> DEFINE a == agent[s]
           grown == [a EXCEPT !.hist = Append(a.hist, rows + 1)]
<1>1. /\ a.busy \/ a.late
      /\ rows < MaxRows /\ rows' = rows + 1
      /\ Save(s, grown.hist, a.title, grown, grown)
      /\ UNCHANGED <<setting, offer, undone, crashes, job>>
  BY DEF Record
<1>2. PICK p \in Procs : s \in {Now(p), Old(p)} BY TheSlots
<1>3. /\ a \in Agents /\ disk \in Disks /\ disk.rev \in Nat /\ ProcFits(p) /\ rows \in 0..MaxRows
      /\ MaxRows \in Nat /\ Now(p) \in Slots /\ Old(p) \in Slots /\ Now(p) # Old(p)
      /\ disk.hist \in Seq(Row) /\ Titles # {}
  BY <1>2, BeforeAStep
<1>4. /\ rows + 1 \in Row /\ a.hist \in Seq(Row) /\ a.title \in Titles /\ a.rev \in Nat
      /\ rows + 1 \notin ToSet(a.hist)
  BY <1>1, <1>2, <1>3 DEF Agents, Row, ProcFits
<1>5. /\ grown \in Agents /\ grown.rev = a.rev /\ grown.late = a.late /\ grown.title = a.title
      /\ grown.hist = Append(a.hist, rows + 1) /\ grown.hist \in Seq(Row)
  <2>1. Append(a.hist, rows + 1) \in Seq(Row) BY <1>4, RowsOfAHistory
  <2> QED BY <1>3, <2>1 DEF Agents
<1>6. /\ NowKnows(p) /\ OldKnows(p) /\ JobKnows(p) /\ IsInjective(a.hist)
      /\ \A q \in Procs : IsInjective(job'[q].hist)
  BY <1>1 DEF Knowledge, RowsAreDistinct
<1>7. IsInjective(grown.hist) BY <1>4, <1>5, <1>6, DistinctParts
<1> HIDE DEF grown
<1>8. /\ RowsAreDistinct' /\ FileFollows
      /\ \A r \in Slots : r # s => agent'[r] = agent[r]
      /\ \/ disk' = disk /\ agent'[s] = grown
         \/ /\ Fence(a.rev) /\ disk' = Written(grown.hist, a.title)
            /\ disk'.rev = disk.rev + 1 /\ disk'.hist = grown.hist /\ disk'.title = a.title
            /\ \/ agent'[s] = grown
               \/ /\ agent'[s].rev = disk.rev + 1 /\ agent'[s].hist = grown.hist
                  /\ agent'[s].title = grown.title /\ agent'[s].late = grown.late
  <2>1. /\ Save(s, grown.hist, a.title, grown, grown) /\ UNCHANGED <<setting, undone>>
        /\ grown \in Agents /\ grown.hist \in Seq(Row) /\ a.title \in Titles
        /\ grown.rev = agent[s].rev /\ IsInjective(grown.hist)
        /\ \A q \in Procs : IsInjective(job'[q].hist)
    BY <1>1, <1>4, <1>5, <1>6, <1>7
  <2> HIDE DEF a
  <2> QED BY <1>2, <2>1, SaveIsKnown DEF a
<1>9. ~Lingering => s = Now(p) /\ job[p].op = "none"
  BY <1>1, <1>2, <1>3, NothingIsClosed DEF ProcFits, InTime
<1>10. ~Lingering /\ a.rev = disk.rev => IsPrefix(disk.hist, grown.hist)
  BY <1>3, <1>4, <1>5, <1>6, <1>9, PartsOfAHistory DEF NowKnows
<1>11. s = Old(p) => a.late BY <1>1, <1>3, <1>6, NothingIsClosed DEF OldKnows
<1>12. s = Now(p) /\ job[p].op = "switch" => a.late BY <1>1, <1>3 DEF ProcFits
<1>13. NowKnows(p)'
  <2>1. CASE s # Now(p) BY <1>1, <1>3, <1>6, <1>8, <2>1, NowStaysKnown
  <2>2. CASE s = Now(p) /\ disk' = disk /\ agent'[s] = grown
    BY <1>1, <1>5, <1>6, <1>10, <2>2 DEF NowKnows, Lingering
  <2>3. CASE agent'[s] = grown /\ Fence(a.rev) /\ disk'.rev = disk.rev + 1 /\ s = Now(p)
    BY <1>3, <1>5, <2>3 DEF NowKnows, Fence
  <2>4. CASE s = Now(p) /\ disk'.hist = grown.hist /\ disk'.title = a.title
             /\ agent'[s].hist = grown.hist /\ agent'[s].title = grown.title
    BY <1>5, <2>4, PartsOfAHistory DEF NowKnows
  <2> QED BY <1>8, <2>1, <2>2, <2>3, <2>4
<1>14. OldKnows(p)'
  <2>1. CASE s # Old(p) BY <1>3, <1>6, <1>8, <2>1, OldStaysKnown
  <2>2. CASE s = Old(p)
    <3>1. agent'[s].late BY <1>5, <1>8, <1>11, <2>2
    <3>2. agent'[s].title = a.title BY <1>5, <1>8
    <3>3. CASE disk' = disk /\ agent'[s] = grown
      BY <1>1, <1>5, <1>6, <2>2, <3>1, <3>2, <3>3 DEF OldKnows
    <3>4. CASE disk'.title = a.title BY <2>2, <3>1, <3>2, <3>4 DEF OldKnows
    <3> QED BY <1>8, <3>3, <3>4
  <2> QED BY <2>1, <2>2
<1>15. JobKnows(p)' /\ OnlyOf(p)
  BY <1>1, <1>2, <1>6, <1>8, TheSlots, JobStaysKnown DEF OnlyOf
<1>16. StepAgrees
  <2>1. CASE disk' = disk BY <2>1, UntouchedAgrees
  <2>2. CASE Fence(a.rev) /\ disk' = Written(grown.hist, a.title)
    <3>1. a.title = disk.title \/ (undone # {} /\ a.late)
      <4>1. CASE s = Now(p) BY <1>6, <1>12, <2>2, <4>1 DEF NowKnows, Fence
      <4>2. CASE s = Old(p) BY <1>6, <1>11, <2>2, <4>2 DEF OldKnows, Fence
      <4> QED BY <1>2, <4>1, <4>2
    <3>2. ~Lingering => IsPrefix(disk.hist, grown.hist) BY <1>10, <2>2 DEF Fence
    <3> QED BY <1>4, <1>5, <2>2, <3>1, <3>2, WriteAgrees
  <2> QED BY <1>8, <2>1, <2>2
<1> QED BY <1>1, <1>8, <1>13, <1>14, <1>15, <1>16, OthersStayKnown

(* The steps that leave the file alone.                                    *)
LEMMA QuietIsKnown ==
  ASSUME StoreInvariant, Knowledge, NEW p \in Procs, OnlyOf(p),
         UNCHANGED <<setting, disk, undone>>, \A q \in Procs \ {p} : offer'[q] = offer[q],
         NowKnows(p)', OldKnows(p)', JobKnows(p)', IsInjective(agent'[Now(p)].hist),
         IsInjective(agent'[Old(p)].hist), IsInjective(job'[p].hist)
  PROVE  Knowledge' /\ StepAgrees
<1>1. ASSUME NEW s \in Slots
      PROVE  IsInjective(agent'[s].hist)
  <2>1. PICK q \in Procs : s \in {Now(q), Old(q)} BY TheSlots
  <2>2. CASE q = p BY <2>1, <2>2
  <2>3. CASE q # p BY <2>1, <2>3 DEF OnlyOf, Knowledge, RowsAreDistinct
  <2> QED BY <2>2, <2>3
<1>2. \A q \in Procs : IsInjective(job'[q].hist)
  BY DEF OnlyOf, Knowledge, RowsAreDistinct
<1>3. RowsAreDistinct' BY <1>1, <1>2 DEF Knowledge, RowsAreDistinct, Slots
<1>4. FileFollows BY DEF FileFollows
<1> QED BY <1>3, <1>4, UntouchedAgrees, OthersStayKnown

LEMMA OpenIsKnown ==
  ASSUME StoreInvariant, Knowledge, NEW p \in Procs, Open(p), UNCHANGED setting
  PROVE  Knowledge' /\ StepAgrees
<1>1. /\ agent' = [agent EXCEPT ![Now(p)] = Loaded] /\ job[p].op = "none"
      /\ UNCHANGED <<setting, disk, job, offer, rows, undone, crashes, faults>>
  BY BeforeAStep, NothingIsClosed DEF Open, Smooth, Free
<1>2. /\ agent'[Now(p)] = Loaded /\ agent'[Old(p)] = agent[Old(p)] /\ OnlyOf(p)
  BY <1>1, SlotStep, LoadedAgent, BeforeAStep
<1>3. /\ Loaded.hist = disk.hist /\ Loaded.title = disk.title /\ disk.hist \in Seq(Row)
  BY BeforeAStep DEF Loaded
<1>4. /\ IsInjective(disk.hist) /\ OldKnows(p) /\ JobKnows(p) /\ IsInjective(agent[Old(p)].hist)
      /\ IsInjective(job[p].hist)
  BY TheSlots DEF Knowledge, RowsAreDistinct
<1>5. FileFollows BY <1>1 DEF FileFollows
<1>6. NowKnows(p)' BY <1>1, <1>2, <1>3, PartsOfAHistory DEF NowKnows
<1>7. OldKnows(p)' /\ JobKnows(p)'
  BY <1>1, <1>2, <1>4, <1>5, OldStaysKnown, JobStaysKnown
<1> QED BY <1>1, <1>2, <1>3, <1>4, <1>6, <1>7, QuietIsKnown

\* A slot that keeps its session.
LEMMA TurnIsKnown ==
  ASSUME StoreInvariant, Knowledge, NEW p \in Procs, StartTurn(p) \/ EndTurn(p),
         UNCHANGED setting
  PROVE  Knowledge' /\ StepAgrees
<1> DEFINE a == agent[Now(p)]
<1>1. UNCHANGED <<setting, disk, job, offer, rows, undone, crashes, faults>> /\ a \in Agents
  BY BeforeAStep DEF StartTurn, EndTurn, Smooth
<1>2. PICK x \in Agents : /\ agent' = [agent EXCEPT ![Now(p)] = x] /\ x.rev = a.rev
                          /\ x.hist = a.hist /\ x.title = a.title
  <2>1. CASE StartTurn(p)
    <3>1. /\ [a EXCEPT !.busy = TRUE] \in Agents /\ [a EXCEPT !.busy = TRUE].rev = a.rev
          /\ [a EXCEPT !.busy = TRUE].hist = a.hist /\ [a EXCEPT !.busy = TRUE].title = a.title
      BY <1>1 DEF Agents
    <3>2. agent' = [agent EXCEPT ![Now(p)] = [a EXCEPT !.busy = TRUE]]
      BY <2>1 DEF StartTurn
    <3> QED BY <3>1, <3>2
  <2>2. CASE EndTurn(p)
    <3>1. PICK lingers \in {FALSE, Lingering} :
            agent' = [agent EXCEPT ![Now(p)] =
                        [a EXCEPT !.busy = FALSE, !.late = a.late \/ lingers]]
      BY <2>2 DEF EndTurn
    <3> DEFINE x == [a EXCEPT !.busy = FALSE, !.late = a.late \/ lingers]
    <3>2. (a.late \/ lingers) \in BOOLEAN BY <1>1 DEF Agents
    <3>3. x \in Agents /\ x.rev = a.rev /\ x.hist = a.hist /\ x.title = a.title
      BY <1>1, <3>2 DEF Agents
    <3>4. agent' = [agent EXCEPT ![Now(p)] = x] BY <3>1
    <3> HIDE DEF x
    <3> QED BY <3>3, <3>4
  <2> QED BY <2>1, <2>2
<1>3. /\ agent'[Now(p)] = x /\ agent'[Old(p)] = agent[Old(p)] /\ OnlyOf(p)
  BY <1>1, <1>2, SlotStep, BeforeAStep
<1>4. /\ NowKnows(p) /\ OldKnows(p) /\ JobKnows(p) /\ IsInjective(agent[Old(p)].hist)
      /\ IsInjective(job[p].hist) /\ IsInjective(a.hist)
  BY TheSlots DEF Knowledge, RowsAreDistinct
<1>5. FileFollows BY <1>1 DEF FileFollows
<1>6. NowKnows(p)' BY <1>1, <1>2, <1>3, <1>4 DEF NowKnows, Lingering
<1>7. OldKnows(p)' /\ JobKnows(p)'
  BY <1>1, <1>3, <1>4, <1>5, OldStaysKnown, JobStaysKnown
<1> QED BY <1>1, <1>2, <1>3, <1>4, <1>6, <1>7, QuietIsKnown

LEMMA ThreadIsKnown ==
  ASSUME StoreInvariant, Knowledge, NEW s \in Slots, ThreadEnds(s), UNCHANGED setting
  PROVE  Knowledge' /\ StepAgrees
<1>1. PICK p \in Procs : s \in {Now(p), Old(p)} BY TheSlots
<1>2. UNCHANGED <<setting, disk, job, offer, rows, undone, crashes, faults>>
  BY DEF ThreadEnds, Smooth
<1>3. /\ Closed \in Agents /\ Closed.rev = 0 /\ Closed.hist = <<>> /\ IsInjective(<<>>)
      /\ disk.rev # 0 /\ Now(p) # Old(p) /\ agent[s] \in Agents
  BY <1>1, BeforeAStep, NothingIsClosed, NothingIsRepeated DEF DiskFits
<1>4. /\ NowKnows(p) /\ OldKnows(p) /\ JobKnows(p) /\ IsInjective(agent[Old(p)].hist)
      /\ IsInjective(job[p].hist) /\ IsInjective(agent[Now(p)].hist)
  BY TheSlots DEF Knowledge, RowsAreDistinct
<1>5. FileFollows BY <1>2 DEF FileFollows
<1>6. CASE s = Old(p)
  <2>1. agent' = [agent EXCEPT ![s] = Closed] BY <1>6, TheSlots DEF ThreadEnds
  <2>2. /\ agent'[Old(p)] = Closed /\ agent'[Now(p)] = agent[Now(p)] /\ OnlyOf(p)
    BY <1>1, <1>2, <1>3, <1>6, <2>1, SlotStep
  <2>3. OldKnows(p)' BY <1>2, <1>3, <2>2 DEF OldKnows
  <2>4. NowKnows(p)' /\ JobKnows(p)'
    BY <1>2, <1>4, <1>5, <2>2, NowStaysKnown, JobStaysKnown
  <2> QED BY <1>2, <1>3, <1>4, <2>2, <2>3, <2>4, QuietIsKnown
<1>7. CASE s = Now(p)
  <2> DEFINE x == [agent[s] EXCEPT !.late = FALSE]
  <2>1. /\ x \in Agents /\ x.rev = agent[s].rev /\ x.hist = agent[s].hist
        /\ x.title = agent[s].title
    BY <1>3 DEF Agents
  <2>2. agent' = [agent EXCEPT ![s] = x] BY <1>7, TheSlots DEF ThreadEnds
  <2> HIDE DEF x
  <2>3. /\ agent'[Now(p)] = x /\ agent'[Old(p)] = agent[Old(p)] /\ OnlyOf(p)
    BY <1>1, <1>2, <1>3, <1>7, <2>1, <2>2, SlotStep
  <2>4. NowKnows(p)' BY <1>2, <1>4, <1>7, <2>1, <2>3 DEF NowKnows, Lingering
  <2>5. OldKnows(p)' /\ JobKnows(p)'
    BY <1>2, <1>4, <1>5, <2>3, OldStaysKnown, JobStaysKnown
  <2> QED BY <1>2, <1>4, <1>7, <2>1, <2>3, <2>4, <2>5, QuietIsKnown
<1> QED BY <1>1, <1>6, <1>7

LEMMA ReadIsKnown ==
  ASSUME StoreInvariant, Knowledge, NEW p \in Procs, TitleRead(p) \/ UndoRead(p) \/ DeleteRead(p),
         UNCHANGED setting
  PROVE  Knowledge' /\ StepAgrees
<1> DEFINE a == agent[Now(p)]
<1>1. /\ UNCHANGED <<setting, disk, agent, offer, rows, undone, crashes, faults>>
      /\ job[p].op = "none"
  BY BeforeAStep, NothingIsClosed DEF TitleRead, UndoRead, DeleteRead, Smooth, Editing, Free
<1>2. /\ disk.rev \in Nat /\ disk.hist \in Seq(Row) /\ disk.title \in Titles /\ a \in Agents
      /\ NoJob \in Jobs /\ NoJob.hist = <<>> /\ IsInjective(<<>>)
      /\ job \in [Procs -> Jobs]
  BY BeforeAStep, NothingIsClosed, NothingIsRepeated
<1>3. a.rev \in Nat /\ a.hist \in Seq(Row) BY <1>2 DEF Agents
<1>4. /\ NowKnows(p) /\ OldKnows(p) /\ IsInjective(agent[Old(p)].hist) /\ IsInjective(a.hist)
      /\ IsInjective(disk.hist)
  BY TheSlots DEF Knowledge, RowsAreDistinct
<1>5. FileFollows BY <1>1 DEF FileFollows
<1>6. PICK x \in Jobs :
        /\ job' = [job EXCEPT ![p] = x] /\ x.op \in {"title", "undo", "delete"}
        /\ IsInjective(x.hist)
        /\ x.op = "title" /\ x.rev = disk.rev /\ ~Lingering => IsPrefix(disk.hist, x.hist)
        /\ x.op # "title" => x.rev = offer[p]
        /\ x.op = "undo" => IsPrefix(x.hist, disk.hist) /\ Len(x.hist) < Len(disk.hist)
  <2>1. CASE TitleRead(p)
    <3>1. PICK t \in Titles, n \in {a.rev, disk.rev}, h \in {a.hist, disk.hist} :
            /\ job' = [job EXCEPT ![p] = [op |-> "title", rev |-> n, hist |-> h, title |-> t]]
            /\ h = disk.hist \/ (n = a.rev /\ h = a.hist)
      BY <2>1 DEF TitleRead
    <3> DEFINE x == [op |-> "title", rev |-> n, hist |-> h, title |-> t]
    <3>2. x \in Jobs /\ x.op = "title" /\ x.rev = n /\ x.hist = h
      BY <1>2, <1>3, <3>1 DEF Jobs
    <3>3. n = disk.rev /\ ~Lingering => IsPrefix(disk.hist, h)
      BY <1>1, <1>2, <1>4, <3>1, PartsOfAHistory DEF NowKnows
    <3>4. job' = [job EXCEPT ![p] = x] /\ IsInjective(h) BY <1>4, <3>1
    <3> HIDE DEF x
    <3> QED BY <3>2, <3>3, <3>4
  <2>2. CASE UndoRead(p)
    <3>1. PICK n \in 0..(Len(disk.hist) - 1) :
            job' = [job EXCEPT ![p] = [op |-> "undo", rev |-> disk.rev,
                                       hist |-> SubSeq(disk.hist, 1, n), title |-> disk.title]]
      BY <2>2 DEF UndoRead
    <3>2. n \in 0..Len(disk.hist) /\ n < Len(disk.hist) /\ offer[p] = disk.rev
      BY <1>2, <2>2 DEF UndoRead, Confirmed
    <3> DEFINE h == SubSeq(disk.hist, 1, n)
               x == [op |-> "undo", rev |-> disk.rev, hist |-> h, title |-> disk.title]
    <3>3. h \in Seq(Row) /\ IsInjective(h) /\ IsPrefix(h, disk.hist) /\ Len(h) = n
      <4>1. h \in Seq(Row) BY <1>2, <3>2, RowsOfAHistory
      <4>2. IsInjective(h) BY <1>2, <1>4, <3>2, DistinctParts
      <4>3. IsPrefix(h, disk.hist) /\ Len(h) = n BY <1>2, <3>2, PartsOfAHistory
      <4> QED BY <4>1, <4>2, <4>3
    <3> HIDE DEF h
    <3>4. x \in Jobs /\ x.op = "undo" /\ x.rev = disk.rev /\ x.hist = h
      BY <1>2, <3>3 DEF Jobs
    <3>5. job' = [job EXCEPT ![p] = x] BY <3>1 DEF h
    <3> HIDE DEF x
    <3> QED BY <3>2, <3>3, <3>4, <3>5
  <2>3. CASE DeleteRead(p)
    <3> DEFINE x == [NoJob EXCEPT !.op = "delete", !.rev = disk.rev]
    <3>1. /\ job' = [job EXCEPT ![p] = x] /\ x \in Jobs /\ x.op = "delete" /\ x.rev = disk.rev
          /\ x.hist = NoJob.hist /\ offer[p] = disk.rev
      BY <1>2, <2>3 DEF DeleteRead, Confirmed, Jobs
    <3> HIDE DEF x
    <3> QED BY <1>2, <3>1
  <2> QED BY <2>1, <2>2, <2>3
<1>7. job'[p] = x /\ OnlyOf(p) BY <1>1, <1>6, JobStep
<1>8. JobKnows(p)' BY <1>1, <1>6, <1>7 DEF JobKnows, Lingering
<1>9. NowKnows(p)' /\ OldKnows(p)'
  BY <1>1, <1>4, <1>5, <1>6, <1>7, NowStaysKnown, OldStaysKnown
<1> QED BY <1>1, <1>4, <1>6, <1>7, <1>8, <1>9, QuietIsKnown

LEMMA NoJobIsKnown ==
  ASSUME StoreInvariant, NEW p \in Procs, job'[p] = NoJob
  PROVE  JobKnows(p)' /\ IsInjective(job'[p].hist)
BY BeforeAStep, NothingIsClosed, NothingIsRepeated DEF JobKnows

LEMMA AskIsKnown ==
  ASSUME StoreInvariant, Knowledge, NEW p \in Procs, Ask(p), UNCHANGED setting
  PROVE  Knowledge' /\ StepAgrees
<1>1. /\ offer' = [offer EXCEPT ![p] = disk.rev] /\ job[p] = NoJob
      /\ UNCHANGED <<setting, disk, agent, job, rows, undone, crashes, faults>>
  BY DEF Ask, Editing, Free, Smooth
<1>2. /\ OnlyOf(p) /\ FileFollows /\ \A q \in Procs \ {p} : offer'[q] = offer[q]
  BY <1>1, BeforeAStep DEF OnlyOf, FileFollows
<1>3. /\ NowKnows(p) /\ OldKnows(p) /\ IsInjective(agent[Old(p)].hist)
      /\ IsInjective(agent[Now(p)].hist)
  BY TheSlots DEF Knowledge, RowsAreDistinct
<1>4. NowKnows(p)' /\ OldKnows(p)' /\ JobKnows(p)' /\ IsInjective(job'[p].hist)
  BY <1>1, <1>2, <1>3, NowStaysKnown, OldStaysKnown, NoJobIsKnown
<1> QED BY <1>1, <1>2, <1>3, <1>4, QuietIsKnown

\* An agent that is given up for another; its thread may outlive it.
LEMMA RetiredIsKnown ==
  ASSUME StoreInvariant, Knowledge, NEW p \in Procs, NEW next \in {Closed, Loaded},
         agent' = Retired(p, next), FileFollows, job'[p] = NoJob,
         next = Loaded => UNCHANGED <<disk, undone>>
  PROVE  /\ NowKnows(p)' /\ OldKnows(p)' /\ IsInjective(agent'[Now(p)].hist)
         /\ IsInjective(agent'[Old(p)].hist)
         /\ \A q \in Procs \ {p} : agent'[Now(q)] = agent[Now(q)] /\ agent'[Old(q)] = agent[Old(q)]
<1>1. /\ Closed \in Agents /\ Closed.rev = 0 /\ Closed.hist = <<>> /\ Loaded \in Agents
      /\ Loaded.hist = disk.hist /\ Loaded.title = disk.title
      /\ NoJob.op = "none" /\ IsInjective(<<>>)
  BY BeforeAStep, NothingIsClosed, LoadedAgent, NothingIsRepeated DEF Loaded
<1>2. /\ agent'[Now(p)] = next
      /\ agent'[Old(p)] = IF agent[Now(p)].late THEN agent[Now(p)] ELSE agent[Old(p)]
      /\ \A q \in Procs \ {p} : agent'[Now(q)] = agent[Now(q)] /\ agent'[Old(q)] = agent[Old(q)]
  BY <1>1, AgentIsGivenUp
<1>3. /\ disk.rev \in Nat /\ disk.rev # 0 /\ disk.hist \in Seq(Row) /\ agent[Now(p)].rev \in Nat
      /\ agent[Now(p)].rev <= disk.rev
  BY BeforeAStep DEF DiskFits, ProcFits
<1>4. /\ NowKnows(p) /\ OldKnows(p) /\ IsInjective(agent[Old(p)].hist)
      /\ IsInjective(agent[Now(p)].hist) /\ IsInjective(disk.hist)
  BY TheSlots DEF Knowledge, RowsAreDistinct
<1>5. NowKnows(p)' /\ IsInjective(agent'[Now(p)].hist)
  <2>1. CASE next = Closed
    <3>1. disk'.rev # 0 BY <1>3 DEF FileFollows
    <3> QED BY <1>1, <1>2, <2>1, <3>1 DEF NowKnows
  <2>2. CASE next = Loaded
    BY <1>1, <1>2, <1>3, <1>4, <2>2, PartsOfAHistory DEF NowKnows
  <2> QED BY <2>1, <2>2
<1>6. OldKnows(p)'
  <2>1. CASE agent[Now(p)].late
    <3>1. CASE disk'.rev = disk.rev + 1 BY <1>2, <1>3, <2>1, <3>1 DEF OldKnows
    <3>2. CASE disk'.rev = disk.rev /\ disk'.title = disk.title
      BY <1>2, <1>4, <2>1, <3>2 DEF OldKnows, NowKnows, FileFollows
    <3> QED BY <3>1, <3>2 DEF FileFollows
  <2>2. CASE ~agent[Now(p)].late BY <1>2, <1>4, <2>2, OldStaysKnown
  <2> QED BY <2>1, <2>2
<1> QED BY <1>2, <1>4, <1>5, <1>6

LEMMA SwitchIsKnown ==
  ASSUME StoreInvariant, Knowledge, NEW p \in Procs, Switch(p), UNCHANGED setting
  PROVE  Knowledge' /\ StepAgrees
<1>1. PICK next \in {Closed, Loaded} :
        /\ agent' = Retired(p, next) /\ job' = [job EXCEPT ![p] = NoJob]
        /\ UNCHANGED <<setting, disk, offer, rows, undone, crashes, faults>>
  BY DEF Switch, Smooth
<1>2. /\ job'[p] = NoJob /\ \A q \in Procs \ {p} : job'[q] = job[q]
  BY <1>1, BeforeAStep
<1>3. FileFollows BY <1>1 DEF FileFollows
<1>4. /\ NowKnows(p)' /\ OldKnows(p)' /\ IsInjective(agent'[Now(p)].hist)
      /\ IsInjective(agent'[Old(p)].hist) /\ OnlyOf(p)
  BY <1>1, <1>2, <1>3, RetiredIsKnown DEF OnlyOf
<1> QED BY <1>1, <1>2, <1>4, NoJobIsKnown, QuietIsKnown

LEMMA CrashIsKnown ==
  ASSUME StoreInvariant, Knowledge, NEW p \in Procs, Crash(p), UNCHANGED setting
  PROVE  Knowledge' /\ StepAgrees
<1>1. /\ agent' = [agent EXCEPT ![Now(p)] = Closed, ![Old(p)] = Closed]
      /\ job' = [job EXCEPT ![p] = NoJob] /\ offer' = [offer EXCEPT ![p] = 0]
      /\ UNCHANGED <<setting, disk, rows, undone, faults>>
  BY DEF Crash
<1>2. /\ agent \in [Slots -> Agents] /\ Now(p) \in Slots /\ Old(p) \in Slots /\ Now(p) # Old(p)
      /\ job \in [Procs -> Jobs] /\ offer \in [Procs -> Nat] /\ disk.rev # 0
      /\ Closed.rev = 0 /\ Closed.hist = <<>> /\ IsInjective(<<>>)
  BY BeforeAStep, NothingIsClosed, NothingIsRepeated DEF DiskFits
<1>3. /\ agent'[Now(p)] = Closed /\ agent'[Old(p)] = Closed
      /\ \A r \in Slots : r # Now(p) /\ r # Old(p) => agent'[r] = agent[r]
  BY <1>1, <1>2
<1>4. /\ job'[p] = NoJob /\ \A q \in Procs \ {p} : job'[q] = job[q] /\ offer'[q] = offer[q]
  BY <1>1, <1>2
<1>5. OnlyOf(p) BY <1>3, <1>4, TheSlots DEF OnlyOf
<1>6. NowKnows(p)' /\ OldKnows(p)' BY <1>1, <1>2, <1>3 DEF NowKnows, OldKnows
<1> QED BY <1>1, <1>2, <1>3, <1>4, <1>5, <1>6, NoJobIsKnown, QuietIsKnown

(* The operations that write.                                              *)
LEMMA WriteIsKnown ==
  ASSUME StoreInvariant, Knowledge, NEW p \in Procs, job'[p] = NoJob,
         \A q \in Procs \ {p} : job'[q] = job[q], UNCHANGED offer, FileFollows,
         IsInjective(disk'.hist),
         \/ UNCHANGED agent /\ job[p].op # "switch"
         \/ agent' = Retired(p, Closed)
  PROVE  Knowledge'
<1>1. /\ NowKnows(p) /\ OldKnows(p) /\ \A s \in Slots : IsInjective(agent[s].hist)
      /\ \A q \in Procs : IsInjective(job[q].hist)
  BY DEF Knowledge, RowsAreDistinct
<1>2. JobKnows(p)' /\ IsInjective(job'[p].hist) /\ NoJob.op = "none"
  BY NoJobIsKnown, BeforeAStep, NothingIsClosed
<1>3. \A q \in Procs : IsInjective(job'[q].hist) BY <1>1, <1>2
<1>4. /\ NowKnows(p)' /\ OldKnows(p)' /\ OnlyOf(p)
      /\ \A s \in Slots : IsInjective(agent'[s].hist)
  <2>1. CASE UNCHANGED agent /\ job[p].op # "switch"
    BY <1>1, <1>2, <2>1, NowStaysKnown, OldStaysKnown DEF OnlyOf
  <2>2. CASE agent' = Retired(p, Closed)
    <3>1. /\ NowKnows(p)' /\ OldKnows(p)' /\ IsInjective(agent'[Now(p)].hist)
          /\ IsInjective(agent'[Old(p)].hist)
          /\ \A q \in Procs \ {p} : agent'[Now(q)] = agent[Now(q)]
                                    /\ agent'[Old(q)] = agent[Old(q)]
      <4>1. Closed = Loaded => FALSE
        BY BeforeAStep, NothingIsClosed, LoadedAgent
      <4> QED BY <2>2, <4>1, RetiredIsKnown
    <3>2. ASSUME NEW s \in Slots
          PROVE  IsInjective(agent'[s].hist)
      <4>1. PICK q \in Procs : s \in {Now(q), Old(q)} BY TheSlots
      <4> QED BY <1>1, <3>1, <4>1
    <3> QED BY <3>1, <3>2 DEF OnlyOf
  <2> QED BY <2>1, <2>2
<1>5. RowsAreDistinct' BY <1>3, <1>4 DEF RowsAreDistinct, Slots
<1> QED BY <1>2, <1>4, <1>5, OthersStayKnown

LEMMA TitleOfAnotherIsKnown ==
  ASSUME StoreInvariant, Knowledge, NEW p \in Procs, TitleWrite(p), ~Has(p), UNCHANGED setting
  PROVE  Knowledge' /\ StepAgrees
<1>1. /\ job[p].op = "title" /\ job' = [job EXCEPT ![p] = NoJob]
      /\ UNCHANGED <<setting, agent, offer, rows, undone, crashes>>
      /\ \/ UNCHANGED disk
         \/ Fence(job[p].rev) /\ disk' = Written(job[p].hist, job[p].title)
  BY DEF TitleWrite
<1>2. job'[p] = NoJob /\ \A q \in Procs \ {p} : job'[q] = job[q]
  BY <1>1, BeforeAStep
<1>3. /\ job[p].hist \in Seq(Row) /\ job[p].title \in Titles /\ disk \in Disks
  BY RemembersWell, BeforeAStep
<1>4. JobKnows(p) /\ IsInjective(job[p].hist) /\ IsInjective(disk.hist)
  BY DEF Knowledge, RowsAreDistinct
<1>5. CASE UNCHANGED disk
  <2>1. FileFollows /\ IsInjective(disk'.hist)
    BY <1>1, <1>4, <1>5 DEF FileFollows
  <2> QED BY <1>1, <1>2, <1>5, <2>1, WriteIsKnown, UntouchedAgrees
<1>6. CASE Fence(job[p].rev) /\ disk' = Written(job[p].hist, job[p].title)
  <2>1. disk'.rev = disk.rev + 1 /\ disk'.hist = job[p].hist
    BY <1>3, <1>6, WhatTheFileShows
  <2>2. FileFollows BY <1>1, <2>1 DEF FileFollows
  <2>3. StepAgrees BY <1>1, <1>3, <1>4, <1>6, WriteAgrees DEF JobKnows, Fence
  <2> QED BY <1>1, <1>2, <1>4, <2>1, <2>2, <2>3, WriteIsKnown
<1> QED BY <1>1, <1>5, <1>6

LEMMA TitleIsKnown ==
  ASSUME StoreInvariant, Knowledge, NEW p \in Procs, TitleWrite(p), Has(p), UNCHANGED setting
  PROVE  Knowledge' /\ StepAgrees
<1> DEFINE a == agent[Now(p)]
           kept == [a EXCEPT !.title = job[p].title]
<1>1. /\ job[p].op = "title" /\ job' = [job EXCEPT ![p] = NoJob]
      /\ UNCHANGED <<setting, offer, rows, undone, crashes>>
      /\ Save(Now(p), job[p].hist, job[p].title, kept, a)
  BY DEF TitleWrite
<1>2. /\ a \in Agents /\ a.rev \in Nat /\ disk.rev \in Nat /\ ProcFits(p) /\ disk \in Disks
      /\ Now(p) \in Slots /\ Old(p) \in Slots /\ Now(p) # Old(p)
      /\ job[p].hist \in Seq(Row) /\ job[p].title \in Titles
  BY BeforeAStep, RemembersWell
<1>3. /\ kept \in Agents /\ kept.rev = a.rev /\ kept.hist = a.hist
      /\ kept.title = job[p].title
  BY <1>2 DEF Agents
<1>4. /\ job'[p] = NoJob /\ \A q \in Procs \ {p} : job'[q] = job[q]
  BY <1>1, BeforeAStep
<1>5. JobKnows(p)' /\ IsInjective(job'[p].hist) /\ NoJob.op = "none"
  BY <1>4, NoJobIsKnown, BeforeAStep, NothingIsClosed
<1>6. /\ NowKnows(p) /\ OldKnows(p) /\ IsInjective(a.hist) /\ IsInjective(job[p].hist)
      /\ \A q \in Procs : IsInjective(job'[q].hist)
  BY <1>2, <1>4, <1>5 DEF Knowledge, RowsAreDistinct
<1> HIDE DEF kept
<1>7. /\ RowsAreDistinct' /\ FileFollows
      /\ \A r \in Slots : r # Now(p) => agent'[r] = agent[r]
      /\ \/ disk' = disk /\ agent'[Now(p)] = a
         \/ /\ Fence(a.rev) /\ disk' = Written(job[p].hist, job[p].title)
            /\ disk'.rev = disk.rev + 1 /\ disk'.hist = job[p].hist
            /\ disk'.title = job[p].title
            /\ \/ agent'[Now(p)] = a
               \/ /\ agent'[Now(p)].rev = disk.rev + 1 /\ agent'[Now(p)].hist = kept.hist
                  /\ agent'[Now(p)].title = kept.title /\ agent'[Now(p)].late = kept.late
  <2>1. /\ Save(Now(p), job[p].hist, job[p].title, kept, a) /\ UNCHANGED <<setting, undone>>
        /\ kept.rev = agent[Now(p)].rev /\ IsInjective(kept.hist) /\ IsInjective(a.hist)
    BY <1>1, <1>3, <1>6
  <2> HIDE DEF a
  <2> QED BY <1>2, <1>3, <1>6, <2>1, SaveIsKnown DEF a
<1>8. ~Lingering => job[p].hist = a.hist BY <1>1, <1>2 DEF ProcFits, InTime
<1>9. NowKnows(p)'
  <2>1. CASE agent'[Now(p)] = a
    BY <1>1, <1>4, <1>5, <1>6, <1>7, <2>1, NowStaysKnown
  <2>2. CASE disk'.hist = job[p].hist /\ disk'.title = job[p].title
             /\ agent'[Now(p)].hist = kept.hist /\ agent'[Now(p)].title = kept.title
    BY <1>1, <1>2, <1>3, <1>8, <2>2, PartsOfAHistory DEF NowKnows, Lingering
  <2> QED BY <1>7, <2>1, <2>2
<1>10. OldKnows(p)' /\ OnlyOf(p)
  BY <1>2, <1>4, <1>6, <1>7, TheSlots, OldStaysKnown DEF OnlyOf
<1>11. StepAgrees
  <2>1. CASE disk' = disk BY <2>1, UntouchedAgrees
  <2>2. CASE Fence(a.rev) /\ disk' = Written(job[p].hist, job[p].title)
    <3>1. ~Lingering => IsPrefix(disk.hist, job[p].hist)
      BY <1>1, <1>6, <1>8, <2>2 DEF NowKnows, Fence
    <3> QED BY <1>1, <1>2, <2>2, <3>1, WriteAgrees
  <2> QED BY <1>7, <2>1, <2>2
<1> QED BY <1>1, <1>5, <1>7, <1>9, <1>10, <1>11, OthersStayKnown

LEMMA DeleteIsKnown ==
  ASSUME StoreInvariant, Knowledge, NEW p \in Procs, DeleteWrite(p), UNCHANGED setting
  PROVE  Knowledge' /\ StepAgrees
<1>1. /\ job[p].op = "delete" /\ job' = [job EXCEPT ![p] = NoJob]
      /\ UNCHANGED <<setting, agent, offer, rows, undone, crashes>>
      /\ disk' = disk \/ (Fence(job[p].rev) /\ disk' = [disk EXCEPT !.deleted = TRUE])
  BY DEF DeleteWrite
<1>2. job'[p] = NoJob /\ \A q \in Procs \ {p} : job'[q] = job[q]
  BY <1>1, BeforeAStep
<1>3. disk \in Disks /\ disk.hist \in Seq(Row) BY BeforeAStep
<1>4. JobKnows(p) /\ IsInjective(disk.hist) BY DEF Knowledge, RowsAreDistinct
<1>5. disk'.rev = disk.rev /\ disk'.hist = disk.hist /\ disk'.title = disk.title
  BY <1>1, <1>3 DEF Disks
<1>6. Knowledge'
  <2>1. FileFollows /\ IsInjective(disk'.hist)
    BY <1>1, <1>4, <1>5 DEF FileFollows
  <2> QED BY <1>1, <1>2, <2>1, WriteIsKnown
<1>7. StepAgrees
  <2>1. CASE disk' = disk BY <2>1, UntouchedAgrees
  <2>2. CASE Fence(job[p].rev) /\ disk' = [disk EXCEPT !.deleted = TRUE]
    <3>1. disk'.deleted = TRUE /\ ~disk.deleted /\ offer[p] = disk.rev
      BY <1>1, <1>3, <1>4, <2>2 DEF Fence, JobKnows, Disks
    <3>2. History!Delete BY <1>5, <3>1 DEF History!Delete
    <3> QED BY <1>1, <1>5, <3>1, <3>2 DEF StepAgrees, History!Next
  <2> QED BY <1>1, <2>1, <2>2
<1> QED BY <1>6, <1>7

\* What is taken away was confirmed, and there is something that is.
LEMMA CutAgrees ==
  ASSUME StoreInvariant, Knowledge, NEW p \in Procs, job[p].op = "undo", Fence(job[p].rev),
         Cut(p), UNCHANGED setting
  PROVE  /\ StepAgrees /\ FileFollows /\ disk'.rev = disk.rev + 1 /\ IsInjective(disk'.hist)
         /\ undone' # {}
<1>1. /\ disk' = Written(job[p].hist, disk.title)
      /\ undone' = undone \cup (ToSet(disk.hist) \ ToSet(job[p].hist))
  BY DEF Cut
<1>2. /\ disk \in Disks /\ disk.hist \in Seq(Row) /\ disk.title \in Titles
      /\ job[p].hist \in Seq(Row) /\ ~disk.deleted /\ job[p].rev = disk.rev
  BY BeforeAStep, RemembersWell DEF Fence
<1>3. /\ disk'.rev = disk.rev + 1 /\ disk'.hist = job[p].hist /\ disk'.title = disk.title
      /\ disk'.deleted = disk.deleted
  BY <1>1, <1>2, WhatTheFileShows
<1>4. /\ IsPrefix(job[p].hist, disk.hist) /\ Len(job[p].hist) < Len(disk.hist)
      /\ offer[p] = disk.rev /\ IsInjective(disk.hist) /\ IsInjective(job[p].hist)
  BY <1>2 DEF Knowledge, JobKnows, RowsAreDistinct
<1>5. ToSet(disk.hist) \ ToSet(job[p].hist) # {} BY <1>2, <1>4, DistinctParts
<1>6. History!Rewrite
  BY <1>2, <1>3, <1>4 DEF History!Rewrite, History!IsPrefix, IsPrefix
<1>7. StepAgrees BY <1>2, <1>3, <1>4, <1>6 DEF StepAgrees, History!Next
<1> QED BY <1>1, <1>3, <1>4, <1>5, <1>7 DEF FileFollows

LEMMA UndoIsKnown ==
  ASSUME StoreInvariant, Knowledge, NEW p \in Procs, UndoWrite(p), UNCHANGED setting
  PROVE  Knowledge' /\ StepAgrees
<1> DEFINE a == agent[Now(p)]
           Committed == /\ Fence(job[p].rev) /\ Cut(p)
                        /\ agent' = [agent EXCEPT ![Now(p)].rev = NextRev(job[p].rev)]
                        /\ job' = [job EXCEPT ![p] = [NoJob EXCEPT !.op = "switch"]]
<1>1. job[p].op = "undo" /\ UNCHANGED <<setting, offer, rows, crashes>>
  BY DEF UndoWrite
<1>2. IsInjective(disk.hist) /\ OldKnows(p) /\ \A s \in Slots : IsInjective(agent[s].hist)
  BY DEF Knowledge, RowsAreDistinct
<1>3. CASE Committed
  <2>1. /\ disk.rev \in Nat /\ job[p].rev = disk.rev /\ a \in Agents /\ Now(p) # Old(p)
        /\ Now(p) \in Slots /\ Old(p) \in Slots /\ Titles # {} /\ job \in [Procs -> Jobs]
    BY <1>3, BeforeAStep DEF Fence
  <2>2. /\ StepAgrees /\ FileFollows /\ disk'.rev = disk.rev + 1 /\ IsInjective(disk'.hist)
        /\ undone' # {}
    BY <1>1, <1>3, CutAgrees
  <2> DEFINE x == [a EXCEPT !.rev = disk.rev + 1]
             y == [NoJob EXCEPT !.op = "switch"]
  <2>3. /\ x \in Agents /\ x.hist = a.hist /\ agent' = [agent EXCEPT ![Now(p)] = x]
    BY SMTT(60), <1>3, <2>1 DEF Agents, NextRev
  <2>4. /\ y \in Jobs /\ y.op = "switch" /\ y.hist = <<>> /\ job' = [job EXCEPT ![p] = y]
    BY <1>3, <2>1, NothingIsClosed DEF Jobs
  <2> HIDE DEF x, y
  <2>5. /\ agent'[Now(p)] = x /\ \A r \in Slots : r # Now(p) => agent'[r] = agent[r]
    BY <2>1, <2>3, BeforeAStep
  <2>6. /\ job'[p] = y /\ \A q \in Procs \ {p} : job'[q] = job[q] BY <2>1, <2>4
  <2>7. OnlyOf(p) /\ agent'[Old(p)] = agent[Old(p)]
    BY <2>1, <2>5, <2>6, TheSlots DEF OnlyOf
  <2>8. RowsAreDistinct'
    <3>1. \A s \in Slots : IsInjective(agent'[s].hist) BY <1>2, <2>1, <2>3, <2>5
    <3>2. \A q \in Procs : IsInjective(job'[q].hist)
      BY <2>4, <2>6, NothingIsRepeated DEF Knowledge, RowsAreDistinct
    <3> QED BY <2>2, <3>1, <3>2 DEF RowsAreDistinct, Slots
  <2>9. NowKnows(p)' /\ OldKnows(p)' /\ JobKnows(p)'
    BY <1>2, <2>2, <2>4, <2>6, <2>7, OldStaysKnown DEF NowKnows, JobKnows
  <2> QED BY <1>1, <2>2, <2>7, <2>8, <2>9, OthersStayKnown
<1>4. CASE ~Committed
  <2>1. /\ job' = [job EXCEPT ![p] = NoJob]
        /\ UNCHANGED <<disk, undone>> \/ (Cut(p) /\ Fence(job[p].rev))
        /\ UNCHANGED agent \/ agent' = Retired(p, Closed)
    BY <1>4 DEF UndoWrite
  <2>2. job'[p] = NoJob /\ \A q \in Procs \ {p} : job'[q] = job[q]
    BY <2>1, BeforeAStep
  <2>3. FileFollows /\ IsInjective(disk'.hist) /\ StepAgrees
    <3>1. CASE UNCHANGED <<disk, undone>>
      BY <1>1, <1>2, <3>1, UntouchedAgrees DEF FileFollows
    <3>2. CASE Cut(p) /\ Fence(job[p].rev) BY <1>1, <3>2, CutAgrees
    <3> QED BY <2>1, <3>1, <3>2
  <2> QED BY <1>1, <2>1, <2>2, <2>3, WriteIsKnown
<1> QED BY <1>3, <1>4

LEMMA KnownAtFirst ==
  ASSUME StoreInit
  PROVE  Knowledge
<1>1. PICK t \in Titles : disk = [hist |-> <<>>, title |-> t, rev |-> 1, deleted |-> FALSE]
  BY DEF StoreInit
<1>2. agent = [s \in Slots |-> Closed] /\ job = [p \in Procs |-> NoJob]
  BY DEF StoreInit
<1>3. /\ Closed.rev = 0 /\ Closed.hist = <<>> /\ NoJob.hist = <<>> /\ NoJob.op = "none"
      /\ IsInjective(<<>>)
  BY <1>1, NothingIsClosed, NothingIsRepeated
<1>4. \A p \in Procs : agent[Now(p)] = Closed /\ agent[Old(p)] = Closed /\ job[p] = NoJob
  BY <1>2, TheSlots
<1>5. disk.hist = <<>> /\ disk.rev = 1 BY <1>1
<1> QED
  BY <1>2, <1>3, <1>4, <1>5 DEF Knowledge, RowsAreDistinct, NowKnows, OldKnows, JobKnows

LEMMA StepsAgree ==
  ASSUME StoreInvariant, Knowledge, StoreNext
  PROVE  Knowledge' /\ StepAgrees
<1>1. UNCHANGED setting BY DEF StoreNext
<1>2. ASSUME NEW p \in Procs,
             \/ Open(p) \/ FirstSave(p) \/ StartTurn(p) \/ EndTurn(p)
             \/ TitleRead(p) \/ TitleWrite(p) \/ Ask(p) \/ UndoRead(p) \/ UndoWrite(p)
             \/ Switch(p) \/ DeleteRead(p) \/ DeleteWrite(p) \/ Crash(p)
      PROVE  Knowledge' /\ StepAgrees
  BY <1>1, <1>2, OpenIsKnown, FirstSaveIsKnown, TurnIsKnown, ReadIsKnown, TitleIsKnown,
     TitleOfAnotherIsKnown, AskIsKnown, UndoIsKnown, SwitchIsKnown, DeleteIsKnown, CrashIsKnown
<1>3. ASSUME NEW s \in Slots, Record(s) \/ ThreadEnds(s)
      PROVE  Knowledge' /\ StepAgrees
  BY <1>1, <1>3, RecordIsKnown, ThreadIsKnown
<1> QED BY <1>2, <1>3 DEF StoreNext

LEMMA KnowledgeStutters ==
  ASSUME StoreInvariant, Knowledge, UNCHANGED storeVars
  PROVE  Knowledge' /\ StepAgrees
<1>1. Knowledge'
  BY DEF Knowledge, RowsAreDistinct, NowKnows, OldKnows, JobKnows, Lingering, Slots, storeVars
<1> QED BY <1>1, UntouchedAgrees DEF storeVars

\* A stored session is a history (SessionHistory) to its readers, where threads
\* end with their turns: no save of a stale copy takes away what another process
\* has saved, a title changes only as it was asked for, and what an undo, a clear
\* or a deletion removes is what the client has seen and confirmed
\* (SessionStore.save with its fence, update_title, undo_session, delete_session).
THEOREM WritersAgree == StoreInit /\ [][StoreNext]_storeVars => SharedWritesAgree
<1>1. StoreInit => StoreInvariant /\ Knowledge /\ History!Init
  BY StoreBegins, KnownAtFirst DEF StoreInit, History!Init
<1>2. StoreInvariant /\ Knowledge /\ [StoreNext]_storeVars
        => (StoreInvariant /\ Knowledge)' /\ StepAgrees
  BY StoreIsKept, StepsAgree, KnowledgeStutters
<1>3. StepAgrees => /\ [Lingering \/ History!Next \/ UNCHANGED History!hvars]_storeVars
                    /\ [disk'.title # disk.title
                        => \/ \E p \in Procs : job[p].op = "title" /\ job[p].title = disk'.title
                           \/ undone # {} /\ \E s \in Slots : agent[s].late]_storeVars
                    /\ [~Lingering /\ (Len(disk'.hist) < Len(disk.hist)
                                       \/ (disk'.deleted /\ ~disk.deleted))
                        => \E p \in Procs : job[p].op \in {"undo", "delete"}
                                            /\ offer[p] = disk.rev]_storeVars
  BY DEF StepAgrees
<1> QED BY <1>1, <1>2, <1>3, PTL
     DEF SharedWritesAgree, SessionIsHistory, ChangesAreAskedFor, TitleIsEdited,
         RemovedAsConfirmed
-----------------------------------------------------------------------------
(* Campaigns.  Whoever is at a step of an attempt holds the lock of its    *)
(* benchmark; a campaign without an output directory has done nothing;     *)
(* what is on record follows the plan; and as long as all of it was        *)
(* executed on the source that the campaign began with, no more was paid   *)
(* for than the calls of the attempts and one successful probe.            *)

CampaignSites == {"idle", "refused", "begin", "next", "preflight", "probed", "ask", "error",
                  "aborted", "done"}
Statuses == {"pass", "fail", "error", "skipped"}
PlannedRows == [place : ToSet(EvalPlan), status : Statuses, calls : Nat,
                source : Sources \cup {NoSource}, input : {InputOf[c] : c \in Campaigns}]

CampaignShape ==
  /\ tree \in Sources /\ probed \subseteq Sources /\ outputs \subseteq Campaigns
  /\ evalAt \in [Campaigns -> CampaignSites]
  /\ startedOn \in [Campaigns -> Sources \cup {NoSource}]
  /\ readAs \in [Campaigns -> Sources \cup {NoSource}]
  /\ evalRows \in [Campaigns -> Seq(PlannedRows)]
  /\ stopReason \in [Campaigns -> BOOLEAN] /\ paidCalls \in [Campaigns -> Nat]
  /\ DOMAIN results = Campaigns
  /\ DOMAIN paidLock = {BenchmarkOf[c] : c \in Campaigns}

\* The rows of a campaign, as far as they go: of the plan, executed up to the
\* first error.
FollowsPlan(list) ==
  /\ Len(list) <= Planned
  /\ \A n \in 1..Len(list) :
       /\ list[n].place = EvalPlan[n]
       /\ list[n].calls > 0 => list[n].source \in probed /\ ~list[n].source.dirty
       /\ list[n].status = "error" => \A m \in 1..Len(list) : m < n => list[m].status # "error"
       /\ list[n].status = "skipped" <=> \E m \in 1..Len(list) : m < n /\ list[m].status = "error"
Failed(list) == \E n \in 1..Len(list) : list[n].status = "error"

\* Where it stands, and what holds there.
Works == {"preflight", "probed", "ask", "error"}
Stands(c) ==
  /\ evalAt[c] \in {"begin", "next"} \cup Works => paidLock[LockOf(c)] = c
  /\ evalAt[c] \in {"next"} \cup Works => c \in outputs
  /\ evalAt[c] \in {"next"} \cup Works => (stopReason[c] <=> Failed(evalRows[c]))
  /\ evalAt[c] \in Works => ~stopReason[c] /\ Len(evalRows[c]) < Planned
  /\ evalAt[c] \in Works => ~readAs[c].dirty /\ readAs[c] \in Sources
  /\ evalAt[c] \in {"probed", "ask"} => readAs[c] \in probed
  /\ c \notin outputs =>
       evalRows[c] = <<>> /\ ~stopReason[c] /\ paidCalls[c] = 0 /\ results[c] = NoResult

\* All that it recorded was executed, within the calls, on one source.
OnOneSource(list, source) ==
  \A n \in 1..Len(list) :
    list[n].status \in {"pass", "fail"} /\ list[n].calls <= PricedCalls
      /\ list[n].source = source
Priced(c) ==
  /\ evalAt[c] \in {"next", "preflight", "probed", "ask", "done"}
  /\ evalAt[c] \in {"preflight", "probed", "ask"} => readAs[c] = startedOn[c]
  /\ OnOneSource(evalRows[c], startedOn[c])
  => paidCalls[c] <= Len(evalRows[c]) * PricedCalls
                     + (IF startedOn[c] \in probed THEN MaxProbes ELSE 0)

Concluded(c) ==
  results[c] # NoResult =>
    /\ evalAt[c] = "done" /\ c \in outputs
    /\ results[c].rows = evalRows[c] /\ Len(evalRows[c]) = Planned
    /\ results[c].gates = {"executed", "errorfree", "calls", "source"} =>
         \A n \in 1..Planned :
           evalRows[c][n].status \in {"pass", "fail"} /\ evalRows[c][n].calls <= PricedCalls

Compared ==
  comparison # NoPair =>
    /\ comparison.left \in Campaigns /\ comparison.right \in Campaigns
    /\ results[comparison.left] # NoResult /\ results[comparison.right] # NoResult
    /\ comparison.losses = Cardinality(Losses(comparison.left, comparison.right))

CampaignInvariant ==
  /\ CampaignShape /\ Compared
  /\ \A c \in Campaigns : FollowsPlan(evalRows[c]) /\ Stands(c) /\ Priced(c) /\ Concluded(c)

LEMMA ThePlan ==
  /\ Planned \in Nat /\ EvalPlan \in Seq(ToSet(EvalPlan))
  /\ PricedCalls \in Nat /\ MaxProbes \in Nat
  BY CampaignAssumption DEF Planned

LEMMA CampaignsStart ==
  ASSUME CampaignsInit
  PROVE  CampaignInvariant
<1>1. CampaignShape
  BY CampaignAssumption DEF CampaignsInit, CampaignShape, CampaignSites, Sources
<1>2. Compared BY DEF CampaignsInit, Compared
<1>3. ASSUME NEW c \in Campaigns
      PROVE  FollowsPlan(evalRows[c]) /\ Stands(c) /\ Priced(c) /\ Concluded(c)
  <2>1. evalRows[c] = <<>> /\ evalAt[c] = "idle" /\ results[c] = NoResult /\ paidCalls[c] = 0
        /\ ~stopReason[c]
    BY DEF CampaignsInit
  <2> QED BY <2>1, ThePlan DEF FollowsPlan, Stands, Priced, Concluded, Works
<1> QED BY <1>1, <1>2, <1>3 DEF CampaignInvariant

(* A step of one campaign leaves the rest as it was; only more may have    *)
(* been probed.                                                            *)
OthersStand(c) ==
  /\ probed \subseteq probed'
  /\ \A d \in Campaigns \ {c} :
       /\ evalAt'[d] = evalAt[d] /\ startedOn'[d] = startedOn[d] /\ readAs'[d] = readAs[d]
       /\ evalRows'[d] = evalRows[d] /\ stopReason'[d] = stopReason[d]
       /\ paidCalls'[d] = paidCalls[d] /\ results'[d] = results[d]
       /\ d \in outputs <=> d \in outputs'
       /\ paidLock[LockOf(d)] = d => paidLock'[LockOf(d)] = d

LEMMA OthersAreKept ==
  ASSUME CampaignInvariant, NEW c \in Campaigns, OthersStand(c), NEW d \in Campaigns \ {c}
  PROVE  (FollowsPlan(evalRows[d]) /\ Stands(d) /\ Priced(d) /\ Concluded(d))'
<1>1. FollowsPlan(evalRows[d]) /\ Stands(d) /\ Priced(d) /\ Concluded(d)
  BY DEF CampaignInvariant
<1>2. /\ probed \subseteq probed'
      /\ evalAt'[d] = evalAt[d] /\ startedOn'[d] = startedOn[d] /\ readAs'[d] = readAs[d]
      /\ evalRows'[d] = evalRows[d] /\ stopReason'[d] = stopReason[d]
      /\ paidCalls'[d] = paidCalls[d] /\ results'[d] = results[d]
      /\ d \in outputs <=> d \in outputs'
      /\ paidLock[LockOf(d)] = d => paidLock'[LockOf(d)] = d
  BY DEF OthersStand
<1>3. FollowsPlan(evalRows[d])' BY ONLY <1>1, <1>2 DEF FollowsPlan
<1>4. Stands(d)' BY ONLY <1>1, <1>2 DEF Stands, Works, Failed, LockOf
<1>5. Concluded(d)' BY ONLY <1>1, <1>2 DEF Concluded
<1>6. Priced(d)'
  <2>1. Len(evalRows[d]) \in Nat /\ paidCalls[d] \in Nat
    BY DEF CampaignInvariant, CampaignShape
  <2> DEFINE k == Len(evalRows[d]) * PricedCalls
  <2>2. k \in Nat BY <2>1, ThePlan
  <2>3. Priced(d) <=>
          (/\ evalAt[d] \in {"next", "preflight", "probed", "ask", "done"}
           /\ evalAt[d] \in {"preflight", "probed", "ask"} => readAs[d] = startedOn[d]
           /\ OnOneSource(evalRows[d], startedOn[d])
           => paidCalls[d] <= k + (IF startedOn[d] \in probed THEN MaxProbes ELSE 0))
    BY DEF Priced
  <2>4. Priced(d)' <=>
          (/\ evalAt[d] \in {"next", "preflight", "probed", "ask", "done"}
           /\ evalAt[d] \in {"preflight", "probed", "ask"} => readAs[d] = startedOn[d]
           /\ OnOneSource(evalRows[d], startedOn[d])
           => paidCalls[d] <= k + (IF startedOn[d] \in probed' THEN MaxProbes ELSE 0))
    BY <1>2 DEF Priced
  <2> HIDE DEF k
  <2> QED BY <1>1, <1>2, <2>1, <2>2, <2>3, <2>4, ThePlan
<1> QED BY <1>3, <1>4, <1>5, <1>6

(* So a step is judged by its own campaign.                                *)
LEMMA OwnStep ==
  ASSUME CampaignInvariant, NEW c \in Campaigns, OthersStand(c), CampaignShape',
         UNCHANGED comparison, results'[c] = results[c] \/ results[c] = NoResult,
         (FollowsPlan(evalRows[c]) /\ Stands(c) /\ Priced(c) /\ Concluded(c))'
  PROVE  CampaignInvariant'
<1>1. \A d \in Campaigns : (FollowsPlan(evalRows[d]) /\ Stands(d) /\ Priced(d) /\ Concluded(d))'
  BY OthersAreKept
<1>2. ASSUME NEW d \in Campaigns, results[d] # NoResult
      PROVE  results'[d] = results[d]
  BY <1>2 DEF OthersStand
<1>3. Compared'
  <2> SUFFICES ASSUME comparison # NoPair
               PROVE  Compared'
    BY DEF Compared
  <2>1. /\ comparison.left \in Campaigns /\ comparison.right \in Campaigns
        /\ results[comparison.left] # NoResult /\ results[comparison.right] # NoResult
        /\ comparison.losses = Cardinality(Losses(comparison.left, comparison.right))
    BY DEF CampaignInvariant, Compared
  <2>2. /\ results'[comparison.left] = results[comparison.left]
        /\ results'[comparison.right] = results[comparison.right]
    BY <2>1, <1>2
  <2>3. Losses(comparison.left, comparison.right)' = Losses(comparison.left, comparison.right)
    BY <2>2 DEF Losses
  <2> QED BY <2>1, <2>2, <2>3 DEF Compared
<1> QED BY <1>1, <1>3 DEF CampaignInvariant

LEMMA LockIsReleased ==
  ASSUME CampaignShape, NEW c \in Campaigns, Release(c)
  PROVE  /\ DOMAIN paidLock' = DOMAIN paidLock
         /\ \A d \in Campaigns \ {c} : paidLock[LockOf(d)] = d => paidLock'[LockOf(d)] = d
  BY DEF CampaignShape, Release, LockOf

LEMMA RowFollows ==
  ASSUME NEW list \in Seq(PlannedRows), FollowsPlan(list), Len(list) < Planned,
         NEW row \in PlannedRows, row.place = EvalPlan[Len(list) + 1],
         row.calls > 0 => row.source \in probed /\ ~row.source.dirty,
         row.status = "error" => ~Failed(list),
         row.status = "skipped" <=> Failed(list)
  PROVE  /\ FollowsPlan(Append(list, row))
         /\ Failed(Append(list, row)) <=> Failed(list) \/ row.status = "error"
<1> DEFINE all == Append(list, row)
<1>1. /\ Len(all) = Len(list) + 1 /\ Len(list) \in Nat /\ Planned \in Nat
      /\ \A n \in 1..Len(list) : all[n] = list[n]
      /\ all[Len(list) + 1] = row
  BY ThePlan
<1> HIDE DEF all
<1>2. Failed(all) <=> Failed(list) \/ row.status = "error" BY <1>1 DEF Failed
<1>3. ASSUME NEW n \in 1..Len(all)
      PROVE  /\ all[n].place = EvalPlan[n]
             /\ all[n].calls > 0 => all[n].source \in probed /\ ~all[n].source.dirty
             /\ all[n].status = "error" => \A m \in 1..Len(all) : m < n => all[m].status # "error"
             /\ all[n].status = "skipped" <=>
                  \E m \in 1..Len(all) : m < n /\ all[m].status = "error"
  <2>1. CASE n \in 1..Len(list)
    BY ONLY <1>1, <2>1, <1>3, FollowsPlan(list) DEF FollowsPlan
  <2>2. CASE n = Len(list) + 1
    <3>1. (\E m \in 1..Len(all) : m < n /\ all[m].status = "error") <=> Failed(list)
      BY ONLY <1>1, <2>2 DEF Failed
    <3> QED BY <3>1, <1>1, <2>2 DEF Failed
  <2> QED BY <1>1, <2>1, <2>2
<1>4. FollowsPlan(all) BY <1>1, <1>3 DEF FollowsPlan
<1> QED BY <1>2, <1>4 DEF all

LEMMA RowIsPlanned ==
  ASSUME CampaignShape, NEW c \in Campaigns, Len(evalRows[c]) < Planned,
         NEW status \in Statuses, NEW calls \in Nat
  PROVE  EvalRow(c, status, calls) \in PlannedRows
<1>1. Len(evalRows[c]) + 1 \in 1..Len(EvalPlan)
  BY ThePlan DEF CampaignShape, Planned
<1>2. EvalPlan[Len(evalRows[c]) + 1] \in ToSet(EvalPlan)
  BY <1>1, ThePlan DEF ToSet
<1> QED BY <1>2 DEF EvalRow, PlannedRows, CampaignShape

(* A row is written by the campaign that stands there.                     *)
LEMMA RowIsAppended ==
  ASSUME CampaignInvariant, NEW c \in Campaigns, Len(evalRows[c]) < Planned,
         NEW status \in Statuses, NEW calls \in Nat,
         Writes(c, EvalRow(c, status, calls)), UNCHANGED probed,
         status # "skipped" /\ calls > 0 => readAs[c] \in probed /\ ~readAs[c].dirty,
         status = "skipped" => calls = 0,
         status = "skipped" <=> Failed(evalRows[c])
  PROVE  /\ evalRows' \in [Campaigns -> Seq(PlannedRows)]
         /\ \A d \in Campaigns \ {c} : evalRows'[d] = evalRows[d]
         /\ FollowsPlan(evalRows[c])'
         /\ Failed(evalRows'[c]) <=> Failed(evalRows[c]) \/ status = "error"
         /\ Len(evalRows'[c]) = Len(evalRows[c]) + 1
         /\ \A n \in 1..Len(evalRows[c]) : evalRows'[c][n] = evalRows[c][n]
         /\ LET row == evalRows'[c][Len(evalRows[c]) + 1] IN
              /\ row.status = status /\ row.calls = calls
              /\ status # "skipped" => row.source = readAs[c]
<1> DEFINE row == EvalRow(c, status, calls)
<1>1. row \in PlannedRows /\ evalRows[c] \in Seq(PlannedRows)
  BY RowIsPlanned DEF CampaignInvariant, CampaignShape
<1>2. /\ row.status = status /\ row.calls = calls
      /\ row.source = IF status = "skipped" THEN NoSource ELSE readAs[c]
      /\ row.place = EvalPlan[Len(evalRows[c]) + 1]
  BY DEF EvalRow
<1> HIDE DEF row
<1>3. evalRows' = [evalRows EXCEPT ![c] = Append(evalRows[c], row)]
  BY DEF Writes, row
<1>4. evalRows \in [Campaigns -> Seq(PlannedRows)] /\ FollowsPlan(evalRows[c])
  BY DEF CampaignInvariant, CampaignShape
<1>5. evalRows'[c] = Append(evalRows[c], row) /\ Append(evalRows[c], row) \in Seq(PlannedRows)
  BY <1>1, <1>3, <1>4
<1>6. /\ FollowsPlan(Append(evalRows[c], row))
      /\ Failed(Append(evalRows[c], row)) <=> Failed(evalRows[c]) \/ row.status = "error"
  <2>1. row.calls > 0 => row.source \in probed /\ ~row.source.dirty BY <1>2
  <2>2. row.status = "error" => ~Failed(evalRows[c]) BY <1>2
  <2> QED BY <1>1, <1>2, <1>4, <2>1, <2>2, RowFollows
<1>7. FollowsPlan(evalRows[c])' BY <1>5, <1>6 DEF FollowsPlan
<1>8. /\ Len(evalRows'[c]) = Len(evalRows[c]) + 1
      /\ \A n \in 1..Len(evalRows[c]) : evalRows'[c][n] = evalRows[c][n]
      /\ evalRows'[c][Len(evalRows[c]) + 1] = row
  BY <1>1, <1>5
<1>9. evalRows' \in [Campaigns -> Seq(PlannedRows)]
      /\ \A d \in Campaigns \ {c} : evalRows'[d] = evalRows[d]
  BY <1>3, <1>4, <1>5
<1> QED BY <1>2, <1>5, <1>6, <1>7, <1>8, <1>9

LEMMA LaunchKeeps ==
  ASSUME CampaignInvariant, NEW c \in Campaigns, Launch(c)
  PROVE  CampaignInvariant'
<1>0. CampaignShape /\ FollowsPlan(evalRows[c]) /\ Stands(c) /\ Priced(c) /\ Concluded(c)
  BY DEF CampaignInvariant
<1>1. /\ UNCHANGED <<tree, probed, outputs, startedOn, readAs, evalRows, stopReason, paidCalls,
                     results, comparison>>
      /\ evalAt[c] \in {"idle", "refused"}
      /\ \/ /\ paidLock[LockOf(c)] = nobodyPays
            /\ paidLock' = [paidLock EXCEPT ![LockOf(c)] = c]
            /\ evalAt' = [evalAt EXCEPT ![c] = "begin"]
         \/ evalAt' = [evalAt EXCEPT ![c] = "refused"] /\ UNCHANGED paidLock
  BY DEF Launch, NobodyElsePays
<1>2. \A d \in Campaigns : LockOf(d) \in DOMAIN paidLock /\ d # nobodyPays
  BY <1>0, CampaignAssumption DEF CampaignShape, LockOf
<1>3. CampaignShape' BY <1>0, <1>1 DEF CampaignShape, CampaignSites
<1>4. OthersStand(c)
  <2>1. \A d \in Campaigns \ {c} : paidLock[LockOf(d)] = d => paidLock'[LockOf(d)] = d
    BY <1>1, <1>2
  <2> QED BY <2>1, <1>0, <1>1 DEF OthersStand, CampaignShape
<1>5. evalAt'[c] \in {"begin", "refused"}
      /\ (evalAt'[c] = "begin" => paidLock'[LockOf(c)] = c)
  BY <1>0, <1>1, <1>2 DEF CampaignShape
<1>6. (FollowsPlan(evalRows[c]) /\ Stands(c) /\ Priced(c) /\ Concluded(c))'
  BY <1>0, <1>1, <1>5 DEF FollowsPlan, Stands, Works, Priced, Concluded, LockOf
<1> QED BY <1>1, <1>3, <1>4, <1>6, OwnStep

LEMMA BeginsKeeps ==
  ASSUME CampaignInvariant, NEW c \in Campaigns, Begins(c)
  PROVE  CampaignInvariant'
<1>0. CampaignShape /\ FollowsPlan(evalRows[c]) /\ Stands(c) /\ Priced(c) /\ Concluded(c)
  BY DEF CampaignInvariant
<1>1. /\ UNCHANGED <<tree, probed, readAs, evalRows, stopReason, paidCalls, results, comparison>>
      /\ evalAt[c] = "begin"
  BY DEF Begins
<1>2. CASE tree.dirty \/ c \in outputs
  <2>1. evalAt' = [evalAt EXCEPT ![c] = "refused"] /\ Release(c) /\ UNCHANGED <<outputs, startedOn>>
    BY <1>2 DEF Begins
  <2>2. CampaignShape'
    BY <1>0, <1>1, <2>1, LockIsReleased DEF CampaignShape, CampaignSites
  <2>3. OthersStand(c)
    BY <1>0, <1>1, <2>1, LockIsReleased DEF OthersStand, CampaignShape
  <2>4. (FollowsPlan(evalRows[c]) /\ Stands(c) /\ Priced(c) /\ Concluded(c))'
    BY <1>0, <1>1, <2>1 DEF FollowsPlan, Stands, Works, Priced, Concluded, CampaignShape
  <2> QED BY <1>1, <2>2, <2>3, <2>4, OwnStep
<1>3. CASE ~(tree.dirty \/ c \in outputs)
  <2>1. /\ outputs' = outputs \cup {c} /\ startedOn' = [startedOn EXCEPT ![c] = tree]
        /\ evalAt' = [evalAt EXCEPT ![c] = "next"] /\ UNCHANGED paidLock
    BY <1>3 DEF Begins
  <2>2. CampaignShape' BY <1>0, <1>1, <2>1 DEF CampaignShape, CampaignSites
  <2>3. OthersStand(c) BY <1>0, <1>1, <2>1 DEF OthersStand, CampaignShape
  <2>4. evalRows[c] = <<>> /\ ~stopReason[c] /\ paidCalls[c] = 0 /\ results[c] = NoResult
    BY <1>0, <1>3 DEF Stands
  <2>5. evalAt'[c] = "next" /\ c \in outputs' BY <1>0, <2>1 DEF CampaignShape
  <2>6. FollowsPlan(evalRows[c])' /\ Concluded(c)'
    BY <1>0, <1>1, <2>4 DEF FollowsPlan, Concluded
  <2>7. Stands(c)'
    BY <1>0, <1>1, <2>1, <2>4, <2>5 DEF Stands, Works, Failed, LockOf
  <2>8. Priced(c)' BY <1>1, <2>4, <2>5, ThePlan DEF Priced
  <2> QED BY <1>1, <2>2, <2>3, <2>6, <2>7, <2>8, OwnStep
<1> QED BY <1>2, <1>3

LEMMA OneMore ==
  ASSUME NEW a \in Nat, NEW b \in Nat
  PROVE  a * b \in Nat /\ (a + 1) * b = a * b + b
  OBVIOUS

LEMMA EditKeeps ==
  ASSUME CampaignInvariant, EditSource
  PROVE  CampaignInvariant'
<1>1. /\ UNCHANGED <<paidLock, probed, evalAt, outputs, startedOn, readAs, evalRows,
                     stopReason, paidCalls, results, comparison>>
      /\ tree' \in Sources
  BY DEF EditSource
<1>2. CampaignShape' /\ Compared'
  BY <1>1 DEF CampaignInvariant, CampaignShape, Compared, Losses
<1>3. \A c \in Campaigns : (FollowsPlan(evalRows[c]) /\ Stands(c) /\ Priced(c) /\ Concluded(c))'
  BY <1>1 DEF CampaignInvariant, FollowsPlan, Stands, Works, Priced, Concluded, LockOf
<1> QED BY <1>2, <1>3 DEF CampaignInvariant

LEMMA SkipKeeps ==
  ASSUME CampaignInvariant, NEW c \in Campaigns, SkipRow(c)
  PROVE  CampaignInvariant'
<1>0. CampaignShape /\ FollowsPlan(evalRows[c]) /\ Stands(c) /\ Priced(c) /\ Concluded(c)
  BY DEF CampaignInvariant
<1>1. /\ UNCHANGED <<tree, probed, paidLock, evalAt, outputs, startedOn, readAs, stopReason,
                     paidCalls, results, comparison>>
      /\ evalAt[c] = "next" /\ Len(evalRows[c]) < Planned /\ stopReason[c]
      /\ Writes(c, EvalRow(c, "skipped", 0))
  BY DEF SkipRow
<1>2. Failed(evalRows[c]) /\ c \in outputs /\ paidLock[LockOf(c)] = c
  BY <1>0, <1>1 DEF Stands
<1>3. /\ evalRows' \in [Campaigns -> Seq(PlannedRows)]
      /\ \A d \in Campaigns \ {c} : evalRows'[d] = evalRows[d]
      /\ FollowsPlan(evalRows[c])' /\ Failed(evalRows'[c])
      /\ \E n \in 1..Len(evalRows'[c]) : evalRows'[c][n].status = "skipped"
  <2>1. "skipped" \in Statuses /\ 0 \in Nat BY DEF Statuses
  <2>2. /\ evalRows' \in [Campaigns -> Seq(PlannedRows)]
        /\ \A d \in Campaigns \ {c} : evalRows'[d] = evalRows[d]
        /\ FollowsPlan(evalRows[c])' /\ Failed(evalRows'[c])
        /\ Len(evalRows'[c]) = Len(evalRows[c]) + 1
        /\ evalRows'[c][Len(evalRows[c]) + 1].status = "skipped"
    BY <1>1, <1>2, <2>1, RowIsAppended
  <2>3. Len(evalRows[c]) + 1 \in 1..Len(evalRows'[c])
    BY <1>0, <2>2 DEF CampaignShape
  <2> QED BY <2>2, <2>3
<1>4. CampaignShape' BY <1>0, <1>1, <1>3 DEF CampaignShape
<1>5. OthersStand(c) BY <1>1, <1>3 DEF OthersStand
<1>6. Stands(c)' /\ Concluded(c)'
  BY <1>0, <1>1, <1>2, <1>3 DEF Stands, Concluded, Works, LockOf
<1>7. Priced(c)' BY <1>1, <1>3 DEF Priced, OnOneSource
<1> QED BY <1>1, <1>3, <1>4, <1>5, <1>6, <1>7, OwnStep

LEMMA BeginAttemptKeeps ==
  ASSUME CampaignInvariant, NEW c \in Campaigns, BeginAttempt(c)
  PROVE  CampaignInvariant'
<1>0. CampaignShape /\ FollowsPlan(evalRows[c]) /\ Stands(c) /\ Priced(c) /\ Concluded(c)
  BY DEF CampaignInvariant
<1>1. /\ UNCHANGED <<tree, probed, outputs, startedOn, evalRows, stopReason, paidCalls, results,
                     comparison>>
      /\ evalAt[c] = "next" /\ Len(evalRows[c]) < Planned /\ ~stopReason[c]
      /\ readAs' = [readAs EXCEPT ![c] = tree]
  BY DEF BeginAttempt
<1>2. readAs'[c] = tree BY <1>0, <1>1 DEF CampaignShape
<1>3. CASE tree.dirty
  <2>1. evalAt' = [evalAt EXCEPT ![c] = "aborted"] /\ Release(c)
    BY <1>3 DEF BeginAttempt
  <2>2. CampaignShape'
    BY <1>0, <1>1, <2>1, LockIsReleased DEF CampaignShape, CampaignSites
  <2>3. OthersStand(c)
    BY <1>0, <1>1, <2>1, LockIsReleased DEF OthersStand, CampaignShape
  <2>4. (FollowsPlan(evalRows[c]) /\ Stands(c) /\ Priced(c) /\ Concluded(c))'
    BY <1>0, <1>1, <2>1 DEF FollowsPlan, Stands, Works, Priced, Concluded, CampaignShape
  <2> QED BY <1>1, <2>2, <2>3, <2>4, OwnStep
<1>4. CASE ~tree.dirty
  <2>1. evalAt' = [evalAt EXCEPT ![c] = "preflight"] /\ UNCHANGED paidLock
    BY <1>4 DEF BeginAttempt
  <2>2. CampaignShape' BY <1>0, <1>1, <2>1 DEF CampaignShape, CampaignSites
  <2>3. OthersStand(c) BY <1>0, <1>1, <2>1 DEF OthersStand, CampaignShape
  <2>4. evalAt'[c] = "preflight" BY <1>0, <2>1 DEF CampaignShape
  <2>5. FollowsPlan(evalRows[c])' /\ Concluded(c)'
    BY <1>0, <1>1, <2>4 DEF FollowsPlan, Concluded
  <2>6. Stands(c)'
    BY <1>0, <1>1, <1>2, <1>4, <2>1, <2>4 DEF Stands, Works, LockOf, CampaignShape
  <2>7. Priced(c)' BY <1>0, <1>1, <2>4 DEF Priced
  <2> QED BY <1>1, <2>2, <2>3, <2>5, <2>6, <2>7, OwnStep
<1> QED BY <1>3, <1>4

LEMMA PreflightKeeps ==
  ASSUME CampaignInvariant, NEW c \in Campaigns, Preflight(c)
  PROVE  CampaignInvariant'
<1>0. CampaignShape /\ FollowsPlan(evalRows[c]) /\ Stands(c) /\ Priced(c) /\ Concluded(c)
  BY DEF CampaignInvariant
<1>1. /\ UNCHANGED <<tree, paidLock, outputs, startedOn, readAs, evalRows, stopReason, results,
                     comparison>>
      /\ evalAt[c] = "preflight"
  BY DEF Preflight
<1>2. /\ paidLock[LockOf(c)] = c /\ c \in outputs /\ ~stopReason[c] /\ ~Failed(evalRows[c])
      /\ Len(evalRows[c]) < Planned /\ ~readAs[c].dirty /\ readAs[c] \in Sources
  BY <1>0, <1>1 DEF Stands, Works
<1>3. CASE readAs[c] \in probed
  <2>1. evalAt' = [evalAt EXCEPT ![c] = "probed"] /\ UNCHANGED <<probed, paidCalls>>
    BY <1>3 DEF Preflight, Approval
  <2>2. CampaignShape' BY <1>0, <1>1, <2>1 DEF CampaignShape, CampaignSites
  <2>3. OthersStand(c) BY <1>0, <1>1, <2>1 DEF OthersStand, CampaignShape
  <2>4. evalAt'[c] = "probed" BY <1>0, <2>1 DEF CampaignShape
  <2>5. FollowsPlan(evalRows[c])' /\ Concluded(c)'
    BY <1>0, <1>1, <2>1, <2>4 DEF FollowsPlan, Concluded
  <2>6. Stands(c)' BY <1>1, <1>2, <1>3, <2>1, <2>4 DEF Stands, Works, LockOf
  <2>7. Priced(c)' BY <1>0, <1>1, <2>1, <2>4 DEF Priced
  <2> QED BY <1>1, <2>2, <2>3, <2>5, <2>6, <2>7, OwnStep
<1>4. CASE readAs[c] \notin probed
  <2>1. PICK n \in 1..MaxProbes, valid \in BOOLEAN :
          /\ paidCalls' = [paidCalls EXCEPT ![c] = @ + n]
          /\ probed' = IF valid THEN probed \cup {readAs[c]} ELSE probed
          /\ evalAt' = [evalAt EXCEPT ![c] = IF valid THEN "probed" ELSE "error"]
    BY <1>4 DEF Preflight, Approval
  <2>2. /\ paidCalls[c] \in Nat /\ n \in Nat /\ n <= MaxProbes
        /\ paidCalls'[c] = paidCalls[c] + n /\ probed \subseteq probed'
        /\ evalAt'[c] = IF valid THEN "probed" ELSE "error"
        /\ valid => readAs[c] \in probed'
    BY <1>0, <2>1, ThePlan DEF CampaignShape
  <2>3. CampaignShape'
    <3>1. paidCalls' \in [Campaigns -> Nat]
      BY <1>0, <2>1, <2>2 DEF CampaignShape
    <3> QED BY <1>0, <1>1, <1>2, <2>1, <3>1 DEF CampaignShape, CampaignSites
  <2>4. OthersStand(c) BY <1>0, <1>1, <2>1 DEF OthersStand, CampaignShape
  <2>5. FollowsPlan(evalRows[c])' /\ Concluded(c)'
    BY <1>0, <1>1, <2>2 DEF FollowsPlan, Concluded
  <2>6. Stands(c)' BY <1>1, <1>2, <2>2 DEF Stands, Works, LockOf
  <2>7. Priced(c)'
    <3> SUFFICES ASSUME valid, readAs[c] = startedOn[c], OnOneSource(evalRows[c], startedOn[c])
                 PROVE  paidCalls[c] + n <= Len(evalRows[c]) * PricedCalls + MaxProbes
      BY <1>1, <2>2, ThePlan DEF Priced
    <3> DEFINE k == Len(evalRows[c]) * PricedCalls
    <3>1. paidCalls[c] <= k + 0 BY <1>0, <1>1, <1>4 DEF Priced
    <3>2. k \in Nat BY <1>0, ThePlan DEF CampaignShape
    <3> HIDE DEF k
    <3>3. paidCalls[c] + n <= k + MaxProbes BY <2>2, <3>1, <3>2, ThePlan
    <3> QED BY <3>3 DEF k
  <2> QED BY <1>1, <2>3, <2>4, <2>5, <2>6, <2>7, OwnStep
<1> QED BY <1>3, <1>4

LEMMA RecheckKeeps ==
  ASSUME CampaignInvariant, NEW c \in Campaigns, Rechecked(c)
  PROVE  CampaignInvariant'
<1>0. CampaignShape /\ FollowsPlan(evalRows[c]) /\ Stands(c) /\ Priced(c) /\ Concluded(c)
  BY DEF CampaignInvariant
<1>1. /\ UNCHANGED <<tree, paidLock, probed, outputs, startedOn, readAs, evalRows, stopReason,
                     paidCalls, results, comparison>>
      /\ evalAt[c] = "probed"
      /\ evalAt' = [evalAt EXCEPT ![c] = IF tree = readAs[c] THEN "ask" ELSE "error"]
  BY DEF Rechecked
<1>2. evalAt'[c] \in {"ask", "error"} BY <1>0, <1>1 DEF CampaignShape
<1>3. CampaignShape' BY <1>0, <1>1 DEF CampaignShape, CampaignSites
<1>4. OthersStand(c) BY <1>0, <1>1 DEF OthersStand, CampaignShape
<1>5. (FollowsPlan(evalRows[c]) /\ Stands(c) /\ Priced(c) /\ Concluded(c))'
  BY <1>0, <1>1, <1>2 DEF FollowsPlan, Stands, Works, Priced, Concluded, LockOf
<1> QED BY <1>1, <1>3, <1>4, <1>5, OwnStep

LEMMA AskKeepsPlan ==
  ASSUME CampaignInvariant, NEW c \in Campaigns, AskAndGrade(c)
  PROVE  CampaignInvariant'
<1>0. CampaignShape /\ FollowsPlan(evalRows[c]) /\ Stands(c) /\ Priced(c) /\ Concluded(c)
  BY DEF CampaignInvariant
<1>1. /\ UNCHANGED <<tree, paidLock, probed, outputs, startedOn, readAs, results, comparison>>
      /\ evalAt[c] = "ask" /\ evalAt' = [evalAt EXCEPT ![c] = "next"]
  BY DEF AskAndGrade
<1>2. PICK o \in Outcomes :
        /\ paidCalls' = [paidCalls EXCEPT ![c] = @ + o.calls]
        /\ Writes(c, EvalRow(c, o.status, o.calls))
        /\ stopReason' = [stopReason EXCEPT ![c] = o.status = "error"]
  BY DEF AskAndGrade
<1>3. o.status \in {"pass", "fail", "error"} /\ o.status \in Statuses /\ o.calls \in Nat
  BY CampaignAssumption DEF Statuses
<1>4. /\ paidLock[LockOf(c)] = c /\ c \in outputs /\ ~stopReason[c] /\ ~Failed(evalRows[c])
      /\ Len(evalRows[c]) < Planned /\ ~readAs[c].dirty /\ readAs[c] \in probed
  BY <1>0, <1>1 DEF Stands, Works
<1>5. /\ evalRows' \in [Campaigns -> Seq(PlannedRows)]
      /\ \A d \in Campaigns \ {c} : evalRows'[d] = evalRows[d]
      /\ FollowsPlan(evalRows[c])' /\ (Failed(evalRows'[c]) <=> o.status = "error")
      /\ Len(evalRows'[c]) = Len(evalRows[c]) + 1
      /\ \A n \in 1..Len(evalRows[c]) : evalRows'[c][n] = evalRows[c][n]
      /\ LET row == evalRows'[c][Len(evalRows[c]) + 1] IN
           row.status = o.status /\ row.calls = o.calls /\ row.source = readAs[c]
  BY <1>1, <1>2, <1>3, <1>4, RowIsAppended
<1>6. /\ evalAt'[c] = "next" /\ paidCalls'[c] = paidCalls[c] + o.calls /\ paidCalls[c] \in Nat
      /\ (stopReason'[c] <=> o.status = "error") /\ Len(evalRows[c]) \in Nat
  <2>1. stopReason'[c] = (o.status = "error") BY <1>0, <1>2 DEF CampaignShape
  <2>2. evalAt'[c] = "next" /\ Len(evalRows[c]) \in Nat
    BY <1>0, <1>1 DEF CampaignShape
  <2>3. paidCalls'[c] = paidCalls[c] + o.calls /\ paidCalls[c] \in Nat
    BY <1>0, <1>2 DEF CampaignShape
  <2> QED BY <2>1, <2>2, <2>3
<1>7. CampaignShape'
  <2>1. paidCalls' \in [Campaigns -> Nat] /\ stopReason' \in [Campaigns -> BOOLEAN]
    BY <1>0, <1>2, <1>3, <1>6 DEF CampaignShape
  <2> QED BY <1>0, <1>1, <1>5, <2>1 DEF CampaignShape, CampaignSites
<1>8. OthersStand(c) BY <1>0, <1>1, <1>2, <1>5 DEF OthersStand, CampaignShape
<1>9. Stands(c)' /\ Concluded(c)'
  BY <1>0, <1>1, <1>4, <1>5, <1>6 DEF Stands, Concluded, Works, LockOf
<1>10. Priced(c)'
  <2> SUFFICES ASSUME OnOneSource(evalRows'[c], startedOn[c])
               PROVE  paidCalls'[c] <= (Len(evalRows[c]) + 1) * PricedCalls
                                       + (IF startedOn[c] \in probed THEN MaxProbes ELSE 0)
    BY <1>1, <1>5 DEF Priced
  <2>1. Len(evalRows[c]) + 1 \in 1..Len(evalRows'[c]) BY <1>5, <1>6
  <2>2. o.calls <= PricedCalls /\ readAs[c] = startedOn[c]
    BY <1>5, <2>1 DEF OnOneSource
  <2>3. OnOneSource(evalRows[c], startedOn[c])
    BY SMTT(60), <1>5, <1>6 DEF OnOneSource
  <2> DEFINE k == Len(evalRows[c]) * PricedCalls
  <2>4. paidCalls[c] <= k + MaxProbes BY <1>0, <1>1, <1>4, <2>2, <2>3 DEF Priced
  <2>5. k \in Nat /\ (Len(evalRows[c]) + 1) * PricedCalls = k + PricedCalls
    BY <1>6, ThePlan, OneMore
  <2> HIDE DEF k
  <2>6. paidCalls[c] + o.calls <= k + PricedCalls + MaxProbes
    BY <1>3, <1>6, <2>2, <2>4, <2>5, ThePlan
  <2> QED BY <1>4, <1>6, <2>2, <2>5, <2>6
<1> QED BY <1>1, <1>5, <1>7, <1>8, <1>9, <1>10, OwnStep

LEMMA FailureKeeps ==
  ASSUME CampaignInvariant, NEW c \in Campaigns, FailedAttempt(c)
  PROVE  CampaignInvariant'
<1>0. CampaignShape /\ FollowsPlan(evalRows[c]) /\ Stands(c) /\ Priced(c) /\ Concluded(c)
  BY DEF CampaignInvariant
<1>1. /\ UNCHANGED <<tree, paidLock, probed, outputs, startedOn, readAs, paidCalls, results,
                     comparison>>
      /\ evalAt[c] = "error" /\ evalAt' = [evalAt EXCEPT ![c] = "next"]
      /\ Writes(c, EvalRow(c, "error", 0)) /\ stopReason' = [stopReason EXCEPT ![c] = TRUE]
  BY DEF FailedAttempt
<1>2. /\ paidLock[LockOf(c)] = c /\ c \in outputs /\ ~stopReason[c] /\ ~Failed(evalRows[c])
      /\ Len(evalRows[c]) < Planned
  BY <1>0, <1>1 DEF Stands, Works
<1>3. "error" \in Statuses /\ 0 \in Nat BY DEF Statuses
<1>4. /\ evalRows' \in [Campaigns -> Seq(PlannedRows)]
      /\ \A d \in Campaigns \ {c} : evalRows'[d] = evalRows[d]
      /\ FollowsPlan(evalRows[c])' /\ Failed(evalRows'[c])
  BY <1>1, <1>2, <1>3, RowIsAppended
<1>5. CampaignShape' BY <1>0, <1>1, <1>4 DEF CampaignShape, CampaignSites
<1>6. OthersStand(c) BY <1>0, <1>1, <1>4 DEF OthersStand, CampaignShape
<1>7. evalAt'[c] = "next" /\ stopReason'[c] BY <1>0, <1>1 DEF CampaignShape
<1>8. Stands(c)' /\ Concluded(c)'
  BY <1>0, <1>1, <1>2, <1>4, <1>7 DEF Stands, Concluded, Works, LockOf
<1>9. Priced(c)' BY <1>4 DEF Priced, OnOneSource, Failed
<1> QED BY <1>1, <1>4, <1>5, <1>6, <1>8, <1>9, OwnStep

(* All gates pass only if all of the plan was executed: the executed rows  *)
(* are as many as the plan has.                                            *)
LEMMA GatesSay ==
  ASSUME CampaignShape, NEW c \in Campaigns, Len(evalRows[c]) = Planned,
         Gates(c) = {"executed", "errorfree", "calls", "source"}
  PROVE  \A n \in 1..Planned :
           evalRows[c][n].status \in {"pass", "fail"} /\ evalRows[c][n].calls <= PricedCalls
<1> DEFINE list == evalRows[c]
<1>1. list \in Seq(PlannedRows) /\ Planned \in Nat BY ThePlan DEF CampaignShape
<1>2. /\ Cardinality(Executed(list)) = Planned
      /\ \A n \in 1..Len(list) : list[n].status # "error"
      /\ \A n \in Executed(list) : list[n].calls <= PricedCalls
  BY DEF Gates
<1>3. Executed(list) = 1..Planned
  <2>1. Executed(list) \subseteq 1..Planned BY DEF Executed
  <2>2. IsFiniteSet(1..Planned) /\ Cardinality(1..Planned) = Planned
    BY <1>1, FS_Interval
  <2> QED BY <1>2, <2>1, <2>2, FS_Subset
<1>4. ASSUME NEW n \in 1..Planned
      PROVE  list[n].status \in {"pass", "fail"} /\ list[n].calls <= PricedCalls
  <2>1. list[n].status # "skipped" /\ list[n].status # "error" /\ list[n].calls <= PricedCalls
    BY <1>2, <1>3 DEF Executed
  <2>2. n \in 1..Len(list) BY <1>1
  <2>3. list[n] \in PlannedRows BY <1>1, <2>2
  <2>4. list[n].status \in Statuses BY <2>3 DEF PlannedRows
  <2> QED BY <2>1, <2>4 DEF Statuses
<1> QED BY <1>4

LEMMA ConclusionKeeps ==
  ASSUME CampaignInvariant, NEW c \in Campaigns, Concludes(c)
  PROVE  CampaignInvariant'
<1>0. CampaignShape /\ FollowsPlan(evalRows[c]) /\ Stands(c) /\ Priced(c) /\ Concluded(c)
  BY DEF CampaignInvariant
<1>1. /\ UNCHANGED <<tree, probed, outputs, startedOn, readAs, evalRows, stopReason, paidCalls,
                     comparison>>
      /\ evalAt[c] = "next" /\ Len(evalRows[c]) = Planned
      /\ results' = [results EXCEPT ![c] = [rows |-> evalRows[c], gates |-> Gates(c)]]
      /\ evalAt' = [evalAt EXCEPT ![c] = "done"] /\ Release(c)
  BY DEF Concludes
<1>2. /\ evalAt'[c] = "done" /\ c \in outputs
      /\ results'[c].rows = evalRows[c] /\ results'[c].gates = Gates(c)
  BY <1>0, <1>1 DEF CampaignShape, Stands
<1>3. results[c] = NoResult BY <1>0, <1>1 DEF Concluded
<1>4. CampaignShape'
  BY <1>0, <1>1, LockIsReleased DEF CampaignShape, CampaignSites
<1>5. OthersStand(c)
  BY <1>0, <1>1, LockIsReleased DEF OthersStand, CampaignShape
<1>6. FollowsPlan(evalRows[c])' /\ Stands(c)'
  BY <1>0, <1>1, <1>2 DEF FollowsPlan, Stands, Works
<1>7. Concluded(c)' BY <1>0, <1>1, <1>2, GatesSay DEF Concluded
<1>8. Priced(c)' BY <1>0, <1>1, <1>2 DEF Priced
<1> QED BY <1>1, <1>3, <1>4, <1>5, <1>6, <1>7, <1>8, OwnStep

LEMMA DeathOfACampaignKeeps ==
  ASSUME CampaignInvariant, NEW c \in Campaigns, Dies(c)
  PROVE  CampaignInvariant'
<1>0. CampaignShape /\ FollowsPlan(evalRows[c]) /\ Stands(c) /\ Priced(c) /\ Concluded(c)
  BY DEF CampaignInvariant
<1>1. /\ UNCHANGED <<tree, probed, outputs, startedOn, readAs, evalRows, paidCalls, results,
                     comparison>>
      /\ evalAt[c] # "done" /\ evalAt' = [evalAt EXCEPT ![c] = "refused"] /\ Release(c)
      /\ stopReason' = [stopReason EXCEPT ![c] = FALSE]
  BY DEF Dies
<1>2. evalAt'[c] = "refused" /\ ~stopReason'[c] BY <1>0, <1>1 DEF CampaignShape
<1>3. CampaignShape'
  BY <1>0, <1>1, LockIsReleased DEF CampaignShape, CampaignSites
<1>4. OthersStand(c)
  BY <1>0, <1>1, LockIsReleased DEF OthersStand, CampaignShape
<1>5. (FollowsPlan(evalRows[c]) /\ Stands(c) /\ Priced(c) /\ Concluded(c))'
  BY <1>0, <1>1, <1>2 DEF FollowsPlan, Stands, Works, Priced, Concluded
<1> QED BY <1>1, <1>3, <1>4, <1>5, OwnStep

LEMMA ComparisonKeeps ==
  ASSUME CampaignInvariant, NEW left \in Campaigns, NEW right \in Campaigns,
         Compare(left, right)
  PROVE  CampaignInvariant'
<1>1. UNCHANGED <<tree, edits, paidLock, probed, evalAt, launches, outputs, startedOn, readAs,
                  evalRows, stopReason, paidCalls, results>>
  BY DEF Compare
<1>2. /\ results[left] # NoResult /\ results[right] # NoResult
      /\ comparison' = [left |-> left, right |-> right,
                        losses |-> Cardinality(Losses(left, right))]
  BY DEF Compare, Comparable
<1>3. Compared'
  <2>1. Losses(left, right)' = Losses(left, right) BY <1>1 DEF Losses
  <2> QED BY <1>1, <1>2, <2>1 DEF Compared
<1>4. CampaignShape' BY <1>1 DEF CampaignInvariant, CampaignShape
<1>5. \A c \in Campaigns : (FollowsPlan(evalRows[c]) /\ Stands(c) /\ Priced(c) /\ Concluded(c))'
  BY <1>1 DEF CampaignInvariant, FollowsPlan, Stands, Works, Priced, Concluded, LockOf
<1> QED BY <1>3, <1>4, <1>5 DEF CampaignInvariant

LEMMA CampaignsKeep ==
  ASSUME CampaignInvariant, [CampaignsNext]_campaignVars
  PROVE  CampaignInvariant'
<1>1. CASE UNCHANGED campaignVars
  <2>1. CampaignShape' /\ Compared'
    BY <1>1 DEF campaignVars, CampaignInvariant, CampaignShape, Compared, Losses
  <2>2. \A c \in Campaigns : (FollowsPlan(evalRows[c]) /\ Stands(c) /\ Priced(c) /\ Concluded(c))'
    BY <1>1 DEF campaignVars, CampaignInvariant, FollowsPlan, Stands, Works, Priced,
      Concluded, LockOf
  <2> QED BY <2>1, <2>2 DEF CampaignInvariant
<1>2. ASSUME NEW c \in Campaigns, Launch(c) \/ CampaignStep(c) \/ Dies(c)
      PROVE  CampaignInvariant'
  BY <1>2, LaunchKeeps, BeginsKeeps, SkipKeeps, BeginAttemptKeeps, PreflightKeeps, RecheckKeeps,
     AskKeepsPlan, FailureKeeps, ConclusionKeeps, DeathOfACampaignKeeps DEF CampaignStep
<1> QED BY <1>1, <1>2, EditKeeps, ComparisonKeeps DEF CampaignsNext

LEMMA OnePaysAtATime ==
  ASSUME CampaignInvariant
  PROVE  CampaignTypes /\ OnePays
<1>1. CampaignTypes
  BY DEF CampaignTypes, CampaignInvariant, CampaignShape, FollowsPlan
<1>2. ASSUME NEW c \in Campaigns, NEW d \in Campaigns, c # d, BenchmarkOf[c] = BenchmarkOf[d]
      PROVE  ~(Paying(c) /\ Paying(d))
  BY <1>2 DEF CampaignInvariant, Stands, Works, Paying, LockOf
<1>3. ASSUME NEW c \in Campaigns, NEW n \in 1..Planned,
             n <= Len(evalRows[c]), evalRows[c][n].calls > 0
      PROVE  evalRows[c][n].source \in probed /\ ~evalRows[c][n].source.dirty
  <2>1. FollowsPlan(evalRows[c]) /\ n \in 1..Len(evalRows[c])
    BY <1>3, ThePlan DEF CampaignInvariant, CampaignShape
  <2> QED BY <1>3, <2>1 DEF FollowsPlan
<1> QED BY <1>1, <1>2, <1>3 DEF OnePays

LEMMA AtMostOne ==
  ASSUME NEW S, \A a, b \in S : a = b
  PROVE  IsFiniteSet(S) /\ Cardinality(S) <= 1
<1>1. CASE S = {} BY <1>1, FS_EmptySet
<1>2. CASE S # {}
  <2>1. PICK a : a \in S BY <1>2
  <2>2. S = {a} BY <2>1
  <2>3. IsFiniteSet({a}) /\ Cardinality({a}) = 1 BY FS_Singleton
  <2> QED BY <2>2, <2>3
<1> QED BY <1>1, <1>2

LEMMA ThePlanIsFollowed ==
  ASSUME CampaignInvariant
  PROVE  RowsFollowPlan
<1> SUFFICES ASSUME NEW c \in Campaigns
             PROVE  LET list == evalRows[c]
                        failures == {n \in 1..Len(list) : list[n].status = "error"} IN
                    /\ \A n \in 1..Len(list) : list[n].place = EvalPlan[n]
                    /\ Cardinality(failures) <= 1
                    /\ \A n \in 1..Len(list) :
                         list[n].status = "skipped" <=> \E f \in failures : f < n
  BY DEF RowsFollowPlan
<1> DEFINE list == evalRows[c]
           failures == {n \in 1..Len(list) : list[n].status = "error"}
<1>1. FollowsPlan(list) /\ Len(list) \in Nat
  BY DEF CampaignInvariant, CampaignShape
<1>2. Cardinality(failures) <= 1
  <2>1. \A e, f \in failures : ~(e < f) /\ ~(f < e) /\ e \in Nat /\ f \in Nat
    BY <1>1 DEF FollowsPlan
  <2> HIDE DEF failures
  <2>2. \A e, f \in failures : e = f BY <2>1
  <2> QED BY <2>2, AtMostOne
<1>3. \A n \in 1..Len(list) : list[n].status = "skipped" <=> \E f \in failures : f < n
  BY <1>1 DEF FollowsPlan
<1> QED BY <1>1, <1>2, <1>3 DEF FollowsPlan

LEMMA WhatResultsVouchFor ==
  ASSUME CampaignInvariant
  PROVE  ResultsAreTrue
<1> SUFFICES ASSUME NEW c \in Campaigns, results[c] # NoResult
             PROVE  /\ Len(results[c].rows) = Planned /\ c \in outputs
                    /\ results[c].gates = {"executed", "errorfree", "calls", "source"} =>
                         /\ \A n \in 1..Planned : results[c].rows[n].status \in {"pass", "fail"}
                         /\ (\A n \in 1..Planned : results[c].rows[n].source = startedOn[c]) =>
                              paidCalls[c] <= WorstCase
  BY DEF ResultsAreTrue
<1>1. /\ evalAt[c] = "done" /\ c \in outputs
      /\ results[c].rows = evalRows[c] /\ Len(evalRows[c]) = Planned
      /\ results[c].gates = {"executed", "errorfree", "calls", "source"} =>
           \A n \in 1..Planned :
             evalRows[c][n].status \in {"pass", "fail"} /\ evalRows[c][n].calls <= PricedCalls
  BY DEF CampaignInvariant, Concluded
<1>2. ASSUME results[c].gates = {"executed", "errorfree", "calls", "source"},
             \A n \in 1..Planned : results[c].rows[n].source = startedOn[c]
      PROVE  paidCalls[c] <= WorstCase
  <2>1. OnOneSource(evalRows[c], startedOn[c]) BY <1>1, <1>2 DEF OnOneSource
  <2>2. Priced(c) /\ paidCalls[c] \in Nat
    BY DEF CampaignInvariant, CampaignShape
  <2> DEFINE k == Planned * PricedCalls
  <2>3. k \in Nat BY ThePlan, OneMore
  <2>4. paidCalls[c] <= k + (IF startedOn[c] \in probed THEN MaxProbes ELSE 0)
    BY <1>1, <2>1, <2>2 DEF Priced
  <2> HIDE DEF k
  <2>5. paidCalls[c] <= k + MaxProbes BY <2>2, <2>3, <2>4, ThePlan
  <2> QED BY <2>5 DEF k, WorstCase
<1> QED BY <1>1, <1>2

LEMMA NoLossIsHidden ==
  ASSUME CampaignInvariant
  PROVE  ComparisonIsFair
<1> SUFFICES ASSUME comparison # NoPair, comparison.losses = 0,
                    NEW l \in ToSet(results[comparison.left].rows), l.status = "pass"
             PROVE  \E r \in ToSet(results[comparison.right].rows) :
                      r.place = l.place /\ r.status = "pass"
  BY DEF ComparisonIsFair
<1> DEFINE a == comparison.left
           b == comparison.right
<1>1. /\ a \in Campaigns /\ b \in Campaigns
      /\ results[a] # NoResult /\ results[b] # NoResult
      /\ Cardinality(Losses(a, b)) = 0
  BY DEF CampaignInvariant, Compared
<1>2. /\ results[a].rows = evalRows[a] /\ Len(evalRows[a]) = Planned
      /\ results[b].rows = evalRows[b] /\ Len(evalRows[b]) = Planned
  BY <1>1 DEF CampaignInvariant, Concluded
<1>3. evalRows[a] \in Seq(PlannedRows) /\ evalRows[b] \in Seq(PlannedRows) /\ Planned \in Nat
  BY <1>1, ThePlan DEF CampaignInvariant, CampaignShape
<1>4. Losses(a, b) = {}
  <2>1. Losses(a, b) \subseteq 1..Planned BY DEF Losses
  <2>2. IsFiniteSet(1..Planned)
    <3>1. Planned \in Int /\ 1 \in Int BY ThePlan
    <3> QED BY ONLY <3>1, FS_Interval
  <2>3. IsFiniteSet(Losses(a, b)) BY <2>1, <2>2, FS_Subset
  <2> QED BY <1>1, <2>3, FS_EmptySet
<1> HIDE DEF a, b
<1>5. PICK n \in 1..Planned : l = evalRows[a][n] BY <1>2, <1>3 DEF ToSet, a
<1>6. evalRows[b][n].status = "pass" BY <1>2, <1>4, <1>5 DEF Losses
<1>7. evalRows[a][n].place = EvalPlan[n] /\ evalRows[b][n].place = EvalPlan[n]
  BY <1>1, <1>2 DEF CampaignInvariant, FollowsPlan
<1>8. evalRows[b][n] \in ToSet(results[b].rows) BY <1>2, <1>3 DEF ToSet
<1> QED BY <1>5, <1>6, <1>7, <1>8 DEF b

(* Of two campaigns of a benchmark one pays at a time, for attempts in the *)
(* order of the plan on a source the provider was probed for; what a       *)
(* result or a comparison claims is so, whoever edits the source and       *)
(* whichever campaign dies between two steps.                              *)
THEOREM CampaignsStaySound ==
  CampaignsInit /\ [][CampaignsNext]_campaignVars => []CampaignsAreSound
<1>1. CampaignInvariant => CampaignsAreSound
  BY OnePaysAtATime, ThePlanIsFollowed, WhatResultsVouchFor, NoLossIsHidden
     DEF CampaignsAreSound
<1> QED BY <1>1, CampaignsStart, CampaignsKeep, PTL
-----------------------------------------------------------------------------
(* The search.  What the process holds is what is on record; what it may   *)
(* still spend in this round has been reserved there; and the parent is    *)
(* the last round that qualified, each better than the one before.         *)

SearchPhases == {"none", "cold_start", "ready", "diagnosing", "generating", "evaluating",
                 "finished"}
RoundStatuses == {"generating", "evaluating", "qualified", "rejected", "generation_failed"}
RoundRows == [status : RoundStatuses, score : Nat]
IsSearch(s) ==
  /\ DOMAIN s = {"status", "phase", "rounds", "parent", "passing", "cold", "trials", "calls"}
  /\ s.status \in {"none", "running", "blocked", "finished"} /\ s.phase \in SearchPhases
  /\ s.rounds \in Seq(RoundRows) /\ Len(s.rounds) <= SearchRounds
  /\ s.parent \in Nat /\ s.passing \subseteq TrainTasks /\ s.cold \subseteq TrainTasks
  /\ s.trials \in Nat /\ s.calls \in Nat

Measurements == (0..SearchRounds) \X {"cold_start", "focused", "confirm"}
Cold == {"cold", "cold_score"}
InRound == {"generate", "probe", "screen", "decide"}
Searches == Cold \cup {"loop", "diagnose"} \cup InRound
Seals == {"sealed", "sealed_score"}

SearchShape ==
  /\ IsSearch(recorded) /\ searchAt \in {"idle"} \cup Searches \cup Seals
  /\ searchAt \in Searches => searchMem = recorded
  /\ scored \in [Measurements -> Nat] /\ generated \in [1..SearchRounds -> Nat]
  /\ trialsPaid \in Nat /\ probe.confirmed \subseteq TrainTasks

\* The phase on record tells where the process is, or was when it was lost.
PhaseFits ==
  /\ searchAt \in Cold => recorded.phase = "cold_start"
  /\ searchAt = "loop" => recorded.phase = "ready"
  /\ searchAt = "diagnose" => recorded.phase = "diagnosing"
  /\ searchAt = "generate" => recorded.phase = "generating"
  /\ searchAt \in {"probe", "screen", "decide"} => recorded.phase = "evaluating"
  /\ searchAt \in Searches => finishedAt = NoState /\ recorded.status # "none"
  /\ finishedAt # NoState =>
       recorded = finishedAt /\ recorded.phase = "finished" /\ recorded.status = "finished"

\* Nothing was bought so far.
NothingBought ==
  /\ recorded.rounds = <<>> /\ recorded.parent = 0 /\ recorded.calls = 0 /\ trialsPaid = 0
  /\ \A m \in Measurements : scored[m] = 0
  /\ \A r \in 1..SearchRounds : generated[r] = 0
ColdFits ==
  /\ recorded = NoState \/ searchAt \in Cold => NothingBought
  /\ searchAt = "cold" => recorded.trials = 0
  /\ searchAt = "cold_score" => recorded.trials = Cardinality(TrainTasks)

CallsOf(calls) == FoldFunction(LAMBDA n, sum : n + sum, 0, calls)
Limits ==
  /\ \A m \in Measurements : scored[m] <= 1 /\ (m[1] > Len(recorded.rounds) => scored[m] = 0)
  /\ \A r \in 1..SearchRounds :
       generated[r] <= Retries + 1 /\ (r > Len(recorded.rounds) => generated[r] = 0)
  /\ trialsPaid <= recorded.trials /\ recorded.trials <= MaxTrials
  /\ CallsOf(generated) <= recorded.calls /\ recorded.calls <= MaxModelCalls

\* What a round may still spend.
Reserves ==
  LET now == Len(recorded.rounds) IN
  /\ searchAt = "diagnose" =>
       /\ now < SearchRounds /\ recorded.trials + TrialCeiling(recorded) <= MaxTrials
       /\ recorded.calls + Retries + 1 <= MaxModelCalls
  /\ searchAt \in InRound => now > 0
  /\ searchAt = "generate" =>
       generated[now] = 0 /\ CallsOf(generated) + Retries + 1 <= recorded.calls
  /\ searchAt \in {"generate", "probe"} =>
       /\ trialsPaid + TrialCeiling(recorded) <= recorded.trials
       /\ scored[<<now, "focused">>] = 0
  /\ searchAt = "screen" => trialsPaid + Cardinality(TrainTasks) <= recorded.trials
  /\ searchAt \in {"generate", "probe", "screen"} => scored[<<now, "confirm">>] = 0
  /\ searchAt = "decide" => scored[<<now, "confirm">>] = 1

WonBy(list) == {n \in 1..Len(list) : list[n].status = "qualified"}
Earned(s) ==
  /\ s.parent \in {0} \cup WonBy(s.rounds) /\ \A n \in WonBy(s.rounds) : n <= s.parent
  /\ \A n \in WonBy(s.rounds) :
       /\ scored[<<n, "confirm">>] = 1 /\ s.rounds[n].score > Cardinality(s.cold)
       /\ \A m \in WonBy(s.rounds) : m < n => s.rounds[m].score < s.rounds[n].score
  /\ Cardinality(s.passing) = IF s.parent = 0 THEN Cardinality(s.cold)
                              ELSE s.rounds[s.parent].score
SettledTo(list, n) ==
  \A m \in 1..n : list[m].status \in {"qualified", "rejected", "generation_failed"}
ParentFits ==
  LET list == recorded.rounds IN
  /\ recorded.phase \in {"ready", "diagnosing", "finished"} =>
       Earned(recorded) /\ SettledTo(list, Len(list))
  /\ searchAt \in InRound =>
       /\ Earned(recorded) /\ SettledTo(list, Len(list) - 1)
       /\ list[Len(list)].status \in {"generating", "evaluating"}

SealFits ==
  /\ sealedLog \in Seq([kind : {"started", "completed", "failed"}, finalist : Nat])
  /\ sealedLog = <<>> => sealedRuns = 0 /\ searchAt \notin Seals
  /\ sealedLog # <<>> => finishedAt # NoState /\ sealedLog[1].finalist = finishedAt.parent
  /\ Len(sealedLog) <= 2 /\ (searchAt \in Seals => Len(sealedLog) = 1)
  /\ sealedRuns \in {0, 1} /\ (searchAt = "sealed" => sealedRuns = 0)

SearchInvariant ==
  SearchShape /\ PhaseFits /\ ColdFits /\ Limits /\ Reserves /\ ParentFits /\ SealFits

LEMMA SearchNumbers ==
  /\ SentinelCount \in Nat /\ MaxTrials \in Nat /\ MaxModelCalls \in Nat /\ Retries \in Nat
  /\ SearchRounds \in Nat /\ SearchRounds > 0
  /\ IsFiniteSet(TrainTasks) /\ Cardinality(TrainTasks) \in Nat
  BY SearchAssumption, FS_CardinalityType

(* The least and the greatest of a set, once they are known.               *)
LEMMA GreatestIs ==
  ASSUME NEW S \in SUBSET Int, NEW x \in S, \A y \in S : y <= x
  PROVE  Max(S) = x
<1>1. Max(S) = CHOOSE z \in S : \A y \in S : z >= y BY DEF Max
<1>2. \A y \in S : x >= y OBVIOUS
<1>3. Max(S) \in S /\ \A y \in S : Max(S) >= y BY <1>1, <1>2
<1>4. Max(S) \in Int /\ x \in Int /\ Max(S) <= x /\ x <= Max(S) BY <1>2, <1>3
<1> QED BY ONLY <1>4

LEMMA LeastOfTwo ==
  ASSUME NEW a \in Nat, NEW b \in Nat
  PROVE  Min({a, b}) \in {a, b} /\ Min({a, b}) <= a /\ Min({a, b}) <= b /\ Min({a, b}) \in Nat
<1>1. \E x \in {a, b} : \A y \in {a, b} : x <= y BY a <= b \/ b <= a
<1>2. Min({a, b}) \in {a, b} /\ \A y \in {a, b} : Min({a, b}) <= y
  BY <1>1 DEF Min
<1> QED BY <1>2

(* The calls of all rounds are a total.                                    *)
LEMMA CallsAreTotal ==
  ASSUME NEW R, IsFiniteSet(R), NEW calls \in [R -> Nat], NEW F, IsTotal(F, calls, R)
  PROVE  CallsOf(calls) = F[R]
<1> DEFINE G(f) == [s \in SUBSET R |->
                      IF s = {} THEN 0
                      ELSE calls[CHOOSE x \in s : TRUE] + f[s \ {CHOOSE x \in s : TRUE}]]
           iter == CHOOSE f : f = G(f)
           E == [s \in SUBSET R |-> F[s]]
<1>1. ASSUME NEW s \in SUBSET R, s # {}
      PROVE  (CHOOSE x \in s : TRUE) \in R /\ (CHOOSE x \in s : TRUE) \in s
  <2>1. (CHOOSE x \in s : TRUE) \in s BY <1>1
  <2> QED BY <2>1
<1>2. \A y \in R : calls[y] \in Nat OBVIOUS
<1>3. E = G(E)
  <2>1. F[{}] = 0 BY DEF IsTotal
  <2>2. ASSUME NEW s \in SUBSET R, s # {}
        PROVE  F[s] = calls[CHOOSE x \in s : TRUE] + F[s \ {CHOOSE x \in s : TRUE}]
    <3>1. PICK y \in s : y = (CHOOSE x \in s : TRUE) BY <1>1, <2>2
    <3>2. F[s] = calls[y] + F[s \ {y}]
      <4>1. s \in SUBSET R OBVIOUS
      <4> QED BY <1>2, <4>1, TotalUnfolds
    <3> QED BY <3>1, <3>2
  <2> QED BY <2>1, <2>2
<1>4. iter = G(iter)
  <2> HIDE DEF G, E
  <2> QED BY <1>3
<1>5. CallsOf(calls) = iter[R]
  <2>1. DOMAIN calls = R OBVIOUS
  <2> QED BY <2>1 DEF CallsOf, FoldFunction, FoldFunctionOnSet, MapThenFoldSet
<1> HIDE DEF iter
<1>6. IsFold(iter, calls, R) BY <1>1, <1>4 DEF IsFold
<1> HIDE DEF G, E
<1>7. iter[R] = F[R]
  <2>1. R \in SUBSET R OBVIOUS
  <2> QED BY <1>2, <1>6, <2>1, FoldIsTotal
<1> QED BY <1>5, <1>7

LEMMA CallsAreCounted ==
  ASSUME NEW R, IsFiniteSet(R), NEW calls \in [R -> Nat]
  PROVE  /\ CallsOf(calls) \in Nat
         /\ (\A r \in R : calls[r] = 0) => CallsOf(calls) = 0
         /\ \A r \in R, n \in Nat :
              CallsOf([calls EXCEPT ![r] = @ + n]) = CallsOf(calls) + n
<1>1. PICK F : IsTotal(F, calls, R) BY TotalExists
<1>2. CallsOf(calls) = F[R] /\ F[R] \in Nat BY <1>1, CallsAreTotal DEF IsTotal
<1>3. ASSUME \A r \in R : calls[r] = 0
      PROVE  CallsOf(calls) = 0
  <2>1. F[R] = 0 * Cardinality(R) BY <1>1, <1>3, TotalOfEquals
  <2> QED BY <1>2, <2>1, FS_CardinalityType
<1>4. ASSUME NEW r \in R, NEW n \in Nat
      PROVE  CallsOf([calls EXCEPT ![r] = @ + n]) = CallsOf(calls) + n
  <2>1. PICK more : more = [calls EXCEPT ![r] = @ + n] OBVIOUS
  <2>2. more \in [R -> Nat] /\ more[r] = calls[r] + n /\ \A x \in R : x # r => more[x] = calls[x]
    BY <2>1
  <2>3. PICK G : IsTotal(G, more, R) BY <2>2, TotalExists
  <2>4. CallsOf(more) = G[R] /\ G[R] \in Nat
    BY <2>2, <2>3, CallsAreTotal DEF IsTotal
  <2>5. \A x \in R : calls[x] \in Nat /\ more[x] \in Nat /\ (x # r => more[x] = calls[x])
    BY <2>2
  <2>6. G[R] + calls[r] = F[R] + more[r]
    BY ONLY IsFiniteSet(R), r \in R, <1>1, <2>3, <2>5, TotalChanges
  <2> QED BY <1>2, <2>1, <2>2, <2>4, <2>5, <2>6
<1> QED BY <1>2, <1>3, <1>4

LEMMA SearchRoundsAreFinite == IsFiniteSet(1..SearchRounds)
  BY SearchNumbers, FS_Interval

LEMMA SearchStarts ==
  ASSUME SearchInit
  PROVE  SearchInvariant
<1>1. /\ recorded = NoState /\ finishedAt = NoState /\ searchAt = "idle" /\ probe = NoProbe
      /\ scored = [m \in Measurements |-> 0]
      /\ trialsPaid = 0 /\ generated = [round \in 1..SearchRounds |-> 0]
      /\ sealedLog = <<>> /\ sealedRuns = 0
  BY DEF SearchInit, Measurements
<1>2. scored \in [Measurements -> Nat] /\ \A m \in Measurements : scored[m] = 0
  BY <1>1
<1>3. generated \in [1..SearchRounds -> Nat] /\ \A r \in 1..SearchRounds : generated[r] = 0
  BY <1>1
<1>4. IsSearch(NoState) /\ NoState.rounds = <<>> /\ NoState.parent = 0 /\ NoState.calls = 0
      /\ NoState.trials = 0 /\ NoState.phase = "none"
  BY SearchNumbers DEF IsSearch, NoState, SearchPhases
<1>5. SearchShape
  BY <1>1, <1>2, <1>3, <1>4 DEF SearchShape, NoProbe, Searches, Cold, InRound
<1>6. PhaseFits /\ ColdFits
  BY <1>1, <1>2, <1>3, <1>4 DEF PhaseFits, ColdFits, NothingBought, Searches, Cold, InRound
<1>7. Limits
  <2>1. CallsOf(generated) = 0 BY <1>3, CallsAreCounted, SearchRoundsAreFinite
  <2> QED BY <1>1, <1>2, <1>3, <1>4, <2>1, SearchNumbers DEF Limits
<1>8. Reserves /\ ParentFits /\ SealFits
  BY <1>1, <1>4 DEF Reserves, ParentFits, SealFits, InRound, Seals
<1> QED BY <1>5, <1>6, <1>7, <1>8 DEF SearchInvariant

(* Steps that change what is on record only in its phase or its status.    *)
SameSearch(s, t) ==
  /\ t.rounds = s.rounds /\ t.parent = s.parent /\ t.passing = s.passing /\ t.cold = s.cold
  /\ t.trials = s.trials /\ t.calls = s.calls

LEMMA SameData ==
  ASSUME SearchInvariant, SameSearch(recorded, recorded')
  PROVE  /\ UNCHANGED <<scored, generated, trialsPaid>> => Limits'
         /\ UNCHANGED scored /\ Earned(recorded) => Earned(recorded)'
         /\ \A n : SettledTo(recorded.rounds, n) => SettledTo(recorded'.rounds, n)
         /\ TrialCeiling(recorded') = TrialCeiling(recorded)
         /\ UNCHANGED <<scored, generated, trialsPaid>> /\ NothingBought => NothingBought'
<1>1. UNCHANGED <<scored, generated, trialsPaid>> => Limits'
  BY DEF SearchInvariant, Limits, SameSearch
<1>2. UNCHANGED scored /\ Earned(recorded) => Earned(recorded)'
  BY DEF Earned, SameSearch
<1>3. \A n : SettledTo(recorded.rounds, n) => SettledTo(recorded'.rounds, n)
  BY DEF SameSearch
<1>4. TrialCeiling(recorded') = TrialCeiling(recorded)
  BY DEF TrialCeiling, Focused, Failing, SentinelsOf, SameSearch
<1>5. UNCHANGED <<scored, generated, trialsPaid>> /\ NothingBought => NothingBought'
  BY DEF NothingBought, SameSearch
<1> QED BY <1>1, <1>2, <1>3, <1>4, <1>5

LEMMA NotSealedYet ==
  ASSUME SearchInvariant, searchAt' \notin Seals, UNCHANGED <<sealedLog, sealedRuns>>,
         UNCHANGED finishedAt \/ finishedAt = NoState
  PROVE  SealFits'
<1>1. SealFits BY DEF SearchInvariant
<1>2. CASE UNCHANGED finishedAt BY <1>1, <1>2 DEF SealFits, Seals
<1>3. CASE finishedAt = NoState BY <1>1, <1>3 DEF SealFits, Seals
<1> QED BY <1>2, <1>3

(* What was begun and is uncertain is blocked in its phase.                *)
LEMMA BlockIsSound ==
  ASSUME SearchInvariant, searchAt \in Searches,
         recorded' = [recorded EXCEPT !.status = "blocked"], searchAt' = "idle",
         UNCHANGED <<finishedAt, sealedLog, sealedRuns>>,
         UNCHANGED scored \/ recorded.phase = "cold_start",
         scored' \in [Measurements -> Nat], generated' \in [1..SearchRounds -> Nat],
         trialsPaid' \in Nat, probe'.confirmed \subseteq TrainTasks,
         Limits' \/ UNCHANGED <<scored, generated, trialsPaid>>
  PROVE  SearchInvariant'
<1>0. IsSearch(recorded) /\ finishedAt = NoState /\ ParentFits
  BY DEF SearchInvariant, SearchShape, PhaseFits
<1>1. /\ IsSearch(recorded') /\ SameSearch(recorded, recorded')
      /\ recorded'.status = "blocked" /\ recorded'.phase = recorded.phase
  BY <1>0 DEF IsSearch, SameSearch
<1>2. SearchShape' BY <1>1 DEF SearchShape, Searches, Cold, InRound
<1>3. PhaseFits' /\ ColdFits' /\ Reserves'
  BY <1>0, <1>1 DEF PhaseFits, ColdFits, Reserves, NoState, Searches, Cold, InRound
<1>4. Limits' BY <1>1, SameData
<1>5. ParentFits'
  <2> SUFFICES ASSUME recorded.phase \in {"ready", "diagnosing", "finished"}
               PROVE  Earned(recorded)' /\ SettledTo(recorded'.rounds, Len(recorded'.rounds))
    BY <1>1 DEF ParentFits, InRound
  <2>1. UNCHANGED scored OBVIOUS
  <2>2. Earned(recorded) /\ SettledTo(recorded.rounds, Len(recorded.rounds))
    BY <1>0 DEF ParentFits
  <2> QED BY <1>1, <2>1, <2>2, SameData DEF SameSearch
<1>6. SealFits' BY NotSealedYet DEF Seals
<1> QED BY <1>2, <1>3, <1>4, <1>5, <1>6 DEF SearchInvariant

LEMMA PaidFor ==
  ASSUME SearchShape, NEW round \in 0..SearchRounds,
         NEW phase \in {"cold_start", "focused", "confirm"}, NEW count \in Nat,
         Paid(round, phase, count)
  PROVE  /\ scored' \in [Measurements -> Nat] /\ <<round, phase>> \in Measurements
         /\ scored'[<<round, phase>>] = scored[<<round, phase>>] + 1
         /\ \A m \in Measurements : m # <<round, phase>> => scored'[m] = scored[m]
         /\ trialsPaid' = trialsPaid + count /\ trialsPaid' \in Nat /\ generated' = generated
<1>1. <<round, phase>> \in Measurements BY DEF Measurements
<1>2. scored' = [scored EXCEPT ![<<round, phase>>] = @ + 1] BY DEF Paid
<1>3. scored \in [Measurements -> Nat] /\ trialsPaid \in Nat BY DEF SearchShape
<1>4. scored' \in [Measurements -> Nat]
      /\ scored'[<<round, phase>>] = scored[<<round, phase>>] + 1
      /\ \A m \in Measurements : m # <<round, phase>> => scored'[m] = scored[m]
  BY <1>1, <1>2, <1>3
<1> QED BY <1>1, <1>3, <1>4 DEF Paid

LEMMA StartKeepsSearch ==
  ASSUME SearchInvariant, StartSearch
  PROVE  SearchInvariant'
<1>0. SearchShape /\ PhaseFits /\ ColdFits /\ Limits /\ ParentFits /\ IsSearch(recorded)
  BY DEF SearchInvariant, SearchShape
<1>1. UNCHANGED <<finishedAt, probe, scored, trialsPaid, generated, sealedLog, sealedRuns>>
  BY DEF StartSearch, paidVars, sealedVars
<1>2. CASE recorded = NoState
  <2>1. recorded' = FreshState /\ searchMem' = FreshState /\ searchAt' = "cold"
    BY <1>2 DEF StartSearch, Persist
  <2>2. /\ IsSearch(recorded') /\ recorded'.phase = "cold_start" /\ recorded'.status = "running"
        /\ recorded'.trials = 0 /\ SameSearch(recorded, recorded') /\ recorded' # NoState
    <3>1. /\ DOMAIN FreshState = {"status", "phase", "rounds", "parent", "passing", "cold",
                                  "trials", "calls"}
          /\ FreshState.status = "running" /\ FreshState.phase = "cold_start"
          /\ FreshState.rounds = <<>> /\ FreshState.parent = 0 /\ FreshState.passing = {}
          /\ FreshState.cold = {} /\ FreshState.trials = 0 /\ FreshState.calls = 0
      BY DEF FreshState, NoState
    <3>2. SameSearch(NoState, FreshState) BY <3>1 DEF SameSearch, NoState
    <3>3. FreshState # NoState BY <3>1 DEF NoState
    <3>4. IsSearch(FreshState) BY <3>1, SearchNumbers DEF IsSearch, SearchPhases
    <3> QED BY <1>2, <2>1, <3>1, <3>2, <3>3, <3>4
  <2>3. finishedAt = NoState BY <1>0, <1>2 DEF PhaseFits, NoState
  <2>4. NothingBought' BY <1>0, <1>1, <1>2, <2>2, SameData DEF ColdFits
  <2>5. SearchShape' BY <1>0, <1>1, <2>1, <2>2 DEF SearchShape, Searches, Cold
  <2>6. PhaseFits' /\ ColdFits' /\ Reserves' /\ ParentFits'
    BY <1>1, <2>1, <2>2, <2>3, <2>4 DEF PhaseFits, ColdFits, Reserves, ParentFits, Searches, Cold,
       InRound
  <2>7. Limits' /\ SealFits'
    BY <1>1, <2>1, <2>2, SameData, NotSealedYet DEF Seals
  <2> QED BY <2>5, <2>6, <2>7 DEF SearchInvariant
<1>3. CASE recorded # NoState
  <2>1. /\ recorded' = [recorded EXCEPT !.status = "running"] /\ searchMem' = recorded'
        /\ searchAt' = "loop" /\ recorded.status # "finished" /\ recorded.phase = "ready"
    BY <1>3 DEF StartSearch, Persist, Resumable
  <2>2. /\ IsSearch(recorded') /\ recorded'.phase = "ready" /\ recorded'.status = "running"
        /\ SameSearch(recorded, recorded') /\ recorded' # NoState
    BY <1>0, <2>1 DEF IsSearch, SameSearch, NoState
  <2>3. finishedAt = NoState BY <1>0, <2>1 DEF PhaseFits
  <2>4. SearchShape' BY <1>0, <1>1, <2>1, <2>2 DEF SearchShape, Searches
  <2>5. PhaseFits' /\ ColdFits' /\ Reserves'
    BY <1>1, <2>1, <2>2, <2>3 DEF PhaseFits, ColdFits, Reserves, Searches, Cold, InRound
  <2>6. ParentFits'
    <3>1. Earned(recorded) /\ SettledTo(recorded.rounds, Len(recorded.rounds))
      BY <1>0, <2>1 DEF ParentFits
    <3>2. Earned(recorded)' /\ SettledTo(recorded'.rounds, Len(recorded'.rounds))
      BY <1>1, <2>2, <3>1, SameData DEF SameSearch
    <3> QED BY <2>1, <3>2 DEF ParentFits, InRound
  <2>7. Limits' /\ SealFits'
    BY <1>1, <2>1, <2>2, SameData, NotSealedYet DEF Seals
  <2> QED BY <2>4, <2>5, <2>6, <2>7 DEF SearchInvariant
<1> QED BY <1>2, <1>3

LEMMA ColdIsReserved ==
  ASSUME SearchInvariant, ReserveCold
  PROVE  SearchInvariant'
<1>0. SearchShape /\ PhaseFits /\ ColdFits /\ Limits /\ ParentFits /\ IsSearch(recorded)
  BY DEF SearchInvariant, SearchShape
<1>1. /\ UNCHANGED <<probe, scored, trialsPaid, generated, sealedLog, sealedRuns>>
      /\ searchAt = "cold" /\ searchMem = recorded
  BY <1>0 DEF ReserveCold, paidVars, sealedVars, SearchShape, Searches, Cold
<1>2. CASE Cardinality(TrainTasks) > MaxTrials \/ replanned
  <2>1. BlockSearch(recorded) BY <1>1, <1>2 DEF ReserveCold
  <2> QED
    BY <1>0, <1>1, <2>1, BlockIsSound DEF BlockSearch, Persist, SearchShape, Searches, Cold
<1>3. CASE ~(Cardinality(TrainTasks) > MaxTrials \/ replanned)
  <2>1. /\ recorded' = [recorded EXCEPT !.trials = @ + Cardinality(TrainTasks)]
        /\ searchMem' = recorded' /\ searchAt' = "cold_score" /\ UNCHANGED finishedAt
    BY <1>1, <1>3 DEF ReserveCold, Persist
  <2>2. /\ recorded.trials = 0 /\ NothingBought /\ recorded.phase = "cold_start"
        /\ finishedAt = NoState /\ recorded.status # "none"
    BY <1>0, <1>1 DEF ColdFits, PhaseFits, Cold, Searches
  <2>3. /\ IsSearch(recorded') /\ recorded'.phase = "cold_start"
        /\ recorded'.status = recorded.status /\ recorded'.trials = Cardinality(TrainTasks)
        /\ recorded'.rounds = recorded.rounds /\ recorded'.parent = recorded.parent
        /\ recorded'.calls = recorded.calls
    BY <1>0, <2>1, <2>2, SearchNumbers DEF IsSearch
  <2>4. NothingBought' BY <1>1, <2>2, <2>3 DEF NothingBought
  <2>5. SearchShape' BY <1>0, <1>1, <2>1, <2>3 DEF SearchShape, Searches, Cold
  <2>6. PhaseFits' /\ ColdFits' /\ Reserves' /\ ParentFits'
    BY <2>1, <2>2, <2>3, <2>4 DEF PhaseFits, ColdFits, Reserves, ParentFits, Searches, Cold,
       InRound
  <2>7. Limits'
    BY <1>0, <1>1, <1>3, <2>2, <2>3, SearchNumbers DEF Limits, NothingBought
  <2>8. SealFits' BY <1>1, <2>1, NotSealedYet DEF Seals
  <2> QED BY <2>5, <2>6, <2>7, <2>8 DEF SearchInvariant
<1> QED BY <1>2, <1>3

LEMMA ColdIsScored ==
  ASSUME SearchInvariant, ColdScore
  PROVE  SearchInvariant'
<1>0. SearchShape /\ PhaseFits /\ ColdFits /\ Limits /\ ParentFits /\ IsSearch(recorded)
  BY DEF SearchInvariant, SearchShape
<1>1. /\ UNCHANGED <<probe, sealedLog, sealedRuns>> /\ probe.confirmed \subseteq TrainTasks
      /\ searchAt = "cold_score" /\ searchMem = recorded
  BY <1>0 DEF ColdScore, sealedVars, SearchShape, Searches, Cold
<1>2. /\ recorded.trials = Cardinality(TrainTasks) /\ NothingBought
      /\ recorded.phase = "cold_start" /\ finishedAt = NoState /\ recorded.status # "none"
  BY <1>0, <1>1 DEF ColdFits, PhaseFits, Cold, Searches
<1>3. /\ scored' \in [Measurements -> Nat]
      /\ scored'[<<0, "cold_start">>] = scored[<<0, "cold_start">>] + 1
      /\ <<0, "cold_start">> \in Measurements
      /\ \A m \in Measurements : m # <<0, "cold_start">> => scored'[m] = scored[m]
      /\ trialsPaid' = trialsPaid + Cardinality(TrainTasks) /\ trialsPaid' \in Nat
      /\ generated' = generated
  <2>1. Paid(0, "cold_start", Cardinality(TrainTasks)) BY DEF ColdScore
  <2>2. 0 \in 0..SearchRounds BY SearchNumbers
  <2> QED BY <1>0, <2>1, <2>2, PaidFor, SearchNumbers
<1>4. ASSUME IsSearch(recorded'), recorded'.rounds = recorded.rounds,
             recorded'.trials = recorded.trials, recorded'.calls = recorded.calls
      PROVE  Limits'
  <2>1. \A m \in Measurements : scored'[m] <= 1 /\ (m[1] > 0 => scored'[m] = 0)
    <3>1. \A m \in Measurements : scored[m] = 0 BY <1>2 DEF NothingBought
    <3>2. <<0, "cold_start">>[1] = 0 OBVIOUS
    <3>3. \A m \in Measurements : m = <<0, "cold_start">> => ~(m[1] > 0) BY <3>2
    <3> QED BY <1>3, <3>1, <3>3
  <2>2. Len(recorded'.rounds) = 0 /\ trialsPaid = 0
    BY <1>2, <1>4 DEF NothingBought
  <2> QED BY <1>0, <1>2, <1>3, <1>4, <2>1, <2>2, SearchNumbers DEF Limits
<1>5. CASE BlockSearch(recorded)
  <2>1. /\ recorded' = [recorded EXCEPT !.status = "blocked"] /\ searchAt' = "idle"
        /\ UNCHANGED finishedAt
    BY <1>5 DEF BlockSearch, Persist
  <2>2. Limits' BY <1>0, <1>4, <2>1 DEF IsSearch
  <2>3. generated \in [1..SearchRounds -> Nat] BY <1>0 DEF SearchShape
  <2> QED BY <1>1, <1>2, <1>3, <2>1, <2>2, <2>3, BlockIsSound DEF Searches, Cold
<1>6. CASE ~BlockSearch(recorded)
  <2>1. PICK passing \in SUBSET TrainTasks :
          recorded' = [recorded EXCEPT !.passing = passing, !.cold = passing, !.phase = "ready"]
    BY <1>1, <1>6 DEF ColdScore, Persist
  <2>2. searchMem' = recorded' /\ searchAt' = "loop" /\ UNCHANGED finishedAt
    BY <1>1, <1>6 DEF ColdScore, Persist
  <2>3. /\ IsSearch(recorded') /\ recorded'.rounds = <<>> /\ recorded'.parent = 0
        /\ recorded'.passing = passing /\ recorded'.cold = passing /\ recorded'.phase = "ready"
        /\ recorded'.status = recorded.status /\ recorded'.trials = recorded.trials
        /\ recorded'.calls = recorded.calls /\ recorded'.rounds = recorded.rounds
    BY <1>0, <1>2, <2>1 DEF IsSearch, NothingBought, SearchPhases
  <2>4. SearchShape' BY <1>0, <1>1, <1>3, <2>2, <2>3 DEF SearchShape, Searches
  <2>5. PhaseFits' /\ ColdFits' /\ Reserves'
    BY <1>2, <2>2, <2>3 DEF PhaseFits, ColdFits, Reserves, Searches, Cold, InRound, NoState
  <2>6. ParentFits'
    <3>1. Earned(recorded)' /\ SettledTo(recorded'.rounds, Len(recorded'.rounds))
      BY <2>3 DEF Earned, WonBy, SettledTo
    <3> QED BY <2>2, <3>1 DEF ParentFits, InRound
  <2>7. Limits' /\ SealFits' BY <1>1, <1>4, <2>2, <2>3, NotSealedYet DEF Seals
  <2> QED BY <2>4, <2>5, <2>6, <2>7 DEF SearchInvariant
<1> QED BY <1>5, <1>6

LEMMA CeilingCovers ==
  ASSUME NEW s, IsSearch(s)
  PROVE  /\ TrialCeiling(s) \in Nat
         /\ \A ids \in SUBSET s.cold :
              Cardinality(ids) = SentinelsOf(s.cold) =>
                /\ Cardinality(Focused(s) \cup ids) \in Nat
                /\ Cardinality(Focused(s) \cup ids) + Cardinality(TrainTasks) <= TrialCeiling(s)
<1> DEFINE all == Cardinality(TrainTasks)
           why == Focused(s)
           few == SentinelsOf(s.cold)
<1>1. /\ why \subseteq TrainTasks /\ s.cold \subseteq TrainTasks
      /\ \A S \in SUBSET TrainTasks :
           IsFiniteSet(S) /\ Cardinality(S) \in Nat /\ Cardinality(S) <= all
  <2>1. \A S \in SUBSET TrainTasks :
           IsFiniteSet(S) /\ Cardinality(S) \in Nat /\ Cardinality(S) <= all
    BY SearchNumbers, FS_Subset, FS_CardinalityType
  <2> QED BY <2>1 DEF Focused, Failing, IsSearch
<1>2. few \in Nat BY <1>1, SearchNumbers, LeastOfTwo DEF SentinelsOf
<1>3. all \in Nat /\ Cardinality(why) + few \in Nat BY <1>1, <1>2, SearchNumbers
<1> DEFINE least == Min({all, Cardinality(why) + few})
<1>4. TrialCeiling(s) = least + all BY DEF TrialCeiling
<1>5. least \in Nat /\ least \in {all, Cardinality(why) + few}
  <2> HIDE DEF all, why, few
  <2> QED BY <1>3, LeastOfTwo
<1>6. ASSUME NEW ids \in SUBSET s.cold, Cardinality(ids) = few
      PROVE  Cardinality(why \cup ids) \in Nat /\ Cardinality(why \cup ids) <= least
  <2>1. why \cup ids \in SUBSET TrainTasks /\ ids \in SUBSET TrainTasks BY <1>1
  <2>2. /\ IsFiniteSet(why) /\ IsFiniteSet(ids) /\ Cardinality(why) \in Nat
        /\ Cardinality(why \cup ids) \in Nat /\ Cardinality(why \cup ids) <= all
        /\ Cardinality(why \cap ids) \in Nat
    BY <1>1, <2>1
  <2>3. Cardinality(why \cup ids) = Cardinality(why) + Cardinality(ids) - Cardinality(why \cap ids)
    BY <2>2, FS_Union
  <2> HIDE DEF why, all, few, least
  <2> QED BY <1>2, <1>3, <1>5, <1>6, <2>2, <2>3
<1> HIDE DEF least, all, why, few
<1>7. \A ids \in SUBSET s.cold : Cardinality(ids) = few =>
        Cardinality(why \cup ids) \in Nat /\ Cardinality(why \cup ids) + all <= least + all
  BY <1>3, <1>5, <1>6
<1>8. least + all \in Nat BY <1>3, <1>5
<1> QED BY <1>4, <1>7, <1>8 DEF all, why, few

LEMMA RoundsAreLeft ==
  ASSUME NEW list, Len(list) \in Nat, ~OutOfRounds(list)
  PROVE  Len(list) < SearchRounds
<1>1. ~(Len(list) >= SearchRounds) BY DEF OutOfRounds
<1> QED BY <1>1, SearchNumbers

LEMMA RoundIsPlanned ==
  ASSUME SearchInvariant, PlanRound
  PROVE  SearchInvariant'
<1>0. SearchShape /\ PhaseFits /\ ColdFits /\ Limits /\ ParentFits /\ IsSearch(recorded)
  BY DEF SearchInvariant, SearchShape
<1>1. /\ UNCHANGED <<probe, scored, trialsPaid, generated, sealedLog, sealedRuns>>
      /\ searchAt = "loop" /\ searchMem = recorded
  BY <1>0 DEF PlanRound, paidVars, sealedVars, SearchShape, Searches
<1>2. /\ recorded.phase = "ready" /\ finishedAt = NoState /\ recorded.status # "none"
      /\ Earned(recorded) /\ SettledTo(recorded.rounds, Len(recorded.rounds))
  BY <1>0, <1>1 DEF PhaseFits, ParentFits, Searches
<1>3. CASE BlockSearch(recorded)
  BY <1>0, <1>1, <1>3, BlockIsSound DEF BlockSearch, Persist, SearchShape, Searches
<1>4. CASE FinishSearch(recorded)
  <2>1. /\ recorded' = [recorded EXCEPT !.status = "finished", !.phase = "finished"]
        /\ searchMem' = recorded' /\ finishedAt' = recorded' /\ searchAt' = "idle"
    BY <1>4 DEF FinishSearch, Persist
  <2>2. /\ IsSearch(recorded') /\ recorded'.phase = "finished" /\ recorded'.status = "finished"
        /\ SameSearch(recorded, recorded') /\ recorded' # NoState
    BY <1>0, <2>1 DEF IsSearch, SameSearch, NoState, SearchPhases
  <2>3. SearchShape'
    BY <1>0, <1>1, <2>1, <2>2 DEF SearchShape, Searches, Cold, InRound
  <2>4. PhaseFits' /\ ColdFits' /\ Reserves'
    BY <2>1, <2>2 DEF PhaseFits, ColdFits, Reserves, Searches, Cold, InRound
  <2>5. ParentFits'
    <3>1. Earned(recorded)' /\ SettledTo(recorded'.rounds, Len(recorded'.rounds))
      BY <1>1, <1>2, <2>2, SameData DEF SameSearch
    <3> QED BY <2>1, <3>1 DEF ParentFits, InRound
  <2>6. Limits' /\ SealFits'
    BY <1>1, <1>2, <2>1, <2>2, SameData, NotSealedYet DEF Seals
  <2> QED BY <2>3, <2>4, <2>5, <2>6 DEF SearchInvariant
<1>5. CASE /\ ~OutOfRounds(recorded.rounds)
           /\ ~(recorded.trials + TrialCeiling(recorded) > MaxTrials)
           /\ ~(recorded.calls + Retries + 1 > MaxModelCalls)
           /\ Persist([recorded EXCEPT !.phase = "diagnosing"])
           /\ searchAt' = "diagnose" /\ UNCHANGED finishedAt
  <2>1. /\ recorded' = [recorded EXCEPT !.phase = "diagnosing"] /\ searchMem' = recorded'
        /\ searchAt' = "diagnose" /\ UNCHANGED finishedAt
    BY <1>5 DEF Persist
  <2>2. /\ IsSearch(recorded') /\ recorded'.phase = "diagnosing"
        /\ recorded'.status = recorded.status /\ SameSearch(recorded, recorded')
        /\ recorded' # NoState
    BY <1>0, <2>1 DEF IsSearch, SameSearch, NoState, SearchPhases
  <2>3. SearchShape' BY <1>0, <1>1, <2>1, <2>2 DEF SearchShape, Searches
  <2>4. PhaseFits' /\ ColdFits'
    BY <1>2, <2>1, <2>2 DEF PhaseFits, ColdFits, Searches, Cold, InRound
  <2>5. Reserves'
    <3>1. Len(recorded'.rounds) < SearchRounds
      BY <1>0, <1>5, <2>2, RoundsAreLeft DEF IsSearch, SameSearch
    <3>2. TrialCeiling(recorded') = TrialCeiling(recorded) /\ TrialCeiling(recorded) \in Nat
      BY <1>0, <2>2, SameData, CeilingCovers
    <3>3. recorded'.trials = recorded.trials /\ recorded.trials \in Nat
          /\ recorded'.calls = recorded.calls /\ recorded.calls \in Nat
      BY <1>0, <2>2 DEF SameSearch, IsSearch
    <3>4. /\ recorded'.trials + TrialCeiling(recorded') <= MaxTrials
          /\ recorded'.calls + Retries + 1 <= MaxModelCalls
      BY <1>5, <3>2, <3>3, SearchNumbers
    <3> QED BY <2>1, <3>1, <3>4 DEF Reserves, InRound
  <2>6. ParentFits'
    <3>1. Earned(recorded)' /\ SettledTo(recorded'.rounds, Len(recorded'.rounds))
      BY <1>1, <1>2, <2>2, SameData DEF SameSearch
    <3> QED BY <2>1, <3>1 DEF ParentFits, InRound
  <2>7. Limits' /\ SealFits'
    BY <1>1, <2>1, <2>2, SameData, NotSealedYet DEF Seals
  <2> QED BY <2>3, <2>4, <2>5, <2>6, <2>7 DEF SearchInvariant
<1> QED BY <1>1, <1>3, <1>4, <1>5 DEF PlanRound

LEMMA DiagnosisKeeps ==
  ASSUME SearchInvariant, Diagnose
  PROVE  SearchInvariant'
<1>0. SearchShape /\ PhaseFits /\ Limits /\ ParentFits /\ Reserves /\ IsSearch(recorded)
  BY DEF SearchInvariant, SearchShape
<1>1. /\ UNCHANGED <<probe, scored, trialsPaid, generated, sealedLog, sealedRuns>>
      /\ searchAt = "diagnose" /\ searchMem = recorded
  BY <1>0 DEF Diagnose, paidVars, sealedVars, SearchShape, Searches
<1>2. /\ recorded.phase = "diagnosing" /\ finishedAt = NoState /\ recorded.status # "none"
      /\ Earned(recorded) /\ SettledTo(recorded.rounds, Len(recorded.rounds))
  BY <1>0, <1>1 DEF PhaseFits, ParentFits, Searches
<1>3. CASE BlockSearch(recorded)
  BY <1>0, <1>1, <1>3, BlockIsSound DEF BlockSearch, Persist, SearchShape, Searches
<1>4. CASE ~BlockSearch(recorded)
  <2> DEFINE now == Len(recorded.rounds)
             row == [status |-> "generating", score |-> 0]
  <2>1. /\ recorded' = [Reserved(recorded) EXCEPT !.phase = "generating",
                                                  !.rounds = Append(@, row)]
        /\ searchMem' = recorded' /\ searchAt' = "generate" /\ UNCHANGED finishedAt
    BY <1>1, <1>4 DEF Diagnose, Persist
  <2>2. /\ recorded.trials \in Nat /\ recorded.calls \in Nat /\ TrialCeiling(recorded) \in Nat
        /\ now \in Nat /\ now < SearchRounds
        /\ recorded.trials + TrialCeiling(recorded) <= MaxTrials
        /\ recorded.calls + Retries + 1 <= MaxModelCalls
    BY <1>0, <1>1, CeilingCovers DEF Reserves, IsSearch
  <2>3. PICK base : base = Reserved(recorded) OBVIOUS
  <2>4. /\ DOMAIN base = DOMAIN recorded /\ base.status = recorded.status
        /\ base.rounds = recorded.rounds /\ base.parent = recorded.parent
        /\ base.passing = recorded.passing /\ base.cold = recorded.cold
        /\ base.trials = recorded.trials + TrialCeiling(recorded)
        /\ base.calls = recorded.calls + (Retries + 1)
    BY <1>0, <2>2, <2>3, SearchNumbers DEF IsSearch, Reserved
  <2>5. /\ DOMAIN recorded' = DOMAIN recorded /\ recorded'.status = recorded.status
        /\ recorded'.phase = "generating"
        /\ recorded'.rounds = Append(recorded.rounds, row) /\ recorded'.parent = recorded.parent
        /\ recorded'.passing = recorded.passing /\ recorded'.cold = recorded.cold
        /\ recorded'.trials = recorded.trials + TrialCeiling(recorded)
        /\ recorded'.calls = recorded.calls + (Retries + 1)
    BY <1>0, <2>1, <2>3, <2>4 DEF IsSearch
  <2>6. row \in RoundRows /\ recorded.rounds \in Seq(RoundRows)
    BY <1>0 DEF RoundRows, RoundStatuses, IsSearch
  <2>7. /\ recorded'.rounds \in Seq(RoundRows) /\ Len(recorded'.rounds) = now + 1
        /\ \A n \in 1..now : recorded'.rounds[n] = recorded.rounds[n]
        /\ recorded'.rounds[now + 1] = row
    <3> HIDE DEF row
    <3> QED BY <2>5, <2>6
  <2>8. row.status = "generating" OBVIOUS
  <2> HIDE DEF now, row
  <2>9. IsSearch(recorded')
    <3>1. recorded'.trials \in Nat /\ recorded'.calls \in Nat
      BY SMTT(60), <2>2, <2>5, SearchNumbers
    <3>2. Len(recorded'.rounds) <= SearchRounds BY <2>2, <2>7, SearchNumbers
    <3> QED BY <1>0, <2>5, <2>7, <3>1, <3>2 DEF IsSearch, SearchPhases
  <2>10. SearchShape'
    BY <1>0, <1>1, <2>1, <2>9 DEF SearchShape, Searches, InRound
  <2>11. PhaseFits' /\ ColdFits'
    BY <1>2, <2>1, <2>5 DEF PhaseFits, ColdFits, Searches, Cold, InRound, NoState
  <2>12. TrialCeiling(recorded') = TrialCeiling(recorded)
    BY <2>5 DEF TrialCeiling, Focused, Failing, SentinelsOf
  <2>13. CallsOf(generated) \in Nat /\ trialsPaid \in Nat
    BY <1>0, CallsAreCounted, SearchRoundsAreFinite DEF SearchShape
  <2>14. Limits'
    <3>1. \A m \in Measurements :
            scored[m] <= 1 /\ (m[1] > Len(recorded'.rounds) => scored[m] = 0)
      <4>1. \A m \in Measurements : m[1] \in Nat
        BY SearchNumbers DEF Measurements
      <4>2. \A m \in Measurements : scored[m] <= 1 /\ (m[1] > now => scored[m] = 0)
        BY <1>0 DEF Limits, now
      <4>3. \A m \in Measurements : m[1] > now + 1 => m[1] > now BY <2>2, <4>1
      <4> QED BY <2>7, <4>2, <4>3
    <3>2. \A r \in 1..SearchRounds :
            generated[r] <= Retries + 1 /\ (r > Len(recorded'.rounds) => generated[r] = 0)
      BY <1>0, <2>2, <2>7, SearchNumbers DEF Limits, now
    <3>3. trialsPaid <= recorded'.trials /\ recorded'.trials <= MaxTrials
      BY <1>0, <2>2, <2>5, <2>13, SearchNumbers DEF Limits
    <3>4. CallsOf(generated) <= recorded'.calls /\ recorded'.calls <= MaxModelCalls
      BY <1>0, <2>2, <2>5, <2>13, SearchNumbers DEF Limits
    <3> QED BY <1>1, <3>1, <3>2, <3>3, <3>4 DEF Limits
  <2>15. Reserves'
    <3>1. generated[now + 1] = 0
      <4>1. now + 1 \in 1..SearchRounds /\ now + 1 > now BY <2>2, SearchNumbers
      <4> QED BY <1>0, <4>1 DEF Limits, now
    <3>2. CallsOf(generated) + Retries + 1 <= recorded'.calls
      BY <1>0, <2>2, <2>5, <2>13, SearchNumbers DEF Limits
    <3>3. trialsPaid + TrialCeiling(recorded') <= recorded'.trials
      BY <1>0, <2>2, <2>5, <2>12, <2>13 DEF Limits
    <3>4. scored[<<now + 1, "focused">>] = 0 /\ scored[<<now + 1, "confirm">>] = 0
      <4>1. <<now + 1, "focused">> \in Measurements /\ <<now + 1, "confirm">> \in Measurements
        BY <2>2, SearchNumbers DEF Measurements
      <4>2. <<now + 1, "focused">>[1] > now /\ <<now + 1, "confirm">>[1] > now
        BY <2>2
      <4> QED BY <1>0, <4>1, <4>2 DEF Limits, now
    <3>5. now + 1 > 0 BY <2>2
    <3> QED
      BY <1>1, <2>1, <2>7, <3>1, <3>2, <3>3, <3>4, <3>5 DEF Reserves, InRound
  <2>16. ParentFits'
    <3>1. WonBy(recorded'.rounds) = WonBy(recorded.rounds)
      BY <2>2, <2>7, <2>8 DEF WonBy, now
    <3>2. \A n \in WonBy(recorded.rounds) : recorded'.rounds[n] = recorded.rounds[n]
      BY <2>7 DEF WonBy, now
    <3>3. recorded.parent # 0 => recorded.parent \in WonBy(recorded.rounds)
      BY <1>2 DEF Earned
    <3>4. Earned(recorded)' BY <1>1, <1>2, <2>5, <3>1, <3>2, <3>3 DEF Earned
    <3>5. SettledTo(recorded'.rounds, now) BY <1>2, <2>7 DEF SettledTo, now
    <3>6. Len(recorded'.rounds) - 1 = now BY <2>2, <2>7
    <3> QED BY <2>1, <2>5, <2>7, <2>8, <3>4, <3>5, <3>6 DEF ParentFits
  <2>17. SealFits' BY <1>1, <2>1, NotSealedYet DEF Seals
  <2> QED BY <2>10, <2>11, <2>14, <2>15, <2>16, <2>17 DEF SearchInvariant
<1> QED BY <1>3, <1>4

(* The row of the round is replaced, and the rest stays.                   *)
RoundIs(s, row, phase) == [s EXCEPT !.rounds[Len(s.rounds)] = row, !.phase = phase]
LEMMA RowIsReplaced ==
  ASSUME NEW s, IsSearch(s), Len(s.rounds) > 0, NEW row \in RoundRows, NEW phase \in SearchPhases,
         NEW t, t = RoundIs(s, row, phase)
  PROVE  /\ IsSearch(t) /\ t.phase = phase /\ t.status = s.status
         /\ t.parent = s.parent /\ t.passing = s.passing /\ t.cold = s.cold
         /\ t.trials = s.trials /\ t.calls = s.calls
         /\ Len(t.rounds) = Len(s.rounds) /\ t.rounds[Len(s.rounds)] = row
         /\ \A n \in 1..Len(s.rounds) : n # Len(s.rounds) => t.rounds[n] = s.rounds[n]
<1>1. PICK now : now = Len(s.rounds) OBVIOUS
<1>2. s.rounds \in Seq(RoundRows) /\ now \in 1..Len(s.rounds) /\ Len(s.rounds) \in Nat
  BY <1>1 DEF IsSearch
<1>3. PICK list : list = [s.rounds EXCEPT ![now] = row] OBVIOUS
<1>4. /\ list \in Seq(RoundRows) /\ Len(list) = Len(s.rounds) /\ list[now] = row
      /\ \A n \in 1..Len(s.rounds) : n # now => list[n] = s.rounds[n]
  BY <1>2, <1>3
<1>5. /\ DOMAIN t = DOMAIN s /\ t.phase = phase /\ t.status = s.status /\ t.rounds = list
      /\ t.parent = s.parent /\ t.passing = s.passing /\ t.cold = s.cold
      /\ t.trials = s.trials /\ t.calls = s.calls
  BY <1>1, <1>3 DEF IsSearch, RoundIs
<1>6. IsSearch(t) BY <1>4, <1>5 DEF IsSearch
<1> QED BY <1>1, <1>4, <1>5, <1>6

(* A round that does not qualify leaves the parent as it was.              *)
LEMMA NobodyQualifies ==
  ASSUME IsSearch(recorded), Earned(recorded), SettledTo(recorded.rounds, Len(recorded.rounds) - 1),
         Len(recorded.rounds) > 0,
         recorded.rounds[Len(recorded.rounds)].status \in {"generating", "evaluating"},
         Len(recorded'.rounds) = Len(recorded.rounds),
         recorded'.rounds[Len(recorded.rounds)].status # "qualified",
         \A n \in 1..Len(recorded.rounds) :
           n # Len(recorded.rounds) => recorded'.rounds[n] = recorded.rounds[n],
         recorded'.parent = recorded.parent, recorded'.passing = recorded.passing,
         recorded'.cold = recorded.cold,
         \A n \in 1..Len(recorded.rounds) :
           n # Len(recorded.rounds) => scored'[<<n, "confirm">>] = scored[<<n, "confirm">>]
  PROVE  /\ Earned(recorded)' /\ SettledTo(recorded'.rounds, Len(recorded.rounds) - 1)
         /\ recorded'.rounds[Len(recorded.rounds)].status \in {"rejected", "generation_failed"}
              => SettledTo(recorded'.rounds, Len(recorded.rounds))
<1>1. PICK now \in Nat : now = Len(recorded.rounds) /\ now > 0 BY DEF IsSearch
<1>2. WonBy(recorded'.rounds) = WonBy(recorded.rounds) BY <1>1 DEF WonBy
<1>3. \A n \in WonBy(recorded.rounds) : n \in 1..now /\ n # now
  BY <1>1 DEF WonBy
<1>4. \A n \in WonBy(recorded.rounds) :
        recorded'.rounds[n] = recorded.rounds[n]
          /\ scored'[<<n, "confirm">>] = scored[<<n, "confirm">>]
  BY <1>1, <1>3
<1>5. recorded.parent # 0 => recorded.parent \in WonBy(recorded.rounds)
  BY DEF Earned
<1>6. Earned(recorded)'
  BY ONLY Earned(recorded), recorded'.parent = recorded.parent,
          recorded'.passing = recorded.passing, recorded'.cold = recorded.cold,
          <1>2, <1>4, <1>5 DEF Earned
<1>7. \A n \in 1..now - 1 : n \in 1..now /\ n # now BY <1>1
<1>8. SettledTo(recorded'.rounds, now - 1) BY <1>1, <1>7 DEF SettledTo
<1>9. ASSUME recorded'.rounds[now].status \in {"rejected", "generation_failed"}
      PROVE  SettledTo(recorded'.rounds, now)
  <2>1. \A n \in 1..now : n \in 1..now - 1 \/ n = now BY <1>1
  <2> QED BY <1>8, <1>9, <2>1 DEF SettledTo
<1> QED BY <1>1, <1>6, <1>8, <1>9

LEMMA GenerationKeeps ==
  ASSUME SearchInvariant, Generate
  PROVE  SearchInvariant'
<1>0. SearchShape /\ PhaseFits /\ Limits /\ ParentFits /\ Reserves /\ IsSearch(recorded)
  BY DEF SearchInvariant, SearchShape
<1>1. /\ UNCHANGED <<probe, scored, trialsPaid, sealedLog, sealedRuns>>
      /\ searchAt = "generate" /\ searchMem = recorded
  BY <1>0 DEF Generate, sealedVars, SearchShape, Searches, InRound
<1>2. /\ recorded.phase = "generating" /\ finishedAt = NoState /\ recorded.status # "none"
      /\ Earned(recorded) /\ SettledTo(recorded.rounds, Len(recorded.rounds) - 1)
      /\ recorded.rounds[Len(recorded.rounds)].status \in {"generating", "evaluating"}
  BY <1>0, <1>1 DEF PhaseFits, ParentFits, Searches, InRound
<1>3. PICK now \in Nat : now = Len(recorded.rounds) /\ now > 0 /\ now \in 1..SearchRounds
  <2>1. Len(recorded.rounds) \in Nat /\ Len(recorded.rounds) > 0
        /\ Len(recorded.rounds) <= SearchRounds
    BY <1>0, <1>1 DEF IsSearch, Reserves, InRound
  <2> QED BY <2>1, SearchNumbers
<1>4. PICK calls \in 0..Retries + 1 : generated' = [generated EXCEPT ![now] = @ + calls]
  BY <1>1, <1>3 DEF Generate, Round
<1>5. /\ calls \in Nat /\ calls <= Retries + 1 /\ generated[now] = 0
      /\ CallsOf(generated) + Retries + 1 <= recorded.calls
      /\ generated \in [1..SearchRounds -> Nat]
  BY <1>0, <1>1, <1>3, <1>4, SearchNumbers DEF Reserves, SearchShape
<1>6. /\ generated' \in [1..SearchRounds -> Nat] /\ generated'[now] = calls
      /\ \A r \in 1..SearchRounds : r # now => generated'[r] = generated[r]
  BY <1>3, <1>4, <1>5
<1>7. CallsOf(generated') = CallsOf(generated) + calls /\ CallsOf(generated) \in Nat
  <2>1. /\ CallsOf(generated) \in Nat
        /\ \A r \in 1..SearchRounds, n \in Nat :
             CallsOf([generated EXCEPT ![r] = @ + n]) = CallsOf(generated) + n
    BY <1>5, CallsAreCounted, SearchRoundsAreFinite
  <2>2. CallsOf([generated EXCEPT ![now] = @ + calls]) = CallsOf(generated) + calls
    BY <1>3, <1>5, <2>1
  <2> QED BY <1>4, <2>1, <2>2
<1>8. ASSUME Len(recorded'.rounds) = now, recorded'.trials = recorded.trials,
             recorded'.calls = recorded.calls
      PROVE  Limits'
  <2>1. \A r \in 1..SearchRounds : generated'[r] <= Retries + 1 /\ (r > now => generated'[r] = 0)
    BY <1>0, <1>3, <1>5, <1>6 DEF Limits
  <2>2. CallsOf(generated') <= recorded.calls
    BY <1>0, <1>5, <1>7, SearchNumbers DEF IsSearch
  <2> QED BY <1>0, <1>1, <1>3, <1>8, <2>1, <2>2 DEF Limits
<1>9. CASE BlockSearch(recorded)
  <2>1. /\ recorded' = [recorded EXCEPT !.status = "blocked"] /\ searchAt' = "idle"
        /\ UNCHANGED finishedAt
    BY <1>9 DEF BlockSearch, Persist
  <2>2. Limits' BY <1>0, <1>3, <1>8, <2>1 DEF IsSearch
  <2> QED
    BY <1>0, <1>1, <1>6, <2>1, <2>2, BlockIsSound DEF SearchShape, Searches, InRound
<1>10. CASE ~BlockSearch(recorded)
  <2>1. \/ /\ Persist(Settles(recorded, [status |-> "generation_failed", score |-> 0]))
           /\ searchAt' = "loop" /\ UNCHANGED finishedAt
        \/ /\ Persist([recorded EXCEPT !.phase = "evaluating",
                         !.rounds[Round] = [status |-> "evaluating", score |-> 0]])
           /\ searchAt' = "probe" /\ UNCHANGED finishedAt
    BY <1>1, <1>10 DEF Generate
  <2>2. \E row \in RoundRows, phase \in {"ready", "evaluating"} :
          /\ recorded' = RoundIs(recorded, row, phase) /\ searchMem' = recorded'
          /\ searchAt' = (IF phase = "ready" THEN "loop" ELSE "probe") /\ UNCHANGED finishedAt
          /\ row.status = (IF phase = "ready" THEN "generation_failed" ELSE "evaluating")
    <3>1. CASE /\ Persist(Settles(recorded, [status |-> "generation_failed", score |-> 0]))
               /\ searchAt' = "loop" /\ UNCHANGED finishedAt
      <4>1. [status |-> "generation_failed", score |-> 0] \in RoundRows
        BY DEF RoundRows, RoundStatuses
      <4> QED BY <1>1, <3>1, <4>1 DEF Persist, Settles, RoundIs, Round
    <3>2. CASE /\ Persist([recorded EXCEPT !.phase = "evaluating",
                             !.rounds[Round] = [status |-> "evaluating", score |-> 0]])
               /\ searchAt' = "probe" /\ UNCHANGED finishedAt
      <4>1. [status |-> "evaluating", score |-> 0] \in RoundRows
        BY DEF RoundRows, RoundStatuses
      <4>2. [recorded EXCEPT !.phase = "evaluating",
               !.rounds[Round] = [status |-> "evaluating", score |-> 0]]
            = RoundIs(recorded, [status |-> "evaluating", score |-> 0], "evaluating")
        BY <1>0, <1>1 DEF RoundIs, Round, IsSearch
      <4> QED BY <3>2, <4>1, <4>2 DEF Persist
    <3> QED BY <2>1, <3>1, <3>2
  <2>3. PICK row \in RoundRows, phase \in {"ready", "evaluating"} :
          /\ recorded' = RoundIs(recorded, row, phase) /\ searchMem' = recorded'
          /\ searchAt' = (IF phase = "ready" THEN "loop" ELSE "probe") /\ UNCHANGED finishedAt
          /\ row.status = (IF phase = "ready" THEN "generation_failed" ELSE "evaluating")
    BY <2>2
  <2>4. /\ IsSearch(recorded') /\ recorded'.phase = phase /\ recorded'.status = recorded.status
        /\ recorded'.parent = recorded.parent /\ recorded'.passing = recorded.passing
        /\ recorded'.cold = recorded.cold /\ recorded'.trials = recorded.trials
        /\ recorded'.calls = recorded.calls
        /\ Len(recorded'.rounds) = now /\ recorded'.rounds[now] = row
        /\ \A n \in 1..now : n # now => recorded'.rounds[n] = recorded.rounds[n]
    <3>1. phase \in SearchPhases /\ Len(recorded.rounds) > 0
      BY <1>3, <2>3 DEF SearchPhases
    <3> QED BY <1>0, <1>3, <2>3, <3>1, RowIsReplaced
  <2>5. SearchShape'
    BY <1>0, <1>1, <1>6, <2>3, <2>4 DEF SearchShape, Searches, InRound
  <2>6. PhaseFits' /\ ColdFits'
    BY <1>2, <2>3, <2>4 DEF PhaseFits, ColdFits, Searches, Cold, InRound, NoState
  <2>7. Reserves'
    <3>1. TrialCeiling(recorded') = TrialCeiling(recorded)
      BY <2>4 DEF TrialCeiling, Focused, Failing, SentinelsOf
    <3> QED BY <1>0, <1>1, <1>3, <2>3, <2>4, <3>1 DEF Reserves, InRound
  <2>8. ParentFits'
    <3>1. /\ Earned(recorded)' /\ SettledTo(recorded'.rounds, now - 1)
          /\ row.status = "generation_failed" => SettledTo(recorded'.rounds, now)
      BY <1>0, <1>1, <1>2, <1>3, <2>3, <2>4, NobodyQualifies
    <3> QED BY <2>3, <2>4, <3>1 DEF ParentFits, InRound
  <2>9. Limits' /\ SealFits' BY <1>1, <1>8, <2>3, <2>4, NotSealedYet DEF Seals
  <2> QED BY <2>5, <2>6, <2>7, <2>8, <2>9 DEF SearchInvariant
<1> QED BY <1>9, <1>10

LEMMA RoundNow ==
  ASSUME SearchInvariant, searchAt \in InRound
  PROVE  /\ searchMem = recorded /\ finishedAt = NoState /\ recorded.status # "none"
         /\ Len(recorded.rounds) \in Nat /\ Len(recorded.rounds) > 0
         /\ Len(recorded.rounds) \in 1..SearchRounds /\ Len(recorded.rounds) \in 0..SearchRounds
         /\ Earned(recorded) /\ SettledTo(recorded.rounds, Len(recorded.rounds) - 1)
         /\ recorded.rounds[Len(recorded.rounds)].status \in {"generating", "evaluating"}
<1>1. searchMem = recorded /\ finishedAt = NoState /\ recorded.status # "none"
  BY DEF SearchInvariant, SearchShape, PhaseFits, Searches
<1>2. Len(recorded.rounds) \in Nat /\ Len(recorded.rounds) > 0
      /\ Len(recorded.rounds) <= SearchRounds
  BY DEF SearchInvariant, SearchShape, IsSearch, Reserves
<1>3. Len(recorded.rounds) \in 1..SearchRounds /\ Len(recorded.rounds) \in 0..SearchRounds
  BY <1>2, SearchNumbers
<1>4. /\ Earned(recorded) /\ SettledTo(recorded.rounds, Len(recorded.rounds) - 1)
      /\ recorded.rounds[Len(recorded.rounds)].status \in {"generating", "evaluating"}
  BY DEF SearchInvariant, ParentFits
<1> QED BY <1>1, <1>2, <1>3, <1>4

LEMMA ProbeKeeps ==
  ASSUME SearchInvariant, Probe
  PROVE  SearchInvariant'
<1>0. SearchShape /\ PhaseFits /\ Limits /\ ParentFits /\ Reserves /\ IsSearch(recorded)
  BY DEF SearchInvariant, SearchShape
<1>1. /\ UNCHANGED <<recorded, finishedAt, searchMem, sealedLog, sealedRuns>>
      /\ searchAt = "probe" /\ searchAt' = "screen"
  BY DEF Probe, sealedVars
<1>2. PICK now : now = Len(recorded.rounds) OBVIOUS
<1>3. /\ searchMem = recorded /\ finishedAt = NoState /\ recorded.status # "none"
      /\ now \in Nat /\ now > 0 /\ now \in 0..SearchRounds
      /\ Earned(recorded) /\ SettledTo(recorded.rounds, now - 1)
      /\ recorded.rounds[now].status \in {"generating", "evaluating"}
  BY <1>1, <1>2, RoundNow DEF InRound
<1>4. PICK sentinels \in kSubset(SentinelsOf(recorded.cold), recorded.cold) :
        /\ Paid(now, "focused", Cardinality(Focused(recorded) \cup sentinels))
        /\ probe'.confirmed = {}
  <2>1. PICK sentinels \in kSubset(SentinelsOf(searchMem.cold), searchMem.cold) :
          /\ Paid(Round, "focused", Cardinality(Focused(searchMem) \cup sentinels))
          /\ \E passing \in SUBSET (Focused(searchMem) \cup sentinels) :
               probe' = [focused |-> passing, sentinels |-> sentinels, confirmed |-> {}]
    BY DEF Probe
  <2>2. probe'.confirmed = {} BY <2>1
  <2>3. Round = now BY <1>2, <1>3 DEF Round
  <2> QED BY <1>3, <2>1, <2>2, <2>3
<1> DEFINE cost == Cardinality(Focused(recorded) \cup sentinels)
<1>5. cost \in Nat /\ cost + Cardinality(TrainTasks) <= TrialCeiling(recorded)
      /\ TrialCeiling(recorded) \in Nat
  BY <1>0, CeilingCovers DEF kSubset
<1> HIDE DEF cost
<1>6. /\ scored' \in [Measurements -> Nat] /\ <<now, "focused">> \in Measurements
      /\ scored'[<<now, "focused">>] = scored[<<now, "focused">>] + 1
      /\ \A m \in Measurements : m # <<now, "focused">> => scored'[m] = scored[m]
      /\ trialsPaid' = trialsPaid + cost /\ trialsPaid' \in Nat /\ generated' = generated
  <2>1. Paid(now, "focused", cost) BY <1>4 DEF cost
  <2> QED BY <1>0, <1>3, <1>5, <2>1, PaidFor
<1>7. /\ trialsPaid + TrialCeiling(recorded) <= recorded.trials /\ trialsPaid \in Nat
      /\ scored[<<now, "focused">>] = 0 /\ scored[<<now, "confirm">>] = 0
      /\ recorded.trials \in Nat
  BY <1>0, <1>1, <1>2 DEF Reserves, SearchShape, IsSearch, InRound
<1>8. trialsPaid' + Cardinality(TrainTasks) <= recorded.trials /\ trialsPaid' <= recorded.trials
  BY <1>5, <1>6, <1>7, SearchNumbers
<1>9. \A n \in 1..now : scored'[<<n, "confirm">>] = scored[<<n, "confirm">>]
  <2>1. \A n \in 1..now : <<n, "confirm">> \in Measurements /\ <<n, "confirm">> # <<now, "focused">>
    BY <1>3, SearchNumbers DEF Measurements
  <2> QED BY <1>6, <2>1
<1>10. SearchShape'
  BY <1>0, <1>1, <1>3, <1>4, <1>6 DEF SearchShape, Searches, InRound
<1>11. PhaseFits' /\ ColdFits'
  <2>1. recorded # NoState BY <1>3 DEF NoState
  <2> QED BY <1>0, <1>1, <2>1 DEF PhaseFits, ColdFits, Searches, Cold, InRound
<1>12. Limits'
  <2>1. \A m \in Measurements : scored'[m] <= 1 /\ (m[1] > now => scored'[m] = 0)
    <3>1. \A m \in Measurements : m = <<now, "focused">> => ~(m[1] > now)
      BY <1>3
    <3> QED BY <1>0, <1>2, <1>6, <1>7, <3>1 DEF Limits
  <2> QED BY <1>0, <1>1, <1>2, <1>6, <1>8, <2>1 DEF Limits
<1>13. Reserves'
  <2>1. scored'[<<now, "confirm">>] = 0 BY <1>3, <1>7, <1>9
  <2> QED BY <1>1, <1>2, <1>3, <1>8, <2>1 DEF Reserves, InRound
<1>14. ParentFits'
  <2>1. Earned(recorded)'
    <3>1. \A n \in WonBy(recorded.rounds) : scored'[<<n, "confirm">>] = scored[<<n, "confirm">>]
      BY <1>2, <1>9 DEF WonBy
    <3> QED BY <1>1, <1>3, <3>1 DEF Earned
  <2>2. recorded.phase = "evaluating" BY <1>0, <1>1 DEF PhaseFits
  <2> QED BY <1>1, <1>2, <1>3, <2>1, <2>2 DEF ParentFits
<1>15. SealFits' BY <1>1, NotSealedYet DEF Seals
<1> QED BY <1>10, <1>11, <1>12, <1>13, <1>14, <1>15 DEF SearchInvariant

LEMMA ConfirmKeeps ==
  ASSUME SearchInvariant, Confirm
  PROVE  SearchInvariant'
<1>0. SearchShape /\ PhaseFits /\ Limits /\ ParentFits /\ Reserves /\ IsSearch(recorded)
  BY DEF SearchInvariant, SearchShape
<1>1. /\ UNCHANGED <<recorded, finishedAt, searchMem, sealedLog, sealedRuns>>
      /\ searchAt = "screen" /\ searchAt' = "decide"
  BY DEF Confirm, sealedVars
<1>2. PICK now : now = Len(recorded.rounds) OBVIOUS
<1>3. /\ searchMem = recorded /\ finishedAt = NoState /\ recorded.status # "none"
      /\ now \in Nat /\ now > 0 /\ now \in 0..SearchRounds
      /\ Earned(recorded) /\ SettledTo(recorded.rounds, now - 1)
      /\ recorded.rounds[now].status \in {"generating", "evaluating"}
  BY <1>1, <1>2, RoundNow DEF InRound
<1>4. /\ Paid(now, "confirm", Cardinality(TrainTasks))
      /\ \E passing \in SUBSET TrainTasks : probe' = [probe EXCEPT !.confirmed = passing]
  BY <1>1, <1>2, <1>3 DEF Confirm, Round
<1>5. /\ scored' \in [Measurements -> Nat] /\ <<now, "confirm">> \in Measurements
      /\ scored'[<<now, "confirm">>] = scored[<<now, "confirm">>] + 1
      /\ \A m \in Measurements : m # <<now, "confirm">> => scored'[m] = scored[m]
      /\ trialsPaid' = trialsPaid + Cardinality(TrainTasks) /\ trialsPaid' \in Nat
      /\ generated' = generated
  BY <1>0, <1>3, <1>4, PaidFor, SearchNumbers
<1>6. /\ trialsPaid + Cardinality(TrainTasks) <= recorded.trials
      /\ scored[<<now, "confirm">>] = 0
  BY <1>0, <1>1, <1>2 DEF Reserves, InRound
<1>7. \A n \in 1..now : n # now => scored'[<<n, "confirm">>] = scored[<<n, "confirm">>]
  <2>1. \A n \in 1..now : n # now =>
          <<n, "confirm">> \in Measurements /\ <<n, "confirm">> # <<now, "confirm">>
    BY <1>3, SearchNumbers DEF Measurements
  <2> QED BY <1>5, <2>1
<1>8. SearchShape'
  <2>1. probe'.confirmed \subseteq TrainTasks BY <1>0, <1>4
  <2> QED BY <1>0, <1>1, <1>3, <1>5, <2>1 DEF SearchShape, Searches, InRound
<1>9. PhaseFits' /\ ColdFits'
  <2>1. recorded # NoState BY <1>3 DEF NoState
  <2> QED BY <1>0, <1>1, <2>1 DEF PhaseFits, ColdFits, Searches, Cold, InRound
<1>10. Limits'
  <2>1. \A m \in Measurements : scored'[m] <= 1 /\ (m[1] > now => scored'[m] = 0)
    <3>1. \A m \in Measurements : m = <<now, "confirm">> => ~(m[1] > now)
      BY <1>3
    <3> QED BY <1>0, <1>2, <1>5, <1>6, <3>1 DEF Limits
  <2> QED BY <1>0, <1>1, <1>2, <1>5, <1>6, <2>1 DEF Limits
<1>11. Reserves' BY <1>1, <1>2, <1>3, <1>5, <1>6 DEF Reserves, InRound
<1>12. ParentFits'
  <2>1. Earned(recorded)'
    <3>1. \A n \in WonBy(recorded.rounds) : scored'[<<n, "confirm">>] = scored[<<n, "confirm">>]
      BY <1>2, <1>3, <1>7 DEF WonBy
    <3> QED BY <1>1, <1>3, <3>1 DEF Earned
  <2>2. recorded.phase = "evaluating" BY <1>0, <1>1 DEF PhaseFits
  <2> QED BY <1>1, <1>2, <1>3, <2>1, <2>2 DEF ParentFits
<1>13. SealFits' BY <1>1, NotSealedYet DEF Seals
<1> QED BY <1>8, <1>9, <1>10, <1>11, <1>12, <1>13 DEF SearchInvariant

(* What is decided of the round, and that a parent that qualified is       *)
(* better than all before it.                                              *)
Qualifies == searchAt = "decide" /\ Lifts(probe.confirmed)
LEMMA WhatIsDecided ==
  ASSUME SearchInvariant, searchAt \in {"screen", "decide"}, NEW d, d = Decided,
         NEW now, now = Len(recorded.rounds)
  PROVE  /\ IsSearch(d) /\ d.phase = "ready" /\ d.status = recorded.status
         /\ d.cold = recorded.cold /\ d.trials = recorded.trials /\ d.calls = recorded.calls
         /\ Len(d.rounds) = now
         /\ \A n \in 1..now : n # now => d.rounds[n] = recorded.rounds[n]
         /\ Qualifies => /\ d.parent = now /\ d.passing = probe.confirmed
                         /\ d.rounds[now].status = "qualified"
                         /\ d.rounds[now].score = Cardinality(probe.confirmed)
         /\ ~Qualifies => /\ d.parent = recorded.parent /\ d.passing = recorded.passing
                          /\ d.rounds[now].status = "rejected"
<1>1. /\ searchMem = recorded /\ now \in Nat /\ now > 0
      /\ IsSearch(recorded) /\ probe.confirmed \subseteq TrainTasks
      /\ "ready" \in SearchPhases
  BY RoundNow DEF InRound, SearchInvariant, SearchShape, SearchPhases
<1>2. Cardinality(probe.confirmed) \in Nat
  BY <1>1, SearchNumbers, FS_Subset, FS_CardinalityType
<1>3. CASE Qualifies
  <2>1. PICK row : row = [status |-> "qualified", score |-> Cardinality(probe.confirmed)]
    OBVIOUS
  <2>2. row \in RoundRows BY <1>2, <2>1 DEF RoundRows, RoundStatuses
  <2>3. PICK t : t = RoundIs(recorded, row, "ready") OBVIOUS
  <2>4. d = [t EXCEPT !.parent = now, !.passing = probe.confirmed]
    BY <1>1, <1>3, <2>1, <2>3 DEF Decided, Qualifies, Settles, Round, RoundIs
  <2>5. /\ IsSearch(t) /\ t.phase = "ready" /\ t.status = recorded.status
        /\ t.parent = recorded.parent /\ t.passing = recorded.passing /\ t.cold = recorded.cold
        /\ t.trials = recorded.trials /\ t.calls = recorded.calls
        /\ Len(t.rounds) = now /\ t.rounds[now] = row
        /\ \A n \in 1..now : n # now => t.rounds[n] = recorded.rounds[n]
    BY <1>1, <2>2, <2>3, RowIsReplaced
  <2>6. /\ DOMAIN d = DOMAIN t /\ d.phase = "ready" /\ d.status = t.status /\ d.parent = now
        /\ d.passing = probe.confirmed /\ d.cold = t.cold /\ d.trials = t.trials
        /\ d.calls = t.calls /\ d.rounds = t.rounds
    BY <2>4, <2>5 DEF IsSearch
  <2>7. IsSearch(d) BY <1>1, <2>5, <2>6 DEF IsSearch
  <2> QED BY <1>3, <2>1, <2>5, <2>6, <2>7
<1>4. CASE ~Qualifies
  <2>1. PICK row : row = [status |-> "rejected", score |-> 0] OBVIOUS
  <2>2. row \in RoundRows BY <2>1 DEF RoundRows, RoundStatuses
  <2>3. d = RoundIs(recorded, row, "ready")
    BY <1>1, <1>4, <2>1 DEF Decided, Qualifies, Settles, Round, RoundIs
  <2>4. /\ IsSearch(d) /\ d.phase = "ready" /\ d.status = recorded.status
        /\ d.parent = recorded.parent /\ d.passing = recorded.passing /\ d.cold = recorded.cold
        /\ d.trials = recorded.trials /\ d.calls = recorded.calls
        /\ Len(d.rounds) = now /\ d.rounds[now] = row
        /\ \A n \in 1..now : n # now => d.rounds[n] = recorded.rounds[n]
    BY <1>1, <2>2, <2>3, RowIsReplaced
  <2> QED BY <1>4, <2>1, <2>4
<1> QED BY <1>3, <1>4

LEMMA ParentIsBetter ==
  ASSUME SearchInvariant, searchAt \in InRound, NEW now, now = Len(recorded.rounds),
         UNCHANGED scored,
         scored[<<now, "confirm">>] = 1, NEW passing \in SUBSET TrainTasks,
         Cardinality(passing) > Cardinality(recorded.passing),
         recorded'.passing = passing, recorded'.parent = now, recorded'.cold = recorded.cold,
         Len(recorded'.rounds) = now, recorded'.rounds[now].status = "qualified",
         recorded'.rounds[now].score = Cardinality(passing),
         \A n \in 1..now : n # now => recorded'.rounds[n] = recorded.rounds[n]
  PROVE  Earned(recorded)' /\ SettledTo(recorded'.rounds, now)
<1>1. /\ now \in Nat /\ now > 0 /\ Earned(recorded) /\ SettledTo(recorded.rounds, now - 1)
      /\ recorded.rounds[now].status \in {"generating", "evaluating"}
      /\ IsSearch(recorded)
  BY RoundNow DEF SearchInvariant, SearchShape
<1>2. Cardinality(passing) \in Nat /\ Cardinality(recorded.passing) \in Nat
      /\ Cardinality(recorded.cold) \in Nat
  BY <1>1, SearchNumbers, FS_Subset, FS_CardinalityType DEF IsSearch
<1> DEFINE won == WonBy(recorded.rounds)
           wonNow == WonBy(recorded'.rounds)
<1>3. wonNow = won \cup {now} /\ \A n \in won : n \in Nat /\ n < now /\ n \in 1..now
  BY <1>1 DEF WonBy
<1>4. \A n \in won : recorded'.rounds[n] = recorded.rounds[n] BY <1>3
<1>5. \A n \in won : recorded.rounds[n].score \in Nat
  <2>1. \A n \in 1..now : recorded.rounds[n] \in RoundRows BY <1>1 DEF IsSearch
  <2>2. \A row \in RoundRows : row.score \in Nat BY DEF RoundRows
  <2> QED BY <1>3, <2>1, <2>2
<1>6. \A n \in won : n <= recorded.parent
      /\ recorded.parent \in {0} \cup won /\ (\A m \in won : m < n =>
           recorded.rounds[m].score < recorded.rounds[n].score)
  BY <1>1 DEF Earned
<1>7. \A n \in won : recorded.rounds[n].score < Cardinality(passing)
  <2> SUFFICES ASSUME NEW n \in won
               PROVE  recorded.rounds[n].score < Cardinality(passing)
    OBVIOUS
  <2>1. recorded.parent \in won /\ recorded.parent # 0
    <3>1. n > 0 /\ n <= recorded.parent /\ recorded.parent \in {0} \cup won
      BY <1>3, <1>6
    <3>2. recorded.parent \in Nat BY <1>1 DEF IsSearch
    <3> QED BY <1>3, <3>1, <3>2
  <2>2. Cardinality(recorded.passing) = recorded.rounds[recorded.parent].score
    BY <1>1, <2>1 DEF Earned
  <2>3. recorded.rounds[n].score <= recorded.rounds[recorded.parent].score
    <3>1. n = recorded.parent \/ n < recorded.parent BY <1>3, <1>6, <2>1
    <3>2. n < recorded.parent => recorded.rounds[n].score < recorded.rounds[recorded.parent].score
      BY <1>6, <2>1
    <3> QED BY <1>5, <2>1, <3>1, <3>2
  <2> QED BY <1>2, <1>5, <2>1, <2>2, <2>3
<1>8. Cardinality(recorded.cold) < Cardinality(passing)
  <2>1. CASE recorded.parent = 0 BY <1>1, <1>2, <2>1 DEF Earned
  <2>2. CASE recorded.parent # 0
    <3>1. recorded.parent \in won BY <1>1, <2>2 DEF Earned
    <3>2. recorded.rounds[recorded.parent].score > Cardinality(recorded.cold)
      BY <1>1, <3>1 DEF Earned
    <3> QED BY <1>2, <1>5, <1>7, <3>1, <3>2
  <2> QED BY <2>1, <2>2
<1>9. Earned(recorded)'
  <2>1. now \in wonNow /\ \A n \in wonNow : n <= now BY <1>1, <1>3
  <2>2. ASSUME NEW n \in wonNow
        PROVE  /\ scored[<<n, "confirm">>] = 1
               /\ recorded'.rounds[n].score > Cardinality(recorded.cold)
               /\ \A m \in wonNow : m < n => recorded'.rounds[m].score < recorded'.rounds[n].score
    <3>1. CASE n = now
      <4>1. \A m \in wonNow : m < n => m \in won BY <1>1, <1>3, <3>1
      <4>2. recorded'.rounds[n].score > Cardinality(recorded.cold)
        BY <1>2, <1>8, <3>1
      <4> QED BY <1>4, <1>7, <3>1, <4>1, <4>2
    <3>2. CASE n # now
      <4>1. n \in won /\ \A m \in wonNow : m < n => m \in won
        BY <1>1, <1>3, <3>2
      <4>2. scored[<<n, "confirm">>] = 1 /\ recorded.rounds[n].score > Cardinality(recorded.cold)
        BY <1>1, <4>1 DEF Earned
      <4> QED BY <1>4, <1>6, <4>1, <4>2
    <3> QED BY <3>1, <3>2
  <2> HIDE DEF won, wonNow
  <2>3. now # 0 BY <1>1
  <2> QED BY <2>1, <2>2, <2>3 DEF Earned, wonNow
<1>10. SettledTo(recorded'.rounds, now)
  <2>1. \A n \in 1..now : (n \in 1..now - 1 /\ n # now) \/ n = now BY <1>1
  <2> QED BY <1>1, <2>1 DEF SettledTo
<1> QED BY <1>9, <1>10

LEMMA DecisionKeeps ==
  ASSUME SearchInvariant, Decide
  PROVE  SearchInvariant'
<1>0. SearchShape /\ PhaseFits /\ Limits /\ ParentFits /\ Reserves /\ IsSearch(recorded)
  BY DEF SearchInvariant, SearchShape
<1>1. /\ UNCHANGED <<scored, trialsPaid, generated, sealedLog, sealedRuns>>
      /\ searchAt \in {"screen", "decide"} /\ probe' = NoProbe
  BY DEF Decide, paidVars, sealedVars
<1>2. PICK now : now = Len(recorded.rounds) OBVIOUS
<1>3. /\ searchMem = recorded /\ finishedAt = NoState /\ recorded.status # "none"
      /\ now \in Nat /\ now > 0
      /\ Earned(recorded) /\ SettledTo(recorded.rounds, now - 1)
      /\ recorded.rounds[now].status \in {"generating", "evaluating"}
  BY <1>1, <1>2, RoundNow DEF InRound
<1>4. PICK d : d = Decided OBVIOUS
<1>5. /\ IsSearch(d) /\ d.phase = "ready" /\ d.status = recorded.status
      /\ d.cold = recorded.cold /\ d.trials = recorded.trials /\ d.calls = recorded.calls
      /\ Len(d.rounds) = now
      /\ \A n \in 1..now : n # now => d.rounds[n] = recorded.rounds[n]
      /\ Qualifies => /\ d.parent = now /\ d.passing = probe.confirmed
                      /\ d.rounds[now].status = "qualified"
                      /\ d.rounds[now].score = Cardinality(probe.confirmed)
      /\ ~Qualifies => /\ d.parent = recorded.parent /\ d.passing = recorded.passing
                       /\ d.rounds[now].status = "rejected"
  BY <1>1, <1>2, <1>4, WhatIsDecided
<1>6. probe'.confirmed \subseteq TrainTasks BY <1>1 DEF NoProbe
<1>7. CASE BlockSearch(recorded)
  BY <1>0, <1>1, <1>6, <1>7, BlockIsSound DEF BlockSearch, Persist, SearchShape, Searches, InRound
<1>8. ASSUME Len(recorded'.rounds) = now, recorded'.trials = recorded.trials,
             recorded'.calls = recorded.calls
      PROVE  Limits'
  BY <1>0, <1>1, <1>2, <1>8 DEF Limits
<1>9. CASE replanned /\ BlockSearch([d EXCEPT !.phase = "evaluating"])
  <2>1. PICK e : e = [d EXCEPT !.phase = "evaluating"] OBVIOUS
  <2>2. /\ recorded' = [e EXCEPT !.status = "blocked"] /\ searchAt' = "idle"
        /\ UNCHANGED finishedAt
    BY <1>9, <2>1 DEF BlockSearch, Persist
  <2>3. /\ DOMAIN e = DOMAIN d /\ e.phase = "evaluating" /\ e.status = d.status
        /\ e.rounds = d.rounds /\ e.parent = d.parent /\ e.passing = d.passing /\ e.cold = d.cold
        /\ e.trials = d.trials /\ e.calls = d.calls
    BY <1>5, <2>1 DEF IsSearch
  <2>4. /\ DOMAIN recorded' = DOMAIN d /\ recorded'.phase = "evaluating"
        /\ recorded'.status = "blocked" /\ recorded'.rounds = d.rounds
        /\ recorded'.parent = d.parent /\ recorded'.passing = d.passing
        /\ recorded'.cold = d.cold /\ recorded'.trials = d.trials /\ recorded'.calls = d.calls
    BY <1>5, <2>2, <2>3 DEF IsSearch
  <2>5. IsSearch(recorded') BY <1>5, <2>4 DEF IsSearch, SearchPhases
  <2>6. SearchShape'
    BY <1>0, <1>1, <1>6, <2>2, <2>5 DEF SearchShape, Searches, Cold, InRound
  <2>7. PhaseFits' /\ ColdFits' /\ Reserves' /\ ParentFits'
    BY <1>3, <2>2, <2>4 DEF PhaseFits, ColdFits, Reserves, ParentFits, Searches, Cold, InRound,
       NoState
  <2>8. Limits' /\ SealFits'
    BY <1>1, <1>5, <1>8, <2>2, <2>4, NotSealedYet DEF Seals
  <2> QED BY <2>6, <2>7, <2>8 DEF SearchInvariant
<1>10. CASE Persist(d) /\ searchAt' = "loop" /\ UNCHANGED finishedAt
  <2>1. recorded' = d /\ searchMem' = d BY <1>10 DEF Persist
  <2>2. SearchShape'
    BY <1>0, <1>1, <1>5, <1>6, <1>10, <2>1 DEF SearchShape, Searches
  <2>3. PhaseFits' /\ ColdFits' /\ Reserves'
    BY <1>3, <1>5, <1>10, <2>1 DEF PhaseFits, ColdFits, Reserves, Searches, Cold, InRound, NoState
  <2>4. Earned(recorded)' /\ SettledTo(recorded'.rounds, now)
    <3>1. CASE Qualifies
      <4>1. /\ Cardinality(probe.confirmed) > Cardinality(recorded.passing)
            /\ scored[<<now, "confirm">>] = 1 /\ probe.confirmed \in SUBSET TrainTasks
        BY <1>0, <1>2, <1>3, <3>1 DEF Qualifies, Lifts, Reserves, SearchShape, InRound
      <4>2. searchAt \in InRound BY <1>1 DEF InRound
      <4> QED BY <1>1, <1>2, <1>5, <2>1, <3>1, <4>1, <4>2, ParentIsBetter
    <3>2. CASE ~Qualifies
      BY <1>0, <1>1, <1>2, <1>3, <1>5, <2>1, <3>2, NobodyQualifies
    <3> QED BY <3>1, <3>2
  <2>5. ParentFits' BY <1>5, <1>10, <2>1, <2>4 DEF ParentFits, InRound
  <2>6. Limits' /\ SealFits'
    BY <1>1, <1>5, <1>8, <1>10, <2>1, NotSealedYet DEF Seals
  <2> QED BY <2>2, <2>3, <2>5, <2>6 DEF SearchInvariant
<1> QED BY <1>3, <1>4, <1>7, <1>9, <1>10 DEF Decide

(* The finalist is the parent: its score is the greatest.                  *)
LEMMA FinalistIsParent ==
  ASSUME NEW s, IsSearch(s), Earned(s)
  PROVE  Finalist(s.rounds) = s.parent
<1> DEFINE won == WonBy(s.rounds)
<1>1. CASE won = {} BY <1>1 DEF Finalist, Earned, WonBy
<1>2. CASE won # {}
  <2>1. \A n \in won : n \in Nat /\ n > 0 /\ s.rounds[n].score \in Nat
    <3>1. s.rounds \in Seq(RoundRows) BY DEF IsSearch
    <3>2. \A n \in 1..Len(s.rounds) : s.rounds[n] \in RoundRows BY <3>1
    <3> QED BY <3>1, <3>2 DEF WonBy, RoundRows
  <2>2. /\ s.parent \in {0} \cup won /\ \A n \in won : n <= s.parent
        /\ \A n \in won : \A m \in won : m < n => s.rounds[m].score < s.rounds[n].score
    BY DEF Earned
  <2>3. s.parent \in won BY <1>2, <2>1, <2>2
  <2>4. \A m \in won : m # s.parent => s.rounds[m].score < s.rounds[s.parent].score
    BY <2>1, <2>2, <2>3
  <2> DEFINE Best(n) == \A m \in won : \/ s.rounds[n].score > s.rounds[m].score
                                       \/ s.rounds[n].score = s.rounds[m].score /\ n <= m
  <2>5. Best(s.parent) BY <2>1, <2>3, <2>4
  <2>6. \A n \in won : Best(n) => n = s.parent BY <2>1, <2>3, <2>4
  <2>7. Finalist(s.rounds) = CHOOSE n \in won : Best(n)
    BY <1>2 DEF Finalist, WonBy
  <2> HIDE DEF Best, won
  <2> QED BY <2>3, <2>5, <2>6, <2>7
<1> QED BY <1>1, <1>2

LEMMA SealStartKeeps ==
  ASSUME SearchInvariant, StartSealed
  PROVE  SearchInvariant'
<1>1. /\ UNCHANGED <<recorded, finishedAt, searchMem, probe, scored, trialsPaid, generated,
                     sealedRuns>>
      /\ searchAt = "idle" /\ searchAt' = "sealed" /\ finishedAt # NoState /\ sealedLog = <<>>
      /\ sealedLog' = <<[kind |-> "started", finalist |-> Finalist(finishedAt.rounds)]>>
  BY DEF StartSealed, paidVars
<1>2. SearchShape /\ PhaseFits /\ ColdFits /\ Limits /\ ParentFits /\ SealFits /\ IsSearch(recorded)
  BY DEF SearchInvariant, SearchShape
<1>3. SearchShape' /\ PhaseFits' /\ ColdFits' /\ Reserves'
  BY <1>1, <1>2 DEF SearchShape, PhaseFits, ColdFits, Reserves, Searches, Cold, InRound, Seals,
     NothingBought
<1>4. Limits' /\ ParentFits'
  BY <1>1, <1>2 DEF Limits, ParentFits, Earned, InRound
<1>5. recorded = finishedAt /\ Earned(recorded)
  BY <1>1, <1>2 DEF PhaseFits, ParentFits
<1>6. SealFits'
  <2>1. PICK event : event = [kind |-> "started", finalist |-> Finalist(finishedAt.rounds)]
    OBVIOUS
  <2>2. /\ event.finalist = finishedAt.parent /\ finishedAt.parent \in Nat
        /\ event \in [kind : {"started", "completed", "failed"}, finalist : Nat]
    BY <1>2, <1>5, <2>1, FinalistIsParent DEF IsSearch
  <2>3. /\ sealedLog' \in Seq([kind : {"started", "completed", "failed"}, finalist : Nat])
        /\ Len(sealedLog') = 1 /\ sealedLog'[1] = event /\ sealedLog' # <<>>
    BY <1>1, <2>1, <2>2
  <2> QED BY <1>1, <1>2, <2>2, <2>3 DEF SealFits
<1> QED BY <1>3, <1>4, <1>6 DEF SearchInvariant

LEMMA SealRunKeeps ==
  ASSUME SearchInvariant, RunSealed
  PROVE  SearchInvariant'
<1>1. /\ UNCHANGED <<recorded, finishedAt, searchMem, probe, scored, trialsPaid, generated,
                     sealedLog>>
      /\ searchAt = "sealed" /\ searchAt' = "sealed_score" /\ sealedRuns' = sealedRuns + 1
  BY DEF RunSealed, paidVars
<1>2. SearchShape /\ PhaseFits /\ ColdFits /\ Limits /\ ParentFits /\ SealFits
  BY DEF SearchInvariant
<1>3. SearchShape' /\ PhaseFits' /\ ColdFits' /\ Reserves'
  BY <1>1, <1>2 DEF SearchShape, PhaseFits, ColdFits, Reserves, Searches, Cold, InRound, Seals,
     NothingBought
<1>4. Limits' /\ ParentFits'
  BY <1>1, <1>2 DEF Limits, ParentFits, Earned, InRound
<1>5. SealFits' BY <1>1, <1>2 DEF SealFits, Seals
<1> QED BY <1>3, <1>4, <1>5 DEF SearchInvariant

LEMMA SealEndKeeps ==
  ASSUME SearchInvariant, EndSealed
  PROVE  SearchInvariant'
<1>1. /\ UNCHANGED <<recorded, finishedAt, searchMem, probe, scored, trialsPaid, generated,
                     sealedRuns>>
      /\ searchAt = "sealed_score" /\ searchAt' = "idle"
      /\ \E kind \in {"completed", "failed"} :
           sealedLog' = Append(sealedLog, [kind |-> kind, finalist |-> sealedLog[1].finalist])
  BY DEF EndSealed, paidVars
<1>2. SearchShape /\ PhaseFits /\ ColdFits /\ Limits /\ ParentFits /\ SealFits
  BY DEF SearchInvariant
<1>3. SearchShape' /\ PhaseFits' /\ ColdFits' /\ Reserves'
  BY <1>1, <1>2 DEF SearchShape, PhaseFits, ColdFits, Reserves, Searches, Cold, InRound, Seals,
     NothingBought
<1>4. Limits' /\ ParentFits'
  BY <1>1, <1>2 DEF Limits, ParentFits, Earned, InRound
<1>5. SealFits'
  <2> DEFINE Events == [kind : {"started", "completed", "failed"}, finalist : Nat]
  <2>1. sealedLog \in Seq(Events) /\ Len(sealedLog) = 1 /\ sealedLog # <<>>
    BY <1>1, <1>2 DEF SealFits, Seals
  <2>2. sealedLog[1] \in Events
    <3> HIDE DEF Events
    <3> QED BY <2>1
  <2>3. sealedLog[1].finalist \in Nat BY <2>2
  <2>4. PICK event \in Events : sealedLog' = Append(sealedLog, event)
    BY <1>1, <2>3
  <2> HIDE DEF Events
  <2>5. /\ sealedLog' \in Seq(Events) /\ Len(sealedLog') = 2 /\ sealedLog'[1] = sealedLog[1]
        /\ sealedLog' # <<>>
    BY <2>1, <2>4
  <2> QED BY <1>1, <1>2, <2>1, <2>5 DEF SealFits, Seals, Events
<1> QED BY <1>3, <1>4, <1>5 DEF SearchInvariant

LEMMA WorldKeepsSearch ==
  ASSUME SearchInvariant, SearchDies \/ Replan \/ UNCHANGED searchVars
  PROVE  SearchInvariant'
<1>1. /\ UNCHANGED <<recorded, finishedAt, scored, trialsPaid, generated, sealedLog, sealedRuns>>
      /\ \/ searchAt' = "idle" /\ probe' = NoProbe
         \/ UNCHANGED <<searchAt, searchMem, probe>>
  BY DEF SearchDies, Replan, searchVars, paidVars, sealedVars
<1>2. SearchShape /\ PhaseFits /\ ColdFits /\ Limits /\ Reserves /\ ParentFits /\ SealFits
  BY DEF SearchInvariant
<1>3. SearchShape' /\ PhaseFits'
  BY <1>1, <1>2 DEF SearchShape, PhaseFits, Searches, Cold, InRound, Seals, NoProbe
<1>4. ColdFits' /\ Limits'
  BY <1>1, <1>2 DEF ColdFits, Limits, Cold, NothingBought
<1>5. TrialCeiling(recorded') = TrialCeiling(recorded) BY <1>1
<1>6. Reserves' /\ ParentFits' /\ SealFits'
  BY <1>1, <1>2, <1>5 DEF Reserves, ParentFits, SealFits, Earned, InRound, Seals
<1> QED BY <1>3, <1>4, <1>6 DEF SearchInvariant

LEMMA SearchKeeps ==
  ASSUME SearchInvariant, [SearchNext]_searchVars
  PROVE  SearchInvariant'
  BY StartKeepsSearch, ColdIsReserved, ColdIsScored, RoundIsPlanned, DiagnosisKeeps,
     GenerationKeeps, ProbeKeeps, ConfirmKeeps, DecisionKeeps, SealStartKeeps, SealRunKeeps,
     SealEndKeeps, WorldKeepsSearch DEF SearchNext

LEMMA SearchInvariantIsSound ==
  ASSUME SearchInvariant
  PROVE  SearchIsSound
<1>0. SearchShape /\ PhaseFits /\ Limits /\ ParentFits /\ SealFits /\ IsSearch(recorded)
  BY DEF SearchInvariant, SearchShape
<1>1. SearchTypes BY <1>0 DEF SearchTypes, IsSearch, SearchPhases
<1>2. SpendingIsReserved
  <2>1. DOMAIN scored = Measurements /\ DOMAIN generated = 1..SearchRounds
    BY <1>0 DEF SearchShape
  <2> QED BY <1>0, <2>1 DEF SpendingIsReserved, Limits, CallsOf
<1>3. ParentIsEarned
  <2> SUFFICES ASSUME recorded.phase \in {"ready", "finished"}
               PROVE  ParentIsEarned
    BY DEF ParentIsEarned
  <2>1. Earned(recorded) /\ SettledTo(recorded.rounds, Len(recorded.rounds))
    BY <1>0 DEF ParentFits
  <2>2. recorded.parent = Max({0} \cup WonBy(recorded.rounds))
    <3>1. {0} \cup WonBy(recorded.rounds) \in SUBSET Int BY DEF WonBy
    <3>2. recorded.parent \in {0} \cup WonBy(recorded.rounds)
          /\ \A n \in {0} \cup WonBy(recorded.rounds) : n <= recorded.parent
      BY <1>0, <2>1 DEF Earned, IsSearch
    <3> QED BY <3>1, <3>2, GreatestIs
  <2>3. recorded.parent \in Nat BY <1>0 DEF IsSearch
  <2> DEFINE won == {n \in 1..Len(recorded.rounds) : recorded.rounds[n].status = "qualified"}
  <2>4. won = WonBy(recorded.rounds) BY DEF WonBy
  <2>5. /\ \A n \in won : /\ scored[<<n, "confirm">>] = 1
                          /\ recorded.rounds[n].score > Cardinality(recorded.cold)
                          /\ \A m \in won : m < n =>
                               recorded.rounds[m].score < recorded.rounds[n].score
        /\ recorded.parent > 0 =>
             Cardinality(recorded.passing) = recorded.rounds[recorded.parent].score
    BY <2>1, <2>3, <2>4 DEF Earned
  <2>6. recorded.parent = Max({0} \cup won) BY <2>2, <2>4
  <2> QED BY <2>1, <2>5, <2>6 DEF ParentIsEarned, SettledTo
<1>4. SealedOnce BY <1>0 DEF SealedOnce, SealFits, PhaseFits
<1> QED BY <1>1, <1>2, <1>3, <1>4 DEF SearchIsSound

(* A search spends no more than it had reserved on record, and no          *)
(* measurement twice; each parent improved on the one before; and the      *)
(* held-out tasks are run at most once, for the best that was found: for   *)
(* any tasks and limits, and whenever the process dies, is started again   *)
(* or the plan changes.                                                    *)
THEOREM SearchStaysSound ==
  SearchInit /\ [][SearchNext]_searchVars => []SearchIsSound
  BY SearchStarts, SearchKeeps, SearchInvariantIsSound, PTL

-----------------------------------------------------------------------------
(* Together: whatever runs, a step of it leaves the others alone.          *)

LEMMA EachOnItsOwn ==
  /\ Init => LeaseInit /\ CampaignsInit /\ SearchInit
  /\ [Next]_vars => /\ [LeaseNext]_leaseVars
                    /\ [CampaignsNext]_campaignVars
                    /\ [SearchNext]_searchVars
<1>1. Init => LeaseInit /\ CampaignsInit /\ SearchInit BY DEF Init
<1>2. UNCHANGED vars => UNCHANGED leaseVars /\ UNCHANGED campaignVars /\ UNCHANGED searchVars
  BY DEF vars
<1>3. Next => /\ LeaseNext \/ UNCHANGED leaseVars
              /\ CampaignsNext \/ UNCHANGED campaignVars
              /\ SearchNext \/ UNCHANGED searchVars
  BY DEF Next
<1> QED BY <1>1, <1>2, <1>3

(* No two gateways on a directory and no two paying campaigns of a         *)
(* benchmark, and no measurement of a search that is paid for twice.       *)
THEOREM NothingIsEverTakenTwice == Spec => []NothingIsTakenTwice
<1>1. NothingIsTakenTwice <=> CampaignsAreSound /\ SearchIsSound /\ LeaseIsSound
  BY DEF NothingIsTakenTwice
<1>2. /\ Init => LeaseInit /\ CampaignsInit /\ SearchInit
      /\ [Next]_vars => /\ [LeaseNext]_leaseVars
                        /\ [CampaignsNext]_campaignVars
                        /\ [SearchNext]_searchVars
  BY EachOnItsOwn
<1> QED
  BY <1>1, <1>2, OneGatewayHolds, CampaignsStaySound, SearchStaysSound, PTL DEF Spec

------------------------------------------------------------------------------
(* What an agent remembers of its own work.  A list without what is at     *)
(* some of its places is given by a walk over it, w: the places that stay, *)
(* in the order they had.  What is at the end of a list keeps its order.   *)

\* r is what is left of the first n of s without the places gone.
LeftOf(s, gone, n, r) ==
  \E w \in [1..Len(r) -> 1..n] :
    /\ \A i \in 1..Len(r) : w[i] \notin gone /\ r[i] = s[w[i]]
    /\ \A i, j \in 1..Len(r) : i < j => w[i] < w[j]
    /\ \A k \in (1..n) \ gone : \E i \in 1..Len(r) : w[i] = k

\* K is the function that Others takes the last value of.
Leaving(s, gone, K) ==
  K = [n \in 0..Len(s) |-> IF n = 0 THEN <<>>
                           ELSE IF n \in gone THEN K[n - 1] ELSE Append(K[n - 1], s[n])]

LEMMA OthersAreTaken ==
  ASSUME NEW S, NEW s \in Seq(S), NEW gone
  PROVE  \E K : Leaving(s, gone, K)
<1> DEFINE Next1(n, r) == IF n \in gone THEN r ELSE Append(r, s[n])
           Upto(n, K) == K = [k \in 0..n |-> IF k = 0 THEN <<>> ELSE Next1(k, K[k - 1])]
           T == {n \in Nat : \E K : Upto(n, K)}
<1>1. 0 \in T
  <2> DEFINE K == [k \in 0..0 |-> <<>>]
  <2>1. Upto(0, K)
    <3>1. \A k \in 0..0 : k = 0 OBVIOUS
    <3> HIDE DEF Next1
    <3> QED BY <3>1
  <2> QED BY <2>1
<1>2. ASSUME NEW n \in T PROVE n + 1 \in T
  <2>1. PICK K : Upto(n, K) OBVIOUS
  <2> DEFINE L == [k \in 0..(n + 1) |-> IF k = n + 1 THEN Next1(n + 1, K[n]) ELSE K[k]]
  <2> HIDE DEF Next1
  <2>2. ASSUME NEW k \in 0..(n + 1)
        PROVE  L[k] = IF k = 0 THEN <<>> ELSE Next1(k, L[k - 1])
    <3>1. CASE k = n + 1
      <4>1. n \in 0..(n + 1) /\ n # n + 1 /\ (n + 1) - 1 = n /\ n + 1 # 0
        OBVIOUS
      <4> QED BY <3>1, <4>1
    <3>2. CASE k = 0
      <4>1. k \in 0..n /\ k # n + 1 BY <3>2
      <4> QED BY <2>1, <3>2, <4>1
    <3>3. CASE k # n + 1 /\ k # 0
      <4>1. k \in 0..n /\ k - 1 \in 0..(n + 1) /\ k - 1 # n + 1 BY <3>3
      <4>2. L[k] = K[k] /\ L[k - 1] = K[k - 1] BY <3>3, <4>1
      <4> HIDE DEF L
      <4>3. K[k] = Next1(k, K[k - 1]) BY <2>1, <3>3, <4>1
      <4> QED BY <3>3, <4>2, <4>3
    <3> QED BY <3>1, <3>2, <3>3
  <2>3. L = [k \in 0..(n + 1) |-> IF k = 0 THEN <<>> ELSE Next1(k, L[k - 1])]
    <3>1. L = [k \in 0..(n + 1) |-> L[k]] OBVIOUS
    <3> HIDE DEF L
    <3> QED BY <2>2, <3>1
  <2>4. Upto(n + 1, L) BY <2>3
  <2> HIDE DEF Upto, L
  <2> QED BY <2>4
<1>3. Len(s) \in T
  <2> HIDE DEF T
  <2>1. T \in SUBSET Nat BY DEF T
  <2>2. \A n \in T : n + 1 \in T BY <1>2
  <2>3. T = Nat BY ONLY <1>1, <2>1, <2>2, SetInduction
  <2> QED BY <2>3
<1>4. PICK K : Upto(Len(s), K) BY <1>3
<1>5. Leaving(s, gone, K) BY <1>4 DEF Leaving
<1> QED BY <1>5

LEMMA OthersAreLeft ==
  ASSUME NEW S, NEW s \in Seq(S), NEW gone
  PROVE  Others(s, gone) \in Seq(S) /\ LeftOf(s, gone, Len(s), Others(s, gone))
<1> DEFINE K == CHOOSE K : Leaving(s, gone, K)
           T == {n \in Nat : n > Len(s) \/ (K[n] \in Seq(S) /\ LeftOf(s, gone, n, K[n]))}
<1>0. /\ Leaving(s, gone, K) /\ Others(s, gone) = K[Len(s)] /\ Len(s) \in Nat
      /\ \A n \in 0..Len(s) : K[n] = IF n = 0 THEN <<>>
                  ELSE IF n \in gone THEN K[n - 1] ELSE Append(K[n - 1], s[n])
  <2>1. \E L : Leaving(s, gone, L) BY OthersAreTaken
  <2>2. Leaving(s, gone, K) BY <2>1
  <2>3. Others(s, gone) = K[Len(s)] BY DEF Others, Leaving
  <2>4. \A n \in 0..Len(s) : K[n] = IF n = 0 THEN <<>>
                  ELSE IF n \in gone THEN K[n - 1] ELSE Append(K[n - 1], s[n])
    <3> HIDE DEF K
    <3> QED BY <2>2 DEF Leaving
  <2> QED BY <2>2, <2>3, <2>4
<1>1. 0 \in T
  <2>1. K[0] = <<>>
    <3>1. 0 \in 0..Len(s) BY <1>0
    <3> HIDE DEF K
    <3> QED BY <1>0, <3>1
  <2>2. LeftOf(s, gone, 0, <<>>)
    <3> DEFINE w == [i \in 1..0 |-> 0]
    <3>1. w \in [1..Len(<<>>) -> 1..0] /\ 1..0 = {} /\ Len(<<>>) = 0 OBVIOUS
    <3> HIDE DEF w
    <3> QED BY <3>1 DEF LeftOf
  <2>3. K[0] \in Seq(S) /\ LeftOf(s, gone, 0, K[0])
    <3> HIDE DEF K
    <3> QED BY <2>1, <2>2
  <2> HIDE DEF K
  <2> QED BY <2>3
<1>2. ASSUME NEW n \in T PROVE n + 1 \in T
  <2> SUFFICES ASSUME n + 1 <= Len(s)
               PROVE  K[n + 1] \in Seq(S) /\ LeftOf(s, gone, n + 1, K[n + 1])
    OBVIOUS
  <2>1. n \in Nat /\ K[n] \in Seq(S) /\ LeftOf(s, gone, n, K[n])
    <3>1. n \in Nat /\ ~(n > Len(s)) BY <1>0
    <3> HIDE DEF K
    <3> QED BY <3>1
  <2>2. K[n + 1] = IF n + 1 \in gone THEN K[n] ELSE Append(K[n], s[n + 1])
    <3>1. n + 1 \in 0..Len(s) /\ n + 1 # 0 /\ (n + 1) - 1 = n BY <1>0, <2>1
    <3> HIDE DEF K
    <3> QED BY <1>0, <3>1
  <2> HIDE DEF K
  <2>3. PICK w \in [1..Len(K[n]) -> 1..n] :
          /\ \A i \in 1..Len(K[n]) : w[i] \notin gone /\ K[n][i] = s[w[i]]
          /\ \A i, j \in 1..Len(K[n]) : i < j => w[i] < w[j]
          /\ \A k \in (1..n) \ gone : \E i \in 1..Len(K[n]) : w[i] = k
    BY <2>1 DEF LeftOf
  <2> DEFINE r == K[n]
             m == Len(r)
  <2>4. m \in Nat /\ r \in Seq(S) /\ 1..n \subseteq 1..(n + 1) /\ n + 1 \in 1..Len(s)
    BY <1>0, <2>1
  <2>5. CASE n + 1 \in gone
    <3>1. (1..(n + 1)) \ gone = (1..n) \ gone BY <2>1, <2>5
    <3>2. w \in [1..Len(r) -> 1..(n + 1)] BY <2>3, <2>4
    <3>3. LeftOf(s, gone, n + 1, r)
      <4>1. \A k \in (1..(n + 1)) \ gone : \E i \in 1..Len(r) : w[i] = k
        BY <2>3, <3>1
      <4> QED BY <2>3, <3>2, <4>1 DEF LeftOf
    <3>4. K[n + 1] = r BY <2>2, <2>5
    <3> HIDE DEF r
    <3> QED BY <2>4, <3>3, <3>4
  <2>6. CASE n + 1 \notin gone
    <3> DEFINE q == Append(r, s[n + 1])
               v == [i \in 1..(m + 1) |-> IF i = m + 1 THEN n + 1 ELSE w[i]]
    <3>1. /\ q \in Seq(S) /\ Len(q) = m + 1 /\ q[m + 1] = s[n + 1]
          /\ \A i \in 1..m : q[i] = r[i]
      <4>1. s[n + 1] \in S BY <2>4
      <4> QED BY <2>4, <4>1, AppendProperties
    <3>2. /\ v[m + 1] = n + 1 /\ m + 1 \in 1..(m + 1)
          /\ \A i \in 1..m : i \in 1..(m + 1) /\ v[i] = w[i] /\ w[i] \in 1..n
          /\ \A i \in 1..(m + 1) : i \in 1..m \/ i = m + 1
      <4>1. m + 1 \in 1..(m + 1) /\ \A i \in 1..m : i \in 1..(m + 1) /\ i # m + 1
        BY <2>4
      <4>2. \A i \in 1..(m + 1) : i \in 1..m \/ i = m + 1 BY <2>4
      <4> HIDE DEF m
      <4>3. \A i \in 1..m : w[i] \in 1..n BY <2>3 DEF m
      <4> QED BY <4>1, <4>2, <4>3
    <3>3. v \in [1..Len(q) -> 1..(n + 1)]
      <4>1. n + 1 \in 1..(n + 1) BY <2>1
      <4>2. \A i \in 1..(m + 1) : v[i] \in 1..(n + 1)
        <5> HIDE DEF v, m
        <5> QED BY <2>4, <3>2, <4>1
      <4> QED BY <3>1, <4>2
    <3> HIDE DEF v, q
    <3>4. \A i \in 1..Len(q) : v[i] \notin gone /\ q[i] = s[v[i]]
      <4> HIDE DEF m
      <4>1. \A i \in 1..m : w[i] \notin gone /\ r[i] = s[w[i]] BY <2>3 DEF m
      <4> HIDE DEF r
      <4> QED BY <2>6, <3>1, <3>2, <4>1
    <3>5. \A i, j \in 1..Len(q) : i < j => v[i] < v[j]
      <4>0. \A i, j \in 1..m : i < j => w[i] < w[j] BY <2>3
      <4> HIDE DEF m
      <4>1. SUFFICES ASSUME NEW i \in 1..(m + 1), NEW j \in 1..(m + 1), i < j
                     PROVE  v[i] < v[j]
        BY <3>1
      <4>2. i \in 1..m BY <2>4, <3>2, <4>1
      <4>3. CASE j = m + 1 BY <2>1, <3>2, <4>2, <4>3
      <4>4. CASE j \in 1..m BY <3>2, <4>0, <4>1, <4>2, <4>4
      <4> QED BY <3>2, <4>3, <4>4
    <3>6. \A k \in (1..(n + 1)) \ gone : \E i \in 1..Len(q) : v[i] = k
      <4>1. \A k \in (1..n) \ gone : \E i \in 1..m : w[i] = k BY <2>3
      <4> HIDE DEF m
      <4>2. TAKE k \in (1..(n + 1)) \ gone
      <4>3. CASE k = n + 1 BY <3>1, <3>2, <4>3
      <4>4. CASE k # n + 1
        <5>1. k \in (1..n) \ gone BY <2>1, <4>4
        <5> QED BY <3>1, <3>2, <4>1, <5>1
      <4> QED BY <4>3, <4>4
    <3>7. LeftOf(s, gone, n + 1, q) BY <3>3, <3>4, <3>5, <3>6 DEF LeftOf
    <3>8. K[n + 1] = q BY <2>2, <2>6 DEF q
    <3> QED BY <3>1, <3>7, <3>8
  <2> QED BY <2>5, <2>6
<1>3. T = Nat
  <2> HIDE DEF T
  <2>1. T \in SUBSET Nat BY DEF T
  <2>2. \A n \in T : n + 1 \in T BY <1>2
  <2> QED BY ONLY <1>1, <2>1, <2>2, SetInduction
<1>4. Len(s) \in T BY <1>0, <1>3
<1> QED
  <2> HIDE DEF K
  <2> QED BY <1>0, <1>4

LEMMA LastAreLeft ==
  ASSUME NEW S, NEW s \in Seq(S), NEW n \in Nat
  PROVE  /\ LastOf(s, n) \in Seq(S) /\ Len(LastOf(s, n)) <= n
         /\ \E d \in Nat : /\ Len(LastOf(s, n)) = Len(s) - d
                           /\ d = 0 \/ Len(s) - d = n
                           /\ \A i \in 1..(Len(s) - d) :
                                i + d \in 1..Len(s) /\ LastOf(s, n)[i] = s[i + d]
<1>1. Len(s) \in Nat OBVIOUS
<1>2. CASE Len(s) <= n
  <2>1. LastOf(s, n) = s BY <1>1, <1>2 DEF LastOf
  <2>2. \A i \in 1..(Len(s) - 0) : i + 0 \in 1..Len(s) /\ i + 0 = i BY <1>1
  <2> QED BY <1>1, <1>2, <2>1, <2>2
<1>3. CASE Len(s) > n
  <2> DEFINE d == Len(s) - n
  <2>1. d \in Nat /\ d + 1 \in Nat \ {0} /\ Len(s) - d = n /\ d + 1 <= Len(s) + 1
        /\ Len(s) - n + 1 = d + 1
    BY <1>1, <1>3
  <2>2. LastOf(s, n) = SubSeq(s, d + 1, Len(s)) BY <1>3, <2>1 DEF LastOf
  <2>3. \A i \in (d + 1)..Len(s) : s[i] \in S BY <1>1, <2>1
  <2>4. /\ SubSeq(s, d + 1, Len(s)) \in Seq(S)
        /\ Len(SubSeq(s, d + 1, Len(s))) = n
        /\ \A i \in 1..n : SubSeq(s, d + 1, Len(s))[i] = s[d + i]
    <3>1. /\ SubSeq(s, d + 1, Len(s)) \in Seq(S)
          /\ Len(SubSeq(s, d + 1, Len(s))) =
               IF d + 1 <= Len(s) THEN Len(s) - (d + 1) + 1 ELSE 0
          /\ \A i \in 1..(Len(s) - (d + 1) + 1) :
               SubSeq(s, d + 1, Len(s))[i] = s[(d + 1) + i - 1]
      <4> HIDE DEF d
      <4> QED BY <1>1, <2>1, <2>3, SubSeqProperties
    <3>2. Len(s) - (d + 1) + 1 = n /\ (d + 1 <= Len(s) \/ n = 0) BY <1>1, <1>3
    <3>3. \A i \in 1..n : (d + 1) + i - 1 = d + i BY <2>1
    <3> HIDE DEF d
    <3> QED BY <3>1, <3>2, <3>3
  <2>5. \A i \in 1..n : i + d \in 1..Len(s) /\ d + i = i + d BY <1>1, <1>3
  <2> HIDE DEF d
  <2>6. Len(LastOf(s, n)) = Len(s) - d /\ Len(s) - d = n BY <2>1, <2>2, <2>4
  <2>7. \A i \in 1..(Len(s) - d) : i + d \in 1..Len(s) /\ LastOf(s, n)[i] = s[i + d]
    BY <2>1, <2>2, <2>4, <2>5
  <2>8. LastOf(s, n) \in Seq(S) /\ Len(LastOf(s, n)) <= n BY <2>1, <2>2, <2>4
  <2> QED BY <2>1, <2>6, <2>7, <2>8
<1> QED BY <1>1, <1>2, <1>3

NoteRecord == [text : DOMAIN Subject, subject : {Subject[t] : t \in DOMAIN Subject}, index : Nat,
         at : Nat, fresh : BOOLEAN, by : Nat, conflicts : SUBSET Nat]

LEMMA RevisedKeeps ==
  ASSUME NEW o \in NoteRecord, NEW note \in NoteRecord
  PROVE  LET r == Revised(o, note) IN
         /\ r \in NoteRecord
         /\ r.text = o.text /\ r.subject = o.subject /\ r.index = o.index /\ r.at = o.at
         /\ o.conflicts \subseteq r.conflicts
         /\ r.fresh => o.fresh
         /\ o.fresh /\ ~r.fresh =>
              note.subject # noSubject /\ o.subject = note.subject /\ o.at # note.at
         /\ r.fresh /\ o.subject = note.subject /\ note.subject # noSubject =>
              o.at = note.at /\ note.index \in r.conflicts
<1>1. CASE ~o.fresh \/ note.subject = noSubject \/ o.subject # note.subject
  <2>1. Revised(o, note) = o BY <1>1 DEF Revised
  <2> QED BY <1>1, <2>1
<1>2. CASE o.fresh /\ note.subject # noSubject /\ o.subject = note.subject /\ o.at = note.at
  <2> DEFINE c == o.conflicts \cup {note.index}
  <2>1. Revised(o, note) = [o EXCEPT !.conflicts = c] BY <1>2 DEF Revised
  <2>2. c \in SUBSET Nat BY DEF NoteRecord
  <2>3. LET r == [o EXCEPT !.conflicts = c] IN
        /\ r \in NoteRecord /\ r.conflicts = c /\ r.fresh = o.fresh
        /\ r.text = o.text /\ r.subject = o.subject /\ r.index = o.index /\ r.at = o.at
    <3> HIDE DEF c
    <3> QED BY <2>2 DEF NoteRecord
  <2> QED BY <1>2, <2>1, <2>3
<1>3. CASE o.fresh /\ note.subject # noSubject /\ o.subject = note.subject /\ o.at # note.at
  <2>1. Revised(o, note) = [o EXCEPT !.fresh = FALSE, !.by = note.index]
    BY <1>3 DEF Revised
  <2>2. LET r == [o EXCEPT !.fresh = FALSE, !.by = note.index] IN
        /\ r \in NoteRecord /\ r.conflicts = o.conflicts /\ r.fresh = FALSE
        /\ r.text = o.text /\ r.subject = o.subject /\ r.index = o.index /\ r.at = o.at
    BY DEF NoteRecord
  <2> QED BY <1>3, <2>1, <2>2
<1> QED BY <1>1, <1>2, <1>3

\* The order of the notes, what supersedes a note, and what is in conflict.
InTheirOrder(q) == \A j, k \in 1..Len(q) : j < k => q[j].index < q[k].index
NewerStands(q) ==
  \A k \in 1..Len(q) : ~q[k].fresh =>
    \E j \in 1..Len(q) : /\ k < j /\ q[j].fresh /\ q[j].subject = q[k].subject
                         /\ q[k].at < q[j].at
RivalsNamed(q) ==
  \A j, k \in 1..Len(q) :
    j # k /\ q[j].fresh /\ q[k].fresh /\ q[j].subject = q[k].subject
      /\ q[k].subject # noSubject => q[j].index \in q[k].conflicts
NotesUpTo(q, next, now) ==
  \A k \in 1..Len(q) : q[k].index < next /\ q[k].at <= now /\ q[k].subject = Subject[q[k].text]
NotesHold(q, next, now) ==
  /\ q \in Seq(NoteRecord) /\ InTheirOrder(q) /\ NewerStands(q) /\ RivalsNamed(q)
  /\ NotesUpTo(q, next, now)

\* What is pushed out is what was there before all that stays.
LEMMA PushedOutKeeps ==
  ASSUME NEW q, NEW next \in Nat, NEW now \in Nat, NotesHold(q, next, now), NEW n \in Nat
  PROVE  NotesHold(LastOf(q, n), next, now) /\ Len(LastOf(q, n)) <= n
<1> DEFINE r == LastOf(q, n)
<1>0. q \in Seq(NoteRecord) /\ Len(q) \in Nat BY DEF NotesHold
<1>1. /\ r \in Seq(NoteRecord) /\ Len(r) <= n
      /\ \E d \in Nat : /\ Len(r) = Len(q) - d
                        /\ d = 0 \/ Len(q) - d = n
                        /\ \A i \in 1..(Len(q) - d) : i + d \in 1..Len(q) /\ r[i] = q[i + d]
  BY <1>0, LastAreLeft
<1>2. PICK d \in Nat : /\ Len(r) = Len(q) - d
                       /\ \A i \in 1..(Len(q) - d) : i + d \in 1..Len(q) /\ r[i] = q[i + d]
  BY <1>1
<1> HIDE DEF r
<1>3. \A i \in 1..Len(r) : i + d \in 1..Len(q) /\ r[i] = q[i + d] BY <1>2
<1>4. \A j \in 1..Len(q) : j > d => j - d \in 1..Len(r) /\ (j - d) + d = j
  BY <1>0, <1>2
<1>5. InTheirOrder(r)
  <2>1. SUFFICES ASSUME NEW j \in 1..Len(r), NEW k \in 1..Len(r), j < k
                 PROVE  r[j].index < r[k].index
    BY DEF InTheirOrder
  <2>2. j + d < k + d BY <2>1
  <2> QED BY <1>3, <2>2 DEF NotesHold, InTheirOrder
<1>6. NewerStands(r)
  <2>1. SUFFICES ASSUME NEW k \in 1..Len(r), ~r[k].fresh
                 PROVE  \E j \in 1..Len(r) :
                          /\ k < j /\ r[j].fresh /\ r[j].subject = r[k].subject
                          /\ r[k].at < r[j].at
    BY Zenon DEF NewerStands
  <2>2. k + d \in 1..Len(q) /\ r[k] = q[k + d] /\ k \in Nat BY <1>3
  <2>3. PICK j \in 1..Len(q) : /\ k + d < j /\ q[j].fresh /\ q[j].subject = r[k].subject
                               /\ r[k].at < q[j].at
    <3>1. ~q[k + d].fresh BY <2>1, <2>2
    <3> QED BY <2>2, <3>1 DEF NotesHold, NewerStands
  <2>4. j - d \in 1..Len(r) /\ k < j - d /\ r[j - d] = q[j]
    <3>1. j > d /\ k < j - d BY <2>2, <2>3
    <3> QED BY <1>3, <1>4, <3>1
  <2> QED BY <2>3, <2>4
<1>7. RivalsNamed(r)
  <2>1. SUFFICES ASSUME NEW j \in 1..Len(r), NEW k \in 1..Len(r), j # k,
                        r[j].fresh, r[k].fresh, r[j].subject = r[k].subject,
                        r[k].subject # noSubject
                 PROVE  r[j].index \in r[k].conflicts
    BY Zenon DEF RivalsNamed
  <2>2. /\ j + d \in 1..Len(q) /\ k + d \in 1..Len(q) /\ j + d # k + d
        /\ r[j] = q[j + d] /\ r[k] = q[k + d]
    BY <1>3, <2>1
  <2> QED BY <2>1, <2>2 DEF NotesHold, RivalsNamed
<1>8. NotesUpTo(r, next, now) BY <1>3 DEF NotesHold, NotesUpTo
<1> QED BY <1>1, <1>5, <1>6, <1>7, <1>8 DEF NotesHold, r

\* A new note supersedes what it is newer than, and is in conflict with the rest.
LEMMA NoteKeeps ==
  ASSUME NotesHold(notes, nextIndex, clock), nextIndex \in Nat, clock \in Nat,
         NoteLimit \in Nat, NEW text \in DOMAIN Subject, Append1(text)
  PROVE  /\ NotesHold(notes', nextIndex + 1, clock) /\ Len(notes') <= NoteLimit
         /\ nextIndex' = nextIndex + 1
<1> DEFINE gone == {k \in 1..Len(notes) : notes[k].text = text}
           note == [text |-> text, subject |-> Subject[text], index |-> nextIndex, at |-> clock,
                    fresh |-> TRUE, by |-> 0, conflicts |-> {}]
           kept == Others(notes, gone)
           told == [note EXCEPT !.conflicts = Rivals(kept, note)]
           old == [k \in 1..Len(kept) |-> Revised(kept[k], note)]
           q == Append(old, told)
           m == Len(kept)
<1>0. notes \in Seq(NoteRecord) /\ Len(notes) \in Nat BY DEF NotesHold
<1>1. kept \in Seq(NoteRecord) /\ LeftOf(notes, gone, Len(notes), kept)
  <2> HIDE DEF gone
  <2> QED BY <1>0, OthersAreLeft
<1>2. notes' = LastOf(q, NoteLimit) /\ nextIndex' = nextIndex + 1 BY DEF Append1
<1>3. note \in NoteRecord /\ note.text = text /\ note.subject = Subject[text]
      /\ note.index = nextIndex /\ note.at = clock /\ note.fresh = TRUE /\ note.conflicts = {}
  BY DEF NoteRecord
<1>4. PICK w \in [1..m -> 1..Len(notes)] :
        /\ \A i \in 1..m : w[i] \notin gone /\ kept[i] = notes[w[i]]
        /\ \A i, j \in 1..m : i < j => w[i] < w[j]
        /\ \A k \in (1..Len(notes)) \ gone : \E i \in 1..m : w[i] = k
  <2> HIDE DEF gone, kept
  <2> QED BY <1>1 DEF LeftOf
<1>5. m \in Nat /\ ToSet(kept) \subseteq NoteRecord
  <2> HIDE DEF kept
  <2> QED BY <1>1 DEF ToSet
<1> HIDE DEF note, kept
<1>6. Rivals(kept, note) \in SUBSET Nat BY <1>5 DEF Rivals, NoteRecord
<1>7. told \in NoteRecord /\ told.text = text /\ told.subject = Subject[text]
      /\ told.index = nextIndex /\ told.at = clock /\ told.fresh
      /\ told.conflicts = Rivals(kept, note)
  <2> DEFINE c == Rivals(kept, note)
  <2> HIDE DEF c
  <2> QED BY <1>3, <1>6 DEF NoteRecord, c
<1>8. \A k \in 1..m : kept[k] \in NoteRecord BY <1>1
<1>9. old \in Seq(NoteRecord) /\ Len(old) = m /\ \A k \in 1..m : old[k] = Revised(kept[k], note)
  <2>1. \A k \in 1..m : Revised(kept[k], note) \in NoteRecord
    BY <1>3, <1>8, RevisedKeeps
  <2>2. Len(kept) \in Nat BY <1>5
  <2>3. old \in Seq(NoteRecord) BY <2>1, <2>2
  <2> QED BY <2>2, <2>3
<1> HIDE DEF told, old
<1>10. /\ q \in Seq(NoteRecord) /\ Len(q) = m + 1 /\ q[m + 1] = told
       /\ \A k \in 1..m : q[k] = Revised(kept[k], note)
  <2> HIDE DEF m
  <2> QED BY <1>5, <1>7, <1>9, AppendProperties
<1>11. ASSUME NEW k \in 1..m
       PROVE  /\ q[k].text = kept[k].text /\ q[k].subject = kept[k].subject
              /\ q[k].index = kept[k].index /\ q[k].at = kept[k].at
              /\ kept[k].conflicts \subseteq q[k].conflicts
              /\ q[k].fresh => kept[k].fresh
              /\ kept[k].fresh /\ ~q[k].fresh =>
                   told.subject = q[k].subject /\ q[k].at # told.at
              /\ q[k].fresh /\ q[k].subject = told.subject /\ told.subject # noSubject =>
                   q[k].at = clock /\ nextIndex \in q[k].conflicts
  <2> DEFINE o == kept[k]
  <2>1. o \in NoteRecord /\ q[k] = Revised(o, note) BY <1>8, <1>10
  <2> HIDE DEF o, q
  <2>2. /\ q[k].text = o.text /\ q[k].subject = o.subject /\ q[k].index = o.index
        /\ q[k].at = o.at /\ o.conflicts \subseteq q[k].conflicts
        /\ q[k].fresh => o.fresh
        /\ o.fresh /\ ~q[k].fresh => o.subject = note.subject /\ o.at # note.at
        /\ q[k].fresh /\ o.subject = note.subject /\ note.subject # noSubject =>
             o.at = note.at /\ note.index \in q[k].conflicts
    <3>1. note \in NoteRecord BY <1>3
    <3> HIDE DEF note
    <3> QED BY ONLY <2>1, <3>1, RevisedKeeps
  <2>3. note.subject = told.subject /\ note.at = told.at /\ note.at = clock
        /\ note.index = nextIndex
    BY <1>3, <1>7
  <2> QED BY <2>2, <2>3, Zenon DEF o
<1>12. /\ \A k \in 1..(m + 1) : k \in 1..m \/ k = m + 1
       /\ \A k \in 1..m : k < m + 1 /\ k \in 1..(m + 1) /\ k # m + 1
       /\ m + 1 \in 1..(m + 1)
  BY <1>5
<1>13. \A k \in 1..m : w[k] \in 1..Len(notes) /\ kept[k] = notes[w[k]] /\ w[k] \notin gone
  <2> HIDE DEF m, gone
  <2> QED BY <1>4
<1>14. \A k \in 1..Len(notes) : /\ notes[k].index < nextIndex /\ notes[k].at <= clock
                                /\ notes[k].subject = Subject[notes[k].text]
                                /\ notes[k].at \in Nat /\ notes[k].index \in Nat
  <2>1. \A k \in 1..Len(notes) : notes[k] \in NoteRecord BY <1>0
  <2>2. \A k \in 1..Len(notes) : notes[k].at \in Nat /\ notes[k].index \in Nat
    BY <2>1 DEF NoteRecord
  <2> QED BY <2>2 DEF NotesHold, NotesUpTo
<1> HIDE DEF q
<1>15. NotesUpTo(q, nextIndex + 1, clock)
  <2>1. SUFFICES ASSUME NEW k \in 1..(m + 1)
                 PROVE  /\ q[k].index < nextIndex + 1 /\ q[k].at <= clock
                        /\ q[k].subject = Subject[q[k].text]
    BY <1>10, Zenon DEF NotesUpTo
  <2>2. CASE k \in 1..m
    <3>1. kept[k].index < nextIndex /\ kept[k].at <= clock
          /\ kept[k].subject = Subject[kept[k].text] /\ kept[k].index \in Nat
      BY <1>13, <1>14, <2>2
    <3> QED BY <1>11, <2>2, <3>1
  <2>3. CASE k = m + 1 BY <1>7, <1>10, <2>3
  <2> QED BY <1>12, <2>2, <2>3
<1>16. InTheirOrder(q)
  <2>1. SUFFICES ASSUME NEW j \in 1..(m + 1), NEW k \in 1..(m + 1), j < k
                 PROVE  q[j].index < q[k].index
    BY <1>10, Zenon DEF InTheirOrder
  <2>2. j \in 1..m BY <1>5, <2>1
  <2>3. CASE k \in 1..m
    <3>1. w[j] < w[k] BY <1>4, <2>1, <2>2, <2>3
    <3>2. notes[w[j]].index < notes[w[k]].index
      BY <1>13, <2>2, <2>3, <3>1 DEF NotesHold, InTheirOrder
    <3> QED BY SMTT(60), <1>11, <1>13, <2>2, <2>3, <3>2
  <2>4. CASE k = m + 1
    <3>1. kept[j].index < nextIndex BY <1>13, <1>14, <2>2
    <3> QED BY <1>7, <1>10, <1>11, <2>2, <2>4, <3>1
  <2> QED BY <1>12, <2>3, <2>4
<1>17. NewerStands(q)
  <2>1. SUFFICES ASSUME NEW k \in 1..(m + 1), ~q[k].fresh
                 PROVE  \E j \in 1..(m + 1) :
                          /\ k < j /\ q[j].fresh /\ q[j].subject = q[k].subject
                          /\ q[k].at < q[j].at
    BY <1>10, Zenon DEF NewerStands
  <2>2. k \in 1..m /\ k < m + 1 /\ m + 1 \in 1..(m + 1)
    BY <1>7, <1>10, <1>12, <2>1
  <2>3. q[k].subject = notes[w[k]].subject /\ q[k].at = notes[w[k]].at
        /\ w[k] \in 1..Len(notes) /\ q[k].at <= clock /\ q[k].at \in Nat
    BY <1>11, <1>13, <1>14, <2>2
  <2>4. CASE told.subject = q[k].subject /\ q[k].at < clock
    <3>1. q[m + 1].fresh /\ q[m + 1].subject = q[k].subject /\ q[k].at < q[m + 1].at
      BY <1>7, <1>10, <2>4
    <3> QED BY <2>2, <3>1
  <2>5. CASE notes[w[k]].fresh
    <3>1. kept[k].fresh BY <1>13, <2>2, <2>5
    <3>2. told.subject = q[k].subject /\ q[k].at # told.at
      BY <1>11, <2>1, <2>2, <3>1
    <3>3. told.at = clock BY <1>7
    <3>4. q[k].at < clock BY <2>3, <3>2, <3>3
    <3> QED BY <2>4, <3>2, <3>4
  <2>6. CASE ~notes[w[k]].fresh
    <3>1. PICK J \in 1..Len(notes) : /\ w[k] < J /\ notes[J].fresh
                                     /\ notes[J].subject = notes[w[k]].subject
                                     /\ notes[w[k]].at < notes[J].at
      BY <2>3, <2>6, Zenon DEF NotesHold, NewerStands
    <3>2. CASE J \in gone
      <4>1. notes[J].text = text BY <3>2
      <4>2. told.subject = q[k].subject BY <1>7, <1>14, <2>3, <3>1, <4>1
      <4>3. q[k].at < clock BY <1>14, <2>3, <3>1
      <4> QED BY <2>4, <4>2, <4>3
    <3>3. CASE J \notin gone
      <4>1. PICK j \in 1..m : w[j] = J
        <5> HIDE DEF gone
        <5> QED BY <1>4, <3>3
      <4>2. k < j
        <5>1. j < k => w[j] < w[k] BY <1>4, <2>2
        <5>2. j # k BY <3>1, <4>1, <2>3
        <5> QED BY <1>5, <2>2, <2>3, <3>1, <4>1, <5>1, <5>2
      <4>3. q[j].subject = q[k].subject /\ q[k].at < q[j].at /\ q[j].at <= clock
            /\ q[j].at \in Nat
        BY SMTT(60), <1>11, <1>13, <1>14, <2>3, <3>1, <4>1
      <4>4. CASE q[j].fresh BY <1>12, <4>2, <4>3, <4>4
      <4>5. CASE ~q[j].fresh
        <5>1. kept[j].fresh BY <1>13, <3>1, <4>1
        <5>2. told.subject = q[j].subject /\ q[j].at # told.at
          BY <1>11, <4>5, <5>1
        <5>3. told.at = clock BY <1>7
        <5>4. told.subject = q[k].subject /\ q[k].at < clock
          BY <2>3, <4>3, <5>2, <5>3
        <5> QED BY <2>4, <5>4
      <4> QED BY <4>4, <4>5
    <3> QED BY <3>2, <3>3
  <2> QED BY <2>5, <2>6
<1>18. RivalsNamed(q)
  <2>1. SUFFICES ASSUME NEW j \in 1..(m + 1), NEW k \in 1..(m + 1), j # k,
                        q[j].fresh, q[k].fresh, q[j].subject = q[k].subject,
                        q[k].subject # noSubject
                 PROVE  q[j].index \in q[k].conflicts
    BY <1>10, Zenon DEF RivalsNamed
  <2>2. CASE j \in 1..m /\ k \in 1..m
    <3>1. w[j] # w[k]
      <4>1. j \in Nat /\ k \in Nat /\ w[j] \in Nat /\ w[k] \in Nat
        BY <1>13, <2>2
      <4>2. (j < k => w[j] < w[k]) /\ (k < j => w[k] < w[j]) BY <1>4, <2>2
      <4> QED BY <2>1, <4>1, <4>2
    <3>2. kept[j].fresh /\ kept[k].fresh /\ kept[j].subject = kept[k].subject
          /\ kept[k].subject # noSubject
      BY <1>11, <2>1, <2>2
    <3>3. kept[j].index \in kept[k].conflicts
      <4>1. RivalsNamed(notes) BY DEF NotesHold
      <4>2. w[j] \in 1..Len(notes) /\ w[k] \in 1..Len(notes)
            /\ kept[j] = notes[w[j]] /\ kept[k] = notes[w[k]]
        BY <1>13, <2>2
      <4> QED BY <3>1, <3>2, <4>1, <4>2, Zenon DEF RivalsNamed
    <3> QED BY <1>11, <2>2, <3>3
  <2>3. CASE j = m + 1 /\ k \in 1..m
    <3>1. q[k].subject = told.subject /\ told.subject # noSubject /\ q[j].index = nextIndex
      BY <1>7, <1>10, <2>1, <2>3
    <3> QED BY <1>11, <2>1, <2>3, <3>1
  <2>4. CASE j \in 1..m /\ k = m + 1
    <3>1. q[j].subject = told.subject /\ told.subject # noSubject
          /\ q[k].conflicts = Rivals(kept, note)
      BY <1>7, <1>10, <2>1, <2>4
    <3>2. kept[j].at = clock /\ kept[j].fresh /\ kept[j].subject = told.subject
          /\ kept[j].index = q[j].index
      BY <1>11, <2>1, <2>4, <3>1
    <3>3. kept[j] \in ToSet(kept) BY <2>4 DEF ToSet
    <3>4. note.subject = told.subject /\ note.at = clock BY <1>3, <1>7
    <3> QED BY <3>1, <3>2, <3>3, <3>4, Zenon DEF Rivals
  <2> QED BY <1>12, <2>1, <2>2, <2>3, <2>4
<1>19. NotesHold(q, nextIndex + 1, clock)
  BY <1>10, <1>15, <1>16, <1>17, <1>18 DEF NotesHold
<1>20. /\ NotesHold(LastOf(q, NoteLimit), nextIndex + 1, clock)
       /\ Len(LastOf(q, NoteLimit)) <= NoteLimit
  BY <1>19, PushedOutKeeps
<1> QED BY <1>2, <1>20 DEF q

\* A file is among those touched last once, as the last of them.
LEMMA TouchedFits ==
  ASSUME recent \in Seq(Files), IsInjective(recent), FileLimit \in Nat, NEW f \in Files
  PROVE  /\ Touched(f) \in Seq(Files) /\ IsInjective(Touched(f))
         /\ Len(Touched(f)) <= FileLimit
<1> DEFINE gone == {k \in 1..Len(recent) : recent[k] = f}
           kept == Others(recent, gone)
           q == Append(kept, f)
<1>1. kept \in Seq(Files) /\ LeftOf(recent, gone, Len(recent), kept)
  <2> HIDE DEF gone
  <2> QED BY OthersAreLeft
<1>2. PICK w \in [1..Len(kept) -> 1..Len(recent)] :
        /\ \A i \in 1..Len(kept) : w[i] \notin gone /\ kept[i] = recent[w[i]]
        /\ \A i, j \in 1..Len(kept) : i < j => w[i] < w[j]
  <2> HIDE DEF gone, kept
  <2> QED BY <1>1 DEF LeftOf
<1>3. \A i \in 1..Len(kept) : w[i] \in 1..Len(recent) /\ kept[i] = recent[w[i]] /\ kept[i] # f
  <2> HIDE DEF kept
  <2> QED BY <1>2
<1> HIDE DEF kept
<1>4. IsInjective(kept)
  <2>1. SUFFICES ASSUME NEW i \in 1..Len(kept), NEW j \in 1..Len(kept), kept[i] = kept[j]
                 PROVE  i = j
    BY <1>1 DEF IsInjective
  <2>2. w[i] = w[j] BY <1>3, <2>1 DEF IsInjective
  <2>3. i \in Int /\ j \in Int /\ w[i] \in Int BY <1>3
  <2>4. (i < j => w[i] < w[j]) /\ (j < i => w[j] < w[i]) BY <1>2
  <2> QED BY <2>2, <2>3, <2>4
<1>5. f \notin ToSet(kept) BY <1>1, <1>3 DEF ToSet
<1>6. q \in Seq(Files) /\ IsInjective(q) /\ Len(q) \in Nat
  <2>1. q \in Seq(Files) /\ IsInjective(q) BY <1>1, <1>4, <1>5, AppendElements
  <2> QED BY <2>1
<1> DEFINE r == LastOf(q, FileLimit)
<1> HIDE DEF q
<1>7. /\ r \in Seq(Files) /\ Len(r) <= FileLimit
      /\ \E d \in Nat : /\ Len(r) = Len(q) - d
                        /\ d = 0 \/ Len(q) - d = FileLimit
                        /\ \A i \in 1..(Len(q) - d) : i + d \in 1..Len(q) /\ r[i] = q[i + d]
  BY <1>6, LastAreLeft
<1>8. PICK d \in Nat : /\ Len(r) = Len(q) - d
                       /\ \A i \in 1..(Len(q) - d) : i + d \in 1..Len(q) /\ r[i] = q[i + d]
  BY <1>7
<1> HIDE DEF r
<1>9. IsInjective(r)
  <2>1. SUFFICES ASSUME NEW i \in 1..Len(r), NEW j \in 1..Len(r), r[i] = r[j]
                 PROVE  i = j
    BY <1>7 DEF IsInjective
  <2>2. i + d \in 1..Len(q) /\ j + d \in 1..Len(q) /\ q[i + d] = q[j + d]
    BY <1>8, <2>1
  <2>3. i + d = j + d BY <1>6, <2>2 DEF IsInjective
  <2> QED BY <2>3
<1>10. Touched(f) = r BY DEF Touched, r, q, kept
<1> QED BY <1>7, <1>9, <1>10

(* A tool's result waits for its note with a file and a text; a summary    *)
(* says what its file held when it was stamped, unless it had changed by   *)
(* then; and what a session that was opened again is told holds until its  *)
(* next step.                                                              *)
StatesFit ==
  /\ content \in [Files -> Contents] /\ settings \in {0, 1}
  /\ result = NothingRead
       \/ result \in [tool : {"read", "write"}, file : Files, text : Contents]
  /\ saved = Unset \/ DOMAIN saved.files \subseteq Files
RecentFits == recent \in Seq(Files) /\ IsInjective(recent) /\ Len(recent) <= FileLimit
NotesFit ==
  /\ nextIndex \in Nat /\ clock \in Nat
  /\ NotesHold(notes, nextIndex, clock) /\ Len(notes) <= NoteLimit
StampsFit ==
  /\ DOMAIN summaries = Files /\ summaries = [f \in Files |-> summaries[f]]
  /\ \A f \in Files : summaries[f] # Unread /\ f \notin blurred =>
       summaries[f].says = summaries[f].stamp
ResumedFits ==
  resumed = "full-valid" =>
    saved.identity = settings /\ \A f \in DOMAIN saved.files : saved.files[f] = content[f]
MemoryFits == StatesFit /\ RecentFits /\ NotesFit /\ StampsFit /\ ResumedFits

LEMMA MemoryConstants ==
  /\ DOMAIN Subject = Contents \cup Remarks /\ FileLimit \in Nat \ {0}
  /\ NoteLimit \in Nat \ {0} /\ Unset # "full-valid"
BY MemoryAssumption

LEMMA MemoryBegins == MemoryInit => MemoryFits
<1> SUFFICES ASSUME MemoryInit PROVE MemoryFits OBVIOUS
<1>1. StatesFit BY DEF MemoryInit, StatesFit
<1>2. RecentFits BY EmptyElements, MemoryConstants DEF MemoryInit, RecentFits
<1>3. NotesHold(<<>>, 0, 0)
  <2>1. <<>> \in Seq(NoteRecord) /\ 1..Len(<<>>) = {} OBVIOUS
  <2> QED
    BY <2>1, Zenon DEF NotesHold, InTheirOrder, NewerStands, RivalsNamed, NotesUpTo
<1>4. NotesFit BY <1>3, MemoryConstants DEF MemoryInit, NotesFit
<1>5. StampsFit BY DEF MemoryInit, StampsFit
<1>6. ResumedFits BY MemoryConstants DEF MemoryInit, ResumedFits
<1> QED BY <1>1, <1>2, <1>4, <1>5, <1>6 DEF MemoryFits

\* What a note leaves alone, and what it keeps.
LEMMA NotesStayFit ==
  ASSUME MemoryFits, NEW text \in DOMAIN Subject, Append1(text), UNCHANGED clock
  PROVE  NotesFit'
<1>1. NotesHold(notes, nextIndex, clock) /\ nextIndex \in Nat /\ clock \in Nat
  BY DEF MemoryFits, NotesFit
<1>2. /\ NotesHold(notes', nextIndex + 1, clock) /\ Len(notes') <= NoteLimit
      /\ nextIndex' = nextIndex + 1
  BY <1>1, MemoryConstants, NoteKeeps
<1> QED BY <1>1, <1>2 DEF NotesFit

LEMMA MemoryMoves ==
  ASSUME MemoryFits, MemoryNext
  PROVE  MemoryFits'
<1> USE DEF MemoryFits
<1>0. ASSUME UNCHANGED noteVars PROVE NotesFit' BY <1>0 DEF NotesFit, noteVars
<1>00. ASSUME resumed' = Unset PROVE ResumedFits'
  BY <1>00, MemoryConstants DEF ResumedFits
<1>1. CASE Remark
  <2>1. PICK text \in Remarks : Append1(text) BY <1>1 DEF Remark
  <2>2. NotesFit'
    <3>1. text \in DOMAIN Subject /\ UNCHANGED clock
      BY <1>1, MemoryConstants DEF Remark
    <3> QED BY <2>1, <3>1, NotesStayFit
  <2>3. ResumedFits' BY <1>1, <1>00 DEF Remark
  <2>4. StatesFit' /\ RecentFits' /\ StampsFit'
    BY <1>1 DEF Remark, fileVars, StatesFit, RecentFits, StampsFit
  <2> QED BY <2>2, <2>3, <2>4
<1>2. CASE RunTool
  <2>1. PICK f \in Files :
          \/ /\ result' = [tool |-> "read", file |-> f, text |-> content[f]]
             /\ UNCHANGED content
          \/ \E c \in Contents : /\ content' = [content EXCEPT ![f] = c]
                                 /\ result' = [tool |-> "write", file |-> f, text |-> c]
    BY <1>2 DEF RunTool
  <2>2. StatesFit'
    <3>1. content[f] \in Contents /\ saved' = saved /\ settings' = settings
      BY <1>2 DEF RunTool, StatesFit
    <3>2. CASE result' = [tool |-> "read", file |-> f, text |-> content[f]] /\ UNCHANGED content
      BY <3>1, <3>2 DEF StatesFit
    <3>3. CASE \E c \in Contents : /\ content' = [content EXCEPT ![f] = c]
                                   /\ result' = [tool |-> "write", file |-> f, text |-> c]
      BY <3>1, <3>3 DEF StatesFit
    <3> QED BY <2>1, <3>2, <3>3
  <2>3. RecentFits' /\ StampsFit'
    BY <1>2 DEF RunTool, fileVars, RecentFits, StampsFit
  <2> QED BY <1>2, <1>0, <1>00, <2>2, <2>3 DEF RunTool
<1>3. CASE ChangedBehind
  <2>1. StatesFit' BY <1>3 DEF ChangedBehind, StatesFit
  <2>2. RecentFits' /\ StampsFit'
    BY <1>3 DEF ChangedBehind, fileVars, RecentFits, StampsFit
  <2> QED BY <1>3, <1>0, <1>00, <2>1, <2>2 DEF ChangedBehind
<1>4. CASE RememberRead
  <2> DEFINE f == result.file
  <2>1. result \in [tool : {"read", "write"}, file : Files, text : Contents]
    BY <1>4 DEF RememberRead, StatesFit, NothingRead
  <2>2. f \in Files /\ result.text \in DOMAIN Subject BY <2>1, MemoryConstants
  <2>3. NotesFit'
    <3>1. Append1(result.text) /\ UNCHANGED clock BY <1>4 DEF RememberRead
    <3> QED BY <2>2, <3>1, NotesStayFit
  <2>4. RecentFits'
    <3>1. recent' = Touched(f) BY <1>4 DEF RememberRead
    <3> HIDE DEF f
    <3> QED BY <2>2, <3>1, MemoryConstants, TouchedFits DEF RecentFits
  <2>5. StampsFit'
    <3>1. summaries' = [summaries EXCEPT ![f] = [says |-> result.text, stamp |-> content[f]]]
          /\ blurred' = IF content[f] = result.text THEN blurred \ {f} ELSE blurred \cup {f}
      BY <1>4 DEF RememberRead
    <3> HIDE DEF f
    <3>2. DOMAIN summaries' = Files /\ summaries' = [g \in Files |-> summaries'[g]]
          /\ summaries'[f].says = result.text /\ summaries'[f].stamp = content[f]
          /\ \A g \in Files : g # f => summaries'[g] = summaries[g]
      BY <2>2, <3>1 DEF StampsFit
    <3>3. \A g \in Files : g # f => (g \in blurred' <=> g \in blurred) BY <3>1
    <3>4. f \notin blurred' => content[f] = result.text BY <3>1
    <3>5. ASSUME NEW g \in Files, summaries'[g] # Unread, g \notin blurred'
          PROVE  summaries'[g].says = summaries'[g].stamp
      <4>1. CASE g = f BY <3>2, <3>4, <3>5, <4>1
      <4>2. CASE g # f
        <5>1. summaries[g].says = summaries[g].stamp
          BY <3>2, <3>3, <3>5, <4>2 DEF StampsFit
        <5> QED BY <3>2, <4>2, <5>1
      <4> QED BY <4>1, <4>2
    <3> QED BY <3>2, <3>5 DEF StampsFit
  <2>6. StatesFit' /\ ResumedFits'
    BY <1>4 DEF RememberRead, sessionVars, StatesFit, ResumedFits
  <2> QED BY <2>3, <2>4, <2>5, <2>6
<1>5. CASE RememberWrite
  <2> DEFINE f == result.file
  <2>1. result \in [tool : {"read", "write"}, file : Files, text : Contents]
    BY <1>5 DEF RememberWrite, StatesFit, NothingRead
  <2>2. f \in Files BY <2>1
  <2>3. RecentFits'
    <3>1. recent' = Touched(f) BY <1>5 DEF RememberWrite
    <3> HIDE DEF f
    <3> QED BY <2>2, <3>1, MemoryConstants, TouchedFits DEF RecentFits
  <2>4. StampsFit'
    <3>1. summaries' = [summaries EXCEPT ![f] = Unread] /\ blurred' = blurred
      BY <1>5 DEF RememberWrite, Forgotten
    <3> HIDE DEF f
    <3>2. DOMAIN summaries' = Files /\ summaries' = [g \in Files |-> summaries'[g]]
          /\ summaries'[f] = Unread /\ \A g \in Files : g # f => summaries'[g] = summaries[g]
      BY <2>2, <3>1 DEF StampsFit
    <3> QED BY <3>1, <3>2, Zenon DEF StampsFit
  <2>5. StatesFit' /\ ResumedFits'
    BY <1>5 DEF RememberWrite, sessionVars, StatesFit, ResumedFits
  <2> QED BY <1>5, <1>0, <2>3, <2>4, <2>5 DEF RememberWrite
<1>6. CASE ClockTicks
  <2>1. NotesFit'
    <3>1. notes' = notes /\ nextIndex' = nextIndex /\ clock' = clock + 1
      BY <1>6 DEF ClockTicks
    <3>2. \A k \in 1..Len(notes) : notes[k].at \in Nat
      <4>1. notes \in Seq(NoteRecord) BY DEF NotesFit, NotesHold
      <4>2. \A k \in 1..Len(notes) : notes[k] \in NoteRecord BY ONLY <4>1
      <4> QED BY ONLY <4>2 DEF NoteRecord
    <3>3. NotesUpTo(notes, nextIndex, clock + 1)
      BY <3>2 DEF NotesFit, NotesHold, NotesUpTo
    <3>4. NotesHold(notes, nextIndex, clock + 1) /\ clock + 1 \in Nat
      BY <3>3 DEF NotesFit, NotesHold
    <3> QED BY <3>1, <3>4 DEF NotesFit
  <2>2. StatesFit' /\ RecentFits' /\ StampsFit' /\ ResumedFits'
    BY <1>6 DEF ClockTicks, sessionVars, fileVars, StatesFit, RecentFits, StampsFit, ResumedFits
  <2> QED BY <2>1, <2>2
<1>7. CASE SaveCheckpoint
  <2>1. ToSet(recent) \subseteq Files BY DEF RecentFits, ToSet
  <2>2. StatesFit' BY <1>7, <2>1 DEF SaveCheckpoint, StatesFit
  <2>3. RecentFits' /\ StampsFit'
    BY <1>7 DEF SaveCheckpoint, fileVars, RecentFits, StampsFit
  <2> QED BY <1>7, <1>0, <1>00, <2>2, <2>3 DEF SaveCheckpoint
<1>8. ASSUME NEW identity \in {0, 1}, Reopen(identity) PROVE MemoryFits'
  <2>1. StatesFit' BY <1>8 DEF Reopen, StatesFit
  <2>2. RecentFits' /\ NotesFit' BY <1>8, <1>0 DEF Reopen, RecentFits
  <2>3. StampsFit'
    <3>1. summaries' = [f \in Files |-> IF f \in OutOfDate THEN Unread ELSE summaries[f]]
          /\ blurred' = blurred
      BY <1>8 DEF Reopen
    <3>2. /\ DOMAIN summaries' = Files /\ summaries' = [f \in Files |-> summaries'[f]]
          /\ \A f \in Files : summaries'[f] = Unread \/ summaries'[f] = summaries[f]
      BY <3>1
    <3> QED BY <3>1, <3>2, Zenon DEF StampsFit
  <2>4. ResumedFits'
    <3>1. SUFFICES ASSUME resumed' = "full-valid"
                   PROVE  /\ saved'.identity = settings'
                          /\ \A f \in DOMAIN saved'.files : saved'.files[f] = content'[f]
      BY DEF ResumedFits
    <3>2. /\ saved # Unset /\ saved.identity = identity /\ settings' = identity
          /\ saved' = saved /\ content' = content
          /\ \A f \in Files : ~IsStale(f)
      BY <1>8, <3>1 DEF Reopen
    <3>3. DOMAIN saved.files \subseteq Files BY <3>2 DEF StatesFit
    <3> QED BY <3>2, <3>3 DEF IsStale
  <2> QED BY <2>1, <2>2, <2>3, <2>4
<1> QED BY <1>1, <1>2, <1>3, <1>4, <1>5, <1>6, <1>7, <1>8 DEF MemoryNext

LEMMA MemoryIsFit == MemoryFits => MemoryIsSound
<1> SUFFICES ASSUME MemoryFits PROVE MemoryIsSound OBVIOUS
<1> USE DEF MemoryFits
<1>0. NotesHold(notes, nextIndex, clock) /\ Len(notes) \in Nat
  BY DEF NotesFit, NotesHold
<1>1. MemoryTypes
  <2>1. \A k \in 1..Len(notes) : notes[k].index < nextIndex /\ notes[k].text \in DOMAIN Subject
    <3>1. \A k \in 1..Len(notes) : notes[k].text \in DOMAIN Subject
      <4>1. notes \in Seq(NoteRecord) BY <1>0 DEF NotesHold
      <4>2. \A k \in 1..Len(notes) : notes[k] \in NoteRecord BY ONLY <4>1
      <4> QED BY ONLY <4>2 DEF NoteRecord
    <3> QED BY <1>0, <3>1, Zenon DEF NotesHold, NotesUpTo
  <2> QED BY <2>1 DEF MemoryTypes, NotesFit, RecentFits, StatesFit
<1>2. NotesAreSound
  <2>1. \A j, k \in 1..Len(notes) : j < k => notes[j].index < notes[k].index
    BY <1>0, Zenon DEF NotesHold, InTheirOrder
  <2>2. ASSUME NEW k \in 1..Len(notes), ~Current(k)
        PROVE  \E j \in k + 1..Len(notes) :
                 Current(j) /\ notes[j].subject = notes[k].subject /\ notes[k].at < notes[j].at
    <3>1. PICK j \in 1..Len(notes) : /\ k < j /\ notes[j].fresh
                                     /\ notes[j].subject = notes[k].subject
                                     /\ notes[k].at < notes[j].at
      BY <1>0, <2>2, Zenon DEF NotesHold, NewerStands, Current
    <3>2. j \in k + 1..Len(notes) BY <1>0, <3>1
    <3> QED BY <3>1, <3>2 DEF Current
  <2>3. \A j, k \in 1..Len(notes) :
          j # k /\ Current(j) /\ Current(k) /\ notes[j].subject = notes[k].subject
            /\ notes[k].subject # noSubject => notes[j].index \in notes[k].conflicts
    BY <1>0, Zenon DEF NotesHold, RivalsNamed, Current
  <2> QED BY <2>1, <2>2, <2>3, Zenon DEF NotesAreSound
<1>3. SummariesAreCurrent
  <2>1. \A f \in Files : Shown(f) /\ f \notin blurred => summaries[f].says = content[f]
    BY DEF StampsFit, Shown
  <2> QED BY <2>1, Zenon DEF ResumedFits, SummariesAreCurrent
<1> QED BY <1>1, <1>2, <1>3 DEF MemoryIsSound

\* For any files, texts, subjects and limits, and any number of notes and
\* changes: what is known of a subject is never left with notes that nothing
\* newer superseded, current rivals name one another, and what is shown of a
\* file, or called valid when a session is opened again, is what the file holds.
THEOREM MemoryStaysSound == MemoryInit /\ [][MemoryNext]_memoryVars => []MemoryIsSound
<1>1. MemoryFits /\ UNCHANGED memoryVars => MemoryFits'
  <2> SUFFICES ASSUME MemoryFits, UNCHANGED memoryVars PROVE MemoryFits' OBVIOUS
  <2>1. StatesFit' /\ RecentFits'
    BY DEF MemoryFits, memoryVars, StatesFit, RecentFits
  <2>2. NotesFit' /\ StampsFit' /\ ResumedFits'
    BY DEF MemoryFits, memoryVars, NotesFit, StampsFit, ResumedFits
  <2> QED BY <2>1, <2>2 DEF MemoryFits
<1>2. MemoryFits /\ [MemoryNext]_memoryVars => MemoryFits' BY <1>1, MemoryMoves
<1> QED BY <1>2, MemoryBegins, MemoryIsFit, PTL
=============================================================================
