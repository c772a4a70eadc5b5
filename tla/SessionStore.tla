---------------------------- MODULE SessionStore ----------------------------
(***************************************************************************)
(* One stored session and the processes that use it: session_store.py (a   *)
(* JSON file under a lock, fenced by a revision that each store object     *)
(* remembers), session_operations.py (title, undo, clear, delete, each     *)
(* confirmed against a revision the client has seen), the agent that keeps *)
(* the session in memory and saves all of it with each row (runtime.py),   *)
(* and the switch to a fresh agent after a rewrite (tui_rpc.py).           *)
(* A row stands for a turn; clear is the undo of every turn.               *)
(* A definition named Faulty... is a later one with a mistake planted.     *)
(***************************************************************************)
EXTENDS Naturals, Sequences, FiniteSets, SequencesExt

CONSTANTS Procs,       \* server processes on the same state directory
          Titles,
          MaxRows,     \* bound: rows ever written
          Settings     \* the settings a session may be used under

VARIABLE setting       \* those of this session; a step never changes them

Lingering == setting.lingering   \* a cancelled turn's thread may outlive its turn
MaxRev == setting.rev            \* bound: no operation starts at a higher revision
MaxFaults == setting.faults      \* bound: saves that raise
MaxCrashes == setting.crashes    \* bound: processes that die

ASSUME StoreAssumption ==
    MaxRows \in Nat /\ Settings \subseteq
      [lingering : BOOLEAN, rev : Nat, faults : Nat, crashes : Nat]

VARIABLES disk,     \* the session file and its deletion marker
          agent,    \* the session in memory, of the current and retired agent
          job,      \* the operation a server is in the middle of
          offer,    \* the revision each client was last asked to confirm
          rows,     \* rows written so far
          undone,   \* history: rows that a committed rewrite removed
          faults, crashes

storeVars == <<setting, disk, agent, job, offer, rows, undone, faults, crashes>>

Slots == Procs \X {"now", "old"}
Now(p) == <<p, "now">>
Old(p) == <<p, "old">>

Closed == [open |-> "no", rev |-> 0, hist |-> <<>>, title |-> CHOOSE t \in Titles : TRUE,
           busy |-> FALSE, late |-> FALSE]
NoJob == [op |-> "none", rev |-> 0, hist |-> <<>>, title |-> CHOOSE t \in Titles : TRUE]

StoreInit == /\ setting \in Settings
        /\ disk \in [hist : {<<>>}, title : Titles, rev : {1}, deleted : {FALSE}]
        /\ agent = [s \in Slots |-> Closed]
        /\ job = [p \in Procs |-> NoJob]
        /\ offer = [p \in Procs |-> 0]
        /\ rows = 0 /\ undone = {} /\ faults = 0 /\ crashes = 0

Fault == faults < MaxFaults /\ faults' = faults + 1
Smooth == UNCHANGED faults
Free(p) == job[p] = NoJob /\ disk.rev < MaxRev
Has(p) == agent[Now(p)].open = "yes"

\* The fence: the writer has seen the revision on disk, which is not deleted.
FaultyFence(rev) == rev = disk.rev
FaultyUnfenced(rev) == ~disk.deleted
Fence(rev) == ~disk.deleted /\ rev = disk.rev

FaultyNextRev(rev) == rev
NextRev(rev) == rev + 1

Written(hist, title) ==
  [hist |-> hist, title |-> title, rev |-> NextRev(disk.rev), deleted |-> disk.deleted]

\* A save through the store of slot s. It may raise before the file has been
\* replaced, or after, and then the store does not know the new revision.
Save(s, hist, title, saved, failed) ==
    \/ /\ Fence(agent[s].rev) /\ Smooth
       /\ disk' = Written(hist, title)
       /\ agent' = [agent EXCEPT ![s] = [saved EXCEPT !.rev = NextRev(saved.rev)]]
    \/ /\ ~Fence(agent[s].rev) /\ Smooth
       /\ agent' = [agent EXCEPT ![s] = failed] /\ UNCHANGED disk
    \/ /\ Fence(agent[s].rev) /\ Fault
       /\ agent' = [agent EXCEPT ![s] = failed]
       /\ disk' \in {disk, Written(hist, title)}

-----------------------------------------------------------------------------
(* The agent: opened by a load and a first save, it saves with every row. *)

Loaded == [open |-> "opening", rev |-> disk.rev, hist |-> disk.hist, title |-> disk.title,
           busy |-> FALSE, late |-> FALSE]

Open(p) ==
    /\ agent[Now(p)].open = "no" /\ Free(p) /\ ~disk.deleted
    /\ agent' = [agent EXCEPT ![Now(p)] = Loaded]
    /\ Smooth /\ UNCHANGED <<disk, job, offer, rows, undone, crashes>>

FirstSave(p) ==
    LET a == agent[Now(p)] IN
    /\ a.open = "opening"
    /\ Save(Now(p), a.hist, a.title, [a EXCEPT !.open = "yes"], Closed)
    /\ UNCHANGED <<job, offer, rows, undone, crashes>>

StartTurn(p) ==
    /\ Has(p) /\ ~agent[Now(p)].busy /\ Free(p) /\ rows < MaxRows
    /\ agent' = [agent EXCEPT ![Now(p)].busy = TRUE]
    /\ Smooth /\ UNCHANGED <<disk, job, offer, rows, undone, crashes>>

\* The row is in memory whether or not the save that follows succeeds.
Record(s) ==
    LET a == agent[s]
        grown == [a EXCEPT !.hist = Append(@, rows + 1)]
    IN /\ a.busy \/ a.late
       /\ rows < MaxRows /\ rows' = rows + 1
       /\ Save(s, grown.hist, a.title, grown, grown)
       /\ UNCHANGED <<job, offer, undone, crashes>>

EndTurn(p) ==
    LET a == agent[Now(p)] IN
    /\ a.busy
    /\ \E lingers \in {FALSE, Lingering} :
          agent' = [agent EXCEPT ![Now(p)] =
                      [a EXCEPT !.busy = FALSE, !.late = a.late \/ lingers]]
    /\ Smooth /\ UNCHANGED <<disk, job, offer, rows, undone, crashes>>

ThreadEnds(s) ==
    /\ agent[s].late
    /\ agent' = [agent EXCEPT ![s] = IF s[2] = "old" THEN Closed
                                     ELSE [agent[s] EXCEPT !.late = FALSE]]
    /\ Smooth /\ UNCHANGED <<disk, job, offer, rows, undone, crashes>>

\* The agent is given up; a thread of it that still runs keeps its session.
Retired(p, next) ==
    [agent EXCEPT ![Now(p)] = next,
                  ![Old(p)] = IF agent[Now(p)].late THEN agent[Now(p)] ELSE agent[Old(p)]]

-----------------------------------------------------------------------------
(* Operations of a server, none of them while a turn runs. *)

Editing(p) == Free(p) /\ ~disk.deleted /\ ~agent[Now(p)].busy
              /\ agent[Now(p)].open # "opening"

\* The current session's title is edited on a copy of what is in memory,
\* another session's on what a fresh store has just loaded.
TitleRead(p) ==
    /\ Editing(p)
    /\ \E t \in Titles :
          job' = [job EXCEPT ![p] =
                     IF Has(p) THEN [op |-> "title", rev |-> agent[Now(p)].rev,
                                     hist |-> agent[Now(p)].hist, title |-> t]
                     ELSE [op |-> "title", rev |-> disk.rev,
                           hist |-> disk.hist, title |-> t]]
    /\ Smooth /\ UNCHANGED <<disk, agent, offer, rows, undone, crashes>>

TitleWrite(p) ==
    LET a == agent[Now(p)] IN
    /\ job[p].op = "title" /\ job' = [job EXCEPT ![p] = NoJob]
    /\ IF Has(p)
       THEN Save(Now(p), job[p].hist, job[p].title, [a EXCEPT !.title = job[p].title], a)
       ELSE /\ UNCHANGED agent
            /\ \/ Fence(job[p].rev) /\ disk' = Written(job[p].hist, job[p].title) /\ Smooth
               \/ ~Fence(job[p].rev) /\ UNCHANGED disk /\ Smooth
               \/ Fence(job[p].rev) /\ Fault
                  /\ disk' \in {disk, Written(job[p].hist, job[p].title)}
    /\ UNCHANGED <<offer, rows, undone, crashes>>

\* Without a confirmation the client is only told the revision.
Ask(p) ==
    /\ Editing(p) /\ offer[p] # disk.rev
    /\ offer' = [offer EXCEPT ![p] = disk.rev]
    /\ Smooth /\ UNCHANGED <<disk, agent, job, rows, undone, crashes>>

FaultyConfirmed(p) == TRUE
Confirmed(p) == offer[p] = disk.rev

UndoRead(p) ==
    /\ Editing(p) /\ Confirmed(p) /\ disk.hist # <<>>
    /\ \E n \in 0..(Len(disk.hist) - 1) :
          job' = [job EXCEPT ![p] = [op |-> "undo", rev |-> disk.rev,
                                     hist |-> SubSeq(disk.hist, 1, n), title |-> disk.title]]
    /\ Smooth /\ UNCHANGED <<disk, agent, offer, rows, undone, crashes>>

Cut(p) == /\ disk' = Written(job[p].hist, disk.title)
          /\ undone' = undone \cup (ToSet(disk.hist) \ ToSet(job[p].hist))

\* The rewrite goes through the current agent's store, which learns the new
\* revision; the agent itself is replaced. If the rewrite failed and the file
\* may have changed, the server closes instead.
UndoWrite(p) ==
    /\ job[p].op = "undo"
    /\ \/ /\ Fence(job[p].rev) /\ Smooth /\ Cut(p)
          /\ IF Has(p)
             THEN /\ agent' = [agent EXCEPT ![Now(p)].rev = NextRev(job[p].rev)]
                  /\ job' = [job EXCEPT ![p] = [NoJob EXCEPT !.op = "switch"]]
             ELSE job' = [job EXCEPT ![p] = NoJob] /\ UNCHANGED agent
       \/ /\ ~Fence(job[p].rev) /\ Smooth /\ UNCHANGED <<disk, undone>>
          /\ job' = [job EXCEPT ![p] = NoJob]
          /\ IF Has(p) THEN agent' = Retired(p, Closed) ELSE UNCHANGED agent
       \/ /\ Fence(job[p].rev) /\ Fault /\ job' = [job EXCEPT ![p] = NoJob]
          /\ \/ UNCHANGED <<disk, undone, agent>>
             \/ Cut(p) /\ IF Has(p) THEN agent' = Retired(p, Closed) ELSE UNCHANGED agent
    /\ UNCHANGED <<offer, rows, crashes>>

Switch(p) ==
    /\ job[p].op = "switch" /\ job' = [job EXCEPT ![p] = NoJob]
    /\ agent' = Retired(p, IF disk.deleted THEN Closed ELSE Loaded)
    /\ Smooth /\ UNCHANGED <<disk, offer, rows, undone, crashes>>

\* The marker decides: a crash between marker and unlink leaves it deleted.
DeleteRead(p) ==
    /\ Editing(p) /\ ~Has(p) /\ Confirmed(p)
    /\ job' = [job EXCEPT ![p] = [NoJob EXCEPT !.op = "delete", !.rev = disk.rev]]
    /\ Smooth /\ UNCHANGED <<disk, agent, offer, rows, undone, crashes>>

DeleteWrite(p) ==
    /\ job[p].op = "delete" /\ job' = [job EXCEPT ![p] = NoJob]
    /\ \/ Fence(job[p].rev) /\ disk' = [disk EXCEPT !.deleted = TRUE] /\ Smooth
       \/ ~Fence(job[p].rev) /\ UNCHANGED disk /\ Smooth
       \/ Fence(job[p].rev) /\ Fault /\ disk' \in {disk, [disk EXCEPT !.deleted = TRUE]}
    /\ UNCHANGED <<agent, offer, rows, undone, crashes>>

Crash(p) ==
    /\ crashes < MaxCrashes /\ crashes' = crashes + 1
    /\ agent[Now(p)] # Closed \/ job[p] # NoJob
    /\ agent' = [agent EXCEPT ![Now(p)] = Closed, ![Old(p)] = Closed]
    /\ job' = [job EXCEPT ![p] = NoJob] /\ offer' = [offer EXCEPT ![p] = 0]
    /\ UNCHANGED <<disk, rows, undone, faults>>

StoreNext ==
    /\ UNCHANGED setting
    /\ \/ \E p \in Procs :
            \/ Open(p) \/ FirstSave(p) \/ StartTurn(p) \/ EndTurn(p)
            \/ TitleRead(p) \/ TitleWrite(p) \/ Ask(p) \/ UndoRead(p) \/ UndoWrite(p)
            \/ Switch(p) \/ DeleteRead(p) \/ DeleteWrite(p) \/ Crash(p)
       \/ \E s \in Slots : Record(s) \/ ThreadEnds(s)

-----------------------------------------------------------------------------
(* Properties. *)

Row == 1..MaxRows

StoreTypes ==
    /\ setting \in Settings
    /\ disk \in [hist : Seq(Row), title : Titles, rev : Nat, deleted : BOOLEAN]
    /\ agent \in [Slots -> [open : {"no", "opening", "yes"}, rev : Nat, hist : Seq(Row),
                            title : Titles, busy : BOOLEAN, late : BOOLEAN]]
    /\ job \in [Procs -> [op : {"none", "title", "undo", "switch", "delete"},
                          rev : Nat, hist : Seq(Row), title : Titles]]
    /\ offer \in [Procs -> Nat]
    /\ rows \in 0..MaxRows /\ undone \subseteq Row
    /\ faults \in 0..MaxFaults /\ crashes \in 0..MaxCrashes

History == INSTANCE SessionHistory WITH
    history <- disk.hist, title <- disk.title, deleted <- disk.deleted

\* The file is a session history: no save of a stale copy takes away a row or a
\* title that another writer has saved, and nothing follows a deletion, if threads
\* end with their turns.
SessionIsHistory ==
    History!Init /\ [][Lingering \/ History!Next \/ UNCHANGED History!hvars]_storeVars

\* A row that a committed undo or clear has removed never comes back, if threads
\* end with their turns.
UndoneStaysUndone == Lingering \/ undone \cap ToSet(disk.hist) = {}

\* The title is what was last asked for: no other save brings an old one back,
\* unless rows were undone and the thread of a cancelled turn still saves what
\* its agent, replaced after that rewrite, knew before it.
TitleIsEdited ==
    [][disk'.title # disk.title
       => \/ \E p \in Procs : job[p].op = "title" /\ job[p].title = disk'.title
          \/ undone # {} /\ \E s \in Slots : agent[s].late]_storeVars

\* A rewrite or a deletion happens at the revision the client has confirmed, if
\* threads end with their turns.
RemovedAsConfirmed ==
    [][~Lingering /\ (Len(disk'.hist) < Len(disk.hist) \/ (disk'.deleted /\ ~disk.deleted))
       => \E p \in Procs : job[p].op \in {"undo", "delete"} /\ offer[p] = disk.rev]_storeVars

\* What was undone stays so, in a store whose every part is well formed.
StoreIsSound == StoreTypes /\ UndoneStaysUndone

\* Titles and rows change only as somebody asked who knew what they were.
ChangesAreAskedFor == TitleIsEdited /\ RemovedAsConfirmed

\* Two processes that save one session in turn lose nothing to each other and
\* change nothing that was not asked for.
SharedWritesAgree == SessionIsHistory /\ ChangesAreAskedFor
=============================================================================
