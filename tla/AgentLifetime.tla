--------------------------- MODULE AgentLifetime ---------------------------
(***************************************************************************)
(* The life of one RepoAgent on its event loop (repoagent/runtime.py):     *)
(* callers that ask, the lazy start of the memory backend, the scheduler   *)
(* that is made for them, aclose() and the asks that come after it.  The   *)
(* backend is the one of sqlite_memory.py, whose file agents of other      *)
(* processes share; its operations run in threads, under a lock of their   *)
(* own and in one transaction each, while the loop goes on.  A task that   *)
(* is cancelled while it awaits such a thread leaves the thread behind.    *)
(* How a turn runs is AgentTurn's and how turns queue is SpineScheduler's. *)
(***************************************************************************)
EXTENDS Naturals, Sequences, FiniteSets, SequencesExt

CONSTANTS
  Callers,     \* the tasks that ask
  NoteOf,      \* the text that each caller's turn stores, by its digest
  theirs,      \* the one an agent of another process stores
  MaxRecords,  \* max_records of an owner
  MaxAsks,     \* bound: asks
  MaxCloses,   \* bound: closes
  MaxFailures  \* bound: backend operations that fail

ASSUME LifetimeAssumption ==
  /\ DOMAIN NoteOf = Callers /\ MaxRecords \in Nat \ {0} /\ {MaxAsks, MaxCloses, MaxFailures} \subseteq Nat

VARIABLES
  asking,    \* what each caller awaits
  ended,     \* how its last ask ended
  flagged,   \* _memory_backend_started
  backendUp, \* the backend's _started
  stray,     \* the threads of start() and stop() whose tasks were cancelled
  mishaps,   \* history: what has come between the flag and the backend
  lane,      \* the scheduler: none, open, draining
  closing,   \* what the closer awaits
  crossed,   \* history: somebody has asked or was starting the backend during a close
  watching,  \* the skill watcher's thread runs
  memories,  \* the owner's records, the last seen at the end
  turnSaved, \* history: callers whose turn's store was committed
  askCount, closes, failed

lifeVars == <<asking, ended, flagged, backendUp, stray, mishaps, lane, closing, crossed,
              watching, memories, turnSaved, askCount, closes, failed>>
bounds == <<askCount, closes, failed>>
strayVars == <<stray, mishaps>>
closeVars == <<lane, closing, crossed, watching>>

AtRest == "rest"
OnTurn == {"recall", "loop", "store"}

LifeInit ==
  /\ asking = [c \in Callers |-> AtRest] /\ ended = [c \in Callers |-> "unanswered"]
  /\ flagged = FALSE /\ backendUp = FALSE /\ lane = "none" /\ closing = AtRest
  /\ stray = [start |-> 0, stop |-> 0] /\ mishaps = {}
  /\ crossed = FALSE /\ watching = FALSE /\ memories = <<>> /\ turnSaved = {}
  /\ askCount = 0 /\ closes = 0 /\ failed = 0

Await(c, place) == asking' = [asking EXCEPT ![c] = place] /\ UNCHANGED ended
End(c, how) == asking' = [asking EXCEPT ![c] = AtRest] /\ ended' = [ended EXCEPT ![c] = how]
MayFail == failed < MaxFailures /\ failed' = failed + 1 /\ UNCHANGED <<askCount, closes>>

Note(what, happens) == mishaps' = IF happens THEN mishaps \cup {what} ELSE mishaps
Relied == flagged \/ \E c \in Callers : asking[c] = "started"

---------------------------------------------------------------------------
(* ask_async                                                               *)

\* Scheduler.submit, of a scheduler that is made when there is none.
Submit(c) ==
  IF lane = "draining" THEN End(c, "unanswered") /\ UNCHANGED lane
  ELSE Await(c, "queued") /\ lane' = "open"

\* Up to the first await: the check of the flag, and what follows it.
Ask(c) ==
  /\ asking[c] = AtRest /\ askCount < MaxAsks
  /\ askCount' = askCount + 1 /\ crossed' = (crossed \/ closing # AtRest)
  /\ IF flagged THEN Submit(c) ELSE Await(c, "start") /\ UNCHANGED lane
  /\ turnSaved' = turnSaved \ {c}
  /\ UNCHANGED <<flagged, backendUp, strayVars, closing, watching, memories, closes,
                 failed>>

\* SQLiteMemoryBackend._start in its thread, and how it ends.
StartBackend(c) ==
  /\ asking[c] = "start"
  /\ \/ Await(c, "started") /\ backendUp' = TRUE /\ UNCHANGED bounds
     \/ MayFail /\ Await(c, "failed") /\ UNCHANGED backendUp
  /\ UNCHANGED <<flagged, strayVars, closeVars, memories, turnSaved>>

\* The task is cancelled: its thread may never run or still does, and either
\* way what it may have started is stopped.
CancelStart(c) ==
  /\ asking[c] \in {"start", "started"} /\ Await(c, "failed")
  /\ stray' \in {stray} \cup (IF asking[c] = "start"
                              THEN {[stray EXCEPT !.start = @ + 1]} ELSE {})
  /\ UNCHANGED <<flagged, backendUp, mishaps, closeVars, memories, turnSaved, bounds>>

\* Faulty: the caller gets its error and nothing is stopped.
FaultyStopFailedStart(c) ==
  /\ asking[c] = "failed" /\ End(c, "unanswered")
  /\ UNCHANGED <<flagged, backendUp, strayVars, closeVars, memories, turnSaved, bounds>>

\* A start that failed may still own something: stop() is called, whatever
\* another caller has started meanwhile, and whether it raises or not the
\* caller gets the error, or its cancellation.
StopFailedStart(c) ==
  /\ asking[c] = "failed" /\ End(c, "unanswered")
  /\ \/ backendUp' = FALSE /\ Note("stopped under another", backendUp /\ Relied)
        /\ UNCHANGED bounds
     \/ MayFail /\ Note("left up", backendUp /\ ~flagged) /\ UNCHANGED backendUp
  /\ UNCHANGED <<flagged, stray, closeVars, memories, turnSaved>>

\* A cancellation while stop() is awaited is not caught.
CancelStop(c) ==
  /\ asking[c] = "failed" /\ End(c, "unanswered")
  /\ stray' \in {stray, [stray EXCEPT !.stop = @ + 1]}
  /\ Note("left up", backendUp /\ ~flagged)
  /\ UNCHANGED <<flagged, backendUp, closeVars, memories, turnSaved, bounds>>

\* The thread of a cancelled task takes effect after all.
LateStart ==
  /\ stray.start > 0 /\ stray' = [stray EXCEPT !.start = @ - 1]
  /\ backendUp' = TRUE /\ Note("left up", ~backendUp)
  /\ UNCHANGED <<asking, ended, flagged, closeVars, memories, turnSaved, bounds>>

LateStop ==
  /\ stray.stop > 0 /\ stray' = [stray EXCEPT !.stop = @ - 1]
  /\ backendUp' = FALSE /\ Note("stopped under another", backendUp /\ Relied)
  /\ UNCHANGED <<asking, ended, flagged, closeVars, memories, turnSaved, bounds>>

Started(c) ==
  /\ asking[c] = "started"
  /\ flagged' = TRUE /\ watching' = TRUE /\ Submit(c)
  /\ UNCHANGED <<backendUp, strayVars, closing, crossed, memories, turnSaved, bounds>>

---------------------------------------------------------------------------
(* The turn, as AgentTurnRunner.run sees the backend                       *)

\* The scheduler's foreground capacity is one.
FaultyLaneFree == TRUE
LaneFree == \A d \in Callers : asking[d] \notin OnTurn
BeginTurn(c) ==
  /\ asking[c] = "queued" /\ lane = "open" /\ LaneFree
  /\ Await(c, "recall")
  /\ UNCHANGED <<flagged, backendUp, strayVars, closeVars, memories, turnSaved, bounds>>

\* A backend that is not started, or fails, fails the turn before the model
\* is called.
Unusable == ~backendUp
Recall(c) ==
  /\ asking[c] = "recall"
  /\ \/ ~Unusable /\ Await(c, "loop") /\ UNCHANGED bounds
     \/ Unusable /\ End(c, "unanswered") /\ UNCHANGED bounds
     \/ MayFail /\ End(c, "unanswered")
  /\ UNCHANGED <<flagged, backendUp, strayVars, closeVars, memories, turnSaved>>

Loop(c) ==
  /\ asking[c] = "loop" /\ (Await(c, "store") \/ End(c, "unanswered"))
  /\ UNCHANGED <<flagged, backendUp, strayVars, closeVars, memories, turnSaved, bounds>>

\* store(): a record of the same digest is seen again, another is added, and
\* beyond max_records the longest unseen goes.
FaultyStored(note) == Append(memories, note)
Stored(note) ==
  LET same == {i \in DOMAIN memories : memories[i] = note}
      others == IF same = {} THEN memories
                ELSE RemoveAt(memories, CHOOSE i \in same : TRUE)
      seen == Append(others, note)
  IN IF Len(seen) > MaxRecords THEN Tail(seen) ELSE seen

Store(c) ==
  /\ asking[c] = "store"
  /\ \/ /\ backendUp /\ End(c, "completed") /\ memories' = Stored(NoteOf[c])
        /\ turnSaved' = turnSaved \cup {c} /\ UNCHANGED bounds
     \/ ~backendUp /\ End(c, "unanswered") /\ UNCHANGED <<memories, turnSaved, bounds>>
     \/ MayFail /\ End(c, "unanswered") /\ UNCHANGED <<memories, turnSaved>>
  /\ UNCHANGED <<flagged, backendUp, strayVars, closeVars>>

\* A turn, queued or running, is cancelled by the drain of the scheduler or
\* by the task that awaits it.
CancelTurn(c) ==
  /\ asking[c] \in OnTurn \cup {"queued"} /\ End(c, "unanswered")
  /\ UNCHANGED <<flagged, backendUp, strayVars, closeVars, memories, turnSaved, bounds>>

---------------------------------------------------------------------------
(* aclose                                                                  *)

CloseBegin ==
  /\ closing = AtRest /\ closes < MaxCloses /\ closes' = closes + 1
  /\ crossed' = (crossed \/ \E c \in Callers : asking[c] \in {"start", "started", "failed"})
  /\ lane' = IF lane = "none" THEN lane ELSE "draining"
  /\ closing' = "drain"
  /\ UNCHANGED <<asking, ended, flagged, backendUp, strayVars, watching, memories,
                 turnSaved, askCount, failed>>

\* shutdown returns once every turn has ended; the scheduler is forgotten and
\* a backend that was started is stopped.
FaultyDrained == TRUE
Drained == \A c \in Callers : asking[c] \notin OnTurn \cup {"queued"}
Forget ==
  /\ closing = "drain" /\ (lane = "none" \/ Drained)
  /\ lane' = "none"
  /\ IF flagged THEN closing' = "stop" /\ UNCHANGED watching
     ELSE closing' = "rest of it" /\ watching' = FALSE
  /\ UNCHANGED <<asking, ended, flagged, backendUp, strayVars, crossed, memories, turnSaved,
                 bounds>>

\* _stop waits for the work that is under way.  When stop() raises, the flag
\* stays, and the rest is closed all the same.
StopBackend ==
  /\ closing = "stop"
  /\ \/ /\ backendUp' = FALSE /\ closing' = "stopped"
        /\ Note("stopped under another",
                backendUp /\ \E c \in Callers : asking[c] = "started")
        /\ UNCHANGED <<watching, bounds>>
     \/ /\ MayFail /\ closing' = "rest of it" /\ watching' = FALSE
        /\ UNCHANGED <<backendUp, mishaps>>
  /\ UNCHANGED <<asking, ended, flagged, stray, lane, crossed, memories, turnSaved>>

\* The flag is cleared, whoever has started the backend since.
Stopped ==
  /\ closing = "stopped"
  /\ flagged' = FALSE /\ watching' = FALSE /\ closing' = "rest of it"
  /\ Note("left up", backendUp)
  /\ UNCHANGED <<asking, ended, backendUp, stray, lane, crossed, memories, turnSaved,
                 bounds>>

\* Plugins, the MCP servers and the sandbox's processes.
CloseEnds ==
  /\ closing = "rest of it" /\ closing' = AtRest
  /\ UNCHANGED <<asking, ended, flagged, backendUp, strayVars, lane, crossed, watching,
                 memories, turnSaved, bounds>>

\* An agent of another process stores in the same file, or forgets the owner.
Others ==
  /\ memories' \in {Stored(theirs), <<>>} /\ memories' # memories
  /\ UNCHANGED <<asking, ended, flagged, backendUp, strayVars, closeVars, turnSaved, bounds>>

CallerStep(c) ==
  \/ StartBackend(c) \/ StopFailedStart(c) \/ Started(c) \/ BeginTurn(c) \/ Recall(c)
  \/ Loop(c) \/ Store(c)
CloserStep == Forget \/ StopBackend \/ Stopped \/ CloseEnds
Draining(c) == lane = "draining" /\ CancelTurn(c)
LifeNext ==
  \/ \E c \in Callers : \/ Ask(c) \/ CallerStep(c)
                         \/ CancelTurn(c) \/ CancelStart(c) \/ CancelStop(c)
  \/ LateStart \/ LateStop \/ CloseBegin \/ CloserStep \/ Others

---------------------------------------------------------------------------
(* Properties                                                              *)

LifeTypes ==
  /\ \A c \in Callers : asking[c] \in OnTurn \cup {"rest", "start", "failed", "started", "queued"}
  /\ {flagged, backendUp, crossed, watching} \subseteq BOOLEAN
  /\ stray \in [start : Nat, stop : Nat] /\ mishaps \subseteq {"left up", "stopped under another"}
  /\ lane \in {"none", "open", "draining"} /\ closing \in {"rest", "drain", "stop", "stopped", "rest of it"}

\* One turn of an agent runs at a time, over however many schedulers its
\* closes leave behind, and none is left in a scheduler that was forgotten.
\* The agent says that a turn completed only when its messages are in the
\* memory ("store failure changes the Turn outcome to failed", the ledger):
\* whoever else starts or stops the backend meanwhile.  Records are kept once
\* and up to the limit, the last stored among them.
LifeIsSound ==
  /\ LifeTypes
  /\ Cardinality({c \in Callers : asking[c] \in OnTurn}) <= 1
  /\ \A c \in Callers : asking[c] \in OnTurn \cup {"queued"} => lane # "none"
  /\ \A c \in Callers : ended[c] = "completed" /\ asking[c] = AtRest => c \in turnSaved
  /\ Len(memories) <= MaxRecords /\ IsInjective(memories)

\* The flag that decides whether the backend is started, and whether it is
\* stopped, tells the truth, except where one of two things has happened.  The
\* backend is up behind its back ("left up"): a start came after its task was
\* cancelled or after the stop of a close, or the stop of a failed start was
\* itself cancelled or failed.  It is down although it is relied on ("stopped
\* under another"): a failed or cancelled start, or a close, stopped what another
\* ask had started.  The skills' watcher never runs without the flag.
FlagIsTrue ==
  /\ backendUp /\ ~flagged =>
       \/ \E c \in Callers : asking[c] \in {"started", "failed"}
       \/ "left up" \in mishaps
  /\ flagged /\ ~backendUp =>
       closing = "stopped" \/ "stopped under another" \in mishaps
  /\ watching => flagged

\* A close that nobody's ask came across leaves no scheduler and no turn behind,
\* and no backend unless its own stop failed or something was left up.
CloseReleases ==
  closing = "rest of it" /\ ~crossed =>
    /\ lane = "none" /\ \A c \in Callers : asking[c] = AtRest
    /\ backendUp => flagged \/ "left up" \in mishaps

LifeHolds == LifeIsSound /\ FlagIsTrue /\ CloseReleases

\* When nothing is under way the flag and the backend agree, as "runtime startup
\* and shutdown own backend lifecycle" (the ledger).  They need not: what was left
\* up nobody stops, and without a backend that was stopped every turn fails until
\* the agent is closed.
NothingIsUnderWay ==
  /\ \A c \in Callers : asking[c] = AtRest
  /\ closing = AtRest /\ stray = [start |-> 0, stop |-> 0]
FlagAgrees == NothingIsUnderWay => (flagged <=> backendUp)

\* Every ask ends, with an answer or without, and so does a close, whoever
\* fails and whatever is cancelled.
AskWaits(c) == asking[c] # AtRest
CloseWaits == closing # AtRest
=============================================================================
