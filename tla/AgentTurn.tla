------------------------------ MODULE AgentTurn ------------------------------
(***************************************************************************)
(* The turns of one session as its agent lives them.  AgentTurnRunner.run  *)
(* is a coroutine; it starts AgentLoop.run on a thread of its own, waits   *)
(* for it, and when it is cancelled sets the thread's token and waits two  *)
(* seconds more.  The threads of successive turns share the agent: the     *)
(* session's history, and current_task_state, the record of the turn that  *)
(* was created last.  The scheduler starts a turn when the one before it   *)
(* was answered (SpineScheduler), which is not when its thread ended.      *)
(* A definition named Faulty... is a later one with a mistake planted.     *)
(***************************************************************************)
EXTENDS Integers, Sequences, FiniteSets, SequencesExt

CONSTANTS
  MaxTurns,  \* bound: the turns of any session
  AgentSettings   \* what an agent may have been launched with

VARIABLE agent   \* the settings of this one; a step never changes them

LastTurn == agent.turns      \* bound: the turns of this session
Native == agent.native       \* tool calls and history are structured messages
MaxSteps == agent.steps      \* max_steps: tool calls of a turn
MaxCalls == agent.calls      \* max_provider_calls of a turn, 0: no limit
Candidates == agent.candidates    \* providers in the fallback chain
MaxOverflows == agent.overflows   \* OVERFLOW_MAX_COMPRESS_RETRIES
MaxNudges == agent.recoveries     \* RecoveryLimits
MaxPrefills == agent.recoveries
MaxEmpties == 1
KeepRecent == 1                \* OVERFLOW_KEEP_RECENT_TOOL_RESULTS
MaxParallel == 2               \* max_parallel of the tool gateway
MaxReply == 2                  \* bound: tool calls in one reply
MaxCurator == agent.curator  \* bound: the curator's calls in one assembly
MaxInjected == agent.injected     \* bound: messages injected into a turn
Slow == agent.slow           \* a thread may outlive the two seconds
DiskFaults == agent.faults   \* saving may fail

ASSUME AgentAssumption == MaxTurns \in Nat /\ AgentSettings \subseteq
  [turns : 1 .. MaxTurns, native : BOOLEAN, steps : Nat \ {0}, calls : Nat,
   candidates : Nat \ {0}, overflows : Nat, recoveries : Nat, curator : Nat,
   injected : Nat, slow : BOOLEAN, faults : BOOLEAN]

Turns == 1 .. MaxTurns

VARIABLES
  history,    \* session["history"]
  current,    \* the turn current_task_state is of, 0 before the first
  status,     \* TaskState.status of each turn
  steps,      \* TaskState.tool_steps
  attempts,   \* TaskState.attempts
  runner,     \* where each turn's coroutine is
  outcome,    \* what each turn was answered with
  cancelled,  \* turns whose cancellation token is set
  worker,     \* where each turn's thread is
  messages,   \* provider_messages of the thread
  local,      \* its counters, and the tool calls it has yet to execute
  inbox       \* messages injected into the turn and not drained

shared == <<history, current, status>>
task == <<steps, attempts>>
turnVars == <<agent, history, current, status, steps, attempts, runner, outcome,
          cancelled, worker, messages, local, inbox>>

Ids == Turns \X (Nat \ {0}) \X (1 .. MaxReply)
Entries == [role : {"user", "assistant", "tool", "answer"}, turn : Turns,
            ids : Seq(Ids)]
Entry(r, t, ids) == [role |-> r, turn |-> t, ids |-> ids]

Statuses == {"none", "running", "completed", "stopped", "failed"}
RunnerPlaces == {"idle", "recalling", "running", "joining", "storing", "over"}
Outcomes == {"none", "completed", "failed", "cancelled"}
Ended == {"returned", "raised", "cancelled"}
WorkerPlaces == {"none", "starting", "recording", "creating", "top", "request",
                 "model", "tools", "executing", "results", "finish",
                 "exhausted", "synthesis", "stopping"} \cup Ended

Fresh == [calls |-> 0, nudges |-> 0, prefills |-> 0, empties |-> 0,
          overflows |-> 0, elided |-> 0, afterTools |-> FALSE,
          spent |-> FALSE, cut |-> FALSE, todo |-> <<>>, batch |-> <<>>]

AttemptLimit ==
  Max({3 * MaxSteps, MaxSteps + 4,
       MaxSteps + MaxNudges + MaxPrefills + MaxEmpties + 1})

TurnsInit ==
  /\ agent \in AgentSettings
  /\ history = <<>> /\ current = 0
  /\ status = [t \in Turns |-> "none"]
  /\ steps = [t \in Turns |-> 0] /\ attempts = [t \in Turns |-> 0]
  /\ runner = [t \in Turns |-> "idle"]
  /\ outcome = [t \in Turns |-> "none"]
  /\ cancelled = {}
  /\ worker = [t \in Turns |-> "none"]
  /\ messages = [t \in Turns |-> <<>>]
  /\ local = [t \in Turns |-> Fresh]
  /\ inbox = [t \in Turns |-> 0]

-----------------------------------------------------------------------------
(* The thread's control.  A step that saves may raise once it has changed  *)
(* what is in memory.                                                      *)
Proceeds(t, from, to) ==
  worker[t] = from /\ worker' = [worker EXCEPT ![t] = to]

Saving(t, from, to) ==
  \/ Proceeds(t, from, to)
  \/ DiskFaults /\ Proceeds(t, from, "raised")

Record(entry) == history' = Append(history, entry)

(* messages and history both, when messages are structured *)
Converse(t, entry) ==
  messages' = [messages EXCEPT ![t] = IF Native THEN Append(@, entry) ELSE @]

Begin(t) ==
  /\ Proceeds(t, "starting", IF t \in cancelled THEN "cancelled" ELSE "recording")
  /\ UNCHANGED <<shared, task, runner, outcome, cancelled, messages, local, inbox>>

RecordUser(t) ==
  /\ Saving(t, "recording", "creating")
  /\ Record(Entry("user", t, <<>>))
  /\ UNCHANGED <<current, status, task, runner, outcome, cancelled, messages,
                 local, inbox>>

CreateState(t) ==
  /\ Saving(t, "creating", "top")
  /\ current' = t
  /\ status' = [status EXCEPT ![t] = "running"]
  /\ UNCHANGED <<history, task, runner, outcome, cancelled, messages, local, inbox>>

Unlimited == MaxCalls = 0
LimitReached(t) == ~Unlimited /\ local[t].calls >= MaxCalls

(* The condition of the loop. *)
MayContinue(t) ==
  /\ steps[t] < MaxSteps
  /\ attempts[t] < AttemptLimit
  /\ ~LimitReached(t)

LoopTop(t) ==
  /\ \/ MayContinue(t) /\ t \notin cancelled /\ Proceeds(t, "top", "request")
     \/ MayContinue(t) /\ t \in cancelled /\ Proceeds(t, "top", "cancelled")
     \/ ~MayContinue(t) /\ Proceeds(t, "top", "exhausted")
  /\ UNCHANGED <<shared, task, runner, outcome, cancelled, messages, local, inbox>>

(* invoke_curator: calls made while the first context is assembled. *)
CuratorCalls(t) ==
  IF Native /\ attempts[t] = 0
  THEN {n \in 0 .. MaxCurator : Unlimited \/ n = 0 \/ n <= MaxCalls - 1}
  ELSE {0}

(* The first attempt replays what the session remembered before this      *)
(* turn's own message; later ones add what was injected since.             *)
Replayed(t) ==
  IF Native THEN Front(history) \o <<Entry("user", t, <<>>)>>
            ELSE <<Entry("user", t, <<>>)>>

Request(t) ==
  LET drained == [i \in 1 .. inbox[t] |-> Entry("user", t, <<>>)]
  IN /\ attempts[t] = 0 \/ t \notin cancelled
     /\ Saving(t, "request", "model")
     /\ IF attempts[t] = 0
        THEN /\ messages' = [messages EXCEPT ![t] = Replayed(t)]
             /\ UNCHANGED <<history, inbox>>
        ELSE /\ messages' = [messages EXCEPT ![t] = IF Native THEN @ \o drained ELSE @]
             /\ history' = history \o drained
             /\ inbox' = [inbox EXCEPT ![t] = 0]
     /\ attempts' = [attempts EXCEPT ![t] = @ + 1]
     /\ \E n \in CuratorCalls(t) : local' = [local EXCEPT ![t].calls = @ + n]
     /\ UNCHANGED <<current, status, steps, runner, outcome, cancelled>>

DrainCancelled(t) ==
  /\ attempts[t] > 0 /\ t \in cancelled
  /\ Proceeds(t, "request", "cancelled")
  /\ UNCHANGED <<shared, task, runner, outcome, cancelled, messages, local, inbox>>

-----------------------------------------------------------------------------
(* One model request.  Every provider the chain tried is recorded as a     *)
(* call.  A set token is noticed before a reply is returned.               *)
Called(t, n) == [local[t] EXCEPT !.calls = @ + n]

ModelCancelled(t) ==
  /\ t \in cancelled
  /\ Proceeds(t, "model", "cancelled")
  /\ local' = [local EXCEPT ![t] = Called(t, 1)]
  /\ UNCHANGED <<shared, task, runner, outcome, cancelled, messages, inbox>>

ModelFails(t) ==
  /\ Proceeds(t, "model", "raised")
  /\ \E n \in 1 .. Candidates : local' = [local EXCEPT ![t] = Called(t, n)]
  /\ UNCHANGED <<shared, task, runner, outcome, cancelled, messages, inbox>>

ToolResults(entries) == Cardinality({i \in DOMAIN entries : entries[i].role = "tool"})

(* emergency_shrink: how many tool results may be elided in all; a text    *)
(* prompt is shrunk from the whole history at once, and only once.         *)
Elidable(t) ==
  IF Native THEN ToolResults(messages[t]) - KeepRecent
  ELSE IF local[t].elided > 0 THEN 0 ELSE ToolResults(history) - KeepRecent

(* should_compress: the request is made again with less in it. *)
Overflow(t) ==
  /\ local[t].overflows < MaxOverflows
  /\ Elidable(t) > local[t].elided
  /\ Proceeds(t, "model", "top")
  /\ \E n \in 1 .. Candidates :
       local' = [local EXCEPT ![t] = [Called(t, n) EXCEPT !.overflows = @ + 1,
                                                          !.elided = Elidable(t)]]
  /\ UNCHANGED <<shared, task, runner, outcome, cancelled, messages, inbox>>

(* A reply with nothing visible in it: classify_empty_response. *)
Recovery(t, thinking) ==
  IF thinking /\ local[t].prefills < MaxPrefills THEN "prefill"
  ELSE IF local[t].afterTools /\ ~thinking /\ local[t].nudges < MaxNudges THEN "nudge"
  ELSE IF local[t].empties < MaxEmpties THEN "retry"
  ELSE "complete"

EmptyReply(t) ==
  \E thinking \in BOOLEAN, n \in 1 .. Candidates :
    LET action == Recovery(t, thinking)
        called == [Called(t, n) EXCEPT !.afterTools = FALSE]
    IN /\ t \notin cancelled
       /\ local' = [local EXCEPT ![t] =
            CASE action = "prefill"  -> [called EXCEPT !.prefills = @ + 1]
              [] action = "nudge"    -> [called EXCEPT !.nudges = @ + 1]
              [] action = "retry"    -> [called EXCEPT !.empties = @ + 1]
              [] action = "complete" -> [Called(t, n) EXCEPT !.spent = TRUE]]
       /\ messages' = [messages EXCEPT ![t] = @ \o
            CASE action = "prefill" -> <<Entry("assistant", t, <<>>)>>
              [] action = "nudge" -> <<Entry("assistant", t, <<>>), Entry("user", t, <<>>)>>
              [] OTHER -> <<>>]
       /\ Proceeds(t, "model", IF action = "complete" THEN "exhausted" ELSE "top")
       /\ UNCHANGED <<shared, task, runner, outcome, cancelled, inbox>>

FaultyPrepared(calls, room) == calls

(* Calls beyond the steps that remain are not prepared. *)
Prepared(calls, room) == SubSeq(calls, 1, Min({Len(calls), room}))

FaultyRemembered(calls, prepared) == calls

(* native_calls: what was not prepared is not part of the conversation.    *)
Remembered(calls, prepared) ==
  LET kept[i \in 0 .. Len(calls)] ==
        IF i = 0 THEN <<>>
        ELSE IF calls[i] \in ToSet(prepared) THEN Append(kept[i - 1], calls[i])
        ELSE kept[i - 1]
  IN kept[Len(calls)]

ToolReply(t) ==
  \E n \in 1 .. MaxReply, m \in 1 .. Candidates :
    LET calls == [k \in 1 .. n |-> <<t, attempts[t], k>>]
        ids == Prepared(calls, MaxSteps - steps[t])
        entry == Entry("assistant", t, Remembered(calls, ids))
    IN /\ t \notin cancelled
       /\ IF Native THEN Saving(t, "model", "tools") /\ Record(entry)
                    ELSE Proceeds(t, "model", "tools") /\ UNCHANGED history
       /\ Converse(t, entry)
       /\ local' = [local EXCEPT ![t] = [Called(t, m) EXCEPT !.todo = ids]]
       /\ UNCHANGED <<current, status, task, runner, outcome, cancelled, inbox>>

(* Text that parses neither as a tool call nor as an answer. *)
Malformed(t) ==
  /\ ~Native /\ t \notin cancelled
  /\ Saving(t, "model", "top")
  /\ Record(Entry("assistant", t, <<>>))
  /\ \E n \in 1 .. Candidates :
       local' = [local EXCEPT ![t] = [Called(t, n) EXCEPT !.afterTools = FALSE]]
  /\ UNCHANGED <<current, status, task, runner, outcome, cancelled, messages, inbox>>

FinalReply(t) ==
  /\ t \notin cancelled
  /\ Proceeds(t, "model", "finish")
  /\ \E n \in 1 .. Candidates : local' = [local EXCEPT ![t] = Called(t, n)]
  /\ UNCHANGED <<shared, task, runner, outcome, cancelled, messages, inbox>>

-----------------------------------------------------------------------------
(* The tool calls of a reply, batch by batch. *)
BeginBatch(t) ==
  /\ local[t].todo # <<>> /\ t \notin cancelled
  /\ Saving(t, "tools", "executing")
  /\ \E n \in 1 .. Min({MaxParallel, Len(local[t].todo)}) :
       /\ steps' = [steps EXCEPT ![t] = @ + n]
       /\ local' = [local EXCEPT ![t].batch = SubSeq(local[t].todo, 1, n),
                                 ![t].todo = SubSeq(@, n + 1, Len(@))]
  /\ UNCHANGED <<shared, attempts, runner, outcome, cancelled, messages, inbox>>

BatchCancelled(t) ==
  /\ local[t].todo # <<>> /\ t \in cancelled
  /\ Proceeds(t, "tools", "cancelled")
  /\ UNCHANGED <<shared, task, runner, outcome, cancelled, messages, local, inbox>>

(* execute_tool_batch returns a result for every call; once the token is   *)
(* set, a result may say that its call was cancelled.                      *)
Execute(t) ==
  /\ Proceeds(t, "executing", "results")
  /\ \E cut \in IF t \in cancelled THEN BOOLEAN ELSE {FALSE} :
       local' = [local EXCEPT ![t].cut = cut]
  /\ UNCHANGED <<shared, task, runner, outcome, cancelled, messages, inbox>>

RecordResult(t) ==
  /\ local[t].batch # <<>>
  /\ Saving(t, "results", "results")
  /\ Record(Entry("tool", t, <<Head(local[t].batch)>>))
  /\ Converse(t, Entry("tool", t, <<Head(local[t].batch)>>))
  /\ local' = [local EXCEPT ![t].batch = Tail(@)]
  /\ UNCHANGED <<current, status, task, runner, outcome, cancelled, inbox>>

FaultyEndBatch(t) ==
  /\ local[t].batch = <<>> \/ local[t].cut
  /\ IF local[t].cut
     THEN /\ Proceeds(t, "results", "cancelled")
          /\ status' = [status EXCEPT ![t] = "stopped"]
     ELSE /\ Proceeds(t, "results", "tools")
          /\ UNCHANGED status
  /\ UNCHANGED <<history, current, task, runner, outcome, cancelled, messages,
                 local, inbox>>

EndBatch(t) ==
  /\ local[t].batch = <<>>
  /\ IF local[t].cut
     THEN /\ Proceeds(t, "results", "cancelled")
          /\ status' = [status EXCEPT ![t] = "stopped"]
     ELSE /\ Proceeds(t, "results", "tools")
          /\ UNCHANGED status
  /\ UNCHANGED <<history, current, task, runner, outcome, cancelled, messages,
                 local, inbox>>

EndTools(t) ==
  /\ local[t].todo = <<>>
  /\ Proceeds(t, "tools", "top")
  /\ local' = [local EXCEPT ![t].afterTools = TRUE]
  /\ UNCHANGED <<shared, task, runner, outcome, cancelled, messages, inbox>>

-----------------------------------------------------------------------------
(* How the loop ends. *)
Answer(t) == Record(Entry("answer", t, <<>>))

Finish(t) ==
  \/ /\ t \notin cancelled
     /\ Answer(t)
     /\ \/ /\ Proceeds(t, "finish", "returned")
           /\ status' = [status EXCEPT ![t] = "completed"]
        \/ /\ DiskFaults
           /\ Proceeds(t, "finish", "raised")
           /\ status' \in {status, [status EXCEPT ![t] = "completed"]}
     /\ UNCHANGED <<current, task, runner, outcome, cancelled, messages, local, inbox>>
  \/ /\ t \in cancelled
     /\ Proceeds(t, "finish", "cancelled")
     /\ UNCHANGED <<shared, task, runner, outcome, cancelled, messages, local, inbox>>

FaultySynthesizes(t) == ~local[t].spent /\ steps[t] >= MaxSteps

(* Only a turn that used up its steps, and has a call left, asks the model *)
(* for a last summary.                                                     *)
Synthesizes(t) ==
  /\ ~local[t].spent /\ ~LimitReached(t)
  /\ attempts[t] < AttemptLimit \/ steps[t] >= MaxSteps

Exhausted(t) ==
  /\ \/ /\ Synthesizes(t)
        /\ Saving(t, "exhausted", "synthesis")
        /\ attempts' = [attempts EXCEPT ![t] = @ + 1]
        /\ UNCHANGED status
     \/ /\ ~Synthesizes(t)
        /\ Proceeds(t, "exhausted", "stopping")
        /\ status' = [status EXCEPT ![t] = "stopped"]
        /\ UNCHANGED attempts
  /\ UNCHANGED <<history, current, steps, runner, outcome, cancelled, messages,
                 local, inbox>>

(* synthesize_final_on_exhaustion: a failed call leaves a fixed answer. *)
Synthesis(t) ==
  \E n \in 1 .. Candidates :
    /\ local' = [local EXCEPT ![t] = Called(t, n)]
    /\ \/ /\ t \in cancelled /\ n = 1
          /\ Proceeds(t, "synthesis", "cancelled")
          /\ UNCHANGED status
       \/ /\ t \notin cancelled \/ n = 1
          /\ Proceeds(t, "synthesis", "stopping")
          /\ status' = [status EXCEPT ![t] = "stopped"]
    /\ UNCHANGED <<history, current, task, runner, outcome, cancelled, messages, inbox>>

FaultyStopLoop(t) ==
  /\ Saving(t, "stopping", "returned")
  /\ UNCHANGED <<history, current, status, task, runner, outcome, cancelled,
                 messages, local, inbox>>

StopLoop(t) ==
  /\ Saving(t, "stopping", "returned")
  /\ Answer(t)
  /\ UNCHANGED <<current, status, task, runner, outcome, cancelled, messages,
                 local, inbox>>

WorkerStep(t) ==
  /\ UNCHANGED agent
  /\ \/ Begin(t) \/ RecordUser(t) \/ CreateState(t) \/ LoopTop(t)
     \/ Request(t) \/ DrainCancelled(t)
     \/ ModelCancelled(t) \/ ModelFails(t) \/ Overflow(t) \/ EmptyReply(t)
     \/ ToolReply(t) \/ Malformed(t) \/ FinalReply(t)
     \/ BeginBatch(t) \/ BatchCancelled(t) \/ Execute(t) \/ RecordResult(t)
     \/ EndBatch(t) \/ EndTools(t)
     \/ Finish(t) \/ Exhausted(t) \/ Synthesis(t) \/ StopLoop(t)

-----------------------------------------------------------------------------
(* AgentTurnRunner.run *)
Move(t, from, to) ==
  runner[t] = from /\ runner' = [runner EXCEPT ![t] = to]

Ends(t, from, o) ==
  /\ Move(t, from, "over")
  /\ outcome' = [outcome EXCEPT ![t] = o]

(* The scheduler starts a turn when the one before it was answered. *)
StartTurn(t) ==
  /\ t <= LastTurn /\ \A u \in Turns : u < t => outcome[u] # "none"
  /\ Move(t, "idle", "recalling")
  /\ UNCHANGED <<shared, task, outcome, cancelled, worker, messages, local, inbox>>

Recalled(t) ==
  /\ \/ /\ Move(t, "recalling", "running")
        /\ Proceeds(t, "none", "starting")
        /\ UNCHANGED outcome
     \/ /\ DiskFaults
        /\ Ends(t, "recalling", "failed")
        /\ UNCHANGED worker
  /\ UNCHANGED <<shared, task, cancelled, messages, local, inbox>>

(* A message for the running turn: drained by the loop, or left to the     *)
(* scheduler when the turn ends first.                                     *)
Inject(t) ==
  /\ runner[t] = "running" /\ inbox[t] < MaxInjected
  /\ inbox' = [inbox EXCEPT ![t] = @ + 1]
  /\ UNCHANGED <<shared, task, runner, outcome, cancelled, worker, messages, local>>

Cancel(t) ==
  /\ \/ /\ Move(t, "running", "joining")
        /\ cancelled' = cancelled \cup {t}
        /\ UNCHANGED outcome
     \/ /\ \E from \in {"recalling", "storing"} : Ends(t, from, "cancelled")
        /\ UNCHANGED cancelled
  /\ UNCHANGED <<shared, task, worker, messages, local, inbox>>

FaultyNoSettle == status

FaultySettleRunning ==
  [u \in Turns |-> IF u = current THEN "stopped" ELSE status[u]]

(* What a cancelled turn leaves in current_task_state, whose it may be.    *)
SettleRunning ==
  [u \in Turns |-> IF u = current /\ status[u] = "running" THEN "stopped" ELSE status[u]]

FaultyJoin(t) ==
  /\ Ends(t, "joining", "cancelled")
  /\ status' = SettleRunning
  /\ UNCHANGED <<history, current, task, cancelled, worker, messages, local, inbox>>

Join(t) ==
  /\ worker[t] \in Ended \/ Slow
  /\ Ends(t, "joining", "cancelled")
  /\ status' = SettleRunning
  /\ UNCHANGED <<history, current, task, cancelled, worker, messages, local, inbox>>

FaultyFailed(t) ==
  /\ worker[t] = "raised" /\ current # 0
  /\ Ends(t, "running", "failed")
  /\ status' = [u \in Turns |-> IF u = current THEN "failed" ELSE status[u]]
  /\ UNCHANGED <<history, current, task, cancelled, worker, messages, local, inbox>>

(* An exception of the thread is written into current_task_state. *)
Failed(t) ==
  /\ worker[t] = "raised"
  /\ Ends(t, "running", "failed")
  /\ status' = [u \in Turns |-> IF u = current THEN "failed" ELSE status[u]]
  /\ UNCHANGED <<history, current, task, cancelled, worker, messages, local, inbox>>

Returned(t) ==
  /\ worker[t] = "returned"
  /\ Move(t, "running", "storing")
  /\ UNCHANGED <<shared, task, outcome, cancelled, worker, messages, local, inbox>>

(* backend.store, and what follows it *)
Store(t) ==
  /\ \/ Ends(t, "storing", "completed")
     \/ DiskFaults /\ Ends(t, "storing", "failed")
  /\ UNCHANGED <<shared, task, cancelled, worker, messages, local, inbox>>

RunnerStep(t) ==
  /\ UNCHANGED agent
  /\ \/ StartTurn(t) \/ Recalled(t) \/ Join(t) \/ Failed(t) \/ Returned(t) \/ Store(t)

(* What comes from outside. *)
Interfere(t) == UNCHANGED agent /\ (Inject(t) \/ Cancel(t))

Done ==
  /\ \A t \in 1 .. LastTurn : runner[t] = "over" /\ worker[t] \in Ended \cup {"none"}
  /\ UNCHANGED turnVars

TurnsNext ==
  \/ \E t \in Turns : WorkerStep(t) \/ RunnerStep(t) \/ Interfere(t)
  \/ Done

TurnsSpec == TurnsInit /\ [][TurnsNext]_turnVars

(* A thread runs on; model calls and tools have timeouts of their own; the *)
(* event loop goes on, and the scheduler starts the next turn.             *)
FairSpec ==
  /\ TurnsSpec
  /\ \A t \in Turns : WF_turnVars(WorkerStep(t)) /\ WF_turnVars(RunnerStep(t))

-----------------------------------------------------------------------------
LocalOK(l) ==
  /\ l.calls \in Nat /\ l.nudges \in 0 .. MaxNudges
  /\ l.prefills \in 0 .. MaxPrefills /\ l.empties \in 0 .. MaxEmpties
  /\ l.overflows \in 0 .. MaxOverflows /\ l.elided \in Nat
  /\ {l.afterTools, l.spent, l.cut} \subseteq BOOLEAN
  /\ ToSet(l.todo) \cup ToSet(l.batch) \subseteq Ids
  /\ Len(l.batch) <= MaxParallel

(* Every variable keeps its type; the counters of the loop's recoveries    *)
(* stay within their limits and a batch within the gateway's parallelism.  *)
TurnsTypeOK ==
  /\ agent \in AgentSettings
  /\ ToSet(history) \subseteq Entries
  /\ current \in Turns \cup {0}
  /\ status \in [Turns -> Statuses]
  /\ steps \in [Turns -> 0 .. MaxSteps]
  /\ attempts \in [Turns -> 0 .. AttemptLimit + 1]
  /\ runner \in [Turns -> RunnerPlaces] /\ outcome \in [Turns -> Outcomes]
  /\ cancelled \subseteq Turns
  /\ worker \in [Turns -> WorkerPlaces]
  /\ \A t \in Turns : ToSet(messages[t]) \subseteq Entries /\ LocalOK(local[t])
  /\ inbox \in [Turns -> 0 .. MaxInjected]

Calls(e) == IF e.role = "assistant" THEN e.ids ELSE <<>>

(* What a provider accepts: the calls of an assistant's message are        *)
(* answered by the messages that follow it, and no result stands anywhere  *)
(* else.                                                                   *)
Paired(s) ==
  /\ \A i \in DOMAIN s : \A id \in ToSet(Calls(s[i])) :
       \E j \in DOMAIN s : /\ i < j /\ j - i <= Len(Calls(s[i]))
                          /\ s[j].role = "tool" /\ s[j].ids = <<id>>
  /\ \A j \in DOMAIN s : s[j].role = "tool" =>
       \E i \in DOMAIN s : i < j /\ j - i <= Len(Calls(s[i]))

(* Every request of the loop, and the one for a last summary, shows the    *)
(* provider each tool call with its result, whatever was cut off, batched, *)
(* recovered or injected before it; the turns before it are replayed too,  *)
(* when none of them was broken off and none of their threads lives on.    *)
RequestsArePaired ==
  ~Slow => \A t \in Turns :
    /\ Native /\ worker[t] \in {"model", "synthesis"}
    /\ \A u \in 1 .. t - 1 : worker[u] = "returned"
    => Paired(messages[t])

(* The same of every request, whatever became of the turns before it.      *)
EveryRequestIsPaired ==
  \A t \in Turns :
    Native /\ worker[t] \in {"model", "synthesis"} => Paired(messages[t])

ResultsOf(t) == Cardinality({i \in DOMAIN history : history[i].role = "tool" /\ history[i].turn = t})

(* A tool that was started has its result in the session when the thread   *)
(* ends, a cancellation in the middle of the batch included: the session   *)
(* never forgets an effect.                                                *)
StartedToolsAreRecorded ==
  \A t \in Turns : worker[t] \in Ended \ {"raised"} => ResultsOf(t) = steps[t]

(* max_provider_calls bounds what a turn spends, recoveries, the curator   *)
(* and the last summary included; only the providers that a chain tries    *)
(* within one last request may exceed it.                                  *)
CallsWithinLimit ==
  \A t \in Turns : Unlimited \/ local[t].calls <= MaxCalls + Candidates - 1

(* When a turn was answered and its thread has ended, its task state says  *)
(* how it ended: if saving works, and threads end when they are told to.   *)
NothingLeftRunning ==
  ~Slow /\ ~DiskFaults => \A t \in Turns :
    outcome[t] # "none" /\ worker[t] \in Ended \cup {"none"} => status[t] # "running"

(* An answer given as completed is the session's last word on its turn,    *)
(* and stands after what the turn asked and did.                           *)
AnswerClosesTurn ==
  \A t \in Turns : outcome[t] = "completed" =>
    LET mine == {i \in DOMAIN history : history[i].turn = t}
    IN /\ \E i \in mine : history[i].role = "user" /\ \A j \in mine : i <= j
       /\ \E i \in mine : history[i].role = "answer" /\ \A j \in mine : j <= i
       /\ DiskFaults \/ status[t] \in {"completed", "stopped"}

(* The session tells its turns one after the other, if threads end when    *)
(* they are told to.                                                       *)
TurnsApart ==
  ~Slow => \A i, j \in DOMAIN history : i < j => history[i].turn <= history[j].turn

(* The session is sound: what is sent of it is well formed, no effect is   *)
(* missing in it, its turns follow one another, and a completed one ends   *)
(* with its answer.                                                        *)
SessionIsSound ==
  RequestsArePaired /\ StartedToolsAreRecorded /\ TurnsApart /\ AnswerClosesTurn

(* A turn is accounted for: it stays within its budgets, and its task      *)
(* state says that it ended.                                               *)
TurnIsAccounted == TurnsTypeOK /\ CallsWithinLimit /\ NothingLeftRunning

(* Whatever is cancelled, fails to save or runs on in a late thread, the   *)
(* turns leave a session the next one can send, within their budgets.      *)
TurnsAreSound == SessionIsSound /\ TurnIsAccounted

(* The task state of a turn answered as completed is not rewritten by what *)
(* happens to a later turn, if saving works: by a thread of a turn long    *)
(* cancelled, by its runner, or by the settling of another turn.           *)
CompletedStands ==
  [][~DiskFaults =>
       \A t \in Turns : outcome[t] = "completed" => status'[t] = status[t]]_turnVars

(* Every turn that was started is answered, however often it recovers from *)
(* empty replies, overflows and failing tools.                             *)
EveryTurnAnswered == \A t \in Turns : <>(t <= LastTurn => outcome[t] # "none")
=============================================================================
