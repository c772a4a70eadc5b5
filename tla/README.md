# RepoAgent in TLA+

RepoAgent is a local coding agent: a loop that calls a language model and runs
its tools, a scheduler that serializes the turns of each conversation, durable
records of what happened, and several ways in (a terminal, a gateway with a
directory channel, scheduled jobs). Beside it stand paid evaluations and an
evolver, which searches for better strategies and puts them in use. This
directory holds a specification of all that keeps state over more than one step,
checked with TLC and, where stated, proved with TLAPS.

The modules are translated from the Python source; `PROJECT.json` maps each
definition to the lines it models. Contents:

1. The system: components, state, operations, interactions, hard behaviours
2. The modules and how they correspond to the code
3. The runs: what they check, bounds, fairness
4. The proofs
5. Where code and documents disagree
6. What is not modelled, and the plan

## 1. The system

### Components and how they interact

    terminal (tui_rpc)   gateway (channel)   cron
            \                 |               /
             `---- RuntimeHost / Scheduler --'          spine/scheduler.py
                          |          \
                    TurnRuntime ---- RunStore           spine/runtime.py, run_store.py
                          |
                  AgentTurnRunner  (one thread per turn)
                          |
                     AgentLoop ---- SessionStore        agent_loop.py, session_store.py
                          |
                     ToolGateway ---- approval ---- operator's prompt
                          |
              bounded processes, persistent sandbox, MCP, files

One asyncio loop runs the scheduler, the gateway and the terminal's frames. A
turn's agent loop runs in a worker thread, and so do the calls of a parallel
batch and the callbacks of a cancellation. Several processes may share a state
directory; they meet only in files and file locks.

| Component | State it keeps | Operations | Reached by | What is hard | What makes it correct |
|---|---|---|---|---|---|
| Session scheduler | per session a queue, a mailbox, a worker and a task; two permit pools; futures; finalizers; the shutdown phase | submit (append, inject, interrupt), cancel a turn or a session, drain the mailbox, shutdown | every front end; calls the runtime and the runner | a cancellation at each await, merged turns, hung runners, a run store that fails in between | one owner per turn, answered once and truly, order kept, permits balanced, a shutdown that ends clean |
| Turn journal | per turn an event log and a snapshot, under one lock | accept, start, merge, record, end, recover | runtime; every process that starts on the directory | crash between log and snapshot, torn record, a recovery beside a live process | the log is one story, everything shown follows it |
| Durable delivery | inbox files, receipts, outbox | poll, submit, reconcile, publish, retry by the operator, start, stop | gateway; submits to the scheduler, reads the journal | crash at each step, duplicates, conflicting copies, retry against unknown outcome | a message runs once, is answered at most as often as counted, and is never lost |
| Cron | a job list with claims | add, claim due jobs, run, record | gateway, CLI; submits to the scheduler | several workers, claims that run out while the run goes on | a claim is exclusive while it lives, outcomes are of their occurrence, due jobs run |
| Agent loop and runner | session history, task state, budgets; the runner's wait | a turn: model call, recoveries, tool batches, last summary; cancel, inject | scheduler; calls provider, gateway, session store | late threads, failing saves, budgets spent in many places | requests are well formed, effects are on record, every turn is answered |
| Tool gateway | stages of the calls of an answer, snapshots of the workspace | plan batches, admit, execute, classify | agent loop; approval, tools | parallel reads, a timeout after the work, a user who edits meanwhile | writes run alone, results do not lie, nothing starts after a cancellation |
| Bounded processes | a process group, a deadline, a token with callbacks | start, poll, cancel, reap, report | tools, sandbox | two threads kill and look at once | no orphan, no wrong status, an answer in the end |
| Persistent sandbox | a session per process, an owner record and lease per container, executions in the guest | start, execute, serve, invalidate, stop, recover orphans | tools, MCP | CLI timeouts, crash between intent and create, launch after cancel, several processes | no container lost, none removed under a session, no silent replacement |
| Session store | one file per session, a revision; each agent's copy | append and save, rename, undo, clear, delete | agent loop, terminal, other processes | stale copies, saves that raise after they wrote, late threads | the file stays a history, what was removed stays removed and was confirmed |
| Terminal front end | connection, epoch of the installed agent, two brokers, prompts | send, cancel, approve, answer, switch session, close | the operator; scheduler; worker threads wait in it | an answer, a timer, a cancel and a lost pipe race; the frame loop waits for a turn that waits for a frame | only what was approved runs, waits end, prompts are live |
| Gateway lease | a directory, its owner file, a file lock | acquire, take over, release, status | gateway | a death between two file operations, a pid used again, a replacement broken off | one gateway at a time; what a death leaves can be taken over |
| Memory backend and the agent's lifetime | a flag, the backend's records, the scheduler made for the asks | ask, start, recall, store, aclose | front ends | several asks start one backend; an ask cancelled while a thread starts or stops it; an ask across a close; several agents on one file | the flag tells of the backend, what completed is stored, nothing stored is lost to the bound but the oldest, a close lets go |
| Context engine | the session, relevance and archives of messages, on disk too; the curator's thread | assemble, tune, drop, archive, fall back | agent loop; calls a provider | a deadline while the provider runs, a death between archive and manifest | what must stay stays, calls keep their results, no thread is left behind |
| Working memory and resume state | recent files, stamped summaries, notes, the checkpoint | remember a result, note, checkpoint, resume | agent loop | files that change between reading, stamp and resumption | nothing stale is told as fresh |
| History and request budget | the messages of a turn, the caps of a prompt's sections | select, elide, drop, clip, reduce, shrink after an overflow | agent loop; providers refuse | many small cuts one after another, over many requests | no result without its call, no more given up than has to be |
| Providers and fallback | per request the tries, the response, what was shown | complete, stream, fall back, cancel | agent loop | partial streams, a cancellation from another thread | one voice per answer, no callback left behind |
| MCP servers | per server a lock, an owner task, a session, a catalog | discover, call, reopen, shut down | tool gateway | a call of unknown outcome, a late caller during the shutdown | no call is made twice, no session left, everyone who waits let go |
| Evolver: candidates | a ledger of searches, checks, trials, reservations | propose, check, try, settle, validate, ask | CLI, several hosts | a stop between any two events, shared budget | promotions rest on receipts, nothing is launched twice, what was really paid is within the budget |
| Evolver: deployment | the ledger's approvals, activations, rollbacks | confirm, activate, roll back, run a task | CLI, several operators | a current strategy that is stale when replaced | a stack per label, an approval is spent once |
| Evolver: hosted trials | a channel, a journal of calls, a container | serve, pay, conclude | candidates | an untrusted worker, a lost answer, a deadline | every call sent is paid for and on record |
| Evolver: pilots, focused search | frozen configuration, fence, receipts; rounds, reservations, a sealed test | run, resume, block, finish | CLI | death and drift between any two steps | no money spent twice, the held-out tasks run once |
| Evaluation campaigns | rows, the probe's cache, the lock of a benchmark, results | probe, attempt, grade, gate, compare | CLI | an edit of the source under a running campaign | paid once at a time, on the source that was probed, gates that tell |
| Tracing, redaction, skills, subagents, QQ channel, CLI, reports | logs, indices, widgets | - | - | mostly sequential | - |

`PROJECT.json` lists the same parts with their files and the hazards at their
lines.

## 2. The modules

    SpineScheduler  --implements-->  TurnService
         |                              (abstract promise)
         +-- SpineSchedulerProofs
    TurnJournal      what the run store keeps of the scheduler's turns
                                                -- JournalProofs
    DurableDelivery  the gateway's channel over an abstract journal
                                                -- DeliveryProofs
    CronClaims       the job list over abstract turns
    AgentTurn        one conversation's loops, runners and session
                                                -- SandboxProofs
    ToolGateway      the calls of one answer
    BoundedProcess   one command
    SandboxSession   the persistent containers of a workspace
                                                -- SandboxProofs
    SessionStore    --implements-->  SessionHistory
    TerminalRpc      the operator's end, over a lane of the scheduler
    GatewayLease     who may run a gateway
    AgentLifetime    the asks of an agent across its close
    ContextCurator, WorkingMemory, RequestBudget
                     what goes into a request;  ProviderChain  who answers it
    McpSessions      the servers of tools
    EvalCampaigns    paid evaluations
    CandidateEvidence, TrialGateway, FocusedPilot, FocusedSearch
                     how a strategy earns its approval
    StrategyDeployment  --implements-->  StrategyStack

    SandboxProofs    about SandboxSession and AgentTurn: an agent's containers and turns
    ServicesProofs   about BoundedProcess, CronClaims, McpSessions, AgentLifetime,
                     ToolGateway, ProviderChain, ContextCurator
    ApprovalProofs   about StrategyDeployment, CandidateEvidence, TrialGateway, TerminalRpc
    RecordsProofs    about GatewayLease, FocusedPilot, SessionStore, EvalCampaigns,
                     FocusedSearch, WorkingMemory
    QueueLemmas      what all the proofs need of sequences, numbers and totals

Modules that need a neighbour take its interface and no more. DurableDelivery
sees a turn's journal as the sequence none, accepted, running, ended that
TurnJournal shows for it, in which only a recovery ends a turn it does not run;
TerminalRpc sees one lane with one permit; AgentTurn is the runner whose end,
hang and late thread are the nondeterministic choices `RunEnds`, `AbortEnds`
and `ThreadExit` of SpineScheduler; StrategyDeployment begins where
CandidateEvidence ends, with a request for approval.

`MCServices`, `MCRecords` and `MCEvolver` put several components into one run.
They share no state, and `part` says which of them a behaviour is about: the
states of the run are the sum of the components' states, not their product, and
each invariant is one of its component.

Conventions. A *step* is what happens between two awaits, two file operations
under their locks, or two accesses of state that another thread can reach. A
module with several regimes of use has a variable (`setting`, `agent`, `calm`, `slow`,
`command`) that takes one of a set of values in `Init` and never changes: one
run explores every regime, and a property that the code owes only in one of
them names it (`~Slow => ...`). Definitions named `Faulty...` play no part in
a specification: each is an operator with a plausible bug, the mutant with
which the property it belongs to was seen to fail. `PROJECT.json` lists them.

### SpineScheduler (spine/scheduler.py, spine/runtime.py, agent_turn_runner.py)

`pending`, `mailbox`, `running`, `worker` are the fields of `_Lane`; `task` is
the program counter of the coroutine `_run_item` (one value per await),
`verdict` its local outcome; `merged` is what a running turn has drained;
`cancelReq` the cancel events, `future` the handles, `finalizers` the tasks
`_finish_cancel`; `durable` is what the executor (TurnRuntime) has recorded;
`free` the semaphores; `threads` the runner threads that outlive a cancelled
run; `shutdown` where `Scheduler.shutdown` stands. Actions are the handlers
`Submit`, `CancelQueued`, `CancelRunning`, `CancelSession`, `FinishCancel`, the
worker (`WorkerStart`, `SettleMerged`, `WorkerNext`, `WorkerRaised`), the task
(`TaskStart`, `Acquire`, `AbandonWait`, `AbandonGrant`, `Withdrawn`, `BeginRun`,
`RunEnds`, `ObserveCancel`, `AbortEnds`, `ReleasePermit`, `TaskDone`), `Drain`
and the shutdown. `DiskFaults` lets each call of the executor raise.
`TurnService` is the promise: a session serves one turn at a time, a turn is
served once or merged into one host of its session, a merged turn gets its
host's verdict and gets it before the host is answered.

### TurnJournal (run_store.py, atomic_io.py, runtime_assembly.py)

`log` and `snap` are `events.jsonl` and `turn.json`, `torn` a partial last
record, `lock` the file lock, `op` the operation a process is in the middle of
(append, then replace), `sequence` the number TurnRuntime gives its next event,
`listed`/`todo` the turns a recovery found and has left. An append may fail
leaving nothing, a torn record, or a whole record its writer believes unwritten.
`calm` is the regime in which writes fail only in a crash and one process uses
the directory at a time. Not modelled: seeding from the older layout, retention,
and the trace and report files beside the log.

### DurableDelivery (channel_receipts.py, channels.py, gateway.py)

`place` is where each file is, `receipt` the rows, `story` the journal, `outbox`
what is published, `step` the operation that holds the loop (poll, reserve,
submit, mark, move; attempt, send, acknowledge), `todo` the rows of a pass. The
code does not suspend between a read and the write that depends on it except
where a step ends, so one `step` at a time is exact for a gateway; a second
program on the directory acts only through the journal (`Intrude`).

### CronClaims (cron.py)

`store` is the file with, for each job, its next time, owner and expiry counted
from now; `batch`, `doing` and `stage` are a worker in `run_due`. Time is
relative (`Tick` moves everything one nearer), so the model is finite without
a bound on it. `slow` lets a run take longer than its claim. `current`, `seen`
and `left` are history the properties speak of.

### AgentTurn (agent_loop.py, agent_turn_runner.py, conversation.py, ...)

`history` is the session's rows, `messages` what the current request holds,
`local` the loop's counters (model calls, nudges, prefills, empty replies,
overflows, the batch in hand), `worker` the thread's place, `runner` the
coroutine's, `outcome` the turn's answer, `status` the durable task state, and
`current` the agent's shared `current_task_state`, which the runner reads after
a failure. The regimes (`MCAgentTurn`) are: structured or text messages, late
threads, a disk that fails, recoveries, a curator, injections, a limit on calls
with and without a chain of providers. Left out: streaming of text, checkpoints,
promotion of memory, loop-break nudges, and token counts (what is dropped from
an overlong history is nondeterministic).

### ToolGateway (tool_gateway.py, tool_scheduling.py)

`script` is the kind of each call of an answer, `callStage` its thread's place,
`before` its first snapshot of the workspace, `outcome` what its tool returned,
`result` what is reported, `observed` the order in which the host takes note.
A change of the workspace is a mark (of a call, or of the user). Tools of effect
EXTERNAL and ignored directories are seen by no snapshot and leave no mark.

### BoundedProcess (tool_execution.py, providers/base.py)

`group` is the leader and one child; `command` says who ignores SIGTERM and
whether the leader may end first; `pc` the places of the runner and of the
thread that cancels, whose callback polls and kills the group itself.

### SandboxSession (sandbox_session.py, sandbox_ownership.py, sandbox_exec*.py)

`record` and `lease` are the owner's files, `box` the container at the engine,
`host` a process with its session and the step it is in (while its step is not
idle it holds the session's lock), `exec` an execution with its guest process
and tombstone. A CLI command may time out and be carried out later
(`LateCreate`). The disposable sandbox is not modelled.

### SessionStore (session_store.py, session_operations.py)

`disk` is the file, `agent` the copies held by processes (two per process: the
agent of before a switch, whose thread may linger, and the present one), `job` an
operation between its check and its write, `offer` what the client confirmed.
`SessionHistory` is the promise: rows are added at the end, a rewrite only takes
rows off the end, a deleted session never changes.

### TerminalRpc (tui_rpc.py, tui.py, questions.py, approval.py)

`server` is the frame loop (one frame at a time; idle it is blocked in
`readline`; it waits inside `turn.cancel`; past its last frame it is leaving),
`epoch` which agent and brokers are installed, `req` every prompt ever posted
with its verdict, `thread` the worker thread of each turn, blocked in `wait`
while its prompt is open, `answer` the answers that were accepted, `told` the
turns the client was told are cancelled, `ran` the approved calls that were
executed. An answer counts as given, and a client as told, when the handler has
decided so; the reply itself is written afterwards (tui_rpc.py:588) and may fail. Every write to the client may fail: a reply's failure ends the loop, a
notification's only closes the brokers, and the loop looks again when the client
sends its next line or hangs up (`NextLine`, `Close`).

### GatewayLease (gateway.py, atomic_io.py)

`lease` is the directory with `owner.json` and a temporary file, `transition`
the file lock, `gate` a process in `_acquire_locked` or `_release_locked`, one
file operation per step. `spoiled` is history: a replacement was broken off.

### McpSessions (mcp.py, mcp_transport.py, mcp_http.py)

`thread` is a caller with its place in `SDKMCPClient`, `owner` the task in the
portal's loop, `link` the session by number, `agreed` and `offered` the
catalogs, `suspect` the sessions in which a call was given up, `toVisit`,
`tools` and `phase` the manager's.

### ProviderChain (providers/fallback.py, providers/clients.py, base.py)

`httpAt` is the client's place, `tried` the tries of `complete`, `hooked` and
`shut` the callback of the token, `shown` by whom each visible event is.

### AgentLifetime (runtime.py, sqlite_memory.py)

`flagged` is `_memory_backend_started`, read before an await and written after
it; `backendUp` the backend's own flag; `memories` the rows of an owner. Starting
and stopping run in threads, which a cancelled ask leaves behind: `CancelStart` is
the cancellation of an ask that awaits `start()` or has just got it (`except
BaseException` then awaits `stop()`), `CancelStop` a second one while it awaits
`stop()`, and `stray` counts the threads that `LateStart` and `LateStop` let take
effect after all. `mishaps` is history: the two ways in which flag and backend come
apart. A cancellation of `aclose` itself is not modelled.

### ContextCurator (context_engine/)

`segmentAt` and `thenTo` are the segment builder's place, `relevance`,
`archived` the manifest in memory, `onDisk` and `archives` the files,
`providerOn` the thread of the curator's provider. A message has size one.

### WorkingMemory (features/memory.py, checkpoint.py, resume in runtime.py)

`summaries` with their stamps, `notes` with the subjects that make one supersede
another, `saved` the checkpoint, `resumed` what the next session is told. A
digest is the content it is of; files change by tools and behind the agent.

### RequestBudget (conversation.py, compaction.py, context_manager.py, context_overflow.py)

`spoken` are the turn's messages, `request` those that are sent, `prompt` the
caps of the sections, `historyCap` what an overflow has left of the history. The
three `Modes` are the three formats.

### EvalCampaigns (evaluation/polyglot_*.py, provider_probe.py)

`tree` is the repository, `probed` the cache, `startedOn` and `readAs` the
sources a suite and an attempt began with, `results` and `comparison` the files.
`Rechecked` is the second look at the source before the agent is asked. It narrows
the time in which an edit goes unnoticed and does not close it, so no property rests
on it: what is stated of an attempt is the source it read and was approved for.

### CandidateEvidence, StrategyDeployment, TrialGateway (evolver/)

`evidence`, `search`, `sealed` and `dlog` are what the ledger's events say;
`host` and `operator` are processes that may stop between any two events and
lose no more than their place and locks. What is run outside the ledger has a step of
its own between the event that announces it and the one that records its end
(`LaunchChecks`, `LaunchTrial`, `LaunchSealed`): `runs` counts what was entered, and
`runs.paid` what a trial cost, at that step, so that a host that stops there has run
and paid without leaving a receipt; `RunTrial` may record it without a price. `entries` and `journal` of TrialGateway
are the budgeted client's. `StrategyStack` is the promise: activating pushes,
rolling back pops, one label is in use.

### FocusedPilot, FocusedSearch (evolver/pilot_*.py, focused_*.py, sealed.py)

`fence` is the directory that says a pilot was started, `sends` how often each
trial reached its gateway; `recorded` is the state in the ledger's last event,
`searchMem` the one in the process, `scored` how often a measurement was paid.

## 3. The runs

Each run explores its instance completely. `tlc -config X.cfg MCM` in this
directory repeats one; the largest takes about three minutes.

| Run | Instance | What it shows |
|---|---|---|
| busy | one session, three turns of every busy policy, failing run store, shutdown at any moment | `OpenTurnHasOneOwner`, `RecordsAgree`, `AnsweredOnce` |
| service | two sessions, one permit, two turns, runners that hang, failing run store | `ImplementsService` (refinement of TurnService), `PermitsBalance`, `ClosedIsClean`, `WorkEnds` |
| journal_shared | two processes, two turns, three starts, crash and failing write at each step; and the calm regime | `LogIsTheTruth`, `RecoveryIsComplete` |
| delivery | one identity in three files with failing writes, two restarts and a retry; two messages with working writes and a crash or an orderly stop | `ReceiptsAreTrue`, `ReceiptsSettle` |
| agent_turns | seven agents (`MCAgentTurn`) | `TurnsAreSound`, `CompletedStands`, `EveryTurnAnswered` |
| agent_replay | two turns, no fault at all | `EveryRequestIsPaired` is violated (section 5) |
| sandbox | four workspaces: two processes with a fault and a crash; executions; a changing engine; two processes and a shell call | `BoxesAreAccounted`, `SessionKeepsItsBox`, `OrphansAreReclaimed` |
| terminal | one turn asking twice with every timer; the same with a change of session and a late thread; two turns and a change of session without timers; two turns with late threads | `PromptsAreLive`, `OnlyApprovedRuns`, `WaitsEnd` |
| services | one at a time: two cron workers with three jobs and a crash; every kind of command; two servers of tools and two threads; three chains of providers; two asks and a close of an agent beside another agent's; two sessions for the curator | `ClaimsHold`, `AnswerIsTrue`, `SessionsAreOwned`, `RequestsAreSound`, `LifeHolds`, `ServicesEnd` |
| agent_flag | one caller who asks twice, and a close, without a failure | `FlagAgrees` is violated (section 5) |
| records | one at a time: two servers on one session file; two files that change behind the agent; requests in three formats; two campaigns of a benchmark; a pilot of two tasks; a search over three; three gateways on one directory; answers of three calls of five kinds, at most two of which have to run alone, two at once, with an edit by the user | `StoreIsSound`, `SharedWritesAgree` (with the refinement of SessionHistory), `WhatIsToldIsSound`, `NothingIsTakenTwice`, `PilotIsSound`, `SideEffectsRunAlone`, `ResultTellsTheWorkspace`, `NotesAreInOrder`, `CancelledStartsNothing` |
| evolver | one at a time: two hosts and a ledger, in five regimes; two operators with three approvals; one hosted trial | `ExperimentsAreSound`, `ApprovalsAreSpentOnce`, `LatchesHold`, `DeploymentIsAStack` (refinement of StrategyStack), `EvolverEnds` |

An invariant that has `TypeOK` as a conjunct is the type invariant of its
module together with the named parts, each stated and explained separately in
the module; so have the invariants of the three composite runs, whose names
(`RequestsAreSound`, `WhatIsToldIsSound`, `NothingIsTakenTwice`,
`ExperimentsAreSound`) join those of two or three components. SpineScheduler's `TypeOK` is checked and proved on its own.

### Bounds, and why they are enough

Bounds are constants or fields of a regime, each named where it is declared.

- *Turns and sessions.* Three turns in one session are the fewest that show a
  host, a turn merged into it and one behind them in the queue; two sessions and
  one permit are the fewest that show a waiter. The safety properties of the
  scheduler that these runs check are proved for any number of both.
- *Faults.* Crashes, restarts, failed commands and retries are counted; each
  count is at least one more than what a single operation needs to be hit
  before, in and after its durable step. Failing writes of the scheduler and
  the journal are not counted.
- *Calls of an answer.* With three calls and two at once there is a batch of
  two, a batch after it and an exclusive call before, between or behind; the
  invariants are proved for any number.
- *Prompts.* Two are enough for a question to replace another and for an answer
  to meet the wrong one.
- *Journal.* `MaxSequence` bounds the events of a turn; acceptance, start, text
  and end are four.
- *Rows and revisions.* `MaxRows` and `rev` of SessionStore bound how far a file
  is written; two rows let one be undone while another is written.
- *Time.* Cron's interval and claim are two ticks, so a claim may run out before,
  with or after the next occurrence.

- *Services.* Two threads and two servers of tools, one of them required, are the
  fewest with a caller that is late for the shutdown of one server while another
  is visited. Chains have one to three providers with one or three tries each.
  Two callers and two records are enough for one ask to overtake another's start
  and for the bound on records to bite.
- *Records.* The capacity, floors and sizes of RequestBudget are chosen so that a
  request fits, fits after each kind of cut, and does not fit at all. Three tasks
  of a search with two causes leave one cause for a second round; two operators
  of a pilot meet at its fence; three gateways outlive the two deaths.
- *Evolver.* One pair of trials has all the steps between two events of a plan.
  Five regimes bound the hosts: searches without a fault, everything with a fault,
  one candidate with more calls, and two candidates whose comparisons alone are
  left, with money for both (so that a violation of one meets a reservation of
  the other) or for the second once the first is settled. With five events at the
  start of an operation a rollback finds a strategy below the one it removes.

`CHECK_DEADLOCK FALSE` appears where the system may stop for good: all files
handled and the starts used up, every process down, every bounded operation
used. Where the system is expected to stay alive deadlock is checked, and the
intended end is a step of its own (`Done`, `Stopped`, `Closed`, `Returned`).

### Fairness, and why the code justifies it

- *SpineScheduler*: coroutines that can run do run (asyncio's ready queue is
  FIFO): weak fairness of each step of a lane, of the finalizers and of the
  shutdown. `Acquire` is strongly fair: asyncio's semaphores wake waiters in
  order. Nothing is assumed of clients, nor that a runner ever returns by
  itself; `EveryTurnResolves` (in `WorkEnds`) assumes that in its first half (`RunsEnd`: the
  loop is bounded by its budgets, calls by timeouts) and not in its second.
- *DurableDelivery*: an operation that holds the loop continues (weak); tasks
  that get the loop again and again, between other work, are strongly fair: the
  poller with each file, the pass with each row, the turns, the restarts.
  Nothing is assumed of the operator, crashes or other programs.
- *CronClaims*: time passes and a worker that can step does.
- *AgentTurn*: threads and runners go on; each model or tool call ends, as it has
  a timeout. Cancellation and injection are free.
- *SandboxSession*: an operation that was begun goes on, and somebody sweeps again
  and again. The second is the operator's part, since recovery is on demand; only
  `OrphansAreReclaimed` uses it.
- *TerminalRpc*: the loop's tasks, the threads and a loop that is leaving go on.
  Nothing is assumed of the client, not even that it hangs up, so `WaitsEnd` does
  not promise that a connection closed by a failed notification is cleaned up
  while the loop is still blocked in `readline`. No timer has to fire either:
  `WaitsEnd` is about a front end in which timers do not exist.
- *BoundedProcess*: the two threads go on; the command may run for ever.
- *McpSessions*: each thread's own steps, the manager and an owner that was told
  to stop go on, and a call that is waited for reaches its deadline (`StopCall`).
  Servers need not answer.
- *ProviderChain*, *AgentLifetime*, *ContextCurator*: the steps of the request, of
  callers and closer, of the assembly; each network call has a timeout. Nobody has to
  cancel an ask, and a thread that a cancelled ask left behind need not take effect.
- *CandidateEvidence*, *TrialGateway*: a host or a gateway that has begun goes on.
  Nobody has to begin anything.
- In `MCRecords` nothing is assumed: all its properties are safety. The components
  there are driven by operators who may stop at any time.
- A component's fairness in a composite run speaks of its own variables and its
  own `part`, so that it says no more there than alone.
- Regimes are rigid, so every fairness condition is one on `A /\ UNCHANGED setting`.
  `ClaimsHold` in a run with a slow worker says what is owed whatever the speed;
  that due jobs run (`JobWaits`) is stated for workers faster than their claims.

## 4. The proofs

Each `...Proofs` module is checked by `tlapm <module>.tla`; the longest takes about
a quarter of an hour. Section 2 says which module is about what. `PROJECT.json` lists the
theorems a reader should know. All are about every value of the constants.

### Assumptions

Only those on the constants, named in the modules and evaluated by TLC in the
runs. Most are types. Those that say more:

- `SearchAssumption`: a search has finitely many training tasks; `CampaignAssumption`:
  the source that evaluations begin with is one of the commits;
- a value that means "none" is not a value: `NoTurnAssumption`, `NobodyAssumption`,
  `NoJobAssumption` (no job of the file is the absent one), `noServer` in
  `McpAssumption`, `noEvent` in `DeploymentAssumption`, `nobody` and `begun` in
  `EvidenceAssumption`, which also says that candidates are finitely many (their ids
  are those of finished proposals), and in `MemoryAssumption`, where `Unset` is no
  status of a resumption;
- `CapacityAssumption`, `TimesAssumption`: pools and intervals are positive, which
  the constructors check;
- `CuratorAssumption`: sessions are `Orderly`, what a loop records whose thread ends
  with its turn: a result is that of one message's call, follows it within the turn
  and makes no calls itself;
- `BoundsAssumption` of TerminalRpc: a front end is given finitely many turns, and
  `MaxRequests` is at least their calls; `SandboxAssumption`: there is an engine;
- `TurnsAssumption` of DurableDelivery: there are turn ids for all identities, since
  they are fresh uuids. Without it a message could find no turn, which the code
  cannot meet.

### SpineScheduler

The inductive invariant has layers, each proved from those before it.

- `Shape` gives `TypeCorrect`. Types alone are not inductive: that a worker who
  awaits a task has a running turn, that this turn was accepted in this lane, and
  that queues hold accepted turns of their lane are needed as well.
- `Permits` gives `PermitsSafe` (`PermitsBalance`). The cardinality argument is three
  lemmas about the set of holders (unchanged, one added, one removed); each step of
  `_run_item` is one of them.
- `Owners` gives `EveryTurnHasOneOwner` (`OpenTurnHasOneOwner`) and `AnswersKept`
  (`AnsweredOnce`). It says that a turn is held (queue, mailbox, run, merge,
  finalizer) if and only if its handle is open, that the five places exclude one
  another, that each queue holds a turn once, and that only the running turn of a
  lane has turns merged into it. The equivalence with the open handle makes the
  exclusion inductive: a step that moves a turn needs to know it is nowhere else.
- `Records`, with `InOrder`, gives `RecordsAndHandlesAgree` (`RecordsAgree`): for every
  place a turn may be held in, `RecordOf` is what the run store may hold of it then,
  failed calls included. With that a handle cannot be answered with something that
  was not recorded.
- `AtRest` gives `ShutdownLeavesNothing` (`ClosedIsClean`): a lane whose worker has
  gone has no task, no queue and no mailbox.
- `ThreadsRun` says whose mailbox a thread that outlived its run may still drain. It
  is what the refinement needs besides: `ServiceIsImplemented` (`ImplementsService`)
  maps a turn's session to its lane, its phase and host to where it is held, its
  verdict to its lane's while it is served, its answer to its handle. Every action
  is shown to be a step of TurnService or to leave this view as it is.

### TurnJournal

Four layers: `Shape` (types; who holds a turn's lock is in the commit that needs
it), `Story` (log, snapshot, life and answer of a turn agree, and what a process
under the lock has read is still so), `Looked` (a turn that a recovery has left
behind has its end in the log and in the snapshot, and other processes keep it so),
`Calmness` (in a calm directory the number a runtime gives an event is the next one
of the log, so the validator has nothing to refuse). The first three give
`RecoveryCompletes` (`RecoveryIsComplete`), all give `TheLogIsTheTruth`
(`LogIsTheTruth`).

### DurableDelivery

`Books` is what each row owes to the journal and to the outbox: the reply it holds is
that of its turn's recorded end, each publication was counted before it was made,
rows have turns of their own, a file that left the inbox is in safe hands. Between
two steps of one task the books alone are not enough: `StepHolds` says what the task
that holds the loop has read and may still rely on. Together they give
`ReceiptsStayTrue` (`ReceiptsAreTrue`). From the same invariant, `ReviewIsFinal`: a
row under review changes only by an operator's retry, a delivered one never.
`StopsInOrder` needs `Closing` besides: with writes that work, whoever is not done is in
this process, nobody is while it starts or closes, and the last pass has settled each
row it went through.
The last two are the safety parts of the run's `ReceiptsSettle`.

### ToolGateway

For answers of any length, any number of calls at once and of edits by the user:
`RunAlone` (`SideEffectsRunAlone`): what has started is in the batch at hand, and a
batch of several is made of reads. `ResultsAreTrue` (`ResultTellsTheWorkspace`): a
call's mark appears only while it runs, after the snapshot taken before it.
`CancelStartsNothing`. `NotesStayInOrder` (`NotesAreInOrder`): a report is put
behind those of the calls before it, since a batch is reported only as a whole.

### Services

- BoundedProcess, `AnswersAreTrue` (`AnswerIsTrue`): a place of the runner or of the
  cancelling thread determines what it has already killed or read (`CallbacksAreCancelled`,
  `LeaderIsGone`, `KillsAreMarked`), whatever the other does in between.
- CronClaims, `ClaimsAreHeld` (`ClaimsHold`): what a worker in the middle of a run knows
  of its job's claim, as long as it lives.
- McpSessions, `SessionsHaveOneOwner` (`SessionsAreOwned`): the thread that holds a
  client's lock is at a place that determines what the owner task may be doing
  (`OwnersAreFollowed`); a client the shutdown has visited stays shut
  (`ShutStaysShut`), for a late caller of a cancelled turn turns back at the lock.
- AgentLifetime, `LivesAreSound` (`LifeHolds`), for any callers and numbers of asks,
  closes, cancellations and failures: one turn runs at a time and in a scheduler
  (`TurnsAreAlone`); the flag is true but for the two mishaps, and so is an ask that
  has started the backend and not yet flagged it (`BackendIsKnown`); and how far a close
  that no ask came across has got (`UncrossedClose`). Two starts, a start behind the
  stop and a cancelled start are all steps of it, `crossed` or not: `FlagIsTrue` is
  the clause that is about them.
- ProviderChain, `OneVoiceHolds` (the part `OneVoice` of `RequestsAreSound`), for any
  chains and numbers of tries. Until there is an answer, there is exactly one failure for
  each provider whose turn has passed (`VoicesFit`); a turn that began after the
  cancellation has sent nothing, and the callback is in the token only while a stream
  is read (`TokenFits`). The four ways a step can end a provider's turn are a lemma
  each, and every action is one of them.
- ContextCurator, `ContextStaysSound` (the part `ContextIsSound` of
  `RequestsAreSound`), for any orderly sessions, capacities and windows, whatever the
  curator plans and whenever its process dies. Closing a set of messages makes it whole
  (`ClosedIsWhole`), and a whole set is left by a turn that goes (`DropsAreWhole`), since
  the result of a call is in its turn. The recursive function that trims exists, as the
  choice of an end that can be reached (`TrimExists`), and what it returns is proved by
  induction over how much is left (`TrimGoesOn`, `TrimEnds`): a whole set from which only
  the least relevant turns are missing. A call of the curator is counted as a step when
  it is begun and as a call when it has ended, and its manifest names only what is in an
  archive, in memory and on disk (`ArchivesFit`). With `OneVoiceHolds`,
  `RequestsStaySound` (`RequestsAreSound`) is about the composition `MCServices` as it
  is run.

### Approvals

StrategyDeployment, `ApprovalsAreSpent` (`ApprovalsAreSpentOnce`): between reading the
ledger and appending, an operator's knowledge of it (`Knows`) stays true as nobody
else appends; a candidate has been confirmed more often than activated while a
confirmation is unspent (`ApprovalsCover`). `TheLedgerIsAStack`
(`DeploymentIsAStack`): the chain of activations reached from the last entry of a
label is the stack, and an append pushes or pops it. The chain is a recursive
function; that its equation holds for every ledger is proved by induction
(`ChainsUnfold`), with QueueLemmas' `SetInduction`.

TerminalRpc, `PromptsStayLive` (`PromptsAreLive`) and `EffectsAreApproved`
(`OnlyApprovedRuns`), for any turns, calls, session changes and timers. The invariant
ties each request to the one thread that waits for it (`ThreadsWait`): a request that
has not ended and was not withdrawn has its thread in `wait`, and a thread that was
granted its call has a request with a yes, which the client gave
(`RequestShape`). `QuestionIsReachable`, which is itself part of the property, says
that the question on the screen is that of the broker in use. That `req` never
outgrows its bound is a counting argument: each request stands for another of its
turn's calls (`RequestsCount`, `RequestsAreBounded`). So no behaviour is cut off by
`MaxRequests`, and the theorem is about all of them.

### Evidence

CandidateEvidence, for any hosts, candidates, runs, prices and limits. Its invariant has
a part for each host, each candidate and each run. `HostFits` and `LocksFit` say which
lock a host holds at which place; `StageIsReached` what it has read of its candidate and
may rely on until it lets go, for only the holder of the lock writes that part of the
ledger. `GatesHold` is the chain of a candidate's gates, each resting on the one before;
`RoundsHold` that a search's rounds but the last are settled. A host's step is
checked for that host (`StepOfHost`); that it leaves the others' part alone follows from
the locks it holds (`OthersKeep`).

The budget has an invariant of its own: what is committed to the reserved candidates is
within the budget (`BudgetInvariant`), a settled candidate released exactly what its
trials left (`SettlementHolds`). It is about sums of any number of terms. QueueLemmas
has what they need: a total exists, is one, grows and shrinks with its weights
(`TotalExists`, `TotalChanges`, `TotalsCompare`), and the fold of the community
modules, whose own definition picks an order, is one (`FoldIsTotal`). What was launched
has an invariant too (`LaunchInvariant`): what was never announced was never launched
(`Counted`, `SealCounted`), and a host about to launch something is the first to
(`ToLaunch`), since it came there only from what had not been begun (`StepsArrive`). A
trial of unknown price keeps its candidate's whole reservation, as only full receipts
are settled, and that covers what it cost (`BudgetFollows`). From these,
`LatchesStayShut` (`LatchesHold`), and with the next paragraph `ExperimentsStaySound`
(`ExperimentsAreSound`).

TrialGateway, `TrialsAreAccounted`, for any limits and any number of frames: each place
of the loop determines how the journal, the reserved entries and the calls sent relate
(`ChannelFits`); a call is one entry ahead of the calls sent only while it is under
way. A worker's result counts only once the worker has exited (`TrialFits`).

### SandboxSession

For any processes, containers, executions and engines, `BoxesAccounted`
(`BoxesAreAccounted`) and `SessionKept` (`SessionKeepsItsBox`). What a process may rely
on whatever the others do is `HostFits`: it holds the lease of a session that it has
not invalidated (`OwnerFits`) and of the record it cleans up, which is its own session
only once the latch is set (`CleanerFits`); and who has lost a session is latched
(`LatchFits`). `RecordsFit` says that a token has a record before it has a container,
and, with one engine, that a closed record's container is gone. Each action is shown to
keep what it owes to the process itself; that it leaves the others' part alone is one
lemma (`OthersFit`) about what any step may do to the world (`WorldMoves`): it touches
only what it has leased, or what nobody has. Then only `RemoveBox`, by the lease's
holder, takes a container away (`OnlyRemovalTakes`), and only `Claim`, which no latched
process reaches, begins a session (`OnlyClaimBegins`).

### AgentTurn

For any settings of the agent and any number of turns, `TurnsStaySound`
(`TurnsAreSound`, with all its parts) and `CompletedStaysSo` (`CompletedStands`), in
every interleaving of the threads, the coroutines, the messages injected and the
cancellations. `TurnsAreSound` is far from inductive: it speaks of a thread at a
request or at its end, while what makes it true is spread over the places before. The
inductive invariant `TurnsFit` (`TurnsFitHolds`) has seven parts besides the shape.

- `RunnersFit`: which places of a coroutine and of its thread go together; a turn
  starts once the earlier ones were answered. With threads that end when they are
  told to, `OneTurnRuns` follows: at most one thread lives, and no later one has begun.
- `BudgetsFit`: steps and what is left to do stay within `MaxSteps`; and wherever the
  thread may ask the model once more, a call and an attempt are left.
- `EntriesFit`: the history has nothing of a turn before its question, its question
  first and, once it returned, its answer last; and a result for every started tool
  call but those still in the batch (`ResultsOf + Len(batch) = steps`). That gives
  `StartedToolsAreRecorded`: a thread ends with an empty batch unless it was broken off
  by an exception.
- `StatusesFit`: a turn's task state against the place of its thread; and the current
  task state is that of the turn whose coroutine runs, or of one cancelled long ago
  whose late thread created its own. That is why a failure or a settlement never
  touches a completed turn.
- `TurnsApart`, `UnheardFits`: the order of the history; no messages before the first
  request.
- `PairingFits`: the conversation is not paired while a batch runs. It is once the
  results the thread owes to it (`Owed`) are added. A reply adds its calls to the
  message and to the debt at once (`Answered`: what was not prepared is not part of
  either, `PreparedIsRemembered`), a result moves from the debt to the messages
  (`ResultFollows`), everything else adds neither (`PlainKept`). At a request nothing
  is owed.

The prover needs no induction over the conversation for this, except for the function
within `Remembered`, which a reply of at most `MaxReply` calls unfolds. `MaxReply`,
`MaxParallel` and `MaxEmpties` are the numbers of the module, not parameters.

### Records

- GatewayLease, `OneGatewayHolds`: at most one live gateway believes that it holds the
  lease. Whoever is at a step on the lease holds the transition lock, and from the
  moment an owner was found dead no gateway runs.
- FocusedPilot, `PilotsRunOnce` (`PilotIsSound`): the ledger is one story (`OneStory`),
  and a send is preceded by the event that tells of it (`SentOnce`).
- SessionStore, `UndoneIsGone` (`StoreIsSound`): where threads end with their turns,
  nobody who is at the revision on disk would write a row that was undone, except
  the agent that a rewrite has brought up to date, which is given up before it may
  save (`InTime`).
  `WritersAgree` (`SharedWritesAgree`) shows, in every regime, that the file moves as
  SessionHistory lets it: a step is a save, an undo, a clear or a rename of the
  abstract history, or leaves it alone. Its invariant `Knowledge` says what a writer
  at the revision on disk knows: the title there, and at least the rows there. The
  exception is again the agent a rewrite brought up to date, and a thread that
  outlives it; then rows had been undone. With that, an accepted save extends
  what it replaces. `Knowledge` also says that no history holds a row twice, and that
  an operation's revision is the one its client confirmed.
- EvalCampaigns, `CampaignsStaySound`, for any campaigns, plan and number of edits and
  launches. The invariant says who holds which lock at which step of an attempt, that
  nothing is done without an output directory, that the rows of a campaign follow the
  plan to its first error, and that while all rows were executed on the source it
  started from, at most `Len * PricedCalls + MaxProbes` calls were paid for.
- FocusedSearch, `SearchStaysSound`, for any finite set of training tasks. The phase on
  record tells where the search may be and what it holds in reserve; a round's parent
  is the last one that qualified and is strictly better than those before; the sealed
  log is a prefix of one run. With the two and the lease, `NothingIsEverTakenTwice`
  (`NothingIsTakenTwice`) is about the composition `MCRecords` as it is run.
- WorkingMemory, `MemoryStaysSound` (the part `MemoryIsSound` of `WhatIsToldIsSound`),
  for any files, subjects and number of notes. Behind each superseded note stands a
  newer, current one of the same subject; rivals name each other; and the index
  that is walked loses nothing but what the walk meant to drop (`OthersAreLeft`,
  by induction over its suffixes). A summary says what its file held when it was
  stamped unless it was blurred since; what a reopened session is told stands until
  its next step.

### Only model-checked, and why

- *Liveness* (`WorkEnds`, `ReceiptsSettle`'s second half, `EveryTurnAnswered`,
  `OrphansAreReclaimed`, `WaitsEnd`, `ServicesEnd`, `EvolverEnds`): fairness and ENABLED
  are out of the prover's reach.
- RequestBudget, the other part of `WhatIsToldIsSound`: what it is about is what
  folds and recursive trimming compute of a list of messages.
- What a recursive definition computes is proved only where it was needed: the
  library's induction theorems take an operator as parameter, which the provers cannot
  instantiate. QueueLemmas derives induction over sets of numbers
  (`SetInduction`, from `LeastNatural`) instead. The cut of an answer into batches is
  reasoned about through the definition of a single batch.


## 5. Where code and documents disagree

Shown by a run:

- *A cancelled start leaves the memory backend behind its flag* (runtime.py:943; run
  agent_flag). An ask that is cancelled while the backend starts in a thread stops it at
  once, and the thread may start it behind that stop; or the stop is cancelled too. The
  backend is then up, the flag says that it is not, and `aclose` asks the flag. The stop
  of a failed or cancelled start may also take down the backend another ask has started:
  every turn then fails until the agent is closed. implementation-ledger.md:1656 has
  "Runtime startup and shutdown own backend lifecycle". `FlagIsTrue` states what holds.
- *An interrupted answer is replayed unpaired* (agent_loop.py:1175; run
  agent_replay). The message with all the calls of an answer is recorded before
  the first batch. A turn cancelled between two batches leaves calls without
  results, and the next turn sends them, although history_trimmer.py:45 promises
  a legal history. `SessionIsSound` therefore speaks of requests in which the
  turns before were not broken off.

Met while modelling; the properties are stated for what does hold:

- An INTERRUPT submission in a lane without a live task goes to the tail of the
  queue (scheduler.py:78), where busy-policy.md:31 has it go first.
- A cancelled run's thread may run on beside the next turn of its session
  (agent_turn_runner.py:152), where busy-policy.md:33 serializes them. Regimes
  called late, slow or lingering are about this.
- An error before a turn's own task state exists marks the *previous* turn's task
  as failed (agent_turn_runner.py:176); `CompletedStands` is stated without disk
  faults.
- A fallback chain overshoots `max_provider_calls` by the candidates of its last
  request (agent_loop.py:624); `CallsWithinLimit` allows for that.
- An occurrence of a job is accepted twice when its worker's claim expires or it
  crashes after the submission (cron.py:189), where implementation-plan.md:653
  has it once.
- An engine that changes between identification and command lets the record of
  a container at the other engine be closed (sandbox_ownership.py:83), which the
  test `test_engine_mismatch_never_removes_or_closes_record` denies in general;
  the properties about orphans are stated for one engine.
- After an undo, the late save of a thread of a cancelled turn brings the rows
  back, since the rewrite advanced the revision of the store that the old agent
  still holds (session_store.py:138).
- A child that ignores SIGTERM survives when its leader ends in the grace period
  (tool_execution.py:154), where the docstring at :170 says the group is reaped;
  and the outcome of a cancelled command may lack the signal (:212), as the
  runner may return before the cancelling thread has noted it.
- Lines 230-233 of scheduler.py cannot be reached.
- A crash inside the replacement of the gateway's owner file, or a write of it
  that fails, leaves a temporary file in the lease's directory, which then can
  never be taken (gateway.py:90, atomic_io.py:80), where gateway.py:1 calls the
  ownership crash-recoverable. `LeaseIsRecoverable` says that nothing else does
  so, except a pid that is used again, for as long as it is.

## 6. What is not modelled, and the plan

Left out of the modelled parts: as said in section 2 and in the notes of
`PROJECT.json`. Not modelled at all:

- the QQ SDK, whose behaviour is not in the repository; widgets, argument parsing
  and wire formats, which no property here is about;
- tracing, snapshots in a shadow repository, reports and metrics: nothing decides
  on them, and each has one writer;
- the effects of single tools on files (ToolGateway has a mark for each), matching
  of text patches, ranking of skills, redaction of a stream: functions of one
  input, where a test reaches what a model would;
- settings and the selection of models: one locked document, pure rules;
- subagents, which are agent loops of their own in worktrees of their own;
- scripts and benchmarks.

Coarser than the code, and why: a digest is what it is a digest of; prices are
small integers; the exact test of FocusedSearch over repeated trials has one
trial per measurement, so that the order of its gates is checked and its
statistics are not; the candidate's sandbox policy in TrialGateway is what the
worker may write to the pipe.

What comes next is a proof about RequestBudget, which with `MemoryStaysSound` would
give `WhatIsToldIsSound`.
