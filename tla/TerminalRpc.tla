---------------------------- MODULE TerminalRpc ----------------------------
(***************************************************************************)
(* The terminal front end of RepoAgent (repoagent/tui_rpc.py, tui.py,      *)
(* questions.py, the ask mode of approval.py, and runtime_host.py):  one   *)
(* client, a server loop that handles one frame at a time, the turns it    *)
(* submitted, and the worker threads of those turns, which stop in the     *)
(* middle of a tool call to ask the operator something.                    *)
(*                                                                         *)
(* A worker thread and the event loop meet in a request: the thread posts  *)
(* a coroutine with run_coroutine_threadsafe and blocks; the loop          *)
(* registers it with a broker, shows it to the client, and finishes it     *)
(* when the client answers, a timer runs out, the turn is cancelled, or    *)
(* the connection goes away.  Each of these is a step of its own here.     *)
(*                                                                         *)
(* The scheduler is the one of SpineScheduler, seen through one lane and   *)
(* one foreground slot; what a tool does is the member of `ran' it adds.   *)
(***************************************************************************)
EXTENDS Naturals, Sequences, FiniteSets, SequencesExt

CONSTANTS
  Turns,         \* the turns the client may send
  MaxRequests,   \* bound: the requests ever posted
  MaxSwitches,   \* bound: how many times the client changes the session
  Settings       \* the settings a front end may be used under

VARIABLE setting \* those of this one; a step never changes them

Sendable == setting.turns      \* the turns the client sends
MaxCalls == setting.calls      \* how many times a turn asks something
Switches == setting.switches   \* how many times the client changes the session
Timers == setting.timers       \* the prompts' and tools' deadlines may pass
Slow == setting.slow           \* a worker may outlive the two seconds its
                               \* cancelled turn waits for it

ASSUME BoundsAssumption ==
  /\ MaxRequests \in Nat /\ MaxSwitches \in Nat
  /\ Settings \subseteq [turns : SUBSET Turns, calls : Nat \ {0},
                        switches : 0..MaxSwitches, timers : BOOLEAN, slow : BOOLEAN]
  /\ \A s \in Settings : /\ IsFiniteSet(s.turns)
                         /\ s.calls * Cardinality(s.turns) <= MaxRequests

VARIABLES
  server,          \* what the frame loop is doing, and for which turn
  closed,          \* TUIRPCServer.closed
  epoch,           \* which agent, host and brokers are installed
  shut,            \* the epochs whose brokers are closed
  cancelledTurns,  \* ConfirmationBroker._cancelled_turns, of this epoch
  mine,            \* TUIRPCServer._turns
  home,            \* the epoch a turn was sent in
  turn,            \* what the scheduler holds for each turn
  lane,            \* the turns waiting in the session's lane
  cancelReq,       \* the running turns whose cancel_requested is set
  token,           \* the turns whose cancellation token is set
  thread,          \* where each turn's worker thread is, and its request
  calls,           \* how often each turn has asked
  req,             \* every request ever posted, oldest first
  withdrawn,       \* the requests whose thread cancelled their future
  asking,          \* QuestionBroker.pending of this epoch: a request or 0
  shown,           \* the requests the client has been notified of
  answer,          \* the answers of the client that were accepted
  told,            \* the turns the client was told are cancelled
  ran              \* the requests whose tool call was executed

rpcVars == <<server, closed, epoch, shut, cancelledTurns, mine, home>>
turnVars == <<turn, lane, cancelReq, token>>
workVars == <<thread, calls, ran>>
reqVars == <<req, withdrawn, asking>>
clientVars == <<shown, answer, told>>
terminalVars == <<setting, rpcVars, turnVars, workVars, reqVars, clientVars>>

\* An idle loop is blocked in readline(); a leaving one is past its last frame.
ServerStates == {"idle", "cancelling", "switching", "leaving", "closing", "gone"}
TurnStates == {"unsent", "queued", "running", "completed", "cancelled"}
ThreadStates == {"none", "think", "prompt", "wait", "granted", "tool", "done"}

TypeOK ==
  /\ setting \in Settings
  /\ server \in [at : ServerStates, turn : Turns \cup {"none"}]
  /\ closed \in BOOLEAN
  /\ epoch \in 0..MaxSwitches /\ shut \subseteq 0..MaxSwitches
  /\ cancelledTurns \subseteq Turns /\ mine \subseteq Turns
  /\ home \in [Turns -> 0..MaxSwitches]
  /\ turn \in [Turns -> TurnStates] /\ lane \in Seq(Turns)
  /\ cancelReq \subseteq Turns /\ token \subseteq Turns
  /\ thread \in [Turns -> [at : ThreadStates, r : 0..MaxRequests]]
  /\ calls \in [Turns -> 0..MaxCalls]
  /\ req \in Seq([turn : Turns, kind : {"confirm", "ask"},
                  broker : 0..MaxSwitches,
                  at : {"posted", "pending", "ended"},
                  verdict : {"open", "yes", "no"}])
  /\ withdrawn \subseteq DOMAIN req /\ asking \in 0..Len(req)
  /\ shown \subseteq DOMAIN req
  /\ answer \in [1..MaxRequests -> {"none", "yes", "no"}]
  /\ told \subseteq Turns /\ ran \subseteq DOMAIN req

TerminalInit ==
  /\ setting \in Settings
  /\ server = [at |-> "idle", turn |-> "none"] /\ closed = FALSE
  /\ epoch = 0 /\ shut = {} /\ cancelledTurns = {} /\ mine = {}
  /\ home = [t \in Turns |-> 0]
  /\ turn = [t \in Turns |-> "unsent"] /\ lane = <<>>
  /\ cancelReq = {} /\ token = {}
  /\ thread = [t \in Turns |-> [at |-> "none", r |-> 0]]
  /\ calls = [t \in Turns |-> 0] /\ ran = {}
  /\ req = <<>> /\ withdrawn = {} /\ asking = 0
  /\ shown = {} /\ answer = [r \in 1..MaxRequests |-> "none"] /\ told = {}

---------------------------------------------------------------------------
(* The brokers *)

Terminal(t) == turn[t] \in {"completed", "cancelled"}
Registered == {r \in DOMAIN req : req[r].at = "pending"}
Open(r) == req[r].at = "pending" /\ req[r].verdict = "open"

\* set_result(False) or set_result("") on the open futures of R.
Denied(R) ==
  [r \in DOMAIN req |->
     IF r \in R /\ Open(r) THEN [req[r] EXCEPT !.verdict = "no"] ELSE req[r]]

\* Faulty: close() settles what is pending and forgets to refuse what follows.
FaultyCloseBrokers ==
  /\ UNCHANGED shut
  /\ req' = Denied({r \in DOMAIN req : req[r].broker = epoch})

\* confirmations.close() and questions.close()
CloseBrokers ==
  /\ shut' = shut \cup {epoch}
  /\ req' = Denied({r \in DOMAIN req : req[r].broker = epoch})

\* Faulty: cancel() forgets the turn, so a request that comes later is asked.
FaultyDenyTurn(t) ==
  /\ UNCHANGED cancelledTurns
  /\ req' = Denied({r \in DOMAIN req : /\ req[r].kind = "confirm"
                                       /\ req[r].broker = epoch
                                       /\ req[r].turn = t})

\* confirmations.cancel(turn_id)
DenyTurn(t) ==
  /\ cancelledTurns' = cancelledTurns \cup {t}
  /\ req' = Denied({r \in DOMAIN req : /\ req[r].kind = "confirm"
                                       /\ req[r].broker = epoch
                                       /\ req[r].turn = t})

End(r, verdict) ==
  req' = [req EXCEPT ![r].at = "ended", ![r].verdict = verdict]

\* Faulty: the slot is emptied whoever holds it.
FaultyLeaveSlot(r) == asking' = 0

\* The finally clause of ask(): only the current question leaves the slot.
LeaveSlot(r) == asking' = IF asking = r THEN 0 ELSE asking

\* RuntimeHost.cancel on each turn of T: a queued turn is cancelled at once,
\* a running one is asked to stop.
CancelTurns(T) ==
  /\ turn' = [t \in Turns |-> IF t \in T /\ turn[t] = "queued"
                                THEN "cancelled" ELSE turn[t]]
  /\ cancelReq' = cancelReq \cup {t \in T : turn[t] = "running"}
  /\ UNCHANGED token

LeaveLane(t) ==
  \/ \E i \in DOMAIN lane : lane[i] = t /\ lane' = RemoveAt(lane, i)
  \/ t \notin ToSet(lane) /\ UNCHANGED lane

---------------------------------------------------------------------------
(* The frame loop: receive() handles one frame before it reads the next *)

Receiving == server.at = "idle" /\ ~closed

LoopIdle == [at |-> "idle", turn |-> "none"]
Leaving == [at |-> "leaving", turn |-> "none"]

\* turn.send
Send(t) ==
  /\ Receiving /\ t \in Sendable /\ turn[t] = "unsent"
  /\ turn' = [turn EXCEPT ![t] = "queued"] /\ lane' = Append(lane, t)
  /\ mine' = mine \cup {t} /\ home' = [home EXCEPT ![t] = epoch]
  /\ UNCHANGED <<server, closed, epoch, shut, cancelledTurns, cancelReq, token,
                 workVars, reqVars, clientVars>>

\* turn.cancel: deny the turn's prompts, cancel it, then wait for its outcome.
Cancel(t) ==
  /\ Receiving /\ t \in mine
  /\ DenyTurn(t) /\ CancelTurns({t}) /\ LeaveLane(t)
  /\ server' = [at |-> "cancelling", turn |-> t]
  /\ UNCHANGED <<closed, epoch, shut, mine, home, workVars, withdrawn, asking,
                 clientVars>>

CancelReply ==
  /\ server.at = "cancelling" /\ Terminal(server.turn)
  /\ told' = IF turn[server.turn] = "cancelled" /\ ~closed
               THEN told \cup {server.turn} ELSE told
  /\ server' = IF closed THEN Leaving ELSE LoopIdle
  /\ UNCHANGED <<closed, epoch, shut, cancelledTurns, mine, home, turnVars,
                 workVars, reqVars, shown, answer>>

Answer(r, verdict) ==
  /\ Open(r) /\ req[r].broker = epoch
  /\ req' = [req EXCEPT ![r].verdict = verdict]
  /\ answer' = [answer EXCEPT ![r] = verdict]
  /\ UNCHANGED <<rpcVars, turnVars, workVars, withdrawn, asking, shown, told>>

\* confirm.respond; an unknown or settled request is refused and changes nothing.
Confirm(r, approved) ==
  /\ Receiving /\ r \in shown /\ req[r].kind = "confirm"
  /\ Answer(r, IF approved THEN "yes" ELSE "no")

\* clarify.respond, with the question's request id or the conversation's.
Clarify(r) ==
  /\ Receiving /\ r = asking
  /\ Answer(r, "yes")

\* session.create and session.resume, up to the await of host.stop().
Switch ==
  /\ Receiving /\ epoch < Switches
  /\ \A t \in mine : Terminal(t)
  /\ ~ \E r \in Registered : req[r].kind = "confirm" /\ req[r].broker = epoch
  /\ asking = 0
  /\ server' = [at |-> "switching", turn |-> "none"]
  /\ UNCHANGED <<closed, epoch, shut, cancelledTurns, mine, home, turnVars,
                 workVars, reqVars, clientVars>>

\* The rest of _switch_session: the old brokers are closed and the old agent
\* gets its own prompt back; the factory installs a new agent or fails.
FinishSwitch(works) ==
  /\ server.at = "switching"
  /\ req' = Denied({r \in DOMAIN req : req[r].broker = epoch})
  /\ shut' = shut \cup {epoch} \cup (IF works THEN {} ELSE {epoch + 1})
  /\ epoch' = epoch + 1 /\ mine' = {} /\ cancelledTurns' = {} /\ asking' = 0
  /\ closed' = (closed \/ ~works)
  /\ server' = IF closed' THEN Leaving ELSE LoopIdle
  /\ UNCHANGED <<home, turnVars, workVars, withdrawn, clientVars>>

\* A write to the client fails: _send closes the brokers and the connection.
\* The reply to a frame fails in the loop, which leaves; a notification fails
\* in a task of its own, and the loop stays where it is.
PipeBreaks ==
  /\ ~closed /\ server.at # "gone"
  /\ closed' = TRUE /\ CloseBrokers
  /\ server' \in {server} \cup (IF server.at = "idle" THEN {Leaving} ELSE {})
  /\ UNCHANGED <<epoch, cancelledTurns, mine, home, turnVars, workVars,
                 withdrawn, asking, clientVars>>

\* A line that comes after the connection was closed is dropped by receive(),
\* and only then does the loop look at `closed'.
NextLine ==
  /\ server.at = "idle" /\ closed
  /\ server' = Leaving
  /\ UNCHANGED <<closed, epoch, shut, cancelledTurns, mine, home, turnVars,
                 workVars, reqVars, clientVars>>

\* close(), up to the wait of host.stop(), which drains the lane: past the last
\* frame, or at the end of the input.
Close ==
  /\ server.at \in {"idle", "leaving"}
  /\ closed' = TRUE /\ CloseBrokers /\ CancelTurns(Turns) /\ lane' = <<>>
  /\ server' = [at |-> "closing", turn |-> "none"]
  /\ UNCHANGED <<epoch, cancelledTurns, mine, home, workVars, withdrawn, asking,
                 clientVars>>

Gone ==
  /\ server.at = "closing" /\ \A t \in mine : Terminal(t)
  /\ server' = [at |-> "gone", turn |-> "none"]
  /\ UNCHANGED <<closed, epoch, shut, cancelledTurns, mine, home, turnVars,
                 workVars, reqVars, clientVars>>

---------------------------------------------------------------------------
(* The lane and the runner of a turn *)

Running == {t \in Turns : turn[t] = "running"}

StartTurn ==
  /\ Running = {} /\ lane # <<>>
  /\ turn' = [turn EXCEPT ![Head(lane)] = "running"] /\ lane' = Tail(lane)
  /\ thread' = [thread EXCEPT ![Head(lane)] = [at |-> "think", r |-> 0]]
  /\ UNCHANGED <<rpcVars, cancelReq, token, calls, ran, reqVars, clientVars>>

\* The runner takes the CancelledError and sets the worker's token.
RunnerCancelled(t) ==
  /\ turn[t] = "running" /\ t \in cancelReq \ token
  /\ token' = token \cup {t}
  /\ UNCHANGED <<rpcVars, turn, lane, cancelReq, workVars, reqVars, clientVars>>

RunnerEnds(t) ==
  /\ turn[t] = "running"
  /\ thread[t].at = "done" \/ (Slow /\ t \in token)
  /\ turn' = [turn EXCEPT ![t] = IF t \in token THEN "cancelled"
                                                ELSE "completed"]
  /\ UNCHANGED <<rpcVars, lane, cancelReq, token, workVars, reqVars, clientVars>>

---------------------------------------------------------------------------
(* The worker thread *)

Goto(t, place, r) == thread' = [thread EXCEPT ![t] = [at |-> place, r |-> r]]

\* The server's prompt and question handler are installed on this turn's agent.
Bound(t) == home[t] = epoch /\ server.at # "gone"

MayAsk(t) == thread[t].at = "think" /\ calls[t] < MaxCalls
Asked(t) == calls' = [calls EXCEPT ![t] = @ + 1]

\* EffectApprovalPolicy.decide in ask mode reads the prompt; without one the
\* call is denied.
ProposeWrite(t) ==
  /\ MayAsk(t) /\ Asked(t)
  /\ IF Bound(t) THEN Goto(t, "prompt", 0) ELSE UNCHANGED thread
  /\ UNCHANGED <<rpcVars, turnVars, ran, reqVars, clientVars>>

PostRequest(t, kind) ==
  /\ req' = Append(req, [turn |-> t, kind |-> kind, broker |-> epoch,
                         at |-> "posted", verdict |-> "open"])
  /\ Goto(t, "wait", Len(req) + 1)

\* _approval, with the confirmation broker installed at this moment.
Approval(t) ==
  /\ thread[t].at = "prompt"
  /\ IF closed THEN Goto(t, "think", 0) /\ UNCHANGED req
               ELSE PostRequest(t, "confirm")
  /\ UNCHANGED <<rpcVars, turnVars, calls, ran, withdrawn, asking, clientVars>>

\* QuestionTool.run and _ask_question
AskUser(t) ==
  /\ MayAsk(t) /\ Asked(t)
  /\ IF Bound(t) /\ ~closed /\ t \notin token
       THEN PostRequest(t, "ask")
       ELSE UNCHANGED <<thread, req>>
  /\ UNCHANGED <<rpcVars, turnVars, ran, withdrawn, asking, clientVars>>

\* Faulty: the request id of the pair is taken for the verdict.
FaultyTakeVerdict(t) ==
  LET r == thread[t].r IN
  /\ thread[t].at = "wait" /\ req[r].at = "ended"
  /\ IF req[r].kind = "confirm" THEN Goto(t, "granted", r) ELSE Goto(t, "think", 0)
  /\ UNCHANGED <<rpcVars, turnVars, calls, ran, reqVars, clientVars>>

\* future.result() returns; only an approval goes on to the tool.
TakeVerdict(t) ==
  LET r == thread[t].r IN
  /\ thread[t].at = "wait" /\ req[r].at = "ended"
  /\ IF req[r].kind = "confirm" /\ req[r].verdict = "yes"
       THEN Goto(t, "granted", r) ELSE Goto(t, "think", 0)
  /\ UNCHANGED <<rpcVars, turnVars, calls, ran, reqVars, clientVars>>

\* Faulty: the future is not cancelled on the way out.
FaultyGiveUp(t) ==
  LET r == thread[t].r IN
  /\ thread[t].at = "wait" /\ req[r].at # "ended"
  /\ Timers \/ (req[r].kind = "ask" /\ (closed \/ t \in token))
  /\ Goto(t, "think", 0)
  /\ UNCHANGED <<rpcVars, turnVars, calls, ran, reqVars, clientVars>>

\* The thread stops waiting first.  An approval has only its timer; a question
\* is polled against the connection and the tool's control.
GiveUp(t) ==
  LET r == thread[t].r IN
  /\ thread[t].at = "wait" /\ req[r].at # "ended"
  /\ Timers \/ (req[r].kind = "ask" /\ (closed \/ t \in token))
  /\ withdrawn' = withdrawn \cup {r}
  /\ Goto(t, "think", 0)
  /\ UNCHANGED <<rpcVars, turnVars, calls, ran, req, asking, clientVars>>

\* Faulty: an approved call starts without another look at the token.
FaultyExecute(t) ==
  /\ thread[t].at = "granted"
  /\ Goto(t, "tool", 0) /\ ran' = ran \cup {thread[t].r}
  /\ UNCHANGED <<rpcVars, turnVars, calls, reqVars, clientVars>>

\* ToolGateway.execute past the approval: control.status() is read once more.
Execute(t) ==
  /\ thread[t].at = "granted"
  /\ IF t \in token
       THEN Goto(t, "think", 0) /\ UNCHANGED ran
       ELSE Goto(t, "tool", 0) /\ ran' = ran \cup {thread[t].r}
  /\ UNCHANGED <<rpcVars, turnVars, calls, reqVars, clientVars>>

ToolReturns(t) ==
  /\ thread[t].at = "tool" /\ Goto(t, "think", 0)
  /\ UNCHANGED <<rpcVars, turnVars, calls, ran, reqVars, clientVars>>

WorkerEnds(t) ==
  /\ thread[t].at = "think" /\ Goto(t, "done", 0)
  /\ UNCHANGED <<rpcVars, turnVars, calls, ran, reqVars, clientVars>>

---------------------------------------------------------------------------
(* The coroutine of a request, on the event loop *)

Begin(r) ==
  /\ req[r].at = "posted" /\ r \notin withdrawn
  /\ LET refused == \/ req[r].broker \in shut
                    \/ req[r].kind = "confirm" /\ req[r].turn \in cancelledTurns
     IN IF refused
          THEN End(r, "no") /\ UNCHANGED asking
          ELSE IF req[r].kind = "confirm"
          THEN req' = [req EXCEPT ![r].at = "pending"] /\ UNCHANGED asking
          ELSE /\ req' = [Denied({asking}) EXCEPT ![r].at = "pending"]
               /\ asking' = r
  /\ UNCHANGED <<rpcVars, turnVars, workVars, withdrawn, clientVars>>

\* The notification reaches the client.
Show(r) ==
  /\ req[r].at = "pending" /\ r \notin shown /\ ~closed
  /\ shown' = shown \cup {r}
  /\ UNCHANGED <<rpcVars, turnVars, workVars, reqVars, answer, told>>

Finish(r) ==
  /\ req[r].at = "pending" /\ req[r].verdict # "open"
  /\ End(r, req[r].verdict) /\ LeaveSlot(r)
  /\ UNCHANGED <<rpcVars, turnVars, workVars, withdrawn, clientVars>>

\* wait_for times out, which also wins over an answer not yet taken.
Expire(r) ==
  /\ Timers /\ req[r].at = "pending"
  /\ End(r, "no") /\ LeaveSlot(r)
  /\ UNCHANGED <<rpcVars, turnVars, workVars, withdrawn, clientVars>>

\* The task of a withdrawn future is cancelled, before or during its wait.
Withdraw(r) ==
  /\ r \in withdrawn /\ req[r].at # "ended"
  /\ End(r, "no") /\ LeaveSlot(r)
  /\ UNCHANGED <<rpcVars, turnVars, workVars, withdrawn, clientVars>>

---------------------------------------------------------------------------

WorkerStep(t) ==
  \/ ProposeWrite(t) \/ Approval(t) \/ AskUser(t) \/ TakeVerdict(t)
  \/ GiveUp(t) \/ Execute(t) \/ ToolReturns(t) \/ WorkerEnds(t)

RunnerStep(t) == RunnerCancelled(t) \/ RunnerEnds(t)

LoopStep(r) == Begin(r) \/ Show(r) \/ Finish(r) \/ Withdraw(r)

ServerStep == CancelReply \/ Gone \/ \E works \in BOOLEAN : FinishSwitch(works)

ClientStep ==
  \/ \E t \in Turns : Send(t) \/ Cancel(t)
  \/ \E r \in shown : \E approved \in BOOLEAN : Confirm(r, approved)
  \/ \E r \in Registered : Clarify(r)
  \/ Switch \/ NextLine \/ Close

\* Nothing is left to do once the connection is closed and the threads ended.
Stopped ==
  /\ server.at = "gone"
  /\ \A t \in Turns : thread[t].at \in {"none", "done"}
  /\ UNCHANGED terminalVars

TerminalNext ==
  /\ UNCHANGED setting
  /\ \/ ClientStep \/ ServerStep \/ PipeBreaks \/ StartTurn
     \/ \E t \in Turns : WorkerStep(t) \/ RunnerStep(t)
     \/ \E r \in DOMAIN req : LoopStep(r) \/ Expire(r)
     \/ Stopped

TerminalSpec == TerminalInit /\ [][TerminalNext]_terminalVars

(* The event loop and the worker threads keep going and a loop past its last *)
(* frame closes.  Nothing is assumed of the client, who need neither send a  *)
(* line nor end the input, or of the timers.                                 *)
Same == UNCHANGED setting

FairSpec ==
  /\ TerminalSpec /\ WF_terminalVars(ServerStep /\ Same) /\ WF_terminalVars(StartTurn /\ Same)
  /\ WF_terminalVars(server.at = "leaving" /\ Close /\ Same)
  /\ \A t \in Turns : WF_terminalVars(WorkerStep(t) /\ Same) /\ WF_terminalVars(RunnerStep(t) /\ Same)
  /\ \A r \in 1..MaxRequests : WF_terminalVars(r \in DOMAIN req /\ LoopStep(r) /\ Same)

---------------------------------------------------------------------------
(* Properties *)

\* A tool call that needs approval starts only if the client's approval of that
\* very request was accepted: no timeout, cancellation, lost connection or
\* answer to another request ends in an effect.  And once the
\* client has been told that a turn is cancelled no call of it starts, not even
\* one it had approved before, whose thread is between approval and tool.
OnlyApprovedRuns ==
  [][\A r \in ran' \ ran : answer[r] = "yes" /\ req[r].turn \notin told]_terminalVars

\* A question that still waits for its answer is the one reply() finds: a
\* question that was replaced or withdrawn cannot take the slot of the one
\* that followed it, which nobody could answer any more.
QuestionIsReachable ==
  \A r \in Registered :
     req[r].kind = "ask" /\ req[r].verdict = "open" /\ req[r].broker = epoch
       => asking = r

\* A prompt that can still be answered is one a thread of a running turn is
\* waiting for, or it is being withdrawn: the operator is never asked about
\* work that has ended, if threads end with their turns.
PromptHasItsThread ==
  ~Slow => \A r \in Registered : Open(r) =>
     \/ r \in withdrawn
     \/ turn[req[r].turn] = "running" /\ thread[req[r].turn] = [at |-> "wait", r |-> r]

\* Prompts are live: the question that waits can be answered, and what can be
\* answered is waited for.
PromptsAreLive == TypeOK /\ QuestionIsReachable /\ PromptHasItsThread

\* turn.cancel holds the frame loop until the turn has ended, so no answer can
\* be read meanwhile: the wait ends all the same.
CancelReturns == server.at = "cancelling" ~> server.at # "cancelling"

\* A closed connection cancels what it owns and finishes, with prompts open,
\* once the loop is out of readline(): after the end of the input, a reply that
\* could not be written, a failed change of session, or a cancel that was waiting
\* when a notification failed.  A loop that only a notification closed ends at
\* the client's next line or the end of its input, which nothing promises.
ClosedConnectionEnds == closed /\ server.at # "idle" ~> server.at = "gone"

Resting == \A t \in Turns : turn[t] = "unsent" \/ Terminal(t)

\* When every turn has ended no prompt lingers, so that the next change of
\* session or model is not refused for a prompt of the past.
PromptsClear == Resting ~> (Registered = {} \/ ~Resting)

\* Waits end by themselves, without any timer, when threads end with their
\* turns: a cancel, a closed connection, and the prompts of turns that ended.
WaitsEnd ==
  ~Timers /\ ~Slow => CancelReturns /\ ClosedConnectionEnds /\ PromptsClear
=============================================================================
