----------------------------- MODULE MCServices -----------------------------
(* The services an agent uses, and its own life, each explored on its own: *)
(* none of them shares state with another.                                 *)
EXTENDS CronClaims, BoundedProcess, McpSessions, ProviderChain, AgentLifetime,
        ContextCurator, TLC

CONSTANTS
  beat, once, again,           \* jobs: one periodic, one not, one as the first
  tool,                        \* a thread that calls tools of servers
  a1, a2, n1, n2, n3           \* callers of an agent, and what is stored

VARIABLE part  \* the component that is running in this behaviour

Keys == [j \in Jobs |-> IF j = once THEN 1 ELSE 2]

Chain3 == {<<3>>, <<1, 3>>, <<3, 1, 1>>}

Notes == a1 :> n1 @@ a2 :> n2

\* A session with two calls at once, a call without a result, and three turns.
Says(who, made, of) == [role |-> who, calls |-> made, result |-> of]
Prompting == Says("user", {}, 0)
Replying == Says("assistant", {}, 0)
Invoking(made) == Says("assistant", made, 0)
Outcome(of) == Says("tool", {}, of)
Transcripts ==
  {<<Prompting, Replying, Prompting, Invoking({1, 2}), Outcome(1), Outcome(2),
     Prompting, Replying>>,
   <<Prompting, Invoking({1}), Outcome(1), Prompting, Invoking({2}), Prompting,
     Invoking({3}), Outcome(3)>>}

vars == <<part, cronVars, processVars, mcpVars, chainVars, lifeVars, curatorVars>>

\* A component that is not running is where it may begin.
Init ==
  /\ part \in {"cron", "process", "mcp", "chain", "life", "curator"}
  /\ CronInit /\ ProcessInit /\ McpInit /\ ChainInit /\ LifeInit /\ CuratorInit
  /\ part # "cron" => ~slow
  /\ part # "process" => command = [stubborn |-> {}, detaches |-> FALSE]
  /\ part # "chain" => chain = <<3>> /\ ~streams
  /\ part # "curator" => Len(transcript) = 8 /\ transcript[2] = Replying

Next ==
  /\ UNCHANGED part
  /\ \/ part = "cron" /\ CronNext
        /\ UNCHANGED <<processVars, mcpVars, chainVars, lifeVars, curatorVars>>
     \/ part = "process" /\ ProcessNext
        /\ UNCHANGED <<cronVars, mcpVars, chainVars, lifeVars, curatorVars>>
     \/ part = "mcp" /\ McpNext
        /\ UNCHANGED <<cronVars, processVars, chainVars, lifeVars, curatorVars>>
     \/ part = "chain" /\ ChainNext
        /\ UNCHANGED <<cronVars, processVars, mcpVars, lifeVars, curatorVars>>
     \/ part = "life" /\ LifeNext
        /\ UNCHANGED <<cronVars, processVars, mcpVars, chainVars, curatorVars>>
     \/ part = "curator" /\ CuratorNext
        /\ UNCHANGED <<cronVars, processVars, mcpVars, chainVars, lifeVars>>

\* Whoever runs goes on; what comes from outside may never happen.
Fairness ==
  /\ WF_cronVars(part = "cron" /\ Tick /\ UNCHANGED slow)
  /\ \A w \in Workers : WF_cronVars(part = "cron" /\ WorkerStep(w) /\ UNCHANGED slow)
  /\ WF_processVars(part = "process" /\ RunnerStep /\ UNCHANGED command)
  /\ WF_processVars(part = "process" /\ Callback("canceller") /\ UNCHANGED command)
  /\ \A t \in Threads : WF_mcpVars(part = "mcp" /\ OwnStep(t))
  /\ \A t \in Threads : WF_mcpVars(part = "mcp" /\ StopCall(t))
  /\ WF_mcpVars(part = "mcp" /\ ManagerStep)
  /\ \A s \in Servers : WF_mcpVars(part = "mcp" /\ owner[s] = "stopping" /\ OwnerEnds(s))
  /\ WF_chainVars(part = "chain" /\ RequestWork /\ UNCHANGED <<chain, streams>>)
  /\ \A c \in Callers : WF_lifeVars(part = "life" /\ CallerStep(c))
  /\ \A c \in Callers : WF_lifeVars(part = "life" /\ Draining(c))
  /\ WF_lifeVars(part = "life" /\ CloserStep)
  /\ WF_curatorVars(part = "curator" /\ AssemblyWork /\ UNCHANGED transcript)
Spec == Init /\ [][Next]_vars /\ Fairness

\* What goes to a model and what comes back is sound.  All that is shown of an
\* answer is one provider's, whatever failed before it (ProviderChain); a history
\* put together for a request keeps what it must, keeps calls with their results
\* and was paid for within the limit on calls (ContextCurator).
RequestsAreSound == OneVoice /\ ContextIsSound

\* What somebody waits for in each part; no part has more than three.
Waits(k) ==
  CASE part = "cron" -> JobWaits(<<beat, once, again>>[k])
    [] part = "process" -> k = 1 /\ CommandWaits
    [] part = "mcp" -> IF k = 3 THEN ShutdownWaits ELSE OperationWaits(<<host,
            tool>>[k])
    [] part = "chain" -> k = 1 /\ RequestWaits
    [] part = "life" -> IF k = 3 THEN CloseWaits ELSE AskWaits(<<a1, a2>>[k])
    [] part = "curator" -> k = 1 /\ AssemblyWaits

\* Nobody waits for ever: a job that is due is run, although its worker dies; a
\* command that is stopped is answered for; a call to a server of tools and its
\* shutdown, a request to a model, an ask and a close of an agent and the assembly
\* of a context end.
ServicesEnd == \A k \in 1..3 : Waits(k) ~> ~Waits(k)
=============================================================================
