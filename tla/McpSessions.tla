---------------------------- MODULE McpSessions ----------------------------
(***************************************************************************)
(* The MCP servers of an agent (repoagent/mcp.py, mcp_transport.py,        *)
(* mcp_http.py).  MCPManager discovers the tools of every server once,     *)
(* through a session it closes again; a call opens a session lazily and    *)
(* leaves it open for the next.  Each SDKMCPClient has a lock, which a     *)
(* thread holds for a whole call, and a portal: an event loop in a thread  *)
(* of its own in which one task, the owner, keeps the SDK's session.  The  *)
(* owner, the server behind it, the deadline of a call and its             *)
(* cancellation all move while the caller polls.                           *)
(***************************************************************************)
EXTENDS Naturals, FiniteSets

CONSTANTS
  Servers,      \* the configured servers
  Required,     \* those whose absence fails the discovery
  Threads,      \* the threads that call tools
  host,         \* the thread that builds the agent and closes it
  noServer,     \* a lock nobody holds, a thread without a server
  MaxMcpCalls,  \* bound: calls and the shutdown together
  MaxCatalogs   \* bound: how many catalogs a server ever offers

ASSUME McpAssumption ==
  /\ host \in Threads /\ noServer \notin Threads \cup Servers /\ Required \subseteq Servers
  /\ {MaxMcpCalls, MaxCatalogs} \subseteq Nat

VARIABLES
  thread,      \* what each thread is doing, to which server
  mcpLock,     \* who holds each client's lock
  owner,       \* the owner task: none, opening, ready, stopping, done
  link,        \* the number of a client's session, 0 before it is ready
  agreed,      \* the catalog the client has seen first, 0 for none
  offered,     \* the catalog the server offers now
  links,       \* how many sessions each client has opened
  suspect,     \* the sessions in which a call was given up
  toVisit,     \* the servers the discovery, then the shutdown, has before it
  tools,       \* the servers whose tools are registered, with their catalogs
  phase,       \* of the manager: new, serving, refused, closing, closed
  mcpCalls

mcpVars == <<thread, mcpLock, owner, link, agreed, offered, links, suspect, toVisit,
             tools, phase, mcpCalls>>

Resting == [at |-> "rest", srv |-> noServer, op |-> "none", stop |-> FALSE, ok |-> TRUE]
Ops == {"none", "list", "call", "shut"}

McpInit ==
  /\ thread = [t \in Threads |-> Resting]
  /\ mcpLock = [s \in Servers |-> noServer]
  /\ owner = [s \in Servers |-> "none"] /\ link = [s \in Servers |-> 0]
  /\ agreed = [s \in Servers |-> 0] /\ offered = [s \in Servers |-> 1]
  /\ links = [s \in Servers |-> 0] /\ suspect = [s \in Servers |-> {}]
  /\ toVisit = Servers /\ tools = {} /\ phase = "new" /\ mcpCalls = 0

Sits(t, at) == thread[t].at = at
Srv(t) == thread[t].srv
Move(t, at) == thread' = [thread EXCEPT ![t].at = at]
Connected(s) == link[s] # 0 /\ owner[s] # "done"
managerVars == <<toVisit, tools, phase, mcpCalls>>
linkVars == <<owner, link, agreed, links>>

---------------------------------------------------------------------------
(* The owner task of a client, SDKMCPClient._serve, and the server.        *)

\* Streams, initialize and the pages of list_tools, within the startup
\* timeout: a catalog, one that differs from the first, or no session at all.
FaultySameCatalog(s) == TRUE
SameCatalog(s) == agreed[s] \in {0, offered[s]}
OwnerReady(s) ==
  /\ owner[s] = "opening" /\ SameCatalog(s)
  /\ owner' = [owner EXCEPT ![s] = "ready"]
  /\ links' = [links EXCEPT ![s] = @ + 1] /\ link' = [link EXCEPT ![s] = links[s] + 1]
  /\ agreed' = [agreed EXCEPT ![s] = offered[s]]
  /\ UNCHANGED <<thread, mcpLock, offered, suspect, managerVars>>

\* The task ends: it could not open, it was told to stop or cancelled, or the
\* transport under it broke.
OwnerEnds(s) ==
  /\ owner[s] \in {"opening", "ready", "stopping"}
  /\ owner' = [owner EXCEPT ![s] = "done"] /\ link' = [link EXCEPT ![s] = 0]
  /\ UNCHANGED <<thread, mcpLock, agreed, offered, links, suspect, managerVars>>

CatalogChanges(s) ==
  /\ offered[s] < MaxCatalogs /\ offered' = [offered EXCEPT ![s] = @ + 1]
  /\ UNCHANGED <<thread, mcpLock, linkVars, suspect, managerVars>>

---------------------------------------------------------------------------
(* One operation of a client, in whichever thread calls it.                *)

\* A deadline or a cancellation, seen when the thread looks at its control.
StopCall(t) ==
  /\ thread[t].op = "call" /\ ~thread[t].stop
  /\ thread' = [thread EXCEPT ![t].stop = TRUE]
  /\ UNCHANGED <<mcpLock, linkVars, offered, suspect, managerVars>>

Acquire(t) ==
  /\ Sits(t, "lock") /\ mcpLock[Srv(t)] = noServer
  /\ mcpLock' = [mcpLock EXCEPT ![Srv(t)] = t]
  /\ Move(t, CASE thread[t].op = "shut" -> "close"
               [] thread[t].op = "call" /\ thread[t].stop -> "release"
               [] OTHER -> "connect")
  /\ UNCHANGED <<linkVars, offered, suspect, managerVars>>

\* _connect: what is left of a session is closed, and a new one started.
Connect(t) ==
  /\ Sits(t, "connect")
  /\ IF Connected(Srv(t)) THEN Move(t, "connected") /\ UNCHANGED owner
     ELSE IF owner[Srv(t)] # "none" THEN Move(t, "reopen") /\ UNCHANGED owner
     ELSE Move(t, "await") /\ owner' = [owner EXCEPT ![Srv(t)] = "opening"]
  /\ UNCHANGED <<mcpLock, link, agreed, links, offered, suspect, managerVars>>

\* The wait for the ready event: the owner ended, time ran out, or the
\* call was stopped; all three close what was opened.
AwaitOwner(t) ==
  /\ Sits(t, "await")
  /\ \/ owner[Srv(t)] = "ready" /\ Move(t, "connected")
     \/ thread' = [thread EXCEPT ![t].at = "close", ![t].ok = FALSE]
  /\ UNCHANGED <<mcpLock, linkVars, offered, suspect, managerVars>>

\* A listing has its copy of the catalog; a call is sent if it still may be.
\* A session that has just ended fails the call in the portal.
Proceed(t) ==
  /\ Sits(t, "connected")
  /\ IF thread[t].op = "list" THEN Move(t, "close")
     ELSE IF thread[t].stop THEN Move(t, "close")
     ELSE IF link[Srv(t)] = 0
            THEN thread' = [thread EXCEPT ![t].at = "close", ![t].ok = FALSE]
     ELSE Move(t, "calling")
  /\ UNCHANGED <<mcpLock, linkVars, offered, suspect, managerVars>>

\* The server answers, and the session stays; this is the only way to keep it.
Answer(t) ==
  /\ Sits(t, "calling") /\ link[Srv(t)] # 0
  /\ Move(t, "release")
  /\ UNCHANGED <<mcpLock, linkVars, offered, suspect, managerVars>>

\* The call was stopped, its session ended, or it raised: whether the server
\* has done it is not known, and the session is closed.
Suspected(s) == suspect' = [suspect EXCEPT ![s] = @ \cup {links[s]}]
FaultyAfterUncertain == "release"
AfterUncertain == "close"
Abandon(t) ==
  /\ Sits(t, "calling")
  /\ Suspected(Srv(t))
  /\ thread' = [thread EXCEPT ![t].at = AfterUncertain, ![t].ok = FALSE]
  /\ UNCHANGED <<mcpLock, linkVars, offered, managerVars>>

\* close(): the owner is told to stop, or cancelled when it is not ready, and
\* awaited; leaving the portal waits for it in any case.
FaultyToldToStop(s) == owner[s] = "ready"
ToldToStop(s) == owner[s] \in {"opening", "ready"}
CloseSession(t) ==
  /\ Sits(t, "close") /\ owner[Srv(t)] \in {"opening", "ready"}
  /\ Move(t, "closing")
  /\ owner' = [owner EXCEPT ![Srv(t)] = IF ToldToStop(Srv(t)) THEN "stopping" ELSE @]
  /\ UNCHANGED <<mcpLock, link, agreed, links, offered, suspect, managerVars>>

\* When it had to wait, the ten seconds for the owner's result may have run
\* out, or the owner failed as it stopped: close() raises at its end.
SessionClosed(t) ==
  /\ thread[t].at \in {"close", "closing", "reopen"}
  /\ owner[Srv(t)] \in {"done", "none"}
  /\ owner' = [owner EXCEPT ![Srv(t)] = "none"] /\ link' = [link EXCEPT ![Srv(t)] = 0]
  /\ \/ Sits(t, "reopen") /\ Move(t, "connect")
     \/ ~Sits(t, "reopen") /\ Move(t, "release")
     \/ Sits(t, "closing") /\ thread' = [thread EXCEPT ![t].at = "release", ![t].ok = FALSE]
  /\ UNCHANGED <<mcpLock, agreed, links, offered, suspect, managerVars>>

---------------------------------------------------------------------------
(* MCPManager: discover, then calls, then close.                           *)

BeginOp(t, op, s) ==
  thread' = [thread EXCEPT ![t] = [Resting EXCEPT !.at = "lock", !.srv = s, !.op = op]]

\* Servers are visited in the order of their names; any order will do here.
Visit ==
  /\ thread[host] = Resting /\ phase = "new"
  /\ \E s \in toVisit : BeginOp(host, "list", s) /\ toVisit' = toVisit \ {s}
  /\ UNCHANGED <<mcpLock, linkVars, offered, suspect, tools, phase, mcpCalls>>

\* A name that is taken, a definition that is invalid, or a required server
\* that does not answer refuses the agent; an optional one is left out.  The
\* agent is then closed by its constructor, with whatever is open.
Discovered(t) ==
  LET s == Srv(t) IN
  IF thread[t].ok
  THEN \/ tools' = tools \cup {<<s, agreed[s]>>} /\ UNCHANGED <<phase, toVisit>>
       \/ tools' = {} /\ phase' = "closing" /\ toVisit' = Servers
  ELSE \/ s \notin Required /\ UNCHANGED <<tools, phase, toVisit>>
       \/ tools' = {} /\ phase' = "closing" /\ toVisit' = Servers

\* The lock is released and the operation returns.
ReleaseLock(t) ==
  /\ Sits(t, "release")
  /\ mcpLock' = [mcpLock EXCEPT ![Srv(t)] = noServer]
  /\ thread' = [thread EXCEPT ![t] = Resting]
  /\ IF thread[t].op = "list" THEN Discovered(t) ELSE UNCHANGED <<tools, phase, toVisit>>
  /\ UNCHANGED <<linkVars, offered, suspect, mcpCalls>>

Serve ==
  /\ thread[host] = Resting /\ phase = "new" /\ toVisit = {}
  /\ phase' = "serving"
  /\ UNCHANGED <<thread, mcpLock, linkVars, offered, suspect, toVisit, tools, mcpCalls>>

\* A call of a registered tool, by a turn's thread.
CallTool(t, s) ==
  /\ thread[t] = Resting /\ phase = "serving" /\ (\E k \in 0..MaxCatalogs : <<s, k>> \in tools)
  /\ mcpCalls < MaxMcpCalls /\ mcpCalls' = mcpCalls + 1
  /\ BeginOp(t, "call", s)
  /\ UNCHANGED <<mcpLock, linkVars, offered, suspect, toVisit, tools, phase>>

\* RepoAgent.aclose: the scheduler has been shut down, so that every call
\* still under way belongs to a cancelled turn.
ShutDown ==
  /\ phase = "serving" /\ thread[host] = Resting
  /\ \A t \in Threads : thread[t] = Resting \/ thread[t].stop
  /\ phase' = "closing" /\ toVisit' = Servers
  /\ UNCHANGED <<thread, mcpLock, linkVars, offered, suspect, tools, mcpCalls>>

\* MCPManager.close: every client, whatever the others raised.
CloseNext ==
  /\ phase = "closing" /\ thread[host] = Resting
  /\ IF toVisit = {}
       THEN phase' = "closed" /\ UNCHANGED <<thread, toVisit>>
       ELSE /\ \E s \in toVisit : BeginOp(host, "shut", s) /\ toVisit' = toVisit \ {s}
            /\ UNCHANGED phase
  /\ UNCHANGED <<mcpLock, linkVars, offered, suspect, tools, mcpCalls>>

\* What a thread does without its server: it polls, closes and returns.
OwnStep(t) ==
  \/ Acquire(t) \/ Connect(t) \/ AwaitOwner(t) \/ Proceed(t) \/ (thread[t].stop /\ Abandon(t))
  \/ CloseSession(t) \/ SessionClosed(t) \/ ReleaseLock(t)
ManagerStep == Visit \/ Serve \/ CloseNext
OwnerStep(s) == OwnerReady(s) \/ OwnerEnds(s)

McpNext ==
  \/ \E t \in Threads :
       OwnStep(t) \/ Answer(t) \/ Abandon(t) \/ StopCall(t) \/ \E s \in Servers : CallTool(t, s)
  \/ ManagerStep \/ ShutDown
  \/ \E s \in Servers : OwnerStep(s) \/ CatalogChanges(s)

---------------------------------------------------------------------------
(* Properties.                                                             *)

Places == {"rest", "lock", "connect", "await", "connected", "calling", "reopen",
           "close", "closing", "release"}
McpTypes ==
  /\ \A t \in Threads : /\ thread[t].at \in Places /\ thread[t].op \in Ops
                        /\ Srv(t) \in Servers \cup {noServer}
  /\ \A s \in Servers : /\ owner[s] \in {"none", "opening", "ready", "stopping", "done"}
                        /\ link[s] \in 0..links[s] /\ mcpLock[s] \in Threads \cup {noServer}

\* "One portal owns SDK async scopes" (mcp_transport.py:200): whichever thread
\* opened a session, and however it broke, a call is sent only by the thread
\* that holds the client's lock, in a session that offers the tools the agent
\* registered (:274) and in which no earlier call was given up (:388).  When
\* nobody uses a client it has a session that is ready, or one that ended by
\* itself, or none, and after the shutdown every owner task is gone, although
\* threads of cancelled turns may come to the lock after it.
SessionsAreOwned ==
  /\ McpTypes
  /\ \A t \in Threads : Srv(t) # noServer /\ ~Sits(t, "lock") => mcpLock[Srv(t)] = t
  /\ \A t \in Threads : Sits(t, "calling") /\ link[Srv(t)] # 0 =>
       <<Srv(t), agreed[Srv(t)]>> \in tools /\ link[Srv(t)] \notin suspect[Srv(t)]
  /\ \A s \in Servers : mcpLock[s] = noServer =>
       owner[s] \in {"none", "ready", "done"} /\ link[s] \notin suspect[s]
  /\ phase = "closed" => \A s \in Servers : owner[s] = "none"

\* Every operation ends, and a shutdown ends, although a server never answers,
\* an owner is slow to stop and a thread waits for another's call.
OperationWaits(t) == thread[t] # Resting
ShutdownWaits == phase = "closing"
=============================================================================
