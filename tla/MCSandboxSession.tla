------------------------- MODULE MCSandboxSession -------------------------
(* The workspaces TLC explores.                                            *)
EXTENDS SandboxSession

CONSTANTS h1, h2, server, shell

\* Two processes, a command that fails and a crash.
Shared == [hosts |-> {h1, h2}, execs |-> {}, faults |-> 1, crashes |-> 1, moves |-> 0]

\* A shell call and an MCP server in the containers of one process.
Busy == [hosts |-> {h1}, execs |-> {server, shell}, faults |-> 1, crashes |-> 1, moves |-> 0]

\* Two processes and an engine that changes.
Moving == [hosts |-> {h1, h2}, execs |-> {}, faults |-> 0, crashes |-> 1, moves |-> 1]

\* Two processes, one of which is asked for a shell call.
Beside == [hosts |-> {h1, h2}, execs |-> {shell}, faults |-> 0, crashes |-> 1, moves |-> 0]

Workspaces == {Shared, Busy, Moving, Beside}
============================================================================
