\* Four workspaces: shared by two processes, busy with executions, with an engine
\* that changes, and shared beside a shell call.
SPECIFICATION SweptSpec
CONSTANTS
    h1 = h1
    h2 = h2
    server = server
    shell = shell
    Hosts = {h1, h2}
    Tokens = {t1, t2}
    Execs = {server, shell}
    Shells = {shell}
    Engines = {d1, d2}
    Settings <- Workspaces
    None = none
CHECK_DEADLOCK FALSE
INVARIANTS BoxesAreAccounted
PROPERTIES SessionKeepsItsBox OrphansAreReclaimed
