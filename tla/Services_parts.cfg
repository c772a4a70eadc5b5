\* Each of the services in turn; the bounds of each are under its name.
SPECIFICATION Spec
CONSTANTS
  \* CronClaims: two workers, slower than their claims or not, and one crash
  beat = beat
  once = once
  again = again
  Workers = {w1, w2}
  Jobs = {beat, once, again}
  Periodic = {beat, again}
  Key <- Keys
  Interval = 2
  ClaimTTL = 2
  Limit = 2
  MaxCrashes = 1
  Nobody = Nobody
  NoJob = NoJob
  \* McpSessions: two servers, one of them required, and two threads
  Servers = {m1, m2}
  Required = {m1}
  Threads = {host, tool}
  host = host
  tool = tool
  noServer = noServer
  MaxMcpCalls = 2
  MaxCatalogs = 2
  \* ProviderChain
  Chains <- Chain3
  MaxDeltas = 2
  \* AgentLifetime: two callers, and another process with the same file
  a1 = a1
  a2 = a2
  n1 = n1
  n2 = n2
  n3 = n3
  Callers = {a1, a2}
  NoteOf <- Notes
  theirs = n3
  MaxRecords = 2
  MaxAsks = 3
  MaxCloses = 1
  MaxFailures = 1
  \* ContextCurator
  Sessions <- Transcripts
  Capacity = 5
  Threshold = 4
  Protected = 1
  RecentWindow = 2
  FallbackRecent = 3
  FallbackBest = 2
  MaxSteps = 2
  CallLimit = 3
  MaxTunes = 1
  MaxAssemblies = 2
  MaxKills = 1
INVARIANTS AnswerIsTrue SessionsAreOwned LifeHolds RequestsAreSound
PROPERTIES ClaimsHold ServicesEnd
CHECK_DEADLOCK FALSE
