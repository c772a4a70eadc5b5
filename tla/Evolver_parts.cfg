SPECIFICATION Spec
CONSTANTS
  c1 = c1
  c2 = c2
  Hosts = {h1, h2}
  Candidates = {c1, c2}
  Runs = {r1}
  nobody = nobody
  begun = begun
  Pairs = 1
  Limit = 1
  MaxPairs = 2
  Results <- Scores
  MaxRounds = 2
  Patience = 2
  MaxErrors = 1
  Regimes <- Ways
  prompt = prompt
  skill = skill
  Operators = {o1, o2}
  Strategies = {c1, c2}
  MaxTasks = 1
  Labels = {prompt, skill}
  t1 = t1
  t2 = t2
  t3 = t3
  Tokens = {t1, t2, t3}
  TokenOf <- ForWhom
  LabelOf <- RouteOf
  noEvent = noEvent
  MaxEvents = 5
  MaxStops = 1
  MaxModelCalls = 3
  CallPrice = 1
  CostLimit = 2
  MaxFrames = 4
INVARIANTS ExperimentsAreSound ApprovalsAreSpentOnce
PROPERTIES LatchesHold DeploymentIsAStack EvolverEnds
CHECK_DEADLOCK FALSE
