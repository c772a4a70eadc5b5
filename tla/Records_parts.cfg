\* What is recorded, each kind in turn; the bounds of each are under its name.
SPECIFICATION Spec
CONSTANTS
  \* SessionStore: two servers on one session file
  Procs = {p1, p2}
  Titles = {a, b}
  MaxRows = 2
  Settings <- SessionSettings
  \* WorkingMemory
  five = five
  ten = ten
  alone = alone
  Files = {f1, f2}
  Contents = {five, ten}
  Remarks = {alone}
  Subject <- Subjects
  noSubject = noSubject
  Unset = Unset
  FileLimit = 1
  NoteLimit = 2
  MaxNotes = 2
  MaxClock = 1
  MaxChanges = 1
  \* RequestBudget
  Modes = {"text", "structured", "native"}
  Pasts <- Histories
  Growths <- Grown
  Texts <- Sections
  Budgets <- SectionBudgets
  Floors <- AtLeast
  Explicit = {"notes"}
  Order <- ReducedIn
  RequestSize = 2
  TotalBudget = 14
  Window = 13
  Recent = 2
  KeptResults = 1
  MaxShrinks = 2
  Placeholder = 1
  MaxToolRounds = 3
  \* EvalCampaigns: the campaigns of a pair, and two tasks
  left1 = left1
  right1 = right1
  bench = bench
  input = input
  Campaigns = {left1, right1}
  BenchmarkOf <- OneBenchmark
  InputOf <- OneInput
  EvalPlan <- TwoTasks
  PricedCalls = 2
  MaxProbes = 2
  CallCap = 6
  nobodyPays = nobodyPays
  Commits = {v1, v2}
  head = v1
  Outcomes <- Graded
  MaxEdits = 1
  MaxLaunches = 2
  \* FocusedPilot: two operators
  Operators = {op1, op2}
  noOperator = noOperator
  PilotTasks = 2
  TrialLimit = 2
  PilotCap = 8
  Prices = {1, 3}
  unpriced = unpriced
  MaxDrifts = 2
  MaxPilots = 2
  \* FocusedSearch: three tasks, two causes of failure
  task1 = task1
  task2 = task2
  task3 = task3
  TrainTasks = {task1, task2, task3}
  WhyOf <- Causes
  SentinelCount = 2
  MaxTrials = 15
  MaxCandidateTrials = 5
  MaxModelCalls = 4
  Retries = 1
  SearchRounds = 2
  Patience = 2
  MaxErrors = 1
  MaxSearchDies = 1
  MaxReplans = 1
  \* GatewayLease: one gateway more than there are deaths
  Gateways = {g1, g2, g3}
  noGateway = noGateway
  MaxDeaths = 2
  MaxStarts = 4
  MaxReuses = 1
  \* ToolGateway: answers of three calls, at most two of which run alone
  MaxCalls = 3
  MaxParallel = 2
  MaxUserEdits = 1
INVARIANTS StoreIsSound WhatIsToldIsSound NothingIsTakenTwice PilotIsSound
  SideEffectsRunAlone ResultTellsTheWorkspace NotesAreInOrder
PROPERTIES SharedWritesAgree CancelledStartsNothing
CHECK_DEADLOCK FALSE
