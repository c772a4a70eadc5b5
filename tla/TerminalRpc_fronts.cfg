\* Front ends with timers, with late threads, with neither, and with both.
SPECIFICATION FairSpec
CONSTANTS
  t1 = t1
  t2 = t2
  Turns = {t1, t2}
  MaxRequests = 2
  MaxSwitches = 1
  Settings <- FrontEnds
INVARIANTS PromptsAreLive
PROPERTIES OnlyApprovedRuns WaitsEnd
