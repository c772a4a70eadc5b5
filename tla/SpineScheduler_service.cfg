\* Two sessions share one permit; runners may hang, and the run store may fail.
SPECIFICATION FairSpec
CONSTANTS
  Sessions = {s1, s2}
  MaxTurns = 2
  Classes = {foreground}
  Capacity <- OnePermitEach
  DiskFaults = TRUE
  NoTurn = NoTurn
INVARIANTS PermitsBalance ClosedIsClean
PROPERTIES ImplementsService WorkEnds
