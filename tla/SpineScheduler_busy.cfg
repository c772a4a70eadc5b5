\* One busy session, every busy policy, three turns and a faulty run store.
SPECIFICATION Spec
CONSTANTS
  Sessions = {s1}
  MaxTurns = 3
  Classes = {foreground}
  Capacity <- OnePermitEach
  DiskFaults = TRUE
  NoTurn = NoTurn
INVARIANTS OpenTurnHasOneOwner RecordsAgree
PROPERTIES AnsweredOnce
