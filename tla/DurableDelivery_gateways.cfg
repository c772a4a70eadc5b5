\* One identity polled from three files, with write faults and two restarts; and
\* two messages and a crash or an orderly stop, with writes that work.
SPECIFICATION FairSpec
CONSTANTS
  Files <- AllFiles
  Turns = {1, 2}
  Settings <- Gateways
CHECK_DEADLOCK FALSE
INVARIANTS ReceiptsAreTrue
PROPERTIES ReceiptsSettle
