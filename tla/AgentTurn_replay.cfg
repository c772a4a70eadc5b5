\* Two turns; the second sends what the first, cancelled between two batches, left.
SPECIFICATION TurnsSpec
CONSTANTS
  MaxTurns = 2
  AgentSettings <- Interrupted
INVARIANT EveryRequestIsPaired
