SPECIFICATION FairSpec
CONSTANTS
  MaxTurns = 2
  AgentSettings <- Agents
INVARIANTS TurnsAreSound
PROPERTIES CompletedStands EveryTurnAnswered
