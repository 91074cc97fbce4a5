SPECIFICATION AgentSpec
CONSTANTS
  Stages = {"implementation", "review"}
  Worker <- MCWorker
  LocalStages = {"implementation"}
  ReadOnlyStages = {"review"}
  Slots = 2
  MaxIterations = 2
  MaxTokens = 1
  MaxCalls = 1
  MaxRuns = 2
  MaxBoots = 1
  MaxFaults = 1
CHECK_DEADLOCK FALSE
INVARIANTS
  EffectOnce
  NothingHeldAtRest
PROPERTY LoopEnds
