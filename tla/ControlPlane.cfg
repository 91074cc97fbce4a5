CONSTANTS
  e1 = e1  e2 = e2  x = x
  Executions = {e1, e2}
  Projects = {x}
  ProjectOf <- OneProject
  KeyOf <- DistinctKey
  Foreground = {e2}
  Ceiling <- OneSlot
  GlobalCeiling = 2
  MaxUpsets = 1
SPECIFICATION FairSpec
INVARIANTS SlotLedger CompletedMeansSucceeded BoundSurvivorNotReplaced
PROPERTIES ImplementsQueue SupervisedRunEnds
CHECK_DEADLOCK FALSE
