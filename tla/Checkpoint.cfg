SPECIFICATION Spec
CONSTANTS
  Contents = {"a", "b"}
  NoChange = "base"
  MaxExecutions = 1
  BatchTier = TRUE
  MaxUpsets = 2
INVARIANTS
  AppliedOnce
  LandedOnce
  PhaseFollowsLedger
PROPERTIES
  CompletionIsEarned
  BatchResolves
CHECK_DEADLOCK FALSE
