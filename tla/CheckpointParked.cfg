SPECIFICATION Spec
CONSTANTS
  Contents = {"a", "b"}
  NoChange = "base"
  MaxExecutions = 1
  BatchTier = TRUE
  MaxUpsets = 1
INVARIANT
  LandedWasReviewed
CHECK_DEADLOCK FALSE
