CONSTANTS
  Prds = {1, 2, 3}
  Deps <- ThreeNeedsOne
  Conflicts <- TwoAndThree
  Withheld = {2}
  Laddered = {1}
  Attended = {1}
  Poc = TRUE
  Parallelism = 2
  MaxPrds = 0
  MaxSessions = 2
SPECIFICATION Spec
INVARIANTS NoOverlap LandingsAreKept CompletedIsIntegrated StartsOnLandedWork EndsAccounted NeverWaitsInVain
CHECK_DEADLOCK FALSE
