SPECIFICATION ReviewSpec
CONSTANTS
  PolicyPaths <- MCPaths
  NoPath = NoPath
  Policy <- MCPolicy
  TierPolicy <- MCTierPolicy
  Contents <- MCContents
  Candidate <- MCCandidate
  Plan <- MCPlan
  Required = {"unit"}
  CheckPaths <- MCCheckPaths
  FullAfterRemediation = FALSE
  FindingIds = {"f1", "f2"}
  Cites <- MCCites
  Reviewer <- MCReviewer
  Isolation <- MCIsolation
  AllowSameModel = FALSE
  Limits <- MCLimits
  Reservation <- MCReservation
  Initial <- MCInitial
  Usages <- MCUsages
  MaxReviews = 2
  MaxRemediations = 2
  MaxDrives = 2
  SpendCap = 5
INVARIANTS
  CleanIsTested
  NoObjectionForgotten
  CleanIsAuthorised
PROPERTY
  CycleEnds
CHECK_DEADLOCK FALSE
