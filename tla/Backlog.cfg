CONSTANTS
  a = a  b = b  r1 = r1  r2 = r2
  Prds = {a, b}
  Runs = {r1, r2}
  Operator = Operator
  Deps <- DepsByText
  Manifest = {a}
  Edited = {b}
  MaxEdits = 1
SPECIFICATION Spec
INVARIANTS ClaimIsLatestEvent CompletedOnce LandedRunCompletes ClosedCheckpointIsCompleted
PROPERTIES DependenciesKept
SYMMETRY Interchangeable
CHECK_DEADLOCK FALSE
