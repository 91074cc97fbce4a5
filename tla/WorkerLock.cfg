CONSTANTS
  p1 = p1  p2 = p2  p3 = p3
  a = a  b = b  c = c
  Procs = {p1, p2, p3}
  Pids = {a, b, c}
  PidOf <- ReusedPid
  Absent = Absent
  Garbage = Garbage
SPECIFICATION Spec
INVARIANTS OwnerExclusion
PROPERTIES LiveClaimIsKept
CHECK_DEADLOCK FALSE
