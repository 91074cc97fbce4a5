CONSTANTS
  r1 = r1  r2 = r2  money = money  slots = slots
  Owners = {r1, r2}
  Pools = {money, slots}
  MaxAmount = 1
  MaxTime = 1
SPECIFICATION Spec
INVARIANTS CapacityLedger RecoveredOnProof
SYMMETRY Interchangeable
CHECK_DEADLOCK FALSE
