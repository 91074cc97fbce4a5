SPECIFICATION Spec
CONSTANTS
    MaxEdits = 3
INVARIANT PhaseIsEarned
CHECK_DEADLOCK FALSE
