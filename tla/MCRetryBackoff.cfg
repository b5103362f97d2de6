CONSTANTS
    Initial = 1
    Maximum = 10
    None = None
    MaxTime = 24
    MaxSetBacks = 1
SPECIFICATION Spec
INVARIANTS RetryInRange AlarmIsNear
PROPERTY AlarmRetryResets
CHECK_DEADLOCK FALSE
