SPECIFICATION Spec
CONSTANTS
    Workers = {w1}
    Tasks = {t1}
    Throwing = {}
    NoTask = NoTask
INVARIANTS HardStopCancels
CHECK_DEADLOCK FALSE
