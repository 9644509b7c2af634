SPECIFICATION Spec
CONSTANTS
    MaxPorts = 2
    MaxScans = 1
    Rates = {1, 2}
    Timeouts = {1, 2}
INVARIANTS OptionsSetBeforeStart
CHECK_DEADLOCK FALSE
