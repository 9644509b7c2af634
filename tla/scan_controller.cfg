SPECIFICATION FairSpec
CONSTANTS
    MaxPorts = 2
    MaxScans = 2
    Rates = {0, 1}
    Timeouts = {0, 1}
INVARIANTS TypeOK NoneLeftBehind StartNeverWaits
PROPERTIES IsScanSession ScanFinishes CallsReturn
CHECK_DEADLOCK FALSE
