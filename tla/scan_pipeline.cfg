SPECIFICATION FairPeerSpec
CONSTANTS
    Probes <- MCProbes
    BannerCap = 2
    MaxFlights = 2
INVARIANTS TypeOK ConnectionsClosed ProbesDoNotMix TimeoutBudget
PROPERTIES ScanEnds
CHECK_DEADLOCK FALSE
