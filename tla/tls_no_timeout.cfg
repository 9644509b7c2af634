SPECIFICATION FairSpec
CONSTANTS
    Probes <- MCProbes
    BannerCap = 2
    MaxFlights = 2
PROPERTIES ScanEnds
CHECK_DEADLOCK FALSE
