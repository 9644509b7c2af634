SPECIFICATION Spec
CONSTANTS
    Invocations <- MCBinary
    Captures <- MCCaptures
    Banners <- MCBanners
    TlsServers <- MCTlsServers
CHECK_DEADLOCK FALSE
INVARIANTS OutputAsJson
