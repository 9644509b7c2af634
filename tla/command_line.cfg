SPECIFICATION Spec
CONSTANTS
    Invocations <- MCInvocations
    Captures <- MCCaptures
    Banners <- MCBanners
    TlsServers <- MCTlsServers
CHECK_DEADLOCK FALSE
INVARIANTS ScansWhatWasAsked CdnLabelled FindingsScored FingerprintsOfHandshake
    ReportFaithful
