SPECIFICATION FairSpec
CONSTANTS
    Plan <- OneIndex
    Keyed = TRUE
    NbFrag = 2
    LastFrag = 3
    Lmax = 0
    MaxCommandRetries = 1
    MaxAckRetries = 1
    MaxCalls = 2
    MaxScheduled = 1
    NbApps = 2
    App = 1
INVARIANTS CompleteMeansImage AttemptsAreTransmissions
PROPERTIES ProgressKept ExchangesEnd
