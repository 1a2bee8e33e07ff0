CONSTANTS
    Keys <- MCKeys
    Other <- MCOther
    Encrypted <- MCEncrypted
    Offers <- MCOffers
    Later <- MCLater
    Workers = 2
    MaxInfos = 2
    Modes <- MCModes
SPECIFICATION FairSpec
CHECK_DEADLOCK FALSE
INVARIANTS ArchivesExact DerivedExact
PROPERTIES ExchangeEnds
