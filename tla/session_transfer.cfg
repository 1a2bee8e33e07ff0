CONSTANTS
    NumConns = 2
    Scopes <- MCBoth
    maxFollowedHops = 2
    Breaks = FALSE
SPECIFICATION Spec
CHECK_DEADLOCK FALSE
INVARIANTS TypeOK DialAfterRelease IdentityMatches BridgeErrorOnce PackWorkTied SoleClient
PROPERTIES TransferFollowed ImplementsHops
