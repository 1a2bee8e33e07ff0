CONSTANTS
    NumConns = 1
    Scopes <- MCFollowing
    maxFollowedHops = 2
    Breaks = FALSE
SPECIFICATION FairSpec
CHECK_DEADLOCK FALSE
PROPERTIES StalledClientReleased
