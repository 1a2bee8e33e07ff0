CONSTANTS
    NumConns = 1
    Scopes <- MCFollowing
    maxFollowedHops = 2
    Breaks = TRUE
SPECIFICATION FairSpec
CHECK_DEADLOCK FALSE
PROPERTIES SessionProgress
