CONSTANTS
    q1 = q1
    Nobody = Nobody
    Requests <- OneRequest
    Contents = {"pack"}
    Scopes <- LiveScopes
SPECIFICATION FairSpec
CHECK_DEADLOCK FALSE
INVARIANTS StatusExact VerifiedShowsAll ExitZeroMeansWhole PagesExact
PROPERTIES VerdictStays SessionEnds
