SPECIFICATION FairSpec
CONSTANTS
    early = early
    late = late
    forged = forged
    junk = junk
    Cron = {w1, w2}
    Receipt = {early, late, forged, junk}
    Post = {post}
    MaxKey = 2
    At <- Times
    PostOf <- Posts
    KeyOf <- Keys
    Amount <- Msats
    Parses = {early, late, forged}
    Signed = {early, late}
    Limit = 3
    VerifyCap = 2
    Ttl = 1
    Skew = 0
    End = 2
    RelaysFail = FALSE
    MaxFaults = 1
CHECK_DEADLOCK FALSE
INVARIANTS
    TypeOK
    NothingSkipped
PROPERTIES
    ReachableAreCounted
