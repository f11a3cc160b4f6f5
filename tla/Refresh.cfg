SPECIFICATION FairSpec
CONSTANTS
    r1 = r1
    r2 = r2
    a1 = a1
    b2 = b2
    a4 = a4
    c5 = c5
    forged = forged
    far = far
    Cron = {w1}
    Relay = {r1, r2}
    Event = {a1, b2, a4, forged, far}
    Genuine = {a1, b2, a4, far}
    At <- Times
    SlotOf <- Slots
    Backlogs <- SmallSecond
    Limit = 3
    MaxPages = 2
    VerifyCap = 2
    Skew = 1
    Start = 4
    End = 5
    Delay = 2
    MaxFaults = 1
CHECK_DEADLOCK FALSE
INVARIANTS
    TypeOK
    NothingElseStranded
    WatermarkVerified
PROPERTIES
    BacklogDrains
