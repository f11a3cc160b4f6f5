SPECIFICATION Spec
CONSTANTS
    r1 = r1
    r2 = r2
    a1 = a1
    b2 = b2
    a4 = a4
    c5 = c5
    forged = forged
    far = far
    Cron = {w1}
    Relay = {r1, r2}
    Event = {a1, b2, a4, c5}
    Genuine = {a1, b2, a4, c5}
    At <- Times
    SlotOf <- Slots
    Backlogs <- Spread
    Limit = 2
    MaxPages = 3
    VerifyCap = 5
    Skew = 1
    Start = 5
    End = 5
    Delay = 0
    MaxFaults = 0
CHECK_DEADLOCK FALSE
INVARIANTS
    NothingStranded
