SPECIFICATION Spec
CONSTANTS
    alice = alice
    bob = bob
    p1 = p1
    p2 = p2
    d1 = d1
    b1 = b1
    s1 = s1
    s2 = s2
    everything = everything
    deletes = deletes
    slotP = slotP
    slotD = slotD
    slotB = slotB
    NoEvent = NoEvent
    NoKey = NoKey
    NoFrame = NoFrame
    NoHorizon <- MCNoHorizon
    Event = {p1, p2, d1}
    Address = {slotP, slotD, slotB}
    Author <- MCAuthor
    CreatedAt <- MCCreatedAt
    IsPost <- MCIsPost
    IsDelete <- MCIsDelete
    Slot <- MCSlot
    Loses <- MCLoses
    Erases <- MCErases
    Covers <- MCCovers
    Id <- MCId
    Clauses <- MCClauses
    Key = {alice, bob}
    SubId = {s1, s2}
    Filter = {everything, deletes}
    Conn = {c1, c2}
    Request = {r1, r2}
    Message <- MCMessage
    Mixes <- MCMixes
    MaxConnections = 2
    MaxSubs = 1
    MaxMessages = 2
    MaxAuthAttempts = 2
    MessageWindow = 2
    AllowFor = 1
    FutureLimit = 0
    MaxTime = 2
SYMMETRY Alike
CHECK_DEADLOCK FALSE
INVARIANTS
    TypeOK
    VerdictBounded
    AcceptedWasAllowed
    NothingElseMissed
    SubsAsAsked
    TombstonesUnsent
