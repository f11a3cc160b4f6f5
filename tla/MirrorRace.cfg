SPECIFICATION FairSpec
CONSTANTS
    alice = alice
    bob = bob
    t = t
    none = none
    v1 = v1
    v2 = v2
    v2b = v2b
    d1 = d1
    d2 = d2
    k1 = k1
    k2 = k2
    b1 = b1
    b2 = b2
    NoEvent = NoEvent
    Event <- MCEvent
    Pubkey <- MCPubkey
    Tag <- MCTag
    EmptyTag = none
    Author <- MCAuthor
    Kind <- MCKind
    DTag <- MCDTag
    CreatedAt <- MCCreatedAt
    IdRank <- MCIdRank
    ETags <- MCETags
    ATags <- MCATags
    Message <- RaceMessages
    Request = {r1, r2, r3}
    MayFail = TRUE
CHECK_DEADLOCK FALSE
INVARIANTS
    TypeOK
    FtsCoupled
    DeleteAcknowledged
PROPERTIES
    SlotsStayFilled
    CallsResolve
