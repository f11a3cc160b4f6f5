SPECIFICATION Spec
CONSTANTS
    alice = alice
    bob = bob
    t = t
    none = none
    v1 = v1
    v2 = v2
    v2b = v2b
    d1 = d1
    d2 = d2
    k1 = k1
    k2 = k2
    b1 = b1
    b2 = b2
    NoEvent = NoEvent
    Event <- MCEvent
    Pubkey <- MCPubkey
    Tag <- MCTag
    EmptyTag = none
    Author <- MCAuthor
    Kind <- MCKind
    DTag <- MCDTag
    CreatedAt <- MCCreatedAt
    IdRank <- MCIdRank
    ETags <- MCETags
    ATags <- MCATags
    Message <- AllMessages
    Request = {r1, r2, r3}
    MayFail = FALSE
SYMMETRY Calls
CHECK_DEADLOCK FALSE
PROPERTIES
    NewestWins
