SPECIFICATION FairSpec
CONSTANTS
    modern = modern
    old = old
    c1 = c1
    c2 = c2
    Tasks <- MCTasks
    NoSigner = NoSigner
    NoPairing = NoPairing
    Client = {c1, c2}
    Relay = {r1}
    Signer = {modern, old}
    Reads <- MCReads
    Writes <- MCWrites
    MayFail = TRUE
CHECK_DEADLOCK FALSE
INVARIANTS
    TypeOK
    OwnAnswers
    DowngradeEarned
PROPERTIES
    EveryCallSettles
