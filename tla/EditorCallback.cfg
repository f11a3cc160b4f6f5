SPECIFICATION Spec
CONSTANTS
    t1 = t1
    t2 = t2
    alice = alice
    bob = bob
    r1 = r1
    r2 = r2
    NoKey = NoKey
    NoText = NoText
    NoEvent = NoEvent
    NoRecord = NoRecord
    Tab = {t1, t2}
    Key = {alice, bob}
    Me = alice
    Mixes <- MCMixes
    Relay = {r1, r2}
    Guarded = {r1}
    MaxEdits = 3
    MaxClicks = 3
    MaxUploads = 2
    MaxServers = 2
INVARIANT CallbacksLand
CHECK_DEADLOCK FALSE
