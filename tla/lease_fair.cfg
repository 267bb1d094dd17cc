CONSTANTS
    l1 = l1
    l2 = l2
    l3 = l3
    l4 = l4
    Leases = {l2, l3}
    NoLease = NoLease
    Kind <- MCKind
    Faults = {"expiry", "lateRenew", "redisError", "crash"}
CHECK_DEADLOCK FALSE
SPECIFICATION FairSpec
PROPERTIES
    OwnerKeepsKey
    LostCallKeepsNothing
    NoWorkBesideALoss
    LostChildStops
