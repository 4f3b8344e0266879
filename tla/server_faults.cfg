CONSTANTS
    c1 = c1
    c2 = c2
    u1 = u1
    u2 = u2
    n1 = n1
    n2 = n2
    f1 = f1
    f2 = f2
    p1 = p1
    p2 = p2
    b1 = b1
    b2 = b2
    Conns = {c1,c2}
    Uids = {u1}
    NoUid = NoUid
    Names = {n1}
    Files = {f1}
    PubKeys = {p1}
    Placeholder = Placeholder
    Bodies = {b1}
    Empty = Empty
    Garbled = Garbled
    None = None
    Traffic <- FaultyTraffic
    MaxKeys = 1
    TornRequests = TRUE
    Faults = TRUE
    Crashes = TRUE
SPECIFICATION Spec
SYMMETRY AnyConnection
INVARIANTS
    IInv
    NoFileBeforeKeyExchange
    BackupHasOwner
    DeliveredKeyWasStored
PROPERTIES
    VerifiedRowPermanent
