CONSTANTS
    c1 = c1
    c2 = c2
    u1 = u1
    u2 = u2
    n1 = n1
    n2 = n2
    f1 = f1
    f2 = f2
    p1 = p1
    p2 = p2
    b1 = b1
    b2 = b2
    Conns = {c1}
    Uids = {u1,u2}
    NoUid = NoUid
    Names = {n1,n2}
    Files = {f1,f2}
    PubKeys = {p1,p2}
    Placeholder = Placeholder
    Bodies = {b1,b2}
    Empty = Empty
    Garbled = Garbled
    None = None
    Traffic <- SessionTraffic
    MaxKeys = 2
    TornRequests = FALSE
    Faults = FALSE
    Crashes = FALSE
SPECIFICATION Spec
INVARIANTS
    TypeOK
    UniqueUserNames
    UnverifiedRowHasFile
    AbortRemovesFile
    ChecksumIsOfUpload
    SessionInv
PROPERTIES
    ApprovalNamesFile
