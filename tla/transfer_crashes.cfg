CONSTANTS
    m1 = m1
    m2 = m2
    u1 = u1
    u2 = u2
    n1 = n1
    n2 = n2
    f1 = f1
    b1 = b1
    b2 = b2
    Machines = {m1}
    Conns <- Sessions
    PubKeys <- Sessions
    Owner <- OwnNames
    Upload <- OneFile
    Local <- OwnBodies
    Uids = {u1}
    NoUid = NoUid
    Names = {n1}
    Files = {f1}
    Placeholder = Placeholder
    Bodies = {b1, b2}
    Empty = Empty
    Garbled = Garbled
    None = None
    MaxRuns = 2
    LocalFaults = FALSE
    Kills = TRUE
    TornRequests = TRUE
    Faults = TRUE
    Crashes = TRUE
    MaxKeys <- EnoughKeys
    Traffic <- OwnRequests
CHECK_DEADLOCK FALSE
SPECIFICATION TransferSpec
INVARIANTS
    MeInfoIsRegistered
    PublishedKeyMatches
    TransferInv
    PairInv
PROPERTIES
    ServerSpec
    ClientSpec
