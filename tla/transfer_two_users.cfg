CONSTANTS
    m1 = m1
    m2 = m2
    u1 = u1
    u2 = u2
    n1 = n1
    n2 = n2
    f1 = f1
    b1 = b1
    b2 = b2
    Machines = {m1, m2}
    Conns <- Sessions
    PubKeys <- Sessions
    Owner <- OwnNames
    Upload <- OneFile
    Local <- OwnBodies
    Uids = {u1, u2}
    NoUid = NoUid
    Names = {n1, n2}
    Files = {f1}
    Placeholder = Placeholder
    Bodies = {b1, b2}
    Empty = Empty
    Garbled = Garbled
    None = None
    MaxRuns = 1
    LocalFaults = FALSE
    Kills = FALSE
    TornRequests = FALSE
    Faults = FALSE
    Crashes = FALSE
    MaxKeys <- EnoughKeys
    Traffic <- OwnRequests
CHECK_DEADLOCK FALSE
SPECIFICATION FairTransferSpec
INVARIANTS
    OwnershipInv
    KeyAgreement
    VerifiedMeansIntact
    NoFailureInv
PROPERTIES
    KeepsPromise
