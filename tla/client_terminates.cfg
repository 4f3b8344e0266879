CONSTANTS
    m1 = m1
    u1 = u1
    n1 = n1
    f1 = f1
    b1 = b1
    Machines = {m1}
    Conns <- Sessions
    PubKeys <- Sessions
    Owner <- OneOwner
    Upload <- OneUpload
    Local <- OneLocal
    Uids = {u1}
    NoUid = NoUid
    Names = {n1}
    Files = {f1}
    Placeholder = Placeholder
    Bodies = {b1}
    Empty = Empty
    Garbled = Garbled
    None = None
    MaxRuns = 1
    LocalFaults = FALSE
    Kills = FALSE
    Closes = TRUE
CHECK_DEADLOCK FALSE
SPECIFICATION MCSpec
INVARIANT NeverTerminates
