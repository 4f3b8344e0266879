CONSTANTS
  Ports = {1256, 1357}
  DefaultPort = 1256
  Absent = Absent
  Malformed = Malformed
  OutOfRange = OutOfRange
  Loopback = Loopback
  Hosts = {Loopback, Elsewhere}
  NameLengths = {0, 1, 99, 100}
  Paths <- FewPaths
  MayFail = TRUE
  CHUNK_SIZE = 3
  HEADER_SIZE = 2
  RESP_HEADER = 1
  Requests <- FewRequests
  Replies = {0, 5}
  MaxPackets = 2
  Splits = TRUE
  Dies = FALSE

\* The programs end.
CHECK_DEADLOCK FALSE

SPECIFICATION TransportSpec

INVARIANTS
  RequestsFramed
