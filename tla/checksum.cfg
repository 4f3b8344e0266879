CONSTANTS
  Width = 4
  ByteBits = 2
  Generator <- SmallGenerator
  crctab <- SmallTable
  crctab0 <- SmallTable
  Block = 2
  Max16 = 3
  Max32 = 15
  Fixed = 3
  Contents <- Varied
  Missing = Missing
  Longs = {4, 8}
  MaxDisturbances = 3

\* The exchange ends.
CHECK_DEADLOCK FALSE

SPECIFICATION FileSpec

INVARIANTS
  SizesAgree
  StoredAsRead
  CksumIsPosix
  AbortedOnlyIfDisturbed

PROPERTIES
  ConfirmedMeansStored
