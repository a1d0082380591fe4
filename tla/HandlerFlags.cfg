SPECIFICATION FairSpec
CONSTANTS
  Cards = {a, b, w}
  WriteProtected = {w}
  NoCard = NoCard
  MaxLocks = 1
  MaxFiles = 1
  IOErrors = FALSE
  DosListBusy = FALSE
  LatePackets = FALSE
INVARIANTS UnsavedIsFlagged VolumeShown
PROPERTIES ClearedWhenWritten CardServed
