SPECIFICATION Spec
CONSTANTS
  BlockSize = 2
  MediaSize = 8
  FirstByte = 2
  Size = 5
  MaxTransfer = 3
  BootSize = 2
  MaxValue = 1
  Cards <- Pair
  Masked = {"write"}
  IOErrors = TRUE
  Removable = TRUE
INVARIANT TransfersExact
PROPERTIES WriteConfined BootReadHonest
