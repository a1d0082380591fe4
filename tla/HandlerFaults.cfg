SPECIFICATION Spec
CONSTANTS
  Cards = {a, b, w}
  WriteProtected = {w}
  NoCard = NoCard
  MaxLocks = 2
  MaxFiles = 2
  IOErrors = TRUE
  DosListBusy = TRUE
  LatePackets = FALSE
SYMMETRY CardSymmetry
INVARIANTS
  TypeOK HandlesOnMount RightMedium ForeignCardUntouched ReleasedWhenIdle
  ParkedIsClean
PROPERTY HandlesKeepVolume
