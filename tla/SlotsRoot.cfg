SPECIFICATION Spec
CONSTANTS
  Files = {f, g, h}
  Lengths = {3, 4}
  ClusterSlots = 6
  MaxClusters = 2
  Layout <- MkfsLayout
  Faults = {"shrink", "erase", "create", "flush"}
SYMMETRY FileSymmetry
INVARIANTS EntriesSound RemountAgrees
PROPERTIES SpecialsKept
CHECK_DEADLOCK FALSE
