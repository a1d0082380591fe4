SPECIFICATION Spec
CONSTANTS
  Files = {f, g}
  ClusterCount = 5
  Reserved = {2}
  Faults = {}
SYMMETRY FileSymmetry
INVARIANTS
  ClustersOwned ChainComplete PositionsSound
PROPERTY ImplementsSpace
