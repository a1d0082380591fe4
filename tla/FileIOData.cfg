SPECIFICATION Spec
CONSTANTS
  ClusterSize = 2
  MaxSize = 5
  Values = {0, 1}
  Stale = Stale
  Handles = {h, k}
  Full = TRUE
  WriteErrors = TRUE
SYMMETRY HandleSymmetry
INVARIANT ReadExact
PROPERTIES NoStale ImplementsFile
