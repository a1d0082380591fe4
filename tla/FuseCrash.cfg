SPECIFICATION Spec
CONSTANTS
  Names = {a, b}
  Hidden = {h}
  Nodes = {n1, n2}
  Clusters = {1, 2}
  NoNode = NoNode
  NoEntry = NoEntry
  MaxSize = 1
  MaxOpen = 2
  MaxFaults = 1
  Allow = {}
SYMMETRY FuseSymmetry
INVARIANTS HandlesSafe CleanIsSaved FlagTellsTruth
