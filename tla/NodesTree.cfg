SPECIFICATION Spec
CONSTANTS
  Objects = {o1, o2, o3}
  Root = Root
  None = None
  Names = {x, y, z}
  Locks = {k, l}
  Scanners = {k}
  MaxOpen = 1
  Allow = {}
SYMMETRY NodeSymmetry
\* The process may stop in exfat_bug().
CHECK_DEADLOCK FALSE
INVARIANTS RefsSound  ScanNotDangling ScanComplete
