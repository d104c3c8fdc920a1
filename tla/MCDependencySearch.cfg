SPECIFICATION Spec
CONSTANTS
  Nodes = {0, 1, 2, 3}
  MaxDeps = 4
CHECK_DEADLOCK FALSE
INVARIANTS FindsCycles ReportsACycle
PROPERTIES Returns
