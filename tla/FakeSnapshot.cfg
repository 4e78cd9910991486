SPECIFICATION Spec
CONSTANTS
  Keys = {1, 2}
  Values = {v1, v2}
  Iters = {i1}
  Absent = Absent
  Undefined = Undefined
  MaxCells = 5
PROPERTY SnapshotStable
CHECK_DEADLOCK FALSE
