SPECIFICATION Spec
CONSTANTS
  Keys = {1, 2}
  Values = {v1, v2}
  Iters = {i1}
  Absent = Absent
  Undefined = Undefined
  MaxCells = 5
INVARIANT CompareAgrees
CHECK_DEADLOCK FALSE
