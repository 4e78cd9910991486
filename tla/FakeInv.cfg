SPECIFICATION Spec
CONSTANTS
  Keys = {2, 4}
  Values = {v1, v2}
  Iters = {i1, i2}
  Absent = Absent
  Undefined = Undefined
  MaxCells = 4
INVARIANT FakeInv
CHECK_DEADLOCK FALSE
