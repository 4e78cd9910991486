SPECIFICATION CarefulSpec
CONSTANTS
  Keys = {2, 4, 6}
  Values = {v1, v2}
  Iters = {i1}
  Absent = Absent
  Undefined = Undefined
  MaxCells = 4
SYMMETRY Symmetry
INVARIANT SearchExact
PROPERTY ImplementsKVStore
CHECK_DEADLOCK FALSE
