SPECIFICATION Spec
CONSTANTS
  Names = {n1}
  DbObjs = {d1}
  ItObjs = {i1}
  BatchObjs = {}
  Null = Null
  MaxDbs = 3
  MaxIterators = 3
  MaxBatches = 2
SYMMETRY Symmetry
INVARIANT NoUseAfterFree
