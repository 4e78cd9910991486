SPECIFICATION ModuleReloadSpec
CONSTANTS
  Names = {n1, n2}
  DbObjs = {d1, d2}
  ItObjs = {}
  BatchObjs = {}
  Null = Null
  MaxDbs = 3
  MaxIterators = 3
  MaxBatches = 2
SYMMETRY Symmetry
INVARIANT ClosedAgrees
