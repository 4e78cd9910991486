SPECIFICATION Spec
CONSTANTS
  Names = {n1, n2}
  DbObjs = {d1, d2}
  ItObjs = {i1}
  BatchObjs = {b1}
  Null = Null
  MaxDbs = 3
  MaxIterators = 2
  MaxBatches = 1
SYMMETRY Symmetry
INVARIANTS ClosedAgrees NoCrossWrite IteratorRouting NotLockedOut
PROPERTY ClosedForever
