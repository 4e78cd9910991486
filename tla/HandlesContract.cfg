SPECIFICATION ContractSpec
CONSTANTS
  Names = {n1, n2}
  DbObjs = {d1, d2}
  ItObjs = {i1, i2}
  BatchObjs = {b1, b2}
  Null = Null
  MaxDbs = 3
  MaxIterators = 2
  MaxBatches = 2
SYMMETRY Symmetry
INVARIANTS NoUseAfterFree BatchIsolation
