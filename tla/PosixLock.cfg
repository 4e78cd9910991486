SPECIFICATION Spec
CONSTANTS
  MaxKey = 4
  kMaxHeight = 3
  Files = {f1, f2, f3}
  TableReaders = {r1, r2}
  Capacities = {0, 1}
  MaxMmaps = 1
  MaxOpenFiles = 1
  Nil = Nil
  Processes = {p1, p2}
  Openers = {t1, t2}
  Databases = {d1, d2, d3}
  Nobody = Nobody
INVARIANT HeldByOneProcess
