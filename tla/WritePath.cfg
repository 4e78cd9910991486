SPECIFICATION Spec
CONSTANTS
  Writers = {w1, w2}
  SyncOptions = {TRUE, FALSE}
  Free = Free
  MemCap = 1
  L0Compact = 1
  L0Slowdown = 1
  L0Stop = 2
  MaxDebt = 0
  MaxWrites = 4
  MaxFailures = 1
INVARIANTS TypeOK Durable SyncDurable WholeBatches ReadYourWrites ErrorSticky Level0Bounded WorkScheduled NoWorkAfterDelete
PROPERTIES SnapshotsFrozen
SYMMETRY Symmetry
