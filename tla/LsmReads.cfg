SPECIFICATION Spec
CONSTANTS
  Keys = {1, 2}
  Readers = {r1}
  None = None
  kNumLevels = 3
  kMaxMemCompactLevel = 1
  kL0_CompactionTrigger = 1
  max_file_size = 2
  GrandParentLimit = 1
  ExpandedLimit = 6
  LevelBase = 3
  MaxWrites = 4
  MaxFiles = 10
  Budgets <- MCBudgets
  ManualRanges = {}
INVARIANT MCReadInv
CONSTRAINT InputsWhole
CHECK_DEADLOCK FALSE
