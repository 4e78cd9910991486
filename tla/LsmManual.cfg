SPECIFICATION ManualSpec
CONSTANTS
  Keys = {1, 2, 3}
  Readers = {r1}
  None = None
  kNumLevels = 4
  kMaxMemCompactLevel = 2
  kL0_CompactionTrigger = 4
  max_file_size = 2
  GrandParentLimit = 20
  ExpandedLimit = 50
  LevelBase = 4
  MaxWrites = 5
  MaxFiles = 8
  Budgets <- MCManualBudgets
  ManualRanges <- MCManualRanges
INVARIANT LevelsDisjoint
CHECK_DEADLOCK FALSE
