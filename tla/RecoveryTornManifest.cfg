SPECIFICATION Spec
CONSTANTS
  Budgets <- MCBudgets
  NoFile = NoFile
INVARIANTS OpenedNeverCorrupt
CHECK_DEADLOCK FALSE
