SPECIFICATION Spec
CONSTANTS
  Budgets <- MCBudgets
  NoFile = NoFile
INVARIANTS
  FileTypes ProcessTypes Kept CurrentInv OpenedInv CreatingInv NumbersInv ReplayInv RecoveredInv
  OpenInv BaseInv JobInv RepairInv
CHECK_DEADLOCK FALSE
