SPECIFICATION Spec
CONSTANTS
  Budgets <- MCBudgets
  NoFile = NoFile
INVARIANTS AckedSurvive NeverCorrupt SequencesFresh
PROPERTY EventuallyOpen
CHECK_DEADLOCK FALSE
