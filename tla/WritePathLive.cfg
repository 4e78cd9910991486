SPECIFICATION FairSpec
CONSTANTS
  Writers = {w1, w2}
  SyncOptions = {FALSE}
  Free = Free
  MemCap = 1
  L0Compact = 1
  L0Slowdown = 1
  L0Stop = 2
  MaxDebt = 1
  MaxWrites = 3
  MaxFailures = 1
PROPERTIES WriteReturns CloseReturns
