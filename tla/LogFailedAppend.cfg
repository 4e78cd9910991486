SPECIFICATION Spec
CONSTANTS
    BlockSize = 6
    HeaderSize = 3
    Sizes = {0, 1, 7}
    Offsets = {0, 5}
    MaxRecords = 3
    MaxFailures = 1
INVARIANT SurvivesProcessCrash
CHECK_DEADLOCK FALSE
