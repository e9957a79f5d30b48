CONSTANTS
    Files      = {f1, f2}
    Initial    = {f1}
    MaxChanges = 1
    MaxThreads = 3
    MaxClicks  = 3
    MaxFaults  = 1
    MaxBusy    = 5
    None       = None
SPECIFICATION Spec
CONSTRAINT NotTooBusy
INVARIANTS StaleExplained SelectionExplained ToldFilesAreGone
CHECK_DEADLOCK FALSE
