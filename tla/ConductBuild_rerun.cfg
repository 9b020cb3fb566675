CONSTANTS
    a = a
    b = b
    c = c
    Packages = {a, b, c}
    Batches <- MCBatches
    Dependencies <- MCDependencies
    ManuallyOrdered = FALSE
    Debug = {a}
    Keys = {c}
    NoPackage = NoPackage
    Signing = TRUE
    MaxParallelDownloads = 2
    Params <- MCParams
    MaxRuns = 2
SPECIFICATION Spec
INVARIANTS SuccessRecorded
\* the action need not be started again
CHECK_DEADLOCK FALSE
