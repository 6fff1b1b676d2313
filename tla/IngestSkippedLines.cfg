\* Skipped lines and one restart.
CONSTANTS
    Lines = 6
    Batch = 2
    Limit = 0
    Payloads <- SixLines
    Faults = FALSE
    MaxRestarts = 1
    MaxVersions = 1
SPECIFICATION Spec
INVARIANT CompleteMeansIndexed

CHECK_DEADLOCK FALSE
