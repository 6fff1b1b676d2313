\* Either dump, any payload that just fits the limit, a few that are shorter or
\* longer, also a new one put over an older one, every failure, one restart.
CONSTANTS
    Lines = 7
    Batch = 2
    Limit = 6
    Payloads <- EveryPayload
    Faults = TRUE
    MaxRestarts = 1
    MaxVersions = 2
SPECIFICATION FairSpec
INVARIANTS BookHasLocator ResumeSkipsOnlyStored OneBatchAtRisk MarkerIsEarned
PROPERTIES IngestEnds
CHECK_DEADLOCK FALSE
