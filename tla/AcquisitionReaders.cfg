\* Three file requests racing on the one handle of a job; weak fairness of its
\* worker, none of anything else.
CONSTANTS
    Ids = {a1}
    Readers = {r1, r2, r3}
    NoId = NoId
    Requests <- TwoKinds
    Locators <- EitherRoute
    MaxBytes = 3
    MaxChunks = 3
    MaxCrashes = 1
    IOFaults = FALSE
SPECIFICATION FairSpec
INVARIANTS HandleIsConsumedOnce LoneReaderGetsAll
PROPERTIES WorkEnds CompletedBecomesReadable
CHECK_DEADLOCK FALSE
