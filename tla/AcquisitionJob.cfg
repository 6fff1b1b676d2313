\* One job of every kind, one file request, staging faults and a restart.
CONSTANTS
    Ids = {a1}
    Readers = {r1}
    NoId = NoId
    Requests <- EveryKind
    Locators <- EveryLocator
    MaxBytes = 2
    MaxChunks = 3
    MaxCrashes = 1
    IOFaults = TRUE
SPECIFICATION Spec
INVARIANTS IInv PublishedIsSound CleanAfterWork CompletedMatchesDisk
PROPERTIES OutcomeIsStable ProgressNeverFalls ImplementsLifecycle
CHECK_DEADLOCK FALSE
