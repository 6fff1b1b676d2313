\* Two file requests share one handle.
CONSTANTS
    Ids = {a1}
    Readers = {r1, r2}
    NoId = NoId
    Requests <- OneRemote
    Locators = {"none"}
    MaxBytes = 3
    MaxChunks = 1
    MaxCrashes = 0
    IOFaults = FALSE
SPECIFICATION Spec
INVARIANT EveryReaderGetsAll
CHECK_DEADLOCK FALSE
