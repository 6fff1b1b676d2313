\* Dumps of up to two lines, every statement may fail.
CONSTANTS
    b1 = b1
    b2 = b2
    epub = epub
    pdf = pdf
    t1 = t1
    t2 = t2
    Blank = Blank
    Garbled = Garbled
    Ids = {b1, b2}
    Formats = {epub, pdf}
    Titles = {t1, t2}
    JsonPayloads <- SomeJson
    RecordPayloads <- SomeRecords
    FilePayloads <- SomeFiles
    Batch = 2
    Faults = TRUE
SPECIFICATION Spec
INVARIANTS OfferedHasLocator FoundUnderTitle OfferCoversBook
PROPERTIES FilesStay
CHECK_DEADLOCK FALSE
