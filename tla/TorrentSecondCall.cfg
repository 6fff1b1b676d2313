\* Two jobs for the same file; nothing fails.
CONSTANTS
    h1 = h1
    h2 = h2
    h3 = h3
    book = book
    pack = pack
    Names = {book, pack}
    Root = root
    Jobs = {j1, j2}
    Retrievals = {}
    Hashes <- OneTorrent
    TorrentName <- OneName
    FilesOf <- OneFile
    TooLarge = {}
    Worlds <- CalmWorld
    MaxErrors = 0
    MaxCrashes = 0
SPECIFICATION Spec
INVARIANT EveryCallIsServed


CHECK_DEADLOCK FALSE
