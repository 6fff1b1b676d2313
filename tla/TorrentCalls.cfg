\* Colliding names, one torrent error, one crash of the bridge: two jobs over RPCs
\* that may fail, or the two and a retrieval over RPCs that do not.
CONSTANTS
    h1 = h1
    h2 = h2
    h3 = h3
    book = book
    pack = pack
    Names = {book, pack}
    Root = root
    Jobs = {j1, j2}
    Retrievals = {r1}
    Hashes <- ThreeTorrents
    TorrentName <- ThreeNames
    FilesOf <- ThreeFiles
    TooLarge = {h3}
    Worlds <- TwoWorlds
    MaxErrors = 1
    MaxCrashes = 1
SPECIFICATION FairSpec
INVARIANTS DeliveredIsWanted NoOrphans
PROPERTIES NoStrangerRemoved ImplementsFetch DownloadEnds
CHECK_DEADLOCK FALSE
