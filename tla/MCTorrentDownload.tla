------------------------- MODULE MCTorrentDownload -------------------------
(* Worlds of torrents for TLC.                                             *)
EXTENDS TorrentDownload, TLC

CONSTANTS h1, h2, h3, book, pack

\* h1 and h2 are single files of the same name, h3 is a directory that holds a
\* file of that name.
ThreeTorrents == {h1, h2, h3}
ThreeNames    == h1 :> book @@ h2 :> book @@ h3 :> pack
ThreeFiles    == h1 :> {book} @@ h2 :> {book} @@ h3 :> {book}

World(calls, rpc, io) == [calls |-> calls, rpcFaults |-> rpc, ioFaults |-> io]

\* Two jobs over RPCs that may fail, or with a retrieval of the catalogue over
\* RPCs that do not; a file that was found may fail to open in both.
TwoWorlds == { World(Jobs, TRUE, TRUE), World(Calls, FALSE, TRUE) }
CalmWorld == { World(Jobs, FALSE, FALSE) }

OneTorrent == {h1}
OneName    == h1 :> book
OneFile    == h1 :> {book}
=============================================================================
