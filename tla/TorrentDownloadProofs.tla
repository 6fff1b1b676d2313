----------------------- MODULE TorrentDownloadProofs -----------------------
(***************************************************************************)
(* What DownloadFile keeps for every set of calls and torrents, whatever   *)
(* the torrents are called, under any failures and crashes: types, what a  *)
(* job is handed, what a call deletes and what it leaves behind.           *)
(***************************************************************************)
EXTENDS TorrentDownload, TLAPS

\* The daemon has each torrent once.
HashesDiffer == \A s, t \in torrents : s.hash = t.hash => s = t

\* A call that is under way knows what it wants, a call owns only what it asked
\* for, and it removes only what it owns.
OwnsItsOwn ==
    \A c \in Calls :
        /\ pc[c] # "idle" => want[c] \in Wants
        /\ pc[c] \in {"idle", "find", "add"} => ~owned[c] /\ held[c] = NoFile
        /\ pc[c] = "remove" => owned[c]
        /\ owned[c] => tid[c] < nextId /\ \A t \in torrents : t.id = tid[c] => t.hash = want[c].hash

\* Only its own call puts anything into the directory of a job.
DirsAreOwn ==
    /\ \A t \in torrents : t.dir \in Jobs =>
          pc[t.dir] \notin {"idle", "find", "add"} /\ t.hash = want[t.dir].hash
    /\ \A p \in payloads : p.dir \in Jobs =>
          pc[p.dir] \notin {"idle", "find", "add"} /\ p.hash = want[p.dir].hash

\* A torrent in a job's directory is the one its call polls, and done and within
\* the limit when the call opens the file.
TorrentsFollow ==
    \A t \in torrents : t.dir \in Jobs =>
        /\ pc[t.dir] \in {"poll", "open"} => t.id = tid[t.dir]
        /\ pc[t.dir] = "open" => t.done /\ t.hash \notin TooLarge

\* Until its call stops polling, a payload in a job's directory is that of the
\* torrent the call polls; after, it is complete and within the limit.
PayloadsFollow ==
    \A p \in payloads : p.dir \in Jobs =>
        /\ pc[p.dir] \in {"poll", "open"} =>
              \E t \in torrents : /\ t.id = tid[p.dir] /\ t.dir = p.dir /\ t.hash = p.hash
                                  /\ t.done => p.complete
        /\ pc[p.dir] = "open" => p.complete /\ p.hash \notin TooLarge

\* Without failing RPCs a torrent in a job's directory is the one its call owns.
TorrentsAreOwned ==
    ~world.rpcFaults =>
        \A t \in torrents : t.dir \in Jobs =>
            /\ owned[t.dir] /\ tid[t.dir] = t.id
            /\ pc[t.dir] \notin {"copy", "release", "served", "failed"}

\* The inductive invariant.
DownloadInv ==
    /\ TypeOK /\ HashesDiffer /\ OwnsItsOwn /\ DirsAreOwn
    /\ TorrentsFollow /\ PayloadsFollow /\ DeliveredIsWanted /\ TorrentsAreOwned

-----------------------------------------------------------------------------
\* The invariant holds when the bridge starts over an empty daemon.
LEMMA DownloadInvInit == Init => DownloadInv
<1> SUFFICES ASSUME Init PROVE DownloadInv
    OBVIOUS
<1> USE WorldAssumption, FaultAssumption
<1>1. TypeOK
    BY DEF Init, TypeOK, Calls, NoId, Waiting
<1>2. HashesDiffer /\ OwnsItsOwn /\ DirsAreOwn
    BY DEF Init, HashesDiffer, OwnsItsOwn, DirsAreOwn, NoId
<1>3. TorrentsFollow /\ PayloadsFollow /\ DeliveredIsWanted /\ TorrentsAreOwned
    BY DEF Init, TorrentsFollow, PayloadsFollow, DeliveredIsWanted, TorrentsAreOwned, Calls
<1>. QED BY <1>1, <1>2, <1>3 DEF DownloadInv

\* A call begins with nothing in its directory.
LEMMA BeginKeepsInv ==
    ASSUME DownloadInv, NEW c \in Calls, Begin(c)
    PROVE  DownloadInv'
<1> USE WorldAssumption
<1> USE DEF DownloadInv, Begin, daemonVars
<1>1. PICK w \in Wants : want' = [want EXCEPT ![c] = w]
    OBVIOUS
<1>2. pc[c] = "idle" /\ pc' = [pc EXCEPT ![c] = "find"]
    OBVIOUS
<1>3. TypeOK'
    BY <1>1, <1>2 DEF TypeOK, Waiting
<1>4. HashesDiffer'
    BY DEF HashesDiffer
<1>5. OwnsItsOwn'
    BY <1>1, <1>2 DEF OwnsItsOwn, TypeOK
<1>6. DirsAreOwn'
    BY <1>1, <1>2 DEF DirsAreOwn, TypeOK
<1>7. TorrentsFollow' /\ PayloadsFollow'
    BY <1>1, <1>2 DEF TorrentsFollow, PayloadsFollow, DirsAreOwn, TypeOK
<1>8. DeliveredIsWanted'
    BY <1>1, <1>2 DEF DeliveredIsWanted, OwnsItsOwn, TypeOK
<1>9. TorrentsAreOwned'
    BY <1>2 DEF TorrentsAreOwned, TypeOK
<1>. QED BY <1>3, <1>4, <1>5, <1>6, <1>7, <1>8, <1>9

\* FindByName: the call polls what it does not own, or goes on to add.
LEMMA FindKeepsInv ==
    ASSUME DownloadInv, NEW c \in Calls, Find(c)
    PROVE  DownloadInv'
<1> USE WorldAssumption
<1> USE DEF DownloadInv, daemonVars
<1>1. pc[c] = "find" /\ ~owned[c] /\ want[c] \in Wants
    BY DEF Find, OwnsItsOwn
<1>2. PICK to \in {"poll", "add", "release"}, id \in Nat :
         /\ pc' = [pc EXCEPT ![c] = to] /\ tid' = [tid EXCEPT ![c] = id]
         /\ to = "poll" => id \in 1..(nextId - 1)
         /\ to = "release" => world.rpcFaults
    <2>1. CASE \E t \in Named(want[c]) : tid' = [tid EXCEPT ![c] = t.id] /\ pc' = [pc EXCEPT ![c] = "poll"]
        <3>1. PICK t \in torrents : tid' = [tid EXCEPT ![c] = t.id]
            BY <2>1 DEF Named
        <3>2. t.id \in Nat /\ t.id \in 1..(nextId - 1)
            BY DEF TypeOK, TorrentType
        <3>. QED BY <2>1, <3>1, <3>2
    <2>2. CASE pc' = [pc EXCEPT ![c] = "add"] /\ UNCHANGED tid
        BY <2>2 DEF TypeOK
    <2>3. CASE world.rpcFaults /\ Return(c, "failed") /\ UNCHANGED tid
        BY <2>3, <1>1 DEF Return, TypeOK
    <2>. QED BY <2>1, <2>2, <2>3 DEF Find
<1>3. UNCHANGED <<world, daemonVars, want, owned, held, crashes>>
    BY DEF Find
<1>4. TypeOK'
    BY <1>1, <1>2, <1>3 DEF TypeOK, Waiting
<1>5. HashesDiffer' /\ DeliveredIsWanted'
    BY <1>3 DEF HashesDiffer, DeliveredIsWanted
<1>6. OwnsItsOwn'
    BY <1>1, <1>2, <1>3 DEF OwnsItsOwn, TypeOK
<1>7. DirsAreOwn'
    BY <1>1, <1>2, <1>3 DEF DirsAreOwn, TypeOK
<1>8. TorrentsFollow' /\ PayloadsFollow'
    BY <1>1, <1>2, <1>3 DEF TorrentsFollow, PayloadsFollow, DirsAreOwn, TypeOK
<1>9. TorrentsAreOwned'
    BY <1>1, <1>2, <1>3 DEF TorrentsAreOwned, DirsAreOwn, TypeOK
<1>. QED BY <1>4, <1>5, <1>6, <1>7, <1>8, <1>9

\* Adding: what is new in the daemon is the call's own, in its own directory.
LEMMA AddKeepsInv ==
    ASSUME DownloadInv, NEW c \in Calls, Add(c)
    PROVE  DownloadInv'
<1> USE WorldAssumption
<1> USE DEF DownloadInv
<1>1. /\ pc[c] = "add" /\ ~owned[c] /\ held[c] = NoFile /\ want[c] \in Wants
      /\ want[c].hash \in Hashes /\ Dir(c) \in Dirs /\ (Dir(c) \in Jobs => Dir(c) = c)
      /\ UNCHANGED <<world, want, held, crashes>>
    BY DEF Add, OwnsItsOwn, Wants, Dir, Dirs, Calls
<1>2. \* The daemon.
      CASE UNCHANGED daemonVars /\ (Same(want[c].hash) = {} => world.rpcFaults)
    <2>1. CASE /\ \E t \in torrents' : t.hash = want[c].hash /\ tid' = [tid EXCEPT ![c] = t.id]
               /\ owned' = [owned EXCEPT ![c] = TRUE] /\ pc' = [pc EXCEPT ![c] = "poll"]
        <3>1. PICK t \in torrents : t.hash = want[c].hash /\ tid' = [tid EXCEPT ![c] = t.id]
            BY <1>2, <2>1 DEF daemonVars
        <3>2. t.id \in Nat /\ t.id \in 1..(nextId - 1)
            BY <3>1 DEF TypeOK, TorrentType
        <3>3. TypeOK'
            BY <1>1, <1>2, <2>1, <3>1, <3>2 DEF TypeOK, Waiting, daemonVars
        <3>4. HashesDiffer' /\ DeliveredIsWanted'
            BY <1>1, <1>2 DEF HashesDiffer, DeliveredIsWanted, daemonVars
        <3>5. OwnsItsOwn'
            BY <1>1, <1>2, <2>1, <3>1, <3>2 DEF OwnsItsOwn, TypeOK, daemonVars
        <3>6. DirsAreOwn'
            BY <1>1, <1>2, <2>1 DEF DirsAreOwn, TypeOK, daemonVars
        <3>7. TorrentsFollow' /\ PayloadsFollow'
            BY <1>1, <1>2, <2>1, <3>1 DEF TorrentsFollow, PayloadsFollow, DirsAreOwn, TypeOK, daemonVars
        <3>8. TorrentsAreOwned'
            BY <1>1, <1>2, <2>1, <3>1 DEF TorrentsAreOwned, DirsAreOwn, TypeOK, daemonVars
        <3>. QED BY <3>3, <3>4, <3>5, <3>6, <3>7, <3>8
    <2>2. CASE world.rpcFaults /\ Return(c, "failed") /\ UNCHANGED <<tid, owned>>
        <3>1. pc' = [pc EXCEPT ![c] = "release"]
            BY <1>1, <2>2 DEF Return
        <3>2. TypeOK'
            BY <1>1, <1>2, <2>2, <3>1 DEF TypeOK, daemonVars, Waiting
        <3>3. HashesDiffer' /\ DeliveredIsWanted'
            BY <1>1, <1>2 DEF HashesDiffer, DeliveredIsWanted, daemonVars
        <3>4. OwnsItsOwn' /\ DirsAreOwn'
            BY <1>1, <1>2, <2>2, <3>1 DEF OwnsItsOwn, DirsAreOwn, TypeOK, daemonVars
        <3>5. TorrentsFollow' /\ PayloadsFollow' /\ TorrentsAreOwned'
            BY <1>1, <1>2, <2>2, <3>1 DEF TorrentsFollow, PayloadsFollow, TorrentsAreOwned, DirsAreOwn, TypeOK, daemonVars
        <3>. QED BY <3>2, <3>3, <3>4, <3>5
    <2>. QED BY <2>1, <2>2 DEF Add
<1>3. \* A new torrent.
      CASE Same(want[c].hash) = {} /\ DaemonAdd(c)
    <2> DEFINE new == [id |-> nextId, hash |-> want[c].hash, dir |-> Dir(c), done |-> FALSE, error |-> FALSE]
    <2> DEFINE data == [dir |-> Dir(c), hash |-> want[c].hash, complete |-> FALSE]
    <2>1. torrents' = torrents \cup {new} /\ nextId' = nextId + 1 /\ payloads' = payloads \cup {data}
        BY <1>3 DEF DaemonAdd
    <2>2. new \in TorrentType /\ data \in PayloadType
        BY <1>1 DEF TypeOK, TorrentType, PayloadType
    <2>3. \A t \in torrents : t.id # nextId /\ t.hash # new.hash /\ t.id \in Nat
        BY <1>3 DEF TypeOK, Same, TorrentType
    <2>4. new.id = nextId /\ new.hash = want[c].hash /\ new.dir = Dir(c) /\ new.done = FALSE
        OBVIOUS
    <2>5. data.dir = Dir(c) /\ data.hash = want[c].hash /\ data.complete = FALSE
        OBVIOUS
    <2>. HIDE DEF new, data
    <2>6. PICK to \in {"poll", "release"}, id \in Nat, own \in BOOLEAN :
             /\ pc' = [pc EXCEPT ![c] = to] /\ tid' = [tid EXCEPT ![c] = id]
             /\ owned' = [owned EXCEPT ![c] = own]
             /\ to = "poll" => own /\ id = nextId
             /\ to = "release" => world.rpcFaults /\ ~own
        <3>1. CASE /\ \E t \in torrents' : t.hash = want[c].hash /\ tid' = [tid EXCEPT ![c] = t.id]
                   /\ owned' = [owned EXCEPT ![c] = TRUE] /\ pc' = [pc EXCEPT ![c] = "poll"]
            BY <2>1, <2>3, <2>4, <3>1 DEF TypeOK
        <3>2. CASE world.rpcFaults /\ Return(c, "failed") /\ UNCHANGED <<tid, owned>>
            BY <1>1, <3>2 DEF Return, TypeOK
        <3>. QED BY <3>1, <3>2 DEF Add
    <2>7. TypeOK'
        <3>1. nextId' \in Nat \ {0} /\ (\A n \in 1..(nextId - 1) : n \in 1..(nextId' - 1)) /\ nextId \in 1..(nextId' - 1)
            BY <2>1 DEF TypeOK
        <3>2. /\ torrents' \subseteq TorrentType /\ payloads' \subseteq PayloadType
              /\ \A t \in torrents' : t.id < nextId'
              /\ \A s, t \in torrents' : s.id = t.id => s = t
            BY <2>1, <2>2, <2>3, <2>4 DEF TypeOK
        <3>. QED BY <1>1, <2>6, <3>1, <3>2 DEF TypeOK, Waiting
    <2>8. HashesDiffer' /\ DeliveredIsWanted'
        BY <1>1, <2>1, <2>3, <2>4 DEF HashesDiffer, DeliveredIsWanted
    <2>9. OwnsItsOwn'
        BY <1>1, <2>1, <2>3, <2>4, <2>6 DEF OwnsItsOwn, TypeOK
    <2>10. DirsAreOwn'
        BY <1>1, <2>1, <2>4, <2>5, <2>6 DEF DirsAreOwn, TypeOK
    <2>11. TorrentsFollow' /\ PayloadsFollow'
        BY <1>1, <2>1, <2>4, <2>5, <2>6 DEF TorrentsFollow, PayloadsFollow, DirsAreOwn, TypeOK
    <2>12. TorrentsAreOwned'
        BY <1>1, <2>1, <2>4, <2>6 DEF TorrentsAreOwned, DirsAreOwn, TypeOK
    <2>. QED BY <2>7, <2>8, <2>9, <2>10, <2>11, <2>12
<1>4. UNCHANGED daemonVars \/ DaemonAdd(c)
    BY DEF Add
<1>5. Same(want[c].hash) # {} /\ DaemonAdd(c) => UNCHANGED daemonVars
    BY DEF DaemonAdd
<1>6. UNCHANGED daemonVars /\ ~DaemonAdd(c) => world.rpcFaults
    BY DEF Add
<1>. QED BY <1>2, <1>3, <1>4, <1>5, <1>6

\* Polling: a call goes on to open only when the torrent it polls is done.
LEMMA PollKeepsInv ==
    ASSUME DownloadInv, NEW c \in Calls, Poll(c) \/ PollFails(c)
    PROVE  DownloadInv'
<1> USE WorldAssumption
<1> USE DEF DownloadInv, daemonVars
<1>1. pc[c] = "poll" /\ UNCHANGED <<world, daemonVars, want, tid, owned, held, crashes>>
    BY DEF Poll, PollFails
<1>2. PICK to \in {"open", "remove", "release"} :
         /\ pc' = [pc EXCEPT ![c] = to]
         /\ to = "remove" <=> owned[c] /\ to # "open"
         /\ to = "open" => ~Refused(c) /\ Ready(c)
    BY DEF Poll, PollFails, Return
<1>3. TypeOK' /\ HashesDiffer' /\ DeliveredIsWanted'
    BY <1>1, <1>2 DEF TypeOK, HashesDiffer, DeliveredIsWanted, Waiting
<1>4. OwnsItsOwn' /\ DirsAreOwn'
    BY <1>1, <1>2 DEF OwnsItsOwn, DirsAreOwn, TypeOK
<1>5. TorrentsFollow' /\ PayloadsFollow'
    <2>1. ASSUME NEW p \in payloads, p.dir = c, c \in Jobs, to = "open"
          PROVE  p.complete /\ p.hash \notin TooLarge
        <3>1. PICK t \in torrents : t.id = tid[c] /\ t.hash = p.hash /\ (t.done => p.complete)
            BY <1>1, <2>1 DEF PayloadsFollow
        <3>2. t.done /\ t.hash \notin TooLarge
            BY <1>2, <2>1, <3>1 DEF Ready, Refused, Known, TypeOK
        <3>. QED BY <3>1, <3>2
    <2>2. ASSUME NEW t \in torrents, t.dir = c, c \in Jobs, to = "open"
          PROVE  t.done /\ t.hash \notin TooLarge
        <3>1. t.id = tid[c]
            BY <1>1, <2>2 DEF TorrentsFollow
        <3>. QED BY <1>2, <2>2, <3>1 DEF Ready, Refused, Known, TypeOK
    <2>3. TorrentsFollow'
        BY <1>1, <1>2, <2>2 DEF TorrentsFollow, TypeOK
    <2>4. PayloadsFollow'
        BY <1>1, <1>2, <2>1 DEF PayloadsFollow, TypeOK
    <2>. QED BY <2>3, <2>4
<1>6. TorrentsAreOwned'
    BY <1>1, <1>2 DEF TorrentsAreOwned, TypeOK
<1>. QED BY <1>3, <1>4, <1>5, <1>6

\* Opening: what is found in a job's directory is what the job wants.
LEMMA OpenKeepsInv ==
    ASSUME DownloadInv, NEW c \in Calls, OpenTorrentFile(c)
    PROVE  DownloadInv'
<1> USE WorldAssumption
<1> USE DEF DownloadInv, daemonVars
<1>1. pc[c] = "open" /\ UNCHANGED <<world, daemonVars, want, tid, owned, crashes>>
    BY DEF OpenTorrentFile
<1>2. PICK to \in {"copy", "remove", "release"} :
         pc' = [pc EXCEPT ![c] = to] /\ (to = "remove" <=> owned[c])
    BY DEF OpenTorrentFile, Return
<1>3. PICK file \in {NoFile} \cup [hash : Hashes, complete : BOOLEAN] :
         /\ held' = [held EXCEPT ![c] = file]
         /\ file = held[c] \/ \E p \in payloads : p.dir = Dir(c) /\ file = [hash |-> p.hash, complete |-> p.complete]
    BY DEF OpenTorrentFile, Found, TypeOK, PayloadType
<1>4. TypeOK' /\ HashesDiffer'
    BY <1>1, <1>2, <1>3 DEF TypeOK, HashesDiffer, Waiting
<1>5. OwnsItsOwn' /\ DirsAreOwn'
    BY <1>1, <1>2, <1>3 DEF OwnsItsOwn, DirsAreOwn, TypeOK
<1>6. TorrentsFollow' /\ PayloadsFollow' /\ TorrentsAreOwned'
    BY <1>1, <1>2 DEF TorrentsFollow, PayloadsFollow, TorrentsAreOwned, TypeOK
<1>7. DeliveredIsWanted'
    <2>1. ASSUME c \in Jobs, file # held[c]
          PROVE  file = [hash |-> want[c].hash, complete |-> TRUE] /\ want[c].hash \notin TooLarge
        <3>1. PICK p \in payloads : p.dir = c /\ file = [hash |-> p.hash, complete |-> p.complete]
            BY <1>3, <2>1 DEF Dir
        <3>2. p.complete = TRUE /\ p.hash \notin TooLarge /\ p.hash = want[c].hash
            BY <1>1, <2>1, <3>1 DEF TorrentsFollow, PayloadsFollow, DirsAreOwn, TypeOK, PayloadType
        <3>. QED BY <3>1, <3>2
    <2>2. \A d \in Jobs : d # c => held'[d] = held[d]
        BY <1>3 DEF TypeOK, Calls
    <2>3. held'[c] = file
        BY <1>3 DEF TypeOK
    <2>. QED BY <1>1, <2>1, <2>2, <2>3 DEF DeliveredIsWanted
<1>. QED BY <1>4, <1>5, <1>6, <1>7

\* The deferred Remove: only the call's own torrent goes, and its data with it.
LEMMA RemoveKeepsInv ==
    ASSUME DownloadInv, NEW c \in Calls, Remove(c)
    PROVE  DownloadInv'
<1> USE WorldAssumption
<1> USE DEF DownloadInv, daemonVars
<1>1. pc[c] = "remove" /\ UNCHANGED <<world, nextId, want, tid, owned, held, crashes>>
    BY DEF Remove, DaemonRemove
<1>2. PICK to \in {"copy", "release"} : pc' = [pc EXCEPT ![c] = to]
    BY DEF Remove
<1>3. torrents' \subseteq torrents /\ payloads' \subseteq payloads
    BY DEF Remove, DaemonRemove
<1>4. TypeOK' /\ HashesDiffer' /\ DeliveredIsWanted'
    BY <1>1, <1>2, <1>3 DEF TypeOK, HashesDiffer, DeliveredIsWanted, Waiting
<1>5. OwnsItsOwn' /\ DirsAreOwn'
    BY <1>1, <1>2, <1>3 DEF OwnsItsOwn, DirsAreOwn, TypeOK
<1>6. TorrentsFollow' /\ PayloadsFollow'
    <2>1. ASSUME NEW p \in payloads', NEW t \in torrents, t.dir = p.dir, t.hash = p.hash
          PROVE  t \in torrents'
        BY <2>1 DEF Remove, DaemonRemove
    <2>. QED BY <1>1, <1>2, <1>3, <2>1 DEF TorrentsFollow, PayloadsFollow, TypeOK
<1>7. TorrentsAreOwned'
    <2>1. ~world.rpcFaults => \A t \in torrents' : t.id # tid[c]
        BY DEF Remove, DaemonRemove
    <2>. QED BY <1>1, <1>2, <1>3, <2>1 DEF TorrentsAreOwned, TypeOK
<1>. QED BY <1>4, <1>5, <1>6, <1>7

\* What the caller does with the result.
LEMMA CallerKeepsInv ==
    ASSUME DownloadInv, NEW c \in Calls, Copy(c) \/ Release(c)
    PROVE  DownloadInv'
<1> USE WorldAssumption
<1> USE DEF DownloadInv, daemonVars
<1>1. pc[c] \in {"copy", "release"} /\ UNCHANGED <<world, torrents, nextId, want, tid, owned, held, crashes>>
    BY DEF Copy, Release
<1>2. PICK to \in {"release", "served", "failed"} : pc' = [pc EXCEPT ![c] = to]
    BY DEF Copy, Release
<1>3. payloads' \subseteq payloads
    BY DEF Copy, Release
<1>4. TypeOK' /\ HashesDiffer' /\ DeliveredIsWanted'
    BY <1>1, <1>2, <1>3 DEF TypeOK, HashesDiffer, DeliveredIsWanted, Waiting, Ended
<1>5. OwnsItsOwn' /\ DirsAreOwn'
    BY <1>1, <1>2, <1>3 DEF OwnsItsOwn, DirsAreOwn, TypeOK
<1>6. TorrentsFollow' /\ PayloadsFollow' /\ TorrentsAreOwned'
    BY <1>1, <1>2, <1>3 DEF TorrentsFollow, PayloadsFollow, TorrentsAreOwned, TypeOK
<1>. QED BY <1>4, <1>5, <1>6

\* A download ends in the daemon, well or in an error.
LEMMA SettleKeepsInv ==
    ASSUME DownloadInv, NEW u \in torrents, Settle(u)
    PROVE  DownloadInv'
<1> USE WorldAssumption
<1> USE DEF DownloadInv
<1>1. UNCHANGED <<world, nextId, callVars, crashes>>
    BY DEF Settle, Complete, Stall
<1>2. PICK v \in TorrentType :
         /\ torrents' = (torrents \ {u}) \cup {v}
         /\ v.id = u.id /\ v.hash = u.hash /\ v.dir = u.dir
         /\ v.done => payloads' = {p \in payloads : p.dir # u.dir \/ p.hash # u.hash}
                                     \cup {[dir |-> u.dir, hash |-> u.hash, complete |-> TRUE]}
         /\ ~v.done => payloads' = payloads
    <2>1. u \in TorrentType /\ ~u.done
        BY DEF Settle, Complete, Stall, TypeOK
    <2>2. CASE Complete(u)
        <3>1. [u EXCEPT !.done = TRUE] \in TorrentType /\ [u EXCEPT !.done = TRUE].done
            BY <2>1 DEF TorrentType
        <3>. QED BY <2>1, <2>2, <3>1 DEF Complete, TorrentType
    <2>3. CASE Stall(u)
        <3>1. [u EXCEPT !.error = TRUE] \in TorrentType /\ ~[u EXCEPT !.error = TRUE].done
            BY <2>1 DEF TorrentType
        <3>. QED BY <2>1, <2>3, <3>1 DEF Stall, TorrentType
    <2>. QED BY <2>2, <2>3 DEF Settle
<1>3. u.dir \in Dirs /\ u.hash \in Hashes /\ v.done \in BOOLEAN
    BY <1>2 DEF TypeOK, TorrentType
<1>4. \A p \in payloads' : p \in payloads \/ (v.done /\ p.dir = u.dir /\ p.hash = u.hash /\ p.complete)
    BY <1>2, <1>3
<1>5. \A p \in payloads' : v.done /\ p.dir = u.dir /\ p.hash = u.hash => p.complete
    BY <1>2
<1>6. TypeOK'
    <2>1. payloads' \subseteq PayloadType
        <3>1. [dir |-> u.dir, hash |-> u.hash, complete |-> TRUE] \in PayloadType
            BY <1>3 DEF PayloadType
        <3>. QED BY <1>2, <1>3, <3>1 DEF TypeOK
    <2>2. /\ torrents' \subseteq TorrentType /\ \A t \in torrents' : t.id < nextId
          /\ \A s, t \in torrents' : s.id = t.id => s = t
        BY <1>2 DEF TypeOK
    <2>. QED BY <1>1, <2>1, <2>2 DEF TypeOK, callVars
<1>7. HashesDiffer' /\ DeliveredIsWanted'
    BY <1>1, <1>2 DEF HashesDiffer, DeliveredIsWanted, callVars
<1>8. OwnsItsOwn'
    BY <1>1, <1>2 DEF OwnsItsOwn, callVars
<1>9. DirsAreOwn'
    BY <1>1, <1>2, <1>4 DEF DirsAreOwn, callVars
<1>10. TorrentsFollow' /\ PayloadsFollow'
    <2>1. u.dir \in Jobs => pc[u.dir] # "open" /\ (pc[u.dir] = "poll" => u.id = tid[u.dir])
        BY DEF TorrentsFollow, Settle, Complete, Stall
    <2>2. TorrentsFollow'
        BY <1>1, <1>2, <2>1 DEF TorrentsFollow, callVars
    <2>3. PayloadsFollow'
        <3>1. pc' = pc /\ tid' = tid
            BY <1>1 DEF callVars
        <3>2. SUFFICES ASSUME NEW p \in payloads', p.dir \in Jobs
              PROVE  /\ pc[p.dir] \in {"poll", "open"} =>
                          \E t \in torrents' : /\ t.id = tid[p.dir] /\ t.dir = p.dir /\ t.hash = p.hash
                                               /\ t.done => p.complete
                     /\ pc[p.dir] = "open" => p.complete /\ p.hash \notin TooLarge
            BY <3>1 DEF PayloadsFollow
        <3>3. CASE v.done /\ p.dir = u.dir /\ p.hash = u.hash /\ p.complete
            BY <1>2, <2>1, <3>2, <3>3
        <3>4. CASE p \in payloads
            <4>1. pc[p.dir] = "open" => p.complete /\ p.hash \notin TooLarge
                BY <3>2, <3>4 DEF PayloadsFollow
            <4>2. ASSUME pc[p.dir] \in {"poll", "open"}
                  PROVE  \E t \in torrents' : /\ t.id = tid[p.dir] /\ t.dir = p.dir /\ t.hash = p.hash
                                              /\ t.done => p.complete
                <5>1. PICK t \in torrents : /\ t.id = tid[p.dir] /\ t.dir = p.dir /\ t.hash = p.hash
                                            /\ t.done => p.complete
                    BY <3>2, <3>4, <4>2 DEF PayloadsFollow
                <5>2. CASE t = u
                    BY <1>2, <1>5, <5>1, <5>2
                <5>3. CASE t # u
                    BY <1>2, <5>1, <5>3
                <5>. QED BY <5>2, <5>3
            <4>. QED BY <4>1, <4>2
        <3>. QED BY <1>4, <3>3, <3>4
    <2>. QED BY <2>2, <2>3
<1>11. TorrentsAreOwned'
    BY <1>1, <1>2 DEF TorrentsAreOwned, callVars
<1>. QED BY <1>6, <1>7, <1>8, <1>9, <1>10, <1>11

\* A crash of the bridge loses the calls and touches nothing else.
LEMMA CrashKeepsInv ==
    ASSUME DownloadInv, Crash \/ UNCHANGED vars
    PROVE  DownloadInv'
<1> USE WorldAssumption, FaultAssumption
<1> USE DEF DownloadInv, vars, daemonVars, callVars
<1>1. CASE UNCHANGED vars
    BY <1>1 DEF TypeOK, HashesDiffer, OwnsItsOwn, DirsAreOwn, PayloadsFollow, TorrentsFollow, DeliveredIsWanted, TorrentsAreOwned
<1>2. CASE Crash
    <2>1. /\ UNCHANGED <<world, daemonVars, want, tid, owned, held>> /\ crashes' \in 0..MaxCrashes
          /\ pc' = [c \in Calls |-> IF Running(c) THEN "lost" ELSE pc[c]]
        BY <1>2 DEF Crash, TypeOK
    <2>2. \A c \in Calls : pc'[c] = pc[c] \/ (pc'[c] = "lost" /\ pc[c] # "idle")
        BY <2>1 DEF Running
    <2>3. TypeOK' /\ HashesDiffer' /\ DeliveredIsWanted'
        BY <2>1, <2>2 DEF TypeOK, HashesDiffer, DeliveredIsWanted, Ended
    <2>4. OwnsItsOwn' /\ DirsAreOwn'
        BY <2>1, <2>2 DEF OwnsItsOwn, DirsAreOwn, Calls
    <2>5. TorrentsFollow' /\ PayloadsFollow' /\ TorrentsAreOwned'
        BY <2>1, <2>2 DEF TorrentsFollow, PayloadsFollow, TorrentsAreOwned, Calls
    <2>. QED BY <2>3, <2>4, <2>5
<1>. QED BY <1>1, <1>2

\* Every step keeps the invariant.
LEMMA DownloadInvAlways == Spec => []DownloadInv
<1>1. DownloadInv /\ [Next]_vars => DownloadInv'
    BY BeginKeepsInv, FindKeepsInv, AddKeepsInv, PollKeepsInv, OpenKeepsInv, RemoveKeepsInv,
       CallerKeepsInv, SettleKeepsInv, CrashKeepsInv DEF Next, Step
<1>. QED BY DownloadInvInit, <1>1, PTL DEF Spec

-----------------------------------------------------------------------------
\* Type correctness of the downloads, for any calls, torrents and names.
THEOREM DownloadTypes == Spec => []TypeOK
<1>1. DownloadInv => TypeOK
    BY DEF DownloadInv
<1>. QED BY DownloadInvAlways, <1>1, PTL

\* A job is only ever handed the complete file of the torrent it asked for,
\* whatever the torrents are called and whichever of them it polled.
THEOREM DeliveriesAreWanted == Spec => []DeliveredIsWanted
<1>1. DownloadInv => DeliveredIsWanted
    BY DEF DownloadInv
<1>. QED BY DownloadInvAlways, <1>1, PTL

\* Where no RPC fails, no call of a job leaves its torrent behind.
THEOREM NothingIsOrphaned == Spec => []NoOrphans
<1>1. DownloadInv => NoOrphans
    <2> SUFFICES ASSUME DownloadInv, ~world.rpcFaults, NEW c \in Jobs,
                        pc[c] \in {"copy", "release", "served", "failed"}, NEW t \in torrents
                 PROVE  t.dir # c
        BY DEF NoOrphans
    <2>. QED BY DEF DownloadInv, TorrentsAreOwned
<1>. QED BY DownloadInvAlways, <1>1, PTL

\* No step deletes a torrent but a Remove of a call that asked for its content.
THEOREM StrangersStay == Spec => NoStrangerRemoved
<1>1. ASSUME DownloadInv, [Next]_vars, NEW u \in torrents, \A s \in torrents' : s.id # u.id
      PROVE  \E c \in Calls : pc[c] = "remove" /\ tid[c] = u.id /\ want[c].hash = u.hash
    <2>1. ~UNCHANGED torrents
        BY <1>1
    <2>2. ASSUME NEW t \in torrents, Settle(t)
          PROVE  FALSE
        <3>1. PICK v : v.id = t.id /\ torrents' = (torrents \ {t}) \cup {v}
            BY <2>2, <1>1 DEF Settle, Complete, Stall, DownloadInv, TypeOK, TorrentType
        <3>. QED BY <1>1, <3>1
    <2>3. ASSUME NEW c \in Calls, Begin(c) \/ Step(c) \/ PollFails(c)
          PROVE  Remove(c)
        <3>1. ~Add(c)
            BY <1>1 DEF Add, DaemonAdd, daemonVars
        <3>. QED BY <2>1, <2>3, <3>1 DEF Begin, Step, Find, Poll, PollFails, OpenTorrentFile, Copy,
                                   Release, daemonVars
    <2>4. PICK c \in Calls : Remove(c)
        BY <1>1, <2>1, <2>2, <2>3 DEF Next, Crash, vars, daemonVars
    <2>5. pc[c] = "remove" /\ tid[c] = u.id
        BY <1>1, <2>1, <2>4 DEF Remove, DaemonRemove, daemonVars
    <2>. QED BY <1>1, <2>5 DEF DownloadInv, OwnsItsOwn
<1>2. DownloadInv /\ [Next]_vars =>
        [\A t \in torrents : (\A s \in torrents' : s.id # t.id) =>
          \E c \in Calls : pc[c] = "remove" /\ tid[c] = t.id /\ want[c].hash = t.hash]_vars
    BY <1>1
<1>. QED BY DownloadInvAlways, <1>2, PTL DEF Spec, NoStrangerRemoved

-----------------------------------------------------------------------------
(* Refinement of FileFetch. *)

Phases == [c \in Calls |-> PhaseAt(pc[c])]
Asked  == [c \in Calls |-> want[c].hash]

\* A call that moves on is the only one whose phase changes.
LEMMA PhaseMoves ==
    ASSUME TypeOK, NEW c \in Calls, NEW p, pc' = [pc EXCEPT ![c] = p]
    PROVE  Phases' = [Phases EXCEPT ![c] = PhaseAt(p)] /\ Phases[c] = PhaseAt(pc[c])
BY DEF TypeOK, Phases

\* What the positions of a call are to its caller.
LEMMA PhaseValues ==
    /\ \A p \in Waiting : PhaseAt(p) = "waiting"
    /\ \A p \in {"remove", "copy", "release"} : PhaseAt(p) = "closing"
    /\ \A p \in Ended \cup {"idle"} : PhaseAt(p) = p
BY DEF PhaseAt, Waiting, Ended

\* A return sends a waiting call to one of the positions where it closes.
LEMMA ReturnCloses ==
    ASSUME TypeOK, NEW c \in Calls, NEW outcome, pc[c] \in Waiting, Return(c, outcome)
    PROVE  Phases[c] = "waiting" /\ Phases' = [Phases EXCEPT ![c] = "closing"]
<1>1. PICK p \in {"remove", "copy", "release"} : pc' = [pc EXCEPT ![c] = p]
    BY DEF Return
<1>2. Phases[c] = PhaseAt(pc[c]) /\ Phases' = [Phases EXCEPT ![c] = PhaseAt(p)]
    BY <1>1, PhaseMoves
<1>3. PhaseAt(pc[c]) = "waiting" /\ PhaseAt(p) = "closing"
    BY PhaseValues
<1>. QED BY <1>2, <1>3

\* A call that begins has asked.
LEMMA BeginRefines == ASSUME DownloadInv, NEW c \in Calls, Begin(c) PROVE Fetch!Ask(c)
<1>1. TypeOK
    BY DEF DownloadInv
<1>2. Phases[c] = "idle" /\ Phases' = [Phases EXCEPT ![c] = "waiting"]
    <2>1. pc[c] = "idle" /\ pc' = [pc EXCEPT ![c] = "find"] /\ "find" \in Waiting
        BY DEF Begin, Waiting
    <2>2. Phases[c] = PhaseAt(pc[c]) /\ Phases' = [Phases EXCEPT ![c] = PhaseAt("find")]
        BY <1>1, <2>1, PhaseMoves
    <2>3. PhaseAt("idle") = "idle" /\ PhaseAt("find") = "waiting"
        BY <2>1, PhaseValues
    <2>. QED BY <2>1, <2>2, <2>3
<1>3. PICK w \in Wants : want' = [want EXCEPT ![c] = w]
    BY DEF Begin
<1>4. w.hash \in Hashes /\ Asked' = [Asked EXCEPT ![c] = w.hash]
    BY <1>1, <1>3 DEF Wants, TypeOK, Asked
<1>5. UNCHANGED <<world, held, torrents>>
    BY DEF Begin, daemonVars
<1>. QED BY <1>2, <1>4, <1>5 DEF Fetch!Ask, Fetch!Move, Phases, Asked, Traces

\* A call that gives up on the way closes, and leaves the daemon as it was.
LEMMA GivesUp ==
    ASSUME TypeOK, NEW c \in Calls, NEW outcome, pc[c] \in Waiting, Return(c, outcome),
           UNCHANGED <<world, want, held>>,
           \/ UNCHANGED torrents
           \/ /\ world.rpcFaults /\ c \in Jobs
              /\ Traces' = Traces \cup {c}
    PROVE  Fetch!GiveUp(c)
<1>1. Phases[c] = "waiting" /\ Phases' = [Phases EXCEPT ![c] = "closing"]
    BY ReturnCloses
<1>2. Traces' = Traces \/ (world.rpcFaults /\ c \in Jobs /\ Traces' = Traces \cup {c})
    BY DEF Traces
<1>. QED BY <1>1, <1>2 DEF Fetch!GiveUp, Fetch!Move, Phases, Asked, Traces

\* Looking for the torrent is invisible, unless it fails.
LEMMA FindRefines ==
    ASSUME DownloadInv, NEW c \in Calls, Find(c) PROVE Fetch!GiveUp(c) \/ UNCHANGED Fetch!vars
<1>1. TypeOK /\ pc[c] = "find" /\ "find" \in Waiting /\ "poll" \in Waiting /\ "add" \in Waiting
    BY DEF Find, DownloadInv, Waiting
<1>2. CASE Return(c, "failed")
    BY <1>1, <1>2, GivesUp DEF Find, daemonVars
<1>3. ASSUME NEW p \in Waiting, pc' = [pc EXCEPT ![c] = p]
      PROVE  UNCHANGED Fetch!vars
    <2>1. Phases' = Phases
        BY <1>1, <1>3, PhaseMoves, PhaseValues DEF Phases
    <2>. QED BY <2>1 DEF Find, daemonVars, Fetch!vars, Phases, Asked, Traces
<1>. QED BY <1>1, <1>2, <1>3 DEF Find

\* A torrent the daemon adds goes to the call's own directory.
LEMMA AddedTrace ==
    ASSUME TypeOK, NEW c \in Calls, DaemonAdd(c)
    PROVE  \/ UNCHANGED torrents
           \/ Traces' = IF c \in Jobs THEN Traces \cup {c} ELSE Traces
<1>1. CASE UNCHANGED torrents
    BY <1>1
<1>2. CASE ~UNCHANGED torrents
    <2> DEFINE n == [id |-> nextId, hash |-> want[c].hash, dir |-> Dir(c),
                     done |-> FALSE, error |-> FALSE]
    <2>1. torrents' = torrents \cup {n} /\ n.dir = Dir(c)
        BY <1>2 DEF DaemonAdd, daemonVars
    <2> HIDE DEF n
    <2>2. CASE c \in Jobs
        <3>1. n.dir = c
            BY <2>1, <2>2 DEF Dir
        <3>2. \A d \in Jobs : (\E t \in torrents' : t.dir = d)
                                 <=> (\E t \in torrents : t.dir = d) \/ d = c
            BY <2>1, <3>1
        <3>. QED BY <2>2, <3>2 DEF Traces
    <2>3. CASE c \notin Jobs
        <3>1. n.dir \notin Jobs
            BY <2>1, <2>3, WorldAssumption DEF Dir
        <3>. QED BY <2>1, <2>3, <3>1 DEF Traces
    <2>. QED BY <2>2, <2>3
<1>. QED BY <1>1, <1>2

\* Adding the torrent is the download's begin, if it is not known already.
LEMMA AddRefines ==
    ASSUME DownloadInv, NEW c \in Calls, Add(c)
    PROVE  Fetch!Download(c) \/ Fetch!GiveUp(c) \/ UNCHANGED Fetch!vars
<1>1. TypeOK /\ pc[c] = "add" /\ "add" \in Waiting /\ "poll" \in Waiting
      /\ UNCHANGED <<world, want, held>>
    BY DEF Add, DownloadInv, Waiting
<1>2. CASE /\ world.rpcFaults /\ Return(c, "failed")
           /\ DaemonAdd(c) \/ UNCHANGED daemonVars
    <2>1. \/ UNCHANGED torrents
          \/ c \in Jobs /\ Traces' = Traces \cup {c}
          \/ Traces' = Traces
        BY <1>1, <1>2, AddedTrace DEF daemonVars
    <2>2. Phases[c] = "waiting" /\ Phases' = [Phases EXCEPT ![c] = "closing"]
        BY <1>1, <1>2, ReturnCloses
    <2>3. Traces' = Traces \/ (world.rpcFaults /\ c \in Jobs /\ Traces' = Traces \cup {c})
        BY <1>2, <2>1 DEF Traces
    <2>. QED BY <1>1, <2>2, <2>3 DEF Fetch!GiveUp, Fetch!Move, Phases, Asked, Traces
<1>3. CASE DaemonAdd(c) /\ pc' = [pc EXCEPT ![c] = "poll"]
    <2>1. Phases' = Phases /\ Phases[c] = "waiting"
        BY <1>1, <1>3, PhaseMoves, PhaseValues DEF Phases
    <2>2. CASE Traces' = Traces
        BY <1>1, <2>1, <2>2 DEF Fetch!vars, Phases, Asked, Traces
    <2>3. CASE c \in Jobs /\ Traces' = Traces \cup {c}
        BY <1>1, <2>1, <2>3 DEF Fetch!Download, Phases, Asked, Traces
    <2>4. Traces' = Traces \/ (c \in Jobs /\ Traces' = Traces \cup {c})
        BY <1>1, <1>3, AddedTrace DEF Traces
    <2>. QED BY <2>2, <2>3, <2>4
<1>. QED BY <1>1, <1>2, <1>3 DEF Add

\* Polling is invisible, unless the call is refused.
LEMMA PollRefines ==
    ASSUME DownloadInv, NEW c \in Calls, Poll(c) \/ PollFails(c)
    PROVE  Fetch!GiveUp(c) \/ UNCHANGED Fetch!vars
<1>1. TypeOK /\ pc[c] = "poll" /\ "poll" \in Waiting /\ "open" \in Waiting
      /\ UNCHANGED <<world, want, held, torrents>>
    BY DEF Poll, PollFails, DownloadInv, Waiting, daemonVars
<1>2. CASE Return(c, "failed")
    BY <1>1, <1>2, GivesUp
<1>3. CASE pc' = [pc EXCEPT ![c] = "open"]
    <2>1. Phases' = Phases
        BY <1>1, <1>3, PhaseMoves, PhaseValues DEF Phases
    <2>. QED BY <1>1, <2>1 DEF Fetch!vars, Phases, Asked, Traces
<1>. QED BY <1>2, <1>3 DEF Poll, PollFails

\* The file a job opens is of a torrent in its own directory, and the one it
\* asked for; a retrieval is handed what it finds.
LEMMA OpenRefines ==
    ASSUME DownloadInv, NEW c \in Calls, OpenTorrentFile(c)
    PROVE  Fetch!GiveUp(c) \/ \E file \in Fetch!Files : Fetch!Hand(c, file)
<1>1. TypeOK /\ pc[c] = "open" /\ "open" \in Waiting /\ UNCHANGED <<world, want, torrents>>
    BY DEF OpenTorrentFile, DownloadInv, Waiting, daemonVars
<1>2. CASE Return(c, "failed") /\ UNCHANGED held
    BY <1>1, <1>2, GivesUp
<1>3. ASSUME NEW p \in Found(c), Return(c, "served"),
             held' = [held EXCEPT ![c] = [hash |-> p.hash, complete |-> p.complete]]
      PROVE  \E file \in Fetch!Files : Fetch!Hand(c, file)
    <2> DEFINE file == [hash |-> p.hash, complete |-> p.complete]
    <2>1. p \in payloads /\ p.dir = Dir(c) /\ file \in Fetch!Files
        BY <1>1, <1>3 DEF Found, TypeOK, PayloadType, Fetch!Files
    <2>2. Phases[c] = "waiting" /\ Phases' = [Phases EXCEPT ![c] = "closing"]
        BY <1>1, <1>3, ReturnCloses
    <2>3. ASSUME c \in Jobs
          PROVE  /\ p.complete = TRUE /\ p.hash = want[c].hash /\ p.hash \notin TooLarge
                 /\ c \in Traces
        <3>1. p.dir = c /\ c \in Jobs
            BY <2>1, <2>3 DEF Dir
        <3>2. p.complete /\ p.hash \notin TooLarge /\ c \in Traces
            BY <1>1, <2>1, <3>1 DEF DownloadInv, PayloadsFollow, Traces
        <3>3. p.hash = want[c].hash
            BY <2>1, <3>1 DEF DownloadInv, DirsAreOwn
        <3>. QED BY <1>1, <2>1, <3>2, <3>3 DEF TypeOK, PayloadType
    <2>4. c \in Jobs => /\ file = [hash |-> want[c].hash, complete |-> TRUE]
                        /\ want[c].hash \notin TooLarge /\ c \in Traces
        BY <2>3
    <2>5. Fetch!Hand(c, file)
        BY <1>1, <1>3, <2>2, <2>4 DEF Fetch!Hand, Fetch!Move, Phases, Asked, Traces
    <2>. QED BY <2>1, <2>5
<1>. QED BY <1>2, <1>3 DEF OpenTorrentFile

\* The deferred Remove takes the call's own torrent, which may be the trace of
\* another job that asked for the same one.
LEMMA RemoveRefines ==
    ASSUME DownloadInv, NEW c \in Calls, Remove(c)
    PROVE  (\E d \in Calls : Fetch!Remove(d)) \/ UNCHANGED Fetch!vars
<1>1. TypeOK /\ pc[c] = "remove" /\ UNCHANGED <<world, want, held>>
    BY DEF Remove, DownloadInv
<1>2. PICK p \in {"copy", "release"} : pc' = [pc EXCEPT ![c] = p]
    BY DEF Remove
<1>3. Phases' = Phases /\ Phases[c] = "closing"
    BY <1>1, <1>2, PhaseMoves, PhaseValues DEF Phases
<1>4. CASE Traces' = Traces
    BY <1>1, <1>3, <1>4 DEF Fetch!vars, Phases, Asked, Traces
<1>5. CASE Traces' # Traces
    <2>1. torrents' = {t \in torrents : t.id # tid[c]}
        BY <1>5 DEF Remove, DaemonRemove, daemonVars, Traces
    <2>2. PICK t \in torrents : t.id = tid[c] /\ t.dir \in Jobs
        BY <1>5, <2>1 DEF Traces
    <2>3. t.hash = want[c].hash /\ t.hash = want[t.dir].hash
        BY <1>1, <2>2 DEF DownloadInv, OwnsItsOwn, DirsAreOwn
    <2>4. \A s \in torrents : s.dir = t.dir => s = t
        BY <2>2 DEF DownloadInv, DirsAreOwn, HashesDiffer
    <2>5. Traces' = Traces \ {t.dir} /\ t.dir \in Traces
        BY <1>1, <2>1, <2>2, <2>4 DEF Traces, TypeOK
    <2>6. t.dir \in Calls
        BY <2>2 DEF Calls
    <2>7. Fetch!Remove(t.dir)
        BY <1>1, <1>3, <2>3, <2>5, <2>6 DEF Fetch!Remove, Phases, Asked, Traces
    <2>. QED BY <2>6, <2>7
<1>. QED BY <1>4, <1>5

\* The caller's copy is invisible; with its return the call has ended.
LEMMA CallerRefines ==
    ASSUME DownloadInv, NEW c \in Calls, Copy(c) \/ Release(c)
    PROVE  Fetch!End(c) \/ UNCHANGED Fetch!vars
<1>1. TypeOK /\ pc[c] \in {"copy", "release"} /\ UNCHANGED <<world, want, held, torrents>>
    BY DEF Copy, Release, DownloadInv, daemonVars
<1>2. CASE pc' = [pc EXCEPT ![c] = "release"]
    <2>1. Phases' = Phases
        BY <1>1, <1>2, PhaseMoves, PhaseValues DEF Phases
    <2>. QED BY <1>1, <2>1 DEF Fetch!vars, Phases, Asked, Traces
<1>3. ASSUME NEW p \in Ended, p = (IF held[c] # NoFile THEN "served" ELSE "failed"),
             pc' = [pc EXCEPT ![c] = p]
      PROVE  Fetch!End(c)
    <2>1. Phases' = [Phases EXCEPT ![c] = p] /\ Phases[c] = "closing"
        <3>1. Phases[c] = PhaseAt(pc[c]) /\ Phases' = [Phases EXCEPT ![c] = PhaseAt(p)]
            BY <1>1, <1>3, PhaseMoves
        <3>2. PhaseAt(pc[c]) = "closing" /\ PhaseAt(p) = p
            BY <1>1, <1>3, PhaseValues
        <3>. QED BY <3>1, <3>2
    <2>2. ~world.rpcFaults => c \notin Traces
        BY <1>1 DEF DownloadInv, TorrentsAreOwned, Traces
    <2>. QED BY <1>1, <1>3, <2>1, <2>2
             DEF Fetch!End, Fetch!Move, Fetch!Nothing, NoFile, Phases, Asked, Traces
<1>. QED BY <1>1, <1>2, <1>3 DEF Copy, Release, Ended

\* A download that ends is in the daemon as before.
LEMMA SettleRefines ==
    ASSUME DownloadInv, NEW t \in torrents, Settle(t) PROVE UNCHANGED Fetch!vars
<1>1. PICK s : s.dir = t.dir /\ torrents' = (torrents \ {t}) \cup {s}
    BY DEF Settle, Complete, Stall, DownloadInv, TypeOK, TorrentType
<1>2. UNCHANGED <<world, pc, want, held>>
    BY DEF Settle, Complete, Stall, callVars
<1>3. Traces' = Traces
    BY <1>1 DEF Traces
<1>. QED BY <1>2, <1>3 DEF Fetch!vars, Traces

\* A crash ends the calls that are under way.
LEMMA CrashRefines == ASSUME DownloadInv, Crash PROVE Fetch!Die
<1>1. UNCHANGED <<world, torrents, want, held>>
    BY DEF Crash, daemonVars
<1>2. ASSUME NEW c \in Calls
      PROVE  Phases'[c] = IF Phases[c] \in {"waiting", "closing"} THEN "lost" ELSE Phases[c]
    <2>1. /\ pc[c] \in Waiting \cup Ended \cup {"idle", "remove", "copy", "release"}
          /\ pc'[c] = IF pc[c] \in {"idle"} \cup Ended THEN pc[c] ELSE "lost"
        BY DEF Crash, Running, DownloadInv, TypeOK
    <2>. QED BY <2>1 DEF Phases, PhaseAt, Waiting, Ended
<1>3. Phases' = [c \in Calls |-> IF Phases[c] \in {"waiting", "closing"} THEN "lost" ELSE Phases[c]]
    BY <1>2 DEF Phases
<1>. QED BY <1>1, <1>3 DEF Fetch!Die, Phases, Asked, Traces

\* DownloadFile implements FileFetch: what a job is handed, when, and what it
\* leaves in the daemon, for any calls, torrents, names, failures and crashes.
THEOREM DownloadsAreFetches == Spec => ImplementsFetch
<1>1. Init => Fetch!Init
    BY FaultAssumption, WorldAssumption
    DEF Init, Fetch!Init, WorldType, PhaseAt, Waiting, Traces, NoWant, NoFile, Fetch!Nothing
<1>2. DownloadInv /\ [Next]_vars => [Fetch!Next]_(Fetch!vars)
    <2> SUFFICES ASSUME DownloadInv, [Next]_vars PROVE Fetch!Next \/ UNCHANGED Fetch!vars
        OBVIOUS
    <2>1. ASSUME NEW c \in Calls, Begin(c) \/ Step(c) \/ PollFails(c)
          PROVE  Fetch!Next \/ UNCHANGED Fetch!vars
        BY <2>1, BeginRefines, FindRefines, AddRefines, PollRefines, OpenRefines, RemoveRefines,
           CallerRefines DEF Step, Fetch!Next
    <2>2. CASE UNCHANGED vars
        BY <2>2 DEF vars, daemonVars, callVars, Fetch!vars, Traces
    <2>. QED BY <2>1, <2>2, SettleRefines, CrashRefines DEF Next, Fetch!Next
<1>. QED BY <1>1, <1>2, DownloadInvAlways, PTL DEF Spec, Fetch!Spec, ImplementsFetch
=============================================================================
