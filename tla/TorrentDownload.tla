-------------------------- MODULE TorrentDownload --------------------------
(***************************************************************************)
(* Transmission.DownloadFile, internal/torrent/transmission.go, called at  *)
(* once by the workers of several acquisitions (manager.go, runTorrent)    *)
(* and by the retrieval of the catalogue at startup (main.go,              *)
(* retrieveCatalogueTorrent), over one Transmission daemon.                *)
(*                                                                         *)
(* Each RPC is one step: between two of them other calls, the daemon and a *)
(* crash of the bridge may come.  The daemon survives such a crash with    *)
(* its torrents and its files.  The daemon is external: it is modelled as  *)
(* this code uses it.                                                      *)
(***************************************************************************)
EXTENDS Integers, FiniteSets

CONSTANTS
    Jobs,        \* calls of acquisition workers, each with a directory of its own
    Retrievals,  \* calls of retrieveCatalogueTorrent, all with the shared root
    Root,        \* that directory, /downloads
    Hashes,      \* torrents that exist at all
    Names,       \* names of torrents and base names of files
    TorrentName, \* the top-level name of each torrent
    FilesOf,     \* the base names of the files of each torrent
    TooLarge,    \* the torrents above the size limit of the calls
    Worlds,      \* the conditions a behaviour may run under, see WorldType
    MaxErrors,   \* bound: torrents the daemon reports an error for
    MaxCrashes   \* bound: crashes of the bridge

Calls == Jobs \cup Retrievals

\* calls are the ones that are made at all; rpcFaults is whether an RPC may fail,
\* before or after it took effect, ioFaults whether opening a file may.
WorldType == [calls : SUBSET Calls, rpcFaults : BOOLEAN, ioFaults : BOOLEAN]

ASSUME WorldAssumption ==
    /\ Jobs \cap Retrievals = {} /\ Root \notin Jobs
    /\ TorrentName \in [Hashes -> Names]
    /\ FilesOf \in [Hashes -> SUBSET Names]
    /\ TooLarge \subseteq Hashes

ASSUME FaultAssumption ==
    Worlds \subseteq WorldType /\ MaxErrors \in Nat /\ MaxCrashes \in Nat

VARIABLES
    world,     \* the conditions of this behaviour
    torrents,  \* the daemon's torrents
    nextId,    \* the id of the next torrent the daemon adds
    payloads,  \* what is on disk below the download directories
    pc,        \* where each call stands
    want,      \* the torrent and file each call is for
    tid,       \* addedID
    owned,     \* whether the call will remove its torrent when it returns
    held,      \* what the open file of each call refers to
    crashes    \* crashes of the bridge so far

daemonVars == <<torrents, nextId, payloads>>
callVars   == <<pc, want, tid, owned, held>>
vars == <<world, daemonVars, callVars, crashes>>

Wants == {w \in [hash : Hashes, file : Names] : w.file \in FilesOf[w.hash]}
NoWant == [hash |-> "none", file |-> "none"]
NoFile == [hash |-> "none", complete |-> FALSE]
NoId   == 0

Waiting == {"find", "add", "poll", "open"}
Ended   == {"served", "failed", "lost"}

\* The directory a call downloads to and looks for its file in.
Dir(c) == IF c \in Jobs THEN c ELSE Root
Dirs   == Jobs \cup {Root}

Init ==
    /\ world \in Worlds
    /\ torrents = {}
    /\ nextId = 1
    /\ payloads = {}
    /\ pc = [c \in Calls |-> "idle"]
    /\ want = [c \in Calls |-> NoWant]
    /\ tid = [c \in Calls |-> NoId]
    /\ owned = [c \in Calls |-> FALSE]
    /\ held = [c \in Calls |-> NoFile]
    /\ crashes = 0

-----------------------------------------------------------------------------
(* DownloadFile. *)

Running(c) == pc[c] \notin {"idle"} \cup Ended

\* A start of the process retrieves at most two catalogues, the records and the
\* files, side by side; the two are configured with torrents of different names.
RetrievalMayStart(w) ==
    /\ Cardinality({r \in Retrievals : pc[r] # "idle"}) < 2 * (crashes + 1)
    /\ \A r \in Retrievals :
          Running(r) => TorrentName[want[r].hash] # TorrentName[w.hash]

\* The caller has made the directory, and wants what its locator, or what the
\* configuration of this start of the process, names.
Begin(c) ==
    /\ pc[c] = "idle" /\ c \in world.calls
    /\ \E w \in Wants :
          /\ c \in Retrievals => RetrievalMayStart(w)
          /\ want' = [want EXCEPT ![c] = w]
    /\ pc' = [pc EXCEPT ![c] = "find"]
    /\ UNCHANGED <<world, daemonVars, tid, owned, held, crashes>>

\* Mutant of Return: an error returns without the deferred Remove.
Return_SkipsRemove(c, outcome) ==
    pc' = [pc EXCEPT ![c] = IF owned[c] /\ outcome = "served" THEN "remove" ELSE
                            IF outcome = "served" THEN "copy" ELSE "release"]

\* A return: the deferred Remove first, when the call owns its torrent.
Return(c, outcome) ==
    pc' = [pc EXCEPT ![c] = IF owned[c] THEN "remove" ELSE
                            IF outcome = "served" THEN "copy" ELSE "release"]

Named(w) == {t \in torrents : TorrentName[t.hash] = w.file}

\* Mutant of Find: a torrent that was found is owned too.
Find_Owns(c) ==
    /\ pc[c] = "find"
    /\ \/ \E t \in Named(want[c]) :
             /\ tid' = [tid EXCEPT ![c] = t.id]
             /\ owned' = [owned EXCEPT ![c] = TRUE]
             /\ pc' = [pc EXCEPT ![c] = "poll"]
       \/ /\ Named(want[c]) = {}
          /\ pc' = [pc EXCEPT ![c] = "add"]
          /\ UNCHANGED <<tid, owned>>
    /\ UNCHANGED <<world, daemonVars, want, held, crashes>>

\* FindByName compares the names of all the daemon's torrents with the base
\* name of the file, whatever torrent or directory the caller meant.
Find(c) ==
    /\ pc[c] = "find"
    /\ \/ \E t \in Named(want[c]) :
             /\ tid' = [tid EXCEPT ![c] = t.id]
             /\ pc' = [pc EXCEPT ![c] = "poll"]
       \/ /\ Named(want[c]) = {}
          /\ pc' = [pc EXCEPT ![c] = "add"]
          /\ UNCHANGED tid
       \/ /\ world.rpcFaults
          /\ Return(c, "failed")
          /\ UNCHANGED tid
    /\ UNCHANGED <<world, daemonVars, want, owned, held, crashes>>

Same(h) == {t \in torrents : t.hash = h}

\* External: the daemon knows a torrent by its hash and, for one it already
\* has, answers torrent-duplicate with the torrent's id.
DaemonAdd(c) ==
    IF Same(want[c].hash) # {} THEN UNCHANGED daemonVars ELSE
        /\ torrents' = torrents \cup {[id |-> nextId, hash |-> want[c].hash, dir |-> Dir(c),
                                       done |-> FALSE, error |-> FALSE]}
        /\ nextId' = nextId + 1
        /\ payloads' = payloads \cup {[dir |-> Dir(c), hash |-> want[c].hash,
                                       complete |-> FALSE]}

\* Add: a duplicate counts as added, so the call owns it.  When only the answer
\* is lost the torrent stays: the deferred Remove was not yet set up.
Add(c) ==
    /\ pc[c] = "add"
    /\ \/ /\ DaemonAdd(c)
          /\ \E t \in torrents' :
                t.hash = want[c].hash /\ tid' = [tid EXCEPT ![c] = t.id]
          /\ owned' = [owned EXCEPT ![c] = TRUE]
          /\ pc' = [pc EXCEPT ![c] = "poll"]
       \/ /\ world.rpcFaults
          /\ DaemonAdd(c) \/ UNCHANGED daemonVars
          /\ Return(c, "failed")
          /\ UNCHANGED <<tid, owned>>
    /\ UNCHANGED <<world, want, held, crashes>>

Known(c) == {t \in torrents : t.id = tid[c]}

\* Mutant of Refused: a torrent that has disappeared is waited for.
Refused_NotMissing(c) ==
    \E t \in Known(c) : t.hash \in TooLarge \/ t.error

\* Mutant of Refused: the size of the torrent is not looked at.
Refused_AnySize(c) ==
    Known(c) = {} \/ \E t \in Known(c) : t.error

Refused(c) ==
    \/ Known(c) = {}
    \/ \E t \in Known(c) : t.hash \in TooLarge \/ t.error

Ready(c) == \E t \in Known(c) : t.done

\* One turn of the polling loop.  A torrent that is neither refused nor ready
\* leaves the call where it is; ctx is context.Background, so that it never ends.
Poll(c) ==
    /\ pc[c] = "poll"
    /\ \/ Refused(c) /\ Return(c, "failed")
       \/ ~Refused(c) /\ Ready(c) /\ pc' = [pc EXCEPT ![c] = "open"]
    /\ UNCHANGED <<world, daemonVars, want, tid, owned, held, crashes>>

\* A turn whose RPC fails.  It is not among the steps that fairness demands: a
\* call that waits cannot count on a failure to end it.
PollFails(c) ==
    /\ pc[c] = "poll" /\ world.rpcFaults
    /\ Return(c, "failed")
    /\ UNCHANGED <<world, daemonVars, want, tid, owned, held, crashes>>

\* Mutant of Found: the file is looked for where the daemon has the torrent.
Found_AnyDir(c) ==
    {p \in payloads : \E t \in Known(c) : p.dir = t.dir /\ p.hash = t.hash}

\* What the call's path resolves to: below its own directory, by name.
Found(c) ==
    {p \in payloads : /\ p.dir = Dir(c)
                      /\ TorrentName[p.hash] = TorrentName[want[c].hash]
                      /\ want[c].file \in FilesOf[p.hash]}

\* openTorrentFile and Stat, either of which may fail.  A file is no larger than
\* its torrent, but the file found need not be of the torrent whose size the
\* loop has checked: one over the limit is refused here.
OpenTorrentFile(c) ==
    /\ pc[c] = "open"
    /\ \/ \E p \in Found(c) :
             /\ held' = [held EXCEPT ![c] = [hash |-> p.hash, complete |-> p.complete]]
             /\ Return(c, "served")
       \/ /\ Found(c) = {} \/ world.ioFaults \/ \E p \in Found(c) : p.hash \in TooLarge
          /\ Return(c, "failed")
          /\ UNCHANGED held
    /\ UNCHANGED <<world, daemonVars, want, tid, owned, crashes>>

\* External: the torrent and its data are deleted.  An open file stays readable.
DaemonRemove(id) ==
    /\ torrents' = {t \in torrents : t.id # id}
    /\ payloads' = {p \in payloads :
                      ~\E t \in torrents : t.id = id /\ t.dir = p.dir /\ t.hash = p.hash}
    /\ UNCHANGED nextId

\* The deferred Remove, whose error is ignored.
Remove(c) ==
    /\ pc[c] = "remove"
    /\ DaemonRemove(tid[c]) \/ (world.rpcFaults /\ UNCHANGED daemonVars)
    /\ pc' = [pc EXCEPT ![c] = IF held[c] # NoFile THEN "copy" ELSE "release"]
    /\ UNCHANGED <<world, want, tid, owned, held, crashes>>

-----------------------------------------------------------------------------
(* What the callers do with the result. *)

\* The file is copied out of the handle.
Copy(c) ==
    /\ pc[c] = "copy"
    /\ pc' = [pc EXCEPT ![c] = "release"]
    /\ UNCHANGED <<world, daemonVars, want, tid, owned, held, crashes>>

\* runTorrent removes its directory on return, retrieveCatalogueTorrent has
\* none of its own.
Release(c) ==
    /\ pc[c] = "release"
    /\ pc' = [pc EXCEPT ![c] = IF held[c] # NoFile THEN "served" ELSE "failed"]
    /\ payloads' = IF c \in Jobs THEN {p \in payloads : p.dir # c} ELSE payloads
    /\ UNCHANGED <<world, torrents, nextId, want, tid, owned, held, crashes>>

-----------------------------------------------------------------------------
(* The environment. *)

\* External: a download completes, and its payload with it.
Complete(t) ==
    /\ ~t.done /\ ~t.error
    /\ torrents' = (torrents \ {t}) \cup {[t EXCEPT !.done = TRUE]}
    /\ payloads' = {p \in payloads : p.dir # t.dir \/ p.hash # t.hash}
                      \cup {[dir |-> t.dir, hash |-> t.hash, complete |-> TRUE]}
    /\ UNCHANGED <<world, nextId, callVars, crashes>>

\* External: a tracker or disk error.
Stall(t) ==
    /\ ~t.done /\ ~t.error
    /\ Cardinality({s \in torrents : s.error}) < MaxErrors
    /\ torrents' = (torrents \ {t}) \cup {[t EXCEPT !.error = TRUE]}
    /\ UNCHANGED <<world, nextId, payloads, callVars, crashes>>

\* The bridge dies: its calls are gone, deferred functions do not run.
Crash ==
    /\ crashes < MaxCrashes
    /\ crashes' = crashes + 1
    /\ pc' = [c \in Calls |-> IF Running(c) THEN "lost" ELSE pc[c]]
    /\ UNCHANGED <<world, daemonVars, want, tid, owned, held>>

-----------------------------------------------------------------------------
Step(c) ==
    \/ Find(c) \/ Add(c) \/ Poll(c) \/ OpenTorrentFile(c)
    \/ Remove(c) \/ Copy(c) \/ Release(c)

Settle(t) == Complete(t) \/ Stall(t)

Next ==
    \/ \E c \in Calls : Begin(c) \/ Step(c) \/ PollFails(c)
    \/ \E t \in torrents : Settle(t)
    \/ Crash

Spec == Init /\ [][Next]_vars

\* A call's goroutine runs on: the RPC client times out after 15 s and the
\* ticker fires every second.
FairCalls == \A c \in Calls : WF_vars(Step(c))

\* Not the code's doing: the daemon ends each download in one way or the other.
FairDaemon ==
    \A h \in Hashes : WF_vars(\E t \in Same(h) : Settle(t))

FairSpec == Spec /\ FairCalls /\ FairDaemon
-----------------------------------------------------------------------------
(* Properties. *)

TorrentType == [id : Nat \ {0}, hash : Hashes, dir : Dirs, done : BOOLEAN, error : BOOLEAN]
PayloadType == [dir : Dirs, hash : Hashes, complete : BOOLEAN]

\* Every variable stays in its range, torrent ids are never given twice, and a
\* call that polls or removes does so by an id the daemon once gave.
TypeOK ==
    /\ world \in Worlds
    /\ torrents \subseteq TorrentType
    /\ \A t \in torrents : t.id < nextId
    /\ \A s, t \in torrents : s.id = t.id => s = t
    /\ nextId \in Nat \ {0}
    /\ payloads \subseteq PayloadType
    /\ pc \in [Calls -> Waiting \cup Ended \cup {"idle", "remove", "copy", "release"}]
    /\ want \in [Calls -> Wants \cup {NoWant}]
    /\ tid \in [Calls -> Nat]
    /\ \A c \in Calls : pc[c] \in {"poll", "open", "remove"} => tid[c] \in 1..(nextId - 1)
    /\ owned \in [Calls -> BOOLEAN]
    /\ held \in [Calls -> {NoFile} \cup [hash : Hashes, complete : BOOLEAN]]
    /\ crashes \in 0..MaxCrashes

\* The file a job is handed is complete, within the limit, and of the torrent
\* its locator names, whichever torrent of that name the call was polling.
DeliveredIsWanted ==
    \A c \in Jobs : held[c] # NoFile =>
        held[c] = [hash |-> want[c].hash, complete |-> TRUE] /\ want[c].hash \notin TooLarge

\* A job's call that returned, in whatever way, leaves no torrent of its own in
\* the daemon, when no RPC fails.
NoOrphans ==
    ~world.rpcFaults =>
        \A c \in Jobs : pc[c] \in {"copy", "release", "served", "failed"} =>
            \A t \in torrents : t.dir # c

\* A call never deletes a torrent with other content than it asked for.
NoStrangerRemoved ==
    [][\A t \in torrents : (\A s \in torrents' : s.id # t.id) =>
          \E c \in Calls : pc[c] = "remove" /\ tid[c] = t.id /\ want[c].hash = t.hash]_vars

\* Where its caller sees a call that stands at p.
PhaseAt(p) ==
    CASE p \in Waiting -> "waiting"
      [] p \in {"remove", "copy", "release"} -> "closing"
      [] OTHER -> p

\* The jobs that have a torrent in the daemon.
Traces == {c \in Jobs : \E t \in torrents : t.dir = c}

Fetch == INSTANCE FileFetch WITH
    reliable <- ~world.rpcFaults,
    phase    <- [c \in Calls |-> PhaseAt(pc[c])],
    asked    <- [c \in Calls |-> want[c].hash],
    handed   <- held,
    traces   <- Traces

\* Every step of a call, of the daemon and of a crash is one that FileFetch
\* promises, or invisible to the caller.
ImplementsFetch == Fetch!Spec

\* Every call ends if the daemon ends its downloads.
DownloadEnds == \A c \in Calls : pc[c] = "find" ~> pc[c] \in Ended

-----------------------------------------------------------------------------
(* What a comment says and the code does not do. *)

\* transmission.go: DownloadFile "waits for the requested file to complete".
\* So, where nothing fails, each call is served.
EveryCallIsServed == \A c \in Calls : pc[c] # "failed"
=============================================================================
