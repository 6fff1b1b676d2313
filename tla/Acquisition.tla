---------------------------- MODULE Acquisition ----------------------------
(***************************************************************************)
(* The acquisition manager, internal/acquisition/manager.go, with the HTTP *)
(* handlers of internal/api/server.go in front of it.                      *)
(*                                                                         *)
(* Create registers a job and starts one worker goroutine for it.  The     *)
(* worker (run, runTorrent) moves the job through its statuses, stages the *)
(* payload in <staging>/<id>.part and publishes an open handle on it.      *)
(* Handlers of other requests read and cancel the job under m.mu and       *)
(* stream the one published handle to whoever asks for it.                 *)
(*                                                                         *)
(* A step is one lock section of m.mu, one call that changes the disk, or  *)
(* one read of the shared handle.  Sizes are counted in chunks, a chunk    *)
(* being what one Read of a body returns.  Manager.Get only reads jobs[id] *)
(* and has no action of its own.                                           *)
(***************************************************************************)
EXTENDS Integers, FiniteSets

CONSTANTS
    Ids,         \* job ids; rand.Read never repeats one, not even after a restart
    Readers,     \* GET .../file requests, one request each
    NoId,        \* the id of a reader that has not asked for a file yet
    Requests,    \* the acquisition requests clients send
    Locators,    \* what GetLocator can answer: locator kinds or "none"
    MaxBytes,    \* the download limit, 0 for none; what config.Load gives is positive
    MaxChunks,   \* bound: chunks in a payload
    MaxCrashes,  \* bound: process restarts
    IOFaults     \* whether staging I/O (mkdir, create, write, sync, open) may fail

ProviderKinds == {"missing", "local", "remote"}
LocatorKinds  == {"http", "torrent-file", "torrent-range"}
Signatures    == {"pdf", "zip", "other"}   \* what the first bytes of a payload say
FileIds       == {"pdf", "PDF", "epub", "0-pdf"}

ASSUME SetsAssumption ==
    /\ NoId \notin Ids
    /\ Requests \subseteq [provider : ProviderKinds, fileId : FileIds]
    /\ Locators \subseteq LocatorKinds \cup {"none"}

ASSUME BoundsAssumption ==
    /\ MaxBytes \in Nat /\ MaxChunks \in Nat /\ MaxCrashes \in Nat
    /\ IOFaults \in BOOLEAN

VARIABLES
    jobs,         \* m.jobs: the job of each id
    pc,           \* where the worker of each id stands
    locator,      \* what the worker's GetLocator answered
    fetched,      \* runTorrent's size: what DownloadFile's Stat said of its file
    part,         \* <staging>/<id>.part: chunks written and signature
    stagingDir,   \* whether the staging directory exists
    torrentDirs,  \* ids whose <torrents>/<id>-torrent directory exists
    files,        \* m.files: the handle published for each id
    streams,      \* the file requests
    createReply,  \* the status the 202 answer of Create carried
    cancelReply,  \* the status the latest answer of a cancel carried
    crashes       \* process restarts so far

locals    == <<locator, fetched>>
diskVars  == <<part, stagingDir, torrentDirs>>
replyVars == <<createReply, cancelReply>>
vars == <<jobs, pc, locals, diskVars, files, streams, replyVars, crashes>>

Statuses == {"queued", "resolving", "downloading",
             "completed", "failed", "cancelled"}
Errors   == {"", "provider", "open", "mkdir", "stage", "limit", "write", "read",
             "sync", "signature", "unsafe", "torrent", "staging"}
NoTotal  == -1    \* TotalBytes = nil

NoJob    == [status |-> "unknown", provider |-> "missing", fileId |-> "pdf",
             progress |-> 0, bytes |-> 0, total |-> NoTotal, error |-> ""]
NoPart   == [size |-> 0, sig |-> "absent"]
NoHandle == [state |-> "none", offset |-> 0]
NoStream == [state |-> "idle", id |-> NoId, got |-> {}]

HttpSteps    == {"open", "mkdir", "create", "copy", "seal", "check", "finish"}
TorrentSteps == {"torrent", "download", "tcreate", "tcopy", "tcheck", "tfinish"}
WorkerSteps  == {"start", "resolve", "locate", "publish"}
                    \cup HttpSteps \cup TorrentSteps

Init ==
    /\ jobs = [id \in Ids |-> NoJob]
    /\ pc = [id \in Ids |-> "unborn"]
    /\ locator = [id \in Ids |-> "none"]
    /\ fetched = [id \in Ids |-> 0]
    /\ part = [id \in Ids |-> NoPart]
    /\ stagingDir \in BOOLEAN      \* an earlier process may have made it
    /\ torrentDirs = {}
    /\ files = [id \in Ids |-> NoHandle]
    /\ streams = [r \in Readers |-> NoStream]
    /\ createReply = [id \in Ids |-> "none"]
    /\ cancelReply = [id \in Ids |-> "none"]
    /\ crashes = 0

-----------------------------------------------------------------------------
(* What the closures passed to m.update, and their like, make of a job. *)

QueuedJob(req) ==
    [status |-> "queued", provider |-> req.provider, fileId |-> req.fileId,
     progress |-> 0, bytes |-> 0, total |-> NoTotal, error |-> ""]

Resolving(j) == [j EXCEPT !.status = "resolving", !.progress = 2]

Downloading(j) == [j EXCEPT !.status = "downloading", !.progress = 5]

Sized(j, total) == [j EXCEPT !.total = total]

\* Mutant of ProgressAt: the part still missing.
ProgressAt_Remaining(copied, total) == 5 + (90 * (total - copied)) \div total

ProgressAt(copied, total) == 5 + (90 * copied) \div total

Copied(j, copied) ==
    [j EXCEPT !.bytes = copied,
              !.progress = IF j.total > 0 THEN ProgressAt(copied, j.total) ELSE j.progress]

\* Mutant of Completed: the byte count is left to the copy loop.
Completed_KeepsBytes(j, size) == [j EXCEPT !.status = "completed", !.progress = 100]

Completed(j, size) ==
    [j EXCEPT !.status = "completed", !.progress = 100, !.bytes = size]

\* Mutant of Failed: the error is recorded, the status left as it was.
Failed_KeepsStatus(j, msg) == [j EXCEPT !.error = msg]

Failed(j, msg) == [j EXCEPT !.status = "failed", !.error = msg]

Cancelled(j) == [j EXCEPT !.status = "cancelled"]

-----------------------------------------------------------------------------
(* Requests on a job. *)

Known(id) == jobs[id].status # "unknown"

\* A client learns the id, 96 random bits, from the answer of its Create.
Answered(id) == createReply[id] \notin {"none", "pending"}

\* Create: the job is registered under the lock, then its worker is started.
Create(id) ==
    /\ pc[id] = "unborn"
    /\ \E req \in Requests : jobs' = [jobs EXCEPT ![id] = QueuedJob(req)]
    /\ pc' = [pc EXCEPT ![id] = "start"]
    /\ createReply' = [createReply EXCEPT ![id] = "pending"]
    /\ UNCHANGED <<locals, diskVars, files, streams, cancelReply, crashes>>

\* Create returns *j without the lock: the copy sees whatever status the job
\* has by then, and a string header torn by the worker's concurrent write.
ReturnCreated(id) ==
    /\ createReply[id] = "pending"
    /\ \E s \in {jobs[id].status} \cup (IF pc[id] = "done" THEN {} ELSE {"torn"}) :
          createReply' = [createReply EXCEPT ![id] = s]
    /\ UNCHANGED <<jobs, pc, locals, diskVars, files, streams, cancelReply, crashes>>

\* Mutant of Cancel: it also removes the staged part file.
Cancel_RemovesPart(id) ==
    /\ Known(id) /\ Answered(id)
    /\ cancelReply[id] # "pending"
    /\ jobs' = [jobs EXCEPT ![id] = Cancelled(@)]
    /\ cancelReply' = [cancelReply EXCEPT ![id] = "pending"]
    /\ part' = [part EXCEPT ![id] = NoPart]
    /\ UNCHANGED <<pc, locals, stagingDir, torrentDirs, files, streams, createReply, crashes>>

\* Cancel writes the status and nothing else: the worker is never told.
Cancel(id) ==
    /\ Known(id) /\ Answered(id)
    /\ cancelReply[id] # "pending"
    /\ jobs' = [jobs EXCEPT ![id] = Cancelled(@)]
    /\ cancelReply' = [cancelReply EXCEPT ![id] = "pending"]
    /\ UNCHANGED <<pc, locals, diskVars, files, streams, createReply, crashes>>

\* cancelAcquisition answers with a second, separate read of the job.
AnswerCancel(id) ==
    /\ cancelReply[id] = "pending"
    /\ cancelReply' = [cancelReply EXCEPT ![id] = jobs[id].status]
    /\ UNCHANGED <<jobs, pc, locals, diskVars, files, streams, createReply, crashes>>

-----------------------------------------------------------------------------
(* The worker, common part: run up to the choice of a source. *)

Goto(id, from, to) ==
    /\ pc[id] = from
    /\ pc' = [pc EXCEPT ![id] = to]

\* m.fail followed by the worker's return.
Fail(id, msg) ==
    /\ jobs' = [jobs EXCEPT ![id] = Failed(@, msg)]
    /\ pc' = [pc EXCEPT ![id] = "done"]

BeginResolving(id) ==
    /\ Goto(id, "start", "resolve")
    /\ jobs' = [jobs EXCEPT ![id] = Resolving(@)]
    /\ UNCHANGED <<locals, diskVars, files, streams, replyVars, crashes>>

LookupProvider(id) ==
    /\ pc[id] = "resolve"
    /\ \/ /\ jobs[id].provider = "missing"
          /\ Fail(id, "provider")
       \/ /\ jobs[id].provider # "missing"
          /\ jobs' = [jobs EXCEPT ![id] = Downloading(@)]
          /\ pc' = [pc EXCEPT ![id] = "locate"]
    /\ UNCHANGED <<locals, diskVars, files, streams, replyVars, crashes>>

\* Only a torrent-file locator changes the route; a missing locator, a failed
\* lookup and every other kind fall through to the provider's OpenFile.
Locate(id) ==
    /\ pc[id] = "locate"
    /\ \E l \in Locators :
          /\ locator' = [locator EXCEPT ![id] = l]
          /\ pc' = [pc EXCEPT ![id] = IF l = "torrent-file" THEN "torrent" ELSE "open"]
    /\ UNCHANGED <<jobs, fetched, diskVars, files, streams, replyVars, crashes>>

-----------------------------------------------------------------------------
(* The worker, HTTP route. *)

\* Mutant of Discard: the part file stays behind.
Discard_KeepsPart(id, msg) == Fail(id, msg) /\ UNCHANGED part

\* m.fail after the part file was removed.
Discard(id, msg) ==
    /\ part' = [part EXCEPT ![id] = NoPart]
    /\ Fail(id, msg)

\* LocalCatalogue.OpenFile always refuses; a remote provider may or may not
\* answer, with or without a Content-Length.
OpenRemote(id) ==
    /\ pc[id] = "open"
    /\ \/ Fail(id, "open")
       \/ /\ jobs[id].provider = "remote"
          /\ \E t \in {NoTotal} \cup 0..MaxChunks :
                jobs' = [jobs EXCEPT ![id] = Sized(@, t)]
          /\ pc' = [pc EXCEPT ![id] = "mkdir"]
    /\ UNCHANGED <<locals, diskVars, files, streams, replyVars, crashes>>

MakeStaging(id) ==
    /\ pc[id] = "mkdir"
    /\ \/ /\ stagingDir' = TRUE
          /\ pc' = [pc EXCEPT ![id] = "create"]
          /\ UNCHANGED jobs
       \/ /\ IOFaults
          /\ Fail(id, "mkdir")
          /\ UNCHANGED stagingDir
    /\ UNCHANGED <<locals, part, torrentDirs, files, streams, replyVars, crashes>>

CreatePart(id) ==
    /\ pc[id] = "create"
    /\ \/ /\ \E s \in Signatures :
                part' = [part EXCEPT ![id] = [size |-> 0, sig |-> s]]
          /\ pc' = [pc EXCEPT ![id] = "copy"]
          /\ UNCHANGED jobs
       \/ /\ IOFaults
          /\ Fail(id, "stage")
          /\ UNCHANGED part
    /\ UNCHANGED <<locals, stagingDir, torrentDirs, files, streams, replyVars, crashes>>

\* Mutant of OverLimit: off by one.
OverLimit_OffByOne(n) == MaxBytes > 0 /\ n > MaxBytes + 1

OverLimit(n) == MaxBytes > 0 /\ n > MaxBytes

\* One turn of the copy loop that read a chunk.  net/http never delivers more
\* than a known Content-Length.
ReadChunk(id) ==
    LET copied == part[id].size + 1
    IN /\ pc[id] = "copy"
       /\ copied <= (IF jobs[id].total = NoTotal THEN MaxChunks ELSE jobs[id].total)
       /\ \/ OverLimit(copied) /\ Discard(id, "limit")
          \/ ~OverLimit(copied) /\ IOFaults /\ Discard(id, "write")
          \/ /\ ~OverLimit(copied)
             /\ part' = [part EXCEPT ![id].size = copied]
             /\ jobs' = [jobs EXCEPT ![id] = Copied(@, copied)]
             /\ UNCHANGED pc
       /\ UNCHANGED <<locals, stagingDir, torrentDirs, files, streams, replyVars, crashes>>

\* The turn that ends the loop: EOF (net/http reports a body shorter than its
\* Content-Length as an error) or a read error.
ReadEnd(id) ==
    /\ pc[id] = "copy"
    /\ \/ /\ jobs[id].total \in {NoTotal, part[id].size}
          /\ pc' = [pc EXCEPT ![id] = "seal"]
          /\ UNCHANGED <<jobs, part>>
       \/ Discard(id, "read")
    /\ UNCHANGED <<locals, stagingDir, torrentDirs, files, streams, replyVars, crashes>>

\* out.Sync and out.Close.
SealPart(id) ==
    /\ pc[id] = "seal"
    /\ \/ /\ pc' = [pc EXCEPT ![id] = "check"]
          /\ UNCHANGED <<jobs, part>>
       \/ IOFaults /\ Discard(id, "sync")
    /\ UNCHANGED <<locals, stagingDir, torrentDirs, files, streams, replyVars, crashes>>

\* An empty file has no signature.  The comparison with "pdf" is case-sensitive:
\* for "PDF", and on the torrent route for "0-pdf", a ZIP is demanded.  A part
\* that cannot be opened for the check fails it.
ValidSignature(id) ==
    /\ part[id].size > 0
    /\ part[id].sig = IF jobs[id].fileId = "pdf" THEN "pdf" ELSE "zip"

\* strings.EqualFold with epub or pdf: the provider file ids "0-epub" and
\* "0-pdf" are not among them.
IsBareFormat(fileId) == fileId \in {"epub", "pdf", "PDF"}

\* Mutant of CheckPart: a bad signature sends the worker back to OpenFile.
CheckPart_Retries(id) ==
    /\ pc[id] = "check"
    /\ \/ /\ IsBareFormat(jobs[id].fileId) => ValidSignature(id)
          /\ pc' = [pc EXCEPT ![id] = "finish"]
          /\ UNCHANGED part
       \/ /\ IsBareFormat(jobs[id].fileId) /\ ~ValidSignature(id)
          /\ part' = [part EXCEPT ![id] = NoPart]
          /\ pc' = [pc EXCEPT ![id] = "open"]
    /\ UNCHANGED <<jobs, locals, stagingDir, torrentDirs, files, streams, replyVars, crashes>>

CheckPart(id) ==
    /\ pc[id] = "check"
    /\ \/ /\ IsBareFormat(jobs[id].fileId) => ValidSignature(id)
          /\ pc' = [pc EXCEPT ![id] = "finish"]
          /\ UNCHANGED <<jobs, part>>
       \/ /\ IsBareFormat(jobs[id].fileId) /\ (IOFaults \/ ~ValidSignature(id))
          /\ Discard(id, "signature")
    /\ UNCHANGED <<locals, stagingDir, torrentDirs, files, streams, replyVars, crashes>>

\* The first of the two final lock sections of run.
Finish(id) ==
    /\ Goto(id, "finish", "publish")
    /\ jobs' = [jobs EXCEPT ![id] = Completed(@, part[id].size)]
    /\ UNCHANGED <<locals, diskVars, files, streams, replyVars, crashes>>

\* Mutant of OpenHandle: the handle the part was written through is published.
OpenHandle_Unrewound(id) ==
    files' = [files EXCEPT ![id] = [state |-> "open", offset |-> part[id].size]]

\* An os.Open that fails is skipped silently.
OpenHandle(id) ==
    \/ files' = [files EXCEPT ![id] = [state |-> "open", offset |-> 0]]
    \/ IOFaults /\ UNCHANGED files

\* Mutant of Publish: a job cancelled between the two sections is skipped.
Publish_UnlessCancelled(id) ==
    /\ Goto(id, "publish", "done")
    /\ IF jobs[id].status = "cancelled" THEN UNCHANGED files ELSE OpenHandle(id)
    /\ UNCHANGED <<jobs, locals, diskVars, streams, replyVars, crashes>>

\* The second one: the handle is published in a section of its own.
Publish(id) ==
    /\ Goto(id, "publish", "done")
    /\ OpenHandle(id)
    /\ UNCHANGED <<jobs, locals, diskVars, streams, replyVars, crashes>>

-----------------------------------------------------------------------------
(* The worker, torrent route: runTorrent, then run's m.fail on an error. *)

\* A return from runTorrent: the deferred os.RemoveAll(dir).
ReleaseDir(id) == torrentDirs' = torrentDirs \ {id}

PrepareTorrent(id) ==
    /\ pc[id] = "torrent"
    /\ \/ Fail(id, "unsafe") /\ UNCHANGED torrentDirs
       \/ IOFaults /\ Fail(id, "mkdir") /\ UNCHANGED torrentDirs
       \/ /\ torrentDirs' = torrentDirs \cup {id}
          /\ pc' = [pc EXCEPT ![id] = "download"]
          /\ UNCHANGED jobs
    /\ UNCHANGED <<locals, part, stagingDir, files, streams, replyVars, crashes>>

\* transmission.DownloadFile, with no deadline; module TorrentDownload has its steps.
\* It hands back an open file and the size Stat gave of it, within the limit.
DownloadTorrent(id) ==
    /\ pc[id] = "download"
    /\ \/ Fail(id, "torrent") /\ ReleaseDir(id) /\ UNCHANGED fetched
       \/ /\ \E n \in 0..MaxChunks :
                ~OverLimit(n) /\ fetched' = [fetched EXCEPT ![id] = n]
          /\ pc' = [pc EXCEPT ![id] = "tcreate"]
          /\ UNCHANGED <<jobs, torrentDirs>>
    /\ UNCHANGED <<locator, part, stagingDir, files, streams, replyVars, crashes>>

\* Unlike run, runTorrent does not create the staging directory.
CreateTorrentPart(id) ==
    /\ pc[id] = "tcreate"
    /\ \/ /\ stagingDir
          /\ \E s \in Signatures :
                part' = [part EXCEPT ![id] = [size |-> 0, sig |-> s]]
          /\ pc' = [pc EXCEPT ![id] = "tcopy"]
          /\ UNCHANGED <<jobs, torrentDirs>>
       \/ /\ ~stagingDir \/ IOFaults
          /\ Fail(id, "stage")
          /\ ReleaseDir(id)
          /\ UNCHANGED part
    /\ UNCHANGED <<locals, stagingDir, files, streams, replyVars, crashes>>

\* Mutant of CopyTorrent: the errors of io.Copy, Sync and Close are dropped.
CopyTorrent_DropsErrors(id) ==
    /\ pc[id] = "tcopy"
    /\ \E n \in 0..fetched[id] :
          /\ n = fetched[id] \/ IOFaults
          /\ part' = [part EXCEPT ![id].size = n]
    /\ pc' = [pc EXCEPT ![id] = "tcheck"]
    /\ UNCHANGED <<jobs, locals, stagingDir, torrentDirs, files, streams, replyVars, crashes>>

\* io.Copy, Sync and Close.  Copy reads to the end of the open file, complete
\* since before Stat; whatever it wrote before an error is removed.
CopyTorrent(id) ==
    /\ pc[id] = "tcopy"
    /\ \/ /\ part' = [part EXCEPT ![id].size = fetched[id]]
          /\ pc' = [pc EXCEPT ![id] = "tcheck"]
          /\ UNCHANGED <<jobs, torrentDirs>>
       \/ IOFaults /\ Discard(id, "staging") /\ ReleaseDir(id)
    /\ UNCHANGED <<locals, stagingDir, files, streams, replyVars, crashes>>

\* The torrent route checks the signature of every file id.
CheckTorrentPart(id) ==
    /\ pc[id] = "tcheck"
    /\ \/ /\ ValidSignature(id)
          /\ pc' = [pc EXCEPT ![id] = "tfinish"]
          /\ UNCHANGED <<jobs, part, torrentDirs>>
       \/ /\ IOFaults \/ ~ValidSignature(id)
          /\ Discard(id, "signature")
          /\ ReleaseDir(id)
    /\ UNCHANGED <<locals, stagingDir, files, streams, replyVars, crashes>>

\* One lock section both completes the job, with Stat's size, and publishes its
\* handle on the copy.
FinishTorrent(id) ==
    /\ Goto(id, "tfinish", "done")
    /\ jobs' = [jobs EXCEPT ![id] = Completed(@, fetched[id])]
    /\ OpenHandle(id)
    /\ ReleaseDir(id)
    /\ UNCHANGED <<locals, part, stagingDir, streams, replyVars, crashes>>

-----------------------------------------------------------------------------
(* GET /v1/acquisitions/{id}/file: every request streams the same handle. *)

\* Mutant of BeginStream: the shared handle is rewound for every request.
BeginStream_Rewinds(r, id) ==
    /\ streams[r].state = "idle" /\ Answered(id)
    /\ files[id].state # "none"
    /\ files' = [files EXCEPT ![id].offset = 0]
    /\ streams' = [streams EXCEPT ![r] = [state |-> "reading", id |-> id, got |-> {}]]
    /\ UNCHANGED <<jobs, pc, locals, diskVars, replyVars, crashes>>

\* m.File(id).  Without a published handle the answer is 409 and no state changes.
BeginStream(r, id) ==
    /\ streams[r].state = "idle" /\ Answered(id)
    /\ files[id].state # "none"
    /\ streams' = [streams EXCEPT ![r] = [state |-> "reading", id |-> id, got |-> {}]]
    /\ UNCHANGED <<jobs, pc, locals, diskVars, files, replyVars, crashes>>

\* One read of io.Copy: the offset belongs to the handle, not to the request.
StreamChunk(r) ==
    LET id == streams[r].id
        n  == files[id].offset + 1
    IN /\ streams[r].state = "reading"
       /\ files[id].state = "open"
       /\ n <= part[id].size
       /\ files' = [files EXCEPT ![id].offset = n]
       /\ streams' = [streams EXCEPT ![r].got = @ \cup {n}]
       /\ UNCHANGED <<jobs, pc, locals, diskVars, replyVars, crashes>>

\* Either way of leaving io.Copy runs the deferred Close on the shared handle.
CloseHandle(r, outcome) ==
    /\ files' = [files EXCEPT ![streams[r].id].state = "closed"]
    /\ streams' = [streams EXCEPT ![r].state = outcome]
    /\ UNCHANGED <<jobs, pc, locals, diskVars, replyVars, crashes>>

\* The read reports EOF, or that another request closed the handle: the
\* handler ignores the error and the 200 answer ends normally.
EndStream(r) ==
    /\ streams[r].state = "reading"
    /\ \/ files[streams[r].id].state = "closed"
       \/ files[streams[r].id].offset = part[streams[r].id].size
    /\ CloseHandle(r, "ended")

\* The client went away: the write to it fails.
AbortStream(r) ==
    /\ streams[r].state = "reading"
    /\ CloseHandle(r, "aborted")

-----------------------------------------------------------------------------
(* The process dies or is replaced: jobs, workers, handles and requests are *)
(* gone, the disk stays as it is, and nothing cleans it at the next start.  *)

Crash ==
    /\ crashes < MaxCrashes
    /\ crashes' = crashes + 1
    /\ jobs' = [id \in Ids |-> NoJob]
    /\ pc' = [id \in Ids |-> IF pc[id] = "unborn" THEN "unborn" ELSE "lost"]
    /\ files' = [id \in Ids |-> NoHandle]
    /\ streams' = [r \in Readers |-> IF streams[r].state = "reading"
                                       THEN [streams[r] EXCEPT !.state = "aborted"]
                                       ELSE streams[r]]
    /\ createReply' = [id \in Ids |-> "none"]
    /\ cancelReply' = [id \in Ids |-> "none"]
    /\ UNCHANGED <<locals, diskVars>>

-----------------------------------------------------------------------------
Handler(id) == Create(id) \/ ReturnCreated(id) \/ Cancel(id) \/ AnswerCancel(id)

HttpWorker(id) ==
    \/ OpenRemote(id) \/ MakeStaging(id) \/ CreatePart(id) \/ ReadChunk(id)
    \/ ReadEnd(id) \/ SealPart(id) \/ CheckPart(id) \/ Finish(id) \/ Publish(id)

\* The torrent route without the unbounded wait in DownloadFile.
TorrentWorker(id) ==
    \/ PrepareTorrent(id) \/ CreateTorrentPart(id) \/ CopyTorrent(id)
    \/ CheckTorrentPart(id) \/ FinishTorrent(id)

Worker(id) ==
    \/ BeginResolving(id) \/ LookupProvider(id) \/ Locate(id)
    \/ HttpWorker(id) \/ TorrentWorker(id)

Stream(r) ==
    \/ \E id \in Ids : BeginStream(r, id)
    \/ StreamChunk(r) \/ EndStream(r) \/ AbortStream(r)

Next ==
    \/ \E id \in Ids : Handler(id) \/ Worker(id) \/ DownloadTorrent(id)
    \/ \E r \in Readers : Stream(r)
    \/ Crash

Spec == Init /\ [][Next]_vars

\* A worker goroutine is always scheduled, and every call it makes returns:
\* safehttp, given a limit, bounds each read of a body by an idle timer.
\* DownloadFile is the exception (context.Background, no timer), so it gets no
\* fairness.
FairSpec == Spec /\ \A id \in Ids : WF_vars(Worker(id))
-----------------------------------------------------------------------------
(* Properties. *)

Jobs == [status : Statuses \cup {"unknown"}, provider : ProviderKinds,
         fileId : FileIds, progress : 0..100, bytes : 0..MaxChunks,
         total : {NoTotal} \cup 0..MaxChunks, error : Errors]
Parts == [size : 0..MaxChunks, sig : Signatures \cup {"absent"}]
Handles == [state : {"none", "open", "closed"}, offset : 0..MaxChunks]
FileRequests == [state : {"idle", "reading", "ended", "aborted"},
                 id : Ids \cup {NoId}, got : SUBSET (1..MaxChunks)]

\* Every variable stays in its range; progress never leaves 0..100 and a job
\* never counts more bytes than a payload has.
TypeOK ==
    /\ jobs \in [Ids -> Jobs]
    /\ pc \in [Ids -> WorkerSteps \cup {"unborn", "done", "lost"}]
    /\ locator \in [Ids -> LocatorKinds \cup {"none"}]
    /\ fetched \in [Ids -> 0..MaxChunks]
    /\ part \in [Ids -> Parts]
    /\ stagingDir \in BOOLEAN
    /\ torrentDirs \subseteq Ids
    /\ files \in [Ids -> Handles]
    /\ streams \in [Readers -> FileRequests]
    /\ createReply \in [Ids -> Statuses \cup {"none", "pending", "torn"}]
    /\ cancelReply \in [Ids -> Statuses \cup {"none", "pending"}]
    /\ crashes \in 0..MaxCrashes

\* A file that clients can fetch passed every check of its route: it is on
\* disk and within the download limit; on the torrent route, or asked for as a
\* bare format, it is not empty; and where the request names the format plainly,
\* as "pdf" or "epub", it starts with the signature of that format.  For "PDF"
\* and "0-pdf" the code checks another format's signature, so nothing is said.
SoundPart(id) ==
    /\ part[id].sig # "absent"
    /\ MaxBytes = 0 \/ part[id].size <= MaxBytes
    /\ locator[id] = "torrent-file" \/ IsBareFormat(jobs[id].fileId) => part[id].size > 0
    /\ jobs[id].fileId = "pdf" => part[id].sig = "pdf"
    /\ jobs[id].fileId = "epub" => part[id].sig = "zip"

PublishedIsSound ==
    \A id \in Ids : files[id].state # "none" =>
        SoundPart(id) /\ files[id].offset <= part[id].size

\* Whatever way the worker returned, the torrent directory is gone, and after
\* an error so is the part file: no error path of run or runTorrent leaks one.
CleanAfterWork ==
    \A id \in Ids : pc[id] = "done" =>
        /\ id \notin torrentDirs
        /\ jobs[id].error # "" => part[id] = NoPart

\* A job that ended without an error counts exactly the bytes on disk, and on
\* the HTTP route exactly the Content-Length when there was one.
CompletedMatchesDisk ==
    \A id \in Ids : pc[id] = "done" /\ jobs[id].error = "" =>
        /\ jobs[id].status \in {"completed", "cancelled"}
        /\ jobs[id].bytes = part[id].size
        /\ jobs[id].total \in {NoTotal, part[id].size}

\* Why the three above hold: what is true of a job at each step of its worker.
OnRoute(id) ==
    /\ pc[id] \in TorrentSteps => locator[id] = "torrent-file"
    /\ pc[id] \in HttpSteps \cup {"publish"} => locator[id] # "torrent-file"

NotStaged(id) ==
    pc[id] \in {"unborn", "start", "resolve", "locate", "open", "mkdir", "create",
               "torrent", "download", "tcreate"} => part[id] = NoPart

Staged(id) ==
    pc[id] \in {"copy", "seal", "check", "tcopy", "tcheck"} =>
        part[id].sig # "absent" /\ (MaxBytes = 0 \/ part[id].size <= MaxBytes)

\* Content-Length: unknown before OpenFile and on the torrent route, met by the
\* copy once it has ended.
TotalMet(id) ==
    /\ pc[id] \in {"start", "resolve", "locate", "open"} \cup TorrentSteps =>
          jobs[id].total = NoTotal
    /\ pc[id] \in {"seal", "check", "finish"} => jobs[id].total \in {NoTotal, part[id].size}

\* On the torrent route Stat's size is within the limit, and what was copied.
FetchedMet(id) ==
    /\ pc[id] \in {"tcreate", "tcopy"} => ~OverLimit(fetched[id])
    /\ pc[id] \in {"tcheck", "tfinish"} => part[id].size = fetched[id]

Outcome(id) ==
    /\ SoundPart(id)
    /\ jobs[id].status \in {"completed", "cancelled"}
    /\ jobs[id].bytes = part[id].size
    /\ jobs[id].total \in {NoTotal, part[id].size}

Concluded(id) ==
    /\ pc[id] \in {"finish", "tfinish"} => SoundPart(id)
    /\ pc[id] = "publish" \/ (pc[id] = "done" /\ jobs[id].error = "") => Outcome(id)
    /\ pc[id] = "done" /\ jobs[id].error # "" => part[id] = NoPart
    /\ jobs[id].error # "" => pc[id] = "done"

\* Only a job that ended well has a handle, and a directory only a job that is
\* between MkdirAll and its return, or that a crash interrupted there.
Owns(id) ==
    /\ files[id].state # "none" =>
          pc[id] = "done" /\ jobs[id].error = "" /\ files[id].offset <= part[id].size
    /\ id \in torrentDirs => pc[id] \in (TorrentSteps \ {"torrent"}) \cup {"lost"}

JobInv(id) ==
    /\ OnRoute(id) /\ NotStaged(id) /\ Staged(id) /\ TotalMet(id) /\ FetchedMet(id)
    /\ Concluded(id) /\ Owns(id)

\* A request that streams has a handle to stream from, an answer that is still
\* to be written a job to read.
StreamInv ==
    \A r \in Readers :
        /\ streams[r].state # "idle" => streams[r].id \in Ids
        /\ streams[r].state = "reading" => files[streams[r].id].state # "none"

ReplyInv ==
    \A id \in Ids : createReply[id] = "pending" \/ cancelReply[id] = "pending" => Known(id)

\* The inductive invariant: no step of any handler, worker or reader, and no
\* crash, takes a job out of what its worker's position says of it.
IInv == TypeOK /\ StreamInv /\ ReplyInv /\ \A id \in Ids : JobInv(id)

StreamsOf(id) == {r \in Readers : streams[r].id = id}

\* The requests that share a handle split the file between them: no chunk goes
\* to two of them and, up to the handle's offset, none is lost.
HandleIsConsumedOnce ==
    \A id \in Ids : files[id].state # "none" =>
        /\ \A r, q \in StreamsOf(id) :
              r # q => streams[r].got \cap streams[q].got = {}
        /\ UNION {streams[r].got : r \in StreamsOf(id)} = 1..files[id].offset

\* A file request that ended normally and was the only one ever made for its
\* job delivered the whole file.
LoneReaderGetsAll ==
    \A r \in Readers :
        streams[r].state = "ended" /\ StreamsOf(streams[r].id) = {r} =>
            streams[r].got = 1..part[streams[r].id].size

\* After the worker's return nothing but the cancelled mark touches its job,
\* and the part file that readers may be streaming no longer changes.
OutcomeIsStable ==
    [][\A id \in Ids : pc[id] = "done" /\ pc'[id] = "done" =>
          /\ jobs'[id] \in {jobs[id], Cancelled(jobs[id])}
          /\ part'[id] = part[id]]_vars

\* While the process lives a poller never sees progress or bytes go back.
ProgressNeverFalls ==
    [][\A id \in Ids : Known(id) /\ pc'[id] # "lost" =>
          /\ jobs[id].progress <= jobs'[id].progress
          /\ jobs[id].bytes <= jobs'[id].bytes]_vars

\* Every job the bridge accepted comes to an end, unless it waits for
\* Transmission or the process dies.
WorkEnds ==
    \A id \in Ids : pc[id] = "start" ~> pc[id] \in {"done", "download", "lost"}

\* The two lock sections of run leave no gap for good: a job shown as
\* completed or cancelled by then becomes readable, when os.Open succeeds.
CompletedBecomesReadable ==
    \A id \in Ids : pc[id] = "publish" ~> files[id].state # "none" \/ pc[id] = "lost"

-----------------------------------------------------------------------------
(* What the API's documentation says and the code does not do. *)

\* openapi.yaml's 200 answer of the file endpoint is the staged file.
EveryReaderGetsAll ==
    \A r \in Readers :
        streams[r].state = "ended" => streams[r].got = 1..part[streams[r].id].size
=============================================================================
