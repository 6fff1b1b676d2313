------------------------- MODULE AcquisitionProofs -------------------------
(***************************************************************************)
(* Proofs about the acquisition manager, for any number of jobs and file   *)
(* requests, any limit and any fault setting: its types, the inductive     *)
(* invariant IInv, and the safety properties that follow from it.          *)
(*                                                                         *)
(* A step is that of one job: Untouched says it of the others, and a       *)
(* failing step ends the job in the same state wherever it fails (FailInv).*)
(* Two further invariants rest on it: what the requests of one handle were *)
(* sent (ReaderInv), and the numbers a poller sees (Numbers).  A measure   *)
(* shows that no worker takes more than so many steps.  At the end every   *)
(* step is shown to be one of AcquisitionLifecycle, or none.               *)
(***************************************************************************)
EXTENDS AcquisitionRefinement, TLAPS

(* Arithmetic of the progress the copy loop reports. *)

\* The one fact about products that the divisions need.
LEMMA ProductMonotone ==
    ASSUME NEW a \in Int, NEW b \in Int, NEW t \in Nat, a <= b
    PROVE  a * t <= b * t
BY Z3

\* A copy that has not passed its Content-Length is at 5 to 95 percent.
LEMMA ProgressInRange ==
    ASSUME NEW copied \in Nat, NEW total \in Nat \ {0}, copied <= total
    PROVE  ProgressAt(copied, total) \in 5..95
<1> DEFINE q == (90 * copied) \div total
<1>1. q \in Int /\ q * total <= 90 * copied /\ 90 * copied < (q + 1) * total
    OBVIOUS
<1>2. ASSUME q >= 91 PROVE FALSE
    <2>1. 91 * total <= q * total
        BY <1>1, <1>2, ProductMonotone
    <2> QED BY <1>1, <2>1
<1>3. ASSUME q <= -1 PROVE FALSE
    <2>1. (q + 1) * total <= 0 * total
        BY <1>1, <1>3, ProductMonotone
    <2> QED BY <1>1, <2>1
<1> QED BY <1>1, <1>2, <1>3 DEF ProgressAt

-----------------------------------------------------------------------------
(* What the updates of a job preserve and what they set. *)

\* A copied chunk leaves the progress in its range.
LEMMA CopiedTyped ==
    ASSUME NEW j \in Jobs, NEW n \in 1..MaxChunks, j.total = NoTotal \/ n <= j.total
    PROVE  Copied(j, n) \in Jobs
<1>1. j.total > 0 => ProgressAt(n, j.total) \in 0..100
    <2>1. SUFFICES ASSUME j.total > 0 PROVE ProgressAt(n, j.total) \in 0..100
        OBVIOUS
    <2>2. j.total \in Nat \ {0} /\ n <= j.total /\ n \in Nat
        BY <2>1, BoundsAssumption DEF Jobs, NoTotal
    <2> QED BY <2>2, ProgressInRange
<1> DEFINE p == IF j.total > 0 THEN ProgressAt(n, j.total) ELSE j.progress
<1>2. p \in 0..100
    BY <1>1 DEF Jobs
<1>3. [j EXCEPT !.bytes = n, !.progress = p] \in Jobs
    <2>1. n \in 0..MaxChunks
        BY BoundsAssumption
    <2> HIDE DEF p
    <2> QED BY <1>2, <2>1 DEF Jobs
<1> QED BY <1>3 DEF Copied

\* A copied chunk leaves the other fields alone.
LEMMA CopiedFields ==
    ASSUME NEW j \in Jobs, NEW n
    PROVE  /\ Copied(j, n).status = j.status /\ Copied(j, n).error = j.error
           /\ Copied(j, n).total = j.total /\ Copied(j, n).fileId = j.fileId
BY DEF Jobs, Copied

\* Every other update makes a job of a job.
LEMMA UpdatesTyped ==
    ASSUME NEW j \in Jobs
    PROVE  /\ Resolving(j) \in Jobs /\ Downloading(j) \in Jobs /\ Cancelled(j) \in Jobs
           /\ \A msg \in Errors : Failed(j, msg) \in Jobs
           /\ \A t \in {NoTotal} \cup 0..MaxChunks : Sized(j, t) \in Jobs
           /\ \A n \in 0..MaxChunks : Completed(j, n) \in Jobs
<1>s. \A s \in {"resolving", "downloading", "completed", "failed", "cancelled"} :
         s \in Statuses \cup {"unknown"}
    BY DEF Statuses
<1>p. 2 \in 0..100 /\ 5 \in 0..100 /\ 100 \in 0..100
    OBVIOUS
<1>1. Resolving(j) \in Jobs
    BY <1>s, <1>p DEF Jobs, Resolving
<1>2. Downloading(j) \in Jobs
    BY <1>s, <1>p DEF Jobs, Downloading
<1>3. Cancelled(j) \in Jobs
    BY <1>s DEF Jobs, Cancelled
<1>4. ASSUME NEW msg \in Errors PROVE Failed(j, msg) \in Jobs
    BY <1>s DEF Jobs, Failed
<1>5. ASSUME NEW t \in {NoTotal} \cup 0..MaxChunks PROVE Sized(j, t) \in Jobs
    BY DEF Jobs, Sized
<1>6. ASSUME NEW n \in 0..MaxChunks PROVE Completed(j, n) \in Jobs
    BY <1>s, <1>p DEF Jobs, Completed
<1> QED BY <1>1, <1>2, <1>3, <1>4, <1>5, <1>6

\* An update keeps the fields it does not name, and no status is "unknown".
LEMMA UpdatesFields ==
    ASSUME NEW j \in Jobs
    PROVE  /\ Resolving(j).status = "resolving" /\ Downloading(j).status = "downloading"
           /\ Cancelled(j).status = "cancelled"
           /\ Resolving(j).error = j.error /\ Resolving(j).total = j.total
           /\ Downloading(j).error = j.error /\ Downloading(j).total = j.total
           /\ Cancelled(j).error = j.error /\ Cancelled(j).total = j.total
           /\ Cancelled(j).bytes = j.bytes /\ Cancelled(j).fileId = j.fileId
           /\ \A msg : Failed(j, msg).status = "failed" /\ Failed(j, msg).error = msg
           /\ \A t : /\ Sized(j, t).status = j.status /\ Sized(j, t).error = j.error
                     /\ Sized(j, t).total = t
           /\ \A n : /\ Completed(j, n).status = "completed" /\ Completed(j, n).bytes = n
                     /\ Completed(j, n).error = j.error /\ Completed(j, n).total = j.total
                     /\ Completed(j, n).fileId = j.fileId
BY DEF Jobs, Resolving, Downloading, Cancelled, Failed, Sized, Completed

-----------------------------------------------------------------------------
(* Type correctness. *)

ITypes == TypeOK /\ StreamInv /\ ReplyInv

\* The types of the initial state.
LEMMA TypesInit == Init => ITypes
<1> SUFFICES ASSUME Init PROVE ITypes
    OBVIOUS
<1>1. NoJob \in Jobs
    BY BoundsAssumption
       DEF NoJob, Jobs, Statuses, ProviderKinds, FileIds, Errors, NoTotal
<1>2. NoPart \in Parts /\ NoHandle \in Handles /\ NoStream \in FileRequests
    BY BoundsAssumption DEF NoPart, Parts, NoHandle, Handles, NoStream, FileRequests
<1>3. TypeOK
    BY <1>1, <1>2, BoundsAssumption DEF Init, TypeOK
<1>4. StreamInv /\ ReplyInv
    BY DEF Init, StreamInv, ReplyInv, NoStream
<1> QED BY <1>3, <1>4 DEF ITypes

\* What every step of a handler or a worker does to the jobs.
JobsStayTyped == /\ jobs' \in [Ids -> Jobs]
                 /\ \A o \in Ids : Known(o) => Known(o)'

\* An update of one job keeps the table of jobs typed.
LEMMA OneJobUpdated ==
    ASSUME TypeOK, NEW id \in Ids, NEW j \in Jobs, j.status # "unknown",
           jobs' = [jobs EXCEPT ![id] = j]
    PROVE  JobsStayTyped
BY DEF TypeOK, JobsStayTyped, Known

\* So does m.fail.
LEMMA FailTyped ==
    ASSUME TypeOK, NEW id \in Ids, NEW msg \in Errors, Fail(id, msg)
    PROVE  JobsStayTyped
<1>1. jobs[id] \in Jobs
    BY DEF TypeOK
<1>2. Failed(jobs[id], msg) \in Jobs /\ Failed(jobs[id], msg).status # "unknown"
    BY <1>1, UpdatesTyped, UpdatesFields
<1> QED BY <1>2, OneJobUpdated DEF Fail

\* The types after a step of a handler,
LEMMA TypesHandler ==
    ASSUME ITypes, NEW id \in Ids, Handler(id)
    PROVE  ITypes'
<1> USE DEF ITypes, StreamInv, ReplyInv, locals, diskVars, replyVars
<1>1. CASE Create(id)
    <2>1. \A req \in Requests : QueuedJob(req) \in Jobs /\ QueuedJob(req).status = "queued"
        BY SetsAssumption, BoundsAssumption
           DEF QueuedJob, Jobs, Statuses, Errors, NoTotal, ProviderKinds, FileIds
    <2>2. JobsStayTyped /\ Known(id)'
        BY <1>1, <2>1, OneJobUpdated DEF Create, TypeOK, Known
    <2> QED BY <1>1, <2>2 DEF Create, TypeOK, WorkerSteps, JobsStayTyped
<1>2. CASE ReturnCreated(id)
    <2>1. jobs[id].status \in Statuses
        BY <1>2 DEF ReturnCreated, TypeOK, Known, Jobs
    <2> QED BY <1>2, <2>1 DEF ReturnCreated, TypeOK, Known
<1>3. CASE Cancel(id)
    <2>1. jobs[id] \in Jobs
        BY DEF TypeOK
    <2>2. Cancelled(jobs[id]) \in Jobs /\ Cancelled(jobs[id]).status = "cancelled"
        BY <2>1, UpdatesTyped, UpdatesFields
    <2>3. JobsStayTyped
        BY <1>3, <2>2, OneJobUpdated DEF Cancel
    <2> QED BY <1>3, <2>3 DEF Cancel, TypeOK, JobsStayTyped
<1>4. CASE AnswerCancel(id)
    <2>1. jobs[id].status \in Statuses
        BY <1>4 DEF AnswerCancel, TypeOK, Known, Jobs
    <2> QED BY <1>4, <2>1 DEF AnswerCancel, TypeOK, Known
<1> QED BY <1>1, <1>2, <1>3, <1>4 DEF Handler

\* of the common part of a worker,
LEMMA TypesCommonWorker ==
    ASSUME ITypes, NEW id \in Ids, BeginResolving(id) \/ LookupProvider(id) \/ Locate(id)
    PROVE  ITypes'
<1> USE DEF ITypes, StreamInv, ReplyInv, locals, diskVars, replyVars, Goto, WorkerSteps
<1>a. jobs[id] \in Jobs
    BY DEF TypeOK
<1>b. /\ Resolving(jobs[id]) \in Jobs /\ Resolving(jobs[id]).status # "unknown"
      /\ Downloading(jobs[id]) \in Jobs /\ Downloading(jobs[id]).status # "unknown"
    BY <1>a, UpdatesTyped, UpdatesFields
<1>1. CASE BeginResolving(id)
    <2>1. JobsStayTyped
        BY <1>1, <1>b, OneJobUpdated DEF BeginResolving
    <2> QED BY <1>1, <2>1 DEF BeginResolving, TypeOK, JobsStayTyped
<1>2. CASE LookupProvider(id)
    <2>1. JobsStayTyped
        BY <1>2, <1>b, OneJobUpdated, FailTyped DEF LookupProvider, Errors
    <2> QED BY <1>2, <2>1 DEF LookupProvider, Fail, TypeOK, JobsStayTyped
<1>3. CASE Locate(id)
    BY <1>3, SetsAssumption DEF Locate, TypeOK, HttpSteps, TorrentSteps, Known
<1> QED BY <1>1, <1>2, <1>3

\* of the HTTP route,
LEMMA TypesHttpWorker ==
    ASSUME ITypes, NEW id \in Ids, HttpWorker(id)
    PROVE  ITypes'
<1> USE DEF ITypes, StreamInv, ReplyInv, locals, diskVars, replyVars, Goto, Discard,
            WorkerSteps, HttpSteps
<1>a. jobs[id] \in Jobs /\ part[id] \in Parts
    BY DEF TypeOK
<1>b. NoPart \in Parts
    BY BoundsAssumption DEF NoPart, Parts
<1>c. \A e \in {"open", "mkdir", "stage", "limit", "write", "read", "sync", "signature"} :
         Fail(id, e) => JobsStayTyped
    BY FailTyped DEF Errors
<1>1. CASE OpenRemote(id)
    <2>1. ASSUME NEW t \in {NoTotal} \cup 0..MaxChunks,
                 jobs' = [jobs EXCEPT ![id] = Sized(@, t)]
          PROVE  JobsStayTyped
        <3> DEFINE j == Sized(jobs[id], t)
        <3>1. j \in Jobs /\ j.status = jobs[id].status
            <4>1. j \in Jobs
                BY <1>a, UpdatesTyped
            <4>2. j.status = jobs[id].status
                BY <1>a, UpdatesFields
            <4> QED BY <4>1, <4>2
        <3>2. jobs' = [jobs EXCEPT ![id] = j]
            BY <2>1
        <3> HIDE DEF j
        <3> QED BY <3>1, <3>2 DEF TypeOK, JobsStayTyped, Known
    <2>2. JobsStayTyped
        BY <1>1, <1>c, <2>1 DEF OpenRemote, JobsStayTyped, Known
    <2> QED BY <1>1, <2>2 DEF OpenRemote, Fail, TypeOK, JobsStayTyped
<1>2. CASE MakeStaging(id)
    <2>1. JobsStayTyped
        BY <1>2, <1>c DEF MakeStaging, JobsStayTyped, TypeOK, Known
    <2> QED BY <1>2, <2>1 DEF MakeStaging, Fail, TypeOK, JobsStayTyped
<1>3. CASE CreatePart(id)
    <2>1. JobsStayTyped
        BY <1>3, <1>c DEF CreatePart, JobsStayTyped, TypeOK, Known
    <2>2. part' \in [Ids -> Parts]
        BY <1>3, BoundsAssumption DEF CreatePart, TypeOK, Parts
    <2> QED BY <1>3, <2>1, <2>2 DEF CreatePart, Fail, TypeOK, JobsStayTyped
<1>4. CASE ReadChunk(id)
    <2> DEFINE n == part[id].size + 1
    <2>1. n \in 1..MaxChunks /\ (jobs[id].total = NoTotal \/ n <= jobs[id].total)
        BY <1>4, <1>a, BoundsAssumption DEF ReadChunk, Parts, Jobs, NoTotal
    <2>2. Copied(jobs[id], n) \in Jobs /\ Copied(jobs[id], n).status = jobs[id].status
        BY <2>1, <1>a, CopiedTyped, CopiedFields
    <2>3. JobsStayTyped
        <3> HIDE DEF n
        <3>1. jobs' = [jobs EXCEPT ![id] = Copied(@, n)] => JobsStayTyped
            BY <2>2 DEF JobsStayTyped, TypeOK, Known
        <3> QED BY <1>4, <1>c, <3>1 DEF ReadChunk, n
    <2>4. part' \in [Ids -> Parts]
        <3>1. [part[id] EXCEPT !.size = n] \in Parts
            BY <1>a, <2>1 DEF Parts
        <3>2. part' = [part EXCEPT ![id] = NoPart] \/ part' = [part EXCEPT ![id].size = n]
            BY <1>4 DEF ReadChunk
        <3>3. part \in [Ids -> Parts]
            BY DEF TypeOK
        <3> HIDE DEF n, ITypes
        <3> QED BY <1>b, <3>1, <3>2, <3>3
    <2> QED BY <1>4, <2>3, <2>4 DEF ReadChunk, Fail, TypeOK, JobsStayTyped
<1>5. CASE ReadEnd(id)
    <2>1. JobsStayTyped
        BY <1>5, <1>c DEF ReadEnd, JobsStayTyped, TypeOK, Known
    <2> QED BY <1>5, <1>b, <2>1 DEF ReadEnd, Fail, TypeOK, JobsStayTyped
<1>6. CASE SealPart(id)
    <2>1. JobsStayTyped
        BY <1>6, <1>c DEF SealPart, JobsStayTyped, TypeOK, Known
    <2> QED BY <1>6, <1>b, <2>1 DEF SealPart, Fail, TypeOK, JobsStayTyped
<1>7. CASE CheckPart(id)
    <2>1. JobsStayTyped
        BY <1>7, <1>c DEF CheckPart, JobsStayTyped, TypeOK, Known
    <2> QED BY <1>7, <1>b, <2>1 DEF CheckPart, Fail, TypeOK, JobsStayTyped
<1>8. CASE Finish(id)
    <2>1. part[id].size \in 0..MaxChunks
        BY <1>a DEF Parts
    <2>2. JobsStayTyped
        BY <1>8, <1>a, <2>1, UpdatesTyped, UpdatesFields, OneJobUpdated DEF Finish
    <2> QED BY <1>8, <2>2 DEF Finish, TypeOK, JobsStayTyped
<1>9. CASE Publish(id)
    <2>1. [state |-> "open", offset |-> 0] \in Handles
        BY BoundsAssumption DEF Handles
    <2>2. /\ files' \in [Ids -> Handles]
          /\ \A o \in Ids : files[o].state # "none" => files'[o].state # "none"
        BY <1>9, <2>1 DEF Publish, OpenHandle, TypeOK
    <2> QED BY <1>9, <2>2 DEF Publish, TypeOK, Known
<1> QED BY <1>1, <1>2, <1>3, <1>4, <1>5, <1>6, <1>7, <1>8, <1>9 DEF HttpWorker

\* of the torrent route,
LEMMA TypesTorrentWorker ==
    ASSUME ITypes, NEW id \in Ids, TorrentWorker(id) \/ DownloadTorrent(id)
    PROVE  ITypes'
<1> USE DEF ITypes, StreamInv, ReplyInv, locals, diskVars, replyVars, Goto, Discard, ReleaseDir,
            WorkerSteps, TorrentSteps
<1>a. jobs[id] \in Jobs /\ part[id] \in Parts
    BY DEF TypeOK
<1>b. NoPart \in Parts
    BY BoundsAssumption DEF NoPart, Parts
<1>c. \A e \in {"unsafe", "mkdir", "torrent", "stage", "staging", "signature"} :
         Fail(id, e) => JobsStayTyped
    BY FailTyped DEF Errors
<1>1. CASE PrepareTorrent(id)
    <2>1. JobsStayTyped
        BY <1>1, <1>c DEF PrepareTorrent, JobsStayTyped, TypeOK, Known
    <2> QED BY <1>1, <2>1 DEF PrepareTorrent, Fail, TypeOK, JobsStayTyped
<1>2. CASE DownloadTorrent(id)
    <2>1. JobsStayTyped
        BY <1>2, <1>c DEF DownloadTorrent, JobsStayTyped, TypeOK, Known
    <2>2. fetched' \in [Ids -> 0..MaxChunks]
        BY <1>2 DEF DownloadTorrent, TypeOK
    <2> QED BY <1>2, <2>1, <2>2 DEF DownloadTorrent, Fail, TypeOK, JobsStayTyped
<1>3. CASE CreateTorrentPart(id)
    <2>1. JobsStayTyped
        BY <1>3, <1>c DEF CreateTorrentPart, JobsStayTyped, TypeOK, Known
    <2>2. part' \in [Ids -> Parts]
        BY <1>3, BoundsAssumption DEF CreateTorrentPart, TypeOK, Parts
    <2> QED BY <1>3, <2>1, <2>2 DEF CreateTorrentPart, Fail, TypeOK, JobsStayTyped
<1>4. CASE CopyTorrent(id)
    <2>1. JobsStayTyped
        BY <1>4, <1>c DEF CopyTorrent, JobsStayTyped, TypeOK, Known
    <2>2. part' \in [Ids -> Parts]
        <3>1. \A n \in 0..MaxChunks : [part[id] EXCEPT !.size = n] \in Parts
            BY <1>a DEF Parts
        <3>2. \/ part' = [part EXCEPT ![id] = NoPart]
              \/ \E n \in 0..MaxChunks : part' = [part EXCEPT ![id].size = n]
            BY <1>4 DEF CopyTorrent, TypeOK
        <3>3. part \in [Ids -> Parts]
            BY DEF TypeOK
        <3> HIDE DEF ITypes
        <3> QED BY <1>b, <3>1, <3>2, <3>3
    <2> QED BY <1>4, <2>1, <2>2 DEF CopyTorrent, Fail, TypeOK, JobsStayTyped
<1>5. CASE CheckTorrentPart(id)
    <2>1. JobsStayTyped
        BY <1>5, <1>c DEF CheckTorrentPart, JobsStayTyped, TypeOK, Known
    <2> QED BY <1>5, <1>b, <2>1 DEF CheckTorrentPart, Fail, TypeOK, JobsStayTyped
<1>6. CASE FinishTorrent(id)
    <2>1. fetched[id] \in 0..MaxChunks
        BY DEF TypeOK
    <2>2. JobsStayTyped
        BY <1>6, <1>a, <2>1, UpdatesTyped, UpdatesFields, OneJobUpdated DEF FinishTorrent
    <2>3. /\ files' \in [Ids -> Handles]
          /\ \A o \in Ids : files[o].state # "none" => files'[o].state # "none"
        <3>1. OpenHandle(id)
            BY <1>6 DEF FinishTorrent
        <3>2. [state |-> "open", offset |-> 0] \in Handles
            BY BoundsAssumption DEF Handles
        <3>3. files \in [Ids -> Handles]
            BY DEF TypeOK
        <3> QED BY <3>1, <3>2, <3>3 DEF OpenHandle
    <2> QED BY <1>6, <2>2, <2>3 DEF FinishTorrent, TypeOK, JobsStayTyped
<1> QED BY <1>1, <1>2, <1>3, <1>4, <1>5, <1>6 DEF TorrentWorker

\* of a file request,
LEMMA TypesStream ==
    ASSUME ITypes, NEW r \in Readers, Stream(r)
    PROVE  ITypes'
<1> USE DEF ITypes, StreamInv, ReplyInv, Known, locals, diskVars, replyVars
<1>1. ASSUME NEW id \in Ids, BeginStream(r, id) PROVE ITypes'
    <2>1. streams' \in [Readers -> FileRequests]
        BY <1>1, BoundsAssumption DEF BeginStream, TypeOK, FileRequests
    <2> QED BY <1>1, <2>1 DEF BeginStream, TypeOK
<1>2. CASE StreamChunk(r)
    <2> DEFINE id == streams[r].id
               n  == files[id].offset + 1
    <2>1. id \in Ids
        BY <1>2 DEF StreamChunk
    <2>2. n \in 1..MaxChunks
        BY <1>2, <2>1, BoundsAssumption DEF StreamChunk, TypeOK, Handles, Parts
    <2>3. /\ files' \in [Ids -> Handles]
          /\ \A o \in Ids : files'[o].state = files[o].state
        BY <1>2, <2>1, <2>2, BoundsAssumption DEF StreamChunk, TypeOK, Handles
    <2>4. /\ streams' \in [Readers -> FileRequests]
          /\ \A q \in Readers : /\ streams'[q].state = streams[q].state
                                /\ streams'[q].id = streams[q].id
        <3>1. streams[r] \in FileRequests
            BY DEF TypeOK
        <3>2. streams[r].got \cup {n} \in SUBSET (1..MaxChunks)
            BY <2>2, <3>1 DEF FileRequests
        <3> HIDE DEF n
        <3> QED BY <1>2, <3>1, <3>2 DEF StreamChunk, TypeOK, FileRequests, n
    <2> QED BY <1>2, <2>3, <2>4 DEF StreamChunk, TypeOK
<1>3. ASSUME NEW outcome \in {"ended", "aborted"}, CloseHandle(r, outcome),
             streams[r].state = "reading"
      PROVE  ITypes'
    <2>1. streams[r].id \in Ids
        BY <1>3
    <2>2. /\ files' \in [Ids -> Handles]
          /\ \A o \in Ids : files[o].state # "none" => files'[o].state # "none"
        BY <1>3, <2>1 DEF CloseHandle, TypeOK, Handles
    <2>3. /\ streams' \in [Readers -> FileRequests]
          /\ \A q \in Readers : /\ streams'[q].id = streams[q].id
                                /\ streams'[q].state \in {streams[q].state, outcome}
                                /\ streams'[q].state # "idle" => streams[q].state # "idle"
        <3>1. streams[r] \in FileRequests
            BY DEF TypeOK
        <3> QED BY <1>3, <3>1 DEF CloseHandle, TypeOK, FileRequests
    <2> QED BY <1>3, <2>2, <2>3 DEF CloseHandle, TypeOK
<1>4. CASE EndStream(r)
    BY <1>4, <1>3 DEF EndStream
<1>5. CASE AbortStream(r)
    BY <1>5, <1>3 DEF AbortStream
<1> QED BY <1>1, <1>2, <1>4, <1>5 DEF Stream

\* and of a restart.
LEMMA TypesCrash == ASSUME ITypes, Crash PROVE ITypes'
<1>1. NoJob \in Jobs /\ NoHandle \in Handles
    BY BoundsAssumption
       DEF NoJob, Jobs, Statuses, ProviderKinds, FileIds, Errors, NoTotal, NoHandle, Handles
<1>2. /\ streams' \in [Readers -> FileRequests]
      /\ \A r \in Readers : /\ streams'[r].state # "reading"
                            /\ streams'[r].state # "idle" => streams'[r].id \in Ids
    BY DEF Crash, ITypes, TypeOK, StreamInv, FileRequests
<1>3. TypeOK'
    BY <1>1, <1>2, BoundsAssumption DEF Crash, ITypes, TypeOK, locals, diskVars
<1>4. StreamInv' /\ ReplyInv'
    BY <1>2 DEF Crash, StreamInv, ReplyInv
<1> QED BY <1>3, <1>4 DEF ITypes

\* No step leaves the types.
LEMMA TypesStep == ITypes /\ [Next]_vars => ITypes'
<1> SUFFICES ASSUME ITypes, [Next]_vars PROVE ITypes'
    OBVIOUS
<1>1. ASSUME NEW id \in Ids, Handler(id) PROVE ITypes'
    BY <1>1, TypesHandler
<1>2. ASSUME NEW id \in Ids, Worker(id) \/ DownloadTorrent(id) PROVE ITypes'
    BY <1>2, TypesCommonWorker, TypesHttpWorker, TypesTorrentWorker DEF Worker
<1>3. ASSUME NEW r \in Readers, Stream(r) PROVE ITypes'
    BY <1>3, TypesStream
<1>4. CASE Crash
    BY <1>4, TypesCrash
<1>5. CASE UNCHANGED vars
    BY <1>5 DEF ITypes, TypeOK, StreamInv, ReplyInv, Known, vars, locals, diskVars, replyVars
<1> QED BY <1>1, <1>2, <1>3, <1>4, <1>5 DEF Next

\* Every variable of the manager stays in its range: StreamInv and ReplyInv say
\* why a streaming request always has a handle and an unsent answer a job.
THEOREM TypeCorrect == Spec => []TypeOK
<1>1. Init => ITypes
    BY TypesInit
<1>2. ITypes /\ [Next]_vars => ITypes'
    BY TypesStep
<1>3. ITypes => TypeOK
    BY DEF ITypes
<1> QED BY <1>1, <1>2, <1>3, PTL DEF Spec

-----------------------------------------------------------------------------
(* What the job of an acquisition is like at each step of its worker. *)

AllJobs == \A id \in Ids : JobInv(id)

\* What JobInv(o) reads keeps its value.
Untouched(o) ==
    /\ jobs'[o] = jobs[o] /\ pc'[o] = pc[o] /\ part'[o] = part[o]
    /\ locator'[o] = locator[o] /\ fetched'[o] = fetched[o] /\ files'[o] = files[o]
    /\ o \in torrentDirs' => o \in torrentDirs

\* A job that a step leaves alone keeps its invariant.
LEMMA UntouchedKeeps ==
    ASSUME NEW o \in Ids, JobInv(o), Untouched(o)
    PROVE  JobInv(o)'
<1> USE DEF Untouched
<1>1. SoundPart(o)' <=> SoundPart(o)
    BY DEF SoundPart
<1>2. OnRoute(o)' /\ NotStaged(o)' /\ Staged(o)'
    BY DEF JobInv, OnRoute, NotStaged, Staged
<1>3. TotalMet(o)' /\ FetchedMet(o)'
    BY DEF JobInv, TotalMet, FetchedMet
<1>4. Outcome(o)' <=> Outcome(o)
    BY <1>1 DEF Outcome
<1>5. Concluded(o)'
    BY <1>1, <1>4 DEF JobInv, Concluded
<1>6. Owns(o)'
    BY DEF JobInv, Owns
<1> QED BY <1>2, <1>3, <1>5, <1>6 DEF JobInv

\* A step need only be checked for the job it is a step of.
LEMMA OneJobStep ==
    ASSUME AllJobs, NEW id \in Ids, \A o \in Ids \ {id} : Untouched(o), JobInv(id)'
    PROVE  AllJobs'
<1>1. \A o \in Ids \ {id} : JobInv(o)'
    BY UntouchedKeeps DEF AllJobs
<1> QED BY <1>1 DEF AllJobs

\* A worker that fails leaves neither a part file nor a torrent directory.
LEMMA FailInv ==
    ASSUME TypeOK, NEW id \in Ids, NEW msg \in Errors \ {""}, Fail(id, msg),
           files'[id].state = "none", part'[id] = NoPart, id \notin torrentDirs'
    PROVE  JobInv(id)'
<1>1. jobs[id] \in Jobs /\ pc'[id] = "done" /\ jobs'[id] = Failed(jobs[id], msg)
    BY DEF Fail, TypeOK
<1>2. jobs'[id].error = msg
    BY <1>1 DEF Failed, Jobs
<1>3. OnRoute(id)' /\ NotStaged(id)' /\ Staged(id)' /\ TotalMet(id)' /\ FetchedMet(id)'
    BY <1>1 DEF OnRoute, NotStaged, Staged, TotalMet, FetchedMet, HttpSteps, TorrentSteps
<1>4. Concluded(id)' /\ Owns(id)'
    BY <1>1, <1>2 DEF Concluded, Owns
<1> QED BY <1>3, <1>4 DEF JobInv

-----------------------------------------------------------------------------
\* No job was made yet.
LEMMA JobsInit == Init => AllJobs
<1> SUFFICES ASSUME Init, NEW id \in Ids PROVE JobInv(id)
    BY DEF AllJobs
<1>1. /\ pc[id] = "unborn" /\ part[id] = NoPart /\ files[id].state = "none"
      /\ jobs[id].error = "" /\ id \notin torrentDirs
    BY DEF Init, NoHandle, NoJob
<1>2. OnRoute(id) /\ NotStaged(id) /\ Staged(id) /\ TotalMet(id) /\ FetchedMet(id)
    BY <1>1 DEF OnRoute, NotStaged, Staged, TotalMet, FetchedMet, HttpSteps, TorrentSteps
<1>3. Concluded(id) /\ Owns(id)
    BY <1>1 DEF Concluded, Owns
<1> QED BY <1>2, <1>3 DEF JobInv

\* Create makes a fresh job, Cancel changes a status and nothing the invariant reads.
LEMMA JobsHandler ==
    ASSUME ITypes, AllJobs, NEW id \in Ids, Handler(id)
    PROVE  AllJobs'
<1> USE DEF locals, diskVars, replyVars
<1>a. JobInv(id) /\ jobs[id] \in Jobs /\ TypeOK
    BY DEF AllJobs, ITypes, TypeOK
<1>1. CASE Create(id)
    <2>1. \A o \in Ids \ {id} : Untouched(o)
        BY <1>1, <1>a DEF Create, Untouched, TypeOK
    <2>2. /\ pc'[id] = "start" /\ jobs'[id].error = "" /\ jobs'[id].total = NoTotal
          /\ part'[id] = NoPart /\ files'[id].state = "none" /\ id \notin torrentDirs'
        <3>1. pc'[id] = "start" /\ jobs'[id].error = "" /\ jobs'[id].total = NoTotal
            <4>1. PICK req \in Requests : jobs' = [jobs EXCEPT ![id] = QueuedJob(req)]
                BY <1>1 DEF Create
            <4>2. jobs'[id] = QueuedJob(req)
                BY <4>1, <1>a DEF TypeOK
            <4>3. pc'[id] = "start"
                BY <1>1, <1>a DEF Create, TypeOK
            <4>4. QueuedJob(req).error = "" /\ QueuedJob(req).total = NoTotal
                BY DEF QueuedJob
            <4> QED BY <4>2, <4>3, <4>4
        <3>2. part'[id] = NoPart /\ files'[id].state = "none" /\ id \notin torrentDirs'
            BY <1>1, <1>a DEF Create, JobInv, NotStaged, Owns, TorrentSteps
        <3> QED BY <3>1, <3>2
    <2>3. OnRoute(id)' /\ NotStaged(id)' /\ Staged(id)' /\ TotalMet(id)' /\ FetchedMet(id)'
        BY <2>2 DEF OnRoute, NotStaged, Staged, TotalMet, FetchedMet, HttpSteps, TorrentSteps
    <2>4. Concluded(id)' /\ Owns(id)'
        BY <2>2 DEF Concluded, Owns
    <2> QED BY <2>1, <2>3, <2>4, OneJobStep DEF JobInv
<1>2. CASE ReturnCreated(id)
    BY <1>2, UntouchedKeeps DEF ReturnCreated, Untouched, AllJobs
<1>3. CASE Cancel(id)
    <2>1. \A o \in Ids \ {id} : Untouched(o)
        BY <1>3, <1>a DEF Cancel, Untouched, TypeOK
    <2>2. /\ jobs'[id] = Cancelled(jobs[id]) /\ pc'[id] = pc[id] /\ part'[id] = part[id]
          /\ locator'[id] = locator[id] /\ fetched'[id] = fetched[id]
          /\ files'[id] = files[id] /\ torrentDirs' = torrentDirs
        BY <1>3, <1>a DEF Cancel, TypeOK
    <2>3. /\ jobs'[id].status = "cancelled" /\ jobs'[id].error = jobs[id].error
          /\ jobs'[id].total = jobs[id].total /\ jobs'[id].bytes = jobs[id].bytes
          /\ jobs'[id].fileId = jobs[id].fileId
        BY <2>2, <1>a, UpdatesFields
    <2>4. OnRoute(id)' /\ NotStaged(id)' /\ Staged(id)'
        BY <1>a, <2>2 DEF JobInv, OnRoute, NotStaged, Staged
    <2>5. TotalMet(id)' /\ FetchedMet(id)'
        BY <1>a, <2>2, <2>3 DEF JobInv, TotalMet, FetchedMet
    <2>6. SoundPart(id) => SoundPart(id)'
        BY <2>2, <2>3 DEF SoundPart
    <2>7. Outcome(id) => Outcome(id)'
        BY <2>2, <2>3, <2>6 DEF Outcome
    <2>8. Concluded(id)' /\ Owns(id)'
        BY <1>a, <2>2, <2>3, <2>6, <2>7 DEF JobInv, Concluded, Owns
    <2> QED BY <2>1, <2>4, <2>5, <2>8, OneJobStep DEF JobInv
<1>4. CASE AnswerCancel(id)
    BY <1>4, UntouchedKeeps DEF AnswerCancel, Untouched, AllJobs
<1> QED BY <1>1, <1>2, <1>3, <1>4 DEF Handler

\* The steps of run before the route is chosen.
LEMMA JobsCommonWorker ==
    ASSUME ITypes, AllJobs, NEW id \in Ids,
           BeginResolving(id) \/ LookupProvider(id) \/ Locate(id)
    PROVE  AllJobs'
<1> USE DEF locals, diskVars, replyVars, Goto
<1>a. JobInv(id) /\ jobs[id] \in Jobs /\ TypeOK
    BY DEF AllJobs, ITypes, TypeOK
<1>b. \A o \in Ids \ {id} : Untouched(o)
    BY <1>a DEF BeginResolving, LookupProvider, Locate, Fail, Untouched, TypeOK
<1>c. /\ part'[id] = NoPart /\ files'[id].state = "none" /\ id \notin torrentDirs'
      /\ jobs[id].error = "" /\ jobs[id].total = NoTotal
    <2>1. pc[id] \in {"start", "resolve", "locate"}
        BY DEF BeginResolving, LookupProvider, Locate
    <2>2. part[id] = NoPart /\ files[id].state = "none" /\ id \notin torrentDirs
        BY <1>a, <2>1 DEF JobInv, NotStaged, Owns, TorrentSteps
    <2>3. jobs[id].error = "" /\ jobs[id].total = NoTotal
        BY <1>a, <2>1 DEF JobInv, Concluded, TotalMet, FetchedMet
    <2> QED BY <2>2, <2>3 DEF BeginResolving, LookupProvider, Locate
<1>d. ASSUME pc'[id] \in {"resolve", "locate", "open", "torrent"},
             pc'[id] = "torrent" => locator'[id] = "torrent-file",
             pc'[id] = "open" => locator'[id] # "torrent-file",
             jobs'[id].error = "", jobs'[id].total = NoTotal
      PROVE  JobInv(id)'
    <2>1. OnRoute(id)' /\ NotStaged(id)' /\ Staged(id)'
        BY <1>c, <1>d DEF OnRoute, NotStaged, Staged, HttpSteps, TorrentSteps
    <2>2. TotalMet(id)' /\ FetchedMet(id)' /\ Concluded(id)' /\ Owns(id)'
        BY <1>c, <1>d DEF TotalMet, FetchedMet, Concluded, Owns
    <2> QED BY <2>1, <2>2 DEF JobInv
<1>1. CASE BeginResolving(id)
    <2>1. jobs'[id] = Resolving(jobs[id]) /\ pc'[id] = "resolve"
        BY <1>1, <1>a DEF BeginResolving, TypeOK
    <2>2. jobs'[id].error = "" /\ jobs'[id].total = NoTotal
        BY <2>1, <1>a, <1>c DEF Resolving, Jobs
    <2>3. JobInv(id)'
        BY <2>1, <2>2, <1>d
    <2> QED BY <2>3, <1>b, OneJobStep
<1>2. CASE LookupProvider(id)
    <2>1. ASSUME Fail(id, "provider") PROVE JobInv(id)'
        BY <2>1, <1>a, <1>c, FailInv DEF Errors
    <2>2. ASSUME jobs' = [jobs EXCEPT ![id] = Downloading(@)],
                 pc' = [pc EXCEPT ![id] = "locate"]
          PROVE  JobInv(id)'
        <3>1. jobs'[id] = Downloading(jobs[id]) /\ pc'[id] = "locate"
            BY <2>2, <1>a DEF TypeOK
        <3>2. jobs'[id].error = "" /\ jobs'[id].total = NoTotal
            BY <3>1, <1>a, <1>c DEF Downloading, Jobs
        <3> QED BY <3>1, <3>2, <1>d
    <2>3. JobInv(id)'
        BY <1>2, <2>1, <2>2 DEF LookupProvider
    <2> QED BY <2>3, <1>b, OneJobStep
<1>3. CASE Locate(id)
    <2>1. /\ jobs'[id] = jobs[id] /\ pc'[id] \in {"open", "torrent"}
          /\ pc'[id] = "torrent" <=> locator'[id] = "torrent-file"
        BY <1>3, <1>a DEF Locate, TypeOK
    <2>2. JobInv(id)'
        BY <2>1, <1>c, <1>d
    <2> QED BY <2>2, <1>b, OneJobStep
<1> QED BY <1>1, <1>2, <1>3

\* The steps of the HTTP route, up to the published handle.
LEMMA JobsHttpWorker ==
    ASSUME ITypes, AllJobs, NEW id \in Ids, HttpWorker(id)
    PROVE  AllJobs'
<1> USE DEF locals, diskVars, replyVars, Goto, Discard
<1>a. JobInv(id) /\ jobs[id] \in Jobs /\ part[id] \in Parts /\ TypeOK
    BY DEF AllJobs, ITypes, TypeOK
<1>b. \A o \in Ids \ {id} : Untouched(o)
    <2> USE <1>a DEF Untouched, Fail
    <2>1. OpenRemote(id) \/ MakeStaging(id) \/ CreatePart(id) => \A o \in Ids \ {id} : Untouched(o)
        BY DEF OpenRemote, MakeStaging, CreatePart, TypeOK
    <2>2. ReadChunk(id) \/ ReadEnd(id) \/ SealPart(id) => \A o \in Ids \ {id} : Untouched(o)
        BY DEF ReadChunk, ReadEnd, SealPart, TypeOK
    <2>3. CheckPart(id) \/ Finish(id) \/ Publish(id) => \A o \in Ids \ {id} : Untouched(o)
        BY DEF CheckPart, Finish, Publish, OpenHandle, TypeOK
    <2> QED BY <2>1, <2>2, <2>3 DEF HttpWorker
<1>c. /\ pc[id] \in HttpSteps \cup {"publish"}
      /\ locator'[id] = locator[id] /\ locator[id] # "torrent-file"
      /\ files[id].state = "none" /\ id \notin torrentDirs' /\ jobs[id].error = ""
    <2>1. pc[id] \in HttpSteps \cup {"publish"} /\ locator' = locator /\ torrentDirs' = torrentDirs
        BY DEF HttpWorker, OpenRemote, MakeStaging, CreatePart, ReadChunk, ReadEnd, SealPart,
               CheckPart, Finish, Publish, HttpSteps
    <2>2. pc[id] # "done" /\ pc[id] # "lost" /\ pc[id] \notin TorrentSteps
        BY <2>1 DEF HttpSteps, TorrentSteps
    <2>3. locator[id] # "torrent-file" /\ files[id].state = "none" /\ id \notin torrentDirs
        BY <1>a, <2>1, <2>2 DEF JobInv, OnRoute, Owns
    <2>4. jobs[id].error = ""
        BY <1>a, <2>2 DEF JobInv, Concluded
    <2> QED BY <2>1, <2>3, <2>4
<1>d. pc[id] \in {"open", "mkdir", "create"} => part[id] = NoPart
    BY <1>a DEF JobInv, NotStaged
\* A step to another point of the route, or on in the copy loop.
<1>e. ASSUME pc'[id] \in {"mkdir", "create", "copy", "seal", "check", "finish"},
             files'[id] = files[id], jobs'[id].error = "",
             pc'[id] \in {"mkdir", "create"} => part'[id] = NoPart,
             pc'[id] \in {"copy", "seal", "check"} =>
                 part'[id].sig # "absent" /\ (MaxBytes = 0 \/ part'[id].size <= MaxBytes),
             pc'[id] \in {"seal", "check", "finish"} =>
                 jobs'[id].total \in {NoTotal, part'[id].size},
             pc'[id] = "finish" => SoundPart(id)'
      PROVE  JobInv(id)'
    <2>1. OnRoute(id)' /\ NotStaged(id)' /\ Staged(id)'
        BY <1>c, <1>e DEF OnRoute, NotStaged, Staged, TorrentSteps
    <2>2. TotalMet(id)' /\ FetchedMet(id)'
        BY <1>e DEF TotalMet, FetchedMet, TorrentSteps
    <2>3. Concluded(id)' /\ Owns(id)'
        BY <1>c, <1>e DEF Concluded, Owns
    <2> QED BY <2>1, <2>2, <2>3 DEF JobInv
<1>f. ASSUME NEW msg \in Errors \ {""}, Fail(id, msg), files'[id] = files[id],
             part'[id] = NoPart
      PROVE  JobInv(id)'
    BY <1>f, <1>a, <1>c, FailInv
<1>g. {"open", "mkdir", "stage", "limit", "write", "read", "sync", "signature"}
          \subseteq Errors \ {""}
    BY DEF Errors
<1>1. CASE OpenRemote(id)
    <2>1. pc[id] = "open" /\ part'[id] = NoPart /\ files'[id] = files[id]
        BY <1>1, <1>d DEF OpenRemote
    <2>2. ASSUME NEW t, jobs' = [jobs EXCEPT ![id] = Sized(@, t)],
                 pc' = [pc EXCEPT ![id] = "mkdir"]
          PROVE  JobInv(id)'
        <3>1. jobs'[id] = Sized(jobs[id], t) /\ pc'[id] = "mkdir"
            BY <2>2, <1>a DEF TypeOK
        <3>2. jobs'[id].error = ""
            BY <3>1, <1>a, <1>c DEF Sized, Jobs
        <3> QED BY <3>1, <3>2, <2>1, <1>e
    <2> QED BY <1>1, <2>1, <2>2, <1>b, <1>f, <1>g, OneJobStep DEF OpenRemote
<1>2. CASE MakeStaging(id)
    <2>1. pc[id] = "mkdir" /\ part'[id] = NoPart /\ files'[id] = files[id]
        BY <1>2, <1>d DEF MakeStaging
    <2>2. CASE pc' = [pc EXCEPT ![id] = "create"] /\ jobs' = jobs
        <3>1. pc'[id] = "create" /\ jobs'[id] = jobs[id]
            BY <2>2, <1>a DEF TypeOK
        <3> QED BY <3>1, <2>1, <1>b, <1>c, <1>e, OneJobStep
    <2> QED BY <1>2, <2>1, <2>2, <1>b, <1>f, <1>g, OneJobStep DEF MakeStaging
<1>3. CASE CreatePart(id)
    <2>1. pc[id] = "create" /\ files'[id] = files[id]
        BY <1>3 DEF CreatePart
    <2>2. ASSUME NEW s \in Signatures, part' = [part EXCEPT ![id] = [size |-> 0, sig |-> s]],
                 pc' = [pc EXCEPT ![id] = "copy"], jobs' = jobs
          PROVE  JobInv(id)'
        <3>1. pc'[id] = "copy" /\ jobs'[id] = jobs[id] /\ part'[id] = [size |-> 0, sig |-> s]
            BY <2>2, <1>a DEF TypeOK
        <3>2. part'[id].sig # "absent" /\ (MaxBytes = 0 \/ part'[id].size <= MaxBytes)
            BY <3>1, BoundsAssumption DEF Signatures
        <3> QED BY <3>1, <3>2, <2>1, <1>c, <1>e
    <2>3. ASSUME Fail(id, "stage"), part' = part PROVE JobInv(id)'
        BY <2>1, <2>3, <1>d, <1>f, <1>g
    <2>4. JobInv(id)'
        BY <1>3, <2>2, <2>3 DEF CreatePart
    <2> QED BY <2>4, <1>b, OneJobStep
<1>4. CASE ReadChunk(id)
    <2> DEFINE n == part[id].size + 1
    <2>1. pc[id] = "copy" /\ files'[id] = files[id] /\ part[id].sig # "absent"
        BY <1>4, <1>a DEF ReadChunk, JobInv, Staged
    <2>2. ASSUME NEW msg \in {"limit", "write"}, Discard(id, msg) PROVE JobInv(id)'
        <3>1. part'[id] = NoPart /\ Fail(id, msg)
            BY <2>2, <1>a DEF TypeOK
        <3> QED BY <3>1, <2>1, <1>f, <1>g
    <2>3. ASSUME ~OverLimit(n), part' = [part EXCEPT ![id].size = n],
                 jobs' = [jobs EXCEPT ![id] = Copied(@, n)], pc' = pc
          PROVE  JobInv(id)'
        <3>1. pc'[id] = "copy" /\ jobs'[id] = Copied(jobs[id], n)
            BY <2>1, <2>3, <1>a DEF TypeOK
        <3>2. jobs'[id].error = ""
            BY <3>1, <1>a, <1>c DEF Copied, Jobs
        <3>3. part'[id] = [part[id] EXCEPT !.size = n]
            BY <2>3, <1>a DEF TypeOK
        <3>4. part'[id].sig = part[id].sig /\ part'[id].size = n
            BY <3>3, <1>a DEF Parts
        <3>5. MaxBytes = 0 \/ n <= MaxBytes
            BY <2>3, <1>a, BoundsAssumption DEF OverLimit, Parts
        <3> HIDE DEF n
        <3> QED BY <3>1, <3>2, <3>4, <3>5, <2>1, <1>e
    <2>4. JobInv(id)'
        BY <1>4, <2>2, <2>3 DEF ReadChunk
    <2> QED BY <2>4, <1>b, OneJobStep
<1>5. CASE ReadEnd(id)
    <2>1. /\ pc[id] = "copy" /\ files'[id] = files[id] /\ part[id].sig # "absent"
          /\ MaxBytes = 0 \/ part[id].size <= MaxBytes
        BY <1>5, <1>a DEF ReadEnd, JobInv, Staged
    <2>2. ASSUME jobs[id].total \in {NoTotal, part[id].size},
                 pc' = [pc EXCEPT ![id] = "seal"], jobs' = jobs, part' = part
          PROVE  JobInv(id)'
        <3>1. pc'[id] = "seal"
            BY <2>2, <1>a DEF TypeOK
        <3> QED BY <3>1, <2>1, <2>2, <1>c, <1>e
    <2>3. ASSUME Discard(id, "read") PROVE JobInv(id)'
        <3>1. part'[id] = NoPart /\ Fail(id, "read")
            BY <2>3, <1>a DEF TypeOK
        <3> QED BY <3>1, <2>1, <1>f, <1>g
    <2>4. JobInv(id)'
        BY <1>5, <2>2, <2>3 DEF ReadEnd
    <2> QED BY <2>4, <1>b, OneJobStep
<1>6. CASE SealPart(id)
    <2>1. /\ pc[id] = "seal" /\ files'[id] = files[id] /\ part[id].sig # "absent"
          /\ MaxBytes = 0 \/ part[id].size <= MaxBytes
          /\ jobs[id].total \in {NoTotal, part[id].size}
        BY <1>6, <1>a DEF SealPart, JobInv, Staged, TotalMet, FetchedMet
    <2>2. ASSUME pc' = [pc EXCEPT ![id] = "check"], jobs' = jobs, part' = part
          PROVE  JobInv(id)'
        <3>1. pc'[id] = "check"
            BY <2>2, <1>a DEF TypeOK
        <3> QED BY <3>1, <2>1, <2>2, <1>c, <1>e
    <2>3. ASSUME Discard(id, "sync") PROVE JobInv(id)'
        <3>1. part'[id] = NoPart /\ Fail(id, "sync")
            BY <2>3, <1>a DEF TypeOK
        <3> QED BY <3>1, <2>1, <1>f, <1>g
    <2>4. JobInv(id)'
        BY <1>6, <2>2, <2>3 DEF SealPart
    <2> QED BY <2>4, <1>b, OneJobStep
<1>7. CASE CheckPart(id)
    <2>1. /\ pc[id] = "check" /\ files'[id] = files[id] /\ part[id].sig # "absent"
          /\ MaxBytes = 0 \/ part[id].size <= MaxBytes
          /\ jobs[id].total \in {NoTotal, part[id].size}
        BY <1>7, <1>a DEF CheckPart, JobInv, Staged, TotalMet, FetchedMet
    <2>2. ASSUME IsBareFormat(jobs[id].fileId) => ValidSignature(id),
                 pc' = [pc EXCEPT ![id] = "finish"], jobs' = jobs, part' = part
          PROVE  JobInv(id)'
        <3>1. pc'[id] = "finish"
            BY <2>2, <1>a DEF TypeOK
        <3>2. SoundPart(id)'
            BY <2>1, <2>2, <1>c DEF SoundPart, ValidSignature, IsBareFormat
        <3> QED BY <3>1, <3>2, <2>1, <2>2, <1>c, <1>e
    <2>3. ASSUME Discard(id, "signature") PROVE JobInv(id)'
        <3>1. part'[id] = NoPart /\ Fail(id, "signature")
            BY <2>3, <1>a DEF TypeOK
        <3> QED BY <3>1, <2>1, <1>f, <1>g
    <2>4. JobInv(id)'
        BY <1>7, <2>2, <2>3 DEF CheckPart
    <2> QED BY <2>4, <1>b, OneJobStep
<1>8. CASE Finish(id)
    <2>1. /\ pc'[id] = "publish" /\ jobs'[id] = Completed(jobs[id], part[id].size)
          /\ part' = part /\ files' = files
        BY <1>8, <1>a DEF Finish, TypeOK
    <2>2. SoundPart(id) /\ jobs[id].total \in {NoTotal, part[id].size}
        BY <1>8, <1>a DEF Finish, JobInv, Concluded, TotalMet, FetchedMet
    <2>3. /\ jobs'[id].status = "completed" /\ jobs'[id].bytes = part[id].size
          /\ jobs'[id].error = "" /\ jobs'[id].total = jobs[id].total
          /\ jobs'[id].fileId = jobs[id].fileId
        BY <2>1, <1>a, <1>c DEF Completed, Jobs
    <2>4. Outcome(id)'
        BY <1>c, <2>1, <2>2, <2>3 DEF Outcome, SoundPart
    <2>5. OnRoute(id)' /\ NotStaged(id)' /\ Staged(id)' /\ TotalMet(id)' /\ FetchedMet(id)'
        BY <2>1, <1>c DEF OnRoute, NotStaged, Staged, TotalMet, FetchedMet, HttpSteps, TorrentSteps
    <2>6. Concluded(id)' /\ Owns(id)'
        BY <2>1, <2>3, <2>4, <1>c DEF Concluded, Owns
    <2> QED BY <2>5, <2>6, <1>b, OneJobStep DEF JobInv
<1>9. CASE Publish(id)
    <2>1. /\ pc'[id] = "done" /\ jobs' = jobs /\ part' = part /\ torrentDirs' = torrentDirs
          /\ OpenHandle(id)
        BY <1>9, <1>a DEF Publish, TypeOK
    <2>2. Outcome(id)
        BY <1>9, <1>a DEF Publish, JobInv, Concluded
    <2>3. Outcome(id)'
        BY <2>1, <2>2, <1>c DEF Outcome, SoundPart
    <2>4. files'[id].state # "none" => files'[id].offset <= part[id].size
        <3>1. 0 <= part[id].size
            BY <1>a, BoundsAssumption DEF Parts
        <3>2. files \in [Ids -> Handles] /\ files[id].state = "none"
            BY <1>a, <1>c DEF TypeOK
        <3> QED BY <2>1, <3>1, <3>2 DEF OpenHandle
    <2>5. OnRoute(id)' /\ NotStaged(id)' /\ Staged(id)' /\ TotalMet(id)' /\ FetchedMet(id)'
        BY <2>1 DEF OnRoute, NotStaged, Staged, TotalMet, FetchedMet, HttpSteps, TorrentSteps
    <2>6. Concluded(id)' /\ Owns(id)'
        BY <2>1, <2>3, <2>4, <1>c DEF Concluded, Owns
    <2> QED BY <2>5, <2>6, <1>b, OneJobStep DEF JobInv
<1> QED BY <1>1, <1>2, <1>3, <1>4, <1>5, <1>6, <1>7, <1>8, <1>9 DEF HttpWorker

\* The steps of the torrent route, up to the published handle.
LEMMA JobsTorrentWorker ==
    ASSUME ITypes, AllJobs, NEW id \in Ids, TorrentWorker(id) \/ DownloadTorrent(id)
    PROVE  AllJobs'
<1> USE DEF locals, diskVars, replyVars, Goto, Discard, ReleaseDir
<1>a. JobInv(id) /\ jobs[id] \in Jobs /\ part[id] \in Parts /\ TypeOK
    BY DEF AllJobs, ITypes, TypeOK
<1>b. \A o \in Ids \ {id} : Untouched(o)
    <2> USE <1>a DEF Untouched, Fail
    <2>1. PrepareTorrent(id) \/ DownloadTorrent(id) \/ CreateTorrentPart(id)
              => \A o \in Ids \ {id} : Untouched(o)
        BY DEF PrepareTorrent, DownloadTorrent, CreateTorrentPart, TypeOK
    <2>2. CopyTorrent(id) \/ CheckTorrentPart(id) => \A o \in Ids \ {id} : Untouched(o)
        BY DEF CopyTorrent, CheckTorrentPart, TypeOK
    <2>3. FinishTorrent(id) => \A o \in Ids \ {id} : Untouched(o)
        BY DEF FinishTorrent, OpenHandle, TypeOK
    <2> QED BY <2>1, <2>2, <2>3 DEF TorrentWorker
<1>c. /\ pc[id] \in TorrentSteps
      /\ locator'[id] = locator[id] /\ locator[id] = "torrent-file"
      /\ files[id].state = "none" /\ jobs[id].error = "" /\ jobs[id].total = NoTotal
    <2>1. pc[id] \in TorrentSteps /\ locator' = locator
        BY DEF TorrentWorker, PrepareTorrent, DownloadTorrent, CreateTorrentPart, CopyTorrent,
               CheckTorrentPart, FinishTorrent, TorrentSteps
    <2>2. pc[id] # "done"
        BY <2>1 DEF TorrentSteps
    <2>3. locator[id] = "torrent-file" /\ files[id].state = "none" /\ jobs[id].error = ""
        BY <1>a, <2>1, <2>2 DEF JobInv, OnRoute, Owns, Concluded
    <2>4. jobs[id].total = NoTotal
        BY <1>a, <2>1 DEF JobInv, TotalMet, FetchedMet
    <2> QED BY <2>1, <2>3, <2>4
<1>d. pc[id] \in {"torrent", "download", "tcreate"} => part[id] = NoPart
    BY <1>a DEF JobInv, NotStaged
\* A step to another point of the route.
<1>e. ASSUME pc'[id] \in {"download", "tcreate", "tcopy", "tcheck", "tfinish"},
             files' = files, jobs' = jobs,
             pc'[id] \in {"download", "tcreate"} => part'[id] = NoPart,
             pc'[id] \in {"tcopy", "tcheck"} =>
                 part'[id].sig # "absent" /\ (MaxBytes = 0 \/ part'[id].size <= MaxBytes),
             pc'[id] \in {"tcreate", "tcopy"} => ~OverLimit(fetched'[id]),
             pc'[id] \in {"tcheck", "tfinish"} => part'[id].size = fetched'[id],
             pc'[id] = "tfinish" => SoundPart(id)'
      PROVE  AllJobs'
    <2>1. OnRoute(id)' /\ NotStaged(id)' /\ Staged(id)'
        BY <1>c, <1>e DEF OnRoute, NotStaged, Staged, HttpSteps
    <2>2. TotalMet(id)' /\ FetchedMet(id)'
        BY <1>c, <1>e DEF TotalMet, FetchedMet
    <2>3. Concluded(id)' /\ Owns(id)'
        BY <1>c, <1>e DEF Concluded, Owns, TorrentSteps
    <2> QED BY <2>1, <2>2, <2>3, <1>b, OneJobStep DEF JobInv
<1>f. ASSUME NEW msg \in Errors \ {""}, Fail(id, msg), files' = files,
             part'[id] = NoPart, id \notin torrentDirs'
      PROVE  AllJobs'
    BY <1>f, <1>a, <1>b, <1>c, FailInv, OneJobStep
<1>g. {"unsafe", "mkdir", "torrent", "stage", "staging", "signature"} \subseteq Errors \ {""}
    BY DEF Errors
<1>1. CASE PrepareTorrent(id)
    <2>1. pc[id] = "torrent" /\ part'[id] = NoPart /\ files' = files /\ id \notin torrentDirs
        BY <1>1, <1>a, <1>d DEF PrepareTorrent, JobInv, Owns, TorrentSteps
    <2>2. ASSUME NEW msg \in {"unsafe", "mkdir"}, Fail(id, msg), torrentDirs' = torrentDirs
          PROVE  AllJobs'
        BY <2>1, <2>2, <1>f, <1>g
    <2>3. ASSUME pc' = [pc EXCEPT ![id] = "download"], jobs' = jobs PROVE AllJobs'
        <3>1. pc'[id] = "download"
            BY <2>3, <1>a DEF TypeOK
        <3> QED BY <3>1, <2>1, <2>3, <1>e
    <2> QED BY <1>1, <2>2, <2>3 DEF PrepareTorrent
<1>2. CASE DownloadTorrent(id)
    <2>1. pc[id] = "download" /\ part'[id] = NoPart /\ files' = files
        BY <1>2, <1>d DEF DownloadTorrent
    <2>2. ASSUME Fail(id, "torrent"), ReleaseDir(id) PROVE AllJobs'
        BY <2>1, <2>2, <1>f, <1>g
    <2>3. ASSUME NEW n \in 0..MaxChunks, ~OverLimit(n),
                 fetched' = [fetched EXCEPT ![id] = n],
                 pc' = [pc EXCEPT ![id] = "tcreate"], jobs' = jobs
          PROVE  AllJobs'
        <3>1. pc'[id] = "tcreate" /\ ~OverLimit(fetched'[id])
            BY <2>3, <1>a DEF TypeOK
        <3> QED BY <3>1, <2>1, <2>3, <1>e
    <2> QED BY <1>2, <2>2, <2>3 DEF DownloadTorrent
<1>3. CASE CreateTorrentPart(id)
    <2>1. /\ pc[id] = "tcreate" /\ files' = files
          /\ fetched' = fetched /\ ~OverLimit(fetched[id])
        BY <1>3, <1>a DEF CreateTorrentPart, JobInv, FetchedMet
    <2>2. ASSUME NEW s \in Signatures, part' = [part EXCEPT ![id] = [size |-> 0, sig |-> s]],
                 pc' = [pc EXCEPT ![id] = "tcopy"], jobs' = jobs
          PROVE  AllJobs'
        <3>1. pc'[id] = "tcopy" /\ part'[id] = [size |-> 0, sig |-> s]
            BY <2>2, <1>a DEF TypeOK
        <3>2. part'[id].sig # "absent" /\ (MaxBytes = 0 \/ part'[id].size <= MaxBytes)
            BY <3>1, BoundsAssumption DEF Signatures
        <3> QED BY <3>1, <3>2, <2>1, <2>2, <1>e
    <2>3. ASSUME Fail(id, "stage"), ReleaseDir(id), part' = part PROVE AllJobs'
        BY <2>1, <2>3, <1>d, <1>f, <1>g
    <2> QED BY <1>3, <2>2, <2>3 DEF CreateTorrentPart
<1>4. CASE CopyTorrent(id)
    <2> DEFINE n == fetched[id]
    <2>1. /\ pc[id] = "tcopy" /\ files' = files /\ part[id].sig # "absent"
          /\ fetched' = fetched /\ n \in 0..MaxChunks /\ ~OverLimit(n)
        BY <1>4, <1>a DEF CopyTorrent, JobInv, Staged, FetchedMet, TypeOK
    <2>2. ASSUME part' = [part EXCEPT ![id].size = n],
                 pc' = [pc EXCEPT ![id] = "tcheck"], jobs' = jobs
          PROVE  AllJobs'
        <3>1. pc'[id] = "tcheck" /\ part'[id] = [part[id] EXCEPT !.size = n]
            BY <2>2, <1>a DEF TypeOK
        <3>2. part'[id].sig = part[id].sig /\ part'[id].size = n
            BY <3>1, <1>a DEF Parts
        <3>3. MaxBytes = 0 \/ n <= MaxBytes
            BY <2>1, BoundsAssumption DEF OverLimit
        <3> QED BY <3>1, <3>2, <3>3, <2>1, <2>2, <1>e
    <2>3. ASSUME Discard(id, "staging"), ReleaseDir(id) PROVE AllJobs'
        <3>1. part'[id] = NoPart
            BY <2>3, <1>a DEF TypeOK
        <3> QED BY <3>1, <2>1, <2>3, <1>f, <1>g
    <2> QED BY <1>4, <2>2, <2>3 DEF CopyTorrent
<1>5. CASE CheckTorrentPart(id)
    <2>1. /\ pc[id] = "tcheck" /\ files' = files /\ part[id].sig # "absent"
          /\ MaxBytes = 0 \/ part[id].size <= MaxBytes
          /\ fetched' = fetched /\ part[id].size = fetched[id]
        BY <1>5, <1>a DEF CheckTorrentPart, JobInv, Staged, FetchedMet
    <2>2. ASSUME ValidSignature(id), pc' = [pc EXCEPT ![id] = "tfinish"],
                 jobs' = jobs, part' = part
          PROVE  AllJobs'
        <3>1. pc'[id] = "tfinish"
            BY <2>2, <1>a DEF TypeOK
        <3>2. SoundPart(id)'
            BY <2>1, <2>2, <1>c DEF SoundPart, ValidSignature, IsBareFormat
        <3> QED BY <3>1, <3>2, <2>1, <2>2, <1>e
    <2>3. ASSUME Discard(id, "signature"), ReleaseDir(id) PROVE AllJobs'
        <3>1. part'[id] = NoPart
            BY <2>3, <1>a DEF TypeOK
        <3> QED BY <3>1, <2>1, <2>3, <1>f, <1>g
    <2> QED BY <1>5, <2>2, <2>3 DEF CheckTorrentPart
<1>6. CASE FinishTorrent(id)
    <2>1. /\ pc'[id] = "done" /\ jobs'[id] = Completed(jobs[id], part[id].size)
          /\ part' = part /\ id \notin torrentDirs' /\ OpenHandle(id)
        BY <1>6, <1>a DEF FinishTorrent, TypeOK, JobInv, FetchedMet
    <2>2. SoundPart(id)
        BY <1>6, <1>a DEF FinishTorrent, JobInv, Concluded
    <2>3. /\ jobs'[id].status = "completed" /\ jobs'[id].bytes = part[id].size
          /\ jobs'[id].error = "" /\ jobs'[id].total = NoTotal
          /\ jobs'[id].fileId = jobs[id].fileId
        BY <2>1, <1>a, <1>c DEF Completed, Jobs
    <2>4. Outcome(id)'
        BY <1>c, <2>1, <2>2, <2>3 DEF Outcome, SoundPart
    <2>5. files'[id].state # "none" => files'[id].offset <= part[id].size
        <3>1. 0 <= part[id].size
            BY <1>a, BoundsAssumption DEF Parts
        <3>2. files \in [Ids -> Handles] /\ files[id].state = "none"
            BY <1>a, <1>c DEF TypeOK
        <3> QED BY <2>1, <3>1, <3>2 DEF OpenHandle
    <2>6. OnRoute(id)' /\ NotStaged(id)' /\ Staged(id)' /\ TotalMet(id)' /\ FetchedMet(id)'
        BY <2>1 DEF OnRoute, NotStaged, Staged, TotalMet, FetchedMet, HttpSteps, TorrentSteps
    <2>7. Concluded(id)' /\ Owns(id)'
        BY <2>1, <2>3, <2>4, <2>5, <1>c DEF Concluded, Owns
    <2> QED BY <2>6, <2>7, <1>b, OneJobStep DEF JobInv
<1> QED BY <1>1, <1>2, <1>3, <1>4, <1>5, <1>6 DEF TorrentWorker

\* A reader touches only the handle, which it never moves past the file's end.
LEMMA JobsStream ==
    ASSUME ITypes, AllJobs, NEW r \in Readers, Stream(r)
    PROVE  AllJobs'
<1> USE DEF locals, diskVars, replyVars
<1>a. TypeOK /\ StreamInv
    BY DEF ITypes
<1>b. /\ jobs' = jobs /\ pc' = pc /\ part' = part /\ torrentDirs' = torrentDirs
      /\ locator' = locator /\ fetched' = fetched
    BY DEF Stream, BeginStream, StreamChunk, EndStream, AbortStream, CloseHandle
<1>c. ASSUME NEW o \in Ids,
             files'[o].state # "none" =>
                 files[o].state # "none"
                     /\ (files[o].offset <= part[o].size => files'[o].offset <= part[o].size)
      PROVE  JobInv(o)'
    <2>1. JobInv(o)
        BY DEF AllJobs
    <2>2. SoundPart(o)' <=> SoundPart(o)
        BY <1>b DEF SoundPart
    <2>3. Outcome(o)' <=> Outcome(o)
        BY <1>b, <2>2 DEF Outcome
    <2>4. OnRoute(o)' /\ NotStaged(o)' /\ Staged(o)' /\ TotalMet(o)' /\ FetchedMet(o)'
        BY <1>b, <2>1 DEF JobInv, OnRoute, NotStaged, Staged, TotalMet, FetchedMet
    <2>5. Concluded(o)' /\ Owns(o)'
        BY <1>b, <1>c, <2>1, <2>2, <2>3 DEF JobInv, Concluded, Owns
    <2> QED BY <2>4, <2>5 DEF JobInv
<1>1. ASSUME NEW id \in Ids, BeginStream(r, id) PROVE AllJobs'
    BY <1>1, <1>c DEF BeginStream, AllJobs
<1>2. CASE StreamChunk(r)
    <2>0. PICK id \in Ids : id = streams[r].id
        BY <1>2, <1>a DEF StreamChunk, StreamInv
    <2> DEFINE n == files[id].offset + 1
    <2>1. /\ files[id].state = "open" /\ n <= part[id].size
          /\ files' = [files EXCEPT ![id].offset = n]
        BY <1>2, <2>0 DEF StreamChunk
    <2>2. files \in [Ids -> Handles]
        BY <1>a DEF TypeOK
    <2> HIDE DEF n
    <2>3. files'[id].offset = n
        BY <2>1, <2>2 DEF Handles
    <2>4. \A o \in Ids \ {id} : files'[o] = files[o]
        BY <2>1, <2>2
    <2>5. JobInv(id)'
        BY <2>1, <2>3, <1>c
    <2>6. \A o \in Ids \ {id} : JobInv(o)'
        BY <2>4, <1>c
    <2> QED BY <2>5, <2>6 DEF AllJobs
<1>3. ASSUME NEW outcome, CloseHandle(r, outcome), streams[r].state = "reading"
      PROVE  AllJobs'
    <2>0. PICK id \in Ids : id = streams[r].id
        BY <1>3, <1>a DEF StreamInv
    <2>1. files[id].state # "none" /\ files \in [Ids -> Handles]
        BY <1>3, <1>a, <2>0 DEF StreamInv, TypeOK
    <2>2. files' = [files EXCEPT ![id].state = "closed"]
        BY <1>3, <2>0 DEF CloseHandle
    <2>3. files'[id].offset = files[id].offset
        BY <2>1, <2>2 DEF Handles
    <2>4. \A o \in Ids \ {id} : files'[o] = files[o]
        BY <2>1, <2>2
    <2>5. JobInv(id)'
        BY <2>1, <2>3, <1>c
    <2>6. \A o \in Ids \ {id} : JobInv(o)'
        BY <2>4, <1>c
    <2> QED BY <2>5, <2>6 DEF AllJobs
<1>4. CASE EndStream(r)
    BY <1>4, <1>3 DEF EndStream
<1>5. CASE AbortStream(r)
    BY <1>5, <1>3 DEF AbortStream
<1> QED BY <1>1, <1>2, <1>4, <1>5 DEF Stream

\* A restart forgets every job and leaves the disk as it is.
LEMMA JobsCrash == ASSUME ITypes, AllJobs, Crash PROVE AllJobs'
<1> SUFFICES ASSUME NEW id \in Ids PROVE JobInv(id)'
    BY DEF AllJobs
<1>1. JobInv(id)
    BY DEF AllJobs
<1>2. /\ pc'[id] = IF pc[id] = "unborn" THEN "unborn" ELSE "lost"
      /\ jobs'[id].error = "" /\ files'[id].state = "none"
      /\ part'[id] = part[id] /\ torrentDirs' = torrentDirs
    BY DEF Crash, diskVars, NoJob, NoHandle
<1>3. OnRoute(id)' /\ Staged(id)' /\ TotalMet(id)' /\ FetchedMet(id)'
    BY <1>2 DEF OnRoute, Staged, TotalMet, FetchedMet, HttpSteps, TorrentSteps
<1>4. NotStaged(id)' /\ Concluded(id)' /\ Owns(id)'
    BY <1>1, <1>2 DEF JobInv, NotStaged, Concluded, Owns, TorrentSteps
<1> QED BY <1>3, <1>4 DEF JobInv

-----------------------------------------------------------------------------
\* What a worker's position says of its job, its part file, its torrent
\* directory and its handle holds in every reachable state, whatever cancels,
\* readers, I/O errors and restarts do in between (manager.go, run and
\* runTorrent with the lock sections of update, fail, Cancel and File).
THEOREM Invariance == Spec => []IInv
<1>1. Init => ITypes /\ AllJobs
    BY TypesInit, JobsInit
<1>2. ITypes /\ AllJobs /\ [Next]_vars => AllJobs'
    <2> SUFFICES ASSUME ITypes, AllJobs, [Next]_vars PROVE AllJobs'
        OBVIOUS
    <2>1. ASSUME NEW id \in Ids, Handler(id) PROVE AllJobs'
        BY <2>1, JobsHandler
    <2>2. ASSUME NEW id \in Ids, Worker(id) \/ DownloadTorrent(id) PROVE AllJobs'
        BY <2>2, JobsCommonWorker, JobsHttpWorker, JobsTorrentWorker DEF Worker
    <2>3. ASSUME NEW r \in Readers, Stream(r) PROVE AllJobs'
        BY <2>3, JobsStream
    <2>4. CASE Crash
        BY <2>4, JobsCrash
    <2>5. CASE UNCHANGED vars
        BY <2>5, UntouchedKeeps DEF Untouched, AllJobs, vars, locals, diskVars
    <2> QED BY <2>1, <2>2, <2>3, <2>4, <2>5 DEF Next
<1>3. ITypes /\ AllJobs => IInv
    BY DEF ITypes, AllJobs, IInv
<1> QED BY <1>1, <1>2, <1>3, TypesStep, PTL DEF Spec

\* A file that clients can fetch passed every check of its route.
THEOREM OnlySoundFiles == Spec => []PublishedIsSound
<1>1. IInv => PublishedIsSound
    <2> SUFFICES ASSUME IInv, NEW id \in Ids, files[id].state # "none"
                 PROVE  SoundPart(id) /\ files[id].offset <= part[id].size
        BY DEF PublishedIsSound
    <2>1. Owns(id) /\ Concluded(id)
        BY DEF IInv, JobInv
    <2> QED BY <2>1 DEF Owns, Concluded, Outcome
<1> QED BY <1>1, Invariance, PTL

\* No error path of run or runTorrent leaves a part file or a torrent
\* directory behind.
THEOREM NoLeakedFiles == Spec => []CleanAfterWork
<1>1. IInv => CleanAfterWork
    <2> SUFFICES ASSUME IInv, NEW id \in Ids, pc[id] = "done"
                 PROVE  id \notin torrentDirs /\ (jobs[id].error # "" => part[id] = NoPart)
        BY DEF CleanAfterWork
    <2>1. Owns(id) /\ Concluded(id)
        BY DEF IInv, JobInv
    <2> QED BY <2>1 DEF Owns, Concluded, TorrentSteps
<1> QED BY <1>1, Invariance, PTL

\* A job that ended without an error counts exactly the bytes of its part file.
THEOREM CountsAreExact == Spec => []CompletedMatchesDisk
<1>1. IInv => CompletedMatchesDisk
    <2> SUFFICES ASSUME IInv, NEW id \in Ids, pc[id] = "done", jobs[id].error = ""
                 PROVE  /\ jobs[id].status \in {"completed", "cancelled"}
                        /\ jobs[id].bytes = part[id].size
                        /\ jobs[id].total \in {NoTotal, part[id].size}
        BY DEF CompletedMatchesDisk
    <2>1. Concluded(id)
        BY DEF IInv, JobInv
    <2> QED BY <2>1 DEF Concluded, Outcome
<1> QED BY <1>1, Invariance, PTL

\* Once its worker has returned, a job changes only by being marked cancelled,
\* and the part file that readers may be streaming does not change at all.
THEOREM OutcomesAreStable == Spec => OutcomeIsStable
<1> DEFINE Stable(id) == /\ jobs'[id] \in {jobs[id], Cancelled(jobs[id])}
                         /\ part'[id] = part[id]
<1>1. ASSUME ITypes, [Next]_vars, NEW id \in Ids, pc[id] = "done", pc'[id] = "done"
      PROVE  Stable(id)
    <2> USE DEF locals, diskVars, replyVars, vars
    <2>a. jobs \in [Ids -> Jobs] /\ part \in [Ids -> Parts] /\ pc[id] = "done"
        BY <1>1 DEF ITypes, TypeOK
    <2>1. ASSUME NEW o \in Ids, Handler(o) PROVE Stable(id)
        BY <2>1, <2>a DEF Handler, Create, ReturnCreated, Cancel, AnswerCancel
    <2>2. ASSUME NEW o \in Ids, Worker(o) \/ DownloadTorrent(o) PROVE Stable(id)
        <3> USE <2>a DEF Goto, Fail, Discard
        <3>1. CASE BeginResolving(o) \/ LookupProvider(o) \/ Locate(o)
            BY <3>1 DEF BeginResolving, LookupProvider, Locate
        <3>2. CASE OpenRemote(o) \/ MakeStaging(o) \/ CreatePart(o) \/ ReadChunk(o)
            BY <3>2 DEF OpenRemote, MakeStaging, CreatePart, ReadChunk
        <3>3. CASE ReadEnd(o) \/ SealPart(o) \/ CheckPart(o) \/ Finish(o) \/ Publish(o)
            BY <3>3 DEF ReadEnd, SealPart, CheckPart, Finish, Publish
        <3>4. CASE PrepareTorrent(o) \/ DownloadTorrent(o) \/ CreateTorrentPart(o)
            BY <3>4 DEF PrepareTorrent, DownloadTorrent, CreateTorrentPart
        <3>5. CASE CopyTorrent(o) \/ CheckTorrentPart(o) \/ FinishTorrent(o)
            BY <3>5 DEF CopyTorrent, CheckTorrentPart, FinishTorrent
        <3> QED BY <2>2, <3>1, <3>2, <3>3, <3>4, <3>5 DEF Worker, HttpWorker, TorrentWorker
    <2>3. ASSUME NEW r \in Readers, Stream(r) PROVE Stable(id)
        BY <2>3 DEF Stream, BeginStream, StreamChunk, EndStream, AbortStream, CloseHandle
    <2>4. ~Crash
        BY <1>1 DEF Crash
    <2>5. CASE UNCHANGED vars
        BY <2>5
    <2> QED BY <1>1, <2>1, <2>2, <2>3, <2>4, <2>5 DEF Next
<1>2. ITypes /\ [Next]_vars
          => (\A id \in Ids : pc[id] = "done" /\ pc'[id] = "done" => Stable(id))
    BY <1>1
<1>3. Init => ITypes
    BY TypesInit
<1> QED BY <1>2, <1>3, TypesStep, PTL DEF Spec, OutcomeIsStable

-----------------------------------------------------------------------------
(* The requests that stream a handle. *)

\* A chunk went to one request of a handle at most, and to some request if it
\* lies before the handle's offset.
Consumed(id) ==
    /\ \A r, q \in Readers : streams[r].id = id /\ streams[q].id = id /\ r # q =>
          \A k \in streams[r].got : k \notin streams[q].got
    /\ \A k \in Int : k \in 1..files[id].offset <=>
          \E r \in Readers : streams[r].id = id /\ k \in streams[r].got

\* An ended request that is its handle's only one has all chunks.
AloneHasAll(r) ==
    streams[r].state = "ended"
        /\ (\A q \in Readers : streams[q].id = streams[r].id => q = r) =>
            streams[r].got = 1..part[streams[r].id].size

\* Who closed a handle has ended, and a request only begins on a handle.
ReaderInv ==
    /\ \A r \in Readers : streams[r].state = "idle" => streams[r].id = NoId
    /\ \A r \in Readers : streams[r].state # "idle" =>
          \/ pc[streams[r].id] = "lost"
          \/ pc[streams[r].id] = "done" /\ files[streams[r].id].state # "none"
    /\ \A id \in Ids : files[id].state # "none" => Consumed(id)
    /\ \A id \in Ids : files[id].state = "closed" =>
          \E r \in Readers : streams[r].id = id /\ streams[r].state \in {"ended", "aborted"}
    /\ \A r \in Readers : AloneHasAll(r)

\* A step that is neither of a request nor a crash touches no stream, leaves a
\* job that has ended alone, and publishes a handle at its start.
LEMMA QuietStep ==
    ASSUME IInv, NEW o \in Ids, Handler(o) \/ Worker(o) \/ DownloadTorrent(o)
    PROVE  /\ streams' = streams
           /\ \A id \in Ids :
                 /\ pc[id] \in {"done", "lost"} =>
                       pc'[id] = pc[id] /\ part'[id] = part[id] /\ files'[id] = files[id]
                 /\ \/ files'[id] = files[id]
                    \/ files[id].state = "none" /\ files'[id] = [state |-> "open", offset |-> 0]
<1>1. /\ jobs \in [Ids -> Jobs] /\ part \in [Ids -> Parts] /\ files \in [Ids -> Handles]
      /\ pc \in [Ids -> WorkerSteps \cup {"unborn", "done", "lost"}]
      /\ pc[o] # "done" => files[o].state = "none"
    BY DEF IInv, TypeOK, JobInv, Owns
<1> USE <1>1 DEF locals, diskVars, replyVars
<1>2. CASE Handler(o)
    BY <1>2 DEF Handler, Create, ReturnCreated, Cancel, AnswerCancel
<1>3. CASE Worker(o) \/ DownloadTorrent(o)
    <2> USE DEF Goto, Fail, Discard
    <2>1. CASE BeginResolving(o) \/ LookupProvider(o) \/ Locate(o)
        BY <2>1 DEF BeginResolving, LookupProvider, Locate
    <2>2. CASE OpenRemote(o) \/ MakeStaging(o) \/ CreatePart(o) \/ ReadChunk(o)
        BY <2>2 DEF OpenRemote, MakeStaging, CreatePart, ReadChunk
    <2>3. CASE ReadEnd(o) \/ SealPart(o) \/ CheckPart(o) \/ Finish(o)
        BY <2>3 DEF ReadEnd, SealPart, CheckPart, Finish
    <2>4. CASE Publish(o) \/ FinishTorrent(o)
        BY <2>4 DEF Publish, FinishTorrent, OpenHandle
    <2>5. CASE PrepareTorrent(o) \/ DownloadTorrent(o) \/ CreateTorrentPart(o)
        BY <2>5 DEF PrepareTorrent, DownloadTorrent, CreateTorrentPart
    <2>6. CASE CopyTorrent(o) \/ CheckTorrentPart(o)
        BY <2>6 DEF CopyTorrent, CheckTorrentPart
    <2> QED BY <1>3, <2>1, <2>2, <2>3, <2>4, <2>5, <2>6 DEF Worker, HttpWorker, TorrentWorker
<1> QED BY <1>2, <1>3

\* No step of a handler or a worker changes what the requests were sent.
LEMMA ReadersQuiet ==
    ASSUME IInv, ReaderInv, NEW o \in Ids, Handler(o) \/ Worker(o) \/ DownloadTorrent(o)
    PROVE  ReaderInv'
<1>1. /\ files \in [Ids -> Handles] /\ streams \in [Readers -> FileRequests] /\ StreamInv
      /\ streams' = streams /\ NoId \notin Ids
    BY QuietStep, SetsAssumption DEF IInv, TypeOK
<1>2. \A r \in Readers : streams[r].state # "idle" => streams[r].id \in Ids
    BY <1>1 DEF StreamInv
<1>3. \A r \in Readers : streams[r].state # "idle" =>
         LET id == streams[r].id IN
         pc'[id] = pc[id] /\ part'[id] = part[id] /\ files'[id] = files[id]
    BY <1>2, QuietStep DEF ReaderInv
<1>4. \A id \in Ids : files'[id] # files[id] => \A r \in Readers : streams[r].id # id
    BY <1>1, <1>3 DEF ReaderInv
<1>5. \A id \in Ids : files'[id].state # "none" => Consumed(id)'
    <2> SUFFICES ASSUME NEW id \in Ids, files'[id].state # "none" PROVE Consumed(id)'
        OBVIOUS
    <2>1. CASE files'[id] = files[id]
        BY <1>1, <2>1 DEF ReaderInv, Consumed
    <2>2. CASE files'[id] # files[id]
        <3>1. files'[id].offset = 0
            BY <2>2, QuietStep
        <3> QED BY <1>1, <1>4, <2>2, <3>1 DEF Consumed
    <2> QED BY <2>1, <2>2
<1>6. \A id \in Ids : files'[id].state = "closed" => files[id].state = "closed"
    BY QuietStep
<1>7. \A r \in Readers : AloneHasAll(r)'
    BY <1>1, <1>3 DEF ReaderInv, AloneHasAll
<1> QED BY <1>1, <1>3, <1>5, <1>6, <1>7 DEF ReaderInv

\* A step of a request: it begins, reads one chunk, or closes the handle.
LEMMA ReadersStream ==
    ASSUME IInv, ReaderInv, NEW r \in Readers, Stream(r)
    PROVE  ReaderInv'
<1>1. /\ files \in [Ids -> Handles] /\ streams \in [Readers -> FileRequests] /\ StreamInv
      /\ part \in [Ids -> Parts] /\ NoId \notin Ids
    BY SetsAssumption DEF IInv, TypeOK
<1>2. pc' = pc /\ part' = part
    BY DEF Stream, BeginStream, StreamChunk, EndStream, AbortStream, CloseHandle, diskVars
<1>3. \A id \in Ids : files[id].state # "none" => pc[id] = "done" /\ files[id].offset <= part[id].size
    BY DEF IInv, JobInv, Owns
<1>4. ASSUME NEW id \in Ids, BeginStream(r, id)
      PROVE  ReaderInv'
    <2>1. /\ streams[r].id = NoId /\ files[id].state # "none" /\ files' = files
          /\ streams' = [streams EXCEPT ![r] = [state |-> "reading", id |-> id, got |-> {}]]
        BY <1>4 DEF BeginStream, ReaderInv
    <2>2. /\ streams'[r].state = "reading" /\ streams'[r].id = id /\ streams'[r].got = {}
          /\ \A q \in Readers \ {r} : streams'[q] = streams[q]
        BY <1>1, <2>1
    <2>3. ASSUME NEW o \in Ids, files'[o].state # "none" PROVE Consumed(o)'
        <3>1. Consumed(o)
            BY <2>1, <2>3 DEF ReaderInv
        <3>2. \A q \in Readers \ {r} : streams'[q].id = streams[q].id /\ streams'[q].got = streams[q].got
            BY <2>2
        <3>3. streams[r].id # o
            BY <1>1, <2>1
        <3>4. \A k \in Int : (\E q \in Readers : streams'[q].id = o /\ k \in streams'[q].got)
                 <=> \E q \in Readers : streams[q].id = o /\ k \in streams[q].got
            BY <2>2, <3>2, <3>3
        <3>5. files'[o].offset = files[o].offset
            BY <2>1
        <3>6. \A u, q \in Readers : streams'[u].id = o /\ streams'[q].id = o /\ u # q =>
                 \A k \in streams'[u].got : k \notin streams'[q].got
            BY <2>2, <3>1, <3>2 DEF Consumed
        <3> QED BY <3>1, <3>4, <3>5, <3>6 DEF Consumed
    <2>4. \A o \in Ids : files'[o].state = "closed" =>
             \E q \in Readers : streams'[q].id = o /\ streams'[q].state \in {"ended", "aborted"}
        <3> SUFFICES ASSUME NEW o \in Ids, files'[o].state = "closed"
                     PROVE  \E q \in Readers : streams'[q].id = o
                                             /\ streams'[q].state \in {"ended", "aborted"}
            OBVIOUS
        <3>1. PICK q \in Readers : streams[q].id = o /\ streams[q].state \in {"ended", "aborted"}
            BY <2>1 DEF ReaderInv
        <3>2. q # r
            BY <1>1, <2>1, <3>1
        <3> QED BY <2>2, <3>1, <3>2
    <2>5. \A q \in Readers : AloneHasAll(q)'
        <3>1. AloneHasAll(r)'
            BY <2>2 DEF AloneHasAll
        <3>2. ASSUME NEW q \in Readers \ {r}, streams'[q].state = "ended",
                     \A u \in Readers : streams'[u].id = streams'[q].id => u = q
              PROVE  streams'[q].got = 1..part'[streams'[q].id].size
            <4>1. streams'[q] = streams[q] /\ streams[q].id \in Ids
                BY <1>1, <2>2, <3>2 DEF StreamInv
            <4>2. \A u \in Readers : streams[u].id = streams[q].id => u = q
                BY <1>1, <2>1, <2>2, <3>2, <4>1
            <4> QED BY <1>2, <3>2, <4>1, <4>2 DEF ReaderInv, AloneHasAll
        <3> QED BY <3>1, <3>2 DEF AloneHasAll
    <2>6. /\ \A q \in Readers : streams'[q].state = "idle" => streams'[q].id = NoId
          /\ \A q \in Readers : streams'[q].state # "idle" =>
                \/ pc'[streams'[q].id] = "lost"
                \/ pc'[streams'[q].id] = "done" /\ files'[streams'[q].id].state # "none"
        BY <1>1, <1>2, <1>3, <2>1, <2>2 DEF ReaderInv
    <2> QED BY <2>3, <2>4, <2>5, <2>6 DEF ReaderInv
<1>5. CASE StreamChunk(r)
    <2> DEFINE id == streams[r].id
               n  == files[id].offset + 1
    <2>1. /\ streams[r].state = "reading" /\ files[id].state = "open" /\ n <= part[id].size
          /\ files' = [files EXCEPT ![id].offset = n]
          /\ streams' = [streams EXCEPT ![r].got = @ \cup {n}]
        BY <1>5 DEF StreamChunk
    <2>2. id \in Ids /\ files[id].offset \in Nat
        BY <1>1, <2>1, BoundsAssumption DEF StreamInv, Handles
    <2>3. /\ files'[id].offset = n /\ files'[id].state = "open"
          /\ \A o \in Ids \ {id} : files'[o] = files[o]
          /\ streams'[r].got = streams[r].got \cup {n}
          /\ streams'[r].state = streams[r].state /\ streams'[r].id = id
          /\ \A q \in Readers \ {r} : streams'[q] = streams[q]
        BY <1>1, <2>1, <2>2 DEF Handles, FileRequests
    <2> HIDE DEF id, n
    <2>4. n \in Int /\ n = files[id].offset + 1
        BY <2>2 DEF n
    <2>5. ASSUME NEW o \in Ids, o = id PROVE Consumed(o)'
        <3>1. Consumed(id)
            BY <2>1, <2>2 DEF ReaderInv
        <3>2. \A q \in Readers : streams[q].id = id => n \notin streams[q].got
            BY <2>2, <2>4, <3>1 DEF Consumed
        <3>3. \A q, u \in Readers :
                 streams'[q].id = id /\ streams'[u].id = id /\ q # u =>
                     \A k \in streams'[q].got : k \notin streams'[u].got
            BY <2>3, <3>1, <3>2, id = streams[r].id DEF Consumed, id
        <3>4. \A k \in Int : k \in 1..n <=> k \in 1..files[id].offset \/ k = n
            BY <2>2, <2>4
        <3>5. \A k \in Int : k \in 1..n <=>
                 \E q \in Readers : streams'[q].id = id /\ k \in streams'[q].got
            BY <2>3, <3>1, <3>4 DEF Consumed, id
        <3> QED BY <2>3, <2>5, <3>3, <3>5 DEF Consumed
    <2>6. ASSUME NEW o \in Ids \ {id}, files'[o].state # "none" PROVE Consumed(o)'
        <3>1. Consumed(o) /\ files'[o] = files[o]
            BY <2>3, <2>6 DEF ReaderInv
        <3>2. \A q \in Readers : /\ streams'[q].id = streams[q].id
                                 /\ streams[q].id = o => streams'[q].got = streams[q].got
            BY <2>3 DEF id
        <3> QED BY <3>1, <3>2 DEF Consumed
    <2>7. \A o \in Ids : files'[o].state = "closed" =>
             \E q \in Readers : streams'[q].id = o /\ streams'[q].state \in {"ended", "aborted"}
        BY <2>1, <2>3 DEF ReaderInv
    <2>8. \A q \in Readers : AloneHasAll(q)'
        <3>1. AloneHasAll(r)'
            BY <2>1, <2>3 DEF AloneHasAll
        <3>2. ASSUME NEW q \in Readers \ {r} PROVE AloneHasAll(q)'
            <4>1. AloneHasAll(q)
                BY DEF ReaderInv
            <4>2. streams'[q] = streams[q] /\ \A u \in Readers : streams'[u].id = streams[u].id
                BY <2>3, <3>2 DEF id
            <4> QED BY <1>2, <4>1, <4>2 DEF AloneHasAll
        <3> QED BY <3>1, <3>2
    <2>9. /\ \A q \in Readers : streams'[q].state = "idle" => streams'[q].id = NoId
          /\ \A q \in Readers : streams'[q].state # "idle" =>
                \/ pc'[streams'[q].id] = "lost"
                \/ pc'[streams'[q].id] = "done" /\ files'[streams'[q].id].state # "none"
        BY <1>1, <1>2, <2>1, <2>3 DEF ReaderInv, StreamInv, id
    <2>10. \A o \in Ids : files'[o].state # "none" => Consumed(o)'
        BY <2>5, <2>6
    <2> QED BY <2>7, <2>8, <2>9, <2>10 DEF ReaderInv
<1>6. CASE EndStream(r) \/ AbortStream(r)
    <2> DEFINE id == streams[r].id
    <2>1. PICK outcome \in {"ended", "aborted"} :
              /\ files' = [files EXCEPT ![id].state = "closed"]
              /\ streams' = [streams EXCEPT ![r].state = outcome]
              /\ outcome = "ended" => files[id].state = "closed" \/ files[id].offset = part[id].size
        BY <1>6 DEF EndStream, AbortStream, CloseHandle
    <2>2. streams[r].state = "reading" /\ id \in Ids /\ files[id].state # "none"
        BY <1>1, <1>6 DEF EndStream, AbortStream, StreamInv
    <2>3. /\ files'[id].offset = files[id].offset /\ files'[id].state = "closed"
          /\ \A o \in Ids \ {id} : files'[o] = files[o]
          /\ streams'[r].got = streams[r].got /\ streams'[r].id = id /\ streams'[r].state = outcome
          /\ \A q \in Readers \ {r} : streams'[q] = streams[q]
        BY <1>1, <2>1, <2>2 DEF Handles, FileRequests
    <2>4. /\ \A q \in Readers : streams'[q].got = streams[q].got /\ streams'[q].id = streams[q].id
          /\ \A o \in Ids : files'[o].offset = files[o].offset
          /\ \A o \in Ids : files'[o].state # "none" => files[o].state # "none"
        BY <2>2, <2>3
    <2>5. \A o \in Ids : files'[o].state # "none" => Consumed(o)'
        BY <2>4 DEF Consumed, ReaderInv
    <2>6. \A o \in Ids : files'[o].state = "closed" =>
             \E q \in Readers : streams'[q].id = o /\ streams'[q].state \in {"ended", "aborted"}
        <3> SUFFICES ASSUME NEW o \in Ids, files'[o].state = "closed"
                     PROVE  \E q \in Readers : streams'[q].id = o
                                             /\ streams'[q].state \in {"ended", "aborted"}
            OBVIOUS
        <3>1. CASE o = id
            BY <2>3, <3>1
        <3>2. CASE o # id
            <4>1. PICK q \in Readers : streams[q].id = o /\ streams[q].state \in {"ended", "aborted"}
                BY <2>3, <3>2 DEF ReaderInv
            <4>2. q # r
                BY <2>2, <4>1
            <4> QED BY <2>3, <4>1, <4>2
        <3> QED BY <3>1, <3>2
    <2>7. ASSUME NEW q \in Readers, streams'[q].state = "ended", 
                 \A u \in Readers : streams'[u].id = streams'[q].id => u = q
          PROVE  streams'[q].got = 1..part'[streams'[q].id].size
        <3>1. \A u \in Readers : streams[u].id = streams[q].id => u = q
            BY <2>4, <2>7
        <3>2. CASE q # r
            BY <1>2, <2>3, <2>4, <2>7, <3>1, <3>2 DEF ReaderInv, AloneHasAll
        <3>3. CASE q = r
            <4>1. files[id].offset = part[id].size
                <5>1. files[id].state # "closed"
                    BY <2>2, <3>1, <3>3 DEF ReaderInv
                <5> QED BY <2>1, <2>3, <2>7, <3>3, <5>1
            <4>2. \A k \in Int : k \in 1..files[id].offset <=> k \in streams[r].got
                BY <2>2, <3>1, <3>3 DEF ReaderInv, Consumed
            <4>3. streams[r].got \subseteq Int
                BY <1>1 DEF FileRequests
            <4>4. streams[r].got = 1..part[id].size
                <5>1. \A k : k \in streams[r].got => k \in 1..part[id].size
                    BY <4>1, <4>2, <4>3
                <5>2. \A k : k \in 1..part[id].size => k \in streams[r].got
                    BY <4>1, <4>2
                <5> QED BY <5>1, <5>2
            <4> QED BY <1>2, <2>4, <3>3, <4>4
        <3> QED BY <3>2, <3>3
    <2>8. \A q \in Readers : AloneHasAll(q)'
        BY <2>7 DEF AloneHasAll
    <2>9. /\ \A q \in Readers : streams'[q].state = "idle" => streams'[q].id = NoId
          /\ \A q \in Readers : streams'[q].state # "idle" =>
                \/ pc'[streams'[q].id] = "lost"
                \/ pc'[streams'[q].id] = "done" /\ files'[streams'[q].id].state # "none"
        BY <1>1, <1>2, <2>2, <2>3 DEF ReaderInv, StreamInv
    <2> QED BY <2>5, <2>6, <2>8, <2>9 DEF ReaderInv
<1> QED BY <1>4, <1>5, <1>6 DEF Stream

\* A crash ends the requests that were reading and takes every handle away.
LEMMA ReadersCrash ==
    ASSUME IInv, ReaderInv, Crash
    PROVE  ReaderInv'
<1>1. /\ streams \in [Readers -> FileRequests] /\ StreamInv /\ part' = part
      /\ \A r \in Readers : streams'[r] = IF streams[r].state = "reading"
                                          THEN [streams[r] EXCEPT !.state = "aborted"]
                                          ELSE streams[r]
      /\ pc' = [id \in Ids |-> IF pc[id] = "unborn" THEN "unborn" ELSE "lost"]
      /\ \A id \in Ids : files'[id].state = "none"
    BY DEF Crash, IInv, TypeOK, diskVars, NoHandle
<1>2. \A r \in Readers :
         /\ streams'[r].id = streams[r].id /\ streams'[r].got = streams[r].got
         /\ streams'[r].state = "ended" <=> streams[r].state = "ended"
         /\ streams'[r].state = "idle" <=> streams[r].state = "idle"
    BY <1>1 DEF FileRequests
<1>3. \A r \in Readers : streams[r].state # "idle" => pc'[streams[r].id] = "lost"
    BY <1>1 DEF ReaderInv, StreamInv
<1>4. ASSUME NEW r \in Readers PROVE AloneHasAll(r)'
    <2>1. AloneHasAll(r)
        BY DEF ReaderInv
    <2> QED BY <1>1, <1>2, <2>1 DEF AloneHasAll
<1>5. \A r \in Readers : streams'[r].state = "idle" => streams'[r].id = NoId
    BY <1>2 DEF ReaderInv
<1>6. \A r \in Readers : streams'[r].state # "idle" => pc'[streams'[r].id] = "lost"
    BY <1>2, <1>3
<1> QED BY <1>1, <1>4, <1>5, <1>6 DEF ReaderInv

\* What holds of the requests holds for as long as the bridge runs.
LEMMA ReadersAlways == Spec => []ReaderInv
<1>1. Init => ReaderInv
    BY DEF Init, ReaderInv, Consumed, AloneHasAll, NoHandle, NoStream
<1>2. IInv /\ ReaderInv /\ [Next]_vars => ReaderInv'
    <2> SUFFICES ASSUME IInv, ReaderInv, [Next]_vars PROVE ReaderInv'
        OBVIOUS
    <2>1. CASE UNCHANGED vars
        BY <2>1 DEF vars, locals, diskVars, ReaderInv, Consumed, AloneHasAll
    <2>2. ASSUME NEW id \in Ids, Handler(id) \/ Worker(id) \/ DownloadTorrent(id) PROVE ReaderInv'
        BY <2>2, ReadersQuiet
    <2>3. ASSUME NEW r \in Readers, Stream(r) PROVE ReaderInv'
        BY <2>3, ReadersStream
    <2> QED BY <2>1, <2>2, <2>3, ReadersCrash DEF Next
<1> QED BY <1>1, <1>2, Invariance, PTL DEF Spec

\* Requests that race on the one handle of a job split its file: no chunk is
\* sent twice, and none up to the handle's offset is lost between them.
THEOREM HandleConsumedOnce == Spec => []HandleIsConsumedOnce
<1>1. IInv /\ ReaderInv => HandleIsConsumedOnce
    <2> SUFFICES ASSUME IInv, ReaderInv, NEW id \in Ids, files[id].state # "none"
                 PROVE  /\ \A r, q \in StreamsOf(id) : r # q => streams[r].got \cap streams[q].got = {}
                        /\ UNION {streams[r].got : r \in StreamsOf(id)} = 1..files[id].offset
        BY DEF HandleIsConsumedOnce
    <2>1. Consumed(id)
        BY DEF ReaderInv
    <2>2. \A r \in Readers : streams[r].got \subseteq Int
        BY DEF IInv, TypeOK, FileRequests
    <2>3. \A r, q \in StreamsOf(id) : r # q => streams[r].got \cap streams[q].got = {}
        BY <2>1 DEF Consumed, StreamsOf
    <2>4. \A k \in Int : k \in UNION {streams[r].got : r \in StreamsOf(id)}
                        <=> k \in 1..files[id].offset
        BY <2>1 DEF Consumed, StreamsOf
    <2>5. UNION {streams[r].got : r \in StreamsOf(id)} \subseteq Int
        BY <2>2 DEF StreamsOf
    <2> QED BY <2>3, <2>4, <2>5
<1> QED BY <1>1, Invariance, ReadersAlways, PTL

\* A file request without a rival delivers the whole file when it ends normally.
THEOREM LoneReadersGetAll == Spec => []LoneReaderGetsAll
<1>1. ReaderInv => LoneReaderGetsAll
    BY DEF ReaderInv, AloneHasAll, LoneReaderGetsAll, StreamsOf
<1> QED BY <1>1, ReadersAlways, PTL

-----------------------------------------------------------------------------
(* What a poller sees of the progress. *)

\* A longer copy of the same payload is not at a lower percentage.
LEMMA ProgressMonotone ==
    ASSUME NEW a \in Nat, NEW b \in Nat, a <= b, NEW total \in Nat \ {0}
    PROVE  ProgressAt(a, total) <= ProgressAt(b, total)
<1> DEFINE p == (90 * a) \div total
           q == (90 * b) \div total
<1>1. p \in Int /\ p * total <= 90 * a
    OBVIOUS
<1>2. q \in Int /\ 90 * b < (q + 1) * total
    OBVIOUS
<1>3. ASSUME q + 1 <= p PROVE FALSE
    <2>1. (q + 1) * total <= p * total
        BY <1>1, <1>2, <1>3, ProductMonotone
    <2> QED BY <1>1, <1>2, <2>1
<1>4. p <= q
    BY <1>1, <1>2, <1>3
<1> QED BY <1>1, <1>2, <1>4 DEF ProgressAt

\* What each update makes of the two numbers.
LEMMA UpdatesNumbers ==
    ASSUME NEW j \in Jobs
    PROVE  /\ Resolving(j).progress = 2 /\ Resolving(j).bytes = j.bytes
           /\ Downloading(j).progress = 5 /\ Downloading(j).bytes = j.bytes
           /\ Cancelled(j).progress = j.progress /\ Cancelled(j).bytes = j.bytes
           /\ \A msg : Failed(j, msg).progress = j.progress /\ Failed(j, msg).bytes = j.bytes
           /\ \A t : Sized(j, t).progress = j.progress /\ Sized(j, t).bytes = j.bytes
           /\ \A n : Completed(j, n).progress = 100 /\ Completed(j, n).bytes = n
           /\ \A n : /\ Copied(j, n).bytes = n
                     /\ Copied(j, n).progress = IF j.total > 0 THEN ProgressAt(n, j.total)
                                                               ELSE j.progress
BY DEF Jobs, Resolving, Downloading, Cancelled, Failed, Sized, Completed, Copied

\* The numbers of a job follow its worker: two steps before the copy, then the
\* size of the part file and, with a Content-Length, its share of it.
Numbers(id) ==
    /\ pc[id] \in {"unborn", "lost"} => ~Known(id)
    /\ pc[id] = "start" => jobs[id].progress = 0
    /\ pc[id] = "resolve" => jobs[id].progress = 2
    /\ pc[id] \in {"locate", "open", "mkdir", "create"} => jobs[id].progress = 5
    /\ pc[id] \in {"start", "resolve", "locate", "open", "mkdir", "create"} \cup TorrentSteps =>
          jobs[id].bytes = 0
    /\ pc[id] = "copy" /\ jobs[id].total > 0 =>
          jobs[id].progress = ProgressAt(part[id].size, jobs[id].total)
    /\ pc[id] \in {"copy", "seal", "check", "finish"} => jobs[id].bytes = part[id].size

Rises(id) ==
    Known(id) /\ pc'[id] # "lost" =>
        jobs[id].progress <= jobs'[id].progress /\ jobs[id].bytes <= jobs'[id].bytes

\* The types of what a job's numbers depend on.
LEMMA JobTyped ==
    ASSUME IInv, NEW id \in Ids
    PROVE  /\ jobs[id] \in Jobs /\ jobs[id].progress \in 0..100 /\ jobs[id].bytes \in Nat
           /\ jobs[id].total \in Int /\ part[id].size \in Nat
<1>1. jobs[id] \in Jobs /\ part[id] \in Parts
    BY DEF IInv, TypeOK
<1>2. 0..MaxChunks \subseteq Nat
    BY BoundsAssumption
<1> QED BY <1>1, <1>2 DEF Jobs, Parts, NoTotal

\* A step that leaves the job, its part file and its worker alone.
LEMMA SameNumbers ==
    ASSUME IInv, NEW id \in Ids, Numbers(id),
           jobs'[id] = jobs[id], pc'[id] = pc[id], part'[id] = part[id]
    PROVE  Numbers(id)' /\ Rises(id)
<1>1. jobs[id].progress \in Int /\ jobs[id].bytes \in Int
    BY JobTyped
<1> QED BY <1>1 DEF Numbers, Rises, Known

\* A worker that returns with an error leaves the numbers where they were.
LEMMA FailNumbers ==
    ASSUME IInv, NEW id \in Ids, NEW msg, Fail(id, msg)
    PROVE  Numbers(id)' /\ Rises(id)
<1>0. jobs[id].progress \in Int /\ jobs[id].bytes \in Int
    BY JobTyped
<1>1. /\ jobs[id] \in Jobs /\ pc'[id] = "done" /\ jobs'[id] = Failed(jobs[id], msg)
      /\ jobs[id].progress \in Int /\ jobs[id].bytes \in Int
    BY <1>0 DEF IInv, TypeOK, Fail
<1> QED BY <1>1, UpdatesNumbers DEF Numbers, Rises, TorrentSteps

\* A job is made with both numbers at zero, and a cancel keeps them.
LEMMA NumbersHandler ==
    ASSUME IInv, NEW id \in Ids, Numbers(id), Handler(id)
    PROVE  Numbers(id)' /\ Rises(id)
<1> USE DEF locals, diskVars, replyVars
<1>0. jobs[id].progress \in Int /\ jobs[id].bytes \in Int
    BY JobTyped
<1>1. /\ jobs \in [Ids -> Jobs] /\ pc \in [Ids -> WorkerSteps \cup {"unborn", "done", "lost"}]
      /\ jobs[id].progress \in Int /\ jobs[id].bytes \in Int /\ jobs[id] \in Jobs
    BY <1>0 DEF IInv, TypeOK
<1>2. CASE Create(id)
    <2>1. ~Known(id)
        BY <1>2 DEF Create, Numbers
    <2>2. pc'[id] = "start" /\ jobs'[id].progress = 0 /\ jobs'[id].bytes = 0
        <3>1. PICK req \in Requests : jobs' = [jobs EXCEPT ![id] = QueuedJob(req)]
            BY <1>2 DEF Create
        <3>2. jobs'[id] = QueuedJob(req)
            BY <1>1, <3>1
        <3>3. pc'[id] = "start"
            BY <1>1, <1>2 DEF Create
        <3>4. QueuedJob(req).progress = 0 /\ QueuedJob(req).bytes = 0
            BY DEF QueuedJob
        <3> QED BY <3>2, <3>3, <3>4
    <2> QED BY <2>1, <2>2 DEF Numbers, Rises
<1>3. CASE Cancel(id)
    <2>1. jobs'[id] = Cancelled(jobs[id]) /\ pc'[id] = pc[id] /\ part'[id] = part[id] /\ Known(id)
        BY <1>1, <1>3 DEF Cancel
    <2>2. /\ jobs'[id].progress = jobs[id].progress /\ jobs'[id].bytes = jobs[id].bytes
          /\ jobs'[id].total = jobs[id].total
        BY <1>1, <2>1, UpdatesNumbers, UpdatesFields
    <2> QED BY <1>1, <2>1, <2>2 DEF Numbers, Rises
<1>4. CASE ReturnCreated(id) \/ AnswerCancel(id)
    BY <1>4, SameNumbers DEF ReturnCreated, AnswerCancel
<1> QED BY <1>2, <1>3, <1>4 DEF Handler

\* Every step of a worker sets the numbers its next step starts from.
LEMMA NumbersWorker ==
    ASSUME IInv, NEW id \in Ids, Numbers(id), Worker(id) \/ DownloadTorrent(id)
    PROVE  Numbers(id)' /\ Rises(id)
<1> USE DEF locals, diskVars, replyVars
<1>1. /\ jobs \in [Ids -> Jobs] /\ pc \in [Ids -> WorkerSteps \cup {"unborn", "done", "lost"}]
      /\ part \in [Ids -> Parts] /\ jobs[id].progress \in 0..100 /\ jobs[id].bytes \in Int
      /\ part[id].size \in Nat /\ jobs[id].total \in Int /\ jobs[id] \in Jobs
    BY JobTyped DEF IInv, TypeOK
<1>2. CASE BeginResolving(id)
    <2>1. pc[id] = "start" /\ pc'[id] = "resolve" /\ jobs'[id] = Resolving(jobs[id])
        BY <1>1, <1>2 DEF BeginResolving, Goto
    <2> QED BY <1>1, <2>1, UpdatesNumbers DEF Numbers, Rises, TorrentSteps
<1>3. CASE LookupProvider(id)
    <2>1. ASSUME pc[id] = "resolve", pc'[id] = "locate", jobs'[id] = Downloading(jobs[id])
          PROVE  Numbers(id)' /\ Rises(id)
        BY <1>1, <2>1, UpdatesNumbers DEF Numbers, Rises, TorrentSteps
    <2> QED BY <1>1, <1>3, <2>1, FailNumbers DEF LookupProvider
<1>4. CASE Locate(id)
    <2>1. pc[id] = "locate" /\ pc'[id] \in {"torrent", "open"} /\ jobs' = jobs
        BY <1>1, <1>4 DEF Locate
    <2> QED BY <1>1, <2>1 DEF Numbers, Rises, TorrentSteps
<1>5. CASE OpenRemote(id)
    <2>1. ASSUME pc[id] = "open", pc'[id] = "mkdir",
                 NEW t, jobs'[id] = Sized(jobs[id], t)
          PROVE  Numbers(id)' /\ Rises(id)
        BY <1>1, <2>1, UpdatesNumbers DEF Numbers, Rises, TorrentSteps
    <2> QED BY <1>1, <1>5, <2>1, FailNumbers DEF OpenRemote
<1>6. CASE MakeStaging(id)
    <2>1. ASSUME pc[id] = "mkdir", pc'[id] = "create", jobs' = jobs
          PROVE  Numbers(id)' /\ Rises(id)
        BY <1>1, <2>1 DEF Numbers, Rises, TorrentSteps
    <2> QED BY <1>1, <1>6, <2>1, FailNumbers DEF MakeStaging
<1>7. CASE CreatePart(id)
    <2>1. ASSUME pc[id] = "create", pc'[id] = "copy", jobs' = jobs, part'[id].size = 0
          PROVE  Numbers(id)' /\ Rises(id)
        <3>1. jobs[id].total > 0 => ProgressAt(0, jobs[id].total) = 5
            BY <1>1 DEF ProgressAt
        <3> QED BY <1>1, <2>1, <3>1 DEF Numbers, Rises, TorrentSteps
    <2> QED BY <1>1, <1>7, <2>1, FailNumbers DEF CreatePart
<1>8. CASE ReadChunk(id)
    <2> DEFINE n == part[id].size + 1
    <2>1. ASSUME pc[id] = "copy", pc' = pc, jobs'[id] = Copied(jobs[id], n), part'[id].size = n
          PROVE  Numbers(id)' /\ Rises(id)
        <3>1. /\ jobs'[id].bytes = n /\ jobs'[id].total = jobs[id].total
              /\ jobs'[id].progress = IF jobs[id].total > 0 THEN ProgressAt(n, jobs[id].total)
                                                            ELSE jobs[id].progress
            BY <1>1, <2>1, UpdatesNumbers, CopiedFields
        <3>2. jobs[id].total > 0 =>
                 ProgressAt(part[id].size, jobs[id].total) <= ProgressAt(n, jobs[id].total)
            BY <1>1, ProgressMonotone
        <3> QED BY <1>1, <2>1, <3>1, <3>2 DEF Numbers, Rises, TorrentSteps
    <2>2. CASE \E msg : Discard(id, msg)
        BY <2>2, FailNumbers DEF Discard
    <2> QED BY <1>1, <1>8, <2>1, <2>2 DEF ReadChunk, Parts
<1>9. CASE ReadEnd(id) \/ SealPart(id) \/ CheckPart(id)
    <2>1. ASSUME pc[id] \in {"copy", "seal", "check"}, pc'[id] \in {"seal", "check", "finish"},
                 jobs' = jobs, part' = part
          PROVE  Numbers(id)' /\ Rises(id)
        BY <1>1, <2>1 DEF Numbers, Rises, TorrentSteps
    <2>2. CASE \E msg : Discard(id, msg)
        BY <2>2, FailNumbers DEF Discard
    <2> QED BY <1>1, <1>9, <2>1, <2>2 DEF ReadEnd, SealPart, CheckPart
<1>10. CASE Finish(id) \/ FinishTorrent(id)
    <2>1. /\ pc[id] \in {"finish", "tfinish"} /\ pc'[id] \in {"publish", "done"}
          /\ jobs'[id] = Completed(jobs[id], part[id].size)
        BY <1>1, <1>10 DEF Finish, FinishTorrent, Goto, IInv, JobInv, FetchedMet
    <2>2. jobs'[id].progress = 100 /\ jobs'[id].bytes = part[id].size
        BY <1>1, <2>1, UpdatesNumbers
    <2> QED BY <1>1, <2>1, <2>2 DEF Numbers, Rises, TorrentSteps
<1>11. CASE Publish(id)
    <2>1. pc'[id] = "done" /\ jobs' = jobs
        BY <1>1, <1>11 DEF Publish, Goto
    <2> QED BY <1>1, <2>1 DEF Numbers, Rises, TorrentSteps
<1>12. CASE PrepareTorrent(id) \/ DownloadTorrent(id) \/ CreateTorrentPart(id)
            \/ CopyTorrent(id) \/ CheckTorrentPart(id)
    <2>1. ASSUME pc[id] \in TorrentSteps, pc'[id] \in TorrentSteps, jobs' = jobs
          PROVE  Numbers(id)' /\ Rises(id)
        BY <1>1, <2>1 DEF Numbers, Rises, TorrentSteps
    <2>2. CASE \E msg : Fail(id, msg)
        BY <2>2, FailNumbers
    <2> QED BY <1>1, <1>12, <2>1, <2>2
            DEF PrepareTorrent, DownloadTorrent, CreateTorrentPart, CopyTorrent,
                CheckTorrentPart, Discard, TorrentSteps
<1> QED BY <1>2, <1>3, <1>4, <1>5, <1>6, <1>7, <1>8, <1>9, <1>10, <1>11, <1>12
        DEF Worker, HttpWorker, TorrentWorker

\* A step is that of one job.
LEMMA OthersKeepNumbers ==
    ASSUME IInv, NEW o \in Ids, Handler(o) \/ Worker(o) \/ DownloadTorrent(o), NEW id \in Ids \ {o}
    PROVE  jobs'[id] = jobs[id] /\ pc'[id] = pc[id] /\ part'[id] = part[id]
<1> USE DEF locals, diskVars, replyVars
<1>1. /\ jobs \in [Ids -> Jobs] /\ pc \in [Ids -> WorkerSteps \cup {"unborn", "done", "lost"}]
      /\ part \in [Ids -> Parts]
    BY DEF IInv, TypeOK
<1>2. CASE Handler(o)
    BY <1>1, <1>2 DEF Handler, Create, ReturnCreated, Cancel, AnswerCancel
<1>3. CASE Worker(o) \/ DownloadTorrent(o)
    <2> USE <1>1 DEF Goto, Fail, Discard
    <2>1. CASE BeginResolving(o) \/ LookupProvider(o) \/ Locate(o)
        BY <2>1 DEF BeginResolving, LookupProvider, Locate
    <2>2. CASE OpenRemote(o) \/ MakeStaging(o) \/ CreatePart(o) \/ ReadChunk(o)
        BY <2>2 DEF OpenRemote, MakeStaging, CreatePart, ReadChunk
    <2>3. CASE ReadEnd(o) \/ SealPart(o) \/ CheckPart(o) \/ Finish(o) \/ Publish(o)
        BY <2>3 DEF ReadEnd, SealPart, CheckPart, Finish, Publish
    <2>4. CASE PrepareTorrent(o) \/ DownloadTorrent(o) \/ CreateTorrentPart(o)
        BY <2>4 DEF PrepareTorrent, DownloadTorrent, CreateTorrentPart
    <2>5. CASE CopyTorrent(o) \/ CheckTorrentPart(o) \/ FinishTorrent(o)
        BY <2>5 DEF CopyTorrent, CheckTorrentPart, FinishTorrent
    <2> QED BY <1>3, <2>1, <2>2, <2>3, <2>4, <2>5 DEF Worker, HttpWorker, TorrentWorker
<1> QED BY <1>2, <1>3

AllNumbers == \A id \in Ids : Numbers(id)

\* Every step keeps the numbers in place and lets none of them fall.
LEMMA NumbersStep ==
    ASSUME IInv, AllNumbers, [Next]_vars
    PROVE  \A id \in Ids : Numbers(id)' /\ Rises(id)
<1> SUFFICES ASSUME NEW id \in Ids PROVE Numbers(id)' /\ Rises(id)
    OBVIOUS
<1>1. Numbers(id)
    BY DEF AllNumbers
<1>2. ASSUME NEW o \in Ids, Handler(o) \/ Worker(o) \/ DownloadTorrent(o)
      PROVE  Numbers(id)' /\ Rises(id)
    <2>1. CASE o = id
        BY <1>1, <1>2, <2>1, NumbersHandler, NumbersWorker
    <2>2. CASE o # id
        BY <1>1, <1>2, <2>2, OthersKeepNumbers, SameNumbers
    <2> QED BY <2>1, <2>2
<1>3. ASSUME NEW r \in Readers, Stream(r)
      PROVE  Numbers(id)' /\ Rises(id)
    <2>1. jobs' = jobs /\ pc' = pc /\ part' = part
        BY <1>3 DEF Stream, BeginStream, StreamChunk, EndStream, AbortStream, CloseHandle, diskVars
    <2> QED BY <1>1, <2>1, SameNumbers
<1>4. CASE Crash
    <2>1. pc'[id] \in {"unborn", "lost"} /\ jobs'[id] = NoJob
        BY <1>4 DEF Crash
    <2>2. pc'[id] = "unborn" => ~Known(id)
        BY <1>1, <1>4 DEF Crash, Numbers
    <2>3. ~Known(id)'
        BY <2>1, NoJob.status = "unknown" DEF Known, NoJob
    <2>4. Numbers(id)'
        BY <2>1, <2>3 DEF Numbers, TorrentSteps
    <2> QED BY <2>1, <2>2, <2>4 DEF Rises
<1>5. CASE UNCHANGED vars
    BY <1>1, <1>5, SameNumbers DEF vars, locals, diskVars
<1> QED BY <1>2, <1>3, <1>4, <1>5 DEF Next

\* While the process lives no poller sees the progress or the bytes of a job
\* go back, whatever Content-Length the copy is measured against.
THEOREM ProgressOnlyRises == Spec => ProgressNeverFalls
<1>1. Init => AllNumbers
    <2> SUFFICES ASSUME Init, NEW id \in Ids PROVE Numbers(id)
        BY DEF AllNumbers
    <2>1. pc[id] = "unborn" /\ jobs[id].status = "unknown"
        BY NoJob.status = "unknown" DEF Init, NoJob
    <2> QED BY <2>1 DEF Numbers, Known, TorrentSteps
<1>2. IInv /\ AllNumbers /\ [Next]_vars => AllNumbers'
    BY NumbersStep DEF AllNumbers
<1>3. IInv /\ AllNumbers /\ [Next]_vars =>
         \A id \in Ids : Known(id) /\ pc'[id] # "lost" =>
            /\ jobs[id].progress <= jobs'[id].progress
            /\ jobs[id].bytes <= jobs'[id].bytes
    BY NumbersStep DEF Rises
<1> QED BY <1>1, <1>2, <1>3, Invariance, PTL DEF Spec, ProgressNeverFalls
-----------------------------------------------------------------------------
(* The worker does not go on for ever. *)

\* The stages a worker that stands at p has ahead of it, by the longer way.
Stages(p) ==
    CASE p = "start"    -> 11
      [] p = "resolve"  -> 10
      [] p = "locate"   -> 9
      [] p = "open"     -> 8
      [] p = "mkdir"    -> 7
      [] p \in {"create", "torrent"}  -> 6
      [] p \in {"copy", "download"}   -> 5
      [] p \in {"seal", "tcreate"}    -> 4
      [] p \in {"check", "tcopy"}     -> 3
      [] p \in {"finish", "tcheck"}   -> 2
      [] p \in {"publish", "tfinish"} -> 1
      [] OTHER -> 0

\* And the chunks that the copy loop of run may still read.
Left(id) ==
    Stages(pc[id]) + (CASE pc[id] \in {"start", "resolve", "locate", "open", "mkdir", "create"} -> MaxChunks
                        [] pc[id] = "copy" -> MaxChunks - part[id].size
                        [] OTHER -> 0)

\* Every step of a worker leaves less to do for it, and nobody else's step
\* leaves more: no cancel, request or failure of another job sends it back.
WorkAdvances ==
    [][\A id \in Ids : pc[id] # "unborn" =>
          /\ Left(id)' <= Left(id)
          /\ Worker(id) \/ DownloadTorrent(id) => Left(id)' < Left(id)]_vars

\* What is left is a natural number.
LEMMA LeftIsNatural == ASSUME ITypes, NEW id \in Ids PROVE Left(id) \in Nat
<1>1. part[id].size \in 0..MaxChunks
    BY DEF ITypes, TypeOK, Parts
<1>2. Stages(pc[id]) \in Nat
    BY DEF Stages
<1>. QED BY <1>1, <1>2, BoundsAssumption DEF Left

\* A step that leaves a worker and its part file alone leaves it as much to do.
LEMMA SameLeft ==
    ASSUME NEW id \in Ids, pc'[id] = pc[id], part'[id] = part[id]
    PROVE  Left(id)' = Left(id)
BY DEF Left

\* A step of a worker leaves less for it, and does not touch another.
LEMMA WorkerLowers ==
    ASSUME ITypes, ITypes', NEW id \in Ids, Worker(id) \/ DownloadTorrent(id)
    PROVE  /\ Left(id)' < Left(id)
           /\ \A o \in Ids : o # id => pc'[o] = pc[o] /\ part'[o] = part[o]
<1> USE BoundsAssumption DEF locals, diskVars, replyVars
<1>a. /\ pc \in [Ids -> WorkerSteps \cup {"unborn", "done", "lost"}] /\ part \in [Ids -> Parts]
      /\ part[id].size \in 0..MaxChunks /\ part'[id].size \in 0..MaxChunks
    BY DEF ITypes, TypeOK, Parts
<1> USE <1>a
<1>1. CASE BeginResolving(id) \/ LookupProvider(id) \/ Locate(id)
    <2>1. /\ pc[id] \in {"start", "resolve", "locate"} /\ UNCHANGED part
          /\ pc' = [pc EXCEPT ![id] = pc'[id]]
          /\ \/ pc[id] = "start" /\ pc'[id] = "resolve"
             \/ pc[id] = "resolve" /\ pc'[id] \in {"locate", "done"}
             \/ pc[id] = "locate" /\ pc'[id] \in {"torrent", "open"}
        BY <1>1 DEF BeginResolving, LookupProvider, Locate, Goto, Fail
    <2>. QED BY <2>1 DEF Left, Stages
<1>2. CASE OpenRemote(id) \/ MakeStaging(id)
    <2>1. /\ UNCHANGED part /\ pc' = [pc EXCEPT ![id] = pc'[id]]
          /\ \/ pc[id] = "open" /\ pc'[id] \in {"mkdir", "done"}
             \/ pc[id] = "mkdir" /\ pc'[id] \in {"create", "done"}
        BY <1>2 DEF OpenRemote, MakeStaging, Fail
    <2>. QED BY <2>1 DEF Left, Stages
<1>3. CASE CreatePart(id)
    <2>1. /\ pc[id] = "create" /\ pc'[id] \in {"copy", "done"} /\ pc' = [pc EXCEPT ![id] = pc'[id]]
          /\ part' = [part EXCEPT ![id] = part'[id]]
        BY <1>3 DEF CreatePart, Fail
    <2>. QED BY <2>1 DEF Left, Stages
<1>4. CASE ReadChunk(id)
    <2>1. /\ pc[id] = "copy" /\ part' = [part EXCEPT ![id] = part'[id]]
          /\ pc' = [pc EXCEPT ![id] = pc'[id]]
          /\ \/ pc'[id] = "done"
             \/ pc'[id] = "copy" /\ part'[id].size = part[id].size + 1
        BY <1>4 DEF ReadChunk, Discard, Fail, Parts
    <2>. QED BY <2>1 DEF Left, Stages
<1>5. CASE ReadEnd(id) \/ SealPart(id) \/ CheckPart(id) \/ Finish(id) \/ Publish(id)
    <2>1. /\ part' = [part EXCEPT ![id] = part'[id]] /\ pc' = [pc EXCEPT ![id] = pc'[id]]
          /\ \/ pc[id] = "copy" /\ pc'[id] \in {"seal", "done"}
             \/ pc[id] = "seal" /\ pc'[id] \in {"check", "done"}
             \/ pc[id] = "check" /\ pc'[id] \in {"finish", "done"}
             \/ pc[id] = "finish" /\ pc'[id] = "publish"
             \/ pc[id] = "publish" /\ pc'[id] = "done"
        BY <1>5 DEF ReadEnd, SealPart, CheckPart, Finish, Publish, Goto, Discard, Fail
    <2>. QED BY <2>1 DEF Left, Stages
<1>6. CASE PrepareTorrent(id) \/ DownloadTorrent(id) \/ CreateTorrentPart(id)
    <2>1. /\ part' = [part EXCEPT ![id] = part'[id]] /\ pc' = [pc EXCEPT ![id] = pc'[id]]
          /\ \/ pc[id] = "torrent" /\ pc'[id] \in {"download", "done"}
             \/ pc[id] = "download" /\ pc'[id] \in {"tcreate", "done"}
             \/ pc[id] = "tcreate" /\ pc'[id] \in {"tcopy", "done"}
        BY <1>6 DEF PrepareTorrent, DownloadTorrent, CreateTorrentPart, Fail
    <2>. QED BY <2>1 DEF Left, Stages
<1>7. CASE CopyTorrent(id) \/ CheckTorrentPart(id) \/ FinishTorrent(id)
    <2>1. /\ part' = [part EXCEPT ![id] = part'[id]] /\ pc' = [pc EXCEPT ![id] = pc'[id]]
          /\ \/ pc[id] = "tcopy" /\ pc'[id] \in {"tcheck", "done"}
             \/ pc[id] = "tcheck" /\ pc'[id] \in {"tfinish", "done"}
             \/ pc[id] = "tfinish" /\ pc'[id] = "done"
        BY <1>7 DEF CopyTorrent, CheckTorrentPart, FinishTorrent, Goto, Discard, Fail
    <2>. QED BY <2>1 DEF Left, Stages
<1>. QED
    BY <1>1, <1>2, <1>3, <1>4, <1>5, <1>6, <1>7 DEF Worker, HttpWorker, TorrentWorker

\* A worker comes to its end in a bounded number of its own steps, whatever
\* clients, readers and other workers do meanwhile, for any number of jobs.
THEOREM WorkersAdvance == Spec => WorkAdvances /\ [](\A id \in Ids : Left(id) \in Nat)
<1>1. ASSUME ITypes, ITypes', [Next]_vars, NEW id \in Ids, pc[id] # "unborn"
      PROVE  /\ Left(id)' <= Left(id)
             /\ Worker(id) \/ DownloadTorrent(id) => Left(id)' < Left(id)
    <2>a. pc \in [Ids -> WorkerSteps \cup {"unborn", "done", "lost"}] /\ Left(id) \in Nat
        BY <1>1, LeftIsNatural DEF ITypes, TypeOK
    <2>b. Left(id)' \in Int
        <3>1. part'[id].size \in Int /\ MaxChunks \in Int
            BY <1>1, BoundsAssumption DEF ITypes, TypeOK, Parts
        <3>2. Stages(pc'[id]) \in Int
            BY DEF Stages
        <3>. QED BY <3>1, <3>2 DEF Left
    <2>1. CASE Worker(id) \/ DownloadTorrent(id)
        BY <1>1, <2>1, <2>a, <2>b, WorkerLowers
    <2>2. CASE ~(Worker(id) \/ DownloadTorrent(id))
        <3>1. ASSUME NEW o \in Ids, Handler(o) PROVE Left(id)' = Left(id)
            <4>1. pc'[id] = pc[id] /\ part'[id] = part[id]
                BY <1>1, <2>a, <3>1 DEF Handler, Create, ReturnCreated, Cancel, AnswerCancel, diskVars
            <4>. QED BY <4>1, SameLeft
        <3>2. ASSUME NEW o \in Ids, Worker(o) \/ DownloadTorrent(o) PROVE Left(id)' = Left(id)
            <4>1. o # id
                BY <2>2, <3>2
            <4>2. pc'[id] = pc[id] /\ part'[id] = part[id]
                BY <1>1, <3>2, <4>1, WorkerLowers
            <4>. QED BY <4>2, SameLeft
        <3>3. ASSUME NEW r \in Readers, Stream(r) PROVE Left(id)' = Left(id)
            <4>1. pc'[id] = pc[id] /\ part'[id] = part[id]
                BY <3>3 DEF Stream, BeginStream, StreamChunk, EndStream, AbortStream, CloseHandle, diskVars
            <4>. QED BY <4>1, SameLeft
        <3>4. CASE Crash
            <4>1. pc'[id] = "lost"
                BY <1>1, <3>4 DEF Crash
            <4>2. Left(id)' = 0
                BY <4>1 DEF Left, Stages
            <4>. QED BY <2>2, <2>a, <4>2
        <3>5. CASE UNCHANGED vars
            <4>1. pc'[id] = pc[id] /\ part'[id] = part[id]
                BY <3>5 DEF vars, locals, diskVars
            <4>. QED BY <2>2, <2>a, <4>1, SameLeft
        <3>. QED BY <1>1, <2>2, <2>a, <3>1, <3>2, <3>3, <3>4, <3>5 DEF Next
    <2>. QED BY <2>1, <2>2
<1>2. ITypes => \A id \in Ids : Left(id) \in Nat
    BY LeftIsNatural
<1>3. ITypes /\ ITypes' /\ [Next]_vars =>
          [\A id \in Ids : pc[id] # "unborn" =>
              /\ Left(id)' <= Left(id)
              /\ Worker(id) \/ DownloadTorrent(id) => Left(id)' < Left(id)]_vars
    BY <1>1
<1>. QED BY <1>2, <1>3, TypesInit, TypesStep, PTL DEF Spec, WorkAdvances

-----------------------------------------------------------------------------
(* The manager implements AcquisitionLifecycle.  A step is that of one job,  *)
(* or of none: SeesOthers says that a client sees nothing new of the others, *)
(* and OneChange makes of what it sees of the one the next values of the     *)
(* three abstract variables.                                                 *)

phaseView    == [id \in Ids |-> PhaseOf(id)]
shownView    == [id \in Ids |-> jobs[id].status]
readableView == {id \in Ids : files[id].state # "none"}

\* A job that was never made, or that a restart forgot, is not shown.
Unseen == \A id \in Ids : pc[id] \in {"unborn", "lost"} => jobs[id] = NoJob

RefineInv == IInv /\ Unseen

\* What a client sees of o stays as it is.
Same(o) ==
    PhaseOf(o)' = PhaseOf(o) /\ jobs'[o].status = jobs[o].status
        /\ (files'[o].state = "none" <=> files[o].state = "none")

SeesOthers(id) == \A o \in Ids \ {id} : Same(o)

-----------------------------------------------------------------------------
\* What is untouched looks the same.
LEMMA UntouchedIsSame ==
    ASSUME NEW o \in Ids, pc'[o] = pc[o], jobs'[o] = jobs[o], files'[o].state = files[o].state
    PROVE  Same(o)
BY DEF Same, PhaseOf

\* The abstract variables after a step of one job.
LEMMA OneChange ==
    ASSUME NEW id \in Ids, SeesOthers(id)
    PROVE  /\ phaseView' = [phaseView EXCEPT ![id] = PhaseOf(id)']
           /\ shownView' = [shownView EXCEPT ![id] = jobs'[id].status]
           /\ readableView' \ {id} = readableView \ {id}
BY DEF SeesOthers, Same, phaseView, shownView, readableView

\* A job nobody made is shown to nobody.
LEMMA NoJobUnknown == NoJob.status = "unknown"
BY DEF NoJob

\* A job that was made and not forgotten is in a phase of the work.
LEMMA ShownPhases ==
    ASSUME NEW id \in Ids, pc[id] # "unborn", pc[id] # "lost"
    PROVE  PhaseOf(id) \notin {"none", "gone"}
<1>1. CASE pc[id] = "start"
    BY <1>1 DEF PhaseOf
<1>2. CASE pc[id] = "resolve"
    BY <1>2 DEF PhaseOf
<1>3. CASE pc[id] = "publish"
    BY <1>3 DEF PhaseOf
<1>4. CASE pc[id] = "done"
    BY <1>4 DEF PhaseOf
<1>5. CASE pc[id] \notin {"start", "resolve", "publish", "done"}
    <2>1. PhaseOf(id) = "downloading"
        BY <1>5 DEF PhaseOf
    <2>. QED BY <2>1
<1>. QED BY <1>1, <1>2, <1>3, <1>4, <1>5

\* A step that shows nothing new of any job.
LEMMA NothingSeen ==
    ASSUME \A o \in Ids : Same(o)
    PROVE  UNCHANGED Lifecycle!vars
<1>1. phaseView' = phaseView /\ shownView' = shownView /\ readableView' = readableView
    BY DEF Same, phaseView, shownView, readableView
<1>. QED BY <1>1 DEF Lifecycle!vars, phaseView, shownView, readableView

\* A step of the work that shows its own phase.
LEMMA AdvanceSeen ==
    ASSUME NEW id \in Ids, SeesOthers(id), NEW from, NEW to,
           PhaseOf(id) = from, PhaseOf(id)' = to, jobs'[id].status = to,
           files'[id].state = "none" <=> files[id].state = "none",
           from \in {"queued", "resolving", "downloading"}, to \in Lifecycle!Successors[from]
    PROVE  Lifecycle!Advance(id)
<1>1. /\ phaseView' = [phaseView EXCEPT ![id] = to] /\ shownView' = [shownView EXCEPT ![id] = to]
      /\ readableView' = readableView
    BY OneChange DEF readableView
<1>2. phaseView[id] = from
    BY DEF phaseView
<1>3. DOMAIN Lifecycle!Successors = {"queued", "resolving", "downloading"}
    BY DEF Lifecycle!Successors
<1>. QED BY <1>1, <1>2, <1>3 DEF Lifecycle!Advance, phaseView, shownView, readableView

-----------------------------------------------------------------------------
\* Create begins an abstract acquisition, Cancel marks it, an answer is a stutter.
LEMMA HandlerRefines ==
    ASSUME RefineInv, NEW id \in Ids, Handler(id)
    PROVE  Lifecycle!Next \/ UNCHANGED Lifecycle!vars
<1> USE DEF RefineInv, IInv, TypeOK, locals, diskVars, replyVars
<1>1. CASE Create(id)
    <2>1. PICK req \in Requests : jobs' = [jobs EXCEPT ![id] = QueuedJob(req)]
        BY <1>1 DEF Create
    <2>2. SeesOthers(id)
        BY <1>1, <2>1, UntouchedIsSame DEF Create, SeesOthers
    <2>3. PhaseOf(id) = "none" /\ PhaseOf(id)' = "queued"
        BY <1>1 DEF Create, PhaseOf
    <2>4. jobs'[id].status = "queued" /\ files' = files
        BY <1>1, <2>1 DEF QueuedJob, Create
    <2>5. Lifecycle!Submit(id)
        <3>1. /\ phaseView' = [phaseView EXCEPT ![id] = "queued"]
              /\ shownView' = [shownView EXCEPT ![id] = "queued"] /\ readableView' = readableView
            BY <2>2, <2>3, <2>4, OneChange DEF readableView
        <3>. QED BY <2>3, <3>1 DEF Lifecycle!Submit, phaseView, shownView, readableView
    <2>. QED BY <2>5 DEF Lifecycle!Next
<1>2. CASE ReturnCreated(id) \/ AnswerCancel(id)
    BY <1>2, UntouchedIsSame, NothingSeen DEF ReturnCreated, AnswerCancel
<1>3. CASE Cancel(id)
    <2>1. jobs' = [jobs EXCEPT ![id] = Cancelled(jobs[id])] /\ UNCHANGED <<pc, files>>
        BY <1>3 DEF Cancel
    <2>2. jobs'[id].status = "cancelled" /\ jobs'[id].error = jobs[id].error
        BY <2>1, UpdatesFields
    <2>3. SeesOthers(id) /\ PhaseOf(id)' = PhaseOf(id)
        BY <2>1, <2>2, UntouchedIsSame DEF SeesOthers, PhaseOf
    <2>4. PhaseOf(id) \notin {"none", "gone"}
        <3>1. pc[id] # "unborn" /\ pc[id] # "lost"
            BY <1>3, NoJobUnknown DEF Cancel, Known, Unseen
        <3>. QED BY <3>1, ShownPhases
    <2>5. Lifecycle!Mark(id)
        <3>1. phaseView' = phaseView /\ readableView' = readableView
            BY <2>1, <2>3 DEF SeesOthers, Same, phaseView, readableView
        <3>2. shownView' = [shownView EXCEPT ![id] = "cancelled"]
            BY <2>2, <2>3, OneChange
        <3>. QED BY <2>4, <3>1, <3>2 DEF Lifecycle!Mark, phaseView, shownView, readableView
    <2>. QED BY <2>5 DEF Lifecycle!Next
<1>. QED BY <1>1, <1>2, <1>3 DEF Handler

\* The steps that are visible as a phase of their own, up to a failure.
LEMMA CommonWorkerRefines ==
    ASSUME RefineInv, NEW id \in Ids, BeginResolving(id) \/ LookupProvider(id) \/ Locate(id)
    PROVE  Lifecycle!Next \/ UNCHANGED Lifecycle!vars
<1> USE DEF RefineInv, IInv, TypeOK, locals, diskVars, replyVars, Goto
<1>1. jobs[id] \in Jobs
    OBVIOUS
<1>2. SeesOthers(id)
    BY UntouchedIsSame DEF BeginResolving, LookupProvider, Locate, Fail, SeesOthers
<1>3. Lifecycle!Successors["queued"] = {"resolving"}
      /\ Lifecycle!Successors["resolving"] = {"downloading", "failed"}
    BY DEF Lifecycle!Successors
<1>4. CASE BeginResolving(id)
    <2>1. PhaseOf(id) = "queued" /\ PhaseOf(id)' = "resolving"
        BY <1>4 DEF BeginResolving, PhaseOf
    <2>2. jobs'[id].status = "resolving" /\ files' = files
        BY <1>1, <1>4, UpdatesFields DEF BeginResolving
    <2>3. Lifecycle!Advance(id)
        BY <1>2, <1>3, <2>1, <2>2, AdvanceSeen
    <2>. QED BY <2>3 DEF Lifecycle!Next
<1>5. CASE LookupProvider(id)
    <2>1. PhaseOf(id) = "resolving" /\ files' = files
        BY <1>5 DEF LookupProvider, PhaseOf
    <2>2. CASE Fail(id, "provider")
        <3>1. jobs'[id].status = "failed" /\ jobs'[id].error = "provider" /\ pc'[id] = "done"
            BY <1>1, <2>2, UpdatesFields DEF Fail
        <3>2. PhaseOf(id)' = "failed"
            BY <3>1 DEF PhaseOf
        <3>3. Lifecycle!Advance(id)
            BY <1>2, <1>3, <2>1, <3>1, <3>2, AdvanceSeen
        <3>. QED BY <3>3 DEF Lifecycle!Next
    <2>3. CASE jobs' = [jobs EXCEPT ![id] = Downloading(@)] /\ pc' = [pc EXCEPT ![id] = "locate"]
        <3>1. jobs'[id].status = "downloading" /\ PhaseOf(id)' = "downloading"
            BY <1>1, <2>3, UpdatesFields DEF PhaseOf
        <3>2. Lifecycle!Advance(id)
            BY <1>2, <1>3, <2>1, <3>1, AdvanceSeen
        <3>. QED BY <3>2 DEF Lifecycle!Next
    <2>. QED BY <1>5, <2>2, <2>3 DEF LookupProvider
<1>6. CASE Locate(id)
    <2>1. Same(id)
        BY <1>6 DEF Locate, Same, PhaseOf
    <2>. QED BY <1>2, <2>1, NothingSeen DEF SeesOthers
<1>. QED BY <1>4, <1>5, <1>6

\* Both routes fail in the same way.
LEMMA FailRefines ==
    ASSUME RefineInv, NEW id \in Ids, NEW msg \in Errors \ {""}, Fail(id, msg),
           PhaseOf(id) = "downloading", files' = files
    PROVE  Lifecycle!Next
<1>1. jobs[id] \in Jobs /\ jobs \in [Ids -> Jobs] /\ pc \in [Ids -> WorkerSteps \cup {"unborn", "done", "lost"}]
    BY DEF RefineInv, IInv, TypeOK
<1>2. SeesOthers(id)
    BY <1>1, UntouchedIsSame DEF Fail, SeesOthers
<1>3. jobs'[id].status = "failed" /\ jobs'[id].error = msg /\ pc'[id] = "done"
    <2>1. jobs'[id] = Failed(jobs[id], msg) /\ pc'[id] = "done"
        BY <1>1 DEF Fail
    <2>2. Failed(jobs[id], msg).status = "failed" /\ Failed(jobs[id], msg).error = msg
        BY <1>1 DEF Failed, Jobs
    <2>. QED BY <2>1, <2>2
<1>4. PhaseOf(id)' = "failed"
    BY <1>3 DEF PhaseOf
<1>5. "failed" \in Lifecycle!Successors["downloading"]
    BY DEF Lifecycle!Successors
<1>6. Lifecycle!Advance(id)
    BY <1>2, <1>3, <1>4, <1>5, AdvanceSeen
<1>. QED BY <1>6 DEF Lifecycle!Next

\* Staging is one phase: its steps fail, or show nothing new.
LEMMA StagingRefines ==
    ASSUME RefineInv, NEW id \in Ids,
           \/ OpenRemote(id) \/ MakeStaging(id) \/ CreatePart(id) \/ ReadChunk(id)
           \/ ReadEnd(id) \/ SealPart(id) \/ CheckPart(id)
           \/ PrepareTorrent(id) \/ DownloadTorrent(id) \/ CreateTorrentPart(id)
           \/ CopyTorrent(id) \/ CheckTorrentPart(id)
    PROVE  Lifecycle!Next \/ UNCHANGED Lifecycle!vars
<1>1. jobs \in [Ids -> Jobs] /\ pc \in [Ids -> WorkerSteps \cup {"unborn", "done", "lost"}] /\ jobs[id] \in Jobs
    BY DEF RefineInv, IInv, TypeOK
<1>2. PhaseOf(id) = "downloading" /\ files' = files
    BY DEF OpenRemote, MakeStaging, CreatePart, ReadChunk, ReadEnd, SealPart, CheckPart, PrepareTorrent,
           DownloadTorrent, CreateTorrentPart, CopyTorrent, CheckTorrentPart, PhaseOf, diskVars
<1>3. \/ \E msg \in Errors \ {""} : Fail(id, msg)
      \/ /\ \/ pc' = pc
            \/ pc' = [pc EXCEPT ![id] = pc'[id]] /\ pc'[id] \in (HttpSteps \cup TorrentSteps)
         /\ \/ jobs' = jobs
            \/ \E t : jobs' = [jobs EXCEPT ![id] = Sized(@, t)]
            \/ \E n : jobs' = [jobs EXCEPT ![id] = Copied(@, n)]
    <2> USE <1>1 DEF Discard, Errors, HttpSteps, TorrentSteps
    <2>1. CASE OpenRemote(id) \/ MakeStaging(id) \/ CreatePart(id)
        BY <2>1 DEF OpenRemote, MakeStaging, CreatePart
    <2>2. CASE ReadChunk(id)
        BY <2>2 DEF ReadChunk
    <2>3. CASE ReadEnd(id) \/ SealPart(id) \/ CheckPart(id)
        BY <2>3 DEF ReadEnd, SealPart, CheckPart
    <2>4. CASE PrepareTorrent(id) \/ DownloadTorrent(id) \/ CreateTorrentPart(id)
        BY <2>4 DEF PrepareTorrent, DownloadTorrent, CreateTorrentPart
    <2>5. CASE CopyTorrent(id) \/ CheckTorrentPart(id)
        BY <2>5 DEF CopyTorrent, CheckTorrentPart
    <2>. QED BY <2>1, <2>2, <2>3, <2>4, <2>5
<1>4. ASSUME \/ pc' = pc
             \/ pc' = [pc EXCEPT ![id] = pc'[id]] /\ pc'[id] \in (HttpSteps \cup TorrentSteps),
             \/ jobs' = jobs
             \/ \E t : jobs' = [jobs EXCEPT ![id] = Sized(@, t)]
             \/ \E n : jobs' = [jobs EXCEPT ![id] = Copied(@, n)]
      PROVE  UNCHANGED Lifecycle!vars
    <2>1. SeesOthers(id)
        BY <1>1, <1>2, <1>4, UntouchedIsSame DEF SeesOthers
    <2>2. jobs'[id].status = jobs[id].status
        <3>1. \A t : Sized(jobs[id], t).status = jobs[id].status
            BY <1>1, UpdatesFields
        <3>2. \A n : Copied(jobs[id], n).status = jobs[id].status
            BY <1>1 DEF Copied, Jobs
        <3>. QED BY <1>1, <1>4, <3>1, <3>2
    <2>3. PhaseOf(id)' = "downloading"
        <3>1. pc[id] \notin {"unborn", "start", "resolve", "publish", "lost", "done"}
            BY <1>2 DEF PhaseOf
        <3>2. pc'[id] \notin {"unborn", "start", "resolve", "publish", "lost", "done"}
            BY <1>4, <3>1 DEF HttpSteps, TorrentSteps
        <3>. QED BY <3>2 DEF PhaseOf
    <2>. QED BY <1>2, <2>1, <2>2, <2>3, NothingSeen DEF SeesOthers, Same
<1>. QED BY <1>2, <1>3, <1>4, FailRefines

\* The end of both routes: the job completes and its file is offered, or not.
LEMMA EndingRefines ==
    ASSUME RefineInv, NEW id \in Ids, Finish(id) \/ Publish(id) \/ FinishTorrent(id)
    PROVE  Lifecycle!Next
<1> USE DEF Goto, locals, diskVars, replyVars
<1>1. /\ jobs \in [Ids -> Jobs] /\ pc \in [Ids -> WorkerSteps \cup {"unborn", "done", "lost"}]
      /\ jobs[id] \in Jobs /\ files \in [Ids -> Handles]
    BY DEF RefineInv, IInv, TypeOK
<1>2. SeesOthers(id)
    BY <1>1, UntouchedIsSame DEF Finish, Publish, FinishTorrent, OpenHandle, SeesOthers
<1>3. jobs[id].error = ""
    BY DEF RefineInv, IInv, JobInv, Concluded, Finish, Publish, FinishTorrent
<1>4. ASSUME OpenHandle(id)
      PROVE  readableView' \in {readableView, readableView \cup {id}}
    BY <1>1, <1>4 DEF OpenHandle, readableView
<1>5. CASE Finish(id)
    <2>1. PhaseOf(id) = "downloading" /\ PhaseOf(id)' = "completed"
        BY <1>1, <1>5 DEF Finish, PhaseOf
    <2>2. jobs'[id].status = "completed" /\ files' = files
        BY <1>1, <1>5, UpdatesFields DEF Finish
    <2>3. "completed" \in Lifecycle!Successors["downloading"]
        BY DEF Lifecycle!Successors
    <2>4. Lifecycle!Advance(id)
        BY <1>2, <2>1, <2>2, <2>3, AdvanceSeen
    <2>. QED BY <2>4 DEF Lifecycle!Next
<1>6. CASE Publish(id)
    <2>1. PhaseOf(id) = "completed" /\ PhaseOf(id)' = "closed" /\ jobs' = jobs
        BY <1>1, <1>3, <1>6 DEF Publish, PhaseOf
    <2>2. phaseView' = [phaseView EXCEPT ![id] = "closed"]
        BY <1>2, <2>1, OneChange
    <2>3. shownView' = shownView
        BY <2>1 DEF shownView
    <2>4. readableView' \in {readableView, readableView \cup {id}}
        BY <1>4, <1>6 DEF Publish
    <2>5. Lifecycle!Close(id)
        BY <2>1, <2>2, <2>3, <2>4 DEF Lifecycle!Close, phaseView, shownView, readableView
    <2>. QED BY <2>5 DEF Lifecycle!Next
<1>7. CASE FinishTorrent(id)
    <2>1. jobs'[id].status = "completed" /\ jobs'[id].error = "" /\ pc'[id] = "done"
        <3>1. jobs'[id] = Completed(jobs[id], fetched[id]) /\ pc'[id] = "done"
            BY <1>1, <1>7 DEF FinishTorrent
        <3>2. /\ Completed(jobs[id], fetched[id]).status = "completed"
              /\ Completed(jobs[id], fetched[id]).error = jobs[id].error
            BY <1>1 DEF Completed, Jobs
        <3>. QED BY <1>3, <3>1, <3>2
    <2>2. PhaseOf(id) = "downloading" /\ PhaseOf(id)' = "closed"
        BY <1>7, <2>1 DEF FinishTorrent, PhaseOf
    <2>3. /\ phaseView' = [phaseView EXCEPT ![id] = "closed"]
          /\ shownView' = [shownView EXCEPT ![id] = "completed"]
        BY <1>2, <2>1, <2>2, OneChange
    <2>4. readableView' \in {readableView, readableView \cup {id}}
        BY <1>4, <1>7 DEF FinishTorrent
    <2>5. Lifecycle!CompleteAndClose(id)
        BY <2>2, <2>3, <2>4 DEF Lifecycle!CompleteAndClose, phaseView, shownView, readableView
    <2>. QED BY <2>5 DEF Lifecycle!Next
<1>. QED BY <1>5, <1>6, <1>7

\* File requests move and close handles, but make and remove none.
LEMMA StreamRefines ==
    ASSUME RefineInv, NEW r \in Readers, Stream(r)
    PROVE  UNCHANGED Lifecycle!vars
<1>1. files \in [Ids -> Handles] /\ streams \in [Readers -> FileRequests]
    BY DEF RefineInv, IInv, TypeOK
<1>2. UNCHANGED <<jobs, pc>>
    BY DEF Stream, BeginStream, StreamChunk, EndStream, AbortStream, CloseHandle
<1>3. \A o \in Ids : files'[o].state = "none" <=> files[o].state = "none"
    <2>1. CASE \E id \in Ids : BeginStream(r, id)
        BY <2>1 DEF BeginStream
    <2>2. CASE StreamChunk(r)
        BY <1>1, <2>2 DEF StreamChunk, Handles
    <2>3. CASE EndStream(r) \/ AbortStream(r)
        <3>1. files[streams[r].id].state # "none"
            BY <2>3 DEF EndStream, AbortStream, RefineInv, IInv, StreamInv
        <3>. QED BY <1>1, <2>3, <3>1 DEF EndStream, AbortStream, CloseHandle, Handles
    <2>. QED BY <2>1, <2>2, <2>3 DEF Stream
<1>. QED BY <1>2, <1>3, NothingSeen DEF Same, PhaseOf

\* A crash is a restart of the lifecycle.
LEMMA CrashRefines ==
    ASSUME RefineInv, Crash
    PROVE  Lifecycle!Restart
<1>1. phaseView' = [id \in Ids |-> IF phaseView[id] = "none" THEN "none" ELSE "gone"]
    <2>1. \A id \in Ids : PhaseOf(id)' = IF PhaseOf(id) = "none" THEN "none" ELSE "gone"
        <3>1. \A id \in Ids : pc'[id] = IF pc[id] = "unborn" THEN "unborn" ELSE "lost"
            BY DEF Crash
        <3>2. \A id \in Ids : PhaseOf(id) = "none" <=> pc[id] = "unborn"
            BY DEF PhaseOf
        <3>. QED BY <3>1, <3>2 DEF PhaseOf
    <2>. QED BY <2>1 DEF phaseView
<1>2. shownView' = [id \in Ids |-> "unknown"] /\ readableView' = {}
    BY DEF Crash, shownView, readableView, NoJob, NoHandle
<1>. QED BY <1>1, <1>2 DEF Lifecycle!Restart, phaseView, shownView, readableView

-----------------------------------------------------------------------------
\* What is not shown stays so until it is made.
LEMMA UnseenKept == RefineInv /\ [Next]_vars => Unseen'
<1> SUFFICES ASSUME RefineInv, [Next]_vars PROVE Unseen'
    OBVIOUS
<1> USE DEF locals, diskVars, replyVars
<1>1. /\ jobs \in [Ids -> Jobs] /\ pc \in [Ids -> WorkerSteps \cup {"unborn", "done", "lost"}] /\ Unseen
    BY DEF RefineInv, IInv, TypeOK
<1>2. ASSUME NEW id \in Ids, Handler(id)
      PROVE  Unseen'
    <2>1. CASE Create(id)
        BY <1>1, <2>1 DEF Create, Unseen
    <2>2. CASE ReturnCreated(id) \/ AnswerCancel(id)
        BY <1>1, <2>2 DEF ReturnCreated, AnswerCancel, Unseen
    <2>3. CASE Cancel(id)
        <3>1. pc[id] \notin {"unborn", "lost"}
            BY <1>1, <2>3, NoJobUnknown DEF Cancel, Known, Unseen
        <3>2. pc' = pc /\ \A o \in Ids \ {id} : jobs'[o] = jobs[o]
            BY <1>1, <2>3 DEF Cancel
        <3>. QED BY <1>1, <3>1, <3>2 DEF Unseen
    <2>. QED BY <1>2, <2>1, <2>2, <2>3 DEF Handler
<1>3. ASSUME NEW id \in Ids, Worker(id) \/ DownloadTorrent(id)
      PROVE  Unseen'
    <2>1. /\ \A o \in Ids \ {id} : jobs'[o] = jobs[o] /\ pc'[o] = pc[o]
          /\ pc'[id] \notin {"unborn", "lost"}
        <3> USE <1>1 DEF Goto, Fail, Discard
        <3>1. CASE BeginResolving(id) \/ LookupProvider(id) \/ Locate(id)
            BY <3>1 DEF BeginResolving, LookupProvider, Locate
        <3>2. CASE OpenRemote(id) \/ MakeStaging(id) \/ CreatePart(id) \/ ReadChunk(id)
            BY <3>2 DEF OpenRemote, MakeStaging, CreatePart, ReadChunk
        <3>3. CASE ReadEnd(id) \/ SealPart(id) \/ CheckPart(id) \/ Finish(id) \/ Publish(id)
            BY <3>3 DEF ReadEnd, SealPart, CheckPart, Finish, Publish
        <3>4. CASE PrepareTorrent(id) \/ DownloadTorrent(id) \/ CreateTorrentPart(id)
            BY <3>4 DEF PrepareTorrent, DownloadTorrent, CreateTorrentPart
        <3>5. CASE CopyTorrent(id) \/ CheckTorrentPart(id) \/ FinishTorrent(id)
            BY <3>5 DEF CopyTorrent, CheckTorrentPart, FinishTorrent
        <3>. QED BY <1>3, <3>1, <3>2, <3>3, <3>4, <3>5 DEF Worker, HttpWorker, TorrentWorker
    <2>. QED BY <1>1, <2>1 DEF Unseen
<1>4. ASSUME NEW r \in Readers, Stream(r)
      PROVE  Unseen'
    BY <1>1, <1>4 DEF Stream, BeginStream, StreamChunk, EndStream, AbortStream, CloseHandle, Unseen
<1>5. CASE Crash
    BY <1>5 DEF Crash, Unseen
<1>6. CASE UNCHANGED vars
    BY <1>1, <1>6 DEF vars, Unseen
<1>. QED BY <1>2, <1>3, <1>4, <1>5, <1>6 DEF Next

\* Each step of the manager is one of the lifecycle, or invisible.
LEMMA StepRefines == RefineInv /\ [Next]_vars => [Lifecycle!Next]_(Lifecycle!vars)
<1> SUFFICES ASSUME RefineInv, [Next]_vars PROVE Lifecycle!Next \/ UNCHANGED Lifecycle!vars
    OBVIOUS
<1>1. ASSUME NEW id \in Ids, Handler(id) \/ Worker(id) \/ DownloadTorrent(id)
      PROVE  Lifecycle!Next \/ UNCHANGED Lifecycle!vars
    BY <1>1, HandlerRefines, CommonWorkerRefines, StagingRefines, EndingRefines
       DEF Worker, HttpWorker, TorrentWorker
<1>2. ASSUME NEW r \in Readers, Stream(r)
      PROVE  UNCHANGED Lifecycle!vars
    BY <1>2, StreamRefines
<1>3. CASE Crash
    BY <1>3, CrashRefines DEF Lifecycle!Next
<1>4. CASE UNCHANGED vars
    BY <1>4, UntouchedIsSame, NothingSeen DEF vars
<1>. QED BY <1>1, <1>2, <1>3, <1>4 DEF Next

\* The manager implements the lifecycle that is promised to clients, for every
\* number of jobs, readers and restarts, and for every failure.
THEOREM ManagerImplementsLifecycle == Spec => ImplementsLifecycle
<1>1. Init => Unseen /\ Lifecycle!Init
    <2>1. SUFFICES ASSUME Init PROVE Unseen /\ Lifecycle!Init
        OBVIOUS
    <2>2. \A id \in Ids : PhaseOf(id) = "none"
        BY <2>1 DEF Init, PhaseOf
    <2>3. \A id \in Ids : jobs[id] = NoJob /\ jobs[id].status = "unknown" /\ files[id].state = "none"
        BY <2>1, NoJobUnknown DEF Init, NoHandle
    <2>. QED BY <2>2, <2>3 DEF Unseen, Lifecycle!Init
<1>2. Spec => []Unseen
    <2>1. IInv /\ Unseen /\ [Next]_vars => Unseen'
        BY UnseenKept DEF RefineInv
    <2>. QED BY <1>1, <2>1, Invariance, PTL DEF Spec
<1>3. IInv /\ Unseen /\ [Next]_vars => [Lifecycle!Next]_(Lifecycle!vars)
    BY StepRefines DEF RefineInv
<1>. QED BY <1>1, <1>2, <1>3, Invariance, PTL DEF Spec, Lifecycle!Spec, ImplementsLifecycle
=============================================================================
