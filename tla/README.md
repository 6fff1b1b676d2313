# Atlas Bridge in TLA+

Atlas Bridge is a small Go service between a reader application (Atlas) and
sources of books. It searches a local catalogue and two web sources, fetches
a chosen file over HTTP or through a Transmission daemon, stages it on disk and
streams it to the client. This directory holds TLA+ models of the parts of it
where order, concurrency and failure matter, the TLC instances that check them
and proofs that TLAPS checks.

Paths below are relative to the repository; `manager.go:63` is line 63 of
`internal/acquisition/manager.go`, and so on.

## The system

| Component | State | Operations | Talks to |
|---|---|---|---|
| Acquisition manager, `internal/acquisition/manager.go` | `jobs`, `files` under one `RWMutex`; part files in the staging directory; torrent directories | `Create`, `Get`, `Cancel`, `File`; one worker goroutine per job (`run`, `runTorrent`) | handlers call it; it calls locators, providers, Transmission |
| HTTP API, `internal/api/server.go` | none of its own but a rate limiter | create, poll, cancel an acquisition, stream its file; search, details, covers, files | manager, providers, store |
| Transmission client, `internal/torrent/transmission.go` | none; the daemon's torrents and payloads | `DownloadFile` = `FindByName`, `Add`, polling `Get`, deferred `Remove`, `openTorrentFile` | the daemon, over RPC |
| Catalogue store, `internal/catalog/store.go`, `locator.go` | SQLite tables `books`, `books_fts`, `file_records`, `locators` | `Upsert`, `UpsertBatch`, `UpsertFilesBatch`, `PutLocator`, `RebuildFTS`, `Search`, `GetBook`, `GetLocator` | ingest, manager, local provider |
| Catalogue ingest, `internal/catalog/sync.go` | progress file, `.ingested` marker | `IngestJSONL`, `SyncAnnaJSONL` under `checkpointReader`, `SyncAnnaFilesJSONL` under `countingReader` | store |
| Startup, `cmd/atlas-bridge/main.go` | the configured payload files | `syncConfiguredCatalogues`: retrieval and ingest of two dumps and a JSONL file in two goroutines | Transmission client, ingest |
| Providers, `internal/providers` | Anna's challenge breaker; mirrors in order | `Search`, `Details`, `OpenFile`, `OpenCover` | upstream HTTP client, book cache |
| Upstream HTTP client, `internal/safehttp` | none | requests with origin and address policy, a body limit and an idle timer | the network |
| Book cache, `internal/cache` | bbolt bucket with expiry, which outlives the process | `Put`, `Get` in two transactions | providers |
| Metainfo, `internal/torrent/metainfo.go` | none | `Inspect`: read a `.torrent`, print its files, their sum and its hash | `cmd/catalogue-inspect` |
| Update script, `deploy/update-atlas-bridge.sh` | the image tag, the container | pull, restart, look at the health, roll back | podman, systemd |
| Configuration, `internal/config` | none | reads the environment once | |

What makes it hard, and what must be true of it:

* **Manager.** Workers, cancels, polls and file requests interleave at every
  lock section; all file requests of a job share one `os.File`; every error
  path has its own clean-up; a restart forgets the jobs and keeps the disk. No
  file may be offered that failed a check; nothing may leak; a finished job must
  not change; an accepted job must end.
* **Transmission.** Find and add are two RPCs, names are not unique, any RPC may
  fail before or after it took effect, the bridge may die in between while the
  daemon lives on. A caller must be handed the file it asked for or an error,
  torrents of others must survive, its own must not stay behind.
* **Ingest.** Checkpoints and batches are written at different moments and count
  different things; locators are committed before their books; the process may
  die anywhere. What the next start skips must be in the store, and the marker
  must be true.
* **Store.** Three ingests write the same tables in any order, one of them
  without transactions; two tables answer "which files are there". Files on
  record must not disappear, books must be found.
* **Providers.** Concurrent searches share a breaker and a cache with a
  two-step expiry; mirrors fail in different ways and order. The answer must be
  that of the right mirror, the breaker must follow the evidence, a good entry
  must not be deleted or served too long, no response may stay open.
* **Upstream body.** Three limits, a timer, a reader that reports bytes and an
  error at once, and headers that were sent before the body fails. A cut body
  must never pass for a whole one where anything can tell them apart.
* **Update.** A new image is under the tag before anybody has seen it run;
  commands fail, scripts are killed and overlap. The tag must come to rest on an
  image that works.
* **Metainfo.** The hash is taken of a re-encoding. It must be that of the file.

`PROJECT.json` lists these hazards with their lines and the properties aimed at
them.

## Modules

| Module | Models | Built on |
|---|---|---|
| `Acquisition` | manager and acquisition handlers | |
| `AcquisitionLifecycle` | what a polling client may see of an acquisition | |
| `AcquisitionRefinement` | the first implements the second | `Acquisition`, instance of `AcquisitionLifecycle` |
| `FileFetch` | what a call of `DownloadFile` promises its caller | |
| `TorrentDownload` | `DownloadFile`, its callers and the daemon | instance of `FileFetch` |
| `CatalogueIngest` | the ingest of either dump over restarts | |
| `FileCatalogue` | the store under the three ingests of a start | |
| `BoundedBody` | what the reader of a limited body may rely on | |
| `UpstreamBody` | the limited body, its timer and its two readers | instance of `BoundedBody` |
| `BookCache` | the cache and the clock | |
| `Providers` | both remote providers under concurrent requests | `BookCache` |
| `ImageUpdate` | the update script next to the service and to `install.sh` | |
| `Metainfo` | reading and re-encoding a descriptor | |
| `AcquisitionProofs`, `TorrentDownloadProofs`, `CatalogueIngestProofs`, `FileCatalogueProofs`, `UpstreamBodyProofs`, `ProvidersProofs`, `ImageUpdateProofs`, `MetainfoProofs` | proofs | the module they are named after, TLAPS |
| `MC...` | constants for TLC | the module of that name |

### Acquisition

A step is one lock section of `m.mu`, one call that changes the disk, or one
read of the shared handle; between two steps anything else may happen. Each
action carries the name of what it stands for:

| Code | Actions |
|---|---|
| `Create` (50-64) | `Create`, `ReturnCreated` |
| `Cancel` (249-258), `cancelAcquisition` (server.go:117-124) | `Cancel`, `AnswerCancel` |
| `run` up to the route (66-83) | `BeginResolving`, `LookupProvider`, `Locate` |
| `run`, HTTP route (84-168) | `OpenRemote`, `MakeStaging`, `CreatePart`, `ReadChunk`, `ReadEnd`, `SealPart`, `CheckPart`, `Finish`, `Publish` |
| `runTorrent` (170-215) | `PrepareTorrent`, `DownloadTorrent`, `CreateTorrentPart`, `CopyTorrent`, `CheckTorrentPart`, `FinishTorrent` |
| `acquisitionFile` (server.go:125-134) | `BeginStream`, `StreamChunk`, `EndStream`, `AbortStream` |
| the process dies (main.go:77-85) | `Crash` |

State: `jobs` and `files` are the manager's maps, `pc` and `locator` the
worker's position and local, `fetched` the size that `DownloadFile` stated of
the torrent's file (`Bytes` is set from it, not from what was copied), `part`,
`stagingDir`, `torrentDirs` the disk, `streams` the requests being served, `createReply` and `cancelReply` the status
their answers carried. The race of `return *j` at manager.go:63 with the worker
is a data race on a string: its outcomes are every status the job had, and a
torn one. `Get` only reads.

Abstractions: a payload is a number of chunks (what one `Read` returns) and what
its first bytes say; progress is in percent, computed with integer division;
an error is the place it comes from. A request names one of three kinds of
provider: none, the local one (whose `OpenFile` always refuses), or a remote one.
`LocatorKinds` are those of `locator.go`. Removing its own part file is assumed
not to fail. What leads `OpenFile` of a remote provider to succeed or fail is
left open here; `Providers` has it.

### TorrentDownload

A step is one RPC, one turn of the polling loop, or the file operations after
it. The daemon (adding by hash, deleting with data, ending downloads) is
external and modelled as the client uses it: `DaemonAdd`, `DaemonRemove`,
`Complete`, `Stall`. Callers are acquisition workers, each with a directory of
its own, and catalogue retrievals, all in `/downloads`. In a world with
`rpcFaults` each RPC may fail, `torrent-add` and `torrent-remove` also after
they took effect; in one with `ioFaults` the file that was waited for may not
open, or not be stated. One that is too large is refused in every world. The session-id retry inside `call` is part of the RPC. The
daemon's numbering of torrents is assumed not to change under a call (a restart
of the daemon is not modelled). `world`, chosen by `Init` from `Worlds`, says
which calls are made and what may fail, so that one instance covers both.

`FileFetch` is what a caller sees of it: a call asks, waits, and closes with a
file or without. It knows of the daemon only which jobs have a download there
(`traces`). A job is handed the complete file it asked for, out of its own
download; the download is gone when the call ends, if every RPC was answered.
With lost answers one download per job may stay, in the job's own directory
(`GiveUp`): that is all that a lost answer to `torrent-add` can do. The phase is
read off the position of the call (`PhaseAt`).

### CatalogueIngest

Lines pass one at a time from the decoder through `checkpointReader` and the
limit to `SyncAnnaJSONL`, or through `countingReader` to `SyncAnnaFilesJSONL`;
`dump` says which. A good line is a record, of the record dump with a locator;
a bad one is skipped. `progress` and `marker` are the two files, `located`,
`stored` and `indexed` what SQLite has committed. `Batch` stands for the 500
that is both the size of a batch and the distance of checkpoints (1000 for the
file dump, which has no checkpoints). The ignored errors of `os.Remove` and
`os.WriteFile` (sync.go:346, main.go:151) leave the files as they were. A start
may come to no ingest at all (`StartFails`): the retrieval of the file dump fails
(main.go:95-98), or there is no marker and the payload cannot be opened. A
`LimitReader` takes its limit for the end of the payload, a `countingReader`
fails when it is asked for anything at its limit, be it the end; both are
modelled as they are. A last line cut in half by the limit is left out: it is a
bad line.

### FileCatalogue

The two goroutines of `syncConfiguredCatalogues`, over one store: `main` runs
`IngestJSONL` and then `SyncAnnaJSONL`, `files` runs `SyncAnnaFilesJSONL`. A
step is a statement committed on its own (`IngestJSONL`, `PutLocator`) or a
transaction (`UpsertBatch`, `UpsertFilesBatch`). `Hits` and `Offered` are what
`Search` and `GetBook` answer. SQLite is external; a statement may fail
(`Faults`), which covers a busy database. An upsert whose index statement failed
goes on with its files and returns the error at the end (`upserting.failed`),
which ends `IngestJSONL`. The tables start empty: it is the first start on a
database. A transaction is modelled by what it
leaves: of the lines of a batch about one book or one file the last one
(`WithBooks`, `WithRows`, `WithFiles`, `WithLocators`); that this is the same as
the code's loop of statements is proved (`RecordsLineByLine`,
`FilesLineByLine`). Of a row the model keeps the line it came from.
Deleting from the full-text index reads the words to forget from `books`, which
by then has the new title; so a posting of an old title stays (`JsonUnindex`).

### BoundedBody and UpstreamBody

`BoundedBody` is the promise of `safehttp.Client.Do` to who reads the body:
bytes in order, an end only when all of them came and they are within the limit,
a failure otherwise, and at most one byte past the limit. `UpstreamBody` is what
the code does: `Redirect`, `NoAnswer`, `Answer` (`Do` and `CheckRedirect`,
client.go:62-67, 107-124); `BeginRead`, `Receive`, `Break`, `IdleTimer`,
`ReadClosed` (one `Read` through `limitedReadCloser`, `io.LimitedReader` and
`idleReadCloser`, client.go:126-154); `ReadOn`, `CopyEnds`, `Abandon` (the
`io.Copy` of `stream`, server.go:303-315); `PageEnds` (`readBounded`,
common.go). Sizes are in bytes. The upstream, net/http and the client of the
bridge are external; so is what `CopyEnds` says of a body shorter than its
Content-Length, which net/http notices on either side and nothing in `src/`
does. A `Read` that fails says why: the body below (`"error"`) or the limit
(`"limit"`). That the timer fires between the return of a read and
`timer.Stop` is an outcome of `Receive`.

### BookCache and Providers

A step of a request is one transaction of the cache, one access to the breaker,
or a half of an exchange with an upstream: the call of `request`, after which a
response may be open, and what is done with it until `Body.Close`. `open`
counts the responses of a request that are not closed yet (`Opened`, `Closed`).

| Code | Actions |
|---|---|
| `search` and its siblings of the server | `Begin` |
| `Anna.Search` (anna.go:43-90), `challengeActive`, `markChallenge`, `clearChallenge` | `CheckBreaker`, `Ask`, `ReadPage`, `Store`, `Clear`, `AnnaEnded` |
| `LibGen.Search` (libgen.go:37-71) | `Ask`, `ReadPage`, `Store`, `LibGenEnded` |
| `Details` and `OpenCover` of both, `Cache.Get` | `LookUp`, `Expire`, `Cover`, `Status`, `Stream` |
| `Anna.OpenFile` | `LookUp`, `Resolve`, `ReadResolution`, `Fetch`, `Status`, `FileEnded`, `Stream` |
| `LibGen.OpenFile` | `LookUp`, `DetailPage`, `ReadDetail`, `Fetch`, `Status`, `Peek`, `Stream` |
| restart | `Restart` |

`met` records what each mirror answered, for the properties only. A result page
has one row or none; what a parser makes of it is `AnnaFinds` and `LibGenFinds`.
One book stands for all, as no step relates two. The cache outlives a restart,
the breaker does not. Time is a counter of ticks.

### ImageUpdate

Every command of `update-atlas-bridge.sh` is a step, with the ways it can fail
and what `set -e` makes of that. A failed restart may leave the old container
running or none; a look at the health that fails counts as unhealthy. `Kill` ends
a run anywhere; the command it was at inherited the descriptor of the lock and may
keep it (`"orphaned"`) until it ends (`OrphanEnds`). Beside the runs there are
`Publish` (the registry), `HealthCheck` and `UnitRestarts` (podman and systemd),
and the pull of `install.sh`, which does not take the lock. `upset` notes that
one of the things happened that the script has no answer to (below).

### Metainfo

A descriptor is a sequence of tokens, in which numbers and lengths may be written
as no canonical writer would and keys may come in any order or twice.
`ReadToken` reads one as `readValue` does, with its recursion as a stack of
frames; the file may be cut anywhere (`Cut`). A value that was read carries
`enc`, what `encode` makes of it (`EncodeList`, `EncodeDict` join what was made
of the parts), and the hash is the token sequence it is taken of. `Inspect`
checks the info dictionary and lists its files, `AddSize` is one turn of the loop
that sums them, `Report` the hash and the answer. Three fields are history and no
step looks at them: where a value stands in the file (`from`, `to`) and whether
it is written canonically (`plain`). `MCMetainfo` writes the descriptors from
trees, and has a few that no tree gives.

## Runs

Runs that must pass:

| Run | Question | Properties |
|---|---|---|
| `AcquisitionJob` | One job of every kind, with staging faults, cancels, one file request and a restart | `PublishedIsSound`: what is offered is on disk, within the limit, not empty where its route looks, and of the format asked for where the request names it as `pdf` or `epub`. `CleanAfterWork`: no way out leaves a torrent directory, no error a part file. `CompletedMatchesDisk`: the counts are those of the disk and of the Content-Length. `OutcomeIsStable`, `ProgressNeverFalls`: what a poller never sees. `ImplementsLifecycle`: the abstract specification. `IInv`: the inductive invariant of the proofs |
| `AcquisitionReaders` | Three file requests on one handle; a fair worker | `HandleIsConsumedOnce`: requests divide the file without overlap or loss. `LoneReaderGetsAll`. `WorkEnds`, `CompletedBecomesReadable`: liveness |
| `TorrentCalls` | Three torrents of which two share a name and one is too large, a torrent error and a crash: two jobs over failing RPCs, or the two and a retrieval over reliable ones | `DeliveredIsWanted`: a job is handed the complete file of its own torrent. `NoStrangerRemoved`: no call deletes other content than it asked for. `NoOrphans`: where no RPC fails, a call that returned leaves no torrent of its own. `ImplementsFetch`: the refinement of `FileFetch`. `DownloadEnds`: liveness |
| `CatalogueIngest` | Either dump, every payload of six lines and a few shorter and longer ones, replaced before a start or not, every fault, one restart | `BookHasLocator`: no book before its locator. `ResumeSkipsOnlyStored`, `OneBatchAtRisk`: what a crash can cost. `MarkerIsEarned`: when the marker can be trusted. `IngestEnds`: it comes to an end, and without an error only at the end of what it may read |
| `FileCatalogue` | Every JSONL file, record dump and file dump of up to two lines about the same books, every statement may fail | `OfferedHasLocator`: a file that came with a locator can be acquired. `OfferCoversBook`: all files of a book's own record are offered, whichever ingest was first. `FilesStay`: a file on record stays. `FoundUnderTitle`: while books are upserted one by one, each stored so far is found under its latest title, whatever failed; after the rebuild all are |
| `UpstreamBody` | Bodies below, at and above both limits; an upstream that redirects, stops, breaks off or falls silent | `PageIsWhole`: a parsed page is the whole page. `FittingIsNotRefused`: no limit turns away what fits it. `UserEnds`: liveness. `ImplementsBounded`: the abstract specification. |
| `Providers` | Two requests of any kind to either provider, over one breaker and one cache, every answer of every mirror, expiry and restarts | `AnswerFollowsMirrors`: which mirror decides a search, and whose error the client is told. `BreakerFollowsEvidence`: what shuts and opens the breaker. `ServedBookIsFresh`: whose and how old a served book may be. `FreshEntryStays`: what may delete a good entry. `NoResponseLeaks`: no return and no turn of a mirror loop leaves a response open. `EveryStepAdvances`: every step brings a request nearer to its answer |
| `ImageUpdate` | Two overlapping runs of the script, failing commands, a bad image, restarts of the unit | `RestingImageIsTried`: the tag comes to rest on an image that was healthy once. `UpdatedIsHealthy`: an update is reported for the image that was seen healthy |
| `Metainfo` | Descriptors that are good, bad, not canonical, malformed, too large or cut short | `HashIsFaithful`: the printed hash is that of the tokens of a canonical info dictionary. `TotalIsExact`: the printed sum counts every byte of every file and no overflow wrapped it. `InventoryOfTree`: the sizes, and the hash of a canonical file, are those of the tree it was written from |

Runs that show what a document or a comment says and the code does not do; each
checks one property and TLC finds it violated:

| Run | Said | Done |
|---|---|---|
| `SecondReader` | openapi.yaml:125 answers 200 with the "Completed staged file" | server.go:131: the first request that ends closes the handle the others read; a repeated request gets an empty 200 |
| `TorrentSecondCall` | transmission.go:150: "waits for the requested file to complete" | transmission.go:154: a second call for the same file waits for the first one's torrent and then looks in its own directory |
| `IngestSkippedLines` | README.md:78 streams the records into SQLite; main.go:151 marks "complete" | sync.go:377 counts lines, the batch counts records; after skipped lines a restart loses records |

### Disagreements without a run

The models show more places of this kind, which a reader of the code should
know. They restrict what the properties above can promise.

* Acquisitions. The answer of a create or a cancel is a later read of the job
  and may show any status (manager.go:63, server.go:122; openapi.yaml:113
  "Acquisition queued", 121 "Cancelled acquisition"). A poller may see completed
  before the file is ready (manager.go:163). A local file whose locator is an
  HTTP one always fails (manager.go:75; local.go:11-12 says acquisitions "are
  resolved through catalog locators"). A torrent acquisition fails on a fresh
  volume, for only the HTTP route makes the staging directory (manager.go:189).
  The signature that is checked is not always that of the format asked for: a
  request for `PDF` passes as a bare format (manager.go:149, `EqualFold`) and is
  then held to the signature of a zip file (manager.go:225 compares with the
  lower-case name), and so is every torrent whose file id is not exactly `pdf`,
  as `0-pdf` (manager.go:200). No document says which signature is checked, so
  there is no run about it; `PublishedIsSound` claims a format only for `pdf` and
  `epub`.
* Torrents. Of two calls that add the same torrent the first to return removes
  it under the other (transmission.go:125). A retrieval takes any torrent of the
  right name (transmission.go:154; README.md:78 "only that configured metadata
  file").
* Ingest. A second restart (sync.go:340), a payload above the limit
  (sync.go:342) and a new payload under an old marker (main.go:146) each make
  the marker untrue: check `CompleteMeansIndexed` with `MaxRestarts = 2`, with
  payloads longer than `Limit`, or with `MaxVersions = 2` and a restart. A file
  dump of exactly the limit is refused at its end, and read again at every start
  (sync.go:436).
* Store. The format filter looks at a book's own files only (store.go:150;
  sync.go:48-50 has files "joined when their catalogue record arrives later").
  A last page that is exactly full announces another one (store.go:178).
* Cache. An expired entry is deleted in a second transaction, which may hit a
  fresh one put in between (cache.go:67). `FreshEntryStays` says that nothing
  else takes a good entry, and permits this.
* Upstream bodies. A body of unknown length that fails ends as a proper end for
  the client (server.go:314). README.md:45 calls the request timeout
  "Complete"; the code bounds the wait for headers, hop by hop, and the
  silence between two reads.
* Providers. README.md:80 says that retryability is communicated. When no mirror
  of Anna can be reached, the error of the last one comes back as
  `internal_error`, which is not retryable (server.go:265); LibGen calls that
  `upstream_unavailable`, retryable (libgen.go:70). A page whose rows are all
  filtered out, and a LibGen search that finds nothing, count as unrecognized
  pages (anna.go:162, libgen.go:129). Of the 25 rows of a LibGen page the bridge
  keeps the page size asked for; its next page starts after all 25
  (libgen.go:38, 59).
* Update. README.md:101 restores the previous image when the new container fails
  its health check. An image that failed is pulled and rolled back again every
  time the timer fires. A run killed between the pull and its verdict leaves the
  untried image as what the next run calls current (line 12). A run killed
  between untag and tag leaves no tag, and every later one ends at line 12.
  `install.sh` pulls without the lock. `RestingImageIsTried` speaks of the states
  where none of these happened (`upset`).
* Metainfo. A descriptor that is not canonical gets the hash of its canonical
  form, not of its bytes.

### Bounds

* `Acquisition`: payloads of up to three chunks against a limit of two reach
  under, at and over the limit, and a Content-Length that is unknown, zero, met
  or not met. Requests and locators cover every branch of `run`. Jobs share only
  the staging directory, whose existence is a variable; that several jobs do not
  disturb each other is proved, for any number. Three readers and three chunks
  give every way to divide a file. One restart suffices for each restart
  behaviour, for what a process leaves is what the next finds.
* `TorrentDownload`: two callers race on find and add; two torrents of one name
  and a directory torrent that holds such a file are all the collisions
  `FindByName` can meet; one error and one crash, at any moment.
* `CatalogueIngest`: six lines with batches of two make three full batches, or
  two with skipped lines between, and a resume point with full batches after it.
  Payloads of three and five lines end inside a batch, of six at the limit, of
  seven beyond it.
* `FileCatalogue`: two books, two formats and two titles, with lines that agree
  and disagree; batches of two, so that a batch fills or is left over.
* `UpstreamBody`: a limit of four for a body and of two for a page, and sizes to
  six: empty, below, at and above each.
* `Providers`: two requests are what a race needs, two mirrors give first, last
  and failover; entries and the breaker last one tick, and the clock makes one,
  so that both are met alive and expired (6.2 million states).
* `ImageUpdate`: three images, one of which never gets healthy, so that an update
  follows an update; two runs of the script, and no bound on how often they run.
* `Metainfo`: no, one or two files, with sizes whose sum just fits `MaxInt` or
  overflows; keys in and out of order and repeated; tokens where none belong;
  every cut of the token sequence.

`CHECK_DEADLOCK FALSE` stands where the ids, requests, retrievals or restarts of
an instance run out and the system then rests. `Providers` and `ImageUpdate`
never rest and are checked for deadlock.

### Fairness

* `Acquisition!FairSpec`: weak fairness of each worker. A goroutine is scheduled
  and its calls return: bodies have an idle timer (safehttp, whenever there is a
  limit, and `config.Load` always sets one), the disk answers.
  `DownloadTorrent` has none (it waits with `context.Background()`), handlers
  and clients have none.
* `TorrentDownload!FairSpec`: weak fairness of each call (RPCs time out after
  15 s, the ticker fires), and, an assumption on the daemon and not on the code,
  that each download ends, well or in an error. A failing RPC of the polling loop
  (`PollFails`) is not fair: a waiting call cannot count on it to end.
* `CatalogueIngest!FairSpec`: weak fairness of the ingest goroutine.
* `UpstreamBody!FairSpec`: weak fairness of what belongs to the bridge, the
  goroutine that reads the body and its timers. Nothing is assumed of the
  upstream, which may be silent for ever; that the reader ends all the same is
  the idle timer's doing.
* `Providers` assumes none. In place of liveness `EveryStepAdvances` says that
  each step of a request lowers a measure, so that a request which keeps taking
  steps is answered; the steps themselves end by `UpstreamBody`.

## Proofs

In each module the properties are not inductive, and an invariant that is stands
beside them.

* `AcquisitionProofs` begins with `TypeCorrect`. The one hard point is that
  `ProgressAt` stays within 0..100, which needs that the copy never exceeds a
  known Content-Length (`ReadChunk`'s guard, what net/http guarantees) and a
  little arithmetic (`ProductMonotone`, `ProgressInRange`).
* It goes on to prove that `IInv` is inductive. That a published file is
  sound follows only from what was true of the part file when the worker passed
  each step. So `IInv` says, per job (`JobInv`), which route the worker is on
  (`OnRoute`), that nothing is staged before the part is made (`NotStaged`), that
  it stays within the limit (`Staged`), that the Content-Length is met at the end
  (`TotalMet`), what was concluded (`Concluded`), and who owns handles and
  directories (`Owns`); and that requests refer to jobs there are (`StreamInv`,
  `ReplyInv`). Each step touches the variables of one job: `UntouchedKeeps`
  carries `JobInv` over for the others, one lemma per group of actions does it
  for the job of the step. From `IInv` follow `OnlySoundFiles`, `NoLeakedFiles`,
  `CountsAreExact` and, with one look at every action, `OutcomesAreStable`.
  `ReaderInv` adds who has read which chunk of a shared handle, for
  `HandleConsumedOnce` and `LoneReadersGetAll`; `Numbers` adds how progress and
  bytes relate to what was copied, for `ProgressOnlyRises`. `Left`, the stages
  and chunks a worker has ahead of it, falls with each of its steps and rises
  with nobody's (`WorkersAdvance`).
  It ends with the refinement: every step of `Acquisition` is one of
  `AcquisitionLifecycle` or leaves what a client sees as it is. `RefineInv` is
  `IInv` and that a job not yet created shows nothing (`Unseen`); each action
  changes what is seen of one job at most (`SeesOthers`, `OneChange`).
* `TorrentDownloadProofs`: `DownloadInv` says that the daemon holds one torrent
  per hash (`HashesDiffer`), that a call owns only what it asked for
  (`OwnsItsOwn`), that only its own call puts anything
  into the directory of a job (`DirsAreOwn`), that
  torrents and payloads follow the calls that made them (`TorrentsFollow`,
  `PayloadsFollow`) and, where RPCs do not fail, that each torrent has a call
  that will remove it (`TorrentsAreOwned`). With it each step of `TorrentDownload`
  is one of `FileFetch` or invisible (`DownloadsAreFetches`): the lemmas named
  `...Refines`, one per action, where `DirsAreOwn` and `PayloadsFollow` say why a
  job that opens a file has a download of its own, and `OwnsItsOwn` why a
  `Remove` that hits the download of another job comes from a call for the same
  torrent.
* `CatalogueIngestProofs`: `IngestInv` says how far the reader, the batch, the
  checkpoint and the store are apart. `Aligned` ties the checkpoint to the batch
  as long as no line was skipped, `LocatorsLead` the locators to the batch,
  `Accounted` every record that was read to the batch or the store,
  `ReadToTheEnd` and `Sealed` the marker to the end of the payload it was
  written for. `Remaining`, lines and stages, falls with each step but a restart
  (`IngestsAdvance`), and what ends without an error has read its payload
  (`EndsAreEarned`, by `ReaderIsThrough`).
* `FileCatalogueProofs`: `CatalogueInv` adds to the two invariants of the run
  what their steps need. The locator of a record is stored while the record is
  still in the batch (`SourcesStored`), so the transaction that makes the row
  finds it there; and of the book that `IngestJSONL` is storing all files are on
  record but those still to come (`FilesStored`), which also covers a book whose
  files were never stored because a statement failed. What the index holds at
  each statement of an upsert (`Indexed`) carries `FoundUnderTitle`: a book
  whose words could not be indexed is remembered as failed until the ingest stops. `RowsGrow` and
  `LocatorsKept` say once for all steps that nothing is taken away; the cells of
  a batch (`RecordRows`, `FileRows`, `FileLocators`) rest on a last line there
  is (`MaxIsIn`), which takes the least element of a set of naturals
  (`LeastOf`, from the well-foundedness of `<`).
* `UpstreamBodyProofs`: `BodyInv` says what the counters and the timer allow at
  each step, above all that an end is only reported for a whole body within the
  limit (`EndIsWhole`); `ReadingHasRoom` is the reason: a read never starts where
  `io.LimitedReader` would make up an end. The same counters say that only a body
  over a limit is failed by it (`FittingArePassed`). With it each step refines
  `BoundedBody`. `Remaining` counts hops, bytes and stages; a read without an
  error brings a byte at least, and so every step lowers it (`CallsAdvance`).
* `ProvidersProofs`: `ProvInv` says per request where it may be (`OnPath`), how
  many mirrors it has asked (`Counted`), what they answered until now
  (`Searched`) and which error is kept of them (`Kept`), what it concluded
  (`Concluded`), that a response is open exactly between an answer of an upstream
  and its close (`Clean`), and of the cache that an entry was put no later than
  now. The lemmas on fields (`MoveFields`, `OpenedFields`, ...) say what each
  operator on a request sets and keeps, so that one lemma per group of steps can
  carry `RequestInv` over (`GoesOn`).
* `ImageUpdateProofs`: `UpdateInv` says that only the holder of the lock works
  (`HolderWorks`; the orphan of a killed run is one), that what is healthy was tried (`HealthyIsTried`), and which
  image is under the tag at each step of the holder (`TagIsSound`).
* `MetainfoProofs`: `encode` undoes `decode`. `MetainfoInv` says of every value
  that was read that, if it is written canonically, `enc` is what stands in the
  file from `from` to `to` (`ValueOK`), and of every list and dictionary on the
  stack that what a canonical writer would have written of it so far (`Begun`) is
  what stands in the file from where it begins to where the next inner one does
  (`FrameOK`, `StackOK`). A list only grows at its end. A dictionary is written
  in the order of its keys and not of their arrival: `GreatestKeyIsLast` says that
  a key greater than all before it adds its pair at the end and nothing else, and
  a canonical file brings its keys so (`ValueAdded`). When the info dictionary is
  reported, its `enc` is therefore its part of the file (`HashesAreFaithful`).
  The sum that `AddSize` makes is the number of bytes of the files added
  (`Adding`), which a further file that passes `Overflows` keeps within `MaxInt`
  (`MoreBytes`, `TotalsAreExact`). `Joined`, the loop that puts parts together,
  is a recursive function; its lemmas (`JoinedNext`, `JoinedAgree`, `JoinedType`,
  `JoinedRest`) are by induction on sets of naturals (`NatSetInduction`), which
  takes no operator and follows from the well-foundedness of `<`.

The assumptions are the named ones of the modules: `SetsAssumption` and
`BoundsAssumption` (`Acquisition`), `WorldAssumption` and `FaultAssumption`
(`TorrentDownload`), `PayloadAssumption` and `BoundAssumption`
(`CatalogueIngest`), `PayloadsAssumption` and `StoreAssumption`
(`FileCatalogue`), `LimitAssumption` (`UpstreamBody`), `CacheAssumption`
(`BookCache`), `ProvidersAssumption`, `ImagesAssumption`, and
`WidthAssumption`, `NamesAssumption` and `DescriptorsAssumption` (`Metainfo`). They say of which
kind a constant is, that limits and bounds are naturals, and little more.

Only model-checked:

* liveness (`WorkEnds`, `CompletedBecomesReadable`, `DownloadEnds`,
  `IngestEnds`, `UserEnds`), which rests on fairness and `ENABLED`, out of the
  prover's reach. Of `WorkEnds`, `IngestEnds` and `UserEnds` it is proved that
  nothing goes round for ever, by the measures above; that a step is always there
  to take is what TLC adds. `DownloadEnds` has no such measure: the polling loop
  turns until the daemon ends its download;
* `InventoryOfTree`: its trees are written and judged by recursive operators
  (`MCMetainfo`), so it stays a check on the trees of the run.

## Plan

What is left, in order:

1. One start of the process: retrieval, rename and ingest of both dumps with
   markers and restarts (main.go:87-154), composing `TorrentDownload`,
   `CatalogueIngest` and `FileCatalogue` at the level of payload versions.
2. A restart of the Transmission daemon, which renumbers its torrents.
3. Several books in one cache.

## Not modelled

Parsing of HTML and JSON (strings, and as stable as the pages of others), the
origin and address policy of the upstream client (predicates on strings without
state), authentication and the rate limiter, configuration (read once, no
state), and `install.sh` but for its pull. `Store.ImportRecord` has no caller.
