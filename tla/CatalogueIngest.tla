-------------------------- MODULE CatalogueIngest --------------------------
(***************************************************************************)
(* The startup ingest of a compressed dump: ingestOnce of                  *)
(* cmd/atlas-bridge/main.go over the two readers of internal/catalog/      *)
(* sync.go: IngestZstdJSONL with its checkpointReader and SyncAnnaJSONL    *)
(* for the record dump, ingestZstd with its countingReader and             *)
(* SyncAnnaFilesJSONL for the file dump.                                   *)
(*                                                                         *)
(* A payload is read one line at a time.  Good lines gather in a batch     *)
(* that is committed to SQLite when full.  Of the record dump, after every *)
(* Batch lines a progress file is written, from which the next start of    *)
(* the process resumes.  When everything went well a marker ends the       *)
(* matter.  The process may die after any step.                            *)
(*                                                                         *)
(* The scanner asks the reader for line n + 1 only when it has handed out  *)
(* line n, so that the reader is never more than one line ahead.           *)
(***************************************************************************)
EXTENDS Integers, FiniteSets, Sequences

CONSTANTS
    Lines,       \* bound: lines of a payload
    Batch,       \* lines between checkpoints, records in a batch; 500 or 1000 in the code
    Limit,       \* CatalogueMaxExpanded, in lines; 0 for no limit
    Payloads,    \* what a payload may hold
    Faults,      \* whether SQLite, the payload and the progress file may fail
    MaxRestarts, \* bound: restarts of the process
    MaxVersions  \* bound: payloads that retrieval puts in place, one after the other

LineKinds == {"good", "bad"}   \* a record, or a line that is skipped

ASSUME PayloadAssumption == Payloads \subseteq UNION {[1..n -> LineKinds] : n \in 0..Lines}

ASSUME BoundAssumption ==
    /\ Lines \in Nat /\ Batch \in Nat \ {0} /\ Limit \in Nat
    /\ MaxRestarts \in Nat /\ MaxVersions \in Nat \ {0}
    /\ Faults \in BOOLEAN

VARIABLES
    dump,       \* which of the two dumps this ingest is for
    payload,    \* the lines of the file at the configured path
    version,    \* how many payloads were put there
    progress,   \* the progress file: the lines the next start skips
    marker,     \* whether the .ingested marker exists
    located,    \* the lines whose locator is committed
    stored,     \* the lines whose book is committed
    indexed,    \* the lines whose book RebuildFTS has indexed
    pc,         \* where the ingest stands
    skip,       \* checkpointReader.skip
    seen,       \* checkpointReader.seen
    pos,        \* lines taken from the decoder
    passed,     \* lines that went through the LimitReader, or the countingReader
    batch,      \* the records not yet committed
    broken,     \* whether the scanner ended on an error
    restarts    \* restarts of the process so far

payloadVars == <<dump, payload, version>>
diskVars    == <<progress, marker, located, stored, indexed>>
readerVars  == <<skip, seen, pos, passed>>
vars == <<payloadVars, diskVars, readerVars, pc, batch, broken, restarts>>

Line(n) == <<version, n>>

Init ==
    /\ dump \in {"records", "files"}
    /\ payload \in Payloads /\ version = 1
    /\ progress = 0 /\ marker = FALSE
    /\ located = {} /\ stored = {} /\ indexed = {}
    /\ pc = "down"
    /\ skip = 0 /\ seen = 0 /\ pos = 0 /\ passed = 0
    /\ batch = {} /\ broken = FALSE
    /\ restarts = 0

-----------------------------------------------------------------------------
(* The start of the process. *)

\* retrieveCatalogueTorrent renames what it downloaded over the payload; it
\* may be what was there, and with a mounted payload nothing is retrieved.
Retrieve ==
    \/ UNCHANGED payloadVars
    \/ /\ version < MaxVersions /\ UNCHANGED dump
       /\ payload' \in Payloads
       /\ version' = version + 1

\* Mutant of Start: a progress file means that another ingest is running.
Start_YieldsToProgress ==
    /\ pc = "down"
    /\ Retrieve
    /\ pc' = IF marker \/ progress > 0 THEN "finished" ELSE "read"
    /\ skip' = progress /\ seen' = progress /\ pos' = 0 /\ passed' = 0
    /\ batch' = {} /\ broken' = FALSE
    /\ UNCHANGED <<diskVars, restarts>>

\* ingestOnce and the start of IngestZstdJSONL: the marker ends it; otherwise
\* the reader skips what the progress file says, and starts counting there.
Start ==
    /\ pc = "down"
    /\ Retrieve
    /\ pc' = IF marker THEN "finished" ELSE "read"
    /\ skip' = progress /\ seen' = progress /\ pos' = 0 /\ passed' = 0
    /\ batch' = {} /\ broken' = FALSE
    /\ UNCHANGED <<diskVars, restarts>>

\* Nothing is read: the retrieval of the file dump failed and its ingest is given
\* up, or there is no marker and the payload cannot be opened.
StartFails ==
    /\ pc = "down" /\ Faults
    /\ \/ dump = "files" /\ UNCHANGED payloadVars
       \/ ~marker /\ Retrieve
    /\ pc' = "stopped"
    /\ UNCHANGED <<diskVars, readerVars, batch, broken, restarts>>

-----------------------------------------------------------------------------
(* checkpointReader.Read below the LimitReader, or countingReader.Read. *)

AtLimit == Limit > 0 /\ passed = Limit

\* A line below the resume point is counted and dropped.
SkipLine ==
    /\ pc = "read" /\ ~AtLimit /\ pos < Len(payload) /\ skip > 0
    /\ pos' = pos + 1
    /\ seen' = seen + 1
    /\ skip' = skip - 1
    /\ UNCHANGED <<payloadVars, diskVars, passed, pc, batch, broken, restarts>>

\* Mutant of Checkpoint: the batch in memory counts as committed.
Checkpoint_Ahead(n) == progress' = IF n % Batch = 0 THEN n ELSE progress

\* writeProgress, through a temporary file and a rename; its error is ignored.
Checkpoint(n) ==
    \/ progress' = IF n % Batch = 0 THEN n - Batch ELSE progress
    \/ Faults /\ UNCHANGED progress

ReadLine ==
    /\ pc = "read" /\ ~AtLimit /\ pos < Len(payload) /\ skip = 0
    /\ pos' = pos + 1
    /\ seen' = seen + 1
    /\ IF dump = "records" THEN Checkpoint(seen + 1) ELSE UNCHANGED progress
    /\ passed' = passed + 1
    /\ pc' = "decode"
    /\ UNCHANGED <<payloadVars, marker, located, stored, indexed, skip, batch, broken, restarts>>

\* Mutant of ReadEnd: the countingReader ends like the LimitReader.
ReadEnd_Silent ==
    /\ pc = "read"
    /\ \/ (AtLimit \/ pos = Len(payload)) /\ broken' = FALSE
       \/ Faults /\ broken' = TRUE
    /\ pc' = "drain"
    /\ UNCHANGED <<payloadVars, diskVars, readerVars, batch, restarts>>

\* The decoder's end, or an error of it or of the scanner.  At the limit the
\* LimitReader makes an end, and the countingReader an error, even where the
\* payload ends there.  Errors are looked at only after the last flush.
ReadEnd ==
    /\ pc = "read"
    /\ \/ AtLimit /\ broken' = (dump = "files")
       \/ ~AtLimit /\ pos = Len(payload) /\ broken' = FALSE
       \/ Faults /\ broken' = TRUE
    /\ pc' = "drain"
    /\ UNCHANGED <<payloadVars, diskVars, readerVars, batch, restarts>>

-----------------------------------------------------------------------------
(* SyncAnnaJSONL and SyncAnnaFilesJSONL. *)

SkipRecord ==
    /\ pc = "decode"
    /\ payload[pos] = "bad"
    /\ pc' = "read"
    /\ UNCHANGED <<payloadVars, diskVars, readerVars, batch, broken, restarts>>

\* A database error ends the ingest until the next start.
Stop ==
    /\ Faults
    /\ pc' = "stopped"
    /\ UNCHANGED <<diskVars, batch>>

\* Mutant of AddRecord: the locator is left to a later batch.
AddRecord_NoLocator ==
    /\ pc = "decode"
    /\ payload[pos] = "good"
    /\ batch' = batch \cup {Line(pos)}
    /\ pc' = IF Cardinality(batch') >= Batch THEN "flush" ELSE "read"
    /\ UNCHANGED <<payloadVars, diskVars, readerVars, broken, restarts>>

\* Mutant of AddRecord: the batch overfills before it is committed.
AddRecord_FlushesLate ==
    /\ pc = "decode"
    /\ payload[pos] = "good"
    /\ located' = located \cup {Line(pos)}
    /\ batch' = batch \cup {Line(pos)}
    /\ pc' = IF Cardinality(batch') > Batch THEN "flush" ELSE "read"
    /\ UNCHANGED <<payloadVars, progress, marker, stored, indexed, readerVars, broken, restarts>>

\* The locator of a record is committed on its own, before the batch its book is
\* in; those of files go with their batch.
AddRecord ==
    /\ pc = "decode"
    /\ payload[pos] = "good"
    /\ \/ /\ located' = IF dump = "records" THEN located \cup {Line(pos)} ELSE located
          /\ batch' = batch \cup {Line(pos)}
          /\ pc' = IF Cardinality(batch') >= Batch THEN "flush" ELSE "read"
          /\ UNCHANGED <<progress, marker, stored, indexed>>
       \/ dump = "records" /\ Stop
    /\ UNCHANGED <<payloadVars, readerVars, broken, restarts>>

\* One transaction commits the batch, or none of it.
Commit(from, to) ==
    /\ pc = from
    /\ \/ /\ stored' = stored \cup batch
          /\ located' = IF dump = "files" THEN located \cup batch ELSE located
          /\ batch' = {}
          /\ pc' = to
          /\ UNCHANGED <<progress, marker, indexed>>
       \/ Stop
    /\ UNCHANGED <<payloadVars, readerVars, broken, restarts>>

Flush == Commit("flush", "read")

\* Files need no index: the scanner's error, or the countingReader's, or nothing
\* is left.
LastFlush ==
    Commit("drain", CASE dump = "records" -> "index"
                      [] dump = "files"   -> IF broken THEN "stopped" ELSE "mark")

\* Only now a search finds the books; the scanner's error comes after it.
RebuildFTS ==
    /\ pc = "index"
    /\ \/ /\ indexed' = stored
          /\ pc' = IF broken THEN "stopped" ELSE "clear"
          /\ UNCHANGED <<progress, marker, located, stored, batch>>
       \/ Stop
    /\ UNCHANGED <<payloadVars, readerVars, broken, restarts>>

-----------------------------------------------------------------------------
(* The end of IngestZstdJSONL and of ingestOnce. *)

\* The error of os.Remove is ignored.
RemoveProgress ==
    /\ pc = "clear"
    /\ progress' = 0 \/ (Faults /\ UNCHANGED progress)
    /\ pc' = "mark"
    /\ UNCHANGED <<payloadVars, marker, located, stored, indexed, readerVars,
                   batch, broken, restarts>>

\* So is that of os.WriteFile.
WriteMarker ==
    /\ pc = "mark"
    /\ marker' = TRUE \/ (Faults /\ UNCHANGED marker)
    /\ pc' = "finished"
    /\ UNCHANGED <<payloadVars, progress, located, stored, indexed, readerVars,
                   batch, broken, restarts>>

\* The process dies, or is restarted: only the disk is left.
Restart ==
    /\ pc # "down" /\ restarts < MaxRestarts
    /\ pc' = "down"
    /\ restarts' = restarts + 1
    /\ skip' = 0 /\ seen' = 0 /\ pos' = 0 /\ passed' = 0
    /\ batch' = {} /\ broken' = FALSE
    /\ UNCHANGED <<payloadVars, diskVars>>

-----------------------------------------------------------------------------
Step ==
    \/ Start \/ StartFails \/ SkipLine \/ ReadLine \/ ReadEnd \/ SkipRecord
    \/ AddRecord \/ Flush \/ LastFlush \/ RebuildFTS \/ RemoveProgress \/ WriteMarker

Next == Step \/ Restart

Spec == Init /\ [][Next]_vars

\* The goroutine of the ingest runs on.
FairSpec == Spec /\ WF_vars(Step)

-----------------------------------------------------------------------------
(* Properties. *)

Versions == 1..MaxVersions
AnyLine  == Versions \X (1..Lines)

\* Every variable stays in its range; the reader never counts past what its
\* resume point and the payload allow.
TypeOK ==
    /\ dump \in {"records", "files"} /\ payload \in Payloads /\ version \in Versions
    /\ progress \in Nat /\ marker \in BOOLEAN
    /\ located \subseteq AnyLine /\ stored \subseteq AnyLine /\ indexed \subseteq AnyLine
    /\ pc \in {"down", "read", "decode", "flush", "drain", "index", "clear", "mark",
               "finished", "stopped"}
    /\ skip \in Nat /\ seen \in Nat /\ pos \in 0..Lines /\ passed \in 0..pos
    /\ batch \subseteq AnyLine /\ Cardinality(batch) <= Batch
    /\ broken \in BOOLEAN
    /\ restarts \in 0..MaxRestarts

\* The lines of the present payload that are records.
Records == {Line(n) : n \in {m \in DOMAIN payload : payload[m] = "good"}}

\* A book is never in the catalogue before its locator: an acquisition of a
\* book found by a search is not refused for a locator that is still to come.
BookHasLocator == stored \subseteq located

NothingSkipped == \A n \in DOMAIN payload : payload[n] = "good"

\* During the first run over a payload without skipped lines, what a resumed
\* ingest would skip is committed: the progress file stays behind the batch that
\* is still in memory.
ResumeSkipsOnlyStored ==
    restarts = 0 /\ NothingSkipped =>
        \A n \in DOMAIN payload : n <= progress => Line(n) \in stored

\* Whatever the mix of lines, at most a batch of the records read so far is not
\* committed.
OneBatchAtRisk ==
    restarts = 0 => Cardinality({n \in 1..pos : Line(n) \in Records \ stored}) <= Batch

\* What a search finds: an indexed book, a committed file.
Found == IF dump = "records" THEN indexed ELSE stored

\* When the marker says complete, a search finds every record of the payload.
CompleteMeansIndexed == marker => Records \subseteq Found

\* The part of it that the code achieves, whatever failed on the way.  Of a
\* record dump that fits the limit the marker can be relied on after an ingest
\* that nothing interrupted, and after one that was resumed once, over the same
\* payload and without a skipped line.  Of a file dump it can be relied on after
\* any restarts, whatever the size, as long as no other payload comes.
MarkerCounts ==
    \/ /\ dump = "records" /\ (Limit = 0 \/ Len(payload) <= Limit)
       /\ restarts = 0 \/ (restarts = 1 /\ version = 1 /\ NothingSkipped)
    \/ dump = "files" /\ version = 1
MarkerIsEarned == MarkerCounts => CompleteMeansIndexed

\* When the restarts end the ingest comes to an end, and if it reports no error it
\* has read all it may of the payload, or found the marker of an earlier one.
IngestEnds ==
    <>[](pc = "stopped" \/ (pc = "finished" /\ (marker \/ AtLimit \/ pos = Len(payload))))
=============================================================================
