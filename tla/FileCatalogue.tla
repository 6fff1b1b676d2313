--------------------------- MODULE FileCatalogue ---------------------------
(***************************************************************************)
(* The catalogue of internal/catalog (store.go, sync.go, locator.go) while *)
(* a start of the process fills it: syncConfiguredCatalogues of main.go    *)
(* runs the ingest of the JSONL file and then that of the record dump, and *)
(* next to them, in a goroutine of its own, that of the file dump.         *)
(*                                                                         *)
(* A book comes from the first two; which files there are of it, and where *)
(* they are, from all three, in any order.  A step is one SQL statement,   *)
(* or one transaction.  SQLite is external.  Which lines of a dump an      *)
(* interrupted ingest takes up again is the matter of CatalogueIngest.     *)
(***************************************************************************)
EXTENDS Integers, Sequences, FiniteSetsExt

CONSTANTS
    Ids,            \* external ids of books
    Formats,        \* file formats, which are also the file ids
    Titles,         \* titles of books
    JsonPayloads,   \* what the JSONL file may hold: sequences of lines
    RecordPayloads, \* what the record dump may hold
    FilePayloads,   \* what the file dump may hold
    Blank,          \* a line that its ingest skips
    Garbled,        \* a line that is no JSON
    Batch,          \* records in a batch; 500 and 1000 in the code
    Faults          \* whether a statement or a transaction of SQLite may fail

LocatorKinds == {"none", "http", "torrent-file"}
JsonLine   == [ext : Ids, title : Titles, formats : SUBSET Formats]
RecordLine == [ext : Ids, title : Titles, format : Formats, loc : LocatorKinds]
FileLine   == [ext : Ids, format : Formats, loc : {"none", "torrent-file"}]

ASSUME PayloadsAssumption ==
    /\ JsonPayloads   \subseteq Seq(JsonLine \cup {Blank, Garbled})
    /\ RecordPayloads \subseteq Seq(RecordLine \cup {Blank})
    /\ FilePayloads   \subseteq Seq(FileLine \cup {Blank})

ASSUME StoreAssumption == Batch \in Nat \ {0} /\ Faults \in BOOLEAN

VARIABLES
    books,      \* table books: title and files_json
    postings,   \* books_fts: which book is found under which title
    rows,       \* table file_records: the line each row comes from
    locators,   \* table locators: the kind of each
    main,       \* where the goroutine that runs the first two ingests stands
    json,       \* the lines of the JSONL file still to come
    upserting,  \* the book IngestJSONL is storing, and its files still to store
    records,    \* the lines of the record dump still to come
    batch,      \* its records not yet committed
    files,      \* where the goroutine of the file dump stands
    dump,       \* the lines of the file dump still to come
    fileBatch   \* its file records not yet committed

store == <<books, postings, rows, locators>>
mainVars == <<main, json, upserting, records, batch>>
fileVars == <<files, dump, fileBatch>>
vars == <<store, mainVars, fileVars>>

NoBook == [title |-> "none", formats |-> {}]
NoRow  == [from |-> "none", loc |-> "none"]
Idle   == [ext |-> "none", formats |-> {}, failed |-> FALSE]

Init ==
    /\ books = [e \in Ids |-> NoBook]
    /\ postings = {}
    /\ rows = [e \in Ids |-> [f \in Formats |-> NoRow]]
    /\ locators = [e \in Ids |-> [f \in Formats |-> "none"]]
    /\ main = "json" /\ json \in JsonPayloads /\ upserting = Idle
    /\ records \in RecordPayloads /\ batch = <<>>
    /\ files = "read" /\ dump \in FilePayloads /\ fileBatch = <<>>

-----------------------------------------------------------------------------
(* IngestJSONL.  Upsert is a statement for the book, two for the index and  *)
(* one for each file, each committed on its own.                           *)

JsonSkip ==
    /\ main = "json" /\ json # <<>> /\ Head(json) = Blank
    /\ json' = Tail(json)
    /\ UNCHANGED <<store, main, upserting, records, batch, fileVars>>

JsonBook ==
    /\ main = "json" /\ json # <<>> /\ Head(json) \notin {Blank, Garbled}
    /\ LET line == Head(json)
       IN  /\ books' = [books EXCEPT ![line.ext] =
                          [title |-> line.title, formats |-> line.formats]]
           /\ upserting' = [ext |-> line.ext, formats |-> line.formats, failed |-> FALSE]
    /\ json' = Tail(json)
    /\ main' = "unindex"
    /\ UNCHANGED <<postings, rows, locators, records, batch, fileVars>>

\* The DELETE reads the words to forget from books, which has the new title by
\* now: a posting of the old title stays.  Its error is ignored.
JsonUnindex ==
    /\ main = "unindex"
    /\ \/ postings' = postings \ {<<upserting.ext, books[upserting.ext].title>>}
       \/ Faults /\ UNCHANGED postings
    /\ main' = "index"
    /\ UNCHANGED <<books, rows, locators, json, upserting, records, batch, fileVars>>

\* An error of the INSERT is reported only after the files were stored.
JsonIndex ==
    /\ main = "index"
    /\ \/ /\ postings' = postings \cup {<<upserting.ext, books[upserting.ext].title>>}
          /\ UNCHANGED upserting
       \/ /\ Faults
          /\ upserting' = [upserting EXCEPT !.failed = TRUE]
          /\ UNCHANGED postings
    /\ main' = "rows"
    /\ UNCHANGED <<books, rows, locators, json, records, batch, fileVars>>

JsonRow ==
    /\ main = "rows"
    /\ \E f \in upserting.formats :
          /\ rows' = [rows EXCEPT ![upserting.ext][f] = [from |-> "json", loc |-> "none"]]
          /\ upserting' = [upserting EXCEPT !.formats = @ \ {f}]
    /\ UNCHANGED <<books, postings, locators, main, json, records, batch, fileVars>>

\* Mutant of JsonBookDone: the error of the INSERT is forgotten.
JsonBookDone_GoesOn ==
    /\ main = "rows" /\ upserting.formats = {}
    /\ main' = "json"
    /\ upserting' = Idle
    /\ UNCHANGED <<store, json, records, batch, fileVars>>

JsonBookDone ==
    /\ main = "rows" /\ upserting.formats = {}
    /\ main' = IF upserting.failed THEN "records" ELSE "json"
    /\ upserting' = Idle
    /\ UNCHANGED <<store, json, records, batch, fileVars>>

\* The end of the file, a line that is no JSON, or a failed statement: the one
\* for the book, the SELECT of its rowid after it, or one for a file.  An error
\* is logged and the record dump is taken up in any case.
JsonEnd ==
    /\ \/ main = "json" /\ (json = <<>> \/ Faults)
       \/ main = "json" /\ json # <<>> /\ Head(json) = Garbled
       \/ main \in {"unindex", "rows"} /\ Faults
    /\ main' = "records"
    /\ UNCHANGED <<store, json, upserting, records, batch, fileVars>>

-----------------------------------------------------------------------------
(* SyncAnnaJSONL: the record dump. *)

StopMain == Faults /\ main' = "stopped" /\ UNCHANGED <<store, batch>>

RecordSkip ==
    /\ main = "records" /\ records # <<>> /\ Head(records) = Blank
    /\ records' = Tail(records)
    /\ UNCHANGED <<store, main, json, upserting, batch, fileVars>>

\* Mutant of RecordRead: the locator is not stored.
RecordRead_NoLocator ==
    /\ main = "records" /\ records # <<>> /\ Head(records) # Blank
    /\ batch' = Append(batch, Head(records))
    /\ main' = IF Len(batch') >= Batch THEN "flush" ELSE "records"
    /\ records' = Tail(records)
    /\ UNCHANGED <<store, json, upserting, fileVars>>

\* PutLocator is a statement of its own, before the batch is full.
RecordRead ==
    /\ main = "records" /\ records # <<>> /\ Head(records) # Blank
    /\ LET line == Head(records)
       IN  \/ /\ locators' = IF line.loc = "none" THEN locators ELSE
                                [locators EXCEPT ![line.ext][line.format] = line.loc]
              /\ batch' = Append(batch, line)
              /\ main' = IF Len(batch') >= Batch THEN "flush" ELSE "records"
              /\ UNCHANGED <<books, postings, rows>>
           \/ line.loc # "none" /\ StopMain
    /\ records' = Tail(records)
    /\ UNCHANGED <<json, upserting, fileVars>>

RecordEnd ==
    /\ main = "records" /\ records = <<>>
    /\ main' = "drain"
    /\ UNCHANGED <<store, json, upserting, records, batch, fileVars>>

\* The lines of a batch about a book, and about a file of it.
About(lines, e)     == {n \in DOMAIN lines : lines[n].ext = e}
OfFile(lines, e, f) == {n \in About(lines, e) : lines[n].format = f}

\* A transaction stores its lines one after the other, each over what was there:
\* what stays of those about the same thing is the last one.
Last(lines, among) == lines[Max(among)]

WithBooks(bs, lines) ==
    [e \in Ids |->
        IF About(lines, e) = {} THEN bs[e] ELSE
        LET line == Last(lines, About(lines, e))
        IN  [title |-> line.title, formats |-> {line.format}]]

\* Mutant of WithRows: the rows of the book are replaced.
WithRows_Replaces(rs, lines) ==
    [e \in Ids |-> [f \in Formats |->
        IF About(lines, e) = {} THEN rs[e][f] ELSE
        IF OfFile(lines, e, f) = {} THEN NoRow ELSE
        [from |-> "records", loc |-> Last(lines, OfFile(lines, e, f)).loc]]]

\* Mutant of WithRows: a book that has rows gets no other.
WithRows_OnlyFirst(rs, lines) ==
    [e \in Ids |-> [f \in Formats |->
        IF OfFile(lines, e, f) = {} \/ \E g \in Formats : rs[e][g] # NoRow THEN rs[e][f] ELSE
        [from |-> "records", loc |-> Last(lines, OfFile(lines, e, f)).loc]]]

WithRows(rs, lines) ==
    [e \in Ids |-> [f \in Formats |->
        IF OfFile(lines, e, f) = {} THEN rs[e][f] ELSE
        [from |-> "records", loc |-> Last(lines, OfFile(lines, e, f)).loc]]]

\* UpsertBatch: one transaction for the books and the files of the batch.
UpsertBatch(from, to) ==
    /\ main = from
    /\ \/ /\ books' = WithBooks(books, batch)
          /\ rows' = WithRows(rows, batch)
          /\ batch' = <<>>
          /\ main' = to
          /\ UNCHANGED <<postings, locators>>
       \/ batch # <<>> /\ StopMain
    /\ UNCHANGED <<json, upserting, records, fileVars>>

Flush == UpsertBatch("flush", "records")

LastFlush == UpsertBatch("drain", "rebuild")

Known(e) == books[e] # NoBook

\* Mutant of RebuildFTS: only the books that are not in the index yet.
RebuildFTS_NewOnly ==
    /\ main = "rebuild"
    /\ postings' = postings \cup {<<e, books[e].title>> :
                     e \in {x \in Ids : Known(x) /\ \A t \in Titles : <<x, t>> \notin postings}}
    /\ main' = "done"
    /\ UNCHANGED <<books, rows, locators, json, upserting, records, batch, fileVars>>

RebuildFTS ==
    /\ main = "rebuild"
    /\ \/ /\ postings' = postings \cup {<<e, books[e].title>> : e \in {x \in Ids : Known(x)}}
          /\ main' = "done"
          /\ UNCHANGED <<books, rows, locators, batch>>
       \/ StopMain
    /\ UNCHANGED <<json, upserting, records, fileVars>>

-----------------------------------------------------------------------------
(* SyncAnnaFilesJSONL: the file dump. *)

FileSkip ==
    /\ files = "read" /\ dump # <<>> /\ Head(dump) = Blank
    /\ dump' = Tail(dump)
    /\ UNCHANGED <<store, mainVars, files, fileBatch>>

FileRead ==
    /\ files = "read" /\ dump # <<>> /\ Head(dump) # Blank
    /\ fileBatch' = Append(fileBatch, Head(dump))
    /\ files' = IF Len(fileBatch') >= Batch THEN "flush" ELSE "read"
    /\ dump' = Tail(dump)
    /\ UNCHANGED <<store, mainVars>>

FileEnd ==
    /\ files = "read" /\ dump = <<>>
    /\ files' = "drain"
    /\ UNCHANGED <<store, mainVars, dump, fileBatch>>

WithFiles(rs, lines) ==
    [e \in Ids |-> [f \in Formats |->
        IF OfFile(lines, e, f) = {} THEN rs[e][f] ELSE
        [from |-> "files", loc |-> Last(lines, OfFile(lines, e, f)).loc]]]

\* The lines about a file that name a source for it.
Sourced(lines, e, f) == {n \in OfFile(lines, e, f) : lines[n].loc # "none"}

WithLocators(ls, lines) ==
    [e \in Ids |-> [f \in Formats |->
        IF Sourced(lines, e, f) = {} THEN ls[e][f] ELSE
        Last(lines, Sourced(lines, e, f)).loc]]

\* UpsertFilesBatch: one transaction for the files and their locators.
UpsertFilesBatch(from, to) ==
    /\ files = from
    /\ \/ /\ rows' = WithFiles(rows, fileBatch)
          /\ locators' = WithLocators(locators, fileBatch)
          /\ fileBatch' = <<>>
          /\ files' = to
       \/ /\ Faults /\ fileBatch # <<>>
          /\ files' = "stopped"
          /\ UNCHANGED <<rows, locators, fileBatch>>
    /\ UNCHANGED <<books, postings, mainVars, dump>>

FileFlush == UpsertFilesBatch("flush", "read")

LastFileFlush == UpsertFilesBatch("drain", "done")

-----------------------------------------------------------------------------
Main ==
    \/ JsonSkip \/ JsonBook \/ JsonUnindex \/ JsonIndex \/ JsonRow \/ JsonBookDone \/ JsonEnd
    \/ RecordSkip \/ RecordRead \/ RecordEnd \/ Flush \/ LastFlush \/ RebuildFTS

Files == FileSkip \/ FileRead \/ FileEnd \/ FileFlush \/ LastFileFlush

Next == Main \/ Files

Spec == Init /\ [][Next]_vars

-----------------------------------------------------------------------------
(* What a search sees. *)

Recorded(e) == {f \in Formats : rows[e][f] # NoRow}

\* Search and GetBook: the rows of file_records, or the book's own files when
\* there are none.
Offered(e) == IF Recorded(e) # {} THEN Recorded(e) ELSE books[e].formats

\* Search for a title.  A format filter would look at the book's own files only.
Hits(title) == {e \in Ids : <<e, title>> \in postings}

-----------------------------------------------------------------------------
(* Properties. *)

\* A file whose line named a source can be acquired as soon as it is offered,
\* whichever of the two dumps brought the row and the locator.
OfferedHasLocator ==
    \A e \in Ids, f \in Formats : rows[e][f].loc # "none" => locators[e][f] # "none"

\* Whichever ingest comes first, a search offers every file of the book's own
\* record, except of the book that IngestJSONL is storing or stopped at.
OfferCoversBook ==
    \A e \in Ids : Known(e) /\ upserting.ext # e => books[e].formats \subseteq Offered(e)

\* What the file dump says of a book is kept until its record arrives, and
\* after: once files are on record, no ingest makes one of them disappear.
FilesStay == [][\A e \in Ids : Recorded(e) # {} => Offered(e) \subseteq Offered(e)']_vars

\* The book that IngestJSONL is storing.
JsonSteps  == {"json", "unindex", "index", "rows"}
Storing(e) == main \in {"unindex", "index", "rows"} /\ upserting.ext = e

\* While the JSONL file is read every book stored so far, but the one that is
\* being stored, is found under its latest title: no statement for a book takes
\* another out of the index, and no upsert leaves a book of its own behind,
\* unfound, and goes on.  The record dump writes books past the index; when it
\* is through every book is found under its title again.
FoundUnderTitle ==
    \A e \in Ids :
        Known(e) /\ (main = "done" \/ (main \in JsonSteps /\ ~Storing(e))) =>
            e \in Hits(books[e].title)
=============================================================================
