------------------------ MODULE FileCatalogueProofs ------------------------
(***************************************************************************)
(* Proofs about FileCatalogue, for all dumps, books and batch sizes: what  *)
(* a search offers, and that a batch stored in one transaction is its      *)
(* lines stored one after the other.                                       *)
(*                                                                         *)
(* CatalogueInv is the inductive invariant.  To the two invariants of the  *)
(* run it adds what their steps need: that the locator of a record still   *)
(* in the batch is stored already (SourcesStored), and how far the files   *)
(* of the book that IngestJSONL is storing have come (FilesStored).        *)
(***************************************************************************)
EXTENDS FileCatalogue, SequenceTheorems, WellFoundedInduction, TLAPS

\* Every nonempty set of naturals has a least element.
LEMMA LeastOf ==
    ASSUME NEW T, T \subseteq Nat, T # {}
    PROVE  \E x \in T : \A y \in T : x <= y
<1> DEFINE R == OpToRel(<, Nat)
<1>1. IsWellFoundedOn(R, Nat)
    BY NatLessThanWellFounded, Zenon
<1>2. \A x, y \in Nat : x < y => <<x, y>> \in R
    BY DEF OpToRel
<1> HIDE DEF R
<1>3. PICK x \in T : \A y \in T : ~ (<<y, x>> \in R)
    BY <1>1, WFMin, Zenon
<1>4. \A y \in T : ~ (y < x)
    BY <1>2, <1>3, Zenon
<1>5. \A y \in T : x <= y
    BY <1>4
<1> QED
    BY <1>5

\* The last of a nonempty set of places in a sequence is one of them.
LEMMA MaxIsIn ==
    ASSUME NEW n \in Nat, NEW S \in SUBSET (1..n), S # {}
    PROVE  Max(S) \in S /\ \A k \in S : k <= Max(S)
<1> DEFINE T == {k \in Nat : \A m \in S : m <= k}
<1>1. n \in T
    OBVIOUS
<1>2. PICK x \in T : \A y \in T : x <= y
    BY <1>1, LeastOf
<1>3. x \in S
  <2> SUFFICES ASSUME x \notin S PROVE FALSE
      OBVIOUS
  <2>1. PICK m \in S : TRUE
      OBVIOUS
  <2>2. x - 1 \in Nat /\ \A k \in S : k <= x - 1
      BY <2>1
  <2> QED
      BY <1>2, <2>2
<1>4. \E k \in S : \A m \in S : k >= m
    BY <1>3
<1> QED
    BY <1>4 DEF Max
-----------------------------------------------------------------------------
(* Types. *)

BookTable    == [Ids -> [title : Titles \cup {"none"}, formats : SUBSET Formats]]
Row          == [from : {"none", "json", "records", "files"}, loc : LocatorKinds]
RowTable     == [Ids -> [Formats -> Row]]
LocatorTable == [Ids -> [Formats -> LocatorKinds]]

\* Each table and each goroutine's variables, and whose book IngestJSONL stores.
TypeOK ==
    /\ books \in BookTable /\ rows \in RowTable /\ locators \in LocatorTable
    /\ postings \subseteq Ids \X (Titles \cup {"none"})
    /\ main \in {"json", "unindex", "index", "rows", "records", "flush", "drain",
                  "rebuild", "done", "stopped"}
    /\ json \in Seq(JsonLine \cup {Blank, Garbled})
    /\ upserting \in [ext : Ids \cup {"none"}, formats : SUBSET Formats, failed : BOOLEAN]
    /\ main \in {"unindex", "index", "rows"} => upserting.ext \in Ids
    /\ main = "json" => upserting = Idle
    /\ records \in Seq(RecordLine \cup {Blank}) /\ batch \in Seq(RecordLine)
    /\ files \in {"read", "flush", "drain", "done", "stopped"}
    /\ dump \in Seq(FileLine \cup {Blank}) /\ fileBatch \in Seq(FileLine)

\* The line that stays is one of the batch, about the thing in question.
LEMMA LastAbout ==
    ASSUME NEW L, NEW lines \in Seq(L), NEW S \in SUBSET (DOMAIN lines), S # {}
    PROVE  Max(S) \in S /\ Last(lines, S) = lines[Max(S)] /\ Last(lines, S) \in L
<1>1. Len(lines) \in Nat /\ DOMAIN lines = 1..Len(lines)
    OBVIOUS
<1>2. Max(S) \in S
    BY <1>1, MaxIsIn
<1> QED
    BY <1>2 DEF Last

\* A batch leaves tables of the same types.
LEMMA BatchTypes ==
    ASSUME NEW lines \in Seq(RecordLine), NEW bs \in BookTable, NEW rs \in RowTable
    PROVE  WithBooks(bs, lines) \in BookTable /\ WithRows(rs, lines) \in RowTable
<1>1. ASSUME NEW e \in Ids, About(lines, e) # {}
      PROVE  Last(lines, About(lines, e)) \in RecordLine
    BY <1>1, LastAbout DEF About
<1>2. ASSUME NEW e \in Ids, NEW f \in Formats, OfFile(lines, e, f) # {}
      PROVE  Last(lines, OfFile(lines, e, f)) \in RecordLine
    BY <1>2, LastAbout DEF OfFile, About
<1>3. WithBooks(bs, lines) \in BookTable
    BY <1>1 DEF WithBooks, RecordLine, BookTable
<1>4. WithRows(rs, lines) \in RowTable
    BY <1>2 DEF WithRows, RecordLine, Row, RowTable
<1> QED
    BY <1>3, <1>4

\* So does one of the file dump.
LEMMA FileBatchTypes ==
    ASSUME NEW lines \in Seq(FileLine), NEW rs \in RowTable, NEW ls \in LocatorTable
    PROVE  WithFiles(rs, lines) \in RowTable /\ WithLocators(ls, lines) \in LocatorTable
<1>1. ASSUME NEW e \in Ids, NEW f \in Formats, OfFile(lines, e, f) # {}
      PROVE  Last(lines, OfFile(lines, e, f)) \in FileLine
    BY <1>1, LastAbout DEF OfFile, About
<1>2. ASSUME NEW e \in Ids, NEW f \in Formats, Sourced(lines, e, f) # {}
      PROVE  Last(lines, Sourced(lines, e, f)) \in FileLine
    BY <1>2, LastAbout DEF Sourced, OfFile, About
<1>3. WithFiles(rs, lines) \in RowTable
    BY <1>1 DEF WithFiles, FileLine, Row, LocatorKinds, RowTable
<1>4. WithLocators(ls, lines) \in LocatorTable
    BY <1>2 DEF WithLocators, FileLine, LocatorKinds, LocatorTable
<1> QED
    BY <1>3, <1>4

\* One cell of a table is set.
LEMMA CellSet ==
    ASSUME NEW A, NEW B, NEW C, NEW table \in [A -> [B -> C]],
           NEW a \in A, NEW b \in B, NEW c \in C
    PROVE  [table EXCEPT ![a][b] = c] \in [A -> [B -> C]]
OBVIOUS

\* Init has these types, whatever the three files hold.
LEMMA TypesInit == Init => TypeOK
<1> SUFFICES ASSUME Init PROVE TypeOK
    OBVIOUS
<1>1. books \in BookTable /\ rows \in RowTable /\ locators \in LocatorTable
    BY DEF Init, NoBook, NoRow, BookTable, RowTable, Row, LocatorTable, LocatorKinds
<1> QED
    BY <1>1, PayloadsAssumption DEF Init, TypeOK, Idle

\* Every statement and transaction keeps them.
LEMMA TypesStep == TypeOK /\ [Next]_vars => TypeOK'
<1> SUFFICES ASSUME TypeOK, [Next]_vars PROVE TypeOK'
    OBVIOUS
<1> USE DEF TypeOK
<1>1. CASE JsonSkip
    BY <1>1 DEF JsonSkip, store, fileVars
<1>2. CASE JsonBook
  <2>1. Head(json) \in JsonLine
      BY <1>2 DEF JsonBook
  <2>2. books' \in BookTable
      BY <1>2, <2>1 DEF JsonBook, JsonLine, BookTable
  <2> QED
      BY <1>2, <2>1, <2>2 DEF JsonBook, JsonLine, fileVars
<1>3. CASE JsonUnindex
    BY <1>3 DEF JsonUnindex, fileVars
<1>4. CASE JsonIndex
  <2>1. books[upserting.ext].title \in Titles \cup {"none"}
      BY <1>4 DEF JsonIndex, BookTable
  <2>2. upserting' \in [ext : Ids \cup {"none"}, formats : SUBSET Formats, failed : BOOLEAN]
      BY <1>4 DEF JsonIndex
  <2>3. upserting'.ext = upserting.ext /\ upserting.ext \in Ids
      BY <1>4 DEF JsonIndex
  <2>4. postings' \subseteq Ids \X (Titles \cup {"none"})
      BY <1>4, <2>1, <2>3 DEF JsonIndex
  <2> QED
      BY <1>4, <2>2, <2>3, <2>4 DEF JsonIndex, fileVars
<1>5. CASE JsonRow
  <2>1. rows' \in RowTable
      BY <1>5 DEF JsonRow, RowTable, Row, LocatorKinds
  <2> QED
      BY <1>5, <2>1 DEF JsonRow, fileVars
<1>6. CASE JsonBookDone
    BY <1>6 DEF JsonBookDone, Idle, store, fileVars
<1>7. CASE JsonEnd
    BY <1>7 DEF JsonEnd, store, fileVars
<1>8. CASE RecordSkip
    BY <1>8 DEF RecordSkip, store, fileVars
<1>9. CASE RecordRead
  <2>1. Head(records) \in RecordLine
      BY <1>9 DEF RecordRead
  <2>2. /\ Head(records).loc \in LocatorKinds /\ Head(records).ext \in Ids
        /\ Head(records).format \in Formats
      BY <2>1 DEF RecordLine
  <2>3. \/ locators' = locators
        \/ locators' = [locators EXCEPT ![Head(records).ext][Head(records).format] =
                                           Head(records).loc]
      BY <1>9 DEF RecordRead, StopMain, store
  <2>4. locators' \in LocatorTable
    <3>1. [locators EXCEPT ![Head(records).ext][Head(records).format] = Head(records).loc]
              \in LocatorTable
        BY <2>2, CellSet DEF LocatorTable
    <3> QED
        BY <2>3, <3>1
  <2>5. batch' = batch \/ batch' = Append(batch, Head(records))
      BY <1>9 DEF RecordRead, StopMain
  <2>6. batch' \in Seq(RecordLine)
    <3>1. Append(batch, Head(records)) \in Seq(RecordLine)
        BY <2>1, AppendProperties
    <3> QED
        BY <2>5, <3>1
  <2>7. records' \in Seq(RecordLine \cup {Blank})
      BY <1>9 DEF RecordRead
  <2>8. /\ UNCHANGED <<books, postings, rows, json, upserting, files, dump, fileBatch>>
        /\ main' \in {"flush", "records", "stopped"}
      BY <1>9 DEF RecordRead, StopMain, store, fileVars
  <2> QED
      BY <2>4, <2>6, <2>7, <2>8
<1>10. CASE RecordEnd
    BY <1>10 DEF RecordEnd, store, fileVars
<1>11. ASSUME NEW from, NEW to, UpsertBatch(from, to), to \in {"records", "rebuild"}
       PROVE  TypeOK'
  <2>1. WithBooks(books, batch) \in BookTable /\ WithRows(rows, batch) \in RowTable
      BY BatchTypes
  <2>2. books' \in BookTable /\ rows' \in RowTable /\ batch' \in Seq(RecordLine)
    <3>1. \/ books' = WithBooks(books, batch) /\ rows' = WithRows(rows, batch) /\ batch' = <<>>
          \/ UNCHANGED <<books, rows, batch>>
        BY <1>11 DEF UpsertBatch, StopMain, store
    <3> QED
        BY <2>1, <3>1, EmptySeq
  <2>3. /\ UNCHANGED <<postings, locators, json, upserting, records, files, dump, fileBatch>>
        /\ main' \in {"records", "rebuild", "stopped"}
      BY <1>11 DEF UpsertBatch, StopMain, store, fileVars
  <2> QED
      BY <2>2, <2>3
<1>12. CASE RebuildFTS
  <2>1. postings' \subseteq Ids \X (Titles \cup {"none"})
      BY <1>12 DEF RebuildFTS, StopMain, store, BookTable
  <2> QED
      BY <1>12, <2>1 DEF RebuildFTS, StopMain, store, fileVars
<1>13. CASE FileSkip
    BY <1>13 DEF FileSkip, store, mainVars
<1>14. CASE FileRead
  <2>1. Head(dump) \in FileLine
      BY <1>14 DEF FileRead
  <2> QED
      BY <1>14, <2>1 DEF FileRead, store, mainVars
<1>15. CASE FileEnd
    BY <1>15 DEF FileEnd, store, mainVars
<1>16. ASSUME NEW from, NEW to, UpsertFilesBatch(from, to), to \in {"read", "done"}
       PROVE  TypeOK'
  <2>1. /\ WithFiles(rows, fileBatch) \in RowTable
        /\ WithLocators(locators, fileBatch) \in LocatorTable
      BY FileBatchTypes
  <2>2. rows' \in RowTable /\ locators' \in LocatorTable /\ fileBatch' \in Seq(FileLine)
    <3>1. \/ /\ rows' = WithFiles(rows, fileBatch) /\ fileBatch' = <<>>
             /\ locators' = WithLocators(locators, fileBatch)
          \/ UNCHANGED <<rows, locators, fileBatch>>
        BY <1>16 DEF UpsertFilesBatch
    <3> QED
        BY <2>1, <3>1, EmptySeq
  <2>3. /\ UNCHANGED <<books, postings, main, json, upserting, records, batch, dump>>
        /\ files' \in {"read", "done", "stopped"}
      BY <1>16 DEF UpsertFilesBatch, mainVars
  <2> QED
      BY <2>2, <2>3
<1>17. CASE UNCHANGED vars
    BY <1>17 DEF vars, store, mainVars, fileVars
<1> QED
    BY <1>1, <1>2, <1>3, <1>4, <1>5, <1>6, <1>7, <1>8, <1>9, <1>10, <1>11, <1>12, <1>13,
       <1>14, <1>15, <1>16, <1>17
    DEF Next, Main, Files, Flush, LastFlush, FileFlush, LastFileFlush

-----------------------------------------------------------------------------
(* Safety. *)

\* Every source that a record of the batch named has its locator.
SourcesStored ==
    \A n \in DOMAIN batch :
        batch[n].loc # "none" => locators[batch[n].ext][batch[n].format] # "none"

\* The files of a book are on record, but for the one that is being stored, and
\* of that one all but those still to come.
FilesStored ==
    /\ \A e \in Ids : books[e].formats \subseteq Recorded(e) \/ (main # "json" /\ upserting.ext = e)
    /\ main \in {"unindex", "index", "rows"} =>
          books[upserting.ext].formats \ upserting.formats \subseteq Recorded(upserting.ext)

\* The book whose files are being stored is in the index, unless the INSERT failed.
Indexed ==
    main = "rows" /\ ~upserting.failed => upserting.ext \in Hits(books[upserting.ext].title)

\* The inductive invariant.
CatalogueInv ==
    /\ TypeOK /\ SourcesStored /\ OfferedHasLocator /\ FilesStored
    /\ FoundUnderTitle /\ Indexed

\* What a batch of the record dump makes of a row.
LEMMA RecordRows ==
    ASSUME NEW lines \in Seq(RecordLine), rows \in RowTable, NEW e \in Ids, NEW f \in Formats
    PROVE  LET new == WithRows(rows, lines)[e][f] IN
           /\ OfFile(lines, e, f) = {} => new = rows[e][f]
           /\ OfFile(lines, e, f) # {} =>
                 /\ new # NoRow
                 /\ \E n \in DOMAIN lines :
                       lines[n].ext = e /\ lines[n].format = f /\ new.loc = lines[n].loc
<1>1. ASSUME OfFile(lines, e, f) # {}
      PROVE  \E n \in DOMAIN lines : /\ lines[n].ext = e /\ lines[n].format = f
                                     /\ Last(lines, OfFile(lines, e, f)) = lines[n]
    BY <1>1, LastAbout DEF OfFile, About
<1> QED
    BY <1>1 DEF WithRows, NoRow

\* And one of the file dump.
LEMMA FileRows ==
    ASSUME NEW lines \in Seq(FileLine), rows \in RowTable, NEW e \in Ids, NEW f \in Formats
    PROVE  LET new == WithFiles(rows, lines)[e][f] IN
           /\ OfFile(lines, e, f) = {} => new = rows[e][f]
           /\ OfFile(lines, e, f) # {} =>
                 /\ new # NoRow
                 /\ \E n \in DOMAIN lines :
                       lines[n].ext = e /\ lines[n].format = f /\ new.loc = lines[n].loc
<1>1. ASSUME OfFile(lines, e, f) # {}
      PROVE  \E n \in DOMAIN lines : /\ lines[n].ext = e /\ lines[n].format = f
                                     /\ Last(lines, OfFile(lines, e, f)) = lines[n]
    BY <1>1, LastAbout DEF OfFile, About
<1> QED
    BY <1>1 DEF WithFiles, NoRow

\* The locators of such a batch: none is lost, and each source has one.
LEMMA FileLocators ==
    ASSUME NEW lines \in Seq(FileLine), locators \in LocatorTable, NEW e \in Ids, NEW f \in Formats
    PROVE  LET new == WithLocators(locators, lines)[e][f] IN
           /\ locators[e][f] # "none" => new # "none"
           /\ \A n \in DOMAIN lines :
                 lines[n].ext = e /\ lines[n].format = f /\ lines[n].loc # "none" => new # "none"
<1>1. ASSUME Sourced(lines, e, f) # {}
      PROVE  Last(lines, Sourced(lines, e, f)).loc # "none"
    BY <1>1, LastAbout DEF Sourced, OfFile, About
<1>2. Sourced(lines, e, f) = {} => WithLocators(locators, lines)[e][f] = locators[e][f]
    BY DEF WithLocators
<1>3. Sourced(lines, e, f) # {} => WithLocators(locators, lines)[e][f] # "none"
    BY <1>1 DEF WithLocators
<1>4. \A n \in DOMAIN lines :
          lines[n].ext = e /\ lines[n].format = f /\ lines[n].loc # "none"
              => Sourced(lines, e, f) # {}
    BY DEF Sourced, OfFile, About
<1> QED
    BY <1>2, <1>3, <1>4

\* A transaction of either dump, in terms of single cells.
LEMMA RecordBatch ==
    ASSUME TypeOK, NEW from, NEW to, UpsertBatch(from, to)
    PROVE  /\ UNCHANGED <<postings, locators, json, upserting, records, files, dump, fileBatch>>
           /\ main = from
           /\ \/ /\ books' = WithBooks(books, batch) /\ rows' = WithRows(rows, batch)
                 /\ batch' = <<>> /\ main' = to
              \/ UNCHANGED <<books, rows, batch>> /\ main' = "stopped"
BY DEF UpsertBatch, StopMain, store, fileVars

\* And one of the file dump leaves everything of the other goroutine but the rows.
LEMMA FileBatch ==
    ASSUME TypeOK, NEW from, NEW to, UpsertFilesBatch(from, to)
    PROVE  /\ UNCHANGED <<books, postings, main, json, upserting, records, batch, dump>>
           /\ \/ /\ rows' = WithFiles(rows, fileBatch)
                 /\ locators' = WithLocators(locators, fileBatch)
              \/ UNCHANGED <<rows, locators>>
BY DEF UpsertFilesBatch, mainVars

\* No step takes a file off the records.
LEMMA RowsGrow ==
    ASSUME TypeOK, [Next]_vars, NEW e \in Ids, NEW f \in Formats, rows[e][f] # NoRow
    PROVE  rows'[e][f] # NoRow
<1> USE DEF TypeOK
<1>1. CASE rows' = rows
    BY <1>1
<1>2. CASE JsonRow
  <2>1. PICK g \in upserting.formats :
            rows' = [rows EXCEPT ![upserting.ext][g] = [from |-> "json", loc |-> "none"]]
      BY <1>2 DEF JsonRow
  <2>2. rows'[e][f] \in {rows[e][f], [from |-> "json", loc |-> "none"]}
      BY <2>1 DEF RowTable
  <2> QED
      BY <2>2 DEF NoRow
<1>3. ASSUME NEW from, NEW to, UpsertBatch(from, to)
      PROVE  rows'[e][f] # NoRow
  <2>1. WithRows(rows, batch)[e][f] # NoRow
      BY RecordRows
  <2>2. rows' = WithRows(rows, batch) \/ rows' = rows
      BY <1>3, RecordBatch
  <2> QED
      BY <2>1, <2>2
<1>4. ASSUME NEW from, NEW to, UpsertFilesBatch(from, to)
      PROVE  rows'[e][f] # NoRow
  <2>1. WithFiles(rows, fileBatch)[e][f] # NoRow
      BY FileRows
  <2>2. rows' = WithFiles(rows, fileBatch) \/ rows' = rows
      BY <1>4, FileBatch
  <2> QED
      BY <2>1, <2>2
<1> QED
    BY <1>1, <1>2, <1>3, <1>4
    DEF Next, Main, Files, Flush, LastFlush, FileFlush, LastFileFlush, vars, store, mainVars,
        JsonSkip, JsonBook, JsonUnindex, JsonIndex, JsonBookDone, JsonEnd, RecordSkip,
        RecordRead, RecordEnd, RebuildFTS, StopMain, FileSkip, FileRead, FileEnd

\* A locator stays.
LEMMA LocatorsKept ==
    ASSUME TypeOK, [Next]_vars, NEW e \in Ids, NEW f \in Formats, locators[e][f] # "none"
    PROVE  locators'[e][f] # "none"
<1> USE DEF TypeOK
<1>1. CASE locators' = locators
    BY <1>1
<1>2. CASE RecordRead
  <2>1. Head(records) \in RecordLine
      BY <1>2 DEF RecordRead
  <2>2. \/ locators' = locators
        \/ /\ Head(records).loc # "none"
           /\ locators' = [locators EXCEPT ![Head(records).ext][Head(records).format] =
                                           Head(records).loc]
      BY <1>2 DEF RecordRead, StopMain, store
  <2> QED
      BY <2>1, <2>2 DEF RecordLine, LocatorTable
<1>3. ASSUME NEW from, NEW to, UpsertFilesBatch(from, to)
      PROVE  locators'[e][f] # "none"
  <2>1. WithLocators(locators, fileBatch)[e][f] # "none"
      BY FileLocators
  <2>2. locators' = WithLocators(locators, fileBatch) \/ locators' = locators
      BY <1>3, FileBatch
  <2> QED
      BY <2>1, <2>2
<1>4. ASSUME NEW from, NEW to, UpsertBatch(from, to)
      PROVE  locators' = locators
    BY <1>4, RecordBatch
<1> QED
    BY <1>1, <1>2, <1>3, <1>4
    DEF Next, Main, Files, Flush, LastFlush, FileFlush, LastFileFlush, vars, store, mainVars,
        JsonSkip, JsonBook, JsonUnindex, JsonIndex, JsonRow, JsonBookDone, JsonEnd, RecordSkip,
        RecordEnd, RebuildFTS, StopMain, FileSkip, FileRead, FileEnd

\* The locator of a record is stored before the record joins the batch.
LEMMA SourcesStep ==
    ASSUME TypeOK, SourcesStored, [Next]_vars PROVE SourcesStored'
<1> USE DEF TypeOK
<1>1. ASSUME NEW n \in DOMAIN batch, batch[n].loc # "none"
      PROVE  locators'[batch[n].ext][batch[n].format] # "none"
  <2>1. batch[n] \in RecordLine
      BY <1>1
  <2> QED
      BY <1>1, <2>1, LocatorsKept DEF SourcesStored, RecordLine
<1>2. CASE batch' = batch
    BY <1>1, <1>2 DEF SourcesStored
<1>3. CASE batch' = <<>>
    BY <1>3 DEF SourcesStored
<1>4. CASE RecordRead /\ batch' # batch
  <2> DEFINE line == Head(records)
  <2>1. line \in RecordLine
      BY <1>4 DEF RecordRead
  <2>2. /\ batch' = Append(batch, line)
        /\ locators' = IF line.loc = "none" THEN locators
                       ELSE [locators EXCEPT ![line.ext][line.format] = line.loc]
      BY <1>4 DEF RecordRead, StopMain
  <2>3. line.loc # "none" => locators'[line.ext][line.format] # "none"
      BY <2>1, <2>2 DEF RecordLine, LocatorTable
  <2> HIDE DEF line
  <2> SUFFICES ASSUME NEW n \in DOMAIN batch', batch'[n].loc # "none"
               PROVE  locators'[batch'[n].ext][batch'[n].format] # "none"
      BY DEF SourcesStored
  <2>4. (n \in DOMAIN batch /\ batch'[n] = batch[n]) \/ batch'[n] = line
      BY <2>1, <2>2
  <2> QED
      BY <1>1, <2>3, <2>4
<1>5. ASSUME NEW from, NEW to, UpsertBatch(from, to)
      PROVE  batch' = batch \/ batch' = <<>>
    BY <1>5, RecordBatch
<1>6. ASSUME NEW from, NEW to, UpsertFilesBatch(from, to)
      PROVE  batch' = batch
    BY <1>6, FileBatch
<1> QED
    BY <1>2, <1>3, <1>4, <1>5, <1>6
    DEF Next, Main, Files, Flush, LastFlush, FileFlush, LastFileFlush, vars, store, mainVars,
        JsonSkip, JsonBook, JsonUnindex, JsonIndex, JsonRow, JsonBookDone, JsonEnd, RecordSkip,
        RecordEnd, RebuildFTS, StopMain, FileSkip, FileRead, FileEnd

\* A row that names a source has it from a line whose locator is stored.
LEMMA OffersStep ==
    ASSUME TypeOK, SourcesStored, OfferedHasLocator, [Next]_vars PROVE OfferedHasLocator'
<1> USE DEF TypeOK
<1> SUFFICES ASSUME NEW e \in Ids, NEW f \in Formats, rows'[e][f].loc # "none"
             PROVE  locators'[e][f] # "none"
    BY DEF OfferedHasLocator
<1>1. CASE rows'[e][f].loc = rows[e][f].loc
    BY <1>1, LocatorsKept DEF OfferedHasLocator
<1>2. CASE JsonRow
  <2>1. PICK g \in upserting.formats :
            rows' = [rows EXCEPT ![upserting.ext][g] = [from |-> "json", loc |-> "none"]]
      BY <1>2 DEF JsonRow
  <2>2. rows'[e][f] = rows[e][f]
      BY <2>1 DEF RowTable
  <2> QED
      BY <1>1, <2>2
<1>3. ASSUME NEW from, NEW to, UpsertBatch(from, to), rows'[e][f].loc # rows[e][f].loc
      PROVE  locators'[e][f] # "none"
  <2>1. rows' = WithRows(rows, batch)
      BY <1>3, RecordBatch
  <2>2. PICK n \in DOMAIN batch :
            batch[n].ext = e /\ batch[n].format = f /\ rows'[e][f].loc = batch[n].loc
    <3>1. /\ OfFile(batch, e, f) = {} => WithRows(rows, batch)[e][f] = rows[e][f]
          /\ OfFile(batch, e, f) # {} =>
                \E n \in DOMAIN batch : /\ batch[n].ext = e /\ batch[n].format = f
                                        /\ WithRows(rows, batch)[e][f].loc = batch[n].loc
        BY RecordRows
    <3> QED
        BY <1>3, <2>1, <3>1
  <2>3. locators[e][f] # "none"
      BY <2>2 DEF SourcesStored
  <2> QED
      BY <2>3, LocatorsKept
<1>4. ASSUME NEW from, NEW to, UpsertFilesBatch(from, to), rows'[e][f].loc # rows[e][f].loc
      PROVE  locators'[e][f] # "none"
  <2>1. rows' = WithFiles(rows, fileBatch) /\ locators' = WithLocators(locators, fileBatch)
      BY <1>4, FileBatch
  <2>2. PICK n \in DOMAIN fileBatch :
            fileBatch[n].ext = e /\ fileBatch[n].format = f /\ rows'[e][f].loc = fileBatch[n].loc
      BY <1>4, <2>1, FileRows
  <2> QED
      BY <2>1, <2>2, FileLocators
<1> QED
    BY <1>1, <1>2, <1>3, <1>4
    DEF Next, Main, Files, Flush, LastFlush, FileFlush, LastFileFlush, vars, store, mainVars,
        JsonSkip, JsonBook, JsonUnindex, JsonIndex, JsonBookDone, JsonEnd, RecordSkip,
        RecordRead, RecordEnd, RebuildFTS, StopMain, FileSkip, FileRead, FileEnd

\* With the book its files come on record; of a book of the JSONL file they come
\* one after the other, and no other step changes a book.
LEMMA FilesStep ==
    ASSUME TypeOK, FilesStored, [Next]_vars PROVE FilesStored'
<1> USE DEF TypeOK
<1>1. \A e \in Ids : Recorded(e) \subseteq Recorded(e)'
    BY RowsGrow DEF Recorded
<1>2. CASE UNCHANGED <<books, upserting>> /\ main' = main
    BY <1>1, <1>2 DEF FilesStored
<1>3. CASE JsonBook
  <2>1. Head(json) \in JsonLine
      BY <1>3 DEF JsonBook
  <2>2. /\ upserting'.ext = Head(json).ext /\ upserting'.formats = Head(json).formats
        /\ books'[Head(json).ext].formats = Head(json).formats
        /\ \A e \in Ids \ {Head(json).ext} : books'[e] = books[e]
        /\ main = "json" /\ main' = "unindex"
      BY <1>3, <2>1 DEF JsonBook, JsonLine, BookTable
  <2> QED
      BY <1>1, <2>1, <2>2 DEF FilesStored, JsonLine
<1>4. CASE JsonUnindex
    BY <1>1, <1>4 DEF JsonUnindex, FilesStored
<1>5. CASE JsonIndex
  <2>1. upserting'.ext = upserting.ext /\ upserting'.formats = upserting.formats
      BY <1>5 DEF JsonIndex
  <2> QED
      BY <1>1, <1>5, <2>1 DEF JsonIndex, FilesStored
<1>6. CASE JsonRow
  <2>1. PICK f \in upserting.formats :
            /\ rows' = [rows EXCEPT ![upserting.ext][f] = [from |-> "json", loc |-> "none"]]
            /\ upserting' = [upserting EXCEPT !.formats = @ \ {f}]
      BY <1>6 DEF JsonRow
  <2>2. upserting.ext \in Ids /\ f \in Formats
      BY <1>6, <2>1 DEF JsonRow
  <2>3. rows'[upserting.ext][f] # NoRow
      BY <2>1, <2>2 DEF RowTable, NoRow
  <2>4. upserting'.ext = upserting.ext /\ upserting'.formats = upserting.formats \ {f}
      BY <2>1
  <2>5. f \in Recorded(upserting.ext)'
      BY <2>2, <2>3, <2>4 DEF Recorded
  <2>6. books' = books /\ main = "rows" /\ main' = "rows"
      BY <1>6 DEF JsonRow
  <2> QED
      BY <1>1, <2>2, <2>4, <2>5, <2>6 DEF FilesStored
<1>7. CASE JsonBookDone
  <2>1. /\ books' = books /\ main = "rows" /\ upserting.formats = {}
        /\ main' \in {"json", "records"}
      BY <1>7 DEF JsonBookDone, store
  <2>2. \A e \in Ids : books[e].formats \subseteq Recorded(e)
      BY <2>1 DEF FilesStored
  <2> QED
      BY <1>1, <2>1, <2>2 DEF FilesStored
<1>8. CASE JsonEnd
    BY <1>1, <1>8 DEF JsonEnd, store, FilesStored, Idle
<1>9. ASSUME UNCHANGED <<books, upserting>>, main # "json",
             main' \in {"records", "flush", "drain", "rebuild", "done", "stopped"}
      PROVE  FilesStored'
    BY <1>1, <1>9 DEF FilesStored
<1>10. ASSUME NEW from, NEW to, UpsertBatch(from, to),
              from \in {"flush", "drain"}, to \in {"records", "rebuild"}
       PROVE  FilesStored'
  <2>1. /\ upserting' = upserting /\ main = from
        /\ main' \in {"records", "rebuild", "stopped"}
        /\ \/ books' = WithBooks(books, batch) /\ rows' = WithRows(rows, batch)
           \/ books' = books
      BY <1>10, RecordBatch
  <2>2. CASE books' = books
      BY <1>9, <1>10, <2>1, <2>2
  <2>3. CASE books' = WithBooks(books, batch) /\ rows' = WithRows(rows, batch)
    <3>1. ASSUME NEW e \in Ids, About(batch, e) = {}
          PROVE  books'[e] = books[e]
        BY <2>3, <3>1 DEF WithBooks
    <3>2. ASSUME NEW e \in Ids, About(batch, e) # {}
          PROVE  books'[e].formats \subseteq Recorded(e)'
      <4> DEFINE n == Max(About(batch, e))
      <4>1. /\ n \in About(batch, e) /\ batch[n] \in RecordLine
            /\ Last(batch, About(batch, e)) = batch[n]
        <5>1. About(batch, e) \subseteq DOMAIN batch /\ batch \in Seq(RecordLine)
            BY DEF About, TypeOK
        <5>2. n \in About(batch, e) /\ Last(batch, About(batch, e)) = batch[n]
            BY <3>2, <5>1, LastAbout
        <5> QED
            BY <5>1, <5>2
      <4>2. books'[e].formats = {batch[n].format}
          BY <2>3, <3>2, <4>1 DEF WithBooks
      <4>3. n \in OfFile(batch, e, batch[n].format) /\ batch[n].format \in Formats
          BY <4>1 DEF OfFile, RecordLine
      <4> HIDE DEF n
      <4>4. WithRows(rows, batch)[e][batch[n].format] # NoRow
          BY <4>3, RecordRows
      <4> QED
          BY <2>3, <4>2, <4>3, <4>4 DEF Recorded
    <3> QED
        BY <1>1, <1>10, <2>1, <3>1, <3>2 DEF FilesStored
  <2> QED
      BY <2>1, <2>2, <2>3
<1>11. ASSUME NEW from, NEW to, UpsertFilesBatch(from, to)
       PROVE  UNCHANGED <<books, upserting>> /\ main' = main
    BY <1>11, FileBatch
<1> QED
    BY <1>2, <1>3, <1>4, <1>5, <1>6, <1>7, <1>8, <1>9, <1>10, <1>11
    DEF Next, Main, Files, Flush, LastFlush, FileFlush, LastFileFlush, vars, store, mainVars,
        JsonSkip, RecordSkip, RecordRead, RecordEnd, RebuildFTS, StopMain, FileSkip, FileRead,
        FileEnd

\* A step that leaves books and index alone, and does not begin or end the
\* storing of a book, leaves what is found as it is.
LEMMA FoundKept ==
    ASSUME TypeOK, FoundUnderTitle, Indexed,
           UNCHANGED <<books, postings>>,
           \/ UNCHANGED <<main, upserting>>
           \/ main' \in {"records", "flush", "drain", "rebuild", "stopped"}
    PROVE  (FoundUnderTitle /\ Indexed)'
BY DEF FoundUnderTitle, Indexed, JsonSteps, Storing, Known, Hits

\* A book that is stored leaves its upsert only through the INSERT into the
\* index or with an error that ends the ingest; and after the rebuild nothing
\* changes a book or its postings.
LEMMA FoundStep ==
    ASSUME TypeOK, FoundUnderTitle, Indexed, [Next]_vars
    PROVE  (FoundUnderTitle /\ Indexed)'
<1> USE DEF TypeOK
<1> DEFINE Quiet == /\ UNCHANGED <<books, postings>>
                    /\ \/ UNCHANGED <<main, upserting>>
                       \/ main' \in {"records", "flush", "drain", "rebuild", "stopped"}
<1>1. ASSUME Quiet PROVE (FoundUnderTitle /\ Indexed)'
    BY <1>1, FoundKept
<1>2. CASE JsonBook
  <2>1. Head(json) \in JsonLine
      BY <1>2 DEF JsonBook
  <2>2. /\ upserting'.ext = Head(json).ext /\ postings' = postings
        /\ \A e \in Ids \ {Head(json).ext} : books'[e] = books[e]
        /\ main = "json" /\ main' = "unindex"
      BY <1>2, <2>1 DEF JsonBook, JsonLine, BookTable
  <2> QED
      BY <2>1, <2>2 DEF FoundUnderTitle, Indexed, JsonSteps, Storing, Known, Hits
<1>3. CASE JsonUnindex
  <2>1. /\ \A e \in Ids \ {upserting.ext} : \A t : <<e, t>> \in postings => <<e, t>> \in postings'
        /\ UNCHANGED <<books, upserting>> /\ main = "unindex" /\ main' = "index"
      BY <1>3 DEF JsonUnindex
  <2> QED
      BY <2>1 DEF FoundUnderTitle, Indexed, JsonSteps, Storing, Known, Hits
<1>4. CASE JsonIndex
  <2>1. /\ UNCHANGED books /\ upserting'.ext = upserting.ext /\ upserting.ext \in Ids
        /\ main = "index" /\ main' = "rows"
      BY <1>4 DEF JsonIndex
  <2>2. /\ postings \subseteq postings'
        /\ upserting'.failed \/ <<upserting.ext, books[upserting.ext].title>> \in postings'
      BY <1>4 DEF JsonIndex
  <2> QED
      BY <2>1, <2>2 DEF FoundUnderTitle, Indexed, JsonSteps, Storing, Known, Hits
<1>5. CASE JsonRow
  <2>1. /\ UNCHANGED <<books, postings>> /\ main = "rows" /\ main' = "rows"
        /\ upserting'.ext = upserting.ext /\ upserting'.failed = upserting.failed
      BY <1>5 DEF JsonRow
  <2> QED
      BY <2>1 DEF FoundUnderTitle, Indexed, JsonSteps, Storing, Known, Hits
<1>6. CASE JsonBookDone
  <2>1. /\ UNCHANGED <<books, postings>> /\ main = "rows" /\ upserting.ext \in Ids
        /\ main' = IF upserting.failed THEN "records" ELSE "json"
      BY <1>6 DEF JsonBookDone, store
  <2>2. CASE upserting.failed
      BY <1>1, <2>1, <2>2
  <2>3. CASE ~upserting.failed
      BY <2>1, <2>3 DEF FoundUnderTitle, Indexed, JsonSteps, Storing, Known, Hits
  <2> QED
      BY <2>2, <2>3
<1>7. CASE RebuildFTS
  <2>1. CASE StopMain
      BY <1>1, <2>1 DEF StopMain, store
  <2>2. CASE postings' = postings \cup {<<e, books[e].title>> : e \in {x \in Ids : Known(x)}}
    <3>1. books' = books /\ (main' = "done" \/ main' = "stopped")
        BY <1>7 DEF RebuildFTS, StopMain, store
    <3> QED
        BY <2>2, <3>1 DEF FoundUnderTitle, Indexed, JsonSteps, Storing, Known, Hits
  <2> QED
      BY <1>7, <2>1, <2>2 DEF RebuildFTS
<1>8. ASSUME NEW from, NEW to, UpsertBatch(from, to), to \in {"records", "rebuild"}
      PROVE  (FoundUnderTitle /\ Indexed)'
  <2>1. main' \in {"records", "rebuild", "stopped"}
      BY <1>8, RecordBatch
  <2> QED
      BY <2>1 DEF FoundUnderTitle, Indexed, JsonSteps
<1>9. ASSUME NEW from, NEW to, UpsertFilesBatch(from, to) PROVE Quiet
    BY <1>9, FileBatch
<1>10. JsonSkip \/ JsonEnd \/ RecordSkip \/ RecordRead \/ RecordEnd => Quiet
    BY DEF JsonSkip, JsonEnd, RecordSkip, RecordRead, RecordEnd, StopMain, store
<1>11. FileSkip \/ FileRead \/ FileEnd \/ UNCHANGED vars => Quiet
    BY DEF FileSkip, FileRead, FileEnd, vars, store, mainVars
<1> QED
    BY <1>1, <1>2, <1>3, <1>4, <1>5, <1>6, <1>7, <1>8, <1>9, <1>10, <1>11
    DEF Next, Main, Files, Flush, LastFlush, FileFlush, LastFileFlush

\* The store is empty at first.
LEMMA CatalogueInit == Init => CatalogueInv
<1> SUFFICES ASSUME Init PROVE CatalogueInv
    OBVIOUS
<1>1. TypeOK
    BY TypesInit
<1>2. SourcesStored /\ OfferedHasLocator /\ FoundUnderTitle /\ Indexed
    BY DEF Init, SourcesStored, OfferedHasLocator, FoundUnderTitle, Indexed, Known, NoRow
<1>3. FilesStored
    BY DEF Init, FilesStored, NoBook
<1> QED
    BY <1>1, <1>2, <1>3 DEF CatalogueInv

\* Every step keeps the invariant, each conjunct by its own lemma.
LEMMA CatalogueStep == CatalogueInv /\ [Next]_vars => CatalogueInv'
BY TypesStep, SourcesStep, OffersStep, FilesStep, FoundStep DEF CatalogueInv

\* So it holds throughout.
LEMMA CatalogueInvariance == Spec => []CatalogueInv
<1>1. Init => CatalogueInv
    BY CatalogueInit
<1>2. CatalogueInv /\ [Next]_vars => CatalogueInv'
    BY CatalogueStep
<1> QED
    BY <1>1, <1>2, PTL DEF Spec

-----------------------------------------------------------------------------
(* The theorems. *)

\* A file that came with a source can be acquired as soon as it is offered:
\* PutLocator before UpsertBatch, or both in UpsertFilesBatch, for every dump.
THEOREM OffersHaveLocators == Spec => []OfferedHasLocator
<1>1. CatalogueInv => OfferedHasLocator
    BY DEF CatalogueInv
<1> QED
    BY <1>1, CatalogueInvariance, PTL

\* Search and GetBook offer all files of a book's own record, whichever of the
\* three ingests was first and whatever failed.
THEOREM OffersCoverBooks == Spec => []OfferCoversBook
<1>1. CatalogueInv => OfferCoversBook
  <2> SUFFICES ASSUME CatalogueInv, NEW e \in Ids, upserting.ext # e
               PROVE  books[e].formats \subseteq Offered(e)
      BY DEF OfferCoversBook
  <2>1. books[e].formats \subseteq Recorded(e)
      BY DEF CatalogueInv, FilesStored
  <2> QED
      BY <2>1 DEF Offered
<1> QED
    BY <1>1, CatalogueInvariance, PTL

\* No ingest makes a file disappear that is on record.
THEOREM RecordedFilesStay == Spec => FilesStay
<1>1. CatalogueInv /\ [Next]_vars =>
          [\A e \in Ids : Recorded(e) # {} => Offered(e) \subseteq Offered(e)']_vars
  <2> SUFFICES ASSUME CatalogueInv, [Next]_vars, NEW e \in Ids, Recorded(e) # {}
               PROVE  Offered(e) \subseteq Offered(e)'
      OBVIOUS
  <2>1. Recorded(e) \subseteq Recorded(e)'
      BY RowsGrow DEF CatalogueInv, Recorded
  <2> QED
      BY <2>1 DEF Offered
<1> QED
    BY <1>1, CatalogueInvariance, PTL DEF Spec, FilesStay

\* While the JSONL file is read every book stored so far is found under its
\* latest title, whatever statements failed; after the record dump every book
\* is, one of the JSONL file whose indexing failed included.
THEOREM BooksAreFound == Spec => []FoundUnderTitle
<1>1. CatalogueInv => FoundUnderTitle
    BY DEF CatalogueInv
<1> QED
    BY <1>1, CatalogueInvariance, PTL

\* Every table stays of its type, whatever the three files hold.
THEOREM CatalogueTypes == Spec => []TypeOK
<1>1. CatalogueInv => TypeOK
    BY DEF CatalogueInv
<1> QED
    BY <1>1, CatalogueInvariance, PTL

-----------------------------------------------------------------------------
(* A batch is its lines. *)

\* What a further line changes of the lines about something: it is the last of
\* them, when it is about that thing, and when not, the last is the one it was.
LEMMA LastOfMore ==
    ASSUME NEW L, NEW lines \in Seq(L), NEW line \in L,
           NEW among \in SUBSET (DOMAIN lines)
    PROVE  /\ Last(Append(lines, line), among \cup {Len(lines) + 1}) = line
           /\ among # {} => Last(Append(lines, line), among) = Last(lines, among)
<1> DEFINE end == Len(lines) + 1
<1>1. /\ Len(lines) \in Nat /\ DOMAIN lines = 1..Len(lines)
      /\ Append(lines, line) \in Seq(L) /\ Append(lines, line)[end] = line
      /\ \A n \in DOMAIN lines : Append(lines, line)[n] = lines[n]
    BY AppendProperties
<1>2. Max(among \cup {end}) = end
  <2>1. Max(among \cup {end}) \in among \cup {end} /\ end <= Max(among \cup {end})
    <3>1. among \cup {end} \in SUBSET (1..end) /\ end \in Nat
        BY <1>1
    <3>2. among \cup {end} # {} /\ end \in among \cup {end}
        OBVIOUS
    <3> HIDE DEF end
    <3> QED
        BY <3>1, <3>2, MaxIsIn
  <2> QED
      BY <1>1, <2>1
<1>3. among # {} => Max(among) \in DOMAIN lines
    BY <1>1, MaxIsIn
<1> QED
    BY <1>1, <1>2, <1>3 DEF Last

\* And the lines about a file, or a book, are those of before and perhaps it.
LEMMA AboutMore ==
    ASSUME NEW L, NEW lines \in Seq(L), NEW line \in L, NEW e, NEW f
    PROVE  LET more == Append(lines, line)
               new  == {Len(lines) + 1}
           IN  /\ About(lines, e) \in SUBSET (DOMAIN lines)
               /\ OfFile(lines, e, f) \in SUBSET (DOMAIN lines)
               /\ Sourced(lines, e, f) \in SUBSET (DOMAIN lines)
               /\ About(more, e) = About(lines, e) \cup (IF line.ext = e THEN new ELSE {})
               /\ OfFile(more, e, f) = OfFile(lines, e, f) \cup
                     (IF line.ext = e /\ line.format = f THEN new ELSE {})
               /\ Sourced(more, e, f) = Sourced(lines, e, f) \cup
                     (IF line.ext = e /\ line.format = f /\ line.loc # "none" THEN new ELSE {})
<1>1. /\ Len(lines) \in Nat /\ DOMAIN lines = 1..Len(lines)
      /\ DOMAIN Append(lines, line) = 1..(Len(lines) + 1)
      /\ Append(lines, line)[Len(lines) + 1] = line
      /\ \A n \in DOMAIN lines : Append(lines, line)[n] = lines[n]
    BY AppendProperties
<1>2. DOMAIN Append(lines, line) = DOMAIN lines \cup {Len(lines) + 1}
    BY <1>1
<1>3. Len(lines) + 1 \notin DOMAIN lines
    BY <1>1
<1> DEFINE more == Append(lines, line)  end == Len(lines) + 1
<1>4. /\ DOMAIN more = DOMAIN lines \cup {end} /\ more[end] = line
      /\ \A n \in DOMAIN lines : more[n] = lines[n]
    BY <1>1, <1>2
<1> HIDE DEF more, end
<1>5. About(more, e) = About(lines, e) \cup (IF line.ext = e THEN {end} ELSE {})
    BY <1>4 DEF About
<1>6. OfFile(more, e, f) = OfFile(lines, e, f) \cup
          (IF line.ext = e /\ line.format = f THEN {end} ELSE {})
    BY <1>4 DEF OfFile, About
<1>7. Sourced(more, e, f) = Sourced(lines, e, f) \cup
          (IF line.ext = e /\ line.format = f /\ line.loc # "none" THEN {end} ELSE {})
    BY <1>4 DEF Sourced, OfFile, About
<1> QED
    BY <1>5, <1>6, <1>7 DEF more, end, Sourced, OfFile, About

\* A table that differs in one cell is the table with that cell set.
LEMMA CellIsSet ==
    ASSUME NEW C, NEW g \in [Ids -> [Formats -> C]], NEW h \in [Ids -> [Formats -> C]]
    PROVE  \A a \in Ids, b \in Formats, c \in C :
              (\A x \in Ids, y \in Formats :
                   h[x][y] = IF x = a /\ y = b THEN c ELSE g[x][y])
                 => h = [g EXCEPT ![a][b] = c]
<1> SUFFICES ASSUME NEW a \in Ids, NEW b \in Formats, NEW c \in C,
                    \A x \in Ids, y \in Formats :
                        h[x][y] = IF x = a /\ y = b THEN c ELSE g[x][y]
             PROVE  h = [g EXCEPT ![a][b] = c]
    OBVIOUS
<1> DEFINE k == [g EXCEPT ![a][b] = c]
<1>1. k \in [Ids -> [Formats -> C]]
    OBVIOUS
<1>2. \A x \in Ids, y \in Formats : k[x][y] = IF x = a /\ y = b THEN c ELSE g[x][y]
    OBVIOUS
<1> HIDE DEF k
<1>3. ASSUME NEW x \in Ids PROVE h[x] = k[x]
  <2>1. h[x] \in [Formats -> C] /\ k[x] \in [Formats -> C]
      BY <1>1
  <2> QED
      BY <1>2, <2>1
<1>4. h = k
    BY <1>1, <1>3
<1> QED
    BY <1>4 DEF k

\* A transaction of UpsertBatch is its lines, stored one after the other.
THEOREM RecordsLineByLine ==
    ASSUME NEW bs \in BookTable, NEW rs \in RowTable
    PROVE  /\ WithBooks(bs, <<>>) = bs /\ WithRows(rs, <<>>) = rs
           /\ \A lines \in Seq(RecordLine), line \in RecordLine :
                 /\ WithBooks(bs, Append(lines, line)) =
                      [WithBooks(bs, lines) EXCEPT ![line.ext] =
                         [title |-> line.title, formats |-> {line.format}]]
                 /\ WithRows(rs, Append(lines, line)) =
                      [WithRows(rs, lines) EXCEPT ![line.ext][line.format] =
                         [from |-> "records", loc |-> line.loc]]
<1>1. WithBooks(bs, <<>>) = bs /\ WithRows(rs, <<>>) = rs
    BY DEF WithBooks, WithRows, About, OfFile, BookTable, RowTable
<1> SUFFICES ASSUME NEW lines \in Seq(RecordLine), NEW line \in RecordLine
    PROVE  /\ WithBooks(bs, Append(lines, line)) =
                [WithBooks(bs, lines) EXCEPT ![line.ext] =
                   [title |-> line.title, formats |-> {line.format}]]
           /\ WithRows(rs, Append(lines, line)) =
                [WithRows(rs, lines) EXCEPT ![line.ext][line.format] =
                   [from |-> "records", loc |-> line.loc]]
    BY <1>1
<1> DEFINE more == Append(lines, line)
           book == [title |-> line.title, formats |-> {line.format}]
           row  == [from |-> "records", loc |-> line.loc]
<1>2. line.ext \in Ids /\ line.format \in Formats
    BY DEF RecordLine
<1>3. ASSUME NEW e \in Ids
      PROVE  WithBooks(bs, more)[e] = IF e = line.ext THEN book ELSE WithBooks(bs, lines)[e]
  <2>1. About(more, e) = About(lines, e) \cup (IF line.ext = e THEN {Len(lines) + 1} ELSE {})
      BY AboutMore
  <2>2. About(lines, e) \in SUBSET (DOMAIN lines)
      BY DEF About
  <2>3. /\ Last(more, About(lines, e) \cup {Len(lines) + 1}) = line
        /\ About(lines, e) # {} => Last(more, About(lines, e)) = Last(lines, About(lines, e))
      BY <2>2, LastOfMore
  <2> HIDE DEF more
  <2> QED
      BY <2>1, <2>3 DEF WithBooks
<1>4. ASSUME NEW e \in Ids, NEW f \in Formats
      PROVE  WithRows(rs, more)[e][f] =
                IF e = line.ext /\ f = line.format THEN row ELSE WithRows(rs, lines)[e][f]
  <2>1. OfFile(more, e, f) = OfFile(lines, e, f) \cup
            (IF line.ext = e /\ line.format = f THEN {Len(lines) + 1} ELSE {})
      BY AboutMore
  <2>2. OfFile(lines, e, f) \in SUBSET (DOMAIN lines)
      BY DEF OfFile, About
  <2>3. /\ Last(more, OfFile(lines, e, f) \cup {Len(lines) + 1}) = line
        /\ OfFile(lines, e, f) # {} =>
              Last(more, OfFile(lines, e, f)) = Last(lines, OfFile(lines, e, f))
      BY <2>2, LastOfMore
  <2> HIDE DEF more
  <2> QED
      BY <2>1, <2>3 DEF WithRows
<1>5. WithBooks(bs, more) = [WithBooks(bs, lines) EXCEPT ![line.ext] = book]
  <2> HIDE DEF more, book
  <2> QED
      BY <1>3 DEF WithBooks
<1>6. WithRows(rs, more) = [WithRows(rs, lines) EXCEPT ![line.ext][line.format] = row]
  <2>1. more \in Seq(RecordLine) /\ row \in Row
      BY AppendProperties DEF Row, RecordLine
  <2> HIDE DEF more, row
  <2> DEFINE old == WithRows(rs, lines)
             new == WithRows(rs, more)
  <2>2. old \in [Ids -> [Formats -> Row]] /\ new \in [Ids -> [Formats -> Row]]
      BY <2>1, BatchTypes DEF RowTable
  <2>3. \A e \in Ids, f \in Formats :
            new[e][f] = IF e = line.ext /\ f = line.format THEN row ELSE old[e][f]
      BY <1>4
  <2> HIDE DEF old, new
  <2>4. \A a \in Ids, b \in Formats, c \in Row :
            (\A x \in Ids, y \in Formats :
                 new[x][y] = IF x = a /\ y = b THEN c ELSE old[x][y])
               => new = [old EXCEPT ![a][b] = c]
      BY <2>2, CellIsSet
  <2>5. new = [old EXCEPT ![line.ext][line.format] = row]
      BY <1>2, <2>1, <2>3, <2>4
  <2> QED
      BY <2>5 DEF old, new
<1> QED
    BY <1>5, <1>6

\* And one of UpsertFilesBatch: a line with no source leaves the locator it finds.
THEOREM FilesLineByLine ==
    ASSUME NEW rs \in RowTable, NEW ls \in LocatorTable
    PROVE  /\ WithFiles(rs, <<>>) = rs /\ WithLocators(ls, <<>>) = ls
           /\ \A lines \in Seq(FileLine), line \in FileLine :
                 /\ WithFiles(rs, Append(lines, line)) =
                      [WithFiles(rs, lines) EXCEPT ![line.ext][line.format] =
                         [from |-> "files", loc |-> line.loc]]
                 /\ WithLocators(ls, Append(lines, line)) =
                      IF line.loc = "none" THEN WithLocators(ls, lines) ELSE
                      [WithLocators(ls, lines) EXCEPT ![line.ext][line.format] = line.loc]
<1>1. WithFiles(rs, <<>>) = rs /\ WithLocators(ls, <<>>) = ls
    BY DEF WithFiles, WithLocators, Sourced, About, OfFile, LocatorTable, RowTable
<1> SUFFICES ASSUME NEW lines \in Seq(FileLine), NEW line \in FileLine
    PROVE  /\ WithFiles(rs, Append(lines, line)) =
                [WithFiles(rs, lines) EXCEPT ![line.ext][line.format] =
                   [from |-> "files", loc |-> line.loc]]
           /\ WithLocators(ls, Append(lines, line)) =
                IF line.loc = "none" THEN WithLocators(ls, lines) ELSE
                [WithLocators(ls, lines) EXCEPT ![line.ext][line.format] = line.loc]
    BY <1>1
<1> DEFINE more == Append(lines, line)
           row  == [from |-> "files", loc |-> line.loc]
           end  == Len(lines) + 1
<1>2. line.ext \in Ids /\ line.format \in Formats
    BY DEF FileLine
<1>3. ASSUME NEW e \in Ids, NEW f \in Formats
      PROVE  WithFiles(rs, more)[e][f] =
                IF e = line.ext /\ f = line.format THEN row ELSE WithFiles(rs, lines)[e][f]
  <2>1. OfFile(more, e, f) = OfFile(lines, e, f) \cup
            (IF line.ext = e /\ line.format = f THEN {end} ELSE {})
      BY AboutMore
  <2>2. OfFile(lines, e, f) \in SUBSET (DOMAIN lines)
      BY DEF OfFile, About
  <2>3. /\ Last(more, OfFile(lines, e, f) \cup {end}) = line
        /\ OfFile(lines, e, f) # {} =>
              Last(more, OfFile(lines, e, f)) = Last(lines, OfFile(lines, e, f))
      BY <2>2, LastOfMore
  <2> HIDE DEF more, end
  <2> QED
      BY <2>1, <2>3 DEF WithFiles
<1>4. ASSUME NEW e \in Ids, NEW f \in Formats
      PROVE  WithLocators(ls, more)[e][f] =
                IF e = line.ext /\ f = line.format /\ line.loc # "none"
                THEN line.loc ELSE WithLocators(ls, lines)[e][f]
  <2>1. Sourced(more, e, f) = Sourced(lines, e, f) \cup
            (IF line.ext = e /\ line.format = f /\ line.loc # "none" THEN {end} ELSE {})
      BY AboutMore
  <2>2. Sourced(lines, e, f) \in SUBSET (DOMAIN lines)
      BY DEF Sourced, OfFile, About
  <2>3. /\ Last(more, Sourced(lines, e, f) \cup {end}) = line
        /\ Sourced(lines, e, f) # {} =>
              Last(more, Sourced(lines, e, f)) = Last(lines, Sourced(lines, e, f))
      BY <2>2, LastOfMore
  <2> HIDE DEF more, end
  <2> QED
      BY <2>1, <2>3 DEF WithLocators
<1>5. WithFiles(rs, more) = [WithFiles(rs, lines) EXCEPT ![line.ext][line.format] = row]
  <2>1. more \in Seq(FileLine) /\ row \in Row
      BY AppendProperties DEF Row, FileLine, LocatorKinds
  <2> HIDE DEF more, row
  <2> DEFINE old == WithFiles(rs, lines)
             new == WithFiles(rs, more)
  <2>2. old \in [Ids -> [Formats -> Row]] /\ new \in [Ids -> [Formats -> Row]]
      BY <2>1, FileBatchTypes DEF RowTable
  <2>3. \A e \in Ids, f \in Formats :
            new[e][f] = IF e = line.ext /\ f = line.format THEN row ELSE old[e][f]
      BY <1>3
  <2> HIDE DEF old, new
  <2>4. \A a \in Ids, b \in Formats, c \in Row :
            (\A x \in Ids, y \in Formats :
                 new[x][y] = IF x = a /\ y = b THEN c ELSE old[x][y])
               => new = [old EXCEPT ![a][b] = c]
      BY <2>2, CellIsSet
  <2>5. new = [old EXCEPT ![line.ext][line.format] = row]
      BY <1>2, <2>1, <2>3, <2>4
  <2> QED
      BY <2>5 DEF old, new
<1>6. CASE line.loc = "none"
  <2> HIDE DEF more
  <2>1. WithLocators(ls, more) = WithLocators(ls, lines)
      BY <1>4, <1>6 DEF WithLocators
  <2> QED
      BY <1>5, <1>6, <2>1 DEF more
<1>7. CASE line.loc # "none"
  <2>1. more \in Seq(FileLine) /\ line.loc \in LocatorKinds
      BY AppendProperties DEF FileLine, LocatorKinds
  <2> HIDE DEF more
  <2> DEFINE old == WithLocators(ls, lines)
             new == WithLocators(ls, more)
  <2>2. old \in [Ids -> [Formats -> LocatorKinds]] /\ new \in [Ids -> [Formats -> LocatorKinds]]
      BY <2>1, FileBatchTypes DEF LocatorTable
  <2>3. \A e \in Ids, f \in Formats :
            new[e][f] = IF e = line.ext /\ f = line.format THEN line.loc ELSE old[e][f]
      BY <1>4, <1>7
  <2> HIDE DEF old, new
  <2>4. \A a \in Ids, b \in Formats, c \in LocatorKinds :
            (\A x \in Ids, y \in Formats :
                 new[x][y] = IF x = a /\ y = b THEN c ELSE old[x][y])
               => new = [old EXCEPT ![a][b] = c]
      BY <2>2, CellIsSet
  <2>5. new = [old EXCEPT ![line.ext][line.format] = line.loc]
      BY <1>2, <2>1, <2>3, <2>4
  <2> QED
      BY <1>5, <1>7, <2>5 DEF more, old, new
<1> QED
    BY <1>6, <1>7
=============================================================================
