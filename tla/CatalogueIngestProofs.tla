----------------------- MODULE CatalogueIngestProofs -----------------------
(***************************************************************************)
(* What the ingest keeps for every payload, batch size, limit and number   *)
(* of restarts: types, the order of locators and books, how far the        *)
(* progress file may be ahead, when the marker tells the truth, and that   *)
(* no run goes on for ever.                                                *)
(***************************************************************************)
EXTENDS CatalogueIngest, FiniteSetTheorems, SequenceTheorems, TLAPS

At == IF pc = "decode" THEN 1 ELSE 0   \* the line that is being decoded

\* Where the ingest stands agrees with what it counts and holds.
Shape ==
    /\ IsFiniteSet(batch)
    /\ pos <= Len(payload)
    /\ pc = "down" => pos = 0 /\ skip = 0 /\ batch = {}
    /\ pc \in {"read", "decode"} => Cardinality(batch) < Batch
    /\ pc = "decode" => pos > 0 /\ skip = 0
    /\ pc \in {"index", "clear", "mark", "finished"} => batch = {}
    /\ pc \in {"clear", "mark"} => ~broken
    /\ pc \in {"index", "clear"} => dump = "records"
    /\ \A n \in 1..Lines : Line(n) \in batch => n <= pos - At
    /\ batch \subseteq {Line(n) : n \in 1..Lines}

\* The first run starts from nothing, and of a file dump no progress is kept.
FirstRun ==
    /\ restarts = 0 /\ pc = "down" => progress = 0 /\ ~marker /\ stored = {}
    /\ restarts = 0 => seen = pos /\ skip = 0
    /\ dump = "files" => progress = 0 /\ skip = 0
    /\ marker => pc \in {"down", "finished", "stopped"}

\* The locators of records go ahead of their books.
LocatorsLead == stored \subseteq located /\ (dump = "records" => batch \subseteq located)

\* Without skipped lines the batch in memory is what lies between the lines
\* committed and the lines read.
Aligned ==
    dump = "records" /\ NothingSkipped /\ restarts = 0 /\ pc # "stopped" =>
        \A n \in DOMAIN payload : n <= pos - Cardinality(batch) - At => Line(n) \in stored

\* What a resumed ingest would skip is committed, in the first run and when the
\* second starts over the same payload.
ResumeIsSafe ==
    /\ NothingSkipped /\ dump = "records"
    /\ restarts = 0 \/ (restarts = 1 /\ version = 1 /\ pc = "down")
    => \A n \in DOMAIN payload : n <= progress => Line(n) \in stored

\* The runs whose books are all accounted for.
Earns ==
    \/ restarts = 0
    \/ restarts = 1 /\ version = 1 /\ NothingSkipped
    \/ dump = "files" /\ version = 1

\* Every record up to the place of the reader is committed or in the batch.
Accounted ==
    Earns /\ pc \notin {"down", "finished", "stopped"} =>
        \A n \in DOMAIN payload :
            payload[n] = "good" /\ n <= pos + skip - At => Line(n) \in stored \cup batch

\* The payloads that an end of the reader ends.
Fits == dump = "files" \/ Limit = 0 \/ Len(payload) <= Limit

ReadToTheEnd ==
    Fits /\ pc \in {"drain", "index", "clear", "mark"} /\ ~broken => Len(payload) <= pos + skip

\* How a payload that was read to its end becomes one the marker may speak of.
Sealed ==
    Earns /\ Fits =>
        /\ pc \in {"index", "clear", "mark"} /\ ~broken => Records \subseteq stored
        /\ pc \in {"clear", "mark"} => Records \subseteq Found
        /\ marker => Records \subseteq Found

\* The inductive invariant.
IngestInv ==
    /\ TypeOK /\ Shape /\ FirstRun /\ LocatorsLead /\ Aligned /\ ResumeIsSafe
    /\ Accounted /\ ReadToTheEnd /\ Sealed /\ OneBatchAtRisk

-----------------------------------------------------------------------------
\* A payload is a sequence of at most Lines lines.
LEMMA PayloadIsSequence ==
    ASSUME NEW p \in Payloads
    PROVE  Len(p) \in 0..Lines /\ DOMAIN p = 1..Len(p) /\ p \in [1..Len(p) -> LineKinds]
<1>1. PICK n \in 0..Lines : p \in [1..n -> LineKinds]
    BY PayloadAssumption
<1>2. n \in Nat
    BY <1>1, BoundAssumption
<1>3. p \in Seq(LineKinds)
    BY <1>1, <1>2, SeqDef
<1>4. Len(p) \in Nat /\ DOMAIN p = 1..Len(p) /\ p \in [1..Len(p) -> LineKinds]
    BY <1>3, LenProperties
<1>5. Len(p) = n
    BY <1>1, <1>2, <1>3
<1>. QED BY <1>1, <1>4, <1>5

\* The progress that is written at line n is behind n by a whole batch.
LEMMA CheckpointIsBehind ==
    ASSUME NEW n \in Nat \ {0}, n % Batch = 0
    PROVE  n - Batch \in Nat
<1>1. Batch \in Nat \ {0}
    BY BoundAssumption
<1>2. n < Batch => n % Batch = n
    BY <1>1
<1>. QED BY <1>1, <1>2

\* What the steps use of the payload and of the lines.
LEMMA LineFacts ==
    ASSUME TypeOK
    PROVE  /\ Len(payload) \in 0..Lines /\ DOMAIN payload = 1..Len(payload)
           /\ \A m, n : Line(m) = Line(n) => m = n
           /\ Batch \in Nat \ {0} /\ Lines \in Nat /\ Limit \in Nat /\ MaxVersions \in Nat
           /\ pos \in 0..Lines /\ version \in 1..MaxVersions
<1>1. Len(payload) \in 0..Lines /\ DOMAIN payload = 1..Len(payload)
    BY PayloadIsSequence DEF TypeOK
<1>. QED BY <1>1, BoundAssumption DEF TypeOK, Line, Versions

\* While the reader reads, the records at risk are those of the batch.
LEMMA RiskIsBatch ==
    ASSUME IngestInv, pc = "read", restarts = 0
    PROVE  /\ IsFiniteSet({n \in 1..pos : Line(n) \in Records \ stored})
           /\ Cardinality({n \in 1..pos : Line(n) \in Records \ stored}) <= Cardinality(batch)
<1> DEFINE Risk == {n \in 1..pos : Line(n) \in Records \ stored}
<1>1. \A m, n : Line(m) = Line(n) => m = n
    BY LineFacts DEF IngestInv
<1>2. ASSUME NEW n \in Risk
      PROVE  Line(n) \in batch
    <2>1. PICK m \in DOMAIN payload : payload[m] = "good" /\ Line(n) = Line(m)
        BY <1>2 DEF Records
    <2>2. n = m /\ n <= pos /\ n \in Int
        BY <1>1, <1>2, <2>1, LineFacts DEF IngestInv
    <2>. QED BY <1>2, <2>1, <2>2, LineFacts DEF IngestInv, Accounted, Earns, At, FirstRun, TypeOK
<1> DEFINE f == [n \in Risk |-> Line(n)]
<1>3. f \in Injection(Risk, batch)
    BY <1>1, <1>2 DEF Injection, IsInjective
<1>4. IsFiniteSet(batch)
    BY DEF IngestInv, Shape
<1>5. IsFiniteSet(Risk) /\ Cardinality(Risk) <= Cardinality(batch)
    BY <1>3, <1>4, FS_Injection
<1>. QED BY <1>5

-----------------------------------------------------------------------------
\* The invariant holds before the first start.
LEMMA IngestInvInit == Init => IngestInv
<1> SUFFICES ASSUME Init PROVE IngestInv
    OBVIOUS
<1>1. Len(payload) \in 0..Lines /\ DOMAIN payload = 1..Len(payload)
    BY PayloadIsSequence DEF Init
<1>2. IsFiniteSet({}) /\ Cardinality({}) = 0
    BY FS_EmptySet
<1>3. TypeOK
    <2>1. /\ 0 \in 0..Lines /\ 0 \in 0..0 /\ 0 \in 0..MaxRestarts /\ 0 <= Batch
          /\ 1 \in 1..MaxVersions
        BY BoundAssumption
    <2>2. Cardinality(batch) <= Batch
        BY <1>2, <2>1 DEF Init
    <2>. QED BY <2>1, <2>2 DEF Init, TypeOK, Versions
<1>4. Shape /\ FirstRun /\ LocatorsLead
    BY <1>1, <1>2, BoundAssumption DEF Init, Shape, FirstRun, LocatorsLead, At
<1>5. Aligned /\ ResumeIsSafe
    BY <1>1, <1>2 DEF Init, Aligned, ResumeIsSafe, At
<1>6. Accounted /\ ReadToTheEnd /\ Sealed
    BY DEF Init, Accounted, ReadToTheEnd, Sealed
<1>7. OneBatchAtRisk
    <2>1. {n \in 1..pos : Line(n) \in Records \ stored} = {}
        BY DEF Init
    <2>. QED BY <2>1, <1>2, BoundAssumption DEF OneBatchAtRisk
<1>. QED BY <1>3, <1>4, <1>5, <1>6, <1>7 DEF IngestInv

\* A start: over the same payload what is skipped is committed.
LEMMA StartKeepsInv ==
    ASSUME IngestInv, Start
    PROVE  IngestInv'
<1> USE DEF IngestInv
<1>1. /\ pc = "down" /\ pc' = (IF marker THEN "finished" ELSE "read")
      /\ skip' = progress /\ seen' = progress /\ pos' = 0 /\ passed' = 0
      /\ batch' = {} /\ broken' = FALSE /\ UNCHANGED <<diskVars, restarts, dump>>
    BY DEF Start, Retrieve, payloadVars
<1>2. \/ UNCHANGED <<payload, version>>
      \/ payload' \in Payloads /\ version' = version + 1 /\ version < MaxVersions
    BY DEF Start, Retrieve, payloadVars
<1>3. IsFiniteSet({}) /\ Cardinality({}) = 0
    BY FS_EmptySet
<1>4. TypeOK'
    <2>1. /\ 0 \in 0..Lines /\ 0 \in 0..0 /\ 0 <= Batch
        BY BoundAssumption
    <2>2. Cardinality(batch') <= Batch
        BY <1>1, <1>3, <2>1
    <2>3. version' \in Versions /\ payload' \in Payloads
        BY <1>2, BoundAssumption DEF TypeOK, Versions
    <2>. QED BY <1>1, <2>1, <2>2, <2>3 DEF TypeOK, diskVars, AnyLine
<1>5. Len(payload') \in 0..Lines /\ DOMAIN payload' = 1..Len(payload')
    BY <1>4, PayloadIsSequence DEF TypeOK
<1>6. Shape'
    <2>1. pc' \in {"read", "finished"} /\ batch' = {} /\ pos' = 0 /\ Batch \in Nat \ {0}
        BY <1>1, BoundAssumption
    <2>. QED BY <2>1, <1>3, <1>5 DEF Shape
<1>7. FirstRun'
    BY <1>1 DEF FirstRun, diskVars, TypeOK
<1>8. LocatorsLead'
    BY <1>1 DEF LocatorsLead, diskVars
<1>9. Aligned'
    BY <1>1, <1>3, <1>5 DEF Aligned, At
<1>10. ResumeIsSafe'
    BY <1>1, <1>5 DEF ResumeIsSafe, FirstRun, diskVars, TypeOK
<1>11. Accounted'
    <2>1. SUFFICES ASSUME Earns', pc' = "read", NEW n \in DOMAIN payload', (payload')[n] = "good", n <= progress
          PROVE  Line(n)' \in stored
        BY <1>1 DEF Accounted, At, diskVars, TypeOK
    <2>2. progress # 0 /\ restarts # 0 /\ dump = "records"
        BY <1>1, <1>5, <2>1 DEF FirstRun, TypeOK
    <2>3. restarts = 1 /\ version' = 1 /\ NothingSkipped'
        BY <1>1, <2>1, <2>2 DEF Earns
    <2>4. UNCHANGED <<payload, version>>
        BY <1>2, <2>3 DEF TypeOK, Versions
    <2>. QED BY <1>1, <2>1, <2>2, <2>3, <2>4 DEF ResumeIsSafe, NothingSkipped, Line
<1>12. ReadToTheEnd'
    BY <1>1 DEF ReadToTheEnd
<1>13. Sealed'
    <2>1. SUFFICES ASSUME Earns', Fits', marker
          PROVE  (Records \subseteq Found)'
        BY <1>1 DEF Sealed, diskVars
    <2>2. restarts # 0
        BY <1>1, <2>1 DEF FirstRun
    <2>3. version' = 1
        BY <1>1, <2>1, <2>2 DEF Earns
    <2>4. UNCHANGED <<payload, version>>
        BY <1>2, <2>3 DEF TypeOK, Versions
    <2>. QED BY <1>1, <2>1, <2>4 DEF Sealed, Earns, Fits, Records, Found, NothingSkipped, Line, diskVars
<1>14. OneBatchAtRisk'
    <2>1. {n \in 1..pos' : Line(n)' \in (Records \ stored)'} = {}
        BY <1>1
    <2>. QED BY <2>1, <1>3, BoundAssumption DEF OneBatchAtRisk
<1>. QED BY <1>4, <1>6, <1>7, <1>8, <1>9, <1>10, <1>11, <1>12, <1>13, <1>14

\* A start that fails reads nothing and leaves the disk as it is.
LEMMA StartFailsKeepsInv ==
    ASSUME IngestInv, StartFails
    PROVE  IngestInv'
<1> USE DEF IngestInv, diskVars, readerVars
<1>1. /\ pc = "down" /\ pc' = "stopped"
      /\ UNCHANGED <<diskVars, readerVars, batch, broken, restarts, dump>>
      /\ \/ UNCHANGED <<payload, version>>
         \/ ~marker /\ payload' \in Payloads /\ version' = version + 1 /\ version < MaxVersions
    BY DEF StartFails, Retrieve, payloadVars
<1>2. pos = 0 /\ skip = 0 /\ batch = {}
    BY <1>1 DEF Shape
<1>3. TypeOK'
    <2>1. version' \in Versions /\ payload' \in Payloads
        BY <1>1, BoundAssumption DEF TypeOK, Versions
    <2>. QED BY <1>1, <2>1 DEF TypeOK, AnyLine
<1>4. Len(payload') \in 0..Lines /\ DOMAIN payload' = 1..Len(payload')
    BY <1>3, PayloadIsSequence DEF TypeOK
<1>5. Shape'
    BY <1>1, <1>2, <1>4 DEF Shape
<1>6. FirstRun' /\ LocatorsLead'
    BY <1>1 DEF FirstRun, LocatorsLead
<1>7. Aligned' /\ Accounted' /\ ReadToTheEnd'
    BY <1>1 DEF Aligned, Accounted, ReadToTheEnd
<1>8. ResumeIsSafe'
    BY <1>1, <1>4 DEF ResumeIsSafe, FirstRun, TypeOK
<1>9. Sealed'
    <2>1. CASE marker
        BY <1>1, <2>1 DEF Sealed, Earns, Fits, Records, Found, NothingSkipped, Line
    <2>2. CASE ~marker
        BY <1>1, <2>2 DEF Sealed
    <2>. QED BY <2>1, <2>2
<1>10. OneBatchAtRisk'
    <2>1. {n \in 1..pos' : Line(n)' \in (Records \ stored)'} = {}
        BY <1>1, <1>2
    <2>. QED BY <2>1, FS_EmptySet, BoundAssumption DEF OneBatchAtRisk
<1>. QED BY <1>3, <1>5, <1>6, <1>7, <1>8, <1>9, <1>10

\* A database error ends the run with what is on disk.
LEMMA StopKeepsInv ==
    ASSUME IngestInv, pc \notin {"down", "finished"}, pc' = "stopped",
           UNCHANGED <<payloadVars, diskVars, readerVars, batch, broken, restarts>>
    PROVE  IngestInv'
<1> USE DEF IngestInv, payloadVars, diskVars, readerVars
<1>1. TypeOK'
    BY DEF TypeOK, AnyLine, Versions
<1>2. Shape'
    BY LineFacts DEF Shape, At, Line
<1>3. FirstRun' /\ LocatorsLead'
    BY DEF FirstRun, LocatorsLead
<1>4. Aligned' /\ ResumeIsSafe' /\ Accounted' /\ ReadToTheEnd'
    BY DEF Aligned, ResumeIsSafe, NothingSkipped, Line, Accounted, ReadToTheEnd
<1>5. Sealed' /\ OneBatchAtRisk'
    BY DEF Sealed, Earns, Fits, Records, Found, NothingSkipped, Line, OneBatchAtRisk
<1>. QED BY <1>1, <1>2, <1>3, <1>4, <1>5

\* A line below the resume point moves the reader, and nothing else.
LEMMA SkipLineKeepsInv ==
    ASSUME IngestInv, SkipLine
    PROVE  IngestInv'
<1> USE DEF IngestInv, payloadVars, diskVars
<1>1. /\ pc = "read" /\ pos < Len(payload) /\ skip > 0 /\ pos' = pos + 1
      /\ seen' = seen + 1 /\ skip' = skip - 1
      /\ UNCHANGED <<payloadVars, diskVars, passed, pc, batch, broken, restarts>>
    BY DEF SkipLine
<1>2. restarts # 0 /\ skip \in Nat /\ pos + 1 \in 0..Lines /\ pos \in Nat
    BY <1>1, LineFacts DEF FirstRun, TypeOK
<1>3. TypeOK'
    BY <1>1, <1>2 DEF TypeOK, AnyLine, Versions
<1>4. Shape'
    BY <1>1, <1>2, LineFacts DEF Shape, At, Line
<1>5. FirstRun' /\ LocatorsLead'
    BY <1>1, <1>2 DEF FirstRun, LocatorsLead
<1>6. Aligned' /\ ResumeIsSafe'
    BY <1>1, <1>2 DEF Aligned, ResumeIsSafe, NothingSkipped, Line
<1>7. Accounted'
    <2>1. SUFFICES ASSUME Earns, NEW n \in DOMAIN payload, payload[n] = "good", n <= (pos + 1) + (skip - 1) - 0
          PROVE  Line(n) \in stored \cup batch
        BY <1>1 DEF Accounted, Earns, NothingSkipped, Line, At
    <2>2. n <= pos + skip - 0
        BY <1>2, <2>1, LineFacts
    <2>. QED BY <1>1, <2>1, <2>2 DEF Accounted, At
<1>8. ReadToTheEnd' /\ Sealed' /\ OneBatchAtRisk'
    BY <1>1, <1>2 DEF ReadToTheEnd, Sealed, Earns, Fits, Records, Found, NothingSkipped, Line, OneBatchAtRisk
<1>. QED BY <1>3, <1>4, <1>5, <1>6, <1>7, <1>8

\* A line that is handed out; the progress that may be written with it is behind
\* the lines that are committed.
LEMMA ReadLineKeepsInv ==
    ASSUME IngestInv, ReadLine
    PROVE  IngestInv'
<1> USE DEF IngestInv, payloadVars
<1>1. /\ pc = "read" /\ pos < Len(payload) /\ skip = 0 /\ pos' = pos + 1
      /\ seen' = seen + 1 /\ passed' = passed + 1 /\ pc' = "decode"
      /\ UNCHANGED <<payloadVars, marker, located, stored, indexed, skip, batch, broken, restarts>>
    BY DEF ReadLine
<1>2. /\ skip \in Nat /\ pos + 1 \in 0..Lines /\ pos \in Nat /\ seen \in Nat
      /\ IsFiniteSet(batch) /\ Cardinality(batch) \in Nat /\ Cardinality(batch) <= Batch - 1
      /\ Batch \in Nat \ {0}
    BY <1>1, LineFacts, FS_CardinalityType DEF Shape, TypeOK
<1>3. \/ progress' = progress
      \/ dump = "records" /\ progress' = seen + 1 - Batch /\ progress' \in Nat
    <2>1. (seen + 1) % Batch = 0 => seen + 1 - Batch \in Nat
        BY <1>2, CheckpointIsBehind
    <2>2. UNCHANGED progress \/ (dump = "records" /\ Checkpoint(seen + 1))
        BY DEF ReadLine
    <2>3. Checkpoint(seen + 1) =>
            UNCHANGED progress \/ ((seen + 1) % Batch = 0 /\ progress' = seen + 1 - Batch)
        BY <1>2 DEF Checkpoint
    <2>. QED BY <2>1, <2>2, <2>3
<1>4. TypeOK'
    BY <1>1, <1>2, <1>3 DEF TypeOK, AnyLine, Versions
<1>5. Shape'
    BY <1>1, <1>2, LineFacts DEF Shape, At, Line
<1>6. FirstRun' /\ LocatorsLead'
    BY <1>1, <1>2, <1>3 DEF FirstRun, LocatorsLead
<1>7. Aligned'
    BY <1>1, <1>2, LineFacts DEF Aligned, NothingSkipped, Line, At
<1>8. ResumeIsSafe'
    <2>1. ASSUME restarts = 0, dump = "records", NothingSkipped, progress' = seen + 1 - Batch,
                 NEW n \in DOMAIN payload, n <= progress'
          PROVE  Line(n) \in stored
        <3>1. seen = pos /\ n \in Nat
            BY <2>1, LineFacts DEF FirstRun
        <3>2. n <= pos - Cardinality(batch) - 0
            BY <1>2, <2>1, <3>1
        <3>. QED BY <1>1, <2>1, <3>2 DEF Aligned, At
    <2>. QED BY <1>1, <1>3, <2>1 DEF ResumeIsSafe, NothingSkipped, Line
<1>9. Accounted'
    BY <1>1, <1>2, LineFacts DEF Accounted, Earns, NothingSkipped, Line, At
<1>10. ReadToTheEnd' /\ Sealed'
    BY <1>1 DEF ReadToTheEnd, Sealed, Earns, Fits, Records, Found, NothingSkipped, Line
<1>11. OneBatchAtRisk'
    <2> DEFINE Risk == {n \in 1..pos : Line(n) \in Records \ stored}
    <2>1. SUFFICES ASSUME restarts = 0
                   PROVE  Cardinality({n \in 1..(pos + 1) : Line(n) \in Records \ stored}) <= Batch
        BY <1>1 DEF OneBatchAtRisk, Records, Line
    <2>2. IsFiniteSet(Risk) /\ Cardinality(Risk) <= Cardinality(batch)
        BY <1>1, <2>1, RiskIsBatch
    <2>3. IsFiniteSet(Risk \cup {pos + 1}) /\ Cardinality(Risk \cup {pos + 1}) <= Cardinality(Risk) + 1
              /\ Cardinality(Risk) \in Nat /\ Cardinality(Risk \cup {pos + 1}) \in Nat
        <3>. HIDE DEF Risk
        <3>1. IsFiniteSet(Risk \cup {pos + 1})
            BY <2>2, FS_AddElement
        <3>2. Cardinality(Risk) \in Nat /\ Cardinality(Risk \cup {pos + 1}) \in Nat
            BY <2>2, <3>1, FS_CardinalityType
        <3>3. Cardinality(Risk \cup {pos + 1}) = IF pos + 1 \in Risk THEN Cardinality(Risk) ELSE Cardinality(Risk) + 1
            BY <2>2, FS_AddElement
        <3>. QED BY <3>1, <3>2, <3>3
    <2>4. {n \in 1..(pos + 1) : Line(n) \in Records \ stored} \in SUBSET (Risk \cup {pos + 1})
        BY <1>2
    <2>5. Cardinality({n \in 1..(pos + 1) : Line(n) \in Records \ stored}) <= Cardinality(Risk \cup {pos + 1})
          /\ Cardinality({n \in 1..(pos + 1) : Line(n) \in Records \ stored}) \in Nat
        BY <2>3, <2>4, FS_Subset, FS_CardinalityType
    <2>. HIDE DEF Risk
    <2>. QED BY <1>2, <2>2, <2>3, <2>5
<1>. QED BY <1>4, <1>5, <1>6, <1>7, <1>8, <1>9, <1>10, <1>11

\* The end of the reader: without an error only where the payload ends.
LEMMA ReadEndKeepsInv ==
    ASSUME IngestInv, ReadEnd
    PROVE  IngestInv'
<1> USE DEF IngestInv, payloadVars, diskVars, readerVars
<1>1. /\ pc = "read" /\ pc' = "drain" /\ broken' \in BOOLEAN
      /\ UNCHANGED <<payloadVars, diskVars, readerVars, batch, restarts>>
    BY DEF ReadEnd, TypeOK
<1>2. TypeOK'
    BY <1>1 DEF TypeOK, AnyLine, Versions
<1>3. Shape'
    BY <1>1, LineFacts DEF Shape, At, Line
<1>4. FirstRun' /\ LocatorsLead'
    BY <1>1 DEF FirstRun, LocatorsLead
<1>5. Aligned' /\ ResumeIsSafe' /\ Accounted'
    BY <1>1 DEF Aligned, ResumeIsSafe, Accounted, Earns, NothingSkipped, Line, At
<1>6. ReadToTheEnd'
    <2>1. ASSUME Fits, ~broken'
          PROVE  Len(payload) <= pos + skip
        <3>1. CASE AtLimit /\ dump # "files"
            BY <2>1, <3>1, LineFacts DEF AtLimit, Fits, TypeOK
        <3>2. CASE pos = Len(payload)
            BY <3>2, LineFacts DEF TypeOK
        <3>. QED BY <2>1, <3>1, <3>2 DEF ReadEnd
    <2>. QED BY <1>1, <2>1 DEF ReadToTheEnd, Fits
<1>7. Sealed' /\ OneBatchAtRisk'
    BY <1>1 DEF Sealed, Earns, Fits, Records, Found, NothingSkipped, Line, OneBatchAtRisk, FirstRun
<1>. QED BY <1>2, <1>3, <1>4, <1>5, <1>6, <1>7

\* A skipped line.
LEMMA SkipRecordKeepsInv ==
    ASSUME IngestInv, SkipRecord
    PROVE  IngestInv'
<1> USE DEF IngestInv, payloadVars, diskVars, readerVars
<1>1. /\ pc = "decode" /\ payload[pos] = "bad" /\ pc' = "read"
      /\ UNCHANGED <<payloadVars, diskVars, readerVars, batch, broken, restarts>>
    BY DEF SkipRecord
<1>2. pos \in DOMAIN payload
    BY <1>1, LineFacts DEF Shape
<1>3. TypeOK'
    BY <1>1 DEF TypeOK, AnyLine, Versions
<1>4. Shape'
    BY <1>1, LineFacts DEF Shape, At, Line
<1>5. FirstRun' /\ LocatorsLead'
    BY <1>1 DEF FirstRun, LocatorsLead
<1>6. Aligned' /\ ResumeIsSafe'
    BY <1>1, <1>2 DEF Aligned, ResumeIsSafe, NothingSkipped, Line
<1>7. Accounted'
    <2>1. ASSUME NEW n \in DOMAIN payload, payload[n] = "good", n <= pos + skip
          PROVE  n <= pos + skip - 1
        BY <1>1, <1>2, <2>1, LineFacts DEF Shape
    <2>2. SUFFICES ASSUME Earns, NEW n \in DOMAIN payload, payload[n] = "good", n <= pos + skip - 0
          PROVE  Line(n) \in stored \cup batch
        BY <1>1 DEF Accounted, Earns, NothingSkipped, Line, At
    <2>3. n <= pos + skip
        BY <2>2, LineFacts DEF TypeOK
    <2>. QED BY <1>1, <2>1, <2>2, <2>3 DEF Accounted, At
<1>8. ReadToTheEnd' /\ Sealed' /\ OneBatchAtRisk'
    BY <1>1 DEF ReadToTheEnd, Sealed, Earns, Fits, Records, Found, NothingSkipped, Line, OneBatchAtRisk, FirstRun
<1>. QED BY <1>3, <1>4, <1>5, <1>6, <1>7, <1>8

\* A record joins the batch, its locator first.
LEMMA AddRecordKeepsInv ==
    ASSUME IngestInv, AddRecord
    PROVE  IngestInv'
<1> USE DEF IngestInv, payloadVars, readerVars
<1>1. CASE dump = "records" /\ Stop
    BY <1>1, StopKeepsInv DEF AddRecord, Stop, diskVars
<1>2. CASE /\ located' = (IF dump = "records" THEN located \cup {Line(pos)} ELSE located)
           /\ batch' = batch \cup {Line(pos)}
           /\ pc' = (IF Cardinality(batch') >= Batch THEN "flush" ELSE "read")
           /\ UNCHANGED <<progress, marker, stored, indexed>>
    <2>1. /\ pc = "decode" /\ payload[pos] = "good" /\ pc' \in {"read", "flush"}
          /\ UNCHANGED <<payloadVars, readerVars, broken, restarts>>
        BY <1>2 DEF AddRecord
    <2>2. /\ pos \in 1..Lines /\ pos \in DOMAIN payload /\ skip = 0 /\ IsFiniteSet(batch)
          /\ Cardinality(batch) < Batch /\ Line(pos) \notin batch
        BY <2>1, LineFacts DEF Shape, At
    <2>3. /\ IsFiniteSet(batch') /\ Cardinality(batch') = Cardinality(batch) + 1
          /\ Cardinality(batch) \in Nat
        BY <1>2, <2>2, FS_AddElement, FS_CardinalityType
    <2>4. Cardinality(batch') <= Batch /\ (pc' = "read" => Cardinality(batch') < Batch)
        BY <1>2, <2>2, <2>3, LineFacts
    <2>5. TypeOK'
        <3>1. Line(pos) \in AnyLine
            BY <2>2, LineFacts DEF AnyLine, Versions, Line
        <3>. QED BY <1>2, <2>1, <2>4, <3>1 DEF TypeOK, AnyLine, Versions
    <2>6. Shape'
        BY <1>2, <2>1, <2>2, <2>3, <2>4, LineFacts DEF Shape, At, Line
    <2>7. FirstRun' /\ LocatorsLead'
        BY <1>2, <2>1 DEF FirstRun, LocatorsLead
    <2>8. Aligned'
        <3>1. SUFFICES ASSUME dump = "records", NothingSkipped, restarts = 0, NEW n \in DOMAIN payload,
                              n <= pos - (Cardinality(batch) + 1) - 0
                       PROVE  Line(n) \in stored
            BY <1>2, <2>1, <2>3 DEF Aligned, At, NothingSkipped, Line
        <3>2. n <= pos - Cardinality(batch) - 1
            BY <2>2, <2>3, <3>1, LineFacts
        <3>. QED BY <2>1, <3>1, <3>2 DEF Aligned, At
    <2>9. ResumeIsSafe'
        BY <1>2, <2>1 DEF ResumeIsSafe, NothingSkipped, Line
    <2>10. Accounted'
        <3>1. SUFFICES ASSUME Earns, NEW n \in DOMAIN payload, payload[n] = "good", n <= pos + skip - 0
                       PROVE  Line(n) \in stored \cup batch'
            BY <1>2, <2>1 DEF Accounted, Earns, NothingSkipped, Line, At
        <3>2. n = pos \/ n <= pos + skip - 1
            BY <2>2, <3>1, LineFacts
        <3>. QED BY <1>2, <2>1, <3>1, <3>2 DEF Accounted, At
    <2>11. ReadToTheEnd' /\ Sealed' /\ OneBatchAtRisk'
        BY <1>2, <2>1 DEF ReadToTheEnd, Sealed, FirstRun, OneBatchAtRisk, Records, Line
    <2>. QED BY <2>5, <2>6, <2>7, <2>8, <2>9, <2>10, <2>11
<1>. QED BY <1>1, <1>2 DEF AddRecord

\* What was read is committed, or the run ends.
LEMMA CommitKeepsInv ==
    ASSUME IngestInv, Flush \/ LastFlush
    PROVE  IngestInv'
<1> USE DEF IngestInv, payloadVars, readerVars
<1>1. pc \in {"flush", "drain"} /\ UNCHANGED <<payloadVars, readerVars, broken, restarts>>
    BY DEF Flush, LastFlush, Commit
<1>2. CASE Stop
    BY <1>1, <1>2, StopKeepsInv DEF Stop, diskVars
<1>3. CASE ~Stop
    <2>1. /\ stored' = stored \cup batch /\ batch' = {}
          /\ located' = (IF dump = "files" THEN located \cup batch ELSE located)
          /\ UNCHANGED <<progress, marker, indexed>>
        BY <1>3 DEF Flush, LastFlush, Commit
    <2>2. \/ pc = "flush" /\ pc' = "read"
          \/ pc = "drain" /\ dump = "records" /\ pc' = "index"
          \/ pc = "drain" /\ dump = "files" /\ broken /\ pc' = "stopped"
          \/ pc = "drain" /\ dump = "files" /\ ~broken /\ pc' = "mark"
        BY <1>3 DEF Flush, LastFlush, Commit, TypeOK
    <2>3. IsFiniteSet({}) /\ Cardinality({}) = 0 /\ Batch \in Nat \ {0}
        BY FS_EmptySet, LineFacts
    <2>4. TypeOK'
        <3>1. Cardinality(batch') <= Batch
            BY <2>1, <2>3
        <3>. QED BY <1>1, <2>1, <2>2, <3>1 DEF TypeOK, AnyLine, Versions
    <2>5. Shape'
        BY <1>1, <2>1, <2>2, <2>3, LineFacts DEF Shape
    <2>6. FirstRun' /\ LocatorsLead'
        BY <1>1, <2>1, <2>2 DEF FirstRun, LocatorsLead, TypeOK
    <2>7. Aligned'
        <3>1. SUFFICES ASSUME dump = "records", NothingSkipped, restarts = 0, NEW n \in DOMAIN payload, n <= pos - 0 - 0
                       PROVE  Line(n) \in stored \cup batch
            BY <1>1, <2>1, <2>2, <2>3 DEF Aligned, At, NothingSkipped, Line
        <3>2. n <= pos + skip - 0 /\ payload[n] = "good"
            BY <3>1, LineFacts DEF FirstRun, NothingSkipped
        <3>. QED BY <1>1, <3>1, <3>2 DEF Accounted, Earns, At
    <2>8. ResumeIsSafe'
        BY <1>1, <2>1, <2>2 DEF ResumeIsSafe, NothingSkipped, Line
    <2>9. Accounted'
        BY <1>1, <2>1, <2>2 DEF Accounted, Earns, NothingSkipped, Line, At
    <2>10. ReadToTheEnd'
        BY <1>1, <2>2 DEF ReadToTheEnd, Fits
    <2>11. Sealed'
        <3>1. ASSUME Earns, Fits, ~broken, pc = "drain"
              PROVE  Records \subseteq stored \cup batch
            <4>1. \A n \in DOMAIN payload : n <= pos + skip - 0
                BY <3>1, LineFacts DEF ReadToTheEnd, TypeOK
            <4>. QED BY <1>1, <3>1, <4>1 DEF Accounted, At, Records
        <3>2. ~marker
            BY <1>1 DEF FirstRun
        <3>3. Records' = Records /\ (Earns' => Earns) /\ (Fits' => Fits)
            BY <1>1 DEF Records, Earns, Fits, NothingSkipped, Line
        <3>. QED BY <1>1, <2>1, <2>2, <3>1, <3>2, <3>3 DEF Sealed, Found
    <2>12. OneBatchAtRisk'
        <3> DEFINE Risk == {n \in 1..pos : Line(n) \in Records \ stored}
        <3> DEFINE Rest == {n \in 1..pos : Line(n) \in Records \ (stored \cup batch)}
        <3>1. IsFiniteSet(Risk)
            <4>1. IsFiniteSet(1..pos)
                BY FS_Interval, LineFacts
            <4>. QED BY <4>1, FS_Subset
        <3>2. Rest \in SUBSET Risk
            OBVIOUS
        <3>3. Cardinality(Rest) <= Cardinality(Risk) /\ Cardinality(Rest) \in Nat /\ Cardinality(Risk) \in Nat
            BY <3>1, <3>2, FS_Subset, FS_CardinalityType
        <3>4. restarts = 0 => Cardinality(Rest) <= Batch
            BY <2>3, <3>3 DEF OneBatchAtRisk
        <3>. QED BY <1>1, <2>1, <3>4 DEF OneBatchAtRisk, Records, Line
    <2>. QED BY <2>4, <2>5, <2>6, <2>7, <2>8, <2>9, <2>10, <2>11, <2>12
<1>. QED BY <1>2, <1>3

\* The end of the ingest: the index, the progress file, the marker.
LEMMA EndKeepsInv ==
    ASSUME IngestInv, RebuildFTS \/ RemoveProgress \/ WriteMarker
    PROVE  IngestInv'
<1> USE DEF IngestInv, payloadVars, readerVars
<1>1. pc \in {"index", "clear", "mark"} /\ UNCHANGED <<payloadVars, readerVars, broken, restarts>>
    BY DEF RebuildFTS, RemoveProgress, WriteMarker
<1>2. CASE RebuildFTS /\ Stop
    BY <1>1, <1>2, StopKeepsInv DEF Stop, diskVars
<1>3. CASE ~(RebuildFTS /\ Stop)
    <2>1. UNCHANGED <<located, stored, batch>>
        BY <1>3 DEF RebuildFTS, RemoveProgress, WriteMarker
    <2>2. \/ /\ pc = "index" /\ indexed' = stored /\ pc' = (IF broken THEN "stopped" ELSE "clear")
             /\ UNCHANGED <<progress, marker>>
          \/ pc = "clear" /\ progress' \in {0, progress} /\ pc' = "mark" /\ UNCHANGED <<indexed, marker>>
          \/ pc = "mark" /\ marker' \in {TRUE, marker} /\ pc' = "finished"
             /\ UNCHANGED <<indexed, progress>>
        BY <1>3 DEF RebuildFTS, RemoveProgress, WriteMarker
    <2>3. TypeOK'
        <3>1. progress' = progress \/ progress' = 0
            BY <2>2
        <3>2. marker' = marker \/ marker' = TRUE
            BY <2>2
        <3>3. indexed' = indexed \/ indexed' = stored
            BY <2>2
        <3>4. pc' \in {"stopped", "clear", "mark", "finished"}
            BY <2>2
        <3>5. progress' \in Nat
            BY <3>1 DEF TypeOK
        <3>6. marker' \in BOOLEAN
            BY <3>2 DEF TypeOK
        <3>7. indexed' \subseteq AnyLine
            BY <3>3 DEF TypeOK
        <3>. QED BY <1>1, <2>1, <3>4, <3>5, <3>6, <3>7 DEF TypeOK, AnyLine, Versions
    <2>4. Shape'
        BY <1>1, <2>1, <2>2, LineFacts DEF Shape, At, Line
    <2>5. FirstRun' /\ LocatorsLead'
        <3>1. progress' = progress \/ progress' = 0
            BY <2>2
        <3>2. pc' # "down" /\ ~marker
            BY <1>1, <2>2 DEF FirstRun
        <3>3. marker' => pc' = "finished"
            BY <2>2, <3>2
        <3>4. dump' = "files" => progress' = 0 /\ skip' = 0
            BY <1>1, <3>1 DEF FirstRun
        <3>5. restarts' = 0 => seen' = pos' /\ skip' = 0
            BY <1>1 DEF FirstRun
        <3>6. LocatorsLead'
            BY <1>1, <2>1 DEF LocatorsLead
        <3>. QED BY <3>2, <3>3, <3>4, <3>5, <3>6 DEF FirstRun
    <2>6. Aligned' /\ Accounted' /\ ReadToTheEnd'
        BY <1>1, <2>1, <2>2 DEF Aligned, Accounted, Earns, ReadToTheEnd, Fits, NothingSkipped, Line, At
    <2>7. ResumeIsSafe'
        <3>1. progress' = progress \/ progress' = 0
            BY <2>2
        <3>2. pc # "down" /\ pc' # "down"
            BY <1>1, <2>2
        <3>3. CASE progress' = 0
            BY <1>1, <3>3, LineFacts DEF ResumeIsSafe
        <3>4. CASE progress' = progress
            BY <1>1, <2>1, <3>2, <3>4 DEF ResumeIsSafe, NothingSkipped, Line
        <3>. QED BY <3>1, <3>3, <3>4
    <2>8. Sealed'
        <3>1. Records' = Records /\ (Earns' => Earns) /\ (Fits' => Fits)
            BY <1>1 DEF Records, Earns, Fits, NothingSkipped, Line
        <3>2. ~marker /\ dump' = dump /\ (pc = "index" => dump = "records") /\ (pc = "clear" => dump = "records" /\ ~broken)
              /\ (pc = "mark" => ~broken)
            BY <1>1 DEF FirstRun, Shape
        <3>. QED BY <1>1, <2>1, <2>2, <3>1, <3>2 DEF Sealed, Found
    <2>9. OneBatchAtRisk'
        BY <1>1, <2>1 DEF OneBatchAtRisk, Records, Line
    <2>. QED BY <2>3, <2>4, <2>5, <2>6, <2>7, <2>8, <2>9
<1>. QED BY <1>2, <1>3

\* A restart keeps the disk and nothing else.
LEMMA RestartKeepsInv ==
    ASSUME IngestInv, Restart
    PROVE  IngestInv'
<1> USE DEF IngestInv, payloadVars, diskVars
<1>1. /\ pc # "down" /\ restarts < MaxRestarts /\ pc' = "down" /\ restarts' = restarts + 1
      /\ skip' = 0 /\ seen' = 0 /\ pos' = 0 /\ passed' = 0 /\ batch' = {} /\ broken' = FALSE
      /\ UNCHANGED <<payloadVars, diskVars>>
    BY DEF Restart
<1>2. IsFiniteSet({}) /\ Cardinality({}) = 0 /\ restarts \in Nat /\ restarts' # 0
    BY <1>1, FS_EmptySet, BoundAssumption DEF TypeOK
<1>3. TypeOK'
    <2>1. Cardinality(batch') <= Batch /\ 0 \in 0..Lines /\ 0 \in 0..0 /\ restarts' \in 0..MaxRestarts
        BY <1>1, <1>2, BoundAssumption DEF TypeOK
    <2>. QED BY <1>1, <2>1 DEF TypeOK, AnyLine, Versions
<1>4. Shape'
    BY <1>1, <1>2, LineFacts DEF Shape
<1>5. FirstRun' /\ LocatorsLead'
    BY <1>1, <1>2 DEF FirstRun, LocatorsLead
<1>6. Aligned' /\ Accounted' /\ ReadToTheEnd' /\ OneBatchAtRisk'
    BY <1>1, <1>2 DEF Aligned, Accounted, ReadToTheEnd, OneBatchAtRisk
<1>7. ResumeIsSafe'
    BY <1>1, <1>2 DEF ResumeIsSafe, NothingSkipped, Line
<1>8. Sealed'
    <2>1. Records' = Records /\ Found' = Found /\ (Earns' => Earns) /\ (Fits' => Fits)
        BY <1>1, <1>2 DEF Records, Found, Earns, Fits, NothingSkipped, Line
    <2>. QED BY <1>1, <2>1 DEF Sealed
<1>. QED BY <1>3, <1>4, <1>5, <1>6, <1>7, <1>8

\* Every step keeps the invariant.
LEMMA IngestInvAlways == Spec => []IngestInv
<1>1. IngestInv /\ UNCHANGED vars => IngestInv'
    <2> SUFFICES ASSUME IngestInv, UNCHANGED vars PROVE IngestInv'
        OBVIOUS
    <2> USE DEF IngestInv, vars, payloadVars, diskVars, readerVars
    <2>1. TypeOK' /\ FirstRun' /\ LocatorsLead'
        BY DEF TypeOK, Versions, AnyLine, FirstRun, LocatorsLead
    <2>2. Shape' /\ Aligned' /\ ResumeIsSafe' /\ Accounted'
        BY DEF Shape, Aligned, ResumeIsSafe, Accounted, Earns, NothingSkipped, Line, At
    <2>3. ReadToTheEnd' /\ Sealed' /\ OneBatchAtRisk'
        BY DEF ReadToTheEnd, Sealed, Earns, Fits, NothingSkipped, Records, Found, Line, OneBatchAtRisk
    <2>. QED BY <2>1, <2>2, <2>3
<1>2. IngestInv /\ [Next]_vars => IngestInv'
    BY <1>1, StartKeepsInv, StartFailsKeepsInv, SkipLineKeepsInv, ReadLineKeepsInv, ReadEndKeepsInv,
       SkipRecordKeepsInv, AddRecordKeepsInv, CommitKeepsInv, EndKeepsInv, RestartKeepsInv DEF Next, Step
<1>. QED BY IngestInvInit, <1>2, PTL DEF Spec

-----------------------------------------------------------------------------
\* Type correctness of the ingest, with batches that never overfill.
THEOREM IngestTypes == Spec => []TypeOK
<1>1. IngestInv => TypeOK
    BY DEF IngestInv
<1>. QED BY IngestInvAlways, <1>1, PTL

\* No book is ever in the catalogue before its locator.
THEOREM LocatorsComeFirst == Spec => []BookHasLocator
<1>1. IngestInv => BookHasLocator
    BY DEF IngestInv, LocatorsLead, BookHasLocator
<1>. QED BY IngestInvAlways, <1>1, PTL

\* In the first run over a payload without skipped lines the progress file stays
\* behind what is committed, for every batch size.
THEOREM ResumesAreSafe == Spec => []ResumeSkipsOnlyStored
<1>1. IngestInv => ResumeSkipsOnlyStored
    <2> SUFFICES ASSUME IngestInv, restarts = 0, NothingSkipped, NEW n \in DOMAIN payload, n <= progress
                 PROVE  Line(n) \in stored
        BY DEF ResumeSkipsOnlyStored
    <2>1. dump = "records"
        BY LineFacts DEF IngestInv, FirstRun, TypeOK
    <2>. QED BY <2>1 DEF IngestInv, ResumeIsSafe
<1>. QED BY IngestInvAlways, <1>1, PTL

\* A crash of the first run loses at most one batch of what it has read.
THEOREM BatchesBoundLoss == Spec => []OneBatchAtRisk
<1>1. IngestInv => OneBatchAtRisk
    BY DEF IngestInv
<1>. QED BY IngestInvAlways, <1>1, PTL

\* The marker is true where it can be relied on: whatever failed, for every
\* payload, batch size and limit, and for file dumps after any number of restarts.
THEOREM MarkersAreEarned == Spec => []MarkerIsEarned
<1>1. IngestInv => MarkerIsEarned
    BY DEF IngestInv, Sealed, Earns, Fits, MarkerIsEarned, MarkerCounts, CompleteMeansIndexed
<1>. QED BY IngestInvAlways, <1>1, PTL
-----------------------------------------------------------------------------
\* What is left to do for an ingest: lines, and the stages behind them.
Stage ==
    CASE pc = "read"   -> 5
      [] pc = "decode" -> 7
      [] pc = "flush"  -> 6
      [] pc = "drain"  -> 4
      [] pc = "index"  -> 3
      [] pc = "clear"  -> 2
      [] pc = "mark"   -> 1
      [] OTHER         -> 0
Remaining == IF pc = "down" THEN 3 * Lines + 6 ELSE 3 * (Len(payload) - pos) + Stage

\* Between two restarts every step of the ingest leaves less to do, in every mix
\* of lines and failures: it cannot go on for ever over the same lines.
IngestAdvances == [][pc' # "down" => Remaining' < Remaining]_vars

THEOREM IngestsAdvance == Spec => IngestAdvances /\ [](Remaining \in Nat)
<1>1. IngestInv => Remaining \in Nat
    <2> SUFFICES ASSUME IngestInv PROVE Remaining \in Nat
        OBVIOUS
    <2>1. Len(payload) \in Nat /\ pos \in Nat /\ pos <= Len(payload) /\ Lines \in Nat
        BY LineFacts DEF IngestInv, Shape
    <2>2. Stage \in Nat
        BY DEF Stage
    <2>. QED BY <2>1, <2>2 DEF Remaining
<1>2. ASSUME IngestInv, IngestInv', Step PROVE Remaining' < Remaining
    <2>1. /\ Len(payload) \in Nat /\ pos \in Nat /\ pos <= Len(payload) /\ Lines \in Nat
          /\ Len(payload') \in 0..Lines
        <3>1. payload' \in Payloads
            BY <1>2 DEF IngestInv, TypeOK
        <3>. QED BY <1>2, <3>1, LineFacts, PayloadIsSequence DEF IngestInv, Shape
    <2>2. CASE Start \/ StartFails
        <3>1. pc = "down" /\ pc' \in {"read", "finished", "stopped"} /\ pos' = 0
            BY <1>2, <2>2 DEF Start, StartFails, readerVars, IngestInv, Shape
        <3>. QED BY <2>1, <3>1 DEF Remaining, Stage
    <2>3. CASE SkipLine
        BY <2>1, <2>3 DEF SkipLine, payloadVars, Remaining, Stage
    <2>4. CASE ReadLine
        BY <2>1, <2>4 DEF ReadLine, payloadVars, Remaining, Stage
    <2>5. CASE ReadEnd \/ SkipRecord \/ RemoveProgress \/ WriteMarker
        BY <2>1, <2>5 DEF ReadEnd, SkipRecord, RemoveProgress, WriteMarker, payloadVars, readerVars,
            Remaining, Stage
    <2>6. CASE AddRecord \/ Flush \/ LastFlush \/ RebuildFTS
        <3>1. UNCHANGED <<payload, pos>> /\ pc # "down"
            BY <2>6 DEF AddRecord, Flush, LastFlush, Commit, RebuildFTS, payloadVars, readerVars
        <3>2. Stage' < Stage /\ Stage' \in Int /\ Stage \in Int /\ pc' # "down"
            <4>1. CASE AddRecord
                BY <4>1 DEF AddRecord, Stop, Stage
            <4>2. CASE Flush
                BY <4>2 DEF Flush, Commit, Stop, Stage
            <4>3. CASE LastFlush
                BY <4>3, <1>2 DEF LastFlush, Commit, Stop, Stage, IngestInv, TypeOK
            <4>4. CASE RebuildFTS
                BY <4>4 DEF RebuildFTS, Stop, Stage
            <4>. QED BY <2>6, <4>1, <4>2, <4>3, <4>4
        <3>. QED BY <2>1, <3>1, <3>2 DEF Remaining
    <2>. QED BY <1>2, <2>2, <2>3, <2>4, <2>5, <2>6 DEF Step
<1>3. Restart => pc' = "down"
    BY DEF Restart
<1>4. IngestInv /\ IngestInv' /\ [Next]_vars => [pc' # "down" => Remaining' < Remaining]_vars
    BY <1>2, <1>3 DEF Next
<1>. QED BY <1>1, <1>4, IngestInvAlways, PTL DEF Spec, IngestAdvances

\* An ingest that reports no error has read all it may of the payload, or found
\* the marker of an earlier one.
EndIsEarned == pc = "finished" => marker \/ AtLimit \/ pos = Len(payload)

\* Past the reader no step looks at the payload again.
ReaderIsThrough ==
    pc \in {"drain", "index", "clear", "mark"} /\ ~broken => AtLimit \/ pos = Len(payload)

THEOREM EndsAreEarned == Spec => []EndIsEarned
<1> DEFINE Through == ReaderIsThrough /\ EndIsEarned
<1>1. Init => Through
    BY DEF Init, ReaderIsThrough, EndIsEarned
<1>2. ASSUME IngestInv, Through, [Next]_vars PROVE Through'
    <2>1. CASE Start \/ StartFails \/ Restart
        BY <2>1 DEF Start, StartFails, Restart, ReaderIsThrough, EndIsEarned, diskVars
    <2>2. CASE SkipLine \/ ReadLine \/ SkipRecord
        BY <2>2 DEF SkipLine, ReadLine, SkipRecord, ReaderIsThrough, EndIsEarned
    <2>3. CASE ReadEnd
        BY <2>3 DEF ReadEnd, ReaderIsThrough, EndIsEarned, AtLimit, payloadVars, readerVars
    <2>4. CASE AddRecord
        BY <2>4 DEF AddRecord, Stop, ReaderIsThrough, EndIsEarned
    <2>5. CASE Flush
        BY <2>5 DEF Flush, Commit, Stop, ReaderIsThrough, EndIsEarned
    <2>6. CASE LastFlush
        BY <1>2, <2>6 DEF LastFlush, Commit, Stop, ReaderIsThrough, EndIsEarned, AtLimit,
            payloadVars, readerVars, IngestInv, TypeOK
    <2>7. CASE RebuildFTS
        BY <1>2, <2>7 DEF RebuildFTS, Stop, ReaderIsThrough, EndIsEarned, AtLimit, payloadVars,
            readerVars
    <2>8. CASE RemoveProgress
        BY <1>2, <2>8 DEF RemoveProgress, ReaderIsThrough, EndIsEarned, AtLimit, payloadVars, readerVars
    <2>9. CASE WriteMarker
        <3>1. ~broken
            BY <1>2, <2>9 DEF WriteMarker, IngestInv, Shape
        <3>. QED BY <1>2, <2>9, <3>1 DEF WriteMarker, ReaderIsThrough, EndIsEarned, AtLimit,
                payloadVars, readerVars
    <2>10. CASE UNCHANGED vars
        BY <1>2, <2>10 DEF vars, payloadVars, diskVars, readerVars, ReaderIsThrough, EndIsEarned, AtLimit
    <2>. QED BY <1>2, <2>1, <2>2, <2>3, <2>4, <2>5, <2>6, <2>7, <2>8, <2>9, <2>10 DEF Next, Step
<1>3. Through => EndIsEarned
    OBVIOUS
<1>. QED BY <1>1, <1>2, <1>3, IngestInvAlways, PTL DEF Spec
=============================================================================
