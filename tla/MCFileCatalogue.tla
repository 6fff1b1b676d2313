-------------------------- MODULE MCFileCatalogue --------------------------
(* Small dumps for TLC.                                                    *)
EXTENDS FileCatalogue

CONSTANTS b1, b2, epub, pdf, t1, t2

AtMost(n, S) == UNION {[1..k -> S] : k \in 0..n}

Json(e, t, fs)      == [ext |-> e, title |-> t, formats |-> fs]
Record(e, t, f, l)  == [ext |-> e, title |-> t, format |-> f, loc |-> l]
File(e, f, l)       == [ext |-> e, format |-> f, loc |-> l]

\* The same book in all three, with other titles, formats and locators.
SomeJson ==
    AtMost(2, {Json(b1, t1, {epub, pdf}), Json(b1, t2, {epub}), Json(b2, t1, {pdf}),
               Blank, Garbled})
SomeRecords ==
    AtMost(2, {Record(b1, t1, epub, "http"), Record(b1, t2, pdf, "torrent-file"),
               Record(b2, t1, epub, "none"), Blank})
SomeFiles ==
    AtMost(2, {File(b1, epub, "torrent-file"), File(b1, pdf, "none"),
               File(b2, pdf, "torrent-file"), Blank})
=============================================================================
