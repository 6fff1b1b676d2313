--------------------------- MODULE MCAcquisition ---------------------------
(* Instances of Acquisition for TLC.                                       *)
EXTENDS AcquisitionRefinement

Req(p, f) == [provider |-> p, fileId |-> f]

\* One request per behaviour of run: no provider; the local provider; a
\* provider asked for a bare format (in either case) or an indexed file id.
EveryKind == {Req("missing", "pdf"), Req("local", "epub"),
              Req("remote", "pdf"), Req("remote", "epub"),
              Req("remote", "PDF"), Req("remote", "0-pdf")}
TwoKinds  == {Req("local", "pdf"), Req("remote", "pdf")}
OneRemote == {Req("remote", "0-pdf")}

EitherRoute  == {"none", "torrent-file"}
EveryLocator == LocatorKinds \cup {"none"}
=============================================================================
