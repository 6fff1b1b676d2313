------------------------- MODULE MCCatalogueIngest -------------------------
(* Payloads for TLC.                                                       *)
EXTENDS CatalogueIngest

\* Any of six lines, two shorter ones, and one that is longer.
SixLines     == [1..6 -> LineKinds]
EveryPayload == SixLines \cup {[n \in 1..k |-> "good"] : k \in {3, 5, 7}}
=============================================================================
