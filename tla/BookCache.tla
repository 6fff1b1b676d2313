----------------------------- MODULE BookCache -----------------------------
(***************************************************************************)
(* The metadata cache of internal/cache/cache.go: one bolt bucket, keyed   *)
(* by provider and book, whose entries carry their time of expiry and      *)
(* outlive the process.  One book stands for all, since nothing relates    *)
(* two of them; the clock of the process is here too.                      *)
(***************************************************************************)
EXTENDS Integers

CONSTANTS
    TTL,      \* time an entry is good for
    MaxTime   \* bound: the last reading of the clock

ASSUME CacheAssumption == TTL \in Nat /\ MaxTime \in Nat

VARIABLES
    now,      \* the clock
    entries   \* the entry of each provider's book, or NoEntry

Providers == {"anna", "libgen"}

\* The formats a provider offers a book in: one that clients may fetch, or none.
Formats == {"epub", "none"}

NoEntry == [expires |-> -1]

Entry == [expires : 0..(MaxTime + TTL), of : Providers, format : Formats]

\* Mutant of Key: the provider is left out of it.
Key_Shared(p) == "anna"

\* key puts the provider before the book, whose ids are the same everywhere.
Key(p) == p

\* Get compares with the strict time.After.
Expired(e) == now > e.expires

\* Mutant of NewEntry: it is good until the time it was put.
NewEntry_Unextended(p, f) == [expires |-> now, of |-> p, format |-> f]

\* The entry Put stores; and the entries after it, and after the delete of Get.
NewEntry(p, f) == [expires |-> now + TTL, of |-> p, format |-> f]
AfterPut(p, f) == [entries EXCEPT ![Key(p)] = NewEntry(p, f)]
AfterDelete(p) == [entries EXCEPT ![Key(p)] = NoEntry]

\* What an earlier life of the process may have left.
CacheInit ==
    /\ now = 0
    /\ entries \in [Providers -> {NoEntry} \cup Entry]
    /\ \A p \in Providers : entries[p] # NoEntry =>
          /\ entries[p].expires <= TTL /\ entries[p].of = p
          /\ p = "libgen" => entries[p].format # "none"

Tick == now < MaxTime /\ now' = now + 1

CacheTypeOK ==
    /\ now \in 0..MaxTime
    /\ entries \in [Providers -> {NoEntry} \cup Entry]
=============================================================================
