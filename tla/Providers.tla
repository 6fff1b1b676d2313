----------------------------- MODULE Providers -----------------------------
(***************************************************************************)
(* The two remote providers behind the request handlers of the bridge:     *)
(* Search, Details, OpenCover and OpenFile of internal/providers/anna.go   *)
(* and libgen.go, with the cache they share and the challenge breaker of   *)
(* Anna, called by search, details, cover and file of                      *)
(* internal/api/server.go.                                                 *)
(*                                                                         *)
(* Each request is a goroutine; a step of it is one access to the cache,   *)
(* one to the breaker, or one exchange with an upstream.  The upstreams    *)
(* are external: every answer is possible at every time, a cancelled or    *)
(* expired context being one more way of not being reachable.  A result    *)
(* page has one row or none.                                               *)
(***************************************************************************)
EXTENDS BookCache, Sequences

CONSTANTS
    Requests,   \* the requests one process serves
    Mirrors,    \* mirrors configured for each provider
    Cooldown    \* how long a challenge keeps the breaker shut

ASSUME ProvidersAssumption ==
    Mirrors \in Nat \ {0} /\ Cooldown \in Nat \ {0}

VARIABLES
    keyed,    \* whether this process found a member key for Anna
    until,    \* Anna.challengeUntil; 0 is the zero time
    req       \* each request

vars == <<now, entries, keyed, until, req>>

Ops == {"search", "details", "cover", "file"}

\* The format filter of a search, which makes no difference to LibGen, whose
\* books all have an allowed format; or the file asked for: of a format the book
\* may have, of another one, or with a malformed id.
Wanted(p, op) ==
    CASE op = "search" /\ p = "anna" -> {"any", "epub"}
      [] op = "file"                 -> {"epub", "pdf", "malformed"}
      [] OTHER                       -> {"any"}

Idle == [pc |-> "idle", prov |-> "anna", op |-> "search", want |-> "any",
         met |-> <<>>, last |-> "none", challenged |-> FALSE,
         stale |-> NoEntry, open |-> 0, answer |-> "none"]

Init ==
    /\ CacheInit
    /\ keyed \in BOOLEAN /\ until = 0
    /\ req = [r \in Requests |-> Idle]

-----------------------------------------------------------------------------
(* The request and its answer. *)

Becomes(r, q) == req' = [req EXCEPT ![r] = q]
Move(q, pc) == [q EXCEPT !.pc = pc]

\* An upstream answered, so that a response is open; and Body.Close of it.
Opened(q) == [q EXCEPT !.open = @ + 1]
Closed(q) == [q EXCEPT !.open = @ - 1]

\* A mirror was asked and replied; and the error kept as lastErr.
Asked(q, reply) == [q EXCEPT !.met = Append(@, reply)]
WithError(q, code) == [q EXCEPT !.last = code]

\* writeError knows a code for a ProviderError only.  The locals are gone then,
\* but for the answers of the mirrors to a search, which the properties use.
Answered(q, code) ==
    [pc |-> "answered", prov |-> q.prov, op |-> q.op, want |-> q.want,
     met |-> IF q.op = "search" THEN q.met ELSE <<>>,
     last |-> "none", challenged |-> FALSE, stale |-> NoEntry, open |-> q.open,
     answer |-> IF code = "plain" THEN "internal_error" ELSE code]

\* Where a request of valid input starts, and what it is refused for at once.
First(q) ==
    CASE q.op = "search" /\ q.prov = "anna"   -> Move(q, "breaker")
      [] q.op = "search" /\ q.prov = "libgen" -> Move(q, "ask")
      [] q.op = "file" /\ q.prov = "anna" /\ ~keyed -> Answered(q, "credential_not_configured")
      [] q.op = "file" /\ q.prov = "anna" /\ keyed /\ q.want = "malformed" ->
            Answered(q, "file_not_found")
      [] OTHER -> Move(q, "lookup")

\* A handler starts; search checks its input first.
Begin(r) ==
    /\ req[r].pc = "idle"
    /\ \E p \in Providers, op \in Ops : \E want \in Wanted(p, op) :
          LET q == [Idle EXCEPT !.prov = p, !.op = op, !.want = want] IN
          \/ Becomes(r, First(q))
          \/ op = "search" /\ Becomes(r, Answered(q, "invalid_query"))
    /\ UNCHANGED <<now, entries, keyed, until>>

-----------------------------------------------------------------------------
(* Search. *)

\* challengeActive, and the refusal while it is.
CheckBreaker(r) ==
    /\ req[r].pc = "breaker"
    /\ Becomes(r, IF now < until THEN Answered(req[r], "upstream_challenge")
                  ELSE Move(req[r], "ask"))
    /\ UNCHANGED <<now, entries, keyed, until>>

\* What a mirror may answer to a search: nothing usable, another status, or a
\* page whose row is of this format; to Anna's also a page without a row, one of
\* an unknown layout, or the challenge, which only that search tells apart.
Replies(p) ==
    {"unreachable", "refused"} \cup Formats
        \cup (IF p = "anna" THEN {"no_row", "strange", "challenge"} ELSE {})

\* Whether Anna's parseSearch has a result: a page without rows is an empty one,
\* but one whose rows are all filtered out counts as a strange layout.
AnnaFinds(want, reply) ==
    reply = "no_row" \/ (reply \in Formats /\ want \in {"any", reply})

\* LibGen's drops books of no known format, and refuses an empty result.
LibGenFinds(reply) == reply = "epub"

Accepts(p, want, reply) ==
    IF p = "anna" THEN AnnaFinds(want, reply) ELSE LibGenFinds(reply)

\* The error the loop keeps of a mirror it passes over.
ErrorOf(reply) ==
    CASE reply = "unreachable" -> "plain"
      [] reply = "refused"     -> "upstream_http_error"
      [] OTHER                 -> "parse_error"

\* Mutant of Passed: an error forgets the challenge of an earlier mirror.
Passed_ForgetsChallenge(q, reply) ==
    IF reply = "challenge" THEN [q EXCEPT !.challenged = TRUE]
    ELSE [q EXCEPT !.last = ErrorOf(reply), !.challenged = FALSE]

\* Mutant of Passed: the first error is kept.
Passed_KeepsFirst(q, reply) ==
    IF reply = "challenge" THEN [q EXCEPT !.challenged = TRUE]
    ELSE IF q.last = "none" THEN WithError(q, ErrorOf(reply)) ELSE q

\* A challenge and an error are kept apart.
Passed(q, reply) ==
    IF reply = "challenge" THEN [q EXCEPT !.challenged = TRUE]
    ELSE WithError(q, ErrorOf(reply))

\* Mutant of NextMirror: an error starts the loop over.
NextMirror_Restarts(q, pc) ==
    IF q.last # "none" /\ Len(q.met) < Mirrors THEN Move([q EXCEPT !.met = <<>>], pc)
    ELSE Move(q, IF Len(q.met) = Mirrors THEN "ended" ELSE pc)

\* The loop goes on with the next mirror, or ends.
NextMirror(q, pc) == Move(q, IF Len(q.met) = Mirrors THEN "ended" ELSE pc)

\* The mirror is asked: it is passed over, or there is a page to read.
Ask(r) ==
    /\ req[r].pc = "ask"
    /\ \/ Becomes(r, NextMirror(Passed(Asked(req[r], "unreachable"), "unreachable"), "ask"))
       \/ Becomes(r, Move(Opened(req[r]), "page"))
    /\ UNCHANGED <<now, entries, keyed, until>>

\* The rest of a turn of the loop: the page is read, where it may break off, and
\* closed; isChallenge, requireOK and parseSearch follow.
ReadPage(r) ==
    /\ req[r].pc = "page"
    /\ \E reply \in Replies(req[r].prov) :
          LET q == Asked(Closed(req[r]), reply) IN
          IF Accepts(q.prov, q.want, reply)
          THEN Becomes(r, Move(q, IF reply = "no_row" THEN "clear" ELSE "store"))
          ELSE Becomes(r, NextMirror(Passed(q, reply), "ask"))
    /\ UNCHANGED <<now, entries, keyed, until>>

\* The book of the page is cached, if the cache takes it.
Store(r) ==
    /\ req[r].pc = "store"
    /\ entries' \in {entries, AfterPut(req[r].prov, req[r].met[Len(req[r].met)])}
    /\ Becomes(r, IF req[r].prov = "anna" THEN Move(req[r], "clear")
                  ELSE Answered(req[r], "books"))
    /\ UNCHANGED <<now, keyed, until>>

\* clearChallenge follows a result of Anna.
Clear(r) ==
    /\ req[r].pc = "clear"
    /\ until' = 0
    /\ Becomes(r, Answered(req[r], "books"))
    /\ UNCHANGED <<now, entries, keyed>>

\* Mutant of AnnaEnded: mirrors that are all out of reach shut the breaker too.
AnnaEnded_AlwaysShuts(r) ==
    /\ req[r].pc = "ended" /\ req[r].op = "search" /\ req[r].prov = "anna"
    /\ until' = now + Cooldown
    /\ Becomes(r, Answered(req[r], "upstream_challenge"))
    /\ UNCHANGED <<now, entries, keyed>>

\* No mirror had a result: markChallenge, or the last error as it is.
AnnaEnded(r) ==
    /\ req[r].pc = "ended" /\ req[r].op = "search" /\ req[r].prov = "anna"
    /\ IF req[r].challenged
       THEN until' = now + Cooldown /\ Becomes(r, Answered(req[r], "upstream_challenge"))
       ELSE UNCHANGED until /\ Becomes(r, Answered(req[r], req[r].last))
    /\ UNCHANGED <<now, entries, keyed>>

\* LibGen has one code for all that are no ProviderError.
LibGenEnded(r) ==
    /\ req[r].pc = "ended" /\ req[r].op = "search" /\ req[r].prov = "libgen"
    /\ Becomes(r, Answered(req[r], IF req[r].last = "plain" THEN "upstream_unavailable"
                                   ELSE req[r].last))
    /\ UNCHANGED <<now, entries, keyed, until>>

-----------------------------------------------------------------------------
(* Details, and the cover. *)

\* Where a request goes on with the book it found.
WithBook(q, e) ==
    CASE q.op = "details" -> Answered(q, "book")
      [] q.op = "cover"   -> Move(q, "cover")
      [] q.op = "file" /\ (q.want # "epub" \/ e.format # "epub") -> Answered(q, "file_not_found")
      [] OTHER            -> Move(q, IF q.prov = "anna" THEN "resolve" ELSE "detail_page")

\* The reading transaction of Get; one that fails counts as nothing found.
LookUp(r) ==
    /\ req[r].pc = "lookup"
    /\ LET e == entries[Key(req[r].prov)] IN
       \/ Becomes(r, Answered(req[r], "details_not_cached"))
       \/ e # NoEntry /\ ~Expired(e) /\ Becomes(r, WithBook(req[r], e))
       \/ e # NoEntry /\ Expired(e) /\ Becomes(r, Move([req[r] EXCEPT !.stale = e], "expire"))
    /\ UNCHANGED <<now, entries, keyed, until>>

\* The second transaction of Get, which deletes what it finds by then.
Expire(r) ==
    /\ req[r].pc = "expire"
    /\ entries' \in {entries, AfterDelete(req[r].prov)}
    /\ Becomes(r, Answered(req[r], "details_not_cached"))
    /\ UNCHANGED <<now, keyed, until>>

\* OpenCover with the cached address, which the page may not have had.
Cover(r) ==
    /\ req[r].pc = "cover"
    /\ \/ \E code \in {"cover_not_found", "plain"} : Becomes(r, Answered(req[r], code))
       \/ Becomes(r, Move(Opened(req[r]), "status"))
    /\ UNCHANGED <<now, entries, keyed, until>>

-----------------------------------------------------------------------------
(* The file. *)

\* Anna's API is asked: the loop passes over this mirror, or there is an answer.
Resolve(r) ==
    /\ req[r].pc = "resolve"
    /\ \/ Becomes(r, NextMirror(WithError(Asked(req[r], "asked"), "plain"), "resolve"))
       \/ Becomes(r, Move(Opened(req[r]), "resolution"))
    /\ UNCHANGED <<now, entries, keyed, until>>

\* The answer is read and closed.  It names a download, or it does not.
ReadResolution(r) ==
    /\ req[r].pc = "resolution"
    /\ \E reply \in {"resolved", "plain", "download_resolution_failed"} :
          LET q == Asked(Closed(req[r]), "asked") IN
          Becomes(r, IF reply = "resolved" THEN Move(q, "fetch")
                     ELSE NextMirror(WithError(q, reply), "resolve"))
    /\ UNCHANGED <<now, entries, keyed, until>>

\* LibGen's detail page is asked for; there is no second mirror.
DetailPage(r) ==
    /\ req[r].pc = "detail_page"
    /\ \/ Becomes(r, Answered(req[r], "plain"))
       \/ Becomes(r, Move(Opened(req[r]), "detail"))
    /\ UNCHANGED <<now, entries, keyed, until>>

\* The page is read and closed.  It has a link to the file, or it has not.
ReadDetail(r) ==
    /\ req[r].pc = "detail"
    /\ LET q == Closed(req[r]) IN
       \/ \E code \in {"plain", "upstream_http_error", "download_resolution_failed"} :
             Becomes(r, Answered(q, code))
       \/ Becomes(r, Move(q, "fetch"))
    /\ UNCHANGED <<now, entries, keyed, until>>

\* A download that fails: Anna tries the next mirror, LibGen gives up.
GiveUp(q, code) ==
    IF q.op = "file" /\ q.prov = "anna" THEN NextMirror(WithError(q, code), "resolve")
    ELSE Answered(q, code)

\* The download is asked for.
Fetch(r) ==
    /\ req[r].pc = "fetch"
    /\ \/ Becomes(r, GiveUp(req[r], "plain"))
       \/ Becomes(r, Move(Opened(req[r]), "status"))
    /\ UNCHANGED <<now, entries, keyed, until>>

\* Mutant of Status: the refused response stays open.
Status_LeavesOpen(r) ==
    /\ req[r].pc = "status"
    /\ \/ Becomes(r, GiveUp(req[r], "upstream_http_error"))
       \/ Becomes(r, Move(req[r], IF req[r].op = "file" /\ req[r].prov = "libgen"
                                  THEN "peek" ELSE "stream"))
    /\ UNCHANGED <<now, entries, keyed, until>>

\* requireOK of a download or a cover closes what it refuses.
Status(r) ==
    /\ req[r].pc = "status"
    /\ \/ Becomes(r, GiveUp(Closed(req[r]), "upstream_http_error"))
       \/ Becomes(r, Move(req[r], IF req[r].op = "file" /\ req[r].prov = "libgen"
                                  THEN "peek" ELSE "stream"))
    /\ UNCHANGED <<now, entries, keyed, until>>

\* LibGen looks at the first bytes, if they come, before it hands the body out.
Peek(r) ==
    /\ req[r].pc = "peek"
    /\ \/ Becomes(r, Answered(Closed(req[r]), "invalid_upstream_file"))
       \/ Becomes(r, Move(req[r], "stream"))
    /\ UNCHANGED <<now, entries, keyed, until>>

\* All mirrors of Anna failed to deliver the file.
FileEnded(r) ==
    /\ req[r].pc = "ended" /\ req[r].op = "file"
    /\ Becomes(r, Answered(req[r], req[r].last))
    /\ UNCHANGED <<now, entries, keyed, until>>

\* The handler streams the body (UpstreamBody) and closes it.
Stream(r) ==
    /\ req[r].pc = "stream"
    /\ Becomes(r, Answered(Closed(req[r]), "streamed"))
    /\ UNCHANGED <<now, entries, keyed, until>>

-----------------------------------------------------------------------------
\* The process ends at any point; the next one may have another key.
Restart ==
    /\ keyed' \in BOOLEAN /\ until' = 0
    /\ req' = [r \in Requests |-> Idle]
    /\ UNCHANGED <<now, entries>>

PassTime == Tick /\ UNCHANGED <<entries, keyed, until, req>>

\* The steps a request takes once it has begun.
Work(r) ==
    \/ CheckBreaker(r) \/ Ask(r) \/ ReadPage(r) \/ Store(r) \/ Clear(r)
    \/ AnnaEnded(r) \/ LibGenEnded(r)
    \/ LookUp(r) \/ Expire(r) \/ Cover(r)
    \/ Resolve(r) \/ ReadResolution(r) \/ DetailPage(r) \/ ReadDetail(r)
    \/ Fetch(r) \/ Status(r) \/ Peek(r) \/ FileEnded(r) \/ Stream(r)

Next == (\E r \in Requests : Begin(r) \/ Work(r)) \/ PassTime \/ Restart

Spec == Init /\ [][Next]_vars

-----------------------------------------------------------------------------
(* Properties. *)

Codes == {"none", "books", "book", "streamed", "invalid_query", "upstream_challenge",
          "upstream_http_error", "parse_error", "upstream_unavailable", "internal_error",
          "details_not_cached", "credential_not_configured", "file_not_found",
          "cover_not_found", "download_resolution_failed", "invalid_upstream_file"}

Request ==
    [pc : {"idle", "breaker", "ask", "page", "store", "clear", "ended", "lookup", "expire",
           "cover", "resolve", "resolution", "detail_page", "detail", "fetch", "status", "peek",
           "stream", "answered"},
     prov : Providers, op : Ops, want : {"any", "epub", "pdf", "malformed"},
     met : Seq(Replies("anna") \cup {"asked"}),
     last : {"none", "plain", "upstream_http_error", "parse_error", "download_resolution_failed"},
     challenged : BOOLEAN, stale : {NoEntry} \cup Entry, open : {0, 1}, answer : Codes]

\* Every variable stays in its range, and no request asks more mirrors than
\* there are.
TypeOK ==
    /\ CacheTypeOK
    /\ keyed \in BOOLEAN /\ until \in Nat
    /\ req \in [Requests -> Request]
    /\ \A r \in Requests : Len(req[r].met) <= Mirrors

\* What a client may be told of the last mirror, when all failed.
ToldOf(p, reply) ==
    CASE reply = "unreachable" /\ p = "anna"   -> "internal_error"
      [] reply = "unreachable" /\ p = "libgen" -> "upstream_unavailable"
      [] reply = "refused"                     -> "upstream_http_error"
      [] OTHER                                 -> "parse_error"

\* The first mirror whose page has a result ends a search, in the given order;
\* else a challenge of any mirror is what the client is told, whatever the
\* others said, and only without one the error of the last mirror.
AnswerFollowsMirrors ==
    \A r \in Requests :
        LET q == req[r]
            n == Len(q.met)
            Good(i) == Accepts(q.prov, q.want, q.met[i])
        IN  q.op = "search" /\ q.pc = "answered" /\ n > 0 =>
            /\ \A i \in 1..(n - 1) : ~Good(i)
            /\ q.answer = "books" <=> Good(n)
            /\ ~Good(n) =>
                 /\ n = Mirrors
                 /\ q.answer = IF \E i \in 1..n : q.met[i] = "challenge"
                               THEN "upstream_challenge" ELSE ToldOf(q.prov, q.met[n])

\* The breaker is shut, for one Cooldown, only by a search that asked every
\* mirror, met a challenge and no result; it is opened early only by a search
\* that had a result, or by a restart.
ShutsBreaker(q) ==
    /\ q.prov = "anna" /\ Len(q.met) = Mirrors
    /\ \E i \in 1..Mirrors : q.met[i] = "challenge"
    /\ \A i \in 1..Mirrors : ~Accepts(q.prov, q.want, q.met[i])
OpensBreaker(q) ==
    q.prov = "anna" /\ q.met # <<>> /\ Accepts(q.prov, q.want, q.met[Len(q.met)])
BreakerMoves ==
    until' # until =>
        \/ \E r \in Requests : ShutsBreaker(req[r]) /\ until' = now + Cooldown
        \/ until' = 0 /\ \/ \E r \in Requests : OpensBreaker(req[r])
                         \/ req' = [r \in Requests |-> Idle]
BreakerFollowsEvidence == [][BreakerMoves]_vars

\* A book is served from the entry of its own provider, and not longer than TTL
\* after a search reported it, over restarts too.
Serves(r) ==
    req[r].pc = "lookup" /\ req'[r].pc # "lookup"
        /\ \/ req'[r].pc \in {"cover", "resolve", "detail_page"}
           \/ req'[r].pc = "answered" /\ req'[r].answer = "book"
FreshFor(p) ==
    LET e == entries[p] IN e # NoEntry /\ e.of = p /\ e.expires \in now..(now + TTL)
ServedBookIsFresh == [][\A r \in Requests : Serves(r) => FreshFor(req[r].prov)]_vars

\* An entry that is still good goes only when a newer one takes its place, or
\* by the delete of a Get that had read an expired one in its place.
Replaced(p) == entries'[p] # NoEntry /\ entries'[p].expires >= entries[p].expires
Deleted(p) ==
    \E r \in Requests :
        /\ req[r].pc = "expire" /\ req'[r].pc = "answered"
        /\ req[r].prov = p /\ req[r].stale # entries[p]
FreshEntryStays ==
    [][\A p \in Providers :
        entries[p] # NoEntry /\ ~Expired(entries[p]) /\ entries'[p] # entries[p] =>
            Replaced(p) \/ Deleted(p)]_vars

\* Whatever a request opened is closed when it goes on to the next exchange or the
\* next mirror, and when it is answered, by every one of the returns in between:
\* pages that break off, statuses that are refused, files that are no books.
NoResponseLeaks ==
    \A r \in Requests :
        req[r].pc \in {"ask", "resolve", "fetch", "ended", "answered"} => req[r].open = 0

\* Every step of a request brings it nearer to its answer: no loop over the
\* mirrors turns for ever.
Stages == [breaker |-> 15, lookup |-> 15, detail_page |-> 14, detail |-> 13, cover |-> 12,
           fetch |-> 12, status |-> 11, ask |-> 10, resolve |-> 10, page |-> 9,
           resolution |-> 9, store |-> 5, expire |-> 5, clear |-> 4, ended |-> 3, peek |-> 2,
           stream |-> 1, answered |-> 0, idle |-> 0]
Ahead(q) == 20 * (Mirrors - Len(q.met)) + Stages[q.pc]
GoesAhead(r) ==
    req[r].pc \notin {"idle", "answered"} /\ req'[r] # req[r]
        /\ req'[r].pc \notin {"idle", "answered"}
EveryStepAdvances ==
    [][\A r \in Requests : GoesAhead(r) => Ahead(req'[r]) < Ahead(req[r])]_vars
=============================================================================
