---------------------------- MODULE UpstreamBody ----------------------------
(***************************************************************************)
(* The body of an upstream response: Client.Do, idleReadCloser and         *)
(* limitedReadCloser of internal/safehttp/client.go, and the two ways the  *)
(* program reads it: stream of internal/api/server.go, which proxies it to *)
(* a client, and readBounded of internal/providers/common.go, which takes  *)
(* a page for parsing.                                                     *)
(*                                                                         *)
(* The upstream, net/http and the client of the bridge are external.  A    *)
(* body of declared length ends there or in an error; one without may end  *)
(* anywhere.  Sizes are in bytes.  config.Load always sets a limit.        *)
(***************************************************************************)
EXTENDS Integers

CONSTANTS
    MaxBody,  \* the limit of the client, cfg.DownloadLimit
    MaxPage,  \* the limit of readBounded
    MaxSize   \* bound: bytes of a body

ASSUME LimitAssumption ==
    MaxBody \in Nat \ {0} /\ MaxPage \in Nat \ {0} /\ MaxSize \in Nat

VARIABLES
    size,      \* the bytes the upstream has for this response
    declared,  \* whether it says so in Content-Length
    user,      \* who reads the body
    sent,      \* the bytes that came from the upstream
    via,       \* the requests made for this call, redirects included
    body,      \* whether the body of net/http is open
    left,      \* io.LimitedReader.N
    read,      \* limitedReadCloser.read
    result,    \* what the last Read of the limited body returned
    taken,     \* the bytes its user has taken
    pc,        \* where the user stands
    outcome    \* what came of it for the client, or for the parser

wire   == <<size, declared, user>>
reader == <<sent, body, left, read, result>>
vars == <<wire, via, reader, taken, pc, outcome>>

\* What a Read of the limited body fails with: an error of the body below, or of
\* the limit.
Failures == {"error", "limit"}

Lesser(a, b) == IF a < b THEN a ELSE b

Init ==
    /\ size \in 0..MaxSize /\ declared \in BOOLEAN /\ user \in {"stream", "page"}
    /\ via = 1 /\ sent = 0 /\ body = "open" /\ left = MaxBody + 1 /\ read = 0 /\ result = "none"
    /\ taken = 0 /\ pc = "do" /\ outcome = "none"

-----------------------------------------------------------------------------
(* Client.Do with its redirects, and one Read of the limited body. *)

\* What http.Client gives up ends the call, with the body of the last answer.
Refuse ==
    body' = "closed" /\ pc' = "done" /\ outcome' = "refused" /\ UNCHANGED via

\* External: a hop answers with a redirect, to an allowed origin or not;
\* CheckRedirect lets four of them pass.
Redirect ==
    /\ pc = "do"
    /\ \E allowed \in BOOLEAN :
          IF allowed /\ via < 5
          THEN via' = via + 1 /\ UNCHANGED <<body, pc, outcome>>
          ELSE Refuse
    /\ UNCHANGED <<wire, sent, left, read, result, taken>>

\* The dialer, ResponseHeaderTimeout or the caller's context ends the wait.
NoAnswer ==
    /\ pc = "do"
    /\ Refuse
    /\ UNCHANGED <<wire, sent, left, read, result, taken>>

\* External: the headers come.  Do refuses what declares too long a body.
Answer ==
    /\ pc = "do"
    /\ IF declared /\ size > MaxBody
       THEN Refuse
       ELSE pc' = "ready" /\ UNCHANGED <<via, body, outcome>>
    /\ UNCHANGED <<wire, sent, left, read, result, taken>>

\* Mutant of Limited: it cuts the body without a word.
Limited_Silent(total, r) == r

\* Mutant of Limited: a body that just fits is too long.
Limited_Early(total, r) == IF total >= MaxBody THEN "limit" ELSE r

\* limitedReadCloser.Read turns what came below it into an error past the limit.
Limited(total, r) == IF total > MaxBody THEN "limit" ELSE r

\* How much of its user's buffer a Read may fill.
Room == IF user = "page" THEN Lesser(left, MaxPage + 1 - taken) ELSE left

\* A Read starts: the idle timer is armed.  That it finds left = 0, which
\* io.LimitedReader would answer with the end, does not happen: the Read that
\* brought it there has failed (ReadingHasRoom in UpstreamBodyProofs).
BeginRead ==
    /\ pc = "ready"
    /\ user = "page" => taken <= MaxPage
    /\ pc' = "reading"
    /\ UNCHANGED <<wire, via, reader, taken, outcome>>

\* Read returns n bytes and r; the user keeps bytes that come with an error.
Return(n, r) ==
    /\ sent' = sent + n /\ left' = left - n /\ read' = read + n
    /\ result' = Limited(read + n, r)
    /\ taken' = taken + n
    /\ pc' = "returned"
    /\ UNCHANGED <<wire, via, outcome>>

\* External: bytes, the end, or both.  The timer may fire between the return of
\* the inner Read and timer.Stop, and close the body for the next one.
Receive ==
    /\ pc = "reading" /\ body = "open"
    /\ \E n \in 0..Lesser(Room, size - sent) :
          \/ n > 0 /\ Return(n, "data")
          \/ sent + n = size /\ Return(n, "eof")
    /\ body' \in {"open", "closed"}

\* External: the connection breaks.
Break ==
    /\ pc = "reading" /\ body = "open"
    /\ \E n \in 0..Lesser(Room, size - sent) : Return(n, "error")
    /\ UNCHANGED body

\* Mutant of IdleTimer: it is armed for the first Read only.
IdleTimer_Once ==
    /\ pc = "reading" /\ body = "open" /\ read = 0
    /\ body' = "closed"
    /\ UNCHANGED <<wire, via, sent, left, read, result, taken, pc, outcome>>

\* A minute without a byte: the timer closes the body under the waiting Read.
IdleTimer ==
    /\ pc = "reading" /\ body = "open"
    /\ body' = "closed"
    /\ UNCHANGED <<wire, via, sent, left, read, result, taken, pc, outcome>>

\* External: a Read of a closed body fails, also one that was waiting.
ReadClosed ==
    /\ pc = "reading" /\ body = "closed"
    /\ Return(0, "error")
    /\ UNCHANGED body

-----------------------------------------------------------------------------
(* The two users. *)

\* io.Copy and io.ReadAll read on until an error or the end.
ReadOn ==
    /\ pc = "returned" /\ result = "data"
    /\ pc' = "ready"
    /\ UNCHANGED <<wire, via, reader, taken, outcome>>

\* stream ignores what io.Copy returns.  External: net/http ends a response of
\* unknown length properly, and cuts the connection of one short of its length.
CopyEnds ==
    /\ user = "stream" /\ pc = "returned" /\ result # "data"
    /\ outcome' = IF declared /\ taken < size THEN "cut" ELSE "complete"
    /\ pc' = "close"
    /\ UNCHANGED <<wire, via, reader, taken>>

\* Mutant of PageEnds: a page that fills the buffer is taken as it is.
PageEnds_Fills ==
    /\ user = "page"
    /\ \/ pc = "returned" /\ result # "data"
       \/ pc = "ready" /\ taken > MaxPage
    /\ outcome' = IF pc = "returned" /\ result \in Failures THEN "rejected" ELSE "parsed"
    /\ pc' = "close"
    /\ UNCHANGED <<wire, via, reader, taken>>

\* readBounded asks for one byte more than it accepts.
PageEnds ==
    /\ user = "page"
    /\ \/ pc = "returned" /\ result # "data"
       \/ pc = "ready" /\ taken > MaxPage
    /\ outcome' = IF (pc = "returned" /\ result \in Failures) \/ taken > MaxPage
                  THEN "rejected" ELSE "parsed"
    /\ pc' = "close"
    /\ UNCHANGED <<wire, via, reader, taken>>

\* The client of the bridge goes away, or WriteTimeout ends the answer: the
\* next write fails, and io.Copy with it.
Abandon ==
    /\ user = "stream" /\ pc = "returned"
    /\ outcome' = "cut"
    /\ pc' = "close"
    /\ UNCHANGED <<wire, via, reader, taken>>

Close ==
    /\ pc = "close"
    /\ body' = "closed"
    /\ pc' = "done"
    /\ UNCHANGED <<wire, via, sent, left, read, result, taken, outcome>>

-----------------------------------------------------------------------------
Own == NoAnswer \/ BeginRead \/ IdleTimer \/ ReadClosed \/ ReadOn \/ CopyEnds \/ PageEnds \/ Close

Next == Own \/ Redirect \/ Answer \/ Receive \/ Break \/ Abandon

Spec == Init /\ [][Next]_vars

\* The goroutine of the handler runs on and the runtime fires its timers.
\* Nothing is assumed of the upstream.
FairSpec == Spec /\ WF_vars(Own)

-----------------------------------------------------------------------------
(* Properties. *)

\* Every variable stays in its range, and the two counters of the limit agree
\* with each other and with what came.
TypeOK ==
    /\ size \in 0..MaxSize /\ declared \in BOOLEAN /\ user \in {"stream", "page"}
    /\ via \in 1..5
    /\ sent \in 0..size /\ body \in {"open", "closed"}
    /\ left \in Nat /\ left + read = MaxBody + 1
    /\ read = sent /\ taken = sent
    /\ result \in {"none", "data", "eof"} \cup Failures
    /\ pc \in {"do", "ready", "reading", "returned", "close", "done"}
    /\ outcome \in {"none", "refused", "complete", "cut", "parsed", "rejected"}

\* A page that is parsed is the whole page, and within both limits: neither a
\* limit, nor the timer, nor a broken connection is taken for its end.
PageIsWhole == outcome = "parsed" => taken = size /\ size <= MaxPage /\ size <= MaxBody

\* Nothing is turned away for a size it does not have: the limit fails a read only
\* of a body that exceeds it, and a page whose connection held is rejected only
\* if it exceeds one of the two limits.
FittingIsNotRefused ==
    /\ result = "limit" => size > MaxBody
    /\ outcome = "rejected" => result = "error" \/ size > Lesser(MaxPage, MaxBody)

\* An upstream that sends nothing more does not hold its reader for ever, and
\* every way out releases the connection.
UserEnds == <>(pc = "done" /\ body = "closed")

\* How the body ended for the caller of Do.
EndOf ==
    IF result = "eof" THEN "whole"
    ELSE IF result \in Failures \/ outcome = "refused" THEN "failed" ELSE "open"

Bounded == INSTANCE BoundedBody WITH
    Limit <- MaxBody, Sizes <- 0..MaxSize, given <- taken, end <- EndOf

\* What the caller of Do sees is what BoundedBody allows.
ImplementsBounded == Bounded!Spec
=============================================================================
