------------------------ MODULE UpstreamBodyProofs ------------------------
(***************************************************************************)
(* What holds of the body of an upstream response for every limit and      *)
(* every size: types, the two counters of the limit, whole pages, that     *)
(* nothing is refused for a size it does not have, that UpstreamBody       *)
(* implements BoundedBody, and that a call only takes so many steps.       *)
(***************************************************************************)
EXTENDS UpstreamBody, TLAPS

\* Between two Reads the last one brought bytes, or there was none yet.
CalmBetween ==
    pc \in {"do", "ready", "reading"} =>
        result \in {"none", "data"} /\ outcome = "none"

\* Nothing was read before the headers, and no outcome is known while reading.
NothingEarly ==
    /\ pc = "do" => taken = 0 /\ result = "none"
    /\ pc = "returned" => outcome = "none" /\ result # "none"

\* The end is reported only for a whole body within the limit, bytes only below it,
\* and the limit only beyond it.
EndIsWhole ==
    /\ result = "eof" => taken = size /\ taken <= MaxBody
    /\ result \in {"none", "data"} => taken <= MaxBody
    /\ result = "limit" => taken > MaxBody

\* readBounded keeps at most one byte more than it accepts.
PageBounded == user = "page" => taken <= MaxPage + 1

\* What the outcomes rest on.
OutcomeRests ==
    /\ outcome = "parsed" => result = "eof" /\ taken <= MaxPage /\ user = "page"
    /\ outcome = "rejected" => result \in Failures \/ taken > MaxPage
    /\ outcome = "refused" => pc = "done" /\ result = "none"

\* The inductive invariant.
BodyInv ==
    TypeOK /\ CalmBetween /\ NothingEarly /\ EndIsWhole /\ PageBounded /\ OutcomeRests

-----------------------------------------------------------------------------
\* The lesser of two naturals is one of them, and above neither.
LEMMA LesserIsLeast ==
    ASSUME NEW a \in Nat, NEW b \in Nat
    PROVE  Lesser(a, b) \in Nat /\ Lesser(a, b) <= a /\ Lesser(a, b) <= b
BY DEF Lesser

\* A Read hands out no more than LimitedReader has left, nor more than the
\* upstream still has, and for a page no more than its buffer takes.
LEMMA ReadBounds ==
    ASSUME BodyInv, pc = "reading", NEW n \in 0..Lesser(Room, size - sent)
    PROVE  /\ n \in Nat /\ n <= left /\ sent + n <= size
           /\ user = "page" => taken + n <= MaxPage + 1
<1> USE LimitAssumption
<1>1. size \in Nat /\ sent \in Nat /\ size - sent \in Nat /\ left \in Nat /\ taken \in Nat
    BY DEF BodyInv, TypeOK
<1>2. Room \in Nat /\ Room <= left /\ (user = "page" => Room <= MaxPage + 1 - taken)
    <2>1. CASE user = "page"
        <3>1. MaxPage + 1 - taken \in Nat
            BY <1>1, <2>1 DEF BodyInv, PageBounded
        <3>. QED BY <1>1, <2>1, <3>1, LesserIsLeast DEF Room
    <2>2. CASE user # "page"
        BY <1>1, <2>2 DEF Room
    <2>. QED BY <2>1, <2>2
<1>3. n \in Nat /\ n <= Room /\ n <= size - sent
    BY <1>1, <1>2 DEF Lesser
<1>. QED BY <1>1, <1>2, <1>3

\* The Return of a Read that keeps to these bounds keeps the invariant.
LEMMA ReturnKeeps ==
    ASSUME BodyInv, pc = "reading", NEW n \in Nat, n <= left, sent + n <= size,
           user = "page" => taken + n <= MaxPage + 1,
           NEW r \in {"data", "eof", "error"}, r = "eof" => sent + n = size,
           Return(n, r), UNCHANGED wire, body' \in {"open", "closed"}
    PROVE  BodyInv'
<1> USE LimitAssumption
<1>1. TypeOK'
    BY DEF BodyInv, TypeOK, Return, Limited, Failures, wire
<1>2. EndIsWhole'
    BY DEF BodyInv, TypeOK, Return, Limited, Failures, wire, EndIsWhole
<1>3. CalmBetween' /\ NothingEarly' /\ PageBounded'
    BY DEF BodyInv, TypeOK, Return, Limited, Failures, wire, CalmBetween, NothingEarly, PageBounded
<1>4. OutcomeRests'
    BY DEF BodyInv, Return, CalmBetween, OutcomeRests
<1>. QED BY <1>1, <1>2, <1>3, <1>4 DEF BodyInv

\* BodyInv is inductive.
LEMMA BodyInvInit == Init => BodyInv
BY LimitAssumption DEF Init, BodyInv, TypeOK, CalmBetween, NothingEarly, EndIsWhole,
    PageBounded, OutcomeRests

\* No read, timer or return breaks the invariant.
LEMMA BodyInvStep == BodyInv /\ [Next]_vars => BodyInv'
<1> SUFFICES ASSUME BodyInv, [Next]_vars PROVE BodyInv'
    OBVIOUS
<1> USE LimitAssumption
<1>1. CASE Redirect \/ NoAnswer \/ Answer
    BY <1>1 DEF Redirect, NoAnswer, Answer, Refuse, wire, BodyInv, TypeOK, CalmBetween,
        NothingEarly, EndIsWhole, PageBounded, OutcomeRests
<1>2. CASE BeginRead
    BY <1>2 DEF BeginRead, wire, reader, BodyInv, TypeOK, CalmBetween,
        NothingEarly, EndIsWhole, PageBounded, OutcomeRests
<1>3. CASE Receive
    <2>1. PICK n \in 0..Lesser(Room, size - sent) :
              \/ n > 0 /\ Return(n, "data")
              \/ sent + n = size /\ Return(n, "eof")
        BY <1>3 DEF Receive
    <2>2. pc = "reading" /\ UNCHANGED wire /\ body' \in {"open", "closed"}
        BY <1>3, <2>1 DEF Receive, Return
    <2>. QED BY <2>1, <2>2, ReadBounds, ReturnKeeps
<1>4. CASE Break
    <2>1. PICK n \in 0..Lesser(Room, size - sent) : Return(n, "error")
        BY <1>4 DEF Break
    <2>2. pc = "reading" /\ UNCHANGED wire /\ body' \in {"open", "closed"}
        BY <1>4, <2>1 DEF Break, Return
    <2>. QED BY <2>1, <2>2, ReadBounds, ReturnKeeps
<1>5. CASE IdleTimer
    BY <1>5 DEF IdleTimer, wire, BodyInv, TypeOK, CalmBetween,
        NothingEarly, EndIsWhole, PageBounded, OutcomeRests
<1>6. CASE ReadClosed
    <2>1. pc = "reading" /\ Return(0, "error") /\ UNCHANGED wire /\ body' \in {"open", "closed"}
        BY <1>6 DEF ReadClosed, Return
    <2>2. 0 <= left /\ sent + 0 <= size /\ (user = "page" => taken + 0 <= MaxPage + 1)
        BY DEF BodyInv, TypeOK, PageBounded
    <2>. QED BY <2>1, <2>2, ReturnKeeps
<1>7. CASE ReadOn
    BY <1>7 DEF ReadOn, wire, reader, BodyInv, TypeOK, CalmBetween,
        NothingEarly, EndIsWhole, PageBounded, OutcomeRests
<1>8. CASE CopyEnds \/ Abandon
    BY <1>8 DEF CopyEnds, Abandon, wire, reader, BodyInv, TypeOK, CalmBetween,
        NothingEarly, EndIsWhole, PageBounded, OutcomeRests
<1>9. CASE PageEnds
    BY <1>9 DEF PageEnds, wire, reader, BodyInv, TypeOK, CalmBetween,
        NothingEarly, EndIsWhole, PageBounded, OutcomeRests
<1>10. CASE Close
    BY <1>10 DEF Close, wire, BodyInv, TypeOK, CalmBetween,
        NothingEarly, EndIsWhole, PageBounded, OutcomeRests
<1>11. CASE UNCHANGED vars
    BY <1>11 DEF vars, wire, reader, BodyInv, TypeOK, CalmBetween,
        NothingEarly, EndIsWhole, PageBounded, OutcomeRests
<1>. QED
    BY <1>1, <1>2, <1>3, <1>4, <1>5, <1>6, <1>7, <1>8, <1>9, <1>10, <1>11 DEF Next, Own

\* The invariant holds for as long as the body is read.
LEMMA BodyInvAlways == Spec => []BodyInv
BY BodyInvInit, BodyInvStep, PTL DEF Spec

-----------------------------------------------------------------------------
\* The counters of LimitedReader and limitedReadCloser agree with each other
\* and with the bytes that came, for every limit, and no more than five
\* requests are made for a call.
THEOREM BodyTypes == Spec => []TypeOK
<1>1. BodyInv => TypeOK
    BY DEF BodyInv
<1>. QED BY <1>1, BodyInvAlways, PTL

\* No Read of the body starts with nothing left of the limit: the end that
\* io.LimitedReader would report then is never taken for the end of the body.
THEOREM ReadingHasRoom == Spec => [](pc = "reading" => left > 0)
<1>1. BodyInv => (pc = "reading" => left > 0)
    BY LimitAssumption DEF BodyInv, TypeOK, CalmBetween, EndIsWhole
<1>. QED BY <1>1, BodyInvAlways, PTL

\* readBounded never hands a part of a page to a parser.
THEOREM PagesAreWhole == Spec => []PageIsWhole
<1>1. BodyInv => PageIsWhole
    BY LimitAssumption DEF BodyInv, TypeOK, EndIsWhole, OutcomeRests, PageIsWhole
<1>. QED BY <1>1, BodyInvAlways, PTL

\* A page or a body that fits is never turned away for its size, at every limit.
THEOREM FittingArePassed == Spec => []FittingIsNotRefused
<1>1. BodyInv => FittingIsNotRefused
    BY LimitAssumption DEF BodyInv, TypeOK, EndIsWhole, OutcomeRests, Failures, Lesser,
        FittingIsNotRefused
<1>. QED BY <1>1, BodyInvAlways, PTL

-----------------------------------------------------------------------------
\* A Return is a step of BoundedBody: bytes, the end or a failure.
LEMMA ReturnRefines ==
    ASSUME BodyInv, pc = "reading", NEW n \in Nat, n <= left, sent + n <= size,
           NEW r \in {"data", "eof", "error"}, r = "eof" => sent + n = size,
           Return(n, r), UNCHANGED wire
    PROVE  Bounded!Next
<1> USE LimitAssumption
<1>1. /\ size \in Nat /\ taken \in Nat /\ MaxBody \in Nat /\ read = taken /\ sent = taken
      /\ left + read = MaxBody + 1 /\ size' = size
      /\ taken' = taken + n /\ taken + n <= MaxBody + 1 /\ outcome' = outcome
      /\ outcome = "none" /\ result \in {"none", "data"}
      /\ result' = Limited(read + n, r)
    BY DEF BodyInv, TypeOK, CalmBetween, Return, wire
<1>2. taken' \in Bounded!Reach
    BY <1>1 DEF Bounded!Reach
<1>3. EndOf = "open"
    BY <1>1 DEF EndOf, Failures
<1>4. CASE taken + n > MaxBody \/ r = "error"
    <2>1. EndOf' = "failed"
        BY <1>1, <1>4 DEF EndOf, Limited, Failures
    <2>. QED BY <1>1, <1>2, <1>3, <2>1 DEF Bounded!Next, Bounded!Fail, EndOf
<1>5. CASE taken + n <= MaxBody /\ r = "data"
    <2>1. EndOf' = "open"
        BY <1>1, <1>5 DEF EndOf, Limited, Failures
    <2>. QED BY <1>1, <1>2, <1>3, <1>5, <2>1 DEF Bounded!Next, Bounded!Give, EndOf
<1>6. CASE taken + n <= MaxBody /\ r = "eof"
    <2>1. EndOf' = "whole"
        BY <1>1, <1>6 DEF EndOf, Limited, Failures
    <2>2. taken' = size /\ size <= MaxBody
        BY <1>1, <1>6
    <2>. QED BY <1>1, <1>3, <2>1, <2>2 DEF Bounded!Next, Bounded!Finish, EndOf
<1>. QED BY <1>1, <1>4, <1>5, <1>6

\* Every step of the model is a step of BoundedBody, or none.
LEMMA StepRefines == BodyInv /\ [Next]_vars => [Bounded!Next]_(Bounded!vars)
<1> SUFFICES ASSUME BodyInv, [Next]_vars PROVE Bounded!Next \/ UNCHANGED Bounded!vars
    OBVIOUS
<1> USE LimitAssumption
<1>1. CASE Redirect \/ NoAnswer \/ Answer
    <2>1. /\ pc = "do" /\ taken = 0 /\ result = "none" /\ outcome = "none"
          /\ UNCHANGED <<size, taken, result>> /\ outcome' \in {"none", "refused"}
          /\ size \in Nat /\ 0 <= size
        BY <1>1 DEF BodyInv, TypeOK, NothingEarly, CalmBetween, Redirect, NoAnswer, Answer,
            Refuse, wire
    <2>2. EndOf = "open"
        BY <2>1 DEF EndOf, Failures
    <2>3. CASE outcome' = "none"
        BY <2>1, <2>3 DEF Bounded!vars, EndOf, Failures
    <2>4. CASE outcome' = "refused"
        <3>1. EndOf' = "failed"
            BY <2>1, <2>4 DEF EndOf
        <3>2. taken' \in Bounded!Reach
            BY <2>1 DEF Bounded!Reach
        <3>. QED BY <2>1, <2>2, <3>1, <3>2 DEF Bounded!Next, Bounded!Fail, EndOf
    <2>. QED BY <2>1, <2>3, <2>4
<1>2. CASE Receive
    <2>1. PICK n \in 0..Lesser(Room, size - sent) :
              \/ n > 0 /\ Return(n, "data")
              \/ sent + n = size /\ Return(n, "eof")
        BY <1>2 DEF Receive
    <2>2. pc = "reading" /\ UNCHANGED wire
        BY <1>2, <2>1 DEF Receive, Return
    <2>. QED BY <2>1, <2>2, ReadBounds, ReturnRefines
<1>3. CASE Break
    <2>1. PICK n \in 0..Lesser(Room, size - sent) : Return(n, "error")
        BY <1>3 DEF Break
    <2>2. pc = "reading" /\ UNCHANGED wire
        BY <1>3, <2>1 DEF Break, Return
    <2>. QED BY <2>1, <2>2, ReadBounds, ReturnRefines
<1>4. CASE ReadClosed
    <2>1. pc = "reading" /\ Return(0, "error") /\ UNCHANGED wire
        BY <1>4 DEF ReadClosed, Return
    <2>2. 0 <= left /\ sent + 0 <= size
        BY DEF BodyInv, TypeOK
    <2>. QED BY <2>1, <2>2, ReturnRefines
<1>5. CASE BeginRead \/ IdleTimer \/ ReadOn \/ Close \/ UNCHANGED vars
    BY <1>5 DEF BeginRead, IdleTimer, ReadOn, Close, vars, wire, reader, Bounded!vars, EndOf
<1>6. CASE CopyEnds \/ PageEnds \/ Abandon
    <2>1. outcome # "refused" /\ outcome' # "refused" /\ UNCHANGED <<size, taken, result>>
        BY <1>6 DEF BodyInv, OutcomeRests, NothingEarly, CalmBetween, CopyEnds, PageEnds,
            Abandon, wire, reader
    <2>. QED BY <2>1 DEF Bounded!vars, EndOf
<1>. QED BY <1>1, <1>2, <1>3, <1>4, <1>5, <1>6 DEF Next, Own

\* UpstreamBody implements BoundedBody, for every limit and every size.
THEOREM BodyIsBounded == Spec => ImplementsBounded
<1>1. Init => Bounded!Init
    BY DEF Init, Bounded!Init, EndOf, Failures
<1>2. BodyInv /\ [Next]_vars => [Bounded!Next]_(Bounded!vars)
    BY StepRefines
<1>. QED BY <1>1, <1>2, BodyInvAlways, PTL DEF Spec, Bounded!Spec, ImplementsBounded
-----------------------------------------------------------------------------
\* What is left to do for a call: hops, bytes, and the stages of a Read; what is
\* yet to be closed counts too.
Stage ==
    CASE pc = "do"       -> 10 - via
      [] pc = "ready"    -> 4
      [] pc = "reading"  -> 3
      [] pc = "returned" -> IF result = "data" THEN 5 ELSE 2
      [] pc = "close"    -> 1
      [] pc = "done"     -> 0
Remaining == 4 * (size - sent) + Stage + (IF body = "open" THEN 1 ELSE 0)

\* A Return with bytes and no error has taken some; every Return leaves less to do.
LEMMA ReturnLowers ==
    ASSUME BodyInv, pc = "reading", NEW n \in Nat, n <= left, sent + n <= size,
           NEW r \in {"data", "eof", "error"}, r = "data" => n > 0,
           Return(n, r), UNCHANGED wire, body' \in {"open", "closed"},
           body' = "open" => body = "open"
    PROVE  Remaining' < Remaining
<1> USE LimitAssumption
<1>1. /\ size \in Nat /\ sent \in Nat /\ size' = size /\ sent' = sent + n /\ pc' = "returned"
      /\ result' \in {"data", "eof", "error", "limit"} /\ (result' = "data" => n > 0)
    BY DEF BodyInv, TypeOK, Return, Limited, Failures, wire
<1>2. Stage = 3 /\ Stage' = IF result' = "data" THEN 5 ELSE 2
    BY <1>1 DEF Stage
<1>. QED BY <1>1, <1>2 DEF Remaining

\* So does every step to a lower stage that takes no byte and opens nothing.
LEMMA StageLowers ==
    ASSUME size \in Nat, sent \in Nat, UNCHANGED <<size, sent>>,
           body' = body \/ body' = "closed",
           Stage \in Int, Stage' \in Int, Stage' < Stage
    PROVE  Remaining' < Remaining
<1> DEFINE s == Stage
           t == Stage'
           u == 4 * (size - sent)
<1>1. Remaining = u + s + (IF body = "open" THEN 1 ELSE 0)
    BY DEF Remaining
<1>2. Remaining' = u + t + (IF body' = "open" THEN 1 ELSE 0)
    BY DEF Remaining
<1>3. u \in Int /\ s \in Int /\ t \in Int /\ t < s
    OBVIOUS
<1> HIDE DEF s, t, u
<1>4. CASE body' = body
    BY <1>1, <1>2, <1>3, <1>4
<1>5. CASE body' = "closed"
    BY <1>1, <1>2, <1>3, <1>5
<1>. QED BY <1>4, <1>5

\* Whatever the upstream does, every step of a call leaves less to do: no number
\* of redirects, dribbled bytes and timers keeps its goroutine going for ever.
CallAdvances == [][Remaining' < Remaining]_vars

THEOREM CallsAdvance == Spec => CallAdvances /\ [](Remaining \in Nat)
<1>1. BodyInv /\ Next => Remaining' < Remaining
    <2> SUFFICES ASSUME BodyInv, Next PROVE Remaining' < Remaining
        OBVIOUS
    <2>1. size \in Nat /\ sent \in Nat /\ via \in 1..5
        BY DEF BodyInv, TypeOK
    <2>2. CASE Redirect \/ NoAnswer \/ Answer
        <3>1. UNCHANGED <<size, sent>> /\ pc = "do" /\ (body' = body \/ body' = "closed")
            BY <2>2 DEF Redirect, NoAnswer, Answer, Refuse, wire
        <3>2. \/ pc' = "do" /\ via' = via + 1
              \/ pc' \in {"ready", "done"} /\ via' = via
            BY <2>2 DEF Redirect, NoAnswer, Answer, Refuse
        <3>3. Stage \in Int /\ Stage' \in Int /\ Stage' < Stage
            BY <2>1, <3>1, <3>2 DEF Stage
        <3>. QED BY <2>1, <3>1, <3>3, StageLowers
    <2>3. CASE BeginRead \/ ReadOn \/ CopyEnds \/ PageEnds \/ Abandon \/ Close
        <3>1. UNCHANGED <<size, sent, via, result>> /\ (body' = body \/ body' = "closed")
            BY <2>3 DEF BeginRead, ReadOn, CopyEnds, PageEnds, Abandon, Close, wire, reader
        <3>2. Stage \in Int /\ Stage' \in Int /\ Stage' < Stage
            BY <2>3, <3>1 DEF Stage, BeginRead, ReadOn, CopyEnds, PageEnds, Abandon, Close
        <3>. QED BY <2>1, <3>1, <3>2, StageLowers
    <2>4. CASE IdleTimer
        BY <2>1, <2>4 DEF IdleTimer, wire, Remaining, Stage
    <2>5. CASE Receive
        <3>1. PICK n \in 0..Lesser(Room, size - sent) :
                  \/ n > 0 /\ Return(n, "data")
                  \/ sent + n = size /\ Return(n, "eof")
            BY <2>5 DEF Receive
        <3>2. pc = "reading" /\ UNCHANGED wire /\ body' \in {"open", "closed"} /\ body = "open"
            BY <2>5, <3>1 DEF Receive, Return
        <3>. QED BY <3>1, <3>2, ReadBounds, ReturnLowers
    <2>6. CASE Break
        <3>1. PICK n \in 0..Lesser(Room, size - sent) : Return(n, "error")
            BY <2>6 DEF Break
        <3>2. pc = "reading" /\ UNCHANGED wire /\ body' = "open" /\ body = "open"
            BY <2>6, <3>1 DEF Break, Return
        <3>. QED BY <3>1, <3>2, ReadBounds, ReturnLowers
    <2>7. CASE ReadClosed
        <3>1. pc = "reading" /\ Return(0, "error") /\ UNCHANGED wire /\ body' = "closed"
            BY <2>7 DEF ReadClosed, Return
        <3>2. 0 <= left /\ sent + 0 <= size
            BY DEF BodyInv, TypeOK
        <3>. QED BY <3>1, <3>2, ReturnLowers
    <2>. QED BY <2>2, <2>3, <2>4, <2>5, <2>6, <2>7 DEF Next, Own
<1>2. BodyInv => Remaining \in Nat
    BY DEF BodyInv, TypeOK, Remaining, Stage
<1>3. BodyInv /\ [Next]_vars => [Remaining' < Remaining]_vars
    BY <1>1
<1>. QED BY <1>2, <1>3, BodyInvAlways, PTL DEF Spec, CallAdvances
=============================================================================
