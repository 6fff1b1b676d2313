-------------------------- MODULE ProvidersProofs --------------------------
(***************************************************************************)
(* What the two providers keep, for any number of requests and mirrors and *)
(* any lengths of the times: types, the answers of searches, the breaker,  *)
(* the books that are served, the entries that stay, and the responses     *)
(* that are closed.                                                        *)
(***************************************************************************)
EXTENDS Providers, TLAPS

Good(q, i)    == Accepts(q.prov, q.want, q.met[i])
NoneGood(q, n) == \A i \in 1..n : ~Good(q, i)
Posed(q)      == \E i \in 1..Len(q.met) : q.met[i] = "challenge"

\* Which requests get to a step, and what they bring there.
OnPath(q) ==
    /\ q.pc \in {"breaker", "clear"} => q.op = "search" /\ q.prov = "anna"
    /\ q.pc \in {"ask", "page", "store"} => q.op = "search"
    /\ q.pc \in {"lookup", "expire", "cover", "resolve", "resolution", "detail_page", "detail",
                 "fetch", "status", "peek", "stream"} => q.op # "search"
    /\ q.pc \in {"breaker", "lookup"} => q.met = <<>> /\ ~q.challenged

\* How many mirrors were asked by a step.
Counted(q) ==
    /\ Len(q.met) <= Mirrors
    /\ q.pc \in {"ask", "page", "resolve", "resolution"} => Len(q.met) < Mirrors
    /\ q.pc = "ended" => Len(q.met) = Mirrors

\* Without a challenge the error that is kept is the one of the last mirror.
Kept(q) == Len(q.met) > 0 /\ ~Posed(q) => q.last = ErrorOf(q.met[Len(q.met)])

\* What a search has learnt by then.
Searched(q) ==
    /\ q.pc \in {"ask", "page"} \/ (q.pc = "ended" /\ q.op = "search") =>
          /\ NoneGood(q, Len(q.met)) /\ (q.challenged <=> Posed(q)) /\ Kept(q)
          /\ q.prov = "libgen" => ~q.challenged
    /\ q.pc \in {"store", "clear"} =>
          Len(q.met) > 0 /\ NoneGood(q, Len(q.met) - 1) /\ Good(q, Len(q.met))
    /\ q.pc = "store" => q.met[Len(q.met)] \in Formats

\* What a search is told when no mirror had a result.
ErrorTold(q) == IF Posed(q) THEN "upstream_challenge" ELSE ToldOf(q.prov, q.met[Len(q.met)])

Concluded(q) ==
    q.op = "search" /\ q.pc = "answered" /\ Len(q.met) > 0 =>
        /\ NoneGood(q, Len(q.met) - 1)
        /\ q.answer = "books" <=> Good(q, Len(q.met))
        /\ ~Good(q, Len(q.met)) =>
             Len(q.met) = Mirrors /\ q.answer = ErrorTold(q)

\* Between an answer of an upstream and Body.Close one response is open.
Holding == {"page", "resolution", "detail", "status", "peek", "stream"}
Clean(q) == q.open = IF q.pc \in Holding THEN 1 ELSE 0

RequestInv(q) ==
    q \in Request /\ OnPath(q) /\ Counted(q) /\ Searched(q) /\ Concluded(q) /\ Clean(q)

\* An entry is its provider's own and no better than a new one, and a request
\* that deletes had read an expired one.
CacheInv ==
    /\ \A p \in Providers : entries[p] # NoEntry =>
          entries[p].of = p /\ entries[p].expires <= now + TTL
    /\ \A r \in Requests : req[r].pc = "expire" => Expired(req[r].stale)

\* The inductive invariant.
ProvInv ==
    /\ CacheTypeOK /\ keyed \in BOOLEAN /\ until \in Nat
    /\ req \in [Requests -> Request]
    /\ \A r \in Requests : RequestInv(req[r])
    /\ CacheInv
-----------------------------------------------------------------------------
(* What the operators on a request set and keep. *)

\* A request that goes on changes its step only.
LEMMA MoveFields ==
    ASSUME NEW q \in Request,
           NEW pc \in {"breaker", "ask", "page", "store", "clear", "ended", "lookup", "expire",
                       "cover", "resolve", "resolution", "detail_page", "detail", "fetch",
                       "status", "peek", "stream"}
    PROVE  /\ Move(q, pc) \in Request /\ Move(q, pc).pc = pc
           /\ Move(q, pc).prov = q.prov /\ Move(q, pc).op = q.op /\ Move(q, pc).want = q.want
           /\ Move(q, pc).met = q.met /\ Move(q, pc).challenged = q.challenged
           /\ Move(q, pc).last = q.last /\ Move(q, pc).stale = q.stale
           /\ Move(q, pc).open = q.open
BY DEF Move, Request

\* Opening and closing count the responses, and change nothing else.
LEMMA OpenedFields ==
    ASSUME NEW q \in Request, q.open = 0
    PROVE  LET p == Opened(q) IN
           /\ p \in Request /\ p.pc = q.pc /\ p.prov = q.prov /\ p.op = q.op /\ p.want = q.want
           /\ p.met = q.met /\ p.challenged = q.challenged /\ p.last = q.last
           /\ p.stale = q.stale /\ p.open = 1
BY DEF Opened, Request

LEMMA ClosedFields ==
    ASSUME NEW q \in Request, q.open = 1
    PROVE  LET p == Closed(q) IN
           /\ p \in Request /\ p.pc = q.pc /\ p.prov = q.prov /\ p.op = q.op /\ p.want = q.want
           /\ p.met = q.met /\ p.challenged = q.challenged /\ p.last = q.last
           /\ p.stale = q.stale /\ p.open = 0
BY DEF Closed, Request

\* An answer keeps what the request asked for; only a search keeps its path.
LEMMA AnsweredFields ==
    ASSUME NEW q \in Request, NEW code \in Codes \cup {"plain"}
    PROVE  LET a == Answered(q, code) IN
           /\ a \in Request /\ a.pc = "answered"
           /\ a.prov = q.prov /\ a.op = q.op /\ a.want = q.want
           /\ q.op = "search" => a.met = q.met
           /\ q.op # "search" => a.met = <<>>
           /\ a.open = q.open
           /\ a.answer = IF code = "plain" THEN "internal_error" ELSE code
<1> DEFINE m == IF q.op = "search" THEN q.met ELSE <<>>
           c == IF code = "plain" THEN "internal_error" ELSE code
<1>1. m \in Seq(Replies("anna") \cup {"asked"}) /\ c \in Codes
    BY DEF Request, Codes
<1>2. /\ q.op = "search" => m = q.met
      /\ q.op # "search" => m = <<>>
    OBVIOUS
<1>3. Answered(q, code) =
        [pc |-> "answered", prov |-> q.prov, op |-> q.op, want |-> q.want, met |-> m,
         last |-> "none", challenged |-> FALSE, stale |-> NoEntry, open |-> q.open,
         answer |-> c]
    BY DEF Answered
<1> HIDE DEF m, c
<1>4. Answered(q, code) \in Request
    BY <1>1, <1>3 DEF Request
<1>. QED BY <1>2, <1>3, <1>4 DEF c

\* The answer of a request that is not a search, or asked nobody.
LEMMA AnsweredSafely ==
    ASSUME NEW q \in Request, NEW code \in Codes \cup {"plain"},
           q.op # "search" \/ q.met = <<>>, q.open = 0
    PROVE  RequestInv(Answered(q, code))
<1> DEFINE a == Answered(q, code)
<1>1. /\ a \in Request /\ a.pc = "answered" /\ a.prov = q.prov /\ a.op = q.op /\ a.want = q.want
      /\ a.met = <<>> /\ a.open = q.open
      /\ a.answer = IF code = "plain" THEN "internal_error" ELSE code
    BY AnsweredFields
<1>2. Len(a.met) = 0
    BY <1>1
<1> HIDE DEF a
<1>3. OnPath(a) /\ Searched(a) /\ Clean(a)
    BY <1>1 DEF OnPath, Searched, Clean, Holding
<1>4. Counted(a) /\ Concluded(a)
    BY <1>1, <1>2, ProvidersAssumption DEF Counted, Concluded
<1>. QED BY <1>1, <1>3, <1>4 DEF RequestInv, a

\* The answer of a search whose mirrors are all known.
LEMMA AnsweredSearch ==
    ASSUME NEW q \in Request, NEW code \in Codes \cup {"plain"},
           q.op = "search", q.open = 0,
           Len(q.met) <= Mirrors, Len(q.met) > 0, NoneGood(q, Len(q.met) - 1),
           code = "books" <=> Good(q, Len(q.met)),
           ~Good(q, Len(q.met)) =>
               /\ Len(q.met) = Mirrors
               /\ ErrorTold(q) = IF code = "plain" THEN "internal_error" ELSE code
    PROVE  RequestInv(Answered(q, code))
<1> DEFINE a == Answered(q, code)
<1>1. /\ a \in Request /\ a.pc = "answered" /\ a.prov = q.prov /\ a.op = q.op /\ a.want = q.want
      /\ a.met = q.met /\ a.open = q.open
      /\ a.answer = IF code = "plain" THEN "internal_error" ELSE code
    BY AnsweredFields
<1> HIDE DEF a
<1>2. /\ NoneGood(a, Len(a.met) - 1) <=> NoneGood(q, Len(q.met) - 1)
      /\ Good(a, Len(a.met)) <=> Good(q, Len(q.met))
      /\ ErrorTold(a) = ErrorTold(q)
    BY <1>1 DEF NoneGood, Good, Posed, ErrorTold
<1>3. OnPath(a) /\ Searched(a) /\ Clean(a) /\ Counted(a)
    BY <1>1 DEF OnPath, Searched, Clean, Holding, Counted
<1>4. a.answer = "books" <=> code = "books"
    BY <1>1
<1>5. Concluded(a)
    BY <1>1, <1>2, <1>4 DEF Concluded
<1>. QED BY <1>1, <1>3, <1>5 DEF RequestInv, a

\* One more mirror has answered.
LEMMA AppendedFields ==
    ASSUME NEW q \in Request, NEW reply \in Replies("anna") \cup {"asked"}
    PROVE  LET p == Asked(q, reply) IN
           /\ p \in Request /\ p.pc = q.pc /\ p.prov = q.prov /\ p.op = q.op /\ p.want = q.want
           /\ p.challenged = q.challenged /\ p.last = q.last /\ p.stale = q.stale
           /\ p.open = q.open
           /\ Len(p.met) = Len(q.met) + 1 /\ p.met[Len(p.met)] = reply
           /\ \A i \in 1..Len(q.met) : p.met[i] = q.met[i]
<1>1. q.met \in Seq(Replies("anna") \cup {"asked"})
    BY DEF Request
<1> DEFINE p == Asked(q, reply)
<1>2. p.met = Append(q.met, reply)
    BY DEF Asked, Request
<1>3. Append(q.met, reply) \in Seq(Replies("anna") \cup {"asked"})
    BY <1>1
<1>4. /\ p \in Request /\ p.pc = q.pc /\ p.prov = q.prov /\ p.op = q.op /\ p.want = q.want
      /\ p.challenged = q.challenged /\ p.last = q.last /\ p.stale = q.stale
      /\ p.open = q.open
    BY <1>3 DEF Asked, Request
<1> HIDE DEF p
<1>5. /\ Len(p.met) = Len(q.met) + 1 /\ p.met[Len(p.met)] = reply
      /\ \A i \in 1..Len(q.met) : p.met[i] = q.met[i]
    BY <1>1, <1>2
<1>. QED BY <1>4, <1>5 DEF p

\* An error that is kept changes nothing else.
LEMMA ErrorFields ==
    ASSUME NEW q \in Request,
           NEW l \in {"plain", "upstream_http_error", "parse_error", "download_resolution_failed"}
    PROVE  LET p == WithError(q, l) IN
           /\ p \in Request /\ p.pc = q.pc /\ p.prov = q.prov /\ p.op = q.op /\ p.want = q.want
           /\ p.met = q.met /\ p.challenged = q.challenged /\ p.last = l
           /\ p.stale = q.stale /\ p.open = q.open
BY DEF WithError, Request

\* A mirror that is passed over leaves its error and, perhaps, the challenge.
LEMMA PassedFields ==
    ASSUME NEW q \in Request, NEW reply
    PROVE  LET p == Passed(q, reply) IN
           /\ p \in Request /\ p.pc = q.pc /\ p.prov = q.prov /\ p.op = q.op /\ p.want = q.want
           /\ p.met = q.met /\ p.stale = q.stale /\ p.open = q.open
           /\ p.challenged <=> q.challenged \/ reply = "challenge"
           /\ reply # "challenge" => p.last = ErrorOf(reply)
<1>1. ErrorOf(reply) \in {"plain", "upstream_http_error", "parse_error"}
    BY DEF ErrorOf
<1>2. CASE reply = "challenge"
    BY <1>2 DEF Passed, Request
<1>3. CASE reply # "challenge"
    BY <1>1, <1>3, ErrorFields DEF Passed
<1>. QED BY <1>2, <1>3

\* A details, cover or file request moves on.
LEMMA MovedOn ==
    ASSUME NEW q \in Request,
           NEW pc \in {"ended", "lookup", "expire", "cover", "resolve", "resolution",
                       "detail_page", "detail", "fetch", "status", "peek", "stream"},
           q.op # "search",
           pc = "lookup" => q.met = <<>> /\ ~q.challenged,
           Len(q.met) <= Mirrors,
           pc \in {"resolve", "resolution"} => Len(q.met) < Mirrors,
           pc = "ended" => Len(q.met) = Mirrors,
           q.open = IF pc \in Holding THEN 1 ELSE 0
    PROVE  RequestInv(Move(q, pc)) /\ Move(q, pc).stale = q.stale /\ Move(q, pc).pc = pc
<1> DEFINE m == Move(q, pc)
<1>1. /\ m \in Request /\ m.pc = pc /\ m.prov = q.prov /\ m.op = q.op /\ m.want = q.want
      /\ m.met = q.met /\ m.challenged = q.challenged /\ m.stale = q.stale
      /\ m.open = q.open
    BY MoveFields
<1> HIDE DEF m
<1>2. OnPath(m) /\ Counted(m) /\ Clean(m)
    BY <1>1 DEF OnPath, Counted, Clean
<1>3. Searched(m) /\ Concluded(m)
    BY <1>1 DEF Searched, Concluded
<1>. QED BY <1>1, <1>2, <1>3 DEF RequestInv, m

\* A search that has not asked a mirror yet, or whose mirror has a page to read.
LEMMA MayAsk ==
    ASSUME NEW q \in Request, NEW pc \in {"ask", "page"},
           q.op = "search", Len(q.met) < Mirrors, NoneGood(q, Len(q.met)),
           q.challenged <=> Posed(q), Kept(q), q.prov = "libgen" => ~q.challenged,
           q.open = IF pc = "page" THEN 1 ELSE 0
    PROVE  RequestInv(Move(q, pc)) /\ Move(q, pc).pc = pc
<1> DEFINE m == Move(q, pc)
<1>1. /\ m \in Request /\ m.pc = pc /\ m.prov = q.prov /\ m.op = q.op /\ m.want = q.want
      /\ m.met = q.met /\ m.challenged = q.challenged /\ m.last = q.last /\ m.open = q.open
    BY MoveFields
<1> HIDE DEF m
<1>2. Len(m.met) \in Nat /\ Mirrors \in Nat
    BY <1>1, ProvidersAssumption DEF Request
<1>3. OnPath(m) /\ Counted(m) /\ Clean(m)
    BY <1>1, <1>2 DEF OnPath, Counted, Clean, Holding
<1>4. Searched(m) /\ Concluded(m)
    BY <1>1 DEF Searched, Concluded, NoneGood, Good, Posed, Kept
<1>. QED BY <1>1, <1>3, <1>4 DEF RequestInv, m

-----------------------------------------------------------------------------
(* The steps. *)

\* The request goes on, or is answered, as the invariant says it may.
GoesOn(r) ==
    \E q : Becomes(r, q) /\ RequestInv(q) /\ (q.pc = "expire" => Expired(q.stale))

\* A request that was not made.
LEMMA IdleFields ==
    /\ Idle \in Request /\ Idle.pc = "idle" /\ Idle.met = <<>> /\ ~Idle.challenged
    /\ Idle.open = 0 /\ Idle.answer = "none"
BY DEF Idle, Request, Providers, Ops, Codes

\* The step that makes a request: what it asks for, and with what empty state.
LEMMA BeginStep == ASSUME ProvInv, NEW r \in Requests, Begin(r) PROVE GoesOn(r)
<1>1. PICK p \in Providers, op \in Ops : \E want \in Wanted(p, op) :
          LET q == [Idle EXCEPT !.prov = p, !.op = op, !.want = want] IN
          \/ Becomes(r, First(q))
          \/ op = "search" /\ Becomes(r, Answered(q, "invalid_query"))
    BY DEF Begin
<1>2. PICK want \in Wanted(p, op) :
          LET q == [Idle EXCEPT !.prov = p, !.op = op, !.want = want] IN
          \/ Becomes(r, First(q))
          \/ op = "search" /\ Becomes(r, Answered(q, "invalid_query"))
    BY <1>1
<1> DEFINE q == [Idle EXCEPT !.prov = p, !.op = op, !.want = want]
<1>3. want \in {"any", "epub", "pdf", "malformed"}
    BY DEF Wanted
<1>4. /\ q \in Request /\ q.prov = p /\ q.op = op /\ q.want = want
      /\ q.met = <<>> /\ ~q.challenged /\ q.open = 0
    <2>1. Idle \in Request /\ Idle.met = <<>> /\ ~Idle.challenged /\ Idle.open = 0
        BY IdleFields
    <2>. QED BY <1>3, <2>1 DEF Request
<1> HIDE DEF q
<1>5. Len(q.met) = 0
    BY <1>4
<1>6. RequestInv(Answered(q, "invalid_query")) /\ Answered(q, "invalid_query").pc = "answered"
    BY <1>4, AnsweredSafely, AnsweredFields DEF Codes
<1>7. RequestInv(First(q)) /\ First(q).pc # "expire"
    <2>1. CASE op = "search"
        <3> DEFINE pc == IF p = "anna" THEN "breaker" ELSE "ask"
                   m  == Move(q, pc)
        <3>1. First(q) = m
            BY <1>4, <2>1 DEF First, Providers
        <3>2. /\ m \in Request /\ m.pc = pc /\ m.prov = p /\ m.op = "search" /\ m.met = <<>>
              /\ m.open = 0 /\ ~m.challenged
            BY <1>4, <2>1, MoveFields
        <3>3. pc \in {"breaker", "ask"} /\ (pc = "breaker" => p = "anna")
            OBVIOUS
        <3> HIDE DEF m, pc
        <3>4. Len(m.met) = 0
            BY <3>2
        <3>5. OnPath(m) /\ Clean(m) /\ Concluded(m)
            BY <3>2, <3>3 DEF OnPath, Clean, Holding, Concluded
        <3>6. Counted(m) /\ Searched(m)
            BY <3>2, <3>3, <3>4, ProvidersAssumption DEF Counted, Searched, NoneGood, Posed, Kept
        <3>. QED BY <3>1, <3>2, <3>3, <3>5, <3>6 DEF RequestInv
    <2>2. CASE op # "search"
        <3>1. /\ RequestInv(Answered(q, "credential_not_configured"))
              /\ RequestInv(Answered(q, "file_not_found"))
              /\ Answered(q, "credential_not_configured").pc = "answered"
              /\ Answered(q, "file_not_found").pc = "answered"
            BY <1>4, <2>2, AnsweredSafely, AnsweredFields DEF Codes
        <3>2. RequestInv(Move(q, "lookup")) /\ Move(q, "lookup").pc = "lookup"
            BY <1>4, <1>5, <2>2, MovedOn, ProvidersAssumption DEF Holding
        <3>3. First(q) \in {Answered(q, "credential_not_configured"),
                            Answered(q, "file_not_found"), Move(q, "lookup")}
            BY <1>4, <2>2 DEF First
        <3>. QED BY <3>1, <3>2, <3>3
    <2>. QED BY <2>1, <2>2
<1>8. Becomes(r, First(q)) \/ Becomes(r, Answered(q, "invalid_query"))
    BY <1>2 DEF q
<1>. QED BY <1>6, <1>7, <1>8 DEF GoesOn

\* How a mirror ends a turn of the loop, by its reply.
LEMMA TurnEnds ==
    ASSUME NEW q0 \in Request, q0.op = "search", q0.open = 0, Len(q0.met) < Mirrors,
           NoneGood(q0, Len(q0.met)), q0.challenged <=> Posed(q0),
           q0.prov = "libgen" => ~q0.challenged, NEW reply \in Replies(q0.prov)
    PROVE  LET q == Asked(q0, reply)
               m == IF Accepts(q.prov, q.want, reply)
                    THEN Move(q, IF reply = "no_row" THEN "clear" ELSE "store")
                    ELSE NextMirror(Passed(q, reply), "ask")
           IN  RequestInv(m) /\ m.pc # "expire"
<1>2. Len(q0.met) \in Nat /\ Mirrors \in Nat
    BY ProvidersAssumption DEF Request
<1> DEFINE q == Asked(q0, reply)
           n == IF Accepts(q.prov, q.want, reply)
                THEN Move(q, IF reply = "no_row" THEN "clear" ELSE "store")
                ELSE NextMirror(Passed(q, reply), "ask")
<1>4. reply \in Replies("anna") \cup {"asked"}
    BY DEF Replies
<1>3. /\ q \in Request /\ q.prov = q0.prov /\ q.op = q0.op /\ q.want = q0.want
      /\ q.challenged = q0.challenged /\ q.open = q0.open
      /\ Len(q.met) = Len(q0.met) + 1 /\ q.met[Len(q.met)] = reply
      /\ \A i \in 1..Len(q0.met) : q.met[i] = q0.met[i]
    BY <1>4, AppendedFields
<1>5. /\ q \in Request /\ q.prov = q0.prov /\ q.op = q0.op /\ q.want = q0.want
      /\ (q.challenged <=> q0.challenged) /\ q.open = q0.open
      /\ Len(q.met) = Len(q0.met) + 1 /\ q.met[Len(q.met)] = reply
      /\ \A i \in 1..Len(q0.met) : q.met[i] = q0.met[i]
    BY <1>3
<1>7. q0.prov \in Providers
    BY DEF Request
<1>8. q0.prov = "libgen" => reply # "challenge"
    BY DEF Replies, Formats
<1> HIDE DEF q
<1>9. NoneGood(q, Len(q.met) - 1) /\ (Good(q, Len(q.met)) <=> Accepts(q.prov, q.want, reply))
    <2>1. \A i \in 1..Len(q0.met) : ~Accepts(q0.prov, q0.want, q0.met[i])
        BY DEF NoneGood, Good
    <2>2. Len(q.met) - 1 = Len(q0.met)
        BY <1>2, <1>5
    <2>3. \A i \in 1..Len(q0.met) : ~Accepts(q.prov, q.want, q.met[i])
        BY <1>5, <2>1
    <2>. QED BY <1>5, <2>2, <2>3 DEF NoneGood, Good
<1>10. CASE Accepts(q.prov, q.want, reply)
    <2> DEFINE pc == IF reply = "no_row" THEN "clear" ELSE "store"
               m  == Move(q, pc)
    <2>1. n = m
        BY <1>10
    <2>2. /\ pc \in {"clear", "store"} /\ (pc = "clear" => q.prov = "anna")
          /\ pc = "store" => reply \in Formats
        BY <1>5, <1>7, <1>10 DEF Accepts, AnnaFinds, LibGenFinds, Formats, Providers
    <2>3. /\ m \in Request /\ m.pc = pc /\ m.prov = q.prov /\ m.op = q.op /\ m.want = q.want
          /\ m.met = q.met /\ m.open = q.open
        BY <1>5, <2>2, MoveFields
    <2> HIDE DEF pc, m, n
    <2>4. NoneGood(m, Len(m.met) - 1) /\ Good(m, Len(m.met))
        BY <1>9, <1>10, <2>3 DEF NoneGood, Good
    <2>5. OnPath(m) /\ Clean(m) /\ Counted(m)
        BY <1>2, <1>5, <2>2, <2>3 DEF OnPath, Clean, Holding, Counted
    <2>6. Searched(m) /\ Concluded(m)
        BY <1>2, <1>5, <2>2, <2>3, <2>4 DEF Searched, Concluded
    <2>. QED BY <2>1, <2>2, <2>3, <2>5, <2>6 DEF RequestInv, n, q
<1>11. CASE ~Accepts(q.prov, q.want, reply)
    <2> DEFINE p  == Passed(q, reply)
               pc == IF Len(p.met) = Mirrors THEN "ended" ELSE "ask"
               m  == Move(p, pc)
    <2>1. n = m
        BY <1>11 DEF NextMirror
    <2> HIDE DEF n
    <2>2. /\ p \in Request /\ p.prov = q.prov /\ p.op = q.op /\ p.want = q.want
          /\ p.met = q.met /\ p.open = q.open
          /\ p.challenged <=> q.challenged \/ reply = "challenge"
          /\ reply # "challenge" => p.last = ErrorOf(reply)
        BY <1>5, PassedFields
    <2> HIDE DEF p
    <2>3. /\ m \in Request /\ m.pc = pc /\ m.prov = q.prov /\ m.op = q.op /\ m.want = q.want
          /\ m.met = q.met /\ m.open = q.open /\ (m.challenged <=> p.challenged)
          /\ m.last = p.last
        BY <2>2, MoveFields
    <2>4. /\ pc = "ended" => Len(q.met) = Mirrors
          /\ pc = "ask" => Len(q.met) # Mirrors
          /\ pc \in {"ended", "ask"}
        BY <2>2
    <2> HIDE DEF pc, m
    <2>5. Posed(q) <=> Posed(q0) \/ reply = "challenge"
        <3> DEFINE k == Len(q0.met)
        <3>1. k \in Nat /\ Len(q.met) = k + 1 /\ q.met[k + 1] = reply
            BY <1>2, <1>5
        <3>2. \A i \in 1..k : q.met[i] = q0.met[i]
            BY <1>5
        <3>3. Posed(q0) <=> \E i \in 1..k : q0.met[i] = "challenge"
            BY DEF Posed
        <3>4. Posed(q) <=> \E i \in 1..(k + 1) : q.met[i] = "challenge"
            BY <3>1 DEF Posed
        <3> HIDE DEF k
        <3>5. 1..(k + 1) = (1..k) \cup {k + 1}
            BY <3>1
        <3>. QED BY <3>1, <3>2, <3>3, <3>4, <3>5
    <2>6. NoneGood(m, Len(m.met)) /\ (m.challenged <=> Posed(m)) /\ Kept(m)
        <3>1. \A i \in 1..Len(q.met) : i \in 1..(Len(q.met) - 1) \/ i = Len(q.met)
            BY <1>2, <1>5
        <3>2. NoneGood(q, Len(q.met))
            BY <1>9, <1>11, <3>1 DEF NoneGood
        <3>3. NoneGood(m, Len(m.met))
            BY <2>3, <3>2 DEF NoneGood, Good
        <3>4. Posed(m) <=> Posed(q)
            BY <2>3 DEF Posed
        <3>5. Kept(m)
            BY <1>5, <2>2, <2>3, <2>5, <3>4 DEF Kept
        <3>. QED BY <1>5, <2>2, <2>3, <2>5, <3>3, <3>4, <3>5
    <2>7. OnPath(m) /\ Clean(m) /\ Counted(m)
        BY <1>2, <1>5, <2>3, <2>4 DEF OnPath, Clean, Holding, Counted
    <2>8. m.prov = "libgen" => ~m.challenged
        BY <1>5, <1>8, <2>2, <2>3
    <2>9. Searched(m) /\ Concluded(m)
        BY <2>3, <2>4, <2>6, <2>8 DEF Searched, Concluded
    <2>. QED BY <2>1, <2>3, <2>4, <2>7, <2>9 DEF RequestInv, n, q
<1>. QED BY <1>10, <1>11

\* The steps that ask a mirror, and read its page.
LEMMA AskStep ==
    ASSUME ProvInv, NEW r \in Requests, Ask(r) \/ ReadPage(r)
    PROVE  GoesOn(r)
<1> DEFINE q == req[r]
<1>1. /\ q \in Request /\ q.pc \in {"ask", "page"} /\ q.op = "search"
      /\ q.open = (IF q.pc = "page" THEN 1 ELSE 0)
      /\ Len(q.met) < Mirrors /\ NoneGood(q, Len(q.met)) /\ (q.challenged <=> Posed(q))
      /\ Kept(q) /\ (q.prov = "libgen" => ~q.challenged)
    BY DEF ProvInv, Ask, ReadPage, RequestInv, OnPath, Counted, Searched, Clean, Holding
<1>2. CASE Ask(r)
    <2> DEFINE a == Asked(q, "unreachable")
               o == Opened(q)
    <2>1. Becomes(r, NextMirror(Passed(a, "unreachable"), "ask")) \/ Becomes(r, Move(o, "page"))
        BY <1>2 DEF Ask
    <2>2. "unreachable" \in Replies(q.prov) /\ ~Accepts(a.prov, a.want, "unreachable")
        BY DEF Replies, Accepts, AnnaFinds, LibGenFinds, Formats
    <2>3. q.open = 0
        BY <1>1, <1>2 DEF Ask
    <2>4. /\ RequestInv(NextMirror(Passed(a, "unreachable"), "ask"))
          /\ NextMirror(Passed(a, "unreachable"), "ask").pc # "expire"
        BY <1>1, <2>2, <2>3, TurnEnds
    <2>5. /\ o \in Request /\ o.prov = q.prov /\ o.op = q.op /\ o.want = q.want /\ o.met = q.met
          /\ o.challenged = q.challenged /\ o.last = q.last /\ o.open = 1
        BY <1>1, <2>3, OpenedFields
    <2> HIDE DEF a, o
    <2>6. NoneGood(o, Len(o.met)) /\ (o.challenged <=> Posed(o)) /\ Kept(o)
        BY <1>1, <2>5 DEF NoneGood, Good, Posed, Kept
    <2>7. RequestInv(Move(o, "page")) /\ Move(o, "page").pc = "page"
        BY <1>1, <2>5, <2>6, MayAsk
    <2>. QED BY <2>1, <2>4, <2>7 DEF GoesOn
<1>3. CASE ReadPage(r)
    <2> DEFINE c == Closed(q)
    <2>1. q.open = 1
        BY <1>1, <1>3 DEF ReadPage
    <2>2. /\ c \in Request /\ c.prov = q.prov /\ c.op = q.op /\ c.want = q.want /\ c.met = q.met
          /\ c.challenged = q.challenged /\ c.open = 0
        BY <1>1, <2>1, ClosedFields
    <2>3. PICK reply \in Replies(q.prov) :
              LET a == Asked(c, reply) IN
              IF Accepts(a.prov, a.want, reply)
              THEN Becomes(r, Move(a, IF reply = "no_row" THEN "clear" ELSE "store"))
              ELSE Becomes(r, NextMirror(Passed(a, reply), "ask"))
        BY <1>3 DEF ReadPage
    <2> HIDE DEF c
    <2>4. NoneGood(c, Len(c.met)) /\ (c.challenged <=> Posed(c))
        BY <1>1, <2>2 DEF NoneGood, Good, Posed
    <2> DEFINE b == Asked(c, reply)
               m == IF Accepts(b.prov, b.want, reply)
                    THEN Move(b, IF reply = "no_row" THEN "clear" ELSE "store")
                    ELSE NextMirror(Passed(b, reply), "ask")
    <2>5. RequestInv(m) /\ m.pc # "expire"
        BY <1>1, <2>2, <2>4, TurnEnds
    <2>6. Becomes(r, m)
        BY <2>3
    <2>. QED BY <2>5, <2>6 DEF GoesOn
<1>. QED BY <1>2, <1>3

\* The other steps of a search.
LEMMA SearchStep ==
    ASSUME ProvInv, NEW r \in Requests,
           CheckBreaker(r) \/ Store(r) \/ Clear(r) \/ AnnaEnded(r) \/ LibGenEnded(r)
    PROVE  GoesOn(r)
<1> DEFINE q == req[r]
<1>1. q \in Request /\ RequestInv(q) /\ q.last \in {"none", "plain", "upstream_http_error",
                                                  "parse_error", "download_resolution_failed"}
    BY DEF ProvInv, Request
<1>2. Len(q.met) \in Nat /\ Mirrors \in Nat \ {0} /\ Len(q.met) <= Mirrors
    BY <1>1, ProvidersAssumption DEF Request, RequestInv, Counted
<1>3. \A code \in Codes \cup {"plain"} : Answered(q, code).pc = "answered"
    BY <1>1, AnsweredFields
<1>4. {"books", "upstream_challenge", "upstream_unavailable", "plain", "none", "upstream_http_error",
       "parse_error", "download_resolution_failed"} \subseteq Codes \cup {"plain"}
    BY DEF Codes
<1>5. CASE CheckBreaker(r)
    <2>1. q.op = "search" /\ q.prov = "anna" /\ q.met = <<>> /\ ~q.challenged /\ q.open = 0
        BY <1>1, <1>5 DEF CheckBreaker, RequestInv, OnPath, Clean, Holding
    <2>2. RequestInv(Answered(q, "upstream_challenge"))
        BY <1>1, <1>4, <2>1, AnsweredSafely
    <2> DEFINE m == Move(q, "ask")
    <2>3. /\ m \in Request /\ m.pc = "ask" /\ m.op = "search" /\ m.met = <<>>
          /\ m.open = 0 /\ ~m.challenged
        BY <1>1, <2>1, MoveFields
    <2> HIDE DEF m
    <2>4. Len(m.met) = 0
        BY <2>3
    <2>5. OnPath(m) /\ Clean(m) /\ Concluded(m)
        BY <2>3 DEF OnPath, Clean, Holding, Concluded
    <2>6. Counted(m) /\ Searched(m)
        BY <1>2, <2>3, <2>4 DEF Counted, Searched, NoneGood, Posed, Kept
    <2>7. Becomes(r, Answered(q, "upstream_challenge")) \/ Becomes(r, m)
        BY <1>5 DEF CheckBreaker, m
    <2>. QED BY <1>3, <1>4, <2>2, <2>3, <2>5, <2>6, <2>7 DEF GoesOn, RequestInv
<1>6. ASSUME q.pc \in {"store", "clear"}
      PROVE  RequestInv(Answered(q, "books")) /\ Answered(q, "books").pc = "answered"
    <2>1. /\ q.op = "search" /\ q.open = 0 /\ Len(q.met) > 0
          /\ NoneGood(q, Len(q.met) - 1) /\ Good(q, Len(q.met))
        BY <1>1, <1>6 DEF RequestInv, OnPath, Searched, Clean, Holding
    <2>. QED BY <1>1, <1>2, <1>3, <1>4, <2>1, AnsweredSearch
<1>7. CASE Store(r) /\ q.prov = "anna"
    <2> DEFINE m == Move(q, "clear")
    <2>1. /\ m \in Request /\ m.pc = "clear" /\ m.op = q.op /\ m.prov = q.prov
          /\ m.met = q.met /\ m.want = q.want /\ m.open = q.open
        BY <1>1, MoveFields
    <2>2. q.op = "search" /\ q.open = 0 /\ Searched(q) /\ q.pc = "store"
        BY <1>1, <1>7 DEF Store, RequestInv, OnPath, Clean, Holding
    <2>3. Becomes(r, m)
        BY <1>7 DEF Store
    <2> HIDE DEF m
    <2>4. OnPath(m) /\ Clean(m) /\ Concluded(m) /\ Counted(m)
        BY <1>2, <1>7, <2>1, <2>2 DEF OnPath, Clean, Holding, Concluded, Counted
    <2>5. Searched(m)
        BY <2>1, <2>2 DEF Searched, NoneGood, Good
    <2>. QED BY <2>1, <2>3, <2>4, <2>5 DEF GoesOn, RequestInv
<1>8. CASE (Store(r) /\ q.prov # "anna") \/ Clear(r)
    <2>1. q.pc \in {"store", "clear"} /\ Becomes(r, Answered(q, "books"))
        BY <1>8 DEF Store, Clear
    <2>. QED BY <1>6, <2>1 DEF GoesOn
<1>9. CASE AnnaEnded(r) \/ LibGenEnded(r)
    <2>1. q.pc = "ended" /\ q.op = "search"
        BY <1>9 DEF AnnaEnded, LibGenEnded
    <2>2. /\ q.open = 0 /\ Len(q.met) = Mirrors /\ NoneGood(q, Len(q.met)) /\ Kept(q)
          /\ q.challenged <=> Posed(q)
        BY <1>1, <2>1 DEF RequestInv, Clean, Holding, Counted, Searched
    <2>6. /\ q.prov \in Providers
          /\ ~Posed(q) => q.last = ErrorOf(q.met[Len(q.met)])
        BY <1>1, <1>2, <2>2 DEF Kept, Request
    <2>3. NoneGood(q, Len(q.met) - 1) /\ ~Good(q, Len(q.met))
        BY <1>2, <2>2 DEF NoneGood
    <2>4. CASE AnnaEnded(r)
        <3> DEFINE code == IF q.challenged THEN "upstream_challenge" ELSE q.last
        <3>1. Becomes(r, Answered(q, code))
            BY <2>4 DEF AnnaEnded
        <3>2. code \in Codes \cup {"plain"} /\ code # "books"
            BY <1>1, <1>4
        <3>4. ErrorTold(q) = IF code = "plain" THEN "internal_error" ELSE code
            BY <2>2, <2>4, <2>6 DEF AnnaEnded, ErrorTold, ToldOf, ErrorOf
        <3> HIDE DEF code
        <3>3. RequestInv(Answered(q, code))
            BY <1>1, <1>2, <2>1, <2>2, <2>3, <3>2, <3>4, AnsweredSearch
        <3>. QED BY <1>3, <3>1, <3>2, <3>3 DEF GoesOn
    <2>5. CASE LibGenEnded(r)
        <3> DEFINE code == IF q.last = "plain" THEN "upstream_unavailable" ELSE q.last
        <3>1. Becomes(r, Answered(q, code))
            BY <2>5 DEF LibGenEnded
        <3>2. code \in Codes \cup {"plain"} /\ code # "books"
            BY <1>1, <1>4
        <3>3. ~Posed(q)
            BY <1>1, <2>1, <2>2, <2>5 DEF LibGenEnded, RequestInv, Searched
        <3>5. ErrorTold(q) = IF code = "plain" THEN "internal_error" ELSE code
            BY <2>5, <2>6, <3>3 DEF LibGenEnded, ErrorTold, ToldOf, ErrorOf
        <3> HIDE DEF code
        <3>4. RequestInv(Answered(q, code))
            BY <1>1, <1>2, <2>1, <2>2, <2>3, <3>2, <3>5, AnsweredSearch
        <3>. QED BY <1>3, <3>1, <3>2, <3>4 DEF GoesOn
    <2>. QED BY <1>9, <2>4, <2>5
<1>. QED BY <1>5, <1>7, <1>8, <1>9

\* The steps of a details or a cover request, and the look at the cache of both
\* and of a file request.
LEMMA BookStep ==
    ASSUME ProvInv, NEW r \in Requests, LookUp(r) \/ Expire(r) \/ Cover(r)
    PROVE  GoesOn(r)
<1> DEFINE q == req[r]
<1>1. q \in Request /\ RequestInv(q) /\ entries \in [Providers -> {NoEntry} \cup Entry]
    BY DEF ProvInv, CacheTypeOK
<1>2. q.op # "search" /\ q.open = 0 /\ q.prov \in Providers
    BY <1>1 DEF RequestInv, OnPath, Clean, Holding, LookUp, Expire, Cover, Request
<1>3. /\ {"details_not_cached", "file_not_found", "book", "cover_not_found", "plain",
           "upstream_http_error"} \subseteq Codes \cup {"plain"}
      /\ \A code \in Codes \cup {"plain"} : Answered(q, code).pc = "answered"
    BY <1>1, AnsweredFields DEF Codes
<1>4. \A code \in Codes \cup {"plain"} : RequestInv(Answered(q, code))
    BY <1>1, <1>2, AnsweredSafely
<1>5. Len(q.met) <= Mirrors /\ (q.pc = "lookup" => Len(q.met) < Mirrors)
    <2>1. q.pc = "lookup" => q.met = <<>>
        BY <1>1 DEF RequestInv, OnPath
    <2>2. Len(<<>>) = 0
        OBVIOUS
    <2>. QED BY <1>1, <2>1, <2>2, ProvidersAssumption DEF RequestInv, Counted
<1>6. CASE LookUp(r)
    <2> DEFINE e == entries[Key(q.prov)]
               p == [q EXCEPT !.stale = e]
    <2>1. q.pc = "lookup" /\ e \in {NoEntry} \cup Entry
        BY <1>1, <1>2, <1>6 DEF LookUp, Key
    <2>2. CASE Becomes(r, Answered(q, "details_not_cached"))
        BY <1>3, <1>4, <2>2 DEF GoesOn
    <2>3. CASE Becomes(r, WithBook(q, e))
        <3>1. CASE q.op = "details"
            BY <1>3, <1>4, <2>3, <3>1 DEF GoesOn, WithBook
        <3>2. CASE q.op = "cover"
            <4>1. RequestInv(Move(q, "cover")) /\ Move(q, "cover").pc = "cover"
                BY <1>1, <1>2, <1>5, <3>2, MovedOn DEF Holding
            <4>2. WithBook(q, e) = Move(q, "cover")
                BY <3>2 DEF WithBook
            <4>. QED BY <2>3, <4>1, <4>2 DEF GoesOn
        <3>3. CASE q.op = "file" /\ (q.want # "epub" \/ e.format # "epub")
            <4>1. WithBook(q, e) = Answered(q, "file_not_found")
                BY <3>3 DEF WithBook
            <4>. QED BY <1>3, <1>4, <2>3, <4>1 DEF GoesOn
        <3>4. CASE q.op = "file" /\ ~(q.want # "epub" \/ e.format # "epub")
            <4>1. WithBook(q, e) = IF q.prov = "anna" THEN Move(q, "resolve")
                                   ELSE Move(q, "detail_page")
                BY <3>4 DEF WithBook
            <4>2. q.prov = "anna" \/ q.prov = "libgen"
                BY <1>2 DEF Providers
            <4>3. RequestInv(Move(q, "resolve")) /\ Move(q, "resolve").pc = "resolve"
                BY <1>1, <1>2, <1>5, <2>1, MovedOn DEF Holding
            <4>4. q.prov = "libgen" =>
                     RequestInv(Move(q, "detail_page")) /\ Move(q, "detail_page").pc = "detail_page"
                BY <1>1, <1>2, <1>5, MovedOn DEF Holding
            <4>. QED BY <2>3, <4>1, <4>2, <4>3, <4>4 DEF GoesOn
        <3>5. q.op \in {"details", "cover", "file"}
            BY <1>1, <1>2 DEF Request, Ops
        <3>. QED BY <3>1, <3>2, <3>3, <3>4, <3>5
    <2>4. CASE Expired(e) /\ Becomes(r, Move(p, "expire"))
        <3>1. /\ p \in Request /\ p.op = q.op /\ p.met = q.met /\ p.prov = q.prov
              /\ p.open = q.open /\ p.stale = e
            BY <1>1, <2>1 DEF Request
        <3> HIDE DEF p, e
        <3>2. RequestInv(Move(p, "expire")) /\ Move(p, "expire").stale = e
            BY <1>2, <1>5, <3>1, MovedOn DEF Holding
        <3>. QED BY <2>4, <3>2 DEF GoesOn
    <2>. QED BY <1>6, <2>2, <2>3, <2>4 DEF LookUp
<1>7. CASE Expire(r)
    BY <1>3, <1>4, <1>7 DEF GoesOn, Expire
<1>8. CASE Cover(r)
    <2> DEFINE p == Opened(q)
    <2>1. p \in Request /\ p.op = q.op /\ p.met = q.met /\ p.open = 1
        BY <1>1, <1>2, OpenedFields
    <2>2. \/ \E code \in {"cover_not_found", "plain"} : Becomes(r, Answered(q, code))
          \/ Becomes(r, Move(p, "status"))
        BY <1>8 DEF Cover
    <2> HIDE DEF p
    <2>3. RequestInv(Move(p, "status")) /\ Move(p, "status").pc = "status"
        BY <1>2, <1>5, <2>1, MovedOn DEF Holding
    <2>4. \A code \in {"cover_not_found", "plain"} :
             RequestInv(Answered(q, code)) /\ Answered(q, code).pc = "answered"
        BY <1>3, <1>4
    <2>. QED BY <2>2, <2>3, <2>4 DEF GoesOn
<1>. QED BY <1>6, <1>7, <1>8

\* A file request of Anna has done with a mirror.
LEMMA NextMirrorSafely ==
    ASSUME NEW q \in Request, q.op # "search", q.open = 0, Len(q.met) <= Mirrors
    PROVE  RequestInv(NextMirror(q, "resolve")) /\ NextMirror(q, "resolve").pc # "expire"
<1>1. Len(q.met) \in Nat /\ Mirrors \in Nat
    BY ProvidersAssumption DEF Request
<1>2. CASE Len(q.met) = Mirrors
    <2>1. RequestInv(Move(q, "ended")) /\ Move(q, "ended").pc = "ended"
        BY <1>1, <1>2, MovedOn DEF Holding
    <2>. QED BY <1>2, <2>1 DEF NextMirror
<1>3. CASE Len(q.met) # Mirrors
    <2>1. RequestInv(Move(q, "resolve")) /\ Move(q, "resolve").pc = "resolve"
        BY <1>1, <1>3, MovedOn DEF Holding
    <2>. QED BY <1>3, <2>1 DEF NextMirror
<1>. QED BY <1>2, <1>3

\* A download that fails leaves the request to the next mirror or to its answer.
LEMMA GiveUpSafely ==
    ASSUME NEW q \in Request, q.op # "search", q.open = 0, Len(q.met) <= Mirrors,
           NEW code \in {"plain", "upstream_http_error"}
    PROVE  RequestInv(GiveUp(q, code)) /\ GiveUp(q, code).pc # "expire"
<1> DEFINE l == WithError(q, code)
<1>1. l \in Request /\ l.op = q.op /\ l.met = q.met /\ l.open = q.open
    BY ErrorFields
<1>2. GiveUp(q, code) \in {NextMirror(l, "resolve"), Answered(q, code)}
    BY DEF GiveUp
<1> HIDE DEF l
<1>3. RequestInv(NextMirror(l, "resolve")) /\ NextMirror(l, "resolve").pc # "expire"
    BY <1>1, NextMirrorSafely
<1>4. RequestInv(Answered(q, code)) /\ Answered(q, code).pc = "answered"
    BY AnsweredSafely, AnsweredFields DEF Codes
<1>. QED BY <1>2, <1>3, <1>4

\* The steps by which a file request gets the address of a download.
LEMMA ResolveStep ==
    ASSUME ProvInv, NEW r \in Requests,
           Resolve(r) \/ ReadResolution(r) \/ DetailPage(r) \/ ReadDetail(r)
    PROVE  GoesOn(r)
<1> DEFINE q == req[r]
<1>1. q \in Request /\ RequestInv(q)
    BY DEF ProvInv
<1>2. q.op # "search" /\ q.open = IF q.pc \in Holding THEN 1 ELSE 0
    BY <1>1 DEF RequestInv, OnPath, Clean, Resolve, ReadResolution, DetailPage, ReadDetail
<1>3. Len(q.met) \in Nat /\ Mirrors \in Nat \ {0} /\ Len(q.met) <= Mirrors
    BY <1>1, ProvidersAssumption DEF Request, RequestInv, Counted
<1>4. {"plain", "upstream_http_error", "download_resolution_failed"} \subseteq Codes \cup {"plain"}
    BY DEF Codes
\* A mirror that is passed over, with nothing open.
<1>5. ASSUME NEW x \in Request, x.op = q.op, x.met = q.met, x.open = 0, Len(q.met) < Mirrors,
             NEW l \in {"plain", "download_resolution_failed"}
      PROVE  LET y == WithError(Asked(x, "asked"), l) IN
             /\ y \in Request /\ y.op = q.op /\ y.open = 0 /\ Len(y.met) = Len(q.met) + 1
             /\ RequestInv(NextMirror(y, "resolve")) /\ NextMirror(y, "resolve").pc # "expire"
    <2> DEFINE a == Asked(x, "asked")
               y == WithError(Asked(x, "asked"), l)
    <2>1. a \in Request /\ a.op = q.op /\ a.open = 0 /\ Len(a.met) = Len(q.met) + 1
        BY <1>5, AppendedFields
    <2> HIDE DEF a
    <2>3. y \in Request /\ y.op = q.op /\ y.open = 0 /\ y.met = a.met
        BY <1>5, <2>1, ErrorFields DEF a
    <2> HIDE DEF y
    <2>4. Len(y.met) <= Mirrors
        BY <1>3, <1>5, <2>1, <2>3
    <2>5. RequestInv(NextMirror(y, "resolve")) /\ NextMirror(y, "resolve").pc # "expire"
        BY <1>2, <2>3, <2>4, NextMirrorSafely
    <2>. QED BY <2>1, <2>3, <2>5 DEF y
<1>6. CASE Resolve(r)
    <2> DEFINE y == WithError(Asked(q, "asked"), "plain")
               o == Opened(q)
    <2>1. Becomes(r, NextMirror(y, "resolve")) \/ Becomes(r, Move(o, "resolution"))
        BY <1>6 DEF Resolve
    <2>2. Len(q.met) < Mirrors /\ q.open = 0
        BY <1>1, <1>2, <1>6 DEF Resolve, RequestInv, Counted, Holding
    <2>3. RequestInv(NextMirror(y, "resolve")) /\ NextMirror(y, "resolve").pc # "expire"
        BY <1>1, <1>5, <2>2
    <2>4. o \in Request /\ o.op = q.op /\ o.met = q.met /\ o.open = 1
        BY <1>1, <2>2, OpenedFields
    <2> HIDE DEF y, o
    <2>5. RequestInv(Move(o, "resolution")) /\ Move(o, "resolution").pc = "resolution"
        BY <1>2, <1>3, <2>2, <2>4, MovedOn DEF Holding
    <2>. QED BY <2>1, <2>3, <2>5 DEF GoesOn
<1>7. CASE ReadResolution(r)
    <2> DEFINE c == Closed(q)
               a == Asked(c, "asked")
    <2>1. PICK reply \in {"resolved", "plain", "download_resolution_failed"} :
              Becomes(r, IF reply = "resolved" THEN Move(a, "fetch")
                         ELSE NextMirror(WithError(a, reply), "resolve"))
        BY <1>7 DEF ReadResolution
    <2>2. Len(q.met) < Mirrors /\ q.open = 1
        BY <1>1, <1>2, <1>7 DEF ReadResolution, RequestInv, Counted, Holding
    <2>3. c \in Request /\ c.op = q.op /\ c.met = q.met /\ c.open = 0
        BY <1>1, <2>2, ClosedFields
    <2> HIDE DEF c
    <2>4. a \in Request /\ a.op = q.op /\ a.open = 0 /\ Len(a.met) = Len(q.met) + 1
        BY <2>3, AppendedFields
    <2>5. CASE reply = "resolved"
        <3> HIDE DEF a
        <3>1. Len(a.met) <= Mirrors
            BY <1>3, <2>2, <2>4
        <3>2. RequestInv(Move(a, "fetch")) /\ Move(a, "fetch").pc = "fetch"
            BY <1>2, <2>4, <3>1, MovedOn DEF Holding
        <3>. QED BY <2>1, <2>5, <3>2 DEF GoesOn
    <2>6. CASE reply # "resolved"
        <3> DEFINE y == WithError(Asked(c, "asked"), reply)
        <3>1. Becomes(r, NextMirror(y, "resolve"))
            BY <2>1, <2>6
        <3>2. RequestInv(NextMirror(y, "resolve")) /\ NextMirror(y, "resolve").pc # "expire"
            BY <1>5, <2>2, <2>3, <2>6
        <3>. QED BY <3>1, <3>2 DEF GoesOn
    <2>. QED BY <2>5, <2>6
<1>8. CASE DetailPage(r)
    <2> DEFINE o == Opened(q)
    <2>1. Becomes(r, Answered(q, "plain")) \/ Becomes(r, Move(o, "detail"))
        BY <1>8 DEF DetailPage
    <2>2. q.open = 0
        BY <1>2, <1>8 DEF DetailPage, Holding
    <2>3. RequestInv(Answered(q, "plain")) /\ Answered(q, "plain").pc = "answered"
        BY <1>1, <1>2, <1>4, <2>2, AnsweredSafely, AnsweredFields
    <2>4. o \in Request /\ o.op = q.op /\ o.met = q.met /\ o.open = 1
        BY <1>1, <2>2, OpenedFields
    <2> HIDE DEF o
    <2>5. RequestInv(Move(o, "detail")) /\ Move(o, "detail").pc = "detail"
        BY <1>2, <1>3, <2>4, MovedOn DEF Holding
    <2>. QED BY <2>1, <2>3, <2>5 DEF GoesOn
<1>9. CASE ReadDetail(r)
    <2> DEFINE c == Closed(q)
    <2>1. \/ \E code \in {"plain", "upstream_http_error", "download_resolution_failed"} :
                Becomes(r, Answered(c, code))
          \/ Becomes(r, Move(c, "fetch"))
        BY <1>9 DEF ReadDetail
    <2>2. q.open = 1
        BY <1>2, <1>9 DEF ReadDetail, Holding
    <2>3. c \in Request /\ c.op = q.op /\ c.met = q.met /\ c.open = 0
        BY <1>1, <2>2, ClosedFields
    <2> HIDE DEF c
    <2>4. \A code \in {"plain", "upstream_http_error", "download_resolution_failed"} :
             RequestInv(Answered(c, code)) /\ Answered(c, code).pc = "answered"
        BY <1>2, <1>4, <2>3, AnsweredSafely, AnsweredFields
    <2>5. RequestInv(Move(c, "fetch")) /\ Move(c, "fetch").pc = "fetch"
        BY <1>2, <1>3, <2>3, MovedOn DEF Holding
    <2>. QED BY <2>1, <2>4, <2>5 DEF GoesOn
<1>. QED BY <1>6, <1>7, <1>8, <1>9

\* The download of a file or a cover, and the stream of it.
LEMMA FileStep ==
    ASSUME ProvInv, NEW r \in Requests,
           Fetch(r) \/ Status(r) \/ Peek(r) \/ FileEnded(r) \/ Stream(r)
    PROVE  GoesOn(r)
<1> DEFINE q == req[r]
           c == Closed(q)
<1>1. q \in Request /\ RequestInv(q)
    BY DEF ProvInv
<1>2. q.op # "search" /\ q.open = IF q.pc \in Holding THEN 1 ELSE 0
    BY <1>1 DEF RequestInv, OnPath, Clean, Fetch, Status, Peek, FileEnded, Stream
<1>3. Len(q.met) \in Nat /\ Mirrors \in Nat \ {0} /\ Len(q.met) <= Mirrors
    BY <1>1, ProvidersAssumption DEF Request, RequestInv, Counted
<1>4. {"none", "plain", "upstream_http_error", "parse_error", "download_resolution_failed",
       "invalid_upstream_file", "streamed"} \subseteq Codes \cup {"plain"}
    BY DEF Codes
<1>5. q.open = 1 => /\ c \in Request /\ c.op = q.op /\ c.met = q.met /\ c.open = 0
    BY <1>1, ClosedFields
<1> HIDE DEF c
<1>6. CASE Fetch(r)
    <2> DEFINE o == Opened(q)
    <2>1. Becomes(r, GiveUp(q, "plain")) \/ Becomes(r, Move(o, "status"))
        BY <1>6 DEF Fetch
    <2>2. q.open = 0
        BY <1>2, <1>6 DEF Fetch, Holding
    <2>3. RequestInv(GiveUp(q, "plain")) /\ GiveUp(q, "plain").pc # "expire"
        BY <1>1, <1>2, <1>3, <2>2, GiveUpSafely
    <2>4. o \in Request /\ o.op = q.op /\ o.met = q.met /\ o.open = 1
        BY <1>1, <2>2, OpenedFields
    <2> HIDE DEF o
    <2>5. RequestInv(Move(o, "status")) /\ Move(o, "status").pc = "status"
        BY <1>2, <1>3, <2>4, MovedOn DEF Holding
    <2>. QED BY <2>1, <2>3, <2>5 DEF GoesOn
<1>7. ASSUME q.pc \in {"status", "peek"}, NEW pc \in {"peek", "stream"}
      PROVE  RequestInv(Move(q, pc)) /\ Move(q, pc).pc = pc
    <2>1. q.open = 1
        BY <1>2, <1>7 DEF Holding
    <2>. QED BY <1>1, <1>2, <1>3, <2>1, MovedOn DEF Holding
<1>8. CASE Status(r)
    <2>1. q.pc = "status" /\ q.open = 1
        BY <1>2, <1>8 DEF Status, Holding
    <2>2. \/ Becomes(r, GiveUp(c, "upstream_http_error"))
          \/ \E pc \in {"peek", "stream"} : Becomes(r, Move(q, pc))
        BY <1>8 DEF Status, c
    <2>3. RequestInv(GiveUp(c, "upstream_http_error")) /\ GiveUp(c, "upstream_http_error").pc # "expire"
        BY <1>2, <1>3, <1>5, <2>1, GiveUpSafely
    <2>. QED BY <1>7, <2>1, <2>2, <2>3 DEF GoesOn
<1>9. CASE Peek(r)
    <2>1. q.pc = "peek" /\ q.open = 1
        BY <1>2, <1>9 DEF Peek, Holding
    <2>2. Becomes(r, Answered(c, "invalid_upstream_file")) \/ Becomes(r, Move(q, "stream"))
        BY <1>9 DEF Peek, c
    <2>3. /\ RequestInv(Answered(c, "invalid_upstream_file"))
          /\ Answered(c, "invalid_upstream_file").pc = "answered"
        BY <1>2, <1>4, <1>5, <2>1, AnsweredSafely, AnsweredFields
    <2>. QED BY <1>7, <2>1, <2>2, <2>3 DEF GoesOn
<1>10. CASE FileEnded(r)
    <2>1. q.pc = "ended" /\ q.open = 0 /\ Becomes(r, Answered(q, q.last))
        BY <1>2, <1>10 DEF FileEnded, Holding
    <2>2. q.last \in Codes \cup {"plain"}
        BY <1>1, <1>4 DEF Request
    <2>3. RequestInv(Answered(q, q.last)) /\ Answered(q, q.last).pc = "answered"
        BY <1>1, <1>2, <2>1, <2>2, AnsweredSafely, AnsweredFields
    <2>. QED BY <2>1, <2>3 DEF GoesOn
<1>11. CASE Stream(r)
    <2>1. q.open = 1 /\ Becomes(r, Answered(c, "streamed"))
        BY <1>2, <1>11 DEF Stream, Holding, c
    <2>2. RequestInv(Answered(c, "streamed")) /\ Answered(c, "streamed").pc = "answered"
        BY <1>2, <1>4, <1>5, <2>1, AnsweredSafely, AnsweredFields
    <2>. QED BY <2>1, <2>2 DEF GoesOn
<1>. QED BY <1>6, <1>8, <1>9, <1>10, <1>11

-----------------------------------------------------------------------------
(* The invariant. *)

\* What a step of a request leaves alone, and what it may change besides it.
LEMMA RequestStep ==
    ASSUME ProvInv, NEW r \in Requests, Begin(r) \/ Work(r)
    PROVE  /\ GoesOn(r) /\ now' = now /\ keyed' = keyed
           /\ until' = until \/ Clear(r) \/ AnnaEnded(r)
           /\ entries' = entries \/ Store(r) \/ Expire(r)
<1>1. GoesOn(r)
    BY BeginStep, AskStep, SearchStep, BookStep, ResolveStep, FileStep DEF Work
<1>2. CASE Begin(r)
    BY <1>1, <1>2 DEF Begin
<1>3. CASE \/ CheckBreaker(r) \/ Ask(r) \/ ReadPage(r) \/ Store(r) \/ Clear(r)
           \/ AnnaEnded(r) \/ LibGenEnded(r)
    BY <1>1, <1>3 DEF CheckBreaker, Ask, ReadPage, Store, Clear, AnnaEnded, LibGenEnded
<1>4. CASE LookUp(r) \/ Expire(r) \/ Cover(r)
    BY <1>1, <1>4 DEF LookUp, Expire, Cover
<1>5. CASE \/ Resolve(r) \/ ReadResolution(r) \/ DetailPage(r) \/ ReadDetail(r)
           \/ Fetch(r) \/ Status(r) \/ Peek(r) \/ FileEnded(r) \/ Stream(r)
    BY <1>1, <1>5 DEF Resolve, ReadResolution, DetailPage, ReadDetail, Fetch, Status, Peek,
        FileEnded, Stream
<1>. QED BY <1>2, <1>3, <1>4, <1>5 DEF Work

\* The entry of a put is its provider's, and better than none there could be.
LEMMA PutEntry ==
    ASSUME ProvInv, NEW p \in Providers, NEW f \in Formats
    PROVE  /\ AfterPut(p, f) \in [Providers -> {NoEntry} \cup Entry]
           /\ AfterPut(p, f)[p].of = p /\ AfterPut(p, f)[p].expires = now + TTL
           /\ \A o \in Providers \ {p} : AfterPut(p, f)[o] = entries[o]
<1>1. NewEntry(p, f) \in Entry
    BY CacheAssumption DEF ProvInv, CacheTypeOK, NewEntry, Entry
<1>2. NewEntry(p, f).of = p /\ NewEntry(p, f).expires = now + TTL
    BY DEF NewEntry
<1>. QED BY <1>1, <1>2 DEF AfterPut, Key, ProvInv, CacheTypeOK

\* The cache after a step of a request.
LEMMA EntriesStep ==
    ASSUME ProvInv, NEW r \in Requests, Begin(r) \/ Work(r)
    PROVE  /\ entries' \in [Providers -> {NoEntry} \cup Entry]
           /\ \A p \in Providers :
                 \/ entries'[p] = entries[p]
                 \/ entries'[p].of = p /\ entries'[p].expires = now + TTL
                 \/ entries'[p] = NoEntry /\ Expire(r) /\ req[r].prov = p
<1>1. entries \in [Providers -> {NoEntry} \cup Entry] /\ req[r] \in Request /\ RequestInv(req[r])
    BY DEF ProvInv, CacheTypeOK
<1>2. req[r].prov \in Providers
    BY <1>1 DEF Request
<1>3. CASE entries' = entries
    BY <1>1, <1>3
<1>4. CASE Store(r)
    <2>1. req[r].met[Len(req[r].met)] \in Formats
        BY <1>1, <1>4 DEF Store, RequestInv, Searched
    <2>2. entries' = entries \/ entries' = AfterPut(req[r].prov, req[r].met[Len(req[r].met)])
        BY <1>4 DEF Store
    <2>. QED BY <1>1, <1>2, <2>1, <2>2, PutEntry
<1>5. CASE Expire(r)
    <2>1. entries' = entries \/ entries' = [entries EXCEPT ![req[r].prov] = NoEntry]
        BY <1>5 DEF Expire, AfterDelete, Key
    <2>. QED BY <1>1, <1>2, <1>5, <2>1
<1>. QED BY <1>3, <1>4, <1>5, RequestStep

\* Nothing is to be said of a request that was not made.
LEMMA IdleInv == RequestInv(Idle)
<1>1. Len(Idle.met) = 0
    BY IdleFields
<1>. QED BY <1>1, IdleFields, ProvidersAssumption
         DEF RequestInv, OnPath, Counted, Searched, Concluded, Clean, Holding

\* The invariant holds at the start, whatever an earlier life left in the cache.
LEMMA ProvInvInit == Init => ProvInv
<1> SUFFICES ASSUME Init PROVE ProvInv
    OBVIOUS
<1>1. \A r \in Requests : req[r] = Idle
    BY DEF Init
<1>2. req \in [Requests -> Request] /\ \A r \in Requests : RequestInv(req[r])
    BY <1>1, IdleInv, IdleFields DEF Init
<1>3. CacheTypeOK /\ keyed \in BOOLEAN /\ until \in Nat
    BY CacheAssumption DEF Init, CacheInit, CacheTypeOK
<1>4. CacheInv
    <2>1. \A r \in Requests : req[r].pc # "expire"
        BY <1>1, IdleFields
    <2>2. \A p \in Providers : entries[p] # NoEntry =>
             entries[p].of = p /\ entries[p].expires <= now + TTL
        BY CacheAssumption DEF Init, CacheInit
    <2>. QED BY <2>1, <2>2 DEF CacheInv
<1>. QED BY <1>2, <1>3, <1>4 DEF ProvInv

\* No step of a request, no passing of time and no restart breaks it.
LEMMA ProvInvNext == ProvInv /\ [Next]_vars => ProvInv'
<1> SUFFICES ASSUME ProvInv, [Next]_vars PROVE ProvInv'
    OBVIOUS
<1>1. /\ req \in [Requests -> Request] /\ \A r \in Requests : RequestInv(req[r])
      /\ now \in 0..MaxTime /\ entries \in [Providers -> {NoEntry} \cup Entry]
      /\ keyed \in BOOLEAN /\ until \in Nat /\ CacheInv
    BY DEF ProvInv, CacheTypeOK
<1>2. ASSUME NEW r \in Requests, Begin(r) \/ Work(r)
      PROVE  ProvInv'
    <2>1. PICK q : Becomes(r, q) /\ RequestInv(q) /\ (q.pc = "expire" => Expired(q.stale))
        BY <1>2, RequestStep DEF GoesOn
    <2>2. req' \in [Requests -> Request] /\ \A o \in Requests : RequestInv(req'[o])
        BY <1>1, <2>1 DEF Becomes, RequestInv
    <2>3. now' = now /\ keyed' \in BOOLEAN /\ CacheTypeOK'
        BY <1>1, <1>2, RequestStep, EntriesStep DEF CacheTypeOK
    <2>4. until' \in Nat
        BY <1>1, <1>2, RequestStep, ProvidersAssumption DEF Clear, AnnaEnded
    <2>5. CacheInv'
        <3>1. \A p \in Providers : entries'[p] # NoEntry =>
                 entries'[p].of = p /\ entries'[p].expires <= now + TTL
            BY <1>1, <1>2, EntriesStep, CacheAssumption DEF CacheInv
        <3>2. \A o \in Requests : req'[o].pc = "expire" => Expired(req'[o].stale)
            BY <1>1, <2>1 DEF Becomes, CacheInv
        <3>. QED BY <2>3, <3>1, <3>2 DEF CacheInv, Expired
    <2>. QED BY <2>2, <2>3, <2>4, <2>5 DEF ProvInv
<1>3. CASE PassTime
    <2>1. now' = now + 1 /\ now' \in 0..MaxTime /\ UNCHANGED <<entries, keyed, until, req>>
        BY <1>1, <1>3, CacheAssumption DEF PassTime, Tick
    <2>2. CacheInv'
        <3>1. \A p \in Providers : entries[p] # NoEntry =>
                 entries[p].of = p /\ entries[p].expires <= now + 1 + TTL
            <4>1. \A p \in Providers : entries[p] # NoEntry => entries[p].expires \in Int
                BY <1>1 DEF Entry
            <4>. QED BY <1>1, <4>1, CacheAssumption DEF CacheInv
        <3>2. \A r \in Requests : req[r].pc = "expire" => now + 1 > req[r].stale.expires
            <4>1. \A r \in Requests : req[r].stale.expires \in Int
                BY <1>1 DEF Request, Entry, NoEntry
            <4>. QED BY <1>1, <4>1 DEF CacheInv, Expired
        <3>. QED BY <2>1, <3>1, <3>2 DEF CacheInv, Expired
    <2>. QED BY <1>1, <2>1, <2>2 DEF ProvInv, CacheTypeOK
<1>4. CASE Restart
    <2>1. \A r \in Requests : req'[r] = Idle
        BY <1>4 DEF Restart
    <2>2. req' \in [Requests -> Request] /\ \A r \in Requests : RequestInv(req'[r])
        BY <1>4, <2>1, IdleInv, IdleFields DEF Restart
    <2>3. CacheInv'
        BY <1>1, <1>4, <2>1, IdleFields DEF CacheInv, Restart
    <2>. QED BY <1>1, <1>4, <2>2, <2>3 DEF ProvInv, CacheTypeOK, Restart
<1>5. CASE UNCHANGED vars
    BY <1>1, <1>5 DEF vars, ProvInv, CacheTypeOK, CacheInv, Expired
<1>. QED BY <1>2, <1>3, <1>4, <1>5 DEF Next

\* The invariant holds for as long as the bridge serves requests.
LEMMA ProvInvAlways == Spec => []ProvInv
BY ProvInvInit, ProvInvNext, PTL DEF Spec

-----------------------------------------------------------------------------
(* The theorems. *)

\* Types, and that no request asks more mirrors than there are.
THEOREM ProviderTypes == Spec => []TypeOK
<1>1. ProvInv => TypeOK
    BY DEF ProvInv, RequestInv, Counted, TypeOK
<1>. QED BY <1>1, ProvInvAlways, PTL

\* The mirror whose page has a result, a challenge of any of them, or the error of
\* the last one decides what Search of either provider answers, in that order.
THEOREM AnswersFollow == Spec => []AnswerFollowsMirrors
<1>1. ProvInv => AnswerFollowsMirrors
    <2>1. SUFFICES ASSUME ProvInv, NEW r \in Requests, req[r].op = "search",
                          req[r].pc = "answered", Len(req[r].met) > 0
                   PROVE  /\ \A i \in 1..(Len(req[r].met) - 1) : ~Good(req[r], i)
                          /\ req[r].answer = "books" <=> Good(req[r], Len(req[r].met))
                          /\ ~Good(req[r], Len(req[r].met)) =>
                               /\ Len(req[r].met) = Mirrors
                               /\ req[r].answer = ErrorTold(req[r])
        BY DEF AnswerFollowsMirrors, Good, Posed, ErrorTold
    <2>2. Concluded(req[r])
        BY <2>1 DEF ProvInv, RequestInv
    <2>. QED BY <2>1, <2>2 DEF Concluded, NoneGood
<1>. QED BY <1>1, ProvInvAlways, PTL

\* Every return of Search, OpenCover and OpenFile, and of the handler after them,
\* has closed what was opened on the way there, for any number of mirrors.
THEOREM ResponsesAreClosed == Spec => []NoResponseLeaks
<1>1. ProvInv => NoResponseLeaks
    BY DEF ProvInv, RequestInv, Clean, Holding, NoResponseLeaks
<1>. QED BY <1>1, ProvInvAlways, PTL

\* markChallenge and clearChallenge are called on the evidence of a search.
THEOREM BreakerIsEarned == Spec => BreakerFollowsEvidence
<1>1. ProvInv /\ [Next]_vars => [BreakerMoves]_vars
    <2> SUFFICES ASSUME ProvInv, Next, until' # until PROVE BreakerMoves
        BY DEF vars, BreakerMoves
    <2> USE DEF BreakerMoves
    <2>1. ASSUME NEW r \in Requests, Begin(r) \/ Work(r) PROVE BreakerMoves
        <3>1. req[r] \in Request /\ RequestInv(req[r])
            BY DEF ProvInv
        <3>2. Clear(r) \/ AnnaEnded(r)
            BY <2>1, RequestStep
        <3>3. CASE Clear(r)
            <4>1. until' = 0 /\ req[r].prov = "anna" /\ Len(req[r].met) > 0
                  /\ Good(req[r], Len(req[r].met))
                BY <3>1, <3>3 DEF Clear, RequestInv, OnPath, Searched
            <4>2. req[r].met # <<>>
                BY <4>1
            <4>. QED BY <4>1, <4>2 DEF OpensBreaker, Good
        <3>4. CASE AnnaEnded(r)
            <4>1. /\ until' = now + Cooldown /\ req[r].challenged /\ req[r].prov = "anna"
                  /\ req[r].pc = "ended" /\ req[r].op = "search"
                BY <3>4 DEF AnnaEnded
            <4>2. Len(req[r].met) = Mirrors /\ NoneGood(req[r], Mirrors) /\ Posed(req[r])
                BY <3>1, <4>1 DEF RequestInv, Counted, Searched
            <4>3. ShutsBreaker(req[r])
                BY <4>1, <4>2 DEF ShutsBreaker, NoneGood, Good, Posed
            <4>. QED BY <4>1, <4>3
        <3>. QED BY <3>2, <3>3, <3>4
    <2>2. CASE PassTime
        BY <2>2 DEF PassTime
    <2>3. CASE Restart
        BY <2>3 DEF Restart
    <2>. QED BY <2>1, <2>2, <2>3 DEF Next
<1>. QED BY <1>1, ProvInvAlways, PTL DEF Spec, BreakerFollowsEvidence

\* Only LookUp leaves the look at the cache, but for a restart.
LEMMA LookUpStep ==
    ASSUME ProvInv, Next, NEW r \in Requests, req[r].pc = "lookup", req'[r].pc # "lookup"
    PROVE  LookUp(r) \/ req'[r] = Idle
<1>1. ASSUME NEW o \in Requests, Begin(o) \/ Work(o) PROVE LookUp(r)
    <2>1. PICK q : Becomes(o, q)
        BY <1>1, RequestStep DEF GoesOn
    <2>2. o = r
        BY <2>1 DEF Becomes, ProvInv
    <2>. QED BY <1>1, <2>2
         DEF Work, Begin, CheckBreaker, Ask, ReadPage, Store, Clear, AnnaEnded, LibGenEnded,
             Expire, Cover, Resolve, ReadResolution, DetailPage, ReadDetail, Fetch, Status, Peek,
             FileEnded, Stream
<1>2. CASE PassTime
    BY <1>2 DEF PassTime
<1>3. CASE Restart
    BY <1>3, IdleFields DEF Restart
<1>. QED BY <1>1, <1>2, <1>3 DEF Next

\* Get serves an entry of the provider it is asked for, put at most TTL ago.
THEOREM ServedBooksAreFresh == Spec => ServedBookIsFresh
<1>1. ProvInv /\ [Next]_vars => [\A r \in Requests : Serves(r) => FreshFor(req[r].prov)]_vars
    <2> SUFFICES ASSUME ProvInv, Next, NEW r \in Requests, Serves(r)
                 PROVE  FreshFor(req[r].prov)
        BY DEF vars
    <2> DEFINE e == entries[req[r].prov]
    <2>1. /\ req \in [Requests -> Request] /\ req[r] \in Request /\ CacheInv
          /\ entries \in [Providers -> {NoEntry} \cup Entry] /\ req[r].prov \in Providers
          /\ now \in Nat
        BY DEF ProvInv, CacheTypeOK, Request
    <2>2. /\ req[r].pc = "lookup" /\ req'[r].pc # "lookup" /\ req'[r].pc \notin {"idle", "expire"}
          /\ req'[r].pc = "answered" => req'[r].answer = "book"
        BY DEF Serves
    <2>3. LookUp(r)
        BY <2>2, LookUpStep, IdleFields
    <2>4. e # NoEntry /\ ~Expired(e)
        <3>1. ~Becomes(r, Answered(req[r], "details_not_cached"))
            <4>1. /\ Answered(req[r], "details_not_cached").pc = "answered"
                  /\ Answered(req[r], "details_not_cached").answer = "details_not_cached"
                BY <2>1, AnsweredFields DEF Codes
            <4>. QED BY <2>1, <2>2, <4>1 DEF Becomes
        <3>2. ~Becomes(r, Move([req[r] EXCEPT !.stale = e], "expire"))
            <4>1. Move([req[r] EXCEPT !.stale = e], "expire").pc = "expire"
                BY <2>1 DEF Move, Request
            <4>. QED BY <2>1, <2>2, <4>1 DEF Becomes
        <3>. QED BY <2>3, <3>1, <3>2 DEF LookUp, Key
    <2>5. e \in Entry
        BY <2>1, <2>4
    <2>. QED BY <2>1, <2>4, <2>5, CacheAssumption DEF CacheInv, Entry, Expired, FreshFor
<1>. QED BY <1>1, ProvInvAlways, PTL DEF Spec, ServedBookIsFresh

\* A good entry makes place for a newer one, or is deleted by the second
\* transaction of a Get whose first one had read an expired entry.
THEOREM FreshEntriesStay == Spec => FreshEntryStays
<1>1. ProvInv /\ [Next]_vars =>
        [\A p \in Providers :
            entries[p] # NoEntry /\ ~Expired(entries[p]) /\ entries'[p] # entries[p] =>
                Replaced(p) \/ Deleted(p)]_vars
    <2> SUFFICES ASSUME ProvInv, Next, NEW p \in Providers, entries[p] # NoEntry,
                        ~Expired(entries[p]), entries'[p] # entries[p]
                 PROVE  Replaced(p) \/ Deleted(p)
        BY DEF vars
    <2>1. PICK r \in Requests : Begin(r) \/ Work(r)
        BY DEF Next, PassTime, Restart
    <2>2. /\ req \in [Requests -> Request] /\ CacheInv /\ now \in Nat
          /\ entries \in [Providers -> {NoEntry} \cup Entry]
        BY DEF ProvInv, CacheTypeOK
    <2>3. CASE entries'[p].of = p /\ entries'[p].expires = now + TTL
        <3>1. entries'[p].expires >= entries[p].expires
            BY <2>2, <2>3, CacheAssumption DEF CacheInv, Entry
        <3>2. entries'[p] # NoEntry
            BY <2>2, <2>3, CacheAssumption DEF NoEntry
        <3>. QED BY <3>1, <3>2 DEF Replaced
    <2>4. CASE Expire(r) /\ req[r].prov = p
        <3>1. req[r].pc = "expire" /\ Becomes(r, Answered(req[r], "details_not_cached"))
            BY <2>4 DEF Expire
        <3>2. req'[r].pc = "answered"
            BY <2>2, <3>1 DEF Becomes, Answered
        <3>3. req[r].stale # entries[p]
            BY <2>2, <3>1 DEF CacheInv
        <3>. QED BY <2>4, <3>1, <3>2, <3>3 DEF Deleted
    <2>. QED BY <2>1, <2>3, <2>4, EntriesStep
<1>. QED BY <1>1, ProvInvAlways, PTL DEF Spec, FreshEntryStays

\* How far each step is from an answer.
LEMMA StagesAre ==
    /\ Stages["breaker"] = 15 /\ Stages["lookup"] = 15 /\ Stages["detail_page"] = 14
    /\ Stages["detail"] = 13 /\ Stages["cover"] = 12 /\ Stages["fetch"] = 12
    /\ Stages["status"] = 11 /\ Stages["ask"] = 10 /\ Stages["resolve"] = 10
    /\ Stages["page"] = 9 /\ Stages["resolution"] = 9 /\ Stages["store"] = 5
    /\ Stages["expire"] = 5 /\ Stages["clear"] = 4 /\ Stages["ended"] = 3
    /\ Stages["peek"] = 2 /\ Stages["stream"] = 1
BY DEF Stages

\* A move to a later step, or one after another mirror was asked, goes ahead.
LEMMA MovesAhead ==
    ASSUME NEW p \in Request, NEW q \in Request, NEW m \in Nat, NEW n \in Nat,
           Stages[p.pc] = m, Stages[q.pc] = n,
           \/ q.met = p.met /\ n < m
           \/ Len(q.met) = Len(p.met) + 1 /\ n < m + 20
    PROVE  Ahead(q) < Ahead(p)
<1>1. Len(p.met) \in Nat /\ Len(q.met) \in Nat /\ Mirrors \in Nat
    BY ProvidersAssumption DEF Request
<1>2. Ahead(q) = 20 * (Mirrors - Len(q.met)) + n /\ Ahead(p) = 20 * (Mirrors - Len(p.met)) + m
    BY DEF Ahead
<1>3. CASE q.met = p.met /\ n < m
    BY <1>1, <1>2, <1>3
<1>4. CASE Len(q.met) = Len(p.met) + 1 /\ n < m + 20
    BY <1>1, <1>2, <1>4
<1>. QED BY <1>3, <1>4

\* A request whose mirror was asked, and that goes on with or without an error.
LEMMA TurnFields ==
    ASSUME NEW a \in Request, NEW reply \in Replies("anna") \cup {"asked"},
           NEW l \in {"plain", "upstream_http_error", "parse_error",
                      "download_resolution_failed"},
           NEW pc
    PROVE  /\ Len(Move(Asked(a, reply), pc).met) = Len(a.met) + 1
           /\ Len(Move(WithError(Asked(a, reply), l), pc).met) = Len(a.met) + 1
           /\ Len(Move(Passed(Asked(a, reply), reply), pc).met) = Len(a.met) + 1
           /\ Move(Asked(a, reply), pc).pc = pc
           /\ Move(WithError(Asked(a, reply), l), pc).pc = pc
           /\ Move(Passed(Asked(a, reply), reply), pc).pc = pc
<1> DEFINE b == Asked(a, reply)
<1>1. b \in Request /\ Len(b.met) = Len(a.met) + 1
    BY AppendedFields
<1> HIDE DEF b
<1>2. WithError(b, l) \in Request /\ WithError(b, l).met = b.met
    BY <1>1, ErrorFields
<1>3. Passed(b, reply) \in Request /\ Passed(b, reply).met = b.met
    BY <1>1, PassedFields
<1>4. ASSUME NEW x \in Request PROVE Move(x, pc).met = x.met /\ Move(x, pc).pc = pc
    BY DEF Move, Request
<1>. QED BY <1>1, <1>2, <1>3, <1>4 DEF b

\* An answer ends the work on a request.
LEMMA AnsweredEnds == \A q, code : Answered(q, code).pc = "answered"
BY DEF Answered

\* A step of the work that is not the last one goes ahead.
LEMMA WorkGoesAhead ==
    ASSUME ProvInv, NEW r \in Requests, Work(r), req'[r].pc # "answered"
    PROVE  Ahead(req'[r]) < Ahead(req[r])
<1> DEFINE q == req[r]
           p == req'[r]
<1>1. /\ q \in Request /\ p \in Request /\ \A x : Becomes(r, x) => p = x
      /\ \A x, code : ~Becomes(r, Answered(x, code))
    <2>1. q \in Request /\ \A x : Becomes(r, x) => p = x
        BY DEF ProvInv, Becomes
    <2>2. PICK y : Becomes(r, y) /\ RequestInv(y)
        BY RequestStep DEF GoesOn
    <2>3. p \in Request
        BY <2>1, <2>2 DEF RequestInv
    <2>4. \A x, code : p # Answered(x, code)
        BY AnsweredEnds
    <2>. QED BY <2>1, <2>3, <2>4
<1>9. ASSUME NEW m \in Nat, NEW n \in Nat, p.met = q.met, n < m,
             Stages[q.pc] = m, Stages[p.pc] = n
      PROVE  Ahead(p) < Ahead(q)
    BY <1>1, <1>9, MovesAhead
<1>2. CASE CheckBreaker(r)
    <2>1. q.pc = "breaker" /\ p = Move(q, "ask")
        BY <1>1, <1>2 DEF CheckBreaker
    <2>2. p.pc = "ask" /\ p.met = q.met
        BY <1>1, <2>1, MoveFields
    <2>3. Stages[q.pc] = 15 /\ Stages[p.pc] = 10
        BY <2>1, <2>2, StagesAre
    <2>. QED BY <1>9, <2>2, <2>3
<1>3. ASSUME Len(p.met) = Len(q.met) + 1, q.pc \in {"ask", "page", "resolve", "resolution"},
             p.pc \in {"ended", "ask", "clear", "store", "resolve", "fetch"}
      PROVE  Ahead(p) < Ahead(q)
    <2>1. Stages[q.pc] \in {9, 10} /\ Stages[p.pc] \in {3, 4, 5, 10, 12}
        BY <1>3, StagesAre
    <2>2. PICK m \in Nat, n \in Nat : Stages[q.pc] = m /\ Stages[p.pc] = n /\ n < m + 20
        BY <2>1
    <2>. QED BY <1>1, <1>3, <2>2, MovesAhead
<1>10. CASE Ask(r)
    <2>1. /\ q.pc = "ask"
          /\ \/ \E pc \in {"ended", "ask"} :
                    p = Move(Passed(Asked(q, "unreachable"), "unreachable"), pc)
             \/ p = Move(Opened(q), "page")
        BY <1>1, <1>10 DEF Ask, NextMirror
    <2>2. CASE p = Move(Opened(q), "page")
        <3>1. p.pc = "page" /\ p.met = q.met
            BY <1>1, <2>2 DEF Move, Opened, Request
        <3>2. Stages[q.pc] = 10 /\ Stages[p.pc] = 9
            BY <2>1, <3>1, StagesAre
        <3>. QED BY <1>9, <3>1, <3>2
    <2>3. CASE \E pc \in {"ended", "ask"} :
                   p = Move(Passed(Asked(q, "unreachable"), "unreachable"), pc)
        <3>1. "unreachable" \in Replies("anna") \cup {"asked"}
            BY DEF Replies
        <3>2. Len(p.met) = Len(q.met) + 1 /\ p.pc \in {"ended", "ask"}
            BY <1>1, <2>3, <3>1, TurnFields
        <3>. QED BY <1>3, <2>1, <3>2
    <2>. QED BY <2>1, <2>2, <2>3
<1>11. CASE ReadPage(r)
    <2> DEFINE c == Closed(q)
    <2>1. PICK reply \in Replies(q.prov) :
              \/ \E pc \in {"clear", "store"} : p = Move(Asked(c, reply), pc)
              \/ \E pc \in {"ended", "ask"} : p = Move(Passed(Asked(c, reply), reply), pc)
        BY <1>1, <1>11 DEF ReadPage, NextMirror
    <2>2. reply \in Replies("anna") \cup {"asked"} /\ q.pc = "page"
        BY <1>11 DEF Replies, ReadPage
    <2>3. c \in Request /\ c.met = q.met
        BY <1>1, <2>2, ClosedFields DEF ProvInv, RequestInv, Clean, Holding
    <2> HIDE DEF c
    <2>4. Len(p.met) = Len(q.met) + 1 /\ p.pc \in {"clear", "store", "ended", "ask"}
        BY <2>1, <2>2, <2>3, TurnFields
    <2>. QED BY <1>3, <2>2, <2>4
<1>12. CASE Resolve(r)
    <2>1. /\ q.pc = "resolve"
          /\ \/ \E pc \in {"ended", "resolve"} :
                    p = Move(WithError(Asked(q, "asked"), "plain"), pc)
             \/ p = Move(Opened(q), "resolution")
        BY <1>1, <1>12 DEF Resolve, NextMirror
    <2>2. CASE p = Move(Opened(q), "resolution")
        <3>1. p.pc = "resolution" /\ p.met = q.met
            BY <1>1, <2>2 DEF Move, Opened, Request
        <3>2. Stages[q.pc] = 10 /\ Stages[p.pc] = 9
            BY <2>1, <3>1, StagesAre
        <3>. QED BY <1>9, <3>1, <3>2
    <2>3. CASE \E pc \in {"ended", "resolve"} :
                   p = Move(WithError(Asked(q, "asked"), "plain"), pc)
        <3>1. Len(p.met) = Len(q.met) + 1 /\ p.pc \in {"ended", "resolve"}
            BY <1>1, <2>3, TurnFields
        <3>. QED BY <1>3, <2>1, <3>1
    <2>. QED BY <2>1, <2>2, <2>3
<1>13. CASE ReadResolution(r)
    <2> DEFINE c == Closed(q)
    <2>1. \/ p = Move(Asked(c, "asked"), "fetch")
          \/ \E l \in {"plain", "download_resolution_failed"}, pc \in {"ended", "resolve"} :
                 p = Move(WithError(Asked(c, "asked"), l), pc)
        BY <1>1, <1>13 DEF ReadResolution, NextMirror
    <2>2. q.pc = "resolution"
        BY <1>13 DEF ReadResolution
    <2>3. c \in Request /\ c.met = q.met
        BY <1>1, <2>2, ClosedFields DEF ProvInv, RequestInv, Clean, Holding
    <2> HIDE DEF c
    <2>4. CASE p = Move(Asked(c, "asked"), "fetch")
        <3>1. Len(p.met) = Len(q.met) + 1 /\ p.pc = "fetch"
            BY <2>3, <2>4, TurnFields
        <3>. QED BY <1>3, <2>2, <3>1
    <2>5. CASE \E l \in {"plain", "download_resolution_failed"}, pc \in {"ended", "resolve"} :
                   p = Move(WithError(Asked(c, "asked"), l), pc)
        <3>1. Len(p.met) = Len(q.met) + 1 /\ p.pc \in {"ended", "resolve"}
            BY <2>3, <2>5, TurnFields
        <3>. QED BY <1>3, <2>2, <3>1
    <2>. QED BY <2>1, <2>4, <2>5
<1>4. CASE Store(r)
    <2>1. q.pc = "store" /\ p = Move(q, "clear")
        BY <1>1, <1>4 DEF Store
    <2>2. p.pc = "clear" /\ p.met = q.met
        BY <1>1, <2>1, MoveFields
    <2>3. Stages[q.pc] = 5 /\ Stages[p.pc] = 4
        BY <2>1, <2>2, StagesAre
    <2>. QED BY <1>9, <2>2, <2>3
<1>5. CASE LookUp(r)
    <2> DEFINE e == entries[Key(q.prov)]
    <2>1. q.pc = "lookup" /\ (p = WithBook(q, e) \/ p = Move([q EXCEPT !.stale = e], "expire"))
        BY <1>1, <1>5 DEF LookUp
    <2>2. WithBook(q, e) \in {Move(q, "cover"), Move(q, "resolve"), Move(q, "detail_page")}
             \/ WithBook(q, e).pc = "answered"
        BY AnsweredEnds DEF WithBook
    <2>3. p.met = q.met /\ p.pc \in {"cover", "resolve", "detail_page", "expire"}
        BY <1>1, <2>1, <2>2 DEF Move, Request
    <2>4. q.pc = "lookup"
        BY <2>1
    <2> HIDE DEF e
    <2>5. Stages[q.pc] = 15 /\ Stages[p.pc] \in {5, 10, 12, 14}
        BY <2>3, <2>4, StagesAre
    <2>. QED BY <1>9, <2>3, <2>5
<1>6. CASE DetailPage(r) \/ ReadDetail(r) \/ Cover(r) \/ Fetch(r) \/ Status(r) \/ Peek(r)
    <2>1. \/ q.pc = "detail_page" /\ p = Move(Opened(q), "detail")
          \/ q.pc = "detail" /\ p = Move(Closed(q), "fetch")
          \/ q.pc \in {"cover", "fetch"} /\ p = Move(Opened(q), "status")
          \/ /\ q.pc \in {"fetch", "status"}
             /\ \E l : \E pc \in {"ended", "resolve"} :
                    \/ p = Move(WithError(q, l), pc)
                    \/ p = Move(WithError(Closed(q), l), pc)
          \/ q.pc = "status" /\ \E pc \in {"peek", "stream"} : p = Move(q, pc)
          \/ q.pc = "peek" /\ p = Move(q, "stream")
        <3>1. CASE DetailPage(r)
            BY <1>1, <3>1 DEF DetailPage
        <3>2. CASE ReadDetail(r)
            BY <1>1, <3>2 DEF ReadDetail
        <3>3. CASE Cover(r)
            BY <1>1, <3>3 DEF Cover
        <3>4. CASE Fetch(r)
            BY <1>1, <3>4 DEF Fetch, GiveUp, NextMirror
        <3>5. CASE Status(r)
            BY <1>1, <3>5 DEF Status, GiveUp, NextMirror
        <3>6. CASE Peek(r)
            BY <1>1, <3>6 DEF Peek
        <3>. QED BY <1>6, <3>1, <3>2, <3>3, <3>4, <3>5, <3>6
    <2>2. /\ p.met = q.met
          /\ \/ q.pc = "detail_page" /\ p.pc = "detail"
             \/ q.pc = "detail" /\ p.pc = "fetch"
             \/ q.pc \in {"cover", "fetch"} /\ p.pc = "status"
             \/ q.pc \in {"fetch", "status"} /\ p.pc \in {"ended", "resolve"}
             \/ q.pc = "status" /\ p.pc \in {"peek", "stream"}
             \/ q.pc = "peek" /\ p.pc = "stream"
        BY <1>1, <2>1 DEF Move, Opened, Closed, WithError, Request
    <2>3. PICK m \in Nat, n \in Nat : Stages[q.pc] = m /\ Stages[p.pc] = n /\ n < m
        BY <2>2, StagesAre
    <2>. QED BY <1>9, <2>2, <2>3
<1>7. ~Clear(r) /\ ~AnnaEnded(r) /\ ~LibGenEnded(r) /\ ~Expire(r) /\ ~FileEnded(r)
    BY <1>1 DEF Clear, AnnaEnded, LibGenEnded, Expire, FileEnded
<1>8. ~Stream(r)
    BY <1>1 DEF Stream
<1>. QED BY <1>2, <1>4, <1>5, <1>6, <1>7, <1>8, <1>10, <1>11, <1>12, <1>13 DEF Work

\* Every step of a request brings it nearer to its answer, whatever the mirrors
\* and the other requests do: the loops over the mirrors end.
THEOREM RequestsAdvance == Spec => EveryStepAdvances
<1>1. ProvInv /\ [Next]_vars =>
        [\A r \in Requests : GoesAhead(r) => Ahead(req'[r]) < Ahead(req[r])]_vars
    <2> SUFFICES ASSUME ProvInv, Next, NEW r \in Requests, GoesAhead(r)
                 PROVE  Ahead(req'[r]) < Ahead(req[r])
        BY DEF vars
    <2>1. req'[r] # req[r] /\ req[r].pc # "idle" /\ req'[r].pc \notin {"idle", "answered"}
        BY DEF GoesAhead
    <2>2. PICK o \in Requests : Begin(o) \/ Work(o)
        BY <2>1, IdleFields DEF Next, PassTime, Restart
    <2>3. PICK x : Becomes(o, x)
        BY <2>2, RequestStep DEF GoesOn
    <2>4. o = r
        BY <2>1, <2>3 DEF Becomes, ProvInv
    <2>5. Work(r)
        BY <2>1, <2>2, <2>4 DEF Begin
    <2>. QED BY <2>1, <2>5, WorkGoesAhead
<1>. QED BY <1>1, ProvInvAlways, PTL DEF Spec, EveryStepAdvances
=============================================================================
