------------------------------ MODULE Metainfo ------------------------------
(***************************************************************************)
(* The inspection of a .torrent descriptor: internal/torrent/metainfo.go,  *)
(* called by cmd/catalogue-inspect.  A descriptor is a sequence of tokens. *)
(* The reader takes one a step, with the recursion of readValue as a       *)
(* stack.  Numbers and lengths may be written as no canonical writer would *)
(* (plain = FALSE), keys may come in any order or twice.                   *)
(*                                                                         *)
(* A hash is the token sequence it is computed from.  A value that was     *)
(* read carries enc, what encode makes of it.  For the properties it also  *)
(* carries where in the file it stands and whether it is written           *)
(* canonically; no step looks at these.                                    *)
(***************************************************************************)
EXTENDS Integers, Sequences, FiniteSets

CONSTANTS
    Descriptors,  \* the files to read
    Names,        \* the strings that occur, in the order of sort.Strings
    MaxInt        \* the largest int64

Strings == {Names[i] : i \in DOMAIN Names}

\* Tokens in the form in which encode writes them.
Num(n)     == [t |-> "int", n |-> n, plain |-> TRUE]
Str(s)     == [t |-> "str", s |-> s, plain |-> TRUE]
Open(what) == [t |-> what]
End        == [t |-> "end"]

Tokens == [t : {"int"}, n : Int, plain : BOOLEAN]
              \cup [t : {"str"}, s : Strings, plain : BOOLEAN]
              \cup [t : {"list", "dict", "end"}]

ASSUME WidthAssumption == MaxInt \in Nat
ASSUME NamesAssumption ==
    Names \in Seq(STRING) /\ \A i, j \in DOMAIN Names : Names[i] = Names[j] => i = j
ASSUME DescriptorsAssumption == Descriptors \subseteq Seq(Tokens)

VARIABLES
    file,    \* the descriptor
    at,      \* how many of its tokens were read
    stack,   \* the lists and dictionaries that are being read, innermost first
    result,  \* how far Inspect has come
    info,    \* the info dictionary
    files,   \* the inventory
    added,   \* how many of its sizes are in total
    total,
    hash

inventory == <<info, files, added, total, hash>>
vars == <<file, at, stack, result, inventory>>

Init ==
    /\ file \in Descriptors /\ at = 0
    /\ stack = <<>> /\ result = "reading"
    /\ info = <<>> /\ files = <<>> /\ added = 0 /\ total = 0 /\ hash = <<>>

-----------------------------------------------------------------------------
(* encode, of values whose parts are encoded. *)

\* The parts 1..n one after another.
Joined(parts, n) ==
    LET upto[i \in 0..n] == IF i = 0 THEN <<>> ELSE upto[i - 1] \o parts[i]
    IN  upto[n]

EncodeList(items) ==
    <<Open("list")>> \o Joined([i \in DOMAIN items |-> items[i].enc], Len(items)) \o <<End>>

EncodePair(map, k) == IF k \in DOMAIN map THEN <<Str(k)>> \o map[k].enc ELSE <<>>

\* Mutant of EncodeDict: the keys are not sorted.
EncodeDict_AnyOrder(map) ==
    <<Open("dict")>>
    \o Joined([i \in DOMAIN Names |-> EncodePair(map, Names[Len(Names) + 1 - i])], Len(Names))
    \o <<End>>

\* The keys are sorted.
EncodeDict(map) ==
    <<Open("dict")>>
    \o Joined([i \in DOMAIN Names |-> EncodePair(map, Names[i])], Len(Names))
    \o <<End>>

-----------------------------------------------------------------------------
(* Inspect, once the descriptor is read. *)

Fail == result' = "error" /\ UNCHANGED <<stack, inventory>>

Has(v, k, what) == v.t = "dict" /\ k \in DOMAIN v.map /\ v.map[k].t = what

\* An int64 that is not negative.
GoodSize(v) == Has(v, "length", "int") /\ v.map["length"].n \in 0..MaxInt

GoodEntry(v) ==
    /\ GoodSize(v)
    /\ Has(v, "path", "list")
    /\ \A i \in DOMAIN v.map["path"].items :
          v.map["path"].items[i].t = "str" /\ v.map["path"].items[i].s # ""

PathOf(v) == [i \in DOMAIN v.map["path"].items |-> v.map["path"].items[i].s]

GoodInfo(v) ==
    IF Has(v, "files", "list")
    THEN \A i \in DOMAIN v.map["files"].items : GoodEntry(v.map["files"].items[i])
    ELSE GoodSize(v)

Files(v) ==
    IF Has(v, "files", "list")
    THEN LET l == v.map["files"].items IN
         [i \in DOMAIN l |-> [path |-> PathOf(l[i]), size |-> l[i].map["length"].n]]
    ELSE << [path |-> IF Has(v, "name", "str") THEN <<v.map["name"].s>> ELSE <<>>,
             size |-> v.map["length"].n] >>

Inspect(root) ==
    IF Has(root, "info", "dict") /\ GoodInfo(root.map["info"])
    THEN /\ info' = root.map["info"] /\ files' = Files(info')
         /\ result' = "adding"
         /\ UNCHANGED <<stack, added, total, hash>>
    ELSE Fail

\* Mutant of Overflows: the sum is computed first.
Overflows_Late(n) == FALSE

\* The test comes before the sum, which would wrap around.
Overflows(n) == total > MaxInt - n

\* One turn of the loop over the files.
AddSize ==
    /\ result = "adding" /\ added < Len(files)
    /\ LET n == files[added + 1].size IN
       \/ Overflows(n) /\ Fail
       \/ /\ ~Overflows(n)
          /\ total' = (total + n) % (MaxInt + 1)
          /\ added' = added + 1
          /\ UNCHANGED <<stack, result, info, files, hash>>
    /\ UNCHANGED <<file, at>>

Report ==
    /\ result = "adding" /\ added = Len(files)
    /\ hash' = info.enc
    /\ result' = "inventory"
    /\ UNCHANGED <<file, at, stack, info, files, added, total>>

-----------------------------------------------------------------------------
(* decode, one token a step. *)

IntValue(token, p) ==
    [t |-> "int", n |-> token.n, enc |-> <<Num(token.n)>>, from |-> p, to |-> p, plain |-> token.plain]

StrValue(token, p) ==
    [t |-> "str", s |-> token.s, enc |-> <<Str(token.s)>>, from |-> p, to |-> p, plain |-> token.plain]

\* A list or dictionary that is being read from p on; key holds the key that
\* waits for its value, if there is one.
Frame(what, p) ==
    [t |-> what, items |-> <<>>, map |-> <<>>, key |-> <<>>, from |-> p, plain |-> TRUE]

Closed(f, p) ==
    [t |-> f.t, items |-> f.items, map |-> f.map, from |-> f.from, to |-> p, plain |-> f.plain,
     enc |-> IF f.t = "list" THEN EncodeList(f.items) ELSE EncodeDict(f.map)]

\* Mutant of WithKey: a key that comes again is ignored.
WithKey_KeepsFirst(map, k, v) == [x \in {k} \cup DOMAIN map |-> IF x \in DOMAIN map THEN map[x] ELSE v]

\* out[key] = v
WithKey(map, k, v) == [x \in {k} \cup DOMAIN map |-> IF x = k THEN v ELSE map[x]]

\* A canonical writer puts no key after k that is not greater.
Rank(k) == CHOOSE i \in DOMAIN Names : Names[i] = k
After(map, k) == \A x \in DOMAIN map : Rank(x) < Rank(k)

WithItem(f, v) == [f EXCEPT !.items = Append(@, v), !.plain = @ /\ v.plain]
WithKeyRead(f, v) ==
    [f EXCEPT !.key = <<v.s>>, !.plain = @ /\ v.plain /\ After(f.map, v.s)]
WithValue(f, v) ==
    [f EXCEPT !.map = WithKey(@, f.key[1], v), !.key = <<>>, !.plain = @ /\ v.plain]

Innermost(rest, f) ==
    stack' = <<f>> \o Tail(rest) /\ UNCHANGED <<result, inventory>>

\* The value that was read goes where the innermost list or dictionary wants it.
Deliver(rest, v) ==
    \/ rest = <<>> /\ Inspect(v)
    \/ /\ rest # <<>>
       /\ LET top == Head(rest) IN
          \/ top.t = "list" /\ Innermost(rest, WithItem(top, v))
          \/ top.t = "dict" /\ top.key # <<>> /\ Innermost(rest, WithValue(top, v))
          \/ top.t = "dict" /\ top.key = <<>> /\ v.t = "str" /\ Innermost(rest, WithKeyRead(top, v))
          \/ top.t = "dict" /\ top.key = <<>> /\ v.t # "str" /\ Fail

\* readValue and the loops in it, up to the next token.
ReadToken ==
    /\ result = "reading" /\ at < Len(file)
    /\ at' = at + 1
    /\ LET token == file[at + 1] IN
       \/ token.t = "int" /\ token.n \in -(MaxInt + 1)..MaxInt /\ Deliver(stack, IntValue(token, at + 1))
       \/ token.t = "int" /\ token.n \notin -(MaxInt + 1)..MaxInt /\ Fail
       \/ token.t = "str" /\ Deliver(stack, StrValue(token, at + 1))
       \/ /\ token.t \in {"list", "dict"}
          /\ stack' = <<Frame(token.t, at + 1)>> \o stack
          /\ UNCHANGED <<result, inventory>>
       \/ /\ token.t = "end"
          /\ \/ stack = <<>> /\ Fail
             \/ stack # <<>> /\ Head(stack).key # <<>> /\ Fail
             \/ /\ stack # <<>> /\ Head(stack).key = <<>>
                /\ Deliver(Tail(stack), Closed(Head(stack), at + 1))
    /\ UNCHANGED file

\* The file ends, or reading it fails.
Cut ==
    /\ result = "reading"
    /\ Fail
    /\ UNCHANGED <<file, at>>

Next == ReadToken \/ Cut \/ AddSize \/ Report

Spec == Init /\ [][Next]_vars

-----------------------------------------------------------------------------
(* Properties. *)

\* The infohash printed for a file whose info dictionary is canonical is that of
\* the dictionary as it stands in the file: reading and writing loses nothing.
HashIsFaithful ==
    result = "inventory" /\ info.plain => hash = SubSeq(file, info.from, info.to)

\* What the files of the inventory hold, byte by byte.
Bytes == UNION {{i} \X (1..files[i].size) : i \in DOMAIN files}

\* The total that is printed counts every byte of every file, which no overflow
\* has wrapped around, and nothing that is printed is negative.
TotalIsExact ==
    result = "inventory" =>
        /\ \A i \in DOMAIN files : files[i].size \in 0..MaxInt
        /\ total = Cardinality(Bytes) /\ total <= MaxInt
=============================================================================
