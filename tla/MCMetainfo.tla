----------------------------- MODULE MCMetainfo -----------------------------
(* Descriptors for TLC: single files and lists of up to two, good and bad,  *)
(* canonical and not, as trees and as they are written.                     *)
EXTENDS Metainfo, SequencesExt

IntTree(n)  == [t |-> "int", n |-> n, plain |-> TRUE]
LongTree(n) == [t |-> "int", n |-> n, plain |-> FALSE]
StrTree(s)  == [t |-> "str", s |-> s, plain |-> TRUE]
LongStr(s)  == [t |-> "str", s |-> s, plain |-> FALSE]
List(l)     == [t |-> "list", l |-> l]
Dict(d)     == [t |-> "dict", d |-> d]
Pair(k, v)  == [k |-> k, v |-> v]

RECURSIVE Written(_)
Written(v) ==
    CASE v.t = "list" ->
            <<Open("list")>> \o FlattenSeq([i \in DOMAIN v.l |-> Written(v.l[i])]) \o <<End>>
      [] v.t = "dict" ->
            <<Open("dict")>>
            \o FlattenSeq([i \in DOMAIN v.d |-> <<Str(v.d[i].k)>> \o Written(v.d[i].v)])
            \o <<End>>
      [] OTHER -> <<v>>

\* As BEP 3 wants it: numbers in one form, keys sorted and once each.
RECURSIVE Canonical(_)
Canonical(v) ==
    CASE v.t \in {"int", "str"} -> v.plain
      [] v.t = "list" -> \A i \in DOMAIN v.l : Canonical(v.l[i])
      [] v.t = "dict" ->
            /\ \A i \in DOMAIN v.d : Canonical(v.d[i].v)
            /\ \A i, j \in DOMAIN v.d : i < j => Rank(v.d[i].k) < Rank(v.d[j].k)

MCNames == <<"", "a", "b", "extra", "files", "info", "length", "name", "path">>

Sizes == {IntTree(-1), IntTree(2), IntTree(5), LongTree(2), IntTree(9), IntTree(-9), StrTree("a")}
SomePath == List(<<StrTree("a"), StrTree("b")>>)
Paths == {List(<<StrTree("a")>>), List(<<StrTree("a"), LongStr("b")>>), List(<<StrTree("")>>),
          List(<<IntTree(2)>>), StrTree("a")}

Entries ==
    {Dict(<<Pair("length", s), Pair("path", SomePath)>>) : s \in Sizes}
    \cup {Dict(<<Pair("length", IntTree(2)), Pair("path", p)>>) : p \in Paths}
    \cup {Dict(<<Pair("path", SomePath), Pair("length", IntTree(2))>>),
          Dict(<<Pair("length", IntTree(5)), Pair("length", IntTree(2)), Pair("path", SomePath)>>),
          Dict(<<Pair("length", IntTree(2))>>), IntTree(2)}

FileLists == {List(<<>>)} \cup {List(<<a>>) : a \in Entries}
                \cup {List(<<a, b>>) : a \in Entries, b \in Entries}

Name == Pair("name", StrTree("a"))

Infos ==
    {Dict(<<Pair("files", l), Name>>) : l \in FileLists}
    \cup {Dict(<<Name, Pair("files", l)>>) : l \in {List(<<a>>) : a \in Entries}}
    \cup {Dict(<<Pair("length", s), Name>>) : s \in Sizes}
    \cup {Dict(<<Name, Pair("length", s)>>) : s \in Sizes}
    \cup {Dict(<<Pair("length", IntTree(5)), Pair("length", s)>>) : s \in Sizes}
    \cup {Dict(<<Pair("files", IntTree(2)), Pair("length", s)>>) : s \in Sizes}
    \cup {Dict(<<>>), List(<<>>), IntTree(2)}

Trees ==
    {Dict(<<Pair("info", i)>>) : i \in Infos}
    \cup {Dict(<<Pair("extra", IntTree(2)), Pair("info", Dict(<<Pair("length", s)>>))>>) : s \in Sizes}
    \cup {Dict(<<Pair("info", IntTree(2)), Pair("info", Dict(<<Pair("length", IntTree(2))>>))>>),
          Dict(<<Pair("", IntTree(2)), Pair("info", Dict(<<Pair("", SomePath), Pair("length", IntTree(2))>>))>>),
          Dict(<<Pair("extra", IntTree(2))>>), List(<<>>), IntTree(2), StrTree("a")}

\* Some of them with a token that has no place there.
Broken == {<<End>>, <<Open("dict"), Num(2), Num(2), End>>, <<Open("dict"), Str("a"), End, End>>}

MCDescriptors == {Written(t) : t \in Trees} \cup Broken

-----------------------------------------------------------------------------
(* A reference for the whole: what the tree says, and not how Inspect goes   *)
(* about it.                                                                 *)

\* The last value of a key in a dictionary of a tree.
Value(v, k) == LET hits == SelectSeq(v.d, LAMBDA p : p.k = k) IN hits[Len(hits)].v

SizesOf(v) ==
    IF \E i \in DOMAIN v.d : v.d[i].k = "files" /\ Value(v, "files").t = "list"
    THEN LET l == Value(v, "files").l IN [i \in DOMAIN l |-> Value(l[i], "length").n]
    ELSE <<Value(v, "length").n>>

\* The inventory is that of the tree the file was written from: its sizes file by
\* file, and, for a canonical info dictionary, the hash of what was written for it.
InventoryOfTree ==
    result = "inventory" =>
        \A tree \in {t \in Trees : Written(t) = file} :
            LET v == Value(tree, "info") IN
            /\ [i \in DOMAIN files |-> files[i].size] = SizesOf(v)
            /\ Canonical(v) => hash = Written(v)
=============================================================================
