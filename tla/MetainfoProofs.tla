--------------------------- MODULE MetainfoProofs ---------------------------
(***************************************************************************)
(* Proofs about Metainfo, for all descriptors, keys and widths of an       *)
(* integer: the hash of a canonical info dictionary is that of its tokens, *)
(* and the total counts every byte of the inventory.                       *)
(*                                                                         *)
(* MetainfoInv is the inductive invariant.  Of every list and dictionary   *)
(* on the stack it says that, if nothing in it was written otherwise, what *)
(* a canonical writer would have written of it (Begun) is what stands in   *)
(* the file from where it begins to where the next inner one begins.  The  *)
(* hard step is a key with its value: a canonical file brings the keys in  *)
(* the order of sort.Strings, so what encode writes for the dictionary     *)
(* only grows at its end (GreatestKeyIsLast).                              *)
(***************************************************************************)
EXTENDS Metainfo, SequenceTheorems, FiniteSetTheorems, WellFoundedInduction, TLAPS

-----------------------------------------------------------------------------
(* Induction, for a set of naturals. *)

LEMMA NatSetInduction ==
    ASSUME NEW S, 0 \in S, \A n \in Nat : n \in S => n + 1 \in S
    PROVE  Nat \subseteq S
<1> DEFINE R == OpToRel(<, Nat)
           T == Nat \ S
<1> SUFFICES ASSUME T # {} PROVE FALSE
    OBVIOUS
<1>1. IsWellFoundedOn(R, Nat)
    BY NatLessThanWellFounded, Zenon
<1>2. \A x, y \in Nat : x < y => <<x, y>> \in R
    BY DEF OpToRel
<1>3. T \subseteq Nat
    OBVIOUS
<1> HIDE DEF R
<1>4. PICK x \in T : \A y \in T : ~ (<<y, x>> \in R)
    BY <1>1, <1>3, WFMin, Zenon
<1>5. \A y \in T : ~ (y < x)
    BY <1>2, <1>3, <1>4, Zenon
<1>6. x # 0 /\ x - 1 \in Nat /\ x - 1 < x
    BY <1>4
<1>7. x - 1 \in S
    BY <1>5, <1>6
<1> QED
    BY <1>4, <1>6, <1>7

-----------------------------------------------------------------------------
(* What Joined does. *)

\* The function of which Joined takes the value at n.
Upto(parts, n) ==
    CHOOSE g : g = [i \in 0..n |-> IF i = 0 THEN <<>> ELSE g[i - 1] \o parts[i]]

LEMMA UptoExists ==
    ASSUME NEW parts, NEW n \in Nat
    PROVE  Upto(parts, n) = [i \in 0..n |-> IF i = 0 THEN <<>> ELSE Upto(parts, n)[i - 1] \o parts[i]]
<1> DEFINE Fits(g, m) == g = [i \in 0..m |-> IF i = 0 THEN <<>> ELSE g[i - 1] \o parts[i]]
           S == {m \in Nat : \E g : Fits(g, m)}
<1>1. 0 \in S
    <2>1. Fits([i \in 0..0 |-> <<>>], 0)
        OBVIOUS
    <2> QED BY <2>1, Zenon
<1>2. ASSUME NEW m \in Nat, m \in S PROVE m + 1 \in S
    <2>1. PICK g : Fits(g, m)
        BY <1>2
    <2> DEFINE h == [i \in 0..(m + 1) |-> IF i = m + 1 THEN g[m] \o parts[i] ELSE g[i]]
    <2>2. \A i \in 0..m : g[i] = IF i = 0 THEN <<>> ELSE g[i - 1] \o parts[i]
        BY <2>1, Zenon
    <2>3. \A i \in 0..(m + 1) : h[i] = IF i = 0 THEN <<>> ELSE h[i - 1] \o parts[i]
        <3> SUFFICES ASSUME NEW i \in 0..(m + 1)
                     PROVE  h[i] = IF i = 0 THEN <<>> ELSE h[i - 1] \o parts[i]
            OBVIOUS
        <3>0. m + 1 \in 0..(m + 1)
            OBVIOUS
        <3>1. h[m + 1] = g[m] \o parts[m + 1]
            BY <3>0, Zenon
        <3>2. \A j \in 0..m : h[j] = g[j]
            OBVIOUS
        <3>3. CASE i = m + 1
            <4>1. i - 1 = m /\ m \in 0..m /\ i # 0
                BY <3>3
            <4> HIDE DEF h
            <4> QED BY <3>1, <3>2, <3>3, <4>1, Zenon
        <3>4. CASE i # m + 1
            <4>1. i \in 0..m /\ (i # 0 => i - 1 \in 0..m)
                BY <3>4
            <4> HIDE DEF h
            <4> QED BY <2>2, <3>2, <4>1, Zenon
        <3> QED BY <3>3, <3>4, Zenon
    <2>4. Fits(h, m + 1)
        BY <2>3, Zenon
    <2>5. \E f : Fits(f, m + 1)
        BY <2>4, Zenon
    <2>6. m + 1 \in Nat
        OBVIOUS
    <2> QED BY <2>5, <2>6, Zenon
<1>3. Nat \subseteq S
    <2> HIDE DEF S
    <2> QED BY <1>1, <1>2, NatSetInduction, Zenon
<1>4. \E g : Fits(g, n)
    BY <1>3
<1>5. Fits(Upto(parts, n), n)
    BY <1>4, Zenon DEF Upto
<1> QED BY <1>5, Zenon

LEMMA UptoZero ==
    ASSUME NEW parts, NEW n \in Nat
    PROVE  Upto(parts, n)[0] = <<>>
<1>1. 0 \in 0..n
    OBVIOUS
<1>2. \A i \in 0..n :
        Upto(parts, n)[i] = IF i = 0 THEN <<>> ELSE Upto(parts, n)[i - 1] \o parts[i]
    BY UptoExists, Zenon
<1> QED BY <1>1, <1>2, Zenon

LEMMA UptoNext ==
    ASSUME NEW parts, NEW n \in Nat, NEW i \in Nat, i + 1 <= n
    PROVE  Upto(parts, n)[i + 1] = Upto(parts, n)[i] \o parts[i + 1]
<1>1. i + 1 \in 0..n /\ i + 1 # 0 /\ (i + 1) - 1 = i
    OBVIOUS
<1>2. \A j \in 0..n :
        Upto(parts, n)[j] = IF j = 0 THEN <<>> ELSE Upto(parts, n)[j - 1] \o parts[j]
    BY UptoExists, Zenon
<1>3. Upto(parts, n)[i + 1] = Upto(parts, n)[(i + 1) - 1] \o parts[i + 1]
    BY <1>1, <1>2, Zenon
<1> QED BY <1>1, <1>3, Zenon

\* It does not depend on how far the function goes, nor on the parts after n.
LEMMA UptoAgree ==
    ASSUME NEW parts, NEW others, NEW n \in Nat, NEW m \in Nat, NEW k \in Nat, k <= n, k <= m,
           \A i \in 1..k : parts[i] = others[i]
    PROVE  Upto(parts, n)[k] = Upto(others, m)[k]
<1> DEFINE S == {i \in Nat : i <= k => Upto(parts, n)[i] = Upto(others, m)[i]}
<1>1. 0 \in S
    BY UptoZero
<1>2. ASSUME NEW i \in Nat, i \in S PROVE i + 1 \in S
    <2> SUFFICES ASSUME i + 1 <= k
                 PROVE  Upto(parts, n)[i + 1] = Upto(others, m)[i + 1]
        OBVIOUS
    <2>1. i + 1 <= n /\ i + 1 <= m /\ i <= k /\ i + 1 \in 1..k
        OBVIOUS
    <2>2. Upto(parts, n)[i + 1] = Upto(parts, n)[i] \o parts[i + 1]
        BY <2>1, UptoNext, Zenon
    <2>3. Upto(others, m)[i + 1] = Upto(others, m)[i] \o others[i + 1]
        BY <2>1, UptoNext, Zenon
    <2>4. Upto(parts, n)[i] = Upto(others, m)[i] /\ parts[i + 1] = others[i + 1]
        BY <1>2, <2>1
    <2> QED BY <2>2, <2>3, <2>4, Zenon
<1>3. Nat \subseteq S
    <2> HIDE DEF S
    <2> QED BY <1>1, <1>2, NatSetInduction, Zenon
<1> QED BY <1>3

LEMMA JoinedIsUpto ==
    ASSUME NEW parts, NEW n \in Nat
    PROVE  Joined(parts, n) = Upto(parts, n)[n]
BY Zenon DEF Joined, Upto

LEMMA JoinedZero ==
    ASSUME NEW parts
    PROVE  Joined(parts, 0) = <<>>
BY JoinedIsUpto, UptoZero

LEMMA JoinedNext ==
    ASSUME NEW parts, NEW n \in Nat
    PROVE  Joined(parts, n + 1) = Joined(parts, n) \o parts[n + 1]
<1>1. n + 1 \in Nat /\ n + 1 <= n + 1 /\ n <= n + 1 /\ n <= n
    OBVIOUS
<1>2. Upto(parts, n + 1)[n + 1] = Upto(parts, n + 1)[n] \o parts[n + 1]
    BY <1>1, UptoNext, Zenon
<1>3. Upto(parts, n + 1)[n] = Upto(parts, n)[n]
    BY UptoAgree
<1> QED BY <1>1, <1>2, <1>3, JoinedIsUpto, Zenon

LEMMA JoinedAgree ==
    ASSUME NEW parts, NEW others, NEW n \in Nat, \A i \in 1..n : parts[i] = others[i]
    PROVE  Joined(parts, n) = Joined(others, n)
BY UptoAgree, JoinedIsUpto

LEMMA JoinedType ==
    ASSUME NEW S, NEW parts, NEW n \in Nat, \A i \in 1..n : parts[i] \in Seq(S)
    PROVE  Joined(parts, n) \in Seq(S)
<1> DEFINE T == {i \in Nat : i <= n => Joined(parts, i) \in Seq(S)}
<1>1. 0 \in T
    BY JoinedZero, EmptySeq
<1>2. ASSUME NEW i \in Nat, i \in T PROVE i + 1 \in T
    <2> SUFFICES ASSUME i + 1 <= n PROVE Joined(parts, i + 1) \in Seq(S)
        OBVIOUS
    <2>1. Joined(parts, i) \in Seq(S) /\ parts[i + 1] \in Seq(S)
        BY <1>2
    <2>2. Joined(parts, i + 1) = Joined(parts, i) \o parts[i + 1]
        BY JoinedNext, Zenon
    <2> QED BY <2>1, <2>2, ConcatProperties, Zenon
<1>3. Nat \subseteq T
    <2> HIDE DEF T
    <2> QED BY <1>1, <1>2, NatSetInduction, Zenon
<1> QED BY <1>3

\* Empty parts at the end add nothing.
LEMMA JoinedRest ==
    ASSUME NEW S, NEW parts, NEW n \in Nat, NEW m \in 0..n,
           \A i \in 1..m : parts[i] \in Seq(S),
           \A i \in (m + 1)..n : parts[i] = <<>>
    PROVE  Joined(parts, n) = Joined(parts, m)
<1> DEFINE T == {i \in Nat : m + i <= n => Joined(parts, m + i) = Joined(parts, m)}
<1>1. 0 \in T
    OBVIOUS
<1>2. ASSUME NEW i \in Nat, i \in T PROVE i + 1 \in T
    <2> SUFFICES ASSUME m + (i + 1) <= n PROVE Joined(parts, m + (i + 1)) = Joined(parts, m)
        OBVIOUS
    <2>1. m + i \in Nat /\ (m + i) + 1 = m + (i + 1) /\ (m + i) + 1 \in (m + 1)..n
        OBVIOUS
    <2>2. Joined(parts, (m + i) + 1) = Joined(parts, m + i) \o parts[(m + i) + 1]
        BY <2>1, JoinedNext, Zenon
    <2>3. parts[(m + i) + 1] = <<>>
        BY <2>1, Zenon
    <2>4. Joined(parts, m + i) = Joined(parts, m)
        BY <1>2
    <2>5. Joined(parts, m) \o <<>> = Joined(parts, m)
        BY JoinedType, ConcatEmptySeq
    <2> QED BY <2>1, <2>2, <2>3, <2>4, <2>5, Zenon
<1>3. Nat \subseteq T
    <2> HIDE DEF T
    <2> QED BY <1>1, <1>2, NatSetInduction, Zenon
<1>4. n - m \in Nat /\ m + (n - m) = n
    OBVIOUS
<1>5. m + (n - m) <= n
    BY <1>4
<1>6. n - m \in T
    <2> HIDE DEF T
    <2> QED BY <1>3, <1>4, Zenon
<1> QED BY <1>4, <1>5, <1>6, Zenon

-----------------------------------------------------------------------------
(* Tokens and keys. *)

LEMMA TokenTypes ==
    /\ \A n \in Int : Num(n) \in Tokens
    /\ \A s \in Strings : Str(s) \in Tokens
    /\ \A what \in {"list", "dict"} : Open(what) \in Tokens
    /\ End \in Tokens
BY DEF Num, Str, Open, End, Tokens

\* What a token is, by its first field.
LEMMA TokenForms ==
    ASSUME NEW token \in Tokens
    PROVE  /\ token.t \in {"int", "str", "list", "dict", "end"}
           /\ token.t = "int" => /\ token.n \in Int /\ token.plain \in BOOLEAN
                                 /\ token.plain => token = Num(token.n)
           /\ token.t = "str" => /\ token.s \in Strings /\ token.plain \in BOOLEAN
                                 /\ token.plain => token = Str(token.s)
           /\ token.t \in {"list", "dict"} => token = Open(token.t)
           /\ token.t = "end" => token = End
BY DEF Num, Str, Open, End, Tokens

LEMMA Ranks ==
    /\ Len(Names) \in Nat /\ DOMAIN Names = 1..Len(Names)
    /\ \A k \in Strings : Rank(k) \in 1..Len(Names) /\ Names[Rank(k)] = k
    /\ \A i \in 1..Len(Names) : Names[i] \in Strings /\ Rank(Names[i]) = i
<1>1. Len(Names) \in Nat /\ DOMAIN Names = 1..Len(Names)
    BY NamesAssumption, LenProperties
<1>2. ASSUME NEW k \in Strings PROVE Rank(k) \in 1..Len(Names) /\ Names[Rank(k)] = k
    <2>1. \E i \in DOMAIN Names : Names[i] = k
        BY DEF Strings
    <2> QED BY <1>1, <2>1, Zenon DEF Rank
<1>3. ASSUME NEW i \in 1..Len(Names) PROVE Names[i] \in Strings /\ Rank(Names[i]) = i
    <2>1. Names[i] \in Strings
        BY <1>1 DEF Strings
    <2> QED BY <1>1, <1>2, <2>1, NamesAssumption
<1> QED BY <1>1, <1>2, <1>3

\* The parts of which EncodeDict and EncodeList join the encodings.
Pairs(map)  == [i \in DOMAIN Names |-> EncodePair(map, Names[i])]
Encs(items) == [i \in DOMAIN items |-> items[i].enc]

Encoded(map) == DOMAIN map \subseteq Strings /\ \A x \in DOMAIN map : map[x].enc \in Seq(Tokens)

LEMMA PairsType ==
    ASSUME NEW map, Encoded(map), NEW i \in 1..Len(Names)
    PROVE  Pairs(map)[i] = EncodePair(map, Names[i]) /\ Pairs(map)[i] \in Seq(Tokens)
<1>1. Pairs(map)[i] = EncodePair(map, Names[i]) /\ Names[i] \in Strings
    BY Ranks DEF Pairs
<1>2. EncodePair(map, Names[i]) \in Seq(Tokens)
    <2>1. CASE Names[i] \in DOMAIN map
        <3>1. map[Names[i]].enc \in Seq(Tokens)
            BY <2>1 DEF Encoded
        <3>2. <<Str(Names[i])>> \in Seq(Tokens)
            BY <1>1, TokenTypes
        <3> QED BY <2>1, <3>1, <3>2, ConcatProperties, Zenon DEF EncodePair
    <2>2. CASE Names[i] \notin DOMAIN map
        BY <2>2, EmptySeq DEF EncodePair
    <2> QED BY <2>1, <2>2
<1> QED BY <1>1, <1>2

LEMMA PairsJoined ==
    ASSUME NEW map, Encoded(map), NEW n \in 0..Len(Names)
    PROVE  Joined(Pairs(map), n) \in Seq(Tokens)
<1>1. \A i \in 1..n : Pairs(map)[i] \in Seq(Tokens)
    BY PairsType, Ranks
<1> QED BY <1>1, Ranks, JoinedType

\* A key that is greater than all of the dictionary comes last in what is
\* written for it.
LEMMA GreatestKeyIsLast ==
    ASSUME NEW map, Encoded(map), NEW k \in Strings, After(map, k), NEW v, v.enc \in Seq(Tokens)
    PROVE  /\ Encoded(WithKey(map, k, v))
           /\ Joined(Pairs(WithKey(map, k, v)), Len(Names))
                  = Joined(Pairs(map), Len(Names)) \o (<<Str(k)>> \o v.enc)
<1> DEFINE new == WithKey(map, k, v)
           N == Len(Names)
           r == Rank(k)
<1>1. /\ DOMAIN new = {k} \cup DOMAIN map
      /\ new[k] = v
      /\ \A x \in DOMAIN map : x # k => new[x] = map[x]
    BY DEF WithKey
<1>2. Encoded(new)
    BY <1>1 DEF Encoded
<1>3. N \in Nat /\ r \in 1..N /\ Names[r] = k
    BY Ranks
<1>4. k \notin DOMAIN map
    BY <1>3 DEF After
<1> HIDE DEF new, N, r
<1>5. ASSUME NEW i \in 1..N, i < r PROVE Pairs(new)[i] = Pairs(map)[i]
    <2>1. Names[i] # k
        BY <1>3, <1>5, Ranks DEF r, N
    <2>2. EncodePair(new, Names[i]) = EncodePair(map, Names[i])
        BY <1>1, <2>1, Zenon DEF EncodePair
    <2> QED BY <1>2, <2>2, PairsType DEF N
<1>6. ASSUME NEW i \in 1..N, i > r PROVE Pairs(new)[i] = <<>> /\ Pairs(map)[i] = <<>>
    <2>1. Names[i] # k /\ Names[i] \notin DOMAIN map
        BY <1>3, <1>6, Ranks DEF r, N, After
    <2>2. EncodePair(new, Names[i]) = <<>> /\ EncodePair(map, Names[i]) = <<>>
        BY <1>1, <2>1, Zenon DEF EncodePair
    <2> QED BY <1>2, <2>2, PairsType DEF N
<1>7. Pairs(map)[r] = <<>>
    BY <1>3, <1>4, PairsType DEF EncodePair, N
<1>8. Pairs(new)[r] = <<Str(k)>> \o v.enc
    <2>1. EncodePair(new, k) = <<Str(k)>> \o v.enc
        BY <1>1, Zenon DEF EncodePair
    <2>2. Pairs(new)[r] = EncodePair(new, Names[r])
        BY <1>2, <1>3, PairsType DEF N
    <2> QED BY <1>3, <2>1, <2>2, Zenon
<1>9. Joined(Pairs(new), N) = Joined(Pairs(new), r)
    <2>1. /\ \A i \in 1..r : Pairs(new)[i] \in Seq(Tokens)
          /\ \A i \in (r + 1)..N : Pairs(new)[i] = <<>>
        BY <1>2, <1>3, <1>6, PairsType DEF N
    <2>2. r \in 0..N
        BY <1>3
    <2> QED BY <1>3, <2>1, <2>2, JoinedRest
<1>10. Joined(Pairs(map), N) = Joined(Pairs(map), r - 1)
    <2>1. \A i \in 1..(r - 1) : Pairs(map)[i] \in Seq(Tokens)
        BY <1>3, PairsType DEF N
    <2>2. \A i \in ((r - 1) + 1)..N : Pairs(map)[i] = <<>>
        <3> SUFFICES ASSUME NEW i \in ((r - 1) + 1)..N PROVE Pairs(map)[i] = <<>>
            OBVIOUS
        <3> QED BY <1>3, <1>6, <1>7
    <2>3. r - 1 \in 0..N
        BY <1>3
    <2> QED BY <1>3, <2>1, <2>2, <2>3, JoinedRest
<1>11. Joined(Pairs(new), r) = Joined(Pairs(new), r - 1) \o Pairs(new)[r]
    <2>1. r - 1 \in Nat /\ (r - 1) + 1 = r
        BY <1>3
    <2>2. Joined(Pairs(new), (r - 1) + 1) = Joined(Pairs(new), r - 1) \o Pairs(new)[(r - 1) + 1]
        BY <2>1, JoinedNext, Zenon
    <2> QED BY <2>1, <2>2, Zenon
<1>12. Joined(Pairs(new), r - 1) = Joined(Pairs(map), r - 1)
    <2>1. r - 1 \in Nat /\ \A i \in 1..(r - 1) : Pairs(new)[i] = Pairs(map)[i]
        BY <1>3, <1>5
    <2> QED BY <2>1, JoinedAgree
<1>13. Joined(Pairs(new), N) = Joined(Pairs(map), N) \o (<<Str(k)>> \o v.enc)
    BY <1>8, <1>9, <1>10, <1>11, <1>12, Zenon
<1> QED BY <1>2, <1>13 DEF new, N

\* An item that is appended comes last.
LEMMA AppendedItemIsLast ==
    ASSUME NEW S, NEW items \in Seq(S), NEW v
    PROVE  Joined(Encs(Append(items, v)), Len(Append(items, v)))
               = Joined(Encs(items), Len(items)) \o v.enc
<1> DEFINE n == Len(items)
           more == Append(items, v)
<1>1. items \in Seq(S \cup {v}) /\ v \in S \cup {v}
    BY SeqMonotonic
<1>2. /\ n \in Nat /\ DOMAIN items = 1..n
      /\ Len(more) = n + 1 /\ DOMAIN more = 1..(n + 1)
      /\ \A i \in 1..n : more[i] = items[i]
      /\ more[n + 1] = v
    BY <1>1, LenProperties, AppendProperties
<1> HIDE DEF n, more
<1>3. \A i \in 1..n : Encs(more)[i] = Encs(items)[i]
    BY <1>2 DEF Encs
<1>4. Encs(more)[n + 1] = v.enc
    BY <1>2 DEF Encs
<1>5. Joined(Encs(more), n) = Joined(Encs(items), n)
    BY <1>2, <1>3, JoinedAgree
<1>6. Joined(Encs(more), n + 1) = Joined(Encs(more), n) \o Encs(more)[n + 1]
    BY <1>2, JoinedNext, Zenon
<1>7. Joined(Encs(more), Len(more)) = Joined(Encs(items), n) \o v.enc
    BY <1>2, <1>4, <1>5, <1>6, Zenon
<1> QED BY <1>7 DEF n, more

-----------------------------------------------------------------------------
(* What the reader has made of the tokens it has read, in a file w. *)

IsSeq(s) == s \in Seq({s[i] : i \in DOMAIN s})

\* Where Inspect looks for a list it finds a sequence.
ListsInOrder(v) == v.t = "list" => IsSeq(v.items)

\* A value that is kept.  If it is written canonically, its encoding is what
\* stands in the file.
ValueOK(w, v) ==
    /\ v.enc \in Seq(Tokens)
    /\ v.plain \in BOOLEAN
    /\ v.plain => v.enc = SubSeq(w, v.from, v.to)
    /\ ListsInOrder(v)
    /\ v.t = "dict" => \A x \in DOMAIN v.map : ListsInOrder(v.map[x])

\* A value that was just read.
ReadOK(w, v, p, q) ==
    /\ ValueOK(w, v)
    /\ v.from = p /\ v.to = q
    /\ v.t = "str" => v.s \in Strings /\ v.enc = <<Str(v.s)>>
    /\ v.t = "dict" => \A x \in DOMAIN v.map : ValueOK(w, v.map[x])

\* What a canonical writer has written of a list or dictionary that is not closed.
Waiting(key) == IF key = <<>> THEN <<>> ELSE <<Str(key[1])>>

Begun(f) ==
    IF f.t = "list" THEN <<Open("list")>> \o Joined(Encs(f.items), Len(f.items))
    ELSE (<<Open("dict")>> \o Joined(Pairs(f.map), Len(Names))) \o Waiting(f.key)

\* A list or dictionary that is being read, up to q.
FrameShape(f) ==
    /\ f = [t |-> f.t, items |-> f.items, map |-> f.map, key |-> f.key,
            from |-> f.from, plain |-> f.plain]
    /\ f.t \in {"list", "dict"}
    /\ f.plain \in BOOLEAN
    /\ f.key # <<>> => f.key = <<f.key[1]>> /\ f.key[1] \in Strings

FrameOK(w, f, q) ==
    /\ FrameShape(f)
    /\ f.from \in 1..q
    /\ IsSeq(f.items) /\ \A i \in DOMAIN f.items : f.items[i].enc \in Seq(Tokens)
    /\ DOMAIN f.map \subseteq Strings /\ \A x \in DOMAIN f.map : ValueOK(w, f.map[x])
    /\ f.plain => /\ SubSeq(w, f.from, q) = Begun(f)
                  /\ f.key # <<>> => After(f.map, f.key[1])

\* Each goes up to where the one inside it begins.
StackOK(w, s, q) ==
    /\ IsSeq(s)
    /\ \A i \in 1..Len(s) : FrameOK(w, s[i], IF i = 1 THEN q ELSE s[i - 1].from - 1)

LEMMA IsSeqIntro ==
    ASSUME NEW S, NEW s \in Seq(S)
    PROVE  IsSeq(s) /\ Len(s) \in Nat /\ DOMAIN s = 1..Len(s)
<1> DEFINE T == {s[i] : i \in DOMAIN s}
<1>1. s \in [1..Len(s) -> T] /\ Len(s) \in Nat /\ DOMAIN s = 1..Len(s)
    BY LenProperties
<1>2. s \in Seq(T)
    BY <1>1, SeqDef
<1> QED BY <1>1, <1>2 DEF IsSeq

LEMMA IsSeqLen ==
    ASSUME NEW s, IsSeq(s)
    PROVE  Len(s) \in Nat /\ DOMAIN s = 1..Len(s)
BY IsSeqIntro DEF IsSeq

LEMMA StackPush ==
    ASSUME NEW w, NEW q, NEW rest, NEW f, StackOK(w, rest, f.from - 1), FrameOK(w, f, q)
    PROVE  StackOK(w, <<f>> \o rest, q)
<1> DEFINE s == <<f>> \o rest
           S == {f} \cup {rest[i] : i \in DOMAIN rest}
<1>1. rest \in Seq(S) /\ <<f>> \in Seq(S) /\ Len(<<f>>) = 1 /\ <<f>>[1] = f
    BY SeqMonotonic DEF StackOK, IsSeq
<1>2. s \in Seq(S) /\ Len(s) = 1 + Len(rest) /\ Len(rest) \in Nat
    BY <1>1, ConcatProperties, LenProperties
<1>3. s[1] = f /\ \A i \in 1..Len(rest) : s[i + 1] = rest[i]
    BY <1>1, <1>2, ConcatProperties
<1>4. IsSeq(s)
    BY <1>2, IsSeqIntro
<1> HIDE DEF s, S
<1>5. ASSUME NEW i \in 1..Len(s)
      PROVE  FrameOK(w, s[i], IF i = 1 THEN q ELSE s[i - 1].from - 1)
    <2>1. CASE i = 1
        BY <1>3, <2>1
    <2>2. CASE i # 1
        <3>1. i - 1 \in 1..Len(rest) /\ s[i] = rest[i - 1]
            <4>1. i - 1 \in 1..Len(rest) /\ (i - 1) + 1 = i
                BY <1>2, <2>2
            <4>2. s[(i - 1) + 1] = rest[i - 1]
                BY <1>3, <4>1, Zenon
            <4> QED BY <4>1, <4>2
        <3>2. FrameOK(w, rest[i - 1], IF i - 1 = 1 THEN f.from - 1 ELSE rest[(i - 1) - 1].from - 1)
            BY <3>1, Zenon DEF StackOK
        <3>3. CASE i = 2
            <4>1. s[i - 1] = f /\ i - 1 = 1
                BY <1>3, <3>3
            <4> QED BY <2>2, <3>1, <3>2, <4>1, Zenon
        <3>4. CASE i # 2
            <4>1. (i - 1) - 1 \in 1..Len(rest) /\ ((i - 1) - 1) + 1 = i - 1 /\ i - 1 # 1
                BY <1>2, <2>2, <3>4
            <4>2. s[i - 1] = rest[(i - 1) - 1]
                BY <1>3, <4>1, Zenon
            <4> QED BY <2>2, <3>1, <3>2, <4>1, <4>2, Zenon
        <3> QED BY <3>3, <3>4
    <2> QED BY <2>1, <2>2
<1> QED BY <1>4, <1>5 DEF StackOK, s

LEMMA StackPop ==
    ASSUME NEW w, NEW q, NEW s, StackOK(w, s, q), s # <<>>
    PROVE  FrameOK(w, Head(s), q) /\ StackOK(w, Tail(s), Head(s).from - 1)
<1> DEFINE S == {s[i] : i \in DOMAIN s}
           r == Tail(s)
<1>1. s \in Seq(S)
    BY DEF StackOK, IsSeq
<1>2. Len(s) \in Nat \ {0} /\ Head(s) = s[1]
    BY <1>1, EmptySeq
<1>3. r \in Seq(S) /\ Len(r) = Len(s) - 1 /\ \A i \in 1..Len(r) : r[i] = s[i + 1]
    BY <1>1, HeadTailProperties
<1>4. \A i \in 1..Len(s) : FrameOK(w, s[i], IF i = 1 THEN q ELSE s[i - 1].from - 1)
    BY Zenon DEF StackOK
<1>5. FrameOK(w, Head(s), q)
    <2>1. 1 \in 1..Len(s)
        BY <1>2
    <2> QED BY <1>2, <1>4, <2>1, Zenon
<1>6. IsSeq(r)
    BY <1>3, IsSeqIntro
<1> HIDE DEF r, S
<1>7. ASSUME NEW i \in 1..Len(r)
      PROVE  FrameOK(w, r[i], IF i = 1 THEN Head(s).from - 1 ELSE r[i - 1].from - 1)
    <2>1. i + 1 \in 1..Len(s) /\ i + 1 # 1 /\ (i + 1) - 1 = i /\ r[i] = s[i + 1]
        BY <1>2, <1>3
    <2>2. FrameOK(w, s[i + 1], IF i + 1 = 1 THEN q ELSE s[(i + 1) - 1].from - 1)
        BY <1>4, <2>1, Zenon
    <2>3. FrameOK(w, r[i], s[i].from - 1)
        BY <2>1, <2>2, Zenon
    <2>4. CASE i = 1
        BY <1>2, <2>3, <2>4, Zenon
    <2>5. CASE i # 1
        <3>1. r[i - 1] = s[i]
            <4>1. i - 1 \in 1..Len(r) /\ (i - 1) + 1 = i
                BY <1>2, <1>3, <2>5
            <4> QED BY <1>3, <4>1
        <3> QED BY <2>3, <2>5, <3>1, Zenon
    <2> QED BY <2>4, <2>5
<1> QED BY <1>5, <1>6, <1>7 DEF StackOK, r

-----------------------------------------------------------------------------
(* What each step makes of the innermost list or dictionary. *)

LEMMA OneToken ==
    ASSUME NEW w \in Seq(Tokens), NEW p \in 1..Len(w)
    PROVE  SubSeq(w, p, p) = <<w[p]>> /\ w[p] \in Tokens
<1>1. p \in p..Len(w) /\ p + 1 \in Int /\ p \in Int /\ p < p + 1
    BY LenProperties
<1>2. SubSeq(w, p, p) = <<w[p]>> \o SubSeq(w, p + 1, p)
    BY <1>1, SubSeqRecursiveFirst, Zenon
<1>3. SubSeq(w, p + 1, p) = <<>>
    BY <1>1, SubSeqEmpty, Zenon
<1>4. <<w[p]>> \in Seq(Tokens) /\ w[p] \in Tokens
    BY ElementOfSeq
<1>5. <<w[p]>> \o <<>> = <<w[p]>>
    BY <1>4, ConcatEmptySeq, Zenon
<1> QED BY <1>2, <1>3, <1>4, <1>5, Zenon

LEMMA Longer ==
    ASSUME NEW w \in Seq(Tokens), NEW q \in Nat, NEW m \in 1..q, NEW r \in (q + 1)..Len(w)
    PROVE  SubSeq(w, m, r) = SubSeq(w, m, q) \o SubSeq(w, q + 1, r)
<1>1. m \in 1..Len(w) + 1 /\ q \in (m - 1)..Len(w) /\ r \in q..Len(w)
    BY LenProperties
<1> QED BY <1>1, ConcatAdjacentSubSeq

LEMMA JoinTwo ==
    ASSUME NEW a \in Seq(Tokens), NEW b \in Seq(Tokens)
    PROVE  a \o b \in Seq(Tokens) /\ a \o <<>> = a
BY ConcatProperties, ConcatEmptySeq

LEMMA Regroup ==
    ASSUME NEW a \in Seq(Tokens), NEW b \in Seq(Tokens), NEW c \in Seq(Tokens)
    PROVE  (a \o b) \o c = a \o (b \o c)
BY ConcatAssociative

\* Four sequences in a row, grouped from the left and from the right.
RegroupsFour(a, b, c, d) == ((a \o b) \o c) \o d = a \o (b \o (c \o d))

LEMMA RegroupFour ==
    ASSUME NEW a \in Seq(Tokens), NEW b \in Seq(Tokens), NEW c \in Seq(Tokens),
           NEW d \in Seq(Tokens)
    PROVE  RegroupsFour(a, b, c, d)
<1>1. a \o b \in Seq(Tokens) /\ c \o d \in Seq(Tokens)
    BY JoinTwo
<1>2. ((a \o b) \o c) \o d = (a \o b) \o (c \o d)
    BY <1>1, Regroup
<1>3. (a \o b) \o (c \o d) = a \o (b \o (c \o d))
    BY <1>1, Regroup
<1> QED BY <1>2, <1>3 DEF RegroupsFour

\* A frame with other fields.
LEMMA FrameWith ==
    ASSUME NEW f, FrameShape(f), NEW items, NEW key, NEW plain
    PROVE  /\ [f EXCEPT !.items = items, !.plain = plain] =
              [t |-> f.t, items |-> items, map |-> f.map, key |-> f.key, from |-> f.from, plain |-> plain]
           /\ [f EXCEPT !.key = key, !.plain = plain] =
              [t |-> f.t, items |-> f.items, map |-> f.map, key |-> key, from |-> f.from, plain |-> plain]
<1> DEFINE rec(i, m, k, p) ==
        [t |-> f.t, items |-> i, map |-> m, key |-> k, from |-> f.from, plain |-> p]
<1>1. f = rec(f.items, f.map, f.key, f.plain)
    BY Zenon DEF FrameShape
<1>2. \A i, m, k, p, x : [rec(i, m, k, p) EXCEPT !.items = x] = rec(x, m, k, p)
    OBVIOUS
<1>4. \A i, m, k, p, x : [rec(i, m, k, p) EXCEPT !.key = x] = rec(i, m, x, p)
    OBVIOUS
<1>5. \A i, m, k, p, x : [rec(i, m, k, p) EXCEPT !.plain = x] = rec(i, m, k, x)
    OBVIOUS
<1>6. [f EXCEPT !.items = items, !.plain = plain] = rec(items, f.map, f.key, plain)
    <2>1. [f EXCEPT !.items = items, !.plain = plain] = [[f EXCEPT !.items = items] EXCEPT !.plain = plain]
        BY SMT
    <2> HIDE DEF rec
    <2>2. [f EXCEPT !.items = items] = rec(items, f.map, f.key, f.plain)
        BY <1>1, <1>2
    <2>3. [rec(items, f.map, f.key, f.plain) EXCEPT !.plain = plain] = rec(items, f.map, f.key, plain)
        BY <1>5
    <2> QED BY <2>1, <2>2, <2>3
<1>7. [f EXCEPT !.key = key, !.plain = plain] = rec(f.items, f.map, key, plain)
    <2>1. [f EXCEPT !.key = key, !.plain = plain] = [[f EXCEPT !.key = key] EXCEPT !.plain = plain]
        BY SMT
    <2> HIDE DEF rec
    <2>2. [f EXCEPT !.key = key] = rec(f.items, f.map, key, f.plain)
        BY <1>1, <1>4
    <2>3. [rec(f.items, f.map, key, f.plain) EXCEPT !.plain = plain] = rec(f.items, f.map, key, plain)
        BY <1>5
    <2> QED BY <2>1, <2>2, <2>3
<1> QED BY <1>6, <1>7, Zenon DEF rec


LEMMA WithItemIs ==
    ASSUME NEW f, FrameShape(f), NEW v
    PROVE  WithItem(f, v) =
             [t |-> f.t, items |-> Append(f.items, v), map |-> f.map, key |-> f.key, from |-> f.from,
              plain |-> (f.plain /\ v.plain)]
BY FrameWith, Zenon DEF WithItem

LEMMA WithKeyReadIs ==
    ASSUME NEW f, FrameShape(f), NEW v
    PROVE  WithKeyRead(f, v) =
             [t |-> f.t, items |-> f.items, map |-> f.map, key |-> <<v.s>>, from |-> f.from,
              plain |-> (f.plain /\ v.plain /\ After(f.map, v.s))]
BY FrameWith, Zenon DEF WithKeyRead

LEMMA WithValueIs ==
    ASSUME NEW f, FrameShape(f), NEW v
    PROVE  WithValue(f, v) =
             [t |-> f.t, items |-> f.items, map |-> WithKey(f.map, f.key[1], v), key |-> <<>>, from |-> f.from,
              plain |-> (f.plain /\ v.plain)]
<1> DEFINE map   == WithKey(f.map, f.key[1], v)
           plain == (f.plain /\ v.plain)
           rec(m, k, p) == [t |-> f.t, items |-> f.items, map |-> m, key |-> k, from |-> f.from, plain |-> p]
<1>1. WithValue(f, v) = [f EXCEPT !.map = map, !.key = <<>>, !.plain = plain]
    BY Zenon DEF WithValue
<1> HIDE DEF map, plain
<1>2. f = rec(f.map, f.key, f.plain)
    BY Zenon DEF FrameShape
<1>3. [f EXCEPT !.map = map, !.key = <<>>, !.plain = plain] =
      [[[f EXCEPT !.map = map] EXCEPT !.key = <<>>] EXCEPT !.plain = plain]
    BY SMT
<1>4. \A m, k, p, x : [rec(m, k, p) EXCEPT !.map = x] = rec(x, k, p)
    OBVIOUS
<1>5. \A m, k, p, x : [rec(m, k, p) EXCEPT !.key = x] = rec(m, x, p)
    OBVIOUS
<1>6. \A m, k, p, x : [rec(m, k, p) EXCEPT !.plain = x] = rec(m, k, x)
    OBVIOUS
<1> HIDE DEF rec
<1>7. [f EXCEPT !.map = map] = rec(map, f.key, f.plain)
    BY <1>2, <1>4
<1>8. [rec(map, f.key, f.plain) EXCEPT !.key = <<>>] = rec(map, <<>>, f.plain)
    BY <1>5
<1>9. [rec(map, <<>>, f.plain) EXCEPT !.plain = plain] = rec(map, <<>>, plain)
    BY <1>6
<1>10. [[[f EXCEPT !.map = map] EXCEPT !.key = <<>>] EXCEPT !.plain = plain] = rec(map, <<>>, plain)
    BY <1>7, <1>8, <1>9
<1>11. WithValue(f, v) = rec(map, <<>>, plain)
    BY <1>1, <1>3, <1>10
<1> QED BY <1>11, Zenon DEF map, plain, rec

LEMMA Refilled ==
    ASSUME NEW f, FrameShape(f), NEW items, NEW map, NEW key, NEW plain \in BOOLEAN,
           key # <<>> => key = <<key[1]>> /\ key[1] \in Strings,
           NEW g, g = [t |-> f.t, items |-> items, map |-> map, key |-> key, from |-> f.from,
                       plain |-> plain]
    PROVE  /\ g.t = f.t /\ g.items = items /\ g.map = map /\ g.key = key
           /\ g.from = f.from /\ g.plain = plain
           /\ FrameShape(g)
<1>1. /\ g.t = f.t /\ g.items = items /\ g.map = map /\ g.key = key
      /\ g.from = f.from /\ g.plain = plain
      /\ g = [t |-> g.t, items |-> g.items, map |-> g.map, key |-> g.key, from |-> g.from,
              plain |-> g.plain]
    OBVIOUS
<1>2. FrameShape(g)
    BY <1>1, Zenon DEF FrameShape
<1> QED BY <1>1, <1>2

LEMMA WithItemFields ==
    ASSUME NEW f, FrameShape(f), NEW v, NEW g, g = WithItem(f, v)
    PROVE  /\ g.t = f.t /\ g.items = Append(f.items, v) /\ g.map = f.map /\ g.key = f.key
           /\ g.from = f.from /\ g.plain = (f.plain /\ v.plain)
           /\ FrameShape(g)
<1> DEFINE items == Append(f.items, v)
           map   == f.map
           key   == f.key
           plain == (f.plain /\ v.plain)
<1>1. g = [t |-> f.t, items |-> items, map |-> map, key |-> key, from |-> f.from, plain |-> plain]
    BY WithItemIs, Zenon
<1>2. plain \in BOOLEAN
    OBVIOUS
<1>3. key # <<>> => key = <<key[1]>> /\ key[1] \in Strings
    BY DEF FrameShape
<1> HIDE DEF items, map, key, plain
<1>4. /\ g.t = f.t /\ g.items = items /\ g.map = map /\ g.key = key
      /\ g.from = f.from /\ g.plain = plain
      /\ FrameShape(g)
    BY <1>1, <1>2, <1>3, Refilled
<1> QED BY <1>4, Zenon DEF items, map, key, plain

LEMMA WithKeyReadFields ==
    ASSUME NEW f, FrameShape(f), NEW v, v.s \in Strings, NEW g, g = WithKeyRead(f, v)
    PROVE  /\ g.t = f.t /\ g.items = f.items /\ g.map = f.map /\ g.key = <<v.s>>
           /\ g.from = f.from /\ g.plain = (f.plain /\ v.plain /\ After(f.map, v.s))
           /\ FrameShape(g)
<1> DEFINE items == f.items
           map   == f.map
           key   == <<v.s>>
           plain == (f.plain /\ v.plain /\ After(f.map, v.s))
<1>1. g = [t |-> f.t, items |-> items, map |-> map, key |-> key, from |-> f.from, plain |-> plain]
    BY WithKeyReadIs, Zenon
<1>2. plain \in BOOLEAN
    OBVIOUS
<1>3. key # <<>> => key = <<key[1]>> /\ key[1] \in Strings
    OBVIOUS
<1> HIDE DEF items, map, key, plain
<1>4. /\ g.t = f.t /\ g.items = items /\ g.map = map /\ g.key = key
      /\ g.from = f.from /\ g.plain = plain
      /\ FrameShape(g)
    BY <1>1, <1>2, <1>3, Refilled
<1> QED BY <1>4, Zenon DEF items, map, key, plain

LEMMA WithValueFields ==
    ASSUME NEW f, FrameShape(f), NEW v, NEW g, g = WithValue(f, v)
    PROVE  /\ g.t = f.t /\ g.items = f.items /\ g.map = WithKey(f.map, f.key[1], v) /\ g.key = <<>>
           /\ g.from = f.from /\ g.plain = (f.plain /\ v.plain)
           /\ FrameShape(g)
<1> DEFINE items == f.items
           map   == WithKey(f.map, f.key[1], v)
           key   == <<>>
           plain == (f.plain /\ v.plain)
<1>1. g = [t |-> f.t, items |-> items, map |-> map, key |-> key, from |-> f.from, plain |-> plain]
    BY WithValueIs, Zenon
<1>2. plain \in BOOLEAN
    OBVIOUS
<1>3. key # <<>> => key = <<key[1]>> /\ key[1] \in Strings
    OBVIOUS
<1> HIDE DEF items, map, key, plain
<1>4. /\ g.t = f.t /\ g.items = items /\ g.map = map /\ g.key = key
      /\ g.from = f.from /\ g.plain = plain
      /\ FrameShape(g)
    BY <1>1, <1>2, <1>3, Refilled
<1> QED BY <1>4, Zenon DEF items, map, key, plain

LEMMA WithKeyReadPlain ==
    ASSUME NEW f, FrameShape(f), NEW v, v.s \in Strings, WithKeyRead(f, v).plain
    PROVE  f.plain /\ v.plain /\ After(f.map, v.s)
<1> DEFINE g == WithKeyRead(f, v)
<1> HIDE DEF g
<1>1. g = WithKeyRead(f, v) => g.plain = (f.plain /\ v.plain /\ After(f.map, v.s))
    BY WithKeyReadFields
<1> QED BY <1>1, Zenon DEF g

\* The sequence of items and the map of a frame, encoded.
LEMMA FrameEncoded ==
    ASSUME NEW w, NEW q, NEW f, FrameOK(w, f, q)
    PROVE  /\ Encoded(f.map)
           /\ Joined(Encs(f.items), Len(f.items)) \in Seq(Tokens)
           /\ Joined(Pairs(f.map), Len(Names)) \in Seq(Tokens)
           /\ Waiting(f.key) \in Seq(Tokens)
<1>1. Encoded(f.map)
    BY DEF FrameOK, ValueOK, Encoded
<1>2. Joined(Encs(f.items), Len(f.items)) \in Seq(Tokens)
    <2>1. Len(f.items) \in Nat /\ DOMAIN f.items = 1..Len(f.items)
        BY IsSeqLen DEF FrameOK
    <2>2. \A i \in 1..Len(f.items) : Encs(f.items)[i] \in Seq(Tokens)
        BY <2>1 DEF FrameOK, Encs
    <2> QED BY <2>1, <2>2, JoinedType
<1>3. Joined(Pairs(f.map), Len(Names)) \in Seq(Tokens)
    <2>1. Len(Names) \in 0..Len(Names)
        BY Ranks
    <2> QED BY <1>1, <2>1, PairsJoined
<1>4. Waiting(f.key) \in Seq(Tokens)
    <2>1. CASE f.key = <<>>
        BY <2>1, EmptySeq DEF Waiting
    <2>2. CASE f.key # <<>>
        <3>1. f.key[1] \in Strings
            BY <2>2 DEF FrameOK, FrameShape
        <3>2. Str(f.key[1]) \in Tokens
            BY <3>1, TokenTypes
        <3>3. Waiting(f.key) = <<Str(f.key[1])>>
            BY <2>2, Zenon DEF Waiting
        <3> QED BY <3>2, <3>3
    <2> QED BY <2>1, <2>2
<1> QED BY <1>1, <1>2, <1>3, <1>4

LEMMA NewFrame ==
    ASSUME NEW w \in Seq(Tokens), NEW p \in 1..Len(w), w[p].t \in {"list", "dict"}
    PROVE  FrameOK(w, Frame(w[p].t, p), p) /\ Frame(w[p].t, p).from = p
<1> DEFINE f == Frame(w[p].t, p)
<1>1. /\ FrameShape(f) /\ f.t = w[p].t /\ f.items = <<>> /\ f.map = <<>> /\ f.key = <<>>
      /\ f.from = p /\ f.plain = TRUE
    BY DEF Frame, FrameShape
<1>2. IsSeq(f.items) /\ Len(f.items) = 0 /\ DOMAIN f.items = {}
    BY <1>1 DEF IsSeq
<1>3. DOMAIN f.map = {}
    BY <1>1
<1>4. f.from \in 1..p
    BY <1>1, LenProperties
<1> HIDE DEF f
<1>5. Joined(Encs(f.items), Len(f.items)) = <<>>
    BY <1>2, JoinedZero
<1>6. Joined(Pairs(f.map), Len(Names)) = <<>>
    <2>1. Encoded(f.map)
        BY <1>3 DEF Encoded
    <2>2. \A i \in 1..Len(Names) : Pairs(f.map)[i] = <<>>
        BY <1>3, <2>1, PairsType DEF EncodePair
    <2>3. Joined(Pairs(f.map), Len(Names)) = Joined(Pairs(f.map), 0)
        <3>1. /\ Len(Names) \in Nat /\ 0 \in 0..Len(Names)
              /\ \A i \in 1..0 : Pairs(f.map)[i] \in Seq(Tokens)
              /\ \A i \in (0 + 1)..Len(Names) : Pairs(f.map)[i] = <<>>
            BY <2>2, Ranks
        <3> QED BY <3>1, JoinedRest, Zenon
    <2> QED BY <2>3, JoinedZero
<1>7. SubSeq(w, f.from, p) = <<Open(f.t)>> /\ <<Open(f.t)>> \in Seq(Tokens)
    <2>1. w[p] = Open(w[p].t)
        BY OneToken, TokenForms
    <2> QED BY <1>1, <2>1, OneToken
<1>8. SubSeq(w, f.from, p) = Begun(f)
    <2>1. Waiting(f.key) = <<>>
        BY <1>1, Zenon DEF Waiting
    <2>2. <<Open(f.t)>> \o <<>> = <<Open(f.t)>>
        BY <1>7, ConcatEmptySeq, Zenon
    <2>3. CASE f.t = "list"
        BY <1>5, <1>7, <2>2, <2>3, Zenon DEF Begun
    <2>4. CASE f.t # "list"
        <3>1. f.t = "dict"
            BY <1>1, <2>4 DEF FrameShape
        <3> QED BY <1>6, <1>7, <2>1, <2>2, <2>4, <3>1, Zenon DEF Begun
    <2> QED BY <2>3, <2>4
<1>9. FrameOK(w, f, p)
    BY <1>1, <1>2, <1>3, <1>4, <1>8 DEF FrameOK
<1> QED BY <1>1, <1>9 DEF f

LEMMA ItemAdded ==
    ASSUME NEW w \in Seq(Tokens), NEW q \in Nat, NEW r \in (q + 1)..Len(w),
           NEW f, FrameOK(w, f, q), f.t = "list",
           NEW v, ReadOK(w, v, q + 1, r)
    PROVE  FrameOK(w, WithItem(f, v), r) /\ WithItem(f, v).from = f.from
<1> DEFINE g == WithItem(f, v)
           S == {f.items[i] : i \in DOMAIN f.items}
           J == Joined(Encs(f.items), Len(f.items))
<1>1. f.plain \in BOOLEAN /\ v.plain \in BOOLEAN /\ v.enc \in Seq(Tokens)
    BY DEF FrameOK, FrameShape, ReadOK, ValueOK
<1>2. /\ g.t = f.t /\ g.items = Append(f.items, v) /\ g.map = f.map /\ g.key = f.key
      /\ g.from = f.from /\ FrameShape(g)
    BY WithItemFields DEF FrameOK
<1>3. g.plain = (f.plain /\ v.plain)
    BY WithItemFields, Zenon DEF FrameOK
<1>4. f.items \in Seq(S)
    BY DEF FrameOK, IsSeq
<1>5. f.items \in Seq(S \cup {v}) /\ v \in S \cup {v}
    BY <1>4, SeqMonotonic
<1>6. /\ IsSeq(g.items) /\ DOMAIN g.items = 1..Len(f.items) + 1
      /\ g.items[Len(f.items) + 1] = v
      /\ \A i \in 1..Len(f.items) : g.items[i] = f.items[i]
    <2>1. /\ Append(f.items, v) \in Seq(S \cup {v})
          /\ Len(Append(f.items, v)) = Len(f.items) + 1
          /\ \A i \in 1..Len(f.items) : Append(f.items, v)[i] = f.items[i]
          /\ Append(f.items, v)[Len(f.items) + 1] = v
        <3> HIDE DEF S
        <3> QED BY <1>5, AppendProperties
    <2>2. IsSeq(Append(f.items, v)) /\ DOMAIN Append(f.items, v) = 1..Len(f.items) + 1
        BY <2>1, IsSeqIntro
    <2> HIDE DEF g
    <2> QED BY <1>2, <2>1, <2>2, Zenon
<1>7. \A i \in DOMAIN g.items : g.items[i].enc \in Seq(Tokens)
    <2> SUFFICES ASSUME NEW i \in DOMAIN g.items PROVE g.items[i].enc \in Seq(Tokens)
        OBVIOUS
    <2>1. Len(f.items) \in Nat /\ DOMAIN f.items = 1..Len(f.items)
        BY <1>4, LenProperties
    <2>2. CASE i = Len(f.items) + 1
        <3>1. g.items[i] = v
            BY <1>6, <2>2
        <3> QED BY <1>1, <3>1
    <2>3. CASE i # Len(f.items) + 1
        <3> HIDE DEF g
        <3>1. i \in 1..Len(f.items)
            BY <1>6, <2>1, <2>3
        <3>2. g.items[i] = f.items[i]
            BY <1>6, <3>1
        <3> QED BY <2>1, <3>1, <3>2 DEF FrameOK
    <2> QED BY <2>2, <2>3
<1>8. g.from \in 1..r
    BY <1>2 DEF FrameOK
<1>9. ASSUME g.plain PROVE SubSeq(w, g.from, r) = Begun(g)
    <2>1. f.plain /\ v.plain
        BY <1>3, <1>9, Zenon
    <2>2. SubSeq(w, f.from, q) = <<Open("list")>> \o J
        BY <2>1, Zenon DEF FrameOK, Begun
    <2>3. SubSeq(w, q + 1, r) = v.enc
        BY <2>1, Zenon DEF ReadOK, ValueOK
    <2>4. f.from \in 1..q
        BY DEF FrameOK
    <2>5. SubSeq(w, f.from, r) = (<<Open("list")>> \o J) \o v.enc
        BY <2>2, <2>3, <2>4, Longer
    <2>6. (<<Open("list")>> \o J) \o v.enc = <<Open("list")>> \o (J \o v.enc)
        <3>1. <<Open("list")>> \in Seq(Tokens)
            BY TokenTypes
        <3>2. J \in Seq(Tokens)
            BY FrameEncoded
        <3> HIDE DEF J
        <3> QED BY <1>1, <3>1, <3>2, Regroup, Zenon
    <2>7. Joined(Encs(g.items), Len(g.items)) = J \o v.enc
        BY <1>2, <1>4, AppendedItemIsLast, Zenon
    <2> HIDE DEF g, J
    <2>8. Begun(g) = <<Open("list")>> \o (J \o v.enc)
        BY <1>2, <2>7, Zenon DEF Begun
    <2> QED BY <1>2, <2>5, <2>6, <2>8, Zenon
<1>10. FrameOK(w, g, r)
    <2>1. g.plain => (g.key # <<>> => After(g.map, g.key[1]))
        BY <1>2, <1>3, Zenon DEF FrameOK
    <2> HIDE DEF g
    <2>2. DOMAIN g.map \subseteq Strings /\ \A x \in DOMAIN g.map : ValueOK(w, g.map[x])
        BY <1>2, Zenon DEF FrameOK
    <2> QED BY <1>2, <1>6, <1>7, <1>8, <1>9, <2>1, <2>2, Zenon DEF FrameOK
<1> QED BY <1>2, <1>10 DEF g

LEMMA KeyAdded ==
    ASSUME NEW w \in Seq(Tokens), NEW q \in Nat, NEW r \in (q + 1)..Len(w),
           NEW f, FrameOK(w, f, q), f.t = "dict", f.key = <<>>,
           NEW v, ReadOK(w, v, q + 1, r), v.t = "str"
    PROVE  FrameOK(w, WithKeyRead(f, v), r) /\ WithKeyRead(f, v).from = f.from
<1> DEFINE g == WithKeyRead(f, v)
           J == Joined(Pairs(f.map), Len(Names))
<1>1. v.s \in Strings /\ v.enc = <<Str(v.s)>> /\ v.enc \in Seq(Tokens)
    BY DEF ReadOK, ValueOK
<1>2. /\ g.t = f.t /\ g.items = f.items /\ g.map = f.map /\ g.key = <<v.s>>
      /\ g.from = f.from /\ FrameShape(g)
    BY <1>1, WithKeyReadFields DEF FrameOK
<1>3. g.plain => f.plain /\ v.plain /\ After(f.map, v.s)
    BY <1>1, WithKeyReadPlain DEF FrameOK
<1>4. g.key # <<>> /\ g.key[1] = v.s
    BY <1>2
<1>5. g.from \in 1..r
    BY <1>2 DEF FrameOK
<1>6. ASSUME g.plain PROVE SubSeq(w, g.from, r) = Begun(g) /\ After(g.map, g.key[1])
    <2>1. f.plain /\ v.plain /\ After(f.map, v.s)
        BY <1>3, <1>6, Zenon
    <2>2. SubSeq(w, f.from, q) = (<<Open("dict")>> \o J) \o <<>>
        <3>1. f.t # "list"
            OBVIOUS
        <3> QED BY <2>1, <3>1, Zenon DEF FrameOK, Begun, Waiting
    <2>3. SubSeq(w, q + 1, r) = <<Str(v.s)>>
        BY <1>1, <2>1, Zenon DEF ReadOK, ValueOK
    <2>4. SubSeq(w, f.from, r) = ((<<Open("dict")>> \o J) \o <<>>) \o <<Str(v.s)>>
        <3>1. f.from \in 1..q
            BY DEF FrameOK
        <3> QED BY <2>2, <2>3, <3>1, Longer
    <2>5. (<<Open("dict")>> \o J) \o <<>> = <<Open("dict")>> \o J
        <3>1. J \in Seq(Tokens) /\ <<Open("dict")>> \in Seq(Tokens)
            BY FrameEncoded, TokenTypes
        <3> HIDE DEF J
        <3> QED BY <3>1, JoinTwo, Zenon
    <2> HIDE DEF g
    <2>6. Begun(g) = (<<Open("dict")>> \o J) \o <<Str(v.s)>>
        <3>1. g.t # "list"
            BY <1>2
        <3> QED BY <1>2, <1>4, <3>1, Zenon DEF Begun, Waiting
    <2> QED BY <1>2, <1>4, <2>1, <2>4, <2>5, <2>6, Zenon
<1>7. FrameOK(w, g, r)
    <2> HIDE DEF g
    <2>1. IsSeq(g.items) /\ \A i \in DOMAIN g.items : g.items[i].enc \in Seq(Tokens)
        BY <1>2, Zenon DEF FrameOK
    <2>2. DOMAIN g.map \subseteq Strings /\ \A x \in DOMAIN g.map : ValueOK(w, g.map[x])
        BY <1>2, Zenon DEF FrameOK
    <2> QED BY <1>2, <1>5, <1>6, <2>1, <2>2, Zenon DEF FrameOK
<1> QED BY <1>2, <1>7 DEF g

LEMMA ValueAdded ==
    ASSUME NEW w \in Seq(Tokens), NEW q \in Nat, NEW r \in (q + 1)..Len(w),
           NEW f, FrameOK(w, f, q), f.t = "dict", f.key # <<>>,
           NEW v, ReadOK(w, v, q + 1, r)
    PROVE  FrameOK(w, WithValue(f, v), r) /\ WithValue(f, v).from = f.from
<1> DEFINE g == WithValue(f, v)
           k == f.key[1]
           J == Joined(Pairs(f.map), Len(Names))
<1>1. k \in Strings /\ f.key = <<k>> /\ ValueOK(w, v) /\ v.enc \in Seq(Tokens)
    BY DEF FrameOK, FrameShape, ReadOK, ValueOK
<1>2. /\ g.t = f.t /\ g.items = f.items /\ g.map = WithKey(f.map, k, v) /\ g.key = <<>>
      /\ g.from = f.from /\ FrameShape(g)
    BY WithValueFields DEF FrameOK
<1>3. g.plain = (f.plain /\ v.plain)
    BY WithValueFields, Zenon DEF FrameOK
<1>4. DOMAIN g.map \subseteq Strings /\ \A x \in DOMAIN g.map : ValueOK(w, g.map[x])
    <2>1. /\ DOMAIN g.map = {k} \cup DOMAIN f.map
          /\ \A x \in DOMAIN g.map : g.map[x] = IF x = k THEN v ELSE f.map[x]
        <3> HIDE DEF g
        <3> QED BY <1>2 DEF WithKey
    <2> HIDE DEF g, k
    <2>2. DOMAIN f.map \subseteq Strings /\ \A x \in DOMAIN f.map : ValueOK(w, f.map[x])
        BY Zenon DEF FrameOK
    <2> QED BY <1>1, <2>1, <2>2
<1>5. g.from \in 1..r
    BY <1>2 DEF FrameOK
<1>6. ASSUME g.plain PROVE SubSeq(w, g.from, r) = Begun(g)
    <2>1. f.plain /\ v.plain
        BY <1>3, <1>6, Zenon
    <2>2. SubSeq(w, f.from, q) = (<<Open("dict")>> \o J) \o <<Str(k)>> /\ After(f.map, k)
        <3>1. f.t # "list"
            OBVIOUS
        <3> QED BY <2>1, <3>1, Zenon DEF FrameOK, Begun, Waiting
    <2>3. SubSeq(w, q + 1, r) = v.enc
        BY <2>1, Zenon DEF ReadOK, ValueOK
    <2>4. SubSeq(w, f.from, r) = ((<<Open("dict")>> \o J) \o <<Str(k)>>) \o v.enc
        <3>1. f.from \in 1..q
            BY DEF FrameOK
        <3> QED BY <2>2, <2>3, <3>1, Longer
    <2>5. /\ J \in Seq(Tokens) /\ <<Open("dict")>> \in Seq(Tokens) /\ <<Str(k)>> \in Seq(Tokens)
          /\ Encoded(f.map)
        BY <1>1, FrameEncoded, TokenTypes
    <2>6. Joined(Pairs(g.map), Len(Names)) = J \o (<<Str(k)>> \o v.enc)
        <3> HIDE DEF g, k
        <3> QED BY <1>1, <1>2, <2>2, <2>5, GreatestKeyIsLast, Zenon
    <2> HIDE DEF g, J, k
    <2>7. Begun(g) = (<<Open("dict")>> \o (J \o (<<Str(k)>> \o v.enc))) \o <<>>
        <3>1. g.t # "list"
            BY <1>2
        <3> QED BY <1>2, <2>6, <3>1, Zenon DEF Begun, Waiting
    <2>8. (<<Open("dict")>> \o (J \o (<<Str(k)>> \o v.enc))) \o <<>>
              = <<Open("dict")>> \o (J \o (<<Str(k)>> \o v.enc))
        BY <1>1, <2>5, JoinTwo, Zenon
    <2>9. ((<<Open("dict")>> \o J) \o <<Str(k)>>) \o v.enc
              = <<Open("dict")>> \o (J \o (<<Str(k)>> \o v.enc))
        <3>1. RegroupsFour(<<Open("dict")>>, J, <<Str(k)>>, v.enc)
            BY <1>1, <2>5, RegroupFour, Zenon
        <3> QED BY <3>1, Zenon DEF RegroupsFour
    <2> QED BY <1>2, <2>4, <2>7, <2>8, <2>9, Zenon
<1>7. FrameOK(w, g, r)
    <2> HIDE DEF g
    <2>1. IsSeq(g.items) /\ \A i \in DOMAIN g.items : g.items[i].enc \in Seq(Tokens)
        BY <1>2, Zenon DEF FrameOK
    <2> QED BY <1>2, <1>4, <1>5, <1>6, <2>1, Zenon DEF FrameOK
<1> QED BY <1>2, <1>7 DEF g

\* What was closed is a value that was read.
LEMMA FrameClosed ==
    ASSUME NEW w \in Seq(Tokens), NEW q \in Nat, q + 1 <= Len(w), w[q + 1].t = "end",
           NEW f, FrameOK(w, f, q), f.key = <<>>
    PROVE  ReadOK(w, Closed(f, q + 1), f.from, q + 1)
<1> DEFINE v == Closed(f, q + 1)
           L == Joined(Encs(f.items), Len(f.items))
           D == Joined(Pairs(f.map), Len(Names))
<1>1. /\ v.t = f.t /\ v.items = f.items /\ v.map = f.map /\ v.from = f.from /\ v.to = q + 1
      /\ v.plain = f.plain
      /\ v.enc = IF f.t = "list" THEN EncodeList(f.items) ELSE EncodeDict(f.map)
    BY DEF Closed
<1>2. /\ <<Open("list")>> \in Seq(Tokens) /\ <<Open("dict")>> \in Seq(Tokens) /\ <<End>> \in Seq(Tokens)
      /\ L \in Seq(Tokens) /\ D \in Seq(Tokens)
    BY FrameEncoded, TokenTypes
<1>3. /\ EncodeList(f.items) = (<<Open("list")>> \o L) \o <<End>>
      /\ EncodeDict(f.map) = (<<Open("dict")>> \o D) \o <<End>>
    BY Zenon DEF EncodeList, EncodeDict, Encs, Pairs
<1> HIDE DEF L, D
<1>4. EncodeList(f.items) \in Seq(Tokens) /\ EncodeDict(f.map) \in Seq(Tokens)
    <2>1. <<Open("list")>> \o L \in Seq(Tokens) /\ <<Open("dict")>> \o D \in Seq(Tokens)
        BY <1>2, JoinTwo
    <2> QED BY <1>2, <1>3, <2>1, JoinTwo
<1>5. f.t \in {"list", "dict"} /\ f.plain \in BOOLEAN /\ f.from \in 1..q
    BY DEF FrameOK, FrameShape
<1>6. ASSUME f.plain PROVE v.enc = SubSeq(w, f.from, q + 1)
    <2>1. q + 1 \in 1..Len(w) /\ q + 1 \in (q + 1)..Len(w)
        BY LenProperties
    <2>2. SubSeq(w, q + 1, q + 1) = <<End>>
        BY <2>1, OneToken, TokenForms
    <2>3. SubSeq(w, f.from, q + 1) = SubSeq(w, f.from, q) \o <<End>>
        BY <1>5, <2>1, <2>2, Longer
    <2>4. SubSeq(w, f.from, q) = Begun(f)
        BY <1>6, Zenon DEF FrameOK
    <2> HIDE DEF v
    <2>5. CASE f.t = "list"
        BY <1>1, <1>3, <2>3, <2>4, <2>5, Zenon DEF Begun, L
    <2>6. CASE f.t = "dict"
        <3>1. f.t # "list"
            BY <2>6
        <3>2. Begun(f) = (<<Open("dict")>> \o D) \o <<>>
            BY <3>1, Zenon DEF Begun, Waiting, D
        <3>3. (<<Open("dict")>> \o D) \o <<>> = <<Open("dict")>> \o D
            BY <1>2, JoinTwo, Zenon
        <3> QED BY <1>1, <1>3, <2>3, <2>4, <3>1, <3>2, <3>3, Zenon
    <2> QED BY <1>5, <2>5, <2>6
<1> HIDE DEF v
<1>7. ListsInOrder(v)
    BY <1>1, Zenon DEF ListsInOrder, FrameOK
<1>8. \A x \in DOMAIN v.map : ValueOK(w, v.map[x])
    BY <1>1, Zenon DEF FrameOK
<1>9. v.enc \in Seq(Tokens) /\ v.plain \in BOOLEAN /\ v.t # "str"
    BY <1>1, <1>4, <1>5
<1>10. v.plain => v.enc = SubSeq(w, v.from, v.to)
    BY <1>1, <1>6, Zenon
<1>11. ValueOK(w, v)
    BY <1>7, <1>8, <1>9, <1>10, Zenon DEF ValueOK
<1>12. ReadOK(w, v, f.from, q + 1)
    BY <1>1, <1>8, <1>9, <1>11, Zenon DEF ReadOK
<1> QED BY <1>12 DEF v

\* A number or a string that was read.
LEMMA ScalarRead ==
    ASSUME NEW w \in Seq(Tokens), NEW p \in 1..Len(w)
    PROVE  /\ w[p].t = "int" => ReadOK(w, IntValue(w[p], p), p, p)
           /\ w[p].t = "str" => ReadOK(w, StrValue(w[p], p), p, p)
<1>1. SubSeq(w, p, p) = <<w[p]>> /\ w[p] \in Tokens
    BY OneToken
<1>2. ASSUME w[p].t = "int" PROVE ReadOK(w, IntValue(w[p], p), p, p)
    <2> DEFINE v == IntValue(w[p], p)
    <2>1. /\ w[p].n \in Int /\ w[p].plain \in BOOLEAN
          /\ w[p].plain => w[p] = Num(w[p].n)
        BY <1>1, <1>2, TokenForms
    <2>2. /\ v.t = "int" /\ v.enc = <<Num(w[p].n)>> /\ v.from = p /\ v.to = p /\ v.plain = w[p].plain
        BY DEF IntValue
    <2>3. <<Num(w[p].n)>> \in Seq(Tokens)
        BY <2>1, TokenTypes
    <2> HIDE DEF v
    <2>4. v.t # "list" /\ v.t # "dict" /\ v.t # "str"
        BY <2>2
    <2>5. v.plain => v.enc = SubSeq(w, v.from, v.to)
        BY <1>1, <2>1, <2>2, Zenon
    <2>6. ReadOK(w, v, p, p)
        BY <2>1, <2>2, <2>3, <2>4, <2>5, Zenon DEF ReadOK, ValueOK, ListsInOrder
    <2> QED BY <2>6 DEF v
<1>3. ASSUME w[p].t = "str" PROVE ReadOK(w, StrValue(w[p], p), p, p)
    <2> DEFINE v == StrValue(w[p], p)
    <2>1. /\ w[p].s \in Strings /\ w[p].plain \in BOOLEAN
          /\ w[p].plain => w[p] = Str(w[p].s)
        BY <1>1, <1>3, TokenForms
    <2>2. /\ v.t = "str" /\ v.s = w[p].s /\ v.enc = <<Str(w[p].s)>> /\ v.from = p /\ v.to = p
          /\ v.plain = w[p].plain
        BY DEF StrValue
    <2>3. <<Str(w[p].s)>> \in Seq(Tokens)
        BY <2>1, TokenTypes
    <2> HIDE DEF v
    <2>4. v.t # "list" /\ v.t # "dict"
        BY <2>2
    <2>5. v.plain => v.enc = SubSeq(w, v.from, v.to)
        BY <1>1, <2>1, <2>2, Zenon
    <2>6. ReadOK(w, v, p, p)
        BY <2>1, <2>2, <2>3, <2>4, <2>5, Zenon DEF ReadOK, ValueOK, ListsInOrder
    <2> QED BY <2>6 DEF v
<1> QED BY <1>2, <1>3

\* The innermost list or dictionary is replaced by what it has become.
LEMMA InnermostReplaced ==
    ASSUME NEW w, NEW q, NEW r, NEW s, StackOK(w, s, q), s # <<>>,
           NEW g, FrameOK(w, g, r), g.from = Head(s).from
    PROVE  StackOK(w, <<g>> \o Tail(s), r)
<1>1. StackOK(w, Tail(s), g.from - 1)
    BY StackPop, Zenon
<1> QED BY <1>1, StackPush, Zenon

-----------------------------------------------------------------------------
(* The inductive invariant. *)

BytesOf(fs, n) == UNION {{i} \X (1..fs[i].size) : i \in 1..n}

\* While the descriptor is read, the stack is right and nothing was added.
Reading == result = "reading" => StackOK(file, stack, at) /\ added = 0 /\ total = 0

\* Once it was read, the info dictionary and the inventory are right, and the
\* total counts the files that were added.
Adding ==
    result \in {"adding", "inventory"} =>
        /\ info.plain => info.enc = SubSeq(file, info.from, info.to)
        /\ IsSeq(files) /\ \A i \in DOMAIN files : files[i].size \in 0..MaxInt
        /\ added \in 0..Len(files) /\ total \in 0..MaxInt
        /\ IsFiniteSet(BytesOf(files, added)) /\ total = Cardinality(BytesOf(files, added))

Reported == result = "inventory" => added = Len(files) /\ hash = info.enc

MetainfoInv ==
    /\ file \in Seq(Tokens) /\ at \in 0..Len(file)
    /\ Reading /\ Adding /\ Reported

LEMMA MoreBytes ==
    ASSUME NEW fs, NEW n \in Nat, IsFiniteSet(BytesOf(fs, n)), fs[n + 1].size \in Nat
    PROVE  /\ IsFiniteSet(BytesOf(fs, n + 1))
           /\ Cardinality(BytesOf(fs, n + 1)) = Cardinality(BytesOf(fs, n)) + fs[n + 1].size
<1> DEFINE k == fs[n + 1].size
           new == {n + 1} \X (1..k)
           bij == [x \in 1..k |-> <<n + 1, x>>]
<1>1. BytesOf(fs, n + 1) = BytesOf(fs, n) \cup new
    <2>1. 1..n + 1 = 1..n \cup {n + 1}
        OBVIOUS
    <2> QED BY <2>1 DEF BytesOf
<1>2. BytesOf(fs, n) \cap new = {}
    BY DEF BytesOf
<1>3. IsFiniteSet(1..k) /\ Cardinality(1..k) = k
    <2>1. k \in Nat /\ 1 \in Int /\ k \in Int
        OBVIOUS
    <2> HIDE DEF k
    <2>2. IsFiniteSet(1..k) /\ Cardinality(1..k) = IF 1 > k THEN 0 ELSE k - 1 + 1
        BY <2>1, FS_Interval, Zenon
    <2> QED BY <2>1, <2>2
<1>4. ExistsBijection(1..k, new)
    <2>1. bij \in [1..k -> new]
        OBVIOUS
    <2>2. bij \in Injection(1..k, new)
        BY <2>1 DEF Injection, IsInjective
    <2>3. \A y \in new : \E x \in 1..k : bij[x] = y
        OBVIOUS
    <2>4. bij \in Surjection(1..k, new)
        BY <2>1, <2>3 DEF Surjection
    <2> QED BY <2>2, <2>4 DEF ExistsBijection, Bijection
<1> HIDE DEF new
<1>5. IsFiniteSet(new) /\ Cardinality(new) = k
    BY <1>3, <1>4, FS_Bijection
<1>6. IsFiniteSet(BytesOf(fs, n) \cup new)
      /\ Cardinality(BytesOf(fs, n) \cup new) = Cardinality(BytesOf(fs, n)) + k - 0
    BY <1>2, <1>5, FS_Union, FS_EmptySet
<1>7. Cardinality(BytesOf(fs, n)) \in Nat /\ k \in Nat
    BY FS_CardinalityType
<1>8. Cardinality(BytesOf(fs, n)) + k - 0 = Cardinality(BytesOf(fs, n)) + k
    <2> HIDE DEF k
    <2> QED BY <1>7
<1> QED BY <1>1, <1>6, <1>8, Zenon

\* The inventory of an info dictionary that passes is a sequence of files whose
\* sizes an int64 holds.
LEMMA FilesInOrder ==
    ASSUME NEW v, v.t = "dict", \A x \in DOMAIN v.map : ListsInOrder(v.map[x]), GoodInfo(v)
    PROVE  IsSeq(Files(v)) /\ \A i \in DOMAIN Files(v) : Files(v)[i].size \in 0..MaxInt
<1>1. CASE Has(v, "files", "list")
    <2> DEFINE l == v.map["files"].items
               fs == [i \in DOMAIN l |-> [path |-> PathOf(l[i]), size |-> l[i].map["length"].n]]
               S == {fs[i] : i \in DOMAIN l}
    <2>1. Len(l) \in Nat /\ DOMAIN l = 1..Len(l)
        BY <1>1, IsSeqLen DEF Has, ListsInOrder
    <2>2. Files(v) = fs
        BY <1>1, Zenon DEF Files
    <2>3. fs \in [1..Len(l) -> S]
        BY <2>1
    <2>4. fs \in Seq(S)
        <3> HIDE DEF fs, S
        <3> QED BY <2>1, <2>3, SeqDef
    <2>5. IsSeq(fs)
        BY <2>4, IsSeqIntro
    <2>6. \A i \in DOMAIN l : l[i].map["length"].n \in 0..MaxInt
        BY <1>1 DEF GoodInfo, GoodEntry, GoodSize
    <2>7. \A i \in DOMAIN fs : fs[i].size \in 0..MaxInt
        BY <2>6
    <2> QED BY <2>2, <2>5, <2>7, Zenon
<1>2. CASE ~Has(v, "files", "list")
    <2> DEFINE e == [path |-> IF Has(v, "name", "str") THEN <<v.map["name"].s>> ELSE <<>>,
                     size |-> v.map["length"].n]
    <2>1. Files(v) = <<e>>
        BY <1>2, Zenon DEF Files
    <2>2. e.size \in 0..MaxInt
        BY <1>2 DEF GoodInfo, GoodSize
    <2> HIDE DEF e
    <2>3. <<e>> \in Seq({e}) /\ DOMAIN <<e>> = {1} /\ <<e>>[1] = e
        OBVIOUS
    <2>4. IsSeq(<<e>>)
        BY <2>3, IsSeqIntro
    <2> QED BY <2>1, <2>2, <2>3, <2>4
<1> QED BY <1>1, <1>2

LEMMA Failing ==
    ASSUME MetainfoInv, Fail, UNCHANGED file, at' \in 0..Len(file)
    PROVE  MetainfoInv'
BY DEF MetainfoInv, Fail, Reading, Adding, Reported

LEMMA Inspecting ==
    ASSUME MetainfoInv, result = "reading", UNCHANGED file, at' \in 0..Len(file),
           NEW v, NEW p, NEW q, ReadOK(file, v, p, q), Inspect(v)
    PROVE  MetainfoInv'
<1>1. CASE ~(Has(v, "info", "dict") /\ GoodInfo(v.map["info"]))
    <2>1. Fail
        BY <1>1, Zenon DEF Inspect
    <2> QED BY <2>1, Failing
<1>2. CASE Has(v, "info", "dict") /\ GoodInfo(v.map["info"])
    <2> DEFINE i == v.map["info"]
    <2>1. /\ info' = i /\ files' = Files(i) /\ result' = "adding"
          /\ added' = 0 /\ total' = 0
        <3>1. /\ info' = i /\ files' = Files(info') /\ result' = "adding"
              /\ UNCHANGED <<stack, added, total, hash>>
            BY <1>2, Zenon DEF Inspect
        <3> QED BY <3>1 DEF MetainfoInv, Reading
    <2>2. ValueOK(file, i) /\ i.t = "dict"
        BY <1>2 DEF Has, ReadOK
    <2>3. IsSeq(Files(i)) /\ \A x \in DOMAIN Files(i) : Files(i)[x].size \in 0..MaxInt
        BY <1>2, <2>2, FilesInOrder DEF ValueOK
    <2> HIDE DEF i
    <2>4. info'.plain => info'.enc = SubSeq(file', info'.from, info'.to)
        BY <2>1, <2>2, Zenon DEF ValueOK
    <2>5. IsSeq(files') /\ (\A x \in DOMAIN files' : files'[x].size \in 0..MaxInt) /\ Len(files') \in Nat
        BY <2>1, <2>3, IsSeqLen
    <2>6. BytesOf(files', added') = {}
        BY <2>1 DEF BytesOf
    <2>7. added' \in 0..Len(files') /\ total' \in 0..MaxInt
        BY <2>1, <2>5, WidthAssumption
    <2>8. Adding'
        <3>1. IsFiniteSet(BytesOf(files', added')) /\ total' = Cardinality(BytesOf(files', added'))
            BY <2>1, <2>6, FS_EmptySet
        <3> QED BY <2>4, <2>5, <2>7, <3>1 DEF Adding, BytesOf
    <2> QED BY <2>1, <2>8 DEF MetainfoInv, Reading, Reported
<1> QED BY <1>1, <1>2

LEMMA Delivering ==
    ASSUME MetainfoInv, result = "reading", UNCHANGED file, at < Len(file), at' = at + 1,
           NEW p \in 1..(at + 1), NEW rest, StackOK(file, rest, p - 1),
           NEW v, ReadOK(file, v, p, at + 1), Deliver(rest, v)
    PROVE  MetainfoInv'
<1> DEFINE top == Head(rest)
<1>1. file \in Seq(Tokens) /\ at \in Nat /\ at + 1 \in p..Len(file) /\ at' \in 0..Len(file)
      /\ p - 1 \in Nat /\ (p - 1) + 1 = p
    BY LenProperties DEF MetainfoInv
<1>2. ASSUME NEW g, FrameOK(file, g, at + 1), rest # <<>>, g.from = top.from, Innermost(rest, g)
      PROVE  MetainfoInv'
    <2>1. stack' = <<g>> \o Tail(rest) /\ UNCHANGED <<result, inventory>>
        BY <1>2, Zenon DEF Innermost
    <2>2. StackOK(file, <<g>> \o Tail(rest), at + 1)
        BY <1>2, InnermostReplaced, Zenon
    <2>3. StackOK(file', stack', at')
        BY <2>1, <2>2, Zenon
    <2> QED BY <1>1, <2>1, <2>3 DEF MetainfoInv, Reading, Adding, Reported, inventory
<1>3. CASE rest = <<>>
    <2>1. Inspect(v)
        BY <1>3, Zenon DEF Deliver
    <2> QED BY <1>1, <2>1, Inspecting, Zenon
<1>4. CASE rest # <<>>
    <2>1. FrameOK(file, top, p - 1)
        BY <1>4, StackPop, Zenon
    <2>2. at + 1 \in ((p - 1) + 1)..Len(file) /\ ReadOK(file, v, (p - 1) + 1, at + 1)
        BY <1>1, Zenon
    <2>3. \/ top.t = "list" /\ Innermost(rest, WithItem(top, v))
          \/ top.t = "dict" /\ top.key # <<>> /\ Innermost(rest, WithValue(top, v))
          \/ top.t = "dict" /\ top.key = <<>> /\ v.t = "str" /\ Innermost(rest, WithKeyRead(top, v))
          \/ Fail
        BY <1>4, Zenon DEF Deliver
    <2> HIDE DEF top
    <2>4. CASE top.t = "list" /\ Innermost(rest, WithItem(top, v))
        <3>1. FrameOK(file, WithItem(top, v), at + 1) /\ WithItem(top, v).from = top.from
            BY <1>1, <2>1, <2>2, <2>4, ItemAdded
        <3> QED BY <1>2, <1>4, <2>4, <3>1, Zenon
    <2>5. CASE top.t = "dict" /\ top.key # <<>> /\ Innermost(rest, WithValue(top, v))
        <3>1. FrameOK(file, WithValue(top, v), at + 1) /\ WithValue(top, v).from = top.from
            BY <1>1, <2>1, <2>2, <2>5, ValueAdded
        <3> QED BY <1>2, <1>4, <2>5, <3>1, Zenon
    <2>6. CASE top.t = "dict" /\ top.key = <<>> /\ v.t = "str" /\ Innermost(rest, WithKeyRead(top, v))
        <3>1. FrameOK(file, WithKeyRead(top, v), at + 1) /\ WithKeyRead(top, v).from = top.from
            BY <1>1, <2>1, <2>2, <2>6, KeyAdded, Zenon
        <3> QED BY <1>2, <1>4, <2>6, <3>1, Zenon
    <2>7. CASE Fail
        BY <1>1, <2>7, Failing, Zenon
    <2> QED BY <2>3, <2>4, <2>5, <2>6, <2>7, Zenon
<1> QED BY <1>3, <1>4

LEMMA ReadingStep ==
    ASSUME MetainfoInv, ReadToken
    PROVE  MetainfoInv'
<1> DEFINE p == at + 1
           token == file[p]
<1>1. /\ result = "reading" /\ at < Len(file) /\ at' = p /\ UNCHANGED file
      /\ \/ token.t = "int" /\ Deliver(stack, IntValue(token, p))
         \/ Fail
         \/ token.t = "str" /\ Deliver(stack, StrValue(token, p))
         \/ /\ token.t \in {"list", "dict"}
            /\ stack' = <<Frame(token.t, p)>> \o stack
            /\ UNCHANGED <<result, inventory>>
         \/ /\ token.t = "end" /\ stack # <<>> /\ Head(stack).key = <<>>
            /\ Deliver(Tail(stack), Closed(Head(stack), p))
    BY Zenon DEF ReadToken
<1>2. /\ file \in Seq(Tokens) /\ at \in Nat /\ p \in 1..Len(file) /\ p \in 1..(at + 1)
      /\ at' \in 0..Len(file) /\ p - 1 = at
    BY <1>1, LenProperties DEF MetainfoInv
<1>3. StackOK(file, stack, at) /\ StackOK(file, stack, p - 1)
    BY <1>1, <1>2, Zenon DEF MetainfoInv, Reading
<1>4. CASE token.t = "int" /\ Deliver(stack, IntValue(token, p))
    <2>1. ReadOK(file, IntValue(token, p), p, at + 1)
        BY <1>2, <1>4, ScalarRead, Zenon
    <2> QED BY <1>1, <1>2, <1>3, <1>4, <2>1, Delivering, Zenon
<1>5. CASE Fail
    BY <1>1, <1>2, <1>5, Failing, Zenon
<1>6. CASE token.t = "str" /\ Deliver(stack, StrValue(token, p))
    <2>1. ReadOK(file, StrValue(token, p), p, at + 1)
        BY <1>2, <1>6, ScalarRead, Zenon
    <2> QED BY <1>1, <1>2, <1>3, <1>6, <2>1, Delivering, Zenon
<1>7. CASE /\ token.t \in {"list", "dict"}
           /\ stack' = <<Frame(token.t, p)>> \o stack
           /\ UNCHANGED <<result, inventory>>
    <2>1. FrameOK(file, Frame(token.t, p), p) /\ Frame(token.t, p).from = p
        BY <1>2, <1>7, NewFrame
    <2>2. StackOK(file, <<Frame(token.t, p)>> \o stack, p)
        BY <1>3, <2>1, StackPush, Zenon
    <2>3. StackOK(file', stack', at')
        BY <1>1, <1>7, <2>2, Zenon
    <2> QED BY <1>1, <1>2, <1>7, <2>3 DEF MetainfoInv, Reading, Adding, Reported, inventory
<1>8. CASE /\ token.t = "end" /\ stack # <<>> /\ Head(stack).key = <<>>
           /\ Deliver(Tail(stack), Closed(Head(stack), p))
    <2>1. FrameOK(file, Head(stack), at) /\ StackOK(file, Tail(stack), Head(stack).from - 1)
        BY <1>3, <1>8, StackPop, Zenon
    <2>2. Head(stack).from \in 1..(at + 1)
        BY <1>2, <2>1 DEF FrameOK
    <2>3. ReadOK(file, Closed(Head(stack), p), Head(stack).from, at + 1)
        <3>1. at + 1 <= Len(file)
            BY <1>2
        <3> QED BY <1>2, <1>8, <2>1, <3>1, FrameClosed, Zenon
    <2> QED BY <1>1, <1>8, <2>1, <2>2, <2>3, Delivering, Zenon
<1> QED BY <1>1, <1>4, <1>5, <1>6, <1>7, <1>8, Zenon

LEMMA AddingStep ==
    ASSUME MetainfoInv, AddSize
    PROVE  MetainfoInv'
<1> DEFINE n == files[added + 1].size
<1>1. /\ result = "adding" /\ added < Len(files) /\ UNCHANGED <<file, at>>
      /\ \/ Fail
         \/ /\ ~Overflows(n)
            /\ total' = (total + n) % (MaxInt + 1) /\ added' = added + 1
            /\ UNCHANGED <<stack, result, info, files, hash>>
    BY Zenon DEF AddSize
<1>2. CASE Fail
    <2>1. UNCHANGED file /\ at' \in 0..Len(file)
        BY <1>1 DEF MetainfoInv
    <2> QED BY <1>2, <2>1, Failing
<1>3. CASE /\ ~Overflows(n)
           /\ total' = (total + n) % (MaxInt + 1) /\ added' = added + 1
           /\ UNCHANGED <<stack, result, info, files, hash>>
    <2>1. /\ info.plain => info.enc = SubSeq(file, info.from, info.to)
          /\ IsSeq(files) /\ \A i \in DOMAIN files : files[i].size \in 0..MaxInt
          /\ added \in 0..Len(files) /\ total \in 0..MaxInt
          /\ IsFiniteSet(BytesOf(files, added)) /\ total = Cardinality(BytesOf(files, added))
        BY <1>1, Zenon DEF MetainfoInv, Adding
    <2>2. Len(files) \in Nat /\ DOMAIN files = 1..Len(files)
        BY <2>1, IsSeqLen
    <2>3. n \in 0..MaxInt /\ n \in Nat /\ added \in Nat
        BY <1>1, <2>1, <2>2, WidthAssumption
    <2>4. total' = total + n /\ total' \in 0..MaxInt
        <3> HIDE DEF n
        <3>0. ~(total > MaxInt - n) /\ total \in 0..MaxInt
            BY <1>3, <2>1, Zenon DEF Overflows
        <3>1. total + n \in 0..MaxInt
            BY <2>3, <3>0, WidthAssumption
        <3>2. \A m \in 0..MaxInt : m % (MaxInt + 1) = m
            BY WidthAssumption
        <3> QED BY <1>3, <3>1, <3>2
    <2>5. /\ IsFiniteSet(BytesOf(files, added + 1))
          /\ Cardinality(BytesOf(files, added + 1)) = total + n
        BY <2>1, <2>3, MoreBytes
    <2>6. added + 1 \in 0..Len(files)
        BY <1>1, <2>1, <2>2
    <2> HIDE DEF n
    <2>7. Adding'
        BY <1>1, <1>3, <2>1, <2>4, <2>5, <2>6 DEF Adding, BytesOf
    <2> QED BY <1>1, <1>3, <2>7 DEF MetainfoInv, Reading, Reported
<1> QED BY <1>1, <1>2, <1>3, Zenon

LEMMA MetainfoStep ==
    ASSUME MetainfoInv, [Next]_vars
    PROVE  MetainfoInv'
<1>1. CASE ReadToken
    BY <1>1, ReadingStep
<1>2. CASE Cut
    <2>1. Fail /\ UNCHANGED file /\ at' \in 0..Len(file)
        BY <1>2 DEF Cut, MetainfoInv
    <2> QED BY <2>1, Failing
<1>3. CASE AddSize
    BY <1>3, AddingStep
<1>4. CASE Report
    BY <1>4 DEF Report, MetainfoInv, Reading, Adding, Reported, BytesOf
<1>5. CASE UNCHANGED vars
    BY <1>5 DEF vars, inventory, MetainfoInv, Reading, Adding, Reported, BytesOf
<1> QED BY <1>1, <1>2, <1>3, <1>4, <1>5 DEF Next

LEMMA MetainfoInitially == Init => MetainfoInv
<1> SUFFICES ASSUME Init PROVE MetainfoInv
    OBVIOUS
<1>1. file \in Seq(Tokens) /\ at = 0 /\ 0 \in 0..Len(file)
    BY DescriptorsAssumption, LenProperties DEF Init
<1>2. StackOK(file, stack, at)
    BY DEF Init, StackOK, IsSeq
<1> QED BY <1>1, <1>2 DEF Init, MetainfoInv, Reading, Adding, Reported

LEMMA MetainfoIsInductive == Spec => []MetainfoInv
BY MetainfoInitially, MetainfoStep, PTL DEF Spec

\* The infohash that is printed for a canonical info dictionary is that of its
\* tokens as they stand in the file, whatever the file (encode undoes decode).
THEOREM HashesAreFaithful == Spec => []HashIsFaithful
<1>1. MetainfoInv => HashIsFaithful
    BY Zenon DEF MetainfoInv, Adding, Reported, HashIsFaithful
<1> QED BY <1>1, MetainfoIsInductive, PTL

\* The total that is printed counts the bytes of all files, none twice, and no
\* sum has passed the largest int64 (the loop over the files of Inspect).
THEOREM TotalsAreExact == Spec => []TotalIsExact
<1>1. MetainfoInv => TotalIsExact
    <2> SUFFICES ASSUME MetainfoInv, result = "inventory"
                 PROVE  /\ \A i \in DOMAIN files : files[i].size \in 0..MaxInt
                        /\ total = Cardinality(Bytes) /\ total <= MaxInt
        BY DEF TotalIsExact
    <2>1. /\ IsSeq(files) /\ \A i \in DOMAIN files : files[i].size \in 0..MaxInt
          /\ total \in 0..MaxInt /\ total = Cardinality(BytesOf(files, Len(files)))
        BY Zenon DEF MetainfoInv, Adding, Reported
    <2>2. Bytes = BytesOf(files, Len(files))
        BY <2>1, IsSeqLen DEF Bytes, BytesOf
    <2> QED BY <2>1, <2>2, WidthAssumption
<1> QED BY <1>1, MetainfoIsInductive, PTL
=============================================================================
