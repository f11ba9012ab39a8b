------------------------------ MODULE Recursion ------------------------------
(***************************************************************************)
(* Induction on the numbers in the form of a set, and the recursive        *)
(* definitions that several proofs need, shown to obey their equations.    *)
(* And what both ends of the XML format share: the items of a document,    *)
(* those that a walk through it has come over, and what they mean.         *)
(***************************************************************************)
EXTENDS XmlTree, ItemCodec, WellFoundedInduction, SequenceTheorems, TLAPS

(* Every nonempty set of numbers has a least one.                           *)
LEMMA LeastNumber ==
  ASSUME NEW S \in SUBSET Nat, S # {}
  PROVE  \E x \in S : \A y \in S : x <= y
<1>1. PICK x \in S : \A y \in S : ~(<<y, x>> \in OpToRel(<, Nat))
  BY NatLessThanWellFounded, WFMin
<1>2. OpToRel(<, Nat) = {p \in Nat \X Nat : p[1] < p[2]}
  BY Zenon DEF OpToRel
<1>3. \A y \in S : ~(y < x)
  BY <1>1, <1>2
<1> QED
  BY <1>3

(* A set with 0 and with the successors of its numbers has all of them.     *)
LEMMA NumberInduction ==
  ASSUME NEW S, 0 \in S, \A n \in Nat : n \in S => n + 1 \in S
  PROVE  \A n \in Nat : n \in S
<1> SUFFICES ASSUME Nat \ S # {} PROVE FALSE
  OBVIOUS
<1>1. PICK x \in Nat \ S : \A y \in Nat \ S : x <= y
  BY LeastNumber
<1>2. x # 0 /\ x - 1 \in Nat /\ x - 1 \in S
  BY <1>1
<1> QED
  BY <1>1, <1>2

(* What is a sequence, whatever is in it, and what appending to it does.    *)
IsSeq(s) == s \in Seq({s[i] : i \in DOMAIN s})

LEMMA SeqFacts ==
  ASSUME NEW s, IsSeq(s)
  PROVE  Len(s) \in Nat /\ DOMAIN s = 1 .. Len(s)
  BY DEF IsSeq

LEMMA SeqIsSeq == ASSUME NEW S, NEW s \in Seq(S) PROVE IsSeq(s)
<1>1. s \in [1 .. Len(s) -> S] /\ Len(s) \in Nat
  BY LenProperties
<1>2. s \in [1 .. Len(s) -> {s[i] : i \in DOMAIN s}]
  BY <1>1
<1> QED
  BY <1>1, <1>2, SeqDef DEF IsSeq

LEMMA AppendedTo ==
  ASSUME NEW s, IsSeq(s), NEW e
  PROVE  /\ IsSeq(Append(s, e))
         /\ DOMAIN s = 1 .. Len(s) /\ Len(s) \in Nat
         /\ DOMAIN Append(s, e) = 1 .. Len(s) + 1
         /\ Len(Append(s, e)) = Len(s) + 1
         /\ \A i \in 1 .. Len(s) : Append(s, e)[i] = s[i]
         /\ Append(s, e)[Len(s) + 1] = e
<1> DEFINE S == {s[i] : i \in DOMAIN s} \cup {e}
           t == Append(s, e)
<1>1. s \in Seq(S)
  BY DEF IsSeq
<1>2. /\ t \in Seq(S)
      /\ DOMAIN s = 1 .. Len(s) /\ Len(s) \in Nat
      /\ DOMAIN t = 1 .. Len(s) + 1
      /\ Len(t) = Len(s) + 1
      /\ \A i \in 1 .. Len(s) : t[i] = s[i]
      /\ t[Len(s) + 1] = e
  BY <1>1
<1>3. IsSeq(t)
  BY <1>2, SeqIsSeq
<1> QED
  BY <1>2, <1>3

(* More of what appending does.                                             *)
LEMMA AppendedIs ==
  ASSUME NEW S, NEW s \in Seq(S), NEW x \in S
  PROVE  Append(s, x) = [i \in 1 .. Len(s) + 1 |-> IF i <= Len(s) THEN s[i] ELSE x]
<1> DEFINE g == [i \in 1 .. Len(s) + 1 |-> IF i <= Len(s) THEN s[i] ELSE x]
<1>1. Append(s, x) \in Seq(S) /\ Len(Append(s, x)) = Len(s) + 1
  OBVIOUS
<1>2. \A i \in 1 .. Len(s) + 1 : Append(s, x)[i] = IF i <= Len(s) THEN s[i] ELSE x
  OBVIOUS
<1>3. PICK h : h = Append(s, x)
  OBVIOUS
<1>4. h \in Seq(S) /\ Len(h) = Len(s) + 1
  BY <1>1, <1>3
<1>5. h = [i \in 1 .. Len(s) + 1 |-> h[i]]
  BY <1>4
<1>6. \A i \in 1 .. Len(s) + 1 : h[i] = IF i <= Len(s) THEN s[i] ELSE x
  BY <1>2, <1>3
<1> HIDE DEF g
<1>7. h = g
  BY <1>5, <1>6 DEF g
<1> QED
  BY <1>3, <1>7 DEF g

LEMMA AppendedFirst ==
  ASSUME NEW S, NEW b \in Seq(S), NEW x \in S, NEW y \in Seq(S)
  PROVE  b \o (<<x>> \o y) = Append(b, x) \o y /\ Append(b, x) \in Seq(S)
OBVIOUS

------------------------------------------------------------------------------
(* Division by counting.                                                    *)
LEMMA Divides ==
  ASSUME NEW w \in Nat, w # 0, NEW n \in Nat, NEW q \in Nat, NEW r \in 0 .. w - 1,
         n = w * q + r
  PROVE  n \div w = q /\ n % w = r
OBVIOUS

LEMMA NextLine == 
  ASSUME NEW w \in Nat, w # 0, NEW q \in Nat, NEW r \in 0 .. w - 1
  PROVE  /\ r + 1 # w => r + 1 \in 0 .. w - 1 /\ (w * q + r) + 1 = w * q + (r + 1)
         /\ r + 1 = w => (w * q + r) + 1 = w * (q + 1) + 0
         /\ w * q + r \in Nat
OBVIOUS

LEMMA Division ==
  ASSUME NEW w \in Nat, w # 0
  PROVE  \A n \in Nat : \E q \in Nat, r \in 0 .. w - 1 : n = w * q + r
<1> DEFINE S == {n \in Nat : \E q \in Nat, r \in 0 .. w - 1 : n = w * q + r}
<1>1. 0 \in S
  <2>1. 0 \in Nat /\ 0 \in 0 .. w - 1 /\ 0 = w * 0 + 0
    OBVIOUS
  <2> QED
    BY <2>1
<1>2. ASSUME NEW n \in Nat, n \in S PROVE n + 1 \in S
  <2>1. PICK q \in Nat, r \in 0 .. w - 1 : n = w * q + r
    BY <1>2
  <2>2. q + 1 \in Nat /\ 0 \in 0 .. w - 1 /\ r + 1 \in Nat /\ n + 1 \in Nat
    OBVIOUS
  <2>3. CASE r + 1 = w
    <3>1. n + 1 = w * (q + 1) + 0
      BY <2>1, <2>3, NextLine
    <3> QED
      BY <2>2, <3>1
  <2>4. CASE r + 1 # w
    <3>1. n + 1 = w * q + (r + 1) /\ r + 1 \in 0 .. w - 1
      BY <2>1, <2>4, NextLine
    <3> QED
      BY <2>2, <3>1
  <2> QED
    BY <2>3, <2>4
<1> HIDE DEF S
<1>3. \A n \in Nat : n \in S
  BY <1>1, <1>2, NumberInduction
<1> QED
  BY <1>3 DEF S

(* Counting one more comes to the end of a line, or not.                    *)
LEMMA CountedOn ==
  ASSUME NEW w \in Nat, w # 0, NEW n \in Nat
  PROVE  /\ n \div w \in Nat /\ n % w \in 0 .. w - 1
         /\ (n + 1) % w = 0 => (n % w) + 1 = w /\ (n + 1) \div w = (n \div w) + 1
         /\ (n + 1) % w # 0 => (n + 1) % w = (n % w) + 1 /\ (n + 1) \div w = n \div w
<1>1. PICK q \in Nat, r \in 0 .. w - 1 : n = w * q + r
  BY Division
<1>2. n \div w = q /\ n % w = r
  BY <1>1, Divides
<1>3. CASE r + 1 = w
  <2>1. q + 1 \in Nat /\ 0 \in 0 .. w - 1 /\ n + 1 \in Nat /\ n + 1 = w * (q + 1) + 0
    BY <1>1, <1>3, NextLine
  <2>2. (n + 1) \div w = q + 1 /\ (n + 1) % w = 0
    BY <2>1, Divides
  <2> QED
    BY <1>2, <1>3, <2>2
<1>4. CASE r + 1 # w
  <2>1. r + 1 \in 0 .. w - 1 /\ n + 1 \in Nat /\ n + 1 = w * q + (r + 1) /\ r + 1 # 0
    BY <1>1, <1>4, NextLine
  <2>2. (n + 1) \div w = q /\ (n + 1) % w = r + 1
    BY <2>1, Divides
  <2> QED
    BY <1>2, <1>4, <2>1, <2>2
<1> QED
  BY <1>3, <1>4

------------------------------------------------------------------------------
(* The stacks of usage pages along a sequence of items.                     *)
LEMMA PagesAtDef ==
  ASSUME NEW its, Len(its) \in Nat
  PROVE  PagesAt(its) =
           [i \in 0 .. Len(its) |->
               IF i = 0 THEN <<0>> ELSE PagesAfter(its[i], PagesAt(its)[i - 1])]
<1> DEFINE S == {k \in Nat : \E f : f =
                    [i \in 0 .. k |-> IF i = 0 THEN <<0>> ELSE PagesAfter(its[i], f[i - 1])]}
<1>1. 0 \in S
  <2> DEFINE f == [i \in 0 .. 0 |-> <<0>>]
  <2>1. f = [i \in 0 .. 0 |-> IF i = 0 THEN <<0>> ELSE PagesAfter(its[i], f[i - 1])]
    OBVIOUS
  <2> QED
    BY <2>1
<1>2. ASSUME NEW k \in Nat, k \in S PROVE k + 1 \in S
  <2>1. PICK f : f = [i \in 0 .. k |->
                        IF i = 0 THEN <<0>> ELSE PagesAfter(its[i], f[i - 1])]
    BY <1>2
  <2> DEFINE g == [i \in 0 .. k + 1 |->
                     IF i = k + 1 THEN PagesAfter(its[k + 1], f[k]) ELSE f[i]]
  <2>2. \A i \in 0 .. k + 1 :
           g[i] = IF i = 0 THEN <<0>> ELSE PagesAfter(its[i], g[i - 1])
    <3> SUFFICES ASSUME NEW i \in 0 .. k + 1
                 PROVE  g[i] = IF i = 0 THEN <<0>> ELSE PagesAfter(its[i], g[i - 1])
      OBVIOUS
    <3>1. CASE i = k + 1
      BY <3>1
    <3>2. CASE i = 0
      BY <2>1, <3>2
    <3>3. CASE i # 0 /\ i # k + 1
      <4>1. i \in 0 .. k /\ i - 1 \in 0 .. k + 1 /\ i - 1 # k + 1
        BY <3>3
      <4>2. f[i] = PagesAfter(its[i], f[i - 1])
        BY <2>1, <3>3, <4>1
      <4> QED
        BY <3>3, <4>1, <4>2
    <3> QED
      BY <3>1, <3>2, <3>3
  <2>3. g = [i \in 0 .. k + 1 |->
                IF i = 0 THEN <<0>> ELSE PagesAfter(its[i], g[i - 1])]
    <3> DEFINE h == [i \in 0 .. k + 1 |->
                        IF i = 0 THEN <<0>> ELSE PagesAfter(its[i], g[i - 1])]
    <3>1. \A i \in 0 .. k + 1 : g[i] = h[i]
      BY <2>2
    <3> QED
      BY <3>1
  <2>4. \E f2 : f2 = [i \in 0 .. k + 1 |->
                        IF i = 0 THEN <<0>> ELSE PagesAfter(its[i], f2[i - 1])]
    <3> HIDE DEF g
    <3> QED
      BY <2>3
  <2> QED
    BY <2>4
<1>3. Len(its) \in S
  <2> HIDE DEF S
  <2> QED
    BY <1>1, <1>2, NumberInduction
<1> QED
  BY <1>3 DEF PagesAt

LEMMA PagesAtAppend ==
  ASSUME NEW s, IsSeq(s), NEW x
  PROVE  /\ \A i \in 0 .. Len(s) : PagesAt(Append(s, x))[i] = PagesAt(s)[i]
         /\ PagesAt(Append(s, x))[Len(s) + 1] = PagesAfter(x, PagesAt(s)[Len(s)])
<1> DEFINE t == Append(s, x)
           n == Len(s)
<1>1. /\ n \in Nat /\ Len(t) = n + 1
      /\ \A i \in 1 .. n : t[i] = s[i]
      /\ t[n + 1] = x
  BY AppendedTo
<1> HIDE DEF t, n
<1>2. PagesAt(t)[0] = <<0>> /\ \A i \in 1 .. n + 1 :
          PagesAt(t)[i] = PagesAfter(t[i], PagesAt(t)[i - 1])
  BY <1>1, PagesAtDef
<1>3. PagesAt(s)[0] = <<0>> /\ \A i \in 1 .. n :
          PagesAt(s)[i] = PagesAfter(s[i], PagesAt(s)[i - 1])
  BY <1>1, PagesAtDef DEF n
<1> DEFINE S == {i \in Nat : i <= n => PagesAt(t)[i] = PagesAt(s)[i]}
<1>4. 0 \in S
  BY <1>2, <1>3
<1>5. ASSUME NEW i \in Nat, i \in S PROVE i + 1 \in S
  <2> SUFFICES ASSUME i + 1 <= n PROVE PagesAt(t)[i + 1] = PagesAt(s)[i + 1]
    OBVIOUS
  <2>1. i + 1 \in 1 .. n /\ i + 1 \in 1 .. n + 1 /\ (i + 1) - 1 = i /\ i <= n
    BY <1>1
  <2> QED
    BY <1>1, <1>2, <1>3, <1>5, <2>1
<1>6. \A i \in Nat : i \in S
  <2> HIDE DEF S
  <2> QED
    BY <1>4, <1>5, NumberInduction
<1>7. \A i \in 0 .. n : PagesAt(t)[i] = PagesAt(s)[i]
  BY <1>1, <1>6
<1>8. PagesAt(t)[n + 1] = PagesAfter(x, PagesAt(s)[n])
  BY <1>1, <1>2, <1>7
<1> QED
  BY <1>7, <1>8 DEF t, n

------------------------------------------------------------------------------
(* Sequences joined into one have the elements of all.                      *)
LEMMA JoinedExists ==
  ASSUME NEW seqs, NEW n \in Nat
  PROVE  \E f : f = [i \in 1 .. n |-> IF i = 1 THEN seqs[i] ELSE f[i - 1] \o seqs[i]]
<1> DEFINE S == {k \in Nat : \E f : f =
                    [i \in 1 .. k |-> IF i = 1 THEN seqs[i] ELSE f[i - 1] \o seqs[i]]}
<1>1. 0 \in S
  <2> DEFINE f == [i \in 1 .. 0 |-> <<>>]
  <2>1. f = [i \in 1 .. 0 |-> IF i = 1 THEN seqs[i] ELSE f[i - 1] \o seqs[i]]
    OBVIOUS
  <2> QED
    BY <2>1
<1>2. ASSUME NEW k \in Nat, k \in S PROVE k + 1 \in S
  <2>1. PICK f : f = [i \in 1 .. k |-> IF i = 1 THEN seqs[i] ELSE f[i - 1] \o seqs[i]]
    BY <1>2
  <2> DEFINE g == [i \in 1 .. k + 1 |->
                     IF i = k + 1 THEN (IF k = 0 THEN seqs[1] ELSE f[k] \o seqs[k + 1])
                     ELSE f[i]]
             h == [i \in 1 .. k + 1 |->
                     IF i = 1 THEN seqs[i] ELSE g[i - 1] \o seqs[i]]
  <2>2. ASSUME NEW i \in 1 .. k + 1 PROVE g[i] = h[i]
    <3>1. CASE i = k + 1
      <4>1. k = 0 \/ (k \in 1 .. k + 1 /\ k # k + 1 /\ i - 1 = k)
        BY <3>1
      <4> QED
        BY <3>1, <4>1
    <3>2. CASE i # k + 1
      <4>1. i \in 1 .. k /\ (i = 1 \/ (i - 1 \in 1 .. k + 1 /\ i - 1 # k + 1))
        BY <3>2
      <4>2. f[i] = IF i = 1 THEN seqs[i] ELSE f[i - 1] \o seqs[i]
        BY <2>1, <4>1
      <4> QED
        BY <3>2, <4>1, <4>2
    <3> QED
      BY <3>1, <3>2
  <2>3. g = h
    BY <2>2
  <2>4. \E f2 : f2 = [i \in 1 .. k + 1 |-> IF i = 1 THEN seqs[i] ELSE f2[i - 1] \o seqs[i]]
    <3>1. g = [i \in 1 .. k + 1 |-> IF i = 1 THEN seqs[i] ELSE g[i - 1] \o seqs[i]]
      BY <2>3
    <3> HIDE DEF g
    <3> QED
      BY <3>1
  <2> HIDE DEF g, h
  <2>5. k + 1 \in Nat
    OBVIOUS
  <2> QED
    BY <2>4, <2>5, Zenon
<1>3. n \in S
  <2> HIDE DEF S
  <2> QED
    BY <1>1, <1>2, NumberInduction
<1> QED
  BY <1>3

LEMMA FlattenIsSeq ==
  ASSUME NEW S, NEW seqs \in Seq(Seq(S))
  PROVE  FlattenSeq(seqs) \in Seq(S)
<1> DEFINE n == Len(seqs)
           J(f) == f = [i \in 1 .. n |-> IF i = 1 THEN seqs[i] ELSE f[i - 1] \o seqs[i]]
           flat == CHOOSE f : J(f)
<1>1. n \in Nat /\ \A i \in 1 .. n : seqs[i] \in Seq(S)
  OBVIOUS
<1>2. J(flat)
  <2>1. \E f : J(f)
    BY <1>1, JoinedExists
  <2> HIDE DEF J
  <2> QED
    BY <2>1
<1>3. FlattenSeq(seqs) = IF n = 0 THEN seqs ELSE flat[n]
  BY DEF FlattenSeq
<1> HIDE DEF n
<1>4. \A i \in 1 .. n : flat[i] = IF i = 1 THEN seqs[i] ELSE flat[i - 1] \o seqs[i]
  BY <1>2
<1> HIDE DEF flat, J
<1> DEFINE G == {i \in Nat : i \in 1 .. n => flat[i] \in Seq(S)}
<1>5. 0 \in G
  BY <1>1
<1>6. ASSUME NEW i \in Nat, i \in G PROVE i + 1 \in G
  <2> SUFFICES ASSUME i + 1 \in 1 .. n PROVE flat[i + 1] \in Seq(S)
    OBVIOUS
  <2>1. CASE i = 0
    <3>1. 1 \in 1 .. n
      BY <2>1
    <3>2. flat[1] = seqs[1]
      BY <1>4, <3>1
    <3> QED
      BY <1>1, <2>1, <3>1, <3>2
  <2>2. CASE i # 0
    <3>1. i \in 1 .. n /\ i + 1 # 1 /\ (i + 1) - 1 = i
      BY <1>1, <2>2
    <3>2. flat[i + 1] = flat[i] \o seqs[i + 1] /\ flat[i] \in Seq(S) /\ seqs[i + 1] \in Seq(S)
      BY <1>1, <1>4, <1>6, <3>1
    <3>3. flat[i] \o seqs[i + 1] \in Seq(S)
      BY <3>2, ConcatProperties
    <3> QED
      BY <3>2, <3>3
  <2> QED
    BY <2>1, <2>2
<1>7. \A i \in Nat : i \in G
  <2> HIDE DEF G
  <2> QED
    BY <1>5, <1>6, NumberInduction
<1>8. CASE n = 0
  <2>1. seqs = <<>>
    BY <1>8 DEF n
  <2> QED
    BY <1>3, <1>8, <2>1
<1>9. CASE n # 0
  <2>1. n \in 1 .. n
    BY <1>1, <1>9
  <2> QED
    BY <1>1, <1>3, <1>7, <1>9, <2>1
<1> QED
  BY <1>8, <1>9

(* Sequences joined one after the other.                                    *)
LEMMA FlattenAt ==
  ASSUME NEW S, NEW seqs \in Seq(Seq(S)), Len(seqs) # 0
  PROVE  \E flat : /\ FlattenSeq(seqs) = flat[Len(seqs)]
                   /\ flat[1] = seqs[1]
                   /\ \A i \in 1 .. Len(seqs) - 1 : flat[i + 1] = flat[i] \o seqs[i + 1]
<1> DEFINE n == Len(seqs)
           J(f) == f = [i \in 1 .. n |-> IF i = 1 THEN seqs[i] ELSE f[i - 1] \o seqs[i]]
           flat == CHOOSE f : J(f)
<1>1. n \in Nat /\ n # 0
  OBVIOUS
<1>2. J(flat)
  <2>1. \E f : J(f)
    BY <1>1, JoinedExists
  <2> HIDE DEF J
  <2> QED
    BY <2>1
<1>3. FlattenSeq(seqs) = flat[n]
  BY <1>1 DEF FlattenSeq
<1> HIDE DEF n
<1>4. \A i \in 1 .. n : flat[i] = IF i = 1 THEN seqs[i] ELSE flat[i - 1] \o seqs[i]
  BY <1>2
<1> HIDE DEF flat, J
<1>5. flat[1] = seqs[1]
  <2>1. 1 \in 1 .. n
    BY <1>1
  <2> QED
    BY <1>4, <2>1
<1>6. ASSUME NEW i \in 1 .. n - 1 PROVE flat[i + 1] = flat[i] \o seqs[i + 1]
  <2>1. i + 1 \in 1 .. n /\ i + 1 # 1 /\ (i + 1) - 1 = i
    BY <1>1
  <2> QED
    BY <1>4, <2>1
<1> QED
  BY <1>3, <1>5, <1>6 DEF n

------------------------------------------------------------------------------
(* What is left of a sequence at a place in it.                             *)
RestAt(b, p) == SubSeq(b, p + 1, Len(b))

LEMMA RestFacts ==
  ASSUME NEW S, NEW b \in Seq(S), NEW p \in Nat
  PROVE  /\ RestAt(b, p) \in Seq(S)
         /\ p >= Len(b) => RestAt(b, p) = <<>>
         /\ p < Len(b) => RestAt(b, p) # <<>> /\ Len(RestAt(b, p)) = Len(b) - p
         /\ RestAt(b, 0) = b
<1>1. \A i \in p + 1 .. Len(b) : i \in 1 .. Len(b)
  OBVIOUS
<1>2. RestAt(b, p) \in Seq(S)
  BY <1>1 DEF RestAt
<1>3. p >= Len(b) => RestAt(b, p) = <<>>
  BY DEF RestAt
<1>4. p < Len(b) => RestAt(b, p) # <<>> /\ Len(RestAt(b, p)) = Len(b) - p
  <2>1. p < Len(b) => Len(RestAt(b, p)) = Len(b) - p /\ Len(b) - p > 0
    BY <1>1, SubSeqProperties DEF RestAt
  <2>2. Len(<<>>) = 0
    OBVIOUS
  <2> QED
    BY <2>1, <2>2
<1>5. RestAt(b, 0) = b
  BY DEF RestAt
<1> QED
  BY <1>2, <1>3, <1>4, <1>5

LEMMA RestOfRest ==
  ASSUME NEW S, NEW b \in Seq(S), NEW p \in Nat, p < Len(b), NEW k \in Nat
  PROVE  SubSeq(RestAt(b, p), k + 1, Len(RestAt(b, p))) = RestAt(b, p + k)
<1> DEFINE r == RestAt(b, p)
           n == Len(b) - p
<1>1. n \in Nat /\ Len(b) \in Nat /\ r = [i \in 1 .. n |-> b[i + p]] /\ Len(r) = n
  BY DEF RestAt
<1>2. SubSeq(r, k + 1, n) = [i \in 1 .. n - k |-> r[i + k]]
  BY <1>1
<1>3. \A i \in 1 .. n - k : r[i + k] = b[i + (p + k)]
  BY <1>1
<1>4. RestAt(b, p + k) = [i \in 1 .. n - k |-> b[i + (p + k)]]
  BY <1>1 DEF RestAt
<1> QED
  BY <1>1, <1>2, <1>3, <1>4

------------------------------------------------------------------------------
(* A function on sequences whose value needs only its values on shorter     *)
(* sequences exists.  Its equation is a function G of the sequence and of   *)
(* the function itself, with results in R.                                  *)
Results(S, R) == [Seq(S) -> R]
NeedsShorter(G, S, R) ==
    /\ \A t \in Seq(S), f \in Results(S, R) : G[t][f] \in R
    /\ \A t \in Seq(S), f \in Results(S, R), g \in Results(S, R) :
          (\A u \in Seq(S) : Len(u) < Len(t) => f[u] = g[u]) => G[t][f] = G[t][g]
FollowsTo(f, G, S, n) == \A t \in Seq(S) : Len(t) <= n => f[t] = G[t][f]

LEMMA ShorterAgree ==
  ASSUME NEW S, NEW R, NEW G, NeedsShorter(G, S, R)
  PROVE  \A k \in Nat : \A n, m \in Nat : \A f, g \in Results(S, R) :
            k <= n /\ k <= m /\ FollowsTo(f, G, S, n) /\ FollowsTo(g, G, S, m) =>
               \A t \in Seq(S) : Len(t) <= k => f[t] = g[t]
<1> DEFINE P(k) == \A n, m \in Nat : \A f, g \in Results(S, R) :
                      k <= n /\ k <= m /\ FollowsTo(f, G, S, n) /\ FollowsTo(g, G, S, m) =>
                         \A t \in Seq(S) : Len(t) <= k => f[t] = g[t]
           K == {k \in Nat : P(k)}
<1>1. ASSUME NEW k \in Nat, NEW n \in Nat, NEW m \in Nat,
             NEW f \in Results(S, R), NEW g \in Results(S, R), k <= n, k <= m,
             FollowsTo(f, G, S, n), FollowsTo(g, G, S, m),
             NEW t \in Seq(S), Len(t) <= k,
             \A u \in Seq(S) : Len(u) < Len(t) => f[u] = g[u]
      PROVE  f[t] = g[t]
  <2>1. f[t] = G[t][f] /\ g[t] = G[t][g]
    <3>1. Len(t) <= n /\ Len(t) <= m
      BY <1>1
    <3> QED
      BY <1>1, <3>1 DEF FollowsTo
  <2>2. G[t][f] = G[t][g]
    BY <1>1 DEF NeedsShorter
  <2> QED
    BY <2>1, <2>2
<1>2. 0 \in K
  <2> SUFFICES ASSUME NEW n \in Nat, NEW m \in Nat,
                      NEW f \in Results(S, R), NEW g \in Results(S, R),
                      FollowsTo(f, G, S, n), FollowsTo(g, G, S, m),
                      NEW t \in Seq(S), Len(t) <= 0
               PROVE  f[t] = g[t]
    OBVIOUS
  <2>1. \A u \in Seq(S) : ~(Len(u) < Len(t))
    OBVIOUS
  <2>2. 0 <= n /\ 0 <= m
    OBVIOUS
  <2> QED
    BY <1>1, <2>1, <2>2
<1>3. ASSUME NEW k \in Nat, k \in K PROVE k + 1 \in K
  <2> SUFFICES ASSUME NEW n \in Nat, NEW m \in Nat,
                      NEW f \in Results(S, R), NEW g \in Results(S, R), k + 1 <= n, k + 1 <= m,
                      FollowsTo(f, G, S, n), FollowsTo(g, G, S, m),
                      NEW t \in Seq(S), Len(t) <= k + 1
               PROVE  f[t] = g[t]
    OBVIOUS
  <2>1. \A u \in Seq(S) : Len(u) < Len(t) => Len(u) <= k
    OBVIOUS
  <2>2. k <= n /\ k <= m
    OBVIOUS
  <2>3. \A u \in Seq(S) : Len(u) < Len(t) => f[u] = g[u]
    BY <1>3, <2>1, <2>2
  <2> QED
    BY <1>1, <2>3
<1>4. \A k \in Nat : k \in K
  <2> HIDE DEF K
  <2> QED
    BY <1>2, <1>3, NumberInduction
<1> QED
  BY <1>4

LEMMA ShorterExists ==
  ASSUME NEW S, NEW R, NEW G, NeedsShorter(G, S, R), R # {}
  PROVE  \A n \in Nat : \E f \in Results(S, R) : FollowsTo(f, G, S, n)
<1> DEFINE K == {n \in Nat : \E f \in Results(S, R) : FollowsTo(f, G, S, n)}
<1>1. ASSUME NEW f \in Results(S, R), NEW n \in Nat,
             \A u \in Seq(S) : Len(u) < n => f[u] = G[u][f]
      PROVE  \E g \in Results(S, R) : FollowsTo(g, G, S, n)
  <2> DEFINE g == [t \in Seq(S) |-> G[t][f]]
  <2>1. g \in Results(S, R)
    BY DEF NeedsShorter, Results
  <2>2. ASSUME NEW t \in Seq(S), Len(t) <= n PROVE g[t] = G[t][g]
    <3>1. \A u \in Seq(S) : Len(u) < Len(t) => g[u] = f[u]
      <4>1. \A u \in Seq(S) : g[u] = G[u][f]
        OBVIOUS
      <4> HIDE DEF g
      <4> QED
        BY <1>1, <2>2, <4>1
    <3>2. G[t][g] = G[t][f]
      <4> HIDE DEF g
      <4> QED
        BY <2>1, <3>1 DEF NeedsShorter
    <3> QED
      BY <3>2
  <2> HIDE DEF g
  <2>3. FollowsTo(g, G, S, n)
    BY <2>2 DEF FollowsTo
  <2> QED
    BY <2>1, <2>3
<1>2. 0 \in K
  <2>1. PICK r \in R : TRUE
    OBVIOUS
  <2> DEFINE f == [t \in Seq(S) |-> r]
  <2>2. f \in Results(S, R) /\ \A u \in Seq(S) : Len(u) < 0 => f[u] = G[u][f]
    BY DEF Results
  <2> HIDE DEF f
  <2> QED
    BY <1>1, <2>2
<1>3. ASSUME NEW n \in Nat, n \in K PROVE n + 1 \in K
  <2>1. PICK f \in Results(S, R) : FollowsTo(f, G, S, n)
    BY <1>3
  <2>2. \A u \in Seq(S) : Len(u) < n + 1 => f[u] = G[u][f]
    <3>1. \A u \in Seq(S) : Len(u) < n + 1 => Len(u) <= n
      OBVIOUS
    <3> QED
      BY <2>1, <3>1 DEF FollowsTo
  <2> QED
    BY <1>1, <2>2
<1> HIDE DEF K
<1>4. \A n \in Nat : n \in K
  BY <1>2, <1>3, NumberInduction
<1> QED
  BY <1>4 DEF K

LEMMA ShorterRecursion ==
  ASSUME NEW S, NEW R, NEW G, NeedsShorter(G, S, R), R # {}
  PROVE  \E f \in Results(S, R) : \A t \in Seq(S) : f[t] = G[t][f]
<1> DEFINE F(n) == CHOOSE f \in Results(S, R) : FollowsTo(f, G, S, n)
           h == [t \in Seq(S) |-> F(Len(t))[t]]
<1>1. \A n \in Nat : F(n) \in Results(S, R) /\ FollowsTo(F(n), G, S, n)
  BY ShorterExists
<1> HIDE DEF F
<1>2. \A t \in Seq(S) : h[t] = F(Len(t))[t] /\ h[t] \in R
  BY <1>1 DEF Results
<1>3. h \in Results(S, R)
  BY <1>2 DEF Results
<1> HIDE DEF h
<1>4. ASSUME NEW t \in Seq(S) PROVE h[t] = G[t][h]
  <2> DEFINE n == Len(t)
  <2>1. F(n) \in Results(S, R) /\ F(n)[t] = G[t][F(n)]
    BY <1>1 DEF FollowsTo
  <2>2. \A u \in Seq(S) : Len(u) < n => F(n)[u] = h[u]
    <3> SUFFICES ASSUME NEW u \in Seq(S), Len(u) < n PROVE F(n)[u] = F(Len(u))[u]
      BY <1>2
    <3> DEFINE k == Len(u)
    <3>1. k \in Nat /\ n \in Nat /\ k <= n /\ k <= k
      OBVIOUS
    <3> HIDE DEF k, n
    <3>2. \A t2 \in Seq(S) : Len(t2) <= k => F(n)[t2] = F(k)[t2]
      BY <1>1, <3>1, ShorterAgree
    <3> QED
      BY <3>1, <3>2 DEF k
  <2>3. G[t][F(n)] = G[t][h]
    BY <1>3, <2>1, <2>2 DEF NeedsShorter
  <2> QED
    BY <1>2, <2>1, <2>3
<1> QED
  BY <1>3, <1>4

------------------------------------------------------------------------------
(* The items in bytes: Cut obeys its equation.                              *)

(* The first item of bytes that hold one, and what comes after it.         *)
FirstItem(rest) == SubSeq(rest, 1, ItemSize(rest))
AfterFirst(rest) == SubSeq(rest, ItemSize(rest) + 1, Len(rest))
CutStep(rest, after) ==
    IF rest = <<>> THEN Found(<<>>, "none")
    ELSE IF ~Fits(rest) THEN Found(<<>>, "short")
    ELSE IF ~ItemValid(FirstItem(rest)) THEN Found(<<>>, "invalid")
    ELSE [after EXCEPT !.items = <<FirstItem(rest)>> \o @]

(* An item that fits is a beginning of the bytes, and not empty.            *)
LEMMA FirstFacts ==
  ASSUME NEW rest \in Seq(Byte), Fits(rest)
  PROVE  /\ ItemSize(rest) \in 1 .. Len(rest)
         /\ FirstItem(rest) \in Seq(Byte)
         /\ AfterFirst(rest) \in Seq(Byte)
         /\ Len(AfterFirst(rest)) = Len(rest) - ItemSize(rest)
<1>1. Len(rest) \in Nat /\ Len(rest) >= 1 /\ Len(rest) >= ItemSize(rest)
  BY DEF Fits
<1>2. rest[1] \in 0 .. 255
  <2>1. rest[1] \in Byte
    BY <1>1
  <2> QED
    BY <2>1 DEF Byte
<1>3. ItemSize(rest) \in Nat /\ ItemSize(rest) >= 1
  <2>1. CASE IsLong(rest[1])
    <3>1. 2 \in 1 .. Len(rest)
      BY <1>1, <2>1 DEF Fits
    <3>2. rest[2] \in Byte
      BY <3>1
    <3>3. ItemSize(rest) = 3 + rest[2]
      BY <2>1 DEF ItemSize
    <3>4. \A b \in Byte : 3 + b \in Nat /\ 3 + b >= 1
      BY DEF Byte
    <3> QED
      BY <3>2, <3>3, <3>4
  <2>2. CASE ~IsLong(rest[1])
    <3>1. \A b \in 0 .. 255 : b % 4 \in 0 .. 3
      OBVIOUS
    <3>2. \A c \in 0 .. 3 : <<0, 1, 2, 4>>[c + 1] \in {0, 1, 2, 4}
      <4>1. \A c \in 0 .. 3 : c = 0 \/ c = 1 \/ c = 2 \/ c = 3
        OBVIOUS
      <4> QED
        BY <4>1
    <3>3. DataBytes(rest[1]) \in {0, 1, 2, 4}
      BY <1>2, <3>1, <3>2 DEF DataBytes, SizeCode
    <3> QED
      BY <2>2, <3>3 DEF ItemSize
  <2> QED
    BY <2>1, <2>2
<1> DEFINE k == ItemSize(rest)
<1> HIDE DEF k
<1>4. k \in 1 .. Len(rest)
  BY <1>1, <1>3 DEF k
<1>5. SubSeq(rest, 1, k) \in Seq(Byte) /\ SubSeq(rest, k + 1, Len(rest)) \in Seq(Byte)
  <2>1. \A i \in 1 .. k : i \in 1 .. Len(rest)
    BY <1>1, <1>4
  <2>2. \A i \in k + 1 .. Len(rest) : i \in 1 .. Len(rest)
    BY <1>1, <1>4
  <2> QED
    BY <1>1, <1>4, <2>1, <2>2, SubSeqProperties
<1>6. Len(SubSeq(rest, k + 1, Len(rest))) = Len(rest) - k
  BY <1>1, <1>4, SubSeqProperties
<1> QED
  BY <1>4, <1>5, <1>6 DEF k, FirstItem, AfterFirst

Cuts == [items : Seq(Seq(Byte)), why : {"none", "short", "invalid"}]

LEMMA CutStepType ==
  ASSUME NEW rest \in Seq(Byte), NEW after, Fits(rest) => after \in Cuts
  PROVE  CutStep(rest, after) \in Cuts
<1>1. CASE rest # <<>> /\ Fits(rest) /\ ItemValid(FirstItem(rest))
  <2> DEFINE e == FirstItem(rest)
  <2>1. e \in Seq(Byte) /\ after \in Cuts
    BY <1>1, FirstFacts
  <2> HIDE DEF e
  <2>2. <<e>> \o after.items \in Seq(Seq(Byte))
    BY <2>1 DEF Cuts
  <2>3. [after EXCEPT !.items = <<e>> \o @] \in Cuts
    BY <2>1, <2>2 DEF Cuts
  <2> QED
    BY <1>1, <2>3 DEF CutStep, e
<1>2. CASE ~(rest # <<>> /\ Fits(rest) /\ ItemValid(FirstItem(rest)))
  <2>1. CutStep(rest, after) \in {Found(<<>>, "none"), Found(<<>>, "short"), Found(<<>>, "invalid")}
    BY <1>2 DEF CutStep
  <2>2. <<>> \in Seq(Seq(Byte))
    OBVIOUS
  <2>3. \A why \in {"none", "short", "invalid"} : Found(<<>>, why) \in Cuts
    BY <2>2 DEF Found, Cuts
  <2> QED
    BY <2>1, <2>3
<1> QED
  BY <1>1, <1>2

(* There is a function that obeys the equation on all bytes.                *)
CutFun(f) == f = [rest \in Seq(Byte) |-> CutStep(rest, f[AfterFirst(rest)])]

LEMMA CutFunExists == \E f : CutFun(f)
<1> DEFINE G == [rest \in Seq(Byte) |->
                    [f \in Results(Byte, Cuts) |-> CutStep(rest, f[AfterFirst(rest)])]]
<1>1. ASSUME NEW rest \in Seq(Byte), NEW f \in Results(Byte, Cuts)
      PROVE  G[rest][f] = CutStep(rest, f[AfterFirst(rest)]) /\ G[rest][f] \in Cuts
  <2>1. Fits(rest) => f[AfterFirst(rest)] \in Cuts
    BY FirstFacts DEF Results
  <2> QED
    BY <2>1, CutStepType
<1>2. ASSUME NEW rest \in Seq(Byte), NEW f \in Results(Byte, Cuts), NEW g \in Results(Byte, Cuts),
             \A u \in Seq(Byte) : Len(u) < Len(rest) => f[u] = g[u]
      PROVE  G[rest][f] = G[rest][g]
  <2>1. CASE Fits(rest)
    <3>1. AfterFirst(rest) \in Seq(Byte) /\ Len(AfterFirst(rest)) < Len(rest)
      BY <2>1, FirstFacts
    <3>2. f[AfterFirst(rest)] = g[AfterFirst(rest)]
      BY <1>2, <3>1
    <3> HIDE DEF G
    <3> QED
      BY <1>1, <3>2
  <2>2. CASE ~Fits(rest)
    <3>1. \A a, b : CutStep(rest, a) = CutStep(rest, b)
      BY <2>2 DEF CutStep
    <3> HIDE DEF G
    <3> QED
      BY <1>1, <3>1
  <2> QED
    BY <2>1, <2>2
<1> HIDE DEF G
<1>3. NeedsShorter(G, Byte, Cuts)
  BY <1>1, <1>2 DEF NeedsShorter
<1>4. Cuts # {}
  <2>1. [items |-> <<>>, why |-> "none"] \in Cuts
    BY DEF Cuts
  <2> QED
    BY <2>1
<1>5. PICK f \in Results(Byte, Cuts) : \A rest \in Seq(Byte) : f[rest] = G[rest][f]
  BY <1>3, <1>4, ShorterRecursion
<1>6. f = [rest \in Seq(Byte) |-> CutStep(rest, f[AfterFirst(rest)])]
  BY <1>1, <1>5 DEF Results
<1> QED
  BY <1>6 DEF CutFun

LEMMA CutDef == \A rest \in Seq(Byte) : Cut(rest) = CutStep(rest, Cut(AfterFirst(rest)))
<1> DEFINE cut == CHOOSE f : CutFun(f)
<1>1. CutFun(cut)
  BY CutFunExists
<1>2. \A bytes : Cut(bytes) = cut[bytes]
  BY Zenon DEF Cut, CutFun, CutStep, FirstItem, AfterFirst
<1> HIDE DEF cut
<1> QED
  BY <1>1, <1>2 DEF CutFun

(* The items it finds are bytes.                                            *)
LEMMA CutType ==
  \A rest \in Seq(Byte) :
      /\ Cut(rest) = [items |-> Cut(rest).items, why |-> Cut(rest).why]
      /\ Cut(rest).items \in Seq(Seq(Byte))
<1> DEFINE S == {k \in Nat : \A rest \in Seq(Byte) : Len(rest) <= k => Cut(rest) \in Cuts}
<1>1. ASSUME NEW rest \in Seq(Byte), Fits(rest) => Cut(AfterFirst(rest)) \in Cuts
      PROVE  Cut(rest) \in Cuts
  <2>1. Cut(rest) = CutStep(rest, Cut(AfterFirst(rest)))
    BY CutDef
  <2> QED
    BY <1>1, <2>1, CutStepType
<1>2. 0 \in S
  <2> SUFFICES ASSUME NEW rest \in Seq(Byte), Len(rest) <= 0 PROVE Cut(rest) \in Cuts
    OBVIOUS
  <2>1. ~Fits(rest)
    BY DEF Fits
  <2> QED
    BY <1>1, <2>1
<1>3. ASSUME NEW k \in Nat, k \in S PROVE k + 1 \in S
  <2> SUFFICES ASSUME NEW rest \in Seq(Byte), Len(rest) <= k + 1 PROVE Cut(rest) \in Cuts
    OBVIOUS
  <2>1. Fits(rest) => AfterFirst(rest) \in Seq(Byte) /\ Len(AfterFirst(rest)) <= k
    BY FirstFacts
  <2> QED
    BY <1>1, <1>3, <2>1
<1>4. \A k \in Nat : k \in S
  <2> HIDE DEF S
  <2> QED
    BY <1>2, <1>3, NumberInduction
<1>5. \A rest \in Seq(Byte) : Cut(rest) \in Cuts
  BY <1>4
<1> QED
  BY <1>5 DEF Cuts

------------------------------------------------------------------------------
(* Sequences, whatever their elements are.                                  *)
LEMMA SeqGrows ==
  ASSUME NEW S, NEW T, S \subseteq T
  PROVE  \A s \in Seq(S) : s \in Seq(T)
OBVIOUS

LEMMA ConcatIsSeq ==
  ASSUME NEW a, IsSeq(a), NEW b, IsSeq(b)
  PROVE  /\ IsSeq(a \o b) /\ Len(a \o b) = Len(a) + Len(b)
         /\ \A i \in DOMAIN a : (a \o b)[i] = a[i]
<1> DEFINE S == {a[i] : i \in DOMAIN a} \cup {b[i] : i \in DOMAIN b}
<1>1. a \in Seq({a[i] : i \in DOMAIN a}) /\ b \in Seq({b[i] : i \in DOMAIN b})
  BY DEF IsSeq
<1>2. a \in Seq(S) /\ b \in Seq(S)
  <2> DEFINE A == {a[i] : i \in DOMAIN a}
             B == {b[i] : i \in DOMAIN b}
  <2>1. A \subseteq S /\ B \subseteq S
    OBVIOUS
  <2>2. a \in Seq(A) /\ b \in Seq(B)
    BY <1>1
  <2> HIDE DEF A, B, S
  <2> QED
    BY <2>1, <2>2, SeqGrows
<1> HIDE DEF S
<1>3. a \o b \in Seq(S)
  BY <1>2
<1>4. IsSeq(a \o b)
  BY <1>3, SeqIsSeq
<1> QED
  BY <1>2, <1>4

LEMMA ConcatAssoc ==
  ASSUME NEW a, IsSeq(a), NEW b, IsSeq(b), NEW c, IsSeq(c)
  PROVE  (a \o b) \o c = a \o (b \o c)
<1> DEFINE A == {a[i] : i \in DOMAIN a}
           B == {b[i] : i \in DOMAIN b}
           C == {c[i] : i \in DOMAIN c}
           S == A \cup B \cup C
<1>1. a \in Seq(A) /\ b \in Seq(B) /\ c \in Seq(C)
  BY DEF IsSeq
<1>2. A \subseteq S /\ B \subseteq S /\ C \subseteq S
  OBVIOUS
<1> HIDE DEF A, B, C, S
<1>3. a \in Seq(S) /\ b \in Seq(S) /\ c \in Seq(S)
  BY <1>1, <1>2, SeqGrows
<1> QED
  BY <1>3

LEMMA ConcatEmpty == ASSUME NEW a, IsSeq(a) PROVE a \o <<>> = a /\ <<>> \o a = a
<1> DEFINE A == {a[i] : i \in DOMAIN a}
<1>1. a \in Seq(A)
  BY DEF IsSeq
<1> HIDE DEF A
<1> QED
  BY <1>1

LEMMA ShortSeqs == IsSeq(<<>>) /\ \A x : IsSeq(<<x>>)
<1>1. <<>> \in Seq({}) /\ \A x : <<x>> \in Seq({x})
  OBVIOUS
<1> QED
  BY <1>1, SeqIsSeq

(* What comes of each child, one after the other.                           *)
JoinFun(f, parts, n) ==
    f = [i \in 0 .. n |-> IF i = 0 THEN <<>> ELSE f[i - 1] \o parts[i]]

LEMMA JoinFunExists ==
  ASSUME NEW parts, NEW n \in Nat
  PROVE  \E f : JoinFun(f, parts, n)
<1> DEFINE S == {m \in Nat : \E f : JoinFun(f, parts, m)}
<1>1. 0 \in S
  <2> DEFINE f == [k \in 0 .. 0 |-> <<>>]
  <2>1. JoinFun(f, parts, 0)
    BY DEF JoinFun
  <2> QED
    BY <2>1
<1>2. ASSUME NEW m \in Nat, m \in S PROVE m + 1 \in S
  <2>1. PICK f : JoinFun(f, parts, m)
    BY <1>2
  <2> DEFINE g == [k \in 0 .. m + 1 |-> IF k = m + 1 THEN f[m] \o parts[m + 1] ELSE f[k]]
             h == [k \in 0 .. m + 1 |-> IF k = 0 THEN <<>> ELSE g[k - 1] \o parts[k]]
  <2>2. ASSUME NEW k \in 0 .. m + 1 PROVE g[k] = h[k]
    <3>1. CASE k = m + 1
      <4>1. k # 0 /\ k - 1 = m /\ m \in 0 .. m + 1 /\ m # m + 1
        BY <3>1
      <4> QED
        BY <3>1, <4>1
    <3>2. CASE k # m + 1
      <4>1. k \in 0 .. m /\ (k = 0 \/ (k - 1 \in 0 .. m + 1 /\ k - 1 # m + 1))
        BY <3>2
      <4>2. f[k] = IF k = 0 THEN <<>> ELSE f[k - 1] \o parts[k]
        BY <2>1, <4>1 DEF JoinFun
      <4> QED
        BY <3>2, <4>1, <4>2
    <3> QED
      BY <3>1, <3>2
  <2>3. g = h
    BY <2>2
  <2>4. JoinFun(g, parts, m + 1)
    BY <2>3 DEF JoinFun
  <2> HIDE DEF g, h
  <2>5. m + 1 \in Nat
    OBVIOUS
  <2> QED
    BY <2>4, <2>5, Zenon
<1>3. n \in S
  <2> HIDE DEF S
  <2> QED
    BY <1>1, <1>2, NumberInduction
<1> QED
  BY <1>3

JoinedBy(f, parts, n) ==
    /\ Joined(parts, n) = f[n]
    /\ f[0] = <<>>
    /\ \A m \in 1 .. n : f[m] = f[m - 1] \o parts[m]
LEMMA JoinedIs ==
  ASSUME NEW parts, NEW n \in Nat
  PROVE  \E f : JoinedBy(f, parts, n)
<1> DEFINE f == CHOOSE g : JoinFun(g, parts, n)
<1>1. JoinFun(f, parts, n)
  BY JoinFunExists
<1>2. Joined(parts, n) = f[n]
  BY Zenon DEF Joined, JoinFun
<1> HIDE DEF f
<1>3. f[0] = <<>>
  BY <1>1 DEF JoinFun
<1>4. ASSUME NEW m \in 1 .. n PROVE f[m] = f[m - 1] \o parts[m]
  <2>1. m \in 0 .. n /\ m # 0
    OBVIOUS
  <2> QED
    BY <1>1, <2>1 DEF JoinFun
<1> QED
  BY <1>2, <1>3, <1>4 DEF JoinedBy

LEMMA JoinedNext ==
  ASSUME NEW parts
  PROVE  /\ Joined(parts, 0) = <<>>
         /\ \A n \in Nat : Joined(parts, n + 1) = Joined(parts, n) \o parts[n + 1]
<1>1. Joined(parts, 0) = <<>>
  <2>1. PICK f : JoinedBy(f, parts, 0)
    BY JoinedIs
  <2> QED
    BY <2>1 DEF JoinedBy
<1>2. ASSUME NEW n \in Nat PROVE Joined(parts, n + 1) = Joined(parts, n) \o parts[n + 1]
  <2>1. PICK f : JoinedBy(f, parts, n)
    BY JoinedIs
  <2>2. PICK g : JoinedBy(g, parts, n + 1)
    BY JoinedIs
  <2> DEFINE K == {m \in Nat : m <= n => f[m] = g[m]}
  <2>3. 0 \in K
    BY <2>1, <2>2 DEF JoinedBy
  <2>4. ASSUME NEW m \in Nat, m \in K PROVE m + 1 \in K
    <3> SUFFICES ASSUME m + 1 <= n PROVE f[m + 1] = g[m + 1]
      OBVIOUS
    <3>1. m + 1 \in 1 .. n /\ m + 1 \in 1 .. n + 1 /\ (m + 1) - 1 = m /\ m <= n
      OBVIOUS
    <3>2. f[m] = g[m]
      BY <2>4, <3>1
    <3>3. f[m + 1] = f[(m + 1) - 1] \o parts[m + 1]
      BY <2>1, <3>1 DEF JoinedBy
    <3>4. g[m + 1] = g[(m + 1) - 1] \o parts[m + 1]
      BY <2>2, <3>1 DEF JoinedBy
    <3> QED
      BY <3>1, <3>2, <3>3, <3>4
  <2> HIDE DEF K
  <2>5. n \in K
    BY <2>3, <2>4, NumberInduction
  <2>6. f[n] = g[n]
    BY <2>5 DEF K
  <2>7. n + 1 \in 1 .. n + 1 /\ (n + 1) - 1 = n
    OBVIOUS
  <2>8. g[n + 1] = g[(n + 1) - 1] \o parts[n + 1]
    BY <2>2, <2>7 DEF JoinedBy
  <2>9. Joined(parts, n) = f[n] /\ Joined(parts, n + 1) = g[n + 1]
    BY <2>1, <2>2 DEF JoinedBy
  <2> QED
    BY <2>6, <2>7, <2>8, <2>9
<1> QED
  BY <1>1, <1>2

LEMMA JoinedSame ==
  ASSUME NEW p, NEW q, NEW n \in Nat, \A i \in 1 .. n : p[i] = q[i]
  PROVE  Joined(p, n) = Joined(q, n)
<1> DEFINE K == {m \in Nat : m <= n => Joined(p, m) = Joined(q, m)}
<1>1. 0 \in K
  BY JoinedNext
<1>2. ASSUME NEW m \in Nat, m \in K PROVE m + 1 \in K
  <2> SUFFICES ASSUME m + 1 <= n PROVE Joined(p, m + 1) = Joined(q, m + 1)
    OBVIOUS
  <2>1. m + 1 \in 1 .. n /\ m <= n
    OBVIOUS
  <2>2. Joined(p, m) = Joined(q, m) /\ p[m + 1] = q[m + 1]
    BY <1>2, <2>1
  <2> QED
    BY <2>2, JoinedNext
<1> HIDE DEF K
<1>3. n \in K
  BY <1>1, <1>2, NumberInduction
<1> QED
  BY <1>3 DEF K

LEMMA JoinedIsSeq ==
  ASSUME NEW p, NEW n \in Nat, \A i \in 1 .. n : IsSeq(p[i])
  PROVE  IsSeq(Joined(p, n))
<1> DEFINE K == {m \in Nat : m <= n => IsSeq(Joined(p, m))}
<1>1. 0 \in K
  BY JoinedNext, ShortSeqs
<1>2. ASSUME NEW m \in Nat, m \in K PROVE m + 1 \in K
  <2> SUFFICES ASSUME m + 1 <= n PROVE IsSeq(Joined(p, m + 1))
    OBVIOUS
  <2>1. m + 1 \in 1 .. n /\ m <= n
    OBVIOUS
  <2>2. IsSeq(Joined(p, m)) /\ IsSeq(p[m + 1])
    BY <1>2, <2>1
  <2>3. IsSeq(Joined(p, m) \o p[m + 1])
    BY <2>2, ConcatIsSeq
  <2> QED
    BY <2>3, JoinedNext
<1> HIDE DEF K
<1>3. n \in K
  BY <1>1, <1>2, NumberInduction
<1> QED
  BY <1>3 DEF K

LEMMA JoinedSplit ==
  ASSUME NEW p, NEW q, NEW n \in Nat, NEW k \in Nat,
         \A i \in 1 .. n + k : IsSeq(p[i]),
         \A i \in 1 .. k : q[i] = p[n + i]
  PROVE  Joined(p, n + k) = Joined(p, n) \o Joined(q, k)
<1> DEFINE K == {m \in Nat : m <= k => Joined(p, n + m) = Joined(p, n) \o Joined(q, m)}
<1>1. \A i \in 1 .. n : i \in 1 .. n + k
  OBVIOUS
<1>2. IsSeq(Joined(p, n))
  BY <1>1, JoinedIsSeq
<1>3. 0 \in K
  <2>1. Joined(q, 0) = <<>> /\ n + 0 = n
    BY JoinedNext
  <2>2. Joined(p, n) \o <<>> = Joined(p, n)
    BY <1>2, ConcatEmpty
  <2> QED
    BY <2>1, <2>2
<1>4. ASSUME NEW m \in Nat, m \in K PROVE m + 1 \in K
  <2> SUFFICES ASSUME m + 1 <= k PROVE Joined(p, n + (m + 1)) = Joined(p, n) \o Joined(q, m + 1)
    OBVIOUS
  <2>1. /\ m + 1 \in 1 .. k /\ m <= k /\ n + (m + 1) = (n + m) + 1 /\ n + m \in Nat
        /\ n + (m + 1) \in 1 .. n + k
    OBVIOUS
  <2>2. Joined(p, (n + m) + 1) = Joined(p, n + m) \o p[(n + m) + 1]
    BY <2>1, JoinedNext
  <2>3. Joined(q, m + 1) = Joined(q, m) \o q[m + 1]
    BY JoinedNext
  <2>4. q[m + 1] = p[(n + m) + 1]
    BY <2>1
  <2>5. Joined(p, n + m) = Joined(p, n) \o Joined(q, m)
    BY <1>4, <2>1
  <2>6. IsSeq(q[m + 1])
    BY <2>1, <2>4
  <2>7. IsSeq(Joined(q, m))
    <3>1. ASSUME NEW i \in 1 .. m PROVE IsSeq(q[i])
      <4>1. i \in 1 .. k /\ n + i \in 1 .. n + k
        BY <2>1
      <4> QED
        BY <4>1
    <3> QED
      BY <3>1, JoinedIsSeq
  <2>8. (Joined(p, n) \o Joined(q, m)) \o q[m + 1] = Joined(p, n) \o (Joined(q, m) \o q[m + 1])
    <3> DEFINE a == Joined(p, n)
               b == Joined(q, m)
               c == q[m + 1]
    <3>1. IsSeq(a) /\ IsSeq(b) /\ IsSeq(c)
      BY <1>2, <2>6, <2>7
    <3> HIDE DEF a, b, c
    <3>2. (a \o b) \o c = a \o (b \o c)
      BY <3>1, ConcatAssoc
    <3> QED
      BY <3>2 DEF a, b, c
  <2> QED
    BY <2>1, <2>2, <2>3, <2>4, <2>5, <2>8
<1> HIDE DEF K
<1>5. k \in K
  BY <1>3, <1>4, NumberInduction
<1> QED
  BY <1>5 DEF K

------------------------------------------------------------------------------
(* What is inside an element: a recursive function, since the children come *)
(* after their parent.                                                      *)
Kids(t, e) == t[e].kids
FallsAt(t, e) ==
    /\ Kids(t, e) \in Seq(DOMAIN t)
    /\ Len(Kids(t, e)) \in Nat /\ DOMAIN Kids(t, e) = 1 .. Len(Kids(t, e))
    /\ \A i \in DOMAIN Kids(t, e) :
          Kids(t, e)[i] \in DOMAIN t /\ Kids(t, e)[i] \in e + 1 .. Len(t)
Falls(t) ==
    /\ Len(t) \in Nat /\ DOMAIN t = 1 .. Len(t) /\ 1 \in DOMAIN t
    /\ \A e \in DOMAIN t : FallsAt(t, e)

LEMMA FallingKids ==
  ASSUME NEW t, Falls(t), NEW e \in DOMAIN t
  PROVE  /\ Len(Kids(t, e)) \in Nat /\ DOMAIN Kids(t, e) = 1 .. Len(Kids(t, e))
         /\ \A i \in DOMAIN Kids(t, e) :
               Kids(t, e)[i] \in DOMAIN t /\ Kids(t, e)[i] \in e + 1 .. Len(t)
  BY DEF Falls, FallsAt

LEMMA OfKidsSame ==
  ASSUME NEW t, NEW e, NEW p, NEW q, Len(Kids(t, e)) \in Nat,
         DOMAIN Kids(t, e) = 1 .. Len(Kids(t, e)),
         \A i \in DOMAIN Kids(t, e) : p[Kids(t, e)[i]] = q[Kids(t, e)[i]]
  PROVE  OfKids(t, e, p) = OfKids(t, e, q)
<1> DEFINE P == [i \in DOMAIN t[e].kids |-> p[t[e].kids[i]]]
           Q == [i \in DOMAIN t[e].kids |-> q[t[e].kids[i]]]
<1>1. P = Q
  BY DEF Kids
<1> QED
  BY <1>1 DEF OfKids

PartsBy(f, t, open) == [k \in DOMAIN t |-> NodeItems(t, open, k, f[k])]
IsInside(f, t, open) == f = [e \in DOMAIN t |-> OfKids(t, e, PartsBy(f, t, open))]
Inside(t, open) == CHOOSE f : IsInside(f, t, open)
Part(t, open, k) == NodeItems(t, open, k, Inside(t, open)[k])
RowOf(t, open, e) == [i \in DOMAIN Kids(t, e) |-> Part(t, open, Kids(t, e)[i])]

(* Defined from e on.                                                       *)
InsideFrom(f, t, open, m) ==
    /\ f = [e \in DOMAIN t |-> f[e]]
    /\ \A e \in DOMAIN t : e >= m => f[e] = OfKids(t, e, PartsBy(f, t, open))

LEMMA InsideExists ==
  ASSUME NEW t, Falls(t), NEW open
  PROVE  \E f : IsInside(f, t, open)
<1> DEFINE n == Len(t)
           K == {j \in Nat : j <= n => \E f : InsideFrom(f, t, open, (n + 1) - j)}
<1>1. n \in Nat /\ DOMAIN t = 1 .. n
  BY DEF Falls
<1>2. 0 \in K
  <2> DEFINE f == [e \in DOMAIN t |-> <<>>]
  <2>1. InsideFrom(f, t, open, (n + 1) - 0)
    BY <1>1 DEF InsideFrom
  <2> QED
    BY <2>1
<1>3. ASSUME NEW j \in Nat, j \in K PROVE j + 1 \in K
  <2> SUFFICES ASSUME j + 1 <= n PROVE \E f : InsideFrom(f, t, open, (n + 1) - (j + 1))
    OBVIOUS
  <2>1. j <= n /\ (n + 1) - (j + 1) = n - j /\ (n + 1) - j = (n - j) + 1 /\ n - j \in DOMAIN t
    BY <1>1
  <2>2. PICK f : InsideFrom(f, t, open, (n + 1) - j)
    BY <1>3, <2>1
  <2> DEFINE m == n - j
             x == OfKids(t, m, PartsBy(f, t, open))
             g == [f EXCEPT ![m] = x]
  <2>3. /\ f = [e \in DOMAIN t |-> f[e]]
        /\ \A e \in DOMAIN t : e >= m + 1 => f[e] = OfKids(t, e, PartsBy(f, t, open))
    BY <2>1, <2>2 DEF InsideFrom
  <2> HIDE DEF x
  <2>4. /\ g = [e \in DOMAIN t |-> g[e]]
        /\ g[m] = x /\ \A e \in DOMAIN t : e # m => g[e] = f[e]
    BY <2>1, <2>3
  <2> HIDE DEF g
  <2>5. ASSUME NEW e \in DOMAIN t, e >= m
        PROVE  OfKids(t, e, PartsBy(g, t, open)) = OfKids(t, e, PartsBy(f, t, open))
    <3> DEFINE P == PartsBy(g, t, open)
               Q == PartsBy(f, t, open)
    <3>1. /\ Len(Kids(t, e)) \in Nat /\ DOMAIN Kids(t, e) = 1 .. Len(Kids(t, e))
          /\ \A i \in DOMAIN Kids(t, e) :
                Kids(t, e)[i] \in DOMAIN t /\ Kids(t, e)[i] \in e + 1 .. n
      BY FallingKids
    <3>2. ASSUME NEW i \in DOMAIN Kids(t, e) PROVE P[Kids(t, e)[i]] = Q[Kids(t, e)[i]]
      <4>1. g[Kids(t, e)[i]] = f[Kids(t, e)[i]]
        BY <1>1, <2>1, <2>4, <2>5, <3>1
      <4> QED
        BY <3>1, <4>1 DEF PartsBy
    <3> HIDE DEF P, Q
    <3>3. OfKids(t, e, P) = OfKids(t, e, Q)
      BY <3>1, <3>2, OfKidsSame
    <3> QED
      BY <3>3 DEF P, Q
  <2>6. ASSUME NEW e \in DOMAIN t, e >= m
        PROVE  g[e] = OfKids(t, e, PartsBy(g, t, open))
    <3>1. CASE e = m
      BY <2>4, <2>5, <2>6, <3>1 DEF x
    <3>2. CASE e # m
      <4>1. e >= m + 1
        BY <1>1, <2>6, <3>2
      <4>2. g[e] = f[e] /\ f[e] = OfKids(t, e, PartsBy(f, t, open))
        BY <2>3, <2>4, <3>2, <4>1
      <4> QED
        BY <2>5, <2>6, <4>2
    <3> QED
      BY <3>1, <3>2
  <2>7. InsideFrom(g, t, open, m)
    BY <2>4, <2>6 DEF InsideFrom
  <2> QED
    BY <2>1, <2>7
<1>4. n \in K
  <2> HIDE DEF K
  <2> QED
    BY <1>1, <1>2, <1>3, NumberInduction
<1>5. PICK f : InsideFrom(f, t, open, (n + 1) - n)
  BY <1>1, <1>4
<1>6. \A e \in DOMAIN t : e >= 1 /\ (n + 1) - n = 1
  BY <1>1
<1>7. /\ f = [e \in DOMAIN t |-> f[e]]
      /\ \A e \in DOMAIN t : f[e] = OfKids(t, e, PartsBy(f, t, open))
  BY <1>5, <1>6 DEF InsideFrom
<1>8. f = [e \in DOMAIN t |-> OfKids(t, e, PartsBy(f, t, open))]
  BY <1>7
<1> QED
  BY <1>8 DEF IsInside

LEMMA InsideDef ==
  ASSUME NEW t, Falls(t), NEW open
  PROVE  /\ Items(t, open) = Inside(t, open)[1]
         /\ \A e \in DOMAIN t :
               Inside(t, open)[e] = Joined(RowOf(t, open, e), Len(Kids(t, e)))
<1> DEFINE f == Inside(t, open)
<1>1. IsInside(f, t, open)
  BY InsideExists DEF Inside
<1>2. Items(t, open) = f[1]
  BY Zenon DEF Items, Inside, IsInside, PartsBy
<1> HIDE DEF f
<1>3. ASSUME NEW e \in DOMAIN t PROVE f[e] = Joined(RowOf(t, open, e), Len(Kids(t, e)))
  <2> DEFINE P == [i \in DOMAIN t[e].kids |-> PartsBy(f, t, open)[t[e].kids[i]]]
  <2>1. f[e] = OfKids(t, e, PartsBy(f, t, open))
    BY <1>1 DEF IsInside
  <2>2. f[e] = Joined(P, Len(t[e].kids))
    BY <2>1 DEF OfKids
  <2>3. \A i \in DOMAIN t[e].kids : t[e].kids[i] \in DOMAIN t
    BY FallingKids DEF Kids
  <2>4. P = RowOf(t, open, e)
    BY <2>3 DEF PartsBy, RowOf, Part, Kids, f
  <2> QED
    BY <2>2, <2>4 DEF Kids
<1> QED
  BY <1>2, <1>3 DEF f

LEMMA DownInduction ==
  ASSUME NEW t, Falls(t), NEW K,
         \A e \in DOMAIN t : (\A i \in DOMAIN Kids(t, e) : Kids(t, e)[i] \in K) => e \in K
  PROVE  \A e \in DOMAIN t : e \in K
<1> DEFINE n == Len(t)
           M == {j \in Nat : \A e \in DOMAIN t : e > n - j => e \in K}
<1>1. n \in Nat /\ DOMAIN t = 1 .. n
  BY DEF Falls
<1>2. 0 \in M
  BY <1>1
<1>3. ASSUME NEW j \in Nat, j \in M PROVE j + 1 \in M
  <2> SUFFICES ASSUME NEW e \in DOMAIN t, e > n - (j + 1) PROVE e \in K
    OBVIOUS
  <2>1. ASSUME NEW i \in DOMAIN Kids(t, e) PROVE Kids(t, e)[i] \in K
    <3>1. Kids(t, e)[i] \in DOMAIN t /\ Kids(t, e)[i] \in e + 1 .. n
      BY FallingKids
    <3>2. Kids(t, e)[i] > n - j
      BY <1>1, <3>1
    <3> QED
      BY <1>3, <3>1, <3>2
  <2> QED
    BY <2>1
<1> HIDE DEF M
<1>4. n \in M
  BY <1>1, <1>2, <1>3, NumberInduction
<1> QED
  BY <1>1, <1>4 DEF M

LEMMA PartIsSeq ==
  ASSUME NEW t, NEW open, NEW k, NEW x, IsSeq(x)
  PROVE  IsSeq(NodeItems(t, open, k, x))
<1>1. CASE t[k].name = "text"
  BY <1>1, ShortSeqs DEF NodeItems
<1>2. CASE t[k].name # "text" /\ t[k].name \notin GroupNames
  BY <1>2, ShortSeqs DEF NodeItems
<1>3. CASE t[k].name # "text" /\ t[k].name \in GroupNames
  <2> DEFINE a == <<StartItem(t[k])>>
             b == IF k \in open THEN <<>> ELSE <<EndItem(t[k])>>
  <2>1. IsSeq(a) /\ IsSeq(b)
    BY ShortSeqs
  <2>2. NodeItems(t, open, k, x) = a \o x \o b
    BY <1>3 DEF NodeItems
  <2> HIDE DEF a, b
  <2>3. IsSeq(a \o x)
    BY <2>1, ConcatIsSeq
  <2>4. IsSeq(a \o x \o b)
    BY <2>1, <2>3, ConcatIsSeq
  <2> QED
    BY <2>2, <2>4
<1> QED
  BY <1>1, <1>2, <1>3

LEMMA InsideIsSeq ==
  ASSUME NEW t, Falls(t), NEW open
  PROVE  \A e \in DOMAIN t : IsSeq(Inside(t, open)[e]) /\ IsSeq(Part(t, open, e))
<1> DEFINE K == {e \in DOMAIN t : IsSeq(Inside(t, open)[e])}
<1>1. ASSUME NEW e \in DOMAIN t, \A i \in DOMAIN Kids(t, e) : Kids(t, e)[i] \in K
      PROVE  e \in K
  <2> DEFINE n == Len(Kids(t, e))
             R == RowOf(t, open, e)
  <2>1. n \in Nat /\ DOMAIN Kids(t, e) = 1 .. n
    BY FallingKids
  <2>2. ASSUME NEW i \in 1 .. n PROVE IsSeq(R[i])
    <3>1. IsSeq(Inside(t, open)[Kids(t, e)[i]])
      BY <1>1, <2>1
    <3>2. IsSeq(Part(t, open, Kids(t, e)[i]))
      BY <3>1, PartIsSeq DEF Part
    <3> QED
      BY <2>1, <3>2 DEF RowOf
  <2> HIDE DEF R
  <2>3. IsSeq(Joined(R, n))
    BY <2>1, <2>2, JoinedIsSeq
  <2> QED
    BY <2>3, InsideDef DEF R
<1> HIDE DEF K
<1>2. \A e \in DOMAIN t : e \in K
  BY <1>1, DownInduction
<1>3. \A e \in DOMAIN t : IsSeq(Inside(t, open)[e])
  BY <1>2 DEF K
<1> QED
  BY <1>3, PartIsSeq DEF Part

LEMMA RowIsSeqs ==
  ASSUME NEW t, Falls(t), NEW open, NEW e \in DOMAIN t
  PROVE  /\ \A i \in 1 .. Len(Kids(t, e)) : IsSeq(RowOf(t, open, e)[i])
         /\ \A i \in 1 .. Len(Kids(t, e)) : RowOf(t, open, e)[i] = Part(t, open, Kids(t, e)[i])
<1>1. /\ DOMAIN Kids(t, e) = 1 .. Len(Kids(t, e))
      /\ \A i \in DOMAIN Kids(t, e) : Kids(t, e)[i] \in DOMAIN t
  BY FallingKids
<1>2. \A i \in 1 .. Len(Kids(t, e)) : RowOf(t, open, e)[i] = Part(t, open, Kids(t, e)[i])
  BY <1>1 DEF RowOf
<1> QED
  BY <1>1, <1>2, InsideIsSeq

------------------------------------------------------------------------------
(* What the items mean, one more after them.                                *)
LEMMA MeaningAppend ==
  ASSUME NEW s, IsSeq(s), NEW x
  PROVE  Meaning(Append(s, x)) = Append(Meaning(s), Resolve(x, Head(PagesAt(s)[Len(s)])))
<1> DEFINE r == Append(s, x)
           n == Len(s)
           R(i) == Resolve(s[i], Head(PagesAt(s)[i - 1]))
           y == Resolve(x, Head(PagesAt(s)[n]))
           S == {R(i) : i \in 1 .. n} \cup {y}
           m == Meaning(s)
<1>1. /\ DOMAIN s = 1 .. n /\ n \in Nat /\ DOMAIN r = 1 .. n + 1
      /\ \A i \in 1 .. n : r[i] = s[i]
      /\ r[n + 1] = x
  BY AppendedTo
<1>2. \A i \in 0 .. n : PagesAt(r)[i] = PagesAt(s)[i]
  BY PagesAtAppend
<1> HIDE DEF r
<1>3. Meaning(r) = [i \in 1 .. n + 1 |-> Resolve(r[i], Head(PagesAt(r)[i - 1]))]
  BY <1>1 DEF Meaning
<1>4. m = [i \in 1 .. n |-> R(i)]
  BY <1>1 DEF Meaning
<1> HIDE DEF m
<1>5. ASSUME NEW i \in 1 .. n PROVE Resolve(r[i], Head(PagesAt(r)[i - 1])) = R(i)
  <2>1. i - 1 \in 0 .. n
    BY <1>1
  <2> QED
    BY <1>1, <1>2, <2>1
<1>6. Resolve(r[n + 1], Head(PagesAt(r)[(n + 1) - 1])) = y
  <2>1. (n + 1) - 1 = n /\ n \in 0 .. n
    BY <1>1
  <2> QED
    BY <1>1, <1>2, <2>1
<1> HIDE DEF R, y
<1>7. /\ m \in Seq(S) /\ y \in S /\ Len(m) = n
      /\ \A i \in 1 .. n : m[i] = R(i)
  <2>1. y \in S /\ \A i \in 1 .. n : R(i) \in S
    OBVIOUS
  <2> HIDE DEF S
  <2> QED
    BY <1>1, <1>4, <2>1
<1> HIDE DEF S
<1>8. Append(m, y) = [i \in 1 .. n + 1 |-> IF i <= n THEN m[i] ELSE y]
  BY <1>7, AppendedIs
<1>9. ASSUME NEW i \in 1 .. n + 1
      PROVE  Resolve(r[i], Head(PagesAt(r)[i - 1])) = IF i <= n THEN m[i] ELSE y
  <2>1. CASE i = n + 1
    <3>1. ~(i <= n)
      BY <1>1, <2>1
    <3> QED
      BY <1>6, <2>1, <3>1
  <2>2. CASE i # n + 1
    <3>1. i \in 1 .. n /\ i <= n
      BY <1>1, <2>2
    <3> QED
      BY <1>5, <1>7, <3>1
  <2> QED
    BY <2>1, <2>2
<1>10. Meaning(r) = [i \in 1 .. n + 1 |-> IF i <= n THEN m[i] ELSE y]
  BY <1>3, <1>9
<1> QED
  BY <1>8, <1>10 DEF r, y, m

LEMMA OneMore ==
  ASSUME NEW s, IsSeq(s), NEW x
  PROVE  s \o <<x>> = Append(s, x)
<1> DEFINE S == {s[i] : i \in DOMAIN s} \cup {x}
<1>1. s \in Seq(S) /\ x \in S
  BY DEF IsSeq
<1> QED
  BY <1>1

------------------------------------------------------------------------------
(* A walk through a document: what comes of the children of p from the k-th *)
(* on.                                                                      *)
Remaining(t, p, k) == [i \in 1 .. (Len(Kids(t, p)) + 1) - k |-> RowOf(t, {}, p)[(k - 1) + i]]
From(t, p, k) == Joined(Remaining(t, p, k), (Len(Kids(t, p)) + 1) - k)

LEMMA FromStep ==
  ASSUME NEW t, Falls(t), NEW p \in DOMAIN t, NEW k \in 1 .. Len(Kids(t, p))
  PROVE  /\ From(t, p, k) = Part(t, {}, Kids(t, p)[k]) \o From(t, p, k + 1)
         /\ IsSeq(From(t, p, k)) /\ IsSeq(From(t, p, k + 1)) /\ IsSeq(Part(t, {}, Kids(t, p)[k]))
<1> DEFINE n == Len(Kids(t, p))
           R == RowOf(t, {}, p)
           a == Remaining(t, p, k)
           b == Remaining(t, p, k + 1)
           m == n - k
<1>1. n \in Nat /\ k \in 1 .. n /\ DOMAIN Kids(t, p) = 1 .. n
  BY FallingKids
<1>2. /\ \A i \in 1 .. n : IsSeq(R[i])
      /\ \A i \in 1 .. n : R[i] = Part(t, {}, Kids(t, p)[i])
  BY RowIsSeqs
<1>3. /\ \A i \in 1 .. (n + 1) - k : a[i] = R[(k - 1) + i]
      /\ \A i \in 1 .. (n + 1) - (k + 1) : b[i] = R[((k + 1) - 1) + i]
  BY DEF Remaining
<1>4. From(t, p, k) = Joined(a, (n + 1) - k) /\ From(t, p, k + 1) = Joined(b, (n + 1) - (k + 1))
  BY DEF From
<1> HIDE DEF a, b, R, n
<1>5. /\ m \in Nat /\ 1 + m = (n + 1) - k /\ m = (n + 1) - (k + 1)
      /\ 1 \in 1 .. 1 + m /\ (k - 1) + 1 = k
  BY <1>1
<1>6. ASSUME NEW i \in 1 .. 1 + m PROVE IsSeq(a[i])
  <2>1. (k - 1) + i \in 1 .. n /\ i \in 1 .. (n + 1) - k
    BY <1>1
  <2> QED
    BY <1>2, <1>3, <2>1
<1>7. ASSUME NEW i \in 1 .. m PROVE b[i] = a[1 + i]
  <2>1. 1 + i \in 1 .. (n + 1) - k /\ i \in 1 .. (n + 1) - (k + 1)
        /\ (k - 1) + (1 + i) = ((k + 1) - 1) + i
    BY <1>1
  <2> QED
    BY <1>3, <2>1
<1>8. a[1] = Part(t, {}, Kids(t, p)[k]) /\ IsSeq(a[1])
  <2>1. a[1] = R[(k - 1) + 1]
    BY <1>3, <1>5
  <2> QED
    BY <1>1, <1>2, <1>5, <2>1
<1> HIDE DEF m
<1>9. Joined(a, 1 + m) = Joined(a, 1) \o Joined(b, m)
  <2> DEFINE one == 1
  <2>1. one \in Nat /\ m \in Nat
    BY <1>5
  <2>2. \A i \in 1 .. one + m : IsSeq(a[i])
    BY <1>6
  <2>3. \A i \in 1 .. m : b[i] = a[one + i]
    BY <1>7
  <2> HIDE DEF one
  <2>4. Joined(a, one + m) = Joined(a, one) \o Joined(b, m)
    BY <2>1, <2>2, <2>3, JoinedSplit
  <2> QED
    BY <2>4 DEF one
<1>10. Joined(a, 1) = a[1]
  <2>1. Joined(a, 0 + 1) = Joined(a, 0) \o a[0 + 1] /\ Joined(a, 0) = <<>>
    BY JoinedNext
  <2>2. <<>> \o a[1] = a[1]
    BY <1>8, ConcatEmpty
  <2>3. 0 + 1 = 1
    OBVIOUS
  <2> QED
    BY <2>1, <2>2, <2>3
<1>11. IsSeq(Joined(a, 1 + m))
  BY <1>5, <1>6, JoinedIsSeq
<1>12. IsSeq(Joined(b, m))
  <2>1. ASSUME NEW i \in 1 .. m PROVE IsSeq(b[i])
    <3>1. 1 + i \in 1 .. 1 + m
      BY <1>5
    <3> QED
      BY <1>6, <1>7, <3>1
  <2> QED
    BY <1>5, <2>1, JoinedIsSeq
<1> QED
  BY <1>4, <1>5, <1>8, <1>9, <1>10, <1>11, <1>12

LEMMA FromEnds ==
  ASSUME NEW t, Falls(t), NEW p \in DOMAIN t
  PROVE  /\ From(t, p, 1) = Inside(t, {})[p]
         /\ From(t, p, Len(Kids(t, p)) + 1) = <<>>
<1> DEFINE n == Len(Kids(t, p))
           R == RowOf(t, {}, p)
           a == Remaining(t, p, 1)
<1>1. n \in Nat
  BY FallingKids
<1>2. \A i \in 1 .. (n + 1) - 1 : a[i] = R[(1 - 1) + i]
  BY DEF Remaining
<1>3. From(t, p, 1) = Joined(a, (n + 1) - 1) /\ Inside(t, {})[p] = Joined(R, n)
  BY InsideDef DEF From
<1> HIDE DEF a, R
<1>4. (n + 1) - 1 = n /\ (n + 1) - (n + 1) = 0 /\ \A i \in 1 .. n : (1 - 1) + i = i
  BY <1>1
<1>5. Joined(a, n) = Joined(R, n)
  BY <1>1, <1>2, <1>4, JoinedSame
<1>6. From(t, p, n + 1) = Joined(Remaining(t, p, n + 1), 0)
  BY <1>4 DEF From
<1> QED
  BY <1>3, <1>4, <1>5, <1>6, JoinedNext

(* The document as the walk needs it: children know their parent, there is  *)
(* one of each, and no element but the root is a descriptor.                *)
Walked(t) ==
    /\ Falls(t)
    /\ t[1].name = "descriptor" /\ t[1].up = 0
    /\ \A e \in DOMAIN t : \A i \in DOMAIN Kids(t, e) :
         /\ t[Kids(t, e)[i]].up = e
         /\ t[Kids(t, e)[i]].name # "descriptor"
         /\ \A j \in DOMAIN Kids(t, e) : i # j => Kids(t, e)[i] # Kids(t, e)[j]

(* What comes after the contents of the elements that are entered.          *)
EnteredAt(t, A, f, e) ==
    /\ e \in DOMAIN t /\ IsSeq(f[e])
    /\ e = 1 => f[e] = <<>>
    /\ e # 1 => /\ t[e].name \in GroupNames /\ t[e].up \in A
                /\ \E k \in 1 .. Len(Kids(t, t[e].up)) :
                      /\ Kids(t, t[e].up)[k] = e
                      /\ f[e] = <<EndItem(t[e])>> \o (From(t, t[e].up, k + 1) \o f[t[e].up])
Entered(t, A, f) == \A e \in A : EnteredAt(t, A, f, e)

(* The walk is before the k-th child of p, the node c, or at the end of p,  *)
(* and has come over the items done.                                        *)
Before(t, p, k, c) ==
    /\ k \in 1 .. Len(Kids(t, p)) + 1
    /\ c = IF k = Len(Kids(t, p)) + 1 THEN 0 ELSE Kids(t, p)[k]
Standing(t, p, c, done, A, f, k) ==
    /\ p \in A /\ Entered(t, A, f) /\ Before(t, p, k, c)
    /\ IsSeq(done)
    /\ Items(t, {}) = done \o (From(t, p, k) \o f[p])
ReadTo(t, p, c, done) == \E A, f, k : Standing(t, p, c, done, A, f, k)

NextIn(t, e) ==
    LET sibs == IF e = 1 THEN <<1>> ELSE t[t[e].up].kids
        at == CHOOSE i \in DOMAIN sibs : sibs[i] = e
    IN  IF at < Len(sibs) THEN sibs[at + 1] ELSE 0
FirstIn(t, e) == IF t[e].kids = <<>> THEN 0 ELSE Head(t[e].kids)

LEMMA NextIs ==
  ASSUME NEW t, Walked(t), NEW p \in DOMAIN t, NEW k \in 1 .. Len(Kids(t, p))
  PROVE  Before(t, p, k + 1, NextIn(t, Kids(t, p)[k]))
<1> DEFINE s == Kids(t, p)
           e == s[k]
           at == CHOOSE i \in DOMAIN s : s[i] = e
<1>1. /\ Len(s) \in Nat /\ DOMAIN s = 1 .. Len(s)
      /\ e \in DOMAIN t /\ e \in p + 1 .. Len(t) /\ p \in 1 .. Len(t) /\ Len(t) \in Nat
  BY FallingKids DEF Walked, Falls
<1>2. t[e].up = p /\ \A i, j \in DOMAIN s : i # j => s[i] # s[j]
  BY <1>1 DEF Walked
<1>3. e # 1
  BY <1>1
<1>4. at \in DOMAIN s /\ s[at] = e
  BY <1>1
<1>5. at = k
  BY <1>1, <1>2, <1>4
<1>6. NextIn(t, e) = IF at < Len(s) THEN s[at + 1] ELSE 0
  BY <1>2, <1>3 DEF NextIn, Kids
<1> HIDE DEF at, e
<1>7. k + 1 \in 1 .. Len(s) + 1 /\ (k < Len(s) <=> k + 1 # Len(s) + 1)
  BY <1>1
<1> QED
  BY <1>5, <1>6, <1>7 DEF Before, e

LEMMA FirstIs ==
  ASSUME NEW t, Falls(t), NEW p \in DOMAIN t
  PROVE  Before(t, p, 1, FirstIn(t, p))
<1> DEFINE s == Kids(t, p)
<1>1. Len(s) \in Nat /\ DOMAIN s = 1 .. Len(s) /\ \A i \in DOMAIN s : s[i] \in DOMAIN t
  BY FallingKids
<1>2. FirstIn(t, p) = IF s = <<>> THEN 0 ELSE Head(s)
  BY DEF FirstIn, Kids
<1> HIDE DEF s
<1>3. CASE s = <<>>
  <2>1. Len(s) = 0
    BY <1>3
  <2> QED
    BY <1>2, <1>3, <2>1 DEF Before, s
<1>4. CASE s # <<>>
  <2>1. s \in Seq(DOMAIN t)
    BY DEF s, Falls, FallsAt
  <2>2. Len(s) # 0 /\ Head(s) = s[1] /\ 1 \in 1 .. Len(s) + 1
    BY <1>4, <2>1
  <2> QED
    BY <1>1, <1>2, <1>4, <2>2 DEF Before, s
<1> QED
  BY <1>3, <1>4

LEMMA StandingFacts ==
  ASSUME NEW t, Walked(t), NEW p, NEW c, NEW done, NEW A, NEW f, NEW k,
         Standing(t, p, c, done, A, f, k)
  PROVE  /\ p \in DOMAIN t /\ IsSeq(f[p]) /\ IsSeq(done)
         /\ c # 0 => /\ k \in 1 .. Len(Kids(t, p)) /\ c = Kids(t, p)[k]
                     /\ c \in DOMAIN t /\ c # 1 /\ t[c].up = p /\ t[c].name # "descriptor"
         /\ c = 0 => k = Len(Kids(t, p)) + 1
         /\ IsSeq(From(t, p, k))
<1>1. p \in A /\ EnteredAt(t, A, f, p) /\ Before(t, p, k, c) /\ IsSeq(done)
  BY DEF Standing, Entered
<1>2. p \in DOMAIN t /\ IsSeq(f[p])
  BY <1>1 DEF EnteredAt
<1> DEFINE s == Kids(t, p)
<1>3. /\ Len(s) \in Nat /\ DOMAIN s = 1 .. Len(s) /\ Falls(t)
      /\ \A i \in DOMAIN s : s[i] \in DOMAIN t /\ s[i] \in p + 1 .. Len(t)
  BY <1>2, FallingKids DEF Walked
<1>4. \A i \in DOMAIN s : t[s[i]].up = p /\ t[s[i]].name # "descriptor"
  BY <1>2 DEF Walked
<1>5. p \in 1 .. Len(t) /\ Len(t) \in Nat
  BY <1>2, <1>3 DEF Falls
<1>6. k \in 1 .. Len(s) + 1 /\ c = IF k = Len(s) + 1 THEN 0 ELSE s[k]
  BY <1>1 DEF Before
<1> HIDE DEF s
<1>7. ASSUME k # Len(s) + 1 PROVE k \in 1 .. Len(s) /\ c = s[k] /\ c # 0 /\ c # 1
  <2>1. k \in 1 .. Len(s) /\ c = s[k]
    BY <1>3, <1>6, <1>7
  <2>2. c \in p + 1 .. Len(t)
    BY <1>3, <2>1
  <2> QED
    BY <1>5, <2>1, <2>2
<1>8. IsSeq(From(t, p, k))
  <2>1. CASE k = Len(s) + 1
    <3>1. From(t, p, Len(Kids(t, p)) + 1) = <<>>
      BY <1>2, <1>3, FromEnds
    <3> QED
      BY <2>1, <3>1, ShortSeqs DEF s
  <2>2. CASE k # Len(s) + 1
    <3>1. k \in 1 .. Len(Kids(t, p))
      BY <1>7, <2>2 DEF s
    <3> QED
      BY <1>2, <1>3, <3>1, FromStep
  <2> QED
    BY <2>1, <2>2
<1>9. c # 0 => k # Len(s) + 1
  BY <1>6
<1>10. c = 0 => k = Len(s) + 1
  BY <1>7
<1>11. c # 0 => c \in DOMAIN t /\ t[c].up = p /\ t[c].name # "descriptor"
  BY <1>3, <1>4, <1>7, <1>9
<1> QED
  BY <1>1, <1>2, <1>7, <1>8, <1>9, <1>10, <1>11 DEF s

(* What the position says of the nodes, and that the items done are the     *)
(* first of the document.                                                   *)
LEMMA AtFacts ==
  ASSUME NEW t, Walked(t), NEW p, NEW c, NEW done, ReadTo(t, p, c, done)
  PROVE  /\ p \in DOMAIN t /\ IsSeq(done)
         /\ c # 0 => c \in DOMAIN t /\ c # 1 /\ t[c].up = p /\ t[c].name # "descriptor"
         /\ p # 1 => t[p].name \in GroupNames
         /\ \E rest : IsSeq(rest) /\ Items(t, {}) = done \o rest
<1>1. PICK A, f, k : Standing(t, p, c, done, A, f, k)
  BY DEF ReadTo
<1>2. /\ p \in DOMAIN t /\ IsSeq(f[p]) /\ IsSeq(done) /\ IsSeq(From(t, p, k))
      /\ c # 0 => c \in DOMAIN t /\ c # 1 /\ t[c].up = p /\ t[c].name # "descriptor"
  BY <1>1, StandingFacts
<1>3. IsSeq(From(t, p, k) \o f[p])
  BY <1>2, ConcatIsSeq
<1>4. Items(t, {}) = done \o (From(t, p, k) \o f[p])
  BY <1>1 DEF Standing
<1>5. p # 1 => t[p].name \in GroupNames
  BY <1>1 DEF Standing, Entered, EnteredAt
<1> QED
  BY <1>2, <1>3, <1>4, <1>5

(* Four and five sequences, taken together from the other side.             *)
SameTogether(d, a, b, r) ==
    /\ d \o ((a \o b) \o r) = (d \o a) \o (b \o r)
    /\ d \o (a \o (b \o r)) = (d \o a) \o (b \o r)
LEMMA RegroupedFour ==
  ASSUME NEW d, IsSeq(d), NEW a, IsSeq(a), NEW b, IsSeq(b), NEW r, IsSeq(r)
  PROVE  SameTogether(d, a, b, r)
<1> DEFINE y == b \o r
<1>1. IsSeq(y)
  BY ConcatIsSeq
<1>2. (a \o b) \o r = a \o y
  BY ConcatAssoc, SMTT(30)
<1> HIDE DEF y
<1>3. (d \o a) \o y = d \o (a \o y)
  BY <1>1, ConcatAssoc
<1>4. y = b \o r
  BY DEF y
<1> QED
  BY <1>2, <1>3, <1>4 DEF SameTogether

SameAll(d, s, i, x, b, r) ==
    d \o ((((s \o i) \o x) \o b) \o r) = (d \o s) \o (i \o (x \o (b \o r)))
LEMMA RegroupedMore ==
  ASSUME NEW d, IsSeq(d), NEW s, IsSeq(s), NEW i, IsSeq(i), NEW x, IsSeq(x),
         NEW b, IsSeq(b), NEW r, IsSeq(r)
  PROVE  SameAll(d, s, i, x, b, r)
<1> DEFINE v == s \o i
           y == b \o r
           z == x \o y
           w == v \o x
<1>1. IsSeq(v) /\ IsSeq(y)
  BY ConcatIsSeq
<1>2. w = v \o x /\ z = x \o y /\ y = b \o r /\ v = s \o i
  OBVIOUS
<1> HIDE DEF v, y, z, w
<1>3. IsSeq(w) /\ IsSeq(z)
  BY <1>1, <1>2, ConcatIsSeq
<1>4. (w \o b) \o r = w \o (b \o r)
  BY <1>3, ConcatAssoc, SMTT(30)
<1>5. (v \o x) \o y = v \o (x \o y)
  BY <1>1, ConcatAssoc, SMTT(30)
<1>6. SameTogether(d, s, i, z)
  BY <1>3, RegroupedFour
<1>7. d \o ((s \o i) \o z) = (d \o s) \o (i \o z)
  BY <1>6 DEF SameTogether
<1> QED
  BY <1>2, <1>4, <1>5, <1>7 DEF SameAll

LEMMA WalkStarts ==
  ASSUME NEW t, Walked(t)
  PROVE  ReadTo(t, 1, FirstIn(t, 1), <<>>)
<1> DEFINE A == {1}
           f == [e \in {1} |-> <<>>]
           n == <<>>
<1>1. Falls(t) /\ 1 \in DOMAIN t
  BY DEF Walked, Falls
<1>2. Before(t, 1, 1, FirstIn(t, 1))
  BY <1>1, FirstIs
<1>3. f[1] = n /\ n = <<>> /\ 1 \in A /\ IsSeq(n)
  BY ShortSeqs
<1>4. A = {1}
  OBVIOUS
<1> HIDE DEF f, n, A
<1>5. Entered(t, A, f)
  <2>1. EnteredAt(t, A, f, 1)
    BY <1>1, <1>3 DEF EnteredAt
  <2> QED
    BY <1>4, <2>1 DEF Entered
<1>6. Items(t, {}) = n \o (From(t, 1, 1) \o f[1])
  <2>1. Items(t, {}) = Inside(t, {})[1] /\ From(t, 1, 1) = Inside(t, {})[1]
    BY <1>1, InsideDef, FromEnds
  <2>2. IsSeq(Inside(t, {})[1])
    BY <1>1, InsideIsSeq
  <2> DEFINE s == Inside(t, {})[1]
  <2> HIDE DEF s
  <2>3. s \o <<>> = s /\ <<>> \o s = s
    BY <2>2, ConcatEmpty DEF s
  <2> QED
    BY <1>3, <2>1, <2>3 DEF s
<1>7. Standing(t, 1, FirstIn(t, 1), n, A, f, 1)
  BY <1>2, <1>3, <1>5, <1>6 DEF Standing
<1> QED
  BY <1>3, <1>7 DEF ReadTo

(* A node that is not entered is passed over.                               *)
LEMMA WalkPasses ==
  ASSUME NEW t, Walked(t), NEW p, NEW c, NEW done, ReadTo(t, p, c, done), c # 0
  PROVE  ReadTo(t, p, NextIn(t, c), done \o Part(t, {}, c))
<1>1. PICK A, f, k : Standing(t, p, c, done, A, f, k)
  BY DEF ReadTo
<1>2. /\ p \in DOMAIN t /\ IsSeq(f[p]) /\ IsSeq(done)
      /\ k \in 1 .. Len(Kids(t, p)) /\ c = Kids(t, p)[k]
  BY <1>1, StandingFacts
<1>3. Falls(t)
  BY DEF Walked
<1> DEFINE a == Part(t, {}, c)
           b == From(t, p, k + 1)
           r == f[p]
<1>4. From(t, p, k) = a \o b /\ IsSeq(a) /\ IsSeq(b)
  BY <1>2, <1>3, FromStep
<1>5. Before(t, p, k + 1, NextIn(t, c))
  BY <1>2, NextIs
<1>6. Items(t, {}) = done \o (From(t, p, k) \o r) /\ p \in A /\ Entered(t, A, f) /\ IsSeq(r)
  BY <1>1, <1>2 DEF Standing
<1>7. Items(t, {}) = (done \o a) \o (b \o r) /\ IsSeq(done \o a)
  <2> HIDE DEF a, b, r
  <2>1. IsSeq(done \o a)
    BY <1>2, <1>4, ConcatIsSeq
  <2>2. done \o ((a \o b) \o r) = (done \o a) \o (b \o r)
    <3>1. SameTogether(done, a, b, r)
      BY <1>2, <1>4, <1>6, RegroupedFour
    <3> QED
      BY <3>1 DEF SameTogether
  <2> QED
    BY <1>4, <1>6, <2>1, <2>2
<1>8. Standing(t, p, NextIn(t, c), done \o a, A, f, k + 1)
  BY <1>5, <1>6, <1>7 DEF Standing
<1> QED
  BY <1>8 DEF ReadTo

LEMMA PartIs ==
  ASSUME NEW t, NEW c
  PROVE  /\ t[c].name = "text" => Part(t, {}, c) = <<>>
         /\ t[c].name # "text" /\ t[c].name \notin GroupNames =>
               Part(t, {}, c) = <<ItemOf(t[c], BitsOf(t, c))>>
         /\ t[c].name \in GroupNames =>
               Part(t, {}, c) = <<StartItem(t[c])>> \o Inside(t, {})[c] \o <<EndItem(t[c])>>
<1>1. "text" \notin GroupNames
  BY DEF GroupNames
<1> QED
  BY <1>1 DEF Part, NodeItems

(* A group is entered: its contents come next, then its end.                *)
LEMMA WalkEnters ==
  ASSUME NEW t, Walked(t), NEW p, NEW c, NEW done, ReadTo(t, p, c, done), c # 0,
         t[c].name \in GroupNames
  PROVE  ReadTo(t, c, FirstIn(t, c), done \o <<StartItem(t[c])>>)
<1>1. PICK A, f, k : Standing(t, p, c, done, A, f, k)
  BY DEF ReadTo
<1>2. /\ p \in DOMAIN t /\ IsSeq(f[p]) /\ IsSeq(done)
      /\ k \in 1 .. Len(Kids(t, p)) /\ c = Kids(t, p)[k]
      /\ c \in DOMAIN t /\ c # 1 /\ t[c].up = p
  BY <1>1, StandingFacts
<1>3. Falls(t)
  BY DEF Walked
<1> DEFINE s == <<StartItem(t[c])>>
           x == <<EndItem(t[c])>>
           i == From(t, c, 1)
           b == From(t, p, k + 1)
           r == f[p]
           B == A \cup {c}
           h == x \o (b \o r)
           g == [e \in B |-> IF e \in A THEN f[e] ELSE h]
<1>4. From(t, p, k) = Part(t, {}, c) \o b /\ IsSeq(b)
  BY <1>2, <1>3, FromStep
<1>5. i = Inside(t, {})[c] /\ IsSeq(i) /\ IsSeq(s) /\ IsSeq(x) /\ IsSeq(r)
  BY <1>2, <1>3, FromEnds, InsideIsSeq, ShortSeqs
<1>6. Part(t, {}, c) = (s \o i) \o x
  BY <1>5, PartIs
<1>7. /\ Items(t, {}) = done \o (From(t, p, k) \o r)
      /\ p \in A /\ Entered(t, A, f)
  BY <1>1 DEF Standing
<1>8. /\ Items(t, {}) = (done \o s) \o (i \o h) /\ IsSeq(done \o s) /\ IsSeq(h)
  <2> HIDE DEF s, x, i, b, r
  <2>1. IsSeq(b \o r) /\ IsSeq(done \o s)
    BY <1>2, <1>4, <1>5, ConcatIsSeq
  <2>2. IsSeq(x \o (b \o r))
    BY <1>5, <2>1, ConcatIsSeq
  <2>3. done \o ((((s \o i) \o x) \o b) \o r) = (done \o s) \o (i \o (x \o (b \o r)))
    <3>1. SameAll(done, s, i, x, b, r)
      BY <1>2, <1>4, <1>5, RegroupedMore
    <3> QED
      BY <3>1 DEF SameAll
  <2> QED
    BY <1>4, <1>6, <1>7, <2>1, <2>2, <2>3
<1>9. \A e \in A : g[e] = f[e] /\ e \in B
  OBVIOUS
<1>10. g[c] = h
  <2>1. CASE c \in A
    <3>1. EnteredAt(t, A, f, c)
      BY <1>7, <2>1 DEF Entered
    <3>2. PICK j \in 1 .. Len(Kids(t, p)) :
             Kids(t, p)[j] = c /\ f[c] = x \o (From(t, p, j + 1) \o r)
      BY <1>2, <3>1 DEF EnteredAt
    <3>3. j = k
      <4>1. DOMAIN Kids(t, p) = 1 .. Len(Kids(t, p))
        BY <1>2, <1>3, FallingKids
      <4> QED
        BY <1>2, <3>2, <4>1 DEF Walked
    <3> QED
      BY <1>9, <2>1, <3>2, <3>3
  <2>2. CASE c \notin A
    BY <2>2
  <2> QED
    BY <2>1, <2>2
<1>11. c \in B /\ B = A \cup {c}
  OBVIOUS
<1> HIDE DEF g, B
<1>12. EnteredAt(t, B, g, c)
  <2>1. g[t[c].up] = r /\ t[c].up \in B
    BY <1>2, <1>7, <1>9
  <2>2. g[c] = x \o (From(t, t[c].up, k + 1) \o g[t[c].up])
    BY <1>2, <1>10, <2>1
  <2> QED
    BY <1>2, <1>8, <1>10, <2>1, <2>2 DEF EnteredAt
<1>13. ASSUME NEW e \in A PROVE EnteredAt(t, B, g, e)
  <2>1. EnteredAt(t, A, f, e)
    BY <1>7 DEF Entered
  <2>2. g[e] = f[e]
    BY <1>9
  <2>3. CASE e = 1
    BY <2>1, <2>2, <2>3 DEF EnteredAt
  <2>4. CASE e # 1
    <3>1. t[e].up \in A
      BY <2>1, <2>4 DEF EnteredAt
    <3>2. g[t[e].up] = f[t[e].up] /\ t[e].up \in B
      BY <1>9, <3>1
    <3> QED
      BY <2>1, <2>2, <2>4, <3>2 DEF EnteredAt
  <2> QED
    BY <2>3, <2>4
<1>14. Entered(t, B, g)
  BY <1>11, <1>12, <1>13 DEF Entered
<1>15. Before(t, c, 1, FirstIn(t, c))
  BY <1>2, <1>3, FirstIs
<1>16. Items(t, {}) = (done \o s) \o (From(t, c, 1) \o g[c])
  BY <1>8, <1>10
<1> HIDE DEF s
<1>17. Standing(t, c, FirstIn(t, c), done \o s, B, g, 1)
  BY <1>8, <1>11, <1>14, <1>15, <1>16 DEF Standing
<1> QED
  BY <1>17 DEF ReadTo, s

(* And left.                                                                *)
LEMMA WalkLeaves ==
  ASSUME NEW t, Walked(t), NEW p, NEW done, ReadTo(t, p, 0, done), p # 1
  PROVE  ReadTo(t, t[p].up, NextIn(t, p), done \o <<EndItem(t[p])>>)
<1>1. PICK A, f, k : Standing(t, p, 0, done, A, f, k)
  BY DEF ReadTo
<1>2. /\ p \in DOMAIN t /\ IsSeq(f[p]) /\ IsSeq(done)
      /\ k = Len(Kids(t, p)) + 1
  BY <1>1, StandingFacts
<1>3. Falls(t)
  BY DEF Walked
<1> DEFINE q == t[p].up
           x == <<EndItem(t[p])>>
           r == f[q]
<1>4. /\ Items(t, {}) = done \o (From(t, p, k) \o f[p])
      /\ p \in A /\ Entered(t, A, f)
  BY <1>1 DEF Standing
<1>5. From(t, p, k) = <<>>
  BY <1>2, <1>3, FromEnds
<1>6. EnteredAt(t, A, f, p)
  BY <1>4 DEF Entered
<1>7. q \in A
  BY <1>6 DEF EnteredAt
<1>8. PICK j \in 1 .. Len(Kids(t, q)) :
         Kids(t, q)[j] = p /\ f[p] = x \o (From(t, q, j + 1) \o r)
  BY <1>6 DEF EnteredAt
<1>9. q \in DOMAIN t /\ IsSeq(r)
  BY <1>4, <1>7 DEF Entered, EnteredAt
<1> DEFINE b == From(t, q, j + 1)
<1>10. IsSeq(b) /\ IsSeq(x)
  BY <1>3, <1>9, FromStep, ShortSeqs
<1>11. Items(t, {}) = (done \o x) \o (b \o r) /\ IsSeq(done \o x)
  <2> HIDE DEF x, b, r
  <2>1. IsSeq(done \o x)
    BY <1>2, <1>10, ConcatIsSeq
  <2>2. (done \o x) \o (b \o r) = done \o (x \o (b \o r))
    <3>1. SameTogether(done, x, b, r)
      BY <1>2, <1>9, <1>10, RegroupedFour
    <3> QED
      BY <3>1 DEF SameTogether
  <2>3. <<>> \o f[p] = f[p]
    BY <1>2, ConcatEmpty
  <2>4. f[p] = x \o (b \o r)
    BY <1>8 DEF x, b, r
  <2> QED
    BY <1>4, <1>5, <2>1, <2>2, <2>3, <2>4
<1>12. Before(t, q, j + 1, NextIn(t, p))
  BY <1>8, <1>9, NextIs
<1> HIDE DEF x, q
<1>13. Standing(t, q, NextIn(t, p), done \o x, A, f, j + 1)
  BY <1>4, <1>7, <1>11, <1>12 DEF Standing
<1> QED
  BY <1>13 DEF ReadTo, x, q

LEMMA WalkEnds ==
  ASSUME NEW t, Walked(t), NEW done, ReadTo(t, 1, 0, done)
  PROVE  Items(t, {}) = done
<1>1. PICK A, f, k : Standing(t, 1, 0, done, A, f, k)
  BY DEF ReadTo
<1>2. k = Len(Kids(t, 1)) + 1 /\ IsSeq(done)
  BY <1>1, StandingFacts
<1>3. Items(t, {}) = done \o (From(t, 1, k) \o f[1]) /\ f[1] = <<>>
  BY <1>1 DEF Standing, Entered, EnteredAt
<1>4. From(t, 1, k) = <<>>
  BY <1>2, FromEnds DEF Walked, Falls
<1>5. <<>> \o <<>> = <<>> /\ done \o <<>> = done
  BY <1>2, ConcatEmpty, ShortSeqs
<1> QED
  BY <1>3, <1>4, <1>5

(* Two sequences of items that mean the same, in the same usage pages.      *)
LastPages(its) == PagesAt(its)[Len(its)]
MeanSame(g, d) ==
    /\ IsSeq(g) /\ IsSeq(d)
    /\ Meaning(g) = Meaning(d) /\ LastPages(g) = LastPages(d)
SameHere(x, y, ps) ==
    Resolve(x, Head(ps)) = Resolve(y, Head(ps)) /\ PagesAfter(x, ps) = PagesAfter(y, ps)

LEMMA PagesGrow ==
  ASSUME NEW s, IsSeq(s), NEW x
  PROVE  LastPages(Append(s, x)) = PagesAfter(x, LastPages(s))
  BY PagesAtAppend, AppendedTo DEF LastPages

LEMMA SameMore ==
  ASSUME NEW g, NEW d, MeanSame(g, d), NEW x, NEW y, SameHere(x, y, LastPages(g))
  PROVE  /\ MeanSame(Append(g, x), Append(d, y))
         /\ Meaning(Append(g, x)) = Append(Meaning(g), Resolve(y, Head(LastPages(d))))
<1>1. IsSeq(g) /\ IsSeq(d) /\ IsSeq(Append(g, x)) /\ IsSeq(Append(d, y))
  BY AppendedTo DEF MeanSame
<1>2. /\ Meaning(g) = Meaning(d) /\ LastPages(g) = LastPages(d)
      /\ Resolve(x, Head(LastPages(g))) = Resolve(y, Head(LastPages(d)))
      /\ PagesAfter(x, LastPages(g)) = PagesAfter(y, LastPages(d))
  BY DEF MeanSame, SameHere
<1>3. /\ Meaning(Append(g, x)) = Append(Meaning(g), Resolve(x, Head(LastPages(g))))
      /\ Meaning(Append(d, y)) = Append(Meaning(d), Resolve(y, Head(LastPages(d))))
  BY <1>1, MeaningAppend DEF LastPages
<1>4. /\ LastPages(Append(g, x)) = PagesAfter(x, LastPages(g))
      /\ LastPages(Append(d, y)) = PagesAfter(y, LastPages(d))
  BY <1>1, PagesGrow
<1> QED
  BY <1>1, <1>2, <1>3, <1>4 DEF MeanSame

LEMMA SameNothing == MeanSame(<<>>, <<>>) /\ LastPages(<<>>) = <<0>>
<1>1. IsSeq(<<>>) /\ Len(<<>>) = 0
  BY ShortSeqs
<1>2. PagesAt(<<>>)[0] = <<0>>
  BY <1>1, PagesAtDef
<1> QED
  BY <1>1, <1>2 DEF MeanSame, LastPages

(* What comes later does not change the pages of what was before.           *)
LEMMA PagesFirst ==
  ASSUME NEW a, IsSeq(a), NEW b, IsSeq(b)
  PROVE  \A i \in 0 .. Len(a) : PagesAt(a \o b)[i] = PagesAt(a)[i]
<1> DEFINE s == a \o b
           n == Len(a)
           K == {i \in Nat : i <= n => PagesAt(s)[i] = PagesAt(a)[i]}
<1>1. /\ n \in Nat /\ Len(b) \in Nat /\ DOMAIN a = 1 .. n /\ Len(s) = n + Len(b)
      /\ \A i \in DOMAIN a : s[i] = a[i]
  BY ConcatIsSeq, SeqFacts
<1> HIDE DEF s, n
<1>2. Len(s) \in Nat /\ Len(a) \in Nat /\ n = Len(a)
  BY <1>1 DEF n
<1>3. PagesAt(s) = [i \in 0 .. Len(s) |->
          IF i = 0 THEN <<0>> ELSE PagesAfter(s[i], PagesAt(s)[i - 1])]
  BY <1>2, PagesAtDef
<1>4. PagesAt(a) = [i \in 0 .. n |->
          IF i = 0 THEN <<0>> ELSE PagesAfter(a[i], PagesAt(a)[i - 1])]
  BY <1>2, PagesAtDef
<1>5. 0 \in K
  <2>1. 0 \in 0 .. Len(s) /\ 0 \in 0 .. n
    BY <1>1
  <2> QED
    BY <1>3, <1>4, <2>1
<1>6. ASSUME NEW i \in Nat, i \in K PROVE i + 1 \in K
  <2> SUFFICES ASSUME i + 1 <= n PROVE PagesAt(s)[i + 1] = PagesAt(a)[i + 1]
    OBVIOUS
  <2>1. /\ i + 1 \in 0 .. Len(s) /\ i + 1 \in 0 .. n /\ i + 1 # 0 /\ (i + 1) - 1 = i
        /\ i <= n /\ i + 1 \in DOMAIN a
    BY <1>1
  <2>2. PagesAt(s)[i] = PagesAt(a)[i] /\ s[i + 1] = a[i + 1]
    BY <1>1, <1>6, <2>1
  <2>3. PagesAt(s)[i + 1] = PagesAfter(s[i + 1], PagesAt(s)[i])
    BY <1>3, <2>1
  <2>4. PagesAt(a)[i + 1] = PagesAfter(a[i + 1], PagesAt(a)[i])
    BY <1>4, <2>1
  <2> QED
    BY <2>2, <2>3, <2>4
<1> HIDE DEF K
<1>7. \A i \in Nat : i \in K
  BY <1>5, <1>6, NumberInduction
<1>8. \A i \in 0 .. n : PagesAt(s)[i] = PagesAt(a)[i]
  BY <1>1, <1>7 DEF K
<1> QED
  BY <1>8 DEF s, n

LEMMA MeaningIs ==
  ASSUME NEW s, IsSeq(s)
  PROVE  /\ Len(Meaning(s)) = Len(s) /\ Len(s) \in Nat
         /\ \A i \in 1 .. Len(s) : Meaning(s)[i] = Resolve(s[i], Head(PagesAt(s)[i - 1]))
<1>1. Len(s) \in Nat /\ DOMAIN s = 1 .. Len(s)
  BY SeqFacts
<1>2. Meaning(s) = [i \in 1 .. Len(s) |-> Resolve(s[i], Head(PagesAt(s)[i - 1]))]
  BY <1>1 DEF Meaning
<1> QED
  BY <1>1, <1>2

(* The meaning of the item after those in d, of all of them.                *)
LEMMA MeaningThere ==
  ASSUME NEW d, IsSeq(d), NEW y, NEW rest, IsSeq(rest)
  PROVE  /\ Len(Meaning(d)) < Len(Meaning(Append(d, y) \o rest))
         /\ Meaning(Append(d, y) \o rest)[Len(Meaning(d)) + 1] = Resolve(y, Head(LastPages(d)))
<1> DEFINE c == Append(d, y)
           s == c \o rest
           n == Len(d)
<1>1. /\ IsSeq(c) /\ n \in Nat /\ Len(c) = n + 1 /\ c[n + 1] = y /\ DOMAIN c = 1 .. n + 1
  BY AppendedTo
<1>2. /\ PagesAt(c)[n] = PagesAt(d)[n]
  <2>1. n \in 0 .. n
    BY <1>1
  <2> QED
    BY <2>1, PagesAtAppend
<1> HIDE DEF c
<1>3. IsSeq(s) /\ Len(s) = Len(c) + Len(rest) /\ Len(rest) \in Nat /\ s[n + 1] = c[n + 1]
  <2>1. n + 1 \in DOMAIN c
    BY <1>1
  <2> QED
    BY <1>1, <2>1, ConcatIsSeq, SeqFacts
<1>4. PagesAt(s)[n] = PagesAt(c)[n]
  <2>1. n \in 0 .. Len(c)
    BY <1>1
  <2> QED
    BY <1>1, <2>1, PagesFirst
<1> HIDE DEF s
<1>5. n < Len(s) /\ n + 1 \in 1 .. Len(s) /\ (n + 1) - 1 = n
  BY <1>1, <1>3
<1>6. Len(Meaning(s)) = Len(s) /\ Meaning(s)[n + 1] = Resolve(s[n + 1], Head(PagesAt(s)[n]))
  BY <1>3, <1>5, MeaningIs
<1>7. Len(Meaning(d)) = n
  BY MeaningIs
<1>8. Resolve(s[n + 1], Head(PagesAt(s)[n])) = Resolve(y, Head(LastPages(d)))
  BY <1>1, <1>2, <1>3, <1>4 DEF LastPages
<1> QED
  BY <1>5, <1>6, <1>7, <1>8 DEF s, c

(* The walk of a reader: it is before the root, or in the document, and has *)
(* returned items that mean what the document says so far.                  *)
Reads(t, p, c, ps, g) ==
    \/ p = 0 /\ c = 1 /\ ps = <<0>> /\ g = <<>>
    \/ \E done : ReadTo(t, p, c, done) /\ MeanSame(g, done) /\ ps = LastPages(g)

(* It returns the item x, which means what the document says there.         *)
Gives(t, g, x) ==
    /\ Len(Meaning(g)) < Len(Meaning(Items(t, {})))
    /\ Meaning(Append(g, x)) = Append(Meaning(g), Meaning(Items(t, {}))[Len(Meaning(g)) + 1])

LEMMA ReadsFacts ==
  ASSUME NEW t, Walked(t), NEW p, NEW c, NEW ps, NEW g, Reads(t, p, c, ps, g)
  PROVE  /\ c # 0 => c \in DOMAIN t
         /\ c = 0 => p \in DOMAIN t
         /\ c # 0 /\ t[c].name = "descriptor" => c = 1 /\ p = 0 /\ ps = <<0>> /\ g = <<>>
         /\ c # 0 /\ t[c].name # "descriptor" =>
               \E done : ReadTo(t, p, c, done) /\ MeanSame(g, done) /\ ps = LastPages(g)
         /\ c = 0 => \E done : ReadTo(t, p, c, done) /\ MeanSame(g, done) /\ ps = LastPages(g)
<1>1. t[1].name = "descriptor" /\ 1 \in DOMAIN t /\ 1 # 0
  BY DEF Walked, Falls
<1>2. CASE p = 0 /\ c = 1 /\ ps = <<0>> /\ g = <<>>
  BY <1>1, <1>2
<1>3. CASE \E done : ReadTo(t, p, c, done) /\ MeanSame(g, done) /\ ps = LastPages(g)
  <2>1. PICK done : ReadTo(t, p, c, done)
    BY <1>3
  <2>2. /\ p \in DOMAIN t
        /\ c # 0 => c \in DOMAIN t /\ t[c].name # "descriptor"
    BY <2>1, AtFacts
  <2> QED
    BY <1>3, <2>2
<1> QED
  BY <1>2, <1>3 DEF Reads

LEMMA ReadsSkips ==
  ASSUME NEW t, Walked(t), NEW p, NEW c, NEW ps, NEW g, Reads(t, p, c, ps, g),
         c # 0, t[c].name = "text"
  PROVE  Reads(t, p, NextIn(t, c), ps, g)
<1>1. PICK done : ReadTo(t, p, c, done) /\ MeanSame(g, done) /\ ps = LastPages(g)
  BY ReadsFacts
<1>2. ReadTo(t, p, NextIn(t, c), done \o Part(t, {}, c))
  BY <1>1, WalkPasses
<1>3. Part(t, {}, c) = <<>>
  BY PartIs
<1>4. done \o <<>> = done
  BY <1>1, ConcatEmpty DEF MeanSame
<1> QED
  BY <1>1, <1>2, <1>3, <1>4 DEF Reads

LEMMA ReadsRoot ==
  ASSUME NEW t, Walked(t), NEW p, NEW c, NEW ps, NEW g, Reads(t, p, c, ps, g),
         c # 0, t[c].name = "descriptor"
  PROVE  Reads(t, c, FirstIn(t, c), ps, g)
<1>1. c = 1 /\ ps = <<0>> /\ g = <<>>
  BY ReadsFacts
<1>2. ReadTo(t, 1, FirstIn(t, 1), <<>>)
  BY WalkStarts
<1> QED
  BY <1>1, <1>2, SameNothing DEF Reads

LEMMA ReadsMore ==
  ASSUME NEW t, Walked(t), NEW g, NEW done, MeanSame(g, done), NEW x, NEW y,
         SameHere(x, y, LastPages(g)), NEW p, NEW c, ReadTo(t, p, c, done \o <<y>>)
  PROVE  Reads(t, p, c, PagesAfter(x, LastPages(g)), Append(g, x)) /\ Gives(t, g, x)
<1>1. IsSeq(g) /\ IsSeq(done)
  BY DEF MeanSame
<1>2. done \o <<y>> = Append(done, y)
  BY <1>1, OneMore
<1>3. /\ MeanSame(Append(g, x), Append(done, y))
      /\ Meaning(Append(g, x)) = Append(Meaning(g), Resolve(y, Head(LastPages(done))))
  BY SameMore
<1>4. PICK rest : IsSeq(rest) /\ Items(t, {}) = (done \o <<y>>) \o rest
  <2> DEFINE more == done \o <<y>>
  <2>1. ReadTo(t, p, c, more)
    OBVIOUS
  <2> HIDE DEF more
  <2>2. \E rest : IsSeq(rest) /\ Items(t, {}) = more \o rest
    BY <2>1, AtFacts
  <2> QED
    BY <2>2 DEF more
<1>5. /\ Len(Meaning(done)) < Len(Meaning(Append(done, y) \o rest))
      /\ Meaning(Append(done, y) \o rest)[Len(Meaning(done)) + 1]
             = Resolve(y, Head(LastPages(done)))
  BY <1>1, <1>4, MeaningThere
<1>6. LastPages(Append(g, x)) = PagesAfter(x, LastPages(g))
  BY <1>1, PagesGrow
<1>7. Meaning(g) = Meaning(done)
  BY DEF MeanSame
<1>8. Gives(t, g, x)
  BY <1>2, <1>3, <1>4, <1>5, <1>7 DEF Gives
<1>9. Reads(t, p, c, PagesAfter(x, LastPages(g)), Append(g, x))
  BY <1>2, <1>3, <1>6 DEF Reads
<1> QED
  BY <1>8, <1>9

LEMMA ReadsElement ==
  ASSUME NEW t, Walked(t), NEW p, NEW c, NEW ps, NEW g, Reads(t, p, c, ps, g),
         c # 0, t[c].name \notin GroupNames \cup {"text", "descriptor"},
         NEW x, SameHere(x, ItemOf(t[c], BitsOf(t, c)), ps)
  PROVE  Reads(t, p, NextIn(t, c), PagesAfter(x, ps), Append(g, x)) /\ Gives(t, g, x)
<1>1. PICK done : ReadTo(t, p, c, done) /\ MeanSame(g, done) /\ ps = LastPages(g)
  BY ReadsFacts
<1> DEFINE y == ItemOf(t[c], BitsOf(t, c))
<1>2. ReadTo(t, p, NextIn(t, c), done \o Part(t, {}, c))
  BY <1>1, WalkPasses
<1>3. Part(t, {}, c) = <<y>>
  BY PartIs
<1>4. SameHere(x, y, LastPages(g))
  BY <1>1
<1> HIDE DEF y
<1>5. ReadTo(t, p, NextIn(t, c), done \o <<y>>)
  BY <1>2, <1>3
<1> QED
  BY <1>1, <1>4, <1>5, ReadsMore

LEMMA ReadsGroup ==
  ASSUME NEW t, Walked(t), NEW p, NEW c, NEW ps, NEW g, Reads(t, p, c, ps, g),
         c # 0, t[c].name \in GroupNames, NEW x, x = StartItem(t[c])
  PROVE  Reads(t, c, FirstIn(t, c), PagesAfter(x, ps), Append(g, x)) /\ Gives(t, g, x)
<1>1. t[c].name # "descriptor"
  BY DEF GroupNames
<1>2. PICK done : ReadTo(t, p, c, done) /\ MeanSame(g, done) /\ ps = LastPages(g)
  BY <1>1, ReadsFacts
<1>3. ReadTo(t, c, FirstIn(t, c), done \o <<x>>)
  BY <1>2, WalkEnters
<1>4. SameHere(x, x, LastPages(g))
  BY DEF SameHere
<1> QED
  BY <1>2, <1>3, <1>4, ReadsMore

LEMMA ReadsEnd ==
  ASSUME NEW t, Walked(t), NEW p, NEW ps, NEW g, Reads(t, p, 0, ps, g),
         t[p].name \in GroupNames, NEW x, x = EndItem(t[p])
  PROVE  Reads(t, t[p].up, NextIn(t, p), PagesAfter(x, ps), Append(g, x)) /\ Gives(t, g, x)
<1>1. p # 1
  BY DEF GroupNames, Walked
<1>2. PICK done : ReadTo(t, p, 0, done) /\ MeanSame(g, done) /\ ps = LastPages(g)
  BY ReadsFacts
<1>3. ReadTo(t, t[p].up, NextIn(t, p), done \o <<x>>)
  BY <1>1, <1>2, WalkLeaves
<1>4. SameHere(x, x, LastPages(g))
  BY DEF SameHere
<1> QED
  BY <1>2, <1>3, <1>4, ReadsMore

LEMMA ReadsStop ==
  ASSUME NEW t, Walked(t), NEW p, NEW ps, NEW g, Reads(t, p, 0, ps, g),
         t[p].name = "descriptor"
  PROVE  /\ p = 1 /\ Meaning(g) = Meaning(Items(t, {}))
         /\ ps = LastPages(g) /\ ps = LastPages(Items(t, {}))
<1>1. PICK done : ReadTo(t, p, 0, done) /\ MeanSame(g, done) /\ ps = LastPages(g)
  BY ReadsFacts
<1>2. p = 1
  BY <1>1, AtFacts DEF GroupNames
<1>3. Items(t, {}) = done
  BY <1>1, <1>2, WalkEnds
<1> QED
  BY <1>1, <1>2, <1>3 DEF MeanSame
===============================================================================
