------------------------------ MODULE TtblProofs ------------------------------
(***************************************************************************)
(* A text table is a sparse plane, however long it is used: looking up     *)
(* finds what was set, and every call does to the table what it does to    *)
(* the plane.  What is rendered of it stands in its lines and columns,     *)
(* each column at a tab stop.  The specification example and code sinks    *)
(* lay out with it: their lines tell the items put, as deep as they nest.  *)
(***************************************************************************)
EXTENDS Ttbl, SpecSnk, Recursion, FiniteSetTheorems

------------------------------------------------------------------------------
(* Positions in a list.                                                     *)
IsPos(nodes, n, f) ==
    f = [k \in 1 .. n |-> IF k = 1 THEN 0 ELSE f[k - 1] + 1 + nodes[k - 1].skip]

LEMMA PosExists == ASSUME NEW nodes, NEW n \in Nat PROVE \E f : IsPos(nodes, n, f)
<1> DEFINE S == {k \in Nat : \E f : IsPos(nodes, k, f)}
<1>1. 0 \in S
  <2>1. IsPos(nodes, 0, [k \in 1 .. 0 |-> 0])
    BY DEF IsPos
  <2> QED
    BY <2>1
<1>2. ASSUME NEW k \in Nat, k \in S PROVE k + 1 \in S
  <2>1. PICK f : IsPos(nodes, k, f)
    BY <1>2
  <2> DEFINE g == [j \in 1 .. k + 1 |->
                     IF j = k + 1 THEN (IF k = 0 THEN 0 ELSE f[k] + 1 + nodes[k].skip)
                     ELSE f[j]]
             h == [j \in 1 .. k + 1 |->
                     IF j = 1 THEN 0 ELSE g[j - 1] + 1 + nodes[j - 1].skip]
  <2>2. ASSUME NEW j \in 1 .. k + 1 PROVE g[j] = h[j]
    <3>1. CASE j = k + 1
      <4>1. k = 0 \/ (k \in 1 .. k + 1 /\ k # k + 1 /\ j - 1 = k)
        BY <3>1
      <4> QED
        BY <3>1, <4>1
    <3>2. CASE j # k + 1
      <4>1. j \in 1 .. k /\ (j = 1 \/ (j - 1 \in 1 .. k + 1 /\ j - 1 # k + 1))
        BY <3>2
      <4>2. f[j] = IF j = 1 THEN 0 ELSE f[j - 1] + 1 + nodes[j - 1].skip
        BY <2>1, <4>1 DEF IsPos
      <4> QED
        BY <3>2, <4>1, <4>2
    <3> QED
      BY <3>1, <3>2
  <2>3. g = h
    BY <2>2
  <2>4. IsPos(nodes, k + 1, g)
    BY <2>3 DEF IsPos
  <2> HIDE DEF g
  <2> QED
    BY <2>4
<1>3. n \in S
  <2> HIDE DEF S
  <2> QED
    BY <1>1, <1>2, NumberInduction
<1> QED
  BY <1>3

(* Positions depend on the skips of the nodes before, and on nothing else.  *)
LEMMA PosAgree ==
  ASSUME NEW a, NEW b, NEW m \in Nat, NEW n \in Nat, NEW f, NEW g,
         IsPos(a, m, f), IsPos(b, n, g),
         NEW i \in 1 .. m, i <= n,
         \A j \in 1 .. i - 1 : a[j].skip = b[j].skip
  PROVE  f[i] = g[i]
<1> DEFINE S == {k \in Nat : k \in 1 .. i => f[k] = g[k]}
<1>1. 0 \in S
  OBVIOUS
<1>2. ASSUME NEW k \in Nat, k \in S PROVE k + 1 \in S
  <2> SUFFICES ASSUME k + 1 \in 1 .. i PROVE f[k + 1] = g[k + 1]
    OBVIOUS
  <2>1. k + 1 \in 1 .. m /\ k + 1 \in 1 .. n /\ (k + 1) - 1 = k
    OBVIOUS
  <2>2. /\ f[k + 1] = IF k + 1 = 1 THEN 0 ELSE f[k] + 1 + a[k].skip
        /\ g[k + 1] = IF k + 1 = 1 THEN 0 ELSE g[k] + 1 + b[k].skip
    BY <2>1 DEF IsPos
  <2>3. k + 1 # 1 => k \in 1 .. i - 1 /\ k \in 1 .. i
    OBVIOUS
  <2> QED
    BY <1>2, <2>2, <2>3
<1>3. i \in S
  <2> HIDE DEF S
  <2> QED
    BY <1>1, <1>2, NumberInduction
<1> QED
  BY <1>3

LEMMA PosSame ==
  ASSUME NEW a, NEW b, NEW i \in Nat \ {0},
         \A j \in 1 .. i - 1 : a[j].skip = b[j].skip
  PROVE  PosIn(a, i) = PosIn(b, i)
<1> DEFINE F(nodes) == CHOOSE f : IsPos(nodes, i, f)
<1>1. ASSUME NEW nodes PROVE PosIn(nodes, i) = F(nodes)[i]
  BY DEF PosIn, IsPos
<1>2. ASSUME NEW nodes PROVE IsPos(nodes, i, F(nodes))
  BY PosExists
<1> HIDE DEF F
<1>3. F(a)[i] = F(b)[i]
  <2>1. IsPos(a, i, F(a)) /\ IsPos(b, i, F(b)) /\ i \in 1 .. i /\ i <= i
    BY <1>2
  <2> QED
    BY <2>1, PosAgree
<1> QED
  BY <1>1, <1>3

LEMMA PosStep ==
  ASSUME NEW nodes, NEW i \in Nat \ {0}
  PROVE  /\ PosIn(nodes, 1) = 0
         /\ PosIn(nodes, i + 1) = PosIn(nodes, i) + 1 + nodes[i].skip
<1>1. ASSUME NEW n \in Nat \ {0}
      PROVE  PosIn(nodes, n) = (CHOOSE f : IsPos(nodes, n, f))[n]
  BY DEF PosIn, IsPos
<1> DEFINE F(n) == CHOOSE f : IsPos(nodes, n, f)
<1>2. ASSUME NEW n \in Nat \ {0} PROVE IsPos(nodes, n, F(n)) /\ PosIn(nodes, n) = F(n)[n]
  BY <1>1, PosExists
<1> HIDE DEF F
<1>3. PosIn(nodes, 1) = 0
  <2>1. IsPos(nodes, 1, F(1)) /\ PosIn(nodes, 1) = F(1)[1]
    BY <1>2
  <2>2. F(1)[1] = 0
    BY <2>1 DEF IsPos
  <2> QED
    BY <2>1, <2>2
<1>4. IsPos(nodes, i + 1, F(i + 1)) /\ PosIn(nodes, i + 1) = F(i + 1)[i + 1]
  BY <1>2
<1>5. F(i + 1)[i + 1] = F(i + 1)[i] + 1 + nodes[i].skip
  <2>1. i + 1 \in 1 .. i + 1 /\ i + 1 # 1 /\ (i + 1) - 1 = i
    OBVIOUS
  <2> QED
    BY <1>4, <2>1 DEF IsPos
<1>6. F(i + 1)[i] = F(i)[i]
  BY <1>2, <1>4, PosAgree
<1> QED
  BY <1>2, <1>3, <1>4, <1>5, <1>6

------------------------------------------------------------------------------
(* Lists: the nodes of a kind, which have a number of positions to skip.    *)
IsKind(Nodes) ==
    \A e \in Nodes : /\ e.skip \in Nat
                    /\ e = [e EXCEPT !.skip = e.skip]
                    /\ \A s \in Nat : /\ [e EXCEPT !.skip = s] \in Nodes
                                      /\ [e EXCEPT !.skip = s].skip = s

IsList(nodes, Nodes) == IsKind(Nodes) /\ nodes \in Seq(Nodes) /\ nodes # <<>>

LEMMA ListFacts ==
  ASSUME NEW Nodes, NEW nodes, IsList(nodes, Nodes)
  PROVE  /\ Len(nodes) \in Nat \ {0} /\ DOMAIN nodes = 1 .. Len(nodes)
         /\ \A i \in 1 .. Len(nodes) : nodes[i] \in Nodes /\ nodes[i].skip \in Nat
<1>1. /\ Len(nodes) \in Nat \ {0} /\ DOMAIN nodes = 1 .. Len(nodes)
      /\ \A i \in 1 .. Len(nodes) : nodes[i] \in Nodes
  BY DEF IsList
<1> QED
  BY <1>1 DEF IsList, IsKind

(* The nodes of a list come one after another, each behind what the one     *)
(* before it skips.                                                         *)
LEMMA PosMono ==
  ASSUME NEW Nodes, NEW nodes, IsList(nodes, Nodes)
  PROVE  /\ \A i \in 1 .. Len(nodes) : PosIn(nodes, i) \in Nat
         /\ \A j \in 1 .. Len(nodes) : \A i \in 1 .. j - 1 :
                PosIn(nodes, i) + nodes[i].skip < PosIn(nodes, j)
<1> DEFINE P(i) == PosIn(nodes, i)
           s(i) == nodes[i].skip
           n == Len(nodes)
           S == {k \in Nat : k \in 1 .. n =>
                    P(k) \in Nat /\ \A i \in 1 .. k - 1 : P(i) \in Nat /\ P(i) + s(i) < P(k)}
<1>1. P(1) = 0 /\ \A i \in Nat \ {0} : P(i + 1) = P(i) + 1 + s(i)
  BY PosStep
<1>2. n \in Nat \ {0} /\ \A i \in 1 .. n : s(i) \in Nat
  BY ListFacts
<1> HIDE DEF P, s, n
<1>3. 0 \in S
  BY <1>2
<1>4. ASSUME NEW k \in Nat, k \in S PROVE k + 1 \in S
  <2> SUFFICES ASSUME k + 1 \in 1 .. n
               PROVE  /\ P(k + 1) \in Nat
                      /\ \A i \in 1 .. k : P(i) \in Nat /\ P(i) + s(i) < P(k + 1)
    OBVIOUS
  <2>1. CASE k = 0
    BY <1>1, <2>1
  <2>2. CASE k # 0
    <3>1. k \in 1 .. n /\ k \in Nat \ {0}
      BY <1>2, <2>2
    <3>2. P(k) \in Nat /\ s(k) \in Nat /\ P(k + 1) = P(k) + 1 + s(k)
      BY <1>1, <1>2, <1>4, <3>1
    <3>3. \A i \in 1 .. k - 1 : P(i) \in Nat /\ P(i) + s(i) < P(k) /\ s(i) \in Nat
      BY <1>2, <1>4, <3>1
    <3>4. ASSUME NEW i \in 1 .. k PROVE P(i) \in Nat /\ P(i) + s(i) < P(k + 1)
      <4>1. CASE i = k
        BY <3>2, <4>1
      <4>2. CASE i # k
        <5>1. i \in 1 .. k - 1
          BY <3>1, <4>2
        <5> QED
          BY <3>2, <3>3, <5>1
      <4> QED
        BY <4>1, <4>2
    <3> QED
      BY <3>2, <3>4
  <2> QED
    BY <2>1, <2>2
<1>5. \A k \in Nat : k \in S
  <2> HIDE DEF S
  <2> QED
    BY <1>3, <1>4, NumberInduction
<1> QED
  BY <1>2, <1>5 DEF P, s, n

(* What a lookup finds: the one node that reaches the position.             *)
Reaches(nodes, at, i) ==
    /\ i \in 1 .. Len(nodes)
    /\ i = Len(nodes) \/ at <= PosIn(nodes, i) + nodes[i].skip
    /\ \A j \in 1 .. i - 1 : at > PosIn(nodes, j) + nodes[j].skip

LEMMA LookupReaches ==
  ASSUME NEW Nodes, NEW nodes, IsList(nodes, Nodes), NEW at \in Nat
  PROVE  Reaches(nodes, at, Lookup(nodes, at))
<1> DEFINE P(i) == PosIn(nodes, i) + nodes[i].skip
           S == {i \in 1 .. Len(nodes) : i = Len(nodes) \/ at <= P(i)}
<1>1. Len(nodes) \in Nat \ {0} /\ DOMAIN nodes = 1 .. Len(nodes)
      /\ \A i \in 1 .. Len(nodes) : P(i) \in Nat
  BY ListFacts, PosMono
<1> HIDE DEF P
<1>2. Len(nodes) \in S /\ S \in SUBSET Nat
  BY <1>1
<1>3. PICK i \in S : \A j \in S : i <= j
  BY <1>2, LeastNumber
<1>4. i \in DOMAIN nodes /\ (i = Len(nodes) \/ at <= P(i)) /\ \A j \in 1 .. i - 1 : at > P(j)
  <2>1. i \in 1 .. Len(nodes) /\ (i = Len(nodes) \/ at <= P(i))
    BY <1>3
  <2>2. ASSUME NEW j \in 1 .. i - 1 PROVE at > P(j)
    <3>1. j \in 1 .. Len(nodes) /\ j \notin S /\ P(j) \in Nat
      <4>1. j \in 1 .. Len(nodes) /\ j < i
        <5>1. Len(nodes) \in Nat /\ i \in 1 .. Len(nodes)
          BY <1>1, <2>1
        <5> HIDE DEF S
        <5> QED
          BY <5>1
      <4>2. j \notin S
        <5> HIDE DEF S
        <5> QED
          BY <1>1, <1>2, <1>3, <4>1
      <4> QED
        BY <1>1, <4>1, <4>2
    <3> QED
      BY <3>1
  <2> QED
    BY <1>1, <2>1, <2>2
<1> QED
  BY <1>1, <1>4 DEF Reaches, Lookup, P

LEMMA ReachedOnce ==
  ASSUME NEW Nodes, NEW nodes, IsList(nodes, Nodes), NEW at \in Nat,
         NEW i, NEW j, Reaches(nodes, at, i), Reaches(nodes, at, j)
  PROVE  i = j
<1> DEFINE P(k) == PosIn(nodes, k) + nodes[k].skip
<1>1. Len(nodes) \in Nat \ {0} /\ \A k \in 1 .. Len(nodes) : P(k) \in Nat
  BY ListFacts, PosMono
<1>2. /\ i \in 1 .. Len(nodes) /\ (i = Len(nodes) \/ at <= P(i)) /\ \A k \in 1 .. i - 1 : at > P(k)
      /\ j \in 1 .. Len(nodes) /\ (j = Len(nodes) \/ at <= P(j)) /\ \A k \in 1 .. j - 1 : at > P(k)
  BY DEF Reaches
<1> HIDE DEF P
<1> QED
  BY <1>1, <1>2

(* A node that is at the position is found.                                 *)
LEMMA LookupAt ==
  ASSUME NEW Nodes, NEW nodes, IsList(nodes, Nodes), NEW i \in 1 .. Len(nodes)
  PROVE  Lookup(nodes, PosIn(nodes, i)) = i
<1> DEFINE at == PosIn(nodes, i)
<1>1. /\ at \in Nat /\ Len(nodes) \in Nat \ {0} /\ nodes[i].skip \in Nat
      /\ \A j \in 1 .. i - 1 : at > PosIn(nodes, j) + nodes[j].skip
  BY ListFacts, PosMono
<1>2. Reaches(nodes, at, i)
  BY <1>1 DEF Reaches
<1>3. Reaches(nodes, at, Lookup(nodes, at))
  BY <1>1, LookupReaches
<1> HIDE DEF at
<1> QED
  BY <1>1, <1>2, <1>3, ReachedOnce DEF at

(* Where a lookup ends is not behind the position.                          *)
LEMMA LookupBefore ==
  ASSUME NEW Nodes, NEW nodes, IsList(nodes, Nodes), NEW at \in Nat
  PROVE  /\ Lookup(nodes, at) \in 1 .. Len(nodes)
         /\ PosIn(nodes, Lookup(nodes, at)) \in Nat
         /\ PosIn(nodes, Lookup(nodes, at)) <= at
<1> DEFINE i == Lookup(nodes, at)
<1>1. Reaches(nodes, at, i)
  BY LookupReaches
<1> HIDE DEF i
<1>2. i \in 1 .. Len(nodes) /\ Len(nodes) \in Nat \ {0} /\ PosIn(nodes, i) \in Nat
  BY <1>1, ListFacts, PosMono DEF Reaches
<1>3. ASSUME i = 1 PROVE PosIn(nodes, i) <= at
  <2>1. 1 \in Nat \ {0} => PosIn(nodes, 1) = 0
    BY PosStep
  <2> QED
    BY <1>3, <2>1
<1>4. ASSUME i # 1 PROVE PosIn(nodes, i) <= at
  <2>1. i - 1 \in 1 .. i - 1 /\ i - 1 \in Nat \ {0} /\ i - 1 \in 1 .. Len(nodes)
    BY <1>2, <1>4
  <2>2. at > PosIn(nodes, i - 1) + nodes[i - 1].skip
    BY <1>1, <2>1 DEF Reaches
  <2>3. PosIn(nodes, (i - 1) + 1) = PosIn(nodes, i - 1) + 1 + nodes[i - 1].skip
    BY <2>1, PosStep
  <2>4. (i - 1) + 1 = i /\ PosIn(nodes, i - 1) \in Nat /\ nodes[i - 1].skip \in Nat
    BY <1>2, <2>1, ListFacts, PosMono
  <2> QED
    BY <1>2, <2>2, <2>3, <2>4
<1> QED
  BY <1>2, <1>3, <1>4 DEF i

(* The node of one list that is the node of another, but for what it skips. *)
Same(e, f) == \E s \in Nat : e = [f EXCEPT !.skip = s]

LEMMA SameAs == ASSUME NEW Nodes, IsKind(Nodes), NEW e \in Nodes PROVE Same(e, e)
<1>1. e.skip \in Nat /\ e = [e EXCEPT !.skip = e.skip]
  BY DEF IsKind
<1> QED
  BY <1>1 DEF Same

LEMMA WithNodeAt ==
  ASSUME NEW Nodes, NEW nodes, IsList(nodes, Nodes), NEW at \in Nat, NEW new \in Nodes,
         NEW i, i = Lookup(nodes, at), PosIn(nodes, i) # at,
         NEW w, w = WithNode(nodes, at, new)
  PROVE  /\ IsList(w, Nodes)
         /\ \A k \in 1 .. Len(nodes) : PosIn(nodes, k) # at
         /\ Len(w) = Len(nodes) + 1
         /\ i \in 1 .. Len(nodes)
         /\ PosIn(w, i + 1) = at /\ Same(w[i + 1], new)
         /\ \A k \in 1 .. i : PosIn(w, k) = PosIn(nodes, k) /\ Same(w[k], nodes[k])
         /\ \A k \in i + 1 .. Len(nodes) :
                PosIn(w, k + 1) = PosIn(nodes, k) /\ Same(w[k + 1], nodes[k])
<1> DEFINE n == Len(nodes)
           gap == at - PosIn(nodes, i)
           a == [nodes[i] EXCEPT !.skip = gap - 1]
           b == [new EXCEPT !.skip = SkipLeft(nodes, i, gap)]
<1>1. /\ n \in Nat \ {0} /\ i \in 1 .. n /\ PosIn(nodes, i) \in Nat /\ gap \in Nat \ {0}
      /\ \A k \in 1 .. n : nodes[k] \in Nodes /\ nodes[k].skip \in Nat
      /\ nodes \in Seq(Nodes) /\ IsKind(Nodes)
  <2>1. i \in 1 .. n /\ PosIn(nodes, i) \in Nat /\ PosIn(nodes, i) <= at
    BY LookupBefore
  <2>2. gap \in Nat \ {0}
    BY <2>1
  <2> QED
    BY <2>1, <2>2, ListFacts DEF IsList
<1>2. i < n => at <= PosIn(nodes, i) + nodes[i].skip
  <2>1. Reaches(nodes, at, i)
    BY LookupReaches
  <2> QED
    BY <1>1, <2>1 DEF Reaches
<1>3. /\ SkipLeft(nodes, i, gap) \in Nat /\ gap - 1 \in Nat
      /\ i < n => SkipLeft(nodes, i, gap) = nodes[i].skip - gap
  BY <1>1, <1>2 DEF SkipLeft
<1>4. a \in Nodes /\ b \in Nodes /\ a.skip = gap - 1 /\ b.skip = SkipLeft(nodes, i, gap)
      /\ Same(a, nodes[i]) /\ Same(b, new)
  BY <1>1, <1>3 DEF IsKind, Same
<1>5. w = SubSeq(nodes, 1, i - 1) \o <<a, b>> \o SubSeq(nodes, i + 1, n)
  BY <1>1 DEF WithNode
<1> HIDE DEF a, b
<1>6. /\ w \in Seq(Nodes) /\ Len(w) = n + 1 /\ w # <<>>
      /\ \A k \in 1 .. i - 1 : w[k] = nodes[k]
      /\ w[i] = a /\ w[i + 1] = b
      /\ \A k \in i + 1 .. n : w[k + 1] = nodes[k]
  <2> DEFINE u == SubSeq(nodes, 1, i - 1)
             v == SubSeq(nodes, i + 1, n)
             ab == <<a, b>>
  <2>1. /\ u \in Seq(Nodes) /\ Len(u) = i - 1 /\ \A k \in 1 .. i - 1 : u[k] = nodes[k]
    BY <1>1
  <2>2. /\ v \in Seq(Nodes) /\ Len(v) = n - i /\ \A k \in 1 .. n - i : v[k] = nodes[i + k]
    BY <1>1
  <2>3. ab \in Seq(Nodes) /\ Len(ab) = 2 /\ ab[1] = a /\ ab[2] = b
    BY <1>4
  <2> HIDE DEF u, v, ab
  <2>4. /\ u \o ab \in Seq(Nodes) /\ Len(u \o ab) = i + 1
        /\ \A k \in 1 .. i - 1 : (u \o ab)[k] = nodes[k]
        /\ (u \o ab)[i] = a /\ (u \o ab)[i + 1] = b
    <3>1. /\ u \o ab \in Seq(Nodes) /\ Len(u \o ab) = Len(u) + Len(ab)
          /\ \A k \in 1 .. Len(u) + Len(ab) :
                (u \o ab)[k] = IF k <= Len(u) THEN u[k] ELSE ab[k - Len(u)]
      BY <2>1, <2>3, ConcatProperties
    <3>2. Len(u \o ab) = i + 1
      BY <1>1, <2>1, <2>3, <3>1
    <3>3. ASSUME NEW k \in 1 .. i - 1 PROVE (u \o ab)[k] = nodes[k]
      <4>1. k \in 1 .. (i - 1) + 2 /\ k <= i - 1
        BY <1>1
      <4> QED
        BY <2>1, <2>3, <3>1, <4>1
    <3>4. (u \o ab)[i] = ab[1] /\ (u \o ab)[i + 1] = ab[2]
      <4>1. /\ i \in 1 .. (i - 1) + 2 /\ ~(i <= i - 1) /\ i - (i - 1) = 1
            /\ i + 1 \in 1 .. (i - 1) + 2 /\ ~(i + 1 <= i - 1) /\ (i + 1) - (i - 1) = 2
        BY <1>1
      <4>2. /\ (u \o ab)[i] = ab[i - (i - 1)]
            /\ (u \o ab)[i + 1] = ab[(i + 1) - (i - 1)]
        BY <2>1, <2>3, <3>1, <4>1
      <4> QED
        BY <4>1, <4>2
    <3> QED
      BY <2>3, <3>1, <3>2, <3>3, <3>4
  <2> DEFINE uab == u \o ab
  <2> HIDE DEF uab
  <2>5. /\ uab \o v \in Seq(Nodes) /\ Len(uab \o v) = n + 1
        /\ \A k \in 1 .. i + 1 : (uab \o v)[k] = uab[k]
        /\ \A k \in 1 .. n - i : (uab \o v)[i + 1 + k] = v[k]
    <3>1. uab \in Seq(Nodes) /\ Len(uab) = i + 1 /\ v \in Seq(Nodes) /\ Len(v) = n - i
      BY <2>2, <2>4 DEF uab
    <3>2. /\ uab \o v \in Seq(Nodes) /\ Len(uab \o v) = Len(uab) + Len(v)
          /\ \A k \in 1 .. Len(uab) + Len(v) :
                (uab \o v)[k] = IF k <= Len(uab) THEN uab[k] ELSE v[k - Len(uab)]
      BY <3>1, ConcatProperties
    <3>3. Len(uab \o v) = n + 1
      BY <1>1, <3>1, <3>2
    <3>4. ASSUME NEW k \in 1 .. i + 1 PROVE (uab \o v)[k] = uab[k]
      BY <1>1, <3>1, <3>2
    <3>5. ASSUME NEW k \in 1 .. n - i PROVE (uab \o v)[i + 1 + k] = v[k]
      <4>1. /\ i + 1 + k \in 1 .. (i + 1) + (n - i)
            /\ ~(i + 1 + k <= i + 1) /\ (i + 1 + k) - (i + 1) = k
        BY <1>1
      <4> QED
        BY <3>1, <3>2, <4>1
    <3> QED
      BY <3>2, <3>3, <3>4, <3>5
  <2>6. w = uab \o v
    BY <1>5 DEF u, v, ab, uab
  <2>7. /\ \A k \in 1 .. i - 1 : w[k] = nodes[k]
        /\ w[i] = a /\ w[i + 1] = b
    BY <1>1, <2>4, <2>5, <2>6, SMTT(30) DEF uab
  <2>8. ASSUME NEW k \in i + 1 .. n PROVE w[k + 1] = nodes[k]
    <3>1. PICK j \in 1 .. n - i : k = i + j /\ k + 1 = i + 1 + j
      <4>1. k - i \in 1 .. n - i /\ i + 1 + (k - i) = k + 1 /\ i + (k - i) = k
        BY <1>1
      <4> QED
        BY <4>1
    <3>2. w[i + 1 + j] = v[j] /\ v[j] = nodes[i + j]
      BY <2>2, <2>5, <2>6
    <3> QED
      BY <3>1, <3>2
  <2>9. w # <<>>
    BY <1>1, <2>5, <2>6
  <2> QED
    BY <2>5, <2>6, <2>7, <2>8, <2>9
<1>7. IsList(w, Nodes)
  BY <1>1, <1>6 DEF IsList
<1>8. \A k \in 1 .. n : PosIn(nodes, k) # at
  BY <1>1, LookupAt
<1>9. ASSUME NEW k \in 1 .. i PROVE PosIn(w, k) = PosIn(nodes, k) /\ Same(w[k], nodes[k])
  <2>1. PosIn(w, k) = PosIn(nodes, k)
    <3>1. k \in Nat \ {0} /\ \A j \in 1 .. k - 1 : j \in 1 .. i - 1
      BY <1>1
    <3>2. \A j \in 1 .. k - 1 : w[j].skip = nodes[j].skip
      BY <1>6, <3>1
    <3> QED
      BY <3>1, <3>2, PosSame
  <2>2. Same(w[k], nodes[k])
    <3>1. CASE k = i
      BY <1>4, <1>6, <3>1
    <3>2. CASE k # i
      <4>1. k \in 1 .. i - 1 /\ k \in 1 .. n
        BY <1>1, <3>2
      <4> QED
        BY <1>1, <1>6, <4>1, SameAs
    <3> QED
      BY <3>1, <3>2
  <2> QED
    BY <2>1, <2>2
<1>10. PosIn(w, i + 1) = at /\ Same(w[i + 1], new)
  <2>1. PosIn(w, i + 1) = PosIn(w, i) + 1 + w[i].skip
    <3>1. i \in Nat \ {0}
      BY <1>1
    <3> QED
      BY <3>1, PosStep
  <2>2. PosIn(w, i) = PosIn(nodes, i)
    BY <1>1, <1>9
  <2> QED
    BY <1>1, <1>4, <1>6, <2>1, <2>2
<1>11. ASSUME NEW k \in i + 1 .. n PROVE Same(w[k + 1], nodes[k])
  <2>1. w[k + 1] = nodes[k] /\ k \in 1 .. n
    BY <1>1, <1>6
  <2> QED
    BY <1>1, <2>1, SameAs
<1>12. \A k \in i + 1 .. n : PosIn(w, k + 1) = PosIn(nodes, k)
  <2> DEFINE S == {k \in Nat : k \in i + 1 .. n => PosIn(w, k + 1) = PosIn(nodes, k)}
  <2>1. 0 \in S
    BY <1>1
  <2>2. ASSUME NEW k \in Nat, k \in S PROVE k + 1 \in S
    <3> SUFFICES ASSUME k + 1 \in i + 1 .. n
                 PROVE  PosIn(w, (k + 1) + 1) = PosIn(nodes, k + 1)
      OBVIOUS
    <3>1. k \in Nat \ {0} /\ k + 1 \in Nat \ {0} /\ k + 1 \in 1 .. n /\ k \in 1 .. n
      BY <1>1
    <3>2. /\ PosIn(w, (k + 1) + 1) = PosIn(w, k + 1) + 1 + w[k + 1].skip
          /\ PosIn(nodes, k + 1) = PosIn(nodes, k) + 1 + nodes[k].skip
      BY <3>1, PosStep
    <3>3. CASE k = i
      <4>1. PosIn(w, k + 1) = at /\ w[k + 1].skip = nodes[i].skip - gap
        BY <1>1, <1>3, <1>4, <1>6, <1>10, <3>3, SMTT(30)
      <4>2. /\ nodes[i].skip \in Nat /\ PosIn(nodes, i) \in Nat /\ gap \in Nat
            /\ PosIn(w, (k + 1) + 1) = at + 1 + (nodes[i].skip - gap)
            /\ PosIn(nodes, k + 1) = PosIn(nodes, i) + 1 + nodes[i].skip
        BY <1>1, <3>2, <3>3, <4>1
      <4>3. \A q, p, s \in Nat : q + 1 + (s - (q - p)) = p + 1 + s
        OBVIOUS
      <4>4. at + 1 + (nodes[i].skip - gap) = PosIn(nodes, i) + 1 + nodes[i].skip
        BY <4>2, <4>3
      <4> QED
        BY <4>2, <4>4
    <3>4. CASE k # i
      <4>1. k \in i + 1 .. n
        BY <1>1, <3>4
      <4>2. PosIn(w, k + 1) = PosIn(nodes, k) /\ w[k + 1] = nodes[k]
        BY <1>6, <2>2, <4>1
      <4> QED
        BY <3>2, <4>2
    <3> QED
      BY <3>3, <3>4
  <2>3. \A k \in Nat : k \in S
    <3> HIDE DEF S
    <3> QED
      BY <2>1, <2>2, NumberInduction
  <2> QED
    BY <1>1, <2>3
<1> QED
  BY <1>1, <1>6, <1>7, <1>8, <1>9, <1>10, <1>11, <1>12

(* A node that skips more moves what comes after it.                        *)
SkipMore(nodes, i, span) == [nodes EXCEPT ![i].skip = @ + span]

LEMMA SkippedMore ==
  ASSUME NEW Nodes, NEW nodes, IsList(nodes, Nodes), NEW i \in 1 .. Len(nodes),
         NEW span \in Nat,
         NEW w, w = SkipMore(nodes, i, span)
  PROVE  /\ IsList(w, Nodes) /\ Len(w) = Len(nodes)
         /\ \A k \in 1 .. Len(nodes) : Same(w[k], nodes[k])
         /\ \A k \in 1 .. i : PosIn(w, k) = PosIn(nodes, k)
         /\ \A k \in i + 1 .. Len(nodes) : PosIn(w, k) = PosIn(nodes, k) + span
<1> DEFINE n == Len(nodes)
           e == [nodes[i] EXCEPT !.skip = nodes[i].skip + span]
<1>1. /\ n \in Nat \ {0} /\ DOMAIN nodes = 1 .. n
      /\ \A k \in 1 .. n : nodes[k] \in Nodes /\ nodes[k].skip \in Nat
      /\ nodes \in Seq(Nodes) /\ IsKind(Nodes)
  BY ListFacts DEF IsList
<1>2. e \in Nodes /\ e.skip = nodes[i].skip + span /\ Same(e, nodes[i])
  <2>1. nodes[i] \in Nodes /\ nodes[i].skip + span \in Nat
    BY <1>1
  <2> QED
    BY <1>1, <2>1 DEF IsKind, Same
<1>3. w = [nodes EXCEPT ![i] = e]
  BY DEF SkipMore
<1> HIDE DEF e
<1>4. /\ w \in Seq(Nodes) /\ Len(w) = n /\ w # <<>>
      /\ w[i] = e /\ \A k \in 1 .. n : k # i => w[k] = nodes[k]
  <2>1. w \in Seq(Nodes) /\ Len(w) = n /\ \A k \in 1 .. n : w[k] = IF k = i THEN e ELSE nodes[k]
    BY <1>1, <1>2, <1>3, ExceptSeq
  <2> QED
    BY <1>1, <2>1
<1>5. IsList(w, Nodes)
  BY <1>1, <1>4 DEF IsList
<1>6. \A k \in 1 .. n : Same(w[k], nodes[k])
  BY <1>1, <1>2, <1>4, SameAs
<1>7. ASSUME NEW k \in 1 .. i PROVE PosIn(w, k) = PosIn(nodes, k)
  <2>1. k \in Nat \ {0} /\ \A j \in 1 .. k - 1 : j \in 1 .. n /\ j # i
    BY <1>1
  <2>2. \A j \in 1 .. k - 1 : w[j].skip = nodes[j].skip
    BY <1>4, <2>1
  <2> QED
    BY <2>1, <2>2, PosSame
<1>8. \A k \in i + 1 .. n : PosIn(w, k) = PosIn(nodes, k) + span
  <2> DEFINE S == {k \in Nat : k \in i + 1 .. n => PosIn(w, k) = PosIn(nodes, k) + span}
  <2>1. 0 \in S
    BY <1>1
  <2>2. ASSUME NEW k \in Nat, k \in S PROVE k + 1 \in S
    <3> SUFFICES ASSUME k + 1 \in i + 1 .. n
                 PROVE  PosIn(w, k + 1) = PosIn(nodes, k + 1) + span
      OBVIOUS
    <3>1. k \in Nat \ {0} /\ k \in 1 .. n
      BY <1>1
    <3>2. /\ PosIn(w, k + 1) = PosIn(w, k) + 1 + w[k].skip
          /\ PosIn(nodes, k + 1) = PosIn(nodes, k) + 1 + nodes[k].skip
          /\ PosIn(nodes, k) \in Nat /\ nodes[k].skip \in Nat
      BY <1>1, <3>1, PosStep, PosMono
    <3>3. CASE k = i
      <4>1. PosIn(w, k) = PosIn(nodes, k) /\ w[k].skip = nodes[k].skip + span
        <5>1. i \in 1 .. i
          BY <1>1
        <5> QED
          BY <1>2, <1>4, <1>7, <3>3, <5>1
      <4> QED
        BY <3>2, <4>1
    <3>4. CASE k # i
      <4>1. k \in i + 1 .. n
        BY <1>1, <3>4
      <4>2. PosIn(w, k) = PosIn(nodes, k) + span /\ w[k] = nodes[k]
        BY <1>4, <2>2, <3>1, <3>4, <4>1
      <4>3. \A p, m \in Nat : (p + span) + 1 + m = (p + 1 + m) + span
        OBVIOUS
      <4> QED
        BY <3>2, <4>2, <4>3
    <3> QED
      BY <3>3, <3>4
  <2>3. \A k \in Nat : k \in S
    <3> HIDE DEF S
    <3> QED
      BY <2>1, <2>2, NumberInduction
  <2>4. \A k \in i + 1 .. n : k \in Nat
    BY <1>1
  <2> QED
    BY <2>3, <2>4
<1> QED
  BY <1>4, <1>5, <1>6, <1>7, <1>8

(* A node before the first moves all.                                       *)
NodeBefore(nodes, new, span) == <<[new EXCEPT !.skip = span - 1]>> \o nodes

LEMMA Prepended ==
  ASSUME NEW Nodes, NEW nodes, IsList(nodes, Nodes), NEW new \in Nodes,
         NEW span \in Nat \ {0},
         NEW w, w = NodeBefore(nodes, new, span)
  PROVE  /\ IsList(w, Nodes) /\ Len(w) = Len(nodes) + 1
         /\ Same(w[1], new)
         /\ \A k \in 1 .. Len(nodes) : /\ Same(w[k + 1], nodes[k])
                                      /\ PosIn(w, k + 1) = PosIn(nodes, k) + span
<1> DEFINE n == Len(nodes)
           e == [new EXCEPT !.skip = span - 1]
           one == <<e>>
<1>1. /\ n \in Nat \ {0} /\ DOMAIN nodes = 1 .. n
      /\ \A k \in 1 .. n : nodes[k] \in Nodes /\ nodes[k].skip \in Nat
      /\ nodes \in Seq(Nodes) /\ IsKind(Nodes)
  BY ListFacts DEF IsList
<1>2. e \in Nodes /\ e.skip = span - 1 /\ Same(e, new)
  <2>1. span - 1 \in Nat
    OBVIOUS
  <2> QED
    BY <1>1, <2>1 DEF IsKind, Same
<1> HIDE DEF e
<1>3. one \in Seq(Nodes) /\ Len(one) = 1 /\ one[1] = e
  BY <1>2
<1>4. w = one \o nodes
  BY DEF e, NodeBefore
<1> HIDE DEF one
<1>5. /\ w \in Seq(Nodes) /\ Len(w) = n + 1
      /\ \A k \in 1 .. n + 1 : w[k] = IF k <= 1 THEN one[k] ELSE nodes[k - 1]
  <2>1. /\ w \in Seq(Nodes) /\ Len(w) = Len(one) + Len(nodes)
        /\ \A k \in 1 .. Len(one) + Len(nodes) :
              w[k] = IF k <= Len(one) THEN one[k] ELSE nodes[k - Len(one)]
    <3>1. one \in Seq(Nodes) /\ nodes \in Seq(Nodes)
      BY <1>1, <1>3
    <3> QED
      BY <1>4, <3>1, ConcatProperties
  <2>2. n = Len(nodes) /\ 1 + n = n + 1
    BY <1>1
  <2> HIDE DEF n
  <2> QED
    BY <1>1, <1>3, <2>1, <2>2
<1>6. w[1] = e /\ w # <<>>
  <2>1. 1 \in 1 .. n + 1 /\ 1 <= 1 /\ n + 1 # 0
    BY <1>1
  <2> QED
    BY <1>3, <1>5, <2>1
<1>7. ASSUME NEW k \in 1 .. n PROVE w[k + 1] = nodes[k]
  <2>1. k + 1 \in 1 .. n + 1 /\ ~(k + 1 <= 1) /\ (k + 1) - 1 = k
    BY <1>1
  <2> QED
    BY <1>5, <2>1
<1>8. \A k \in 1 .. n : PosIn(w, k + 1) = PosIn(nodes, k) + span
  <2> DEFINE S == {k \in Nat : k \in 1 .. n => PosIn(w, k + 1) = PosIn(nodes, k) + span}
  <2>1. 0 \in S
    BY <1>1
  <2>2. ASSUME NEW k \in Nat, k \in S PROVE k + 1 \in S
    <3> SUFFICES ASSUME k + 1 \in 1 .. n
                 PROVE  PosIn(w, (k + 1) + 1) = PosIn(nodes, k + 1) + span
      OBVIOUS
    <3>1. CASE k = 0
      <4>1. PosIn(w, 1) = 0 /\ PosIn(w, 1 + 1) = PosIn(w, 1) + 1 + w[1].skip
            /\ PosIn(nodes, 1) = 0
        <5>1. 1 \in Nat \ {0}
          OBVIOUS
        <5> QED
          BY <5>1, PosStep
      <4>2. PosIn(w, 1 + 1) = 0 + 1 + (span - 1)
        BY <1>2, <1>6, <4>1
      <4> QED
        BY <3>1, <4>1, <4>2
    <3>2. CASE k # 0
      <4>1. k \in 1 .. n /\ k \in Nat \ {0} /\ k + 1 \in Nat \ {0}
        BY <1>1, <3>2
      <4>2. /\ PosIn(w, (k + 1) + 1) = PosIn(w, k + 1) + 1 + w[k + 1].skip
            /\ PosIn(nodes, k + 1) = PosIn(nodes, k) + 1 + nodes[k].skip
            /\ PosIn(nodes, k) \in Nat /\ nodes[k].skip \in Nat
        BY <1>1, <4>1, PosStep, PosMono
      <4>3. PosIn(w, k + 1) = PosIn(nodes, k) + span /\ w[k + 1] = nodes[k]
        BY <1>7, <2>2, <4>1
      <4>4. \A p, m \in Nat : (p + span) + 1 + m = (p + 1 + m) + span
        OBVIOUS
      <4> QED
        BY <4>2, <4>3, <4>4
    <3> QED
      BY <3>1, <3>2
  <2>3. \A k \in Nat : k \in S
    <3> HIDE DEF S
    <3> QED
      BY <2>1, <2>2, NumberInduction
  <2>4. \A k \in 1 .. n : k \in Nat
    BY <1>1
  <2> QED
    BY <2>3, <2>4
<1>9. IsList(w, Nodes)
  BY <1>1, <1>5, <1>6 DEF IsList
<1>10. \A k \in 1 .. n : Same(w[k + 1], nodes[k])
  BY <1>1, <1>7, SameAs
<1> QED
  BY <1>2, <1>5, <1>6, <1>8, <1>9, <1>10

(* What insertion does to the nodes of a list.                              *)
Moved(p, at, span) == IF p < at THEN p ELSE p + span

ListMoved(nodes, w, at, span, new) ==
    \E d \in {0, 1} :
       /\ Len(w) = Len(nodes) + d
       /\ d = 1 => Same(w[1], new)
       /\ \A k \in 1 .. Len(nodes) :
             /\ Same(w[k + d], nodes[k])
             /\ PosIn(w, k + d) = Moved(PosIn(nodes, k), at, span)

LEMMA AsBefore ==
  ASSUME NEW Nodes, NEW nodes, IsList(nodes, Nodes), NEW at, NEW span,
         NEW w, IsList(w, Nodes), Len(w) = Len(nodes), NEW new,
         \A k \in 1 .. Len(nodes) : /\ Same(w[k], nodes[k])
                                  /\ PosIn(w, k) = Moved(PosIn(nodes, k), at, span)
  PROVE  ListMoved(nodes, w, at, span, new)
<1>1. Len(nodes) \in Nat /\ Len(nodes) + 0 = Len(nodes) /\ \A k \in 1 .. Len(nodes) : k + 0 = k
  BY ListFacts
<1> QED
  BY <1>1 DEF ListMoved

LEMMA WidenedAt ==
  ASSUME NEW Nodes, NEW nodes, IsList(nodes, Nodes), NEW at \in Nat, NEW new \in Nodes,
         NEW span \in Nat \ {0},
         NEW w, w = Widened(nodes, at, span, new)
  PROVE  IsList(w, Nodes) /\ ListMoved(nodes, w, at, span, new)
<1> DEFINE n == Len(nodes)
           i == Lookup(nodes, at)
           P(k) == PosIn(nodes, k)
<1>1. /\ n \in Nat \ {0} /\ i \in 1 .. n
      /\ \A k \in 1 .. n : nodes[k] \in Nodes /\ nodes[k].skip \in Nat /\ P(k) \in Nat
      /\ IsKind(Nodes)
  BY ListFacts, PosMono, LookupBefore DEF IsList
<1>2. P(i) <= at
  BY LookupBefore
<1>3. i = n \/ at <= P(i) + nodes[i].skip
  BY LookupReaches DEF Reaches
<1>4. \A k \in 1 .. n : \A j \in 1 .. k - 1 : P(j) + nodes[j].skip < P(k)
  BY PosMono
<1>5. w = IF at > P(i)
          THEN IF i < n THEN SkipMore(nodes, i, span) ELSE nodes
          ELSE IF i > 1 THEN SkipMore(nodes, i - 1, span) ELSE NodeBefore(nodes, new, span)
  BY DEF Widened, SkipMore, NodeBefore
<1> HIDE DEF i, P, n
<1>6. ASSUME NEW j \in 1 .. n, NEW k \in 1 .. n, j < k PROVE P(j) + nodes[j].skip < P(k)
  <2>1. j \in 1 .. k - 1
    BY <1>1, <1>6
  <2> QED
    BY <1>4, <2>1
<1>7. CASE at > P(i) /\ i < n
  <2>1. w = SkipMore(nodes, i, span)
    BY <1>5, <1>7
  <2>2. /\ IsList(w, Nodes) /\ Len(w) = n
        /\ \A k \in 1 .. n : Same(w[k], nodes[k])
        /\ \A k \in 1 .. i : PosIn(w, k) = P(k)
        /\ \A k \in i + 1 .. n : PosIn(w, k) = P(k) + span
    <3>1. i \in 1 .. Len(nodes) /\ span \in Nat
      BY <1>1, <2>1 DEF n
    <3>2. /\ IsList(w, Nodes) /\ Len(w) = Len(nodes)
          /\ \A k \in 1 .. Len(nodes) : Same(w[k], nodes[k])
          /\ \A k \in 1 .. i : PosIn(w, k) = PosIn(nodes, k)
          /\ \A k \in i + 1 .. Len(nodes) : PosIn(w, k) = PosIn(nodes, k) + span
      BY <2>1, <3>1, SkippedMore
    <3> QED
      BY <3>2 DEF n, P
  <2>3. ASSUME NEW k \in 1 .. n PROVE PosIn(w, k) = Moved(P(k), at, span)
    <3>1. CASE k <= i
      <4>1. P(k) < at
        BY <1>1, <1>6, <1>7, <3>1
      <4>2. k \in 1 .. i
        BY <1>1, <3>1
      <4> QED
        BY <2>2, <4>1, <4>2 DEF Moved
    <3>2. CASE k > i
      <4>1. ~(P(k) < at)
        BY <1>1, <1>3, <1>6, <1>7, <3>2
      <4>2. k \in i + 1 .. n
        BY <1>1, <3>2
      <4> QED
        BY <2>2, <4>1, <4>2 DEF Moved
    <3> QED
      BY <1>1, <3>1, <3>2
  <2> QED
    BY <1>1, <2>2, <2>3, AsBefore DEF n, P
<1>8. CASE at > P(i) /\ ~(i < n)
  <2>1. w = nodes /\ i = n
    BY <1>1, <1>5, <1>8
  <2>2. ASSUME NEW k \in 1 .. n PROVE PosIn(w, k) = Moved(P(k), at, span) /\ Same(w[k], nodes[k])
    <3>1. P(k) < at
      BY <1>1, <1>6, <1>8, <2>1
    <3> QED
      BY <1>1, <2>1, <3>1, SameAs DEF Moved, P
  <2> QED
    BY <1>1, <2>1, <2>2, AsBefore DEF n, P
<1>9. CASE ~(at > P(i)) /\ i > 1
  <2>1. w = SkipMore(nodes, i - 1, span) /\ i - 1 \in 1 .. n
    BY <1>1, <1>5, <1>9
  <2>2. /\ IsList(w, Nodes) /\ Len(w) = n
        /\ \A k \in 1 .. n : Same(w[k], nodes[k])
        /\ \A k \in 1 .. i - 1 : PosIn(w, k) = P(k)
        /\ \A k \in (i - 1) + 1 .. n : PosIn(w, k) = P(k) + span
    <3>1. i - 1 \in 1 .. Len(nodes) /\ span \in Nat
      BY <1>1, <2>1 DEF n
    <3>2. /\ IsList(w, Nodes) /\ Len(w) = Len(nodes)
          /\ \A k \in 1 .. Len(nodes) : Same(w[k], nodes[k])
          /\ \A k \in 1 .. i - 1 : PosIn(w, k) = PosIn(nodes, k)
          /\ \A k \in (i - 1) + 1 .. Len(nodes) : PosIn(w, k) = PosIn(nodes, k) + span
      BY <2>1, <3>1, SkippedMore
    <3> QED
      BY <3>2 DEF n, P
  <2>3. ASSUME NEW k \in 1 .. n PROVE PosIn(w, k) = Moved(P(k), at, span)
    <3>1. CASE k < i
      <4>1. P(k) < at
        BY <1>1, <1>2, <1>6, <3>1
      <4>2. k \in 1 .. i - 1
        BY <1>1, <3>1
      <4> QED
        BY <2>2, <4>1, <4>2 DEF Moved
    <3>2. CASE k >= i
      <4>1. ~(P(k) < at)
        BY <1>1, <1>6, <1>9, <3>2
      <4>2. k \in (i - 1) + 1 .. n
        BY <1>1, <3>2
      <4> QED
        BY <2>2, <4>1, <4>2 DEF Moved
    <3> QED
      BY <1>1, <3>1, <3>2
  <2> QED
    BY <1>1, <2>2, <2>3, AsBefore DEF n, P
<1>10. CASE ~(at > P(i)) /\ ~(i > 1)
  <2>1. w = NodeBefore(nodes, new, span) /\ i = 1
    BY <1>1, <1>5, <1>10
  <2>2. /\ IsList(w, Nodes) /\ Len(w) = n + 1 /\ Same(w[1], new)
        /\ \A k \in 1 .. n : Same(w[k + 1], nodes[k]) /\ PosIn(w, k + 1) = P(k) + span
    <3>1. /\ IsList(w, Nodes) /\ Len(w) = Len(nodes) + 1 /\ Same(w[1], new)
          /\ \A k \in 1 .. Len(nodes) : /\ Same(w[k + 1], nodes[k])
                                       /\ PosIn(w, k + 1) = PosIn(nodes, k) + span
      <4>1. w = NodeBefore(nodes, new, span)
        BY <2>1
      <4>2. IsList(w, Nodes) /\ Len(w) = Len(nodes) + 1 
        BY <4>1, Prepended
      <4>3. Same(w[1], new)
        BY <4>1, Prepended
      <4>4. \A k \in 1 .. Len(nodes) : Same(w[k + 1], nodes[k])
        BY <4>1, Prepended
      <4>5. \A k \in 1 .. Len(nodes) : PosIn(w, k + 1) = PosIn(nodes, k) + span
        BY <4>1, Prepended
      <4> QED
        BY <4>2, <4>3, <4>4, <4>5
    <3> QED
      BY <3>1 DEF n, P
  <2>3. at = 0
    <3>1. 1 \in Nat \ {0} => PosIn(nodes, 1) = 0
      BY PosStep
    <3> QED
      BY <1>10, <2>1, <3>1 DEF P
  <2>4. ASSUME NEW k \in 1 .. n
        PROVE  Same(w[k + 1], nodes[k]) /\ PosIn(w, k + 1) = Moved(P(k), at, span)
    BY <1>1, <2>2, <2>3, SameAs DEF Moved
  <2> QED
    BY <2>2, <2>4 DEF n, P, ListMoved
<1> QED
  BY <1>7, <1>8, <1>9, <1>10

(* What making room for a position does to the nodes of a list.             *)
RoomMade(nodes, w, at, new) ==
    /\ Lookup(w, at) \in 1 .. Len(w) /\ PosIn(w, Lookup(w, at)) = at
    /\ \A k \in 1 .. Len(nodes) : \E m \in 1 .. Len(w) :
           PosIn(w, m) = PosIn(nodes, k) /\ Same(w[m], nodes[k])
    /\ \A m \in 1 .. Len(w) :
           \/ Same(w[m], new)
           \/ \E k \in 1 .. Len(nodes) :
                 PosIn(w, m) = PosIn(nodes, k) /\ Same(w[m], nodes[k])

LEMMA WithNodeKeeps ==
  ASSUME NEW Nodes, NEW nodes, IsList(nodes, Nodes), NEW at \in Nat, NEW new \in Nodes,
         NEW w, w = WithNode(nodes, at, new)
  PROVE  IsList(w, Nodes) /\ RoomMade(nodes, w, at, new)
<1> DEFINE i == Lookup(nodes, at)
           n == Len(nodes)
<1>1. /\ n \in Nat \ {0} /\ i \in 1 .. n /\ IsKind(Nodes)
      /\ \A k \in 1 .. n : nodes[k] \in Nodes
  BY ListFacts, LookupBefore DEF IsList
<1>2. CASE PosIn(nodes, i) = at
  <2>1. w = nodes
    <3>1. at - PosIn(nodes, i) = 0
      BY <1>2
    <3> QED
      BY <3>1 DEF WithNode
  <2>2. \A k \in 1 .. n : Same(nodes[k], nodes[k])
    BY <1>1, SameAs
  <2> QED
    BY <1>1, <1>2, <2>1, <2>2 DEF RoomMade
<1>3. CASE PosIn(nodes, i) # at
  <2>1. /\ IsList(w, Nodes) /\ Len(w) = n + 1
        /\ PosIn(w, i + 1) = at /\ Same(w[i + 1], new)
        /\ \A k \in 1 .. i : PosIn(w, k) = PosIn(nodes, k) /\ Same(w[k], nodes[k])
        /\ \A k \in i + 1 .. n :
               PosIn(w, k + 1) = PosIn(nodes, k) /\ Same(w[k + 1], nodes[k])
    BY <1>3, WithNodeAt
  <2> HIDE DEF i, n
  <2>2. Lookup(w, at) = i + 1 /\ i + 1 \in 1 .. Len(w)
    <3>1. i + 1 \in 1 .. Len(w)
      BY <1>1, <2>1
    <3>2. Lookup(w, PosIn(w, i + 1)) = i + 1
      BY <2>1, <3>1, LookupAt
    <3> QED
      BY <2>1, <3>1, <3>2
  <2>3. ASSUME NEW k \in 1 .. n
        PROVE  \E m \in 1 .. Len(w) : PosIn(w, m) = PosIn(nodes, k) /\ Same(w[m], nodes[k])
    <3>1. CASE k <= i
      <4>1. k \in 1 .. i /\ k \in 1 .. Len(w)
        BY <1>1, <2>1, <3>1
      <4> QED
        BY <2>1, <4>1
    <3>2. CASE ~(k <= i)
      <4>1. k \in i + 1 .. n /\ k + 1 \in 1 .. Len(w)
        BY <1>1, <2>1, <3>2
      <4> QED
        BY <2>1, <4>1
    <3> QED
      BY <3>1, <3>2
  <2>4. ASSUME NEW m \in 1 .. Len(w)
        PROVE  \/ Same(w[m], new)
               \/ \E k \in 1 .. n : PosIn(w, m) = PosIn(nodes, k) /\ Same(w[m], nodes[k])
    <3>1. CASE m <= i
      <4>1. m \in 1 .. i /\ m \in 1 .. n
        BY <1>1, <2>1, <3>1
      <4> QED
        BY <2>1, <4>1
    <3>2. CASE m = i + 1
      BY <2>1, <3>2
    <3>3. CASE ~(m <= i) /\ m # i + 1
      <4>1. m - 1 \in i + 1 .. n /\ m - 1 \in 1 .. n /\ (m - 1) + 1 = m
        BY <1>1, <2>1, <3>3
      <4>2. PosIn(w, (m - 1) + 1) = PosIn(nodes, m - 1) /\ Same(w[(m - 1) + 1], nodes[m - 1])
        BY <2>1, <4>1
      <4> QED
        BY <4>1, <4>2
    <3> QED
      BY <3>1, <3>2, <3>3
  <2> QED
    BY <2>1, <2>2, <2>3, <2>4 DEF n, RoomMade
<1> QED
  BY <1>2, <1>3

------------------------------------------------------------------------------
(* Tables of texts in T: rows and cells are lists.                          *)
Cell(T) == [skip : Nat, text : T \cup {NoText}]
Row(T) == [skip : Nat, cells : Seq(Cell(T)) \ {<<>>}]
IsTable(T, t) == t \in Seq(Row(T)) \ {<<>>}

LEMMA Kinds ==
  ASSUME NEW T
  PROVE  IsKind(Cell(T)) /\ IsKind(Row(T)) /\ EmptyCell \in Cell(T) /\ EmptyRow \in Row(T)
<1>1. IsKind(Cell(T))
  BY DEF IsKind, Cell
<1>2. IsKind(Row(T))
  BY DEF IsKind, Row
<1>3. EmptyCell \in Cell(T)
  BY DEF EmptyCell, Cell
<1>4. <<EmptyCell>> \in Seq(Cell(T)) /\ <<EmptyCell>> # <<>>
  BY <1>3
<1>5. EmptyRow \in Row(T)
  BY <1>4 DEF EmptyRow, Row
<1> QED
  BY <1>1, <1>2, <1>3, <1>5

LEMMA TableLists ==
  ASSUME NEW T, NEW t, IsTable(T, t)
  PROVE  /\ IsList(t, Row(T)) /\ Len(t) \in Nat \ {0} /\ DOMAIN t = 1 .. Len(t)
         /\ \A r \in 1 .. Len(t) : t[r] \in Row(T) /\ IsList(t[r].cells, Cell(T))
<1>1. IsList(t, Row(T))
  BY Kinds DEF IsTable, IsList
<1>2. Len(t) \in Nat \ {0} /\ DOMAIN t = 1 .. Len(t) /\ \A r \in 1 .. Len(t) : t[r] \in Row(T)
  BY <1>1, ListFacts
<1>3. \A row \in Row(T) : IsList(row.cells, Cell(T))
  BY Kinds DEF Row, IsList
<1> QED
  BY <1>1, <1>2, <1>3

LEMMA SameParts ==
  ASSUME NEW T
  PROVE
  /\ \A e \in Cell(T) : \A f : Same(f, e) => f \in Cell(T) /\ f.text = e.text
  /\ \A e \in Row(T) : \A f : Same(f, e) => f \in Row(T) /\ f.cells = e.cells
<1>1. ASSUME NEW e \in Cell(T), NEW f, Same(f, e) PROVE f \in Cell(T) /\ f.text = e.text
  BY <1>1 DEF Same, Cell
<1>2. ASSUME NEW e \in Row(T), NEW f, Same(f, e) PROVE f \in Row(T) /\ f.cells = e.cells
  BY <1>2 DEF Same, Row
<1> QED
  BY <1>1, <1>2

(* A text is in a row at a column, and in a table at a place.               *)
HasText(cells, col, text) ==
    text # NoText /\ \E c \in 1 .. Len(cells) : PosIn(cells, c) = col /\ cells[c].text = text
Holds(t, col, line, text) ==
    \E r \in 1 .. Len(t) : PosIn(t, r) = line /\ HasText(t[r].cells, col, text)
CellsOf(t) == {<<ColIn(t, rc), PosIn(t, rc[1]), TextIn(t, rc)>> : rc \in Filled(t)}

LEMMA CellsHold ==
  ASSUME NEW T, NEW t, IsTable(T, t), NEW e
  PROVE  e \in CellsOf(t) <=>
           \E col, line \in Nat, text \in T :
               e = <<col, line, text>> /\ Holds(t, col, line, text)
<1>1. /\ Len(t) \in Nat \ {0} /\ DOMAIN t = 1 .. Len(t) /\ IsList(t, Row(T))
      /\ \A r \in 1 .. Len(t) : t[r] \in Row(T) /\ IsList(t[r].cells, Cell(T))
  BY TableLists
<1>2. \A r \in 1 .. Len(t) : /\ DOMAIN t[r].cells = 1 .. Len(t[r].cells)
                             /\ \A c \in 1 .. Len(t[r].cells) :
                                   /\ t[r].cells[c].text \in T \cup {NoText}
                                   /\ PosIn(t[r].cells, c) \in Nat
                             /\ PosIn(t, r) \in Nat
  <2>1. ASSUME NEW r \in 1 .. Len(t)
        PROVE  /\ DOMAIN t[r].cells = 1 .. Len(t[r].cells)
               /\ \A c \in 1 .. Len(t[r].cells) :
                     t[r].cells[c] \in Cell(T) /\ PosIn(t[r].cells, c) \in Nat
               /\ PosIn(t, r) \in Nat
    BY <1>1, ListFacts, PosMono
  <2>2. \A x \in Cell(T) : x.text \in T \cup {NoText}
    BY DEF Cell
  <2> QED
    BY <2>1, <2>2
<1>3. ASSUME e \in CellsOf(t)
      PROVE  \E col, line \in Nat, text \in T :
                e = <<col, line, text>> /\ Holds(t, col, line, text)
  <2>1. PICK rc \in Filled(t) : e = <<ColIn(t, rc), PosIn(t, rc[1]), TextIn(t, rc)>>
    BY <1>3 DEF CellsOf
  <2>2. PICK r \in 1 .. Len(t) : rc \in {r} \X DOMAIN t[r].cells /\ TextIn(t, rc) # NoText
    BY <1>1, <2>1 DEF Filled
  <2>3. PICK c \in 1 .. Len(t[r].cells) : rc = <<r, c>>
    BY <1>2, <2>2
  <2>4. e = <<PosIn(t[r].cells, c), PosIn(t, r), t[r].cells[c].text>> /\ t[r].cells[c].text # NoText
    BY <2>1, <2>2, <2>3 DEF ColIn, TextIn
  <2>5. PosIn(t[r].cells, c) \in Nat /\ PosIn(t, r) \in Nat /\ t[r].cells[c].text \in T
    BY <1>2, <2>4
  <2>6. Holds(t, PosIn(t[r].cells, c), PosIn(t, r), t[r].cells[c].text)
    BY <2>4 DEF Holds, HasText
  <2> QED
    BY <2>4, <2>5, <2>6
<1>4. ASSUME NEW col, NEW line, NEW text, e = <<col, line, text>>, Holds(t, col, line, text)
      PROVE  e \in CellsOf(t)
  <2>1. PICK r \in 1 .. Len(t) : PosIn(t, r) = line /\ HasText(t[r].cells, col, text)
    BY <1>4 DEF Holds
  <2>2. PICK c \in 1 .. Len(t[r].cells) :
             PosIn(t[r].cells, c) = col /\ t[r].cells[c].text = text /\ text # NoText
    BY <2>1 DEF HasText
  <2> DEFINE rc == <<r, c>>
  <2>3. rc[1] = r /\ rc[2] = c /\ rc \in {r} \X DOMAIN t[r].cells
    BY <1>2
  <2> HIDE DEF rc
  <2>4. TextIn(t, rc) = text /\ ColIn(t, rc) = col
    BY <2>2, <2>3 DEF TextIn, ColIn
  <2>5. rc \in Filled(t)
    BY <1>1, <2>2, <2>3, <2>4 DEF Filled
  <2> QED
    BY <1>4, <2>1, <2>3, <2>4, <2>5 DEF CellsOf
<1> QED
  BY <1>3, <1>4

(* Positions tell the nodes of a list apart.                                *)
LEMMA PosOnce ==
  ASSUME NEW Nodes, NEW nodes, IsList(nodes, Nodes),
         NEW i \in 1 .. Len(nodes), NEW j \in 1 .. Len(nodes), PosIn(nodes, i) = PosIn(nodes, j)
  PROVE  i = j
<1>1. Lookup(nodes, PosIn(nodes, i)) = i /\ Lookup(nodes, PosIn(nodes, j)) = j
  BY LookupAt
<1> QED
  BY <1>1

(* A list of cells where one of them has another text.                      *)
TextPut(cells, c, text) == [cells EXCEPT ![c].text = text]
TextChanged(cells, w, col, text) ==
    \A x, z : HasText(w, x, z) <=>
                IF x = col THEN z = text /\ z # NoText ELSE HasText(cells, x, z)

LEMMA TextSet ==
  ASSUME NEW T, NEW cells, IsList(cells, Cell(T)), NEW c \in 1 .. Len(cells),
         NEW text \in T \cup {NoText},
         NEW w, w = TextPut(cells, c, text)
  PROVE  IsList(w, Cell(T)) /\ TextChanged(cells, w, PosIn(cells, c), text)
<1> DEFINE n == Len(cells)
           e == [cells[c] EXCEPT !.text = text]
<1>1. /\ n \in Nat \ {0} /\ \A k \in 1 .. n : cells[k] \in Cell(T)
      /\ cells \in Seq(Cell(T))
  BY ListFacts DEF IsList
<1>2. e \in Cell(T) /\ e.skip = cells[c].skip /\ e.text = text
  BY <1>1 DEF Cell
<1>3. w = [cells EXCEPT ![c] = e]
  BY DEF TextPut
<1> HIDE DEF e
<1>4. w \in Seq(Cell(T)) /\ Len(w) = n /\ \A k \in 1 .. n : w[k] = IF k = c THEN e ELSE cells[k]
  BY <1>1, <1>2, <1>3, ExceptSeq
<1>5. IsList(w, Cell(T))
  <2>1. w # <<>>
    BY <1>1, <1>4
  <2> QED
    BY <1>4, <2>1, Kinds DEF IsList
<1>6. ASSUME NEW k \in 1 .. n PROVE PosIn(w, k) = PosIn(cells, k)
  <2>1. k \in Nat \ {0} /\ \A j \in 1 .. k - 1 : j \in 1 .. n
    BY <1>1
  <2>2. \A j \in 1 .. k - 1 : w[j].skip = cells[j].skip
    BY <1>2, <1>4, <2>1
  <2> QED
    BY <2>1, <2>2, PosSame
<1>7. ASSUME NEW x, NEW z, x = PosIn(cells, c)
      PROVE  HasText(w, x, z) <=> z = text /\ z # NoText
  <2>1. \A k \in 1 .. n : PosIn(w, k) = x <=> k = c
    BY <1>6, <1>7, PosOnce
  <2>2. c \in 1 .. Len(w) /\ w[c].text = text
    BY <1>2, <1>4
  <2> QED
    BY <1>4, <2>1, <2>2 DEF HasText
<1>8. ASSUME NEW x, NEW z, x # PosIn(cells, c)
      PROVE  HasText(w, x, z) <=> HasText(cells, x, z)
  <2>1. \A k \in 1 .. n : PosIn(w, k) = x => k # c
    BY <1>6, <1>8
  <2>2. \A k \in 1 .. n : PosIn(cells, k) = x => k # c
    BY <1>8
  <2> QED
    BY <1>4, <1>6, <2>1, <2>2 DEF HasText
<1> QED
  BY <1>5, <1>7, <1>8 DEF TextChanged

(* Setting a text in the cells of a row, and in the rows of a table.        *)
LEMMA CellSet ==
  ASSUME NEW T, NEW nodes, IsList(nodes, Cell(T)), NEW col \in Nat, NEW text \in T \cup {NoText},
         NEW cells, cells = WithNode(nodes, col, EmptyCell),
         NEW w, w = TextPut(cells, Lookup(cells, col), text)
  PROVE  IsList(w, Cell(T)) /\ TextChanged(nodes, w, col, text)
<1>1. EmptyCell \in Cell(T) /\ EmptyCell.text = NoText
  BY Kinds DEF EmptyCell
<1>2. IsList(cells, Cell(T)) /\ RoomMade(nodes, cells, col, EmptyCell)
  BY <1>1, WithNodeKeeps
<1>3. /\ Lookup(cells, col) \in 1 .. Len(cells) /\ PosIn(cells, Lookup(cells, col)) = col
      /\ \A k \in 1 .. Len(nodes) : \E m \in 1 .. Len(cells) :
             PosIn(cells, m) = PosIn(nodes, k) /\ Same(cells[m], nodes[k])
      /\ \A m \in 1 .. Len(cells) :
             \/ Same(cells[m], EmptyCell)
             \/ \E k \in 1 .. Len(nodes) :
                   PosIn(cells, m) = PosIn(nodes, k) /\ Same(cells[m], nodes[k])
  BY <1>2 DEF RoomMade
<1>4. \A k \in 1 .. Len(nodes) : nodes[k] \in Cell(T)
  BY ListFacts
<1>5. ASSUME NEW x, NEW z PROVE HasText(cells, x, z) <=> HasText(nodes, x, z)
  <2>1. ASSUME HasText(cells, x, z) PROVE HasText(nodes, x, z)
    <3>1. PICK m \in 1 .. Len(cells) : PosIn(cells, m) = x /\ cells[m].text = z /\ z # NoText
      BY <2>1 DEF HasText
    <3>2. ~Same(cells[m], EmptyCell)
      BY <1>1, <3>1, SameParts
    <3>3. PICK k \in 1 .. Len(nodes) : PosIn(cells, m) = PosIn(nodes, k) /\ Same(cells[m], nodes[k])
      BY <1>3, <3>2
    <3>4. nodes[k].text = z
      BY <1>4, <3>1, <3>3, SameParts
    <3> QED
      BY <3>1, <3>3, <3>4 DEF HasText
  <2>2. ASSUME HasText(nodes, x, z) PROVE HasText(cells, x, z)
    <3>1. PICK k \in 1 .. Len(nodes) : PosIn(nodes, k) = x /\ nodes[k].text = z /\ z # NoText
      BY <2>2 DEF HasText
    <3>2. PICK m \in 1 .. Len(cells) : PosIn(cells, m) = PosIn(nodes, k) /\ Same(cells[m], nodes[k])
      BY <1>3
    <3>3. cells[m].text = z
      BY <1>4, <3>1, <3>2, SameParts
    <3> QED
      BY <3>1, <3>2, <3>3 DEF HasText
  <2> QED
    BY <2>1, <2>2
<1> DEFINE c == Lookup(cells, col)
<1>6. c \in 1 .. Len(cells) /\ PosIn(cells, c) = col /\ w = TextPut(cells, c, text)
  BY <1>3
<1> HIDE DEF c
<1>7. IsList(w, Cell(T)) /\ TextChanged(cells, w, PosIn(cells, c), text)
  BY <1>2, <1>6, TextSet
<1> QED
  BY <1>5, <1>6, <1>7 DEF TextChanged

(* A table where a row has other cells.                                     *)
CellsPut(t, r, cells) == [t EXCEPT ![r].cells = cells]
CellsChanged(t, w, line, cells) ==
    \A x, y, z : Holds(w, x, y, z) <=>
                   IF y = line THEN HasText(cells, x, z) ELSE Holds(t, x, y, z)

LEMMA CellsSet ==
  ASSUME NEW T, NEW t, IsTable(T, t), NEW r \in 1 .. Len(t), NEW cells, IsList(cells, Cell(T)),
         NEW w, w = CellsPut(t, r, cells)
  PROVE  IsTable(T, w) /\ CellsChanged(t, w, PosIn(t, r), cells)
<1> DEFINE n == Len(t)
           e == [t[r] EXCEPT !.cells = cells]
<1>1. /\ n \in Nat \ {0} /\ \A k \in 1 .. n : t[k] \in Row(T)
      /\ t \in Seq(Row(T)) /\ IsList(t, Row(T))
  BY TableLists DEF IsTable
<1>2. e \in Row(T) /\ e.skip = t[r].skip /\ e.cells = cells
  BY <1>1 DEF Row, IsList
<1>3. w = [t EXCEPT ![r] = e]
  BY DEF CellsPut
<1> HIDE DEF e
<1>4. w \in Seq(Row(T)) /\ Len(w) = n /\ \A k \in 1 .. n : w[k] = IF k = r THEN e ELSE t[k]
  BY <1>1, <1>2, <1>3, ExceptSeq
<1>5. IsTable(T, w)
  <2>1. w # <<>>
    BY <1>1, <1>4
  <2> QED
    BY <1>4, <2>1 DEF IsTable
<1>6. ASSUME NEW k \in 1 .. n PROVE PosIn(w, k) = PosIn(t, k)
  <2>1. k \in Nat \ {0} /\ \A j \in 1 .. k - 1 : j \in 1 .. n
    BY <1>1
  <2>2. \A j \in 1 .. k - 1 : w[j].skip = t[j].skip
    BY <1>2, <1>4, <2>1
  <2> QED
    BY <2>1, <2>2, PosSame
<1>7. ASSUME NEW x, NEW y, NEW z, y = PosIn(t, r)
      PROVE  Holds(w, x, y, z) <=> HasText(cells, x, z)
  <2>1. \A k \in 1 .. n : PosIn(w, k) = y <=> k = r
    BY <1>1, <1>6, <1>7, PosOnce
  <2>2. r \in 1 .. Len(w) /\ w[r].cells = cells
    BY <1>2, <1>4
  <2> QED
    BY <1>4, <2>1, <2>2 DEF Holds
<1>8. ASSUME NEW x, NEW y, NEW z, y # PosIn(t, r)
      PROVE  Holds(w, x, y, z) <=> Holds(t, x, y, z)
  <2>1. \A k \in 1 .. n : PosIn(w, k) = y => k # r
    BY <1>6, <1>8
  <2>2. \A k \in 1 .. n : PosIn(t, k) = y => k # r
    BY <1>8
  <2> QED
    BY <1>4, <1>6, <2>1, <2>2 DEF Holds
<1> QED
  BY <1>5, <1>7, <1>8 DEF CellsChanged

LEMMA SetHolds ==
  ASSUME NEW T, NEW t, IsTable(T, t), NEW col \in Nat, NEW line \in Nat,
         NEW text \in T \cup {NoText},
         NEW w, w = SetCell(t, col, line, text)
  PROVE  /\ IsTable(T, w)
         /\ \A x, y, z : Holds(w, x, y, z) <=>
                            IF x = col /\ y = line THEN z = text /\ z # NoText
                            ELSE Holds(t, x, y, z)
<1> DEFINE rows == WithNode(t, line, EmptyRow)
           r == Lookup(rows, line)
           cells == WithNode(rows[r].cells, col, EmptyCell)
           c == Lookup(cells, col)
           new == TextPut(cells, c, text)
<1>1. /\ IsList(t, Row(T)) /\ Len(t) \in Nat \ {0}
      /\ \A k \in 1 .. Len(t) : t[k] \in Row(T)
  BY TableLists
<1>2. EmptyRow \in Row(T) /\ EmptyRow.cells = <<EmptyCell>> /\ EmptyCell.text = NoText
  BY Kinds DEF EmptyRow, EmptyCell
<1>3. \A x, z : ~HasText(<<EmptyCell>>, x, z)
  BY <1>2 DEF HasText
<1>4. w = CellsPut(rows, r, new)
  BY DEF SetCell, CellsPut, TextPut
<1>5. new = TextPut(cells, Lookup(cells, col), text)
  OBVIOUS
<1> HIDE DEF new
<1>6. cells = WithNode(rows[r].cells, col, EmptyCell)
  OBVIOUS
<1> HIDE DEF cells
<1>7. r = Lookup(rows, line)
  OBVIOUS
<1> HIDE DEF r
<1>8. rows = WithNode(t, line, EmptyRow)
  OBVIOUS
<1> HIDE DEF rows
<1>8a. IsList(rows, Row(T)) /\ RoomMade(t, rows, line, EmptyRow)
  BY <1>1, <1>2, <1>8, WithNodeKeeps
<1>9. /\ IsList(rows, Row(T))
      /\ r \in 1 .. Len(rows) /\ PosIn(rows, r) = line
      /\ \A k \in 1 .. Len(t) : \E m \in 1 .. Len(rows) :
             PosIn(rows, m) = PosIn(t, k) /\ Same(rows[m], t[k])
      /\ \A m \in 1 .. Len(rows) :
             \/ Same(rows[m], EmptyRow)
             \/ \E k \in 1 .. Len(t) :
                   PosIn(rows, m) = PosIn(t, k) /\ Same(rows[m], t[k])
  BY <1>7, <1>8a DEF RoomMade
<1>10. IsTable(T, rows)
  BY <1>9 DEF IsList, IsTable
<1>11. ASSUME NEW x, NEW y, NEW z PROVE Holds(rows, x, y, z) <=> Holds(t, x, y, z)
  <2>1. ASSUME Holds(rows, x, y, z) PROVE Holds(t, x, y, z)
    <3>1. PICK m \in 1 .. Len(rows) : PosIn(rows, m) = y /\ HasText(rows[m].cells, x, z)
      BY <2>1 DEF Holds
    <3>2. ~Same(rows[m], EmptyRow)
      BY <1>2, <1>3, <3>1, SameParts
    <3>3. PICK k \in 1 .. Len(t) : PosIn(rows, m) = PosIn(t, k) /\ Same(rows[m], t[k])
      BY <1>9, <3>2
    <3>4. rows[m].cells = t[k].cells
      BY <1>1, <3>3, SameParts
    <3> QED
      BY <3>1, <3>3, <3>4 DEF Holds
  <2>2. ASSUME Holds(t, x, y, z) PROVE Holds(rows, x, y, z)
    <3>1. PICK k \in 1 .. Len(t) : PosIn(t, k) = y /\ HasText(t[k].cells, x, z)
      BY <2>2 DEF Holds
    <3>2. PICK m \in 1 .. Len(rows) : PosIn(rows, m) = PosIn(t, k) /\ Same(rows[m], t[k])
      BY <1>9
    <3>3. rows[m].cells = t[k].cells
      BY <1>1, <3>2, SameParts
    <3> QED
      BY <3>1, <3>2, <3>3 DEF Holds
  <2> QED
    BY <2>1, <2>2
<1>12. IsList(rows[r].cells, Cell(T))
  BY <1>9, <1>10, TableLists
<1>13. IsList(new, Cell(T)) /\ TextChanged(rows[r].cells, new, col, text)
  BY <1>5, <1>6, <1>12, CellSet
<1>14. IsTable(T, w) /\ CellsChanged(rows, w, PosIn(rows, r), new)
  BY <1>4, <1>9, <1>10, <1>13, CellsSet
<1>15. \A x, z : HasText(rows[r].cells, x, z) <=> Holds(rows, x, line, z)
  <2>1. \A k \in 1 .. Len(rows) : PosIn(rows, k) = line <=> k = r
    BY <1>9, PosOnce
  <2> QED
    BY <1>9, <2>1 DEF Holds
<1> QED
  BY <1>9, <1>11, <1>13, <1>14, <1>15 DEF TextChanged, CellsChanged

(* The places of texts are numbers.                                         *)
LEMMA PlacesNat ==
  ASSUME NEW T, NEW t, IsTable(T, t), NEW x, NEW y, NEW z, Holds(t, x, y, z)
  PROVE  x \in Nat /\ y \in Nat
<1>1. PICK r \in 1 .. Len(t) : PosIn(t, r) = y /\ HasText(t[r].cells, x, z)
  BY DEF Holds
<1>2. IsList(t, Row(T)) /\ IsList(t[r].cells, Cell(T))
  BY TableLists
<1>3. y \in Nat
  BY <1>1, <1>2, PosMono
<1>4. PICK c \in 1 .. Len(t[r].cells) : PosIn(t[r].cells, c) = x
  BY <1>1 DEF HasText
<1>5. x \in Nat
  BY <1>2, <1>4, PosMono
<1> QED
  BY <1>3, <1>5

LEMMA HeldText ==
  ASSUME NEW T, NEW t, IsTable(T, t), NEW x, NEW y, NEW z, Holds(t, x, y, z)
  PROVE  z \in T
<1>1. PICK r \in 1 .. Len(t) : HasText(t[r].cells, x, z)
  BY DEF Holds
<1>2. IsList(t[r].cells, Cell(T))
  BY TableLists
<1>3. PICK c \in 1 .. Len(t[r].cells) : t[r].cells[c].text = z /\ z # NoText
  BY <1>1 DEF HasText
<1>4. t[r].cells[c] \in Cell(T)
  BY <1>2, ListFacts
<1> QED
  BY <1>3, <1>4 DEF Cell

(* The nodes of a moved list are those of the list, and maybe a new one.    *)
LEMMA MovedNodes ==
  ASSUME NEW Nodes, NEW nodes, IsList(nodes, Nodes), NEW w, IsList(w, Nodes),
         NEW at, NEW span, NEW new, ListMoved(nodes, w, at, span, new)
  PROVE  /\ \A k \in 1 .. Len(nodes) : \E m \in 1 .. Len(w) :
                PosIn(w, m) = Moved(PosIn(nodes, k), at, span) /\ Same(w[m], nodes[k])
         /\ \A m \in 1 .. Len(w) :
                \/ Same(w[m], new)
                \/ \E k \in 1 .. Len(nodes) :
                      PosIn(w, m) = Moved(PosIn(nodes, k), at, span) /\ Same(w[m], nodes[k])
<1>1. PICK d \in {0, 1} :
       /\ Len(w) = Len(nodes) + d
       /\ d = 1 => Same(w[1], new)
       /\ \A k \in 1 .. Len(nodes) :
             /\ Same(w[k + d], nodes[k])
             /\ PosIn(w, k + d) = Moved(PosIn(nodes, k), at, span)
  BY DEF ListMoved
<1>2. Len(nodes) \in Nat /\ Len(w) \in Nat
  BY ListFacts
<1>3. ASSUME NEW k \in 1 .. Len(nodes)
      PROVE  \E m \in 1 .. Len(w) :
                PosIn(w, m) = Moved(PosIn(nodes, k), at, span) /\ Same(w[m], nodes[k])
  <2>1. k + d \in 1 .. Len(w)
    BY <1>1, <1>2
  <2> QED
    BY <1>1, <2>1
<1>4. ASSUME NEW m \in 1 .. Len(w)
      PROVE  \/ Same(w[m], new)
             \/ \E k \in 1 .. Len(nodes) :
                   PosIn(w, m) = Moved(PosIn(nodes, k), at, span) /\ Same(w[m], nodes[k])
  <2>1. CASE d = 1 /\ m = 1
    BY <1>1, <2>1
  <2>2. CASE ~(d = 1 /\ m = 1)
    <3>1. m - d \in 1 .. Len(nodes) /\ (m - d) + d = m
      BY <1>1, <1>2, <2>2
    <3>2. Same(w[(m - d) + d], nodes[m - d])
          /\ PosIn(w, (m - d) + d) = Moved(PosIn(nodes, m - d), at, span)
      BY <1>1, <3>1
    <3> QED
      BY <3>1, <3>2
  <2> QED
    BY <2>1, <2>2
<1> QED
  BY <1>3, <1>4

LEMMA InsRowsHolds ==
  ASSUME NEW T, NEW t, IsTable(T, t), NEW line \in Nat, NEW span \in Nat,
         NEW w, w = InsRows(t, line, span)
  PROVE  /\ IsTable(T, w)
         /\ \A x, y, z : Holds(w, x, y, z) <=>
                            \E y0 \in Nat : y = Moved(y0, line, span) /\ Holds(t, x, y0, z)
<1>1. CASE span = 0
  <2>1. w = t
    BY <1>1 DEF InsRows
  <2>2. \A p \in Nat : Moved(p, line, span) = p
    BY <1>1 DEF Moved
  <2> QED
    BY <2>1, <2>2, PlacesNat
<1>2. CASE span # 0
  <2>1. IsList(t, Row(T)) /\ EmptyRow \in Row(T) /\ span \in Nat \ {0}
        /\ \A k \in 1 .. Len(t) : t[k] \in Row(T) /\ PosIn(t, k) \in Nat
    BY <1>2, Kinds, TableLists, PosMono
  <2>2. w = Widened(t, line, span, EmptyRow)
    BY <1>2 DEF InsRows
  <2>3. IsList(w, Row(T)) /\ ListMoved(t, w, line, span, EmptyRow)
    BY <2>1, <2>2, WidenedAt
  <2>4. IsTable(T, w)
    BY <2>3 DEF IsList, IsTable
  <2>5. \A x, z : ~HasText(EmptyRow.cells, x, z)
    <3>1. EmptyRow.cells = <<EmptyCell>> /\ EmptyCell.text = NoText
      BY DEF EmptyRow, EmptyCell
    <3> QED
      BY <3>1 DEF HasText
  <2>6. ASSUME NEW x, NEW y, NEW z, Holds(w, x, y, z)
        PROVE  \E y0 \in Nat : y = Moved(y0, line, span) /\ Holds(t, x, y0, z)
    <3>1. PICK m \in 1 .. Len(w) : PosIn(w, m) = y /\ HasText(w[m].cells, x, z)
      BY <2>6 DEF Holds
    <3>2. ~Same(w[m], EmptyRow)
      BY <2>1, <2>5, <3>1, SameParts
    <3>3. PICK k \in 1 .. Len(t) :
               PosIn(w, m) = Moved(PosIn(t, k), line, span) /\ Same(w[m], t[k])
      BY <2>1, <2>3, <3>2, MovedNodes
    <3>4. w[m].cells = t[k].cells
      BY <2>1, <3>3, SameParts
    <3> QED
      BY <2>1, <3>1, <3>3, <3>4 DEF Holds
  <2>7. ASSUME NEW x, NEW y0 \in Nat, NEW z, Holds(t, x, y0, z)
        PROVE  Holds(w, x, Moved(y0, line, span), z)
    <3>1. PICK k \in 1 .. Len(t) : PosIn(t, k) = y0 /\ HasText(t[k].cells, x, z)
      BY <2>7 DEF Holds
    <3>2. PICK m \in 1 .. Len(w) :
               PosIn(w, m) = Moved(PosIn(t, k), line, span) /\ Same(w[m], t[k])
      BY <2>1, <2>3, MovedNodes
    <3>3. w[m].cells = t[k].cells
      BY <2>1, <3>2, SameParts
    <3> QED
      BY <3>1, <3>2, <3>3 DEF Holds
  <2> QED
    BY <2>4, <2>6, <2>7
<1> QED
  BY <1>1, <1>2

(* The same of the cells of a row.                                          *)
TextsMoved(nodes, w, col, span) ==
    \A x, z : HasText(w, x, z) <=>
                \E x0 \in Nat : x = Moved(x0, col, span) /\ HasText(nodes, x0, z)

LEMMA CellsMoved ==
  ASSUME NEW T, NEW nodes, IsList(nodes, Cell(T)), NEW col \in Nat, NEW span \in Nat \ {0},
         NEW w, w = Widened(nodes, col, span, EmptyCell)
  PROVE  IsList(w, Cell(T)) /\ TextsMoved(nodes, w, col, span)
<1>1. EmptyCell \in Cell(T) /\ EmptyCell.text = NoText
  BY Kinds DEF EmptyCell
<1>2. \A k \in 1 .. Len(nodes) : nodes[k] \in Cell(T) /\ PosIn(nodes, k) \in Nat
  BY ListFacts, PosMono
<1>3. IsList(w, Cell(T)) /\ ListMoved(nodes, w, col, span, EmptyCell)
  BY <1>1, WidenedAt
<1>4. ASSUME NEW x, NEW z, HasText(w, x, z)
      PROVE  \E x0 \in Nat : x = Moved(x0, col, span) /\ HasText(nodes, x0, z)
  <2>1. PICK m \in 1 .. Len(w) : PosIn(w, m) = x /\ w[m].text = z /\ z # NoText
    BY <1>4 DEF HasText
  <2>2. ~Same(w[m], EmptyCell)
    BY <1>1, <2>1, SameParts
  <2>3. PICK k \in 1 .. Len(nodes) :
             PosIn(w, m) = Moved(PosIn(nodes, k), col, span) /\ Same(w[m], nodes[k])
    BY <1>3, <2>2, MovedNodes
  <2>4. nodes[k].text = z
    BY <1>2, <2>1, <2>3, SameParts
  <2> QED
    BY <1>2, <2>1, <2>3, <2>4 DEF HasText
<1>5. ASSUME NEW x0 \in Nat, NEW z, HasText(nodes, x0, z)
      PROVE  HasText(w, Moved(x0, col, span), z)
  <2>1. PICK k \in 1 .. Len(nodes) : PosIn(nodes, k) = x0 /\ nodes[k].text = z /\ z # NoText
    BY <1>5 DEF HasText
  <2>2. PICK m \in 1 .. Len(w) :
             PosIn(w, m) = Moved(PosIn(nodes, k), col, span) /\ Same(w[m], nodes[k])
    BY <1>3, MovedNodes
  <2>3. w[m].text = z
    BY <1>2, <2>1, <2>2, SameParts
  <2> QED
    BY <2>1, <2>2, <2>3 DEF HasText
<1> QED
  BY <1>3, <1>4, <1>5 DEF TextsMoved

LEMMA InsColsHolds ==
  ASSUME NEW T, NEW t, IsTable(T, t), NEW col \in Nat, NEW span \in Nat,
         NEW w, w = InsCols(t, col, span)
  PROVE  /\ IsTable(T, w)
         /\ \A x, y, z : Holds(w, x, y, z) <=>
                            \E x0 \in Nat : x = Moved(x0, col, span) /\ Holds(t, x0, y, z)
<1>1. CASE span = 0
  <2>1. w = t
    BY <1>1 DEF InsCols
  <2>2. \A p \in Nat : Moved(p, col, span) = p
    BY <1>1 DEF Moved
  <2> QED
    BY <2>1, <2>2, PlacesNat
<1>2. CASE span # 0
  <2> DEFINE n == Len(t)
             row(r) == [t[r] EXCEPT !.cells = Widened(t[r].cells, col, span, EmptyCell)]
  <2>1. /\ span \in Nat \ {0} /\ n \in Nat \ {0} /\ DOMAIN t = 1 .. n
        /\ \A k \in 1 .. n : t[k] \in Row(T) /\ IsList(t[k].cells, Cell(T))
    BY <1>2, TableLists
  <2>2. w = [r \in 1 .. n |-> row(r)]
    BY <1>2, <2>1 DEF InsCols
  <2>3. ASSUME NEW r \in 1 .. n
        PROVE  /\ row(r) \in Row(T) /\ row(r).skip = t[r].skip
               /\ TextsMoved(t[r].cells, row(r).cells, col, span)
    <3> DEFINE cells == Widened(t[r].cells, col, span, EmptyCell)
    <3>1. IsList(cells, Cell(T)) /\ TextsMoved(t[r].cells, cells, col, span)
      BY <2>1, CellsMoved
    <3> HIDE DEF cells
    <3>2. row(r) = [t[r] EXCEPT !.cells = cells]
      BY DEF cells
    <3> HIDE DEF row
    <3>3. t[r] \in Row(T)
      BY <2>1
    <3>4. row(r) \in Row(T) /\ row(r).skip = t[r].skip /\ row(r).cells = cells
      BY <3>1, <3>2, <3>3 DEF Row, IsList
    <3> QED
      BY <3>1, <3>4
  <2> HIDE DEF row
  <2>4. w \in Seq(Row(T)) /\ Len(w) = n /\ \A r \in 1 .. n : w[r] = row(r)
    <3>1. w \in [1 .. n -> Row(T)]
      BY <2>2, <2>3
    <3> QED
      BY <2>1, <2>2, <3>1
  <2>5. IsTable(T, w)
    <3>1. w # <<>>
      BY <2>1, <2>4
    <3> QED
      BY <2>4, <3>1 DEF IsTable
  <2>6. ASSUME NEW k \in 1 .. n PROVE PosIn(w, k) = PosIn(t, k)
    <3>1. k \in Nat \ {0} /\ \A j \in 1 .. k - 1 : j \in 1 .. n
      BY <2>1
    <3>2. \A j \in 1 .. k - 1 : w[j].skip = t[j].skip
      BY <2>3, <2>4, <3>1
    <3> QED
      BY <3>1, <3>2, PosSame
  <2>7. ASSUME NEW x, NEW y, NEW z
        PROVE  Holds(w, x, y, z) <=>
                 \E x0 \in Nat : x = Moved(x0, col, span) /\ Holds(t, x0, y, z)
    BY <2>3, <2>4, <2>6 DEF Holds, TextsMoved
  <2> QED
    BY <2>5, <2>7
<1> QED
  BY <1>1, <1>2

------------------------------------------------------------------------------
(* What is found at a place is what the table holds there.                  *)
LEMMA GetHolds ==
  ASSUME NEW T, NEW t, IsTable(T, t), NEW col \in Nat, NEW line \in Nat, NEW z
  PROVE  Holds(t, col, line, z) <=> GetCell(t, col, line) = z /\ z # NoText
<1> DEFINE r == Lookup(t, line)
           cells == t[r].cells
           c == Lookup(cells, col)
<1>1. IsList(t, Row(T)) /\ r \in 1 .. Len(t) /\ IsList(cells, Cell(T))
  BY TableLists, LookupBefore
<1>2. c \in 1 .. Len(cells)
  BY <1>1, LookupBefore
<1>3. GetCell(t, col, line) =
        IF line = PosIn(t, r) /\ col = PosIn(cells, c) THEN cells[c].text ELSE NoText
  BY DEF GetCell
<1>4. \A k \in 1 .. Len(t) : PosIn(t, k) = line => k = r
  BY <1>1, LookupAt
<1>5. \A k \in 1 .. Len(cells) : PosIn(cells, k) = col => k = c
  BY <1>1, LookupAt
<1>6. HasText(cells, col, z) <=> col = PosIn(cells, c) /\ cells[c].text = z /\ z # NoText
  BY <1>2, <1>5 DEF HasText
<1>7. Holds(t, col, line, z) <=> line = PosIn(t, r) /\ HasText(cells, col, z)
  BY <1>1, <1>4 DEF Holds
<1> QED
  BY <1>3, <1>6, <1>7

(* The table is one whatever was called.                                    *)
TableInv == IsTable(Texts, tbl)

LEMMA InitTable == TblInit => TableInv
<1>1. NewTable \in Seq(Row(Texts)) /\ NewTable # <<>>
  BY Kinds DEF NewTable
<1> QED
  BY <1>1 DEF TblInit, IsTable, TableInv

LEMMA StepTable == TableInv /\ [TblNext]_tblVars => TableInv'
<1> SUFFICES ASSUME IsTable(Texts, tbl), [TblNext]_tblVars PROVE IsTable(Texts, tbl')
  BY DEF TableInv
<1>1. CASE UNCHANGED tblVars
  BY <1>1 DEF tblVars
<1>2. CASE TblNext
  <2>1. 0 .. MaxCol \subseteq Nat /\ 0 .. MaxLine \subseteq Nat /\ 0 .. MaxSpan \subseteq Nat
    OBVIOUS
  <2>2. ASSUME NEW col \in 0 .. MaxCol, NEW line \in 0 .. MaxLine,
               NEW text \in Texts \cup {NoText}, Set(col, line, text)
        PROVE  IsTable(Texts, tbl')
    BY <2>1, <2>2, SetHolds DEF Set
  <2>3. ASSUME NEW col \in 0 .. MaxCol, NEW span \in 0 .. MaxSpan, InsertCols(col, span)
        PROVE  IsTable(Texts, tbl')
    BY <2>1, <2>3, InsColsHolds DEF InsertCols
  <2>4. ASSUME NEW line \in 0 .. MaxLine, NEW span \in 0 .. MaxSpan, InsertRows(line, span)
        PROVE  IsTable(Texts, tbl')
    BY <2>1, <2>4, InsRowsHolds DEF InsertRows
  <2> QED
    BY <1>2, <2>2, <2>3, <2>4 DEF TblNext
<1> QED
  BY <1>1, <1>2

(* The rows and cells of a table are nonempty lists whose nodes skip no     *)
(* negative number of positions, after any calls (lib/util/ttbl.c).         *)
THEOREM TableStaysSparse == TblSpec => []TableInv
<1> QED
  BY InitTable, StepTable, PTL DEF TblSpec

(* hidrd_ttbl_get() finds the text that is at a place, and nothing where    *)
(* there is none.                                                           *)
THEOREM GetFindsWhatIsThere == TblSpec => []GetRight
<1>1. TableInv => GetRight
  <2> SUFFICES ASSUME IsTable(Texts, tbl),
                      NEW col \in 0 .. MaxCol + 1, NEW line \in 0 .. MaxLine + 1, NEW z
               PROVE  z \in {x \in {GetCell(tbl, col, line)} : x # NoText} <=>
                      z \in {c[3] : c \in {d \in Cells : d[1] = col /\ d[2] = line}}
    BY DEF GetRight, TableInv
  <2>1. col \in Nat /\ line \in Nat
    BY TblBoundAssumption
  <2>2. Holds(tbl, col, line, z) <=> GetCell(tbl, col, line) = z /\ z # NoText
    BY <2>1, GetHolds
  <2>3. Cells = CellsOf(tbl)
    BY DEF Cells, CellsOf
  <2>4. ASSUME NEW c \in Cells, c[1] = col, c[2] = line, z = c[3]
        PROVE  Holds(tbl, col, line, z)
    <3>1. PICK x, y \in Nat, text \in Texts : c = <<x, y, text>> /\ Holds(tbl, x, y, text)
      BY <2>3, CellsHold
    <3> QED
      BY <2>4, <3>1
  <2>5. ASSUME Holds(tbl, col, line, z)
        PROVE  \E c \in Cells : c[1] = col /\ c[2] = line /\ z = c[3]
    <3>1. z \in Texts
      BY <2>1, <2>5, HeldText
    <3>2. <<col, line, z>> \in Cells
      BY <2>1, <2>3, <2>5, <3>1, CellsHold
    <3> QED
      BY <3>2
  <2> QED
    BY <2>2, <2>4, <2>5
<1> QED
  BY <1>1, TableStaysSparse, PTL

(* Every call does to the table what it does to the plane.                  *)
LEMMA MovedPlaces ==
  ASSUME NEW p \in Nat, NEW at \in Nat, NEW span \in Nat
  PROVE  Moved(p, at, span) \in Nat /\ Moved(p, at, span) = IF p < at THEN p ELSE p + span
  BY DEF Moved

LEMMA RefSet ==
  ASSUME TableInv, NEW col \in 0 .. MaxCol, NEW line \in 0 .. MaxLine,
         NEW text \in Texts \cup {NoText}, Set(col, line, text)
  PROVE  Plane!Set(col, line, text)
<1>1. Cells = CellsOf(tbl) /\ Cells' = CellsOf(tbl')
  BY DEF Cells, CellsOf
<1>2. /\ IsTable(Texts, tbl) /\ IsTable(Texts, tbl') /\ col \in Nat /\ line \in Nat
      /\ \A x, y, z : Holds(tbl', x, y, z) <=>
                         IF x = col /\ y = line THEN z = text /\ z # NoText
                         ELSE Holds(tbl, x, y, z)
  BY SetHolds DEF TableInv, Set
<1>3. ASSUME NEW e
      PROVE  e \in Cells' <=>
               \/ e \in {c \in Cells : c[1] # col \/ c[2] # line}
               \/ text # NoText /\ e = <<col, line, text>>
  <2>1. ASSUME e \in Cells'
        PROVE  \/ e \in {c \in Cells : c[1] # col \/ c[2] # line}
               \/ text # NoText /\ e = <<col, line, text>>
    <3>1. PICK x, y \in Nat, z \in Texts : e = <<x, y, z>> /\ Holds(tbl', x, y, z)
      BY <1>1, <1>2, <2>1, CellsHold
    <3>2. CASE x = col /\ y = line
      BY <1>2, <3>1, <3>2
    <3>3. CASE ~(x = col /\ y = line)
      <4>1. Holds(tbl, x, y, z)
        BY <1>2, <3>1, <3>3
      <4>2. e \in Cells
        BY <1>1, <1>2, <3>1, <4>1, CellsHold
      <4> QED
        BY <3>1, <3>3, <4>2
    <3> QED
      BY <3>2, <3>3
  <2>2. ASSUME e \in Cells, e[1] # col \/ e[2] # line PROVE e \in Cells'
    <3>1. PICK x, y \in Nat, z \in Texts : e = <<x, y, z>> /\ Holds(tbl, x, y, z)
      BY <1>1, <1>2, <2>2, CellsHold
    <3>2. Holds(tbl', x, y, z)
      BY <1>2, <2>2, <3>1
    <3> QED
      BY <1>1, <1>2, <3>1, <3>2, CellsHold
  <2>3. ASSUME text # NoText, e = <<col, line, text>> PROVE e \in Cells'
    <3>1. Holds(tbl', col, line, text) /\ text \in Texts
      BY <1>2, <2>3
    <3> QED
      BY <1>1, <1>2, <2>3, <3>1, CellsHold
  <2> QED
    BY <2>1, <2>2, <2>3
<1>4. Cells' = {c \in Cells : c[1] # col \/ c[2] # line}
               \cup (IF text = NoText THEN {} ELSE {<<col, line, text>>})
  BY <1>3
<1> QED
  BY <1>4 DEF Plane!Set

LEMMA RefInsertCols ==
  ASSUME TableInv, NEW col \in 0 .. MaxCol, NEW span \in 0 .. MaxSpan, InsertCols(col, span)
  PROVE  Plane!InsCols(col, span)
<1> DEFINE To(c) == <<IF c[1] < col THEN c[1] ELSE c[1] + span, c[2], c[3]>>
<1>1. Cells = CellsOf(tbl) /\ Cells' = CellsOf(tbl')
  BY DEF Cells, CellsOf
<1>2. /\ IsTable(Texts, tbl) /\ IsTable(Texts, tbl') /\ col \in Nat /\ span \in Nat
      /\ \A x, y, z : Holds(tbl', x, y, z) <=>
                         \E x0 \in Nat : x = Moved(x0, col, span) /\ Holds(tbl, x0, y, z)
  BY InsColsHolds DEF TableInv, InsertCols
<1>3. ASSUME NEW e PROVE e \in Cells' <=> \E c \in Cells : e = To(c)
  <2>1. ASSUME e \in Cells' PROVE \E c \in Cells : e = To(c)
    <3>1. PICK x, y \in Nat, z \in Texts : e = <<x, y, z>> /\ Holds(tbl', x, y, z)
      BY <1>1, <1>2, <2>1, CellsHold
    <3>2. PICK x0 \in Nat : x = Moved(x0, col, span) /\ Holds(tbl, x0, y, z)
      BY <1>2, <3>1
    <3>3. <<x0, y, z>> \in Cells
      BY <1>1, <1>2, <3>1, <3>2, CellsHold
    <3>4. e = To(<<x0, y, z>>)
      BY <1>2, <3>1, <3>2, MovedPlaces
    <3> QED
      BY <3>3, <3>4
  <2>2. ASSUME NEW c \in Cells, e = To(c) PROVE e \in Cells'
    <3>1. PICK x, y \in Nat, z \in Texts : c = <<x, y, z>> /\ Holds(tbl, x, y, z)
      BY <1>1, <1>2, <2>2, CellsHold
    <3>2. Moved(x, col, span) \in Nat /\ e = <<Moved(x, col, span), y, z>>
      BY <1>2, <2>2, <3>1, MovedPlaces
    <3>3. Holds(tbl', Moved(x, col, span), y, z)
      BY <1>2, <3>1
    <3> QED
      BY <1>1, <1>2, <3>1, <3>2, <3>3, CellsHold
  <2> QED
    BY <2>1, <2>2
<1>4. Cells' = {To(c) : c \in Cells}
  BY <1>3
<1> QED
  BY <1>4 DEF Plane!InsCols

LEMMA RefInsertRows ==
  ASSUME TableInv, NEW line \in 0 .. MaxLine, NEW span \in 0 .. MaxSpan, InsertRows(line, span)
  PROVE  Plane!InsRows(line, span)
<1> DEFINE To(c) == <<c[1], IF c[2] < line THEN c[2] ELSE c[2] + span, c[3]>>
<1>1. Cells = CellsOf(tbl) /\ Cells' = CellsOf(tbl')
  BY DEF Cells, CellsOf
<1>2. /\ IsTable(Texts, tbl) /\ IsTable(Texts, tbl') /\ line \in Nat /\ span \in Nat
      /\ \A x, y, z : Holds(tbl', x, y, z) <=>
                         \E y0 \in Nat : y = Moved(y0, line, span) /\ Holds(tbl, x, y0, z)
  BY InsRowsHolds DEF TableInv, InsertRows
<1>3. ASSUME NEW e PROVE e \in Cells' <=> \E c \in Cells : e = To(c)
  <2>1. ASSUME e \in Cells' PROVE \E c \in Cells : e = To(c)
    <3>1. PICK x, y \in Nat, z \in Texts : e = <<x, y, z>> /\ Holds(tbl', x, y, z)
      BY <1>1, <1>2, <2>1, CellsHold
    <3>2. PICK y0 \in Nat : y = Moved(y0, line, span) /\ Holds(tbl, x, y0, z)
      BY <1>2, <3>1
    <3>3. <<x, y0, z>> \in Cells
      BY <1>1, <1>2, <3>1, <3>2, CellsHold
    <3>4. e = To(<<x, y0, z>>)
      BY <1>2, <3>1, <3>2, MovedPlaces
    <3> QED
      BY <3>3, <3>4
  <2>2. ASSUME NEW c \in Cells, e = To(c) PROVE e \in Cells'
    <3>1. PICK x, y \in Nat, z \in Texts : c = <<x, y, z>> /\ Holds(tbl, x, y, z)
      BY <1>1, <1>2, <2>2, CellsHold
    <3>2. Moved(y, line, span) \in Nat /\ e = <<x, Moved(y, line, span), z>>
      BY <1>2, <2>2, <3>1, MovedPlaces
    <3>3. Holds(tbl', x, Moved(y, line, span), z)
      BY <1>2, <3>1
    <3> QED
      BY <1>1, <1>2, <3>1, <3>2, <3>3, CellsHold
  <2> QED
    BY <2>1, <2>2
<1>4. Cells' = {To(c) : c \in Cells}
  BY <1>3
<1> QED
  BY <1>4 DEF Plane!InsRows

LEMMA RefInit == TblInit => Plane!Init
<1> SUFFICES ASSUME TblInit PROVE Cells = {}
  BY DEF Plane!Init
<1>1. tbl = <<EmptyRow>> /\ EmptyRow.cells = <<EmptyCell>> /\ EmptyCell.text = NoText
  BY DEF TblInit, NewTable, EmptyRow, EmptyCell
<1>2. Filled(tbl) = {}
  <2>1. ASSUME NEW rc \in Filled(tbl) PROVE FALSE
    <3>1. PICK r \in DOMAIN tbl : rc \in {r} \X DOMAIN tbl[r].cells /\ TextIn(tbl, rc) # NoText
      BY DEF Filled
    <3>2. tbl[r].cells = <<EmptyCell>> /\ rc[1] = r /\ rc[2] = 1
      BY <1>1, <3>1
    <3> QED
      BY <1>1, <3>1, <3>2 DEF TextIn
  <2> QED
    BY <2>1
<1> QED
  BY <1>2 DEF Cells

(* The table of linked lists is a plane with texts at places: setting a     *)
(* text (hidrd_ttbl_set) changes its place and no other, and inserting      *)
(* columns and rows (hidrd_ttbl_ins_cols, hidrd_ttbl_ins_rows) moves the    *)
(* texts at and behind the place and no others.                             *)
THEOREM TableIsSparsePlane == TblSpec => ImplementsSparseTable
<1>1. TableInv /\ [TblNext]_tblVars => [Plane!Next]_Cells
  <2> SUFFICES ASSUME TableInv, [TblNext]_tblVars PROVE Plane!Next \/ UNCHANGED Cells
    OBVIOUS
  <2>1. CASE UNCHANGED tblVars
    BY <2>1 DEF tblVars, Cells, Filled, TextIn, ColIn
  <2>2. ASSUME NEW col \in 0 .. MaxCol, NEW line \in 0 .. MaxLine,
               NEW text \in Texts \cup {NoText}, Set(col, line, text)
        PROVE  Plane!Next
    BY <2>2, RefSet DEF Plane!Next
  <2>3. ASSUME NEW col \in 0 .. MaxCol, NEW span \in 0 .. MaxSpan, InsertCols(col, span)
        PROVE  Plane!Next
    BY <2>3, RefInsertCols DEF Plane!Next
  <2>4. ASSUME NEW line \in 0 .. MaxLine, NEW span \in 0 .. MaxSpan, InsertRows(line, span)
        PROVE  Plane!Next
    BY <2>4, RefInsertRows DEF Plane!Next
  <2> QED
    BY <2>1, <2>2, <2>3, <2>4 DEF TblNext
<1> QED
  BY <1>1, RefInit, TableStaysSparse, PTL DEF TblSpec, ImplementsSparseTable, Plane!Spec

------------------------------------------------------------------------------
(* Sequences of the elements of a set in the rising order of a key: there   *)
(* is one at most.                                                          *)
Rises(s, m, S, key) ==
    /\ s \in [1 .. m -> S]
    /\ \A i, j \in 1 .. m : i < j => key[s[i]] < key[s[j]]
    /\ \A x \in S : \E i \in 1 .. m : s[i] = x

LEMMA Intervals == \A m \in Nat : IsFiniteSet(1 .. m) /\ Cardinality(1 .. m) = m
<1> SUFFICES ASSUME NEW m \in Nat PROVE IsFiniteSet(1 .. m) /\ Cardinality(1 .. m) = m
  OBVIOUS
<1>1. IsFiniteSet(1 .. m) /\ Cardinality(1 .. m) = IF 1 > m THEN 0 ELSE m - 1 + 1
  BY FS_Interval
<1> QED
  BY <1>1

LEMMA RisesOne ==
  ASSUME NEW S, NEW m \in Nat, NEW key \in [S -> Nat], NEW s \in [1 .. m -> S],
         \A i, j \in 1 .. m : i < j => key[s[i]] < key[s[j]]
  PROVE  s \in Injection(1 .. m, S)
<1>1. ASSUME NEW i \in 1 .. m, NEW j \in 1 .. m, s[i] = s[j] PROVE i = j
  <2>1. key[s[i]] \in Nat /\ key[s[j]] \in Nat
    OBVIOUS
  <2>2. ~(i < j) /\ ~(j < i)
    BY <1>1, <2>1
  <2> QED
    BY <2>2
<1> QED
  BY <1>1 DEF Injection, IsInjective

LEMMA RisesCount ==
  ASSUME NEW S, NEW m \in Nat, NEW key \in [S -> Nat], NEW s, Rises(s, m, S, key)
  PROVE  IsFiniteSet(S) /\ Cardinality(S) = m
<1>1. s \in Injection(1 .. m, S)
  BY RisesOne DEF Rises
<1>2. s \in Surjection(1 .. m, S)
  BY DEF Rises, Surjection
<1>3. IsFiniteSet(1 .. m) /\ Cardinality(1 .. m) = m
  BY Intervals
<1> QED
  BY <1>1, <1>2, <1>3, FS_Surjection

LEMMA RisesOnce ==
  ASSUME NEW S, NEW m \in Nat, NEW key \in [S -> Nat], NEW s, NEW u,
         Rises(s, m, S, key), Rises(u, m, S, key)
  PROVE  u = s
<1>1. /\ s \in [1 .. m -> S] /\ u \in [1 .. m -> S]
      /\ \A i, j \in 1 .. m : i < j => key[s[i]] < key[s[j]]
      /\ \A i, j \in 1 .. m : i < j => key[u[i]] < key[u[j]]
      /\ \A x \in S : \E i \in 1 .. m : s[i] = x
      /\ \A x \in S : \E i \in 1 .. m : u[i] = x
  BY DEF Rises
<1>2. \A x \in S : key[x] \in Nat
  OBVIOUS
<1> DEFINE Good == {n \in Nat : \A i \in 1 .. m : i <= n => s[i] = u[i]}
<1>3. 0 \in Good
  OBVIOUS
<1>4. ASSUME NEW n \in Nat, n \in Good PROVE n + 1 \in Good
  <2> SUFFICES ASSUME n + 1 \in 1 .. m PROVE s[n + 1] = u[n + 1]
    BY <1>4
  <2>1. \A i \in 1 .. n : i \in 1 .. m /\ s[i] = u[i]
    BY <1>4
  <2>2. PICK k \in 1 .. m : u[k] = s[n + 1]
    BY <1>1
  <2>3. PICK l \in 1 .. m : s[l] = u[n + 1]
    BY <1>1
  <2>4. ~(k < n + 1)
    <3> SUFFICES ASSUME k < n + 1 PROVE FALSE
      OBVIOUS
    <3>1. k \in 1 .. n /\ s[k] = s[n + 1]
      BY <2>1, <2>2
    <3>2. key[s[k]] < key[s[n + 1]] /\ key[s[k]] \in Nat
      BY <1>1, <1>2, <3>1
    <3> QED
      BY <3>1, <3>2
  <2>5. ~(l < n + 1)
    <3> SUFFICES ASSUME l < n + 1 PROVE FALSE
      OBVIOUS
    <3>1. l \in 1 .. n /\ u[l] = u[n + 1]
      BY <2>1, <2>3
    <3>2. key[u[l]] < key[u[n + 1]] /\ key[u[l]] \in Nat
      BY <1>1, <1>2, <3>1
    <3> QED
      BY <3>1, <3>2
  <2>6. k = n + 1 \/ l = n + 1
    <3> SUFFICES ASSUME k # n + 1, l # n + 1 PROVE FALSE
      OBVIOUS
    <3>1. n + 1 < k /\ n + 1 < l
      BY <2>4, <2>5
    <3>2. key[u[n + 1]] < key[u[k]] /\ key[s[n + 1]] < key[s[l]]
      BY <1>1, <3>1
    <3>3. key[u[n + 1]] \in Nat /\ key[s[n + 1]] \in Nat
      BY <1>1, <1>2
    <3> QED
      BY <2>2, <2>3, <3>2, <3>3
  <2> QED
    BY <2>2, <2>3, <2>6
<1>5. m \in Good
  <2> HIDE DEF Good
  <2> QED
    BY <1>3, <1>4, NumberInduction
<1>6. \A i \in 1 .. m : s[i] = u[i]
  BY <1>5
<1> QED
  BY <1>1, <1>6

(* The one that InOrder() takes.                                            *)
Ordered(u, S, key) ==
    /\ u \in [1 .. Cardinality(S) -> S]
    /\ \A i, j \in DOMAIN u : i < j => key[u[i]] < key[u[j]]

LEMMA OrderedOnce ==
  ASSUME NEW S, NEW m \in Nat, NEW key \in [S -> Nat], NEW s, Rises(s, m, S, key),
         NEW u, Ordered(u, S, key)
  PROVE  u = s
<1>1. IsFiniteSet(S) /\ Cardinality(S) = m
  BY RisesCount
<1>2. u \in [1 .. m -> S] /\ \A i, j \in 1 .. m : i < j => key[u[i]] < key[u[j]]
  BY <1>1 DEF Ordered
<1>3. u \in Injection(1 .. m, S)
  BY <1>2, RisesOne
<1>4. u \in Surjection(1 .. m, S)
  BY <1>1, <1>3, Intervals, FS_Injection
<1>5. Rises(u, m, S, key)
  BY <1>2, <1>4 DEF Rises, Surjection
<1> QED
  BY <1>5, RisesOnce

LEMMA NumbersInOrder ==
  ASSUME NEW S \in SUBSET Nat, NEW m \in Nat, NEW s, Rises(s, m, S, [x \in S |-> x])
  PROVE  InOrder(S, LAMBDA line : line) = s
<1> DEFINE A(u) == \A i, j \in DOMAIN u : i < j => u[i] < u[j]
           key == [x \in S |-> x]
<1>1. InOrder(S, LAMBDA line : line) = CHOOSE u \in [1 .. Cardinality(S) -> S] : A(u)
  BY DEF InOrder
<1>0. key \in [S -> Nat] /\ Rises(s, m, S, key)
  OBVIOUS
<1>2. Cardinality(S) = m /\ s \in [1 .. m -> S] /\ key \in [S -> Nat]
  <2> HIDE DEF key
  <2>1. Cardinality(S) = m
    BY <1>0, RisesCount
  <2> QED
    BY <1>0, <2>1 DEF Rises
<1>3. A(s)
  BY <1>2 DEF Rises
<1> DEFINE u == CHOOSE u \in [1 .. Cardinality(S) -> S] : A(u)
<1>4. u \in [1 .. Cardinality(S) -> S] /\ A(u)
  <2> HIDE DEF A
  <2> QED
    BY <1>2, <1>3
<1> HIDE DEF u
<1>5. Ordered(u, S, key)
  BY <1>4 DEF Ordered
<1>6. u = s
  <2> HIDE DEF key, A
  <2> QED
    BY <1>0, <1>5, OrderedOnce
<1> QED
  BY <1>1, <1>6 DEF u

LEMMA CellsInOrder ==
  ASSUME NEW S, \A x \in S : x[1] \in Nat, NEW m \in Nat, NEW s,
         Rises(s, m, S, [x \in S |-> x[1]])
  PROVE  InOrder(S, LAMBDA c : c[1]) = s
<1> DEFINE A(u) == \A i, j \in DOMAIN u : i < j => u[i][1] < u[j][1]
           key == [x \in S |-> x[1]]
<1>1. InOrder(S, LAMBDA c : c[1]) = CHOOSE u \in [1 .. Cardinality(S) -> S] : A(u)
  BY DEF InOrder
<1>0. key \in [S -> Nat] /\ Rises(s, m, S, key)
  OBVIOUS
<1>2. Cardinality(S) = m /\ s \in [1 .. m -> S] /\ key \in [S -> Nat]
  <2> HIDE DEF key
  <2>1. Cardinality(S) = m
    BY <1>0, RisesCount
  <2> QED
    BY <1>0, <2>1 DEF Rises
<1>3. A(s)
  BY <1>2 DEF Rises
<1> DEFINE u == CHOOSE u \in [1 .. Cardinality(S) -> S] : A(u)
<1>4. u \in [1 .. Cardinality(S) -> S] /\ A(u)
  <2> HIDE DEF A
  <2> QED
    BY <1>2, <1>3
<1> HIDE DEF u
<1>5. Ordered(u, S, key)
  BY <1>4 DEF Ordered
<1>6. u = s
  <2> HIDE DEF key, A
  <2> QED
    BY <1>0, <1>5, OrderedOnce
<1> QED
  BY <1>1, <1>6 DEF u

------------------------------------------------------------------------------
(* Numbers counted in rising order, and one more behind them.               *)
Counts(h, m, on) ==
    /\ m \in Nat /\ h \in [1 .. m -> on]
    /\ \A i, j \in 1 .. m : i < j => h[i] < h[j]
    /\ \A x \in on : \E i \in 1 .. m : h[i] = x

CountedMore(h, m, x) == [i \in 1 .. m + 1 |-> IF i = m + 1 THEN x ELSE h[i]]

LEMMA CountOn ==
  ASSUME NEW on \in SUBSET Nat, NEW h, NEW m, Counts(h, m, on),
         NEW x \in Nat, \A y \in on : y < x
  PROVE  Counts(CountedMore(h, m, x), m + 1, on \cup {x})
<1> DEFINE g == CountedMore(h, m, x)
<1>1. /\ m \in Nat /\ h \in [1 .. m -> on]
      /\ \A i, j \in 1 .. m : i < j => h[i] < h[j]
      /\ \A y \in on : \E i \in 1 .. m : h[i] = y
  BY DEF Counts
<1>2. /\ g \in [1 .. m + 1 -> on \cup {x}] /\ g[m + 1] = x
      /\ \A i \in 1 .. m : g[i] = h[i] /\ i \in 1 .. m + 1
  BY <1>1 DEF CountedMore
<1> HIDE DEF g
<1>3. ASSUME NEW i \in 1 .. m + 1, NEW j \in 1 .. m + 1, i < j PROVE g[i] < g[j]
  <2>1. i \in 1 .. m /\ g[i] = h[i]
    BY <1>1, <1>2, <1>3
  <2>2. CASE j = m + 1
    BY <1>1, <1>2, <2>1, <2>2
  <2>3. CASE j # m + 1
    <3>1. j \in 1 .. m
      BY <1>1, <2>3
    <3> QED
      BY <1>1, <1>2, <1>3, <2>1, <3>1
  <2> QED
    BY <2>2, <2>3
<1>4. ASSUME NEW y \in on \cup {x} PROVE \E i \in 1 .. m + 1 : g[i] = y
  <2>1. CASE y = x
    <3>1. m + 1 \in 1 .. m + 1
      BY <1>1
    <3> QED
      BY <1>2, <2>1, <3>1
  <2>2. CASE y # x
    BY <1>1, <1>2, <2>2
  <2> QED
    BY <2>1, <2>2
<1> QED
  BY <1>1, <1>2, <1>3, <1>4 DEF Counts, g

LEMMA CountNone == ASSUME NEW h, h = <<>> PROVE Counts(h, 0, {})
  BY DEF Counts

(* A sequence that has something of each of the numbers counted.            *)
Picks(h, s, t, on) ==
    IsSeq(t) /\ Counts(h, Len(t), on) /\ \A i \in 1 .. Len(t) : t[i] = s[h[i]]

LEMMA PickOn ==
  ASSUME NEW on \in SUBSET Nat, NEW h, NEW s, NEW t, Picks(h, s, t, on),
         NEW x \in Nat, \A y \in on : y < x
  PROVE  \E g : Picks(g, s, Append(t, s[x]), on \cup {x})
<1> DEFINE m == Len(t)
           g == CountedMore(h, m, x)
           u == Append(t, s[x])
<1>1. IsSeq(t) /\ Counts(h, m, on) /\ \A i \in 1 .. m : t[i] = s[h[i]]
  BY DEF Picks
<1>2. Counts(g, m + 1, on \cup {x})
  BY <1>1, CountOn
<1>3. /\ IsSeq(u) /\ m \in Nat /\ Len(u) = m + 1
      /\ \A i \in 1 .. m : u[i] = t[i]
      /\ u[m + 1] = s[x]
  BY <1>1, AppendedTo
<1>4. g[m + 1] = x /\ \A i \in 1 .. m : g[i] = h[i]
  BY <1>3 DEF CountedMore
<1> HIDE DEF g, u, m
<1>5. ASSUME NEW i \in 1 .. m + 1 PROVE u[i] = s[g[i]]
  <2>1. i = m + 1 \/ i \in 1 .. m
    BY <1>3
  <2> QED
    BY <1>1, <1>3, <1>4, <2>1
<1>6. Picks(g, s, u, on \cup {x})
  BY <1>2, <1>3, <1>5 DEF Picks
<1> QED
  BY <1>6 DEF u

(* What is kept of the lines of a table: those that have text.              *)
IsKept(s, n, f) ==
    f = [k \in 0 .. n |->
           IF k = 0 THEN <<>> ELSE IF s[k] # <<>> THEN Append(f[k - 1], s[k]) ELSE f[k - 1]]

LEMMA KeptExists == ASSUME NEW s, NEW n \in Nat PROVE \E f : IsKept(s, n, f)
<1> DEFINE S == {k \in Nat : \E f : IsKept(s, k, f)}
<1>1. 0 \in S
  <2>1. IsKept(s, 0, [k \in 0 .. 0 |-> <<>>])
    BY DEF IsKept
  <2> QED
    BY <2>1
<1>2. ASSUME NEW k \in Nat, k \in S PROVE k + 1 \in S
  <2>1. PICK f : IsKept(s, k, f)
    BY <1>2
  <2> DEFINE next == IF s[k + 1] # <<>> THEN Append(f[k], s[k + 1]) ELSE f[k]
             g == [j \in 0 .. k + 1 |-> IF j = k + 1 THEN next ELSE f[j]]
             h == [j \in 0 .. k + 1 |->
                     IF j = 0 THEN <<>>
                     ELSE IF s[j] # <<>> THEN Append(g[j - 1], s[j]) ELSE g[j - 1]]
  <2>2. ASSUME NEW j \in 0 .. k + 1 PROVE g[j] = h[j]
    <3> HIDE DEF next
    <3>1. CASE j = k + 1
      <4>1. j # 0 /\ j - 1 = k /\ k \in 0 .. k + 1 /\ k # k + 1 /\ g[k] = f[k]
        BY <3>1
      <4>2. g[j] = next
        BY <3>1
      <4>3. h[j] = IF s[j] # <<>> THEN Append(f[k], s[j]) ELSE f[k]
        BY <4>1
      <4> QED
        BY <3>1, <4>2, <4>3 DEF next
    <3>2. CASE j # k + 1
      <4>1. j \in 0 .. k /\ (j = 0 \/ (j - 1 \in 0 .. k + 1 /\ j - 1 # k + 1))
        BY <3>2
      <4>2. f[j] = IF j = 0 THEN <<>>
                   ELSE IF s[j] # <<>> THEN Append(f[j - 1], s[j]) ELSE f[j - 1]
        BY <2>1, <4>1 DEF IsKept
      <4> QED
        BY <3>2, <4>1, <4>2
    <3> QED
      BY <3>1, <3>2
  <2>3. g = h
    BY <2>2
  <2>4. IsKept(s, k + 1, g)
    BY <2>3 DEF IsKept
  <2> HIDE DEF g
  <2> QED
    BY <2>4
<1>3. n \in S
  <2> HIDE DEF S
  <2> QED
    BY <1>1, <1>2, NumberInduction
<1> QED
  BY <1>3

LinesIn(s, n) == {k \in 1 .. n : s[k] # <<>>}

LEMMA KeptPicks ==
  ASSUME NEW s, NEW n \in Nat, n = Len(s)
  PROVE  \E h : Picks(h, s, Kept(s, LAMBDA l : l # <<>>), LinesIn(s, n))
<1>1. Kept(s, LAMBDA l : l # <<>>) = (CHOOSE f : IsKept(s, n, f))[n]
  BY DEF Kept, IsKept
<1>2. PICK f : IsKept(s, n, f) /\ Kept(s, LAMBDA l : l # <<>>) = f[n]
  BY <1>1, KeptExists
<1> DEFINE S == {k \in Nat : k \in 0 .. n => \E h : Picks(h, s, f[k], LinesIn(s, k))}
<1>3. 0 \in S
  <2>1. f[0] = <<>>
    BY <1>2 DEF IsKept
  <2>2. LinesIn(s, 0) = {}
    BY DEF LinesIn
  <2>3. Len(<<>>) = 0 /\ IsSeq(<<>>) /\ Counts(<<>>, 0, {})
    BY CountNone, ShortSeqs
  <2>4. Picks(<<>>, s, <<>>, {})
    BY <2>3 DEF Picks
  <2> QED
    BY <2>1, <2>2, <2>4
<1>4. ASSUME NEW k \in Nat, k \in S PROVE k + 1 \in S
  <2> SUFFICES ASSUME k + 1 \in 0 .. n PROVE \E h : Picks(h, s, f[k + 1], LinesIn(s, k + 1))
    OBVIOUS
  <2>1. k \in 0 .. n /\ k + 1 # 0 /\ (k + 1) - 1 = k
    OBVIOUS
  <2>2. PICK h : Picks(h, s, f[k], LinesIn(s, k))
    BY <1>4, <2>1
  <2>3. f[k + 1] = IF s[k + 1] # <<>> THEN Append(f[k], s[k + 1]) ELSE f[k]
    BY <1>2, <2>1 DEF IsKept
  <2>4. LinesIn(s, k) \in SUBSET Nat /\ \A y \in LinesIn(s, k) : y < k + 1
    BY DEF LinesIn
  <2>5. CASE s[k + 1] # <<>>
    <3>1. LinesIn(s, k + 1) = LinesIn(s, k) \cup {k + 1}
      BY <2>5 DEF LinesIn
    <3> DEFINE on == LinesIn(s, k)
               x == k + 1
               t == f[k]
    <3>2. on \in SUBSET Nat /\ x \in Nat /\ (\A y \in on : y < x) /\ Picks(h, s, t, on)
      BY <2>2, <2>4
    <3> HIDE DEF on, x, t
    <3>3. \E g : Picks(g, s, Append(t, s[x]), on \cup {x})
      BY <3>2, PickOn
    <3>4. \E g : Picks(g, s, Append(f[k], s[k + 1]), LinesIn(s, k) \cup {k + 1})
      BY <3>3 DEF on, x, t
    <3> QED
      BY <2>3, <2>5, <3>1, <3>4
  <2>6. CASE s[k + 1] = <<>>
    <3>1. LinesIn(s, k + 1) = LinesIn(s, k)
      BY <2>6 DEF LinesIn
    <3> QED
      BY <2>2, <2>3, <2>6, <3>1
  <2> QED
    BY <2>5, <2>6
<1>5. n \in S
  <2> HIDE DEF S
  <2> QED
    BY <1>3, <1>4, NumberInduction
<1>6. \E h : Picks(h, s, f[n], LinesIn(s, n))
  BY <1>5
<1> QED
  BY <1>2, <1>6

------------------------------------------------------------------------------
(* The sum of the widths of a finite set of columns.                        *)
Sum(w, S) == MapThenSumSet(LAMBDA s : w[s], S)
Chosen(S) == CHOOSE x \in S : TRUE
IsFold(w, sets, f) ==
    f = [S \in sets |-> IF S = {} THEN 0 ELSE w[Chosen(S)] + f[S \ {Chosen(S)}]]

LEMMA SumIs ==
  ASSUME NEW w, NEW S
  PROVE  Sum(w, S) = (CHOOSE f : IsFold(w, SUBSET S, f))[S]
BY DEF Sum, MapThenSumSet, MapThenFoldSet, IsFold, Chosen

UpTo(S, n) == {U \in SUBSET S : Cardinality(U) <= n}

LEMMA Fewer ==
  ASSUME NEW S, IsFiniteSet(S), S # {}
  PROVE  /\ Chosen(S) \in S /\ IsFiniteSet(S \ {Chosen(S)})
         /\ Cardinality(S) \in Nat \ {0}
         /\ Cardinality(S \ {Chosen(S)}) = Cardinality(S) - 1
<1>1. Chosen(S) \in S
  BY DEF Chosen
<1>2. Cardinality(S) \in Nat /\ Cardinality(S) # 0
  BY FS_CardinalityType, FS_EmptySet
<1> QED
  BY <1>1, <1>2, FS_RemoveElement

LEMMA OneFewer ==
  ASSUME NEW S, IsFiniteSet(S), NEW n \in Nat, Cardinality(S) = n + 1
  PROVE  /\ S # {} /\ Chosen(S) \in S
         /\ S \ {Chosen(S)} \in SUBSET S /\ Cardinality(S \ {Chosen(S)}) = n
<1>1. Cardinality({}) = 0
  BY FS_EmptySet
<1>2. S # {}
  <2> SUFFICES ASSUME S = {} PROVE FALSE
    OBVIOUS
  <2>1. Cardinality(S) = 0
    BY <1>1
  <2> QED
    BY <2>1
<1>3. Chosen(S) \in S /\ Cardinality(S \ {Chosen(S)}) = Cardinality(S) - 1
  BY <1>2, Fewer
<1> QED
  BY <1>2, <1>3

LEMMA FoldExists ==
  ASSUME NEW w, NEW S, IsFiniteSet(S)
  PROVE  \E f : IsFold(w, SUBSET S, f)
<1> DEFINE Good == {n \in Nat : \E f : IsFold(w, UpTo(S, n), f)}
<1>1. \A U \in SUBSET S :
        IsFiniteSet(U) /\ Cardinality(U) \in Nat /\ Cardinality(U) <= Cardinality(S)
  BY FS_Subset, FS_CardinalityType
<1>2. 0 \in Good
  <2>1. \A U \in UpTo(S, 0) : U = {}
    BY <1>1, FS_EmptySet DEF UpTo
  <2>2. IsFold(w, UpTo(S, 0), [U \in UpTo(S, 0) |-> 0])
    BY <2>1 DEF IsFold
  <2> QED
    BY <2>2
<1>3. ASSUME NEW n \in Nat, n \in Good PROVE n + 1 \in Good
  <2>1. PICK f : IsFold(w, UpTo(S, n), f)
    BY <1>3
  <2> DEFINE g == [U \in UpTo(S, n + 1) |->
                     IF U = {} THEN 0 ELSE w[Chosen(U)] + f[U \ {Chosen(U)}]]
             h == [U \in UpTo(S, n + 1) |->
                     IF U = {} THEN 0 ELSE w[Chosen(U)] + g[U \ {Chosen(U)}]]
  <2>2. ASSUME NEW U \in UpTo(S, n + 1), U # {}
        PROVE  f[U \ {Chosen(U)}] = g[U \ {Chosen(U)}]
    <3> DEFINE V == U \ {Chosen(U)}
    <3>1. U \in SUBSET S /\ Cardinality(U) <= n + 1 /\ IsFiniteSet(U)
      BY <1>1 DEF UpTo
    <3>2. Cardinality(U) \in Nat \ {0} /\ Cardinality(V) = Cardinality(U) - 1 /\ V \in SUBSET S
      BY <2>2, <3>1, Fewer
    <3>3. V \in UpTo(S, n) /\ V \in UpTo(S, n + 1)
      BY <3>1, <3>2 DEF UpTo
    <3> HIDE DEF V
    <3>4. f[V] = IF V = {} THEN 0 ELSE w[Chosen(V)] + f[V \ {Chosen(V)}]
      BY <2>1, <3>3 DEF IsFold
    <3>5. g[V] = IF V = {} THEN 0 ELSE w[Chosen(V)] + f[V \ {Chosen(V)}]
      BY <3>3
    <3>6. f[V] = g[V]
      BY <3>4, <3>5
    <3> QED
      BY <3>6 DEF V
  <2>3. g = h
    BY <2>2
  <2>4. IsFold(w, UpTo(S, n + 1), g)
    BY <2>3 DEF IsFold
  <2> HIDE DEF g
  <2> QED
    BY <2>4
<1>4. Cardinality(S) \in Good
  <2> HIDE DEF Good
  <2>1. Cardinality(S) \in Nat
    BY FS_CardinalityType
  <2> QED
    BY <1>2, <1>3, <2>1, NumberInduction
<1>5. UpTo(S, Cardinality(S)) = SUBSET S
  BY <1>1 DEF UpTo
<1> QED
  BY <1>4, <1>5

(* Both are the sum of the same.                                            *)
LEMMA FoldAgree ==
  ASSUME NEW w, NEW S, NEW R, IsFiniteSet(S), R \in SUBSET S, NEW f, NEW g,
         IsFold(w, SUBSET S, f), IsFold(w, SUBSET R, g)
  PROVE  f[R] = g[R]
<1> DEFINE Good == {n \in Nat : \A U \in SUBSET R : Cardinality(U) = n => f[U] = g[U]}
<1>1. \A U \in SUBSET R : IsFiniteSet(U) /\ Cardinality(U) \in Nat
  BY FS_Subset, FS_CardinalityType
<1>2. ASSUME NEW U \in SUBSET R
      PROVE  /\ f[U] = IF U = {} THEN 0 ELSE w[Chosen(U)] + f[U \ {Chosen(U)}]
             /\ g[U] = IF U = {} THEN 0 ELSE w[Chosen(U)] + g[U \ {Chosen(U)}]
  BY DEF IsFold
<1>3. 0 \in Good
  <2> SUFFICES ASSUME NEW U \in SUBSET R, Cardinality(U) = 0 PROVE f[U] = g[U]
    OBVIOUS
  <2>1. U = {}
    BY <1>1, FS_EmptySet
  <2> QED
    BY <1>2, <2>1
<1>4. ASSUME NEW n \in Nat, n \in Good PROVE n + 1 \in Good
  <2> SUFFICES ASSUME NEW U \in SUBSET R, Cardinality(U) = n + 1 PROVE f[U] = g[U]
    OBVIOUS
  <2> DEFINE V == U \ {Chosen(U)}
  <2>1. U # {} /\ V \in SUBSET U /\ Cardinality(V) = n
    BY <1>1, OneFewer
  <2>2. Cardinality(V) = n /\ V \in SUBSET R
    BY <2>1
  <2>3. f[V] = g[V]
    BY <1>4, <2>2
  <2> QED
    BY <1>2, <2>1, <2>3
<1>5. Cardinality(R) \in Good
  <2> HIDE DEF Good
  <2>1. Cardinality(R) \in Nat
    BY <1>1
  <2> QED
    BY <1>3, <1>4, <2>1, NumberInduction
<1> QED
  BY <1>5

LEMMA SumStep ==
  ASSUME NEW w, NEW S, IsFiniteSet(S)
  PROVE  Sum(w, S) = IF S = {} THEN 0 ELSE w[Chosen(S)] + Sum(w, S \ {Chosen(S)})
<1>1. PICK f : IsFold(w, SUBSET S, f) /\ Sum(w, S) = f[S]
  BY FoldExists, SumIs
<1>2. f[S] = IF S = {} THEN 0 ELSE w[Chosen(S)] + f[S \ {Chosen(S)}]
  BY <1>1 DEF IsFold
<1>3. ASSUME S # {} PROVE f[S \ {Chosen(S)}] = Sum(w, S \ {Chosen(S)})
  <2> DEFINE R == S \ {Chosen(S)}
  <2>1. IsFiniteSet(R) /\ R \in SUBSET S
    BY <1>3, Fewer
  <2> HIDE DEF R
  <2>2. PICK g : IsFold(w, SUBSET R, g) /\ Sum(w, R) = g[R]
    BY <2>1, FoldExists, SumIs
  <2>3. f[R] = g[R]
    BY <1>1, <2>1, <2>2, FoldAgree
  <2> QED
    BY <2>2, <2>3 DEF R
<1> QED
  BY <1>1, <1>2, <1>3

(* A sum has every column once.                                             *)
Measures(w, S) == IsFiniteSet(S) /\ S \subseteq DOMAIN w /\ \A x \in DOMAIN w : w[x] \in Nat

LEMMA MeasuresPart ==
  ASSUME NEW w, NEW S, Measures(w, S), NEW R, R \subseteq S
  PROVE  Measures(w, R) /\ Cardinality(R) \in Nat /\ (Cardinality(R) = 0 => R = {})
<1>1. IsFiniteSet(R)
  BY FS_Subset DEF Measures
<1>2. Cardinality(R) \in Nat /\ (Cardinality(R) = 0 => R = {})
  BY <1>1, FS_CardinalityType, FS_EmptySet
<1> QED
  BY <1>1, <1>2 DEF Measures

LEMMA SumNone == ASSUME NEW w PROVE Sum(w, {}) = 0
<1>1. IsFiniteSet({})
  BY FS_EmptySet
<1> QED
  BY <1>1, SumStep

LEMMA SumType ==
  ASSUME NEW w, NEW S, Measures(w, S)
  PROVE  Sum(w, S) \in Nat
<1> DEFINE Good == {n \in Nat : \A R \in SUBSET S : Cardinality(R) = n => Sum(w, R) \in Nat}
<1>1. \A R \in SUBSET S : Measures(w, R) /\ Cardinality(R) \in Nat /\ (Cardinality(R) = 0 => R = {})
  BY MeasuresPart
<1>2. 0 \in Good
  BY <1>1, SumNone
<1>3. ASSUME NEW n \in Nat, n \in Good PROVE n + 1 \in Good
  <2> SUFFICES ASSUME NEW R \in SUBSET S, Cardinality(R) = n + 1 PROVE Sum(w, R) \in Nat
    OBVIOUS
  <2> DEFINE c == Chosen(R)
             V == R \ {c}
  <2>1. IsFiniteSet(R) /\ Measures(w, R)
    BY <1>1 DEF Measures
  <2>2. R # {} /\ Cardinality(V) = n /\ V \in SUBSET S /\ c \in R
    <3>1. R # {} /\ c \in R /\ V \in SUBSET R /\ Cardinality(V) = n
      BY <2>1, OneFewer
    <3> QED
      BY <3>1
  <2>3. Sum(w, V) \in Nat
    BY <1>3, <2>2
  <2>4. w[c] \in Nat
    BY <1>1, <2>2 DEF Measures
  <2>5. Sum(w, R) = w[c] + Sum(w, V)
    BY <2>1, <2>2, SumStep
  <2> QED
    BY <2>3, <2>4, <2>5
<1>4. Cardinality(S) \in Good
  <2> HIDE DEF Good
  <2> QED
    BY <1>1, <1>2, <1>3, NumberInduction
<1> QED
  BY <1>4

LEMMA SumOut ==
  ASSUME NEW w, NEW S, Measures(w, S), NEW x \in S
  PROVE  Sum(w, S) = w[x] + Sum(w, S \ {x})
<1> DEFINE Good == {n \in Nat : \A R \in SUBSET S : \A y \in R :
                       Cardinality(R) = n => Sum(w, R) = w[y] + Sum(w, R \ {y})}
<1>1. \A R \in SUBSET S : Measures(w, R) /\ Cardinality(R) \in Nat /\ (Cardinality(R) = 0 => R = {})
  BY MeasuresPart
<1>2. 0 \in Good
  BY <1>1
<1>3. ASSUME NEW n \in Nat, n \in Good PROVE n + 1 \in Good
  <2> SUFFICES ASSUME NEW R \in SUBSET S, NEW y \in R, Cardinality(R) = n + 1
               PROVE  Sum(w, R) = w[y] + Sum(w, R \ {y})
    OBVIOUS
  <2> DEFINE c == Chosen(R)
             V == R \ {c}
             U == R \ {y}
  <2>1. IsFiniteSet(R)
    BY <1>1 DEF Measures
  <2>2. R # {} /\ Cardinality(V) = n /\ V \in SUBSET S /\ c \in R
    <3>1. R # {} /\ c \in R /\ V \in SUBSET R /\ Cardinality(V) = n
      BY <2>1, OneFewer
    <3> QED
      BY <3>1
  <2>3. Sum(w, R) = w[c] + Sum(w, V)
    BY <2>1, <2>2, SumStep
  <2>4. CASE y = c
    BY <2>3, <2>4
  <2>5. CASE y # c
    <3>1. Cardinality(U) = n /\ U \in SUBSET S /\ c \in U /\ y \in V /\ V \ {y} = U \ {c}
      BY <2>1, <2>2, <2>5, FS_RemoveElement
    <3>2. Sum(w, V) = w[y] + Sum(w, V \ {y}) /\ Sum(w, U) = w[c] + Sum(w, U \ {c})
      BY <1>3, <2>2, <3>1
    <3> DEFINE X == U \ {c}
    <3>3. X \subseteq S
      BY <2>2
    <3>4. Sum(w, X) \in Nat /\ w[y] \in Nat /\ w[c] \in Nat
      <4>1. Measures(w, X) /\ Measures(w, R)
        BY <1>1, <3>3
      <4> QED
        BY <2>2, <4>1, SumType DEF Measures
    <3>5. Sum(w, V) = w[y] + Sum(w, X) /\ Sum(w, U) = w[c] + Sum(w, X)
      BY <3>1, <3>2
    <3> QED
      BY <2>3, <3>4, <3>5
  <2> QED
    BY <2>4, <2>5
<1>4. Cardinality(S) \in Good
  <2> HIDE DEF Good
  <2> QED
    BY <1>1, <1>2, <1>3, NumberInduction
<1> QED
  BY <1>4

LEMMA SumBoth ==
  ASSUME NEW w, NEW A, NEW B, Measures(w, A \cup B), A \cap B = {}
  PROVE  Sum(w, A \cup B) = Sum(w, A) + Sum(w, B)
<1> DEFINE Good == {n \in Nat : \A R \in SUBSET A :
                       Cardinality(R) = n => Sum(w, R \cup B) = Sum(w, R) + Sum(w, B)}
<1>1. \A R \in SUBSET A : /\ Measures(w, R) /\ Measures(w, R \cup B)
                          /\ Cardinality(R) \in Nat /\ (Cardinality(R) = 0 => R = {})
  <2>1. \A R \in SUBSET A : R \subseteq A \cup B /\ R \cup B \subseteq A \cup B
    OBVIOUS
  <2> QED
    BY <2>1, MeasuresPart
<1>2. Measures(w, B) /\ Sum(w, B) \in Nat
  BY MeasuresPart, SumType
<1>3. 0 \in Good
  <2> SUFFICES ASSUME NEW R \in SUBSET A, Cardinality(R) = 0
               PROVE  Sum(w, R \cup B) = Sum(w, R) + Sum(w, B)
    OBVIOUS
  <2>1. R = {} /\ R \cup B = B
    BY <1>1
  <2> QED
    BY <1>2, <2>1, SumNone
<1>4. ASSUME NEW n \in Nat, n \in Good PROVE n + 1 \in Good
  <2> SUFFICES ASSUME NEW R \in SUBSET A, Cardinality(R) = n + 1
               PROVE  Sum(w, R \cup B) = Sum(w, R) + Sum(w, B)
    OBVIOUS
  <2> DEFINE c == Chosen(R)
             V == R \ {c}
  <2>1. IsFiniteSet(R) /\ Measures(w, R)
    BY <1>1 DEF Measures
  <2>2. R # {} /\ Cardinality(V) = n /\ V \in SUBSET A /\ c \in R
    <3>1. R # {} /\ c \in R /\ V \in SUBSET R /\ Cardinality(V) = n
      BY <2>1, OneFewer
    <3> QED
      BY <3>1
  <2>3. Sum(w, V \cup B) = Sum(w, V) + Sum(w, B)
    BY <1>4, <2>2
  <2>4. (R \cup B) \ {c} = V \cup B /\ c \in R \cup B
    BY <2>2
  <2>5. Sum(w, R \cup B) = w[c] + Sum(w, (R \cup B) \ {c})
    BY <1>1, <2>4, SumOut
  <2>6. Sum(w, R) = w[c] + Sum(w, V)
    BY <2>1, <2>2, SumStep
  <2>7. w[c] \in Nat /\ Sum(w, V) \in Nat
    BY <1>1, <2>2, SumType DEF Measures
  <2> QED
    BY <1>2, <2>3, <2>4, <2>5, <2>6, <2>7
<1>5. Cardinality(A) \in Good
  <2> HIDE DEF Good
  <2> QED
    BY <1>1, <1>3, <1>4, NumberInduction
<1> QED
  BY <1>5

(* A sum of multiples is one.                                               *)
Multiple(n, m) == \E q \in Nat : n = m * q

LEMMA SumMultiple ==
  ASSUME NEW w, NEW S, Measures(w, S), NEW m \in Nat, \A x \in S : Multiple(w[x], m)
  PROVE  Multiple(Sum(w, S), m)
<1> DEFINE Good == {n \in Nat : \A R \in SUBSET S :
                       Cardinality(R) = n => Multiple(Sum(w, R), m)}
<1>1. \A R \in SUBSET S : Measures(w, R) /\ Cardinality(R) \in Nat /\ (Cardinality(R) = 0 => R = {})
  BY MeasuresPart
<1>2. 0 \in Good
  <2>1. Multiple(0, m)
    <3>1. 0 \in Nat /\ 0 = m * 0
      OBVIOUS
    <3> QED
      BY <3>1 DEF Multiple
  <2> QED
    BY <1>1, <2>1, SumNone
<1>3. ASSUME NEW n \in Nat, n \in Good PROVE n + 1 \in Good
  <2> SUFFICES ASSUME NEW R \in SUBSET S, Cardinality(R) = n + 1 PROVE Multiple(Sum(w, R), m)
    OBVIOUS
  <2> DEFINE c == Chosen(R)
             V == R \ {c}
  <2>1. IsFiniteSet(R) /\ Measures(w, R)
    BY <1>1 DEF Measures
  <2>2. R # {} /\ Cardinality(V) = n /\ V \in SUBSET S /\ c \in R
    <3>1. R # {} /\ c \in R /\ V \in SUBSET R /\ Cardinality(V) = n
      BY <2>1, OneFewer
    <3> QED
      BY <3>1
  <2>3. PICK p \in Nat : Sum(w, V) = m * p
    BY <1>3, <2>2 DEF Multiple
  <2>4. PICK q \in Nat : w[c] = m * q
    BY <2>2 DEF Multiple
  <2>5. Sum(w, R) = w[c] + Sum(w, V)
    BY <2>1, <2>2, SumStep
  <2>6. p + q \in Nat /\ m * q + m * p = m * (p + q)
    OBVIOUS
  <2>7. Sum(w, R) = m * (p + q)
    BY <2>3, <2>4, <2>5, <2>6
  <2> QED
    BY <2>6, <2>7 DEF Multiple
<1>4. Cardinality(S) \in Good
  <2> HIDE DEF Good
  <2> QED
    BY <1>1, <1>2, <1>3, NumberInduction
<1> QED
  BY <1>4

------------------------------------------------------------------------------
(* A finite set of numbers has a greatest one.                              *)
LEMMA GreatestNumber ==
  ASSUME NEW S \in SUBSET Nat, IsFiniteSet(S), S # {}
  PROVE  Max(S) \in S /\ \A y \in S : y <= Max(S)
<1> DEFINE Top(R) == \E x \in R : \A y \in R : x >= y
           Good == {n \in Nat : \A R \in SUBSET S : Cardinality(R) = n + 1 => Top(R)}
<1>1. \A R \in SUBSET S : IsFiniteSet(R) /\ Cardinality(R) \in Nat
  BY FS_Subset, FS_CardinalityType
<1>2. 0 \in Good
  <2> SUFFICES ASSUME NEW R \in SUBSET S, Cardinality(R) = 0 + 1 PROVE Top(R)
    OBVIOUS
  <2>1. PICK x : R = {x}
    BY <1>1, FS_Singleton
  <2> QED
    BY <2>1
<1>3. ASSUME NEW n \in Nat, n \in Good PROVE n + 1 \in Good
  <2> SUFFICES ASSUME NEW R \in SUBSET S, Cardinality(R) = (n + 1) + 1 PROVE Top(R)
    OBVIOUS
  <2> DEFINE c == Chosen(R)
             V == R \ {c}
  <2>1. c \in R /\ V \in SUBSET R /\ Cardinality(V) = n + 1
    BY <1>1, OneFewer
  <2>2. PICK x \in V : \A y \in V : x >= y
    BY <1>3, <2>1
  <2> HIDE DEF c
  <2>3. CASE c <= x
    BY <2>1, <2>2, <2>3
  <2>4. CASE ~(c <= x)
    <3>1. \A y \in R : c >= y
      BY <2>1, <2>2, <2>4
    <3> QED
      BY <2>1, <3>1
  <2> QED
    BY <2>3, <2>4
<1>4. Cardinality(S) - 1 \in Good
  <2> HIDE DEF Good
  <2>1. Cardinality(S) \in Nat \ {0}
    BY Fewer
  <2>2. Cardinality(S) - 1 \in Nat
    BY <2>1
  <2> QED
    BY <1>2, <1>3, <2>2, NumberInduction
<1>5. Top(S)
  <2>1. Cardinality(S) \in Nat \ {0}
    BY Fewer
  <2>2. (Cardinality(S) - 1) + 1 = Cardinality(S)
    BY <2>1
  <2> QED
    BY <1>4, <2>2
<1> QED
  BY <1>5 DEF Max

LEMMA ImageFinite ==
  ASSUME NEW S, IsFiniteSet(S), NEW f, S \subseteq DOMAIN f
  PROVE  IsFiniteSet({f[x] : x \in S})
<1> DEFINE T == {f[x] : x \in S}
           g == [x \in S |-> f[x]]
<1>1. g \in Surjection(S, T)
  BY DEF Surjection
<1> QED
  BY <1>1, FS_Surjection

LEMMA FilledFinite ==
  ASSUME NEW T, NEW t, IsTable(T, t)
  PROVE  IsFiniteSet(Filled(t))
<1> DEFINE f == [r \in DOMAIN t |-> {r} \X DOMAIN t[r].cells]
           parts == {f[r] : r \in DOMAIN t}
<1>1. /\ DOMAIN t = 1 .. Len(t) /\ Len(t) \in Nat
      /\ \A r \in DOMAIN t : DOMAIN t[r].cells = 1 .. Len(t[r].cells) /\ Len(t[r].cells) \in Nat
  BY TableLists, ListFacts
<1>2. IsFiniteSet(parts)
  <2>1. IsFiniteSet(DOMAIN t) /\ DOMAIN t \subseteq DOMAIN f
    BY <1>1, Intervals
  <2> HIDE DEF f
  <2> QED
    BY <2>1, ImageFinite
<1>3. ASSUME NEW p \in parts PROVE IsFiniteSet(p)
  <2>1. PICK r \in DOMAIN t : p = {r} \X DOMAIN t[r].cells
    OBVIOUS
  <2>2. IsFiniteSet({r})
    BY FS_Singleton
  <2>3. IsFiniteSet(DOMAIN t[r].cells)
    BY <1>1, Intervals
  <2> QED
    BY <2>1, <2>2, <2>3, FS_Product
<1>4. IsFiniteSet(UNION parts)
  <2> HIDE DEF parts
  <2> QED
    BY <1>2, <1>3, FS_UNION
<1>5. Filled(t) \subseteq UNION parts
  BY DEF Filled
<1> QED
  BY <1>4, <1>5, FS_Subset

(* The width of a column is more than its texts, up to the next tab stop.   *)
LEMMA WidthFacts ==
  ASSUME NEW len \in Nat, NEW m \in Nat \ {0}
  PROVE  /\ StripWidth(len, m) \in Nat /\ len < StripWidth(len, m)
         /\ Multiple(StripWidth(len, m), m)
<1>1. PICK q \in Nat, r \in 0 .. m - 1 : len = m * q + r
  BY Division
<1>2. len % m = r
  BY <1>1, Divides
<1>3. StripWidth(len, m) = len + (m - r) /\ m - r \in Nat \ {0}
  BY <1>2 DEF StripWidth
<1>4. m * (q + 1) = m * q + m /\ q + 1 \in Nat /\ m * q \in Nat
  OBVIOUS
<1>5. StripWidth(len, m) = m * (q + 1)
  BY <1>1, <1>3, <1>4
<1>6. Multiple(StripWidth(len, m), m)
  <2> DEFINE p == q + 1
  <2>1. p \in Nat /\ StripWidth(len, m) = m * p
    BY <1>5
  <2> HIDE DEF p
  <2> QED
    BY <2>1 DEF Multiple
<1> QED
  BY <1>3, <1>6

(* What the widths of the columns are good for.                             *)
Widths(w, t, m) ==
    /\ IsFiniteSet(DOMAIN w) /\ DOMAIN w \subseteq Nat
    /\ \A x \in DOMAIN w : w[x] \in Nat /\ Multiple(w[x], m)
    /\ \A x, y, z : Holds(t, x, y, z) => x \in DOMAIN w /\ TextLen(z) < w[x]

LEMMA StripsWide ==
  ASSUME NEW T, \A text \in T : TextLen(text) \in Nat, NEW t, IsTable(T, t), NEW m \in Nat \ {0}
  PROVE  Widths(Strips(t, m), t, m)
<1> DEFINE F == Filled(t)
           col == [rc \in F |-> ColIn(t, rc)]
           len == [rc \in F |-> TextLen(TextIn(t, rc))]
           On(x) == {rc \in F : col[rc] = x}
           lens(x) == {len[rc] : rc \in On(x)}
           cols == {col[rc] : rc \in F}
           w == [x \in cols |-> StripWidth(Max(lens(x)), m)]
<1>1. Strips(t, m) = w
  <2>1. Strips(t, m) =
          [x \in {ColIn(t, rc) : rc \in F} |->
             StripWidth(Max({TextLen(TextIn(t, rc)) : rc \in {q \in F : ColIn(t, q) = x}}), m)]
    BY DEF Strips
  <2>2. {ColIn(t, rc) : rc \in F} = cols
    OBVIOUS
  <2>3. ASSUME NEW x
        PROVE  {TextLen(TextIn(t, rc)) : rc \in {q \in F : ColIn(t, q) = x}} = lens(x)
    OBVIOUS
  <2> HIDE DEF cols, lens
  <2> QED
    BY <2>1, <2>2, <2>3
<1>2. IsFiniteSet(F)
  BY FilledFinite
<1>3. ASSUME NEW rc \in F
      PROVE  /\ col[rc] \in Nat /\ len[rc] \in Nat
             /\ Holds(t, col[rc], PosIn(t, rc[1]), TextIn(t, rc))
  <2> DEFINE e == <<ColIn(t, rc), PosIn(t, rc[1]), TextIn(t, rc)>>
  <2>1. e \in CellsOf(t)
    BY DEF CellsOf
  <2>2. PICK x \in Nat, y \in Nat, z \in T : e = <<x, y, z>> /\ Holds(t, x, y, z)
    BY <2>1, CellsHold
  <2> QED
    BY <2>2
<1>4. ASSUME NEW x, NEW y, NEW z, Holds(t, x, y, z)
      PROVE  \E rc \in F : col[rc] = x /\ len[rc] = TextLen(z)
  <2>1. x \in Nat /\ y \in Nat /\ z \in T
    BY <1>4, PlacesNat, HeldText
  <2>2. <<x, y, z>> \in CellsOf(t)
    BY <1>4, <2>1, CellsHold
  <2>3. PICK rc \in F : <<x, y, z>> = <<ColIn(t, rc), PosIn(t, rc[1]), TextIn(t, rc)>>
    BY <2>2 DEF CellsOf
  <2> QED
    BY <2>3
<1> HIDE DEF F, col, len
<1>5. IsFiniteSet(cols) /\ cols \subseteq Nat
  <2>1. F \subseteq DOMAIN col
    BY DEF col
  <2> QED
    BY <1>2, <1>3, <2>1, ImageFinite
<1>6. ASSUME NEW x \in cols
      PROVE  /\ w[x] \in Nat /\ Multiple(w[x], m)
             /\ \A n \in lens(x) : n < w[x] /\ n \in Nat
  <2>1. IsFiniteSet(On(x)) /\ On(x) \subseteq DOMAIN len
    BY <1>2, FS_Subset DEF len
  <2>2. IsFiniteSet(lens(x))
    BY <2>1, ImageFinite
  <2>3. lens(x) # {} /\ lens(x) \in SUBSET Nat
    BY <1>3
  <2> DEFINE top == Max(lens(x))
  <2> HIDE DEF lens
  <2>4. top \in Nat /\ \A n \in lens(x) : n \in Nat /\ n <= top
    BY <2>2, <2>3, GreatestNumber
  <2>5. w[x] = StripWidth(top, m)
    OBVIOUS
  <2> HIDE DEF w, top
  <2> QED
    BY <2>4, <2>5, WidthFacts
<1>7. ASSUME NEW x, NEW y, NEW z, Holds(t, x, y, z) PROVE x \in DOMAIN w /\ TextLen(z) < w[x]
  <2>1. PICK rc \in F : col[rc] = x /\ len[rc] = TextLen(z)
    BY <1>4, <1>7
  <2>2. x \in cols /\ TextLen(z) \in lens(x)
    BY <2>1
  <2> HIDE DEF lens
  <2> QED
    BY <1>6, <2>2
<1> HIDE DEF lens
<1>8. Widths(w, t, m)
  <2>1. DOMAIN w = cols
    OBVIOUS
  <2> HIDE DEF w
  <2> QED
    BY <1>5, <1>6, <1>7, <2>1 DEF Widths
<1> QED
  BY <1>1, <1>8

------------------------------------------------------------------------------
(* Where a column begins: after the widths of the columns before it.        *)
Below(w, c) == {s \in DOMAIN w : s < c}
Between(w, a, b) == {s \in DOMAIN w : a <= s /\ s < b}
Off(w, c) == Sum(w, Below(w, c))

IsWide(w, m) ==
    /\ IsFiniteSet(DOMAIN w) /\ DOMAIN w \subseteq Nat
    /\ \A x \in DOMAIN w : w[x] \in Nat /\ Multiple(w[x], m)

LEMMA WidePart ==
  ASSUME NEW w, NEW m \in Nat, IsWide(w, m), NEW R, R \subseteq DOMAIN w
  PROVE  Measures(w, R) /\ Sum(w, R) \in Nat /\ Multiple(Sum(w, R), m)
<1>1. Measures(w, DOMAIN w)
  BY DEF IsWide, Measures
<1>2. Measures(w, R)
  BY <1>1, MeasuresPart
<1>3. \A x \in R : Multiple(w[x], m)
  BY DEF IsWide
<1> QED
  BY <1>2, <1>3, SumType, SumMultiple

LEMMA OffType ==
  ASSUME NEW w, NEW m \in Nat, IsWide(w, m), NEW c
  PROVE  Off(w, c) \in Nat /\ Multiple(Off(w, c), m)
BY WidePart DEF Off, Below

LEMMA OffZero ==
  ASSUME NEW w, NEW m \in Nat, IsWide(w, m)
  PROVE  Off(w, 0) = 0
<1>1. Below(w, 0) = {}
  BY DEF Below, IsWide
<1> QED
  BY <1>1, SumNone DEF Off

LEMMA OffOn ==
  ASSUME NEW w, NEW m \in Nat, IsWide(w, m), NEW a \in Nat, NEW b \in Nat, a <= b
  PROVE  Sum(w, Between(w, a, b)) \in Nat /\ Off(w, b) = Off(w, a) + Sum(w, Between(w, a, b))
<1> DEFINE A == Below(w, a)
           B == Between(w, a, b)
<1>0. DOMAIN w \subseteq Nat
  BY DEF IsWide
<1>1. Below(w, b) = A \cup B /\ A \cap B = {}
  BY <1>0 DEF Below, Between
<1>2. A \cup B \subseteq DOMAIN w /\ B \subseteq DOMAIN w
  BY DEF Below, Between
<1> HIDE DEF A, B
<1>3. Measures(w, A \cup B) /\ Sum(w, B) \in Nat
  BY <1>2, WidePart
<1>4. Sum(w, A \cup B) = Sum(w, A) + Sum(w, B)
  BY <1>1, <1>3, SumBoth
<1> QED
  BY <1>1, <1>3, <1>4 DEF Off, A, B

LEMMA OffNext ==
  ASSUME NEW w, NEW m \in Nat, IsWide(w, m), NEW c \in DOMAIN w
  PROVE  c \in Nat /\ w[c] \in Nat /\ Off(w, c + 1) = Off(w, c) + w[c]
<1>0. c \in Nat /\ w[c] \in Nat /\ DOMAIN w \subseteq Nat
  BY DEF IsWide
<1>1. Between(w, c, c + 1) = {c}
  BY <1>0 DEF Between
<1>2. Off(w, c + 1) = Off(w, c) + Sum(w, {c})
  <2>1. c \in Nat /\ c + 1 \in Nat /\ c <= c + 1
    BY <1>0
  <2>2. Off(w, c + 1) = Off(w, c) + Sum(w, Between(w, c, c + 1))
    BY <2>1, OffOn
  <2> QED
    BY <1>1, <2>2
<1>3. Sum(w, {c}) = w[c]
  <2>1. Measures(w, {c})
    BY WidePart
  <2>2. Sum(w, {c}) = w[c] + Sum(w, {c} \ {c})
    BY <2>1, SumOut
  <2>3. {c} \ {c} = {} /\ Sum(w, {}) = 0
    BY SumNone
  <2> QED
    BY <1>0, <2>2, <2>3
<1> QED
  BY <1>0, <1>2, <1>3

------------------------------------------------------------------------------
(* A printed row: its texts in their order, each where its column begins.   *)
Pieces(w, cells) ==
    [k \in 1 .. Len(cells) |-> [at |-> Off(w, PosIn(cells, k)), text |-> cells[k].text]]
FullTo(cells, n) == {k \in 1 .. n : cells[k].text # NoText}

Blank == [texts |-> <<>>, end |-> 0, pad |-> 0, strip |-> 0]
IsPrinted(w, cells, n, f) ==
    f = [c \in 0 .. n |->
           IF c = 0 THEN Blank ELSE PrintCell(w, f[c - 1], PosIn(cells, c), cells[c].text)]

LEMMA PrintedExists ==
  ASSUME NEW w, NEW cells, NEW n \in Nat PROVE \E f : IsPrinted(w, cells, n, f)
<1> DEFINE S == {k \in Nat : \E f : IsPrinted(w, cells, k, f)}
<1>1. 0 \in S
  <2>1. IsPrinted(w, cells, 0, [k \in 0 .. 0 |-> Blank])
    BY DEF IsPrinted
  <2> QED
    BY <2>1
<1>2. ASSUME NEW k \in Nat, k \in S PROVE k + 1 \in S
  <2>1. PICK f : IsPrinted(w, cells, k, f)
    BY <1>2
  <2> DEFINE Printing(e, j) == PrintCell(w, e, PosIn(cells, j), cells[j].text)
             g == [j \in 0 .. k + 1 |-> IF j = k + 1 THEN Printing(f[k], k + 1) ELSE f[j]]
             h == [j \in 0 .. k + 1 |-> IF j = 0 THEN Blank ELSE Printing(g[j - 1], j)]
  <2>2. ASSUME NEW j \in 0 .. k + 1 PROVE g[j] = h[j]
    <3>1. CASE j = k + 1
      <4>1. j # 0 /\ j - 1 = k /\ k \in 0 .. k + 1 /\ k # k + 1 /\ g[k] = f[k]
        BY <3>1
      <4> HIDE DEF Printing
      <4>2. g[j] = Printing(f[k], j)
        BY <3>1
      <4>3. h[j] = Printing(f[k], j)
        BY <4>1
      <4> QED
        BY <3>1, <4>2, <4>3
    <3>2. CASE j # k + 1
      <4>1. j \in 0 .. k /\ (j = 0 \/ (j - 1 \in 0 .. k + 1 /\ j - 1 # k + 1))
        BY <3>2
      <4>2. f[j] = IF j = 0 THEN Blank ELSE Printing(f[j - 1], j)
        BY <2>1, <4>1 DEF IsPrinted
      <4> HIDE DEF Printing
      <4> QED
        BY <3>2, <4>1, <4>2
    <3> QED
      BY <3>1, <3>2
  <2>3. g = h
    <3> HIDE DEF Printing
    <3> QED
      BY <2>2
  <2>4. IsPrinted(w, cells, k + 1, g)
    BY <2>3 DEF IsPrinted
  <2> HIDE DEF g
  <2> QED
    BY <2>4
<1>3. n \in S
  <2> HIDE DEF S
  <2> QED
    BY <1>1, <1>2, NumberInduction
<1> QED
  BY <1>3

(* The columns are wide enough for the texts of a row.                      *)
Fitting(w, cells) ==
    \A k \in 1 .. Len(cells) :
        cells[k].text # NoText =>
            LET c == PosIn(cells, k)
                len == TextLen(cells[k].text)
            IN  c \in DOMAIN w /\ len \in Nat /\ len < w[c]

(* Printed up to the beginning of a column: the texts end, with the padding *)
(* due, where it begins.                                                    *)
EndsAt(line, w) ==
    /\ line = [texts |-> line.texts, end |-> line.end, pad |-> line.pad, strip |-> line.strip]
    /\ {line.end, line.pad, line.strip} \subseteq Nat
    /\ line.end + line.pad = Off(w, line.strip)

LEMMA CellPassed ==
  ASSUME NEW w, NEW m \in Nat, IsWide(w, m), NEW line, EndsAt(line, w),
         NEW col \in Nat, line.strip <= col,
         NEW next, next = PrintCell(w, line, col, NoText)
  PROVE  EndsAt(next, w) /\ next.texts = line.texts /\ next.strip = col
<1> DEFINE S == Sum(w, Between(w, line.strip, col))
<1>1. S \in Nat /\ Off(w, col) = Off(w, line.strip) + S
  BY OffOn DEF EndsAt
<1>2. next = [line EXCEPT !.pad = line.pad + S, !.strip = IF @ > col THEN @ ELSE col]
  BY DEF PrintCell, Sum, Between
<1> HIDE DEF S
<1>3. /\ {line.end, line.pad, line.strip} \subseteq Nat
      /\ line.end + line.pad = Off(w, line.strip)
      /\ line = [texts |-> line.texts, end |-> line.end, pad |-> line.pad, strip |-> line.strip]
  BY DEF EndsAt
<1>4. next = [texts |-> line.texts, end |-> line.end, pad |-> line.pad + S, strip |-> col]
  <2>1. (IF line.strip > col THEN line.strip ELSE col) = col
    BY <1>3
  <2> DEFINE x == line.texts
             y == line.end
             z == line.pad
             u == line.strip
  <2>2. line = [texts |-> x, end |-> y, pad |-> z, strip |-> u]
    BY <1>3
  <2> HIDE DEF x, y, z, u
  <2>3. next = [texts |-> x, end |-> y, pad |-> z + S, strip |-> IF u > col THEN u ELSE col]
    BY <1>2, <2>2
  <2> QED
    BY <2>1, <2>3 DEF x, y, z, u
<1>5. /\ next.texts = line.texts /\ next.end = line.end /\ next.pad = line.pad + S
      /\ next.strip = col
  BY <1>4
<1> QED
  BY <1>1, <1>3, <1>4, <1>5 DEF EndsAt

LEMMA CellPrinted ==
  ASSUME NEW w, NEW m \in Nat, IsWide(w, m), NEW line, EndsAt(line, w),
         NEW col \in DOMAIN w, line.strip <= col,
         NEW text, text # NoText, TextLen(text) \in Nat, TextLen(text) < w[col],
         NEW next, next = PrintCell(w, line, col, text)
  PROVE  /\ EndsAt(next, w) /\ next.strip = col + 1
         /\ next.texts = Append(line.texts, [at |-> Off(w, col), text |-> text])
<1> DEFINE S == Sum(w, Between(w, line.strip, col))
<1>0. col \in Nat /\ w[col] \in Nat /\ Off(w, col + 1) = Off(w, col) + w[col]
  BY OffNext
<1>1. S \in Nat /\ Off(w, col) = Off(w, line.strip) + S /\ Off(w, col) \in Nat
  BY <1>0, OffOn, OffType DEF EndsAt
<1>2. next = [texts |-> Append(line.texts, [at |-> line.end + (line.pad + S), text |-> text]),
              end |-> line.end + (line.pad + S) + TextLen(text),
              pad |-> w[col] - TextLen(text),
              strip |-> col + 1]
  BY DEF PrintCell, Sum, Between
<1> HIDE DEF S
<1>3. /\ line.end + (line.pad + S) = Off(w, col)
      /\ w[col] - TextLen(text) \in Nat /\ col + 1 \in Nat
  BY <1>0, <1>1 DEF EndsAt
<1>4. next = [texts |-> Append(line.texts, [at |-> Off(w, col), text |-> text]),
              end |-> Off(w, col) + TextLen(text),
              pad |-> w[col] - TextLen(text),
              strip |-> col + 1]
  BY <1>2, <1>3
<1>5. /\ next.texts = Append(line.texts, [at |-> Off(w, col), text |-> text])
      /\ next.end = Off(w, col) + TextLen(text) /\ next.pad = w[col] - TextLen(text)
      /\ next.strip = col + 1
  BY <1>4
<1>6. next.end + next.pad = Off(w, col + 1) /\ next.end \in Nat
  <2> DEFINE o == Off(w, col)
             v == w[col]
             l == TextLen(text)
  <2>1. o \in Nat /\ v \in Nat /\ l \in Nat /\ Off(w, col + 1) = o + v
        /\ next.end = o + l /\ next.pad = v - l
    BY <1>0, <1>1, <1>5
  <2> HIDE DEF o, v, l
  <2> QED
    BY <2>1
<1> QED
  BY <1>3, <1>4, <1>5, <1>6 DEF EndsAt

LEMMA RowPrinted ==
  ASSUME NEW T, NEW w, NEW m \in Nat, IsWide(w, m), NEW cells, IsList(cells, Cell(T)),
         Fitting(w, cells)
  PROVE  \E h : Picks(h, Pieces(w, cells), PrintRow(w, cells), FullTo(cells, Len(cells)))
<1> DEFINE n == Len(cells)
           P(k) == PosIn(cells, k)
           s == Pieces(w, cells)
<1>0. /\ n \in Nat \ {0} /\ \A k \in 1 .. n : P(k) \in Nat
      /\ \A k \in 1 .. n - 1 : P(k) < P(k + 1)
  <2>1. /\ n \in Nat \ {0} /\ \A k \in 1 .. n : P(k) \in Nat /\ cells[k].skip \in Nat
        /\ \A j \in 1 .. n : \A i \in 1 .. j - 1 : P(i) + cells[i].skip < P(j)
    BY ListFacts, PosMono
  <2>2. ASSUME NEW k \in 1 .. n - 1 PROVE P(k) < P(k + 1)
    <3> HIDE DEF P, n
    <3>1. k \in 1 .. n /\ k + 1 \in 1 .. n /\ k \in 1 .. (k + 1) - 1
      BY <2>1
    <3>2. P(k) + cells[k].skip < P(k + 1) /\ P(k) \in Nat /\ P(k + 1) \in Nat
          /\ cells[k].skip \in Nat
      BY <2>1, <3>1
    <3> QED
      BY <3>2
  <2> QED
    BY <2>1, <2>2
<1>1. PrintRow(w, cells) = (CHOOSE f : IsPrinted(w, cells, n, f))[n].texts
  BY DEF PrintRow, IsPrinted, Blank
<1>2. PICK f : IsPrinted(w, cells, n, f) /\ PrintRow(w, cells) = f[n].texts
  BY <1>0, <1>1, PrintedExists
<1>3. /\ f[0] = Blank
      /\ \A k \in 1 .. n : f[k] = PrintCell(w, f[k - 1], P(k), cells[k].text)
  BY <1>0, <1>2 DEF IsPrinted
<1> DEFINE Good(k) == /\ EndsAt(f[k], w)
                      /\ k < n => f[k].strip <= P(k + 1)
                      /\ \E h : Picks(h, s, f[k].texts, FullTo(cells, k))
           S == {k \in Nat : k \in 0 .. n => Good(k)}
<1>4. 0 \in S
  <2>1. EndsAt(Blank, w) /\ Blank.texts = <<>> /\ Blank.strip = 0
    <3>1. Off(w, 0) = 0
      BY OffZero
    <3> QED
      BY <3>1 DEF EndsAt, Blank
  <2>2. 0 < n => 0 <= P(0 + 1)
    <3>1. 0 + 1 \in 1 .. n
      BY <1>0
    <3> QED
      BY <1>0, <3>1
  <2>3. FullTo(cells, 0) = {}
    BY DEF FullTo
  <2>4. Len(<<>>) = 0 /\ IsSeq(<<>>) /\ Counts(<<>>, 0, {})
    BY CountNone, ShortSeqs
  <2>5. Picks(<<>>, s, <<>>, {})
    BY <2>4 DEF Picks
  <2>6. \E h : Picks(h, s, f[0].texts, FullTo(cells, 0))
    BY <1>3, <2>1, <2>3, <2>5
  <2> HIDE DEF P
  <2> QED
    BY <1>3, <2>1, <2>2, <2>6
<1>5. ASSUME NEW k \in Nat, k \in S PROVE k + 1 \in S
  <2> SUFFICES ASSUME k + 1 \in 0 .. n PROVE Good(k + 1)
    OBVIOUS
  <2> DEFINE e == cells[k + 1]
             col == P(k + 1)
             line == f[k]
             next == f[k + 1]
             on == FullTo(cells, k)
             j == k + 1
  <2>1. /\ k \in 0 .. n /\ k < n /\ j \in 1 .. n /\ j - 1 = k /\ j \in Nat
        /\ k + 1 < n => j \in 1 .. n - 1
    BY <1>0
  <2>2. EndsAt(line, w) /\ line.strip <= col
    BY <1>5, <2>1
  <2>3. PICK h : Picks(h, s, line.texts, on)
    BY <1>5, <2>1
  <2>4. next = PrintCell(w, line, col, e.text) /\ col \in Nat
    BY <1>0, <1>3, <2>1
  <2>5. k + 1 < n => col + 1 <= P((k + 1) + 1)
    <3> SUFFICES ASSUME k + 1 < n PROVE col + 1 <= P(j + 1)
      OBVIOUS
    <3>1. j \in 1 .. n - 1 /\ j + 1 \in 1 .. n
      BY <2>1
    <3>2. P(j) < P(j + 1) /\ P(j) \in Nat /\ P(j + 1) \in Nat
      BY <1>0, <3>1
    <3> HIDE DEF P
    <3> QED
      BY <3>2
  <2>6. on \in SUBSET Nat /\ \A y \in on : y < j
    BY DEF FullTo
  <2>7. s[j] = [at |-> Off(w, col), text |-> e.text]
    BY <2>1 DEF Pieces
  <2>8. CASE e.text = NoText
    <3>1. EndsAt(next, w) /\ next.texts = line.texts /\ next.strip = col
      <4> HIDE DEF next, line, col, e
      <4> QED
        BY <2>2, <2>4, <2>8, CellPassed
    <3>2. FullTo(cells, k + 1) = on
      BY <2>8 DEF FullTo
    <3>3. k + 1 < n => next.strip <= P((k + 1) + 1)
      <4>1. k + 1 < n => P((k + 1) + 1) \in Nat
        <5>1. k + 1 < n => j + 1 \in 1 .. n
          BY <2>1
        <5> QED
          BY <1>0, <5>1
      <4> HIDE DEF P
      <4> QED
        BY <2>4, <2>5, <3>1, <4>1
    <3>4. \E g : Picks(g, s, next.texts, FullTo(cells, k + 1))
      <4> HIDE DEF s, on
      <4> QED
        BY <2>3, <3>1, <3>2
    <3> HIDE DEF P, s
    <3> QED
      BY <3>1, <3>3, <3>4
  <2>9. CASE e.text # NoText
    <3>1. col \in DOMAIN w /\ TextLen(e.text) \in Nat /\ TextLen(e.text) < w[col]
      BY <2>1, <2>9 DEF Fitting
    <3>2. /\ EndsAt(next, w) /\ next.strip = col + 1
          /\ next.texts = Append(line.texts, [at |-> Off(w, col), text |-> e.text])
      <4> DEFINE text == e.text
      <4> HIDE DEF next, line, col, e, text
      <4>1. text # NoText /\ TextLen(text) \in Nat /\ TextLen(text) < w[col] /\ col \in DOMAIN w
            /\ next = PrintCell(w, line, col, text)
        BY <2>4, <2>9, <3>1 DEF text
      <4>2. /\ EndsAt(next, w) /\ next.strip = col + 1
            /\ next.texts = Append(line.texts, [at |-> Off(w, col), text |-> text])
        BY <2>2, <4>1, CellPrinted
      <4> QED
        BY <4>2 DEF text
    <3>3. FullTo(cells, k + 1) = on \cup {j}
      BY <2>9 DEF FullTo
    <3>4. next.texts = Append(line.texts, s[j])
      BY <2>7, <3>2
    <3>5. \E g : Picks(g, s, next.texts, FullTo(cells, k + 1))
      <4> DEFINE t == line.texts
      <4> HIDE DEF s, on, j, t
      <4>1. \E g : Picks(g, s, Append(t, s[j]), on \cup {j})
        BY <2>1, <2>3, <2>6, PickOn DEF t
      <4> QED
        BY <3>3, <3>4, <4>1 DEF t
    <3>6. k + 1 < n => next.strip <= P((k + 1) + 1)
      BY <2>5, <3>2
    <3> HIDE DEF P, s
    <3> QED
      BY <3>2, <3>5, <3>6
  <2> QED
    BY <2>8, <2>9
<1>6. Good(n)
  <2>1. n \in S
    <3> HIDE DEF S
    <3> QED
      BY <1>0, <1>4, <1>5, NumberInduction
  <2> QED
    BY <1>0, <2>1
<1> QED
  BY <1>2, <1>6

------------------------------------------------------------------------------
(* The output at the places of its texts: the texts of a line, in the rows  *)
(* of a table, and of the lines with text, each where its column begins.    *)
Columns(row, t, w, line, C) ==
    /\ IsSeq(row) /\ C \in [1 .. Len(row) -> Nat]
    /\ \A i, j \in 1 .. Len(row) : i < j => C[i] < C[j]
    /\ \A i \in 1 .. Len(row) : /\ row[i] = [at |-> Off(w, C[i]), text |-> row[i].text]
                                /\ Holds(t, C[i], line, row[i].text)
    /\ \A x, z : Holds(t, x, line, z) => \E i \in 1 .. Len(row) : C[i] = x /\ row[i].text = z

Laid(out0, t, w, L) ==
    /\ IsSeq(out0) /\ L \in [1 .. Len(out0) -> Nat]
    /\ \A k, l \in 1 .. Len(out0) : k < l => L[k] < L[l]
    /\ \A k \in 1 .. Len(out0) : out0[k] # <<>> /\ \E C : Columns(out0[k], t, w, L[k], C)
    /\ \A x, y, z : Holds(t, x, y, z) => \E k \in 1 .. Len(out0) : L[k] = y

LEMMA PosRises ==
  ASSUME NEW Nodes, NEW nodes, IsList(nodes, Nodes)
  PROVE  /\ \A i \in 1 .. Len(nodes) : PosIn(nodes, i) \in Nat
         /\ \A i, j \in 1 .. Len(nodes) : i < j => PosIn(nodes, i) < PosIn(nodes, j)
<1>1. /\ Len(nodes) \in Nat /\ \A i \in 1 .. Len(nodes) : nodes[i].skip \in Nat
      /\ \A i \in 1 .. Len(nodes) : PosIn(nodes, i) \in Nat
      /\ \A j \in 1 .. Len(nodes) : \A i \in 1 .. j - 1 :
             PosIn(nodes, i) + nodes[i].skip < PosIn(nodes, j)
  BY ListFacts, PosMono
<1>2. ASSUME NEW i \in 1 .. Len(nodes), NEW j \in 1 .. Len(nodes), i < j
      PROVE  PosIn(nodes, i) < PosIn(nodes, j)
  <2>1. i \in 1 .. j - 1
    BY <1>1, <1>2
  <2>2. PosIn(nodes, i) + nodes[i].skip < PosIn(nodes, j)
    BY <1>1, <2>1
  <2>3. PosIn(nodes, i) \in Nat /\ PosIn(nodes, j) \in Nat /\ nodes[i].skip \in Nat
    BY <1>1
  <2> QED
    BY <2>2, <2>3
<1> QED
  BY <1>1, <1>2

LEMMA HeldOnce ==
  ASSUME NEW T, NEW t, IsTable(T, t), NEW x, NEW y, NEW z, NEW u,
         Holds(t, x, y, z), Holds(t, x, y, u)
  PROVE  z = u
<1>1. x \in Nat /\ y \in Nat
  BY PlacesNat
<1> QED
  BY <1>1, GetHolds

(* A place in a row of the table.                                           *)
LEMMA HeldInRow ==
  ASSUME NEW T, NEW t, IsTable(T, t), NEW r \in 1 .. Len(t), NEW x, NEW z
  PROVE  Holds(t, x, PosIn(t, r), z) <=> HasText(t[r].cells, x, z)
<1>1. IsList(t, Row(T))
  BY TableLists
<1>2. \A q \in 1 .. Len(t) : PosIn(t, q) = PosIn(t, r) => q = r
  BY <1>1, PosOnce
<1> QED
  BY <1>2 DEF Holds

LEMMA RowColumns ==
  ASSUME NEW T, \A text \in T : TextLen(text) \in Nat, NEW t, IsTable(T, t),
         NEW m \in Nat \ {0}, NEW w, Widths(w, t, m), NEW r \in 1 .. Len(t),
         NEW row, row = PrintRow(w, t[r].cells)
  PROVE  \E C : Columns(row, t, w, PosIn(t, r), C)
<1> DEFINE cells == t[r].cells
           n == Len(cells)
           line == PosIn(t, r)
<1>0. IsWide(w, m)
  BY DEF Widths, IsWide
<1>1. IsList(cells, Cell(T)) /\ n \in Nat
  BY TableLists, ListFacts
<1>2. \A x, z : Holds(t, x, line, z) <=> HasText(cells, x, z)
  BY HeldInRow
<1>3. Fitting(w, cells)
  <2> SUFFICES ASSUME NEW k \in 1 .. n, cells[k].text # NoText
               PROVE  /\ PosIn(cells, k) \in DOMAIN w /\ TextLen(cells[k].text) \in Nat
                      /\ TextLen(cells[k].text) < w[PosIn(cells, k)]
    BY DEF Fitting
  <2> DEFINE x == PosIn(cells, k)
             z == cells[k].text
  <2>1. HasText(cells, x, z)
    BY DEF HasText
  <2>2. Holds(t, x, line, z)
    BY <1>2, <2>1
  <2> HIDE DEF x, z, line
  <2>3. z \in T /\ x \in DOMAIN w /\ TextLen(z) < w[x]
    BY <2>2, HeldText DEF Widths
  <2> QED
    BY <2>3 DEF x, z
<1> HIDE DEF cells
<1>4. PICK h : Picks(h, Pieces(w, cells), row, FullTo(cells, n))
  <2>1. row = PrintRow(w, cells)
    BY DEF cells
  <2> QED
    BY <1>0, <1>1, <1>3, <2>1, RowPrinted
<1> DEFINE len == Len(row)
           C == [i \in 1 .. len |-> PosIn(cells, h[i])]
<1>5. /\ IsSeq(row) /\ len \in Nat /\ h \in [1 .. len -> FullTo(cells, n)]
      /\ \A i, j \in 1 .. len : i < j => h[i] < h[j]
      /\ \A k \in FullTo(cells, n) : \E i \in 1 .. len : h[i] = k
      /\ \A i \in 1 .. len : row[i] = Pieces(w, cells)[h[i]]
  BY <1>4 DEF Picks, Counts
<1>6. ASSUME NEW i \in 1 .. len
      PROVE  /\ h[i] \in 1 .. n /\ cells[h[i]].text # NoText
             /\ row[i] = [at |-> Off(w, C[i]), text |-> cells[h[i]].text]
             /\ row[i].text = cells[h[i]].text
  <2>1. h[i] \in 1 .. n /\ cells[h[i]].text # NoText
    BY <1>5 DEF FullTo
  <2>2. row[i] = Pieces(w, cells)[h[i]]
    BY <1>5
  <2>3. row[i] = [at |-> Off(w, PosIn(cells, h[i])), text |-> cells[h[i]].text]
    BY <2>1, <2>2 DEF Pieces
  <2> QED
    BY <2>1, <2>3
<1>7. /\ C \in [1 .. len -> Nat]
      /\ \A i, j \in 1 .. len : i < j => C[i] < C[j]
  <2>1. /\ \A k \in 1 .. n : PosIn(cells, k) \in Nat
        /\ \A k, l \in 1 .. n : k < l => PosIn(cells, k) < PosIn(cells, l)
    BY <1>1, PosRises
  <2> HIDE DEF n
  <2> QED
    BY <1>5, <1>6, <2>1
<1>8. ASSUME NEW i \in 1 .. len PROVE Holds(t, C[i], line, row[i].text)
  <2>1. HasText(cells, C[i], row[i].text)
    BY <1>6 DEF HasText
  <2> QED
    BY <1>2, <2>1
<1>9. ASSUME NEW x, NEW z, Holds(t, x, line, z)
      PROVE  \E i \in 1 .. len : C[i] = x /\ row[i].text = z
  <2>1. PICK k \in 1 .. n : PosIn(cells, k) = x /\ cells[k].text = z /\ z # NoText
    BY <1>2, <1>9 DEF HasText
  <2>2. k \in FullTo(cells, n)
    BY <2>1 DEF FullTo
  <2>3. PICK i \in 1 .. len : h[i] = k
    BY <1>5, <2>2
  <2> QED
    BY <1>6, <2>1, <2>3
<1>10. Columns(row, t, w, line, C)
  <2>1. \A i \in 1 .. len : row[i] = [at |-> Off(w, C[i]), text |-> row[i].text]
    BY <1>6
  <2> HIDE DEF C, line
  <2> QED
    BY <1>5, <1>7, <1>8, <1>9, <2>1 DEF Columns
<1> QED
  BY <1>10

LEMMA RenderLaid ==
  ASSUME NEW T, \A text \in T : TextLen(text) \in Nat, NEW t, IsTable(T, t),
         NEW m \in Nat \ {0}, NEW w, w = Strips(t, m), NEW res, res = Render(t, m)
  PROVE  Widths(w, t, m) /\ \E L : Laid(res, t, w, L)
<1> DEFINE n == Len(t)
           rows == [r \in DOMAIN t |-> PrintRow(w, t[r].cells)]
<1>0. Widths(w, t, m)
  BY StripsWide
<1>1. n \in Nat /\ DOMAIN t = 1 .. n /\ IsList(t, Row(T))
  BY TableLists
<1>2. res = Kept(rows, LAMBDA l : l # <<>>)
  BY DEF Render
<1>3. ASSUME NEW r \in 1 .. n
      PROVE  rows[r] = PrintRow(w, t[r].cells) /\ \E C : Columns(rows[r], t, w, PosIn(t, r), C)
  BY <1>0, <1>1, <1>3, RowColumns
<1>4. Len(rows) = n
  BY <1>1
<1> HIDE DEF rows
<1>5. PICK h : Picks(h, rows, res, LinesIn(rows, n))
  BY <1>1, <1>2, <1>4, KeptPicks
<1> DEFINE len == Len(res)
           L == [k \in 1 .. len |-> PosIn(t, h[k])]
<1>6. /\ IsSeq(res) /\ len \in Nat /\ h \in [1 .. len -> LinesIn(rows, n)]
      /\ \A i, j \in 1 .. len : i < j => h[i] < h[j]
      /\ \A k \in LinesIn(rows, n) : \E i \in 1 .. len : h[i] = k
      /\ \A i \in 1 .. len : res[i] = rows[h[i]]
  BY <1>5 DEF Picks, Counts
<1>7. \A k \in 1 .. len : h[k] \in 1 .. n /\ rows[h[k]] # <<>>
  BY <1>6 DEF LinesIn
<1>8. /\ L \in [1 .. len -> Nat]
      /\ \A k, l \in 1 .. len : k < l => L[k] < L[l]
  <2>1. /\ \A k \in 1 .. n : PosIn(t, k) \in Nat
        /\ \A k, l \in 1 .. n : k < l => PosIn(t, k) < PosIn(t, l)
    BY <1>1, PosRises
  <2> HIDE DEF n
  <2> QED
    BY <1>6, <1>7, <2>1
<1>9. ASSUME NEW k \in 1 .. len
      PROVE  res[k] # <<>> /\ \E C : Columns(res[k], t, w, L[k], C)
  <2> DEFINE r == h[k]
  <2>1. r \in 1 .. n /\ res[k] = rows[r] /\ rows[r] # <<>> /\ L[k] = PosIn(t, r)
    BY <1>6, <1>7
  <2> HIDE DEF r, L
  <2> QED
    BY <1>3, <2>1
<1>10. ASSUME NEW x, NEW y, NEW z, Holds(t, x, y, z) PROVE \E k \in 1 .. len : L[k] = y
  <2>1. PICK r \in 1 .. n : PosIn(t, r) = y
    BY <1>10 DEF Holds
  <2>2. PICK C : Columns(rows[r], t, w, y, C)
    BY <1>3, <2>1
  <2>3. PICK i \in 1 .. Len(rows[r]) : C[i] = x
    BY <1>10, <2>2 DEF Columns
  <2>4. Len(<<>>) = 0
    BY ShortSeqs
  <2>5. rows[r] # <<>>
    <3>1. ASSUME rows[r] = <<>> PROVE FALSE
      <4>1. i \in 1 .. 0
        BY <2>3, <2>4, <3>1
      <4> QED
        BY <4>1
    <3> QED
      BY <3>1
  <2>6. r \in LinesIn(rows, n)
    BY <2>5 DEF LinesIn
  <2>7. PICK k \in 1 .. len : h[k] = r
    BY <1>6, <2>6
  <2> QED
    BY <2>1, <2>7
<1>11. Laid(res, t, w, L)
  <2> HIDE DEF L
  <2> QED
    BY <1>6, <1>8, <1>9, <1>10 DEF Laid
<1> QED
  BY <1>0, <1>11

------------------------------------------------------------------------------
(* The texts of a row do not touch.                                         *)
LEMMA TextsApart ==
  ASSUME NEW t, NEW m \in Nat, NEW w, Widths(w, t, m), NEW line, NEW row, NEW C,
         Columns(row, t, w, line, C), NEW i \in 2 .. Len(row),
         TextLen(row[i - 1].text) \in Nat
  PROVE  Off(w, C[i - 1]) + TextLen(row[i - 1].text) < Off(w, C[i])
<1> DEFINE a == C[i - 1]
           b == C[i]
           len == TextLen(row[i - 1].text)
<1>0. IsWide(w, m)
  BY DEF Widths, IsWide
<1>1. IsSeq(row) /\ Len(row) \in Nat
  BY SeqFacts DEF Columns
<1>2. i - 1 \in 1 .. Len(row) /\ i \in 1 .. Len(row) /\ i - 1 < i
  BY <1>1
<1>3. a \in Nat /\ b \in Nat /\ a < b /\ Holds(t, a, line, row[i - 1].text)
  BY <1>2 DEF Columns
<1>4. a \in DOMAIN w /\ len < w[a]
  BY <1>3 DEF Widths
<1> HIDE DEF a, b, len
<1>5. Off(w, a + 1) = Off(w, a) + w[a] /\ w[a] \in Nat
  BY <1>0, <1>4, OffNext
<1>6. a + 1 \in Nat /\ a + 1 <= b
  BY <1>3
<1> DEFINE S == Sum(w, Between(w, a + 1, b))
<1>7. S \in Nat /\ Off(w, b) = Off(w, a + 1) + S
  BY <1>0, <1>3, <1>6, OffOn
<1>8. Off(w, a) \in Nat /\ len \in Nat
  BY <1>0, OffType DEF len
<1> HIDE DEF S
<1> QED
  BY <1>4, <1>5, <1>7, <1>8 DEF a, b, len

LEMMA OnTabstop ==
  ASSUME NEW m \in Nat \ {0}, NEW n \in Nat, Multiple(n, m)
  PROVE  n % m = 0
<1>1. PICK q \in Nat : n = m * q
  BY DEF Multiple
<1>2. m * q = m * q + 0 /\ 0 \in 0 .. m - 1
  OBVIOUS
<1> QED
  BY <1>1, <1>2, Divides

------------------------------------------------------------------------------
(* The cells of a line in their order are its texts at their columns.       *)
CellsAt(line, row, C) == [i \in 1 .. Len(row) |-> <<C[i], line, row[i].text>>]

LEMMA LineCells ==
  ASSUME NEW T, NEW t, IsTable(T, t), NEW w, NEW line \in Nat, NEW row, NEW C,
         Columns(row, t, w, line, C)
  PROVE  InOrder({c \in CellsOf(t) : c[2] = line}, LAMBDA c : c[1]) = CellsAt(line, row, C)
<1> DEFINE S == {c \in CellsOf(t) : c[2] = line}
           m == Len(row)
           s == CellsAt(line, row, C)
<1>1. /\ m \in Nat /\ C \in [1 .. m -> Nat]
      /\ \A i, j \in 1 .. m : i < j => C[i] < C[j]
      /\ \A i \in 1 .. m : Holds(t, C[i], line, row[i].text)
      /\ \A x, z : Holds(t, x, line, z) => \E i \in 1 .. m : C[i] = x /\ row[i].text = z
  BY SeqFacts DEF Columns
<1>2. ASSUME NEW c
      PROVE  c \in S <=> \E x \in Nat, z \in T : c = <<x, line, z>> /\ Holds(t, x, line, z)
  <2>1. ASSUME c \in S
        PROVE  \E x \in Nat, z \in T : c = <<x, line, z>> /\ Holds(t, x, line, z)
    <3>1. PICK x \in Nat, y \in Nat, z \in T : c = <<x, y, z>> /\ Holds(t, x, y, z)
      BY <2>1, CellsHold
    <3>2. y = line
      BY <2>1, <3>1
    <3> QED
      BY <3>1, <3>2
  <2>2. ASSUME NEW x \in Nat, NEW z \in T, c = <<x, line, z>>, Holds(t, x, line, z)
        PROVE  c \in S
    <3>1. c \in CellsOf(t)
      BY <2>2, CellsHold
    <3> QED
      BY <2>2, <3>1
  <2> QED
    BY <2>1, <2>2
<1>3. ASSUME NEW i \in 1 .. m PROVE s[i] \in S /\ s[i] = <<C[i], line, row[i].text>>
  <2>1. s[i] = <<C[i], line, row[i].text>> /\ Holds(t, C[i], line, row[i].text)
    BY <1>1 DEF CellsAt
  <2>2. row[i].text \in T /\ C[i] \in Nat
    BY <1>1, <2>1, HeldText
  <2> HIDE DEF s, S
  <2> QED
    BY <1>2, <2>1, <2>2
<1>4. \A x \in S : x[1] \in Nat
  <2> HIDE DEF S
  <2> QED
    BY <1>2
<1>5. ASSUME NEW x \in S PROVE \E i \in 1 .. m : s[i] = x
  <2>1. PICK y \in Nat, z \in T : x = <<y, line, z>> /\ Holds(t, y, line, z)
    <3> HIDE DEF S
    <3> QED
      BY <1>2
  <2>2. PICK i \in 1 .. m : C[i] = y /\ row[i].text = z
    BY <1>1, <2>1
  <2> QED
    BY <1>3, <2>1, <2>2
<1>6. s \in [1 .. m -> S]
  <2>1. s = [i \in 1 .. m |-> s[i]]
    BY DEF CellsAt
  <2> HIDE DEF s, S
  <2> QED
    BY <1>3, <2>1
<1>7. Rises(s, m, S, [x \in S |-> x[1]])
  <2> HIDE DEF s, S
  <2> DEFINE key == [x \in S |-> x[1]]
  <2>1. ASSUME NEW i \in 1 .. m, NEW j \in 1 .. m, i < j PROVE key[s[i]] < key[s[j]]
    <3>1. key[s[i]] = C[i] /\ key[s[j]] = C[j]
      BY <1>3
    <3> QED
      BY <1>1, <2>1, <3>1
  <2> HIDE DEF key
  <2>2. Rises(s, m, S, key)
    BY <1>5, <1>6, <2>1 DEF Rises
  <2> QED
    BY <2>2 DEF key
<1>8. InOrder(S, LAMBDA c : c[1]) = s
  <2> HIDE DEF s, S
  <2> QED
    BY <1>1, <1>4, <1>7, CellsInOrder
<1> QED
  BY <1>8

LEMMA LinesLaid ==
  ASSUME NEW T, NEW t, IsTable(T, t), NEW w, NEW res, NEW L, Laid(res, t, w, L)
  PROVE  InOrder({c[2] : c \in CellsOf(t)}, LAMBDA line : line) = L
<1> DEFINE S == {c[2] : c \in CellsOf(t)}
           m == Len(res)
<1>1. /\ m \in Nat /\ L \in [1 .. m -> Nat]
      /\ \A k, l \in 1 .. m : k < l => L[k] < L[l]
      /\ \A k \in 1 .. m : res[k] # <<>> /\ \E C : Columns(res[k], t, w, L[k], C)
      /\ \A x, y, z : Holds(t, x, y, z) => \E k \in 1 .. m : L[k] = y
  BY SeqFacts DEF Laid
<1>2. ASSUME NEW y
      PROVE  y \in S <=> \E x \in Nat, z \in T : y \in Nat /\ Holds(t, x, y, z)
  <2>1. ASSUME y \in S PROVE \E x \in Nat, z \in T : y \in Nat /\ Holds(t, x, y, z)
    <3>1. PICK c \in CellsOf(t) : y = c[2]
      BY <2>1
    <3>2. PICK x \in Nat, v \in Nat, z \in T : c = <<x, v, z>> /\ Holds(t, x, v, z)
      BY CellsHold
    <3> QED
      BY <3>1, <3>2
  <2>2. ASSUME NEW x \in Nat, NEW z \in T, y \in Nat, Holds(t, x, y, z) PROVE y \in S
    <3>1. <<x, y, z>> \in CellsOf(t) /\ <<x, y, z>>[2] = y
      BY <2>2, CellsHold
    <3> QED
      BY <3>1
  <2> QED
    BY <2>1, <2>2
<1>3. ASSUME NEW k \in 1 .. m PROVE L[k] \in S
  <2>1. PICK C : Columns(res[k], t, w, L[k], C)
    BY <1>1
  <2>2. IsSeq(res[k]) /\ res[k] # <<>>
    BY <1>1, <2>1 DEF Columns
  <2>3. 1 \in 1 .. Len(res[k])
    BY <2>2 DEF IsSeq
  <2> DEFINE z == res[k][1].text
  <2>4. Holds(t, C[1], L[k], z)
    BY <2>1, <2>3 DEF Columns
  <2>5. C[1] \in Nat /\ L[k] \in Nat /\ z \in T
    BY <2>4, PlacesNat, HeldText
  <2> HIDE DEF S, z
  <2> QED
    BY <1>2, <2>4, <2>5
<1>4. S \in SUBSET Nat
  <2> HIDE DEF S
  <2> QED
    BY <1>2
<1>5. \A y \in S : \E k \in 1 .. m : L[k] = y
  <2> HIDE DEF S
  <2> QED
    BY <1>1, <1>2
<1>6. Rises(L, m, S, [x \in S |-> x])
  <2> HIDE DEF S
  <2> DEFINE key == [x \in S |-> x]
  <2>1. \A i, j \in 1 .. m : i < j => key[L[i]] < key[L[j]]
    BY <1>1, <1>3
  <2> HIDE DEF key
  <2>2. Rises(L, m, S, key)
    BY <1>1, <1>3, <1>5, <2>1 DEF Rises
  <2> QED
    BY <2>2 DEF key
<1>7. InOrder(S, LAMBDA line : line) = L
  <2> HIDE DEF S
  <2> QED
    BY <1>1, <1>4, <1>6, NumbersInOrder
<1> QED
  BY <1>7

(* What the output has of the lines and the cells on them.                  *)
AlignedAs(res, lines, rows, tabstop) ==
    LET at(k, i) == res[k][i].at
    IN  /\ Len(res) = Len(rows)
        /\ \A k \in DOMAIN res :
             /\ [i \in DOMAIN res[k] |-> res[k][i].text] = [i \in DOMAIN rows[k] |-> rows[k][i][3]]
             /\ \A i \in DOMAIN res[k] :
                  /\ at(k, i) % tabstop = 0
                  /\ i > 1 => at(k, i - 1) + TextLen(rows[k][i - 1][3]) < at(k, i)
                  /\ \A l \in DOMAIN res : \A j \in DOMAIN res[l] :
                       rows[l][j][1] = rows[k][i][1] => at(l, j) = at(k, i)

LEMMA AlignedOut ==
  ASSUME NEW T, \A text \in T : TextLen(text) \in Nat, NEW t, IsTable(T, t),
         NEW m \in Nat \ {0}, NEW w, Widths(w, t, m), NEW res, NEW L, Laid(res, t, w, L),
         NEW rows, DOMAIN rows = 1 .. Len(res), Len(rows) = Len(res),
         \A k \in 1 .. Len(res) : \A C :
             Columns(res[k], t, w, L[k], C) => rows[k] = CellsAt(L[k], res[k], C)
  PROVE  AlignedAs(res, L, rows, m)
<1>1. /\ DOMAIN res = 1 .. Len(res)
      /\ \A k \in DOMAIN res : \E C : Columns(res[k], t, w, L[k], C)
  BY SeqFacts DEF Laid
<1>2. ASSUME NEW k \in DOMAIN res
      PROVE  \E C : /\ Columns(res[k], t, w, L[k], C)
                    /\ DOMAIN res[k] = 1 .. Len(res[k]) /\ DOMAIN rows[k] = DOMAIN res[k]
                    /\ \A i \in DOMAIN res[k] :
                         /\ rows[k][i][1] = C[i] /\ rows[k][i][3] = res[k][i].text
                         /\ res[k][i].at = Off(w, C[i]) /\ TextLen(res[k][i].text) \in Nat
  <2>1. PICK C : Columns(res[k], t, w, L[k], C)
    BY <1>1
  <2>2. rows[k] = CellsAt(L[k], res[k], C)
    BY <1>1, <2>1
  <2>3. DOMAIN res[k] = 1 .. Len(res[k])
    BY <2>1, SeqFacts DEF Columns
  <2>4. ASSUME NEW i \in DOMAIN res[k]
        PROVE  /\ rows[k][i][1] = C[i] /\ rows[k][i][3] = res[k][i].text
               /\ res[k][i].at = Off(w, C[i]) /\ TextLen(res[k][i].text) \in Nat
    <3> DEFINE e == res[k][i]
               z == res[k][i].text
    <3>1. i \in 1 .. Len(res[k])
      BY <2>3
    <3>2. rows[k][i] = <<C[i], L[k], z>>
      BY <2>2, <3>1 DEF CellsAt
    <3>3. e = [at |-> Off(w, C[i]), text |-> z] /\ Holds(t, C[i], L[k], z)
      BY <2>1, <3>1 DEF Columns
    <3> HIDE DEF z, e
    <3>4. z \in T
      BY <3>3, HeldText
    <3>5. e.at = Off(w, C[i])
      BY <3>3
    <3> QED
      BY <3>2, <3>4, <3>5 DEF z, e
  <2>5. DOMAIN rows[k] = DOMAIN res[k]
    BY <2>2, <2>3 DEF CellsAt
  <2> QED
    BY <2>1, <2>3, <2>4, <2>5
<1>3. IsWide(w, m)
  BY DEF Widths, IsWide
<1>4. ASSUME NEW k \in DOMAIN res
      PROVE  /\ [i \in DOMAIN res[k] |-> res[k][i].text]
                   = [i \in DOMAIN rows[k] |-> rows[k][i][3]]
             /\ \A i \in DOMAIN res[k] :
                  /\ res[k][i].at % m = 0
                  /\ i > 1 => res[k][i - 1].at + TextLen(rows[k][i - 1][3]) < res[k][i].at
                  /\ \A l \in DOMAIN res : \A j \in DOMAIN res[l] :
                       rows[l][j][1] = rows[k][i][1] => res[l][j].at = res[k][i].at
  <2>1. PICK C : /\ Columns(res[k], t, w, L[k], C)
                 /\ DOMAIN res[k] = 1 .. Len(res[k]) /\ DOMAIN rows[k] = DOMAIN res[k]
                 /\ \A i \in DOMAIN res[k] :
                      /\ rows[k][i][1] = C[i] /\ rows[k][i][3] = res[k][i].text
                      /\ res[k][i].at = Off(w, C[i]) /\ TextLen(res[k][i].text) \in Nat
    BY <1>2
  <2>2. ASSUME NEW i \in DOMAIN res[k] PROVE res[k][i].at % m = 0
    <3>1. Off(w, C[i]) \in Nat /\ Multiple(Off(w, C[i]), m)
      BY <1>3, OffType
    <3> QED
      BY <2>1, <3>1, OnTabstop
  <2>3. ASSUME NEW i \in DOMAIN res[k], i > 1
        PROVE  res[k][i - 1].at + TextLen(rows[k][i - 1][3]) < res[k][i].at
    <3> DEFINE row == res[k]
    <3>1. Len(row) \in Nat
      BY <2>1, SeqFacts DEF Columns
    <3>2. i \in 2 .. Len(row) /\ i - 1 \in DOMAIN row
      BY <2>1, <2>3, <3>1
    <3> HIDE DEF row
    <3>3. Columns(row, t, w, L[k], C) /\ TextLen(row[i - 1].text) \in Nat
      BY <2>1, <3>2 DEF row
    <3>4. Off(w, C[i - 1]) + TextLen(row[i - 1].text) < Off(w, C[i])
      BY <3>2, <3>3, TextsApart
    <3> QED
      BY <2>1, <3>2, <3>4 DEF row
  <2>4. ASSUME NEW i \in DOMAIN res[k], NEW l \in DOMAIN res, NEW j \in DOMAIN res[l],
               rows[l][j][1] = rows[k][i][1]
        PROVE  res[l][j].at = res[k][i].at
    <3>1. res[l][j].at = Off(w, rows[l][j][1])
      BY <1>2
    <3>2. res[k][i].at = Off(w, rows[k][i][1])
      BY <2>1
    <3> QED
      BY <2>4, <3>1, <3>2
  <2>5. [i \in DOMAIN res[k] |-> res[k][i].text] = [i \in DOMAIN rows[k] |-> rows[k][i][3]]
    BY <2>1
  <2> QED
    BY <2>2, <2>3, <2>4, <2>5
<1> QED
  BY <1>4 DEF AlignedAs

(* hidrd_ttbl_render() prints the texts of a table where they stand: a line *)
(* for each line with text, the texts of a column at one offset, which is   *)
(* a tab stop, and none run into the next, for tables, texts and tab stops  *)
(* of every size.                                                           *)
THEOREM RenderingAligned == TblSpec => []RenderAligned
<1>1. TableInv => RenderAligned
  <2> SUFFICES ASSUME IsTable(Texts, tbl), NEW tabstop \in Tabstops
               PROVE  LET res == Render(tbl, tabstop)
                          lines == InOrder({c[2] : c \in Cells}, LAMBDA line : line)
                          OnLine(k) == InOrder({c \in Cells : c[2] = lines[k]}, LAMBDA c : c[1])
                          rows == [k \in DOMAIN lines |-> OnLine(k)]
                      IN  AlignedAs(res, lines, rows, tabstop)
    BY DEF RenderAligned, TableInv, AlignedAs
  <2> DEFINE res == Render(tbl, tabstop)
             lines == InOrder({c[2] : c \in Cells}, LAMBDA line : line)
             rows == [k \in DOMAIN lines |->
                        InOrder({c \in Cells : c[2] = lines[k]}, LAMBDA c : c[1])]
             w == Strips(tbl, tabstop)
  <2>1. tabstop \in Nat \ {0} /\ \A text \in Texts : TextLen(text) \in Nat
    BY TabstopAssumption, TextAssumption
  <2>2. Cells = CellsOf(tbl)
    BY DEF Cells, CellsOf
  <2>3. PICK L : Laid(res, tbl, w, L) /\ Widths(w, tbl, tabstop)
    BY <2>1, RenderLaid
  <2>4. lines = L
    <3> HIDE DEF res, w
    <3> QED
      BY <2>2, <2>3, LinesLaid
  <2>5. Len(res) \in Nat /\ L \in [1 .. Len(res) -> Nat]
    BY <2>3, SeqFacts DEF Laid
  <2>6. ASSUME NEW k \in 1 .. Len(res), NEW C, Columns(res[k], tbl, w, L[k], C)
        PROVE  rows[k] = CellsAt(L[k], res[k], C)
    <3> DEFINE row == res[k]
               line == L[k]
    <3>1. rows[k] = InOrder({c \in CellsOf(tbl) : c[2] = line}, LAMBDA c : c[1])
      <4> HIDE DEF lines, res
      <4> QED
        BY <2>2, <2>4, <2>5
    <3>2. line \in Nat /\ Columns(row, tbl, w, line, C)
      BY <2>5, <2>6
    <3> HIDE DEF row, line, w, res
    <3>3. InOrder({c \in CellsOf(tbl) : c[2] = line}, LAMBDA c : c[1]) = CellsAt(line, row, C)
      BY <3>2, LineCells
    <3> QED
      BY <3>1, <3>3 DEF row, line
  <2>7. DOMAIN rows = 1 .. Len(res) /\ Len(rows) = Len(res)
    <3> HIDE DEF lines, res
    <3>1. DOMAIN lines = 1 .. Len(res)
      BY <2>4, <2>5
    <3>2. DOMAIN rows = 1 .. Len(res)
      BY <3>1
    <3>3. Len(rows) = Len(res)
      BY <2>5, <3>1
    <3> QED
      BY <3>2, <3>3
  <2> HIDE DEF res, rows, w
  <2>8. AlignedAs(res, L, rows, tabstop)
    BY <2>1, <2>3, <2>6, <2>7, AlignedOut
  <2> HIDE DEF lines
  <2>9. AlignedAs(res, lines, rows, tabstop)
    BY <2>4, <2>8
  <2> QED
    BY <2>9 DEF res, lines, rows
<1> QED
  BY <1>1, TableStaysSparse, PTL

------------------------------------------------------------------------------
(* The sinks that lay out with a table.  What is set on the lines of a      *)
(* column, one line after another.                                          *)
IsSet(t, col, texts, n, f) ==
    f = [l \in 0 .. n |->
           IF l = 0 THEN t
           ELSE IF l \in DOMAIN texts THEN SetCell(f[l - 1], col, l - 1, texts[l])
           ELSE f[l - 1]]

LEMMA SetExists ==
  ASSUME NEW t, NEW col, NEW texts, NEW n \in Nat
  PROVE  \E f : IsSet(t, col, texts, n, f)
<1> DEFINE S == {k \in Nat : \E f : IsSet(t, col, texts, k, f)}
<1>1. 0 \in S
  <2>1. IsSet(t, col, texts, 0, [k \in 0 .. 0 |-> t])
    BY DEF IsSet
  <2> QED
    BY <2>1
<1>2. ASSUME NEW k \in Nat, k \in S PROVE k + 1 \in S
  <2>1. PICK f : IsSet(t, col, texts, k, f)
    BY <1>2
  <2> DEFINE More(u, j) == IF j \in DOMAIN texts THEN SetCell(u, col, j - 1, texts[j]) ELSE u
             g == [j \in 0 .. k + 1 |-> IF j = k + 1 THEN More(f[k], k + 1) ELSE f[j]]
             h == [j \in 0 .. k + 1 |-> IF j = 0 THEN t ELSE More(g[j - 1], j)]
  <2>2. ASSUME NEW j \in 0 .. k + 1 PROVE g[j] = h[j]
    <3>1. CASE j = k + 1
      <4>1. j # 0 /\ j - 1 = k /\ k \in 0 .. k + 1 /\ k # k + 1 /\ g[k] = f[k]
        BY <3>1
      <4> HIDE DEF More
      <4>2. g[j] = More(f[k], j)
        BY <3>1
      <4>3. h[j] = More(f[k], j)
        BY <4>1
      <4> QED
        BY <3>1, <4>2, <4>3
    <3>2. CASE j # k + 1
      <4>1. j \in 0 .. k /\ (j = 0 \/ (j - 1 \in 0 .. k + 1 /\ j - 1 # k + 1))
        BY <3>2
      <4>2. f[j] = IF j = 0 THEN t ELSE More(f[j - 1], j)
        BY <2>1, <4>1 DEF IsSet
      <4> HIDE DEF More
      <4> QED
        BY <3>2, <4>1, <4>2
    <3> QED
      BY <3>1, <3>2
  <2>3. g = h
    <3> HIDE DEF More
    <3> QED
      BY <2>2
  <2>4. IsSet(t, col, texts, k + 1, g)
    BY <2>3 DEF IsSet
  <2> HIDE DEF g
  <2> QED
    BY <2>4
<1>3. n \in S
  <2> HIDE DEF S
  <2> QED
    BY <1>1, <1>2, NumberInduction
<1> QED
  BY <1>3

(* A column is set as told, and the others are as they were.                *)
LinesSet(t, w, col, texts, n) ==
    \A x, y, z :
        Holds(w, x, y, z) <=>
            IF x = col /\ \E l \in 1 .. n : l \in DOMAIN texts /\ y = l - 1
            THEN z = texts[y + 1] ELSE Holds(t, x, y, z)

(* One cell is set.                                                         *)
SetAt(t, w, col, line, text) ==
    \A x, y, z : Holds(w, x, y, z) <=>
                    IF x = col /\ y = line THEN z = text /\ z # NoText ELSE Holds(t, x, y, z)

LEMMA SetIsSet ==
  ASSUME NEW T, NEW t, IsTable(T, t), NEW col \in Nat, NEW line \in Nat,
         NEW text \in T \cup {NoText}
  PROVE  /\ IsTable(T, SetCell(t, col, line, text))
         /\ SetAt(t, SetCell(t, col, line, text), col, line, text)
<1> DEFINE w == SetCell(t, col, line, text)
<1> HIDE DEF w
<1>1. /\ IsTable(T, w)
      /\ \A x, y, z : Holds(w, x, y, z) <=>
                        IF x = col /\ y = line THEN z = text /\ z # NoText
                        ELSE Holds(t, x, y, z)
  BY SetHolds DEF w
<1> QED
  BY <1>1 DEF SetAt, w

LEMMA LinesHold ==
  ASSUME NEW T, NEW t, IsTable(T, t), NEW col \in Nat, NEW texts, NoText \notin T,
         \A l \in DOMAIN texts : texts[l] \in T,
         NEW n \in Nat, NEW f, IsSet(t, col, texts, n, f)
  PROVE  IsTable(T, f[n]) /\ LinesSet(t, f[n], col, texts, n)
<1> DEFINE S == {k \in Nat : k \in 0 .. n =>
                    IsTable(T, f[k]) /\ LinesSet(t, f[k], col, texts, k)}
<1>1. 0 \in S
  <2>1. f[0] = t
    BY DEF IsSet
  <2> QED
    BY <2>1 DEF LinesSet
<1>2. ASSUME NEW k \in Nat, k \in S PROVE k + 1 \in S
  <2> SUFFICES ASSUME k + 1 \in 0 .. n
               PROVE  IsTable(T, f[k + 1]) /\ LinesSet(t, f[k + 1], col, texts, k + 1)
    OBVIOUS
  <2> DEFINE u == f[k]
             v == f[k + 1]
             text == texts[k + 1]
  <2>1. k \in 0 .. n /\ k + 1 # 0 /\ (k + 1) - 1 = k
    OBVIOUS
  <2>2. IsTable(T, u) /\ LinesSet(t, u, col, texts, k)
    BY <1>2, <2>1
  <2>3. v = IF k + 1 \in DOMAIN texts THEN SetCell(u, col, k, text) ELSE u
    BY <2>1 DEF IsSet
  <2>4. CASE k + 1 \notin DOMAIN texts
    <3>1. v = u
      BY <2>3, <2>4
    <3>2. \A l \in 1 .. k + 1 : l \in DOMAIN texts => l \in 1 .. k
      BY <2>4
    <3>3. \A l \in 1 .. k : l \in 1 .. k + 1
      OBVIOUS
    <3> HIDE DEF u, v
    <3>4. LinesSet(t, u, col, texts, k + 1)
      <4> SUFFICES ASSUME NEW x, NEW y, NEW z
                   PROVE  Holds(u, x, y, z) <=>
                            IF x = col /\ \E l \in 1 .. k + 1 : l \in DOMAIN texts /\ y = l - 1
                            THEN z = texts[y + 1] ELSE Holds(t, x, y, z)
        BY DEF LinesSet
      <4>1. (\E l \in 1 .. k + 1 : l \in DOMAIN texts /\ y = l - 1) <=>
            (\E l \in 1 .. k : l \in DOMAIN texts /\ y = l - 1)
        BY <3>2, <3>3
      <4>2. Holds(u, x, y, z) <=>
              IF x = col /\ \E l \in 1 .. k : l \in DOMAIN texts /\ y = l - 1
              THEN z = texts[y + 1] ELSE Holds(t, x, y, z)
        BY <2>2 DEF LinesSet
      <4> QED
        BY <4>1, <4>2
    <3> QED
      BY <2>2, <3>1, <3>4 DEF u, v
  <2>5. CASE k + 1 \in DOMAIN texts
    <3>1. v = SetCell(u, col, k, text) /\ text \in T /\ text # NoText
      BY <2>3, <2>5
    <3> HIDE DEF u, v, text
    <3>4. text \in T \cup {NoText} /\ IsTable(T, u) /\ col \in Nat /\ k \in Nat
      BY <2>2, <3>1
    <3>5. IsTable(T, v) /\ SetAt(u, v, col, k, text)
      BY <3>1, <3>4, SetIsSet
    <3>2. /\ IsTable(T, v)
          /\ \A x, y, z : Holds(v, x, y, z) <=>
                            IF x = col /\ y = k THEN z = text /\ z # NoText
                            ELSE Holds(u, x, y, z)
      BY <3>5 DEF SetAt
    <3>3. ASSUME NEW x, NEW y, NEW z
          PROVE  Holds(v, x, y, z) <=>
                   IF x = col /\ \E l \in 1 .. k + 1 : l \in DOMAIN texts /\ y = l - 1
                   THEN z = texts[y + 1] ELSE Holds(t, x, y, z)
      <4>1. Holds(u, x, y, z) <=>
              IF x = col /\ \E l \in 1 .. k : l \in DOMAIN texts /\ y = l - 1
              THEN z = texts[y + 1] ELSE Holds(t, x, y, z)
        BY <2>2 DEF LinesSet
      <4>2. (\E l \in 1 .. k + 1 : l \in DOMAIN texts /\ y = l - 1) <=>
            (y = k \/ \E l \in 1 .. k : l \in DOMAIN texts /\ y = l - 1)
        <5>1. k + 1 \in 1 .. k + 1 /\ \A l \in 1 .. k + 1 : l = k + 1 \/ l \in 1 .. k
          OBVIOUS
        <5>2. \A l \in 1 .. k : l \in 1 .. k + 1
          OBVIOUS
        <5> QED
          BY <2>1, <2>5, <5>1, <5>2
      <4>3. y = k => texts[y + 1] = text
        BY DEF text
      <4> QED
        BY <3>1, <3>2, <4>1, <4>2, <4>3
    <3> QED
      BY <3>2, <3>3 DEF LinesSet, v
  <2> QED
    BY <2>4, <2>5
<1>3. n \in S
  <2> HIDE DEF S
  <2> QED
    BY <1>1, <1>2, NumberInduction
<1> QED
  BY <1>3

LEMMA AllSet ==
  ASSUME NEW T, NEW t, IsTable(T, t), NEW col \in Nat, NEW texts, NoText \notin T,
         \A l \in DOMAIN texts : texts[l] \in T, Len(list) \in Nat,
         NEW w, w = SetAll(t, col, texts)
  PROVE  IsTable(T, w) /\ LinesSet(t, w, col, texts, Len(list))
<1> DEFINE n == Len(list)
<1>1. w = (CHOOSE f : IsSet(t, col, texts, n, f))[n]
  BY DEF SetAll, IsSet
<1> HIDE DEF n
<1>2. n \in Nat
  BY DEF n
<1>3. PICK f : IsSet(t, col, texts, n, f) /\ w = f[n]
  BY <1>1, <1>2, SetExists
<1>4. IsTable(T, f[n]) /\ LinesSet(t, f[n], col, texts, n)
  BY <1>2, <1>3, LinesHold
<1> QED
  BY <1>3, <1>4 DEF n

------------------------------------------------------------------------------
(* A list of entries: the depth of an entry is that of the one before, one  *)
(* more behind a collection and one less at the end of one.                 *)
IsEntry(e) ==
    /\ e.depth \in Int /\ e.item \in Alphabet /\ e.text \in ItemsToTell
    /\ e.text.kind = e.item.kind
Deeper(it) == IF it.kind = "collection" THEN 1 ELSE 0
Ending(it) == IF it.kind = "end_collection" THEN 1 ELSE 0
Nests(s) ==
    \A l \in 1 .. Len(s) - 1 :
        s[l + 1].depth = s[l].depth + Deeper(s[l].item) - Ending(s[l + 1].item)
IsListing(s) ==
    /\ IsSeq(s) /\ Len(s) <= MaxPuts
    /\ \A l \in 1 .. Len(s) : IsEntry(s[l])
    /\ Nests(s)

(* One is the least deep, and none is further from it than it can be.       *)
Depth(s, l) == s[l].depth
Least(s) == Min({s[l].depth : l \in DOMAIN s})

LEMMA LeastNumberOf ==
  ASSUME NEW n \in Nat \ {0}, NEW d, \A l \in 1 .. n : d[l] \in Int
  PROVE  \E k \in 1 .. n : \A l \in 1 .. n : d[k] <= d[l]
<1> DEFINE S == {m \in Nat : m + 1 <= n =>
                    \E k \in 1 .. m + 1 : \A l \in 1 .. m + 1 : d[k] <= d[l]}
<1>1. 0 \in S
  <2>1. \A l \in 1 .. 0 + 1 : l = 1 /\ l \in 1 .. n
    OBVIOUS
  <2>2. 1 \in 1 .. 0 + 1 /\ d[1] \in Int
    BY <2>1
  <2>3. \A l \in 1 .. 0 + 1 : d[1] <= d[l]
    BY <2>1, <2>2
  <2> QED
    BY <2>2, <2>3
<1>2. ASSUME NEW m \in Nat, m \in S PROVE m + 1 \in S
  <2> SUFFICES ASSUME (m + 1) + 1 <= n
               PROVE  \E k \in 1 .. (m + 1) + 1 : \A l \in 1 .. (m + 1) + 1 : d[k] <= d[l]
    OBVIOUS
  <2>1. PICK k \in 1 .. m + 1 : \A l \in 1 .. m + 1 : d[k] <= d[l]
    BY <1>2
  <2> DEFINE j == (m + 1) + 1
  <2>2. /\ j \in 1 .. j /\ k \in 1 .. j /\ d[j] \in Int /\ d[k] \in Int
        /\ \A l \in 1 .. j : l = j \/ l \in 1 .. m + 1
        /\ \A l \in 1 .. j : d[l] \in Int
    OBVIOUS
  <2> HIDE DEF j
  <2>3. CASE d[k] <= d[j]
    BY <2>1, <2>2, <2>3 DEF j
  <2>4. CASE ~(d[k] <= d[j])
    <3>1. \A l \in 1 .. j : d[j] <= d[l]
      BY <2>1, <2>2, <2>4
    <3> QED
      BY <2>2, <3>1 DEF j
  <2> QED
    BY <2>3, <2>4
<1>3. n - 1 \in S
  <2> HIDE DEF S
  <2> QED
    BY <1>1, <1>2, NumberInduction
<1>4. (n - 1) + 1 = n
  OBVIOUS
<1> QED
  BY <1>3, <1>4

LEMMA LeastDeep ==
  ASSUME NEW s, IsListing(s), s # <<>>
  PROVE  /\ Least(s) \in Int /\ \A l \in 1 .. Len(s) : Least(s) <= Depth(s, l)
         /\ \E k \in 1 .. Len(s) : Depth(s, k) = Least(s)
<1> DEFINE n == Len(s)
           d == [l \in 1 .. n |-> s[l].depth]
           S == {s[l].depth : l \in DOMAIN s}
<1>1. n \in Nat \ {0} /\ DOMAIN s = 1 .. n
  BY DEF IsListing, IsSeq
<1>2. \A l \in 1 .. n : d[l] = Depth(s, l) /\ d[l] \in Int
  BY DEF IsListing, IsEntry, Depth
<1>3. PICK k \in 1 .. n : \A l \in 1 .. n : d[k] <= d[l]
  <2> HIDE DEF d, n
  <2> QED
    BY <1>1, <1>2, LeastNumberOf
<1>4. d[k] \in S /\ \A x \in S : d[k] <= x /\ x \in Int
  BY <1>1, <1>2, <1>3
<1>5. Least(s) = CHOOSE x \in S : \A y \in S : x <= y
  BY DEF Least, Min
<1> HIDE DEF S, d
<1>6. Least(s) \in S /\ \A y \in S : Least(s) <= y
  BY <1>4, <1>5
<1>7. Least(s) = d[k]
  BY <1>4, <1>6
<1> QED
  BY <1>2, <1>3, <1>7

LEMMA DepthsNear ==
  ASSUME NEW s, IsListing(s), NEW i \in 1 .. Len(s), NEW j \in 1 .. Len(s)
  PROVE  Depth(s, i) - Depth(s, j) <= MaxPuts
<1> DEFINE n == Len(s)
           D(l) == Depth(s, l)
<1>1. /\ n \in Nat /\ n <= MaxPuts /\ MaxPuts \in Nat
      /\ \A l \in 1 .. n : D(l) \in Int
      /\ \A l \in 1 .. n - 1 : D(l + 1) = D(l) + Deeper(s[l].item) - Ending(s[l + 1].item)
  BY BoundAssumption DEF IsListing, IsSeq, IsEntry, Nests, Depth
<1>2. \A l \in 1 .. n - 1 : D(l + 1) - D(l) <= 1 /\ D(l) - D(l + 1) <= 1
  <2> SUFFICES ASSUME NEW l \in 1 .. n - 1
               PROVE  D(l + 1) - D(l) <= 1 /\ D(l) - D(l + 1) <= 1
    OBVIOUS
  <2>1. Deeper(s[l].item) \in 0 .. 1 /\ Ending(s[l + 1].item) \in 0 .. 1
    BY DEF Deeper, Ending
  <2>2. D(l) \in Int /\ D(l + 1) = D(l) + Deeper(s[l].item) - Ending(s[l + 1].item)
    <3>1. l \in 1 .. n
      BY <1>1
    <3> QED
      BY <1>1, <3>1
  <2> HIDE DEF D
  <2> QED
    BY <2>1, <2>2
<1> HIDE DEF D, n
<1>3. \A a \in 1 .. n : \A c \in Nat : a + c <= n => D(a + c) - D(a) <= c /\ D(a) - D(a + c) <= c
  <2> SUFFICES ASSUME NEW a \in 1 .. n
               PROVE  \A c \in Nat : a + c <= n => D(a + c) - D(a) <= c /\ D(a) - D(a + c) <= c
    OBVIOUS
  <2> DEFINE S == {c \in Nat : a + c <= n => D(a + c) - D(a) <= c /\ D(a) - D(a + c) <= c}
  <2>1. 0 \in S
    <3>1. a + 0 = a /\ D(a) \in Int
      BY <1>1
    <3> QED
      BY <3>1
  <2>2. ASSUME NEW c \in Nat, c \in S PROVE c + 1 \in S
    <3> SUFFICES ASSUME a + (c + 1) <= n
                 PROVE  D(a + (c + 1)) - D(a) <= c + 1 /\ D(a) - D(a + (c + 1)) <= c + 1
      OBVIOUS
    <3> DEFINE b == a + c
    <3>1. b \in 1 .. n - 1 /\ b \in 1 .. n /\ b + 1 \in 1 .. n /\ a + (c + 1) = b + 1 /\ b <= n
      BY <1>1
    <3>2. D(b) - D(a) <= c /\ D(a) - D(b) <= c
      BY <2>2, <3>1
    <3> HIDE DEF b
    <3>3. D(b + 1) - D(b) <= 1 /\ D(b) - D(b + 1) <= 1
      BY <1>2, <3>1
    <3>4. D(a) \in Int /\ D(b) \in Int /\ D(b + 1) \in Int
      BY <1>1, <3>1
    <3>5. D(b + 1) - D(a) <= c + 1 /\ D(a) - D(b + 1) <= c + 1
      BY <3>2, <3>3, <3>4
    <3> QED
      BY <3>1, <3>5
  <2> HIDE DEF S
  <2>3. \A c \in Nat : c \in S
    BY <2>1, <2>2, NumberInduction
  <2> QED
    BY <2>3 DEF S
<1>4. i \in 1 .. n /\ j \in 1 .. n /\ D(i) \in Int /\ D(j) \in Int
  BY <1>1 DEF n
<1>5. CASE i <= j
  <2> DEFINE c == j - i
  <2>1. c \in Nat /\ i + c = j /\ i + c <= n /\ c <= MaxPuts
    BY <1>1, <1>4, <1>5
  <2> HIDE DEF c
  <2>2. D(i) - D(i + c) <= c
    BY <1>3, <1>4, <2>1
  <2>3. D(i) - D(j) <= c
    BY <2>1, <2>2
  <2>4. D(i) - D(j) <= MaxPuts
    BY <1>1, <1>4, <2>1, <2>3
  <2> QED
    BY <2>4 DEF D
<1>6. CASE j <= i
  <2> DEFINE c == i - j
  <2>1. c \in Nat /\ j + c = i /\ j + c <= n /\ c <= MaxPuts
    BY <1>1, <1>4, <1>6
  <2> HIDE DEF c
  <2>2. D(j + c) - D(j) <= c
    BY <1>3, <1>4, <2>1
  <2>3. D(i) - D(j) <= c
    BY <2>1, <2>2
  <2>4. D(i) - D(j) <= MaxPuts
    BY <1>1, <1>4, <2>1, <2>3
  <2> QED
    BY <2>4 DEF D
<1> QED
  BY <1>4, <1>5, <1>6

------------------------------------------------------------------------------
(* The texts that are told of an entry, and the columns they go to.         *)
Inset(o, s, l) == (Depth(s, l) - Least(s)) * o.tabstop
ItemText(o, s, l) == Text("item", Inset(o, s, l), s[l].text, l # Len(s))
BytesText(o, s, l) ==
    Text("bytes", IF o.indent THEN Inset(o, s, l) ELSE 0, s[l].item, l # Len(s))
DumpText(s, l) == Text("dump", 0, s[l].item, FALSE)

InSpec(o, s, x, l, z) ==
    \/ x = 0 /\ z = ItemText(o, s, l)
    \/ x = 1 /\ o.dumps /\ z = DumpText(s, l)
    \/ x = 2 /\ o.described /\ s[l].described /\ z = Mark("description")
InCode(o, s, x, l, z) ==
    \/ x = 0 /\ z = BytesText(o, s, l)
    \/ o.comments /\ x = 1 /\ z = Mark("begin")
    \/ o.comments /\ x = 2 /\ z = ItemText(o, s, l)
    \/ o.comments /\ x = 3 /\ o.dumps /\ z = DumpText(s, l)
    \/ o.comments /\ x = 4 /\ o.described /\ s[l].described /\ z = Mark("description")
    \/ o.comments /\ x = 5 /\ z = Mark("end")
Written(o, s, x, l, z) == IF o.type = "spec" THEN InSpec(o, s, x, l, z) ELSE InCode(o, s, x, l, z)

SinkOptions == [type : Types, tabstop : Tabstops, dumps : BOOLEAN, described : BOOLEAN,
            comments : BOOLEAN, indent : BOOLEAN]

LEMMA InsetTold ==
  ASSUME NEW s, IsListing(s), NEW o \in SinkOptions, NEW l \in 1 .. Len(s)
  PROVE  /\ Inset(o, s, l) \in {d * tabstop : d \in 0 .. MaxPuts, tabstop \in Tabstops}
         /\ Inset(o, s, l) \in Nat
         /\ 0 \in {d * tabstop : d \in 0 .. MaxPuts, tabstop \in Tabstops}
<1>1. o.tabstop \in Tabstops /\ o.tabstop \in Nat
  BY TabstopAssumption DEF SinkOptions
<1>2. s # <<>>
  <2>1. Len(<<>>) = 0
    BY ShortSeqs
  <2>2. ASSUME s = <<>> PROVE FALSE
    <3>1. l \in 1 .. 0
      BY <2>1, <2>2
    <3> QED
      BY <3>1
  <2> QED
    BY <2>2
<1>3. PICK k \in 1 .. Len(s) : Depth(s, k) = Least(s)
  BY <1>2, LeastDeep
<1>4. Least(s) \in Int /\ Least(s) <= Depth(s, l) /\ Depth(s, l) - Least(s) <= MaxPuts
  BY <1>2, <1>3, LeastDeep, DepthsNear
<1>5. Depth(s, l) \in Int /\ MaxPuts \in Nat
  BY BoundAssumption DEF IsListing, IsEntry, Depth
<1> DEFINE d == Depth(s, l) - Least(s)
           m == o.tabstop
<1>6. d \in 0 .. MaxPuts /\ d \in Nat
  BY <1>4, <1>5
<1> HIDE DEF d
<1>7. d * m \in Nat
  BY <1>1, <1>6
<1>8. 0 * m = 0 /\ 0 \in 0 .. MaxPuts
  BY <1>1, <1>5
<1> QED
  BY <1>1, <1>6, <1>7, <1>8 DEF Inset, d

LEMMA TextsTold ==
  ASSUME NEW s, IsListing(s), NEW o \in SinkOptions, NEW l \in 1 .. Len(s)
  PROVE  /\ ItemText(o, s, l) \in TextsToTell
         /\ BytesText(o, s, l) \in TextsToTell
         /\ DumpText(s, l) \in TextsToTell
         /\ \A what \in {"description", "begin", "end"} : Mark(what) \in TextsToTell
<1> DEFINE D == {d * tabstop : d \in 0 .. MaxPuts, tabstop \in Tabstops}
<1>1. Inset(o, s, l) \in D /\ 0 \in D
  BY InsetTold
<1> HIDE DEF D
<1>2. s[l].text \in ItemsToTell /\ s[l].item \in ItemsToTell /\ Item("mark", <<>>) \in ItemsToTell
  BY DEF IsListing, IsEntry, ItemsToTell
<1>3. ASSUME NEW what \in {"item", "dump", "description", "bytes", "begin", "end"},
             NEW indent \in D, NEW it \in ItemsToTell, NEW comma \in BOOLEAN
      PROVE  Text(what, indent, it, comma) \in TextsToTell
  BY DEF Text, TextsToTell, D
<1>4. (l # Len(s)) \in BOOLEAN
  OBVIOUS
<1>5. ItemText(o, s, l) \in TextsToTell
  BY <1>1, <1>2, <1>3, <1>4 DEF ItemText
<1>6. BytesText(o, s, l) \in TextsToTell
  BY <1>1, <1>2, <1>3, <1>4 DEF BytesText
<1>7. DumpText(s, l) \in TextsToTell
  BY <1>1, <1>2, <1>3 DEF DumpText
<1>8. \A what \in {"description", "begin", "end"} : Mark(what) \in TextsToTell
  BY <1>1, <1>2, <1>3 DEF Mark
<1> QED
  BY <1>5, <1>6, <1>7, <1>8

------------------------------------------------------------------------------
(* The tables of the sinks: what they hold is what is told of the entries.  *)
LEMMA NewHolds ==
  ASSUME NEW T
  PROVE  IsTable(T, NewTable) /\ \A x, y, z : ~Holds(NewTable, x, y, z)
<1>1. NewTable \in Seq(Row(T)) /\ NewTable # <<>>
  BY Kinds DEF NewTable
<1>2. /\ Len(NewTable) = 1 /\ NewTable[1].cells = <<EmptyCell>>
      /\ Len(<<EmptyCell>>) = 1 /\ <<EmptyCell>>[1].text = NoText
  BY DEF NewTable, EmptyRow, EmptyCell
<1>3. ASSUME NEW x, NEW y, NEW z, Holds(NewTable, x, y, z) PROVE FALSE
  <2>1. PICK r \in 1 .. 1 : HasText(NewTable[r].cells, x, z)
    BY <1>2, <1>3 DEF Holds
  <2>2. r = 1
    OBVIOUS
  <2>3. HasText(<<EmptyCell>>, x, z)
    BY <1>2, <2>1, <2>2
  <2>4. PICK c \in 1 .. 1 : <<EmptyCell>>[c].text = z /\ z # NoText
    BY <1>2, <2>3 DEF HasText
  <2>5. c = 1
    OBVIOUS
  <2> QED
    BY <1>2, <2>4, <2>5
<1> QED
  BY <1>1, <1>3 DEF IsTable

LEMMA ToTableHolds ==
  ASSUME IsListing(list), opts \in SinkOptions, NEW n, n = Len(list)
  PROVE  /\ IsTable(TextsToTell, ToTable)
         /\ \A x, y, z : Holds(ToTable, x, y, z) <=>
                            \E l \in 1 .. n : y = l - 1 /\ InSpec(opts, list, x, l, z)
<1> DEFINE T == TextsToTell
           items == [l \in DOMAIN list |->
                       Text("item", Indent(l), list[l].text, NotLast(l))]
           dumps == [l \in IF opts.dumps THEN DOMAIN list ELSE {} |->
                       Text("dump", 0, list[l].item, FALSE)]
           marks == [l \in {k \in DOMAIN list : opts.described /\ list[k].described} |->
                       Mark("description")]
           code == SetAll(NewTable, CodeCol, items)
           dump == SetAll(code, DumpCol, dumps)
           full == SetAll(dump, CmntCol, marks)
<1>0. ToTable = full
  BY DEF ToTable
<1>1. /\ n \in Nat /\ DOMAIN list = 1 .. n /\ NoText \notin T
      /\ CodeCol = 0 /\ DumpCol = 1 /\ CmntCol = 2
  BY SeqFacts, LayoutAssumption DEF IsListing, CodeCol, DumpCol, CmntCol
<1>2. ASSUME NEW l \in 1 .. n
      PROVE  /\ l \in DOMAIN items /\ items[l] = ItemText(opts, list, l)
             /\ ItemText(opts, list, l) \in T /\ DumpText(list, l) \in T
             /\ Mark("description") \in T
             /\ l \in DOMAIN dumps <=> opts.dumps
             /\ l \in DOMAIN dumps => dumps[l] = DumpText(list, l)
             /\ l \in DOMAIN marks <=> opts.described /\ list[l].described
             /\ l \in DOMAIN marks => marks[l] = Mark("description")
  <2>1. items[l] = Text("item", Indent(l), list[l].text, NotLast(l))
    BY <1>1
  <2>2. Indent(l) = Inset(opts, list, l) /\ NotLast(l) = (l # Len(list))
    BY DEF Indent, Inset, MinDepth, Least, Depth, NotLast
  <2>3. items[l] = ItemText(opts, list, l)
    BY <2>1, <2>2 DEF ItemText
  <2>4. /\ ItemText(opts, list, l) \in T /\ DumpText(list, l) \in T
        /\ Mark("description") \in T
    BY TextsTold
  <2>5. l \in DOMAIN dumps => dumps[l] = DumpText(list, l)
    BY DEF DumpText
  <2> QED
    BY <1>1, <2>3, <2>4, <2>5
<1>3. /\ DOMAIN items \subseteq 1 .. n /\ DOMAIN dumps \subseteq 1 .. n
      /\ DOMAIN marks \subseteq 1 .. n
  BY <1>1
<1> HIDE DEF items, dumps, marks, T
<1>4. IsTable(T, code) /\ LinesSet(NewTable, code, 0, items, n)
  <2>1. IsTable(T, NewTable) /\ \A l \in DOMAIN items : items[l] \in T
    BY <1>2, <1>3, NewHolds
  <2> QED
    BY <1>1, <2>1, AllSet
<1> HIDE DEF code
<1>5. IsTable(T, dump) /\ LinesSet(code, dump, 1, dumps, n)
  <2>1. \A l \in DOMAIN dumps : dumps[l] \in T
    BY <1>2, <1>3
  <2> QED
    BY <1>1, <1>4, <2>1, AllSet
<1> HIDE DEF dump
<1>6. IsTable(T, full) /\ LinesSet(dump, full, 2, marks, n)
  <2>1. \A l \in DOMAIN marks : marks[l] \in T
    BY <1>2, <1>3
  <2> QED
    BY <1>1, <1>5, <2>1, AllSet
<1> HIDE DEF full
<1>7. ASSUME NEW x, NEW y, NEW z
      PROVE  Holds(full, x, y, z) <=> \E l \in 1 .. n : y = l - 1 /\ InSpec(opts, list, x, l, z)
  <2>1. /\ \A k \in 1 .. n : k \in Int
        /\ \A l \in 1 .. n : y = l - 1 => y + 1 = l
        /\ \A k, l \in 1 .. n : y = k - 1 /\ y = l - 1 => k = l
    BY <1>1
  <2>2. /\ Holds(full, x, y, z) <=>
             IF x = 2 /\ \E l \in 1 .. n : l \in DOMAIN marks /\ y = l - 1
             THEN z = marks[y + 1] ELSE Holds(dump, x, y, z)
        /\ Holds(dump, x, y, z) <=>
             IF x = 1 /\ \E l \in 1 .. n : l \in DOMAIN dumps /\ y = l - 1
             THEN z = dumps[y + 1] ELSE Holds(code, x, y, z)
        /\ Holds(code, x, y, z) <=>
             IF x = 0 /\ \E l \in 1 .. n : l \in DOMAIN items /\ y = l - 1
             THEN z = items[y + 1] ELSE Holds(NewTable, x, y, z)
        /\ ~Holds(NewTable, x, y, z)
    BY <1>4, <1>5, <1>6, NewHolds DEF LinesSet
  <2>3. CASE ~ \E l \in 1 .. n : y = l - 1
    BY <2>2, <2>3
  <2>4. CASE \E l \in 1 .. n : y = l - 1
    <3>1. PICK l \in 1 .. n : y = l - 1
      BY <2>4
    <3>2. y + 1 = l
      BY <2>1, <3>1
    <3>3. /\ (\E k \in 1 .. n : k \in DOMAIN marks /\ y = k - 1)
                 <=> opts.described /\ list[l].described
          /\ (\E k \in 1 .. n : k \in DOMAIN dumps /\ y = k - 1) <=> opts.dumps
          /\ (\E k \in 1 .. n : k \in DOMAIN items /\ y = k - 1)
      BY <1>2, <2>1, <3>1
    <3>4. (\E k \in 1 .. n : y = k - 1 /\ InSpec(opts, list, x, k, z)) <=>
             InSpec(opts, list, x, l, z)
      BY <2>1, <3>1
    <3>5. Holds(full, x, y, z) <=> InSpec(opts, list, x, l, z)
      <4>1. CASE x = 0
        BY <1>2, <2>2, <3>2, <3>3, <4>1 DEF InSpec
      <4>2. CASE x = 1
        BY <1>2, <2>2, <3>1, <3>2, <3>3, <4>2 DEF InSpec
      <4>3. CASE x = 2
        BY <1>2, <2>2, <3>1, <3>2, <3>3, <4>3 DEF InSpec
      <4>4. CASE x \notin {0, 1, 2}
        BY <2>2, <4>4 DEF InSpec
      <4> QED
        BY <4>1, <4>2, <4>3, <4>4
    <3> QED
      BY <3>4, <3>5
  <2> QED
    BY <2>3, <2>4
<1> QED
  BY <1>0, <1>6, <1>7 DEF T

------------------------------------------------------------------------------
LEMMA ShiftedHolds ==
  ASSUME NEW T, NEW t, IsTable(T, t), NEW w, w = InsCols(t, 0, 1)
  PROVE  /\ IsTable(T, w)
         /\ \A x, y, z : Holds(w, x, y, z) <=> x - 1 \in Nat /\ x \in Nat /\ Holds(t, x - 1, y, z)
<1>1. /\ IsTable(T, w)
      /\ \A x, y, z : Holds(w, x, y, z) <=>
                         \E before \in Nat : x = Moved(before, 0, 1) /\ Holds(t, before, y, z)
  BY InsColsHolds
<1>2. \A before \in Nat : Moved(before, 0, 1) = before + 1
  BY DEF Moved
<1>3. ASSUME NEW x, NEW y, NEW z
      PROVE  Holds(w, x, y, z) <=> x - 1 \in Nat /\ x \in Nat /\ Holds(t, x - 1, y, z)
  <2>1. ASSUME Holds(w, x, y, z) PROVE x - 1 \in Nat /\ x \in Nat /\ Holds(t, x - 1, y, z)
    <3>1. PICK before \in Nat : x = before + 1 /\ Holds(t, before, y, z)
      BY <1>1, <1>2, <2>1
    <3>2. x - 1 = before
      BY <3>1
    <3> QED
      BY <3>1, <3>2
  <2>2. ASSUME x - 1 \in Nat, x \in Nat, Holds(t, x - 1, y, z) PROVE Holds(w, x, y, z)
    <3> DEFINE before == x - 1
    <3>1. before \in Nat /\ x = before + 1 /\ Holds(t, before, y, z)
      BY <2>2
    <3> HIDE DEF before
    <3>2. x = Moved(before, 0, 1)
      BY <1>2, <3>1
    <3> QED
      BY <1>1, <3>1, <3>2
  <2> QED
    BY <2>1, <2>2
<1> QED
  BY <1>1, <1>3

LEMMA CodeTableHolds ==
  ASSUME IsListing(list), opts \in SinkOptions, NEW n, n = Len(list)
  PROVE  /\ IsTable(TextsToTell, CodeTable)
         /\ \A x, y, z : Holds(CodeTable, x, y, z) <=>
                            \E l \in 1 .. n : y = l - 1 /\ InCode(opts, list, x, l, z)
<1> DEFINE T == TextsToTell
           ends == [l \in DOMAIN list |-> Mark("end")]
           begins == [l \in DOMAIN list |-> Mark("begin")]
           bytes == [l \in DOMAIN list |->
                       Text("bytes", IF opts.indent THEN Indent(l) ELSE 0, list[l].item,
                            NotLast(l))]
           ended == SetAll(ToTable, CmntCol + 1, ends)
           moved == InsCols(ended, 0, 1)
           begun == SetAll(moved, 0, begins)
           again == InsCols(begun, 0, 1)
           base == IF opts.comments THEN again ELSE NewTable
           full == SetAll(base, 0, bytes)
<1>0. CodeTable = full
  BY DEF CodeTable
<1>1. n \in Nat /\ DOMAIN list = 1 .. n /\ NoText \notin T /\ CmntCol + 1 = 3
  BY SeqFacts, LayoutAssumption DEF IsListing, CmntCol
<1>2. ASSUME NEW l \in 1 .. n
      PROVE  /\ l \in DOMAIN ends /\ ends[l] = Mark("end") /\ Mark("end") \in T
             /\ l \in DOMAIN begins /\ begins[l] = Mark("begin") /\ Mark("begin") \in T
             /\ l \in DOMAIN bytes /\ bytes[l] = BytesText(opts, list, l)
             /\ BytesText(opts, list, l) \in T
  <2>1. bytes[l] = Text("bytes", IF opts.indent THEN Indent(l) ELSE 0, list[l].item, NotLast(l))
    BY <1>1
  <2>2. Indent(l) = Inset(opts, list, l) /\ NotLast(l) = (l # Len(list))
    BY DEF Indent, Inset, MinDepth, Least, Depth, NotLast
  <2>3. bytes[l] = BytesText(opts, list, l)
    BY <2>1, <2>2 DEF BytesText
  <2>4. BytesText(opts, list, l) \in T /\ Mark("end") \in T /\ Mark("begin") \in T
    BY TextsTold
  <2> QED
    BY <1>1, <2>3, <2>4
<1>3. DOMAIN ends = 1 .. n /\ DOMAIN begins = 1 .. n /\ DOMAIN bytes = 1 .. n
  BY <1>1
<1> HIDE DEF ends, begins, bytes, T
<1>4. /\ IsTable(T, ToTable)
      /\ \A x, y, z : Holds(ToTable, x, y, z) <=>
                         \E l \in 1 .. n : y = l - 1 /\ InSpec(opts, list, x, l, z)
  BY ToTableHolds DEF T
<1>5. IsTable(T, ended) /\ LinesSet(ToTable, ended, 3, ends, n)
  <2>1. \A l \in DOMAIN ends : ends[l] \in T
    BY <1>2, <1>3
  <2> QED
    BY <1>1, <1>4, <2>1, AllSet
<1> HIDE DEF ended
<1>6. /\ IsTable(T, moved)
      /\ \A x, y, z : Holds(moved, x, y, z) <=>
                         x - 1 \in Nat /\ x \in Nat /\ Holds(ended, x - 1, y, z)
  BY <1>5, ShiftedHolds
<1> HIDE DEF moved
<1>7. IsTable(T, begun) /\ LinesSet(moved, begun, 0, begins, n)
  <2>1. \A l \in DOMAIN begins : begins[l] \in T
    BY <1>2, <1>3
  <2> QED
    BY <1>1, <1>6, <2>1, AllSet
<1> HIDE DEF begun
<1>8. /\ IsTable(T, again)
      /\ \A x, y, z : Holds(again, x, y, z) <=>
                         x - 1 \in Nat /\ x \in Nat /\ Holds(begun, x - 1, y, z)
  BY <1>7, ShiftedHolds
<1> HIDE DEF again
<1>9. IsTable(T, base) /\ IsTable(T, full) /\ LinesSet(base, full, 0, bytes, n)
  <2>1. \A l \in DOMAIN bytes : bytes[l] \in T
    BY <1>2, <1>3
  <2>2. IsTable(T, base)
    BY <1>8, NewHolds
  <2> HIDE DEF base
  <2> QED
    BY <1>1, <2>1, <2>2, AllSet
<1> HIDE DEF full
<1>10. ASSUME NEW x, NEW y, NEW z
       PROVE  Holds(full, x, y, z) <=> \E l \in 1 .. n : y = l - 1 /\ InCode(opts, list, x, l, z)
  <2>1. /\ \A l \in 1 .. n : y = l - 1 => y + 1 = l
        /\ \A k, l \in 1 .. n : y = k - 1 /\ y = l - 1 => k = l
    BY <1>1
  <2>2. /\ Holds(full, x, y, z) <=>
             IF x = 0 /\ \E l \in 1 .. n : l \in DOMAIN bytes /\ y = l - 1
             THEN z = bytes[y + 1] ELSE Holds(base, x, y, z)
        /\ \A u : Holds(begun, u, y, z) <=>
             IF u = 0 /\ \E l \in 1 .. n : l \in DOMAIN begins /\ y = l - 1
             THEN z = begins[y + 1] ELSE Holds(moved, u, y, z)
        /\ \A u : Holds(ended, u, y, z) <=>
             IF u = 3 /\ \E l \in 1 .. n : l \in DOMAIN ends /\ y = l - 1
             THEN z = ends[y + 1] ELSE Holds(ToTable, u, y, z)
        /\ ~Holds(NewTable, x, y, z)
    BY <1>5, <1>7, <1>9, NewHolds DEF LinesSet
  <2>3. Holds(base, x, y, z) <=>
            opts.comments /\ x \in Nat /\ x - 1 \in Nat /\ Holds(begun, x - 1, y, z)
    BY <1>8, <2>2
  <2>4. CASE ~ \E l \in 1 .. n : y = l - 1
    <3>1. ~Holds(full, x, y, z)
      BY <1>4, <1>6, <2>2, <2>3, <2>4
    <3> QED
      BY <2>4, <3>1
  <2>5. CASE \E l \in 1 .. n : y = l - 1
    <3>1. PICK l \in 1 .. n : y = l - 1
      BY <2>5
    <3>2. y + 1 = l
      BY <2>1, <3>1
    <3>3. /\ \E k \in 1 .. n : k \in DOMAIN bytes /\ y = k - 1
          /\ \E k \in 1 .. n : k \in DOMAIN begins /\ y = k - 1
          /\ \E k \in 1 .. n : k \in DOMAIN ends /\ y = k - 1
          /\ bytes[y + 1] = BytesText(opts, list, l)
          /\ begins[y + 1] = Mark("begin") /\ ends[y + 1] = Mark("end")
      BY <1>2, <3>1, <3>2
    <3>4. /\ (\E k \in 1 .. n : y = k - 1 /\ InCode(opts, list, x, k, z)) <=>
             InCode(opts, list, x, l, z)
          /\ \A u : (\E k \in 1 .. n : y = k - 1 /\ InSpec(opts, list, u, k, z)) <=>
             InSpec(opts, list, u, l, z)
      BY <2>1, <3>1
    <3>5. \A u : Holds(ended, u, y, z) <=>
             IF u = 3 THEN z = Mark("end") ELSE InSpec(opts, list, u, l, z)
      BY <1>4, <2>2, <3>3, <3>4
    <3>6. \A u : Holds(begun, u, y, z) <=>
             IF u = 0 THEN z = Mark("begin")
             ELSE u - 1 \in Nat /\ u \in Nat /\ Holds(ended, u - 1, y, z)
      BY <1>6, <2>2, <3>3
    <3>7. Holds(full, x, y, z) <=>
             IF x = 0 THEN z = BytesText(opts, list, l)
             ELSE opts.comments /\ x \in Nat /\ x - 1 \in Nat /\ Holds(begun, x - 1, y, z)
      BY <2>2, <2>3, <3>3
    <3>8. Holds(full, x, y, z) <=> InCode(opts, list, x, l, z)
      <4>1. CASE x = 0
        BY <3>7, <4>1 DEF InCode
      <4>2. CASE x = 1
        <5>1. x \in Nat /\ x - 1 \in Nat /\ x - 1 = 0
          BY <4>2
        <5> QED
          BY <3>6, <3>7, <4>2, <5>1 DEF InCode
      <4>3. CASE x \in Nat /\ x - 2 \in Nat
        <5> DEFINE u == x - 2
        <5>1. /\ x \in Nat /\ x - 1 \in Nat /\ x - 1 # 0 /\ x # 0 /\ (x - 1) - 1 = u
              /\ u \in Nat /\ (u = 0 <=> x = 2) /\ (u = 1 <=> x = 3) /\ (u = 2 <=> x = 4)
              /\ (u = 3 <=> x = 5) /\ x # 1
          BY <4>3
        <5> HIDE DEF u
        <5>2. Holds(full, x, y, z) <=> opts.comments /\ Holds(ended, u, y, z)
          BY <3>6, <3>7, <5>1
        <5>3. Holds(ended, u, y, z) <=>
                 IF u = 3 THEN z = Mark("end") ELSE InSpec(opts, list, u, l, z)
          BY <3>5
        <5> QED
          BY <5>1, <5>2, <5>3 DEF InCode, InSpec
      <4>4. CASE x \notin Nat
        BY <3>7, <4>4 DEF InCode
      <4>5. x \in Nat => x = 0 \/ x = 1 \/ x - 2 \in Nat
        OBVIOUS
      <4> QED
        BY <4>1, <4>2, <4>3, <4>4, <4>5
    <3> QED
      BY <3>4, <3>8
  <2> QED
    BY <2>4, <2>5
<1> QED
  BY <1>0, <1>9, <1>10 DEF T

------------------------------------------------------------------------------
(* The output shows a list: a line for every entry, with what is told of    *)
(* the entry in the order of the columns.                                   *)
LineShows(o, s, l, row, C) ==
    /\ IsSeq(row) /\ C \in [1 .. Len(row) -> Nat]
    /\ \A i, j \in 1 .. Len(row) : i < j => C[i] < C[j]
    /\ \A i \in 1 .. Len(row) : Written(o, s, C[i], l, row[i].text)
    /\ \A x, z : Written(o, s, x, l, z) =>
                    \E i \in 1 .. Len(row) : C[i] = x /\ row[i].text = z

Shows(o, s, res) ==
    /\ IsSeq(res) /\ Len(res) = Len(s) /\ Len(s) \in Nat
    /\ \A l \in 1 .. Len(s) : \E C : LineShows(o, s, l, res[l], C)

Tells(t, o, s) ==
    \A x, y, z : Holds(t, x, y, z) <=>
                    \E l \in 1 .. Len(s) : y = l - 1 /\ Written(o, s, x, l, z)

(* Numbers that rise and are 0 to n - 1.                                    *)
CountsLines(L, m, n) ==
    /\ m \in Nat /\ L \in [1 .. m -> Nat]
    /\ \A k, l \in 1 .. m : k < l => L[k] < L[l]
    /\ \A k \in 1 .. m : L[k] + 1 \in 1 .. n
    /\ \A l \in 1 .. n : \E k \in 1 .. m : L[k] = l - 1

LEMMA AllLines ==
  ASSUME NEW n \in Nat, NEW m, NEW L, CountsLines(L, m, n)
  PROVE  m = n /\ \A k \in 1 .. m : L[k] = k - 1
<1> USE DEF CountsLines
<1> DEFINE S == {k \in Nat : k + 1 \in 1 .. n}
           key == [x \in S |-> x]
           s == [k \in 1 .. n |-> k - 1]
<1>0. key \in [S -> Nat] /\ \A x \in S : key[x] = x
  OBVIOUS
<1>1. Rises(L, m, S, key)
  <2>1. L \in [1 .. m -> S]
    OBVIOUS
  <2>2. \A x \in S : \E k \in 1 .. m : L[k] = x
    <3> SUFFICES ASSUME NEW x \in S PROVE \E k \in 1 .. m : L[k] = x
      OBVIOUS
    <3>1. x + 1 \in 1 .. n /\ x \in Nat
      OBVIOUS
    <3>2. PICK k \in 1 .. m : L[k] = (x + 1) - 1
      BY <3>1
    <3> QED
      BY <3>1, <3>2
  <2> HIDE DEF S, key
  <2> QED
    BY <1>0, <2>1, <2>2 DEF Rises
<1>2. Rises(s, n, S, key)
  <2>1. s \in [1 .. n -> S] /\ \A k \in 1 .. n : s[k] = k - 1
    OBVIOUS
  <2>2. \A x \in S : x + 1 \in 1 .. n /\ s[x + 1] = x
    OBVIOUS
  <2> HIDE DEF S, key, s
  <2>3. \A i, j \in 1 .. n : i < j => key[s[i]] < key[s[j]]
    BY <1>0, <2>1
  <2> QED
    BY <2>1, <2>2, <2>3 DEF Rises
<1> HIDE DEF S, key
<1>3. Cardinality(S) = m /\ Cardinality(S) = n
  <2> HIDE DEF s
  <2> QED
    BY <1>0, <1>1, <1>2, RisesCount
<1>4. m = n
  BY <1>3
<1>5. L = s
  <2> HIDE DEF s
  <2> QED
    BY <1>0, <1>1, <1>2, <1>4, RisesOnce
<1> QED
  BY <1>4, <1>5

LEMMA RenderShows ==
  ASSUME NEW s, IsListing(s), NEW o \in SinkOptions, NEW t, IsTable(TextsToTell, t),
         Tells(t, o, s), NEW res, res = Render(t, o.tabstop)
  PROVE  Shows(o, s, res)
<1> DEFINE n == Len(s)
           m == Len(res)
           w == Strips(t, o.tabstop)
<1>1. o.tabstop \in Nat \ {0} /\ \A text \in TextsToTell : TextLen(text) \in Nat
  BY TabstopAssumption, LayoutAssumption DEF SinkOptions
<1>2. PICK L : Laid(res, t, w, L)
  BY <1>1, RenderLaid
<1> HIDE DEF w
<1>3. /\ IsSeq(res) /\ m \in Nat /\ L \in [1 .. m -> Nat]
      /\ \A k, l \in 1 .. m : k < l => L[k] < L[l]
      /\ \A k \in 1 .. m : res[k] # <<>> /\ \E C : Columns(res[k], t, w, L[k], C)
      /\ \A x, y, z : Holds(t, x, y, z) => \E k \in 1 .. m : L[k] = y
  BY <1>2, SeqFacts DEF Laid
<1>4. n \in Nat
  BY DEF IsListing, IsSeq
<1>5. \A k \in 1 .. m : L[k] + 1 \in 1 .. n
  <2> SUFFICES ASSUME NEW k \in 1 .. m PROVE L[k] + 1 \in 1 .. n
    OBVIOUS
  <2>1. PICK C : Columns(res[k], t, w, L[k], C)
    BY <1>3
  <2>2. 1 \in 1 .. Len(res[k])
    BY <1>3, <2>1 DEF Columns, IsSeq
  <2>3. Holds(t, C[1], L[k], res[k][1].text)
    BY <2>1, <2>2 DEF Columns
  <2>4. PICK l \in 1 .. n : L[k] = l - 1
    BY <2>3 DEF Tells
  <2>5. L[k] + 1 = l
    BY <1>4, <2>4
  <2> QED
    BY <2>5
<1>6. \A l \in 1 .. n : \E k \in 1 .. m : L[k] = l - 1
  <2> SUFFICES ASSUME NEW l \in 1 .. n PROVE \E k \in 1 .. m : L[k] = l - 1
    OBVIOUS
  <2>1. \E z : Written(o, s, 0, l, z)
    BY DEF Written, InSpec, InCode
  <2>2. PICK z : Holds(t, 0, l - 1, z)
    BY <2>1 DEF Tells
  <2> QED
    BY <1>3, <2>2
<1>7. m = n /\ \A k \in 1 .. m : L[k] = k - 1
  <2>1. CountsLines(L, m, n)
    BY <1>3, <1>5, <1>6 DEF CountsLines
  <2> HIDE DEF m, n
  <2> QED
    BY <1>4, <2>1, AllLines
<1>8. ASSUME NEW l \in 1 .. n PROVE \E C : LineShows(o, s, l, res[l], C)
  <2>1. PICK C : Columns(res[l], t, w, l - 1, C)
    BY <1>3, <1>7
  <2> DEFINE row == res[l]
  <2> HIDE DEF row
  <2>2. /\ IsSeq(row) /\ C \in [1 .. Len(row) -> Nat]
        /\ \A i, j \in 1 .. Len(row) : i < j => C[i] < C[j]
        /\ \A i \in 1 .. Len(row) : Holds(t, C[i], l - 1, row[i].text)
        /\ \A x, z : Holds(t, x, l - 1, z) =>
                        \E i \in 1 .. Len(row) : C[i] = x /\ row[i].text = z
    BY <2>1 DEF Columns, row
  <2>3. ASSUME NEW x, NEW z PROVE Holds(t, x, l - 1, z) <=> Written(o, s, x, l, z)
    <3>1. \A k \in 1 .. n : l - 1 = k - 1 => k = l
      BY <1>4
    <3> QED
      BY <3>1 DEF Tells
  <2>4. LineShows(o, s, l, row, C)
    BY <2>2, <2>3 DEF LineShows
  <2> QED
    BY <2>4 DEF row
<1> QED
  BY <1>3, <1>4, <1>7, <1>8 DEF Shows

(* hidrd_spec_snk_flush() and hidrd_code_snk_flush() show the list.         *)
LEMMA FlushShows ==
  ASSUME IsListing(list), opts \in SinkOptions, NEW res,
         res = Render(IF opts.type = "spec" THEN ToTable ELSE CodeTable, opts.tabstop)
  PROVE  Shows(opts, list, res)
<1> DEFINE t == IF opts.type = "spec" THEN ToTable ELSE CodeTable
<1>1. IsTable(TextsToTell, t)
  BY ToTableHolds, CodeTableHolds
<1>2. Tells(t, opts, list)
  <2>1. ASSUME NEW x, NEW y, NEW z
        PROVE  Holds(t, x, y, z) <=>
                 \E l \in 1 .. Len(list) : y = l - 1 /\ Written(opts, list, x, l, z)
    <3>1. CASE opts.type = "spec"
      <4>1. \A l : Written(opts, list, x, l, z) <=> InSpec(opts, list, x, l, z)
        BY <3>1 DEF Written
      <4> QED
        BY <3>1, <4>1, ToTableHolds
    <3>2. CASE opts.type # "spec"
      <4>1. \A l : Written(opts, list, x, l, z) <=> InCode(opts, list, x, l, z)
        BY <3>2 DEF Written
      <4> QED
        BY <3>2, <4>1, CodeTableHolds
    <3> QED
      BY <3>1, <3>2
  <2> HIDE DEF t
  <2> QED
    BY <2>1 DEF Tells
<1> HIDE DEF t
<1>3. res = Render(t, opts.tabstop)
  BY DEF t
<1> QED
  BY <1>1, <1>2, <1>3, RenderShows

------------------------------------------------------------------------------
(* What a text is tells the column that it is in.                           *)
ToldBy(o) == IF o.type = "spec" THEN "item" ELSE "bytes"
ToldText(o, s, l) == IF o.type = "spec" THEN ItemText(o, s, l) ELSE BytesText(o, s, l)
InComment(o) == o.type # "spec" /\ o.comments

LEMMA ColumnTells ==
  ASSUME NEW o, NEW s, NEW x, NEW l, NEW z, Written(o, s, x, l, z)
  PROVE  /\ z.what = ToldBy(o) <=> x = 0
         /\ x = 0 => z = ToldText(o, s, l)
         /\ InComment(o) => /\ z.what = "begin" <=> x = 1
                            /\ z.what = "item" <=> x = 2
                            /\ z.what = "end" <=> x = 5
                            /\ x = 2 => z = ItemText(o, s, l)
                            /\ x \in 0 .. 5
<1>1. /\ ItemText(o, s, l).what = "item" /\ BytesText(o, s, l).what = "bytes"
      /\ DumpText(s, l).what = "dump"
      /\ \A what : Mark(what).what = what
  BY DEF ItemText, BytesText, DumpText, Mark, Text
<1>2. CASE o.type = "spec"
  BY <1>1, <1>2 DEF Written, InSpec, ToldBy, ToldText, InComment
<1>3. CASE o.type # "spec"
  <2>1. InCode(o, s, x, l, z)
    BY <1>3 DEF Written
  <2>2. CASE x = 0 /\ z = BytesText(o, s, l)
    BY <1>1, <1>3, <2>2 DEF ToldBy, ToldText, InComment
  <2>3. CASE x = 1 /\ z = Mark("begin")
    BY <1>1, <1>3, <2>3 DEF ToldBy, ToldText, InComment
  <2>4. CASE x = 2 /\ z = ItemText(o, s, l)
    BY <1>1, <1>3, <2>4 DEF ToldBy, ToldText, InComment
  <2>5. CASE x = 3 /\ z = DumpText(s, l)
    BY <1>1, <1>3, <2>5 DEF ToldBy, ToldText, InComment
  <2>6. CASE x = 4 /\ z = Mark("description")
    BY <1>1, <1>3, <2>6 DEF ToldBy, ToldText, InComment
  <2>7. CASE x = 5 /\ z = Mark("end")
    BY <1>1, <1>3, <2>7 DEF ToldBy, ToldText, InComment
  <2> QED
    BY <2>1, <2>2, <2>3, <2>4, <2>5, <2>6, <2>7 DEF InCode
<1> QED
  BY <1>2, <1>3

(* The first columns with texts are the first texts.                        *)
Rising(C, n) ==
    n \in Nat /\ C \in [1 .. n -> Nat] /\ \A i, j \in 1 .. n : i < j => C[i] < C[j]

LEMMA FirstColumn ==
  ASSUME NEW n, NEW C, Rising(C, n), NEW a \in 1 .. n, C[a] = 0
  PROVE  a = 1
<1> USE DEF Rising
<1>1. ASSUME a # 1 PROVE FALSE
  <2>1. 1 \in 1 .. n /\ 1 < a
    BY <1>1
  <2>2. C[1] < C[a] /\ C[1] \in Nat
    BY <2>1
  <2> QED
    BY <2>2
<1> QED
  BY <1>1

LEMMA NextColumn ==
  ASSUME NEW n, NEW C, Rising(C, n), NEW a \in 1 .. n, NEW b \in 1 .. n, C[b] = C[a] + 1
  PROVE  b = a + 1
<1> USE DEF Rising
<1>1. ~(b < a) /\ b # a
  <2>1. C[a] \in Nat /\ C[b] \in Nat
    OBVIOUS
  <2>2. b < a => C[b] < C[a]
    OBVIOUS
  <2>3. b = a => C[b] = C[a]
    OBVIOUS
  <2> QED
    BY <2>1, <2>2, <2>3
<1>2. ASSUME b > a + 1 PROVE FALSE
  <2>1. a + 1 \in 1 .. n /\ a < a + 1 /\ a + 1 < b
    BY <1>2
  <2>2. C[a] < C[a + 1] /\ C[a + 1] < C[b] /\ C[a] \in Nat /\ C[a + 1] \in Nat
    BY <2>1
  <2> QED
    BY <2>2
<1> QED
  BY <1>1, <1>2

(* The only places of texts of some kinds.                                  *)
OnlyAt(row, whats, places) == {i \in DOMAIN row : row[i].text.what \in whats} = places

LineSays(o, s, l, row) ==
    /\ IsSeq(row) /\ DOMAIN row = 1 .. Len(row) /\ 1 \in DOMAIN row
    /\ OnlyAt(row, {ToldBy(o)}, {1}) /\ row[1].text = ToldText(o, s, l)
    /\ InComment(o) => /\ {2, 3, Len(row)} \subseteq DOMAIN row
                       /\ row[2].text.what = "begin" /\ row[3].text.what = "item"
                       /\ row[Len(row)].text.what = "end"
                       /\ row[3].text = ItemText(o, s, l)
                       /\ OnlyAt(row, {"begin", "end"}, {2, Len(row)})
                       /\ OnlyAt(row, {"item"}, {3})

LEMMA LineTells ==
  ASSUME NEW o, NEW s, NEW l, NEW row, NEW C, LineShows(o, s, l, row, C)
  PROVE  LineSays(o, s, l, row)
<1> DEFINE n == Len(row)
<1>1. /\ IsSeq(row) /\ DOMAIN row = 1 .. n /\ n \in Nat /\ C \in [1 .. n -> Nat]
      /\ \A i, j \in 1 .. n : i < j => C[i] < C[j]
      /\ \A i \in 1 .. n : Written(o, s, C[i], l, row[i].text)
      /\ \A x, z : Written(o, s, x, l, z) => \E i \in 1 .. n : C[i] = x /\ row[i].text = z
  BY SeqFacts DEF LineShows
<1> HIDE DEF n
<1>9. Rising(C, n)
  BY <1>1 DEF Rising
<1>2. \A i \in 1 .. n : \A j \in 1 .. n : C[i] = C[j] => i = j
  <2> SUFFICES ASSUME NEW i \in 1 .. n, NEW j \in 1 .. n, C[i] = C[j] PROVE i = j
    OBVIOUS
  <2>1. C[i] \in Nat /\ ~(i < j) /\ ~(j < i)
    BY <1>1, SMTT(30)
  <2> QED
    BY <1>1, <2>1
<1>3. PICK a \in 1 .. n : C[a] = 0
  <2>1. Written(o, s, 0, l, ToldText(o, s, l))
    BY DEF Written, InSpec, InCode, ToldText
  <2> QED
    BY <1>1, <2>1
<1>4. a = 1 /\ 1 \in 1 .. n /\ C[1] = 0
  <2>1. a = 1
    BY <1>3, <1>9, FirstColumn
  <2> QED
    BY <1>3, <2>1
<1>5. \A i \in 1 .. n : row[i].text.what = ToldBy(o) <=> i = 1
  <2> SUFFICES ASSUME NEW i \in 1 .. n PROVE row[i].text.what = ToldBy(o) <=> i = 1
    OBVIOUS
  <2>1. row[i].text.what = ToldBy(o) <=> C[i] = 0
    BY <1>1, ColumnTells
  <2> QED
    BY <1>2, <1>4, <2>1
<1>6. row[1].text = ToldText(o, s, l)
  BY <1>1, <1>4, ColumnTells
<1>7. ASSUME InComment(o)
      PROVE  /\ {2, 3, n} \subseteq 1 .. n
             /\ row[2].text.what = "begin"
             /\ row[3].text = ItemText(o, s, l)
             /\ row[3].text.what = "item"
             /\ row[n].text.what = "end"
             /\ OnlyAt(row, {"begin", "end"}, {2, n})
             /\ OnlyAt(row, {"item"}, {3})
  <2>0. o.type # "spec" /\ o.comments
    BY <1>7 DEF InComment
  <2>1. /\ Written(o, s, 1, l, Mark("begin")) /\ Written(o, s, 2, l, ItemText(o, s, l))
        /\ Written(o, s, 5, l, Mark("end"))
    BY <2>0 DEF Written, InCode
  <2>2. PICK b \in 1 .. n : C[b] = 1
    BY <1>1, <2>1
  <2>3. PICK c \in 1 .. n : C[c] = 2
    BY <1>1, <2>1
  <2>4. PICK e \in 1 .. n : C[e] = 5
    BY <1>1, <2>1
  <2>5. b = 2
    <3>1. C[b] = C[1] + 1
      BY <1>4, <2>2
    <3>2. b = 1 + 1
      BY <1>4, <1>9, <3>1, NextColumn
    <3> QED
      BY <3>2
  <2>6. c = 3
    <3>1. C[c] = C[b] + 1
      BY <2>2, <2>3
    <3>2. c = b + 1
      BY <1>9, <3>1, NextColumn
    <3> QED
      BY <2>5, <3>2
  <2>7. e = n
    <3>1. ASSUME e # n PROVE FALSE
      <4>1. n \in 1 .. n /\ e < n
        BY <1>1, <3>1
      <4>2. C[e] < C[n] /\ Written(o, s, C[n], l, row[n].text)
        BY <1>1, <4>1
      <4>3. C[n] \in 0 .. 5
        BY <1>7, <4>2, ColumnTells
      <4> QED
        BY <2>4, <4>2, <4>3
    <3> QED
      BY <3>1
  <2>8. ASSUME NEW i \in 1 .. n
        PROVE  /\ row[i].text.what = "begin" <=> i = 2
               /\ row[i].text.what = "item" <=> i = 3
               /\ row[i].text.what = "end" <=> i = n
    <3>1. /\ row[i].text.what = "begin" <=> C[i] = 1
          /\ row[i].text.what = "item" <=> C[i] = 2
          /\ row[i].text.what = "end" <=> C[i] = 5
      <4>1. Written(o, s, C[i], l, row[i].text)
        BY <1>1
      <4> DEFINE x == C[i]
                 z == row[i].text
      <4> HIDE DEF x, z
      <4>2. Written(o, s, x, l, z)
        BY <4>1 DEF x, z
      <4>3. /\ z.what = "begin" <=> x = 1
            /\ z.what = "item" <=> x = 2
            /\ z.what = "end" <=> x = 5
        BY <1>7, <4>2, ColumnTells
      <4> QED
        BY <4>3 DEF x, z
    <3>2. (C[i] = 1 <=> i = 2) /\ (C[i] = 2 <=> i = 3) /\ (C[i] = 5 <=> i = n)
      BY <1>2, <2>2, <2>3, <2>4, <2>5, <2>6, <2>7
    <3> QED
      BY <3>1, <3>2
  <2>9. {2, 3, n} \subseteq 1 .. n
    BY <2>2, <2>3, <2>4, <2>5, <2>6, <2>7
  <2>10. row[3].text = ItemText(o, s, l)
    BY <1>1, <1>7, <2>3, <2>6, ColumnTells
  <2>11. OnlyAt(row, {"begin", "end"}, {2, n}) /\ OnlyAt(row, {"item"}, {3})
    <3> DEFINE S(whats) == {i \in DOMAIN row : row[i].text.what \in whats}
    <3>1. ASSUME NEW i PROVE i \in S({"begin", "end"}) <=> i \in {2, n}
      BY <1>1, <2>8, <2>9
    <3>2. ASSUME NEW i PROVE i \in S({"item"}) <=> i \in {3}
      BY <1>1, <2>8, <2>9
    <3> HIDE DEF S
    <3>3. S({"begin", "end"}) = {2, n} /\ S({"item"}) = {3}
      BY <3>1, <3>2
    <3> QED
      BY <3>3 DEF S, OnlyAt
  <2>12. /\ row[2].text.what = "begin" /\ row[3].text.what = "item"
         /\ row[n].text.what = "end"
    BY <2>8, <2>9
  <2> QED
    BY <2>9, <2>10, <2>11, <2>12
<1>8. OnlyAt(row, {ToldBy(o)}, {1})
  BY <1>1, <1>4, <1>5 DEF OnlyAt
<1> QED
  BY <1>1, <1>4, <1>6, <1>7, <1>8 DEF n, LineSays

(* The text of a kind that a line shows.                                    *)
ShownIn(row, what) == row[CHOOSE j \in DOMAIN row : row[j].text.what = what].text

LEMMA ShownText ==
  ASSUME NEW row, NEW what, NEW i, OnlyAt(row, {what}, {i})
  PROVE  ShownIn(row, what) = row[i].text
<1>1. i \in DOMAIN row /\ row[i].text.what = what
  BY DEF OnlyAt
<1>2. \A j \in DOMAIN row : row[j].text.what = what => j = i
  BY DEF OnlyAt
<1>3. (CHOOSE j \in DOMAIN row : row[j].text.what = what) = i
  BY <1>1, <1>2
<1> QED
  BY <1>3 DEF ShownIn

------------------------------------------------------------------------------
(* The entries mean the items put, and the state is theirs.                 *)
TextsOf(s) == [l \in 1 .. Len(s) |-> s[l].text]
ItemsPut(s) == [l \in 1 .. Len(s) |-> s[l].item]
Reached(s) == IF Len(s) = 0 THEN 0 ELSE Depth(s, Len(s)) + Deeper(s[Len(s)].item)

ListInv(s, ps, d) ==
    /\ IsListing(s)
    /\ MeanSame(ItemsPut(s), TextsOf(s))
    /\ ps = LastPages(ItemsPut(s))
    /\ Len(s) # 0 => d = Reached(s)
    /\ d \in Int

Faithful(s) == IsListing(s) /\ Meaning(ItemsPut(s)) = Meaning(TextsOf(s))

SinkInv ==
    /\ opts \in SinkOptions /\ (opts.type = "spec" => ~opts.comments)
    /\ isOpen \in BOOLEAN /\ failed \in BOOLEAN
    /\ Alive => ListInv(list, state, depth)
    /\ out # NoOutput => \E s : Faithful(s) /\ Shows(opts, s, out)

LEMMA SeqIs == ASSUME NEW s, IsSeq(s) PROVE s = [i \in 1 .. Len(s) |-> s[i]]
  BY DEF IsSeq

(* The text of an item means the item where it stands.                      *)
LEMMA TextMeans ==
  ASSUME NEW it \in Alphabet
  PROVE  /\ SameHere(it, TextOf(it), state)
         /\ TextOf(it) \in ItemsToTell /\ TextOf(it).kind = it.kind
<1>1. it = Item(it.kind, it.val) /\ (it.kind = "usage" => it.val = <<it.val[1], it.val[2]>>)
  BY AlphabetAssumption
<1>2. CASE it.kind # "usage"
  BY <1>2 DEF TextOf, SameHere, ItemsToTell
<1>3. CASE it.kind = "usage"
  <2> DEFINE p == it.val[1]
             u == it.val[2]
             bare == Item("usage", <<0, u>>)
  <2>1. it.val = <<p, u>> /\ it = Item("usage", <<p, u>>)
    BY <1>1, <1>3
  <2>2. bare \in ItemsToTell /\ it \in ItemsToTell /\ bare.kind = "usage"
    BY <1>3 DEF ItemsToTell, Item
  <2>3. TextOf(it) = IF p = 0 \/ p = page THEN bare ELSE it
    <3> DEFINE full == IF p = 0 THEN <<page, u>> ELSE <<p, u>>
    <3>1. UsageText(it.val) = IF full[1] = page THEN <<0, full[2]>> ELSE full
      BY <2>1 DEF UsageText
    <3>2. UsageText(it.val) = IF p = 0 \/ p = page THEN <<0, u>> ELSE <<p, u>>
      BY <3>1
    <3> HIDE DEF p, u
    <3> QED
      BY <1>3, <2>1, <3>2 DEF TextOf
  <2>4. /\ Resolve(bare, page) = Item("usage", <<page, u>>)
        /\ p = 0 \/ p = page => Resolve(it, page) = Item("usage", <<page, u>>)
    <3>1. /\ bare.kind = "usage" /\ bare.val = <<0, u>> /\ <<0, u>>[1] = 0 /\ <<0, u>>[2] = u
      BY DEF Item
    <3>2. Resolve(bare, page) = Item("usage", <<page, u>>)
      BY <3>1 DEF Resolve
    <3>3. p = 0 => Resolve(it, page) = Item("usage", <<page, u>>)
      BY <1>3 DEF Resolve
    <3>4. p = page /\ p # 0 => Resolve(it, page) = Item("usage", <<page, u>>)
      BY <2>1 DEF Resolve
    <3> QED
      BY <3>2, <3>3, <3>4
  <2>5. PagesAfter(bare, state) = state /\ PagesAfter(it, state) = state
    BY <1>3, <2>2 DEF PagesAfter
  <2> HIDE DEF bare, p, u
  <2>6. CASE p = 0 \/ p = page
    BY <1>3, <2>2, <2>3, <2>4, <2>5, <2>6 DEF SameHere, page
  <2>7. CASE ~(p = 0 \/ p = page)
    BY <1>3, <2>2, <2>3, <2>7 DEF SameHere
  <2> QED
    BY <2>6, <2>7
<1> QED
  BY <1>2, <1>3

LEMMA PutAdds ==
  ASSUME ListInv(list, state, depth), NEW it \in Alphabet, Len(list) < MaxPuts,
         NEW e, e = Entry(it, EntryDepth(it)), NEW s, s = Append(list, e)
  PROVE  /\ ListInv(s, StateAfter(it), DepthAfter(it))
         /\ Meaning(TextsOf(s)) =
              Append(Meaning(TextsOf(list)), Resolve(it, Head(state)))
<1> DEFINE n == Len(list)
           d == EntryDepth(it)
<1>0. IsListing(list) /\ IsSeq(list) /\ n \in Nat /\ MaxPuts \in Nat /\ depth \in Int
  BY BoundAssumption, SeqFacts DEF ListInv, IsListing
<1>1. /\ IsSeq(s) /\ Len(s) = n + 1 /\ s[n + 1] = e
      /\ \A l \in 1 .. n : s[l] = list[l]
  BY <1>0, AppendedTo
<1>2. e.depth = d /\ e.item = it /\ e.text = TextOf(it)
  BY DEF Entry
<1>3. d = depth - Ending(it) /\ d \in Int /\ DepthAfter(it) = d + Deeper(it)
      /\ DepthAfter(it) \in Int
  <2>1. d = depth - Ending(it) /\ Ending(it) \in Int /\ Deeper(it) \in Int
    BY <1>0 DEF EntryDepth, Ending, Deeper
  <2> QED
    BY <1>0, <2>1 DEF DepthAfter, Deeper
<1>4. IsListing(s)
  <2>1. Len(s) <= MaxPuts
    BY <1>0, <1>1
  <2>2. IsEntry(e)
    BY <1>2, <1>3, TextMeans DEF IsEntry
  <2>3. \A l \in 1 .. n + 1 : l = n + 1 \/ l \in 1 .. n
    BY <1>0
  <2>4. \A l \in 1 .. Len(s) : IsEntry(s[l])
    BY <1>0, <1>1, <2>2, <2>3 DEF IsListing
  <2>5. Nests(s)
    <3> SUFFICES ASSUME NEW l \in 1 .. Len(s) - 1
                 PROVE  s[l + 1].depth = s[l].depth + Deeper(s[l].item) - Ending(s[l + 1].item)
      BY DEF Nests
    <3>1. l \in 1 .. n /\ s[l] = list[l]
      BY <1>0, <1>1
    <3>2. CASE l = n
      <4>1. depth = list[n].depth + Deeper(list[n].item)
        BY <1>0, <3>1, <3>2 DEF ListInv, Reached, Depth
      <4>2. s[l + 1] = e /\ e.depth = depth - Ending(it)
        BY <1>1, <1>2, <1>3, <3>2
      <4>3. list[n].depth \in Int /\ Deeper(list[n].item) \in Int /\ Ending(it) \in Int
        BY <1>0, <3>1, <3>2 DEF IsListing, IsEntry, Deeper, Ending
      <4>4. e.depth = list[n].depth + Deeper(list[n].item) - Ending(it)
        BY <1>0, <4>1, <4>2, <4>3
      <4>5. s[l] = list[n] /\ s[l + 1].item = it
        BY <1>2, <3>1, <3>2, <4>2
      <4> QED
        BY <4>2, <4>4, <4>5
    <3>3. CASE l # n
      <4>1. l \in 1 .. n - 1 /\ l + 1 \in 1 .. n
        BY <1>0, <3>1, <3>3
      <4>2. s[l + 1] = list[l + 1]
        BY <1>1, <4>1
      <4>3. list[l + 1].depth = list[l].depth + Deeper(list[l].item) - Ending(list[l + 1].item)
        BY <1>0, <4>1 DEF IsListing, Nests
      <4> QED
        BY <3>1, <4>2, <4>3
    <3> QED
      BY <3>2, <3>3
  <2> QED
    BY <1>1, <2>1, <2>4, <2>5 DEF IsListing
<1>5. /\ ItemsPut(s) = Append(ItemsPut(list), it)
      /\ TextsOf(s) = Append(TextsOf(list), TextOf(it))
  <2> DEFINE a == ItemsPut(list)
             b == TextsOf(list)
  <2>1. /\ IsSeq(a) /\ Len(a) = n /\ (\A l \in 1 .. n : a[l] = list[l].item)
        /\ IsSeq(b) /\ Len(b) = n /\ (\A l \in 1 .. n : b[l] = list[l].text)
    BY <1>0 DEF ListInv, MeanSame, ItemsPut, TextsOf
  <2> HIDE DEF a, b
  <2>2. /\ IsSeq(Append(a, it)) /\ DOMAIN Append(a, it) = 1 .. n + 1
        /\ (\A l \in 1 .. n : Append(a, it)[l] = list[l].item) /\ Append(a, it)[n + 1] = it
    BY <2>1, AppendedTo
  <2>3. /\ IsSeq(Append(b, TextOf(it))) /\ DOMAIN Append(b, TextOf(it)) = 1 .. n + 1
        /\ \A l \in 1 .. n : Append(b, TextOf(it))[l] = list[l].text
        /\ Append(b, TextOf(it))[n + 1] = TextOf(it)
    <3> DEFINE y == TextOf(it)
    <3> HIDE DEF y
    <3>1. /\ IsSeq(Append(b, y)) /\ DOMAIN Append(b, y) = 1 .. n + 1
          /\ (\A l \in 1 .. n : Append(b, y)[l] = list[l].text) /\ Append(b, y)[n + 1] = y
      BY <2>1, AppendedTo
    <3> QED
      BY <3>1 DEF y
  <2> DEFINE c == Append(a, it)
             g == Append(b, TextOf(it))
  <2>8. IsSeq(c) /\ Len(c) = n + 1 /\ IsSeq(g) /\ Len(g) = n + 1
    BY <2>1, AppendedTo
  <2> HIDE DEF c, g
  <2>9. c = [l \in 1 .. Len(c) |-> c[l]] /\ g = [l \in 1 .. Len(g) |-> g[l]]
    BY <2>8, SeqIs
  <2>4. c = [l \in 1 .. n + 1 |-> c[l]] /\ g = [l \in 1 .. n + 1 |-> g[l]]
    BY <2>8, <2>9
  <2>5. \A l \in 1 .. n + 1 : c[l] = s[l].item /\ g[l] = s[l].text
    <3> SUFFICES ASSUME NEW l \in 1 .. n + 1 PROVE c[l] = s[l].item /\ g[l] = s[l].text
      OBVIOUS
    <3>1. l = n + 1 \/ l \in 1 .. n
      BY <1>0
    <3> QED
      BY <1>1, <1>2, <2>2, <2>3, <3>1 DEF c, g
  <2>6. ItemsPut(s) = c /\ TextsOf(s) = g
    BY <1>1, <2>4, <2>5 DEF ItemsPut, TextsOf
  <2> QED
    BY <2>6 DEF a, b, c, g
<1>6. /\ MeanSame(ItemsPut(list), TextsOf(list)) /\ state = LastPages(ItemsPut(list))
      /\ LastPages(TextsOf(list)) = state
  BY DEF ListInv, MeanSame
<1>7. SameHere(it, TextOf(it), LastPages(ItemsPut(list)))
  BY <1>6, TextMeans
<1>8. /\ MeanSame(ItemsPut(s), TextsOf(s))
      /\ Meaning(ItemsPut(s)) =
           Append(Meaning(ItemsPut(list)), Resolve(TextOf(it), Head(LastPages(TextsOf(list)))))
  BY <1>5, <1>6, <1>7, SameMore
<1>9. LastPages(ItemsPut(s)) = StateAfter(it)
  <2>1. LastPages(ItemsPut(s)) = PagesAfter(it, LastPages(ItemsPut(list)))
    BY <1>5, <1>6, PagesGrow DEF MeanSame
  <2>2. PagesAfter(it, state) = StateAfter(it)
    BY DEF PagesAfter, StateAfter, page
  <2> QED
    BY <1>6, <2>1, <2>2
<1>10. Reached(s) = DepthAfter(it)
  <2>1. n + 1 # 0
    BY <1>0
  <2> QED
    BY <1>1, <1>2, <1>3, <2>1 DEF Reached, Depth
<1>11. Meaning(TextsOf(s)) = Append(Meaning(TextsOf(list)), Resolve(it, Head(state)))
  <2>1. Resolve(TextOf(it), Head(state)) = Resolve(it, Head(state))
    BY TextMeans DEF SameHere
  <2>2. /\ Meaning(TextsOf(s)) = Meaning(ItemsPut(s))
        /\ Meaning(TextsOf(list)) = Meaning(ItemsPut(list))
    BY <1>6, <1>8 DEF MeanSame
  <2> QED
    BY <1>6, <1>8, <2>1, <2>2
<1> QED
  BY <1>3, <1>4, <1>8, <1>9, <1>10, <1>11 DEF ListInv

LEMMA NothingPut == ListInv(<<>>, <<0>>, 0)
<1>1. Len(<<>>) = 0 /\ IsSeq(<<>>)
  BY ShortSeqs
<1>2. ItemsPut(<<>>) = <<>> /\ TextsOf(<<>>) = <<>>
  BY <1>1 DEF ItemsPut, TextsOf
<1>3. IsListing(<<>>)
  BY <1>1, BoundAssumption DEF IsListing, Nests
<1> QED
  BY <1>1, <1>2, <1>3, SameNothing DEF ListInv

LEMMA SinkInit == Init => SinkInv
<1> SUFFICES ASSUME Init PROVE SinkInv
  OBVIOUS
<1>1. opts \in SinkOptions /\ (opts.type = "spec" => ~opts.comments)
  BY DEF Init, SinkOptions
<1>2. list = <<>> /\ state = <<0>> /\ depth = 0 /\ out = NoOutput
      /\ isOpen \in BOOLEAN /\ failed \in BOOLEAN
  BY DEF Init
<1> QED
  BY <1>1, <1>2, NothingPut DEF SinkInv

LEMMA SinkStep == SinkInv /\ [Next]_vars => SinkInv'
<1> SUFFICES ASSUME SinkInv, [Next]_vars PROVE SinkInv'
  OBVIOUS
<1> DEFINE OutInv == out # NoOutput => \E s : Faithful(s) /\ Shows(opts, s, out)
<1>0. /\ opts \in SinkOptions /\ (opts.type = "spec" => ~opts.comments)
      /\ isOpen \in BOOLEAN /\ failed \in BOOLEAN /\ OutInv
      /\ Alive => ListInv(list, state, depth)
  BY DEF SinkInv
<1>1. ASSUME NEW it \in Alphabet, Put(it) PROVE SinkInv'
  <2>1. /\ isOpen /\ ~failed /\ Len(list) < MaxPuts
        /\ list' = Append(list, Entry(it, EntryDepth(it)))
        /\ depth' = DepthAfter(it) /\ state' = StateAfter(it)
        /\ opts' = opts /\ out' = out /\ isOpen' = isOpen /\ failed' = failed
    BY <1>1 DEF Put, CanPut
  <2>2. ListInv(list, state, depth)
    BY <1>0, <2>1 DEF Alive
  <2>3. ListInv(list', StateAfter(it), DepthAfter(it))
    BY <2>1, <2>2, PutAdds
  <2> QED
    BY <1>0, <2>1, <2>3 DEF SinkInv
<1>2. ASSUME NEW it \in Alphabet, PutFails(it) PROVE SinkInv'
  <2>1. failed' = TRUE /\ opts' = opts /\ out' = out /\ isOpen' = isOpen
    BY <1>2 DEF PutFails
  <2> QED
    BY <1>0, <2>1 DEF SinkInv, Alive
<1>3. ASSUME Flush PROVE SinkInv'
  <2>1. /\ isOpen /\ ~failed /\ opts' = opts /\ list' = list /\ depth' = depth /\ state' = state
        /\ isOpen' = isOpen /\ failed' = failed
        /\ \/ out' = Render(IF opts.type = "spec" THEN ToTable ELSE CodeTable, opts.tabstop)
           \/ out' = NoOutput
    BY <1>3 DEF Flush
  <2>2. ListInv(list, state, depth)
    BY <1>0, <2>1 DEF Alive
  <2>3. Faithful(list) /\ IsListing(list)
    BY <2>2 DEF ListInv, MeanSame, Faithful
  <2>4. out' # NoOutput => Shows(opts, list, out')
    BY <1>0, <2>1, <2>3, FlushShows
  <2>5. out' # NoOutput => \E s : Faithful(s) /\ Shows(opts, s, out')
    BY <2>3, <2>4
  <2> QED
    BY <1>0, <2>1, <2>2, <2>5 DEF SinkInv
<1>4. ASSUME Delete PROVE SinkInv'
  <2>1. isOpen' = FALSE /\ opts' = opts /\ out' = out /\ failed' = failed
    BY <1>4 DEF Delete
  <2> QED
    BY <1>0, <2>1 DEF SinkInv, Alive
<1>5. CASE UNCHANGED vars
  BY <1>0, <1>5 DEF SinkInv, vars, Alive
<1> QED
  BY <1>1, <1>2, <1>3, <1>4, <1>5 DEF Next

------------------------------------------------------------------------------
(* What the sinks keep: the entries mean the items put, and the output is   *)
(* that of such a list.                                                     *)
THEOREM SinkHolds == Spec => []SinkInv
<1> QED
  BY SinkInit, SinkStep, PTL DEF Spec

(* The texts of a kind, along the lines of the output.                      *)
ShownOf(res, what) == [k \in DOMAIN res |-> ShownIn(res[k], what)]

LEMMA OutputShown ==
  /\ Listing = ShownOf(out, ToldBy(opts)) /\ Listing' = ShownOf(out', ToldBy(opts'))
  /\ \A what : Shown(what) = ShownOf(out, what)
<1>1. Told = ToldBy(opts) /\ Told' = ToldBy(opts')
  BY DEF Told, ToldBy
<1>2. \A what : Shown(what) = ShownOf(out, what) /\ Shown(what)' = ShownOf(out', what)
  BY DEF Shown, ShownOf, ShownIn
<1>3. Listing = Shown(ToldBy(opts)) /\ Listing' = ShownOf(out', ToldBy(opts'))
  BY <1>1 DEF Listing, Shown, ShownOf, ShownIn
<1> QED
  BY <1>2, <1>3

LEMMA ListingIs ==
  ASSUME NEW o \in SinkOptions, o.type = "spec" => ~o.comments, NEW s, NEW res, Shows(o, s, res)
  PROVE  /\ ShownOf(res, ToldBy(o)) = [k \in 1 .. Len(s) |-> ToldText(o, s, k)]
         /\ o.comments => ShownOf(res, "item") = [k \in 1 .. Len(s) |-> ItemText(o, s, k)]
<1> DEFINE n == Len(s)
<1>1. DOMAIN res = 1 .. n /\ \A k \in 1 .. n : \E C : LineShows(o, s, k, res[k], C)
  BY SeqFacts DEF Shows
<1>2. o.comments => InComment(o)
  BY DEF InComment
<1>3. ASSUME NEW k \in 1 .. n PROVE ShownIn(res[k], ToldBy(o)) = ToldText(o, s, k)
  <2>1. PICK C : LineShows(o, s, k, res[k], C)
    BY <1>1
  <2> DEFINE row == res[k]
  <2> HIDE DEF row
  <2>4. LineSays(o, s, k, row)
    BY <2>1, LineTells DEF row
  <2>2. OnlyAt(row, {ToldBy(o)}, {1}) /\ row[1].text = ToldText(o, s, k)
    BY <1>2, <2>4 DEF LineSays
  <2>3. ShownIn(row, ToldBy(o)) = row[1].text
    BY <2>2, ShownText
  <2> QED
    BY <2>2, <2>3 DEF row
<1>4. ASSUME o.comments, NEW k \in 1 .. n PROVE ShownIn(res[k], "item") = ItemText(o, s, k)
  <2>1. PICK C : LineShows(o, s, k, res[k], C)
    BY <1>1
  <2> DEFINE row == res[k]
  <2> HIDE DEF row
  <2>4. LineSays(o, s, k, row)
    BY <2>1, LineTells DEF row
  <2>2. OnlyAt(row, {"item"}, {3}) /\ row[3].text = ItemText(o, s, k)
    BY <1>2, <1>4, <2>4 DEF LineSays
  <2>3. ShownIn(row, "item") = row[3].text
    BY <2>2, ShownText
  <2> QED
    BY <2>2, <2>3 DEF row
<1>5. \A what : ShownOf(res, what) = [k \in 1 .. n |-> ShownIn(res[k], what)]
  BY <1>1 DEF ShownOf
<1> HIDE DEF n
<1> QED
  BY <1>3, <1>4, <1>5 DEF n

LEMMA LineWell ==
  ASSUME NEW o \in SinkOptions, NEW s, NEW l, NEW row, NEW C, LineShows(o, s, l, row, C),
         NEW texts, texts = [i \in DOMAIN row |-> row[i].text]
  PROVE  /\ {i \in DOMAIN texts : texts[i].what \in {ToldBy(o)}} = {1}
         /\ texts[1].comma = (l # Len(s))
         /\ InComment(o) =>
              /\ texts[2].what = "begin" /\ texts[3].what = "item" /\ Last(texts).what = "end"
              /\ {i \in DOMAIN texts : texts[i].what \in {"begin", "end"}} = {2, Len(texts)}
              /\ {i \in DOMAIN texts : texts[i].what \in {"item"}} = {3}
<1>1. DOMAIN texts = DOMAIN row /\ \A i \in DOMAIN row : texts[i] = row[i].text
  OBVIOUS
<1>0. LineSays(o, s, l, row)
  BY LineTells
<1>2. /\ DOMAIN row = 1 .. Len(row) /\ 1 \in DOMAIN row /\ Len(row) \in Nat
      /\ OnlyAt(row, {ToldBy(o)}, {1}) /\ row[1].text = ToldText(o, s, l)
  BY <1>0, SeqFacts DEF LineSays
<1>3. Len(texts) = Len(row)
  BY <1>1, <1>2
<1>4. \A whats, places : OnlyAt(row, whats, places) =>
                            {i \in DOMAIN texts : texts[i].what \in whats} = places
  BY <1>1 DEF OnlyAt
<1>5. texts[1].comma = (l # Len(s))
  <2>1. texts[1] = ToldText(o, s, l)
    BY <1>1, <1>2
  <2>2. ItemText(o, s, l).comma = (l # Len(s)) /\ BytesText(o, s, l).comma = (l # Len(s))
    BY DEF ItemText, BytesText, Text
  <2> QED
    BY <2>1, <2>2 DEF ToldText
<1>6. ASSUME InComment(o)
      PROVE  /\ texts[2].what = "begin" /\ texts[3].what = "item" /\ Last(texts).what = "end"
             /\ OnlyAt(row, {"begin", "end"}, {2, Len(texts)})
             /\ OnlyAt(row, {"item"}, {3})
  <2>1. /\ {2, 3, Len(row)} \subseteq DOMAIN row
        /\ row[2].text.what = "begin" /\ row[3].text.what = "item"
        /\ row[Len(row)].text.what = "end"
        /\ OnlyAt(row, {"begin", "end"}, {2, Len(row)}) /\ OnlyAt(row, {"item"}, {3})
    BY <1>0, <1>6 DEF LineSays
  <2>2. Last(texts) = texts[Len(texts)]
    BY DEF Last
  <2> QED
    BY <1>1, <1>3, <2>1, <2>2
<1> QED
  BY <1>2, <1>4, <1>5, <1>6

LEMMA WellFormed == SinkInv => LinesWellFormed
<1> SUFFICES ASSUME SinkInv, out # NoOutput, NEW k \in DOMAIN out,
                    NEW texts, texts = [i \in DOMAIN out[k] |-> out[k][i].text]
             PROVE  LET At(whats) == {i \in DOMAIN texts : texts[i].what \in whats}
                    IN  /\ At({Told}) = {1}
                        /\ texts[1].comma = (k # Len(out))
                        /\ opts.comments => /\ texts[2].what = "begin"
                                            /\ texts[3].what = "item"
                                            /\ Last(texts).what = "end"
                                            /\ At({"begin", "end"}) = {2, Len(texts)}
                                            /\ At({"item"}) = {3}
  BY DEF LinesWellFormed
<1>1. opts \in SinkOptions /\ (opts.type = "spec" => ~opts.comments)
      /\ \E s : Shows(opts, s, out)
  BY DEF SinkInv
<1>2. PICK s : Shows(opts, s, out)
  BY <1>1
<1>3. k \in 1 .. Len(s) /\ Len(out) = Len(s) /\ \E C : LineShows(opts, s, k, out[k], C)
  BY <1>2, SeqFacts DEF Shows
<1>4. PICK C : LineShows(opts, s, k, out[k], C)
  BY <1>3
<1>5. Told = ToldBy(opts) /\ (opts.comments => InComment(opts))
  BY <1>1 DEF Told, ToldBy, InComment
<1> QED
  BY <1>1, <1>3, <1>4, <1>5, LineWell

THEOREM SinkLinesWellFormed == Spec => []LinesWellFormed
<1> QED
  BY SinkHolds, WellFormed, PTL

LEMMA CommentTells == SinkInv => CommentTellsItem
<1> SUFFICES ASSUME SinkInv, out # NoOutput, opts.comments
             PROVE  Meaning(ItemsOf(Shown("item"))) = Meaning(ItemsOf(Shown("bytes")))
  BY DEF CommentTellsItem
<1>1. PICK s : Faithful(s) /\ Shows(opts, s, out)
  BY DEF SinkInv
<1>2. opts \in SinkOptions /\ opts.type # "spec"
  BY DEF SinkInv
<1>3. /\ Shown("bytes") = [k \in 1 .. Len(s) |-> ToldText(opts, s, k)]
      /\ Shown("item") = [k \in 1 .. Len(s) |-> ItemText(opts, s, k)]
  <2>1. ToldBy(opts) = "bytes"
    BY <1>2 DEF ToldBy
  <2>2. opts \in SinkOptions /\ (opts.type = "spec" => ~opts.comments)
    BY <1>2
  <2> QED
    BY <1>1, <2>1, <2>2, ListingIs, OutputShown
<1>4. \A k : ToldText(opts, s, k).item = s[k].item /\ ItemText(opts, s, k).item = s[k].text
  BY <1>2 DEF ToldText, BytesText, ItemText, Text
<1>5. ItemsOf(Shown("bytes")) = ItemsPut(s) /\ ItemsOf(Shown("item")) = TextsOf(s)
  BY <1>3, <1>4 DEF ItemsOf, ItemsPut, TextsOf
<1> QED
  BY <1>1, <1>5 DEF Faithful

THEOREM SinkCommentsTell == Spec => []CommentTellsItem
<1> QED
  BY SinkHolds, CommentTells, PTL

------------------------------------------------------------------------------
(* How many of the items from i to k are of a kind.                         *)
LEMMA NoneCounted ==
  ASSUME NEW its, NEW i \in Int
  PROVE  Opens(its, i, i - 1) = 0 /\ Closes(its, i, i - 1) = 0
<1> DEFINE k == i - 1
           A(kind) == {n \in i .. k : its[n].kind = kind}
<1>1. \A m \in i .. k : FALSE
  OBVIOUS
<1>2. \A kind : A(kind) = {}
  BY <1>1
<1>3. Opens(its, i, k) = Cardinality(A("collection"))
      /\ Closes(its, i, k) = Cardinality(A("end_collection"))
  BY DEF Opens, Closes
<1> HIDE DEF A, k
<1>4. Opens(its, i, k) = 0 /\ Closes(its, i, k) = 0
  BY <1>2, <1>3, FS_EmptySet
<1> QED
  BY <1>4 DEF k

LEMMA CountNext ==
  ASSUME NEW its, NEW i \in Int, NEW k \in Int, i <= k + 1
  PROVE  /\ Opens(its, i, k) \in Nat /\ Closes(its, i, k) \in Nat
         /\ Opens(its, i, k + 1) = Opens(its, i, k) + Deeper(its[k + 1])
         /\ Closes(its, i, k + 1) = Closes(its, i, k) + Ending(its[k + 1])
<1> DEFINE A(m, kind) == {n \in i .. m : its[n].kind = kind}
<1>1. i .. k + 1 = (i .. k) \cup {k + 1} /\ k + 1 \notin i .. k
  OBVIOUS
<1>2. ASSUME NEW kind
      PROVE  /\ IsFiniteSet(A(k, kind)) /\ Cardinality(A(k, kind)) \in Nat
             /\ Cardinality(A(k + 1, kind)) =
                  Cardinality(A(k, kind)) + IF its[k + 1].kind = kind THEN 1 ELSE 0
  <2>1. A(k, kind) \subseteq i .. k /\ IsFiniteSet(i .. k)
    BY FS_Interval
  <2>2. IsFiniteSet(A(k, kind))
    BY <2>1, FS_Subset
  <2>3. k + 1 \notin A(k, kind)
    BY <1>1
  <2>4. A(k + 1, kind) = IF its[k + 1].kind = kind THEN A(k, kind) \cup {k + 1} ELSE A(k, kind)
    <3>1. ASSUME NEW n
          PROVE  n \in A(k + 1, kind) <=>
                   n \in A(k, kind) \/ (n = k + 1 /\ its[k + 1].kind = kind)
      BY <1>1
    <3> HIDE DEF A
    <3>2. CASE its[k + 1].kind = kind
      BY <3>1, <3>2
    <3>3. CASE its[k + 1].kind # kind
      BY <3>1, <3>3
    <3> QED
      BY <3>2, <3>3
  <2> HIDE DEF A
  <2>5. Cardinality(A(k, kind)) \in Nat
    BY <2>2, FS_CardinalityType
  <2>6. Cardinality(A(k, kind) \cup {k + 1}) = Cardinality(A(k, kind)) + 1
    BY <2>2, <2>3, FS_AddElement
  <2> QED
    BY <2>2, <2>4, <2>5, <2>6
<1>3. \A m : Opens(its, i, m) = Cardinality(A(m, "collection"))
             /\ Closes(its, i, m) = Cardinality(A(m, "end_collection"))
  BY DEF Opens, Closes
<1> HIDE DEF A
<1> QED
  BY <1>2, <1>3 DEF Deeper, Ending

(* The depth of an entry behind the one at which a collection begins.       *)
SameKinds(its, s) == \A m \in 1 .. Len(s) : its[m].kind = s[m].item.kind

LEMMA DepthCounts ==
  ASSUME NEW s, IsListing(s), NEW its, SameKinds(its, s), NEW i \in 1 .. Len(s),
         its[i].kind = "collection"
  PROVE  \A k \in i .. Len(s) :
           Depth(s, k) = Depth(s, i) + Opens(its, i, k - 1) - Closes(its, i, k)
<1> DEFINE n == Len(s)
           D(l) == Depth(s, l)
           P(k) == D(k) = D(i) + Opens(its, i, k - 1) - Closes(its, i, k)
           S == {c \in Nat : i + c <= n => P(i + c)}
<1>1. /\ n \in Nat /\ (\A l \in 1 .. n : D(l) \in Int)
      /\ \A l \in 1 .. n - 1 : D(l + 1) = D(l) + Deeper(s[l].item) - Ending(s[l + 1].item)
  BY DEF IsListing, IsSeq, IsEntry, Nests, Depth
<1>2. \A l \in 1 .. n : Deeper(its[l]) = Deeper(s[l].item) /\ Ending(its[l]) = Ending(s[l].item)
                        /\ Deeper(its[l]) \in Nat /\ Ending(its[l]) \in Nat
  BY DEF SameKinds, Deeper, Ending
<1> HIDE DEF D, n
<1>3. 0 \in S
  <2>1. i \in Int /\ i - 1 \in Int /\ (i - 1) + 1 = i /\ i <= (i - 1) + 1 /\ i - 1 < i
    BY DEF n
  <2>2. Opens(its, i, i - 1) = 0 /\ Closes(its, i, i - 1) = 0
    BY <2>1, NoneCounted
  <2>3. Closes(its, i, (i - 1) + 1) = Closes(its, i, i - 1) + Ending(its[(i - 1) + 1])
    BY <2>1, CountNext
  <2>4. Closes(its, i, i) = 0
    BY <2>1, <2>2, <2>3 DEF Ending
  <2>5. D(i) \in Int /\ i + 0 = i
    BY <1>1, <2>1 DEF n
  <2>6. P(i)
    BY <2>2, <2>4, <2>5
  <2> QED
    BY <2>5, <2>6
<1>4. ASSUME NEW c \in Nat, c \in S PROVE c + 1 \in S
  <2> SUFFICES ASSUME i + (c + 1) <= n PROVE P(i + (c + 1))
    OBVIOUS
  <2> DEFINE b == i + c
  <2>1. /\ b \in 1 .. n - 1 /\ b \in 1 .. n /\ b + 1 \in 1 .. n /\ i + (c + 1) = b + 1 /\ b <= n
        /\ b \in Int /\ b - 1 \in Int /\ (b - 1) + 1 = b /\ i <= (b - 1) + 1 /\ i <= b + 1
        /\ (b + 1) - 1 = b /\ i \in Int /\ i \in 1 .. n
    BY <1>1 DEF n
  <2>2. D(b) = D(i) + Opens(its, i, b - 1) - Closes(its, i, b)
    BY <1>4, <2>1
  <2> HIDE DEF b
  <2>3. D(b + 1) = D(b) + Deeper(its[b]) - Ending(its[b + 1])
    BY <1>1, <1>2, <2>1
  <2>4. /\ Opens(its, i, (b - 1) + 1) = Opens(its, i, b - 1) + Deeper(its[(b - 1) + 1])
        /\ Opens(its, i, b - 1) \in Nat
    BY <2>1, CountNext
  <2>5. /\ Closes(its, i, b + 1) = Closes(its, i, b) + Ending(its[b + 1])
        /\ Closes(its, i, b) \in Nat
    BY <2>1, CountNext
  <2>6. D(i) \in Int /\ D(b) \in Int /\ Deeper(its[b]) \in Nat /\ Ending(its[b + 1]) \in Nat
    BY <1>1, <1>2, <2>1
  <2>7. Opens(its, i, b) = Opens(its, i, b - 1) + Deeper(its[b])
    BY <2>1, <2>4
  <2>8. D(b + 1) = D(i) + Opens(its, i, b) - Closes(its, i, b + 1)
    BY <2>2, <2>3, <2>4, <2>5, <2>6, <2>7
  <2> QED
    BY <2>1, <2>8
<1> HIDE DEF S
<1>5. \A c \in Nat : c \in S
  BY <1>3, <1>4, NumberInduction
<1> SUFFICES ASSUME NEW k \in i .. n PROVE P(k)
  BY DEF D, n
<1>6. k - i \in Nat /\ i + (k - i) = k /\ i + (k - i) <= n
  BY <1>1 DEF n
<1> QED
  BY <1>5, <1>6 DEF S

(* A collection and its end are equally deep, and what is between deeper.   *)
LEMMA MatchDepths ==
  ASSUME NEW s, IsListing(s), NEW its, SameKinds(its, s),
         NEW i \in 1 .. Len(s), NEW j \in 1 .. Len(s), i < j, Matches(its, i, j)
  PROVE  /\ Depth(s, i) = Depth(s, j)
         /\ \A k \in i + 1 .. j - 1 : Depth(s, k) >= Depth(s, i) + 1
<1> DEFINE O(k) == Opens(its, i, k)
           C(k) == Closes(its, i, k)
<1>1. Len(s) \in Nat /\ i \in Int /\ j \in Int
  BY DEF IsListing, IsSeq
<1>2. ASSUME NEW k \in Int, i <= k
      PROVE  /\ O(k - 1) \in Nat /\ C(k - 1) \in Nat /\ O(k) \in Nat /\ C(k) \in Nat
             /\ O(k) = O(k - 1) + Deeper(its[k]) /\ C(k) = C(k - 1) + Ending(its[k])
  <2>1. k - 1 \in Int /\ (k - 1) + 1 = k /\ i <= (k - 1) + 1 /\ i <= k + 1
    BY <1>1, <1>2
  <2>2. /\ O(k - 1) \in Nat /\ C(k - 1) \in Nat
        /\ O((k - 1) + 1) = O(k - 1) + Deeper(its[(k - 1) + 1])
        /\ C((k - 1) + 1) = C(k - 1) + Ending(its[(k - 1) + 1])
    BY <1>1, <2>1, CountNext
  <2>3. O(k) \in Nat /\ C(k) \in Nat
    BY <1>1, <1>2, <2>1, CountNext
  <2> HIDE DEF O, C
  <2> QED
    BY <2>1, <2>2, <2>3
<1>3. O(i - 1) = 0 /\ C(i - 1) = 0
  <2>1. i - 1 \in Int /\ i - 1 < i
    BY <1>1
  <2> QED
    BY <1>1, <2>1, NoneCounted
<1>4. O(j) = C(j) /\ \A k \in i .. j - 1 : O(k) > C(k)
  BY DEF Matches
<1>5. its[i].kind = "collection"
  <2>1. i \in i .. j - 1
    BY <1>1
  <2>2. O(i) > C(i) /\ C(i) \in Nat /\ O(i) = O(i - 1) + Deeper(its[i])
    <3> HIDE DEF O, C
    <3> QED
      BY <1>1, <1>2, <1>4, <2>1
  <2> HIDE DEF O, C
  <2>3. Deeper(its[i]) # 0
    BY <1>3, <2>2
  <2> QED
    BY <2>3 DEF Deeper
<1>6. \A k \in i .. j : Depth(s, k) = Depth(s, i) + O(k - 1) - C(k)
  <2>1. \A k \in i .. j : k \in i .. Len(s)
    BY <1>1
  <2> QED
    BY <1>5, <2>1, DepthCounts
<1>7. \A k \in i .. j : Depth(s, k) \in Int
  <2>1. \A k \in i .. j : k \in 1 .. Len(s)
    BY <1>1
  <2> QED
    BY <2>1 DEF IsListing, IsEntry, Depth
<1>8. \A it : \/ Deeper(it) = 0 /\ Ending(it) = 0
              \/ Deeper(it) = 1 /\ Ending(it) = 0
              \/ Deeper(it) = 0 /\ Ending(it) = 1
  BY DEF Deeper, Ending
<1> HIDE DEF O, C
<1>9. Depth(s, i) = Depth(s, j)
  <2>1. j \in i .. j /\ i \in i .. j /\ j - 1 \in i .. j - 1 /\ i <= j
    BY <1>1
  <2>2. /\ O(j - 1) \in Nat /\ C(j - 1) \in Nat /\ O(j) \in Nat /\ C(j) \in Nat
        /\ O(j) = O(j - 1) + Deeper(its[j]) /\ C(j) = C(j - 1) + Ending(its[j])
    BY <1>1, <1>2, <2>1
  <2>3. O(j - 1) > C(j - 1) /\ O(j) = C(j)
    BY <1>4, <2>1
  <2>4. O(j - 1) = C(j)
    <3> DEFINE x == Deeper(its[j])
               y == Ending(its[j])
    <3>1. (x = 0 /\ y = 0) \/ (x = 1 /\ y = 0) \/ (x = 0 /\ y = 1)
      BY <1>8
    <3>2. O(j) = O(j - 1) + x /\ C(j) = C(j - 1) + y
      BY <2>2
    <3> HIDE DEF x, y
    <3> QED
      BY <2>2, <2>3, <3>1, <3>2
  <2>5. Depth(s, j) = Depth(s, i) + O(j - 1) - C(j) /\ Depth(s, i) \in Int /\ Depth(s, j) \in Int
    BY <1>6, <1>7, <2>1
  <2> QED
    BY <2>2, <2>4, <2>5
<1>10. ASSUME NEW k \in i + 1 .. j - 1 PROVE Depth(s, k) >= Depth(s, i) + 1
  <2>1. /\ k \in Int /\ i <= k /\ k \in i .. j /\ i \in i .. j
        /\ k \in i .. j - 1 /\ k - 1 \in i .. j - 1
    BY <1>1
  <2>2. /\ O(k - 1) \in Nat /\ C(k - 1) \in Nat /\ O(k) \in Nat /\ C(k) \in Nat
        /\ O(k) = O(k - 1) + Deeper(its[k]) /\ C(k) = C(k - 1) + Ending(its[k])
    BY <1>2, <2>1
  <2>3. O(k - 1) > C(k - 1) /\ O(k) > C(k)
    BY <1>4, <2>1
  <2>4. O(k - 1) >= C(k) + 1
    <3> DEFINE x == Deeper(its[k])
               y == Ending(its[k])
    <3>1. (x = 0 /\ y = 0) \/ (x = 1 /\ y = 0) \/ (x = 0 /\ y = 1)
      BY <1>8
    <3>2. O(k) = O(k - 1) + x /\ C(k) = C(k - 1) + y
      BY <2>2
    <3> HIDE DEF x, y
    <3> QED
      BY <2>2, <2>3, <3>1, <3>2
  <2>5. Depth(s, k) = Depth(s, i) + O(k - 1) - C(k) /\ Depth(s, i) \in Int /\ Depth(s, k) \in Int
    BY <1>6, <1>7, <2>1
  <2> QED
    BY <2>2, <2>4, <2>5
<1> QED
  BY <1>9, <1>10

------------------------------------------------------------------------------
LEMMA StepsFurther ==
  ASSUME NEW a \in Int, NEW b \in Int, NEW c \in Int, NEW t \in Nat, c >= a + 1
  PROVE  (c - b) * t >= (a - b) * t + t
<1> DEFINE r == c - (a + 1)
           d == a - b
<1>1. r \in Nat /\ d \in Int /\ c - b = d + 1 + r
  OBVIOUS
<1> HIDE DEF r, d
<1>2. (d + 1 + r) * t = d * t + t + r * t /\ r * t >= 0 /\ r * t \in Int /\ d * t \in Int
  BY <1>1
<1>3. (d + 1 + r) * t >= d * t + t
  BY <1>2
<1> QED
  BY <1>1, <1>3 DEF d

(* Where something stands at the margin.                                    *)
LEMMA LeastInset ==
  ASSUME NEW s, IsListing(s), s # <<>>, NEW o \in SinkOptions,
         NEW at, at = [k \in 1 .. Len(s) |-> Inset(o, s, k)]
  PROVE  Min({at[k] : k \in DOMAIN at}) = 0
<1> DEFINE S == {at[k] : k \in DOMAIN at}
<1>1. \A x \in S : x \in Nat
  BY InsetTold
<1>2. 0 \in S
  <2>1. PICK k \in 1 .. Len(s) : Depth(s, k) = Least(s)
    BY LeastDeep
  <2>2. Least(s) \in Int /\ o.tabstop \in Nat
    BY LeastDeep, TabstopAssumption DEF SinkOptions
  <2>3. Inset(o, s, k) = 0 * o.tabstop /\ 0 * o.tabstop = 0
    BY <2>1, <2>2 DEF Inset
  <2> QED
    BY <2>3
<1>3. Min(S) = CHOOSE x \in S : \A y \in S : x <= y
  BY DEF Min
<1> HIDE DEF S
<1>4. \A y \in S : 0 <= y
  BY <1>1
<1>5. Min(S) \in S /\ \A y \in S : Min(S) <= y
  BY <1>2, <1>3, <1>4
<1>6. Min(S) = 0
  BY <1>1, <1>2, <1>5
<1> QED
  BY <1>6 DEF S

LEMMA NestingTold == SinkInv => NestingShown
<1> SUFFICES ASSUME SinkInv, out # NoOutput, out # <<>>, opts.type = "code" => opts.indent,
                    NEW listing, listing = Listing,
                    NEW its, its = ItemsOf(listing),
                    NEW at, at = [k \in DOMAIN listing |-> listing[k].indent]
             PROVE  /\ Min({at[k] : k \in DOMAIN at}) = 0
                    /\ \A i \in DOMAIN its, j \in DOMAIN its :
                         i < j /\ Matches(its, i, j) =>
                             /\ at[i] = at[j]
                             /\ \A k \in i + 1 .. j - 1 : at[k] >= at[i] + opts.tabstop
  BY DEF NestingShown
<1>1. PICK s : Faithful(s) /\ Shows(opts, s, out)
  BY DEF SinkInv
<1>2. /\ opts \in SinkOptions /\ opts.type \in {"spec", "code"} /\ opts.tabstop \in Nat
      /\ (opts.type = "spec" => ~opts.comments)
  BY TypeAssumption, TabstopAssumption DEF SinkInv, SinkOptions
<1>3. IsListing(s) /\ Len(s) \in Nat /\ s # <<>>
  <2>1. IsSeq(out) /\ Len(out) = Len(s)
    BY <1>1 DEF Shows
  <2>2. ASSUME s = <<>> PROVE FALSE
    <3>1. Len(out) = 0
      BY <2>1, <2>2, ShortSeqs
    <3> QED
      BY <2>1, <3>1 DEF IsSeq
  <2> QED
    BY <1>1, <2>2, SeqFacts DEF Faithful, IsListing
<1> DEFINE n == Len(s)
<1>4. listing = [k \in 1 .. n |-> ToldText(opts, s, k)]
  BY <1>1, <1>2, ListingIs, OutputShown
<1>5. \A k \in 1 .. n : /\ ToldText(opts, s, k).indent = Inset(opts, s, k)
                        /\ ToldText(opts, s, k).item.kind = s[k].item.kind
  <2> SUFFICES ASSUME NEW k \in 1 .. n
               PROVE  /\ ToldText(opts, s, k).indent = Inset(opts, s, k)
                      /\ ToldText(opts, s, k).item.kind = s[k].item.kind
    OBVIOUS
  <2>1. s[k].text.kind = s[k].item.kind
    BY <1>3 DEF IsListing, IsEntry
  <2>2. opts.type # "spec" => opts.indent
    BY <1>2
  <2> QED
    BY <2>1, <2>2 DEF ToldText, ItemText, BytesText, Text
<1>6. at = [k \in 1 .. n |-> Inset(opts, s, k)] /\ DOMAIN its = 1 .. n /\ SameKinds(its, s)
  <2>1. DOMAIN listing = 1 .. n /\ \A k \in 1 .. n : listing[k] = ToldText(opts, s, k)
    BY <1>4
  <2> QED
    BY <1>5, <2>1 DEF ItemsOf, SameKinds
<1>7. Min({at[k] : k \in DOMAIN at}) = 0
  BY <1>2, <1>3, <1>6, LeastInset
<1>8. ASSUME NEW i \in 1 .. n, NEW j \in 1 .. n, i < j, Matches(its, i, j)
      PROVE  /\ at[i] = at[j]
             /\ \A k \in i + 1 .. j - 1 : at[k] >= at[i] + opts.tabstop
  <2>1. /\ Depth(s, i) = Depth(s, j)
        /\ \A k \in i + 1 .. j - 1 : Depth(s, k) >= Depth(s, i) + 1
    BY <1>3, <1>6, <1>8, MatchDepths
  <2>2. at[i] = at[j]
    BY <1>6, <2>1 DEF Inset
  <2>3. ASSUME NEW k \in i + 1 .. j - 1 PROVE at[k] >= at[i] + opts.tabstop
    <3>1. k \in 1 .. n
      BY <1>3
    <3>2. Depth(s, k) \in Int /\ Depth(s, i) \in Int /\ Least(s) \in Int
      BY <1>3, <3>1, LeastDeep DEF IsListing, IsEntry, Depth
    <3>3. Inset(opts, s, k) >= Inset(opts, s, i) + opts.tabstop
      BY <1>2, <2>1, <3>2, StepsFurther DEF Inset
    <3> QED
      BY <1>6, <3>1, <3>3
  <2> QED
    BY <2>2, <2>3
<1>9. DOMAIN its = 1 .. n
  BY <1>6
<1>10. ASSUME NEW i \in DOMAIN its, NEW j \in DOMAIN its, i < j /\ Matches(its, i, j)
       PROVE  /\ at[i] = at[j]
              /\ \A k \in i + 1 .. j - 1 : at[k] >= at[i] + opts.tabstop
  <2>1. i \in 1 .. n /\ j \in 1 .. n
    BY <1>9
  <2> QED
    BY <1>8, <1>10, <2>1
<1> QED
  BY <1>7, <1>10

THEOREM SinkNestingShown == Spec => []NestingShown
<1> QED
  BY SinkHolds, NestingTold, PTL

------------------------------------------------------------------------------
(* The sinks do what a sink of text promises.                               *)
LEMMA ListingMeans ==
  ASSUME NEW o \in SinkOptions, o.type = "spec" => ~o.comments, NEW s, Faithful(s),
         NEW res, Shows(o, s, res)
  PROVE  Meaning(ItemsOf(ShownOf(res, ToldBy(o)))) = Meaning(TextsOf(s))
<1> DEFINE listing == ShownOf(res, ToldBy(o))
<1>1. listing = [k \in 1 .. Len(s) |-> ToldText(o, s, k)]
  BY ListingIs
<1> HIDE DEF listing
<1>2. \A k : ToldText(o, s, k).item = IF o.type = "spec" THEN s[k].text ELSE s[k].item
  BY DEF ToldText, BytesText, ItemText, Text
<1>3. ItemsOf(listing) = IF o.type = "spec" THEN TextsOf(s) ELSE ItemsPut(s)
  BY <1>1, <1>2 DEF ItemsOf, ItemsPut, TextsOf
<1>4. Meaning(ItemsOf(listing)) = Meaning(TextsOf(s))
  BY <1>3 DEF Faithful
<1> QED
  BY <1>4 DEF listing

(* What the sinks stand for, as a sink of items has it.                     *)
LogIs == IF Alive THEN Meaning([l \in DOMAIN list |-> list[l].text]) ELSE <<>>
PagesAre == IF Alive THEN state ELSE <<0>>
OutIs == IF out = NoOutput THEN NoOutput ELSE Meaning(ItemsOf(Listing))

LEMMA OutStays == opts' = opts /\ out' = out => OutIs' = OutIs
<1> SUFFICES ASSUME opts' = opts, out' = out PROVE OutIs' = OutIs
  OBVIOUS
<1>1. Listing' = Listing
  BY OutputShown
<1>2. ItemsOf(Listing)' = ItemsOf(Listing)
  BY <1>1 DEF ItemsOf
<1> QED
  BY <1>2 DEF OutIs

LEMMA SnkInitImplements == Init => Abstract!Init
<1> SUFFICES ASSUME Init PROVE Abstract!Init
  OBVIOUS
<1>1. list = <<>> /\ state = <<0>> /\ out = NoOutput /\ isOpen = TRUE /\ failed = FALSE
  BY DEF Init
<1>2. [l \in DOMAIN list |-> list[l].text] = <<>>
  BY <1>1
<1>3. Meaning(<<>>) = <<>>
  BY DEF Meaning
<1> QED
  BY <1>1, <1>2, <1>3 DEF Abstract!Init, Alive

LEMMA SnkStepImplements == SinkInv /\ [Next]_vars => [Abstract!Next]_(Abstract!vars)
<1> SUFFICES ASSUME SinkInv, [Next]_vars PROVE Abstract!Next \/ UNCHANGED Abstract!vars
  OBVIOUS
<1>0. /\ opts \in SinkOptions /\ (opts.type = "spec" => ~opts.comments)
      /\ isOpen \in BOOLEAN /\ failed \in BOOLEAN
      /\ Alive => ListInv(list, state, depth)
  BY DEF SinkInv
<1>1. ASSUME NEW it \in Alphabet, Put(it) PROVE Abstract!Next
  <2>1. /\ isOpen /\ ~failed /\ Len(list) < MaxPuts
        /\ list' = Append(list, Entry(it, EntryDepth(it))) /\ state' = StateAfter(it)
        /\ opts' = opts /\ out' = out /\ isOpen' = isOpen /\ failed' = failed
    BY <1>1 DEF Put, CanPut
  <2>2. ListInv(list, state, depth)
    BY <1>0, <2>1 DEF Alive
  <2>3. /\ ListInv(list', StateAfter(it), DepthAfter(it))
        /\ Meaning(TextsOf(list')) = Append(Meaning(TextsOf(list)), Resolve(it, Head(state)))
    BY <2>1, <2>2, PutAdds
  <2>4. DOMAIN list = 1 .. Len(list) /\ DOMAIN list' = 1 .. Len(list')
    BY <2>2, <2>3, SeqFacts DEF ListInv, IsListing
  <2>5. LogIs = Meaning(TextsOf(list)) /\ LogIs' = Meaning(TextsOf(list'))
    BY <2>1, <2>4 DEF LogIs, Alive, TextsOf
  <2>6. PagesAre = state /\ PagesAre' = PagesAfter(it, state)
    BY <2>1 DEF PagesAre, Alive, StateAfter, PagesAfter, page
  <2>7. LogIs' = Append(LogIs, Resolve(it, Head(PagesAre))) /\ PagesAre' = PagesAfter(it, PagesAre)
    BY <2>3, <2>5, <2>6
  <2>8. OutIs' = OutIs /\ Alive /\ Alive' = Alive
    BY <2>1, OutStays DEF Alive
  <2> QED
    BY <2>7, <2>8 DEF Abstract!Next, Abstract!Put, Abstract!PagesAfter, Abstract!Resolve,
                      Abstract!Item, PagesAfter, Resolve, Item, LogIs, PagesAre, OutIs
<1>2. ASSUME Alive, ~Alive', opts' = opts, out' = out PROVE Abstract!Next
  <2>1. LogIs' = <<>> /\ PagesAre' = <<0>> /\ OutIs' = OutIs
    BY <1>2, OutStays DEF LogIs, PagesAre
  <2> QED
    BY <1>2, <2>1 DEF Abstract!Next, Abstract!GiveUp, LogIs, PagesAre, OutIs
<1>3. ASSUME NEW it \in Alphabet, PutFails(it) PROVE Abstract!Next
  BY <1>2, <1>3 DEF PutFails, CanPut, Alive
<1>4. ASSUME Flush PROVE Abstract!Next
  <2>1. /\ isOpen /\ ~failed /\ opts' = opts /\ list' = list /\ state' = state
        /\ isOpen' = isOpen /\ failed' = failed
        /\ \/ out' = Render(IF opts.type = "spec" THEN ToTable ELSE CodeTable, opts.tabstop)
           \/ out' = NoOutput
    BY <1>4 DEF Flush
  <2>2. ListInv(list, state, depth)
    BY <1>0, <2>1 DEF Alive
  <2>3. Faithful(list) /\ IsListing(list) /\ DOMAIN list = 1 .. Len(list)
    BY <2>2, SeqFacts DEF ListInv, MeanSame, Faithful, IsListing
  <2>4. LogIs' = LogIs /\ PagesAre' = PagesAre /\ Alive /\ Alive' = Alive
    BY <2>1 DEF LogIs, PagesAre, Alive
  <2>5. LogIs = Meaning(TextsOf(list))
    BY <2>3, <2>4 DEF LogIs, TextsOf
  <2>6. CASE out' = NoOutput
    <3>1. OutIs' = NoOutput
      BY <2>6 DEF OutIs
    <3> QED
      BY <2>4, <3>1 DEF Abstract!Next, Abstract!FlushFails, LogIs, PagesAre, OutIs
  <2>7. CASE out' # NoOutput
    <3>1. Shows(opts, list, out')
      BY <1>0, <2>1, <2>3, <2>7, FlushShows
    <3>2. Meaning(ItemsOf(ShownOf(out', ToldBy(opts)))) = LogIs
      BY <1>0, <2>3, <2>5, <3>1, ListingMeans
    <3>3. Listing' = ShownOf(out', ToldBy(opts))
      BY <2>1, OutputShown
    <3>4. OutIs' = Meaning(ItemsOf(Listing'))
      BY <2>7 DEF OutIs
    <3>5. OutIs' = LogIs
      BY <3>2, <3>3, <3>4
    <3> QED
      BY <2>4, <3>5 DEF Abstract!Next, Abstract!Flush, LogIs, PagesAre, OutIs
  <2> QED
    BY <2>6, <2>7
<1>5. ASSUME UNCHANGED <<opts, out, LogIs, PagesAre>>, Alive' = Alive PROVE UNCHANGED Abstract!vars
  BY <1>5, OutStays DEF Abstract!vars, LogIs, PagesAre, OutIs
<1>6. CASE Delete
  <2>1. isOpen /\ ~isOpen' /\ failed' = failed /\ opts' = opts /\ out' = out
    BY <1>6 DEF Delete
  <2>2. CASE Alive
    BY <1>2, <2>1, <2>2 DEF Alive
  <2>3. CASE ~Alive
    BY <1>5, <2>1, <2>3 DEF Alive, LogIs, PagesAre
  <2> QED
    BY <2>2, <2>3
<1>7. CASE UNCHANGED vars
  BY <1>5, <1>7 DEF vars, Alive, LogIs, PagesAre
<1> QED
  BY <1>1, <1>3, <1>4, <1>6, <1>7 DEF Next

THEOREM SinkImplementsItemSnk == Spec => ImplementsItemSnk
<1> QED
  BY SnkInitImplements, SnkStepImplements, SinkHolds, PTL
     DEF Spec, ImplementsItemSnk, Abstract!Spec
===============================================================================
