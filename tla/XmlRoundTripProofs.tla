-------------------------- MODULE XmlRoundTripProofs --------------------------
(***************************************************************************)
(* The document that the XML sink builds stays a tree, the next call finds *)
(* the open groups it needs: nothing is lost, doubled or left dangling.    *)
(* It stands for the items put, in their order: what is open is the path   *)
(* to the innermost group, each the last child of the one above, so what   *)
(* goes in there comes after everything else, and breaking a group moves   *)
(* no item.  The source, walking what was delivered, returns what means    *)
(* the same.                                                               *)
(***************************************************************************)
EXTENDS XmlRoundTrip, Recursion, FiniteSetTheorems

(* A tree: a node comes after its parent, the children of a node are those  *)
(* nodes whose parent it is, each once, and a freed node has neither.       *)
IsNode(n) ==
    n = [name |-> n.name, val |-> n.val, ns |-> n.ns, up |-> n.up, kids |-> n.kids]

LinksDown(t, e) ==
    /\ Kids(t, e) \in Seq(DOMAIN t \ {1})
    /\ \A i \in DOMAIN Kids(t, e) : t[Kids(t, e)[i]].up = e
    /\ \A i, j \in DOMAIN Kids(t, e) : i # j => Kids(t, e)[i] # Kids(t, e)[j]
LinksUp(t, e) ==
    /\ t[e].up \in 0 .. e - 1
    /\ t[e].name = "freed" => t[e].up = 0 /\ Kids(t, e) = <<>>
    /\ e # 1 /\ t[e].name # "freed" =>
          t[e].up # 0 /\ \E i \in DOMAIN Kids(t, t[e].up) : Kids(t, t[e].up)[i] = e
IsTree(t) ==
    /\ Len(t) \in Nat /\ DOMAIN t = 1 .. Len(t) /\ 1 \in DOMAIN t
    /\ t[1].name = "descriptor" /\ t[1].up = 0
    /\ \A e \in DOMAIN t : IsNode(t[e]) /\ LinksDown(t, e) /\ LinksUp(t, e)

(* The node and those above it.                                             *)
Up(t, e) == {PathUp(t, e)[i] : i \in DOMAIN PathUp(t, e)}

(* Every group that is open is the last child of its parent.                *)
IsLast(t, e) ==
    LET kids == Kids(t, t[e].up)
    IN  Len(kids) > 0 /\ kids[Len(kids)] = e
OpenAt(t, e) ==
    /\ e \in DOMAIN t
    /\ t[e].name # "freed"
    /\ \A x \in Up(t, e) \ {1} : t[x].name \in GroupNames /\ IsLast(t, x)

TreeInv ==
    /\ IsTree(tree)
    /\ Alive => cur = 0 /\ OpenAt(tree, prnt)

------------------------------------------------------------------------------
(* The path up: a recursive function, since parents come first.             *)
PathFun(f, t, n) == f = [x \in 0 .. n |-> IF x = 0 THEN <<>> ELSE <<x>> \o f[t[x].up]]

LEMMA PathFunExists ==
  ASSUME NEW t, IsTree(t)
  PROVE  \A n \in Nat : n <= Len(t) => \E f : PathFun(f, t, n)
<1> DEFINE S == {n \in Nat : n <= Len(t) => \E f : PathFun(f, t, n)}
<1>1. 0 \in S
  <2> DEFINE f == [x \in 0 .. 0 |-> <<>>]
  <2>1. PathFun(f, t, 0)
    BY DEF PathFun
  <2> QED
    BY <2>1
<1>2. ASSUME NEW n \in Nat, n \in S PROVE n + 1 \in S
  <2> SUFFICES ASSUME n + 1 <= Len(t) PROVE \E f : PathFun(f, t, n + 1)
    OBVIOUS
  <2>1. n <= Len(t) /\ n + 1 \in DOMAIN t
    BY DEF IsTree
  <2>2. PICK f : PathFun(f, t, n)
    BY <1>2, <2>1
  <2>3. t[n + 1].up \in 0 .. n
    BY <2>1 DEF IsTree, LinksUp
  <2> DEFINE g == [x \in 0 .. n + 1 |-> IF x = n + 1 THEN <<n + 1>> \o f[t[n + 1].up] ELSE f[x]]
             h == [x \in 0 .. n + 1 |-> IF x = 0 THEN <<>> ELSE <<x>> \o g[t[x].up]]
  <2>4. ASSUME NEW x \in 0 .. n + 1 PROVE g[x] = h[x]
    <3>1. CASE x = n + 1
      <4>1. x # 0 /\ g[x] = <<x>> \o f[t[x].up] /\ g[t[x].up] = f[t[x].up]
        BY <2>3, <3>1
      <4> QED
        BY <4>1
    <3>2. CASE x # n + 1 /\ x # 0
      <4>1. x \in 1 .. n /\ x \in DOMAIN t
        BY <2>1, <3>2 DEF IsTree
      <4>2. t[x].up \in 0 .. n
        BY <4>1 DEF IsTree, LinksUp
      <4>3. g[x] = f[x] /\ g[t[x].up] = f[t[x].up]
        BY <3>2, <4>2
      <4>4. f[x] = <<x>> \o f[t[x].up]
        <5>1. x \in 0 .. n /\ x # 0
          BY <3>2, <4>1
        <5> QED
          BY <2>2, <5>1 DEF PathFun
      <4> QED
        BY <3>2, <4>3, <4>4
    <3>3. CASE x = 0
      BY <2>2, <3>3 DEF PathFun
    <3> QED
      BY <3>1, <3>2, <3>3
  <2>5. g = h
    <3>1. DOMAIN g = 0 .. n + 1 /\ DOMAIN h = 0 .. n + 1
      OBVIOUS
    <3> HIDE DEF g, h
    <3>2. g = [x \in 0 .. n + 1 |-> g[x]] /\ h = [x \in 0 .. n + 1 |-> h[x]]
      BY <3>1 DEF g, h
    <3> QED
      BY <2>4, <3>2
  <2>6. PathFun(g, t, n + 1)
    BY <2>5 DEF PathFun
  <2> QED
    BY <2>6
<1> HIDE DEF S
<1>3. \A n \in Nat : n \in S
  BY <1>1, <1>2, NumberInduction
<1> QED
  BY <1>3 DEF S

LEMMA PathUpDef ==
  ASSUME NEW t, IsTree(t)
  PROVE  /\ PathUp(t, 0) = <<>>
         /\ \A x \in DOMAIN t : PathUp(t, x) = <<x>> \o PathUp(t, t[x].up)
<1> DEFINE path == CHOOSE f : PathFun(f, t, Len(t))
<1>1. Len(t) \in Nat /\ Len(t) <= Len(t) /\ DOMAIN t = 1 .. Len(t)
  BY DEF IsTree
<1>2. PathFun(path, t, Len(t))
  BY <1>1, PathFunExists
<1>3. \A x : PathUp(t, x) = path[x]
  BY Zenon DEF PathUp, PathFun
<1> HIDE DEF path
<1>4. path[0] = <<>>
  BY <1>1, <1>2 DEF PathFun
<1>5. ASSUME NEW x \in DOMAIN t PROVE path[x] = <<x>> \o path[t[x].up]
  <2>1. x \in 0 .. Len(t) /\ x # 0
    BY <1>1
  <2> QED
    BY <1>2, <2>1 DEF PathFun
<1> QED
  BY <1>3, <1>4, <1>5

LEMMA Prepended ==
  ASSUME NEW S, NEW x \in S, NEW q \in Seq(S)
  PROVE  /\ <<x>> \o q \in Seq(S)
         /\ DOMAIN (<<x>> \o q) = 1 .. Len(q) + 1 /\ Len(q) \in Nat
         /\ Len(<<x>> \o q) = Len(q) + 1
         /\ (<<x>> \o q)[1] = x
         /\ \A i \in 1 .. Len(q) : (<<x>> \o q)[i + 1] = q[i]
         /\ \A i \in 1 .. Len(q) + 1 : i # 1 => i - 1 \in 1 .. Len(q) /\ (<<x>> \o q)[i] = q[i - 1]
OBVIOUS

(* The path goes up by parents, to lower numbers, from a node that was not  *)
(* freed to the root.                                                       *)
Rising(t, p) ==
    /\ p \in Seq(DOMAIN t)
    /\ \A i, j \in DOMAIN p : i < j => p[j] < p[i]
    /\ \A i \in 1 .. Len(p) - 1 : p[i + 1] = t[p[i]].up
ToRoot(t, p) ==
    /\ Len(p) > 0 /\ p[Len(p)] = 1
    /\ \A i \in DOMAIN p : t[p[i]].name # "freed"
PathGood(t, x) ==
    /\ Rising(t, PathUp(t, x))
    /\ x # 0 => Len(PathUp(t, x)) > 0 /\ PathUp(t, x)[1] = x
    /\ x # 0 /\ t[x].name # "freed" => ToRoot(t, PathUp(t, x))

LEMMA ParentFacts ==
  ASSUME NEW t, IsTree(t), NEW x \in DOMAIN t
  PROVE  /\ Len(t) \in Nat /\ x \in 1 .. Len(t) /\ t[x].up \in 0 .. x - 1
         /\ t[x].up # 0 => t[x].up \in DOMAIN t
         /\ x # 1 /\ t[x].name # "freed" => t[x].up # 0
         /\ t[x].up # 0 /\ t[x].name # "freed" => t[t[x].up].name # "freed"
<1>1. Len(t) \in Nat /\ DOMAIN t = 1 .. Len(t) /\ LinksUp(t, x) /\ t[1].up = 0
  BY DEF IsTree
<1>2. t[x].up \in 0 .. x - 1 /\ (x # 1 /\ t[x].name # "freed" => t[x].up # 0)
  BY <1>1 DEF LinksUp
<1>3. t[x].up # 0 => t[x].up \in DOMAIN t
  BY <1>1, <1>2
<1>4. ASSUME t[x].up # 0, t[x].name # "freed" PROVE t[t[x].up].name # "freed"
  <2>1. x # 1 /\ LinksUp(t, t[x].up)
    BY <1>1, <1>3, <1>4 DEF IsTree
  <2>2. \E i \in DOMAIN Kids(t, t[x].up) : Kids(t, t[x].up)[i] = x
    BY <1>1, <1>4, <2>1 DEF LinksUp
  <2>3. Kids(t, t[x].up) # <<>>
    BY <2>2
  <2> QED
    BY <2>1, <2>3 DEF LinksUp
<1> QED
  BY <1>1, <1>2, <1>3, <1>4

LEMMA PathFacts ==
  ASSUME NEW t, IsTree(t)
  PROVE  \A x \in DOMAIN t \cup {0} : PathGood(t, x)
<1> DEFINE K == {k \in Nat : \A x \in DOMAIN t \cup {0} : x <= k => PathGood(t, x)}
<1>1. Len(t) \in Nat /\ DOMAIN t = 1 .. Len(t) /\ t[1].up = 0
  BY DEF IsTree
<1>2. PathGood(t, 0)
  <2>1. PathUp(t, 0) = <<>>
    BY PathUpDef
  <2>2. ASSUME NEW D PROVE <<>> \in Seq(D) /\ DOMAIN <<>> = {} /\ 1 .. Len(<<>>) - 1 = {}
    OBVIOUS
  <2>3. Rising(t, <<>>)
    BY <2>2 DEF Rising
  <2> QED
    BY <2>1, <2>3 DEF PathGood
<1>3. ASSUME NEW x \in DOMAIN t, PathGood(t, t[x].up) PROVE PathGood(t, x)
  <2> DEFINE q == PathUp(t, t[x].up)
             p == PathUp(t, x)
             u == t[x].up
             D == DOMAIN t
  <2>1. /\ u \in 0 .. x - 1 /\ x \in Nat /\ x # 0
        /\ u # 0 => u \in DOMAIN t
        /\ x # 1 /\ t[x].name # "freed" => u # 0
        /\ u # 0 /\ t[x].name # "freed" => t[u].name # "freed"
    BY ParentFacts
  <2>2. p = <<x>> \o q
    BY PathUpDef
  <2>3. Rising(t, q) /\ (u # 0 => Len(q) > 0 /\ q[1] = u)
    BY <1>3 DEF PathGood
  <2>4. q \in Seq(D) /\ x \in D
    BY <2>3 DEF Rising
  <2>5. u = 0 => q = <<>>
    BY PathUpDef
  <2> HIDE DEF q, p, D
  <2>6. /\ p \in Seq(D) /\ Len(q) \in Nat /\ DOMAIN q = 1 .. Len(q)
        /\ DOMAIN p = 1 .. Len(q) + 1 /\ Len(p) = Len(q) + 1 /\ p[1] = x
        /\ \A i \in 1 .. Len(q) : p[i + 1] = q[i]
        /\ \A i \in 1 .. Len(q) + 1 : i # 1 => i - 1 \in 1 .. Len(q) /\ p[i] = q[i - 1]
    BY <2>2, <2>4, Prepended
  <2>7. \A i \in DOMAIN q : q[i] <= u /\ q[i] \in Nat
    <3> TAKE i \in DOMAIN q
    <3>1. i \in 1 .. Len(q) /\ 1 \in DOMAIN q /\ q[i] \in D /\ q[1] \in D /\ D = 1 .. Len(t)
      BY <1>1, <2>4, <2>6 DEF D
    <3>2. u # 0
      BY <2>5, <3>1
    <3>3. i # 1 => q[i] < q[1]
      BY <2>3, <3>1 DEF Rising
    <3> QED
      BY <1>1, <2>1, <2>3, <3>1, <3>2, <3>3
  <2>8. ASSUME NEW i \in DOMAIN p, NEW j \in DOMAIN p, i < j PROVE p[j] < p[i]
    <3>1. j # 1 /\ j - 1 \in DOMAIN q /\ p[j] = q[j - 1]
      BY <2>6, <2>8
    <3>2. CASE i = 1
      BY <2>1, <2>6, <2>7, <3>1, <3>2
    <3>3. CASE i # 1
      <4>1. i - 1 \in DOMAIN q /\ p[i] = q[i - 1] /\ i - 1 < j - 1
        BY <2>6, <2>8, <3>3
      <4> QED
        BY <2>3, <3>1, <4>1 DEF Rising
    <3> QED
      BY <3>2, <3>3
  <2>9. ASSUME NEW i \in 1 .. Len(p) - 1 PROVE p[i + 1] = t[p[i]].up
    <3>1. i \in 1 .. Len(q) /\ i \in 1 .. Len(q) + 1 /\ p[i + 1] = q[i]
      BY <2>6
    <3>2. CASE i = 1
      <4>1. u # 0
        BY <2>5, <3>1
      <4> QED
        BY <2>3, <2>6, <3>1, <3>2, <4>1
    <3>3. CASE i # 1
      <4>1. i - 1 \in 1 .. Len(q) - 1 /\ p[i] = q[i - 1] /\ i = (i - 1) + 1
        BY <2>6, <3>1, <3>3
      <4>2. q[(i - 1) + 1] = t[q[i - 1]].up
        BY <2>3, <4>1 DEF Rising
      <4> QED
        BY <3>1, <4>1, <4>2
    <3> QED
      BY <3>2, <3>3
  <2>10. ASSUME t[x].name # "freed" PROVE ToRoot(t, p)
    <3>1. CASE u = 0
      <4>1. x = 1 /\ Len(q) = 0
        BY <2>1, <2>5, <2>10, <3>1
      <4> QED
        BY <2>6, <2>10, <4>1 DEF ToRoot
    <3>2. CASE u # 0
      <4>1. ToRoot(t, q)
        BY <1>3, <2>1, <2>10, <3>2 DEF PathGood, q
      <4>2. Len(q) > 0 /\ q[Len(q)] = 1 /\ \A i \in DOMAIN q : t[q[i]].name # "freed"
        BY <4>1 DEF ToRoot
      <4>3. p[Len(q) + 1] = 1
        BY <2>6, <4>2
      <4>4. \A i \in DOMAIN p : t[p[i]].name # "freed"
        BY <2>6, <2>10, <4>2, SMTT(30)
      <4> QED
        BY <2>6, <4>3, <4>4 DEF ToRoot
    <3> QED
      BY <3>1, <3>2
  <2>11. Rising(t, p)
    BY <2>6, <2>8, <2>9 DEF Rising, D
  <2> QED
    BY <2>6, <2>10, <2>11 DEF PathGood, p
<1>4. 0 \in K
  BY <1>1, <1>2
<1>5. ASSUME NEW k \in Nat, k \in K PROVE k + 1 \in K
  <2> SUFFICES ASSUME NEW x \in DOMAIN t \cup {0}, x <= k + 1 PROVE PathGood(t, x)
    OBVIOUS
  <2>1. CASE x = 0
    BY <1>2, <2>1
  <2>2. CASE x # 0
    <3>1. x \in DOMAIN t
      BY <2>2
    <3>2. t[x].up \in 0 .. x - 1 /\ t[x].up \in DOMAIN t \cup {0} /\ x \in Nat
      BY <3>1, ParentFacts
    <3>3. t[x].up <= k
      BY <3>2
    <3> QED
      BY <1>3, <1>5, <3>1, <3>2, <3>3
  <2> QED
    BY <2>1, <2>2
<1> HIDE DEF K
<1>6. \A k \in Nat : k \in K
  BY <1>4, <1>5, NumberInduction
<1>7. Len(t) \in K /\ \A x \in DOMAIN t \cup {0} : x <= Len(t)
  BY <1>1, <1>6
<1> QED
  BY <1>7 DEF K

(* Trees that have the same parents up to a node have the same paths there. *)
LEMMA PathSame ==
  ASSUME NEW t, IsTree(t), NEW u, IsTree(u), NEW n \in Nat, n <= Len(t), n <= Len(u),
         \A y \in 1 .. n : u[y].up = t[y].up
  PROVE  \A x \in 0 .. n : PathUp(u, x) = PathUp(t, x)
<1> DEFINE K == {k \in Nat : k <= n => \A x \in 0 .. k : PathUp(u, x) = PathUp(t, x)}
<1>1. PathUp(t, 0) = <<>> /\ PathUp(u, 0) = <<>>
  BY PathUpDef
<1>2. 0 \in K
  BY <1>1
<1>3. ASSUME NEW k \in Nat, k \in K PROVE k + 1 \in K
  <2> SUFFICES ASSUME k + 1 <= n PROVE \A x \in 0 .. k + 1 : PathUp(u, x) = PathUp(t, x)
    OBVIOUS
  <2>1. \A x \in 0 .. k : PathUp(u, x) = PathUp(t, x)
    BY <1>3
  <2>2. k + 1 \in DOMAIN t /\ k + 1 \in DOMAIN u /\ u[k + 1].up = t[k + 1].up
    BY DEF IsTree
  <2>3. t[k + 1].up \in 0 .. k
    BY <2>2, ParentFacts
  <2>4. PathUp(t, k + 1) = <<k + 1>> \o PathUp(t, t[k + 1].up)
    BY <2>2, PathUpDef
  <2>5. PathUp(u, k + 1) = <<k + 1>> \o PathUp(u, t[k + 1].up)
    BY <2>2, PathUpDef
  <2>6. PathUp(u, k + 1) = PathUp(t, k + 1)
    BY <2>1, <2>3, <2>4, <2>5
  <2>7. \A x \in 0 .. k + 1 : x \in 0 .. k \/ x = k + 1
    OBVIOUS
  <2> QED
    BY <2>1, <2>6, <2>7
<1> HIDE DEF K
<1>4. n \in K
  BY <1>2, <1>3, NumberInduction
<1> QED
  BY <1>4 DEF K

(* The nodes on a path, and a step up.                                      *)
LEMMA UpFacts ==
  ASSUME NEW t, IsTree(t), NEW x \in DOMAIN t, t[x].name # "freed"
  PROVE  /\ x \in Up(t, x) /\ 1 \in Up(t, x)
         /\ Up(t, x) = {x} \cup Up(t, t[x].up)
         /\ Up(t, 0) = {}
         /\ \A y \in Up(t, x) : y \in DOMAIN t /\ y \in 1 .. x /\ t[y].name # "freed"
<1> DEFINE p == PathUp(t, x)
           q == PathUp(t, t[x].up)
           D == DOMAIN t
<1>1. /\ D = 1 .. Len(t) /\ Len(t) \in Nat
      /\ x # 0 /\ t[x].up \in D \cup {0}
  <2>1. DOMAIN t = 1 .. Len(t) /\ Len(t) \in Nat
    BY DEF IsTree
  <2> QED
    BY <2>1, ParentFacts
<1>2. PathGood(t, x) /\ PathGood(t, t[x].up)
  BY <1>1, PathFacts
<1>3. p = <<x>> \o q
  BY PathUpDef
<1>4. Up(t, 0) = {}
  BY PathUpDef DEF Up
<1>5. /\ p \in Seq(D) /\ q \in Seq(D)
      /\ \A i, j \in DOMAIN p : i < j => p[j] < p[i]
      /\ Len(p) > 0 /\ p[1] = x /\ p[Len(p)] = 1 /\ \A i \in DOMAIN p : t[p[i]].name # "freed"
  BY <1>1, <1>2 DEF PathGood, Rising, ToRoot
<1>6. Up(t, x) = {p[i] : i \in DOMAIN p} /\ Up(t, t[x].up) = {q[i] : i \in DOMAIN q}
  BY DEF Up
<1> HIDE DEF p, q, D
<1>7. /\ DOMAIN q = 1 .. Len(q) /\ DOMAIN p = 1 .. Len(q) + 1 /\ Len(q) \in Nat
      /\ Len(p) = Len(q) + 1
      /\ \A i \in 1 .. Len(q) : p[i + 1] = q[i]
      /\ \A i \in 1 .. Len(q) + 1 : i # 1 => i - 1 \in 1 .. Len(q) /\ p[i] = q[i - 1]
  BY <1>3, <1>5, Prepended DEF D
<1>8. {p[i] : i \in DOMAIN p} = {x} \cup {q[i] : i \in DOMAIN q}
  <2>1. ASSUME NEW i \in DOMAIN p PROVE p[i] \in {x} \cup {q[j] : j \in DOMAIN q}
    BY <1>5, <1>7
  <2>2. ASSUME NEW j \in DOMAIN q PROVE q[j] \in {p[i] : i \in DOMAIN p}
    <3>1. j + 1 \in DOMAIN p /\ p[j + 1] = q[j]
      BY <1>7
    <3> QED
      BY <3>1
  <2>3. x \in {p[i] : i \in DOMAIN p}
    BY <1>5, <1>7
  <2> QED
    BY <2>1, <2>2, <2>3
<1>9. 1 \in {p[i] : i \in DOMAIN p} /\ x \in {p[i] : i \in DOMAIN p}
  BY <1>5, <1>7
<1>10. ASSUME NEW i \in DOMAIN p PROVE p[i] \in D /\ p[i] \in 1 .. x /\ t[p[i]].name # "freed"
  <2>1. p[i] \in D /\ 1 \in DOMAIN p /\ x \in D
    BY <1>5, <1>7 DEF D
  <2>2. i # 1 => p[i] < p[1]
    BY <1>5, <1>7, <2>1
  <2> QED
    BY <1>1, <1>5, <2>1, <2>2
<1> QED
  BY <1>4, <1>6, <1>8, <1>9, <1>10 DEF D

------------------------------------------------------------------------------
(* A member of a sequence replaced by a new one, followed by others.        *)
Inserted(s, at, x, c) == SubSeq(s, 1, at - 1) \o <<x>> \o c \o SubSeq(s, at + 1, Len(s))

LEMMA ConcatFacts ==
  ASSUME NEW D, NEW a \in Seq(D), NEW b \in Seq(D)
  PROVE  /\ a \o b \in Seq(D) /\ Len(a \o b) = Len(a) + Len(b)
         /\ \A i \in 1 .. Len(a) : (a \o b)[i] = a[i]
         /\ \A i \in 1 .. Len(b) : (a \o b)[Len(a) + i] = b[i]
OBVIOUS

IsInserted(w, D, s, at, x, c) ==
    /\ w \in Seq(D) /\ Len(w) = Len(s) + Len(c)
    /\ Len(s) \in Nat /\ Len(c) \in Nat
    /\ w[at] = x
    /\ \A i \in 1 .. at - 1 : w[i] = s[i]
    /\ \A i \in 1 .. Len(c) : w[at + i] = c[i]
    /\ \A i \in at + 1 .. Len(s) : w[Len(c) + i] = s[i]

LEMMA InsertedAt ==
  ASSUME NEW D, NEW s \in Seq(D), NEW c \in Seq(D), NEW x \in D, NEW at \in 1 .. Len(s)
  PROVE  IsInserted(Inserted(s, at, x, c), D, s, at, x, c)
<1>0. PICK w : w = Inserted(s, at, x, c)
  OBVIOUS
<1> DEFINE a == SubSeq(s, 1, at - 1)
           b == <<x>>
           d == SubSeq(s, at + 1, Len(s))
           n == Len(s)
           m == Len(c)
<1>1. n \in Nat /\ m \in Nat /\ at \in 1 .. n
  OBVIOUS
<1>2. /\ a \in Seq(D) /\ Len(a) = at - 1 /\ \A i \in 1 .. at - 1 : a[i] = s[i]
      /\ b \in Seq(D) /\ Len(b) = 1 /\ b[1] = x
      /\ d \in Seq(D) /\ Len(d) = n - at /\ \A i \in 1 .. n - at : d[i] = s[at + i]
  OBVIOUS
<1> HIDE DEF a, b, d
<1> DEFINE f == a \o b
           g == f \o c
<1>3. f \in Seq(D) /\ Len(f) = at /\ f[at] = x /\ \A i \in 1 .. at - 1 : f[i] = s[i]
  <2>1. /\ f \in Seq(D) /\ Len(f) = (at - 1) + 1
        /\ \A i \in 1 .. at - 1 : f[i] = a[i]
        /\ \A i \in 1 .. 1 : f[(at - 1) + i] = b[i]
    <3>1. /\ f \in Seq(D) /\ Len(f) = Len(a) + Len(b)
          /\ \A i \in 1 .. Len(a) : f[i] = a[i]
          /\ \A i \in 1 .. Len(b) : f[Len(a) + i] = b[i]
      <4>1. a \in Seq(D) /\ b \in Seq(D)
        BY <1>2
      <4> QED
        BY <4>1, ConcatFacts
    <3> HIDE DEF f
    <3> QED
      BY <1>2, <3>1
  <2>2. f[(at - 1) + 1] = x
    BY <1>2, <2>1
  <2> QED
    BY <1>1, <1>2, <2>1, <2>2
<1> HIDE DEF f
<1>4. /\ g \in Seq(D) /\ Len(g) = at + m
      /\ \A i \in 1 .. at : g[i] = f[i]
      /\ \A i \in 1 .. m : g[at + i] = c[i]
  <2>1. /\ g \in Seq(D) /\ Len(g) = Len(f) + Len(c)
        /\ \A i \in 1 .. Len(f) : g[i] = f[i]
        /\ \A i \in 1 .. Len(c) : g[Len(f) + i] = c[i]
    <3>1. f \in Seq(D)
      BY <1>3
    <3> QED
      BY <3>1, ConcatFacts
  <2> HIDE DEF g
  <2> QED
    BY <1>3, <2>1
<1> HIDE DEF g
<1>5. /\ w \in Seq(D) /\ Len(w) = (at + m) + (n - at)
      /\ \A i \in 1 .. at + m : w[i] = g[i]
      /\ \A i \in 1 .. n - at : w[(at + m) + i] = d[i]
  <2>1. w = g \o d
    BY <1>0 DEF g, f, a, b, d, Inserted
  <2>2. /\ g \o d \in Seq(D) /\ Len(g \o d) = Len(g) + Len(d)
        /\ \A i \in 1 .. Len(g) : (g \o d)[i] = g[i]
        /\ \A i \in 1 .. Len(d) : (g \o d)[Len(g) + i] = d[i]
    <3>1. g \in Seq(D) /\ d \in Seq(D)
      BY <1>2, <1>4
    <3> QED
      BY <3>1, ConcatFacts
  <2> QED
    BY <1>2, <1>4, <2>1, <2>2
<1> HIDE DEF n, m
<1>6. Len(w) = n + m
  BY <1>1, <1>5
<1>7. w[at] = x /\ \A i \in 1 .. at - 1 : w[i] = s[i]
  BY <1>1, <1>3, <1>4, <1>5
<1>8. \A i \in 1 .. m : w[at + i] = c[i]
  <2> TAKE i \in 1 .. m
  <2>1. at + i \in 1 .. at + m
    BY <1>1
  <2> QED
    BY <1>4, <1>5, <2>1
<1>9. \A i \in at + 1 .. n : w[m + i] = s[i]
  <2> TAKE i \in at + 1 .. n
  <2>1. i - at \in 1 .. n - at /\ (at + m) + (i - at) = m + i /\ at + (i - at) = i
    BY <1>1
  <2>2. w[(at + m) + (i - at)] = d[i - at] /\ d[i - at] = s[at + (i - at)]
    BY <1>2, <1>5, <2>1
  <2> QED
    BY <2>1, <2>2
<1> QED
  BY <1>0, <1>1, <1>5, <1>6, <1>7, <1>8, <1>9 DEF n, m, IsInserted

(* Where a member of the result comes from.                                 *)
LEMMA InsertedFrom ==
  ASSUME NEW n \in Nat, NEW m \in Nat, NEW at \in 1 .. n, NEW k \in 1 .. n + m
  PROVE  \/ k \in 1 .. at - 1
         \/ k = at
         \/ \E i \in 1 .. m : k = at + i
         \/ \E i \in at + 1 .. n : k = m + i
<1>1. CASE k < at
  BY <1>1
<1>2. CASE k = at
  BY <1>2
<1>3. CASE k > at /\ k <= at + m
  <2>1. k - at \in 1 .. m /\ k = at + (k - at)
    BY <1>3
  <2> QED
    BY <2>1
<1>4. CASE k > at + m
  <2>1. k - m \in at + 1 .. n /\ k = m + (k - m)
    BY <1>4
  <2> QED
    BY <2>1
<1> QED
  BY <1>1, <1>2, <1>3, <1>4

Differ(s) == \A i, j \in DOMAIN s : i # j => s[i] # s[j]

LEMMA InsertedDiffer ==
  ASSUME NEW D, NEW s \in Seq(D), NEW c \in Seq(D), NEW x \in D, NEW at \in 1 .. Len(s),
         NEW w, IsInserted(w, D, s, at, x, c)
  PROVE  /\ Differ(s) /\ Differ(c)
         /\ \A i \in DOMAIN s : s[i] # x
         /\ \A i \in DOMAIN c : c[i] # x
         /\ \A i \in DOMAIN s, j \in DOMAIN c : s[i] # c[j]
         => Differ(w)
<1> DEFINE n == Len(s)
           m == Len(c)
<1>1. /\ w \in Seq(D) /\ Len(w) = n + m /\ n \in Nat /\ m \in Nat
      /\ w[at] = x
      /\ \A i \in 1 .. at - 1 : w[i] = s[i]
      /\ \A i \in 1 .. m : w[at + i] = c[i]
      /\ \A i \in at + 1 .. n : w[m + i] = s[i]
  BY DEF IsInserted
<1>2. DOMAIN s = 1 .. n /\ DOMAIN c = 1 .. m /\ DOMAIN w = 1 .. n + m /\ at \in 1 .. n
  BY <1>1
<1> HIDE DEF n, m
<1> SUFFICES ASSUME Differ(s), Differ(c),
                    \A i \in DOMAIN s : s[i] # x, \A i \in DOMAIN c : c[i] # x,
                    \A i \in DOMAIN s, j \in DOMAIN c : s[i] # c[j],
                    NEW k \in 1 .. n + m, NEW l \in 1 .. n + m, k # l
             PROVE  w[k] # w[l]
  BY <1>2 DEF Differ
<1>3. \A i \in 1 .. at - 1 : i \in DOMAIN s
  BY <1>1, <1>2
<1>4. \A i \in at + 1 .. n : i \in DOMAIN s
  BY <1>1, <1>2
<1> DEFINE First(j) == j \in 1 .. at - 1
           Third(j) == \E i \in 1 .. m : j = at + i
           Fourth(j) == \E i \in at + 1 .. n : j = m + i
<1>5. \A j \in 1 .. n + m : First(j) \/ j = at \/ Third(j) \/ Fourth(j)
  BY <1>1, <1>2, InsertedFrom
<1>6. ASSUME NEW j, First(j) PROVE j \in DOMAIN s /\ w[j] = s[j] /\ j < at
  BY <1>1, <1>3, <1>6
<1>7. ASSUME NEW j, Third(j) PROVE \E i \in DOMAIN c : j = at + i /\ w[j] = c[i]
  BY <1>1, <1>2, <1>7
<1>8. ASSUME NEW j, Fourth(j) PROVE \E i \in DOMAIN s : j = m + i /\ w[j] = s[i] /\ i > at
  <2>1. PICK i \in at + 1 .. n : j = m + i
    BY <1>8
  <2>2. i \in DOMAIN s /\ w[m + i] = s[i] /\ i > at
    BY <1>1, <1>2, <1>4
  <2> QED
    BY <2>1, <2>2
<1> HIDE DEF First, Third, Fourth
<1>9. at \in Nat /\ DOMAIN s \subseteq Nat /\ DOMAIN c \subseteq Nat
  BY <1>1, <1>2
<1>10. \A i, j \in DOMAIN s : i # j => s[i] # s[j]
  BY DEF Differ
<1>11. \A i, j \in DOMAIN c : i # j => c[i] # c[j]
  BY DEF Differ
<1>12. ASSUME First(k) PROVE w[k] # w[l]
  <2>1. k \in DOMAIN s /\ w[k] = s[k] /\ k < at
    BY <1>6, <1>12
  <2>2. CASE First(l)
    BY <1>6, <1>10, <2>1, <2>2
  <2>3. CASE l = at
    BY <1>1, <2>1, <2>3
  <2>4. CASE Third(l)
    BY <1>7, <2>1, <2>4
  <2>5. CASE Fourth(l)
    <3>1. PICK i \in DOMAIN s : w[l] = s[i] /\ i > at
      BY <1>8, <2>5
    <3>2. i # k
      BY <1>9, <2>1, <3>1
    <3> QED
      BY <1>10, <2>1, <3>1, <3>2
  <2> QED
    BY <1>5, <2>2, <2>3, <2>4, <2>5
<1>13. ASSUME k = at PROVE w[k] # w[l]
  <2>1. CASE First(l)
    BY <1>1, <1>6, <1>13, <2>1
  <2>2. CASE Third(l)
    BY <1>1, <1>7, <1>13, <2>2
  <2>3. CASE Fourth(l)
    BY <1>1, <1>8, <1>13, <2>3
  <2> QED
    BY <1>5, <1>13, <2>1, <2>2, <2>3
<1>14. ASSUME Third(k) PROVE w[k] # w[l]
  <2>1. PICK i \in DOMAIN c : k = at + i /\ w[k] = c[i]
    BY <1>7, <1>14
  <2>2. CASE First(l)
    BY <1>6, <2>1, <2>2
  <2>3. CASE l = at
    BY <1>1, <2>1, <2>3
  <2>4. CASE Third(l)
    BY <1>7, <1>11, <2>1, <2>4
  <2>5. CASE Fourth(l)
    BY <1>8, <2>1, <2>5
  <2> QED
    BY <1>5, <2>2, <2>3, <2>4, <2>5
<1>15. ASSUME Fourth(k) PROVE w[k] # w[l]
  <2>1. PICK i \in DOMAIN s : k = m + i /\ w[k] = s[i] /\ i > at
    BY <1>8, <1>15
  <2>2. CASE First(l)
    <3>1. l \in DOMAIN s /\ w[l] = s[l] /\ l < at
      BY <1>6, <2>2
    <3>2. i # l
      BY <1>9, <2>1, <3>1
    <3> QED
      BY <1>10, <2>1, <3>1, <3>2
  <2>3. CASE l = at
    BY <1>1, <2>1, <2>3
  <2>4. CASE Third(l)
    BY <1>7, <2>1, <2>4
  <2>5. CASE Fourth(l)
    BY <1>8, <1>10, <2>1, <2>5
  <2> QED
    BY <1>5, <2>2, <2>3, <2>4, <2>5
<1> QED
  BY <1>5, <1>12, <1>13, <1>14, <1>15

------------------------------------------------------------------------------
(* What breaking a group leaves.                                            *)
IsBroken(t, e, at, u) ==
    /\ at \in DOMAIN Kids(t, t[e].up) /\ Kids(t, t[e].up)[at] = e
    /\ Len(u) = Len(t) + 1 /\ DOMAIN u = 1 .. Len(t) + 1
    /\ u[Len(t) + 1] = [name |-> StartName(t[e].name), val |-> StartVal(t[e].name, t[e].val),
                        ns |-> t[e].ns, up |-> t[e].up, kids |-> <<>>]
    /\ u[e] = [name |-> "freed", val |-> <<>>, ns |-> TRUE, up |-> 0, kids |-> <<>>]
    /\ \A i \in DOMAIN t \ {e} :
          u[i] = [name |-> t[i].name, val |-> t[i].val, ns |-> t[i].ns,
                  up |-> IF t[i].up = e THEN t[e].up ELSE t[i].up,
                  kids |-> IF i = t[e].up
                           THEN Inserted(Kids(t, i), at, Len(t) + 1, Kids(t, e))
                           ELSE Kids(t, i)]

LEMMA FunctionIsSeq ==
  ASSUME NEW f, NEW n \in Nat, f = [i \in 1 .. n |-> f[i]]
  PROVE  Len(f) = n /\ IsSeq(f)
<1> DEFINE S == {f[i] : i \in DOMAIN f}
<1>1. DOMAIN f = 1 .. n
  OBVIOUS
<1>2. f \in [1 .. n -> S]
  <2>1. \A i \in 1 .. n : f[i] \in S
    BY <1>1
  <2> HIDE DEF S
  <2> QED
    BY <2>1
<1> HIDE DEF S
<1>3. f \in Seq(S)
  BY <1>2, SeqDef
<1>4. Len(f) = n
  <2>1. Len(f) \in Nat /\ DOMAIN f = 1 .. Len(f)
    BY <1>3, LenProperties
  <2> QED
    BY <1>1, <2>1
<1> QED
  BY <1>3, <1>4 DEF IsSeq, S

LEMMA NodeFields ==
  ASSUME NEW n, IsNode(n), NEW x
  PROVE  /\ [n EXCEPT !.kids = x] = [name |-> n.name, val |-> n.val, ns |-> n.ns,
                                     up |-> n.up, kids |-> x]
         /\ [n EXCEPT !.up = x] = [name |-> n.name, val |-> n.val, ns |-> n.ns,
                                   up |-> x, kids |-> n.kids]
         /\ [n EXCEPT !.ns = x] = [name |-> n.name, val |-> n.val, ns |-> x,
                                   up |-> n.up, kids |-> n.kids]
<1> DEFINE m == [name |-> n.name, val |-> n.val, ns |-> n.ns, up |-> n.up, kids |-> n.kids]
<1>1. n = m
  BY DEF IsNode
<1>2. /\ [m EXCEPT !.kids = x] = [name |-> n.name, val |-> n.val, ns |-> n.ns,
                                  up |-> n.up, kids |-> x]
      /\ [m EXCEPT !.up = x] = [name |-> n.name, val |-> n.val, ns |-> n.ns,
                                up |-> x, kids |-> n.kids]
      /\ [m EXCEPT !.ns = x] = [name |-> n.name, val |-> n.val, ns |-> x,
                                up |-> n.up, kids |-> n.kids]
  OBVIOUS
<1> HIDE DEF m
<1> QED
  BY <1>1, <1>2

LEMMA GroupFacts ==
  ASSUME NEW t, IsTree(t), NEW e \in DOMAIN t, t[e].name \in GroupNames
  PROVE  /\ e # 1 /\ t[e].name # "freed"
         /\ t[e].up \in DOMAIN t /\ t[e].up \in 1 .. e - 1
         /\ \E at \in DOMAIN Kids(t, t[e].up) : Kids(t, t[e].up)[at] = e
<1>1. t[1].name = "descriptor" /\ DOMAIN t = 1 .. Len(t) /\ Len(t) \in Nat
  BY DEF IsTree
<1>2. e # 1 /\ t[e].name # "freed"
  BY <1>1 DEF GroupNames
<1>3. t[e].up # 0 /\ t[e].up \in DOMAIN t /\ t[e].up \in 0 .. e - 1 /\ e \in 1 .. Len(t)
  BY <1>2, ParentFacts
<1>4. LinksUp(t, e)
  BY DEF IsTree
<1> QED
  BY <1>1, <1>2, <1>3, <1>4 DEF LinksUp

LEMMA BreakIs ==
  ASSUME NEW t, IsTree(t), NEW e \in DOMAIN t, t[e].name \in GroupNames
  PROVE  \E at : IsBroken(t, e, at, Break(t, e))
<1> DEFINE p == t[e].up
           n == Len(t)
           at == CHOOSE i \in DOMAIN t[p].kids : t[p].kids[i] = e
           start == [Node(StartName(t[e].name), StartVal(t[e].name, t[e].val), p)
                        EXCEPT !.ns = t[e].ns]
           f == [i \in DOMAIN t |->
                    IF i = p THEN [t[i] EXCEPT !.kids =
                                       SubSeq(@, 1, at - 1) \o <<n + 1>> \o t[e].kids
                                       \o SubSeq(@, at + 1, Len(@))]
                    ELSE IF i = e THEN Node("freed", <<>>, 0)
                    ELSE IF t[i].up = e THEN [t[i] EXCEPT !.up = p]
                    ELSE t[i]]
<1>1. Break(t, e) = Append(f, start)
  BY Zenon DEF Break, Replaced
<1>2. /\ p \in DOMAIN t /\ p \in 1 .. e - 1
      /\ \E i \in DOMAIN Kids(t, p) : Kids(t, p)[i] = e
  BY GroupFacts
<1>3. at \in DOMAIN Kids(t, p) /\ Kids(t, p)[at] = e
  BY <1>2 DEF Kids
<1>4. n \in Nat /\ DOMAIN t = 1 .. n /\ \A i \in DOMAIN t : IsNode(t[i])
  BY DEF IsTree
<1>5. start = [name |-> StartName(t[e].name), val |-> StartVal(t[e].name, t[e].val),
               ns |-> t[e].ns, up |-> p, kids |-> <<>>]
  BY DEF Node
<1>6. f[e] = [name |-> "freed", val |-> <<>>, ns |-> TRUE, up |-> 0, kids |-> <<>>]
  <2>1. e # p
    BY <1>2, <1>4
  <2> QED
    BY <2>1 DEF Node
<1>7. p # e /\ t[p].up # e
  <2>1. t[p].up \in 0 .. p - 1
    BY <1>2, ParentFacts
  <2> QED
    BY <1>2, <1>4, <2>1
<1> HIDE DEF at, start
<1>8. ASSUME NEW i \in DOMAIN t \ {e}
      PROVE  f[i] = [name |-> t[i].name, val |-> t[i].val, ns |-> t[i].ns,
                     up |-> IF t[i].up = e THEN t[e].up ELSE t[i].up,
                     kids |-> IF i = t[e].up
                              THEN Inserted(Kids(t, i), at, Len(t) + 1, Kids(t, e))
                              ELSE Kids(t, i)]
  <2>1. IsNode(t[i])
    BY <1>4
  <2>2. CASE i = p
    <3>1. f[i] = [t[i] EXCEPT !.kids = Inserted(Kids(t, i), at, Len(t) + 1, Kids(t, e))]
      BY <2>2 DEF Inserted, Kids
    <3> DEFINE k == Inserted(Kids(t, i), at, Len(t) + 1, Kids(t, e))
    <3> HIDE DEF f, k
    <3>2. [t[i] EXCEPT !.kids = k] =
            [name |-> t[i].name, val |-> t[i].val, ns |-> t[i].ns, up |-> t[i].up, kids |-> k]
      BY <2>1, NodeFields
    <3> QED
      BY <1>7, <2>2, <3>1, <3>2 DEF k
  <2>3. CASE i # p /\ t[i].up = e
    <3>1. f[i] = [t[i] EXCEPT !.up = p]
      BY <2>3
    <3> HIDE DEF f
    <3>2. [t[i] EXCEPT !.up = p] =
            [name |-> t[i].name, val |-> t[i].val, ns |-> t[i].ns, up |-> p, kids |-> t[i].kids]
      BY <2>1, NodeFields
    <3> QED
      BY <2>3, <3>1, <3>2 DEF Kids
  <2>4. CASE i # p /\ t[i].up # e
    <3>1. f[i] = t[i]
      BY <2>4
    <3> HIDE DEF f
    <3> QED
      BY <2>1, <2>4, <3>1 DEF Kids, IsNode
  <2> QED
    BY <2>2, <2>3, <2>4
<1>9. f = [i \in 1 .. n |-> f[i]]
  BY <1>4
<1> DEFINE u == Append(f, start)
<1> HIDE DEF f
<1>10. Len(f) = n /\ IsSeq(f)
  BY <1>4, <1>9, FunctionIsSeq
<1>11. /\ DOMAIN u = 1 .. n + 1 /\ Len(u) = n + 1
       /\ \A i \in 1 .. n : u[i] = f[i]
       /\ u[n + 1] = start
  BY <1>10, AppendedTo
<1> HIDE DEF u
<1>12. u[e] = f[e] /\ \A i \in DOMAIN t \ {e} : u[i] = f[i]
  BY <1>4, <1>11
<1>13. IsBroken(t, e, at, u)
  BY <1>3, <1>5, <1>6, <1>8, <1>11, <1>12 DEF IsBroken
<1> QED
  BY <1>1, <1>13 DEF u

(* The names of start elements.                                             *)
LEMMA StartNames ==
  ASSUME NEW g \in GroupNames
  PROVE  StartName(g) \in {"collection", "push", "delimiter"}
BY DEF GroupNames, StartName

(* Breaking a group of a tree leaves a tree.                                *)
LEMMA BreakTree ==
  ASSUME NEW t, IsTree(t), NEW e \in DOMAIN t, t[e].name \in GroupNames,
         NEW at, NEW u, IsBroken(t, e, at, u)
  PROVE  IsTree(u)
<1> DEFINE p == t[e].up
           n == Len(t)
           s == Kids(t, p)
           c == Kids(t, e)
           w == Kids(u, p)
           D == DOMAIN u \ {1}
<1>1. /\ n \in Nat /\ DOMAIN t = 1 .. n /\ 1 \in DOMAIN t
      /\ t[1].name = "descriptor" /\ t[1].up = 0
      /\ \A i \in DOMAIN t : LinksDown(t, i) /\ LinksUp(t, i)
  BY DEF IsTree
<1>2. e # 1 /\ p \in DOMAIN t /\ p \in 1 .. e - 1 /\ p # e
  BY <1>1, GroupFacts
<1>3. /\ at \in DOMAIN s /\ s[at] = e
      /\ Len(u) = n + 1 /\ DOMAIN u = 1 .. n + 1
      /\ u[n + 1].up = p /\ Kids(u, n + 1) = <<>> /\ IsNode(u[n + 1])
      /\ u[n + 1].name = StartName(t[e].name)
      /\ u[e].name = "freed" /\ u[e].up = 0 /\ Kids(u, e) = <<>> /\ IsNode(u[e])
  BY DEF IsBroken, IsNode, Kids
<1>4. \A i \in DOMAIN t \ {e} :
         /\ IsNode(u[i]) /\ u[i].name = t[i].name
         /\ u[i].up = IF t[i].up = e THEN p ELSE t[i].up
         /\ Kids(u, i) = IF i = p THEN Inserted(Kids(t, i), at, n + 1, c) ELSE Kids(t, i)
  <2> TAKE i \in DOMAIN t \ {e}
  <2> DEFINE kids == IF i = p THEN Inserted(Kids(t, i), at, n + 1, c) ELSE Kids(t, i)
             up == IF t[i].up = e THEN p ELSE t[i].up
  <2>1. u[i] = [name |-> t[i].name, val |-> t[i].val, ns |-> t[i].ns, up |-> up, kids |-> kids]
    BY DEF IsBroken
  <2> HIDE DEF kids, up
  <2>2. IsNode(u[i]) /\ u[i].name = t[i].name /\ u[i].up = up /\ Kids(u, i) = kids
    BY <2>1 DEF IsNode, Kids
  <2> QED
    BY <2>2 DEF kids, up
<1>5. w = Inserted(s, at, n + 1, c)
  BY <1>2, <1>4
<1>6. /\ s \in Seq(D) /\ c \in Seq(D) /\ n + 1 \in D /\ at \in 1 .. Len(s)
      /\ DOMAIN s = 1 .. Len(s) /\ DOMAIN c = 1 .. Len(c)
  <2>1. s \in Seq(DOMAIN t \ {1}) /\ c \in Seq(DOMAIN t \ {1})
    BY <1>1, <1>2 DEF LinksDown
  <2>2. DOMAIN t \ {1} \subseteq D
    BY <1>1, <1>3
  <2> HIDE DEF D, s, c
  <2>3. s \in Seq(D) /\ c \in Seq(D)
    BY <2>1, <2>2, SeqGrows
  <2>4. n + 1 \in D
    BY <1>1, <1>3 DEF D
  <2> QED
    BY <1>3, <2>3, <2>4
<1>7. /\ \A i \in DOMAIN s : s[i] \in DOMAIN t \ {1} /\ t[s[i]].up = p
      /\ Differ(s)
  <2>1. LinksDown(t, p)
    BY <1>1, <1>2
  <2> QED
    BY <2>1 DEF LinksDown, Differ
<1>8. /\ \A i \in DOMAIN c : c[i] \in DOMAIN t \ {1} /\ t[c[i]].up = e
      /\ Differ(c)
  <2>1. LinksDown(t, e)
    BY <1>1
  <2> QED
    BY <2>1 DEF LinksDown, Differ
<1>9. LinksUp(t, e)
  BY <1>1
<1> HIDE DEF s, c, w, D
<1>10. IsInserted(w, D, s, at, n + 1, c)
  BY <1>5, <1>6, InsertedAt
<1>11. /\ w \in Seq(D) /\ DOMAIN w = 1 .. Len(s) + Len(c) /\ Len(s) \in Nat /\ Len(c) \in Nat
       /\ w[at] = n + 1
       /\ \A i \in 1 .. at - 1 : w[i] = s[i]
       /\ \A i \in 1 .. Len(c) : w[at + i] = c[i]
       /\ \A i \in at + 1 .. Len(s) : w[Len(c) + i] = s[i]
  <2>1. w \in Seq(D) /\ Len(w) = Len(s) + Len(c)
    BY <1>10 DEF IsInserted
  <2> QED
    BY <1>10, <2>1 DEF IsInserted
<1>12. Differ(w)
  <2>1. \A i \in DOMAIN s : s[i] # n + 1
    BY <1>1, <1>7
  <2>2. \A i \in DOMAIN c : c[i] # n + 1
    BY <1>1, <1>8
  <2>3. \A i \in DOMAIN s, j \in DOMAIN c : s[i] # c[j]
    BY <1>2, <1>7, <1>8
  <2> QED
    BY <1>6, <1>7, <1>8, <1>10, <2>1, <2>2, <2>3, InsertedDiffer
<1>13. ASSUME NEW i \in DOMAIN s, i # at PROVE u[s[i]].up = p /\ s[i] # e
  <2>1. s[i] # e
    BY <1>3, <1>7, <1>13 DEF Differ
  <2> QED
    BY <1>2, <1>4, <1>7, <2>1
<1>14. ASSUME NEW i \in DOMAIN c PROVE u[c[i]].up = p /\ c[i] # e
  <2>1. c[i] # e
    BY <1>2, <1>8
  <2> QED
    BY <1>4, <1>8, <2>1
<1>15. LinksDown(u, p)
  <2>1. ASSUME NEW k \in DOMAIN w PROVE u[w[k]].up = p
    <3>1. /\ k \in 1 .. Len(s) + Len(c)
          /\ at \in 1 .. Len(s)
      BY <1>6, <1>11
    <3>2. \/ k \in 1 .. at - 1
          \/ k = at
          \/ \E i \in 1 .. Len(c) : k = at + i
          \/ \E i \in at + 1 .. Len(s) : k = Len(c) + i
      BY <1>11, <3>1, InsertedFrom
    <3>3. CASE k \in 1 .. at - 1
      <4>1. k \in DOMAIN s /\ k # at
        BY <1>6, <1>11, <3>3
      <4> QED
        BY <1>11, <1>13, <3>3, <4>1
    <3>4. CASE k = at
      BY <1>3, <1>11, <3>4
    <3>5. CASE \E i \in 1 .. Len(c) : k = at + i
      <4>1. PICK i \in 1 .. Len(c) : k = at + i
        BY <3>5
      <4>2. i \in DOMAIN c /\ w[k] = c[i]
        BY <1>6, <1>11, <4>1
      <4> QED
        BY <1>14, <4>2
    <3>6. CASE \E i \in at + 1 .. Len(s) : k = Len(c) + i
      <4>1. PICK i \in at + 1 .. Len(s) : k = Len(c) + i
        BY <3>6
      <4>2. i \in DOMAIN s /\ i # at
        BY <1>6, <1>11
      <4> QED
        BY <1>11, <1>13, <4>1, <4>2
    <3> QED
      BY <3>2, <3>3, <3>4, <3>5, <3>6
  <2> QED
    BY <1>11, <1>12, <2>1 DEF LinksDown, Differ, w, D
<1>16. ASSUME NEW i \in DOMAIN t \ {e, p} PROVE LinksDown(u, i)
  <2>1. Kids(u, i) = Kids(t, i) /\ LinksDown(t, i)
    BY <1>1, <1>4, <1>16
  <2>2. /\ Kids(t, i) \in Seq(DOMAIN t \ {1})
        /\ \A k \in DOMAIN Kids(t, i) : t[Kids(t, i)[k]].up = i
    BY <2>1 DEF LinksDown
  <2>3. Kids(t, i) \in Seq(DOMAIN u \ {1})
    <3>1. DOMAIN t \ {1} \subseteq DOMAIN u \ {1}
      BY <1>1, <1>3
    <3> QED
      BY <2>2, <3>1, SeqGrows
  <2>4. ASSUME NEW k \in DOMAIN Kids(t, i) PROVE u[Kids(t, i)[k]].up = i
    <3>1. Kids(t, i)[k] \in DOMAIN t /\ t[Kids(t, i)[k]].up = i
      BY <2>2
    <3>2. Kids(t, i)[k] # e
      BY <1>16, <3>1
    <3> QED
      BY <1>4, <1>16, <3>1, <3>2
  <2> QED
    BY <2>1, <2>3, <2>4 DEF LinksDown
<1>17. ASSUME NEW i \in DOMAIN u, Kids(u, i) = <<>> PROVE LinksDown(u, i)
  <2>1. <<>> \in Seq(D) /\ DOMAIN <<>> = {}
    OBVIOUS
  <2> QED
    BY <1>17, <2>1 DEF LinksDown, D
<1>18. ASSUME NEW i \in DOMAIN t \ {e} PROVE LinksUp(u, i)
  <2>1. LinksUp(t, i) /\ i \in 1 .. n /\ u[i].name = t[i].name
    BY <1>1, <1>4
  <2>2. u[i].up \in 0 .. i - 1
    BY <1>1, <1>2, <1>4, <2>1 DEF LinksUp
  <2>3. ASSUME t[i].name = "freed" PROVE u[i].up = 0 /\ Kids(u, i) = <<>>
    <3>1. t[i].up = 0 /\ Kids(t, i) = <<>>
      BY <2>1, <2>3 DEF LinksUp
    <3>2. i # p
      BY <1>3, <3>1 DEF s
    <3>3. u[i].up = t[i].up /\ Kids(u, i) = Kids(t, i)
      BY <1>1, <1>2, <1>4, <3>1, <3>2
    <3> QED
      BY <3>1, <3>3
  <2>4. ASSUME i # 1, t[i].name # "freed"
        PROVE  u[i].up # 0 /\ \E k \in DOMAIN Kids(u, u[i].up) : Kids(u, u[i].up)[k] = i
    <3>1. PICK k \in DOMAIN Kids(t, t[i].up) : Kids(t, t[i].up)[k] = i
      BY <2>1, <2>4 DEF LinksUp
    <3>2. t[i].up # 0 /\ t[i].up \in DOMAIN t
      BY <1>18, <2>4, ParentFacts
    <3>3. CASE t[i].up = e
      <4>1. u[i].up = p /\ k \in 1 .. Len(c) /\ c[k] = i
        BY <1>4, <1>6, <3>1, <3>3 DEF c
      <4>2. at + k \in DOMAIN w /\ w[at + k] = i
        BY <1>6, <1>11, <4>1
      <4> QED
        BY <1>2, <4>1, <4>2 DEF w
    <3>4. CASE t[i].up = p
      <4>1. u[i].up = p /\ k \in 1 .. Len(s) /\ s[k] = i
        BY <1>2, <1>4, <1>6, <3>1, <3>4 DEF s
      <4>2. k # at
        BY <1>3, <1>18, <4>1
      <4>3. \E l \in DOMAIN w : w[l] = i
        <5>1. CASE k < at
          <6>1. k \in 1 .. at - 1 /\ k \in DOMAIN w
            BY <1>6, <1>11, <4>1, <5>1
          <6> QED
            BY <1>11, <4>1, <6>1
        <5>2. CASE k > at
          <6>1. k \in at + 1 .. Len(s) /\ Len(c) + k \in DOMAIN w
            BY <1>6, <1>11, <4>1, <5>2
          <6> QED
            BY <1>11, <4>1, <6>1
        <5> QED
          BY <1>6, <4>1, <4>2, <5>1, <5>2
      <4> QED
        BY <1>2, <4>1, <4>3 DEF w
    <3>5. CASE t[i].up # e /\ t[i].up # p
      <4>1. u[i].up = t[i].up /\ Kids(u, t[i].up) = Kids(t, t[i].up)
        BY <1>4, <3>2, <3>5
      <4> QED
        BY <3>1, <3>2, <4>1
    <3> QED
      BY <3>3, <3>4, <3>5
  <2> QED
    BY <2>1, <2>2, <2>3, <2>4 DEF LinksUp
<1>19. LinksUp(u, e)
  <2>1. 0 \in 0 .. e - 1
    BY <1>1, <1>2
  <2> QED
    BY <1>3, <2>1 DEF LinksUp
<1>20. LinksUp(u, n + 1)
  <2>1. u[n + 1].up \in 0 .. (n + 1) - 1 /\ u[n + 1].up # 0
    BY <1>1, <1>2, <1>3
  <2>2. u[n + 1].name # "freed"
    BY <1>3, StartNames
  <2>3. at \in DOMAIN w /\ w[at] = n + 1
    BY <1>6, <1>11
  <2> QED
    BY <1>3, <2>1, <2>2, <2>3 DEF LinksUp, w
<1>21. \A i \in DOMAIN u : i = e \/ i = n + 1 \/ i = p \/ i \in DOMAIN t \ {e, p}
  BY <1>1, <1>3
<1>22. ASSUME NEW i \in DOMAIN u PROVE IsNode(u[i]) /\ LinksDown(u, i) /\ LinksUp(u, i)
  <2>1. CASE i = e
    BY <1>3, <1>17, <1>19, <2>1
  <2>2. CASE i = n + 1
    BY <1>3, <1>17, <1>20, <2>2
  <2>3. CASE i = p
    BY <1>2, <1>4, <1>15, <1>18, <2>3
  <2>4. CASE i \in DOMAIN t \ {e, p}
    BY <1>4, <1>16, <1>18, <2>4
  <2> QED
    BY <1>21, <2>1, <2>2, <2>3, <2>4
<1>23. u[1].name = "descriptor" /\ u[1].up = 0
  BY <1>1, <1>2, <1>4
<1>24. 1 \in DOMAIN u /\ n + 1 \in Nat
  BY <1>1, <1>3
<1> QED
  BY <1>3, <1>22, <1>23, <1>24 DEF IsTree

(* No descriptor inside another, no generic element, and a usage is a page  *)
(* and an ID.                                                               *)
ProperNode(n) ==
    /\ n.name # "descriptor" /\ n.name # "generic"
    /\ n.name = "usage" => n.val = <<n.val[1], n.val[2]>>
Proper(t) == \A e \in DOMAIN t : e # 1 => ProperNode(t[e])

LEMMA BrokenProper ==
  ASSUME NEW t, IsTree(t), Proper(t), NEW e \in DOMAIN t, t[e].name \in GroupNames,
         NEW at, NEW u, IsBroken(t, e, at, u)
  PROVE  Proper(u)
<1> DEFINE n == Len(t)
<1>1. n \in Nat /\ DOMAIN t = 1 .. n /\ DOMAIN u = 1 .. n + 1
  BY DEF IsTree, IsBroken
<1>2. ProperNode(u[n + 1])
  <2>1. u[n + 1].name = StartName(t[e].name)
    BY DEF IsBroken
  <2> QED
    BY <2>1, StartNames DEF ProperNode
<1>3. ProperNode(u[e])
  BY DEF IsBroken, ProperNode
<1>4. ASSUME NEW i \in DOMAIN t \ {e}, i # 1 PROVE ProperNode(u[i])
  <2> DEFINE up == IF t[i].up = e THEN t[e].up ELSE t[i].up
             kids == IF i = t[e].up
                     THEN Inserted(Kids(t, i), at, Len(t) + 1, Kids(t, e))
                     ELSE Kids(t, i)
  <2>3. u[i] = [name |-> t[i].name, val |-> t[i].val, ns |-> t[i].ns, up |-> up, kids |-> kids]
    BY DEF IsBroken
  <2> HIDE DEF up, kids
  <2>1. u[i].name = t[i].name /\ u[i].val = t[i].val
    BY <2>3
  <2>2. ProperNode(t[i])
    BY <1>4 DEF Proper
  <2> QED
    BY <2>1, <2>2 DEF ProperNode
<1> QED
  BY <1>1, <1>2, <1>3, <1>4 DEF Proper

------------------------------------------------------------------------------
(* What adding a node leaves.                                               *)
IsAdded(t, p, node, u) ==
    /\ Len(u) = Len(t) + 1 /\ DOMAIN u = 1 .. Len(t) + 1
    /\ u[Len(t) + 1] = node
    /\ \A i \in DOMAIN t \ {p} : u[i] = t[i]
    /\ u[p] = [name |-> t[p].name, val |-> t[p].val, ns |-> t[p].ns, up |-> t[p].up,
               kids |-> Append(Kids(t, p), Len(t) + 1)]

LEMMA AddNodeIs ==
  ASSUME NEW t, IsTree(t), NEW p \in DOMAIN t, NEW node
  PROVE  IsAdded(t, p, node, AddNode(t, p, node))
<1> DEFINE n == Len(t)
           k == Append(t[p].kids, n + 1)
           f == [t EXCEPT ![p].kids = Append(@, n + 1)]
           u == Append(f, node)
<1>1. n \in Nat /\ DOMAIN t = 1 .. n /\ IsNode(t[p])
  BY DEF IsTree
<1>2. /\ f = [i \in 1 .. n |-> f[i]]
      /\ f[p] = [t[p] EXCEPT !.kids = k]
      /\ \A i \in DOMAIN t \ {p} : f[i] = t[i]
  BY <1>1
<1>3. u = AddNode(t, p, node)
  BY DEF AddNode
<1> HIDE DEF k
<1>4. [t[p] EXCEPT !.kids = k] =
        [name |-> t[p].name, val |-> t[p].val, ns |-> t[p].ns, up |-> t[p].up, kids |-> k]
  BY <1>1, NodeFields
<1> HIDE DEF f
<1>5. Len(f) = n /\ IsSeq(f)
  BY <1>1, <1>2, FunctionIsSeq
<1>6. /\ DOMAIN u = 1 .. n + 1 /\ Len(u) = n + 1
      /\ \A i \in 1 .. n : u[i] = f[i]
      /\ u[n + 1] = node
  BY <1>5, AppendedTo
<1> HIDE DEF u
<1> QED
  BY <1>1, <1>2, <1>3, <1>4, <1>6 DEF IsAdded, Kids, k

LEMMA AddedProper ==
  ASSUME NEW t, IsTree(t), Proper(t), NEW p \in DOMAIN t, NEW node, ProperNode(node),
         NEW u, IsAdded(t, p, node, u)
  PROVE  Proper(u)
<1> DEFINE n == Len(t)
<1>1. n \in Nat /\ DOMAIN t = 1 .. n /\ DOMAIN u = 1 .. n + 1 /\ u[n + 1] = node
  BY DEF IsTree, IsAdded
<1>2. ASSUME NEW i \in DOMAIN t, i # 1 PROVE ProperNode(u[i])
  <2>1. u[i].name = t[i].name /\ u[i].val = t[i].val
    BY DEF IsAdded
  <2>2. ProperNode(t[i])
    BY <1>2 DEF Proper
  <2> QED
    BY <2>1, <2>2 DEF ProperNode
<1> QED
  BY <1>1, <1>2 DEF Proper

LEMMA AddedTree ==
  ASSUME NEW t, IsTree(t), NEW p \in DOMAIN t, t[p].name # "freed",
         NEW node, IsNode(node), node.name # "freed", node.up = p, node.kids = <<>>,
         NEW u, IsAdded(t, p, node, u)
  PROVE  IsTree(u)
<1> DEFINE n == Len(t)
           s == Kids(t, p)
           w == Append(s, n + 1)
           D == DOMAIN u \ {1}
<1>1. /\ n \in Nat /\ DOMAIN t = 1 .. n /\ 1 \in DOMAIN t
      /\ t[1].name = "descriptor" /\ t[1].up = 0
      /\ \A i \in DOMAIN t : IsNode(t[i]) /\ LinksDown(t, i) /\ LinksUp(t, i)
  BY DEF IsTree
<1>2. /\ Len(u) = n + 1 /\ DOMAIN u = 1 .. n + 1
      /\ u[n + 1] = node /\ Kids(u, n + 1) = <<>>
      /\ \A i \in DOMAIN t : i # p => u[i] = t[i] /\ Kids(u, i) = Kids(t, i)
      /\ Kids(u, p) = w
      /\ \A i \in DOMAIN t : IsNode(u[i]) /\ u[i].name = t[i].name /\ u[i].up = t[i].up
  BY <1>1 DEF IsAdded, Kids, IsNode
<1>3. DOMAIN t \ {1} \subseteq D /\ n + 1 \in D /\ p \in 1 .. n
  BY <1>1, <1>2
<1>4. s \in Seq(DOMAIN t \ {1}) /\ \A k \in DOMAIN s : t[s[k]].up = p
  BY <1>1 DEF LinksDown
<1>5. Differ(s)
  BY <1>1 DEF LinksDown, Differ
<1> HIDE DEF s, D
<1>6. s \in Seq(D)
  BY <1>3, <1>4, SeqGrows
<1>7. /\ w \in Seq(D) /\ DOMAIN s = 1 .. Len(s) /\ Len(s) \in Nat
      /\ DOMAIN w = 1 .. Len(s) + 1
      /\ \A k \in 1 .. Len(s) : w[k] = s[k]
      /\ w[Len(s) + 1] = n + 1
  BY <1>3, <1>6
<1>8. \A k \in DOMAIN s : s[k] \in DOMAIN t
  BY <1>4
<1> HIDE DEF w
<1>9. Differ(w)
  <2> SUFFICES ASSUME NEW i \in DOMAIN w, NEW j \in DOMAIN w, i # j PROVE w[i] # w[j]
    BY DEF Differ
  <2>1. \A k \in DOMAIN w : \/ k \in DOMAIN s /\ w[k] = s[k]
                            \/ k = Len(s) + 1 /\ w[k] = n + 1
    BY <1>7
  <2>2. \A k \in DOMAIN s : s[k] # n + 1
    BY <1>1, <1>8
  <2> QED
    BY <1>5, <2>1, <2>2 DEF Differ
<1>10. LinksDown(u, p)
  <2>1. ASSUME NEW k \in DOMAIN w PROVE u[w[k]].up = p
    <3>1. CASE k \in DOMAIN s
      BY <1>2, <1>4, <1>7, <1>8, <3>1
    <3>2. CASE k = Len(s) + 1
      BY <1>2, <1>7, <3>2
    <3> QED
      BY <1>7, <3>1, <3>2
  <2> QED
    BY <1>2, <1>7, <1>9, <2>1 DEF LinksDown, Differ, D
<1>11. ASSUME NEW i \in DOMAIN t, i # p PROVE LinksDown(u, i)
  <2>1. Kids(u, i) = Kids(t, i) /\ LinksDown(t, i)
    BY <1>1, <1>2, <1>11
  <2>2. /\ Kids(t, i) \in Seq(DOMAIN t \ {1})
        /\ \A k \in DOMAIN Kids(t, i) : t[Kids(t, i)[k]].up = i
    BY <2>1 DEF LinksDown
  <2>3. Kids(t, i) \in Seq(D)
    BY <1>3, <2>2, SeqGrows
  <2>4. \A k \in DOMAIN Kids(t, i) : u[Kids(t, i)[k]].up = i
    BY <1>2, <2>2
  <2> QED
    BY <2>1, <2>3, <2>4 DEF LinksDown, D
<1>12. LinksDown(u, n + 1)
  <2>1. <<>> \in Seq(D) /\ DOMAIN <<>> = {}
    OBVIOUS
  <2> QED
    BY <1>2, <2>1 DEF LinksDown, D
<1>13. ASSUME NEW i \in DOMAIN t PROVE LinksUp(u, i)
  <2>1. LinksUp(t, i)
    BY <1>1
  <2>2. t[i].name = "freed" => i # p
    OBVIOUS
  <2>3. ASSUME i # 1, t[i].name # "freed"
        PROVE  u[i].up # 0 /\ \E k \in DOMAIN Kids(u, u[i].up) : Kids(u, u[i].up)[k] = i
    <3>1. PICK k \in DOMAIN Kids(t, t[i].up) : Kids(t, t[i].up)[k] = i
      BY <2>1, <2>3 DEF LinksUp
    <3>2. t[i].up # 0 /\ t[i].up \in DOMAIN t /\ u[i].up = t[i].up
      BY <1>2, <2>3, ParentFacts
    <3>3. CASE t[i].up = p
      <4>1. k \in DOMAIN s /\ k \in 1 .. Len(s) /\ k \in DOMAIN w /\ s[k] = i
        BY <1>7, <3>1, <3>3 DEF s
      <4> QED
        BY <1>2, <1>7, <3>2, <3>3, <4>1
    <3>4. CASE t[i].up # p
      <4>1. Kids(u, t[i].up) = Kids(t, t[i].up)
        BY <1>2, <3>2, <3>4
      <4> QED
        BY <3>1, <3>2, <4>1
    <3> QED
      BY <3>3, <3>4
  <2> QED
    BY <1>2, <2>1, <2>2, <2>3 DEF LinksUp
<1>14. LinksUp(u, n + 1)
  <2>1. u[n + 1].up = p /\ p \in 0 .. (n + 1) - 1 /\ p # 0 /\ u[n + 1].name # "freed"
    BY <1>1, <1>2, <1>3
  <2>2. Len(s) + 1 \in DOMAIN w /\ w[Len(s) + 1] = n + 1
    BY <1>7
  <2> QED
    BY <1>2, <2>1, <2>2 DEF LinksUp
<1>15. ASSUME NEW i \in DOMAIN u PROVE IsNode(u[i]) /\ LinksDown(u, i) /\ LinksUp(u, i)
  <2>1. CASE i = n + 1
    BY <1>2, <1>12, <1>14, <2>1
  <2>2. CASE i \in DOMAIN t
    BY <1>2, <1>10, <1>11, <1>13, <2>2
  <2> QED
    BY <1>1, <1>2, <2>1, <2>2
<1>16. u[1].name = "descriptor" /\ u[1].up = 0 /\ 1 \in DOMAIN u /\ n + 1 \in Nat
  BY <1>1, <1>2
<1> QED
  BY <1>2, <1>15, <1>16 DEF IsTree

(* The open groups when a node is added below the innermost, or is one.     *)
LEMMA AddedOpen ==
  ASSUME NEW t, IsTree(t), NEW p, OpenAt(t, p),
         NEW node, IsNode(node), node.name # "freed", node.up = p, node.kids = <<>>,
         NEW u, IsAdded(t, p, node, u), IsTree(u)
  PROVE  /\ OpenAt(u, p)
         /\ Up(u, p) = Up(t, p)
         /\ Up(u, Len(t) + 1) = {Len(t) + 1} \cup Up(t, p)
         /\ node.name \in GroupNames => OpenAt(u, Len(t) + 1)
<1> DEFINE n == Len(t)
<1>1. /\ n \in Nat /\ DOMAIN t = 1 .. n /\ p \in DOMAIN t /\ t[p].name # "freed" /\ p \in 1 .. n
      /\ DOMAIN u = 1 .. n + 1 /\ Len(u) = n + 1
  BY DEF IsTree, OpenAt, IsAdded
<1>2. /\ u[n + 1] = node
      /\ \A i \in DOMAIN t : u[i].up = t[i].up /\ u[i].name = t[i].name
      /\ \A i \in DOMAIN t : i # p => Kids(u, i) = Kids(t, i)
      /\ Kids(u, p) = Append(Kids(t, p), n + 1)
  BY DEF IsAdded, Kids
<1>3. Up(u, p) = Up(t, p)
  <2>1. \A y \in 1 .. p : u[y].up = t[y].up
    BY <1>1, <1>2
  <2>2. p \in Nat /\ p <= Len(t) /\ p <= Len(u) /\ p \in 0 .. p
    BY <1>1
  <2>3. PathUp(u, p) = PathUp(t, p)
    BY <2>1, <2>2, PathSame
  <2> QED
    BY <2>3 DEF Up
<1>4. ASSUME NEW x \in Up(t, p) \ {1}
      PROVE  u[x].name \in GroupNames /\ IsLast(u, x)
  <2>1. t[x].name \in GroupNames /\ IsLast(t, x) /\ x \in DOMAIN t /\ x \in 1 .. p
    BY <1>1, UpFacts DEF OpenAt
  <2>2. t[x].up \in DOMAIN t /\ t[x].up \in 1 .. x - 1
    BY <2>1, GroupFacts
  <2>3. t[x].up # p /\ u[x].up = t[x].up /\ u[x].name = t[x].name
    BY <1>1, <1>2, <2>1, <2>2
  <2>4. Kids(u, t[x].up) = Kids(t, t[x].up)
    BY <1>2, <2>2, <2>3
  <2> QED
    BY <2>1, <2>3, <2>4 DEF IsLast
<1>5. OpenAt(u, p)
  BY <1>1, <1>2, <1>3, <1>4 DEF OpenAt
<1>6. Up(u, n + 1) = {n + 1} \cup Up(t, p)
  <2>1. n + 1 \in DOMAIN u /\ u[n + 1].name # "freed" /\ u[n + 1].up = p
    BY <1>1, <1>2
  <2>2. Up(u, n + 1) = {n + 1} \cup Up(u, u[n + 1].up)
    BY <2>1, UpFacts
  <2> QED
    BY <1>3, <2>1, <2>2
<1>7. IsLast(u, n + 1)
  <2>1. Kids(t, p) \in Seq(DOMAIN t \ {1})
    BY <1>1 DEF IsTree, LinksDown
  <2> DEFINE k == Append(Kids(t, p), n + 1)
  <2>2. Len(k) > 0 /\ k[Len(k)] = n + 1
    <3> DEFINE s == Kids(t, p)
               D == Nat
    <3>1. s \in Seq(D) /\ n + 1 \in D
      <4>1. DOMAIN t \ {1} \subseteq Nat
        BY <1>1
      <4> QED
        BY <1>1, <2>1, <4>1, SeqGrows
    <3> HIDE DEF s, D
    <3>2. Len(Append(s, n + 1)) = Len(s) + 1 /\ Len(s) \in Nat
          /\ Append(s, n + 1)[Len(s) + 1] = n + 1
      BY <3>1
    <3> QED
      BY <3>2 DEF s
  <2> QED
    BY <1>2, <2>2 DEF IsLast
<1>8. ASSUME node.name \in GroupNames PROVE OpenAt(u, n + 1)
  BY <1>1, <1>2, <1>4, <1>6, <1>7, <1>8 DEF OpenAt
<1> QED
  BY <1>3, <1>5, <1>6, <1>8

(* Breaking the innermost open group leaves those above it open.            *)
SameBelow(t, u, n) ==
    \A y \in 1 .. n : u[y].name = t[y].name /\ u[y].val = t[y].val /\ u[y].up = t[y].up
LEMMA BreakOpen ==
  ASSUME NEW t, IsTree(t), NEW e, OpenAt(t, e), t[e].name \in GroupNames,
         NEW at, NEW u, IsBroken(t, e, at, u)
  PROVE  /\ IsTree(u) /\ Len(u) = Len(t) + 1
         /\ OpenAt(u, t[e].up)
         /\ Up(u, t[e].up) = Up(t, t[e].up)
         /\ SameBelow(t, u, e - 1)
<1> DEFINE p == t[e].up
           n == Len(t)
<1>1. /\ n \in Nat /\ DOMAIN t = 1 .. n /\ e \in 1 .. n /\ e \in DOMAIN t /\ t[e].name # "freed"
      /\ e # 1
  BY GroupFacts DEF IsTree, OpenAt
<1>2. IsTree(u)
  BY <1>1, BreakTree
<1>3. DOMAIN u = 1 .. n + 1 /\ Len(u) = n + 1
  BY DEF IsBroken
<1>4. p \in DOMAIN t /\ p \in 1 .. e - 1 /\ t[p].name # "freed" /\ p # e
  <2>1. p \in DOMAIN t /\ p \in 1 .. e - 1
    BY <1>1, GroupFacts
  <2> QED
    BY <1>1, <2>1, ParentFacts
<1>5. ASSUME NEW y \in 1 .. e - 1
      PROVE  /\ y \in DOMAIN t \ {e} /\ u[y].name = t[y].name /\ u[y].val = t[y].val
             /\ u[y].up = t[y].up
             /\ y # p => Kids(u, y) = Kids(t, y)
  <2>1. y \in DOMAIN t \ {e}
    BY <1>1
  <2>2. t[y].up # e
    <3>1. t[y].up \in 0 .. y - 1
      BY <2>1, ParentFacts
    <3> QED
      BY <1>1, <3>1
  <2> DEFINE kids == IF y = p THEN Inserted(Kids(t, y), at, n + 1, Kids(t, e)) ELSE Kids(t, y)
             up == IF t[y].up = e THEN p ELSE t[y].up
  <2>3. u[y] = [name |-> t[y].name, val |-> t[y].val, ns |-> t[y].ns, up |-> up, kids |-> kids]
    BY <2>1 DEF IsBroken
  <2>4. up = t[y].up /\ (y # p => kids = Kids(t, y))
    BY <2>2
  <2> HIDE DEF up, kids
  <2> QED
    BY <2>1, <2>3, <2>4 DEF Kids
<1>6. Up(u, p) = Up(t, p)
  <2>1. /\ p \in Nat /\ p <= Len(t) /\ p <= Len(u) /\ p \in 0 .. p
        /\ \A y \in 1 .. p : u[y].up = t[y].up
    BY <1>1, <1>3, <1>4, <1>5
  <2>2. PathUp(u, p) = PathUp(t, p)
    BY <1>2, <2>1, PathSame
  <2> QED
    BY <2>2 DEF Up
<1>7. Up(t, p) \subseteq Up(t, e)
  BY <1>1, UpFacts
<1>8. ASSUME NEW x \in Up(t, p) \ {1}
      PROVE  u[x].name \in GroupNames /\ IsLast(u, x)
  <2>1. t[x].name \in GroupNames /\ IsLast(t, x)
    BY <1>7 DEF OpenAt
  <2>2. x \in DOMAIN t /\ x \in 1 .. p
    BY <1>4, UpFacts
  <2>3. t[x].up \in DOMAIN t /\ t[x].up \in 1 .. x - 1
    BY <2>1, <2>2, GroupFacts
  <2>4. x \in 1 .. e - 1 /\ t[x].up \in 1 .. e - 1 /\ t[x].up # p
    BY <1>1, <1>4, <2>2, <2>3
  <2>5. u[x].up = t[x].up /\ u[x].name = t[x].name /\ Kids(u, t[x].up) = Kids(t, t[x].up)
    BY <1>5, <2>4
  <2> QED
    BY <2>1, <2>5 DEF IsLast
<1>9. OpenAt(u, p)
  BY <1>1, <1>3, <1>4, <1>5, <1>6, <1>8 DEF OpenAt
<1> QED
  BY <1>2, <1>3, <1>5, <1>6, <1>9 DEF SameBelow

------------------------------------------------------------------------------
(* Breaking the groups of a branch, one after the other.                    *)
BrokenFun(f, t, es, n) ==
    f = [m \in 0 .. n |-> IF m = 0 THEN t ELSE Break(f[m - 1], es[m])]

LEMMA BrokenFunExists ==
  ASSUME NEW t, NEW es, NEW n \in Nat
  PROVE  \E f : BrokenFun(f, t, es, n)
<1> DEFINE S == {m \in Nat : \E f : BrokenFun(f, t, es, m)}
<1>1. 0 \in S
  <2> DEFINE f == [k \in 0 .. 0 |-> t]
  <2>1. BrokenFun(f, t, es, 0)
    BY DEF BrokenFun
  <2> QED
    BY <2>1
<1>2. ASSUME NEW m \in Nat, m \in S PROVE m + 1 \in S
  <2>1. PICK f : BrokenFun(f, t, es, m)
    BY <1>2
  <2> DEFINE g == [k \in 0 .. m + 1 |-> IF k = m + 1 THEN Break(f[m], es[m + 1]) ELSE f[k]]
             h == [k \in 0 .. m + 1 |-> IF k = 0 THEN t ELSE Break(g[k - 1], es[k])]
  <2>2. ASSUME NEW k \in 0 .. m + 1 PROVE g[k] = h[k]
    <3>1. CASE k = m + 1
      <4>1. k # 0 /\ k - 1 = m /\ m \in 0 .. m + 1 /\ m # m + 1
        BY <3>1
      <4> QED
        BY <3>1, <4>1
    <3>2. CASE k # m + 1
      <4>1. k \in 0 .. m /\ (k = 0 \/ (k - 1 \in 0 .. m + 1 /\ k - 1 # m + 1))
        BY <3>2
      <4>2. f[k] = IF k = 0 THEN t ELSE Break(f[k - 1], es[k])
        BY <2>1, <4>1 DEF BrokenFun
      <4> QED
        BY <3>2, <4>1, <4>2
    <3> QED
      BY <3>1, <3>2
  <2>3. g = h
    BY <2>2
  <2>4. BrokenFun(g, t, es, m + 1)
    BY <2>3 DEF BrokenFun
  <2> QED
    BY <2>4
<1> HIDE DEF S
<1>3. n \in S
  BY <1>1, <1>2, NumberInduction
<1> QED
  BY <1>3 DEF S

LEMMA BreakAllIs ==
  ASSUME NEW t, NEW S, NEW es \in Seq(S)
  PROVE  \E f : /\ BreakAll(t, es) = f[Len(es)]
                /\ f[0] = t
                /\ \A m \in 1 .. Len(es) : f[m] = Break(f[m - 1], es[m])
<1> DEFINE n == Len(es)
           f == CHOOSE g : BrokenFun(g, t, es, n)
<1>1. n \in Nat
  OBVIOUS
<1>2. BrokenFun(f, t, es, n)
  BY <1>1, BrokenFunExists
<1>3. BreakAll(t, es) = f[n]
  BY Zenon DEF BreakAll, BrokenFun
<1> HIDE DEF f, n
<1>4. f[0] = t
  BY <1>1, <1>2 DEF BrokenFun
<1>5. ASSUME NEW m \in 1 .. n PROVE f[m] = Break(f[m - 1], es[m])
  <2>1. m \in 0 .. n /\ m # 0
    BY <1>1
  <2> QED
    BY <1>2, <2>1 DEF BrokenFun
<1> QED
  BY <1>3, <1>4, <1>5 DEF n

(* When the innermost open group is closed, its parent is the innermost.    *)
LEMMA UpOpen ==
  ASSUME NEW t, IsTree(t), NEW e, OpenAt(t, e), e # 1
  PROVE  /\ OpenAt(t, t[e].up)
         /\ Up(t, e) = {e} \cup Up(t, t[e].up)
         /\ e \notin Up(t, t[e].up)
         /\ t[e].name \in GroupNames /\ IsLast(t, e)
<1>1. e \in DOMAIN t /\ t[e].name # "freed" /\ e \in Up(t, e)
  BY UpFacts DEF OpenAt
<1>2. t[e].up \in DOMAIN t /\ t[e].up \in 0 .. e - 1 /\ t[t[e].up].name # "freed"
  BY <1>1, ParentFacts
<1>3. Up(t, e) = {e} \cup Up(t, t[e].up)
  BY <1>1, UpFacts
<1>4. \A y \in Up(t, t[e].up) : y \in 1 .. t[e].up
  BY <1>2, UpFacts
<1>5. e \notin Up(t, t[e].up)
  <2>1. e \in Nat
    BY <1>1 DEF IsTree
  <2> QED
    BY <1>2, <1>4, <2>1
<1> QED
  BY <1>1, <1>2, <1>3, <1>5 DEF OpenAt

LEMMA PathIsSeq ==
  ASSUME NEW t, IsTree(t), NEW e, OpenAt(t, e)
  PROVE  /\ PathUp(t, e) \in Seq(DOMAIN t)
         /\ DOMAIN PathUp(t, e) = 1 .. Len(PathUp(t, e)) /\ Len(PathUp(t, e)) \in Nat
<1>1. e \in DOMAIN t
  BY DEF OpenAt
<1>2. PathUp(t, e) \in Seq(DOMAIN t)
  BY <1>1, PathFacts DEF PathGood, Rising
<1> QED
  BY <1>2

------------------------------------------------------------------------------
(* The children of a node of a tree come after it, and this is all that is  *)
(* needed to say what is inside an element.                                 *)
LEMMA KidFacts ==
  ASSUME NEW t, IsTree(t), NEW e \in DOMAIN t
  PROVE  /\ Len(Kids(t, e)) \in Nat /\ DOMAIN Kids(t, e) = 1 .. Len(Kids(t, e))
         /\ \A i \in DOMAIN Kids(t, e) :
               /\ Kids(t, e)[i] \in DOMAIN t /\ Kids(t, e)[i] # 1
               /\ t[Kids(t, e)[i]].up = e /\ Kids(t, e)[i] \in e + 1 .. Len(t)
               /\ t[Kids(t, e)[i]].name # "freed"
<1> DEFINE s == Kids(t, e)
           D == DOMAIN t \ {1}
<1>1. Len(t) \in Nat /\ DOMAIN t = 1 .. Len(t)
  BY DEF IsTree
<1>2. s \in Seq(D) /\ \A i \in DOMAIN s : t[s[i]].up = e
  BY DEF IsTree, LinksDown
<1> HIDE DEF D, s
<1>3. Len(s) \in Nat /\ DOMAIN s = 1 .. Len(s) /\ \A i \in DOMAIN s : s[i] \in D
  BY <1>2
<1>4. ASSUME NEW i \in DOMAIN s
      PROVE  s[i] \in DOMAIN t /\ s[i] # 1 /\ s[i] \in e + 1 .. Len(t) /\ t[s[i]].name # "freed"
  <2>1. s[i] \in DOMAIN t /\ s[i] # 1
    BY <1>3 DEF D
  <2>2. LinksUp(t, s[i])
    BY <2>1 DEF IsTree
  <2>3. e \in 0 .. s[i] - 1 /\ e # 0 /\ t[s[i]].name # "freed"
    BY <1>1, <1>2, <2>2 DEF LinksUp
  <2> QED
    BY <1>1, <2>1, <2>3
<1> QED
  BY <1>2, <1>3, <1>4 DEF s

LEMMA TreeFalls == \A t : IsTree(t) => Falls(t)
<1> SUFFICES ASSUME NEW t, IsTree(t) PROVE Falls(t)
  OBVIOUS
<1>1. Len(t) \in Nat /\ DOMAIN t = 1 .. Len(t) /\ 1 \in DOMAIN t
  BY DEF IsTree
<1>2. ASSUME NEW e \in DOMAIN t PROVE FallsAt(t, e)
  <2> DEFINE D == DOMAIN t
             C == DOMAIN t \ {1}
  <2>1. Kids(t, e) \in Seq(C) /\ C \subseteq D
    BY DEF IsTree, LinksDown
  <2> HIDE DEF C, D
  <2>2. Kids(t, e) \in Seq(D)
    BY <2>1, SeqGrows
  <2> QED
    BY <2>2, KidFacts DEF FallsAt, D
<1> QED
  BY <1>1, <1>2 DEF Falls

(* What did not change has the same items inside.                           *)
SameNodes(t, o, u, v, A) ==
    \A e \in A :
        /\ e \in DOMAIN t /\ e \in DOMAIN u
        /\ Kids(u, e) = Kids(t, e) /\ u[e].name = t[e].name /\ u[e].val = t[e].val
        /\ e \in o <=> e \in v
        /\ \A i \in DOMAIN Kids(t, e) : Kids(t, e)[i] \in A

LEMMA SameBits ==
  ASSUME NEW t, IsTree(t), NEW o, NEW u, NEW v, NEW A, SameNodes(t, o, u, v, A), NEW e \in A
  PROVE  BitsOf(u, e) = BitsOf(t, e)
<1> DEFINE P == [k \in DOMAIN t |-> IF t[k].name = "text" THEN <<>> ELSE t[k].val]
           Q == [k \in DOMAIN u |-> IF u[k].name = "text" THEN <<>> ELSE u[k].val]
<1>1. e \in DOMAIN t /\ e \in DOMAIN u /\ Kids(u, e) = Kids(t, e)
  BY DEF SameNodes
<1>2. Len(Kids(t, e)) \in Nat /\ DOMAIN Kids(t, e) = 1 .. Len(Kids(t, e))
  BY <1>1, KidFacts
<1>3. ASSUME NEW i \in DOMAIN Kids(t, e) PROVE P[Kids(t, e)[i]] = Q[Kids(t, e)[i]]
  <2> DEFINE k == Kids(t, e)[i]
  <2>1. k \in A
    BY <1>3 DEF SameNodes
  <2>2. k \in DOMAIN t /\ k \in DOMAIN u /\ u[k].name = t[k].name /\ u[k].val = t[k].val
    BY <2>1 DEF SameNodes
  <2> QED
    BY <2>2
<1>4. BitsOf(t, e) = OfKids(t, e, P) /\ BitsOf(u, e) = OfKids(u, e, Q)
  BY DEF BitsOf
<1> HIDE DEF P, Q
<1>5. OfKids(t, e, P) = OfKids(t, e, Q)
  BY <1>2, <1>3, OfKidsSame
<1>6. OfKids(u, e, Q) = OfKids(t, e, Q)
  BY <1>1 DEF OfKids, Kids
<1> QED
  BY <1>4, <1>5, <1>6

LEMMA SameNodeItems ==
  ASSUME NEW t, NEW o, NEW u, NEW v, NEW k, NEW x, u[k].name = t[k].name, u[k].val = t[k].val,
         BitsOf(u, k) = BitsOf(t, k), k \in o <=> k \in v
  PROVE  NodeItems(u, v, k, x) = NodeItems(t, o, k, x)
<1>1. /\ ItemOf(u[k], BitsOf(u, k)) = ItemOf(t[k], BitsOf(t, k))
      /\ StartItem(u[k]) = StartItem(t[k]) /\ EndItem(u[k]) = EndItem(t[k])
  BY DEF ItemOf, StartItem, EndItem
<1> QED
  BY <1>1 DEF NodeItems

LEMMA SameInside ==
  ASSUME NEW t, IsTree(t), NEW o, NEW u, IsTree(u), NEW v, NEW A, SameNodes(t, o, u, v, A)
  PROVE  \A e \in A : /\ Inside(u, v)[e] = Inside(t, o)[e]
                      /\ Part(u, v, e) = Part(t, o, e)
<1> DEFINE K == {e \in DOMAIN t : e \in A => Inside(u, v)[e] = Inside(t, o)[e]}
<1>1. ASSUME NEW e \in DOMAIN t, \A i \in DOMAIN Kids(t, e) : Kids(t, e)[i] \in K
      PROVE  e \in K
  <2> SUFFICES ASSUME e \in A PROVE Inside(u, v)[e] = Inside(t, o)[e]
    OBVIOUS
  <2> DEFINE n == Len(Kids(t, e))
             R == RowOf(t, o, e)
             Q == RowOf(u, v, e)
  <2>1. n \in Nat /\ DOMAIN Kids(t, e) = 1 .. n /\ e \in DOMAIN u /\ Kids(u, e) = Kids(t, e)
    BY KidFacts DEF SameNodes
  <2>2. ASSUME NEW i \in 1 .. n PROVE R[i] = Q[i]
    <3> DEFINE k == Kids(t, e)[i]
    <3>1. k \in A /\ k \in K
      BY <1>1, <2>1 DEF SameNodes
    <3>2. Inside(u, v)[k] = Inside(t, o)[k]
      BY <3>1
    <3>3. u[k].name = t[k].name /\ u[k].val = t[k].val /\ (k \in o <=> k \in v)
      BY <3>1 DEF SameNodes
    <3>4. BitsOf(u, k) = BitsOf(t, k)
      BY <3>1, SameBits
    <3> HIDE DEF k
    <3>5. Part(u, v, k) = Part(t, o, k)
      BY <3>2, <3>3, <3>4, SameNodeItems DEF Part
    <3> QED
      BY <2>1, <3>5 DEF k, RowOf
  <2> HIDE DEF R, Q
  <2>3. Joined(R, n) = Joined(Q, n)
    BY <2>1, <2>2, JoinedSame
  <2>4. Inside(t, o)[e] = Joined(R, n) /\ Inside(u, v)[e] = Joined(Q, n)
    BY <2>1, TreeFalls, InsideDef DEF R, Q
  <2> QED
    BY <2>3, <2>4
<1> HIDE DEF K
<1>2. \A e \in DOMAIN t : e \in K
  BY <1>1, TreeFalls, DownInduction
<1>3. ASSUME NEW e \in A PROVE Inside(u, v)[e] = Inside(t, o)[e]
  BY <1>2 DEF K, SameNodes
<1>4. ASSUME NEW e \in A PROVE Part(u, v, e) = Part(t, o, e)
  <2>1. u[e].name = t[e].name /\ u[e].val = t[e].val /\ (e \in o <=> e \in v)
    BY DEF SameNodes
  <2>2. BitsOf(u, e) = BitsOf(t, e)
    BY SameBits
  <2> QED
    BY <1>3, <2>1, <2>2, SameNodeItems DEF Part
<1> QED
  BY <1>3, <1>4

------------------------------------------------------------------------------
(* The open groups are the path to where items go; what is added there is   *)
(* added after all the items of the document.                               *)
LEMMA UpClosed ==
  ASSUME NEW t, IsTree(t), NEW p, OpenAt(t, p), NEW x \in Up(t, p), x # 1
  PROVE  t[x].up \in Up(t, p)
<1> DEFINE path == PathUp(t, p)
<1>1. p \in DOMAIN t /\ t[p].name # "freed" /\ p # 0
  BY DEF OpenAt, IsTree
<1>2. /\ DOMAIN path = 1 .. Len(path) /\ Len(path) \in Nat
      /\ path[Len(path)] = 1 /\ \A i \in 1 .. Len(path) - 1 : path[i + 1] = t[path[i]].up
  BY <1>1, PathFacts, PathIsSeq DEF PathGood, Rising, ToRoot
<1>3. PICK i \in DOMAIN path : path[i] = x
  BY DEF Up
<1> HIDE DEF path
<1>4. i \in 1 .. Len(path) - 1 /\ i + 1 \in DOMAIN path
  BY <1>2, <1>3
<1>5. path[i + 1] = t[x].up
  BY <1>2, <1>3, <1>4
<1> QED
  BY <1>4, <1>5 DEF Up, path

(* A child on the path is the last one, and one of p is not on it.          *)
LEMMA OffPath ==
  ASSUME NEW t, IsTree(t), NEW p, OpenAt(t, p), NEW x \in Up(t, p),
         NEW i \in DOMAIN Kids(t, x), x = p \/ i # Len(Kids(t, x))
  PROVE  Kids(t, x)[i] \in DOMAIN t \ Up(t, p)
<1> DEFINE k == Kids(t, x)[i]
<1>1. p \in DOMAIN t /\ t[p].name # "freed"
  BY DEF OpenAt
<1>2. x \in DOMAIN t /\ x \in 1 .. p
  BY <1>1, UpFacts
<1>3. k \in DOMAIN t /\ k # 1 /\ t[k].up = x /\ k \in x + 1 .. Len(t)
  BY <1>2, KidFacts
<1>4. ASSUME k \in Up(t, p) PROVE FALSE
  <2>1. k \in 1 .. p
    BY <1>1, <1>4, UpFacts
  <2>2. CASE x = p
    <3>1. p \in Nat /\ Len(t) \in Nat
      BY <1>1 DEF IsTree
    <3> QED
      BY <1>3, <2>1, <2>2, <3>1
  <2>3. CASE i # Len(Kids(t, x))
    <3>1. Len(Kids(t, x)) > 0 /\ Kids(t, x)[Len(Kids(t, x))] = k
      BY <1>3, <1>4 DEF OpenAt, IsLast
    <3>2. Len(Kids(t, x)) \in DOMAIN Kids(t, x)
      BY <1>2, <3>1, KidFacts
    <3>3. \A a, b \in DOMAIN Kids(t, x) : a # b => Kids(t, x)[a] # Kids(t, x)[b]
      BY <1>2 DEF IsTree, LinksDown
    <3> QED
      BY <2>3, <3>1, <3>2, <3>3
  <2> QED
    BY <2>2, <2>3
<1> QED
  BY <1>3, <1>4

(* What is not on the path keeps its items inside.                          *)
LEMMA OffPathClosed ==
  ASSUME NEW t, IsTree(t), NEW p, OpenAt(t, p), NEW e \in DOMAIN t \ Up(t, p),
         NEW i \in DOMAIN Kids(t, e)
  PROVE  Kids(t, e)[i] \in DOMAIN t \ Up(t, p)
<1>1. Kids(t, e)[i] \in DOMAIN t /\ Kids(t, e)[i] # 1 /\ t[Kids(t, e)[i]].up = e
  BY KidFacts
<1> QED
  BY <1>1, UpClosed

(* The items inside gain n at the end.                                      *)
Gains(t, o, u, v, e, n) == Inside(u, v)[e] = Inside(t, o)[e] \o n

LEMMA LastGains ==
  ASSUME NEW t, IsTree(t), NEW o, NEW u, IsTree(u), NEW v, NEW n, IsSeq(n),
         NEW x \in DOMAIN t, x \in DOMAIN u, Kids(u, x) = Kids(t, x),
         NEW k \in Nat, Len(Kids(t, x)) = k + 1,
         \A i \in 1 .. k : Part(u, v, Kids(t, x)[i]) = Part(t, o, Kids(t, x)[i]),
         Part(u, v, Kids(t, x)[k + 1]) = Part(t, o, Kids(t, x)[k + 1]) \o n
  PROVE  Gains(t, o, u, v, x, n)
<1> DEFINE R == RowOf(t, o, x)
           Q == RowOf(u, v, x)
<1>1. /\ \A i \in 1 .. k + 1 : IsSeq(R[i]) /\ R[i] = Part(t, o, Kids(t, x)[i])
      /\ \A i \in 1 .. k + 1 : Q[i] = Part(u, v, Kids(t, x)[i])
  <2>1. /\ \A i \in 1 .. Len(Kids(t, x)) : IsSeq(R[i])
        /\ \A i \in 1 .. Len(Kids(t, x)) : R[i] = Part(t, o, Kids(t, x)[i])
    BY TreeFalls, RowIsSeqs
  <2>2. \A i \in 1 .. Len(Kids(u, x)) : Q[i] = Part(u, v, Kids(u, x)[i])
    BY TreeFalls, RowIsSeqs
  <2> QED
    BY <2>1, <2>2
<1>2. Inside(t, o)[x] = Joined(R, k + 1) /\ Inside(u, v)[x] = Joined(Q, k + 1)
  BY TreeFalls, InsideDef
<1> HIDE DEF R, Q
<1>3. \A i \in 1 .. k : i \in 1 .. k + 1
  OBVIOUS
<1>4. Joined(R, k) = Joined(Q, k) /\ IsSeq(Joined(R, k))
  BY <1>1, <1>3, JoinedSame, JoinedIsSeq
<1>5. k + 1 \in 1 .. k + 1
  OBVIOUS
<1>6. Joined(R, k + 1) = Joined(R, k) \o R[k + 1] /\ Joined(Q, k + 1) = Joined(Q, k) \o Q[k + 1]
  BY JoinedNext
<1>7. Q[k + 1] = R[k + 1] \o n /\ IsSeq(R[k + 1])
  BY <1>1, <1>5
<1>8. Joined(R, k) \o (R[k + 1] \o n) = (Joined(R, k) \o R[k + 1]) \o n
  <2> DEFINE a == Joined(R, k)
             b == R[k + 1]
  <2>1. IsSeq(a) /\ IsSeq(b)
    BY <1>4, <1>7
  <2> HIDE DEF a, b
  <2>2. (a \o b) \o n = a \o (b \o n)
    BY <2>1, ConcatAssoc
  <2> QED
    BY <2>2 DEF a, b
<1> QED
  BY <1>2, <1>4, <1>6, <1>7, <1>8 DEF Gains

LEMMA OpenPart ==
  ASSUME NEW t, NEW o, NEW k \in o, t[k].name \in GroupNames, NEW a, IsSeq(a)
  PROVE  NodeItems(t, o, k, a) = <<StartItem(t[k])>> \o a
<1> DEFINE s == <<StartItem(t[k])>>
<1>1. IsSeq(s) /\ t[k].name # "text"
  BY ShortSeqs DEF GroupNames
<1>2. NodeItems(t, o, k, a) = s \o a \o <<>>
  BY <1>1 DEF NodeItems
<1> HIDE DEF s
<1>3. IsSeq(s \o a)
  BY <1>1, ConcatIsSeq
<1>4. s \o a \o <<>> = s \o a
  BY <1>3, ConcatEmpty
<1> QED
  BY <1>2, <1>4 DEF s

(* The nodes above p, but for what is inside p, are as they were.           *)
PathKept(t, o, u, v, A, p) ==
    \A y \in Up(t, p) \ {1} :
        /\ y \in o /\ y \in v
        /\ u[y].name = t[y].name /\ u[y].val = t[y].val
        /\ t[y].up \in DOMAIN u
        /\ Kids(u, t[y].up) = Kids(t, t[y].up)
        /\ \A i \in 1 .. Len(Kids(t, t[y].up)) - 1 : Kids(t, t[y].up)[i] \in A

LEMMA StepUp ==
  ASSUME NEW t, IsTree(t), NEW o, NEW u, IsTree(u), NEW v, NEW A, SameNodes(t, o, u, v, A),
         NEW n, IsSeq(n), NEW p, OpenAt(t, p), PathKept(t, o, u, v, A, p),
         NEW y \in Up(t, p) \ {1}, Gains(t, o, u, v, y, n)
  PROVE  Gains(t, o, u, v, t[y].up, n)
<1> DEFINE x == t[y].up
           k == Len(Kids(t, x)) - 1
<1>1. t[y].name \in GroupNames /\ IsLast(t, y) /\ y \in DOMAIN t
  BY UpFacts DEF OpenAt
<1>2. x \in DOMAIN t
  BY <1>1, GroupFacts
<1>3. k \in Nat /\ Len(Kids(t, x)) = k + 1 /\ Kids(t, x)[k + 1] = y
  <2>1. Len(Kids(t, x)) \in Nat
    BY <1>2, KidFacts
  <2> QED
    BY <1>1, <2>1 DEF IsLast
<1>4. /\ y \in o /\ y \in v /\ u[y].name = t[y].name /\ u[y].val = t[y].val
      /\ x \in DOMAIN u /\ Kids(u, x) = Kids(t, x)
      /\ \A i \in 1 .. k : Kids(t, x)[i] \in A
  BY DEF PathKept
<1> HIDE DEF x, k
<1>5. \A i \in 1 .. k : Part(u, v, Kids(t, x)[i]) = Part(t, o, Kids(t, x)[i])
  BY <1>4, SameInside
<1> DEFINE a == Inside(t, o)[y]
           b == Inside(u, v)[y]
           s == <<StartItem(t[y])>>
<1>6. b = a \o n /\ IsSeq(a) /\ IsSeq(s)
  BY <1>1, TreeFalls, InsideIsSeq, ShortSeqs DEF Gains
<1>7. IsSeq(b)
  BY <1>6, ConcatIsSeq
<1>8. StartItem(u[y]) = StartItem(t[y])
  BY <1>4 DEF StartItem
<1>9. Part(t, o, y) = s \o a
  BY <1>1, <1>4, <1>6, OpenPart DEF Part
<1>10. Part(u, v, y) = s \o b
  <2>1. u[y].name \in GroupNames /\ y \in v
    BY <1>1, <1>4
  <2>2. NodeItems(u, v, y, b) = <<StartItem(u[y])>> \o b
    <3> HIDE DEF b
    <3> QED
      BY <1>7, <2>1, OpenPart
  <2> QED
    BY <1>8, <2>2 DEF Part
<1> HIDE DEF a, b, s
<1>11. s \o (a \o n) = (s \o a) \o n
  BY <1>6, ConcatAssoc, SMTT(30)
<1>12. Part(u, v, y) = Part(t, o, y) \o n
  BY <1>6, <1>9, <1>10, <1>11
<1>13. Gains(t, o, u, v, x, n)
  BY <1>2, <1>3, <1>4, <1>5, <1>12, LastGains
<1> QED
  BY <1>13 DEF x

LEMMA PathGains ==
  ASSUME NEW t, IsTree(t), NEW o, NEW u, IsTree(u), NEW v, NEW A, SameNodes(t, o, u, v, A),
         NEW n, IsSeq(n), NEW p, OpenAt(t, p), PathKept(t, o, u, v, A, p),
         Gains(t, o, u, v, p, n)
  PROVE  Items(u, v) = Items(t, o) \o n
<1> DEFINE path == PathUp(t, p)
           m == Len(path)
<1>1. p \in DOMAIN t /\ t[p].name # "freed" /\ p # 0
  BY DEF OpenAt, IsTree
<1>2. /\ DOMAIN path = 1 .. m /\ m \in Nat /\ m > 0 /\ path[1] = p /\ path[m] = 1
      /\ \A i, j \in DOMAIN path : i < j => path[j] < path[i]
      /\ \A i \in 1 .. m - 1 : path[i + 1] = t[path[i]].up
  BY <1>1, PathFacts, PathIsSeq DEF PathGood, Rising, ToRoot
<1>3. \A i \in DOMAIN path : path[i] \in Up(t, p)
  BY DEF Up
<1> DEFINE K == {i \in Nat : i \in 1 .. m => Gains(t, o, u, v, path[i], n)}
<1> HIDE DEF path, m
<1>4. 0 \in K
  OBVIOUS
<1>5. ASSUME NEW i \in Nat, i \in K PROVE i + 1 \in K
  <2> SUFFICES ASSUME i + 1 \in 1 .. m PROVE Gains(t, o, u, v, path[i + 1], n)
    OBVIOUS
  <2>1. CASE i = 0
    BY <1>2, <2>1
  <2>2. CASE i # 0
    <3>1. i \in 1 .. m - 1 /\ i \in DOMAIN path /\ m \in DOMAIN path /\ i < m
      BY <1>2, <2>2
    <3>2. path[i + 1] = t[path[i]].up /\ path[m] < path[i] /\ path[m] = 1
      BY <1>2, <3>1
    <3>3. path[i] \in Up(t, p) \ {1}
      BY <1>3, <3>1, <3>2
    <3>4. Gains(t, o, u, v, path[i], n)
      BY <1>2, <1>5, <3>1
    <3>5. Gains(t, o, u, v, t[path[i]].up, n)
      BY <3>3, <3>4, StepUp
    <3> QED
      BY <3>2, <3>5
  <2> QED
    BY <2>1, <2>2
<1> HIDE DEF K
<1>6. m \in K
  BY <1>2, <1>4, <1>5, NumberInduction
<1>7. Gains(t, o, u, v, 1, n)
  BY <1>2, <1>6 DEF K
<1> QED
  BY <1>7, TreeFalls, InsideDef DEF Gains

(* A node that is added, with what may be in it already.                    *)
Extended(t, p, u) ==
    /\ IsTree(u) /\ Len(t) + 1 \in DOMAIN u
    /\ \A i \in DOMAIN t : /\ i \in DOMAIN u
                           /\ u[i].name = t[i].name /\ u[i].val = t[i].val
                           /\ i # p => Kids(u, i) = Kids(t, i)
    /\ Kids(u, p) = Append(Kids(t, p), Len(t) + 1)

LEMMA ExtendedItems ==
  ASSUME NEW t, IsTree(t), NEW p, OpenAt(t, p), NEW u, Extended(t, p, u),
         NEW v, \A i \in DOMAIN t : i \in v <=> i \in Up(t, p)
  PROVE  Items(u, v) = Items(t, Up(t, p)) \o Part(u, v, Len(t) + 1)
<1> DEFINE o == Up(t, p)
           A == DOMAIN t \ Up(t, p)
           z == Len(t) + 1
           n == Part(u, v, z)
           k == Len(Kids(t, p))
<1>1. p \in DOMAIN t /\ t[p].name # "freed" /\ p \in o
  BY UpFacts DEF OpenAt
<1>2. /\ IsTree(u) /\ z \in DOMAIN u
      /\ \A i \in DOMAIN t : /\ i \in DOMAIN u
                             /\ u[i].name = t[i].name /\ u[i].val = t[i].val
                             /\ i # p => Kids(u, i) = Kids(t, i)
      /\ Kids(u, p) = Append(Kids(t, p), z)
  BY DEF Extended
<1>3. SameNodes(t, o, u, v, A)
  <2>1. ASSUME NEW e \in A
        PROVE  /\ e \in DOMAIN t /\ e \in DOMAIN u
               /\ Kids(u, e) = Kids(t, e) /\ u[e].name = t[e].name /\ u[e].val = t[e].val
               /\ e \in o <=> e \in v
    BY <1>1, <1>2
  <2>2. ASSUME NEW e \in A, NEW i \in DOMAIN Kids(t, e) PROVE Kids(t, e)[i] \in A
    BY OffPathClosed
  <2> QED
    BY <2>1, <2>2 DEF SameNodes
<1>A. \A e \in A : Part(u, v, e) = Part(t, o, e)
  <2>1. IsTree(u)
    BY <1>2
  <2> HIDE DEF o, A
  <2> QED
    BY <1>3, <2>1, SameInside
<1>4. IsSeq(n)
  BY <1>2, TreeFalls, InsideIsSeq
<1>5. k \in Nat /\ DOMAIN Kids(t, p) = 1 .. k /\ IsSeq(Kids(t, p))
  <2>1. Kids(t, p) \in Seq(DOMAIN t \ {1})
    BY <1>1 DEF IsTree, LinksDown
  <2> QED
    BY <1>1, <2>1, KidFacts, SeqIsSeq
<1>6. /\ Len(Kids(u, p)) = k + 1 /\ Kids(u, p)[k + 1] = z
      /\ \A i \in 1 .. k : Kids(u, p)[i] = Kids(t, p)[i]
  BY <1>2, <1>5, AppendedTo
<1>7. Gains(t, o, u, v, p, n)
  <2> DEFINE R == RowOf(t, o, p)
             Q == RowOf(u, v, p)
  <2>1. \A i \in 1 .. k : R[i] = Part(t, o, Kids(t, p)[i])
    BY <1>1, TreeFalls, RowIsSeqs
  <2>2. \A i \in 1 .. k + 1 : Q[i] = Part(u, v, Kids(u, p)[i])
    BY <1>1, <1>2, <1>6, TreeFalls, RowIsSeqs
  <2>3. Inside(t, o)[p] = Joined(R, k) /\ Inside(u, v)[p] = Joined(Q, k + 1)
    BY <1>1, <1>2, <1>6, TreeFalls, InsideDef
  <2> HIDE DEF R, Q
  <2>4. ASSUME NEW i \in 1 .. k PROVE R[i] = Q[i]
    <3>1. Kids(t, p)[i] \in A
      BY <1>1, <1>5, OffPath
    <3>2. Part(u, v, Kids(t, p)[i]) = Part(t, o, Kids(t, p)[i])
      BY <1>A, <3>1
    <3>3. i \in 1 .. k + 1
      BY <1>5
    <3> QED
      BY <1>6, <2>1, <2>2, <3>2, <3>3
  <2>5. Joined(R, k) = Joined(Q, k)
    BY <1>5, <2>4, JoinedSame
  <2>6. Joined(Q, k + 1) = Joined(Q, k) \o Q[k + 1]
    BY <1>5, JoinedNext
  <2>7. Q[k + 1] = n
    BY <1>5, <1>6, <2>2
  <2> QED
    BY <2>3, <2>5, <2>6, <2>7 DEF Gains
<1>8. PathKept(t, o, u, v, A, p)
  <2> SUFFICES ASSUME NEW y \in Up(t, p) \ {1}
               PROVE  /\ y \in o /\ y \in v
                      /\ u[y].name = t[y].name /\ u[y].val = t[y].val
                      /\ t[y].up \in DOMAIN u
                      /\ Kids(u, t[y].up) = Kids(t, t[y].up)
                      /\ \A i \in 1 .. Len(Kids(t, t[y].up)) - 1 : Kids(t, t[y].up)[i] \in A
    BY DEF PathKept
  <2>1. y \in DOMAIN t /\ y \in 1 .. p /\ t[y].name \in GroupNames
    BY <1>1, UpFacts DEF OpenAt
  <2>2. t[y].up \in DOMAIN t /\ t[y].up \in 1 .. y - 1 /\ t[y].up \in Up(t, p)
    BY <2>1, GroupFacts, UpClosed
  <2>3. t[y].up # p
    BY <2>1, <2>2
  <2>4. ASSUME NEW i \in 1 .. Len(Kids(t, t[y].up)) - 1 PROVE Kids(t, t[y].up)[i] \in A
    <3>1. i \in DOMAIN Kids(t, t[y].up) /\ i # Len(Kids(t, t[y].up))
      BY <2>2, KidFacts
    <3> QED
      BY <2>2, <3>1, OffPath
  <2> QED
    BY <1>2, <2>1, <2>2, <2>3, <2>4
<1> HIDE DEF o, A, n
<1>9. Items(u, v) = Items(t, o) \o n
  BY <1>2, <1>3, <1>4, <1>7, <1>8, PathGains
<1> QED
  BY <1>9 DEF o, n

(* The end of a group that is the innermost open one.                       *)
LEMMA ClosedItems ==
  ASSUME NEW t, IsTree(t), NEW g, OpenAt(t, g), t[g].name \in GroupNames
  PROVE  Items(t, Up(t, t[g].up)) = Items(t, Up(t, g)) \o <<EndItem(t[g])>>
<1> DEFINE p == t[g].up
           o == Up(t, g)
           v == Up(t, t[g].up)
           A == DOMAIN t \ Up(t, g)
           n == <<EndItem(t[g])>>
           k == Len(Kids(t, p)) - 1
<1>1. g \in DOMAIN t /\ t[g].name # "freed" /\ g # 1
  BY GroupFacts DEF OpenAt
<1>2. OpenAt(t, p) /\ o = {g} \cup v /\ g \notin v /\ IsLast(t, g)
  BY <1>1, UpOpen
<1>3. p \in DOMAIN t /\ p \in v
  <2>1. p \in DOMAIN t /\ t[p].name # "freed"
    BY <1>2 DEF OpenAt
  <2> QED
    BY <2>1, UpFacts
<1>4. SameNodes(t, o, t, v, A)
  <2>1. ASSUME NEW e \in A, NEW i \in DOMAIN Kids(t, e) PROVE Kids(t, e)[i] \in A
    BY OffPathClosed
  <2> QED
    BY <1>2, <2>1 DEF SameNodes
<1>A. \A e \in A : Part(t, v, e) = Part(t, o, e)
  <2> HIDE DEF o, v, A
  <2> QED
    BY <1>4, SameInside
<1>5. IsSeq(n)
  BY ShortSeqs
<1>6. k \in Nat /\ Len(Kids(t, p)) = k + 1 /\ Kids(t, p)[k + 1] = g
  <2>1. Len(Kids(t, p)) \in Nat
    BY <1>3, KidFacts
  <2> QED
    BY <1>2, <2>1 DEF IsLast
<1>7. \A i \in 1 .. k : Kids(t, p)[i] \in A
  <2> TAKE i \in 1 .. k
  <2>1. i \in DOMAIN Kids(t, p) /\ i # Len(Kids(t, p))
    BY <1>3, <1>6, KidFacts
  <2> QED
    BY <1>2, <1>3, <2>1, OffPath
<1>8. \A i \in 1 .. k : Part(t, v, Kids(t, p)[i]) = Part(t, o, Kids(t, p)[i])
  BY <1>7, <1>A
<1>9. Inside(t, v)[g] = Inside(t, o)[g]
  <2> DEFINE R == RowOf(t, o, g)
             Q == RowOf(t, v, g)
             m == Len(Kids(t, g))
  <2>1. /\ m \in Nat /\ DOMAIN Kids(t, g) = 1 .. m
        /\ \A i \in 1 .. m : R[i] = Part(t, o, Kids(t, g)[i])
        /\ \A i \in 1 .. m : Q[i] = Part(t, v, Kids(t, g)[i])
    BY <1>1, KidFacts, TreeFalls, RowIsSeqs
  <2>2. Inside(t, o)[g] = Joined(R, m) /\ Inside(t, v)[g] = Joined(Q, m)
    BY <1>1, TreeFalls, InsideDef
  <2> HIDE DEF R, Q
  <2>3. ASSUME NEW i \in 1 .. m PROVE R[i] = Q[i]
    <3>1. Kids(t, g)[i] \in A
      BY <1>2, <2>1, OffPath
    <3> QED
      BY <1>A, <2>1, <3>1
  <2> QED
    BY <2>1, <2>2, <2>3, JoinedSame
<1>10. Part(t, v, g) = Part(t, o, g) \o n
  <2> DEFINE a == Inside(t, o)[g]
             s == <<StartItem(t[g])>>
  <2>1. IsSeq(a) /\ IsSeq(s) /\ t[g].name # "text"
    BY <1>1, TreeFalls, InsideIsSeq, ShortSeqs DEF GroupNames
  <2>2. Part(t, o, g) = s \o a
    BY <1>2, <2>1, OpenPart DEF Part
  <2>3. Part(t, v, g) = s \o a \o n
    BY <1>2, <1>9, <2>1 DEF Part, NodeItems
  <2> QED
    BY <2>2, <2>3
<1>11. PathKept(t, o, t, v, A, p)
  <2> SUFFICES ASSUME NEW y \in Up(t, p) \ {1}
               PROVE  /\ y \in o /\ y \in v
                      /\ t[y].up \in DOMAIN t
                      /\ \A i \in 1 .. Len(Kids(t, t[y].up)) - 1 : Kids(t, t[y].up)[i] \in A
    BY DEF PathKept
  <2>1. y \in DOMAIN t /\ t[y].name \in GroupNames /\ y \in Up(t, g)
    BY <1>2, <1>3, UpFacts DEF OpenAt
  <2>2. t[y].up \in DOMAIN t /\ t[y].up \in Up(t, g)
    BY <2>1, GroupFacts, UpClosed
  <2>3. ASSUME NEW i \in 1 .. Len(Kids(t, t[y].up)) - 1 PROVE Kids(t, t[y].up)[i] \in A
    <3>1. i \in DOMAIN Kids(t, t[y].up) /\ i # Len(Kids(t, t[y].up))
      BY <2>2, KidFacts
    <3> QED
      BY <2>2, <3>1, OffPath
  <2> QED
    BY <1>2, <2>2, <2>3
<1> HIDE DEF p, o, v, A, n, k
<1>12. Gains(t, o, t, v, p, n)
  BY <1>3, <1>5, <1>6, <1>8, <1>10, LastGains
<1>13. OpenAt(t, p)
  BY <1>2
<1>14. Items(t, v) = Items(t, o) \o n
  BY <1>4, <1>5, <1>11, <1>12, <1>13, PathGains
<1> QED
  BY <1>14 DEF o, v, p, n

(* The start element that takes the place of a broken group is its start.   *)
LEMMA StartIsItem ==
  ASSUME NEW m, NEW x, NEW bits, m.name \in GroupNames, x.name = StartName(m.name),
         x.val = StartVal(m.name, m.val)
  PROVE  x.name \notin GroupNames /\ x.name # "text" /\ ItemOf(x, bits) = StartItem(m)
<1>1. CASE m.name = "COLLECTION"
  BY <1>1 DEF StartName, StartVal, ItemOf, StartItem, GroupNames
<1>2. CASE m.name = "PUSH"
  BY <1>2 DEF StartName, StartVal, ItemOf, StartItem, GroupNames
<1>3. CASE m.name = "SET"
  <2>1. x.name = "delimiter" /\ x.val = <<1>>
    BY <1>3 DEF StartName, StartVal
  <2> QED
    BY <1>3, <2>1 DEF ItemOf, StartItem, GroupNames
<1> QED
  BY <1>1, <1>2, <1>3 DEF GroupNames

(* Breaking the innermost open group changes none of the items.             *)
LEMMA BrokenItems ==
  ASSUME NEW t, IsTree(t), NEW e, OpenAt(t, e), t[e].name \in GroupNames,
         NEW at, NEW u, IsBroken(t, e, at, u)
  PROVE  Items(u, Up(t, t[e].up)) = Items(t, Up(t, e))
<1> DEFINE p == t[e].up
           o == Up(t, e)
           v == Up(t, t[e].up)
           A == DOMAIN t \ Up(t, e)
           z == Len(t) + 1
           k == Len(Kids(t, p)) - 1
           m == Len(Kids(t, e))
<1>1. e \in DOMAIN t /\ t[e].name # "freed" /\ e # 1 /\ Len(t) \in Nat /\ DOMAIN t = 1 .. Len(t)
  BY GroupFacts DEF OpenAt, IsTree
<1>2. OpenAt(t, p) /\ o = {e} \cup v /\ e \notin v /\ IsLast(t, e)
  BY <1>1, UpOpen
<1>3. p \in DOMAIN t /\ p \in v /\ p \in 1 .. e - 1
  <2>1. p \in DOMAIN t /\ t[p].name # "freed"
    BY <1>2 DEF OpenAt
  <2> QED
    BY <1>1, <2>1, UpFacts, GroupFacts
<1>4. IsTree(u)
  BY <1>1, BreakTree
<1>5. /\ at \in DOMAIN Kids(t, p) /\ Kids(t, p)[at] = e
      /\ z \in DOMAIN u /\ u[z].name = StartName(t[e].name)
      /\ u[z].val = StartVal(t[e].name, t[e].val)
      /\ \A i \in DOMAIN t \ {e} : /\ i \in DOMAIN u
                                   /\ u[i].name = t[i].name /\ u[i].val = t[i].val
                                   /\ i # p => Kids(u, i) = Kids(t, i)
      /\ Kids(u, p) = Inserted(Kids(t, p), at, z, Kids(t, e))
  <2>1. p # e
    BY <1>1, <1>3
  <2>2. at \in DOMAIN Kids(t, p) /\ Kids(t, p)[at] = e
    BY DEF IsBroken
  <2>3. /\ DOMAIN u = 1 .. z
        /\ u[z].name = StartName(t[e].name) /\ u[z].val = StartVal(t[e].name, t[e].val)
    BY DEF IsBroken
  <2>4. ASSUME NEW i \in DOMAIN t \ {e}
        PROVE  /\ i \in DOMAIN u
               /\ u[i].name = t[i].name /\ u[i].val = t[i].val
               /\ u[i].kids = IF i = p THEN Inserted(Kids(t, i), at, z, Kids(t, e))
                              ELSE Kids(t, i)
    <3> DEFINE up == IF t[i].up = e THEN t[e].up ELSE t[i].up
               kids == IF i = t[e].up THEN Inserted(Kids(t, i), at, Len(t) + 1, Kids(t, e))
                       ELSE Kids(t, i)
    <3>1. u[i] = [name |-> t[i].name, val |-> t[i].val, ns |-> t[i].ns,
                  up |-> up, kids |-> kids]
      BY DEF IsBroken
    <3> HIDE DEF up, kids
    <3>2. u[i].name = t[i].name /\ u[i].val = t[i].val /\ u[i].kids = kids
      BY <3>1
    <3>3. i \in DOMAIN u
      BY <1>1, <2>3
    <3> QED
      BY <3>2, <3>3 DEF kids
  <2> HIDE DEF p, z
  <2> QED
    BY <1>1, <1>3, <2>1, <2>2, <2>3, <2>4 DEF Kids, z
<1>6. k \in Nat /\ Len(Kids(t, p)) = k + 1 /\ Kids(t, p)[k + 1] = e /\ at = k + 1
  <2>1. Len(Kids(t, p)) \in Nat /\ DOMAIN Kids(t, p) = 1 .. Len(Kids(t, p))
    BY <1>3, KidFacts
  <2>2. k \in Nat /\ Len(Kids(t, p)) = k + 1 /\ Kids(t, p)[k + 1] = e
    BY <1>2, <2>1 DEF IsLast
  <2>3. \A a, b \in DOMAIN Kids(t, p) : a # b => Kids(t, p)[a] # Kids(t, p)[b]
    BY <1>3 DEF IsTree, LinksDown
  <2> QED
    BY <1>5, <2>1, <2>2, <2>3
<1>7. /\ m \in Nat /\ Len(Kids(u, p)) = (k + 1) + m
      /\ \A i \in 1 .. k : Kids(u, p)[i] = Kids(t, p)[i]
      /\ Kids(u, p)[k + 1] = z
      /\ \A i \in 1 .. m : Kids(u, p)[(k + 1) + i] = Kids(t, e)[i]
  <2> DEFINE D == DOMAIN t \cup {z}
             s == Kids(t, p)
             c == Kids(t, e)
             w == Inserted(s, at, z, c)
  <2>1. s \in Seq(DOMAIN t \ {1}) /\ c \in Seq(DOMAIN t \ {1})
    BY <1>1, <1>3 DEF IsTree, LinksDown
  <2>2. DOMAIN t \ {1} \subseteq D /\ z \in D
    OBVIOUS
  <2> HIDE DEF D, s, c
  <2>3. s \in Seq(D) /\ c \in Seq(D)
    BY <2>1, <2>2, SeqGrows
  <2>4. at \in 1 .. Len(s)
    BY <1>6 DEF s
  <2>5. IsInserted(w, D, s, at, z, c)
    BY <2>2, <2>3, <2>4, InsertedAt
  <2>6. w = Kids(u, p)
    BY <1>5 DEF s, c
  <2> HIDE DEF w
  <2> QED
    BY <1>6, <2>5, <2>6 DEF IsInserted, s, c
<1>8. SameNodes(t, o, u, v, A)
  <2>1. ASSUME NEW x \in A
        PROVE  /\ x \in DOMAIN t /\ x \in DOMAIN u
               /\ Kids(u, x) = Kids(t, x) /\ u[x].name = t[x].name /\ u[x].val = t[x].val
               /\ x \in o <=> x \in v
    <3>1. x # e /\ x # p /\ x \in DOMAIN t
      BY <1>2, <1>3
    <3> QED
      BY <1>2, <1>5, <3>1
  <2>2. ASSUME NEW x \in A, NEW i \in DOMAIN Kids(t, x) PROVE Kids(t, x)[i] \in A
    BY OffPathClosed
  <2> QED
    BY <2>1, <2>2 DEF SameNodes
<1>9. \A x \in A : Part(u, v, x) = Part(t, o, x)
  <2> HIDE DEF o, v, A
  <2> QED
    BY <1>4, <1>8, SameInside
<1>10. \A i \in 1 .. k : Kids(t, p)[i] \in A
  <2> TAKE i \in 1 .. k
  <2>1. i \in DOMAIN Kids(t, p) /\ i # Len(Kids(t, p))
    BY <1>3, <1>6, KidFacts
  <2> QED
    BY <1>2, <1>3, <2>1, OffPath
<1>11. \A i \in 1 .. m : Kids(t, e)[i] \in A
  <2>1. DOMAIN Kids(t, e) = 1 .. m
    BY <1>1, KidFacts
  <2> QED
    BY <1>2, <2>1, OffPath
<1>12. Gains(t, o, u, v, p, <<>>)
  <2> DEFINE R == RowOf(t, o, p)
             Q == RowOf(u, v, p)
             C == RowOf(t, o, e)
             s == <<StartItem(t[e])>>
             J == Joined(R, k)
             I == Joined(C, m)
             R0 == Joined(RowOf(t, o, p), Len(Kids(t, p)))
             Q0 == Joined(RowOf(u, v, p), Len(Kids(u, p)))
  <2>1. /\ \A i \in 1 .. k + 1 : IsSeq(R[i]) /\ R[i] = Part(t, o, Kids(t, p)[i])
    BY <1>3, <1>6, TreeFalls, RowIsSeqs
  <2>2. \A i \in 1 .. (k + 1) + m : IsSeq(Q[i]) /\ Q[i] = Part(u, v, Kids(u, p)[i])
    <3>1. p \in DOMAIN u
      BY <1>1, <1>3, <1>5
    <3> QED
      BY <1>4, <1>7, <3>1, TreeFalls, RowIsSeqs
  <2>3. \A i \in 1 .. m : IsSeq(C[i]) /\ C[i] = Part(t, o, Kids(t, e)[i])
    BY <1>1, TreeFalls, RowIsSeqs
  <2>4. /\ Inside(t, o)[p] = Joined(R, k + 1) /\ Inside(u, v)[p] = Joined(Q, (k + 1) + m)
        /\ Inside(t, o)[e] = I
    <3>1. p \in DOMAIN u
      BY <1>1, <1>3, <1>5
    <3>2. Inside(t, o)[p] = R0 /\ Inside(t, o)[e] = I
      BY <1>1, <1>3, TreeFalls, InsideDef
    <3>3. Inside(u, v)[p] = Q0
      BY <1>4, <3>1, TreeFalls, InsideDef
    <3> QED
      BY <1>6, <1>7, <3>2, <3>3
  <2>5. IsSeq(I) /\ IsSeq(s) /\ IsSeq(Inside(t, o)[p])
    BY <1>1, <1>3, <2>4, TreeFalls, InsideIsSeq, ShortSeqs
  <2>6. Part(t, o, e) = s \o I
    <3>1. e \in o /\ Inside(t, o)[e] = I /\ IsSeq(I)
      BY <1>2, <2>4, <2>5
    <3> HIDE DEF o, I
    <3>2. NodeItems(t, o, e, I) = <<StartItem(t[e])>> \o I
      BY <3>1, OpenPart
    <3> QED
      BY <3>1, <3>2 DEF Part
  <2>7. Part(u, v, z) = s
    <3> DEFINE b == BitsOf(u, z)
    <3>1. /\ u[z].name \notin GroupNames /\ u[z].name # "text"
          /\ ItemOf(u[z], b) = StartItem(t[e])
      <4>1. u[z].name = StartName(t[e].name) /\ u[z].val = StartVal(t[e].name, t[e].val)
        BY <1>5
      <4> HIDE DEF b, z
      <4> QED
        BY <4>1, StartIsItem
    <3> QED
      BY <3>1 DEF Part, NodeItems
  <2> HIDE DEF R, Q, C, s, I
  <2>8. ASSUME NEW i \in 1 .. k PROVE R[i] = Q[i] /\ IsSeq(R[i])
    <3>1. i \in 1 .. k + 1 /\ i \in 1 .. (k + 1) + m
      BY <1>6, <1>7
    <3> QED
      BY <1>7, <1>9, <1>10, <2>1, <2>2, <3>1
  <2>9. J = Joined(Q, k) /\ IsSeq(J)
    BY <1>6, <2>8, JoinedSame, JoinedIsSeq
  <2>10. Joined(R, k + 1) = J \o (s \o I)
    <3>1. Joined(R, k + 1) = Joined(R, k) \o R[k + 1]
      BY <1>6, JoinedNext
    <3>2. k + 1 \in 1 .. k + 1
      BY <1>6
    <3> QED
      BY <1>6, <2>1, <2>6, <3>1, <3>2
  <2>11. Joined(Q, k + 1) = J \o s
    <3>1. Joined(Q, k + 1) = Joined(Q, k) \o Q[k + 1]
      BY <1>6, JoinedNext
    <3>2. k + 1 \in 1 .. (k + 1) + m
      BY <1>6, <1>7
    <3> QED
      BY <1>7, <2>2, <2>7, <2>9, <3>1, <3>2
  <2>12. Joined(Q, (k + 1) + m) = (J \o s) \o I
    <3>1. ASSUME NEW i \in 1 .. m PROVE C[i] = Q[(k + 1) + i]
      <4>1. (k + 1) + i \in 1 .. (k + 1) + m
        BY <1>6, <1>7
      <4> QED
        BY <1>7, <1>9, <1>11, <2>2, <2>3, <4>1
    <3>2. k + 1 \in Nat /\ m \in Nat /\ \A i \in 1 .. (k + 1) + m : IsSeq(Q[i])
      BY <1>6, <1>7, <2>2
    <3>3. Joined(Q, (k + 1) + m) = Joined(Q, k + 1) \o Joined(C, m)
      BY <3>1, <3>2, JoinedSplit
    <3> QED
      BY <2>11, <3>3 DEF I
  <2> HIDE DEF J
  <2>13. (J \o s) \o I = J \o (s \o I)
    BY <2>5, <2>9, ConcatAssoc
  <2>14. Inside(u, v)[p] = Inside(t, o)[p]
    BY <2>4, <2>10, <2>12, <2>13
  <2> QED
    BY <2>5, <2>14, ConcatEmpty DEF Gains
<1>13. PathKept(t, o, u, v, A, p)
  <2> SUFFICES ASSUME NEW y \in Up(t, p) \ {1}
               PROVE  /\ y \in o /\ y \in v
                      /\ u[y].name = t[y].name /\ u[y].val = t[y].val
                      /\ t[y].up \in DOMAIN u
                      /\ Kids(u, t[y].up) = Kids(t, t[y].up)
                      /\ \A i \in 1 .. Len(Kids(t, t[y].up)) - 1 : Kids(t, t[y].up)[i] \in A
    BY DEF PathKept
  <2>1. y \in DOMAIN t /\ t[y].name \in GroupNames /\ y \in Up(t, e) /\ y \in 1 .. p
    BY <1>2, <1>3, UpFacts DEF OpenAt
  <2>2. t[y].up \in DOMAIN t /\ t[y].up \in 1 .. y - 1 /\ t[y].up \in Up(t, e)
    BY <2>1, GroupFacts, UpClosed
  <2>3. t[y].up # p /\ t[y].up # e /\ y # e
    BY <1>1, <1>3, <2>1, <2>2
  <2>4. ASSUME NEW i \in 1 .. Len(Kids(t, t[y].up)) - 1 PROVE Kids(t, t[y].up)[i] \in A
    <3>1. i \in DOMAIN Kids(t, t[y].up) /\ i # Len(Kids(t, t[y].up))
      BY <2>2, KidFacts
    <3> QED
      BY <2>2, <3>1, OffPath
  <2> QED
    BY <1>2, <1>5, <2>1, <2>2, <2>3, <2>4
<1>14. OpenAt(t, p) /\ IsSeq(<<>>)
  BY <1>2, ShortSeqs
<1> HIDE DEF p, o, v, A
<1>15. Items(u, v) = Items(t, o) \o <<>>
  <2> DEFINE n == <<>>
  <2>1. IsSeq(n) /\ Gains(t, o, u, v, p, n)
    BY <1>12, <1>14
  <2>2. OpenAt(t, p)
    BY <1>14
  <2> HIDE DEF n
  <2>3. Items(u, v) = Items(t, o) \o n
    BY <1>4, <1>8, <1>13, <2>1, <2>2, PathGains
  <2> QED
    BY <2>3 DEF n
<1>16. IsSeq(Items(t, o))
  <2>1. 1 \in DOMAIN t
    BY DEF IsTree
  <2> QED
    BY <2>1, TreeFalls, InsideDef, InsideIsSeq
<1> QED
  BY <1>15, <1>16, ConcatEmpty DEF o, v, p

------------------------------------------------------------------------------
(* After the groups below one on the path are broken, that one is the       *)
(* innermost.                                                               *)
Opened(t, e, u, x, m) ==
    /\ IsTree(u) /\ Len(u) = Len(t) + m
    /\ OpenAt(u, x)
    /\ Up(u, x) = Up(t, x)
    /\ SameBelow(t, u, x)
    /\ Items(u, Up(t, x)) = Items(t, Up(t, e))
    /\ Proper(t) => Proper(u)

LEMMA BranchBroken ==
  ASSUME NEW t, IsTree(t), NEW e, OpenAt(t, e), NEW k \in 1 .. Len(PathUp(t, e))
  PROVE  Opened(t, e, BreakAll(t, SubSeq(PathUp(t, e), 1, k - 1)), PathUp(t, e)[k], k - 1)
<1> DEFINE p == PathUp(t, e)
           es == SubSeq(p, 1, k - 1)
           D == DOMAIN t
<1>1. /\ Len(t) \in Nat /\ D = 1 .. Len(t) /\ e \in D /\ t[e].name # "freed" /\ e # 0
  <2>1. Len(t) \in Nat /\ D = 1 .. Len(t) /\ e \in D /\ t[e].name # "freed"
    BY DEF IsTree, OpenAt
  <2> QED
    BY <2>1
<1>2. PathGood(t, e)
  BY <1>1, PathFacts
<1>3. /\ p \in Seq(D) /\ Len(p) > 0 /\ p[1] = e /\ p[Len(p)] = 1
      /\ \A i, j \in DOMAIN p : i < j => p[j] < p[i]
      /\ \A i \in 1 .. Len(p) - 1 : p[i + 1] = t[p[i]].up
  BY <1>1, <1>2 DEF PathGood, Rising, ToRoot
<1>4. Up(t, e) = {p[i] : i \in DOMAIN p}
  BY DEF Up
<1> HIDE DEF p, D
<1>5. /\ Len(p) \in Nat /\ DOMAIN p = 1 .. Len(p) /\ k \in 1 .. Len(p)
      /\ es \in Seq(D) /\ Len(es) = k - 1 /\ \A m \in 1 .. k - 1 : es[m] = p[m]
  BY <1>3 DEF p
<1> HIDE DEF es
<1>6. PICK f : /\ BreakAll(t, es) = f[k - 1]
               /\ f[0] = t
               /\ \A m \in 1 .. k - 1 : f[m] = Break(f[m - 1], es[m])
  <2>1. \E f : /\ BreakAll(t, es) = f[Len(es)]
               /\ f[0] = t
               /\ \A m \in 1 .. Len(es) : f[m] = Break(f[m - 1], es[m])
    BY <1>5, BreakAllIs
  <2> QED
    BY <1>5, <2>1
<1> DEFINE S == {m \in Nat : m <= k - 1 => Opened(t, e, f[m], p[m + 1], m)}
<1>7. 0 \in S
  <2>1. p[0 + 1] = e /\ f[0] = t /\ Len(t) + 0 = Len(t)
    BY <1>1, <1>3, <1>6
  <2>2. Opened(t, e, t, e, 0)
    BY <2>1 DEF Opened, SameBelow
  <2> QED
    BY <2>1, <2>2
<1>8. ASSUME NEW m \in Nat, m \in S PROVE m + 1 \in S
  <2> SUFFICES ASSUME m + 1 <= k - 1 PROVE Opened(t, e, f[m + 1], p[(m + 1) + 1], m + 1)
    OBVIOUS
  <2> DEFINE u == f[m]
             x == p[m + 1]
             y == p[(m + 1) + 1]
             v == f[m + 1]
  <2>1. /\ m <= k - 1 /\ m + 1 \in 1 .. k - 1 /\ m + 1 \in DOMAIN p
        /\ m + 1 < Len(p) /\ (m + 1) - 1 = m
        /\ (m + 1) + 1 \in DOMAIN p /\ m + 1 \in 1 .. Len(p) - 1 /\ Len(p) \in DOMAIN p
    BY <1>5
  <2>2. Opened(t, e, u, x, m)
    BY <1>8, <2>1
  <2>3. v = Break(u, x)
    BY <1>5, <1>6, <2>1
  <2>4. x \in Up(t, e) /\ x \in D /\ x # 1 /\ y < x /\ y \in D /\ y = t[x].up
    <3>1. p[Len(p)] < p[m + 1]
      BY <1>3, <2>1
    <3>2. p[(m + 1) + 1] < p[m + 1]
      <4>1. m + 1 < (m + 1) + 1
        BY <2>1
      <4> QED
        BY <1>3, <2>1, <4>1
    <3>3. x \in D /\ y \in D
      BY <1>3, <2>1
    <3>4. y = t[x].up
      BY <1>3, <2>1
    <3>5. x \in Up(t, e)
      BY <1>4, <2>1
    <3> HIDE DEF x, y
    <3>6. 1 < x /\ y < x
      BY <1>3, <3>1, <3>2 DEF x, y
    <3> QED
      BY <1>1, <3>3, <3>4, <3>5, <3>6
  <2> HIDE DEF u, x, y, v
  <2>5. t[x].name \in GroupNames
    BY <2>4 DEF OpenAt
  <2>6. /\ IsTree(u) /\ Len(u) = Len(t) + m /\ OpenAt(u, x) /\ SameBelow(t, u, x)
        /\ Up(u, x) = Up(t, x) /\ Items(u, Up(t, x)) = Items(t, Up(t, e))
        /\ Proper(t) => Proper(u)
    BY <2>2 DEF Opened
  <2>7. x \in 1 .. x /\ x \in DOMAIN u /\ x \in Nat /\ y \in 1 .. x - 1
    BY <1>1, <2>4, <2>6 DEF OpenAt
  <2>8. u[x].name = t[x].name /\ u[x].up = y
    BY <2>4, <2>6, <2>7 DEF SameBelow
  <2>9. PICK at : IsBroken(u, x, at, v)
    BY <2>3, <2>5, <2>6, <2>7, <2>8, BreakIs
  <2>10. /\ IsTree(v) /\ Len(v) = Len(u) + 1
         /\ OpenAt(v, y) /\ Up(v, y) = Up(u, y)
         /\ SameBelow(u, v, x - 1)
    BY <2>5, <2>6, <2>8, <2>9, BreakOpen
  <2>11. Len(v) = Len(t) + (m + 1)
    BY <1>1, <2>6, <2>10
  <2>12. SameBelow(t, v, y)
    <3> SUFFICES ASSUME NEW z \in 1 .. y
                 PROVE  v[z].name = t[z].name /\ v[z].val = t[z].val /\ v[z].up = t[z].up
      BY DEF SameBelow
    <3>1. z \in 1 .. x - 1 /\ z \in 1 .. x
      BY <2>7
    <3> QED
      BY <2>6, <2>10, <3>1 DEF SameBelow
  <2>13. Up(u, y) = Up(t, y)
    <3>1. \A z \in 1 .. y : u[z].up = t[z].up
      BY <2>6, <2>7 DEF SameBelow
    <3>2. y \in Nat /\ y <= Len(t) /\ y <= Len(u) /\ y \in 0 .. y
      BY <1>1, <2>4, <2>6, <2>7
    <3>3. PathUp(u, y) = PathUp(t, y)
      BY <2>6, <3>1, <3>2, PathSame
    <3> QED
      BY <3>3 DEF Up
  <2>14. Up(v, y) = Up(t, y)
    BY <2>10, <2>13
  <2>15. Items(v, Up(t, y)) = Items(t, Up(t, e))
    <3>1. u[x].name \in GroupNames
      BY <2>5, <2>8
    <3>2. Items(v, Up(u, u[x].up)) = Items(u, Up(u, x))
      BY <2>6, <2>9, <3>1, BrokenItems
    <3> QED
      BY <2>6, <2>8, <2>13, <3>2
  <2>16. Proper(t) => Proper(v)
    BY <2>5, <2>6, <2>7, <2>8, <2>9, BrokenProper
  <2> QED
    BY <2>10, <2>11, <2>12, <2>14, <2>15, <2>16 DEF Opened, v, y
<1> HIDE DEF S
<1>9. k - 1 \in Nat /\ (k - 1) + 1 = k
  BY <1>5
<1>10. k - 1 \in S
  BY <1>7, <1>8, <1>9, NumberInduction
<1>11. Opened(t, e, f[k - 1], p[k], k - 1)
  BY <1>9, <1>10 DEF S
<1> QED
  BY <1>6, <1>11 DEF p, es

------------------------------------------------------------------------------
(* The bits of a main item, one after the other.                            *)
AddedFun(f, t, p, bits, n) ==
    f = [m \in 0 .. n |->
            IF m = 0 THEN t ELSE AddChild(f[m - 1], p, "bit", <<bits[m]>>)]

LEMMA AddedFunExists ==
  ASSUME NEW t, NEW p, NEW bits, NEW n \in Nat
  PROVE  \E f : AddedFun(f, t, p, bits, n)
<1> DEFINE S == {m \in Nat : \E f : AddedFun(f, t, p, bits, m)}
<1>1. 0 \in S
  <2> DEFINE f == [k \in 0 .. 0 |-> t]
  <2>1. AddedFun(f, t, p, bits, 0)
    BY DEF AddedFun
  <2> QED
    BY <2>1
<1>2. ASSUME NEW m \in Nat, m \in S PROVE m + 1 \in S
  <2>1. PICK f : AddedFun(f, t, p, bits, m)
    BY <1>2
  <2> DEFINE g == [k \in 0 .. m + 1 |->
                      IF k = m + 1 THEN AddChild(f[m], p, "bit", <<bits[m + 1]>>) ELSE f[k]]
             h == [k \in 0 .. m + 1 |->
                      IF k = 0 THEN t ELSE AddChild(g[k - 1], p, "bit", <<bits[k]>>)]
  <2>2. ASSUME NEW k \in 0 .. m + 1 PROVE g[k] = h[k]
    <3>1. CASE k = m + 1
      <4>1. k # 0 /\ k - 1 = m /\ m \in 0 .. m + 1 /\ m # m + 1
        BY <3>1
      <4> QED
        BY <3>1, <4>1
    <3>2. CASE k # m + 1
      <4>1. k \in 0 .. m /\ (k = 0 \/ (k - 1 \in 0 .. m + 1 /\ k - 1 # m + 1))
        BY <3>2
      <4>2. f[k] = IF k = 0 THEN t ELSE AddChild(f[k - 1], p, "bit", <<bits[k]>>)
        BY <2>1, <4>1 DEF AddedFun
      <4> QED
        BY <3>2, <4>1, <4>2
    <3> QED
      BY <3>1, <3>2
  <2>3. g = h
    BY <2>2
  <2>4. AddedFun(g, t, p, bits, m + 1)
    BY <2>3 DEF AddedFun
  <2> QED
    BY <2>4
<1> HIDE DEF S
<1>3. n \in S
  BY <1>1, <1>2, NumberInduction
<1> QED
  BY <1>3 DEF S

BitsFold(f, t, p, bits) ==
    /\ WithBits(t, p, bits) = f[Len(bits)]
    /\ f[0] = t
    /\ \A m \in 1 .. Len(bits) : f[m] = AddChild(f[m - 1], p, "bit", <<bits[m]>>)
LEMMA WithBitsIs ==
  ASSUME NEW t, NEW p, NEW bits, Len(bits) \in Nat
  PROVE  \E f : BitsFold(f, t, p, bits)
<1> DEFINE n == Len(bits)
           f == CHOOSE g : AddedFun(g, t, p, bits, n)
<1>1. n \in Nat
  OBVIOUS
<1>2. AddedFun(f, t, p, bits, n)
  BY <1>1, AddedFunExists
<1>3. WithBits(t, p, bits) = f[n]
  BY Zenon DEF WithBits, AddedFun
<1> HIDE DEF f, n
<1>4. f[0] = t
  BY <1>1, <1>2 DEF AddedFun
<1>5. ASSUME NEW m \in 1 .. n PROVE f[m] = AddChild(f[m - 1], p, "bit", <<bits[m]>>)
  <2>1. m \in 0 .. n /\ m # 0
    BY <1>1
  <2> QED
    BY <1>2, <2>1 DEF AddedFun
<1> QED
  BY <1>3, <1>4, <1>5 DEF n, BitsFold

(* An element and its end element are added as nodes.                       *)
LEMMA ChildIs ==
  ASSUME NEW t, IsTree(t), NEW p \in DOMAIN t, NEW name, NEW val
  PROVE  IsAdded(t, p, [name |-> name, val |-> val, ns |-> t[p].ns, up |-> p, kids |-> <<>>],
                 AddChild(t, p, name, val))
<1>1. [Node(name, val, p) EXCEPT !.ns = t[p].ns] =
        [name |-> name, val |-> val, ns |-> t[p].ns, up |-> p, kids |-> <<>>]
  BY DEF Node
<1> QED
  BY <1>1, AddNodeIs DEF AddChild

LEMMA EndIs ==
  ASSUME NEW t, IsTree(t), NEW p \in DOMAIN t, NEW g
  PROVE  IsAdded(t, p, [name |-> EndName(g), val |-> EndVal(g), ns |-> FALSE,
                        up |-> p, kids |-> <<>>], AddEnd(t, p, g))
<1> DEFINE n == Node(EndName(g), EndVal(g), p)
<1>1. /\ IsNode(n) /\ n.name = EndName(g) /\ n.val = EndVal(g) /\ n.up = p /\ n.kids = <<>>
  BY DEF Node, IsNode
<1> HIDE DEF n
<1>2. [n EXCEPT !.ns = FALSE] =
        [name |-> n.name, val |-> n.val, ns |-> FALSE, up |-> n.up, kids |-> n.kids]
  BY <1>1, NodeFields
<1>3. AddEnd(t, p, g) = AddNode(t, p, [n EXCEPT !.ns = FALSE])
  BY DEF AddEnd, n
<1> QED
  BY <1>1, <1>2, <1>3, AddNodeIs

(* Nothing changes above a node that another is added below.                *)
LEMMA AddedBelow ==
  ASSUME NEW t, IsTree(t), NEW q, OpenAt(t, q), NEW p \in DOMAIN t, q < p,
         NEW node, NEW u, IsAdded(t, p, node, u), IsTree(u)
  PROVE  OpenAt(u, q) /\ Up(u, q) = Up(t, q)
<1> DEFINE n == Len(t)
<1>1. /\ n \in Nat /\ DOMAIN t = 1 .. n /\ q \in DOMAIN t /\ t[q].name # "freed" /\ q \in 1 .. n
      /\ DOMAIN u = 1 .. n + 1 /\ Len(u) = n + 1
  BY DEF IsTree, OpenAt, IsAdded
<1>2. /\ \A i \in DOMAIN t : u[i].up = t[i].up /\ u[i].name = t[i].name
      /\ \A i \in DOMAIN t : i # p => Kids(u, i) = Kids(t, i)
  BY DEF IsAdded, Kids
<1>3. Up(u, q) = Up(t, q)
  <2>1. \A y \in 1 .. q : u[y].up = t[y].up
    BY <1>1, <1>2
  <2>2. q \in Nat /\ q <= Len(t) /\ q <= Len(u) /\ q \in 0 .. q
    BY <1>1
  <2>3. PathUp(u, q) = PathUp(t, q)
    BY <2>1, <2>2, PathSame
  <2> QED
    BY <2>3 DEF Up
<1>4. ASSUME NEW x \in Up(t, q) \ {1}
      PROVE  u[x].name \in GroupNames /\ IsLast(u, x)
  <2>1. t[x].name \in GroupNames /\ IsLast(t, x) /\ x \in DOMAIN t /\ x \in 1 .. q
    BY <1>1, UpFacts DEF OpenAt
  <2>2. t[x].up \in DOMAIN t /\ t[x].up \in 1 .. x - 1
    BY <2>1, GroupFacts
  <2>3. t[x].up # p /\ u[x].up = t[x].up /\ u[x].name = t[x].name
    BY <1>1, <1>2, <2>1, <2>2
  <2>4. Kids(u, t[x].up) = Kids(t, t[x].up)
    BY <1>2, <2>2, <2>3
  <2> QED
    BY <2>1, <2>3, <2>4 DEF IsLast
<1> QED
  BY <1>1, <1>2, <1>3, <1>4 DEF OpenAt

(* What a node with m bits below it is.                                     *)
BitsDone(t, p, bits, u, m) ==
    /\ IsTree(u) /\ Len(u) = Len(t) + m
    /\ \A i \in DOMAIN t \ {p} : u[i] = t[i]
    /\ u[p].name = t[p].name /\ u[p].up = t[p].up /\ u[p].val = t[p].val
    /\ Kids(u, p) = [j \in 1 .. m |-> Len(t) + j]
    /\ \A j \in 1 .. m : u[Len(t) + j].name = "bit" /\ u[Len(t) + j].val = <<bits[j]>>

LEMMA AppendedNumber ==
  ASSUME NEW n \in Nat, NEW m \in Nat
  PROVE  Append([j \in 1 .. m |-> n + j], (n + m) + 1) = [j \in 1 .. m + 1 |-> n + j]
<1> DEFINE s == [j \in 1 .. m |-> n + j]
           f == [j \in 1 .. m + 1 |-> n + j]
           g == [i \in 1 .. Len(s) + 1 |-> IF i <= Len(s) THEN s[i] ELSE (n + m) + 1]
           N == Nat
<1>1. \A j \in 1 .. m : n + j \in Nat
  OBVIOUS
<1>2. s \in [1 .. m -> Nat]
  BY <1>1
<1>3. s \in Seq(Nat) /\ Len(s) = m
  <2>1. s = [i \in 1 .. m |-> s[i]]
    OBVIOUS
  <2> HIDE DEF s
  <2>2. s \in Seq(Nat)
    BY <1>2, SeqDef
  <2> QED
    BY <2>1, <2>2, FunctionIsSeq
<1>4. s \in Seq(N) /\ (n + m) + 1 \in N
  BY <1>3
<1>5. Append(s, (n + m) + 1) = g
  <2> HIDE DEF N, s
  <2>1. Append(s, (n + m) + 1) =
          [i \in 1 .. Len(s) + 1 |-> IF i <= Len(s) THEN s[i] ELSE (n + m) + 1]
    BY <1>4, AppendedIs
  <2> QED
    BY <2>1
<1>6. g = f
  <2>1. ASSUME NEW i \in 1 .. m + 1
        PROVE  (IF i <= m THEN s[i] ELSE (n + m) + 1) = n + i
    <3>1. CASE i <= m
      <4>1. i \in 1 .. m
        BY <3>1
      <4> QED
        BY <3>1, <4>1
    <3>2. CASE ~(i <= m)
      <4>1. i = m + 1
        BY <3>2
      <4> QED
        BY <3>2, <4>1
    <3> QED
      BY <3>1, <3>2
  <2>2. g = [i \in 1 .. m + 1 |-> IF i <= m THEN s[i] ELSE (n + m) + 1]
    BY <1>3
  <2> HIDE DEF s, g
  <2> QED
    BY <2>1, <2>2
<1> QED
  BY <1>5, <1>6

LEMMA BitsAdded ==
  ASSUME NEW t, IsTree(t), NEW p \in DOMAIN t, t[p].name # "freed", Kids(t, p) = <<>>,
         NEW S, NEW bits \in Seq(S)
  PROVE  /\ BitsDone(t, p, bits, WithBits(t, p, bits), Len(bits))
         /\ \A q : q < p /\ OpenAt(t, q) =>
               OpenAt(WithBits(t, p, bits), q) /\ Up(WithBits(t, p, bits), q) = Up(t, q)
<1> DEFINE k == Len(bits)
<1>1. PICK f : /\ WithBits(t, p, bits) = f[k]
               /\ f[0] = t
               /\ \A m \in 1 .. k : f[m] = AddChild(f[m - 1], p, "bit", <<bits[m]>>)
  <2>1. Len(bits) \in Nat
    OBVIOUS
  <2>2. PICK f : BitsFold(f, t, p, bits)
    BY <2>1, WithBitsIs
  <2> QED
    BY <2>2 DEF BitsFold
<1>2. k \in Nat /\ Len(t) \in Nat /\ DOMAIN t = 1 .. Len(t) /\ p \in 1 .. Len(t)
  BY DEF IsTree
<1> HIDE DEF k
<1> DEFINE Keeps(u) == \A q : q < p /\ OpenAt(t, q) => OpenAt(u, q) /\ Up(u, q) = Up(t, q)
           K == {m \in Nat : m <= k => BitsDone(t, p, bits, f[m], m) /\ Keeps(f[m])}
<1>3. 0 \in K
  <2>1. Kids(t, p) = [j \in 1 .. 0 |-> Len(t) + j]
    OBVIOUS
  <2>2. BitsDone(t, p, bits, t, 0)
    BY <1>2, <2>1 DEF BitsDone
  <2> QED
    BY <1>1, <2>2
<1>4. ASSUME NEW m \in Nat, m \in K PROVE m + 1 \in K
  <2> SUFFICES ASSUME m + 1 <= k PROVE BitsDone(t, p, bits, f[m + 1], m + 1) /\ Keeps(f[m + 1])
    OBVIOUS
  <2> DEFINE u == f[m]
             v == f[m + 1]
             node == [name |-> "bit", val |-> <<bits[m + 1]>>, ns |-> u[p].ns, up |-> p,
                      kids |-> <<>>]
  <2>1. m <= k /\ m + 1 \in 1 .. k /\ (m + 1) - 1 = m
    BY <1>2
  <2>2. BitsDone(t, p, bits, u, m) /\ Keeps(u)
    BY <1>4, <2>1
  <2>3. v = AddChild(u, p, "bit", <<bits[m + 1]>>)
    BY <1>1, <2>1
  <2> HIDE DEF u, v
  <2>4. /\ IsTree(u) /\ Len(u) = Len(t) + m
        /\ \A i \in DOMAIN t \ {p} : u[i] = t[i]
        /\ u[p].name = t[p].name /\ u[p].up = t[p].up /\ u[p].val = t[p].val
        /\ Kids(u, p) = [j \in 1 .. m |-> Len(t) + j]
        /\ \A j \in 1 .. m : u[Len(t) + j].name = "bit" /\ u[Len(t) + j].val = <<bits[j]>>
    BY <2>2 DEF BitsDone
  <2>5. DOMAIN u = 1 .. Len(t) + m /\ p \in DOMAIN u
    <3>1. DOMAIN u = 1 .. Len(u)
      BY <2>4 DEF IsTree
    <3> QED
      BY <1>2, <2>4, <3>1
  <2>6. IsAdded(u, p, node, v)
    BY <2>3, <2>4, <2>5, ChildIs
  <2>7. /\ IsNode(node) /\ node.name = "bit" /\ node.up = p /\ node.kids = <<>>
        /\ node.val = <<bits[m + 1]>>
    BY DEF IsNode
  <2> HIDE DEF node
  <2>8. IsTree(v)
    <3>1. u[p].name # "freed" /\ node.name # "freed"
      BY <2>4, <2>7
    <3> QED
      BY <2>4, <2>5, <2>6, <2>7, <3>1, AddedTree
  <2>9. Len(v) = Len(t) + (m + 1)
    BY <1>2, <2>4, <2>6 DEF IsAdded
  <2>10. /\ v[(Len(t) + m) + 1] = node
         /\ \A i \in DOMAIN u \ {p} : v[i] = u[i]
         /\ v[p].name = u[p].name /\ v[p].up = u[p].up /\ v[p].val = u[p].val
         /\ Kids(v, p) = Append(Kids(u, p), (Len(t) + m) + 1)
    BY <2>4, <2>6 DEF IsAdded, Kids
  <2>11. Kids(v, p) = [j \in 1 .. m + 1 |-> Len(t) + j]
    BY <1>2, <2>4, <2>10, AppendedNumber
  <2>12. \A i \in DOMAIN t \ {p} : v[i] = t[i]
    BY <1>2, <2>4, <2>5, <2>10
  <2>13. ASSUME NEW j \in 1 .. m + 1
         PROVE  v[Len(t) + j].name = "bit" /\ v[Len(t) + j].val = <<bits[j]>>
    <3>1. CASE j \in 1 .. m
      <4>1. Len(t) + j \in DOMAIN u \ {p}
        BY <1>2, <2>5, <3>1
      <4> QED
        BY <2>4, <2>10, <3>1, <4>1
    <3>2. CASE j = m + 1
      <4>1. Len(t) + j = (Len(t) + m) + 1
        BY <1>2, <3>2
      <4> QED
        BY <2>7, <2>10, <3>2, <4>1
    <3> QED
      BY <3>1, <3>2
  <2>14. BitsDone(t, p, bits, v, m + 1)
    BY <2>4, <2>8, <2>9, <2>10, <2>11, <2>12, <2>13 DEF BitsDone
  <2>15. ASSUME NEW q, q < p, OpenAt(t, q) PROVE OpenAt(v, q) /\ Up(v, q) = Up(t, q)
    <3>1. OpenAt(u, q) /\ Up(u, q) = Up(t, q)
      BY <2>2, <2>15
    <3>2. OpenAt(v, q) /\ Up(v, q) = Up(u, q)
      BY <2>4, <2>5, <2>6, <2>8, <2>15, <3>1, AddedBelow
    <3> QED
      BY <3>1, <3>2
  <2> QED
    BY <2>14, <2>15 DEF v
<1> HIDE DEF K
<1>5. k \in K
  BY <1>2, <1>3, <1>4, NumberInduction
<1>6. BitsDone(t, p, bits, f[k], k) /\ Keeps(f[k])
  BY <1>2, <1>5 DEF K
<1> QED
  BY <1>1, <1>6 DEF k

------------------------------------------------------------------------------
LEMMA RootTree == IsTree(RootOnly) /\ OpenAt(RootOnly, 1) /\ Up(RootOnly, 1) = {1}
<1> DEFINE t == RootOnly
<1>1. /\ Len(t) = 1 /\ DOMAIN t = 1 .. 1
      /\ t[1] = [name |-> "descriptor", val |-> <<>>, ns |-> TRUE, up |-> 0, kids |-> <<>>]
  BY DEF RootOnly, Node
<1> HIDE DEF t
<1>2. IsNode(t[1]) /\ t[1].name = "descriptor" /\ t[1].up = 0 /\ Kids(t, 1) = <<>>
  BY <1>1 DEF IsNode, Kids
<1>3. DOMAIN t = {1}
  BY <1>1
<1>4. LinksDown(t, 1)
  <2>1. <<>> \in Seq(DOMAIN t \ {1})
    OBVIOUS
  <2>2. DOMAIN Kids(t, 1) = {}
    BY <1>2
  <2> QED
    BY <1>2, <2>1, <2>2 DEF LinksDown
<1>5. IsTree(t)
  <2>1. LinksUp(t, 1)
    <3>1. 0 \in 0 .. 1 - 1
      OBVIOUS
    <3>2. t[1].name # "freed"
      BY <1>2
    <3> QED
      BY <1>2, <3>1, <3>2 DEF LinksUp
  <2>2. \A e \in DOMAIN t : IsNode(t[e]) /\ LinksDown(t, e) /\ LinksUp(t, e)
    BY <1>2, <1>3, <1>4, <2>1
  <2>3. Len(t) \in Nat /\ DOMAIN t = 1 .. Len(t) /\ 1 \in DOMAIN t
    BY <1>1
  <2> QED
    BY <1>2, <2>2, <2>3 DEF IsTree
<1>6. Up(t, 1) = {1}
  <2>1. Up(t, 1) = {1} \cup Up(t, 0) /\ Up(t, 0) = {}
    BY <1>2, <1>3, <1>5, UpFacts
  <2> QED
    BY <2>1
<1> QED
  BY <1>2, <1>3, <1>5, <1>6 DEF OpenAt, t

(* The branch up to a node that is open, and what is left without it.       *)
LEMMA BranchIs ==
  ASSUME NEW t, NEW e, NEW g \in Up(t, e)
  PROVE  \E k \in DOMAIN PathUp(t, e) :
            PathUp(t, e)[k] = g /\ Branch(t, g, e) = SubSeq(PathUp(t, e), 1, k - 1)
<1> DEFINE p == PathUp(t, e)
           k == CHOOSE i \in DOMAIN p : p[i] = g
<1>1. \E i \in DOMAIN p : p[i] = g
  BY DEF Up
<1>2. k \in DOMAIN p /\ p[k] = g
  BY <1>1
<1>3. Branch(t, g, e) = SubSeq(p, 1, k - 1)
  BY DEF Branch
<1> QED
  BY <1>2, <1>3

LEMMA AllBroken ==
  ASSUME NEW t, IsTree(t), NEW e, OpenAt(t, e), NEW g \in Up(t, e)
  PROVE  \E m \in Nat : Opened(t, e, BreakAll(t, Branch(t, g, e)), g, m)
<1>1. PICK k \in DOMAIN PathUp(t, e) :
           PathUp(t, e)[k] = g /\ Branch(t, g, e) = SubSeq(PathUp(t, e), 1, k - 1)
  BY BranchIs
<1>2. k \in 1 .. Len(PathUp(t, e)) /\ k - 1 \in Nat
  <2>1. DOMAIN PathUp(t, e) = 1 .. Len(PathUp(t, e)) /\ Len(PathUp(t, e)) \in Nat
    BY PathIsSeq
  <2> QED
    BY <2>1
<1>3. Opened(t, e, BreakAll(t, SubSeq(PathUp(t, e), 1, k - 1)), PathUp(t, e)[k], k - 1)
  BY <1>2, BranchBroken
<1> QED
  BY <1>1, <1>2, <1>3

(* Part of a branch, where breaking it ran out of memory.                   *)
LEMMA SomeBroken ==
  ASSUME NEW t, IsTree(t), NEW e, OpenAt(t, e), NEW g \in Up(t, e),
         NEW n \in 0 .. Len(Branch(t, g, e)) - 1
  PROVE  LET v == BreakAll(t, SubSeq(Branch(t, g, e), 1, n))
         IN  IsTree(v) /\ Branch(t, g, e)[n + 1] \in DOMAIN v
<1> DEFINE p == PathUp(t, e)
           D == DOMAIN t
<1>1. PICK k \in DOMAIN p : p[k] = g /\ Branch(t, g, e) = SubSeq(p, 1, k - 1)
  BY BranchIs
<1>2. p \in Seq(D) /\ DOMAIN p = 1 .. Len(p) /\ Len(p) \in Nat
  BY PathIsSeq
<1> HIDE DEF p, D
<1>3. k \in 1 .. Len(p) /\ Len(SubSeq(p, 1, k - 1)) = k - 1
  BY <1>1, <1>2
<1>4. n \in Nat /\ n + 1 \in 1 .. Len(p) /\ n + 1 \in 1 .. k - 1 /\ (n + 1) - 1 = n
  <2>1. n \in 0 .. (k - 1) - 1
    BY <1>1, <1>3
  <2> QED
    BY <1>2, <1>3, <2>1
<1>5. SubSeq(SubSeq(p, 1, k - 1), 1, n) = SubSeq(p, 1, n) /\ SubSeq(p, 1, k - 1)[n + 1] = p[n + 1]
  BY <1>2, <1>3, <1>4
<1>6. Opened(t, e, BreakAll(t, SubSeq(p, 1, (n + 1) - 1)), p[n + 1], (n + 1) - 1)
  BY <1>4, BranchBroken DEF p
<1>7. Branch(t, g, e) = SubSeq(p, 1, k - 1)
  BY <1>1
<1> QED
  BY <1>4, <1>5, <1>6, <1>7 DEF Opened, OpenAt

(* The start element of a group that could not be broken.                   *)
LEMMA StartTree ==
  ASSUME NEW t, IsTree(t), NEW e \in DOMAIN t, t[e].name \in GroupNames
  PROVE  IsTree(StartAdded(t, e))
<1> DEFINE p == t[e].up
           node == [name |-> StartName(t[e].name), val |-> <<>>, ns |-> t[e].ns, up |-> p,
                    kids |-> <<>>]
<1>1. p \in DOMAIN t /\ \E at \in DOMAIN Kids(t, p) : Kids(t, p)[at] = e
  BY GroupFacts
<1>2. t[p].name # "freed"
  <2>1. LinksUp(t, p)
    BY <1>1 DEF IsTree
  <2>2. Kids(t, p) # <<>>
    BY <1>1
  <2> QED
    BY <2>1, <2>2 DEF LinksUp
<1>3. StartAdded(t, e) = AddNode(t, p, node)
  BY DEF StartAdded, Node
<1>4. IsNode(node) /\ node.name # "freed" /\ node.up = p /\ node.kids = <<>>
  BY StartNames DEF IsNode
<1> HIDE DEF p, node
<1>5. IsAdded(t, p, node, AddNode(t, p, node))
  BY <1>1, AddNodeIs
<1> QED
  BY <1>1, <1>2, <1>3, <1>4, <1>5, AddedTree

LEMMA PartlyBroken ==
  ASSUME NEW t, IsTree(t), NEW e, OpenAt(t, e), NEW g \in Up(t, e),
         NEW u \in BrokenPartly(t, Branch(t, g, e))
  PROVE  IsTree(u)
<1> DEFINE es == Branch(t, g, e)
           Broken(n) == BreakAll(t, SubSeq(es, 1, n))
<1>1. \A n \in 0 .. Len(es) - 1 : IsTree(Broken(n)) /\ es[n + 1] \in DOMAIN Broken(n)
  BY SomeBroken
<1>2. \/ \E n \in 0 .. Len(es) - 1 : u = Broken(n)
      \/ \E n \in 0 .. Len(es) - 1 :
            Broken(n)[es[n + 1]].name = "COLLECTION" /\ u = StartAdded(Broken(n), es[n + 1])
  BY DEF BrokenPartly
<1>3. "COLLECTION" \in GroupNames
  BY DEF GroupNames
<1> HIDE DEF es, Broken
<1> QED
  BY <1>1, <1>2, <1>3, StartTree

LEMMA NearestIs ==
  ASSUME NEW g, IsTree(tree), OpenAt(tree, prnt), NearestGroup(g) # 0
  PROVE  NearestGroup(g) \in Up(tree, prnt) /\ tree[NearestGroup(g)].name = g
<1> DEFINE path == PathUp(tree, prnt)
           named == {i \in DOMAIN path : tree[path[i]].name = g}
           k == CHOOSE i \in named : \A j \in named : i <= j
<1>1. named # {} /\ NearestGroup(g) = path[k]
  BY DEF NearestGroup
<1>2. named \in SUBSET Nat
  <2>1. DOMAIN path = 1 .. Len(path) /\ Len(path) \in Nat
    BY PathIsSeq
  <2> QED
    BY <2>1
<1>3. \E i \in named : \A j \in named : i <= j
  <2> HIDE DEF named
  <2> QED
    BY <1>1, <1>2, LeastNumber
<1>4. k \in named
  BY <1>3
<1> HIDE DEF k
<1> QED
  BY <1>1, <1>4 DEF Up

(* An element that is added where items go.                                 *)
Grown(t, p, name, u) ==
    /\ IsTree(u) /\ Len(u) = Len(t) + 1
    /\ OpenAt(u, p)
    /\ Up(u, p) = Up(t, p) /\ Up(u, Len(t) + 1) = {Len(t) + 1} \cup Up(t, p)
    /\ u[Len(t) + 1].name = name /\ Kids(u, Len(t) + 1) = <<>>
    /\ name \in GroupNames => OpenAt(u, Len(t) + 1)

LEMMA NodeGrown ==
  ASSUME NEW t, IsTree(t), NEW p, OpenAt(t, p),
         NEW node, IsNode(node), node.name # "freed", node.up = p, node.kids = <<>>,
         NEW u, IsAdded(t, p, node, u)
  PROVE  Grown(t, p, node.name, u)
<1>1. p \in DOMAIN t /\ t[p].name # "freed"
  BY DEF OpenAt
<1>2. IsTree(u)
  BY <1>1, AddedTree
<1>3. /\ OpenAt(u, p)
      /\ Up(u, p) = Up(t, p)
      /\ Up(u, Len(t) + 1) = {Len(t) + 1} \cup Up(t, p)
      /\ node.name \in GroupNames => OpenAt(u, Len(t) + 1)
  BY <1>2, AddedOpen
<1>4. Len(u) = Len(t) + 1 /\ u[Len(t) + 1] = node
  BY DEF IsAdded
<1> QED
  BY <1>2, <1>3, <1>4 DEF Grown, Kids

LEMMA ChildGrown ==
  ASSUME NEW t, IsTree(t), NEW p, OpenAt(t, p), NEW name, name # "freed", NEW val
  PROVE  Grown(t, p, name, AddChild(t, p, name, val))
<1> DEFINE node == [name |-> name, val |-> val, ns |-> t[p].ns, up |-> p, kids |-> <<>>]
<1>1. IsNode(node) /\ node.name = name /\ node.up = p /\ node.kids = <<>>
  BY DEF IsNode
<1>2. IsAdded(t, p, node, AddChild(t, p, name, val))
  BY ChildIs DEF OpenAt
<1> HIDE DEF node
<1> QED
  BY <1>1, <1>2, NodeGrown

LEMMA EndGrown ==
  ASSUME NEW t, IsTree(t), NEW p, OpenAt(t, p), NEW g \in GroupNames
  PROVE  Grown(t, p, EndName(g), AddEnd(t, p, g))
<1> DEFINE node == [name |-> EndName(g), val |-> EndVal(g), ns |-> FALSE, up |-> p,
                    kids |-> <<>>]
<1>1. IsNode(node) /\ node.name = EndName(g) /\ node.up = p /\ node.kids = <<>>
  BY DEF IsNode
<1>2. IsAdded(t, p, node, AddEnd(t, p, g))
  BY EndIs DEF OpenAt
<1>3. EndName(g) # "freed"
  BY DEF GroupNames, EndName
<1> HIDE DEF node
<1> QED
  BY <1>1, <1>2, <1>3, NodeGrown

LEMMA ChildProper ==
  ASSUME NEW t, IsTree(t), Proper(t), NEW p \in DOMAIN t, NEW name, NEW val,
         name # "descriptor", name # "generic", name = "usage" => val = <<val[1], val[2]>>
  PROVE  Proper(AddChild(t, p, name, val))
<1> DEFINE node == [name |-> name, val |-> val, ns |-> t[p].ns, up |-> p, kids |-> <<>>]
<1>1. ProperNode(node)
  BY DEF ProperNode
<1>2. IsAdded(t, p, node, AddChild(t, p, name, val))
  BY ChildIs
<1> HIDE DEF node
<1> QED
  BY <1>1, <1>2, AddedProper

LEMMA EndProper ==
  ASSUME NEW t, IsTree(t), Proper(t), NEW p \in DOMAIN t, NEW g \in GroupNames
  PROVE  Proper(AddEnd(t, p, g))
<1> DEFINE node == [name |-> EndName(g), val |-> EndVal(g), ns |-> FALSE, up |-> p,
                    kids |-> <<>>]
<1>1. ProperNode(node)
  BY DEF ProperNode, GroupNames, EndName
<1>2. IsAdded(t, p, node, AddEnd(t, p, g))
  BY EndIs
<1> HIDE DEF node
<1> QED
  BY <1>1, <1>2, AddedProper

LEMMA BitsProper ==
  ASSUME NEW v, IsTree(v), Proper(v), NEW n \in DOMAIN v, NEW bits, NEW u, NEW m \in Nat,
         BitsDone(v, n, bits, u, m)
  PROVE  Proper(u)
<1>1. Len(v) \in Nat /\ DOMAIN v = 1 .. Len(v) /\ DOMAIN u = 1 .. Len(v) + m
  BY DEF IsTree, BitsDone
<1>2. ASSUME NEW i \in DOMAIN v, i # 1 PROVE ProperNode(u[i])
  <2>1. u[i].name = v[i].name /\ u[i].val = v[i].val
    BY DEF BitsDone
  <2>2. ProperNode(v[i])
    BY <1>2 DEF Proper
  <2> QED
    BY <2>1, <2>2 DEF ProperNode
<1>3. ASSUME NEW j \in 1 .. m PROVE ProperNode(u[Len(v) + j])
  BY DEF BitsDone, ProperNode
<1>4. \A i \in DOMAIN u : i \in DOMAIN v \/ (i - Len(v) \in 1 .. m /\ i = Len(v) + (i - Len(v)))
  BY <1>1
<1> QED
  BY <1>1, <1>2, <1>3, <1>4 DEF Proper

(* The container of the bits, and the bits in it.                           *)
LEMMA BitmapDone ==
  ASSUME NEW t, IsTree(t), NEW p, OpenAt(t, p), NEW S, NEW bits \in Seq(S), NEW u,
         u = WithBits(AddChild(t, p, "main", <<>>), Len(t) + 1, bits)
  PROVE  IsTree(u) /\ OpenAt(u, p) /\ Up(u, p) = Up(t, p) /\ (Proper(t) => Proper(u))
<1> DEFINE v == AddChild(t, p, "main", <<>>)
           n == Len(t) + 1
<1>1. Grown(t, p, "main", v)
  BY ChildGrown
<1>2. Len(t) \in Nat /\ p \in 1 .. Len(t)
  BY DEF OpenAt, IsTree
<1>3. u = WithBits(v, n, bits)
  OBVIOUS
<1> HIDE DEF v
<1>4. /\ IsTree(v) /\ OpenAt(v, p) /\ Up(v, p) = Up(t, p)
      /\ v[n].name = "main" /\ Kids(v, n) = <<>> /\ Len(v) = n
  BY <1>1 DEF Grown
<1>5. n \in DOMAIN v /\ p < n /\ v[n].name # "freed"
  <2>1. DOMAIN v = 1 .. Len(v)
    BY <1>4 DEF IsTree
  <2> QED
    BY <1>2, <1>4, <2>1
<1> HIDE DEF n
<1>6. /\ BitsDone(v, n, bits, WithBits(v, n, bits), Len(bits))
      /\ \A q : q < n /\ OpenAt(v, q) =>
            OpenAt(WithBits(v, n, bits), q) /\ Up(WithBits(v, n, bits), q) = Up(v, q)
  BY <1>4, <1>5, BitsAdded
<1>7. Proper(t) => Proper(v)
  BY <1>1, ChildProper DEF v, ProperNode, OpenAt
<1>8. Proper(v) => Proper(u)
  <2>1. Len(bits) \in Nat
    OBVIOUS
  <2> QED
    BY <1>3, <1>4, <1>5, <1>6, <2>1, BitsProper
<1> QED
  BY <1>3, <1>4, <1>5, <1>6, <1>7, <1>8 DEF BitsDone

------------------------------------------------------------------------------
(* The steps keep the tree.                                                 *)
LEMMA TreeInit == Init => TreeInv
  BY RootTree DEF Init, TreeInv

LEMMA DeleteTree == Delete => TreeInv'
  BY RootTree DEF Delete, TreeInv, Alive

LEMMA FlushTree ==
  ASSUME TreeInv, Flush
  PROVE  TreeInv'
<1>1. IsTree(tree) /\ OpenAt(tree, prnt) /\ cur = 0
  BY DEF Flush, CanFlush, TreeInv, Alive
<1>2. 1 \in Up(tree, prnt)
  BY <1>1, UpFacts DEF OpenAt
<1>3. tree' = BreakAll(tree, Branch(tree, 1, prnt)) /\ prnt' = 1 /\ cur' = cur
  BY DEF Flush
<1>4. PICK m \in Nat : Opened(tree, prnt, BreakAll(tree, Branch(tree, 1, prnt)), 1, m)
  BY <1>1, <1>2, AllBroken
<1>5. IsTree(tree') /\ OpenAt(tree', 1)
  BY <1>3, <1>4 DEF Opened
<1> QED
  BY <1>1, <1>3, <1>5 DEF TreeInv

LEMMA FlushFailsTree ==
  ASSUME TreeInv, FlushFails
  PROVE  TreeInv'
<1>1. IsTree(tree) /\ OpenAt(tree, prnt) /\ cur = 0
  BY DEF FlushFails, CanFlush, TreeInv, Alive
<1>2. 1 \in Up(tree, prnt)
  BY <1>1, UpFacts DEF OpenAt
<1>3. /\ tree' \in BrokenPartly(tree, Branch(tree, 1, prnt))
      /\ failed' = (tree' # tree) /\ prnt' = prnt /\ cur' = cur
  BY DEF FlushFails
<1>4. IsTree(tree')
  BY <1>1, <1>2, <1>3, PartlyBroken
<1> QED
  BY <1>1, <1>3, <1>4 DEF TreeInv, Alive

LEMMA PutSimpleTree ==
  ASSUME TreeInv, Alive, NEW it, PutSimple(it)
  PROVE  IsTree(tree') /\ OpenAt(tree', prnt') /\ cur' = 0
<1>1. IsTree(tree) /\ OpenAt(tree, prnt) /\ cur = 0
  BY DEF TreeInv
<1>2. tree' = AddChild(tree, prnt, it.kind, SimpleVal(it)) /\ prnt' = prnt /\ cur' = cur
  BY DEF PutSimple
<1>3. it.kind # "freed"
  BY DEF PutSimple, SimpleKinds
<1>4. Grown(tree, prnt, it.kind, AddChild(tree, prnt, it.kind, SimpleVal(it)))
  BY <1>1, <1>3, ChildGrown
<1> QED
  BY <1>1, <1>2, <1>4 DEF Grown

LEMMA PutMainTree ==
  ASSUME TreeInv, Alive, NEW it \in Alphabet, PutMain(it)
  PROVE  IsTree(tree') /\ OpenAt(tree', prnt') /\ cur' = 0
<1>1. IsTree(tree) /\ OpenAt(tree, prnt) /\ cur = 0
  BY DEF TreeInv
<1>2. /\ tree' = WithBits(AddChild(tree, prnt, "main", <<>>), Len(tree) + 1, it.val)
      /\ prnt' = prnt /\ cur' = cur /\ it.kind = "main"
  BY DEF PutMain
<1>3. it.val \in Seq(ToSet(it.val))
  BY <1>2, AlphabetAssumption
<1>4. IsTree(tree') /\ OpenAt(tree', prnt)
  BY <1>1, <1>2, <1>3, BitmapDone
<1> QED
  BY <1>1, <1>2, <1>4

LEMMA PutStartTree ==
  ASSUME TreeInv, Alive, NEW it, PutStart(it)
  PROVE  IsTree(tree') /\ OpenAt(tree', prnt') /\ cur' = 0
<1> DEFINE name == Groups[it.kind]
<1>1. IsTree(tree) /\ OpenAt(tree, prnt) /\ cur = 0
  BY DEF TreeInv
<1>2. tree' = AddChild(tree, prnt, name, it.val) /\ prnt' = Len(tree) + 1 /\ cur' = cur
  BY DEF PutStart
<1>3. name \in GroupNames
  BY DEF PutStart, Groups, GroupNames
<1> HIDE DEF name
<1>4. Grown(tree, prnt, name, AddChild(tree, prnt, name, it.val))
  BY <1>1, <1>3, ChildGrown DEF GroupNames
<1> QED
  BY <1>1, <1>2, <1>3, <1>4 DEF Grown

(* A group is the nearest of its name, not the root.                        *)
LEMMA EndsNearest ==
  ASSUME IsTree(tree), OpenAt(tree, prnt), NEW g \in GroupNames, NEW n, n = NearestGroup(g),
         n # 0
  PROVE  /\ n \in Up(tree, prnt) /\ n # 1 /\ n \in DOMAIN tree
         /\ tree[n].name = g
<1>1. n \in Up(tree, prnt) /\ tree[n].name = g
  BY NearestIs
<1>2. tree[1].name = "descriptor"
  BY DEF IsTree
<1>3. n \in DOMAIN tree
  BY <1>1, UpFacts DEF OpenAt
<1> QED
  BY <1>1, <1>2, <1>3 DEF GroupNames

LEMMA PutEndTree ==
  ASSUME TreeInv, Alive, NEW it, PutEnd(it)
  PROVE  IsTree(tree') /\ OpenAt(tree', prnt') /\ cur' = 0
<1> DEFINE name == Ends[it.kind]
           g == NearestGroup(name)
           u == BreakAll(tree, Branch(tree, g, prnt))
<1>1. IsTree(tree) /\ OpenAt(tree, prnt) /\ cur = 0
  BY DEF TreeInv
<1>2. name \in GroupNames /\ cur' = cur
  BY DEF PutEnd, Ends, GroupNames
<1>3. \/ tree' = AddEnd(tree, prnt, name) /\ prnt' = prnt
      \/ g # 0 /\ tree' = u /\ prnt' = tree[g].up
  BY DEF PutEnd
<1> HIDE DEF name
<1>4. CASE tree' = AddEnd(tree, prnt, name) /\ prnt' = prnt
  <2>1. Grown(tree, prnt, EndName(name), AddEnd(tree, prnt, name))
    BY <1>1, <1>2, EndGrown
  <2> QED
    BY <1>1, <1>2, <1>4, <2>1 DEF Grown
<1>5. CASE g # 0 /\ tree' = u /\ prnt' = tree[g].up
  <2>1. g \in Up(tree, prnt) /\ g # 1 /\ g \in DOMAIN tree
    BY <1>1, <1>2, <1>5, EndsNearest
  <2> HIDE DEF g
  <2>2. PICK m \in Nat : Opened(tree, prnt, u, g, m)
    BY <1>1, <2>1, AllBroken
  <2> HIDE DEF u
  <2>3. IsTree(u) /\ OpenAt(u, g) /\ SameBelow(tree, u, g)
    BY <2>2 DEF Opened
  <2>4. u[g].up = tree[g].up
    BY <1>1, <2>1, <2>3 DEF SameBelow, IsTree
  <2>5. OpenAt(u, u[g].up)
    BY <2>1, <2>3, UpOpen
  <2> QED
    BY <1>1, <1>2, <1>5, <2>3, <2>4, <2>5
<1> QED
  BY <1>3, <1>4, <1>5

LEMMA FailTree ==
  ASSUME TreeInv, NEW it \in Alphabet, PutFails(it)
  PROVE  TreeInv'
<1>1. IsTree(tree) /\ OpenAt(tree, prnt)
  BY DEF PutFails, CanPut, TreeInv, Alive
<1>2. failed' = TRUE
  BY DEF PutFails
<1>3. CASE FailsBeforeElement(it)
  BY <1>1, <1>2, <1>3 DEF FailsBeforeElement, TreeInv, Alive
<1>4. CASE FailsInElement(it)
  <2> DEFINE name == IF it.kind = "collection" THEN "COLLECTION" ELSE it.kind
  <2>1. name # "freed"
    BY <1>4 DEF FailsInElement, SimpleKinds
  <2>2. tree' = AddChild(tree, prnt, name, <<>>)
    BY <1>4 DEF FailsInElement
  <2> HIDE DEF name
  <2>3. Grown(tree, prnt, name, AddChild(tree, prnt, name, <<>>))
    BY <1>1, <2>1, ChildGrown
  <2> QED
    BY <1>2, <2>2, <2>3 DEF Grown, TreeInv, Alive
<1>5. CASE FailsInBitmap(it)
  <2> DEFINE S == ToSet(it.val)
  <2>1. PICK n \in 0 .. Len(it.val) - 1 :
          tree' = WithBits(AddChild(tree, prnt, "main", <<>>), Len(tree) + 1,
                           SubSeq(it.val, 1, n))
    BY <1>5 DEF FailsInBitmap
  <2>2. it.val \in Seq(S)
    BY <1>5, AlphabetAssumption DEF FailsInBitmap
  <2> HIDE DEF S
  <2>3. SubSeq(it.val, 1, n) \in Seq(S)
    BY <2>2
  <2>4. IsTree(tree')
    BY <1>1, <2>1, <2>3, BitmapDone
  <2> QED
    BY <1>2, <2>4 DEF TreeInv, Alive
<1>6. CASE FailsInBreak(it)
  <2> DEFINE g == NearestGroup(Ends[it.kind])
  <2>1. Ends[it.kind] \in GroupNames /\ g # 0
    BY <1>6 DEF FailsInBreak, Ends, GroupNames
  <2>2. tree' \in BrokenPartly(tree, Branch(tree, g, prnt))
    BY <1>6 DEF FailsInBreak
  <2>3. g \in Up(tree, prnt)
    BY <1>1, <2>1, EndsNearest
  <2> HIDE DEF g
  <2>4. IsTree(tree')
    BY <1>1, <2>2, <2>3, PartlyBroken
  <2> QED
    BY <1>2, <2>4 DEF TreeInv, Alive
<1> QED
  BY <1>3, <1>4, <1>5, <1>6 DEF PutFails

LEMMA TreeNext ==
  ASSUME TreeInv, [Next]_vars
  PROVE  TreeInv'
<1>1. ASSUME NEW it \in Alphabet, Put(it) PROVE TreeInv'
  <2>1. Alive
    BY <1>1 DEF Put, CanPut, Alive
  <2>2. IsTree(tree') /\ OpenAt(tree', prnt') /\ cur' = 0
    BY <1>1, <2>1, PutSimpleTree, PutMainTree, PutStartTree, PutEndTree DEF Put
  <2> QED
    BY <2>2 DEF TreeInv
<1>2. ASSUME NEW it \in Alphabet, PutFails(it) PROVE TreeInv'
  BY <1>2, FailTree
<1>3. CASE Flush
  BY <1>3, FlushTree
<1>4. CASE FlushFails
  BY <1>4, FlushFailsTree
<1>5. CASE Delete
  BY <1>5, DeleteTree
<1>6. CASE UNCHANGED vars
  BY <1>6 DEF vars, TreeInv, Alive
<1> QED
  BY <1>1, <1>2, <1>3, <1>4, <1>5, <1>6 DEF Next

(* The document is a tree after every history of puts, failures and         *)
(* flushes, those that fail in the middle of breaking groups included; as   *)
(* long as the user may go on, the open groups are the last children of     *)
(* their parents.                                                           *)
THEOREM TreeInvariant == Spec => []TreeInv
<1> QED
  BY TreeInit, TreeNext, PTL DEF Spec

------------------------------------------------------------------------------
LEMMA KidsFew ==
  ASSUME NEW t, IsTree(t), NEW e \in DOMAIN t
  PROVE  Len(Kids(t, e)) \in Nat /\ Len(Kids(t, e)) <= Len(t)
<1> DEFINE s == Kids(t, e)
           n == Len(s)
<1>1. Len(t) \in Nat /\ DOMAIN t = 1 .. Len(t)
  BY DEF IsTree
<1>2. s \in Seq(DOMAIN t \ {1}) /\ \A i, j \in DOMAIN s : i # j => s[i] # s[j]
  BY DEF IsTree, LinksDown
<1> HIDE DEF s
<1>3. n \in Nat /\ s \in [1 .. n -> 1 .. Len(t)] /\ DOMAIN s = 1 .. n
  BY <1>1, <1>2
<1>4. s \in Injection(1 .. n, 1 .. Len(t))
  BY <1>2, <1>3 DEF Injection, IsInjective
<1>5. IsFiniteSet(1 .. Len(t)) /\ Cardinality(1 .. Len(t)) = Len(t) /\ Cardinality(1 .. n) = n
  <2>1. \A m \in Nat : IsFiniteSet(1 .. m) /\ Cardinality(1 .. m) = m
    <3> TAKE m \in Nat
    <3>1. IsFiniteSet(1 .. m) /\ Cardinality(1 .. m) = IF 1 > m THEN 0 ELSE m - 1 + 1
      BY FS_Interval
    <3> QED
      BY <3>1
  <2> QED
    BY <1>1, <1>3, <2>1
<1>6. Cardinality(1 .. n) <= Cardinality(1 .. Len(t))
  BY <1>4, <1>5, FS_Injection
<1> QED
  BY <1>3, <1>5, <1>6 DEF s

LEMMA TreeIsSound == TreeInv => TreeSound
<1> SUFFICES ASSUME TreeInv PROVE TreeSound
  OBVIOUS
<1> DEFINE N == DOMAIN tree
           Links(e) == {link \in N \X N :
               link[2] \in DOMAIN tree[link[1]].kids /\ tree[link[1]].kids[link[2]] = e}
<1>1. IsTree(tree)
  BY DEF TreeInv
<1>2. /\ Len(tree) \in Nat /\ N = 1 .. Len(tree)
      /\ \A e \in N : LinksDown(tree, e) /\ LinksUp(tree, e)
  BY <1>1 DEF IsTree
<1>3. ASSUME NEW e \in N, NEW i \in DOMAIN tree[e].kids
      PROVE  tree[tree[e].kids[i]].up = e /\ tree[tree[e].kids[i]].name # "freed"
  <2>1. /\ Kids(tree, e) \in Seq(N \ {1})
        /\ tree[Kids(tree, e)[i]].up = e
    BY <1>2, <1>3 DEF LinksDown, Kids
  <2>2. Kids(tree, e)[i] \in N
    <3>1. i \in DOMAIN Kids(tree, e)
      BY <1>3 DEF Kids
    <3> QED
      BY <2>1, <3>1
  <2>3. e # 0
    BY <1>2
  <2>4. tree[Kids(tree, e)[i]].name # "freed"
    BY <1>2, <2>1, <2>2, <2>3 DEF LinksUp
  <2> QED
    BY <2>1, <2>4 DEF Kids
<1>4. ASSUME NEW e \in N \ {1}, tree[e].name # "freed" PROVE Cardinality(Links(e)) = 1
  <2> DEFINE p == tree[e].up
  <2>1. /\ p \in 0 .. e - 1 /\ p # 0
        /\ \E i \in DOMAIN Kids(tree, p) : Kids(tree, p)[i] = e
    BY <1>2, <1>4 DEF LinksUp
  <2>2. PICK i \in DOMAIN Kids(tree, p) : Kids(tree, p)[i] = e
    BY <2>1
  <2>3. p \in N
    BY <1>2, <2>1
  <2> HIDE DEF p
  <2>4. ASSUME NEW link \in N \X N PROVE link \in Links(e) <=> link = <<p, i>>
    <3>1. ASSUME link \in Links(e) PROVE link = <<p, i>>
      <4>1. /\ link[1] \in N /\ link[2] \in DOMAIN Kids(tree, link[1])
            /\ Kids(tree, link[1])[link[2]] = e
        BY <3>1 DEF Kids
      <4>2. link[1] = p
        BY <1>2, <4>1 DEF LinksDown, p
      <4>3. link[2] = i
        BY <1>2, <2>2, <2>3, <4>1, <4>2 DEF LinksDown
      <4> QED
        BY <4>2, <4>3
    <3>2. ASSUME link = <<p, i>> PROVE link \in Links(e)
      BY <2>2, <3>2 DEF Kids
    <3> QED
      BY <3>1, <3>2
  <2>5. i \in N
    <3>1. Len(Kids(tree, p)) <= Len(tree)
      BY <1>1, <2>3, KidsFew
    <3>2. Kids(tree, p) \in Seq(N \ {1})
      BY <1>2, <2>3 DEF LinksDown
    <3> QED
      BY <1>2, <2>2, <3>1, <3>2
  <2>6. Links(e) = {<<p, i>>}
    BY <2>3, <2>4, <2>5
  <2> QED
    BY <2>6, FS_Singleton
<1> QED
  BY <1>3, <1>4 DEF TreeSound, Nodes

LEMMA CallsAreSound == TreeInv => CallsSound
<1> SUFFICES ASSUME TreeInv, Alive PROVE CallsSound
  BY DEF CallsSound
<1>1. IsTree(tree) /\ OpenAt(tree, prnt) /\ cur = 0
  BY DEF TreeInv
<1>2. OpenNodes = Up(tree, prnt)
  BY DEF OpenNodes, Up
<1>3. 1 \in Up(tree, prnt)
  BY <1>1, UpFacts DEF OpenAt
<1>4. \A e \in Up(tree, prnt) \ {1} : tree[e].name \in GroupNames
  BY <1>1 DEF OpenAt
<1> QED
  BY <1>1, <1>2, <1>3, <1>4 DEF CallsSound

(* Breaking groups, flushing, deleting and running out of memory, also in a *)
(* flush between two groups or inside one, leave every element of the       *)
(* document linked to its parent once, and none to an element that was      *)
(* freed.                                                                   *)
THEOREM TreeIsKept == Spec => []TreeSound
<1> QED
  BY TreeInvariant, TreeIsSound, PTL

(* Whatever was put before, and after a flush that broke all groups or none *)
(* of them, the next call finds no element half made, and a parent that is  *)
(* in the document below nothing but groups still open.  After a failed put *)
(* or a flush that failed halfway there is no next call but the deletion.   *)
THEOREM CallsAreSafe == Spec => []CallsSound
<1> QED
  BY TreeInvariant, CallsAreSound, PTL

(* The round trip drives the sink by its own steps.                         *)
LEMMA RoundTripIsSink == RTSpec => Spec
<1>1. RTInit => Init
  BY DEF RTInit
<1>2. ASSUME [RTNext]_<<snk, src, reading>> PROVE [Next]_vars
  <2>1. CASE Write
    BY <2>1 DEF Write, Next
  <2>2. CASE Open \/ Read
    BY <2>2 DEF Open, Read, snk, vars
  <2>3. CASE UNCHANGED <<snk, src, reading>>
    BY <2>3 DEF snk, vars
  <2> QED
    BY <1>2, <2>1, <2>2, <2>3 DEF RTNext
<1> QED
  BY <1>1, <1>2, PTL DEF RTSpec, Spec

(* The same under the source that hidrd-convert opens on the document.      *)
THEOREM TreeIsKeptInRoundTrip == RTSpec => []TreeSound
<1> QED
  BY RoundTripIsSink, TreeIsKept, PTL

THEOREM CallsAreSafeInRoundTrip == RTSpec => []CallsSound
<1> QED
  BY RoundTripIsSink, CallsAreSafe, PTL

------------------------------------------------------------------------------
(* What the document stands for after each put.                             *)
LEMMA AddedExtends ==
  ASSUME NEW t, IsTree(t), NEW p \in DOMAIN t, NEW node, NEW u, IsTree(u), IsAdded(t, p, node, u)
  PROVE  Extended(t, p, u)
<1>1. Len(t) \in Nat /\ DOMAIN t = 1 .. Len(t) /\ DOMAIN u = 1 .. Len(t) + 1
  BY DEF IsTree, IsAdded
<1>2. Len(t) + 1 \in DOMAIN u /\ \A i \in DOMAIN t : i \in DOMAIN u
  BY <1>1
<1>3. ASSUME NEW i \in DOMAIN t
      PROVE  /\ u[i].name = t[i].name /\ u[i].val = t[i].val
             /\ i # p => Kids(u, i) = Kids(t, i)
  BY DEF IsAdded, Kids
<1>4. Kids(u, p) = Append(Kids(t, p), Len(t) + 1)
  BY DEF IsAdded, Kids
<1> QED
  BY <1>2, <1>3, <1>4 DEF Extended

LEMMA UpAdded ==
  ASSUME NEW t, IsTree(t), NEW p, OpenAt(t, p), NEW name, NEW u, Grown(t, p, name, u)
  PROVE  /\ \A i \in DOMAIN t : i \in Up(u, p) <=> i \in Up(t, p)
         /\ \A i \in DOMAIN t : i \in Up(u, Len(t) + 1) <=> i \in Up(t, p)
         /\ Len(t) + 1 \in Up(u, Len(t) + 1)
<1>1. Up(u, p) = Up(t, p) /\ Up(u, Len(t) + 1) = {Len(t) + 1} \cup Up(t, p)
  BY DEF Grown
<1>2. \A i \in DOMAIN t : i # Len(t) + 1
  BY DEF IsTree
<1> QED
  BY <1>1, <1>2

LEMMA NothingInside ==
  ASSUME NEW t, IsTree(t), NEW o, NEW e \in DOMAIN t, Kids(t, e) = <<>>
  PROVE  Inside(t, o)[e] = <<>>
<1>1. Len(Kids(t, e)) = 0
  OBVIOUS
<1>2. Inside(t, o)[e] = Joined(RowOf(t, o, e), 0)
  BY <1>1, TreeFalls, InsideDef
<1> QED
  BY <1>2, JoinedNext

LEMMA SimplePart ==
  ASSUME NEW u, NEW v, NEW z, u[z].name \notin GroupNames, u[z].name # "text"
  PROVE  Part(u, v, z) = <<ItemOf(u[z], BitsOf(u, z))>>
BY DEF Part, NodeItems

LEMMA NodeAddsItem ==
  ASSUME NEW t, IsTree(t), NEW p, OpenAt(t, p),
         NEW node, IsNode(node), node.name # "freed", node.up = p, node.kids = <<>>,
         node.name # "text", node.name \notin GroupNames,
         NEW u, IsAdded(t, p, node, u)
  PROVE  \E bits : Items(u, Up(u, p)) = Items(t, Up(t, p)) \o <<ItemOf(node, bits)>>
<1> DEFINE z == Len(t) + 1
           v == Up(u, p)
<1>1. p \in DOMAIN t /\ Grown(t, p, node.name, u) /\ u[z] = node
  BY NodeGrown DEF OpenAt, IsAdded
<1>2. IsTree(u)
  BY <1>1 DEF Grown
<1>3. Extended(t, p, u)
  BY <1>1, <1>2, AddedExtends
<1>4. \A i \in DOMAIN t : i \in v <=> i \in Up(t, p)
  BY <1>1, UpAdded
<1> HIDE DEF v
<1>5. Items(u, v) = Items(t, Up(t, p)) \o Part(u, v, z)
  BY <1>3, <1>4, ExtendedItems
<1>6. Part(u, v, z) = <<ItemOf(u[z], BitsOf(u, z))>>
  BY <1>1, SimplePart
<1> QED
  BY <1>1, <1>5, <1>6 DEF v

LEMMA NodeAddsStart ==
  ASSUME NEW t, IsTree(t), NEW p, OpenAt(t, p),
         NEW node, IsNode(node), node.name # "freed", node.up = p, node.kids = <<>>,
         node.name \in GroupNames,
         NEW u, IsAdded(t, p, node, u)
  PROVE  Items(u, Up(u, Len(t) + 1)) = Items(t, Up(t, p)) \o <<StartItem(node)>>
<1> DEFINE z == Len(t) + 1
           v == Up(u, Len(t) + 1)
           s == <<StartItem(node)>>
<1>1. p \in DOMAIN t /\ Grown(t, p, node.name, u) /\ u[z] = node
  BY NodeGrown DEF OpenAt, IsAdded
<1>2. IsTree(u) /\ Kids(u, z) = <<>>
  BY <1>1 DEF Grown
<1>3. Extended(t, p, u)
  BY <1>1, <1>2, AddedExtends
<1>4. z \in v /\ \A i \in DOMAIN t : i \in v <=> i \in Up(t, p)
  BY <1>1, UpAdded
<1>5. z \in DOMAIN u
  BY <1>3 DEF Extended
<1> HIDE DEF v
<1>6. Items(u, v) = Items(t, Up(t, p)) \o Part(u, v, z)
  BY <1>3, <1>4, ExtendedItems
<1>7. Inside(u, v)[z] = <<>>
  BY <1>2, <1>5, NothingInside
<1>8. NodeItems(u, v, z, <<>>) = <<StartItem(u[z])>> \o <<>>
  <2> DEFINE a == <<>>
  <2>1. IsSeq(a) /\ u[z].name \in GroupNames
    BY <1>1, ShortSeqs
  <2> HIDE DEF a, z
  <2>2. NodeItems(u, v, z, a) = <<StartItem(u[z])>> \o a
    BY <1>4, <2>1, OpenPart
  <2> QED
    BY <2>2 DEF a
<1>9. s \o <<>> = s
  BY ShortSeqs, ConcatEmpty
<1>10. Part(u, v, z) = s
  BY <1>1, <1>7, <1>8, <1>9 DEF Part
<1> QED
  BY <1>6, <1>10 DEF v

(* A bitmap element stands for the item of its bits.                        *)
LEMMA SinglesJoined ==
  ASSUME NEW S, NEW bits \in Seq(S), NEW p, \A i \in 1 .. Len(bits) : p[i] = <<bits[i]>>
  PROVE  Joined(p, Len(bits)) = bits
<1> DEFINE n == Len(bits)
           K == {m \in Nat : m <= n => Joined(p, m) = SubSeq(bits, 1, m)}
<1>1. 0 \in K
  <2>1. SubSeq(bits, 1, 0) = <<>>
    OBVIOUS
  <2> QED
    BY <2>1, JoinedNext
<1>2. ASSUME NEW m \in Nat, m \in K PROVE m + 1 \in K
  <2> SUFFICES ASSUME m + 1 <= n PROVE Joined(p, m + 1) = SubSeq(bits, 1, m + 1)
    OBVIOUS
  <2>1. m + 1 \in 1 .. n /\ m <= n
    OBVIOUS
  <2>2. Joined(p, m + 1) = SubSeq(bits, 1, m) \o <<bits[m + 1]>>
    BY <1>2, <2>1, JoinedNext
  <2>3. SubSeq(bits, 1, m) \o <<bits[m + 1]>> = SubSeq(bits, 1, m + 1)
    BY <2>1
  <2> QED
    BY <2>2, <2>3
<1> HIDE DEF K
<1>3. n \in Nat /\ n \in K
  BY <1>1, <1>2, NumberInduction
<1>4. SubSeq(bits, 1, n) = bits
  OBVIOUS
<1> QED
  BY <1>3, <1>4 DEF K

LEMMA BitmapItems ==
  ASSUME NEW t, IsTree(t), NEW p, OpenAt(t, p), NEW S, NEW bits \in Seq(S), NEW u,
         u = WithBits(AddChild(t, p, "main", <<>>), Len(t) + 1, bits)
  PROVE  Items(u, Up(u, p)) = Items(t, Up(t, p)) \o <<Item("main", bits)>>
<1> DEFINE w == AddChild(t, p, "main", <<>>)
           z == Len(t) + 1
           m == Len(bits)
           v == Up(u, p)
           node == [name |-> "main", val |-> <<>>, ns |-> t[p].ns, up |-> p, kids |-> <<>>]
<1>1. Grown(t, p, "main", w) /\ p \in DOMAIN t
  BY ChildGrown DEF OpenAt
<1>2. Len(t) \in Nat /\ DOMAIN t = 1 .. Len(t) /\ p # z /\ \A i \in DOMAIN t : i # z
  BY <1>1 DEF IsTree
<1>3. u = WithBits(w, z, bits)
  OBVIOUS
<1>4. IsAdded(t, p, node, w)
  BY <1>1, ChildIs
<1> HIDE DEF w, node
<1>5. IsTree(w) /\ Len(w) = z /\ w[z].name = "main" /\ Kids(w, z) = <<>>
  BY <1>1 DEF Grown
<1>6. z \in DOMAIN w /\ w[z].name # "freed" /\ DOMAIN w = 1 .. z
  <2>1. DOMAIN w = 1 .. Len(w)
    BY <1>5 DEF IsTree
  <2> QED
    BY <1>2, <1>5, <2>1
<1>7. Extended(t, p, w)
  BY <1>1, <1>4, <1>5, AddedExtends
<1>8. BitsDone(w, z, bits, WithBits(w, z, bits), m)
  <2> HIDE DEF z
  <2> QED
    BY <1>5, <1>6, BitsAdded
<1>9. /\ IsTree(u) /\ Len(u) = z + m /\ m \in Nat
      /\ \A i \in DOMAIN w \ {z} : u[i] = w[i]
      /\ u[z].name = "main"
      /\ Kids(u, z) = [j \in 1 .. m |-> z + j]
      /\ \A j \in 1 .. m : u[z + j].name = "bit" /\ u[z + j].val = <<bits[j]>>
  BY <1>3, <1>5, <1>8 DEF BitsDone
<1>10. DOMAIN u = 1 .. z + m
  BY <1>9 DEF IsTree
<1>11. Extended(t, p, u)
  <2>1. ASSUME NEW i \in DOMAIN t
        PROVE  /\ i \in DOMAIN u
               /\ u[i].name = t[i].name /\ u[i].val = t[i].val
               /\ i # p => Kids(u, i) = Kids(t, i)
    <3>1. i \in DOMAIN w \ {z} /\ i \in DOMAIN u
      BY <1>2, <1>6, <1>9, <1>10
    <3>2. u[i] = w[i]
      BY <1>9, <3>1
    <3>3. w[i].name = t[i].name /\ w[i].val = t[i].val /\ (i # p => Kids(w, i) = Kids(t, i))
      BY <1>7 DEF Extended
    <3> QED
      BY <3>1, <3>2, <3>3 DEF Kids
  <2>2. u[p] = w[p] /\ Kids(w, p) = Append(Kids(t, p), z)
    BY <1>1, <1>2, <1>6, <1>7, <1>9 DEF Extended
  <2>3. z \in DOMAIN u
    BY <1>2, <1>9, <1>10
  <2> QED
    BY <1>9, <2>1, <2>2, <2>3 DEF Extended, Kids
<1>12. v = Up(t, p)
  BY BitmapDone
<1>13. Items(u, v) = Items(t, Up(t, p)) \o Part(u, v, z)
  <2>1. \A i \in DOMAIN t : i \in v <=> i \in Up(t, p)
    BY <1>12
  <2> HIDE DEF v
  <2> QED
    BY <1>11, <2>1, ExtendedItems
<1>14. BitsOf(u, z) = bits
  <2> DEFINE P == [i \in DOMAIN u[z].kids |->
                      [k \in DOMAIN u |-> IF u[k].name = "text" THEN <<>> ELSE u[k].val]
                          [u[z].kids[i]]]
  <2>1. Kids(u, z) = u[z].kids /\ DOMAIN Kids(u, z) = 1 .. m /\ Len(Kids(u, z)) = m
    <3>1. Len(Kids(u, z)) = m
      BY <1>9, FunctionIsSeq
    <3> QED
      BY <1>9, <3>1 DEF Kids
  <2>2. BitsOf(u, z) = Joined(P, m)
    BY <2>1 DEF BitsOf, OfKids
  <2>3. ASSUME NEW i \in 1 .. m PROVE P[i] = <<bits[i]>>
    <3>1. u[z].kids[i] = z + i /\ z + i \in DOMAIN u
      BY <1>2, <1>9, <1>10, <2>1
    <3> QED
      BY <1>9, <2>1, <3>1
  <2> HIDE DEF P
  <2> QED
    BY <2>2, <2>3, SinglesJoined
<1>15. Part(u, v, z) = <<ItemOf(u[z], bits)>>
  <2>1. u[z].name \notin GroupNames /\ u[z].name # "text"
    BY <1>9 DEF GroupNames
  <2> QED
    BY <1>14, <2>1, SimplePart
<1>16. ItemOf(u[z], bits) = Item("main", bits)
  BY <1>9 DEF ItemOf
<1> QED
  BY <1>13, <1>15, <1>16 DEF v

(* The item added to the document is the one put, or a usage that means the *)
(* same there.                                                              *)
Stands(x, it) ==
    /\ Resolve(x, page) = Resolve(it, page)
    /\ PagesAfter(x, state) = PagesAfter(it, state)
Appends(it) ==
    /\ state' = PagesAfter(it, state)
    /\ \E x : /\ Stands(x, it)
              /\ Items(tree', Up(tree', prnt')) = Items(tree, Up(tree, prnt)) \o <<x>>

LEMMA StateIsPages == \A it : StateAfter(it) = PagesAfter(it, state)
BY DEF StateAfter, PagesAfter, page

LEMMA UsageStands ==
  ASSUME NEW it, it = Item("usage", <<it.val[1], it.val[2]>>)
  PROVE  Stands(Item("usage", UsageText(it.val)), it)
<1> DEFINE u == it.val
           a == u[1]
           b == u[2]
           x == Item("usage", UsageText(u))
<1>1. it.kind = "usage" /\ u = <<a, b>>
  BY DEF Item
<1>2. FullUsage(u) = <<IF a = 0 THEN page ELSE a, b>>
  BY <1>1 DEF FullUsage
<1>3. UsageText(u) = FullUsage(u) \/ (FullUsage(u)[1] = page /\ UsageText(u) = <<0, b>>)
  BY <1>2 DEF UsageText
<1>4. Resolve(it, page) = Item("usage", FullUsage(u))
  <2>1. CASE a = 0
    BY <1>1, <1>2, <2>1 DEF Resolve
  <2>2. CASE a # 0
    BY <1>1, <1>2, <2>2 DEF Resolve
  <2> QED
    BY <2>1, <2>2
<1>5. x.kind = "usage" /\ x.val = UsageText(u)
  BY DEF Item
<1>6. Resolve(x, page) = Item("usage", FullUsage(u))
  <2> HIDE DEF u, a, b
  <2>1. CASE UsageText(u) = FullUsage(u)
    <3>1. CASE FullUsage(u)[1] = 0
      <4>1. Resolve(x, page) = Item("usage", <<page, b>>)
        BY <1>2, <1>5, <2>1, <3>1 DEF Resolve
      <4>2. page = 0 \/ a = 0
        BY <1>2, <3>1
      <4>3. FullUsage(u) = <<page, b>>
        BY <1>2, <3>1, <4>2
      <4> QED
        BY <4>1, <4>3
    <3>2. CASE FullUsage(u)[1] # 0
      BY <1>5, <2>1, <3>2 DEF Resolve
    <3> QED
      BY <3>1, <3>2
  <2>2. CASE FullUsage(u)[1] = page /\ UsageText(u) = <<0, b>>
    <3>1. Resolve(x, page) = Item("usage", <<page, b>>)
      BY <1>5, <2>2 DEF Resolve
    <3>2. FullUsage(u) = <<page, b>>
      BY <1>2, <2>2
    <3> QED
      BY <3>1, <3>2
  <2> QED
    BY <1>3, <2>1, <2>2
<1>7. PagesAfter(x, state) = state /\ PagesAfter(it, state) = state
  BY <1>1, <1>5 DEF PagesAfter
<1> QED
  BY <1>4, <1>6, <1>7 DEF Stands

LEMMA ItemStands == \A it : Stands(it, it)
  BY DEF Stands

LEMMA PutSimpleAppends ==
  ASSUME TreeInv, Alive, NEW it \in Alphabet, PutSimple(it)
  PROVE  Appends(it)
<1>1. IsTree(tree) /\ OpenAt(tree, prnt) /\ prnt \in DOMAIN tree
  BY DEF TreeInv, OpenAt
<1>2. /\ tree' = AddChild(tree, prnt, it.kind, SimpleVal(it)) /\ prnt' = prnt
      /\ state' = PagesAfter(it, state) /\ it.kind \in SimpleKinds
  BY StateIsPages DEF PutSimple
<1> DEFINE node == [name |-> it.kind, val |-> SimpleVal(it), ns |-> tree[prnt].ns,
                    up |-> prnt, kids |-> <<>>]
           u == AddChild(tree, prnt, it.kind, SimpleVal(it))
           x == Item(it.kind, SimpleVal(it))
<1>3. IsAdded(tree, prnt, node, u)
  BY <1>1, ChildIs
<1>4. /\ IsNode(node) /\ node.name = it.kind /\ node.up = prnt /\ node.kids = <<>>
      /\ node.val = SimpleVal(it)
  BY DEF IsNode
<1>5. node.name # "freed" /\ node.name # "text" /\ node.name \notin GroupNames
  BY <1>2, <1>4 DEF SimpleKinds, GroupNames
<1> HIDE DEF node, u
<1>6. PICK bits : Items(u, Up(u, prnt)) = Items(tree, Up(tree, prnt)) \o <<ItemOf(node, bits)>>
  BY <1>1, <1>3, <1>4, <1>5, NodeAddsItem
<1>7. ItemOf(node, bits) = x
  BY <1>2, <1>4 DEF ItemOf, SimpleKinds
<1>8. Stands(x, it)
  <2>1. it = Item(it.kind, it.val) /\ (it.kind = "usage" => it.val = <<it.val[1], it.val[2]>>)
    BY AlphabetAssumption
  <2>2. CASE it.kind = "usage"
    <3>1. it = Item("usage", <<it.val[1], it.val[2]>>)
      BY <2>1, <2>2
    <3>2. Stands(Item("usage", UsageText(it.val)), it)
      BY <3>1, UsageStands
    <3> QED
      BY <2>2, <3>2 DEF SimpleVal
  <2>3. CASE it.kind # "usage"
    BY <2>1, <2>3, ItemStands DEF SimpleVal
  <2> QED
    BY <2>2, <2>3
<1>9. tree' = u
  BY <1>2 DEF u
<1> HIDE DEF x
<1> QED
  BY <1>2, <1>6, <1>7, <1>8, <1>9 DEF Appends

LEMMA PutMainAppends ==
  ASSUME TreeInv, Alive, NEW it \in Alphabet, PutMain(it)
  PROVE  Appends(it)
<1>1. IsTree(tree) /\ OpenAt(tree, prnt)
  BY DEF TreeInv
<1>2. /\ tree' = WithBits(AddChild(tree, prnt, "main", <<>>), Len(tree) + 1, it.val)
      /\ prnt' = prnt /\ state' = state /\ it.kind = "main"
  BY DEF PutMain
<1>3. it.val \in Seq(ToSet(it.val)) /\ it = Item("main", it.val)
  BY <1>2, AlphabetAssumption
<1>4. Items(tree', Up(tree', prnt)) = Items(tree, Up(tree, prnt)) \o <<Item("main", it.val)>>
  BY <1>1, <1>2, <1>3, BitmapItems
<1>5. state' = PagesAfter(it, state)
  BY <1>2 DEF PagesAfter
<1>6. Up(tree', prnt') = Up(tree', prnt)
  BY <1>2
<1>7. Items(tree', Up(tree', prnt')) = Items(tree, Up(tree, prnt)) \o <<it>>
  BY <1>3, <1>4, <1>6
<1> QED
  BY <1>5, <1>7, ItemStands DEF Appends

LEMMA PutStartAppends ==
  ASSUME TreeInv, Alive, NEW it \in Alphabet, PutStart(it)
  PROVE  Appends(it)
<1> DEFINE name == Groups[it.kind]
           node == [name |-> name, val |-> it.val, ns |-> tree[prnt].ns,
                    up |-> prnt, kids |-> <<>>]
           u == AddChild(tree, prnt, name, it.val)
<1>1. IsTree(tree) /\ OpenAt(tree, prnt) /\ prnt \in DOMAIN tree
  BY DEF TreeInv, OpenAt
<1>2. /\ tree' = u /\ prnt' = Len(tree) + 1
      /\ state' = PagesAfter(it, state)
  BY StateIsPages DEF PutStart
<1>3. it.kind \in {"collection", "push", "open"} /\ name \in GroupNames
  BY DEF PutStart, Groups, GroupNames
<1>4. IsAdded(tree, prnt, node, u)
  BY <1>1, ChildIs
<1>5. /\ IsNode(node) /\ node.name = name /\ node.up = prnt /\ node.kids = <<>>
      /\ node.val = it.val
  BY DEF IsNode
<1>6. StartItem(node) = it
  <2>1. it = Item(it.kind, it.val) /\ (it.kind \in {"push", "open"} => it.val = <<>>)
    BY AlphabetAssumption
  <2>2. CASE it.kind = "collection"
    BY <1>5, <2>1, <2>2 DEF StartItem, Groups
  <2>3. CASE it.kind = "push"
    BY <1>5, <2>1, <2>3 DEF StartItem, Groups
  <2>4. CASE it.kind = "open"
    BY <1>5, <2>1, <2>4 DEF StartItem, Groups
  <2> QED
    BY <1>3, <2>2, <2>3, <2>4
<1> HIDE DEF name, node, u
<1>7. node.name # "freed" /\ node.name \in GroupNames
  BY <1>3, <1>5 DEF GroupNames
<1>8. Items(u, Up(u, Len(tree) + 1)) = Items(tree, Up(tree, prnt)) \o <<StartItem(node)>>
  BY <1>1, <1>4, <1>5, <1>7, NodeAddsStart
<1> QED
  BY <1>2, <1>6, <1>8, ItemStands DEF Appends

LEMMA EndItems ==
  ASSUME NEW it, it = Item(it.kind, it.val), it.kind \in DOMAIN Ends, it.val = <<>>, NEW m
  PROVE  /\ m.name = Ends[it.kind] => EndItem(m) = it
         /\ m.name = EndName(Ends[it.kind]) /\ m.val = EndVal(Ends[it.kind]) =>
               \A bits : ItemOf(m, bits) = it
         /\ EndName(Ends[it.kind]) \notin GroupNames /\ EndName(Ends[it.kind]) # "text"
         /\ EndName(Ends[it.kind]) # "freed" /\ Ends[it.kind] \in GroupNames
<1>1. CASE it.kind = "end_collection"
  BY <1>1 DEF Ends, EndName, EndVal, EndItem, ItemOf, GroupNames
<1>2. CASE it.kind = "pop"
  BY <1>2 DEF Ends, EndName, EndVal, EndItem, ItemOf, GroupNames
<1>3. CASE it.kind = "close"
  <2>1. Ends[it.kind] = "SET" /\ EndName("SET") = "delimiter" /\ EndVal("SET") = <<0>>
    BY <1>3 DEF Ends, EndName, EndVal
  <2>2. <<0>> # <<1>>
    OBVIOUS
  <2> QED
    BY <1>3, <2>1, <2>2 DEF EndItem, ItemOf, GroupNames
<1> QED
  BY <1>1, <1>2, <1>3 DEF Ends

LEMMA PutEndAppends ==
  ASSUME TreeInv, Alive, NEW it \in Alphabet, PutEnd(it)
  PROVE  Appends(it)
<1> DEFINE name == Ends[it.kind]
           g == NearestGroup(name)
           u == BreakAll(tree, Branch(tree, g, prnt))
           v == AddEnd(tree, prnt, name)
<1>1. IsTree(tree) /\ OpenAt(tree, prnt) /\ prnt \in DOMAIN tree
  BY DEF TreeInv, OpenAt
<1>2. /\ name \in GroupNames /\ it.kind \in DOMAIN Ends
      /\ state' = PagesAfter(it, state)
  BY StateIsPages DEF PutEnd, Ends, GroupNames
<1>3. \/ tree' = v /\ prnt' = prnt
      \/ g # 0 /\ tree' = u /\ prnt' = tree[g].up
  BY DEF PutEnd
<1>4. it = Item(it.kind, it.val) /\ it.val = <<>>
  BY <1>2, AlphabetAssumption DEF Ends
<1>5. Stands(it, it)
  BY ItemStands
<1>6. ASSUME NEW m
      PROVE  /\ m.name = name => EndItem(m) = it
             /\ m.name = EndName(name) /\ m.val = EndVal(name) =>
                   \A bits : ItemOf(m, bits) = it
  BY <1>2, <1>4, EndItems
<1>7. EndName(name) \notin GroupNames /\ EndName(name) # "text" /\ EndName(name) # "freed"
  BY <1>2, <1>4, EndItems
<1> HIDE DEF name
<1>8. CASE tree' = v /\ prnt' = prnt
  <2> DEFINE node == [name |-> EndName(name), val |-> EndVal(name), ns |-> FALSE,
                      up |-> prnt, kids |-> <<>>]
  <2>1. IsAdded(tree, prnt, node, v)
    BY <1>1, EndIs
  <2>2. /\ IsNode(node) /\ node.name = EndName(name) /\ node.up = prnt /\ node.kids = <<>>
        /\ node.val = EndVal(name)
    BY DEF IsNode
  <2> HIDE DEF node, v
  <2>3. node.name # "freed" /\ node.name # "text" /\ node.name \notin GroupNames
    BY <1>7, <2>2
  <2>4. PICK bits : Items(v, Up(v, prnt)) = Items(tree, Up(tree, prnt)) \o <<ItemOf(node, bits)>>
    BY <1>1, <2>1, <2>2, <2>3, NodeAddsItem
  <2>5. ItemOf(node, bits) = it
    BY <1>6, <2>2
  <2>6. Items(tree', Up(tree', prnt')) = Items(tree, Up(tree, prnt)) \o <<it>>
    BY <1>8, <2>4, <2>5
  <2> QED
    BY <1>2, <1>5, <2>6 DEF Appends
<1>9. CASE g # 0 /\ tree' = u /\ prnt' = tree[g].up
  <2>1. g \in Up(tree, prnt) /\ g # 1 /\ g \in DOMAIN tree /\ tree[g].name = name
    BY <1>1, <1>2, <1>9, EndsNearest
  <2> HIDE DEF g
  <2>2. PICK m \in Nat : Opened(tree, prnt, u, g, m)
    BY <1>1, <2>1, AllBroken
  <2> HIDE DEF u
  <2>3. /\ IsTree(u) /\ OpenAt(u, g) /\ SameBelow(tree, u, g) /\ Up(u, g) = Up(tree, g)
        /\ Items(u, Up(tree, g)) = Items(tree, Up(tree, prnt))
    BY <2>2 DEF Opened
  <2>4. u[g].up = tree[g].up /\ u[g].name = name
    BY <1>1, <2>1, <2>3 DEF SameBelow, IsTree
  <2>5. Items(u, Up(u, u[g].up)) = Items(u, Up(u, g)) \o <<EndItem(u[g])>>
    BY <1>2, <2>3, <2>4, ClosedItems
  <2>6. EndItem(u[g]) = it
    BY <1>6, <2>4
  <2>7. Items(tree', Up(tree', prnt')) = Items(tree, Up(tree, prnt)) \o <<it>>
    BY <1>9, <2>3, <2>4, <2>5, <2>6
  <2> QED
    BY <1>2, <1>5, <2>7 DEF Appends
<1> QED
  BY <1>3, <1>8, <1>9

(* The root is no group: that it is open says nothing.                      *)
LEMMA RootNotOpen ==
  ASSUME NEW t, IsTree(t)
  PROVE  Items(t, {}) = Items(t, {1}) /\ IsSeq(Items(t, {}))
<1> DEFINE n == Len(Kids(t, 1))
           o == {1}
           v == {}
           A == DOMAIN t \ {1}
           R == RowOf(t, o, 1)
           Q == RowOf(t, v, 1)
<1>1. 1 \in DOMAIN t
  BY DEF IsTree
<1>2. n \in Nat /\ DOMAIN Kids(t, 1) = 1 .. n
  BY <1>1, KidFacts
<1>3. \A e \in DOMAIN t : \A i \in DOMAIN Kids(t, e) : Kids(t, e)[i] \in A
  BY DEF IsTree, LinksDown
<1>4. SameNodes(t, o, t, v, A)
  <2> HIDE DEF A
  <2>1. \A e \in A : e \in DOMAIN t /\ (e \in o <=> e \in v)
    BY DEF A
  <2> QED
    BY <1>3, <2>1 DEF SameNodes
<1> HIDE DEF o, v
<1>5. \A e \in A : Part(t, v, e) = Part(t, o, e)
  <2> HIDE DEF A
  <2> QED
    BY <1>4, SameInside
<1> HIDE DEF A
<1>6. ASSUME NEW i \in 1 .. n PROVE R[i] = Q[i]
  <2>1. Kids(t, 1)[i] \in A
    BY <1>1, <1>2, <1>3
  <2>2. R[i] = Part(t, o, Kids(t, 1)[i]) /\ Q[i] = Part(t, v, Kids(t, 1)[i])
    BY <1>1, TreeFalls, RowIsSeqs
  <2> QED
    BY <1>5, <2>1, <2>2
<1> HIDE DEF R, Q
<1>7. Joined(R, n) = Joined(Q, n)
  BY <1>2, <1>6, JoinedSame
<1>8. /\ Items(t, o) = Inside(t, o)[1] /\ Inside(t, o)[1] = Joined(R, n)
      /\ Items(t, v) = Inside(t, v)[1] /\ Inside(t, v)[1] = Joined(Q, n)
  BY <1>1, TreeFalls, InsideDef DEF R, Q
<1>9. IsSeq(Inside(t, v)[1])
  BY <1>1, TreeFalls, InsideIsSeq
<1> QED
  BY <1>7, <1>8, <1>9 DEF o, v

LEMMA ItemsIsSeq ==
  ASSUME NEW t, IsTree(t), NEW open
  PROVE  IsSeq(Items(t, open))
<1>1. 1 \in DOMAIN t
  BY DEF IsTree
<1> QED
  BY <1>1, TreeFalls, InsideDef, InsideIsSeq

(* Breaking every group that is open keeps the items.                       *)
LEMMA FlushKeepsItems ==
  ASSUME TreeInv, Flush
  PROVE  /\ Items(tree', Up(tree', prnt')) = Items(tree, Up(tree, prnt))
         /\ Items(tree', {}) = Items(tree, Up(tree, prnt))
<1> DEFINE u == BreakAll(tree, Branch(tree, 1, prnt))
<1>1. IsTree(tree) /\ OpenAt(tree, prnt)
  BY DEF Flush, CanFlush, TreeInv, Alive
<1>2. 1 \in Up(tree, prnt)
  BY <1>1, UpFacts DEF OpenAt
<1>3. tree' = u /\ prnt' = 1
  BY DEF Flush
<1>4. PICK m \in Nat : Opened(tree, prnt, u, 1, m)
  BY <1>1, <1>2, AllBroken
<1> HIDE DEF u
<1>5. IsTree(u) /\ Up(u, 1) = Up(tree, 1) /\ Items(u, Up(tree, 1)) = Items(tree, Up(tree, prnt))
  BY <1>4 DEF Opened
<1>6. Up(tree, 1) = {1}
  <2>1. 1 \in DOMAIN tree /\ tree[1].up = 0 /\ tree[1].name # "freed"
    BY <1>1 DEF IsTree
  <2>2. Up(tree, 1) = {1} \cup Up(tree, 0) /\ Up(tree, 0) = {}
    BY <1>1, <2>1, UpFacts
  <2> QED
    BY <2>2
<1>7. Items(u, {}) = Items(u, {1})
  BY <1>5, RootNotOpen
<1> QED
  BY <1>3, <1>5, <1>6, <1>7

------------------------------------------------------------------------------
(* The document stands for the items put, and the pages are those after     *)
(* them.                                                                    *)
Held == Items(tree, Up(tree, prnt))
PagesHeld == state = PagesAt(Held)[Len(Held)]
SnkInv == TreeInv /\ (Alive => PagesHeld)

LEMMA HeldIsSeq == ASSUME TreeInv PROVE IsSeq(Held)
  BY ItemsIsSeq DEF Held, TreeInv

LEMMA PutHolds ==
  ASSUME SnkInv, NEW it \in Alphabet, Put(it)
  PROVE  /\ Alive /\ Alive' /\ out' = out
         /\ state' = PagesAfter(it, state)
         /\ PagesHeld'
         /\ Meaning(Held') = Append(Meaning(Held), Resolve(it, page))
<1>1. Alive /\ Alive' /\ out' = out
  BY DEF Put, CanPut, Alive
<1>2. TreeInv /\ state = PagesAt(Held)[Len(Held)]
  BY <1>1 DEF SnkInv, PagesHeld
<1>3. Appends(it)
  BY <1>1, <1>2, PutSimpleAppends, PutMainAppends, PutStartAppends, PutEndAppends DEF Put
<1>4. state' = PagesAfter(it, state)
  BY <1>3 DEF Appends
<1>5. PICK x : Stands(x, it) /\ Held' = Held \o <<x>>
  BY <1>3 DEF Appends, Held
<1>6. IsSeq(Held)
  BY <1>2, HeldIsSeq
<1>7. Held' = Append(Held, x)
  BY <1>5, <1>6, OneMore
<1>8. /\ PagesAt(Append(Held, x))[Len(Held) + 1] = PagesAfter(x, PagesAt(Held)[Len(Held)])
      /\ Len(Append(Held, x)) = Len(Held) + 1
  BY <1>6, PagesAtAppend, AppendedTo
<1>9. Meaning(Append(Held, x)) =
          Append(Meaning(Held), Resolve(x, Head(PagesAt(Held)[Len(Held)])))
  BY <1>6, MeaningAppend
<1>10. Resolve(x, page) = Resolve(it, page) /\ PagesAfter(x, state) = PagesAfter(it, state)
  BY <1>5 DEF Stands
<1>11. PagesHeld'
  <2>1. PagesAt(Held')[Len(Held')] = PagesAfter(it, state)
    BY <1>2, <1>7, <1>8, <1>10
  <2> QED
    BY <1>4, <2>1 DEF PagesHeld
<1>12. Meaning(Held') = Append(Meaning(Held), Resolve(it, page))
  BY <1>2, <1>7, <1>9, <1>10 DEF page
<1> QED
  BY <1>1, <1>4, <1>11, <1>12

LEMMA NothingHeld == Init => Held = <<>> /\ PagesAt(Held)[Len(Held)] = <<0>>
<1> SUFFICES ASSUME Init PROVE Held = <<>> /\ PagesAt(Held)[Len(Held)] = <<0>>
  OBVIOUS
<1>1. tree = RootOnly /\ prnt = 1
  BY DEF Init
<1>2. IsTree(RootOnly) /\ 1 \in DOMAIN RootOnly /\ Kids(RootOnly, 1) = <<>>
  BY RootTree DEF IsTree, RootOnly, Node, Kids
<1> DEFINE t == RootOnly
           o == Up(RootOnly, 1)
<1> HIDE DEF t, o
<1>3. IsTree(t) /\ 1 \in DOMAIN t /\ Kids(t, 1) = <<>>
  BY <1>2 DEF t
<1>4. Items(t, o) = Joined(RowOf(t, o, 1), 0)
  <2>1. Len(Kids(t, 1)) = 0
    BY <1>3
  <2> QED
    BY <1>3, <2>1, TreeFalls, InsideDef
<1>5. Joined(RowOf(t, o, 1), 0) = <<>>
  BY JoinedNext
<1>6. Held = <<>>
  BY <1>1, <1>4, <1>5 DEF Held, t, o
<1>7. Len(Held) = 0
  BY <1>6
<1>8. PagesAt(Held)[0] = <<0>>
  BY <1>7, PagesAtDef
<1> QED
  BY <1>6, <1>7, <1>8

LEMMA SnkInitInv == Init => SnkInv
  BY TreeInit, NothingHeld DEF SnkInv, PagesHeld, Init

(* A flush that fails in the middle of the groups leaves nothing to go on   *)
(* with, or everything as it was.                                           *)
LEMMA FlushFailsLeaves ==
  ASSUME FlushFails
  PROVE  /\ Alive /\ out' = out
         /\ \/ ~Alive'
            \/ Alive' = Alive /\ UNCHANGED <<tree, prnt, state>>
<1>1. isOpen /\ ~failed /\ failed' = (tree' # tree)
      /\ UNCHANGED <<prnt, cur, state, out, isOpen, puts>>
  BY DEF FlushFails, CanFlush
<1>2. CASE tree' = tree
  BY <1>1, <1>2 DEF Alive
<1>3. CASE tree' # tree
  BY <1>1, <1>3 DEF Alive
<1> QED
  BY <1>1, <1>2, <1>3 DEF Alive

LEMMA SnkStep == SnkInv /\ [Next]_vars => SnkInv'
<1> SUFFICES ASSUME SnkInv, [Next]_vars PROVE SnkInv'
  OBVIOUS
<1>1. TreeInv'
  BY TreeNext DEF SnkInv
<1>2. ASSUME NEW it \in Alphabet, Put(it) PROVE PagesHeld'
  BY <1>2, PutHolds
<1>3. ASSUME NEW it \in Alphabet, PutFails(it) PROVE ~Alive'
  BY <1>3 DEF PutFails, Alive
<1>4. CASE Flush
  <2>1. Held' = Held /\ state' = state
    BY <1>4, FlushKeepsItems DEF Held, Flush, SnkInv
  <2>2. PagesHeld
    BY <1>4 DEF SnkInv, Flush, CanFlush, Alive
  <2>3. PagesHeld'
    BY <2>1, <2>2 DEF PagesHeld
  <2> QED
    BY <1>1, <2>3 DEF SnkInv
<1>5. CASE Delete
  BY <1>1, <1>5 DEF Delete, SnkInv, Alive
<1>6. CASE UNCHANGED vars
  BY <1>1, <1>6 DEF vars, SnkInv, PagesHeld, Held, Alive
<1>7. CASE FlushFails
  BY <1>1, <1>7, FlushFailsLeaves DEF SnkInv, PagesHeld, Held
<1> QED
  BY <1>1, <1>2, <1>3, <1>4, <1>5, <1>6, <1>7 DEF Next, SnkInv

LEMMA SnkInvHolds == Spec => []SnkInv
  BY SnkInitInv, SnkStep, PTL DEF Spec

------------------------------------------------------------------------------
(* Its steps are those of a sink of items.                                  *)
LEMMA OpenIsUp == OpenNodes = Up(tree, prnt)
  BY DEF OpenNodes, Up

LEMMA SinkInitImplements == Init => Abstract!Init
<1> SUFFICES ASSUME Init PROVE Abstract!Init
  OBVIOUS
<1>1. Items(tree, OpenNodes) = <<>> /\ Alive = TRUE /\ state = <<0>> /\ out = NoOutput
  BY NothingHeld, OpenIsUp DEF Init, Held, Alive
<1>2. Meaning(<<>>) = <<>>
  BY DEF Meaning
<1> QED
  BY <1>1, <1>2 DEF Abstract!Init

LEMMA SameThere ==
  /\ \A it, ps : Abstract!PagesAfter(it, ps) = PagesAfter(it, ps)
  /\ \A it, q : Abstract!Resolve(it, q) = Resolve(it, q)
  BY DEF Abstract!PagesAfter, PagesAfter, Abstract!Resolve, Resolve, Abstract!Item, Item

LEMMA SinkStepImplements == SnkInv /\ [Next]_vars => [Abstract!Next]_(Abstract!vars)
<1> SUFFICES ASSUME SnkInv, [Next]_vars PROVE Abstract!Next \/ UNCHANGED Abstract!vars
  OBVIOUS
<1>1. Items(tree, OpenNodes) = Held /\ Items(tree', OpenNodes') = Held'
  BY OpenIsUp DEF Held, OpenNodes, Up
<1>2. ASSUME NEW it \in Alphabet, Put(it) PROVE Abstract!Next
  <2>1. /\ Alive /\ Alive' /\ out' = out
        /\ state' = PagesAfter(it, state)
        /\ Meaning(Held') = Append(Meaning(Held), Resolve(it, Head(state)))
    BY <1>2, PutHolds DEF page
  <2>2. Alive' = Alive
    BY <2>1 DEF Alive
  <2>3. Abstract!Put
    BY <1>1, <2>1, <2>2, SameThere DEF Abstract!Put
  <2> QED
    BY <2>3 DEF Abstract!Next
<1>3. ASSUME Alive, ~Alive', out' = out PROVE Abstract!Next
  <2>1. Abstract!GiveUp
    BY <1>3 DEF Abstract!GiveUp, Alive
  <2> QED
    BY <2>1 DEF Abstract!Next
<1>4. ASSUME NEW it \in Alphabet, PutFails(it) PROVE Abstract!Next
  BY <1>3, <1>4 DEF PutFails, CanPut, Alive
<1>5. CASE Flush
  <2>1. /\ Alive /\ Alive' = Alive /\ state' = state
        /\ out' = out \/ out' = tree'
    BY <1>5 DEF Flush, CanFlush, Alive
  <2>2. Held' = Held /\ Items(tree', {}) = Held
    BY <1>5, FlushKeepsItems DEF Held, SnkInv
  <2>3. CASE out' = out
    BY <1>1, <2>1, <2>2, <2>3 DEF Abstract!vars
  <2>4. CASE out' = tree' /\ tree' # NoOutput
    <3>1. Abstract!Flush
      BY <1>1, <2>1, <2>2, <2>4 DEF Abstract!Flush
    <3> QED
      BY <3>1 DEF Abstract!Next
  <2>5. CASE out' = NoOutput
    <3>1. Abstract!FlushFails
      BY <1>1, <2>1, <2>2, <2>5 DEF Abstract!FlushFails
    <3> QED
      BY <3>1 DEF Abstract!Next
  <2> QED
    BY <2>1, <2>3, <2>4, <2>5
<1>6. CASE Delete
  <2>1. ~Alive' /\ out' = out
    BY <1>6 DEF Delete, Alive
  <2>2. CASE Alive
    BY <1>3, <2>1, <2>2
  <2>3. CASE ~Alive
    <3>1. Alive' = Alive
      BY <2>1, <2>3 DEF Alive
    <3> QED
      BY <2>1, <2>3, <3>1 DEF Abstract!vars
  <2> QED
    BY <2>2, <2>3
<1>7. CASE UNCHANGED vars
  <2>1. Alive' = Alive /\ Held' = Held /\ state' = state /\ out' = out
    BY <1>7 DEF vars, Alive, Held
  <2> QED
    BY <1>1, <2>1 DEF Abstract!vars
<1>8. CASE FlushFails
  <2>1. CASE ~Alive'
    BY <1>3, <1>8, <2>1, FlushFailsLeaves
  <2>2. CASE Alive' = Alive /\ UNCHANGED <<tree, prnt, state>>
    <3>1. Held' = Held /\ out' = out
      BY <1>8, <2>2, FlushFailsLeaves DEF Held
    <3> QED
      BY <1>1, <2>2, <3>1 DEF Abstract!vars
  <2> QED
    BY <1>8, <2>1, <2>2, FlushFailsLeaves
<1> QED
  BY <1>2, <1>4, <1>5, <1>6, <1>7, <1>8 DEF Next

(* The document that hidrd_xml_snk_put() builds stands for the items put,   *)
(* in their order: whatever groups are open, whichever of them an end       *)
(* closes and breaks, and however often hidrd_xml_snk_flush() breaks all    *)
(* of them, each item put is one more after the items of the document, and  *)
(* a flush delivers them all or nothing.  With a put that fails, or a flush *)
(* that fails halfway, the history of the sink ends.                        *)
THEOREM XmlImplementsItemSnk == Spec => ImplementsItemSnk
  BY SinkInitImplements, SinkStepImplements, SnkInvHolds, PTL
     DEF Spec, ImplementsItemSnk, Abstract!Spec

(* And so in the round trip.                                                *)
THEOREM XmlRoundTripImplementsItemSnk == RTSpec => ImplementsItemSnk
  BY XmlImplementsItemSnk, RoundTripIsSink, PTL


------------------------------------------------------------------------------
(* The document delivered is one that the source can walk.                  *)
LEMMA TextIsPair ==
  ASSUME NEW u, u = <<u[1], u[2]>>
  PROVE  UsageText(u) = <<UsageText(u)[1], UsageText(u)[2]>>
<1> DEFINE a == u[1]
           b == u[2]
<1>1. FullUsage(u) = <<IF a = 0 THEN page ELSE a, b>>
  BY DEF FullUsage
<1>2. UsageText(u) = FullUsage(u) \/ UsageText(u) = <<0, b>>
  BY <1>1 DEF UsageText
<1> HIDE DEF a, b
<1>3. ASSUME NEW x, NEW y, UsageText(u) = <<x, y>>
      PROVE  UsageText(u) = <<UsageText(u)[1], UsageText(u)[2]>>
  BY <1>3
<1> QED
  BY <1>1, <1>2, <1>3

LEMMA PutProper ==
  ASSUME TreeInv, Alive, Proper(tree), NEW it \in Alphabet, Put(it)
  PROVE  Proper(tree')
<1>1. IsTree(tree) /\ OpenAt(tree, prnt) /\ prnt \in DOMAIN tree
  BY DEF TreeInv, OpenAt
<1>2. CASE PutSimple(it)
  <2>1. /\ tree' = AddChild(tree, prnt, it.kind, SimpleVal(it))
        /\ it.kind # "descriptor" /\ it.kind # "generic"
    BY <1>2 DEF PutSimple, SimpleKinds
  <2>2. it.kind = "usage" => SimpleVal(it) = <<SimpleVal(it)[1], SimpleVal(it)[2]>>
    <3> SUFFICES ASSUME it.kind = "usage"
                 PROVE  SimpleVal(it) = <<SimpleVal(it)[1], SimpleVal(it)[2]>>
      OBVIOUS
    <3>1. it.val = <<it.val[1], it.val[2]>>
      BY AlphabetAssumption
    <3>2. SimpleVal(it) = UsageText(it.val)
      BY DEF SimpleVal
    <3> QED
      BY <3>1, <3>2, TextIsPair
  <2> QED
    BY <1>1, <2>1, <2>2, ChildProper
<1>3. CASE PutMain(it)
  <2>1. /\ tree' = WithBits(AddChild(tree, prnt, "main", <<>>), Len(tree) + 1, it.val)
        /\ it.val \in Seq(ToSet(it.val))
    BY <1>3, AlphabetAssumption DEF PutMain
  <2> QED
    BY <1>1, <2>1, BitmapDone
<1>4. CASE PutStart(it)
  <2>1. tree' = AddChild(tree, prnt, Groups[it.kind], it.val)
        /\ Groups[it.kind] \in GroupNames
    BY <1>4 DEF PutStart, Groups, GroupNames
  <2>2. /\ Groups[it.kind] # "descriptor" /\ Groups[it.kind] # "usage"
        /\ Groups[it.kind] # "generic"
    BY <2>1 DEF GroupNames
  <2> QED
    BY <1>1, <2>1, <2>2, ChildProper
<1>5. CASE PutEnd(it)
  <2> DEFINE name == Ends[it.kind]
             g == NearestGroup(name)
             u == BreakAll(tree, Branch(tree, g, prnt))
  <2>1. name \in GroupNames
    BY <1>5 DEF PutEnd, Ends, GroupNames
  <2>2. tree' = AddEnd(tree, prnt, name) \/ (g # 0 /\ tree' = u)
    BY <1>5 DEF PutEnd
  <2> HIDE DEF name
  <2>3. CASE tree' = AddEnd(tree, prnt, name)
    BY <1>1, <2>1, <2>3, EndProper
  <2>4. CASE g # 0 /\ tree' = u
    <3>1. g \in Up(tree, prnt)
      BY <1>1, <2>1, <2>4, EndsNearest
    <3> HIDE DEF g
    <3>2. PICK m \in Nat : Opened(tree, prnt, u, g, m)
      BY <1>1, <3>1, AllBroken
    <3> QED
      BY <2>4, <3>2 DEF Opened
  <2> QED
    BY <2>2, <2>3, <2>4
<1> QED
  BY <1>2, <1>3, <1>4, <1>5 DEF Put

LEMMA FlushProper ==
  ASSUME TreeInv, Proper(tree), Flush
  PROVE  Proper(tree')
<1>1. IsTree(tree) /\ OpenAt(tree, prnt)
  BY DEF Flush, CanFlush, TreeInv, Alive
<1>2. 1 \in Up(tree, prnt)
  BY <1>1, UpFacts DEF OpenAt
<1>3. tree' = BreakAll(tree, Branch(tree, 1, prnt))
  BY DEF Flush
<1>4. PICK m \in Nat : Opened(tree, prnt, BreakAll(tree, Branch(tree, 1, prnt)), 1, m)
  BY <1>1, <1>2, AllBroken
<1> QED
  BY <1>3, <1>4 DEF Opened

LEMMA ProperWalked ==
  ASSUME NEW t, IsTree(t), Proper(t)
  PROVE  Walked(t)
<1>1. Falls(t) /\ t[1].name = "descriptor" /\ t[1].up = 0
  BY TreeFalls DEF IsTree
<1>2. ASSUME NEW e \in DOMAIN t, NEW i \in DOMAIN Kids(t, e)
      PROVE  /\ t[Kids(t, e)[i]].up = e
             /\ t[Kids(t, e)[i]].name # "descriptor"
             /\ \A j \in DOMAIN Kids(t, e) : i # j => Kids(t, e)[i] # Kids(t, e)[j]
  <2>1. LinksDown(t, e)
    BY DEF IsTree
  <2>2. Kids(t, e)[i] \in DOMAIN t \ {1}
    BY <2>1 DEF LinksDown
  <2> QED
    BY <2>1, <2>2 DEF LinksDown, Proper, ProperNode
<1> QED
  BY <1>1, <1>2 DEF Walked

(* The items the document stands for mean the items put.                    *)
LEMMA PutMeans ==
  ASSUME SnkInv, MeanSame(Held, log), NEW it \in Alphabet, Put(it), log' = Append(log, it)
  PROVE  MeanSame(Held', log')
<1>1. Alive
  BY DEF Put, CanPut, Alive
<1>2. TreeInv /\ state = LastPages(Held)
  BY <1>1 DEF SnkInv, PagesHeld, LastPages
<1>3. Appends(it)
  BY <1>1, <1>2, PutSimpleAppends, PutMainAppends, PutStartAppends, PutEndAppends DEF Put
<1>4. PICK x : Stands(x, it) /\ Held' = Held \o <<x>>
  BY <1>3 DEF Appends, Held
<1>5. Held' = Append(Held, x)
  BY <1>2, <1>4, HeldIsSeq, OneMore
<1>6. SameHere(x, it, LastPages(Held))
  BY <1>2, <1>4 DEF Stands, SameHere, page
<1> HIDE DEF Held
<1>7. MeanSame(Append(Held, x), Append(log, it))
  BY <1>6, SameMore
<1> QED
  BY <1>5, <1>7

LEMMA FlushMeans ==
  ASSUME SnkInv, Flush
  PROVE  Held' = Held /\ Items(tree', {}) = Held /\ state' = state /\ state = LastPages(Held)
<1>1. TreeInv /\ PagesHeld /\ state' = state
  BY DEF Flush, CanFlush, Alive, SnkInv
<1> QED
  BY <1>1, FlushKeepsItems DEF Held, PagesHeld, LastPages

(* What was delivered stands for the items put until then.                  *)
Delivered(t, f) ==
    /\ IsTree(t) /\ Proper(t)
    /\ Meaning(Items(t, {})) = Meaning(f.items)
    /\ LastPages(Items(t, {})) = f.state
WriteInv ==
    /\ Alive => Proper(tree) /\ MeanSame(Held, log)
    /\ out # NoOutput => Delivered(out, flushed)

LEMMA WriteKeeps ==
  ASSUME SnkInv, WriteInv, SnkInv', Write
  PROVE  WriteInv'
<1>1. ASSUME NEW it \in Alphabet, Put(it), log' = Append(log, it), UNCHANGED flushed
      PROVE  WriteInv'
  <2>1. Alive /\ out' = out
    BY <1>1 DEF Put, CanPut, Alive
  <2>2. TreeInv /\ Proper(tree) /\ MeanSame(Held, log)
    BY <2>1 DEF WriteInv, SnkInv
  <2>3. Proper(tree')
    BY <1>1, <2>1, <2>2, PutProper
  <2>4. MeanSame(Held', log')
    BY <1>1, <2>2, PutMeans
  <2> QED
    BY <1>1, <2>1, <2>3, <2>4 DEF WriteInv
<1>2. ASSUME Flush,
             flushed' = IF out' = out THEN flushed ELSE [items |-> log, state |-> state],
             UNCHANGED log
      PROVE  WriteInv'
  <2>1. Alive /\ (out' = out \/ out' = tree')
    BY <1>2 DEF Flush, CanFlush, Alive
  <2>2. TreeInv /\ Proper(tree) /\ MeanSame(Held, log) /\ IsTree(tree')
    BY <2>1 DEF WriteInv, SnkInv, TreeInv
  <2>3. Proper(tree')
    BY <1>2, <2>2, FlushProper
  <2>4. Held' = Held /\ Items(tree', {}) = Held /\ state' = state /\ state = LastPages(Held)
    BY <1>2, FlushMeans
  <2>5. MeanSame(Held', log')
    BY <1>2, <2>2, <2>4
  <2>6. CASE out' = out
    BY <1>2, <2>3, <2>5, <2>6 DEF WriteInv
  <2>7. CASE out' # out
    <3>1. out' = tree' /\ flushed' = [items |-> log, state |-> state]
      BY <1>2, <2>1, <2>7
    <3>2. flushed'.items = log /\ flushed'.state = state
      BY <3>1
    <3>3. Meaning(Held) = Meaning(log)
      BY <2>2 DEF MeanSame
    <3>4. Delivered(tree', flushed')
      BY <2>2, <2>3, <2>4, <3>2, <3>3 DEF Delivered
    <3> QED
      BY <2>3, <2>5, <3>1, <3>4 DEF WriteInv
  <2> QED
    BY <2>6, <2>7
<1>3. ASSUME NEW it \in Alphabet, PutFails(it), UNCHANGED <<log, flushed>>
      PROVE  WriteInv'
  BY <1>3 DEF PutFails, Alive, WriteInv
<1>4. ASSUME Delete, UNCHANGED <<log, flushed>>
      PROVE  WriteInv'
  BY <1>4 DEF Delete, Alive, WriteInv
<1>5. ASSUME FlushFails, UNCHANGED <<log, flushed>>
      PROVE  WriteInv'
  <2>1. Alive /\ out' = out /\ log' = log /\ flushed' = flushed
    BY <1>5, FlushFailsLeaves
  <2>2. CASE ~Alive'
    BY <2>1, <2>2 DEF WriteInv
  <2>3. CASE Alive' = Alive /\ UNCHANGED <<tree, prnt, state>>
    <3>1. Held' = Held
      BY <2>3 DEF Held
    <3> QED
      BY <2>1, <2>3, <3>1 DEF WriteInv
  <2> QED
    BY <1>5, <2>2, <2>3, FlushFailsLeaves
<1> QED
  BY <1>1, <1>2, <1>3, <1>4, <1>5 DEF Write


------------------------------------------------------------------------------
(* The source reads what was delivered.                                     *)
LEMMA SameCodec ==
  /\ Src!GroupNames = GroupNames
  /\ \A n : Src!StartItem(n) = StartItem(n) /\ Src!EndItem(n) = EndItem(n)
  /\ \A n, bits : Src!ItemOf(n, bits) = ItemOf(n, bits)
  /\ \A kind, val : Src!Item(kind, val) = Item(kind, val)
<1>1. \A kind, val : Src!Item(kind, val) = Item(kind, val)
  BY DEF Src!Item, Item
<1>2. \A n : Src!StartItem(n) = StartItem(n) /\ Src!EndItem(n) = EndItem(n)
  BY <1>1, Zenon DEF Src!StartItem, StartItem, Src!EndItem, EndItem
<1>3. \A n, bits : Src!ItemOf(n, bits) = ItemOf(n, bits)
  BY <1>1, Zenon DEF Src!ItemOf, ItemOf
<1> QED
  BY <1>1, <1>2, <1>3 DEF Src!GroupNames, GroupNames

LEMMA SameBitsRead == \A t, e : Src!BitsOf(t, e) = BitsOf(t, e)
BY Zenon DEF Src!BitsOf, BitsOf, Src!OfKids, OfKids, Src!Joined, Joined

LEMMA SameWalk ==
  ASSUME NEW e
  PROVE  Src!NextOf(e) = NextIn(rdoc, e) /\ Src!FirstOf(e) = FirstIn(rdoc, e)
BY DEF Src!NextOf, NextIn, Src!FirstOf, FirstIn, Src!Null

(* The walk, which has ended at the end of the root, and returned the items *)
(* that mean what the document does.                                        *)
WalkInv ==
    /\ Walked(rdoc) /\ Proper(rdoc)
    /\ Reads(rdoc, rprnt, rcur, rstate, rgot)
    /\ rended => rcur = 0 /\ rdoc[rprnt].name = "descriptor"

LEMMA ReadElementWalks ==
  ASSUME WalkInv, ~rended, Src!ReadElement
  PROVE  WalkInv'
<1>1. /\ rdoc' = rdoc /\ rprnt' = rprnt /\ rcur' = Src!NextOf(rcur) /\ rcur # 0
      /\ rended' = rended /\ rgot' = Append(rgot, Src!SimpleItem(rcur))
      /\ rstate' = Src!StateAfter(rcur) /\ rdoc[rcur].name \in Src!SimpleNames
  BY DEF Src!ReadElement, Src!Return, Src!AtNode, Src!Null
<1>2. Walked(rdoc) /\ Proper(rdoc) /\ Reads(rdoc, rprnt, rcur, rstate, rgot)
  BY DEF WalkInv
<1>3. rcur \in DOMAIN rdoc
  BY <1>1, <1>2, ReadsFacts
<1>4. rdoc[rcur].name \notin GroupNames \cup {"text", "descriptor"}
  BY <1>1 DEF Src!SimpleNames, GroupNames
<1> DEFINE x == Src!SimpleItem(rcur)
           y == ItemOf(rdoc[rcur], BitsOf(rdoc, rcur))
           u == rdoc[rcur].val
           pg == Head(rstate)
<1>5. /\ rdoc[rcur].name = "usage" =>
            x = Item("usage", IF pg # 0 /\ u[1] = pg THEN <<0, u[2]>> ELSE u)
      /\ rdoc[rcur].name # "usage" => x = y
  BY SameCodec, SameBitsRead DEF Src!SimpleItem, Src!UsageItem, Src!page
<1>6. Src!StateAfter(rcur) = PagesAfter(x, rstate)
  <2> HIDE DEF x
  <2>1. CASE rdoc[rcur].name = "usage"
    BY <1>5, <2>1 DEF Src!StateAfter, PagesAfter, Item
  <2>2. CASE rdoc[rcur].name # "usage"
    <3>1. rcur # 1
      BY <1>2, <1>4 DEF Walked
    <3>2. rdoc[rcur].name # "generic"
      BY <1>2, <1>3, <3>1 DEF Proper, ProperNode
    <3> QED
      BY <1>1, <1>5, <2>2, <3>2
      DEF Src!SimpleNames, Src!StateAfter, ItemOf, Item, PagesAfter, Src!Pop, Src!page
  <2> QED
    BY <2>1, <2>2
<1>7. SameHere(x, y, rstate)
  <2>1. CASE rdoc[rcur].name = "usage"
    <3>1. u = <<u[1], u[2]>>
      <4>1. rcur # 1
        BY <1>2, <2>1 DEF Walked
      <4> QED
        BY <1>2, <1>3, <2>1, <4>1 DEF Proper, ProperNode
    <3>2. y = Item("usage", u)
      BY <2>1 DEF ItemOf
    <3> HIDE DEF u, x, y
    <3>3. PagesAfter(x, rstate) = PagesAfter(y, rstate)
      BY <1>5, <2>1, <3>2 DEF PagesAfter, Item
    <3>4. Resolve(x, pg) = Resolve(y, pg)
      BY <1>5, <2>1, <3>1, <3>2 DEF Resolve, Item
    <3> QED
      BY <3>3, <3>4 DEF SameHere
  <2>2. CASE rdoc[rcur].name # "usage"
    BY <1>5, <2>2 DEF SameHere
  <2> QED
    BY <2>1, <2>2
<1>8. Src!NextOf(rcur) = NextIn(rdoc, rcur)
  BY SameWalk
<1>9. SameHere(x, ItemOf(rdoc[rcur], BitsOf(rdoc, rcur)), rstate)
  BY <1>7 DEF y
<1>10. rgot' = Append(rgot, x)
  BY <1>1
<1> HIDE DEF x, y
<1>11. Reads(rdoc, rprnt, NextIn(rdoc, rcur), PagesAfter(x, rstate), Append(rgot, x))
  BY <1>1, <1>2, <1>4, <1>9, ReadsElement
<1> QED
  BY <1>1, <1>2, <1>6, <1>8, <1>10, <1>11 DEF WalkInv

LEMMA EnterGroupWalks ==
  ASSUME WalkInv, ~rended, Src!EnterGroup
  PROVE  WalkInv'
<1> DEFINE x == StartItem(rdoc[rcur])
<1>1. /\ rdoc' = rdoc /\ rprnt' = rcur /\ rcur' = Src!FirstOf(rcur) /\ rcur # 0
      /\ rended' = rended /\ rgot' = Append(rgot, x)
      /\ rstate' = Src!StateAfter(rcur) /\ rdoc[rcur].name \in GroupNames
  BY SameCodec DEF Src!EnterGroup, Src!Return, Src!AtNode, Src!Null
<1>2. Walked(rdoc) /\ Proper(rdoc) /\ Reads(rdoc, rprnt, rcur, rstate, rgot)
  BY DEF WalkInv
<1>3. Src!StateAfter(rcur) = PagesAfter(x, rstate)
  BY <1>1 DEF GroupNames, Src!StateAfter, StartItem, Item, PagesAfter, Src!page
<1>4. x = StartItem(rdoc[rcur])
  OBVIOUS
<1> HIDE DEF x
<1>5. Reads(rdoc, rcur, FirstIn(rdoc, rcur), PagesAfter(x, rstate), Append(rgot, x))
  BY <1>1, <1>2, <1>4, ReadsGroup
<1>6. Src!FirstOf(rcur) = FirstIn(rdoc, rcur)
  BY SameWalk
<1> QED
  BY <1>1, <1>2, <1>3, <1>5, <1>6 DEF WalkInv

LEMMA ExitGroupWalks ==
  ASSUME WalkInv, ~rended, Src!ExitGroup
  PROVE  WalkInv'
<1> DEFINE x == EndItem(rdoc[rprnt])
<1>1. /\ rdoc' = rdoc /\ rprnt' = Src!ParentOf(rprnt) /\ rcur' = Src!NextOf(rprnt) /\ rcur = 0
      /\ rended' = rended /\ rgot' = Append(rgot, x)
      /\ rstate' = Src!StateAfterEnd(rprnt) /\ rdoc[rprnt].name \in GroupNames
  BY SameCodec DEF Src!ExitGroup, Src!Return, Src!AtEnd, Src!Null
<1>2. Walked(rdoc) /\ Proper(rdoc) /\ Reads(rdoc, rprnt, 0, rstate, rgot)
  BY <1>1 DEF WalkInv
<1>3. Src!StateAfterEnd(rprnt) = PagesAfter(x, rstate)
  BY <1>1 DEF GroupNames, Src!StateAfterEnd, EndItem, Item, PagesAfter, Src!Pop
<1>4. x = EndItem(rdoc[rprnt])
  OBVIOUS
<1> HIDE DEF x
<1>5. Reads(rdoc, rdoc[rprnt].up, NextIn(rdoc, rprnt), PagesAfter(x, rstate), Append(rgot, x))
  BY <1>1, <1>2, <1>4, ReadsEnd
<1>6. Src!NextOf(rprnt) = NextIn(rdoc, rprnt)
  BY SameWalk
<1>7. Src!ParentOf(rprnt) = rdoc[rprnt].up
  BY <1>1, <1>2 DEF Src!ParentOf, Walked, GroupNames
<1> QED
  BY <1>1, <1>2, <1>3, <1>5, <1>6, <1>7 DEF WalkInv

LEMMA SourceWalks ==
  ASSUME WalkInv, ~rended, Src!SrcNext
  PROVE  WalkInv' /\ rdoc' = rdoc
<1>1. Walked(rdoc) /\ Proper(rdoc) /\ Reads(rdoc, rprnt, rcur, rstate, rgot)
  BY DEF WalkInv
<1>2. CASE Src!ReadElement
  BY <1>2, ReadElementWalks DEF Src!ReadElement, Src!Return
<1>3. CASE Src!EnterGroup
  BY <1>3, EnterGroupWalks DEF Src!EnterGroup, Src!Return
<1>4. CASE Src!ExitGroup
  BY <1>4, ExitGroupWalks DEF Src!ExitGroup, Src!Return
<1>5. CASE Src!SkipText
  <2>1. /\ UNCHANGED <<rdoc, rprnt, rstate, rgot, rended>> /\ rcur # 0
        /\ rcur' = NextIn(rdoc, rcur) /\ rdoc[rcur].name = "text"
    BY <1>5, SameWalk DEF Src!SkipText, Src!AtNode, Src!Null
  <2>2. Reads(rdoc, rprnt, NextIn(rdoc, rcur), rstate, rgot)
    BY <1>1, <2>1, ReadsSkips
  <2> QED
    BY <1>1, <2>1, <2>2 DEF WalkInv
<1>6. CASE Src!EnterDescriptor
  <2>1. /\ UNCHANGED <<rdoc, rstate, rgot, rended>> /\ rcur # 0
        /\ rprnt' = rcur /\ rcur' = FirstIn(rdoc, rcur) /\ rdoc[rcur].name = "descriptor"
    BY <1>6, SameWalk DEF Src!EnterDescriptor, Src!AtNode, Src!Null
  <2>2. Reads(rdoc, rcur, FirstIn(rdoc, rcur), rstate, rgot)
    BY <1>1, <2>1, ReadsRoot
  <2> QED
    BY <1>1, <2>1, <2>2 DEF WalkInv
<1>7. CASE Src!ExitDescriptor
  <2>1. UNCHANGED <<rdoc, rprnt, rcur, rstate, rgot>> /\ rcur = 0
        /\ rdoc[rprnt].name = "descriptor"
    BY <1>7 DEF Src!ExitDescriptor, Src!Stop, Src!AtEnd, Src!Null, Src!walk
  <2> QED
    BY <1>1, <2>1 DEF WalkInv
<1>8. CASE Src!Get \/ Src!FailElement
  <2>1. UNCHANGED <<rdoc, rprnt, rcur, rstate, rgot, rended>>
    BY <1>8 DEF Src!Get, Src!FailElement, Src!walk
  <2> QED
    BY <1>1, <2>1 DEF WalkInv
<1> QED
  BY <1>2, <1>3, <1>4, <1>5, <1>6, <1>7, <1>8 DEF Src!SrcNext, Src!Step

AtStart == rprnt = 0 /\ rcur = 1 /\ rstate = <<0>> /\ rgot = <<>> /\ ~rended
RTInv ==
    /\ SnkInv /\ WriteInv
    /\ ~reading => AtStart
    /\ reading => ~isOpen /\ out # NoOutput /\ rdoc = out /\ WalkInv

LEMMA RTInitInv == RTInit => RTInv
<1> SUFFICES ASSUME RTInit PROVE RTInv
  OBVIOUS
<1>1. Init /\ log = <<>> /\ reading = FALSE
  BY DEF RTInit
<1>2. SnkInv
  BY <1>1, SnkInitInv
<1>3. AtStart
  BY DEF RTInit, Src!Opened, AtStart, Src!Null
<1>4. WriteInv
  <2>1. tree = RootOnly /\ out = NoOutput
    BY <1>1 DEF Init
  <2>2. Held = <<>>
    BY <1>1, NothingHeld
  <2>3. MeanSame(Held, log)
    BY <1>1, <2>2, SameNothing
  <2>4. Proper(tree)
    <3>1. DOMAIN RootOnly = {1}
      BY DEF RootOnly
    <3> QED
      BY <2>1, <3>1 DEF Proper
  <2> QED
    BY <2>1, <2>3, <2>4 DEF WriteInv
<1> QED
  BY <1>1, <1>2, <1>3, <1>4 DEF RTInv

LEMMA RTStepInv ==
  ASSUME RTInv, [RTNext]_<<snk, src, reading>>
  PROVE  RTInv'
<1>1. CASE Write
  <2>1. isOpen /\ reading' = reading /\ UNCHANGED src
    BY <1>1 DEF Write, Put, CanPut, Flush, FlushFails, CanFlush, PutFails, Delete
  <2>2. ~reading /\ SnkInv /\ WriteInv /\ AtStart
    BY <2>1 DEF RTInv
  <2>3. SnkInv'
    <3>1. [Next]_vars
      BY <1>1 DEF Write, Next
    <3> QED
      BY <2>2, <3>1, SnkStep
  <2>4. WriteInv'
    BY <1>1, <2>2, <2>3, WriteKeeps
  <2>5. AtStart'
    BY <2>1, <2>2 DEF AtStart, src
  <2> QED
    BY <2>1, <2>2, <2>3, <2>4, <2>5 DEF RTInv
<1>2. ASSUME UNCHANGED snk PROVE SnkInv' /\ WriteInv'
  <2>1. SnkInv /\ WriteInv
    BY DEF RTInv
  <2>2. [Next]_vars
    BY <1>2 DEF snk, vars
  <2>3. SnkInv'
    BY <2>1, <2>2, SnkStep
  <2>4. Held' = Held /\ Alive' = Alive
    BY <1>2 DEF snk, Held, Alive
  <2>5. WriteInv'
    BY <1>2, <2>1, <2>4 DEF WriteInv, snk
  <2> QED
    BY <2>3, <2>5
<1>3. CASE Open
  <2>1. /\ ~isOpen /\ ~reading /\ out # NoOutput /\ reading' = TRUE /\ rdoc' = out
        /\ UNCHANGED <<snk, rprnt, rcur, rstate, rgot, rended>>
    BY <1>3 DEF Open
  <2>2. isOpen' = isOpen /\ out' = out
    BY <2>1 DEF snk
  <2>3. AtStart /\ Delivered(out, flushed)
    BY <2>1 DEF RTInv, WriteInv
  <2>4. Walked(out) /\ Proper(out)
    BY <2>3, ProperWalked DEF Delivered
  <2>5. WalkInv'
    BY <2>1, <2>3, <2>4 DEF AtStart, WalkInv, Reads
  <2> QED
    BY <1>2, <2>1, <2>2, <2>5 DEF RTInv
<1>4. CASE Read
  <2>1. reading /\ ~rended /\ Src!SrcNext /\ UNCHANGED <<snk, reading>>
    BY <1>4 DEF Read
  <2>2. isOpen' = isOpen /\ out' = out
    BY <2>1 DEF snk
  <2>3. ~isOpen /\ out # NoOutput /\ rdoc = out /\ WalkInv
    BY <2>1 DEF RTInv
  <2>4. WalkInv' /\ rdoc' = rdoc
    BY <2>1, <2>3, SourceWalks
  <2> QED
    BY <1>2, <2>1, <2>2, <2>3, <2>4 DEF RTInv
<1>5. CASE UNCHANGED <<snk, src, reading>>
  <2>1. isOpen' = isOpen /\ out' = out /\ reading' = reading
    BY <1>5 DEF snk
  <2>2. AtStart' = AtStart /\ WalkInv' = WalkInv /\ rdoc' = rdoc
    BY <1>5 DEF src, AtStart, WalkInv
  <2> QED
    BY <1>2, <1>5, <2>1, <2>2 DEF RTInv
<1> QED
  BY <1>1, <1>3, <1>4, <1>5 DEF RTNext

LEMMA ReadIsPut == RTInv => MeaningKept /\ StatesAgree
<1> SUFFICES ASSUME RTInv, rended
             PROVE  Meaning(rgot) = Meaning(flushed.items) /\ rstate = flushed.state
  BY DEF MeaningKept, StatesAgree
<1>1. reading /\ out # NoOutput /\ rdoc = out /\ WalkInv /\ WriteInv
  BY DEF RTInv, AtStart
<1>2. Delivered(rdoc, flushed)
  BY <1>1 DEF WriteInv
<1>3. Walked(rdoc) /\ Reads(rdoc, rprnt, 0, rstate, rgot) /\ rdoc[rprnt].name = "descriptor"
  BY <1>1 DEF WalkInv
<1>4. Meaning(rgot) = Meaning(Items(rdoc, {})) /\ rstate = LastPages(Items(rdoc, {}))
  BY <1>3, ReadsStop
<1> QED
  BY <1>2, <1>4 DEF Delivered

LEMMA RTInvHolds == RTSpec => []RTInv
<1>1. RTInv /\ [RTNext]_<<snk, src, reading>> => RTInv'
  BY RTStepInv
<1> QED
  BY RTInitInv, <1>1, PTL DEF RTSpec

(* What is read of a document that hidrd_xml_snk_flush() delivered means    *)
(* what was put, item by item: whatever was put, whichever groups were      *)
(* broken, however a usage was written, by its token, with its page or      *)
(* without, and with the page left out of it again by the source.           *)
THEOREM RoundTripKeepsMeaning == RTSpec => []MeaningKept
  BY RTInvHolds, ReadIsPut, PTL

(* And the two have tracked the same usage pages, whichever PUSH and POP    *)
(* became groups and whichever elements of their own.                       *)
THEOREM RoundTripStatesAgree == RTSpec => []StatesAgree
  BY RTInvHolds, ReadIsPut, PTL
==============================================================================
