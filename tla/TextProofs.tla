---------------------------- MODULE TextProofs ----------------------------
(***************************************************************************)
(* However the options of a stream are given: the list of options stays    *)
(* within its allocation as long as no name is given twice, and what a     *)
(* text is read to is what it says, for every text and specifications; and *)
(* what is written of options and specifications reads back.               *)
(*                                                                         *)
(* First what the reader of a pair, the readers and writers of values and  *)
(* the reader of a specification return; then how a text is cut; then the  *)
(* invariants of the three loops.  Last that the readers undo the writers: *)
(* of numbers, of pairs, of lists of them and of specifications.           *)
(***************************************************************************)
EXTENDS Options, FiniteSetTheorems, WellFoundedInduction, SequenceTheorems, TLAPS

Rec == INSTANCE Recursion

LEMMA LeastElement ==
  ASSUME NEW S \in SUBSET Nat, S # {}
  PROVE  Min(S) \in S /\ \A y \in S : Min(S) <= y
<1>1. PICK x \in S : \A y \in S : ~(<<y, x>> \in OpToRel(<, Nat))
  BY NatLessThanWellFounded, WFMin
<1>2. OpToRel(<, Nat) = {p \in Nat \X Nat : p[1] < p[2]}
  BY Zenon DEF OpToRel
<1>3. \A y \in S : ~(y < x)
  BY <1>1, <1>2
<1>4. \A y \in S : x <= y
  BY <1>3
<1> DEFINE P(z) == \A y \in S : z <= y
<1>5. Min(S) = CHOOSE z \in S : P(z)
  BY DEF Min
<1>6. x \in S /\ P(x)
  BY <1>4
<1> HIDE DEF P
<1>7. Min(S) \in S /\ P(Min(S))
  BY <1>5, <1>6
<1> QED
  BY <1>7 DEF P

------------------------------------------------------------------------------
(* Texts.                                                                   *)
LEMMA TextFacts ==
  ASSUME NEW t, IsText(t)
  PROVE  Len(t) \in Nat /\ DOMAIN t = 1 .. Len(t)
  BY DEF IsText

LEMMA SeqIsText == ASSUME NEW S, NEW s \in Seq(S) PROVE IsText(s)
<1>1. s \in [1 .. Len(s) -> S] /\ Len(s) \in Nat
  BY LenProperties
<1>2. \A i \in 1 .. Len(s) : s[i] \in ToSet(s)
  BY <1>1 DEF ToSet
<1>3. s \in [1 .. Len(s) -> ToSet(s)]
  BY <1>1, <1>2
<1> QED
  BY <1>1, <1>3, SeqDef DEF IsText

LEMMA ShortTexts == IsText(<<>>) /\ \A x : IsText(<<x>>)
<1>1. <<>> \in Seq({}) /\ \A x : <<x>> \in Seq({x})
  OBVIOUS
<1> QED
  BY <1>1, SeqIsText

(* A part of a text, from a to before e.                                    *)
LEMMA PartFacts ==
  ASSUME NEW t, IsText(t), NEW a \in Nat, a >= 1, NEW e \in Nat, e <= Len(t) + 1
  PROVE  LET p == SubSeq(t, a, e - 1)
         IN  /\ IsText(p)
             /\ a <= e => Len(p) = e - a
             /\ e <= a => p = <<>>
             /\ DOMAIN p = 1 .. Len(p)
             /\ \A i \in DOMAIN p : a + i - 1 \in a .. e - 1 /\ p[i] = t[a + i - 1]
<1> DEFINE p == SubSeq(t, a, e - 1)
           S == ToSet(t)
<1>1. t \in Seq(S)
  BY DEF IsText
<1> HIDE DEF S
<1>2. p = [i \in 1 .. (e - a) |-> t[i + a - 1]]
  BY <1>1
<1>3. \A i \in 1 .. (e - a) : i + a - 1 \in 1 .. Len(t)
  BY <1>1
<1>4. p \in Seq(S)
  BY <1>1, <1>3
<1>5. IsText(p)
  <2> HIDE DEF p
  <2> QED
    BY <1>4, SeqIsText
<1>6. (a <= e => Len(p) = e - a) /\ (e <= a => p = <<>>)
  BY <1>1, <1>2
<1>7. DOMAIN p = 1 .. Len(p)
  BY <1>4
<1>8. ASSUME NEW i \in DOMAIN p PROVE a + i - 1 \in a .. e - 1 /\ p[i] = t[a + i - 1]
  <2>1. i \in 1 .. (e - a) /\ i \in Nat
    BY <1>2, <1>8
  <2>2. p[i] = t[i + a - 1] /\ i + a - 1 = a + i - 1
    BY <1>2, <2>1
  <2> QED
    BY <2>1, <2>2
<1> QED
  BY <1>5, <1>6, <1>7, <1>8

(* Parts of a part are parts.                                               *)
LEMMA PartOfPart ==
  ASSUME NEW t, IsText(t), NEW a \in Nat, a >= 1, NEW e \in Nat, a <= e, e <= Len(t) + 1,
         NEW c \in Nat, c >= 1, NEW d \in Nat, d <= e - a + 1
  PROVE  SubSeq(SubSeq(t, a, e - 1), c, d - 1) = SubSeq(t, a + c - 1, a + d - 2)
<1> DEFINE p == SubSeq(t, a, e - 1)
           S == ToSet(t)
<1>1. t \in Seq(S)
  BY DEF IsText
<1> HIDE DEF S
<1>2. p = [i \in 1 .. (e - a) |-> t[i + a - 1]]
  BY <1>1
<1>3. p \in Seq(S) /\ Len(p) = e - a
  BY <1>1, <1>2
<1> HIDE DEF p
<1>4. SubSeq(p, c, d - 1) = [i \in 1 .. (d - c) |-> p[i + c - 1]]
  BY <1>3
<1>5. SubSeq(t, a + c - 1, a + d - 2) = [i \in 1 .. (d - c) |-> t[i + (a + c - 1) - 1]]
  BY <1>1
<1>6. \A i \in 1 .. (d - c) : p[i + c - 1] = t[i + (a + c - 1) - 1]
  <2> TAKE i \in 1 .. (d - c)
  <2>1. i + c - 1 \in 1 .. (e - a)
    OBVIOUS
  <2>2. p[i + c - 1] = t[(i + c - 1) + a - 1]
    BY <1>2, <2>1
  <2>3. (i + c - 1) + a - 1 = i + (a + c - 1) - 1
    OBVIOUS
  <2> QED
    BY <2>2, <2>3
<1> QED
  BY <1>4, <1>5, <1>6 DEF p

------------------------------------------------------------------------------
(* Where a run of positions ends.                                           *)
EndsAt(i, from, n, G) == /\ i \in from .. n + 1
                         /\ i = n + 1 \/ i \notin G
                         /\ \A j \in from .. i - 1 : j \in G

LEMMA RunEnds ==
  ASSUME NEW n \in Nat, NEW from \in Nat, from <= n + 1, NEW G
  PROVE  /\ \E i : EndsAt(i, from, n, G)
         /\ \A i, k : EndsAt(i, from, n, G) /\ EndsAt(k, from, n, G) => i = k
<1> DEFINE B == {i \in from .. n + 1 : i = n + 1 \/ i \notin G}
<1>1. B \in SUBSET Nat /\ n + 1 \in B
  OBVIOUS
<1> DEFINE m == Min(B)
<1> HIDE DEF B
<1>2. m \in B /\ \A y \in B : m <= y
  <2>1. B # {}
    BY <1>1
  <2> QED
    BY <1>1, <2>1, LeastElement
<1> USE DEF B
<1> HIDE DEF m
<1>3. EndsAt(m, from, n, G)
  <2> SUFFICES ASSUME NEW j \in from .. m - 1, j \notin G PROVE FALSE
    BY <1>2 DEF EndsAt
  <2>1. j \in B /\ ~(m <= j)
    BY <1>2
  <2> QED
    BY <1>2, <2>1
<1>4. ASSUME NEW i, NEW k, EndsAt(i, from, n, G), EndsAt(k, from, n, G) PROVE i = k
  <2>1. i \in Int /\ k \in Int
    BY <1>4 DEF EndsAt
  <2>2. ~(i < k)
    BY <1>4, <2>1 DEF EndsAt
  <2>3. ~(k < i)
    BY <1>4, <2>1 DEF EndsAt
  <2> QED
    BY <2>1, <2>2, <2>3
<1> QED
  BY <1>3, <1>4

(* The runs of the model.                                                   *)
NotComma(t) == {j \in DOMAIN t : t[j] # ","}
NotEqual(t) == {j \in DOMAIN t : t[j] # "="}
Spaces(t) == {j \in DOMAIN t : IsSpace(t[j])}
NotMarkers(t) == {j \in DOMAIN t : ~IsMarker(t[j])}
FiguresIn(t, base) == {j \in DOMAIN t : IsFigure(t[j], base)}

CommaEnd(t, from) == RunEnd(t, from, LAMBDA c : c # ",")
EqualEnd(t, from) == RunEnd(t, from, LAMBDA c : c # "=")
StopEnd(t, from) == RunEnd(t, from, LAMBDA c : c \notin {"="})
NoEnd(t, from) == RunEnd(t, from, LAMBDA c : c \notin {})
SpaceEnd(t, from) == RunEnd(t, from, IsSpace)
FigureEnd(t, from, base) == RunEnd(t, from, LAMBDA c : IsFigure(c, base))

LEMMA CommaEnds ==
  ASSUME NEW t, IsText(t), NEW from \in Nat, from >= 1, from <= Len(t) + 1
  PROVE  EndsAt(CommaEnd(t, from), from, Len(t), NotComma(t))
<1>1. Len(t) \in Nat /\ DOMAIN t = 1 .. Len(t)
  BY TextFacts
<1> DEFINE Is(i) == /\ i = Len(t) + 1 \/ ~(t[i] # ",")
                    /\ \A j \in from .. i - 1 : t[j] # ","
<1>2. \A i \in from .. Len(t) + 1 : Is(i) <=> EndsAt(i, from, Len(t), NotComma(t))
  <2> TAKE i \in from .. Len(t) + 1
  <2>1. \A j \in from .. i - 1 : j \in DOMAIN t
    BY <1>1
  <2>2. i # Len(t) + 1 => i \in DOMAIN t
    BY <1>1
  <2> QED
    BY <2>1, <2>2 DEF EndsAt, NotComma
<1>3. \E i \in from .. Len(t) + 1 : Is(i)
  BY <1>1, <1>2, RunEnds DEF EndsAt
<1>4. CommaEnd(t, from) = CHOOSE i \in from .. Len(t) + 1 : Is(i)
  BY DEF CommaEnd, RunEnd
<1> HIDE DEF Is
<1> QED
  BY <1>2, <1>3, <1>4

LEMMA EqualEnds ==
  ASSUME NEW t, IsText(t), NEW from \in Nat, from >= 1, from <= Len(t) + 1
  PROVE  /\ EndsAt(EqualEnd(t, from), from, Len(t), NotEqual(t))
         /\ EndsAt(StopEnd(t, from), from, Len(t), NotEqual(t))
<1>1. Len(t) \in Nat /\ DOMAIN t = 1 .. Len(t)
  BY TextFacts
<1> DEFINE Is(i) == /\ i = Len(t) + 1 \/ ~(t[i] # "=")
                    /\ \A j \in from .. i - 1 : t[j] # "="
           Is2(i) == /\ i = Len(t) + 1 \/ ~(t[i] \notin {"="})
                     /\ \A j \in from .. i - 1 : t[j] \notin {"="}
<1>2. \A i \in from .. Len(t) + 1 :
         /\ Is(i) <=> EndsAt(i, from, Len(t), NotEqual(t))
         /\ Is2(i) <=> EndsAt(i, from, Len(t), NotEqual(t))
  BY <1>1 DEF EndsAt, NotEqual
<1>3. \E i \in from .. Len(t) + 1 : Is(i) /\ Is2(i)
  <2>1. PICK i : EndsAt(i, from, Len(t), NotEqual(t))
    BY <1>1, RunEnds
  <2>2. i \in from .. Len(t) + 1
    BY <2>1 DEF EndsAt
  <2> QED
    BY <1>2, <2>1, <2>2
<1>4. EqualEnd(t, from) = CHOOSE i \in from .. Len(t) + 1 : Is(i)
  BY DEF EqualEnd, RunEnd
<1>5. StopEnd(t, from) = CHOOSE i \in from .. Len(t) + 1 : Is2(i)
  BY DEF StopEnd, RunEnd
<1> HIDE DEF Is, Is2
<1> QED
  BY <1>2, <1>3, <1>4, <1>5

LEMMA NoEnds ==
  ASSUME NEW t, IsText(t), NEW from \in Nat, from >= 1, from <= Len(t) + 1
  PROVE  NoEnd(t, from) = Len(t) + 1
<1>1. Len(t) \in Nat /\ DOMAIN t = 1 .. Len(t)
  BY TextFacts
<1> DEFINE Is(i) == /\ i = Len(t) + 1 \/ ~(t[i] \notin {})
                    /\ \A j \in from .. i - 1 : t[j] \notin {}
<1>2. \A i \in from .. Len(t) + 1 : Is(i) <=> i = Len(t) + 1
  OBVIOUS
<1>4. NoEnd(t, from) = CHOOSE i \in from .. Len(t) + 1 : Is(i)
  BY DEF NoEnd, RunEnd
<1> HIDE DEF Is
<1>5. Len(t) + 1 \in from .. Len(t) + 1
  BY <1>1
<1> QED
  BY <1>2, <1>4, <1>5

LEMMA SpaceEnds ==
  ASSUME NEW t, IsText(t), NEW from \in Nat, from >= 1, from <= Len(t) + 1
  PROVE  EndsAt(SpaceEnd(t, from), from, Len(t), Spaces(t))
<1>1. Len(t) \in Nat /\ DOMAIN t = 1 .. Len(t)
  BY TextFacts
<1> DEFINE Is(i) == /\ i = Len(t) + 1 \/ ~IsSpace(t[i])
                    /\ \A j \in from .. i - 1 : IsSpace(t[j])
<1>2. \A i \in from .. Len(t) + 1 : Is(i) <=> EndsAt(i, from, Len(t), Spaces(t))
  BY <1>1 DEF EndsAt, Spaces
<1>3. \E i \in from .. Len(t) + 1 : Is(i)
  BY <1>1, <1>2, RunEnds DEF EndsAt
<1>4. SpaceEnd(t, from) = CHOOSE i \in from .. Len(t) + 1 : Is(i)
  BY DEF SpaceEnd, RunEnd
<1> HIDE DEF Is
<1> QED
  BY <1>2, <1>3, <1>4

LEMMA FigureEnds ==
  ASSUME NEW t, IsText(t), NEW from \in Nat, from >= 1, from <= Len(t) + 1, NEW base
  PROVE  EndsAt(FigureEnd(t, from, base), from, Len(t), FiguresIn(t, base))
<1>1. Len(t) \in Nat /\ DOMAIN t = 1 .. Len(t)
  BY TextFacts
<1> DEFINE Is(i) == /\ i = Len(t) + 1 \/ ~IsFigure(t[i], base)
                    /\ \A j \in from .. i - 1 : IsFigure(t[j], base)
<1>2. \A i \in from .. Len(t) + 1 : Is(i) <=> EndsAt(i, from, Len(t), FiguresIn(t, base))
  BY <1>1 DEF EndsAt, FiguresIn
<1>3. \E i \in from .. Len(t) + 1 : Is(i)
  BY <1>1, <1>2, RunEnds DEF EndsAt
<1>4. FigureEnd(t, from, base) = CHOOSE i \in from .. Len(t) + 1 : Is(i)
  BY DEF FigureEnd, RunEnd
<1> HIDE DEF Is
<1> QED
  BY <1>2, <1>3, <1>4

LEMMA MarkerEnds ==
  ASSUME NEW t, IsText(t), NEW from \in Nat, from >= 1, from <= Len(t) + 1
  PROVE  EndsAt(NextMarker(t, from), from, Len(t), NotMarkers(t))
<1>1. Len(t) \in Nat /\ DOMAIN t = 1 .. Len(t)
  BY TextFacts
<1> DEFINE Is(i) == /\ i = Len(t) + 1 \/ ~(~IsMarker(t[i]))
                    /\ \A j \in from .. i - 1 : ~IsMarker(t[j])
<1>2. \A i \in from .. Len(t) + 1 : Is(i) <=> EndsAt(i, from, Len(t), NotMarkers(t))
  BY <1>1 DEF EndsAt, NotMarkers
<1>3. \E i \in from .. Len(t) + 1 : Is(i)
  BY <1>1, <1>2, RunEnds DEF EndsAt
<1>4. NextMarker(t, from) = CHOOSE i \in from .. Len(t) + 1 : Is(i)
  BY DEF NextMarker, RunEnd
<1> HIDE DEF Is
<1> QED
  BY <1>2, <1>3, <1>4

LEMMA LeastIs ==
  ASSUME NEW S \in SUBSET Int, NEW m \in S, \A y \in S : m <= y
  PROVE  Min(S) = m
<1> DEFINE P(z) == \A y \in S : z <= y
<1>1. Min(S) = CHOOSE z \in S : P(z)
  BY DEF Min
<1>2. \A z \in S : P(z) => z = m
  OBVIOUS
<1>3. P(m)
  OBVIOUS
<1> HIDE DEF P
<1> QED
  BY <1>1, <1>2, <1>3

LEMMA GreatestIs ==
  ASSUME NEW S \in SUBSET Int, NEW m \in S, \A y \in S : y <= m
  PROVE  Max(S) = m
<1> DEFINE P(z) == \A y \in S : z >= y
<1>1. Max(S) = CHOOSE z \in S : P(z)
  BY DEF Max
<1>2. \A z \in S : P(z) => z = m
  OBVIOUS
<1>3. P(m)
  OBVIOUS
<1> HIDE DEF P
<1> QED
  BY <1>1, <1>2, <1>3

------------------------------------------------------------------------------
(* Solid is what of a text from a to before e is not space: s to before c.  *)
Solid(t, a, e, s, c) ==
    /\ s \in a .. e /\ c \in s .. e
    /\ \A j \in a .. s - 1 : IsSpace(t[j])
    /\ s # e => ~IsSpace(t[s])
    /\ \A j \in c .. e - 1 : IsSpace(t[j])
    /\ c # s => ~IsSpace(t[c - 1])

LEMMA TrimIs ==
  ASSUME NEW t, IsText(t), NEW a \in Nat, a >= 1, NEW e \in Nat, a <= e, e <= Len(t) + 1,
         NEW s, NEW c, Solid(t, a, e, s, c)
  PROVE  Trimmed(SubSeq(t, a, e - 1)) = SubSeq(t, s, c - 1)
<1> DEFINE p == SubSeq(t, a, e - 1)
           solid == {i \in DOMAIN p : ~IsSpace(p[i])}
<1>1. /\ Len(p) = e - a /\ DOMAIN p = 1 .. Len(p)
      /\ \A i \in DOMAIN p : a + i - 1 \in a .. e - 1 /\ p[i] = t[a + i - 1]
  BY PartFacts
<1>2. /\ s \in Nat /\ c \in Nat /\ a <= s /\ s <= c /\ c <= e /\ Len(t) \in Nat
  BY TextFacts DEF Solid
<1>3. Trimmed(p) = IF solid = {} THEN <<>> ELSE SubSeq(p, Min(solid), Max(solid))
  BY DEF Trimmed
<1> HIDE DEF p
<1>4. \A i \in solid : a + i - 1 >= s /\ a + i - 1 < c
  <2> TAKE i \in solid
  <2>1. i \in 1 .. e - a /\ ~IsSpace(t[a + i - 1]) /\ a + i - 1 \in a .. e - 1
    BY <1>1
  <2>2. ~(a + i - 1 \in a .. s - 1) /\ ~(a + i - 1 \in c .. e - 1)
    BY <2>1 DEF Solid
  <2> QED
    BY <1>2, <2>1, <2>2
<1>5. CASE s = e
  <2>1. solid = {}
    <3>1. \A i \in solid : FALSE
      BY <1>2, <1>4, <1>5, SMTT(30)
    <3> QED
      BY <3>1
  <2>2. SubSeq(t, s, c - 1) = <<>>
    BY <1>2, <1>5, PartFacts
  <2> QED
    BY <1>3, <2>1, <2>2 DEF p
<1>6. CASE s # e
  <2> DEFINE l == s - a + 1
             r == c - a
  <2>1. s < c
    <3>1. ~IsSpace(t[s]) /\ (c = s => \A j \in s .. e - 1 : IsSpace(t[j]))
      BY <1>6 DEF Solid
    <3>2. s \in s .. e - 1
      BY <1>2, <1>6
    <3> QED
      BY <1>2, <3>1, <3>2
  <2>2. l \in 1 .. e - a /\ r \in 1 .. e - a /\ a + l - 1 = s /\ a + r - 1 = c - 1
    BY <1>2, <2>1
  <2>3. ~IsSpace(t[s]) /\ ~IsSpace(t[c - 1])
    BY <1>6, <2>1, <1>2 DEF Solid
  <2>4. p[l] = t[s] /\ p[r] = t[c - 1]
    BY <1>1, <2>2
  <2>5. l \in solid /\ r \in solid
    BY <1>1, <2>2, <2>3, <2>4
  <2>6. solid \in SUBSET Int /\ \A i \in solid : l <= i /\ i <= r
    <3>1. solid \in SUBSET (1 .. e - a)
      BY <1>1
    <3> HIDE DEF solid
    <3> QED
      BY <1>2, <1>4, <3>1
  <2> HIDE DEF l, r, solid
  <2>7. Min(solid) = l /\ Max(solid) = r
    BY <2>5, <2>6, LeastIs, GreatestIs
  <2>8. Trimmed(p) = SubSeq(p, l, r)
    BY <1>3, <2>5, <2>7
  <2> USE DEF l, r
  <2>9. SubSeq(p, l, (r + 1) - 1) = SubSeq(t, a + l - 1, a + (r + 1) - 2)
    <3>1. l \in Nat /\ l >= 1 /\ r + 1 \in Nat /\ r + 1 <= e - a + 1
      BY <2>2
    <3> HIDE DEF l, r
    <3> QED
      BY <3>1, PartOfPart DEF p
  <2>10. (r + 1) - 1 = r /\ a + l - 1 = s /\ a + (r + 1) - 2 = c - 1
    BY <2>2
  <2> QED
    BY <2>8, <2>9, <2>10 DEF p
<1> QED
  BY <1>5, <1>6

LEMMA TrimEmpty == Trimmed(<<>>) = <<>>
  BY DEF Trimmed

(* GET_TOKEN takes what of the text is solid before the stop.               *)
LEMMA CutIs ==
  ASSUME NEW t, NEW s \in Nat, NEW e \in Nat, s <= e
  PROVE  /\ CutAt(t, s, e) \in s .. e
         /\ \A j \in CutAt(t, s, e) .. e - 1 : IsSpace(t[j])
         /\ CutAt(t, s, e) # s => ~IsSpace(t[CutAt(t, s, e) - 1])
<1> DEFINE Is(i) == /\ \A j \in i .. e - 1 : IsSpace(t[j])
                    /\ i = s \/ ~IsSpace(t[i - 1])
           B == {i \in s .. e : \A j \in i .. e - 1 : IsSpace(t[j])}
           m == Min(B)
<1>1. B \in SUBSET Nat /\ e \in B
  OBVIOUS
<1> HIDE DEF B
<1>2. m \in B /\ \A y \in B : m <= y
  <2>1. B # {}
    BY <1>1
  <2> QED
    BY <1>1, <2>1, LeastElement
<1> HIDE DEF m
<1> USE DEF B
<1>3. m \in s .. e /\ Is(m)
  <2>1. m \in s .. e /\ \A j \in m .. e - 1 : IsSpace(t[j])
    BY <1>2
  <2>2. ASSUME m # s, IsSpace(t[m - 1]) PROVE FALSE
    <3>1. m - 1 \in s .. e
      BY <2>1, <2>2
    <3>2. \A j \in m - 1 .. e - 1 : j = m - 1 \/ j \in m .. e - 1
      BY <2>1
    <3>3. m - 1 \in B
      BY <2>1, <2>2, <3>1, <3>2
    <3> QED
      BY <1>2, <2>1, <3>3
  <2> QED
    BY <2>1, <2>2
<1>4. CutAt(t, s, e) = CHOOSE i \in s .. e : Is(i)
  BY DEF CutAt
<1> HIDE DEF Is
<1>5. CutAt(t, s, e) \in s .. e /\ Is(CutAt(t, s, e))
  BY <1>3, <1>4
<1> QED
  BY <1>5 DEF Is

LEMMA SolidToken ==
  ASSUME NEW t, IsText(t), NEW a \in Nat, a >= 1, NEW e \in Nat, a <= e, e <= Len(t) + 1,
         NEW s \in Nat, a <= s, s <= e,
         \A j \in a .. s - 1 : IsSpace(t[j]),
         s # e => ~IsSpace(t[s])
  PROVE  TokenBetween(t, s, e).tkn = Trimmed(SubSeq(t, a, e - 1))
<1> DEFINE c == CutAt(t, s, e)
<1>1. /\ c \in s .. e
      /\ \A j \in c .. e - 1 : IsSpace(t[j])
      /\ c # s => ~IsSpace(t[c - 1])
  BY CutIs
<1>2. TokenBetween(t, s, e).tkn = SubSeq(t, s, c - 1)
  BY DEF TokenBetween
<1> HIDE DEF c
<1>3. Solid(t, a, e, s, c)
  BY <1>1 DEF Solid
<1> QED
  BY <1>2, <1>3, TrimIs

(* hidrd_opt_tkns_parse() finds the name and the value.                     *)
LEMMA NameFound ==
  ASSUME NEW t, IsText(t)
  PROVE  LET e == EqualEnd(t, 1)
             n == GetToken(t, 1, {"="})
         IN  /\ n.tkn = NameIn(t)
             /\ n.next = IF e > Len(t) THEN e ELSE e + 1
             /\ e \in 1 .. Len(t) + 1
             /\ \A j \in 1 .. e - 1 : t[j] # "="
<1> DEFINE e == EqualEnd(t, 1)
           s == SpaceEnd(t, 1)
<1>0. Len(t) \in Nat /\ DOMAIN t = 1 .. Len(t)
  BY TextFacts
<1>1. EndsAt(e, 1, Len(t), NotEqual(t)) /\ EndsAt(s, 1, Len(t), Spaces(t))
  BY <1>0, EqualEnds, SpaceEnds
<1>2. /\ e \in 1 .. Len(t) + 1 /\ (e = Len(t) + 1 \/ t[e] = "=")
      /\ \A j \in 1 .. e - 1 : t[j] # "="
  <2>1. \A j \in 1 .. e - 1 : j \in NotEqual(t)
    BY <1>1 DEF EndsAt
  <2>2. e \in 1 .. Len(t) + 1 /\ (e = Len(t) + 1 \/ e \notin NotEqual(t))
    BY <1>1 DEF EndsAt
  <2>3. e # Len(t) + 1 => e \in DOMAIN t
    BY <1>0, <2>2
  <2> HIDE DEF e
  <2> QED
    BY <2>1, <2>2, <2>3 DEF NotEqual
<1>3. /\ s \in 1 .. Len(t) + 1 /\ (s = Len(t) + 1 \/ ~IsSpace(t[s]))
      /\ \A j \in 1 .. s - 1 : IsSpace(t[j])
  <2>1. \A j \in 1 .. s - 1 : j \in Spaces(t)
    BY <1>1 DEF EndsAt
  <2>2. s \in 1 .. Len(t) + 1 /\ (s = Len(t) + 1 \/ s \notin Spaces(t))
    BY <1>1 DEF EndsAt
  <2>3. s # Len(t) + 1 => s \in DOMAIN t
    BY <1>0, <2>2
  <2> HIDE DEF s
  <2> QED
    BY <2>1, <2>2, <2>3 DEF Spaces
<1> HIDE DEF s, e
<1>4. s <= e
  <2> SUFFICES ASSUME e < s PROVE FALSE
    BY <1>0, <1>2, <1>3
  <2>1. e \in 1 .. s - 1 /\ e # Len(t) + 1
    BY <1>0, <1>2, <1>3
  <2>2. IsSpace(t[e]) /\ t[e] = "="
    BY <1>2, <1>3, <2>1
  <2> QED
    BY <2>2 DEF IsSpace
<1>5. StopEnd(t, s) = e
  <2>1. s \in Nat /\ s >= 1 /\ s <= Len(t) + 1
    BY <1>0, <1>3
  <2>2. EndsAt(StopEnd(t, s), s, Len(t), NotEqual(t))
    BY <2>1, EqualEnds
  <2>3. EndsAt(e, s, Len(t), NotEqual(t))
    BY <1>0, <1>1, <1>2, <1>3, <1>4 DEF EndsAt
  <2> QED
    BY <1>0, <2>1, <2>2, <2>3, RunEnds
<1>6. GetToken(t, 1, {"="}) = TokenBetween(t, s, e)
  BY <1>5 DEF GetToken, TokenFrom, StopEnd, SpaceEnd, s
<1>7. NameIn(t) = Trimmed(SubSeq(t, 1, e - 1))
  BY DEF NameIn, e, EqualEnd
<1>8. TokenBetween(t, s, e).tkn = Trimmed(SubSeq(t, 1, e - 1))
  <2>1. s # e => ~IsSpace(t[s])
    BY <1>0, <1>2, <1>3, <1>4
  <2> QED
    BY <1>0, <1>2, <1>3, <1>4, <2>1, SolidToken
<1>9. TokenBetween(t, s, e).next = IF e > Len(t) THEN e ELSE e + 1
  BY DEF TokenBetween
<1>10. e = EqualEnd(t, 1)
  BY DEF e
<1> QED
  BY <1>2, <1>6, <1>7, <1>8, <1>9, <1>10

LEMMA ValueFound ==
  ASSUME NEW t, IsText(t), NEW e \in 1 .. Len(t) + 1, e = EqualEnd(t, 1)
  PROVE  ValueTkn(t, IF e > Len(t) THEN e ELSE e + 1) = ValueIn(t)
<1> DEFINE from == IF e > Len(t) THEN e ELSE e + 1
           n == Len(t)
<1>0. n \in Nat /\ DOMAIN t = 1 .. n
  BY TextFacts
<1>1. ValueIn(t) = Trimmed(SubSeq(t, e + 1, n))
  BY DEF ValueIn, EqualEnd
<1>2. CASE from > n
  <2>1. e + 1 >= n + 1
    BY <1>0, <1>2
  <2>2. SubSeq(t, e + 1, (n + 1) - 1) = <<>>
    BY <1>0, <2>1, PartFacts
  <2>3. (n + 1) - 1 = n
    BY <1>0
  <2> QED
    BY <1>1, <1>2, <2>2, <2>3, TrimEmpty DEF ValueTkn
<1>3. CASE ~(from > n)
  <2>1. from = e + 1 /\ from \in Nat /\ from >= 1 /\ from <= n
    BY <1>0, <1>3
  <2> DEFINE s == SpaceEnd(t, from)
  <2>2. EndsAt(s, from, n, Spaces(t))
    BY <1>0, <2>1, SpaceEnds
  <2>3. /\ s \in from .. n + 1 /\ (s = n + 1 \/ ~IsSpace(t[s]))
        /\ \A j \in from .. s - 1 : IsSpace(t[j])
    <3>1. \A j \in from .. s - 1 : j \in Spaces(t)
      BY <2>2 DEF EndsAt
    <3>2. s \in from .. n + 1 /\ (s = n + 1 \/ s \notin Spaces(t))
      BY <2>2 DEF EndsAt
    <3>3. s # n + 1 => s \in DOMAIN t
      BY <1>0, <2>1, <3>2
    <3> HIDE DEF s, from
    <3> QED
      BY <3>1, <3>2, <3>3 DEF Spaces
  <2>4. GetToken(t, from, {}) = TokenBetween(t, s, NoEnd(t, s))
    BY DEF GetToken, TokenFrom, NoEnd, SpaceEnd
  <2> HIDE DEF s
  <2>5. NoEnd(t, s) = n + 1
    BY <1>0, <2>1, <2>3, NoEnds
  <2>6. TokenBetween(t, s, n + 1).tkn = Trimmed(SubSeq(t, from, (n + 1) - 1))
    <3>1. s \in Nat /\ from <= s /\ s <= n + 1 /\ from <= n + 1 /\ n + 1 \in Nat
      BY <1>0, <2>1, <2>3
    <3> HIDE DEF from
    <3> QED
      BY <2>1, <2>3, <3>1, SolidToken
  <2>7. (n + 1) - 1 = n
    BY <1>0
  <2>8. ValueTkn(t, from) = GetToken(t, from, {}).tkn
    BY <1>3 DEF ValueTkn
  <2> QED
    BY <1>1, <2>1, <2>4, <2>5, <2>6, <2>7, <2>8
<1> QED
  BY <1>2, <1>3

LEMMA PairFound ==
  ASSUME NEW t, IsText(t)
  PROVE  TknsParse(t) =
           {p \in {[name |-> NameIn(t), value |-> ValueIn(t)]} :
               NameTknValid(p.name) /\ ValueTknValid(p.value)}
<1> DEFINE n == GetToken(t, 1, {"="})
           e == EqualEnd(t, 1)
<1>1. n.tkn = NameIn(t) /\ ValueTkn(t, n.next) = ValueIn(t)
  <2>1. /\ n.tkn = NameIn(t)
        /\ n.next = IF e > Len(t) THEN e ELSE e + 1
        /\ e \in 1 .. Len(t) + 1
    BY NameFound
  <2> HIDE DEF n, e
  <2>2. e = EqualEnd(t, 1)
    BY DEF e
  <2> QED
    BY <2>1, <2>2, ValueFound
<1> HIDE DEF n
<1>2. {[name |-> k.tkn, value |-> ValueTkn(t, k.next)] : k \in {n}} =
      {[name |-> NameIn(t), value |-> ValueIn(t)]}
  BY <1>1
<1> QED
  BY <1>2 DEF TknsParse, n

LEMMA GreatestElement ==
  ASSUME NEW n \in Nat, NEW S \in SUBSET (0 .. n), S # {}
  PROVE  Max(S) \in S /\ \A y \in S : y <= Max(S)
<1> DEFINE D == {d \in 0 .. n : n - d \in S}
           m == Min(D)
<1>1. D \in SUBSET Nat /\ D # {}
  <2>1. PICK y \in S : TRUE
    OBVIOUS
  <2>2. n - y \in 0 .. n /\ n - (n - y) = y
    OBVIOUS
  <2>3. n - y \in D
    BY <2>2
  <2>4. D \in SUBSET Nat
    OBVIOUS
  <2> HIDE DEF D
  <2> QED
    BY <2>3, <2>4
<1> HIDE DEF D
<1>2. m \in D /\ \A d \in D : m <= d
  BY <1>1, LeastElement
<1> HIDE DEF m
<1> USE DEF D
<1>3. n - m \in S
  BY <1>2
<1>4. ASSUME NEW y \in S PROVE y <= n - m
  <2>1. n - y \in D
    <3>1. n - y \in 0 .. n /\ n - (n - y) = y
      OBVIOUS
    <3> QED
      BY <3>1
  <2>2. m <= n - y /\ m \in 0 .. n
    BY <1>2, <2>1
  <2> QED
    BY <2>2
<1>5. S \in SUBSET Int
  OBVIOUS
<1>6. Max(S) = n - m
  BY <1>3, <1>4, <1>5, GreatestIs
<1> QED
  BY <1>3, <1>4, <1>6

(* What is between two places of a text, and what is trimmed, is a text of  *)
(* the same characters.                                                     *)
MadeOf(p, t) == IsText(p) /\ ToSet(p) \subseteq ToSet(t)

LEMMA PartMadeOf ==
  ASSUME NEW t, IsText(t), NEW a \in Nat, a >= 1, NEW e \in Nat, e <= Len(t) + 1
  PROVE  MadeOf(SubSeq(t, a, e - 1), t)
<1> DEFINE p == SubSeq(t, a, e - 1)
<1>1. /\ IsText(p) /\ DOMAIN p = 1 .. Len(p)
      /\ \A i \in DOMAIN p : a + i - 1 \in a .. e - 1 /\ p[i] = t[a + i - 1]
  BY PartFacts
<1> HIDE DEF p
<1>2. \A i \in DOMAIN p : p[i] \in ToSet(t)
  <2> TAKE i \in DOMAIN p
  <2>1. a + i - 1 \in DOMAIN t
    BY <1>1, TextFacts
  <2> QED
    BY <1>1, <2>1 DEF ToSet
<1>3. ToSet(p) \subseteq ToSet(t)
  BY <1>2 DEF ToSet
<1> QED
  BY <1>1, <1>3 DEF MadeOf, p

LEMMA TrimMadeOf ==
  ASSUME NEW t, IsText(t)
  PROVE  MadeOf(Trimmed(t), t)
<1> DEFINE solid == {i \in DOMAIN t : ~IsSpace(t[i])}
<1>1. Len(t) \in Nat /\ DOMAIN t = 1 .. Len(t)
  BY TextFacts
<1>2. CASE solid = {}
  <2>1. Trimmed(t) = <<>>
    BY <1>2 DEF Trimmed
  <2>2. ToSet(<<>>) = {}
    BY DEF ToSet
  <2> QED
    BY <2>1, <2>2, ShortTexts DEF MadeOf
<1>3. CASE solid # {}
  <2>1. solid \in SUBSET (1 .. Len(t)) /\ solid \in SUBSET Nat /\ solid \in SUBSET (0 .. Len(t))
    BY <1>1
  <2>2. Trimmed(t) = SubSeq(t, Min(solid), Max(solid))
    BY <1>3 DEF Trimmed
  <2> HIDE DEF solid
  <2>3. solid # {}
    BY <1>3 DEF solid
  <2>32. Min(solid) \in solid /\ Max(solid) \in solid
    BY <1>1, <2>1, <2>3, LeastElement, GreatestElement
  <2>33. PICK l \in 1 .. Len(t), r \in 1 .. Len(t) : l = Min(solid) /\ r = Max(solid)
    BY <2>1, <2>32
  <2> DEFINE a == l
             e == r + 1
  <2>4. a \in Nat /\ a >= 1 /\ e \in Nat /\ e <= Len(t) + 1 /\ e - 1 = Max(solid)
    BY <1>1, <2>33
  <2>5. MadeOf(SubSeq(t, a, e - 1), t)
    <3> HIDE DEF a, e
    <3> QED
      BY <2>4, PartMadeOf
  <2> QED
    BY <2>2, <2>33, <2>4, <2>5
<1> QED
  BY <1>2, <1>3

LEMMA MadeOfTrans ==
  ASSUME NEW p, NEW q, NEW t, MadeOf(p, q), MadeOf(q, t) PROVE MadeOf(p, t)
  BY DEF MadeOf

LEMMA PairMadeOf ==
  ASSUME NEW t, IsText(t)
  PROVE  /\ MadeOf(NameIn(t), t) /\ "=" \notin ToSet(NameIn(t))
         /\ MadeOf(ValueIn(t), t)
<1> DEFINE e == EqualEnd(t, 1)
           n == SubSeq(t, 1, e - 1)
           v == SubSeq(t, e + 1, (Len(t) + 1) - 1)
<1>1. /\ Len(t) \in Nat /\ DOMAIN t = 1 .. Len(t)
      /\ e \in 1 .. Len(t) + 1 /\ \A j \in 1 .. e - 1 : t[j] # "="
  BY TextFacts, NameFound
<1>2. NameIn(t) = Trimmed(n) /\ ValueIn(t) = Trimmed(v)
  <2>1. (Len(t) + 1) - 1 = Len(t)
    BY <1>1
  <2> QED
    BY <2>1 DEF NameIn, ValueIn, EqualEnd
<1> HIDE DEF e
<1>3. MadeOf(n, t) /\ MadeOf(v, t)
  <2>1. e \in Nat /\ e >= 1 /\ e <= Len(t) + 1 /\ e + 1 \in Nat /\ e + 1 >= 1 /\ Len(t) + 1 \in Nat
    BY <1>1
  <2>2. MadeOf(n, t)
    BY <2>1, PartMadeOf
  <2>3. MadeOf(v, t)
    <3> DEFINE a == e + 1
               b == Len(t) + 1
    <3>1. a \in Nat /\ a >= 1 /\ b \in Nat /\ b <= Len(t) + 1
      BY <1>1, <2>1
    <3> HIDE DEF a, b
    <3>2. MadeOf(SubSeq(t, a, b - 1), t)
      BY <3>1, PartMadeOf
    <3> QED
      BY <3>2 DEF a, b
  <2> QED
    BY <2>2, <2>3
<1>4. "=" \notin ToSet(n)
  <2>1. \A i \in DOMAIN n : 1 + i - 1 \in 1 .. e - 1 /\ n[i] = t[1 + i - 1]
    <3>1. e \in Nat /\ e >= 1 /\ e <= Len(t) + 1
      BY <1>1
    <3> QED
      BY <3>1, PartFacts
  <2>2. \A i \in DOMAIN n : n[i] # "="
    BY <1>1, <2>1
  <2> HIDE DEF n
  <2> QED
    BY <2>2 DEF ToSet
<1> HIDE DEF n, v
<1>5. MadeOf(Trimmed(n), n) /\ MadeOf(Trimmed(v), v)
  BY <1>3, TrimMadeOf DEF MadeOf
<1>6. "=" \notin ToSet(Trimmed(n))
  BY <1>4, <1>5 DEF MadeOf
<1> QED
  BY <1>2, <1>3, <1>5, <1>6, MadeOfTrans

------------------------------------------------------------------------------
(* The value of figures is a number.                                        *)
ValueFun(f, s, base) ==
    f = [k \in 0 .. Len(s) |-> IF k = 0 THEN 0 ELSE f[k - 1] * base + WeightOf[s[k]]]
ValueTo(f, s, base, n) ==
    f = [k \in 0 .. n |-> IF k = 0 THEN 0 ELSE f[k - 1] * base + WeightOf[s[k]]]

LEMMA ValueFunExists ==
  ASSUME NEW s, NEW base, NEW n \in Nat
  PROVE  \E f : ValueTo(f, s, base, n)
<1> DEFINE K == {m \in Nat : \E f : ValueTo(f, s, base, m)}
<1>1. 0 \in K
  <2> DEFINE f == [k \in 0 .. 0 |-> 0]
  <2>1. f = [k \in 0 .. 0 |-> IF k = 0 THEN 0 ELSE f[k - 1] * base + WeightOf[s[k]]]
    OBVIOUS
  <2>2. ValueTo(f, s, base, 0)
    BY <2>1 DEF ValueTo
  <2> QED
    BY <2>2
<1>2. ASSUME NEW m \in Nat, m \in K PROVE m + 1 \in K
  <2>1. PICK f : ValueTo(f, s, base, m)
    BY <1>2
  <2>2. /\ DOMAIN f = 0 .. m
        /\ \A k \in 0 .. m : f[k] = IF k = 0 THEN 0 ELSE f[k - 1] * base + WeightOf[s[k]]
    <3> DEFINE r == [k \in 0 .. m |-> IF k = 0 THEN 0 ELSE f[k - 1] * base + WeightOf[s[k]]]
    <3>1. f = r
      BY <2>1 DEF ValueTo
    <3>2. /\ DOMAIN r = 0 .. m
          /\ \A k \in 0 .. m : r[k] = IF k = 0 THEN 0 ELSE f[k - 1] * base + WeightOf[s[k]]
      OBVIOUS
    <3> HIDE DEF r
    <3> QED
      BY <3>1, <3>2
  <2> DEFINE g == [k \in 0 .. m + 1 |-> IF k <= m THEN f[k] ELSE f[m] * base + WeightOf[s[k]]]
             h == [k \in 0 .. m + 1 |-> IF k = 0 THEN 0 ELSE g[k - 1] * base + WeightOf[s[k]]]
  <2>3. ASSUME NEW k \in 0 .. m + 1
        PROVE  g[k] = IF k = 0 THEN 0 ELSE g[k - 1] * base + WeightOf[s[k]]
    <3>1. CASE k = 0
      BY <2>2, <3>1
    <3>2. CASE k # 0 /\ k <= m
      <4>1. k \in 0 .. m /\ k - 1 \in 0 .. m /\ k - 1 <= m
        BY <3>2
      <4>2. g[k] = f[k] /\ g[k - 1] = f[k - 1]
        BY <4>1
      <4>3. f[k] = f[k - 1] * base + WeightOf[s[k]]
        BY <2>2, <3>2, <4>1
      <4> QED
        BY <3>2, <4>2, <4>3
    <3>3. CASE k = m + 1
      <4>1. k - 1 = m /\ ~(k <= m) /\ k # 0
        BY <3>3
      <4>2. g[k] = f[m] * base + WeightOf[s[k]] /\ g[m] = f[m]
        BY <4>1
      <4> QED
        BY <4>1, <4>2
    <3> QED
      BY <3>1, <3>2, <3>3
  <2>4. g = h
    <3>1. \A k \in 0 .. m + 1 : g[k] = h[k]
      BY <2>3
    <3>2. DOMAIN g = 0 .. m + 1 /\ DOMAIN h = 0 .. m + 1
      OBVIOUS
    <3> QED
      BY <3>1
  <2>5. ValueTo(g, s, base, m + 1)
    <3> HIDE DEF g
    <3> QED
      BY <2>4 DEF ValueTo
  <2> QED
    BY <2>5
<1> HIDE DEF K
<1>3. n \in K
  BY <1>1, <1>2, Rec!NumberInduction
<1> QED
  BY <1>3 DEF K

LEMMA ValueIsNumber ==
  ASSUME NEW s, IsText(s), NEW base \in Nat,
         \A i \in DOMAIN s : WeightOf[s[i]] \in Nat
  PROVE  ValueOf(s, base) \in Nat
<1> DEFINE f == CHOOSE g : ValueFun(g, s, base)
           n == Len(s)
<1>1. n \in Nat /\ DOMAIN s = 1 .. n
  BY TextFacts
<1>2. ValueOf(s, base) = f[n]
  BY Zenon DEF ValueOf, ValueFun
<1>3. ValueFun(f, s, base)
  <2>1. \E g : ValueFun(g, s, base)
    BY <1>1, ValueFunExists DEF ValueFun, ValueTo
  <2> QED
    BY <2>1
<1> HIDE DEF f
<1>4. \A k \in 0 .. n : f[k] = IF k = 0 THEN 0 ELSE f[k - 1] * base + WeightOf[s[k]]
  <2> DEFINE r == [k \in 0 .. n |-> IF k = 0 THEN 0 ELSE f[k - 1] * base + WeightOf[s[k]]]
  <2>1. f = r
    BY <1>3 DEF ValueFun
  <2>2. \A k \in 0 .. n : r[k] = IF k = 0 THEN 0 ELSE f[k - 1] * base + WeightOf[s[k]]
    OBVIOUS
  <2> HIDE DEF r
  <2> QED
    BY <2>1, <2>2
<1> DEFINE K == {m \in Nat : m <= n => f[m] \in Nat}
<1>5. 0 \in K
  BY <1>1, <1>4
<1>6. ASSUME NEW m \in Nat, m \in K PROVE m + 1 \in K
  <2> SUFFICES ASSUME m + 1 <= n PROVE f[m + 1] \in Nat
    OBVIOUS
  <2>1. m + 1 \in 0 .. n /\ m + 1 # 0 /\ (m + 1) - 1 = m /\ m + 1 \in DOMAIN s
    BY <1>1
  <2>2. f[m + 1] = f[m] * base + WeightOf[s[m + 1]]
    BY <1>4, <2>1
  <2>3. f[m] \in Nat /\ WeightOf[s[m + 1]] \in Nat
    BY <1>1, <1>6, <2>1
  <2> HIDE DEF n
  <2>4. f[m] * base \in Nat
    BY <2>3
  <2> QED
    BY <2>2, <2>3, <2>4
<1> HIDE DEF K
<1>7. n \in K
  BY <1>1, <1>5, <1>6, Rec!NumberInduction
<1> QED
  BY <1>1, <1>2, <1>7 DEF K

(* What the readers of values return.                                       *)
LEMMA FiguresWeigh ==
  ASSUME NEW c, NEW base \in 1 .. 16, IsFigure(c, base)
  PROVE  WeightOf[c] \in Nat
<1>1. PICK i \in 1 .. 16 : Figure[i] = c
  BY DEF IsFigure
<1>2. DOMAIN Figure = 1 .. 16
  BY DEF Figure
<1>3. c \in ToSet(Figure)
  BY <1>1, <1>2 DEF ToSet
<1> DEFINE place == CHOOSE k \in 1 .. 16 : Figure[k] = c
<1>4. WeightOf[c] = place - 1
  BY <1>3 DEF WeightOf
<1>5. place \in 1 .. 16
  BY <1>1
<1> HIDE DEF place
<1> QED
  BY <1>4, <1>5

LEMMA StrtolFiguresNumber ==
  ASSUME NEW t, IsText(t), NEW start, NEW minus \in BOOLEAN,
         NEW from \in Nat, from >= 1, from <= Len(t) + 1
  PROVE  /\ StrtolFigures(t, start, minus, from, 10).num \in Int
         /\ ~minus => StrtolFigures(t, start, minus, from, 10).num \in Nat
<1> DEFINE to == FigureEnd(t, from, 10)
           p == SubSeq(t, from, to - 1)
           r == StrtolFigures(t, start, minus, from, 10)
<1>1. r = IF from = to THEN [end |-> start, num |-> 0]
          ELSE [end |-> to, num |-> (IF minus THEN -1 ELSE 1) * ValueOf(p, 10)]
  BY DEF StrtolFigures, FigureEnd
<1>2. EndsAt(to, from, Len(t), FiguresIn(t, 10))
  BY FigureEnds
<1> HIDE DEF to
<1>3. to \in Nat /\ from <= to /\ to <= Len(t) + 1 /\ \A j \in from .. to - 1 : IsFigure(t[j], 10)
  BY <1>2, TextFacts DEF EndsAt, FiguresIn
<1>4. /\ IsText(p)
      /\ \A i \in DOMAIN p : from + i - 1 \in from .. to - 1 /\ p[i] = t[from + i - 1]
  BY <1>3, PartFacts
<1> HIDE DEF p
<1>5. \A i \in DOMAIN p : WeightOf[p[i]] \in Nat
  <2> TAKE i \in DOMAIN p
  <2>1. IsFigure(p[i], 10)
    BY <1>3, <1>4
  <2> QED
    BY <2>1, FiguresWeigh
<1>6. ValueOf(p, 10) \in Nat
  BY <1>4, <1>5, ValueIsNumber
<1> DEFINE v == ValueOf(p, 10)
<1> HIDE DEF r, v
<1>7. v \in Nat
  BY <1>6 DEF v
<1>8. r = IF from = to THEN [end |-> start, num |-> 0]
          ELSE [end |-> to, num |-> (IF minus THEN -1 ELSE 1) * v]
  BY <1>1 DEF v
<1>9. r.num \in {0, v, -v} /\ (~minus => r.num \in {0, v})
  <2>1. (-1) * v = -v /\ 1 * v = v
    BY <1>7
  <2>2. CASE from = to
    BY <1>8, <2>2
  <2>3. CASE from # to /\ minus
    <3>1. r.num = (IF minus THEN -1 ELSE 1) * v
      BY <1>8, <2>3
    <3> QED
      BY <2>1, <2>3, <3>1
  <2>4. CASE from # to /\ ~minus
    <3>1. r.num = (IF minus THEN -1 ELSE 1) * v
      BY <1>8, <2>4
    <3> QED
      BY <2>1, <2>4, <3>1
  <2> QED
    BY <2>2, <2>3, <2>4
<1>10. r.num \in Int /\ (~minus => r.num \in Nat)
  BY <1>7, <1>9
<1> QED
  BY <1>10 DEF r

LEMMA StrtolNumber ==
  ASSUME NEW t, IsText(t), NEW start \in Nat, start >= 1, start <= Len(t) + 1
  PROVE  /\ Strtol(t, start, 10).num \in Int
         /\ At(t, SpaceEnd(t, start)) # "-" => Strtol(t, start, 10).num \in Nat
<1> DEFINE sign == SpaceEnd(t, start)
           minus == At(t, sign) = "-"
           first == IF At(t, sign) \in {"+", "-"} THEN sign + 1 ELSE sign
<1>1. Len(t) \in Nat /\ DOMAIN t = 1 .. Len(t)
  BY TextFacts
<1>2. EndsAt(sign, start, Len(t), Spaces(t))
  BY SpaceEnds
<1>3. Strtol(t, start, 10) = StrtolSigned(t, start, minus, first, 10)
  BY DEF Strtol, StrtolAt, SpaceEnd
<1> HIDE DEF sign
<1>4. sign \in Nat /\ sign >= 1 /\ sign <= Len(t) + 1
  BY <1>1, <1>2 DEF EndsAt
<1>5. At(t, sign) \in {"+", "-"} => sign <= Len(t)
  <2> SUFFICES ASSUME sign = Len(t) + 1 PROVE At(t, sign) \notin {"+", "-"}
    BY <1>1, <1>4
  <2>1. sign \notin DOMAIN t
    BY <1>1
  <2>2. At(t, sign) = "end"
    BY <2>1 DEF At
  <2> QED
    BY <2>2
<1>6. first \in Nat /\ first >= 1 /\ first <= Len(t) + 1
  BY <1>1, <1>4, <1>5
<1>7. minus \in BOOLEAN
  OBVIOUS
<1> HIDE DEF first, minus
<1>8. StrtolSigned(t, start, minus, first, 10) = StrtolFigures(t, start, minus, first, 10)
  BY DEF StrtolSigned
<1>9. /\ StrtolFigures(t, start, minus, first, 10).num \in Int
      /\ ~minus => StrtolFigures(t, start, minus, first, 10).num \in Nat
  BY <1>6, <1>7, StrtolFiguresNumber
<1> QED
  BY <1>3, <1>8, <1>9 DEF minus, sign

LEMMA ConvertedNumber ==
  ASSUME NEW t, IsText(t), NEW start \in Nat, start >= 1, start <= Len(t) + 1
  PROVE  /\ \A n \in Converted(t, start, "NONE", 10) : n = Strtol(t, start, 10).num
         /\ Converted(t, start, "NONE", 10) \subseteq Int
<1>1. \A found \in FindEnd(t, "NONE", 10) : StrtolBase("NONE", found) = 10
  BY DEF FindEnd, StrtolBase
<1>2. \A n \in Converted(t, start, "NONE", 10) : n = Strtol(t, start, 10).num
  <2> TAKE n \in Converted(t, start, "NONE", 10)
  <2>1. PICK found \in FindEnd(t, "NONE", 10) :
           n \in {k.num : k \in {r \in {Strtol(t, start, StrtolBase("NONE", found))} :
                                    r.end = found.end}}
    BY DEF Converted
  <2>2. n = Strtol(t, start, StrtolBase("NONE", found)).num
    BY <2>1
  <2> QED
    BY <1>1, <2>2
<1>3. Strtol(t, start, 10).num \in Int
  BY StrtolNumber
<1> QED
  BY <1>2, <1>3

(* The ranges of the two number types are intervals.                        *)
LEMMA RangeOf ==
  /\ \A n \in Int : n <= Most("s32") /\ n >= Least("s32") <=> n \in Least("s32") .. Most("s32")
  /\ \A n \in Nat : n <= Most("u32") <=> n \in 0 .. Most("u32")
  OBVIOUS

LEMMA ReadSigned ==
  ASSUME NEW t, IsText(t)
  PROVE  /\ FromRepr("s32", t, "dec") \subseteq Least("s32") .. Most("s32")
         /\ \A m, n \in FromRepr("s32", t, "dec") : m = n
<1>1. FromRepr("s32", t, "dec") = SFromStr("s32", t, "NONE", 10)
  BY DEF FromRepr, Parsed, Mark, Base, Signed
<1>2. SFromStr("s32", t, "NONE", 10) \subseteq Converted(t, 1, "NONE", 10)
  BY DEF SFromStr, S32FromStr
<1>3. 1 \in Nat /\ 1 <= Len(t) + 1
  BY TextFacts
<1>4. SFromStr("s32", t, "NONE", 10) \subseteq Int
  BY <1>2, <1>3, ConvertedNumber
<1>5. \A n \in SFromStr("s32", t, "NONE", 10) : n \in Int => n \in Least("s32") .. Most("s32")
  BY RangeOf DEF SFromStr
<1> QED
  BY <1>1, <1>2, <1>3, <1>4, <1>5, ConvertedNumber

LEMMA ReadUnsigned ==
  ASSUME NEW t, IsText(t)
  PROVE  /\ FromRepr("u32", t, "dec") \subseteq 0 .. Most("u32")
         /\ \A m, n \in FromRepr("u32", t, "dec") : m = n
<1> DEFINE s == SpaceEnd(t, 1)
<1>1. FromRepr("u32", t, "dec") = UFromStr("u32", t, "NONE", 10)
  BY DEF FromRepr, Parsed, Mark, Base, Signed
<1>2. \A n \in UFromStr("u32", t, "NONE", 10) :
         n \in Converted(t, s, "NONE", 10) /\ At(t, s) # "-"
  BY DEF UFromStr, U32FromStr, SpaceEnd
<1>3. Len(t) \in Nat /\ EndsAt(s, 1, Len(t), Spaces(t))
  <2>1. 1 \in Nat /\ 1 <= Len(t) + 1 /\ Len(t) \in Nat
    BY TextFacts
  <2> QED
    BY <2>1, SpaceEnds
<1> HIDE DEF s
<1>4. s \in Nat /\ s >= 1 /\ s <= Len(t) + 1
  BY <1>3 DEF EndsAt
<1>5. SpaceEnd(t, s) = s
  <2>1. EndsAt(s, s, Len(t), Spaces(t))
    BY <1>3, <1>4 DEF EndsAt
  <2>2. EndsAt(SpaceEnd(t, s), s, Len(t), Spaces(t))
    BY <1>4, SpaceEnds
  <2> QED
    BY <1>3, <1>4, <2>1, <2>2, RunEnds
<1>6. At(t, s) # "-" => Strtol(t, s, 10).num \in Nat
  BY <1>4, <1>5, StrtolNumber
<1>7. \A n \in Converted(t, s, "NONE", 10) : n = Strtol(t, s, 10).num
  BY <1>4, ConvertedNumber
<1>8. \A n \in UFromStr("u32", t, "NONE", 10) : n \in Nat => n \in 0 .. Most("u32")
  BY RangeOf DEF UFromStr
<1> QED
  BY <1>1, <1>2, <1>6, <1>7, <1>8

LEMMA ReadBoolean ==
  ASSUME NEW t
  PROVE  \A b, c \in BoolFromStr(t) : b = c
<1> DEFINE B(k) == k \in Yes \/ (k \notin No /\ \E i \in DOMAIN k : k[i] # "0")
<1>1. \A k \in FindTkn(t) : k = Trimmed(t)
  BY DEF FindTkn
<1>2. \A b \in BoolFromStr(t) : \E k \in FindTkn(t) : b = B(k)
  BY Zenon DEF BoolFromStr
<1> HIDE DEF B
<1>3. \A b \in BoolFromStr(t) : b = B(Trimmed(t))
  BY <1>1, <1>2, Zenon
<1> QED
  BY <1>3, Zenon

(* What a type reads is one value at most, and one of the type.             *)
LEMMA ValueRead ==
  ASSUME NEW type \in OptTypes, NEW t, IsText(t)
  PROVE  /\ \A v \in TypeParseValue(type, t) : ValueValid(type, v)
         /\ \A v, w \in TypeParseValue(type, t) : v = w
<1>1. CASE type = "s"
  <2>1. TypeParseValue(type, t) = {Value(0, t)}
    BY <1>1 DEF TypeParseValue
  <2>2. ValueValid(type, Value(0, t))
    BY <1>1 DEF ValueValid, Value, NumbersOf
  <2> QED
    BY <2>1, <2>2
<1>2. CASE type = "b"
  <2>1. TypeParseValue(type, t) = {Value(IF b THEN 1 ELSE 0, <<>>) : b \in BoolFromStr(t)}
    BY <1>2 DEF TypeParseValue
  <2>2. \A b : ValueValid(type, Value(IF b THEN 1 ELSE 0, <<>>))
    BY <1>2, ShortTexts DEF ValueValid, Value, NumbersOf
  <2>3. \A b, c \in BoolFromStr(t) : b = c
    BY ReadBoolean
  <2> QED
    BY <2>1, <2>2, <2>3, Zenon
<1>3. CASE type = "S"
  <2>1. TypeParseValue(type, t) = {Value(n, <<>>) : n \in FromRepr("s32", t, "dec")}
    BY <1>3 DEF TypeParseValue
  <2>2. \A n \in Least("s32") .. Most("s32") : ValueValid(type, Value(n, <<>>))
    BY <1>3, ShortTexts DEF ValueValid, Value, NumbersOf
  <2> QED
    BY <2>1, <2>2, ReadSigned
<1>4. CASE type = "U"
  <2>1. TypeParseValue(type, t) = {Value(n, <<>>) : n \in FromRepr("u32", t, "dec")}
    BY <1>4 DEF TypeParseValue
  <2>2. \A n \in 0 .. Most("u32") : ValueValid(type, Value(n, <<>>))
    BY <1>4, ShortTexts DEF ValueValid, Value, NumbersOf
  <2> QED
    BY <2>1, <2>2, ReadUnsigned
<1> QED
  BY <1>1, <1>2, <1>3, <1>4 DEF OptTypes

(* The value of figures is that of all but the last, and the last.          *)
ValueSteps(f, s, base) ==
    \A k \in 0 .. Len(s) : f[k] = IF k = 0 THEN 0 ELSE f[k - 1] * base + WeightOf[s[k]]

LEMMA ValueDef ==
  ASSUME NEW s, IsText(s), NEW base
  PROVE  \E f : ValueSteps(f, s, base) /\ ValueOf(s, base) = f[Len(s)]
<1> DEFINE f == CHOOSE g : ValueFun(g, s, base)
           n == Len(s)
<1>1. n \in Nat
  BY TextFacts
<1>2. ValueOf(s, base) = f[n]
  BY Zenon DEF ValueOf, ValueFun
<1>3. ValueFun(f, s, base)
  <2>1. \E g : ValueFun(g, s, base)
    BY <1>1, ValueFunExists DEF ValueFun, ValueTo
  <2> QED
    BY <2>1
<1> HIDE DEF f
<1>4. ValueSteps(f, s, base)
  <2> DEFINE r == [k \in 0 .. n |-> IF k = 0 THEN 0 ELSE f[k - 1] * base + WeightOf[s[k]]]
  <2>1. f = r
    BY <1>3 DEF ValueFun
  <2>2. \A k \in 0 .. n : r[k] = IF k = 0 THEN 0 ELSE f[k - 1] * base + WeightOf[s[k]]
    OBVIOUS
  <2> HIDE DEF r
  <2> QED
    BY <2>1, <2>2 DEF ValueSteps
<1> QED
  BY <1>2, <1>4

LEMMA ValueOfOne ==
  ASSUME NEW x, WeightOf[x] \in Nat
  PROVE  ValueOf(<<x>>, 10) = WeightOf[x]
<1> DEFINE s == <<x>>
<1>1. IsText(s) /\ Len(s) = 1 /\ s[1] = x
  BY ShortTexts
<1> HIDE DEF s
<1>2. PICK f : ValueSteps(f, s, 10) /\ ValueOf(s, 10) = f[1]
  BY <1>1, ValueDef
<1>3. f[0] = 0 /\ f[1] = f[0] * 10 + WeightOf[x]
  BY <1>1, <1>2 DEF ValueSteps
<1> QED
  BY <1>2, <1>3 DEF s

LEMMA ValueAppended ==
  ASSUME NEW s, IsText(s), NEW x, NEW base
  PROVE  ValueOf(Append(s, x), base) = ValueOf(s, base) * base + WeightOf[x]
<1> DEFINE u == Append(s, x)
           n == Len(s)
<1>1. /\ n \in Nat
      /\ IsText(u) /\ Len(u) = n + 1
      /\ \A i \in 1 .. n : u[i] = s[i]
      /\ u[n + 1] = x
  <2> DEFINE S == ToSet(s) \cup {x}
  <2>1. s \in Seq(ToSet(s)) /\ n \in Nat
    BY TextFacts DEF IsText
  <2>2. s \in Seq(S) /\ x \in S
    BY <2>1
  <2> HIDE DEF S
  <2>3. u \in Seq(S) /\ Len(u) = n + 1 /\ (\A i \in 1 .. n : u[i] = s[i]) /\ u[n + 1] = x
    BY <2>2
  <2> QED
    BY <2>1, <2>3, SeqIsText
<1> HIDE DEF u
<1>2. PICK f : ValueSteps(f, s, base) /\ ValueOf(s, base) = f[n]
  BY ValueDef
<1>3. PICK g : ValueSteps(g, u, base) /\ ValueOf(u, base) = g[n + 1]
  BY <1>1, ValueDef
<1>4. \A k \in 0 .. n : f[k] = IF k = 0 THEN 0 ELSE f[k - 1] * base + WeightOf[s[k]]
  BY <1>2 DEF ValueSteps
<1>5. \A k \in 0 .. n + 1 : g[k] = IF k = 0 THEN 0 ELSE g[k - 1] * base + WeightOf[u[k]]
  BY <1>1, <1>3 DEF ValueSteps
<1> HIDE DEF n
<1> DEFINE K == {m \in Nat : m <= n => f[m] = g[m]}
<1>6. 0 \in K
  BY <1>1, <1>4, <1>5
<1>7. ASSUME NEW m \in Nat, m \in K PROVE m + 1 \in K
  <2> SUFFICES ASSUME m + 1 <= n PROVE f[m + 1] = g[m + 1]
    OBVIOUS
  <2>1. m + 1 \in 0 .. n /\ m + 1 \in 0 .. n + 1 /\ m + 1 # 0 /\ (m + 1) - 1 = m
        /\ m + 1 \in 1 .. n /\ m <= n
    BY <1>1
  <2>2. f[m + 1] = f[m] * base + WeightOf[s[m + 1]]
    BY <1>4, <2>1
  <2>3. g[m + 1] = g[m] * base + WeightOf[u[m + 1]]
    BY <1>5, <2>1
  <2> QED
    BY <1>1, <1>7, <2>1, <2>2, <2>3
<1> HIDE DEF K
<1>8. n \in K
  BY <1>1, <1>6, <1>7, Rec!NumberInduction
<1>9. f[n] = g[n]
  BY <1>1, <1>8 DEF K
<1>10. n + 1 \in 0 .. n + 1 /\ n + 1 # 0 /\ (n + 1) - 1 = n
  BY <1>1
<1>11. g[n + 1] = g[n] * base + WeightOf[u[n + 1]]
  BY <1>5, <1>10
<1> QED
  BY <1>1, <1>2, <1>3, <1>9, <1>11 DEF u

(* What the figures are worth.                                              *)
LEMMA FigureWeight ==
  ASSUME NEW k \in 0 .. 9
  PROVE  WeightOf[Figure[k + 1]] = k /\ IsFigure(Figure[k + 1], 10)
<1> DEFINE c == Figure[k + 1]
           place == CHOOSE i \in 1 .. 16 : Figure[i] = c
<1>1. k + 1 \in 1 .. 16 /\ k + 1 \in 1 .. 10 /\ DOMAIN Figure = 1 .. 16
  BY DEF Figure
<1>2. \A i, j \in 1 .. 16 : Figure[i] = Figure[j] => i = j
  BY DEF Figure
<1>3. c \in ToSet(Figure) /\ IsFigure(c, 10)
  BY <1>1 DEF ToSet, IsFigure
<1>4. WeightOf[c] = place - 1
  BY <1>3 DEF WeightOf
<1>5. place \in 1 .. 16 /\ Figure[place] = c
  BY <1>1
<1> HIDE DEF place
<1>6. place = k + 1
  BY <1>1, <1>2, <1>5
<1> QED
  BY <1>3, <1>4, <1>6

(* What the writers of values return.                                       *)
LEMMA ConcatText ==
  ASSUME NEW a, IsText(a), NEW b, IsText(b)
  PROVE  IsText(a \o b) /\ Len(a \o b) = Len(a) + Len(b)
<1> DEFINE S == ToSet(a) \cup ToSet(b)
<1>1. a \in Seq(ToSet(a)) /\ b \in Seq(ToSet(b))
  BY DEF IsText
<1>2. ToSet(a) \subseteq S /\ ToSet(b) \subseteq S
  OBVIOUS
<1> HIDE DEF S
<1>3. a \in Seq(S) /\ b \in Seq(S)
  BY <1>1, <1>2, Rec!SeqGrows
<1>4. a \o b \in Seq(S) /\ Len(a \o b) = Len(a) + Len(b)
  BY <1>3
<1> QED
  BY <1>4, SeqIsText

LEMMA AppendText ==
  ASSUME NEW a, IsText(a), NEW x
  PROVE  IsText(Append(a, x)) /\ Len(Append(a, x)) = Len(a) + 1
<1> DEFINE S == ToSet(a) \cup {x}
<1>1. a \in Seq(ToSet(a)) /\ ToSet(a) \subseteq S /\ x \in S
  BY DEF IsText
<1> HIDE DEF S
<1>2. a \in Seq(S)
  BY <1>1, Rec!SeqGrows
<1>3. Append(a, x) \in Seq(S) /\ Len(Append(a, x)) = Len(a) + 1
  BY <1>1, <1>2
<1> QED
  BY <1>3, SeqIsText

LEMMA FlattenText ==
  ASSUME NEW n \in Nat, NEW seqs, seqs = [i \in 1 .. n |-> seqs[i]],
         \A i \in 1 .. n : IsText(seqs[i])
  PROVE  IsText(FlattenSeq(seqs))
<1> DEFINE S == UNION {ToSet(seqs[i]) : i \in 1 .. n}
<1>1. \A i \in 1 .. n : seqs[i] \in Seq(S)
  <2> TAKE i \in 1 .. n
  <2>1. seqs[i] \in Seq(ToSet(seqs[i]))
    BY DEF IsText
  <2>2. ToSet(seqs[i]) \subseteq S
    OBVIOUS
  <2> HIDE DEF S
  <2> QED
    BY <2>1, <2>2, Rec!SeqGrows
<1> HIDE DEF S
<1>2. seqs \in Seq(Seq(S))
  BY <1>1
<1>3. Rec!FlattenSeq(seqs) \in Seq(S)
  BY <1>2, Rec!FlattenIsSeq
<1>4. Rec!FlattenSeq(seqs) = FlattenSeq(seqs)
  BY Zenon DEF FlattenSeq, Rec!FlattenSeq
<1> QED
  BY <1>3, <1>4, SeqIsText

(* The figures of a number, of which there is at least one.                 *)
FiguresTo(f, base, n) ==
    f = [k \in 0 .. n |-> IF k < base THEN <<Figure[k + 1]>>
                          ELSE Append(f[k \div base], Figure[(k % base) + 1])]
LEMMA FewerOf ==
  ASSUME NEW base \in {10, 16}, NEW k \in Nat, k >= base
  PROVE  k \div base \in 0 .. k - 1
<1>1. CASE base = 10
  BY <1>1
<1>2. CASE base = 16
  BY <1>2
<1> QED
  BY <1>1, <1>2

LEMMA FiguresExist ==
  ASSUME NEW base \in {10, 16}, NEW n \in Nat
  PROVE  \E f : FiguresTo(f, base, n)
<1> DEFINE K == {m \in Nat : \E f : FiguresTo(f, base, m)}
           Step(k, x) == IF k < base THEN <<Figure[k + 1]>> ELSE Append(x, Figure[(k % base) + 1])
<1>1. 0 \in K
  <2> DEFINE f == [k \in 0 .. 0 |-> <<Figure[k + 1]>>]
             r == [k \in 0 .. 0 |-> IF k < base THEN <<Figure[k + 1]>>
                          ELSE Append(f[k \div base], Figure[(k % base) + 1])]
  <2>1. f = r
    OBVIOUS
  <2> HIDE DEF f
  <2>2. FiguresTo(f, base, 0)
    BY <2>1 DEF FiguresTo
  <2> QED
    BY <2>2
<1>2. ASSUME NEW m \in Nat, m \in K PROVE m + 1 \in K
  <2>1. PICK f : FiguresTo(f, base, m)
    BY <1>2
  <2> HIDE DEF Step
  <2>2. \A k \in 0 .. m : f[k] = Step(k, f[k \div base])
    <3> DEFINE r == [k \in 0 .. m |-> Step(k, f[k \div base])]
    <3>1. f = r
      BY <2>1 DEF FiguresTo, Step
    <3>2. \A k \in 0 .. m : r[k] = Step(k, f[k \div base])
      OBVIOUS
    <3> HIDE DEF r
    <3> QED
      BY <3>1, <3>2
  <2> DEFINE g == [k \in 0 .. m + 1 |-> IF k <= m THEN f[k] ELSE Step(k, f[k \div base])]
             h == [k \in 0 .. m + 1 |-> Step(k, g[k \div base])]
  <2>3. ASSUME NEW k \in 0 .. m + 1
        PROVE  g[k] = Step(k, g[k \div base])
    <3>1. g[k] = Step(k, f[k \div base])
      BY <2>2
    <3>2. CASE k < base
      BY <3>1, <3>2 DEF Step
    <3>3. CASE ~(k < base)
      <4>1. k \div base \in 0 .. m
        BY <3>3, FewerOf
      <4> DEFINE d == k \div base
      <4>2. d \in 0 .. m + 1 /\ d <= m
        BY <4>1
      <4> HIDE DEF d
      <4>3. g[d] = f[d]
        BY <4>2
      <4> QED
        BY <3>1, <4>3 DEF d
    <3> QED
      BY <3>2, <3>3
  <2>4. g = h
    <3>1. \A k \in 0 .. m + 1 : g[k] = h[k]
      BY <2>3
    <3>2. DOMAIN g = 0 .. m + 1 /\ DOMAIN h = 0 .. m + 1
      OBVIOUS
    <3> QED
      BY <3>1
  <2>5. FiguresTo(g, base, m + 1)
    <3> HIDE DEF g
    <3> QED
      BY <2>4 DEF FiguresTo, Step
  <2>6. m + 1 \in Nat
    OBVIOUS
  <2> HIDE DEF g, h
  <2> QED
    BY <2>5, <2>6
<1> HIDE DEF K
<1>3. n \in K
  BY <1>1, <1>2, Rec!NumberInduction
<1> QED
  BY <1>3 DEF K

FiguresBy(f, n, base, width) ==
    /\ Figures(n, base, width) = [i \in 1 .. Max({0, width - Len(f[n])}) |-> "0"] \o f[n]
    /\ \A k \in 0 .. n : f[k] = IF k < base THEN <<Figure[k + 1]>>
                               ELSE Append(f[k \div base], Figure[(k % base) + 1])

LEMMA FiguresDef ==
  ASSUME NEW base \in {10, 16}, NEW n \in Nat, NEW width
  PROVE  \E f : FiguresBy(f, n, base, width)
<1> DEFINE f == CHOOSE g : FiguresTo(g, base, n)
<1>1. Figures(n, base, width) = [i \in 1 .. Max({0, width - Len(f[n])}) |-> "0"] \o f[n]
  BY Zenon DEF Figures, FiguresTo
<1>2. FiguresTo(f, base, n)
  BY FiguresExist
<1> HIDE DEF f
<1>3. \A k \in 0 .. n : f[k] = IF k < base THEN <<Figure[k + 1]>>
                               ELSE Append(f[k \div base], Figure[(k % base) + 1])
  <2> DEFINE r == [k \in 0 .. n |-> IF k < base THEN <<Figure[k + 1]>>
                          ELSE Append(f[k \div base], Figure[(k % base) + 1])]
  <2>1. f = r
    BY <1>2 DEF FiguresTo
  <2>2. \A k \in 0 .. n : r[k] = IF k < base THEN <<Figure[k + 1]>>
                               ELSE Append(f[k \div base], Figure[(k % base) + 1])
    OBVIOUS
  <2> HIDE DEF r
  <2> QED
    BY <2>1, <2>2
<1> QED
  BY <1>1, <1>3 DEF FiguresBy

LEMMA TensAndOnes == \A k \in Nat : k % 10 \in 0 .. 9 /\ k = (k \div 10) * 10 + (k % 10)
<1> SUFFICES ASSUME NEW k \in Nat PROVE k % 10 \in 0 .. 9 /\ k = (k \div 10) * 10 + (k % 10)
  OBVIOUS
<1>1. PICK q \in Nat, r \in 0 .. 9 : k = 10 * q + r
  <2> DEFINE w == 10
  <2>1. w \in Nat /\ w # 0 /\ w - 1 = 9
    OBVIOUS
  <2> HIDE DEF w
  <2>2. \E q \in Nat, r \in 0 .. w - 1 : k = w * q + r
    BY <2>1, Rec!Division
  <2> QED
    BY <2>1, <2>2 DEF w
<1>2. k \div 10 = q /\ k % 10 = r
  BY <1>1
<1> QED
  BY <1>1, <1>2

(* A number is written as one figure at least, and its figures are worth    *)
(* the number.                                                              *)
FiguresSay(w, n) ==
    /\ IsText(w) /\ Len(w) >= 1
    /\ \A i \in DOMAIN w : IsFigure(w[i], 10)
    /\ ValueOf(w, 10) = n

LEMMA FigureSays ==
  ASSUME NEW k \in 0 .. 9
  PROVE  FiguresSay(<<Figure[k + 1]>>, k)
<1> DEFINE c == Figure[k + 1]
<1>1. WeightOf[c] = k /\ IsFigure(c, 10)
  BY FigureWeight
<1> HIDE DEF c
<1>2. ValueOf(<<c>>, 10) = k
  BY <1>1, ValueOfOne
<1>3. IsText(<<c>>) /\ Len(<<c>>) = 1 /\ \A i \in DOMAIN <<c>> : <<c>>[i] = c
  BY ShortTexts
<1>4. FiguresSay(<<c>>, k)
  BY <1>1, <1>2, <1>3 DEF FiguresSay
<1> QED
  BY <1>4 DEF c

LEMMA FiguresSayMore ==
  ASSUME NEW n \in Nat, NEW a, FiguresSay(a, n \div 10)
  PROVE  FiguresSay(Append(a, Figure[(n % 10) + 1]), n)
<1> DEFINE k == n % 10
           c == Figure[k + 1]
           u == Append(a, c)
<1>1. k \in 0 .. 9 /\ n = (n \div 10) * 10 + k
  BY TensAndOnes
<1> HIDE DEF k
<1>2. WeightOf[c] = k /\ IsFigure(c, 10)
  BY <1>1, FigureWeight
<1> HIDE DEF c
<1>3. IsText(a) /\ Len(a) >= 1 /\ (\A i \in DOMAIN a : IsFigure(a[i], 10))
      /\ ValueOf(a, 10) = n \div 10
  BY DEF FiguresSay
<1>4. Len(a) \in Nat /\ DOMAIN a = 1 .. Len(a)
  BY <1>3, TextFacts
<1>5. IsText(u) /\ Len(u) = Len(a) + 1
  BY <1>3, AppendText
<1>6. \A i \in DOMAIN u : IsFigure(u[i], 10)
  <2> DEFINE S == ToSet(a) \cup {c}
  <2>1. a \in Seq(S) /\ c \in S
    BY <1>3 DEF IsText
  <2> HIDE DEF S
  <2>2. (\A i \in 1 .. Len(a) : u[i] = a[i]) /\ u[Len(a) + 1] = c /\ DOMAIN u = 1 .. Len(a) + 1
    BY <2>1
  <2> HIDE DEF u
  <2> QED
    BY <1>2, <1>3, <1>4, <2>2
<1>7. ValueOf(u, 10) = ValueOf(a, 10) * 10 + WeightOf[c]
  BY <1>3, ValueAppended
<1>8. ValueOf(u, 10) = n
  BY <1>1, <1>2, <1>3, <1>7
<1> HIDE DEF u
<1>9. FiguresSay(u, n)
  BY <1>3, <1>4, <1>5, <1>6, <1>8 DEF FiguresSay
<1> QED
  BY <1>9 DEF u, c, k

LEMMA FiguresText ==
  ASSUME NEW n \in Nat
  PROVE  FiguresSay(Figures(n, 10, 1), n)
<1>1. 10 \in {10, 16}
  OBVIOUS
<1>2. PICK f : FiguresBy(f, n, 10, 1)
  BY <1>1, FiguresDef
<1>3. \A k \in 0 .. n : f[k] = IF k < 10 THEN <<Figure[k + 1]>>
                               ELSE Append(f[k \div 10], Figure[(k % 10) + 1])
  BY <1>2 DEF FiguresBy
<1> DEFINE Some(k) == FiguresSay(f[k], k)
           K == {m \in Nat : \A k \in 0 .. m : k <= n => Some(k)}
<1>4. ASSUME NEW k \in 0 .. n, k >= 10 => Some(k \div 10) PROVE Some(k)
  <2>1. CASE k < 10
    <3>1. f[k] = <<Figure[k + 1]>>
      BY <1>3, <2>1
    <3>2. k \in 0 .. 9
      BY <2>1
    <3> QED
      BY <3>1, <3>2, FigureSays
  <2>2. CASE k >= 10
    <3> DEFINE a == f[k \div 10]
               x == Figure[(k % 10) + 1]
    <3>1. f[k] = Append(a, x)
      <4>1. ~(k < 10)
        BY <2>2
      <4> QED
        BY <1>3, <4>1, Zenon
    <3>2. FiguresSay(a, k \div 10)
      BY <1>4, <2>2
    <3> HIDE DEF a
    <3> QED
      BY <3>1, <3>2, FiguresSayMore
  <2> QED
    BY <2>1, <2>2
<1> HIDE DEF Some
<1>5. 0 \in K
  <2>1. Some(0)
    BY <1>4
  <2> QED
    BY <2>1
<1>6. ASSUME NEW m \in Nat, m \in K PROVE m + 1 \in K
  <2> SUFFICES ASSUME NEW k \in 0 .. m + 1, k <= n PROVE Some(k)
    OBVIOUS
  <2>1. CASE k <= m
    BY <1>6, <2>1
  <2>2. CASE k = m + 1
    <3>1. ASSUME k >= 10 PROVE Some(k \div 10)
      <4>1. k \div 10 \in 0 .. k - 1
        BY <3>1, FewerOf
      <4> DEFINE d == k \div 10
      <4>2. d \in 0 .. m /\ d <= n
        BY <2>2, <4>1
      <4> HIDE DEF d
      <4>3. Some(d)
        BY <1>6, <4>2
      <4> QED
        BY <4>3 DEF d
    <3> QED
      BY <1>4, <3>1
  <2> QED
    BY <2>1, <2>2
<1> HIDE DEF K
<1>7. n \in K
  BY <1>5, <1>6, Rec!NumberInduction
<1> DEFINE w == f[n]
<1>8. FiguresSay(w, n)
  BY <1>7 DEF K, Some
<1> HIDE DEF w
<1>9. Len(w) \in Nat /\ Len(w) >= 1 /\ IsText(w)
  BY <1>8, TextFacts DEF FiguresSay
<1>10. Max({0, 1 - Len(w)}) = 0
  <2> DEFINE S == {0, 1 - Len(w)}
  <2>1. S \in SUBSET Int /\ 0 \in S /\ \A y \in S : y <= 0
    BY <1>9
  <2> HIDE DEF S
  <2>2. Max(S) = 0
    BY <2>1, GreatestIs
  <2> QED
    BY <2>2 DEF S
<1>11. [i \in 1 .. 0 |-> "0"] \o w = w
  <2>1. [i \in 1 .. 0 |-> "0"] = <<>>
    OBVIOUS
  <2>2. w \in Seq(ToSet(w))
    BY <1>9 DEF IsText
  <2>3. <<>> \o w = w
    BY <2>2
  <2> QED
    BY <2>1, <2>3
<1>12. Figures(n, 10, 1) = [i \in 1 .. 0 |-> "0"] \o w
  BY <1>2, <1>10 DEF FiguresBy, w
<1> QED
  BY <1>8, <1>11, <1>12

LEMMA ValueWritten ==
  ASSUME NEW type \in OptTypes, NEW v, ValueValid(type, v)
  PROVE  IsText(TypeFormatValue(type, v))
<1>1. CASE type = "s"
  BY <1>1 DEF TypeFormatValue, ValueValid
<1>2. CASE type = "b"
  BY <1>2, ShortTexts DEF TypeFormatValue
<1>3. CASE type = "U"
  <2>1. TypeFormatValue(type, v) = ToRepr("u32", v.num, "dec")
    BY <1>3 DEF TypeFormatValue
  <2>2. ToRepr("u32", v.num, "dec") = Figures(v.num, 10, 1)
    BY DEF ToRepr, Printed, U32ToStr, Mark, Base, Signed
  <2>3. v.num \in Nat
    BY <1>3, RangeOf DEF ValueValid, NumbersOf
  <2> QED
    BY <2>1, <2>2, <2>3, FiguresText DEF FiguresSay
<1>4. CASE type = "S"
  <2> DEFINE n == v.num
             mag == IF n < 0 THEN -n ELSE n
             sign == IF n < 0 THEN <<"-">> ELSE <<>>
  <2>1. TypeFormatValue(type, v) = ToRepr("s32", n, "dec")
    BY <1>4 DEF TypeFormatValue
  <2>2. ToRepr("s32", n, "dec") = sign \o Figures(mag, 10, 1)
    BY DEF ToRepr, Printed, S32ToStr, Mark, Base, Signed
  <2>3. n \in Int
    BY <1>4 DEF ValueValid, NumbersOf
  <2>4. mag \in Nat
    BY <2>3
  <2>5. IsText(sign)
    BY ShortTexts
  <2> HIDE DEF n, mag, sign
  <2>6. IsText(Figures(mag, 10, 1))
    BY <2>4, FiguresText DEF FiguresSay
  <2> QED
    BY <2>1, <2>2, <2>5, <2>6, ConcatText
<1> QED
  BY <1>1, <1>2, <1>3, <1>4 DEF OptTypes

(* Pairs, options and specifications are written as texts.                  *)
LEMMA PairsWritten ==
  ASSUME NEW n \in Nat, NEW list, DOMAIN list = 1 .. n,
         \A i \in 1 .. n : IsText(list[i].name) /\ IsText(list[i].value)
  PROVE  IsText(TknsListFormat(list))
<1> DEFINE One(i) == TknsFormat(list[i]) \o (IF i = Len(list) THEN <<>> ELSE <<",">>)
           seqs == [i \in DOMAIN list |-> One(i)]
<1>1. ASSUME NEW i \in 1 .. n PROVE IsText(One(i))
  <2>1. IsText(list[i].name \o <<"=">>)
    BY ShortTexts, ConcatText
  <2>2. TknsFormat(list[i]) = (list[i].name \o <<"=">>) \o list[i].value
    BY DEF TknsFormat
  <2>3. IsText(TknsFormat(list[i]))
    BY <2>1, <2>2, ConcatText
  <2> DEFINE comma == IF i = Len(list) THEN <<>> ELSE <<",">>
  <2>4. IsText(comma)
    BY ShortTexts
  <2> HIDE DEF comma
  <2>5. IsText(TknsFormat(list[i]) \o comma)
    BY <2>3, <2>4, ConcatText
  <2> QED
    BY <2>5 DEF comma
<1> HIDE DEF One
<1>2. seqs = [i \in 1 .. n |-> seqs[i]] /\ \A i \in 1 .. n : IsText(seqs[i])
  BY <1>1
<1>3. TknsListFormat(list) = FlattenSeq(seqs)
  BY DEF TknsListFormat, One
<1> HIDE DEF seqs
<1>4. IsText(FlattenSeq(seqs))
  BY <1>2, FlattenText
<1> QED
  BY <1>3, <1>4

OptValid(o) == IsText(o.name) /\ o.type \in OptTypes /\ ValueValid(o.type, o.value)

LEMMA OptsWritten ==
  ASSUME NEW list, IsText(list), \A i \in DOMAIN list : OptValid(list[i])
  PROVE  IsText(OptListFormat(list))
<1> DEFINE pairs == [i \in DOMAIN list |->
        [name |-> list[i].name, value |-> TypeFormatValue(list[i].type, list[i].value)]]
<1>1. Len(list) \in Nat /\ DOMAIN list = 1 .. Len(list)
  BY TextFacts
<1>2. \A i \in 1 .. Len(list) : IsText(pairs[i].name) /\ IsText(pairs[i].value)
  <2> TAKE i \in 1 .. Len(list)
  <2>1. OptValid(list[i])
    BY <1>1
  <2>2. pairs[i].name = list[i].name
        /\ pairs[i].value = TypeFormatValue(list[i].type, list[i].value)
    BY <1>1
  <2> HIDE DEF pairs
  <2>3. IsText(TypeFormatValue(list[i].type, list[i].value))
    BY <2>1, ValueWritten DEF OptValid
  <2> QED
    BY <2>1, <2>2, <2>3 DEF OptValid
<1>3. DOMAIN pairs = 1 .. Len(list)
  BY <1>1
<1>4. OptListFormat(list) = TknsListFormat(pairs)
  BY DEF OptListFormat
<1> HIDE DEF pairs
<1> QED
  BY <1>1, <1>2, <1>3, <1>4, PairsWritten

LEMMA SpecsWritten ==
  ASSUME NEW list, IsText(list), \A i \in DOMAIN list : SpecValid(list[i])
  PROVE  IsText(SpecListFormat(list))
<1> DEFINE pairs == [i \in DOMAIN list |-> SpecFormatTkns(list[i])]
<1>1. Len(list) \in Nat /\ DOMAIN list = 1 .. Len(list)
  BY TextFacts
<1>2. \A i \in 1 .. Len(list) : IsText(pairs[i].name) /\ IsText(pairs[i].value)
  <2> TAKE i \in 1 .. Len(list)
  <2> DEFINE s == list[i]
             dflt == IF s.req THEN <<>> ELSE <<"?">> \o TypeFormatValue(s.type, s.dflt)
             desc == IF s.desc = <<>> THEN <<>> ELSE <<"'">> \o s.desc
             type == <<s.type>>
  <2>1. SpecValid(s) /\ pairs[i] = SpecFormatTkns(s)
    BY <1>1
  <2>2. SpecFormatTkns(s) = [name |-> s.name, value |-> type \o dflt \o desc]
    BY Zenon DEF SpecFormatTkns
  <2> HIDE DEF pairs, s
  <2>3. ~s.req => IsText(TypeFormatValue(s.type, s.dflt))
    BY <2>1, ValueWritten DEF SpecValid
  <2>4. ~s.req => IsText(<<"?">> \o TypeFormatValue(s.type, s.dflt))
    BY <2>3, ShortTexts, ConcatText
  <2>5. IsText(<<"'">> \o s.desc)
    BY <2>1, ShortTexts, ConcatText DEF SpecValid
  <2>6. IsText(dflt) /\ IsText(desc) /\ IsText(type)
    BY <2>4, <2>5, ShortTexts
  <2> HIDE DEF dflt, desc, type
  <2>7. IsText(type \o dflt)
    BY <2>6, ConcatText
  <2>8. IsText((type \o dflt) \o desc)
    BY <2>6, <2>7, ConcatText
  <2> QED
    BY <2>1, <2>2, <2>8 DEF SpecValid
<1>3. DOMAIN pairs = 1 .. Len(list)
  BY <1>1
<1>4. SpecListFormat(list) = TknsListFormat(pairs)
  BY DEF SpecListFormat
<1> HIDE DEF pairs
<1> QED
  BY <1>1, <1>2, <1>3, <1>4, PairsWritten

(* The parts of the value of a specification.                               *)
NextPart(value, p) == IF p = Len(value) THEN p + 1 ELSE NextMarker(value, p + 2)
WithPart(value, p, after) ==
    LET q == NextPart(value, p)
        part == SubSeq(value, p + 1, q - 1)
        later == IF q > Len(value) THEN NoParts ELSE after
    IN  [dflt |-> IF value[p] = "?" /\ later.dflt = {} THEN {part} ELSE later.dflt,
         desc |-> IF value[p] # "?" /\ later.desc = {} THEN {part} ELSE later.desc]
PartsFrom(f, value, least) ==
    f = [p \in least .. Len(value) |-> WithPart(value, p, f[NextPart(value, p)])]

LEMMA NextPartIs ==
  ASSUME NEW value, IsText(value), NEW p \in DOMAIN value
  PROVE  NextPart(value, p) \in p + 1 .. Len(value) + 1
<1>1. Len(value) \in Nat /\ DOMAIN value = 1 .. Len(value)
  BY TextFacts
<1>2. CASE p = Len(value)
  BY <1>1, <1>2 DEF NextPart
<1>3. CASE p # Len(value)
  <2>1. p + 2 \in Nat /\ p + 2 >= 1 /\ p + 2 <= Len(value) + 1
    BY <1>1, <1>3
  <2> DEFINE a == p + 2
  <2> HIDE DEF a
  <2>2. EndsAt(NextMarker(value, a), a, Len(value), NotMarkers(value))
    BY <2>1, MarkerEnds DEF a
  <2>3. NextMarker(value, a) \in a .. Len(value) + 1
    BY <2>2 DEF EndsAt
  <2>4. NextPart(value, p) = NextMarker(value, a)
    BY <1>3 DEF NextPart, a
  <2> QED
    BY <1>1, <2>1, <2>3, <2>4 DEF a
<1> QED
  BY <1>2, <1>3

LEMMA PartsExist ==
  ASSUME NEW value, IsText(value)
  PROVE  \E f : PartsFrom(f, value, 1)
<1> DEFINE n == Len(value)
           K == {j \in Nat : j <= n => \E f : PartsFrom(f, value, (n + 1) - j)}
<1>1. n \in Nat /\ DOMAIN value = 1 .. n
  BY TextFacts
<1>2. 0 \in K
  <2> DEFINE f == [p \in n + 1 .. n |-> NoParts]
             r == [p \in n + 1 .. n |-> WithPart(value, p, f[NextPart(value, p)])]
  <2>1. n + 1 .. n = {} /\ (n + 1) - 0 = n + 1
    BY <1>1
  <2>2. f = r
    BY <2>1
  <2>3. PartsFrom(f, value, (n + 1) - 0)
    <3> HIDE DEF f
    <3> QED
      BY <2>1, <2>2 DEF PartsFrom
  <2> QED
    BY <2>3
<1>3. ASSUME NEW j \in Nat, j \in K PROVE j + 1 \in K
  <2> SUFFICES ASSUME j + 1 <= n PROVE \E f : PartsFrom(f, value, (n + 1) - (j + 1))
    OBVIOUS
  <2> DEFINE e == (n + 1) - (j + 1)
  <2>1. e \in 1 .. n /\ (n + 1) - j = e + 1 /\ j <= n
    BY <1>1
  <2>2. PICK f : PartsFrom(f, value, e + 1)
    BY <1>3, <2>1
  <2> HIDE DEF e
  <2>3. \A p \in e + 1 .. n : f[p] = WithPart(value, p, f[NextPart(value, p)])
    <3> DEFINE r == [p \in e + 1 .. n |-> WithPart(value, p, f[NextPart(value, p)])]
    <3>1. f = r
      BY <2>2 DEF PartsFrom
    <3>2. \A p \in e + 1 .. n : r[p] = WithPart(value, p, f[NextPart(value, p)])
      OBVIOUS
    <3> HIDE DEF r
    <3> QED
      BY <3>1, <3>2
  <2> DEFINE g == [p \in e .. n |-> WithPart(value, p, f[NextPart(value, p)])]
             h == [p \in e .. n |-> WithPart(value, p, g[NextPart(value, p)])]
  <2>4. ASSUME NEW p \in e .. n
        PROVE  WithPart(value, p, f[NextPart(value, p)]) = WithPart(value, p, g[NextPart(value, p)])
    <3> DEFINE q == NextPart(value, p)
    <3>1. q \in p + 1 .. n + 1 /\ p \in Int
      <4>1. p \in DOMAIN value
        BY <1>1, <2>1
      <4> QED
        BY <1>1, <2>1, <4>1, NextPartIs
    <3>2. CASE q > n
      BY <3>2 DEF WithPart
    <3>3. CASE ~(q > n)
      <4>1. q \in e + 1 .. n /\ q \in e .. n
        BY <1>1, <2>1, <3>1, <3>3
      <4> HIDE DEF q
      <4>2. g[q] = WithPart(value, q, f[NextPart(value, q)])
        BY <4>1
      <4>3. g[q] = f[q]
        BY <2>3, <4>1, <4>2
      <4> QED
        BY <4>3 DEF q
    <3> QED
      BY <3>2, <3>3
  <2>5. g = h
    BY <2>4
  <2>6. PartsFrom(g, value, e)
    <3> HIDE DEF g
    <3> QED
      BY <2>5 DEF PartsFrom
  <2> QED
    BY <2>6 DEF e
<1> HIDE DEF K
<1>4. n \in K
  BY <1>1, <1>2, <1>3, Rec!NumberInduction
<1>5. (n + 1) - n = 1
  BY <1>1
<1> QED
  BY <1>1, <1>4, <1>5 DEF K

TextParts(parts) ==
    /\ parts = [dflt |-> parts.dflt, desc |-> parts.desc]
    /\ \A d \in parts.dflt \cup parts.desc : IsText(d)

LEMMA WithPartText ==
  ASSUME NEW value, IsText(value), NEW p \in DOMAIN value, NEW after,
         NextPart(value, p) <= Len(value) => TextParts(after)
  PROVE  TextParts(WithPart(value, p, after))
<1> DEFINE q == NextPart(value, p)
           part == SubSeq(value, p + 1, q - 1)
           later == IF q > Len(value) THEN NoParts ELSE after
           D == IF value[p] = "?" /\ later.dflt = {} THEN {part} ELSE later.dflt
           E == IF value[p] # "?" /\ later.desc = {} THEN {part} ELSE later.desc
<1>1. /\ Len(value) \in Nat /\ p \in 1 .. Len(value) /\ q \in p + 1 .. Len(value) + 1
  BY TextFacts, NextPartIs
<1>2. WithPart(value, p, after) = [dflt |-> D, desc |-> E]
  BY DEF WithPart
<1>3. IsText(part)
  <2> HIDE DEF q
  <2> DEFINE a == p + 1
  <2>1. a \in Nat /\ a >= 1 /\ q \in Nat /\ q <= Len(value) + 1
    BY <1>1
  <2> HIDE DEF a
  <2>2. IsText(SubSeq(value, a, q - 1))
    BY <2>1, PartMadeOf DEF MadeOf
  <2> QED
    BY <2>2 DEF a
<1>4. TextParts(later)
  <2>1. TextParts(NoParts)
    BY DEF TextParts, NoParts
  <2>2. ~(q > Len(value)) => TextParts(after)
    BY <1>1
  <2> QED
    BY <2>1, <2>2
<1> HIDE DEF part, later
<1>5. \A d \in D \cup E : IsText(d)
  BY <1>3, <1>4 DEF TextParts
<1> HIDE DEF D, E
<1>6. TextParts([dflt |-> D, desc |-> E])
  BY <1>5 DEF TextParts
<1> QED
  BY <1>2, <1>6

(* The parts are those from the first marker on.                            *)
PartsSteps(f, value) ==
    /\ \A p \in 1 .. Len(value) : f[p] = WithPart(value, p, f[NextPart(value, p)])
    /\ Parts(value) = IF NextMarker(value, 2) > Len(value) THEN NoParts
                      ELSE f[NextMarker(value, 2)]

LEMMA PartsDef ==
  ASSUME NEW value, IsText(value)
  PROVE  \E f : PartsSteps(f, value)
<1> DEFINE n == Len(value)
           Here(g) == g = [p \in DOMAIN value |-> WithPart(value, p, g[NextPart(value, p)])]
           f == CHOOSE g : Here(g)
           first == NextMarker(value, 2)
<1>1. n \in Nat /\ DOMAIN value = 1 .. n
  BY TextFacts
<1>2. Parts(value) = IF first > n THEN NoParts ELSE f[first]
  BY Zenon DEF Parts, WithPart, NextPart
<1>3. PartsFrom(f, value, 1)
  <2>1. \A g : Here(g) <=> PartsFrom(g, value, 1)
    BY <1>1 DEF PartsFrom
  <2> HIDE DEF Here
  <2>2. \E g : Here(g)
    BY <2>1, PartsExist
  <2>3. Here(f)
    BY <2>2
  <2> QED
    BY <2>1, <2>3
<1> HIDE DEF f
<1>4. \A p \in 1 .. n : f[p] = WithPart(value, p, f[NextPart(value, p)])
  <2> DEFINE r == [p \in 1 .. n |-> WithPart(value, p, f[NextPart(value, p)])]
  <2>1. f = r
    BY <1>3 DEF PartsFrom
  <2>2. \A p \in 1 .. n : r[p] = WithPart(value, p, f[NextPart(value, p)])
    OBVIOUS
  <2> HIDE DEF r
  <2> QED
    BY <2>1, <2>2
<1> QED
  BY <1>2, <1>4 DEF PartsSteps

LEMMA PartsText ==
  ASSUME NEW value, IsText(value), value # <<>>
  PROVE  TextParts(Parts(value))
<1> DEFINE n == Len(value)
           first == NextMarker(value, 2)
<1>1. n \in Nat /\ DOMAIN value = 1 .. n
  BY TextFacts
<1>2. PICK f : PartsSteps(f, value)
  BY PartsDef
<1>3. Parts(value) = IF first > n THEN NoParts ELSE f[first]
  BY <1>2 DEF PartsSteps
<1>4. \A p \in 1 .. n : f[p] = WithPart(value, p, f[NextPart(value, p)])
  BY <1>2 DEF PartsSteps
<1> DEFINE K == {j \in Nat : \A p \in 1 .. n : p > n - j => TextParts(f[p])}
<1>5. 0 \in K
  BY <1>1
<1>6. ASSUME NEW j \in Nat, j \in K PROVE j + 1 \in K
  <2> SUFFICES ASSUME NEW p \in 1 .. n, p > n - (j + 1) PROVE TextParts(f[p])
    OBVIOUS
  <2> DEFINE q == NextPart(value, p)
  <2>1. q \in p + 1 .. n + 1 /\ p \in DOMAIN value
    BY <1>1, NextPartIs
  <2>2. ASSUME q <= n PROVE TextParts(f[q])
    <3>1. q \in 1 .. n /\ q > n - j
      BY <1>1, <2>1, <2>2
    <3> HIDE DEF q
    <3> QED
      BY <1>6, <3>1
  <2>3. TextParts(WithPart(value, p, f[q]))
    BY <2>1, <2>2, WithPartText
  <2>4. f[p] = WithPart(value, p, f[q])
    BY <1>4
  <2> QED
    BY <2>3, <2>4
<1> HIDE DEF K
<1>7. n \in K
  BY <1>1, <1>5, <1>6, Rec!NumberInduction
<1>8. \A p \in 1 .. n : TextParts(f[p])
  <2> TAKE p \in 1 .. n
  <2>1. p > n - n
    BY <1>1
  <2> QED
    BY <1>7, <2>1 DEF K
<1>9. first \in 2 .. n + 1
  <2>1. n # 0
    BY EmptySeq, <1>1 DEF IsText
  <2>2. 2 \in Nat /\ 2 >= 1 /\ 2 <= n + 1
    BY <1>1, <2>1
  <2>3. EndsAt(first, 2, n, NotMarkers(value))
    BY <2>2, MarkerEnds
  <2> QED
    BY <2>3 DEF EndsAt
<1>10. CASE first > n
  BY <1>3, <1>10 DEF TextParts, NoParts
<1>11. CASE ~(first > n)
  <2>1. first \in 1 .. n
    BY <1>1, <1>9, <1>11
  <2> QED
    BY <1>3, <1>8, <1>11, <2>1
<1> QED
  BY <1>10, <1>11

(* A specification that is read is valid.                                   *)
LEMMA SpecRead ==
  ASSUME NEW t, IsText(t.name), t.name # <<>>, IsText(t.value)
  PROVE  \A s \in SpecParseTkns(t) : SpecValid(s)
<1> SUFFICES ASSUME t.value # <<>>, t.value[1] \in OptTypes,
                    NEW s \in SpecParsed(t, Parts(t.value))
             PROVE  SpecValid(s)
  BY DEF SpecParseTkns
<1> DEFINE parts == Parts(t.value)
           type == t.value[1]
           desc == IF parts.desc = {} THEN <<>> ELSE CHOOSE d \in parts.desc : TRUE
           dflts == IF parts.dflt = {} THEN {NoValue}
                    ELSE UNION {TypeParseValue(type, d) : d \in parts.dflt}
<1>1. TextParts(parts)
  BY PartsText
<1>2. PICK dflt \in dflts : s = OptSpec(t.name, type, parts.dflt = {}, dflt, desc)
  BY DEF SpecParsed
<1> HIDE DEF parts, type
<1>3. IsText(desc)
  BY <1>1, ShortTexts DEF TextParts
<1>4. ASSUME parts.dflt # {} PROVE ValueValid(type, dflt)
  <2>1. type \in OptTypes
    BY DEF type
  <2>2. PICK d \in parts.dflt : dflt \in TypeParseValue(type, d)
    BY <1>2, <1>4
  <2>3. IsText(d)
    BY <1>1 DEF TextParts
  <2> QED
    BY <2>1, <2>2, <2>3, ValueRead
<1> HIDE DEF desc
<1>5. /\ s.name = t.name /\ s.type = type /\ s.dflt = dflt /\ s.desc = desc
      /\ s.req = (parts.dflt = {})
  BY <1>2 DEF OptSpec
<1> QED
  BY <1>3, <1>4, <1>5 DEF SpecValid, type

(* The parts of a text between its commas.                                  *)
IsComma(t, i) == t[i] = ","
NoCommas(p) == "," \notin ToSet(p)

LEMMA PartIs ==
  ASSUME NEW t, IsText(t), NEW a \in 1 .. Len(t) + 1
  PROVE  LET c == CommaEnd(t, a)
         IN  /\ c \in a .. Len(t) + 1
             /\ PartAt(t, a) = SubSeq(t, a, c - 1)
             /\ c = Len(t) + 1 \/ IsComma(t, c)
             /\ \A j \in a .. c - 1 : ~IsComma(t, j)
             /\ IsText(PartAt(t, a)) /\ NoCommas(PartAt(t, a))
<1> DEFINE c == CommaEnd(t, a)
           p == SubSeq(t, a, c - 1)
<1>1. Len(t) \in Nat /\ DOMAIN t = 1 .. Len(t)
  BY TextFacts
<1>2. EndsAt(c, a, Len(t), NotComma(t))
  <2>1. a \in Nat /\ a >= 1 /\ a <= Len(t) + 1
    BY <1>1
  <2> QED
    BY <2>1, CommaEnds
<1>3. PartAt(t, a) = p
  BY DEF PartAt, CommaEnd
<1> HIDE DEF c
<1> DEFINE N == NotComma(t)
<1>0. \A i : i \in N <=> i \in DOMAIN t /\ ~IsComma(t, i)
  BY Zenon DEF NotComma, IsComma
<1> HIDE DEF N
<1>4. c \in a .. Len(t) + 1 /\ \A j \in a .. c - 1 : ~IsComma(t, j)
  BY <1>0, <1>2 DEF EndsAt, N
<1>5. c = Len(t) + 1 \/ IsComma(t, c)
  <2>1. c # Len(t) + 1 => c \in DOMAIN t /\ c \notin NotComma(t)
    BY <1>1, <1>2, <1>4 DEF EndsAt
  <2> QED
    BY <1>0, <2>1 DEF N
<1>6. /\ IsText(p)
      /\ \A i \in DOMAIN p : a + i - 1 \in a .. c - 1 /\ p[i] = t[a + i - 1]
  <2>1. a \in Nat /\ a >= 1 /\ c \in Nat /\ c <= Len(t) + 1
    BY <1>1, <1>4
  <2> QED
    BY <2>1, PartFacts
<1> HIDE DEF p
<1>7. \A i \in DOMAIN p : ~IsComma(p, i)
  <2> TAKE i \in DOMAIN p
  <2>1. ~IsComma(t, a + i - 1)
    BY <1>4, <1>6
  <2> QED
    BY <1>6, <2>1, Zenon DEF IsComma
<1>8. NoCommas(p)
  BY <1>7, Zenon DEF ToSet, NoCommas, IsComma
<1> QED
  BY <1>3, <1>4, <1>5, <1>6, <1>8 DEF c, p

(* A turn of the loop that cuts a text takes its next part.                 *)
LEMMA CutHere ==
  ASSUME NEW t, IsText(t), NEW b \in 1 .. Len(t) + 1
  PROVE  LET text == SubSeq(t, b, Len(t))
             c == CommaEnd(t, b)
         IN  /\ Piece(text) = PartAt(t, b)
             /\ RestAfter(text) = IF c > Len(t) THEN {} ELSE {SubSeq(t, c + 1, Len(t))}
<1> DEFINE n == Len(t)
           e == n + 1
           text == SubSeq(t, b, e - 1)
           c == CommaEnd(t, b)
           m == CommaEnd(text, 1)
           k == c - b + 1
<1>1. n \in Nat /\ DOMAIN t = 1 .. n /\ e - 1 = n
  BY TextFacts
<1>2. /\ c \in b .. n + 1 /\ (c = n + 1 \/ IsComma(t, c)) /\ \A j \in b .. c - 1 : ~IsComma(t, j)
      /\ PartAt(t, b) = SubSeq(t, b, c - 1)
  BY PartIs
<1>3. /\ b \in Nat /\ b >= 1 /\ e \in Nat /\ e <= n + 1 /\ b <= e
  BY <1>1
<1> HIDE DEF n, e, c
<1>4. /\ IsText(text) /\ Len(text) = e - b /\ DOMAIN text = 1 .. Len(text)
      /\ \A i \in DOMAIN text : text[i] = t[b + i - 1]
  BY <1>3, PartFacts DEF n
<1> HIDE DEF text
<1>5. EndsAt(m, 1, Len(text), NotComma(text))
  <2>1. 1 \in Nat /\ 1 >= 1 /\ 1 <= Len(text) + 1
    BY <1>3, <1>4
  <2> QED
    BY <1>4, <2>1, CommaEnds
<1> DEFINE N == NotComma(text)
<1>11. \A i : i \in N <=> i \in DOMAIN text /\ ~IsComma(text, i)
  BY Zenon DEF NotComma, IsComma
<1> HIDE DEF N
<1>12. \A i \in DOMAIN text : IsComma(text, i) <=> IsComma(t, b + i - 1)
  BY <1>4, Zenon DEF IsComma
<1>6. EndsAt(k, 1, Len(text), NotComma(text))
  <2>1. k \in 1 .. Len(text) + 1
    BY <1>1, <1>2, <1>3, <1>4 DEF e
  <2>2. k = Len(text) + 1 \/ k \notin N
    <3>1. CASE c = n + 1
      BY <1>1, <1>2, <1>3, <1>4, <3>1 DEF e
    <3>2. CASE IsComma(t, c)
      <4>1. b + k - 1 = c
        BY <1>1, <1>2, <1>3
      <4>2. k \in DOMAIN text => IsComma(text, k)
        BY <1>12, <3>2, <4>1
      <4> QED
        BY <1>11, <4>2
    <3> QED
      BY <1>2, <3>1, <3>2
  <2>3. \A j \in 1 .. k - 1 : j \in N
    <3> TAKE j \in 1 .. k - 1
    <3>1. j \in DOMAIN text /\ b + j - 1 \in b .. c - 1
      BY <1>1, <1>2, <1>3, <1>4, <2>1
    <3>2. ~IsComma(t, b + j - 1)
      BY <1>2, <3>1
    <3> QED
      BY <1>11, <1>12, <3>1, <3>2
  <2> QED
    BY <2>1, <2>2, <2>3 DEF EndsAt, N
<1>7. m = k
  <2>1. Len(text) \in Nat /\ 1 \in Nat /\ 1 <= Len(text) + 1
    BY <1>3, <1>4
  <2> QED
    BY <1>5, <1>6, <2>1, RunEnds
<1>8. CommaIn(text) = m
  BY DEF CommaIn, CommaEnd
<1>9. Piece(text) = SubSeq(t, b, c - 1)
  <2>1. Piece(text) = SubSeq(text, 1, k - 1)
    BY <1>7, <1>8 DEF Piece
  <2>2. 1 \in Nat /\ k \in Nat /\ k <= e - b + 1
    BY <1>1, <1>2, <1>3 DEF e
  <2>3. b + 1 - 1 = b /\ b + k - 2 = c - 1
    BY <1>2, <1>3
  <2> HIDE DEF k
  <2>4. SubSeq(SubSeq(t, b, e - 1), 1, k - 1) = SubSeq(t, b + 1 - 1, b + k - 2)
    BY <1>3, <2>2, PartOfPart DEF n
  <2> QED
    BY <2>1, <2>3, <2>4 DEF text
<1>10. RestAfter(text) = IF c > n THEN {} ELSE {SubSeq(t, c + 1, n)}
  <2>1. RestAfter(text) = IF k > Len(text) THEN {} ELSE {SubSeq(text, k + 1, Len(text))}
    BY <1>7, <1>8 DEF RestAfter
  <2>2. k > Len(text) <=> c > n
    BY <1>1, <1>2, <1>3, <1>4 DEF e
  <2> DEFINE f == k + 1
             d == e - b + 1
  <2>3. f \in Nat /\ f >= 1 /\ d \in Nat /\ d <= e - b + 1 /\ d - 1 = Len(text)
        /\ b + f - 1 = c + 1 /\ b + d - 2 = n
    BY <1>1, <1>2, <1>3, <1>4 DEF e
  <2>4. f = k + 1
    OBVIOUS
  <2> HIDE DEF f, d, k
  <2>5. SubSeq(SubSeq(t, b, e - 1), f, d - 1) = SubSeq(t, b + f - 1, b + d - 2)
    BY <1>3, <2>3, PartOfPart DEF n
  <2>6. SubSeq(text, k + 1, Len(text)) = SubSeq(t, c + 1, n)
    BY <2>3, <2>4, <2>5 DEF text
  <2> QED
    BY <2>1, <2>2, <2>6
<1>13. text = SubSeq(t, b, Len(t))
  BY <1>1 DEF text, n
<1> QED
  BY <1>2, <1>9, <1>10, <1>13 DEF n, c

StartsAt(t, b) == b \in 1 .. Len(t) + 1 /\ (b = 1 \/ IsComma(t, b - 1))
Before(t, b) == {a \in PartsOf(t) : a < b}

LEMMA NextParts ==
  ASSUME NEW t, IsText(t), NEW b, StartsAt(t, b)
  PROVE  LET c == CommaEnd(t, b)
         IN  /\ Blank(PartAt(t, b)) => Before(t, c + 1) = Before(t, b)
             /\ ~Blank(PartAt(t, b)) => /\ b \in PartsOf(t)
                                        /\ Before(t, c + 1) = Before(t, b) \cup {b}
             /\ c <= Len(t) => StartsAt(t, c + 1)
             /\ c > Len(t) => c + 1 = Len(t) + 2
<1> DEFINE c == CommaEnd(t, b)
<1>1. b \in 1 .. Len(t) + 1 /\ Len(t) \in Nat
  BY TextFacts DEF StartsAt
<1>2. /\ c \in b .. Len(t) + 1 /\ (c = Len(t) + 1 \/ IsComma(t, c))
      /\ \A j \in b .. c - 1 : ~IsComma(t, j)
  BY <1>1, PartIs
<1> HIDE DEF c
<1>3. \A a \in PartsOf(t) :
         a \in 1 .. Len(t) + 1 /\ (a = 1 \/ IsComma(t, a - 1)) /\ ~Blank(PartAt(t, a))
  BY Zenon DEF PartsOf, IsComma
<1>4. b \in PartsOf(t) <=> ~Blank(PartAt(t, b))
  BY Zenon DEF PartsOf, StartsAt, IsComma
<1>5. \A a \in PartsOf(t) : a < c + 1 => a < b \/ a = b
  <2> TAKE a \in PartsOf(t)
  <2> SUFFICES ASSUME a < c + 1, ~(a < b), a # b PROVE FALSE
    OBVIOUS
  <2>1. a \in Nat /\ (a = 1 \/ IsComma(t, a - 1))
    BY <1>1, <1>3
  <2>2. a - 1 \in b .. c - 1 /\ a # 1
    BY <1>1, <1>2, <2>1
  <2> QED
    BY <1>2, <2>1, <2>2
<1>6. \A a \in PartsOf(t) : a < b => a < c + 1
  BY <1>1, <1>2, <1>3
<1>7. b < c + 1 /\ ~(b < b)
  BY <1>1, <1>2
<1>8. c <= Len(t) => StartsAt(t, c + 1)
  <2> SUFFICES ASSUME c <= Len(t) PROVE StartsAt(t, c + 1)
    OBVIOUS
  <2>1. c + 1 \in 1 .. Len(t) + 1 /\ (c + 1) - 1 = c /\ IsComma(t, c)
    BY <1>1, <1>2
  <2> QED
    BY <2>1 DEF StartsAt
<1>9. c > Len(t) => c + 1 = Len(t) + 2
  BY <1>1, <1>2
<1> QED
  BY <1>4, <1>5, <1>6, <1>7, <1>8, <1>9 DEF Before, c

(* A part that is not a pair makes the text unacceptable.                   *)
LEMMA BadPart ==
  ASSUME NEW t, IsText(t), NEW a \in PartsOf(t), TknsParse(PartAt(t, a)) = {},
         \A i \in DOMAIN specs : SpecValid(specs[i]),
         Acceptable(t)
  PROVE  FALSE
<1> DEFINE p == PartAt(t, a)
<1>1. IsText(p) /\ NoCommas(p)
  <2>1. a \in 1 .. Len(t) + 1
    BY Zenon DEF PartsOf
  <2> QED
    BY <2>1, PartIs
<1>2. PICK s \in Specified : a \in SaidOf(t, s.name)
  BY DEF Acceptable
<1>3. s.name = NameIn(p) /\ s.name # <<>>
  BY <1>2 DEF SaidOf, Specified, SpecValid
<1>4. "=" \notin ToSet(ValueIn(p))
  BY <1>2 DEF Acceptable, Readable
<1> HIDE DEF p
<1>5. MadeOf(NameIn(p), p) /\ "=" \notin ToSet(NameIn(p)) /\ MadeOf(ValueIn(p), p)
  BY <1>1, PairMadeOf
<1>6. NoCommas(NameIn(p)) /\ NoCommas(ValueIn(p))
  BY <1>1, <1>5, Zenon DEF MadeOf, NoCommas
<1>7. NameTknValid(NameIn(p)) /\ ValueTknValid(ValueIn(p))
  <2>1. TknValid(NameIn(p)) /\ TknValid(ValueIn(p))
    BY <1>4, <1>5, <1>6, Zenon DEF TknValid, NoCommas
  <2> QED
    BY <1>3, <2>1 DEF NameTknValid, ValueTknValid
<1>8. [name |-> NameIn(p), value |-> ValueIn(p)] \in TknsParse(p)
  BY <1>1, <1>7, PairFound
<1> QED
  BY <1>8 DEF p

NamesIn(list) == {list[i].name : i \in DOMAIN list}
Distinct(list) == \A i, j \in DOMAIN list : list[i].name = list[j].name => i = j

(* While options are added, they are those of specifications and differ, if *)
(* the pairs do; and during the first loop they are those of pairs passed.  *)
Filling ==
    /\ NamesIn(opts) \subseteq NamesIn(specs)
    /\ ~Repeated => Distinct(opts)
    /\ at <= Len(tkns) =>
          \A i \in DOMAIN opts : \E k \in 1 .. at - 1 : opts[i].name = tkns[k].name

FitInv ==
    /\ IsText(tkns) /\ IsText(specs) /\ IsText(opts)
    /\ at \in Nat \ {0}
    /\ phase = "cut" => opts = <<>> /\ at = 1
    /\ phase = "convert" /\ goal = "opts" => Filling
    /\ ListFits

------------------------------------------------------------------------------
LEMMA EmptyList == IsText(<<>>) /\ NamesIn(<<>>) = {} /\ Distinct(<<>>)
  BY DEF IsText, ToSet, NamesIn, Distinct

LEMMA AppendedTo ==
  ASSUME NEW s, IsText(s), NEW e
  PROVE  /\ IsText(Append(s, e))
         /\ DOMAIN s = 1 .. Len(s) /\ Len(s) \in Nat
         /\ DOMAIN Append(s, e) = 1 .. Len(s) + 1
         /\ Len(Append(s, e)) = Len(s) + 1
         /\ \A i \in 1 .. Len(s) : Append(s, e)[i] = s[i]
         /\ Append(s, e)[Len(s) + 1] = e
<1> DEFINE S == ToSet(s) \cup {e}
           t == Append(s, e)
<1>1. s \in Seq(S)
  BY DEF IsText
<1>2. /\ t \in Seq(S)
      /\ DOMAIN s = 1 .. Len(s) /\ Len(s) \in Nat
      /\ DOMAIN t = 1 .. Len(s) + 1
      /\ Len(t) = Len(s) + 1
      /\ \A i \in 1 .. Len(s) : t[i] = s[i]
      /\ t[Len(s) + 1] = e
  BY <1>1
<1>3. t \in Seq(ToSet(t))
  <2>1. \A i \in 1 .. Len(t) : t[i] \in ToSet(t)
    BY <1>2 DEF ToSet
  <2>2. t \in [1 .. Len(t) -> S]
    BY <1>2, LenProperties
  <2> HIDE DEF t
  <2>3. t \in [1 .. Len(t) -> ToSet(t)]
    BY <2>1, <2>2
  <2>4. Len(t) \in Nat
    BY <1>2
  <2> QED
    BY <2>3, <2>4, SeqDef
<1> QED
  BY <1>2, <1>3 DEF IsText

(* hidrd_opt_list_lkp() finds what there is, under the name asked for.      *)
LEMMA LkpFinds ==
  ASSUME NEW list, IsText(list), NEW name
  PROVE  /\ Lkp(list, name) = {} => \A i \in DOMAIN list : list[i].name # name
         /\ \A e \in Lkp(list, name) : e.name = name /\ name \in NamesIn(list)
<1> DEFINE named == {i \in DOMAIN list : list[i].name = name}
<1>1. CASE named = {}
  BY <1>1 DEF Lkp
<1>2. CASE named # {}
  <2>1. named \in SUBSET Nat
    BY DEF IsText
  <2>2. Min(named) \in named
    BY <1>2, <2>1, LeastElement
  <2>3. Lkp(list, name) = {list[Min(named)]}
    BY <1>2 DEF Lkp
  <2> QED
    BY <2>2, <2>3 DEF NamesIn
<1> QED
  BY <1>1, <1>2

(* A list of distinct names out of those of another is no longer than it.   *)
LEMMA NoMoreThan ==
  ASSUME NEW many, IsText(many), NEW few, IsText(few),
         Distinct(many), NamesIn(many) \subseteq NamesIn(few)
  PROVE  Len(many) <= Len(few)
<1> DEFINE place == [i \in 1 .. Len(many) |->
                       CHOOSE j \in 1 .. Len(few) : few[j].name = many[i].name]
<1>1. /\ Len(many) \in Nat /\ DOMAIN many = 1 .. Len(many)
      /\ Len(few) \in Nat /\ DOMAIN few = 1 .. Len(few)
  BY DEF IsText
<1>2. \A i \in 1 .. Len(many) :
          place[i] \in 1 .. Len(few) /\ few[place[i]].name = many[i].name
  BY <1>1 DEF NamesIn
<1>3. place \in [1 .. Len(many) -> 1 .. Len(few)]
  BY <1>2
<1>4. SUFFICES ASSUME Len(few) < Len(many) PROVE FALSE
  BY <1>1
<1>5. /\ IsFiniteSet(1 .. Len(many)) /\ Cardinality(1 .. Len(many)) = Len(many)
      /\ IsFiniteSet(1 .. Len(few)) /\ Cardinality(1 .. Len(few)) = Len(few)
  <2>1. \A n \in Nat : IsFiniteSet(1 .. n) /\ Cardinality(1 .. n) = IF 1 > n THEN 0 ELSE n - 1 + 1
    BY FS_Interval
  <2> QED
    BY <1>1, <2>1
<1> HIDE DEF place
<1>6. PICK i \in 1 .. Len(many), j \in 1 .. Len(many) : i # j /\ place[i] = place[j]
  BY <1>3, <1>4, <1>5, FS_PigeonHole
<1>7. many[i].name = many[j].name
  BY <1>2, <1>6
<1> QED
  BY <1>1, <1>6, <1>7 DEF Distinct

------------------------------------------------------------------------------
(* One more option keeps the list sound, if it is that of a specification   *)
(* and none of the options so far, unless names are repeated.               *)
LEMMA AddOptKeeps ==
  ASSUME FitInv, phase = "convert", goal = "opts",
         NEW opt, AddOpt(opt),
         opt.name \in NamesIn(specs),
         ~Repeated => \A i \in DOMAIN opts : opts[i].name # opt.name,
         at <= Len(tkns) => opt.name = tkns[at].name
  PROVE  FitInv'
<1>0. /\ opts' = Append(opts, opt) /\ at' = at + 1
      /\ phase' = IF Len(opts) = Len(specs) THEN "undefined" ELSE phase
      /\ UNCHANGED <<goal, tkns, specs>>
  BY DEF AddOpt, fixed
<1>1. Filling
  BY DEF FitInv
<1>2. /\ IsText(opts') /\ DOMAIN opts = 1 .. Len(opts) /\ Len(opts) \in Nat
      /\ DOMAIN opts' = 1 .. Len(opts) + 1
      /\ Len(opts') = Len(opts) + 1
      /\ \A i \in 1 .. Len(opts) : opts'[i] = opts[i]
      /\ opts'[Len(opts) + 1] = opt
  BY <1>0, AppendedTo DEF FitInv
<1>3. NamesIn(opts') \subseteq NamesIn(specs)
  <2>1. \A i \in DOMAIN opts : opts[i].name \in NamesIn(specs)
    BY <1>1 DEF Filling, NamesIn
  <2>2. \A i \in DOMAIN opts' : opts'[i].name \in NamesIn(specs)
    BY <1>2, <2>1
  <2> QED
    BY <2>2 DEF NamesIn
<1>4. ~Repeated => Distinct(opts')
  <2> SUFFICES ASSUME ~Repeated,
                      NEW i \in DOMAIN opts', NEW j \in DOMAIN opts',
                      opts'[i].name = opts'[j].name
               PROVE  i = j
    BY DEF Distinct
  <2>1. Distinct(opts) /\ \A k \in DOMAIN opts : opts[k].name # opt.name
    BY <1>1 DEF Filling
  <2> QED
    BY <1>2, <2>1 DEF Distinct
<1>5. Repeated' = Repeated
  BY <1>0 DEF Repeated
<1>6. at' <= Len(tkns') =>
          \A i \in DOMAIN opts' : \E k \in 1 .. at' - 1 : opts'[i].name = tkns'[k].name
  <2> SUFFICES ASSUME at + 1 <= Len(tkns), NEW i \in 1 .. Len(opts) + 1
               PROVE  \E k \in 1 .. at : opts'[i].name = tkns[k].name
    BY <1>0, <1>2 DEF FitInv
  <2>1. at \in Nat \ {0} /\ Len(tkns) \in Nat
    BY DEF FitInv, IsText
  <2>2. at <= Len(tkns)
    BY <2>1
  <2>3. CASE i \in 1 .. Len(opts)
    <3>1. PICK k \in 1 .. at - 1 : opts[i].name = tkns[k].name
      BY <1>1, <1>2, <2>2, <2>3 DEF Filling
    <3> QED
      BY <1>2, <2>1, <2>3, <3>1
  <2>4. CASE i = Len(opts) + 1
    BY <1>2, <2>1, <2>2, <2>4
  <2> QED
    BY <1>2, <2>3, <2>4
<1>7. Filling'
  <2>1. NamesIn(opts)' = NamesIn(opts') /\ NamesIn(specs)' = NamesIn(specs)
    BY <1>0 DEF NamesIn
  <2>2. Distinct(opts)' <=> Distinct(opts')
    BY DEF Distinct
  <2> QED
    BY <1>3, <1>4, <1>5, <1>6, <2>1, <2>2 DEF Filling
<1>8. ListFits'
  <2> SUFFICES ASSUME phase' = "undefined", ~Repeated PROVE FALSE
    BY <1>5 DEF ListFits
  <2>1. Len(opts) = Len(specs)
    BY <1>0
  <2>2. Len(opts') <= Len(specs)
    BY <1>2, <1>3, <1>4, NoMoreThan DEF FitInv
  <2> QED
    BY <1>2, <2>1, <2>2
<1>9. at' \in Nat \ {0} /\ phase' # "cut"
  BY <1>0 DEF FitInv
<1> QED
  BY <1>0, <1>2, <1>7, <1>8, <1>9 DEF FitInv

(* The text is cut: pairs are added, options are not yet.                   *)
LEMMA CutKeeps == FitInv /\ Cut => FitInv'
<1> SUFFICES ASSUME FitInv, NEW text \in rest, phase = "cut",
                    CutPiece(text) \/ CutFails(text)
             PROVE  FitInv'
  BY DEF Cut
<1>1. opts = <<>> /\ at = 1 /\ IsText(tkns) /\ IsText(specs) /\ IsText(opts)
  BY DEF FitInv
<1>2. CASE CutPiece(text)
  <2>1. IsText(tkns')
    <3>1. CASE UNCHANGED tkns
      BY <1>1, <3>1 DEF IsText
    <3>2. ASSUME NEW t, tkns' = Append(tkns, t) PROVE IsText(tkns')
      BY <1>1, <3>2, AppendedTo
    <3> QED
      BY <1>2, <3>1, <3>2 DEF CutPiece
  <2> QED
    BY <1>1, <1>2, <2>1 DEF CutPiece, FitInv, ListFits, IsText
<1>3. CASE CutFails(text)
  BY <1>1, <1>3 DEF CutFails, FitInv, ListFits, IsText
<1> QED
  BY <1>2, <1>3

LEMMA AllocateKeeps == FitInv /\ Allocate => FitInv'
<1> SUFFICES ASSUME FitInv, Allocate PROVE FitInv'
  OBVIOUS
<1>1. /\ opts = <<>> /\ at = 1 /\ phase' \in {"convert", "failed"}
      /\ opts' = opts /\ at' = at /\ tkns' = tkns /\ specs' = specs
  BY DEF FitInv, Allocate
<1>2. Filling'
  BY <1>1 DEF Filling, NamesIn, Distinct
<1> QED
  BY <1>1, <1>2 DEF FitInv, ListFits, IsText

LEMMA FillingStays ==
  ASSUME Filling, UNCHANGED <<tkns, specs, opts>>, at' = at \/ ~(at' <= Len(tkns))
  PROVE  Filling'
<1>1. NamesIn(opts)' = NamesIn(opts) /\ NamesIn(specs)' = NamesIn(specs)
  BY DEF NamesIn
<1>2. (Distinct(opts)' <=> Distinct(opts)) /\ (Repeated' <=> Repeated)
  BY DEF Distinct, Repeated
<1> QED
  BY <1>1, <1>2 DEF Filling

LEMMA StopKeeps ==
  ASSUME FitInv, phase' \in {"refused", "done"}, UNCHANGED <<tkns, specs, opts, at>>
  PROVE  FitInv'
  BY DEF FitInv, ListFits, IsText

(* The first loop: the pair's option is that of a specification, and of no  *)
(* pair before unless a name is repeated.                                   *)
LEMMA ConvertKeeps == FitInv /\ Convert => FitInv'
<1> SUFFICES ASSUME FitInv, Convert PROVE FitInv'
  OBVIOUS
<1>0. /\ phase = "convert" /\ goal = "opts" /\ at <= Len(tkns)
      /\ at \in Nat \ {0} /\ IsText(tkns) /\ IsText(specs) /\ Filling
  BY DEF Convert, FitInv
<1>1. ASSUME NEW opt \in OptsOfPair(tkns[at]), AddOpt(opt) PROVE FitInv'
  <2>1. PICK s \in Lkp(specs, tkns[at].name) : opt.name = s.name
    BY <1>1 DEF OptsOfPair, Opt
  <2>2. opt.name = tkns[at].name /\ opt.name \in NamesIn(specs)
    BY <1>0, <2>1, LkpFinds
  <2>3. ASSUME ~Repeated, NEW i \in DOMAIN opts PROVE opts[i].name # opt.name
    <3>1. PICK k \in 1 .. at - 1 : opts[i].name = tkns[k].name
      BY <1>0 DEF Filling
    <3>2. k \in DOMAIN tkns /\ at \in DOMAIN tkns /\ k # at
      BY <1>0 DEF IsText
    <3> QED
      BY <2>2, <2>3, <3>1, <3>2 DEF Repeated
  <2> QED
    BY <1>0, <1>1, <2>2, <2>3, AddOptKeeps
<1>2. CASE Refuse
  BY <1>2, StopKeeps DEF Refuse
<1> QED
  BY <1>1, <1>2 DEF Convert

(* The second loop: what is added is not there yet.                         *)
LEMMA AddMissingKeeps == FitInv /\ AddMissing => FitInv'
<1> SUFFICES ASSUME FitInv, AddMissing PROVE FitInv'
  OBVIOUS
<1>0. /\ phase = "convert" /\ goal = "opts" /\ Len(tkns) \in Nat /\ Len(specs) \in Nat
      /\ at \in Len(tkns) + 1 .. Len(tkns) + Len(specs)
      /\ IsText(opts) /\ IsText(specs) /\ Filling
  BY DEF AddMissing, FitInv, IsText
<1>1. CASE Lkp(opts, SpecAt.name) = {} /\ AddOpt(Opt(SpecAt.name, SpecAt.type, SpecAt.dflt))
  <2>1. at - Len(tkns) \in DOMAIN specs
    BY <1>0 DEF IsText
  <2>2. SpecAt.name \in NamesIn(specs)
    BY <2>1 DEF SpecAt, NamesIn
  <2>3. \A i \in DOMAIN opts : opts[i].name # SpecAt.name
    BY <1>0, <1>1, LkpFinds
  <2>4. ~(at <= Len(tkns))
    BY <1>0
  <2>5. Opt(SpecAt.name, SpecAt.type, SpecAt.dflt).name = SpecAt.name
    BY DEF Opt
  <2> QED
    BY <1>0, <1>1, <2>2, <2>3, <2>4, <2>5, AddOptKeeps
<1>2. CASE Refuse
  BY <1>2, StopKeeps DEF Refuse
<1>3. CASE Skip
  <2>1. /\ at' = at + 1 /\ phase' = phase
        /\ tkns' = tkns /\ specs' = specs /\ opts' = opts
    BY <1>3 DEF Skip, fixed
  <2>2. ~(at' <= Len(tkns'))
    BY <1>0, <2>1
  <2>3. Filling'
    BY <1>0, <2>1, <2>2, FillingStays
  <2> QED
    BY <1>0, <2>1, <2>3 DEF FitInv, ListFits, IsText
<1> QED
  BY <1>1, <1>2, <1>3 DEF AddMissing

LEMMA ConvertSpecKeeps == FitInv /\ ConvertSpec => FitInv'
<1> SUFFICES ASSUME FitInv, ConvertSpec PROVE FitInv'
  OBVIOUS
<1>1. CASE Refuse
  BY <1>1, StopKeeps DEF Refuse
<1>2. ASSUME NEW s \in SpecParseTkns(tkns[at]), specs' = Append(specs, s),
             at' = at + 1, UNCHANGED <<fixed, rest, tkns, opts, phase>>
      PROVE  FitInv'
  <2>1. IsText(specs')
    BY <1>2, AppendedTo DEF FitInv
  <2>2. phase' = "convert" /\ goal' = "specs"
    BY <1>2 DEF ConvertSpec, fixed
  <2> QED
    BY <1>2, <2>1, <2>2 DEF FitInv, ListFits, IsText
<1> QED
  BY <1>1, <1>2 DEF ConvertSpec

LEMMA BeginKeeps ==
  ASSUME FitInv, NEW text, Begin(text)
  PROVE  FitInv'
  BY EmptyList DEF FitInv, Begin, ListFits, IsText

LEMMA StepKeepsFit == FitInv /\ [Next]_vars => FitInv'
<1> SUFFICES ASSUME FitInv, [Next]_vars PROVE FitInv'
  OBVIOUS
<1>1. CASE Cut
  BY <1>1, CutKeeps
<1>2. CASE Allocate
  BY <1>2, AllocateKeeps
<1>3. CASE Convert
  BY <1>3, ConvertKeeps
<1>4. CASE AddMissing
  BY <1>4, AddMissingKeeps
<1>5. CASE ConvertSpec
  BY <1>5, ConvertSpecKeeps
<1>6. CASE Finish
  BY <1>6, StopKeeps DEF Finish
<1>7. CASE Give
  BY <1>7, BeginKeeps DEF Give
<1>8. CASE WriteAndRead
  BY <1>8, BeginKeeps DEF WriteAndRead
<1>9. CASE UNCHANGED vars
  <2>1. /\ UNCHANGED <<tkns, specs, opts>>
        /\ at' = at /\ phase' = phase /\ goal' = goal
    BY <1>9 DEF vars
  <2>2. Filling => Filling'
    BY <2>1, FillingStays
  <2>3. ListFits'
    BY <2>1 DEF FitInv, ListFits, Repeated
  <2> QED
    BY <2>1, <2>2, <2>3 DEF FitInv, IsText
<1> QED
  BY <1>1, <1>2, <1>3, <1>4, <1>5, <1>6, <1>7, <1>8, <1>9 DEF Next

LEMMA InitFits == Init => FitInv
<1> SUFFICES ASSUME Init PROVE FitInv
  OBVIOUS
<1>1. IsText(specs)
  BY EmptyList, SpecListsAssumption DEF Init, IsText
<1> QED
  BY <1>1, EmptyList DEF Init, FitInv, ListFits

(* hidrd_opt_list_parse_tkns_list() never writes past the options that it   *)
(* allocated for, one for each specification, whatever the specifications   *)
(* and the text are, unless the text gives a name twice.                    *)
THEOREM OptionListFits == Spec => []ListFits
<1>1. FitInv => ListFits
  BY DEF FitInv
<1> QED
  BY <1>1, InitFits, StepKeepsFit, PTL DEF Spec

(* The pairs are those of the parts of the text before a place, in order.   *)
CutBy(t, pairs, b) ==
    \E from :
        /\ \A i \in DOMAIN pairs : from[i] \in Nat /\ pairs[i] \in TknsParse(PartAt(t, from[i]))
        /\ \A i, j \in DOMAIN pairs : i < j => from[i] < from[j]
        /\ {from[i] : i \in DOMAIN pairs} = Before(t, b)

CutInv ==
    /\ IsText(given)
    /\ \A i \in DOMAIN specs : SpecValid(specs[i])
    /\ \A i \in DOMAIN opts : OptValid(opts[i])
    /\ phase = "cut" =>
          \/ \E b : /\ StartsAt(given, b) /\ rest = {SubSeq(given, b, Len(given))}
                    /\ CutBy(given, tkns, b)
          \/ rest = {} /\ CutBy(given, tkns, Len(given) + 2)
    /\ phase \in {"convert", "done"} => CutBy(given, tkns, Len(given) + 2)

LEMMA CutByStart ==
  ASSUME NEW t, IsText(t)
  PROVE  CutBy(t, <<>>, 1) /\ StartsAt(t, 1) /\ SubSeq(t, 1, Len(t)) = t
<1>1. Len(t) \in Nat /\ t \in Seq(ToSet(t))
  BY DEF IsText
<1>2. StartsAt(t, 1)
  BY <1>1 DEF StartsAt
<1>3. SubSeq(t, 1, Len(t)) = t
  <2> DEFINE S == ToSet(t)
  <2>1. t \in Seq(S)
    BY <1>1
  <2> HIDE DEF S
  <2> QED
    BY <2>1
<1>4. Before(t, 1) = {}
  <2>1. \A a \in PartsOf(t) : a \in 1 .. Len(t) + 1
    BY Zenon DEF PartsOf
  <2>2. \A a \in PartsOf(t) : ~(a < 1)
    BY <1>1, <2>1
  <2> QED
    BY <2>2 DEF Before
<1>5. CutBy(t, <<>>, 1)
  <2> DEFINE from == <<>>
  <2>1. DOMAIN <<>> = {}
    OBVIOUS
  <2>2. {from[i] : i \in DOMAIN <<>>} = Before(t, 1)
    BY <1>4, <2>1
  <2>3. /\ \A i \in DOMAIN <<>> : from[i] \in Nat /\ <<>>[i] \in TknsParse(PartAt(t, from[i]))
        /\ \A i, j \in DOMAIN <<>> : i < j => from[i] < from[j]
    BY <2>1
  <2> HIDE DEF from
  <2> QED
    BY <2>2, <2>3 DEF CutBy
<1> QED
  BY <1>2, <1>3, <1>5

LEMMA CutByMore ==
  ASSUME NEW t, NEW pairs, IsText(pairs), NEW b \in Nat, NEW e,
         CutBy(t, pairs, b), b \in PartsOf(t), Before(t, e) = Before(t, b) \cup {b},
         NEW p \in TknsParse(PartAt(t, b))
  PROVE  CutBy(t, Append(pairs, p), e)
<1> DEFINE n == Len(pairs)
           more == Append(pairs, p)
<1>1. PICK from :
        /\ \A i \in DOMAIN pairs : from[i] \in Nat /\ pairs[i] \in TknsParse(PartAt(t, from[i]))
        /\ \A i, j \in DOMAIN pairs : i < j => from[i] < from[j]
        /\ {from[i] : i \in DOMAIN pairs} = Before(t, b)
  BY DEF CutBy
<1>2. /\ DOMAIN pairs = 1 .. n /\ n \in Nat
      /\ DOMAIN more = 1 .. n + 1
      /\ \A i \in 1 .. n : more[i] = pairs[i]
      /\ more[n + 1] = p
  BY AppendedTo
<1> DEFINE to == [i \in 1 .. n + 1 |-> IF i <= n THEN from[i] ELSE b]
<1> HIDE DEF n, more
<1>3. (\A i \in 1 .. n : to[i] = from[i]) /\ to[n + 1] = b
  BY <1>2
<1> HIDE DEF to
<1>4. \A i \in 1 .. n + 1 : i \in 1 .. n \/ i = n + 1
  BY <1>2
<1>5. \A i \in 1 .. n : from[i] \in Nat /\ from[i] < b
  <2> TAKE i \in 1 .. n
  <2>1. from[i] \in Before(t, b) /\ from[i] \in Nat
    BY <1>1, <1>2
  <2> QED
    BY <2>1 DEF Before
<1>6. ASSUME NEW i \in 1 .. n + 1
      PROVE  to[i] \in Nat /\ more[i] \in TknsParse(PartAt(t, to[i]))
  <2>1. CASE i \in 1 .. n
    BY <1>1, <1>2, <1>3, <2>1
  <2>2. CASE i = n + 1
    BY <1>2, <1>3, <2>2
  <2> QED
    BY <1>4, <2>1, <2>2
<1>7. ASSUME NEW i \in 1 .. n + 1, NEW j \in 1 .. n + 1, i < j
      PROVE  to[i] < to[j]
  <2>1. i \in 1 .. n
    BY <1>2, <1>7
  <2>2. CASE j \in 1 .. n
    BY <1>1, <1>2, <1>3, <1>7, <2>1, <2>2
  <2>3. CASE j = n + 1
    BY <1>3, <1>5, <2>1, <2>3
  <2> QED
    BY <1>4, <2>2, <2>3
<1>8. {to[i] : i \in 1 .. n + 1} = Before(t, e)
  <2>1. \A x : x \in {to[i] : i \in 1 .. n + 1} <=> x = b \/ x \in {from[i] : i \in 1 .. n}
    <3>1. \A i \in 1 .. n : i \in 1 .. n + 1
      BY <1>2
    <3>2. n + 1 \in 1 .. n + 1
      BY <1>2
    <3> QED
      BY <1>3, <1>4, <3>1, <3>2
  <2>2. {from[i] : i \in 1 .. n} = Before(t, b)
    BY <1>1, <1>2
  <2> QED
    BY <2>1, <2>2
<1> QED
  BY <1>2, <1>6, <1>7, <1>8 DEF CutBy, more

LEMMA PairsText ==
  ASSUME NEW t, IsText(t), NEW pairs, NEW b, CutBy(t, pairs, b)
  PROVE  \A i \in DOMAIN pairs :
            IsText(pairs[i].name) /\ pairs[i].name # <<>> /\ IsText(pairs[i].value)
<1> SUFFICES ASSUME NEW i \in DOMAIN pairs
             PROVE  IsText(pairs[i].name) /\ pairs[i].name # <<>> /\ IsText(pairs[i].value)
  OBVIOUS
<1>1. PICK a \in Before(t, b) : pairs[i] \in TknsParse(PartAt(t, a))
  <2>1. PICK from :
          /\ pairs[i] \in TknsParse(PartAt(t, from[i]))
          /\ {from[k] : k \in DOMAIN pairs} = Before(t, b)
    BY DEF CutBy
  <2> QED
    BY <2>1
<1>2. a \in 1 .. Len(t) + 1
  BY <1>1, Zenon DEF Before, PartsOf
<1> DEFINE p == PartAt(t, a)
<1>3. IsText(p)
  BY <1>2, PartIs
<1> HIDE DEF p
<1>4. pairs[i] = [name |-> NameIn(p), value |-> ValueIn(p)] /\ NameTknValid(pairs[i].name)
  BY <1>1, <1>3, PairFound DEF p
<1>5. IsText(NameIn(p)) /\ IsText(ValueIn(p))
  BY <1>3, PairMadeOf DEF MadeOf
<1> QED
  BY <1>4, <1>5 DEF NameTknValid

------------------------------------------------------------------------------
(* What a lookup finds.                                                     *)
LEMMA LkpIs ==
  ASSUME NEW list, IsText(list), NEW i \in DOMAIN list,
         \A j \in 1 .. i - 1 : list[j].name # list[i].name
  PROVE  Lkp(list, list[i].name) = {list[i]}
<1> DEFINE named == {k \in DOMAIN list : list[k].name = list[i].name}
<1>1. Len(list) \in Nat /\ DOMAIN list = 1 .. Len(list)
  BY TextFacts
<1>2. named \in SUBSET Int /\ i \in named
  BY <1>1
<1>3. \A k \in named : i <= k
  <2> TAKE k \in named
  <2>1. k \in DOMAIN list /\ k \in Nat /\ i \in Nat /\ k >= 1
    BY <1>1
  <2>2. k \notin 1 .. i - 1
    OBVIOUS
  <2> QED
    BY <2>1, <2>2
<1>4. Lkp(list, list[i].name) = IF named = {} THEN {} ELSE {list[Min(named)]}
  BY DEF Lkp
<1> HIDE DEF named
<1>5. Min(named) = i
  BY <1>2, <1>3, LeastIs
<1> QED
  BY <1>2, <1>4, <1>5

LEMMA FirstNamed ==
  ASSUME NEW list, IsText(list), NEW name \in NamesIn(list)
  PROVE  \E i \in DOMAIN list : /\ list[i].name = name
                                /\ \A j \in 1 .. i - 1 : list[j].name # name
<1> DEFINE named == {k \in DOMAIN list : list[k].name = name}
<1>1. Len(list) \in Nat /\ DOMAIN list = 1 .. Len(list)
  BY TextFacts
<1>2. named \in SUBSET Nat /\ named # {}
  BY <1>1 DEF NamesIn
<1> DEFINE i == Min(named)
<1>3. i \in named /\ \A k \in named : i <= k
  <2> HIDE DEF named
  <2> QED
    BY <1>2, LeastElement
<1> HIDE DEF i
<1>4. ASSUME NEW j \in 1 .. i - 1, list[j].name = name PROVE FALSE
  <2>1. i \in 1 .. Len(list)
    BY <1>1, <1>3
  <2>2. j \in named /\ ~(i <= j)
    BY <1>1, <1>4, <2>1
  <2> QED
    BY <1>3, <2>2
<1> QED
  BY <1>3, <1>4

LEMMA LkpSpecified ==
  ASSUME IsText(specs)
  PROVE  /\ \A s \in Specified : Lkp(specs, s.name) = {s} /\ s \in {specs[i] : i \in DOMAIN specs}
         /\ \A name \in NamesIn(specs) :
               \E s \in Specified : s.name = name /\ Lkp(specs, name) = {s}
         /\ \A name : name \notin NamesIn(specs) => Lkp(specs, name) = {}
<1>1. \A s \in Specified : Lkp(specs, s.name) = {s} /\ s \in {specs[i] : i \in DOMAIN specs}
  <2> TAKE s \in Specified
  <2>1. PICK i \in DOMAIN specs :
           s = specs[i] /\ \A j \in 1 .. i - 1 : specs[j].name # specs[i].name
    BY DEF Specified
  <2> QED
    BY <2>1, LkpIs
<1>2. ASSUME NEW name \in NamesIn(specs)
      PROVE  \E s \in Specified : s.name = name /\ Lkp(specs, name) = {s}
  <2>1. PICK i \in DOMAIN specs : specs[i].name = name /\ \A j \in 1 .. i - 1 : specs[j].name # name
    BY FirstNamed
  <2>2. specs[i] \in Specified
    BY <2>1 DEF Specified
  <2>3. Lkp(specs, name) = {specs[i]}
    BY <2>1, LkpIs
  <2> QED
    BY <2>1, <2>2, <2>3
<1>3. ASSUME NEW name, name \notin NamesIn(specs) PROVE Lkp(specs, name) = {}
  BY <1>3 DEF Lkp, NamesIn
<1> QED
  BY <1>1, <1>2, <1>3

------------------------------------------------------------------------------
(* The text is cut at every comma, and what is made of it is valid.         *)
LEMMA CutInvInit == Init => CutInv
<1> SUFFICES ASSUME Init PROVE CutInv
  OBVIOUS
<1>1. IsText(known) /\ \A i \in DOMAIN known : SpecValid(known[i])
  BY SpecListsAssumption DEF Init
<1>2. IsText(given)
  BY <1>1, SpecsWritten, TextsAssumption DEF Init
<1>3. \A i \in DOMAIN specs : SpecValid(specs[i])
  <2>1. specs = known \/ specs = <<>>
    BY DEF Init
  <2>2. DOMAIN <<>> = {}
    OBVIOUS
  <2> QED
    BY <1>1, <2>1, <2>2
<1>4. DOMAIN opts = {}
  BY DEF Init
<1>5. /\ CutBy(given, tkns, 1) /\ StartsAt(given, 1)
      /\ rest = {SubSeq(given, 1, Len(given))}
  BY <1>2, CutByStart DEF Init
<1>6. phase = "cut"
  BY DEF Init
<1> QED
  BY <1>2, <1>3, <1>4, <1>5, <1>6 DEF CutInv

LEMMA BeginCuts ==
  ASSUME CutInv, NEW text, IsText(text), Begin(text)
  PROVE  CutInv'
<1>1. /\ given' = text /\ rest' = {text} /\ tkns' = <<>> /\ opts' = <<>>
      /\ phase' = "cut" /\ specs' = specs
  BY DEF Begin
<1>2. CutBy(text, <<>>, 1) /\ StartsAt(text, 1) /\ SubSeq(text, 1, Len(text)) = text
  BY CutByStart
<1>3. \A i \in DOMAIN opts' : OptValid(opts'[i])
  <2>1. DOMAIN opts' = {}
    BY <1>1
  <2> QED
    BY <2>1
<1> QED
  BY <1>1, <1>2, <1>3 DEF CutInv

LEMMA CutCuts == FitInv /\ CutInv /\ Cut => CutInv'
<1> SUFFICES ASSUME FitInv, CutInv, phase = "cut", NEW text \in rest,
                    CutPiece(text) \/ CutFails(text)
             PROVE  CutInv'
  BY DEF Cut
<1>1. PICK b : /\ StartsAt(given, b) /\ rest = {SubSeq(given, b, Len(given))}
               /\ CutBy(given, tkns, b)
  BY DEF CutInv
<1>2. /\ text = SubSeq(given, b, Len(given)) /\ IsText(given) /\ IsText(tkns)
      /\ b \in 1 .. Len(given) + 1 /\ b \in Nat
  BY <1>1 DEF CutInv, FitInv, StartsAt
<1>3. CASE CutFails(text)
  <2>1. /\ phase' \in {"refused", "failed"}
        /\ UNCHANGED <<given, specs, opts>>
    BY <1>3 DEF CutFails, fixed
  <2> QED
    BY <2>1 DEF CutInv
<1>4. CASE CutPiece(text)
  <2> DEFINE c == CommaEnd(given, b)
             p == PartAt(given, b)
  <2>1. /\ Piece(text) = p
        /\ RestAfter(text) = IF c > Len(given) THEN {} ELSE {SubSeq(given, c + 1, Len(given))}
    BY <1>2, CutHere
  <2>2. /\ Blank(p) => Before(given, c + 1) = Before(given, b)
        /\ ~Blank(p) => b \in PartsOf(given) /\ Before(given, c + 1) = Before(given, b) \cup {b}
        /\ c <= Len(given) => StartsAt(given, c + 1)
        /\ c > Len(given) => c + 1 = Len(given) + 2
    BY <1>1, <1>2, NextParts
  <2>3. c \in b .. Len(given) + 1 /\ Len(given) \in Nat
    BY <1>2, PartIs, TextFacts
  <2>4. /\ rest' = RestAfter(text)
        /\ UNCHANGED <<given, specs, opts, phase>>
        /\ \/ Blank(Piece(text)) /\ tkns' = tkns
           \/ ~Blank(Piece(text)) /\ \E t \in TknsParse(Piece(text)) : tkns' = Append(tkns, t)
    BY <1>4 DEF CutPiece, fixed
  <2> HIDE DEF c, p
  <2>5. CutBy(given, tkns', c + 1)
    <3>1. CASE Blank(p)
      <4>1. tkns' = tkns /\ Before(given, c + 1) = Before(given, b)
        BY <2>1, <2>2, <2>4, <3>1
      <4> QED
        BY <1>1, <4>1 DEF CutBy
    <3>2. CASE ~Blank(p)
      <4>1. PICK t \in TknsParse(p) : tkns' = Append(tkns, t)
        BY <2>1, <2>4, <3>2
      <4>2. CutBy(given, Append(tkns, t), c + 1)
        BY <1>1, <1>2, <2>2, <3>2, CutByMore DEF p
      <4> QED
        BY <4>1, <4>2
    <3> QED
      BY <3>1, <3>2
  <2>6. \/ /\ StartsAt(given, c + 1) /\ rest' = {SubSeq(given, c + 1, Len(given))}
           /\ CutBy(given, tkns', c + 1)
        \/ rest' = {} /\ CutBy(given, tkns', Len(given) + 2)
    <3>1. CASE c > Len(given)
      BY <2>1, <2>2, <2>4, <2>5, <3>1
    <3>2. CASE ~(c > Len(given))
      BY <2>1, <2>2, <2>3, <2>4, <2>5, <3>2
    <3> QED
      BY <3>1, <3>2
  <2>7. /\ phase' = "cut" /\ given' = given
        /\ IsText(given)' /\ (\A i \in DOMAIN specs : SpecValid(specs[i]))'
        /\ (\A i \in DOMAIN opts : OptValid(opts[i]))'
    BY <2>4 DEF CutInv
  <2> QED
    BY <2>6, <2>7 DEF CutInv
<1> QED
  BY <1>3, <1>4

LEMMA AddOptCuts ==
  ASSUME FitInv, CutInv, phase = "convert", NEW opt, OptValid(opt), AddOpt(opt)
  PROVE  CutInv'
<1>1. /\ opts' = Append(opts, opt) /\ phase' \in {"convert", "undefined"}
      /\ UNCHANGED <<given, tkns, specs>>
  BY DEF AddOpt, fixed
<1>2. /\ DOMAIN opts' = 1 .. Len(opts) + 1 /\ DOMAIN opts = 1 .. Len(opts) /\ Len(opts) \in Nat
      /\ \A i \in 1 .. Len(opts) : opts'[i] = opts[i]
      /\ opts'[Len(opts) + 1] = opt
  BY <1>1, AppendedTo DEF FitInv
<1>3. \A i \in DOMAIN opts' : OptValid(opts'[i])
  <2> TAKE i \in DOMAIN opts'
  <2>1. i \in 1 .. Len(opts) \/ i = Len(opts) + 1
    BY <1>2
  <2> QED
    BY <1>2, <2>1 DEF CutInv
<1> QED
  BY <1>1, <1>3 DEF CutInv

LEMMA PairOptValid ==
  ASSUME FitInv, CutInv, phase = "convert", NEW k \in DOMAIN tkns, NEW opt \in OptsOfPair(tkns[k])
  PROVE  OptValid(opt)
<1>1. IsText(tkns[k].value)
  BY PairsText DEF CutInv
<1>0. PICK s \in Lkp(specs, tkns[k].name) :
         opt \in {Opt(s.name, s.type, v) : v \in TypeParseValue(s.type, tkns[k].value)}
  BY DEF OptsOfPair
<1>2. PICK v \in TypeParseValue(s.type, tkns[k].value) : opt = Opt(s.name, s.type, v)
  BY <1>0
<1>3. SpecValid(s)
  <2>1. tkns[k].name \in NamesIn(specs)
    BY <1>0, LkpFinds DEF FitInv
  <2>2. PICK z \in Specified : Lkp(specs, tkns[k].name) = {z}
    BY <2>1, LkpSpecified DEF FitInv
  <2>3. z \in {specs[i] : i \in DOMAIN specs}
    BY LkpSpecified DEF FitInv
  <2> QED
    BY <1>0, <2>2, <2>3 DEF CutInv
<1>4. ValueValid(s.type, v)
  BY <1>1, <1>2, <1>3, ValueRead DEF SpecValid
<1> QED
  BY <1>2, <1>3, <1>4 DEF OptValid, Opt, SpecValid

LEMMA CutStays ==
  ASSUME CutInv, given' = given, tkns' = tkns, specs' = specs, opts' = opts,
         \/ phase' = phase /\ rest' = rest
         \/ phase' \in {"refused", "failed"}
         \/ phase' = "done" /\ phase = "convert"
         \/ phase' = phase /\ phase = "convert"
  PROVE  CutInv'
  BY DEF CutInv

LEMMA StepCuts == FitInv /\ CutInv /\ [Next]_vars => CutInv'
<1> SUFFICES ASSUME FitInv, CutInv, [Next]_vars PROVE CutInv'
  OBVIOUS
<1>1. CASE Cut
  BY <1>1, CutCuts
<1>2. CASE Allocate
  <2>1. CutBy(given, tkns, Len(given) + 2)
    BY <1>2 DEF Allocate, CutInv
  <2>2. phase' \in {"convert", "failed"} /\ UNCHANGED <<given, tkns, specs, opts>>
    BY <1>2 DEF Allocate, fixed
  <2> QED
    BY <2>1, <2>2 DEF CutInv
<1>3. CASE Convert
  <2>1. phase = "convert" /\ at \in DOMAIN tkns
    BY <1>3, TextFacts DEF Convert, FitInv
  <2>2. CASE Refuse
    <3>1. given' = given /\ tkns' = tkns /\ specs' = specs /\ opts' = opts /\ phase' = "refused"
      BY <2>2 DEF Refuse, fixed
    <3> QED
      BY <3>1, CutStays
  <2>3. ASSUME NEW opt \in OptsOfPair(tkns[at]), AddOpt(opt) PROVE CutInv'
    BY <2>1, <2>3, PairOptValid, AddOptCuts
  <2> QED
    BY <1>3, <2>2, <2>3 DEF Convert
<1>4. CASE AddMissing
  <2>1. phase = "convert" /\ at - Len(tkns) \in DOMAIN specs
    BY <1>4, TextFacts DEF AddMissing, FitInv
  <2>2. CASE Refuse
    <3>1. given' = given /\ tkns' = tkns /\ specs' = specs /\ opts' = opts /\ phase' = "refused"
      BY <2>2 DEF Refuse, fixed
    <3> QED
      BY <3>1, CutStays
  <2>3. CASE Skip
    BY <2>1, <2>3, CutStays DEF Skip, fixed
  <2>4. CASE ~SpecAt.req /\ AddOpt(Opt(SpecAt.name, SpecAt.type, SpecAt.dflt))
    <3>1. SpecValid(SpecAt)
      BY <2>1 DEF SpecAt, CutInv
    <3>2. OptValid(Opt(SpecAt.name, SpecAt.type, SpecAt.dflt))
      BY <2>4, <3>1 DEF SpecValid, OptValid, Opt
    <3> QED
      BY <2>1, <2>4, <3>2, AddOptCuts
  <2> QED
    BY <1>4, <2>2, <2>3, <2>4 DEF AddMissing
<1>5. CASE ConvertSpec
  <2>1. phase = "convert" /\ at \in DOMAIN tkns
    BY <1>5, TextFacts DEF ConvertSpec, FitInv
  <2>2. CASE Refuse
    <3>1. given' = given /\ tkns' = tkns /\ specs' = specs /\ opts' = opts /\ phase' = "refused"
      BY <2>2 DEF Refuse, fixed
    <3> QED
      BY <3>1, CutStays
  <2>3. ASSUME NEW s \in SpecParseTkns(tkns[at]), specs' = Append(specs, s),
               UNCHANGED <<fixed, rest, tkns, opts, phase>>
        PROVE  CutInv'
    <3>1. SpecValid(s)
      <4>1. IsText(tkns[at].name) /\ tkns[at].name # <<>> /\ IsText(tkns[at].value)
        BY <2>1, PairsText DEF CutInv
      <4> QED
        BY <2>3, <4>1, SpecRead
    <3>2. /\ DOMAIN specs' = 1 .. Len(specs) + 1 /\ DOMAIN specs = 1 .. Len(specs)
          /\ Len(specs) \in Nat
          /\ \A i \in 1 .. Len(specs) : specs'[i] = specs[i]
          /\ specs'[Len(specs) + 1] = s
      BY <2>3, AppendedTo DEF FitInv
    <3>3. \A i \in DOMAIN specs' : SpecValid(specs'[i])
      <4> TAKE i \in DOMAIN specs'
      <4>1. i \in 1 .. Len(specs) \/ i = Len(specs) + 1
        BY <3>2
      <4> QED
        BY <3>1, <3>2, <4>1 DEF CutInv
    <3>4. phase' = "convert" /\ UNCHANGED <<given, tkns, opts>>
      BY <2>1, <2>3 DEF fixed
    <3> QED
      BY <2>1, <3>3, <3>4 DEF CutInv
  <2> QED
    BY <1>5, <2>2, <2>3 DEF ConvertSpec
<1>6. CASE Finish
  BY <1>6, CutStays DEF Finish, fixed
<1>7. CASE Give
  BY <1>7, BeginCuts, TextsAssumption DEF Give
<1>8. CASE WriteAndRead
  <2>1. IsText(OptListFormat(opts))
    BY OptsWritten DEF CutInv, FitInv
  <2> QED
    BY <1>8, <2>1, BeginCuts DEF WriteAndRead
<1>9. CASE UNCHANGED vars
  <2>1. /\ given' = given /\ tkns' = tkns /\ specs' = specs /\ opts' = opts
        /\ phase' = phase /\ rest' = rest
    BY <1>9 DEF vars
  <2> QED
    BY <2>1, CutStays
<1> QED
  BY <1>1, <1>2, <1>3, <1>4, <1>5, <1>6, <1>7, <1>8, <1>9 DEF Next

(* The options so far are those of the pairs passed, in their order, and    *)
(* after them the defaults of specifications; and every specification that  *)
(* was passed has an option.                                                *)
Filled ==
    /\ \A k \in DOMAIN tkns : k < at => k \in DOMAIN opts /\ opts[k] \in OptsOfPair(tkns[k])
    /\ at <= Len(tkns) + 1 => Len(opts) = at - 1
    /\ \A k \in DOMAIN opts : k > Len(tkns) =>
          \E s \in Specified : ~s.req /\ opts[k] = Opt(s.name, s.type, s.dflt)
    /\ \A i \in DOMAIN specs : i < at - Len(tkns) => specs[i].name \in NamesIn(opts)

RightInv ==
    /\ goal = "opts" /\ phase \in {"convert", "done"} => Filled
    /\ goal = "opts" /\ phase = "done" => at > Len(tkns) + Len(specs)
    /\ goal = "opts" /\ phase = "refused" => ~Acceptable(given)

------------------------------------------------------------------------------
(* Once a text is cut, every part of it that is not blank is one pair.      *)
PartsAre(t, pairs, from) ==
    /\ \A i \in DOMAIN pairs :
          /\ from[i] \in PartsOf(t) /\ from[i] \in Nat
          /\ pairs[i].name = NameIn(PartAt(t, from[i]))
          /\ pairs[i].value = ValueIn(PartAt(t, from[i]))
          /\ "=" \notin ToSet(pairs[i].value)
    /\ \A i, j \in DOMAIN pairs : i < j => from[i] < from[j]
    /\ \A a \in PartsOf(t) : \E i \in DOMAIN pairs : from[i] = a

LEMMA AllParts ==
  ASSUME NEW t, IsText(t), NEW pairs, CutBy(t, pairs, Len(t) + 2)
  PROVE  \E from : PartsAre(t, pairs, from)
<1> DEFINE e == Len(t) + 2
<1>1. PICK from :
        /\ \A i \in DOMAIN pairs : from[i] \in Nat /\ pairs[i] \in TknsParse(PartAt(t, from[i]))
        /\ \A i, j \in DOMAIN pairs : i < j => from[i] < from[j]
        /\ {from[i] : i \in DOMAIN pairs} = Before(t, e)
  BY DEF CutBy
<1>2. \A a \in PartsOf(t) : a \in 1 .. Len(t) + 1
  BY Zenon DEF PartsOf
<1>3. Before(t, e) = PartsOf(t)
  <2>1. Len(t) \in Nat
    BY TextFacts
  <2>2. \A a \in PartsOf(t) : a < e
    BY <1>2, <2>1
  <2> QED
    BY <2>2 DEF Before
<1>4. ASSUME NEW i \in DOMAIN pairs
      PROVE  /\ from[i] \in PartsOf(t) /\ from[i] \in Nat
             /\ pairs[i].name = NameIn(PartAt(t, from[i]))
             /\ pairs[i].value = ValueIn(PartAt(t, from[i]))
             /\ "=" \notin ToSet(pairs[i].value)
  <2> DEFINE a == from[i]
             p == PartAt(t, a)
  <2>1. a \in PartsOf(t) /\ a \in Nat /\ pairs[i] \in TknsParse(p)
    BY <1>1, <1>3
  <2>2. IsText(p)
    BY <1>2, <2>1, PartIs
  <2> HIDE DEF a, p
  <2>3. pairs[i] = [name |-> NameIn(p), value |-> ValueIn(p)] /\ ValueTknValid(pairs[i].value)
    BY <2>1, <2>2, PairFound
  <2>4. "=" \notin ToSet(pairs[i].value)
    BY <2>3, Zenon DEF ValueTknValid, TknValid
  <2> QED
    BY <2>1, <2>3, <2>4 DEF a, p
<1> QED
  BY <1>1, <1>3, <1>4 DEF PartsAre

(* The option of a pair is of the first specification of its name.          *)
LEMMA OptOfPair ==
  ASSUME IsText(specs), NEW t
  PROVE  /\ \A o \in OptsOfPair(t) : \E s \in Specified : \E v \in TypeParseValue(s.type, t.value) :
               s.name = t.name /\ o = Opt(s.name, s.type, v)
         /\ \A s \in Specified : \A v \in TypeParseValue(s.type, t.value) :
               s.name = t.name => Opt(s.name, s.type, v) \in OptsOfPair(t)
<1>1. ASSUME NEW o \in OptsOfPair(t)
      PROVE  \E s \in Specified : \E v \in TypeParseValue(s.type, t.value) :
               s.name = t.name /\ o = Opt(s.name, s.type, v)
  <2>1. PICK z \in Lkp(specs, t.name) :
           o \in {Opt(z.name, z.type, v) : v \in TypeParseValue(z.type, t.value)}
    BY DEF OptsOfPair
  <2>2. t.name \in NamesIn(specs)
    BY LkpFinds
  <2>3. PICK s \in Specified : s.name = t.name /\ Lkp(specs, t.name) = {s}
    BY <2>2, LkpSpecified
  <2>4. z = s
    BY <2>1, <2>3
  <2>5. PICK v \in TypeParseValue(s.type, t.value) : o = Opt(s.name, s.type, v)
    BY <2>1, <2>4
  <2> QED
    BY <2>3, <2>5
<1>2. ASSUME NEW s \in Specified, NEW v \in TypeParseValue(s.type, t.value), s.name = t.name
      PROVE  Opt(s.name, s.type, v) \in OptsOfPair(t)
  <2>1. s \in Lkp(specs, t.name)
    BY <1>2, LkpSpecified
  <2> QED
    BY <2>1 DEF OptsOfPair
<1> QED
  BY <1>1, <1>2

LEMMA OneOfName ==
  ASSUME IsText(specs), NEW s \in Specified, NEW z \in Specified, s.name = z.name
  PROVE  s = z
<1>1. Lkp(specs, s.name) = {s} /\ Lkp(specs, z.name) = {z}
  BY LkpSpecified
<1> QED
  BY <1>1

(* During the second loop every pair has its option.                        *)
LEMMA PairsPassed ==
  ASSUME FitInv, Filled, NEW k \in DOMAIN tkns, k < at
  PROVE  /\ k \in DOMAIN opts /\ k \in Nat /\ opts[k].name = tkns[k].name
         /\ \E s \in Specified : \E v \in TypeParseValue(s.type, tkns[k].value) :
               s.name = tkns[k].name /\ opts[k] = Opt(s.name, s.type, v)
<1>1. k \in DOMAIN opts /\ opts[k] \in OptsOfPair(tkns[k])
  BY DEF Filled
<1>2. k \in Nat
  BY TextFacts DEF FitInv
<1>3. PICK s \in Specified : \E v \in TypeParseValue(s.type, tkns[k].value) :
               s.name = tkns[k].name /\ opts[k] = Opt(s.name, s.type, v)
  BY <1>1, OptOfPair DEF FitInv
<1>4. opts[k].name = tkns[k].name
  BY <1>3 DEF Opt
<1> QED
  BY <1>1, <1>2, <1>3, <1>4

------------------------------------------------------------------------------
(* What is refused is not acceptable.                                       *)
LEMMA UnreadRefused ==
  ASSUME FitInv, CutInv, phase = "convert", NEW k \in DOMAIN tkns, OptsOfPair(tkns[k]) = {}
  PROVE  ~Acceptable(given)
<1> SUFFICES ASSUME Acceptable(given) PROVE FALSE
  OBVIOUS
<1>1. PICK from : PartsAre(given, tkns, from)
  BY AllParts DEF CutInv
<1> DEFINE a == from[k]
<1>2. /\ a \in PartsOf(given)
      /\ tkns[k].name = NameIn(PartAt(given, a)) /\ tkns[k].value = ValueIn(PartAt(given, a))
  BY <1>1 DEF PartsAre
<1> HIDE DEF a
<1>3. PICK s \in Specified : a \in SaidOf(given, s.name) /\ Readable(given, s, a)
  BY <1>2 DEF Acceptable
<1>4. s.name = tkns[k].name
  BY <1>2, <1>3 DEF SaidOf
<1>5. PICK v \in TypeParseValue(s.type, tkns[k].value) : TRUE
  BY <1>2, <1>3 DEF Readable
<1> QED
  BY <1>4, <1>5, OptOfPair DEF FitInv

(* A specification that no option has the name of is the first of its name. *)
LEMMA NotYet ==
  ASSUME FitInv, Filled, at - Len(tkns) \in DOMAIN specs, Lkp(opts, SpecAt.name) = {}
  PROVE  SpecAt \in Specified /\ SpecAt.name \notin NamesIn(opts)
<1> DEFINE i == at - Len(tkns)
<1>1. SpecAt.name \notin NamesIn(opts)
  BY LkpFinds DEF FitInv, NamesIn
<1>2. /\ i \in DOMAIN specs /\ SpecAt = specs[i]
      /\ DOMAIN specs = 1 .. Len(specs) /\ Len(specs) \in Nat
  BY TextFacts DEF SpecAt, FitInv
<1>3. \A j \in DOMAIN specs : j < i => specs[j].name \in NamesIn(opts)
  BY DEF Filled
<1> HIDE DEF i
<1>4. \A j \in 1 .. i - 1 : specs[j].name # specs[i].name
  <2> TAKE j \in 1 .. i - 1
  <2>1. j \in DOMAIN specs /\ j < i
    BY <1>2
  <2> QED
    BY <1>1, <1>2, <1>3, <2>1
<1> QED
  BY <1>1, <1>2, <1>4 DEF Specified

LEMMA MissingRefused ==
  ASSUME FitInv, CutInv, Filled, phase = "convert", at > Len(tkns),
         at - Len(tkns) \in DOMAIN specs, SpecAt.req, Lkp(opts, SpecAt.name) = {}
  PROVE  ~Acceptable(given)
<1>1. SpecAt \in Specified /\ SpecAt.name \notin NamesIn(opts)
  BY NotYet
<1>2. PICK from : PartsAre(given, tkns, from)
  BY AllParts DEF CutInv
<1>3. ASSUME NEW a \in SaidOf(given, SpecAt.name) PROVE FALSE
  <2>1. a \in PartsOf(given) /\ NameIn(PartAt(given, a)) = SpecAt.name
    BY DEF SaidOf
  <2>2. PICK k \in DOMAIN tkns : from[k] = a /\ tkns[k].name = SpecAt.name
    BY <1>2, <2>1 DEF PartsAre
  <2>3. k < at
    BY TextFacts DEF FitInv
  <2>4. k \in DOMAIN opts /\ opts[k].name = SpecAt.name
    BY <2>2, <2>3, PairsPassed
  <2> QED
    BY <1>1, <2>4 DEF NamesIn
<1> QED
  BY <1>1, <1>3 DEF Acceptable

------------------------------------------------------------------------------
LEMMA SameSpecified == specs' = specs => Specified' = Specified
  BY DEF Specified

LEMMA RightStays ==
  ASSUME RightInv, given' = given, tkns' = tkns, specs' = specs, opts' = opts, at' = at,
         goal' = goal, phase' = phase
  PROVE  RightInv'
<1>1. Specified' = Specified /\ NamesIn(opts)' = NamesIn(opts)
  BY SameSpecified DEF NamesIn
<1>2. Filled' <=> Filled
  BY <1>1 DEF Filled, OptsOfPair
<1>3. Acceptable(given)' <=> Acceptable(given)
  BY <1>1 DEF Acceptable
<1> QED
  BY <1>2, <1>3 DEF RightInv

LEMMA RefusedStays ==
  ASSUME given' = given, specs' = specs, phase' = "refused",
         goal = "opts" => ~Acceptable(given), goal' = goal
  PROVE  RightInv'
<1>1. Specified' = Specified
  BY SameSpecified
<1>2. Acceptable(given)' <=> Acceptable(given)
  BY <1>1 DEF Acceptable
<1> QED
  BY <1>2 DEF RightInv

LEMMA AwayFromRight == phase' \in {"cut", "failed", "undefined"} => RightInv'
  BY DEF RightInv

LEMMA BeganFilled == FitInv /\ at = 1 /\ opts = <<>> => Filled
<1> SUFFICES ASSUME FitInv, at = 1, opts = <<>> PROVE Filled
  OBVIOUS
<1>1. /\ DOMAIN tkns = 1 .. Len(tkns) /\ Len(tkns) \in Nat
      /\ DOMAIN specs = 1 .. Len(specs) /\ Len(specs) \in Nat
      /\ DOMAIN opts = {} /\ Len(opts) = 0
  BY TextFacts DEF FitInv
<1>2. (\A k \in DOMAIN tkns : ~(k < at)) /\ (\A i \in DOMAIN specs : ~(i < at - Len(tkns)))
  BY <1>1
<1> QED
  BY <1>1, <1>2 DEF Filled

LEMMA AllocateRight == FitInv /\ RightInv /\ Allocate => RightInv'
<1> SUFFICES ASSUME FitInv, RightInv, Allocate PROVE RightInv'
  OBVIOUS
<1>1. /\ phase = "cut" /\ phase' \in {"convert", "failed"}
      /\ tkns' = tkns /\ specs' = specs /\ opts' = opts /\ at' = at
  BY DEF Allocate
<1>2. Filled
  BY <1>1, BeganFilled DEF FitInv
<1>3. Specified' = Specified /\ NamesIn(opts)' = NamesIn(opts)
  BY <1>1, SameSpecified DEF NamesIn
<1>4. Filled' <=> Filled
  BY <1>1, <1>3 DEF Filled, OptsOfPair
<1> QED
  BY <1>1, <1>2, <1>4 DEF RightInv

(* One more option, of the pair in the first loop and of the specification  *)
(* in the second.                                                           *)
LEMMA AddedFilled ==
  ASSUME FitInv, Filled, phase = "convert", NEW opt, AddOpt(opt),
         at <= Len(tkns) => opt \in OptsOfPair(tkns[at]),
         at > Len(tkns) => /\ opt.name = SpecAt.name
                           /\ \E s \in Specified : ~s.req /\ opt = Opt(s.name, s.type, s.dflt)
  PROVE  Filled'
<1>0. /\ opts' = Append(opts, opt) /\ at' = at + 1
      /\ tkns' = tkns /\ specs' = specs
  BY DEF AddOpt, fixed
<1> DEFINE n == Len(opts)
           m == Len(tkns)
<1>1. /\ DOMAIN opts = 1 .. n /\ n \in Nat
      /\ DOMAIN opts' = 1 .. n + 1
      /\ Len(opts') = n + 1
      /\ \A i \in 1 .. n : opts'[i] = opts[i]
      /\ opts'[n + 1] = opt
  BY <1>0, AppendedTo DEF FitInv
<1>2. /\ DOMAIN tkns = 1 .. m /\ m \in Nat
      /\ DOMAIN specs = 1 .. Len(specs) /\ Len(specs) \in Nat
      /\ at \in Nat /\ at >= 1
  BY TextFacts DEF FitInv
<1>3. /\ \A k \in DOMAIN tkns : k < at => k \in DOMAIN opts /\ opts[k] \in OptsOfPair(tkns[k])
      /\ at <= m + 1 => n = at - 1
      /\ \A k \in DOMAIN opts : k > m =>
            \E s \in Specified : ~s.req /\ opts[k] = Opt(s.name, s.type, s.dflt)
      /\ \A i \in DOMAIN specs : i < at - m => specs[i].name \in NamesIn(opts)
  BY DEF Filled
<1> HIDE DEF n, m
<1>4. \A k \in DOMAIN opts' : k \in 1 .. n \/ k = n + 1
  BY <1>1
<1>5. ASSUME NEW k \in DOMAIN tkns, k < at + 1
      PROVE  k \in DOMAIN opts' /\ opts'[k] \in OptsOfPair(tkns[k])
  <2>1. CASE k < at
    <3>1. k \in 1 .. n /\ opts[k] \in OptsOfPair(tkns[k])
      BY <1>1, <1>3, <2>1
    <3>2. k \in 1 .. n + 1
      BY <1>1, <3>1
    <3> QED
      BY <1>1, <3>1, <3>2
  <2>2. CASE ~(k < at)
    <3>1. k = at /\ at <= m
      BY <1>2, <1>5, <2>2
    <3>2. n = at - 1
      BY <1>2, <1>3, <3>1
    <3>3. k = n + 1 /\ k \in DOMAIN opts'
      BY <1>1, <1>2, <3>1, <3>2
    <3>4. opt \in OptsOfPair(tkns[at])
      BY <3>1 DEF m
    <3> QED
      BY <1>1, <3>1, <3>3, <3>4
  <2> QED
    BY <2>1, <2>2
<1>6. at + 1 <= m + 1 => n + 1 = (at + 1) - 1
  BY <1>1, <1>2, <1>3
<1>7. ASSUME NEW k \in DOMAIN opts', k > m
      PROVE  \E s \in Specified : ~s.req /\ opts'[k] = Opt(s.name, s.type, s.dflt)
  <2>1. CASE k \in 1 .. n
    BY <1>1, <1>3, <1>7, <2>1
  <2>2. CASE k = n + 1
    <3>1. at > m
      <4> SUFFICES ASSUME at <= m PROVE FALSE
        BY <1>2
      <4>1. n = at - 1
        BY <1>2, <1>3
      <4> QED
        BY <1>1, <1>2, <1>7, <2>2, <4>1
    <3>2. \E s \in Specified : ~s.req /\ opt = Opt(s.name, s.type, s.dflt)
      BY <3>1 DEF m
    <3> QED
      BY <1>1, <2>2, <3>2
  <2> QED
    BY <1>4, <2>1, <2>2
<1>8. /\ \A name \in NamesIn(opts) : name \in NamesIn(opts')
      /\ opt.name \in NamesIn(opts')
  <2>1. \A i \in DOMAIN opts : i \in DOMAIN opts' /\ opts'[i] = opts[i]
    BY <1>1
  <2>2. n + 1 \in DOMAIN opts' /\ opts'[n + 1] = opt
    BY <1>1
  <2> QED
    BY <2>1, <2>2 DEF NamesIn
<1>9. ASSUME NEW i \in DOMAIN specs, i < (at + 1) - m
      PROVE  specs[i].name \in NamesIn(opts')
  <2>1. CASE i < at - m
    BY <1>3, <1>8, <2>1
  <2>2. CASE ~(i < at - m)
    <3>1. i = at - m /\ at > m
      BY <1>2, <1>9, <2>2, SMTT(30)
    <3>2. opt.name = SpecAt.name
      BY <3>1 DEF m
    <3>3. SpecAt = specs[i]
      BY <3>1 DEF SpecAt, m
    <3> QED
      BY <1>8, <3>2, <3>3
  <2> QED
    BY <2>1, <2>2
<1>10. Specified' = Specified /\ NamesIn(opts)' = NamesIn(opts') /\ m' = m
       /\ \A t : OptsOfPair(t)' = OptsOfPair(t)
  BY <1>0, SameSpecified DEF NamesIn, OptsOfPair, m
<1>11. Filled' <=>
    /\ \A k \in DOMAIN tkns : k < at + 1 => k \in DOMAIN opts' /\ opts'[k] \in OptsOfPair(tkns[k])
    /\ at + 1 <= m + 1 => Len(opts') = (at + 1) - 1
    /\ \A k \in DOMAIN opts' : k > m =>
          \E s \in Specified : ~s.req /\ opts'[k] = Opt(s.name, s.type, s.dflt)
    /\ \A i \in DOMAIN specs : i < (at + 1) - m => specs[i].name \in NamesIn(opts')
  BY <1>0, <1>10 DEF Filled, OptsOfPair, m
<1> QED
  BY <1>1, <1>5, <1>6, <1>7, <1>9, <1>11

LEMMA AddedRight ==
  ASSUME FitInv, Filled, phase = "convert", NEW opt, AddOpt(opt),
         at <= Len(tkns) => opt \in OptsOfPair(tkns[at]),
         at > Len(tkns) => /\ opt.name = SpecAt.name
                           /\ \E s \in Specified : ~s.req /\ opt = Opt(s.name, s.type, s.dflt)
  PROVE  RightInv'
<1>1. Filled'
  BY AddedFilled
<1>2. phase' \in {"convert", "undefined"}
  BY DEF AddOpt
<1> QED
  BY <1>1, <1>2 DEF RightInv

LEMMA ConvertRight == FitInv /\ CutInv /\ RightInv /\ Convert => RightInv'
<1> SUFFICES ASSUME FitInv, CutInv, RightInv, Convert PROVE RightInv'
  OBVIOUS
<1>1. /\ phase = "convert" /\ goal = "opts" /\ at <= Len(tkns) /\ at \in DOMAIN tkns
      /\ ~(at > Len(tkns))
  BY TextFacts DEF Convert, FitInv
<1>2. Filled
  BY <1>1 DEF RightInv
<1>3. ASSUME NEW opt \in OptsOfPair(tkns[at]), AddOpt(opt) PROVE RightInv'
  BY <1>1, <1>2, <1>3, AddedRight
<1>4. CASE OptsOfPair(tkns[at]) = {} /\ Refuse
  <2>1. ~Acceptable(given)
    BY <1>1, <1>4, UnreadRefused
  <2>2. given' = given /\ specs' = specs /\ phase' = "refused" /\ goal' = goal
    BY <1>4 DEF Refuse, fixed
  <2> QED
    BY <2>1, <2>2, RefusedStays
<1> QED
  BY <1>3, <1>4 DEF Convert

LEMMA AddMissingRight == FitInv /\ CutInv /\ RightInv /\ AddMissing => RightInv'
<1> SUFFICES ASSUME FitInv, CutInv, RightInv, AddMissing PROVE RightInv'
  OBVIOUS
<1>1. /\ phase = "convert" /\ goal = "opts" /\ at > Len(tkns) /\ ~(at <= Len(tkns))
      /\ at - Len(tkns) \in DOMAIN specs
      /\ DOMAIN specs = 1 .. Len(specs) /\ Len(specs) \in Nat /\ Len(tkns) \in Nat /\ at \in Nat
  BY TextFacts DEF AddMissing, FitInv
<1>2. Filled
  BY <1>1 DEF RightInv
<1>3. CASE Lkp(opts, SpecAt.name) # {} /\ Skip
  <2>1. /\ at' = at + 1 /\ tkns' = tkns /\ specs' = specs /\ opts' = opts
        /\ phase' = "convert"
    BY <1>1, <1>3 DEF Skip
  <2>2. SpecAt.name \in NamesIn(opts)
    BY <1>3, LkpFinds DEF FitInv
  <2>3. ASSUME NEW i \in DOMAIN specs, i < (at + 1) - Len(tkns)
        PROVE  specs[i].name \in NamesIn(opts)
    <3>1. CASE i < at - Len(tkns)
      BY <1>2, <3>1 DEF Filled
    <3>2. CASE i = at - Len(tkns)
      BY <2>2, <3>2 DEF SpecAt
    <3> QED
      BY <1>1, <2>3, <3>1, <3>2
  <2>4. \A k \in DOMAIN tkns : k < at
    BY <1>1, TextFacts DEF FitInv
  <2>5. Specified' = Specified /\ NamesIn(opts)' = NamesIn(opts)
    BY <2>1, SameSpecified DEF NamesIn
  <2>6. ~(at + 1 <= Len(tkns) + 1)
    BY <1>1
  <2>7. Filled'
    BY <1>2, <2>1, <2>3, <2>4, <2>5, <2>6 DEF Filled, OptsOfPair
  <2> QED
    BY <2>1, <2>7 DEF RightInv
<1>4. CASE Lkp(opts, SpecAt.name) = {} /\ SpecAt.req /\ Refuse
  <2>1. ~Acceptable(given)
    BY <1>1, <1>2, <1>4, MissingRefused
  <2>2. given' = given /\ specs' = specs /\ phase' = "refused" /\ goal' = goal
    BY <1>4 DEF Refuse, fixed
  <2> QED
    BY <2>1, <2>2, RefusedStays
<1>5. CASE /\ Lkp(opts, SpecAt.name) = {} /\ ~SpecAt.req
           /\ AddOpt(Opt(SpecAt.name, SpecAt.type, SpecAt.dflt))
  <2> DEFINE opt == Opt(SpecAt.name, SpecAt.type, SpecAt.dflt)
  <2>1. SpecAt \in Specified
    BY <1>1, <1>2, <1>5, NotYet
  <2>2. opt.name = SpecAt.name
    BY DEF Opt
  <2>3. AddOpt(opt)
    BY <1>5
  <2>4. \E s \in Specified : ~s.req /\ opt = Opt(s.name, s.type, s.dflt)
    BY <1>5, <2>1
  <2> HIDE DEF opt
  <2> QED
    BY <1>1, <1>2, <2>2, <2>3, <2>4, AddedRight
<1> QED
  BY <1>3, <1>4, <1>5 DEF AddMissing

LEMMA FinishRight == FitInv /\ RightInv /\ Finish => RightInv'
<1> SUFFICES ASSUME FitInv, RightInv, Finish PROVE RightInv'
  OBVIOUS
<1>1. /\ tkns' = tkns /\ specs' = specs /\ opts' = opts /\ at' = at
      /\ goal' = goal /\ phase = "convert" /\ phase' = "done"
      /\ goal = "opts" => at > Len(tkns) + Len(specs)
  BY DEF Finish, fixed
<1>2. Specified' = Specified /\ NamesIn(opts)' = NamesIn(opts)
  BY <1>1, SameSpecified DEF NamesIn
<1>3. Filled' <=> Filled
  BY <1>1, <1>2 DEF Filled, OptsOfPair
<1> QED
  BY <1>1, <1>3 DEF RightInv

LEMMA CutRight == FitInv /\ CutInv /\ RightInv /\ Cut => RightInv'
<1> SUFFICES ASSUME FitInv, CutInv, phase = "cut", NEW text \in rest,
                    CutPiece(text) \/ CutFails(text)
             PROVE  RightInv'
  BY DEF Cut
<1>1. PICK b : StartsAt(given, b) /\ rest = {SubSeq(given, b, Len(given))}
  BY DEF CutInv
<1>2. /\ text = SubSeq(given, b, Len(given)) /\ IsText(given) /\ b \in 1 .. Len(given) + 1
  BY <1>1 DEF CutInv, StartsAt
<1>3. Piece(text) = PartAt(given, b)
  BY <1>2, CutHere
<1>4. CASE CutPiece(text)
  <2>1. phase' = "cut"
    BY <1>4 DEF CutPiece
  <2> QED
    BY <2>1, AwayFromRight
<1>5. CASE CutFails(text)
  <2>1. /\ ~Blank(PartAt(given, b))
        /\ phase' = IF TknsParse(PartAt(given, b)) = {} THEN "refused" ELSE "failed"
        /\ given' = given /\ specs' = specs /\ goal' = goal
    BY <1>3, <1>5 DEF CutFails, fixed
  <2>2. CASE TknsParse(PartAt(given, b)) = {}
    <3>1. b \in PartsOf(given)
      BY <1>1, <1>2, <2>1, NextParts
    <3>2. ~Acceptable(given)
      BY <1>2, <2>2, <3>1, BadPart DEF CutInv
    <3> QED
      BY <2>1, <2>2, <3>2, RefusedStays
  <2>3. CASE TknsParse(PartAt(given, b)) # {}
    <3>1. phase' = "failed"
      BY <2>1, <2>3
    <3> QED
      BY <3>1, AwayFromRight
  <2> QED
    BY <2>2, <2>3
<1> QED
  BY <1>4, <1>5

LEMMA StepRight == FitInv /\ CutInv /\ RightInv /\ [Next]_vars => RightInv'
<1> SUFFICES ASSUME FitInv, CutInv, RightInv, [Next]_vars PROVE RightInv'
  OBVIOUS
<1>1. CASE Cut
  BY <1>1, CutRight
<1>2. CASE Allocate
  BY <1>2, AllocateRight
<1>3. CASE Convert
  BY <1>3, ConvertRight
<1>4. CASE AddMissing
  BY <1>4, AddMissingRight
<1>5. CASE ConvertSpec
  <2>1. goal = "specs" /\ goal' = goal
    BY <1>5 DEF ConvertSpec, Refuse, fixed
  <2> QED
    BY <2>1 DEF RightInv
<1>6. CASE Finish
  BY <1>6, FinishRight
<1>7. CASE Give
  <2>1. phase' = "cut"
    BY <1>7 DEF Give, Begin
  <2> QED
    BY <2>1, AwayFromRight
<1>8. CASE WriteAndRead
  <2>1. phase' = "cut"
    BY <1>8 DEF WriteAndRead, Begin
  <2> QED
    BY <2>1, AwayFromRight
<1>9. CASE UNCHANGED vars
  BY <1>9, RightStays DEF vars
<1> QED
  BY <1>1, <1>2, <1>3, <1>4, <1>5, <1>6, <1>7, <1>8, <1>9 DEF Next

LEMMA InitRight == Init => RightInv
  BY DEF Init, RightInv

(* Once the options are done, every specification has one, and looking it   *)
(* up finds that of the first pair of the name, or the default.             *)
LEMMA DoneAcceptable ==
  ASSUME FitInv, CutInv, RightInv, goal = "opts", phase = "done"
  PROVE  Acceptable(given)
<1>1. Filled /\ at > Len(tkns) + Len(specs)
  BY DEF RightInv
<1>2. PICK from : PartsAre(given, tkns, from)
  BY AllParts DEF CutInv
<1>3. /\ \A k \in DOMAIN tkns : k < at
      /\ \A i \in DOMAIN specs : i < at - Len(tkns)
      /\ \A k \in DOMAIN opts : k \in DOMAIN tkns \/ k > Len(tkns)
  BY <1>1, TextFacts DEF FitInv
<1>4. ASSUME NEW a \in PartsOf(given)
      PROVE  \E s \in Specified : a \in SaidOf(given, s.name)
  <2>1. PICK k \in DOMAIN tkns : from[k] = a /\ tkns[k].name = NameIn(PartAt(given, a))
    BY <1>2 DEF PartsAre
  <2>2. PICK s \in Specified : s.name = tkns[k].name
    BY <1>1, <1>3, PairsPassed
  <2> QED
    BY <2>1, <2>2 DEF SaidOf
<1>5. ASSUME NEW s \in Specified, s.req PROVE SaidOf(given, s.name) # {}
  <2>1. PICK i \in DOMAIN specs : s = specs[i]
    BY DEF Specified
  <2>2. PICK k \in DOMAIN opts : opts[k].name = s.name
    BY <1>1, <1>3, <2>1 DEF Filled, NamesIn
  <2>3. CASE k \in DOMAIN tkns
    <3>1. tkns[k].name = s.name
      BY <1>1, <1>3, <2>2, <2>3, PairsPassed
    <3>2. from[k] \in SaidOf(given, s.name)
      BY <1>2, <2>3, <3>1 DEF PartsAre, SaidOf
    <3> QED
      BY <3>2
  <2>4. CASE k > Len(tkns)
    <3>1. PICK z \in Specified : ~z.req /\ opts[k] = Opt(z.name, z.type, z.dflt)
      BY <1>1, <2>4 DEF Filled
    <3>2. z.name = s.name
      BY <2>2, <3>1 DEF Opt
    <3> QED
      BY <1>5, <3>1, <3>2, OneOfName DEF FitInv
  <2> QED
    BY <1>3, <2>3, <2>4
<1>6. ASSUME NEW s \in Specified, NEW a \in SaidOf(given, s.name)
      PROVE  Readable(given, s, a)
  <2>1. a \in PartsOf(given) /\ NameIn(PartAt(given, a)) = s.name
    BY DEF SaidOf
  <2>2. PICK k \in DOMAIN tkns :
           /\ from[k] = a /\ tkns[k].name = s.name
           /\ tkns[k].value = ValueIn(PartAt(given, a)) /\ "=" \notin ToSet(tkns[k].value)
    BY <1>2, <2>1 DEF PartsAre
  <2>3. PICK z \in Specified : z.name = tkns[k].name /\ TypeParseValue(z.type, tkns[k].value) # {}
    BY <1>1, <1>3, PairsPassed
  <2>4. z = s
    BY <2>2, <2>3, OneOfName DEF FitInv
  <2> QED
    BY <2>2, <2>3, <2>4 DEF Readable
<1> QED
  BY <1>4, <1>5, <1>6 DEF Acceptable

LEMMA DoneDefault ==
  ASSUME FitInv, CutInv, RightInv, goal = "opts", phase = "done",
         NEW s \in Specified, SaidOf(given, s.name) = {}
  PROVE  {o.value : o \in Lkp(opts, s.name)} = {s.dflt}
<1>1. Filled /\ at > Len(tkns) + Len(specs)
  BY DEF RightInv
<1>2. PICK from : PartsAre(given, tkns, from)
  BY AllParts DEF CutInv
<1>3. /\ \A k \in DOMAIN tkns : k < at
      /\ \A i \in DOMAIN specs : i < at - Len(tkns)
      /\ \A k \in DOMAIN opts : k \in DOMAIN tkns \/ k > Len(tkns)
  BY <1>1, TextFacts DEF FitInv
<1>4. s.name \in NamesIn(opts)
  <2>1. PICK i \in DOMAIN specs : s = specs[i]
    BY DEF Specified
  <2> QED
    BY <1>1, <1>3, <2>1 DEF Filled
<1>5. PICK m \in DOMAIN opts : opts[m].name = s.name /\ \A j \in 1 .. m - 1 : opts[j].name # s.name
  BY <1>4, FirstNamed DEF FitInv
<1>6. Lkp(opts, s.name) = {opts[m]}
  BY <1>5, LkpIs DEF FitInv
<1>7. m \notin DOMAIN tkns
  <2> SUFFICES ASSUME m \in DOMAIN tkns PROVE FALSE
    OBVIOUS
  <2>1. tkns[m].name = s.name
    BY <1>1, <1>3, <1>5, PairsPassed
  <2>2. from[m] \in SaidOf(given, s.name)
    BY <1>2, <2>1 DEF PartsAre, SaidOf
  <2> QED
    BY <2>2
<1>8. PICK z \in Specified : opts[m] = Opt(z.name, z.type, z.dflt)
  BY <1>1, <1>3, <1>7 DEF Filled
<1>9. z = s
  <2>1. z.name = s.name
    BY <1>5, <1>8 DEF Opt
  <2> QED
    BY <2>1, OneOfName DEF FitInv
<1>10. opts[m].value = s.dflt
  BY <1>8, <1>9 DEF Opt
<1> QED
  BY <1>6, <1>10

LEMMA DoneGiven ==
  ASSUME FitInv, CutInv, RightInv, goal = "opts", phase = "done",
         NEW s \in Specified, SaidOf(given, s.name) # {}
  PROVE  {o.value : o \in Lkp(opts, s.name)} =
             TypeParseValue(s.type, ValueIn(PartAt(given, Min(SaidOf(given, s.name)))))
<1> DEFINE said == SaidOf(given, s.name)
           a == Min(said)
<1>1. Filled /\ at > Len(tkns) + Len(specs)
  BY DEF RightInv
<1>2. PICK from : PartsAre(given, tkns, from)
  BY AllParts DEF CutInv
<1>3. \A k \in DOMAIN tkns : k < at /\ k \in Nat /\ k >= 1
  BY <1>1, TextFacts DEF FitInv
<1>4. a \in said /\ \A b \in said : a <= b
  <2>1. said \in SUBSET Nat
    BY <1>2 DEF SaidOf, PartsAre
  <2>2. said # {}
    OBVIOUS
  <2> HIDE DEF said
  <2> QED
    BY <2>1, <2>2, LeastElement
<1> HIDE DEF a
<1>5. a \in PartsOf(given) /\ NameIn(PartAt(given, a)) = s.name
  BY <1>4 DEF SaidOf
<1>6. PICK k \in DOMAIN tkns :
         /\ from[k] = a /\ tkns[k].name = s.name
         /\ tkns[k].value = ValueIn(PartAt(given, a))
  BY <1>2, <1>5 DEF PartsAre
<1>7. k \in DOMAIN opts /\ opts[k].name = s.name
  BY <1>1, <1>3, <1>6, PairsPassed
<1>8. PICK m \in DOMAIN opts : opts[m].name = s.name /\ \A j \in 1 .. m - 1 : opts[j].name # s.name
  <2>1. s.name \in NamesIn(opts)
    BY <1>7 DEF NamesIn
  <2> QED
    BY <2>1, FirstNamed DEF FitInv
<1>9. Lkp(opts, s.name) = {opts[m]}
  BY <1>8, LkpIs DEF FitInv
<1>10. m \in 1 .. k
  <2>1. k \notin 1 .. m - 1
    BY <1>7, <1>8
  <2>2. m \in Nat /\ m >= 1
    BY TextFacts DEF FitInv
  <2> QED
    BY <1>3, <2>1, <2>2
<1>11. m = k
  <2> SUFFICES ASSUME m # k PROVE FALSE
    OBVIOUS
  <2>1. m < k /\ m \in DOMAIN tkns
    BY <1>3, <1>10, TextFacts DEF FitInv
  <2>2. tkns[m].name = s.name
    BY <1>1, <1>3, <1>8, <2>1, PairsPassed
  <2>3. from[m] \in said
    BY <1>2, <2>1, <2>2 DEF PartsAre, SaidOf
  <2>4. from[m] < a /\ from[m] \in Nat /\ a \in Nat
    BY <1>2, <1>6, <2>1 DEF PartsAre
  <2> QED
    BY <1>4, <2>3, <2>4
<1>12. PICK z \in Specified : \E v \in TypeParseValue(z.type, tkns[k].value) :
               z.name = tkns[k].name /\ opts[k] = Opt(z.name, z.type, v)
  BY <1>1, <1>3, PairsPassed
<1>13. z = s
  BY <1>6, <1>12, OneOfName DEF FitInv
<1>14. PICK v \in TypeParseValue(s.type, tkns[k].value) : opts[k] = Opt(s.name, s.type, v)
  BY <1>12, <1>13
<1>15. \A u, w \in TypeParseValue(s.type, tkns[k].value) : u = w
  <2>1. s.type \in OptTypes
    BY DEF Specified, CutInv, SpecValid
  <2>2. IsText(tkns[k].value)
    BY PairsText DEF CutInv
  <2> QED
    BY <2>1, <2>2, ValueRead
<1>16. TypeParseValue(s.type, tkns[k].value) = {v}
  BY <1>14, <1>15
<1>17. opts[m].value = v
  BY <1>11, <1>14 DEF Opt
<1> QED
  BY <1>6, <1>9, <1>16, <1>17 DEF a

LEMMA RightIsRight == FitInv /\ CutInv /\ RightInv => OptionsRight
<1> SUFFICES ASSUME FitInv, CutInv, RightInv, goal = "opts"
             PROVE  /\ phase = "refused" => ~Acceptable(given)
                    /\ phase = "done" =>
                         /\ Acceptable(given)
                         /\ \A s \in Specified :
                               LET said == SaidOf(given, s.name)
                               IN  {o.value : o \in Lkp(opts, s.name)} =
                                     IF said = {} THEN {s.dflt}
                                     ELSE TypeParseValue(s.type, ValueIn(PartAt(given, Min(said))))
  BY DEF OptionsRight
<1>1. phase = "refused" => ~Acceptable(given)
  BY DEF RightInv
<1>2. phase = "done" => Acceptable(given)
  BY DoneAcceptable
<1>3. ASSUME phase = "done", NEW s \in Specified
      PROVE  LET said == SaidOf(given, s.name)
             IN  {o.value : o \in Lkp(opts, s.name)} =
                   IF said = {} THEN {s.dflt}
                   ELSE TypeParseValue(s.type, ValueIn(PartAt(given, Min(said))))
  BY <1>3, DoneDefault, DoneGiven
<1> QED
  BY <1>1, <1>2, <1>3

(* hidrd_opt_list_parse() accepts a text exactly when every part of it      *)
(* names an option there is and gives it a value that its type reads, and   *)
(* what is required is given; and then hidrd_opt_list_lkp() finds the value *)
(* that was given, the first if specifications share its name, or else the  *)
(* default: for every list of specifications and every text.                *)
THEOREM OptionsReadRight == Spec => []OptionsRight
<1>1. Init => FitInv /\ CutInv /\ RightInv
  BY InitFits, CutInvInit, InitRight
<1>2. FitInv /\ CutInv /\ RightInv /\ [Next]_vars => (FitInv /\ CutInv /\ RightInv)'
  BY StepKeepsFit, StepCuts, StepRight
<1>3. FitInv /\ CutInv /\ RightInv => OptionsRight
  BY RightIsRight
<1> QED
  BY <1>1, <1>2, <1>3, PTL DEF Spec

------------------------------------------------------------------------------
(* Figures are neither space nor signs, and what is written is solid.       *)
LEMMA FigureIs ==
  ASSUME NEW c, IsFigure(c, 10)
  PROVE  /\ c \notin {" ", "-", "+", "=", "?", "'", "end"}
         /\ c \in {"0", "1", "2", "3", "4", "5", "6", "7", "8", "9"}
<1>1. PICK i \in 1 .. 10 : c = Figure[i]
  BY DEF IsFigure
<1>2. Figure[i] \in {"0", "1", "2", "3", "4", "5", "6", "7", "8", "9"}
  <2>1. /\ Figure[1] = "0" /\ Figure[2] = "1" /\ Figure[3] = "2" /\ Figure[4] = "3"
        /\ Figure[5] = "4" /\ Figure[6] = "5" /\ Figure[7] = "6" /\ Figure[8] = "7"
        /\ Figure[9] = "8" /\ Figure[10] = "9"
    BY DEF Figure
  <2>2. i = 1 \/ i = 2 \/ i = 3 \/ i = 4 \/ i = 5 \/ i = 6 \/ i = 7 \/ i = 8 \/ i = 9 \/ i = 10
    OBVIOUS
  <2> QED
    BY <2>1, <2>2
<1> QED
  BY <1>1, <1>2

LEMMA FindEndIs ==
  ASSUME NEW t, IsText(t), Len(t) >= 1, ~IsSpace(t[Len(t)])
  PROVE  FindEnd(t, "NONE", 10) = {[end |-> Len(t) + 1, base |-> 10]}
<1> DEFINE solid == {i \in DOMAIN t : ~IsSpace(t[i])}
           n == Len(t)
<1>1. n \in Nat /\ DOMAIN t = 1 .. n
  BY TextFacts
<1>2. solid \in SUBSET Int /\ n \in solid /\ \A y \in solid : y <= n
  BY <1>1
<1>3. FindEnd(t, "NONE", 10) = IF solid = {} THEN {} ELSE {[end |-> Max(solid) + 1, base |-> 10]}
  BY DEF FindEnd
<1> HIDE DEF solid
<1>4. Max(solid) = n
  BY <1>2, GreatestIs
<1> QED
  BY <1>2, <1>3, <1>4

(* The number that a text with a sign, if any, and figures is read to.      *)
LEMMA FiguresRead ==
  ASSUME NEW t, IsText(t), NEW first \in {1, 2}, NEW n \in Nat,
         FiguresSay(SubSeq(t, first, Len(t)), n),
         first = 2 => t[1] = "-"
  PROVE  /\ Converted(t, 1, "NONE", 10) = {IF first = 2 THEN -n ELSE n}
         /\ SpaceEnd(t, 1) = 1
         /\ first = 1 => At(t, 1) # "-"
<1> DEFINE w == SubSeq(t, first, Len(t))
           m == Len(t)
           num == IF first = 2 THEN -n ELSE n
<1>1. m \in Nat /\ DOMAIN t = 1 .. m
  BY TextFacts
<1>2. FiguresSay(w, n)
  OBVIOUS
<1>3. /\ IsText(w)
      /\ first <= m + 1 => Len(w) = m + 1 - first
      /\ m + 1 <= first => w = <<>>
      /\ DOMAIN w = 1 .. Len(w)
      /\ \A i \in DOMAIN w : w[i] = t[first + i - 1]
  <2> DEFINE e == m + 1
  <2>1. e \in Nat /\ e <= m + 1 /\ first \in Nat /\ first >= 1 /\ w = SubSeq(t, first, e - 1)
    BY <1>1
  <2> HIDE DEF e, w
  <2>2. /\ IsText(SubSeq(t, first, e - 1))
        /\ first <= e => Len(SubSeq(t, first, e - 1)) = e - first
        /\ e <= first => SubSeq(t, first, e - 1) = <<>>
        /\ DOMAIN SubSeq(t, first, e - 1) = 1 .. Len(SubSeq(t, first, e - 1))
        /\ \A i \in DOMAIN SubSeq(t, first, e - 1) : SubSeq(t, first, e - 1)[i] = t[first + i - 1]
    BY <2>1, PartFacts
  <2> QED
    BY <2>1, <2>2 DEF e
<1> HIDE DEF w
<1>4. Len(w) >= 1 /\ (\A i \in DOMAIN w : IsFigure(w[i], 10)) /\ ValueOf(w, 10) = n
  BY <1>2 DEF FiguresSay
<1>5. first <= m /\ \A j \in first .. m : IsFigure(t[j], 10)
  <2>1. Len(<<>>) = 0
    OBVIOUS
  <2>2. first <= m
    BY <1>1, <1>3, <1>4, <2>1
  <2>3. Len(w) = m + 1 - first
    BY <1>1, <1>3, <2>2
  <2> HIDE DEF m
  <2>4. ASSUME NEW j \in first .. m PROVE IsFigure(t[j], 10)
    <3> DEFINE i == j - first + 1
    <3>1. i \in DOMAIN w /\ first + i - 1 = j
      BY <1>1, <1>3, <2>3
    <3> HIDE DEF i
    <3>2. w[i] = t[j]
      BY <1>3, <3>1
    <3> QED
      BY <1>4, <3>1, <3>2
  <2> QED
    BY <2>2, <2>4
<1>6. ~IsSpace(t[1]) /\ ~IsSpace(t[m]) /\ t[1] # "+" /\ (first = 1 => t[1] # "-")
  <2>1. IsFigure(t[m], 10) /\ (first = 1 => IsFigure(t[1], 10))
    BY <1>1, <1>5
  <2> HIDE DEF m
  <2>2. CASE first = 1
    BY <2>1, <2>2, FigureIs DEF IsSpace
  <2>3. CASE first = 2
    BY <2>1, <2>3, FigureIs DEF IsSpace
  <2> QED
    BY <2>2, <2>3
<1>7. SpaceEnd(t, 1) = 1
  <2>1. EndsAt(SpaceEnd(t, 1), 1, m, Spaces(t))
    BY <1>1, SpaceEnds
  <2>2. EndsAt(1, 1, m, Spaces(t))
    BY <1>1, <1>6 DEF EndsAt, Spaces
  <2> QED
    BY <1>1, <2>1, <2>2, RunEnds
<1>8. At(t, 1) = t[1]
  BY <1>1, <1>5 DEF At
<1>9. FigureEnd(t, first, 10) = m + 1
  <2>1. EndsAt(FigureEnd(t, first, 10), first, m, FiguresIn(t, 10))
    BY <1>1, <1>5, FigureEnds
  <2>2. EndsAt(m + 1, first, m, FiguresIn(t, 10))
    BY <1>1, <1>5 DEF EndsAt, FiguresIn
  <2> QED
    BY <1>1, <1>5, <2>1, <2>2, RunEnds
<1>10. Strtol(t, 1, 10) = [end |-> m + 1, num |-> num]
  <2> DEFINE minus == At(t, 1) = "-"
             sign == SpaceEnd(t, 1)
             from == IF At(t, 1) \in {"+", "-"} THEN 2 ELSE 1
             to == FigureEnd(t, first, 10)
             v == ValueOf(SubSeq(t, first, to - 1), 10)
  <2>1. Strtol(t, 1, 10) = StrtolAt(t, 1, sign, 10)
    BY DEF Strtol, SpaceEnd
  <2> HIDE DEF sign
  <2>2. sign = 1
    BY <1>7 DEF sign
  <2>3. StrtolAt(t, 1, 1, 10) = StrtolSigned(t, 1, minus, from, 10)
    BY DEF StrtolAt
  <2>4. (first = 2 => minus) /\ (first = 1 => ~minus) /\ from = first
    BY <1>6, <1>8
  <2> HIDE DEF minus, from
  <2>5. StrtolSigned(t, 1, minus, first, 10) = StrtolFigures(t, 1, minus, first, 10)
    BY DEF StrtolSigned
  <2>6. StrtolFigures(t, 1, minus, first, 10) =
          IF first = to THEN [end |-> 1, num |-> 0]
          ELSE [end |-> to, num |-> (IF minus THEN -1 ELSE 1) * v]
    BY DEF StrtolFigures, FigureEnd
  <2>7. v = n /\ to = m + 1 /\ first # to
    <3>1. to = m + 1
      BY <1>9
    <3>2. to - 1 = m /\ first # to
      BY <1>1, <1>5, <3>1
    <3> HIDE DEF to
    <3> QED
      BY <1>4, <3>1, <3>2 DEF w
  <2> HIDE DEF v, to
  <2>8. (-1) * n = -n /\ 1 * n = n
    OBVIOUS
  <2>9. (IF minus THEN -1 ELSE 1) * n = num
    <3>1. CASE first = 2
      <4>1. (IF minus THEN -1 ELSE 1) = -1
        BY <2>4, <3>1
      <4> QED
        BY <2>8, <3>1, <4>1
    <3>2. CASE first = 1
      <4>1. (IF minus THEN -1 ELSE 1) = 1
        BY <2>4, <3>2
      <4> QED
        BY <2>8, <3>2, <4>1
    <3> QED
      BY <3>1, <3>2
  <2> HIDE DEF num, m
  <2>10. Strtol(t, 1, 10) = [end |-> m + 1, num |-> (IF minus THEN -1 ELSE 1) * n]
    BY <2>1, <2>2, <2>3, <2>4, <2>5, <2>6, <2>7
  <2> QED
    BY <2>9, <2>10
<1> HIDE DEF m, num
<1>11. FindEnd(t, "NONE", 10) = {[end |-> m + 1, base |-> 10]}
  BY <1>1, <1>5, <1>6, FindEndIs DEF m
<1>12. StrtolBase("NONE", [end |-> m + 1, base |-> 10]) = 10
  BY DEF StrtolBase
<1>13. Converted(t, 1, "NONE", 10) = {num}
  <2> DEFINE found == [end |-> m + 1, base |-> 10]
             r == Strtol(t, 1, 10)
  <2>1. Converted(t, 1, "NONE", 10) =
          UNION {{k.num : k \in {q \in {Strtol(t, 1, StrtolBase("NONE", g))} : q.end = g.end}} :
                    g \in {found}}
    BY <1>11 DEF Converted
  <2>2. found.end = m + 1 /\ r.end = m + 1 /\ r.num = num /\ StrtolBase("NONE", found) = 10
    BY <1>10, <1>12
  <2> HIDE DEF found, r
  <2>3. {q \in {r} : q.end = m + 1} = {r}
    BY <2>2
  <2>4. Strtol(t, 1, StrtolBase("NONE", found)) = r
    BY <2>2 DEF r
  <2> QED
    BY <2>1, <2>2, <2>3, <2>4
<1> QED
  BY <1>6, <1>7, <1>8, <1>13 DEF num

(* What a trimmed text is.                                                  *)
Ends(t) == t # <<>> => ~IsSpace(t[1]) /\ ~IsSpace(t[Len(t)])

LEMMA WholeText ==
  ASSUME NEW t, IsText(t)
  PROVE  SubSeq(t, 1, Len(t)) = t /\ (t = <<>> <=> Len(t) = 0)
<1>1. t \in Seq(ToSet(t))
  BY DEF IsText
<1> QED
  BY <1>1

LEMMA TrimmedEnds ==
  ASSUME NEW t, IsText(t)
  PROVE  Ends(Trimmed(t))
<1> DEFINE solid == {i \in DOMAIN t : ~IsSpace(t[i])}
           n == Len(t)
<1>1. n \in Nat /\ DOMAIN t = 1 .. n
  BY TextFacts
<1>2. CASE solid = {}
  BY <1>2 DEF Trimmed, Ends
<1>3. CASE solid # {}
  <2>1. solid \in SUBSET Nat /\ solid \in SUBSET (0 .. n)
    BY <1>1
  <2>2. Trimmed(t) = SubSeq(t, Min(solid), Max(solid))
    BY <1>3 DEF Trimmed
  <2> HIDE DEF solid
  <2>3. Min(solid) \in solid /\ Max(solid) \in solid /\ \A y \in solid : Min(solid) <= y
    BY <1>1, <1>3, <2>1, LeastElement, GreatestElement
  <2> DEFINE l == Min(solid)
             e == Max(solid) + 1
             p == SubSeq(t, l, e - 1)
  <2>4. l \in solid /\ e - 1 \in solid /\ l <= e - 1 /\ p = Trimmed(t)
    <3>1. Max(solid) \in Nat
      BY <2>1, <2>3
    <3>2. e - 1 = Max(solid)
      BY <3>1
    <3> QED
      BY <2>2, <2>3, <3>2
  <2> HIDE DEF l, e
  <2>5. /\ l \in Nat /\ l >= 1 /\ e \in Nat /\ e <= n + 1 /\ l <= e
        /\ ~IsSpace(t[l]) /\ ~IsSpace(t[e - 1])
    <3>1. l \in 1 .. n /\ e - 1 \in 1 .. n /\ ~IsSpace(t[l]) /\ ~IsSpace(t[e - 1])
      BY <1>1, <2>4 DEF solid
    <3>2. e \in Int
      <4>1. Max(solid) \in Nat
        BY <2>1, <2>3
      <4> QED
        BY <4>1 DEF e
    <3> QED
      BY <1>1, <2>4, <3>1, <3>2
  <2>6. /\ Len(p) = e - l /\ DOMAIN p = 1 .. Len(p)
        /\ \A i \in DOMAIN p : p[i] = t[l + i - 1]
    BY <2>5, PartFacts
  <2> HIDE DEF p, n
  <2>7. 1 \in DOMAIN p /\ Len(p) \in DOMAIN p /\ l + 1 - 1 = l /\ l + Len(p) - 1 = e - 1
    BY <2>4, <2>5, <2>6
  <2>8. p[1] = t[l] /\ p[Len(p)] = t[e - 1]
    BY <2>6, <2>7
  <2> QED
    BY <2>4, <2>5, <2>8 DEF Ends
<1> QED
  BY <1>2, <1>3

LEMMA EndsTrimmed ==
  ASSUME NEW t, IsText(t), Ends(t)
  PROVE  Trimmed(t) = t
<1> DEFINE e == Len(t) + 1
<1>1. Len(t) \in Nat /\ SubSeq(t, 1, Len(t)) = t /\ (t = <<>> <=> Len(t) = 0)
  BY TextFacts, WholeText
<1>2. 1 \in Nat /\ 1 >= 1 /\ e \in Nat /\ 1 <= e /\ e <= Len(t) + 1 /\ e - 1 = Len(t)
  BY <1>1
<1>3. Solid(t, 1, e, 1, e)
  BY <1>1 DEF Solid, Ends
<1> HIDE DEF e
<1>4. Trimmed(SubSeq(t, 1, e - 1)) = SubSeq(t, 1, e - 1)
  BY <1>2, <1>3, TrimIs
<1> QED
  BY <1>1, <1>2, <1>4

LEMMA PlainIs ==
  ASSUME NEW t, IsText(t)
  PROVE  Plain(t) <=> TknValid(t) /\ Ends(t)
<1>1. Plain(t) => Ends(t)
  <2> SUFFICES ASSUME Trimmed(t) = t PROVE Ends(t)
    BY DEF Plain
  <2> QED
    BY TrimmedEnds
<1> QED
  BY <1>1, EndsTrimmed DEF Plain

LEMMA TknValidIs ==
  ASSUME NEW t
  PROVE  TknValid(t) <=> "=" \notin ToSet(t) /\ NoCommas(t)
  BY Zenon DEF TknValid, NoCommas

(* A written value is read back.                                            *)
LEMMA BooleanRead ==
  /\ BoolFromStr(<<"true">>) = {TRUE}
  /\ BoolFromStr(<<"false">>) = {FALSE}
<1>1. ASSUME NEW w \in {"true", "false"} PROVE FindTkn(<<w>>) = {<<w>>}
  <2> DEFINE t == <<w>>
  <2>1. IsText(t) /\ Len(t) = 1 /\ t[1] = w /\ DOMAIN t = {1} /\ t # <<>>
    BY ShortTexts
  <2>2. ~IsSpace(w)
    BY DEF IsSpace
  <2> HIDE DEF t
  <2>3. Trimmed(t) = t
    BY <2>1, <2>2, EndsTrimmed DEF Ends
  <2>4. w \notin {" ", "+", "-", ","}
    BY Zenon
  <2>5. \A i \in DOMAIN t : t[i] \notin {" ", "+", "-", ","}
    BY <2>1, <2>4, Zenon
  <2>6. FindTkn(t) = {t}
    BY <2>1, <2>3, <2>5, Zenon DEF FindTkn
  <2> QED
    BY <2>6 DEF t
<1>2. <<"true">> \in Yes /\ <<"false">> \in No /\ <<"false">> \notin Yes
  BY DEF Yes, No
<1>3. \A k \in Yes \cup No :
        FindTkn(k) = {k} =>
           BoolFromStr(k) = {(k \in Yes \/ (k \notin No /\ \E i \in DOMAIN k : k[i] # "0"))}
  BY Zenon DEF BoolFromStr
<1>4. FindTkn(<<"true">>) = {<<"true">>} /\ FindTkn(<<"false">>) = {<<"false">>}
  BY <1>1
<1> QED
  BY <1>2, <1>3, <1>4, Zenon

(* The figures of a number, with a minus sign or without.                   *)
SignedFigures(n) ==
    (IF n < 0 THEN <<"-">> ELSE <<>>) \o Figures(IF n < 0 THEN -n ELSE n, 10, 1)

SignedSay(t, first, magnitude) ==
    /\ IsText(t) /\ Len(t) >= 1 /\ DOMAIN t = 1 .. Len(t) /\ Len(t) \in Nat
    /\ FiguresSay(SubSeq(t, first, Len(t)), magnitude)
    /\ first = 2 => t[1] = "-"
    /\ \A i \in DOMAIN t : t[i] = "-" \/ IsFigure(t[i], 10)

LEMMA NumberText ==
  ASSUME NEW n \in Int
  PROVE  SignedSay(SignedFigures(n), IF n < 0 THEN 2 ELSE 1, IF n < 0 THEN -n ELSE n)
<1> DEFINE mag == IF n < 0 THEN -n ELSE n
           w == Figures(mag, 10, 1)
           t == SignedFigures(n)
<1>1. mag \in Nat
  OBVIOUS
<1>2. t = (IF n < 0 THEN <<"-">> ELSE <<>>) \o w
  BY DEF SignedFigures
<1> HIDE DEF mag
<1>3. FiguresSay(w, mag)
  BY <1>1, FiguresText
<1> HIDE DEF w, t
<1>4. IsText(w) /\ Len(w) >= 1 /\ \A i \in DOMAIN w : IsFigure(w[i], 10)
  BY <1>3 DEF FiguresSay
<1>5. Len(w) \in Nat /\ DOMAIN w = 1 .. Len(w) /\ SubSeq(w, 1, Len(w)) = w
  BY <1>4, TextFacts, WholeText
<1>6. CASE n < 0
  <2> DEFINE S == ToSet(w) \cup {"-"}
  <2>1. w \in Seq(S) /\ <<"-">> \in Seq(S)
    BY <1>4 DEF IsText
  <2>2. t = <<"-">> \o w
    BY <1>2, <1>6
  <2> HIDE DEF S
  <2>3. /\ t \in Seq(S) /\ Len(t) = Len(w) + 1 /\ t[1] = "-"
        /\ \A i \in 1 .. Len(w) : t[i + 1] = w[i]
    BY <1>5, <2>1, <2>2
  <2>4. IsText(t)
    BY <2>3, SeqIsText
  <2>5. DOMAIN t = 1 .. Len(t)
    BY <2>4, TextFacts
  <2>6. SubSeq(t, 2, Len(t)) = w
    <3> DEFINE p == SubSeq(t, 2, Len(t))
    <3>1. p \in Seq(S) /\ Len(p) = Len(w) /\ \A i \in 1 .. Len(w) : p[i] = t[i + 1]
      BY <1>5, <2>3
    <3> HIDE DEF p
    <3>2. \A i \in 1 .. Len(w) : p[i] = w[i]
      BY <2>3, <3>1
    <3>3. p = w
      BY <1>5, <2>1, <3>1, <3>2
    <3> QED
      BY <3>3 DEF p
  <2>7. \A i \in DOMAIN t : t[i] = "-" \/ IsFigure(t[i], 10)
    <3> SUFFICES ASSUME NEW i \in DOMAIN t, i # 1 PROVE IsFigure(t[i], 10)
      BY <2>3
    <3> DEFINE j == i - 1
    <3>1. j \in 1 .. Len(w) /\ j + 1 = i
      BY <1>5, <2>3, <2>5
    <3> HIDE DEF j
    <3>2. t[i] = w[j]
      BY <2>3, <3>1
    <3> QED
      BY <1>4, <1>5, <3>1, <3>2
  <2>8. Len(t) >= 1 /\ Len(t) \in Nat
    BY <1>5, <2>3
  <2>9. SignedSay(t, 2, mag)
    BY <1>3, <2>3, <2>4, <2>5, <2>6, <2>7, <2>8 DEF SignedSay
  <2> QED
    BY <1>6, <2>9 DEF t, mag
<1>7. CASE ~(n < 0)
  <2>1. t = <<>> \o w
    BY <1>2, <1>7
  <2>2. w \in Seq(ToSet(w))
    BY <1>4 DEF IsText
  <2>3. t = w
    BY <2>1, <2>2
  <2>4. SignedSay(w, 1, mag)
    <3>1. FiguresSay(SubSeq(w, 1, Len(w)), mag)
      BY <1>3, <1>5, Zenon
    <3>2. ~(1 = 2)
      OBVIOUS
    <3> QED
      BY <1>4, <1>5, <3>1, <3>2, Zenon DEF SignedSay
  <2> QED
    BY <1>7, <2>3, <2>4 DEF t, mag
<1> QED
  BY <1>6, <1>7

LEMMA NumberRead ==
  ASSUME NEW n \in Int
  PROVE  LET t == SignedFigures(n)
         IN  /\ n \in Least("s32") .. Most("s32") => FromRepr("s32", t, "dec") = {n}
             /\ n \in 0 .. Most("u32") => FromRepr("u32", t, "dec") = {n}
<1> DEFINE t == SignedFigures(n)
           first == IF n < 0 THEN 2 ELSE 1
           mag == IF n < 0 THEN -n ELSE n
<1>1. /\ IsText(t) /\ FiguresSay(SubSeq(t, first, Len(t)), mag)
      /\ first = 2 => t[1] = "-"
  BY NumberText DEF SignedSay
<1>2. /\ mag \in Nat /\ first \in {1, 2} /\ (IF first = 2 THEN -mag ELSE mag) = n
      /\ n >= 0 => first = 1
  OBVIOUS
<1> HIDE DEF t, first, mag
<1>3. /\ Converted(t, 1, "NONE", 10) = {n}
      /\ SpaceEnd(t, 1) = 1
      /\ first = 1 => At(t, 1) # "-"
  <2>1. /\ Converted(t, 1, "NONE", 10) = {IF first = 2 THEN -mag ELSE mag}
        /\ SpaceEnd(t, 1) = 1
        /\ first = 1 => At(t, 1) # "-"
    BY <1>1, <1>2, FiguresRead
  <2> QED
    BY <1>2, <2>1
<1>4. ASSUME n \in Least("s32") .. Most("s32") PROVE FromRepr("s32", t, "dec") = {n}
  <2>1. n <= Most("s32") /\ n >= Least("s32") /\ Least("s32") <= n
    BY <1>4
  <2>2. FromRepr("s32", t, "dec") = SFromStr("s32", t, "NONE", 10)
    BY DEF FromRepr, Parsed, Mark, Base, Signed
  <2>3. Within("s32", n)
    BY <2>1 DEF Within
  <2>4. S32FromStr(t, "NONE", 10) = {n}
    BY <1>3, <2>3 DEF S32FromStr
  <2> QED
    BY <2>1, <2>2, <2>4 DEF SFromStr
<1>5. ASSUME n \in 0 .. Most("u32") PROVE FromRepr("u32", t, "dec") = {n}
  <2>1. n <= Most("u32") /\ n >= 0
    BY <1>5
  <2>2. FromRepr("u32", t, "dec") = UFromStr("u32", t, "NONE", 10)
    BY DEF FromRepr, Parsed, Mark, Base, Signed
  <2>3. RunEnd(t, 1, IsSpace) = 1
    BY <1>3 DEF SpaceEnd
  <2>4. U32FromStr(t, "NONE", 10) = {n}
    BY <1>2, <1>3, <2>1, <2>3 DEF U32FromStr
  <2> QED
    BY <2>1, <2>2, <2>4 DEF UFromStr
<1> QED
  BY <1>4, <1>5 DEF t

(* What is written of a value that can be written can be, too.              *)
Unmarked(t) == \A i \in DOMAIN t : ~IsMarker(t[i])

LEMMA NumberPlain ==
  ASSUME NEW n \in Int
  PROVE  LET t == SignedFigures(n) IN Plain(t) /\ Unmarked(t) /\ t # <<>>
<1> DEFINE t == SignedFigures(n)
<1>1. /\ IsText(t) /\ Len(t) >= 1 /\ DOMAIN t = 1 .. Len(t) /\ Len(t) \in Nat
      /\ \A i \in DOMAIN t : t[i] = "-" \/ IsFigure(t[i], 10)
  BY NumberText DEF SignedSay
<1> HIDE DEF t
<1>2. \A i \in DOMAIN t : t[i] \notin {" ", "=", "?", "'", "end"}
  BY <1>1, FigureIs
<1>3. NoCommas(t)
  <2>1. \A c : c = "-" \/ IsFigure(c, 10) => ~(c = ",")
    <3>1. \A c : IsFigure(c, 10) => c \in {"0", "1", "2", "3", "4", "5", "6", "7", "8", "9"}
      BY FigureIs
    <3>2. ~("-" = ",") /\ \A c \in {"0", "1", "2", "3", "4", "5", "6", "7", "8", "9"} : ~(c = ",")
      BY Zenon
    <3> QED
      BY <3>1, <3>2, Zenon
  <2> QED
    BY <1>1, <2>1, Zenon DEF NoCommas, ToSet
<1>4. "=" \notin ToSet(t)
  BY <1>2 DEF ToSet
<1>5. Ends(t)
  <2>1. 1 \in DOMAIN t /\ Len(t) \in DOMAIN t
    BY <1>1
  <2> QED
    BY <1>2, <2>1 DEF Ends, IsSpace
<1>6. Plain(t)
  BY <1>1, <1>3, <1>4, <1>5, PlainIs, TknValidIs
<1>7. Unmarked(t)
  BY <1>2 DEF Unmarked, IsMarker
<1>8. t # <<>>
  <2>1. Len(<<>>) = 0
    OBVIOUS
  <2> QED
    BY <1>1, <2>1
<1> QED
  BY <1>6, <1>7, <1>8 DEF t

LEMMA UnsignedFigures ==
  ASSUME NEW n \in Int, ~(n < 0)
  PROVE  SignedFigures(n) = Figures(n, 10, 1)
<1> DEFINE w == Figures(n, 10, 1)
<1>1. n \in Nat
  OBVIOUS
<1>2. IsText(w)
  BY <1>1, FiguresText DEF FiguresSay
<1>3. SignedFigures(n) = <<>> \o w
  BY DEF SignedFigures
<1> HIDE DEF w
<1>4. w \in Seq(ToSet(w))
  BY <1>2 DEF IsText
<1>5. <<>> \o w = w
  BY <1>4
<1> QED
  BY <1>3, <1>5 DEF w

(* A value is read back from what is written of it.                         *)
LEMMA ValueReadBack ==
  ASSUME NEW type \in OptTypes, NEW v, ValueValid(type, v)
  PROVE  TypeParseValue(type, TypeFormatValue(type, v)) = {v}
<1>1. v = Value(v.num, v.str) /\ v.num \in NumbersOf(type) /\ (type # "s" => v.str = <<>>)
  BY DEF ValueValid
<1>2. CASE type = "s"
  <2>1. v.num = 0 /\ v = Value(0, v.str)
    BY <1>1, <1>2 DEF NumbersOf
  <2>2. TypeFormatValue(type, v) = v.str /\ TypeParseValue(type, v.str) = {Value(0, v.str)}
    BY <1>2 DEF TypeFormatValue, TypeParseValue
  <2> QED
    BY <2>1, <2>2
<1>3. CASE type = "b"
  <2>1. v.num \in {0, 1} /\ v = Value(v.num, <<>>)
    BY <1>1, <1>3 DEF NumbersOf
  <2>2. TypeFormatValue(type, v) = <<IF v.num # 0 THEN "true" ELSE "false">>
    BY <1>3 DEF TypeFormatValue
  <2>3. \A t : TypeParseValue(type, t) = {Value(IF b THEN 1 ELSE 0, <<>>) : b \in BoolFromStr(t)}
    BY <1>3 DEF TypeParseValue
  <2>4. CASE v.num = 1
    <3>1. TypeFormatValue(type, v) = <<"true">>
      BY <2>2, <2>4
    <3>2. TypeParseValue(type, <<"true">>) = {Value(1, <<>>)}
      <4>1. {Value(IF b THEN 1 ELSE 0, <<>>) : b \in {TRUE}} = {Value(1, <<>>)}
        BY Zenon
      <4> QED
        BY <2>3, <4>1, BooleanRead
    <3> QED
      BY <2>1, <2>4, <3>1, <3>2
  <2>5. CASE v.num = 0
    <3>1. TypeFormatValue(type, v) = <<"false">>
      BY <2>2, <2>5
    <3>2. TypeParseValue(type, <<"false">>) = {Value(0, <<>>)}
      <4>1. {Value(IF b THEN 1 ELSE 0, <<>>) : b \in {FALSE}} = {Value(0, <<>>)}
        BY Zenon
      <4>2. BoolFromStr(<<"false">>) = {FALSE}
        BY BooleanRead
      <4> QED
        BY <2>3, <4>1, <4>2
    <3> QED
      BY <2>1, <2>5, <3>1, <3>2
  <2> QED
    BY <2>1, <2>4, <2>5
<1>4. CASE type = "S"
  <2> DEFINE n == v.num
             t == TypeFormatValue(type, v)
  <2>1. n \in Least("s32") .. Most("s32") /\ v = Value(n, <<>>)
    BY <1>1, <1>4 DEF NumbersOf
  <2>2. t = ToRepr("s32", n, "dec")
    BY <1>4 DEF TypeFormatValue
  <2>3. ToRepr("s32", n, "dec") = SignedFigures(n)
    BY DEF ToRepr, Printed, S32ToStr, Mark, Base, Signed, SignedFigures
  <2>4. n \in Int
    BY <2>1
  <2>5. TypeParseValue(type, t) = {Value(k, <<>>) : k \in FromRepr("s32", t, "dec")}
    BY <1>4 DEF TypeParseValue
  <2> HIDE DEF n, t
  <2>6. FromRepr("s32", t, "dec") = {n}
    BY <2>1, <2>2, <2>3, <2>4, NumberRead
  <2> QED
    BY <2>1, <2>5, <2>6 DEF t
<1>5. CASE type = "U"
  <2> DEFINE n == v.num
             t == TypeFormatValue(type, v)
  <2>1. n \in 0 .. Most("u32") /\ v = Value(n, <<>>)
    BY <1>1, <1>5 DEF NumbersOf
  <2>2. t = Figures(n, 10, 1)
    BY <1>5 DEF TypeFormatValue, ToRepr, Printed, U32ToStr, Mark, Base, Signed
  <2>3. n \in Int /\ ~(n < 0)
    BY <2>1
  <2>4. TypeParseValue(type, t) = {Value(k, <<>>) : k \in FromRepr("u32", t, "dec")}
    BY <1>5 DEF TypeParseValue
  <2> HIDE DEF n, t
  <2>5. SignedFigures(n) = t
    BY <2>2, <2>3, UnsignedFigures
  <2>6. FromRepr("u32", t, "dec") = {n}
    BY <2>1, <2>3, <2>5, NumberRead
  <2> QED
    BY <2>1, <2>4, <2>6 DEF t
<1> QED
  BY <1>2, <1>3, <1>4, <1>5 DEF OptTypes

LEMMA ValuePlain ==
  ASSUME NEW type \in OptTypes, NEW v, ValueValid(type, v), Plain(v.str)
  PROVE  /\ Plain(TypeFormatValue(type, v))
         /\ Unmarked(v.str) => Unmarked(TypeFormatValue(type, v))
<1> DEFINE t == TypeFormatValue(type, v)
<1>1. v.num \in NumbersOf(type)
  BY DEF ValueValid
<1>2. CASE type = "s"
  BY <1>2 DEF TypeFormatValue
<1>3. CASE type = "b"
  <2> DEFINE w == IF v.num # 0 THEN "true" ELSE "false"
             u == <<w>>
  <2>1. t = u
    BY <1>3 DEF TypeFormatValue
  <2>2. w # "=" /\ ~IsSpace(w) /\ ~IsMarker(w)
    BY DEF IsSpace, IsMarker
  <2>3. w = "true" \/ w = "false"
    OBVIOUS
  <2> HIDE DEF w
  <2>4. IsText(u) /\ Len(u) = 1 /\ u[1] = w /\ DOMAIN u = {1} /\ ToSet(u) = {w}
    BY ShortTexts DEF ToSet
  <2>5. NoCommas(u)
    <3>1. ~(w = ",")
      BY <2>3, Zenon
    <3> QED
      BY <2>4, <3>1, Zenon DEF NoCommas
  <2> HIDE DEF u
  <2>6. Plain(u)
    BY <2>2, <2>4, <2>5, PlainIs, TknValidIs DEF Ends
  <2>7. Unmarked(u)
    BY <2>2, <2>4 DEF Unmarked
  <2> QED
    BY <2>1, <2>6, <2>7
<1>4. CASE type = "S"
  <2> DEFINE n == v.num
  <2>1. n \in Int
    BY <1>1, <1>4 DEF NumbersOf
  <2>2. t = SignedFigures(n)
    BY <1>4 DEF TypeFormatValue, ToRepr, Printed, S32ToStr, Mark, Base, Signed, SignedFigures
  <2> QED
    BY <2>1, <2>2, NumberPlain
<1>5. CASE type = "U"
  <2> DEFINE n == v.num
  <2>1. n \in Int /\ ~(n < 0)
    BY <1>1, <1>5 DEF NumbersOf
  <2>2. t = Figures(n, 10, 1)
    BY <1>5 DEF TypeFormatValue, ToRepr, Printed, U32ToStr, Mark, Base, Signed
  <2> QED
    BY <2>1, <2>2, UnsignedFigures, NumberPlain
<1> QED
  BY <1>2, <1>3, <1>4, <1>5 DEF OptTypes

------------------------------------------------------------------------------
(* Texts in a row: where each of them starts in the whole.                  *)
RowStart(flat, i) == IF i = 1 THEN 1 ELSE Len(flat[i - 1]) + 1

LEMMA ConcatAt ==
  ASSUME NEW a, IsText(a), NEW b, IsText(b)
  PROVE  /\ IsText(a \o b) /\ Len(a \o b) = Len(a) + Len(b)
         /\ \A j \in 1 .. Len(a) : (a \o b)[j] = a[j]
         /\ \A j \in 1 .. Len(b) : (a \o b)[Len(a) + j] = b[j]
<1> DEFINE S == ToSet(a) \cup ToSet(b)
<1>1. a \in Seq(ToSet(a)) /\ b \in Seq(ToSet(b))
  BY DEF IsText
<1>2. a \in Seq(S) /\ b \in Seq(S)
  <2>1. ToSet(a) \subseteq S /\ ToSet(b) \subseteq S
    OBVIOUS
  <2> HIDE DEF S
  <2> QED
    BY <1>1, <2>1, Rec!SeqGrows
<1> HIDE DEF S
<1>3. /\ a \o b \in Seq(S) /\ Len(a \o b) = Len(a) + Len(b)
      /\ \A j \in 1 .. Len(a) : (a \o b)[j] = a[j]
      /\ \A j \in 1 .. Len(b) : (a \o b)[Len(a) + j] = b[j]
  BY <1>2
<1> QED
  BY <1>3, SeqIsText

IsConcat(c, a, b) ==
    /\ IsText(c) /\ Len(c) = Len(a) + Len(b)
    /\ \A j \in 1 .. Len(a) : c[j] = a[j]
    /\ \A j \in 1 .. Len(b) : c[Len(a) + j] = b[j]

LEMMA ConcatIs ==
  ASSUME NEW a, NEW b, NEW c, IsText(a), IsText(b), c = a \o b
  PROVE  IsConcat(c, a, b)
  BY ConcatAt DEF IsConcat

InARow(t, seqs, n, flat) ==
    /\ t = flat[n] /\ IsText(t)
    /\ \A i \in 1 .. n :
          /\ Len(flat[i]) \in Nat
          /\ Len(flat[i]) = RowStart(flat, i) + Len(seqs[i]) - 1
          /\ Len(flat[i]) <= Len(t)
          /\ RowStart(flat, i) \in Nat /\ RowStart(flat, i) >= 1
          /\ \A j \in 1 .. Len(seqs[i]) : t[RowStart(flat, i) + j - 1] = seqs[i][j]

LEMMA RowIs ==
  ASSUME NEW n \in Nat, n # 0, NEW seqs, seqs = [i \in 1 .. n |-> seqs[i]],
         \A i \in 1 .. n : IsText(seqs[i])
  PROVE  \E flat : InARow(FlattenSeq(seqs), seqs, n, flat)
<1> DEFINE S == UNION {ToSet(seqs[i]) : i \in 1 .. n}
           t == FlattenSeq(seqs)
<1>1. \A i \in 1 .. n : seqs[i] \in Seq(S)
  <2> TAKE i \in 1 .. n
  <2>1. seqs[i] \in Seq(ToSet(seqs[i]))
    BY DEF IsText
  <2>2. ToSet(seqs[i]) \subseteq S
    OBVIOUS
  <2> HIDE DEF S
  <2> QED
    BY <2>1, <2>2, Rec!SeqGrows
<1> HIDE DEF S
<1>2. seqs \in Seq(Seq(S)) /\ Len(seqs) = n
  BY <1>1
<1>3. Rec!FlattenSeq(seqs) = t
  BY Zenon DEF FlattenSeq, Rec!FlattenSeq
<1> HIDE DEF t
<1>4. PICK flat : /\ t = flat[n]
                  /\ flat[1] = seqs[1]
                  /\ \A i \in 1 .. n - 1 : flat[i + 1] = flat[i] \o seqs[i + 1]
  BY <1>2, <1>3, Rec!FlattenAt
<1> DEFINE Fine(m, i) ==
              /\ Len(flat[i]) \in Nat
              /\ Len(flat[i]) = RowStart(flat, i) + Len(seqs[i]) - 1
              /\ Len(flat[i]) <= Len(flat[m])
              /\ RowStart(flat, i) \in Nat /\ RowStart(flat, i) >= 1
              /\ \A j \in 1 .. Len(seqs[i]) : flat[m][RowStart(flat, i) + j - 1] = seqs[i][j]
           K == {k \in Nat : k + 1 <= n =>
                    IsText(flat[k + 1]) /\ \A i \in 1 .. k + 1 : Fine(k + 1, i)}
<1>5. \A i \in 1 .. n : Len(seqs[i]) \in Nat
  BY TextFacts
<1> HIDE DEF Fine
<1>6. 0 \in K
  <2>1. Fine(1, 1) /\ IsText(flat[1])
    BY <1>4, <1>5 DEF Fine, RowStart
  <2> QED
    BY <2>1
<1>7. ASSUME NEW k \in Nat, k \in K PROVE k + 1 \in K
  <2> SUFFICES ASSUME k + 1 + 1 <= n
               PROVE  IsText(flat[k + 1 + 1]) /\ \A i \in 1 .. k + 1 + 1 : Fine(k + 1 + 1, i)
    OBVIOUS
  <2> DEFINE m == k + 1
             a == flat[m]
             b == seqs[m + 1]
             c == flat[m + 1]
  <2>1. m \in 1 .. n - 1 /\ m + 1 \in 1 .. n /\ m \in Nat
    OBVIOUS
  <2>2. IsText(a) /\ \A i \in 1 .. m : Fine(m, i)
    BY <1>7, <2>1
  <2> HIDE DEF m, K
  <2>3. c = a \o b /\ IsText(b)
    BY <1>4, <2>1
  <2>4. /\ IsText(c) /\ Len(c) = Len(a) + Len(b) /\ Len(a) \in Nat /\ Len(b) \in Nat
        /\ \A j \in 1 .. Len(a) : c[j] = a[j]
        /\ \A j \in 1 .. Len(b) : c[Len(a) + j] = b[j]
    <3> HIDE DEF a, b, c
    <3>1. Len(a) \in Nat /\ Len(b) \in Nat
      BY <2>2, <2>3, TextFacts
    <3> QED
      BY <2>2, <2>3, <3>1, ConcatAt
  <2>5. ASSUME NEW i \in 1 .. m PROVE Fine(m + 1, i)
    <3> DEFINE r == RowStart(flat, i)
               l == Len(seqs[i])
    <3>1. /\ Len(flat[i]) \in Nat /\ Len(flat[i]) = r + l - 1 /\ Len(flat[i]) <= Len(a)
          /\ r \in Nat /\ r >= 1
          /\ \A j \in 1 .. l : a[r + j - 1] = seqs[i][j]
      BY <2>2 DEF Fine
    <3>2. l \in Nat
      BY <1>5, <2>1
    <3> HIDE DEF r, l, a, c
    <3>3. \A j \in 1 .. l : r + j - 1 \in 1 .. Len(a)
      BY <2>4, <3>1, <3>2
    <3>4. \A j \in 1 .. l : c[r + j - 1] = seqs[i][j]
      BY <2>4, <3>1, <3>3
    <3>5. Len(flat[i]) <= Len(c)
      BY <2>4, <3>1
    <3> QED
      BY <3>1, <3>4, <3>5 DEF Fine, r, l, c
  <2>6. Fine(m + 1, m + 1)
    <3>1. RowStart(flat, m + 1) = Len(a) + 1
      BY <2>1 DEF RowStart
    <3> HIDE DEF a, b, c
    <3>2. \A j \in 1 .. Len(b) : Len(a) + 1 + j - 1 = Len(a) + j
      BY <2>4
    <3>3. \A j \in 1 .. Len(b) : c[Len(a) + 1 + j - 1] = b[j]
      BY <2>4, <3>2
    <3>4. /\ Len(c) = (Len(a) + 1) + Len(b) - 1
          /\ Len(c) \in Nat /\ Len(a) + 1 \in Nat /\ Len(a) + 1 >= 1
      BY <2>4
    <3>5. /\ Len(c) = RowStart(flat, m + 1) + Len(b) - 1
          /\ RowStart(flat, m + 1) \in Nat /\ RowStart(flat, m + 1) >= 1
          /\ \A j \in 1 .. Len(b) : c[RowStart(flat, m + 1) + j - 1] = b[j]
          /\ Len(c) <= Len(c)
      BY <3>1, <3>3, <3>4
    <3> QED
      BY <3>4, <3>5 DEF Fine, b, c
  <2>7. \A i \in 1 .. m + 1 : Fine(m + 1, i)
    BY <2>1, <2>5, <2>6
  <2> QED
    BY <2>4, <2>7 DEF m
<1> HIDE DEF K
<1>8. \A k \in Nat : k \in K
  BY <1>6, <1>7, Rec!NumberInduction
<1>9. IsText(flat[n]) /\ \A i \in 1 .. n : Fine(n, i)
  <2> DEFINE k == n - 1
  <2>1. k \in Nat /\ k + 1 = n /\ k + 1 <= n
    OBVIOUS
  <2> HIDE DEF k
  <2>2. k \in K
    BY <1>8, <2>1
  <2> QED
    BY <2>1, <2>2 DEF K
<1>10. InARow(t, seqs, n, flat)
  BY <1>4, <1>9 DEF InARow, Fine
<1> QED
  BY <1>10 DEF t

(* Where the parts of a list are in the text it is written as.              *)
Laid(t, parts, n, off) ==
    /\ IsText(t)
    /\ \A i \in 1 .. n :
          /\ Len(parts[i]) \in Nat
          /\ off[i] \in 1 .. Len(t) + 1
          /\ off[i] + Len(parts[i]) \in 1 .. Len(t) + 1
          /\ \A j \in 1 .. Len(parts[i]) : t[off[i] + j - 1] = parts[i][j]
          /\ i < n => /\ IsComma(t, off[i] + Len(parts[i]))
                      /\ off[i + 1] = off[i] + Len(parts[i]) + 1
    /\ off[1] = 1 /\ off[n] + Len(parts[n]) = Len(t) + 1

PairText(p) == IsText(p.name) /\ IsText(p.value)

LEMMA FormatText ==
  ASSUME NEW p, PairText(p)
  PROVE  IsText(TknsFormat(p))
<1>1. IsText(p.name \o <<"=">>)
  BY ShortTexts, ConcatText DEF PairText
<1>2. TknsFormat(p) = (p.name \o <<"=">>) \o p.value
  BY DEF TknsFormat
<1> QED
  BY <1>1, <1>2, ConcatText DEF PairText

CommaAfter(part, last) == part \o (IF last THEN <<>> ELSE <<",">>)

LEMMA CommaAfterIs ==
  ASSUME NEW part, IsText(part), NEW last \in BOOLEAN
  PROVE  LET s == CommaAfter(part, last)
         IN  /\ IsText(s) /\ Len(part) \in Nat
             /\ Len(s) = IF last THEN Len(part) ELSE Len(part) + 1
             /\ \A j \in 1 .. Len(part) : s[j] = part[j]
             /\ ~last => IsComma(s, Len(part) + 1)
<1> DEFINE comma == <<",">>
           stop == IF last THEN <<>> ELSE comma
           s == part \o stop
<1>1. CommaAfter(part, last) = s
  BY Zenon DEF CommaAfter
<1>2. IsText(comma) /\ Len(comma) = 1 /\ IsComma(comma, 1)
  <2>1. \A x : Len(<<x>>) = 1 /\ <<x>>[1] = x
    OBVIOUS
  <2>2. IsText(comma) /\ Len(comma) = 1
    BY <2>1, ShortTexts, Zenon
  <2>3. comma[1] = ","
    BY <2>1, Zenon
  <2> QED
    BY <2>2, <2>3, Zenon DEF IsComma
<1> HIDE DEF comma
<1>3. Len(stop) = IF last THEN 0 ELSE 1
  BY <1>2
<1>33. IsText(stop)
  BY <1>2, ShortTexts
<1>4. ~last => IsComma(stop, 1)
  BY <1>2
<1> HIDE DEF stop
<1>4a. s = part \o stop /\ Len(part) \in Nat
  BY TextFacts
<1> HIDE DEF s
<1>5. /\ IsText(s) /\ Len(s) = Len(part) + Len(stop)
      /\ \A j \in 1 .. Len(part) : s[j] = part[j]
      /\ \A j \in 1 .. Len(stop) : s[Len(part) + j] = stop[j]
  <2>1. IsConcat(s, part, stop)
    BY <1>33, <1>4a, ConcatIs, Zenon
  <2> QED
    BY <2>1 DEF IsConcat
<1>6. Len(s) = IF last THEN Len(part) ELSE Len(part) + 1
  BY <1>3, <1>4a, <1>5
<1>7. ASSUME ~last PROVE IsComma(s, Len(part) + 1)
  <2>1. 1 \in 1 .. Len(stop)
    BY <1>3, <1>7
  <2>2. s[Len(part) + 1] = stop[1]
    BY <1>5, <2>1
  <2> QED
    BY <1>4, <1>7, <2>2, Zenon DEF IsComma
<1> QED
  BY <1>1, <1>4a, <1>5, <1>6, <1>7 DEF s

LEMMA ListLaid ==
  ASSUME NEW n \in Nat, n # 0, NEW list, DOMAIN list = 1 .. n, Len(list) = n,
         \A i \in 1 .. n : PairText(list[i])
  PROVE  \E off : Laid(TknsListFormat(list), [i \in 1 .. n |-> TknsFormat(list[i])], n, off)
<1> DEFINE One(i) == CommaAfter(TknsFormat(list[i]), i = n)
           seqs == [i \in 1 .. n |-> One(i)]
           parts == [i \in 1 .. n |-> TknsFormat(list[i])]
           t == TknsListFormat(list)
<1>1. t = FlattenSeq(seqs)
  BY Zenon DEF TknsListFormat, CommaAfter
<1>2. \A i \in 1 .. n : IsText(parts[i]) /\ parts[i] = TknsFormat(list[i])
  BY FormatText
<1>3. \A i \in 1 .. n : seqs[i] = CommaAfter(parts[i], i = n)
  OBVIOUS
<1>4. seqs = [i \in 1 .. n |-> seqs[i]]
  OBVIOUS
<1> HIDE DEF One, seqs, parts, t
<1>5. ASSUME NEW i \in 1 .. n
      PROVE  /\ IsText(seqs[i]) /\ Len(parts[i]) \in Nat
             /\ Len(seqs[i]) = IF i = n THEN Len(parts[i]) ELSE Len(parts[i]) + 1
             /\ \A j \in 1 .. Len(parts[i]) : seqs[i][j] = parts[i][j]
             /\ i # n => IsComma(seqs[i], Len(parts[i]) + 1)
  <2> DEFINE last == i = n
  <2>1. last \in BOOLEAN /\ (last <=> i = n)
    OBVIOUS
  <2>2. seqs[i] = CommaAfter(parts[i], last) /\ IsText(parts[i])
    BY <1>2, <1>3
  <2> HIDE DEF last
  <2> QED
    BY <2>1, <2>2, CommaAfterIs
<1>6. PICK flat : InARow(t, seqs, n, flat)
  BY <1>1, <1>4, <1>5, RowIs
<1> DEFINE off == [i \in 1 .. n |-> RowStart(flat, i)]
<1>7. ASSUME NEW i \in 1 .. n
      PROVE  /\ off[i] \in 1 .. Len(t) + 1
             /\ off[i] + Len(parts[i]) \in 1 .. Len(t) + 1
             /\ \A j \in 1 .. Len(parts[i]) : t[off[i] + j - 1] = parts[i][j]
             /\ i < n => /\ IsComma(t, off[i] + Len(parts[i]))
                         /\ off[i + 1] = off[i] + Len(parts[i]) + 1
             /\ i = n => off[n] + Len(parts[n]) = Len(t) + 1
  <2> DEFINE r == RowStart(flat, i)
             l == Len(parts[i])
             s == seqs[i]
  <2>1. off[i] = r
    OBVIOUS
  <2>2. /\ Len(flat[i]) \in Nat /\ Len(flat[i]) = r + Len(s) - 1 /\ Len(flat[i]) <= Len(t)
        /\ r \in Nat /\ r >= 1
        /\ \A j \in 1 .. Len(s) : t[r + j - 1] = s[j]
        /\ t = flat[n] /\ IsText(t)
    BY <1>6 DEF InARow
  <2>3. /\ l \in Nat /\ Len(s) = (IF i = n THEN l ELSE l + 1)
        /\ \A j \in 1 .. l : s[j] = parts[i][j]
        /\ i # n => IsComma(s, l + 1)
    BY <1>5
  <2>4. Len(t) \in Nat
    BY <2>2, TextFacts
  <2>5. i < n => off[i + 1] = Len(flat[i]) + 1
    BY DEF RowStart
  <2> HIDE DEF r, l, s, off
  <2>6. r \in 1 .. Len(t) + 1 /\ r + l \in 1 .. Len(t) + 1
    BY <2>2, <2>3, <2>4
  <2>7. \A j \in 1 .. l : t[r + j - 1] = parts[i][j]
    BY <2>2, <2>3
  <2>8. i < n => off[i + 1] = r + l + 1
    BY <2>2, <2>3, <2>5
  <2>9. i = n => r + l = Len(t) + 1
    BY <2>2, <2>3
  <2>10. ASSUME i < n PROVE IsComma(t, r + l)
    <3>1. l + 1 \in 1 .. Len(s) /\ r + (l + 1) - 1 = r + l /\ i # n
      BY <2>2, <2>3, <2>10
    <3>2. t[r + l] = s[l + 1]
      BY <2>2, <3>1
    <3> QED
      BY <2>3, <3>1, <3>2, Zenon DEF IsComma
  <2> QED
    BY <2>1, <2>6, <2>7, <2>8, <2>9, <2>10 DEF l
<1>8. off[1] = 1
  BY DEF RowStart
<1>9. IsText(t)
  BY <1>6 DEF InARow
<1> HIDE DEF off
<1>10. Laid(t, parts, n, off)
  <2>1. off[n] + Len(parts[n]) = Len(t) + 1
    BY <1>7
  <2> QED
    BY <1>5, <1>7, <1>8, <1>9, <2>1 DEF Laid
<1> QED
  BY <1>10 DEF t, parts

(* The parts of a text that is laid out are where they were put.            *)
LEMMA LaidIncreases ==
  ASSUME NEW t, NEW parts, NEW n \in Nat, n # 0, NEW off, Laid(t, parts, n, off)
  PROVE  \A i, j \in 1 .. n : i < j => off[i] < off[j]
<1>0. Len(t) \in Nat
  BY TextFacts DEF Laid
<1>1. \A i \in 1 .. n : off[i] \in Nat /\ Len(parts[i]) \in Nat
                        /\ (i < n => off[i + 1] = off[i] + Len(parts[i]) + 1)
  BY <1>0 DEF Laid
<1> DEFINE K == {d \in Nat : \A i \in 1 .. n : i + d + 1 <= n => off[i] < off[i + d + 1]}
<1>2. 0 \in K
  <2> SUFFICES ASSUME NEW i \in 1 .. n, i + 0 + 1 <= n PROVE off[i] < off[i + 0 + 1]
    OBVIOUS
  <2>1. i < n /\ i + 0 + 1 = i + 1
    OBVIOUS
  <2> QED
    BY <1>1, <2>1
<1>3. ASSUME NEW d \in Nat, d \in K PROVE d + 1 \in K
  <2> SUFFICES ASSUME NEW i \in 1 .. n, i + (d + 1) + 1 <= n PROVE off[i] < off[i + (d + 1) + 1]
    OBVIOUS
  <2> DEFINE m == i + d + 1
  <2>1. m \in 1 .. n /\ m < n /\ m + 1 \in 1 .. n /\ i + (d + 1) + 1 = m + 1 /\ i + d + 1 <= n
    OBVIOUS
  <2>2. off[i] < off[m]
    BY <1>3, <2>1
  <2> HIDE DEF m
  <2>3. off[m] < off[m + 1]
    BY <1>1, <2>1, SMTT(30)
  <2>4. off[i] \in Nat /\ off[m] \in Nat /\ off[m + 1] \in Nat
    BY <1>1, <2>1
  <2> QED
    BY <2>1, <2>2, <2>3, <2>4
<1> HIDE DEF K
<1>4. \A d \in Nat : d \in K
  BY <1>2, <1>3, Rec!NumberInduction
<1> SUFFICES ASSUME NEW i \in 1 .. n, NEW j \in 1 .. n, i < j PROVE off[i] < off[j]
  OBVIOUS
<1> DEFINE d == j - i - 1
<1>5. d \in Nat /\ i + d + 1 = j /\ i + d + 1 <= n
  OBVIOUS
<1> HIDE DEF d
<1>6. d \in K
  BY <1>4, <1>5
<1> QED
  BY <1>5, <1>6 DEF K

LEMMA LaidPart ==
  ASSUME NEW t, NEW parts, NEW n \in Nat, n # 0, NEW off, Laid(t, parts, n, off),
         NEW i \in 1 .. n, IsText(parts[i]), NoCommas(parts[i])
  PROVE  PartAt(t, off[i]) = parts[i]
<1> DEFINE a == off[i]
           p == parts[i]
           e == a + Len(p)
           c == CommaEnd(t, a)
           q == PartAt(t, a)
<1>1. /\ IsText(t) /\ Len(t) \in Nat /\ Len(p) \in Nat
      /\ a \in 1 .. Len(t) + 1 /\ e \in 1 .. Len(t) + 1
      /\ \A j \in 1 .. Len(p) : t[a + j - 1] = p[j]
      /\ i < n => IsComma(t, e)
      /\ i = n => e = Len(t) + 1
  BY TextFacts DEF Laid
<1> HIDE DEF a, p
<1>2. DOMAIN p = 1 .. Len(p) /\ IsText(p) /\ p \in Seq(ToSet(p))
  BY TextFacts DEF p, IsText
<1>3. \A j \in DOMAIN p : ~IsComma(p, j)
  BY Zenon DEF p, NoCommas, ToSet, IsComma
<1>4. ASSUME NEW x \in a .. e - 1 PROVE ~IsComma(t, x)
  <2> DEFINE j == x - a + 1
  <2>1. j \in 1 .. Len(p) /\ a + j - 1 = x
    <3>1. a \in Int /\ Len(p) \in Int /\ x \in Int /\ a <= x /\ x <= a + Len(p) - 1
      BY <1>1
    <3> QED
      BY <3>1
  <2> HIDE DEF j
  <2>2. t[x] = p[j]
    BY <1>1, <2>1
  <2>3. ~IsComma(p, j)
    BY <1>2, <1>3, <2>1
  <2> QED
    BY <2>2, <2>3, Zenon DEF IsComma
<1>5. /\ c \in a .. Len(t) + 1
      /\ q = SubSeq(t, a, c - 1)
      /\ c = Len(t) + 1 \/ IsComma(t, c)
      /\ \A j \in a .. c - 1 : ~IsComma(t, j)
  BY <1>1, PartIs
<1> HIDE DEF c, q
<1>6. c = e
  <2>1. ~(c < e)
    <3> SUFFICES ASSUME c < e PROVE FALSE
      OBVIOUS
    <3>1. c \in a .. e - 1 /\ c # Len(t) + 1
      BY <1>1, <1>5
    <3> QED
      BY <1>4, <1>5, <3>1
  <2>2. ~(e < c)
    <3> SUFFICES ASSUME e < c PROVE FALSE
      OBVIOUS
    <3>1. e \in a .. c - 1 /\ e # Len(t) + 1
      BY <1>1, <1>5
    <3> QED
      BY <1>1, <1>5, <3>1
  <2> QED
    BY <1>1, <1>5, <2>1, <2>2
<1>7. q = SubSeq(t, a, e - 1)
  BY <1>5, <1>6
<1>8. /\ IsText(q) /\ (a <= e => Len(q) = e - a) /\ DOMAIN q = 1 .. Len(q)
      /\ \A j \in DOMAIN q : q[j] = t[a + j - 1]
  <2> HIDE DEF e
  <2>1. a \in Nat /\ a >= 1 /\ e \in Nat /\ e <= Len(t) + 1
    BY <1>1
  <2> QED
    BY <1>1, <1>7, <2>1, PartFacts
<1>9. Len(q) = Len(p)
  BY <1>1, <1>8
<1>10. \A j \in 1 .. Len(p) : q[j] = p[j]
  BY <1>1, <1>8, <1>9
<1>11. q = p
  <2>1. q \in Seq(ToSet(q))
    BY <1>8 DEF IsText
  <2> QED
    BY <1>2, <1>9, <1>10, <2>1
<1> QED
  BY <1>11 DEF q, a, p

LEMMA LaidStarts ==
  ASSUME NEW t, NEW parts, NEW n \in Nat, n # 0, NEW off, Laid(t, parts, n, off),
         \A i \in 1 .. n : IsText(parts[i]) /\ NoCommas(parts[i]),
         NEW b, StartsAt(t, b)
  PROVE  \E i \in 1 .. n : b = off[i]
<1>1. /\ IsText(t) /\ Len(t) \in Nat
      /\ \A i \in 1 .. n : off[i] \in 1 .. Len(t) + 1 /\ Len(parts[i]) \in Nat
      /\ off[1] = 1
  BY TextFacts DEF Laid
<1>2. b \in 1 .. Len(t) + 1 /\ (b = 1 \/ IsComma(t, b - 1))
  BY DEF StartsAt
<1> DEFINE B == {i \in 1 .. n : off[i] <= b}
           m == Max(B)
<1>3. B \in SUBSET (0 .. n) /\ 1 \in B
  BY <1>1, <1>2
<1> HIDE DEF B
<1>4. m \in B /\ \A y \in B : y <= m
  BY <1>3, GreatestElement
<1> HIDE DEF m
<1>5. m \in 1 .. n /\ off[m] <= b /\ \A y \in 1 .. n : off[y] <= b => y <= m
  BY <1>4 DEF B
<1>6. CASE off[m] = b
  BY <1>5, <1>6
<1>7. CASE off[m] # b
  <2> DEFINE a == off[m]
             p == parts[m]
             x == b - 1
  <2>1. /\ Len(p) \in Nat /\ a \in 1 .. Len(t) + 1
        /\ \A j \in 1 .. Len(p) : t[a + j - 1] = p[j]
        /\ m < n => off[m + 1] = a + Len(p) + 1
        /\ m = n => a + Len(p) = Len(t) + 1
    BY <1>5 DEF Laid
  <2>2. IsText(p) /\ NoCommas(p) /\ DOMAIN p = 1 .. Len(p)
    BY <1>5, TextFacts
  <2>3. a < b /\ x \in Nat /\ a <= x /\ b # 1
    BY <1>1, <1>2, <1>5, <1>7, <2>1
  <2>4. IsComma(t, x)
    BY <1>2, <2>3
  <2>5. x < a + Len(p)
    <3>1. CASE m < n
      <4>1. m + 1 \in 1 .. n /\ ~(m + 1 <= m)
        BY <1>5, <3>1
      <4>2. ~(off[m + 1] <= b)
        BY <1>5, <4>1
      <4> HIDE DEF a, p
      <4> QED
        BY <1>2, <2>1, <3>1, <4>2
    <3>2. CASE m = n
      BY <1>1, <1>2, <2>1, <3>2
    <3> QED
      BY <1>5, <3>1, <3>2
  <2> HIDE DEF a, p, x
  <2> DEFINE j == x - a + 1
  <2>6. j \in 1 .. Len(p) /\ a + j - 1 = x
    BY <2>1, <2>3, <2>5
  <2> HIDE DEF j
  <2>7. t[x] = p[j]
    BY <2>1, <2>6
  <2>8. ~IsComma(p, j)
    BY <2>2, <2>6, Zenon DEF NoCommas, ToSet, IsComma
  <2> QED
    BY <2>4, <2>7, <2>8, Zenon DEF IsComma
<1> QED
  BY <1>6, <1>7

LEMMA PartEquals ==
  ASSUME NEW t, NEW p, NEW a \in Nat, NEW e, IsText(t), IsText(p),
         a >= 1, e = a + Len(p), e <= Len(t) + 1,
         \A j \in 1 .. Len(p) : t[a + j - 1] = p[j]
  PROVE  SubSeq(t, a, e - 1) = p
<1> DEFINE q == SubSeq(t, a, e - 1)
<1>1. Len(t) \in Nat /\ Len(p) \in Nat /\ e \in Nat /\ a <= e /\ e <= Len(t) + 1 /\ e - a = Len(p)
  <2>1. Len(t) \in Nat /\ Len(p) \in Nat
    BY TextFacts
  <2> QED
    BY <2>1
<1>2. /\ IsText(q) /\ (a <= e => Len(q) = e - a) /\ DOMAIN q = 1 .. Len(q)
      /\ \A j \in DOMAIN q : q[j] = t[a + j - 1]
  BY <1>1, PartFacts
<1> HIDE DEF q
<1>3. Len(q) = Len(p) /\ \A j \in 1 .. Len(p) : q[j] = p[j]
  BY <1>1, <1>2
<1>4. q \in Seq(ToSet(q)) /\ p \in Seq(ToSet(p))
  BY <1>2 DEF IsText
<1>5. q = p
  BY <1>3, <1>4
<1> QED
  BY <1>5 DEF q

(* A pair that can be written is read back from what is written of it.      *)
PlainPair(p) ==
    /\ p = [name |-> p.name, value |-> p.value] /\ PairText(p)
    /\ Plain(p.name) /\ p.name # <<>> /\ Plain(p.value)

LEMMA PairFormat ==
  ASSUME NEW p, PairText(p)
  PROVE  LET t == TknsFormat(p)
             n == Len(p.name)
         IN  /\ IsText(t) /\ n \in Nat /\ Len(p.value) \in Nat
             /\ Len(t) = n + 1 + Len(p.value)
             /\ \A j \in 1 .. n : t[j] = p.name[j]
             /\ t[n + 1] = "="
             /\ \A j \in 1 .. Len(p.value) : t[n + 1 + j] = p.value[j]
<1> DEFINE a == p.name
           v == p.value
           eq == <<"=">>
           b == a \o eq
           t == b \o v
<1>1. TknsFormat(p) = t
  BY DEF TknsFormat
<1>2. IsText(a) /\ IsText(v) /\ Len(a) \in Nat /\ Len(v) \in Nat
  BY TextFacts DEF PairText
<1>3. IsText(eq) /\ Len(eq) = 1 /\ eq[1] = "="
  BY ShortTexts
<1>4. b = a \o eq /\ t = b \o v
  OBVIOUS
<1> HIDE DEF t, b, eq, v, a
<1>5. /\ IsText(b) /\ Len(b) = Len(a) + Len(eq)
      /\ \A j \in 1 .. Len(a) : b[j] = a[j]
      /\ \A j \in 1 .. Len(eq) : b[Len(a) + j] = eq[j]
  <2>1. IsConcat(b, a, eq)
    BY <1>2, <1>3, <1>4, ConcatIs, Zenon
  <2> QED
    BY <2>1 DEF IsConcat
<1>6. /\ IsText(t) /\ Len(t) = Len(b) + Len(v)
      /\ \A j \in 1 .. Len(b) : t[j] = b[j]
      /\ \A j \in 1 .. Len(v) : t[Len(b) + j] = v[j]
  <2>1. IsConcat(t, b, v)
    BY <1>2, <1>4, <1>5, ConcatIs, Zenon
  <2> QED
    BY <2>1 DEF IsConcat
<1>7. Len(b) = Len(a) + 1 /\ b[Len(a) + 1] = "="
  <2>1. 1 \in 1 .. Len(eq)
    BY <1>3
  <2> QED
    BY <1>3, <1>5, <2>1
<1>8. t[Len(a) + 1] = "=" /\ \A j \in 1 .. Len(a) : t[j] = a[j]
  BY <1>2, <1>5, <1>6, <1>7
<1> QED
  BY <1>1, <1>2, <1>6, <1>7, <1>8 DEF a, v

LEMMA PairReadBack ==
  ASSUME NEW p, PlainPair(p)
  PROVE  /\ TknsParse(TknsFormat(p)) = {p}
         /\ NoCommas(TknsFormat(p)) /\ ~Blank(TknsFormat(p))
<1> DEFINE t == TknsFormat(p)
           a == p.name
           v == p.value
           n == Len(a)
           e == EqualEnd(t, 1)
<1>1. /\ IsText(t) /\ n \in Nat /\ Len(v) \in Nat
      /\ Len(t) = n + 1 + Len(v)
      /\ \A j \in 1 .. n : t[j] = a[j]
      /\ t[n + 1] = "="
      /\ \A j \in 1 .. Len(v) : t[n + 1 + j] = v[j]
  BY PairFormat DEF PlainPair
<1>2. p = [name |-> a, value |-> v] /\ IsText(a) /\ IsText(v) /\ Plain(a) /\ a # <<>> /\ Plain(v)
  BY DEF PlainPair, PairText
<1> HIDE DEF t, a, v
<1>3. /\ DOMAIN a = 1 .. n /\ DOMAIN v = 1 .. Len(v) /\ DOMAIN t = 1 .. Len(t) /\ Len(t) \in Nat
      /\ n # 0
  BY <1>1, <1>2, TextFacts, WholeText
<1>4. /\ "=" \notin ToSet(a) /\ "=" \notin ToSet(v) /\ NoCommas(a) /\ NoCommas(v)
      /\ Trimmed(a) = a /\ Trimmed(v) = v /\ TknValid(a) /\ TknValid(v) /\ Ends(a)
  BY <1>2, PlainIs, TknValidIs DEF Plain
<1> HIDE DEF n
<1>5. e = n + 1
  <2>1. EndsAt(e, 1, Len(t), NotEqual(t))
    BY <1>1, <1>3, EqualEnds
  <2>2. EndsAt(n + 1, 1, Len(t), NotEqual(t))
    <3>1. \A j \in 1 .. n : t[j] # "="
      BY <1>1, <1>3, <1>4 DEF ToSet
    <3> QED
      BY <1>1, <1>3, <3>1 DEF EndsAt, NotEqual
  <2> HIDE DEF e
  <2> QED
    BY <1>1, <1>3, <2>1, <2>2, RunEnds
<1> HIDE DEF e
<1>6. SubSeq(t, 1, e - 1) = a
  <2>1. \A j \in 1 .. Len(a) : t[1 + j - 1] = a[j]
    BY <1>1 DEF n
  <2>2. 1 \in Nat /\ 1 >= 1 /\ e <= Len(t) + 1 /\ e = 1 + Len(a)
    BY <1>1, <1>5 DEF n
  <2> QED
    BY <1>1, <1>2, <2>1, <2>2, PartEquals
<1>7. SubSeq(t, e + 1, Len(t)) = v
  <2> DEFINE b == e + 1
  <2>1. \A j \in 1 .. Len(v) : t[b + j - 1] = v[j]
    <3> TAKE j \in 1 .. Len(v)
    <3>1. b + j - 1 = n + 1 + j
      BY <1>1, <1>5
    <3> QED
      BY <1>1, <3>1
  <2> DEFINE z == Len(t) + 1
  <2>2. b \in Nat /\ b >= 1 /\ z = b + Len(v) /\ z <= Len(t) + 1 /\ z - 1 = Len(t)
    BY <1>1, <1>3, <1>5
  <2> HIDE DEF b, z
  <2>3. SubSeq(t, b, z - 1) = v
    BY <1>1, <1>2, <2>1, <2>2, PartEquals
  <2> QED
    BY <2>2, <2>3 DEF b
<1>8. NameIn(t) = a /\ ValueIn(t) = v
  <2>1. NameIn(t) = Trimmed(SubSeq(t, 1, e - 1)) /\ ValueIn(t) = Trimmed(SubSeq(t, e + 1, Len(t)))
    BY DEF NameIn, ValueIn, EqualEnd, e
  <2> QED
    BY <1>4, <1>6, <1>7, <2>1
<1>9. TknsParse(t) = {p}
  <2>1. TknsParse(t) =
          {q \in {[name |-> NameIn(t), value |-> ValueIn(t)]} :
              NameTknValid(q.name) /\ ValueTknValid(q.value)}
    BY <1>1, PairFound
  <2>2. NameTknValid(p.name) /\ ValueTknValid(p.value)
    BY <1>2, <1>4 DEF NameTknValid, ValueTknValid, a, v
  <2>3. [name |-> NameIn(t), value |-> ValueIn(t)] = p
    BY <1>2, <1>8
  <2> QED
    BY <2>1, <2>2, <2>3
<1>10. NoCommas(t)
  <2>1. ASSUME NEW j \in DOMAIN t PROVE ~IsComma(t, j)
    <3>1. CASE j <= n
      <4>1. j \in 1 .. n
        BY <1>1, <1>3, <3>1
      <4>2. t[j] = a[j] /\ j \in DOMAIN a
        BY <1>1, <1>3, <4>1
      <4> QED
        BY <1>4, <4>2, Zenon DEF IsComma, NoCommas, ToSet
    <3>2. CASE j = n + 1
      <4>1. t[j] = "="
        BY <1>1, <3>2
      <4>2. ~("=" = ",")
        BY Zenon
      <4> QED
        BY <4>1, <4>2, Zenon DEF IsComma
    <3>3. CASE j > n + 1
      <4> DEFINE i == j - n - 1
      <4>1. i \in 1 .. Len(v) /\ n + 1 + i = j
        BY <1>1, <1>3, <3>3
      <4> HIDE DEF i
      <4>2. t[j] = v[i] /\ i \in DOMAIN v
        BY <1>1, <1>3, <4>1
      <4> QED
        BY <1>4, <4>2, Zenon DEF IsComma, NoCommas, ToSet
    <3>4. j \in Nat
      BY <1>3
    <3> QED
      BY <1>1, <3>1, <3>2, <3>3, <3>4
  <2> QED
    BY <2>1, Zenon DEF NoCommas, ToSet, IsComma
<1>11. ~Blank(t)
  <2>1. 1 \in DOMAIN t /\ t[1] = a[1]
    BY <1>1, <1>3
  <2> QED
    BY <1>2, <1>4, <2>1 DEF Blank, Ends
<1> QED
  BY <1>9, <1>10, <1>11 DEF t

------------------------------------------------------------------------------
(* A list that can be written is read back from what is written of it.      *)
Written(t, list, off) ==
    /\ IsText(t) /\ IsText(list)
    /\ \A i \in DOMAIN list : /\ off[i] \in Nat
                              /\ TknsParse(PartAt(t, off[i])) = {list[i]}
    /\ \A i, j \in DOMAIN list : i < j => off[i] < off[j]
    /\ PartsOf(t) = {off[i] : i \in DOMAIN list}

LEMMA NothingWritten ==
  ASSUME NEW list, IsText(list), Len(list) = 0
  PROVE  TknsListFormat(list) = <<>> /\ PartsOf(<<>>) = {} /\ DOMAIN list = {}
<1>1. DOMAIN list = {} /\ list = <<>>
  BY TextFacts, WholeText
<1>2. TknsListFormat(list) = <<>>
  <2> DEFINE seqs == [i \in DOMAIN list |->
                        TknsFormat(list[i]) \o (IF i = Len(list) THEN <<>> ELSE <<",">>)]
  <2>1. TknsListFormat(list) = FlattenSeq(seqs)
    BY Zenon DEF TknsListFormat
  <2>2. \A f : [i \in {} |-> f[i]] = <<>>
    OBVIOUS
  <2>3. DOMAIN seqs = {} /\ seqs = [i \in {} |-> seqs[i]]
    BY <1>1, Zenon
  <2> HIDE DEF seqs
  <2>4. seqs = <<>>
    BY <2>2, <2>3
  <2>5. FlattenSeq(<<>>) = <<>>
    BY DEF FlattenSeq
  <2> QED
    BY <2>1, <2>4, <2>5
<1>3. PartsOf(<<>>) = {}
  <2> SUFFICES ASSUME NEW a \in 1 .. Len(<<>>) + 1, ~Blank(PartAt(<<>>, a)) PROVE FALSE
    BY Zenon DEF PartsOf
  <2>1. Len(<<>>) = 0 /\ a = 1 /\ IsText(<<>>)
    BY ShortTexts
  <2> DEFINE c == CommaEnd(<<>>, a)
  <2>2. c \in a .. Len(<<>>) + 1 /\ PartAt(<<>>, a) = SubSeq(<<>>, a, c - 1)
    BY <2>1, PartIs
  <2> HIDE DEF c
  <2>3. c = 1
    BY <2>1, <2>2
  <2>4. SubSeq(<<>>, 1, 1 - 1) = <<>>
    OBVIOUS
  <2>5. PartAt(<<>>, a) = <<>>
    BY <2>1, <2>2, <2>3, <2>4
  <2>6. Blank(<<>>)
    BY DEF Blank
  <2> QED
    BY <2>5, <2>6
<1> QED
  BY <1>1, <1>2, <1>3

LEMMA ListWritten ==
  ASSUME NEW list, IsText(list), \A i \in DOMAIN list : PlainPair(list[i])
  PROVE  \E off : Written(TknsListFormat(list), list, off)
<1> DEFINE n == Len(list)
           t == TknsListFormat(list)
           parts == [i \in 1 .. n |-> TknsFormat(list[i])]
<1>1. n \in Nat /\ DOMAIN list = 1 .. n
  BY TextFacts
<1>2. CASE n = 0
  <2>1. t = <<>> /\ PartsOf(t) = {} /\ DOMAIN list = {}
    BY <1>2, NothingWritten
  <2> HIDE DEF t
  <2>2. IsText(t)
    BY <2>1, ShortTexts
  <2>3. \A off : {off[i] : i \in DOMAIN list} = {}
    BY <2>1
  <2>4. \A off : Written(t, list, off)
    BY <2>1, <2>2, <2>3 DEF Written
  <2> QED
    BY <2>4 DEF t
<1>3. CASE n # 0
  <2>1. \A i \in 1 .. n : PairText(list[i]) /\ PlainPair(list[i])
    BY <1>1 DEF PlainPair
  <2>2. PICK off : Laid(t, parts, n, off)
    BY <1>1, <1>3, <2>1, ListLaid
  <2>3. \A i \in 1 .. n : /\ IsText(parts[i]) /\ NoCommas(parts[i]) /\ ~Blank(parts[i])
                          /\ TknsParse(parts[i]) = {list[i]}
    <3> TAKE i \in 1 .. n
    <3>1. parts[i] = TknsFormat(list[i])
      OBVIOUS
    <3> QED
      BY <2>1, <3>1, PairReadBack, FormatText
  <2> HIDE DEF t, parts, n
  <2>4. IsText(t) /\ Len(t) \in Nat /\ \A i \in 1 .. n : off[i] \in 1 .. Len(t) + 1
    BY <2>2, TextFacts DEF Laid
  <2>5. \A i \in 1 .. n : PartAt(t, off[i]) = parts[i]
    BY <1>1, <1>3, <2>2, <2>3, LaidPart
  <2>6. \A i, j \in 1 .. n : i < j => off[i] < off[j]
    BY <1>1, <1>3, <2>2, LaidIncreases
  <2>7. ASSUME NEW b \in PartsOf(t) PROVE \E i \in 1 .. n : b = off[i]
    <3>1. StartsAt(t, b)
      BY Zenon DEF PartsOf, StartsAt, IsComma
    <3> QED
      BY <1>1, <1>3, <2>2, <2>3, <3>1, LaidStarts
  <2>8. ASSUME NEW i \in 1 .. n PROVE off[i] \in PartsOf(t)
    <3>1. off[i] = 1 \/ IsComma(t, off[i] - 1)
      <4>1. CASE i = 1
        BY <2>2, <4>1 DEF Laid
      <4>2. CASE i # 1
        <5> DEFINE k == i - 1
        <5>1. k \in 1 .. n /\ k < n /\ k + 1 = i
          BY <1>1, <4>2
        <5> HIDE DEF k
        <5>2. IsComma(t, off[k] + Len(parts[k])) /\ off[k + 1] = off[k] + Len(parts[k]) + 1
              /\ off[k] \in 1 .. Len(t) + 1 /\ Len(parts[k]) \in Nat
          BY <2>2, <5>1 DEF Laid
        <5>3. off[i] - 1 = off[k] + Len(parts[k])
          BY <2>4, <5>1, <5>2
        <5> QED
          BY <5>2, <5>3
      <4> QED
        BY <4>1, <4>2
    <3>2. off[i] \in 1 .. Len(t) + 1 /\ ~Blank(PartAt(t, off[i]))
      BY <2>3, <2>4, <2>5
    <3> QED
      BY <3>1, <3>2, Zenon DEF PartsOf, IsComma
  <2>9. PartsOf(t) = {off[i] : i \in DOMAIN list}
    BY <1>1, <2>7, <2>8
  <2>10. \A i \in 1 .. n : off[i] \in Nat /\ TknsParse(PartAt(t, off[i])) = {list[i]}
    <3> TAKE i \in 1 .. n
    <3>1. off[i] \in Nat
      BY <2>4
    <3>2. PartAt(t, off[i]) = parts[i] /\ TknsParse(parts[i]) = {list[i]}
      BY <2>3, <2>5
    <3> QED
      BY <3>1, <3>2
  <2>11. Written(t, list, off)
    BY <1>1, <2>4, <2>6, <2>9, <2>10 DEF Written
  <2> QED
    BY <2>11 DEF t
<1> QED
  BY <1>1, <1>2, <1>3

(* Two lists of numbers that grow and have the same numbers are the same.   *)
Grows(f, n) == /\ \A i \in 1 .. n : f[i] \in Nat
               /\ \A i, j \in 1 .. n : i < j => f[i] < f[j]

AllFrom(f, m, g, n) == \A i \in 1 .. m : \E j \in 1 .. n : f[i] = g[j]
SameList(f, m, g, n) == m = n /\ \A i \in 1 .. n : f[i] = g[i]

LEMMA NoLater ==
  ASSUME NEW m \in Nat, NEW n \in Nat, NEW f, NEW g, Grows(f, m), Grows(g, n),
         \A i \in 1 .. m : \E j \in 1 .. n : f[i] = g[j],
         NEW k \in Nat, \A i \in 1 .. k : i <= m => i <= n /\ f[i] = g[i],
         k + 1 <= m
  PROVE  k + 1 <= n /\ g[k + 1] <= f[k + 1]
<1>1. k + 1 \in 1 .. m
  OBVIOUS
<1>2. PICK j \in 1 .. n : f[k + 1] = g[j]
  BY <1>1
<1>3. ~(j <= k)
  <2> SUFFICES ASSUME j <= k PROVE FALSE
    OBVIOUS
  <2>1. j \in 1 .. k /\ j \in 1 .. m /\ j < k + 1
    OBVIOUS
  <2>2. f[j] = f[k + 1]
    BY <1>2, <2>1
  <2>3. f[j] < f[k + 1] /\ f[j] \in Nat
    BY <1>1, <2>1 DEF Grows
  <2> QED
    BY <2>2, <2>3
<1>4. k + 1 \in 1 .. n
  BY <1>3
<1>5. k + 1 = j \/ k + 1 < j
  BY <1>3
<1>6. k + 1 < j => g[k + 1] < g[j]
  BY <1>4 DEF Grows
<1>7. g[k + 1] \in Nat /\ g[j] \in Nat
  BY <1>4 DEF Grows
<1> QED
  BY <1>2, <1>4, <1>5, <1>6, <1>7

LEMMA SameOrder ==
  ASSUME NEW m \in Nat, NEW n \in Nat, NEW f, NEW g, Grows(f, m), Grows(g, n),
         AllFrom(f, m, g, n), AllFrom(g, n, f, m)
  PROVE  SameList(f, m, g, n)
<1> DEFINE K == {k \in Nat : \A i \in 1 .. k : /\ i <= m => i <= n /\ f[i] = g[i]
                                               /\ i <= n => i <= m /\ f[i] = g[i]}
<1>2. 0 \in K
  OBVIOUS
<1>3. ASSUME NEW k \in Nat, k \in K PROVE k + 1 \in K
  <2>1. k + 1 <= m => k + 1 <= n /\ g[k + 1] <= f[k + 1]
    BY <1>3, NoLater DEF AllFrom
  <2>2. k + 1 <= n => k + 1 <= m /\ f[k + 1] <= g[k + 1]
    BY <1>3, NoLater DEF AllFrom
  <2>3. /\ k + 1 <= m => f[k + 1] \in Nat
        /\ k + 1 <= n => g[k + 1] \in Nat
    BY DEF Grows
  <2>4. /\ k + 1 <= m => k + 1 <= n /\ f[k + 1] = g[k + 1]
        /\ k + 1 <= n => k + 1 <= m /\ f[k + 1] = g[k + 1]
    BY <2>1, <2>2, <2>3
  <2>5. \A i \in 1 .. k + 1 : i \in 1 .. k \/ i = k + 1
    OBVIOUS
  <2> QED
    BY <1>3, <2>4, <2>5
<1> HIDE DEF K
<1>4. m \in K /\ n \in K
  BY <1>2, <1>3, Rec!NumberInduction
<1>5. m <= n
  BY <1>4 DEF K
<1>6. n <= m
  BY <1>4 DEF K
<1> QED
  BY <1>4, <1>5, <1>6 DEF K, SameList

LEMMA WrittenCut ==
  ASSUME NEW t, NEW list, NEW off, Written(t, list, off),
         NEW pairs, IsText(pairs), CutBy(t, pairs, Len(t) + 2)
  PROVE  pairs = list
<1> DEFINE m == Len(pairs)
           n == Len(list)
<1>1. PICK from :
        /\ \A i \in DOMAIN pairs : from[i] \in Nat /\ pairs[i] \in TknsParse(PartAt(t, from[i]))
        /\ \A i, j \in DOMAIN pairs : i < j => from[i] < from[j]
        /\ {from[i] : i \in DOMAIN pairs} = Before(t, Len(t) + 2)
  BY DEF CutBy
<1>2. m \in Nat /\ n \in Nat /\ DOMAIN pairs = 1 .. m /\ DOMAIN list = 1 .. n /\ Len(t) \in Nat
  BY TextFacts DEF Written
<1>3. Before(t, Len(t) + 2) = PartsOf(t)
  <2>1. \A a \in PartsOf(t) : a \in 1 .. Len(t) + 1
    BY Zenon DEF PartsOf
  <2>2. \A a \in PartsOf(t) : a < Len(t) + 2
    BY <1>2, <2>1
  <2> QED
    BY <2>2 DEF Before
<1> HIDE DEF m, n
<1>4. Grows(from, m) /\ Grows(off, n)
  BY <1>1, <1>2 DEF Written, Grows
<1>44. {from[i] : i \in 1 .. m} = {off[i] : i \in 1 .. n}
  BY <1>1, <1>2, <1>3 DEF Written
<1>45. AllFrom(from, m, off, n) /\ AllFrom(off, n, from, m)
  BY <1>44 DEF AllFrom
<1>5. m = n /\ \A i \in 1 .. n : from[i] = off[i]
  <2>1. SameList(from, m, off, n)
    BY <1>2, <1>4, <1>45, SameOrder, Zenon
  <2> QED
    BY <2>1 DEF SameList
<1>6. \A i \in 1 .. n : pairs[i] = list[i]
  BY <1>1, <1>2, <1>5 DEF Written
<1>7. pairs \in Seq(ToSet(pairs)) /\ list \in Seq(ToSet(list)) /\ Len(pairs) = Len(list)
  BY <1>5 DEF IsText, Written, m, n
<1> QED
  BY <1>2, <1>6, <1>7 DEF n

------------------------------------------------------------------------------
(* The value that is written of a specification: its type, its default d    *)
(* after a question mark at 2, if any, and its description after an         *)
(* apostrophe at m, if any.                                                 *)
SpecLaid(v, s, d, m) ==
    /\ IsText(v) /\ Len(v) \in Nat /\ Len(d) \in Nat /\ Len(s.desc) \in Nat
    /\ v[1] = s.type
    /\ m = IF s.req THEN 2 ELSE Len(d) + 3
    /\ Len(v) = IF s.desc = <<>> THEN m - 1 ELSE m + Len(s.desc)
    /\ ~s.req => v[2] = "?" /\ \A j \in 1 .. Len(d) : v[2 + j] = d[j]
    /\ s.desc # <<>> => v[m] = "'" /\ \A j \in 1 .. Len(s.desc) : v[m + j] = s.desc[j]

(* A text after a marker, or nothing.                                       *)
MarkedText(w, there, mark, x) ==
    /\ IsText(w) /\ Len(x) \in Nat
    /\ Len(w) = IF there THEN Len(x) + 1 ELSE 0
    /\ there => w[1] = mark /\ \A j \in 1 .. Len(x) : w[1 + j] = x[j]

LEMMA MarkedTextIs ==
  ASSUME NEW there \in BOOLEAN, NEW mark, NEW x, IsText(x)
  PROVE  MarkedText(IF there THEN <<mark>> \o x ELSE <<>>, there, mark, x)
<1> DEFINE one == <<mark>>
           w == one \o x
<1>1. IsText(one) /\ Len(one) = 1 /\ one[1] = mark
  BY ShortTexts
<1>2. Len(x) \in Nat
  BY TextFacts
<1>3. w = one \o x
  OBVIOUS
<1>4. MarkedText(<<>>, FALSE, mark, x)
  BY <1>2, ShortTexts DEF MarkedText
<1> HIDE DEF w, one
<1>5. IsConcat(w, one, x)
  BY <1>1, <1>3, ConcatIs, Zenon
<1>6. MarkedText(w, TRUE, mark, x)
  <2>1. 1 \in 1 .. Len(one)
    BY <1>1
  <2> QED
    BY <1>1, <1>2, <1>5, <2>1 DEF IsConcat, MarkedText
<1>7. w = <<mark>> \o x
  BY <1>3 DEF one
<1>8. CASE there
  BY <1>6, <1>7, <1>8
<1>9. CASE ~there
  BY <1>4, <1>9
<1> QED
  BY <1>8, <1>9

LEMMA SpecIsLaid ==
  ASSUME NEW s, SpecValid(s), s.req \in BOOLEAN,
         NEW d, IsText(d), ~s.req => d = TypeFormatValue(s.type, s.dflt)
  PROVE  \E m : SpecLaid(SpecFormatTkns(s).value, s, d, m)
<1> DEFINE one == <<s.type>>
           there == s.desc # <<>>
           D == IF ~s.req THEN <<"?">> \o d ELSE <<>>
           C == IF there THEN <<"'">> \o s.desc ELSE <<>>
           b == one \o D
           v == b \o C
           m == IF s.req THEN 2 ELSE Len(d) + 3
<1>1. SpecFormatTkns(s).value = v
  <2>1. D = IF s.req THEN <<>> ELSE <<"?">> \o TypeFormatValue(s.type, s.dflt)
    <3>1. CASE s.req
      BY <3>1
    <3>2. CASE ~s.req
      BY <3>2
    <3> QED
      BY <3>1, <3>2
  <2>2. C = IF s.desc = <<>> THEN <<>> ELSE <<"'">> \o s.desc
    OBVIOUS
  <2> HIDE DEF D, C
  <2> QED
    BY <2>1, <2>2, Zenon DEF SpecFormatTkns
<1>2. IsText(one) /\ Len(one) = 1 /\ one[1] = s.type
  BY ShortTexts
<1>3. MarkedText(D, ~s.req, "?", d)
  BY MarkedTextIs
<1>4. MarkedText(C, there, "'", s.desc)
  <2>1. IsText(s.desc) /\ there \in BOOLEAN
    BY DEF SpecValid
  <2> QED
    BY <2>1, MarkedTextIs
<1>5. b = one \o D /\ v = b \o C
  OBVIOUS
<1>6. there <=> s.desc # <<>>
  OBVIOUS
<1> HIDE DEF v, b, one, D, C, there
<1>7. IsConcat(b, one, D)
  BY <1>2, <1>3, <1>5, ConcatIs, Zenon DEF MarkedText
<1>8. IsConcat(v, b, C)
  <2>1. IsText(b) /\ IsText(C)
    BY <1>4, <1>7 DEF MarkedText, IsConcat
  <2> QED
    BY <1>5, <2>1, ConcatIs, Zenon
<1>9. /\ Len(d) \in Nat /\ Len(s.desc) \in Nat
      /\ Len(D) = (IF s.req THEN 0 ELSE Len(d) + 1)
      /\ Len(C) = (IF there THEN Len(s.desc) + 1 ELSE 0)
  BY <1>3, <1>4 DEF MarkedText
<1>10. Len(b) = m - 1 /\ m \in Nat /\ m >= 2
  BY <1>2, <1>7, <1>9 DEF IsConcat
<1>11. Len(v) = IF there THEN m + Len(s.desc) ELSE m - 1
  <2>1. Len(v) = Len(b) + Len(C)
    BY <1>8 DEF IsConcat
  <2> HIDE DEF m
  <2>2. CASE there
    BY <1>9, <1>10, <2>1, <2>2
  <2>3. CASE ~there
    BY <1>9, <1>10, <2>1, <2>3
  <2> QED
    BY <2>2, <2>3
<1>12. v[1] = s.type
  <2>1. 1 \in 1 .. Len(one) /\ 1 \in 1 .. Len(b)
    BY <1>2, <1>10
  <2> QED
    BY <1>2, <1>7, <1>8, <2>1 DEF IsConcat
<1>13. ASSUME ~s.req PROVE v[2] = "?" /\ \A j \in 1 .. Len(d) : v[2 + j] = d[j]
  <2>1. m = Len(d) + 3 /\ Len(D) = Len(d) + 1
    BY <1>9, <1>13
  <2>2. ASSUME NEW k \in 1 .. Len(D) PROVE v[1 + k] = D[k]
    <3>1. 1 + k \in 1 .. Len(b)
      BY <1>9, <1>10, <2>1, <2>2
    <3>2. b[1 + k] = D[k]
      BY <1>2, <1>7, <2>2 DEF IsConcat
    <3> QED
      BY <1>8, <3>1, <3>2 DEF IsConcat
  <2>3. D[1] = "?" /\ \A j \in 1 .. Len(d) : D[1 + j] = d[j]
    BY <1>3, <1>13 DEF MarkedText
  <2>4. v[2] = "?"
    <3>1. 1 \in 1 .. Len(D) /\ 1 + 1 = 2
      BY <1>9, <2>1
    <3> QED
      BY <2>2, <2>3, <3>1
  <2>5. ASSUME NEW j \in 1 .. Len(d) PROVE v[2 + j] = d[j]
    <3> DEFINE k == 1 + j
    <3>1. k \in 1 .. Len(D) /\ 1 + k = 2 + j
      BY <1>9, <2>1
    <3>2. D[k] = d[j]
      BY <2>3
    <3> HIDE DEF k
    <3>3. v[1 + k] = D[k]
      BY <2>2, <3>1
    <3> QED
      BY <3>1, <3>2, <3>3
  <2> QED
    BY <2>4, <2>5
<1>14. ASSUME there PROVE v[m] = "'" /\ \A j \in 1 .. Len(s.desc) : v[m + j] = s.desc[j]
  <2>1. Len(C) = Len(s.desc) + 1
    BY <1>9, <1>14
  <2>2. ASSUME NEW k \in 1 .. Len(C) PROVE v[m - 1 + k] = C[k]
    BY <1>8, <1>10 DEF IsConcat
  <2>3. C[1] = "'" /\ \A j \in 1 .. Len(s.desc) : C[1 + j] = s.desc[j]
    BY <1>4, <1>14 DEF MarkedText
  <2> HIDE DEF m
  <2>4. v[m] = "'"
    <3>1. 1 \in 1 .. Len(C) /\ m - 1 + 1 = m
      BY <1>9, <1>10, <2>1
    <3> QED
      BY <2>2, <2>3, <3>1
  <2>5. ASSUME NEW j \in 1 .. Len(s.desc) PROVE v[m + j] = s.desc[j]
    <3> DEFINE k == 1 + j
    <3>1. k \in 1 .. Len(C) /\ m - 1 + k = m + j
      BY <1>9, <1>10, <2>1
    <3>2. C[k] = s.desc[j]
      BY <2>3
    <3> HIDE DEF k
    <3>3. v[m - 1 + k] = C[k]
      BY <2>2, <3>1
    <3> QED
      BY <3>1, <3>2, <3>3
  <2> QED
    BY <2>4, <2>5
<1>15. IsText(v) /\ Len(v) \in Nat
  BY <1>8, TextFacts DEF IsConcat
<1>16. SpecLaid(v, s, d, m)
  BY <1>6, <1>9, <1>11, <1>12, <1>13, <1>14, <1>15 DEF SpecLaid
<1> QED
  BY <1>1, <1>16

LEMMA PartsAreRead ==
  ASSUME NEW v, NEW s, NEW d, NEW m, SpecLaid(v, s, d, m), IsText(d), IsText(s.desc),
         s.req \in BOOLEAN, Unmarked(d), Unmarked(s.desc), ~s.req => d # <<>>
  PROVE  Parts(v) = [dflt |-> IF s.req THEN {} ELSE {d},
                     desc |-> IF s.desc = <<>> THEN {} ELSE {s.desc}]
<1> DEFINE n == Len(v)
           x == s.desc
           there == x # <<>>
<1>1. /\ IsText(v) /\ n \in Nat /\ Len(d) \in Nat /\ Len(x) \in Nat
      /\ m = (IF s.req THEN 2 ELSE Len(d) + 3)
      /\ n = (IF x = <<>> THEN m - 1 ELSE m + Len(x))
  BY DEF SpecLaid
<1>2. ~s.req => v[2] = "?" /\ \A j \in 1 .. Len(d) : v[2 + j] = d[j]
  BY DEF SpecLaid
<1>3. there => v[m] = "'" /\ \A j \in 1 .. Len(x) : v[m + j] = x[j]
  BY DEF SpecLaid
<1>4. /\ DOMAIN v = 1 .. n /\ DOMAIN d = 1 .. Len(d) /\ DOMAIN x = 1 .. Len(x)
      /\ there => Len(x) >= 1
      /\ ~s.req => Len(d) >= 1
  <2>1. DOMAIN v = 1 .. n /\ DOMAIN d = 1 .. Len(d) /\ DOMAIN x = 1 .. Len(x)
    BY <1>1, TextFacts
  <2>2. (x = <<>> <=> Len(x) = 0) /\ (d = <<>> <=> Len(d) = 0)
    BY WholeText
  <2> HIDE DEF x
  <2>3. there => Len(x) >= 1
    BY <1>1, <2>2
  <2>4. ~s.req => Len(d) >= 1
    BY <1>1, <2>2
  <2> QED
    BY <2>1, <2>3, <2>4
<1> HIDE DEF x
<1>5. m \in Nat /\ m >= 2 /\ m <= n + 1 /\ n >= 1
  BY <1>1
<1>6. IsMarker("?") /\ IsMarker("'")
  BY DEF IsMarker
<1>7. ASSUME NEW from \in Nat, from >= 1, from <= n + 1, NEW i \in from .. n + 1,
             i = n + 1 \/ IsMarker(v[i]), \A j \in from .. i - 1 : ~IsMarker(v[j])
      PROVE  NextMarker(v, from) = i
  <2>1. EndsAt(NextMarker(v, from), from, n, NotMarkers(v))
    BY <1>1, <1>7, MarkerEnds
  <2>2. EndsAt(i, from, n, NotMarkers(v))
    BY <1>1, <1>4, <1>7 DEF EndsAt, NotMarkers
  <2> QED
    BY <1>1, <1>7, <2>1, <2>2, RunEnds
<1> DEFINE first == NextMarker(v, 2)
<1>8. first = 2
  <2>1. 2 = n + 1 \/ IsMarker(v[2])
    <3>1. CASE ~s.req
      BY <1>2, <1>6, <3>1
    <3>2. CASE s.req /\ there
      BY <1>1, <1>3, <1>6, <3>2
    <3>3. CASE s.req /\ ~there
      BY <1>1, <3>3
    <3> QED
      BY <3>1, <3>2, <3>3
  <2>2. 2 \in Nat /\ 2 >= 1 /\ 2 <= n + 1 /\ 2 \in 2 .. n + 1 /\ 2 .. 2 - 1 = {}
    BY <1>1, <1>5
  <2> QED
    BY <1>7, <2>1, <2>2
<1>9. PICK f : PartsSteps(f, v)
  BY <1>1, PartsDef
<1>10. Parts(v) = IF first > n THEN NoParts ELSE f[first]
  BY <1>9 DEF PartsSteps
<1>11. \A p \in 1 .. n : f[p] = WithPart(v, p, f[NextPart(v, p)])
  BY <1>9 DEF PartsSteps
<1> HIDE DEF first
<1>12. ASSUME there PROVE m <= n /\ f[m] = [dflt |-> {}, desc |-> {x}]
  <2>1. m \in 1 .. n /\ m # n /\ n = m + Len(x)
    BY <1>1, <1>4, <1>5, <1>12
  <2>2. NextPart(v, m) = n + 1
    <3> DEFINE b == m + 2
    <3>1. b \in Nat /\ b >= 1 /\ b <= n + 1 /\ n + 1 \in b .. n + 1
      BY <1>1, <1>5, <2>1
    <3>2. ASSUME NEW j \in b .. (n + 1) - 1 PROVE ~IsMarker(v[j])
      <4> DEFINE k == j - m
      <4>1. k \in 1 .. Len(x) /\ m + k = j
        BY <1>1, <1>5, <2>1
      <4> HIDE DEF k
      <4>2. v[j] = x[k] /\ k \in DOMAIN x
        BY <1>3, <1>4, <1>12, <4>1
      <4> QED
        BY <4>2 DEF Unmarked, x
    <3> HIDE DEF b
    <3>3. NextMarker(v, b) = n + 1
      BY <1>7, <3>1, <3>2
    <3> QED
      BY <2>1, <3>3 DEF NextPart, b
  <2>3. SubSeq(v, m + 1, n) = x
    <3> DEFINE b == m + 1
               e == n + 1
    <3>1. b \in Nat /\ b >= 1 /\ e = b + Len(x) /\ e <= Len(v) + 1 /\ e - 1 = n
      BY <1>1, <1>5, <2>1
    <3>2. \A j \in 1 .. Len(x) : v[b + j - 1] = x[j]
      <4> TAKE j \in 1 .. Len(x)
      <4>1. b + j - 1 = m + j
        BY <1>5
      <4> QED
        BY <1>3, <1>12, <4>1
    <3> HIDE DEF b, e
    <3>3. IsText(x)
      BY DEF x
    <3>4. IsText(v)
      BY <1>1
    <3>5. b \in Nat /\ b >= 1
      BY <3>1
    <3>6. e = b + Len(x)
      BY <3>1
    <3>7. e <= Len(v) + 1
      BY <3>1
    <3> HIDE DEF x
    <3>8. SubSeq(v, b, e - 1) = x
      BY <3>2, <3>3, <3>4, <3>5, <3>6, <3>7, PartEquals
    <3> QED
      BY <3>1, <3>8 DEF b
  <2>4. f[m] = WithPart(v, m, f[NextPart(v, m)])
    BY <1>11, <2>1
  <2>5. ASSUME NEW after PROVE WithPart(v, m, after) = [dflt |-> {}, desc |-> {x}]
    <3>1. (n + 1) - 1 = n /\ n + 1 > Len(v)
      BY <1>1
    <3>2. v[m] = "'"
      BY <1>3, <1>12
    <3>3. v[m] # "?"
      BY <3>2
    <3> QED
      BY <2>2, <2>3, <3>1, <3>3 DEF WithPart, NoParts
  <2>6. f[m] = [dflt |-> {}, desc |-> {x}]
    BY <2>4, <2>5
  <2> QED
    BY <1>1, <1>5, <2>1, <2>6
<1> DEFINE after == IF there THEN [dflt |-> {}, desc |-> {x}] ELSE NoParts
<1>13. ASSUME ~s.req PROVE 2 <= n /\ f[2] = [dflt |-> {d}, desc |-> after.desc]
  <2>1. m = Len(d) + 3 /\ Len(d) >= 1 /\ 2 \in 1 .. n /\ 2 # n
    BY <1>1, <1>4, <1>13
  <2>2. NextPart(v, 2) = m
    <3>1. 4 \in Nat /\ 4 >= 1 /\ 4 <= n + 1 /\ m \in 4 .. n + 1 /\ 2 + 2 = 4
      BY <1>1, <1>5, <2>1
    <3>2. m = n + 1 \/ IsMarker(v[m])
      BY <1>1, <1>3, <1>6
    <3>3. ASSUME NEW j \in 4 .. m - 1 PROVE ~IsMarker(v[j])
      <4> DEFINE k == j - 2
      <4>1. k \in 1 .. Len(d) /\ 2 + k = j
        BY <1>1, <2>1
      <4> HIDE DEF k
      <4>2. v[j] = d[k] /\ k \in DOMAIN d
        BY <1>2, <1>4, <1>13, <4>1
      <4> QED
        BY <4>2 DEF Unmarked
    <3>4. NextMarker(v, 4) = m
      BY <1>7, <3>1, <3>2, <3>3
    <3> QED
      BY <2>1, <3>1, <3>4 DEF NextPart
  <2>3. SubSeq(v, 2 + 1, m - 1) = d
    <3>1. 3 \in Nat /\ 3 >= 1 /\ m = 3 + Len(d) /\ m <= Len(v) + 1 /\ 2 + 1 = 3
      BY <1>1, <1>5, <2>1
    <3>2. \A j \in 1 .. Len(d) : v[3 + j - 1] = d[j]
      <4> TAKE j \in 1 .. Len(d)
      <4>1. 3 + j - 1 = 2 + j
        OBVIOUS
      <4> QED
        BY <1>2, <1>13, <4>1
    <3>3. SubSeq(v, 3, m - 1) = d
      BY <1>1, <3>1, <3>2, PartEquals
    <3> QED
      BY <3>1, <3>3
  <2>4. f[2] = WithPart(v, 2, f[m])
    BY <1>11, <2>1, <2>2
  <2>5. (IF m > Len(v) THEN NoParts ELSE f[m]) = after
    <3>1. CASE there
      BY <1>1, <1>5, <1>12, <3>1
    <3>2. CASE ~there
      BY <1>1, <1>5, <3>2
    <3> QED
      BY <3>1, <3>2
  <2>6. after.dflt = {}
    BY DEF NoParts
  <2> HIDE DEF after
  <2>7. v[2] = "?"
    BY <1>2, <1>13
  <2>8. WithPart(v, 2, f[m]) = [dflt |-> {d}, desc |-> after.desc]
    BY <2>2, <2>3, <2>5, <2>6, <2>7 DEF WithPart
  <2> QED
    BY <2>1, <2>4, <2>8
<1>14. CASE ~s.req
  <2>1. Parts(v) = f[2]
    BY <1>1, <1>8, <1>10, <1>13, <1>14
  <2>2. after.desc = IF x = <<>> THEN {} ELSE {x}
    BY DEF NoParts
  <2> HIDE DEF after
  <2> QED
    BY <1>13, <1>14, <2>1, <2>2 DEF x
<1>15. CASE s.req /\ there
  <2>1. m = 2
    BY <1>1, <1>15
  <2>2. Parts(v) = f[m]
    BY <1>1, <1>8, <1>10, <1>12, <1>15, <2>1
  <2> QED
    BY <1>12, <1>15, <2>2 DEF x
<1>16. CASE s.req /\ ~there
  <2>1. first > n
    BY <1>1, <1>8, <1>16
  <2> QED
    BY <1>10, <1>16, <2>1 DEF NoParts, x
<1> QED
  BY <1>14, <1>15, <1>16

(* A character that is neither of the separators.                           *)
Sound(c) == c # "=" /\ c # ","

LEMMA SoundText ==
  ASSUME NEW t
  PROVE  TknValid(t) <=> \A i \in DOMAIN t : Sound(t[i])
  BY Zenon DEF TknValid, Sound, ToSet

LEMMA SoundCharacters == \A c \in OptTypes \cup {"?", "'"} : Sound(c)
<1>1. Sound("s") /\ Sound("b") /\ Sound("S") /\ Sound("U") /\ Sound("?") /\ Sound("'")
  BY Zenon DEF Sound
<1> QED
  BY <1>1 DEF OptTypes

LEMMA LaidPlain ==
  ASSUME NEW v, NEW s, NEW d, NEW m, SpecLaid(v, s, d, m), IsText(d), IsText(s.desc),
         s.req \in BOOLEAN, s.type \in OptTypes, Plain(d), Plain(s.desc),
         ~s.req => d # <<>>
  PROVE  Plain(v)
<1> DEFINE n == Len(v)
           x == s.desc
           there == x # <<>>
<1>1. /\ IsText(v) /\ n \in Nat /\ Len(d) \in Nat /\ Len(x) \in Nat
      /\ m = (IF s.req THEN 2 ELSE Len(d) + 3)
      /\ n = (IF x = <<>> THEN m - 1 ELSE m + Len(x))
      /\ v[1] = s.type
  BY DEF SpecLaid
<1>2. ~s.req => v[2] = "?" /\ \A j \in 1 .. Len(d) : v[2 + j] = d[j]
  BY DEF SpecLaid
<1>3. there => v[m] = "'" /\ \A j \in 1 .. Len(x) : v[m + j] = x[j]
  BY DEF SpecLaid
<1>4. DOMAIN v = 1 .. n /\ DOMAIN d = 1 .. Len(d) /\ DOMAIN x = 1 .. Len(x)
  BY <1>1, TextFacts
<1>5. (x = <<>> <=> Len(x) = 0) /\ (d = <<>> <=> Len(d) = 0)
  BY WholeText
<1>6. TknValid(d) /\ Ends(d) /\ TknValid(x) /\ Ends(x)
  BY PlainIs
<1>7. (\A i \in DOMAIN d : Sound(d[i])) /\ (\A i \in DOMAIN x : Sound(x[i]))
  BY <1>6, SoundText
<1>8. Sound(s.type) /\ Sound("?") /\ Sound("'")
  BY SoundCharacters
<1> HIDE DEF x, n
<1>9. ASSUME NEW i \in 1 .. n PROVE Sound(v[i])
  <2>1. CASE i = 1
    BY <1>1, <1>8, <2>1
  <2>2. CASE i > 1 /\ i < m
    <3>1. ~s.req /\ m = Len(d) + 3
      BY <1>1, <2>2
    <3>2. CASE i = 2
      BY <1>2, <1>8, <3>1, <3>2
    <3>3. CASE i # 2
      <4> DEFINE k == i - 2
      <4>1. k \in 1 .. Len(d) /\ 2 + k = i
        BY <1>1, <2>2, <3>1, <3>3
      <4> HIDE DEF k
      <4> QED
        BY <1>2, <1>4, <1>7, <3>1, <4>1
    <3> QED
      BY <3>2, <3>3
  <2>3. CASE i >= m
    <3>1. there /\ n = m + Len(x) /\ m \in Nat
      BY <1>1, <2>3
    <3>2. CASE i = m
      BY <1>3, <1>8, <3>1, <3>2
    <3>3. CASE i # m
      <4> DEFINE k == i - m
      <4>1. k \in 1 .. Len(x) /\ m + k = i
        BY <1>1, <2>3, <3>1, <3>3
      <4> HIDE DEF k
      <4> QED
        BY <1>3, <1>4, <1>7, <3>1, <4>1
    <3> QED
      BY <3>2, <3>3
  <2> QED
    BY <1>1, <2>1, <2>2, <2>3
<1>10. TknValid(v)
  BY <1>4, <1>9, SoundText
<1>11. ~IsSpace(s.type)
  BY DEF OptTypes, IsSpace
<1>12. ~IsSpace(v[n])
  <2>1. CASE there
    <3>1. Len(x) \in 1 .. Len(x) /\ n = m + Len(x)
      BY <1>1, <1>5, <2>1
    <3>2. v[n] = x[Len(x)]
      BY <1>3, <2>1, <3>1
    <3> QED
      BY <1>6, <2>1, <3>2 DEF Ends
  <2>2. CASE ~there /\ ~s.req
    <3>1. Len(d) \in 1 .. Len(d) /\ n = 2 + Len(d)
      BY <1>1, <1>5, <2>2
    <3>2. v[n] = d[Len(d)]
      BY <1>2, <2>2, <3>1
    <3> QED
      BY <1>6, <2>2, <3>2 DEF Ends
  <2>3. CASE ~there /\ s.req
    <3>1. n = 1
      BY <1>1, <2>3
    <3> QED
      BY <1>1, <1>11, <3>1
  <2> QED
    BY <2>1, <2>2, <2>3
<1>13. Ends(v)
  BY <1>1, <1>11, <1>12 DEF Ends, n
<1> QED
  BY <1>1, <1>10, <1>13, PlainIs

(* A specification that can be written is read back from what is written.   *)
LEMMA SpecReadBack ==
  ASSUME NEW s, SpecValid(s), SpecPlain(s), SpecReadable(s)
  PROVE  SpecParseTkns(SpecFormatTkns(s)) = {s} /\ PlainPair(SpecFormatTkns(s))
<1> DEFINE t == SpecFormatTkns(s)
           v == t.value
           d == IF s.req THEN <<>> ELSE TypeFormatValue(s.type, s.dflt)
           parts == Parts(v)
<1>1. /\ s = OptSpec(s.name, s.type, s.req, s.dflt, s.desc)
      /\ s.req \in BOOLEAN /\ (s.req => s.dflt = NoValue)
      /\ Plain(s.name) /\ Plain(s.desc) /\ Unmarked(s.desc)
      /\ Plain(s.dflt.str) /\ Unmarked(s.dflt.str)
  BY DEF SpecPlain, Unmarked
<1>2. /\ IsText(s.name) /\ s.name # <<>> /\ IsText(s.desc) /\ s.type \in OptTypes
      /\ ~s.req => ValueValid(s.type, s.dflt)
  BY DEF SpecValid
<1>3. IsText(d) /\ Plain(d) /\ Unmarked(d) /\ (~s.req => d # <<>>)
  <2>1. CASE s.req
    <3>1. IsText(<<>>)
      BY ShortTexts
    <3>2. Ends(<<>>) /\ TknValid(<<>>) /\ Unmarked(<<>>)
      <4>1. DOMAIN <<>> = {}
        BY <3>1, TextFacts, WholeText
      <4>2. TknValid(<<>>)
        BY <4>1, SoundText
      <4> QED
        BY <4>1, <4>2 DEF Ends, Unmarked
    <3>3. Plain(<<>>)
      BY <3>1, <3>2, PlainIs
    <3> QED
      BY <2>1, <3>1, <3>2, <3>3
  <2>2. CASE ~s.req
    <3>1. IsText(TypeFormatValue(s.type, s.dflt))
      BY <1>2, <2>2, ValueWritten
    <3>2. Plain(TypeFormatValue(s.type, s.dflt)) /\ Unmarked(TypeFormatValue(s.type, s.dflt))
      BY <1>1, <1>2, <2>2, ValuePlain
    <3> QED
      BY <2>2, <3>1, <3>2 DEF SpecReadable
  <2> QED
    BY <1>1, <2>1, <2>2
<1>4. ~s.req => d = TypeFormatValue(s.type, s.dflt)
  OBVIOUS
<1>5. t = [name |-> s.name, value |-> v]
  BY DEF SpecFormatTkns
<1> HIDE DEF d, t
<1>6. PICK m : SpecLaid(v, s, d, m)
  BY <1>1, <1>3, <1>4, SpecIsLaid DEF t
<1> HIDE DEF v
<1>7. Plain(v)
  BY <1>1, <1>2, <1>3, <1>6, LaidPlain
<1>8. PlainPair(t)
  <2>1. IsText(v)
    BY <1>6 DEF SpecLaid
  <2>2. t.name = s.name /\ t.value = v
    BY <1>5
  <2> QED
    BY <1>1, <1>2, <1>5, <1>7, <2>1, <2>2 DEF PlainPair, PairText
<1>9. parts = [dflt |-> IF s.req THEN {} ELSE {d},
               desc |-> IF s.desc = <<>> THEN {} ELSE {s.desc}]
  BY <1>1, <1>2, <1>3, <1>6, PartsAreRead
<1>10. v[1] = s.type /\ v # <<>>
  <2>1. Len(v) >= 1 /\ v[1] = s.type /\ IsText(v) /\ Len(v) \in Nat
    <3>1. /\ IsText(v) /\ Len(v) \in Nat /\ Len(d) \in Nat /\ Len(s.desc) \in Nat
          /\ v[1] = s.type
          /\ m = IF s.req THEN 2 ELSE Len(d) + 3
          /\ Len(v) = IF s.desc = <<>> THEN m - 1 ELSE m + Len(s.desc)
      BY <1>6 DEF SpecLaid
    <3> DEFINE nd == Len(d)
               nx == Len(s.desc)
               nv == Len(v)
    <3>2. /\ nv \in Nat /\ nd \in Nat /\ nx \in Nat
          /\ m = 2 \/ m = nd + 3
          /\ nv = m - 1 \/ nv = m + nx
      BY <3>1
    <3> HIDE DEF nd, nx, nv
    <3>3. nv >= 1
      BY <3>2
    <3> QED
      BY <3>1, <3>3 DEF nv
  <2>2. Len(v) # 0
    BY <2>1
  <2> QED
    BY <2>1, <2>2, WholeText
<1>11. SpecParseTkns(t) = SpecParsed(t, parts)
  <2>1. t.value = v
    BY <1>5
  <2> QED
    BY <1>2, <1>10, <2>1 DEF SpecParseTkns
<1> DEFINE desc == IF parts.desc = {} THEN <<>> ELSE CHOOSE x \in parts.desc : TRUE
           dflts == IF parts.dflt = {} THEN {NoValue}
                    ELSE UNION {TypeParseValue(s.type, x) : x \in parts.dflt}
<1>12. desc = s.desc
  <2>1. CASE s.desc = <<>>
    BY <1>9, <2>1
  <2>2. CASE s.desc # <<>>
    <3>1. parts.desc = {s.desc}
      BY <1>9, <2>2
    <3> HIDE DEF parts
    <3>2. parts.desc # {} /\ \A x \in parts.desc : x = s.desc
      BY <3>1
    <3>3. \E x \in parts.desc : TRUE
      BY <3>1
    <3>4. (CHOOSE x \in parts.desc : TRUE) \in parts.desc
      BY <3>3
    <3> QED
      BY <3>2, <3>4
  <2> QED
    BY <2>1, <2>2
<1>13. dflts = {s.dflt}
  <2>1. CASE s.req
    BY <1>1, <1>9, <2>1
  <2>2. CASE ~s.req
    <3>1. parts.dflt = {d}
      BY <1>9, <2>2
    <3>2. TypeParseValue(s.type, d) = {s.dflt}
      BY <1>2, <1>4, <2>2, ValueReadBack
    <3> HIDE DEF parts
    <3> QED
      BY <3>1, <3>2
  <2> QED
    BY <1>1, <2>1, <2>2
<1>14. (parts.dflt = {}) = s.req
  <2>1. s.req => parts.dflt = {}
    BY <1>9
  <2>2. ~s.req => parts.dflt # {}
    BY <1>9
  <2> HIDE DEF parts
  <2> QED
    BY <1>1, <2>1, <2>2
<1>15. SpecParsed(t, parts) = {OptSpec(s.name, s.type, (parts.dflt = {}), x, desc) : x \in dflts}
  <2>1. t.name = s.name /\ t.value[1] = s.type
    BY <1>5, <1>10
  <2> HIDE DEF parts
  <2> QED
    BY <2>1, Zenon, SMTT(30) DEF SpecParsed
<1> HIDE DEF parts, desc, dflts
<1>16. SpecParsed(t, parts) = {OptSpec(s.name, s.type, s.req, s.dflt, s.desc)}
  BY <1>12, <1>13, <1>14, <1>15
<1> QED
  BY <1>1, <1>8, <1>11, <1>16 DEF t

------------------------------------------------------------------------------
(* The pairs that are written of specifications and of options.             *)
SpecPairs(list) == [i \in DOMAIN list |-> SpecFormatTkns(list[i])]
OptPair(o) == [name |-> o.name, value |-> TypeFormatValue(o.type, o.value)]
OptPairs(list) == [i \in DOMAIN list |-> OptPair(list[i])]

LEMMA PairsOfList ==
  ASSUME NEW list, IsText(list), NEW pairs, DOMAIN pairs = DOMAIN list,
         pairs = [i \in DOMAIN list |-> pairs[i]]
  PROVE  IsText(pairs) /\ Len(pairs) = Len(list)
<1> DEFINE n == Len(list)
<1>1. n \in Nat /\ DOMAIN list = 1 .. n
  BY TextFacts
<1> HIDE DEF n
<1>2. pairs = [i \in 1 .. n |-> pairs[i]]
  BY <1>1
<1>3. \A i \in 1 .. n : pairs[i] \in ToSet(pairs)
  BY <1>1 DEF ToSet
<1>4. pairs \in Seq(ToSet(pairs))
  <2> DEFINE S == ToSet(pairs)
  <2>1. \A i \in 1 .. n : pairs[i] \in S
    BY <1>3
  <2> HIDE DEF S
  <2>2. pairs \in Seq(S)
    BY <1>1, <1>2, <2>1
  <2> QED
    BY <2>2 DEF S
<1>5. IsText(pairs)
  BY <1>4 DEF IsText
<1>6. Len(pairs) = n
  <2>1. Len(pairs) \in Nat /\ 1 .. n = 1 .. Len(pairs)
    BY <1>1, <1>5, TextFacts
  <2> QED
    BY <1>1, <2>1
<1> QED
  BY <1>5, <1>6 DEF n

CanWrite(s) == SpecValid(s) /\ SpecPlain(s) /\ SpecReadable(s)

LEMMA SpecsLaid ==
  ASSUME NEW list, IsText(list), \A i \in DOMAIN list : CanWrite(list[i])
  PROVE  /\ \E off : Written(SpecListFormat(list), SpecPairs(list), off)
         /\ IsText(SpecPairs(list)) /\ Len(SpecPairs(list)) = Len(list)
         /\ DOMAIN SpecPairs(list) = DOMAIN list
         /\ \A i \in DOMAIN list : SpecParseTkns(SpecPairs(list)[i]) = {list[i]}
<1> DEFINE pairs == SpecPairs(list)
<1>1. /\ DOMAIN pairs = DOMAIN list /\ pairs = [i \in DOMAIN list |-> pairs[i]]
      /\ \A i \in DOMAIN list : pairs[i] = SpecFormatTkns(list[i])
  BY DEF SpecPairs
<1>2. SpecListFormat(list) = TknsListFormat(pairs)
  BY DEF SpecListFormat, SpecPairs
<1> HIDE DEF pairs
<1>3. IsText(pairs) /\ Len(pairs) = Len(list)
  BY <1>1, PairsOfList
<1>4. \A i \in DOMAIN list : SpecParseTkns(pairs[i]) = {list[i]} /\ PlainPair(pairs[i])
  BY <1>1, SpecReadBack DEF CanWrite
<1>5. \E off : Written(TknsListFormat(pairs), pairs, off)
  BY <1>1, <1>3, <1>4, ListWritten
<1> QED
  BY <1>1, <1>2, <1>3, <1>4, <1>5 DEF pairs

(* An option of a specification, with a value that can be written.          *)
GoodOpt(x) ==
    \E s \in Specified : \E v : /\ x = Opt(s.name, s.type, v)
                                /\ ValueValid(s.type, v) /\ Plain(v.str)

LEMMA GoodOptRead ==
  ASSUME IsText(specs), \A i \in DOMAIN specs : SpecValid(specs[i]) /\ SpecPlain(specs[i]),
         NEW x, GoodOpt(x)
  PROVE  PlainPair(OptPair(x)) /\ OptsOfPair(OptPair(x)) = {x}
<1> DEFINE p == OptPair(x)
<1>1. PICK s \in Specified : \E v : /\ x = Opt(s.name, s.type, v)
                                    /\ ValueValid(s.type, v) /\ Plain(v.str)
  BY DEF GoodOpt
<1>2. PICK v : x = Opt(s.name, s.type, v) /\ ValueValid(s.type, v) /\ Plain(v.str)
  BY <1>1
<1>3. SpecValid(s) /\ SpecPlain(s)
  BY DEF Specified
<1>4. IsText(s.name) /\ s.name # <<>> /\ Plain(s.name) /\ s.type \in OptTypes
  BY <1>3 DEF SpecValid, SpecPlain
<1> DEFINE w == TypeFormatValue(s.type, v)
<1>5. p = [name |-> s.name, value |-> w]
  BY <1>2 DEF OptPair, Opt
<1>6. TypeParseValue(s.type, w) = {v} /\ Plain(w) /\ IsText(w)
  BY <1>2, <1>4, ValueReadBack, ValuePlain, ValueWritten
<1> HIDE DEF w, p
<1>7. p.name = s.name /\ p.value = w
  BY <1>5
<1>8. PlainPair(p)
  BY <1>4, <1>5, <1>6, <1>7 DEF PlainPair, PairText
<1>9. x \in OptsOfPair(p)
  BY <1>2, <1>6, <1>7, OptOfPair
<1>10. ASSUME NEW o \in OptsOfPair(p) PROVE o = x
  <2>1. PICK z \in Specified : \E u \in TypeParseValue(z.type, p.value) :
               z.name = p.name /\ o = Opt(z.name, z.type, u)
    BY OptOfPair
  <2>2. z = s
    BY <1>7, <2>1, OneOfName
  <2> QED
    BY <1>2, <1>6, <1>7, <2>1, <2>2
<1> QED
  BY <1>8, <1>9, <1>10 DEF p

LEMMA OptsLaid ==
  ASSUME IsText(specs), \A i \in DOMAIN specs : SpecValid(specs[i]) /\ SpecPlain(specs[i]),
         NEW list, IsText(list), \A i \in DOMAIN list : GoodOpt(list[i])
  PROVE  /\ \E off : Written(OptListFormat(list), OptPairs(list), off)
         /\ IsText(OptPairs(list)) /\ Len(OptPairs(list)) = Len(list)
         /\ DOMAIN OptPairs(list) = DOMAIN list
         /\ \A i \in DOMAIN list : /\ OptsOfPair(OptPairs(list)[i]) = {list[i]}
                                   /\ OptPairs(list)[i].name = list[i].name
<1> DEFINE pairs == OptPairs(list)
<1>1. /\ DOMAIN pairs = DOMAIN list /\ pairs = [i \in DOMAIN list |-> pairs[i]]
      /\ \A i \in DOMAIN list : pairs[i] = OptPair(list[i])
  BY DEF OptPairs
<1>2. OptListFormat(list) = TknsListFormat(pairs)
  BY DEF OptListFormat, OptPairs, OptPair
<1> HIDE DEF pairs
<1>3. IsText(pairs) /\ Len(pairs) = Len(list)
  BY <1>1, PairsOfList
<1>4. \A i \in DOMAIN list : OptsOfPair(pairs[i]) = {list[i]} /\ PlainPair(pairs[i])
  BY <1>1, GoodOptRead
<1>5. \A i \in DOMAIN list : pairs[i].name = list[i].name
  BY <1>1 DEF OptPair
<1>6. \E off : Written(TknsListFormat(pairs), pairs, off)
  BY <1>1, <1>3, <1>4, ListWritten
<1> QED
  BY <1>1, <1>2, <1>3, <1>4, <1>5, <1>6 DEF pairs

(* While the specifications are read from what was written of them, they    *)
(* are the first of those in the program, and in the end all of them.       *)
SpecsKept ==
    /\ known \in SpecLists
    /\ goal \in {"specs", "opts"}
    /\ goal = "opts" => specs = known
    /\ goal = "specs" =>
          /\ \A i \in DOMAIN known : SpecReadable(known[i])
          /\ given = SpecListFormat(known)
          /\ phase # "refused"
          /\ phase = "cut" => specs = <<>>
          /\ phase \in {"convert", "done"} =>
                /\ Len(specs) = at - 1 /\ at <= Len(tkns) + 1
                /\ \A i \in DOMAIN specs : specs[i] = known[i]
          /\ phase = "done" => specs = known

LEMMA KnownFacts ==
  ASSUME Writable, SpecsKept
  PROVE  IsText(known) /\ \A i \in DOMAIN known : SpecValid(known[i]) /\ SpecPlain(known[i])
  BY SpecListsAssumption DEF Writable, SpecsKept

(* No part of what was written is refused, and its pairs are those written. *)
LEMMA WrittenNotCut ==
  ASSUME CutInv, NEW list, NEW off, Written(given, list, off), Cut
  PROVE  phase' # "refused"
<1>1. PICK text \in rest : CutPiece(text) \/ CutFails(text)
  BY DEF Cut
<1>2. phase = "cut"
  BY DEF Cut
<1>3. PICK b : StartsAt(given, b) /\ rest = {SubSeq(given, b, Len(given))}
  BY <1>1, <1>2 DEF CutInv
<1>4. text = SubSeq(given, b, Len(given)) /\ IsText(given) /\ b \in 1 .. Len(given) + 1
  BY <1>1, <1>3 DEF CutInv, StartsAt
<1>5. Piece(text) = PartAt(given, b)
  BY <1>4, CutHere
<1>6. CASE CutPiece(text)
  BY <1>2, <1>6 DEF CutPiece
<1>7. CASE CutFails(text)
  <2>1. /\ ~Blank(PartAt(given, b))
        /\ phase' = IF TknsParse(PartAt(given, b)) = {} THEN "refused" ELSE "failed"
    BY <1>5, <1>7 DEF CutFails
  <2>2. b \in PartsOf(given)
    BY <1>3, <1>4, <2>1, NextParts
  <2>3. PICK i \in DOMAIN list : off[i] = b
    BY <2>2 DEF Written
  <2>4. TknsParse(PartAt(given, b)) # {}
    BY <2>3 DEF Written
  <2> QED
    BY <2>1, <2>4
<1> QED
  BY <1>1, <1>6, <1>7

LEMMA KnownPairs ==
  ASSUME Writable, SpecsKept, goal = "specs"
  PROVE  /\ \E off : Written(given, SpecPairs(known), off)
         /\ IsText(SpecPairs(known)) /\ Len(SpecPairs(known)) = Len(known)
         /\ DOMAIN SpecPairs(known) = DOMAIN known
         /\ \A i \in DOMAIN known : SpecParseTkns(SpecPairs(known)[i]) = {known[i]}
<1>1. IsText(known) /\ \A i \in DOMAIN known : CanWrite(known[i])
  BY KnownFacts DEF CanWrite, SpecsKept
<1>2. given = SpecListFormat(known)
  BY DEF SpecsKept
<1> QED
  BY <1>1, <1>2, SpecsLaid

LEMMA SpecsTkns ==
  ASSUME Writable, FitInv, CutInv, SpecsKept, goal = "specs", phase \in {"convert", "done"}
  PROVE  tkns = SpecPairs(known)
<1>1. PICK off : Written(given, SpecPairs(known), off)
  BY KnownPairs
<1>2. IsText(tkns) /\ CutBy(given, tkns, Len(given) + 2)
  BY DEF FitInv, CutInv
<1> QED
  BY <1>1, <1>2, WrittenCut

LEMMA InitSpecs == Init => SpecsKept
  BY DEF Init, SpecsKept

LEMMA ConvertSpecKept ==
  ASSUME Writable, FitInv, CutInv, SpecsKept, ConvertSpec
  PROVE  SpecsKept'
<1>1. goal = "specs" /\ phase = "convert" /\ at \in DOMAIN tkns
  BY TextFacts DEF ConvertSpec, FitInv
<1>2. tkns = SpecPairs(known) /\ DOMAIN tkns = DOMAIN known /\ SpecParseTkns(tkns[at]) = {known[at]}
  BY <1>1, SpecsTkns, KnownPairs
<1>3. /\ specs' = Append(specs, known[at]) /\ at' = at + 1
      /\ known' = known /\ goal' = goal /\ given' = given /\ tkns' = tkns /\ phase' = phase
  BY <1>2 DEF ConvertSpec, fixed
<1>4. /\ DOMAIN specs' = 1 .. Len(specs) + 1 /\ DOMAIN specs = 1 .. Len(specs)
      /\ Len(specs') = Len(specs) + 1 /\ Len(specs) \in Nat
      /\ \A i \in 1 .. Len(specs) : specs'[i] = specs[i]
      /\ specs'[Len(specs) + 1] = known[at]
  BY <1>3, AppendedTo DEF FitInv
<1>5. /\ Len(specs) = at - 1 /\ at <= Len(tkns) + 1 /\ at \in Nat
      /\ \A i \in DOMAIN specs : specs[i] = known[i]
  BY <1>1 DEF SpecsKept, FitInv
<1>6. at <= Len(tkns) /\ Len(tkns) \in Nat
  BY <1>1, TextFacts DEF FitInv
<1>7. Len(specs') = at' - 1 /\ at' <= Len(tkns') + 1
  BY <1>3, <1>4, <1>5, <1>6
<1>8. \A i \in DOMAIN specs' : specs'[i] = known'[i]
  <2> TAKE i \in DOMAIN specs'
  <2>1. i \in 1 .. Len(specs) \/ i = Len(specs) + 1
    BY <1>4
  <2>2. Len(specs) + 1 = at
    BY <1>5
  <2> QED
    BY <1>3, <1>4, <1>5, <2>1, <2>2
<1> QED
  BY <1>1, <1>3, <1>7, <1>8 DEF SpecsKept

LEMMA FinishKept ==
  ASSUME Writable, FitInv, CutInv, SpecsKept, Finish
  PROVE  SpecsKept'
<1>1. /\ known' = known /\ goal' = goal /\ given' = given /\ tkns' = tkns /\ at' = at
      /\ specs' = specs /\ phase' = "done" /\ phase = "convert"
  BY DEF Finish, fixed
<1>2. CASE goal = "opts"
  BY <1>1, <1>2 DEF SpecsKept
<1>3. CASE goal = "specs"
  <2>1. Len(tkns) = Len(known)
    BY <1>1, <1>3, SpecsTkns, KnownPairs
  <2>2. /\ Len(specs) = at - 1 /\ at <= Len(tkns) + 1 /\ at \in Nat
        /\ \A i \in DOMAIN specs : specs[i] = known[i]
    BY <1>1, <1>3 DEF SpecsKept, FitInv
  <2>3. at > Len(tkns) + 0 /\ Len(tkns) \in Nat
    BY <1>3, TextFacts DEF Finish, FitInv
  <2>4. Len(specs) = Len(known)
    BY <2>1, <2>2, <2>3
  <2>5. IsText(specs) /\ IsText(known) /\ DOMAIN specs = 1 .. Len(specs)
    BY KnownFacts, TextFacts DEF FitInv
  <2>6. specs \in Seq(ToSet(specs)) /\ known \in Seq(ToSet(known))
    BY <2>5 DEF IsText
  <2>7. specs = known
    BY <2>2, <2>4, <2>5, <2>6
  <2> QED
    BY <1>1, <1>3, <2>7 DEF SpecsKept
<1> QED
  BY <1>2, <1>3 DEF SpecsKept

LEMMA StepSpecs ==
  ASSUME Writable, FitInv, CutInv, SpecsKept, [Next]_vars
  PROVE  SpecsKept'
<1>1. CASE Cut
  <2>1. /\ known' = known /\ goal' = goal /\ given' = given
        /\ specs' = specs /\ phase' \in {"cut", "refused", "failed"} /\ phase = "cut"
    BY <1>1 DEF Cut, CutPiece, CutFails, fixed
  <2>2. goal = "specs" => phase' # "refused"
    BY <1>1, KnownPairs, WrittenNotCut
  <2> QED
    BY <2>1, <2>2 DEF SpecsKept
<1>2. CASE Allocate
  <2>1. /\ known' = known /\ goal' = goal /\ given' = given /\ at' = at /\ tkns' = tkns
        /\ specs' = specs /\ phase' \in {"convert", "failed"} /\ phase = "cut"
    BY <1>2 DEF Allocate, fixed
  <2>2. at = 1 /\ Len(tkns) \in Nat /\ DOMAIN <<>> = {} /\ Len(<<>>) = 0
    BY <2>1, TextFacts DEF FitInv
  <2>3. goal = "specs" => specs = <<>>
    BY <2>1 DEF SpecsKept
  <2>4. 0 = 1 - 1 /\ 1 <= Len(tkns) + 1
    BY <2>2
  <2> QED
    BY <2>1, <2>2, <2>3, <2>4 DEF SpecsKept
<1>3. CASE Convert \/ AddMissing
  <2>1. /\ known' = known /\ goal' = goal /\ goal = "opts" /\ specs' = specs
    BY <1>3 DEF Convert, AddMissing, AddOpt, Refuse, Skip, fixed
  <2> QED
    BY <2>1 DEF SpecsKept
<1>4. CASE ConvertSpec
  BY <1>4, ConvertSpecKept
<1>5. CASE Finish
  BY <1>5, FinishKept
<1>6. CASE Give
  <2>1. known' = known /\ goal' = "opts" /\ specs' = specs /\ phase = "done" /\ goal = "specs"
    BY <1>6 DEF Give, Begin
  <2> QED
    BY <2>1 DEF SpecsKept
<1>7. CASE WriteAndRead
  <2>1. known' = known /\ goal' = "opts" /\ specs' = specs /\ goal = "opts"
    BY <1>7 DEF WriteAndRead, Begin
  <2> QED
    BY <2>1 DEF SpecsKept
<1>8. CASE UNCHANGED vars
  BY <1>8 DEF vars, SpecsKept
<1> QED
  BY <1>1, <1>2, <1>3, <1>4, <1>5, <1>6, <1>7, <1>8 DEF Next

(* While the options are read from what was written of them, each pair is   *)
(* read as the option it was written of, and none is missing.               *)
OptsKept ==
    \A o \in kept :
        /\ goal = "opts" /\ phase # "refused"
        /\ kept = {o}
        /\ IsText(o) /\ \A i \in DOMAIN o : GoodOpt(o[i])
        /\ NamesIn(specs) \subseteq NamesIn(o)
        /\ given = OptListFormat(o)
        /\ phase \in {"convert", "done"} => Len(opts) <= Len(tkns)

LEMMA PlainSpecs ==
  ASSUME Writable, SpecsKept, goal = "opts"
  PROVE  IsText(specs) /\ \A i \in DOMAIN specs : SpecValid(specs[i]) /\ SpecPlain(specs[i])
  BY KnownFacts DEF SpecsKept

LEMMA KeptPairs ==
  ASSUME Writable, SpecsKept, OptsKept, NEW o \in kept
  PROVE  /\ \E off : Written(given, OptPairs(o), off)
         /\ IsText(OptPairs(o)) /\ Len(OptPairs(o)) = Len(o)
         /\ DOMAIN OptPairs(o) = DOMAIN o
         /\ \A i \in DOMAIN o : /\ OptsOfPair(OptPairs(o)[i]) = {o[i]}
                                /\ OptPairs(o)[i].name = o[i].name
<1>1. goal = "opts" /\ IsText(o) /\ (\A i \in DOMAIN o : GoodOpt(o[i])) /\ given = OptListFormat(o)
  BY DEF OptsKept
<1>2. IsText(specs) /\ \A i \in DOMAIN specs : SpecValid(specs[i]) /\ SpecPlain(specs[i])
  BY <1>1, PlainSpecs
<1> QED
  BY <1>1, <1>2, OptsLaid

LEMMA KeptTkns ==
  ASSUME Writable, FitInv, CutInv, SpecsKept, OptsKept, NEW o \in kept,
         phase \in {"convert", "done"}
  PROVE  /\ tkns = OptPairs(o) /\ DOMAIN tkns = DOMAIN o /\ Len(tkns) = Len(o)
         /\ \A i \in DOMAIN o : OptsOfPair(tkns[i]) = {o[i]} /\ tkns[i].name = o[i].name
<1>1. PICK off : Written(given, OptPairs(o), off)
  BY KeptPairs
<1>2. IsText(tkns) /\ CutBy(given, tkns, Len(given) + 2)
  BY DEF FitInv, CutInv
<1>3. tkns = OptPairs(o)
  BY <1>1, <1>2, WrittenCut
<1> QED
  BY <1>3, KeptPairs

(* The options that are done can be written.                                *)
LEMMA PlainNothing == Plain(<<>>)
<1>1. IsText(<<>>)
  BY ShortTexts
<1>2. DOMAIN <<>> = {}
  BY <1>1, TextFacts, WholeText
<1>3. Ends(<<>>) /\ TknValid(<<>>)
  BY <1>2, SoundText DEF Ends
<1> QED
  BY <1>1, <1>3, PlainIs

LEMMA ReadPlain ==
  ASSUME NEW type \in OptTypes, NEW t, IsText(t), Plain(t), NEW v \in TypeParseValue(type, t)
  PROVE  ValueValid(type, v) /\ Plain(v.str)
<1>1. ValueValid(type, v)
  BY ValueRead
<1>2. CASE type = "s"
  <2>1. v = Value(0, t)
    BY <1>2 DEF TypeParseValue
  <2> QED
    BY <1>1, <2>1 DEF Value
<1>3. CASE type # "s"
  BY <1>1, <1>3, PlainNothing DEF ValueValid
<1> QED
  BY <1>2, <1>3

LEMMA PairValuePlain ==
  ASSUME NEW t, IsText(t), NEW pairs, CutBy(t, pairs, Len(t) + 2), NEW k \in DOMAIN pairs
  PROVE  IsText(pairs[k].value) /\ Plain(pairs[k].value)
<1>1. PICK from : PartsAre(t, pairs, from)
  BY AllParts
<1> DEFINE a == from[k]
           p == PartAt(t, a)
           v == pairs[k].value
<1>2. a \in PartsOf(t) /\ v = ValueIn(p) /\ "=" \notin ToSet(v)
  BY <1>1 DEF PartsAre
<1>3. a \in 1 .. Len(t) + 1
  BY <1>2, Zenon DEF PartsOf
<1>4. IsText(p) /\ NoCommas(p)
  BY <1>3, PartIs
<1> HIDE DEF p, v
<1>5. MadeOf(v, p)
  BY <1>2, <1>4, PairMadeOf
<1>6. IsText(v) /\ NoCommas(v)
  <2>1. ToSet(v) \subseteq ToSet(p) /\ IsText(v)
    BY <1>5 DEF MadeOf
  <2> QED
    BY <1>4, <2>1, Zenon DEF NoCommas
<1>7. Ends(v)
  <2> DEFINE e == EqualEnd(p, 1)
             w == SubSeq(p, e + 1, Len(p))
  <2>1. v = Trimmed(w)
    BY <1>2 DEF ValueIn, EqualEnd
  <2>2. IsText(w)
    <3>1. Len(p) \in Nat /\ 1 <= Len(p) + 1
      BY <1>4, TextFacts
    <3>2. EndsAt(e, 1, Len(p), NotEqual(p))
      BY <1>4, <3>1, EqualEnds
    <3> DEFINE b == e + 1
               z == Len(p) + 1
    <3>3. b \in Nat /\ b >= 1 /\ z \in Nat /\ z <= Len(p) + 1 /\ z - 1 = Len(p)
      BY <3>1, <3>2 DEF EndsAt
    <3> HIDE DEF b, z
    <3>4. IsText(SubSeq(p, b, z - 1))
      BY <1>4, <3>3, PartMadeOf DEF MadeOf
    <3> QED
      BY <3>3, <3>4 DEF b
  <2> HIDE DEF w
  <2> QED
    BY <2>1, <2>2, TrimmedEnds
<1>8. Plain(v)
  BY <1>2, <1>6, <1>7, PlainIs, TknValidIs
<1> QED
  BY <1>6, <1>8 DEF v

LEMMA DoneGood ==
  ASSUME Writable, FitInv, CutInv, RightInv, SpecsKept, goal = "opts", phase = "done"
  PROVE  /\ \A i \in DOMAIN opts : GoodOpt(opts[i])
         /\ NamesIn(specs) \subseteq NamesIn(opts)
<1>1. Filled /\ at > Len(tkns) + Len(specs)
  BY DEF RightInv
<1>2. /\ \A k \in DOMAIN tkns : k < at
      /\ \A i \in DOMAIN specs : i < at - Len(tkns)
      /\ \A k \in DOMAIN opts : k \in DOMAIN tkns \/ k > Len(tkns)
  BY <1>1, TextFacts DEF FitInv
<1>3. \A s \in Specified : SpecValid(s) /\ SpecPlain(s)
  BY PlainSpecs DEF Specified
<1>4. ASSUME NEW k \in DOMAIN opts PROVE GoodOpt(opts[k])
  <2>1. CASE k \in DOMAIN tkns
    <3>1. PICK s \in Specified : \E v \in TypeParseValue(s.type, tkns[k].value) :
                 s.name = tkns[k].name /\ opts[k] = Opt(s.name, s.type, v)
      BY <1>1, <1>2, <2>1, PairsPassed
    <3>2. PICK v \in TypeParseValue(s.type, tkns[k].value) : opts[k] = Opt(s.name, s.type, v)
      BY <3>1
    <3>3. IsText(tkns[k].value) /\ Plain(tkns[k].value)
      <4>1. IsText(given) /\ CutBy(given, tkns, Len(given) + 2)
        BY DEF CutInv
      <4> QED
        BY <2>1, <4>1, PairValuePlain
    <3>4. s.type \in OptTypes
      BY <1>3 DEF SpecValid
    <3>5. ValueValid(s.type, v) /\ Plain(v.str)
      BY <3>2, <3>3, <3>4, ReadPlain
    <3> QED
      BY <3>2, <3>5 DEF GoodOpt
  <2>2. CASE k > Len(tkns)
    <3>1. PICK s \in Specified : ~s.req /\ opts[k] = Opt(s.name, s.type, s.dflt)
      BY <1>1, <2>2 DEF Filled
    <3>2. ValueValid(s.type, s.dflt) /\ Plain(s.dflt.str)
      BY <1>3, <3>1 DEF SpecValid, SpecPlain
    <3> QED
      BY <3>1, <3>2 DEF GoodOpt
  <2> QED
    BY <1>2, <2>1, <2>2
<1>5. NamesIn(specs) \subseteq NamesIn(opts)
  BY <1>1, <1>2 DEF Filled, NamesIn
<1> QED
  BY <1>4, <1>5

LEMMA KeptStays ==
  ASSUME OptsKept, kept' = kept,
         kept # {} => /\ specs' = specs /\ goal' = goal /\ given' = given /\ phase' # "refused"
                      /\ phase' \in {"convert", "done"} => Len(opts') <= Len(tkns')
  PROVE  OptsKept'
<1> SUFFICES ASSUME NEW o \in kept
             PROVE  /\ goal' = "opts" /\ phase' # "refused"
                    /\ kept' = {o}
                    /\ IsText(o) /\ \A i \in DOMAIN o : GoodOpt(o[i])'
                    /\ NamesIn(specs') \subseteq NamesIn(o)
                    /\ given' = OptListFormat(o)
                    /\ phase' \in {"convert", "done"} => Len(opts') <= Len(tkns')
  BY DEF OptsKept, NamesIn
<1>1. /\ specs' = specs /\ goal' = goal /\ given' = given /\ phase' # "refused"
      /\ phase' \in {"convert", "done"} => Len(opts') <= Len(tkns')
  OBVIOUS
<1>2. Specified' = Specified
  BY <1>1, SameSpecified
<1>3. \A i \in DOMAIN o : GoodOpt(o[i])'
  <2> TAKE i \in DOMAIN o
  <2>1. PICK s \in Specified : \E v : /\ o[i] = Opt(s.name, s.type, v)
                                      /\ ValueValid(s.type, v) /\ Plain(v.str)
    BY DEF OptsKept, GoodOpt
  <2> QED
    BY <1>2, <2>1 DEF GoodOpt
<1> QED
  BY <1>1, <1>3 DEF OptsKept

LEMMA ConvertKept ==
  ASSUME Writable, FitInv, CutInv, RightInv, SpecsKept, OptsKept, Convert
  PROVE  OptsKept'
<1>1. goal = "opts" /\ phase = "convert" /\ at \in DOMAIN tkns /\ at <= Len(tkns)
      /\ Len(tkns) \in Nat /\ at \in Nat
  BY TextFacts DEF Convert, FitInv
<1>2. ASSUME NEW o \in kept PROVE OptsOfPair(tkns[at]) # {}
  BY <1>1, KeptTkns
<1>3. /\ kept' = kept /\ specs' = specs /\ goal' = goal /\ given' = given /\ tkns' = tkns
  BY DEF Convert, AddOpt, Refuse, fixed
<1>4. CASE \E opt \in OptsOfPair(tkns[at]) : AddOpt(opt)
  <2>1. PICK opt : AddOpt(opt)
    BY <1>4
  <2>2. opts' = Append(opts, opt) /\ phase' # "refused"
    BY <1>1, <2>1 DEF AddOpt
  <2>3. Len(opts') = Len(opts) + 1
    BY <2>2, AppendedTo DEF FitInv
  <2>4. at <= Len(tkns) + 1 => Len(opts) = at - 1
    BY <1>1 DEF RightInv, Filled
  <2>5. Len(opts') <= Len(tkns)
    BY <1>1, <2>3, <2>4
  <2> QED
    BY <1>3, <2>2, <2>5, KeptStays
<1>5. CASE OptsOfPair(tkns[at]) = {} /\ Refuse
  BY <1>2, <1>3, <1>5, KeptStays
<1> QED
  BY <1>4, <1>5 DEF Convert

LEMMA AddMissingKept ==
  ASSUME Writable, FitInv, CutInv, RightInv, SpecsKept, OptsKept, AddMissing
  PROVE  OptsKept'
<1>1. goal = "opts" /\ phase = "convert" /\ at - Len(tkns) \in DOMAIN specs /\ at > Len(tkns)
  BY TextFacts DEF AddMissing, FitInv
<1>2. ASSUME NEW o \in kept PROVE Lkp(opts, SpecAt.name) # {}
  <2>1. SpecAt.name \in NamesIn(o)
    BY <1>1 DEF OptsKept, NamesIn, SpecAt
  <2>2. PICK i \in DOMAIN o : o[i].name = SpecAt.name
    BY <2>1 DEF NamesIn
  <2>3. i \in DOMAIN tkns /\ tkns[i].name = SpecAt.name
    BY <1>1, <2>2, KeptTkns
  <2>4. i < at
    BY <1>1, <2>3, TextFacts DEF FitInv
  <2>5. i \in DOMAIN opts /\ opts[i].name = SpecAt.name
    BY <1>1, <2>3, <2>4, PairsPassed DEF RightInv
  <2> QED
    BY <2>5, LkpFinds DEF FitInv
<1>3. /\ kept' = kept /\ specs' = specs /\ goal' = goal /\ given' = given /\ tkns' = tkns
  BY DEF AddMissing, AddOpt, Refuse, Skip, fixed
<1>4. CASE Skip
  <2>1. opts' = opts /\ phase' = phase
    BY <1>4 DEF Skip
  <2>2. kept # {} => Len(opts) <= Len(tkns)
    BY <1>1 DEF OptsKept
  <2> QED
    BY <1>1, <1>3, <2>1, <2>2, KeptStays
<1>5. CASE ~Skip
  <2>1. kept = {}
    BY <1>2, <1>5 DEF AddMissing
  <2> QED
    BY <1>3, <2>1, KeptStays
<1> QED
  BY <1>4, <1>5

LEMMA InitKept == Init => OptsKept
  BY DEF Init, OptsKept

LEMMA StepKept ==
  ASSUME Writable, FitInv, CutInv, RightInv, SpecsKept, OptsKept, [Next]_vars
  PROVE  OptsKept'
<1>1. CASE Cut
  <2>1. /\ kept' = kept /\ specs' = specs /\ goal' = goal /\ given' = given
        /\ phase' \in {"cut", "refused", "failed"}
    BY <1>1 DEF Cut, CutPiece, CutFails, fixed
  <2>2. ASSUME NEW o \in kept PROVE phase' # "refused"
    BY <1>1, KeptPairs, WrittenNotCut
  <2> QED
    BY <2>1, <2>2, KeptStays
<1>2. CASE Allocate
  <2>1. /\ kept' = kept /\ specs' = specs /\ goal' = goal /\ given' = given
        /\ opts' = opts /\ tkns' = tkns /\ phase = "cut" /\ phase' \in {"convert", "failed"}
    BY <1>2 DEF Allocate, fixed
  <2>2. opts = <<>> /\ Len(<<>>) = 0 /\ Len(tkns) \in Nat
    BY <2>1, TextFacts DEF FitInv
  <2>3. Len(opts') <= Len(tkns')
    BY <2>1, <2>2
  <2> QED
    BY <2>1, <2>3, KeptStays
<1>3. CASE Convert
  BY <1>3, ConvertKept
<1>4. CASE AddMissing
  BY <1>4, AddMissingKept
<1>5. CASE ConvertSpec
  <2>1. goal = "specs" /\ kept' = kept
    BY <1>5 DEF ConvertSpec, Refuse, fixed
  <2>2. kept = {}
    BY <2>1 DEF OptsKept
  <2> QED
    BY <2>1, <2>2, KeptStays
<1>6. CASE Finish
  <2>1. /\ kept' = kept /\ specs' = specs /\ goal' = goal /\ given' = given
        /\ opts' = opts /\ tkns' = tkns /\ phase = "convert" /\ phase' = "done"
    BY <1>6 DEF Finish, fixed
  <2>2. kept # {} => Len(opts) <= Len(tkns)
    BY <2>1 DEF OptsKept
  <2> QED
    BY <2>1, <2>2, KeptStays
<1>7. CASE Give
  <2>1. goal = "specs" /\ kept' = kept
    BY <1>7 DEF Give
  <2>2. kept = {}
    BY <2>1 DEF OptsKept
  <2> QED
    BY <2>1, <2>2, KeptStays
<1>8. CASE WriteAndRead
  <2>1. /\ phase = "done" /\ goal = "opts" /\ kept' = {opts} /\ goal' = "opts"
        /\ given' = OptListFormat(opts) /\ phase' = "cut" /\ specs' = specs
    BY <1>8 DEF WriteAndRead, Begin
  <2>2. /\ \A i \in DOMAIN opts : GoodOpt(opts[i])
        /\ NamesIn(specs) \subseteq NamesIn(opts) /\ IsText(opts)
    BY <2>1, DoneGood DEF FitInv
  <2> DEFINE o == opts
  <2>3. \A i \in DOMAIN o : GoodOpt(o[i])
    BY <2>2
  <2>4. kept' = {o} /\ given' = OptListFormat(o) /\ IsText(o) /\ NamesIn(specs) \subseteq NamesIn(o)
    BY <2>1, <2>2
  <2>5. ASSUME NEW x, GoodOpt(x) PROVE GoodOpt(x)'
    <3>1. Specified' = Specified
      BY <2>1, SameSpecified
    <3>2. PICK s \in Specified : \E v : /\ x = Opt(s.name, s.type, v)
                                        /\ ValueValid(s.type, v) /\ Plain(v.str)
      BY <2>5 DEF GoodOpt
    <3> QED
      BY <3>1, <3>2 DEF GoodOpt
  <2> QED
    BY <2>1, <2>2, <2>5 DEF OptsKept, NamesIn
<1>9. CASE UNCHANGED vars
  <2>1. /\ kept' = kept /\ specs' = specs /\ goal' = goal /\ given' = given
        /\ opts' = opts /\ tkns' = tkns /\ phase' = phase
    BY <1>9 DEF vars
  <2>2. kept # {} => /\ phase # "refused"
                     /\ phase \in {"convert", "done"} => Len(opts) <= Len(tkns)
    BY DEF OptsKept
  <2> QED
    BY <2>1, <2>2, KeptStays
<1> QED
  BY <1>1, <1>2, <1>3, <1>4, <1>5, <1>6, <1>7, <1>8, <1>9 DEF Next

LEMMA KeptRead ==
  ASSUME Writable, FitInv, CutInv, RightInv, SpecsKept, OptsKept
  PROVE  WrittenReadsBack
<1>1. goal = "specs" => phase # "refused" /\ (phase = "done" => specs = known)
  BY DEF SpecsKept
<1>2. kept # {} => phase # "refused"
  BY DEF OptsKept
<1>3. ASSUME NEW o \in kept, phase = "done" PROVE opts = o
  <2>1. goal = "opts" /\ Len(opts) <= Len(tkns) /\ IsText(o)
    BY <1>3 DEF OptsKept
  <2>2. /\ DOMAIN tkns = DOMAIN o /\ Len(tkns) = Len(o)
        /\ \A i \in DOMAIN o : OptsOfPair(tkns[i]) = {o[i]}
    BY <1>3, KeptTkns
  <2>3. Filled /\ at > Len(tkns) + Len(specs)
    BY <1>3, <2>1 DEF RightInv
  <2>4. \A k \in DOMAIN tkns : k < at
    BY <2>3, TextFacts DEF FitInv
  <2>5. \A i \in DOMAIN o : i \in DOMAIN opts /\ opts[i] = o[i]
    BY <2>2, <2>3, <2>4 DEF Filled
  <2>6. /\ Len(o) \in Nat /\ DOMAIN o = 1 .. Len(o)
        /\ Len(opts) \in Nat /\ DOMAIN opts = 1 .. Len(opts) /\ IsText(opts)
    BY <2>1, TextFacts DEF FitInv
  <2>7. Len(opts) = Len(o)
    <3>1. Len(opts) >= Len(o)
      <4>1. CASE Len(o) = 0
        BY <2>6, <4>1
      <4>2. CASE Len(o) # 0
        <5>1. Len(o) \in DOMAIN o
          BY <2>6, <4>2
        <5>2. Len(o) \in 1 .. Len(opts)
          BY <2>5, <2>6, <5>1
        <5> QED
          BY <2>6, <5>2
      <4> QED
        BY <4>1, <4>2
    <3>2. Len(opts) <= Len(o) /\ Len(opts) \in Nat /\ Len(o) \in Nat
      BY <2>1, <2>2, <2>6
    <3> QED
      BY <3>1, <3>2
  <2>8. opts \in Seq(ToSet(opts)) /\ o \in Seq(ToSet(o))
    BY <2>1, <2>6 DEF IsText
  <2> QED
    BY <2>5, <2>6, <2>7, <2>8
<1> QED
  BY <1>1, <1>2, <1>3 DEF WrittenReadsBack

(* What hidrd_opt_spec_list_format() and hidrd_opt_list_format() write is   *)
(* read back by hidrd_opt_spec_list_parse() and hidrd_opt_list_parse() as   *)
(* it was, once the specifications in the program can be written: for every *)
(* list of them, and whatever text the options were given as.               *)
THEOREM OptionsReadBack ==
  ASSUME Writable
  PROVE  Spec => []WrittenReadsBack
<1> DEFINE Inv == FitInv /\ CutInv /\ RightInv /\ SpecsKept /\ OptsKept
<1>1. Init => Inv
  BY InitFits, CutInvInit, InitRight, InitSpecs, InitKept
<1>2. Inv /\ [Next]_vars => Inv'
  BY StepKeepsFit, StepCuts, StepRight, StepSpecs, StepKept
<1>3. Inv => WrittenReadsBack
  BY KeptRead
<1> QED
  BY <1>1, <1>2, <1>3, PTL DEF Spec
==============================================================================
