---------------------------- MODULE ElementProofs ----------------------------
(***************************************************************************)
(* For all tables, items and elements: what the sink writes of an item the *)
(* schema allows, and what the schema allows the source reads, but for the *)
(* elements that Refused names.                                            *)
(*                                                                         *)
(* Both directions go through the texts: what a text that the schema takes *)
(* for a number, for bytes or for a word is read to, and that what is      *)
(* written of them is such a text.  Then one lemma for each kind of        *)
(* element and of item, and the invariant that ties the steps together.    *)
(***************************************************************************)
EXTENDS TextProofs, ElementSchema

------------------------------------------------------------------------------
(* What the readers of the source make of texts: numbers, bytes, words.     *)

(* Hexadecimal figures are no space, signs or marks either.                 *)
LEMMA FigureOfBase ==
  ASSUME NEW c, NEW base \in {10, 16}, IsFigure(c, base)
  PROVE  c \notin {" ", "-", "+", "x", "h", ",", "end"} /\ IsFigure(c, 16)
<1>1. PICK i \in 1 .. 16 : c = Figure[i] /\ i \in 1 .. base
  BY DEF IsFigure
<1>2. Figure[i] \in {"0", "1", "2", "3", "4", "5", "6", "7", "8", "9", "A", "B", "C", "D", "E", "F"}
  <2>1. /\ Figure[1] = "0" /\ Figure[2] = "1" /\ Figure[3] = "2" /\ Figure[4] = "3"
        /\ Figure[5] = "4" /\ Figure[6] = "5" /\ Figure[7] = "6" /\ Figure[8] = "7"
        /\ Figure[9] = "8" /\ Figure[10] = "9" /\ Figure[11] = "A" /\ Figure[12] = "B"
        /\ Figure[13] = "C" /\ Figure[14] = "D" /\ Figure[15] = "E" /\ Figure[16] = "F"
    BY DEF Figure
  <2>2. \/ i = 1 \/ i = 2 \/ i = 3 \/ i = 4 \/ i = 5 \/ i = 6 \/ i = 7 \/ i = 8
        \/ i = 9 \/ i = 10 \/ i = 11 \/ i = 12 \/ i = 13 \/ i = 14 \/ i = 15 \/ i = 16
    OBVIOUS
  <2> QED
    BY <2>1, <2>2
<1>3. IsFigure(c, 16)
  BY <1>1 DEF IsFigure
<1> QED
  BY <1>1, <1>2, <1>3

(* Where the number of a text has to end.                                   *)
LEMMA NumberEnd ==
  ASSUME NEW t, IsText(t), NEW base, NEW c \in Nat, c > 1, c <= Len(t) + 1,
         ~IsSpace(t[c - 1]), \A j \in c .. Len(t) : IsSpace(t[j])
  PROVE  FindEnd(t, "NONE", base) = {[end |-> c, base |-> base]}
<1> DEFINE solid == {i \in DOMAIN t : ~IsSpace(t[i])}
           n == Len(t)
<1>1. n \in Nat /\ DOMAIN t = 1 .. n
  BY TextFacts
<1>2. solid \in SUBSET Int /\ c - 1 \in solid /\ \A y \in solid : y <= c - 1
  BY <1>1
<1>3. FindEnd(t, "NONE", base) = IF solid = {} THEN {} ELSE {[end |-> Max(solid) + 1, base |-> base]}
  BY DEF FindEnd
<1> HIDE DEF solid
<1>4. Max(solid) = c - 1
  BY <1>2, GreatestIs
<1>5. (c - 1) + 1 = c
  OBVIOUS
<1> QED
  BY <1>2, <1>3, <1>4, <1>5

(* A numeral: after space a sign, if any, and figures, and space to the end.*)
IsNumeral(t, base, s, d, c) ==
    /\ s \in DOMAIN t /\ c \in Nat /\ c <= Len(t) + 1
    /\ d \in {s, s + 1} /\ d < c
    /\ \A j \in 1 .. s - 1 : IsSpace(t[j])
    /\ \A j \in c .. Len(t) : IsSpace(t[j])
    /\ \A j \in d .. c - 1 : IsFigure(t[j], base)
    /\ d = s + 1 => t[s] \in {"+", "-"}

LEMMA NumeralConverted ==
  ASSUME NEW t, IsText(t), NEW base \in {10, 16}, NEW s, NEW d, NEW c,
         IsNumeral(t, base, s, d, c), NEW start \in {1, s}
  PROVE  LET v == ValueOf(SubSeq(t, d, c - 1), base)
         IN  /\ v \in Nat
             /\ Converted(t, start, "NONE", base) = {IF t[s] = "-" THEN -v ELSE v}
             /\ SpaceEnd(t, 1) = s
             /\ At(t, s) = t[s]
<1> DEFINE w == SubSeq(t, d, c - 1)
           v == ValueOf(w, base)
           n == Len(t)
           num == IF t[s] = "-" THEN -v ELSE v
<1>1. n \in Nat /\ DOMAIN t = 1 .. n
  BY TextFacts
<1>2. /\ s \in 1 .. n /\ c \in Nat /\ c <= n + 1 /\ d \in {s, s + 1} /\ d < c
      /\ d \in Nat /\ d >= 1 /\ s < c
      /\ \A j \in 1 .. s - 1 : IsSpace(t[j])
      /\ \A j \in c .. n : IsSpace(t[j])
      /\ \A j \in d .. c - 1 : IsFigure(t[j], base)
      /\ d = s + 1 => t[s] \in {"+", "-"}
  BY <1>1 DEF IsNumeral
<1> HIDE DEF n
<1>3. /\ IsText(w) /\ DOMAIN w = 1 .. Len(w)
      /\ \A i \in DOMAIN w : d + i - 1 \in d .. c - 1 /\ w[i] = t[d + i - 1]
  BY <1>2, PartFacts DEF n
<1> HIDE DEF w
<1>4. v \in Nat
  <2>1. \A i \in DOMAIN w : WeightOf[w[i]] \in Nat
    <3> TAKE i \in DOMAIN w
    <3>1. IsFigure(w[i], base)
      BY <1>2, <1>3
    <3>2. base \in 1 .. 16 /\ base \in Nat
      OBVIOUS
    <3> QED
      BY <3>1, <3>2, FiguresWeigh
  <2>2. base \in Nat
    OBVIOUS
  <2> QED
    BY <1>3, <2>1, <2>2, ValueIsNumber
<1>5. /\ ~IsSpace(t[s]) /\ ~IsSpace(t[c - 1])
      /\ d = s => t[s] \notin {"+", "-"}
  <2>1. c - 1 \in d .. c - 1
    BY <1>2
  <2>2. ~IsSpace(t[c - 1])
    BY <1>2, <2>1, FigureOfBase DEF IsSpace
  <2>3. CASE d = s
    <3>1. IsFigure(t[s], base)
      BY <1>2, <2>3
    <3> QED
      BY <2>2, <2>3, <3>1, FigureOfBase DEF IsSpace
  <2>4. CASE d = s + 1
    <3>1. t[s] \in {"+", "-"} /\ d # s
      BY <1>2, <2>4
    <3> QED
      BY <2>2, <3>1 DEF IsSpace
  <2> QED
    BY <1>2, <2>3, <2>4
<1>6. ASSUME NEW from \in {1, s} PROVE SpaceEnd(t, from) = s
  <2>1. from \in Nat /\ from >= 1 /\ from <= Len(t) + 1 /\ from <= s /\ n = Len(t)
    BY <1>1, <1>2 DEF n
  <2>2. EndsAt(SpaceEnd(t, from), from, n, Spaces(t))
    BY <2>1, SpaceEnds
  <2>3. EndsAt(s, from, n, Spaces(t))
    BY <1>1, <1>2, <1>5, <2>1 DEF EndsAt, Spaces
  <2> QED
    BY <1>1, <2>1, <2>2, <2>3, RunEnds
<1>7. At(t, s) = t[s]
  BY <1>1, <1>2 DEF At
<1>8. FigureEnd(t, d, base) = c
  <2>1. n = Len(t) /\ d <= Len(t) + 1
    BY <1>1, <1>2 DEF n
  <2>2. EndsAt(FigureEnd(t, d, base), d, n, FiguresIn(t, base))
    BY <1>2, <2>1, FigureEnds
  <2>3. c = n + 1 \/ ~IsFigure(t[c], base)
    <3> SUFFICES ASSUME c # n + 1 PROVE ~IsFigure(t[c], base)
      OBVIOUS
    <3>1. IsSpace(t[c])
      BY <1>1, <1>2
    <3> QED
      BY <3>1, FigureOfBase DEF IsSpace
  <2>4. \A j \in d .. c - 1 : j \in FiguresIn(t, base)
    BY <1>1, <1>2 DEF FiguresIn
  <2>5. EndsAt(c, d, n, FiguresIn(t, base))
    BY <1>1, <1>2, <2>3, <2>4 DEF EndsAt, FiguresIn
  <2> QED
    BY <1>1, <1>2, <2>1, <2>2, <2>5, RunEnds
<1>9. Strtol(t, start, base) = [end |-> c, num |-> num]
  <2> DEFINE minus == At(t, s) = "-"
             sign == SpaceEnd(t, start)
             from == IF At(t, s) \in {"+", "-"} THEN s + 1 ELSE s
             to == FigureEnd(t, d, base)
             part == ValueOf(SubSeq(t, d, to - 1), base)
  <2>1. Strtol(t, start, base) = StrtolAt(t, start, sign, base)
    BY DEF Strtol, SpaceEnd
  <2> HIDE DEF sign
  <2>2. sign = s
    BY <1>6 DEF sign
  <2>3. StrtolAt(t, start, s, base) = StrtolSigned(t, start, minus, from, base)
    BY DEF StrtolAt
  <2>4. minus = (t[s] = "-") /\ from = d
    BY <1>2, <1>5, <1>7
  <2> HIDE DEF minus, from
  <2>5. StrtolSigned(t, start, minus, d, base) = StrtolFigures(t, start, minus, d, base)
    <3>1. At(t, d + 1) # "x"
      <4>1. CASE d + 1 \in DOMAIN t
        <5>1. d + 1 \in d .. c - 1 \/ d + 1 \in c .. n
          BY <1>1, <1>2, <4>1
        <5>2. IsFigure(t[d + 1], base) \/ IsSpace(t[d + 1])
          BY <1>2, <5>1
        <5>3. t[d + 1] # "x"
          BY <5>2, FigureOfBase DEF IsSpace
        <5> QED
          BY <4>1, <5>3 DEF At
      <4>2. CASE d + 1 \notin DOMAIN t
        BY <4>2 DEF At
      <4> QED
        BY <4>1, <4>2
    <3>2. base # 0
      OBVIOUS
    <3> QED
      BY <3>1, <3>2 DEF StrtolSigned
  <2>6. StrtolFigures(t, start, minus, d, base) =
          IF d = to THEN [end |-> start, num |-> 0]
          ELSE [end |-> to, num |-> (IF minus THEN -1 ELSE 1) * part]
    BY DEF StrtolFigures, FigureEnd
  <2> HIDE DEF to
  <2>7. to = c /\ d # to
    BY <1>2, <1>8 DEF to
  <2>8. part = v
    BY <2>7 DEF w
  <2> HIDE DEF part, v
  <2>9. (-1) * v = -v /\ 1 * v = v
    BY <1>4
  <2>10. (IF minus THEN -1 ELSE 1) * v = num
    <3>1. CASE minus
      BY <2>4, <2>9, <3>1
    <3>2. CASE ~minus
      BY <2>4, <2>9, <3>2
    <3> QED
      BY <3>1, <3>2
  <2> HIDE DEF num
  <2> QED
    BY <2>1, <2>2, <2>3, <2>4, <2>5, <2>6, <2>7, <2>8, <2>10
<1> HIDE DEF num, v
<1>10. FindEnd(t, "NONE", base) = {[end |-> c, base |-> base]}
  <2>1. c > 1
    BY <1>2
  <2> QED
    BY <1>2, <1>5, <2>1, NumberEnd DEF n
<1>11. Converted(t, start, "NONE", base) = {num}
  <2> DEFINE found == [end |-> c, base |-> base]
             r == Strtol(t, start, base)
  <2>1. Converted(t, start, "NONE", base) =
          UNION {{k.num : k \in {q \in {Strtol(t, start, StrtolBase("NONE", g))} : q.end = g.end}} :
                    g \in {found}}
    BY <1>10 DEF Converted
  <2>2. found.end = c /\ r.end = c /\ r.num = num /\ StrtolBase("NONE", found) = base
    BY <1>9 DEF StrtolBase
  <2> HIDE DEF found, r
  <2>3. {q \in {r} : q.end = c} = {r}
    BY <2>2
  <2>4. Strtol(t, start, StrtolBase("NONE", found)) = r
    BY <2>2 DEF r
  <2> QED
    BY <2>1, <2>2, <2>3, <2>4
<1> QED
  BY <1>4, <1>6, <1>7, <1>11 DEF num, v, w

(* What is left of a text without the space around it.                      *)
LEMMA TrimmedPart ==
  ASSUME NEW t, IsText(t), Trimmed(t) # <<>>
  PROVE  \E s \in 1 .. Len(t), c \in 1 .. Len(t) + 1 :
           /\ s < c /\ Trimmed(t) = SubSeq(t, s, c - 1)
           /\ \A j \in 1 .. s - 1 : IsSpace(t[j])
           /\ \A j \in c .. Len(t) : IsSpace(t[j])
           /\ ~IsSpace(t[s]) /\ ~IsSpace(t[c - 1])
<1> DEFINE solid == {i \in DOMAIN t : ~IsSpace(t[i])}
           n == Len(t)
<1>1. n \in Nat /\ DOMAIN t = 1 .. n
  BY TextFacts
<1>2. solid # {} /\ Trimmed(t) = SubSeq(t, Min(solid), Max(solid))
  BY DEF Trimmed
<1>3. solid \in SUBSET Nat /\ solid \in SUBSET (0 .. n)
  BY <1>1
<1>4. /\ Min(solid) \in solid /\ Max(solid) \in solid
      /\ \A y \in solid : Min(solid) <= y /\ y <= Max(solid)
  <2> HIDE DEF solid
  <2> QED
    BY <1>1, <1>2, <1>3, LeastElement, GreatestElement
<1> DEFINE s == Min(solid)
           m == Max(solid)
           c == m + 1
<1>5. s \in solid /\ m \in solid /\ (\A y \in solid : s <= y /\ y <= m) /\ Trimmed(t) = SubSeq(t, s, m)
  BY <1>2, <1>4
<1> HIDE DEF s, m
<1>6. s \in 1 .. n /\ m \in 1 .. n /\ s <= m /\ ~IsSpace(t[s]) /\ ~IsSpace(t[m])
  BY <1>1, <1>5
<1>7. c \in 1 .. n + 1 /\ s < c /\ c - 1 = m
  BY <1>1, <1>6
<1>8. \A j \in 1 .. s - 1 : IsSpace(t[j])
  <2> SUFFICES ASSUME NEW j \in 1 .. s - 1, ~IsSpace(t[j]) PROVE FALSE
    OBVIOUS
  <2>1. j \in solid /\ ~(s <= j)
    BY <1>1, <1>6
  <2> QED
    BY <1>5, <2>1
<1>9. \A j \in c .. n : IsSpace(t[j])
  <2> SUFFICES ASSUME NEW j \in c .. n, ~IsSpace(t[j]) PROVE FALSE
    OBVIOUS
  <2>1. j \in solid /\ ~(j <= m)
    BY <1>1, <1>6
  <2> QED
    BY <1>5, <2>1
<1> HIDE DEF c, solid
<1> QED
  BY <1>5, <1>6, <1>7, <1>8, <1>9

(* What the schema takes for a number is a numeral.                         *)
LEMMA IntegerNumeral ==
  ASSUME NEW t, IsText(t), NEW least \in Int, NEW most \in Int, IntText(t, least, most)
  PROVE  \E s, d, c : /\ IsNumeral(t, 10, s, d, c)
                      /\ At(Trimmed(t), 1) = t[s]
                      /\ LET v == ValueOf(SubSeq(t, d, c - 1), 10)
                             n == IF t[s] = "-" THEN -v ELSE v
                         IN  /\ n \in least .. most
                             /\ \A a, b \in Int : n \in a .. b => IntText(t, a, b)
<1> DEFINE p == Trimmed(t)
           Whole(g) == g # <<>> /\ \A i \in DOMAIN g : IsFigure(g[i], 10)
           V(g) == ValueOf(g, 10)
<1>1. \/ Whole(p) /\ least <= V(p) /\ V(p) <= most
      \/ At(p, 1) = "+" /\ Whole(Tail(p)) /\ least <= V(Tail(p)) /\ V(Tail(p)) <= most
      \/ At(p, 1) = "-" /\ Whole(Tail(p)) /\ least <= -V(Tail(p)) /\ -V(Tail(p)) <= most
  BY Zenon DEF IntText, Integers
<1>2. p # <<>>
  <2> SUFFICES ASSUME p = <<>> PROVE At(p, 1) = "end"
    BY <1>1
  <2> QED
    BY DEF At
<1>3. PICK s \in 1 .. Len(t), c \in 1 .. Len(t) + 1 :
           /\ s < c /\ p = SubSeq(t, s, c - 1)
           /\ \A j \in 1 .. s - 1 : IsSpace(t[j])
           /\ \A j \in c .. Len(t) : IsSpace(t[j])
           /\ ~IsSpace(t[s]) /\ ~IsSpace(t[c - 1])
  BY <1>2, TrimmedPart
<1> DEFINE n == Len(t)
<1>4. n \in Nat /\ DOMAIN t = 1 .. n /\ s \in Nat /\ c \in Nat
  BY TextFacts
<1>5. /\ IsText(p) /\ Len(p) = c - s /\ DOMAIN p = 1 .. Len(p)
      /\ \A i \in DOMAIN p : s + i - 1 \in s .. c - 1 /\ p[i] = t[s + i - 1]
  BY <1>3, <1>4, PartFacts
<1>6. At(p, 1) = t[s] /\ 1 \in DOMAIN p
  BY <1>3, <1>4, <1>5 DEF At
<1>7. \A d \in {s, s + 1} : \A j \in d .. c - 1 : j - s + 1 \in DOMAIN p /\ p[j - s + 1] = t[j]
  BY <1>3, <1>4, <1>5
<1>8. CASE Whole(p)
  <2>1. IsNumeral(t, 10, s, s, c)
    <3>1. \A j \in s .. c - 1 : IsFigure(t[j], 10)
      BY <1>7, <1>8
    <3> HIDE DEF p
    <3> QED
      BY <1>3, <1>4, <3>1 DEF IsNumeral
  <2>2. IsFigure(t[s], 10)
    BY <1>6, <1>8 DEF At
  <2>3. t[s] # "-" /\ t[s] # "+"
    BY <2>2, FigureOfBase
  <2>4. V(p) \in Nat
    <3>1. \A i \in DOMAIN p : WeightOf[p[i]] \in Nat
      <4>1. 10 \in 1 .. 16
        OBVIOUS
      <4> QED
        BY <1>8, <4>1, FiguresWeigh
    <3> HIDE DEF p
    <3> QED
      BY <1>5, <3>1, ValueIsNumber
  <2> HIDE DEF p
  <2>5. V(p) \in least .. most
    BY <1>1, <1>6, <2>3, <2>4
  <2>6. ValueOf(SubSeq(t, s, c - 1), 10) = V(p)
    BY <1>3
  <2>7. ASSUME NEW a \in Int, NEW b \in Int, V(p) \in a .. b PROVE IntText(t, a, b)
    <3>1. V(p) \in Integers(p) /\ a <= V(p) /\ V(p) <= b
      BY <1>8, <2>7 DEF Integers
    <3> QED
      BY <3>1, Zenon DEF IntText, p
  <2> QED
    BY <1>6, <2>1, <2>3, <2>5, <2>6, <2>7 DEF p
<1>9. CASE ~Whole(p)
  <2>1. /\ t[s] \in {"+", "-"} /\ Whole(Tail(p))
        /\ t[s] = "+" => least <= V(Tail(p)) /\ V(Tail(p)) <= most
        /\ t[s] = "-" => least <= -V(Tail(p)) /\ -V(Tail(p)) <= most
    BY <1>1, <1>6, <1>9
  <2> DEFINE q == SubSeq(t, s + 1, c - 1)
  <2>2. Tail(p) = q
    <3>1. p \in Seq(ToSet(p)) /\ p # <<>>
      BY <1>2, <1>5 DEF IsText
    <3>2. Tail(p) = SubSeq(p, 2, Len(p))
      <4> HIDE DEF p
      <4> QED
        BY <3>1
    <3> DEFINE e == Len(p) + 1
    <3>3. SubSeq(SubSeq(t, s, c - 1), 2, e - 1) = SubSeq(t, s + 2 - 1, s + e - 2)
      BY <1>3, <1>4, <1>5, PartOfPart
    <3>4. e - 1 = Len(p) /\ s + 2 - 1 = s + 1 /\ s + e - 2 = c - 1
      BY <1>3, <1>4, <1>5
    <3> HIDE DEF e, p
    <3>5. SubSeq(p, 2, Len(p)) = SubSeq(t, s + 1, c - 1)
      BY <1>3, <3>3, <3>4
    <3> QED
      BY <3>2, <3>5
  <2> HIDE DEF p, q
  <2>3. /\ IsText(q) /\ (s + 1 <= c => Len(q) = c - (s + 1)) /\ DOMAIN q = 1 .. Len(q)
        /\ \A i \in DOMAIN q : q[i] = t[s + 1 + i - 1]
    <3> DEFINE a == s + 1
    <3>1. a \in Nat /\ a >= 1 /\ c <= Len(t) + 1
      BY <1>3, <1>4
    <3> HIDE DEF a
    <3>2. LET r == SubSeq(t, a, c - 1)
          IN  /\ IsText(r) /\ (a <= c => Len(r) = c - a) /\ DOMAIN r = 1 .. Len(r)
              /\ \A i \in DOMAIN r : r[i] = t[a + i - 1]
      BY <1>4, <3>1, PartFacts
    <3> QED
      BY <3>2 DEF a, q
  <2>4. s + 1 < c
    <3> SUFFICES ASSUME ~(s + 1 < c) PROVE FALSE
      OBVIOUS
    <3>1. s + 1 = c /\ Len(q) = 0
      BY <1>3, <1>4, <2>3
    <3>2. q = <<>>
      BY <2>3, <3>1, WholeText
    <3> QED
      BY <2>1, <2>2, <3>2
  <2>5. \A j \in s + 1 .. c - 1 : IsFigure(t[j], 10)
    <3> TAKE j \in s + 1 .. c - 1
    <3> DEFINE i == j - s
    <3>1. i \in DOMAIN q /\ s + 1 + i - 1 = j
      BY <1>3, <1>4, <2>3
    <3> HIDE DEF i
    <3>2. q[i] = t[j]
      BY <2>3, <3>1
    <3> QED
      BY <2>1, <2>2, <3>1, <3>2
  <2>6. IsNumeral(t, 10, s, s + 1, c)
    BY <1>3, <1>4, <2>1, <2>4, <2>5 DEF IsNumeral
  <2>7. V(q) \in Nat
    <3>1. \A i \in DOMAIN q : WeightOf[q[i]] \in Nat
      <4>1. 10 \in 1 .. 16
        OBVIOUS
      <4> QED
        BY <2>1, <2>2, <4>1, FiguresWeigh
    <3> QED
      BY <2>3, <3>1, ValueIsNumber
  <2>8. (IF t[s] = "-" THEN -V(q) ELSE V(q)) \in least .. most
    <3> DEFINE x == V(q)
    <3>1. /\ t[s] \in {"+", "-"}
          /\ t[s] = "+" => least <= x /\ x <= most
          /\ t[s] = "-" => least <= -x /\ -x <= most
      BY <2>1, <2>2, Zenon
    <3>2. x \in Nat
      BY <2>7
    <3> HIDE DEF x
    <3>3. (IF t[s] = "-" THEN -x ELSE x) \in least .. most
      BY <3>1, <3>2
    <3> QED
      BY <3>3 DEF x
  <2>9. ValueOf(SubSeq(t, s + 1, c - 1), 10) = V(q)
    BY DEF q
  <2>10. ASSUME NEW a \in Int, NEW b \in Int, (IF t[s] = "-" THEN -V(q) ELSE V(q)) \in a .. b
         PROVE  IntText(t, a, b)
    <3>1. V(q) \in Integers(q)
      BY <2>1, <2>2 DEF Integers
    <3>2. CASE t[s] = "-"
      <4>1. At(p, 1) = "-" /\ a <= -V(q) /\ -V(q) <= b
        BY <1>6, <2>7, <2>10, <3>2
      <4> QED
        BY <2>2, <3>1, <4>1, Zenon DEF IntText, p
    <3>3. CASE t[s] = "+"
      <4>1. At(p, 1) = "+" /\ a <= V(q) /\ V(q) <= b
        BY <1>6, <2>7, <2>10, <3>3
      <4> QED
        BY <2>2, <3>1, <4>1, Zenon DEF IntText, p
    <3> QED
      BY <2>1, <3>2, <3>3
  <2> QED
    BY <1>6, <2>6, <2>8, <2>9, <2>10 DEF p
<1> QED
  BY <1>8, <1>9

(* A number that the schema allows is read, in its range.                   *)
LEMMA SignedRead ==
  ASSUME NEW t, IsText(t), NEW least \in Int, NEW most \in Int, IntText(t, least, most),
         \A n \in least .. most : Within("s32", n)
  PROVE  \E n \in least .. most : FromRepr("s32", t, "dec") = {n}
<1>1. PICK s, d, c : /\ IsNumeral(t, 10, s, d, c)
                     /\ LET v == ValueOf(SubSeq(t, d, c - 1), 10)
                        IN  (IF t[s] = "-" THEN -v ELSE v) \in least .. most
  BY IntegerNumeral
<1> DEFINE v == ValueOf(SubSeq(t, d, c - 1), 10)
           n == IF t[s] = "-" THEN -v ELSE v
<1>2. Converted(t, 1, "NONE", 10) = {n}
  BY <1>1, NumeralConverted
<1>3. n \in least .. most
  BY <1>1
<1> HIDE DEF n
<1>4. S32FromStr(t, "NONE", 10) = {n}
  BY <1>2, <1>3 DEF S32FromStr
<1>5. SFromStr("s32", t, "NONE", 10) = {n}
  BY <1>3, <1>4 DEF SFromStr, Within
<1>6. FromRepr("s32", t, "dec") = SFromStr("s32", t, "NONE", 10)
  BY DEF FromRepr, Parsed, Mark, Base, Signed
<1> QED
  BY <1>3, <1>5, <1>6

LEMMA UnsignedRead ==
  ASSUME NEW t, IsText(t), NEW least \in Nat, NEW most \in Int, IntText(t, least, most),
         ~MinusZero(t), NEW type \in {"u8", "u16", "u32"},
         \A n \in least .. most : n <= Most(type) /\ n <= Most("u32")
  PROVE  \E n \in least .. most : FromRepr(type, t, "dec") = {n}
<1>1. PICK s, d, c : /\ IsNumeral(t, 10, s, d, c)
                     /\ At(Trimmed(t), 1) = t[s]
                     /\ LET v == ValueOf(SubSeq(t, d, c - 1), 10)
                            n == IF t[s] = "-" THEN -v ELSE v
                        IN  /\ n \in least .. most
                            /\ \A a, b \in Int : n \in a .. b => IntText(t, a, b)
  BY IntegerNumeral
<1> DEFINE v == ValueOf(SubSeq(t, d, c - 1), 10)
           n == IF t[s] = "-" THEN -v ELSE v
<1>2. /\ Converted(t, s, "NONE", 10) = {n} /\ SpaceEnd(t, 1) = s /\ At(t, s) = t[s]
      /\ v \in Nat
  BY <1>1, NumeralConverted
<1>3. n \in least .. most /\ \A a, b \in Int : n \in a .. b => IntText(t, a, b)
  BY <1>1
<1> HIDE DEF v
<1>4. t[s] # "-"
  <2> SUFFICES ASSUME t[s] = "-" PROVE FALSE
    OBVIOUS
  <2>1. n \in 0 .. 0
    BY <1>2, <1>3
  <2>2. IntText(t, 0, 0)
    BY <1>3, <2>1
  <2> QED
    BY <1>1, <2>2 DEF MinusZero
<1> HIDE DEF n
<1>5. U32FromStr(t, "NONE", 10) = {n}
  BY <1>2, <1>3, <1>4 DEF U32FromStr, SpaceEnd
<1>6. UFromStr(type, t, "NONE", 10) = {n}
  BY <1>3, <1>5 DEF UFromStr
<1>7. FromRepr(type, t, "dec") = UFromStr(type, t, "NONE", 10)
  BY DEF FromRepr, Parsed, Mark, Base, Signed
<1> QED
  BY <1>3, <1>6, <1>7

(* What is taken of a sequence, element by element.                         *)
AmongTo(f, s, S, n) ==
    f = [k \in 0 .. n |-> IF k = 0 THEN <<>>
                          ELSE IF s[k] \in S THEN Append(f[k - 1], s[k]) ELSE f[k - 1]]
AmongSteps(f, s, S) ==
    \A k \in 0 .. Len(s) :
        f[k] = IF k = 0 THEN <<>>
               ELSE IF s[k] \in S THEN Append(f[k - 1], s[k]) ELSE f[k - 1]

LEMMA AmongExists ==
  ASSUME NEW s, NEW S, NEW n \in Nat
  PROVE  \E f : AmongTo(f, s, S, n)
<1> DEFINE K == {m \in Nat : \E f : AmongTo(f, s, S, m)}
<1>1. 0 \in K
  <2> DEFINE f == [k \in 0 .. 0 |-> <<>>]
  <2>1. f = [k \in 0 .. 0 |-> IF k = 0 THEN <<>>
                              ELSE IF s[k] \in S THEN Append(f[k - 1], s[k]) ELSE f[k - 1]]
    OBVIOUS
  <2>2. AmongTo(f, s, S, 0)
    BY <2>1 DEF AmongTo
  <2> QED
    BY <2>2
<1>2. ASSUME NEW m \in Nat, m \in K PROVE m + 1 \in K
  <2>1. PICK f : AmongTo(f, s, S, m)
    BY <1>2
  <2> DEFINE last == IF s[m + 1] \in S THEN Append(f[m], s[m + 1]) ELSE f[m]
             g == [k \in 0 .. m + 1 |-> IF k = m + 1 THEN last ELSE f[k]]
             r == [k \in 0 .. m + 1 |-> IF k = 0 THEN <<>>
                      ELSE IF s[k] \in S THEN Append(g[k - 1], s[k]) ELSE g[k - 1]]
             q == [k \in 0 .. m |-> IF k = 0 THEN <<>>
                      ELSE IF s[k] \in S THEN Append(f[k - 1], s[k]) ELSE f[k - 1]]
  <2>2. f = q
    BY <2>1 DEF AmongTo
  <2>3. \A k \in 0 .. m : f[k] = IF k = 0 THEN <<>>
                      ELSE IF s[k] \in S THEN Append(f[k - 1], s[k]) ELSE f[k - 1]
    <3>1. \A k \in 0 .. m : q[k] = IF k = 0 THEN <<>>
                      ELSE IF s[k] \in S THEN Append(f[k - 1], s[k]) ELSE f[k - 1]
      OBVIOUS
    <3> HIDE DEF q
    <3> QED
      BY <2>2, <3>1
  <2>4. /\ \A k \in 0 .. m : g[k] = f[k]
        /\ g[m + 1] = last
        /\ DOMAIN g = 0 .. m + 1
    <3> HIDE DEF last
    <3> QED
      OBVIOUS
  <2>5. g = [k \in 0 .. m + 1 |-> g[k]]
    OBVIOUS
  <2> HIDE DEF g
  <2>6. ASSUME NEW k \in 0 .. m + 1 PROVE g[k] = r[k]
    <3>1. r[k] = IF k = 0 THEN <<>>
                 ELSE IF s[k] \in S THEN Append(g[k - 1], s[k]) ELSE g[k - 1]
      OBVIOUS
    <3> HIDE DEF r, q
    <3>2. CASE k = m + 1
      <4>1. g[k] = last /\ k # 0 /\ k - 1 = m /\ m \in 0 .. m
        BY <2>4, <3>2
      <4>2. g[k - 1] = f[m]
        BY <2>4, <4>1
      <4> QED
        BY <3>1, <3>2, <4>1, <4>2
    <3>3. CASE k # m + 1
      <4>1. k \in 0 .. m /\ (k # 0 => k - 1 \in 0 .. m)
        BY <3>3
      <4>2. g[k] = f[k] /\ (k # 0 => g[k - 1] = f[k - 1])
        BY <2>4, <4>1
      <4> HIDE DEF last
      <4> QED
        BY <2>3, <3>1, <4>1, <4>2
    <3> QED
      BY <3>2, <3>3
  <2>7. g = r
    BY <2>5, <2>6
  <2>8. AmongTo(g, s, S, m + 1)
    BY <2>7 DEF AmongTo
  <2> QED
    BY <2>8
<1> HIDE DEF K
<1>3. n \in K
  BY <1>1, <1>2, Rec!NumberInduction
<1> QED
  BY <1>3 DEF K

LEMMA AmongDef ==
  ASSUME NEW s, IsText(s), NEW S
  PROVE  \E f : AmongSteps(f, s, S) /\ Among(s, S) = f[Len(s)]
<1> DEFINE f == CHOOSE g : AmongTo(g, s, S, Len(s))
           n == Len(s)
<1>1. n \in Nat
  BY TextFacts
<1>2. Among(s, S) = f[n]
  BY Zenon DEF Among, AmongTo
<1>3. AmongTo(f, s, S, n)
  <2>1. \E g : AmongTo(g, s, S, n)
    BY <1>1, AmongExists
  <2> QED
    BY <2>1
<1> HIDE DEF f
<1>4. AmongSteps(f, s, S)
  <2> DEFINE r == [k \in 0 .. n |-> IF k = 0 THEN <<>>
                      ELSE IF s[k] \in S THEN Append(f[k - 1], s[k]) ELSE f[k - 1]]
  <2>1. f = r
    BY <1>3 DEF AmongTo
  <2>2. \A k \in 0 .. n : r[k] = IF k = 0 THEN <<>>
                      ELSE IF s[k] \in S THEN Append(f[k - 1], s[k]) ELSE f[k - 1]
    OBVIOUS
  <2> HIDE DEF r
  <2> QED
    BY <2>1, <2>2 DEF AmongSteps
<1> QED
  BY <1>2, <1>4

(* It is in S and in the sequence, in the order it is in there, and no more.*)
Rising(s) == \A i, j \in DOMAIN s : i < j => s[i] < s[j]

LEMMA AmongIs ==
  ASSUME NEW s, IsText(s), NEW S
  PROVE  /\ IsText(Among(s, S))
         /\ \A i \in DOMAIN Among(s, S) : Among(s, S)[i] \in S \cap ToSet(s)
         /\ Len(Among(s, S)) <= Len(s)
         /\ Rising(s) => Rising(Among(s, S))
<1>1. PICK f : AmongSteps(f, s, S) /\ Among(s, S) = f[Len(s)]
  BY AmongDef
<1> DEFINE n == Len(s)
           Good(k) == /\ IsText(f[k])
                      /\ \A i \in DOMAIN f[k] : \E p \in 1 .. k : f[k][i] = s[p] /\ s[p] \in S
                      /\ Len(f[k]) <= k
                      /\ Rising(s) => Rising(f[k])
           K == {k \in Nat : k <= n => Good(k)}
<1>2. n \in Nat /\ DOMAIN s = 1 .. n
  BY TextFacts
<1>3. \A k \in 0 .. n : f[k] = IF k = 0 THEN <<>>
                               ELSE IF s[k] \in S THEN Append(f[k - 1], s[k]) ELSE f[k - 1]
  BY <1>1 DEF AmongSteps
<1>4. 0 \in K
  <2>1. f[0] = <<>> /\ IsText(<<>>) /\ Len(<<>>) = 0 /\ DOMAIN <<>> = {}
    BY <1>2, <1>3, ShortTexts
  <2>2. Rising(<<>>)
    BY <2>1 DEF Rising
  <2> QED
    BY <2>1, <2>2
<1>5. ASSUME NEW k \in Nat, k \in K PROVE k + 1 \in K
  <2> SUFFICES ASSUME k + 1 <= n PROVE Good(k + 1)
    OBVIOUS
  <2>1. k + 1 \in 0 .. n /\ k + 1 # 0 /\ (k + 1) - 1 = k /\ k + 1 \in DOMAIN s /\ k <= n
    BY <1>2
  <2>2. Good(k)
    BY <1>5, <2>1, <1>2
  <2>3. f[k + 1] = IF s[k + 1] \in S THEN Append(f[k], s[k + 1]) ELSE f[k]
    BY <1>3, <2>1
  <2> DEFINE a == f[k]
             x == s[k + 1]
  <2>4. CASE x \notin S
    <3>1. f[k + 1] = f[k]
      BY <2>3, <2>4
    <3>2. \A i \in DOMAIN f[k] : \E p \in 1 .. k + 1 : f[k][i] = s[p] /\ s[p] \in S
      BY <2>2
    <3>3. Len(f[k]) <= k + 1
      BY <2>2, TextFacts
    <3> QED
      BY <2>2, <3>1, <3>2, <3>3
  <2>5. CASE x \in S
    <3>1. f[k + 1] = Append(a, x)
      BY <2>3, <2>5
    <3>2. /\ IsText(Append(a, x)) /\ DOMAIN a = 1 .. Len(a) /\ Len(a) \in Nat
          /\ DOMAIN Append(a, x) = 1 .. Len(a) + 1
          /\ Len(Append(a, x)) = Len(a) + 1
          /\ \A i \in 1 .. Len(a) : Append(a, x)[i] = a[i]
          /\ Append(a, x)[Len(a) + 1] = x
      BY <2>2, AppendedTo
    <3> DEFINE r == Append(a, x)
    <3>3. \A i \in DOMAIN a : \E p \in 1 .. k : a[i] = s[p] /\ s[p] \in S
      BY <2>2
    <3>4. Len(a) <= k /\ (Rising(s) => Rising(a))
      BY <2>2
    <3> HIDE DEF r, a
    <3>5. ASSUME NEW i \in DOMAIN r PROVE \E p \in 1 .. k + 1 : r[i] = s[p] /\ s[p] \in S
      <4>1. CASE i = Len(a) + 1
        <5>1. r[i] = x /\ k + 1 \in 1 .. k + 1
          BY <3>2, <4>1 DEF r
        <5> QED
          BY <2>5, <5>1
      <4>2. CASE i # Len(a) + 1
        <5>1. i \in DOMAIN a /\ r[i] = a[i]
          BY <3>2, <3>5, <4>2 DEF r
        <5> QED
          BY <3>3, <5>1
      <4> QED
        BY <4>1, <4>2
    <3>6. Rising(s) => Rising(r)
      <4> SUFFICES ASSUME Rising(s), NEW i \in DOMAIN r, NEW j \in DOMAIN r, i < j PROVE r[i] < r[j]
        BY DEF Rising
      <4>1. i \in DOMAIN a /\ r[i] = a[i]
        BY <3>2 DEF r
      <4>2. CASE j = Len(a) + 1
        <5>1. r[j] = s[k + 1]
          BY <3>2, <4>2 DEF r
        <5>2. PICK p \in 1 .. k : a[i] = s[p]
          BY <3>3, <4>1
        <5>3. p \in DOMAIN s /\ p < k + 1
          BY <1>2, <2>1
        <5> QED
          BY <2>1, <4>1, <5>1, <5>2, <5>3 DEF Rising
      <4>3. CASE j # Len(a) + 1
        <5>1. j \in DOMAIN a /\ r[j] = a[j]
          BY <3>2, <4>3 DEF r
        <5> QED
          BY <3>4, <4>1, <5>1 DEF Rising
      <4> QED
        BY <4>2, <4>3
    <3>7. Len(r) <= k + 1 /\ IsText(r)
      BY <3>2, <3>4 DEF r
    <3> QED
      BY <3>1, <3>5, <3>6, <3>7 DEF r
  <2> QED
    BY <2>4, <2>5
<1> HIDE DEF K
<1>6. n \in K
  BY <1>2, <1>4, <1>5, Rec!NumberInduction
<1>7. Good(n)
  BY <1>2, <1>6 DEF K
<1>8. \A i \in DOMAIN f[n] : f[n][i] \in S \cap ToSet(s)
  BY <1>2, <1>7 DEF ToSet
<1> QED
  BY <1>1, <1>7, <1>8

(* A part of a sequence, one element longer.                                *)
LEMMA PartGrows ==
  ASSUME NEW t, IsText(t), NEW a \in Nat, a >= 1, NEW e \in Nat, a <= e, e <= Len(t)
  PROVE  SubSeq(t, a, e) = Append(SubSeq(t, a, e - 1), t[e])
<1> DEFINE p == SubSeq(t, a, e - 1)
           b == e + 1
           q == SubSeq(t, a, b - 1)
           r == Append(p, t[e])
<1>1. /\ IsText(p) /\ Len(p) = e - a /\ DOMAIN p = 1 .. Len(p)
      /\ \A i \in DOMAIN p : p[i] = t[a + i - 1]
  <2>1. Len(t) \in Nat
    BY TextFacts
  <2> QED
    BY <2>1, PartFacts
<1>2. /\ IsText(q) /\ Len(q) = b - a /\ DOMAIN q = 1 .. Len(q)
      /\ \A i \in DOMAIN q : q[i] = t[a + i - 1]
  <2>1. b \in Nat /\ a <= b /\ b <= Len(t) + 1
    BY TextFacts
  <2> HIDE DEF b
  <2> QED
    BY <2>1, PartFacts
<1>3. /\ IsText(r) /\ DOMAIN r = 1 .. Len(p) + 1 /\ Len(r) = Len(p) + 1
      /\ \A i \in 1 .. Len(p) : r[i] = p[i]
      /\ r[Len(p) + 1] = t[e]
  <2> HIDE DEF p
  <2> QED
    BY <1>1, AppendedTo
<1>4. b - 1 = e
  OBVIOUS
<1> HIDE DEF p, q, r
<1>5. ASSUME NEW i \in DOMAIN q PROVE q[i] = r[i]
  <2>1. CASE i = Len(p) + 1
    <3>1. a + i - 1 = e
      BY <1>1, <2>1
    <3> QED
      BY <1>2, <1>3, <1>5, <2>1, <3>1
  <2>2. CASE i # Len(p) + 1
    <3>1. i \in DOMAIN p
      BY <1>1, <1>2, <1>5, <2>2
    <3> QED
      BY <1>1, <1>2, <1>3, <1>5, <3>1
  <2> QED
    BY <2>1, <2>2
<1>6. DOMAIN q = DOMAIN r
  BY <1>1, <1>2, <1>3
<1>7. q = [i \in DOMAIN q |-> q[i]] /\ r = [i \in DOMAIN r |-> r[i]]
  BY <1>2, <1>3 DEF IsText
<1>8. q = r
  BY <1>5, <1>6, <1>7
<1> QED
  BY <1>4, <1>8 DEF p, q, r

(* When those in S stand together, they are what is taken.                  *)
LEMMA AmongMiddle ==
  ASSUME NEW t, IsText(t), NEW S, NEW s \in Nat, s >= 1, NEW c \in Nat, s <= c, c <= Len(t) + 1,
         \A j \in 1 .. s - 1 : t[j] \notin S,
         \A j \in s .. c - 1 : t[j] \in S,
         \A j \in c .. Len(t) : t[j] \notin S
  PROVE  Among(t, S) = SubSeq(t, s, c - 1)
<1>1. PICK f : AmongSteps(f, t, S) /\ Among(t, S) = f[Len(t)]
  BY AmongDef
<1> DEFINE n == Len(t)
           Upto(k) == IF k < s THEN <<>> ELSE IF k < c THEN SubSeq(t, s, k) ELSE SubSeq(t, s, c - 1)
           K == {k \in Nat : k <= n => f[k] = Upto(k)}
<1>2. n \in Nat
  BY TextFacts
<1>3. \A k \in 0 .. n : f[k] = IF k = 0 THEN <<>>
                               ELSE IF t[k] \in S THEN Append(f[k - 1], t[k]) ELSE f[k - 1]
  BY <1>1 DEF AmongSteps
<1>4. SubSeq(t, s, s - 1) = <<>>
  BY PartFacts, TextFacts
<1>5. 0 \in K
  BY <1>2, <1>3
<1>6. ASSUME NEW k \in Nat, k \in K PROVE k + 1 \in K
  <2> SUFFICES ASSUME k + 1 <= n PROVE f[k + 1] = Upto(k + 1)
    OBVIOUS
  <2>1. k + 1 \in 0 .. n /\ k + 1 # 0 /\ (k + 1) - 1 = k /\ k <= n
    BY <1>2
  <2>2. f[k + 1] = IF t[k + 1] \in S THEN Append(f[k], t[k + 1]) ELSE f[k]
    BY <1>3, <2>1
  <2>3. f[k] = Upto(k)
    BY <1>6, <2>1
  <2>4. CASE k + 1 < s
    <3>1. t[k + 1] \notin S /\ k < s
      BY <2>4
    <3> QED
      BY <2>2, <2>3, <2>4, <3>1
  <2>5. CASE s <= k + 1 /\ k + 1 < c
    <3>1. t[k + 1] \in S
      BY <2>5
    <3> DEFINE e == k + 1
    <3>2. SubSeq(t, s, e) = Append(SubSeq(t, s, e - 1), t[e])
      <4>1. e \in Nat /\ s <= e /\ e <= Len(t)
        BY <1>2, <2>5, <2>1
      <4> HIDE DEF e
      <4> QED
        BY <4>1, PartGrows
    <3>3. Upto(k) = SubSeq(t, s, k)
      <4>1. CASE k < s
        <5>1. k = s - 1
          BY <2>5, <4>1
        <5> QED
          BY <1>4, <4>1, <5>1
      <4>2. CASE ~(k < s)
        BY <2>5, <4>2
      <4> QED
        BY <4>1, <4>2
    <3>4. Upto(k + 1) = SubSeq(t, s, k + 1)
      BY <2>5
    <3> HIDE DEF Upto
    <3> QED
      BY <2>1, <2>2, <2>3, <3>1, <3>2, <3>3, <3>4
  <2>6. CASE c <= k + 1
    <3>1. t[k + 1] \notin S
      BY <1>2, <2>1, <2>6
    <3>2. Upto(k) = SubSeq(t, s, c - 1) /\ Upto(k + 1) = SubSeq(t, s, c - 1)
      <4>1. CASE k < s
        <5>1. (c = k + 1 /\ c = s) \/ (c = s /\ k < s)
          BY <2>6, <4>1
        <5> QED
          BY <1>4, <2>6, <4>1, <5>1
      <4>2. CASE ~(k < s) /\ k < c
        <5>1. k = c - 1
          BY <2>6, <4>2
        <5> QED
          BY <2>6, <4>2, <5>1
      <4>3. CASE ~(k < s) /\ ~(k < c)
        BY <2>6, <4>3
      <4> QED
        BY <4>1, <4>2, <4>3
    <3> HIDE DEF Upto
    <3> QED
      BY <2>2, <2>3, <3>1, <3>2
  <2> QED
    BY <2>4, <2>5, <2>6
<1>7. n \in K
  <2> HIDE DEF K
  <2> QED
    BY <1>2, <1>5, <1>6, Rec!NumberInduction
<1>8. Upto(n) = SubSeq(t, s, c - 1)
  <2>1. CASE n < s
    <3>1. c = s
      BY <1>2, <2>1
    <3> QED
      BY <1>4, <2>1, <3>1
  <2>2. CASE ~(n < s) /\ n < c
    <3>1. n = c - 1
      BY <1>2, <2>2
    <3> QED
      BY <2>2, <3>1
  <2>3. CASE ~(n < s) /\ ~(n < c)
    BY <2>3
  <2> QED
    BY <2>1, <2>2, <2>3
<1>9. f[n] = Upto(n)
  BY <1>2, <1>7
<1> HIDE DEF Upto, K
<1> QED
  BY <1>1, <1>8, <1>9

(* The figures among bytes are those of the text without space around it,   *)
(* if there is none inside.                                                 *)
LEMMA FiguresAmong ==
  ASSUME NEW t, IsText(t),
         \A i \in DOMAIN Trimmed(t) : IsFigure(Trimmed(t)[i], 16)
  PROVE  Among(t, {c \in ToSet(t) : ~IsSpace(c)}) = Trimmed(t)
<1> DEFINE S == {c \in ToSet(t) : ~IsSpace(c)}
           n == Len(t)
<1>1. n \in Nat /\ DOMAIN t = 1 .. n
  BY TextFacts
<1>2. \A j \in DOMAIN t : t[j] \in S <=> ~IsSpace(t[j])
  BY DEF ToSet
<1> HIDE DEF S
<1>3. CASE Trimmed(t) = <<>>
  <2>1. \A j \in DOMAIN t : IsSpace(t[j])
    <3> SUFFICES ASSUME NEW j \in DOMAIN t, ~IsSpace(t[j]) PROVE FALSE
      OBVIOUS
    <3> DEFINE solid == {i \in DOMAIN t : ~IsSpace(t[i])}
    <3>1. j \in solid /\ solid \in SUBSET Nat /\ solid \in SUBSET (0 .. n)
      BY <1>1
    <3>2. Trimmed(t) = SubSeq(t, Min(solid), Max(solid))
      BY <3>1 DEF Trimmed
    <3> HIDE DEF solid
    <3> DEFINE a == Min(solid)
               m == Max(solid)
    <3>3. a \in solid /\ m \in solid /\ a <= m
      BY <1>1, <3>1, LeastElement, GreatestElement
    <3> HIDE DEF a, m
    <3>4. a \in Nat /\ a >= 1 /\ m \in Nat /\ m <= n
      BY <1>1, <3>3 DEF solid
    <3> DEFINE e == m + 1
    <3>5. e \in Nat /\ e <= Len(t) + 1 /\ a <= e /\ e - 1 = m /\ e - a # 0
      BY <1>1, <3>3, <3>4
    <3> HIDE DEF e
    <3>6. Len(SubSeq(t, a, e - 1)) = e - a
      BY <3>4, <3>5, PartFacts
    <3>7. SubSeq(t, a, m) = <<>>
      BY <1>3, <3>2 DEF a, m
    <3>8. Len(<<>>) = 0
      OBVIOUS
    <3> QED
      BY <3>5, <3>6, <3>7, <3>8
  <2>2. \A j \in 1 .. n : t[j] \notin S
    BY <1>1, <1>2, <2>1
  <2>3. Among(t, S) = SubSeq(t, 1, 1 - 1)
    <3>1. 1 \in Nat /\ 1 >= 1 /\ 1 <= 1 /\ 1 <= Len(t) + 1
          /\ (\A j \in 1 .. 1 - 1 : t[j] \notin S) /\ (\A j \in 1 .. 1 - 1 : t[j] \in S)
          /\ (\A j \in 1 .. Len(t) : t[j] \notin S)
      BY <1>1, <2>2
    <3> DEFINE one == 1
    <3> HIDE DEF n
    <3>2. Among(t, S) = SubSeq(t, one, one - 1)
      <4>1. one \in Nat /\ one >= 1 /\ one <= one /\ one <= Len(t) + 1
            /\ (\A j \in 1 .. one - 1 : t[j] \notin S) /\ (\A j \in one .. one - 1 : t[j] \in S)
            /\ (\A j \in one .. Len(t) : t[j] \notin S)
        BY <3>1
      <4> HIDE DEF one
      <4> QED
        BY <4>1, AmongMiddle
    <3> QED
      BY <3>2
  <2>4. SubSeq(t, 1, 1 - 1) = <<>>
    OBVIOUS
  <2> QED
    BY <1>3, <2>3, <2>4 DEF S
<1>4. CASE Trimmed(t) # <<>>
  <2>1. PICK s \in 1 .. Len(t), c \in 1 .. Len(t) + 1 :
           /\ s < c /\ Trimmed(t) = SubSeq(t, s, c - 1)
           /\ \A j \in 1 .. s - 1 : IsSpace(t[j])
           /\ \A j \in c .. Len(t) : IsSpace(t[j])
    BY <1>4, TrimmedPart
  <2>2. s \in Nat /\ c \in Nat /\ s >= 1 /\ s <= c /\ c <= Len(t) + 1 /\ c <= n + 1
    BY <1>1, <2>1
  <2>3. /\ Len(Trimmed(t)) = c - s /\ DOMAIN Trimmed(t) = 1 .. Len(Trimmed(t))
        /\ \A i \in DOMAIN Trimmed(t) : Trimmed(t)[i] = t[s + i - 1]
    BY <2>1, <2>2, PartFacts
  <2>4. ASSUME NEW j \in s .. c - 1 PROVE t[j] \in S
    <3>1. j - s + 1 \in DOMAIN Trimmed(t) /\ s + (j - s + 1) - 1 = j /\ j \in DOMAIN t
      BY <1>1, <2>2, <2>3
    <3>2. IsFigure(t[j], 16)
      BY <2>3, <3>1
    <3>3. ~IsSpace(t[j])
      BY <3>2, FigureOfBase DEF IsSpace
    <3> QED
      BY <1>2, <3>1, <3>3
  <2>5. \A j \in 1 .. s - 1 : t[j] \notin S
    <3> TAKE j \in 1 .. s - 1
    <3>1. j \in DOMAIN t
      BY <1>1, <2>2
    <3> QED
      BY <1>2, <2>1, <3>1
  <2>6. \A j \in c .. Len(t) : t[j] \notin S
    <3> TAKE j \in c .. Len(t)
    <3>1. j \in DOMAIN t
      BY <1>1, <2>2
    <3> QED
      BY <1>2, <2>1, <3>1
  <2>7. Among(t, S) = SubSeq(t, s, c - 1)
    BY <2>2, <2>4, <2>5, <2>6, AmongMiddle
  <2> QED
    BY <2>1, <2>7 DEF S
<1> QED
  BY <1>3, <1>4

LEMMA Widths == DigitsPerByte = 1 \/ DigitsPerByte = 2
  BY DigitsPerByteAssumption

(* Bytes that the schema allows are read.                                   *)
LEMMA BytesRead ==
  ASSUME NEW t, IsText(t), NEW most \in Nat, BytesText(t, most)
  PROVE  HexBufFromStr(t, most) # {}
<1> DEFINE w == Trimmed(t)
           groups == (Len(w) + DigitsPerByte - 1) \div DigitsPerByte
<1>1. /\ \A i \in DOMAIN w : IsFigure(w[i], 16)
      /\ Len(w) <= most * DigitsPerByte
  BY DEF BytesText
<1>2. Among(t, {c \in ToSet(t) : ~IsSpace(c)}) = w
  BY <1>1, FiguresAmong
<1>3. Len(w) \in Nat
  <2>1. CASE w = <<>>
    BY <2>1
  <2>2. CASE w # <<>>
    <3>1. PICK s \in 1 .. Len(t), c \in 1 .. Len(t) + 1 : s < c /\ w = SubSeq(t, s, c - 1)
      BY <2>2, TrimmedPart
    <3>2. s \in Nat /\ s >= 1 /\ c \in Nat /\ c <= Len(t) + 1
      BY <3>1, TextFacts
    <3>3. IsText(SubSeq(t, s, c - 1))
      BY <3>2, PartFacts
    <3> QED
      BY <3>1, <3>3, TextFacts
  <2> QED
    BY <2>1, <2>2
<1> DEFINE n == Len(w)
<1>4. ~(groups > most)
  <2>1. n \in Nat /\ n <= most * DigitsPerByte
    BY <1>1, <1>3
  <2> HIDE DEF n, w
  <2>2. CASE DigitsPerByte = 1
    BY <2>1, <2>2 DEF n
  <2>3. CASE DigitsPerByte = 2
    <3>1. n <= most * 2 /\ groups = (n + 1) \div 2
      BY <2>1, <2>3 DEF n
    <3>2. (n + 1) \div 2 <= most
      BY <2>1, <3>1
    <3>3. (n + 1) \div 2 \in Nat
      BY <2>1
    <3> QED
      BY <3>1, <3>2, <3>3
  <2> QED
    BY <2>2, <2>3, Widths
<1>5. HexBufFromStr(t, most) =
        {[b \in 1 .. groups |->
            IF DigitsPerByte = 1 THEN (IF b \in DOMAIN w THEN WeightOf[w[b]] ELSE 0)
            ELSE 16 * (IF 2 * b - 1 \in DOMAIN w THEN WeightOf[w[2 * b - 1]] ELSE 0)
                 + (IF 2 * b \in DOMAIN w THEN WeightOf[w[2 * b]] ELSE 0)]}
  <2> HIDE DEF w
  <2> QED
    BY <1>1, <1>2, <1>4 DEF HexBufFromStr
<1> QED
  BY <1>5

------------------------------------------------------------------------------
(* Where children stand in the order of their names.                        *)

(* Where the children of a node stand among the names.                      *)
FirstFrom(there, last) == IF there = {} THEN last + 1 ELSE Min(there)
PlaceOf(name, from, last, names) == FirstFrom({i \in from .. last : name \in names[i]}, last)
PlacesTo(f, kids, last, names, n) ==
    f = [k \in 0 .. n |-> IF k = 0 THEN -1 ELSE PlaceOf(kids[k].name, f[k - 1] + 1, last, names)]

LEMMA PlacesExist ==
  ASSUME NEW kids, NEW last, NEW names, NEW n \in Nat
  PROVE  \E f : PlacesTo(f, kids, last, names, n)
<1> DEFINE P(k, x) == PlaceOf(kids[k].name, x + 1, last, names)
           K == {m \in Nat : \E f : PlacesTo(f, kids, last, names, m)}
<1>1. 0 \in K
  <2> DEFINE f == [k \in 0 .. 0 |-> -1]
  <2>1. f = [k \in 0 .. 0 |-> IF k = 0 THEN -1 ELSE P(k, f[k - 1])]
    OBVIOUS
  <2>2. PlacesTo(f, kids, last, names, 0)
    BY <2>1 DEF PlacesTo
  <2> QED
    BY <2>2
<1>2. ASSUME NEW m \in Nat, m \in K PROVE m + 1 \in K
  <2>1. PICK f : PlacesTo(f, kids, last, names, m)
    BY <1>2
  <2> DEFINE g == [k \in 0 .. m + 1 |-> IF k = m + 1 THEN P(m + 1, f[m]) ELSE f[k]]
             r == [k \in 0 .. m + 1 |-> IF k = 0 THEN -1 ELSE P(k, g[k - 1])]
             q == [k \in 0 .. m |-> IF k = 0 THEN -1 ELSE P(k, f[k - 1])]
  <2>2. f = q
    BY <2>1 DEF PlacesTo
  <2>3. \A k \in 0 .. m : f[k] = IF k = 0 THEN -1 ELSE P(k, f[k - 1])
    <3>1. \A k \in 0 .. m : q[k] = IF k = 0 THEN -1 ELSE P(k, f[k - 1])
      OBVIOUS
    <3> HIDE DEF q, P
    <3> QED
      BY <2>2, <3>1
  <2> HIDE DEF P
  <2>4. /\ \A k \in 0 .. m : g[k] = f[k]
        /\ g[m + 1] = P(m + 1, f[m])
    OBVIOUS
  <2>5. g = [k \in 0 .. m + 1 |-> g[k]]
    OBVIOUS
  <2> HIDE DEF g
  <2>6. ASSUME NEW k \in 0 .. m + 1 PROVE g[k] = r[k]
    <3>1. r[k] = IF k = 0 THEN -1 ELSE P(k, g[k - 1])
      OBVIOUS
    <3> HIDE DEF r, q
    <3>2. CASE k = m + 1
      <4>1. k # 0 /\ k - 1 = m /\ m \in 0 .. m
        BY <3>2
      <4>2. g[k] = P(k, f[m]) /\ g[k - 1] = f[m]
        BY <2>4, <3>2, <4>1
      <4> QED
        BY <3>1, <4>1, <4>2
    <3>3. CASE k # m + 1
      <4>1. k \in 0 .. m /\ (k # 0 => k - 1 \in 0 .. m)
        BY <3>3
      <4>2. g[k] = f[k] /\ (k # 0 => g[k - 1] = f[k - 1])
        BY <2>4, <4>1
      <4> QED
        BY <2>3, <3>1, <4>1, <4>2
    <3> QED
      BY <3>2, <3>3
  <2>7. g = r
    BY <2>5, <2>6
  <2>8. PlacesTo(g, kids, last, names, m + 1)
    BY <2>7 DEF PlacesTo, P
  <2> QED
    BY <2>8
<1> HIDE DEF K
<1>3. n \in K
  BY <1>1, <1>2, Rec!NumberInduction
<1> QED
  BY <1>3 DEF K

LEMMA PlacesDef ==
  ASSUME NEW kids, IsText(kids), NEW last, NEW names
  PROVE  /\ Places(kids, last, names)[0] = -1
         /\ \A k \in DOMAIN kids :
               Places(kids, last, names)[k]
                 = PlaceOf(kids[k].name, Places(kids, last, names)[k - 1] + 1, last, names)
<1> DEFINE f == CHOOSE g : PlacesTo(g, kids, last, names, Len(kids))
           n == Len(kids)
<1>1. n \in Nat /\ DOMAIN kids = 1 .. n
  BY TextFacts
<1>2. Places(kids, last, names) = f
  BY DEF Places, PlacesTo, PlaceOf, FirstFrom
<1>3. PlacesTo(f, kids, last, names, n)
  <2>1. \E g : PlacesTo(g, kids, last, names, n)
    BY <1>1, PlacesExist
  <2> QED
    BY <2>1
<1> HIDE DEF f
<1> DEFINE r == [k \in 0 .. n |-> IF k = 0 THEN -1 ELSE PlaceOf(kids[k].name, f[k - 1] + 1, last, names)]
<1>4. f = r
  BY <1>3 DEF PlacesTo
<1>5. \A k \in 0 .. n : r[k] = IF k = 0 THEN -1 ELSE PlaceOf(kids[k].name, f[k - 1] + 1, last, names)
  OBVIOUS
<1> HIDE DEF r, n
<1>6. f[0] = -1
  BY <1>1, <1>4, <1>5
<1>7. ASSUME NEW k \in DOMAIN kids
      PROVE f[k] = PlaceOf(kids[k].name, f[k - 1] + 1, last, names)
  <2>1. k \in 0 .. n /\ k # 0
    BY <1>1
  <2> QED
    BY <1>4, <1>5, <2>1
<1> QED
  BY <1>2, <1>6, <1>7

(* Children in the order of the names, as the schema has it, have a place,  *)
(* where also the names past those of the schema may lie.                   *)
LEMMA PlacesFound ==
  ASSUME NEW kids, IsText(kids), NEW last \in Nat, NEW names,
         NEW few, DOMAIN few \in SUBSET (0 .. last),
         \A i \in DOMAIN few : few[i] \subseteq names[i],
         \A k \in DOMAIN kids : \E i \in DOMAIN few : kids[k].name \in few[i],
         \A j, k \in DOMAIN kids : j < k =>
            \A i, i2 \in DOMAIN few : kids[j].name \in few[i] /\ kids[k].name \in few[i2] => i < i2
  PROVE  \A k \in DOMAIN kids : Places(kids, last, names)[k] \in 0 .. last
<1> DEFINE spot == Places(kids, last, names)
           n == Len(kids)
           Early(k) == \A i \in DOMAIN few : kids[k].name \in few[i] => spot[k] <= i
           Good(k) == spot[k] \in -1 .. last /\ (k # 0 => spot[k] >= 0 /\ Early(k))
           K == {k \in Nat : k <= n => Good(k)}
<1>1. n \in Nat /\ DOMAIN kids = 1 .. n
  BY TextFacts
<1>2. /\ spot[0] = -1
      /\ \A k \in DOMAIN kids : spot[k] = PlaceOf(kids[k].name, spot[k - 1] + 1, last, names)
  BY PlacesDef
<1> HIDE DEF spot
<1>3. 0 \in K
  BY <1>2
<1>4. ASSUME NEW k \in Nat, k \in K PROVE k + 1 \in K
  <2> SUFFICES ASSUME k + 1 <= n PROVE Good(k + 1)
    OBVIOUS
  <2> DEFINE m == k + 1
  <2>1. m \in DOMAIN kids /\ m # 0 /\ m - 1 = k /\ k <= n /\ (k # 0 => k \in DOMAIN kids)
    BY <1>1
  <2>2. Good(k)
    BY <1>1, <1>4, <2>1
  <2> DEFINE there == {i \in spot[k] + 1 .. last : kids[m].name \in names[i]}
  <2>3. spot[m] = FirstFrom(there, last)
    BY <1>2, <2>1 DEF PlaceOf
  <2>4. PICK i0 \in DOMAIN few : kids[m].name \in few[i0]
    BY <2>1
  <2>5. ASSUME NEW i \in DOMAIN few, kids[m].name \in few[i]
        PROVE  i \in there
    <3>1. i \in 0 .. last /\ kids[m].name \in names[i]
      BY <2>5
    <3>2. spot[k] + 1 <= i
      <4>1. CASE k = 0
        BY <1>2, <3>1, <4>1
      <4>2. CASE k # 0
        <5>1. PICK j \in DOMAIN few : kids[k].name \in few[j]
          BY <2>1, <4>2
        <5>2. spot[k] <= j /\ spot[k] \in -1 .. last
          BY <2>2, <4>2, <5>1
        <5>3. k < m
          OBVIOUS
        <5>4. j < i
          BY <2>1, <2>5, <4>2, <5>1, <5>3
        <5>5. j \in 0 .. last
          BY <5>1
        <5> QED
          BY <3>1, <5>2, <5>4, <5>5
      <4> QED
        BY <4>1, <4>2
    <3> QED
      BY <2>2, <3>1, <3>2
  <2>6. i0 \in there
    BY <2>4, <2>5
  <2>7. there \in SUBSET Nat
    BY <2>2
  <2>8. \A y \in there : y \in 0 .. last
    BY <2>2
  <2> HIDE DEF there
  <2>9. spot[m] = Min(there) /\ Min(there) \in there /\ \A y \in there : Min(there) <= y
    BY <2>3, <2>6, <2>7, LeastElement DEF FirstFrom
  <2>10. spot[m] \in 0 .. last
    BY <2>8, <2>9
  <2>11. Early(m)
    BY <2>5, <2>9
  <2> HIDE DEF Early
  <2> QED
    BY <2>10, <2>11
<1> HIDE DEF K
<1>5. \A k \in Nat : k \in K
  BY <1>3, <1>4, Rec!NumberInduction
<1>6. ASSUME NEW k \in DOMAIN kids PROVE spot[k] \in 0 .. last
  <2>1. k \in Nat /\ k <= n /\ k # 0
    BY <1>1
  <2>2. Good(k)
    BY <1>5, <2>1 DEF K
  <2> QED
    BY <2>1, <2>2
<1> QED
  BY <1>6 DEF spot

------------------------------------------------------------------------------
(* The readers of single values.                                            *)

(* The first of two readers that has a value.                               *)
LEMMA AltIs ==
  ASSUME NEW A, NEW B
  PROVE  FromAlt(<<A, B>>) = IF A # {} THEN A ELSE B
<1> DEFINE results == <<A, B>>
           good == {i \in DOMAIN results : results[i] # {}}
<1>1. DOMAIN results = {1, 2} /\ results[1] = A /\ results[2] = B
  OBVIOUS
<1> HIDE DEF results
<1>2. good \in SUBSET Int
  BY <1>1
<1>3. FromAlt(results) = IF good = {} THEN {} ELSE results[Min(good)]
  BY DEF FromAlt
<1>4. 1 \in good <=> A # {}
  BY <1>1
<1>5. 2 \in good <=> B # {}
  BY <1>1
<1>6. \A i \in good : i = 1 \/ i = 2
  BY <1>1
<1> HIDE DEF good
<1>7. CASE A # {}
  <2>1. 1 \in good /\ \A y \in good : 1 <= y
    BY <1>4, <1>6, <1>7
  <2>2. Min(good) = 1
    BY <1>2, <2>1, LeastIs
  <2> QED
    BY <1>1, <1>3, <1>7, <2>1, <2>2 DEF results
<1>8. CASE A = {} /\ B # {}
  <2>1. 2 \in good /\ 1 \notin good /\ \A y \in good : 2 <= y
    BY <1>4, <1>5, <1>6, <1>8
  <2>2. Min(good) = 2
    BY <1>2, <2>1, LeastIs
  <2> QED
    BY <1>1, <1>3, <1>8, <2>1, <2>2 DEF results
<1>9. CASE A = {} /\ B = {}
  <2>1. good = {}
    BY <1>4, <1>5, <1>6, <1>9
  <2> QED
    BY <1>3, <1>9, <2>1 DEF results
<1> QED
  BY <1>7, <1>8, <1>9

(* The limits of the numbers, in both widths.                               *)
LEMMA Limits ==
  /\ DigitsPerByte = 1 => /\ ByteSize = 16 /\ Most("u8") = 15 /\ Most("u16") = 255
                          /\ Most("u32") = 65535 /\ AllOnes = 65535
                          /\ Least("s32") = -32768 /\ Most("s32") = 32767
  /\ DigitsPerByte = 2 => /\ ByteSize = 256 /\ Most("u8") = 255 /\ Most("u16") = 65535
                          /\ Most("u32") = 4294967295 /\ AllOnes = 4294967295
                          /\ Least("s32") = -2147483648 /\ Most("s32") = 2147483647
<1>1. /\ "u8" \notin Signed /\ "u16" \notin Signed /\ "u32" \notin Signed /\ "s32" \in Signed
      /\ Bytes["u8"] = 1 /\ Bytes["u16"] = 2 /\ Bytes["u32"] = 4 /\ Bytes["s32"] = 4
  BY DEF Bytes, Signed
<1>2. CASE DigitsPerByte = 1
  <2>1. ByteSize = 16
    <3>1. 16 ^ 1 = 16
      OBVIOUS
    <3> QED
      BY <1>2, <3>1 DEF ByteSize
  <2>2. 16 ^ 1 = 16 /\ 16 ^ 2 = 256 /\ 16 ^ 4 = 65536
    OBVIOUS
  <2>3. Most("u8") = 0 + ByteSize ^ 1 - 1 /\ Most("u16") = 0 + ByteSize ^ 2 - 1
        /\ Most("u32") = 0 + ByteSize ^ 4 - 1
        /\ Least("s32") = -((ByteSize ^ 4) \div 2)
        /\ Most("s32") = Least("s32") + ByteSize ^ 4 - 1
    BY <1>1 DEF Most, Least
  <2>4. ByteSize ^ 1 = 16 /\ ByteSize ^ 2 = 256 /\ ByteSize ^ 4 = 65536
    BY <2>1, <2>2
  <2> QED
    BY <1>2, <2>1, <2>3, <2>4 DEF AllOnes
<1>3. CASE DigitsPerByte = 2
  <2>1. ByteSize = 256
    <3>1. 16 ^ 2 = 256
      OBVIOUS
    <3> QED
      BY <1>3, <3>1 DEF ByteSize
  <2>2. 256 ^ 1 = 256 /\ 256 ^ 2 = 65536 /\ 256 ^ 4 = 4294967296
    OBVIOUS
  <2>3. Most("u8") = 0 + ByteSize ^ 1 - 1 /\ Most("u16") = 0 + ByteSize ^ 2 - 1
        /\ Most("u32") = 0 + ByteSize ^ 4 - 1
        /\ Least("s32") = -((ByteSize ^ 4) \div 2)
        /\ Most("s32") = Least("s32") + ByteSize ^ 4 - 1
    BY <1>1 DEF Most, Least
  <2>4. ByteSize ^ 1 = 256 /\ ByteSize ^ 2 = 65536 /\ ByteSize ^ 4 = 4294967296
    BY <2>1, <2>2
  <2> QED
    BY <1>3, <2>1, <2>3, <2>4 DEF AllOnes
<1> QED
  BY <1>2, <1>3

LEMMA LimitsAre ==
  /\ Most("u8") \in Nat /\ Most("u16") \in Nat /\ Most("u32") \in Nat
  /\ 15 <= Most("u8") /\ Most("u8") <= 255 /\ Most("u8") < Most("u16") /\ Most("u16") < Most("u32")
  /\ Least("s32") \in Int /\ Most("s32") \in Nat /\ Least("s32") <= -32768 /\ Most("s32") >= 32767
  /\ AllOnes = Most("u32") /\ ByteSize = Most("u8") + 1
  /\ Most("u32") = 2 * Most("s32") + 1
  BY Widths, Limits

(* A text of figures is a number below the power of the base.               *)
Power == <<16, 256, 4096, 65536, 1048576, 16777216, 268435456, 4294967296>>

LEMMA NextPower ==
  ASSUME NEW k \in 1 .. 7
  PROVE  Power[k + 1] = 16 * Power[k] /\ Power[k] \in Nat
<1>1. /\ Power[1] = 16 /\ Power[2] = 256 /\ Power[3] = 4096 /\ Power[4] = 65536
      /\ Power[5] = 1048576 /\ Power[6] = 16777216 /\ Power[7] = 268435456 /\ Power[8] = 4294967296
  BY DEF Power
<1>2. k = 1 \/ k = 2 \/ k = 3 \/ k = 4 \/ k = 5 \/ k = 6 \/ k = 7
  OBVIOUS
<1> HIDE DEF Power
<1> QED
  BY <1>1, <1>2

LEMMA FigureBelow ==
  ASSUME NEW c, IsFigure(c, 16)
  PROVE  WeightOf[c] \in 0 .. 15
<1>1. PICK i \in 1 .. 16 : c = Figure[i]
  BY DEF IsFigure
<1>2. c \in ToSet(Figure)
  BY <1>1 DEF ToSet, Figure
<1> DEFINE P(k) == Figure[k] = c
           j == CHOOSE k \in 1 .. 16 : P(k)
<1>3. j \in 1 .. 16
  <2>1. P(i)
    BY <1>1
  <2> HIDE DEF P
  <2> QED
    BY <2>1
<1>4. WeightOf[c] = j - 1
  BY <1>2 DEF WeightOf
<1> HIDE DEF j
<1> QED
  BY <1>3, <1>4

LEMMA ValueBelow ==
  ASSUME NEW s, IsText(s), \A i \in DOMAIN s : IsFigure(s[i], 16), Len(s) \in 1 .. 8
  PROVE  ValueOf(s, 16) \in Nat /\ ValueOf(s, 16) < Power[Len(s)]
<1>1. PICK f : ValueSteps(f, s, 16) /\ ValueOf(s, 16) = f[Len(s)]
  BY ValueDef
<1> DEFINE n == Len(s)
<1>2. n \in 1 .. 8 /\ DOMAIN s = 1 .. n
  BY TextFacts
<1>3. \A k \in 0 .. n : f[k] = IF k = 0 THEN 0 ELSE f[k - 1] * 16 + WeightOf[s[k]]
  BY <1>1 DEF ValueSteps
<1> HIDE DEF n
<1> DEFINE K == {k \in Nat : k + 1 <= n => f[k + 1] \in Nat /\ f[k + 1] < Power[k + 1]}
<1>4. 0 \in K
  <2>1. 0 \in 0 .. n /\ 1 \in 0 .. n /\ 1 - 1 = 0 /\ 1 \in DOMAIN s
    BY <1>2
  <2>2. f[0] = 0 /\ f[1] = f[0] * 16 + WeightOf[s[1]]
    BY <1>3, <2>1
  <2>3. WeightOf[s[1]] \in 0 .. 15
    BY <2>1, FigureBelow
  <2>4. f[1] \in Nat /\ f[1] < 16 /\ Power[1] = 16
    BY <2>2, <2>3 DEF Power
  <2> QED
    BY <2>4
<1>5. ASSUME NEW k \in Nat, k \in K PROVE k + 1 \in K
  <2> SUFFICES ASSUME k + 2 <= n PROVE f[k + 2] \in Nat /\ f[k + 2] < Power[k + 2]
    OBVIOUS
  <2> DEFINE m == k + 1
  <2>1. m \in 1 .. 7 /\ k + 2 = m + 1 /\ m + 1 \in 0 .. n /\ (m + 1) - 1 = m /\ m + 1 \in DOMAIN s
        /\ m + 1 # 0
    BY <1>2
  <2>2. f[m] \in Nat /\ f[m] < Power[m]
    <3>1. k + 1 <= n
      BY <1>2
    <3> QED
      BY <1>5, <3>1
  <2> HIDE DEF m
  <2>3. f[m + 1] = f[m] * 16 + WeightOf[s[m + 1]]
    BY <1>3, <2>1
  <2>4. WeightOf[s[m + 1]] \in 0 .. 15
    BY <2>1, FigureBelow
  <2>5. Power[m + 1] = 16 * Power[m] /\ Power[m] \in Nat
    BY <2>1, NextPower
  <2>6. ASSUME NEW x \in Nat, NEW y \in 0 .. 15, NEW z \in Nat, x < z
        PROVE  x * 16 + y \in Nat /\ x * 16 + y < 16 * z
    BY <2>6
  <2>7. f[m + 1] \in Nat /\ f[m + 1] < Power[m + 1]
    BY <2>2, <2>3, <2>4, <2>5, <2>6
  <2> QED
    BY <2>1, <2>7
<1> HIDE DEF K
<1>6. \A k \in Nat : k \in K
  BY <1>4, <1>5, Rec!NumberInduction
<1>7. n - 1 \in Nat /\ (n - 1) + 1 = n
  BY <1>2
<1>8. f[n] \in Nat /\ f[n] < Power[n]
  <2>1. n - 1 \in K
    BY <1>6, <1>7
  <2> QED
    BY <1>2, <1>7, <2>1 DEF K
<1> QED
  BY <1>1, <1>8 DEF n

(* Hexadecimal figures as the schema has them are read, in the type with    *)
(* room for them.                                                           *)
LEMMA HexRead ==
  ASSUME NEW t, IsText(t), NEW type \in {"u16", "u32"},
         HexText(t, Bytes[type] * DigitsPerByte)
  PROVE  FromRepr(type, t, "hex") # {}
<1> DEFINE n == Len(t)
           c == n + 1
           one == 1
           v == ValueOf(SubSeq(t, one, c - 1), 16)
<1>1. n \in 1 .. Bytes[type] * DigitsPerByte /\ DOMAIN t = 1 .. n
      /\ \A i \in DOMAIN t : IsFigure(t[i], 16)
  BY TextFacts DEF HexText
<1>2. Bytes["u16"] = 2 /\ Bytes["u32"] = 4
  BY DEF Bytes
<1>3. n \in 1 .. 8 /\ (type = "u16" => n <= 2 * DigitsPerByte) /\ n <= 4 * DigitsPerByte
  <2> HIDE DEF n
  <2>1. CASE type = "u16"
    <3>1. n \in 1 .. 2 * DigitsPerByte
      BY <1>1, <1>2, <2>1
    <3> QED
      BY <2>1, <3>1, Widths
  <2>2. CASE type = "u32"
    <3>1. n \in 1 .. 4 * DigitsPerByte
      BY <1>1, <1>2, <2>2
    <3> QED
      BY <2>2, <3>1, Widths
  <2> QED
    BY <2>1, <2>2
<1>4. IsNumeral(t, 16, one, one, c)
  <2>1. one \in DOMAIN t /\ c \in Nat /\ c <= Len(t) + 1 /\ one < c
    BY <1>1, <1>3
  <2>2. \A j \in one .. c - 1 : IsFigure(t[j], 16)
    BY <1>1, <1>3
  <2>3. (\A j \in 1 .. one - 1 : IsSpace(t[j])) /\ \A j \in c .. Len(t) : IsSpace(t[j])
    BY <1>3
  <2>4. one # one + 1
    OBVIOUS
  <2> HIDE DEF one, c
  <2> QED
    BY <2>1, <2>2, <2>3, <2>4 DEF IsNumeral
<1>5. SubSeq(t, one, c - 1) = t
  <2>1. SubSeq(t, 1, Len(t)) = t
    BY WholeText
  <2>2. c - 1 = Len(t)
    BY <1>3
  <2> QED
    BY <2>1, <2>2
<1> HIDE DEF c
<1>6. t[1] # "-"
  <2>1. IsFigure(t[1], 16)
    BY <1>1, <1>3
  <2> QED
    BY <2>1, FigureOfBase
<1>7. /\ Converted(t, one, "NONE", 16) = {v} /\ SpaceEnd(t, 1) = one /\ At(t, one) = t[one]
  <2>1. LET u == ValueOf(SubSeq(t, one, c - 1), 16)
        IN  /\ u \in Nat
            /\ Converted(t, one, "NONE", 16) = {IF t[one] = "-" THEN -u ELSE u}
            /\ SpaceEnd(t, 1) = one
            /\ At(t, one) = t[one]
    <3> HIDE DEF one
    <3> QED
      BY <1>4, NumeralConverted
  <2> QED
    BY <1>6, <2>1
<1>8. v \in Nat /\ v < Power[n]
  BY <1>1, <1>3, <1>5, ValueBelow
<1> HIDE DEF v
<1>9. v <= Most(type) /\ v <= Most("u32")
  <2>1. /\ Power[1] = 16 /\ Power[2] = 256 /\ Power[3] = 4096 /\ Power[4] = 65536
        /\ Power[5] = 1048576 /\ Power[6] = 16777216 /\ Power[7] = 268435456 /\ Power[8] = 4294967296
    BY DEF Power
  <2>2. n = 1 \/ n = 2 \/ n = 3 \/ n = 4 \/ n = 5 \/ n = 6 \/ n = 7 \/ n = 8
    BY <1>3
  <2> HIDE DEF n
  <2>3. CASE DigitsPerByte = 1
    <3>1. v < 65536 /\ (type = "u16" => v < 256)
      BY <1>3, <1>8, <2>1, <2>2, <2>3
    <3>2. Most("u16") = 255 /\ Most("u32") = 65535
      BY <2>3, Limits
    <3> QED
      BY <1>8, <3>1, <3>2
  <2>4. CASE DigitsPerByte = 2
    <3>1. v < 4294967296 /\ (type = "u16" => v < 65536)
      BY <1>3, <1>8, <2>1, <2>2, <2>4
    <3>2. Most("u16") = 65535 /\ Most("u32") = 4294967295
      BY <2>4, Limits
    <3> QED
      BY <1>8, <3>1, <3>2
  <2> QED
    BY <2>3, <2>4, Widths
<1>10. U32FromStr(t, "NONE", 16) = {v}
  BY <1>6, <1>7, <1>9 DEF U32FromStr, SpaceEnd
<1>11. UFromStr(type, t, "NONE", 16) = {v}
  BY <1>9, <1>10 DEF UFromStr
<1>12. FromRepr(type, t, "hex") = UFromStr(type, t, "NONE", 16)
  BY DEF FromRepr, Parsed, Mark, Base, Signed
<1> QED
  BY <1>11, <1>12

------------------------------------------------------------------------------
(* Elements that the schema allows are read: first those with one value.    *)

(* A boolean that the schema allows is read.                                *)
LEMMA BoolRead ==
  ASSUME NEW t, BoolText(t)
  PROVE  BoolFromStr(t) # {}
<1> DEFINE w == Trimmed(t)
<1>1. w \in {<<"true">>, <<"false">>, <<"1">>, <<"0">>}
  BY DEF BoolText
<1> HIDE DEF w
<1>2. w # <<>> /\ \A i \in DOMAIN w : w[i] \notin {" ", "+", "-", ","}
  <2>1. DOMAIN w = {1} /\ w[1] \in {"true", "false", "1", "0"}
    BY <1>1
  <2>2. DOMAIN <<>> = {}
    OBVIOUS
  <2> QED
    BY <2>1, <2>2
<1>3. FindTkn(t) = {w}
  BY <1>2 DEF FindTkn, w
<1>4. w \in Yes \cup No \/ \A i \in DOMAIN w : IsFigure(w[i], 10)
  <2>1. CASE w \in {<<"true">>, <<"false">>}
    BY <2>1 DEF Yes, No
  <2>2. CASE w \in {<<"1">>, <<"0">>}
    <3>1. IsFigure("0", 10) /\ IsFigure("1", 10)
      <4>1. 1 \in 1 .. 10 /\ 2 \in 1 .. 10
        OBVIOUS
      <4>2. Figure[1] = "0" /\ Figure[2] = "1"
        BY DEF Figure
      <4> HIDE DEF Figure
      <4> QED
        BY <4>1, <4>2 DEF IsFigure
    <3>2. DOMAIN w = {1} /\ w[1] \in {"0", "1"}
      BY <2>2
    <3> QED
      BY <3>1, <3>2
  <2> QED
    BY <1>1, <2>1, <2>2
<1> DEFINE taken == {k \in FindTkn(t) : k \in Yes \cup No \/ \A i \in DOMAIN k : IsFigure(k[i], 10)}
<1>5. w \in taken
  BY <1>3, <1>4
<1>6. BoolFromStr(t) = {(k \in Yes \/ (k \notin No /\ \E i \in DOMAIN k : k[i] # "0")) : k \in taken}
  BY DEF BoolFromStr
<1> HIDE DEF taken
<1> QED
  BY <1>5, <1>6

(* So is a number as a type in decimal, as an attribute or a text.          *)
LEMMA DecRead ==
  ASSUME NEW t, IsText(t), NEW least \in Nat, NEW most \in Nat, IntText(t, least, most), ~MinusZero(t),
         NEW type \in {"u8", "u32"}, most <= Most(type), NEW valid, least .. most \subseteq valid
  PROVE  FromDec(type, t, valid) # {}
<1>1. \A n \in least .. most : n <= Most(type) /\ n <= Most("u32")
  <2> TAKE n \in least .. most
  <2>1. n \in Nat /\ n <= most
    OBVIOUS
  <2>2. Most(type) \in Nat /\ Most(type) <= Most("u32") /\ Most("u32") \in Nat
    BY LimitsAre
  <2> QED
    BY <2>1, <2>2
<1>2. PICK n \in least .. most : FromRepr(type, t, "dec") = {n}
  <2>1. type \in {"u8", "u16", "u32"} /\ most \in Int
    OBVIOUS
  <2> QED
    BY <1>1, <2>1, UnsignedRead
<1> QED
  BY <1>2 DEF FromDec

(* And a word of a table or the number of one.                              *)
LEMMA TokenRead ==
  ASSUME NEW t, IsText(t), NEW table, NEW valid, NEW words, NEW most \in Nat,
         \/ WordText(t, words)
         \/ IntText(t, 0, most) /\ ~MinusZero(t) /\ most <= Most("u32") /\ 0 .. most \subseteq valid,
         \A name \in words : name \in DOMAIN table /\ table[name] \in valid
  PROVE  FromTokenOrDec(table, t, valid) # {}
<1>1. CASE WordText(t, words)
  <2>1. PICK name \in words : t = <<name>>
    BY <1>1 DEF WordText
  <2>2. table[name] \in FromToken(table, t, valid)
    BY <2>1 DEF FromToken
  <2> QED
    BY <2>2, AltIs DEF FromTokenOrDec
<1>2. CASE IntText(t, 0, most) /\ ~MinusZero(t) /\ most <= Most("u32") /\ 0 .. most \subseteq valid
  <2>1. FromDec("u32", t, valid) # {}
    BY <1>2, DecRead
  <2> QED
    BY <2>1, AltIs DEF FromTokenOrDec
<1> QED
  BY <1>1, <1>2

(* An item made from one value or another.                                  *)
LEMMA MadeItem ==
  ASSUME NEW values, NEW b, NEW page, NEW v, v \in values, NEW x
  PROVE  Item(x, page).rc = "item" /\ Error(b, page).rc = "error"
  BY DEF Item, Error

LEMMA AttrText ==
  ASSUME NEW e, IsElement(e), NEW name \in DOMAIN e.attr
  PROVE  IsText(e.attr[name]) /\ Attr(e, name) = {e.attr[name]}
  BY DEF IsElement, IsNode, Attr

LEMMA DecAttrRead ==
  ASSUME NEW e, NEW name, NEW type, NEW valid, NEW t, Attr(e, name) = {t},
         FromDec(type, t, valid) # {}
  PROVE  DecAttr(e, name, type, valid) # {}
  BY DEF DecAttr

LEMMA TokenAttrRead ==
  ASSUME NEW e, NEW name, NEW table, NEW valid, NEW t, Attr(e, name) = {t},
         FromTokenOrDec(table, t, valid) # {}
  PROVE  TokenAttr(e, name, table, valid) # {}
  BY DEF TokenAttr

(* Items of one value.                                                      *)
LEMMA NumTypes ==
  ASSUME NEW name \in DOMAIN NumType
  PROVE  /\ NumType[name] \in {"s32", "u32", "u8"}
         /\ name = "report_id" <=> NumType[name] = "u8"
<1>1. name \in SignedNames \cup UnsignedNames
  BY DEF NumType
<1>2. "report_id" \notin SignedNames
  BY DEF SignedNames
<1>3. NumType[name] = IF name \in SignedNames THEN "s32" ELSE IF name = "report_id" THEN "u8" ELSE "u32"
  BY <1>1 DEF NumType
<1> QED
  BY <1>1, <1>2, <1>3

LEMMA NumberElementRead ==
  ASSUME NEW e, IsElement(e), e.name \in DOMAIN NumType, NumberAllowed(e),
         NumType[e.name] # "s32" => ~MinusZero(e.text), NEW b, NEW page
  PROVE  ReadNumber(e, b, page).rc = "item"
<1> DEFINE type == NumType[e.name]
<1>1. /\ type \in {"s32", "u32", "u8"}
      /\ e.name = "report_id" <=> type = "u8"
  BY NumTypes
<1>2. IsText(e.text)
  BY DEF IsElement, IsNode
<1>3. IntText(e.text, IF e.name = "report_id" THEN 1 ELSE Least(type), Most(type))
  BY DEF NumberAllowed
<1>4. FromRepr(type, e.text, "dec") # {}
  <2>1. CASE type = "s32"
    <3>1. IntText(e.text, Least("s32"), Most("s32"))
      BY <1>1, <1>3, <2>1
    <3>2. \A n \in Least("s32") .. Most("s32") : Within("s32", n)
      BY LimitsAre DEF Within
    <3>3. \E n \in Least("s32") .. Most("s32") : FromRepr("s32", e.text, "dec") = {n}
      BY <1>2, <3>1, <3>2, LimitsAre, SignedRead
    <3> QED
      BY <2>1, <3>3
  <2>2. CASE type = "u32"
    <3>1. IntText(e.text, 0, Most("u32"))
      <4>1. Least("u32") = 0
        BY DEF Least, Signed
      <4> QED
        BY <1>1, <1>3, <2>2, <4>1
    <3>2. FromDec("u32", e.text, 0 .. Most("u32")) # {}
      BY <1>2, <2>2, <3>1, LimitsAre, DecRead, SMTT(30)
    <3> QED
      BY <2>2, <3>2 DEF FromDec
  <2>3. CASE type = "u8"
    <3>1. IntText(e.text, 1, Most("u8"))
      BY <1>1, <1>3, <2>3
    <3>2. FromDec("u8", e.text, 1 .. Most("u8")) # {}
      BY <1>2, <2>3, <3>1, LimitsAre, DecRead, SMTT(30)
    <3> QED
      BY <2>3, <3>2 DEF FromDec
  <2> QED
    BY <1>1, <2>1, <2>2, <2>3
<1> HIDE DEF type
<1> QED
  BY <1>4 DEF ReadNumber, Made, Item, type

LEMMA PageElementRead ==
  ASSUME NEW e, IsElement(e), PageAllowed(e), NEW b, NEW page
  PROVE  ReadUsagePage(e, b, page).rc = "item"
<1>1. IsText(e.text)
  BY DEF IsElement, IsNode
<1>2. PageFromText(e.text) # {}
  <2>1. CASE PageFromToken(e.text) # {}
    BY <2>1, AltIs DEF PageFromText
  <2>2. CASE HexText(e.text, 2 * DigitsPerByte)
    <3>1. HexText(e.text, Bytes["u16"] * DigitsPerByte)
      BY <2>2 DEF Bytes
    <3>2. FromRepr("u16", e.text, "hex") # {}
      BY <1>1, <3>1, HexRead
    <3> QED
      BY <3>2, AltIs DEF PageFromText
  <2> QED
    BY <2>1, <2>2 DEF PageAllowed
<1> QED
  BY <1>2 DEF ReadUsagePage, Item

LEMMA UsageElementRead ==
  ASSUME NEW e, IsElement(e), UsageAllowed(e), NEW b, NEW page
  PROVE  ReadUsage(e, b, page).rc = "item"
<1>1. IsText(e.text)
  BY DEF IsElement, IsNode
<1>2. UsageFromText(e.text) # {}
  <2>1. CASE HexText(e.text, 4 * DigitsPerByte)
    <3>1. HexText(e.text, Bytes["u32"] * DigitsPerByte)
      BY <2>1 DEF Bytes
    <3>2. FromRepr("u32", e.text, "hex") # {}
      BY <1>1, <3>1, HexRead
    <3> QED
      BY <3>2, AltIs DEF UsageFromText
  <2>2. CASE \E p \in DOMAIN Pages : \E d \in DOMAIN Pages[p].ids :
                 e.text = Pages[p].token \o Pages[p].ids[d].token
    <3>1. UsageFromToken(e.text) # {}
      BY <2>2, TableAssumption DEF IsTable
    <3> QED
      BY <3>1, AltIs DEF UsageFromText
  <2> QED
    BY <2>1, <2>2 DEF UsageAllowed
<1> QED
  BY <1>2 DEF ReadUsage, Made, Item

LEMMA CollectionElementRead ==
  ASSUME NEW e, IsElement(e), CollectionAllowed(e), \A a \in DOMAIN e.attr : ~MinusZero(e.attr[a]),
         NEW b, NEW page
  PROVE  ReadCollection(e, b, page).rc = "item"
<1> DEFINE t == e.attr["type"]
<1>1. "type" \in DOMAIN e.attr
  BY DEF CollectionAllowed
<1>2. IsText(t) /\ Attr(e, "type") = {t} /\ ~MinusZero(t)
  BY <1>1, AttrText
<1>3. WordText(t, DOMAIN CollectionTypes) \/ IntText(t, 0, Most("u8"))
  BY DEF CollectionAllowed
<1> HIDE DEF t
<1>4. 0 .. Most("u8") \subseteq ValidCollectionTypes
  BY DEF ValidCollectionTypes
<1>5. \A name \in DOMAIN CollectionTypes : CollectionTypes[name] \in ValidCollectionTypes
  <2>1. \A name \in DOMAIN CollectionTypes : CollectionTypes[name] \in 0 .. 6
    BY DEF CollectionTypes
  <2> QED
    BY <1>4, <2>1, LimitsAre
<1>6. FromTokenOrDec(CollectionTypes, t, ValidCollectionTypes) # {}
  <2>1. Most("u8") \in Nat /\ Most("u8") <= Most("u32")
    BY LimitsAre
  <2> QED
    BY <1>2, <1>3, <1>4, <1>5, <2>1, TokenRead
<1>7. TokenAttr(e, "type", CollectionTypes, ValidCollectionTypes) # {}
  BY <1>2, <1>6, TokenAttrRead
<1> QED
  BY <1>7 DEF ReadCollection, Made, Item

LEMMA DelimiterElementRead ==
  ASSUME NEW e, IsElement(e), DelimiterAllowed(e), NEW b, NEW page
  PROVE  ReadDelimiter(e, b, page).rc = "item"
<1>1. "open" \in DOMAIN e.attr /\ BoolText(e.attr["open"])
  BY DEF DelimiterAllowed
<1>2. Attr(e, "open") = {e.attr["open"]}
  BY <1>1, AttrText
<1>3. UNION {BoolFromStr(text) : text \in Attr(e, "open")} # {}
  BY <1>1, <1>2, BoolRead
<1> QED
  BY <1>3 DEF ReadDelimiter, Made, Item

------------------------------------------------------------------------------
(* Long items, and the elements that have children.                         *)

(* A long item stays one.                                                   *)
LEMMA LongPrefix ==
  ASSUME NEW b, DOMAIN b = 1 .. BufferSize, NEW tag
  PROVE  DOMAIN LongInit(b, tag) = 1 .. BufferSize /\ LongInit(b, tag)[1] = 254
<1>1. BufferSize \in Nat /\ 1 \in 1 .. BufferSize /\ 2 \in 1 .. BufferSize
  BY LimitsAre DEF BufferSize
<1>2. WithType(0, Types.long) = 12
  BY DEF WithType, PfxType, Types
<1>3. WithTag(12, LongTag) = 252
  BY DEF WithTag, PfxTag, LongTag
<1>4. WithSize(252, 2) = 254
  BY DEF WithSize, PfxSize
<1>5. BasicInit(b, Types.long, LongTag, 2) = [b EXCEPT ![1] = 254]
  BY <1>2, <1>3, <1>4, ZenonT(30) DEF BasicInit
<1> DEFINE c == [b EXCEPT ![1] = 254]
           d == <<0, tag>>
<1>6. DOMAIN c = 1 .. BufferSize /\ c[1] = 254
  BY <1>1
<1>7. DOMAIN d = {1, 2} /\ 1 - 2 + 1 \notin DOMAIN d
  OBVIOUS
<1> HIDE DEF c, d
<1>8. LongInit(b, tag) = [i \in DOMAIN c |-> IF i - 2 + 1 \in DOMAIN d THEN d[i - 2 + 1] ELSE c[i]]
  BY <1>5 DEF LongInit, Stored, c, d
<1> QED
  BY <1>1, <1>6, <1>7, <1>8

LEMMA StoredAfter ==
  ASSUME NEW b, DOMAIN b = 1 .. BufferSize, b[1] = 254,
         NEW from, NEW bytes, 1 - from + 1 \notin DOMAIN bytes, NEW g, g = Stored(b, from, bytes)
  PROVE  DOMAIN g = 1 .. BufferSize /\ g[1] = 254
<1>1. BufferSize \in Nat /\ 1 \in 1 .. BufferSize
  BY LimitsAre DEF BufferSize
<1> QED
  BY <1>1 DEF Stored

LEMMA HexBytes ==
  ASSUME NEW t, NEW size, NEW data \in HexBufFromStr(t, size), IsText(t)
  PROVE  \E n \in Nat : DOMAIN data = 1 .. n
<1> DEFINE figures == Among(t, {c \in ToSet(t) : ~IsSpace(c)})
           groups == (Len(figures) + DigitsPerByte - 1) \div DigitsPerByte
<1>1. IsText(figures)
  BY AmongIs
<1>2. DOMAIN data = 1 .. groups
  <2> HIDE DEF figures
  <2> QED
    BY DEF HexBufFromStr, figures
<1>3. Len(figures) \in Nat
  BY <1>1, TextFacts
<1>4. groups \in Nat
  <2> DEFINE m == Len(figures)
  <2>1. m \in Nat
    BY <1>3
  <2> HIDE DEF m, figures
  <2>2. groups = (m + DigitsPerByte - 1) \div DigitsPerByte
    BY DEF m
  <2>3. CASE DigitsPerByte = 1
    BY <2>1, <2>2, <2>3
  <2>4. CASE DigitsPerByte = 2
    <3>1. groups = (m + 1) \div 2
      BY <2>1, <2>2, <2>4
    <3> QED
      BY <2>1, <3>1
  <2> QED
    BY <2>3, <2>4, Widths
<1> QED
  BY <1>2, <1>4

LEMMA LongElementRead ==
  ASSUME NEW e, IsElement(e), LongAllowed(e), \A a \in DOMAIN e.attr : ~MinusZero(e.attr[a]),
         NEW b, DOMAIN b = 1 .. BufferSize, NEW page
  PROVE  ReadLong(e, b, page).rc = "item"
<1> DEFINE t == e.attr["tag"]
           tags == DecAttr(e, "tag", "u8", 0 .. Most("u8"))
           datas == HexBufFromStr(e.text, Most("u8"))
           Begun(tag) == Cleared(LongInit(b, tag), 4, Most("u8"))
           Whole(tag, data) == SetLongDataSize(Stored(Begun(tag), 4, data), Len(data))
           made == {Whole(tag, data) : tag \in tags, data \in datas}
<1>1. "tag" \in DOMAIN e.attr /\ IntText(t, 0, Most("u8")) /\ BytesText(e.text, Most("u8"))
  BY DEF LongAllowed
<1>2. IsText(t) /\ Attr(e, "tag") = {t} /\ ~MinusZero(t) /\ IsText(e.text)
  BY <1>1, AttrText DEF IsElement, IsNode
<1> HIDE DEF t
<1>3. tags # {}
  <2>1. FromDec("u8", t, 0 .. Most("u8")) # {}
    <3> DEFINE most == Most("u8")
    <3>1. most \in Nat /\ most <= Most("u8") /\ 0 .. most \subseteq 0 .. most
          /\ IntText(t, 0, most)
      BY <1>1, LimitsAre
    <3>2. FromDec("u8", t, 0 .. most) # {}
      <4> HIDE DEF most
      <4> QED
        BY <1>2, <3>1, DecRead
    <3> QED
      BY <3>2
  <2> QED
    BY <1>2, <2>1, DecAttrRead
<1>4. datas # {}
  BY <1>1, <1>2, LimitsAre, BytesRead
<1>5. ASSUME NEW tag \in tags, NEW data \in datas PROVE ItemValid(Whole(tag, data))
  <2>0. BufferSize \in Nat /\ 1 \in 1 .. BufferSize
    BY LimitsAre DEF BufferSize
  <2>1. PICK n \in Nat : DOMAIN data = 1 .. n
    BY <1>2, HexBytes
  <2>2. DOMAIN LongInit(b, tag) = 1 .. BufferSize /\ LongInit(b, tag)[1] = 254
    BY LongPrefix
  <2>3. DOMAIN Begun(tag) = 1 .. BufferSize /\ Begun(tag)[1] = 254
    <3> DEFINE zeroes == [i \in 1 .. Most("u8") |-> 0]
    <3>1. DOMAIN zeroes = 1 .. Most("u8") /\ Most("u8") \in Nat
      BY LimitsAre
    <3>2. 1 - 4 + 1 \notin DOMAIN zeroes
      BY <3>1
    <3> HIDE DEF zeroes
    <3> DEFINE g == Begun(tag)
    <3>3. g = Stored(LongInit(b, tag), 4, zeroes)
      BY DEF Cleared, zeroes
    <3> HIDE DEF g
    <3>4. DOMAIN g = 1 .. BufferSize /\ g[1] = 254
      BY <2>2, <2>0, <3>2, <3>3, StoredAfter
    <3> QED
      BY <3>4 DEF g
  <2> DEFINE s == Stored(Begun(tag), 4, data)
  <2>4. DOMAIN s = 1 .. BufferSize /\ s[1] = 254
    <3>1. 1 - 4 + 1 \notin DOMAIN data
      BY <2>1
    <3> DEFINE g == Begun(tag)
    <3>2. DOMAIN g = 1 .. BufferSize /\ g[1] = 254
      BY <2>3
    <3> HIDE DEF g
    <3>3. s = Stored(g, 4, data)
      BY DEF g
    <3> HIDE DEF s
    <3>4. DOMAIN s = 1 .. BufferSize /\ s[1] = 254
      BY <2>0, <3>1, <3>2, <3>3, StoredAfter
    <3> QED
      BY <3>4
  <2> HIDE DEF s
  <2>5. Whole(tag, data) = [s EXCEPT ![2] = Len(data)]
    BY DEF SetLongDataSize, s
  <2>6. BufferSize \in Nat /\ 1 \in 1 .. BufferSize
    BY LimitsAre DEF BufferSize
  <2> DEFINE w == [s EXCEPT ![2] = Len(data)]
  <2>7. w[1] = 254
    BY <2>4, <2>6
  <2> HIDE DEF w
  <2>8. IsLong(w)
    BY <2>7 DEF IsLong, PfxTag, LongTag
  <2> QED
    BY <2>5, <2>8 DEF ItemValid, w
<1>6. ReadLong(e, b, page) = IF made = {} THEN Error(b, page)
                             ELSE Checked(CHOOSE m \in made : TRUE, page)
  BY DEF ReadLong
<1> HIDE DEF Whole, tags, datas
<1>7. made # {} /\ \A m \in made : ItemValid(m)
  BY <1>3, <1>4, <1>5
<1> HIDE DEF made
<1> DEFINE m == CHOOSE k \in made : TRUE
<1>8. m \in made
  BY <1>7
<1> HIDE DEF m
<1> QED
  BY <1>6, <1>7, <1>8 DEF m, Checked, Item

(* Children in their places with a value each are read.                     *)
LEMMA OnlyTexts ==
  ASSUME NEW e, IsElement(e), NEW k \in DOMAIN e.kids
  PROVE  IsText(e.kids[k].text) /\ IsText(e.kids)
  BY DEF IsElement, IsNode

LEMMA BlankEmpty == Blank(<<>>)
  BY DEF Blank

LEMMA BitsAre == LastBit \in Nat /\ Bits = 0 .. LastBit
  BY Widths DEF LastBit, Bits

LEMMA BitmapElementRead ==
  ASSUME NEW e, IsElement(e), BitmapAllowed(e), NEW b, NEW page
  PROVE  ReadBitmap(e, b, page).rc = "item"
<1> DEFINE kids == e.kids
           names == BitNamesOf(e.name)
           place == Places(kids, LastBit, names)
           Worth(kid, i) == {IF kid.name \in OffName(e.name, i) THEN ~v ELSE v : v \in BitValue(kid)}
<1>1. Sequence(kids, names, BoolText)
  BY DEF BitmapAllowed
<1>2. DOMAIN names = 0 .. LastBit
  BY BitsAre DEF BitNamesOf
<1> HIDE DEF names
<1>3. /\ \A k \in DOMAIN kids :
            /\ \E i \in DOMAIN names : kids[k].name \in names[i]
            /\ kids[k].text = <<>> \/ BoolText(kids[k].text)
      /\ \A j, k \in DOMAIN kids : j < k =>
            \A i, i2 \in DOMAIN names :
               kids[j].name \in names[i] /\ kids[k].name \in names[i2] => i < i2
  BY <1>1 DEF Sequence
<1>4. IsText(kids)
  BY DEF IsElement, IsNode
<1> HIDE DEF kids
<1>5. \A k \in DOMAIN kids : place[k] \in 0 .. LastBit
  BY <1>2, <1>3, <1>4, BitsAre, PlacesFound
<1>6. \A k \in DOMAIN kids : BitValue(kids[k]) # {}
  BY <1>3, BoolRead, BlankEmpty DEF BitValue
<1>7. \A k \in DOMAIN kids : place[k] <= LastBit /\ Worth(kids[k], place[k]) # {}
  BY <1>5, <1>6, BitsAre
<1> DEFINE sum[k \in 0 .. Len(kids)] ==
              IF k = 0 THEN 0
              ELSE SetBit(sum[k - 1], place[k], CHOOSE v \in Worth(kids[k], place[k]) : TRUE)
<1>8. InOrder(kids, LastBit, names, Worth, 0, SetBit) =
        IF \A k \in DOMAIN kids : place[k] <= LastBit /\ Worth(kids[k], place[k]) # {}
        THEN {sum[Len(kids)]} ELSE {}
  BY DEF InOrder
<1> HIDE DEF sum, place
<1>9. InOrder(kids, LastBit, names, Worth, 0, SetBit) # {}
  BY <1>7, <1>8
<1> HIDE DEF Worth
<1>10. ReadBitmap(e, b, page) =
         Made(InOrder(kids, LastBit, names, Worth, 0, SetBit), b, page,
              LAMBDA bitmap : InitUnsigned(b, Main, TagOfMain[e.name], bitmap))
  BY DEF ReadBitmap, kids, names, Worth
<1> QED
  BY <1>9, <1>10 DEF Made, Item

LEMMA ExponentRead ==
  ASSUME NEW t, IsText(t), IntText(t, -8, 7)
  PROVE  ExpFromDec(t) # {}
<1>1. \A n \in -8 .. 7 : Within("s32", n)
  BY LimitsAre DEF Within
<1>2. PICK n \in -8 .. 7 : FromRepr("s32", t, "dec") = {n}
  <2>1. -8 \in Int /\ 7 \in Int
    OBVIOUS
  <2> QED
    BY <1>1, <2>1, SignedRead
<1> QED
  BY <1>2 DEF ExpFromDec

LEMMA NamesAre ==
  ASSUME NEW system \in Nat
  PROVE  /\ IsText(NamesOf(system)) /\ Len(NamesOf(system)) = Nibbles - 2
         /\ Nibbles \in {4, 8} /\ Nibbles = 4 * DigitsPerByte
         /\ 0 .. Len(NamesOf(system)) - 1 \subseteq 0 .. Len(NamesOf(system))
<1>1. Nibbles \in {4, 8} /\ Nibbles = 4 * DigitsPerByte
  BY Widths DEF Nibbles
<1> DEFINE all == CASE system = 1 -> <<"centimeter", "gram", "seconds", "kelvin", "ampere", "candela">>
             [] system = 2 -> <<"radians", "gram", "seconds", "kelvin", "ampere", "candela">>
             [] system = 3 -> <<"inch", "slug", "seconds", "fahrenheit", "ampere", "candela">>
             [] system = 4 -> <<"degrees", "slug", "seconds", "fahrenheit", "ampere", "candela">>
             [] ~SystemKnown(system) ->
                    <<"length", "mass", "time", "temperature", "current", "luminous_intensity">>
           m == Nibbles - 2
<1>2. all \in Seq(ToSet(all)) /\ Len(all) = 6
  <2> DEFINE Six(s) == s \in Seq(ToSet(s)) /\ Len(s) = 6
  <2>10. Six(<<"centimeter", "gram", "seconds", "kelvin", "ampere", "candela">>)
    <3>1. <<"centimeter", "gram", "seconds", "kelvin", "ampere", "candela">> \in Seq({"centimeter", "gram", "seconds", "kelvin", "ampere", "candela"})
      OBVIOUS
    <3> QED
      BY <3>1, SeqIsText DEF IsText
  <2>11. Six(<<"radians", "gram", "seconds", "kelvin", "ampere", "candela">>)
    <3>1. <<"radians", "gram", "seconds", "kelvin", "ampere", "candela">> \in Seq({"radians", "gram", "seconds", "kelvin", "ampere", "candela"})
      OBVIOUS
    <3> QED
      BY <3>1, SeqIsText DEF IsText
  <2>12. Six(<<"inch", "slug", "seconds", "fahrenheit", "ampere", "candela">>)
    <3>1. <<"inch", "slug", "seconds", "fahrenheit", "ampere", "candela">> \in Seq({"inch", "slug", "seconds", "fahrenheit", "ampere", "candela"})
      OBVIOUS
    <3> QED
      BY <3>1, SeqIsText DEF IsText
  <2>13. Six(<<"degrees", "slug", "seconds", "fahrenheit", "ampere", "candela">>)
    <3>1. <<"degrees", "slug", "seconds", "fahrenheit", "ampere", "candela">> \in Seq({"degrees", "slug", "seconds", "fahrenheit", "ampere", "candela"})
      OBVIOUS
    <3> QED
      BY <3>1, SeqIsText DEF IsText
  <2>14. Six(<<"length", "mass", "time", "temperature", "current", "luminous_intensity">>)
    <3>1. <<"length", "mass", "time", "temperature", "current", "luminous_intensity">> \in Seq({"length", "mass", "time", "temperature", "current", "luminous_intensity"})
      OBVIOUS
    <3> QED
      BY <3>1, SeqIsText DEF IsText
  <2> HIDE DEF Six
  <2>2. system \in 1 .. 4 \/ ~SystemKnown(system)
    BY DEF SystemKnown
  <2>3. Six(all)
    BY <2>10, <2>11, <2>12, <2>13, <2>14, <2>2 DEF SystemKnown
  <2> QED
    BY <2>3 DEF Six
<1>3. m \in {2, 6}
  BY <1>1
<1>4. NamesOf(system) = SubSeq(all, 1, m)
  BY DEF NamesOf
<1> HIDE DEF all, m
<1>5. NamesOf(system) \in Seq(ToSet(all)) /\ Len(NamesOf(system)) = m
  BY <1>2, <1>3, <1>4
<1>6. IsText(NamesOf(system))
  BY <1>5, SeqIsText
<1> QED
  BY <1>1, <1>3, <1>5, <1>6 DEF m

LEMMA ExponentsRead ==
  ASSUME NEW e, IsText(e.kids), \A k \in DOMAIN e.kids : IsText(e.kids[k].text),
         NEW system \in Nat, Exponents(e, system), NEW beyond
  PROVE  ReadExps(e, NamesOf(system), beyond) # {}
<1> DEFINE kids == e.kids
           names == NamesOf(system)
           last == Len(names)
           full == ExpNames(names, beyond)
           few == [i \in 0 .. Len(names) - 1 |-> {names[i + 1]}]
           place == Places(kids, last, full)
           Worth(kid, i) == IF Blank(kid.text) THEN {1} ELSE ExpFromDec(kid.text)
           Exp(unit, i, exp) == SetNibble(unit, i + 1, exp)
<1>1. Sequence(kids, few, LAMBDA text : IntText(text, -8, 7))
  BY DEF Exponents
<1>2. last \in Nat /\ DOMAIN few \in SUBSET (0 .. last)
  BY NamesAre
<1>3. \A i \in DOMAIN few : few[i] \subseteq full[i]
  <2> SUFFICES ASSUME NEW i \in 0 .. last - 1 PROVE few[i] \subseteq full[i]
    OBVIOUS
  <2>1. i \in 0 .. last /\ i # last
    BY <1>2
  <2> QED
    BY <2>1 DEF ExpNames
<1> HIDE DEF few, full
<1>4. /\ \A k \in DOMAIN kids :
            /\ \E i \in DOMAIN few : kids[k].name \in few[i]
            /\ kids[k].text = <<>> \/ IntText(kids[k].text, -8, 7)
      /\ \A j, k \in DOMAIN kids : j < k =>
            \A i, i2 \in DOMAIN few :
               kids[j].name \in few[i] /\ kids[k].name \in few[i2] => i < i2
  BY <1>1 DEF Sequence
<1>5. IsText(kids) /\ \A k \in DOMAIN kids : IsText(kids[k].text)
  OBVIOUS
<1> HIDE DEF kids
<1>6. \A k \in DOMAIN kids : place[k] \in 0 .. last
  BY <1>2, <1>3, <1>4, <1>5, PlacesFound
<1>7. \A i : \A k \in DOMAIN kids : Worth(kids[k], i) # {}
  BY <1>4, <1>5, ExponentRead, BlankEmpty
<1>8. \A k \in DOMAIN kids : place[k] <= last /\ Worth(kids[k], place[k]) # {}
  BY <1>2, <1>6, <1>7
<1> DEFINE sum[k \in 0 .. Len(kids)] ==
              IF k = 0 THEN 0
              ELSE Exp(sum[k - 1], place[k], CHOOSE v \in Worth(kids[k], place[k]) : TRUE)
<1>9. InOrder(kids, last, full, Worth, 0, Exp) =
        IF \A k \in DOMAIN kids : place[k] <= last /\ Worth(kids[k], place[k]) # {}
        THEN {sum[Len(kids)]} ELSE {}
  BY DEF InOrder
<1> HIDE DEF sum, place
<1>10. InOrder(kids, last, full, Worth, 0, Exp) # {}
  BY <1>8, <1>9
<1>11. ReadExps(e, names, beyond) = InOrder(kids, last, full, Worth, 0, Exp)
  BY DEF ReadExps, kids, full
<1> QED
  BY <1>10, <1>11

LEMMA UnitElementRead ==
  ASSUME NEW e, IsElement(e), UnitAllowed(e), e.kids # <<>>,
         \A k \in DOMAIN e.kids : \A a \in DOMAIN e.kids[k].attr : ~MinusZero(e.kids[k].attr[a]),
         NEW b, NEW page, NEW beyond
  PROVE  ReadUnit(e, b, page, beyond).rc = "item"
<1> DEFINE kid == e.kids[1]
<1>1. IsText(e.kids) /\ Len(e.kids) \in Nat /\ DOMAIN e.kids = 1 .. Len(e.kids)
  BY TextFacts DEF IsElement, IsNode
<1>2. Len(e.kids) = 1
  <2>1. Len(e.kids) <= 1
    BY DEF UnitAllowed
  <2>2. Len(e.kids) # 0
    BY <1>1, EmptySeq DEF IsText
  <2> QED
    BY <1>1, <2>1, <2>2
<1>3. 1 \in DOMAIN e.kids
  BY <1>1, <1>2
<1>4. /\ UnitChildAllowed(kid) /\ IsNode(kid) /\ IsText(kid.kids)
      /\ \A j \in DOMAIN kid.kids : IsText(kid.kids[j].text)
      /\ \A a \in DOMAIN kid.attr : ~MinusZero(kid.attr[a])
      /\ IsText(kid.text)
  BY <1>3 DEF UnitAllowed, IsElement, IsNode
<1>5. UnitsOf(kid, beyond) # {}
  <2> HIDE DEF kid
  <2>0. "value" \notin DOMAIN Systems /\ "generic" \notin DOMAIN Systems
    BY DEF Systems
  <2>1. CASE kid.name = "none"
    BY <2>1 DEF UnitsOf
  <2>2. CASE kid.name = "value"
    <3>1. HexBufFromStr(kid.text, 4) # {}
      <4>1. BytesText(kid.text, 4)
        BY <1>4, <2>0, <2>2 DEF UnitChildAllowed
      <4> QED
        BY <1>4, <4>1, BytesRead
    <3>2. UnitsOf(kid, beyond) = {FromLe(Padded(data)) : data \in HexBufFromStr(kid.text, 4)}
      BY <2>0, <2>2 DEF UnitsOf
    <3> QED
      BY <3>1, <3>2
  <2>3. CASE kid.name = "generic"
    <3> DEFINE t == kid.attr["system"]
    <3>1. /\ "system" \in DOMAIN kid.attr /\ Exponents(kid, 0)
          /\ WordText(t, DOMAIN Systems) \/ IntText(t, 0, 15)
      BY <1>4, <2>0, <2>3 DEF UnitChildAllowed
    <3>2. IsText(t) /\ Attr(kid, "system") = {t} /\ ~MinusZero(t)
      BY <1>4, <3>1 DEF IsNode, Attr
    <3> HIDE DEF t
    <3>3. \A name \in DOMAIN Systems : Systems[name] \in ValidSystems
      BY DEF Systems, ValidSystems
    <3>4. 15 <= Most("u32") /\ 0 .. 15 \subseteq ValidSystems
      BY LimitsAre DEF ValidSystems
    <3>5. FromTokenOrDec(Systems, t, ValidSystems) # {}
      BY <3>1, <3>2, <3>3, <3>4, TokenRead
    <3>6. TokenAttr(kid, "system", Systems, ValidSystems) # {}
      BY <3>2, <3>5, TokenAttrRead
    <3>7. ReadExps(kid, NamesOf(0), beyond) # {}
      BY <1>4, <3>1, ExponentsRead
    <3>8. UnitsOf(kid, beyond) =
            {SetNibble(unit, 0, system) :
                 unit \in ReadExps(kid, NamesOf(0), beyond),
                 system \in TokenAttr(kid, "system", Systems, ValidSystems)}
      BY <2>0, <2>3 DEF UnitsOf
    <3>9. PICK system \in TokenAttr(kid, "system", Systems, ValidSystems) : TRUE
      BY <3>6
    <3>10. PICK unit \in ReadExps(kid, NamesOf(0), beyond) : TRUE
      BY <3>7
    <3>11. SetNibble(unit, 0, system) \in UnitsOf(kid, beyond)
      BY <3>8
    <3> QED
      BY <3>11
  <2>4. CASE kid.name \in DOMAIN Systems \ {"none", "vendor"}
    <3>1. kid.name \notin {"none", "value", "generic"}
      BY <2>4 DEF Systems
    <3>2. Exponents(kid, Systems[kid.name])
      BY <1>4, <2>4, <3>1 DEF UnitChildAllowed
    <3>5. Systems[kid.name] \in Nat
      BY <2>4 DEF Systems
    <3>3. ReadExps(kid, NamesOf(Systems[kid.name]), beyond) # {}
      BY <1>4, <3>2, <3>5, ExponentsRead
    <3>4. UnitsOf(kid, beyond) =
            {SetNibble(unit, 0, Systems[kid.name]) :
                 unit \in ReadExps(kid, NamesOf(Systems[kid.name]), beyond)}
      BY <2>4, <3>1 DEF UnitsOf
    <3> QED
      BY <3>3, <3>4
  <2> QED
    BY <1>4, <2>1, <2>2, <2>3, <2>4 DEF UnitChildAllowed
<1> HIDE DEF kid
<1>6. ReadUnit(e, b, page, beyond) =
        Made(UnitsOf(kid, beyond), b, page,
             LAMBDA unit : InitUnsigned(b, Global, TagOfGlobal.unit, unit))
  BY <1>2 DEF ReadUnit, kid
<1> QED
  BY <1>5, <1>6 DEF Made, Item

------------------------------------------------------------------------------
(* All of them, by the kind of the element.                                 *)

(* Which element is which: no two kinds share a name.                       *)
Single == {"basic", "short", "main", "global", "local", "usage_page", "unit", "delimiter", "long",
           "end_collection", "push", "PUSH", "pop", "SET", "input", "output", "feature",
           "collection", "COLLECTION"}
LEMMA NamesApart ==
  ASSUME NEW n
  PROVE  /\ n \in Single => n \notin DOMAIN NumType /\ n \notin UsageNames
         /\ n \in DOMAIN NumType => n \notin UsageNames
<1>1. DOMAIN NumType = SignedNames \cup UnsignedNames
  BY DEF NumType
<1> QED
  BY <1>1 DEF Single, UsageNames, SignedNames, UnsignedNames

LEMMA EmptyRead ==
  ASSUME NEW e, e.name \in {"end_collection", "push", "PUSH", "SET"}, NEW b, NEW page, NEW beyond
  PROVE  Read(e, b, page, beyond).rc = "item"
<1>1. e.name \notin DOMAIN NumType /\ e.name \notin UsageNames
  BY NamesApart DEF Single
<1>2. CASE e.name = "end_collection"
  BY <1>1, <1>2 DEF Read, Item
<1>3. CASE e.name \in {"push", "PUSH"}
  BY <1>1, <1>3 DEF Read, Item
<1>4. CASE e.name = "SET"
  BY <1>1, <1>4 DEF Read, Item
<1> QED
  BY <1>2, <1>3, <1>4

LEMMA AllowedRead ==
  ASSUME NEW e, IsElement(e), e.name # "pop", SchemaAllows(e), ~Refused(e),
         NEW b, DOMAIN b = 1 .. BufferSize, NEW page, NEW beyond
  PROVE  Read(e, b, page, beyond).rc = "item"
<1>1. /\ e.name \notin {"basic", "short", "main", "global", "local"}
      /\ \A a \in DOMAIN e.attr : ~MinusZero(e.attr[a])
      /\ e.name = "unit" => e.kids # <<>>
      /\ e.name \in DOMAIN NumType /\ NumType[e.name] # "s32" => ~MinusZero(e.text)
      /\ \A k \in DOMAIN e.kids : \A a \in DOMAIN e.kids[k].attr : ~MinusZero(e.kids[k].attr[a])
  BY DEF Refused
<1>2. CASE e.name = "long"
  <2>1. e.name \notin DOMAIN NumType /\ e.name \notin UsageNames
    BY <1>2, NamesApart DEF Single
  <2>2. LongAllowed(e) /\ Read(e, b, page, beyond) = ReadLong(e, b, page)
    BY <1>2, <2>1 DEF SchemaAllows, Read
  <2> QED
    BY <1>1, <2>2, LongElementRead
<1>3. CASE e.name \in {"input", "output", "feature"}
  <2>1. e.name \notin DOMAIN NumType /\ e.name \notin UsageNames
    BY <1>3, NamesApart DEF Single
  <2>2. BitmapAllowed(e) /\ Read(e, b, page, beyond) = ReadBitmap(e, b, page)
    BY <1>3, <2>1 DEF SchemaAllows, Read
  <2> QED
    BY <2>2, BitmapElementRead
<1>4. CASE e.name \in {"collection", "COLLECTION"}
  <2>1. e.name \notin DOMAIN NumType /\ e.name \notin UsageNames
    BY <1>4, NamesApart DEF Single
  <2>2. CollectionAllowed(e) /\ Read(e, b, page, beyond) = ReadCollection(e, b, page)
    BY <1>4, <2>1 DEF SchemaAllows, Read
  <2> QED
    BY <1>1, <2>2, CollectionElementRead
<1>5. CASE e.name = "delimiter"
  <2>1. e.name \notin DOMAIN NumType /\ e.name \notin UsageNames
    BY <1>5, NamesApart DEF Single
  <2>2. DelimiterAllowed(e) /\ Read(e, b, page, beyond) = ReadDelimiter(e, b, page)
    BY <1>5, <2>1 DEF SchemaAllows, Read
  <2> QED
    BY <2>2, DelimiterElementRead
<1>6. CASE e.name \in {"end_collection", "push", "PUSH", "SET"}
  BY <1>6, EmptyRead
<1>7. CASE e.name \in DOMAIN NumType
  <2>1. e.name \notin Single /\ e.name \notin UsageNames
    BY <1>7, NamesApart
  <2>2. NumberAllowed(e) /\ Read(e, b, page, beyond) = ReadNumber(e, b, page)
    BY <1>7, <2>1 DEF SchemaAllows, Read, Single
  <2> QED
    BY <1>1, <1>7, <2>2, NumberElementRead
<1>8. CASE e.name = "usage_page"
  <2>1. e.name \notin DOMAIN NumType /\ e.name \notin UsageNames
    BY <1>8, NamesApart DEF Single
  <2>2. PageAllowed(e) /\ Read(e, b, page, beyond) = ReadUsagePage(e, b, page)
    BY <1>8, <2>1 DEF SchemaAllows, Read
  <2> QED
    BY <2>2, PageElementRead
<1>9. CASE e.name \in UsageNames
  <2>1. e.name \notin DOMAIN NumType /\ e.name \notin Single
    BY <1>9, NamesApart
  <2>2. UsageAllowed(e) /\ Read(e, b, page, beyond) = ReadUsage(e, b, page)
    BY <1>9, <2>1 DEF SchemaAllows, Read, Single
  <2> QED
    BY <2>2, UsageElementRead
<1>10. CASE e.name = "unit"
  <2>1. e.name \notin DOMAIN NumType /\ e.name \notin UsageNames
    BY <1>10, NamesApart DEF Single
  <2>2. UnitAllowed(e) /\ Read(e, b, page, beyond) = ReadUnit(e, b, page, beyond)
    BY <1>10, <2>1 DEF SchemaAllows, Read
  <2> QED
    BY <1>1, <1>10, <2>2, UnitElementRead
<1>11. \/ e.name \in {"long", "input", "output", "feature", "collection", "COLLECTION", "delimiter",
                      "end_collection", "push", "PUSH", "SET", "usage_page", "unit"}
       \/ e.name \in DOMAIN NumType \/ e.name \in UsageNames
  BY <1>1 DEF SchemaAllows
<1> QED
  BY <1>2, <1>3, <1>4, <1>5, <1>6, <1>7, <1>8, <1>9, <1>10, <1>11

------------------------------------------------------------------------------
(* What the writers of the sink make: numbers, bytes and what is in an item.*)

(* The figures of a number to base 16, of which there are as many as its    *)
(* size asks for.                                                           *)
HexSay(w, most) ==
    /\ IsText(w) /\ Len(w) \in 1 .. most
    /\ \A i \in DOMAIN w : IsFigure(w[i], 16)

LEMMA OneHexFigure ==
  ASSUME NEW k \in 0 .. 15
  PROVE  IsFigure(Figure[k + 1], 16)
<1>1. k + 1 \in 1 .. 16
  OBVIOUS
<1> QED
  BY <1>1 DEF IsFigure

LEMMA HexAppended ==
  ASSUME NEW most \in Nat, NEW a, HexSay(a, most), NEW c, IsFigure(c, 16)
  PROVE  HexSay(Append(a, c), most + 1)
<1> DEFINE u == Append(a, c)
<1>1. IsText(a) /\ Len(a) \in 1 .. most /\ \A i \in DOMAIN a : IsFigure(a[i], 16)
  BY DEF HexSay
<1>2. /\ IsText(u) /\ DOMAIN a = 1 .. Len(a) /\ Len(a) \in Nat
      /\ DOMAIN u = 1 .. Len(a) + 1 /\ Len(u) = Len(a) + 1
      /\ \A i \in 1 .. Len(a) : u[i] = a[i]
      /\ u[Len(a) + 1] = c
  BY <1>1, AppendedTo
<1> HIDE DEF u
<1>3. \A i \in DOMAIN u : IsFigure(u[i], 16)
  BY <1>1, <1>2
<1>4. Len(u) \in 1 .. most + 1
  BY <1>1, <1>2
<1>5. HexSay(u, most + 1)
  BY <1>2, <1>3, <1>4 DEF HexSay
<1> QED
  BY <1>5 DEF u

LEMMA Sixteenths ==
  ASSUME NEW k \in Nat, NEW p \in Nat, k < 16 * p, k >= 16
  PROVE  k \div 16 \in 0 .. k - 1 /\ k \div 16 < p /\ k % 16 \in 0 .. 15
  OBVIOUS

LEMMA PowersAre == \A k \in 1 .. 8 : Power[k] \in Nat
<1>1. /\ Power[1] = 16 /\ Power[2] = 256 /\ Power[3] = 4096 /\ Power[4] = 65536
      /\ Power[5] = 1048576 /\ Power[6] = 16777216 /\ Power[7] = 268435456 /\ Power[8] = 4294967296
  BY DEF Power
<1>2. \A k \in 1 .. 8 : k = 1 \/ k = 2 \/ k = 3 \/ k = 4 \/ k = 5 \/ k = 6 \/ k = 7 \/ k = 8
  OBVIOUS
<1> HIDE DEF Power
<1> QED
  BY <1>1, <1>2

LEMMA HexFigures ==
  ASSUME NEW n \in Nat, NEW width, NEW f, FiguresBy(f, n, 16, width), NEW m \in 1 .. 8, n < Power[m]
  PROVE  HexSay(f[n], m)
<1>1. \A k \in 0 .. n : f[k] = IF k < 16 THEN <<Figure[k + 1]>>
                               ELSE Append(f[k \div 16], Figure[(k % 16) + 1])
  BY DEF FiguresBy
<1> DEFINE Some(j) == \A k \in 0 .. n : k < Power[j] => HexSay(f[k], j)
<1>2. \A k \in 0 .. n, j \in 1 .. 8 : k < 16 => HexSay(f[k], j)
  <2> SUFFICES ASSUME NEW k \in 0 .. n, NEW j \in 1 .. 8, k < 16 PROVE HexSay(f[k], j)
    OBVIOUS
  <2> DEFINE c == Figure[k + 1]
  <2>1. f[k] = <<c>> /\ IsFigure(c, 16)
    <3>1. f[k] = <<c>>
      BY <1>1
    <3>2. k \in 0 .. 15
      OBVIOUS
    <3> QED
      BY <3>1, <3>2, OneHexFigure
  <2> HIDE DEF c
  <2>2. IsText(<<c>>) /\ Len(<<c>>) = 1 /\ \A i \in DOMAIN <<c>> : <<c>>[i] = c
    BY ShortTexts
  <2> QED
    BY <2>1, <2>2 DEF HexSay
<1>3. Some(1)
  <2>1. Power[1] = 16
    BY DEF Power
  <2> QED
    BY <1>2, <2>1
<1>4. ASSUME NEW j \in 1 .. 7, Some(j) PROVE Some(j + 1)
  <2> SUFFICES ASSUME NEW k \in 0 .. n, k < Power[j + 1], ~(k < 16) PROVE HexSay(f[k], j + 1)
    BY <1>2
  <2> DEFINE d == k \div 16
             c == Figure[(k % 16) + 1]
  <2>1. Power[j + 1] = 16 * Power[j] /\ Power[j] \in Nat
    BY NextPower
  <2>2. d \in 0 .. k - 1 /\ d < Power[j] /\ k % 16 \in 0 .. 15
    BY <2>1, Sixteenths
  <2>3. f[k] = Append(f[d], c)
    BY <1>1
  <2>4. IsFigure(c, 16)
    BY <2>2, OneHexFigure
  <2> HIDE DEF c, d
  <2>5. HexSay(f[d], j)
    BY <1>4, <2>2
  <2> QED
    BY <2>3, <2>4, <2>5, HexAppended
<1> HIDE DEF Some
<1>5. Some(2)
  BY <1>3, <1>4
<1>6. Some(3)
  BY <1>4, <1>5
<1>7. Some(4)
  BY <1>4, <1>6
<1>8. Some(5)
  BY <1>4, <1>7
<1>9. Some(6)
  BY <1>4, <1>8
<1>10. Some(7)
  BY <1>4, <1>9
<1>11. Some(8)
  BY <1>4, <1>10
<1>12. Some(m)
  <2>1. m = 1 \/ m = 2 \/ m = 3 \/ m = 4 \/ m = 5 \/ m = 6 \/ m = 7 \/ m = 8
    OBVIOUS
  <2> QED
    BY <1>3, <1>5, <1>6, <1>7, <1>8, <1>9, <1>10, <1>11, <2>1
<1> QED
  BY <1>12 DEF Some

LEMMA ZeroOrMore ==
  ASSUME NEW d \in Int
  PROVE  Max({0, d}) = IF d > 0 THEN d ELSE 0
<1> DEFINE S == {0, d}
           g == IF d > 0 THEN d ELSE 0
<1>1. S \in SUBSET Int /\ g \in S /\ \A y \in S : y <= g
  OBVIOUS
<1> HIDE DEF S, g
<1>2. Max(S) = g
  BY <1>1, GreatestIs
<1> QED
  BY <1>2 DEF S, g

LEMMA HexWritten ==
  ASSUME NEW n \in Nat, NEW width \in Nat, NEW m \in 1 .. 8, n < Power[m]
  PROVE  LET t == Figures(n, 16, width)
         IN  /\ IsText(t) /\ \A i \in DOMAIN t : IsFigure(t[i], 16)
             /\ Len(t) \in Nat /\ Len(t) >= 1 /\ Len(t) >= width /\ (Len(t) <= m \/ Len(t) = width)
<1> DEFINE t == Figures(n, 16, width)
<1>1. 16 \in {10, 16}
  OBVIOUS
<1>2. PICK f : FiguresBy(f, n, 16, width)
  BY <1>1, FiguresDef
<1> DEFINE w == f[n]
           count1 == Max({0, width - Len(w)})
           zeroes == [i \in 1 .. count1 |-> "0"]
<1>3. HexSay(w, m)
  BY <1>2, HexFigures
<1>4. t = zeroes \o w
  BY <1>2 DEF FiguresBy
<1> HIDE DEF w, t
<1>5. IsText(w) /\ Len(w) \in 1 .. m /\ \A i \in DOMAIN w : IsFigure(w[i], 16)
  BY <1>3 DEF HexSay
<1>6. count1 = IF width - Len(w) > 0 THEN width - Len(w) ELSE 0
  <2> DEFINE d == width - Len(w)
  <2>1. d \in Int
    BY <1>5
  <2> HIDE DEF d
  <2>2. Max({0, d}) = IF d > 0 THEN d ELSE 0
    BY <2>1, ZeroOrMore
  <2> QED
    BY <2>2 DEF d
<1>7. count1 \in Nat
  BY <1>5, <1>6
<1> HIDE DEF count1
<1>8. zeroes \in Seq({"0"}) /\ Len(zeroes) = count1
  BY <1>7
<1>9. IsText(zeroes) /\ \A i \in DOMAIN zeroes : zeroes[i] = "0"
  <2>1. \A i \in DOMAIN zeroes : zeroes[i] = "0"
    OBVIOUS
  <2> QED
    BY <1>8, <2>1, SeqIsText
<1> HIDE DEF zeroes
<1>10. IsFigure("0", 16)
  <2>1. Figure[1] = "0" /\ 1 \in 1 .. 16
    BY DEF Figure
  <2> QED
    BY <2>1 DEF IsFigure
<1>11. /\ IsText(t) /\ Len(t) = Len(zeroes) + Len(w)
       /\ \A j \in 1 .. Len(zeroes) : t[j] = zeroes[j]
       /\ \A j \in 1 .. Len(w) : t[Len(zeroes) + j] = w[j]
  BY <1>4, <1>5, <1>9, ConcatAt
<1>12. DOMAIN w = 1 .. Len(w) /\ DOMAIN zeroes = 1 .. count1 /\ DOMAIN t = 1 .. Len(t) /\ Len(w) \in Nat
  BY <1>5, <1>8, <1>9, <1>11, TextFacts
<1>13. ASSUME NEW i \in DOMAIN t PROVE IsFigure(t[i], 16)
  <2>1. CASE i <= count1
    <3>1. i \in DOMAIN zeroes /\ t[i] = zeroes[i]
      BY <1>7, <1>8, <1>11, <1>12, <2>1
    <3> QED
      BY <1>9, <1>10, <3>1
  <2>2. CASE i > count1
    <3>1. i - count1 \in 1 .. Len(w) /\ count1 + (i - count1) = i
      BY <1>7, <1>8, <1>11, <1>12, <2>2
    <3> DEFINE j == i - count1
    <3>2. j \in 1 .. Len(w) /\ Len(zeroes) + j = i
      BY <1>8, <3>1
    <3> HIDE DEF j
    <3>3. t[i] = w[j]
      BY <1>11, <3>2
    <3> QED
      BY <1>5, <1>12, <3>2, <3>3
  <2> QED
    BY <1>7, <1>12, <2>1, <2>2
<1>14. Len(t) \in Nat /\ Len(t) >= 1 /\ Len(t) >= width /\ (Len(t) <= m \/ Len(t) = width)
  <2> DEFINE l == Len(t)
             v == Len(w)
  <2>1. l = count1 + v /\ v \in 1 .. m /\ count1 = IF width - v > 0 THEN width - v ELSE 0
    BY <1>5, <1>6, <1>8, <1>11
  <2> HIDE DEF l, v
  <2>2. l \in Nat /\ l >= 1 /\ l >= width /\ (l <= m \/ l = width)
    BY <2>1
  <2> QED
    BY <2>2 DEF l
<1> QED
  BY <1>11, <1>13, <1>14 DEF t

(* What is written of a number is one as the schema has it.                 *)
LEMMA NumberWritten ==
  ASSUME NEW n \in Int, NEW least \in Int, NEW most \in Int, least <= n, n <= most
  PROVE  IsText(SignedFigures(n)) /\ IntText(SignedFigures(n), least, most)
<1> DEFINE t == SignedFigures(n)
           first == IF n < 0 THEN 2 ELSE 1
           v == IF n < 0 THEN -n ELSE n
           w == SubSeq(t, first, Len(t))
<1>1. SignedSay(t, first, v) /\ Trimmed(t) = t
  BY NumberText, NumberPlain DEF Plain
<1> HIDE DEF t
<1>2. /\ IsText(t) /\ Len(t) \in Nat /\ Len(t) >= 1 /\ DOMAIN t = 1 .. Len(t)
      /\ FiguresSay(w, v) /\ (first = 2 => t[1] = "-")
  BY <1>1 DEF SignedSay
<1> HIDE DEF w
<1>3. v \in Integers(w)
  <2>1. IsText(w) /\ Len(w) >= 1 /\ (\A i \in DOMAIN w : IsFigure(w[i], 10)) /\ ValueOf(w, 10) = v
    BY <1>2 DEF FiguresSay
  <2>2. w # <<>>
    <3>1. Len(<<>>) = 0
      OBVIOUS
    <3> QED
      BY <2>1, <3>1
  <2> HIDE DEF v
  <2> QED
    BY <2>1, <2>2 DEF Integers
<1>4. CASE n < 0
  <2>1. w = Tail(t)
    <3>1. t # <<>> /\ t \in Seq(ToSet(t))
      <4>1. Len(<<>>) = 0
        OBVIOUS
      <4> QED
        BY <1>2, <4>1 DEF IsText
    <3> QED
      BY <1>4, <3>1 DEF w
  <2>2. At(t, 1) = "-"
    BY <1>2, <1>4 DEF At
  <2>3. v = -n /\ -v = n /\ least <= -v /\ -v <= most
    BY <1>4
  <2> HIDE DEF v
  <2>4. IntText(t, least, most)
    BY <1>1, <1>3, <2>1, <2>2, <2>3 DEF IntText
  <2> QED
    BY <1>2, <2>4 DEF t
<1>5. CASE ~(n < 0)
  <2>1. w = t
    <3>1. SubSeq(t, 1, Len(t)) = t
      BY <1>2, WholeText
    <3> QED
      BY <1>5, <3>1 DEF w
  <2>2. v = n
    BY <1>5
  <2>3. least <= v /\ v <= most
    BY <2>2
  <2> HIDE DEF v
  <2>4. IntText(t, least, most)
    BY <1>1, <1>3, <2>1, <2>3 DEF IntText
  <2> QED
    BY <1>2, <2>4 DEF t
<1> QED
  BY <1>4, <1>5

LEMMA ReprsWritten ==
  ASSUME NEW n \in Int
  PROVE  /\ ToRepr("s32", n, "dec") = SignedFigures(n)
         /\ n >= 0 => ToRepr("u32", n, "dec") = SignedFigures(n)
<1>1. ToRepr("s32", n, "dec") = SignedFigures(n)
  BY DEF ToRepr, Printed, S32ToStr, Mark, Base, Signed, SignedFigures
<1>2. ToRepr("u32", n, "dec") = Figures(n, 10, 1)
  BY DEF ToRepr, Printed, U32ToStr, Mark, Base, Signed
<1>3. n >= 0 => ~(n < 0)
  OBVIOUS
<1> QED
  BY <1>1, <1>2, <1>3, UnsignedFigures

HexFigure == {Figure[i] : i \in 1 .. 16}

LEMMA HexTextIs ==
  ASSUME NEW t, IsText(t), \A i \in DOMAIN t : IsFigure(t[i], 16)
  PROVE  t \in Seq(HexFigure) /\ Trimmed(t) = t
<1>1. Ends(t)
  <2> SUFFICES ASSUME t # <<>> PROVE ~IsSpace(t[1]) /\ ~IsSpace(t[Len(t)])
    BY DEF Ends
  <2>1. Len(t) \in Nat /\ DOMAIN t = 1 .. Len(t)
    BY TextFacts
  <2>2. Len(t) # 0
    BY WholeText
  <2>3. 1 \in DOMAIN t /\ Len(t) \in DOMAIN t
    BY <2>1, <2>2
  <2>4. \A c : IsFigure(c, 16) => c \in HexFigure
    BY DEF HexFigure, IsFigure
  <2>5. " " \notin HexFigure
    <3> SUFFICES ASSUME NEW i \in 1 .. 16 PROVE Figure[i] # " "
      BY DEF HexFigure
    <3>1. /\ Figure[1] = "0" /\ Figure[2] = "1" /\ Figure[3] = "2" /\ Figure[4] = "3"
          /\ Figure[5] = "4" /\ Figure[6] = "5" /\ Figure[7] = "6" /\ Figure[8] = "7"
          /\ Figure[9] = "8" /\ Figure[10] = "9" /\ Figure[11] = "A" /\ Figure[12] = "B"
          /\ Figure[13] = "C" /\ Figure[14] = "D" /\ Figure[15] = "E" /\ Figure[16] = "F"
      BY DEF Figure
    <3>2. \/ i = 1 \/ i = 2 \/ i = 3 \/ i = 4 \/ i = 5 \/ i = 6 \/ i = 7 \/ i = 8 \/ i = 9
          \/ i = 10 \/ i = 11 \/ i = 12 \/ i = 13 \/ i = 14 \/ i = 15 \/ i = 16
      OBVIOUS
    <3> QED
      BY <3>1, <3>2
  <2> QED
    BY <2>3, <2>4, <2>5 DEF IsSpace
<1>2. ToSet(t) \subseteq HexFigure
  BY DEF ToSet, HexFigure, IsFigure
<1>3. t \in Seq(HexFigure)
  BY <1>2, Rec!SeqGrows DEF IsText
<1> QED
  BY <1>1, <1>3, EndsTrimmed

LEMMA ByteWritten ==
  ASSUME NEW b \in 0 .. Most("u8")
  PROVE  LET t == Figures(b, 16, DigitsPerByte)
         IN  t \in Seq(HexFigure) /\ Len(t) = DigitsPerByte
<1> DEFINE t == Figures(b, 16, DigitsPerByte)
           m == DigitsPerByte
<1>1. m \in 1 .. 8 /\ m \in Nat
  BY Widths
<1>2. b \in Nat /\ b < Power[m]
  <2>1. Power[1] = 16 /\ Power[2] = 256
    BY DEF Power
  <2> QED
    BY <2>1, Widths, Limits
<1> HIDE DEF m
<1>3. /\ IsText(Figures(b, 16, m)) /\ \A i \in DOMAIN Figures(b, 16, m) : IsFigure(Figures(b, 16, m)[i], 16)
      /\ Len(Figures(b, 16, m)) \in Nat /\ Len(Figures(b, 16, m)) >= m
      /\ Len(Figures(b, 16, m)) <= m \/ Len(Figures(b, 16, m)) = m
  BY <1>1, <1>2, HexWritten
<1>4. Figures(b, 16, m) \in Seq(HexFigure)
  BY <1>3, HexTextIs
<1>5. Len(Figures(b, 16, m)) = m
  BY <1>1, <1>3
<1> QED
  BY <1>4, <1>5 DEF m

LEMMA DigitsMultiple ==
  ASSUME NEW n \in Nat
  PROVE  /\ (DigitsPerByte * n) % DigitsPerByte = 0 /\ DigitsPerByte * n \in Nat
         /\ DigitsPerByte * (n + 1) = DigitsPerByte * n + DigitsPerByte
         /\ \A most \in Nat : n <= most => DigitsPerByte * n <= most * DigitsPerByte
<1>1. CASE DigitsPerByte = 1
  BY <1>1
<1>2. CASE DigitsPerByte = 2
  BY <1>2
<1> QED
  BY <1>1, <1>2, Widths

LEMMA BytesWritten ==
  ASSUME NEW n \in Nat, NEW bytes, DOMAIN bytes = 1 .. n, \A i \in 1 .. n : bytes[i] \in 0 .. Most("u8"),
         NEW most \in Nat, n <= most
  PROVE  IsText(HexBufToStr(bytes)) /\ BytesText(HexBufToStr(bytes), most)
<1> DEFINE seqs == [i \in DOMAIN bytes |-> Figures(bytes[i], 16, DigitsPerByte)]
           t == HexBufToStr(bytes)
<1>1. t = FlattenSeq(seqs)
  BY DEF HexBufToStr
<1>2. \A i \in 1 .. n : seqs[i] \in Seq(HexFigure) /\ Len(seqs[i]) = DigitsPerByte
  BY ByteWritten
<1>3. seqs = [i \in 1 .. n |-> seqs[i]] /\ DOMAIN seqs = 1 .. n
  OBVIOUS
<1> HIDE DEF seqs, t
<1>4. seqs \in Seq(Seq(HexFigure)) /\ Len(seqs) = n
  BY <1>2, <1>3
<1>5. Rec!FlattenSeq(seqs) = FlattenSeq(seqs)
  BY Zenon DEF FlattenSeq, Rec!FlattenSeq
<1>6. t \in Seq(HexFigure)
  BY <1>1, <1>4, <1>5, Rec!FlattenIsSeq
<1>7. Len(t) = DigitsPerByte * n
  <2>1. CASE n = 0
    <3>1. t = seqs
      BY <1>1, <1>4, <2>1 DEF FlattenSeq
    <3> QED
      BY <1>4, <2>1, <3>1, Widths
  <2>2. CASE n # 0
    <3>1. PICK flat : /\ FlattenSeq(seqs) = flat[n]
                      /\ flat[1] = seqs[1]
                      /\ \A i \in 1 .. n - 1 : flat[i + 1] = flat[i] \o seqs[i + 1]
      BY <1>4, <1>5, <2>2, Rec!FlattenAt
    <3> DEFINE Fine(i) == flat[i] \in Seq(HexFigure) /\ Len(flat[i]) = DigitsPerByte * i
               K == {i \in Nat : i + 1 <= n => Fine(i + 1)}
    <3>2. 0 \in K
      <4>1. Fine(1)
        <5>1. 1 \in 1 .. n
          BY <2>2
        <5> QED
          BY <1>2, <3>1, <5>1, Widths
      <4> HIDE DEF Fine
      <4> QED
        BY <4>1
    <3>3. ASSUME NEW i \in Nat, i \in K PROVE i + 1 \in K
      <4> SUFFICES ASSUME i + 2 <= n PROVE Fine(i + 2)
        <5>1. i + 1 \in Nat /\ (i + 1) + 1 = i + 2
          OBVIOUS
        <5> HIDE DEF Fine
        <5> QED
          BY <5>1
      <4> DEFINE j == i + 1
      <4>1. j \in 1 .. n - 1 /\ j + 1 = i + 2 /\ j \in Nat /\ j + 1 \in 1 .. n
        OBVIOUS
      <4>2. Fine(j)
        BY <3>3
      <4> HIDE DEF j
      <4>3. flat[j + 1] = flat[j] \o seqs[j + 1]
        BY <3>1, <4>1
      <4>4. seqs[j + 1] \in Seq(HexFigure) /\ Len(seqs[j + 1]) = DigitsPerByte
        BY <1>2, <4>1
      <4>5. Len(flat[j + 1]) = DigitsPerByte * j + DigitsPerByte /\ flat[j + 1] \in Seq(HexFigure)
        <5> DEFINE a == flat[j]
                   c == seqs[j + 1]
        <5>1. a \in Seq(HexFigure) /\ c \in Seq(HexFigure) /\ Len(a) = DigitsPerByte * j
              /\ Len(c) = DigitsPerByte
          BY <4>2, <4>4
        <5> HIDE DEF a, c
        <5>2. a \o c \in Seq(HexFigure) /\ Len(a \o c) = Len(a) + Len(c)
          BY <5>1, ConcatProperties
        <5> QED
          BY <4>3, <5>1, <5>2 DEF a, c
      <4>6. DigitsPerByte * (j + 1) = DigitsPerByte * j + DigitsPerByte
        BY <4>1, DigitsMultiple
      <4>7. Fine(j + 1)
        BY <4>5, <4>6
      <4> QED
        BY <4>1, <4>7
    <3> HIDE DEF K
    <3>4. \A i \in Nat : i \in K
      BY <3>2, <3>3, Rec!NumberInduction
    <3>5. n - 1 \in Nat /\ (n - 1) + 1 = n
      BY <2>2
    <3>6. Fine(n)
      <4> HIDE DEF Fine
      <4> QED
        BY <3>4, <3>5 DEF K
    <3> QED
      BY <1>1, <3>1, <3>6
  <2> QED
    BY <2>1, <2>2
<1>8. IsText(t) /\ \A i \in DOMAIN t : IsFigure(t[i], 16)
  BY <1>6, SeqIsText DEF HexFigure, IsFigure
<1>9. Trimmed(t) = t
  BY <1>8, HexTextIs
<1>10. Len(t) % DigitsPerByte = 0 /\ Len(t) <= most * DigitsPerByte
  BY <1>7, DigitsMultiple
<1>11. BytesText(t, most)
  BY <1>8, <1>9, <1>10 DEF BytesText
<1> QED
  BY <1>8, <1>11 DEF t

(* The bytes of an item.                                                    *)
LEMMA ItemBytes ==
  ASSUME NEW b, IsItem(b)
  PROVE  /\ b \in [1 .. BufferSize -> Nat] /\ DOMAIN b = 1 .. BufferSize
         /\ BufferSize \in Nat /\ BufferSize >= 18
         /\ b[1] \in 0 .. 255 /\ \A i \in 2 .. BufferSize : b[i] \in 0 .. Most("u8")
         /\ PfxTag(b[1]) \in 0 .. 15 /\ PfxType(b[1]) \in 0 .. 3
         /\ SizeToBytes(PfxSize(b[1])) \in {0, 1, 2, 4}
<1>1. BufferSize = 3 + Most("u8") /\ Most("u8") \in Nat /\ 15 <= Most("u8")
  BY LimitsAre DEF BufferSize
<1>2. b \in [1 .. BufferSize -> Nat] /\ b[1] <= 255 /\ \A i \in 2 .. BufferSize : b[i] <= Most("u8")
  BY DEF IsItem
<1>3. 1 \in 1 .. BufferSize /\ \A i \in 2 .. BufferSize : i \in 1 .. BufferSize
  BY <1>1
<1>4. b[1] \in 0 .. 255 /\ \A i \in 2 .. BufferSize : b[i] \in 0 .. Most("u8")
  <2>1. b[1] \in Nat /\ \A i \in 2 .. BufferSize : b[i] \in Nat
    BY <1>2, <1>3
  <2>2. b[1] \in 0 .. 255
    <3> DEFINE x == b[1]
    <3>1. x \in Nat /\ x <= 255
      BY <1>2, <2>1
    <3> HIDE DEF x
    <3>2. x \in 0 .. 255
      BY <3>1
    <3> QED
      BY <3>2 DEF x
  <2>3. ASSUME NEW i \in 2 .. BufferSize PROVE b[i] \in 0 .. Most("u8")
    <3> DEFINE x == b[i]
    <3>1. x \in Nat /\ x <= Most("u8")
      BY <1>2, <2>1
    <3> HIDE DEF x
    <3>2. x \in 0 .. Most("u8")
      BY <1>1, <3>1
    <3> QED
      BY <3>2 DEF x
  <2> QED
    BY <2>2, <2>3
<1>5. PfxTag(b[1]) \in 0 .. 15 /\ PfxType(b[1]) \in 0 .. 3 /\ PfxSize(b[1]) \in 0 .. 3
  BY <1>4 DEF PfxTag, PfxType, PfxSize
<1>6. SizeToBytes(PfxSize(b[1])) \in {0, 1, 2, 4}
  BY <1>5 DEF SizeToBytes
<1> QED
  BY <1>1, <1>2, <1>4, <1>5, <1>6

LEMMA PartOfBuffer ==
  ASSUME NEW size \in Nat, NEW b \in [1 .. size -> Nat], NEW k \in Nat, k >= 2, NEW n \in Nat, k + n - 1 <= size,
         NEW top, \A i \in 2 .. size : b[i] \in 0 .. top
  PROVE  LET s == SubSeq(b, k, k + n - 1)
         IN  DOMAIN s = 1 .. n /\ Len(s) = n /\ \A i \in 1 .. n : s[i] \in 0 .. top
<1> DEFINE e == k + n
           s == SubSeq(b, k, e - 1)
<1>1. b \in Seq(Nat) /\ Len(b) = size
  OBVIOUS
<1>2. IsText(b) /\ k >= 1 /\ e \in Nat /\ e <= Len(b) + 1 /\ k <= e /\ e - k = n /\ e - 1 = k + n - 1
  BY <1>1, SeqIsText
<1> HIDE DEF e
<1>3. /\ IsText(s) /\ Len(s) = e - k /\ DOMAIN s = 1 .. Len(s)
      /\ \A i \in DOMAIN s : k + i - 1 \in k .. e - 1 /\ s[i] = b[k + i - 1]
  BY <1>2, PartFacts, SMTT(30)
<1> HIDE DEF s
<1>4. DOMAIN s = 1 .. n /\ Len(s) = n
  BY <1>2, <1>3
<1>5. ASSUME NEW i \in 1 .. n PROVE s[i] \in 0 .. top
  <2>1. s[i] = b[k + i - 1]
    BY <1>3, <1>4
  <2>2. k + i - 1 \in 2 .. size
    OBVIOUS
  <2> QED
    BY <2>1, <2>2
<1> QED
  BY <1>2, <1>4, <1>5 DEF s

LEMMA DataWritten ==
  ASSUME NEW b, IsItem(b)
  PROVE  /\ DOMAIN ShortData(b) = 1 .. Len(ShortData(b)) /\ Len(ShortData(b)) \in {0, 1, 2, 4}
         /\ \A i \in 1 .. Len(ShortData(b)) : ShortData(b)[i] \in 0 .. Most("u8")
         /\ IsText(HexBufToStr(ShortData(b))) /\ BytesText(HexBufToStr(ShortData(b)), 4)
         /\ IsText(HexBufToStr(LongData(b))) /\ BytesText(HexBufToStr(LongData(b)), Most("u8"))
<1>1. /\ b \in [1 .. BufferSize -> Nat] /\ BufferSize \in Nat /\ BufferSize >= 18
      /\ \A i \in 2 .. BufferSize : b[i] \in 0 .. Most("u8")
      /\ SizeToBytes(PfxSize(b[1])) \in {0, 1, 2, 4}
  BY ItemBytes
<1>2. BufferSize = 3 + Most("u8") /\ Most("u8") \in Nat
  BY LimitsAre DEF BufferSize
<1> DEFINE n == SizeToBytes(PfxSize(b[1]))
           d == ShortData(b)
           m == b[2]
           l == LongData(b)
<1>3. DOMAIN d = 1 .. n /\ Len(d) = n /\ \A i \in 1 .. n : d[i] \in 0 .. Most("u8")
  <2>1. d = SubSeq(b, 2, 1 + n)
    BY DEF ShortData
  <2>2. n \in Nat /\ n <= 4
    BY <1>1
  <2> HIDE DEF n, d
  <2>3. 1 + n = 2 + n - 1 /\ 2 + n - 1 <= BufferSize
    BY <1>1, <2>2
  <2>4. d = SubSeq(b, 2, 2 + n - 1)
    BY <2>1, <2>3
  <2> DEFINE s == SubSeq(b, 2, 2 + n - 1)
  <2>5. DOMAIN s = 1 .. n /\ Len(s) = n /\ \A i \in 1 .. n : s[i] \in 0 .. Most("u8")
    BY <1>1, <2>2, <2>3, PartOfBuffer
  <2> QED
    BY <2>4, <2>5
<1>4. m \in 0 .. Most("u8")
  BY <1>1
<1>5. DOMAIN l = 1 .. m /\ Len(l) = m /\ \A i \in 1 .. m : l[i] \in 0 .. Most("u8")
  <2>1. l = SubSeq(b, 4, 3 + m)
    BY DEF LongData
  <2>2. m \in Nat
    BY <1>2, <1>4
  <2> HIDE DEF m, l
  <2>3. 3 + m = 4 + m - 1 /\ 4 + m - 1 <= BufferSize
    BY <1>2, <1>4, <2>2
  <2> DEFINE s == SubSeq(b, 4, 4 + m - 1)
  <2>4. DOMAIN s = 1 .. m /\ Len(s) = m /\ \A i \in 1 .. m : s[i] \in 0 .. Most("u8")
    BY <1>1, <2>2, <2>3, PartOfBuffer
  <2> QED
    BY <2>1, <2>3, <2>4
<1> HIDE DEF d, l, m
<1>6. IsText(HexBufToStr(d)) /\ BytesText(HexBufToStr(d), 4)
  <2>1. n \in Nat /\ n <= 4 /\ 4 \in Nat
    BY <1>1
  <2> HIDE DEF n
  <2> QED
    BY <1>3, <2>1, BytesWritten
<1>7. IsText(HexBufToStr(l)) /\ BytesText(HexBufToStr(l), Most("u8"))
  <2>1. m \in Nat /\ m <= Most("u8")
    BY <1>2, <1>4
  <2> QED
    BY <1>2, <1>5, <2>1, BytesWritten
<1> QED
  BY <1>1, <1>3, <1>6, <1>7 DEF d, l

(* The number in an item.                                                   *)
LEMMA ComposedBelow ==
  ASSUME NEW size \in Nat, NEW m \in Nat, NEW p \in Nat, NEW i \in Nat, p < m, i < size
  PROVE  i + size * p \in Nat /\ i + size * p < size * m
<1>1. p + 1 <= m
  OBVIOUS
<1>2. size * (p + 1) <= size * m
  BY <1>1
<1>3. size * (p + 1) = size * p + size /\ size * p \in Nat /\ size * m \in Nat
  OBVIOUS
<1> DEFINE sp == size * p
           sm == size * m
           sq == size * (p + 1)
<1>4. sq <= sm /\ sq = sp + size /\ sp \in Nat /\ sm \in Nat
  BY <1>2, <1>3
<1> HIDE DEF sp, sm, sq
<1>5. i + sp \in Nat /\ i + sp < sm
  BY <1>4
<1> QED
  BY <1>5 DEF sp, sm

LEMMA SizesAre ==
  /\ ByteSize \in Nat /\ ByteSize > 0 /\ Most("u8") = ByteSize - 1
  /\ Most("u16") = ByteSize * ByteSize - 1 /\ Most("u16") \in Nat
  /\ AllOnes = ByteSize * (ByteSize * (ByteSize * ByteSize)) - 1 /\ AllOnes \in Nat
<1>1. CASE DigitsPerByte = 1
  BY <1>1, Limits
<1>2. CASE DigitsPerByte = 2
  BY <1>2, Limits
<1> QED
  BY <1>1, <1>2, Widths

LEMMA FourBytes ==
  ASSUME NEW p1 \in 0 .. ByteSize - 1, NEW p2 \in 0 .. ByteSize - 1,
         NEW p3 \in 0 .. ByteSize - 1, NEW p4 \in 0 .. ByteSize - 1, NEW n,
         n = p1 + ByteSize * (p2 + ByteSize * (p3 + ByteSize * p4))
  PROVE  /\ n \in 0 .. AllOnes
         /\ p2 = 0 /\ p3 = 0 /\ p4 = 0 => n = p1
         /\ p3 = 0 /\ p4 = 0 => n <= Most("u16")
<1> DEFINE s == ByteSize
           s2 == s * s
           s3 == s * s2
           s4 == s * s3
           n3 == p3 + s * p4
           n2 == p2 + s * n3
           n1 == p1 + s * n2
           m == p1 + s * p2
<1>1. s \in Nat /\ s > 0 /\ Most("u16") = s2 - 1 /\ AllOnes = s4 - 1
  BY SizesAre
<1>2. n = n1
  OBVIOUS
<1>3. p1 \in Nat /\ p1 < s /\ p2 \in Nat /\ p2 < s /\ p3 \in Nat /\ p3 < s /\ p4 \in Nat /\ p4 < s
  BY <1>1
<1> HIDE DEF s
<1>4. s2 \in Nat
  BY <1>1
<1>5. n3 \in Nat /\ n3 < s2 /\ m \in Nat /\ m < s2
  BY <1>1, <1>3, ComposedBelow
<1>6. p4 = 0 /\ p3 = 0 => n3 = 0
  BY <1>1, <1>3
<1> HIDE DEF s2, n3
<1>7. s3 \in Nat
  BY <1>1, <1>4
<1>8. n2 \in Nat /\ n2 < s3
  BY <1>1, <1>3, <1>4, <1>5, ComposedBelow
<1>9. n3 = 0 => n2 = p2
  BY <1>1, <1>3
<1> HIDE DEF s3, n2
<1>10. n1 \in Nat /\ n1 < s4
  BY <1>1, <1>3, <1>7, <1>8, ComposedBelow
<1>11. s4 \in Nat
  BY <1>1, <1>7
<1>12. n2 = p2 => n1 = m
  OBVIOUS
<1>13. p2 = 0 => m = p1
  BY <1>1, <1>3
<1> HIDE DEF s4, n1, m
<1>14. n \in 0 .. AllOnes
  BY <1>1, <1>2, <1>10, <1>11
<1>15. p2 = 0 /\ p3 = 0 /\ p4 = 0 => n = p1
  BY <1>2, <1>6, <1>9, <1>12, <1>13
<1>16. p3 = 0 /\ p4 = 0 => n <= Most("u16")
  BY <1>1, <1>2, <1>4, <1>5, <1>6, <1>9, <1>12
<1> QED
  BY <1>14, <1>15, <1>16

LEMMA NumberOf ==
  ASSUME NEW b, IsItem(b)
  PROVE  /\ GetUnsigned(b) \in 0 .. AllOnes
         /\ Len(ShortData(b)) = 0 => GetUnsigned(b) = 0
         /\ Len(ShortData(b)) = 1 => GetUnsigned(b) <= Most("u8")
         /\ Len(ShortData(b)) = 2 => GetUnsigned(b) <= Most("u16")
<1> DEFINE d == ShortData(b)
           p == Padded(d)
           n == Len(d)
           Top == ByteSize - 1
<1>1. DOMAIN d = 1 .. n /\ n \in {0, 1, 2, 4} /\ \A i \in 1 .. n : d[i] \in 0 .. Most("u8")
  BY DataWritten
<1>2. Most("u8") = Top /\ Most("u8") \in Nat
  BY LimitsAre, Limits, Widths
<1>3. GetUnsigned(b) = FromLe(p)
  BY DEF GetUnsigned
<1>4. p = [i \in 1 .. 4 |-> IF i \in DOMAIN d THEN d[i] ELSE 0]
  BY DEF Padded
<1> HIDE DEF d, p, n, Top
<1>5. \A i \in 1 .. 4 : p[i] = IF i \in 1 .. n THEN d[i] ELSE 0
  BY <1>1, <1>4
<1>6. \A i \in 1 .. 4 : p[i] \in 0 .. Top /\ (i \notin 1 .. n => p[i] = 0)
  BY <1>1, <1>2, <1>5
<1> DEFINE p1 == p[1]
           p2 == p[2]
           p3 == p[3]
           p4 == p[4]
<1>7. /\ p1 \in 0 .. Top /\ p2 \in 0 .. Top /\ p3 \in 0 .. Top /\ p4 \in 0 .. Top
      /\ n = 0 => p1 = 0
      /\ n = 0 \/ n = 1 => p2 = 0
      /\ n = 0 \/ n = 1 \/ n = 2 => p3 = 0 /\ p4 = 0
  BY <1>1, <1>6
<1>8. FromLe(p) = p1 + ByteSize * (p2 + ByteSize * (p3 + ByteSize * p4))
  BY DEF FromLe
<1> HIDE DEF p1, p2, p3, p4
<1>9. /\ FromLe(p) \in 0 .. AllOnes
      /\ p2 = 0 /\ p3 = 0 /\ p4 = 0 => FromLe(p) = p1
      /\ p3 = 0 /\ p4 = 0 => FromLe(p) <= Most("u16")
  BY <1>7, <1>8, FourBytes DEF Top
<1>10. p1 <= Most("u8")
  BY <1>2, <1>7
<1> QED
  BY <1>3, <1>7, <1>9, <1>10 DEF n, d

LEMMA SignedOf ==
  ASSUME NEW b, IsItem(b)
  PROVE  GetSigned(b) \in Least("s32") .. Most("s32")
<1> DEFINE d == ShortData(b)
           n == Len(d)
           u == GetUnsigned(b)
           range == ByteSize ^ n
<1>1. /\ n \in {0, 1, 2, 4} /\ u \in 0 .. AllOnes
      /\ n = 0 => u = 0
      /\ n = 1 => u <= Most("u8")
      /\ n = 2 => u <= Most("u16")
  BY DataWritten, NumberOf
<1>2. GetSigned(b) = IF 2 * u >= range /\ d # <<>> THEN u - range ELSE u
  BY DEF GetSigned
<1>3. n = 0 => d = <<>>
  <2>1. DOMAIN d = 1 .. n
    BY DataWritten
  <2>2. d = SubSeq(b, 2, 1 + SizeToBytes(PfxSize(b[1])))
    BY DEF ShortData
  <2>3. SizeToBytes(PfxSize(b[1])) \in {0, 1, 2, 4} /\ b \in [1 .. BufferSize -> Nat]
        /\ BufferSize \in Nat /\ BufferSize >= 18
    BY ItemBytes
  <2>4. IsText(d)
    <3> DEFINE e == 2 + SizeToBytes(PfxSize(b[1]))
    <3>1. b \in Seq(Nat) /\ Len(b) = BufferSize
      BY <2>3
    <3>2. IsText(b)
      BY <3>1, SeqIsText
    <3>3. e \in Nat /\ e <= Len(b) + 1 /\ e - 1 = 1 + SizeToBytes(PfxSize(b[1]))
      BY <2>3, <3>1
    <3> HIDE DEF e, d
    <3>4. IsText(SubSeq(b, 2, e - 1))
      BY <3>2, <3>3, PartFacts
    <3> QED
      BY <2>2, <3>3, <3>4
  <2> QED
    BY <2>4, WholeText
<1>4. /\ ByteSize ^ 1 = ByteSize /\ ByteSize ^ 2 = Most("u16") + 1 /\ ByteSize ^ 4 = AllOnes + 1
  <2>1. 16 ^ 1 = 16 /\ 16 ^ 2 = 256 /\ 16 ^ 4 = 65536
        /\ 256 ^ 1 = 256 /\ 256 ^ 2 = 65536 /\ 256 ^ 4 = 4294967296
    OBVIOUS
  <2>2. CASE DigitsPerByte = 1
    <3>1. ByteSize = 16 /\ Most("u16") = 255 /\ AllOnes = 65535
      BY <2>2, Limits
    <3> QED
      BY <2>1, <3>1
  <2>3. CASE DigitsPerByte = 2
    <3>1. ByteSize = 256 /\ Most("u16") = 65535 /\ AllOnes = 4294967295
      BY <2>3, Limits
    <3> QED
      BY <2>1, <3>1
  <2> QED
    BY <2>2, <2>3, Widths
<1>5. /\ n = 1 => range = ByteSize
      /\ n = 2 => range = Most("u16") + 1
      /\ n = 4 => range = AllOnes + 1
  BY <1>4
<1> HIDE DEF n, u, range
<1>6. /\ AllOnes \in Nat /\ Most("u8") \in Nat /\ Most("u16") \in Nat /\ ByteSize = Most("u8") + 1
      /\ Least("s32") \in Int /\ Most("s32") \in Nat /\ AllOnes = 2 * Most("s32") + 1
      /\ Least("s32") = -Most("s32") - 1 /\ Most("u16") <= Most("s32") /\ Most("u8") <= Most("u16")
  BY LimitsAre, Limits, Widths
<1>7. CASE n = 0
  BY <1>1, <1>2, <1>3, <1>6, <1>7
<1>8. CASE n = 1
  BY <1>1, <1>2, <1>5, <1>6, <1>8
<1>9. CASE n = 2
  BY <1>1, <1>2, <1>5, <1>6, <1>9
<1>10. CASE n = 4
  <2> DEFINE lo == Least("s32")
             hi == Most("s32")
             all == AllOnes
             g == GetSigned(b)
  <2>1. hi \in Nat /\ lo = -hi - 1 /\ all = 2 * hi + 1 /\ u \in 0 .. all /\ range = all + 1
    BY <1>1, <1>5, <1>6, <1>10
  <2>2. g = IF 2 * u >= range /\ d # <<>> THEN u - range ELSE u
    BY <1>2
  <2>3. d # <<>>
    BY <1>10, ShortTexts DEF n
  <2> HIDE DEF lo, hi, all, g
  <2>4. u \in Nat /\ u <= 2 * hi + 1
    BY <2>1
  <2>5. g = IF u >= hi + 1 THEN u - (2 * hi + 2) ELSE u
    BY <2>1, <2>2, <2>3, <2>4
  <2>6. g \in Int /\ -hi - 1 <= g /\ g <= hi
    BY <2>1, <2>4, <2>5
  <2>7. g \in lo .. hi
    BY <2>1, <2>6
  <2> QED
    BY <2>7 DEF g, lo, hi
<1> QED
  BY <1>1, <1>7, <1>8, <1>9, <1>10

------------------------------------------------------------------------------
(* Elements that the sink writes are allowed: kind by kind.                 *)

(* The elements that the sink writes are allowed by the schema.  First      *)
(* those with nothing in them but text.                                     *)
LEMMA PlainElement ==
  ASSUME NEW name, NEW attr, NEW text, IsText(text), \A a \in DOMAIN attr : IsText(attr[a]),
         NEW e, e = Node(name, attr, text, <<>>)
  PROVE  /\ IsElement(e) /\ e.name = name /\ e.attr = attr /\ e.text = text /\ e.kids = <<>>
<1>1. e.name = name /\ e.attr = attr /\ e.text = text /\ e.kids = <<>>
  BY DEF Node
<1>2. IsText(<<>>) /\ DOMAIN <<>> = {}
  BY ShortTexts
<1> QED
  BY <1>1, <1>2 DEF IsElement, IsNode

LEMMA TextElement ==
  ASSUME NEW name, NEW text, IsText(text), NEW e, e = WithText(name, text)
  PROVE  /\ IsElement(e) /\ e.name = name /\ e.text = text /\ OnlyText(e)
<1>1. DOMAIN NoAttr = {} /\ e = Node(name, NoAttr, text, <<>>)
  BY DEF NoAttr, WithText
<1>2. IsElement(e) /\ e.name = name /\ e.attr = NoAttr /\ e.text = text /\ e.kids = <<>>
  BY <1>1, PlainElement
<1> QED
  BY <1>1, <1>2 DEF OnlyText

LEMMA EmptyElement ==
  ASSUME NEW name, NEW e, e = Empty(name)
  PROVE  IsElement(e) /\ e.name = name /\ EmptyType(e)
<1>1. DOMAIN NoAttr = {} /\ e = Node(name, NoAttr, <<>>, <<>>)
  BY DEF NoAttr, Empty
<1>2. IsElement(e) /\ e.name = name /\ e.attr = NoAttr /\ e.text = <<>> /\ e.kids = <<>>
  BY <1>1, ShortTexts, PlainElement
<1> QED
  BY <1>1, <1>2 DEF EmptyType, Bare

(* The token of a number, or its figures when it has none.                  *)
LEMMA TokenOrDecIs ==
  ASSUME NEW table, NEW n \in Nat
  PROVE  /\ IsText(TokenOrDec(table, n))
         /\ \/ Known(table, n) /\ \E name \in DOMAIN table : table[name] = n
                                                              /\ TokenOrDec(table, n) = <<name>>
            \/ ~Known(table, n) /\ TokenOrDec(table, n) = SignedFigures(n)
<1> DEFINE t == TokenOrDec(table, n)
<1>1. CASE Known(table, n)
  <2>1. PICK name \in DOMAIN table : table[name] = n
    BY <1>1 DEF Known
  <2>2. <<name>> \in ToToken(table, n)
    BY <2>1 DEF ToToken
  <2>3. t \in ToToken(table, n)
    BY <2>2 DEF TokenOrDec, ToAlt
  <2>4. PICK word \in DOMAIN table : table[word] = n /\ t = <<word>>
    BY <2>3 DEF ToToken
  <2>5. IsText(t)
    BY <2>4, ShortTexts
  <2> QED
    BY <1>1, <2>4, <2>5
<1>2. CASE ~Known(table, n)
  <2>1. ToToken(table, n) = {}
    BY <1>2 DEF ToToken, Known
  <2>2. ToRepr("u32", n, "dec") = SignedFigures(n)
    BY ReprsWritten
  <2>3. t = SignedFigures(n)
    BY <2>1, <2>2 DEF TokenOrDec, ToAlt
  <2>4. IsText(SignedFigures(n))
    BY NumberWritten
  <2> QED
    BY <1>2, <2>3, <2>4
<1> QED
  BY <1>1, <1>2

(* What is said of an element that the sink writes.                         *)
Fits(e) == IsElement(e) /\ SchemaAllows(e) /\ e.name # "pop"

LEMMA TagElement ==
  ASSUME NEW name, NEW t, IsText(t), NEW text, IsText(text), NEW e, e = Node(name, [tag |-> t], text, <<>>)
  PROVE  /\ IsElement(e) /\ e.name = name /\ e.text = text /\ e.kids = <<>>
         /\ DOMAIN e.attr = {"tag"} /\ e.attr.tag = t
<1> DEFINE attr == [tag |-> t]
<1>1. DOMAIN attr = {"tag"} /\ attr.tag = t
  OBVIOUS
<1>2. \A a \in DOMAIN attr : IsText(attr[a])
  BY <1>1
<1> HIDE DEF attr
<1>3. e = Node(name, attr, text, <<>>)
  BY DEF attr
<1> QED
  BY <1>1, <1>2, <1>3, PlainElement

LEMMA LongFits ==
  ASSUME NEW b, IsItem(b), IsLong(b), NEW page
  PROVE  Fits(Write(b, page))
<1> DEFINE tag == b[3]
           e == Write(b, page)
<1>1. tag \in 0 .. Most("u8") /\ tag \in Nat /\ Most("u8") \in Nat
  <2>1. 3 \in 2 .. BufferSize
    BY ItemBytes
  <2> QED
    BY <2>1, ItemBytes, LimitsAre
<1>2. e = Node("long", [tag |-> ToRepr("u32", tag, "dec")], HexBufToStr(LongData(b)), <<>>)
  BY DEF Write
<1> HIDE DEF tag, e
<1>3. IsText(SignedFigures(tag)) /\ IntText(SignedFigures(tag), 0, Most("u8"))
      /\ ToRepr("u32", tag, "dec") = SignedFigures(tag)
  BY <1>1, NumberWritten, ReprsWritten
<1>4. /\ IsElement(e) /\ e.name = "long" /\ e.text = HexBufToStr(LongData(b)) /\ e.kids = <<>>
      /\ DOMAIN e.attr = {"tag"} /\ e.attr.tag = SignedFigures(tag)
  BY <1>2, <1>3, DataWritten, TagElement
<1>5. LongAllowed(e)
  BY <1>3, <1>4, DataWritten DEF LongAllowed
<1>6. e.name \notin DOMAIN NumType /\ e.name \notin UsageNames
  BY <1>4, NamesApart DEF Single
<1>7. SchemaAllows(e)
  BY <1>4, <1>5, <1>6 DEF SchemaAllows
<1>8. e.name # "pop"
  BY <1>4
<1> QED
  BY <1>4, <1>7, <1>8 DEF Fits, e

LEMMA ReservedAllowed ==
  ASSUME NEW b, IsItem(b), NEW table, ~Known(table, PfxTag(b[1])), NEW name, NEW words,
         NEW e, e = WriteReserved(name, table, b)
  PROVE  IsElement(e) /\ e.name = name /\ TaggedAllowed(e, words)
<1> DEFINE tag == PfxTag(b[1])
<1>1. tag \in 0 .. 15 /\ tag \in Nat
  BY ItemBytes
<1>2. e = Node(name, [tag |-> TokenOrDec(table, tag)], HexBufToStr(ShortData(b)), <<>>)
  BY DEF WriteReserved
<1>3. ~Known(table, tag)
  OBVIOUS
<1> HIDE DEF tag
<1>4. IsText(TokenOrDec(table, tag)) /\ TokenOrDec(table, tag) = SignedFigures(tag)
  BY <1>1, <1>3, TokenOrDecIs
<1>5. IntText(SignedFigures(tag), 0, 15)
  BY <1>1, NumberWritten
<1>6. /\ IsElement(e) /\ e.name = name /\ e.text = HexBufToStr(ShortData(b)) /\ e.kids = <<>>
      /\ DOMAIN e.attr = {"tag"} /\ e.attr.tag = SignedFigures(tag)
  BY <1>2, <1>4, DataWritten, TagElement
<1> QED
  BY <1>5, <1>6, DataWritten DEF TaggedAllowed, TagText

LEMMA ReservedFits ==
  ASSUME NEW b, IsItem(b), NEW table, ~Known(table, PfxTag(b[1])), NEW name \in {"main", "global", "local"}
  PROVE  Fits(WriteReserved(name, table, b))
<1> DEFINE e == WriteReserved(name, table, b)
<1>1. IsElement(e) /\ e.name = name /\ \A words : TaggedAllowed(e, words)
  BY ReservedAllowed
<1> HIDE DEF e
<1>2. MainAllowed(e) /\ GlobalAllowed(e) /\ LocalAllowed(e)
  BY <1>1 DEF MainAllowed, GlobalAllowed, LocalAllowed
<1>3. e.name \notin DOMAIN NumType /\ e.name \notin UsageNames
  BY <1>1, NamesApart DEF Single
<1>4. SchemaAllows(e)
  BY <1>1, <1>2, <1>3 DEF SchemaAllows
<1>5. e.name # "pop"
  BY <1>1
<1> QED
  BY <1>1, <1>4, <1>5 DEF Fits, e

LEMMA NumberFits ==
  ASSUME NEW b, IsItem(b), NEW name \in DOMAIN NumType, name = "report_id" => ReportIdValid(GetUnsigned(b))
  PROVE  Fits(WriteNumber(name, b))
<1> DEFINE e == WriteNumber(name, b)
           n == GetUnsigned(b)
           s == GetSigned(b)
           text == SignedFigures(IF NumType[name] = "s32" THEN s ELSE n)
<1>1. n \in 0 .. AllOnes /\ n \in Int /\ n >= 0 /\ s \in Least("s32") .. Most("s32") /\ s \in Int
  BY NumberOf, SignedOf, LimitsAre
<1>2. NumType[name] \in {"s32", "u32", "u8"} /\ (name = "report_id" <=> NumType[name] = "u8")
  BY NumTypes
<1>3. e = WithText(name, IF NumType[name] = "s32" THEN ToRepr("s32", s, "dec") ELSE ToRepr("u32", n, "dec"))
  BY DEF WriteNumber
<1>4. name = "report_id" => n > 0 /\ n <= Most("u8")
  BY DEF ReportIdValid
<1> HIDE DEF e, n, s
<1>5. e = WithText(name, text)
  BY <1>1, <1>3, ReprsWritten
<1>6. IsText(text)
  BY <1>1, NumberWritten
<1>7. IsElement(e) /\ e.name = name /\ e.text = text /\ OnlyText(e)
  BY <1>5, <1>6, TextElement
<1>8. IntText(text, IF name = "report_id" THEN 1 ELSE Least(NumType[name]), Most(NumType[name]))
  <2>1. CASE NumType[name] = "s32"
    <3>1. IntText(SignedFigures(s), Least("s32"), Most("s32"))
      BY <1>1, LimitsAre, NumberWritten
    <3> QED
      BY <1>2, <2>1, <3>1
  <2>2. CASE NumType[name] = "u32"
    <3>1. IntText(SignedFigures(n), 0, Most("u32"))
      BY <1>1, LimitsAre, NumberWritten
    <3>2. Least("u32") = 0
      BY DEF Least, Signed
    <3> QED
      BY <1>2, <2>2, <3>1, <3>2
  <2>3. CASE NumType[name] = "u8"
    <3>1. IntText(SignedFigures(n), 1, Most("u8"))
      BY <1>1, <1>2, <1>4, <2>3, LimitsAre, NumberWritten
    <3> QED
      BY <1>2, <2>3, <3>1
  <2> QED
    BY <1>2, <2>1, <2>2, <2>3
<1>9. NumberAllowed(e)
  BY <1>7, <1>8 DEF NumberAllowed
<1>10. e.name \notin Single /\ e.name \notin UsageNames /\ e.name \in DOMAIN NumType
  BY <1>7, NamesApart
<1>11. SchemaAllows(e) /\ e.name # "pop"
  BY <1>9, <1>10 DEF SchemaAllows, Single
<1> QED
  BY <1>7, <1>11 DEF Fits, e

LEMMA EmptyFits ==
  ASSUME NEW name \in {"PUSH", "SET"}
  PROVE  Fits(Empty(name))
<1> DEFINE e == Empty(name)
<1>1. IsElement(e) /\ e.name = name /\ EmptyType(e)
  BY EmptyElement
<1> HIDE DEF e
<1>2. e.name \notin DOMAIN NumType /\ e.name \notin UsageNames
  BY <1>1, NamesApart DEF Single
<1>3. SchemaAllows(e)
  BY <1>1, <1>2 DEF SchemaAllows
<1>4. e.name # "pop"
  BY <1>1
<1> QED
  BY <1>1, <1>3, <1>4 DEF Fits, e

LEMMA CollectionFits ==
  ASSUME NEW n \in Nat, n <= Most("u8")
  PROVE  Fits(Node("COLLECTION", [type |-> TokenOrDec(CollectionTypes, n)], <<>>, <<>>))
<1> DEFINE t == TokenOrDec(CollectionTypes, n)
           attr == [type |-> t]
           e == Node("COLLECTION", attr, <<>>, <<>>)
<1>1. IsText(t)
  BY TokenOrDecIs
<1>2. WordText(t, DOMAIN CollectionTypes) \/ IntText(t, 0, Most("u8"))
  <2>1. CASE \E name \in DOMAIN CollectionTypes : CollectionTypes[name] = n /\ t = <<name>>
    BY <2>1 DEF WordText
  <2>2. CASE t = SignedFigures(n)
    BY <2>2, LimitsAre, NumberWritten
  <2> QED
    BY <2>1, <2>2, TokenOrDecIs
<1> HIDE DEF t
<1>3. DOMAIN attr = {"type"} /\ attr.type = t
  OBVIOUS
<1>4. \A a \in DOMAIN attr : IsText(attr[a])
  BY <1>1, <1>3
<1> HIDE DEF attr
<1>5. IsElement(e) /\ e.name = "COLLECTION" /\ e.attr = attr /\ e.text = <<>> /\ e.kids = <<>>
  BY <1>4, ShortTexts, PlainElement
<1> HIDE DEF e
<1>6. CollectionAllowed(e)
  BY <1>2, <1>3, <1>5 DEF CollectionAllowed, Bare
<1>7. e.name \notin DOMAIN NumType /\ e.name \notin UsageNames
  BY <1>5, NamesApart DEF Single
<1>8. SchemaAllows(e)
  BY <1>5, <1>6, <1>7 DEF SchemaAllows
<1>9. e.name # "pop"
  BY <1>5
<1> QED
  BY <1>5, <1>8, <1>9 DEF Fits, e, attr, t

(* What is written of a number of a usage or a page without a token.        *)
LEMMA HexTextWritten ==
  ASSUME NEW type \in {"u16", "u32"}, NEW n \in Nat, n <= Most(type)
  PROVE  IsText(ToRepr(type, n, "hex")) /\ HexText(ToRepr(type, n, "hex"), Bytes[type] * DigitsPerByte)
<1> DEFINE m == Bytes[type] * DigitsPerByte
           width == IF n = 0 THEN 1 ELSE HexWidth(n)
           t == Figures(n, 16, width)
<1>1. ToRepr(type, n, "hex") = t
  <2>1. ToRepr(type, n, "hex") = Printed(type, n, "NONE", 16)
    BY DEF ToRepr, Mark, Base
  <2>2. Printed(type, n, "NONE", 16) = U32ToStr(n, "NONE", 16)
    BY DEF Printed, Signed
  <2>3. U32ToStr(n, "NONE", 16) = Marked("NONE", t)
    BY DEF U32ToStr
  <2>4. \A f : Marked("NONE", f) = f
    BY DEF Marked
  <2> QED
    BY <2>1, <2>2, <2>3, <2>4
<1>2. Bytes["u16"] = 2 /\ Bytes["u32"] = 4
  BY DEF Bytes
<1>3. width \in Nat /\ width <= m /\ m \in 1 .. 8 /\ n < Power[m]
  <2>1. CASE DigitsPerByte = 1 /\ type = "u16"
    <3>1. m = 2 /\ n <= 255 /\ Most("u8") = 15 /\ Most("u16") = 255
      BY <1>2, <2>1, Limits
    <3>2. Power[2] = 256
      BY DEF Power
    <3> QED
      BY <2>1, <3>1, <3>2 DEF HexWidth
  <2>2. CASE DigitsPerByte = 1 /\ type = "u32"
    <3>1. m = 4 /\ n <= 65535 /\ Most("u8") = 15 /\ Most("u16") = 255
      BY <1>2, <2>2, Limits
    <3>2. Power[4] = 65536
      BY DEF Power
    <3> QED
      BY <2>2, <3>1, <3>2 DEF HexWidth
  <2>3. CASE DigitsPerByte = 2 /\ type = "u16"
    <3>1. m = 4 /\ n <= 65535 /\ Most("u8") = 255 /\ Most("u16") = 65535
      BY <1>2, <2>3, Limits
    <3>2. Power[4] = 65536
      BY DEF Power
    <3> QED
      BY <2>3, <3>1, <3>2 DEF HexWidth
  <2>4. CASE DigitsPerByte = 2 /\ type = "u32"
    <3>1. m = 8 /\ n <= 4294967295 /\ Most("u8") = 255 /\ Most("u16") = 65535
      BY <1>2, <2>4, Limits
    <3>2. Power[8] = 4294967296
      BY DEF Power
    <3> QED
      BY <2>4, <3>1, <3>2 DEF HexWidth
  <2> QED
    BY <2>1, <2>2, <2>3, <2>4, Widths
<1> HIDE DEF m, width
<1>4. /\ IsText(t) /\ \A i \in DOMAIN t : IsFigure(t[i], 16)
      /\ Len(t) \in Nat /\ Len(t) >= 1 /\ (Len(t) <= m \/ Len(t) = width)
  BY <1>3, HexWritten
<1> HIDE DEF t
<1>5. Len(t) \in 1 .. m
  BY <1>3, <1>4
<1> QED
  BY <1>1, <1>4, <1>5 DEF HexText, m

(* A smallest of some positions in a sequence.                              *)
LEMMA FirstThere ==
  ASSUME NEW list, IsText(list), NEW S, S \subseteq DOMAIN list, S # {}
  PROVE  Min(S) \in S
<1>1. DOMAIN list \subseteq Nat
  BY DEF IsText
<1> QED
  BY <1>1, LeastElement

LEMMA PageFits ==
  ASSUME NEW page \in 0 .. Most("u16")
  PROVE  Fits(WithText("usage_page", PageToText(page)))
<1> DEFINE t == PageToText(page)
           e == WithText("usage_page", t)
           S == {i \in DOMAIN Pages : Pages[i].page = page}
<1>0. IsText(Pages) /\ \A p \in DOMAIN Pages : IsText(Pages[p].token)
  BY TableAssumption DEF IsTable
<1>1. IsText(t) /\ (HexText(t, 2 * DigitsPerByte) \/ PageFromToken(t) # {})
  <2>1. PageByValue(page) = IF S = {} THEN {} ELSE {Pages[Min(S)]}
    BY DEF PageByValue, FirstOf
  <2>2. CASE S = {}
    <3>1. PageToToken(page) = {}
      BY <2>1, <2>2 DEF PageToToken
    <3>2. t = ToRepr("u16", page, "hex")
      BY <3>1 DEF PageToText, ToAlt
    <3>3. Bytes["u16"] = 2 /\ page \in Nat /\ page <= Most("u16")
      BY LimitsAre DEF Bytes
    <3> HIDE DEF t
    <3> QED
      BY <3>2, <3>3, HexTextWritten
  <2>3. CASE S # {}
    <3> DEFINE k == Min(S)
    <3>1. k \in S
      BY <1>0, <2>3, FirstThere
    <3>2. PageToToken(page) = {Pages[k].token}
      BY <2>1, <2>3 DEF PageToToken
    <3> HIDE DEF k
    <3>3. t = Pages[k].token
      BY <3>2 DEF PageToText, ToAlt
    <3> HIDE DEF t
    <3>4. k \in DOMAIN Pages /\ Pages[k].token = t
      BY <3>1, <3>3
    <3>5. PageByToken(t) # {}
      BY <3>4 DEF PageByToken, FirstOf
    <3>6. PageFromToken(t) # {}
      BY <3>5 DEF PageFromToken
    <3> QED
      BY <1>0, <3>4, <3>6
  <2> QED
    BY <2>2, <2>3
<1> HIDE DEF t
<1>2. IsElement(e) /\ e.name = "usage_page" /\ e.text = t /\ OnlyText(e)
  BY <1>1, TextElement
<1> HIDE DEF e
<1>3. PageAllowed(e)
  BY <1>1, <1>2 DEF PageAllowed
<1>4. e.name \notin DOMAIN NumType /\ e.name \notin UsageNames
  BY <1>2, NamesApart DEF Single
<1>5. SchemaAllows(e)
  BY <1>2, <1>3, <1>4 DEF SchemaAllows
<1>6. e.name # "pop"
  BY <1>2
<1> QED
  BY <1>2, <1>5, <1>6 DEF Fits, e, t

(* The page and the identifier of a usage are halves of it.                 *)
LEMMA HalfBelow ==
  ASSUME NEW u \in Nat, NEW size \in Nat, size > 0
  PROVE  u % size \in Nat /\ u % size < size
  OBVIOUS
LEMMA PageSizeIs ==
  /\ PageSize \in Nat /\ PageSize > 0 /\ Most("u16") = PageSize - 1
  /\ AllOnes = PageSize * PageSize - 1 /\ AllOnes = Most("u32") /\ AllOnes \in Nat
<1>1. CASE DigitsPerByte = 1
  <2>1. PageSize = 256
    BY <1>1, Limits DEF PageSize
  <2> QED
    BY <1>1, <2>1, Limits
<1>2. CASE DigitsPerByte = 2
  <2>1. PageSize = 65536
    BY <1>2, Limits DEF PageSize
  <2> QED
    BY <1>2, <2>1, Limits
<1> QED
  BY <1>1, <1>2, Widths

LEMMA HalvesOf ==
  ASSUME NEW usage \in 0 .. AllOnes
  PROVE  /\ GetId(usage) \in 0 .. Most("u16") /\ usage \in Nat /\ usage <= Most("u32")
         /\ \A page \in 0 .. Most("u16") : SetPage(usage, page) \in 0 .. AllOnes
<1> DEFINE all == AllOnes
           size == PageSize
           most == Most("u16")
           i == GetId(usage)
<1>1. size \in Nat /\ size > 0 /\ most = size - 1 /\ all = size * size - 1 /\ all = Most("u32") /\ all \in Nat
  BY PageSizeIs
<1>2. i = usage % size /\ \A page : SetPage(usage, page) = page * size + i
  BY DEF GetId, SetPage, Compose
<1> HIDE DEF all, size, most, i
<1>3. usage \in Nat /\ usage <= all
  BY <1>1 DEF all
<1>4. i \in Nat /\ i < size
  BY <1>1, <1>2, <1>3, HalfBelow
<1>5. i \in 0 .. most
  BY <1>1, <1>4
<1>6. ASSUME NEW page \in 0 .. most
      PROVE  page * size + i \in 0 .. all
  <2>1. page \in Nat /\ page < size
    BY <1>1
  <2>2. i + size * page \in Nat /\ i + size * page < size * size
    BY <1>1, <1>4, <2>1, ComposedBelow
  <2>3. page * size = size * page /\ size * page \in Nat /\ size * size \in Nat
    BY <1>1, <2>1
  <2> DEFINE sp == size * page
             ss == size * size
             ps == page * size
  <2>4. i + sp < ss /\ ps = sp /\ sp \in Nat /\ ss \in Nat /\ all = ss - 1
    BY <1>1, <2>2, <2>3
  <2> HIDE DEF sp, ss, ps
  <2>5. ps + i \in 0 .. all
    BY <1>4, <2>4
  <2> QED
    BY <2>5 DEF ps
<1> QED
  BY <1>1, <1>2, <1>3, <1>5, <1>6 DEF all, most, i

UsageToken(t) ==
    \E p \in DOMAIN Pages : \E d \in DOMAIN Pages[p].ids :
        t = Pages[p].token \o Pages[p].ids[d].token
LEMMA UsageTokenIs ==
  ASSUME NEW usage, NEW t \in UsageToToken(usage)
  PROVE  IsText(t) /\ UsageToken(t)
<1>0. /\ IsText(Pages)
      /\ \A p \in DOMAIN Pages : /\ IsText(Pages[p].token) /\ IsText(Pages[p].ids)
                                 /\ \A d \in DOMAIN Pages[p].ids : IsText(Pages[p].ids[d].token)
  BY TableAssumption DEF IsTable
<1>1. PICK desc \in PageByValue(GetPage(usage)) :
         t \in {desc.token \o d.token : d \in IdByValue(desc, GetId(usage))}
  BY DEF UsageToToken
<1>2. PICK d \in IdByValue(desc, GetId(usage)) : t = desc.token \o d.token
  BY <1>1
<1> DEFINE S == {i \in DOMAIN Pages : Pages[i].page = GetPage(usage)}
           D == {i \in DOMAIN desc.ids : desc.ids[i].id = GetId(usage)}
<1>3. PageByValue(GetPage(usage)) = IF S = {} THEN {} ELSE {Pages[Min(S)]}
  BY DEF PageByValue, FirstOf
<1>4. S # {} /\ desc = Pages[Min(S)]
  BY <1>1, <1>3
<1>5. Min(S) \in S
  BY <1>0, <1>4, FirstThere
<1>6. PICK p \in DOMAIN Pages : desc = Pages[p]
  BY <1>4, <1>5
<1>7. IdByValue(desc, GetId(usage)) = IF D = {} THEN {} ELSE {desc.ids[Min(D)]}
  BY DEF IdByValue, FirstOf
<1>8. D # {} /\ d = desc.ids[Min(D)]
  BY <1>2, <1>7
<1>9. IsText(desc.ids)
  BY <1>0, <1>6
<1>10. Min(D) \in D
  BY <1>8, <1>9, FirstThere
<1>11. PICK i \in DOMAIN desc.ids : d = desc.ids[i]
  BY <1>8, <1>10
<1>12. IsText(desc.token) /\ IsText(d.token)
  BY <1>0, <1>6, <1>11
<1>13. IsText(t)
  BY <1>2, <1>12, ConcatText
<1> QED
  BY <1>2, <1>6, <1>11, <1>13 DEF UsageToken

LEMMA UsageTextIs ==
  ASSUME NEW usage \in 0 .. AllOnes
  PROVE  \A t \in {UsageToText(usage), UsageToIdText(usage)} :
            IsText(t) /\ (HexText(t, 4 * DigitsPerByte) \/ UsageToken(t))
<1>0. Bytes["u16"] = 2 /\ Bytes["u32"] = 4 /\ DigitsPerByte \in {1, 2}
  BY Widths DEF Bytes
<1>1. CASE UsageToToken(usage) = {}
  <2> DEFINE w == ToRepr("u32", usage, "hex")
             i == ToRepr("u16", GetId(usage), "hex")
  <2>1. UsageToText(usage) = w /\ UsageToIdText(usage) = i
    BY <1>1 DEF UsageToText, UsageToIdText, ToAlt
  <2>2. IsText(w) /\ HexText(w, 4 * DigitsPerByte)
    BY <1>0, HalvesOf, HexTextWritten
  <2>3. GetId(usage) \in Nat /\ GetId(usage) <= Most("u16")
    BY HalvesOf, LimitsAre
  <2>4. IsText(i) /\ HexText(i, 2 * DigitsPerByte)
    BY <1>0, <2>3, HexTextWritten
  <2> HIDE DEF w, i
  <2>5. Len(i) \in 1 .. 4 * DigitsPerByte
    BY <1>0, <2>4 DEF HexText
  <2>6. HexText(i, 4 * DigitsPerByte)
    BY <2>4, <2>5 DEF HexText
  <2> QED
    BY <2>1, <2>2, <2>4, <2>6
<1>2. CASE UsageToToken(usage) # {}
  <2>1. UsageToText(usage) \in UsageToToken(usage) /\ UsageToIdText(usage) \in UsageToToken(usage)
    BY <1>2 DEF UsageToText, UsageToIdText, ToAlt
  <2> QED
    BY <2>1, UsageTokenIs
<1> QED
  BY <1>1, <1>2

LEMMA UsageFits ==
  ASSUME NEW name \in UsageNames, NEW usage \in 0 .. AllOnes, NEW page \in 0 .. Most("u16")
  PROVE  Fits(WriteUsage(name, usage, page))
<1> DEFINE r == Resolved(usage, page)
           t == IF GetPage(r) = page THEN UsageToIdText(r) ELSE UsageToText(r)
           e == WithText(name, t)
<1>1. r \in 0 .. AllOnes
  BY HalvesOf DEF Resolved
<1>2. WriteUsage(name, usage, page) = e
  BY DEF WriteUsage
<1> HIDE DEF r
<1>3. IsText(t) /\ (HexText(t, 4 * DigitsPerByte) \/ UsageToken(t))
  BY <1>1, UsageTextIs
<1> HIDE DEF t
<1>4. IsElement(e) /\ e.name = name /\ e.text = t /\ OnlyText(e)
  BY <1>3, TextElement
<1> HIDE DEF e
<1>5. UsageAllowed(e)
  BY <1>3, <1>4 DEF UsageAllowed, UsageToken
<1>6. e.name \notin DOMAIN NumType /\ e.name \in UsageNames
  BY <1>4, NamesApart
<1>7. e.name \notin Single
  BY <1>6, NamesApart
<1>8. SchemaAllows(e) /\ e.name # "pop"
  BY <1>5, <1>6, <1>7 DEF SchemaAllows, Single
<1> QED
  BY <1>2, <1>4, <1>8 DEF Fits

(* The name of a bit tells which one it is.                                 *)
LEMMA NumbersApart ==
  ASSUME NEW i \in 1 .. 32, NEW j \in 1 .. 32, BitNumbers[i] = BitNumbers[j]
  PROVE  i = j
  BY SMTT(60) DEF BitNumbers
LEMMA BitNamesApart ==
  ASSUME NEW i \in 1 .. 9, NEW j \in 1 .. 9, NEW a \in 1 .. 2, NEW c \in 1 .. 2,
         BitNames[i][a] = BitNames[j][c]
  PROVE  i = j
  BY SMTT(60) DEF BitNames
LEMMA NameNotNumber ==
  ASSUME NEW i \in 1 .. 9, NEW j \in 1 .. 32, NEW a \in 1 .. 2
  PROVE  BitNames[i][a] # BitNumbers[j]
  BY SMTT(60) DEF BitNames, BitNumbers

LEMMA BitsBelow == Bits \subseteq 0 .. 31 /\ Bits \subseteq Nat /\ LastBit \in Nat /\ Bits = 0 .. LastBit
  BY Widths DEF Bits, LastBit

BitName(name, i) == IF BitNamed(name, i) THEN BitNames[i + 1][2] ELSE BitNumbers[i + 1]
LEMMA BitNameTells ==
  ASSUME NEW name, NEW i \in Bits, NEW k \in Bits
  PROVE  BitName(name, i) \in BitNamesOf(name)[k] <=> i = k
<1>1. i \in 0 .. 31 /\ k \in 0 .. 31 /\ i + 1 \in 1 .. 32 /\ k + 1 \in 1 .. 32
  BY BitsBelow
<1>2. BitNamesOf(name)[k] = OffName(name, k) \cup OnName(name, k) \cup {BitNumbers[k + 1]}
  BY DEF BitNamesOf
<1> DEFINE n == BitName(name, i)
<1>3. CASE BitNamed(name, i)
  <2>1. n = BitNames[i + 1][2] /\ i + 1 \in 1 .. 9
    BY <1>1, <1>3 DEF BitName, BitNamed
  <2> HIDE DEF n
  <2>2. n # BitNumbers[k + 1]
    BY <1>1, <2>1, NameNotNumber
  <2>3. ASSUME n \in OffName(name, k) \cup OnName(name, k)
        PROVE  i = k
    <3>1. BitNamed(name, k) /\ (n = BitNames[k + 1][1] \/ n = BitNames[k + 1][2])
      BY <2>3 DEF OffName, OnName
    <3>2. k + 1 \in 1 .. 9
      BY <1>1, <3>1 DEF BitNamed
    <3>3. i + 1 = k + 1
      BY <2>1, <3>1, <3>2, BitNamesApart
    <3> QED
      BY <1>1, <3>3
  <2>4. i = k => n \in OnName(name, k)
    BY <1>3, <2>1 DEF OnName
  <2> QED
    BY <1>2, <2>2, <2>3, <2>4 DEF n
<1>4. CASE ~BitNamed(name, i)
  <2>1. n = BitNumbers[i + 1]
    BY <1>4 DEF BitName
  <2> HIDE DEF n
  <2>2. n \notin OffName(name, k) \cup OnName(name, k)
    <3>1. SUFFICES ASSUME n \in OffName(name, k) \cup OnName(name, k) PROVE FALSE
      OBVIOUS
    <3>2. BitNamed(name, k) /\ (n = BitNames[k + 1][1] \/ n = BitNames[k + 1][2])
      BY <3>1 DEF OffName, OnName
    <3>3. k + 1 \in 1 .. 9
      BY <1>1, <3>2 DEF BitNamed
    <3> QED
      BY <1>1, <2>1, <3>2, <3>3, NameNotNumber
  <2>3. n = BitNumbers[k + 1] => i = k
    <3>1. n = BitNumbers[k + 1] => i + 1 = k + 1
      BY <1>1, <2>1, NumbersApart
    <3> QED
      BY <1>1, <3>1
  <2>4. i = k => n = BitNumbers[k + 1]
    BY <2>1
  <2> QED
    BY <1>2, <2>2, <2>3, <2>4 DEF n
<1> QED
  BY <1>3, <1>4

(* The elements of a sequence, each of which has nothing in it but text.    *)
LEMMA KidsElement ==
  ASSUME NEW name, NEW attr, \A a \in DOMAIN attr : IsText(attr[a]), NEW n \in Nat, NEW kids, DOMAIN kids = 1 .. n,
         kids = [k \in 1 .. n |-> kids[k]],
         \A k \in 1 .. n : IsElement(kids[k]) /\ OnlyText(kids[k]),
         NEW e, e = Node(name, attr, <<>>, kids)
  PROVE  /\ IsElement(e) /\ e.name = name /\ e.attr = attr /\ e.text = <<>> /\ e.kids = kids
         /\ IsText(kids)
<1>1. e.name = name /\ e.attr = attr /\ e.text = <<>> /\ e.kids = kids
  BY DEF Node
<1>2. IsText(kids)
  <2> DEFINE S == {kids[k] : k \in 1 .. n}
  <2>1. kids \in [1 .. n -> S]
    OBVIOUS
  <2> HIDE DEF S
  <2>2. kids \in Seq(S)
    BY <2>1
  <2> QED
    BY <2>2, SeqIsText
<1>3. \A k \in 1 .. n : IsNode(kids[k]) /\ DOMAIN kids[k].kids = {}
  BY ShortTexts DEF IsElement, OnlyText
<1>4. IsText(<<>>)
  BY ShortTexts
<1> QED
  BY <1>1, <1>2, <1>3, <1>4 DEF IsElement, IsNode

LEMMA RisingBits ==
  LET numbers == [i \in 1 .. LastBit + 1 |-> i - 1]
  IN  IsText(numbers) /\ Rising(numbers) /\ ToSet(numbers) \subseteq Bits
<1> DEFINE numbers == [i \in 1 .. LastBit + 1 |-> i - 1]
<1>1. LastBit + 1 \in Nat /\ Bits = 0 .. LastBit /\ LastBit \in Nat
  BY BitsBelow
<1>2. numbers \in [1 .. LastBit + 1 -> Bits]
  BY <1>1
<1>3. numbers \in Seq(Bits)
  BY <1>1, <1>2
<1>4. IsText(numbers)
  BY <1>3, SeqIsText
<1>5. Rising(numbers)
  BY <1>1 DEF Rising
<1>6. ToSet(numbers) \subseteq Bits
  BY <1>2 DEF ToSet
<1> QED
  BY <1>4, <1>5, <1>6

LEMMA BitmapFits ==
  ASSUME NEW name \in {"input", "output", "feature"}, NEW bitmap
  PROVE  Fits(WriteBitmap(name, bitmap))
<1> DEFINE numbers == [i \in 1 .. LastBit + 1 |-> i - 1]
           S == {i \in Bits : GetBit(bitmap, i)}
           on == Among(numbers, S)
           kids == [k \in DOMAIN on |-> BitElement(name, on[k])]
           e == Node(name, NoAttr, <<>>, kids)
<1>1. WriteBitmap(name, bitmap) = e
  BY DEF WriteBitmap
<1>2. IsText(numbers) /\ Rising(numbers) /\ ToSet(numbers) \subseteq Bits
  BY RisingBits
<1> HIDE DEF numbers, S
<1>3. IsText(on) /\ Rising(on) /\ \A i \in DOMAIN on : on[i] \in Bits
  BY <1>2, AmongIs
<1> HIDE DEF on
<1>4. PICK n \in Nat : DOMAIN on = 1 .. n
  BY <1>3 DEF IsText
<1>5. /\ DOMAIN kids = 1 .. n /\ kids = [k \in 1 .. n |-> kids[k]]
      /\ \A k \in 1 .. n : kids[k] = Empty(BitName(name, on[k]))
  BY <1>4 DEF BitElement, BitName
<1> HIDE DEF kids
<1>6. \A k \in 1 .. n : /\ IsElement(kids[k]) /\ kids[k].name = BitName(name, on[k])
                        /\ kids[k].text = <<>> /\ OnlyText(kids[k])
  BY <1>5, EmptyElement DEF EmptyType, OnlyText, Bare
<1>7. DOMAIN NoAttr = {}
  BY DEF NoAttr
<1>8. /\ IsElement(e) /\ e.name = name /\ e.attr = NoAttr /\ e.text = <<>> /\ e.kids = kids
  BY <1>5, <1>6, <1>7, KidsElement
<1> HIDE DEF e
<1> DEFINE names == BitNamesOf(name)
<1>9. DOMAIN names = Bits
  BY DEF BitNamesOf
<1>10. \A k \in 1 .. n : on[k] \in Bits /\ \A i \in Bits : kids[k].name \in names[i] <=> on[k] = i
  <2>1. \A k \in 1 .. n : on[k] \in Bits /\ kids[k].name = BitName(name, on[k])
    BY <1>3, <1>4, <1>6
  <2> QED
    BY <2>1, BitNameTells
<1> HIDE DEF names
<1>11. Sequence(kids, names, BoolText)
  <2>1. \A k \in DOMAIN kids : /\ \E i \in DOMAIN names : kids[k].name \in names[i]
                               /\ OnlyText(kids[k]) /\ kids[k].text = <<>>
    BY <1>5, <1>6, <1>9, <1>10
  <2>2. \A j, k \in DOMAIN kids : j < k =>
           \A i, i2 \in DOMAIN names : kids[j].name \in names[i] /\ kids[k].name \in names[i2] => i < i2
    <3>1. \A j, k \in 1 .. n : j < k => on[j] < on[k]
      BY <1>3, <1>4 DEF Rising
    <3> QED
      BY <1>5, <1>9, <1>10, <3>1
  <2> QED
    BY <2>1, <2>2 DEF Sequence
<1>12. BitmapAllowed(e)
  BY <1>7, <1>8, <1>11 DEF BitmapAllowed, names
<1>13. e.name \notin DOMAIN NumType /\ e.name \notin UsageNames
  BY <1>8, NamesApart DEF Single
<1>14. SchemaAllows(e)
  BY <1>8, <1>12, <1>13 DEF SchemaAllows
<1>15. e.name # "pop"
  BY <1>8
<1> QED
  BY <1>1, <1>8, <1>14, <1>15 DEF Fits

(* No two quantities of a system share a name.                              *)
Apart(s, n) == \A i, j \in 1 .. n : s[i] = s[j] => i = j
LEMMA QuantitiesApart ==
  ASSUME NEW system \in Nat
  PROVE  Apart(NamesOf(system), Nibbles - 2)
<1> DEFINE all == CASE system = 1 -> <<"centimeter", "gram", "seconds", "kelvin", "ampere", "candela">>
             [] system = 2 -> <<"radians", "gram", "seconds", "kelvin", "ampere", "candela">>
             [] system = 3 -> <<"inch", "slug", "seconds", "fahrenheit", "ampere", "candela">>
             [] system = 4 -> <<"degrees", "slug", "seconds", "fahrenheit", "ampere", "candela">>
             [] ~SystemKnown(system) ->
                    <<"length", "mass", "time", "temperature", "current", "luminous_intensity">>
           m == Nibbles - 2
<1>1. all \in Seq(ToSet(all)) /\ Len(all) = 6 /\ Apart(all, 6)
  <2> DEFINE Six(s) == IsText(s) /\ Len(s) = 6 /\ Apart(s, 6)
  <2>10. Six(<<"centimeter", "gram", "seconds", "kelvin", "ampere", "candela">>)
    <3> DEFINE s == <<"centimeter", "gram", "seconds", "kelvin", "ampere", "candela">>
    <3>1. s \in Seq({"centimeter", "gram", "seconds", "kelvin", "ampere", "candela"}) /\ Len(s) = 6
      OBVIOUS
    <3>2. Apart(s, 6)
      BY DEF Apart
    <3> QED
      BY <3>1, <3>2, SeqIsText
  <2>11. Six(<<"radians", "gram", "seconds", "kelvin", "ampere", "candela">>)
    <3> DEFINE s == <<"radians", "gram", "seconds", "kelvin", "ampere", "candela">>
    <3>1. s \in Seq({"radians", "gram", "seconds", "kelvin", "ampere", "candela"}) /\ Len(s) = 6
      OBVIOUS
    <3>2. Apart(s, 6)
      BY DEF Apart
    <3> QED
      BY <3>1, <3>2, SeqIsText
  <2>12. Six(<<"inch", "slug", "seconds", "fahrenheit", "ampere", "candela">>)
    <3> DEFINE s == <<"inch", "slug", "seconds", "fahrenheit", "ampere", "candela">>
    <3>1. s \in Seq({"inch", "slug", "seconds", "fahrenheit", "ampere", "candela"}) /\ Len(s) = 6
      OBVIOUS
    <3>2. Apart(s, 6)
      BY DEF Apart
    <3> QED
      BY <3>1, <3>2, SeqIsText
  <2>13. Six(<<"degrees", "slug", "seconds", "fahrenheit", "ampere", "candela">>)
    <3> DEFINE s == <<"degrees", "slug", "seconds", "fahrenheit", "ampere", "candela">>
    <3>1. s \in Seq({"degrees", "slug", "seconds", "fahrenheit", "ampere", "candela"}) /\ Len(s) = 6
      OBVIOUS
    <3>2. Apart(s, 6)
      BY DEF Apart
    <3> QED
      BY <3>1, <3>2, SeqIsText
  <2>14. Six(<<"length", "mass", "time", "temperature", "current", "luminous_intensity">>)
    <3> DEFINE s == <<"length", "mass", "time", "temperature", "current", "luminous_intensity">>
    <3>1. s \in Seq({"length", "mass", "time", "temperature", "current", "luminous_intensity"}) /\ Len(s) = 6
      OBVIOUS
    <3>2. Apart(s, 6)
      BY DEF Apart
    <3> QED
      BY <3>1, <3>2, SeqIsText
  <2> HIDE DEF Six
  <2>2. system \in 1 .. 4 \/ ~SystemKnown(system)
    BY DEF SystemKnown
  <2>3. Six(all)
    BY <2>10, <2>11, <2>12, <2>13, <2>14, <2>2 DEF SystemKnown
  <2> QED
    BY <2>3 DEF Six, IsText
<1>2. m \in {2, 6}
  BY Widths DEF Nibbles
<1>3. NamesOf(system) = SubSeq(all, 1, m)
  BY DEF NamesOf
<1> HIDE DEF all, m
<1>4. \A i \in 1 .. m : NamesOf(system)[i] = all[i]
  BY <1>1, <1>2, <1>3
<1>5. 1 .. m \subseteq 1 .. 6
  BY <1>2
<1> QED
  BY <1>1, <1>4, <1>5 DEF Apart, m

LEMMA NibbleIs ==
  ASSUME NEW unit \in Nat, NEW i \in 0 .. 7
  PROVE  GetNibble(unit, i) \in 0 .. 15
<1> DEFINE Pow(k) == 16 ^ k
<1>1. /\ Pow(0) = 1 /\ Pow(1) = 16 /\ Pow(2) = 256 /\ Pow(3) = 4096 /\ Pow(4) = 65536
      /\ Pow(5) = 1048576 /\ Pow(6) = 16777216 /\ Pow(7) = 268435456
  OBVIOUS
<1> HIDE DEF Pow
<1>2. i = 0 \/ i = 1 \/ i = 2 \/ i = 3 \/ i = 4 \/ i = 5 \/ i = 6 \/ i = 7
  OBVIOUS
<1>3. Pow(i) \in Nat /\ Pow(i) > 0
  BY <1>1, <1>2
<1> DEFINE p == Pow(i)
<1>30. p \in Nat /\ p > 0
  BY <1>3
<1> HIDE DEF p
<1> DEFINE d == unit \div p
<1>4. d \in Nat
  BY <1>30
<1> HIDE DEF d
<1>5. d % 16 \in 0 .. 15
  BY <1>4
<1> QED
  BY <1>5 DEF GetNibble, d, p, Pow

LEMMA ExponentWritten ==
  ASSUME NEW x \in 0 .. 15
  PROVE  IsText(ExpToDec(x)) /\ IntText(ExpToDec(x), -8, 7)
<1> DEFINE n == ExpToInt(x)
<1>1. n \in Int /\ -8 <= n /\ n <= 7 /\ -8 \in Int /\ 7 \in Int
  BY DEF ExpToInt
<1> HIDE DEF n
<1>2. IsText(SignedFigures(n)) /\ IntText(SignedFigures(n), -8, 7) /\ ToRepr("s32", n, "dec") = SignedFigures(n)
  BY <1>1, NumberWritten, ReprsWritten
<1> QED
  BY <1>2 DEF ExpToDec, n

LEMMA RisingQuantities ==
  LET all == [q \in Quantities |-> q]
  IN  IsText(all) /\ Rising(all) /\ ToSet(all) \subseteq Quantities
<1> DEFINE all == [q \in Quantities |-> q]
<1>1. Quantities = 1 .. Nibbles - 2 /\ Nibbles - 2 \in Nat
  BY Widths DEF Nibbles, Quantities
<1>2. all \in [1 .. Nibbles - 2 -> Quantities]
  BY <1>1
<1>3. all \in Seq(Quantities)
  BY <1>1, <1>2
<1>4. IsText(all)
  BY <1>3, SeqIsText
<1>5. Rising(all)
  BY <1>1 DEF Rising
<1>6. ToSet(all) \subseteq Quantities
  BY DEF ToSet
<1> QED
  BY <1>4, <1>5, <1>6

(* The exponents of a unit.                                                 *)
LEMMA ExpsAllowed ==
  ASSUME NEW name, NEW attr, \A a \in DOMAIN attr : IsText(attr[a]), NEW system \in Nat, NEW unit \in Nat,
         NEW e, e = WriteExps(name, attr, system, unit)
  PROVE  IsElement(e) /\ e.name = name /\ e.attr = attr /\ Exponents(e, system)
<1> DEFINE all == [q \in Quantities |-> q]
           S == {q \in Quantities : GetNibble(unit, q) # 0}
           used == Among(all, S)
           Exp(q) == GetNibble(unit, q)
           Text(q) == IF Exp(q) = 1 THEN <<>> ELSE ExpToDec(Exp(q))
           kids == [k \in DOMAIN used |-> WithText(NamesOf(system)[used[k]], Text(used[k]))]
<1>1. e = Node(name, attr, <<>>, kids)
  BY DEF WriteExps
<1>2. IsText(all) /\ Rising(all) /\ ToSet(all) \subseteq Quantities
  BY RisingQuantities
<1>3. \A q \in Quantities : IsText(Text(q)) /\ (Text(q) = <<>> \/ IntText(Text(q), -8, 7))
  <2>1. SUFFICES ASSUME NEW q \in Quantities
                 PROVE  IsText(Text(q)) /\ (Text(q) = <<>> \/ IntText(Text(q), -8, 7))
    OBVIOUS
  <2>2. q \in 0 .. 7
    BY Widths DEF Quantities, Nibbles
  <2>3. Exp(q) \in 0 .. 15
    BY <2>2, NibbleIs
  <2>4. IsText(ExpToDec(Exp(q))) /\ IntText(ExpToDec(Exp(q)), -8, 7)
    BY <2>3, ExponentWritten
  <2> QED
    BY <2>4, ShortTexts
<1> HIDE DEF all, S, Text
<1>4. IsText(used) /\ Rising(used) /\ \A i \in DOMAIN used : used[i] \in Quantities
  BY <1>2, AmongIs
<1> HIDE DEF used
<1>5. PICK n \in Nat : DOMAIN used = 1 .. n
  BY <1>4 DEF IsText
<1>6. /\ DOMAIN kids = 1 .. n /\ kids = [k \in 1 .. n |-> kids[k]]
      /\ \A k \in 1 .. n : kids[k] = WithText(NamesOf(system)[used[k]], Text(used[k]))
  BY <1>5
<1> HIDE DEF kids
<1>7. \A k \in 1 .. n : used[k] \in Quantities
  BY <1>4, <1>5
<1>8. \A k \in 1 .. n : /\ IsElement(kids[k]) /\ kids[k].name = NamesOf(system)[used[k]] /\ OnlyText(kids[k])
                        /\ kids[k].text = <<>> \/ IntText(kids[k].text, -8, 7)
  <2>1. SUFFICES ASSUME NEW k \in 1 .. n
                 PROVE  /\ IsElement(kids[k]) /\ kids[k].name = NamesOf(system)[used[k]] /\ OnlyText(kids[k])
                        /\ kids[k].text = <<>> \/ IntText(kids[k].text, -8, 7)
    OBVIOUS
  <2>2. IsText(Text(used[k])) /\ (Text(used[k]) = <<>> \/ IntText(Text(used[k]), -8, 7))
    BY <1>3, <1>7
  <2>3. kids[k] = WithText(NamesOf(system)[used[k]], Text(used[k]))
    BY <1>6
  <2>4. IsElement(kids[k]) /\ kids[k].name = NamesOf(system)[used[k]] /\ kids[k].text = Text(used[k]) /\ OnlyText(kids[k])
    BY <2>2, <2>3, TextElement
  <2> QED
    BY <2>2, <2>4
<1>9. IsElement(e) /\ e.name = name /\ e.attr = attr /\ e.text = <<>> /\ e.kids = kids
  BY <1>1, <1>6, <1>8, KidsElement
<1> DEFINE m == Nibbles - 2
           names == [i \in 0 .. Len(NamesOf(system)) - 1 |-> {NamesOf(system)[i + 1]}]
<1>10. Len(NamesOf(system)) = m /\ m \in {2, 6} /\ Quantities = 1 .. m /\ Apart(NamesOf(system), m)
  BY NamesAre, QuantitiesApart DEF Quantities
<1> HIDE DEF m
<1>11. DOMAIN names = 0 .. m - 1
  BY <1>10
<1>12. \A k \in 1 .. n : \A i \in 0 .. m - 1 : kids[k].name \in names[i] <=> used[k] = i + 1
  <2>1. SUFFICES ASSUME NEW k \in 1 .. n, NEW i \in 0 .. m - 1
                 PROVE  kids[k].name \in names[i] <=> used[k] = i + 1
    OBVIOUS
  <2>2. used[k] \in 1 .. m /\ i + 1 \in 1 .. m
    BY <1>7, <1>10
  <2>3. NamesOf(system)[used[k]] = NamesOf(system)[i + 1] <=> used[k] = i + 1
    BY <1>10, <2>2 DEF Apart
  <2>4. names[i] = {NamesOf(system)[i + 1]}
    BY <1>10
  <2> QED
    BY <1>8, <2>3, <2>4
<1>13. Sequence(kids, names, LAMBDA text : IntText(text, -8, 7))
  <2>1. \A k \in DOMAIN kids : /\ \E i \in DOMAIN names : kids[k].name \in names[i]
                               /\ OnlyText(kids[k]) /\ (kids[k].text = <<>> \/ IntText(kids[k].text, -8, 7))
    <3>1. SUFFICES ASSUME NEW k \in 1 .. n
                   PROVE  \E i \in 0 .. m - 1 : kids[k].name \in names[i]
      BY <1>6, <1>8, <1>11
    <3> HIDE DEF names
    <3>2. used[k] - 1 \in 0 .. m - 1 /\ used[k] = (used[k] - 1) + 1
      BY <1>7, <1>10
    <3>3. kids[k].name \in names[used[k] - 1]
      BY <1>12, <3>2
    <3> QED
      BY <3>2, <3>3
  <2>2. \A j, k \in DOMAIN kids : j < k =>
           \A i, i2 \in DOMAIN names : kids[j].name \in names[i] /\ kids[k].name \in names[i2] => i < i2
    <3>1. \A j, k \in 1 .. n : j < k => used[j] < used[k]
      BY <1>4, <1>5 DEF Rising
    <3> HIDE DEF names
    <3>2. SUFFICES ASSUME NEW j \in 1 .. n, NEW k \in 1 .. n, j < k, NEW i \in 0 .. m - 1, NEW i2 \in 0 .. m - 1,
                          kids[j].name \in names[i], kids[k].name \in names[i2]
                   PROVE  i < i2
      BY <1>6, <1>11
    <3>3. used[j] = i + 1 /\ used[k] = i2 + 1 /\ used[j] < used[k]
      BY <1>12, <3>1, <3>2
    <3> QED
      BY <1>10, <3>3
  <2> HIDE DEF names
  <2> QED
    BY <2>1, <2>2 DEF Sequence
<1> QED
  BY <1>9, <1>13 DEF Exponents

(* A unit, with one child.                                                  *)
LEMMA OneKidElement ==
  ASSUME NEW child, IsElement(child), UnitChildAllowed(child)
  PROVE  Fits(Node("unit", NoAttr, <<>>, <<child>>))
<1> DEFINE e == Node("unit", NoAttr, <<>>, <<child>>)
           kids == <<child>>
<1>1. e.name = "unit" /\ e.attr = NoAttr /\ e.text = <<>> /\ e.kids = kids /\ DOMAIN NoAttr = {}
  BY DEF Node, NoAttr
<1>2. IsText(kids) /\ DOMAIN kids = {1} /\ kids[1] = child /\ Len(kids) = 1
  BY ShortTexts
<1> HIDE DEF e, kids
<1>3. IsText(<<>>)
  BY ShortTexts
<1>4. IsElement(e)
  BY <1>1, <1>2, <1>3 DEF IsElement, IsNode
<1>5. UnitAllowed(e)
  BY <1>1, <1>2 DEF UnitAllowed
<1>6. e.name \notin DOMAIN NumType /\ e.name \notin UsageNames
  BY <1>1, NamesApart DEF Single
<1>7. SchemaAllows(e) /\ e.name # "pop"
  BY <1>1, <1>5, <1>6 DEF SchemaAllows
<1> QED
  BY <1>4, <1>7 DEF Fits, e

LEMMA SystemIs ==
  ASSUME NEW system \in 1 .. 4
  PROVE  /\ NameOf(Systems, system) \in DOMAIN Systems \ {"none", "vendor"}
         /\ NameOf(Systems, system) \notin {"none", "value", "generic"}
         /\ Systems[NameOf(Systems, system)] = system
<1>1. /\ DOMAIN Systems = {"none", "si_linear", "si_rotation", "english_linear", "english_rotation", "vendor"}
      /\ Systems["none"] = 0 /\ Systems["si_linear"] = 1 /\ Systems["si_rotation"] = 2
      /\ Systems["english_linear"] = 3 /\ Systems["english_rotation"] = 4 /\ Systems["vendor"] = 15
  BY DEF Systems
<1>2. system = 1 \/ system = 2 \/ system = 3 \/ system = 4
  OBVIOUS
<1>3. \E name \in DOMAIN Systems : Systems[name] = system
  BY <1>1, <1>2
<1>4. NameOf(Systems, system) \in DOMAIN Systems /\ Systems[NameOf(Systems, system)] = system
  BY <1>3 DEF NameOf
<1> QED
  BY <1>1, <1>4

LEMMA UnitFits ==
  ASSUME NEW b, IsItem(b)
  PROVE  Fits(WriteUnit(b))
<1> DEFINE unit == GetUnsigned(b)
           system == SystemOf(unit)
           child ==
            IF unit = 0 THEN Empty("none")
            ELSE IF UnitVoid(unit) \/ ~UnitKnown(unit)
                 THEN WithText("value", HexBufToStr(ShortData(b)))
            ELSE IF SystemKnown(system)
                 THEN WriteExps(NameOf(Systems, system), NoAttr, system, unit)
            ELSE WriteExps("generic", [system |-> TokenOrDec(Systems, system)], 0, unit)
<1>1. WriteUnit(b) = Node("unit", NoAttr, <<>>, <<child>>)
  BY DEF WriteUnit
<1>2. unit \in Nat
  BY NumberOf, LimitsAre
<1> HIDE DEF unit
<1>3. system \in 0 .. 15 /\ system \in Nat
  BY <1>2, NibbleIs DEF SystemOf
<1> HIDE DEF system
<1>4. IsElement(child) /\ UnitChildAllowed(child)
  <2>1. CASE unit = 0
    <3>1. child = Empty("none")
      BY <2>1
    <3> HIDE DEF child
    <3> QED
      BY <3>1, EmptyElement DEF UnitChildAllowed
  <2>2. CASE unit # 0 /\ (UnitVoid(unit) \/ ~UnitKnown(unit))
    <3>1. child = WithText("value", HexBufToStr(ShortData(b)))
      BY <2>2
    <3> HIDE DEF child
    <3>2. IsElement(child) /\ child.name = "value" /\ child.text = HexBufToStr(ShortData(b)) /\ OnlyText(child)
      BY <3>1, DataWritten, TextElement
    <3> QED
      BY <3>2, DataWritten DEF UnitChildAllowed, Systems
  <2>3. CASE unit # 0 /\ ~(UnitVoid(unit) \/ ~UnitKnown(unit)) /\ SystemKnown(system)
    <3> DEFINE name == NameOf(Systems, system)
    <3>1. child = WriteExps(name, NoAttr, system, unit)
      BY <2>3
    <3> HIDE DEF child
    <3>2. DOMAIN NoAttr = {}
      BY DEF NoAttr
    <3>3. IsElement(child) /\ child.name = name /\ child.attr = NoAttr /\ Exponents(child, system)
      BY <1>2, <1>3, <3>1, <3>2, ExpsAllowed
    <3>4. system \in 1 .. 4
      BY <1>3, <2>3 DEF SystemKnown
    <3>5. name \in DOMAIN Systems \ {"none", "vendor"} /\ name \notin {"none", "value", "generic"} /\ Systems[name] = system
      BY <3>4, SystemIs
    <3> HIDE DEF name
    <3> QED
      BY <3>2, <3>3, <3>5 DEF UnitChildAllowed
  <2>4. CASE unit # 0 /\ ~(UnitVoid(unit) \/ ~UnitKnown(unit)) /\ ~SystemKnown(system)
    <3> DEFINE t == TokenOrDec(Systems, system)
               attr == [system |-> t]
    <3>1. child = WriteExps("generic", attr, 0, unit)
      BY <2>4
    <3> HIDE DEF child
    <3>2. IsText(t) /\ (WordText(t, DOMAIN Systems) \/ IntText(t, 0, 15))
      <4>1. CASE \E name \in DOMAIN Systems : Systems[name] = system /\ t = <<name>>
        BY <1>3, <4>1, TokenOrDecIs DEF WordText
      <4>2. CASE t = SignedFigures(system)
        BY <1>3, <4>2, NumberWritten
      <4> QED
        BY <1>3, <4>1, <4>2, TokenOrDecIs
    <3> HIDE DEF t
    <3>3. DOMAIN attr = {"system"} /\ attr.system = t
      OBVIOUS
    <3>4. \A a \in DOMAIN attr : IsText(attr[a])
      BY <3>2, <3>3
    <3> HIDE DEF attr
    <3>5. IsElement(child) /\ child.name = "generic" /\ child.attr = attr /\ Exponents(child, 0)
      BY <1>2, <3>1, <3>4, ExpsAllowed
    <3> QED
      BY <3>2, <3>3, <3>5 DEF UnitChildAllowed, Systems
  <2> HIDE DEF child
  <2> QED
    BY <2>1, <2>2, <2>3, <2>4
<1> HIDE DEF child
<1> QED
  BY <1>1, <1>4, OneKidElement

------------------------------------------------------------------------------
(* All of them, by the class and the tag of the item.                       *)

LEMMA NameIs ==
  ASSUME NEW table, NEW tag, Known(table, tag)
  PROVE  NameOf(table, tag) \in DOMAIN table /\ table[NameOf(table, tag)] = tag
  BY DEF Known, NameOf

LEMMA MainFits ==
  ASSUME NEW b, IsItem(b), ~IsLong(b), PfxType(b[1]) = Main
  PROVE  Fits(WriteMain(b))
<1> DEFINE tag == PfxTag(b[1])
           n == GetUnsigned(b)
<1>1. n \in Nat
  BY NumberOf, LimitsAre
<1>2. tag # TagOfMain.end_collection /\ (tag = TagOfMain.collection => n <= Most("u8"))
  BY DEF IsItem
<1>3. tag # 15
  BY DEF IsLong, LongTag
<1>4. WriteMain(b) =
          CASE tag = TagOfMain.collection ->
                Node("COLLECTION", [type |-> TokenOrDec(CollectionTypes, n)], <<>>, <<>>)
          [] tag \in {TagOfMain.input, TagOfMain.output, TagOfMain.feature} ->
                WriteBitmap(NameOf(TagOfMain, tag), n)
          [] ~Known(TagOfMain, tag) -> WriteReserved("main", TagOfMain, b)
  BY DEF WriteMain
<1>5. /\ DOMAIN TagOfMain = {"input", "output", "collection", "feature", "end_collection"}
      /\ TagOfMain["input"] = 8 /\ TagOfMain["output"] = 9 /\ TagOfMain["collection"] = 10
      /\ TagOfMain["feature"] = 11 /\ TagOfMain["end_collection"] = 12
  BY DEF TagOfMain
<1>6. Known(TagOfMain, tag) <=> tag \in {8, 9, 10, 11, 12}
  BY <1>5 DEF Known
<1>7. ~Known(TagOfMain, tag) => Fits(WriteReserved("main", TagOfMain, b))
  BY ReservedFits
<1> HIDE DEF tag, n
<1>8. CASE tag = 10
  BY <1>1, <1>2, <1>4, <1>5, <1>6, <1>8, CollectionFits
<1>9. CASE tag \in {8, 9, 11}
  <2>1. NameOf(TagOfMain, tag) \in {"input", "output", "feature"}
    BY <1>5, <1>6, <1>9, NameIs
  <2>2. WriteMain(b) = WriteBitmap(NameOf(TagOfMain, tag), n)
    BY <1>4, <1>5, <1>6, <1>9
  <2> QED
    BY <2>1, <2>2, BitmapFits
<1>10. CASE tag \notin {8, 9, 10, 11, 12}
  <2>1. WriteMain(b) = WriteReserved("main", TagOfMain, b)
    BY <1>4, <1>5, <1>6, <1>10
  <2> QED
    BY <1>6, <1>7, <1>10, <2>1
<1> QED
  BY <1>2, <1>5, <1>8, <1>9, <1>10

LEMMA GlobalFits ==
  ASSUME NEW b, IsItem(b), ~IsLong(b), PfxType(b[1]) = Global
  PROVE  Fits(WriteGlobal(b))
<1> DEFINE tag == PfxTag(b[1])
           n == GetUnsigned(b)
           name == NameOf(TagOfGlobal, tag)
<1>1. tag # TagOfGlobal.pop
  BY DEF IsItem, Types, Main, Global
<1>2. GlobalValid(b)
  BY DEF IsItem, ItemValid, Main, Global, Local, Types
<1>3. n \in Nat /\ (tag = TagOfGlobal.usage_page => n <= Most("u16"))
      /\ (tag = TagOfGlobal.report_id => ReportIdValid(n))
  BY <1>2, NumberOf, LimitsAre DEF GlobalValid, UsagePageValid
<1>4. WriteGlobal(b) =
       IF ~Known(TagOfGlobal, tag) THEN WriteReserved("global", TagOfGlobal, b)
        ELSE CASE name \in DOMAIN NumType -> WriteNumber(name, b)
               [] name = "unit" -> WriteUnit(b)
               [] name = "usage_page" -> WithText(name, PageToText(n))
               [] name = "push" -> Empty("PUSH")
  BY DEF WriteGlobal
<1>5. ~Known(TagOfGlobal, tag) => Fits(WriteReserved("global", TagOfGlobal, b))
  BY ReservedFits
<1>6. \A m \in DOMAIN NumType : (m = "report_id" => ReportIdValid(n)) => Fits(WriteNumber(m, b))
  BY NumberFits
<1>7. Fits(WriteUnit(b))
  BY UnitFits
<1> HIDE DEF tag, n
<1>8. Known(TagOfGlobal, tag) => name \in DOMAIN TagOfGlobal /\ TagOfGlobal[name] = tag
  BY NameIs
<1> HIDE DEF name
<1>9. \A m \in DOMAIN TagOfGlobal \ {"pop"} : m \in DOMAIN NumType \/ m \in {"unit", "usage_page", "push"}
  BY DEF TagOfGlobal, NumType, SignedNames, UnsignedNames
<1>10. \A m \in {"unit", "usage_page", "push"} : m \notin DOMAIN NumType
  BY NamesApart DEF Single
<1>11. CASE ~Known(TagOfGlobal, tag)
  BY <1>4, <1>5, <1>11
<1>12. CASE Known(TagOfGlobal, tag) /\ name \in DOMAIN NumType
  <2>1. name \notin {"unit", "usage_page", "push"}
    BY <1>10, <1>12
  <2>2. WriteGlobal(b) = WriteNumber(name, b)
    BY <1>4, <1>12, <2>1
  <2> QED
    BY <1>3, <1>6, <1>8, <1>12, <2>2
<1>13. CASE Known(TagOfGlobal, tag) /\ name = "unit"
  BY <1>4, <1>7, <1>10, <1>13
<1>14. CASE Known(TagOfGlobal, tag) /\ name = "usage_page"
  <2>1. WriteGlobal(b) = WithText("usage_page", PageToText(n))
    BY <1>4, <1>10, <1>14
  <2>2. n \in 0 .. Most("u16")
    BY <1>3, <1>8, <1>14, LimitsAre
  <2> QED
    BY <2>1, <2>2, PageFits
<1>15. CASE Known(TagOfGlobal, tag) /\ name = "push"
  <2>1. WriteGlobal(b) = Empty("PUSH")
    BY <1>4, <1>10, <1>15
  <2> QED
    BY <2>1, EmptyFits
<1>16. Known(TagOfGlobal, tag) => name # "pop"
  BY <1>1, <1>8
<1> QED
  BY <1>8, <1>9, <1>11, <1>12, <1>13, <1>14, <1>15, <1>16

LEMMA LocalFits ==
  ASSUME NEW b, IsItem(b), ~IsLong(b), PfxType(b[1]) = Local, NEW page \in 0 .. Most("u16")
  PROVE  Fits(WriteLocal(b, page))
<1> DEFINE tag == PfxTag(b[1])
           n == GetUnsigned(b)
           name == NameOf(TagOfLocal, tag)
<1>1. LocalValid(b)
  BY DEF IsItem, ItemValid, Main, Global, Local, Types
<1>2. tag # TagOfLocal.invalid
  BY <1>1 DEF LocalValid, ValidLocalTags
<1>3. n \in 0 .. AllOnes
  BY NumberOf
<1>4. WriteLocal(b, page) =
       IF ~Known(TagOfLocal, tag) THEN WriteReserved("local", TagOfLocal, b)
        ELSE CASE name \in DOMAIN NumType -> WriteNumber(name, b)
               [] name \in UsageNames -> WriteUsage(name, n, page)
               [] name = "delimiter" -> Empty("SET")
  BY DEF WriteLocal
<1>5. ~Known(TagOfLocal, tag) => Fits(WriteReserved("local", TagOfLocal, b))
  BY ReservedFits
<1>6. \A m \in DOMAIN NumType : m # "report_id" => Fits(WriteNumber(m, b))
  BY NumberFits
<1> HIDE DEF tag, n
<1>8. Known(TagOfLocal, tag) => name \in DOMAIN TagOfLocal /\ TagOfLocal[name] = tag
  BY NameIs
<1> HIDE DEF name
<1>9. /\ \A m \in DOMAIN TagOfLocal \ {"invalid"} : m \in DOMAIN NumType \/ m \in UsageNames \/ m = "delimiter"
      /\ "report_id" \notin DOMAIN TagOfLocal
  BY DEF TagOfLocal, NumType, SignedNames, UnsignedNames, UsageNames
<1>10. /\ "delimiter" \notin DOMAIN NumType /\ "delimiter" \notin UsageNames
       /\ \A m \in DOMAIN NumType : m \notin UsageNames
  BY NamesApart DEF Single
<1>11. CASE ~Known(TagOfLocal, tag)
  BY <1>4, <1>5, <1>11
<1>12. CASE Known(TagOfLocal, tag) /\ name \in DOMAIN NumType
  <2>1. name \notin UsageNames /\ name # "delimiter"
    BY <1>10, <1>12
  <2>2. WriteLocal(b, page) = WriteNumber(name, b)
    BY <1>4, <1>12, <2>1
  <2> QED
    BY <1>6, <1>8, <1>9, <1>12, <2>2
<1>13. CASE Known(TagOfLocal, tag) /\ name \in UsageNames
  <2>1. name \notin DOMAIN NumType /\ name # "delimiter"
    BY <1>10, <1>13
  <2>2. WriteLocal(b, page) = WriteUsage(name, n, page)
    BY <1>4, <1>13, <2>1
  <2> QED
    BY <1>3, <1>13, <2>2, UsageFits
<1>14. CASE Known(TagOfLocal, tag) /\ name = "delimiter"
  <2>1. WriteLocal(b, page) = Empty("SET")
    BY <1>4, <1>10, <1>14
  <2> QED
    BY <2>1, EmptyFits
<1>15. Known(TagOfLocal, tag) => name # "invalid"
  BY <1>2, <1>8
<1> QED
  BY <1>8, <1>9, <1>11, <1>12, <1>13, <1>14, <1>15

(* What the sink writes of an item is an element that the schema allows.    *)
LEMMA WrittenFits ==
  ASSUME NEW b, IsItem(b), NEW page \in 0 .. Most("u16")
  PROVE  Fits(Write(b, page))
<1>1. CASE IsLong(b)
  BY <1>1, LongFits
<1>2. CASE ~IsLong(b) /\ PfxType(b[1]) = Main
  <2>1. Write(b, page) = WriteMain(b)
    BY <1>2 DEF Write, Main, Global, Local, Types
  <2> QED
    BY <1>2, <2>1, MainFits
<1>3. CASE ~IsLong(b) /\ PfxType(b[1]) = Global
  <2>1. Write(b, page) = WriteGlobal(b)
    BY <1>3 DEF Write, Main, Global, Local, Types
  <2> QED
    BY <1>3, <2>1, GlobalFits
<1>4. CASE ~IsLong(b) /\ PfxType(b[1]) = Local
  <2>1. Write(b, page) = WriteLocal(b, page)
    BY <1>4 DEF Write, Main, Global, Local, Types
  <2> QED
    BY <1>4, <2>1, LocalFits
<1>5. IsLong(b) \/ PfxType(b[1]) \in {Main, Global, Local}
  BY DEF IsItem, ItemValid
<1> QED
  BY <1>1, <1>2, <1>3, <1>4, <1>5

------------------------------------------------------------------------------
(* The invariant: the buffer keeps its shape, elements are as written or typed.*)

(* The buffer keeps its length, whatever is made in it.                     *)
InBuffer(b) == DOMAIN b = 1 .. BufferSize
LEMMA StoredIn ==
  ASSUME NEW b, InBuffer(b), NEW from, NEW bytes
  PROVE  InBuffer(Stored(b, from, bytes))
  BY DEF InBuffer, Stored
LEMMA ClearedIn ==
  ASSUME NEW b, InBuffer(b), NEW from, NEW n
  PROVE  InBuffer(Cleared(b, from, n))
  BY StoredIn DEF Cleared
LEMMA ChangedIn ==
  ASSUME NEW b, InBuffer(b), NEW type, NEW tag, NEW size
  PROVE  InBuffer(BasicInit(b, type, tag, size)) /\ InBuffer(ShortInit(b, type, tag))
         /\ InBuffer(SetDataSize(b, size)) /\ InBuffer(SetLongDataSize(b, size))
  BY DEF InBuffer, BasicInit, ShortInit, SetDataSize, SetLongDataSize
LEMMA LongInitIn ==
  ASSUME NEW b, InBuffer(b), NEW tag
  PROVE  InBuffer(LongInit(b, tag))
  BY StoredIn, ChangedIn DEF LongInit
LEMMA NumberIn ==
  ASSUME NEW b, InBuffer(b), NEW type, NEW tag, NEW n
  PROVE  InBuffer(InitUnsigned(b, type, tag, n)) /\ InBuffer(InitSigned(b, type, tag, n))
<1>1. \A c, m, bytes : InBuffer(c) => InBuffer(SetNumber(c, m, bytes))
  BY StoredIn, ChangedIn DEF SetNumber
<1>2. InBuffer(ShortInit(b, type, tag))
  BY ChangedIn
<1> QED
  BY <1>1, <1>2 DEF InitUnsigned, InitSigned, SetUnsigned, SetSigned

(* What the source returns: an error, or an item in the buffer.             *)
Result(r) == r.rc = "error" \/ (r.rc = "item" /\ InBuffer(r.buf))
LEMMA ErrorResult == ASSUME NEW b, NEW page PROVE Result(Error(b, page))
  BY DEF Error, Result
LEMMA ItemResult == ASSUME NEW b, NEW page, InBuffer(b) PROVE Result(Item(b, page)) /\ Result(Checked(b, page))
  BY DEF Error, Item, Checked, Result

LEMMA BasicResult ==
  ASSUME NEW e, NEW b, InBuffer(b), NEW page
  PROVE  Result(ReadBasic(e, b, page))
<1> DEFINE sizes == DecAttr(e, "size", "u32", ValidBytes)
           types == TokenAttr(e, "type", Types, ValidTypes)
           tags == DecAttr(e, "tag", "u32", ValidTags)
           datas == HexBufFromStr(e.text, BufferSize - 1)
           Begun(size, type, tag) ==
             Cleared(BasicInit(b, type, tag, SizeFromBytes(size)), 2, BufferSize - 1)
           made == {Stored(Begun(size, type, tag), 2, data) :
                      size \in sizes, type \in types, tag \in tags, data \in datas}
<1>1. ReadBasic(e, b, page) = IF made = {} THEN Error(b, page) ELSE Checked(CHOOSE m \in made : TRUE, page)
  BY DEF ReadBasic
<1>2. \A size, type, tag, data : InBuffer(Stored(Begun(size, type, tag), 2, data))
  BY StoredIn, ClearedIn, ChangedIn
<1> HIDE DEF sizes, types, tags, datas, Begun
<1>3. \A m \in made : InBuffer(m)
  BY <1>2
<1> HIDE DEF made
<1> QED
  BY <1>1, <1>3, ErrorResult, ItemResult

LEMMA ShortResult ==
  ASSUME NEW types, NEW tags, NEW e, NEW b, InBuffer(b), NEW page
  PROVE  Result(ReadShortOf(types, tags, e, b, page))
<1> DEFINE datas == HexBufFromStr(e.text, 4)
           Begun(type, tag) == Cleared(ShortInit(b, type, tag), 2, 4)
           made == {SetDataSize(Stored(Begun(type, tag), 2, data), SizeFromBytes(Len(data))) :
                      type \in types, tag \in tags, data \in datas}
<1>1. ReadShortOf(types, tags, e, b, page)
        = IF made = {} THEN Error(b, page) ELSE Checked(CHOOSE m \in made : TRUE, page)
  BY DEF ReadShortOf
<1>2. \A type, tag, data : InBuffer(SetDataSize(Stored(Begun(type, tag), 2, data), SizeFromBytes(Len(data))))
  BY StoredIn, ClearedIn, ChangedIn
<1> HIDE DEF datas, Begun
<1>3. \A m \in made : InBuffer(m)
  BY <1>2
<1> HIDE DEF made
<1> QED
  BY <1>1, <1>3, ErrorResult, ItemResult

LEMMA LongResult ==
  ASSUME NEW e, NEW b, InBuffer(b), NEW page
  PROVE  Result(ReadLong(e, b, page))
<1> DEFINE tags == DecAttr(e, "tag", "u8", 0 .. Most("u8"))
           datas == HexBufFromStr(e.text, Most("u8"))
           Begun(tag) == Cleared(LongInit(b, tag), 4, Most("u8"))
           made == {SetLongDataSize(Stored(Begun(tag), 4, data), Len(data)) : tag \in tags, data \in datas}
<1>1. ReadLong(e, b, page) = IF made = {} THEN Error(b, page) ELSE Checked(CHOOSE m \in made : TRUE, page)
  BY DEF ReadLong
<1>2. \A tag, data : InBuffer(SetLongDataSize(Stored(Begun(tag), 4, data), Len(data)))
  BY StoredIn, ClearedIn, ChangedIn, LongInitIn
<1> HIDE DEF tags, datas, Begun
<1>3. \A m \in made : InBuffer(m)
  BY <1>2
<1> HIDE DEF made
<1> QED
  BY <1>1, <1>3, ErrorResult, ItemResult

LEMMA ValueResult ==
  ASSUME NEW e, NEW b, InBuffer(b), NEW page, NEW beyond
  PROVE  /\ Result(ReadBitmap(e, b, page)) /\ Result(ReadCollection(e, b, page))
         /\ Result(ReadUsagePage(e, b, page)) /\ Result(ReadNumber(e, b, page))
         /\ Result(ReadUnit(e, b, page, beyond)) /\ Result(ReadUsage(e, b, page))
         /\ Result(ReadDelimiter(e, b, page))
<1>1. /\ \A type, tag, n, p : Result(Item(InitUnsigned(b, type, tag, n), p)) /\ Result(Item(InitSigned(b, type, tag, n), p))
      /\ Result(Error(b, page))
  BY NumberIn, ItemResult, ErrorResult
<1>2. Result(ReadBitmap(e, b, page))
  BY <1>1 DEF ReadBitmap, Made
<1>3. Result(ReadCollection(e, b, page))
  BY <1>1 DEF ReadCollection, Made
<1>4. Result(ReadUsagePage(e, b, page))
  BY <1>1 DEF ReadUsagePage
<1>5. Result(ReadNumber(e, b, page))
  BY <1>1 DEF ReadNumber, Made
<1>6. Result(ReadUnit(e, b, page, beyond))
  BY <1>1 DEF ReadUnit, Made
<1>7. Result(ReadUsage(e, b, page))
  BY <1>1 DEF ReadUsage, Made
<1>8. Result(ReadDelimiter(e, b, page))
  BY <1>1 DEF ReadDelimiter, Made
<1> QED
  BY <1>2, <1>3, <1>4, <1>5, <1>6, <1>7, <1>8

LEMMA ReadResult ==
  ASSUME NEW e, NEW b, InBuffer(b), NEW page, NEW beyond
  PROVE  Result(Read(e, b, page, beyond))
<1>1. /\ Result(ReadBasic(e, b, page)) /\ Result(ReadShort(e, b, page)) /\ Result(ReadMain(e, b, page))
      /\ Result(ReadGlobal(e, b, page)) /\ Result(ReadLocal(e, b, page)) /\ Result(ReadLong(e, b, page))
  BY BasicResult, ShortResult, LongResult DEF ReadShort, ReadMain, ReadGlobal, ReadLocal
<1>2. \A type, tag, n : Result(Item(ShortInit(b, type, tag), page)) /\ Result(Item(InitUnsigned(b, type, tag, n), page))
  BY ChangedIn, NumberIn, ItemResult
<1>3. Result(Error(b, page))
  BY ErrorResult
<1>4. CASE e.name \in Single
  <2>1. e.name \notin DOMAIN NumType /\ e.name \notin UsageNames
    BY <1>4, NamesApart
  <2>2. \/ e.name \in {"basic", "short", "main", "global", "local", "long"}
        \/ e.name \in {"input", "output", "feature", "collection", "COLLECTION", "usage_page", "unit", "delimiter"}
        \/ e.name \in {"end_collection", "push", "PUSH", "SET"}
        \/ e.name = "pop"
    BY <1>4 DEF Single
  <2>3. CASE e.name \in {"basic", "short", "main", "global", "local", "long"}
    BY <1>1, <2>1, <2>3 DEF Read
  <2>4. CASE e.name \in {"input", "output", "feature", "collection", "COLLECTION", "usage_page", "unit", "delimiter"}
    BY <2>1, <2>4, ValueResult DEF Read
  <2>5. CASE e.name \in {"end_collection", "push", "PUSH", "SET"}
    BY <1>2, <2>1, <2>5 DEF Read
  <2>6. CASE e.name = "pop"
    BY <1>3, <2>1, <2>6 DEF Read
  <2> QED
    BY <2>2, <2>3, <2>4, <2>5, <2>6
<1>5. CASE e.name \in DOMAIN NumType
  <2>1. e.name \notin Single /\ e.name \notin UsageNames
    BY <1>5, NamesApart
  <2>2. Read(e, b, page, beyond) = ReadNumber(e, b, page)
    BY <1>5, <2>1 DEF Read, Single
  <2> QED
    BY <2>2, ValueResult
<1>6. CASE e.name \in UsageNames
  <2>1. e.name \notin Single /\ e.name \notin DOMAIN NumType
    BY <1>6, NamesApart
  <2>2. Read(e, b, page, beyond) = ReadUsage(e, b, page)
    BY <1>6, <2>1 DEF Read, Single
  <2> QED
    BY <2>2, ValueResult
<1>7. CASE e.name \notin Single /\ e.name \notin DOMAIN NumType /\ e.name \notin UsageNames
  <2>1. Read(e, b, page, beyond) = Error(b, page)
    BY <1>7 DEF Read, Single
  <2> QED
    BY <1>3, <2>1
<1> QED
  BY <1>4, <1>5, <1>6, <1>7

------------------------------------------------------------------------------
(* The page in effect, the buffer, and what is in the document.             *)
ElementInv ==
    /\ count \in Nat
    /\ IsElement(element) /\ element.name # "pop"
    /\ InBuffer(buf)
    /\ snkPage \in 0 .. Most("u16")
    /\ rc = "error" => element # None
    /\ WrittenAllowed
    /\ OnlyThoseRefused

LEMMA NoneIs == IsElement(None) /\ None.name # "pop"
<1>1. IsElement(None) /\ None.name = "none"
  BY EmptyElement DEF None
<1> QED
  BY <1>1

LEMMA PageAfterIs ==
  ASSUME NEW b, IsItem(b), NEW page \in 0 .. Most("u16")
  PROVE  PageAfter(b, page) \in 0 .. Most("u16")
<1>1. CASE ~IsLong(b) /\ PfxType(b[1]) = Global /\ PfxTag(b[1]) = TagOfGlobal.usage_page
  <2>1. GlobalValid(b)
    BY <1>1 DEF IsItem, ItemValid, Main, Global, Local, Types
  <2>2. GetUnsigned(b) <= Most("u16")
    BY <1>1, <2>1 DEF GlobalValid, UsagePageValid
  <2>3. GetUnsigned(b) \in Nat
    BY NumberOf, LimitsAre
  <2>4. PageAfter(b, page) = GetUnsigned(b)
    BY <1>1 DEF PageAfter
  <2> QED
    BY <2>2, <2>3, <2>4, LimitsAre
<1>2. CASE ~(~IsLong(b) /\ PfxType(b[1]) = Global /\ PfxTag(b[1]) = TagOfGlobal.usage_page)
  BY <1>2 DEF PageAfter
<1> QED
  BY <1>1, <1>2

LEMMA UnwrittenIn == \A b \in Unwritten : InBuffer(b)
  BY DEF Unwritten, InBuffer

LEMMA ElementInvInit ==
  ASSUME ElementInit
  PROVE  ElementInv
<1>1. InBuffer(buf)
  BY UnwrittenIn DEF ElementInit
<1>2. snkPage \in 0 .. Most("u16")
  BY LimitsAre DEF ElementInit, Undefined
<1>3. WrittenAllowed /\ OnlyThoseRefused
  BY DEF ElementInit, WrittenAllowed, OnlyThoseRefused
<1>4. rc # "error"
  BY DEF ElementInit
<1> QED
  BY <1>1, <1>2, <1>3, <1>4, NoneIs DEF ElementInit, ElementInv

LEMMA ElementInvNext ==
  ASSUME ElementInv, [ElementNext]_elementVars
  PROVE  ElementInv'
<1> USE DEF ElementInv
<1>1. CASE Put
  <2>1. element = None /\ count < MaxElements /\ rc # "error"
    BY <1>1 DEF Put
  <2>2. PICK b \in Items(count + 1) :
           /\ element' = Write(b, PageAfter(b, snkPage))
           /\ written' = b
           /\ snkPage' = PageAfter(b, snkPage)
    BY <1>1 DEF Put
  <2>3. IsItem(b)
    <3>1. count + 1 \in 1 .. MaxElements
      BY <2>1, MaxElementsAssumption
    <3> QED
      BY <3>1, ItemsAssumption
  <2>4. snkPage' \in 0 .. Most("u16")
    BY <2>2, <2>3, PageAfterIs
  <2>5. Fits(element')
    BY <2>2, <2>3, <2>4, WrittenFits
  <2>6. count' \in Nat /\ InBuffer(buf)' /\ rc' = rc
    BY <1>1 DEF Put, InBuffer
  <2>7. (snkPage \in 0 .. Most("u16"))'
    BY <2>4
  <2>8. WrittenAllowed' /\ OnlyThoseRefused'
    BY <2>1, <2>5, <2>6 DEF WrittenAllowed, OnlyThoseRefused, Fits
  <2> QED
    BY <2>1, <2>5, <2>6, <2>7, <2>8 DEF Fits
<1>2. CASE Edit
  <2>1. element = None /\ count < MaxElements /\ rc # "error" /\ element' \in Foreign(count + 1)
        /\ written' = <<>> /\ count' = count + 1 /\ rc' = rc /\ snkPage' = snkPage /\ buf' = buf
    BY <1>2 DEF Edit
  <2>2. count + 1 \in 1 .. MaxElements
    BY <2>1, MaxElementsAssumption
  <2>3. IsElement(element') /\ element'.name # "pop"
    BY <2>1, <2>2, ForeignAssumption
  <2>4. WrittenAllowed' /\ OnlyThoseRefused'
    BY <2>1 DEF WrittenAllowed, OnlyThoseRefused
  <2> QED
    BY <2>1, <2>2, <2>3, <2>4 DEF InBuffer
<1>3. CASE Get
  <2>1. element # None /\ written' = written /\ snkPage' = snkPage /\ count' = count
    BY <1>3 DEF Get
  <2>2. PICK beyond \in Beyond : Returns(Read(element, buf, srcPage, beyond))
    BY <1>3 DEF Get
  <2> DEFINE r == Read(element, buf, srcPage, beyond)
  <2>3. Result(r) /\ rc' = r.rc
    BY <2>2, ReadResult DEF Returns
  <2>4. r.rc = "error" => (SchemaAllows(element) => Refused(element))
    <3>1. SUFFICES ASSUME r.rc = "error", SchemaAllows(element), ~Refused(element) PROVE FALSE
      OBVIOUS
    <3>2. r.rc = "item"
      BY <3>1, AllowedRead DEF InBuffer
    <3> QED
      BY <3>1, <3>2
  <2>5. CASE r.rc = "item"
    <3>1. element' = None /\ buf' = r.buf
      BY <2>2, <2>5 DEF Returns
    <3>2. InBuffer(r.buf)
      BY <2>3, <2>5 DEF Result
    <3>3. InBuffer(buf)'
      BY <3>1, <3>2 DEF InBuffer
    <3>4. WrittenAllowed' /\ OnlyThoseRefused'
      BY <2>3, <2>5, <3>1 DEF WrittenAllowed, OnlyThoseRefused, None
    <3> QED
      BY <2>1, <2>3, <2>5, <3>1, <3>3, <3>4, NoneIs
  <2>6. CASE r.rc = "error"
    <3>1. element' = element /\ buf' \in Unwritten
      BY <2>2, <2>6 DEF Returns
    <3>2. InBuffer(buf')
      BY <3>1, UnwrittenIn
    <3>3. InBuffer(buf)'
      BY <3>2 DEF InBuffer
    <3>4. WrittenAllowed' /\ OnlyThoseRefused'
      BY <2>1, <2>4, <2>6, <3>1 DEF WrittenAllowed, OnlyThoseRefused
    <3> QED
      BY <2>1, <3>1, <3>3, <3>4
  <2> QED
    BY <2>3, <2>5, <2>6 DEF Result
<1>4. CASE UNCHANGED elementVars
  BY <1>4 DEF elementVars, WrittenAllowed, OnlyThoseRefused, InBuffer
<1> QED
  BY <1>1, <1>2, <1>3, <1>4 DEF ElementNext

(* The buffer is as long as it is made, the element is one of those that    *)
(* were written or typed in, and what holds of it when it is made holds as  *)
(* long as it waits to be read.                                             *)
THEOREM ElementInvHolds == ElementSpec => []ElementInv
<1>1. ElementInit => ElementInv
  BY ElementInvInit
<1>2. ElementInv /\ [ElementNext]_elementVars => ElementInv'
  BY ElementInvNext
<1> QED
  BY <1>1, <1>2, PTL DEF ElementSpec

(* What the sink writes of an item, any item that has an element of its own *)
(* (snk_item.c), the schema allows.                                         *)
THEOREM WrittenHolds == ElementSpec => []WrittenAllowed
<1>1. ElementInv => WrittenAllowed
  BY DEF ElementInv
<1> QED
  BY <1>1, ElementInvHolds, PTL

(* The elements that the schema allows and the source's handlers refuse are *)
(* those of Refused and no others.                                          *)
THEOREM RefusedHolds == ElementSpec => []OnlyThoseRefused
<1>1. ElementInv => OnlyThoseRefused
  BY DEF ElementInv
<1> QED
  BY <1>1, ElementInvHolds, PTL
==============================================================================
