---------------------------- MODULE StreamProofs ----------------------------
(***************************************************************************)
(* The streams of the hexadecimal format and the source of the XML one.    *)
(* First the hexadecimal sink and source, for items, widths and texts of   *)
(* any size: the sink never writes past the memory of its buffer, delivers *)
(* full lines and the items put; the source returns the items of any text  *)
(* up to the first thing wrong with it, and those of a dump of the sink.   *)
(*                                                                         *)
(* Then the XML source: whatever document it walks, and whichever calls    *)
(* fail, it stays in the document and keeps the stack of usage pages that  *)
(* a reader of its items has.  With no descriptor inside another, it       *)
(* returns every item of the document.                                     *)
(***************************************************************************)
EXTENDS HexRoundTrip, XmlSrc, Recursion, FiniteSetTheorems

(* hidrd_buf_grow(): the memory grows by half, which from two bytes on is   *)
(* more, until there is enough of it.                                       *)
GrowsBy(f, len) == [n \in Nat |-> IF len > n THEN f[n + n \div 2] ELSE n]

LEMMA GrowExists == ASSUME NEW len \in Nat PROVE \E f : f = GrowsBy(f, len)
<1> DEFINE Right(f, k) == \A n \in Nat : n + k >= len =>
                              f[n] = IF len > n THEN f[n + n \div 2] ELSE n
           S == {k \in Nat : \E f : Right(f, k)}
<1>1. 0 \in S
  <2> DEFINE f == [n \in Nat |-> n]
  <2>1. Right(f, 0)
    OBVIOUS
  <2> HIDE DEF f, Right
  <2> QED
    BY <2>1
<1>2. ASSUME NEW k \in Nat, k \in S PROVE k + 1 \in S
  <2>1. PICK f : Right(f, k)
    BY <1>2
  <2> DEFINE g == [n \in Nat |-> IF len > n THEN f[n + n \div 2] ELSE n]
  <2>2. ASSUME NEW n \in Nat, n + (k + 1) >= len, len > n
        PROVE  g[n] = g[n + n \div 2]
    <3> DEFINE m == n + n \div 2
    <3>1. m \in Nat /\ (m = n \/ m + k >= len)
      <4>1. n < 2 => n \div 2 = 0
        OBVIOUS
      <4>2. n >= 2 => n \div 2 >= 1
        OBVIOUS
      <4>3. n \div 2 \in Nat
        OBVIOUS
      <4> QED
        BY <2>2, <4>1, <4>2, <4>3
    <3>2. g[n] = f[m]
      BY <2>2
    <3>3. CASE m + k >= len
      <4> HIDE DEF m
      <4>1. f[m] = IF len > m THEN f[m + m \div 2] ELSE m
        BY <2>1, <3>1, <3>3
      <4>2. g[m] = IF len > m THEN f[m + m \div 2] ELSE m
        BY <3>1
      <4> HIDE DEF g
      <4> QED
        BY <3>2, <4>1, <4>2 DEF m
    <3>4. CASE m = n
      BY <3>4
    <3> QED
      BY <3>1, <3>3, <3>4
  <2>3. ASSUME NEW n \in Nat, n + (k + 1) >= len
        PROVE  g[n] = IF len > n THEN g[n + n \div 2] ELSE n
    <3>1. CASE len > n
      <4> HIDE DEF g
      <4> QED
        BY <2>2, <2>3, <3>1
    <3>2. CASE ~(len > n)
      BY <3>2
    <3> QED
      BY <3>1, <3>2
  <2>4. Right(g, k + 1)
    <3> HIDE DEF g
    <3> QED
      BY <2>3
  <2>5. k + 1 \in Nat
    OBVIOUS
  <2> HIDE DEF g, Right
  <2> QED
    BY <2>4, <2>5, Zenon
<1>3. len \in S
  <2> HIDE DEF S
  <2> QED
    BY <1>1, <1>2, NumberInduction
<1>4. PICK f : Right(f, len)
  BY <1>3
<1> DEFINE g == [n \in Nat |-> IF len > n THEN f[n + n \div 2] ELSE n]
<1>5. \A n \in Nat : f[n] = g[n]
  BY <1>4
<1>6. \A n \in Nat : n + n \div 2 \in Nat
  OBVIOUS
<1>7. g = GrowsBy(g, len)
  <2> DEFINE h == GrowsBy(g, len)
  <2>1. ASSUME NEW n \in Nat PROVE g[n] = h[n]
    <3>1. g[n] = IF len > n THEN f[n + n \div 2] ELSE n
      OBVIOUS
    <3>2. h[n] = IF len > n THEN g[n + n \div 2] ELSE n
      BY DEF GrowsBy
    <3>3. f[n + n \div 2] = g[n + n \div 2]
      BY <1>5, <1>6
    <3> HIDE DEF g, h
    <3> QED
      BY <3>1, <3>2, <3>3
  <2>2. h = [n \in Nat |-> h[n]]
    BY DEF GrowsBy
  <2>3. g = [n \in Nat |-> g[n]]
    OBVIOUS
  <2> HIDE DEF g, h
  <2> QED
    BY <2>1, <2>2, <2>3 DEF h
<1> HIDE DEF g
<1> QED
  BY <1>7

LEMMA GrownEnough ==
  ASSUME NEW size \in Nat, size # 1, NEW len \in Nat
  PROVE  Grown(size, len) \in Nat /\ Grown(size, len) >= len /\ Grown(size, len) # 1
<1> DEFINE grown == CHOOSE f : f = GrowsBy(f, len)
           first == IF size = 0 THEN MinSize ELSE size + size \div 2
<1>1. grown = GrowsBy(grown, len)
  <2>1. \E f : f = GrowsBy(f, len)
    BY GrowExists
  <2> QED
    BY <2>1, Zenon
<1>2. Grown(size, len) = IF len <= size THEN size ELSE grown[first]
  BY Zenon DEF Grown, GrowsBy
<1> HIDE DEF grown
<1>3. \A n \in Nat : grown[n] = IF len > n THEN grown[n + n \div 2] ELSE n
  BY <1>1 DEF GrowsBy
<1> DEFINE Enough(n) == grown[n] \in Nat /\ grown[n] >= len /\ grown[n] # 1
           S == {k \in Nat : \A n \in Nat : n >= 2 /\ n + k >= len => Enough(n)}
<1>4. 0 \in S
  BY <1>3
<1>5. ASSUME NEW k \in Nat, k \in S PROVE k + 1 \in S
  <2> SUFFICES ASSUME NEW n \in Nat, n >= 2, n + (k + 1) >= len PROVE Enough(n)
    OBVIOUS
  <2>1. CASE len > n
    <3>1. n \div 2 \in Nat /\ n \div 2 >= 1
      OBVIOUS
    <3> DEFINE m == n + n \div 2
    <3>2. m \in Nat /\ m >= 2 /\ m + k >= len
      BY <3>1
    <3>3. grown[n] = grown[m]
      BY <1>3, <2>1
    <3> HIDE DEF m
    <3>4. Enough(m)
      BY <1>5, <3>2
    <3> QED
      BY <3>3, <3>4
  <2>2. CASE ~(len > n)
    BY <1>3, <2>2
  <2> QED
    BY <2>1, <2>2
<1>6. len \in S
  <2> HIDE DEF S
  <2> QED
    BY <1>4, <1>5, NumberInduction
<1>7. first \in Nat /\ first >= 2
  BY MinSizeAssumption
<1>8. Enough(first)
  <2> HIDE DEF first
  <2> QED
    BY <1>6, <1>7
<1> HIDE DEF first
<1> QED
  BY <1>2, <1>8

------------------------------------------------------------------------------
(* The buffer as it should be: a size that can grow, text that fits.        *)
Sound(b) ==
    /\ b = [text |-> b.text, size |-> b.size, spilled |-> b.spilled]
    /\ b.text \in Seq(Chars)
    /\ b.size \in Nat /\ b.size # 1
    /\ b.spilled = FALSE
    /\ Len(b.text) <= b.size

(* Additions that ask for as much room as they write.                       *)
Fitting == {a \in [text : Seq(Chars), room : Nat] : Len(a.text) <= a.room}

LEMMA TextJoined ==
  ASSUME NEW s \in Seq(Chars), NEW t \in Seq(Chars)
  PROVE  s \o t \in Seq(Chars) /\ Len(s \o t) = Len(s) + Len(t) /\ Len(s) <= Len(s \o t)
BY ConcatProperties

LEMMA RoomEnough ==
  ASSUME NEW s \in Seq(Chars), NEW t \in Seq(Chars), NEW room \in Nat, Len(t) <= room,
         NEW size \in Nat, size >= Len(s) + room
  PROVE  Len(s \o t) <= size /\ (Len(s) + room > size) = FALSE
BY TextJoined

(* An addition to a sound buffer leaves it sound: what it asked for is what *)
(* hidrd_buf_grow() gives.                                                  *)
LEMMA AddedSound ==
  ASSUME NEW b, Sound(b), NEW a \in Fitting
  PROVE  Sound(Added(b, a)) /\ Added(b, a).text = b.text \o a.text
<1> DEFINE s == b.text
           t == a.text
           room == a.room
           size == Grown(b.size, Len(s) + room)
<1>1. /\ t \in Seq(Chars) /\ room \in Nat /\ Len(t) <= room
      /\ s \in Seq(Chars) /\ b.size \in Nat /\ b.size # 1 /\ b.spilled = FALSE
  BY DEF Fitting, Sound
<1>2. Added(b, a) = [text |-> s \o t, size |-> size,
                     spilled |-> FALSE \/ Len(s) + room > size]
  BY <1>1 DEF Added, NeedOf, BufLen
<1> HIDE DEF s, t, room
<1>3. size \in Nat /\ size >= Len(s) + room /\ size # 1
  <2>1. Len(s) + room \in Nat
    BY <1>1
  <2> QED
    BY <1>1, <2>1, GrownEnough
<1> HIDE DEF size
<1>4. /\ s \o t \in Seq(Chars) /\ Len(s \o t) <= size
      /\ (Len(s) + room > size) = FALSE
  BY <1>1, <1>3, RoomEnough, TextJoined
<1>5. Added(b, a) = [text |-> s \o t, size |-> size, spilled |-> FALSE]
  BY <1>2, <1>4
<1>6. Sound(Added(b, a))
  BY <1>3, <1>4, <1>5 DEF Sound
<1>7. Added(b, a).text = s \o t
  BY <1>5
<1> QED
  BY <1>6, <1>7 DEF s, t

(* The buffer after a sequence of additions.                                *)
AddedFun(f, adds, n) == f = [k \in 0 .. n |-> IF k = 0 THEN buf ELSE Added(f[k - 1], adds[k])]

LEMMA AddedFunExists ==
  ASSUME NEW adds, NEW n \in Nat
  PROVE  \E f : AddedFun(f, adds, n)
<1> DEFINE S == {m \in Nat : \E f : AddedFun(f, adds, m)}
<1>1. 0 \in S
  <2> DEFINE f == [k \in 0 .. 0 |-> buf]
  <2>1. AddedFun(f, adds, 0)
    BY DEF AddedFun
  <2> QED
    BY <2>1
<1>2. ASSUME NEW m \in Nat, m \in S PROVE m + 1 \in S
  <2>1. PICK f : AddedFun(f, adds, m)
    BY <1>2
  <2> DEFINE g == [k \in 0 .. m + 1 |-> IF k = m + 1 THEN Added(f[m], adds[m + 1]) ELSE f[k]]
             h == [k \in 0 .. m + 1 |-> IF k = 0 THEN buf ELSE Added(g[k - 1], adds[k])]
  <2>2. ASSUME NEW k \in 0 .. m + 1 PROVE g[k] = h[k]
    <3>1. CASE k = m + 1
      <4>1. k # 0 /\ k - 1 = m /\ m \in 0 .. m + 1 /\ m # m + 1
        BY <3>1
      <4> QED
        BY <3>1, <4>1
    <3>2. CASE k # m + 1
      <4>1. k \in 0 .. m /\ (k = 0 \/ (k - 1 \in 0 .. m + 1 /\ k - 1 # m + 1))
        BY <3>2
      <4>2. f[k] = IF k = 0 THEN buf ELSE Added(f[k - 1], adds[k])
        BY <2>1, <4>1 DEF AddedFun
      <4> QED
        BY <3>2, <4>1, <4>2
    <3> QED
      BY <3>1, <3>2
  <2>3. g = h
    BY <2>2
  <2> HIDE DEF g
  <2>4. AddedFun(g, adds, m + 1)
    BY <2>3 DEF AddedFun
  <2>5. m + 1 \in Nat
    OBVIOUS
  <2> QED
    BY <2>4, <2>5
<1> HIDE DEF S
<1>3. n \in S
  BY <1>1, <1>2, NumberInduction
<1> QED
  BY <1>3 DEF S

LEMMA AllAddedIs ==
  ASSUME NEW S, NEW adds \in Seq(S)
  PROVE  \E f : AddedFun(f, adds, Len(adds)) /\ AllAdded(adds) = f[Len(adds)]
<1> DEFINE n == Len(adds)
           f == CHOOSE g : AddedFun(g, adds, n)
<1>1. n \in Nat
  OBVIOUS
<1>2. AddedFun(f, adds, n)
  BY <1>1, AddedFunExists
<1>3. AllAdded(adds) = f[n]
  BY Zenon DEF AllAdded, AddedFun
<1> QED
  BY <1>2, <1>3

LEMMA AddedAt ==
  ASSUME NEW f, NEW adds, NEW n \in Nat, AddedFun(f, adds, n)
  PROVE  f[0] = buf /\ \A k \in 0 .. n - 1 : f[k + 1] = Added(f[k], adds[k + 1])
<1>1. \A k \in 0 .. n : f[k] = IF k = 0 THEN buf ELSE Added(f[k - 1], adds[k])
  BY DEF AddedFun
<1>2. ASSUME NEW k \in 0 .. n - 1 PROVE f[k + 1] = Added(f[k], adds[k + 1])
  <2>1. k + 1 \in 0 .. n /\ k + 1 # 0 /\ (k + 1) - 1 = k
    OBVIOUS
  <2> QED
    BY <1>1, <2>1
<1>3. 0 \in 0 .. n
  OBVIOUS
<1> QED
  BY <1>1, <1>2, <1>3

LEMMA AllAddedNothing == AllAdded(<<>>) = buf
<1>1. <<>> \in Seq(Nat) /\ Len(<<>>) = 0 /\ 0 \in Nat
  OBVIOUS
<1>2. PICK f : AddedFun(f, <<>>, 0) /\ AllAdded(<<>>) = f[0]
  BY <1>1, AllAddedIs
<1> QED
  BY <1>1, <1>2, AddedAt

LEMMA AllAddedAppend ==
  ASSUME NEW S, NEW adds \in Seq(S), NEW a \in S
  PROVE  AllAdded(Append(adds, a)) = Added(AllAdded(adds), a)
<1> DEFINE n == Len(adds)
           bs == Append(adds, a)
<1>1. /\ bs \in Seq(S) /\ n \in Nat /\ n + 1 \in Nat /\ Len(bs) = n + 1 /\ bs[n + 1] = a
      /\ \A i \in 1 .. n : bs[i] = adds[i]
  OBVIOUS
<1> HIDE DEF bs, n
<1>2. PICK f : AddedFun(f, adds, n) /\ AllAdded(adds) = f[n]
  BY AllAddedIs DEF n
<1>3. PICK g : AddedFun(g, bs, n + 1) /\ AllAdded(bs) = g[n + 1]
  BY <1>1, AllAddedIs
<1>4. f[0] = buf /\ \A k \in 0 .. n - 1 : f[k + 1] = Added(f[k], adds[k + 1])
  BY <1>1, <1>2, AddedAt
<1>5. g[0] = buf /\ \A k \in 0 .. n : g[k + 1] = Added(g[k], bs[k + 1])
  <2>1. (n + 1) - 1 = n
    BY <1>1
  <2> QED
    BY <1>1, <1>3, <2>1, AddedAt
<1> DEFINE G == {k \in Nat : k <= n => g[k] = f[k]}
<1>6. 0 \in G
  BY <1>4, <1>5
<1>7. ASSUME NEW k \in Nat, k \in G PROVE k + 1 \in G
  <2> SUFFICES ASSUME k + 1 <= n PROVE g[k + 1] = f[k + 1]
    OBVIOUS
  <2>1. k \in 0 .. n - 1 /\ k \in 0 .. n /\ k <= n /\ k + 1 \in 1 .. n
    BY <1>1
  <2> QED
    BY <1>1, <1>4, <1>5, <1>7, <2>1
<1> HIDE DEF G
<1>8. n \in G
  BY <1>1, <1>6, <1>7, NumberInduction
<1>9. g[n] = f[n] /\ n \in 0 .. n
  BY <1>1, <1>8 DEF G
<1> QED
  BY <1>1, <1>2, <1>3, <1>5, <1>9 DEF bs

LEMMA AllAddedSound ==
  ASSUME Sound(buf), NEW additions \in Seq(Fitting)
  PROVE  Sound(AllAdded(additions))
<1> DEFINE n == Len(additions)
<1>1. n \in Nat /\ \A k \in 1 .. n : additions[k] \in Fitting
  OBVIOUS
<1>2. PICK f : AddedFun(f, additions, n) /\ AllAdded(additions) = f[n]
  BY AllAddedIs
<1> HIDE DEF n
<1>3. f[0] = buf /\ \A k \in 0 .. n - 1 : f[k + 1] = Added(f[k], additions[k + 1])
  BY <1>1, <1>2, AddedAt
<1> DEFINE G == {k \in Nat : k <= n => Sound(f[k])}
<1>4. 0 \in G
  BY <1>3
<1>5. ASSUME NEW k \in Nat, k \in G PROVE k + 1 \in G
  <2> SUFFICES ASSUME k + 1 <= n PROVE Sound(f[k + 1])
    OBVIOUS
  <2>1. k \in 0 .. n - 1 /\ k + 1 \in 1 .. n /\ k <= n
    BY <1>1
  <2>2. f[k + 1] = Added(f[k], additions[k + 1]) /\ additions[k + 1] \in Fitting
    BY <1>1, <1>3, <2>1
  <2> QED
    BY <1>5, <2>1, <2>2, AddedSound
<1> HIDE DEF G
<1>6. n \in G
  BY <1>1, <1>4, <1>5, NumberInduction
<1> QED
  BY <1>1, <1>2, <1>6 DEF G

LEMMA MakesFitting ==
  ASSUME NEW t \in Seq(Chars), NEW room \in Nat, Len(t) <= room
  PROVE  Addition(t, room) \in Fitting
BY DEF Addition, Fitting

LEMMA AdditionsFit ==
  ASSUME NEW item \in Seq(Byte)
  PROVE  Additions(item) \in Seq(Fitting)
<1> DEFINE P(i) == <<Digits2(item[i])>> \o
                      (IF BreakAfter(bytes + i) THEN <<LineBreak>> ELSE <<>>)
           seqs == [i \in DOMAIN item |-> P(i)]
<1>1. Len(item) \in Nat /\ DOMAIN item = 1 .. Len(item)
  OBVIOUS
<1>2. ASSUME NEW i \in DOMAIN item PROVE P(i) \in Seq(Fitting)
  <2>1. item[i] \in Byte
    BY <1>2
  <2>2. \A b \in 0 .. 255 : b \div 16 \in 0 .. 18 /\ b % 16 \in 0 .. 18
    OBVIOUS
  <2>3. Digits2(item[i]) \in Fitting
    <3> DEFINE w == <<Space, item[i] \div 16, item[i] % 16>>
    <3>1. Space \in Chars /\ item[i] \div 16 \in Chars /\ item[i] % 16 \in Chars
      <4>1. Byte = 0 .. 255 /\ Chars = 0 .. 18 /\ Space \in 0 .. 18
        BY DEF Byte, Chars, Space
      <4> QED
        BY <2>1, <2>2, <4>1
    <3>2. w \in Seq(Chars) /\ Len(w) = 3
      BY <3>1
    <3>3. Digits2(item[i]) = Addition(w, 4)
      <4>1. Digits2(item[i]) = Addition(w, Len(w) + 1)
        BY DEF Digits2, AddPrintf
      <4>2. Len(w) + 1 = 4
        BY <3>2
      <4> HIDE DEF w
      <4> QED
        BY <4>1, <4>2
    <3> HIDE DEF w
    <3>4. 4 \in Nat /\ 3 <= 4
      OBVIOUS
    <3> QED
      BY <3>2, <3>3, <3>4, MakesFitting
  <2>4. LineBreak \in Fitting
    <3> DEFINE w == <<Newline>>
    <3>1. w \in Seq(Chars) /\ Len(w) = 1
      BY DEF Chars, Newline
    <3>2. LineBreak = Addition(w, 1)
      BY <3>1 DEF LineBreak, AddPtr
    <3>3. 1 \in Nat /\ 1 <= 1
      OBVIOUS
    <3> HIDE DEF w
    <3> QED
      BY <3>1, <3>2, <3>3, MakesFitting
  <2> HIDE DEF BreakAfter, Fitting
  <2> QED
    BY <2>3, <2>4
<1>3. seqs \in Seq(Seq(Fitting))
  BY <1>1, <1>2
<1>4. Additions(item) = FlattenSeq(seqs)
  BY DEF Additions, AdditionsFrom
<1> QED
  BY <1>3, <1>4, FlattenIsSeq

LEMMA EndedSound == ASSUME Sound(buf) PROVE Sound(Ended) /\ Sound(AfterFlush)
<1> DEFINE a == AddSpan(Newline, 1)
<1>1. a \in Fitting
  <2> DEFINE w == [i \in 1 .. 1 |-> Newline]
  <2>1. w \in Seq(Chars) /\ Len(w) = 1
    BY DEF Chars, Newline
  <2>2. a = Addition(w, 1)
    BY DEF AddSpan
  <2>3. 1 \in Nat /\ 1 <= 1
    OBVIOUS
  <2> HIDE DEF w, a
  <2> QED
    BY <2>1, <2>2, <2>3, MakesFitting
<1>2. Sound(Added(buf, a)) /\ Added(buf, a).text = buf.text \o a.text
  BY <1>1, AddedSound
<1>3. Sound(Ended) /\ Len(buf.text) <= Len(Ended.text) /\ buf.text \in Seq(Chars)
  <2>1. a.text \in Seq(Chars) /\ buf.text \in Seq(Chars)
    BY <1>1 DEF Fitting, Sound
  <2>2. Len(buf.text) <= Len(buf.text \o a.text) /\ Len(buf.text) <= Len(buf.text)
    <3> DEFINE t == buf.text
               u == a.text
    <3>1. t \in Seq(Chars) /\ u \in Seq(Chars)
      BY <2>1
    <3> HIDE DEF a, t, u
    <3>2. Len(t) <= Len(t \o u) /\ Len(t) <= Len(t)
      BY <3>1, TextJoined
    <3> QED
      BY <3>2 DEF t, u
  <2>3. Ended = IF LastEnds THEN Added(buf, a) ELSE buf
    BY DEF Ended
  <2> HIDE DEF a
  <2> QED
    BY <1>2, <2>1, <2>2, <2>3
<1>4. AfterFlush = [text |-> buf.text, size |-> Ended.size, spilled |-> Ended.spilled]
  BY <1>3 DEF AfterFlush, Sound
<1> QED
  BY <1>3, <1>4 DEF Sound

LEMMA EmptySound == Sound(Empty)
BY DEF Sound, Empty

LEMMA BufferStep == Sound(buf) /\ (Next \/ UNCHANGED buf) => Sound(buf')
<1> SUFFICES ASSUME Sound(buf), Next \/ UNCHANGED buf PROVE Sound(buf')
  OBVIOUS
<1>1. ASSUME NEW item \in Puttable, Put(item) PROVE Sound(buf')
  <2>1. Additions(item) \in Seq(Fitting)
    BY PuttableAssumption, AdditionsFit
  <2> QED
    BY <1>1, <2>1, AllAddedSound DEF Put
<1>2. ASSUME NEW item \in Puttable, PutFails(item) PROVE Sound(buf')
  <2>1. Additions(item) \in Seq(Fitting)
    BY PuttableAssumption, AdditionsFit
  <2>2. PICK k \in DOMAIN Additions(item) : buf' = AllAdded(SubSeq(Additions(item), 1, k - 1))
    BY <1>2 DEF PutFails
  <2> DEFINE adds == Additions(item)
  <2> HIDE DEF adds
  <2>3. \A i \in 1 .. k - 1 : adds[i] \in Fitting
    BY <2>1, <2>2 DEF adds
  <2>4. SubSeq(adds, 1, k - 1) \in Seq(Fitting)
    BY <2>1, <2>2, <2>3, SubSeqProperties DEF adds
  <2> QED
    BY <2>2, <2>4, AllAddedSound DEF adds
<1>3. CASE Flush \/ FlushFails
  BY <1>3, EndedSound DEF Flush, FlushFails
<1>4. CASE Delete
  BY <1>4, EmptySound DEF Delete
<1>5. CASE UNCHANGED buf
  BY <1>5
<1> QED
  BY <1>1, <1>2, <1>3, <1>4, <1>5 DEF Next

LEMMA SoundHolds == Sound(buf) => BufferHolds
BY DEF Sound, BufferHolds, BufLen

(* The hexadecimal sink never writes past the memory of its buffer: at      *)
(* every addition of hidrd_hex_snk_put() and flush, with the terminator     *)
(* that printf() writes, the memory has grown to what is needed, for items  *)
(* and widths of any size, and after a flush took its newline back.         *)
THEOREM BufferNeverSpills == Spec => []BufferHolds
<1>1. Init => Sound(buf)
  BY EmptySound DEF Init
<1>2. Sound(buf) /\ [Next]_vars => Sound(buf)'
  BY BufferStep DEF vars
<1> QED
  BY <1>1, <1>2, SoundHolds, PTL DEF Spec

(* The same while a source reads what the sink has left.                    *)
THEOREM BufferNeverSpillsInRoundTrip == RTSpec => []BufferHolds
<1>1. RTInit => Sound(buf)
  BY EmptySound DEF RTInit, Init
<1>2. Sound(buf) /\ [RTNext]_<<snk, src, reading, foreign>> => Sound(buf)'
  <2>1. RTNext => Next \/ UNCHANGED buf
    BY DEF RTNext, Write, Open, Read, Next, snk
  <2>2. UNCHANGED <<snk, src, reading, foreign>> => UNCHANGED buf
    BY DEF snk
  <2> QED
    BY <2>1, <2>2, BufferStep
<1> QED
  BY <1>1, <1>2, SoundHolds, PTL DEF RTSpec

------------------------------------------------------------------------------
(* What a dump stands for, from a word of it on: one is what stands after   *)
(* its first character, two after its first two.                            *)
Starts(t, k) == {t[i] : i \in 1 .. Min({k, Len(t)})}
WordsStep(t, one, two) ==
    IF t = <<>> THEN [bytes |-> <<>>, why |-> "none"]
    ELSE IF t[1] \in Blank THEN one
    ELSE IF t[1] \in Digits /\ Ends(t, 1) THEN [one EXCEPT !.bytes = <<t[1]>> \o @]
    ELSE IF Len(t) > 1 /\ {t[1], t[2]} \subseteq Digits /\ Ends(t, 2)
         THEN [two EXCEPT !.bytes = <<16 * t[1] + t[2]>> \o @]
    ELSE [bytes |-> <<>>, why |-> IF Other \in Starts(t, 3) THEN "char" ELSE "num"]
Readings == [bytes : Seq(Byte), why : {"none", "char", "num"}]
WordsFun(f) == f = [t \in Seq(Chars) |-> WordsStep(t, f[Tail(t)], f[SubSeq(t, 3, Len(t))])]

LEMMA CharFacts ==
  /\ \A c \in Chars : c \in Digits \/ c \in Blank \/ c = Other
  /\ \A d \in Digits : d \in Chars /\ d \in Byte /\ d \in Nat /\ d \notin Blank /\ d # Other
  /\ \A d, e \in Digits : 16 * d + e \in Byte
  /\ Other \in Chars /\ Other \notin Blank /\ Other \notin Digits
  /\ Space \in Blank /\ Newline \in Blank /\ Blank \subseteq Chars /\ Space # Newline
  /\ Newline \notin Digits
BY DEF Chars, Digits, Blank, Space, Newline, Other, Byte

LEMMA TailFacts ==
  ASSUME NEW t \in Seq(Chars), t # <<>>
  PROVE  /\ Len(t) \in Nat /\ Len(t) >= 1 /\ t[1] \in Chars
         /\ Tail(t) \in Seq(Chars) /\ Len(Tail(t)) = Len(t) - 1
         /\ Len(t) > 1 => t[2] \in Chars
         /\ Len(t) > 1 => /\ SubSeq(t, 3, Len(t)) \in Seq(Chars)
                          /\ Len(SubSeq(t, 3, Len(t))) = Len(t) - 2
<1>1. Len(t) \in Nat /\ Len(t) >= 1
  OBVIOUS
<1>2. Tail(t) \in Seq(Chars) /\ Len(Tail(t)) = Len(t) - 1
  OBVIOUS
<1>3. \A i \in 3 .. Len(t) : t[i] \in Chars
  BY <1>1
<1>4. SubSeq(t, 3, Len(t)) \in Seq(Chars)
  BY <1>1, <1>3, SubSeqProperties
<1>5. Len(t) > 1 => Len(SubSeq(t, 3, Len(t))) = Len(t) - 2
  <2>1. Len(SubSeq(t, 3, Len(t))) = IF 3 <= Len(t) THEN Len(t) - 3 + 1 ELSE 0
    BY <1>1, <1>3, SubSeqProperties
  <2>2. \A n \in Nat : n > 1 => (IF 3 <= n THEN n - 3 + 1 ELSE 0) = n - 2
    OBVIOUS
  <2> HIDE DEF Chars
  <2> QED
    BY <1>1, <2>1, <2>2, Zenon
<1>6. t[1] \in Chars /\ (Len(t) > 1 => t[2] \in Chars)
  BY <1>1
<1> QED
  BY <1>1, <1>2, <1>4, <1>5, <1>6

LEMMA WordsStepType ==
  ASSUME NEW t \in Seq(Chars), NEW one, NEW two,
         t # <<>> => one \in Readings, Len(t) > 1 => two \in Readings
  PROVE  WordsStep(t, one, two) \in Readings
<1> DEFINE none == [bytes |-> <<>>, why |-> "none"]
           stop(why) == [bytes |-> <<>>, why |-> why]
<1>1. \A why \in {"none", "char", "num"} : stop(why) \in Readings
  <2>1. <<>> \in Seq(Byte)
    OBVIOUS
  <2> QED
    BY <2>1 DEF Readings
<1>2. \A r \in Readings : \A b \in Byte : [r EXCEPT !.bytes = <<b>> \o @] \in Readings
  <2> TAKE r \in Readings
  <2> TAKE b \in Byte
  <2>1. <<b>> \o r.bytes \in Seq(Byte)
    BY DEF Readings
  <2> HIDE DEF Byte
  <2> QED
    BY <2>1 DEF Readings
<1>3. CASE t = <<>>
  BY <1>1, <1>3 DEF WordsStep
<1>4. CASE t # <<>> /\ t[1] \in Blank
  BY <1>4 DEF WordsStep
<1>5. CASE t # <<>> /\ t[1] \notin Blank /\ t[1] \in Digits /\ Ends(t, 1)
  <2>1. t[1] \in Byte
    BY <1>5, CharFacts
  <2>2. WordsStep(t, one, two) = [one EXCEPT !.bytes = <<t[1]>> \o @]
    BY <1>5 DEF WordsStep
  <2> QED
    BY <1>2, <1>5, <2>1, <2>2
<1>6. CASE /\ t # <<>> /\ t[1] \notin Blank /\ ~(t[1] \in Digits /\ Ends(t, 1))
           /\ Len(t) > 1 /\ {t[1], t[2]} \subseteq Digits /\ Ends(t, 2)
  <2>1. 16 * t[1] + t[2] \in Byte
    BY <1>6, CharFacts
  <2>2. WordsStep(t, one, two) = [two EXCEPT !.bytes = <<16 * t[1] + t[2]>> \o @]
    BY <1>6 DEF WordsStep
  <2> DEFINE b == 16 * t[1] + t[2]
  <2> HIDE DEF b
  <2> QED
    BY <1>2, <1>6, <2>1, <2>2 DEF b
<1>7. CASE /\ t # <<>> /\ t[1] \notin Blank /\ ~(t[1] \in Digits /\ Ends(t, 1))
           /\ ~(Len(t) > 1 /\ {t[1], t[2]} \subseteq Digits /\ Ends(t, 2))
  <2>1. WordsStep(t, one, two) \in {stop("char"), stop("num")}
    BY <1>7 DEF WordsStep
  <2> QED
    BY <1>1, <2>1
<1> QED
  BY <1>3, <1>4, <1>5, <1>6, <1>7

LEMMA WordsFunExists == \E f : WordsFun(f)
<1> DEFINE R == Results(Chars, Readings)
           One(t, f) == WordsStep(t, f[Tail(t)], f[SubSeq(t, 3, Len(t))])
           G == [t \in Seq(Chars) |-> [f \in R |-> One(t, f)]]
<1>1. ASSUME NEW t \in Seq(Chars), NEW f \in R
      PROVE  G[t][f] = One(t, f) /\ G[t][f] \in Readings
  <2>1. t # <<>> => f[Tail(t)] \in Readings
    BY TailFacts DEF Results
  <2>2. Len(t) > 1 => f[SubSeq(t, 3, Len(t))] \in Readings
    <3>1. Len(t) > 1 => t # <<>>
      OBVIOUS
    <3> QED
      BY <3>1, TailFacts DEF Results
  <2> QED
    BY <2>1, <2>2, WordsStepType
<1>2. ASSUME NEW t \in Seq(Chars), NEW f \in R, NEW g \in R,
             \A u \in Seq(Chars) : Len(u) < Len(t) => f[u] = g[u]
      PROVE  G[t][f] = G[t][g]
  <2>1. CASE t = <<>>
    <3>1. \A a, b, c, d : WordsStep(t, a, b) = WordsStep(t, c, d)
      BY <2>1 DEF WordsStep
    <3> HIDE DEF G
    <3> QED
      BY <1>1, <3>1
  <2>2. CASE t # <<>>
    <3>0. /\ Tail(t) \in Seq(Chars) /\ Len(Tail(t)) < Len(t)
          /\ Len(t) > 1 => /\ SubSeq(t, 3, Len(t)) \in Seq(Chars)
                           /\ Len(SubSeq(t, 3, Len(t))) < Len(t)
      BY <2>2, TailFacts
    <3>1. f[Tail(t)] = g[Tail(t)]
      BY <1>2, <3>0
    <3>2. Len(t) > 1 => f[SubSeq(t, 3, Len(t))] = g[SubSeq(t, 3, Len(t))]
      BY <1>2, <3>0
    <3>3. ~(Len(t) > 1) => \A a, b, c : WordsStep(t, a, b) = WordsStep(t, a, c)
      BY DEF WordsStep
    <3> HIDE DEF G
    <3> QED
      BY <1>1, <3>1, <3>2, <3>3
  <2> QED
    BY <2>1, <2>2
<1> HIDE DEF G
<1>3. NeedsShorter(G, Chars, Readings)
  BY <1>1, <1>2 DEF NeedsShorter
<1>4. Readings # {}
  <2>1. [bytes |-> <<>>, why |-> "none"] \in Readings
    BY DEF Readings
  <2> QED
    BY <2>1
<1>5. PICK f \in R : \A t \in Seq(Chars) : f[t] = G[t][f]
  BY <1>3, <1>4, ShorterRecursion
<1>6. f = [t \in Seq(Chars) |-> WordsStep(t, f[Tail(t)], f[SubSeq(t, 3, Len(t))])]
  BY <1>1, <1>5 DEF Results
<1> QED
  BY <1>6 DEF WordsFun

LEMMA WordsDef ==
  \A t \in Seq(Chars) : Words(t) = WordsStep(t, Words(Tail(t)), Words(SubSeq(t, 3, Len(t))))
<1> DEFINE words == CHOOSE f : WordsFun(f)
<1>1. WordsFun(words)
  BY WordsFunExists
<1>2. \A t : Words(t) = words[t]
  BY Zenon DEF Words, WordsFun, WordsStep, Starts
<1> HIDE DEF words
<1> QED
  BY <1>1, <1>2 DEF WordsFun

LEMMA WordsType == \A t \in Seq(Chars) : Words(t) \in Readings
<1> DEFINE S == {k \in Nat : \A t \in Seq(Chars) : Len(t) <= k => Words(t) \in Readings}
<1>1. ASSUME NEW t \in Seq(Chars), t # <<>> => Words(Tail(t)) \in Readings,
             Len(t) > 1 => Words(SubSeq(t, 3, Len(t))) \in Readings
      PROVE  Words(t) \in Readings
  BY <1>1, WordsDef, WordsStepType
<1>2. 0 \in S
  <2> SUFFICES ASSUME NEW t \in Seq(Chars), Len(t) <= 0 PROVE Words(t) \in Readings
    OBVIOUS
  <2>1. t = <<>> /\ ~(Len(t) > 1)
    OBVIOUS
  <2> QED
    BY <1>1, <2>1
<1>3. ASSUME NEW k \in Nat, k \in S PROVE k + 1 \in S
  <2> SUFFICES ASSUME NEW t \in Seq(Chars), Len(t) <= k + 1 PROVE Words(t) \in Readings
    OBVIOUS
  <2>1. CASE t = <<>>
    <3>1. ~(Len(t) > 1)
      BY <2>1
    <3> QED
      BY <1>1, <2>1, <3>1
  <2>2. CASE t # <<>>
    <3>1. Len(Tail(t)) <= k /\ (Len(t) > 1 => Len(SubSeq(t, 3, Len(t))) <= k)
      BY <2>2, TailFacts
    <3> QED
      BY <1>1, <1>3, <2>2, <3>1, TailFacts
  <2> QED
    BY <2>1, <2>2
<1>4. \A k \in Nat : k \in S
  <2> HIDE DEF S
  <2> QED
    BY <1>2, <1>3, NumberInduction
<1> QED
  BY <1>4

------------------------------------------------------------------------------
(* What the text stands for from a place on.                                *)
WordsAt(t, p) == Words(RestAt(t, p))

LEMMA RestChars ==
  ASSUME NEW t \in Seq(Chars), NEW p \in Nat, p < Len(t)
  PROVE  /\ RestAt(t, p) \in Seq(Chars) /\ RestAt(t, p) # <<>>
         /\ Len(RestAt(t, p)) = Len(t) - p
         /\ \A i \in Nat \ {0} : p + i <= Len(t) => RestAt(t, p)[i] = t[p + i]
         /\ Tail(RestAt(t, p)) = RestAt(t, p + 1)
         /\ SubSeq(RestAt(t, p), 3, Len(RestAt(t, p))) = RestAt(t, p + 2)
<1>1. RestAt(t, p) \in Seq(Chars) /\ RestAt(t, p) # <<>> /\ Len(RestAt(t, p)) = Len(t) - p
  BY RestFacts
<1>2. \A i \in Nat \ {0} : p + i <= Len(t) => RestAt(t, p)[i] = t[p + i]
  <2> SUFFICES ASSUME NEW i \in Nat \ {0}, p + i <= Len(t) PROVE RestAt(t, p)[i] = t[p + i]
    OBVIOUS
  <2>1. RestAt(t, p) = [j \in 1 .. Len(t) - p |-> t[j + p]]
    BY DEF RestAt
  <2>2. i \in 1 .. Len(t) - p /\ i + p = p + i
    OBVIOUS
  <2> QED
    BY <2>1, <2>2
<1> DEFINE r == RestAt(t, p)
<1>3. \A k \in Nat : SubSeq(r, k + 1, Len(r)) = RestAt(t, p + k)
  BY RestOfRest
<1>4. r \in Seq(Chars) /\ r # <<>>
  BY <1>1
<1>5. SubSeq(r, 1 + 1, Len(r)) = RestAt(t, p + 1) /\ SubSeq(r, 2 + 1, Len(r)) = RestAt(t, p + 2)
  <2>1. 1 \in Nat /\ 2 \in Nat
    OBVIOUS
  <2> HIDE DEF r
  <2> QED
    BY <1>3, <2>1
<1> HIDE DEF r
<1>6. Tail(r) = SubSeq(r, 2, Len(r)) /\ 1 + 1 = 2 /\ 2 + 1 = 3
  BY <1>4
<1> QED
  BY <1>1, <1>2, <1>5, <1>6 DEF r

LEMMA RestChar ==
  ASSUME NEW t \in Seq(Chars), NEW p \in Nat, NEW k \in 1 .. 3, p + k <= Len(t)
  PROVE  RestAt(t, p)[k] = t[p + k] /\ t[p + k] \in Chars
<1>1. p < Len(t) /\ k \in Nat \ {0} /\ p + k \in 1 .. Len(t)
  OBVIOUS
<1> QED
  BY <1>1, RestChars

LEMMA EndsAt ==
  ASSUME NEW t \in Seq(Chars), NEW p \in Nat, p < Len(t), NEW k \in 1 .. 2, p + k <= Len(t)
  PROVE  Ends(RestAt(t, p), k) <=> p + k = Len(t) \/ t[p + k + 1] \in Blank
<1> DEFINE r == RestAt(t, p)
<1>1. Len(r) = Len(t) - p /\ (p + (k + 1) <= Len(t) => r[k + 1] = t[p + (k + 1)])
  BY RestChars
<1>2. (k = Len(t) - p <=> p + k = Len(t)) /\ p + (k + 1) = p + k + 1
  OBVIOUS
<1> HIDE DEF r
<1>3. Ends(r, k) <=> p + k = Len(t) \/ r[k + 1] \in Blank
  BY <1>1, <1>2 DEF Ends
<1>4. p + k # Len(t) => p + k + 1 <= Len(t)
  OBVIOUS
<1> QED
  BY <1>1, <1>2, <1>3, <1>4 DEF r

(* At the end of the text, at a blank, and at a word of one or two digits.  *)
LEMMA WordsEnd ==
  ASSUME NEW t \in Seq(Chars), NEW p \in Nat, p >= Len(t)
  PROVE  WordsAt(t, p) = [bytes |-> <<>>, why |-> "none"]
<1>1. RestAt(t, p) = <<>> /\ <<>> \in Seq(Chars)
  BY RestFacts
<1> QED
  BY <1>1, WordsDef DEF WordsAt, WordsStep

LEMMA WordsHere ==
  ASSUME NEW t \in Seq(Chars), NEW p \in Nat, p < Len(t)
  PROVE  WordsAt(t, p) = WordsStep(RestAt(t, p), WordsAt(t, p + 1), WordsAt(t, p + 2))
BY RestChars, WordsDef, ZenonT(30) DEF WordsAt

LEMMA WordsBlank ==
  ASSUME NEW t \in Seq(Chars), NEW p \in Nat, p < Len(t), t[p + 1] \in Blank
  PROVE  WordsAt(t, p) = WordsAt(t, p + 1)
<1> DEFINE r == RestAt(t, p)
<1>1. r # <<>> /\ r[1] = t[p + 1]
  BY RestChars
<1> HIDE DEF r
<1> QED
  BY <1>1, WordsHere DEF WordsStep, r

LEMMA WordsOneDigit ==
  ASSUME NEW t \in Seq(Chars), NEW p \in Nat, p < Len(t), t[p + 1] \in Digits,
         p + 1 = Len(t) \/ t[p + 2] \in Blank
  PROVE  WordsAt(t, p) = [WordsAt(t, p + 1) EXCEPT !.bytes = <<t[p + 1]>> \o @]
<1> DEFINE r == RestAt(t, p)
<1>1. r # <<>> /\ r[1] = t[p + 1] /\ t[p + 1] \notin Blank
  BY RestChars, CharFacts
<1>2. Ends(r, 1)
  <2>1. 1 \in 1 .. 2 /\ p + 1 <= Len(t) /\ p + 1 + 1 = p + 2
    OBVIOUS
  <2> QED
    BY <2>1, EndsAt
<1> HIDE DEF r
<1> QED
  BY <1>1, <1>2, WordsHere DEF WordsStep, r

LEMMA WordsTwoDigits ==
  ASSUME NEW t \in Seq(Chars), NEW p \in Nat, p + 1 < Len(t),
         t[p + 1] \in Digits, t[p + 2] \in Digits,
         p + 2 = Len(t) \/ t[p + 3] \in Blank
  PROVE  WordsAt(t, p) =
             [WordsAt(t, p + 2) EXCEPT !.bytes = <<16 * t[p + 1] + t[p + 2]>> \o @]
<1> DEFINE r == RestAt(t, p)
<1>0. p < Len(t) /\ p + 2 <= Len(t) /\ p + 1 <= Len(t) /\ p + 1 # Len(t)
      /\ 1 \in 1 .. 2 /\ 2 \in 1 .. 2 /\ p + 1 + 1 = p + 2 /\ p + 2 + 1 = p + 3
  OBVIOUS
<1>1. r # <<>> /\ r[1] = t[p + 1] /\ r[2] = t[p + 2] /\ Len(r) > 1
      /\ t[p + 1] \notin Blank /\ t[p + 2] \notin Blank
  <2>1. r # <<>> /\ Len(r) > 1
    BY <1>0, RestChars
  <2>2. 1 \in 1 .. 3 /\ 2 \in 1 .. 3
    OBVIOUS
  <2>3. r[1] = t[p + 1] /\ r[2] = t[p + 2]
    BY <1>0, <2>2, RestChar
  <2> QED
    BY <2>1, <2>3, CharFacts
<1>2. Ends(r, 2) /\ ~Ends(r, 1)
  BY <1>0, <1>1, EndsAt
<1>3. WordsAt(t, p) = WordsStep(r, WordsAt(t, p + 1), WordsAt(t, p + 2))
  BY <1>0, WordsHere
<1> HIDE DEF r
<1> QED
  BY <1>1, <1>2, <1>3 DEF WordsStep

(* Three digits, or less than three and a foreign character.                *)
LEMMA WordsThreeDigits ==
  ASSUME NEW t \in Seq(Chars), NEW p \in Nat, p + 2 < Len(t),
         t[p + 1] \in Digits, t[p + 2] \in Digits, t[p + 3] \in Digits
  PROVE  WordsAt(t, p) = [bytes |-> <<>>, why |-> "num"]
<1> DEFINE r == RestAt(t, p)
<1>0. p < Len(t) /\ p + 2 <= Len(t) /\ p + 1 <= Len(t) /\ p + 1 # Len(t) /\ p + 2 # Len(t)
      /\ p + 3 <= Len(t) /\ 1 \in 1 .. 2 /\ 2 \in 1 .. 2 /\ p + 1 + 1 = p + 2 /\ p + 2 + 1 = p + 3
  OBVIOUS
<1>1. /\ r # <<>> /\ Len(r) \in Nat /\ Len(r) >= 3
      /\ r[1] = t[p + 1] /\ r[2] = t[p + 2] /\ r[3] = t[p + 3]
      /\ \A i \in 1 .. 3 : r[i] \notin Blank /\ r[i] # Other
  <2>1. r # <<>> /\ Len(r) \in Nat /\ Len(r) >= 3
    BY <1>0, RestChars
  <2>2. 1 \in 1 .. 3 /\ 2 \in 1 .. 3 /\ 3 \in 1 .. 3
    OBVIOUS
  <2>3. r[1] = t[p + 1] /\ r[2] = t[p + 2] /\ r[3] = t[p + 3]
    BY <1>0, <2>2, RestChar
  <2>4. \A i \in 1 .. 3 : i = 1 \/ i = 2 \/ i = 3
    OBVIOUS
  <2> QED
    BY <2>1, <2>3, <2>4, CharFacts
<1>2. ~Ends(r, 2) /\ ~Ends(r, 1)
  <2>1. t[p + 2] \notin Blank /\ t[p + 3] \notin Blank
    BY CharFacts
  <2> QED
    BY <1>0, <2>1, EndsAt
<1>3. WordsAt(t, p) = WordsStep(r, WordsAt(t, p + 1), WordsAt(t, p + 2))
  BY <1>0, WordsHere
<1>4. Other \notin Starts(r, 3)
  <2>1. Min({3, Len(r)}) = 3
    BY <1>1 DEF Min
  <2>2. Starts(r, 3) = {r[1], r[2], r[3]}
    <3>1. 1 .. 3 = {1, 2, 3}
      OBVIOUS
    <3> HIDE DEF r
    <3> QED
      BY <2>1, <3>1 DEF Starts
  <2> HIDE DEF r
  <2> QED
    BY <1>1, <2>2
<1>5. r[1] \notin Blank
  BY <1>1
<1> HIDE DEF r
<1> QED
  BY <1>2, <1>3, <1>4, <1>5, <1>1 DEF WordsStep

LEMMA WordsOther ==
  ASSUME NEW t \in Seq(Chars), NEW p \in Nat, NEW k \in 0 .. 2, p + k < Len(t),
         t[p + k + 1] = Other, \A i \in 1 .. k : t[p + i] \in Digits
  PROVE  WordsAt(t, p) = [bytes |-> <<>>, why |-> "char"]
<1> DEFINE r == RestAt(t, p)
<1>0. p < Len(t) /\ p + (k + 1) <= Len(t) /\ k + 1 \in Nat \ {0} /\ p + (k + 1) = p + k + 1
  OBVIOUS
<1>1. /\ r # <<>> /\ Len(r) \in Nat /\ Len(r) >= k + 1 /\ r[k + 1] = Other
      /\ \A i \in 1 .. k : r[i] \in Digits
  <2>1. r # <<>> /\ Len(r) = Len(t) - p /\ r[k + 1] = Other
    BY <1>0, RestChars
  <2>2. \A i \in 1 .. k : p + i <= Len(t) /\ i \in Nat \ {0}
    OBVIOUS
  <2>3. \A i \in 1 .. k : r[i] = t[p + i]
    BY <1>0, <2>2, RestChars
  <2> QED
    BY <2>1, <2>3
<1> HIDE DEF r
<1>2. ~(r[1] \in Digits /\ Ends(r, 1))
  BY <1>1, CharFacts DEF Ends
<1>3. ~({r[1], r[2]} \subseteq Digits /\ Ends(r, 2))
  <2>1. k = 0 \/ k = 1 \/ k = 2
    OBVIOUS
  <2>2. k < 2 => Other \in {r[1], r[2]}
    BY <1>1, <2>1
  <2>3. k = 2 => r[3] = Other /\ Len(r) # 2
    BY <1>1
  <2> QED
    BY <2>1, <2>2, <2>3, CharFacts DEF Ends
<1>4. Other \in Starts(r, 3)
  <2>1. Min({3, Len(r)}) = IF Len(r) >= 3 THEN 3 ELSE Len(r)
    BY <1>1 DEF Min
  <2>2. k + 1 \in 1 .. Min({3, Len(r)})
    BY <1>1, <2>1
  <2> QED
    BY <1>1, <2>2 DEF Starts
<1>5. r[1] \notin Blank
  BY <1>1, CharFacts
<1>6. WordsAt(t, p) = WordsStep(r, WordsAt(t, p + 1), WordsAt(t, p + 2))
  BY <1>0, WordsHere DEF r
<1> QED
  BY <1>1, <1>2, <1>3, <1>4, <1>5, <1>6 DEF WordsStep

------------------------------------------------------------------------------
(* Bytes that are an item, before others.                                   *)
LEMMA CutFirst ==
  ASSUME NEW b \in Seq(Byte), Fits(b), ItemSize(b) = Len(b), NEW x \in Seq(Byte)
  PROVE  Cut(b \o x) = IF ItemValid(b) THEN [Cut(x) EXCEPT !.items = <<b>> \o @]
                       ELSE Found(<<>>, "invalid")
<1> DEFINE r == b \o x
           n == Len(b)
<1>1. /\ r \in Seq(Byte) /\ Len(r) = n + Len(x) /\ n \in Nat /\ n >= 1 /\ Len(x) \in Nat
      /\ \A i \in 1 .. n : r[i] = b[i]
      /\ \A i \in n + 1 .. n + Len(x) : r[i] = x[i - n]
  BY ConcatProperties DEF Fits
<1>2. r # <<>> /\ r[1] = b[1]
  <2>1. 1 \in 1 .. n
    BY <1>1
  <2>2. Len(r) >= 1
    BY <1>1
  <2> HIDE DEF r, n
  <2> QED
    BY <1>1, <2>1, <2>2
<1>3. IsLong(b[1]) => n >= 3 /\ r[2] = b[2]
  <2>1. IsLong(b[1]) => n >= 3
    BY DEF Fits
  <2>2. n >= 3 => 2 \in 1 .. n
    BY <1>1
  <2> HIDE DEF r, n
  <2> QED
    BY <1>1, <2>1, <2>2
<1>4. ItemSize(r) = n
  <2>1. ItemSize(b) = IF IsLong(b[1]) THEN 3 + b[2] ELSE 1 + DataBytes(b[1])
    BY DEF ItemSize
  <2>2. ItemSize(r) = IF IsLong(b[1]) THEN 3 + r[2] ELSE 1 + DataBytes(b[1])
    BY <1>2 DEF ItemSize
  <2> HIDE DEF r
  <2> QED
    BY <1>3, <2>1, <2>2
<1>5. Fits(r)
  <2>1. Len(r) >= n /\ Len(r) >= 1 /\ (n >= 3 => Len(r) >= 3)
    BY <1>1
  <2> HIDE DEF r, n
  <2> QED
    BY <1>2, <1>3, <1>4, <2>1 DEF Fits
<1>6. FirstItem(r) = b
  <2>1. SubSeq(r, 1, n) = b
    BY <1>1
  <2> HIDE DEF r, n
  <2> QED
    BY <1>4, <2>1 DEF FirstItem
<1>7. AfterFirst(r) = x
  <2>1. SubSeq(r, n + 1, Len(r)) = [i \in 1 .. Len(x) |-> r[i + n]]
    <3> HIDE DEF r, n
    <3>1. (n + Len(x)) - n = Len(x)
      BY <1>1
    <3> QED
      BY <1>1, <3>1
  <2>2. \A i \in 1 .. Len(x) : i + n \in n + 1 .. n + Len(x) /\ (i + n) - n = i
    BY <1>1
  <2>3. x = [i \in 1 .. Len(x) |-> x[i]]
    OBVIOUS
  <2> HIDE DEF r, n
  <2>4. \A i \in 1 .. Len(x) : r[i + n] = x[i]
    BY <1>1, <2>2
  <2> QED
    BY <1>4, <2>1, <2>3, <2>4 DEF AfterFirst
<1>8. Cut(r) = CutStep(r, Cut(x))
  <2> HIDE DEF r
  <2> QED
    BY <1>1, <1>7, CutDef
<1> HIDE DEF r, n
<1>9. Cut(r) = IF ItemValid(b) THEN [Cut(x) EXCEPT !.items = <<b>> \o @]
               ELSE Found(<<>>, "invalid")
  BY <1>2, <1>5, <1>6, <1>8 DEF CutStep
<1> QED
  BY <1>9 DEF r

(* Bytes that are not enough for one.                                       *)
LEMMA CutPart ==
  ASSUME NEW b \in Seq(Byte), ~Fits(b)
  PROVE  Cut(b) = Found(<<>>, IF b = <<>> THEN "none" ELSE "short")
BY CutDef DEF CutStep

(* A byte that completes an item is its last.                               *)
LEMMA ByteCompletes ==
  ASSUME NEW b \in Seq(Byte), ~Fits(b), NEW x \in Byte, Fits(Append(b, x))
  PROVE  ItemSize(Append(b, x)) = Len(Append(b, x))
<1> DEFINE c == Append(b, x)
           n == Len(b)
<1>1. /\ c \in Seq(Byte) /\ Len(c) = n + 1 /\ n \in Nat
      /\ \A i \in 1 .. n : c[i] = b[i]
  BY AppendProperties
<1>2. ItemSize(c) \in 1 .. n + 1
  <2> HIDE DEF n
  <2>1. Fits(c) /\ c \in Seq(Byte)
    BY <1>1
  <2> HIDE DEF c
  <2> QED
    BY <1>1, <2>1, FirstFacts
<1>3. /\ ~(n >= 1 /\ (IsLong(b[1]) => n >= 3) /\ n >= ItemSize(b))
      /\ IsLong(c[1]) => n + 1 >= 3
  <2> HIDE DEF c
  <2>1. IsLong(c[1]) => Len(c) >= 3
    BY DEF Fits, c
  <2>2. ~(n >= 1 /\ (IsLong(b[1]) => n >= 3) /\ n >= ItemSize(b))
    BY DEF Fits
  <2> HIDE DEF n
  <2> QED
    BY <1>1, <2>1, <2>2
<1>4. n >= 1 => c[1] = b[1]
  <2>1. n >= 1 => 1 \in 1 .. n
    BY <1>1
  <2> HIDE DEF c, n
  <2> QED
    BY <1>1, <2>1
<1>5. n >= 2 => c[2] = b[2] /\ b[2] \in Byte
  <2>1. n >= 2 => 2 \in 1 .. n
    BY <1>1
  <2>2. n >= 2 => b[2] \in Byte
    BY <2>1
  <2> HIDE DEF c, n
  <2> QED
    BY <1>1, <2>1, <2>2
<1>6. /\ ItemSize(c) = IF IsLong(c[1]) THEN 3 + c[2] ELSE 1 + DataBytes(c[1])
      /\ ItemSize(b) = IF IsLong(b[1]) THEN 3 + b[2] ELSE 1 + DataBytes(b[1])
  BY DEF ItemSize
<1>7. \A y \in Byte : y \in Nat
  BY DEF Byte
<1> HIDE DEF c, n
<1>8. ItemSize(c) > n
  <2>1. CASE n = 0
    BY <1>2, <2>1
  <2>2. CASE n >= 1 /\ ~IsLong(b[1])
    BY <1>1, <1>2, <1>3, <1>4, <1>6, <2>2
  <2>3. CASE n >= 1 /\ IsLong(b[1])
    <3>1. n >= 2 /\ ItemSize(c) = 3 + b[2] /\ ItemSize(b) = 3 + b[2] /\ b[2] \in Nat
      BY <1>1, <1>3, <1>4, <1>5, <1>6, <1>7, <2>3
    <3> QED
      BY <1>1, <1>3, <2>3, <3>1
  <2> QED
    BY <1>1, <2>1, <2>2, <2>3
<1> QED
  BY <1>1, <1>2, <1>8 DEF c

------------------------------------------------------------------------------
(* Where the source is in the text: the digits of the word that it has read *)
(* make the byte, and the word is what the text goes on with.               *)
WordStart == rat - rlen \div 4
PlaceInv ==
    /\ rtext \in Seq(Chars)
    /\ rpos \in 0 .. Len(rtext)
    /\ rat \in 0 .. Len(rtext)
    /\ rlen \in {0, 4, 8}
    /\ WordStart \in Nat
    /\ \A i \in 1 .. rlen \div 4 : rtext[WordStart + i] \in Digits
    /\ rlen = 0 => rbyte = 0
    /\ rlen = 4 => rbyte = rtext[WordStart + 1]
    /\ rlen = 8 => rbyte = 16 * rtext[WordStart + 1] + rtext[WordStart + 2]
    /\ rbusy => WordsAt(rtext, rpos) = WordsAt(rtext, WordStart)

(* What it has decoded is no more than an item.                             *)
PartInv == rbuf \in Seq(Byte) /\ (Fits(rbuf) => ItemSize(rbuf) = Len(rbuf))

(* The items returned and those in what is left, the decoded bytes first,   *)
(* are the items of the text.                                               *)
Left == rbuf \o WordsAt(rtext, rpos).bytes
MeantInv ==
    /\ rmeant = Decoded(rtext)
    /\ rgot \in Seq(Seq(Byte))
    /\ Cut(Words(rtext).bytes).items = rgot \o Cut(Left).items
    /\ Cut(Words(rtext).bytes).why = Cut(Left).why
    /\ Words(rtext).why = WordsAt(rtext, rpos).why
SrcInv == PlaceInv /\ PartInv /\ MeantInv /\ Src!ErrorRight

LEMMA DivFacts == 0 \div 4 = 0 /\ 4 \div 4 = 1 /\ 8 \div 4 = 2
OBVIOUS

LEMMA WordsAtType ==
  ASSUME NEW t \in Seq(Chars), NEW p \in Nat
  PROVE  /\ WordsAt(t, p) = [bytes |-> WordsAt(t, p).bytes, why |-> WordsAt(t, p).why]
         /\ WordsAt(t, p).bytes \in Seq(Byte)
<1>1. WordsAt(t, p) \in Readings
  BY RestFacts, WordsType DEF WordsAt
<1> QED
  BY <1>1 DEF Readings

(* The word that ends here is the byte that was read.                       *)
LEMMA WordTaken ==
  ASSUME PlaceInv, rbusy, rlen # 0, rat >= Len(rtext) \/ rtext[rat + 1] \in Blank
  PROVE  /\ WordsAt(rtext, rpos).bytes = <<rbyte>> \o WordsAt(rtext, rat).bytes
         /\ WordsAt(rtext, rpos).why = WordsAt(rtext, rat).why
         /\ rbyte \in Byte
<1> DEFINE s == WordStart
<1>1. rtext \in Seq(Chars) /\ s \in Nat /\ rat \in Nat /\ rat <= Len(rtext) /\ Len(rtext) \in Nat
      /\ WordsAt(rtext, rpos) = WordsAt(rtext, s)
  BY DEF PlaceInv
<1>2. rat = Len(rtext) \/ rtext[rat + 1] \in Blank
  BY <1>1
<1>3. WordsAt(rtext, rat) = [bytes |-> WordsAt(rtext, rat).bytes, why |-> WordsAt(rtext, rat).why]
  BY <1>1, WordsAtType
<1>4. CASE rlen = 4
  <2>1. rat = s + 1 /\ rbyte = rtext[s + 1] /\ 1 \in 1 .. rlen \div 4
    BY <1>1, <1>4, DivFacts DEF PlaceInv, WordStart
  <2>2. rtext[s + 1] \in Digits
    BY <2>1 DEF PlaceInv
  <2> HIDE DEF s
  <2>3. s < Len(rtext) /\ (s + 1 = Len(rtext) \/ rtext[s + 2] \in Blank)
    BY <1>1, <1>2, <2>1
  <2>4. WordsAt(rtext, s) = [WordsAt(rtext, s + 1) EXCEPT !.bytes = <<rtext[s + 1]>> \o @]
    BY <1>1, <2>2, <2>3, WordsOneDigit
  <2> QED
    BY <1>1, <1>3, <2>1, <2>2, <2>4, CharFacts
<1>5. CASE rlen = 8
  <2>1. rat = s + 2 /\ rbyte = 16 * rtext[s + 1] + rtext[s + 2]
        /\ 1 \in 1 .. rlen \div 4 /\ 2 \in 1 .. rlen \div 4
    BY <1>1, <1>5, DivFacts DEF PlaceInv, WordStart
  <2>2. rtext[s + 1] \in Digits /\ rtext[s + 2] \in Digits
    BY <2>1 DEF PlaceInv
  <2> HIDE DEF s
  <2>3. s + 1 < Len(rtext) /\ (s + 2 = Len(rtext) \/ rtext[s + 3] \in Blank)
    BY <1>1, <1>2, <2>1
  <2>4. WordsAt(rtext, s) =
            [WordsAt(rtext, s + 2) EXCEPT !.bytes = <<16 * rtext[s + 1] + rtext[s + 2]>> \o @]
    BY <1>1, <2>2, <2>3, WordsTwoDigits
  <2>5. 16 * rtext[s + 1] + rtext[s + 2] \in Byte
    BY <2>2, CharFacts
  <2> QED
    BY <1>1, <1>3, <2>1, <2>4, <2>5
<1> QED
  BY <1>4, <1>5 DEF PlaceInv

LEMMA JoinAppended ==
  ASSUME NEW b \in Seq(Byte), NEW x \in Byte, NEW y \in Seq(Byte)
  PROVE  Append(b, x) \o y = b \o (<<x>> \o y) /\ Append(b, x) \in Seq(Byte)
<1> HIDE DEF Byte
<1>1. Append(b, x) \in Seq(Byte)
  OBVIOUS
<1>2. Append(b, x) \o y = b \o (<<x>> \o y)
  OBVIOUS
<1> QED
  BY <1>1, <1>2

------------------------------------------------------------------------------
(* The source's own text and items are those of the sink.                   *)
LEMMA SameCodec ==
  /\ \A b : Src!Fits(b) <=> Fits(b)
  /\ \A b : Src!ItemValid(b) <=> ItemValid(b)
  /\ Src!Digits = Digits /\ Src!Blank = Blank /\ Src!Other = Other /\ Src!Newline = Newline
<1>1. \A b : Src!Fits(b) <=> Fits(b)
  BY DEF Src!Fits, Fits, Src!ItemSize, ItemSize, Src!IsLong, IsLong, Src!TagOf, TagOf,
     Src!DataBytes, DataBytes, Src!SizeCode, SizeCode
<1>2. \A b : Src!ItemValid(b) <=> ItemValid(b)
  BY Zenon DEF Src!ItemValid, ItemValid, Src!IsLong, IsLong, Src!TagOf, TagOf, Src!TypeOf,
     TypeOf, Src!TagValid, TagValid, Src!ValueValid, ValueValid, Src!Main, Main, Src!Global,
     Global, Src!Local, Local, Src!CollectionTypeValid, CollectionTypeValid,
     Src!UsagePageValid, UsagePageValid, Src!ReportIdValid, ReportIdValid, Src!DelimiterValid,
     DelimiterValid, Src!HighZero, HighZero, Src!DataByte, DataByte, Src!Data, Data
<1>3. Src!Digits = Digits /\ Src!Blank = Blank /\ Src!Other = Other /\ Src!Newline = Newline
  BY DEF Src!Digits, Digits, Src!Blank, Blank, Src!Other, Other, Src!Newline, Newline,
     Src!Space, Space
<1> QED
  BY <1>1, <1>2, <1>3

LEMMA SameMeaning == \A t : Src!Decoded(t) = Decoded(t)
<1>1. \A b : Src!Cut(b) = Cut(b)
  BY Zenon DEF Src!Cut, Cut, Src!Byte, Byte, Src!Found, Found, Src!Fits, Fits, Src!ItemSize,
     ItemSize, Src!IsLong, IsLong, Src!TagOf, TagOf, Src!DataBytes, DataBytes, Src!SizeCode,
     SizeCode, Src!ItemValid, ItemValid, Src!TypeOf, TypeOf, Src!TagValid, TagValid,
     Src!ValueValid, ValueValid, Src!Main, Main, Src!Global, Global, Src!Local, Local,
     Src!CollectionTypeValid, CollectionTypeValid, Src!UsagePageValid, UsagePageValid,
     Src!ReportIdValid, ReportIdValid, Src!DelimiterValid, DelimiterValid, Src!HighZero,
     HighZero, Src!DataByte, DataByte, Src!Data, Data
<1>2. \A t : Src!Words(t) = Words(t)
  BY Zenon DEF Src!Words, Words, Src!Chars, Chars, Src!Digits, Digits, Src!Blank, Blank,
     Src!Other, Other, Src!Newline, Newline, Src!Space, Space, Src!Ends, Ends, Src!Min, Min
<1> QED
  BY <1>1, <1>2 DEF Src!Decoded, Decoded

------------------------------------------------------------------------------
(* A byte that is taken moves from the text to the decoded ones.            *)
LEMMA TakeKeeps ==
  ASSUME SrcInv, rbusy, rlen # 0, ~Fits(rbuf), rat >= Len(rtext) \/ rtext[rat + 1] \in Blank,
         rbuf' = Append(rbuf, rbyte), rpos' = rat, rat' = rat, rbyte' = 0, rlen' = 0,
         UNCHANGED <<rtext, rmeant, rerror, rerr, rgot, rended>>
  PROVE  SrcInv'
<1>1. /\ WordsAt(rtext, rpos).bytes = <<rbyte>> \o WordsAt(rtext, rat).bytes
      /\ WordsAt(rtext, rpos).why = WordsAt(rtext, rat).why
      /\ rbyte \in Byte
  BY WordTaken DEF SrcInv
<1>2. rbuf \in Seq(Byte) /\ rtext \in Seq(Chars) /\ rat \in 0 .. Len(rtext) /\ rat \in Nat
  BY DEF SrcInv, PlaceInv, PartInv
<1>3. WordStart' = rat
  BY <1>2, DivFacts DEF WordStart
<1>4. PlaceInv'
  BY <1>2, <1>3, DivFacts DEF PlaceInv
<1>5. PartInv'
  <2>1. Append(rbuf, rbyte) \in Seq(Byte)
    BY <1>1, <1>2, JoinAppended
  <2>2. Fits(Append(rbuf, rbyte)) =>
            ItemSize(Append(rbuf, rbyte)) = Len(Append(rbuf, rbyte))
    BY <1>1, <1>2, ByteCompletes
  <2> QED
    BY <2>1, <2>2 DEF PartInv
<1>6. Left' = Left
  <2> DEFINE w == WordsAt(rtext, rat).bytes
  <2>1. w \in Seq(Byte)
    BY <1>2, WordsAtType
  <2>2. Left' = Append(rbuf, rbyte) \o w
    BY DEF Left
  <2> HIDE DEF w
  <2>3. Append(rbuf, rbyte) \o w = rbuf \o (<<rbyte>> \o w)
    BY <1>1, <1>2, <2>1, JoinAppended
  <2> QED
    BY <1>1, <2>2, <2>3 DEF Left, w
<1>7. MeantInv'
  BY <1>1, <1>6 DEF SrcInv, MeantInv
<1>8. Src!ErrorRight'
  BY DEF SrcInv, Src!ErrorRight
<1> QED
  BY <1>4, <1>5, <1>7, <1>8 DEF SrcInv

(* A step that neither moves nor decodes.                                   *)
LEMMA PauseKeeps ==
  ASSUME SrcInv,
         UNCHANGED <<rtext, rmeant, rpos, rbuf, rgot, rat, rbyte, rlen>>,
         rbusy' => rbusy, Src!ErrorRight'
  PROVE  SrcInv'
<1>1. WordStart' = WordStart /\ Left' = Left
  BY DEF WordStart, Left
<1>2. PlaceInv' /\ PartInv' /\ MeantInv'
  BY <1>1 DEF SrcInv, PlaceInv, PartInv, MeantInv
<1> QED
  BY <1>2 DEF SrcInv

(* What is wrong with the text when no word more can be read from it.       *)
LEMMA ProblemHere ==
  ASSUME SrcInv, ~Fits(rbuf), NEW why, WordsAt(rtext, rpos) = [bytes |-> <<>>, why |-> why]
  PROVE  /\ rmeant.items = rgot
         /\ rmeant.problem = IF why # "none" THEN why
                             ELSE IF rbuf = <<>> THEN "none" ELSE "short"
<1> DEFINE all == Cut(Words(rtext).bytes)
<1>1. rbuf \in Seq(Byte) /\ rgot \in Seq(Seq(Byte))
  BY DEF SrcInv, PartInv, MeantInv
<1>2. Left = rbuf
  BY <1>1 DEF Left
<1>3. Cut(Left) = Found(<<>>, IF rbuf = <<>> THEN "none" ELSE "short")
  BY <1>1, <1>2, CutPart
<1>4. /\ all.items = rgot \o <<>> /\ all.why = IF rbuf = <<>> THEN "none" ELSE "short"
      /\ Words(rtext).why = why
  BY <1>3 DEF SrcInv, MeantInv, Found
<1>5. rmeant = [items |-> all.items,
                problem |-> IF all.why = "invalid" \/ Words(rtext).why = "none" THEN all.why
                            ELSE Words(rtext).why]
  BY DEF SrcInv, MeantInv, Decoded
<1>6. rgot \o <<>> = rgot
  BY <1>1
<1> HIDE DEF all
<1> QED
  BY <1>4, <1>5, <1>6

(* An item that fits is the next of the text.                               *)
LEMMA ItemHere ==
  ASSUME SrcInv, Fits(rbuf)
  PROVE  /\ rbuf \in Seq(Byte)
         /\ ItemValid(rbuf) =>
                /\ Cut(Left) = [Cut(WordsAt(rtext, rpos).bytes) EXCEPT !.items = <<rbuf>> \o @]
                /\ Cut(WordsAt(rtext, rpos).bytes).items \in Seq(Seq(Byte))
                /\ Cut(Left).items = <<rbuf>> \o Cut(WordsAt(rtext, rpos).bytes).items
                /\ Cut(Left).why = Cut(WordsAt(rtext, rpos).bytes).why
         /\ ~ItemValid(rbuf) => rmeant.items = rgot /\ rmeant.problem = "invalid"
<1> DEFINE w == WordsAt(rtext, rpos).bytes
           all == Cut(Words(rtext).bytes)
<1>1. rbuf \in Seq(Byte) /\ ItemSize(rbuf) = Len(rbuf) /\ rgot \in Seq(Seq(Byte))
      /\ rtext \in Seq(Chars) /\ rpos \in Nat
  BY DEF SrcInv, PartInv, PlaceInv, MeantInv
<1>2. w \in Seq(Byte)
  BY <1>1, WordsAtType
<1>3. Left = rbuf \o w
  BY DEF Left
<1> HIDE DEF w
<1>4. Cut(Left) = IF ItemValid(rbuf) THEN [Cut(w) EXCEPT !.items = <<rbuf>> \o @]
                  ELSE Found(<<>>, "invalid")
  BY <1>1, <1>2, <1>3, CutFirst
<1>5. Cut(w) = [items |-> Cut(w).items, why |-> Cut(w).why] /\ Cut(w).items \in Seq(Seq(Byte))
  BY <1>2, CutType
<1>6. ~ItemValid(rbuf) => rmeant.items = rgot /\ rmeant.problem = "invalid"
  <2> SUFFICES ASSUME ~ItemValid(rbuf) PROVE rmeant.items = rgot /\ rmeant.problem = "invalid"
    OBVIOUS
  <2>1. all.items = rgot \o <<>> /\ all.why = "invalid"
    BY <1>4 DEF SrcInv, MeantInv, Found
  <2>2. rmeant = [items |-> all.items,
                  problem |-> IF all.why = "invalid" \/ Words(rtext).why = "none" THEN all.why
                              ELSE Words(rtext).why]
    BY DEF SrcInv, MeantInv, Decoded
  <2>3. rgot \o <<>> = rgot
    BY <1>1
  <2> HIDE DEF all
  <2> QED
    BY <2>1, <2>2, <2>3
<1>7. ItemValid(rbuf) =>
         /\ Cut(Left) = [Cut(w) EXCEPT !.items = <<rbuf>> \o @]
         /\ Cut(Left).items = <<rbuf>> \o Cut(w).items
         /\ Cut(Left).why = Cut(w).why
  <2> SUFFICES ASSUME ItemValid(rbuf)
               PROVE  /\ Cut(Left) = [Cut(w) EXCEPT !.items = <<rbuf>> \o @]
                      /\ Cut(Left).items = <<rbuf>> \o Cut(w).items
                      /\ Cut(Left).why = Cut(w).why
    OBVIOUS
  <2> DEFINE i == Cut(w).items
             y == Cut(w).why
             j == <<rbuf>> \o i
  <2>1. Cut(Left) = [[items |-> i, why |-> y] EXCEPT !.items = <<rbuf>> \o @]
    BY <1>4, <1>5
  <2>2. Cut(Left) = [items |-> j, why |-> y]
    <3> HIDE DEF i, y
    <3> QED
      BY <2>1
  <2> HIDE DEF j
  <2>3. Cut(Left).items = j /\ Cut(Left).why = y
    BY <2>2
  <2> QED
    BY <1>4, <2>3 DEF j
<1> QED
  BY <1>1, <1>5, <1>6, <1>7 DEF w

(* Reading one character.                                                   *)
LEMMA GetKeeps == SrcInv /\ Src!Get => SrcInv'
<1> SUFFICES ASSUME SrcInv, Src!Get PROVE SrcInv'
  OBVIOUS
<1>1. /\ rat' = rpos /\ rbyte' = 0 /\ rlen' = 0
      /\ UNCHANGED <<rtext, rmeant, rpos, rbuf, rerror, rerr, rgot, rended>>
  BY DEF Src!Get, Src!StartWord, Src!place
<1>2. WordStart' = rpos /\ rpos \in Nat
  BY <1>1, DivFacts DEF WordStart, SrcInv, PlaceInv
<1>3. PlaceInv'
  BY <1>1, <1>2, DivFacts DEF SrcInv, PlaceInv
<1>4. Left' = Left
  BY <1>1 DEF Left
<1>5. PartInv' /\ MeantInv' /\ Src!ErrorRight'
  BY <1>1, <1>4 DEF SrcInv, PartInv, MeantInv, Src!ErrorRight
<1> QED
  BY <1>3, <1>5 DEF SrcInv

LEMMA EndKeeps == SrcInv /\ Src!ReadEnd => SrcInv'
<1> SUFFICES ASSUME SrcInv, Src!ReadEnd PROVE SrcInv'
  OBVIOUS
<1>1. rbusy /\ ~Fits(rbuf) /\ rat >= Len(rtext) /\ rpos' = rat
  BY SameCodec DEF Src!ReadEnd, Src!Reading
<1>2. CASE rlen > 0
  <2>1. /\ rbuf' = Append(rbuf, rbyte) /\ rat' = rat /\ rbyte' = 0 /\ rlen' = 0
        /\ UNCHANGED <<rtext, rmeant, rerror, rerr, rgot, rended>>
    BY <1>2 DEF Src!ReadEnd, Src!TakeByte, Src!StartWord
  <2> QED
    BY <1>1, <1>2, <2>1, TakeKeeps
<1>3. CASE ~(rlen > 0)
  <2>1. rlen = 0
    BY <1>3 DEF SrcInv, PlaceInv
  <2>2. /\ rtext \in Seq(Chars) /\ rat \in Nat /\ rat = Len(rtext) /\ rpos \in Nat
        /\ WordStart = rat /\ WordsAt(rtext, rpos) = WordsAt(rtext, rat)
    BY <1>1, <2>1, DivFacts DEF SrcInv, PlaceInv, WordStart
  <2>3. WordsAt(rtext, rpos) = [bytes |-> <<>>, why |-> "none"]
    BY <2>2, WordsEnd
  <2>4. /\ rmeant.items = rgot
        /\ rmeant.problem = IF rbuf = <<>> THEN "none" ELSE "short"
    BY <1>1, <2>3, ProblemHere
  <2>5. /\ UNCHANGED <<rtext, rmeant, rbuf, rat, rbyte, rlen, rgot>>
        /\ \/ rbuf # <<>> /\ rerr' = "short" /\ rended' = rended
           \/ /\ rbuf = <<>> \/ rerror
              /\ (rerror' => rerror) /\ rerr' = rerr /\ (rended' => rended \/ ~rerror)
    <3>1. \/ rbuf # <<>> /\ Src!Fail("short") /\ UNCHANGED rbuf
          \/ /\ rbuf = <<>> \/ rerror
             /\ rended' = (rended \/ ~rerror)
             /\ UNCHANGED <<rtext, rmeant, rbuf, rerror, rerr, Src!word, rgot>>
      BY <2>1 DEF Src!ReadEnd
    <3>2. \/ /\ rbuf # <<>> /\ rerr' = "short" /\ rended' = rended
             /\ UNCHANGED <<rtext, rmeant, rbuf, rat, rbyte, rlen, rgot>>
          \/ /\ rbuf = <<>> \/ rerror
             /\ rerror' = rerror /\ rended' = (rended \/ ~rerror)
             /\ UNCHANGED <<rtext, rmeant, rbuf, rat, rbyte, rlen, rgot, rerr>>
      BY <3>1 DEF Src!Fail, Src!word
    <3>3. rended' = (rended \/ ~rerror) => (rended' => rended \/ ~rerror)
      BY Zenon
    <3>4. rerror' = rerror => (rerror' => rerror)
      BY Zenon
    <3> QED
      BY <3>2, <3>3, <3>4
  <2>6. rbusy' = FALSE
    BY <2>1 DEF Src!ReadEnd, Src!Fail
  <2>7. PlaceInv' /\ PartInv'
    BY <1>1, <2>2, <2>5, <2>6 DEF SrcInv, PlaceInv, PartInv, WordStart
  <2>8. MeantInv'
    <3>1. Left' = Left
      BY <1>1, <2>2, <2>5 DEF Left
    <3> QED
      BY <1>1, <2>2, <2>5, <3>1 DEF SrcInv, MeantInv
  <2>9. Src!ErrorRight'
    <3>1. rended => rmeant.problem = "none"
      BY DEF SrcInv, Src!ErrorRight
    <3>2. rerror => rerr = rmeant.problem
      BY DEF SrcInv, Src!ErrorRight
    <3> QED
      BY <2>4, <2>5, <3>1, <3>2 DEF Src!ErrorRight
  <2> QED
    BY <2>7, <2>8, <2>9 DEF SrcInv
<1> QED
  BY <1>2, <1>3

LEMMA DigitKeeps == SrcInv /\ Src!ReadDigit => SrcInv'
<1> SUFFICES ASSUME SrcInv, Src!ReadDigit PROVE SrcInv'
  OBVIOUS
<1> DEFINE c == rtext[rat + 1]
           s == WordStart
<1>1. /\ rbusy /\ ~Fits(rbuf) /\ rat < Len(rtext) /\ c \in Digits
      /\ UNCHANGED <<rtext, rmeant, rpos, rbuf, rgot, rended>>
  BY SameCodec DEF Src!ReadDigit, Src!Reading, Src!Char, Src!Fail, Src!place
<1>2. /\ rtext \in Seq(Chars) /\ rat \in Nat /\ s \in Nat /\ rpos \in Nat
      /\ WordsAt(rtext, rpos) = WordsAt(rtext, s)
      /\ \A i \in 1 .. rlen \div 4 : rtext[s + i] \in Digits
      /\ s = rat - rlen \div 4
  BY <1>1 DEF SrcInv, PlaceInv, WordStart
<1>3. c \in Nat /\ c < 16
  BY <1>1 DEF Digits
<1>4. CASE rlen < 8
  <2>1. /\ rbyte' = (rbyte * 16 + c) % 256 /\ rlen' = rlen + 4 /\ rat' = rat + 1
        /\ UNCHANGED <<rerror, rerr>> /\ rbusy' = rbusy
    <3>1. ~(rlen >= 8)
      BY <1>4 DEF SrcInv, PlaceInv
    <3> QED
      BY <3>1 DEF Src!ReadDigit, Src!Char
  <2>2. s' = s
    <3>1. CASE rlen = 0
      <4>1. rlen' = 4 /\ s = rat
        BY <1>2, <2>1, <3>1, DivFacts
      <4> QED
        BY <1>2, <2>1, <4>1, DivFacts DEF WordStart
    <3>2. CASE rlen = 4
      <4>1. rlen' = 8 /\ s = rat - 1
        BY <1>2, <2>1, <3>2, DivFacts
      <4> QED
        BY <1>2, <2>1, <4>1, DivFacts DEF WordStart
    <3> QED
      BY <1>4, <3>1, <3>2 DEF SrcInv, PlaceInv
  <2>3. CASE rlen = 0
    <3>1. rlen' = 4 /\ s = rat /\ rbyte = 0
      BY <1>2, <2>1, <2>3, DivFacts DEF SrcInv, PlaceInv
    <3>2. rbyte' = rtext[s + 1]
      <4>1. \A d \in Nat : d < 16 => (0 * 16 + d) % 256 = d
        OBVIOUS
      <4> HIDE DEF s
      <4> QED
        BY <1>3, <2>1, <3>1, <4>1
    <3>3. \A i \in 1 .. rlen' \div 4 : rtext[s + i] \in Digits
      <4>1. \A i \in 1 .. rlen' \div 4 : i = 1
        BY <3>1, DivFacts
      <4> HIDE DEF s
      <4> QED
        BY <1>1, <3>1, <4>1
    <3>4. rat' \in 0 .. Len(rtext)
      BY <1>1, <1>2, <2>1
    <3> HIDE DEF s
    <3>5. PlaceInv'
      BY <1>1, <1>2, <2>1, <2>2, <3>1, <3>2, <3>3, <3>4 DEF SrcInv, PlaceInv, s
    <3> QED
      BY <1>1, <2>1, <3>5 DEF SrcInv, PartInv, MeantInv, Left, Src!ErrorRight
  <2>4. CASE rlen = 4
    <3>1. rlen' = 8 /\ s + 1 = rat /\ rbyte = rtext[s + 1] /\ s + 2 = rat + 1
      BY <1>2, <2>1, <2>4, DivFacts DEF SrcInv, PlaceInv
    <3>2. rtext[s + 1] \in Digits
      BY <1>2, <2>4, DivFacts
    <3>3. rbyte' = 16 * rtext[s + 1] + rtext[s + 2]
      <4>1. \A d, e \in 0 .. 15 : (d * 16 + e) % 256 = 16 * d + e
        OBVIOUS
      <4> HIDE DEF s
      <4> QED
        BY <1>1, <2>1, <3>1, <3>2, <4>1 DEF Digits
    <3>4. \A i \in 1 .. rlen' \div 4 : rtext[s + i] \in Digits
      <4>1. \A i \in 1 .. rlen' \div 4 : i = 1 \/ i = 2
        BY <3>1, DivFacts
      <4> HIDE DEF s
      <4> QED
        BY <1>1, <3>1, <3>2, <4>1
    <3>5. rat' \in 0 .. Len(rtext)
      BY <1>1, <1>2, <2>1
    <3> HIDE DEF s
    <3>6. PlaceInv'
      BY <1>1, <1>2, <2>1, <2>2, <3>1, <3>3, <3>4, <3>5 DEF SrcInv, PlaceInv, s
    <3> QED
      BY <1>1, <2>1, <3>6 DEF SrcInv, PartInv, MeantInv, Left, Src!ErrorRight
  <2> QED
    BY <1>4, <2>3, <2>4 DEF SrcInv, PlaceInv
<1>5. CASE ~(rlen < 8)
  <2>1. rlen = 8 /\ s + 2 = rat
    BY <1>2, <1>5, DivFacts DEF SrcInv, PlaceInv
  <2>2. rtext[s + 1] \in Digits /\ rtext[s + 2] \in Digits /\ rtext[s + 3] \in Digits
    <3>1. 1 \in 1 .. rlen \div 4 /\ 2 \in 1 .. rlen \div 4 /\ s + 3 = rat + 1
      BY <1>2, <2>1, DivFacts
    <3> HIDE DEF s
    <3> QED
      BY <1>1, <1>2, <3>1
  <2>3. WordsAt(rtext, rpos) = [bytes |-> <<>>, why |-> "num"]
    <3>1. s + 2 < Len(rtext)
      BY <1>1, <1>2, <2>1
    <3> HIDE DEF s
    <3> QED
      BY <1>2, <2>2, <3>1, WordsThreeDigits
  <2>4. rmeant.items = rgot /\ rmeant.problem = "num"
    BY <1>1, <2>3, ProblemHere
  <2>5. rerr' = "num" /\ rbusy' = FALSE /\ UNCHANGED <<rat, rbyte, rlen>>
    BY <2>1 DEF Src!ReadDigit, Src!Fail, Src!word
  <2>6. Src!ErrorRight'
    <3>1. rended => rmeant.problem = "none"
      BY DEF SrcInv, Src!ErrorRight
    <3> QED
      BY <1>1, <2>4, <2>5, <3>1 DEF Src!ErrorRight
  <2> QED
    BY <1>1, <2>5, <2>6, PauseKeeps
<1> QED
  BY <1>4, <1>5

LEMMA BlankKeeps == SrcInv /\ Src!ReadBlank => SrcInv'
<1> SUFFICES ASSUME SrcInv, Src!ReadBlank PROVE SrcInv'
  OBVIOUS
<1>1. /\ rbusy /\ ~Fits(rbuf) /\ rat < Len(rtext) /\ rtext[rat + 1] \in Blank
      /\ rpos' = rat /\ rbusy' = rbusy
      /\ UNCHANGED <<rtext, rmeant, rerror, rerr, rgot, rended>>
  BY SameCodec DEF Src!ReadBlank, Src!Reading, Src!Char
<1>2. CASE rlen > 0
  <2>1. rbuf' = Append(rbuf, rbyte) /\ rat' = rat /\ rbyte' = 0 /\ rlen' = 0
    BY <1>2 DEF Src!ReadBlank, Src!TakeByte, Src!StartWord
  <2> QED
    BY <1>1, <1>2, <2>1, TakeKeeps
<1>3. CASE ~(rlen > 0)
  <2>1. rlen = 0 /\ rat' = rat + 1 /\ UNCHANGED <<rbuf, rbyte, rlen>>
    BY <1>3 DEF Src!ReadBlank, SrcInv, PlaceInv
  <2>2. /\ rtext \in Seq(Chars) /\ rat \in Nat /\ rpos \in Nat
        /\ WordStart = rat /\ WordsAt(rtext, rpos) = WordsAt(rtext, rat)
    BY <1>1, <2>1, DivFacts DEF SrcInv, PlaceInv, WordStart
  <2>3. WordsAt(rtext, rat) = WordsAt(rtext, rat + 1)
    BY <1>1, <2>2, WordsBlank
  <2>4. WordStart' = rat + 1
    BY <2>1, <2>2, DivFacts DEF WordStart
  <2>5. rat' \in 0 .. Len(rtext) /\ rpos' \in 0 .. Len(rtext)
    BY <1>1, <2>1, <2>2
  <2>6. PlaceInv'
    <3>1. rlen' = 0 /\ \A i \in 1 .. rlen' \div 4 : FALSE
      BY <2>1, DivFacts
    <3>2. WordStart' \in Nat
      BY <2>2, <2>4
    <3> QED
      BY <1>1, <2>1, <2>2, <2>3, <2>4, <2>5, <3>1, <3>2 DEF SrcInv, PlaceInv
  <2>7. Left' = Left
    BY <1>1, <2>1, <2>2 DEF Left
  <2> QED
    BY <1>1, <2>1, <2>2, <2>6, <2>7 DEF SrcInv, PartInv, MeantInv, Src!ErrorRight
<1> QED
  BY <1>2, <1>3

LEMMA OtherKeeps == SrcInv /\ Src!ReadOther => SrcInv'
<1> SUFFICES ASSUME SrcInv, Src!ReadOther PROVE SrcInv'
  OBVIOUS
<1> DEFINE s == WordStart
           none(y) == [bytes |-> <<>>, why |-> y]
<1>1. /\ rbusy /\ ~Fits(rbuf) /\ rat < Len(rtext) /\ rtext[rat + 1] = Other
      /\ rpos' = rat /\ rbusy' = FALSE /\ rerr' = "char"
      /\ UNCHANGED <<rtext, rmeant, rbuf, rat, rbyte, rlen, rgot, rended>>
  BY SameCodec DEF Src!ReadOther, Src!Reading, Src!Char, Src!Fail, Src!word
<1>2. /\ rtext \in Seq(Chars) /\ rat \in Nat /\ s \in Nat /\ rpos \in Nat
      /\ WordsAt(rtext, rpos) = WordsAt(rtext, s)
      /\ \A i \in 1 .. rlen \div 4 : rtext[s + i] \in Digits
      /\ s = rat - rlen \div 4 /\ rlen \div 4 \in 0 .. 2
  BY <1>1, DivFacts DEF SrcInv, PlaceInv, WordStart
<1> DEFINE k == rlen \div 4
<1>3. s + k = rat /\ k \in 0 .. 2
  BY <1>2
<1>4. WordsAt(rtext, rpos) = none("char")
  <2> HIDE DEF s, k
  <2>1. \A i \in 1 .. k : rtext[s + i] \in Digits
    BY <1>2 DEF k
  <2> QED
    BY <1>1, <1>2, <1>3, <2>1, WordsOther
<1>5. WordsAt(rtext, rat) = none("char")
  <2>1. 0 \in 0 .. 2 /\ rat + 0 = rat /\ \A i \in 1 .. 0 : rtext[rat + i] \in Digits
    BY <1>2
  <2> QED
    BY <1>1, <1>2, <2>1, WordsOther
<1>6. rmeant.items = rgot /\ rmeant.problem = "char"
  BY <1>1, <1>4, ProblemHere
<1>7. Src!ErrorRight'
  <2>1. rended => rmeant.problem = "none"
    BY DEF SrcInv, Src!ErrorRight
  <2> QED
    BY <1>1, <1>6, <2>1 DEF Src!ErrorRight
<1>8. Left' = Left
  BY <1>1, <1>4, <1>5 DEF Left
<1>9. WordStart' = WordStart /\ rpos' \in 0 .. Len(rtext)
  BY <1>1, <1>2 DEF WordStart
<1> HIDE DEF s, k
<1>10. PlaceInv'
  BY <1>1, <1>9 DEF SrcInv, PlaceInv
<1> QED
  BY <1>1, <1>4, <1>5, <1>7, <1>8, <1>10 DEF SrcInv, PartInv, MeantInv

LEMMA DeliverHolds ==
  /\ SrcInv /\ Src!Deliver => SrcInv'
  /\ SrcInv /\ Src!Deliver /\ rgot' # rgot =>
        /\ Len(rgot) < Len(rmeant.items)
        /\ rgot' = Append(rgot, rmeant.items[Len(rgot) + 1])
<1> SUFFICES ASSUME SrcInv, Src!Deliver
             PROVE  /\ SrcInv'
                    /\ rgot' # rgot =>
                          /\ Len(rgot) < Len(rmeant.items)
                          /\ rgot' = Append(rgot, rmeant.items[Len(rgot) + 1])
  OBVIOUS
<1>1. rbusy /\ Fits(rbuf)
  BY SameCodec DEF Src!Deliver
<1>2. CASE ~ItemValid(rbuf)
  <2>1. /\ rbusy' = FALSE /\ rerr' = "invalid"
        /\ UNCHANGED <<rtext, rmeant, rpos, rbuf, rgot, rat, rbyte, rlen, rended>>
    BY <1>2, SameCodec DEF Src!Deliver, Src!Fail, Src!place, Src!word
  <2>2. rmeant.items = rgot /\ rmeant.problem = "invalid"
    BY <1>1, <1>2, ItemHere
  <2>3. Src!ErrorRight'
    <3>1. rended => rmeant.problem = "none"
      BY DEF SrcInv, Src!ErrorRight
    <3> QED
      BY <2>1, <2>2, <3>1 DEF Src!ErrorRight
  <2> QED
    BY <2>1, <2>3, PauseKeeps
<1>3. CASE ItemValid(rbuf)
  <2> DEFINE w == WordsAt(rtext, rpos).bytes
             rest == Cut(w).items
             all == Cut(Words(rtext).bytes)
  <2>1. /\ rgot' = Append(rgot, rbuf) /\ rbuf' = <<>> /\ rbusy' = FALSE
        /\ UNCHANGED <<rtext, rmeant, rpos, rerror, rerr, rat, rbyte, rlen, rended>>
    BY <1>3, SameCodec DEF Src!Deliver, Src!place, Src!word
  <2>2. /\ rbuf \in Seq(Byte) /\ rest \in Seq(Seq(Byte))
        /\ Cut(Left).items = <<rbuf>> \o rest /\ Cut(Left).why = Cut(w).why
    BY <1>1, <1>3, ItemHere
  <2>3. rgot \in Seq(Seq(Byte)) /\ rmeant.items = all.items /\ all.items = rgot \o Cut(Left).items
    BY DEF SrcInv, MeantInv, Decoded
  <2>4. w \in Seq(Byte)
    BY WordsAtType DEF SrcInv, PlaceInv
  <2>5. Left' = w
    <3>1. Left' = <<>> \o w
      BY <2>1 DEF Left
    <3> HIDE DEF w
    <3> QED
      BY <2>4, <3>1
  <2> HIDE DEF rest, all
  <2>6. /\ all.items = Append(rgot, rbuf) \o rest
        /\ Append(rgot, rbuf) \in Seq(Seq(Byte))
        /\ Len(rgot) < Len(all.items) /\ all.items[Len(rgot) + 1] = rbuf
        /\ all.items # rgot
    <3> DEFINE B == Seq(Byte)
    <3> HIDE DEF B
    <3>1. rbuf \in B /\ rest \in Seq(B) /\ rgot \in Seq(B) /\ all.items = rgot \o (<<rbuf>> \o rest)
      BY <2>2, <2>3 DEF B
    <3>2. ASSUME NEW g \in Seq(B), NEW b \in B, NEW r \in Seq(B)
          PROVE  /\ g \o (<<b>> \o r) = Append(g, b) \o r
                 /\ Append(g, b) \in Seq(B)
                 /\ Len(g) < Len(g \o (<<b>> \o r)) /\ (g \o (<<b>> \o r))[Len(g) + 1] = b
      <4>1. g \o (<<b>> \o r) = Append(g, b) \o r /\ Append(g, b) \in Seq(B)
        OBVIOUS
      <4>2. Len(g) < Len(g \o (<<b>> \o r))
        OBVIOUS
      <4>3. (g \o (<<b>> \o r))[Len(g) + 1] = b
        OBVIOUS
      <4> QED
        BY <4>1, <4>2, <4>3
    <3>3. Len(rgot) < Len(all.items)
      BY <3>1, <3>2
    <3>4. all.items # rgot
      <4>1. Len(rgot) \in Nat /\ ~(Len(rgot) < Len(rgot))
        BY <3>1
      <4> QED
        BY <3>3, <4>1
    <3>5. /\ all.items = Append(rgot, rbuf) \o rest
          /\ Append(rgot, rbuf) \in Seq(B)
          /\ all.items[Len(rgot) + 1] = rbuf
      BY <3>1, <3>2
    <3> QED
      BY <3>3, <3>4, <3>5 DEF B
  <2>7. ~rerror /\ ~rended
    BY <2>3, <2>6 DEF SrcInv, Src!ErrorRight
  <2>8. MeantInv'
    <3>1. rgot' = Append(rgot, rbuf) /\ Left' = w /\ Cut(w).items = rest
      BY <2>1, <2>5 DEF rest
    <3>2. /\ Cut(Words(rtext).bytes).items = rgot' \o Cut(Left').items
          /\ Cut(Words(rtext).bytes).why = Cut(Left').why
      <4>1. Cut(Words(rtext).bytes).why = Cut(Left).why
        BY DEF SrcInv, MeantInv
      <4> HIDE DEF w
      <4> QED
        BY <2>2, <2>6, <3>1, <4>1 DEF all
    <3> HIDE DEF w
    <3> QED
      BY <2>1, <2>6, <3>1, <3>2 DEF SrcInv, MeantInv
  <2>9. PlaceInv' /\ PartInv' /\ Src!ErrorRight'
    <3>1. WordStart' = WordStart
      BY <2>1 DEF WordStart
    <3>2. PlaceInv'
      BY <2>1, <3>1 DEF SrcInv, PlaceInv
    <3>3. PartInv'
      BY <2>1 DEF PartInv, Fits
    <3>4. Src!ErrorRight'
      BY <2>1, <2>7 DEF Src!ErrorRight
    <3> QED
      BY <3>2, <3>3, <3>4
  <2> QED
    BY <2>1, <2>3, <2>6, <2>8, <2>9 DEF SrcInv
<1> QED
  BY <1>2, <1>3

------------------------------------------------------------------------------
LEMMA OpenedHolds == rtext \in Seq(Chars) /\ Src!Opened => SrcInv
<1> SUFFICES ASSUME rtext \in Seq(Chars), Src!Opened PROVE SrcInv
  OBVIOUS
<1>1. /\ rpos = 0 /\ rbuf = <<>> /\ rerror = FALSE /\ rbusy = FALSE
      /\ rat = 0 /\ rbyte = 0 /\ rlen = 0 /\ rgot = <<>> /\ rended = FALSE
      /\ rmeant = Decoded(rtext)
  BY SameMeaning DEF Src!Opened
<1>2. PlaceInv
  BY <1>1, DivFacts DEF PlaceInv, WordStart
<1>3. PartInv
  BY <1>1 DEF PartInv, Fits
<1>4. MeantInv
  <2> DEFINE w == Words(rtext).bytes
             all == Cut(w).items
  <2>1. RestAt(rtext, 0) = rtext /\ 0 \in Nat
    BY RestFacts
  <2>2. WordsAt(rtext, rpos) = Words(rtext) /\ w \in Seq(Byte)
    BY <1>1, <2>1, WordsAtType DEF WordsAt
  <2>3. Left = w
    <3>1. Left = <<>> \o w
      BY <1>1, <2>2 DEF Left
    <3> HIDE DEF w
    <3> QED
      BY <2>2, <3>1
  <2>4. all \in Seq(Seq(Byte))
    <3> HIDE DEF w
    <3> QED
      BY <2>2, CutType
  <2>5. all = <<>> \o all /\ rgot \in Seq(Seq(Byte))
    <3> HIDE DEF all
    <3> QED
      BY <1>1, <2>4
  <2> QED
    BY <1>1, <2>2, <2>3, <2>5 DEF MeantInv
<1>5. Src!ErrorRight
  BY <1>1 DEF Src!ErrorRight
<1> QED
  BY <1>2, <1>3, <1>4, <1>5 DEF SrcInv

(* The inductive invariant of the round trip.                               *)
RTInv ==
    /\ Sound(buf)
    /\ out = NoOutput \/ out \in Seq(Chars)
    /\ SrcInv
    /\ ~reading => Src!Opened
    /\ rended \in BOOLEAN

LEMMA SrcStep == SrcInv /\ Src!Next => SrcInv'
BY GetKeeps, EndKeeps, DigitKeeps, BlankKeeps, OtherKeeps, DeliverHolds DEF Src!Next, Src!Step

LEMMA StillOpened ==
  UNCHANGED src => (SrcInv => SrcInv') /\ (Src!Opened => Src!Opened')
<1> SUFFICES ASSUME UNCHANGED src PROVE (SrcInv => SrcInv') /\ (Src!Opened => Src!Opened')
  OBVIOUS
<1>1. UNCHANGED <<rtext, rpos, rline, rcol, rbuf, rerror, rerr, rbusy, rat, rbyte, rlen, rmeant,
                  rgot, rended>>
  BY DEF src
<1>2. Src!Opened => Src!Opened'
  BY <1>1 DEF Src!Opened
<1>3. WordStart' = WordStart /\ Left' = Left
  BY <1>1 DEF WordStart, Left
<1>4. SrcInv => SrcInv'
  BY <1>1, <1>3 DEF SrcInv, PlaceInv, PartInv, MeantInv, Src!ErrorRight
<1> QED
  BY <1>2, <1>4

LEMMA RTInitInv == RTInit => RTInv
<1> SUFFICES ASSUME RTInit PROVE RTInv
  OBVIOUS
<1>1. rtext \in Seq(Chars) /\ Src!Opened
  <2>1. <<>> \in Seq(Chars)
    OBVIOUS
  <2> QED
    BY <2>1, TextsAssumption DEF RTInit
<1>2. SrcInv
  BY <1>1, OpenedHolds
<1>3. Sound(buf) /\ out = NoOutput
  BY EmptySound DEF RTInit, Init
<1>4. rended \in BOOLEAN
  BY <1>1 DEF Src!Opened
<1> QED
  BY <1>1, <1>2, <1>3, <1>4 DEF RTInv

LEMMA EndedIsBoolean == rended \in BOOLEAN /\ Src!Next => rended' \in BOOLEAN
<1> SUFFICES ASSUME rended \in BOOLEAN, Src!Next PROVE rended' \in BOOLEAN
  OBVIOUS
<1>1. rended' = rended \/ rended' = (rended \/ ~rerror)
  BY DEF Src!Next, Src!Step, Src!Get, Src!ReadEnd, Src!ReadDigit, Src!ReadBlank, Src!ReadOther,
     Src!Deliver, Src!Fail
<1>2. (rended \/ ~rerror) \in BOOLEAN
  OBVIOUS
<1> QED
  BY <1>1, <1>2

LEMMA RTStep == RTInv /\ [RTNext]_<<snk, src, reading, foreign>> => RTInv'
<1> SUFFICES ASSUME RTInv, [RTNext]_<<snk, src, reading, foreign>> PROVE RTInv'
  OBVIOUS
<1>1. Sound(buf')
  <2>1. RTNext => Next \/ UNCHANGED buf
    BY DEF RTNext, Write, Open, Read, Next, snk
  <2>2. UNCHANGED <<snk, src, reading, foreign>> => UNCHANGED buf
    BY DEF snk
  <2> QED
    BY <2>1, <2>2, BufferStep DEF RTInv
<1>2. out' = NoOutput \/ out' \in Seq(Chars)
  <2>1. UNCHANGED out \/ Flush
    BY DEF RTNext, Write, Open, Read, snk, Put, FlushFails, Delete, PutFails
  <2>2. Flush => out' \in Seq(Chars)
    BY EndedSound DEF Flush, RTInv, Sound
  <2> QED
    BY <2>1, <2>2 DEF RTInv
<1>3. SrcInv' /\ (~reading' => Src!Opened')
  <2>1. CASE Write \/ UNCHANGED <<snk, src, reading, foreign>>
    BY <2>1, StillOpened DEF Write, RTInv
  <2>2. CASE Open
    <3>1. /\ reading' = TRUE /\ rtext' = out /\ rmeant' = Decoded(out) /\ out \in Seq(Chars)
          /\ UNCHANGED <<rpos, rline, rcol, rbuf, rerror, rerr, rbusy, rat, rbyte, rlen,
                         rgot, rended>>
          /\ Src!Opened
      BY <2>2 DEF Open, RTInv
    <3>2. (rtext \in Seq(Chars) /\ Src!Opened)'
      BY <3>1, SameMeaning DEF Src!Opened
    <3>3. (rtext \in Seq(Chars) /\ Src!Opened)' => SrcInv'
      BY OpenedHolds, PTL
    <3> QED
      BY <3>1, <3>2, <3>3
  <2>3. CASE Read
    BY <2>3, SrcStep DEF Read, RTInv
  <2> QED
    BY <2>1, <2>2, <2>3 DEF RTNext
<1>4. rended' \in BOOLEAN
  <2>1. UNCHANGED rended \/ Src!Next
    BY DEF RTNext, Write, Open, Read, src
  <2> QED
    BY <2>1, EndedIsBoolean DEF RTInv
<1> QED
  BY <1>1, <1>2, <1>3, <1>4 DEF RTInv

(* In any text and in any dump of the sink, wherever it was flushed, the    *)
(* inductive invariant holds.                                               *)
THEOREM RoundTripHolds == RTSpec => []RTInv
BY RTInitInv, RTStep, PTL DEF RTSpec

(* An error that hidrd_hex_src_get() leaves is the first thing wrong with   *)
(* the text, found when all the items before it were returned, and repeated *)
(* calls change neither; the end comes only after a text with nothing wrong.*)
THEOREM ErrorIsRight == RTSpec => []ErrorRight
<1>1. RTInv => ErrorRight
  BY DEF RTInv, SrcInv, ErrorRight
<1> QED
  BY <1>1, RoundTripHolds, PTL

(* hidrd_hex_src_get() returns the items of the text in their order, one at *)
(* a call, none twice and none left out, and then the end.                  *)
THEOREM SourceReadsItems == RTSpec => ReadsItems
<1>1. RTInv /\ [RTNext]_<<snk, src, reading, foreign>> =>
          [reading => Src!Abstract!Next \/ UNCHANGED Src!Abstract!vars]_src
  <2> SUFFICES ASSUME RTInv, [RTNext]_<<snk, src, reading, foreign>>, ~UNCHANGED src, reading
               PROVE  Src!Abstract!Next \/ UNCHANGED Src!Abstract!vars
    OBVIOUS
  <2>1. Read
    BY DEF RTNext, Write, Open
  <2>2. ~rended /\ Src!Next /\ SrcInv
    BY <2>1 DEF Read, RTInv
  <2>3. rmeant' = rmeant
    BY <2>2 DEF Src!Next, Src!Step, Src!Get, Src!ReadEnd, Src!ReadDigit, Src!ReadBlank,
       Src!ReadOther, Src!Deliver, Src!Fail
  <2>4. CASE Src!Deliver
    <3>1. rended' = rended
      BY <2>4 DEF Src!Deliver, Src!Fail
    <3>2. CASE rgot' # rgot
      BY <2>2, <2>3, <2>4, <3>1, <3>2, DeliverHolds DEF Src!Abstract!Next, Src!Abstract!Get
    <3>3. CASE rgot' = rgot
      BY <2>3, <3>1, <3>3 DEF Src!Abstract!vars
    <3> QED
      BY <3>2, <3>3
  <2>5. CASE Src!ReadEnd
    <3>1. rgot' = rgot /\ (rended' = rended \/ rended' = (rended \/ ~rerror))
      BY <2>5 DEF Src!ReadEnd, Src!Fail
    <3>2. SrcInv'
      BY <2>2, <2>5, EndKeeps
    <3>3. CASE rended' # rended
      <4>1. rended' = TRUE
        <5>1. rended \in BOOLEAN /\ (rended \/ ~rerror) \in BOOLEAN
          BY DEF RTInv
        <5>2. rended' \in BOOLEAN
          BY <3>1, <5>1
        <5> QED
          BY <2>2, <3>3, <5>1, <5>2
      <4>2. rgot' = rmeant'.items
        BY <3>2, <4>1 DEF SrcInv, Src!ErrorRight
      <4> QED
        BY <2>3, <3>1, <4>1, <4>2 DEF Src!Abstract!Next, Src!Abstract!End
    <3>4. CASE rended' = rended
      BY <2>3, <3>1, <3>4 DEF Src!Abstract!vars
    <3> QED
      BY <3>3, <3>4
  <2>6. CASE Src!Get \/ Src!ReadDigit \/ Src!ReadBlank \/ Src!ReadOther
    BY <2>6 DEF Src!Get, Src!ReadDigit, Src!ReadBlank, Src!ReadOther, Src!Fail,
       Src!Abstract!vars
  <2> QED
    BY <2>2, <2>4, <2>5, <2>6 DEF Src!Next, Src!Step
<1> QED
  BY <1>1, RoundTripHolds, PTL DEF RTSpec, ReadsItems

------------------------------------------------------------------------------
(* A text that goes on after a beginning.                                   *)
LEMMA JoinFacts ==
  ASSUME NEW w \in Seq(Chars), NEW u \in Seq(Chars)
  PROVE  /\ w \o u \in Seq(Chars) /\ Len(w \o u) = Len(w) + Len(u)
         /\ \A i \in 1 .. Len(w) : (w \o u)[i] = w[i]
         /\ \A i \in Len(w) + 1 .. Len(w) + Len(u) : (w \o u)[i] = u[i - Len(w)]
BY ConcatProperties

LEMMA JoinParts ==
  ASSUME NEW w \in Seq(Chars), NEW u \in Seq(Chars)
  PROVE  /\ w \o u \in Seq(Chars) /\ Len(w \o u) = Len(w) + Len(u)
         /\ Len(w) \in Nat /\ Len(u) \in Nat
         /\ \A i \in 1 .. Len(w) : (w \o u)[i] = w[i]
         /\ \A i \in 1 .. Len(u) : (w \o u)[Len(w) + i] = u[i]
         /\ \A e \in 0 .. Len(u) :
               /\ SubSeq(w \o u, 1, Len(w) + e) = w \o SubSeq(u, 1, e)
               /\ RestAt(w \o u, Len(w) + e) = RestAt(u, e)
<1> DEFINE v == w \o u
           k == Len(w)
           n == Len(u)
<1>1. /\ v \in Seq(Chars) /\ Len(v) = k + n /\ k \in Nat /\ n \in Nat
      /\ \A i \in 1 .. k : v[i] = w[i]
  BY ConcatProperties
<1>2. \A i \in 1 .. n : v[k + i] = u[i]
  <2> SUFFICES ASSUME NEW i \in 1 .. n PROVE v[k + i] = u[i]
    OBVIOUS
  <2>1. k + i \in k + 1 .. k + n /\ (k + i) - k = i
    BY <1>1
  <2>2. \A j \in k + 1 .. k + n : v[j] = u[j - k]
    BY ConcatProperties
  <2> HIDE DEF v, k, n
  <2> QED
    BY <2>1, <2>2
<1>3. ASSUME NEW e \in 0 .. n PROVE SubSeq(v, 1, k + e) = w \o SubSeq(u, 1, e)
  <2> DEFINE x == SubSeq(u, 1, e)
  <2>1. x \in Seq(Chars) /\ Len(x) = e /\ \A i \in 1 .. e : x[i] = u[i]
    <3>1. \A i \in 1 .. e : i \in 1 .. n
      BY <1>1
    <3> QED
      BY <1>1, <3>1, SubSeqProperties
  <2>2. /\ w \o x \in Seq(Chars) /\ Len(w \o x) = k + e
        /\ \A i \in 1 .. k : (w \o x)[i] = w[i]
        /\ \A i \in k + 1 .. k + e : (w \o x)[i] = x[i - k]
    <3> HIDE DEF x
    <3>1. /\ w \o x \in Seq(Chars) /\ Len(w \o x) = Len(w) + Len(x)
          /\ \A i \in 1 .. Len(w) : (w \o x)[i] = w[i]
          /\ \A i \in Len(w) + 1 .. Len(w) + Len(x) : (w \o x)[i] = x[i - Len(w)]
      BY <2>1, JoinFacts
    <3> QED
      BY <2>1, <3>1
  <2>3. /\ SubSeq(v, 1, k + e) \in Seq(Chars) /\ Len(SubSeq(v, 1, k + e)) = k + e
        /\ \A i \in 1 .. k + e : SubSeq(v, 1, k + e)[i] = v[i]
    <3>1. k + e \in 0 .. Len(v) /\ \A i \in 1 .. k + e : i \in 1 .. Len(v)
      BY <1>1
    <3> HIDE DEF v, k, n
    <3>2. \A i \in 1 .. k + e : v[i] \in Chars
      BY <1>1, <3>1
    <3> QED
      BY <1>1, <3>1, <3>2, SubSeqProperties
  <2>4. \A i \in 1 .. k + e : (w \o x)[i] = v[i]
    <3> SUFFICES ASSUME NEW i \in 1 .. k + e PROVE (w \o x)[i] = v[i]
      OBVIOUS
    <3>1. CASE i <= k
      <4>1. i \in 1 .. k
        BY <1>1, <3>1
      <4> HIDE DEF v, k, x
      <4> QED
        BY <1>1, <2>2, <4>1
    <3>2. CASE ~(i <= k)
      <4>1. i \in k + 1 .. k + e /\ i - k \in 1 .. e /\ i - k \in 1 .. n /\ k + (i - k) = i
        BY <1>1, <3>2
      <4> HIDE DEF v, k, n, x
      <4>2. v[k + (i - k)] = u[i - k]
        BY <1>2, <4>1
      <4> QED
        BY <2>1, <2>2, <4>1, <4>2
    <3> QED
      BY <3>1, <3>2
  <2> HIDE DEF v, k, x
  <2> QED
    BY <1>1, <2>2, <2>3, <2>4 DEF x
<1>4. ASSUME NEW e \in 0 .. n PROVE RestAt(v, k + e) = RestAt(u, e)
  <2>1. RestAt(u, e) = [i \in 1 .. n - e |-> u[i + e]]
    BY DEF RestAt
  <2>2. RestAt(v, k + e) = [i \in 1 .. (k + n) - (k + e) |-> v[i + (k + e)]]
    <3> HIDE DEF v, k, n
    <3> QED
      BY <1>1 DEF RestAt
  <2>3. (k + n) - (k + e) = n - e
        /\ \A i \in 1 .. n - e : i + (k + e) = k + (i + e) /\ i + e \in 1 .. n
    BY <1>1
  <2> HIDE DEF v, k, n
  <2>4. \A i \in 1 .. n - e : v[i + (k + e)] = u[i + e]
    BY <1>2, <2>3
  <2> QED
    BY <2>1, <2>2, <2>3, <2>4
<1> QED
  BY <1>1, <1>2, <1>3, <1>4

------------------------------------------------------------------------------
(* What can come after a whole word, and what a text of whole words stands  *)
(* for, whatever comes after it.                                            *)
Follows(u) == u \in Seq(Chars) /\ (u = <<>> \/ u[1] \in Blank)
Means(t, bs) ==
    /\ t \in Seq(Chars)
    /\ bs \in Seq(Byte)
    /\ \A u : Follows(u) => /\ Words(t \o u).bytes = bs \o Words(u).bytes
                            /\ Words(t \o u).why = Words(u).why

Word(b) == <<Space, b \div 16, b % 16>>

LEMMA ByteDigits ==
  ASSUME NEW b \in Byte
  PROVE  b \div 16 \in Digits /\ b % 16 \in Digits /\ 16 * (b \div 16) + (b % 16) = b
<1>1. \A c \in 0 .. 255 : /\ c \div 16 \in 0 .. 15 /\ c % 16 \in 0 .. 15
                            /\ 16 * (c \div 16) + (c % 16) = c
  OBVIOUS
<1> QED
  BY <1>1 DEF Byte, Digits

LEMMA WordFacts ==
  ASSUME NEW b \in Byte
  PROVE  /\ Word(b) \in Seq(Chars) /\ Len(Word(b)) = 3
         /\ Word(b)[1] = Space /\ Word(b)[2] = b \div 16 /\ Word(b)[3] = b % 16
         /\ \A i \in 1 .. 3 : Word(b)[i] # Newline
<1> DEFINE d == b \div 16
           e == b % 16
<1>1. d \in Chars /\ e \in Chars /\ Space \in Chars /\ d # Newline /\ e # Newline /\ Space # Newline
  <2>1. d \in Digits /\ e \in Digits
    BY ByteDigits
  <2> HIDE DEF d, e
  <2> QED
    BY <2>1, CharFacts
<1>2. Word(b) = <<Space, d, e>>
  BY DEF Word
<1>3. \A i \in 1 .. 3 : i = 1 \/ i = 2 \/ i = 3
  OBVIOUS
<1> HIDE DEF d, e
<1>4. <<Space, d, e>> \in Seq(Chars) /\ Len(<<Space, d, e>>) = 3
  BY <1>1
<1>5. <<Space, d, e>>[1] = Space /\ <<Space, d, e>>[2] = d /\ <<Space, d, e>>[3] = e
  OBVIOUS
<1> QED
  BY <1>1, <1>2, <1>3, <1>4, <1>5 DEF d, e

LEMMA WordThen ==
  ASSUME NEW b \in Byte, NEW u, Follows(u)
  PROVE  /\ Follows(Word(b) \o u)
         /\ Words(Word(b) \o u).bytes = <<b>> \o Words(u).bytes
         /\ Words(Word(b) \o u).why = Words(u).why
<1> DEFINE w == Word(b)
           v == w \o u
<1>1. /\ w \in Seq(Chars) /\ Len(w) = 3 /\ w[1] = Space /\ w[2] = b \div 16 /\ w[3] = b % 16
      /\ u \in Seq(Chars)
  BY WordFacts DEF Follows
<1> HIDE DEF w
<1>2. /\ v \in Seq(Chars) /\ Len(v) = 3 + Len(u) /\ Len(u) \in Nat
      /\ v[1] = Space /\ v[2] = b \div 16 /\ v[3] = b % 16
      /\ Len(u) > 0 => v[4] = u[1]
      /\ RestAt(v, 3) = u
  <2>1. 1 \in 1 .. Len(w) /\ 2 \in 1 .. Len(w) /\ 3 \in 1 .. Len(w)
    BY <1>1
  <2>2. v \in Seq(Chars) /\ Len(v) = 3 + Len(u) /\ Len(u) \in Nat
        /\ v[1] = Space /\ v[2] = b \div 16 /\ v[3] = b % 16
    <3>1. /\ v \in Seq(Chars) /\ Len(v) = Len(w) + Len(u) /\ Len(u) \in Nat
          /\ \A i \in 1 .. Len(w) : v[i] = w[i]
      BY <1>1, JoinParts
    <3> HIDE DEF v
    <3> QED
      BY <1>1, <2>1, <3>1
  <2>3. Len(u) > 0 => v[4] = u[1]
    <3>1. Len(u) > 0 => 1 \in 1 .. Len(u)
      BY <2>2
    <3>2. Len(w) + 1 = 4
      BY <1>1
    <3> HIDE DEF v
    <3>3. \A i \in 1 .. Len(u) : v[Len(w) + i] = u[i]
      BY <1>1, JoinParts DEF v
    <3> QED
      BY <3>1, <3>2, <3>3
  <2>4. RestAt(v, 3) = u
    <3>1. RestAt(u, 0) = u /\ 0 \in 0 .. Len(u) /\ Len(w) + 0 = 3
      BY <1>1, <2>2, RestFacts
    <3>2. RestAt(v, Len(w) + 0) = RestAt(u, 0)
      BY <1>1, <3>1, JoinParts
    <3> QED
      BY <3>1, <3>2
  <2> QED
    BY <2>2, <2>3, <2>4
<1> HIDE DEF v
<1>3. WordsAt(v, 0) = WordsAt(v, 1)
  <2>1. 0 < Len(v) /\ 0 + 1 = 1 /\ 0 \in Nat /\ v[1] \in Blank
    BY <1>2, CharFacts
  <2> QED
    BY <1>2, <2>1, WordsBlank
<1>4. WordsAt(v, 1) = [WordsAt(v, 3) EXCEPT !.bytes = <<16 * v[2] + v[3]>> \o @]
  <2>1. /\ 1 \in Nat /\ 1 + 1 < Len(v) /\ 1 + 1 = 2 /\ 1 + 2 = 3 /\ 1 + 3 = 4
        /\ 3 = Len(v) \/ v[4] \in Blank
    <3>1. Len(u) = 0 \/ Len(u) > 0
      BY <1>2
    <3> QED
      BY <1>2, <3>1 DEF Follows
  <2>2. v[2] \in Digits /\ v[3] \in Digits
    BY <1>2, ByteDigits
  <2> QED
    BY <1>2, <2>1, <2>2, WordsTwoDigits, ZenonT(30)
<1>5. WordsAt(v, 0) = Words(v) /\ WordsAt(v, 3) = Words(u)
  BY <1>2, RestFacts DEF WordsAt
<1>6. 16 * v[2] + v[3] = b
  BY <1>2, ByteDigits
<1>7. Words(u) = [bytes |-> Words(u).bytes, why |-> Words(u).why]
  BY <1>1, WordsType DEF Readings
<1>8. Words(v).bytes = <<b>> \o Words(u).bytes /\ Words(v).why = Words(u).why
  BY <1>3, <1>4, <1>5, <1>6, <1>7
<1>9. Follows(v)
  BY <1>2, CharFacts DEF Follows
<1> QED
  BY <1>8, <1>9 DEF v, w

EmptyLine == <<Newline>>

LEMMA BreakThen ==
  ASSUME NEW u, Follows(u)
  PROVE  Follows(EmptyLine \o u) /\ Words(EmptyLine \o u) = Words(u)
<1> DEFINE v == EmptyLine \o u
<1>1. EmptyLine \in Seq(Chars) /\ Len(EmptyLine) = 1 /\ EmptyLine[1] = Newline /\ u \in Seq(Chars)
  BY CharFacts DEF EmptyLine, Follows
<1>2. v \in Seq(Chars) /\ v[1] = Newline /\ Len(v) > 0 /\ RestAt(v, 1) = u
  <2>1. v \in Seq(Chars) /\ Len(v) = 1 + Len(u) /\ Len(u) \in Nat /\ 1 \in 1 .. Len(EmptyLine)
    <3>1. v \in Seq(Chars) /\ Len(v) = Len(EmptyLine) + Len(u) /\ Len(u) \in Nat
      BY <1>1, JoinParts
    <3> HIDE DEF v
    <3> QED
      BY <1>1, <3>1
  <2>2. v[1] = Newline
    <3>1. \A i \in 1 .. Len(EmptyLine) : v[i] = EmptyLine[i]
      BY <1>1, JoinParts
    <3> HIDE DEF v
    <3> QED
      BY <1>1, <2>1, <3>1
  <2>3. RestAt(u, 0) = u /\ 0 \in 0 .. Len(u) /\ Len(EmptyLine) + 0 = 1
    BY <1>1, <2>1, RestFacts
  <2>4. RestAt(v, Len(EmptyLine) + 0) = RestAt(u, 0)
    BY <1>1, <2>3, JoinParts
  <2> HIDE DEF v
  <2> QED
    BY <2>1, <2>2, <2>3, <2>4
<1> HIDE DEF v
<1>3. WordsAt(v, 0) = WordsAt(v, 1)
  <2>1. 0 < Len(v) /\ 0 + 1 = 1 /\ 0 \in Nat /\ v[1] \in Blank
    BY <1>2, CharFacts
  <2> QED
    BY <1>2, <2>1, WordsBlank
<1>4. WordsAt(v, 0) = Words(v) /\ WordsAt(v, 1) = Words(u)
  BY <1>2, RestFacts DEF WordsAt
<1>5. Follows(v)
  BY <1>2, CharFacts DEF Follows
<1> QED
  BY <1>3, <1>4, <1>5 DEF v

(* The words of the sink, one after the other.                              *)
LEMMA MeansNothing == Means(<<>>, <<>>)
<1>1. <<>> \in Seq(Chars) /\ <<>> \in Seq(Byte)
  OBVIOUS
<1>2. ASSUME NEW u, Follows(u) PROVE <<>> \o u = u /\ <<>> \o Words(u).bytes = Words(u).bytes
  <2>1. u \in Seq(Chars) /\ Words(u).bytes \in Seq(Byte)
    BY <1>2, WordsType DEF Follows, Readings
  <2> QED
    BY <2>1
<1> QED
  BY <1>1, <1>2 DEF Means

LEMMA MeansWord ==
  ASSUME NEW t, NEW bs, Means(t, bs), NEW b \in Byte
  PROVE  Means(t \o Word(b), Append(bs, b))
<1>1. t \in Seq(Chars) /\ bs \in Seq(Byte) /\ Word(b) \in Seq(Chars)
  BY WordFacts DEF Means
<1>2. t \o Word(b) \in Seq(Chars) /\ Append(bs, b) \in Seq(Byte)
  BY <1>1, JoinParts, JoinAppended
<1>3. ASSUME NEW u, Follows(u)
      PROVE  /\ Words((t \o Word(b)) \o u).bytes = Append(bs, b) \o Words(u).bytes
             /\ Words((t \o Word(b)) \o u).why = Words(u).why
  <2> DEFINE w == Word(b)
             v == w \o u
             x == Words(u).bytes
  <2>1. u \in Seq(Chars) /\ x \in Seq(Byte)
    BY <1>3, WordsType DEF Follows, Readings
  <2>2. Follows(v) /\ Words(v).bytes = <<b>> \o x /\ Words(v).why = Words(u).why
    BY <1>3, WordThen
  <2> HIDE DEF w, v
  <2>3. Words(t \o v).bytes = bs \o (<<b>> \o x) /\ Words(t \o v).why = Words(u).why
    BY <2>2 DEF Means
  <2>4. t \o v = (t \o w) \o u
    BY <1>1, <2>1 DEF v, w
  <2>5. bs \o (<<b>> \o x) = Append(bs, b) \o x
    BY <1>1, <2>1, JoinAppended
  <2> QED
    BY <2>3, <2>4, <2>5 DEF w
<1> QED
  BY <1>2, <1>3 DEF Means

LEMMA MeansBreak ==
  ASSUME NEW t, NEW bs, Means(t, bs)
  PROVE  Means(t \o EmptyLine, bs)
<1>1. t \in Seq(Chars) /\ bs \in Seq(Byte) /\ EmptyLine \in Seq(Chars)
  BY CharFacts DEF Means, EmptyLine
<1>2. t \o EmptyLine \in Seq(Chars)
  BY <1>1, JoinParts
<1>3. ASSUME NEW u, Follows(u)
      PROVE  /\ Words((t \o EmptyLine) \o u).bytes = bs \o Words(u).bytes
             /\ Words((t \o EmptyLine) \o u).why = Words(u).why
  <2> DEFINE v == EmptyLine \o u
  <2>1. u \in Seq(Chars)
    BY <1>3 DEF Follows
  <2>2. Follows(v) /\ Words(v) = Words(u)
    BY <1>3, BreakThen
  <2>4. t \o v = (t \o EmptyLine) \o u
    BY <1>1, <2>1
  <2> HIDE DEF v
  <2>3. Words(t \o v).bytes = bs \o Words(u).bytes /\ Words(t \o v).why = Words(u).why
    BY <2>2 DEF Means
  <2> QED
    BY <2>3, <2>4
<1> QED
  BY <1>1, <1>2, <1>3 DEF Means

------------------------------------------------------------------------------
(* The lines of a text: LineLengths obeys its equation.                     *)
HasLine(t) == Newline \in {t[i] : i \in DOMAIN t}
LineEnd(t) == CHOOSE i \in DOMAIN t : t[i] = Newline /\ \A j \in 1 .. i - 1 : t[j] # Newline
LinesStep(t, after) ==
    IF ~HasLine(t) THEN <<Len(Words(t).bytes)>>
    ELSE <<Len(Words(SubSeq(t, 1, LineEnd(t))).bytes)>> \o after
LinesFun(f) == f = [t \in Seq(Chars) |-> LinesStep(t, f[RestAt(t, LineEnd(t))])]
Counts == Seq(Nat) \ {<<>>}

LEMMA LineEndIs ==
  ASSUME NEW t \in Seq(Chars), NEW e \in DOMAIN t, t[e] = Newline,
         \A j \in 1 .. e - 1 : t[j] # Newline
  PROVE  LineEnd(t) = e /\ HasLine(t)
<1> DEFINE P(i) == t[i] = Newline /\ \A j \in 1 .. i - 1 : t[j] # Newline
           c == CHOOSE i \in DOMAIN t : P(i)
<1>1. DOMAIN t = 1 .. Len(t) /\ Len(t) \in Nat
  OBVIOUS
<1>2. c \in DOMAIN t /\ P(c)
  <2>1. P(e)
    OBVIOUS
  <2> HIDE DEF P
  <2> QED
    BY <2>1
<1>3. LineEnd(t) = c
  BY DEF LineEnd
<1> HIDE DEF c
<1>4. c = e
  <2>1. ~(c < e)
    <3>1. c < e => c \in 1 .. e - 1
      BY <1>1, <1>2
    <3> QED
      BY <1>2, <3>1
  <2>2. ~(e < c)
    <3>1. e < c => e \in 1 .. c - 1
      BY <1>1, <1>2
    <3> QED
      BY <1>2, <3>1
  <2> QED
    BY <1>1, <1>2, <2>1, <2>2
<1>5. HasLine(t)
  BY DEF HasLine
<1> QED
  BY <1>3, <1>4, <1>5

LEMMA LineEndFacts ==
  ASSUME NEW t \in Seq(Chars), HasLine(t)
  PROVE  /\ LineEnd(t) \in 1 .. Len(t) /\ t[LineEnd(t)] = Newline
         /\ \A j \in 1 .. LineEnd(t) - 1 : t[j] # Newline
<1> DEFINE K == {i \in Nat : i \in DOMAIN t /\ t[i] = Newline}
<1>1. DOMAIN t = 1 .. Len(t) /\ Len(t) \in Nat
  OBVIOUS
<1>2. PICK i \in DOMAIN t : t[i] = Newline
  BY DEF HasLine
<1>3. i \in K
  BY <1>1, <1>2
<1>4. PICK e \in K : \A j \in K : e <= j
  <2> HIDE DEF K
  <2>1. K \subseteq Nat
    BY DEF K
  <2> QED
    BY <1>3, <2>1, LeastNumber
<1>5. \A j \in 1 .. e - 1 : t[j] # Newline
  <2> SUFFICES ASSUME NEW j \in 1 .. e - 1, t[j] = Newline PROVE FALSE
    OBVIOUS
  <2>1. j \in K /\ ~(e <= j)
    BY <1>1, <1>4
  <2> QED
    BY <1>4, <2>1
<1>6. LineEnd(t) = e
  BY <1>4, <1>5, LineEndIs
<1> QED
  BY <1>1, <1>4, <1>5, <1>6

LEMMA AfterLine ==
  ASSUME NEW t \in Seq(Chars), HasLine(t)
  PROVE  /\ RestAt(t, LineEnd(t)) \in Seq(Chars)
         /\ Len(RestAt(t, LineEnd(t))) < Len(t)
         /\ SubSeq(t, 1, LineEnd(t)) \in Seq(Chars)
<1> DEFINE e == LineEnd(t)
<1>1. e \in 1 .. Len(t) /\ Len(t) \in Nat
  BY LineEndFacts
<1> HIDE DEF e
<1>2. RestAt(t, e) \in Seq(Chars)
  BY <1>1, RestFacts
<1>3. Len(RestAt(t, e)) < Len(t)
  <2>1. e < Len(t) => Len(RestAt(t, e)) = Len(t) - e
    BY <1>1, RestFacts
  <2>2. e >= Len(t) => RestAt(t, e) = <<>>
    BY <1>1, RestFacts
  <2>3. Len(<<>>) = 0
    OBVIOUS
  <2> QED
    BY <1>1, <2>1, <2>2, <2>3
<1>4. SubSeq(t, 1, e) \in Seq(Chars)
  <2>1. \A i \in 1 .. e : i \in 1 .. Len(t)
    BY <1>1
  <2> QED
    BY <1>1, <2>1, SubSeqProperties
<1> QED
  BY <1>2, <1>3, <1>4 DEF e

LEMMA BytesCounted ==
  ASSUME NEW t \in Seq(Chars)
  PROVE  Words(t).bytes \in Seq(Byte) /\ Len(Words(t).bytes) \in Nat
<1>1. Words(t).bytes \in Seq(Byte)
  BY WordsType DEF Readings
<1> QED
  BY <1>1

LEMMA OneCount == ASSUME NEW n \in Nat PROVE <<n>> \in Counts
BY DEF Counts

LEMMA CountsJoined ==
  ASSUME NEW n \in Nat, NEW ls \in Counts
  PROVE  <<n>> \o ls \in Counts /\ (<<n>> \o ls)[1] = n
<1>1. ls \in Seq(Nat)
  BY DEF Counts
<1>2. <<n>> \o ls \in Seq(Nat) /\ Len(<<n>> \o ls) = 1 + Len(ls)
  BY <1>1
<1>3. <<n>> \o ls # <<>>
  BY <1>1, <1>2
<1>4. (<<n>> \o ls)[1] = n
  BY <1>1
<1> QED
  BY <1>2, <1>3, <1>4 DEF Counts

LEMMA LinesStepType ==
  ASSUME NEW t \in Seq(Chars), NEW after, HasLine(t) => after \in Counts
  PROVE  LinesStep(t, after) \in Counts
<1>1. CASE HasLine(t)
  <2> DEFINE n == Len(Words(SubSeq(t, 1, LineEnd(t))).bytes)
  <2>1. n \in Nat
    BY <1>1, AfterLine, BytesCounted
  <2>2. LinesStep(t, after) = <<n>> \o after
    BY <1>1 DEF LinesStep
  <2> HIDE DEF n
  <2> QED
    BY <1>1, <2>1, <2>2, CountsJoined
<1>2. CASE ~HasLine(t)
  <2> DEFINE n == Len(Words(t).bytes)
  <2>1. n \in Nat
    BY BytesCounted
  <2>2. LinesStep(t, after) = <<n>>
    BY <1>2 DEF LinesStep
  <2> HIDE DEF n
  <2> QED
    BY <2>1, <2>2, OneCount
<1> QED
  BY <1>1, <1>2

LEMMA LinesFunExists == \E f : LinesFun(f)
<1> DEFINE R == Results(Chars, Counts)
           One(t, f) == LinesStep(t, f[RestAt(t, LineEnd(t))])
           G == [t \in Seq(Chars) |-> [f \in R |-> One(t, f)]]
<1>1. ASSUME NEW t \in Seq(Chars), NEW f \in R
      PROVE  G[t][f] = One(t, f) /\ G[t][f] \in Counts
  <2>1. HasLine(t) => f[RestAt(t, LineEnd(t))] \in Counts
    BY AfterLine DEF Results
  <2> QED
    BY <2>1, LinesStepType
<1>2. ASSUME NEW t \in Seq(Chars), NEW f \in R, NEW g \in R,
             \A u \in Seq(Chars) : Len(u) < Len(t) => f[u] = g[u]
      PROVE  G[t][f] = G[t][g]
  <2>1. HasLine(t) => f[RestAt(t, LineEnd(t))] = g[RestAt(t, LineEnd(t))]
    BY <1>2, AfterLine
  <2>2. ~HasLine(t) => \A a, b : LinesStep(t, a) = LinesStep(t, b)
    BY DEF LinesStep
  <2> HIDE DEF G
  <2> QED
    BY <1>1, <2>1, <2>2
<1> HIDE DEF G
<1>3. NeedsShorter(G, Chars, Counts)
  BY <1>1, <1>2 DEF NeedsShorter
<1>4. Counts # {}
  <2>1. <<0>> \in Counts
    BY OneCount
  <2> QED
    BY <2>1
<1>5. PICK f \in R : \A t \in Seq(Chars) : f[t] = G[t][f]
  BY <1>3, <1>4, ShorterRecursion
<1>6. f = [t \in Seq(Chars) |-> LinesStep(t, f[RestAt(t, LineEnd(t))])]
  BY <1>1, <1>5 DEF Results
<1> QED
  BY <1>6 DEF LinesFun

LEMMA LinesDef ==
  \A t \in Seq(Chars) : LineLengths(t) = LinesStep(t, LineLengths(RestAt(t, LineEnd(t))))
<1> DEFINE lines == CHOOSE f : LinesFun(f)
<1>1. LinesFun(lines)
  BY LinesFunExists
<1>2. \A t : LineLengths(t) = lines[t]
  BY Zenon DEF LineLengths, LinesFun, LinesStep, HasLine, LineEnd, RestAt
<1> HIDE DEF lines
<1> QED
  BY <1>1, <1>2 DEF LinesFun

LEMMA LinesType == \A t \in Seq(Chars) : LineLengths(t) \in Counts
<1> DEFINE S == {k \in Nat : \A t \in Seq(Chars) : Len(t) <= k => LineLengths(t) \in Counts}
<1>1. ASSUME NEW t \in Seq(Chars),
             HasLine(t) => LineLengths(RestAt(t, LineEnd(t))) \in Counts
      PROVE  LineLengths(t) \in Counts
  <2>1. LineLengths(t) = LinesStep(t, LineLengths(RestAt(t, LineEnd(t))))
    BY LinesDef
  <2> QED
    BY <1>1, <2>1, LinesStepType
<1>2. 0 \in S
  <2> SUFFICES ASSUME NEW t \in Seq(Chars), Len(t) <= 0 PROVE LineLengths(t) \in Counts
    OBVIOUS
  <2>1. ~HasLine(t)
    BY DEF HasLine
  <2> QED
    BY <1>1, <2>1
<1>3. ASSUME NEW k \in Nat, k \in S PROVE k + 1 \in S
  <2> SUFFICES ASSUME NEW t \in Seq(Chars), Len(t) <= k + 1 PROVE LineLengths(t) \in Counts
    OBVIOUS
  <2>1. HasLine(t) => /\ RestAt(t, LineEnd(t)) \in Seq(Chars)
                      /\ Len(RestAt(t, LineEnd(t))) <= k
    <3>1. HasLine(t) => /\ RestAt(t, LineEnd(t)) \in Seq(Chars)
                        /\ Len(RestAt(t, LineEnd(t))) < Len(t)
      BY AfterLine
    <3> DEFINE r == RestAt(t, LineEnd(t))
    <3>2. r \in Seq(Chars) => Len(r) \in Nat
      OBVIOUS
    <3>3. Len(t) \in Nat
      OBVIOUS
    <3> HIDE DEF r
    <3> QED
      BY <3>1, <3>2, <3>3 DEF r
  <2> QED
    BY <1>1, <1>3, <2>1
<1>4. \A k \in Nat : k \in S
  <2> HIDE DEF S
  <2> QED
    BY <1>2, <1>3, NumberInduction
<1> QED
  BY <1>4

------------------------------------------------------------------------------
(* The first line is longer by n.                                           *)
Longer(ls, n) == [ls EXCEPT ![1] = n + @]

LEMMA LongerIs ==
  ASSUME NEW ls \in Seq(Nat), NEW n \in Nat
  PROVE  Longer(ls, n) = [i \in 1 .. Len(ls) |-> IF i = 1 THEN n + ls[1] ELSE ls[i]]
BY DEF Longer

LEMMA LongerFacts ==
  ASSUME NEW ls \in Counts, NEW n \in Nat
  PROVE  /\ Longer(ls, n) \in Counts
         /\ Longer(ls, 0) = ls
         /\ Longer(Longer(ls, 1), n) = Longer(ls, n + 1)
         /\ \A m \in Nat : Longer(<<m>> \o ls, n) = <<n + m>> \o ls
         /\ \A m \in Nat : Longer(<<m>>, n) = <<n + m>>
<1>1. ls \in Seq(Nat) /\ 1 \in 1 .. Len(ls) /\ DOMAIN ls = 1 .. Len(ls) /\ ls[1] \in Nat
  BY DEF Counts
<1>2. Longer(ls, n) \in Counts
  <2>1. Longer(ls, n) \in Seq(Nat) /\ Len(Longer(ls, n)) = Len(ls)
    BY <1>1 DEF Longer
  <2> QED
    BY <1>1, <2>1 DEF Counts
<1>3. Longer(ls, 0) = ls
  BY <1>1 DEF Longer
<1>4. Longer(Longer(ls, 1), n) = Longer(ls, n + 1)
  <2> DEFINE g == Longer(ls, 1)
             h == Longer(ls, n + 1)
  <2>1. g = [i \in 1 .. Len(ls) |-> IF i = 1 THEN 1 + ls[1] ELSE ls[i]]
    BY <1>1, LongerIs
  <2>2. h = [i \in 1 .. Len(ls) |-> IF i = 1 THEN (n + 1) + ls[1] ELSE ls[i]]
    BY <1>1, LongerIs
  <2>3. g \in Seq(Nat) /\ Len(g) = Len(ls)
    BY <1>1 DEF Longer
  <2> HIDE DEF g, h
  <2>4. Longer(g, n) = [i \in 1 .. Len(g) |-> IF i = 1 THEN n + g[1] ELSE g[i]]
    BY <2>3, LongerIs
  <2>5. \A i \in 1 .. Len(ls) : (IF i = 1 THEN n + g[1] ELSE g[i])
                                  = IF i = 1 THEN (n + 1) + ls[1] ELSE ls[i]
    BY <1>1, <2>1
  <2> QED
    BY <2>2, <2>3, <2>4, <2>5 DEF g, h
<1>5. ASSUME NEW m \in Nat PROVE Longer(<<m>> \o ls, n) = <<n + m>> \o ls
  <2> DEFINE a == <<m>> \o ls
             b == <<n + m>> \o ls
  <2>1. /\ a \in Seq(Nat) /\ b \in Seq(Nat) /\ Len(a) = 1 + Len(ls) /\ Len(b) = 1 + Len(ls)
        /\ a[1] = m /\ b[1] = n + m
        /\ \A i \in 2 .. 1 + Len(ls) : a[i] = ls[i - 1] /\ b[i] = ls[i - 1]
    BY <1>1
  <2> HIDE DEF a, b
  <2>2. Longer(a, n) = [i \in 1 .. 1 + Len(ls) |-> IF i = 1 THEN n + m ELSE a[i]]
    BY <1>1, <2>1, LongerIs
  <2>3. \A i \in 1 .. 1 + Len(ls) : b[i] = IF i = 1 THEN n + m ELSE a[i]
    BY <1>1, <2>1
  <2>4. b = [i \in 1 .. 1 + Len(ls) |-> b[i]]
    BY <2>1
  <2> QED
    BY <2>2, <2>3, <2>4 DEF a, b
<1>6. \A m \in Nat : Longer(<<m>>, n) = <<n + m>>
  BY DEF Longer
<1> QED
  BY <1>2, <1>3, <1>4, <1>5, <1>6

(* A word is one byte more on the first of the lines that follow.           *)
LEMMA WordOnLine ==
  ASSUME NEW b \in Byte, NEW u, Follows(u)
  PROVE  LineLengths(Word(b) \o u) = Longer(LineLengths(u), 1)
<1> DEFINE w == Word(b)
           v == w \o u
           e == LineEnd(u)
           first == SubSeq(u, 1, e)
           after == LineLengths(RestAt(u, e))
<1>1. /\ w \in Seq(Chars) /\ Len(w) = 3 /\ u \in Seq(Chars) /\ Len(u) \in Nat
      /\ \A i \in 1 .. 3 : w[i] # Newline
  BY WordFacts DEF Follows
<1> HIDE DEF w
<1>2. /\ v \in Seq(Chars) /\ Len(v) = 3 + Len(u)
      /\ \A i \in 1 .. 3 : v[i] # Newline
      /\ \A i \in 1 .. Len(u) : v[3 + i] = u[i]
  <2>1. /\ v \in Seq(Chars) /\ Len(v) = Len(w) + Len(u)
        /\ \A i \in 1 .. Len(w) : v[i] = w[i]
        /\ \A i \in 1 .. Len(u) : v[Len(w) + i] = u[i]
    BY <1>1, JoinParts
  <2> HIDE DEF v
  <2> QED
    BY <1>1, <2>1
<1>3. CASE HasLine(u)
  <2>1. e \in 1 .. Len(u) /\ u[e] = Newline /\ \A j \in 1 .. e - 1 : u[j] # Newline
    BY <1>1, <1>3, LineEndFacts
  <2>2. SubSeq(v, 1, 3 + e) = w \o first /\ RestAt(v, 3 + e) = RestAt(u, e)
    <3>1. e \in 0 .. Len(u)
      BY <1>1, <2>1
    <3> HIDE DEF e, v
    <3>2. \A i \in 0 .. Len(u) : /\ SubSeq(v, 1, Len(w) + i) = w \o SubSeq(u, 1, i)
                                 /\ RestAt(v, Len(w) + i) = RestAt(u, i)
      BY <1>1, JoinParts DEF v
    <3> QED
      BY <1>1, <3>1, <3>2
  <2>3. first \in Seq(Chars) /\ Follows(first)
    <3>1. first \in Seq(Chars)
      BY <1>1, <1>3, AfterLine
    <3>2. first[1] = u[1] /\ u # <<>>
      BY <1>1, <2>1
    <3> HIDE DEF first
    <3> QED
      BY <3>1, <3>2 DEF Follows
  <2>4. RestAt(u, e) \in Seq(Chars)
    BY <1>1, <1>3, AfterLine
  <2> HIDE DEF v, e
  <2>5. LineEnd(v) = 3 + e /\ HasLine(v)
    <3>1. 3 + e \in DOMAIN v /\ v[3 + e] = Newline
      BY <1>1, <1>2, <2>1
    <3>2. \A j \in 1 .. (3 + e) - 1 : v[j] # Newline
      <4> SUFFICES ASSUME NEW j \in 1 .. (3 + e) - 1 PROVE v[j] # Newline
        OBVIOUS
      <4>1. CASE j \in 1 .. 3
        BY <1>2, <4>1
      <4>2. CASE j \notin 1 .. 3
        <5>1. j - 3 \in 1 .. e - 1 /\ j - 3 \in 1 .. Len(u) /\ 3 + (j - 3) = j
          BY <1>1, <2>1, <4>2
        <5>2. v[3 + (j - 3)] = u[j - 3]
          BY <1>2, <5>1
        <5> QED
          BY <2>1, <5>1, <5>2
      <4> QED
        BY <4>1, <4>2
    <3> QED
      BY <1>2, <3>1, <3>2, LineEndIs
  <2>6. LineLengths(v) = <<Len(Words(w \o first).bytes)>> \o after
    BY <1>2, <2>2, <2>5, LinesDef DEF LinesStep
  <2>7. LineLengths(u) = <<Len(Words(first).bytes)>> \o after
    BY <1>1, <1>3, LinesDef DEF LinesStep, e
  <2> DEFINE m == Len(Words(first).bytes)
  <2>8. m \in Nat /\ Len(Words(w \o first).bytes) = 1 + m
    <3>1. Words(w \o first).bytes = <<b>> \o Words(first).bytes
      BY <2>3, WordThen DEF w
    <3> DEFINE x == Words(first).bytes
    <3>2. x \in Seq(Byte)
      BY <2>3, BytesCounted
    <3> HIDE DEF x
    <3>3. Len(<<b>> \o x) = 1 + Len(x) /\ Len(x) \in Nat
      BY <3>2
    <3> QED
      BY <3>1, <3>3 DEF x
  <2>9. after \in Counts
    BY <2>4, LinesType
  <2> HIDE DEF after, m
  <2>10. Longer(<<m>> \o after, 1) = <<1 + m>> \o after
    BY <2>8, <2>9, LongerFacts
  <2> QED
    BY <2>6, <2>7, <2>8, <2>10 DEF v, w, m
<1>4. CASE ~HasLine(u)
  <2>1. ~HasLine(v)
    <3>1. \A i \in DOMAIN u : u[i] # Newline
      BY <1>4 DEF HasLine
    <3>2. ASSUME NEW i \in DOMAIN v PROVE v[i] # Newline
      <4> HIDE DEF v
      <4>1. CASE i \in 1 .. 3
        BY <1>2, <4>1
      <4>2. CASE i \notin 1 .. 3
        <5>1. i - 3 \in 1 .. Len(u) /\ 3 + (i - 3) = i /\ DOMAIN u = 1 .. Len(u)
          BY <1>1, <1>2, <4>2
        <5>2. v[3 + (i - 3)] = u[i - 3]
          BY <1>2, <5>1
        <5> QED
          BY <3>1, <5>1, <5>2
      <4> QED
        BY <4>1, <4>2
    <3> HIDE DEF v
    <3> QED
      BY <3>2 DEF HasLine
  <2> DEFINE x == Words(u).bytes
  <2>2. x \in Seq(Byte) /\ Words(v).bytes = <<b>> \o x
    BY <1>1, BytesCounted, WordThen DEF w
  <2> HIDE DEF x, v
  <2>3. Len(<<b>> \o x) = 1 + Len(x) /\ Len(x) \in Nat
    BY <2>2
  <2>4. LineLengths(v) = <<1 + Len(x)>> /\ LineLengths(u) = <<Len(x)>>
    BY <1>1, <1>2, <1>4, <2>1, <2>2, <2>3, LinesDef DEF LinesStep, x
  <2>5. LineLengths(u) \in Counts
    BY <1>1, LinesType
  <2>6. Longer(<<Len(x)>>, 1) = <<1 + Len(x)>>
    BY <2>3, <2>5, LongerFacts
  <2> QED
    BY <2>4, <2>6 DEF v, w
<1> QED
  BY <1>3, <1>4

LEMMA BreakOnLine ==
  ASSUME NEW u, Follows(u)
  PROVE  LineLengths(EmptyLine \o u) = <<0>> \o LineLengths(u)
<1> DEFINE v == EmptyLine \o u
<1>1. /\ EmptyLine \in Seq(Chars) /\ Len(EmptyLine) = 1 /\ EmptyLine[1] = Newline
      /\ u \in Seq(Chars) /\ Len(u) \in Nat
  BY CharFacts DEF EmptyLine, Follows
<1>2. /\ v \in Seq(Chars) /\ Len(v) = 1 + Len(u) /\ v[1] = Newline
      /\ RestAt(v, 1) = u /\ SubSeq(v, 1, 1) = EmptyLine
  <2>1. /\ v \in Seq(Chars) /\ Len(v) = Len(EmptyLine) + Len(u)
        /\ \A i \in 1 .. Len(EmptyLine) : v[i] = EmptyLine[i]
        /\ \A i \in 0 .. Len(u) : RestAt(v, Len(EmptyLine) + i) = RestAt(u, i)
    BY <1>1, JoinParts
  <2>2. RestAt(u, 0) = u /\ 0 \in 0 .. Len(u) /\ Len(EmptyLine) + 0 = 1 /\ 1 \in 1 .. Len(EmptyLine)
    BY <1>1, RestFacts
  <2> HIDE DEF v
  <2>3. v \in Seq(Chars) /\ Len(v) = 1 + Len(u) /\ v[1] = Newline /\ RestAt(v, 1) = u
    BY <1>1, <2>1, <2>2
  <2>4. SubSeq(v, 1, 1) = <<v[1]>>
    <3>1. Len(v) \in Nat /\ Len(v) >= 1
      BY <1>1, <2>3
    <3>2. SubSeq(v, 1, 1) = [i \in 1 .. 1 |-> v[i]]
      BY <2>3, <3>1
    <3>3. <<v[1]>> = [i \in 1 .. 1 |-> v[i]]
      OBVIOUS
    <3> QED
      BY <3>2, <3>3
  <2> QED
    BY <2>3, <2>4 DEF EmptyLine
<1> HIDE DEF v
<1>3. LineEnd(v) = 1 /\ HasLine(v)
  <2>1. 1 \in DOMAIN v /\ \A j \in 1 .. 1 - 1 : v[j] # Newline
    BY <1>1, <1>2
  <2> QED
    BY <1>2, <2>1, LineEndIs
<1>4. Len(Words(EmptyLine).bytes) = 0
  <2>1. Follows(<<>>) /\ EmptyLine \o <<>> = EmptyLine
    BY <1>1 DEF Follows
  <2>2. Words(EmptyLine) = Words(<<>>)
    BY <2>1, BreakThen
  <2>3. Words(<<>>) = [bytes |-> <<>>, why |-> "none"]
    BY <2>1, WordsDef DEF WordsStep, Follows
  <2> QED
    BY <2>2, <2>3
<1> QED
  BY <1>2, <1>3, <1>4, LinesDef DEF LinesStep, v

------------------------------------------------------------------------------
(* The lines of a text, n bytes on the last of them, whatever comes after.  *)
HasLines(t, ls, n) ==
    /\ t \in Seq(Chars)
    /\ ls \in Seq(Nat)
    /\ n \in Nat
    /\ \A u : Follows(u) => LineLengths(t \o u) = ls \o Longer(LineLengths(u), n)

LEMMA HasNoLines == HasLines(<<>>, <<>>, 0)
<1>1. <<>> \in Seq(Chars) /\ <<>> \in Seq(Nat) /\ 0 \in Nat
  OBVIOUS
<1>2. ASSUME NEW u, Follows(u) PROVE LineLengths(<<>> \o u) = <<>> \o Longer(LineLengths(u), 0)
  <2> DEFINE ls == LineLengths(u)
  <2>1. u \in Seq(Chars) /\ <<>> \o u = u
    BY <1>2 DEF Follows
  <2>2. ls \in Counts
    BY <2>1, LinesType
  <2> HIDE DEF ls
  <2>3. Longer(ls, 0) = ls /\ <<>> \o ls = ls
    BY <2>2, LongerFacts DEF Counts
  <2> QED
    BY <2>1, <2>3 DEF ls
<1> QED
  BY <1>1, <1>2 DEF HasLines

LEMMA WordContinues ==
  ASSUME NEW t, NEW ls, NEW n, HasLines(t, ls, n), NEW b \in Byte
  PROVE  HasLines(t \o Word(b), ls, n + 1)
<1> DEFINE w == Word(b)
<1>1. t \in Seq(Chars) /\ w \in Seq(Chars) /\ ls \in Seq(Nat) /\ n \in Nat
  BY WordFacts DEF HasLines
<1>2. t \o w \in Seq(Chars) /\ n + 1 \in Nat
  BY <1>1, JoinParts
<1>3. ASSUME NEW u, Follows(u)
      PROVE  LineLengths((t \o w) \o u) = ls \o Longer(LineLengths(u), n + 1)
  <2> DEFINE v == w \o u
  <2>1. u \in Seq(Chars) /\ LineLengths(u) \in Counts
    BY <1>3, LinesType DEF Follows
  <2>2. Follows(v) /\ LineLengths(v) = Longer(LineLengths(u), 1)
    BY <1>3, WordThen, WordOnLine
  <2> HIDE DEF w
  <2>3. t \o v = (t \o w) \o u
    BY <1>1, <2>1
  <2> HIDE DEF v
  <2>4. LineLengths(t \o v) = ls \o Longer(LineLengths(v), n)
    BY <2>2 DEF HasLines
  <2>5. Longer(Longer(LineLengths(u), 1), n) = Longer(LineLengths(u), n + 1)
    BY <1>1, <2>1, LongerFacts
  <2> QED
    BY <2>2, <2>3, <2>4, <2>5
<1> QED
  BY <1>1, <1>2, <1>3 DEF HasLines

LEMMA BreakEnds ==
  ASSUME NEW t, NEW ls, NEW n, HasLines(t, ls, n)
  PROVE  HasLines(t \o EmptyLine, Append(ls, n), 0)
<1>1. t \in Seq(Chars) /\ EmptyLine \in Seq(Chars) /\ ls \in Seq(Nat) /\ n \in Nat
  BY CharFacts DEF HasLines, EmptyLine
<1>2. t \o EmptyLine \in Seq(Chars) /\ Append(ls, n) \in Seq(Nat)
  BY <1>1, JoinParts
<1>3. ASSUME NEW u, Follows(u)
      PROVE  LineLengths((t \o EmptyLine) \o u) = Append(ls, n) \o Longer(LineLengths(u), 0)
  <2> DEFINE v == EmptyLine \o u
             us == LineLengths(u)
  <2>1. u \in Seq(Chars) /\ us \in Counts
    BY <1>3, LinesType DEF Follows
  <2>2. Follows(v) /\ LineLengths(v) = <<0>> \o us
    BY <1>3, BreakThen, BreakOnLine
  <2>3. t \o v = (t \o EmptyLine) \o u
    BY <1>1, <2>1
  <2> HIDE DEF v, us
  <2>4. LineLengths(t \o v) = ls \o Longer(LineLengths(v), n)
    BY <2>2 DEF HasLines
  <2>5. Longer(<<0>> \o us, n) = <<n + 0>> \o us /\ Longer(us, 0) = us /\ n + 0 = n
    <3>1. \A m \in Nat : Longer(<<m>> \o us, n) = <<n + m>> \o us
      BY <1>1, <2>1, LongerFacts
    <3>2. 0 \in Nat /\ n + 0 = n
      BY <1>1
    <3> QED
      BY <1>1, <2>1, <3>1, <3>2, LongerFacts
  <2>6. us \in Seq(Nat)
    BY <2>1 DEF Counts
  <2>7. ls \o (<<n>> \o us) = Append(ls, n) \o us
    <3> DEFINE N == Nat
    <3>1. n \in N /\ ls \in Seq(N) /\ us \in Seq(N)
      BY <1>1, <2>6
    <3> HIDE DEF N
    <3> QED
      BY <3>1, AppendedFirst
  <2> QED
    BY <2>2, <2>3, <2>4, <2>5, <2>7 DEF us
<1> QED
  BY <1>2, <1>3 DEF HasLines

(* n bytes, in lines of the width.                                          *)
Full(n) == [i \in 1 .. n \div width |-> width]
FullTo(t, n) == HasLines(t, Full(n), n % width)

LEMMA FullNext ==
  ASSUME width \in Nat, width # 0, NEW n \in Nat, NEW t, FullTo(t, n), NEW b \in Byte
  PROVE  /\ (n + 1) % width # 0 => FullTo(t \o Word(b), n + 1)
         /\ (n + 1) % width = 0 => FullTo((t \o Word(b)) \o EmptyLine, n + 1)
<1> DEFINE w == Word(b)
<1>1. HasLines(t \o w, Full(n), (n % width) + 1)
  BY WordContinues DEF FullTo
<1> HIDE DEF w
<1>2. CASE (n + 1) % width # 0
  <2>1. (n + 1) % width = (n % width) + 1 /\ (n + 1) \div width = n \div width
    BY <1>2, CountedOn
  <2>2. Full(n + 1) = Full(n)
    BY <2>1 DEF Full
  <2> QED
    BY <1>1, <1>2, <2>1, <2>2 DEF FullTo, w
<1>3. CASE (n + 1) % width = 0
  <2> DEFINE q == n \div width
  <2>1. (n % width) + 1 = width /\ (n + 1) \div width = q + 1 /\ q \in Nat
    BY <1>3, CountedOn
  <2>2. HasLines((t \o w) \o EmptyLine, Append(Full(n), width), 0)
    BY <1>1, <2>1, BreakEnds
  <2> HIDE DEF q
  <2>3. Append([i \in 1 .. q |-> width], width) = [i \in 1 .. q + 1 |-> width]
    <3> DEFINE f == [i \in 1 .. q |-> width]
    <3>1. f \in Seq(Nat) /\ Len(f) = q
      BY <2>1
    <3>2. \A i \in 1 .. q : f[i] = width
      OBVIOUS
    <3> HIDE DEF f
    <3>3. Append(f, width) = [i \in 1 .. Len(f) + 1 |-> IF i <= Len(f) THEN f[i] ELSE width]
      BY <3>1, AppendedIs
    <3>4. \A i \in 1 .. q + 1 : (IF i <= q THEN f[i] ELSE width) = width
      BY <2>1, <3>2
    <3> QED
      BY <3>1, <3>3, <3>4 DEF f
  <2>4. Full(n + 1) = Append(Full(n), width)
    BY <2>1, <2>3 DEF Full, q
  <2> QED
    BY <1>3, <2>2, <2>4 DEF FullTo, w
<1> QED
  BY <1>2, <1>3 DEF w

LEMMA FullStart == ASSUME width \in Nat, width # 0 PROVE FullTo(<<>>, 0)
<1>1. 0 = width * 0 + 0 /\ 0 \in 0 .. width - 1 /\ 0 \in Nat
  OBVIOUS
<1>2. 0 \div width = 0 /\ 0 % width = 0
  BY <1>1, Divides
<1>3. Full(0) = <<>>
  BY <1>2 DEF Full
<1> QED
  BY <1>2, <1>3, HasNoLines DEF FullTo

------------------------------------------------------------------------------
(* Bytes that are whole items, whatever comes after.                        *)
Whole(bs, items) ==
    /\ bs \in Seq(Byte)
    /\ items \in Seq(Seq(Byte))
    /\ \A x \in Seq(Byte) : /\ Cut(bs \o x).items = items \o Cut(x).items
                            /\ Cut(bs \o x).why = Cut(x).why

LEMMA WholeNothing == Whole(<<>>, <<>>)
<1>1. <<>> \in Seq(Byte) /\ <<>> \in Seq(Seq(Byte))
  OBVIOUS
<1>2. ASSUME NEW x \in Seq(Byte) PROVE <<>> \o x = x /\ <<>> \o Cut(x).items = Cut(x).items
  <2> DEFINE i == Cut(x).items
  <2>1. i \in Seq(Seq(Byte))
    BY CutType
  <2> HIDE DEF i
  <2>2. <<>> \o i = i
    BY <2>1
  <2> QED
    BY <2>2 DEF i
<1> QED
  BY <1>1, <1>2 DEF Whole

LEMMA WholeItem ==
  ASSUME NEW bs, NEW items, Whole(bs, items), NEW item \in Puttable
  PROVE  Whole(bs \o item, Append(items, item))
<1>1. /\ bs \in Seq(Byte) /\ items \in Seq(Seq(Byte))
      /\ item \in Seq(Byte) /\ Fits(item) /\ ItemSize(item) = Len(item) /\ ItemValid(item)
  BY PuttableAssumption DEF Whole
<1>2. bs \o item \in Seq(Byte) /\ Append(items, item) \in Seq(Seq(Byte))
  <2>1. bs \o item \in Seq(Byte)
    BY <1>1
  <2> DEFINE B == Seq(Byte)
  <2> HIDE DEF B
  <2>2. items \in Seq(B) /\ item \in B
    BY <1>1 DEF B
  <2>3. Append(items, item) \in Seq(B)
    BY <2>2
  <2> QED
    BY <2>1, <2>3 DEF B
<1>3. ASSUME NEW x \in Seq(Byte)
      PROVE  /\ Cut((bs \o item) \o x).items = Append(items, item) \o Cut(x).items
             /\ Cut((bs \o item) \o x).why = Cut(x).why
  <2> DEFINE y == item \o x
             i == Cut(x).items
             z == Cut(x).why
  <2>1. y \in Seq(Byte) /\ bs \o y = (bs \o item) \o x
    BY <1>1
  <2>2. Cut(y) = [Cut(x) EXCEPT !.items = <<item>> \o @]
    BY <1>1, CutFirst
  <2>3. Cut(x) = [items |-> i, why |-> z] /\ i \in Seq(Seq(Byte))
    BY CutType
  <2> HIDE DEF y, i, z
  <2>4. Cut(y).items = <<item>> \o i /\ Cut(y).why = z
    BY <2>2, <2>3
  <2>5. Cut(bs \o y).items = items \o Cut(y).items /\ Cut(bs \o y).why = Cut(y).why
    BY <2>1 DEF Whole
  <2>6. items \o (<<item>> \o i) = Append(items, item) \o i
    <3> DEFINE B == Seq(Byte)
    <3> HIDE DEF B
    <3>1. items \in Seq(B) /\ item \in B /\ i \in Seq(B)
      BY <1>1, <2>3 DEF B
    <3> QED
      BY <3>1
  <2> QED
    BY <2>1, <2>4, <2>5, <2>6 DEF i, z
<1> QED
  BY <1>2, <1>3 DEF Whole

------------------------------------------------------------------------------
(* What is counted of the additions: the line breaks are not.                *)
Counted(adds) == {i \in DOMAIN adds : adds[i] # LineBreak}

LEMMA CountedNothing == Cardinality(Counted(<<>>)) = 0
<1>1. Counted(<<>>) = {}
  BY DEF Counted
<1> QED
  BY <1>1, FS_EmptySet

LEMMA CountedMore ==
  ASSUME NEW S, NEW adds \in Seq(S), NEW a \in S
  PROVE  /\ Cardinality(Counted(adds)) \in Nat
         /\ a = LineBreak => Counted(Append(adds, a)) = Counted(adds)
         /\ a # LineBreak =>
               Cardinality(Counted(Append(adds, a))) = Cardinality(Counted(adds)) + 1
<1> DEFINE n == Len(adds)
           bs == Append(adds, a)
<1>1. /\ n \in Nat /\ DOMAIN adds = 1 .. n /\ DOMAIN bs = 1 .. n + 1 /\ bs[n + 1] = a
      /\ \A i \in 1 .. n : bs[i] = adds[i]
  OBVIOUS
<1> HIDE DEF bs, n
<1>2. IsFiniteSet(Counted(adds))
  <2>1. IsFiniteSet(1 .. n)
    BY <1>1, FS_Interval
  <2>2. Counted(adds) \subseteq 1 .. n
    BY <1>1 DEF Counted
  <2> QED
    BY <2>1, <2>2, FS_Subset
<1>3. Cardinality(Counted(adds)) \in Nat
  BY <1>2, FS_CardinalityType
<1>4. CASE a = LineBreak
  <2>1. Counted(bs) = Counted(adds)
    BY <1>1, <1>4 DEF Counted
  <2> QED
    BY <1>3, <1>4, <2>1 DEF bs
<1>5. CASE a # LineBreak
  <2>1. Counted(bs) = Counted(adds) \cup {n + 1} /\ n + 1 \notin Counted(adds)
    BY <1>1, <1>5 DEF Counted
  <2>2. Cardinality(Counted(bs)) = Cardinality(Counted(adds)) + 1
    BY <1>2, <2>1, FS_AddElement
  <2> QED
    BY <1>3, <1>5, <2>2 DEF bs
<1> QED
  BY <1>4, <1>5

------------------------------------------------------------------------------
(* What the additions have written: bs is what the text stands for and, if  *)
(* lines are ended, n is the number of bytes in it.                         *)
Wrote(adds, bs, n) ==
    /\ adds \in Seq(Fitting)
    /\ Sound(AllAdded(adds))
    /\ Means(AllAdded(adds).text, bs)
    /\ width # 0 => CountAfter(adds) = n /\ FullTo(AllAdded(adds).text, n)

LEMMA WroteNothing ==
  ASSUME Sound(buf), NEW bs, Means(buf.text, bs), bytes \in Nat,
         width # 0 => FullTo(buf.text, bytes)
  PROVE  Wrote(<<>>, bs, bytes)
<1>1. <<>> \in Seq(Fitting)
  OBVIOUS
<1>2. CountAfter(<<>>) = bytes
  <2>1. CountAfter(<<>>) = IF width = 0 THEN bytes ELSE bytes + Cardinality(Counted(<<>>))
    BY DEF CountAfter, Counted
  <2> QED
    BY <2>1, CountedNothing
<1> QED
  BY <1>1, <1>2, AllAddedNothing DEF Wrote

LEMMA DigitsFitting ==
  ASSUME NEW b \in Byte
  PROVE  Digits2(b) \in Fitting /\ Digits2(b).text = Word(b) /\ Digits2(b) # LineBreak
<1> DEFINE w == Word(b)
<1>1. w \in Seq(Chars) /\ Len(w) = 3
  BY WordFacts
<1>2. Digits2(b) = Addition(w, Len(w) + 1)
  BY DEF Digits2, AddPrintf, Word
<1>3. LineBreak = Addition(EmptyLine, 1)
  <2>1. Len(EmptyLine) = 1
    BY DEF EmptyLine
  <2> QED
    BY <2>1 DEF LineBreak, AddPtr, EmptyLine
<1> HIDE DEF w
<1>4. Digits2(b) = Addition(w, 4) /\ 4 \in Nat /\ Len(w) <= 4
  BY <1>1, <1>2
<1>5. Addition(w, 4) \in Fitting
  BY <1>1, <1>4, MakesFitting
<1>6. Addition(w, 4).text = w /\ Addition(w, 4) # Addition(EmptyLine, 1)
  BY DEF Addition
<1> QED
  BY <1>3, <1>4, <1>5, <1>6 DEF w

LEMMA BreakFitting == LineBreak \in Fitting /\ LineBreak.text = EmptyLine
<1>1. EmptyLine \in Seq(Chars) /\ Len(EmptyLine) = 1
  BY CharFacts DEF EmptyLine
<1>2. LineBreak = Addition(EmptyLine, 1) /\ 1 \in Nat /\ Len(EmptyLine) <= 1
  BY <1>1 DEF LineBreak, AddPtr, EmptyLine
<1>3. Addition(EmptyLine, 1) \in Fitting
  BY <1>1, <1>2, MakesFitting
<1>4. Addition(EmptyLine, 1).text = EmptyLine
  BY DEF Addition
<1> QED
  BY <1>2, <1>3, <1>4

LEMMA CountedOneMore ==
  ASSUME NEW adds \in Seq(Fitting), NEW a \in Fitting, width # 0, bytes \in Nat
  PROVE  /\ a = LineBreak => CountAfter(Append(adds, a)) = CountAfter(adds)
         /\ a # LineBreak => CountAfter(Append(adds, a)) = CountAfter(adds) + 1
<1> DEFINE more == Append(adds, a)
           c == Cardinality(Counted(adds))
           d == Cardinality(Counted(more))
<1>1. CountAfter(more) = bytes + d /\ CountAfter(adds) = bytes + c
  BY DEF CountAfter, Counted
<1>2. c \in Nat /\ (a = LineBreak => d = c) /\ (a # LineBreak => d = c + 1)
  <2> DEFINE S == Fitting
  <2>1. adds \in Seq(S) /\ a \in S
    OBVIOUS
  <2> HIDE DEF S
  <2> QED
    BY <2>1, CountedMore
<1> HIDE DEF c, d, more
<1>3. bytes + (c + 1) = (bytes + c) + 1
  BY <1>2
<1> QED
  BY <1>1, <1>2, <1>3 DEF more

LEMMA WroteByte ==
  ASSUME width \in Nat, bytes \in Nat, NEW adds, NEW bs, NEW n \in Nat, Wrote(adds, bs, n),
         NEW b \in Byte
  PROVE  Wrote(adds \o (<<Digits2(b)>> \o (IF BreakAfter(n + 1) THEN <<LineBreak>> ELSE <<>>)),
               Append(bs, b), n + 1)
<1> DEFINE d == Digits2(b)
           w == Word(b)
           t == AllAdded(adds).text
           once == Append(adds, d)
           twice == Append(once, LineBreak)
<1>1. adds \in Seq(Fitting) /\ Sound(AllAdded(adds)) /\ Means(t, bs)
  BY DEF Wrote
<1>2. d \in Fitting /\ d.text = w /\ d # LineBreak
  BY DigitsFitting
<1>3. LineBreak \in Fitting /\ LineBreak.text = EmptyLine
  BY BreakFitting
<1> HIDE DEF d
<1>4. once \in Seq(Fitting) /\ twice \in Seq(Fitting)
  BY <1>1, <1>2, <1>3
<1>5. AllAdded(once) = Added(AllAdded(adds), d)
  BY <1>1, <1>2, AllAddedAppend
<1>6. Sound(AllAdded(once)) /\ AllAdded(once).text = t \o w
  BY <1>1, <1>2, <1>5, AddedSound
<1>7. Means(t \o w, Append(bs, b))
  BY <1>1, MeansWord
<1>8. width # 0 => CountAfter(once) = n + 1
  BY <1>1, <1>2, CountedOneMore DEF Wrote
<1>9. width # 0 => /\ (n + 1) % width # 0 => FullTo(t \o w, n + 1)
                   /\ (n + 1) % width = 0 => FullTo((t \o w) \o EmptyLine, n + 1)
  BY FullNext DEF Wrote
<1> HIDE DEF t, w
<1>10. CASE ~BreakAfter(n + 1)
  <2>1. Wrote(once, Append(bs, b), n + 1)
    BY <1>4, <1>6, <1>7, <1>8, <1>9, <1>10 DEF Wrote, BreakAfter
  <2>2. adds \o (<<d>> \o <<>>) = once
    BY <1>1, <1>2
  <2> QED
    BY <1>10, <2>1, <2>2 DEF d
<1>11. CASE BreakAfter(n + 1)
  <2>1. AllAdded(twice) = Added(AllAdded(once), LineBreak)
    BY <1>3, <1>4, AllAddedAppend
  <2>2. Sound(AllAdded(twice)) /\ AllAdded(twice).text = (t \o w) \o EmptyLine
    BY <1>3, <1>6, <2>1, AddedSound
  <2>3. Means((t \o w) \o EmptyLine, Append(bs, b))
    BY <1>7, MeansBreak
  <2>4. width # 0 /\ (n + 1) % width = 0
    BY <1>11 DEF BreakAfter
  <2>5. CountAfter(twice) = n + 1
    <3>1. CountAfter(twice) = CountAfter(once)
      <4> HIDE DEF once
      <4> QED
        BY <1>3, <1>4, <2>4, CountedOneMore
    <3> QED
      BY <1>8, <2>4, <3>1
  <2>6. Wrote(twice, Append(bs, b), n + 1)
    BY <1>4, <1>9, <2>2, <2>3, <2>4, <2>5 DEF Wrote
  <2>7. adds \o (<<d>> \o <<LineBreak>>) = twice
    <3> DEFINE S == Fitting
               e == LineBreak
    <3>1. adds \in Seq(S) /\ d \in S /\ e \in S
      BY <1>1, <1>2, <1>3
    <3> HIDE DEF S, e
    <3>2. adds \o (<<d>> \o <<e>>) = Append(Append(adds, d), e)
      BY <3>1
    <3> QED
      BY <3>2 DEF e
  <2> QED
    BY <1>11, <2>6, <2>7 DEF d
<1> QED
  BY <1>10, <1>11

(* An item is written byte after byte.                                      *)
LEMMA PutWrites ==
  ASSUME width \in Nat, bytes \in Nat, NEW bs, Wrote(<<>>, bs, bytes), bs \in Seq(Byte),
         NEW item \in Seq(Byte), Len(item) # 0
  PROVE  Wrote(Additions(item), bs \o item, bytes + Len(item))
<1> DEFINE P(i) == <<Digits2(item[i])>> \o
                      (IF BreakAfter(bytes + i) THEN <<LineBreak>> ELSE <<>>)
           seqs == [i \in DOMAIN item |-> P(i)]
           n == Len(item)
<1>1. n \in Nat /\ n # 0 /\ DOMAIN item = 1 .. n /\ \A i \in 1 .. n : item[i] \in Byte
  OBVIOUS
<1>2. ASSUME NEW i \in DOMAIN item PROVE P(i) \in Seq(Fitting)
  <2>1. Digits2(item[i]) \in Fitting /\ LineBreak \in Fitting
    BY <1>1, <1>2, DigitsFitting, BreakFitting
  <2> QED
    BY <2>1
<1>3. Additions(item) = FlattenSeq(seqs)
  BY DEF Additions, AdditionsFrom
<1> HIDE DEF n, P
<1>4. seqs \in Seq(Seq(Fitting)) /\ Len(seqs) = n
  BY <1>1, <1>2
<1>5. \A i \in 1 .. n : seqs[i] = P(i)
  BY <1>1
<1> HIDE DEF seqs
<1>6. PICK flat : /\ FlattenSeq(seqs) = flat[n]
                  /\ flat[1] = seqs[1]
                  /\ \A i \in 1 .. n - 1 : flat[i + 1] = flat[i] \o seqs[i + 1]
  BY <1>1, <1>4, FlattenAt
<1>7. ASSUME NEW i \in Nat, i + 1 \in 1 .. n,
             NEW adds, Wrote(adds, bs \o SubSeq(item, 1, i), bytes + i)
      PROVE  Wrote(adds \o P(i + 1), bs \o SubSeq(item, 1, i + 1), bytes + (i + 1))
  <2> DEFINE m == bytes + i
             x == item[i + 1]
             bi == bs \o SubSeq(item, 1, i)
  <2>1. m \in Nat /\ m + 1 = bytes + (i + 1)
    BY <1>7
  <2>2. x \in Byte
    BY <1>1, <1>7
  <2>3. Append(bi, x) = bs \o SubSeq(item, 1, i + 1)
    <3> DEFINE B == Byte
    <3>1. bs \in Seq(B) /\ item \in Seq(B) /\ i \in Nat /\ i + 1 \in 1 .. Len(item)
      BY <1>7 DEF n
    <3> HIDE DEF B
    <3> QED
      BY <3>1
  <2>4. P(i + 1) = <<Digits2(x)>> \o (IF BreakAfter(m + 1) THEN <<LineBreak>> ELSE <<>>)
    BY <2>1 DEF P
  <2> HIDE DEF m, x, bi
  <2>5. Wrote(adds, bi, m)
    BY <1>7 DEF bi, m
  <2>6. Wrote(adds \o P(i + 1), Append(bi, x), m + 1)
    BY <2>1, <2>2, <2>4, <2>5, WroteByte
  <2> QED
    BY <2>1, <2>3, <2>6
<1> DEFINE S == {i \in Nat :
                   i + 1 <= n => Wrote(flat[i + 1], bs \o SubSeq(item, 1, i + 1), bytes + (i + 1))}
<1>8. 0 \in S
  <2>1. 1 \in 1 .. n /\ 0 + 1 = 1 /\ 0 \in Nat
    BY <1>1
  <2>2. bs \o SubSeq(item, 1, 0) = bs /\ bytes + 0 = bytes
    OBVIOUS
  <2>3. Wrote(<<>> \o P(1), bs \o SubSeq(item, 1, 1), bytes + 1)
    <3>1. Wrote(<<>> \o P(0 + 1), bs \o SubSeq(item, 1, 0 + 1), bytes + (0 + 1))
      <4>1. 0 + 1 \in 1 .. n /\ Wrote(<<>>, bs \o SubSeq(item, 1, 0), bytes + 0)
        BY <2>1, <2>2
      <4> QED
        BY <1>7, <2>1, <4>1
    <3> QED
      BY <2>1, <3>1
  <2>4. <<>> \o P(1) = flat[1]
    <3>1. P(1) \in Seq(Fitting)
      BY <1>1, <1>2, <2>1
    <3>2. <<>> \o P(1) = P(1)
      BY <3>1
    <3> QED
      BY <1>5, <1>6, <2>1, <3>2
  <2> QED
    BY <2>1, <2>3, <2>4
<1>9. ASSUME NEW i \in Nat, i \in S PROVE i + 1 \in S
  <2> SUFFICES ASSUME (i + 1) + 1 <= n
               PROVE  Wrote(flat[(i + 1) + 1], bs \o SubSeq(item, 1, (i + 1) + 1),
                            bytes + ((i + 1) + 1))
    OBVIOUS
  <2> DEFINE k == i + 1
  <2>1. k \in Nat /\ k <= n /\ k \in 1 .. n - 1 /\ k + 1 \in 1 .. n
    BY <1>1
  <2>2. Wrote(flat[k], bs \o SubSeq(item, 1, k), bytes + k)
    BY <1>9, <2>1
  <2> HIDE DEF k
  <2>3. flat[k + 1] = flat[k] \o P(k + 1)
    BY <1>5, <1>6, <2>1
  <2>4. Wrote(flat[k + 1], bs \o SubSeq(item, 1, k + 1), bytes + (k + 1))
    BY <1>7, <2>1, <2>2, <2>3
  <2> QED
    BY <2>4 DEF k
<1>10. n - 1 \in S
  <2> HIDE DEF S
  <2>1. n - 1 \in Nat
    BY <1>1
  <2> QED
    BY <1>8, <1>9, <2>1, NumberInduction
<1>11. Wrote(flat[n], bs \o SubSeq(item, 1, n), bytes + n)
  <2>1. (n - 1) + 1 = n /\ n <= n
    BY <1>1
  <2> QED
    BY <1>10, <2>1
<1>12. SubSeq(item, 1, n) = item
  <2> DEFINE B == Byte
  <2>1. item \in Seq(B)
    OBVIOUS
  <2> HIDE DEF B
  <2> QED
    BY <2>1 DEF n
<1> QED
  BY <1>3, <1>6, <1>11, <1>12 DEF n

------------------------------------------------------------------------------
(* What the text of the buffer stands for, as long as the sink is used, and *)
(* the lines it has.                                                        *)
BufferMeans == \E bs, items : Means(buf.text, bs) /\ Whole(bs, items)
SnkInv ==
    /\ width \in Nat /\ bytes \in Nat
    /\ Sound(buf)
    /\ out = NoOutput \/ out \in Seq(Chars)
    /\ CanCall => BufferMeans
    /\ CanCall /\ width # 0 => FullTo(buf.text, bytes)
    /\ LinesFull

LEMMA LinesOfNothing == LineLengths(<<>>) = <<0>>
<1>1. <<>> \in Seq(Chars) /\ <<>> \in Seq(Byte)
  OBVIOUS
<1>2. ~HasLine(<<>>)
  BY DEF HasLine
<1>3. Words(<<>>) = [bytes |-> <<>>, why |-> "none"]
  BY <1>1, WordsDef DEF WordsStep
<1>4. LineLengths(<<>>) = <<Len(Words(<<>>).bytes)>>
  BY <1>1, <1>2, LinesDef DEF LinesStep
<1>5. Words(<<>>).bytes = <<>> /\ Len(<<>>) = 0
  BY <1>3
<1> QED
  BY <1>4, <1>5

(* Lines that are ended, and nothing after the last of them.                *)
EachEnded(ls) == ls \o <<0>>

LEMMA LinesAre ==
  ASSUME NEW t, NEW ls, HasLines(t, ls, 0)
  PROVE  LineLengths(t) = EachEnded(ls)
<1>1. Follows(<<>>)
  BY DEF Follows
<1>2. t \o <<>> = t
  BY DEF HasLines
<1>3. LineLengths(t \o <<>>) = ls \o Longer(<<0>>, 0)
  BY <1>1, LinesOfNothing DEF HasLines
<1>4. Longer(<<0>>, 0) = <<0>>
  BY DEF Longer
<1> QED
  BY <1>2, <1>3, <1>4 DEF EachEnded

(* Full lines, and a last one that may be shorter.                          *)
FullEnded(lines) ==
    /\ Last(lines) = 0
    /\ \A i \in 1 .. Len(lines) - 1 :
           /\ i < Len(lines) - 1 => lines[i] = width
           /\ lines[i] \in 1 .. width

LEMMA FullLines ==
  ASSUME NEW ls \in Seq(Nat), width \in Nat, width # 0,
         \A i \in 1 .. Len(ls) : /\ i < Len(ls) => ls[i] = width
                                 /\ ls[i] \in 1 .. width
  PROVE  FullEnded(EachEnded(ls))
<1> DEFINE lines == ls \o <<0>>
<1>1. /\ Len(ls) \in Nat /\ Len(lines) = Len(ls) + 1 /\ lines[Len(ls) + 1] = 0
      /\ \A i \in 1 .. Len(ls) : lines[i] = ls[i]
  OBVIOUS
<1> HIDE DEF lines
<1>2. Last(lines) = 0
  BY <1>1 DEF Last
<1>3. Len(lines) - 1 = Len(ls)
  BY <1>1
<1>4. \A i \in 1 .. Len(lines) - 1 : /\ i < Len(lines) - 1 => lines[i] = width
                                      /\ lines[i] \in 1 .. width
  BY <1>1, <1>3
<1> QED
  BY <1>2, <1>4 DEF FullEnded, EachEnded, lines

LEMMA FullIs ==
  ASSUME width \in Nat, width # 0, NEW n \in Nat
  PROVE  /\ Full(n) \in Seq(Nat)
         /\ \A i \in 1 .. Len(Full(n)) : Full(n)[i] = width
<1> DEFINE q == n \div width
<1>1. q \in Nat
  BY CountedOn
<1> HIDE DEF q
<1>2. /\ [i \in 1 .. q |-> width] \in Seq(Nat)
      /\ \A j \in 1 .. Len([i \in 1 .. q |-> width]) : [i \in 1 .. q |-> width][j] = width
  BY <1>1
<1> QED
  BY <1>2 DEF Full, q

LEMMA EndedIs ==
  ASSUME Sound(buf)
  PROVE  /\ Ended.text = (IF LastEnds THEN buf.text \o EmptyLine ELSE buf.text)
         /\ AfterFlush.text = buf.text
<1> DEFINE a == AddSpan(Newline, 1)
           w == [i \in 1 .. 1 |-> Newline]
<1>1. w \in Seq(Chars) /\ Len(w) = 1 /\ w = EmptyLine
  BY CharFacts DEF EmptyLine
<1>2. a = Addition(w, 1) /\ 1 \in Nat /\ 1 <= 1
  BY DEF AddSpan
<1> HIDE DEF w, a
<1>3. a \in Fitting /\ a.text = EmptyLine
  BY <1>1, <1>2, MakesFitting DEF Addition
<1>4. Added(buf, a).text = buf.text \o EmptyLine /\ Sound(Added(buf, a))
  BY <1>3, AddedSound
<1>5. Ended = IF LastEnds THEN Added(buf, a) ELSE buf
  BY DEF Ended, a
<1>6. Sound(Ended)
  BY <1>4, <1>5
<1>7. AfterFlush = [text |-> buf.text, size |-> Ended.size, spilled |-> Ended.spilled]
  BY <1>6 DEF AfterFlush, Sound
<1> QED
  BY <1>4, <1>5, <1>7

(* What a flush delivers.                                                   *)
LEMMA FlushLines == SnkInv /\ Flush => LinesFull'
<1> SUFFICES ASSUME SnkInv, Flush PROVE LinesFull'
  OBVIOUS
<1> DEFINE t == buf.text
           n == bytes
           f == Full(n)
           r == n % width
<1>1. out' = (IF LastEnds THEN t \o EmptyLine ELSE t) /\ width' = width /\ CanCall
  BY EndedIs DEF Flush, SnkInv
<1>2. width \in Nat /\ n \in Nat
  BY DEF SnkInv
<1>3. CASE width = 0
  BY <1>1, <1>3 DEF LinesFull
<1>4. CASE width # 0
  <2>1. HasLines(t, f, r)
    BY <1>1, <1>4 DEF SnkInv, FullTo
  <2>2. r \in 0 .. width - 1
    BY <1>2, <1>4, CountedOn
  <2>3. f \in Seq(Nat) /\ \A i \in 1 .. Len(f) : f[i] = width
    BY <1>2, <1>4, FullIs
  <2>4. LastEnds <=> r # 0
    BY <1>4 DEF LastEnds, BreakAfter
  <2> HIDE DEF f, r, t, n
  <2>5. \E ls \in Seq(Nat) :
          /\ \A i \in 1 .. Len(ls) : (i < Len(ls) => ls[i] = width) /\ ls[i] \in 1 .. width
          /\ LineLengths(out') = EachEnded(ls)
    <3>1. CASE r # 0
      <4> DEFINE g == Append(f, r)
      <4>1. HasLines(t \o EmptyLine, g, 0)
        BY <2>1, BreakEnds
      <4>2. LineLengths(out') = EachEnded(g)
        BY <1>1, <2>4, <3>1, <4>1, LinesAre
      <4>3. /\ g \in Seq(Nat) /\ Len(g) = Len(f) + 1 /\ Len(f) \in Nat /\ g[Len(f) + 1] = r
            /\ \A i \in 1 .. Len(f) : g[i] = f[i]
        <5> DEFINE N == Nat
        <5>1. f \in Seq(N) /\ r \in N
          BY <2>2, <2>3
        <5> HIDE DEF N
        <5>2. /\ Append(f, r) \in Seq(N) /\ Len(Append(f, r)) = Len(f) + 1 /\ Len(f) \in Nat
              /\ Append(f, r)[Len(f) + 1] = r
              /\ \A i \in 1 .. Len(f) : Append(f, r)[i] = f[i]
          BY <5>1
        <5> QED
          BY <5>2 DEF N
      <4> HIDE DEF g
      <4>4. \A i \in 1 .. Len(g) : (i < Len(g) => g[i] = width) /\ g[i] \in 1 .. width
        BY <1>2, <1>4, <2>2, <2>3, <3>1, <4>3
      <4> QED
        BY <4>2, <4>3, <4>4
    <3>2. CASE r = 0
      <4>1. LineLengths(out') = EachEnded(f)
        BY <1>1, <2>1, <2>4, <3>2, LinesAre
      <4>2. \A i \in 1 .. Len(f) : (i < Len(f) => f[i] = width) /\ f[i] \in 1 .. width
        BY <1>2, <1>4, <2>3
      <4> QED
        BY <2>3, <4>1, <4>2
    <3> QED
      BY <3>1, <3>2
  <2>6. PICK ls \in Seq(Nat) :
          /\ \A i \in 1 .. Len(ls) : (i < Len(ls) => ls[i] = width) /\ ls[i] \in 1 .. width
          /\ LineLengths(out') = EachEnded(ls)
    BY <2>5
  <2> QED
    <3> DEFINE lines == LineLengths(out')
    <3>1. FullEnded(lines)
      BY <1>2, <1>4, <2>6, FullLines
    <3>2. LinesFull' = (out' # NoOutput /\ width # 0 =>
             /\ Last(lines) = 0
             /\ \A i \in 1 .. Len(lines) - 1 : /\ i < Len(lines) - 1 => lines[i] = width
                                               /\ lines[i] \in 1 .. width)
      BY <1>1, Zenon DEF LinesFull
    <3> HIDE DEF lines
    <3> QED
      BY <3>1, <3>2, Zenon DEF FullEnded
<1> QED
  BY <1>3, <1>4

(* The items that the text stands for.                                      *)
LEMMA ItemsMeant ==
  ASSUME NEW t, NEW bs, NEW items, Means(t, bs), Whole(bs, items)
  PROVE  ItemsOf(t) = items /\ Decoded(t) = [items |-> items, problem |-> "none"]
<1>1. Follows(<<>>) /\ <<>> \in Seq(Byte) /\ <<>> \in Seq(Chars)
  BY DEF Follows
<1>2. Words(<<>>) = [bytes |-> <<>>, why |-> "none"]
  BY <1>1, WordsDef DEF WordsStep
<1>3. Cut(<<>>).why = "none" /\ Cut(<<>>).items = <<>>
  <2> DEFINE why == IF <<>> = <<>> THEN "none" ELSE "short"
  <2>1. ~Fits(<<>>)
    BY DEF Fits
  <2>2. \A b \in Seq(Byte) :
           ~Fits(b) => Cut(b) = Found(<<>>, IF b = <<>> THEN "none" ELSE "short")
    BY CutPart
  <2>3. Cut(<<>>) = Found(<<>>, why)
    BY <1>1, <2>1, <2>2
  <2>4. why = "none"
    OBVIOUS
  <2> HIDE DEF why
  <2>5. Found(<<>>, why).why = why /\ Found(<<>>, why).items = <<>>
    BY DEF Found
  <2> QED
    BY <2>3, <2>4, <2>5
<1>4. t \o <<>> = t /\ bs \o <<>> = bs
  BY DEF Means
<1>5. Words(t).why = "none"
  <2>1. Words(t \o <<>>).why = Words(<<>>).why
    BY <1>1 DEF Means
  <2> QED
    BY <1>2, <1>4, <2>1
<1>6. Cut(bs).why = "none"
  <2>1. Cut(bs \o <<>>).why = Cut(<<>>).why
    BY <1>1 DEF Whole
  <2> QED
    BY <1>3, <1>4, <2>1
<1>7. Words(t).bytes = bs
  <2>1. Words(t \o <<>>).bytes = bs \o Words(<<>>).bytes
    BY <1>1 DEF Means
  <2>2. Words(<<>>).bytes = <<>>
    BY <1>2
  <2> QED
    BY <1>4, <2>1, <2>2
<1>8. Cut(bs).items = items
  <2>1. Cut(bs \o <<>>).items = items \o Cut(<<>>).items
    BY <1>1 DEF Whole
  <2>2. items \o <<>> = items
    BY DEF Whole
  <2> QED
    BY <1>3, <1>4, <2>1, <2>2
<1>9. Decoded(t) = [items |-> Cut(bs).items,
                    problem |-> IF Cut(bs).why = "invalid" \/ Words(t).why = "none"
                                THEN Cut(bs).why ELSE Words(t).why]
  BY <1>7 DEF Decoded
<1>10. Decoded(t) = [items |-> items, problem |-> "none"]
  BY <1>5, <1>6, <1>8, <1>9
<1> QED
  BY <1>10 DEF ItemsOf

------------------------------------------------------------------------------
LEMMA PutAdds ==
  ASSUME SnkInv, NEW item \in Puttable, Put(item)
  PROVE  /\ BufferMeans'
         /\ ItemsOf(buf'.text) = Append(ItemsOf(buf.text), item)
         /\ Sound(buf') /\ bytes' \in Nat
         /\ width # 0 => FullTo(buf'.text, bytes')
<1> DEFINE adds == Additions(item)
<1>1. /\ width \in Nat /\ bytes \in Nat /\ Sound(buf) /\ BufferMeans
      /\ width # 0 => FullTo(buf.text, bytes)
      /\ buf' = AllAdded(adds) /\ bytes' = CountAfter(adds)
  BY DEF SnkInv, Put
<1>2. PICK bs, items : Means(buf.text, bs) /\ Whole(bs, items)
  BY <1>1 DEF BufferMeans
<1>3. item \in Seq(Byte) /\ Len(item) \in Nat /\ Len(item) # 0 /\ bs \in Seq(Byte)
  <2>1. item \in Seq(Byte) /\ Fits(item) /\ bs \in Seq(Byte)
    BY <1>2, PuttableAssumption DEF Means
  <2>2. Len(item) # 0
    BY <2>1 DEF Fits
  <2> QED
    BY <2>1, <2>2
<1>4. Wrote(<<>>, bs, bytes)
  BY <1>1, <1>2, WroteNothing
<1> HIDE DEF adds
<1>5. Wrote(adds, bs \o item, bytes + Len(item))
  BY <1>1, <1>3, <1>4, PutWrites DEF adds
<1>6. Sound(buf') /\ Means(buf'.text, bs \o item)
  BY <1>1, <1>5 DEF Wrote
<1>7. Whole(bs \o item, Append(items, item))
  BY <1>2, WholeItem
<1>8. ItemsOf(buf.text) = items /\ ItemsOf(buf'.text) = Append(items, item)
  BY <1>2, <1>6, <1>7, ItemsMeant
<1>9. CASE width = 0
  <2>1. bytes' = bytes
    BY <1>1, <1>9 DEF CountAfter
  <2> QED
    BY <1>1, <1>6, <1>7, <1>8, <1>9, <2>1 DEF BufferMeans
<1>10. CASE width # 0
  <2>1. bytes' = bytes + Len(item) /\ FullTo(buf'.text, bytes')
    BY <1>1, <1>5, <1>10 DEF Wrote
  <2>2. bytes' \in Nat
    BY <1>1, <1>3, <2>1
  <2> QED
    BY <1>6, <1>7, <1>8, <2>1, <2>2 DEF BufferMeans
<1> QED
  BY <1>9, <1>10

LEMMA FlushDelivers ==
  ASSUME SnkInv, Flush
  PROVE  /\ Decoded(out') = [items |-> ItemsOf(buf.text), problem |-> "none"]
         /\ out' \in Seq(Chars)
<1>1. Sound(buf) /\ BufferMeans /\ out' = (IF LastEnds THEN buf.text \o EmptyLine ELSE buf.text)
  BY EndedIs DEF SnkInv, Flush
<1>2. PICK bs, items : Means(buf.text, bs) /\ Whole(bs, items)
  BY <1>1 DEF BufferMeans
<1>3. Means(out', bs)
  BY <1>1, <1>2, MeansBreak
<1>4. ItemsOf(buf.text) = items /\ Decoded(out') = [items |-> items, problem |-> "none"]
  BY <1>2, <1>3, ItemsMeant
<1> QED
  BY <1>3, <1>4 DEF Means

LEMMA SnkInitInv == Init => SnkInv
<1> SUFFICES ASSUME Init PROVE SnkInv
  OBVIOUS
<1>1. /\ width \in Nat /\ bytes = 0 /\ bytes \in Nat /\ buf = Empty /\ buf.text = <<>>
      /\ out = NoOutput
  BY WidthsAssumption DEF Init, Empty
<1>2. BufferMeans
  BY <1>1, MeansNothing, WholeNothing DEF BufferMeans
<1>3. width # 0 => FullTo(buf.text, bytes)
  BY <1>1, FullStart
<1> QED
  BY <1>1, <1>2, <1>3, EmptySound DEF SnkInv, LinesFull

LEMMA SnkStep == SnkInv /\ [Next]_vars => SnkInv'
<1> SUFFICES ASSUME SnkInv, [Next]_vars PROVE SnkInv'
  OBVIOUS
<1>0. SnkInv
  OBVIOUS
<1>1. Sound(buf')
  BY BufferStep DEF SnkInv, vars
<1>2. ASSUME UNCHANGED <<width, out>>
      PROVE  LinesFull' /\ width' \in Nat /\ (out' = NoOutput \/ out' \in Seq(Chars))
  BY <1>2 DEF SnkInv, LinesFull
<1>3. ASSUME NEW item \in Puttable, Put(item) PROVE SnkInv'
  <2>1. width' = width /\ out' = out
    BY <1>3 DEF Put
  <2>2. (width # 0 => FullTo(buf.text, bytes))'
    <3>1. width # 0 => FullTo(buf'.text, bytes')
      BY <1>3, PutAdds
    <3> QED
      BY <2>1, <3>1 DEF FullTo, Full
  <2>3. BufferMeans' /\ bytes' \in Nat
    BY <1>3, PutAdds
  <2> QED
    BY <1>1, <1>2, <2>1, <2>2, <2>3 DEF SnkInv
<1>4. ASSUME NEW item \in Puttable, PutFails(item) PROVE SnkInv'
  <2>1. width' = width /\ out' = out /\ ~CanCall'
    BY <1>4 DEF PutFails, CanCall
  <2>2. bytes' \in Nat
    <3> DEFINE adds == Additions(item)
    <3>1. PICK k \in DOMAIN adds : bytes' = CountAfter(SubSeq(adds, 1, k - 1))
      BY <1>4 DEF PutFails
    <3>0. adds \in Seq(Fitting)
      BY PuttableAssumption, AdditionsFit
    <3> HIDE DEF adds
    <3> DEFINE b == SubSeq(adds, 1, k - 1)
               S == Fitting
    <3>2. b \in Seq(S)
      <4>1. adds \in Seq(S) /\ k \in DOMAIN adds
        BY <3>0, <3>1
      <4> HIDE DEF S
      <4>2. \A i \in 1 .. k - 1 : adds[i] \in S
        BY <4>1
      <4> QED
        BY <4>1, <4>2, SubSeqProperties
    <3>3. Cardinality(Counted(b)) \in Nat
      <4>1. LineBreak \in S
        BY BreakFitting
      <4> HIDE DEF b, S
      <4> QED
        BY <3>2, <4>1, CountedMore
    <3>4. bytes' = IF width = 0 THEN bytes ELSE bytes + Cardinality(Counted(b))
      BY <3>1 DEF CountAfter, Counted
    <3> HIDE DEF b
    <3> QED
      BY <3>3, <3>4 DEF SnkInv
  <2> QED
    BY <1>1, <1>2, <2>1, <2>2 DEF SnkInv
<1>5. CASE Flush
  <2>1. LinesFull' /\ out' \in Seq(Chars)
    BY <1>5, FlushLines, FlushDelivers
  <2>2. width' = width /\ bytes' = bytes /\ buf'.text = buf.text /\ CanCall
    BY <1>5, EndedIs DEF Flush, SnkInv
  <2>3. BufferMeans'
    BY <2>2 DEF SnkInv, BufferMeans
  <2>4. (width # 0 => FullTo(buf.text, bytes))'
    BY <2>2 DEF SnkInv, FullTo, Full
  <2> QED
    BY <1>1, <2>1, <2>2, <2>3, <2>4 DEF SnkInv
<1>6. CASE FlushFails
  <2>1. /\ width' = width /\ out' = out /\ bytes' = bytes /\ buf'.text = buf.text /\ CanCall
    BY <1>6, EndedIs DEF FlushFails, SnkInv
  <2>2. BufferMeans'
    BY <2>1 DEF SnkInv, BufferMeans
  <2>3. (width # 0 => FullTo(buf.text, bytes))'
    BY <2>1 DEF SnkInv, FullTo, Full
  <2> QED
    BY <1>1, <1>2, <2>1, <2>2, <2>3 DEF SnkInv
<1>7. CASE Delete
  BY <1>1, <1>2, <1>7 DEF Delete, SnkInv, CanCall
<1>8. CASE UNCHANGED vars
  <2>1. UNCHANGED <<width, buf, bytes, out, isOpen, failed>>
    BY <1>8 DEF vars
  <2> QED
    BY <1>0, <1>1, <1>2, <2>1 DEF SnkInv, BufferMeans, CanCall, FullTo, Full
<1> QED
  BY <1>3, <1>4, <1>5, <1>6, <1>7, <1>8 DEF Next

LEMMA SnkInvHolds == Spec => []SnkInv
BY SnkInitInv, SnkStep, PTL DEF Spec

(* Every text that hidrd_hex_snk_flush() delivers has lines of width bytes, *)
(* the last one not longer, and each is ended, wherever in a line an item   *)
(* began and however often the newline of an unfinished one was written for *)
(* a flush and taken back.                                                  *)
THEOREM FlushedLinesFull == Spec => []LinesFull
<1>1. SnkInv => LinesFull
  BY DEF SnkInv
<1> QED
  BY <1>1, SnkInvHolds, PTL

------------------------------------------------------------------------------
LEMMA AsItemsAppend ==
  ASSUME NEW items \in Seq(Seq(Byte)), NEW item \in Seq(Byte)
  PROVE  AsItems(Append(items, item)) = Append(AsItems(items), Item("other", item))
<1> DEFINE I(x) == Item("other", x)
           n == Len(items)
           more == Append(items, item)
           S == {I(x) : x \in Seq(Byte)}
           its == AsItems(items)
<1>1. /\ n \in Nat /\ DOMAIN items = 1 .. n /\ DOMAIN more = 1 .. n + 1 /\ more[n + 1] = item
      /\ \A i \in 1 .. n : more[i] = items[i] /\ items[i] \in Seq(Byte)
  <2> DEFINE B == Seq(Byte)
  <2>1. items \in Seq(B) /\ item \in B
    OBVIOUS
  <2> HIDE DEF B
  <2>2. /\ Len(items) \in Nat /\ DOMAIN items = 1 .. Len(items)
        /\ DOMAIN Append(items, item) = 1 .. Len(items) + 1
        /\ Append(items, item)[Len(items) + 1] = item
        /\ \A i \in 1 .. Len(items) : Append(items, item)[i] = items[i] /\ items[i] \in B
    BY <2>1
  <2> QED
    BY <2>2 DEF B
<1> HIDE DEF n, more
<1>2. its = [i \in 1 .. n |-> I(items[i])]
  BY <1>1 DEF AsItems
<1>3. AsItems(more) = [i \in 1 .. n + 1 |-> I(more[i])]
  BY <1>1 DEF AsItems
<1> HIDE DEF I, its
<1>4. its \in Seq(S) /\ I(item) \in S /\ Len(its) = n /\ \A i \in 1 .. n : its[i] = I(items[i])
  <2>1. I(item) \in S /\ \A i \in 1 .. n : I(items[i]) \in S
    BY <1>1
  <2> HIDE DEF S
  <2> QED
    BY <1>1, <1>2, <2>1
<1> HIDE DEF S
<1>5. Append(its, I(item)) = [i \in 1 .. n + 1 |-> IF i <= n THEN its[i] ELSE I(item)]
  BY <1>4, AppendedIs
<1>6. \A i \in 1 .. n + 1 : I(more[i]) = IF i <= n THEN its[i] ELSE I(item)
  BY <1>1, <1>4
<1> QED
  BY <1>3, <1>5, <1>6 DEF I, its, more

LEMMA ItemsType == \A t \in Seq(Chars) : ItemsOf(t) \in Seq(Seq(Byte))
<1> SUFFICES ASSUME NEW t \in Seq(Chars) PROVE ItemsOf(t) \in Seq(Seq(Byte))
  OBVIOUS
<1> DEFINE bs == Words(t).bytes
<1>1. bs \in Seq(Byte)
  BY WordsType DEF Readings
<1> HIDE DEF bs
<1>2. Cut(bs).items \in Seq(Seq(Byte))
  BY <1>1, CutType
<1>3. ItemsOf(t) = Cut(bs).items
  BY DEF ItemsOf, Decoded, bs
<1> QED
  BY <1>2, <1>3

LEMMA SinkInitImplements == Init => Abstract!Init
<1> SUFFICES ASSUME Init PROVE Abstract!Init
  OBVIOUS
<1>1. isOpen = TRUE /\ failed = FALSE /\ buf.text = <<>> /\ out = NoOutput
  BY DEF Init, Empty
<1>2. ItemsOf(<<>>) = <<>>
  BY MeansNothing, WholeNothing, ItemsMeant
<1>3. AsItems(<<>>) = <<>>
  BY DEF AsItems
<1> QED
  BY <1>1, <1>2, <1>3 DEF Abstract!Init, AsOutput

LEMMA SinkStepImplements == SnkInv /\ [Next]_vars => [Abstract!Next]_(Abstract!vars)
<1> SUFFICES ASSUME SnkInv, [Next]_vars PROVE Abstract!Next \/ UNCHANGED Abstract!vars
  OBVIOUS
<1>0. SnkInv
  OBVIOUS
<1>1. ASSUME NEW item \in Puttable, Put(item) PROVE Abstract!Next
  <2> DEFINE it == Item("other", item)
  <2>1. isOpen /\ ~failed /\ isOpen' = isOpen /\ failed' = failed /\ out' = out
    BY <1>1 DEF Put, CanCall
  <2>2. ItemsOf(buf'.text) = Append(ItemsOf(buf.text), item)
    BY <1>1, PutAdds
  <2>3. AsItems(ItemsOf(buf'.text)) = Append(AsItems(ItemsOf(buf.text)), it)
    BY <2>2, ItemsType, AsItemsAppend, PuttableAssumption DEF SnkInv, Sound
  <2>4. /\ Abstract!PagesAfter(it, <<0>>) = <<0>>
        /\ Abstract!Resolve(it, Head(<<0>>)) = it
    BY DEF Abstract!PagesAfter, Abstract!Resolve, Item
  <2>5. it \in {Item("other", x) : x \in Puttable}
    OBVIOUS
  <2> HIDE DEF it
  <2>6. Abstract!Put
    BY <2>1, <2>3, <2>4, <2>5 DEF Abstract!Put
  <2> QED
    BY <2>6 DEF Abstract!Next
<1>2. ASSUME isOpen /\ ~failed, ~(isOpen' /\ ~failed'), out' = out PROVE Abstract!Next
  BY <1>2 DEF Abstract!Next, Abstract!GiveUp
<1>3. ASSUME NEW item \in Puttable, PutFails(item) PROVE Abstract!Next
  BY <1>2, <1>3 DEF PutFails, CanCall
<1>4. CASE Flush
  <2>1. isOpen /\ ~failed /\ isOpen' = isOpen /\ failed' = failed /\ buf'.text = buf.text
    BY <1>4, EndedIs DEF Flush, CanCall, SnkInv
  <2>2. AsOutput(out') = AsItems(ItemsOf(buf.text))
    <3>1. out' # NoOutput /\ ItemsOf(out') = ItemsOf(buf.text)
      BY <1>4, FlushDelivers, OutputAssumption DEF ItemsOf
    <3> QED
      BY <3>1 DEF AsOutput
  <2>3. Abstract!Flush
    BY <2>1, <2>2 DEF Abstract!Flush, AsOutput
  <2> QED
    BY <2>3 DEF Abstract!Next
<1>5. ASSUME isOpen' = isOpen, failed' = failed, buf'.text = buf.text, out' = out
      PROVE  UNCHANGED Abstract!vars
  BY <1>5 DEF Abstract!vars, AsOutput
<1>6. CASE FlushFails
  <2>1. buf'.text = buf.text
    BY <1>6, EndedIs DEF FlushFails, SnkInv
  <2> QED
    BY <1>5, <1>6, <2>1 DEF FlushFails
<1>7. CASE Delete
  <2>1. isOpen /\ ~isOpen' /\ failed' = failed /\ out' = out
    BY <1>7 DEF Delete
  <2>2. CASE ~failed
    BY <1>2, <2>1, <2>2
  <2>3. CASE failed
    BY <2>1, <2>3 DEF Abstract!vars, AsOutput
  <2> QED
    BY <2>2, <2>3
<1>8. CASE UNCHANGED vars
  BY <1>5, <1>8 DEF vars
<1> QED
  BY <1>1, <1>3, <1>4, <1>6, <1>7, <1>8 DEF Next

(* The text of the sink stands for the items put, in their order, and a     *)
(* flush delivers all of them: to a reader of its words, the steps of       *)
(* hidrd_hex_snk_put(), with its line breaks, of hidrd_hex_snk_flush() and  *)
(* of their failures are steps of a sink of items or nothing at all.        *)
THEOREM HexImplementsItemSnk == Spec => ImplementsItemSnk
BY SinkInitImplements, SinkStepImplements, SnkInvHolds, PTL
   DEF Spec, ImplementsItemSnk, Abstract!Spec

(* The sink of the round trip is a sink.                                    *)
LEMMA RoundTripIsSink == RTSpec => Spec
<1>1. RTInit => Init
  BY DEF RTInit
<1>2. [RTNext]_<<snk, src, reading, foreign>> => [Next]_vars
  BY DEF RTNext, Write, Open, Read, snk, vars, Next
<1> QED
  BY <1>1, <1>2, PTL DEF RTSpec, Spec

------------------------------------------------------------------------------
(* A source that hidrd-convert opens on a dump of the sink meets no error,  *)
(* and at the end has returned the items put before the last delivery.      *)
GivesBack == ~foreign /\ reading => ~rerror /\ (rended => rgot = flushed)
(* What was delivered is a dump with nothing wrong, of the items put before.*)
GivesInv ==
    /\ rerror => rerr # "none"
    /\ ~foreign /\ reading => ~isOpen /\ out # NoOutput /\ rmeant = Decoded(out)
    /\ ~foreign /\ CanCall => log = ItemsOf(buf.text)
    /\ ~foreign /\ out # NoOutput => Decoded(out) = [items |-> flushed, problem |-> "none"]

LEMMA GivesInit == RTInit => GivesInv
<1> SUFFICES ASSUME RTInit PROVE GivesInv
  OBVIOUS
<1>1. ItemsOf(<<>>) = <<>>
  BY MeansNothing, WholeNothing, ItemsMeant
<1>2. log = <<>> /\ buf.text = <<>> /\ out = NoOutput /\ (~foreign => ~reading) /\ rerror = FALSE
  BY DEF RTInit, Init, Empty, Src!Opened
<1> QED
  BY <1>1, <1>2 DEF GivesInv

LEMMA ErrorHasCode == (rerror => rerr # "none") /\ Src!Next => (rerror' => rerr' # "none")
BY DEF Src!Next, Src!Step, Src!Get, Src!ReadEnd, Src!ReadDigit, Src!ReadBlank, Src!ReadOther,
   Src!Deliver, Src!Fail

LEMMA GivesStep ==
  RTInv /\ SnkInv /\ GivesInv /\ [RTNext]_<<snk, src, reading, foreign>> => GivesInv'
<1> SUFFICES ASSUME RTInv, SnkInv, GivesInv, [RTNext]_<<snk, src, reading, foreign>>
             PROVE  GivesInv'
  OBVIOUS
<1>0. SnkInv /\ GivesInv
  OBVIOUS
<1>1. CASE UNCHANGED <<snk, src, reading, foreign>>
  BY <1>1 DEF GivesInv, CanCall, snk, src
<1>2. ASSUME Write PROVE GivesInv'
  <2>1. /\ ~foreign /\ foreign' = foreign /\ reading' = reading
        /\ UNCHANGED <<rerror, rerr, rmeant>>
    BY <1>2 DEF Write, src
  <2>2. ASSUME NEW item \in Puttable, Put(item), log' = Append(log, item), flushed' = flushed
        PROVE  GivesInv'
    <3>1. CanCall /\ isOpen /\ UNCHANGED <<isOpen, failed, out>>
      BY <2>2 DEF Put, CanCall
    <3>2. ItemsOf(buf'.text) = Append(ItemsOf(buf.text), item)
      BY <2>2, PutAdds
    <3> QED
      BY <2>1, <2>2, <3>1, <3>2 DEF GivesInv
  <2>3. ASSUME Flush, flushed' = log, log' = log PROVE GivesInv'
    <3>1. CanCall /\ isOpen /\ UNCHANGED <<isOpen, failed>> /\ buf'.text = buf.text
      BY <2>3, EndedIs DEF Flush, CanCall, SnkInv
    <3>2. Decoded(out') = [items |-> ItemsOf(buf.text), problem |-> "none"]
      BY <2>3, FlushDelivers
    <3> QED
      BY <2>1, <2>3, <3>1, <3>2 DEF GivesInv
  <2>4. ASSUME UNCHANGED <<log, flushed, out>>, CanCall' => CanCall /\ buf'.text = buf.text,
               isOpen' => isOpen
        PROVE  GivesInv'
    BY <2>1, <2>4 DEF GivesInv
  <2>5. ASSUME FlushFails, UNCHANGED <<log, flushed>> PROVE GivesInv'
    <3>1. buf'.text = buf.text /\ UNCHANGED <<out, isOpen, failed>>
      BY <2>5, EndedIs DEF FlushFails, SnkInv
    <3> QED
      BY <2>4, <2>5, <3>1 DEF CanCall
  <2>6. ASSUME Delete, UNCHANGED <<log, flushed>> PROVE GivesInv'
    BY <2>4, <2>6 DEF Delete, CanCall
  <2>7. ASSUME NEW item \in Puttable, PutFails(item), UNCHANGED <<log, flushed>> PROVE GivesInv'
    BY <2>4, <2>7 DEF PutFails, CanCall
  <2> QED
    BY <1>2, <2>2, <2>3, <2>5, <2>6, <2>7 DEF Write
<1>3. ASSUME Open PROVE GivesInv'
  BY <1>3 DEF Open, GivesInv, snk, CanCall
<1>4. ASSUME Read PROVE GivesInv'
  <2>1. Src!Next /\ UNCHANGED <<snk, reading, foreign>>
    BY <1>4 DEF Read
  <2>2. rmeant' = rmeant
    BY <2>1 DEF Src!Next, Src!Step, Src!Get, Src!ReadEnd, Src!ReadDigit, Src!ReadBlank,
       Src!ReadOther, Src!Deliver, Src!Fail
  <2>3. rerror' => rerr' # "none"
    BY <2>1, ErrorHasCode DEF GivesInv
  <2> QED
    BY <2>1, <2>2, <2>3 DEF GivesInv, snk, CanCall
<1> QED
  BY <1>1, <1>2, <1>3, <1>4 DEF RTNext

(* What hidrd_hex_snk_put() wrote, hidrd_hex_src_get() reads: the same      *)
(* items, none lost, made up or split at a line, and no error, for items,   *)
(* widths and flushes of any kind.                                          *)
THEOREM RoundTripGivesBack == RTSpec => []GivesBack
<1>1. RTSpec => []SnkInv
  BY RoundTripIsSink, SnkInvHolds, PTL
<1>2. RTSpec => []GivesInv
  BY <1>1, RoundTripHolds, GivesInit, GivesStep, PTL DEF RTSpec
<1>3. RTInv /\ GivesInv => GivesBack
  BY DEF RTInv, SrcInv, GivesInv, GivesBack, Src!ErrorRight
<1> QED
  BY <1>2, <1>3, RoundTripHolds, PTL

(* The same lines, where the source may read them.                          *)
THEOREM FlushedLinesFullInRoundTrip == RTSpec => []LinesFull
BY RoundTripIsSink, FlushedLinesFull, PTL

(* The sink keeps its promise, too, when hidrd_hex_src_get() reads its dump.*)
THEOREM HexImplementsItemSnkInRoundTrip == RTSpec => ImplementsItemSnk
BY RoundTripIsSink, HexImplementsItemSnk, PTL

------------------------------------------------------------------------------
(* The source of the XML format.                                            *)
(* The walk is at a node below its parent, or at the end of an element.     *)
WalkInv ==
    /\ doc \in Documents
    /\ cur \in DOMAIN doc \cup {Null}
    /\ prnt \in DOMAIN doc \cup {Null}
    /\ IF cur = Null THEN prnt # Null ELSE prnt = doc[cur].up

IInv == WalkInv /\ IsSeq(got) /\ StateFollowsItems

(* A simple element of a tracked document that is no usage.                 *)
LEMMA TrackedItem ==
  ASSUME Tracked(doc), NEW e \in DOMAIN doc, doc[e].name \in SimpleNames, doc[e].val # Bad,
         doc[e].name # "usage"
  PROVE  StateAfter(e) = PagesAfter(SimpleItem(e), state)
<1> DEFINE x == ItemOf(doc[e], BitsOf(doc, e))
<1>1. SimpleItem(e) = x
  BY DEF SimpleItem
<1>2. CASE doc[e].name = "generic"
  <2>1. x = doc[e].val
    BY <1>2 DEF ItemOf
  <2>2. x.kind \notin {"usage_page", "push", "pop"}
    BY <1>2, <2>1 DEF Tracked
  <2> HIDE DEF x
  <2>3. PagesAfter(x, state) = state
    BY <2>2 DEF PagesAfter
  <2>4. StateAfter(e) = state
    BY <1>2 DEF StateAfter
  <2> QED
    BY <1>1, <2>3, <2>4
<1>3. CASE doc[e].name # "generic"
  BY <1>1, <1>3 DEF SimpleNames, StateAfter, ItemOf, Item, PagesAfter, Pop, page
<1> QED
  BY <1>2, <1>3

LEMMA UsageItems ==
  ASSUME NEW e, doc[e].name = "usage"
  PROVE  StateAfter(e) = PagesAfter(SimpleItem(e), state)
BY DEF StateAfter, SimpleItem, UsageItem, Item, PagesAfter

------------------------------------------------------------------------------
(* A node of the document knows where it is: the next one has its parent.   *)
LEMMA NextIsSibling ==
  ASSUME doc \in Documents, NEW e \in DOMAIN doc
  PROVE  NextOf(e) # Null =>
             e # 1 /\ NextOf(e) \in DOMAIN doc /\ doc[NextOf(e)].up = doc[e].up
<1>1. IsDocument(doc)
  BY DocumentAssumption
<1>2. CASE e = 1
  <2> DEFINE at == CHOOSE i \in {1} : <<1>>[i] = 1
  <2>1. DOMAIN <<1>> = {1} /\ Len(<<1>>) = 1
    OBVIOUS
  <2>2. at = 1
    OBVIOUS
  <2>3. NextOf(e) = IF at < Len(<<1>>) THEN <<1>>[at + 1] ELSE Null
    BY <1>2, <2>1 DEF NextOf
  <2> QED
    BY <2>1, <2>2, <2>3
<1>3. CASE e # 1
  <2> DEFINE p == doc[e].up
             sibs == doc[p].kids
             at == CHOOSE i \in DOMAIN sibs : sibs[i] = e
  <2>1. p \in DOMAIN doc /\ sibs \in Seq(DOMAIN doc \ {1}) /\ e \in ToSet(sibs)
        /\ \A i \in DOMAIN sibs : doc[sibs[i]].up = p
    BY <1>1, <1>3 DEF IsDocument
  <2>2. \E i \in DOMAIN sibs : sibs[i] = e
    BY <2>1 DEF ToSet
  <2>3. at \in DOMAIN sibs
    BY <2>2
  <2>4. NextOf(e) = IF at < Len(sibs) THEN sibs[at + 1] ELSE Null
    BY <1>3 DEF NextOf
  <2> HIDE DEF p, sibs, at
  <2>5. at < Len(sibs) => at + 1 \in DOMAIN sibs /\ sibs[at + 1] \in DOMAIN doc
    BY <2>1, <2>3
  <2>6. at < Len(sibs) => doc[sibs[at + 1]].up = p
    BY <2>1, <2>5
  <2> QED
    BY <1>3, <2>4, <2>5, <2>6 DEF p
<1> QED
  BY <1>2, <1>3

LEMMA FirstIsChild ==
  ASSUME doc \in Documents, NEW e \in DOMAIN doc
  PROVE  FirstOf(e) # Null => FirstOf(e) \in DOMAIN doc /\ doc[FirstOf(e)].up = e
<1> DEFINE kids == doc[e].kids
<1>1. kids \in Seq(DOMAIN doc \ {1}) /\ \A i \in DOMAIN kids : doc[kids[i]].up = e
  BY DocumentAssumption DEF IsDocument
<1>2. FirstOf(e) = IF kids = <<>> THEN Null ELSE Head(kids)
  BY DEF FirstOf
<1> HIDE DEF kids
<1>3. kids # <<>> => 1 \in DOMAIN kids /\ Head(kids) = kids[1] /\ kids[1] \in DOMAIN doc
  BY <1>1
<1> QED
  BY <1>1, <1>2, <1>3

LEMMA DocumentFacts ==
  ASSUME doc \in Documents
  PROVE  /\ Null \notin DOMAIN doc /\ Document \notin DOMAIN doc /\ Document # Null
         /\ 1 \in DOMAIN doc /\ doc[1].name = "descriptor" /\ doc[1].up = Null
         /\ \A e \in DOMAIN doc \ {1} : doc[e].up \in DOMAIN doc
<1>1. IsDocument(doc)
  BY DocumentAssumption
<1>2. Null \notin 1 .. Len(doc) /\ Document \notin 1 .. Len(doc) /\ Document # Null
  BY DEF Null, Document
<1> QED
  BY <1>1, <1>2 DEF IsDocument, Null

LEMMA InitInv == SrcInit => IInv
<1> SUFFICES ASSUME SrcInit PROVE IInv
  OBVIOUS
<1>1. doc \in Documents /\ prnt = Null /\ cur = 1 /\ state = <<0>> /\ got = <<>>
  BY DEF SrcInit, Opened
<1>2. WalkInv
  BY <1>1, DocumentFacts DEF WalkInv
<1>3. IsSeq(<<>>) /\ Len(<<>>) = 0
  BY SeqIsSeq, EmptySeq
<1>4. PagesAt(<<>>)[0] = <<0>>
  BY <1>3, PagesAtDef
<1> QED
  BY <1>1, <1>2, <1>3, <1>4 DEF IInv, StateFollowsItems

(* An item that is returned leaves the reader the stack that the walk has.  *)
LEMMA ItemReturned ==
  ASSUME IInv, doc' = doc, NEW item, got' = Append(got, item),
         Tracked(doc) => state' = PagesAfter(item, state)
  PROVE  IsSeq(got') /\ StateFollowsItems'
<1>1. IsSeq(got') /\ Len(got') = Len(got) + 1
  BY AppendedTo DEF IInv
<1>2. ASSUME Tracked(doc)' PROVE state' = PagesAt(got')[Len(got')]
  <2>1. Tracked(doc)
    BY <1>2
  <2>2. state = PagesAt(got)[Len(got)]
    BY <2>1 DEF IInv, StateFollowsItems
  <2>3. PagesAt(got')[Len(got) + 1] = PagesAfter(item, PagesAt(got)[Len(got)])
    BY PagesAtAppend DEF IInv
  <2> QED
    BY <1>1, <2>1, <2>2, <2>3
<1> QED
  BY <1>1, <1>2 DEF StateFollowsItems

LEMMA ReadKeeps == IInv /\ ReadElement => IInv'
<1> SUFFICES ASSUME IInv, ReadElement PROVE IInv'
  OBVIOUS
<1>1. /\ doc' = doc /\ prnt' = prnt /\ cur' = NextOf(cur)
      /\ cur \in DOMAIN doc /\ doc \in Documents /\ prnt = doc[cur].up
      /\ got' = Append(got, SimpleItem(cur)) /\ state' = StateAfter(cur)
      /\ doc[cur].name \in SimpleNames /\ doc[cur].val # Bad
  BY DEF ReadElement, Return, AtNode, Parses, IInv, WalkInv
<1>2. cur # 1
  BY <1>1, DocumentFacts DEF SimpleNames
<1>3. WalkInv'
  BY <1>1, <1>2, NextIsSibling, DocumentFacts DEF IInv, WalkInv
<1>4. Tracked(doc) => StateAfter(cur) = PagesAfter(SimpleItem(cur), state)
  BY <1>1, TrackedItem, UsageItems
<1> QED
  BY <1>1, <1>3, <1>4, ItemReturned DEF IInv

LEMMA EnterGroupKeeps == IInv /\ EnterGroup => IInv'
<1> SUFFICES ASSUME IInv, EnterGroup PROVE IInv'
  OBVIOUS
<1>1. /\ doc' = doc /\ prnt' = cur /\ cur' = FirstOf(cur)
      /\ cur \in DOMAIN doc /\ doc \in Documents
      /\ got' = Append(got, StartItem(doc[cur])) /\ state' = StateAfter(cur)
      /\ doc[cur].name \in GroupNames
  BY DEF EnterGroup, Return, AtNode, IInv, WalkInv
<1>2. WalkInv'
  BY <1>1, FirstIsChild, DocumentFacts DEF IInv, WalkInv
<1>3. StateAfter(cur) = PagesAfter(StartItem(doc[cur]), state)
  BY <1>1 DEF GroupNames, StateAfter, StartItem, Item, PagesAfter, page
<1> QED
  BY <1>1, <1>2, <1>3, ItemReturned DEF IInv

LEMMA ExitGroupKeeps == IInv /\ ExitGroup => IInv'
<1> SUFFICES ASSUME IInv, ExitGroup PROVE IInv'
  OBVIOUS
<1>1. /\ doc' = doc /\ prnt' = ParentOf(prnt) /\ cur' = NextOf(prnt)
      /\ prnt \in DOMAIN doc /\ doc \in Documents
      /\ got' = Append(got, EndItem(doc[prnt])) /\ state' = StateAfterEnd(prnt)
      /\ doc[prnt].name \in GroupNames
  BY DEF ExitGroup, Return, IInv, WalkInv
<1>2. prnt # 1
  BY <1>1, DocumentFacts DEF GroupNames
<1>3. prnt' = doc[prnt].up /\ prnt' \in DOMAIN doc
  BY <1>1, <1>2, DocumentFacts DEF ParentOf
<1>4. WalkInv'
  BY <1>1, <1>3, NextIsSibling, DocumentFacts DEF IInv, WalkInv
<1>5. StateAfterEnd(prnt) = PagesAfter(EndItem(doc[prnt]), state)
  BY <1>1 DEF GroupNames, StateAfterEnd, EndItem, Item, PagesAfter, Pop
<1> QED
  BY <1>1, <1>4, <1>5, ItemReturned DEF IInv

(* The steps that return nothing.                                           *)
LEMMA MoveKeeps == IInv /\ (SkipText \/ EnterDescriptor) => IInv'
<1> SUFFICES ASSUME IInv, SkipText \/ EnterDescriptor PROVE IInv'
  OBVIOUS
<1>1. /\ doc' = doc /\ got' = got /\ state' = state
      /\ cur \in DOMAIN doc /\ doc \in Documents /\ prnt = doc[cur].up
  BY DEF SkipText, EnterDescriptor, AtNode, IInv, WalkInv
<1>2. CASE SkipText
  <2>1. prnt' = prnt /\ cur' = NextOf(cur) /\ doc[cur].name = "text"
    BY <1>2 DEF SkipText
  <2>2. cur # 1
    BY <1>1, <2>1, DocumentFacts
  <2> QED
    BY <1>1, <2>1, <2>2, NextIsSibling, DocumentFacts DEF IInv, WalkInv, StateFollowsItems
<1>3. CASE EnterDescriptor
  <2>1. prnt' = cur /\ cur' = FirstOf(cur)
    BY <1>3 DEF EnterDescriptor
  <2> QED
    BY <1>1, <2>1, FirstIsChild, DocumentFacts DEF IInv, WalkInv, StateFollowsItems
<1> QED
  BY <1>2, <1>3

LEMMA StepKeeps == IInv /\ [SrcNext]_srcVars => IInv'
<1> SUFFICES ASSUME IInv, [SrcNext]_srcVars PROVE IInv'
  OBVIOUS
<1>1. CASE ReadElement
  BY <1>1, ReadKeeps
<1>2. CASE EnterGroup
  BY <1>2, EnterGroupKeeps
<1>3. CASE ExitGroup
  BY <1>3, ExitGroupKeeps
<1>4. CASE SkipText \/ EnterDescriptor
  BY <1>4, MoveKeeps
<1>5. CASE Get \/ ExitDescriptor \/ FailElement \/ UNCHANGED srcVars
  BY <1>5 DEF Get, ExitDescriptor, Stop, FailElement, srcVars, walk, IInv, WalkInv,
              StateFollowsItems
<1> QED
  BY <1>1, <1>2, <1>3, <1>4, <1>5 DEF SrcNext, Step

(* After every step the walk is at a node below its parent or at the end of *)
(* an element, and the pages it holds are those of the items read, unless   *)
(* a generic element of the document changes the pages.                     *)
THEOREM WalkHolds == SrcSpec => []IInv
  BY InitInv, StepKeeps, PTL DEF SrcSpec

(* The walk never leaves the document, in whatever document whose root is a *)
(* descriptor, also when calls fail or are made after the end.              *)
THEOREM WalkStaysInside == SrcSpec => []StaysInside
<1>1. IInv => StaysInside
  BY DocumentFacts DEF IInv, WalkInv, StaysInside
<1> QED
  BY <1>1, WalkHolds, PTL

(* The pages that usages are left out for are those a reader of the items   *)
(* has there, however deep PUSH groups and POPs are nested or unbalanced,   *)
(* as long as no generic element changes the pages.                         *)
THEOREM StateAlwaysFollowsItems == SrcSpec => []StateFollowsItems
<1>1. IInv => StateFollowsItems
  BY DEF IInv
<1> QED
  BY <1>1, WalkHolds, PTL

------------------------------------------------------------------------------
(* The walk has returned what the document says up to where it is, and ends *)
(* at the end of the root.                                                  *)
ReadInv ==
    /\ doc \in Documents
    /\ Reads(doc, prnt, cur, state, got)
    /\ ended => cur = Null /\ doc[prnt].name = "descriptor"

LEMMA DocumentWalked ==
  ASSUME Conforming, NEW d \in Documents
  PROVE  Walked(d)
<1>1. IsDocument(d) /\ \A e \in DOMAIN d \ {1} : d[e].name # "descriptor"
  BY DocumentAssumption DEF Conforming
<1>2. Len(d) \in Nat /\ DOMAIN d = 1 .. Len(d) /\ 1 \in DOMAIN d
      /\ d[1].name = "descriptor" /\ d[1].up = 0
  BY <1>1 DEF IsDocument
<1>3. ASSUME NEW e \in DOMAIN d
      PROVE  /\ FallsAt(d, e)
             /\ \A i \in DOMAIN Kids(d, e) :
                  /\ d[Kids(d, e)[i]].up = e
                  /\ d[Kids(d, e)[i]].name # "descriptor"
                  /\ \A j \in DOMAIN Kids(d, e) : i # j => Kids(d, e)[i] # Kids(d, e)[j]
  <2> DEFINE s == Kids(d, e)
  <2>1. /\ s \in Seq(DOMAIN d \ {1})
        /\ \A i \in DOMAIN s : d[s[i]].up = e
        /\ \A i, j \in DOMAIN s : i # j => s[i] # s[j]
    BY <1>1 DEF IsDocument, Kids
  <2> HIDE DEF s
  <2>2. /\ Len(s) \in Nat /\ DOMAIN s = 1 .. Len(s) /\ s \in Seq(DOMAIN d)
        /\ \A i \in DOMAIN s : s[i] \in DOMAIN d \ {1}
    BY <2>1
  <2>3. ASSUME NEW i \in DOMAIN s PROVE s[i] \in e + 1 .. Len(d)
    <3>1. s[i] \in DOMAIN d \ {1} /\ d[s[i]].up = e
      BY <2>1, <2>2
    <3>2. d[s[i]].up \in 1 .. s[i] - 1
      BY <1>1, <3>1 DEF IsDocument
    <3> QED
      BY <1>2, <3>1, <3>2
  <2> QED
    BY <1>1, <2>1, <2>2, <2>3 DEF FallsAt, s
<1> QED
  BY <1>2, <1>3 DEF Walked, Falls

LEMMA SameWalk ==
  ASSUME NEW e
  PROVE  NextOf(e) = NextIn(doc, e) /\ FirstOf(e) = FirstIn(doc, e)
BY DEF NextOf, NextIn, FirstOf, FirstIn, Null

(* An item that is returned is the next of the document.                    *)
LEMMA NextItem ==
  ASSUME Tracked(doc), doc' = doc, ended' = ended, ended => FALSE, NEW x,
         got' = Append(got, x), Gives(doc, got, x)
  PROVE  AbstractSrc!Get
BY DEF Gives, AbstractSrc!Get, Contents, Kept

LEMMA ReadReads ==
  ASSUME Conforming, Tracked(doc), ReadInv, ReadElement
  PROVE  ReadInv' /\ AbstractSrc!Get
<1>1. /\ doc' = doc /\ prnt' = prnt /\ cur' = NextOf(cur) /\ cur # Null /\ ended' = ended
      /\ got' = Append(got, SimpleItem(cur)) /\ state' = StateAfter(cur)
      /\ doc[cur].name \in SimpleNames /\ doc[cur].val # Bad
  BY DEF ReadElement, Return, AtNode, Parses
<1>2. doc \in Documents /\ Reads(doc, prnt, cur, state, got) /\ (ended => FALSE)
      /\ Walked(doc)
  BY <1>1, DocumentWalked DEF ReadInv
<1>3. cur # 0 /\ cur \in DOMAIN doc
  BY <1>1, <1>2, ReadsFacts DEF Null
<1>4. doc[cur].name \notin GroupNames \cup {"text", "descriptor"}
  BY <1>1 DEF SimpleNames, GroupNames
<1> DEFINE x == SimpleItem(cur)
           y == ItemOf(doc[cur], BitsOf(doc, cur))
<1>5. StateAfter(cur) = PagesAfter(x, state)
  BY <1>1, <1>3, TrackedItem, UsageItems
<1>6. SameHere(x, y, state)
  <2>1. CASE doc[cur].name = "usage"
    <3> DEFINE u == doc[cur].val
    <3>1. u = <<u[1], u[2]>>
      <4>1. IsDocument(doc)
        BY <1>2, DocumentAssumption
      <4> QED
        BY <1>1, <1>3, <2>1, <4>1 DEF IsDocument
    <3>2. x = Item("usage", IF page # 0 /\ u[1] = page THEN <<0, u[2]>> ELSE u)
      BY <2>1 DEF SimpleItem, UsageItem
    <3>3. y = Item("usage", u)
      BY <2>1 DEF ItemOf
    <3> HIDE DEF u
    <3>4. PagesAfter(x, state) = PagesAfter(y, state)
      BY <3>2, <3>3 DEF PagesAfter, Item
    <3>5. Resolve(x, page) = Resolve(y, page)
      BY <3>1, <3>2, <3>3 DEF Resolve, Item
    <3> QED
      BY <3>4, <3>5 DEF SameHere, page
  <2>2. CASE doc[cur].name # "usage"
    BY <2>2 DEF SimpleItem, SameHere
  <2> QED
    BY <2>1, <2>2
<1> HIDE DEF x, y
<1>7. Reads(doc, prnt, NextIn(doc, cur), PagesAfter(x, state), Append(got, x))
      /\ Gives(doc, got, x)
  <2>1. SameHere(x, ItemOf(doc[cur], BitsOf(doc, cur)), state)
    BY <1>6 DEF y
  <2> QED
    BY <1>2, <1>3, <1>4, <2>1, ReadsElement
<1>8. got' = Append(got, x)
  BY <1>1 DEF x
<1>9. AbstractSrc!Get
  BY <1>1, <1>2, <1>7, <1>8, NextItem
<1>10. NextOf(cur) = NextIn(doc, cur)
  BY SameWalk
<1> QED
  BY <1>1, <1>2, <1>5, <1>7, <1>8, <1>9, <1>10 DEF ReadInv

LEMMA GroupReads ==
  ASSUME Conforming, Tracked(doc), ReadInv, EnterGroup
  PROVE  ReadInv' /\ AbstractSrc!Get
<1> DEFINE x == StartItem(doc[cur])
<1>1. /\ doc' = doc /\ prnt' = cur /\ cur' = FirstOf(cur) /\ cur # Null /\ ended' = ended
      /\ got' = Append(got, x) /\ state' = StateAfter(cur)
      /\ doc[cur].name \in GroupNames
  BY DEF EnterGroup, Return, AtNode
<1>2. doc \in Documents /\ Reads(doc, prnt, cur, state, got) /\ (ended => FALSE)
      /\ Walked(doc) /\ cur # 0
  BY <1>1, DocumentWalked DEF ReadInv, Null
<1>3. StateAfter(cur) = PagesAfter(x, state)
  BY <1>1 DEF GroupNames, StateAfter, StartItem, Item, PagesAfter, page
<1>4. x = StartItem(doc[cur])
  OBVIOUS
<1> HIDE DEF x
<1>5. Reads(doc, cur, FirstIn(doc, cur), PagesAfter(x, state), Append(got, x))
      /\ Gives(doc, got, x)
  BY <1>1, <1>2, <1>4, ReadsGroup
<1>6. AbstractSrc!Get
  BY <1>1, <1>2, <1>5, NextItem
<1>7. FirstOf(cur) = FirstIn(doc, cur)
  BY SameWalk
<1> QED
  BY <1>1, <1>2, <1>3, <1>5, <1>6, <1>7 DEF ReadInv

LEMMA EndReads ==
  ASSUME Conforming, Tracked(doc), ReadInv, ExitGroup
  PROVE  ReadInv' /\ AbstractSrc!Get
<1> DEFINE x == EndItem(doc[prnt])
<1>1. /\ doc' = doc /\ prnt' = ParentOf(prnt) /\ cur' = NextOf(prnt) /\ cur = 0
      /\ ended' = ended /\ got' = Append(got, x) /\ state' = StateAfterEnd(prnt)
      /\ doc[prnt].name \in GroupNames
  BY DEF ExitGroup, Return, AtEnd, Null
<1>2. doc \in Documents /\ Reads(doc, prnt, 0, state, got) /\ (ended => FALSE)
      /\ Walked(doc)
  BY <1>1, DocumentWalked DEF ReadInv, GroupNames
<1>3. StateAfterEnd(prnt) = PagesAfter(x, state)
  BY <1>1 DEF GroupNames, StateAfterEnd, EndItem, Item, PagesAfter, Pop
<1>4. x = EndItem(doc[prnt])
  OBVIOUS
<1> HIDE DEF x
<1>5. Reads(doc, doc[prnt].up, NextIn(doc, prnt), PagesAfter(x, state), Append(got, x))
      /\ Gives(doc, got, x)
  BY <1>1, <1>2, <1>4, ReadsEnd
<1>6. AbstractSrc!Get
  BY <1>1, <1>2, <1>5, NextItem
<1>7. NextOf(prnt) = NextIn(doc, prnt)
  BY SameWalk
<1>8. ParentOf(prnt) = doc[prnt].up
  BY <1>1, <1>2 DEF ParentOf, Walked, GroupNames
<1> QED
  BY <1>1, <1>2, <1>3, <1>5, <1>6, <1>7, <1>8 DEF ReadInv

LEMMA MoveReads ==
  ASSUME Conforming, ReadInv, SkipText \/ EnterDescriptor
  PROVE  ReadInv' /\ UNCHANGED <<doc, got, ended>>
<1>1. /\ doc' = doc /\ got' = got /\ state' = state /\ ended' = ended /\ cur # 0
  BY DEF SkipText, EnterDescriptor, AtNode, Null
<1>2. doc \in Documents /\ Reads(doc, prnt, cur, state, got) /\ (ended => FALSE)
      /\ Walked(doc)
  BY <1>1, DocumentWalked DEF ReadInv, Null
<1>3. CASE SkipText
  <2>1. prnt' = prnt /\ cur' = NextIn(doc, cur) /\ doc[cur].name = "text"
    BY <1>3, SameWalk DEF SkipText
  <2>2. Reads(doc, prnt, NextIn(doc, cur), state, got)
    BY <1>1, <1>2, <2>1, ReadsSkips
  <2> QED
    BY <1>1, <1>2, <2>1, <2>2 DEF ReadInv
<1>4. CASE EnterDescriptor
  <2>1. prnt' = cur /\ cur' = FirstIn(doc, cur) /\ doc[cur].name = "descriptor"
    BY <1>4, SameWalk DEF EnterDescriptor
  <2>2. Reads(doc, cur, FirstIn(doc, cur), state, got)
    BY <1>1, <1>2, <2>1, ReadsRoot
  <2> QED
    BY <1>1, <1>2, <2>1, <2>2 DEF ReadInv
<1> QED
  BY <1>3, <1>4

LEMMA StopReads ==
  ASSUME Conforming, Tracked(doc), ReadInv, ExitDescriptor
  PROVE  ReadInv' /\ AbstractSrc!End
<1>1. /\ UNCHANGED <<doc, prnt, cur, state, got>> /\ ended' = TRUE /\ cur = 0
      /\ doc[prnt].name = "descriptor"
  BY DEF ExitDescriptor, Stop, AtEnd, Null, walk
<1>2. doc \in Documents /\ Reads(doc, prnt, 0, state, got) /\ Walked(doc)
  BY <1>1, DocumentWalked DEF ReadInv
<1>3. Meaning(got) = Meaning(Items(doc, {}))
  BY <1>1, <1>2, ReadsStop
<1>4. AbstractSrc!End
  BY <1>1, <1>3 DEF AbstractSrc!End, Contents, Kept
<1> QED
  BY <1>1, <1>2, <1>4 DEF ReadInv, Null

LEMMA StepReads ==
  ASSUME Conforming, Tracked(doc), ReadInv, [SrcNext]_srcVars
  PROVE  ReadInv' /\ [AbstractSrc!Next]_AbstractSrc!vars
<1>1. CASE ReadElement
  BY <1>1, ReadReads DEF AbstractSrc!Next
<1>2. CASE EnterGroup
  BY <1>2, GroupReads DEF AbstractSrc!Next
<1>3. CASE ExitGroup
  BY <1>3, EndReads DEF AbstractSrc!Next
<1>4. CASE SkipText \/ EnterDescriptor
  BY <1>4, MoveReads DEF AbstractSrc!vars
<1>5. CASE ExitDescriptor
  BY <1>5, StopReads DEF AbstractSrc!Next
<1>6. CASE Get \/ FailElement \/ UNCHANGED srcVars
  <2>1. UNCHANGED <<doc, prnt, cur, state, got, ended>>
    BY <1>6 DEF Get, FailElement, srcVars, walk
  <2> QED
    BY <2>1 DEF ReadInv, AbstractSrc!vars
<1> QED
  BY <1>1, <1>2, <1>3, <1>4, <1>5, <1>6 DEF SrcNext, Step

(* The items but for the pages of usages.                                   *)
LEMMA PagelessIs ==
  ASSUME NEW s, IsSeq(s)
  PROVE  /\ Len(Pageless(s)) = Len(s) /\ Len(s) \in Nat
         /\ \A i \in 1 .. Len(s) : Pageless(s)[i] = WithoutPage(s[i])
<1>1. Len(s) \in Nat /\ DOMAIN s = 1 .. Len(s)
  BY SeqFacts
<1>2. Pageless(s) = [i \in 1 .. Len(s) |-> WithoutPage(s[i])]
  BY <1>1 DEF Pageless
<1> QED
  BY <1>1, <1>2

LEMMA PagelessAppend ==
  ASSUME NEW s, IsSeq(s), NEW x
  PROVE  Pageless(Append(s, x)) = Append(Pageless(s), WithoutPage(x))
<1> DEFINE r == Append(s, x)
           n == Len(s)
           y == WithoutPage(x)
           m == Pageless(s)
           S == {WithoutPage(s[i]) : i \in 1 .. n} \cup {y}
<1>1. /\ DOMAIN s = 1 .. n /\ n \in Nat /\ DOMAIN r = 1 .. n + 1
      /\ \A i \in 1 .. n : r[i] = s[i]
      /\ r[n + 1] = x
  BY AppendedTo
<1> HIDE DEF r
<1>2. Pageless(r) = [i \in 1 .. n + 1 |-> WithoutPage(r[i])]
  BY <1>1 DEF Pageless
<1>3. m = [i \in 1 .. n |-> WithoutPage(s[i])]
  BY <1>1 DEF Pageless
<1> HIDE DEF m
<1>4. /\ m \in Seq(S) /\ y \in S /\ Len(m) = n
      /\ \A i \in 1 .. n : m[i] = WithoutPage(s[i])
  <2>1. y \in S /\ \A i \in 1 .. n : WithoutPage(s[i]) \in S
    OBVIOUS
  <2> HIDE DEF S, y
  <2> QED
    BY <1>1, <1>3, <2>1
<1> HIDE DEF S
<1>5. Append(m, y) = [i \in 1 .. n + 1 |-> IF i <= n THEN m[i] ELSE y]
  BY <1>4, AppendedIs
<1>6. ASSUME NEW i \in 1 .. n + 1 PROVE WithoutPage(r[i]) = IF i <= n THEN m[i] ELSE y
  <2>1. CASE i = n + 1
    <3>1. ~(i <= n) /\ r[i] = x
      BY <1>1, <2>1
    <3> QED
      BY <3>1 DEF y
  <2>2. CASE i # n + 1
    <3>1. i \in 1 .. n /\ i <= n
      BY <1>1, <2>2
    <3> QED
      BY <1>1, <1>4, <3>1
  <2> QED
    BY <2>1, <2>2
<1>7. Pageless(r) = [i \in 1 .. n + 1 |-> IF i <= n THEN m[i] ELSE y]
  BY <1>2, <1>6
<1> QED
  BY <1>5, <1>7 DEF r, y, m

(* The walk of a reader that has returned the items of the document so far, *)
(* but for the pages of usages.                                             *)
BareSame(g, d) == IsSeq(g) /\ IsSeq(d) /\ Pageless(g) = Pageless(d)
BareReads(t, p, c, g) ==
    \/ p = 0 /\ c = 1 /\ g = <<>>
    \/ \E done : ReadTo(t, p, c, done) /\ BareSame(g, done)

(* It returns the item x, the next of the document.                         *)
BareGives(t, g, x) ==
    /\ Len(Pageless(g)) < Len(Pageless(Items(t, {})))
    /\ Pageless(Append(g, x)) = Append(Pageless(g), Pageless(Items(t, {}))[Len(Pageless(g)) + 1])

LEMMA BareFacts ==
  ASSUME NEW t, Walked(t), NEW p, NEW c, NEW g, BareReads(t, p, c, g)
  PROVE  /\ c # 0 => c \in DOMAIN t
         /\ c = 0 => p \in DOMAIN t
         /\ c # 0 /\ t[c].name = "descriptor" => c = 1 /\ p = 0 /\ g = <<>>
         /\ c # 0 /\ t[c].name # "descriptor" =>
               \E done : ReadTo(t, p, c, done) /\ BareSame(g, done)
         /\ c = 0 => \E done : ReadTo(t, p, c, done) /\ BareSame(g, done)
<1>1. t[1].name = "descriptor" /\ 1 \in DOMAIN t /\ 1 # 0
  BY DEF Walked, Falls
<1>2. CASE p = 0 /\ c = 1 /\ g = <<>>
  BY <1>1, <1>2
<1>3. CASE \E done : ReadTo(t, p, c, done) /\ BareSame(g, done)
  <2>1. PICK done : ReadTo(t, p, c, done)
    BY <1>3
  <2>2. /\ p \in DOMAIN t
        /\ c # 0 => c \in DOMAIN t /\ t[c].name # "descriptor"
    BY <2>1, AtFacts
  <2> QED
    BY <1>3, <2>2
<1> QED
  BY <1>2, <1>3 DEF BareReads

LEMMA BareMore ==
  ASSUME NEW t, Walked(t), NEW g, NEW done, BareSame(g, done), NEW x, NEW y,
         WithoutPage(x) = WithoutPage(y), NEW p, NEW c, ReadTo(t, p, c, done \o <<y>>)
  PROVE  BareReads(t, p, c, Append(g, x)) /\ BareGives(t, g, x)
<1> DEFINE more == Append(done, y)
<1>1. IsSeq(g) /\ IsSeq(done) /\ Pageless(g) = Pageless(done)
  BY DEF BareSame
<1>2. done \o <<y>> = more
  BY <1>1, OneMore
<1>3. /\ IsSeq(Append(g, x)) /\ IsSeq(more) /\ Len(more) = Len(done) + 1
      /\ more[Len(done) + 1] = y /\ Len(done) \in Nat /\ DOMAIN more = 1 .. Len(done) + 1
  BY <1>1, AppendedTo
<1>4. /\ Pageless(Append(g, x)) = Append(Pageless(g), WithoutPage(x))
      /\ Pageless(more) = Append(Pageless(done), WithoutPage(y))
  BY <1>1, PagelessAppend
<1> HIDE DEF more
<1>5. ReadTo(t, p, c, more)
  BY <1>2
<1>6. PICK rest : IsSeq(rest) /\ Items(t, {}) = more \o rest
  BY <1>5, AtFacts
<1> DEFINE s == more \o rest
<1>7. IsSeq(s) /\ Len(s) = Len(more) + Len(rest) /\ Len(rest) \in Nat /\ s[Len(done) + 1] = y
  <2>1. Len(done) + 1 \in DOMAIN more
    BY <1>3
  <2>2. IsSeq(s) /\ Len(s) = Len(more) + Len(rest) /\ s[Len(done) + 1] = more[Len(done) + 1]
    BY <1>3, <1>6, <2>1, ConcatIsSeq
  <2>3. Len(rest) \in Nat
    BY <1>6, SeqFacts
  <2> QED
    BY <1>3, <2>2, <2>3
<1> HIDE DEF s
<1>8. Len(done) < Len(s) /\ Len(done) + 1 \in 1 .. Len(s)
  BY <1>3, <1>7
<1>9. Len(Pageless(s)) = Len(s) /\ Pageless(s)[Len(done) + 1] = WithoutPage(y)
  BY <1>7, <1>8, PagelessIs
<1>10. Len(Pageless(g)) = Len(done)
  BY <1>1, PagelessIs
<1>11. Items(t, {}) = s
  BY <1>6 DEF s
<1>12. BareGives(t, g, x)
  BY <1>4, <1>8, <1>9, <1>10, <1>11 DEF BareGives
<1>13. BareSame(Append(g, x), more)
  BY <1>1, <1>3, <1>4 DEF BareSame
<1> QED
  BY <1>5, <1>12, <1>13 DEF BareReads

BareInv ==
    /\ doc \in Documents
    /\ BareReads(doc, prnt, cur, got)
    /\ ended => cur = Null /\ doc[prnt].name = "descriptor"

LEMMA BareItem ==
  ASSUME ~Tracked(doc), doc' = doc, ended' = ended, ended => FALSE, NEW x,
         got' = Append(got, x), BareGives(doc, got, x)
  PROVE  AbstractSrc!Get
BY DEF BareGives, AbstractSrc!Get, Contents, Kept

LEMMA BareElement ==
  ASSUME Conforming, ~Tracked(doc), BareInv, ReadElement
  PROVE  BareInv' /\ AbstractSrc!Get
<1>1. /\ doc' = doc /\ prnt' = prnt /\ cur' = NextOf(cur) /\ cur # 0 /\ ended' = ended
      /\ got' = Append(got, SimpleItem(cur)) /\ doc[cur].name \in SimpleNames
  BY DEF ReadElement, Return, AtNode, Parses, Null
<1>2. doc \in Documents /\ BareReads(doc, prnt, cur, got) /\ (ended => FALSE) /\ Walked(doc)
  BY <1>1, DocumentWalked DEF BareInv, Null
<1>3. doc[cur].name \notin GroupNames \cup {"text", "descriptor"}
  BY <1>1 DEF SimpleNames, GroupNames
<1> DEFINE x == SimpleItem(cur)
           y == ItemOf(doc[cur], BitsOf(doc, cur))
<1>4. WithoutPage(x) = WithoutPage(y)
  <2>1. CASE doc[cur].name = "usage"
    <3> DEFINE u == doc[cur].val
    <3>1. /\ x = Item("usage", IF page # 0 /\ u[1] = page THEN <<0, u[2]>> ELSE u)
          /\ y = Item("usage", u)
      BY <2>1 DEF SimpleItem, UsageItem, ItemOf
    <3> HIDE DEF u, x, y
    <3> QED
      BY <3>1 DEF WithoutPage, Item
  <2>2. CASE doc[cur].name # "usage"
    BY <2>2 DEF SimpleItem
  <2> QED
    BY <2>1, <2>2
<1>5. got' = Append(got, x)
  BY <1>1
<1> HIDE DEF x
<1>6. PICK done : ReadTo(doc, prnt, cur, done) /\ BareSame(got, done)
  BY <1>1, <1>2, <1>3, BareFacts
<1>7. ReadTo(doc, prnt, NextIn(doc, cur), done \o <<y>>)
  <2>1. Part(doc, {}, cur) = <<y>>
    BY <1>3, PartIs
  <2> HIDE DEF y
  <2>2. ReadTo(doc, prnt, NextIn(doc, cur), done \o Part(doc, {}, cur))
    BY <1>1, <1>2, <1>6, WalkPasses
  <2> QED
    BY <2>1, <2>2
<1> HIDE DEF y
<1>8. BareReads(doc, prnt, NextIn(doc, cur), Append(got, x)) /\ BareGives(doc, got, x)
  BY <1>2, <1>4, <1>6, <1>7, BareMore
<1>9. AbstractSrc!Get
  BY <1>1, <1>2, <1>5, <1>8, BareItem
<1>10. NextOf(cur) = NextIn(doc, cur)
  BY SameWalk
<1> QED
  BY <1>1, <1>2, <1>5, <1>8, <1>9, <1>10 DEF BareInv

LEMMA BareGroup ==
  ASSUME Conforming, ~Tracked(doc), BareInv, EnterGroup
  PROVE  BareInv' /\ AbstractSrc!Get
<1> DEFINE x == StartItem(doc[cur])
<1>1. /\ doc' = doc /\ prnt' = cur /\ cur' = FirstOf(cur) /\ cur # 0 /\ ended' = ended
      /\ got' = Append(got, x) /\ doc[cur].name \in GroupNames
  BY DEF EnterGroup, Return, AtNode, Null
<1>2. doc \in Documents /\ BareReads(doc, prnt, cur, got) /\ (ended => FALSE) /\ Walked(doc)
  BY <1>1, DocumentWalked DEF BareInv, Null
<1>3. doc[cur].name # "descriptor"
  BY <1>1 DEF GroupNames
<1>4. PICK done : ReadTo(doc, prnt, cur, done) /\ BareSame(got, done)
  BY <1>1, <1>2, <1>3, BareFacts
<1>5. ReadTo(doc, cur, FirstIn(doc, cur), done \o <<x>>)
  BY <1>1, <1>2, <1>4, WalkEnters
<1> HIDE DEF x
<1>6. BareReads(doc, cur, FirstIn(doc, cur), Append(got, x)) /\ BareGives(doc, got, x)
  BY <1>2, <1>4, <1>5, BareMore
<1>7. AbstractSrc!Get
  BY <1>1, <1>2, <1>6, BareItem
<1>8. FirstOf(cur) = FirstIn(doc, cur)
  BY SameWalk
<1> QED
  BY <1>1, <1>2, <1>6, <1>7, <1>8 DEF BareInv

LEMMA BareEnd ==
  ASSUME Conforming, ~Tracked(doc), BareInv, ExitGroup
  PROVE  BareInv' /\ AbstractSrc!Get
<1> DEFINE x == EndItem(doc[prnt])
<1>1. /\ doc' = doc /\ prnt' = ParentOf(prnt) /\ cur' = NextOf(prnt) /\ cur = 0
      /\ ended' = ended /\ got' = Append(got, x) /\ doc[prnt].name \in GroupNames
  BY DEF ExitGroup, Return, AtEnd, Null
<1>2. doc \in Documents /\ BareReads(doc, prnt, 0, got) /\ (ended => FALSE) /\ Walked(doc)
  BY <1>1, DocumentWalked DEF BareInv, GroupNames
<1>3. prnt # 1
  BY <1>1, <1>2 DEF Walked, GroupNames
<1>4. PICK done : ReadTo(doc, prnt, 0, done) /\ BareSame(got, done)
  BY <1>2, BareFacts
<1>5. ReadTo(doc, doc[prnt].up, NextIn(doc, prnt), done \o <<x>>)
  BY <1>2, <1>3, <1>4, WalkLeaves
<1> HIDE DEF x
<1>6. BareReads(doc, doc[prnt].up, NextIn(doc, prnt), Append(got, x)) /\ BareGives(doc, got, x)
  BY <1>2, <1>4, <1>5, BareMore
<1>7. AbstractSrc!Get
  BY <1>1, <1>2, <1>6, BareItem
<1>8. NextOf(prnt) = NextIn(doc, prnt) /\ ParentOf(prnt) = doc[prnt].up
  BY <1>3, SameWalk DEF ParentOf
<1> QED
  BY <1>1, <1>2, <1>6, <1>7, <1>8 DEF BareInv

LEMMA BareMove ==
  ASSUME Conforming, BareInv, SkipText \/ EnterDescriptor
  PROVE  BareInv' /\ UNCHANGED <<doc, got, ended>>
<1>1. /\ doc' = doc /\ got' = got /\ ended' = ended /\ cur # 0
  BY DEF SkipText, EnterDescriptor, AtNode, Null
<1>2. doc \in Documents /\ BareReads(doc, prnt, cur, got) /\ (ended => FALSE) /\ Walked(doc)
  BY <1>1, DocumentWalked DEF BareInv, Null
<1>3. CASE SkipText
  <2>1. prnt' = prnt /\ cur' = NextIn(doc, cur) /\ doc[cur].name = "text"
    BY <1>3, SameWalk DEF SkipText
  <2>2. PICK done : ReadTo(doc, prnt, cur, done) /\ BareSame(got, done)
    BY <1>1, <1>2, <2>1, BareFacts
  <2>3. ReadTo(doc, prnt, NextIn(doc, cur), done \o Part(doc, {}, cur))
    BY <1>1, <1>2, <2>2, WalkPasses
  <2>4. Part(doc, {}, cur) = <<>> /\ done \o <<>> = done
    BY <2>1, <2>2, PartIs, ConcatEmpty DEF BareSame
  <2>5. BareReads(doc, prnt, NextIn(doc, cur), got)
    BY <2>2, <2>3, <2>4 DEF BareReads
  <2> QED
    BY <1>1, <1>2, <2>1, <2>5 DEF BareInv
<1>4. CASE EnterDescriptor
  <2>1. prnt' = cur /\ cur' = FirstIn(doc, cur) /\ doc[cur].name = "descriptor"
    BY <1>4, SameWalk DEF EnterDescriptor
  <2>2. cur = 1 /\ got = <<>>
    BY <1>1, <1>2, <2>1, BareFacts
  <2>3. ReadTo(doc, 1, FirstIn(doc, 1), <<>>)
    BY <1>2, WalkStarts
  <2>4. BareSame(<<>>, <<>>)
    BY ShortSeqs DEF BareSame
  <2>5. BareReads(doc, cur, FirstIn(doc, cur), got)
    BY <2>2, <2>3, <2>4 DEF BareReads
  <2> QED
    BY <1>1, <1>2, <2>1, <2>5 DEF BareInv
<1> QED
  BY <1>3, <1>4

LEMMA BareStop ==
  ASSUME Conforming, ~Tracked(doc), BareInv, ExitDescriptor
  PROVE  BareInv' /\ AbstractSrc!End
<1>1. /\ UNCHANGED <<doc, prnt, cur, state, got>> /\ ended' = TRUE /\ cur = 0
      /\ doc[prnt].name = "descriptor"
  BY DEF ExitDescriptor, Stop, AtEnd, Null, walk
<1>2. doc \in Documents /\ BareReads(doc, prnt, 0, got) /\ Walked(doc)
  BY <1>1, DocumentWalked DEF BareInv
<1>3. PICK done : ReadTo(doc, prnt, 0, done) /\ BareSame(got, done)
  BY <1>2, BareFacts
<1>4. prnt = 1
  BY <1>1, <1>2, <1>3, AtFacts DEF GroupNames
<1>5. Items(doc, {}) = done
  BY <1>2, <1>3, <1>4, WalkEnds
<1>6. Pageless(got) = Pageless(Items(doc, {}))
  BY <1>3, <1>5 DEF BareSame
<1>7. AbstractSrc!End
  BY <1>1, <1>6 DEF AbstractSrc!End, Contents, Kept
<1> QED
  BY <1>1, <1>2, <1>7 DEF BareInv, Null

LEMMA BareStep ==
  ASSUME Conforming, ~Tracked(doc), BareInv, [SrcNext]_srcVars
  PROVE  BareInv' /\ [AbstractSrc!Next]_AbstractSrc!vars
<1>1. CASE ReadElement
  BY <1>1, BareElement DEF AbstractSrc!Next
<1>2. CASE EnterGroup
  BY <1>2, BareGroup DEF AbstractSrc!Next
<1>3. CASE ExitGroup
  BY <1>3, BareEnd DEF AbstractSrc!Next
<1>4. CASE SkipText \/ EnterDescriptor
  BY <1>4, BareMove DEF AbstractSrc!vars
<1>5. CASE ExitDescriptor
  BY <1>5, BareStop DEF AbstractSrc!Next
<1>6. CASE Get \/ FailElement \/ UNCHANGED srcVars
  <2>1. UNCHANGED <<doc, prnt, cur, state, got, ended>>
    BY <1>6 DEF Get, FailElement, srcVars, walk
  <2> QED
    BY <2>1 DEF BareInv, AbstractSrc!vars
<1> QED
  BY <1>1, <1>2, <1>3, <1>4, <1>5, <1>6 DEF SrcNext, Step

(* Both kinds of document.                                                  *)
KeptInv == IF Tracked(doc) THEN ReadInv ELSE BareInv

LEMMA KeptStep ==
  ASSUME Conforming, KeptInv, [SrcNext]_srcVars
  PROVE  KeptInv' /\ [AbstractSrc!Next]_AbstractSrc!vars
<1>1. doc' = doc
  BY DEF SrcNext, Get, Step, ExitGroup, ExitDescriptor, SkipText, EnterDescriptor, EnterGroup,
         ReadElement, FailElement, Return, Stop, srcVars
<1>2. Tracked(doc)' = Tracked(doc)
  BY <1>1
<1>3. CASE Tracked(doc)
  BY <1>2, <1>3, StepReads DEF KeptInv
<1>4. CASE ~Tracked(doc)
  BY <1>2, <1>4, BareStep DEF KeptInv
<1> QED
  BY <1>3, <1>4

LEMMA InitReads ==
  ASSUME SrcInit
  PROVE  KeptInv /\ AbstractSrc!Init
<1>1. doc \in Documents /\ prnt = 0 /\ cur = 1 /\ state = <<0>> /\ got = <<>> /\ ended = FALSE
  BY DEF SrcInit, Opened, Null
<1>2. ReadInv /\ BareInv
  BY <1>1 DEF ReadInv, Reads, BareInv, BareReads
<1>3. Meaning(got) = <<>> /\ Pageless(got) = <<>>
  <2>1. Len(got) = 0 /\ DOMAIN got = {}
    BY <1>1
  <2>2. /\ Meaning(got) = [i \in {} |-> Resolve(got[i], Head(PagesAt(got)[i - 1]))]
        /\ Pageless(got) = [i \in {} |-> WithoutPage(got[i])]
    BY <2>1 DEF Meaning, Pageless
  <2> QED
    BY <2>2
<1> QED
  BY <1>1, <1>2, <1>3 DEF AbstractSrc!Init, Kept, KeptInv

(* The calls return the items of the document, each once and in document    *)
(* order, for every document with no descriptor inside another; a call that *)
(* failed loses nothing.  Their meaning is kept although the pages of       *)
(* usages are left out, unless a generic element changes the pages: then    *)
(* all but the pages of usages is kept.                                     *)
THEOREM XmlImplementsItemSrc ==
  ASSUME Conforming
  PROVE  SrcSpec => ImplementsItemSrc
<1>1. SrcInit => KeptInv /\ AbstractSrc!Init
  BY InitReads
<1>2. KeptInv /\ [SrcNext]_srcVars => KeptInv' /\ [AbstractSrc!Next]_AbstractSrc!vars
  BY KeptStep
<1> QED
  BY <1>1, <1>2, PTL DEF SrcSpec, ImplementsItemSrc, AbstractSrc!Spec
===============================================================================
