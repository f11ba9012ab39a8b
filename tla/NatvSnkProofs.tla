---------------------------- MODULE NatvSnkProofs ----------------------------
(***************************************************************************)
(* Proofs about the native sink, for any items, any maximum item size, any *)
(* set of addresses and any bounds.                                        *)
(***************************************************************************)
EXTENDS NatvSnk, TLAPS, SequenceTheorems

------------------------------------------------------------------------------
(* Lemmas about the memory.                                                 *)

LEMMA FcnIsSeq ==
    ASSUME NEW S, NEW n \in Nat, NEW f \in [1 .. n -> S]
    PROVE  f \in Seq(S) /\ Len(f) = n
<1>1. f \in Seq(S)
  OBVIOUS
<1>2. DOMAIN f = 1 .. n /\ DOMAIN f = 1 .. Len(f) /\ Len(f) \in Nat
  BY <1>1, LenProperties
<1> QED
  BY <1>1, <1>2

(* A successful reallocation yields a block of the new length that is the   *)
(* old one or was free, with the old bytes in front.                        *)
LEMMA ReallocResult ==
    ASSUME mem \in [Blocks -> Seq(Byte)], live \subseteq Blocks,
           NEW b \in Blocks \cup {NoBuf}, NEW n \in Nat,
           NEW r \in Realloc(b, n), r.ptr # NoBuf
    PROVE  /\ n # 0
           /\ r.ptr \in Blocks
           /\ r.ptr = b \/ r.ptr \notin live
           /\ r.live = (live \ {b}) \cup {r.ptr}
           /\ r.mem \in [Blocks -> Seq(Byte)]
           /\ Len(r.mem[r.ptr]) = n
           /\ \A i \in 1 .. n : r.mem[r.ptr][i] =
                IF b \in Blocks /\ i <= Len(mem[b]) THEN mem[b][i] ELSE Garbage
<1>1. PICK nb \in (Blocks \ live) \cup ({b} \cap Blocks) : r = MovedTo(b, nb, n)
  BY DEF Realloc, Released
<1>2. n # 0
  BY DEF Realloc, Released
<1>3. Resized(b, n) \in [1 .. n -> Byte]
  <2> SUFFICES ASSUME NEW i \in 1 .. n, b \in Blocks, i <= Len(mem[b])
               PROVE  mem[b][i] \in Byte
    BY DEF Resized, Byte
  <2>1. mem[b] \in Seq(Byte)
    OBVIOUS
  <2>2. i \in 1 .. Len(mem[b])
    BY <2>1, LenProperties
  <2> QED
    BY <2>1, <2>2, ElementOfSeq
<1>4. Resized(b, n) \in Seq(Byte) /\ Len(Resized(b, n)) = n
  BY <1>3, FcnIsSeq
<1>5. r.ptr = nb /\ r.live = (live \ {b}) \cup {nb}
  BY <1>1 DEF MovedTo
<1>6. r.mem = [x \in Blocks |-> IF x = nb THEN Resized(b, n)
                                ELSE IF x = b THEN <<>> ELSE mem[x]]
  BY <1>1 DEF MovedTo
<1>7. <<>> \in Seq(Byte)
  BY EmptySeq
<1>8. r.mem \in [Blocks -> Seq(Byte)]
  BY <1>4, <1>6, <1>7
<1>9. r.mem[nb] = Resized(b, n)
  BY <1>1, <1>6
<1> QED
  BY <1>1, <1>2, <1>4, <1>5, <1>8, <1>9 DEF Resized

(* Storing an item keeps every block's length and writes the item's bytes.  *)
Stored(m, b, p, it) ==
    /\ Store(m, b, p, it) \in [Blocks -> Seq(Byte)]
    /\ Len(Store(m, b, p, it)[b]) = Len(m[b])
    /\ \A i \in 1 .. Len(m[b]) : Store(m, b, p, it)[b][i] =
         IF i \in p + 1 .. p + Size[it] THEN <<it, i - p>> ELSE m[b][i]

LEMMA StoreResult ==
    ASSUME NEW m \in [Blocks -> Seq(Byte)], NEW b \in Blocks,
           NEW p \in Nat, NEW it \in Items
    PROVE  Stored(m, b, p, it)
<1> DEFINE s == [i \in 1 .. Len(m[b]) |->
                    IF i \in p + 1 .. p + Size[it] THEN <<it, i - p>> ELSE m[b][i]]
<1>1. m[b] \in Seq(Byte) /\ Len(m[b]) \in Nat
  BY LenProperties
<1>2. Size[it] \in 1 .. MaxSize /\ MaxSize \in Nat
  BY ItemAssumption
<1>3. s \in [1 .. Len(m[b]) -> Byte]
  <2> SUFFICES ASSUME NEW i \in 1 .. Len(m[b])
               PROVE  (IF i \in p + 1 .. p + Size[it] THEN <<it, i - p>> ELSE m[b][i])
                          \in Byte
    OBVIOUS
  <2>1. m[b][i] \in Byte
    BY <1>1, ElementOfSeq
  <2>2. i \in p + 1 .. p + Size[it] => i - p \in 1 .. MaxSize
    BY <1>1, <1>2
  <2> QED
    BY <2>1, <2>2 DEF Byte
<1> HIDE DEF s
<1>4. s \in Seq(Byte) /\ Len(s) = Len(m[b])
  BY <1>1, <1>3, FcnIsSeq
<1>5. Store(m, b, p, it) = [m EXCEPT ![b] = s]
  BY DEF Store, s
<1>6. Store(m, b, p, it)[b] = s
  BY <1>5
<1>7. Store(m, b, p, it) \in [Blocks -> Seq(Byte)]
  BY <1>4, <1>5
<1> QED
  BY <1>4, <1>6, <1>7 DEF s, Stored

------------------------------------------------------------------------------
(* What ties the sink's members to the user's locations; with it the safety *)
(* properties are inductive.  An empty stream has no allocation, so flush   *)
(* never reaches realloc(buf, 0).                                           *)
Link ==
    /\ mode # "both" => ubuf = NoBuf
    /\ ~isOpen => buf = NoBuf /\ pos = 0
    /\ isOpen /\ mode = "both" => usize <= size
    /\ isOpen /\ size = 0 => alloc = 0

IInv == TypeOK /\ BufferSound /\ StreamStored /\ UserView /\ NoLeak /\ Link

(* The sink starts with the user's buffer, all of it stored.                *)
LEMMA InitInv == Init => IInv
<1> SUFFICES ASSUME Init PROVE IInv
  OBVIOUS
<1> USE BlockAssumption, ModeAssumption, BoundAssumption
<1>1. PICK n \in 0 .. MaxUser, b \in Blocks :
        IF mode = "both" /\ n > 0
        THEN /\ ubuf = b /\ usize = n /\ live = {b}
             /\ mem = [x \in Blocks |->
                           IF x = b THEN [i \in 1 .. n |-> UserByte] ELSE <<>>]
        ELSE /\ ubuf = NoBuf
             /\ usize = 0
             /\ live = {}
             /\ mem = [x \in Blocks |-> <<>>]
  BY DEF Init
<1> DEFINE u == [i \in 1 .. n |-> UserByte]
<1>2. u \in [1 .. n -> Byte]
  BY DEF Byte
<1>3. <<>> \in Seq(Byte)
  BY EmptySeq
<1>4. u \in Seq(Byte) /\ Len(u) = n /\ \A i \in 1 .. n : u[i] = UserByte
  <2> HIDE DEF u
  <2>1. u \in Seq(Byte) /\ Len(u) = n
    BY <1>2, FcnIsSeq
  <2> QED
    BY <2>1 DEF u
<1>5. /\ mode \in Mode /\ isOpen = FALSE /\ buf = NoBuf
      /\ size = 0 /\ alloc = 0 /\ pos = 0 /\ err = "NONE"
  BY DEF Init
<1>6. UserByte # Garbage
  BY DEF UserByte, Garbage
<1>7. CASE mode = "both" /\ n > 0
  <2>1. /\ ubuf = b /\ usize = n /\ live = {b}
        /\ mem = [x \in Blocks |-> IF x = b THEN u ELSE <<>>]
    BY <1>1, <1>7
  <2> HIDE DEF u
  <2>2. mem \in [Blocks -> Seq(Byte)] /\ mem[b] = u
    BY <2>1, <1>3, <1>4
  <2>3. TypeOK
    <3>1. ubuf \in Blocks /\ usize \in Nat /\ live \subseteq Blocks
      BY <2>1
    <3> QED
      BY <3>1, <2>2, <1>5 DEF TypeOK
  <2>4. UserView
    BY <2>1, <2>2, <1>4, <1>5, <1>6 DEF UserView
  <2>5. NoLeak
    BY <2>1, <1>5 DEF NoLeak
  <2> QED
    BY <2>3, <2>4, <2>5, <1>5, <1>7 DEF IInv, BufferSound, StreamStored, Link
<1>8. CASE ~(mode = "both" /\ n > 0)
  <2>1. ubuf = NoBuf /\ usize \in Nat /\ live = {} /\ mem = [x \in Blocks |-> <<>>]
    BY <1>1, <1>8
  <2>2. mode = "both" => usize = 0
    BY <1>1, <1>8
  <2>3. TypeOK
    BY <2>1, <1>3, <1>5 DEF TypeOK
  <2> QED
    BY <2>1, <2>2, <2>3, <1>5
    DEF IInv, BufferSound, StreamStored, UserView, NoLeak, Link
<1> QED
  BY <1>7, <1>8

(* New takes the user's buffer as it is; where there is none the user left *)
(* a size of zero.                                                        *)
LEMMA NewInv == IInv /\ New => IInv'
<1> SUFFICES ASSUME IInv, New PROVE IInv'
  OBVIOUS
<1> USE BlockAssumption
<1>1. /\ mode' = mode /\ ubuf' = ubuf /\ usize' = usize
      /\ live' = live /\ mem' = mem
      /\ isOpen = FALSE /\ isOpen' = TRUE /\ pos' = 0 /\ err' = "NONE"
      /\ buf' = IF mode = "both" THEN ubuf ELSE NoBuf
      /\ size' = IF mode = "both" THEN usize ELSE 0
      /\ alloc' = size'
  BY DEF New, user, heap, IInv, TypeOK, Mode
<1>2. TypeOK'
  BY <1>1 DEF IInv, TypeOK
<1>3. BufferSound'
  BY <1>1 DEF IInv, TypeOK, UserView, BufferSound
<1>4. StreamStored'
  BY <1>1 DEF IInv, TypeOK, UserView, StreamStored
<1>5. UserView'
  BY <1>1 DEF IInv, UserView
<1>6. NoLeak' /\ Link'
  BY <1>1 DEF IInv, TypeOK, UserView, NoLeak, Link
<1> QED
  BY <1>2, <1>3, <1>4, <1>5, <1>6 DEF IInv

LEMMA PutFitsInv == ASSUME NEW it \in Items, IInv, PutFits(it) PROVE IInv'
<1> USE BlockAssumption
<1> DEFINE np == pos + Size[it]
<1>1. Size[it] \in Nat \ {0}
  BY ItemAssumption
<1>2. /\ mode' = mode /\ ubuf' = ubuf /\ usize' = usize /\ live' = live
      /\ isOpen = TRUE /\ isOpen' = TRUE /\ buf' = buf /\ alloc' = alloc
      /\ err' = err /\ pos' = np /\ size' = NewSize(size, np)
      /\ mem' = Store(mem, buf, pos, it) /\ np < alloc
  <2>1. np \in Nat /\ alloc \in Nat
    BY <1>1 DEF IInv, TypeOK
  <2> QED
    BY <2>1 DEF PutFits, user, Full, IInv, TypeOK
<1>3. /\ pos \in Nat /\ size \in Nat /\ alloc \in Nat /\ pos <= size /\ size <= alloc
      /\ mem \in [Blocks -> Seq(Byte)]
  BY <1>2 DEF IInv, TypeOK, BufferSound
<1>4. buf \in Blocks /\ buf \in live /\ alloc <= Len(mem[buf]) /\ Len(mem[buf]) \in Nat
  <2>1. buf \in Blocks /\ buf \in live /\ alloc <= Len(mem[buf])
    BY <1>2, <1>3, <1>1 DEF IInv, TypeOK, BufferSound
  <2>2. mem[buf] \in Seq(Byte)
    BY <2>1, <1>3
  <2> QED
    BY <2>1, <2>2, LenProperties
<1>5. /\ mem' \in [Blocks -> Seq(Byte)]
      /\ Len(mem'[buf]) = Len(mem[buf])
      /\ \A i \in 1 .. Len(mem[buf]) : mem'[buf][i] =
            IF i \in pos + 1 .. pos + Size[it] THEN <<it, i - pos>> ELSE mem[buf][i]
  BY <1>2, <1>3, <1>4, StoreResult DEF Stored
<1>6. /\ size' \in Nat /\ pos' \in Nat /\ pos' <= size' /\ size' <= alloc'
      /\ size <= size' /\ size' # 0 /\ \A i \in 1 .. size' : i <= size \/ i \in pos + 1 .. np
  BY <1>1, <1>2, <1>3 DEF NewSize
<1>7. TypeOK'
  BY <1>2, <1>5, <1>6 DEF IInv, TypeOK
<1>8. BufferSound'
  BY <1>2, <1>4, <1>5, <1>6 DEF BufferSound
<1>9. \A i \in 1 .. size' : mem'[buf][i] # Garbage
  <2> SUFFICES ASSUME NEW i \in 1 .. size' PROVE mem'[buf][i] # Garbage
    OBVIOUS
  <2>1. i \in 1 .. Len(mem[buf])
    BY <1>2, <1>3, <1>4, <1>6
  <2>2. CASE i \in pos + 1 .. pos + Size[it]
    <3>1. i - pos # 0
      BY <2>2, <1>1, <1>3
    <3>2. <<it, i - pos>> # Garbage
      BY <3>1 DEF Garbage
    <3> QED
      BY <3>2, <2>1, <2>2, <1>5
  <2>3. CASE i \notin pos + 1 .. pos + Size[it]
    <3>1. i \in 1 .. size
      BY <2>3, <1>6, <1>3
    <3>2. mem[buf][i] # Garbage
      BY <3>1, <1>2 DEF IInv, StreamStored
    <3> QED
      BY <3>2, <2>1, <2>3, <1>5
  <2> QED
    BY <2>2, <2>3
<1>10. StreamStored'
  BY <1>2, <1>9 DEF StreamStored
<1>11. UserView'
  <2> SUFFICES ASSUME mode = "both" PROVE UserView'
    BY <1>2 DEF UserView
  <2>1. ubuf = buf /\ usize \in Nat /\ usize <= size
    BY <1>2 DEF IInv, UserView, Link, TypeOK
  <2>2. usize <= Len(mem'[buf]) /\ \A i \in 1 .. usize : i \in 1 .. size'
    BY <2>1, <1>2, <1>3, <1>4, <1>5, <1>6
  <2> QED
    BY <2>1, <2>2, <1>2, <1>4, <1>9 DEF UserView
<1>12. NoLeak' /\ Link'
  BY <1>2, <1>3, <1>6 DEF IInv, TypeOK, NoLeak, Link
<1> QED
  BY <1>7, <1>8, <1>10, <1>11, <1>12 DEF IInv

LEMMA PutGrowsInv == ASSUME NEW it \in Items, IInv, PutGrows(it) PROVE IInv'
<1> USE BlockAssumption
<1> DEFINE np == pos + Size[it]
<1> DEFINE na == NewAlloc(alloc)
<1>1. Size[it] \in Nat \ {0} /\ Size[it] <= MaxSize /\ MaxSize \in Nat
  BY ItemAssumption
<1>2. /\ pos \in Nat /\ size \in Nat /\ alloc \in Nat /\ pos <= size /\ size <= alloc
      /\ mem \in [Blocks -> Seq(Byte)] /\ live \subseteq Blocks
      /\ isOpen = TRUE /\ buf \in Blocks \cup {NoBuf} /\ ubuf \in Blocks \cup {NoBuf}
      /\ np \in Nat
  BY <1>1 DEF PutGrows, IInv, TypeOK, BufferSound
<1>3. na \in Nat /\ np <= na /\ alloc <= na
  BY <1>1, <1>2 DEF NewAlloc
<1> HIDE DEF na
<1>4. PICK r \in Realloc(buf, na) :
        \/ /\ r.ptr = NoBuf
           /\ err' = "ALLOC"
           /\ UNCHANGED <<user, heap, inst>>
        \/ /\ r.ptr # NoBuf
           /\ buf' = r.ptr
           /\ ubuf' = SyncBuf(r.ptr)
           /\ alloc' = na
           /\ live' = r.live
           /\ mem' = Store(r.mem, r.ptr, pos, it)
           /\ size' = NewSize(size, np)
           /\ pos' = np
           /\ UNCHANGED <<mode, usize, isOpen, err>>
  BY DEF PutGrows, na
<1>5. CASE r.ptr = NoBuf
  <2>1. err' = "ALLOC" /\ UNCHANGED <<user, heap, inst>>
    BY <1>4, <1>5
  <2> QED
    BY <2>1 DEF user, heap, inst, IInv, TypeOK, BufferSound, StreamStored, UserView,
                NoLeak, Link
<1>6. CASE r.ptr # NoBuf
  <2> DEFINE nb == r.ptr
  <2>1. /\ nb \in Blocks /\ (nb = buf \/ nb \notin live)
        /\ r.live = (live \ {buf}) \cup {nb}
        /\ r.mem \in [Blocks -> Seq(Byte)] /\ Len(r.mem[nb]) = na
        /\ \A i \in 1 .. na : r.mem[nb][i] =
             IF buf \in Blocks /\ i <= Len(mem[buf]) THEN mem[buf][i] ELSE Garbage
    BY <1>2, <1>3, <1>6, ReallocResult
  <2>2. /\ buf' = nb /\ ubuf' = SyncBuf(nb) /\ alloc' = na
        /\ live' = (live \ {buf}) \cup {nb}
        /\ mem' = Store(r.mem, nb, pos, it)
        /\ size' = NewSize(size, np) /\ pos' = np
        /\ mode' = mode /\ usize' = usize /\ isOpen' = isOpen /\ err' = err
    BY <1>4, <1>6, <2>1
  <2>3. /\ mem' \in [Blocks -> Seq(Byte)] /\ Len(mem'[nb]) = na
        /\ \A i \in 1 .. na : mem'[nb][i] =
             IF i \in pos + 1 .. pos + Size[it] THEN <<it, i - pos>> ELSE r.mem[nb][i]
    <3> DEFINE m == r.mem
    <3>1. m \in [Blocks -> Seq(Byte)] /\ nb \in Blocks /\ Len(m[nb]) = na
      BY <2>1
    <3> HIDE DEF m, nb
    <3>2. Stored(m, nb, pos, it)
      BY <1>2, <3>1, StoreResult
    <3>3. mem' = Store(m, nb, pos, it)
      BY <2>2 DEF m
    <3> QED
      BY <3>1, <3>2, <3>3 DEF m, Stored
  <2> HIDE DEF nb
  <2>4. /\ size' \in Nat /\ pos' \in Nat /\ pos' <= size' /\ size' <= na
        /\ size <= size' /\ size' # 0
        /\ \A i \in 1 .. size' : i \in 1 .. na /\ (i \in 1 .. size \/ i \in pos + 1 .. np)
    BY <1>1, <1>2, <1>3, <2>2 DEF NewSize
  <2>5. TypeOK'
    BY <1>2, <1>3, <2>1, <2>2, <2>3, <2>4 DEF IInv, TypeOK, SyncBuf
  <2>6. BufferSound'
    BY <1>2, <1>3, <2>1, <2>2, <2>3, <2>4 DEF BufferSound
  <2>7. ASSUME NEW i \in 1 .. size' PROVE mem'[nb][i] # Garbage
    <3>1. CASE i \in pos + 1 .. pos + Size[it]
      <4>1. i - pos # 0
        BY <3>1, <1>1, <1>2
      <4>2. <<it, i - pos>> # Garbage
        BY <4>1 DEF Garbage
      <4> QED
        BY <4>2, <3>1, <2>3, <2>4
    <3>2. CASE i \notin pos + 1 .. pos + Size[it]
      <4>1. i \in 1 .. size
        BY <3>2, <2>4
      <4>2. buf \in Blocks /\ i <= Len(mem[buf]) /\ mem[buf][i] # Garbage
        <5>1. buf # NoBuf
          BY <4>1, <1>2 DEF IInv, BufferSound
        <5>2. alloc <= Len(mem[buf])
          BY <5>1, <1>2 DEF IInv, BufferSound
        <5>3. Len(mem[buf]) \in Nat
          <6>1. mem[buf] \in Seq(Byte)
            BY <5>1, <1>2
          <6> QED
            BY <6>1, LenProperties
        <5>4. mem[buf][i] # Garbage
          BY <4>1, <1>2 DEF IInv, StreamStored
        <5> QED
          BY <4>1, <5>1, <5>2, <5>3, <5>4, <1>2
      <4> QED
        BY <3>2, <4>2, <2>1, <2>3, <2>4 DEF nb
    <3> QED
      BY <3>1, <3>2
  <2>8. StreamStored'
    BY <2>2, <2>7 DEF StreamStored
  <2>9. UserView'
    <3> SUFFICES ASSUME mode = "both" PROVE UserView'
      BY <2>2 DEF UserView
    <3>1. ubuf' = nb /\ usize \in Nat /\ usize <= size
      BY <1>2, <2>2 DEF IInv, UserView, Link, TypeOK, SyncBuf
    <3>2. usize <= na /\ \A i \in 1 .. usize : i \in 1 .. size'
      BY <3>1, <1>2, <1>3, <2>4
    <3> QED
      BY <3>1, <3>2, <2>1, <2>2, <2>3, <2>7 DEF UserView, nb
  <2>10. NoLeak' /\ Link'
    BY <1>2, <2>1, <2>2, <2>4 DEF IInv, TypeOK, NoLeak, Link, UserView, SyncBuf, nb
  <2> QED
    BY <2>5, <2>6, <2>8, <2>9, <2>10 DEF IInv
<1> QED
  BY <1>5, <1>6

LEMMA FlushFailsInv == IInv /\ FlushFails => IInv'
  BY DEF FlushFails, user, heap, inst, IInv, TypeOK, BufferSound, StreamStored,
         UserView, NoLeak, Link

(* What the reallocation of flush and close leaves in the buffer.           *)
LEMMA CutResult ==
    ASSUME IInv, isOpen, alloc # size,
           NEW r \in Realloc(buf, size), size = 0 \/ r.ptr # NoBuf
    PROVE  /\ size # 0
           /\ r.ptr \in Blocks
           /\ r.live = (live \ {buf}) \cup {r.ptr}
           /\ r.mem \in [Blocks -> Seq(Byte)]
           /\ Len(r.mem[r.ptr]) = size
           /\ \A i \in 1 .. size : r.mem[r.ptr][i] = mem[buf][i] /\ mem[buf][i] # Garbage
<1> USE BlockAssumption
<1>1. /\ size \in Nat /\ alloc \in Nat /\ size <= alloc /\ size # 0 /\ buf # NoBuf
      /\ mem \in [Blocks -> Seq(Byte)] /\ live \subseteq Blocks
      /\ buf \in Blocks
  BY DEF IInv, TypeOK, BufferSound, Link
<1>2. alloc <= Len(mem[buf]) /\ Len(mem[buf]) \in Nat
  <2>1. mem[buf] \in Seq(Byte)
    BY <1>1
  <2> QED
    BY <1>1, <2>1, LenProperties DEF IInv, BufferSound
<1>3. r.ptr # NoBuf
  BY <1>1
<1>4. /\ r.ptr \in Blocks
      /\ r.live = (live \ {buf}) \cup {r.ptr}
      /\ r.mem \in [Blocks -> Seq(Byte)]
      /\ Len(r.mem[r.ptr]) = size
      /\ \A i \in 1 .. size : r.mem[r.ptr][i] =
           IF buf \in Blocks /\ i <= Len(mem[buf]) THEN mem[buf][i] ELSE Garbage
  BY <1>1, <1>3, ReallocResult
<1>5. \A i \in 1 .. size : i <= Len(mem[buf])
  BY <1>1, <1>2
<1>6. \A i \in 1 .. size : mem[buf][i] # Garbage
  BY DEF IInv, StreamStored
<1> QED
  BY <1>1, <1>4, <1>5, <1>6

LEMMA FlushInv == IInv /\ Flush => IInv'
<1> SUFFICES ASSUME IInv, Flush PROVE IInv'
  OBVIOUS
<1> USE BlockAssumption
<1>0. isOpen /\ isOpen = TRUE /\ size \in Nat /\ usize \in Nat
  BY DEF Flush, IInv, TypeOK
<1>1. CASE FlushFails
  BY <1>1, FlushFailsInv
<1>2. CASE alloc = size /\ usize' = FlushedSize(size)
           /\ UNCHANGED <<mode, ubuf, heap, inst, err>>
  <2>1. usize' \in Nat /\ usize' = IF mode = "none" THEN usize ELSE size
    BY <1>0, <1>2 DEF FlushedSize
  <2>2. UserView'
    BY <1>0, <1>2, <2>1
    DEF heap, inst, IInv, TypeOK, BufferSound, StreamStored, UserView, FlushedSize
  <2> QED
    BY <1>0, <1>2, <2>1, <2>2
    DEF heap, inst, IInv, TypeOK, BufferSound, StreamStored, NoLeak, Link
<1>3. ASSUME alloc # size,
             NEW r \in Realloc(buf, size), size = 0 \/ r.ptr # NoBuf,
             buf' = r.ptr, ubuf' = SyncBuf(r.ptr), live' = r.live, mem' = r.mem,
             alloc' = size, usize' = FlushedSize(size),
             UNCHANGED <<mode, isOpen, size, pos, err>>
      PROVE  IInv'
  <2> DEFINE nb == r.ptr
  <2>1. /\ size # 0 /\ nb \in Blocks
        /\ live' = (live \ {buf}) \cup {nb}
        /\ mem' \in [Blocks -> Seq(Byte)] /\ Len(mem'[nb]) = size
        /\ \A i \in 1 .. size : mem'[nb][i] = mem[buf][i] /\ mem[buf][i] # Garbage
    BY <1>0, <1>3, CutResult
  <2>2. /\ buf' = nb /\ ubuf' = SyncBuf(nb) /\ alloc' = size /\ mode' = mode
        /\ isOpen' = isOpen /\ size' = size /\ pos' = pos /\ err' = err
        /\ usize' = IF mode = "none" THEN usize ELSE size
    BY <1>3 DEF FlushedSize
  <2> HIDE DEF nb
  <2>3. TypeOK'
    BY <1>0, <2>1, <2>2 DEF IInv, TypeOK, SyncBuf
  <2>4. BufferSound'
    BY <1>0, <2>1, <2>2 DEF IInv, TypeOK, BufferSound
  <2>5. \A i \in 1 .. size : mem'[nb][i] # Garbage
    BY <2>1
  <2>6. StreamStored'
    BY <2>2, <2>5 DEF StreamStored
  <2>7. UserView'
    <3>1. mode = "both" => ubuf' = nb /\ usize' = size
      BY <2>2 DEF SyncBuf
    <3> QED
      BY <1>0, <2>1, <2>2, <2>5, <3>1 DEF UserView
  <2>8. NoLeak' /\ Link'
    BY <1>0, <2>1, <2>2 DEF IInv, TypeOK, NoLeak, Link, UserView, SyncBuf
  <2> QED
    BY <2>3, <2>4, <2>6, <2>7, <2>8 DEF IInv
<1> QED
  BY <1>1, <1>2, <1>3 DEF Flush

LEMMA ReleasedMem ==
    ASSUME mem \in [Blocks -> Seq(Byte)], NEW b
    PROVE  /\ Released(b).live = live \ {b}
           /\ Released(b).mem \in [Blocks -> Seq(Byte)]
           /\ \A x \in Blocks \ {b} : Released(b).mem[x] = mem[x]
<1>1. <<>> \in Seq(Byte)
  BY EmptySeq
<1> QED
  BY <1>1 DEF Released

LEMMA DeleteInv == IInv /\ Delete => IInv'
<1> SUFFICES ASSUME IInv, Delete PROVE IInv'
  OBVIOUS
<1> USE BlockAssumption
<1>1. /\ isOpen' = FALSE /\ buf' = NoBuf /\ size' = 0 /\ alloc' = 0 /\ pos' = 0
      /\ err' = "NONE" /\ mode' = mode /\ ubuf' = ubuf /\ usize' = usize
      /\ isOpen = TRUE
  BY DEF Delete, Gone, user, IInv, TypeOK
<1>2. CASE mode = "both"
  <2>1. live' = live /\ mem' = mem
    BY <1>2 DEF Delete, KeptOnClnp, heap
  <2> QED
    BY <1>1, <1>2, <2>1
    DEF IInv, TypeOK, BufferSound, StreamStored, UserView, NoLeak, Link
<1>3. CASE mode # "both"
  <2>1. live' = live \ {buf} /\ mem' \in [Blocks -> Seq(Byte)]
    BY <1>3, ReleasedMem DEF Delete, KeptOnClnp, IInv, TypeOK
  <2> QED
    BY <1>1, <1>3, <2>1
    DEF IInv, TypeOK, BufferSound, StreamStored, UserView, NoLeak, Link
<1> QED
  BY <1>2, <1>3

LEMMA CloseInv == IInv /\ Close => IInv'
<1> SUFFICES ASSUME IInv, Close PROVE IInv'
  OBVIOUS
<1> USE BlockAssumption
<1>1. CASE FlushFails
  BY <1>1, FlushFailsInv
<1>2. CASE ~FlushFails
  <2>1. PICK r \in IF alloc = size
                   THEN {[ptr |-> buf, live |-> live, mem |-> mem]}
                   ELSE Realloc(buf, size) :
          /\ alloc = size \/ size = 0 \/ r.ptr # NoBuf
          /\ ubuf' = SyncBuf(r.ptr)
          /\ live' = IF KeptOnClnp THEN r.live ELSE r.live \ {r.ptr}
          /\ mem' = IF KeptOnClnp THEN r.mem
                    ELSE [x \in Blocks |-> IF x = r.ptr THEN <<>> ELSE r.mem[x]]
    BY <1>2 DEF Close
  <2>2. /\ isOpen' = FALSE /\ buf' = NoBuf /\ size' = 0 /\ alloc' = 0 /\ pos' = 0
        /\ err' = "NONE" /\ mode' = mode /\ isOpen = TRUE
        /\ usize' = FlushedSize(size)
    BY <1>2 DEF Close, Gone, IInv, TypeOK
  <2> DEFINE nb == r.ptr
  <2>3. /\ nb \in Blocks \cup {NoBuf} /\ size \in Nat /\ usize \in Nat
        /\ r.live = (live \ {buf}) \cup ({nb} \ {NoBuf})
        /\ r.mem \in [Blocks -> Seq(Byte)]
        /\ nb = NoBuf => size = 0
        /\ nb # NoBuf => /\ size <= Len(r.mem[nb])
                         /\ \A i \in 1 .. size : r.mem[nb][i] # Garbage
    <3>1. CASE alloc = size
      <4>1. r.ptr = buf /\ r.live = live /\ r.mem = mem
        BY <2>1, <3>1
      <4>2. /\ buf \in Blocks \cup {NoBuf} /\ size \in Nat /\ usize \in Nat
            /\ mem \in [Blocks -> Seq(Byte)]
            /\ live = (live \ {buf}) \cup ({buf} \ {NoBuf})
            /\ buf = NoBuf => size = 0
        BY <2>2, <3>1 DEF IInv, TypeOK, BufferSound
      <4>3. buf # NoBuf => size <= Len(mem[buf])
        BY <2>2, <3>1 DEF IInv, BufferSound
      <4>4. \A i \in 1 .. size : mem[buf][i] # Garbage
        BY <2>2 DEF IInv, StreamStored
      <4> QED
        BY <4>1, <4>2, <4>3, <4>4
    <3>2. CASE alloc # size
      <4>1. r \in Realloc(buf, size) /\ (size = 0 \/ r.ptr # NoBuf)
        BY <2>1, <3>2
      <4>2. /\ r.ptr \in Blocks
            /\ r.live = (live \ {buf}) \cup {r.ptr}
            /\ r.mem \in [Blocks -> Seq(Byte)]
            /\ Len(r.mem[r.ptr]) = size
            /\ \A i \in 1 .. size : r.mem[r.ptr][i] = mem[buf][i] /\ mem[buf][i] # Garbage
        BY <2>2, <3>2, <4>1, CutResult
      <4>3. size \in Nat /\ usize \in Nat
        BY DEF IInv, TypeOK
      <4>4. r.ptr # NoBuf
        BY <4>2
      <4>5. r.live = (live \ {buf}) \cup ({r.ptr} \ {NoBuf})
        BY <4>2, <4>4
      <4>6. size <= Len(r.mem[r.ptr])
        BY <4>2, <4>3
      <4>7. \A i \in 1 .. size : r.mem[r.ptr][i] # Garbage
        BY <4>2
      <4> QED
        BY <4>2, <4>3, <4>4, <4>5, <4>6, <4>7
    <3> QED
      BY <3>1, <3>2
  <2>4. <<>> \in Seq(Byte)
    BY EmptySeq
  <2> DEFINE m == r.mem
  <2> DEFINE l == r.live
  <2>5. /\ ubuf' = SyncBuf(nb)
        /\ live' = IF mode = "both" THEN l ELSE l \ {nb}
        /\ mem' = IF mode = "both" THEN m
                  ELSE [x \in Blocks |-> IF x = nb THEN <<>> ELSE m[x]]
    BY <2>1 DEF KeptOnClnp
  <2>6. /\ l = (live \ {buf}) \cup ({nb} \ {NoBuf})
        /\ m \in [Blocks -> Seq(Byte)]
        /\ nb # NoBuf => /\ size <= Len(m[nb])
                         /\ \A i \in 1 .. size : m[nb][i] # Garbage
    BY <2>3
  <2> HIDE DEF nb, m, l
  <2>7. mem' \in [Blocks -> Seq(Byte)]
    BY <2>4, <2>5, <2>6
  <2>8. TypeOK'
    BY <2>2, <2>3, <2>5, <2>6, <2>7 DEF IInv, TypeOK, SyncBuf, FlushedSize
  <2>9. UserView'
    BY <2>2, <2>3, <2>5, <2>6 DEF UserView, SyncBuf, FlushedSize
  <2>10. NoLeak' /\ Link'
    BY <2>2, <2>3, <2>5, <2>6 DEF IInv, NoLeak, Link, UserView, SyncBuf
  <2> QED
    BY <2>2, <2>8, <2>9, <2>10 DEF IInv, BufferSound, StreamStored
<1> QED
  BY <1>1, <1>2

LEMMA TakeInv == IInv /\ Take => IInv'
<1> SUFFICES ASSUME IInv, Take PROVE IInv'
  OBVIOUS
<1> USE BlockAssumption
<1>1. /\ isOpen = FALSE /\ buf = NoBuf /\ ubuf' = NoBuf /\ usize' = 0
      /\ isOpen' = isOpen /\ buf' = buf /\ size' = size /\ alloc' = alloc
      /\ pos' = pos /\ mode' = mode /\ err' = err
      /\ live' = live \ {ubuf} /\ mem' \in [Blocks -> Seq(Byte)]
  BY ReleasedMem DEF Take, inst, IInv, TypeOK, Link
<1> QED
  BY <1>1 DEF IInv, TypeOK, BufferSound, StreamStored, UserView, NoLeak, Link

------------------------------------------------------------------------------
(* The invariant holds in every reachable state: whatever the items, the    *)
(* addresses, the order of the calls and the reallocations that fail.       *)
THEOREM InvHolds == Spec => []IInv
<1>1. IInv /\ [Next]_vars => IInv'
  <2> SUFFICES ASSUME IInv, [Next]_vars PROVE IInv'
    OBVIOUS
  <2>1. CASE New
    BY <2>1, NewInv
  <2>2. CASE Flush
    BY <2>2, FlushInv
  <2>3. CASE Delete
    BY <2>3, DeleteInv
  <2>4. CASE Close
    BY <2>4, CloseInv
  <2>5. CASE Take
    BY <2>5, TakeInv
  <2>6. ASSUME NEW it \in Items, PutFits(it) PROVE IInv'
    BY <2>6, PutFitsInv
  <2>7. ASSUME NEW it \in Items, PutGrows(it) PROVE IInv'
    BY <2>7, PutGrowsInv
  <2>8. CASE UNCHANGED vars
    BY <2>8 DEF vars, user, heap, inst, IInv, TypeOK, BufferSound, StreamStored,
                UserView, NoLeak, Link
  <2> QED
    BY <2>1, <2>2, <2>3, <2>4, <2>5, <2>6, <2>7, <2>8 DEF Next
<1> QED
  BY <1>1, InitInv, PTL DEF Spec

(* The variables keep their types.                                          *)
THEOREM TypeCorrect == Spec => []TypeOK
<1>1. IInv => TypeOK
  BY DEF IInv
<1> QED
  BY <1>1, InvHolds, PTL

(* hidrd_natv_snk_valid() holds at every call, and put and flush never      *)
(* touch memory outside the block the sink owns.                            *)
THEOREM BufferAlwaysSound == Spec => []BufferSound
<1>1. IInv => BufferSound
  BY DEF IInv
<1> QED
  BY <1>1, InvHolds, PTL

(* No byte of the stream is uninitialized memory.                           *)
THEOREM StreamAlwaysStored == Spec => []StreamStored
<1>1. IInv => StreamStored
  BY DEF IInv
<1> QED
  BY <1>1, InvHolds, PTL

(* The buffer the user sees is a live block with *psize stored bytes, also  *)
(* between a put and a flush and after a call that failed.                  *)
THEOREM UserViewSound == Spec => []UserView
<1>1. IInv => UserView
  BY DEF IInv
<1> QED
  BY <1>1, InvHolds, PTL

(* No block is ever lost, neither by a failed reallocation nor by a delete. *)
THEOREM NothingLeaks == Spec => []NoLeak
<1>1. IInv => NoLeak
  BY DEF IInv
<1> QED
  BY <1>1, InvHolds, PTL

------------------------------------------------------------------------------
(* The sink implements the stream: the bytes of a block, and of an item.    *)
LEMMA StreamLen ==
    ASSUME NEW b, NEW n \in Nat
    PROVE  /\ Len(StreamOf(b, n)) = n
           /\ DOMAIN StreamOf(b, n) = 1 .. n
           /\ \A i \in 1 .. n : StreamOf(b, n)[i] = mem[b][i]
<1> DEFINE S == {mem[b][i] : i \in 1 .. n}
           f == StreamOf(b, n)
<1>1. f \in [1 .. n -> S]
  BY DEF StreamOf
<1> HIDE DEF S, f
<1>2. Len(f) = n
  BY <1>1, FcnIsSeq
<1> QED
  BY <1>2 DEF f, StreamOf

LEMMA BytesLen ==
    ASSUME NEW it \in Items
    PROVE  /\ Size[it] \in Nat \ {0}
           /\ Len(BytesOf(it)) = Size[it]
           /\ \A k \in 1 .. Size[it] : BytesOf(it)[k] = <<it, k>>
<1>1. Size[it] \in Nat \ {0}
  BY ItemAssumption
<1> DEFINE S == {<<it, k>> : k \in 1 .. Size[it]}
           f == BytesOf(it)
<1>2. f \in [1 .. Size[it] -> S]
  BY DEF BytesOf
<1> HIDE DEF S, f
<1>3. Len(f) = Size[it]
  BY <1>1, <1>2, FcnIsSeq
<1> QED
  BY <1>1, <1>3 DEF f, BytesOf

(* Every action does to the stream what an action of the stream does, or     *)
(* nothing.                                                                 *)
LEMMA RefInit == Init => Abstract!Init
<1> SUFFICES ASSUME Init PROVE Abstract!Init
  OBVIOUS
<1>1. IInv
  BY InitInv
<1>2. mode \in Mode /\ isOpen = FALSE /\ pos = 0
  BY ModeAssumption DEF Init
<1>3. PICK n \in 0 .. MaxUser, b \in Blocks :
        IF mode = "both" /\ n > 0
        THEN /\ ubuf = b /\ usize = n /\ live = {b}
             /\ mem = [x \in Blocks |->
                           IF x = b THEN [i \in 1 .. n |-> UserByte] ELSE <<>>]
        ELSE /\ ubuf = NoBuf
             /\ usize = 0
             /\ live = {}
             /\ mem = [x \in Blocks |-> <<>>]
  BY DEF Init
<1>4. mode = "both" => /\ usize \in 0 .. MaxUser
                       /\ StreamOf(ubuf, usize) = [i \in 1 .. usize |-> UserByte]
  <2> SUFFICES ASSUME mode = "both"
               PROVE  /\ usize \in 0 .. MaxUser
                      /\ StreamOf(ubuf, usize) = [i \in 1 .. usize |-> UserByte]
    OBVIOUS
  <2>1. CASE n > 0
    <3> DEFINE u == [i \in 1 .. n |-> UserByte]
    <3>1. ubuf = b /\ usize = n /\ mem[b] = u
      BY <1>3, <2>1
    <3> HIDE DEF u
    <3>2. StreamOf(ubuf, usize) = [i \in 1 .. n |-> u[i]]
      BY <3>1 DEF StreamOf
    <3>3. \A i \in 1 .. n : u[i] = UserByte
      BY DEF u
    <3> QED
      BY <3>1, <3>2, <3>3
  <2>2. CASE ~(n > 0)
    <3>1. usize = 0
      BY <1>3, <2>2
    <3>2. usize \in 0 .. MaxUser
      BY <3>1, BoundAssumption
    <3> QED
      BY <3>1, <3>2 DEF StreamOf
  <2> QED
    BY <2>1, <2>2
<1>5. usize \in Nat /\ Len(StreamOf(ubuf, usize)) = usize /\ Len(<<>>) = 0
  BY <1>1, StreamLen DEF IInv, TypeOK
<1> QED
  BY <1>2, <1>4, <1>5, Zenon DEF Abstract!Init

LEMMA RefNew == ASSUME IInv, New PROVE Abstract!Open
<1>1. /\ isOpen = FALSE /\ isOpen' = TRUE /\ mode' = mode /\ mem' = mem
      /\ ubuf' = ubuf /\ usize' = usize
      /\ buf' = IF mode = "both" THEN ubuf ELSE NoBuf
      /\ size' = IF mode = "both" THEN usize ELSE 0
      /\ pos = 0 /\ pos' = 0
  BY DEF New, user, heap, IInv, TypeOK, Mode, Link
<1>2. StreamOf(buf, size)' = IF mode = "both" THEN StreamOf(ubuf, usize) ELSE <<>>
  <2>1. CASE mode = "both"
    BY <1>1, <2>1 DEF StreamOf
  <2>2. CASE mode # "both"
    <3>1. size' = 0
      BY <1>1, <2>2
    <3>2. StreamOf(buf, size)' = <<>>
      BY <3>1 DEF StreamOf
    <3> QED
      BY <2>2, <3>2
  <2> QED
    BY <2>1, <2>2
<1> QED
  BY <1>1, <1>2 DEF Abstract!Open

(* A store that lands in a buffer whose first bytes are the stream.          *)
LEMMA RefStore ==
    ASSUME IInv, isOpen = TRUE, NEW it \in Items,
           isOpen' = TRUE, mode' = mode, usize' = usize,
           pos' = pos + Size[it], size' = NewSize(size, pos + Size[it]),
           \A i \in 1 .. size' : mem'[buf'][i] =
             IF i \in pos + 1 .. pos + Size[it] THEN <<it, i - pos>> ELSE mem[buf][i]
    PROVE  Abstract!Put(it)
<1> DEFINE s == StreamOf(buf, size)
           b == BytesOf(it)
<1>1. pos \in Nat /\ size \in Nat /\ pos <= size
  BY DEF IInv, TypeOK, BufferSound
<1>2. /\ Size[it] \in Nat \ {0} /\ Len(b) = Size[it]
      /\ \A k \in 1 .. Size[it] : b[k] = <<it, k>>
  BY BytesLen
<1>3. Len(s) = size /\ \A i \in 1 .. size : s[i] = mem[buf][i]
  BY <1>1, StreamLen
<1> HIDE DEF s, b
<1>4. size' = (IF pos + Len(b) > Len(s) THEN pos + Len(b) ELSE Len(s)) /\ size' \in Nat
  BY <1>1, <1>2, <1>3 DEF NewSize
<1>5. \A i \in 1 .. size' : mem'[buf'][i] =
          IF i \in pos + 1 .. pos + Len(b) THEN b[i - pos] ELSE s[i]
  <2> SUFFICES ASSUME NEW i \in 1 .. size'
               PROVE  mem'[buf'][i] =
                        IF i \in pos + 1 .. pos + Len(b) THEN b[i - pos] ELSE s[i]
    OBVIOUS
  <2>1. CASE i \in pos + 1 .. pos + Size[it]
    <3>1. i - pos \in 1 .. Size[it]
      BY <1>1, <1>2, <2>1
    <3> QED
      BY <1>2, <2>1, <3>1
  <2>2. CASE i \notin pos + 1 .. pos + Size[it]
    <3>1. i \in 1 .. size
      BY <1>1, <1>2, <1>3, <1>4, <2>2
    <3> QED
      BY <1>2, <1>3, <2>2, <3>1
  <2> QED
    BY <2>1, <2>2
<1>6. StreamOf(buf, size)' = Abstract!Overwrite(s, pos, b)
  BY <1>4, <1>5 DEF StreamOf, Abstract!Overwrite
<1> QED
  BY <1>2, <1>6 DEF Abstract!Put, s, b

LEMMA RefPutFits == ASSUME IInv, NEW it \in Items, PutFits(it) PROVE Abstract!Put(it)
<1> USE BlockAssumption
<1>1. /\ isOpen = TRUE /\ isOpen' = TRUE /\ mode' = mode /\ usize' = usize /\ buf' = buf
      /\ pos' = pos + Size[it] /\ size' = NewSize(size, pos + Size[it])
      /\ mem' = Store(mem, buf, pos, it) /\ ~(pos + Size[it] >= alloc)
  BY DEF PutFits, user, Full, IInv, TypeOK
<1>2. /\ pos \in Nat /\ size \in Nat /\ alloc \in Nat /\ pos <= size /\ size <= alloc
      /\ mem \in [Blocks -> Seq(Byte)] /\ Size[it] \in Nat \ {0}
  BY <1>1, ItemAssumption DEF IInv, TypeOK, BufferSound
<1>3. buf \in Blocks /\ alloc <= Len(mem[buf])
  BY <1>1, <1>2 DEF IInv, TypeOK, BufferSound
<1>4. Len(mem[buf]) \in Nat
  <2>1. mem[buf] \in Seq(Byte)
    BY <1>2, <1>3
  <2> QED
    BY <2>1, LenProperties
<1>5. \A i \in 1 .. Len(mem[buf]) : mem'[buf'][i] =
          IF i \in pos + 1 .. pos + Size[it] THEN <<it, i - pos>> ELSE mem[buf][i]
  BY <1>1, <1>2, <1>3, StoreResult, SMTT(30) DEF Stored
<1>6. size' \in 0 .. Len(mem[buf])
  BY <1>1, <1>2, <1>3, <1>4 DEF NewSize
<1>7. \A i \in 1 .. size' : i \in 1 .. Len(mem[buf])
  BY <1>4, <1>6
<1> QED
  BY <1>1, <1>5, <1>7, RefStore

LEMMA RefPutGrows ==
    ASSUME IInv, NEW it \in Items, PutGrows(it)
    PROVE  Abstract!Put(it) \/ UNCHANGED Abstract!vars
<1> USE BlockAssumption
<1> DEFINE na == NewAlloc(alloc)
<1>1. /\ pos \in Nat /\ size \in Nat /\ alloc \in Nat /\ pos <= size /\ size <= alloc
      /\ mem \in [Blocks -> Seq(Byte)] /\ live \subseteq Blocks
      /\ isOpen = TRUE /\ buf \in Blocks \cup {NoBuf}
      /\ Size[it] \in Nat \ {0} /\ Size[it] <= MaxSize /\ MaxSize \in Nat
  BY ItemAssumption DEF PutGrows, IInv, TypeOK, BufferSound
<1>2. na \in Nat /\ pos + Size[it] <= na /\ alloc <= na
  BY <1>1 DEF NewAlloc
<1> HIDE DEF na
<1>3. PICK r \in Realloc(buf, na) :
        \/ /\ r.ptr = NoBuf
           /\ err' = "ALLOC"
           /\ UNCHANGED <<user, heap, inst>>
        \/ /\ r.ptr # NoBuf
           /\ buf' = r.ptr
           /\ ubuf' = SyncBuf(r.ptr)
           /\ alloc' = na
           /\ live' = r.live
           /\ mem' = Store(r.mem, r.ptr, pos, it)
           /\ size' = NewSize(size, pos + Size[it])
           /\ pos' = pos + Size[it]
           /\ UNCHANGED <<mode, usize, isOpen, err>>
  BY DEF PutGrows, na
<1>4. CASE r.ptr = NoBuf
  <2>1. UNCHANGED <<user, heap, inst>>
    BY <1>3, <1>4
  <2> QED
    BY <2>1 DEF user, heap, inst, Abstract!vars, StreamOf
<1>5. CASE r.ptr # NoBuf
  <2> DEFINE nb == r.ptr
             m == r.mem
  <2>1. /\ nb \in Blocks /\ m \in [Blocks -> Seq(Byte)] /\ Len(m[nb]) = na
        /\ \A i \in 1 .. na : m[nb][i] =
             IF buf \in Blocks /\ i <= Len(mem[buf]) THEN mem[buf][i] ELSE Garbage
    BY <1>1, <1>2, <1>5, ReallocResult
  <2>2. /\ buf' = nb /\ mem' = Store(m, nb, pos, it) /\ mode' = mode /\ usize' = usize
        /\ size' = NewSize(size, pos + Size[it]) /\ pos' = pos + Size[it] /\ isOpen' = TRUE
    BY <1>1, <1>3, <1>5
  <2> HIDE DEF nb, m
  <2>3. \A i \in 1 .. na : mem'[nb][i] =
             IF i \in pos + 1 .. pos + Size[it] THEN <<it, i - pos>> ELSE m[nb][i]
    <3>1. Stored(m, nb, pos, it)
      BY <1>1, <2>1, StoreResult
    <3> QED
      BY <2>1, <2>2, <3>1 DEF Stored
  <2>4. ASSUME NEW i \in 1 .. size, i \notin pos + 1 .. pos + Size[it]
        PROVE  i \in 1 .. na /\ m[nb][i] = mem[buf][i]
    <3>1. buf \in Blocks /\ alloc <= Len(mem[buf])
      BY <1>1 DEF IInv, BufferSound
    <3>2. Len(mem[buf]) \in Nat
      <4>1. mem[buf] \in Seq(Byte)
        BY <1>1, <3>1
      <4> QED
        BY <4>1, LenProperties
    <3>3. i \in 1 .. na /\ i <= Len(mem[buf])
      BY <1>1, <1>2, <3>1, <3>2
    <3> QED
      BY <2>1, <3>1, <3>3
  <2>5. \A i \in 1 .. size' : mem'[buf'][i] =
             IF i \in pos + 1 .. pos + Size[it] THEN <<it, i - pos>> ELSE mem[buf][i]
    <3> SUFFICES ASSUME NEW i \in 1 .. size'
                 PROVE  mem'[nb][i] =
                   IF i \in pos + 1 .. pos + Size[it] THEN <<it, i - pos>> ELSE mem[buf][i]
      BY <2>2
    <3>1. i \in 1 .. na /\ (i \in pos + 1 .. pos + Size[it] \/ i \in 1 .. size)
      BY <1>1, <1>2, <2>2 DEF NewSize
    <3> QED
      BY <2>3, <2>4, <3>1
  <2> QED
    BY <1>1, <2>2, <2>5, RefStore
<1> QED
  BY <1>4, <1>5

LEMMA RefFlushFails == FlushFails => UNCHANGED Abstract!vars
  BY DEF FlushFails, user, heap, inst, Abstract!vars, StreamOf

(* The two outcomes of a flush that succeeds, as seen from the sink: the     *)
(* bytes of the stream are where the buffer is now.                          *)
LEMMA RefFlush ==
    ASSUME IInv, Flush
    PROVE  Abstract!Publish \/ UNCHANGED Abstract!vars
<1>0. isOpen = TRUE /\ size \in Nat /\ mode \in Mode
  BY DEF Flush, IInv, TypeOK
<1>1. ASSUME isOpen' = TRUE, mode' = mode, size' = size, pos' = pos,
             usize' = FlushedSize(size), StreamOf(buf, size)' = StreamOf(buf, size)
      PROVE  Abstract!Publish \/ UNCHANGED Abstract!vars
  <2>1. Len(StreamOf(buf, size)) = size
    BY <1>0, StreamLen
  <2>2. CASE mode = "both"
    BY <1>0, <1>1, <2>1, <2>2 DEF Abstract!Publish, FlushedSize
  <2>3. CASE mode # "both"
    BY <1>0, <1>1, <2>3 DEF Abstract!vars
  <2> QED
    BY <2>2, <2>3
<1>2. CASE FlushFails
  BY <1>2, RefFlushFails
<1>3. CASE alloc = size /\ usize' = FlushedSize(size)
           /\ UNCHANGED <<mode, ubuf, heap, inst, err>>
  BY <1>0, <1>1, <1>3 DEF heap, inst, StreamOf
<1>4. ASSUME alloc # size,
             NEW r \in Realloc(buf, size), size = 0 \/ r.ptr # NoBuf,
             buf' = r.ptr, ubuf' = SyncBuf(r.ptr), live' = r.live, mem' = r.mem,
             alloc' = size, usize' = FlushedSize(size),
             UNCHANGED <<mode, isOpen, size, pos, err>>
      PROVE  Abstract!Publish \/ UNCHANGED Abstract!vars
  <2>1. \A i \in 1 .. size : mem'[buf'][i] = mem[buf][i]
    BY <1>0, <1>4, CutResult
  <2>2. StreamOf(buf, size)' = StreamOf(buf, size)
    BY <1>4, <2>1 DEF StreamOf
  <2> QED
    BY <1>0, <1>1, <1>4, <2>2
<1> QED
  BY <1>2, <1>3, <1>4 DEF Flush

LEMMA RefDelete == ASSUME IInv, Delete PROVE Abstract!Delete
<1>1. /\ isOpen = TRUE /\ isOpen' = FALSE /\ pos' = 0
      /\ mode' = mode /\ ubuf' = ubuf /\ usize' = usize
  BY DEF Delete, Gone, user, IInv, TypeOK
<1>2. CASE mode = "both"
  <2>1. mem' = mem /\ ubuf = buf /\ usize \in Nat /\ size \in Nat /\ usize <= size
    BY <1>1, <1>2 DEF Delete, KeptOnClnp, heap, IInv, TypeOK, UserView, Link
  <2>2. \A i \in 1 .. size : StreamOf(buf, size)[i] = mem[buf][i]
    BY <2>1, StreamLen
  <2>3. \A i \in 1 .. usize : StreamOf(buf, size)[i] = mem[buf][i]
    BY <2>1, <2>2
  <2>4. Abstract!Prefix(StreamOf(buf, size), usize) = [i \in 1 .. usize |-> mem[buf][i]]
    BY <2>3 DEF Abstract!Prefix
  <2>5. StreamOf(ubuf, usize)' = [i \in 1 .. usize |-> mem[buf][i]]
    BY <1>1, <2>1 DEF StreamOf
  <2> QED
    BY <1>1, <1>2, <2>4, <2>5 DEF Abstract!Delete
<1>3. CASE mode # "both"
  BY <1>1, <1>3 DEF Abstract!Delete
<1> QED
  BY <1>2, <1>3

LEMMA RefClose == ASSUME IInv, Close PROVE Abstract!Close \/ UNCHANGED Abstract!vars
<1>1. CASE FlushFails
  BY <1>1, RefFlushFails
<1>2. CASE ~FlushFails
  <2>1. PICK r \in IF alloc = size
                   THEN {[ptr |-> buf, live |-> live, mem |-> mem]}
                   ELSE Realloc(buf, size) :
          /\ alloc = size \/ size = 0 \/ r.ptr # NoBuf
          /\ ubuf' = SyncBuf(r.ptr)
          /\ live' = IF KeptOnClnp THEN r.live ELSE r.live \ {r.ptr}
          /\ mem' = IF KeptOnClnp THEN r.mem
                    ELSE [x \in Blocks |-> IF x = r.ptr THEN <<>> ELSE r.mem[x]]
    BY <1>2 DEF Close
  <2>2. /\ isOpen' = FALSE /\ pos' = 0 /\ mode' = mode /\ isOpen = TRUE
        /\ usize' = FlushedSize(size) /\ size \in Nat
    BY <1>2 DEF Close, Gone, IInv, TypeOK
  <2>3. CASE mode = "both"
    <3>1. ubuf' = r.ptr /\ mem' = r.mem /\ usize' = size
      BY <2>1, <2>2, <2>3 DEF SyncBuf, KeptOnClnp, FlushedSize
    <3>2. \A i \in 1 .. size : r.mem[r.ptr][i] = mem[buf][i]
      <4>1. CASE alloc = size
        BY <2>1, <4>1
      <4>2. CASE alloc # size
        <5>1. r \in Realloc(buf, size) /\ (size = 0 \/ r.ptr # NoBuf)
          BY <2>1, <4>2
        <5> QED
          BY <2>2, <4>2, <5>1, CutResult
      <4> QED
        BY <4>1, <4>2
    <3>3. StreamOf(ubuf, usize)' = StreamOf(buf, size)
      BY <3>1, <3>2 DEF StreamOf
    <3>4. Len(StreamOf(buf, size)) = size
      BY <2>2, StreamLen
    <3> QED
      BY <2>2, <2>3, <3>1, <3>3, <3>4 DEF Abstract!Close
  <2>4. CASE mode # "both"
    <3>1. Len(<<>>) = 0
      OBVIOUS
    <3> QED
      BY <2>2, <2>4, <3>1 DEF Abstract!Close
  <2> QED
    BY <2>3, <2>4
<1> QED
  BY <1>1, <1>2

LEMMA RefTake == ASSUME IInv, Take PROVE Abstract!Take
<1>1. /\ isOpen = FALSE /\ isOpen' = FALSE /\ usize' = 0 /\ mode' = mode /\ pos' = pos
  BY DEF Take, inst, IInv, TypeOK
<1>2. StreamOf(ubuf, usize)' = <<>>
  BY <1>1 DEF StreamOf
<1> QED
  BY <1>1, <1>2 DEF Abstract!Take

(* Every call of the native sink does to the buffer, whether it moves,      *)
(* grows, is cut or stays, what the call does to the stream of bytes: puts  *)
(* overwrite from the position, a flush publishes all, a deletion keeps     *)
(* what was published (lib/fmt/natv/snk.c, lib/strm/snk/inst.c).            *)
THEOREM NatvSnkImplementsByteSnk == Spec => ImplementsByteSnk
<1>1. IInv /\ [Next]_vars => [Abstract!Next]_Abstract!vars
  <2> SUFFICES ASSUME IInv, [Next]_vars PROVE [Abstract!Next]_Abstract!vars
    OBVIOUS
  <2>1. CASE New
    BY <2>1, RefNew DEF Abstract!Next
  <2>2. CASE Flush
    BY <2>2, RefFlush DEF Abstract!Next
  <2>3. CASE Delete
    BY <2>3, RefDelete DEF Abstract!Next
  <2>4. CASE Close
    BY <2>4, RefClose DEF Abstract!Next
  <2>5. CASE Take
    BY <2>5, RefTake DEF Abstract!Next
  <2>6. ASSUME NEW it \in Items, PutFits(it) PROVE Abstract!Next
    BY <2>6, RefPutFits DEF Abstract!Next
  <2>7. ASSUME NEW it \in Items, PutGrows(it) PROVE [Abstract!Next]_Abstract!vars
    BY <2>7, RefPutGrows DEF Abstract!Next
  <2>8. CASE UNCHANGED vars
    BY <2>8 DEF vars, user, heap, inst, Abstract!vars, StreamOf
  <2> QED
    BY <2>1, <2>2, <2>3, <2>4, <2>5, <2>6, <2>7, <2>8 DEF Next
<1> QED
  BY <1>1, RefInit, InvHolds, PTL DEF Spec, ImplementsByteSnk, Abstract!Spec
==============================================================================
