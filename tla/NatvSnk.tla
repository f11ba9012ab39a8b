------------------------------- MODULE NatvSnk -------------------------------
(***************************************************************************)
(* The native sink (lib/fmt/natv/snk.c) driven through the stream calls of *)
(* lib/strm/snk/inst.c: a growing memory buffer that items are copied to,  *)
(* which the user shares through the locations pbuf and psize given to     *)
(* hidrd_snk_new().  Memory is explicit: a set of live blocks, what their  *)
(* bytes hold, and a realloc() that may fail, move the block or extend it  *)
(* in place.                                                               *)
(*                                                                         *)
(* A byte is abstracted to where it comes from: <<it, k>> is the k-th byte *)
(* of item it, UserByte a byte the user handed over in the buffer, and     *)
(* Garbage one that was allocated and never stored.                        *)
(***************************************************************************)
EXTENDS Naturals, Sequences, FiniteSets

CONSTANTS
    Items,      \* valid items the user may put
    Size,       \* Size[it]: bytes of an item, hidrd_item_get_size()
    MaxSize,    \* HIDRD_ITEM_MAX_SIZE
    Blocks,     \* addresses malloc() can return
    NoBuf,      \* NULL
    Modes,      \* which locations the user passes: see Mode below
    MaxUser,    \* bound: bytes in the buffer the user hands over
    MaxStream   \* bound: bytes of a stream

Mode == {"both", "size", "none"}

ASSUME ItemAssumption ==
    /\ MaxSize \in Nat
    /\ Size \in [Items -> 1 .. MaxSize]
ASSUME BlockAssumption == NoBuf \notin Blocks
ASSUME ModeAssumption == Modes \subseteq Mode
ASSUME BoundAssumption == MaxUser \in Nat /\ MaxStream \in Nat

VARIABLES
    mode,       \* "both": pbuf and psize; "size": psize alone; "none"
    ubuf,       \* *pbuf
    usize,      \* *psize
    live,       \* blocks allocated and not freed
    mem,        \* mem[b]: the bytes of block b
    isOpen,     \* the user holds a sink instance
    buf, size, alloc, pos,  \* the members of hidrd_natv_snk_inst
    err         \* its last error code

user == <<mode, ubuf, usize>>
heap == <<live, mem>>
inst == <<isOpen, buf, size, alloc, pos>>
vars == <<user, heap, inst, err>>

------------------------------------------------------------------------------
UserByte == <<"user", 0>>
Garbage == <<"garbage", 0>>
Byte == {UserByte, Garbage} \cup (Items \X (1 .. MaxSize))

BytesOf(it) == [k \in 1 .. Size[it] |-> <<it, k>>]

(* realloc(b, n): the outcomes of the call.  It fails and leaves block b    *)
(* alone; or returns b itself or a fresh block, with the bytes of b kept up *)
(* to the smaller length; or, for n = 0, frees b and returns NULL.          *)
Resized(b, n) ==
    [i \in 1 .. n |-> IF b \in Blocks /\ i <= Len(mem[b])
                      THEN mem[b][i] ELSE Garbage]

MovedTo(b, nb, n) ==
    [ptr  |-> nb,
     live |-> (live \ {b}) \cup {nb},
     mem  |-> [x \in Blocks |-> IF x = nb THEN Resized(b, n)
                                ELSE IF x = b THEN <<>> ELSE mem[x]]]

Released(b) ==
    [ptr  |-> NoBuf,
     live |-> live \ {b},
     mem  |-> [x \in Blocks |-> IF x = b THEN <<>> ELSE mem[x]]]

Realloc(b, n) ==
    IF n = 0 THEN {Released(b)}
    ELSE {[ptr |-> NoBuf, live |-> live, mem |-> mem]}
         \cup {MovedTo(b, nb, n) : nb \in (Blocks \ live) \cup ({b} \cap Blocks)}

(* hidrd_natv_snk_put(): the new allocation, when the item may not fit.     *)
NewAlloc(a) == IF a < MaxSize * 2 THEN MaxSize * 4 ELSE a * 2

(* The condition to reallocate.                                             *)
FullByPosition(np, a) == pos >= a
Full(np, a) == np >= a

(* The size of the stream after an item is stored up to np.                 *)
NewSizeTruncating(s, np) == np
NewSize(s, np) == IF np > s THEN np ELSE s

(* Where the item is stored.                                                *)
StoreShort(m, b, p, it) ==
    [m EXCEPT ![b] = [i \in 1 .. Len(m[b]) |->
        IF i \in p + 1 .. p + Size[it] - 1 THEN <<it, i - p>> ELSE m[b][i]]]
Store(m, b, p, it) ==
    [m EXCEPT ![b] = [i \in 1 .. Len(m[b]) |->
        IF i \in p + 1 .. p + Size[it] THEN <<it, i - p>> ELSE m[b][i]]]

(* "Sync user's buffer pointer": what *pbuf becomes.                        *)
SyncBufForgotten(nb) == ubuf
SyncBuf(nb) == IF mode = "both" THEN nb ELSE ubuf

------------------------------------------------------------------------------
Init ==
    /\ mode \in Modes
    /\ isOpen = FALSE
    /\ buf = NoBuf /\ size = 0 /\ alloc = 0 /\ pos = 0 /\ err = "NONE"
    /\ \E n \in 0 .. MaxUser, b \in Blocks :
        IF mode = "both" /\ n > 0
        THEN /\ ubuf = b /\ usize = n /\ live = {b}
             /\ mem = [x \in Blocks |->
                           IF x = b THEN [i \in 1 .. n |-> UserByte] ELSE <<>>]
        ELSE /\ ubuf = NoBuf
             /\ usize = 0
             /\ live = {}
             /\ mem = [x \in Blocks |-> <<>>]

(* hidrd_snk_new(): hidrd_natv_snk_init() takes the user's buffer over.  A  *)
(* user that passes psize alone leaves zero there.                          *)
New ==
    /\ ~isOpen
    /\ mode = "size" => usize = 0
    /\ isOpen' = TRUE
    /\ buf' = IF mode = "both" THEN ubuf ELSE NoBuf
    /\ size' = IF mode # "none" THEN usize ELSE 0
    /\ alloc' = size'
    /\ pos' = 0
    /\ err' = "NONE"
    /\ UNCHANGED <<user, heap>>

(* hidrd_snk_put(), the item fits the allocation.                           *)
PutFits(it) ==
    /\ isOpen
    /\ pos + Size[it] <= MaxStream
    /\ ~Full(pos + Size[it], alloc)
    /\ mem' = Store(mem, buf, pos, it)
    /\ size' = NewSize(size, pos + Size[it])
    /\ pos' = pos + Size[it]
    /\ UNCHANGED <<user, live, isOpen, buf, alloc, err>>

(* hidrd_snk_put(), the buffer is reallocated, which may fail.              *)
PutGrows(it) ==
    /\ isOpen
    /\ pos + Size[it] <= MaxStream
    /\ Full(pos + Size[it], alloc)
    /\ \E r \in Realloc(buf, NewAlloc(alloc)) :
        \/ /\ r.ptr = NoBuf
           /\ err' = "ALLOC"
           /\ UNCHANGED <<user, heap, inst>>
        \/ /\ r.ptr # NoBuf
           /\ buf' = r.ptr
           /\ ubuf' = SyncBuf(r.ptr)
           /\ alloc' = NewAlloc(alloc)
           /\ live' = r.live
           /\ mem' = Store(r.mem, r.ptr, pos, it)
           /\ size' = NewSize(size, pos + Size[it])
           /\ pos' = pos + Size[it]
           /\ UNCHANGED <<mode, usize, isOpen, err>>

(* hidrd_natv_snk_flush() as a relation: the buffer is cut to the stream,   *)
(* *pbuf and *psize are set; or it fails and changes nothing but the error. *)
FlushFails ==
    /\ alloc # size
    /\ size # 0
    /\ \E r \in Realloc(buf, size) : r.ptr = NoBuf
    /\ err' = "ALLOC"
    /\ UNCHANGED <<user, heap, inst>>

FlushedSize(s) == IF mode = "none" THEN usize ELSE s

Flush ==
    /\ isOpen
    /\ \/ FlushFails
       \/ /\ alloc = size
          /\ usize' = FlushedSize(size)
          /\ UNCHANGED <<mode, ubuf, heap, inst, err>>
       \/ /\ alloc # size
          /\ \E r \in Realloc(buf, size) :
              /\ size = 0 \/ r.ptr # NoBuf
              /\ buf' = r.ptr
              /\ ubuf' = SyncBuf(r.ptr)
              /\ live' = r.live
              /\ mem' = r.mem
          /\ alloc' = size
          /\ usize' = FlushedSize(size)
          /\ UNCHANGED <<mode, isOpen, size, pos, err>>

(* hidrd_snk_delete(): hidrd_natv_snk_clnp() frees the buffer, unless it is *)
(* the user's, and the instance is freed.                                   *)
KeptOnClnpAlways == TRUE
KeptOnClnp == mode = "both"

Gone ==
    /\ isOpen' = FALSE
    /\ buf' = NoBuf /\ size' = 0 /\ alloc' = 0 /\ pos' = 0 /\ err' = "NONE"

Delete ==
    /\ isOpen
    /\ Gone
    /\ IF KeptOnClnp
       THEN UNCHANGED heap
       ELSE live' = Released(buf).live /\ mem' = Released(buf).mem
    /\ UNCHANGED user

(* hidrd_snk_close(): flush, then delete; on a failed flush the instance    *)
(* stays.                                                                   *)
Close ==
    /\ isOpen
    /\ \/ FlushFails
       \/ /\ \E r \in IF alloc = size
                      THEN {[ptr |-> buf, live |-> live, mem |-> mem]}
                      ELSE Realloc(buf, size) :
              /\ alloc = size \/ size = 0 \/ r.ptr # NoBuf
              /\ ubuf' = SyncBuf(r.ptr)
              /\ live' = IF KeptOnClnp THEN r.live ELSE r.live \ {r.ptr}
              /\ mem' = IF KeptOnClnp THEN r.mem
                        ELSE [x \in Blocks |-> IF x = r.ptr THEN <<>> ELSE r.mem[x]]
          /\ usize' = FlushedSize(size)
          /\ Gone
          /\ UNCHANGED mode

(* The user frees *pbuf between streams, and resets both locations.         *)
Take ==
    /\ ~isOpen
    /\ ubuf # NoBuf \/ usize # 0
    /\ live' = Released(ubuf).live
    /\ mem' = Released(ubuf).mem
    /\ ubuf' = NoBuf
    /\ usize' = 0
    /\ UNCHANGED <<mode, inst, err>>

Next ==
    \/ New \/ Flush \/ Delete \/ Close \/ Take
    \/ \E it \in Items : PutFits(it) \/ PutGrows(it)

Spec == Init /\ [][Next]_vars

------------------------------------------------------------------------------
TypeOK ==
    /\ mode \in Mode
    /\ ubuf \in Blocks \cup {NoBuf} /\ usize \in Nat
    /\ live \subseteq Blocks
    /\ mem \in [Blocks -> Seq(Byte)]
    /\ isOpen \in BOOLEAN
    /\ buf \in Blocks \cup {NoBuf}
    /\ size \in Nat /\ alloc \in Nat /\ pos \in Nat
    /\ err \in {"NONE", "ALLOC"}

(* What hidrd_natv_snk_valid() asserts at every call, and what memcpy() and *)
(* realloc() need: the position is in the stream, the stream in what the    *)
(* sink believes it has allocated, and that in a block it still owns.       *)
BufferSound ==
    isOpen => /\ pos <= size
              /\ size <= alloc
              /\ buf = NoBuf => alloc = 0
              /\ buf # NoBuf => buf \in live /\ alloc <= Len(mem[buf])

(* Every byte of the stream was stored by a put or handed over by the user: *)
(* the growth of the buffer never lets an uninitialized byte in.            *)
StreamStored ==
    isOpen => \A i \in 1 .. size : mem[buf][i] # Garbage

(* Whatever call failed last, the user may read *psize bytes at *pbuf and   *)
(* free *pbuf: it is a live block, the sink's own while it is open, and the *)
(* bytes counted by *psize are in it and were stored.                       *)
UserView ==
    mode = "both" =>
        /\ isOpen => ubuf = buf
        /\ ubuf = NoBuf => usize = 0
        /\ ubuf # NoBuf => /\ ubuf \in live
                           /\ usize <= Len(mem[ubuf])
                           /\ \A i \in 1 .. usize : mem[ubuf][i] # Garbage

(* No block is lost: every live one is the sink's or the user's.            *)
NoLeak == live = {ubuf, buf} \ {NoBuf}

(* The sink implements the byte stream of ByteSnk: reallocation, failures   *)
(* included, is invisible, and flush and close show the whole stream.       *)
StreamOf(b, n) == [i \in 1 .. n |-> mem[b][i]]

Abstract == INSTANCE ByteSnk WITH
    Bytes  <- BytesOf,
    Given  <- {[i \in 1 .. n |-> UserByte] : n \in 0 .. MaxUser},
    stream <- IF isOpen THEN StreamOf(buf, size)
              ELSE IF mode = "both" THEN StreamOf(ubuf, usize) ELSE <<>>,
    at     <- pos,
    shown  <- IF mode = "both" THEN usize ELSE 0,
    keeps  <- mode = "both"

ImplementsByteSnk == Abstract!Spec
==============================================================================
