------------------------------- MODULE HexSnk -------------------------------
(***************************************************************************)
(* The hexadecimal sink (lib/fmt/hex/snk.c): writes every byte of an item  *)
(* as a space and two digits into a dynamic buffer, and ends a line after  *)
(* width bytes.  A flush gives the user a copy, with the last line ended.  *)
(***************************************************************************)
EXTENDS HexText, ItemMeaning, DynBuf

CONSTANTS
    Puttable,   \* the items the user puts, as bytes
    Widths,     \* the widths, 0 for a single line
    MaxPuts,    \* bound: puts
    MaxFlushes, \* bound: flushes
    NoOutput    \* the user's buffer, never written

(* What is put is an item and valid, as hidrd_snk_put() asserts.            *)
ASSUME PuttableAssumption ==
    \A item \in Puttable :
        item \in Seq(Byte) /\ Fits(item) /\ ItemSize(item) = Len(item) /\ ItemValid(item)
ASSUME OutputAssumption == NoOutput \notin Seq(Chars)
ASSUME WidthsAssumption == Widths \subseteq Nat
ASSUME BoundAssumption == MaxPuts \in Nat /\ MaxFlushes \in Nat

VARIABLES
    width,      \* the number of bytes on a line
    buf,        \* the dynamic buffer with the text written so far
    bytes,      \* the bytes written, if width # 0
    out,        \* the text in the user's buffer
    isOpen,     \* the user holds the sink
    failed,     \* a put failed
    puts,       \* the number of puts
    flushes     \* the number of flushes

vars == <<width, buf, bytes, out, isOpen, failed, puts, flushes>>

Init ==
    /\ width \in Widths
    /\ buf = Empty
    /\ bytes = 0
    /\ out = NoOutput
    /\ isOpen = TRUE
    /\ failed = FALSE
    /\ puts = 0
    /\ flushes = 0

(* After a failed put the user gives up, as hidrd-convert does.            *)
CanCall == isOpen /\ ~failed

(* What an item adds to the buffer: each byte, and a line break after one   *)
(* that fills the line.                                                     *)
Digits2Glued(b) == AddPrintf(<<b \div 16, b % 16>>)
Digits2(b) == AddPrintf(<<Space, b \div 16, b % 16>>)
LineBreak == AddPtr(<<Newline>>)
BreakAfter(n) == width # 0 /\ n % width = 0
AdditionsFrom(item, start) ==
    FlattenSeq([i \in DOMAIN item |->
        <<Digits2(item[i])>> \o (IF BreakAfter(start + i) THEN <<LineBreak>> ELSE <<>>)])
AdditionsByItem(item) == AdditionsFrom(item, 0)
Additions(item) == AdditionsFrom(item, bytes)
AllAdded(additions) ==
    LET after[k \in 0 .. Len(additions)] ==
            IF k = 0 THEN buf ELSE Added(after[k - 1], additions[k])
    IN  after[Len(additions)]
CountAfter(additions) ==
    IF width = 0 THEN bytes
    ELSE bytes + Cardinality({i \in DOMAIN additions : additions[i] # LineBreak})

Put(item) ==
    /\ CanCall
    /\ puts < MaxPuts
    /\ buf' = AllAdded(Additions(item))
    /\ bytes' = CountAfter(Additions(item))
    /\ puts' = puts + 1
    /\ UNCHANGED <<width, out, isOpen, failed, flushes>>

(* No memory for one of the additions: the ones before it stay.             *)
PutFails(item) ==
    /\ CanCall
    /\ puts < MaxPuts
    /\ \E k \in DOMAIN Additions(item) :
          LET before == SubSeq(Additions(item), 1, k - 1)
          IN  /\ NeedsMemory(AllAdded(before), Additions(item)[k])
              /\ buf' = AllAdded(before)
              /\ bytes' = CountAfter(before)
    /\ failed' = TRUE
    /\ puts' = puts + 1
    /\ UNCHANGED <<width, out, isOpen, flushes>>

(* The newline that ends the last line is taken back when it is copied, but *)
(* the memory it needed stays.                                              *)
LastEnds == ~BreakAfter(bytes)
Ended == IF LastEnds THEN Added(buf, AddSpan(Newline, 1)) ELSE buf
AfterFlush == [Ended EXCEPT !.text = buf.text]

Flush ==
    /\ CanCall
    /\ flushes < MaxFlushes
    /\ out' = Ended.text
    /\ buf' = AfterFlush
    /\ flushes' = flushes + 1
    /\ UNCHANGED <<width, bytes, isOpen, failed, puts>>

(* No memory for the newline, or for the copy.                              *)
FlushFails ==
    /\ CanCall
    /\ flushes < MaxFlushes
    /\ \/ /\ LastEnds /\ NeedsMemory(buf, AddSpan(Newline, 1))
          /\ UNCHANGED buf
       \/ /\ Ended.text # <<>>
          /\ buf' = AfterFlush
    /\ flushes' = flushes + 1
    /\ UNCHANGED <<width, bytes, out, isOpen, failed, puts>>

(* hidrd_snk_delete(): the cleanup resets the buffer.                       *)
Delete ==
    /\ isOpen
    /\ isOpen' = FALSE
    /\ buf' = Empty
    /\ bytes' = 0
    /\ UNCHANGED <<width, out, failed, puts, flushes>>

Next == Flush \/ FlushFails \/ Delete \/ \E item \in Puttable : Put(item) \/ PutFails(item)

Spec == Init /\ [][Next]_vars

------------------------------------------------------------------------------
(* The lines the user gets are width bytes long, but the last one may be    *)
(* shorter, and every one is ended, wherever items begin and flushes come.  *)
LinesFull ==
    out # NoOutput /\ width # 0 =>
        LET lines == LineLengths(out)
        IN  /\ Last(lines) = 0
            /\ \A i \in 1 .. Len(lines) - 1 :
                   /\ i < Len(lines) - 1 => lines[i] = width
                   /\ lines[i] \in 1 .. width

(* Nothing is written past the memory of the buffer, the terminator of      *)
(* printf() included, wherever the buffer grows or a flush took its newline *)
(* back.                                                                    *)
BufferHolds == ~buf.spilled /\ BufLen(buf) <= buf.size

(* What is put is what the text stands for, and a flush delivers all of it. *)
AsItems(is) == [i \in DOMAIN is |-> Item("other", is[i])]
AsOutput(t) == IF t = NoOutput THEN NoOutput ELSE AsItems(ItemsOf(t))
Abstract == INSTANCE ItemSnk WITH
    Alphabet <- {Item("other", item) : item \in Puttable},
    alive <- isOpen /\ ~failed,
    log <- IF isOpen /\ ~failed THEN AsItems(ItemsOf(buf.text)) ELSE <<>>,
    pages <- <<0>>,
    out <- AsOutput(out)
ImplementsItemSnk == Abstract!Spec
=============================================================================
