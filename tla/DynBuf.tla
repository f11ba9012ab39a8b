------------------------------- MODULE DynBuf -------------------------------
(***************************************************************************)
(* The dynamic buffer (lib/util/buf.c) that the text formats write into:   *)
(* its contents and the size of its memory.  An addition first lets the    *)
(* memory grow, by half and as often as it takes, which may fail, and then *)
(* writes behind the contents.                                             *)
(***************************************************************************)
EXTENDS SequencesExt, FiniteSetsExt, Integers

CONSTANT MinSize    \* the size of the first memory, HIDRD_BUF_MIN_SIZE

(* Half of a byte is none, so a buffer of one would never grow.             *)
ASSUME MinSizeAssumption == MinSize \in Nat /\ MinSize > 1

(* spilled tells that something was written past the memory.                *)
Empty == [text |-> <<>>, size |-> 0, spilled |-> FALSE]
BufLen(buf) == Len(buf.text)

(* hidrd_buf_grow()                                                         *)
Grown(size, len) ==
    LET grown[n \in Nat] == IF len > n THEN grown[n + n \div 2] ELSE n
    IN  IF len <= size THEN size
        ELSE grown[IF size = 0 THEN MinSize ELSE size + size \div 2]

(* An addition: the text, and how many bytes are written, which is one more *)
(* when printf() writes its terminator.                                     *)
Addition(text, room) == [text |-> text, room |-> room]
AddSpan(c, n) == Addition([i \in 1 .. n |-> c], n)
AddPtr(text) == Addition(text, Len(text))
AddPrintf(text) == Addition(text, Len(text) + 1)

(* What is written has to fit into the memory that the addition asked for.  *)
NeedOfText(buf, addition) == BufLen(buf) + Len(addition.text)
NeedOf(buf, addition) == BufLen(buf) + addition.room
NeedsMemory(buf, addition) == NeedOf(buf, addition) > buf.size
Added(buf, addition) ==
    LET size == Grown(buf.size, NeedOf(buf, addition))
    IN  [text |-> buf.text \o addition.text, size |-> size,
         spilled |-> buf.spilled \/ BufLen(buf) + addition.room > size]
==============================================================================
