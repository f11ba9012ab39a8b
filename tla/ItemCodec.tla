------------------------------ MODULE ItemCodec ------------------------------
(***************************************************************************)
(* Items as bytes (lib/item/any.c and the headers in include/hidrd/item/): *)
(* a prefix byte that holds a tag, a type and a size code, and the data.   *)
(* A tag of all ones means a long item, whatever the type and the size.    *)
(***************************************************************************)
EXTENDS Naturals, Sequences

SizeCode(pfx) == pfx % 4
TypeOf(pfx) == (pfx \div 4) % 4
TagOf(pfx) == pfx \div 16

Main == 0
Global == 1
Local == 2

IsLong(pfx) == TagOf(pfx) = 15
DataBytes(pfx) == <<0, 1, 2, 4>>[SizeCode(pfx) + 1]

(* The size of the item at the start of the bytes, when enough of it is     *)
(* there, and whether all of it is.                                         *)
ItemSize(bytes) ==
    IF IsLong(bytes[1]) THEN 3 + bytes[2] ELSE 1 + DataBytes(bytes[1])

Fits(bytes) ==
    /\ Len(bytes) >= 1
    /\ IsLong(bytes[1]) => Len(bytes) >= 3
    /\ Len(bytes) >= ItemSize(bytes)

(* The value of a short item is unsigned, the least byte first: what its    *)
(* checks tell of it is the low byte and whether the others are zero.       *)
Data(item) == Tail(item)
DataByte(item, i) == IF i <= Len(Data(item)) THEN Data(item)[i] ELSE 0
HighZero(item, from) == \A i \in from .. 4 : DataByte(item, i) = 0

TagValid(pfx) ==
    CASE TypeOf(pfx) = Main   -> TagOf(pfx) >= 8
      [] TypeOf(pfx) = Global -> TRUE
      [] TypeOf(pfx) = Local  -> TagOf(pfx) # 6
      [] OTHER                -> FALSE

(* The type of a collection is compared as an int: from 2^31 on it is       *)
(* negative.                                                                *)
CollectionTypeValid(item) == HighZero(item, 2) \/ DataByte(item, 4) >= 128
UsagePageValid(item) == HighZero(item, 3)
ReportIdValid(item) == HighZero(item, 2) /\ DataByte(item, 1) # 0
DelimiterValid(item) == HighZero(item, 2) /\ DataByte(item, 1) \in {0, 1}

ValueValid(item) ==
    LET type == TypeOf(item[1])
        tag == TagOf(item[1])
    IN  /\ type = Main /\ tag = 10 => CollectionTypeValid(item)
        /\ type = Global /\ tag = 0 => UsagePageValid(item)
        /\ type = Global /\ tag = 8 => ReportIdValid(item)
        /\ type = Local /\ tag = 10 => DelimiterValid(item)

(* hidrd_item_valid(), of an item that fits.                                *)
ItemValid(item) == IsLong(item[1]) \/ (TagValid(item[1]) /\ ValueValid(item))

------------------------------------------------------------------------------
(* The items that bytes stand for, up to what is no item, and what that is. *)
Byte == 0 .. 255
Found(items, why) == [items |-> items, why |-> why]
Cut(bytes) ==
    LET cut[rest \in Seq(Byte)] ==
            IF rest = <<>> THEN Found(<<>>, "none")
            ELSE IF ~Fits(rest) THEN Found(<<>>, "short")
            ELSE LET item == SubSeq(rest, 1, ItemSize(rest))
                     after == SubSeq(rest, ItemSize(rest) + 1, Len(rest))
                 IN  IF ~ItemValid(item) THEN Found(<<>>, "invalid")
                     ELSE [cut[after] EXCEPT !.items = <<item>> \o @]
    IN  cut[bytes]
==============================================================================
