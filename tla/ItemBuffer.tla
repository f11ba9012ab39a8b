----------------------------- MODULE ItemBuffer -----------------------------
(***************************************************************************)
(* An item in the buffer it is made in (include/hidrd/item, lib/item).     *)
(*                                                                         *)
(* The buffer is as long as the longest item, and an item is the bytes at  *)
(* its beginning that the prefix makes one.  Every operation changes only  *)
(* the bytes it names: the rest stay what they were, also when a longer    *)
(* size takes them into the item.  The prefix has its eight bits whatever  *)
(* the size of a byte.                                                     *)
(***************************************************************************)
EXTENDS Numeral

BufferSize == 3 + Most("u8")

(* The prefix: four bits of tag, two of type, two of size.                  *)
PfxSize(pfx) == pfx % 4
PfxType(pfx) == (pfx \div 4) % 4
PfxTag(pfx) == pfx \div 16
WithSize(pfx, size) == pfx - PfxSize(pfx) + (size % 4)
WithType(pfx, type) == pfx + 4 * (type - PfxType(pfx))
WithTag(pfx, tag) == pfx + 16 * (tag - PfxTag(pfx))

SizeToBytes(size) == IF size = 3 THEN 4 ELSE size
(* The bytes are asserted to be ValidBytes; what is here is the build       *)
(* without assertions, the default one, where three bytes get the size of   *)
(* four.                                                                    *)
SizeFromBytes(bytes) == IF bytes = 4 THEN 3 ELSE bytes
ValidBytes == {0, 1, 2, 4}

Types == [main |-> 0, global |-> 1, local |-> 2, reserved |-> 3, long |-> 3]
Main == Types.main
Global == Types.global
Local == Types.local

LongTag == 15
TagOfMain == [input |-> 8, output |-> 9, collection |-> 10, feature |-> 11, end_collection |-> 12]
TagOfGlobal ==
    [usage_page |-> 0, logical_minimum |-> 1, logical_maximum |-> 2, physical_minimum |-> 3,
     physical_maximum |-> 4, unit_exponent |-> 5, unit |-> 6, report_size |-> 7,
     report_id |-> 8, report_count |-> 9, push |-> 10, pop |-> 11]
TagOfLocal ==
    [usage |-> 0, usage_minimum |-> 1, usage_maximum |-> 2, designator_index |-> 3,
     designator_minimum |-> 4, designator_maximum |-> 5, invalid |-> 6, string_index |-> 7,
     string_minimum |-> 8, string_maximum |-> 9, delimiter |-> 10]
CollectionTypes ==
    [physical |-> 0, application |-> 1, logical |-> 2, report |-> 3, named_array |-> 4,
     usage_switch |-> 5, usage_modifier |-> 6]

(* What may be stored in each field.                                        *)
ValidTypes == 0 .. 3
ValidShortTypes == {Main, Global, Local}
ValidTags == 0 .. 15
ValidMainTags == 8 .. 15
ValidGlobalTags == 0 .. 15
ValidLocalTags == 0 .. 15 \ {TagOfLocal.invalid}
(* The type is compared as an int, of which the highest numbers are less    *)
(* than none.                                                               *)
ValidCollectionTypes == 0 .. Most("u8") \cup Most("s32") + 1 .. AllOnes
ReportIdValid(id) == id > 0 /\ id <= Most("u8")
UsagePageValid(page) == page <= Most("u16")
DelimiterValid(set) == set \in {0, 1}

------------------------------------------------------------------------------
(* Tokens of a table, which are the names of its fields.                    *)
ToToken(table, n) == {<<name>> : name \in {t \in DOMAIN table : table[t] = n}}
FromToken(table, text, valid) ==
    {table[name] : name \in {t \in DOMAIN table : <<t>> = text}} \cap valid
FromDec(type, text, valid) == FromRepr(type, text, "dec") \cap valid

(* The texts of a number: a token, or figures when it has none.             *)
TokenOrDec(table, n) ==
    CHOOSE text \in ToAlt(ToToken(table, n), {ToRepr("u32", n, "dec")}) : TRUE
FromTokenOrDec(table, text, valid) ==
    FromAlt(<<FromToken(table, text, valid), FromDec("u32", text, valid)>>)

------------------------------------------------------------------------------
Stored(b, at, bytes) ==
    [i \in DOMAIN b |-> IF i - at + 1 \in DOMAIN bytes THEN bytes[i - at + 1] ELSE b[i]]
(* memset() of count bytes.                                                 *)
Cleared(b, at, count) == Stored(b, at, [i \in 1 .. count |-> 0])

IsLong(b) == PfxTag(b[1]) = LongTag
ItemSize(b) == IF IsLong(b) THEN 3 + b[2] ELSE 1 + SizeToBytes(PfxSize(b[1]))
ItemOf(b) == SubSeq(b, 1, ItemSize(b))

BasicInit(b, type, tag, size) ==
    [b EXCEPT ![1] = WithSize(WithTag(WithType(0, type), tag), size)]
ShortInit(b, type, tag) == BasicInit(b, type, tag, 0)
SetDataSize(b, size) == [b EXCEPT ![1] = WithSize(@, size)]
LongInit(b, tag) == Stored(BasicInit(b, Types.long, LongTag, 2), 2, <<0, tag>>)
SetLongDataSize(b, size) == [b EXCEPT ![2] = size]
LongData(b) == SubSeq(b, 4, 3 + b[2])

ShortData(b) == SubSeq(b, 2, 1 + SizeToBytes(PfxSize(b[1])))
Padded(data) == [i \in 1 .. 4 |-> IF i \in DOMAIN data THEN data[i] ELSE 0]
GetUnsigned(b) == FromLe(Padded(ShortData(b)))
GetSigned(b) ==
    LET range == ByteSize ^ Len(ShortData(b))
        n == GetUnsigned(b)
    IN  IF 2 * n >= range /\ ShortData(b) # <<>> THEN n - range ELSE n

(* The number of bytes that a value is stored in.                           *)
UnsignedBytes(n) ==
    CASE n = 0 -> 0
      [] n > 0 /\ n <= Most("u8") -> 1
      [] n > Most("u8") /\ n <= Most("u16") -> 2
      [] n > Most("u16") -> 4
(* A plausible mistake: the limits are those of the unsigned types.         *)
SignedBytesUnsigned(n) ==
    CASE n = 0 -> 0
      [] n # 0 /\ Least("s8") <= n /\ n <= Most("u8") -> 1
      [] ~(Least("s8") <= n /\ n <= Most("u8")) /\ Least("s16") <= n /\ n <= Most("u16") -> 2
      [] ~(Least("s16") <= n /\ n <= Most("u16")) -> 4
SignedBytes(n) ==
    CASE n = 0 -> 0
      [] n # 0 /\ Within("s8", n) -> 1
      [] ~Within("s8", n) /\ Within("s16", n) -> 2
      [] ~Within("s16", n) -> 4

SetNumber(b, n, bytes) ==
    SetDataSize(Stored(b, 2, SubSeq(ToLe(n % (AllOnes + 1)), 1, bytes)), SizeFromBytes(bytes))
SetUnsigned(b, n) == SetNumber(b, n, UnsignedBytes(n))
SetSigned(b, n) == SetNumber(b, n, SignedBytes(n))

InitUnsigned(b, type, tag, n) == SetUnsigned(ShortInit(b, type, tag), n)
InitSigned(b, type, tag, n) == SetSigned(ShortInit(b, type, tag), n)

LastBit == 16 * DigitsPerByte - 1
Bits == 0 .. LastBit
GetBit(n, i) == (n \div (2 ^ i)) % 2 = 1
SetBit(n, i, on) ==
    n - (IF GetBit(n, i) THEN 2 ^ i ELSE 0) + (IF on THEN 2 ^ i ELSE 0)

(* hidrd_item_valid()                                                       *)
MainValid(b) ==
    /\ PfxTag(b[1]) \in ValidMainTags
    /\ PfxTag(b[1]) = TagOfMain.collection => GetUnsigned(b) \in ValidCollectionTypes
GlobalValid(b) ==
    /\ PfxTag(b[1]) \in ValidGlobalTags
    /\ PfxTag(b[1]) = TagOfGlobal.usage_page => UsagePageValid(GetUnsigned(b))
    /\ PfxTag(b[1]) = TagOfGlobal.report_id => ReportIdValid(GetUnsigned(b))
LocalValid(b) ==
    /\ PfxTag(b[1]) \in ValidLocalTags
    /\ PfxTag(b[1]) = TagOfLocal.delimiter => DelimiterValid(GetUnsigned(b))
ItemValid(b) ==
    \/ IsLong(b)
    \/ PfxType(b[1]) = Main /\ MainValid(b)
    \/ PfxType(b[1]) = Global /\ GlobalValid(b)
    \/ PfxType(b[1]) = Local /\ LocalValid(b)
==============================================================================
