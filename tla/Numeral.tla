------------------------------- MODULE Numeral -------------------------------
(***************************************************************************)
(* Numbers and bytes as text (lib/util/num.c, hex.c, bool.c, str.c and the *)
(* conversions that num.h generates for every number type).                *)
(*                                                                         *)
(* A text is a sequence of characters, or of the words of a token; letter  *)
(* case is left out, as every reader ignores it.  A byte has DigitsPerByte *)
(* hexadecimal digits: two in the code, and fewer on a small instance,     *)
(* where a number of four bytes still has all its boundaries.              *)
(*                                                                         *)
(* What a reader returns is the empty set when it fails, and the set of    *)
(* the value alone when it succeeds.                                       *)
(***************************************************************************)
EXTENDS Integers, SequencesExt, FiniteSetsExt

CONSTANT DigitsPerByte

ASSUME DigitsPerByteAssumption == DigitsPerByte \in {1, 2}

IsText(text) == text \in Seq(ToSet(text))

(* What of a sequence is in S, as SelectSeq() has it.                       *)
Among(s, S) ==
    LET kept[k \in 0 .. Len(s)] ==
            IF k = 0 THEN <<>>
            ELSE IF s[k] \in S THEN Append(kept[k - 1], s[k]) ELSE kept[k - 1]
    IN  kept[Len(s)]

ByteSize == 16 ^ DigitsPerByte
AllOnes == ByteSize ^ 4 - 1

(* The number types, their sizes in bytes and their ranges.                 *)
Bytes == [u8 |-> 1, s8 |-> 1, u16 |-> 2, s16 |-> 2, u32 |-> 4, s32 |-> 4]
Signed == {"s8", "s16", "s32"}
Least(type) == IF type \in Signed THEN -((ByteSize ^ Bytes[type]) \div 2) ELSE 0
Most(type) == Least(type) + ByteSize ^ Bytes[type] - 1
Within(type, n) == Least(type) <= n /\ n <= Most(type)

Figure == <<"0", "1", "2", "3", "4", "5", "6", "7",
            "8", "9", "A", "B", "C", "D", "E", "F">>
WeightOf == [c \in ToSet(Figure) |-> (CHOOSE i \in 1 .. 16 : Figure[i] = c) - 1]
IsFigure(c, base) == c \in {Figure[i] : i \in 1 .. base}

ValueOf(figures, base) ==
    LET value[k \in 0 .. Len(figures)] ==
            IF k = 0 THEN 0 ELSE value[k - 1] * base + WeightOf[figures[k]]
    IN  value[Len(figures)]

(* What printf() writes of a number, with at least width figures.           *)
Figures(n, base, width) ==
    LET figures[k \in 0 .. n] ==
            IF k < base THEN <<Figure[k + 1]>>
            ELSE Append(figures[k \div base], Figure[(k % base) + 1])
    IN  [i \in 1 .. Max({0, width - Len(figures[n])}) |-> "0"] \o figures[n]

At(text, i) == IF i \in DOMAIN text THEN text[i] ELSE "end"

(* The first position at or after from whose character is not a C.          *)
RunEnd(text, from, IsC(_)) ==
    CHOOSE i \in from .. Len(text) + 1 :
        /\ i = Len(text) + 1 \/ ~IsC(text[i])
        /\ \A j \in from .. i - 1 : IsC(text[j])

IsSpace(c) == c = " "

(* hidrd_str_isblank()                                                      *)
Blank(text) == \A i \in DOMAIN text : IsSpace(text[i])

Trimmed(text) ==
    LET solid == {i \in DOMAIN text : ~IsSpace(text[i])}
    IN  IF solid = {} THEN <<>> ELSE SubSeq(text, Min(solid), Max(solid))

------------------------------------------------------------------------------
(* strtol() of the C library, from the position start on: the number, and   *)
(* the position after it, which is start itself when there is no number.    *)
StrtolFigures(text, start, minus, from, radix) ==
    LET to == RunEnd(text, from, LAMBDA c : IsFigure(c, radix))
    IN  IF from = to THEN [end |-> start, num |-> 0]
        ELSE [end |-> to,
              num |-> (IF minus THEN -1 ELSE 1) * ValueOf(SubSeq(text, from, to - 1), radix)]
StrtolSigned(text, start, minus, first, base) ==
    LET zero == At(text, first) = "0"
        marked == zero /\ At(text, first + 1) = "x" /\ IsFigure(At(text, first + 2), 16)
    IN  IF base \in {0, 16} /\ marked THEN StrtolFigures(text, start, minus, first + 2, 16)
        ELSE StrtolFigures(text, start, minus, first,
                           IF base # 0 THEN base ELSE IF zero THEN 8 ELSE 10)
StrtolAt(text, start, sign, base) ==
    StrtolSigned(text, start, At(text, sign) = "-",
                 IF At(text, sign) \in {"+", "-"} THEN sign + 1 ELSE sign, base)
Strtol(text, start, base) == StrtolAt(text, start, RunEnd(text, start, IsSpace), base)

(* find_exp_end_and_sfx_base(): where the number has to end, which is where *)
(* the last text ends, and its base, which a suffix tells.                  *)
FindEnd(text, mark, base) ==
    LET solid == {i \in DOMAIN text : ~IsSpace(text[i])}
        last == Max(solid)
    IN  IF solid = {} THEN {}
        ELSE IF mark # "SFX" THEN {[end |-> last + 1, base |-> base]}
        ELSE IF text[last] = "h" THEN {[end |-> last, base |-> 16]}
        ELSE IF IsFigure(text[last], 10) THEN {[end |-> last + 1, base |-> 10]}
        ELSE {}

StrtolBase(mark, found) == IF mark = "PFX" THEN 0 ELSE found.base

(* A number from the position start on that ends where it has to.           *)
Converted(text, start, mark, base) ==
    UNION {{n.num : n \in {r \in {Strtol(text, start, StrtolBase(mark, found))} :
                              r.end = found.end}} :
              found \in FindEnd(text, mark, base)}

(* The unsigned reader skips the space itself and takes no minus sign.      *)
U32FromStr(text, mark, base) ==
    {n \in Converted(text, RunEnd(text, 1, IsSpace), mark, base) :
        At(text, RunEnd(text, 1, IsSpace)) # "-" /\ n <= Most("u32")}

S32FromStr(text, mark, base) ==
    {n \in Converted(text, 1, mark, base) : Within("s32", n)}

(* The readers of shorter types check the range once more.                  *)
UFromStr(type, text, mark, base) ==
    {n \in U32FromStr(text, mark, base) : n <= Most(type)}
SFromStr(type, text, mark, base) ==
    {n \in S32FromStr(text, mark, base) : n <= Most(type) /\ n >= Least(type)}

HexWidth(n) ==
    IF n <= Most("u8") THEN DigitsPerByte
    ELSE IF n <= Most("u16") THEN 2 * DigitsPerByte ELSE 4 * DigitsPerByte

Marked(mark, figures) ==
    CASE mark = "NONE" -> figures
      [] mark = "SFX" -> Append(figures, "h")
      [] mark = "PFX" -> <<"0", "x">> \o figures

U32ToStr(n, mark, base) ==
    IF base = 10 THEN Figures(n, 10, 1)
    ELSE Marked(mark, Figures(n, 16, IF n = 0 /\ mark = "NONE" THEN 1 ELSE HexWidth(n)))

S32ToStr(n, mark, base) ==
    LET magnitude == IF n < 0 THEN -n ELSE n
    IN  (IF n < 0 THEN <<"-">> ELSE <<>>)
        \o IF base = 10 THEN Figures(magnitude, 10, 1)
           ELSE Marked(mark, Figures(magnitude, 16,
                                     IF mark = "NONE" THEN 1 ELSE HexWidth(magnitude)))

------------------------------------------------------------------------------
(* The conversions of a number type to its representations and back.        *)
Printed(type, n, mark, base) ==
    IF type \in Signed THEN S32ToStr(n, mark, base) ELSE U32ToStr(n, mark, base)
Parsed(type, text, mark, base) ==
    IF type \in Signed THEN SFromStr(type, text, mark, base)
    ELSE UFromStr(type, text, mark, base)

Mark == [dec |-> "NONE", hex |-> "NONE", phex |-> "PFX", shex |-> "SFX", pstr |-> "PFX",
         sstr |-> "SFX"]
Base == [dec |-> 10, hex |-> 16, phex |-> 16, shex |-> 16, pstr |-> 0, sstr |-> 0]

ToRepr(type, n, repr) == Printed(type, n, Mark[repr], Base[repr])
FromRepr(type, text, repr) == Parsed(type, text, Mark[repr], Base[repr])

(* hidrd_num_from_alt_str(), of what the readers return, in their order.    *)
FromAlt(results) ==
    LET good == {i \in DOMAIN results : results[i] # {}}
    IN  IF good = {} THEN {} ELSE results[Min(good)]

(* hidrd_num_to_alt_str(): a writer that has no text lets the next one try. *)
ToAlt(first, second) == IF first # {} THEN first ELSE second

(* hidrd_num_u32_to_le() and hidrd_num_u32_from_le()                        *)
ToLe(n) == [i \in 1 .. 4 |-> (n \div (ByteSize ^ (i - 1))) % ByteSize]
FromLe(b) == b[1] + ByteSize * (b[2] + ByteSize * (b[3] + ByteSize * b[4]))

------------------------------------------------------------------------------
(* hidrd_hex_buf_from_str(): the first digit of a byte is its highest one,  *)
(* and an incomplete last byte is filled up with zeroes.  The bytes in      *)
(* excess of size make it fail.                                             *)
HexBufFromStr(text, size) ==
    LET figures == Among(text, {c \in ToSet(text) : ~IsSpace(c)})
        count == (Len(figures) + DigitsPerByte - 1) \div DigitsPerByte
        Weight(i) == IF i \in DOMAIN figures THEN WeightOf[figures[i]] ELSE 0
    IN  IF (\E i \in DOMAIN figures : ~IsFigure(figures[i], 16)) \/ count > size
        THEN {}
        ELSE {[b \in 1 .. count |->
                  IF DigitsPerByte = 1 THEN Weight(b)
                  ELSE 16 * Weight(2 * b - 1) + Weight(2 * b)]}

HexBufToStr(bytes) ==
    FlattenSeq([i \in DOMAIN bytes |-> Figures(bytes[i], 16, DigitsPerByte)])
HexBufToSstr(bytes) == Append(HexBufToStr(bytes), "h")

(* hidrd_str_find_tkn(): the only word of a text.                           *)
FindTkn(text) ==
    {t \in {Trimmed(text)} :
        t # <<>> /\ \A i \in DOMAIN t : t[i] \notin {" ", "+", "-", ","}}

(* hidrd_bool_from_str(): such a word, or figures that are not all zeroes.  *)
Yes == {<<"true">>, <<"yes">>, <<"on">>}
No == {<<"false">>, <<"no">>, <<"off">>}
(* A plausible mistake: only words are taken.                               *)
BoolFromStrWords(text) == {(t \in Yes) : t \in FindTkn(text) \cap (Yes \cup No)}
BoolFromStr(text) ==
    {(t \in Yes \/ (t \notin No /\ \E i \in DOMAIN t : t[i] # "0")) :
        t \in {k \in FindTkn(text) :
                  k \in Yes \cup No \/ \A i \in DOMAIN k : IsFigure(k[i], 10)}}
==============================================================================
