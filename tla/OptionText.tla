----------------------------- MODULE OptionText -----------------------------
(***************************************************************************)
(* Options as text (lib/opt): pairs of a name and a value, with an equals  *)
(* sign between them and commas between the pairs, and specifications of   *)
(* options, which are such pairs whose value is a type, a default after a  *)
(* question mark and a description after an apostrophe.                    *)
(*                                                                         *)
(* A text is a sequence of characters and of words, as in Numeral.  A      *)
(* value is a union in the code: a number, which a boolean is, or a text.  *)
(***************************************************************************)
EXTENDS Numeral

Value(num, str) == [num |-> num, str |-> str]
NoValue == Value(0, <<>>)

TknValid(tkn) == {"=", ","} \cap ToSet(tkn) = {}
NameTknValid(tkn) == TknValid(tkn) /\ tkn # <<>>
ValueTknValid(tkn) == TknValid(tkn)

(* What can be written: tokens are as the writers assert them to be, and    *)
(* space around them would be lost.                                         *)
Plain(text) == TknValid(text) /\ Trimmed(text) = text

------------------------------------------------------------------------------
(* GET_TOKEN: the token that starts after the space from a position on and  *)
(* ends before a stop character, or before the space in front of one.       *)
CutAt(text, start, end) ==
    CHOOSE i \in start .. end :
        /\ \A j \in i .. end - 1 : IsSpace(text[j])
        /\ i = start \/ ~IsSpace(text[i - 1])
TokenUncut(text, start, end) ==
    [tkn  |-> SubSeq(text, start, end - 1),
     next |-> IF end > Len(text) THEN end ELSE end + 1]
TokenBetween(text, start, end) ==
    [tkn  |-> SubSeq(text, start, CutAt(text, start, end) - 1),
     next |-> IF end > Len(text) THEN end ELSE end + 1]
TokenFrom(text, start, stops) ==
    TokenBetween(text, start, RunEnd(text, start, LAMBDA c : c \notin stops))
GetToken(text, from, stops) == TokenFrom(text, RunEnd(text, from, IsSpace), stops)

(* hidrd_opt_tkns_parse(), the set of the one pair or the empty set.        *)
ValueTkn(text, from) ==
    IF from > Len(text) THEN <<>> ELSE GetToken(text, from, {}).tkn
TknsParse(text) ==
    {t \in {[name |-> n.tkn, value |-> ValueTkn(text, n.next)] : n \in {GetToken(text, 1, {"="})}} :
        NameTknValid(t.name) /\ ValueTknValid(t.value)}

TknsFormat(t) == t.name \o <<"=">> \o t.value

(* hidrd_opt_tkns_list_format()                                             *)
TknsListFormat(list) ==
    FlattenSeq([i \in DOMAIN list |->
        TknsFormat(list[i]) \o (IF i = Len(list) THEN <<>> ELSE <<",">>)])

------------------------------------------------------------------------------
(* Values of the types string, boolean, signed and unsigned.                *)
OptTypes == {"s", "b", "S", "U"}
NumbersOf(type) ==
    CASE type = "s" -> {0}
      [] type = "b" -> {0, 1}
      [] type = "S" -> Least("s32") .. Most("s32")
      [] type = "U" -> 0 .. Most("u32")
ValueValid(type, value) ==
    /\ value = Value(value.num, value.str)
    /\ value.num \in NumbersOf(type)
    /\ IsText(value.str)
    /\ type # "s" => value.str = <<>>

TypeParseValue(type, text) ==
    CASE type = "s" -> {Value(0, text)}
      [] type = "b" -> {Value(IF b THEN 1 ELSE 0, <<>>) : b \in BoolFromStr(text)}
      [] type = "S" -> {Value(n, <<>>) : n \in FromRepr("s32", text, "dec")}
      [] type = "U" -> {Value(n, <<>>) : n \in FromRepr("u32", text, "dec")}

TypeFormatValueHex(type, value) ==
    CASE type = "s" -> value.str
      [] type = "b" -> <<IF value.num # 0 THEN "true" ELSE "false">>
      [] type = "S" -> ToRepr("s32", value.num, "hex")
      [] type = "U" -> ToRepr("u32", value.num, "hex")
TypeFormatValue(type, value) ==
    CASE type = "s" -> value.str
      [] type = "b" -> <<IF value.num # 0 THEN "true" ELSE "false">>
      [] type = "S" -> ToRepr("s32", value.num, "dec")
      [] type = "U" -> ToRepr("u32", value.num, "dec")

------------------------------------------------------------------------------
(* Options and their specifications.                                        *)
Opt(name, type, value) == [name |-> name, type |-> type, value |-> value]
OptSpec(name, type, req, dflt, desc) ==
    [name |-> name, type |-> type, req |-> req, dflt |-> dflt, desc |-> desc]

(* hidrd_opt_spec_valid(), and its default, if any, is one of its type.     *)
SpecValid(spec) ==
    /\ IsText(spec.name) /\ spec.name # <<>> /\ IsText(spec.desc)
    /\ spec.type \in OptTypes
    /\ ~spec.req => ValueValid(spec.type, spec.dflt)

(* The one with the name that comes first in a list, if any.                *)
Lkp(list, name) ==
    LET named == {i \in DOMAIN list : list[i].name = name}
    IN  IF named = {} THEN {} ELSE {list[Min(named)]}

(* hidrd_opt_list_format()                                                  *)
OptListFormat(opts) ==
    TknsListFormat([i \in DOMAIN opts |->
        [name |-> opts[i].name, value |-> TypeFormatValue(opts[i].type, opts[i].value)]])

(* hidrd_opt_spec_format_tkns()                                             *)
SpecFormatTkns(spec) ==
    [name  |-> spec.name,
     value |-> <<spec.type>>
               \o (IF spec.req THEN <<>> ELSE <<"?">> \o TypeFormatValue(spec.type, spec.dflt))
               \o (IF spec.desc = <<>> THEN <<>> ELSE <<"'">> \o spec.desc)]
SpecListFormat(specs) == TknsListFormat([i \in DOMAIN specs |-> SpecFormatTkns(specs[i])])

(* The loop of hidrd_opt_spec_parse_tkns(), from the position p on, with    *)
(* the part that starts at str: the default and the description found, the  *)
(* later of two.  After a marker the first character is not looked at, so   *)
(* that one at the end leads past it; no more markers are taken to be there. *)
IsMarker(c) == c \in {"?", "'", "end"}
NoParts == [dflt |-> {}, desc |-> {}]
NextMarker(value, p) == RunEnd(value, p, LAMBDA c : ~IsMarker(c))
Parts(value) ==
    LET from[p \in DOMAIN value] ==
            LET q == IF p = Len(value) THEN p + 1 ELSE NextMarker(value, p + 2)
                part == SubSeq(value, p + 1, q - 1)
                later == IF q > Len(value) THEN NoParts ELSE from[q]
            IN  [dflt |-> IF value[p] = "?" /\ later.dflt = {} THEN {part} ELSE later.dflt,
                 desc |-> IF value[p] # "?" /\ later.desc = {} THEN {part} ELSE later.desc]
        first == NextMarker(value, 2)
    IN  IF first > Len(value) THEN NoParts ELSE from[first]

(* A specification that can be written: its name, its description and its   *)
(* default can, which have no markers, and without a default it has none.   *)
SpecPlain(spec) ==
    /\ spec = OptSpec(spec.name, spec.type, spec.req, spec.dflt, spec.desc)
    /\ spec.req \in BOOLEAN
    /\ spec.req => spec.dflt = NoValue
    /\ Plain(spec.name)
    /\ \A text \in {spec.desc, spec.dflt.str} :
          Plain(text) /\ \A i \in DOMAIN text : ~IsMarker(text[i])

(* hidrd_opt_spec_parse_tkns(): without a default the option is required.   *)
SpecParsed(t, parts) ==
    {OptSpec(t.name, t.value[1], parts.dflt = {}, dflt,
             IF parts.desc = {} THEN <<>> ELSE CHOOSE d \in parts.desc : TRUE) :
        dflt \in IF parts.dflt = {} THEN {NoValue}
                 ELSE UNION {TypeParseValue(t.value[1], d) : d \in parts.dflt}}
SpecParseTkns(t) ==
    IF t.value = <<>> \/ t.value[1] \notin OptTypes THEN {} ELSE SpecParsed(t, Parts(t.value))
==============================================================================
