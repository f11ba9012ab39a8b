---------------------------- MODULE ElementSchema ----------------------------
(***************************************************************************)
(* The elements that the schema allows (lib/fmt/xml/hidrd.xsd.m4), and     *)
(* what it and the two readers of the format owe each other.               *)
(*                                                                         *)
(* The validator of the XML library applies it, and fills in no defaults:  *)
(* an element with a default is allowed to be empty, and stays so.         *)
(***************************************************************************)
EXTENDS XmlElement

(* Lexical forms: an integer in a range, a boolean, bytes, one of some words. *)
Integers(figures) ==
    {ValueOf(f, 10) : f \in {g \in {figures} : g # <<>> /\ \A i \in DOMAIN g : IsFigure(g[i], 10)}}
IntText(text, least, most) ==
    \E t \in {Trimmed(text)} :
       \/ \E n \in Integers(t) \cup (IF At(t, 1) = "+" THEN Integers(Tail(t)) ELSE {}) :
             least <= n /\ n <= most
       \/ At(t, 1) = "-" /\ \E n \in Integers(Tail(t)) : least <= -n /\ -n <= most
BoolText(text) == Trimmed(text) \in {<<"true">>, <<"false">>, <<"1">>, <<"0">>}
BytesText(text, most) ==
    LET t == Trimmed(text)
    IN  /\ \A i \in DOMAIN t : IsFigure(t[i], 16)
        /\ Len(t) % DigitsPerByte = 0
        /\ Len(t) <= most * DigitsPerByte
WordText(text, words) == \E w \in words : text = <<w>>
HexText(text, most) ==
    Len(text) \in 1 .. most /\ \A i \in DOMAIN text : IsFigure(text[i], 16)

Bare(e) == e.text = <<>> /\ e.kids = <<>>
OnlyText(e) == DOMAIN e.attr = {} /\ e.kids = <<>>
EmptyType(e) == DOMAIN e.attr = {} /\ Bare(e)

(* A sequence of optional elements, the i-th one of names[i].               *)
Sequence(kids, names, Allowed(_)) ==
    /\ \A k \in DOMAIN kids :
         /\ \E i \in DOMAIN names : kids[k].name \in names[i]
         /\ OnlyText(kids[k]) /\ (kids[k].text = <<>> \/ Allowed(kids[k].text))
    /\ \A j, k \in DOMAIN kids : j < k =>
         \A i, i2 \in DOMAIN names :
            kids[j].name \in names[i] /\ kids[k].name \in names[i2] => i < i2

TypeText(text, words) ==
    WordText(text, words) \/ IntText(text, 0, Cardinality({Types[w] : w \in words}) - 1)
TagText(text, words) == WordText(text, words) \/ IntText(text, 0, 15)

BasicAllowed(e) ==
    /\ DOMAIN e.attr = {"type", "size", "tag"} /\ e.kids = <<>>
    /\ TypeText(e.attr.type, {"main", "global", "local", "reserved"})
    /\ \E size \in {0, 1, 2, 4} : IntText(e.attr.size, size, size)
    /\ TagText(e.attr.tag, {})
    /\ BytesText(e.text, Most("u8") + 2)
ShortAllowed(e) ==
    /\ DOMAIN e.attr = {"type", "tag"} /\ e.kids = <<>>
    /\ TypeText(e.attr.type, {"main", "global", "local"})
    /\ TagText(e.attr.tag, {})
    /\ BytesText(e.text, 4)
TaggedAllowed(e, words) ==
    /\ DOMAIN e.attr = {"tag"} /\ e.kids = <<>>
    /\ TagText(e.attr.tag, words)
    /\ BytesText(e.text, 4)
MainAllowed(e) == TaggedAllowed(e, DOMAIN TagOfMain)
GlobalAllowed(e) == TaggedAllowed(e, DOMAIN TagOfGlobal)
LocalAllowed(e) == TaggedAllowed(e, DOMAIN TagOfLocal \ {"invalid"})
LongAllowed(e) ==
    /\ DOMAIN e.attr = {"tag"} /\ e.kids = <<>>
    /\ IntText(e.attr.tag, 0, Most("u8"))
    /\ BytesText(e.text, Most("u8"))

BitmapAllowed(e) ==
    /\ DOMAIN e.attr = {} /\ e.text = <<>>
    /\ Sequence(e.kids, BitNamesOf(e.name), BoolText)

CollectionAllowed(e) ==
    /\ DOMAIN e.attr = {"type"} /\ Bare(e)
    /\ \/ WordText(e.attr.type, DOMAIN CollectionTypes)
       \/ IntText(e.attr.type, 0, Most("u8"))
DelimiterAllowed(e) == DOMAIN e.attr = {"open"} /\ BoolText(e.attr.open) /\ Bare(e)

NumberAllowed(e) ==
    /\ OnlyText(e)
    /\ IntText(e.text, IF e.name = "report_id" THEN 1 ELSE Least(NumType[e.name]),
               Most(NumType[e.name]))

PageAllowed(e) ==
    OnlyText(e) /\ (HexText(e.text, 2 * DigitsPerByte) \/ PageFromToken(e.text) # {})
UsageAllowed(e) ==
    /\ OnlyText(e)
    /\ \/ HexText(e.text, 4 * DigitsPerByte)
       \/ \E p \in DOMAIN Pages : \E d \in DOMAIN Pages[p].ids :
             e.text = Pages[p].token \o Pages[p].ids[d].token

Exponents(e, system) ==
    /\ e.text = <<>>
    /\ Sequence(e.kids, [i \in 0 .. Len(NamesOf(system)) - 1 |-> {NamesOf(system)[i + 1]}],
                LAMBDA text : IntText(text, -8, 7))
UnitChildAllowed(e) ==
    CASE e.name = "none" -> EmptyType(e)
      [] e.name = "value" -> OnlyText(e) /\ BytesText(e.text, 4)
      [] e.name = "generic" ->
             /\ DOMAIN e.attr = {"system"} /\ Exponents(e, 0)
             /\ WordText(e.attr.system, DOMAIN Systems) \/ IntText(e.attr.system, 0, 15)
      [] e.name \in DOMAIN Systems \ {"none", "vendor"} ->
             DOMAIN e.attr = {} /\ Exponents(e, Systems[e.name])
      [] OTHER -> FALSE
UnitAllowed(e) ==
    /\ DOMAIN e.attr = {} /\ e.text = <<>>
    /\ Len(e.kids) <= 1 /\ \A k \in DOMAIN e.kids : UnitChildAllowed(e.kids[k])

(* The elements of a descriptor.                                            *)
SchemaAllows(e) ==
    CASE e.name = "basic" -> BasicAllowed(e)
      [] e.name = "short" -> ShortAllowed(e)
      [] e.name = "main" -> MainAllowed(e)
      [] e.name = "global" -> GlobalAllowed(e)
      [] e.name = "local" -> LocalAllowed(e)
      [] e.name = "long" -> LongAllowed(e)
      [] e.name \in {"input", "output", "feature"} -> BitmapAllowed(e)
      [] e.name \in {"collection", "COLLECTION"} -> CollectionAllowed(e)
      [] e.name = "delimiter" -> DelimiterAllowed(e)
      [] e.name \in {"end_collection", "push", "pop", "PUSH", "SET"} -> EmptyType(e)
      [] e.name \in DOMAIN NumType -> NumberAllowed(e)
      [] e.name = "usage_page" -> PageAllowed(e)
      [] e.name \in UsageNames -> UsageAllowed(e)
      [] e.name = "unit" -> UnitAllowed(e)
      [] OTHER -> FALSE

------------------------------------------------------------------------------
(* What an item means, where the page of a usage may be left out.           *)
Meaning(b, page) ==
    LET type == PfxType(b[1])
        tag == PfxTag(b[1])
        Is(class, table, names) == type = class /\ \E name \in names : table[name] = tag
    IN  CASE IsLong(b) -> <<"long", b[3], LongData(b)>>
          [] ~IsLong(b) /\ Is(Global, TagOfGlobal, {n \in DOMAIN NumType : NumType[n] = "s32"}
                                                    \cap DOMAIN TagOfGlobal) ->
                 <<type, tag, GetSigned(b)>>
          [] ~IsLong(b) /\ Is(Local, TagOfLocal, UsageNames) ->
                 <<type, tag, Resolved(GetUnsigned(b), page)>>
          [] OTHER -> <<type, tag, GetUnsigned(b)>>

(* A step of the source on an element that it makes an item of.             *)
Reads == element # None /\ element' = None /\ rc' = "item"

(* An item that the sink writes and the source reads back means the same,   *)
(* in the same usage page, whatever size it was stored in.                  *)
ReadBack ==
    [][element # None /\ written # <<>> /\ ~edited =>
          /\ Reads
          /\ srcPage' = snkPage
          /\ Meaning(buf', srcPage') = Meaning(written, snkPage)]_elementVars

(* The schema allows whatever the sink writes.                              *)
WrittenAllowed == element # None /\ written # <<>> => SchemaAllows(element)

(* The kinds of elements that are short items, and those of them that are   *)
(* given the tag of the long ones.                                          *)
ShortKinds == {"short", "main", "global", "local"}
LongByTag(e) ==
    e.name \in ShortKinds /\ \E text \in Attr(e, "tag") : IntText(text, LongTag, LongTag)

(* The bytes that the text of an element gives, and the short items whose   *)
(* text gives three, which the schema allows and no size stands for.        *)
DataOf(e) == HexBufFromStr(e.text, 4)
ThreeBytes(e) == e.name \in ShortKinds /\ \E data \in DataOf(e) : Len(data) = 3

(* The exponents of a unit are in the table of their system, in its order   *)
(* and at most once each.                                                   *)
InTable(e) ==
    e.name = "unit" => \A k \in DOMAIN e.kids :
        LET system == e.kids[k].name
            table == NamesOf(IF system = "generic" THEN 0 ELSE Systems[system])
            names == [j \in DOMAIN e.kids[k].kids |-> e.kids[k].kids[j].name]
        IN  system \in (DOMAIN Systems \ {"none", "vendor"}) \cup {"generic"} =>
                names = Among(table, ToSet(names))

(* An element that the schema allows makes a valid item.  Any element, the  *)
(* schema allowing it or not, makes the same item whatever was in the       *)
(* buffer and whatever lies beyond the tables, unless it is a short one     *)
(* with the tag of long ones or a unit with an exponent that is not in the  *)
(* rest of its table; and a short item has the bytes of the text for its    *)
(* data, unless they are three or it has the tag of long ones.              *)
ItemsSound ==
    [][Reads =>
          /\ SchemaAllows(element) => ItemValid(buf')
          /\ ~LongByTag(element) /\ InTable(element) => \A blank \in Unwritten, beyond \in Beyond :
                LET again == Read(element, blank, srcPage, beyond)
                IN  again.rc = "item" /\ ItemOf(again.buf) = ItemOf(buf')
          /\ element.name \in ShortKinds /\ ~LongByTag(element) /\ ~ThreeBytes(element) =>
                ShortData(buf') \in DataOf(element)]_elementVars

(* The elements that the schema allows and the source refuses all the same: *)
(* a unit without a child; a zero with a minus sign where the number is read *)
(* as unsigned; and elements of the generic kinds, whose tag and data the   *)
(* schema does not relate.                                                  *)
MinusZero(text) == At(Trimmed(text), 1) = "-" /\ IntText(text, 0, 0)
Refused(e) ==
    \/ e.name = "unit" /\ e.kids = <<>>
    \/ e.name \in DOMAIN NumType /\ NumType[e.name] # "s32" /\ MinusZero(e.text)
    \/ \E a \in DOMAIN e.attr : MinusZero(e.attr[a])
    \/ \E k \in DOMAIN e.kids : \E a \in DOMAIN e.kids[k].attr : MinusZero(e.kids[k].attr[a])
    \/ e.name \in {"basic", "short", "main", "global", "local"}
OnlyThoseRefused == rc = "error" /\ SchemaAllows(element) => Refused(element)

(* What the handlers of the short items make is a short item: so says the   *)
(* assertion of hidrd_item_short_get_data(), which all of them call.        *)
ShortStaysShort ==
    element.name \in ShortKinds => \A beyond \in Beyond :
        LET made == Read(element, buf, srcPage, beyond)
        IN  made.rc = "item" => ~IsLong(made.buf)
==============================================================================
