----------------------------- MODULE XmlElement -----------------------------
(***************************************************************************)
(* The XML element of an item: how the sink writes it (lib/fmt/xml/snk),   *)
(* how the source reads it (lib/fmt/xml/src), and which elements the       *)
(* schema allows (lib/fmt/xml/hidrd.xsd.m4).  What surrounds the elements  *)
(* is in XmlSnk, XmlSrc and XmlRoundTrip: here is what is inside one.      *)
(*                                                                         *)
(* Elements are put in a document one at a time, by the sink or by hand,   *)
(* and read into the one buffer the source has.                            *)
(***************************************************************************)
EXTENDS ItemBuffer, UsageTable, UnitText

CONSTANTS
    Items(_),       \* the items the sink is given as the k-th, in buffers
    Foreign(_),     \* the elements written by hand as the k-th
    MaxElements,    \* the number of elements of a document
    Fills,          \* what a buffer that was never written may hold
    Beyond          \* the names that may lie beyond a table of units

VARIABLES
    element,    \* the element to read next, or None
    written,    \* the item it was written from, or <<>>
    edited,     \* an element by hand is in the document
    snkPage,    \* the sink's usage page
    srcPage,    \* the source's
    buf,        \* the source's item
    rc,         \* the result of the source's last call
    count       \* how many elements there were

elementVars == <<element, written, edited, snkPage, srcPage, buf, rc, count>>

NoAttr == <<>>
Node(name, attr, text, kids) == [name |-> name, attr |-> attr, text |-> text, kids |-> kids]
Empty(name) == Node(name, NoAttr, <<>>, <<>>)
WithText(name, text) == Node(name, NoAttr, text, <<>>)
None == Empty("none")
Attr(e, name) == IF name \in DOMAIN e.attr THEN {e.attr[name]} ELSE {}

(* An element as it is in a document, with those in it and those in them.   *)
IsNode(e) ==
    /\ IsText(e.text) /\ IsText(e.kids)
    /\ \A name \in DOMAIN e.attr : IsText(e.attr[name])
IsElement(e) ==
    /\ IsNode(e)
    /\ \A k \in DOMAIN e.kids :
          /\ IsNode(e.kids[k])
          /\ \A j \in DOMAIN e.kids[k].kids : IsNode(e.kids[k].kids[j])

(* The elements whose text is a number, the type it is read as, and whether *)
(* their item keeps it signed.                                              *)
SignedNames ==
    {"logical_minimum", "logical_maximum", "physical_minimum", "physical_maximum", "unit_exponent"}
UnsignedNames ==
    {"report_id", "report_size", "report_count", "designator_index", "designator_minimum",
     "designator_maximum", "string_index", "string_minimum", "string_maximum"}
NumType ==
    [n \in SignedNames \cup UnsignedNames |->
        IF n \in SignedNames THEN "s32" ELSE IF n = "report_id" THEN "u8" ELSE "u32"]
UsageNames == {"usage", "usage_minimum", "usage_maximum"}

(* The names of the bits of a main item, off and on.  The last of those     *)
(* with names but one has none in an input.                                 *)
BitNames ==
    <<<<"data", "constant">>, <<"array", "variable">>, <<"absolute", "relative">>,
      <<"no_wrap", "wrap">>, <<"linear", "non_linear">>, <<"preferred_state", "no_preferred">>,
      <<"no_null_position", "null_state">>, <<"non_volatile", "volatile">>,
      <<"bit_field", "buffered_bytes">>>>
BitNumbers ==
    <<"bit0", "bit1", "bit2", "bit3", "bit4", "bit5", "bit6", "bit7", "bit8", "bit9", "bit10",
      "bit11", "bit12", "bit13", "bit14", "bit15", "bit16", "bit17", "bit18", "bit19", "bit20",
      "bit21", "bit22", "bit23", "bit24", "bit25", "bit26", "bit27", "bit28", "bit29", "bit30",
      "bit31">>
BitNamed(name, i) == i < 9 /\ ~(name = "input" /\ i = 7)
OffName(name, i) == IF BitNamed(name, i) THEN {BitNames[i + 1][1]} ELSE {}
OnName(name, i) == IF BitNamed(name, i) THEN {BitNames[i + 1][2]} ELSE {}
BitNamesOf(name) ==
    [i \in Bits |-> OffName(name, i) \cup OnName(name, i) \cup {BitNumbers[i + 1]}]

------------------------------------------------------------------------------
(* The sink: xml_snk_item_*().                                              *)
BitElement(name, i) ==
    Empty(IF BitNamed(name, i) THEN BitNames[i + 1][2] ELSE BitNumbers[i + 1])
WriteBitmap(name, bitmap) ==
    LET on == Among([i \in 1 .. LastBit + 1 |-> i - 1], {i \in Bits : GetBit(bitmap, i)})
    IN  Node(name, NoAttr, <<>>, [k \in DOMAIN on |-> BitElement(name, on[k])])

WriteReserved(name, table, b) ==
    Node(name, [tag |-> TokenOrDec(table, PfxTag(b[1]))], HexBufToStr(ShortData(b)), <<>>)

NameOf(table, tag) == CHOOSE name \in DOMAIN table : table[name] = tag
Known(table, tag) == \E name \in DOMAIN table : table[name] = tag

WriteMain(b) ==
    LET tag == PfxTag(b[1])
    IN  CASE tag = TagOfMain.collection ->
                Node("COLLECTION", [type |-> TokenOrDec(CollectionTypes, GetUnsigned(b))],
                     <<>>, <<>>)
          [] tag \in {TagOfMain.input, TagOfMain.output, TagOfMain.feature} ->
                WriteBitmap(NameOf(TagOfMain, tag), GetUnsigned(b))
          [] ~Known(TagOfMain, tag) -> WriteReserved("main", TagOfMain, b)

(* An exponent of one is left to the reader, one of zero is left out.       *)
WriteExps(name, attr, system, unit) ==
    LET used == Among([q \in Quantities |-> q], {q \in Quantities : GetNibble(unit, q) # 0})
        Exp(q) == GetNibble(unit, q)
    IN  Node(name, attr, <<>>,
             [k \in DOMAIN used |->
                 WithText(NamesOf(system)[used[k]],
                          IF Exp(used[k]) = 1 THEN <<>> ELSE ExpToDec(Exp(used[k])))])

WriteUnit(b) ==
    LET unit == GetUnsigned(b)
        system == SystemOf(unit)
        child ==
            IF unit = 0 THEN Empty("none")
            ELSE IF UnitVoid(unit) \/ ~UnitKnown(unit)
                 THEN WithText("value", HexBufToStr(ShortData(b)))
            ELSE IF SystemKnown(system)
                 THEN WriteExps(NameOf(Systems, system), NoAttr, system, unit)
            ELSE WriteExps("generic", [system |-> TokenOrDec(Systems, system)], 0, unit)
    IN  Node("unit", NoAttr, <<>>, <<child>>)

WriteNumber(name, b) ==
    WithText(name, IF NumType[name] = "s32" THEN ToRepr("s32", GetSigned(b), "dec")
                   ELSE ToRepr("u32", GetUnsigned(b), "dec"))

WriteGlobal(b) ==
    LET tag == PfxTag(b[1])
        name == NameOf(TagOfGlobal, tag)
    IN  IF ~Known(TagOfGlobal, tag) THEN WriteReserved("global", TagOfGlobal, b)
        ELSE CASE name \in DOMAIN NumType -> WriteNumber(name, b)
               [] name = "unit" -> WriteUnit(b)
               [] name = "usage_page" -> WithText(name, PageToText(GetUnsigned(b)))
               [] name = "push" -> Empty("PUSH")

(* A usage without a page has the page in effect, and is written without    *)
(* it, unless it has a token.                                               *)
Resolved(usage, page) == IF DefinedPage(usage) THEN usage ELSE SetPage(usage, page)
WriteUsage(name, usage, page) ==
    WithText(name, IF GetPage(Resolved(usage, page)) = page
                   THEN UsageToIdText(Resolved(usage, page))
                   ELSE UsageToText(Resolved(usage, page)))

WriteLocal(b, page) ==
    LET tag == PfxTag(b[1])
        name == NameOf(TagOfLocal, tag)
    IN  IF ~Known(TagOfLocal, tag) THEN WriteReserved("local", TagOfLocal, b)
        ELSE CASE name \in DOMAIN NumType -> WriteNumber(name, b)
               [] name \in UsageNames -> WriteUsage(name, GetUnsigned(b), page)
               [] name = "delimiter" -> Empty("SET")

Write(b, page) ==
    CASE IsLong(b) -> Node("long", [tag |-> ToRepr("u32", b[3], "dec")],
                           HexBufToStr(LongData(b)), <<>>)
      [] ~IsLong(b) /\ PfxType(b[1]) = Main -> WriteMain(b)
      [] ~IsLong(b) /\ PfxType(b[1]) = Global -> WriteGlobal(b)
      [] ~IsLong(b) /\ PfxType(b[1]) = Local -> WriteLocal(b, page)

------------------------------------------------------------------------------
(* The source: ELEMENT(...), what it makes of an element in the buffer b.   *)
Error(b, page) == [rc |-> "error", buf |-> b, page |-> page]
Item(b, page) == [rc |-> "item", buf |-> b, page |-> page]
Checked(b, page) == IF ItemValid(b) THEN Item(b, page) ELSE Error(b, page)
(* An item made from the one value there is, if there is one.               *)
Made(values, b, page, Make(_)) ==
    IF values = {} THEN Error(b, page) ELSE Item(Make(CHOOSE v \in values : TRUE), page)

DecAttr(e, name, type, valid) ==
    UNION {FromDec(type, text, valid) : text \in Attr(e, name)}
TokenAttr(e, name, table, valid) ==
    UNION {FromTokenOrDec(table, text, valid) : text \in Attr(e, name)}

ReadBasic(e, b, page) ==
    LET sizes == DecAttr(e, "size", "u32", ValidBytes)
        types == TokenAttr(e, "type", Types, ValidTypes)
        tags == DecAttr(e, "tag", "u32", ValidTags)
        Begun(size, type, tag) ==
            Cleared(BasicInit(b, type, tag, SizeFromBytes(size)), 2, BufferSize - 1)
        made == {Stored(Begun(size, type, tag), 2, data) :
                    size \in sizes, type \in types, tag \in tags,
                    data \in HexBufFromStr(e.text, BufferSize - 1)}
    IN  IF made = {} THEN Error(b, page) ELSE Checked(CHOOSE m \in made : TRUE, page)

(* A plausible mistake: the data is not cleared first.                      *)
ReadShortOfDirty(types, tags, e, b, page) ==
    LET made == {SetDataSize(Stored(ShortInit(b, type, tag), 2, data), SizeFromBytes(Len(data))) :
                    type \in types, tag \in tags, data \in HexBufFromStr(e.text, 4)}
    IN  IF made = {} THEN Error(b, page) ELSE Checked(CHOOSE m \in made : TRUE, page)

(* An item of a type and a tag, with the text for its data.                 *)
ReadShortOf(types, tags, e, b, page) ==
    LET made == {SetDataSize(Stored(Cleared(ShortInit(b, type, tag), 2, 4), 2, data),
                             SizeFromBytes(Len(data))) :
                    type \in types, tag \in tags, data \in HexBufFromStr(e.text, 4)}
    IN  IF made = {} THEN Error(b, page) ELSE Checked(CHOOSE m \in made : TRUE, page)

ReadShort(e, b, page) ==
    ReadShortOf(TokenAttr(e, "type", [t \in {"main", "global", "local"} |-> Types[t]], ValidShortTypes),
                DecAttr(e, "tag", "u32", ValidTags), e, b, page)
ReadMain(e, b, page) ==
    ReadShortOf({Main}, TokenAttr(e, "tag", TagOfMain, ValidMainTags), e, b, page)
ReadGlobal(e, b, page) ==
    ReadShortOf({Global}, TokenAttr(e, "tag", TagOfGlobal, ValidGlobalTags), e, b, page)
ReadLocal(e, b, page) ==
    ReadShortOf({Local}, TokenAttr(e, "tag", TagOfLocal, ValidLocalTags), e, b, page)

ReadLong(e, b, page) ==
    LET Begun(tag) == Cleared(LongInit(b, tag), 4, Most("u8"))
        made == {SetLongDataSize(Stored(Begun(tag), 4, data), Len(data)) :
                    tag \in DecAttr(e, "tag", "u8", 0 .. Most("u8")),
                    data \in HexBufFromStr(e.text, Most("u8"))}
    IN  IF made = {} THEN Error(b, page) ELSE Checked(CHOOSE m \in made : TRUE, page)

(* The children of a node in the order of the names that stand for          *)
(* 0 .. last: each child is looked for after the one before it, and has no  *)
(* place when it is not there.  What each stands for and its value are      *)
(* given to With in turn; the result is empty when a child has no place or   *)
(* no value.                                                                *)
Places(kids, last, names) ==
    LET place[k \in 0 .. Len(kids)] ==
            LET there == {i \in place[k - 1] + 1 .. last : kids[k].name \in names[i]}
            IN  IF k = 0 THEN -1 ELSE IF there = {} THEN last + 1 ELSE Min(there)
    IN  place
InOrder(kids, last, names, Value(_, _), start, With(_, _, _)) ==
    LET place == Places(kids, last, names)
        sum[k \in 0 .. Len(kids)] ==
            IF k = 0 THEN start
            ELSE With(sum[k - 1], place[k], CHOOSE v \in Value(kids[k], place[k]) : TRUE)
    IN  IF \A k \in DOMAIN kids : place[k] <= last /\ Value(kids[k], place[k]) # {}
        THEN {sum[Len(kids)]} ELSE {}

(* A bit without text is on, as its name goes.                              *)
BitValue(kid) == IF Blank(kid.text) THEN {TRUE} ELSE BoolFromStr(kid.text)
ReadBitmap(e, b, page) ==
    LET Value(kid, i) ==
            {IF kid.name \in OffName(e.name, i) THEN ~v ELSE v : v \in BitValue(kid)}
    IN  Made(InOrder(e.kids, LastBit, BitNamesOf(e.name), Value, 0, SetBit), b, page,
             LAMBDA bitmap : InitUnsigned(b, Main, TagOfMain[e.name], bitmap))

(* The search for a name goes on for one entry after the table; what is     *)
(* found there is the exponent in the reserved half-byte.                   *)
ExpNames(names, beyond) ==
    [i \in 0 .. Len(names) |-> IF i = Len(names) THEN {beyond} ELSE {names[i + 1]}]
ReadExps(e, names, beyond) ==
    LET Value(kid, i) == IF Blank(kid.text) THEN {1} ELSE ExpFromDec(kid.text)
    IN  InOrder(e.kids, Len(names), ExpNames(names, beyond), Value, 0,
                LAMBDA unit, i, exp : SetNibble(unit, i + 1, exp))

UnitsOf(e, beyond) ==
    CASE e.name = "none" -> {0}
      [] e.name = "value" -> {FromLe(Padded(data)) : data \in HexBufFromStr(e.text, 4)}
      [] e.name = "generic" ->
             {SetNibble(unit, 0, system) :
                 unit \in ReadExps(e, NamesOf(0), beyond),
                 system \in TokenAttr(e, "system", Systems, ValidSystems)}
      [] e.name \in DOMAIN Systems \ {"none", "vendor"} ->
             {SetNibble(unit, 0, Systems[e.name]) :
                 unit \in ReadExps(e, NamesOf(Systems[e.name]), beyond)}
      [] OTHER -> {}

(* One child, the only one.                                                 *)
ReadUnit(e, b, page, beyond) ==
    Made(IF Len(e.kids) = 1 THEN UnitsOf(e.kids[1], beyond) ELSE {}, b, page,
         LAMBDA unit : InitUnsigned(b, Global, TagOfGlobal.unit, unit))

ReadNumber(e, b, page) ==
    LET type == IF e.name \in DOMAIN TagOfGlobal THEN Global ELSE Local
        tag == IF type = Global THEN TagOfGlobal[e.name] ELSE TagOfLocal[e.name]
    IN  Made(FromRepr(NumType[e.name], e.text, "dec"), b, page,
             LAMBDA n : IF NumType[e.name] = "s32" THEN InitSigned(b, type, tag, n)
                        ELSE InitUnsigned(b, type, tag, n))

(* The page of a usage that is the one in effect is left out of the item.   *)
Stripped(usage, page) ==
    IF page # Undefined /\ GetPage(usage) = page THEN SetPage(usage, Undefined) ELSE usage
ReadUsage(e, b, page) ==
    Made(UsageFromText(e.text), b, page,
         LAMBDA usage : InitUnsigned(b, Local, TagOfLocal[e.name], Stripped(usage, page)))

ReadUsagePage(e, b, page) ==
    LET pages == PageFromText(e.text)
        new == CHOOSE p \in pages : TRUE
    IN  IF pages = {} THEN Error(b, page)
        ELSE Item(InitUnsigned(b, Global, TagOfGlobal.usage_page, new), new)

ReadCollection(e, b, page) ==
    Made(TokenAttr(e, "type", CollectionTypes, ValidCollectionTypes), b, page,
         LAMBDA type : InitUnsigned(b, Main, TagOfMain.collection, type))
ReadDelimiter(e, b, page) ==
    Made(UNION {BoolFromStr(text) : text \in Attr(e, "open")}, b, page,
         LAMBDA open : InitUnsigned(b, Local, TagOfLocal.delimiter, IF open THEN 1 ELSE 0))

(* handler_list; pop, and what leaves a group or the document, is in XmlSrc. *)
Read(e, b, page, beyond) ==
    CASE e.name = "basic" -> ReadBasic(e, b, page)
      [] e.name = "short" -> ReadShort(e, b, page)
      [] e.name = "main" -> ReadMain(e, b, page)
      [] e.name \in {"input", "output", "feature"} -> ReadBitmap(e, b, page)
      [] e.name \in {"collection", "COLLECTION"} -> ReadCollection(e, b, page)
      [] e.name = "end_collection" -> Item(ShortInit(b, Main, TagOfMain.end_collection), page)
      [] e.name = "global" -> ReadGlobal(e, b, page)
      [] e.name = "usage_page" -> ReadUsagePage(e, b, page)
      [] e.name \in DOMAIN NumType -> ReadNumber(e, b, page)
      [] e.name = "unit" -> ReadUnit(e, b, page, beyond)
      [] e.name \in {"push", "PUSH"} -> Item(ShortInit(b, Global, TagOfGlobal.push), page)
      [] e.name = "local" -> ReadLocal(e, b, page)
      [] e.name \in UsageNames -> ReadUsage(e, b, page)
      [] e.name = "delimiter" -> ReadDelimiter(e, b, page)
      [] e.name = "SET" -> Item(InitUnsigned(b, Local, TagOfLocal.delimiter, 1), page)
      [] e.name = "long" -> ReadLong(e, b, page)
      [] OTHER -> Error(b, page)

------------------------------------------------------------------------------
(* The items of the sink are valid ones in their buffers.  Those that end a *)
(* group, and pop, which have no element of their own, are in XmlSnk and    *)
(* XmlSrc; a type of collection beyond a byte, which the sink writes as it   *)
(* is, is not allowed by the schema.                                        *)
IsItem(b) ==
    /\ b \in [1 .. BufferSize -> Nat] /\ b[1] <= 255
    /\ \A i \in 2 .. BufferSize : b[i] <= Most("u8")
    /\ ItemValid(b)
    /\ ~IsLong(b) =>
          /\ PfxType(b[1]) = Main =>
                /\ PfxTag(b[1]) # TagOfMain.end_collection
                /\ PfxTag(b[1]) = TagOfMain.collection => GetUnsigned(b) <= Most("u8")
          /\ PfxType(b[1]) = Global => PfxTag(b[1]) # TagOfGlobal.pop

(* The table has its pages and identifiers in range, and finds every usage  *)
(* by its token.                                                            *)
IsTable(pages) ==
    /\ IsText(pages)
    /\ \A p \in DOMAIN pages :
          /\ pages[p].page \in 0 .. Most("u16") /\ IsText(pages[p].token) /\ IsText(pages[p].ids)
          /\ \A d \in DOMAIN pages[p].ids :
                /\ pages[p].ids[d].id \in 0 .. Most("u16")
                /\ IsText(pages[p].ids[d].token)
                /\ UsageFromToken(pages[p].token \o pages[p].ids[d].token) # {}

ASSUME ItemsAssumption == \A k \in 1 .. MaxElements : \A b \in Items(k) : IsItem(b)
ASSUME ForeignAssumption ==
    \A k \in 1 .. MaxElements : \A e \in Foreign(k) : IsElement(e) /\ e.name # "pop"
ASSUME TableAssumption == IsTable(Pages)
ASSUME MaxElementsAssumption == MaxElements \in Nat

Unwritten == {[i \in 1 .. BufferSize |-> fill] : fill \in Fills}

ElementInit ==
    /\ element = None /\ written = <<>> /\ edited = FALSE
    /\ snkPage = Undefined /\ srcPage = Undefined
    /\ buf \in Unwritten
    /\ rc = "none"
    /\ count = 0

PageAfter(b, page) ==
    IF ~IsLong(b) /\ PfxType(b[1]) = Global /\ PfxTag(b[1]) = TagOfGlobal.usage_page
    THEN GetUnsigned(b) ELSE page

Put ==
    /\ element = None /\ count < MaxElements
    /\ \E b \in Items(count + 1) :
         /\ element' = Write(b, PageAfter(b, snkPage))
         /\ written' = b
         /\ snkPage' = PageAfter(b, snkPage)
    /\ count' = count + 1
    /\ UNCHANGED <<edited, srcPage, buf, rc>>

Edit ==
    /\ element = None /\ count < MaxElements
    /\ element' \in Foreign(count + 1)
    /\ written' = <<>>
    /\ edited' = TRUE
    /\ count' = count + 1
    /\ UNCHANGED <<snkPage, srcPage, buf, rc>>

(* An element that is not read stays the next one, and may leave anything   *)
(* in the buffer.                                                           *)
Returns(result) ==
    /\ rc' = result.rc
    /\ IF result.rc = "item" THEN buf' = result.buf ELSE buf' \in Unwritten
    /\ srcPage' = result.page
    /\ element' = IF result.rc = "item" THEN None ELSE element
Get ==
    /\ element # None
    /\ \E beyond \in Beyond : Returns(Read(element, buf, srcPage, beyond))
    /\ UNCHANGED <<written, edited, snkPage, count>>

ElementNext == Put \/ Edit \/ Get
ElementSpec == ElementInit /\ [][ElementNext]_elementVars
==============================================================================
