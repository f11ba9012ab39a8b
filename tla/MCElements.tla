----------------------------- MODULE MCElements -----------------------------
(* Items: every kind of item that has an element of its own, in the sizes   *)
(* that its value may be stored in, after one that leaves a page or data.   *)
(* Foreign elements: what a person may write, allowed by the schema or not. *)
EXTENDS ElementSchema

Desc(id, token) == [id |-> id, token |-> token]
MCPages ==
    <<[page |-> 0, token |-> <<"undefined">>, ids |-> <<Desc(0, <<"undefined">>)>>],
      [page |-> 1, token |-> <<"desktop">>, ids |-> <<Desc(2, <<"mouse">>), Desc(48, <<"x">>)>>],
      [page |-> 7, token |-> <<"keyboard">>, ids |-> <<Desc(0, <<"none">>), Desc(4, <<"a">>)>>],
      [page |-> 9, token |-> <<"button">>, ids |-> <<>>],
      [page |-> 128, token |-> <<"monitor">>, ids |-> <<>>],
      [page |-> 129, token |-> <<"monitor", "enum">>, ids |-> <<>>]>>

Blank0 == [i \in 1 .. BufferSize |-> 0]
Short(type, tag, data) ==
    SetDataSize(Stored(ShortInit(Blank0, type, tag), 2, data), SizeFromBytes(Len(data)))
Long(tag, data) == SetLongDataSize(Stored(LongInit(Blank0, tag), 4, data), Len(data))
Of(table) == {table[name] : name \in DOMAIN table}

Data ==
    {<<>>, <<0>>, <<1>>, <<7>>, <<8>>, <<15>>, <<8, 0>>, <<0, 8>>, <<15, 7>>, <<15, 15>>,
     <<5, 0, 0, 0>>, <<0, 8, 0, 0>>, <<0, 0, 0, 8>>, <<15, 15, 15, 7>>, <<15, 15, 15, 15>>, <<0, 0, 1, 0>>}
Units == {Short(Global, TagOfGlobal.unit, <<system, first, second, reserved>>) :
             system \in 0 .. 15, first \in {0, 1, 8}, second \in {0, 1, 7}, reserved \in {0, 1}}
Mains == {Short(Main, tag, data) : tag \in {8, 9, 11, 13, 14}, data \in Data}
Collections == {Short(Main, TagOfMain.collection, data) :
                   data \in {<<>>, <<1>>, <<6>>, <<7, 0>>, <<15>>}}
Globals == {Short(Global, tag, data) :
               tag \in (Of(TagOfGlobal) \cup 12 .. 14) \ {TagOfGlobal.push, TagOfGlobal.pop},
               data \in Data}
Locals == {Short(Local, tag, data) :
              tag \in (Of(TagOfLocal) \cup 11 .. 14) \ {TagOfLocal.invalid, TagOfLocal.delimiter},
              data \in Data}
Usages == {Short(Local, tag, <<id, 0, page, 0>>) :
              tag \in 0 .. 2, id \in {0, 2, 4}, page \in {0, 1, 5, 7}}
Longs == {Long(tag, data) : tag \in {0, 15}, data \in {<<>>, <<1>>, <<15, 0, 3>>}}

MCItems(k) ==
    IF k = 1 THEN {b \in {Short(Global, 0, data) : data \in {<<>>, <<1>>, <<7, 0>>, <<5>>, <<1, 8>>}}
                         \cup {Long(3, <<15, 15, 15, 15, 15, 15>>)} : ItemValid(b)}
    ELSE {b \in Units \cup Mains \cup Collections \cup Globals \cup Locals \cup Usages \cup Longs
                \cup {Short(Local, TagOfLocal.delimiter, <<1>>), Short(Global, TagOfGlobal.push, <<>>)} : ItemValid(b)}

------------------------------------------------------------------------------
Digits == {<<"0">>, <<"1">>, <<"9">>, <<"1", "2">>, <<"1", "4">>, <<"2", "5", "5">>, <<"-", "1">>, <<"-", "9">>,
           <<"-", "0">>, <<"+", "3">>, <<" ", "8", " ">>, <<"0", "x", "1">>, <<"6", "5", "5", "3", "6">>,
           <<"3", "2", "7", "6", "8">>, <<>>, <<"none">>}
Hex == {<<>>, <<"0">>, <<"1">>, <<"F", "F">>, <<"0", "2", "1">>, <<"1", "2", "3", "4">>,
        <<"F", "0", "1", "2", "3">>, <<"-", "1">>}
Tags == {<<"0">>, <<"5">>, <<"6">>, <<"8">>, <<"1", "0">>, <<"1", "2">>, <<"1", "5">>, <<"1", "6">>,
         <<"collection">>, <<"usage_page">>, <<"usage">>, <<"delimiter">>}
Kid(name, text) == WithText(name, text)
KidPairs(names) ==
    {<<>>} \cup {<<Kid(n, text)>> : n \in names, text \in {<<>>, <<"0">>, <<"true">>, <<"-", "8">>, <<"8">>}}
           \cup {<<Kid(n, <<>>), Kid(n2, <<"0">>)>> : n \in names, n2 \in names}
Unit(kids) == Node("unit", NoAttr, <<>>, kids)

Generic ==
    {Node("basic", [type |-> type, size |-> size, tag |-> tag], text, <<>>) :
        type \in {<<"main">>, <<"reserved">>, <<"1">>}, size \in {<<"0">>, <<"2">>, <<"3">>, <<"4">>},
        tag \in {<<"8">>, <<"0">>, <<"1", "5">>}, text \in Hex}
    \cup {Node("short", [type |-> type, tag |-> tag], text, <<>>) :
        type \in {<<"main">>, <<"2">>, <<"3">>}, tag \in Tags, text \in Hex}
    \cup {Node(name, [tag |-> tag], text, <<>>) :
        name \in {"main", "global", "local"}, tag \in Tags, text \in Hex}
    \cup {Node("long", [tag |-> tag], text, <<>>) : tag \in Digits, text \in Hex}
Valued ==
    {WithText(name, text) : name \in DOMAIN NumType, text \in Digits}
    \cup {WithText(name, text) : name \in UsageNames \cup {"usage_page"},
              text \in Hex \cup {<<"desktop">>, <<"desktop", "mouse">>, <<"keyboard", "none">>,
                                 <<"button", "1">>, <<"monitor", "enum">>, <<"undefined", "undefined">>}}
    \cup {Node(name, [type |-> text], <<>>, <<>>) :
              name \in {"collection", "COLLECTION"}, text \in Digits \cup {<<"physical">>}}
    \cup {Node("delimiter", [open |-> text], <<>>, <<>>) :
              text \in {<<"0">>, <<"true">>, <<"no">>, <<"2">>, <<"maybe">>}}
    \cup {Empty(name) : name \in {"end_collection", "push", "PUSH", "SET", "unknown"}}
Nested ==
    {Node(name, NoAttr, <<>>, kids) : name \in {"input", "output"},
        kids \in KidPairs({"data", "constant", "bit0", "bit7", "volatile", "bit15", "unknown"})}
    \cup {Unit(<<>>), Unit(<<Empty("none")>>), Unit(<<Empty("none"), Empty("none")>>), Unit(<<Empty("vendor")>>)}
    \cup {Unit(<<WithText("value", text)>>) : text \in Hex}
    \cup {Unit(<<Node("generic", [system |-> system], <<>>, kids)>>) :
              system \in {<<"none">>, <<"vendor">>, <<"7">>, <<"1", "6">>, <<"-", "0">>},
              kids \in KidPairs({"length", "mass", "centimeter"})}
    \cup {Unit(<<Node("si_linear", NoAttr, <<>>, kids)>>) :
              kids \in KidPairs({"centimeter", "gram", "length"})}

MCForeign(k) ==
    IF k = 1 THEN {WithText("usage_page", <<"desktop">>), Node("long", [tag |-> <<"1">>], <<"F", "F", "F">>, <<>>)}
    ELSE Generic \cup Valued \cup Nested
=============================================================================
