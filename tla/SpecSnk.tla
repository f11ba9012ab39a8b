------------------------------ MODULE SpecSnk ------------------------------
(***************************************************************************)
(* The specification example sink (lib/fmt/spec/) and the code sink        *)
(* (lib/fmt/code/snk.c), which is one with its own way of writing.  A put  *)
(* appends an entry to a list, with the nesting depth of the item and a    *)
(* text that depends on the usage page in effect; a flush lays the entries *)
(* out in a text table.                                                    *)
(*                                                                         *)
(* A text of the table is a record: what it is, how far it is indented,    *)
(* the item that the text tells, and whether a comma follows.              *)
(***************************************************************************)
EXTENDS TextTable, ItemMeaning, FiniteSets

CONSTANTS
    Alphabet,   \* the items the user puts
    Types,      \* the types of sink, of "spec" and "code"
    MaxPuts,    \* bound: puts
    MaxFlushes, \* bound: flushes
    NoOutput    \* the user's buffer when there is none

ASSUME BoundAssumption == MaxPuts \in Nat /\ MaxFlushes \in Nat
ASSUME TypeAssumption == Types \subseteq {"spec", "code"}
ASSUME AlphabetAssumption ==
    \A it \in Alphabet :
        /\ it = Item(it.kind, it.val)
        /\ it.kind = "usage" => it.val = <<it.val[1], it.val[2]>>

VARIABLES
    opts,       \* the sink's type and options
    list,       \* the entries
    depth,      \* current nesting depth
    state,      \* usage page of every state of the stack, the top first
    out,        \* the lines in the user's buffer
    isOpen,     \* the user holds the sink
    failed,     \* a put failed
    flushes     \* the number of flushes

vars == <<opts, list, depth, state, out, isOpen, failed, flushes>>

page == Head(state)

------------------------------------------------------------------------------
(* spec_snk_item_usage(): the text of a usage of the page in effect leaves  *)
(* the page out.                                                            *)
UsageTextBare(u) == <<0, u[2]>>
UsageText(u) ==
    LET full == IF u[1] = 0 THEN <<page, u[2]>> ELSE u
    IN  IF full[1] = page THEN <<0, full[2]>> ELSE full
TextOf(it) == IF it.kind = "usage" THEN Item("usage", UsageText(it.val)) ELSE it

(* Only usages and usage pages get a comment, a description.                *)
Entry(it, d) ==
    [depth |-> d, item |-> it, text |-> TextOf(it), described |-> it.kind \in {"usage", "usage_page"}]

StateAfterPopIgnored(it) ==
    CASE it.kind = "usage_page" -> <<it.val[1]>> \o Tail(state)
      [] it.kind = "push" -> <<page>> \o state
      [] OTHER -> state
StateAfter(it) ==
    CASE it.kind = "usage_page" -> <<it.val[1]>> \o Tail(state)
      [] it.kind = "push" -> <<page>> \o state
      [] it.kind = "pop" /\ Len(state) > 1 -> Tail(state)
      [] OTHER -> state

(* The depth of an item's entry, and after it.                              *)
EntryDepthLate(it) == depth
EntryDepth(it) == IF it.kind = "end_collection" THEN depth - 1 ELSE depth
DepthAfter(it) == EntryDepth(it) + (IF it.kind = "collection" THEN 1 ELSE 0)

------------------------------------------------------------------------------
(* The layout.  Columns of the specification example: code, dump, comment.  *)
CodeCol == 0
DumpCol == 1
CmntCol == 2

Text(what, indent, it, comma) ==
    [what |-> what, indent |-> indent, item |-> it, comma |-> comma]
Mark(what) == Text(what, 0, Item("mark", <<>>), FALSE)

(* The texts that may come: a usage is told as put, or without its page.    *)
ItemsToTell ==
    Alphabet \cup {Item("usage", <<0, it.val[2]>>) : it \in {x \in Alphabet : x.kind = "usage"}}
             \cup {Item("mark", <<>>)}
TextsToTell ==
    [what : {"item", "dump", "description", "bytes", "begin", "end"},
     indent : {d * tabstop : d \in 0 .. MaxPuts, tabstop \in Tabstops},
     item : ItemsToTell, comma : BOOLEAN]
ASSUME LayoutAssumption ==
    NoText \notin TextsToTell /\ \A text \in TextsToTell : TextLen(text) \in Nat

MinDepth == Min({list[l].depth : l \in DOMAIN list})
Indent(l) == (list[l].depth - MinDepth) * opts.tabstop
NotLastEarly(l) == l + 1 # Len(list)
NotLast(l) == l # Len(list)

SetAll(t, col, texts) ==
    LET set[l \in 0 .. Len(list)] ==
            IF l = 0 THEN t
            ELSE IF l \in DOMAIN texts THEN SetCell(set[l - 1], col, l - 1, texts[l])
            ELSE set[l - 1]
    IN  set[Len(list)]

(* hidrd_spec_snk_ent_list_to_tbl().                                        *)
ToTable ==
    LET code == SetAll(NewTable, CodeCol,
                       [l \in DOMAIN list |->
                          Text("item", Indent(l), list[l].text, NotLast(l))])
        dump == SetAll(code, DumpCol,
                       [l \in IF opts.dumps THEN DOMAIN list ELSE {} |->
                          Text("dump", 0, list[l].item, FALSE)])
    IN  SetAll(dump, CmntCol,
               [l \in {n \in DOMAIN list : opts.described /\ list[n].described} |->
                  Mark("description")])

(* hidrd_code_snk_flush(): the bytes, and the example in a comment.         *)
CodeTable ==
    LET ended == SetAll(ToTable, CmntCol + 1, [l \in DOMAIN list |-> Mark("end")])
        begun == SetAll(InsCols(ended, 0, 1), 0, [l \in DOMAIN list |-> Mark("begin")])
    IN  SetAll(IF opts.comments THEN InsCols(begun, 0, 1) ELSE NewTable, 0,
               [l \in DOMAIN list |->
                  Text("bytes", IF opts.indent THEN Indent(l) ELSE 0, list[l].item, NotLast(l))])

------------------------------------------------------------------------------
(* opts.described is the comments option of the specification example, and  *)
(* opts.comments that of the code, which sets the other by a third option.  *)
Init ==
    /\ opts \in [type : Types, tabstop : Tabstops, dumps : BOOLEAN, described : BOOLEAN,
                 comments : BOOLEAN, indent : BOOLEAN]
    /\ IF opts.type = "spec" THEN ~opts.comments /\ ~opts.indent ELSE ~opts.dumps
    /\ list = <<>>
    /\ depth = 0
    /\ state = <<0>>
    /\ out = NoOutput
    /\ isOpen = TRUE
    /\ failed = FALSE
    /\ flushes = 0

CanPut == isOpen /\ ~failed /\ Len(list) < MaxPuts

Put(it) ==
    /\ CanPut
    /\ list' = Append(list, Entry(it, EntryDepth(it)))
    /\ depth' = DepthAfter(it)
    /\ state' = StateAfter(it)
    /\ UNCHANGED <<opts, out, isOpen, failed, flushes>>

(* Out of memory: for the entry, with depth and state already changed, or,  *)
(* after the entry of a PUSH, for the state.                                *)
PutFails(it) ==
    /\ CanPut
    /\ depth' = EntryDepth(it)
    /\ \/ /\ state' = IF it.kind = "push" THEN state ELSE StateAfter(it)
          /\ UNCHANGED list
       \/ /\ it.kind = "push"
          /\ list' = Append(list, Entry(it, depth))
          /\ UNCHANGED state
    /\ failed' = TRUE
    /\ UNCHANGED <<opts, out, isOpen, flushes>>

(* The last output is freed first, so that a failed flush leaves none.      *)
Flush ==
    /\ isOpen /\ ~failed
    /\ flushes < MaxFlushes
    /\ \/ out' = Render(IF opts.type = "spec" THEN ToTable ELSE CodeTable, opts.tabstop)
       \/ out' = NoOutput
    /\ flushes' = flushes + 1
    /\ UNCHANGED <<opts, list, depth, state, isOpen, failed>>

Delete ==
    /\ isOpen
    /\ isOpen' = FALSE
    /\ list' = <<>>
    /\ state' = <<0>>
    /\ UNCHANGED <<opts, depth, out, failed, flushes>>

Next == Flush \/ Delete \/ \E it \in Alphabet : Put(it) \/ PutFails(it)

Spec == Init /\ [][Next]_vars

------------------------------------------------------------------------------
(* The text of a kind on every line of the output.                          *)
Shown(what) ==
    [k \in DOMAIN out |-> out[k][CHOOSE i \in DOMAIN out[k] : out[k][i].text.what = what].text]
ItemsOf(texts) == [k \in DOMAIN texts |-> texts[k].item]
Told == IF opts.type = "spec" THEN "item" ELSE "bytes"
Listing == Shown(Told)

(* Every line has its item first and once, and all but the last a comma     *)
(* after it; in code, a comment opens after the item, tells one itself, and *)
(* closes at the end of the line.                                           *)
LinesWellFormed ==
    out # NoOutput =>
        \A k \in DOMAIN out :
            LET texts == [i \in DOMAIN out[k] |-> out[k][i].text]
                At(whats) == {i \in DOMAIN texts : texts[i].what \in whats}
            IN  /\ At({Told}) = {1}
                /\ texts[1].comma = (k # Len(out))
                /\ opts.comments => /\ texts[2].what = "begin"
                                    /\ texts[3].what = "item"
                                    /\ Last(texts).what = "end"
                                    /\ At({"begin", "end"}) = {2, Len(texts)}
                                    /\ At({"item"}) = {3}

(* The comment beside the bytes of an item tells the same item, the usage   *)
(* page that its text leaves out included, whichever rows and columns were  *)
(* inserted around it.                                                      *)
CommentTellsItem ==
    out # NoOutput /\ opts.comments =>
        Meaning(ItemsOf(Shown("item"))) = Meaning(ItemsOf(Shown("bytes")))

(* The indentation shows the nesting: a collection and its end stand at the *)
(* same offset and what is between further in, also when ends come without  *)
(* a collection before; and something stands at the margin.                 *)
Opens(its, i, k) == Cardinality({n \in i .. k : its[n].kind = "collection"})
Closes(its, i, k) == Cardinality({n \in i .. k : its[n].kind = "end_collection"})
Matches(its, i, j) ==
    /\ Opens(its, i, j) = Closes(its, i, j)
    /\ \A k \in i .. j - 1 : Opens(its, i, k) > Closes(its, i, k)
NestingShown ==
    out # NoOutput /\ out # <<>> /\ (opts.type = "code" => opts.indent) =>
        LET listing == Listing
            its == ItemsOf(listing)
            at == [k \in DOMAIN listing |-> listing[k].indent]
        IN  /\ Min({at[k] : k \in DOMAIN at}) = 0
            /\ \A i \in DOMAIN its, j \in DOMAIN its :
                 i < j /\ Matches(its, i, j) =>
                     /\ at[i] = at[j]
                     /\ \A k \in i + 1 .. j - 1 : at[k] >= at[i] + opts.tabstop

(* The output tells the items put.                                          *)
Alive == isOpen /\ ~failed
Abstract == INSTANCE ItemSnk WITH
    alive <- Alive,
    log   <- IF Alive THEN Meaning([l \in DOMAIN list |-> list[l].text]) ELSE <<>>,
    pages <- IF Alive THEN state ELSE <<0>>,
    out   <- IF out = NoOutput THEN NoOutput ELSE Meaning(ItemsOf(Listing))
ImplementsItemSnk == Abstract!Spec
=============================================================================
