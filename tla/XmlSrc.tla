------------------------------- MODULE XmlSrc -------------------------------
(***************************************************************************)
(* The XML source (lib/fmt/xml/src.c and lib/fmt/xml/src/): walks a parsed *)
(* document, in calls that return one item each.  The walk is at an        *)
(* element, cur, or, when cur is NULL, at the end of the contents of the   *)
(* element prnt.  Every turn of the loops of hidrd_xml_src_get() is a step.*)
(***************************************************************************)
EXTENDS XmlTree, Integers

CONSTANTS
    Documents,  \* the documents that may be opened, their root a descriptor
    Bad,        \* a value that does not convert
    MayFail     \* an allocation may fail

(* What the parser builds: every node but the root is among the contents of *)
(* its parent, once, and after it in the numbering; a usage that converts   *)
(* is a page and an ID.                                                     *)
IsDocument(d) ==
    /\ Len(d) \in Nat /\ DOMAIN d = 1 .. Len(d)
    /\ 1 \in DOMAIN d
    /\ d[1].name = "descriptor" /\ d[1].up = 0
    /\ \A e \in DOMAIN d :
          /\ d[e].kids \in Seq(DOMAIN d \ {1})
          /\ \A i \in DOMAIN d[e].kids : d[d[e].kids[i]].up = e
          /\ \A i, j \in DOMAIN d[e].kids : i # j => d[e].kids[i] # d[e].kids[j]
          /\ d[e].name = "usage" /\ d[e].val # Bad => d[e].val = <<d[e].val[1], d[e].val[2]>>
    /\ \A e \in DOMAIN d \ {1} : d[e].up \in 1 .. e - 1 /\ e \in ToSet(d[d[e].up].kids)

(* What the schema keeps out of a document: a descriptor inside another.    *)
Conforming == \A d \in Documents : \A e \in DOMAIN d \ {1} : d[e].name # "descriptor"

ASSUME DocumentAssumption == \A d \in Documents : IsDocument(d)
ASSUME FailAssumption == MayFail \in BOOLEAN

VARIABLES
    doc,        \* the document
    prnt,       \* current parent element
    cur,        \* current node
    state,      \* usage page of every state of the stack, the top first
    error,      \* a call failed
    busy,       \* inside hidrd_xml_src_get()
    got,        \* the items returned so far
    ended       \* a call returned the end of the stream

srcVars == <<doc, prnt, cur, state, error, busy, got, ended>>
walk == <<prnt, cur, state>>

Null == 0
Document == -1      \* the node above the root element

page == Head(state)

------------------------------------------------------------------------------
(* The node after e in the contents of its parent.                          *)
NextOf(e) ==
    LET sibs == IF e = 1 THEN <<1>> ELSE doc[doc[e].up].kids
        at == CHOOSE i \in DOMAIN sibs : sibs[i] = e
    IN  IF at < Len(sibs) THEN sibs[at + 1] ELSE Null
ParentOf(e) == IF e = 1 THEN Document ELSE doc[e].up
FirstOf(e) == IF doc[e].kids = <<>> THEN Null ELSE Head(doc[e].kids)

SimpleNames == {"collection", "end_collection", "push", "pop", "delimiter",
                "usage_page", "usage", "main", "other", "generic"}

(* parse_bitmap_element(): the bits are known, and come in rising order.    *)
BitsParse(e) ==
    LET bits == Elements(doc, e)
    IN  /\ \A i \in DOMAIN bits : doc[bits[i]].name = "bit"
        /\ \A i, j \in DOMAIN bits : i < j => doc[bits[i]].val[1] < doc[bits[j]].val[1]

Parses(e) == /\ doc[e].name \in SimpleNames \cup GroupNames
             /\ doc[e].val # Bad
             /\ doc[e].name = "main" => BitsParse(e)

(* USAGE_ELEMENT: the page in effect is left out of the usage.              *)
UsageItemBare(u) == Item("usage", <<0, u[2]>>)
UsageItem(u) == Item("usage", IF page # 0 /\ u[1] = page THEN <<0, u[2]>> ELSE u)

SimpleItem(e) == IF doc[e].name = "usage" THEN UsageItem(doc[e].val)
                 ELSE ItemOf(doc[e], BitsOf(doc, e))

(* The state stack after the start, or the simple element, e; and after the *)
(* end of the group g.  A generic element leaves it alone, also one that    *)
(* makes a USAGE_PAGE, PUSH or POP.                                         *)
Pop(ps) == IF Len(ps) > 1 THEN Tail(ps) ELSE ps
StateAfter(e) ==
    CASE doc[e].name = "usage_page" -> <<doc[e].val[1]>> \o Tail(state)
      [] doc[e].name \in {"push", "PUSH"} -> <<page>> \o state
      [] doc[e].name = "pop" -> Pop(state)
      [] OTHER -> state
StateAfterEndKeeps(g) == state
StateAfterEnd(g) == IF doc[g].name = "PUSH" THEN Pop(state) ELSE state

------------------------------------------------------------------------------
(* hidrd_xml_src_init() with the document parsed.                           *)
Opened(d) ==
    /\ doc = d
    /\ prnt = Null
    /\ cur = 1
    /\ state = <<0>>
    /\ error = FALSE
    /\ busy = FALSE
    /\ got = <<>>
    /\ ended = FALSE

SrcInit == \E d \in Documents : Opened(d)

Get ==
    /\ ~busy
    /\ busy' = TRUE
    /\ UNCHANGED <<doc, walk, error, got, ended>>

Return(item) ==
    /\ got' = Append(got, item)
    /\ busy' = FALSE
    /\ UNCHANGED <<doc, error, ended>>

Stop ==
    /\ busy' = FALSE
    /\ ended' = TRUE
    /\ UNCHANGED <<doc, walk, error, got>>

(* xml_src_element_exit(): the end of an element that is entered.           *)
AtEnd == busy /\ cur = Null

ExitGroup ==
    /\ AtEnd
    /\ prnt \in DOMAIN doc
    /\ doc[prnt].name \in GroupNames
    /\ state' = StateAfterEnd(prnt)
    /\ cur' = NextOf(prnt)
    /\ prnt' = ParentOf(prnt)
    /\ Return(EndItem(doc[prnt]))

ExitDescriptorLeaves ==
    /\ AtEnd
    /\ prnt \in DOMAIN doc
    /\ doc[prnt].name = "descriptor"
    /\ prnt' = ParentOf(prnt)
    /\ busy' = FALSE
    /\ ended' = TRUE
    /\ UNCHANGED <<doc, cur, state, error, got>>
ExitDescriptor ==
    /\ AtEnd
    /\ prnt \in DOMAIN doc
    /\ doc[prnt].name = "descriptor"
    /\ Stop

(* Nodes that are no elements are passed over.                              *)
AtNode == busy /\ cur # Null
SkipTextStays ==
    /\ AtNode
    /\ doc[cur].name = "text"
    /\ cur' = IF NextOf(cur) = Null THEN cur ELSE NextOf(cur)
    /\ UNCHANGED <<doc, prnt, state, error, busy, got, ended>>
SkipText ==
    /\ AtNode
    /\ doc[cur].name = "text"
    /\ cur' = NextOf(cur)
    /\ UNCHANGED <<doc, prnt, state, error, busy, got, ended>>

(* xml_src_element(): a descriptor is entered, and returns nothing.         *)
EnterDescriptor ==
    /\ AtNode
    /\ doc[cur].name = "descriptor"
    /\ prnt' = cur
    /\ cur' = FirstOf(cur)
    /\ UNCHANGED <<doc, state, error, busy, got, ended>>

EnterGroup ==
    /\ AtNode
    /\ doc[cur].name \in GroupNames
    /\ Parses(cur)
    /\ state' = StateAfter(cur)
    /\ prnt' = cur
    /\ cur' = FirstOf(cur)
    /\ Return(StartItem(doc[cur]))

ReadElement ==
    /\ AtNode
    /\ doc[cur].name \in SimpleNames
    /\ Parses(cur)
    /\ state' = StateAfter(cur)
    /\ cur' = NextOf(cur)
    /\ UNCHANGED prnt
    /\ Return(SimpleItem(cur))

(* An element that is unknown, or does not parse, or does for want of       *)
(* memory: the call fails and the walk stays where it is.                   *)
FailElementMoves ==
    /\ AtNode
    /\ doc[cur].name \notin {"text", "descriptor"}
    /\ MayFail \/ ~Parses(cur)
    /\ error' = TRUE
    /\ busy' = FALSE
    /\ cur' = NextOf(cur)
    /\ UNCHANGED <<doc, prnt, state, got, ended>>
FailElement ==
    /\ AtNode
    /\ doc[cur].name \notin {"text", "descriptor"}
    /\ MayFail \/ ~Parses(cur)
    /\ error' = TRUE
    /\ busy' = FALSE
    /\ UNCHANGED <<doc, walk, got, ended>>

Step == \/ ExitGroup \/ ExitDescriptor \/ SkipText \/ EnterDescriptor
        \/ EnterGroup \/ ReadElement \/ FailElement

SrcNext == Get \/ Step

(* A call runs until it returns; the user need not call.                    *)
SrcSpec == SrcInit /\ [][SrcNext]_srcVars /\ WF_srcVars(Step)

------------------------------------------------------------------------------
(* The walk never leaves the document, also when it is asked for more after *)
(* the end: it is at an element, with the parent to come back to, or at the *)
(* end of one.  The comment in hidrd_xml_src_get() says that it does not go *)
(* above the root element, and hidrd_src_get() asserts that it is in there. *)
StaysInside ==
    /\ prnt # Document
    /\ IF cur = Null THEN prnt # Null ELSE prnt = doc[cur].up

(* A document where what changes the pages are the elements named for it,   *)
(* and no generic element.                                                  *)
Tracked(d) ==
    \A e \in DOMAIN d : d[e].name = "generic" /\ d[e].val # Bad =>
        d[e].val.kind \notin {"usage_page", "push", "pop"}

(* The states the walk holds are those of the PUSHes it is inside of, and   *)
(* of the items read so far: a reader of the items has the same pages.      *)
(* After a generic USAGE_PAGE, PUSH or POP it has not.                      *)
StateFollowsItems == Tracked(doc) => state = PagesAt(got)[Len(got)]

(* Every call returns, whatever the document.                               *)
GetReturns == busy ~> ~busy

(* The items as they are to be kept: with their meaning or, where a generic *)
(* element changes the pages, all but the pages of usages.                  *)
WithoutPage(it) == IF it.kind = "usage" THEN Item("usage", <<0, it.val[2]>>) ELSE it
Pageless(its) == [i \in DOMAIN its |-> WithoutPage(its[i])]
Kept(d, its) == IF Tracked(d) THEN Meaning(its) ELSE Pageless(its)

(* The calls return the items of the document, in document order and with   *)
(* their meaning kept although the pages of usages are left out; a call     *)
(* that failed may be repeated and no item is lost.  After a generic        *)
(* USAGE_PAGE, PUSH or POP, the page left out need not be that in effect.   *)
Contents(d) == Kept(d, Items(d, {}))
AbstractSrc == INSTANCE ItemSrc WITH
    text <- Contents(doc),
    delivered <- Kept(doc, got)
ImplementsItemSrc == AbstractSrc!Spec
=============================================================================
