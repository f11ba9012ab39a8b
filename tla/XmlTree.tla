------------------------------- MODULE XmlTree -------------------------------
(***************************************************************************)
(* The XML documents the XML stream formats build and read, and the        *)
(* libxml2 calls they are built with.  A document is a sequence of nodes;  *)
(* a node is known by its index, 0 is NULL and 1 the root element.  A node *)
(* that was freed keeps its index, detached from the document.             *)
(*                                                                         *)
(* An element's name is its tag, and val the numbers of its item: an        *)
(* attribute or the text, already converted.  ns says that the element is  *)
(* in the namespace of the schema.  A node named "text" is no element.  One *)
(* named "generic" (short, main, global, local or basic) gives the type and *)
(* the tag of its item, whichever that is: its val is the item.             *)
(***************************************************************************)
EXTENDS ItemMeaning, SequencesExt

Node(name, val, up) ==
    [name |-> name, val |-> val, ns |-> TRUE, up |-> up, kids |-> <<>>]

RootOnly == <<Node("descriptor", <<>>, 0)>>

(* The elements that are groups, with the simple elements for their ends.   *)
GroupNames == {"COLLECTION", "PUSH", "SET"}

StartName(g) == CASE g = "COLLECTION" -> "collection"
                  [] g = "PUSH"       -> "push"
                  [] g = "SET"        -> "delimiter"
StartVal(g, val) == IF g = "SET" THEN <<1>> ELSE val

EndName(g) == CASE g = "COLLECTION" -> "end_collection"
                [] g = "PUSH"       -> "pop"
                [] g = "SET"        -> "delimiter"
EndVal(g) == IF g = "SET" THEN <<0>> ELSE <<>>

(* A new last child of p.                                                   *)
AddNode(t, p, node) ==
    Append([t EXCEPT ![p].kids = Append(@, Len(t) + 1)], node)

(* xmlNewChild(): the element takes the namespace of its parent.            *)
AddChild(t, p, name, val) ==
    AddNode(t, p, [Node(name, val, p) EXCEPT !.ns = t[p].ns])

(* create_end(), called with no namespace, and xmlAddChild().               *)
AddEnd(t, p, g) ==
    AddNode(t, p, [Node(EndName(g), EndVal(g), p) EXCEPT !.ns = FALSE])

(* The elements from e up to the root.                                      *)
PathUp(t, e) ==
    LET path[x \in 0 .. Len(t)] == IF x = 0 THEN <<>> ELSE <<x>> \o path[t[x].up]
    IN  path[e]

(* xml_snk_element_break() with no end element requested: a start element   *)
(* takes the place of e, followed by what e contained.                      *)
Replaced(t, e, contents, contentsUp) ==
    LET p == t[e].up
        start == Len(t) + 1
        at == CHOOSE i \in DOMAIN t[p].kids : t[p].kids[i] = e
    IN  Append([i \in DOMAIN t |->
            IF i = p THEN [t[i] EXCEPT !.kids =
                               SubSeq(@, 1, at - 1) \o <<start>> \o contents
                               \o SubSeq(@, at + 1, Len(@))]
            ELSE IF i = e THEN Node("freed", <<>>, 0)
            ELSE IF t[i].up = e THEN [t[i] EXCEPT !.up = contentsUp]
            ELSE t[i]],
            [Node(StartName(t[e].name), StartVal(t[e].name, t[e].val), p)
                EXCEPT !.ns = t[e].ns])

BreakKeepsUp(t, e) == Replaced(t, e, t[e].kids, e)
BreakReverses(t, e) == Replaced(t, e, Reverse(t[e].kids), t[e].up)
Break(t, e) == Replaced(t, e, t[e].kids, t[e].up)

(* xml_snk_element_break_branch(): what it breaks, and the result.          *)
Branch(t, parent, e) ==
    LET path == PathUp(t, e)
    IN  SubSeq(path, 1, (CHOOSE i \in DOMAIN path : path[i] = parent) - 1)
BreakAll(t, es) ==
    LET broken[n \in 0 .. Len(es)] == IF n = 0 THEN t ELSE Break(broken[n - 1], es[n])
    IN  broken[Len(es)]

(* Where it fails for lack of memory: between two groups, or with the start *)
(* element of a group that has attributes made without them, right after    *)
(* the group, still whole.  A group that is open is the last child of its   *)
(* parent, so that right after it is at the end.                            *)
StartAdded(t, e) ==
    AddNode(t, t[e].up,
            [Node(StartName(t[e].name), <<>>, t[e].up) EXCEPT !.ns = t[e].ns])
BrokenPartly(t, es) ==
    LET Done == 0 .. Len(es) - 1
        Broken(n) == BreakAll(t, SubSeq(es, 1, n))
    IN  {Broken(n) : n \in Done}
        \cup {StartAdded(Broken(n), es[n + 1]) :
                 n \in {m \in Done : Broken(m)[es[m + 1]].name = "COLLECTION"}}

------------------------------------------------------------------------------
(* The items a document stands for, in document order: a group is its start *)
(* item, the items inside and its end item.                                 *)
ItemOf(n, bits) ==
    CASE n.name = "collection" -> Item("collection", n.val)
      [] n.name = "end_collection" -> Item("end_collection", <<>>)
      [] n.name \in {"push", "pop"} -> Item(n.name, <<>>)
      [] n.name = "delimiter" -> Item(IF n.val = <<1>> THEN "open" ELSE "close", <<>>)
      [] n.name = "main" -> Item("main", bits)
      [] n.name = "generic" -> n.val
      [] OTHER -> Item(n.name, n.val)

StartItem(n) ==
    CASE n.name = "COLLECTION" -> Item("collection", n.val)
      [] n.name = "PUSH" -> Item("push", <<>>)
      [] n.name = "SET" -> Item("open", <<>>)

EndItem(n) ==
    CASE n.name = "COLLECTION" -> Item("end_collection", <<>>)
      [] n.name = "PUSH" -> Item("pop", <<>>)
      [] n.name = "SET" -> Item("close", <<>>)

Elements(t, e) == SelectSeq(t[e].kids, LAMBDA k : t[k].name # "text")

(* What comes of each child of e, one after the other.                      *)
Joined(parts, n) ==
    LET upTo[i \in 0 .. n] == IF i = 0 THEN <<>> ELSE upTo[i - 1] \o parts[i]
    IN  upTo[n]
OfKids(t, e, parts) ==
    Joined([i \in DOMAIN t[e].kids |-> parts[t[e].kids[i]]], Len(t[e].kids))

BitsOf(t, e) ==
    OfKids(t, e, [k \in DOMAIN t |-> IF t[k].name = "text" THEN <<>> ELSE t[k].val])

(* A group that is still open, one of those in open, has no end item yet.   *)
NodeItems(t, open, e, inside) ==
    IF t[e].name = "text" THEN <<>>
    ELSE IF t[e].name \notin GroupNames THEN <<ItemOf(t[e], BitsOf(t, e))>>
    ELSE <<StartItem(t[e])>> \o inside
         \o (IF e \in open THEN <<>> ELSE <<EndItem(t[e])>>)

Items(t, open) ==
    LET inside[e \in DOMAIN t] ==
            OfKids(t, e, [k \in DOMAIN t |-> NodeItems(t, open, k, inside[k])])
    IN  inside[1]
==============================================================================
