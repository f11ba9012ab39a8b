------------------------------- MODULE XmlSnk -------------------------------
(***************************************************************************)
(* The XML sink (lib/fmt/xml/snk.c and lib/fmt/xml/snk/): puts items into  *)
(* a document.  COLLECTION, PUSH and an opening DELIMITER open a group     *)
(* element that the items that follow go into; their counterparts close    *)
(* the nearest group of their name, breaking the groups still open inside  *)
(* it into simple start elements, or become simple end elements when there *)
(* is no such group.  A flush breaks every open group.                     *)
(*                                                                         *)
(* "main" stands for INPUT, OUTPUT and FEATURE; "other" for any item that  *)
(* becomes one simple element with its value in it.                        *)
(***************************************************************************)
EXTENDS XmlTree, FiniteSets

CONSTANTS
    Alphabet,   \* the items the user puts
    Known,      \* usages <<page, id>> that have a token
    MayFail,    \* an allocation may fail
    Schema,     \* the user has the output validated
    MaxPuts,    \* bound: puts
    MaxFlushes, \* bound: flushes
    NoOutput    \* the user's buffer, never written

ASSUME FlagAssumption == {MayFail, Schema} \subseteq BOOLEAN
ASSUME BoundAssumption == MaxPuts \in Nat /\ MaxFlushes \in Nat
ASSUME AlphabetAssumption ==
    \A it \in Alphabet :
        /\ it = Item(it.kind, it.val)
        /\ it.kind = "usage" => it.val = <<it.val[1], it.val[2]>>
        /\ it.kind = "main" => it.val \in Seq(ToSet(it.val))
        /\ it.kind \in {"end_collection", "push", "pop", "open", "close"} => it.val = <<>>

VARIABLES
    tree,       \* doc: the document being built
    prnt,       \* current parent element
    cur,        \* current element, under construction
    state,      \* usage page of every state of the stack, the top first
    out,        \* the document in the user's buffer
    isOpen,     \* the user holds the sink
    failed,     \* a call failed, and left what may only be deleted
    puts,       \* the number of puts
    flushes     \* the number of flushes

vars == <<tree, prnt, cur, state, out, isOpen, failed, puts, flushes>>

page == Head(state)

------------------------------------------------------------------------------
(* xml_snk_item_usage(): the text names a usage by its token, or by its ID  *)
(* alone when its page is the one in effect, or in full.                    *)
FullUsage(u) == IF u[1] = 0 THEN <<page, u[2]>> ELSE u
UsageTextBare(u) ==
    LET full == FullUsage(u)
    IN  IF full \notin Known THEN <<0, full[2]>> ELSE full
UsageText(u) ==
    LET full == FullUsage(u)
    IN  IF full[1] = page /\ full \notin Known THEN <<0, full[2]>> ELSE full

(* xml_snk_item_short() and below: element name and value of a simple item. *)
SimpleKinds == {"usage_page", "usage", "other"}
SimpleVal(it) == IF it.kind = "usage" THEN UsageText(it.val) ELSE it.val

Groups == [collection |-> "COLLECTION", push |-> "PUSH", open |-> "SET"]
Ends == [end_collection |-> "COLLECTION", pop |-> "PUSH", close |-> "SET"]

(* The state stack after the item, set before its element is made.          *)
StateAfter(it) ==
    CASE it.kind = "usage_page" -> <<it.val[1]>> \o Tail(state)
      [] it.kind = "push" -> <<page>> \o state
      [] it.kind = "pop" /\ Len(state) > 1 -> Tail(state)
      [] OTHER -> state

(* xml_snk_group_end(): the nearest open group of the name, 0 if there is   *)
(* none.                                                                    *)
NearestGroup(g) ==
    LET path == PathUp(tree, prnt)
        named == {i \in DOMAIN path : tree[path[i]].name = g}
    IN  IF named = {} THEN 0
        ELSE path[CHOOSE i \in named : \A j \in named : i <= j]

(* xml_snk_item_main_bitmap(): the container of the bits, in rising order.  *)
WithBitsFalling(t, p, bits) ==
    FoldRight(LAMBDA b, u : AddChild(u, p, "bit", <<b>>), bits, t)
WithBits(t, p, bits) ==
    LET added[n \in 0 .. Len(bits)] ==
            IF n = 0 THEN t ELSE AddChild(added[n - 1], p, "bit", <<bits[n]>>)
    IN  added[Len(bits)]

------------------------------------------------------------------------------
Init ==
    /\ tree = RootOnly
    /\ prnt = 1
    /\ cur = 0
    /\ state = <<0>>
    /\ out = NoOutput
    /\ isOpen = TRUE
    /\ failed = FALSE
    /\ puts = 0
    /\ flushes = 0

(* The user puts and flushes until a put fails, or a flush does once it has *)
(* changed the document, then deletes the sink, as hidrd-convert does.      *)
CanPut == isOpen /\ ~failed /\ puts < MaxPuts

PutSimple(it) ==
    /\ it.kind \in SimpleKinds
    /\ state' = StateAfter(it)
    /\ tree' = AddChild(tree, prnt, it.kind, SimpleVal(it))
    /\ UNCHANGED <<prnt, cur>>

PutMain(it) ==
    /\ it.kind = "main"
    /\ tree' = WithBits(AddChild(tree, prnt, "main", <<>>), Len(tree) + 1, it.val)
    /\ UNCHANGED <<prnt, cur, state>>

PutStart(it) ==
    /\ it.kind \in DOMAIN Groups
    /\ state' = StateAfter(it)
    /\ tree' = AddChild(tree, prnt, Groups[it.kind], it.val)
    /\ prnt' = Len(tree) + 1
    /\ UNCHANGED cur

PutEnd(it) ==
    /\ it.kind \in DOMAIN Ends
    /\ state' = StateAfter(it)
    /\ LET g == NearestGroup(Ends[it.kind])
           es == Branch(tree, g, prnt)
       IN  \/ /\ g = 0
              /\ tree' = AddEnd(tree, prnt, Ends[it.kind])
              /\ UNCHANGED prnt
           \/ /\ g # 0
              /\ tree' = BreakAll(tree, es)
              /\ prnt' = tree[g].up
    /\ UNCHANGED cur

Put(it) ==
    /\ CanPut
    /\ PutSimple(it) \/ PutMain(it) \/ PutStart(it) \/ PutEnd(it)
    /\ puts' = puts + 1
    /\ UNCHANGED <<out, isOpen, failed, flushes>>

(* Where a put may fail for lack of memory, and what it leaves behind: the  *)
(* state set and no element; an element half made and current; a container  *)
(* still the parent; some groups inside the target broken and freed, with   *)
(* the innermost of them still the parent.                                  *)
FailsBeforeElement(it) ==
    /\ state' \in IF it.kind = "push" THEN {state, StateAfter(it)} ELSE {StateAfter(it)}
    /\ UNCHANGED <<tree, prnt, cur>>

FailsInElement(it) ==
    /\ it.kind \in SimpleKinds \cup {"collection"}
    /\ state' = StateAfter(it)
    /\ tree' = AddChild(tree, prnt,
                        IF it.kind = "collection" THEN "COLLECTION" ELSE it.kind, <<>>)
    /\ cur' = Len(tree) + 1
    /\ UNCHANGED prnt

FailsInBitmap(it) ==
    /\ it.kind = "main"
    /\ \E n \in 0 .. Len(it.val) - 1 :
         tree' = WithBits(AddChild(tree, prnt, "main", <<>>), Len(tree) + 1,
                          SubSeq(it.val, 1, n))
    /\ prnt' = Len(tree) + 1
    /\ UNCHANGED <<cur, state>>

FailsInBreak(it) ==
    /\ it.kind \in DOMAIN Ends
    /\ NearestGroup(Ends[it.kind]) # 0
    /\ state' = StateAfter(it)
    /\ tree' \in BrokenPartly(tree, Branch(tree, NearestGroup(Ends[it.kind]), prnt))
    /\ UNCHANGED <<prnt, cur>>

PutFails(it) ==
    /\ MayFail
    /\ CanPut
    /\ FailsBeforeElement(it) \/ FailsInElement(it)
           \/ FailsInBitmap(it) \/ FailsInBreak(it)
    /\ failed' = TRUE
    /\ puts' = puts + 1
    /\ UNCHANGED <<out, isOpen, flushes>>

(* The schema knows the elements of its own namespace only.                 *)
Qualified == \A e \in DOMAIN tree : tree[e].ns

(* hidrd_xml_snk_flush(): every open group is broken, also when the schema  *)
(* then rejects the document, or memory runs out later, and nothing is      *)
(* delivered.                                                               *)
CanFlush == isOpen /\ ~failed /\ flushes < MaxFlushes

FlushKeepsParent ==
    /\ CanFlush
    /\ tree' = BreakAll(tree, Branch(tree, 1, prnt))
    /\ prnt' = prnt
    /\ \/ out' = out
       \/ (Schema => Qualified) /\ out' = tree'
    /\ flushes' = flushes + 1
    /\ UNCHANGED <<cur, state, isOpen, failed, puts>>

Flush ==
    /\ CanFlush
    /\ tree' = BreakAll(tree, Branch(tree, 1, prnt))
    /\ prnt' = 1
    /\ \/ out' = out
       \/ (Schema => Qualified) /\ out' = tree'
    /\ flushes' = flushes + 1
    /\ UNCHANGED <<cur, state, isOpen, failed, puts>>

(* Memory runs out while the groups are broken.  The parent is set only     *)
(* when all of them are: unless nothing was done, it may be freed by now.   *)
FlushFails ==
    /\ MayFail
    /\ CanFlush
    /\ tree' \in BrokenPartly(tree, Branch(tree, 1, prnt))
    /\ failed' = (tree' # tree)
    /\ flushes' = flushes + 1
    /\ UNCHANGED <<prnt, cur, state, out, isOpen, puts>>

(* hidrd_snk_delete(): hidrd_xml_snk_clnp() frees the document and the      *)
(* state stack.                                                             *)
Delete ==
    /\ isOpen
    /\ isOpen' = FALSE
    /\ tree' = RootOnly
    /\ prnt' = 1
    /\ cur' = 0
    /\ state' = <<0>>
    /\ UNCHANGED <<out, failed, puts, flushes>>

Next ==
    \/ \E it \in Alphabet : Put(it) \/ PutFails(it)
    \/ Flush \/ FlushFails \/ Delete

Spec == Init /\ [][Next]_vars

------------------------------------------------------------------------------
Nodes == DOMAIN tree

(* The links of the document agree, also when a put or a flush failed in    *)
(* the middle of breaking groups, as the deletion that follows needs:       *)
(* breaking a group moves its contents to its parent and loses or doubles   *)
(* nothing.                                                                 *)
TreeSound ==
    /\ \A e \in Nodes : \A i \in DOMAIN tree[e].kids :
         tree[tree[e].kids[i]].up = e /\ tree[tree[e].kids[i]].name # "freed"
    /\ \A e \in Nodes \ {1} : tree[e].name # "freed" =>
         Cardinality({link \in Nodes \X Nodes :
             link[2] \in DOMAIN tree[link[1]].kids /\ tree[link[1]].kids[link[2]] = e}) = 1

(* What the assertions of the next call need, whatever was put before and   *)
(* whatever flushes failed before they changed the document, or after they  *)
(* broke every group: no element is under construction, and the parent is   *)
(* part of the document, below nothing but open groups.                     *)
Alive == isOpen /\ ~failed
OpenNodes == {PathUp(tree, prnt)[i] : i \in DOMAIN PathUp(tree, prnt)}

CallsSound ==
    Alive => /\ cur = 0
             /\ 1 \in OpenNodes
             /\ \A e \in OpenNodes \ {1} : tree[e].name \in GroupNames

(* Every element of the document is in the namespace of the schema, so that *)
(* the schema can accept it: README.md says that the end of a COLLECTION,   *)
(* PUSH or SET can be an element of its own.                                *)
AllQualified == Qualified

(* The sink stands for the items put, in order, each group for its start    *)
(* and its end, whatever order groups are opened and closed in and however  *)
(* often the document is flushed in between; and the usage page in effect   *)
(* follows PUSH and POP whatever became of their groups.                    *)
Abstract == INSTANCE ItemSnk WITH
    alive <- Alive,
    log   <- IF Alive THEN Meaning(Items(tree, OpenNodes)) ELSE <<>>,
    pages <- IF Alive THEN state ELSE <<0>>,
    out   <- IF out = NoOutput THEN NoOutput ELSE Meaning(Items(out, {}))

ImplementsItemSnk == Abstract!Spec
==============================================================================
