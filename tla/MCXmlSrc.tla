------------------------------ MODULE MCXmlSrc ------------------------------
(* SmallDocuments: every document of MaxNodes nodes below the root, of the  *)
(* kinds that groups, pages and the walk depend on.  OddDocuments: bitmaps  *)
(* in and out of order, elements that are unknown or do not convert, alone, *)
(* first, last and inside a group.  GenericDocuments: a generic element of  *)
(* every kind that matters to usages, before or inside a PUSH group with    *)
(* usages in it and after it.                                               *)
EXTENDS XmlSrc

CONSTANT MaxNodes

Build(root, es) == FoldLeft(LAMBDA t, e : AddChild(t, e[1], e[2], e[3]), root, es)

Kinds == {<<"COLLECTION", <<1>>>>, <<"PUSH", <<>>>>, <<"SET", <<>>>>, <<"pop", <<>>>>,
          <<"usage_page", <<1>>>>, <<"usage_page", <<2>>>>, <<"usage", <<1, 7>>>>, <<"text", <<>>>>}

May(t, p) == p \in DOMAIN t /\ t[p].name \in GroupNames \cup {"descriptor"}
SmallDocuments ==
    LET docs[n \in 0 .. MaxNodes] ==
            IF n = 0 THEN {RootOnly}
            ELSE UNION {{AddChild(t, p, k[1], k[2]) :
                            p \in {q \in DOMAIN t : May(t, q)}, k \in Kinds} :
                        t \in docs[n - 1]}
    IN  UNION {docs[n] : n \in 0 .. MaxNodes}

OddKinds == {<<"main", <<>>>>, <<"other", Bad>>, <<"unknown", <<>>>>, <<"COLLECTION", Bad>>}
OddDocuments ==
    {Build(RootOnly, <<<<1, "main", <<>>>>, <<2, "bit", <<b[1]>>>>, <<2, "text", <<>>>>,
                       <<2, "bit", <<b[2]>>>>>>) : b \in {1, 9} \X {1, 9}}
    \cup {Build(RootOnly, <<<<1, "COLLECTION", <<1>>>>, <<2, k[1], k[2]>>, <<1, j[1], j[2]>>,
                       <<1, "text", <<>>>>>>) :
            k \in OddKinds, j \in OddKinds \cup {<<"other", <<3>>>>}}

GenericItems == {Item("usage_page", <<2>>), Item("push", <<>>), Item("pop", <<>>),
                 Item("usage", <<0, 7>>), Item("usage", <<1, 7>>), Item("other", <<3>>)}
GenericDocuments ==
    {Build(RootOnly, <<<<1, "usage_page", <<1>>>>, <<1, "PUSH", <<>>>>,
                       <<p[1], "generic", g>>, <<3, "usage_page", <<2>>>>, <<p[2], "generic", h>>,
                       <<3, "usage", <<u, 7>>>>, <<1, "usage", <<u, 7>>>>>>) :
        p \in {1, 3} \X {1, 3}, g \in GenericItems, h \in GenericItems, u \in {1, 2}}

MCDocuments == SmallDocuments \cup OddDocuments \cup GenericDocuments

(* No descriptor inside another.                                            *)
ASSUME ConformingAssumption == Conforming
=============================================================================
