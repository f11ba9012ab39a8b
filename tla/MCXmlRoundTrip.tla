--------------------------- MODULE MCXmlRoundTrip ---------------------------
EXTENDS XmlRoundTrip
RTItems == {Item("collection", <<1>>), Item("end_collection", <<>>), Item("push", <<>>),
            Item("pop", <<>>), Item("usage_page", <<1>>), Item("usage", <<0, 7>>),
            Item("usage", <<1, 7>>), Item("usage", <<2, 7>>),
            Item("open", <<>>), Item("close", <<>>), Item("main", <<1, 9>>)}
KnownUsages == {<<1, 7>>}
=============================================================================
