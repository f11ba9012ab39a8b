----------------------------- MODULE MCSpecSnk -----------------------------
(* Collections that may not balance, and usages of a page and of the one  *)
(* in effect, between PUSH and POP.                                         *)
EXTENDS SpecSnk
PutItems == {Item("collection", <<1>>), Item("end_collection", <<>>), Item("push", <<>>),
             Item("pop", <<>>), Item("usage_page", <<1>>),
             Item("usage", <<0, 7>>), Item("usage", <<1, 7>>)}
MCTextLen(x) == x.indent + (IF x.what \in {"begin", "end"} THEN 2 ELSE 3)
=============================================================================
