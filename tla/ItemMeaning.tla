----------------------------- MODULE ItemMeaning -----------------------------
(***************************************************************************)
(* Items as the text formats see them: a kind and a sequence of numbers,   *)
(* and what a usage means where it stands.  Kinds: "collection" with its   *)
(* type, "end_collection", "push", "pop", "open" and "close" (DELIMITER),  *)
(* "usage_page" with the page, "usage" with page and ID, "main" (INPUT,    *)
(* OUTPUT, FEATURE) with its bits in rising order, and "other" for an item *)
(* that is written and read on its own.                                    *)
(***************************************************************************)
EXTENDS Naturals, Sequences

Item(kind, val) == [kind |-> kind, val |-> val]

(* A usage without a page is one of the page in effect; page 0 is           *)
(* HIDRD_USAGE_PAGE_UNDEFINED.                                              *)
Resolve(it, page) ==
    IF it.kind = "usage" /\ it.val[1] = 0
    THEN Item("usage", <<page, it.val[2]>>) ELSE it

(* The stack of the usage pages in effect after an item, the current one    *)
(* first: PUSH and POP save and restore it, a POP too many does nothing.    *)
PagesAfter(it, ps) ==
    CASE it.kind = "usage_page"          -> <<it.val[1]>> \o Tail(ps)
      [] it.kind = "push"                -> <<Head(ps)>> \o ps
      [] it.kind = "pop" /\ Len(ps) > 1  -> Tail(ps)
      [] OTHER                           -> ps

PagesAt(its) ==
    LET at[i \in 0 .. Len(its)] ==
            IF i = 0 THEN <<0>> ELSE PagesAfter(its[i], at[i - 1])
    IN  at

Meaning(its) ==
    LET at == PagesAt(its)
    IN  [i \in DOMAIN its |-> Resolve(its[i], Head(at[i - 1]))]
==============================================================================
