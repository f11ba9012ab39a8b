----------------------------- MODULE UsageTable -----------------------------
(***************************************************************************)
(* Usages, and the tables that give pages and identifiers their tokens     *)
(* (include/hidrd/usage, lib/usage, generated from db/usage).              *)
(*                                                                         *)
(* A token is a sequence of the words between its underscores.  The token  *)
(* of a usage is that of its page followed by that of its identifier.      *)
(***************************************************************************)
EXTENDS Numeral

CONSTANT Pages  \* hidrd_usage_page_desc_list: [page, token, ids : Seq of [id, token]]

PageSize == ByteSize ^ 2

GetPage(usage) == (usage \div PageSize) % PageSize
GetId(usage) == usage % PageSize
Compose(page, id) == page * PageSize + id
SetPage(usage, page) == Compose(page, GetId(usage))
Undefined == 0
DefinedPage(usage) == GetPage(usage) # Undefined

(* The first entry with a value or a token, if any.                         *)
FirstOf(list, Has(_)) ==
    LET found == {i \in DOMAIN list : Has(list[i])}
    IN  IF found = {} THEN {} ELSE {list[Min(found)]}
PageByValue(page) == FirstOf(Pages, LAMBDA p : p.page = page)
PageByToken(token) == FirstOf(Pages, LAMBDA p : p.token = token)
IdByValue(desc, id) == FirstOf(desc.ids, LAMBDA d : d.id = id)
IdByToken(desc, token) == FirstOf(desc.ids, LAMBDA d : d.token = token)

PageToToken(page) == {desc.token : desc \in PageByValue(page)}
PageFromToken(token) == {desc.page : desc \in PageByToken(token)}

UsageToToken(usage) ==
    UNION {{desc.token \o d.token : d \in IdByValue(desc, GetId(usage))} :
              desc \in PageByValue(GetPage(usage))}

(* The page is the first one whose token the text begins with; when that    *)
(* page has no such identifier, no later page is tried.                     *)
UsageFromToken(text) ==
    LET Begins(desc) ==
            /\ Len(desc.token) < Len(text)
            /\ IsPrefix(desc.token, text)
        Rest(desc) == SubSeq(text, Len(desc.token) + 1, Len(text))
    IN  UNION {{Compose(desc.page, d.id) : d \in IdByToken(desc, Rest(desc))} :
                  desc \in FirstOf(Pages, Begins)}

PageToText(page) ==
    CHOOSE t \in ToAlt(PageToToken(page), {ToRepr("u16", page, "hex")}) : TRUE
PageFromText(text) == FromAlt(<<PageFromToken(text), FromRepr("u16", text, "hex")>>)

UsageToText(usage) ==
    CHOOSE t \in ToAlt(UsageToToken(usage), {ToRepr("u32", usage, "hex")}) : TRUE
UsageToIdText(usage) ==
    CHOOSE t \in ToAlt(UsageToToken(usage), {ToRepr("u16", GetId(usage), "hex")}) : TRUE
UsageFromText(text) == FromAlt(<<UsageFromToken(text), FromRepr("u32", text, "hex")>>)
==============================================================================
