---------------------------- MODULE SparseTable ----------------------------
(***************************************************************************)
(* What a text table promises: a text for some of the places of a plane,   *)
(* where columns and rows can be inserted.                                 *)
(***************************************************************************)
EXTENDS Naturals

CONSTANTS Texts, NoText, MaxCol, MaxLine, MaxSpan

VARIABLE cells      \* the triples of column, line and text

Init == cells = {}

Set(col, line, text) ==
    cells' = {c \in cells : c[1] # col \/ c[2] # line}
             \cup (IF text = NoText THEN {} ELSE {<<col, line, text>>})

InsCols(col, span) ==
    cells' = {<<IF c[1] < col THEN c[1] ELSE c[1] + span, c[2], c[3]>> : c \in cells}

InsRows(line, span) ==
    cells' = {<<c[1], IF c[2] < line THEN c[2] ELSE c[2] + span, c[3]>> : c \in cells}

Next ==
    \/ \E col \in 0 .. MaxCol, line \in 0 .. MaxLine, text \in Texts \cup {NoText} :
           Set(col, line, text)
    \/ \E col \in 0 .. MaxCol, span \in 0 .. MaxSpan : InsCols(col, span)
    \/ \E line \in 0 .. MaxLine, span \in 0 .. MaxSpan : InsRows(line, span)

Spec == Init /\ [][Next]_cells
=============================================================================
