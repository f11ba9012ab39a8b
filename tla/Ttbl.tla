-------------------------------- MODULE Ttbl --------------------------------
(***************************************************************************)
(* A text table and its user, who sets and removes texts and inserts       *)
(* columns and rows in any order.  Allocations come from an obstack, which *)
(* ends the program when memory runs out.                                  *)
(***************************************************************************)
EXTENDS TextTable

CONSTANTS
    Texts,      \* the texts the user sets
    MaxCol,     \* bound: columns used
    MaxLine,    \* bound: lines used
    MaxSpan,    \* bound: columns or lines inserted at a time
    MaxCalls    \* bound: calls

ASSUME TblBoundAssumption == {MaxCol, MaxLine, MaxSpan, MaxCalls} \subseteq Nat
ASSUME TextAssumption == NoText \notin Texts /\ \A text \in Texts : TextLen(text) \in Nat

VARIABLES
    tbl,        \* the table
    calls       \* the number of calls made

tblVars == <<tbl, calls>>

TblInit == tbl = NewTable /\ calls = 0

Set(col, line, text) == tbl' = SetCell(tbl, col, line, text)
InsertCols(col, span) == tbl' = InsCols(tbl, col, span)
InsertRows(line, span) == tbl' = InsRows(tbl, line, span)

TblNext ==
    /\ calls < MaxCalls
    /\ calls' = calls + 1
    /\ \/ \E col \in 0 .. MaxCol, line \in 0 .. MaxLine, text \in Texts \cup {NoText} :
              Set(col, line, text)
       \/ \E col \in 0 .. MaxCol, span \in 0 .. MaxSpan : InsertCols(col, span)
       \/ \E line \in 0 .. MaxLine, span \in 0 .. MaxSpan : InsertRows(line, span)

TblSpec == TblInit /\ [][TblNext]_tblVars

------------------------------------------------------------------------------
(* The table is a sparse plane: setting a cell changes that cell and no     *)
(* other, inserting moves what comes after, and looking up finds it, for    *)
(* every sequence of calls.                                                 *)
Cells == {<<ColIn(tbl, rc), PosIn(tbl, rc[1]), TextIn(tbl, rc)>> : rc \in Filled(tbl)}

Plane == INSTANCE SparseTable WITH cells <- Cells
ImplementsSparseTable == Plane!Spec

(* What is looked up is what is there.                                      *)
GetRight ==
    \A col \in 0 .. MaxCol + 1, line \in 0 .. MaxLine + 1 :
        {x \in {GetCell(tbl, col, line)} : x # NoText}
            = {c[3] : c \in {d \in Cells : d[1] = col /\ d[2] = line}}

(* The elements of a finite set in the rising order of a key.               *)
InOrder(S, key(_)) ==
    CHOOSE s \in [1 .. Cardinality(S) -> S] :
        \A i, j \in DOMAIN s : i < j => key(s[i]) < key(s[j])

(* The output has the lines with text, each with its texts in the order of  *)
(* the columns; the texts of a column begin at one offset, which is one of  *)
(* the tab stops, and no two texts of a line touch.                         *)
RenderAligned ==
    \A tabstop \in Tabstops :
        LET out == Render(tbl, tabstop)
            lines == InOrder({c[2] : c \in Cells}, LAMBDA line : line)
            OnLine(k) == InOrder({c \in Cells : c[2] = lines[k]}, LAMBDA c : c[1])
            rows == [k \in DOMAIN lines |-> OnLine(k)]
            at(k, i) == out[k][i].at
        IN  /\ Len(out) = Len(rows)
            /\ \A k \in DOMAIN out :
                 /\ [i \in DOMAIN out[k] |-> out[k][i].text] = [i \in DOMAIN rows[k] |-> rows[k][i][3]]
                 /\ \A i \in DOMAIN out[k] :
                      /\ at(k, i) % tabstop = 0
                      /\ i > 1 => at(k, i - 1) + TextLen(rows[k][i - 1][3]) < at(k, i)
                      /\ \A l \in DOMAIN out : \A j \in DOMAIN out[l] :
                           rows[l][j][1] = rows[k][i][1] => at(l, j) = at(k, i)
=============================================================================
