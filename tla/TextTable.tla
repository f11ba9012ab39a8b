----------------------------- MODULE TextTable -----------------------------
(***************************************************************************)
(* Text tables (lib/util/ttbl.c): a linked list of rows of linked lists of *)
(* cells.  A list is sparse: every node has the number of positions to     *)
(* skip after it, and the skip of the last one has no meaning.  Rows and   *)
(* cells are looked up and inserted the same way.                          *)
(***************************************************************************)
EXTENDS Integers, SequencesExt, FiniteSetsExt

CONSTANTS
    NoText,         \* the text of a cell that is not there: NULL
    TextLen(_),     \* the length of a text
    Tabstops        \* the numbers of spaces per tab

ASSUME TabstopAssumption == Tabstops \subseteq Nat \ {0}

EmptyCell == [skip |-> 0, text |-> NoText]
EmptyRow == [skip |-> 0, cells |-> <<EmptyCell>>]
NewTable == <<EmptyRow>>

(* The position of the i-th node of a list.                                 *)
PosIn(list, i) ==
    LET pos[k \in 1 .. i] == IF k = 1 THEN 0 ELSE pos[k - 1] + 1 + list[k - 1].skip
    IN  pos[i]

(* The node at a position, or the one it comes after.                       *)
Lookup(list, at) ==
    CHOOSE i \in DOMAIN list :
        /\ i = Len(list) \/ at <= PosIn(list, i) + list[i].skip
        /\ \A j \in 1 .. i - 1 : at > PosIn(list, j) + list[j].skip

(* hidrd_ttbl_seta(): a list that has a node at the position.               *)
SkipLeftWhole(list, i, gap) == IF i = Len(list) THEN 0 ELSE list[i].skip
SkipLeft(list, i, gap) == IF i = Len(list) THEN 0 ELSE list[i].skip - gap

WithNode(list, at, new) ==
    LET i == Lookup(list, at)
        gap == at - PosIn(list, i)
    IN  IF gap = 0 THEN list
        ELSE SubSeq(list, 1, i - 1)
             \o <<[list[i] EXCEPT !.skip = gap - 1], [new EXCEPT !.skip = SkipLeft(list, i, gap)]>>
             \o SubSeq(list, i + 1, Len(list))

SetCell(t, col, line, text) ==
    LET rows == WithNode(t, line, EmptyRow)
        r == Lookup(rows, line)
        cells == WithNode(rows[r].cells, col, EmptyCell)
        c == Lookup(cells, col)
    IN  [rows EXCEPT ![r].cells = [cells EXCEPT ![c].text = text]]

GetCellNear(t, col, line) ==
    LET r == Lookup(t, line)
        cells == t[r].cells
        c == Lookup(cells, col)
    IN  IF col = PosIn(cells, c) THEN cells[c].text ELSE NoText
GetCell(t, col, line) ==
    LET r == Lookup(t, line)
        cells == t[r].cells
        c == Lookup(cells, col)
    IN  IF line = PosIn(t, r) /\ col = PosIn(cells, c) THEN cells[c].text ELSE NoText

(* hidrd_ttbl_ins_cols() and hidrd_ttbl_ins_rows(): the positions from at   *)
(* on move up by the span.                                                  *)
WidenedHere(list, at, span, new) ==
    LET i == Lookup(list, at)
    IN  IF i < Len(list) THEN [list EXCEPT ![i].skip = @ + span] ELSE list
Widened(list, at, span, new) ==
    LET i == Lookup(list, at)
    IN  IF at > PosIn(list, i)
        THEN IF i < Len(list) THEN [list EXCEPT ![i].skip = @ + span] ELSE list
        ELSE IF i > 1 THEN [list EXCEPT ![i - 1].skip = @ + span]
        ELSE <<[new EXCEPT !.skip = span - 1]>> \o list

InsRows(t, line, span) == IF span = 0 THEN t ELSE Widened(t, line, span, EmptyRow)
InsCols(t, col, span) ==
    IF span = 0 THEN t
    ELSE [r \in DOMAIN t |-> [t[r] EXCEPT !.cells = Widened(@, col, span, EmptyCell)]]

------------------------------------------------------------------------------
(* hidrd_ttbl_measure() and hidrd_ttbl_distribute(): the width of every     *)
(* column with text, at least one more than its longest text.               *)
StripWidthTight(len, tabstop) == len + ((tabstop - (len % tabstop)) % tabstop)
StripWidth(len, tabstop) == len + (tabstop - (len % tabstop))

(* The cells with text, as pairs of a row and a cell in it.                 *)
TextIn(t, rc) == t[rc[1]].cells[rc[2]].text
ColIn(t, rc) == PosIn(t[rc[1]].cells, rc[2])
Filled(t) ==
    {rc \in UNION {{r} \X DOMAIN t[r].cells : r \in DOMAIN t} : TextIn(t, rc) # NoText}

Strips(t, tabstop) ==
    LET cols == {ColIn(t, rc) : rc \in Filled(t)}
        lens(col) == {TextLen(TextIn(t, rc)) : rc \in {x \in Filled(t) : ColIn(t, x) = col}}
    IN  [col \in cols |-> StripWidth(Max(lens(col)), tabstop)]

(* hidrd_ttbl_print(), a row: the texts and where they begin on the line.   *)
(* Padding accumulates until a text comes that it goes before.              *)
PrintCell(strips, line, col, text) ==
    LET passed == {s \in DOMAIN strips : line.strip <= s /\ s < col}
        pad == line.pad + MapThenSumSet(LAMBDA s : strips[s], passed)
    IN  IF text = NoText
        THEN [line EXCEPT !.pad = pad, !.strip = IF @ > col THEN @ ELSE col]
        ELSE [texts |-> Append(line.texts, [at |-> line.end + pad, text |-> text]),
              end |-> line.end + pad + TextLen(text),
              pad |-> strips[col] - TextLen(text),
              strip |-> col + 1]

PrintRow(strips, cells) ==
    LET line[c \in 0 .. Len(cells)] ==
            IF c = 0 THEN [texts |-> <<>>, end |-> 0, pad |-> 0, strip |-> 0]
            ELSE PrintCell(strips, line[c - 1], PosIn(cells, c), cells[c].text)
    IN  line[Len(cells)].texts

(* The entries of a sequence that pass, in their order.                     *)
Kept(s, Pass(_)) ==
    LET kept[n \in 0 .. Len(s)] ==
            IF n = 0 THEN <<>>
            ELSE LET e == s[n]
                 IN  IF Pass(e) THEN Append(kept[n - 1], e) ELSE kept[n - 1]
    IN  kept[Len(s)]

(* hidrd_ttbl_render(): the rows that have text.                            *)
Render(t, tabstop) ==
    LET strips == Strips(t, tabstop)
    IN  Kept([r \in DOMAIN t |-> PrintRow(strips, t[r].cells)], LAMBDA l : l # <<>>)
=============================================================================
