--------------------------- MODULE MCHexRoundTrip ---------------------------
EXTENDS HexRoundTrip
MCItems == {<<192>>, <<5, 1>>, <<38, 255, 0>>, <<254, 1, 9, 171>>}
MCWidths == {0, 1, 3, 5}

(* Dumps that somebody else wrote.                                          *)
(* With the digits 0, 4, 5 and 8 the words are, among others, USAGE_PAGE of *)
(* no and of one byte, REPORT_ID, INPUT, USAGE, and reserved main tags.     *)
ShortTexts == BoundedSeq({0, 4, 5, 8, Space, Newline, Other}, 5)
LongTexts == {
    <<15, 14, Space, 1, Newline, 7, Space, Space, 10, 11, Newline, 4>>,
    <<15, 14, Space, 0, 1, Newline, 7, Space>>,
    <<8, 5, Newline, 0, Newline, 4>>,
    <<8, 5, Newline, 0, 1, Newline, 12, 0, Newline>>,
    <<10, 1, Space, 1, Space, 8, 0, Space, 12, 0>>,
    <<0, 4, Newline, 0, 4, Newline, 0, 4, Newline, Newline>>,
    <<0, 4, Space, Newline, 0, 8, 1, Newline>>,
    <<8, 5, Space, 0, 5>>, <<8, 5, Space, 0, 0>>, <<8, 5, Other, 0, 5>>, <<0, 5, 4, 4, Space, 5>>,
    <<0, 4, Space, 0, 5, Space, 4, 4, 4>>, <<Newline, 8, 0, Newline, 8, 0, 8>>,
    <<2, 7, Space, 1, Space, 2, Space, 3, Newline, 4, Space, 4>> }
MCTexts == ShortTexts \cup LongTexts
=============================================================================
