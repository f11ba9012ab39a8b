----------------------------- MODULE MCConvert -----------------------------
(* Between two files of the native format, every input of up to three bytes *)
(* of: a reserved main tag, USAGE_PAGE of one and of two bytes, REPORT_ID,  *)
(* END_COLLECTION, the hole in the local tags and a long item, and longer   *)
(* ones at the edges of what is an item.  For the other files and formats a *)
(* few inputs, with the items cut short or followed by what is none.        *)
EXTENDS Convert
Edges ==
    {<<163, 0, 0, 0, 1>>, <<163, 0, 0, 0, 0>>, <<162, 255, 0>>, <<162, 0, 1>>,
     <<7, 1, 0, 1, 0>>, <<7, 1, 1, 0, 0, 192>>, <<168, 169, 1, 169, 2, 192>>,
     <<254, 2, 7, 1, 2, 133, 1>>, <<254, 2, 7, 1>>, <<254, 1, 7, 192>>, <<12, 192>>,
     <<161, 1, 133, 1, 192, 5>>, <<161, 1, 8, 176, 192>>}
Samples == {<<>>, <<192>>, <<5, 1, 192>>, <<192, 5, 1, 192, 161, 0>>, <<192, 5>>, <<192, 0, 192>>}
MCContents(a) ==
    IF a = [input |-> "a", output |-> "b", from |-> "natv", to |-> "natv"]
    THEN BoundedSeq({0, 1, 5, 6, 133, 192, 104, 254}, 3) \cup Edges \cup Samples
    ELSE Samples
Format(readable, writable, init) == [readable |-> readable, writable |-> writable, init |-> init]
MCFormats ==
    [natv |-> Format(TRUE, TRUE, FALSE), xml |-> Format(TRUE, TRUE, TRUE),
     spec |-> Format(FALSE, TRUE, FALSE)]
=============================================================================
