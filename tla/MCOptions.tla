----------------------------- MODULE MCOptions -----------------------------
(* The options of the hexadecimal, the code and the XML sinks, and a list   *)
(* like the one of the test of the library, with options that are required, *)
(* with two names and their values for letters and words.                   *)
EXTENDS Options

Number(name, n) == OptSpec(<<name>>, "U", FALSE, Value(n, <<>>), <<"number", "of", name>>)
Flag(name, b) == OptSpec(<<name>>, "b", FALSE, Value(b, <<>>), <<"whether">>)
Word(name, str) == OptSpec(<<name>>, "s", FALSE, Value(0, str), <<"text">>)
Needed(name, type) == OptSpec(<<name>>, type, TRUE, NoValue, <<>>)

MCSpecLists == {
    <<Number("a", 16)>>,
    <<Number("a", 4), Flag("b", 1), Flag("c", 0)>>,
    <<Flag("b", 1), Word("a", <<>>)>>,
    <<Flag("b", 1), Word("a", <<"Nikolai", " ", "Kondrashov">>), Needed("c", "S")>>,
    <<>> }

ShortTexts == BoundedSeq({"a", "b", "=", ",", " ", "1"}, 5)
LongTexts == {
    <<"a", "=", "2", ",", "b", "=", "no">>,
    <<" ", "b", " ", "=", " ", "off", " ", ",", " ", "c", "=", "-", "7", ",", "a", "=", "x", " ", "y", " ">>,
    <<"c", "=", "0", ",", "b", "=", "0", "0", ",", "a", "=", "0">>,
    <<"c", "=", "9", "9", "9", "9", "9", ",", "b", "=", "1">>,
    <<"c", "=", "-", "3", "2", "7", "6", "8">>, <<"c", "=", "3", "2", "7", "6", "8">>,
    <<"a", "=", "6", "5", "5", "3", "5">>, <<"a", "=", "6", "5", "5", "3", "6">>,
    <<"a", "=", "1", ",", "b", "=", "1", ",", "a", "=", "2">>,
    <<"c", "=", "1", ",", "c", "=", "1", ",", "c", "=", "1">>,
    <<"c", "=", "yes", ",", ",", " ", ",", "b", "=", "true">>,
    <<"a", "=", "b", "=", "1", ",", "c", "=", "1">>,
    <<"c", "=", "1", ",", "a", "=", "?", "1", "'", "2">> }
MCTexts == ShortTexts \cup LongTexts

ASSUME WritableAssumption == Writable
============================================================================
