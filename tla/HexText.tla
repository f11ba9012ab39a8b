------------------------------- MODULE HexText -------------------------------
(***************************************************************************)
(* Hexadecimal dumps, as sequences of characters, and what they stand for: *)
(* words of one or two digits, between white space, are bytes.             *)
(***************************************************************************)
EXTENDS ItemCodec, FiniteSetsExt

(* A digit is its value.                                                    *)
Digits == 0 .. 15
Space == 16
Newline == 17
Other == 18         \* any character that is none of these
Chars == 0 .. 18
Blank == {Space, Newline}

(* The bytes of the text up to where it is no dump any more, and why it is  *)
(* not: a foreign character or the third digit of a word.                   *)
Ends(t, i) == i = Len(t) \/ t[i + 1] \in Blank
Words(text) ==
    LET words[t \in Seq(Chars)] ==
            IF t = <<>> THEN [bytes |-> <<>>, why |-> "none"]
            ELSE IF t[1] \in Blank THEN words[Tail(t)]
            ELSE IF t[1] \in Digits /\ Ends(t, 1)
                 THEN [words[Tail(t)] EXCEPT !.bytes = <<t[1]>> \o @]
            ELSE IF Len(t) > 1 /\ {t[1], t[2]} \subseteq Digits /\ Ends(t, 2)
                 THEN [words[SubSeq(t, 3, Len(t))] EXCEPT !.bytes = <<16 * t[1] + t[2]>> \o @]
            ELSE [bytes |-> <<>>,
                  why |-> IF Other \in {t[i] : i \in 1 .. Min({3, Len(t)})}
                          THEN "char" ELSE "num"]
    IN  words[text]

(* The items of the text and, if that is not all of it, what is wrong.      *)
Decoded(text) ==
    LET words == Words(text)
        cut == Cut(words.bytes)
    IN  [items |-> cut.items,
         problem |-> IF cut.why = "invalid" \/ words.why = "none" THEN cut.why
                     ELSE words.why]
ItemsOf(text) == Decoded(text).items

NewlinesIn(text, n) == Cardinality({i \in 1 .. n : text[i] = Newline})

(* The numbers of bytes on the lines of a dump, one after the other, the    *)
(* text after the last newline among them.                                  *)
LineLengths(text) ==
    LET lines[t \in Seq(Chars)] ==
            IF Newline \notin {t[i] : i \in DOMAIN t} THEN <<Len(Words(t).bytes)>>
            ELSE LET at == CHOOSE i \in DOMAIN t :
                               t[i] = Newline /\ \A j \in 1 .. i - 1 : t[j] # Newline
                 IN  <<Len(Words(SubSeq(t, 1, at)).bytes)>> \o lines[SubSeq(t, at + 1, Len(t))]
    IN  lines[text]
==============================================================================
