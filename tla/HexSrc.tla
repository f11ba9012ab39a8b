------------------------------- MODULE HexSrc -------------------------------
(***************************************************************************)
(* The hexadecimal source (lib/fmt/hex/src.c): decodes a dump one byte at  *)
(* a time into a buffer of its own, until an item fits into it.  Every     *)
(* character read is a step.                                               *)
(***************************************************************************)
EXTENDS HexText

CONSTANTS
    Texts,      \* the texts that may be opened
    MaxCount    \* bound: lines and columns counted, of a retry after an error

VARIABLES
    text,       \* the user's buffer
    pos,        \* stream position, of the last character consumed
    line, col,  \* its line and column
    buf,        \* the decoded bytes that are no item yet
    error,      \* the error indicator of the source
    err,        \* the last error code
    busy,       \* inside hidrd_src_get()
    at,         \* position, in hidrd_hex_src_get_byte()
    byte,       \* the byte being read
    len,        \* the number of its bits read
    meant,      \* what the text stands for, for the properties only
    got,        \* the items returned
    ended       \* a call returned the end of the stream

place == <<pos, line, col>>
word == <<at, byte, len>>
vars == <<text, meant, place, buf, error, err, busy, word, got, ended>>

Opened ==
    /\ meant = Decoded(text)
    /\ pos = 0 /\ line = 0 /\ col = 0
    /\ buf = <<>>
    /\ error = FALSE
    /\ err = "none"
    /\ busy = FALSE
    /\ at = 0 /\ byte = 0 /\ len = 0
    /\ got = <<>>
    /\ ended = FALSE
Init == text \in Texts /\ Opened

StartWord(p) == at' = p /\ byte' = 0 /\ len' = 0

Get ==
    /\ ~busy
    /\ error => line + col < MaxCount
    /\ busy' = TRUE
    /\ StartWord(pos)
    /\ UNCHANGED <<text, meant, place, buf, error, err, got, ended>>

Fail(code) ==
    /\ busy' = FALSE
    /\ error' = TRUE
    /\ err' = code
    /\ UNCHANGED <<text, meant, word, got, ended>>

(* The byte is complete; the next one is read from the position on.         *)
TakeByte(p) ==
    /\ buf' = Append(buf, byte)
    /\ StartWord(p)

Reading == busy /\ ~Fits(buf)
Char == text[at + 1]

ReadEndWaits ==
    /\ Reading
    /\ at >= Len(text)
    /\ len = 0
    /\ pos' = at
    /\ UNCHANGED <<line, col>>
    /\ \/ /\ buf # <<>> /\ ~error
          /\ Fail("short")
          /\ UNCHANGED buf
       \/ /\ buf = <<>> \/ error
          /\ busy' = FALSE
          /\ ended' = (ended \/ ~error)
          /\ UNCHANGED <<text, meant, buf, error, err, word, got>>
ReadEnd ==
    /\ Reading
    /\ at >= Len(text)
    /\ pos' = at
    /\ UNCHANGED <<line, col>>
    /\ \/ /\ len > 0
          /\ TakeByte(at)
          /\ UNCHANGED <<text, meant, error, err, busy, got, ended>>
       \/ /\ len = 0
          /\ buf # <<>> /\ ~error
          /\ Fail("short")
          /\ UNCHANGED buf
       \/ /\ len = 0
          /\ buf = <<>> \/ error
          /\ busy' = FALSE
          /\ ended' = (ended \/ ~error)
          /\ UNCHANGED <<text, meant, buf, error, err, word, got>>

ReadDigit ==
    /\ Reading
    /\ at < Len(text)
    /\ Char \in Digits
    /\ \/ /\ len < 8
          /\ byte' = (byte * 16 + Char) % 256
          /\ len' = len + 4
          /\ at' = at + 1
          /\ col' = col + 1
          /\ UNCHANGED <<text, meant, pos, line, buf, error, err, busy, got, ended>>
       \/ /\ len >= 8
          /\ Fail("num")
          /\ UNCHANGED <<place, buf>>

(* A blank is consumed, although the one that ends a byte will be read      *)
(* again at the start of the next one.                                      *)
CountBlank(c) ==
    IF c = Newline THEN line' = line + 1 /\ col' = 0
                   ELSE col' = col + 1 /\ UNCHANGED line

ReadBlankJoins ==
    /\ Reading
    /\ at < Len(text)
    /\ Char \in Blank
    /\ pos' = at
    /\ CountBlank(Char)
    /\ at' = at + 1
    /\ UNCHANGED <<text, meant, buf, byte, len, error, err, busy, got, ended>>
ReadBlank ==
    /\ Reading
    /\ at < Len(text)
    /\ Char \in Blank
    /\ pos' = at
    /\ CountBlank(Char)
    /\ \/ /\ len > 0
          /\ TakeByte(at)
       \/ /\ len = 0
          /\ at' = at + 1
          /\ UNCHANGED <<buf, byte, len>>
    /\ UNCHANGED <<text, meant, error, err, busy, got, ended>>

ReadOther ==
    /\ Reading
    /\ at < Len(text)
    /\ Char = Other
    /\ pos' = at
    /\ Fail("char")
    /\ UNCHANGED <<line, col, buf>>

DeliverKeeps ==
    /\ busy
    /\ Fits(buf)
    /\ \/ /\ ItemValid(buf)
          /\ got' = Append(got, buf)
          /\ busy' = FALSE
          /\ UNCHANGED <<text, meant, place, buf, error, err, word, ended>>
       \/ /\ ~ItemValid(buf)
          /\ Fail("invalid")
          /\ UNCHANGED <<place, buf>>
Deliver ==
    /\ busy
    /\ Fits(buf)
    /\ \/ /\ ItemValid(buf)
          /\ got' = Append(got, buf)
          /\ buf' = <<>>
          /\ busy' = FALSE
          /\ UNCHANGED <<text, meant, place, error, err, word, ended>>
       \/ /\ ~ItemValid(buf)
          /\ Fail("invalid")
          /\ UNCHANGED <<place, buf>>

Step == ReadEnd \/ ReadDigit \/ ReadBlank \/ ReadOther \/ Deliver

Next == Get \/ Step

(* A call runs until it returns; the user need not call.                    *)
Spec == Init /\ [][Next]_vars /\ WF_vars(Step)

------------------------------------------------------------------------------
(* An error is the first thing wrong with the text, found when all the      *)
(* items before it are returned, and it stays when calls are repeated; the  *)
(* end comes after a text with nothing wrong.                               *)
ErrorRight ==
    /\ error => err = meant.problem /\ got = meant.items
    /\ ended => meant.problem = "none" /\ got = meant.items

(* The items of the text, in their order.                                   *)
Abstract == INSTANCE ItemSrc WITH text <- meant.items, delivered <- got

(* The line is the one of the position, before or after a newline there:    *)
(* hex/src.h calls it the stream position line.                             *)
LineRight ==
    line \in {NewlinesIn(text, pos), NewlinesIn(text, IF pos < Len(text) THEN pos + 1 ELSE pos)}
==============================================================================
