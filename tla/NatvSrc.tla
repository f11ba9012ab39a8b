------------------------------- MODULE NatvSrc -------------------------------
(***************************************************************************)
(* The native source (lib/fmt/natv/src.c): hands out the items of a buffer *)
(* one after the other, as pointers into it.                               *)
(***************************************************************************)
EXTENDS ItemCodec

CONSTANT Buffers    \* the contents of the buffer, as sequences of bytes

VARIABLES
    buf,        \* the user's buffer
    pos,        \* stream position
    error,      \* the error indicator of the source
    err,        \* the last error code
    got,        \* the items returned
    ended       \* a call returned the end of the stream

vars == <<buf, pos, error, err, got, ended>>

Init ==
    /\ buf \in Buffers
    /\ pos = 0
    /\ error = FALSE
    /\ err = "none"
    /\ got = <<>>
    /\ ended = FALSE

Rest == SubSeq(buf, pos + 1, Len(buf))
Here == SubSeq(Rest, 1, ItemSize(Rest))

(* One call of hidrd_src_get(); the user may go on after an error.          *)
GetEnd ==
    /\ pos >= Len(buf)
    /\ ended' = TRUE
    /\ UNCHANGED <<pos, error, err, got>>

Fail(code) ==
    /\ error' = TRUE
    /\ err' = code
    /\ UNCHANGED <<pos, got, ended>>

GetShortEnds ==
    /\ pos < Len(buf)
    /\ ~Fits(Rest)
    /\ ended' = TRUE
    /\ UNCHANGED <<pos, error, err, got>>
GetShort ==
    /\ pos < Len(buf)
    /\ ~Fits(Rest)
    /\ Fail("short")

GetInvalid ==
    /\ Fits(Rest)
    /\ ~ItemValid(Here)
    /\ Fail("invalid")

GetItemOfAnyFormat ==
    /\ Fits(Rest)
    /\ ItemValid(Here)
    /\ pos' = pos + 1 + DataBytes(Rest[1])
    /\ got' = Append(got, Here)
    /\ UNCHANGED <<error, err, ended>>
GetItem ==
    /\ Fits(Rest)
    /\ ItemValid(Here)
    /\ pos' = pos + ItemSize(Rest)
    /\ got' = Append(got, Here)
    /\ UNCHANGED <<error, err, ended>>

Next ==
    /\ GetEnd \/ GetShort \/ GetInvalid \/ GetItem
    /\ UNCHANGED buf

Spec == Init /\ [][Next]_vars

------------------------------------------------------------------------------
(* The end is the end of well-formed items: bytes left over are an error,   *)
(* and the error says what is wrong at the place the stream stopped at.     *)
ErrorRight ==
    /\ error => err = Cut(buf).why /\ got = Cut(buf).items
    /\ ended => Cut(buf).why = "none"

(* The items of the buffer, in order and without a gap.                     *)
Abstract == INSTANCE ItemSrc WITH text <- Cut(buf).items, delivered <- got
ImplementsItemSrc == Abstract!Spec
==============================================================================
