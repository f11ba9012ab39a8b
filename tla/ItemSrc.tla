------------------------------- MODULE ItemSrc -------------------------------
(***************************************************************************)
(* What a source that reads text promises: the items of the text, one at a *)
(* call and in their order, then the end, for good.  A call may fail       *)
(* instead; it loses nothing.                                              *)
(***************************************************************************)
EXTENDS Naturals, Sequences

VARIABLES
    text,           \* the items of the text that was opened, whatever it is
    delivered,      \* the items returned
    ended           \* the end was returned

vars == <<text, delivered, ended>>

Init ==
    /\ delivered = <<>>
    /\ ended = FALSE

Get ==
    /\ ~ended
    /\ Len(delivered) < Len(text)
    /\ delivered' = Append(delivered, text[Len(delivered) + 1])
    /\ UNCHANGED <<text, ended>>

End ==
    /\ delivered = text
    /\ ended' = TRUE
    /\ UNCHANGED <<text, delivered>>

Next == Get \/ End

Spec == Init /\ [][Next]_vars
==============================================================================
