------------------------------- MODULE ItemSnk -------------------------------
(***************************************************************************)
(* What a sink that writes text promises: whatever it puts the items into, *)
(* it stands for the items put, in their order.  A usage is resolved with  *)
(* the usage page in effect, since the text names it.  A failed flush may  *)
(* lose the last output, no more; after a failed put all that is left is   *)
(* to give up.                                                             *)
(***************************************************************************)
EXTENDS ItemMeaning

CONSTANTS
    Alphabet,   \* the items that may be put
    NoOutput    \* the output before the first flush

VARIABLES
    alive,      \* the user holds a sink that never failed a put
    log,        \* the items put
    pages,      \* the usage pages in effect, the current one first
    out         \* the items of the output last delivered to the user

vars == <<alive, log, pages, out>>

Init ==
    /\ alive = TRUE
    /\ log = <<>>
    /\ pages = <<0>>
    /\ out = NoOutput

Put ==
    /\ alive
    /\ UNCHANGED <<alive, out>>
    /\ LET before == log
           after == log'
       IN  \E it \in Alphabet :
             /\ pages' = PagesAfter(it, pages)
             /\ after = Append(before, Resolve(it, Head(pages)))

Flush ==
    /\ alive
    /\ out' = log
    /\ UNCHANGED <<alive, log, pages>>

FlushFails ==
    /\ alive
    /\ out' = NoOutput
    /\ UNCHANGED <<alive, log, pages>>

GiveUp ==
    /\ alive
    /\ alive' = FALSE
    /\ log' = <<>>
    /\ pages' = <<0>>
    /\ UNCHANGED out

Next == Put \/ Flush \/ FlushFails \/ GiveUp

Spec == Init /\ [][Next]_vars
==============================================================================
