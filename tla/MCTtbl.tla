------------------------------- MODULE MCTtbl -------------------------------
(* A text is its length.                                                    *)
EXTENDS Ttbl
MCTextLen(x) == x
=============================================================================
