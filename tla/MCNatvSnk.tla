----------------------------- MODULE MCNatvSnk -----------------------------
(* Two items, of one byte and of the maximum size: the buffer starts at     *)
(* 4 * MaxSize = 8 bytes and the stream is long enough to double it.        *)
EXTENDS NatvSnk, TLC
CONSTANTS i1, i2
MCSize == i1 :> 1 @@ i2 :> 2
=============================================================================
