------------------------------- MODULE ByteSnk -------------------------------
(***************************************************************************)
(* What a native sink promises to its user, with no memory in it.  The     *)
(* stream is a sequence of bytes.  Putting an item overwrites the bytes at *)
(* the position, extending the stream at its end; flushing makes the whole *)
(* stream the user's; deleting the sink leaves the user what was last      *)
(* shown.  A call that fails is a stuttering step: it must change nothing. *)
(***************************************************************************)
EXTENDS Naturals, Sequences

CONSTANTS
    Items,      \* the items that may be put
    Bytes(_),   \* the bytes of an item
    Given       \* the contents the user may hand over in the buffer

VARIABLES
    isOpen,     \* a sink instance exists
    stream,     \* the bytes of the stream; of the user's buffer when closed
    at,         \* the position of the next item
    shown,      \* how many bytes the user has been told of
    keeps       \* the user provided a location for the buffer

vars == <<isOpen, stream, at, shown, keeps>>

(* The stream with the bytes b stored at offset p (p is at most its length). *)
Overwrite(s, p, b) ==
    [i \in 1 .. (IF p + Len(b) > Len(s) THEN p + Len(b) ELSE Len(s)) |->
        IF i \in p + 1 .. p + Len(b) THEN b[i - p] ELSE s[i]]

Prefix(s, n) == [i \in 1 .. n |-> s[i]]

Init ==
    /\ isOpen = FALSE
    /\ keeps \in BOOLEAN
    /\ stream \in IF keeps THEN Given ELSE {<<>>}
    /\ at = 0
    /\ shown = Len(stream)

Open ==
    /\ ~isOpen
    /\ isOpen' = TRUE
    /\ UNCHANGED <<stream, at, shown, keeps>>

Put(it) ==
    /\ isOpen
    /\ stream' = Overwrite(stream, at, Bytes(it))
    /\ at' = at + Len(Bytes(it))
    /\ UNCHANGED <<isOpen, shown, keeps>>

Publish ==
    /\ isOpen
    /\ keeps
    /\ shown' = Len(stream)
    /\ UNCHANGED <<isOpen, stream, at, keeps>>

Delete ==
    /\ isOpen
    /\ isOpen' = FALSE
    /\ stream' = IF keeps THEN Prefix(stream, shown) ELSE <<>>
    /\ at' = 0
    /\ UNCHANGED <<shown, keeps>>

Close ==
    /\ isOpen
    /\ isOpen' = FALSE
    /\ stream' = IF keeps THEN stream ELSE <<>>
    /\ shown' = Len(stream')
    /\ at' = 0
    /\ UNCHANGED keeps

Take ==
    /\ ~isOpen
    /\ stream' = <<>>
    /\ shown' = 0
    /\ UNCHANGED <<isOpen, at, keeps>>

Next ==
    \/ Open \/ Publish \/ Delete \/ Close \/ Take
    \/ \E it \in Items : Put(it)

Spec == Init /\ [][Next]_vars
==============================================================================
