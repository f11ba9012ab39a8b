---------------------------- MODULE XmlRoundTrip ----------------------------
(***************************************************************************)
(* An XML sink and, when it is closed, an XML source on the document it    *)
(* left in the user's buffer: what hidrd-convert does in two runs.  A put  *)
(* that fails ends the first, and so does a flush that fails while it      *)
(* breaks groups; what an earlier flush delivered is read.                 *)
(***************************************************************************)
EXTENDS XmlSnk

VARIABLES
    log,        \* the items put
    flushed,    \* the items put and the state stack at the last delivery
    reading,    \* the source is open
    rdoc, rprnt, rcur, rstate, rerror, rbusy, rgot, rended

snk == <<tree, prnt, cur, state, out, isOpen, failed, puts, flushes, log, flushed>>
src == <<rdoc, rprnt, rcur, rstate, rerror, rbusy, rgot, rended>>

Src == INSTANCE XmlSrc WITH
    Documents <- {}, Bad <- NoOutput, MayFail <- FALSE,
    doc <- rdoc, prnt <- rprnt, cur <- rcur, state <- rstate, error <- rerror,
    busy <- rbusy, got <- rgot, ended <- rended

RTInit ==
    /\ Init
    /\ log = <<>>
    /\ flushed = [items |-> <<>>, state |-> <<0>>]
    /\ reading = FALSE
    /\ Src!Opened(RootOnly)

Write ==
    /\ \/ /\ \E it \in Alphabet : Put(it) /\ log' = Append(log, it)
          /\ UNCHANGED flushed
       \/ /\ Flush
          /\ flushed' = IF out' = out THEN flushed ELSE [items |-> log, state |-> state]
          /\ UNCHANGED log
       \/ (\E it \in Alphabet : PutFails(it)) /\ UNCHANGED <<log, flushed>>
       \/ FlushFails /\ UNCHANGED <<log, flushed>>
       \/ Delete /\ UNCHANGED <<log, flushed>>
    /\ UNCHANGED <<reading, src>>

(* The source, until now at the start of an empty document, gets the        *)
(* document to start with.                                                  *)
Open ==
    /\ ~isOpen /\ ~reading
    /\ out # NoOutput
    /\ reading' = TRUE
    /\ rdoc' = out
    /\ UNCHANGED <<snk, rprnt, rcur, rstate, rerror, rbusy, rgot, rended>>

Read ==
    /\ reading
    /\ ~rended
    /\ Src!SrcNext
    /\ UNCHANGED <<snk, reading>>

RTNext == Write \/ Open \/ Read

(* The reader calls until the end: the transfer loop of hidrd-convert.      *)
RTSpec == RTInit /\ [][RTNext]_<<snk, src, reading>> /\ WF_<<src>>(Read)

------------------------------------------------------------------------------
(* What is read means what was put, item by item, whichever way the sink    *)
(* wrote the groups and the usages, and whichever way the source read them. *)
MeaningKept == rended => Meaning(rgot) = Meaning(flushed.items)

(* Sink and source have tracked the same usage pages: a POP that ends a     *)
(* group, one that stands alone and one too many do the same to both.       *)
StatesAgree == rended => rstate = flushed.state

(* Reading a document the sink wrote comes to its end without an error.     *)
ReadEnds == reading ~> rended /\ ~rerror
=============================================================================
