---------------------------- MODULE HexRoundTrip ----------------------------
(***************************************************************************)
(* A hexadecimal sink and, when it is closed, a hexadecimal source on the  *)
(* dump it left in the user's buffer: what hidrd-convert does in two runs. *)
(* Or the source reads a dump that somebody else wrote.                    *)
(***************************************************************************)
EXTENDS HexSnk

CONSTANTS
    Texts,      \* the dumps that somebody else wrote
    MaxCount    \* bound: lines and columns counted, of a retry after an error

(* A text is made of characters, whatever they are.                         *)
ASSUME TextsAssumption == Texts \subseteq Seq(Chars)
ASSUME CountAssumption == MaxCount \in Nat

VARIABLES
    log,        \* the items put
    flushed,    \* the items put at the last delivery
    reading,    \* the source is open
    foreign,    \* on a dump of somebody else
    rtext, rpos, rline, rcol, rbuf, rerror, rerr, rbusy, rat, rbyte, rlen, rmeant, rgot, rended

snk == <<width, buf, bytes, out, isOpen, failed, puts, flushes, log, flushed>>
src == <<rtext, rpos, rline, rcol, rbuf, rerror, rerr, rbusy, rat, rbyte, rlen, rmeant, rgot,
         rended>>

Src == INSTANCE HexSrc WITH
    text <- rtext, pos <- rpos, line <- rline, col <- rcol, buf <- rbuf, error <- rerror,
    err <- rerr, busy <- rbusy, at <- rat, byte <- rbyte, len <- rlen, meant <- rmeant,
    got <- rgot, ended <- rended

RTInit ==
    /\ Init
    /\ log = <<>>
    /\ flushed = <<>>
    /\ \/ /\ foreign = TRUE
          /\ width = 0
          /\ rtext \in Texts
       \/ /\ foreign = FALSE
          /\ rtext = <<>>
    /\ reading = foreign
    /\ Src!Opened

Write ==
    /\ ~foreign
    /\ \/ /\ \E item \in Puttable : Put(item) /\ log' = Append(log, item)
          /\ UNCHANGED flushed
       \/ Flush /\ flushed' = log /\ UNCHANGED log
       \/ /\ \/ FlushFails \/ Delete
             \/ \E item \in Puttable : PutFails(item)
          /\ UNCHANGED <<log, flushed>>
    /\ UNCHANGED <<reading, foreign, src>>

(* The source, until now at the start of an empty text, gets the dump.      *)
Open ==
    /\ ~isOpen /\ ~reading
    /\ out # NoOutput
    /\ reading' = TRUE
    /\ rtext' = out
    /\ rmeant' = Decoded(out)
    /\ UNCHANGED <<snk, foreign, rpos, rline, rcol, rbuf, rerror, rerr, rbusy, rat, rbyte, rlen,
                   rgot, rended>>

Read ==
    /\ reading
    /\ ~rended
    /\ Src!Next
    /\ UNCHANGED <<snk, reading, foreign>>

RTNext == Write \/ Open \/ Read

(* The reader calls until the end or an error, the transfer loop of         *)
(* hidrd-convert, and every call runs until it returns.                     *)
RTSpec ==
    RTInit /\ [][RTNext]_<<snk, src, reading, foreign>> /\ WF_src((rbusy \/ ~rerror) /\ Read)

------------------------------------------------------------------------------
(* Reading comes to its end or, in a dump of somebody else, to an error,    *)
(* and a dump of the sink gives back the items that were put before it was  *)
(* delivered, whatever its lines look like.  A call repeated after an error *)
(* returns, too.                                                            *)
ReadEnds ==
    /\ reading ~> IF foreign THEN rended \/ rerror ELSE rended /\ rgot = flushed
    /\ rbusy ~> ~rbusy

(* An error is the first thing wrong with the dump.                         *)
ErrorRight == Src!ErrorRight

(* The line the source counts is the line of the dump it is at.             *)
LineRight == Src!LineRight

(* A source that was opened returns the items of its dump in their order,   *)
(* then the end.                                                            *)
ReadsItems == [][reading => Src!Abstract!Next \/ UNCHANGED Src!Abstract!vars]_src
=============================================================================
