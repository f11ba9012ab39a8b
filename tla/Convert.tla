------------------------------- MODULE Convert -------------------------------
(***************************************************************************)
(* hidrd-convert, process() of src/hidrd-convert.c: opens an input and an  *)
(* output, reads the whole of one (lib/util/fd.c), moves its items from a  *)
(* source to a sink, and writes the text of the sink to the other.  The    *)
(* source is the native one; of the sink it takes what ItemSnk promises,   *)
(* with the items' own bytes for a text.                                   *)
(***************************************************************************)
EXTENDS ItemCodec, SequencesExt

CONSTANTS
    Contents(_),    \* what the input may hold under given arguments: sequences of bytes
    Formats,    \* format name -> [readable, writable, init : BOOLEAN]
    Unknown,    \* a name that is not a format's
    Alloc       \* bytes allocated for the input at first: 4096

ASSUME AllocAssumption == Alloc \in Nat \ {0} /\ Alloc % 2 = 0
ASSUME FormatAssumption == Unknown \notin DOMAIN Formats

VARIABLES
    args,       \* the names of the files and of the formats
    files,      \* the contents of the files
    before,     \* those when the program began
    step,       \* what process() does next
    result,     \* the exit status
    errnoSet,   \* errno is not zero
    held,       \* the resources to release
    alloc,      \* bytes allocated for the input
    buf, pos, error, err, got, ended,   \* the source, see NatvSrc
    log,        \* the items put in the sink
    left        \* the bytes of the output that are not written

source == <<pos, error, err, got, ended>>
vars == <<args, files, before, step, result, errnoSet, held, alloc, buf, source, log, left>>

Arguments ==
    [input : {"stdin", "a"}, output : {"stdout", "a", "b"},
     from : DOMAIN Formats \cup {Unknown}, to : DOMAIN Formats \cup {Unknown}]

(* Files hold bytes.                                                        *)
ASSUME ContentsAssumption == \A a \in Arguments : Contents(a) \subseteq Seq(Byte)

Src == INSTANCE NatvSrc WITH Buffers <- UNION {Contents(a) : a \in Arguments}

Input == args.input
Output == args.output

Init ==
    /\ args \in Arguments
    /\ \E content \in Contents(args), old \in {<<>>, <<192>>} :
           files = [f \in {"stdin", "stdout", "a", "b"} |->
                       IF f = Input THEN content ELSE IF f = "b" THEN old ELSE <<>>]
    /\ before = files
    /\ step = "input format"
    /\ result = 1
    /\ errnoSet = FALSE
    /\ held = {}
    /\ alloc = Alloc
    /\ buf = <<>>
    /\ pos = 0 /\ error = FALSE /\ err = "none" /\ got = <<>> /\ ended = FALSE
    /\ log = <<>>
    /\ left = <<>>

At(s) == step = s
GoTo(s) == step' = s
Fail == GoTo("cleanup")
Unread == UNCHANGED <<alloc, buf>>
Untransferred == UNCHANGED <<source, log, left>>

------------------------------------------------------------------------------
(* A format is cleaned up once it is found, ready or not.  Its              *)
(* initialization may fail, and may leave any errno.                        *)
FindFormat(name, usable, resource, next) ==
    /\ held' = IF name \in DOMAIN Formats THEN held \cup {resource} ELSE held
    /\ \/ /\ name \in DOMAIN Formats /\ usable
          /\ GoTo(next)
       \/ /\ name \in DOMAIN Formats /\ usable => Formats[name].init
          /\ Fail
    /\ \/ UNCHANGED errnoSet
       \/ name \in DOMAIN Formats /\ usable /\ Formats[name].init /\ errnoSet' = TRUE
    /\ UNCHANGED <<args, files, before, result>>
    /\ Unread /\ Untransferred

FindInputFormat ==
    /\ At("input format")
    /\ FindFormat(args.from, args.from \in DOMAIN Formats /\ Formats[args.from].readable,
                  "input_fmt", "output format")
FindOutputFormat ==
    /\ At("output format")
    /\ FindFormat(args.to, args.to \in DOMAIN Formats /\ Formats[args.to].writable,
                  "output_fmt", "open input")

OpenInput ==
    /\ At("open input")
    /\ \/ /\ GoTo("open output")
          /\ held' = held \cup (IF Input = "stdin" THEN {} ELSE {"input_fd"})
          /\ UNCHANGED errnoSet
       \/ /\ Input # "stdin"
          /\ Fail
          /\ errnoSet' = TRUE
          /\ UNCHANGED held
    /\ UNCHANGED <<args, files, before, result>>
    /\ Unread /\ Untransferred

(* A file is created or truncated.                                          *)
OpenOutput ==
    /\ At("open output")
    /\ \/ /\ GoTo("read")
          /\ held' = held \cup (IF Output = "stdout" THEN {} ELSE {"output_fd"})
          /\ files' = [files EXCEPT ![Output] = <<>>]
          /\ UNCHANGED errnoSet
       \/ /\ Output # "stdout"
          /\ Fail
          /\ errnoSet' = TRUE
          /\ UNCHANGED <<files, held>>
    /\ UNCHANGED <<args, before, result>>
    /\ Unread /\ Untransferred

------------------------------------------------------------------------------
(* hidrd_fd_read_whole(): one read() of what there is room for, and room    *)
(* for more as soon as half of it is filled.                                *)
GrownWhenFull(size) == IF size > alloc THEN 2 * alloc ELSE alloc
Grown(size) == IF size > alloc \div 2 THEN 2 * alloc ELSE alloc

ReadSome ==
    /\ At("read")
    /\ \E n \in 1 .. (alloc - Len(buf)) :
         /\ Len(buf) + n <= Len(files[Input])
         /\ LET size == Len(buf) + n
            IN  \/ /\ buf' = SubSeq(files[Input], 1, size)
                   /\ alloc' = Grown(size)
                   /\ UNCHANGED <<step, errnoSet>>
                \/ /\ Grown(size) # alloc
                   /\ Fail
                   /\ errnoSet' = TRUE
                   /\ buf' = <<>>
                   /\ UNCHANGED alloc
    /\ UNCHANGED <<args, files, before, result, held>>
    /\ Untransferred

(* read() returns 0, at the end or when there is no room; whether that is   *)
(* an error is told by errno.  ReadFails is also the want of memory.        *)
ReadEnd ==
    /\ At("read")
    /\ Len(buf) = Len(files[Input]) \/ Len(buf) = alloc
    /\ IF errnoSet
       THEN /\ Fail
            /\ buf' = <<>>
            /\ UNCHANGED held
       ELSE /\ GoTo("open source")
            /\ held' = held \cup {"input_buf"}
            /\ UNCHANGED buf
    /\ UNCHANGED <<args, files, before, result, errnoSet, alloc>>
    /\ Untransferred

ReadFails ==
    /\ At("read")
    /\ Fail
    /\ errnoSet' = TRUE
    /\ buf' = <<>>
    /\ UNCHANGED <<args, files, before, result, held, alloc>>
    /\ Untransferred

------------------------------------------------------------------------------
OpenStream(at, resource, next) ==
    /\ At(at)
    /\ \/ /\ GoTo(next)
          /\ held' = held \cup {resource}
       \/ /\ Fail
          /\ UNCHANGED held
    /\ UNCHANGED <<args, files, before, result, errnoSet>>
    /\ Unread /\ Untransferred

OpenSource == OpenStream("open source", "input", "open sink")
OpenSink == OpenStream("open sink", "output", "transfer")

(* The loop: an item got is put; without one, the error indicator tells     *)
(* whether that was the end.                                                *)
TransferItem ==
    /\ At("transfer")
    /\ Src!GetItem
    /\ \/ log' = Append(log, Last(got')) /\ UNCHANGED step
       \/ UNCHANGED log /\ Fail
    /\ UNCHANGED <<args, files, before, result, errnoSet, held, alloc, buf, left>>

TransferRetries ==
    /\ At("transfer")
    /\ Src!GetShort \/ Src!GetInvalid
    /\ UNCHANGED <<args, files, before, result, errnoSet, held, alloc, buf, log, left, step>>
TransferError ==
    /\ At("transfer")
    /\ Src!GetShort \/ Src!GetInvalid
    /\ Fail
    /\ UNCHANGED <<args, files, before, result, errnoSet, held, alloc, buf, log, left>>

TransferEnd ==
    /\ At("transfer")
    /\ Src!GetEnd
    /\ GoTo("close")
    /\ UNCHANGED <<args, files, before, result, errnoSet, held, alloc, buf, log, left>>

(* The source is deleted; closing the sink flushes it, and deletes it       *)
(* unless that fails.  The output's buffer is the user's either way.        *)
Close ==
    /\ At("close")
    /\ \/ /\ left' = FlattenSeq(log)
          /\ held' = (held \ {"input", "output"}) \cup {"output_buf"}
          /\ GoTo("write")
       \/ /\ UNCHANGED left
          /\ held' = (held \ {"input"}) \cup {"output_buf"}
          /\ Fail
    /\ UNCHANGED <<args, files, before, result, errnoSet, alloc, buf, source, log>>

------------------------------------------------------------------------------
(* hidrd_fd_write_whole(): one write(), of some of what is left.            *)
WriteSome ==
    /\ At("write")
    /\ \E n \in 1 .. Len(left) :
         /\ files' = [files EXCEPT ![Output] = @ \o SubSeq(left, 1, n)]
         /\ left' = SubSeq(left, n + 1, Len(left))
    /\ UNCHANGED <<args, before, step, result, errnoSet, held, alloc, buf, source, log>>

WriteFails ==
    /\ At("write")
    /\ left # <<>>
    /\ Fail
    /\ errnoSet' = TRUE
    /\ UNCHANGED <<args, files, before, result, held, alloc, buf, source, log, left>>

WriteEnd ==
    /\ At("write")
    /\ left = <<>>
    /\ result' = 0
    /\ GoTo("cleanup")
    /\ UNCHANGED <<args, files, before, errnoSet, held, alloc, buf, source, log, left>>

(* The resources, in the order they are released.                           *)
CleanupFromBuffers ==
    <<"output_buf", "input_buf", "input", "output", "input_fd", "output_fd", "output_fmt", "input_fmt">>
CleanupOrder ==
    <<"input", "output", "output_buf", "input_buf", "input_fd", "output_fd", "output_fmt", "input_fmt">>

Cleanup ==
    /\ At("cleanup")
    /\ \/ /\ \A i \in DOMAIN CleanupOrder : CleanupOrder[i] \notin held
          /\ GoTo("done")
          /\ UNCHANGED held
       \/ \E i \in DOMAIN CleanupOrder :
             /\ CleanupOrder[i] \in held
             /\ \A j \in 1 .. i - 1 : CleanupOrder[j] \notin held
             /\ held' = held \ {CleanupOrder[i]}
             /\ UNCHANGED step
    /\ UNCHANGED <<args, files, before, result, errnoSet, alloc, buf, source, log, left>>

Next ==
    \/ FindInputFormat \/ FindOutputFormat \/ OpenInput \/ OpenOutput
    \/ ReadSome \/ ReadEnd \/ ReadFails
    \/ OpenSource \/ OpenSink
    \/ TransferItem \/ TransferError \/ TransferEnd \/ Close
    \/ WriteSome \/ WriteFails \/ WriteEnd \/ Cleanup

(* The program runs on, and the calls it makes return.                      *)
Spec == Init /\ [][Next]_vars /\ WF_vars(Next)

------------------------------------------------------------------------------
(* What the input holds when it is read: nothing, when it is the output.    *)
Original == IF Input = Output THEN <<>> ELSE before[Input]
Converted == FlattenSeq(Cut(Original).items)

(* Success means that the input was items to its last byte and that the     *)
(* output has them all.  Nothing is written before all of the input is      *)
(* converted, and a failure later leaves the beginning of it.  No other     *)
(* file changes.                                                            *)
OutputRight ==
    /\ step = "done" /\ result = 0 => Cut(Original).why = "none" /\ files[Output] = Converted
    /\ files[Output] \in {before[Output], <<>>}
         \/ (Cut(Original).why = "none" /\ IsPrefix(files[Output], Converted))
    /\ \A f \in DOMAIN files \ {Output} : files[f] = before[f]

(* At whichever step it fails, the program ends with everything released,   *)
(* and never has a source without the buffer that the source's items are    *)
(* in.                                                                      *)
AllReleased ==
    /\ step = "done" => held = {}
    /\ "input" \in held => "input_buf" \in held

(* The end of the items is the end of the input: bytes left over are an     *)
(* error, which says what is wrong at the place the source stopped at.      *)
ErrorRight == Src!ErrorRight

(* However the input is read and whatever fails, the items that reach the   *)
(* sink are those of the input, in order and without a gap, and the source  *)
(* ends only after the last.                                                *)
Abstract == INSTANCE ItemSrc WITH text <- Cut(Original).items, delivered <- got
ImplementsItemSrc == Abstract!Spec

(* The program ends.                                                        *)
Terminates == <>(step = "done")
==============================================================================
