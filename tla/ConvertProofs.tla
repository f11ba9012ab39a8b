---------------------------- MODULE ConvertProofs ----------------------------
(***************************************************************************)
(* However a run of hidrd-convert goes, and wherever it fails: nothing is  *)
(* left to release when it ends, and the source never outlives the buffer  *)
(* its items are in; the items that reach the sink are those of the input; *)
(* and the exit status tells the truth about the output.                   *)
(***************************************************************************)
EXTENDS Convert, Recursion

------------------------------------------------------------------------------
(* The stages between which the buffer of the input is there, and the       *)
(* source.  The cleanup may begin after any of them, so there all that is   *)
(* known is which resources there can be at all.                            *)
Resources ==
    {"input", "output", "output_buf", "input_buf", "input_fd", "output_fd", "output_fmt",
     "input_fmt"}
WithInput == {"open source", "open sink", "transfer", "close", "write"}

ReleasedInv ==
    /\ held \subseteq Resources
    /\ step = "done" => held = {}
    /\ "input" \in held => "input_buf" \in held
    /\ step \in WithInput => "input_buf" \in held

THEOREM ReleasedInit == Init => ReleasedInv
  BY DEF Init, ReleasedInv, WithInput, At

LEMMA CleanupKeeps == ReleasedInv /\ Cleanup => ReleasedInv'
<1> SUFFICES ASSUME ReleasedInv, Cleanup PROVE ReleasedInv'
  OBVIOUS
<1>0. step = "cleanup"
  BY DEF Cleanup, At
<1>1. CASE /\ \A i \in DOMAIN CleanupOrder : CleanupOrder[i] \notin held
           /\ GoTo("done")
           /\ UNCHANGED held
  <2>1. \A r \in Resources : \E i \in DOMAIN CleanupOrder : CleanupOrder[i] = r
    <3>1. DOMAIN CleanupOrder = 1 .. 8
      BY DEF CleanupOrder
    <3>2. /\ CleanupOrder[1] = "input" /\ CleanupOrder[2] = "output"
          /\ CleanupOrder[3] = "output_buf" /\ CleanupOrder[4] = "input_buf"
          /\ CleanupOrder[5] = "input_fd" /\ CleanupOrder[6] = "output_fd"
          /\ CleanupOrder[7] = "output_fmt" /\ CleanupOrder[8] = "input_fmt"
      BY DEF CleanupOrder
    <3> QED
      BY <3>1, <3>2 DEF Resources
  <2>2. held = {}
    BY <1>1, <2>1 DEF ReleasedInv
  <2> QED
    BY <1>1, <2>2 DEF ReleasedInv, GoTo, WithInput
<1>2. ASSUME NEW i \in DOMAIN CleanupOrder,
             CleanupOrder[i] \in held,
             \A j \in 1 .. i - 1 : CleanupOrder[j] \notin held,
             held' = held \ {CleanupOrder[i]},
             UNCHANGED step
      PROVE  ReleasedInv'
  <2>1. CleanupOrder[i] = "input_buf" => "input" \notin held
    <3>1. i \in 1 .. 8 /\ CleanupOrder[1] = "input"
      BY DEF CleanupOrder
    <3>2. i = 1 \/ 1 \in 1 .. i - 1
      BY <3>1
    <3>3. CleanupOrder[1] # "input_buf"
      BY DEF CleanupOrder
    <3> QED
      BY <1>2, <3>1, <3>2, <3>3
  <2> QED
    BY <1>0, <1>2, <2>1 DEF ReleasedInv, WithInput, Resources
<1> QED
  BY <1>1, <1>2 DEF Cleanup

LEMMA StepKeeps == ReleasedInv /\ [Next]_vars => ReleasedInv'
<1> SUFFICES ASSUME ReleasedInv, [Next]_vars PROVE ReleasedInv'
  OBVIOUS
<1> USE DEF ReleasedInv, Resources, At, GoTo, Fail, WithInput
<1>1. CASE FindInputFormat
  BY <1>1 DEF FindInputFormat, FindFormat
<1>2. CASE FindOutputFormat
  BY <1>2 DEF FindOutputFormat, FindFormat
<1>3. CASE OpenInput
  BY <1>3 DEF OpenInput
<1>4. CASE OpenOutput
  BY <1>4 DEF OpenOutput
<1>5. CASE ReadSome
  BY <1>5 DEF ReadSome
<1>6. CASE ReadEnd \/ ReadFails
  BY <1>6 DEF ReadEnd, ReadFails
<1>7. CASE OpenSource \/ OpenSink
  BY <1>7 DEF OpenSource, OpenSink, OpenStream
<1>8. CASE TransferItem \/ TransferError \/ TransferEnd
  BY <1>8 DEF TransferItem, TransferError, TransferEnd
<1>9. CASE Close
  BY <1>9 DEF Close
<1>10. CASE WriteSome \/ WriteFails \/ WriteEnd
  BY <1>10 DEF WriteSome, WriteFails, WriteEnd
<1>11. CASE Cleanup
  BY <1>11, CleanupKeeps
<1>12. CASE UNCHANGED vars
  BY <1>12 DEF vars
<1> QED
  BY <1>1, <1>2, <1>3, <1>4, <1>5, <1>6, <1>7, <1>8, <1>9, <1>10, <1>11, <1>12 DEF Next

(* process() of hidrd-convert releases what it acquired, on every path to   *)
(* its end, whatever the input and the formats are and whichever call       *)
(* fails.                                                                   *)
THEOREM EverythingReleased == Spec => []AllReleased
<1>1. ReleasedInv => AllReleased
  BY DEF ReleasedInv, AllReleased
<1> QED
  BY <1>1, ReleasedInit, StepKeeps, PTL DEF Spec

------------------------------------------------------------------------------
(* The source has the same codec.                                           *)
LEMMA SrcSame ==
  /\ \A bytes : Src!Cut(bytes) = Cut(bytes)
  /\ \A bytes : Src!Fits(bytes) = Fits(bytes)
  /\ \A bytes : Src!ItemSize(bytes) = ItemSize(bytes)
  /\ \A item : Src!ItemValid(item) = ItemValid(item)
<1> USE DEF Fits, Src!Fits, ItemSize, Src!ItemSize, IsLong, Src!IsLong, DataBytes,
      Src!DataBytes, SizeCode, Src!SizeCode, TypeOf, Src!TypeOf, TagOf, Src!TagOf, Main,
      Src!Main, Global, Src!Global, Local, Src!Local, ItemValid, Src!ItemValid, TagValid,
      Src!TagValid, ValueValid, Src!ValueValid, CollectionTypeValid,
      Src!CollectionTypeValid, UsagePageValid, Src!UsagePageValid, ReportIdValid,
      Src!ReportIdValid, DelimiterValid, Src!DelimiterValid, HighZero, Src!HighZero,
      DataByte, Src!DataByte, Data, Src!Data
<1>1. \A bytes : Src!Cut(bytes) = Cut(bytes)
  BY Zenon DEF Cut, Src!Cut, Byte, Src!Byte, Found, Src!Found
<1>2. \A bytes : Src!Fits(bytes) = Fits(bytes)
  BY Zenon
<1>3. \A bytes : Src!ItemSize(bytes) = ItemSize(bytes)
  BY Zenon
<1>4. \A item : Src!ItemValid(item) = ItemValid(item)
  BY Zenon
<1> QED
  BY <1>1, <1>2, <1>3, <1>4

------------------------------------------------------------------------------
(* The items found before a place in the input, and those from there on.    *)
Split(b, p, g) ==
    /\ Cut(b).items = g \o Cut(RestAt(b, p)).items
    /\ Cut(b).why = Cut(RestAt(b, p)).why

(* All of the input is left at first, and an item moves from what is left   *)
(* to what was found.                                                       *)
LEMMA SplitStart == \A b \in Seq(Byte) : Split(b, 0, <<>>)
<1> SUFFICES ASSUME NEW b \in Seq(Byte) PROVE Split(b, 0, <<>>)
  OBVIOUS
<1>1. RestAt(b, 0) = b
  BY RestFacts
<1>2. Cut(b).items \in Seq(Seq(Byte))
  BY CutType
<1>3. <<>> \o Cut(b).items = Cut(b).items
  BY <1>2
<1> QED
  BY <1>1, <1>3 DEF Split

LEMMA SplitStep ==
  ASSUME NEW b \in Seq(Byte), NEW p \in Nat, NEW g \in Seq(Seq(Byte)), Split(b, p, g),
         Fits(RestAt(b, p)), ItemValid(FirstItem(RestAt(b, p)))
  PROVE  /\ FirstItem(RestAt(b, p)) \in Seq(Byte)
         /\ ItemSize(RestAt(b, p)) \in Nat
         /\ Split(b, p + ItemSize(RestAt(b, p)), Append(g, FirstItem(RestAt(b, p))))
         /\ Len(g) < Len(Cut(b).items)
         /\ Cut(b).items[Len(g) + 1] = FirstItem(RestAt(b, p))
<1> DEFINE r == RestAt(b, p)
           k == ItemSize(r)
           e == FirstItem(r)
           its == Cut(RestAt(b, p + k)).items
<1>1. r \in Seq(Byte) /\ r # <<>> /\ p < Len(b)
  <2>1. r \in Seq(Byte) /\ (p >= Len(b) => r = <<>>)
    BY RestFacts
  <2>2. Len(<<>>) = 0 /\ ~(0 >= 1)
    OBVIOUS
  <2>3. Len(r) >= 1
    BY DEF Fits
  <2> QED
    BY <2>1, <2>2, <2>3
<1>2. k \in Nat /\ e \in Seq(Byte) /\ AfterFirst(r) \in Seq(Byte)
  BY <1>1, FirstFacts
<1>3. AfterFirst(r) = RestAt(b, p + k)
  BY <1>1, <1>2, RestOfRest DEF AfterFirst
<1>4. its \in Seq(Seq(Byte)) /\ Cut(AfterFirst(r)) = [items |-> its, why |-> Cut(AfterFirst(r)).why]
  BY <1>2, <1>3, CutType
<1>5. Cut(r) = [Cut(AfterFirst(r)) EXCEPT !.items = <<e>> \o @]
  BY <1>1, CutDef DEF CutStep
<1>6. Cut(r).items = <<e>> \o its /\ Cut(r).why = Cut(RestAt(b, p + k)).why
  BY <1>3, <1>4, <1>5
<1>7. Cut(b).items = g \o (<<e>> \o its) /\ Cut(b).why = Cut(RestAt(b, p + k)).why
  BY <1>6 DEF Split
<1> HIDE DEF its, e, k, r
<1>8. /\ g \o (<<e>> \o its) = Append(g, e) \o its
      /\ Len(g) < Len(g \o (<<e>> \o its))
      /\ (g \o (<<e>> \o its))[Len(g) + 1] = e
  <2> DEFINE h == Append(g, e)
  <2>1. <<e>> \in Seq(Seq(Byte)) /\ its \in Seq(Seq(Byte))
    BY <1>2, <1>4
  <2>2. h \in Seq(Seq(Byte)) /\ Len(h) = Len(g) + 1 /\ h[Len(g) + 1] = e /\ Len(g) \in Nat
    BY <1>2
  <2>3. h \o its = g \o (<<e>> \o its)
    BY <1>2, <2>1, AppendIsConcat, ConcatAssociative, SMTT(30)
  <2> HIDE DEF h
  <2>4. /\ Len(h \o its) = Len(h) + Len(its) /\ Len(its) \in Nat
        /\ \A i \in 1 .. Len(h) + Len(its) :
              (h \o its)[i] = IF i <= Len(h) THEN h[i] ELSE its[i - Len(h)]
    <3> DEFINE S == Seq(Byte)
    <3>1. h \in Seq(S) /\ its \in Seq(S)
      BY <2>1, <2>2
    <3> HIDE DEF S
    <3> QED
      BY <3>1, ConcatProperties
  <2>5. Len(g) < Len(h \o its) /\ (h \o its)[Len(g) + 1] = e
    BY <2>2, <2>4
  <2> QED
    BY <2>3, <2>5 DEF h
<1>9. Split(b, p + k, Append(g, e))
  BY <1>7, <1>8 DEF Split, its
<1> QED
  BY <1>2, <1>7, <1>8, <1>9 DEF e, k, r

(* The bytes at which the items end are an error, unless there are none.    *)
LEMMA SplitStops ==
  ASSUME NEW b \in Seq(Byte), NEW p \in Nat, NEW g \in Seq(Seq(Byte)), Split(b, p, g)
  PROVE  /\ p >= Len(b) => Cut(b).items = g /\ Cut(b).why = "none"
         /\ p < Len(b) /\ ~Fits(RestAt(b, p)) => Cut(b).items = g /\ Cut(b).why = "short"
         /\ Fits(RestAt(b, p)) /\ ~ItemValid(FirstItem(RestAt(b, p))) =>
               Cut(b).items = g /\ Cut(b).why = "invalid"
<1> DEFINE r == RestAt(b, p)
<1>1. r \in Seq(Byte) /\ (p >= Len(b) => r = <<>>) /\ (p < Len(b) => r # <<>>)
  BY RestFacts
<1>2. Cut(r) = CutStep(r, Cut(AfterFirst(r)))
  BY <1>1, CutDef
<1>3. \A why : Cut(r) = Found(<<>>, why) => Cut(b).items = g /\ Cut(b).why = why
  <2>1. g \o <<>> = g
    OBVIOUS
  <2> QED
    BY <2>1 DEF Split, Found
<1> HIDE DEF r
<1>4. Fits(r) => r # <<>>
  <2>1. Len(<<>>) = 0 /\ ~(0 >= 1)
    OBVIOUS
  <2> QED
    BY <2>1 DEF Fits
<1>5. /\ r = <<>> => Cut(r) = Found(<<>>, "none")
      /\ r # <<>> /\ ~Fits(r) => Cut(r) = Found(<<>>, "short")
      /\ r # <<>> /\ Fits(r) /\ ~ItemValid(FirstItem(r)) => Cut(r) = Found(<<>>, "invalid")
  BY <1>2, Zenon DEF CutStep
<1> HIDE DEF Found
<1>6. b \in Seq(Byte) => (p >= Len(b) \/ p < Len(b))
  OBVIOUS
<1> QED
  BY <1>1, <1>3, <1>4, <1>5, <1>6 DEF r

------------------------------------------------------------------------------
(* The inductive invariant.  Up to the reading the output is untouched,     *)
(* then empty until all of the input is converted; what is read is the      *)
(* beginning of the input, and at the end of the reading all of it; the     *)
(* items found and those that are left make up those of the input; the sink *)
(* has what was found; and when it writes, the output and what is left make *)
(* up the converted whole.                                                  *)
Files == {"stdin", "stdout", "a", "b"}
Opening == {"input format", "output format", "open input", "open output"}
Streaming == {"open source", "open sink", "transfer", "close"}
Stopped == {"cleanup", "done"}

TypeInv ==
    /\ args \in Arguments
    /\ files \in [Files -> Seq(Byte)]
    /\ before \in [Files -> Seq(Byte)]
    /\ step \in Opening \cup {"read"} \cup Streaming \cup {"write"} \cup Stopped
    /\ alloc \in Nat /\ alloc >= 2 /\ alloc % 2 = 0
    /\ buf \in Seq(Byte)
    /\ pos \in Nat
    /\ got \in Seq(Seq(Byte))
    /\ log \in Seq(Seq(Byte))
    /\ left \in Seq(Byte)

ReadInv ==
    /\ step = "read" => /\ Len(buf) <= alloc \div 2
                        /\ Len(buf) <= Len(files[Input])
                        /\ buf = SubSeq(files[Input], 1, Len(buf))
    /\ step \in Opening => buf = <<>>
    /\ step \in Streaming \cup {"write"} => buf = Original

SourceInv ==
    /\ Split(buf, pos, got)
    /\ error => Cut(buf).items = got /\ err = Cut(buf).why
    /\ ended => Cut(buf).items = got /\ Cut(buf).why = "none"
    /\ buf # Original => ~error /\ ~ended /\ got = <<>> /\ pos = 0
    /\ step \in Opening \cup {"read", "open source", "open sink"} =>
          pos = 0 /\ got = <<>> /\ log = <<>>
    /\ step \in Opening \cup {"read", "open source", "open sink", "transfer"} => ~error /\ ~ended
    /\ step \in {"transfer", "close"} => log = got
    /\ step = "close" => ended

OutputInv ==
    /\ \A f \in Files \ {Output} : files[f] = before[f]
    /\ step \in Opening => files[Output] = before[Output]
    /\ step \in {"read"} \cup Streaming => files[Output] = <<>>
    /\ step = "write" => Cut(Original).why = "none" /\ files[Output] \o left = Converted
    /\ step \in Stopped =>
          \/ files[Output] \in {before[Output], <<>>}
          \/ Cut(Original).why = "none" /\ IsPrefix(files[Output], Converted)
    /\ result = 0 =>
          step \in Stopped /\ Cut(Original).why = "none" /\ files[Output] = Converted
ConvertInv == TypeInv /\ ReadInv /\ SourceInv /\ OutputInv

LEMMA PrefixOfConcat ==
  ASSUME NEW S, NEW s \in Seq(S), NEW t \in Seq(S)
  PROVE  IsPrefix(s, s \o t)
<1> DEFINE u == s \o t
<1>1. /\ Len(u) = Len(s) + Len(t) /\ Len(s) \in Nat /\ Len(t) \in Nat
      /\ \A i \in 1 .. Len(s) : u[i] = s[i]
  OBVIOUS
<1> HIDE DEF u
<1>2. SubSeq(s, 1, Len(s)) = [i \in 1 .. Len(s) |-> s[i]]
  BY <1>1
<1>3. SubSeq(u, 1, Len(s)) = [i \in 1 .. Len(s) |-> u[i]]
  BY <1>1
<1>4. SubSeq(s, 1, Len(s)) = SubSeq(u, 1, Len(s))
  BY <1>1, <1>2, <1>3
<1> QED
  BY <1>1, <1>4 DEF IsPrefix, u

LEMMA NamesType ==
  ASSUME TypeInv
  PROVE  Input \in Files /\ Output \in Files /\ Original \in Seq(Byte)
<1>1. Input \in Files /\ Output \in Files
  BY DEF TypeInv, Arguments, Files, Input, Output
<1> QED
  BY <1>1 DEF TypeInv, Original

LEMMA NamesStay ==
  ASSUME UNCHANGED <<args, before>>
  PROVE  /\ Input' = Input /\ Output' = Output /\ Original' = Original
         /\ Converted' = Converted
BY DEF Input, Output, Original, Converted

LEMMA ConvertInit == Init => ConvertInv
<1> SUFFICES ASSUME Init PROVE ConvertInv
  OBVIOUS
<1>1. PICK content \in Contents(args), old \in {<<>>, <<192>>} :
         files = [f \in {"stdin", "stdout", "a", "b"} |->
                     IF f = Input THEN content ELSE IF f = "b" THEN old ELSE <<>>]
  BY DEF Init
<1>2. content \in Seq(Byte) /\ old \in Seq(Byte) /\ <<>> \in Seq(Byte)
  <2>1. content \in Seq(Byte)
    BY <1>1, ContentsAssumption DEF Init
  <2>2. <<192>> \in Seq(Byte) /\ <<>> \in Seq(Byte)
    BY DEF Byte
  <2>3. old \in Seq(Byte)
    BY <2>2
  <2> QED
    BY <2>1, <2>2, <2>3
<1>3. files \in [Files -> Seq(Byte)]
  BY <1>1, <1>2 DEF Files
<1>4. Alloc >= 2
  BY AllocAssumption
<1>5. TypeInv
  <2>1. args \in Arguments /\ before \in [Files -> Seq(Byte)]
    BY <1>3 DEF Init
  <2>2. step \in Opening
    BY DEF Init, Opening
  <2>3. alloc \in Nat /\ alloc >= 2 /\ alloc % 2 = 0 /\ pos \in Nat
    BY <1>4, AllocAssumption DEF Init
  <2>4. <<>> \in Seq(Seq(Byte))
    OBVIOUS
  <2>5. buf \in Seq(Byte) /\ left \in Seq(Byte) /\ got \in Seq(Seq(Byte)) /\ log \in Seq(Seq(Byte))
    BY <1>2, <2>4 DEF Init
  <2> QED
    BY <1>3, <2>1, <2>2, <2>3, <2>5 DEF TypeInv
<1>6. Split(buf, pos, got)
  BY <1>2, SplitStart DEF Init
<1>7. ReadInv
  BY DEF Init, ReadInv, Opening, Streaming
<1>8. SourceInv
  BY <1>6 DEF Init, SourceInv, Opening
<1>9. OutputInv
  <2>1. before = files /\ step = "input format" /\ result = 1
    BY DEF Init
  <2>2. 1 # 0
    OBVIOUS
  <2> QED
    BY <2>1, <2>2 DEF OutputInv, Opening, Streaming, Stopped
<1> QED
  BY <1>5, <1>7, <1>8, <1>9 DEF ConvertInv

(* Steps that only go on to another part of process(), or to the cleanup.   *)
Moves(from, to) ==
    \/ to = from
    \/ from \in Opening /\ to \in Opening
    \/ from = "open source" /\ to = "open sink"
    \/ from = "open sink" /\ to = "transfer"
    \/ to = "cleanup" /\ from # "done"
    \/ from = "cleanup" /\ to = "done"

LEMMA MoveKeeps ==
  ASSUME ConvertInv, Moves(step, step'),
         UNCHANGED <<args, files, before, result, alloc, buf, source, log, left>>
  PROVE  ConvertInv'
<1> DEFINE Steps == Opening \cup {"read"} \cup Streaming \cup {"write"} \cup Stopped
<1>1. step \in Steps /\ step' \in Steps
  BY DEF ConvertInv, TypeInv, Moves, Opening, Streaming, Stopped
<1>2. TypeInv'
  BY <1>1 DEF ConvertInv, TypeInv, source
<1>3. /\ Input' = Input /\ Output' = Output /\ Original' = Original
      /\ Converted' = Converted
  BY NamesStay
<1>4. ReadInv'
  BY <1>1, <1>3 DEF ConvertInv, ReadInv, Moves, Opening, Streaming, Stopped
<1>5. SourceInv'
  BY <1>1, <1>3 DEF ConvertInv, SourceInv, Moves, Opening, Streaming, Stopped, source
<1>6. step = "write" => IsPrefix(files[Output], Converted)
  <2>1. Output \in Files
    BY NamesType DEF ConvertInv
  <2>2. files[Output] \in Seq(Byte) /\ left \in Seq(Byte)
    BY <2>1 DEF ConvertInv, TypeInv
  <2>3. step = "write" => files[Output] \o left = Converted
    BY DEF ConvertInv, OutputInv
  <2> QED
    BY <2>2, <2>3, PrefixOfConcat
<1>7. OutputInv'
  BY <1>1, <1>3, <1>6 DEF ConvertInv, OutputInv, Moves, Opening, Streaming, Stopped
<1> QED
  BY <1>2, <1>4, <1>5, <1>7 DEF ConvertInv

(* The calls of the source, on what is left of the input.                   *)
LEMMA SourceCalls ==
  /\ Src!GetItem =>
        /\ Fits(RestAt(buf, pos)) /\ ItemValid(FirstItem(RestAt(buf, pos)))
        /\ pos' = pos + ItemSize(RestAt(buf, pos))
        /\ got' = Append(got, FirstItem(RestAt(buf, pos)))
        /\ UNCHANGED <<error, err, ended>>
  /\ Src!GetShort =>
        /\ pos < Len(buf) /\ ~Fits(RestAt(buf, pos))
        /\ error' = TRUE /\ err' = "short" /\ UNCHANGED <<pos, got, ended>>
  /\ Src!GetInvalid =>
        /\ Fits(RestAt(buf, pos)) /\ ~ItemValid(FirstItem(RestAt(buf, pos)))
        /\ error' = TRUE /\ err' = "invalid" /\ UNCHANGED <<pos, got, ended>>
  /\ Src!GetEnd => pos >= Len(buf) /\ ended' = TRUE /\ UNCHANGED <<pos, error, err, got>>
<1>1. Src!Rest = RestAt(buf, pos)
  BY DEF Src!Rest, RestAt
<1>2. Src!Here = FirstItem(RestAt(buf, pos))
  BY <1>1, SrcSame DEF Src!Here, FirstItem
<1> QED
  BY <1>1, <1>2, SrcSame DEF Src!GetItem, Src!GetShort, Src!GetInvalid, Src!GetEnd, Src!Fail

LEMMA TransferItemKeeps == ConvertInv /\ TransferItem => ConvertInv'
<1> SUFFICES ASSUME ConvertInv, TransferItem PROVE ConvertInv'
  OBVIOUS
<1> DEFINE R == RestAt(buf, pos)
<1>1. /\ step = "transfer" /\ UNCHANGED <<args, files, before, result, alloc, buf, left>>
      /\ \/ log' = Append(log, Last(got')) /\ step' = step
         \/ log' = log /\ step' = "cleanup"
  BY DEF TransferItem, At, Fail, GoTo
<1>2. /\ Fits(R) /\ ItemValid(FirstItem(R))
      /\ pos' = pos + ItemSize(R) /\ got' = Append(got, FirstItem(R))
      /\ UNCHANGED <<error, err, ended>>
  BY SourceCalls DEF TransferItem
<1>3. buf \in Seq(Byte) /\ pos \in Nat /\ got \in Seq(Seq(Byte)) /\ log \in Seq(Seq(Byte))
  BY DEF ConvertInv, TypeInv
<1>4. /\ Split(buf, pos, got) /\ ~error /\ ~ended /\ log = got /\ buf = Original
  BY <1>1 DEF ConvertInv, SourceInv, ReadInv, Streaming
<1>5. FirstItem(R) \in Seq(Byte) /\ ItemSize(R) \in Nat /\ Split(buf, pos', got')
  BY <1>2, <1>3, <1>4, SplitStep
<1> HIDE DEF R
<1>6. pos' \in Nat /\ got' \in Seq(Seq(Byte)) /\ Last(got') = FirstItem(R)
  BY <1>2, <1>3, <1>5 DEF Last
<1>7. /\ Input' = Input /\ Output' = Output /\ Original' = Original
      /\ Converted' = Converted
  BY <1>1, NamesStay
<1>8. log' \in Seq(Seq(Byte)) /\ (step' = "transfer" => log' = got')
  BY <1>1, <1>2, <1>3, <1>4, <1>5, <1>6
<1>9. TypeInv'
  BY <1>1, <1>6, <1>8 DEF ConvertInv, TypeInv, Stopped
<1>10. ReadInv'
  BY <1>1, <1>4, <1>7 DEF ReadInv, Opening, Streaming
<1>11. SourceInv'
  BY <1>1, <1>2, <1>4, <1>5, <1>7, <1>8 DEF SourceInv, Opening
<1>12. OutputInv'
  BY <1>1, <1>7 DEF ConvertInv, OutputInv, Opening, Streaming, Stopped
<1> QED
  BY <1>9, <1>10, <1>11, <1>12 DEF ConvertInv

(* An error or the end: nothing more is got.                                *)
LEMMA TransferStopKeeps == ConvertInv /\ (TransferError \/ TransferEnd) => ConvertInv'
<1> SUFFICES ASSUME ConvertInv, TransferError \/ TransferEnd PROVE ConvertInv'
  OBVIOUS
<1> DEFINE R == RestAt(buf, pos)
<1>1. /\ step = "transfer" /\ UNCHANGED <<args, files, before, result, alloc, buf, log, left>>
  BY DEF TransferError, TransferEnd, At
<1>2. buf \in Seq(Byte) /\ pos \in Nat /\ got \in Seq(Seq(Byte))
  BY DEF ConvertInv, TypeInv
<1>3. /\ Split(buf, pos, got) /\ ~error /\ ~ended /\ log = got /\ buf = Original
  BY <1>1 DEF ConvertInv, SourceInv, ReadInv, Streaming
<1>4. /\ pos' = pos /\ got' = got
      /\ step' \in {"close", "cleanup"}
      /\ error' => Cut(buf).items = got /\ err' = Cut(buf).why
      /\ ended' => Cut(buf).items = got /\ Cut(buf).why = "none"
      /\ step' = "close" => ended'
  <2>1. CASE TransferEnd
    <3>1. pos >= Len(buf) /\ ended' = TRUE /\ UNCHANGED <<pos, error, err, got>> /\ step' = "close"
      BY <2>1, SourceCalls DEF TransferEnd, GoTo
    <3> QED
      BY <1>2, <1>3, <3>1, SplitStops
  <2>2. CASE TransferError
    <3>1. step' = "cleanup" /\ (Src!GetShort \/ Src!GetInvalid)
      BY <2>2 DEF TransferError, Fail, GoTo
    <3>2. CASE Src!GetShort
      <4>1. /\ pos < Len(buf) /\ ~Fits(R)
            /\ error' = TRUE /\ err' = "short" /\ UNCHANGED <<pos, got, ended>>
        BY <3>2, SourceCalls
      <4> QED
        BY <1>2, <1>3, <3>1, <4>1, SplitStops
    <3>3. CASE Src!GetInvalid
      <4>1. /\ Fits(R) /\ ~ItemValid(FirstItem(R))
            /\ error' = TRUE /\ err' = "invalid" /\ UNCHANGED <<pos, got, ended>>
        BY <3>3, SourceCalls
      <4> QED
        BY <1>2, <1>3, <3>1, <4>1, SplitStops
    <3> QED
      BY <3>1, <3>2, <3>3
  <2> QED
    BY <2>1, <2>2
<1>7. /\ Input' = Input /\ Output' = Output /\ Original' = Original
      /\ Converted' = Converted
  BY <1>1, NamesStay
<1>9. TypeInv'
  BY <1>1, <1>4 DEF ConvertInv, TypeInv, Streaming, Stopped
<1>10. ReadInv'
  BY <1>1, <1>3, <1>4, <1>7 DEF ReadInv, Opening, Streaming
<1>11. SourceInv'
  BY <1>1, <1>3, <1>4, <1>7 DEF SourceInv, Opening
<1>12. OutputInv'
  BY <1>1, <1>4, <1>7 DEF ConvertInv, OutputInv, Opening, Streaming, Stopped
<1> QED
  BY <1>9, <1>10, <1>11, <1>12 DEF ConvertInv

LEMMA CloseKeeps == ConvertInv /\ Close => ConvertInv'
<1> SUFFICES ASSUME ConvertInv, Close PROVE ConvertInv'
  OBVIOUS
<1>1. /\ step = "close" /\ UNCHANGED <<args, files, before, result, alloc, buf, source, log>>
      /\ \/ left' = FlattenSeq(log) /\ step' = "write"
         \/ left' = left /\ step' = "cleanup"
  BY DEF Close, At, Fail, GoTo
<1>2. log \in Seq(Seq(Byte)) /\ left \in Seq(Byte) /\ files \in [Files -> Seq(Byte)]
  BY DEF ConvertInv, TypeInv
<1>3. log = got /\ buf = Original /\ Cut(Original).items = got /\ Cut(Original).why = "none"
  BY <1>1 DEF ConvertInv, SourceInv, ReadInv, Streaming
<1>4. FlattenSeq(log) = Converted /\ FlattenSeq(log) \in Seq(Byte)
  BY <1>2, <1>3, FlattenIsSeq DEF Converted
<1>5. left' \in Seq(Byte)
  BY <1>1, <1>2, <1>4
<1>6. files[Output] = <<>> /\ <<>> \o Converted = Converted
  <2>1. <<>> \o FlattenSeq(log) = FlattenSeq(log)
    BY <1>4
  <2> QED
    BY <1>1, <1>4, <2>1 DEF ConvertInv, OutputInv, Streaming
<1>7. /\ Input' = Input /\ Output' = Output /\ Original' = Original
      /\ Converted' = Converted
  BY <1>1, NamesStay
<1>9. TypeInv'
  BY <1>1, <1>5 DEF ConvertInv, TypeInv, source, Stopped
<1>10. ReadInv'
  BY <1>1, <1>3, <1>7 DEF ReadInv, Opening, Streaming
<1>11. SourceInv'
  BY <1>1, <1>3, <1>7 DEF ConvertInv, SourceInv, source, Opening
<1>12. OutputInv'
  BY <1>1, <1>3, <1>4, <1>6, <1>7 DEF ConvertInv, OutputInv, Opening, Streaming, Stopped
<1> QED
  BY <1>9, <1>10, <1>11, <1>12 DEF ConvertInv


LEMMA OpenOutputKeeps == ConvertInv /\ OpenOutput => ConvertInv'
<1> SUFFICES ASSUME ConvertInv, OpenOutput PROVE ConvertInv'
  OBVIOUS
<1>1. /\ step = "open output"
      /\ UNCHANGED <<args, before, result, alloc, buf, source, log, left>>
      /\ \/ step' = "read" /\ files' = [files EXCEPT ![Output] = <<>>]
         \/ step' = "cleanup" /\ files' = files
  BY DEF OpenOutput, At, GoTo, Fail, Unread, Untransferred
<1>2. CASE step' = "cleanup" /\ files' = files
  <2>1. Moves(step, step')
    BY <1>1, <1>2 DEF Moves
  <2> QED
    BY <1>1, <1>2, <2>1, MoveKeeps
<1>3. CASE step' = "read" /\ files' = [files EXCEPT ![Output] = <<>>]
  <2>1. Input \in Files /\ Output \in Files
    BY NamesType DEF ConvertInv
  <2>2. files \in [Files -> Seq(Byte)] /\ <<>> \in Seq(Byte)
    BY DEF ConvertInv, TypeInv
  <2>3. /\ files' \in [Files -> Seq(Byte)] /\ files'[Output] = <<>>
        /\ \A f \in Files \ {Output} : files'[f] = files[f]
    BY <1>3, <2>1, <2>2
  <2>4. /\ Input' = Input /\ Output' = Output /\ Original' = Original
        /\ Converted' = Converted
    BY <1>1, NamesStay
  <2>5. buf = <<>> /\ alloc \in Nat /\ alloc >= 2 /\ files'[Input] \in Seq(Byte)
    BY <1>1, <2>1, <2>3 DEF ConvertInv, TypeInv, ReadInv, Opening
  <2>6. TypeInv'
    BY <1>1, <1>3, <2>3 DEF ConvertInv, TypeInv, source
  <2>7. ReadInv'
    <3>1. buf' = <<>> /\ alloc' = alloc /\ Input' = Input
      BY <1>1, <2>4, <2>5
    <3>3. Len(<<>>) = 0 /\ SubSeq(files'[Input], 1, 0) = <<>>
      BY SubSeqEmpty
    <3>2. 0 <= alloc \div 2 /\ 0 <= Len(files'[Input])
      BY <2>5
    <3> QED
      BY <1>3, <3>1, <3>2, <3>3 DEF ReadInv, Opening, Streaming
  <2>8. SourceInv'
    BY <1>1, <1>3, <2>4 DEF ConvertInv, SourceInv, source, Opening
  <2>9. OutputInv'
    BY <1>1, <1>3, <2>3, <2>4 DEF ConvertInv, OutputInv, Opening, Streaming, Stopped
  <2> QED
    BY <2>6, <2>7, <2>8, <2>9 DEF ConvertInv
<1> QED
  BY <1>1, <1>2, <1>3

(* While it reads, what it has is the beginning of the input.               *)
LEMMA ReadKeeps == ConvertInv /\ (ReadSome \/ ReadEnd \/ ReadFails) => ConvertInv'
<1> SUFFICES ASSUME ConvertInv, ReadSome \/ ReadEnd \/ ReadFails PROVE ConvertInv'
  OBVIOUS
<1>1. /\ step = "read" /\ UNCHANGED <<args, files, before, result, source, log, left>>
  BY DEF ReadSome, ReadEnd, ReadFails, At, Untransferred
<1>2. Input \in Files /\ Output \in Files
  BY NamesType DEF ConvertInv
<1> DEFINE b == files[Input]
<1>3. /\ b \in Seq(Byte) /\ buf \in Seq(Byte)
      /\ alloc \in Nat /\ alloc >= 2 /\ alloc % 2 = 0
      /\ Len(buf) <= alloc \div 2 /\ Len(buf) <= Len(b) /\ buf = SubSeq(b, 1, Len(buf))
      /\ ~error /\ ~ended /\ got = <<>> /\ pos = 0 /\ log = <<>>
  BY <1>1, <1>2 DEF ConvertInv, TypeInv, ReadInv, SourceInv
<1>4. b = Original
  BY <1>1, <1>2 DEF ConvertInv, OutputInv, Original
<1> HIDE DEF b
<1>5. /\ buf' \in Seq(Byte) /\ alloc' \in Nat /\ alloc' >= 2 /\ alloc' % 2 = 0
      /\ step' \in {"read", "open source", "cleanup"}
      /\ step' = "read" => /\ Len(buf') <= alloc' \div 2
                           /\ Len(buf') <= Len(b)
                           /\ buf' = SubSeq(b, 1, Len(buf'))
      /\ step' = "open source" => buf' = b
  <2>1. CASE ReadSome
    <3>1. PICK n \in 1 .. (alloc - Len(buf)) :
             /\ Len(buf) + n <= Len(b)
             /\ \/ /\ buf' = SubSeq(b, 1, Len(buf) + n)
                   /\ alloc' = Grown(Len(buf) + n)
                   /\ step' = step
                \/ /\ step' = "cleanup" /\ buf' = <<>> /\ alloc' = alloc
      BY <2>1 DEF ReadSome, Fail, GoTo, b
    <3> DEFINE size == Len(buf) + n
    <3>2. size \in Nat /\ size <= alloc /\ size <= Len(b)
      BY <1>3, <3>1
    <3>5. \/ buf' = SubSeq(b, 1, size) /\ alloc' = Grown(size) /\ step' = "read"
          \/ step' = "cleanup" /\ buf' = <<>> /\ alloc' = alloc
      BY <1>1, <3>1
    <3> HIDE DEF size
    <3>6. <<>> \in Seq(Byte)
      OBVIOUS
    <3>3. /\ Grown(size) \in Nat /\ Grown(size) >= 2 /\ Grown(size) % 2 = 0
          /\ size <= Grown(size) \div 2
      BY <1>3, <3>2 DEF Grown
    <3>4. SubSeq(b, 1, size) \in Seq(Byte) /\ Len(SubSeq(b, 1, size)) = size
      <4>1. \A i \in 1 .. size : b[i] \in Byte
        BY <1>3, <3>2
      <4> QED
        BY <3>2, <4>1, SubSeqProperties
    <3> QED
      BY <1>3, <3>2, <3>3, <3>4, <3>5, <3>6
  <2>2. CASE ReadEnd
    <3>1. Len(buf) = Len(b)
      <4>1. \A m, a \in Nat : a >= 2 /\ m <= a \div 2 => m # a
        OBVIOUS
      <4>2. Len(buf) # alloc
        BY <1>3, <4>1
      <4> QED
        BY <2>2, <4>2 DEF ReadEnd, b
    <3>2. buf = b
      BY <1>3, <3>1
    <3>3. alloc' = alloc /\ \/ step' = "cleanup" /\ buf' = <<>>
                            \/ step' = "open source" /\ buf' = buf
      BY <2>2 DEF ReadEnd, Fail, GoTo
    <3>4. <<>> \in Seq(Byte)
      OBVIOUS
    <3> QED
      BY <1>3, <3>2, <3>3, <3>4
  <2>3. CASE ReadFails
    <3>1. <<>> \in Seq(Byte)
      OBVIOUS
    <3> QED
      BY <1>3, <2>3, <3>1 DEF ReadFails, Fail, GoTo
  <2> QED
    BY <2>1, <2>2, <2>3
<1>6. /\ Input' = Input /\ Output' = Output /\ Original' = Original
      /\ Converted' = Converted
  BY <1>1, NamesStay
<1>7. TypeInv'
  BY <1>1, <1>5 DEF ConvertInv, TypeInv, source, Streaming, Stopped
<1>8. ReadInv'
  BY <1>1, <1>4, <1>5, <1>6 DEF ReadInv, Opening, Streaming, b
<1>9. Split(buf', pos', got')
  BY <1>1, <1>3, <1>5, SplitStart DEF source
<1>10. SourceInv'
  BY <1>1, <1>3, <1>5, <1>9 DEF SourceInv, source, Opening
<1>11. OutputInv'
  BY <1>1, <1>5, <1>6 DEF ConvertInv, OutputInv, Opening, Streaming, Stopped
<1> QED
  BY <1>7, <1>8, <1>10, <1>11 DEF ConvertInv

(* While it writes, the output and what is left make up the whole.          *)
LEMMA WriteKeeps == ConvertInv /\ (WriteSome \/ WriteEnd) => ConvertInv'
<1> SUFFICES ASSUME ConvertInv, WriteSome \/ WriteEnd PROVE ConvertInv'
  OBVIOUS
<1>1. step = "write" /\ UNCHANGED <<args, before, alloc, buf, source, log>>
  BY DEF WriteSome, WriteEnd, At
<1>2. Output \in Files
  BY NamesType DEF ConvertInv
<1>3. /\ files \in [Files -> Seq(Byte)] /\ left \in Seq(Byte)
      /\ Cut(Original).why = "none" /\ files[Output] \o left = Converted
      /\ result # 0 /\ buf = Original
  BY <1>1 DEF ConvertInv, TypeInv, OutputInv, ReadInv, Streaming, Stopped
<1>4. files[Output] \in Seq(Byte)
  BY <1>2, <1>3
<1>5. /\ Input' = Input /\ Output' = Output /\ Original' = Original
      /\ Converted' = Converted
  BY <1>1, NamesStay
<1>6. CASE WriteSome
  <2>1. PICK n \in 1 .. Len(left) :
           /\ files' = [files EXCEPT ![Output] = @ \o SubSeq(left, 1, n)]
           /\ left' = SubSeq(left, n + 1, Len(left))
           /\ UNCHANGED <<step, result>>
    BY <1>6 DEF WriteSome
  <2> DEFINE l == SubSeq(left, 1, n)
             r == SubSeq(left, n + 1, Len(left))
  <2>2. l \in Seq(Byte) /\ r \in Seq(Byte) /\ left = l \o r
    BY <1>3
  <2> HIDE DEF l, r
  <2>3. files[Output] \o l \in Seq(Byte) /\ (files[Output] \o l) \o r = files[Output] \o (l \o r)
    <3> DEFINE o == files[Output]
    <3>1. o \in Seq(Byte)
      BY <1>4
    <3> HIDE DEF o
    <3>2. o \o l \in Seq(Byte)
      BY <2>2, <3>1, ConcatProperties
    <3>3. (o \o l) \o r = o \o (l \o r)
      BY <2>2, <3>1, ConcatAssociative
    <3> QED
      BY <3>2, <3>3 DEF o
  <2>4. /\ files' \in [Files -> Seq(Byte)] /\ files'[Output] = files[Output] \o l
        /\ \A f \in Files \ {Output} : files'[f] = files[f]
    BY <1>2, <1>3, <2>1, <2>3 DEF l
  <2>5. left' = r
    BY <2>1 DEF r
  <2>6. files'[Output] \o left' = Converted
    BY <1>3, <2>2, <2>3, <2>4, <2>5
  <2>7. TypeInv'
    BY <1>1, <2>1, <2>2, <2>4, <2>5 DEF ConvertInv, TypeInv, source
  <2>8. ReadInv'
    BY <1>1, <1>3, <1>5, <2>1 DEF ReadInv, Opening, Streaming
  <2>9. SourceInv'
    BY <1>1, <1>5, <2>1 DEF ConvertInv, SourceInv, source, Opening
  <2>10. OutputInv'
    BY <1>1, <1>3, <1>5, <2>1, <2>4, <2>6 DEF ConvertInv, OutputInv, Opening, Streaming, Stopped
  <2> QED
    BY <2>7, <2>8, <2>9, <2>10 DEF ConvertInv
<1>7. CASE WriteEnd
  <2>1. left = <<>> /\ result' = 0 /\ step' = "cleanup" /\ UNCHANGED <<files, left>>
    BY <1>7 DEF WriteEnd, GoTo
  <2>2. files[Output] = Converted
    <3>1. files[Output] \o <<>> = files[Output]
      BY <1>4
    <3> QED
      BY <1>3, <2>1, <3>1
  <2>3. IsPrefix(files[Output], Converted)
    BY <1>3, <1>4, PrefixOfConcat
  <2>4. TypeInv'
    BY <1>1, <2>1 DEF ConvertInv, TypeInv, source, Stopped
  <2>5. ReadInv'
    BY <1>1, <2>1 DEF ReadInv, Opening, Streaming
  <2>6. SourceInv'
    BY <1>1, <1>5, <2>1 DEF ConvertInv, SourceInv, source, Opening
  <2>7. OutputInv'
    BY <1>1, <1>3, <1>5, <2>1, <2>2, <2>3
       DEF ConvertInv, OutputInv, Opening, Streaming, Stopped
  <2> QED
    BY <2>4, <2>5, <2>6, <2>7 DEF ConvertInv
<1> QED
  BY <1>6, <1>7

LEMMA ConvertStep == ConvertInv /\ [Next]_vars => ConvertInv'
<1> SUFFICES ASSUME ConvertInv, [Next]_vars PROVE ConvertInv'
  OBVIOUS
<1> DEFINE Rest0 == UNCHANGED <<args, files, before, result, alloc, buf, source, log, left>>
<1>1. CASE FindInputFormat \/ FindOutputFormat
  <2>1. Rest0
    BY <1>1 DEF FindInputFormat, FindOutputFormat, FindFormat, Unread, Untransferred
  <2>2. step \in Opening /\ step' \in Opening \cup {"cleanup"}
    BY <1>1 DEF FindInputFormat, FindOutputFormat, FindFormat, At, GoTo, Fail, Opening
  <2>3. Moves(step, step')
    BY <2>2 DEF Moves, Opening
  <2> QED
    BY <2>1, <2>3, MoveKeeps
<1>2. CASE OpenInput
  <2>1. Rest0
    BY <1>2 DEF OpenInput, Unread, Untransferred
  <2>2. Moves(step, step')
    BY <1>2 DEF OpenInput, At, GoTo, Fail, Moves, Opening
  <2> QED
    BY <2>1, <2>2, MoveKeeps
<1>3. CASE OpenSource \/ OpenSink
  <2>1. Rest0
    BY <1>3 DEF OpenSource, OpenSink, OpenStream, Unread, Untransferred
  <2>2. Moves(step, step')
    BY <1>3 DEF OpenSource, OpenSink, OpenStream, At, GoTo, Fail, Moves
  <2> QED
    BY <2>1, <2>2, MoveKeeps
<1>4. CASE WriteFails \/ Cleanup
  <2>1. Rest0
    BY <1>4 DEF WriteFails, Cleanup
  <2>2. Moves(step, step')
    BY <1>4 DEF WriteFails, Cleanup, At, GoTo, Fail, Moves
  <2> QED
    BY <2>1, <2>2, MoveKeeps
<1>5. CASE UNCHANGED vars
  <2>1. Rest0 /\ step' = step
    BY <1>5 DEF vars
  <2> QED
    BY <2>1, MoveKeeps DEF Moves
<1> QED
  BY <1>1, <1>2, <1>3, <1>4, <1>5, OpenOutputKeeps, ReadKeeps, TransferItemKeeps,
     TransferStopKeeps, CloseKeeps, WriteKeeps DEF Next

(* process() goes through its steps with the input, the source, the sink    *)
(* and the output related as the invariant says, whatever the files hold,   *)
(* however they are read and written and whichever call fails.              *)
THEOREM ConvertHolds == Spec => []ConvertInv
BY ConvertInit, ConvertStep, PTL DEF Spec

(* An error of the native source, hidrd_natv_src_get(), names what is wrong *)
(* at the place where the items of the input end, and its end is the end of *)
(* the items.                                                               *)
THEOREM ErrorIsTrue == Spec => []ErrorRight
<1>1. ConvertInv => ErrorRight
  BY SrcSame DEF ConvertInv, SourceInv, ErrorRight, Src!ErrorRight
<1> QED
  BY <1>1, ConvertHolds, PTL

(* hidrd-convert succeeds only when the input was items to its last byte    *)
(* and the output has them all; a failure leaves the output as it was,      *)
(* empty or with a beginning of the text; no other file changes.            *)
THEOREM OutputIsTrue == Spec => []OutputRight
<1>1. ConvertInv => OutputRight
  <2> SUFFICES ASSUME ConvertInv PROVE OutputRight
    OBVIOUS
  <2>1. DOMAIN files = Files /\ Output \in Files
    BY NamesType DEF ConvertInv, TypeInv
  <2>2. /\ files[Output] \in Seq(Byte)
        /\ step = "write" => Cut(Original).why = "none" /\ IsPrefix(files[Output], Converted)
    <3>1. files[Output] \in Seq(Byte) /\ left \in Seq(Byte)
      BY <2>1 DEF ConvertInv, TypeInv
    <3> QED
      BY <3>1, PrefixOfConcat DEF ConvertInv, OutputInv
  <2>3. step \in Opening \cup {"read"} \cup Streaming \cup {"write"} \cup Stopped
    BY DEF ConvertInv, TypeInv
  <2> QED
    BY <2>1, <2>2, <2>3 DEF ConvertInv, OutputInv, OutputRight
<1> QED
  BY <1>1, ConvertHolds, PTL

(* The items got from the native source are those of the input, in order    *)
(* and without a gap, and it ends only after the last: every step of        *)
(* process() is one of the abstract source or none.                         *)
THEOREM ConvertImplementsItemSrc == Spec => ImplementsItemSrc
<1>1. Init => Abstract!Init
  BY DEF Init, Abstract!Init
<1>2. ConvertInv /\ [Next]_vars => [Abstract!Next]_(Abstract!vars)
  <2> SUFFICES ASSUME ConvertInv, [Next]_vars, ~UNCHANGED <<args, before, got, ended>>
               PROVE  Abstract!Next
    <3>1. UNCHANGED <<args, before, got, ended>> => UNCHANGED Abstract!vars
      BY NamesStay DEF Abstract!vars
    <3> QED
      BY <3>1
  <2>1. UNCHANGED <<args, before>> /\ (TransferItem \/ TransferEnd)
    <3>1. TransferError => UNCHANGED <<args, before, got, ended>>
      BY SourceCalls DEF TransferError
    <3> QED
      BY <3>1 DEF Next, vars, source, FindInputFormat, FindOutputFormat, FindFormat, OpenInput,
         OpenOutput, ReadSome, ReadEnd, ReadFails, OpenSource, OpenSink, OpenStream,
         TransferItem, TransferEnd, Close, WriteSome, WriteFails, WriteEnd, Cleanup,
         Untransferred
  <2>2. Original' = Original
    BY <2>1, NamesStay
  <2>3. step = "transfer" /\ buf = Original /\ ~ended /\ Split(buf, pos, got)
        /\ buf \in Seq(Byte) /\ pos \in Nat /\ got \in Seq(Seq(Byte))
    BY <2>1 DEF TransferItem, TransferEnd, At, ConvertInv, TypeInv, ReadInv, SourceInv, Streaming
  <2>4. CASE TransferItem
    <3>1. /\ Fits(RestAt(buf, pos)) /\ ItemValid(FirstItem(RestAt(buf, pos)))
          /\ got' = Append(got, FirstItem(RestAt(buf, pos))) /\ ended' = ended
      BY <2>4, SourceCalls DEF TransferItem
    <3>2. /\ Len(got) < Len(Cut(buf).items)
          /\ Cut(buf).items[Len(got) + 1] = FirstItem(RestAt(buf, pos))
      BY <2>3, <3>1, SplitStep
    <3> QED
      BY <2>2, <2>3, <3>1, <3>2 DEF Abstract!Next, Abstract!Get
  <2>5. CASE TransferEnd
    <3>1. pos >= Len(buf) /\ ended' = TRUE /\ got' = got
      BY <2>5, SourceCalls DEF TransferEnd
    <3>2. Cut(buf).items = got
      BY <2>3, <3>1, SplitStops
    <3> QED
      BY <2>2, <2>3, <3>1, <3>2 DEF Abstract!Next, Abstract!End
  <2> QED
    BY <2>1, <2>4, <2>5
<1> QED
  BY <1>1, <1>2, ConvertHolds, PTL DEF Spec, ImplementsItemSrc, Abstract!Spec
==============================================================================
