------------------------------- MODULE Options -------------------------------
(***************************************************************************)
(* The options of a stream, given as text (hidrd_src_new_opts() and        *)
(* hidrd_snk_new_opts() up to the initialization itself): the text is cut  *)
(* into pairs, the pairs are converted by the specifications of the type   *)
(* of the stream, and the options that were not given are added.  Every    *)
(* turn of the three loops is a step.                                      *)
(*                                                                         *)
(* Before that the specifications may be read from the text they are       *)
(* written as, and after that the options, as hidrd-convert and the test   *)
(* of the library write and read them.                                     *)
(***************************************************************************)
EXTENDS OptionText

CONSTANTS
    Texts,      \* the texts a user gives
    SpecLists   \* the specifications of the options of the types of streams

ASSUME TextsAssumption == \A text \in Texts : IsText(text)
ASSUME SpecListsAssumption ==
    \A list \in SpecLists : IsText(list) /\ \A i \in DOMAIN list : SpecValid(list[i])

VARIABLES
    known,      \* the specifications in the program
    goal,       \* what is read, "specs" or "opts"
    given,      \* the text it is read from
    rest,       \* the part of the text that is not cut yet, if any
    tkns,       \* the pairs
    specs,      \* the specifications
    opts,       \* the options
    at,         \* the pair, or after the pairs the specification, of the loop
    kept,       \* the options the text was written from, if any
    phase       \* what is going on, or how it ended

vars == <<known, goal, given, rest, tkns, specs, opts, at, kept, phase>>
fixed == <<known, goal, given, kept>>

(* A default that is written as no characters is read past its end, and the *)
(* first character after a marker is not looked at.                         *)
SpecReadable(spec) == ~spec.req => TypeFormatValue(spec.type, spec.dflt) # <<>>

Init ==
    /\ known \in SpecLists
    /\ \/ /\ goal = "specs"
          /\ \A i \in DOMAIN known : SpecReadable(known[i])
          /\ given = SpecListFormat(known)
          /\ specs = <<>>
       \/ /\ goal = "opts"
          /\ given \in Texts
          /\ specs = known
    /\ rest = {given}
    /\ tkns = <<>> /\ opts = <<>>
    /\ at = 1
    /\ kept = {}
    /\ phase = "cut"

------------------------------------------------------------------------------
(* hidrd_opt_tkns_list_parse(), a turn of its loop: the text up to a comma. *)
CommaIn(text) == RunEnd(text, 1, LAMBDA c : c # ",")
Piece(text) == SubSeq(text, 1, CommaIn(text) - 1)
RestAfter(text) ==
    IF CommaIn(text) > Len(text) THEN {}
    ELSE {SubSeq(text, CommaIn(text) + 1, Len(text))}

CutPiece(text) ==
    /\ rest' = RestAfter(text)
    /\ \/ /\ Blank(Piece(text))
          /\ UNCHANGED tkns
       \/ /\ ~Blank(Piece(text))
          /\ \E t \in TknsParse(Piece(text)) : tkns' = Append(tkns, t)
    /\ UNCHANGED <<fixed, specs, opts, at, phase>>

(* A pair that cannot be, or no memory for one more.                        *)
CutFails(text) ==
    /\ ~Blank(Piece(text))
    /\ phase' = IF TknsParse(Piece(text)) = {} THEN "refused" ELSE "failed"
    /\ UNCHANGED <<fixed, rest, tkns, specs, opts, at>>

Cut == phase = "cut" /\ \E text \in rest : CutPiece(text) \/ CutFails(text)

(* The list to fill is allocated: for as many options as there are          *)
(* specifications, or for as many specifications as there are pairs.        *)
Allocate ==
    /\ phase = "cut"
    /\ rest = {}
    /\ phase' \in {"convert", "failed"}
    /\ UNCHANGED <<fixed, rest, tkns, specs, opts, at>>

------------------------------------------------------------------------------
(* One more option, and the end of the list after it, which have to be      *)
(* where memory was allocated.                                              *)
AddOpt(opt) ==
    /\ opts' = Append(opts, opt)
    /\ at' = at + 1
    /\ phase' = IF Len(opts) = Len(specs) THEN "undefined" ELSE phase
    /\ UNCHANGED <<fixed, rest, tkns, specs>>

Refuse ==
    /\ phase' = "refused"
    /\ UNCHANGED <<fixed, rest, tkns, specs, opts, at>>

Skip ==
    /\ at' = at + 1
    /\ UNCHANGED <<fixed, rest, tkns, specs, opts, phase>>

(* hidrd_opt_list_parse_tkns_list(), the first loop.                        *)
OptsOfPair(t) ==
    UNION {{Opt(s.name, s.type, v) : v \in TypeParseValue(s.type, t.value)} :
              s \in Lkp(specs, t.name)}
Convert ==
    /\ phase = "convert" /\ goal = "opts"
    /\ at <= Len(tkns)
    /\ \/ \E opt \in OptsOfPair(tkns[at]) : AddOpt(opt)
       \/ OptsOfPair(tkns[at]) = {} /\ Refuse

(* The second loop.  The name is looked up among the options so far.        *)
SpecAt == specs[at - Len(tkns)]
AddMissingAll ==
    /\ phase = "convert" /\ goal = "opts"
    /\ at \in Len(tkns) + 1 .. Len(tkns) + Len(specs)
    /\ \/ SpecAt.req /\ Lkp(opts, SpecAt.name) = {} /\ Refuse
       \/ SpecAt.req /\ Lkp(opts, SpecAt.name) # {} /\ Skip
       \/ ~SpecAt.req /\ AddOpt(Opt(SpecAt.name, SpecAt.type, SpecAt.dflt))
AddMissing ==
    /\ phase = "convert" /\ goal = "opts"
    /\ at \in Len(tkns) + 1 .. Len(tkns) + Len(specs)
    /\ \/ Lkp(opts, SpecAt.name) # {} /\ Skip
       \/ /\ Lkp(opts, SpecAt.name) = {}
          /\ \/ SpecAt.req /\ Refuse
             \/ ~SpecAt.req /\ AddOpt(Opt(SpecAt.name, SpecAt.type, SpecAt.dflt))

(* hidrd_opt_spec_list_parse_tkns_list()                                    *)
ConvertSpec ==
    /\ phase = "convert" /\ goal = "specs"
    /\ at <= Len(tkns)
    /\ \/ /\ \E s \in SpecParseTkns(tkns[at]) : specs' = Append(specs, s)
          /\ at' = at + 1
          /\ UNCHANGED <<fixed, rest, tkns, opts, phase>>
       \/ SpecParseTkns(tkns[at]) = {} /\ Refuse

Finish ==
    /\ phase = "convert"
    /\ at > Len(tkns) + (IF goal = "opts" THEN Len(specs) ELSE 0)
    /\ phase' = "done"
    /\ UNCHANGED <<fixed, rest, tkns, specs, opts, at>>

------------------------------------------------------------------------------
Begin(text) ==
    /\ goal' = "opts"
    /\ given' = text
    /\ rest' = {text}
    /\ tkns' = <<>> /\ opts' = <<>>
    /\ at' = 1
    /\ phase' = "cut"
    /\ UNCHANGED <<known, specs>>

(* A user gives options for the specifications that were read.              *)
Give ==
    /\ phase = "done" /\ goal = "specs"
    /\ \E text \in Texts : Begin(text)
    /\ UNCHANGED kept

(* The options are written, and read again.                                 *)
WriteAndRead ==
    /\ phase = "done" /\ goal = "opts"
    /\ kept = {}
    /\ Begin(OptListFormat(opts))
    /\ kept' = {opts}

Next == Cut \/ Allocate \/ Convert \/ AddMissing \/ ConvertSpec \/ Finish \/ Give \/ WriteAndRead

Spec == Init /\ [][Next]_vars

------------------------------------------------------------------------------
(* What a text says.  It has a part at its start and one after every comma, *)
(* PartsOf being the places of those that are not blank.  The name is what  *)
(* precedes the first equals sign of a part and the value is the rest,      *)
(* without the space around them.                                           *)
PartAt(text, a) == SubSeq(text, a, RunEnd(text, a, LAMBDA c : c # ",") - 1)
PartsOf(text) ==
    {a \in 1 .. Len(text) + 1 : (a = 1 \/ text[a - 1] = ",") /\ ~Blank(PartAt(text, a))}
NameIn(part) == Trimmed(SubSeq(part, 1, RunEnd(part, 1, LAMBDA c : c # "=") - 1))
ValueIn(part) == Trimmed(SubSeq(part, RunEnd(part, 1, LAMBDA c : c # "=") + 1, Len(part)))

(* Where it says something of a name, and of the options there are, each of *)
(* which is specified by the first of its name.                             *)
SaidOf(text, name) == {a \in PartsOf(text) : NameIn(PartAt(text, a)) = name}
Specified ==
    {specs[i] : i \in {k \in DOMAIN specs : \A j \in 1 .. k - 1 : specs[j].name # specs[k].name}}
Readable(text, spec, a) ==
    LET value == ValueIn(PartAt(text, a))
    IN  "=" \notin ToSet(value) /\ TypeParseValue(spec.type, value) # {}
Acceptable(text) ==
    /\ \A a \in PartsOf(text) : \E s \in Specified : a \in SaidOf(text, s.name)
    /\ \A s \in Specified :
          /\ s.req => SaidOf(text, s.name) # {}
          /\ \A a \in SaidOf(text, s.name) : Readable(text, s, a)

(* Options are accepted exactly when every part of the text gives a value   *)
(* that its type reads to an option there is, and what is required is       *)
(* given; then looking an option up finds the value that was given, or the  *)
(* default.  Where several were given it is the first; only specifications  *)
(* that share a name have places for several.                               *)
OptionsRight ==
    goal = "opts" =>
        /\ phase = "refused" => ~Acceptable(given)
        /\ phase = "done" =>
             /\ Acceptable(given)
             /\ \A s \in Specified :
                   LET said == SaidOf(given, s.name)
                   IN  {o.value : o \in Lkp(opts, s.name)} =
                           IF said = {} THEN {s.dflt}
                           ELSE TypeParseValue(s.type, ValueIn(PartAt(given, Min(said))))

(* The list of options stays within its allocation, which is one option for *)
(* each specification, unless a name is given twice: then, with a place for *)
(* each name only, it does not.                                             *)
Repeated == \E i, j \in DOMAIN tkns : i # j /\ tkns[i].name = tkns[j].name
ListFits == phase = "undefined" => Repeated

(* What was written reads back as it was: the specifications that have a    *)
(* default to write, and the options with their defaults; the specifications *)
(* in the program can all be written.                                       *)
Writable == \A list \in SpecLists : \A i \in DOMAIN list : SpecPlain(list[i])
WrittenReadsBack ==
    /\ goal = "specs" => phase # "refused"
    /\ goal = "specs" /\ phase = "done" => specs = known
    /\ kept # {} => phase # "refused"
    /\ kept # {} /\ phase = "done" => opts \in kept
==============================================================================
