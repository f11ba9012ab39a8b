# A verification development for hidrd

hidrd is a C library and a command-line tool that convert HID report
descriptors between formats.  This directory holds TLA+ modules translated from
its source, the TLC configurations that check them on small instances, and
proofs that TLAPS checks for every value of the constants.  Paths below are
relative to the repository's root.

Contents: 1 the system; 2 what makes it hard; 3 the modules; 4 the runs;
5 fairness; 6 proofs; 7 what is not modelled; 8 divergences noted; 9 plan.

## 1. The system

A *source* turns a memory buffer in one format into a sequence of items; a
*sink* turns a sequence of items into a memory buffer.  Both are instances of a
type, a table of functions; the calls of the stream layer
(`lib/strm/src/inst.c`, `lib/strm/snk/inst.c`) check that an instance is valid
and dispatch.  A *format* couples a source type and a sink type with an
initialization and a cleanup of the library it needs.  The tool looks two
formats up, reads the input file, opens a source on it and a sink on a pair of
locations for the output, moves the items one by one, closes the sink, which
flushes it, and writes the output file.  There are no threads, callbacks or
persistent state: what happens at once happens between a stream and its user,
who share memory, and between calls in an order nobody fixed.

| Component | State | Operations | Interacts with | What makes it correct |
|---|---|---|---|---|
| Native sink `fmt/natv/snk.c` | buffer, size, allocation, position; the user's pointer and size | new, put, flush, delete, close | the user's memory, `realloc()` | a byte stream, never lost, leaked, or shown when it is gone |
| Native source `fmt/natv/src.c` | position, error | get | the user's buffer | the items of the buffer; an error exactly for what is left over |
| Hexadecimal source `fmt/hex/src.c` | position, line, column, bytes of an item so far | get | the user's text | the items of the dump, the first thing wrong with it, and where |
| Hexadecimal sink `fmt/hex/snk.c` | text, byte count | put, flush, delete | `util/buf.c` | full lines that read as the items put |
| XML sink `fmt/xml/snk.c`, `snk/` | document, current parent, element under construction, usage page stack | put, flush, delete | libxml2 | the document stands for the items, however groups nest |
| XML source `fmt/xml/src.c`, `src/` | place in the document, usage page stack | get | libxml2 | items in document order, meaning kept |
| Specification example sink `fmt/spec/snk.c`, `snk/` | list of entries, depth, usage page stack | put, flush, delete | text tables | lines that tell the items, indented as they nest |
| Code sink `fmt/code/snk.c` | the same | flush | the same | bytes beside the text of the same item |
| Text table `util/ttbl.c` | lists of rows of cells with skips | set, get, insert, render | - | a sparse plane, rendered in aligned columns |
| Dynamic buffer `util/buf.c` | pointer, size, length | grow, add, retain | every text sink | an addition is whole or fails, and stays inside its memory, terminator included |
| File transfer `util/fd.c` | buffer | read whole, write whole | the system | all of a file, or a failure |
| Item codec `item/` | the buffer an item is made in | sizes, validity, values | every format | one reading of the bytes; a value is stored in the fewest bytes that keep it |
| Numbers, units, tokens `util/` | none | conversions to text and back | text formats | inverse to each other, ranges kept |
| Options `opt/` | the list being filled | parse, format | formats, the tool | what is said holds, defaults for the rest, inside the allocation |
| Usage tables `usage/`, `db/` | constant | search | text formats | a token names the usage it was made of |
| XML schema `fmt/xml/hidrd.xsd.m4` | constant | allows a document | the XML sink and source | says of an element what the two of them do |
| Formats `fmt/list.c`, `fmt/inst.c` | constant | look up, init, clnp | the tool | - |
| Tool `src/hidrd-convert.c` | what is acquired so far | one run | all of it | the exit status tells the truth; everything is released |

## 2. What makes it hard

* **Partial failure.** Every allocation may fail, in the middle of a put or of
  a flush, and what the user shares with the stream must stay sound.
* **Order of calls.** Groups (COLLECTION, PUSH, DELIMITER) close in another
  order than they opened, never open or never close; flushes come between; gets
  are repeated after an error.
* **Stale state.** The user's copy of a buffer pointer after the buffer moves,
  the parent element after its group is broken, the usage page after POP, errno
  at the end of a file.
* **Boundaries.** The growth of a buffer, the end of an item at the end of a
  buffer, the first, exact and last node of a sparse list, a text as wide as a
  tab stop.
* **Descriptions kept in step by hand.** The sink, the source and the schema
  each say what the element of an item looks like, and a list of options is
  written and read by different code.
* **Termination** of nested loops over a document, of the transfer, of short
  reads and writes.

`PROJECT.json` lists each with its line and the properties that would catch it.

## 3. The modules

Every property is preceded by a comment that says what it states.

**Items.** `ItemCodec` has items as bytes: prefix fields, size, whether an item
fits in what is left, validity, and `Cut`, the items that bytes stand for.
`ItemMeaning` has them as the text formats see them, a kind and numbers, and
what matters about them: a usage is resolved with the usage page in effect,
which USAGE_PAGE sets and PUSH and POP save and restore.

**Promises.** `ItemSrc` (items in order, then the end), `ItemSnk` (the output
stands for the items put, with usages resolved, so that a sink that leaves a
page out of a text is right only if a reader puts back the same one), `ByteSnk`
(a stream of bytes that overwrites from its position) and `SparseTable` are
abstract specifications; each concrete module has an instance `Abstract` with a
refinement mapping, and a run checks it as a property `Implements...`.

**`NatvSnk`** models the native sink with explicit memory: a set of live
blocks, the bytes they hold by where they come from (an item, the user, or
nothing stored yet), and a `realloc()` that fails, moves or stays.
`user`, `inst` are the members of `hidrd_snk` and `hidrd_natv_snk_inst`.
`PutFits`, `PutGrows`, `Flush`, `FlushFails`, `Delete`, `Close` are the calls,
`Take` the user who frees the output.

**`NatvSrc`** is `hidrd_natv_src_get()`, one action for each way it returns.

**`HexText`, `HexSrc`, `DynBuf`, `HexSnk`, `HexRoundTrip`.** Dumps as sequences
of characters and a reference decoder; the source, one step for each character,
since its position, line and byte so far outlive a call that fails; the dynamic
buffer, whose size grows by half and whose `printf` needs room for a terminator
(`spilled` would tell of a byte written past the memory); the sink on that
buffer, where a put that finds no memory leaves the first bytes of an item; and
both ends composed: the source reads what the sink left, or a dump that somebody
else wrote.

**`XmlTree`, `XmlSnk`, `XmlSrc`, `XmlRoundTrip`.** A document is a sequence of
nodes with a name, a value, a parent and children; a broken group becomes a
node named "freed", so that using it shows.  Items reach the sink by `Put`; a
failing put may stop at each allocation (`PutFails`), and a flush that breaks the
open groups may run out of memory between two of them or inside one
(`FlushFails`, `BrokenPartly`): the inner groups are freed then, and the current
parent is the innermost of them still.  As in the tool, nothing but the deletion
follows a failed put, or a flush that failed after it changed the document
(`failed`); a flush that fails before, or after the last group is broken, may be
followed by anything.  The source is a walk,
one step for each turn of the loops in `hidrd_xml_src_get()`.  An element named
"generic" is one of `short`, `main`, `global`, `local` and `basic`: its value is
the item it makes, of any kind, and the state stack is left alone.
`XmlRoundTrip` composes both over one document, as two runs of the tool do,
failures of the sink included.

**`Numeral`, `ItemBuffer`, `UsageTable`, `UnitText`.** What is inside an
element, as operators: numbers of the six types in every representation the
code uses, with `strtol()` and the ranges of each reader; the buffer an item is
made in, where an operation changes the bytes it names and leaves the others as
they were; usages and the search in their tables; units, their half-bytes and
the names of their exponents.  A reader returns a set: empty when it fails, of
one value when it succeeds.

**`XmlElement`, `ElementSchema`.** One element at a time: the sink writes the
element of an item (`Put`), or a person writes one (`Edit`), and the source
reads it into its one buffer (`Get`), after what was there before.  The schema's
rules for every element are translated from `hidrd.xsd.m4`, so that the three
descriptions of the format are compared with each other.  What lies beyond a
table that is searched too far is a choice (`Beyond`), and so is what a buffer
holds that was never written (`Fills`).

**`OptionText`, `Options`.** Names, values and specifications of options as
text; and the reading of a list of options, a step for each turn of the three
loops: cutting the text, converting the pairs, adding the defaults.  Before it
the specifications may be read from text as well, and after it the options are
written and read again.  A write past the list's allocation ends in the phase
"undefined".

**`TextTable`, `Ttbl`, `SpecSnk`.** The operators of `util/ttbl.c`, with the
lists and skips of the code: finding, making room, inserting (`Widened`),
measuring (`Strips`) and printing (`PrintRow`, `Render`).  `Ttbl` is a table and
its user, whose names are `TblInit`, `TblNext` and so on, so that both can be
extended at once; `Plane` is its instance of `SparseTable`.  `SpecSnk` has the
two sinks that lay their entries out with such tables (`ToTable`, `CodeTable`),
with all combinations of their options.  A text of their tables is a record of
what it is, how far it is indented, the item it tells and whether a comma
follows; `TextsToTell` are those that may come.

**`Convert`** is `process()` of the tool, with `util/fd.c` in it: one action for
each call it makes, every one of which may fail, an `errno` that successful
calls may leave set, reads and writes of any part.  It composes `NatvSrc` with a
sink of which it takes only what `ItemSnk` promises.

Some definitions have a twin whose name says how it differs
(`GrownWhenFull`, `AddMissingAll`, `NeedOfText`...).  They are faulty versions
of the code used to show that a property can fail; no specification refers to them.

## 4. The runs

| Run | Instance | Shows |
|---|---|---|
| `natv_snk` | items of one and two bytes, two blocks, user buffers up to 3 bytes, streams up to 9 | every call order with every outcome of `realloc()`: sound buffer, sound user view, no leak, nothing unstored in the stream, implements `ByteSnk` |
| `xml_src` | all documents of three nodes below the root over eight kinds, odd ones, and 288 with two generic elements each, memory running out anywhere | stays inside, returns, implements `ItemSrc`; unless a generic element changes the pages (`Tracked`), state follows the items and usages keep their pages |
| `xml_round_trip` | eleven items, four puts that may fail, a flush that may fail before, in and after the breaking of groups | the tree stays sound, later calls find what they assert, the sink implements `ItemSnk`, what is read means what was put, both stacks agree, and reading ends |
| `xml_snk_namespace` | the sink alone, without failures, validated | an end element outside its group has no namespace (expected violation) |
| `elements` | every kind of item in every size of its value, every kind of element a person may write, two in a row, over two contents of the buffer | the schema allows what the sink writes; that reads back with its meaning; what the schema allows makes a valid item; any element makes the same item whatever the buffer held and whatever lies beyond a table, but for the short ones with the tag of a long one and units with an exponent that is not in the rest of its table (`InTable`); a short item has the bytes of its text, but for three bytes; only the elements named in `Refused` are refused |
| `elements_schema` | the same | a short item given the tag 15 becomes a long one (expected violation) |
| `hex_round_trip` | four items, widths 0, 1, 3, 5, three puts, two flushes, every growth failing or not; all texts of up to 5 characters over 7, and 14 long ones | full lines; nothing written past the buffer; the sink implements `ItemSnk`, the source reads as `ItemSrc` does; the first problem is reported, and stays; reading gives back what was put, and ends; every call returns |
| `hex_src_line` | the same texts | the line counter runs ahead (expected violation) |
| `ttbl` | columns and lines 0-2, spans up to 2, four calls | implements `SparseTable`; lookup finds what is there; rendering aligns |
| `spec_snk` | seven items, four puts, a flush, both types, all options | well-formed lines, the comment tells the item beside it, indentation shows nesting, implements `ItemSnk` |
| `options` | all texts of up to five characters over six, and 13 long ones, five lists of specifications | accepted when it should be, each option as given or its default; the list fits its allocation unless a name is given twice; what is written reads back |
| `convert` | three formats and an unknown one, same or different files; all inputs of up to three bytes over eight, and 19 more | exit status and output right, all released, terminates; the native source implements `ItemSrc` and its errors name what is left over |

Why these bounds are enough for the cases to happen: a buffer of
4 * `MaxSize` = 8 bytes and a stream of 9 needs a second growth; four puts open
two groups and close them crosswise, or push, set a page, pop and use it; five
characters are a word of three digits with a neighbour on each side; three nodes
are a group in a group with a neighbour; four calls on a table set three texts
and insert between them; `Alloc` = 2 in `convert` doubles twice on six bytes.
A line width of 3 and items of up to four bytes break lines inside items;
`MinSize` = 4 (256 in the code) makes a dump of three items grow more than once,
and fill its memory to the last byte.

In `elements` and `options` a byte has one hexadecimal digit (`DigitsPerByte` =
1, 2 in the code): all the ranges scale with it, so that the boundaries of one,
two and four bytes are reached by small numbers.  A unit then has two exponents
instead of six, a bitmap sixteen bits, and the longest item 18 bytes; the prefix
keeps its eight bits.  Two elements (`MaxElements`) are one that fills the
buffer or sets the page, and one that is read after it.

What `elements` leaves out: PUSH and POP with data, the data of which the sink
drops (section 8); collection types from 2^31 on; the elements of groups and of their ends, which
are in `XmlSnk` and `XmlSrc`; the local tag `invalid`, which is not valid.
What `options` leaves out: specifications whose default is written as no
characters, which their reader does not read as such (`SpecReadable`).

## 5. Fairness

Only actions inside a call are fair: `WF(Step)` in `HexSrc` and `XmlSrc`, a
call that runs on until it returns, since the code has no waits; nobody has to
call.  In the two round trips the reader calls until the end, as the loop at
`src/hidrd-convert.c:340` does; `HexRoundTrip` leaves it free to call again
after an error, and a call made then returns.  `Convert` has weak fairness of
`Next`: the program runs on, and the system calls return; `write()` of something
writes something or fails.

## 6. Proofs

Eight modules hold proofs.  A theorem named in `PROJECT.json` with a property is
about what a run checks: the run on its instance, the theorem for all values of
the constants that keep the assumptions in the modules.  Every inductive
invariant below was checked with TLC on the instance of a run before it was
proved, but for the last part of `SinkInv`, which quantifies over all lists, and
the part of `KeptInv` that speaks of places in the document; their other parts
and the properties they are for were.

**The assumptions**, and where the code has them:

| Assumption | Because |
|---|---|
| `ItemAssumption`, `BlockAssumption` (`NatvSnk`) | an item has a size, and the largest is known; `malloc()` does not return NULL as a block |
| `PuttableAssumption` (`HexSnk`) | `hidrd_snk_put()` asserts that the item is valid; its size is that of its bytes |
| `WidthsAssumption` (`HexSnk`), `TabstopAssumption` (`TextTable`) | the options are unsigned; a tab stop of 0 is one of the divergences of section 8 |
| `OutputAssumption` (`HexSnk`) | a value that stands for "not written yet" is not a text |
| `TextAssumption` (`Ttbl`), `LayoutAssumption` (`SpecSnk`) | NULL is not a text, and the length of a text is a number |
| `TextsAssumption` (`HexRoundTrip`, `Options`), `ContentsAssumption` (`Convert`) | a file is a sequence of bytes, or of characters, and so are options |
| `DocumentAssumption` (`XmlSrc`) | libxml2 returns a tree: children follow their parents, each is the child of one, once, and the root is a descriptor, which the schema demands; a usage that converts is a page and an ID |
| `Conforming` (`XmlSrc`), of `XmlImplementsItemSrc` only | the schema has no descriptor inside another; without it the source ends at the end of the inner one and leaves the rest unread |
| `ItemsAssumption` (`XmlElement`) | `hidrd_snk_put()` asserts that the item is valid; its first byte has two digits, and its type, if it is a collection, fits a byte, from which `hidrd_item_collection_valid()` strays at 2^31 (section 8) |
| `ForeignAssumption` (`XmlElement`) | libxml2 returns elements with texts and attributes; a POP needs the stack of pages, which is in `XmlSrc` |
| `TableAssumption` (`XmlElement`) | pages and identifiers have 16 bits, and the tables are generated with distinct tokens, so that a search for a token finds one |
| `TypeAssumption` (`SpecSnk`) | there are two types of such sinks |
| `AlphabetAssumption` (`SpecSnk`) | an item is a kind and a value, and a usage has a page and an ID |
| `AlphabetAssumption` (`XmlSnk`) | an item has the shape that `ItemMeaning` gives its kind: a usage has a page and an ID, a bitmap its bits, and PUSH, POP, DELIMITER and the end of a collection have no value (the data of PUSH and POP, which the sink drops, see section 8, is not in the model) |
| `SpecListsAssumption` (`Options`) | a list of specifications is an array with an end; each has a name and a type, which `hidrd_opt_spec_valid()` demands, and, unless it is required, a default of that type and in its range, which the member of the union is |
| `Writable` (`Options`), of `OptionsReadBack` only | names, descriptions and defaults have no separators, which `hidrd_opt_tkns_format()` asserts, no markers, which would not be read back, and no space around them; so it is with those in `src/lib/fmt`, and `WritableAssumption` (`MCOptions`) checks it for those of the run |
| `AllocAssumption`, `MinSizeAssumption` | the constants of the code, 4096 and 256, have these properties |
| `BoundAssumption`, `TblBoundAssumption`, `CountAssumption`, `MaxElementsAssumption` | the bounds of the runs are numbers; the proofs hold for all of them |

**`NatvSnkProofs`**: the type invariant, the four safety properties of the
native sink, and that it implements `ByteSnk`.  The inductive invariant is

    IInv == TypeOK /\ BufferSound /\ StreamStored /\ UserView /\ NoLeak /\ Link

None of the properties is inductive alone: that a flush does not leak depends on
the block the user holds being the sink's, which is `Link`, the relation
between the sink's members and the user's locations while the sink is open.
`ReallocResult`, `StoreResult`, `CutResult` and `ReleasedMem` say what the
memory operations return; one lemma for each action shows that it keeps `IInv`
(`Close` is a flush and a delete in one, so its lemma repeats both arguments on
the state in between).  For the refinement, one lemma for each action shows
which step of the stream it is, or none; that a moved buffer holds what the old
one held is where `realloc()` matters.

**`StreamProofs`** has the walk of the XML source and, further down, both ends of
the hexadecimal format.  Of the XML source: `StaysInside`, `StateFollowsItems` and `ImplementsItemSrc`.
The walk is at a node whose parent is the current one, or at the end of an
element that is in the document (`WalkInv`), from which going to a child, a
neighbour or the parent stays inside; in a document where no generic element
changes the pages (`Tracked`), the stack of pages is what the items
returned so far leave (`PagesAfter`, a recursive function, by its equation for
one more item).

For the refinement the items of the document are split at the walk (`ReadTo` in
`Recursion`): those it has come over, and after them those of the neighbours
that follow, the end of the parent, those of the parent's neighbours that follow,
and so on up to the root.  Passing a node, entering a group and leaving one each
move the split over what the step returns (`WalkPasses`, `WalkEnters`,
`WalkLeaves`), and at the end of the root nothing is left (`WalkEnds`).  The
items returned are not those of the document but mean the same in the same pages
(`MeanSame`, `Reads`), since the source leaves pages of usages out.  That needs
the stack of pages to follow the items.  In the other documents, where a generic
element is a USAGE_PAGE, PUSH or POP, the same walk is shown to return the items
but for the pages of usages (`BareReads`, `BareStep`); `KeptInv` is the one
invariant or the other, and `XmlImplementsItemSrc` speaks of both kinds
(`Kept`).  The bare walk quantifies over all places in a document, and TLC
checked its consequence, `ImplementsItemSrc`, in its stead.

**`XmlRoundTripProofs`**: `TreeSound`, `CallsSound`, `ImplementsItemSnk`,
`MeaningKept` and `StatesAgree`. The document is a tree (`IsTree`: children and
parents name each other, a freed node nobody), and while the sink can be called,
the current parent is below nothing but groups that are the last children of
their parents (`OpenAt`). Both are needed at once: a break moves the contents of
a group to its parent, and that they become the last children again is what lets
the next group up the branch be broken in its turn (`BreakOpen`,
`BranchBroken`). A branch that ran out of memory half way, in a put or in a
flush, leaves a tree, too: between two groups (`SomeBroken`), and with a start
element added behind a group that is still whole.  The current parent may be
freed then, which is why `TreeInv` and the two properties say of it what they say
only while the user may go on. Paths to the root, branches and bitmaps are recursive functions
(`PathUpDef`, `BreakAllIs`, `WithBitsIs`).

And `ImplementsItemSnk`: what the document stands for (`Held`, the items of its
elements in document order, where a group that is still open has no end item
yet) is what was put.  What is added in the innermost open group comes after all
other items, because that group is the last child of its parent, and so on up to
the root (`PathGains`, from which `ExtendedItems` for an element and
`ClosedItems` for the end of a group).  Breaking a group puts a start element in
front of its contents and moves the contents to the parent, which leaves the
order of the items as it is (`BrokenItems`); the branch of an end, and all open
groups in a flush, are broken one after the other (`AllBroken`).  `PagesHeld`
relates the stack of states to the items: a usage that the sink writes without
its page, or with it, means the same there (`UsageStands`).

From both ends follows the round trip (`RTInv`): what was delivered means what
was put until then, in the pages the sink had (`Delivered`), and is a document
the source can walk, with no descriptor inside another and a page and an ID in
each usage (`Proper`); the walk that `StreamProofs` argues about then returns
what it means, and has the sink's pages at its end.

And of both ends of the hexadecimal format, in `StreamProofs` as well:

* The buffer (`Sound`): its text and a terminator fit its size, so that nothing
  is written past it; the growth by half is a recursive function that reaches
  any size because each step adds at least one.
* The source (`SrcInv`): the items returned, followed by the items of what is
  `Left`, the bytes it holds and those of the text after its position, are the
  items of the text, and so is what is wrong at the end.  This is where a digit,
  a blank and the end of an item are the same for the reference decoder, which
  looks at the text at once, as for the code, which looks at one character.
* The sink (`SnkInv`): its text decodes to the items put, without a problem
  (`BufferMeans`), and its lines are full up to the byte count (`FullTo`).  From
  there a flush gives full lines, and every step is one of `ItemSnk`, or none.
* Both (`GivesInv`): the source meets no error in a dump of the sink and at its
  end has returned what was put before the last delivery (`GivesBack`).  This is
  the safety part of `ReadEnds`; that the end is reached is liveness.

**`TtblProofs`**, the tables and the two sinks that lay out with them:

* The lists of rows and cells stay nonempty, with skips that are not negative
  (`IsTable`), which is all that lookup needs; from that `GetRight`, and that the
  table implements `SparseTable`.  The lemmas say where the nodes of a list are
  (`WithNode`, `Widened`, splitting a skip), once for rows and cells alike, which
  the code has twice.
* Rendering.  A column begins where the widths of the columns before it end
  (`Off`), and a width is a multiple of the tab stop and more than the longest
  text of the column (`Widths`).  The code adds widths up over the columns it
  passes since the last text; that the sum over what was passed and the sum over
  the rest give the offset is `SumBoth`, for sums over finite sets in whatever
  order they are taken (`FoldAgree`).  `RowPrinted` follows a row, with the
  padding due, cell by cell; `RenderLaid` says where each text of the table is in
  the output, and `LinesLaid` that the output has no other: from them
  `RenderAligned`.
* The sinks (`SinkInv`): the depth of each entry is that of the entry before, one
  more behind a collection and one less at the end of one (`Nests`); the texts of
  the entries mean the items put, in the pages in effect; and the output is what
  a flush shows of such a list (`Shows`).  `ToTableHolds` and `CodeTableHolds` say
  what is in the table a flush fills, behind all insertions of columns, and
  `RenderShows` what of it gets on which line.  From there one line at a time
  (`LineTells`): `LinesWellFormed` and `CommentTellsItem`.  `NestingShown` counts
  collections and ends between two entries (`DepthCounts`): where they balance the
  depth is the same, and until then it is greater (`MatchDepths`).
* And `ImplementsItemSnk`: a put adds an item with the meaning of the one put
  (`PutAdds`), and a flush shows all of them.

**`ConvertProofs`**: `AllReleased`, `OutputRight`, `ErrorRight`, and that the
native source, as the tool uses it, implements `ItemSrc`.  `ReleasedInv` says
that the resources held are those the cleanup names and that from opening the
source to writing the buffer of the input is there.  `ConvertInv` follows the
data: what is read is the beginning of the input (`ReadInv`); the items
returned and those of the rest are the items of the input (`SourceInv`); what is
written and what is left to write is the converted whole, and no other file
changes (`OutputInv`).

**`TextProofs`**, of the options, for all specifications and all texts:

* `ListFits`, the list of options stays within its allocation, which is one
  option for each specification, unless a name is given twice.  While the list is
  filled its names are those of specifications, and they differ if those of the
  pairs do (`Filling`); the second loop adds a name only after
  `hidrd_opt_list_lkp()` has not found it (`LkpFinds`).  A list of distinct names
  out of those of another is no longer than it (`NoMoreThan`, by the pigeonhole
  principle), which is why one more would have been one too many.
* `OptionsRight`, what is accepted, and what a lookup finds then.  `NameFound`
  and `ValueFound` relate the tokens, which the code finds by walking to a stop
  character and back over space, to what the reference says of a part: what is
  before its first equals sign, and the rest, trimmed (`PairFound`).  `CutInv`: the
  pairs so far are those of the parts of the text before the place where the rest
  begins, in order, and nothing but the blank parts is passed over (`NextParts`).
  `RightInv`: the options so far are those of the pairs passed, one for each and in
  their order, after them come defaults, and every specification passed has an
  option; what was refused is not acceptable.  A lookup takes the first of a name,
  which is that of the first pair of the name, or of the first specification when
  there is no pair.  Values that were read are of their type (`ValueRead`), and
  what is written of options and specifications is a text again (`OptsWritten`,
  `SpecsWritten`), so that the same holds when it is read.
* `WrittenReadsBack`, under `Writable`: what is written of specifications and of
  options reads back as it was.  Two lemmas carry it.  The readers undo the writers:
  of a number (`NumberRead`, from `ValueAppended`: strtol() weighs the figures that
  printf() wrote), of a value (`ValueReadBack`), of a pair (`PairReadBack`), and of a
  specification, whose default and description end at the next marker
  (`PartsAreRead`, `SpecReadBack`).  And a list that is written is cut as it was:
  `ListWritten` says where each pair begins and that nothing else does (`LaidStarts`),
  so whatever `CutInv` allows is that list (`WrittenCut`).  The invariants are then
  `SpecsKept`, the specifications so far are the first of those in the program, and
  `OptsKept`: the options a text was written of are each one of a specification with a
  value that can be written (`DoneGood`, from `RightInv`: what was read is trimmed and
  has no separators), and name every specification, so that each pair is read as the
  option it was written of (`GoodOptRead`) and the second loop adds nothing.

**`ElementProofs`**, the sink, the source and the schema of the XML format on
single elements, for all items, all elements and all tables of usages:
`WrittenAllowed` and `OnlyThoseRefused`.  The inductive invariant is

    ElementInv == the element is one the sink wrote or a person typed in (IsElement)
                  /\ InBuffer(buf) /\ snkPage is a page /\ ...
                  /\ WrittenAllowed /\ OnlyThoseRefused

of which the shape of the buffer and the page in effect are what the two
properties lack: what is written of a usage depends on the page, and a reader
whose buffer had lost its length would no longer make items.  The rest is about
texts.  A numeral is space, a sign, figures and space (`IsNumeral`); the schema's
integers and what `strtol()` takes are both such texts (`IntegerNumeral`), with the
same value in the range of the type, except that an unsigned reader refuses the
sign of `-0`, which the schema allows and `Refused` names.  What `printf()` makes of
a number, in decimal or in hexadecimal of a fixed width, is a numeral again.  Bytes
are the figures among the characters of the text (`BytesRead`, from the lemmas
on what is taken of a sequence), and words are keys of tables.  The children of a
bitmap or of a unit stand in the order of the schema's sequence, each at most once
(`PlacesFound`), so that the source, which looks them up by their names, finds
each in its place and never gets beyond the table.  Then one lemma for each kind of
element the schema allows, that it is read (`AllowedRead`), and one for each kind
of item the sink writes, that its element is allowed; which kind an element is
depends on its name alone (`NamesApart`).

**`Recursion`** has what several of them need.  The reference functions (`Cut`,
`PagesAfter`, `Words`, the lines of a text) are recursive, and a recursive
function is its equation only if there is one that obeys it.  The library's
theorem for that takes an operator as a parameter, which the provers cannot
instantiate; here existence and the equation are proved for each function, with
induction as a statement about a set of numbers (`NumberInduction`): the set of
lengths, or of positions, up to which there is exactly one such function.  It
also has what the sink and the source of the XML format share: the items of a
document, and the walk through it.

**Model-checked only**: liveness (`GetReturns`, `ReadEnds`, `Terminates`), which
is out of the prover's reach; and of `ElementSchema` `ReadBack` and `ItemsSound`,
which compare the numbers in two buffers byte by byte for every kind of item.

## 7. Not modelled

* **Wording**: descriptions of items and errors, letter case, comments, the
  texts of the specification example other than those of usages; helps.
* The **data of the usage tables**, generated from `db/`: the search runs on a
  small table.  Usage types and descriptions.
* In the **options**: the functions that read or write a single option or
  specification, comparisons.  In the **numbers**: other byte orders.
* **libxml2**: parsing and printing; validation is modelled for single elements,
  and a document that was parsed has a `descriptor` root, which the schema
  demands.
* The **command line**; obstacks, which end the program when memory runs out;
  the memory of the text sinks: who owns the buffer, its retention and release.

## 8. Divergences noted while modelling

Shown by runs: the three expected violations above, `lib/fmt/hex/src.c:158`,
`lib/fmt/xml/snk/group.c:202` and `lib/fmt/xml/src/element.c:107`.  The last one:
the elements `short`, `main`, `global` and `local` take the tag 15, which the
schema allows, and which makes a long item; its size is the first byte of data,
and what lies beyond that data is what the buffer held before.  In a model, but
not the subject of a run of its own:

* `lib/fmt/xml/src/element_unit.c:205`: a unit without a child, which the schema
  allows, is refused (`Refused`).
* A number such as `-0`, an integer for the schema, is refused where it is read
  as unsigned (`Refused`).

* `lib/fmt/xml/snk/group.c:232`: a flush that runs out of memory while it breaks
  the groups (`lib/fmt/xml/snk/element_break.c:48`, `:60`) returns false with the
  inner ones freed and `prnt`, which `include/hidrd/fmt/xml/snk.h` calls the
  current parent element, at one of them; only a complete break sets it (line
  235).  A user who puts or flushes again then uses freed memory.  The tool does
  not; the model ends there (`FlushFails`), and `CallsSound` and
  `ImplementsItemSnk` speak of the histories before.
* `lib/fmt/xml/src/element.c:65`, `:107` and `:185`: the elements `basic`, `short`
  and `global` make USAGE_PAGE, PUSH and POP items, which the schema
  allows (`lib/fmt/xml/hidrd.xsd.m4:90`, `:405`), and leave `xml_src->state` as it
  was, so that it is no longer the "usage page in effect" of
  `include/hidrd/fmt/xml/src.h`.  A page left out of a usage after them, because
  it is that of the state, is another page for the reader of the items.  (The
  sink writes none of these.)  `Tracked` is the condition under which
  `StateFollowsItems` holds; without it TLC finds a document of the run where it does not.
* `lib/item/pfx.c:39` asserts that the bytes of an item are 0, 1, 2 or 4, and the
  schema lets short elements have three (`lib/fmt/xml/hidrd.xsd.m4:138`), which
  reach the assertion from `lib/fmt/xml/src/element.c:132`, `:171`, `:209` and
  `:311`.  The build without assertions, the default one, makes an item of four
  bytes, the last one zero; that is what `SizeFromBytes` has, and `ThreeBytes`
  takes these elements out of what `ItemsSound` says of the data.
* `lib/fmt/xml/src/element_unit.c:66`: the search for the name of an exponent
  goes on for one entry after the table; the schema keeps it from being reached,
  a source without a schema does not.  `ItemsSound` speaks of both, and says
  of all elements but those (`InTable`) that they do not depend on what is there.
* `lib/opt/list.c:142`: the list of options has a place for each specification,
  but a name that is given twice takes two; the model's phase "undefined".
  `ListFits` says that nothing else gets there, so it holds where this happens.
* `lib/opt/spec.c:93`: the first character after a marker is not looked at, so
  that an empty default or description swallows the marker that follows, or is
  read past its end.  `WrittenReadsBack` does not speak of such specifications:
  the model writes none (`SpecReadable`).
* `lib/opt/inst.c:150`: `name=` alone takes the default of a numeric type, while
  a list refuses the empty number (`lib/opt/list.c:163`).

Seen in reading:

* `lib/fmt/xml/snk/item.c:438`: PUSH and POP with data are written as elements
  without, so that the data is lost.
* `lib/opt/tkns_list.c:65`: a result of malloc() that is not checked.
* `include/hidrd/util/tkn.h:152`: the mode that should write words in capitals
  never does.

* `lib/fmt/natv/snk.c:34`: a sink created with a size location, not a buffer
  location, and a size that is not zero believes in a buffer it does not have.
* `lib/fmt/hex/snk.c:181`: with a place for the output the sink never frees its
  own buffer, although a flush delivers a copy.
* `lib/fmt/hex/src.c:80`: a position packs line and column in 16 bits each and
  is wrong past line or column 65535.
* `lib/fmt/xml/snk/element.c:46`: a put after one that failed inside an element
  trips an assertion; the tool never does that.
* `lib/fmt/xml/src.c:214`: opened without a schema on a document with another
  root, the source walks above the root; a `descriptor` inside one ends the
  stream.
* `lib/item/any.c:60`: with `--enable-debug`, validating an item with a reserved
  main tag or the local tag 6 trips an assertion instead of returning false;
  `include/hidrd/item/collection.h:64`: collection types from 2^31 on pass.
* `lib/fmt/spec/snk/ent_list.c:229`: the failure of a printf is swallowed by the
  `if` that follows it without a body of its own, and the terminator is the one
  printf itself leaves.  `lib/fmt/spec/snk/ent.c:136`: an entry that cannot be
  allocated is initialized all the same.
* The `tabstop` option takes 0, by which `lib/util/ttbl.c:308` divides.
* `lib/strm/src/inst.c:306` and its like: an instance whose initialization fails
  is not freed.
* `lib/util/buf.c:134`: a buffer of one byte would never grow; none is made.
* `lib/util/fd.c:62`: at the end of a file the read fails if errno was set
  before, although `include/hidrd/util/fd.h` promises true for a success.  The
  model has such runs; no property rules them out, since `OutputRight` is
  about what a success means, not about why a run fails.
* `src/hidrd-convert.c:293`: the output is truncated before the input is read,
  so converting a file onto itself empties it and succeeds; `:397`: the result
  of close() is ignored; `:399`: a format found but not initialized is cleaned
  up.

## 9. Plan

Done, in this order: the native sink with its proofs; the XML sink, source and
round trip; the native and hexadecimal streams; text tables and the two sinks
on them; the tool; what is inside an XML element, with the schema; options, with
the proof that their list fits; the dynamic buffer under the hexadecimal sink,
and that sink's round trip.

And the proofs: the native sink and its refinement, both ends of the XML format
with their refinements and their round trip, the tables with their rendering, the
sinks on them with their refinement, the tool, the options, both ends of the
hexadecimal format with their round trip, and what the schema, the sink and the
source say of single elements.

Next, proofs of `ItemsSound` and `ReadBack`.  And the model: the ownership of the text sinks' memory, with
`hidrd_buf_disown()` and retention; the command line of the tool, with the
options it passes on.
