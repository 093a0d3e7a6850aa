# isbn-hyphenate in TLA+

Models, model checks and proofs of `isbn-hyphenate`: a program that reads the
range table of the International ISBN Agency (XML), keeps its prefixes in a
finite-state transducer, and puts the hyphens into ISBN-13s given as arguments
or as lines of files. Paths below are relative to the repository (`src/...`).

## 1. The system

| Part | Code | State | Operations |
|---|---|---|---|
| Transducer | `libfst/libfst.c`, `inc/libfst-impl.h` | array of states, each with an array of transitions `{char -> state or value}` | `fst_new`, `fst_add_string`, `fst_lookup_string`, `fst_lookup_prefix` |
| Packing | `libfst/libfst.c` | one block of memory | `fst_measure`, `fst_pack`, `fst_copy_and_pack` |
| Growable array | `libfst/vec.c` | `base`, `len`, `size` | `vec_make_room` (`vec_alloc`, `vec_grow`) |
| Table builder | `isbn-xml-to-fst/isbn-xml-to-fst.c`, `inc/isbn-info.h` | `struct isbn_info`: element path, current prefix, agency and value, prefix table, range table, transducer | `parseDoc` down to `add_rule_str`, `add_rule`, `add_prefix`; `push_path`, `pop_path` |
| Hyphenation | `isbn-xml-to-fst/isbn-xml-to-fst.c` | none between calls | `hyphenate_isbn`, `place_hyphens` |
| Line buffer | `libcscript/sgl-getline.c` | list of segments of pages, the line put together | `sgl_fgetline`, `linebuf_free` |
| Command | `cmd/isbn-hyphenate.c`, `libcscript/filev-probe.c` | flags, error count, `rv`, open file | `main`, `argv_isbn`, `filev_probe`, `filev_isbn`, `isbn_stream` |
| Print handles | `libcscript/set-print-fh.c`, `fprint.c`, `inc/cscript.h` | `eprint_fh`, `dprint_fh`, the buffer of stdout | `set_eprint_fh`, `fprint` and its relatives |

`main` has the table builder read `isbn-range.xml`. For each group of the
document the builder appends the ranges to the range table (a `vec`), an entry
to the prefix table (a `vec`), and the prefix with the index of its entry to the
transducer. The transducer is packed. Then every ISBN goes through
`hyphenate_isbn`: prefix lookup, entry, ranges of the entry, hyphens. ISBNs come
from `argv` or, through the line buffer, from files or standard input.

Everything runs in one thread; nothing is persisted and there are no messages or
timeouts. What is hard is elsewhere: an element count that is one less than the
number of elements (`fst->len`), shared by four functions that must agree;
arrays that grow under indexes; state that is carried from one group, line or
call to the next; errors that are dropped half-way; fixed offsets against fields
of variable length; tables filled by one part and indexed by another; output
that reaches its file later than messages do; and an environment (files,
options) that may change between a check and its use. `PROJECT.json` lists these hazards with their lines.

What makes each part correct:

* transducer: a dictionary from strings to values; a tree of states; room for
  every state; no internal error; calls return;
* packing: the block is as large as measured, and answers like the original;
* table builder: rules belong to the entry of their group with the bounds of the
  document, values are indexes, arrays on the stack hold what is copied;
* hyphenation: the answer the range table demands, in the space there is;
* these together: the hyphenation that the document prescribes;
* line buffer: each line of the file, unchanged;
* command: arguments answered one for one, files probed before any is opened,
  status 0 only after reading, an end;
* print handles: one file shows what was printed in order, messages are not lost.

## 2. Modules

| Module | Models | Remarks |
|---|---|---|
| `Vec` | `vec.c` | operators on a header; used by `Fst` and `IsbnTable` |
| `FstApi` | calls and answers of `libfst.h` | constants shared by `Fst` and `FstDict` |
| `Fst` | building and searching the transducer | one action per turn of a loop |
| `FstDict` | what `libfst` promises | abstract specification |
| `FstHist` | `Fst` with a history variable | refinement `Fst` => `FstDict` |
| `FstPack` | packing, and lookups in the packed block | reuses the actions of `Fst` on the source and, by `INSTANCE`, on the block |
| `FstPackHist` | `FstPack` with the history of `FstHist` | what the runs `pack` and `pack_lost` check (`PHSpec`) |
| `Text` | bytes, `strtoul(l)`, `parse_number_slice` | operators; used by the next four |
| `IsbnTable` | the walk over the XML tree, `add_rule_str`, `add_prefix` | one action per element, rule, group |
| `Hyphenate` | `hyphenate_isbn`, `place_hyphens` | one action per range tried |
| `Hyphenator` | what the program promises to do with the table | abstract specification |
| `IsbnInfo` | `parse_isbn_range_table` and the calls of `hyphenate_isbn` | composes `IsbnTable`, `FstPack` and `Hyphenate`; refinement `IsbnInfo` => `Hyphenator` |
| `LineBuf` | `sgl_fgetline` | one action per page read |
| `PrintFh` | `set-print-fh.c`, `fprint.c`, stdio's buffer | extended by `Cmd` |
| `Cmd` | `main` and its loops | one action per option, argument, file, line |
| `FstProofs`, `FstHistProofs`, `FstPackProofs`, `IsbnTableProofs`, `IsbnInfoProofs`, `LineBufProofs`, `CmdProofs` | | proofs about the module of that name (`FstPackProofs` about `FstPackHist` too, `CmdProofs` about `PrintFh`, `IsbnInfoProofs` about `Hyphenate`) |
| `SharedProofs` | `vec_make_room` | what `Vec` guarantees; induction over the natural numbers, for the proofs |

`MC<module>` gives a module its instance, `MC<module>*.cfg` are the runs.
Operators introduced by a comment that starts with "Mutant:" are plausible bugs;
no specification uses them, and each breaks a property of a run (`PROJECT.json`,
"mutants").

### Correspondence

`Fst`. `fst` is the header of the `vec`; `trans[s]` is `transv[0..ntrans-1]` of
state `s`. States are `0..fst.len`: `fst_init` makes state 0 with `len = 0`, and
`fst_add_state` returns `len + 1` and increments `len`. `at` holds the locals
`state` and `s` of the loop under way. `AddNewState` is a whole turn:
`fst_add_state`, `vec_make_room` included, then `fst_add_transition`. An
`is_final_state` that reads `transv[0]` of a state without transitions
dereferences NULL: `LookupFault`, `pc = "fault"`.

`FstDict` answers a call in one step. A prefix lookup may answer with a stored
string that begins the key and that no other stored string extends; that is what
`is_final_state` amounts to. In an empty dictionary a prefix lookup may end the
process. `FstHist` adds `word`, the string that leads to each state; the
refinement mapping reads the dictionary off `word` and the NUL transitions.

`FstPack` counts memory in cells of 16 bytes (LP64: a state header and a
transition take one, `fst_t` two). `cells` is what `fst_pack` wrote, including
what it wrote past the allocation. An overrun may be noticed by the allocator
("aborted") or not ("packed"). A lookup that reaches the state that was not
copied reads transitions as if they were a header: it faults or, where zero is
read, misses (`PackedFault`, `PackedAstray`).

`Text`. A byte is a digit, hyphen, space, NUL, a letter, or `JUNK`, whatever lies
behind the NUL of a string. Numbers of type `uint32_t` are kept modulo `WIDTH`.

`IsbnTable`. A document is a tree of elements `[name, children, text]`, or could
not be parsed. `frames` is the C stack: a frame per function of the descent with
the siblings `cur` has yet to visit. `Descends` and `Reads` are the element names
that the `xmlStrcmp` chains look for; everything else is passed over.
`Descend` is the head of any of the four functions (`push_path`, locals),
`ReadText` an `xmlNodeListGetString`, which yields NULL for an empty element.
`AddRule` and `RefuseRule` are the end of `parseRule`: the texts are split at the
hyphen, copied, converted and stored, or the process ends. `AddPrefix` and
`RefusePrefix` are `add_prefix` and the end of `parseGroup`. The transducer is
the dictionary it implements. `written` records how much of the arrays on the
stack was in use, `source` which group rules and entries came from.

`Hyphenate`. The tables are variables it only reads; its caller supplies the
string (`Ask`) and the answer of the prefix lookup (`Looked`). A read behind the
string's NUL yields `JUNK`; a number made from such bytes is any number that the
bounds of the table tell apart (`AnyNumber`). A write behind the documented space
just makes `hbuf` longer.

`IsbnInfo` extends `FstPackHist` and `IsbnTable` and instances `Hyphenate`. The
parts share the variables by which the code couples them: `prefixes` and `ranges` (filled by `IsbnTable`, read by
`Hyphenate`), `cur_value` (the value given to `fst_add_string`), `ret` (what
`fst_lookup_prefix` found). `dict` is the dictionary of `IsbnTable`; the
transducer itself is built by the turns of `fst_add_string`, from the call in
`add_prefix` (`CallAddString`, `AddString`) to its end (`EntryAdded`), then
packed. Every `hyphenate_isbn` calls `fst_lookup_prefix` on the packed block.
`published` is what the document says, read off the tree without regard to the
program, or `NoTable` for one that is not as the agency publishes it.

`Hyphenator` knows the document's groups and a string, and says what the reply
has to be. The promise (`Covered`) leaves out what the code does not keep and
the findings below name: groups of more than one digit, the last group of the
table (its state is lost in packing). It also leaves out ranges of length 0,
which the agency has not put in use and of which no document of the repository
says anything, and documents that are not as published. Strings that no group
begins are covered whatever they are. The process may die while it reads
the table, because the packed block is overrun in every case (finding 2).

`LineBuf`. Characters are named by their position in the file, so a line that is
put together from the wrong pages differs from the line of the file. It is not
composed with `Cmd`: the process dies between the first line that is not empty
and its first use (section 4), so no second line is ever read through the
command.

`PrintFh`. `fds` says which file fd 1 and fd 2 lead to, or that one is closed.
`io.unwritten` is the buffer of stdout, `io.files` what is in each file; an item
is what one call prints, known by its number in `said`, so that the order shows.
`fprint` looks at the result and aborts; `fputs` and `fprintf` do not.

`Cmd`. What `hyphenate_isbn` makes of an argument is part of the argument:
"good", "bad" (an error), "fault" (the lookup leaves the packed block).
Reading `rv` before it is set is a choice over the values it may have; the heap
overrun of `fst_pack` may end the process, and so may an escape that outgrows
its buffer. `Exit` and `Continue` are how a step prints and goes on; `Buffering`
is stdio writing out part of its buffer at any time.

## 3. Runs

| Run | States | Shows |
|---|---|---|
| `overlap` | 46 578 | four strings (empty, one beginning another, two branches, one of eight characters), eight keys, two values, calls in any order; eleven states, so the allocation of ten is outgrown: `TypeOK`, `RoomForStates`, `Tree`, `NoDeadEnds`, `FaultOnlyWhenEmpty`, `HonestErrors`, `WordsNameStates`, `WordsInUse`, `PrefixFound`, `CallsReturn`, and `IsDictionary`, the refinement with its liveness |
| `pack` | 89 764 | all ways of adding four strings, then packing and querying: `BlockLayout`, `PackedAnswers` |
| `pack_lost` | violated | the last state is lost |
| `pack_room` | violated | the block is written behind its end |
| `table` | 19 539 | 512 documents of three groups of eight kinds; one of 19 groups with 36 rules; 44 with a rule of odd bounds, up to 17 characters on either side of the hyphen, or none; nine with missing, doubled, foreign or empty elements: `RoomForTables`, `RulesOfGroup`, `ValuesAreIndexes`, `AgencyOfGroup`, `RangesOfDocument`, `PathOfElement`, `ArraysHold` |
| `table_refused` | violated | the same documents: an entry with the rules of a refused group |
| `hyphenate` | 2 992 | an excerpt of the distributed table (groups of one, two, three and five digits), a document with duplicate, nested, refused and longest prefixes and a rule that is too long, one that ends the process, an empty one, an unreadable one; 96 strings: ISBNs on both sides of the range bounds, of `test-cases.bash`, and strings that are none: `EntryOfPrefix`, `ConsecutiveFields`, `BufferHolds`, `IsHyphenator`, the refinement, and `AlwaysResponds`, its liveness |
| `hyphenate_groups` | violated | an ISBN of `test-cases.bash` |
| `lines` | 14 418 | segments of two pages of three characters, files of three lines of 0 to 9 characters, with and without a last newline: `ShortLinesIntact`, `ReadsAll` |
| `lines_long` | violated | a line that fills a segment |
| `cmd` | 77 443 | eleven option lists (also twelve wrong options), five lists of files, forty-one of arguments, five kinds of files, three fates of the table, one file for stdout and stderr, two, or one of them closed: `ArgvAnswers`, `ProbedFirst`, `ZeroMeansRead`, `OneFileInOrder`, `MessagesSurvive`, `Ends` |
| `cmd_bytes` | violated | an escape that outgrows its buffer |

Why the bounds are enough. What the transducer does with a string depends on
where it leaves the tree: nowhere (a duplicate, the beginning of another), at a
state with other transitions, at a final state, at the root. The strings of
`overlap` and `pack` reach all of these in every order. Growth is a matter of
count only; `overlap` and `table` cross the first allocation of 10, `table` also
the second of 16 and the third of 25 for the ranges. Lines of 0 to 9 characters
end before, at and behind the border of the first, second and third page.
The strings of `hyphenate` have digits that differ from their neighbours, so that
a shift by one is seen.

`WIDTH` is 2^24 where the code has 2^32, because TLC's own integers have 32 bits:
seven digits fit, eight digits and the complements of negative numbers do not,
which are the cases that differ; it divides 2^64, so that cutting digit by digit
equals cutting the result of `strtoull`. `XML_MAX_DEPTH` is 5 where the code has
1024: the descent has five levels, so the smallest depth that must suffice is
checked, and a path that is not popped is noticed at once. `BufSize` is the
callers' 32.

Deadlock is not checked (`CHECK_DEADLOCK FALSE`): a fault, an abort and an exit
are ends of the process.

Fairness. There is one thread, and nothing blocks but reading: weak fairness of
the steps inside a call (`Fst!FairSpec`, `FstHist!HFairSpec`,
`IsbnInfo!InfoFairSpec`, `LineBuf!FairSpec`, `Cmd!FairSpec`) says that the processor
goes on. That a further call is made is not assumed, nor that stdio ever writes
out its buffer before the end. `Cmd` counts on reads that return.

stdio is external and modelled as the C standard has it: stderr is unbuffered, a
write to a buffer succeeds, a flush may come at any time and comes at `exit`, not
at an abort or a crash.

## 4. Findings

Each is the violated property of a run; `PROJECT.json` quotes the documentation
it contradicts.

1. `fst_pack` leaves out the last state (`libfst.c:220`): `pack_lost`.
2. `fst_measure` leaves out the `fst_t` that `fst_pack` writes in front
   (`libfst.c:169`), so every packed transducer is written behind its block:
   `pack_room`. By how much is a theorem, `OverrunIsHeader`: by the `fst_t`, always.
3. Groups of more than one digit are hyphenated wrongly
   (`isbn-xml-to-fst.c:675`): `hyphenate_groups`.
4. `add_prefix` does not reset `new_prefix` when it refuses a prefix
   (`isbn-xml-to-fst.c:192`): the next entry has the rules of the refused group,
   too: `table_refused`. Where no refused group is left over, the rules are right
   (`RulesOfGroup`).
5. A line that fills a segment loses its first page (`sgl-getline.c:151`); a
   segment holds 64 pages of 1024 bytes: `lines_long`.
6. With `--verbose` an operand that has a byte above 127 overruns the eight bytes
   of `fshow_str` (`fshow-str.c:52`): the `char` is sign-extended, and `\xffffffc3`
   with its NUL takes eleven: `cmd_bytes`.

Three more are in the models, as steps that the code takes, and need no search:
the first run of the program that gets there shows them.

* Without `--argv` the program dies on its first line that is not empty:
  `isbn_stream` calls `dbg_show_var`, and `dprint_fh` is NULL
  (`isbn-hyphenate.c:223`; `StreamLine` in `Cmd`).
* Without options `main` reads `rv` uninitialized (`isbn-hyphenate.c:394`;
  `ParseTable` in `Cmd`).
* With a range table that cannot be read, `parse_isbn_range_table` drops the error
  of `parseDoc` (`isbn-xml-to-fst.c:721`) and packs an empty transducer; the first
  lookup follows a pointer that was never written (`PackedFault` in `FstPack`).

Weaknesses that the passing properties state as they are:

* `PrefixFound` needs `PrefixFree`: a stored prefix that another one extends
  does not stop a prefix lookup (`libfst.c:511`), as the comment over
  `fst_lookup_prefix` may be read to say. The prefixes of the ISBN table do not
  extend each other.
* `AgencyOfGroup`: a group without an agency has that of an earlier one, and
  "No agency for Group" is reported only before the first.
* `ZeroMeansRead`: a failing `fclose` ends the program with status 0.
* `Ends`: a directory is read for ever.
* `BufferHolds`: `place_hyphens` writes `14 + strlen(prefix)` bytes, more than
  the 18 its comment asks for when the group has more than one digit; the
  callers have 32, enough for any prefix `add_prefix` can hold (15 digits).
* `ArraysHold` holds for bounds of any length, which `add_rule_str` refuses in
  time; `numeric_prefix` in `add_prefix` has no such guard and relies on the
  format, whose prefixes have at most eight digits.
* `RangesOfDocument` is about bounds of at most seven digits: longer ones, signs
  and spaces are taken as `strtoull` takes them and cut to 32 bits.

## 5. Proofs

Each theorem holds for every value of the constants. Where it names a property,
a run checks that property on a small instance.

| Module | Theorem | States |
|---|---|---|
| `FstProofs` | `Invariance` | `Spec => []IInv` |
| | `TypeCorrect`, `StatesFit`, `AlwaysTree` | `TypeOK`, `RoomForStates`, `Tree` |
| | `OnlyCursorDeadEnd`, `FaultMeansEmpty`, `ErrorsAreHonest` | `NoDeadEnds`, `FaultOnlyWhenEmpty`, `HonestErrors` |
| `FstHistProofs` | `HInvariance` | `HSpec => []HInv` |
| | `UniqueWords`, `NoUselessStates`, `PrefixLookupFinds` | `WordsNameStates`, `WordsInUse`, `PrefixFound` |
| | `Refinement` | `HSpec => Dict!Spec`: the transducer is a dictionary |
| `FstPackProofs` | `PackInvariance` | `PSpec => []PackIInv` |
| | `ArraysApart`, `BlockAnswers`, `OverrunIsHeader` | `BlockLayout`, `PackedAnswers`, the size of the overrun (`OverrunByHeader`, not a property of a run) |
| `IsbnTableProofs` | `TableInvariance`, `WalkInvariance` | `TSpec => []TableIInv`, `TSpec => []WalkIInv` |
| | `RoomInTables`, `EntriesOwnRules`, `ValuesIndexEntries`, `PathNamesElement` | `RoomForTables`, `RulesOfGroup`, `ValuesAreIndexes`, `PathOfElement` |
| | `EntriesHaveAgency`, `RangesAreDocuments`, `ArraysSuffice` | `AgencyOfGroup`, `RangesOfDocument`, `ArraysHold` |
| `IsbnInfoProofs` | `InfoInvariance` | `InfoSpec => []InfoIInv` |
| | `EntryFound`, `FieldsConsecutive`, `BufferSuffices` | `EntryOfPrefix`, `ConsecutiveFields`, `BufferHolds` |
| | `Hyphenates` | `InfoSpec => IsHyphenator`: the program implements `Hyphenator` |
| `LineBufProofs` | `LineInvariance` | `Spec => []LineIInv` |
| | `ShortLinesArrive` | `ShortLinesIntact` |
| `CmdProofs` | `CmdInvariance`, `PrintInvariance`, `AnswerInvariance` | `Spec => []CmdIInv`, `PrintIInv`, `AnswerIInv` |
| | `ProbesComeFirst`, `ZeroAfterReading` | `ProbedFirst`, `ZeroMeansRead` |
| | `OneFileKeepsOrder`, `MessagesOutliveCrash`, `ArgumentsAnswered` | `OneFileInOrder`, `MessagesSurvive`, `ArgvAnswers` |

### Assumptions

`ApiAssumption`: strings and keys are sequences of characters, NUL is no
character, values are natural numbers. `DepthAssumption`: `XML_MAX_DEPTH` (1024
in the code) is at least 5, the number of levels the parse functions descend.
`SizeAssumption`, `FilesAssumption`: a segment has a page, a page has room for a
character and the NUL, a file is a sequence of characters. `CommandAssumption`:
options and operands are sequences. `DocsAssumption`: the elements of a document
have lists of elements below them, and the texts that are copied or converted
are bytes; names, depth, number and order of the elements are arbitrary.
`WidthAssumption`: a number of seven digits fits in `WIDTH`. `BytesAssumption`:
what `libfst` is given here are bytes.

Three theorems have hypotheses of their own, for what the code takes for granted
and does not check. `ArraysSuffice` and `BufferSuffices` assume `ShortPrefixes`:
the text of a `Prefix` element has fewer bytes than `numeric_prefix`
(`ARRAY_SIZE`, 16); those of the format have at most nine, the hyphen included.
`BufferSuffices` also assumes that a caller's buffer has `ARRAY_SIZE + 13` bytes;
all callers have 32, which is the value of the run. `Hyphenates` assumes a buffer
of the 18 bytes without which `hyphenate_isbn` answers ENOSPC before it looks at
the string. The other theorems about the table and its use hold for documents of
any shape. So does `Hyphenates`, but the promise itself says something of the
answers only where the document is as the agency publishes it (`Published`:
every group has one `Prefix` of four digits or more and one `Agency`, every rule
its `Range` of two times seven digits and its `Length`, and no prefix begins
another).

### Inductive invariants

`Fst`: `IInv` is the conjunction of the properties with three facts about a call
under way and the array. `Cursor`: the call stands on a state of the transducer.
That is why `fst_rule_lookup` never reports EDOM, and it holds because
transitions lead to states (`Tree`). `Serving`: the loop that runs is that of the
call made. `Room`: the array has at least 10 elements, without which growing by
16/10 would not make room (16/10 of one element is one element). `HonestErrors`
needs `Tree` because ELOOP is the answer to a transition that does not lead to a
later state; `NoDeadEnds` needs `EntersOnce`, and with it the fact that a new
state is entered only from where the call stood. The lemmas `RuleLookup` (what
`fst_rule_lookup` returns) and `Turn` (what a turn of a loop finds) carry the
lemmas of the actions; `SharedProofs` says of `vec_make_room` that it makes room for
one element more (`VecHolds`).

`FstHist`: `HInv` adds to `IInv` what ties states to strings. `Trail`: the call
stands on the state whose word it has read so far; without it a new state could
get a word that exists. `PrefixClosed`: every beginning of a word is a word, so a
lookup that finds no transition may say ENOENT. `Passed`: a prefix lookup has
passed only stored strings that others extend. In the refinement each turn of a
loop is a stutter, but for the last one, which is the response of the
dictionary: `AddFinal` stores the string, and only it changes `Stored`.

`FstPack`: `PackIInv` has the state of the block in the middle of the copy.
`PackedUpTo(k)`: headers, and the arrays of the first `k` states behind them, in
order and apart, each with the transitions of its state. `ReadBack` concludes
that the transducer read back from the block is the original one without its last
state. `PackHInv` then follows the turns of a lookup in both: they are the same
until the lookup reaches the state that was lost, which means that the key begins
with the string that made it (`LastState`, `FaultAtLast`). For `OverrunByHeader`
(`MeasureInv`) the count of the cells written is compared with the sums of
`fst_measure`.

`IsbnTable`: `TableIInv` has four parts. `Nested`: the frames follow the descent, and
`path` names the elements at hand (`Chain`). `TablesHold`: both vectors have room
for what they hold. `Numbered`: `cur_value` is the number of entries, and every
prefix in the table is in the transducer, which a refused prefix shows as well.
`Counts`: the ranges since the last entry are those behind the last group, and
`rule_idx` points to the first of them or is undefined, in which case there are
none. It has `RulesHandedOn`, what the code does with rules, refused prefixes
included: an entry gets the ranges of its group and of the refused ones since the
entry before (`Owners`). With `EntriesInOrder` (an entry's group lies behind that
of the entry before) `RulesOfGroup` follows, where none of these ranges is of a
refused group; where one is, `RulesHandedOn` is finding 4.

`WalkIInv` relates the walk to a reading of the whole document. For each frame
the siblings yet to visit (`Todo`) determine what is left of the document: of its
groups (`GroupsInOrder`) and of its rules (`RulesInOrder`), so that the elements
begun are a beginning of `DocGroups` and `DocRules`. `AgencyHeard`: `cur_agency`
is the last agency among the groups begun, counting the one under way up to the
element at hand; this carries over from group to group and makes `AgencyOfGroup`
inductive. `RulesInOrder` says of the rule under way that `key` is the last text
of each kind read so far (a rule may have several, or none), `RangesRead` that
each stored range is what `add_rule_str` makes of its rule. `RangesOfDocument`
follows with the lemmas on `strtoull`: a number of at most seven digits is not
cut, and the halves of a text with one hyphen are those around it. `ArraysHold`
is carried by `ShortTexts`, what the texts under way and `written` are bounded by.

`IsbnInfo`: the composition takes the steps of `IsbnTable` and of `FstPackHist`
(`TableSteps`, `PackSteps`), so the invariants of these hold in it (`PartsHold`).
`InfoIInv` has what couples them. `OneAtATime`: strings are added while the
document is read, and what the call under way looks for is the ISBN at hand.
`BookIsDict`: the transducer has stored (`book`, the history of `FstPackHist`)
what the dictionary of `IsbnTable` says, with the string under way in addition
between the end of `fst_add_string` and the end of `add_prefix`; that a
duplicate keeps its first value in both is part of it. `OkIsHit`: what a lookup
in the packed block finds was stored and begins the key, also when the key runs
into the state that was lost; it follows from `PackHInv`. The three together with
`ValuesAreIndexes` give `EntryOfPrefix`. `Placed`: the buffer is what
`PlaceHyphens` makes of the ISBN, the entry found and the length of a range; the
length is at most 8 and the prefix has at least three digits, or the process has
died (`NumbersRead` says that these are numbers). `ConsecutiveFields` is then a
statement about the operators alone: `FieldsPlaced` joins the slices one by one
(`PrefixSlice`: because the prefix begins the string, it is a slice of it as
well).

`Hyphenates` says that each step of the composition is `Read`, `Ask`, `Reply` or
`Die` of `Hyphenator`, or nothing to it (`PromiseSteps`). It rests on `Known`, which
adds to the invariants above what ties program and document together.

* `RangeGroups`: a range in the table is that of a rule of its group, and the
  rules of a group lie together (`RulesUpTo`). With `RulesHandedOn` and
  `RangesOfDocument` the slice of the range table that an entry owns is then the
  rules of its group, with their bounds (`EntryRules`).
* `EntriesFollow`, for a published document: no prefix is refused and none is
  missing, so entry `k` of the prefix table is that of group `k`. It needs to say
  which part of the group at hand has been read (`PrefixRead`), and that the
  process goes on to the end of the document.
* `LastMade`, for a published document: the last state of the transducer was made
  by the last group's prefix. No prefix begins another, so each makes a state of its
  own (`NewWord`). This is why a lookup that runs into the state that packing loses
  has a key which the last prefix begins, the case that `Covered` leaves out, and
  why ENOENT means that no group begins the string (`LookedMaps`).
* `Scanned`: no range before the one at hand has the registrant, so that a search
  that comes to the end of the ranges may say ENOENT. `OnTurn`: the lookup under way
  is the call of `hyphenate_isbn`. `Told`: `published` is what the document says.

The rest is about the operators: for a one-digit group the number that
`hyphenate_isbn` cuts out at a fixed offset is the range key (`KeyIsRegistrant`),
and what `place_hyphens` puts together is the hyphenation of the promise
(`HyphensPlaced`).

`LineBuf`: `LineIInv` says where the line being read begins (`Begins`: behind as
many newlines as there are lines so far, and none since) and, as long as it fits
in the segment, which slot holds which characters (`Pages`, `PagesAnd`). A line
longer than that keeps the first fact only, which is what the lines behind it
need. `Joined` is then one run of positions (`JoinedRun`).

`Cmd`: `CmdIInv` follows `any_rv` (`ProbedSoFar`) and the files read
(`EndedInOrder`). `PrintIInv` says what files and buffer hold together
(`SentInOrder`: what is in the file of stdout, followed by the buffer, is in
order, without gaps where stdout and stderr are one file) and that a message is
in its file at once; it also needs that `set_eprint_fh` has run before anything
is printed (`HandleSet`). `AnswerIInv` counts the answers so far (`Answered`).

### Induction over data

`SharedProofs` derives induction over the natural numbers, stated of sets
(`SetInduction`), from the well-foundedness of `<`. With it a recursive function
over `0..n` exists (`SumsExist`, `PutFolds`, `JoinedFolds`) and what it computes
can be proved: the sums of `fst_measure`, the items that `Put` prints, the line
that `sgl_str_build` puts together, the numbers that `strtoul` makes of digits,
the digits of a prefix. The operators that read the document (`Matching`,
`Named`, `Numeric`, `Unhyphenated`) are all reduced to one, `Joined`, which puts
the sequences of a sequence together and of which `JoinedConcat` says that it
respects concatenation. That is why these are recursive functions and
not operators of the community modules, whose definitions take operators as
parameters, which the provers cannot instantiate.

### Only model-checked

Liveness: `CallsReturn`, `Ends`, `ReadsAll`, `AlwaysResponds`, and the fairness
part of `IsDictionary` (TLAPS does not reason about ENABLED).

Every other property of a passing run is a theorem.

## 6. Not modelled

XML parsing (libxml2: a document is a tree or could not be parsed), memory
exhaustion (`guard_*` end the process), the wording of messages and of
`--verbose` output and the functions that only print (`fdump_fst`,
`fdump_prefix_table`, `fdump_ranges`, `fprint_path`, `explain-err.c`,
`decode-esym.c`, `decode-emsg.c`), what libfst and libxml2 write to stderr on
their own, `set_debug_fh` for a file name (it is only called with NULL), `fgets_endl`
and `parse-cardinal.c` (not called), the width of counters (the tables have
hundreds of entries), and the driver `test-libfst.c`.

The address of `path` in `new_isbn_info` is computed in pointers, not bytes
(`isbn-xml-to-fst.c:80`). At the depths that occur it lies inside the allocation;
the model has the path as a sequence.

`Cmd` and `IsbnInfo` are not composed: `Cmd` has the outcomes of
`hyphenate_isbn`, not how it gets there.

## 7. Plan

Done: all modules above; all invariants that the runs check proved; the
refinements of `FstDict` and of `Hyphenator` (their safety) proved.

Left: nothing of the plan. What would widen it is the composition of `Cmd` with
`IsbnInfo`, so that the outcome of an argument follows from the document.
