# protozero in TLA+

Protozero is a C++ header-only library that writes and reads messages in the
protocol-buffer encoding. It has no threads and no I/O of its own. What makes it
hard to test is its low-level interface: several writer objects share one
string and patch it in place through remembered positions; readers walk through
bytes of unknown origin with two raw pointers; every call may throw, and the
assertions that check the contract are compiled out in release builds.

This directory holds TLA+ specifications of the writer, of the reader, of the
iterators over packed fields, of the way of a message from one to the other and of
the decoder tool, TLC instances of all of them, and proofs about the writer, the
reader, the iterators and the encoding and decoding of values checked by TLAPS.

## Inventory

| part | state | operations | what makes it correct |
|---|---|---|---|
| wire format (`types.hpp`, `varint.hpp`) | none | encode and decode varints, zigzag, keys | decoding undoes encoding; the decoding paths and skipping agree; nothing is read behind the end |
| `pbf_writer` (`pbf_writer.hpp`) | pointer to the shared string, `m_parent_writer`, `m_rollback_pos`, `m_pos` | open a submessage (construct a child), `commit`, `rollback`, destruction, move, swap, about 40 `add_*` | nested messages end up as complete fields of their parents, whatever is opened, abandoned or fails in between; abandoning leaves no trace; assertions stop illegal calls only |
| `packed_field_*` (`pbf_writer.hpp`) | one `pbf_writer` | constructor (optionally with a size), `add_element`, `commit`, `rollback` | the same, for packed repeated fields |
| `pbf_reader` (`pbf_reader.hpp`) | `m_data`, `m_end`, `m_tag`, `m_wire_type` | `next` in three forms, `skip`, getters, `get_message`, `get_packed_*`, copy, swap | stays in its window on any input; passes whole fields; returns exactly their values; fails only on malformed bytes; loops end |
| packed iterators (`iterators.hpp`) | an iterator: `m_data`, for varints `m_end`; a range: two of them | `++`, `--`, `+=`, `*`, `drop_front`, `swap`, `size`, `empty` | iteration shows every element and never leaves the field; `size` is what iteration visits |
| `data_view`, `byteswap`, `exception` | none | compare, swap bytes | the order of a dictionary; the same bytes on every host |
| `pbf_builder`, `pbf_message` | none beyond their base class | typed names for the calls of writer and reader | what is read is what was written |
| `pbf-decoder` (`src/tools`) | per activation of `decode` a stream and two readers | decode recursively, guess at the content of fields | ends; prints each field once, whatever was guessed wrong before |

How they interact. A child writer calls `open_submessage` and
`close_submessage` of its parent and they all append to one string. The
`add_packed_*` functions create a child writer for the length of one call. A
reader hands out readers, views and iterator ranges over parts of its own
window. Writer and reader meet only in the bytes.

The behaviours that are hard: positions in several objects that have to agree
through long mixes of calls; marker values in position members (`0`,
`size_is_known`); exceptions in the middle of a call, on both sides; destructors
that close a submessage while an exception passes; contract breaches that only
one of the two builds notices; numbers at the end of a window or cut to 32 bits.
`PROJECT.json` lists them as hazards with their lines.

## Modules

| module | what it is |
|---|---|
| `WireFormat` | bytes, varints as `write_varint` writes them, keys, lengths, the room a header reserves. All widths are constants. |
| `WireParser` | the reference: what a complete field and a message are, defined without protozero's way of scanning. It models no code. |
| `WireParser_proofs` | lemmas about fields and sequences of fields: that decoding yields the value of a varint, and that what a writer puts together is a field. |
| `NestedMessages` | the abstract writer: one buffer per open message. Opening creates an empty buffer, closing appends it to the parent as one field (an empty one leaves nothing), abandoning drops it. |
| `PbfWriter` | `pbf_writer` and the packed-field classes: the detailed specification. |
| `MCPbfWriter` | its instances for TLC. |
| `PbfWriter_proofs` | the theorems about it. |
| `NestedMessages_proofs` | the proof that `PbfWriter` implements `NestedMessages`. |
| `WellFormed_proofs` | on top of it, that what the writers leave are messages. |
| `Varint` | `decode_varint` with its three paths, `skip_varint`, `length_of_varint`, zigzag and the integer casts of the typed accessors. |
| `Varint_proofs` | lemmas about what these functions and the encoding of `WireFormat` return. |
| `ByteOrder` | `byteswap.hpp` and the copies of fixed-size values between a host of either byte order and the wire. |
| `Iterators` | what the operators of `const_varint_iterator`, `const_svarint_iterator` and `const_fixed_iterator` and the functions of `iterator_range` compute. |
| `PackedIterators` | a client that walks through a packed field with an iterator while the range changes. |
| `DataView` | the comparisons of `data_view`. |
| `MCNumbers` | `PackedIterators` on all short inputs; each input is also read as one number and as two views. |
| `Numbers_proofs` | theorems about the numbers, views, fixed-size values and iterators in it. |
| `PbfReader` | `pbf_reader`. |
| `MCPbfReader` | its instances for TLC. |
| `PbfReader_proofs` | theorems about single readers: where they may point and look, and their assertions. |
| `ReaderFields_proofs` | theorems about what readers pass, return and find. |
| `PbfDecoder` | the `pbf-decoder` tool on top of `PbfReader` and `Iterators`. |
| `MCPbfDecoder` | its instance for TLC. |
| `RoundTrip` | `PbfWriter` and `PbfReader` composed, used through `pbf_builder`, the packed-field classes and `pbf_message`. |
| `MCRoundTrip` | its instance for TLC. |

### The writer

`buf` is the shared string; `valid` are the writers whose `m_data` is not null;
`m_parent_writer`, `m_rollback_pos` and `m_pos` are the members of the same
names. `SizeIsKnown` stands for `size_is_known`: a position no string has.
`owed`, `torn` and `throws` are bookkeeping of the specification: what a client
still owes to a submessage of announced size, whose message an exception left
incomplete, how many exceptions there have been.

An action is one call. `OpenSubmessage` is the child's constructor, `Commit`,
`Rollback` and `Destroy` the three ways to end it (a submessage nothing was
written to is removed by `close_submessage`, so `Commit` and `Destroy` contain
the removal), `Move` and `Swap` change the objects. `AddField` adds a scalar or
bytes field, `AddElement` an element of a packed field, `AddPackedFixed` a range
of known length, `AddPacked` a range that goes through a sub-writer of its own;
the constructor and the destructor of that sub-writer belong to the one call.

What a call puts into the string is a `head`, written byte by byte
(`push_back`), and a `tail`, written at once (`append`). `AddFieldThrows` and its
like end after any part of it that an allocation failure can leave.
`AddAborts`, `AddElementAborts` and `CloseAborts` are the calls a `protozero_assert` stops; the program ends there, so those instances do
not check for deadlock. `outcome` tells assertions that stop a breach of the
contract from ones that stop a legal call.

Clients. With assertions (`Asserts = TRUE`) they may make any call on any
writer, and the assertions decide; without, only legal calls, because nothing
else stops them and the code then writes into the wrong message by design. In
both builds a writer is moved, swapped or destroyed only while no submessage is
open in it (C++ scopes do that for destruction), the target of a move or swap
is not in use, the elements of a field of announced size add up to that size
("you have to supply exactly as many elements as you promised", tutorial), and
such a submessage gets plain fields only.

### The reader

`data` are the bytes, `reader` the objects with their four members. Pointers are
indices, `m_end` is one past the end. The private functions of the class are
operators from an object to a `Result`: the object afterwards and how the
function ended, because most of them change the object before they throw.
`SeekStep` is one turn of the loop in `next(tag)` and `next(tag, type)`; every
other call is one action. `begin`, `current` and `strayed` are bookkeeping:
where a window starts, where the key of the current field is, and which readers
have failed or been misused.

With `Misuse = TRUE` clients also make calls whose preconditions do not hold,
and go on with a reader after an exception. `asserts` is the build that runs: it
also decides whether `skip_bytes` resets `m_tag`.

### The iterators

A field is a sequence of bytes, an iterator an index into it, for varints with the
end beside it (`Null` stands for `nullptr`). Exceptions are statuses again:
`Increment` returns the iterator that `operator++` leaves behind together with how
it ended. `Step` is `++`, `Jump` the arithmetic of the random-access iterators,
`DropFront` and `SwapRanges` are the calls that change a range. `passed` and
`dropped` count what the client has seen; they are what the properties compare
with `Elements`, the elements by the definition of the encoding.

### The way of a message

`RoundTrip` instantiates `PbfWriter` for clients that keep the contract (through
builders, packed fields and `add_packed_*`) and `PbfReader` for readers that do.
`pbf_builder` and `pbf_message` are templates that forward every call with the
number of an enumerator, so an action of `RoundTrip` is an action of one of the
two instances. Beside them runs a history that knows nothing of bytes: `added`, the
list of items each open message has got, nested like the messages, and `ahead`,
the items each reader has not consumed. A message that is closed becomes an item of its
parent, unless nothing was added to it; abandoning drops its list. `HandOver` gives
the finished string to the readers.

### The decoder

`frames` are the activations of `decode()` within each other, with what each has
written to its stream; the readers of activation `n` are the slots
`<<n, "message">>` and `<<n, "copy">>`. `pc` is the next call of the innermost
activation; the calls themselves are the actions of `PbfReader`. An exception goes to `Unwind`,
which is the `catch` of `decode_message`, or of `main` at the outermost level. The
output is a list of tokens: tags with their depth, numbers, strings.

## What is checked

All instances scale the widths down so that the boundaries lie within a few
bytes: with 3 or 4 payload bits in a varint byte, a key or a length may need two
bytes, a varint may be too long after three or four, and a number may exceed the
width of a length. No code path depends on the widths otherwise.

| run | build and clients | shows |
|---|---|---|
| `writer_debug` | assertions, any call | types, nesting, no assertion on a legal call, refinement of `NestedMessages` |
| `writer_release` | NDEBUG, legal calls, sized fields | nesting, every message read out is a sequence of complete fields, the refinement |
| `writer_oom` | NDEBUG, two `bad_alloc` | messages other than the one a call failed on stay well formed and keep what they had |
| `writer_sized_debug` | assertions | violated: an assertion stops a legal call (finding 1) |
| `writer_sized_release` | NDEBUG | violated: `rollback()` throws `std::length_error` (finding 2) |
| `numbers` | all inputs up to 4 bytes of 8, as numbers, views and packed fields of four kinds; all numbers of 5 bits | decoding and skipping against the definition of varints; round trips of numbers, signed values, booleans and fixed-size values between hosts; iteration and `size()`; the order of views |
| `reader_contract` | assertions, contract kept, two readers, all inputs up to 3 bytes of 9, selected longer ones | whole fields, exact values, the first field asked for, exceptions on malformed bytes only; nested windows, copies and swaps |
| `reader_misuse` | both builds, any call, all inputs up to 4 bytes of 5 | the window is never left, nothing behind it is looked at, assertions stop no legal call and notice a second read of anything but a varint, cut-off scalars change nothing |
| `reader_loop` | NDEBUG, searches | `next(tag)` ends |
| `reader_strong_guarantee` | NDEBUG, contract kept | violated: calls that throw have moved the reader (finding 3) |
| `decoder` | both builds | the decoder ends, with 0 exactly on messages, and prints every field once |
| `round_trip` | NDEBUG, contract kept, three writers, two readers | readers meet what was added, in its order and with its values |

Bounds of the writer. Four slots (three writers and a packed field) allow three
levels of nesting and a free slot to move to; `MaxBuf` bytes hold two open
headers and fields in each. A submessage can become long enough to need all the
bytes reserved for its length. Two exceptions are enough for one to follow from
a message another has torn. `MaxBuf <= MaxLength` keeps lengths within
`pbf_length_type`: what happens to a submessage of 4 GiB is not covered.

Bounds of the reader. Four bytes hold a key, a length and a value, two nested
headers, a varint that is too long, and every kind of cut. The alphabets contain
the keys of all wire types, an unknown one, tag 0, a reserved tag, and numbers
that do not fit into the width of a key. `reader_contract` adds longer inputs of two
shapes: a nested message, well formed or not, with a field behind it, and four
bytes of lengths and empty submessages. The
model takes `ptrdiff_t` to be wider than `pbf_length_type`, as on 64-bit
platforms; the comparison in `skip_bytes` casts to it.

Bounds of `numbers`. With two payload bits a byte and numbers of five bits a varint
has at most three bytes, the last with one bit to spare, so four bytes hold the
longest varint with one byte behind it, one that is too long, four elements
of one byte and two of the larger fixed-size values there are. Fixed-size values
have two and four bytes.

Bounds of `round_trip`. The string has room for eight bytes: two headers in each other
with a field behind or in them, and a packed field beside them. Each side is checked on its own with more bytes; here it matters that whatever
the writers leave in a string is read. Among the items is a bytes
field that looks like a message. Packed fields of an announced size are in it, with
the sizes 0 and 2.

Bounds of `decoder`. The inputs are fields with every content of up to four bytes of an
alphabet that has keys, lengths and a byte to go on in it, once or twice nested,
with a varint field behind; and messages without such fields. They reach every guess, from every depth. `MaxLevel` cuts
nothing off: each activation has at least two bytes less than the one around it, so
inputs this short cannot reach a sixth.

Fairness. `reader_loop` assumes that a search that has begun takes its next
step, because the loop runs on in the thread that called it. Clients owe
nothing; nobody has to start a search. `decoder` assumes that the program takes its
next step while there is one: it is one thread that waits for nothing once the
file is read.

Each property has a mutant in `PROJECT.json`: a definition changed as a
plausible mistake would change it, for which TLC finds the property violated. The
mutated forms stand in the modules in front of the definitions they mutate.

## Findings

1. A submessage of announced size leaves the parent's `m_pos` set when it is
   closed (`pbf_writer.hpp:207`). With assertions on, the next field added to
   the parent aborts the program (`pbf_writer.hpp:75`), although `m_pos` is
   documented to be 0 when no submessage is open (`pbf_writer.hpp:70-72`).
2. `rollback()` of such a field takes the marker `size_is_known` for a position
   and throws `std::length_error` (NDEBUG) or fails an assertion. The tutorial
   knows no exception but `std::bad_alloc` on the writer side.
3. The strong exception guarantee of the reader (`pbf_reader.hpp:57-59`) does
   not hold for `next()` on an invalid key, for length-delimited values that do
   not fit, and for packed fixed-size fields of a wrong length. It does hold for
   scalars that are cut off (`CutOffChangesNothing`).

Two things that are as the code means them, and may surprise:

- A packed varint field that ends within a varint has elements for iteration, which
  then throws, and none for `size()`: a range can have `size() == 0` without being
  `empty()`. On a varint that is too long `size()` counts on behind the place where
  iteration stops. `SizeCounts` says exactly how far the two may differ.
- The decoder keeps the numbers it has printed of a field that turns out not to be a
  packed varint field and prints the field as text behind them.

## What is proved

The theorems hold for all values of the constants that satisfy the assumptions of
the modules: all widths, any number of objects, inputs of any length.

### The writer

`PbfWriter_proofs`:

- `TypeCorrect`: the type invariant, which includes that `m_parent_writer` leads
  from a live writer to a live writer;
- `NestingHolds`: the open writers form one chain and each parent's positions
  frame the header of its open submessage;
- `PrefixUntouched`: no step changes what a message had written before the
  submessage that is open in it;
- `NoneSpurious`: when no submessage has an announced size, assertions stop no
  legal call.

The inductive invariant is `TypeOK /\ Nesting`. `Nesting` has two parts because
neither is inductive alone: that the positions of one parent frame a header
(`Framed`) is disturbed by an operation on an outer writer unless the open
writers are nested in each other (`Encloses`), and the nesting of a new child
behind all others needs every frame to end within the string. `PrefixUntouched`
follows from it, since closing or abandoning a writer cuts or patches the string
only behind the rollback position of its parent, and all other open headers lie
before that. `NoneSpurious` needs one more invariant, `Resting`: a writer without an
open submessage has `m_pos = 0`. It is preserved because `close_submessage` resets
`m_pos` unless the size was announced, and there `writer_sized_debug` shows a legal
call that is stopped.

`NestedMessages_proofs` has `ImplementsNested`: `PbfWriter` implements `NestedMessages`.
The mapping reads each open message out of the shared string: its body is what lies
between the end of its parent's header room (or its own start) and the header of the
message open in it, its key the one its parent has written before that room (`Mapped`
says so, and follows from the invariant above). The argument has three layers: what
cutting and appending does to parts of a string (`PartKept`, `PartAppended`, ...), what
an operation on one writer does to the bodies of the others (`BodyKept`, `OtherKept`:
nothing, because all operations work behind the header of the innermost open message),
and one lemma per operation (`OpenRefines`, `CloseRefines`, `CommitContributes`, ...). The
steps that deserve the work are those that fail half-way: a key without its
length, a closing that cannot write, an opening that has its room but no writer.

`WellFormed_proofs` has `WritersLeaveMessages`: every message an open writer stands for is
a sequence of complete fields, and so is the string when the outermost writer is gone,
unless an exception has torn it. It is proved of the messages the mapping above
reads out of the string, so that each step of a writer is one step on a few byte
sequences. The inductive invariant `Formed` has five parts. `Whole` is the property
itself. `Keyable` says that the header in front of an open submessage is the key of a
length-delimited field, which closing needs to make a field of key, length and body.
`Announced` covers submessages of announced size, whose parent is no message while they
are open: it ends with a header for exactly the bytes that are there and those the client still
owes. `Typed` keeps elements of packed fields, which are no fields, out of messages, and
`HandedBack` carries the property past the end of the last writer. That two messages
behind each other are a message, and that a key with its value is a field
(`ConcatParses`, `KeyedParses`, `BytesFieldParses`, ... in `WireParser_proofs`), is shown with
chains of fields, as for the reader below; that writing a number puts a varint of that
number there (`VarintCodes`), with the equation of the recursive function `Varint`.

### The reader

`PbfReader_proofs`, for clients that may make any call at any time, in both builds:

- `TypeCorrect` and `StaysInBounds`: no pointer leaves its window, no window the data;
- `NothingBehindTheEnd`: no function of a reader depends on a byte behind `m_end`;
- `NoneSpurious`: assertions stop no call whose preconditions hold;
- `SecondReadsShow`: what a debug build's assertions notice of a second read;
- `CutOffIsHarmless`: the part of the strong exception guarantee that holds.

The inductive invariant `Inv` joins `TypeOK` and `InBounds`, neither of which is
inductive alone: a pointer moves by what `decode_varint` returns, which is known
only when `m_data <= m_end` and the window holds bytes, and `get_message` makes a
window of two such pointers. To these it adds `Honoured`: a reader the contract
still holds for has a tag while it has a field, and in a debug build no tag but
that of a varint afterwards. A search under way is between two fields, which keeps
`Honoured` true while the loop of `next(tag)` skips. The argument is in two layers:
what each function of the class does to one object (`MovedOn`: forward, in the same
window; and what it does when it throws), then one lemma per action.

`ReaderFields_proofs`, on top of `Inv`:

- `PassesWholeFields`: whatever mix of calls a reader has made, it has passed complete
  fields, and so has the reader `get_message` made;
- `OnlyMalformedThrows`: clients that keep the contract see an exception only on bytes
  that are no message;
- `DeliversTheValue`: a getter returns exactly the value of the current field;
- `FindsTheFirst`: a search stops at the first field asked for, or there is none.

`IsMessage` and `FieldsOf` are recursive functions on the bytes, and no step of a
reader is a step of that recursion: a reader adds a field at the end, the recursion
takes one off at the start. The invariant therefore speaks of `Chain(s, a, b)`: there is
a set of places from `a` to `b` in which a complete field leads from each to the next.
Chains can be extended, joined, cut and shifted without induction (`ChainExtend`,
`ChainJoin`, `ChainCut`, `ChainShift`), and `WireParser_proofs` shows once that a chain
is a message (`IsMessageIs`) and that `FieldsOf` are its fields (`FieldsOfAre`). Its
other half is that at most one field starts at a place (`OneField`), since the
definition only says which fields there are and the code computes one.

The inductive invariant `FieldsInv` has five parts. `Whole` is the property itself with
what a getter needs: with a current field, its key stands right behind the passed fields
and `m_tag`, `m_wire_type` and `m_data` are those of the key (`Positioned`). `Searched`
says the same of the fields a search has passed, and that none of them is asked for.
`Refused` makes `HonestErrors` inductive, `Trusted` connects it with searches, which end
in a later step than they begin, and `Consumed` with the reports of getters. The core of
the argument are `VarintPasses`, `FixedPasses`, `LengthPasses` and `NextFieldReads`: each
function of the class passes one complete value or key, or there is none and it throws.

`FindsTheFirst` holds for any client, since a search runs in one call.
`PassesWholeFields` and `OnlyMalformedThrows` exclude readers that were misused, not
clients that misuse others. `DeliversTheValue` needs `~Misuse`: without assertions,
`r = r.get_message()` on a field of another wire type overwrites the reader with a
window of its own, and the step shows no sign that it was misused before.

`Varint_proofs` is the layer below: each decoding path returns a number and a
position in the window, or leaves the pointer (`DecodeFacts`); skipping and decoding
end alike (`SkipAgrees`, and as a property of packed fields `SkippingIsDecoding` in
`Numbers_proofs`); both look at the bytes of the window only. The value is a
recursive function of the bytes. That a function with its equation exists and is
unique is shown by the least number for which it would not, which the library's
`WFMin` provides without an operator as parameter. `DecodingIsRight` goes on from there
to what is decoded: the unrolled path, the loop and the shortcut for one byte all
yield the value by the definition of varints, cut to `ValueBits`, and
the right exception otherwise (`PayloadsSplit`, `PayloadsBound`, `NumberFacts`).

`WhatIsWrittenIsRead` is the way back: every number of `ValueBits` bits that is written is
read again, in the number of bytes `length_of_varint` has announced, whatever
follows it. `SignedNumbersSurvive` adds the conversions: zigzag and the two's complement, also
where the code encodes with one width and decodes with the other. Its core is that the
numbers of the narrow type are numbers of the wide one and cutting gives them back
(`SignedIs`, `NarrowIsWide`), and that zigzag sends the values of a type to numbers of its
width (`ZigzagIs`) and back (`ZigzagBack`).

### Values and packed fields

`Numbers_proofs` goes on to what is not a varint, for byte sequences of any length.

`ViewsCompareAsWords`: the comparison of two views is the order of a dictionary, and agrees
with equality. The code compares the common prefix and then the lengths; the definition
has words in it, one of which is the beginning of the other or has the smaller byte at
the first place they differ in. `CompareFacts` and `BeforeFacts` find that place, as the
least of a set of numbers.

`FixedValuesSurvive`: a value of fixed size is written as the same bytes by every host and
read again by every host. A host's value is a number, so the bytes
are its digits; `DigitOfComposed` shows that the digits of a composed number are the bytes
it was composed of, by the equation of the recursive function `Composed`, and `GetFixedIs` and
`AddFixedIs` what the copies make of them on either host.

`IterationIsRight` and `SizeIsRight`: a client that walks through a packed field sees its
elements, each once and in their order, and an exception exactly where the field ends within an
element or a varint is too long; `size()` counts the elements iteration visits, and more than
those only on a varint that is too long. The inductive invariant is `Walked`. An iterator knows only its
position and the end, so `Walked` ties both to the elements: `Reached(i, n)` says that `n`
elements lie before the iterator and that the elements of the bytes behind it are the rest
of the list. Every place an iterator or the live range stands at is reached, with the numbers
`passed` and `dropped` the client has counted. For `size()` it takes two more arguments: a varint
has exactly one byte without continuation bit, which `std::count_if` counts
(`ReachedEnds`), and elements of fixed size fill the field (`ReachedFixed`,
`FixedFills`), which also keeps the arithmetic of random-access iterators on element boundaries
(`JumpReaches`).

### Definitions changed by a proof

`FieldsAt` and `KeyStatus` had `CASE`
arms whose guards overlapped, so that the definition did not say which one counts when a
key has both a wrong tag and an unknown type. They are `IF`s now, in the code's order.
`Composed` was a fold, which the provers do not know, and is a recursive function now; the
recursion of `ElementsFrom` looked up one place behind its domain when a field ended within
an element, and asks `HasElement` first.

### Assumptions

The provers treat exponentiation as an unknown function and know of a product of two
variables little. What the proofs need of powers is therefore stated of the constants:
`RadixAssumption` (they are numbers, and one varint byte does not hold every number),
`KeyAssumption` (a key has three bits more than a tag), `LengthAssumption` (a length
fits into the room reserved for it, and lengths and keys into a varint), `PowerAssumption` (the
powers of the radix, and that those of the longest varint have the width of a number)
and `SignAssumption` (half the numbers of a signed type are negative, and a wide type is a
multiple of a narrow one). `PlaceAssumption` says the same of the powers of `ByteRadix` (256
in the code), the places of the bytes of a fixed-size value. `FieldsAssumption` says of the plain fields clients
add that they are fields. TLC evaluates all of them in every run
of the modules. `BoundAssumption` is the 4 GiB limit. `NullAssumption` says that the value
for "no message" is no message. The others are types.

### Only model-checked

- `PrintsTheMessage`, that the decoder prints every field once: it is about the output of
  activations within each other, whose specification is recursive in the nesting of messages,
  and a proof needs an invariant for each place an activation can be at.
- `MeetsWhatWasAdded` and `ReadsWhatWasWritten`, the two properties of the round trip. Its
  actions are those of the two sides, of which is proved that what the writers leave is a
  message (`WritersLeaveMessages`) and that readers pass the fields of a message with their
  values (`PassesWholeFields`, `DeliversTheValue`). That these are the items that were added
  takes an invariant between the history and the bytes, and is shown by TLC.
- `SeekEnds` and `DecoderEnds`, that searches and the decoder end. The installed provers have no rules
  for fairness.

`StrongGuarantee`, `OnlyBadAlloc` and, for fields of announced size, `NoSpuriousAssert` are not
true (see the findings).

## Plan

1. Done: the writer, varints, the reader, the packed iterators, byte order and views,
   the round trip, the decoder, with the proofs above.
2. An abstract reader, a cursor over a list of fields, that `PbfReader` implements.
3. Done: what is written is well formed and implements the abstract writer, what is read is
   what is there, numbers and fixed-size values survive, iterators visit the elements.
4. Theorems about the round trip, from those about its two sides, and about the decoder.

## Not modelled

- Configuration macros, version, test and benchmark code; the texts of exceptions.
- Moving or swapping a writer with an open child, assigning to a writer in use,
  submessages of 4 GiB or more.
- `pbf_builder`'s constructor for submessages is `noexcept`, the one of `pbf_writer` it calls
  can throw `std::bad_alloc`: the program ends then. `round_trip` has enough memory;
  `writer_oom` covers the failure where it can be caught.
- In `RoundTrip`: moves and swaps of writers (they are in `writer_debug`), ranges of fixed-size
  elements, and readers that have met an exception.
- In the decoder: options, the cut of strings after 60 characters, and
  `std::isprint` of a negative `char`, which is undefined behaviour.
