----------------------------- MODULE PbfReader -----------------------------
(***************************************************************************)
(* protozero::pbf_reader: objects that walk through a message, or through   *)
(* one nested in it, without copying it.  An object is two pointers and the *)
(* tag and wire type of the current field.  A pointer is an index into the  *)
(* data, m_end one past the last byte of the object's window.               *)
(*                                                                         *)
(* An action is one call; only next(tag) and next(tag, type), which loop    *)
(* over fields, take one step per field.  The functions of the class that   *)
(* several calls share are operators from an object to a Result.            *)
(***************************************************************************)
EXTENDS Varint

Parser == INSTANCE WireParser

CONSTANTS
    Reader,         \* the variables pbf_reader objects live in
    NULL,
    Builds,         \* TRUE: protozero_assert is compiled in; FALSE: NDEBUG
    Inputs,         \* the byte sequences callers may hand in
    Wanted,         \* tags callers look for with next(tag)
    Misuse          \* TRUE: clients also make calls whose preconditions do not hold

ASSUME ReaderAssumption ==
    /\ Builds \subseteq BOOLEAN /\ Misuse \in BOOLEAN
    /\ Inputs \subseteq Seq(Byte) /\ NULL \notin Reader

VARIABLES
    asserts,    \* the build that runs
    data,       \* the bytes all readers point into
    reader,     \* the objects
    seeking,    \* the next(tag) call that is under way, or NULL
    outcome,    \* what the last call did: its name, object, result and the bytes it returned
    begin,      \* history: where each reader's window starts
    current,    \* history: where the key of its current field is, 0 without one
    strayed     \* history: readers a call failed on or was not allowed for

vars == <<asserts, data, reader, seeking, outcome, begin, current, strayed>>

NoBytes == [from |-> 1, to |-> 0]

\* A pbf_reader without data: both pointers are equal.
Default == [m_data |-> 1, m_end |-> 1, m_tag |-> 0, m_wire_type |-> UnknownType]

-----------------------------------------------------------------------------
(* The functions of the class.  A Result is the object afterwards and how    *)
(* the function ended; the object may have changed although it threw.        *)

Result(rd, status) == [reader |-> rd, status |-> status]

\* Mutated form of TagAfterSkip: the tag stays in every build.
TagAfterSkipStale(rd) == rd.m_tag

\* The debug build forgets the tag whenever bytes are skipped.
TagAfterSkip(rd) == IF asserts THEN 0 ELSE rd.m_tag

\* Mutated form of SkipBytes: nothing checks the end.
SkipBytesUnchecked(rd, len) ==
    Result([rd EXCEPT !.m_data = @ + len, !.m_tag = TagAfterSkip(rd)], "ok")

\* Mutated form of SkipBytes: "<=" for "<"
SkipBytesStrict(rd, len) ==
    IF rd.m_end - rd.m_data <= len THEN Result(rd, "end_of_buffer")
    ELSE Result([rd EXCEPT !.m_data = @ + len, !.m_tag = TagAfterSkip(rd)], "ok")

\* skip_bytes
SkipBytes(rd, len) ==
    IF rd.m_end - rd.m_data < len THEN Result(rd, "end_of_buffer")
    ELSE Result([rd EXCEPT !.m_data = @ + len, !.m_tag = TagAfterSkip(rd)], "ok")

\* Mutated form of SkipLengthDelimited: the length is a signed number.
SkipLengthSigned(s, rd) ==
    LET length == DecodeVarint(s, rd.m_data, rd.m_end)
    IN IF length.status # "ok" THEN Result(rd, length.status)
       ELSE SkipBytes([rd EXCEPT !.m_data = length.m_data], ReadInt32(length.value))

\* get_len_and_skip
SkipLengthDelimited(s, rd) ==
    LET length == DecodeVarint(s, rd.m_data, rd.m_end)
    IN IF length.status # "ok" THEN Result(rd, length.status)
       ELSE SkipBytes([rd EXCEPT !.m_data = length.m_data], LengthType(length.value))

\* get_varint, get_svarint
ReadVarint(s, rd) ==
    LET number == DecodeVarint(s, rd.m_data, rd.m_end)
    IN Result([rd EXCEPT !.m_data = number.m_data], number.status)

\* skip_varint, also behind get_bool
PassVarint(s, rd) ==
    LET passed == SkipVarint(s, rd.m_data, rd.m_end)
    IN Result([rd EXCEPT !.m_data = passed.m_data], passed.status)

FixedBytes(type) == IF type = Fixed64Type THEN Fixed64Bytes ELSE Fixed32Bytes

\* Mutated form of SkipField: the length is read but its bytes are not skipped.
SkipFieldShort(s, rd) ==
    CASE rd.m_wire_type \in {VarintType, LengthDelimitedType} -> PassVarint(s, rd)
      [] rd.m_wire_type \in {Fixed64Type, Fixed32Type} ->
            SkipBytes(rd, FixedBytes(rd.m_wire_type))
      [] OTHER -> Result(rd, "ok")

\* skip()
SkipField(s, rd) ==
    CASE rd.m_wire_type = VarintType -> PassVarint(s, rd)
      [] rd.m_wire_type \in {Fixed64Type, Fixed32Type} ->
            SkipBytes(rd, FixedBytes(rd.m_wire_type))
      [] rd.m_wire_type = LengthDelimitedType -> SkipLengthDelimited(s, rd)
      [] OTHER -> Result(rd, "ok")

\* Mutated form of KeyStatus: tag 0 is let through.
KeyStatusZeroTag(key) ==
    IF key \div 8 \in ReservedTags THEN "invalid_tag"
    ELSE IF key % 8 \notin WireType THEN "unknown_wire_type" ELSE "true"

\* What next() checks of a key, in this order.
KeyStatus(key) ==
    IF key \div 8 \in {0} \cup ReservedTags THEN "invalid_tag"
    ELSE IF key % 8 \notin WireType THEN "unknown_wire_type" ELSE "true"

\* Mutated form of NextField: the key is not cut to 32 bits.
NextFieldWide(s, rd) ==
    LET number == DecodeVarint(s, rd.m_data, rd.m_end)
        key == number.value
        read == [rd EXCEPT !.m_data = number.m_data, !.m_tag = key \div 8]
    IN IF rd.m_data = rd.m_end THEN Result(rd, "false")
       ELSE IF number.status # "ok" THEN Result(rd, number.status)
       ELSE IF KeyStatus(key) = "invalid_tag" THEN Result(read, "invalid_tag")
       ELSE Result([read EXCEPT !.m_wire_type = key % 8], KeyStatus(key))

\* next(): an unusable key has been consumed when the exception is thrown.
NextField(s, rd) ==
    LET number == DecodeVarint(s, rd.m_data, rd.m_end)
        key == LengthType(number.value)
        read == [rd EXCEPT !.m_data = number.m_data, !.m_tag = key \div 8]
    IN IF rd.m_data = rd.m_end THEN Result(rd, "false")
       ELSE IF number.status # "ok" THEN Result(rd, number.status)
       ELSE IF KeyStatus(key) = "invalid_tag" THEN Result(read, "invalid_tag")
       ELSE Result([read EXCEPT !.m_wire_type = key % 8], KeyStatus(key))

-----------------------------------------------------------------------------
(* The contract: "there must be a current field" of the right type, or, for  *)
(* next(), none.  What a reader is good for after an exception is not said.  *)

AtKey(r) == r \notin strayed /\ current[r] = 0
AtValue(r, types) == r \notin strayed /\ current[r] # 0 /\ reader[r].m_wire_type \in types

\* protozero_assert(tag() != 0), protozero_assert(has_wire_type(...)).  The
\* varint getters look at the type only, the packed ones at the tag only.
TagAndTypeHold(r, types) == reader[r].m_tag # 0 /\ reader[r].m_wire_type \in types
TypeHolds(r) == reader[r].m_wire_type = VarintType
TagHolds(r) == reader[r].m_tag # 0

Aborted == {"assert_on_misuse", "assert_on_legal_call"}

\* Calls are made one after the other; a failed assertion ends the program.
MayCall(inContract) ==
    seeking = NULL /\ outcome.status \notin Aborted /\ (inContract \/ Misuse)
Stray(r, inContract, status) ==
    strayed' = IF inContract /\ status \in {"ok", "true", "false"} THEN strayed ELSE strayed \cup {r}

Report(call, r, status, bytes) ==
    outcome' = [call |-> call, on |-> r, status |-> status, bytes |-> bytes]

Between(from, to) == [from |-> from, to |-> to - 1]

-----------------------------------------------------------------------------
(* Constructors, assignment, swap().                                        *)

\* pbf_reader(data, size) and the like, over the bytes from .. to - 1
ConstructOver(r, from, to) ==
    /\ MayCall(TRUE)
    /\ reader' = [reader EXCEPT ![r] = [Default EXCEPT !.m_data = from, !.m_end = to]]
    /\ begin' = [begin EXCEPT ![r] = from]
    /\ current' = [current EXCEPT ![r] = 0]
    /\ strayed' = strayed \ {r}
    /\ Report("construct", r, "ok", NoBytes)
    /\ UNCHANGED <<asserts, data, seeking>>

Construct(r) == ConstructOver(r, 1, Len(data) + 1)

\* Copies are independent of the original.
Copy(from, to) ==
    /\ MayCall(TRUE) /\ from # to
    /\ reader' = [reader EXCEPT ![to] = reader[from]]
    /\ begin' = [begin EXCEPT ![to] = begin[from]]
    /\ current' = [current EXCEPT ![to] = current[from]]
    /\ strayed' = IF from \in strayed THEN strayed \cup {to} ELSE strayed \ {to}
    /\ Report("copy", to, "ok", NoBytes)
    /\ UNCHANGED <<asserts, data, seeking>>

SwapReaders(r, q) ==
    /\ MayCall(TRUE) /\ r # q
    /\ reader' = [reader EXCEPT ![r] = reader[q], ![q] = reader[r]]
    /\ begin' = [begin EXCEPT ![r] = begin[q], ![q] = begin[r]]
    /\ current' = [current EXCEPT ![r] = current[q], ![q] = current[r]]
    /\ strayed' = {IF v = r THEN q ELSE IF v = q THEN r ELSE v : v \in strayed}
    /\ Report("swap", r, "ok", NoBytes)
    /\ UNCHANGED <<asserts, data, seeking>>

-----------------------------------------------------------------------------
(* Moving to a field.                                                       *)

\* The position of the key, when a call on a reader at that key found a field.
FieldFound(r, status) ==
    current' = [current EXCEPT ![r] = IF status = "true" THEN reader[r].m_data ELSE 0]

\* next()
Advance(r) ==
    LET next == NextField(data, reader[r]) IN
    /\ MayCall(AtKey(r))
    /\ reader' = [reader EXCEPT ![r] = next.reader]
    /\ FieldFound(r, next.status) /\ Stray(r, AtKey(r), next.status)
    /\ Report("next", r, next.status, NoBytes)
    /\ UNCHANGED <<asserts, data, seeking, begin>>

\* next(next_tag), type = UnknownType, and next(next_tag, type) begin.
Seek(r, tag, type) ==
    /\ MayCall(AtKey(r))
    /\ seeking' = [on |-> r, tag |-> tag, type |-> type, start |-> reader[r].m_data]
    /\ Stray(r, AtKey(r), "ok")
    /\ UNCHANGED <<asserts, data, reader, outcome, begin, current>>

\* Mutated form of Matches: the wire type does not count.
MatchesTag(rd, sought) == rd.m_tag = sought.tag

Matches(rd, sought) ==
    /\ rd.m_tag = sought.tag
    /\ sought.type # UnknownType => rd.m_wire_type = sought.type

\* One turn of their loop: next(), and skip() when it is another field.  The
\* two together throw, end the search, or pass one field.
SeekStep ==
    LET r == seeking.on
        next == NextField(data, reader[r])
        found == next.status = "true" /\ Matches(next.reader, seeking)
        skip == SkipField(data, next.reader)
        last == IF next.status # "true" \/ found THEN next ELSE skip
        again == next.status = "true" /\ ~found /\ skip.status = "ok"
    IN /\ seeking # NULL
       /\ reader' = [reader EXCEPT ![r] = last.reader]
       /\ IF again THEN UNCHANGED <<seeking, current, outcome, strayed>>
          ELSE /\ seeking' = NULL
               /\ FieldFound(r, last.status) /\ Stray(r, TRUE, last.status)
               /\ Report("next(tag)", r, last.status, NoBytes)
       /\ UNCHANGED <<asserts, data, begin>>

-----------------------------------------------------------------------------
(* Consuming the current field.                                             *)

\* A call that ends with result and returns the bytes it moved over, or the
\* last of them.
Consume(call, r, types, asserted, result, from) ==
    /\ MayCall(AtValue(r, types))
    /\ asserts => asserted
    /\ reader' = [reader EXCEPT ![r] = result.reader]
    /\ current' = [current EXCEPT ![r] = 0]
    /\ Stray(r, AtValue(r, types), result.status)
    /\ Report(call, r, result.status,
              IF result.status = "ok" THEN Between(from, result.reader.m_data) ELSE NoBytes)
    /\ UNCHANGED <<asserts, data, seeking>>

Skip(r) ==
    /\ Consume("skip", r, WireType, TagHolds(r), SkipField(data, reader[r]), reader[r].m_data)
    /\ UNCHANGED begin

\* get_enum, get_int32, ..., get_uint64, and their svarint forms
GetVarint(r) ==
    /\ Consume("get_varint", r, {VarintType}, TypeHolds(r),
               ReadVarint(data, reader[r]), reader[r].m_data)
    /\ UNCHANGED begin

\* get_bool looks at the first byte only, after it has skipped all.
GetBool(r) ==
    /\ Consume("get_bool", r, {VarintType}, TagAndTypeHold(r, {VarintType}),
               PassVarint(data, reader[r]), reader[r].m_data)
    /\ UNCHANGED begin

\* get_fixed32, ..., get_double
GetFixed(r, type) ==
    /\ Consume("get_fixed", r, {type}, TagAndTypeHold(r, {type}),
               SkipBytes(reader[r], FixedBytes(type)), reader[r].m_data)
    /\ UNCHANGED begin

\* Mutated form of PayloadFrom: the length is taken for a part of the value.
PayloadFromLength(r) == reader[r].m_data

\* The bytes behind the length, which "m_data - len" finds again.
PayloadFrom(r) == DecodeVarint(data, reader[r].m_data, reader[r].m_end).m_data

\* get_view, get_data; get_bytes and get_string copy what it returns.
GetView(r) ==
    /\ Consume("get_view", r, {LengthDelimitedType}, TagAndTypeHold(r, {LengthDelimitedType}),
               SkipLengthDelimited(data, reader[r]), PayloadFrom(r))
    /\ UNCHANGED begin

\* The copy get_bytes or get_string makes of the view cannot be allocated.
GetStringThrows(r) ==
    LET view == SkipLengthDelimited(data, reader[r]) IN
    /\ view.status = "ok"
    /\ Consume("get_string", r, {LengthDelimitedType}, TagAndTypeHold(r, {LengthDelimitedType}),
               Result(view.reader, "bad_alloc"), PayloadFrom(r))
    /\ UNCHANGED begin

\* get_packed_bool, ..., get_packed_uint64
GetPacked(r) ==
    /\ Consume("get_packed", r, {LengthDelimitedType}, TagHolds(r),
               SkipLengthDelimited(data, reader[r]), PayloadFrom(r))
    /\ UNCHANGED begin

\* packed_fixed looks at the length when the bytes have been skipped already.
PackedFixed(r, size) ==
    LET view == SkipLengthDelimited(data, reader[r])
    IN IF view.status = "ok" /\ (view.reader.m_data - PayloadFrom(r)) % size # 0
       THEN Result(view.reader, "invalid_length") ELSE view

\* get_packed_fixed32, ..., get_packed_double
GetPackedFixed(r, size) ==
    /\ Consume("get_packed_fixed", r, {LengthDelimitedType}, TagHolds(r),
               PackedFixed(r, size), PayloadFrom(r))
    /\ UNCHANGED begin

\* get_message: child is a new reader over the value, r has passed it.  The
\* child may take the place of r.  A failing get_message is a failing get_view.
GetMessage(r, child) ==
    LET view == SkipLengthDelimited(data, reader[r])
        types == {LengthDelimitedType}
    IN /\ MayCall(AtValue(r, types)) /\ (asserts => TagAndTypeHold(r, types))
       /\ view.status = "ok"
       /\ reader' = [reader EXCEPT ![r] = view.reader,
                         ![child] = [Default EXCEPT !.m_data = PayloadFrom(r),
                                                    !.m_end = view.reader.m_data]]
       /\ begin' = [begin EXCEPT ![child] = PayloadFrom(r)]
       /\ current' = [current EXCEPT ![r] = 0, ![child] = 0]
       /\ strayed' = (IF AtValue(r, types) THEN strayed ELSE strayed \cup {r}) \ {child}
       /\ Report("get_message", r, "ok", Between(PayloadFrom(r), view.reader.m_data))
       /\ UNCHANGED <<asserts, data, seeking>>

-----------------------------------------------------------------------------
(* Calls an assertion stops.  The program ends there.                       *)

Abort(call, r, inContract, asserted) ==
    /\ asserts /\ MayCall(inContract) /\ ~asserted
    /\ Report(call, r, IF inContract THEN "assert_on_legal_call" ELSE "assert_on_misuse", NoBytes)
    /\ UNCHANGED <<asserts, data, reader, seeking, begin, current, strayed>>

GetterAborts(r) ==
    \/ Abort("skip", r, AtValue(r, WireType), TagHolds(r))
    \/ Abort("get_varint", r, AtValue(r, {VarintType}), TypeHolds(r))
    \/ Abort("get_bool", r, AtValue(r, {VarintType}), TagAndTypeHold(r, {VarintType}))
    \/ \E type \in {Fixed32Type, Fixed64Type, LengthDelimitedType} :
        Abort("get", r, AtValue(r, {type}), TagAndTypeHold(r, {type}))
    \/ Abort("get_packed", r, AtValue(r, {LengthDelimitedType}), TagHolds(r))

-----------------------------------------------------------------------------

Init ==
    /\ asserts \in Builds /\ data \in Inputs
    /\ reader = [r \in Reader |-> Default]
    /\ seeking = NULL
    /\ outcome = [call |-> "none", on |-> NULL, status |-> "ok", bytes |-> NoBytes]
    /\ begin = [r \in Reader |-> 1]
    /\ current = [r \in Reader |-> 0]
    /\ strayed = {}

Next ==
    \/ \E r, q \in Reader : Copy(r, q) \/ SwapReaders(r, q) \/ GetMessage(r, q)
    \/ \E r \in Reader : Construct(r) \/ Advance(r) \/ GetterAborts(r)
    \/ \E r \in Reader, tag \in Wanted, type \in WireType \cup {UnknownType} : Seek(r, tag, type)
    \/ SeekStep
    \/ \E r \in Reader :
        \/ Skip(r) \/ GetVarint(r) \/ GetBool(r)
        \/ GetView(r) \/ GetStringThrows(r) \/ GetPacked(r)
    \/ \E r \in Reader, type \in {Fixed32Type, Fixed64Type} :
        GetFixed(r, type) \/ GetPackedFixed(r, FixedBytes(type))

Spec == Init /\ [][Next]_vars

\* A client that searches a message; a search that has begun runs on in its
\* thread, whether the client ever begins another is its own business.
Search ==
    \/ \E r \in Reader : Construct(r)
    \/ \E r \in Reader, tag \in Wanted, type \in WireType \cup {UnknownType} : Seek(r, tag, type)
    \/ SeekStep
SearchSpec == Init /\ [][Search]_vars /\ WF_vars(SeekStep)

-----------------------------------------------------------------------------
(* Properties.                                                              *)

Malformed == {"end_of_buffer", "varint_too_long", "invalid_tag", "unknown_wire_type"}
Exception == Malformed \cup {"invalid_length", "bad_alloc"}

\* The types of the members; tags have the LengthBits - 3 bits of a key.
TypeOK ==
    /\ asserts \in Builds /\ data \in Inputs
    /\ reader \in [Reader -> [m_data : 1 .. Len(data) + 1, m_end : 1 .. Len(data) + 1,
                               m_tag : 0 .. MaxTag, m_wire_type : 0 .. 7 \cup {UnknownType}]]
    /\ seeking = NULL \/ seeking.on \in Reader
    /\ outcome.status \in {"ok", "true", "false"} \cup Exception \cup Aborted
    /\ begin \in [Reader -> 1 .. Len(data) + 1]
    /\ current \in [Reader -> 0 .. Len(data)]
    /\ strayed \subseteq Reader

\* Whatever calls are made, allowed or not, and whatever the bytes are, no
\* reader leaves its window, and no window reaches behind the data.
InBounds ==
    \A r \in Reader :
        /\ begin[r] <= reader[r].m_data
        /\ reader[r].m_data <= reader[r].m_end
        /\ reader[r].m_end <= Len(data) + 1

\* A reader over a nested message never looks at the bytes behind it: every
\* call would do the same if the data ended at m_end.
Confined ==
    \A r \in Reader :
        LET rd == reader[r]
            cut == SubSeq(data, 1, rd.m_end - 1)
        IN /\ NextField(cut, rd) = NextField(data, rd)
           /\ SkipField(cut, rd) = SkipField(data, rd)
           /\ ReadVarint(cut, rd) = ReadVarint(data, rd)
           /\ PassVarint(cut, rd) = PassVarint(data, rd)
           /\ SkipLengthDelimited(cut, rd) = SkipLengthDelimited(data, rd)

Window(r) == SubSeq(data, begin[r], reader[r].m_end - 1)

\* By whatever mix of next, skip and getters a reader came to where it is, what
\* it has passed is a sequence of complete fields; so a reader that reaches the
\* end without an exception has read a well-formed message.
WholeFieldsRead ==
    \A r \in Reader \ strayed :
        LET upto == IF current[r] = 0 THEN reader[r].m_data ELSE current[r]
        IN Parser!IsMessage(SubSeq(data, begin[r], upto - 1))

\* Clients that keep the contract see an exception only on bytes that are no
\* message (invalid_length apart, which is about the elements of a field).
HonestErrors ==
    ~Misuse /\ outcome.status \in Malformed => ~Parser!IsMessage(Window(outcome.on))

\* An assertion only ever stops a call whose preconditions do not hold.
NoSpuriousAssert == outcome.status # "assert_on_legal_call"

Getters ==
    {"get_varint", "get_bool", "get_fixed", "get_view", "get_packed", "get_packed_fixed",
     "get_message"}

\* What the assertions can detect: in the build that has them, only a varint
\* leaves its tag behind when it has been consumed, so reading any other field
\* twice fails an assertion ("so that we can detect (some) wrong code",
\* pbf_reader.hpp:121-125).
DoubleReadsShow ==
    \A r \in Reader \ strayed :
        asserts /\ current[r] = 0 /\ reader[r].m_tag # 0 => reader[r].m_wire_type = VarintType

\* A getter returns exactly the bytes of the current field's value, for a nested
\* message the new reader's window, whichever way the field was reached.
Delivers ==
    LET r == outcome'.on IN
    outcome'.call \in Getters /\ outcome'.status = "ok"
            /\ r \notin strayed \cup strayed' /\ current[r] # 0 =>
        \E f \in Parser!FieldsAt(Window(r), current[r] - begin[r] + 1) :
            /\ f.tag = reader[r].m_tag /\ f.type = reader[r].m_wire_type
            /\ outcome'.bytes = [from |-> f.from + begin[r] - 1, to |-> f.to + begin[r] - 1]
DeliversValue == [][Delivers]_vars

\* next(tag) and next(tag, type) stop at the first field that was asked for and
\* return false only when there is none.
SeeksFirst ==
    LET r == seeking.on
        upto == IF outcome'.status = "true" THEN current'[r] ELSE reader[r].m_end
        asked(f) == f.tag = seeking.tag /\ (seeking.type # UnknownType => f.type = seeking.type)
    IN seeking # NULL /\ seeking' = NULL /\ outcome'.status \in {"true", "false"} =>
        /\ ~\E f \in Parser!FieldsOf(SubSeq(data, seeking.start, upto - 1)) : asked(f)
        /\ outcome'.status = "true" =>
            asked([tag |-> reader'[r].m_tag, type |-> reader'[r].m_wire_type])
FindsFirst == [][SeeksFirst]_vars

\* Where the strong exception guarantee does hold: a number or a fixed-size value
\* that is cut off, in next(), skip() or a getter, leaves every reader as it was.
CutOffStep ==
    LET cutOff == outcome'.status \in {"end_of_buffer", "varint_too_long"}
        scalar == \/ outcome'.call \in {"next", "get_varint", "get_bool", "get_fixed"}
                  \/ /\ outcome'.call = "skip"
                     /\ reader[outcome'.on].m_wire_type # LengthDelimitedType
    IN seeking = NULL /\ seeking' = NULL /\ cutOff /\ scalar => reader' = reader
CutOffChangesNothing == [][CutOffStep]_vars

\* "All methods of the pbf_reader class except get_bytes() and get_string()
\* provide the strong exception guarantee" (pbf_reader.hpp:57-59).
StrongGuaranteeStep ==
    seeking = NULL /\ seeking' = NULL
            /\ outcome'.status \in Exception /\ outcome'.call # "get_string" =>
        reader' = reader
StrongGuarantee == [][StrongGuaranteeStep]_vars

\* The loops of next(tag) and next(tag, type) end on every input.
SeekEnds == seeking # NULL ~> seeking = NULL
=============================================================================
