------------------------------ MODULE PbfDecoder ------------------------------
(***************************************************************************)
(* The pbf-decoder tool: prints a message of unknown type.  What a length-   *)
(* delimited field contains is a guess: decode() calls itself on it, and an   *)
(* exception from any depth makes it fall back to strings and numbers, for    *)
(* which a copy of the reader was kept.                                     *)
(*                                                                         *)
(* Each activation of decode() has two readers, message and message_copy;    *)
(* its calls are the actions of PbfReader.  What is printed are tokens; the   *)
(* layout is left out.                                                      *)
(***************************************************************************)
EXTENDS PbfReader, Iterators

CONSTANTS
    MaxLevel,       \* bound: activations of decode() within each other
    Printable,      \* the bytes decode_printable_string accepts
    Offsets,        \* values of the option -o
    Lengths         \* values of the option -l

Message(level) == <<level, "message">>
MessageCopy(level) == <<level, "copy">>

ASSUME DecoderAssumption ==
    /\ Reader = {Message(l) : l \in 1 .. MaxLevel} \cup {MessageCopy(l) : l \in 1 .. MaxLevel}
    /\ ~Misuse /\ Offsets \cup Lengths \subseteq Nat

VARIABLES
    pc,         \* what the innermost activation does next
    frames,     \* the activations: what each has printed and the bytes it decodes
    view,       \* the bytes of the length-delimited field being guessed at
    printed     \* what the program has written to cout

decoderVars == <<pc, frames, view, printed>>

Level == Len(frames)
Frame == frames[Level]

\* A token of the output: a tag with its indentation, a number, or a string.
Token(what, level, value) == <<[what |-> what, level |-> level, value |-> value]>>
Number(value) == Token("number", 0, <<value>>)
Text(what, from, to) == Token(what, 0, SubSeq(data, from, to))

Put(tokens) == frames' = [frames EXCEPT ![Level].out = @ \o tokens]
Goto(label) == pc' = label

\* The calls of a reader end with a value or with a protozero::exception, which
\* leaves decode() and is caught by decode_message or by main.
GotoIfOk(label) == Goto(IF outcome'.status \in {"ok", "true"} THEN label ELSE "unwind")

-----------------------------------------------------------------------------
(* main()                                                                   *)

\* The file is read and cut to what -o and -l ask for.
Load(offset, length) ==
    /\ pc = "main"
    /\ IF offset > Len(data) THEN Goto("usage_error") /\ UNCHANGED data
       ELSE /\ data' = SubSeq(data, offset + 1, Min({Len(data), offset + length}))
            /\ Goto("decode")
    /\ frames' = <<[out |-> <<>>, from |-> 1, to |-> Len(data')]>>
    /\ UNCHANGED <<asserts, reader, seeking, outcome, begin, current, strayed, view, printed>>

-----------------------------------------------------------------------------
(* decode()                                                                 *)

\* pbf_reader message{data, len}
Enter ==
    /\ pc = "decode"
    /\ ConstructOver(Message(Level), Frame.from, Frame.to + 1)
    /\ Goto("next") /\ UNCHANGED <<frames, view, printed>>

\* while (message.next()), and the tag is printed
Loop ==
    /\ pc = "next"
    /\ Advance(Message(Level))
    /\ IF outcome'.status = "true"
       THEN /\ Put(Token("tag", Level, <<reader'[Message(Level)].m_tag>>))
            /\ Goto("value")
       ELSE /\ Goto(IF outcome'.status = "false" THEN "return" ELSE "unwind")
            /\ UNCHANGED frames
    /\ UNCHANGED <<view, printed>>

FieldType == reader[Message(Level)].m_wire_type

PrintIfOk(value) ==
    IF outcome'.status = "ok" THEN Put(Number(value)) ELSE UNCHANGED frames

\* message.get_int64()
PrintVarint ==
    LET rd == reader[Message(Level)] IN
    /\ pc = "value" /\ FieldType = VarintType
    /\ GetVarint(Message(Level))
    /\ PrintIfOk(ReadInt64(DecodeVarint(data, rd.m_data, rd.m_end).value))
    /\ GotoIfOk("next") /\ UNCHANGED <<view, printed>>

\* message.get_double() and message.get_float(), taken for numbers
PrintFixed(type) ==
    LET rd == reader[Message(Level)] IN
    /\ pc = "value" /\ FieldType = type
    /\ GetFixed(Message(Level), type)
    /\ PrintIfOk(GetFixedNumber(data, rd.m_data, FixedBytes(type), "little"))
    /\ GotoIfOk("next") /\ UNCHANGED <<view, printed>>

\* pbf_reader message_copy{message}
KeepCopy ==
    /\ pc = "value" /\ FieldType = LengthDelimitedType
    /\ Copy(Message(Level), MessageCopy(Level))
    /\ Goto("view") /\ UNCHANGED <<frames, view, printed>>

\* message.get_view(), and decode_message calls decode() on it
NestedDecode ==
    /\ pc = "view"
    /\ GetView(Message(Level))
    /\ outcome'.status = "ok" => Level < MaxLevel
    /\ frames' = IF outcome'.status = "ok"
                 THEN Append(frames, [out |-> <<>>, from |-> outcome'.bytes.from,
                                      to |-> outcome'.bytes.to])
                 ELSE frames
    /\ GotoIfOk("decode") /\ UNCHANGED <<view, printed>>

\* return stream.str(): to decode_message, which prints it, or to main
Return ==
    /\ pc = "return"
    /\ IF Level = 1
       THEN /\ printed' = Frame.out
            /\ Goto("exit_0") /\ UNCHANGED frames
       ELSE /\ frames' = [SubSeq(frames, 1, Level - 1) EXCEPT ![Level - 1].out = @ \o Frame.out]
            /\ Goto("next") /\ UNCHANGED printed
    /\ UNCHANGED <<vars, view>>

\* Mutated form of Remaining: what the failed attempt has printed is kept.
RemainingWithOutput ==
    [SubSeq(frames, 1, Level - 1) EXCEPT ![Level - 1].out = @ \o Frame.out]

\* The activations when one is left by an exception: its stream is gone.
Remaining == SubSeq(frames, 1, Level - 1)

\* catch (const protozero::exception&) in decode_message, catch in main
Unwind ==
    /\ pc = "unwind"
    /\ IF Level = 1 THEN Goto("exit_1") /\ UNCHANGED <<frames, view>>
       ELSE /\ frames' = Remaining
            /\ view' = [from |-> Frame.from, to |-> Frame.to]
            /\ Goto("printable")
    /\ UNCHANGED <<vars, printed>>

-----------------------------------------------------------------------------
(* The other guesses, in their order.                                       *)

ViewSize == view.to - view.from + 1

\* decode_printable_string
PrintString ==
    /\ pc = "printable"
    /\ IF \A i \in view.from .. view.to : data[i] \in Printable
       THEN Put(Text("string", view.from, view.to)) /\ Goto("next")
       ELSE UNCHANGED frames /\ Goto("doubles")
    /\ UNCHANGED <<vars, view, printed>>

\* print_number_range: the numbers up to the end, or to an element that throws.
NumberRange(kind, range) ==
    LET from[at \in range.first.m_data .. range.second.m_data] ==
            LET it == Iterator(kind, at, range.second.m_data)
                element == Dereference(data, kind, it, "little")
                rest == from[Increment(data, kind, it).iterator.m_data]
            IN IF it = range.second THEN [out |-> <<>>, status |-> "ok"]
               ELSE IF element.status # "ok" THEN [out |-> <<>>, status |-> element.status]
               ELSE [rest EXCEPT !.out = Number(element.value) \o @]
    IN from[range.first.m_data]

\* Mutated form of Guesser: the reader that get_view has moved on.
GuesserMoved == Message(Level)

\* The reader of the field, where it was before get_view.
Guesser == MessageCopy(Level)

ReturnedRange(kind) == PackedRange(kind, outcome'.bytes.from, outcome'.bytes.to + 1)

\* decode_packed_double and decode_packed_float
PrintFixedNumbers(label, kind, otherwise) ==
    /\ pc = label
    /\ IF ViewSize % ElementSize(kind) # 0
       THEN UNCHANGED <<vars, frames>> /\ Goto(otherwise)
       ELSE /\ GetPackedFixed(Guesser, ElementSize(kind))
            /\ IF outcome'.status = "ok"
               THEN Put(NumberRange(kind, ReturnedRange(kind)).out) /\ Goto("next")
               ELSE UNCHANGED frames /\ Goto(otherwise)
    /\ UNCHANGED <<view, printed>>

\* decode_packed_varint: what it has printed before an exception stays printed.
PrintVarints ==
    /\ pc = "varints"
    /\ GetPacked(Guesser)
    /\ IF outcome'.status = "ok"
       THEN LET numbers == NumberRange("varint", ReturnedRange("varint"))
            IN Put(numbers.out) /\ Goto(IF numbers.status = "ok" THEN "next" ELSE "text")
       ELSE UNCHANGED frames /\ Goto("text")
    /\ UNCHANGED <<view, printed>>

\* decode_string
PrintText ==
    /\ pc = "text"
    /\ Put(Text("text", view.from, view.to)) /\ Goto("next")
    /\ UNCHANGED <<vars, view, printed>>

-----------------------------------------------------------------------------

DecoderInit ==
    /\ Init
    /\ pc = "main" /\ frames = <<>> /\ view = NoBytes /\ printed = <<>>

Run ==
    \/ \E offset \in Offsets, length \in Lengths : Load(offset, length)
    \/ Enter \/ Loop \/ PrintVarint \/ KeepCopy \/ NestedDecode \/ Return \/ Unwind
    \/ \E type \in {Fixed32Type, Fixed64Type} : PrintFixed(type)
    \/ PrintString
    \/ PrintFixedNumbers("doubles", "fixed64", "floats")
    \/ PrintFixedNumbers("floats", "fixed32", "varints")
    \/ PrintVarints \/ PrintText

Ended == pc \in {"exit_0", "exit_1", "usage_error"}

\* The program runs by itself, one thread that nothing waits for.
DecoderSpec ==
    /\ DecoderInit /\ [][Run]_<<vars, decoderVars>> /\ WF_<<vars, decoderVars>>(Run)
-----------------------------------------------------------------------------
(* What is to be printed, by what the bytes from .. to mean.                *)

Part(from, to) == SubSeq(data, from, to)
IsPrintable(from, to) == \A i \in from .. to : data[i] \in Printable

\* The little-endian number in these bytes.
FixedNumber(from, to) ==
    LET value[i \in from .. to] ==
            data[i] + (IF i = to THEN 0 ELSE ByteRadix * value[i + 1])
    IN Number(value[from])

\* Numbers of size bytes.
FixedNumbers(from, to, size) ==
    LET rest[i \in from .. to + 1] ==
            IF i > to THEN <<>> ELSE FixedNumber(i, i + size - 1) \o rest[i + size]
    IN rest[from]

\* The varints up to the first that is none, and all of it as a string then.
Varints(from, to) ==
    LET part == Part(from, to)
        rest[i \in 1 .. Len(part) + 1] ==
            IF i > Len(part) THEN <<>>
            ELSE IF Parser!VarintStops(part, i) = {} THEN Text("text", from, to)
            ELSE Number(ReadInt64(Parser!VarintValue(part, i)))
                    \o rest[Parser!VarintEnd(part, i) + 1]
    IN rest[1]

Guess(from, to) ==
    LET size == to - from + 1 IN
    CASE IsPrintable(from, to) -> Text("string", from, to)
      [] ~IsPrintable(from, to) /\ size % Fixed64Bytes = 0 -> FixedNumbers(from, to, Fixed64Bytes)
      [] ~IsPrintable(from, to) /\ size % Fixed64Bytes # 0 /\ size % Fixed32Bytes = 0 ->
            FixedNumbers(from, to, Fixed32Bytes)
      [] OTHER -> Varints(from, to)

\* shown[from, to, level] is the message in these bytes, field by field.
Expected ==
    LET shown[from \in 1 .. Len(data) + 1, to \in 0 .. Len(data), level \in 1 .. MaxLevel] ==
            IF from > to THEN <<>>
            ELSE LET f == CHOOSE f \in Parser!FieldsAt(Part(from, to), 1) : TRUE
                     first == from + f.from - 1
                     last == from + f.to - 1
                     nested == Parser!IsMessage(Part(first, last))
                     value ==
                        CASE f.type = VarintType ->
                                Number(ReadInt64(Parser!VarintValue(data, first)))
                          [] f.type \in {Fixed32Type, Fixed64Type} -> FixedNumber(first, last)
                          [] f.type = LengthDelimitedType /\ nested ->
                                shown[first, last, level + 1]
                          [] f.type = LengthDelimitedType /\ ~nested -> Guess(first, last)
                 IN Token("tag", level, <<f.tag>>) \o value \o shown[last + 1, to, level]
    IN shown[1, Len(data), 1]

-----------------------------------------------------------------------------
(* Properties.                                                              *)

\* The program ends with 0 exactly on messages and then shows every field of
\* every message in them once and in order: what a guess has printed before it
\* failed is gone, except for the numbers in front of one that is no varint,
\* and whatever the guess, the next field is found.
PrintsTheMessage ==
    /\ pc = "exit_0" => Parser!IsMessage(data) /\ printed = Expected
    /\ pc = "exit_1" => ~Parser!IsMessage(data) /\ printed = <<>>

\* On every input the program comes to its end, in both builds: nested guesses
\* get smaller and no call of its own fails an assertion.
DecoderEnds == <>Ended
=============================================================================
