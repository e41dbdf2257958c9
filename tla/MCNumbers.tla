------------------------------ MODULE MCNumbers ------------------------------
(***************************************************************************)
(* Every short sequence of bytes, read as one number, as the elements of a   *)
(* packed field of each type, and as two views; and every number of          *)
(* ValueBits bits, written and read back.                                   *)
(***************************************************************************)
EXTENDS PackedIterators, DataView, SequencesExt

CONSTANT MaxInput   \* bound: the longest input

AllInputs == SeqOf(Byte, MaxInput)

\* The functions below depend on the bytes only: one state of each input will do.
AtStart == kind = "varint" /\ range # EmptyRange /\ passed = 0 /\ dropped = 0

Decoded == DecodeVarint(payload, 1, Len(payload) + 1)
Skipped == SkipVarint(payload, 1, Len(payload) + 1)

\* decode_varint, by its one-byte shortcut, its unrolled or its looping path
\* (varint.hpp:33-98), returns the number of every complete varint and the
\* position behind it.  It reports a varint that is too long once that is
\* certain, and otherwise the end of the buffer; then the pointer stays.
DecodesVarints ==
    AtStart =>
        LET stops == Parser!VarintStops(payload, 1)
        IN Decoded =
            IF stops # {}
            THEN Found(Parser!VarintValue(payload, 1), Parser!VarintEnd(payload, 1) + 1)
            ELSE Missed(IF Len(payload) >= MaxVarintLength THEN "varint_too_long"
                        ELSE "end_of_buffer", 1)

\* Skipping a varint and decoding it end at the same place or with the same
\* exception, although the two count bytes in different ways.
SkipsWhatDecodes ==
    AtStart => Skipped.status = Decoded.status /\ Skipped.m_data = Decoded.m_data

\* A number that was written is read back and takes the number of bytes that
\* length_of_varint announces, whatever stands behind it; and get_bool, which
\* looks at the first of these bytes only, sees whether it is zero.
NumbersSurvive ==
    AtStart =>
        \A n \in 0 .. 2^ValueBits - 1 :
            LET text == Varint[n] \o payload
            IN /\ DecodeVarint(text, 1, Len(text) + 1) = Found(n, LengthOfVarint[n] + 1)
               /\ ReadBool(text, 1) = (n # 0)

\* Each value of a signed type survives its way through the varint that is read
\* from the input.  Widths mix: sint32 is encoded with 32 bits and decoded with
\* 64, int32 is written with 64 bits and cut to 32; reading a field as the wider
\* type gives the same value.
SignedSurvive ==
    LET wide == AsSigned(Decoded.value, ValueBits)
        narrow == AsSigned(Decoded.value, LengthBits)
    IN AtStart =>
        /\ ReadSint64(WrittenSint64(wide)) = wide
        /\ ReadInt64(WrittenInt(wide)) = wide
        /\ ReadSint32(WrittenSint32(narrow)) = narrow
        /\ ReadSint64(WrittenSint32(narrow)) = narrow
        /\ ReadInt32(WrittenInt(narrow)) = narrow
        /\ ReadInt64(WrittenInt(narrow)) = narrow
        /\ WrittenSint32(narrow) < LengthModulus

\* Fixed-size values that the writer adds are the same bytes whatever the byte
\* order of its host, and a reader on either kind of host gets the number back.
\* Nothing but the input's length tells the two sizes apart.
FixedSurvive ==
    LET size == Len(payload)
        value == GetFixedNumber(payload, 1, size, "little")
    IN AtStart /\ size \in {Fixed32Bytes, Fixed64Bytes} =>
        \A writer, reader \in Host :
            /\ AddFixed(value, size, writer) = payload
            /\ GetFixedNumber(AddFixed(value, size, writer), 1, size, reader) = value

\* The order of two parts of the input as words in a dictionary.
Before(a, b) ==
    \/ IsStrictPrefix(a, b)
    \/ \E i \in 1 .. Min({Len(a), Len(b)}) : SubSeq(a, 1, i - 1) = SubSeq(b, 1, i - 1) /\ a[i] < b[i]

\* compare() is the order of a dictionary, so views can be keys of sorted
\* containers, and it and operator==, which does not use it, agree.
ViewsAreOrdered ==
    AtStart =>
        \A i, j \in 0 .. Len(payload) :
            LET a == SubSeq(payload, 1, i)
                b == SubSeq(payload, j + 1, Len(payload))
            IN /\ Less(a, b) <=> Before(a, b)
               /\ Greater(a, b) <=> Before(b, a)
               /\ Equal(a, b) <=> LessOrEqual(a, b) /\ GreaterOrEqual(a, b)
=============================================================================
