----------------------------- MODULE WireParser -----------------------------
(***************************************************************************)
(* What a byte sequence means according to the protobuf encoding, defined   *)
(* by what a varint, a field and a message are and not by how protozero     *)
(* scans them.  The reference the writer's output and the reader's results  *)
(* are compared with.  Keys and lengths are numbers of LengthBits bits.     *)
(***************************************************************************)
EXTENDS WireFormat, FiniteSetsExt

\* A varint starts at i and ends at its first byte without the top bit, which
\* is one of its first MaxVarintLength bytes.
VarintStops(s, i) ==
    {j \in i .. Len(s) : j < i + MaxVarintLength /\ s[j] < Radix}
VarintEnd(s, i) == Min(VarintStops(s, i))

\* The number a complete varint at i stands for.
VarintValue(s, i) ==
    LET last == VarintEnd(s, i)
        value[j \in i .. last] ==
            IF j = last THEN s[j] ELSE (s[j] - Radix) + Radix * value[j + 1]
    IN value[i] % 2^ValueBits

\* The bytes a fixed-size value takes.
FixedSize(type) == IF type = Fixed64Type THEN Fixed64Bytes ELSE Fixed32Bytes

\* The complete fields that start at i: their value lies from .. to, for a
\* length-delimited field without its length.  There is one, or none when the
\* bytes at i are no field.
FieldsAt(s, i) ==
    IF VarintStops(s, i) = {} THEN {}
    ELSE LET key == LengthType(VarintValue(s, i))
             first == VarintEnd(s, i) + 1
             field(from, to) ==
                [tag |-> key \div 8, type |-> key % 8, from |-> from, to |-> to]
         IN IF ~TagInRange(key \div 8) THEN {}
            ELSE CASE key % 8 = VarintType ->
                        IF VarintStops(s, first) = {} THEN {}
                        ELSE {field(first, VarintEnd(s, first))}
                   [] key % 8 \in {Fixed32Type, Fixed64Type} ->
                        {f \in {field(first, first + FixedSize(key % 8) - 1)} : f.to <= Len(s)}
                   [] key % 8 = LengthDelimitedType ->
                        IF VarintStops(s, first) = {} THEN {}
                        ELSE LET start == VarintEnd(s, first) + 1
                                 size == LengthType(VarintValue(s, first))
                             IN {f \in {field(start, start + size - 1)} : f.to <= Len(s)}
                   [] OTHER -> {}

\* s is a sequence of complete fields.
IsMessage(s) ==
    LET complete[j \in 1 .. Len(s) + 1] ==
            j = Len(s) + 1 \/ \E f \in FieldsAt(s, j) : complete[f.to + 1]
    IN complete[1]

\* The fields from the start of s up to the first bytes that are no field.
FieldsOf(s) ==
    LET from[j \in 1 .. Len(s) + 1] == UNION {{f} \cup from[f.to + 1] : f \in FieldsAt(s, j)}
    IN from[1]
=============================================================================
