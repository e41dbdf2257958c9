------------------------------- MODULE Varint -------------------------------
(***************************************************************************)
(* varint.hpp: reading numbers from a byte sequence s between two pointers, *)
(* and the integer conversions of the typed accessors.  A pointer is an     *)
(* index into s; end is one past the last byte that may be looked at.       *)
(***************************************************************************)
EXTENDS WireFormat, FiniteSetsExt

Found(value, m_data) == [status |-> "ok", value |-> value, m_data |-> m_data]
Missed(status, m_data) == [status |-> status, value |-> 0, m_data |-> m_data]

\* Where the loop "while (p != end && *p < 0)" leaves p.
Stop(s, at, end) == Min({j \in at .. end - 1 : s[j] < Radix} \cup {end})

\* The payload bits of the bytes at .. last, the least significant ones first.
Payloads(s, at, last) ==
    LET value[j \in at .. last] ==
            (s[j] % Radix) + (IF j = last THEN 0 ELSE Radix * value[j + 1])
    IN value[at]

\* All MaxVarintLength bytes can be read without a look at end.  Of the last
\* one only the bits that are left count ("& 0x01U", shifted by 63).
TopBits == ValueBits - PayloadBits * (MaxVarintLength - 1)
TopGroup(byte) == (byte % 2^TopBits) * Radix^(MaxVarintLength - 1)

\* Exponentiation, as in RadixAssumption: the bytes of the longest varint have
\* ValueBits bits, TopBits of them in the last one.
ASSUME PowerAssumption ==
    /\ \A k \in 0 .. MaxVarintLength : Radix^k \in Nat \ {0}
    /\ Radix^0 = 1
    /\ \A k \in 0 .. MaxVarintLength - 1 : Radix^(k + 1) = Radix * Radix^k
    /\ 2^TopBits \in Nat \ {0} /\ 2^ValueBits \in Nat \ {0}
    /\ Radix^(MaxVarintLength - 1) * 2^TopBits = 2^ValueBits
    /\ 2^TopBits <= Radix

FastPath(s, at) ==
    LET behind == at + MaxVarintLength
        last == Stop(s, at, behind)
    IN IF last = behind THEN Missed("varint_too_long", at)
       ELSE IF last = behind - 1
            THEN Found((IF last = at THEN 0 ELSE Payloads(s, at, last - 1)) + TopGroup(s[last]),
                       last + 1)
            ELSE Found(Payloads(s, at, last), last + 1)

\* Mutated form of SlowPath: the pointer moves with every byte.
SlowPathMoving(s, at, end) ==
    LET last == Stop(s, at, end)
    IN IF last = end THEN Missed("end_of_buffer", last)
       ELSE Found(Payloads(s, at, last), last + 1)

SlowPath(s, at, end) ==
    LET last == Stop(s, at, end)
    IN IF last = end THEN Missed("end_of_buffer", at)
       ELSE Found(Payloads(s, at, last), last + 1)

\* Mutated form of HasFastPath: the end of the window is off by one.
HasFastPathLate(at, end) == end - at > MaxVarintLength

HasFastPath(at, end) == end - at >= MaxVarintLength

\* decode_varint: the pointer moves only when there is a number.
DecodeVarint(s, at, end) ==
    IF at # end /\ s[at] < Radix THEN Found(s[at], at + 1)
    ELSE IF HasFastPath(at, end) THEN FastPath(s, at) ELSE SlowPath(s, at, end)

\* Mutated form of SkipVarint: the limit is off by one.
SkipVarintLonger(s, at, end) ==
    LET p == Stop(s, at, end)
    IN IF p - at > MaxVarintLength THEN Missed("varint_too_long", at)
       ELSE IF p = end THEN Missed("end_of_buffer", at)
       ELSE Found(0, p + 1)

\* Mutated form of SkipVarint: the scan does not look at end.
SkipVarintUnbounded(s, at, end) ==
    LET p == Stop(s, at, Len(s) + 1)
    IN IF p - at >= MaxVarintLength THEN Missed("varint_too_long", at)
       ELSE IF p = Len(s) + 1 THEN Missed("end_of_buffer", at)
       ELSE Found(0, p + 1)

\* skip_varint
SkipVarint(s, at, end) ==
    LET p == Stop(s, at, end)
    IN IF p - at >= MaxVarintLength THEN Missed("varint_too_long", at)
       ELSE IF p = end THEN Missed("end_of_buffer", at)
       ELSE Found(0, p + 1)

\* length_of_varint
LengthOfVarint[n \in Nat] ==
    IF n < Radix THEN 1 ELSE 1 + LengthOfVarint[n \div Radix]

\* Mutated form of ReadBool: "more follows" is taken for no part of the value.
ReadBoolBits(s, at) == s[at] % Radix # 0

\* The value of get_bool: the first byte of the varint, its top bit included.
ReadBool(s, at) == s[at] # 0

-----------------------------------------------------------------------------
(* Conversions between integer types, modulo their width in bits.           *)

\* Exponentiation again: an integer type has as many negative numbers as others,
\* and the numbers of the narrow type repeat in those of the wide one.
ASSUME SignAssumption ==
    /\ \A bits \in {LengthBits, ValueBits} :
            2^(bits - 1) \in Nat \ {0} /\ 2^bits = 2 * 2^(bits - 1)
    /\ 2^(ValueBits - LengthBits) \in Nat
    /\ 2^ValueBits = 2^LengthBits * 2^(ValueBits - LengthBits)

AsUnsigned(v, bits) == v % 2^bits
AsSigned(n, bits) == IF n % 2^bits < 2^(bits - 1) THEN n % 2^bits ELSE (n % 2^bits) - 2^bits

\* All bits flipped: the exclusive or with 111...1.
Flipped(n, bits) == 2^bits - 1 - n

\* Mutated form of EncodeZigzag: the sign bit is not carried over.
EncodeZigzagUnsigned(v, bits) == AsUnsigned(2 * AsUnsigned(v, bits), bits)

\* encode_zigzag32, encode_zigzag64
EncodeZigzag(v, bits) ==
    LET doubled == AsUnsigned(2 * AsUnsigned(v, bits), bits)
    IN IF v >= 0 THEN doubled ELSE Flipped(doubled, bits)

\* decode_zigzag32, decode_zigzag64
DecodeZigzag(n, bits) ==
    AsSigned(IF n % 2 = 0 THEN n \div 2 ELSE Flipped(n \div 2, bits), bits)

\* The number the writer puts into a varint for a value of each integer type;
\* int32 and enum are extended to 64 bits with their sign.
WrittenInt(v) == AsUnsigned(v, ValueBits)
WrittenSint32(v) == EncodeZigzag(v, LengthBits)
WrittenSint64(v) == EncodeZigzag(v, ValueBits)

\* What the getters and the packed iterators make of a number read.
ReadInt32(n) == AsSigned(n, LengthBits)
ReadInt64(n) == AsSigned(n, ValueBits)
ReadUint32(n) == LengthType(n)
ReadSint32(n) == AsSigned(DecodeZigzag(n, ValueBits), LengthBits)
ReadSint64(n) == DecodeZigzag(n, ValueBits)
=============================================================================
