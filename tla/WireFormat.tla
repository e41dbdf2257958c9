----------------------------- MODULE WireFormat -----------------------------
(***************************************************************************)
(* The protocol-buffer wire format as protozero encodes it: bytes, varints, *)
(* field keys and the room a submessage header reserves for its length.    *)
(* The widths are parameters.  The checked instances scale them down, so    *)
(* that lengths of one and of several bytes, truncated numbers and varints  *)
(* that are too long all occur in a few bytes.                              *)
(***************************************************************************)
EXTENDS Integers, Sequences

CONSTANTS
    PayloadBits,    \* payload bits of one varint byte, 7; its top bit says "more follows"
    ValueBits,      \* width of the numbers varints hold, 64
    LengthBits,     \* width of pbf_length_type and of a key, 32
    Fixed32Bytes,   \* sizes of the fixed-size values, 4
    Fixed64Bytes,   \* ... and 8
    ReservedTags    \* 19000 .. 19999

ASSUME WidthAssumption ==
    /\ PayloadBits \in Nat \ {0} /\ ValueBits \in Nat \ {0}
    /\ LengthBits \in Nat /\ LengthBits > 3
    /\ Fixed32Bytes \in Nat \ {0} /\ Fixed64Bytes \in Nat \ {0}

Radix == 2^PayloadBits
Byte == 0 .. 2 * Radix - 1

\* pbf_length_type(n), uint32_t(n): the conversion keeps the low LengthBits bits.
LengthModulus == 2^LengthBits
MaxLength == LengthModulus - 1
LengthType(n) == n % LengthModulus

\* sizeof(pbf_length_type) * 8 / 7 + 1 and sizeof(uint64_t) * 8 / 7 + 1
ReserveBytes == LengthBits \div PayloadBits + 1
MaxVarintLength == ValueBits \div PayloadBits + 1

\* Enough for exponentiation, which the proofs treat as an unknown function.
ASSUME RadixAssumption ==
    /\ Radix \in Nat \ {0, 1} /\ LengthModulus \in Nat \ {0}
    /\ ReserveBytes \in Nat \ {0} /\ MaxVarintLength \in Nat \ {0, 1}

\* A length fits into the room reserved for it, and lengths and keys into a varint.
ASSUME LengthAssumption ==
    /\ LengthModulus <= Radix^ReserveBytes /\ LengthModulus <= 2^ValueBits
    /\ ReserveBytes <= MaxVarintLength

-----------------------------------------------------------------------------
(* Varints: little-endian groups of PayloadBits bits, the top bit set on    *)
(* every byte but the last.                                                 *)

\* write_varint: the bytes the loop writes for n.
Varint[n \in Nat] ==
    IF n < Radix THEN <<n>> ELSE <<(n % Radix) + Radix>> \o Varint[n \div Radix]

-----------------------------------------------------------------------------
(* Keys: the tag and the wire type in one varint.                           *)

VarintType == 0
Fixed64Type == 1
LengthDelimitedType == 2
Fixed32Type == 5
WireType == {VarintType, Fixed64Type, LengthDelimitedType, Fixed32Type}
UnknownType == 99

\* (tag << 3) | type
TagAndType(tag, type) == 8 * tag + type

\* The writer's assertion on tags, the largest being 2^29 - 1.
MaxTag == 2^(LengthBits - 3) - 1

\* A key has the bits of a tag and three more.
ASSUME KeyAssumption == MaxTag \in Nat /\ LengthModulus = 8 * (MaxTag + 1)
TagInRange(tag) == tag \in (1 .. MaxTag) \ ReservedTags

\* add_field
Key(tag, type) == Varint[TagAndType(tag, type)]

\* add_length_varint
LengthHeader(tag, length) == Key(tag, LengthDelimitedType) \o Varint[length]
=============================================================================
