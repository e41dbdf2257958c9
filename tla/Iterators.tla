------------------------------ MODULE Iterators ------------------------------
(***************************************************************************)
(* iterators.hpp: what the iterators over the elements of a packed field    *)
(* compute.  An iterator into the bytes s is a pointer, for varints with     *)
(* the end of the field beside it.                                          *)
(***************************************************************************)
EXTENDS Varint, ByteOrder

\* const_varint_iterator, const_svarint_iterator and two sizes of
\* const_fixed_iterator
VarintKind == {"varint", "svarint"}
FixedKind == {"fixed32", "fixed64"}
ElementSize(kind) == IF kind = "fixed64" THEN Fixed64Bytes ELSE Fixed32Bytes

Null == 0   \* nullptr, the position no byte has
Iterator(kind, m_data, m_end) ==
    [m_data |-> m_data, m_end |-> IF kind \in FixedKind THEN Null ELSE m_end]

\* The range get_packed or packed_fixed returns for the bytes from .. to - 1, and
\* a default constructed one.
PackedRange(kind, from, to) ==
    [first |-> Iterator(kind, from, to), second |-> Iterator(kind, to, to)]
EmptyRange == PackedRange("varint", Null, Null)

\* empty()
IsEmpty(range) == range.first = range.second

\* operator*: the value as the wide type, or an exception
Element(status, value) == [status |-> status, value |-> value]
Dereference(s, kind, it, host) ==
    IF kind \in FixedKind THEN Element("ok", GetFixedNumber(s, it.m_data, ElementSize(kind), host))
    ELSE LET number == DecodeVarint(s, it.m_data, it.m_end)
         IN Element(number.status, IF kind = "svarint" THEN ReadSint64(number.value)
                                   ELSE ReadInt64(number.value))

\* Mutated form of Increment: the pointer has moved when the exception comes.
IncrementMoving(s, kind, it) ==
    IF kind \in FixedKind
    THEN [status |-> "ok", iterator |-> [it EXCEPT !.m_data = @ + ElementSize(kind)]]
    ELSE LET passed == SkipVarint(s, it.m_data, it.m_end)
         IN [status |-> passed.status,
             iterator |-> [it EXCEPT !.m_data = IF passed.status = "ok" THEN passed.m_data
                                                ELSE it.m_end]]

\* operator++
Increment(s, kind, it) ==
    IF kind \in FixedKind
    THEN [status |-> "ok", iterator |-> [it EXCEPT !.m_data = @ + ElementSize(kind)]]
    ELSE LET passed == SkipVarint(s, it.m_data, it.m_end)
         IN [status |-> passed.status, iterator |-> [it EXCEPT !.m_data = passed.m_data]]

\* operator+= and, with a negative number, operator-= and operator--
Moved(kind, it, n) == [it EXCEPT !.m_data = @ + ElementSize(kind) * n]

\* Mutated form of Distance: every byte of a varint counts.
DistanceInBytes(s, kind, first, last) ==
    IF kind \in FixedKind THEN (last.m_data - first.m_data) \div ElementSize(kind)
    ELSE last.m_data - first.m_data

\* std::distance, and size(): varints are counted and not decoded.
Distance(s, kind, first, last) ==
    IF kind \in FixedKind THEN (last.m_data - first.m_data) \div ElementSize(kind)
    ELSE IF first.m_data = Null THEN 0
    ELSE Quantify(first.m_data .. last.m_data - 1, LAMBDA j : s[j] < Radix)
=============================================================================
