--------------------------- MODULE PackedIterators ---------------------------
(***************************************************************************)
(* A client that walks through a packed field with the iterator_range a      *)
(* packed getter has returned: one iterator, taken from begin(), and the     *)
(* range itself, which drop_front() shortens.  Any byte may be in the field. *)
(***************************************************************************)
EXTENDS Iterators

CONSTANTS
    Inputs,         \* the contents of packed fields
    Kinds           \* the element types of packed fields

ASSUME IteratorAssumption ==
    Inputs \subseteq Seq(Byte) /\ Kinds \subseteq VarintKind \cup FixedKind

Parser == INSTANCE WireParser

VARIABLES
    payload,    \* the bytes of the field
    kind,       \* their element type
    range,      \* the range a getter returned
    spare,      \* a second range, for swap()
    it,         \* the client's iterator
    passed,     \* history: how many elements the iterator has behind it
    dropped     \* history: how many elements the range has lost

vars == <<payload, kind, range, spare, it, passed, dropped>>

\* packed_fixed refuses a payload that is no whole number of elements.
Init ==
    /\ payload \in Inputs /\ kind \in Kinds
    /\ kind \in FixedKind => Len(payload) % ElementSize(kind) = 0
    /\ range = PackedRange(kind, 1, Len(payload) + 1)
    /\ spare = EmptyRange
    /\ it = range.first
    /\ passed = 0 /\ dropped = 0

\* begin(), of a range that is not the default constructed one
Begin ==
    /\ range # EmptyRange
    /\ it' = range.first /\ passed' = dropped
    /\ UNCHANGED <<payload, kind, range, spare, dropped>>

\* ++it, and the effect of it++ and of *it++.  A varint iterator may be tried
\* at the end, where the exception tells.
Step ==
    LET step == Increment(payload, kind, it) IN
    /\ kind \in FixedKind => it.m_data <= Len(payload)
    /\ it' = step.iterator
    /\ passed' = IF step.status = "ok" THEN passed + 1 ELSE passed
    /\ UNCHANGED <<payload, kind, range, spare, dropped>>

\* it += n, it -= n, --it, it--, to any element of a fixed-size field or its end
Jump(n) ==
    /\ kind \in FixedKind
    /\ it' = Moved(kind, it, n) /\ it'.m_data \in 1 .. Len(payload) + 1
    /\ passed' = passed + n
    /\ UNCHANGED <<payload, kind, range, spare, dropped>>

\* drop_front(), "@pre Range must not be empty."
DropFront ==
    LET step == Increment(payload, kind, range.first) IN
    /\ ~IsEmpty(range)
    /\ range' = [range EXCEPT !.first = step.iterator]
    /\ dropped' = IF step.status = "ok" THEN dropped + 1 ELSE dropped
    /\ UNCHANGED <<payload, kind, spare, it, passed>>

\* swap()
SwapRanges ==
    /\ range' = spare /\ spare' = range
    /\ UNCHANGED <<payload, kind, it, passed, dropped>>

Next ==
    \/ Begin \/ Step \/ DropFront \/ SwapRanges
    \/ \E n \in -Len(payload) .. Len(payload) \ {0} : Jump(n)

Spec == Init /\ [][Next]_vars

-----------------------------------------------------------------------------
(* The elements, by the definition of the encoding: where they lie.          *)

\* A complete element starts at the byte i, and where it ends.
HasElement(i) ==
    IF kind \in FixedKind THEN i + ElementSize(kind) - 1 <= Len(payload)
    ELSE Parser!VarintStops(payload, i) # {}
ElementEnd(i) ==
    IF kind \in FixedKind THEN i + ElementSize(kind) - 1 ELSE Parser!VarintEnd(payload, i)

\* The complete elements from the byte i on, up to the first that is none.
ElementsFrom ==
    LET from[i \in 1 .. Len(payload) + 1] ==
            IF HasElement(i)
            THEN <<[start |-> i, end |-> ElementEnd(i)]>> \o from[ElementEnd(i) + 1]
            ELSE <<>>
    IN from
Elements == ElementsFrom[1]

\* The little-endian number of the bytes of a fixed-size element.
LittleEndian(e) ==
    LET value[i \in e.start .. e.end] ==
            payload[i] + (IF i = e.end THEN 0 ELSE ByteRadix * value[i + 1])
    IN value[e.start]

ValueOf(e) ==
    CASE kind \in FixedKind -> LittleEndian(e)
      [] kind = "varint" -> ReadInt64(Parser!VarintValue(payload, e.start))
      [] kind = "svarint" -> ReadSint64(Parser!VarintValue(payload, e.start))

\* The range over the field, in whichever of the two it is now, and the elements
\* that are left in it.
Live == IF range = EmptyRange THEN spare ELSE range
Left == SubSeq(Elements, dropped + 1, Len(Elements))
Complete == IF Elements = <<>> THEN payload = <<>> ELSE Elements[Len(Elements)].end = Len(payload)

-----------------------------------------------------------------------------
(* Properties.                                                              *)

\* After n elements the iterator stands on the next one and shows its value, on
\* little- and on big-endian hosts.  Behind the last it has arrived at end(), or,
\* where a varint is cut off or too long, both * and ++ throw the same exception
\* and it stays, so that no loop leaves the field.
IteratesElements ==
    IF passed < Len(Elements)
    THEN /\ it.m_data = Elements[passed + 1].start
         /\ \A host \in Host :
                Dereference(payload, kind, it, host) = Element("ok", ValueOf(Elements[passed + 1]))
    ELSE /\ passed = Len(Elements)
         /\ it = Live.second <=> Complete
         /\ kind \in VarintKind =>
                LET value == Dereference(payload, kind, it, "little")
                    step == Increment(payload, kind, it)
                IN value.status = step.status /\ step.status # "ok" /\ step.iterator = it

\* size() is the number of elements iteration will visit when there is nothing
\* but whole elements, and never less; it is more only when a varint is too
\* long.  It shrinks by one with each element dropped, and the way to the end is
\* the way to the iterator and the way on from there.
SizeCounts ==
    LET size == Distance(payload, kind, Live.first, Live.second)
        before == Distance(payload, kind, Iterator(kind, 1, Len(payload) + 1), it)
        whole == Distance(payload, kind, Iterator(kind, 1, Len(payload) + 1), Live.second)
    IN /\ size >= Len(Left)
       /\ size > Len(Left) =>
            /\ kind \in VarintKind
            /\ DecodeVarint(payload, IF Elements = <<>> THEN 1 ELSE Elements[Len(Elements)].end + 1,
                            Len(payload) + 1).status = "varint_too_long"
       /\ before = passed /\ whole = dropped + size
       /\ Distance(payload, kind, EmptyRange.first, EmptyRange.second) = 0
=============================================================================
