------------------------------ MODULE PbfWriter ------------------------------
(***************************************************************************)
(* protozero::pbf_writer and the packed_field classes: several writer       *)
(* objects share one std::string.  A submessage is written in place, after  *)
(* a header with room for the largest length; closing it writes the real    *)
(* length and erases the unused room, abandoning it cuts the string back.   *)
(* The parent remembers in m_rollback_pos and m_pos where that header and   *)
(* the submessage start; m_pos = 0 stands for "no submessage is open".      *)
(*                                                                         *)
(* An action is one call by the client.  Every C++ exception and every      *)
(* failing protozero_assert of the call is an outcome of its own.           *)
(***************************************************************************)
EXTENDS WireParser, SequencesExt

CONSTANTS
    Writer,         \* the slots (variables, members) writer objects live in
    PackedField,    \* the slots of static type packed_field_*, the rest are pbf_writers
    NULL,
    Asserts,        \* TRUE: protozero_assert is compiled in; FALSE: NDEBUG
    MaxThrows,      \* bound: how often growing the string throws std::bad_alloc
    Tags,           \* field numbers callers use
    Fields,         \* the scalar and bytes fields callers add (see Put below)
    Elements,       \* what callers hand to add_element
    FixedRanges,    \* ranges for the forward-iterator add_packed_fixed
    PackedRanges,   \* ranges for the add_packed_* that go through a sub-writer
    Sizes,          \* sizes announced when a submessage is opened, 0: unknown
    MaxBuf          \* bound: no call grows the string beyond MaxBuf bytes

-----------------------------------------------------------------------------
(* What a call puts into the string: the bytes of head one push_back at a   *)
(* time, then those of tail with one append, which is all or nothing.       *)

PutSet == [head : Seq(Byte), tail : Seq(Byte)]
Bytes(put) == put.head \o put.tail

\* What of put can be in the string when one of its allocations has failed.
Torn(put) ==
    {SubSeq(put.head, 1, n) :
        n \in 0 .. IF put.tail = <<>> THEN Len(put.head) - 1 ELSE Len(put.head)}

\* add_tagged_varint, behind every integer and enum field
VarintField(tag, n) ==
    [tag |-> tag, put |-> [head |-> Key(tag, VarintType) \o Varint[n], tail |-> <<>>]]

\* add_bool
BoolField(tag, value) ==
    [tag |-> tag, put |-> [head |-> Key(tag, VarintType),
                           tail |-> IF value THEN <<1>> ELSE <<0>>]]

\* add_fixed32 .. add_double: value is the little-endian form of the number
FixedField(tag, type, value) ==
    [tag |-> tag, put |-> [head |-> Key(tag, type), tail |-> value]]

\* add_bytes, add_string, add_message
BytesField(tag, value) ==
    [tag |-> tag, put |-> [head |-> LengthHeader(tag, Len(value)), tail |-> value]]

\* The elements of packed fields: a varint, or one fixed-size number.
VarintElement(n) == [head |-> Varint[n], tail |-> <<>>]
FixedElement(value) == [head |-> <<>>, tail |-> value]

\* The bytes of the first n elements of a range.
Payload(range, n) == FlattenSeq([i \in 1 .. n |-> Bytes(range[i])])
AllBytes(range) == Payload(range, Len(range))

TornPayloads(range) ==
    UNION {{Payload(range, n - 1) \o part : part \in Torn(range[n])} : n \in 1 .. Len(range)}

-----------------------------------------------------------------------------

ASSUME WritersAssumption ==
    /\ PackedField \subseteq Writer /\ NULL \notin Writer
    /\ Asserts \in BOOLEAN /\ MaxThrows \in Nat

\* NULL is a value of its own: no writer, and none of the messages the
\* refinement below maps writers to.
ASSUME NullAssumption ==
    NULL \notin [parent : Writer \cup {NULL}, key : Seq(Byte), body : Seq(Byte)]

ASSUME InputsAssumption ==
    /\ \A f \in Fields : f.put \in PutSet
    /\ Elements \subseteq PutSet
    /\ \A r \in FixedRanges \cup PackedRanges : AllBytes(r) \in Seq(Byte) /\ Len(r) \in Nat
    /\ \A r \in PackedRanges : TornPayloads(r) \subseteq Seq(Byte)
    /\ Tags \subseteq Nat /\ Sizes \subseteq Nat

\* Fields are what one of the functions above puts together for some value.
ASSUME FieldsAssumption ==
    \A f \in Fields :
        \/ \E n \in 0 .. 2^ValueBits - 1 : f = VarintField(f.tag, n)
        \/ \E value \in BOOLEAN : f = BoolField(f.tag, value)
        \/ \E type \in {Fixed32Type, Fixed64Type} :
                f = FixedField(f.tag, type, f.put.tail) /\ Len(f.put.tail) = FixedSize(type)
        \/ f = BytesField(f.tag, f.put.tail)

\* Lengths never outgrow pbf_length_type, so a header always fits its room.
ASSUME BoundAssumption ==
    MaxBuf \in Nat /\ MaxBuf <= MaxLength

-----------------------------------------------------------------------------

VARIABLES
    buf,                \* the string all attached writers share
    valid,              \* the writers whose m_data is not null
    m_parent_writer,
    m_rollback_pos,
    m_pos,
    owed,               \* bytes a client still owes to a submessage of announced size
    torn,               \* history: the writers whose own message an exception tore
    throws,             \* history: how often a call threw bad_alloc
    outcome             \* how the last call ended

vars == <<buf, valid, m_parent_writer, m_rollback_pos, m_pos, owed, torn, throws, outcome>>

Aborted == {"assert_on_misuse", "assert_on_legal_call", "assert_on_rollback"}
Outcome == {"ok", "bad_alloc", "length_error"} \cup Aborted

\* size_is_known: a position no string has.
SizeIsKnown == MaxBuf + 1

Zeros == [i \in 1 .. ReserveBytes |-> 0]

Children(w) == {c \in Writer : m_parent_writer[c] = w}
Sized(w) == m_parent_writer[w] # NULL /\ m_rollback_pos[m_parent_writer[w]] = SizeIsKnown

Init ==
    /\ buf = <<>>
    /\ valid = {}
    /\ m_parent_writer = [w \in Writer |-> NULL]
    /\ m_rollback_pos = [w \in Writer |-> 0]
    /\ m_pos = [w \in Writer |-> 0]
    /\ owed = [w \in Writer |-> 0]
    /\ torn = {} /\ throws = 0
    /\ outcome = "ok"

-----------------------------------------------------------------------------
(* The documented contract, and what the assertions check of it.            *)

Running == outcome \notin Aborted

\* A writer may be used when it is valid and no submessage is open in it.
Legal(w) == w \in valid /\ Children(w) = {}

\* Mutated form of AssertsHold: only the null pointer is looked for.
AssertsDataOnly(w) == w \in valid

\* protozero_assert(m_pos == 0), protozero_assert(m_data)
AssertsHold(w) == m_pos[w] = 0 /\ w \in valid

\* Without assertions nothing stops a client, so only legal calls are made.
MayUse(w) == Running /\ IF Asserts THEN AssertsHold(w) ELSE Legal(w)
MayAdd(w, tag) == MayUse(w) /\ TagInRange(tag)

\* Clients keep the size they announced: they add no more than they owe, and
\* end the submessage when nothing is owed any more.
MayPut(w, n) == Sized(w) => n <= owed[w]
Spend(w, n) == owed' = [owed EXCEPT ![w] = IF Sized(w) THEN @ - n ELSE @]
PromiseKept(w) == owed[w] = 0

Grow(bytes) == buf' = buf \o bytes /\ Len(buf') <= MaxBuf

\* The call ends with std::bad_alloc.
Throw == throws < MaxThrows /\ throws' = throws + 1 /\ outcome' = "bad_alloc"

-----------------------------------------------------------------------------
(* Opening and closing a submessage.                                        *)

SubmessageHeader(tag, size) ==
    IF size = 0 THEN Key(tag, LengthDelimitedType) ELSE LengthHeader(tag, LengthType(size))
Room(size) == IF size = 0 THEN Zeros ELSE <<>>

\* Mutated form of RollbackPos: taken after the key has been written.
RollbackPosLate(size) == IF size = 0 THEN Len(buf') - ReserveBytes ELSE SizeIsKnown

RollbackPos(size) == IF size = 0 THEN Len(buf) ELSE SizeIsKnown

\* Mutated form of Abandoned: cuts one byte too many.
AbandonedTooMuch(b, rollback) == SubSeq(b, 1, rollback - 1)

\* rollback_submessage: cut the string back to where the header starts.
Abandoned(b, rollback) == SubSeq(b, 1, rollback)

\* Mutated form of Committed: the unused rest of the room stays.
CommittedUnerased(b, pos) ==
    LET length == Varint[LengthType(Len(b) - pos)]
    IN SubSeq(b, 1, pos - ReserveBytes) \o length
        \o SubSeq(b, pos - ReserveBytes + Len(length) + 1, Len(b))

\* commit_submessage: the length into the reserved room, the unused rest of
\* the room erased.
Committed(b, pos) ==
    SubSeq(b, 1, pos - ReserveBytes) \o Varint[LengthType(Len(b) - pos)]
                                     \o SubSeq(b, pos + 1, Len(b))

\* close_submessage: a submessage without content is removed altogether.
Closed(b, rollback, pos) ==
    IF Len(b) = pos THEN Abandoned(b, rollback) ELSE Committed(b, pos)

\* Mutated form of NothingToClose: size_is_known is not looked for.
NothingToCloseUnlessOpen(p) == m_pos[p] = 0

NothingToClose(p) == m_pos[p] = 0 \/ m_rollback_pos[p] = SizeIsKnown

\* Mutated forms of the next two: nothing is closed, m_pos is not reset.
BufUnclosed(p) == buf
PosUnreset(p) == m_pos[p]

BufAfterClose(p) ==
    IF NothingToClose(p) THEN buf ELSE Closed(buf, m_rollback_pos[p], m_pos[p])
PosAfterClose(p) == IF NothingToClose(p) THEN m_pos[p] ELSE 0

-----------------------------------------------------------------------------
(* Construction, destruction, moving.                                       *)

\* pbf_writer(std::string&): the string need not be empty.
Construct(w) ==
    /\ Running /\ valid = {} /\ w \notin PackedField
    /\ valid' = {w}
    /\ m_rollback_pos' = [m_rollback_pos EXCEPT ![w] = 0]
    /\ m_pos' = [m_pos EXCEPT ![w] = 0]
    /\ outcome' = "ok"
    /\ torn' = IF NULL \in torn THEN {w} ELSE {}
    /\ UNCHANGED <<buf, m_parent_writer, owed, throws>>

\* pbf_writer(parent, tag, size).  A submessage of announced size is only
\* given plain fields or elements.
OpenSubmessage(p, c, tag, size) ==
    /\ MayAdd(p, tag) /\ p \notin PackedField /\ ~Sized(p) /\ c \notin valid
    /\ Grow(SubmessageHeader(tag, size) \o Room(size))
    /\ m_rollback_pos' = [m_rollback_pos EXCEPT ![p] = RollbackPos(size), ![c] = 0]
    /\ m_pos' = [m_pos EXCEPT ![p] = Len(buf'), ![c] = 0]
    /\ m_parent_writer' = [m_parent_writer EXCEPT ![c] = p]
    /\ valid' = valid \cup {c}
    /\ owed' = [owed EXCEPT ![c] = size]
    /\ outcome' = "ok"
    /\ UNCHANGED <<torn, throws>>

\* The header or the reserve after it does not fit: no child comes to life,
\* and what was written of the header stays.
OpenThrows(p, tag, size) ==
    /\ MayAdd(p, tag) /\ p \notin PackedField /\ ~Sized(p)
    /\ \E n \in 0 .. Len(SubmessageHeader(tag, size)) :
            Grow(SubSeq(SubmessageHeader(tag, size), 1, n))
    /\ m_rollback_pos' = [m_rollback_pos EXCEPT ![p] = RollbackPos(size)]
    /\ Throw /\ torn' = torn \cup {p}
    /\ UNCHANGED <<valid, m_parent_writer, m_pos, owed>>

\* Mutated form of Invalidate: m_parent_writer survives.
InvalidateDataOnly(c) ==
    /\ valid' = valid \ {c}
    /\ owed' = [owed EXCEPT ![c] = 0]
    /\ torn' = torn \ {c}
    /\ UNCHANGED m_parent_writer

\* The end of commit() and rollback().
Invalidate(c) ==
    /\ m_parent_writer' = [m_parent_writer EXCEPT ![c] = NULL]
    /\ valid' = valid \ {c}
    /\ owed' = [owed EXCEPT ![c] = 0]
    /\ torn' = torn \ {c}

\* commit()
Commit(c) ==
    LET p == m_parent_writer[c] IN
    /\ MayUse(c) /\ p # NULL /\ PromiseKept(c)
    /\ buf' = BufAfterClose(p)
    /\ m_pos' = [m_pos EXCEPT ![p] = PosAfterClose(p)]
    /\ Invalidate(c)
    /\ outcome' = "ok"
    /\ UNCHANGED <<m_rollback_pos, throws>>

\* rollback()
Rollback(c) ==
    LET p == m_parent_writer[c] IN
    /\ MayUse(c) /\ p # NULL /\ ~Sized(c)
    /\ buf' = Abandoned(buf, m_rollback_pos[p])
    /\ m_pos' = [m_pos EXCEPT ![p] = 0]
    /\ Invalidate(c)
    /\ outcome' = "ok"
    /\ UNCHANGED <<m_rollback_pos, throws>>

\* rollback() of a submessage of announced size resizes the string to
\* size_is_known, which std::string refuses before anything has changed.
RollbackSized(c) ==
    /\ ~Asserts /\ MayUse(c) /\ Sized(c)
    /\ outcome' = "length_error"
    /\ UNCHANGED <<buf, valid, m_parent_writer, m_rollback_pos, m_pos, owed, torn, throws>>

\* ~pbf_writer.  C++ scopes end a child before its parent.
Destroy(w) ==
    LET p == m_parent_writer[w] IN
    /\ Running /\ Legal(w) /\ PromiseKept(w)
    /\ IF p = NULL
       THEN /\ UNCHANGED buf
            /\ m_pos' = [m_pos EXCEPT ![w] = 0]
       ELSE /\ buf' = BufAfterClose(p)
            /\ m_pos' = [m_pos EXCEPT ![p] = PosAfterClose(p), ![w] = 0]
    /\ m_rollback_pos' = [m_rollback_pos EXCEPT ![w] = 0]
    /\ m_parent_writer' = [m_parent_writer EXCEPT ![w] = NULL]
    /\ valid' = valid \ {w}
    /\ owed' = [owed EXCEPT ![w] = 0]
    /\ torn' = IF p = NULL /\ w \in torn THEN {NULL} ELSE torn \ {w}
    /\ outcome' = "ok"
    /\ UNCHANGED throws

\* torn follows an object that changes its place.
Renamed(v, w) == {IF u = v THEN w ELSE u : u \in torn}

SameType(v, w) == v \in PackedField <=> w \in PackedField

\* Move construction and move assignment, to a writer that is not in use.
Move(from, to) ==
    /\ Running /\ Legal(from) /\ to \notin valid /\ SameType(from, to)
    /\ valid' = (valid \ {from}) \cup {to}
    /\ m_parent_writer' = [m_parent_writer EXCEPT ![to] = m_parent_writer[from], ![from] = NULL]
    /\ m_rollback_pos' = [m_rollback_pos EXCEPT ![to] = m_rollback_pos[from], ![from] = 0]
    /\ m_pos' = [m_pos EXCEPT ![to] = m_pos[from], ![from] = 0]
    /\ owed' = [owed EXCEPT ![to] = owed[from], ![from] = 0]
    /\ torn' = Renamed(from, to)
    /\ outcome' = "ok"
    /\ UNCHANGED <<buf, throws>>

\* swap() with a writer that is not in use, which may hold old positions.
Swap(v, w) ==
    /\ Running /\ Legal(v) /\ w \notin valid /\ v \notin PackedField /\ w \notin PackedField
    /\ valid' = (valid \ {v}) \cup {w}
    /\ m_parent_writer' = [m_parent_writer EXCEPT ![w] = m_parent_writer[v], ![v] = NULL]
    /\ m_rollback_pos' = [m_rollback_pos EXCEPT ![w] = m_rollback_pos[v], ![v] = m_rollback_pos[w]]
    /\ m_pos' = [m_pos EXCEPT ![w] = m_pos[v], ![v] = m_pos[w]]
    /\ owed' = [owed EXCEPT ![w] = owed[v], ![v] = 0]
    /\ torn' = Renamed(v, w)
    /\ outcome' = "ok"
    /\ UNCHANGED <<buf, throws>>

-----------------------------------------------------------------------------
(* Adding fields.                                                           *)

links == <<valid, m_parent_writer>>

\* Scalar and bytes fields.
AddField(w, f) ==
    /\ MayAdd(w, f.tag) /\ w \notin PackedField /\ MayPut(w, Len(Bytes(f.put)))
    /\ Grow(Bytes(f.put)) /\ Spend(w, Len(Bytes(f.put)))
    /\ outcome' = "ok"
    /\ UNCHANGED <<links, m_rollback_pos, m_pos, torn, throws>>

\* A submessage of announced size has all its memory and cannot run out of it.
AddFieldThrows(w, f) ==
    /\ MayAdd(w, f.tag) /\ w \notin PackedField /\ ~Sized(w)
    /\ \E part \in Torn(f.put) : Grow(part)
    /\ Throw /\ torn' = torn \cup {w}
    /\ UNCHANGED <<links, m_rollback_pos, m_pos, owed>>

\* packed_field_*::add_element.  Only packed_field_fixed takes a size.
AddElement(c, e) ==
    /\ MayUse(c) /\ c \in PackedField /\ MayPut(c, Len(Bytes(e))) /\ (Sized(c) => e.head = <<>>)
    /\ Grow(Bytes(e)) /\ Spend(c, Len(Bytes(e)))
    /\ outcome' = "ok"
    /\ UNCHANGED <<links, m_rollback_pos, m_pos, torn, throws>>

AddElementThrows(c, e) ==
    /\ MayUse(c) /\ c \in PackedField /\ ~Sized(c)
    /\ \E part \in Torn(e) : Grow(part)
    /\ Throw /\ torn' = torn \cup {c}
    /\ UNCHANGED <<links, m_rollback_pos, m_pos, owed>>

\* add_packed_* of an empty range returns before it looks at the writer.
AddEmptyRange(w) ==
    /\ Running /\ w \notin PackedField
    /\ outcome' = "ok"
    /\ UNCHANGED <<buf, links, m_rollback_pos, m_pos, owed, torn, throws>>

\* add_packed_fixed for forward iterators: the length is known beforehand,
\* and memory for all elements is reserved before the first is added.
FixedRangePut(tag, range) ==
    [head |-> LengthHeader(tag, LengthType(Len(AllBytes(range)))), tail |-> AllBytes(range)]

AddPackedFixed(w, tag, range) ==
    LET put == FixedRangePut(tag, range) IN
    /\ MayAdd(w, tag) /\ w \notin PackedField /\ ~Sized(w) /\ range # <<>>
    /\ Grow(Bytes(put))
    /\ outcome' = "ok"
    /\ UNCHANGED <<links, m_rollback_pos, m_pos, owed, torn, throws>>

AddPackedFixedThrows(w, tag, range) ==
    /\ MayAdd(w, tag) /\ w \notin PackedField /\ ~Sized(w) /\ range # <<>>
    /\ \E part \in Torn(FixedRangePut(tag, range)) : Grow(part)
    /\ Throw /\ torn' = torn \cup {w}
    /\ UNCHANGED <<links, m_rollback_pos, m_pos, owed>>

\* The string after a sub-writer, which lives for the length of one call, has
\* opened a submessage and added payload to it.
Filled(tag, payload) == buf \o Key(tag, LengthDelimitedType) \o Zeros \o payload

\* Mutated form of WithSubmessage: the sub-writer is left open.
WithOpenSubmessage(tag, payload) == Filled(tag, payload)

\* The string after the sub-writer's destructor has closed that submessage.
WithSubmessage(tag, payload) ==
    Closed(Filled(tag, payload), Len(buf), Len(Filled(tag, <<>>)))

AppendSubmessage(tag, payload) ==
    Len(Filled(tag, payload)) <= MaxBuf /\ buf' = WithSubmessage(tag, payload)

\* add_packed_varint, add_packed_svarint, add_packed_fixed for input iterators
AddPacked(w, tag, range) ==
    /\ MayAdd(w, tag) /\ w \notin PackedField /\ ~Sized(w) /\ range # <<>>
    /\ AppendSubmessage(tag, AllBytes(range))
    /\ m_rollback_pos' = [m_rollback_pos EXCEPT ![w] = Len(buf)]
    /\ m_pos' = [m_pos EXCEPT ![w] = 0]
    /\ outcome' = "ok"
    /\ UNCHANGED <<links, owed, torn, throws>>

\* An element does not fit: the sub-writer's destructor closes what is there,
\* so w itself is not torn.  (Its header not fitting is OpenThrows.)
AddPackedThrows(w, tag, range) ==
    /\ MayAdd(w, tag) /\ w \notin PackedField /\ ~Sized(w) /\ range # <<>>
    /\ \E part \in TornPayloads(range) : AppendSubmessage(tag, part)
    /\ m_rollback_pos' = [m_rollback_pos EXCEPT ![w] = Len(buf)]
    /\ m_pos' = [m_pos EXCEPT ![w] = 0]
    /\ Throw
    /\ UNCHANGED <<links, owed, torn>>

-----------------------------------------------------------------------------
(* Calls an assertion stops.  The program ends there.                       *)

Blame(legal) == IF legal THEN "assert_on_legal_call" ELSE "assert_on_misuse"

Abort(how) ==
    /\ outcome' = how
    /\ UNCHANGED <<buf, links, m_rollback_pos, m_pos, owed, torn, throws>>

\* Any field, packed field or submessage added through w.
AddAborts(w, tag) ==
    /\ Asserts /\ Running /\ w \notin PackedField
    /\ ~(AssertsHold(w) /\ TagInRange(tag))
    /\ Abort(Blame(Legal(w) /\ TagInRange(tag)))

AddElementAborts(c) ==
    /\ Asserts /\ Running /\ c \in PackedField
    /\ ~AssertsHold(c)
    /\ Abort(Blame(Legal(c)))

\* commit() and rollback().  Of a submessage of announced size only the latter
\* is stopped, by rollback_submessage's "m_rollback_pos != size_is_known".
CloseAborts(c) ==
    /\ Asserts /\ Running
    /\ ~(m_parent_writer[c] # NULL /\ m_pos[c] = 0 /\ ~Sized(c))
    /\ Abort(IF Sized(c) /\ m_pos[c] = 0 THEN "assert_on_rollback"
             ELSE Blame(Legal(c) /\ m_parent_writer[c] # NULL))

-----------------------------------------------------------------------------

Next ==
    \/ \E w \in Writer :
        Construct(w) \/ Destroy(w) \/ Commit(w) \/ Rollback(w) \/ RollbackSized(w)
    \/ \E p, c \in Writer, tag \in Tags, size \in Sizes : OpenSubmessage(p, c, tag, size)
    \/ \E p \in Writer, tag \in Tags, size \in Sizes : OpenThrows(p, tag, size)
    \/ \E v, w \in Writer : Move(v, w) \/ Swap(v, w)
    \/ \E w \in Writer, f \in Fields : AddField(w, f) \/ AddFieldThrows(w, f)
    \/ \E w \in Writer, e \in Elements : AddElement(w, e) \/ AddElementThrows(w, e)
    \/ \E w \in Writer : AddEmptyRange(w)
    \/ \E w \in Writer, tag \in Tags, range \in FixedRanges :
        AddPackedFixed(w, tag, range) \/ AddPackedFixedThrows(w, tag, range)
    \/ \E w \in Writer, tag \in Tags, range \in PackedRanges :
        AddPacked(w, tag, range) \/ AddPackedThrows(w, tag, range)
    \/ \E w \in Writer, tag \in Tags : AddAborts(w, tag)
    \/ \E w \in Writer : AddElementAborts(w) \/ CloseAborts(w)

Spec == Init /\ [][Next]_vars

-----------------------------------------------------------------------------
(* The part of the string that belongs to each open message.                *)

HasChild(w) == Children(w) # {}
Start(w) == IF m_parent_writer[w] = NULL THEN 0 ELSE m_pos[m_parent_writer[w]]
End(w) ==
    IF ~HasChild(w) THEN Len(buf)
    ELSE IF m_rollback_pos[w] = SizeIsKnown THEN m_pos[w] ELSE m_rollback_pos[w]
Body(w) == SubSeq(buf, Start(w) + 1, End(w))

\* The key in front of the reserved room of the submessage w.
PendingKey(w) ==
    LET p == m_parent_writer[w] IN
    IF p = NULL \/ Sized(w) THEN <<>>
    ELSE SubSeq(buf, m_rollback_pos[p] + 1, m_pos[p] - ReserveBytes)

-----------------------------------------------------------------------------
(* Properties.                                                              *)

\* The types of the members.  Positions lie in the string or are size_is_known,
\* and no m_parent_writer dangles: it leads from a live writer to a live writer.
TypeOK ==
    /\ buf \in Seq(Byte) /\ Len(buf) <= MaxBuf
    /\ valid \subseteq Writer
    /\ m_parent_writer \in [Writer -> valid \cup {NULL}]
    /\ \A w \in Writer \ valid : m_parent_writer[w] = NULL
    /\ m_rollback_pos \in [Writer -> 0 .. SizeIsKnown]
    /\ m_pos \in [Writer -> 0 .. MaxBuf]
    /\ owed \in [Writer -> Nat]
    /\ torn \subseteq Writer \cup {NULL} /\ throws \in 0 .. MaxThrows
    /\ outcome \in Outcome

\* A parent's positions frame the header of its open submessage: the rollback
\* position lies in the parent's own part of the string, the room for the
\* length lies before m_pos, and the submessage does not end before it starts.
Framed(p) ==
    /\ Start(p) < m_pos[p] /\ m_pos[p] <= Len(buf)
    /\ \/ m_rollback_pos[p] = SizeIsKnown
       \/ /\ Start(p) <= m_rollback_pos[p]
          /\ m_rollback_pos[p] + ReserveBytes < m_pos[p]

\* u is an ancestor of v: all of v's message lies behind u's header of it.
Encloses(u, v) == HasChild(u) /\ m_pos[u] <= Start(v)

\* The open writers form one chain, each nested in the one before, whatever
\* was opened, closed, abandoned, moved or swapped (m_parent_writer,
\* m_rollback_pos and m_pos of several objects, pbf_writer.hpp:59-72).
Nesting ==
    /\ \A p \in Writer : HasChild(p) => Framed(p)
    /\ \A u, v \in valid : u # v => Encloses(u, v) \/ Encloses(v, u)

\* Closing, abandoning, failing to extend or moving a submessage never touches
\* what its parent had written before it: every step keeps the string up to
\* the rollback position of each open submessage ("as if it was never
\* created", pbf_writer.hpp:357-363).
UntouchedStep ==
    \A c \in Writer :
        m_parent_writer[c] # NULL /\ ~Sized(c) =>
            /\ m_rollback_pos[m_parent_writer[c]] <= Len(buf')
            /\ \A n \in 1 .. m_rollback_pos[m_parent_writer[c]] : buf'[n] = buf[n]
UntouchedPrefix == [][UntouchedStep]_vars

\* Whatever is open, every message that no exception tore is a sequence of
\* complete fields; in particular an exception inside a submessage damages
\* no message around it, because the submessage is still closed with the
\* length it has.
WellFormed ==
    /\ \A w \in valid \ PackedField :
        w \notin torn /\ ~(HasChild(w) /\ m_rollback_pos[w] = SizeIsKnown) => IsMessage(Body(w))
    /\ valid = {} /\ NULL \notin torn => IsMessage(buf)

\* An assertion only ever stops a call that breaks the documented contract:
\* the writer is not valid, has an open submessage, or the tag is out of range.
NoSpuriousAssert == outcome # "assert_on_legal_call"

\* The only exception a legal call on the writer side lets out is bad_alloc.
OnlyBadAlloc == outcome # "length_error"

\* The shared string with its positions behaves like one buffer per message.
Nested == INSTANCE NestedMessages WITH
    text <- IF valid = {} THEN buf ELSE <<>>,
    msg <- [w \in Writer |->
                IF w \in valid
                THEN [parent |-> m_parent_writer[w], key |-> PendingKey(w), body |-> Body(w)]
                ELSE NULL]
NestedSpec == Nested!Spec
=============================================================================
