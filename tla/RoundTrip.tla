------------------------------ MODULE RoundTrip ------------------------------
(***************************************************************************)
(* A message on its way: written with pbf_builder objects and packed_field    *)
(* objects, the string handed over, and read with pbf_message objects.        *)
(* pbf_builder and pbf_message add no state to pbf_writer and pbf_reader: an   *)
(* action is the action of PbfWriter or PbfReader the call is forwarded to,    *)
(* with the tag of the field's name.  Beside them runs the history of what     *)
(* was added to which message and of what each reader has still to meet.       *)
(***************************************************************************)
EXTENDS WireFormat, SequencesExt

CONSTANTS
    Name,           \* the enumerators clients name fields with
    NameTag,        \* their values
    Writer, PackedField, NULL, Asserts, MaxBuf,
    Items,          \* the scalar and bytes fields clients add
    Elements,       \* what they add to packed fields
    Compound,       \* the names of submessages and packed fields
    Ranges,         \* what they hand to add_packed_*
    Sizes,          \* sizes of packed fields announced
    Reader,
    Wanted,         \* names clients look for with next(tag)
    SoughtTypes,    \* wire types for next(tag, type), UnknownType for next(tag)
    Builds          \* TRUE: the readers' assertions are compiled in

ASSUME NameAssumption ==
    NameTag \in [Name -> Nat] /\ \A m, n \in Name : m # n => NameTag[m] # NameTag[n]

VARIABLES
    buf, valid, m_parent_writer, m_rollback_pos, m_pos, owed, torn, throws, written,
    asserts, data, reader, seeking, outcome, begin, current, strayed,
    handed,     \* the string has been handed over
    added,      \* history: what has been added to the message of each writer
    name,       \* history: the field each submessage is stored under
    sent,       \* history: what is in the string while no writer is at it
    ahead       \* history: the fields each reader has not consumed, or NULL

\* Clients that keep the contract, enough memory.
W == INSTANCE PbfWriter WITH
        outcome <- written, MaxThrows <- 0,
        Tags <- {NameTag[n] : n \in Name}, Fields <- {},
        FixedRanges <- {}, PackedRanges <- Ranges
R == INSTANCE PbfReader WITH
        Inputs <- {<<>>}, Wanted <- {NameTag[n] : n \in Wanted}, Misuse <- FALSE

writerVars ==
    <<buf, valid, m_parent_writer, m_rollback_pos, m_pos, owed, torn, throws, written>>
readerVars == <<asserts, data, reader, seeking, outcome, begin, current, strayed>>
vars == <<writerVars, readerVars, handed, added, name, sent, ahead>>

\* One field: its value is a number, or bytes; or it is a message with fields.
Item(n, type, value) ==
    [name |-> n, type |-> type, value |-> value, message |-> FALSE, fields |-> <<>>]
MessageItem(n, fields) ==
    [name |-> n, type |-> LengthDelimitedType, value |-> <<>>, message |-> TRUE, fields |-> fields]

Init ==
    /\ W!Init /\ R!Init
    /\ handed = FALSE
    /\ added = [w \in Writer |-> <<>>]
    /\ name = [w \in Writer |-> NULL]
    /\ sent = <<>>
    /\ ahead = [r \in Reader |-> NULL]

-----------------------------------------------------------------------------
(* pbf_builder.                                                             *)

Writes == ~handed /\ UNCHANGED <<readerVars, handed, ahead>>
Adds(w, item) ==
    /\ added' = [added EXCEPT ![w] = Append(@, item)]
    /\ UNCHANGED <<name, sent>>

\* pbf_builder(std::string&)
Build(w) ==
    /\ Writes /\ W!Construct(w)
    /\ added' = [added EXCEPT ![w] = sent]
    /\ UNCHANGED <<name, sent>>

\* add_bool .. add_double, add_bytes, add_string, add_message
Add(w, item) ==
    LET tag == NameTag[item.name]
        field == CASE item.type = VarintType -> W!VarintField(tag, item.value[1])
                   [] item.type = LengthDelimitedType -> W!BytesField(tag, item.value)
                   [] OTHER -> W!FixedField(tag, item.type, item.value)
    IN Writes /\ W!AddField(w, field) /\ Adds(w, item)

\* add_packed_*, through a sub-writer
AddPacked(w, n, range) ==
    /\ Writes /\ W!AddPacked(w, NameTag[n], range)
    /\ Adds(w, Item(n, LengthDelimitedType, W!AllBytes(range)))

\* pbf_builder(parent, tag), and the constructors of the packed_field classes;
\* only these announce sizes, here such that the bound leaves room for them.
Open(p, c, n, size) ==
    /\ Writes /\ W!OpenSubmessage(p, c, NameTag[n], size)
    /\ size # 0 => c \in PackedField
    /\ Len(buf') + size <= MaxBuf
    /\ added' = [added EXCEPT ![c] = <<>>]
    /\ name' = [name EXCEPT ![c] = n]
    /\ UNCHANGED sent

\* add_element
AddElement(c, e) ==
    /\ Writes /\ W!AddElement(c, e)
    /\ Adds(c, Item(name[c], VarintType, W!Bytes(e)))

\* What a submessage or packed field amounts to when it is closed; one that got
\* nothing is not there.
Closed(c) ==
    IF added[c] = <<>> THEN <<>>
    ELSE IF c \in PackedField
         THEN <<Item(name[c], LengthDelimitedType,
                     FlattenSeq([i \in DOMAIN added[c] |-> added[c][i].value]))>>
         ELSE <<MessageItem(name[c], added[c])>>

Joined(c) ==
    [added EXCEPT ![m_parent_writer[c]] = @ \o Closed(c), ![c] = <<>>]

\* commit(), and the destructor
Commit(c) ==
    /\ Writes /\ W!Commit(c)
    /\ added' = Joined(c) /\ name' = [name EXCEPT ![c] = NULL]
    /\ UNCHANGED sent
Destroy(w) ==
    /\ Writes /\ w \in valid /\ W!Destroy(w)
    /\ IF m_parent_writer[w] = NULL
       THEN added' = [added EXCEPT ![w] = <<>>] /\ sent' = added[w]
       ELSE added' = Joined(w) /\ UNCHANGED sent
    /\ name' = [name EXCEPT ![w] = NULL]

\* rollback()
Rollback(c) ==
    /\ Writes /\ W!Rollback(c)
    /\ added' = [added EXCEPT ![c] = <<>>] /\ name' = [name EXCEPT ![c] = NULL]
    /\ UNCHANGED sent

-----------------------------------------------------------------------------

\* The string goes to the readers.
HandOver ==
    /\ ~handed /\ valid = {}
    /\ handed' = TRUE /\ data' = buf
    /\ UNCHANGED <<writerVars, asserts, reader, seeking, outcome, begin, current, strayed,
                   added, name, sent, ahead>>

-----------------------------------------------------------------------------
(* pbf_message.                                                             *)

Reads == handed /\ UNCHANGED <<writerVars, handed, added, name, sent>>

\* Fields are consumed in the order they were added.  Of a reader that went into
\* bytes as if they were a message, or met an exception there, nothing is known.
OnScript(r) == ahead[r] # NULL
Consumed(r) == IF OnScript(r) /\ ahead[r] # <<>> THEN Tail(ahead[r]) ELSE NULL

\* pbf_message(data, size)
Receive(r) ==
    /\ Reads /\ R!Construct(r)
    /\ ahead' = [ahead EXCEPT ![r] = sent]

\* next()
Advance(r) == Reads /\ R!Advance(r) /\ UNCHANGED ahead

\* next(next_tag) and next(next_tag, type)
Seek(r, n, type) == Reads /\ R!Seek(r, NameTag[n], type) /\ UNCHANGED ahead
SeekStep ==
    /\ Reads /\ R!SeekStep
    /\ ahead' = IF seeking' = NULL THEN ahead
                ELSE [ahead EXCEPT ![seeking.on] = Consumed(seeking.on)]

\* skip() and the getters
Read(r) ==
    /\ Reads /\ current[r] # 0
    /\ \/ R!Skip(r) \/ R!GetVarint(r) \/ R!GetBool(r) \/ R!GetView(r) \/ R!GetPacked(r)
       \/ \E type \in {Fixed32Type, Fixed64Type} : R!GetFixed(r, type)
    /\ ahead' = [ahead EXCEPT ![r] = Consumed(r)]

\* get_message()
ReadMessage(r, child) ==
    /\ Reads /\ R!GetMessage(r, child)
    /\ ahead' = [ahead EXCEPT ![r] = Consumed(r),
                     ![child] = IF OnScript(r) /\ ahead[r][1].message
                                THEN ahead[r][1].fields ELSE NULL]

Copy(from, to) ==
    /\ Reads /\ R!Copy(from, to)
    /\ ahead' = [ahead EXCEPT ![to] = ahead[from]]

Swap(r, q) ==
    /\ Reads /\ R!SwapReaders(r, q)
    /\ ahead' = [ahead EXCEPT ![r] = ahead[q], ![q] = ahead[r]]

-----------------------------------------------------------------------------

Next ==
    \/ \E w \in Writer : Build(w) \/ Commit(w) \/ Destroy(w) \/ Rollback(w)
    \/ \E w \in Writer, item \in Items : Add(w, item)
    \/ \E w \in Writer, n \in Compound, range \in Ranges : AddPacked(w, n, range)
    \/ \E p, c \in Writer, n \in Compound, size \in Sizes : Open(p, c, n, size)
    \/ \E c \in Writer, e \in Elements : AddElement(c, e)
    \/ HandOver
    \/ \E r \in Reader : Receive(r) \/ Advance(r) \/ Read(r)
    \/ \E r \in Reader, n \in Wanted, type \in SoughtTypes : Seek(r, n, type)
    \/ SeekStep
    \/ \E r, q \in Reader : ReadMessage(r, q) \/ Copy(r, q) \/ Swap(r, q)

Spec == Init /\ [][Next]_vars

-----------------------------------------------------------------------------
(* Properties.                                                              *)

\* T(pbf_reader::tag())
TagName(r) == CHOOSE n \in Name : NameTag[n] = reader[r].m_tag

\* Every reader meets the fields that were added to its message, in their order,
\* and comes to the end behind the last one; nothing abandoned, and nothing of
\* how the submessages were opened and closed, is left to be seen.
MeetsWhatWasAdded ==
    \A r \in Reader :
        OnScript(r) /\ (seeking = NULL \/ seeking.on # r) =>
            IF current[r] # 0
            THEN /\ ahead[r] # <<>>
                 /\ TagName(r) = ahead[r][1].name /\ reader[r].m_wire_type = ahead[r][1].type
            ELSE ahead[r] = <<>> <=> reader[r].m_data = reader[r].m_end

\* The value a getter returned; numbers are compared as numbers.
Returned(bytes, type) ==
    IF type = VarintType THEN <<R!DecodeVarint(data, bytes.from, bytes.to + 1).value>>
    ELSE SubSeq(data, bytes.from, bytes.to)

\* A getter returns the value that was added, and no call ends with an exception.
ReadStep ==
    LET r == outcome'.on
        delivers == outcome'.call \in R!Getters /\ ~ahead[r][1].message
    IN (handed /\ outcome' # outcome /\ r \in Reader /\ OnScript(r)) =>
        /\ outcome'.status \in {"ok", "true", "false"}
        /\ delivers =>
            Returned(outcome'.bytes, ahead[r][1].type) = ahead[r][1].value
ReadsWhatWasWritten == [][ReadStep]_vars
=============================================================================
