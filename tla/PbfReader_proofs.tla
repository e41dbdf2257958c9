-------------------------- MODULE PbfReader_proofs --------------------------
(***************************************************************************)
(* Theorems about PbfReader: whatever the bytes are and whatever calls are   *)
(* made, readers stay in their windows and look at nothing behind them, and  *)
(* assertions stop no call that is allowed.                                  *)
(***************************************************************************)
EXTENDS PbfReader, Varint_proofs

-----------------------------------------------------------------------------
(* The functions of the class.                                              *)

Object ==
    [m_data : Nat, m_end : Nat, m_tag : 0 .. MaxTag, m_wire_type : 0 .. 7 \cup {UnknownType}]

\* An object over bytes of s, and one that has moved on in the same window.
Over(s, rd) == rd \in Object /\ rd.m_data <= rd.m_end /\ AreBytes(s, rd.m_data, rd.m_end)
MovedOn(rd, new) ==
    new \in Object /\ new.m_end = rd.m_end /\ rd.m_data <= new.m_data /\ new.m_data <= rd.m_end

\* What the assumptions on widths say of keys and sizes.
LEMMA SizeFacts ==
    /\ Fixed32Bytes \in Nat /\ Fixed64Bytes \in Nat
    /\ \A n \in Nat : LengthType(n) \in 0 .. LengthModulus - 1
    /\ MaxTag \in Nat /\ LengthModulus = 8 * (MaxTag + 1)
BY WidthAssumption, RadixAssumption, KeyAssumption DEF LengthType

\* skip_bytes: the reader stays in its window, and where it was if it throws.
LEMMA SkipBytesFacts ==
    ASSUME NEW rd \in Object, rd.m_data <= rd.m_end, NEW len \in Nat
    PROVE  LET skip == SkipBytes(rd, len) IN
           /\ MovedOn(rd, skip.reader)
           /\ skip.status \in {"ok", "end_of_buffer"}
           /\ skip.status # "ok" => skip.reader = rd
           /\ skip.reader.m_wire_type = rd.m_wire_type
           /\ asserts /\ skip.status = "ok" => skip.reader.m_tag = 0
<1>1. CASE rd.m_end - rd.m_data < len
  BY <1>1 DEF SkipBytes, Result, MovedOn, Object
<1>2. CASE ~ (rd.m_end - rd.m_data < len)
  <2> DEFINE d == rd.m_data + len
             t == TagAfterSkip(rd)
             new == [rd EXCEPT !.m_data = d, !.m_tag = t]
  <2>1. SkipBytes(rd, len) = Result(new, "ok")
    BY <1>2 DEF SkipBytes
  <2>2. t \in 0 .. MaxTag /\ (asserts => t = 0)
    BY SizeFacts DEF TagAfterSkip, Object
  <2>3. d \in Nat /\ rd.m_data <= d /\ d <= rd.m_end
    BY <1>2 DEF Object
  <2> HIDE DEF d, t
  <2>4. /\ new \in Object /\ new.m_data = d /\ new.m_end = rd.m_end
        /\ new.m_tag = t /\ new.m_wire_type = rd.m_wire_type
    BY <2>2, <2>3 DEF Object
  <2> HIDE DEF new
  <2>5. MovedOn(rd, new)
    BY <2>3, <2>4 DEF MovedOn
  <2> QED  BY <2>1, <2>2, <2>4, <2>5 DEF Result
<1> QED  BY <1>1, <1>2

\* get_varint
LEMMA ReadVarintFacts ==
    ASSUME NEW s, NEW rd, Over(s, rd)
    PROVE  LET read == ReadVarint(s, rd) IN
           /\ MovedOn(rd, read.reader)
           /\ read.status \in ReadStatus
           /\ read.status # "ok" => read.reader = rd
           /\ read.reader.m_wire_type = rd.m_wire_type
<1> DEFINE number == DecodeVarint(s, rd.m_data, rd.m_end)
<1>1. rd \in Object /\ rd.m_data \in Nat /\ rd.m_end \in Nat /\ rd.m_data <= rd.m_end
  BY DEF Over, Object
<1>2. Honest(number, rd.m_data, rd.m_end)
  BY <1>1, DecodeFacts DEF Over
<1> HIDE DEF number
<1>3. ReadVarint(s, rd) = Result([rd EXCEPT !.m_data = number.m_data], number.status)
  BY DEF ReadVarint, number
<1>4. number.m_data \in rd.m_data .. rd.m_end /\ number.status \in ReadStatus
  BY <1>1, <1>2 DEF Honest
<1>5. number.status # "ok" => [rd EXCEPT !.m_data = number.m_data] = rd
  BY <1>1, <1>2 DEF Honest, Object
<1> QED  BY <1>1, <1>3, <1>4, <1>5 DEF Result, MovedOn, Object

\* skip_varint
LEMMA PassVarintFacts ==
    ASSUME NEW s, NEW rd, Over(s, rd)
    PROVE  LET pass == PassVarint(s, rd) IN
           /\ MovedOn(rd, pass.reader)
           /\ pass.status \in ReadStatus
           /\ pass.status # "ok" => pass.reader = rd
           /\ pass.reader.m_wire_type = rd.m_wire_type
<1> DEFINE passed == SkipVarint(s, rd.m_data, rd.m_end)
<1>1. rd \in Object /\ rd.m_data \in Nat /\ rd.m_end \in Nat /\ rd.m_data <= rd.m_end
  BY DEF Over, Object
<1>2. Honest(passed, rd.m_data, rd.m_end)
  BY <1>1, SkipFacts
<1> HIDE DEF passed
<1>3. PassVarint(s, rd) = Result([rd EXCEPT !.m_data = passed.m_data], passed.status)
  BY DEF PassVarint, passed
<1>4. passed.m_data \in rd.m_data .. rd.m_end /\ passed.status \in ReadStatus
  BY <1>1, <1>2 DEF Honest
<1>5. passed.status # "ok" => [rd EXCEPT !.m_data = passed.m_data] = rd
  BY <1>1, <1>2 DEF Honest, Object
<1> QED  BY <1>1, <1>3, <1>4, <1>5 DEF Result, MovedOn, Object

\* The bytes behind the length lie between the pointer before and the one after.
LEMMA SkipLengthFacts ==
    ASSUME NEW s, NEW rd, Over(s, rd)
    PROVE  LET skip == SkipLengthDelimited(s, rd)
               payload == DecodeVarint(s, rd.m_data, rd.m_end).m_data
           IN /\ MovedOn(rd, skip.reader)
              /\ skip.status \in ReadStatus
              /\ skip.reader.m_wire_type = rd.m_wire_type
              /\ skip.status = "ok" => payload \in rd.m_data .. skip.reader.m_data
              /\ asserts /\ skip.status = "ok" => skip.reader.m_tag = 0
<1> DEFINE length == DecodeVarint(s, rd.m_data, rd.m_end)
           behind == [rd EXCEPT !.m_data = length.m_data]
           skip == SkipBytes(behind, LengthType(length.value))
<1>1. rd \in Object /\ rd.m_data \in Nat /\ rd.m_end \in Nat /\ rd.m_data <= rd.m_end
  BY DEF Over, Object
<1>2. Honest(length, rd.m_data, rd.m_end)
  BY <1>1, DecodeFacts DEF Over
<1> HIDE DEF length
<1>3. CASE length.status # "ok"
  <2>1. SkipLengthDelimited(s, rd) = Result(rd, length.status)
    BY <1>3 DEF SkipLengthDelimited, length
  <2> QED  BY <1>1, <1>2, <1>3, <2>1 DEF Result, MovedOn, Honest, Object
<1>4. CASE length.status = "ok"
  <2>1. length.m_data \in rd.m_data .. rd.m_end /\ length.value \in Nat
    BY <1>1, <1>2, <1>4 DEF Honest
  <2>2. /\ behind \in Object /\ behind.m_data = length.m_data /\ behind.m_end = rd.m_end
        /\ behind.m_wire_type = rd.m_wire_type
    BY <1>1, <2>1 DEF Object
  <2>3. behind.m_data <= behind.m_end /\ LengthType(length.value) \in Nat
    BY <1>1, <2>1, <2>2, SizeFacts
  <2>4. SkipLengthDelimited(s, rd) = skip
    BY <1>4 DEF SkipLengthDelimited, length
  <2> HIDE DEF behind
  <2>5. /\ MovedOn(behind, skip.reader)
        /\ skip.status \in {"ok", "end_of_buffer"}
        /\ skip.reader.m_wire_type = behind.m_wire_type
        /\ asserts /\ skip.status = "ok" => skip.reader.m_tag = 0
    BY <2>2, <2>3, SkipBytesFacts
  <2> HIDE DEF skip
  <2>6. MovedOn(rd, skip.reader) /\ length.m_data \in rd.m_data .. skip.reader.m_data
    BY <1>1, <2>1, <2>2, <2>5 DEF MovedOn, Object
  <2> QED  BY <2>2, <2>4, <2>5, <2>6 DEF ReadStatus, length
<1> QED  BY <1>3, <1>4

LEMMA FixedBytesFacts == ASSUME NEW type PROVE FixedBytes(type) \in Nat
BY SizeFacts DEF FixedBytes

\* skip(): a field that is not length-delimited is skipped or left as it was.
LEMMA SkipFieldFacts ==
    ASSUME NEW s, NEW rd, Over(s, rd)
    PROVE  LET skip == SkipField(s, rd) IN
           /\ MovedOn(rd, skip.reader)
           /\ skip.status \in ReadStatus
           /\ skip.status # "ok" /\ rd.m_wire_type # LengthDelimitedType => skip.reader = rd
           /\ skip.reader.m_wire_type = rd.m_wire_type
           /\ asserts /\ skip.status = "ok" /\ rd.m_wire_type \in WireType \ {VarintType} =>
                skip.reader.m_tag = 0
<1>1. rd \in Object /\ rd.m_data \in Nat /\ rd.m_end \in Nat /\ rd.m_data <= rd.m_end
  BY DEF Over, Object
<1>2. CASE rd.m_wire_type = VarintType
  <2>1. SkipField(s, rd) = PassVarint(s, rd)
    BY <1>2 DEF SkipField, Fixed64Type, Fixed32Type, VarintType, LengthDelimitedType
  <2> QED  BY <1>2, <2>1, PassVarintFacts
<1>3. CASE rd.m_wire_type \in {Fixed64Type, Fixed32Type}
  <2>1. SkipField(s, rd) = SkipBytes(rd, FixedBytes(rd.m_wire_type))
    BY <1>3 DEF SkipField, Fixed64Type, Fixed32Type, VarintType, LengthDelimitedType
  <2>2. FixedBytes(rd.m_wire_type) \in Nat
    BY FixedBytesFacts
  <2> QED  BY <1>1, <2>1, <2>2, SkipBytesFacts DEF ReadStatus
<1>4. CASE rd.m_wire_type = LengthDelimitedType
  <2>1. SkipField(s, rd) = SkipLengthDelimited(s, rd)
    BY <1>4 DEF SkipField, Fixed64Type, Fixed32Type, VarintType, LengthDelimitedType
  <2> QED  BY <1>4, <2>1, SkipLengthFacts
<1>5. CASE rd.m_wire_type \notin WireType
  <2>1. SkipField(s, rd) = Result(rd, "ok")
    BY <1>5 DEF SkipField, WireType
  <2> QED  BY <1>1, <1>5, <2>1 DEF Result, MovedOn, ReadStatus
<1> QED  BY <1>2, <1>3, <1>4, <1>5 DEF WireType

\* next(): only a key that was read and refused changes a reader that throws.
LEMMA NextFieldFacts ==
    ASSUME NEW s, NEW rd, Over(s, rd)
    PROVE  LET next == NextField(s, rd) IN
           /\ MovedOn(rd, next.reader)
           /\ next.status \in {"true", "false"} \cup Malformed
           /\ next.status \in {"false"} \cup ReadStatus => next.reader = rd
           /\ next.status = "true" =>
                /\ rd.m_data # rd.m_end
                /\ next.reader.m_tag # 0 /\ next.reader.m_wire_type \in WireType
<1> DEFINE number == DecodeVarint(s, rd.m_data, rd.m_end)
           key == LengthType(number.value)
           at == number.m_data
           tag == key \div 8
           type == key % 8
           read == [rd EXCEPT !.m_data = at, !.m_tag = tag]
           full == [read EXCEPT !.m_wire_type = type]
<1>1. rd \in Object /\ rd.m_data \in Nat /\ rd.m_end \in Nat /\ rd.m_data <= rd.m_end
  BY DEF Over, Object
<1>2. Honest(number, rd.m_data, rd.m_end)
  BY <1>1, DecodeFacts DEF Over
<1> HIDE DEF number
<1>3. /\ at \in Nat /\ rd.m_data <= at /\ at <= rd.m_end
      /\ number.status \in ReadStatus
  BY <1>1, <1>2 DEF Honest
<1>4. tag \in 0 .. MaxTag /\ type \in 0 .. 7
  BY <1>2, SizeFacts DEF Honest
<1>5. KeyStatus(key) = "true" => tag # 0 /\ type \in WireType
  BY DEF KeyStatus
<1>6. KeyStatus(key) \in {"true", "invalid_tag", "unknown_wire_type"}
  BY DEF KeyStatus
<1> HIDE DEF at, tag, type
<1>7. /\ MovedOn(rd, read) /\ MovedOn(rd, full)
      /\ full.m_tag = tag /\ full.m_wire_type = type
  <2>1. /\ read \in Object /\ read.m_data = at /\ read.m_end = rd.m_end
        /\ read.m_tag = tag
    BY <1>1, <1>3, <1>4 DEF Object
  <2> HIDE DEF read
  <2>2. /\ full \in Object /\ full.m_data = at /\ full.m_end = rd.m_end
        /\ full.m_tag = tag /\ full.m_wire_type = type
    BY <1>4, <2>1 DEF Object
  <2> HIDE DEF full
  <2> QED  BY <1>1, <1>3, <2>1, <2>2 DEF MovedOn
<1> HIDE DEF key, read, full
<1>8. NextField(s, rd) =
        IF rd.m_data = rd.m_end THEN Result(rd, "false")
        ELSE IF number.status # "ok" THEN Result(rd, number.status)
        ELSE IF KeyStatus(key) = "invalid_tag" THEN Result(read, "invalid_tag")
        ELSE Result(full, KeyStatus(key))
  BY DEF NextField, number, key, at, tag, type, read, full
<1>9. MovedOn(rd, rd)
  BY <1>1 DEF MovedOn
<1> QED  BY <1>3, <1>5, <1>6, <1>7, <1>8, <1>9 DEF Result, ReadStatus, Malformed

-----------------------------------------------------------------------------
(* Windows: TypeOK and InBounds, neither of which is inductive alone.       *)

Safe == TypeOK /\ InBounds

\* What Safe says of the two variables most steps write.
Windows == reader \in [Reader -> Object] /\ begin \in [Reader -> Nat \ {0}] /\ InBounds

\* Safe puts every reader over bytes of the data.
LEMMA SafeFacts ==
    ASSUME Safe
    PROVE  /\ Len(data) \in Nat /\ data \in Inputs
           /\ Windows
           /\ \A r \in Reader : Over(data, reader[r])
           /\ \A r \in Reader : reader[r] \in Object
<1>1. data \in Seq(Byte) /\ Len(data) \in Nat /\ data \in Inputs
  BY ReaderAssumption DEF Safe, TypeOK
<1>2. \A r \in Reader : reader[r] \in [m_data : 1 .. Len(data) + 1, m_end : 1 .. Len(data) + 1,
                               m_tag : 0 .. MaxTag, m_wire_type : 0 .. 7 \cup {UnknownType}]
  BY DEF Safe, TypeOK
<1>3. \A r \in Reader : reader[r] \in Object
  BY <1>1, <1>2 DEF Object
<1>4. Windows
  BY <1>1, <1>3 DEF Safe, TypeOK, Windows
<1>5. ASSUME NEW r \in Reader PROVE Over(data, reader[r])
  <2>1. /\ reader[r].m_data <= reader[r].m_end
        /\ reader[r].m_data \in 1 .. Len(data) + 1
        /\ reader[r].m_end \in 1 .. Len(data) + 1
    BY <1>2 DEF Safe, InBounds
  <2>2. AreBytes(data, reader[r].m_data, reader[r].m_end)
    BY <1>1, <2>1 DEF AreBytes
  <2> QED  BY <1>3, <2>1, <2>2 DEF Over
<1> QED  BY <1>1, <1>3, <1>4, <1>5

\* The part of TypeOK that follows from the windows.
ReadersTyped ==
    /\ reader \in [Reader -> [m_data : 1 .. Len(data) + 1, m_end : 1 .. Len(data) + 1,
                               m_tag : 0 .. MaxTag, m_wire_type : 0 .. 7 \cup {UnknownType}]]
    /\ begin \in [Reader -> 1 .. Len(data) + 1]

LEMMA WindowsTyped == Windows /\ Len(data) \in Nat => ReadersTyped
<1> SUFFICES ASSUME Windows, Len(data) \in Nat PROVE ReadersTyped
  OBVIOUS
<1>1. ASSUME NEW r \in Reader
      PROVE  /\ reader[r].m_data \in 1 .. Len(data) + 1 /\ reader[r].m_end \in 1 .. Len(data) + 1
             /\ begin[r] \in 1 .. Len(data) + 1 /\ reader[r] \in Object
  <2>1. /\ reader[r] \in Object /\ begin[r] \in Nat \ {0} /\ begin[r] <= reader[r].m_data
        /\ reader[r].m_data <= reader[r].m_end /\ reader[r].m_end <= Len(data) + 1
    BY DEF Windows, InBounds
  <2> QED  BY <2>1 DEF Object
<1>2. ASSUME NEW r \in Reader
      PROVE  reader[r] \in [m_data : 1 .. Len(data) + 1, m_end : 1 .. Len(data) + 1,
                               m_tag : 0 .. MaxTag, m_wire_type : 0 .. 7 \cup {UnknownType}]
  BY <1>1 DEF Object
<1> QED  BY <1>1, <1>2 DEF Windows, ReadersTyped

\* A step that moves one reader on, or none.
LEMMA MoveKeepsWindows ==
    ASSUME Windows, NEW r \in Reader, NEW rd, MovedOn(reader[r], rd),
           reader' = [reader EXCEPT ![r] = rd], begin' = begin, data' = data,
           Len(data) \in Nat
    PROVE  Windows'
<1>1. rd \in Object /\ reader[r] \in Object /\ begin[r] \in Nat
  BY DEF MovedOn, Windows
<1>2. reader' \in [Reader -> Object] /\ begin' \in [Reader -> Nat \ {0}]
  BY <1>1 DEF Windows
<1>3. ASSUME NEW q \in Reader
      PROVE  /\ begin'[q] <= reader'[q].m_data /\ reader'[q].m_data <= reader'[q].m_end
             /\ reader'[q].m_end <= Len(data') + 1
  <2>1. CASE q # r
    BY <2>1 DEF Windows, InBounds
  <2>2. CASE q = r
    <3>1. reader'[q] = rd
      BY <2>2 DEF Windows
    <3>2. /\ begin[r] <= reader[r].m_data /\ reader[r].m_end <= Len(data) + 1
          /\ rd.m_end = reader[r].m_end /\ reader[r].m_data <= rd.m_data
          /\ rd.m_data <= reader[r].m_end
      BY DEF Windows, InBounds, MovedOn
    <3> QED  BY <1>1, <2>2, <3>1, <3>2 DEF Object
  <2> QED  BY <2>1, <2>2
<1> QED  BY <1>2, <1>3 DEF Windows, InBounds

-----------------------------------------------------------------------------
(* The inductive invariant.  A reader the contract still holds for has a tag *)
(* while it has a field, and once the field is consumed a debug build has    *)
(* forgotten the tag of all but varints; a search under way is between two   *)
(* fields.                                                                  *)

Honoured(r) ==
    r \notin strayed =>
        /\ current[r] # 0 => reader[r].m_tag # 0
        /\ asserts /\ current[r] = 0 /\ reader[r].m_tag # 0 => reader[r].m_wire_type = VarintType

Inv ==
    /\ Safe
    /\ \A r \in Reader : Honoured(r)
    /\ seeking # NULL => seeking.on \in strayed \/ current[seeking.on] = 0
    /\ NoSpuriousAssert

\* What is left to show of a step that changes neither the build nor the data.
LEMMA StepInv ==
    ASSUME Inv, asserts' = asserts, data' = data, Windows',
           seeking' = NULL \/ seeking'.on \in Reader,
           outcome'.status \in {"ok", "true", "false", "assert_on_misuse"} \cup Exception,
           current' \in [Reader -> 0 .. Len(data)], strayed' \subseteq Reader,
           \A r \in Reader : Honoured(r)',
           seeking' # NULL => seeking'.on \in strayed' \/ current'[seeking'.on] = 0
    PROVE  Inv'
<1>1. Len(data) \in Nat /\ Len(data') = Len(data) /\ asserts' \in Builds /\ data' \in Inputs
  BY SafeFacts DEF Inv, Safe, TypeOK
<1>2. ReadersTyped'
  <2>1. Windows' /\ (Len(data) \in Nat)'
    BY <1>1
  <2> QED  BY <2>1, WindowsTyped, PTL
<1>3. TypeOK'
  BY <1>1, <1>2 DEF TypeOK, ReadersTyped, Aborted
<1>4. NoSpuriousAssert'
  BY DEF NoSpuriousAssert, Exception, Malformed
<1> QED  BY <1>3, <1>4 DEF Inv, Safe, Windows

\* The calls that consume a field, however they end.
LEMMA ConsumeStep ==
    ASSUME Inv, NEW call, NEW r \in Reader, NEW types, NEW asserted, NEW result, NEW from,
           Consume(call, r, types, asserted, result, from), UNCHANGED begin,
           MovedOn(reader[r], result.reader), result.status \in {"ok"} \cup Exception,
           AtValue(r, types) /\ asserts /\ result.status = "ok" =>
                result.reader.m_tag = 0 \/ result.reader.m_wire_type = VarintType
    PROVE  Inv'
<1>1. /\ Windows /\ Len(data) \in Nat
      /\ current \in [Reader -> 0 .. Len(data)] /\ strayed \subseteq Reader
  BY SafeFacts DEF Inv, Safe, TypeOK
<1>2. /\ reader' = [reader EXCEPT ![r] = result.reader] /\ current' = [current EXCEPT ![r] = 0]
      /\ UNCHANGED <<asserts, data, seeking, begin>> /\ seeking = NULL
      /\ strayed' = IF AtValue(r, types) /\ result.status \in {"ok", "true", "false"}
                    THEN strayed ELSE strayed \cup {r}
      /\ outcome'.status = result.status
  BY DEF Consume, Stray, Report, MayCall
<1>3. Windows'
  BY <1>1, <1>2, MoveKeepsWindows
<1>4. ASSUME NEW q \in Reader PROVE Honoured(q)'
  <2>1. CASE q # r
    BY <1>1, <1>2, <2>1 DEF Honoured, Inv, Windows
  <2>2. CASE q = r
    <3>1. r \notin strayed' => AtValue(r, types) /\ result.status = "ok"
      BY <1>2 DEF Exception, Malformed
    <3>2. reader'[q] = result.reader /\ current'[q] = 0
      BY <1>1, <1>2, <2>2 DEF Windows
    <3> QED  BY <1>2, <2>2, <3>1, <3>2 DEF Honoured
  <2> QED  BY <2>1, <2>2
<1>5. current' \in [Reader -> 0 .. Len(data)] /\ strayed' \subseteq Reader
  BY <1>1, <1>2
<1> QED  BY <1>2, <1>3, <1>4, <1>5, StepInv

\* The reader of a constructor, without data and over a window.
LEMMA DefaultFacts ==
    /\ Default \in Object /\ Default.m_data = 1 /\ Default.m_end = 1 /\ Default.m_tag = 0
    /\ \A from, to \in Nat :
        LET new == [Default EXCEPT !.m_data = from, !.m_end = to] IN
        new \in Object /\ new.m_data = from /\ new.m_end = to /\ new.m_tag = 0
<1>1. 0 \in 0 .. MaxTag /\ UnknownType \in 0 .. 7 \cup {UnknownType} /\ 1 \in Nat
  BY SizeFacts
<1>2. Default \in Object /\ Default.m_data = 1 /\ Default.m_end = 1 /\ Default.m_tag = 0
  BY <1>1 DEF Default, Object
<1> QED  BY <1>2 DEF Object

\* What the steps below use of the invariant.
LEMMA InvFacts ==
    ASSUME Inv
    PROVE  /\ Windows /\ Len(data) \in Nat
           /\ current \in [Reader -> 0 .. Len(data)] /\ strayed \subseteq Reader
           /\ \A r \in Reader : Over(data, reader[r])
           /\ \A r \in Reader : reader[r] \in Object
<1>1. Safe
  BY DEF Inv
<1>2. current \in [Reader -> 0 .. Len(data)] /\ strayed \subseteq Reader
  BY <1>1 DEF Safe, TypeOK
<1> QED  BY <1>1, <1>2, SafeFacts

\* The readers start without data.
LEMMA InitInv == Init => Inv
<1> SUFFICES ASSUME Init PROVE Inv
  OBVIOUS
<1>1. data \in Seq(Byte) /\ Len(data) \in Nat
  BY ReaderAssumption DEF Init
<1>2. /\ Default.m_data = 1 /\ Default.m_end = 1 /\ Default.m_tag = 0
      /\ Default \in Object
  BY DefaultFacts
<1>3. Windows
  BY <1>1, <1>2 DEF Init, Windows, InBounds
<1>4. TypeOK
  BY <1>1, <1>3, WindowsTyped DEF Init, TypeOK, ReadersTyped
<1>5. \A r \in Reader : Honoured(r)
  BY <1>2 DEF Init, Honoured
<1> QED  BY <1>3, <1>4, <1>5 DEF Init, Inv, Safe, Windows, NoSpuriousAssert

LEMMA ConstructStep ==
    ASSUME Inv, NEW r \in Reader, Construct(r)
    PROVE  Inv'
<1>1. /\ Windows /\ Len(data) \in Nat
      /\ current \in [Reader -> 0 .. Len(data)] /\ strayed \subseteq Reader
  BY InvFacts
<1> DEFINE new == [Default EXCEPT !.m_data = 1, !.m_end = Len(data) + 1]
<1>2. /\ reader' = [reader EXCEPT ![r] = new] /\ current' = [current EXCEPT ![r] = 0]
      /\ begin' = [begin EXCEPT ![r] = 1] /\ strayed' = strayed \ {r}
      /\ UNCHANGED <<asserts, data, seeking>> /\ seeking = NULL /\ outcome'.status = "ok"
  BY DEF Construct, ConstructOver, Report, MayCall
<1>3. new \in Object /\ new.m_data = 1 /\ new.m_end = Len(data) + 1 /\ new.m_tag = 0
  <2>1. 1 \in Nat /\ Len(data) + 1 \in Nat
    BY <1>1
  <2> QED  BY <2>1, DefaultFacts
<1> HIDE DEF new
<1>4. Windows'
  BY <1>1, <1>2, <1>3 DEF Windows, InBounds
<1>5. ASSUME NEW q \in Reader PROVE Honoured(q)'
  BY <1>1, <1>2, <1>3 DEF Honoured, Inv, Windows
<1>6. current' \in [Reader -> 0 .. Len(data)] /\ strayed' \subseteq Reader
  BY <1>1, <1>2
<1> QED  BY <1>2, <1>4, <1>5, <1>6, StepInv

LEMMA CopyStep ==
    ASSUME Inv, NEW from \in Reader, NEW to \in Reader, Copy(from, to)
    PROVE  Inv'
<1>1. /\ Windows /\ Len(data) \in Nat
      /\ current \in [Reader -> 0 .. Len(data)] /\ strayed \subseteq Reader
  BY InvFacts
<1>2. /\ reader' = [reader EXCEPT ![to] = reader[from]]
      /\ current' = [current EXCEPT ![to] = current[from]]
      /\ begin' = [begin EXCEPT ![to] = begin[from]]
      /\ strayed' = IF from \in strayed THEN strayed \cup {to} ELSE strayed \ {to}
      /\ UNCHANGED <<asserts, data, seeking>> /\ seeking = NULL /\ outcome'.status = "ok"
  BY DEF Copy, Report, MayCall
<1>3. Windows'
  BY <1>1, <1>2 DEF Windows, InBounds
<1>4. ASSUME NEW q \in Reader PROVE Honoured(q)'
  BY <1>1, <1>2 DEF Honoured, Inv, Windows
<1>5. current' \in [Reader -> 0 .. Len(data)] /\ strayed' \subseteq Reader
  BY <1>1, <1>2
<1> QED  BY <1>2, <1>3, <1>4, <1>5, StepInv

LEMMA SwapStep ==
    ASSUME Inv, NEW r \in Reader, NEW q \in Reader, SwapReaders(r, q)
    PROVE  Inv'
<1>1. /\ Windows /\ Len(data) \in Nat
      /\ current \in [Reader -> 0 .. Len(data)] /\ strayed \subseteq Reader
  BY InvFacts
<1>2. /\ reader' = [reader EXCEPT ![r] = reader[q], ![q] = reader[r]]
      /\ current' = [current EXCEPT ![r] = current[q], ![q] = current[r]]
      /\ begin' = [begin EXCEPT ![r] = begin[q], ![q] = begin[r]]
      /\ strayed' = {IF v = r THEN q ELSE IF v = q THEN r ELSE v : v \in strayed}
      /\ UNCHANGED <<asserts, data, seeking>> /\ seeking = NULL /\ outcome'.status = "ok"
      /\ r # q
  BY DEF SwapReaders, Report, MayCall
<1>3. Windows'
  BY <1>1, <1>2 DEF Windows, InBounds
<1>4. ASSUME NEW v \in Reader PROVE Honoured(v)'
  <2>1. PICK was \in Reader : was = IF v = r THEN q ELSE IF v = q THEN r ELSE v
    OBVIOUS
  <2>2. reader'[v] = reader[was] /\ current'[v] = current[was]
    BY <1>1, <1>2, <2>1 DEF Windows
  <2>3. v \notin strayed' => was \notin strayed
    BY <1>2, <2>1
  <2> QED  BY <1>2, <2>2, <2>3 DEF Honoured, Inv
<1>5. current' \in [Reader -> 0 .. Len(data)] /\ strayed' \subseteq Reader
  BY <1>1, <1>2
<1> QED  BY <1>2, <1>3, <1>4, <1>5, StepInv

LEMMA SeekBegins ==
    ASSUME Inv, NEW r \in Reader, NEW tag, NEW type, Seek(r, tag, type)
    PROVE  Inv'
<1>1. /\ Windows /\ Len(data) \in Nat
      /\ current \in [Reader -> 0 .. Len(data)] /\ strayed \subseteq Reader
  BY InvFacts
<1>2. /\ UNCHANGED <<asserts, data, reader, outcome, begin, current>> /\ seeking'.on = r
      /\ strayed' = IF AtKey(r) THEN strayed ELSE strayed \cup {r}
  BY DEF Seek, Stray
<1>3. Windows'
  BY <1>1, <1>2 DEF Windows, InBounds
<1>4. ASSUME NEW q \in Reader PROVE Honoured(q)'
  BY <1>2 DEF Honoured, Inv
<1>5. outcome'.status \in {"ok", "true", "false", "assert_on_misuse"} \cup Exception
  BY <1>2 DEF Inv, Safe, TypeOK, NoSpuriousAssert, Aborted
<1>6. r \in strayed' \/ current'[r] = 0
  BY <1>2 DEF AtKey
<1> QED  BY <1>1, <1>2, <1>3, <1>4, <1>5, <1>6, StepInv

\* An object that has moved on is again one over the same bytes.
LEMMA MovedOnOver ==
    ASSUME NEW s, NEW rd, NEW new, Over(s, rd), MovedOn(rd, new)
    PROVE  /\ Over(s, new)
           /\ \A last : MovedOn(new, last) => MovedOn(rd, last)
BY DEF Over, MovedOn, Object, AreBytes

\* The end of a call that found a field, found none or threw.
LEMMA FoundStep ==
    ASSUME Inv, NEW r \in Reader, NEW new, NEW status, MovedOn(reader[r], new),
           status \in {"true", "false"} \cup Exception,
           status = "true" =>
                /\ reader[r].m_data # reader[r].m_end
                /\ new.m_tag # 0,
           status = "false" => new = reader[r],
           NEW inContract, inContract => r \in strayed \/ current[r] = 0,
           reader' = [reader EXCEPT ![r] = new], FieldFound(r, status),
           Stray(r, inContract, status), outcome'.status = status,
           seeking' = NULL, UNCHANGED <<asserts, data, begin>>
    PROVE  Inv'
<1>1. /\ Windows /\ Len(data) \in Nat
      /\ current \in [Reader -> 0 .. Len(data)] /\ strayed \subseteq Reader
  BY InvFacts
<1>2. Windows'
  BY <1>1, MoveKeepsWindows
<1>3. /\ current' = [current EXCEPT ![r] = IF status = "true" THEN reader[r].m_data ELSE 0]
      /\ strayed' = IF inContract /\ status \in {"ok", "true", "false"}
                    THEN strayed ELSE strayed \cup {r}
  BY DEF FieldFound, Stray
<1>4. status = "true" => reader[r].m_data \in 1 .. Len(data)
  <2>1. /\ reader[r] \in Object /\ begin[r] \in Nat \ {0} /\ begin[r] <= reader[r].m_data
        /\ reader[r].m_data <= reader[r].m_end /\ reader[r].m_end <= Len(data) + 1
    BY <1>1 DEF Windows, InBounds
  <2> QED  BY <1>1, <2>1 DEF Object
<1>5. current' \in [Reader -> 0 .. Len(data)] /\ strayed' \subseteq Reader
  BY <1>1, <1>3, <1>4
<1>6. ASSUME NEW q \in Reader PROVE Honoured(q)'
  <2>1. CASE q # r
    BY <1>1, <1>3, <2>1 DEF Honoured, Inv, Windows
  <2>2. CASE q = r
    <3>1. r \notin strayed' => inContract /\ status \in {"true", "false"} /\ r \notin strayed
      BY <1>3 DEF Exception, Malformed
    <3>2. /\ reader'[q] = new
          /\ current'[q] = IF status = "true" THEN reader[r].m_data ELSE 0
      BY <1>1, <1>3, <2>2 DEF Windows
    <3>3. CASE status = "true"
      BY <1>4, <2>2, <3>2, <3>3 DEF Honoured
    <3>4. CASE status # "true"
      BY <2>2, <3>1, <3>2, <3>4 DEF Honoured, Inv
    <3> QED  BY <3>3, <3>4
  <2> QED  BY <2>1, <2>2
<1>7. outcome'.status \in {"ok", "true", "false", "assert_on_misuse"} \cup Exception
  OBVIOUS
<1> QED  BY <1>2, <1>5, <1>6, <1>7, StepInv

LEMMA AdvanceStep ==
    ASSUME Inv, NEW r \in Reader, Advance(r)
    PROVE  Inv'
<1> DEFINE next == NextField(data, reader[r])
           new == next.reader
           status == next.status
<1>1. /\ MovedOn(reader[r], new) /\ status \in {"true", "false"} \cup Malformed
      /\ status \in {"false"} \cup ReadStatus => new = reader[r]
      /\ status = "true" => reader[r].m_data # reader[r].m_end /\ new.m_tag # 0
  BY InvFacts, NextFieldFacts
<1>2. /\ reader' = [reader EXCEPT ![r] = new] /\ FieldFound(r, status)
      /\ Stray(r, AtKey(r), status) /\ outcome'.status = status
      /\ UNCHANGED <<asserts, data, begin>> /\ seeking' = NULL
  BY DEF Advance, Report, MayCall
<1>3. AtKey(r) => r \in strayed \/ current[r] = 0
  BY DEF AtKey
<1> HIDE DEF new, status
<1> QED  BY <1>1, <1>2, <1>3, FoundStep DEF Exception

LEMMA SeekStepInv ==
    ASSUME Inv, SeekStep
    PROVE  Inv'
<1> DEFINE r == seeking.on
           next == NextField(data, reader[r])
           found == next.status = "true" /\ Matches(next.reader, seeking)
           skip == SkipField(data, next.reader)
           last == IF next.status # "true" \/ found THEN next ELSE skip
           again == next.status = "true" /\ ~found /\ skip.status = "ok"
<1>1. /\ Windows /\ Len(data) \in Nat
      /\ current \in [Reader -> 0 .. Len(data)] /\ strayed \subseteq Reader
      /\ \A q \in Reader : Over(data, reader[q])
  BY InvFacts
<1>2. r \in Reader /\ seeking # NULL /\ (r \in strayed \/ current[r] = 0)
  BY DEF SeekStep, Inv, Safe, TypeOK
<1>3. /\ reader' = [reader EXCEPT ![r] = last.reader] /\ UNCHANGED <<asserts, data, begin>>
      /\ IF again THEN UNCHANGED <<seeking, current, outcome, strayed>>
         ELSE /\ seeking' = NULL
              /\ FieldFound(r, last.status) /\ Stray(r, TRUE, last.status)
              /\ outcome'.status = last.status
  <2> HIDE DEF next, found, skip, last, again, r
  <2>1. /\ reader' = [reader EXCEPT ![r] = last.reader] /\ UNCHANGED <<asserts, data, begin>>
        /\ IF again THEN UNCHANGED <<seeking, current, outcome, strayed>>
           ELSE /\ seeking' = NULL
                /\ FieldFound(r, last.status) /\ Stray(r, TRUE, last.status)
                /\ Report("next(tag)", r, last.status, NoBytes)
    BY Zenon DEF SeekStep, r, next, found, skip, last, again
  <2>2. Report("next(tag)", r, last.status, NoBytes) => outcome'.status = last.status
    BY DEF Report
  <2> QED  BY <2>1, <2>2
<1>4. /\ MovedOn(reader[r], next.reader) /\ next.status \in {"true", "false"} \cup Malformed
      /\ next.status \in {"false"} \cup ReadStatus => next.reader = reader[r]
      /\ next.status = "true" =>
            /\ reader[r].m_data # reader[r].m_end
            /\ next.reader.m_tag # 0 /\ next.reader.m_wire_type \in WireType
  BY <1>1, <1>2, NextFieldFacts
<1>5. Over(data, next.reader)
  BY <1>1, <1>2, <1>4, MovedOnOver
<1>6. /\ MovedOn(next.reader, skip.reader) /\ skip.status \in ReadStatus
      /\ skip.reader.m_wire_type = next.reader.m_wire_type
      /\ asserts /\ skip.status = "ok" /\ next.reader.m_wire_type \in WireType \ {VarintType} =>
            skip.reader.m_tag = 0
  BY <1>5, SkipFieldFacts
<1> HIDE DEF r, next, skip
<1>7. MovedOn(reader[r], skip.reader)
  BY <1>1, <1>2, <1>4, <1>6, MovedOnOver
<1>8. CASE again
  <2>1. last = skip /\ next.status = "true" /\ skip.status = "ok"
    BY <1>8
  <2>2. Windows'
    BY <1>1, <1>2, <1>3, <1>7, <2>1, MoveKeepsWindows
  <2>3. UNCHANGED <<seeking, current, outcome, strayed>>
    BY <1>3, <1>8
  <2>4. ASSUME NEW q \in Reader PROVE Honoured(q)'
    <3>1. CASE q # r
      BY <1>1, <1>3, <2>3, <3>1 DEF Honoured, Inv, Windows
    <3>2. CASE q = r
      <4>1. reader'[q] = skip.reader /\ current'[q] = current[r] /\ strayed' = strayed
        BY <1>1, <1>3, <2>1, <2>3, <3>2 DEF Windows
      <4>2. asserts /\ skip.reader.m_tag # 0 => skip.reader.m_wire_type = VarintType
        BY <1>4, <1>6, <2>1
      <4> QED  BY <1>2, <1>3, <3>2, <4>1, <4>2 DEF Honoured
    <3> QED  BY <3>1, <3>2
  <2>5. outcome'.status \in {"ok", "true", "false", "assert_on_misuse"} \cup Exception
    BY <2>3 DEF Inv, Safe, TypeOK, NoSpuriousAssert, Aborted
  <2>6. /\ seeking'.on \in Reader /\ (seeking'.on \in strayed' \/ current'[seeking'.on] = 0)
    BY <1>2, <2>3 DEF r
  <2> QED  BY <1>1, <1>3, <2>2, <2>3, <2>4, <2>5, <2>6, StepInv
<1>9. CASE ~again
  <2>1. /\ MovedOn(reader[r], last.reader)
        /\ last.status \in {"true", "false"} \cup Exception
        /\ last.status = "true" =>
            reader[r].m_data # reader[r].m_end /\ last.reader.m_tag # 0
        /\ last.status = "false" => last.reader = reader[r]
    BY <1>4, <1>6, <1>7, <1>9 DEF ReadStatus, Exception, Malformed
  <2> HIDE DEF last
  <2>2. Stray(r, TRUE, last.status) /\ (TRUE => r \in strayed \/ current[r] = 0)
    BY <1>2, <1>3, <1>9
  <2>3. FieldFound(r, last.status) /\ seeking' = NULL /\ outcome'.status = last.status
    BY <1>3, <1>9
  <2> QED  BY <1>2, <1>3, <2>1, <2>2, <2>3, FoundStep
<1> QED  BY <1>8, <1>9

LEMMA SkipStep ==
    ASSUME Inv, NEW r \in Reader, Skip(r)
    PROVE  Inv'
<1> DEFINE skip == SkipField(data, reader[r])
<1>1. /\ MovedOn(reader[r], skip.reader) /\ skip.status \in ReadStatus
      /\ skip.reader.m_wire_type = reader[r].m_wire_type
      /\ asserts /\ skip.status = "ok" /\ reader[r].m_wire_type \in WireType \ {VarintType} =>
            skip.reader.m_tag = 0
  BY InvFacts, SkipFieldFacts
<1>2. /\ Consume("skip", r, WireType, TagHolds(r), skip, reader[r].m_data)
      /\ UNCHANGED begin
  BY DEF Skip
<1> HIDE DEF skip
<1>3. AtValue(r, WireType) /\ asserts /\ skip.status = "ok" =>
        skip.reader.m_tag = 0 \/ skip.reader.m_wire_type = VarintType
  BY <1>1 DEF AtValue
<1>4. skip.status \in {"ok"} \cup Exception
  BY <1>1 DEF ReadStatus, Exception, Malformed
<1> QED  BY <1>1, <1>2, <1>3, <1>4, ConsumeStep

LEMMA GetVarintStep ==
    ASSUME Inv, NEW r \in Reader, GetVarint(r)
    PROVE  Inv'
<1> DEFINE read == ReadVarint(data, reader[r])
<1>1. /\ MovedOn(reader[r], read.reader) /\ read.status \in ReadStatus
      /\ read.reader.m_wire_type = reader[r].m_wire_type
  BY InvFacts, ReadVarintFacts
<1>2. /\ Consume("get_varint", r, {VarintType}, TypeHolds(r), read, reader[r].m_data)
      /\ UNCHANGED begin
  BY DEF GetVarint
<1> HIDE DEF read
<1>3. AtValue(r, {VarintType}) => read.reader.m_wire_type = VarintType
  BY <1>1 DEF AtValue
<1>4. read.status \in {"ok"} \cup Exception
  BY <1>1 DEF ReadStatus, Exception, Malformed
<1> QED  BY <1>1, <1>2, <1>3, <1>4, ConsumeStep

LEMMA GetBoolStep ==
    ASSUME Inv, NEW r \in Reader, GetBool(r)
    PROVE  Inv'
<1> DEFINE pass == PassVarint(data, reader[r])
<1>1. /\ MovedOn(reader[r], pass.reader) /\ pass.status \in ReadStatus
      /\ pass.reader.m_wire_type = reader[r].m_wire_type
  BY InvFacts, PassVarintFacts
<1>2. /\ Consume("get_bool", r, {VarintType}, TagAndTypeHold(r, {VarintType}),
                 pass, reader[r].m_data)
      /\ UNCHANGED begin
  BY DEF GetBool
<1> HIDE DEF pass
<1>3. AtValue(r, {VarintType}) => pass.reader.m_wire_type = VarintType
  BY <1>1 DEF AtValue
<1>4. pass.status \in {"ok"} \cup Exception
  BY <1>1 DEF ReadStatus, Exception, Malformed
<1> QED  BY <1>1, <1>2, <1>3, <1>4, ConsumeStep

LEMMA GetFixedStep ==
    ASSUME Inv, NEW r \in Reader, NEW type, GetFixed(r, type)
    PROVE  Inv'
<1> DEFINE skip == SkipBytes(reader[r], FixedBytes(type))
<1>1. reader[r] \in Object /\ reader[r].m_data <= reader[r].m_end /\ FixedBytes(type) \in Nat
  BY InvFacts, FixedBytesFacts DEF Over
<1>2. /\ MovedOn(reader[r], skip.reader) /\ skip.status \in {"ok", "end_of_buffer"}
      /\ asserts /\ skip.status = "ok" => skip.reader.m_tag = 0
  BY <1>1, SkipBytesFacts
<1>3. /\ Consume("get_fixed", r, {type}, TagAndTypeHold(r, {type}), skip, reader[r].m_data)
      /\ UNCHANGED begin
  BY DEF GetFixed
<1> HIDE DEF skip
<1>4. skip.status \in {"ok"} \cup Exception
  BY <1>2 DEF Exception, Malformed
<1> QED  BY <1>2, <1>3, <1>4, ConsumeStep

\* The getters of a length-delimited value.
LEMMA ViewFacts ==
    ASSUME Inv, NEW r \in Reader
    PROVE  LET view == SkipLengthDelimited(data, reader[r]) IN
           /\ MovedOn(reader[r], view.reader)
           /\ view.status \in {"ok"} \cup Exception
           /\ view.status = "ok" => PayloadFrom(r) \in reader[r].m_data .. view.reader.m_data
           /\ asserts /\ view.status = "ok" => view.reader.m_tag = 0
BY InvFacts, SkipLengthFacts DEF PayloadFrom, ReadStatus, Exception, Malformed

LEMMA GetViewStep ==
    ASSUME Inv, NEW r \in Reader, GetView(r)
    PROVE  Inv'
<1> DEFINE view == SkipLengthDelimited(data, reader[r])
<1>1. /\ MovedOn(reader[r], view.reader) /\ view.status \in {"ok"} \cup Exception
      /\ asserts /\ view.status = "ok" => view.reader.m_tag = 0
  BY ViewFacts
<1>2. /\ Consume("get_view", r, {LengthDelimitedType}, TagAndTypeHold(r, {LengthDelimitedType}),
                 view, PayloadFrom(r))
      /\ UNCHANGED begin
  BY DEF GetView
<1> HIDE DEF view
<1> QED  BY <1>1, <1>2, ConsumeStep

LEMMA GetStringThrowsStep ==
    ASSUME Inv, NEW r \in Reader, GetStringThrows(r)
    PROVE  Inv'
<1> DEFINE view == SkipLengthDelimited(data, reader[r])
           failed == Result(view.reader, "bad_alloc")
<1>1. MovedOn(reader[r], view.reader)
  BY ViewFacts
<1>2. /\ Consume("get_string", r, {LengthDelimitedType},
                 TagAndTypeHold(r, {LengthDelimitedType}), failed, PayloadFrom(r))
      /\ UNCHANGED begin
  BY DEF GetStringThrows
<1> HIDE DEF view
<1>3. failed.reader = view.reader /\ failed.status = "bad_alloc"
  BY DEF Result
<1> HIDE DEF failed
<1> QED  BY <1>1, <1>2, <1>3, ConsumeStep DEF Exception

LEMMA GetPackedStep ==
    ASSUME Inv, NEW r \in Reader, GetPacked(r)
    PROVE  Inv'
<1> DEFINE view == SkipLengthDelimited(data, reader[r])
<1>1. /\ MovedOn(reader[r], view.reader) /\ view.status \in {"ok"} \cup Exception
      /\ asserts /\ view.status = "ok" => view.reader.m_tag = 0
  BY ViewFacts
<1>2. /\ Consume("get_packed", r, {LengthDelimitedType}, TagHolds(r), view, PayloadFrom(r))
      /\ UNCHANGED begin
  BY DEF GetPacked
<1> HIDE DEF view
<1> QED  BY <1>1, <1>2, ConsumeStep

LEMMA GetPackedFixedStep ==
    ASSUME Inv, NEW r \in Reader, NEW size, GetPackedFixed(r, size)
    PROVE  Inv'
<1> DEFINE view == SkipLengthDelimited(data, reader[r])
           fixed == PackedFixed(r, size)
<1>1. /\ MovedOn(reader[r], view.reader) /\ view.status \in {"ok"} \cup Exception
      /\ asserts /\ view.status = "ok" => view.reader.m_tag = 0
  BY ViewFacts
<1>2. /\ Consume("get_packed_fixed", r, {LengthDelimitedType}, TagHolds(r), fixed,
                 PayloadFrom(r))
      /\ UNCHANGED begin
  BY DEF GetPackedFixed
<1>3. fixed = view \/ fixed = Result(view.reader, "invalid_length")
  BY DEF PackedFixed
<1> HIDE DEF view, fixed
<1>4. /\ MovedOn(reader[r], fixed.reader) /\ fixed.status \in {"ok"} \cup Exception
      /\ asserts /\ fixed.status = "ok" => fixed.reader.m_tag = 0
  BY <1>1, <1>3 DEF Result, Exception
<1> QED  BY <1>2, <1>4, ConsumeStep

\* The child's window is the value r has passed, so it lies in r's window.
LEMMA GetMessageStep ==
    ASSUME Inv, NEW r \in Reader, NEW child \in Reader, GetMessage(r, child)
    PROVE  Inv'
<1> DEFINE view == SkipLengthDelimited(data, reader[r])
           from == PayloadFrom(r)
           to == view.reader.m_data
           nested == [Default EXCEPT !.m_data = from, !.m_end = to]
           held == AtValue(r, {LengthDelimitedType})
<1>1. /\ Windows /\ Len(data) \in Nat
      /\ current \in [Reader -> 0 .. Len(data)] /\ strayed \subseteq Reader
  BY InvFacts
<1>2. /\ MovedOn(reader[r], view.reader)
      /\ view.status = "ok" => from \in reader[r].m_data .. to
      /\ asserts /\ view.status = "ok" => view.reader.m_tag = 0
  BY ViewFacts
<1>3. /\ view.status = "ok" /\ seeking = NULL
      /\ reader' = [reader EXCEPT ![r] = view.reader, ![child] = nested]
      /\ begin' = [begin EXCEPT ![child] = from]
      /\ current' = [current EXCEPT ![r] = 0, ![child] = 0]
      /\ strayed' = (IF held THEN strayed ELSE strayed \cup {r}) \ {child}
      /\ UNCHANGED <<asserts, data, seeking>> /\ outcome'.status = "ok"
  BY DEF GetMessage, Report, MayCall
<1> HIDE DEF view, from, held
<1>4. /\ begin[r] \in Nat \ {0} /\ begin[r] <= reader[r].m_data
      /\ reader[r].m_end <= Len(data) + 1 /\ reader[r] \in Object /\ view.reader \in Object
      /\ reader[r].m_data <= to /\ to <= reader[r].m_end /\ view.reader.m_end = reader[r].m_end
  BY <1>1, <1>2 DEF Windows, InBounds, MovedOn
<1>5. /\ from \in Nat \ {0} /\ to \in Nat /\ from <= to /\ to <= Len(data) + 1
      /\ begin[r] <= to
  <2>1. from \in reader[r].m_data .. to
    BY <1>2, <1>3
  <2>2. reader[r].m_data \in Nat /\ reader[r].m_end \in Nat /\ to \in Nat
    BY <1>4 DEF Object
  <2> HIDE DEF to
  <2> QED  BY <1>1, <1>4, <2>1, <2>2
<1>6. /\ nested \in Object /\ nested.m_data = from /\ nested.m_end = to
      /\ nested.m_tag = 0
  BY <1>5, DefaultFacts
<1> HIDE DEF nested, to
<1>7. Windows'
  <2>1. reader' \in [Reader -> Object] /\ begin' \in [Reader -> Nat \ {0}]
    BY <1>1, <1>3, <1>4, <1>5, <1>6 DEF Windows
  <2>2. ASSUME NEW q \in Reader
        PROVE  /\ begin'[q] <= reader'[q].m_data /\ reader'[q].m_data <= reader'[q].m_end
               /\ reader'[q].m_end <= Len(data') + 1
    <3>1. CASE q = child
      BY <1>1, <1>3, <1>5, <1>6, <3>1 DEF Windows
    <3>2. CASE q # child /\ q = r
      <4>1. reader'[q] = view.reader /\ begin'[q] = begin[r]
        BY <1>1, <1>3, <3>2 DEF Windows
      <4> QED  BY <1>3, <1>4, <1>5, <4>1 DEF to
    <3>3. CASE q # child /\ q # r
      BY <1>1, <1>3, <3>3 DEF Windows, InBounds
    <3> QED  BY <3>1, <3>2, <3>3
  <2> QED  BY <2>1, <2>2 DEF Windows, InBounds
<1>8. ASSUME NEW q \in Reader PROVE Honoured(q)'
  <2>1. CASE q = child
    BY <1>1, <1>3, <1>6, <2>1 DEF Honoured, Windows
  <2>2. CASE q # child /\ q = r
    BY <1>1, <1>2, <1>3, <2>2 DEF Honoured, Windows
  <2>3. CASE q # child /\ q # r
    BY <1>1, <1>3, <2>3 DEF Honoured, Windows, Inv
  <2> QED  BY <2>1, <2>2, <2>3
<1>9. current' \in [Reader -> 0 .. Len(data)] /\ strayed' \subseteq Reader
  BY <1>1, <1>3
<1> QED  BY <1>3, <1>7, <1>8, <1>9, StepInv

\* An assertion that fails: the call was not allowed, which Honoured shows.
LEMMA AbortStep ==
    ASSUME Inv, NEW call, NEW r \in Reader, NEW inContract, NEW asserted,
           Abort(call, r, inContract, asserted), inContract => asserted
    PROVE  Inv'
<1>1. /\ Windows /\ Len(data) \in Nat
      /\ current \in [Reader -> 0 .. Len(data)] /\ strayed \subseteq Reader
  BY InvFacts
<1>2. /\ UNCHANGED <<asserts, data, reader, seeking, begin, current, strayed>>
      /\ seeking = NULL /\ outcome'.status = "assert_on_misuse"
  BY DEF Abort, Report, MayCall
<1>3. Windows'
  BY <1>1, <1>2 DEF Windows, InBounds
<1>4. ASSUME NEW q \in Reader PROVE Honoured(q)'
  BY <1>2 DEF Honoured, Inv
<1> QED  BY <1>1, <1>2, <1>3, <1>4, StepInv

LEMMA GetterAbortsStep ==
    ASSUME Inv, NEW r \in Reader, GetterAborts(r)
    PROVE  Inv'
<1>1. ASSUME NEW types
      PROVE  AtValue(r, types) => TagHolds(r) /\ TagAndTypeHold(r, types)
  BY DEF Inv, Honoured, AtValue, TagHolds, TagAndTypeHold
<1>2. AtValue(r, {VarintType}) => TypeHolds(r)
  BY DEF AtValue, TypeHolds
<1>3. CASE Abort("skip", r, AtValue(r, WireType), TagHolds(r))
  BY <1>1, <1>3, AbortStep
<1>4. CASE Abort("get_varint", r, AtValue(r, {VarintType}), TypeHolds(r))
  BY <1>2, <1>4, AbortStep
<1>5. CASE Abort("get_bool", r, AtValue(r, {VarintType}), TagAndTypeHold(r, {VarintType}))
  BY <1>1, <1>5, AbortStep
<1>6. ASSUME NEW type, Abort("get", r, AtValue(r, {type}), TagAndTypeHold(r, {type}))
      PROVE  Inv'
  BY <1>1, <1>6, AbortStep
<1>7. CASE Abort("get_packed", r, AtValue(r, {LengthDelimitedType}), TagHolds(r))
  BY <1>1, <1>7, AbortStep
<1> QED  BY <1>3, <1>4, <1>5, <1>6, <1>7 DEF GetterAborts

\* Every call keeps the invariant.
LEMMA NextInv == Inv /\ [Next]_vars => Inv'
<1> SUFFICES ASSUME Inv, [Next]_vars PROVE Inv'
  OBVIOUS
<1>1. ASSUME NEW r \in Reader, NEW q \in Reader,
             Copy(r, q) \/ SwapReaders(r, q) \/ GetMessage(r, q)
      PROVE  Inv'
  BY <1>1, CopyStep, SwapStep, GetMessageStep
<1>2. ASSUME NEW r \in Reader, Construct(r) \/ Advance(r) \/ GetterAborts(r)
      PROVE  Inv'
  BY <1>2, ConstructStep, AdvanceStep, GetterAbortsStep
<1>3. ASSUME NEW r \in Reader, NEW tag, NEW type, Seek(r, tag, type)
      PROVE  Inv'
  BY <1>3, SeekBegins
<1>4. CASE SeekStep
  BY <1>4, SeekStepInv
<1>5. ASSUME NEW r \in Reader, Skip(r) \/ GetVarint(r) \/ GetBool(r)
      PROVE  Inv'
  BY <1>5, SkipStep, GetVarintStep, GetBoolStep
<1>6. ASSUME NEW r \in Reader, GetView(r) \/ GetStringThrows(r) \/ GetPacked(r)
      PROVE  Inv'
  BY <1>6, GetViewStep, GetStringThrowsStep, GetPackedStep
<1>7. ASSUME NEW r \in Reader, NEW type, GetFixed(r, type) \/ GetPackedFixed(r, FixedBytes(type))
      PROVE  Inv'
  BY <1>7, GetFixedStep, GetPackedFixedStep
<1>8. CASE UNCHANGED vars
  <2>1. UNCHANGED <<asserts, data, reader, seeking, outcome, begin, current, strayed>>
    BY <1>8 DEF vars
  <2>2. Windows /\ current \in [Reader -> 0 .. Len(data)] /\ strayed \subseteq Reader
    BY InvFacts
  <2>3. Windows' /\ \A q \in Reader : Honoured(q)'
    BY <2>1, <2>2 DEF Windows, InBounds, Honoured, Inv
  <2>4. outcome'.status \in {"ok", "true", "false", "assert_on_misuse"} \cup Exception
    BY <2>1 DEF Inv, Safe, TypeOK, NoSpuriousAssert, Aborted
  <2> QED  BY <2>1, <2>2, <2>3, <2>4, StepInv DEF Inv, Safe, TypeOK
<1> QED  BY <1>1, <1>2, <1>3, <1>4, <1>5, <1>6, <1>7, <1>8 DEF Next

-----------------------------------------------------------------------------
(* Theorems.                                                                *)

\* Inv is an inductive invariant of the readers.
THEOREM Invariance == Spec => []Inv
<1> QED  BY InitInv, NextInv, PTL DEF Spec

\* Type correctness.
THEOREM TypeCorrect == Spec => []TypeOK
<1>1. Inv => TypeOK
  BY DEF Inv, Safe
<1> QED  BY <1>1, Invariance, PTL

\* Whatever the bytes and the calls are, no pointer leaves its reader's window.
THEOREM StaysInBounds == Spec => []InBounds
<1>1. Inv => InBounds
  BY DEF Inv, Safe
<1> QED  BY <1>1, Invariance, PTL

\* An assertion stops only calls whose preconditions do not hold.
THEOREM NoneSpurious == Spec => []NoSpuriousAssert
<1>1. Inv => NoSpuriousAssert
  BY DEF Inv
<1> QED  BY <1>1, Invariance, PTL

\* In a debug build a consumed field that is no varint leaves no tag behind.
THEOREM SecondReadsShow == Spec => []DoubleReadsShow
<1>1. Inv => DoubleReadsShow
  BY DEF Inv, Honoured, DoubleReadsShow
<1> QED  BY <1>1, Invariance, PTL

\* No call depends on a byte behind the reader's window.
THEOREM NothingBehindTheEnd == Spec => []Confined
<1>1. ASSUME Inv, NEW r \in Reader
      PROVE  LET rd == reader[r]
                 cut == SubSeq(data, 1, rd.m_end - 1)
             IN /\ DecodeVarint(cut, rd.m_data, rd.m_end) = DecodeVarint(data, rd.m_data, rd.m_end)
                /\ SkipVarint(cut, rd.m_data, rd.m_end) = SkipVarint(data, rd.m_data, rd.m_end)
  <2> DEFINE from == reader[r].m_data
             to == reader[r].m_end
             cut == SubSeq(data, 1, to - 1)
  <2>1. data \in Seq(Byte) /\ Len(data) \in Nat
    BY <1>1, ReaderAssumption DEF Inv, Safe, TypeOK
  <2>2. /\ reader[r] \in Object /\ begin[r] \in Nat \ {0} /\ begin[r] <= from /\ from <= to
        /\ to <= Len(data) + 1
    BY <1>1, InvFacts DEF Windows, InBounds
  <2>3. from \in Nat \ {0} /\ to \in Nat \ {0}
    BY <2>2 DEF Object
  <2> HIDE DEF from, to
  <2>4. \A j \in from .. to - 1 : data[j] = cut[j]
    BY <2>1, <2>2, <2>3
  <2>5. AreBytes(data, from, to)
    BY <2>1, <2>2, <2>3 DEF AreBytes
  <2> HIDE DEF cut
  <2>6. DecodeVarint(data, from, to) = DecodeVarint(cut, from, to)
    BY <2>2, <2>3, <2>4, <2>5, DecodeLocal
  <2>7. SkipVarint(data, from, to) = SkipVarint(cut, from, to)
    BY <2>2, <2>3, <2>4, SkipLocal
  <2> QED  BY <2>6, <2>7 DEF from, to, cut
<1>2. ASSUME NEW s, NEW t, NEW rd,
             DecodeVarint(s, rd.m_data, rd.m_end) = DecodeVarint(t, rd.m_data, rd.m_end),
             SkipVarint(s, rd.m_data, rd.m_end) = SkipVarint(t, rd.m_data, rd.m_end)
      PROVE  /\ NextField(s, rd) = NextField(t, rd)
             /\ SkipField(s, rd) = SkipField(t, rd)
             /\ ReadVarint(s, rd) = ReadVarint(t, rd)
             /\ PassVarint(s, rd) = PassVarint(t, rd)
             /\ SkipLengthDelimited(s, rd) = SkipLengthDelimited(t, rd)
  <2>1. SkipLengthDelimited(s, rd) = SkipLengthDelimited(t, rd)
    BY <1>2 DEF SkipLengthDelimited
  <2>2. PassVarint(s, rd) = PassVarint(t, rd)
    BY <1>2 DEF PassVarint
  <2>3. ReadVarint(s, rd) = ReadVarint(t, rd)
    BY <1>2 DEF ReadVarint
  <2>4. NextField(s, rd) = NextField(t, rd)
    BY <1>2 DEF NextField
  <2>5. SkipField(s, rd) = SkipField(t, rd)
    BY <2>1, <2>2 DEF SkipField
  <2> QED  BY <2>1, <2>2, <2>3, <2>4, <2>5
<1>3. Inv => Confined
  BY <1>1, <1>2 DEF Confined
<1> QED  BY <1>3, Invariance, PTL

\* A number or a fixed-size value that is cut off leaves every reader as it was.
THEOREM CutOffIsHarmless == Spec => CutOffChangesNothing
<1>1. ASSUME Inv, [Next]_vars, seeking = NULL, seeking' = NULL,
             outcome'.status \in {"end_of_buffer", "varint_too_long"},
             \/ outcome'.call \in {"next", "get_varint", "get_bool", "get_fixed"}
             \/ /\ outcome'.call = "skip"
                /\ reader[outcome'.on].m_wire_type # LengthDelimitedType
      PROVE  reader' = reader
  <2>1. /\ \A r \in Reader : Over(data, reader[r]) /\ reader[r] \in Object
        /\ reader = [r \in Reader |-> reader[r]]
    BY <1>1, InvFacts DEF Windows
  <2>2. ASSUME NEW r \in Reader, NEW new, reader' = [reader EXCEPT ![r] = new],
               new = reader[r]
        PROVE  reader' = reader
    BY <2>1, <2>2
  <2>3. ASSUME NEW r \in Reader, NEW q \in Reader,
               Copy(r, q) \/ SwapReaders(r, q) \/ GetMessage(r, q)
        PROVE  FALSE
    <3>1. \A call, on, bytes : Report(call, on, "ok", bytes) => outcome'.status = "ok"
      BY DEF Report
    <3>2. ~Copy(r, q)
      BY <1>1, <3>1 DEF Copy
    <3>3. ~SwapReaders(r, q)
      BY <1>1, <3>1 DEF SwapReaders
    <3>4. ~GetMessage(r, q)
      BY <1>1, <3>1 DEF GetMessage
    <3> QED  BY <2>3, <3>2, <3>3, <3>4
  <2>4. ASSUME NEW r \in Reader, Construct(r)
        PROVE  FALSE
    BY <1>1, <2>4 DEF Construct, ConstructOver, Report
  <2>5. ASSUME NEW r \in Reader, Advance(r)
        PROVE  reader' = reader
    <3> DEFINE next == NextField(data, reader[r])
    <3>1. reader' = [reader EXCEPT ![r] = next.reader] /\ outcome'.status = next.status
      BY <2>5 DEF Advance, Report
    <3>2. next.status \in ReadStatus => next.reader = reader[r]
      BY <2>1, NextFieldFacts
    <3> QED  BY <1>1, <2>2, <3>1, <3>2 DEF ReadStatus
  <2>6. ASSUME NEW r \in Reader, GetterAborts(r)
        PROVE  FALSE
    <3>1. ASSUME NEW call, NEW inContract, NEW asserted, Abort(call, r, inContract, asserted)
          PROVE  FALSE
      BY <1>1, <3>1 DEF Abort, Report
    <3>2. \A type : ~Abort("get", r, AtValue(r, {type}), TagAndTypeHold(r, {type}))
      BY <3>1
    <3> QED  BY <2>6, <3>1, <3>2 DEF GetterAborts
  <2>7. ASSUME NEW r \in Reader, NEW tag, NEW type, Seek(r, tag, type)
        PROVE  reader' = reader
    BY <2>7 DEF Seek
  <2>8. CASE SeekStep
    BY <1>1, <2>8 DEF SeekStep
  <2>9. ASSUME NEW call, NEW r \in Reader, NEW types, NEW asserted, NEW result, NEW from,
               Consume(call, r, types, asserted, result, from)
        PROVE  /\ reader' = [reader EXCEPT ![r] = result.reader]
               /\ outcome'.call = call /\ outcome'.status = result.status /\ outcome'.on = r
    BY <2>9 DEF Consume, Report
  <2>10. ASSUME NEW r \in Reader, Skip(r)
         PROVE  reader' = reader
    <3>1. /\ reader' = [reader EXCEPT ![r] = SkipField(data, reader[r]).reader]
          /\ outcome'.call = "skip" /\ outcome'.status = SkipField(data, reader[r]).status
          /\ outcome'.on = r
      BY <2>9, <2>10 DEF Skip
    <3>2. SkipField(data, reader[r]).reader = reader[r]
      BY <1>1, <2>1, <3>1, SkipFieldFacts
    <3> QED  BY <2>2, <3>1, <3>2
  <2>11. ASSUME NEW r \in Reader, GetVarint(r)
         PROVE  reader' = reader
    <3>1. /\ reader' = [reader EXCEPT ![r] = ReadVarint(data, reader[r]).reader]
          /\ outcome'.status = ReadVarint(data, reader[r]).status
      BY <2>9, <2>11 DEF GetVarint
    <3>2. ReadVarint(data, reader[r]).reader = reader[r]
      BY <1>1, <2>1, <3>1, ReadVarintFacts
    <3> QED  BY <2>2, <3>1, <3>2
  <2>12. ASSUME NEW r \in Reader, GetBool(r)
         PROVE  reader' = reader
    <3>1. /\ reader' = [reader EXCEPT ![r] = PassVarint(data, reader[r]).reader]
          /\ outcome'.status = PassVarint(data, reader[r]).status
      BY <2>9, <2>12 DEF GetBool
    <3>2. PassVarint(data, reader[r]).reader = reader[r]
      BY <1>1, <2>1, <3>1, PassVarintFacts
    <3> QED  BY <2>2, <3>1, <3>2
  <2>13. ASSUME NEW r \in Reader, GetView(r) \/ GetStringThrows(r) \/ GetPacked(r)
         PROVE  FALSE
    <3>1. outcome'.call \in {"get_view", "get_string", "get_packed"}
      BY <2>9, <2>13 DEF GetView, GetStringThrows, GetPacked
    <3> QED  BY <1>1, <3>1
  <2>14. ASSUME NEW r \in Reader, NEW type, GetFixed(r, type)
         PROVE  reader' = reader
    <3> DEFINE skip == SkipBytes(reader[r], FixedBytes(type))
    <3>1. /\ reader' = [reader EXCEPT ![r] = skip.reader]
          /\ outcome'.status = skip.status
      BY <2>9, <2>14 DEF GetFixed
    <3>2. reader[r] \in Object /\ reader[r].m_data <= reader[r].m_end /\ FixedBytes(type) \in Nat
      BY <2>1, FixedBytesFacts DEF Over
    <3>3. skip.status # "ok" => skip.reader = reader[r]
      BY <3>2, SkipBytesFacts
    <3> HIDE DEF skip
    <3> QED  BY <1>1, <2>2, <3>1, <3>3
  <2>15. ASSUME NEW r \in Reader, NEW size, GetPackedFixed(r, size)
         PROVE  FALSE
    <3>1. outcome'.call = "get_packed_fixed"
      BY <2>9, <2>15 DEF GetPackedFixed
    <3> QED  BY <1>1, <3>1
  <2>16. CASE UNCHANGED vars
    BY <2>16 DEF vars
  <2> QED  BY <1>1, <2>3, <2>4, <2>5, <2>6, <2>7, <2>8, <2>10, <2>11, <2>12, <2>13, <2>14,
              <2>15, <2>16 DEF Next
<1>2. Inv /\ [Next]_vars => [CutOffStep]_vars
  BY <1>1 DEF CutOffStep
<1> QED  BY <1>2, Invariance, PTL DEF Spec, CutOffChangesNothing
=============================================================================
