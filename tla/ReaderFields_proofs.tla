------------------------ MODULE ReaderFields_proofs -------------------------
(***************************************************************************)
(* Theorems about what PbfReader reads: a reader that the contract holds for *)
(* passes whole fields, its getters return their values, searches find the   *)
(* first field asked for, and only malformed bytes make a call fail.         *)
(***************************************************************************)
EXTENDS PbfReader_proofs, WireParser_proofs

-----------------------------------------------------------------------------
(* The parser of PbfReader is the one the lemmas are about.                  *)

LEMMA SameIsMessage == ASSUME NEW s PROVE Parser!IsMessage(s) <=> IsMessage(s)
BY DEF Parser!IsMessage, IsMessage, Parser!FieldsAt, FieldsAt, Parser!VarintValue, VarintValue,
       Parser!VarintEnd, VarintEnd, Parser!VarintStops, VarintStops, Parser!Min, Min,
       Parser!Radix, Radix, Parser!MaxVarintLength, MaxVarintLength, Parser!FixedSize, FixedSize,
       Parser!LengthType, LengthType, Parser!LengthModulus, LengthModulus,
       Parser!TagInRange, TagInRange, Parser!MaxTag, MaxTag,
       Parser!VarintType, VarintType, Parser!Fixed32Type, Fixed32Type,
       Parser!Fixed64Type, Fixed64Type, Parser!LengthDelimitedType, LengthDelimitedType

LEMMA SameFieldsAt == ASSUME NEW s, NEW i PROVE Parser!FieldsAt(s, i) = FieldsAt(s, i)
BY DEF Parser!FieldsAt, FieldsAt, Parser!VarintValue, VarintValue,
       Parser!VarintEnd, VarintEnd, Parser!VarintStops, VarintStops, Parser!Min, Min,
       Parser!Radix, Radix, Parser!MaxVarintLength, MaxVarintLength, Parser!FixedSize, FixedSize,
       Parser!LengthType, LengthType, Parser!LengthModulus, LengthModulus,
       Parser!TagInRange, TagInRange, Parser!MaxTag, MaxTag,
       Parser!VarintType, VarintType, Parser!Fixed32Type, Fixed32Type,
       Parser!Fixed64Type, Fixed64Type, Parser!LengthDelimitedType, LengthDelimitedType

LEMMA SameFieldsOf == ASSUME NEW s PROVE Parser!FieldsOf(s) = FieldsOf(s)
BY DEF Parser!FieldsOf, FieldsOf, Parser!FieldsAt, FieldsAt, Parser!VarintValue, VarintValue,
       Parser!VarintEnd, VarintEnd, Parser!VarintStops, VarintStops, Parser!Min, Min,
       Parser!Radix, Radix, Parser!MaxVarintLength, MaxVarintLength, Parser!FixedSize, FixedSize,
       Parser!LengthType, LengthType, Parser!LengthModulus, LengthModulus,
       Parser!TagInRange, TagInRange, Parser!MaxTag, MaxTag,
       Parser!VarintType, VarintType, Parser!Fixed32Type, Fixed32Type,
       Parser!Fixed64Type, Fixed64Type, Parser!LengthDelimitedType, LengthDelimitedType

-----------------------------------------------------------------------------
(* The functions of the class, in terms of fields.                          *)

\* rd has read the key at at and is in front of its value.
Positioned(s, rd, at) ==
    \E k \in at .. rd.m_end - 1 :
        /\ IsVarint(s, at, k) /\ rd.m_data = k + 1
        /\ TagInRange(KeyOf(s, at, k) \div 8)
        /\ rd.m_tag = KeyOf(s, at, k) \div 8 /\ rd.m_wire_type = KeyOf(s, at, k) % 8

\* A function that began with rd behind the key at at has passed the field, whose
\* value without a length starts at from, or there is none.
Passes(s, rd, at, result, from) ==
    /\ result.status = "ok" =>
        \E f : Field(s, at, rd.m_end, f) /\ result.reader.m_data = f.to + 1 /\ from = f.from
    /\ result.status \in Malformed => \A f : ~ Field(s, at, rd.m_end, f)

LEMMA PositionedFacts ==
    ASSUME NEW s, NEW rd, NEW at \in Nat \ {0}, Over(s, rd), AreBytes(s, at, rd.m_end),
           Positioned(s, rd, at)
    PROVE  \E key \in Nat :
            /\ rd.m_tag = key \div 8 /\ rd.m_wire_type = key % 8
            /\ at < rd.m_data
            /\ \A f : Field(s, at, rd.m_end, f) <=> ValueAt(s, key, rd.m_data, rd.m_end, f)
<1> DEFINE end == rd.m_end
<1>1. PICK k \in at .. end - 1 :
        /\ IsVarint(s, at, k) /\ rd.m_data = k + 1
        /\ TagInRange(KeyOf(s, at, k) \div 8)
        /\ rd.m_tag = KeyOf(s, at, k) \div 8 /\ rd.m_wire_type = KeyOf(s, at, k) % 8
  BY DEF Positioned
<1> DEFINE key == KeyOf(s, at, k)
<1>2. at \in Nat /\ end \in Nat /\ k \in Nat /\ at <= k /\ AreBytes(s, at, k + 1)
  BY DEF Over, Object, AreBytes
<1>3. key \in Nat
  BY <1>2, KeyFacts
<1>4. \A m \in at .. end - 1 : IsVarint(s, at, m) => m = k
  BY <1>1, <1>2, OneVarint
<1>5. ASSUME NEW f
      PROVE  Field(s, at, end, f) <=> ValueAt(s, key, rd.m_data, end, f)
  <2> HIDE DEF end
  <2> QED  BY <1>1, <1>4 DEF Field
<1> HIDE DEF key
<1> QED  BY <1>1, <1>2, <1>3, <1>5 DEF key

\* The tag and the type of the object are the field's.
LEMMA FieldTyped ==
    ASSUME NEW s, NEW rd, NEW at \in Nat \ {0}, Over(s, rd), AreBytes(s, at, rd.m_end),
           Positioned(s, rd, at), NEW f, Field(s, at, rd.m_end, f)
    PROVE  f.tag = rd.m_tag /\ f.type = rd.m_wire_type
<1>1. PICK key \in Nat :
        /\ rd.m_tag = key \div 8 /\ rd.m_wire_type = key % 8 /\ at < rd.m_data
        /\ Field(s, at, rd.m_end, f) <=> ValueAt(s, key, rd.m_data, rd.m_end, f)
  BY PositionedFacts
<1> DEFINE first == rd.m_data
           end == rd.m_end
<1>2. first \in Nat /\ first > 0 /\ end \in Nat /\ AreBytes(s, first, end)
  BY <1>1 DEF Over, Object
<1>3. ValueAt(s, key, first, end, f)
  BY <1>1
<1> HIDE DEF first, end
<1>4. f.tag = key \div 8 /\ f.type = key % 8
  BY <1>2, <1>3, ValueFacts
<1> QED  BY <1>1, <1>4

LEMMA Types ==
    /\ VarintType # LengthDelimitedType /\ VarintType \notin {Fixed32Type, Fixed64Type}
    /\ LengthDelimitedType \notin {Fixed32Type, Fixed64Type}
BY DEF VarintType, LengthDelimitedType, Fixed32Type, Fixed64Type

\* next(): it stands before the value of a field's key, or there is no field.
LEMMA NextFieldReads ==
    ASSUME NEW s, NEW rd, Over(s, rd), rd.m_data > 0
    PROVE  LET next == NextField(s, rd) IN
           /\ next.status = "true" =>
                /\ Positioned(s, next.reader, rd.m_data)
                /\ next.reader.m_wire_type \in WireType
           /\ next.status = "false" => rd.m_data = rd.m_end
           /\ next.status \in Malformed =>
                rd.m_data # rd.m_end /\ \A f : ~ Field(s, rd.m_data, rd.m_end, f)
<1> DEFINE at == rd.m_data
           end == rd.m_end
           number == DecodeVarint(s, at, end)
           key == LengthType(number.value)
           read == [rd EXCEPT !.m_data = number.m_data, !.m_tag = key \div 8]
           full == [read EXCEPT !.m_wire_type = key % 8]
<1>1. rd \in Object /\ at \in Nat /\ end \in Nat /\ at <= end /\ AreBytes(s, at, end)
  BY DEF Over, Object
<1>2. NextField(s, rd) =
        IF at = end THEN Result(rd, "false")
        ELSE IF number.status # "ok" THEN Result(rd, number.status)
        ELSE IF KeyStatus(key) = "invalid_tag" THEN Result(read, "invalid_tag")
        ELSE Result(full, KeyStatus(key))
  BY DEF NextField
<1>3. CASE at = end
  BY <1>2, <1>3 DEF Result, Malformed
<1>4. CASE at # end /\ ~ \E k \in at .. end - 1 : IsVarint(s, at, k)
  <2>1. number.status \notin {"ok", "true", "false"}
    <3> HIDE DEF at, end
    <3>1. number = Missed(IF end - at >= MaxVarintLength THEN "varint_too_long"
                          ELSE "end_of_buffer", at)
      BY <1>1, <1>4, DecodeMisses
    <3> HIDE DEF number
    <3> QED  BY <3>1 DEF Missed
  <2>2. \A f : ~ Field(s, at, end, f)
    BY <1>4 DEF Field
  <2> QED  BY <1>2, <1>4, <2>1, <2>2 DEF Result
<1>5. CASE at # end /\ \E k \in at .. end - 1 : IsVarint(s, at, k)
  <2>1. PICK k \in at .. end - 1 : IsVarint(s, at, k)
    BY <1>5
  <2>2. number = Found(Number(s, at, k), k + 1)
    <3> HIDE DEF at, end
    <3> QED  BY <1>1, <2>1, DecodeFinds
  <2>3. number.status = "ok" /\ number.m_data = k + 1 /\ key = KeyOf(s, at, k)
    <3> HIDE DEF number, at
    <3> QED  BY <2>2 DEF Found, KeyOf
  <2> HIDE DEF number
  <2>4. NextField(s, rd) =
            IF KeyStatus(key) = "invalid_tag" THEN Result(read, "invalid_tag")
            ELSE Result(full, KeyStatus(key))
    BY <1>2, <1>5, <2>3
  <2>5. key \in Nat /\ key < LengthModulus
    <3>1. k \in Nat /\ at <= k /\ AreBytes(s, at, k + 1)
      BY <1>1 DEF AreBytes
    <3> HIDE DEF at, key
    <3> QED  BY <1>1, <2>3, <3>1, KeyFacts
  <2>6. KeyStatus(key) = "true" <=> TagInRange(key \div 8) /\ key % 8 \in WireType
    <3>1. key \div 8 \in 0 .. MaxTag
      BY <2>5, KeyAssumption
    <3> HIDE DEF key
    <3> QED  BY <3>1 DEF KeyStatus, TagInRange
  <2>7. KeyStatus(key) \in {"true", "invalid_tag", "unknown_wire_type"}
    BY DEF KeyStatus
  <2>8. CASE KeyStatus(key) = "true"
    <3> HIDE DEF key
    <3>1. /\ full.m_data = k + 1 /\ full.m_end = end
          /\ full.m_tag = key \div 8 /\ full.m_wire_type = key % 8
      BY <1>1, <2>3 DEF Object
    <3> HIDE DEF full, at, end
    <3>2. NextField(s, rd) = Result(full, "true")
      BY <2>4, <2>8
    <3>3. Positioned(s, full, at)
      BY <2>1, <2>3, <2>6, <2>8, <3>1 DEF Positioned
    <3> QED  BY <2>6, <2>8, <3>1, <3>2, <3>3 DEF Result, Malformed, at, end
  <2>9. CASE KeyStatus(key) # "true"
    <3>1. \A f : ~ Field(s, at, end, f)
      <4> SUFFICES ASSUME NEW f, Field(s, at, end, f) PROVE FALSE
        OBVIOUS
      <4>1. PICK m \in at .. end - 1 :
                /\ IsVarint(s, at, m) /\ TagInRange(KeyOf(s, at, m) \div 8)
                /\ ValueAt(s, KeyOf(s, at, m), m + 1, end, f)
        BY DEF Field
      <4>2. m = k
        <5>1. m \in Nat /\ k \in Nat
          BY <1>1
        <5> QED  BY <1>1, <2>1, <4>1, <5>1, OneVarint
      <4>3. TagInRange(key \div 8) /\ key % 8 \in WireType
        BY <2>3, <4>1, <4>2 DEF ValueAt, WireType
      <4> QED  BY <2>6, <2>9, <4>3
    <3> HIDE DEF key, read, full, at, end
    <3>2. NextField(s, rd).status # "true" /\ NextField(s, rd).status # "false"
      BY <2>4, <2>7, <2>9 DEF Result
    <3> QED  BY <1>5, <3>1, <3>2 DEF at, end
  <2> QED  BY <2>8, <2>9
<1> QED  BY <1>3, <1>4, <1>5

\* The two ways a function passes a field.
LEMMA PassesOne ==
    ASSUME NEW s, NEW rd, NEW at, NEW result, NEW from, NEW f, Field(s, at, rd.m_end, f),
           result.status = "ok", result.reader.m_data = f.to + 1, from = f.from
    PROVE  Passes(s, rd, at, result, from)
BY DEF Passes, Malformed

LEMMA PassesNone ==
    ASSUME NEW s, NEW rd, NEW at, NEW result, NEW from, \A f : ~ Field(s, at, rd.m_end, f),
           result.status # "ok"
    PROVE  Passes(s, rd, at, result, from)
BY DEF Passes

\* A varint value, read or skipped.
LEMMA VarintPasses ==
    ASSUME NEW s, NEW rd, NEW at \in Nat \ {0}, Over(s, rd), AreBytes(s, at, rd.m_end),
           Positioned(s, rd, at), rd.m_wire_type = VarintType
    PROVE  /\ Passes(s, rd, at, ReadVarint(s, rd), rd.m_data)
           /\ Passes(s, rd, at, PassVarint(s, rd), rd.m_data)
<1> DEFINE first == rd.m_data
           end == rd.m_end
           number == DecodeVarint(s, first, end)
           passed == SkipVarint(s, first, end)
<1>1. PICK key \in Nat :
        /\ rd.m_wire_type = key % 8
        /\ \A f : Field(s, at, end, f) <=> ValueAt(s, key, first, end, f)
  BY PositionedFacts
<1>2. rd \in Object /\ first \in Nat /\ end \in Nat /\ first <= end /\ AreBytes(s, first, end)
  BY DEF Over, Object
<1>3. number.status = passed.status /\ number.m_data = passed.m_data
  BY <1>2, SkipAgrees
<1>4. /\ ReadVarint(s, rd) = Result([rd EXCEPT !.m_data = number.m_data], number.status)
      /\ PassVarint(s, rd) = Result([rd EXCEPT !.m_data = number.m_data], number.status)
  BY <1>3 DEF ReadVarint, PassVarint
<1> HIDE DEF first, end
<1>5. CASE \E l \in first .. end - 1 : IsVarint(s, first, l)
  <2>1. PICK l \in first .. end - 1 : IsVarint(s, first, l)
    BY <1>5
  <2>2. number.status = "ok" /\ number.m_data = l + 1
    BY <1>2, <2>1, DecodeFinds DEF Found
  <2> DEFINE f == Piece(key, first, l)
  <2>3. Field(s, at, end, f)
    BY <1>1, <2>1 DEF ValueAt
  <2>4. f.from = first /\ f.to = l
    BY DEF Piece
  <2> HIDE DEF f, number
  <2>5. [rd EXCEPT !.m_data = number.m_data].m_data = l + 1
    BY <1>2, <2>2 DEF Object
  <2> DEFINE result == Result([rd EXCEPT !.m_data = number.m_data], number.status)
  <2>6. result.status = "ok" /\ result.reader.m_data = f.to + 1
    BY <2>2, <2>4, <2>5 DEF Result
  <2> HIDE DEF result
  <2>7. Passes(s, rd, at, result, rd.m_data)
    BY <2>3, <2>4, <2>6, PassesOne DEF first, end
  <2> QED  BY <1>4, <2>7 DEF result
<1>6. CASE ~ \E l \in first .. end - 1 : IsVarint(s, first, l)
  <2>1. number.status # "ok"
    BY <1>2, <1>6, DecodeMisses DEF Missed
  <2>2. \A f : ~ Field(s, at, end, f)
    BY <1>1, <1>6, Types DEF ValueAt
  <2> HIDE DEF number
  <2> QED  BY <1>4, <2>1, <2>2 DEF Passes, Result, end
<1> QED  BY <1>5, <1>6

\* A value of fixed size.
LEMMA FixedPasses ==
    ASSUME NEW s, NEW rd, NEW at \in Nat \ {0}, Over(s, rd), AreBytes(s, at, rd.m_end),
           Positioned(s, rd, at), rd.m_wire_type \in {Fixed32Type, Fixed64Type}
    PROVE  Passes(s, rd, at, SkipBytes(rd, FixedBytes(rd.m_wire_type)), rd.m_data)
<1> DEFINE first == rd.m_data
           end == rd.m_end
           size == FixedBytes(rd.m_wire_type)
           skip == SkipBytes(rd, size)
<1>1. PICK key \in Nat :
        /\ rd.m_wire_type = key % 8
        /\ \A f : Field(s, at, end, f) <=> ValueAt(s, key, first, end, f)
  BY PositionedFacts
<1>2. rd \in Object /\ first \in Nat /\ end \in Nat /\ size \in Nat
  BY FixedBytesFacts DEF Over, Object
<1>3. size = FixedSize(key % 8)
  BY <1>1 DEF FixedBytes, FixedSize
<1>4. \A f : Field(s, at, end, f) <=> first + size <= end /\ f = Piece(key, first, first + size - 1)
  BY <1>1, <1>3, Types DEF ValueAt
<1> HIDE DEF first, end, size
<1>5. CASE end - first < size
  <2>1. \A f : ~ Field(s, at, end, f)
    BY <1>2, <1>4, <1>5
  <2>2. skip.status = "end_of_buffer"
    BY <1>5 DEF SkipBytes, Result, first, end
  <2> HIDE DEF skip
  <2> QED  BY <2>1, <2>2 DEF Passes, end, first, size, skip
<1>6. CASE ~ (end - first < size)
  <2> DEFINE f == Piece(key, first, first + size - 1)
  <2>1. Field(s, at, end, f)
    BY <1>2, <1>4, <1>6
  <2>2. f.from = first /\ f.to + 1 = first + size
    BY <1>2 DEF Piece
  <2> HIDE DEF f
  <2>3. skip.status = "ok" /\ skip.reader.m_data = first + size
    BY <1>2, <1>6 DEF SkipBytes, Result, Object, first, end
  <2> HIDE DEF skip
  <2> QED  BY <2>1, <2>2, <2>3 DEF Passes, Malformed, end, first, size, skip
<1> QED  BY <1>5, <1>6

\* A length and the bytes it counts.
LEMMA LengthPasses ==
    ASSUME NEW s, NEW rd, NEW at \in Nat \ {0}, Over(s, rd), AreBytes(s, at, rd.m_end),
           Positioned(s, rd, at), rd.m_wire_type = LengthDelimitedType
    PROVE  Passes(s, rd, at, SkipLengthDelimited(s, rd),
                  DecodeVarint(s, rd.m_data, rd.m_end).m_data)
<1> DEFINE first == rd.m_data
           end == rd.m_end
           length == DecodeVarint(s, first, end)
           skip == SkipLengthDelimited(s, rd)
<1>1. PICK key \in Nat :
        /\ rd.m_wire_type = key % 8
        /\ \A f : Field(s, at, end, f) <=> ValueAt(s, key, first, end, f)
  BY PositionedFacts
<1>2. rd \in Object /\ first \in Nat /\ end \in Nat /\ first <= end /\ AreBytes(s, first, end)
  BY DEF Over, Object
<1>3. \A f : Field(s, at, end, f) <=>
        \E l \in first .. end - 1 :
            /\ IsVarint(s, first, l)
            /\ l + 1 + LengthType(Number(s, first, l)) <= end
            /\ f = Piece(key, l + 1, l + 1 + LengthType(Number(s, first, l)) - 1)
  BY <1>1, Types DEF ValueAt
<1>4. CASE \E l \in first .. end - 1 : IsVarint(s, first, l)
  <2>1. PICK l \in first .. end - 1 : IsVarint(s, first, l)
    BY <1>4
  <2> DEFINE size == LengthType(Number(s, first, l))
             behind == [rd EXCEPT !.m_data = l + 1]
  <2>2. l \in Nat /\ first <= l /\ AreBytes(s, first, l + 1)
    BY <1>2, <2>1 DEF AreBytes
  <2>3. length = Found(Number(s, first, l), l + 1)
    <3> HIDE DEF first, end
    <3> QED  BY <1>2, <2>1, DecodeFinds
  <2>4. length.status = "ok" /\ length.m_data = l + 1 /\ length.value = Number(s, first, l)
    <3> HIDE DEF length, first
    <3> QED  BY <2>3 DEF Found
  <2>5. skip = SkipBytes(behind, size)
    <3> HIDE DEF length
    <3> QED  BY <2>4 DEF SkipLengthDelimited, length
  <2>6. size \in Nat
    <3>1. Number(s, first, l) \in Nat
      <4> HIDE DEF first
      <4> QED  BY <1>2, <2>2, NumberFacts
    <3> HIDE DEF first
    <3> QED  BY <3>1, LengthFacts
  <2>7. behind \in Object /\ behind.m_data = l + 1 /\ behind.m_end = end
    BY <1>2, <2>2 DEF Object
  <2>8. \A m \in first .. end - 1 : IsVarint(s, first, m) => m = l
    <3> HIDE DEF first, end
    <3> QED  BY <1>2, <2>1, OneVarint
  <2>9. \A f : Field(s, at, end, f) <=>
            l + 1 + size <= end /\ f = Piece(key, l + 1, l + 1 + size - 1)
    <3> HIDE DEF first, end
    <3> QED  BY <1>3, <2>1, <2>8
  <2> HIDE DEF size, behind, first, end, length
  <2>10. CASE end - (l + 1) < size
    <3>1. \A f : ~ Field(s, at, end, f)
      BY <1>2, <2>2, <2>6, <2>9, <2>10
    <3>2. skip.status = "end_of_buffer"
      BY <2>5, <2>7, <2>10 DEF SkipBytes, Result
    <3> HIDE DEF skip
    <3> QED  BY <3>1, <3>2 DEF Passes, end, first, skip
  <2>11. CASE ~ (end - (l + 1) < size)
    <3> DEFINE f == Piece(key, l + 1, l + 1 + size - 1)
    <3>1. Field(s, at, end, f)
      BY <1>2, <2>2, <2>6, <2>9, <2>11
    <3>2. f.from = l + 1 /\ f.to + 1 = l + 1 + size
      BY <2>2, <2>6 DEF Piece
    <3> HIDE DEF f
    <3>3. skip.status = "ok" /\ skip.reader.m_data = l + 1 + size
      <4>1. skip = Result([behind EXCEPT !.m_data = @ + size, !.m_tag = TagAfterSkip(behind)], "ok")
        BY <2>5, <2>7, <2>11 DEF SkipBytes
      <4> DEFINE new == [behind EXCEPT !.m_data = @ + size, !.m_tag = TagAfterSkip(behind)]
      <4>2. new.m_data = behind.m_data + size
        BY <2>7 DEF Object
      <4> HIDE DEF new
      <4>3. skip = Result(new, "ok")
        BY <4>1 DEF new
      <4> QED  BY <2>7, <4>2, <4>3 DEF Result
    <3> HIDE DEF skip
    <3> QED  BY <2>4, <3>1, <3>2, <3>3 DEF Passes, Malformed, end, first, skip, length
  <2> QED  BY <2>10, <2>11
<1>5. CASE ~ \E l \in first .. end - 1 : IsVarint(s, first, l)
  <2>1. length.status # "ok"
    <3> HIDE DEF first, end
    <3> QED  BY <1>2, <1>5, DecodeMisses DEF Missed
  <2>2. \A f : ~ Field(s, at, end, f)
    BY <1>3, <1>5
  <2> HIDE DEF length
  <2>3. skip.status # "ok"
    BY <2>1 DEF SkipLengthDelimited, Result, length
  <2> HIDE DEF skip, first, end
  <2> QED  BY <2>2, <2>3 DEF Passes, skip, end
<1> QED  BY <1>4, <1>5

\* skip()
LEMMA SkipPasses ==
    ASSUME NEW s, NEW rd, NEW at \in Nat \ {0}, Over(s, rd), AreBytes(s, at, rd.m_end),
           Positioned(s, rd, at), rd.m_wire_type \in WireType
    PROVE  \E from : Passes(s, rd, at, SkipField(s, rd), from)
<1>1. CASE rd.m_wire_type = VarintType
  <2>1. SkipField(s, rd) = PassVarint(s, rd)
    BY <1>1 DEF SkipField, Fixed64Type, Fixed32Type, VarintType, LengthDelimitedType
  <2> QED  BY <1>1, <2>1, VarintPasses
<1>2. CASE rd.m_wire_type \in {Fixed32Type, Fixed64Type}
  <2>1. SkipField(s, rd) = SkipBytes(rd, FixedBytes(rd.m_wire_type))
    BY <1>2 DEF SkipField, Fixed64Type, Fixed32Type, VarintType, LengthDelimitedType
  <2> QED  BY <1>2, <2>1, FixedPasses
<1>3. CASE rd.m_wire_type = LengthDelimitedType
  <2>1. SkipField(s, rd) = SkipLengthDelimited(s, rd)
    BY <1>3 DEF SkipField, Fixed64Type, Fixed32Type, VarintType, LengthDelimitedType
  <2> QED  BY <1>3, <2>1, LengthPasses
<1> QED  BY <1>1, <1>2, <1>3 DEF WireType

-----------------------------------------------------------------------------
(* Fields behind fields.                                                    *)

LEMMA ChainExtend ==
    ASSUME NEW s, NEW i \in Nat, NEW j \in Nat, NEW end \in Nat, i <= j, AreBytes(s, i, end),
           Chain(s, i, j), NEW f, Field(s, j, end, f)
    PROVE  Chain(s, i, f.to + 1) /\ j < f.to + 1 /\ f.to + 1 <= end /\ f.to \in Nat
<1>1. AreBytes(s, j, end)
  BY DEF AreBytes
<1>2. j <= f.to /\ f.to < end /\ f.to \in Nat
  BY <1>1, FieldFacts DEF FieldRecord
<1>3. Chain(s, j, f.to + 1)
  BY <1>1, ChainOne
<1> DEFINE k == f.to + 1
<1>4. k \in Nat /\ j <= k /\ k <= end
  BY <1>2
<1> HIDE DEF k
<1>5. AreBytes(s, i, k)
  BY <1>4 DEF AreBytes
<1>6. Chain(s, i, k)
  BY <1>3, <1>4, <1>5, ChainJoin DEF k
<1> QED  BY <1>2, <1>6 DEF k

\* Fields up to a place where no field starts do not go on behind it.
LEMMA ChainEnds ==
    ASSUME NEW s, NEW i \in Nat, NEW j \in Nat, NEW end \in Nat, i <= j, j < end,
           AreBytes(s, i, end), Chain(s, i, j), \A f : ~ Field(s, j, end, f)
    PROVE  ~ Chain(s, i, end)
<1> SUFFICES ASSUME Chain(s, i, end) PROVE FALSE
  OBVIOUS
<1>1. Chain(s, j, end)
  BY ChainCut
<1>2. AreBytes(s, j, end)
  BY DEF AreBytes
<1> QED  BY <1>1, <1>2, ChainStep

\* Behind a field the next one starts at its end.
LEMMA NoneBetween ==
    ASSUME NEW s, NEW i \in Nat, NEW j \in Nat, NEW b \in Nat, NEW end \in Nat, i <= j, j < b,
           b <= end, AreBytes(s, i, end), Chain(s, i, j), Chain(s, i, b),
           NEW f, Field(s, j, end, f)
    PROVE  f.to + 1 <= b
<1>1. AreBytes(s, i, b) /\ AreBytes(s, j, b)
  BY DEF AreBytes
<1>2. Chain(s, j, b)
  BY <1>1, ChainCut
<1>3. PICK g : Field(s, j, b, g)
  BY <1>1, <1>2, ChainStep
<1>4. g = f
  BY <1>3, OneField
<1>5. f.to < b /\ f.to \in Nat
  BY <1>1, <1>3, <1>4, FieldFacts DEF FieldRecord
<1> QED  BY <1>5

-----------------------------------------------------------------------------
(* The inductive invariant, on top of Inv: what a reader has passed are      *)
(* fields, if it has a current field it is behind its key, and none of the   *)
(* fields a search has passed is one it looks for.                           *)

Upto(r) == IF current[r] = 0 THEN reader[r].m_data ELSE current[r]

Whole(r) ==
    r \notin strayed =>
        /\ begin[r] <= Upto(r) /\ Chain(data, begin[r], Upto(r))
        /\ current[r] # 0 => Positioned(data, reader[r], current[r])

Asked(f, sought) ==
    f.tag = sought.tag /\ (sought.type # UnknownType => f.type = sought.type)

Searched ==
    LET rd == reader[seeking.on] IN
    seeking # NULL =>
        /\ seeking.start \in Nat \ {0} /\ seeking.start <= rd.m_data
        /\ Chain(data, seeking.start, rd.m_data)
        /\ \A b \in seeking.start .. rd.m_data - 1 : \A f :
            Chain(data, seeking.start, b) /\ Field(data, b, rd.m_end, f) => ~ Asked(f, seeking)

\* A client that keeps the contract searches with readers it holds for.
Trusted == ~Misuse /\ seeking # NULL => seeking.on \notin strayed

\* Only bytes that are no message have made a call throw.
Refused ==
    ~Misuse /\ outcome.status \in Malformed =>
        /\ outcome.on \in Reader
        /\ ~ Chain(data, begin[outcome.on], reader[outcome.on].m_end)

\* After a getter its reader has no current field.
Consumed ==
    outcome.call \in Getters /\ outcome.status = "ok" =>
        outcome.on \in Reader /\ current[outcome.on] = 0

FieldsInv == (\A r \in Reader : Whole(r)) /\ Searched /\ Trusted /\ Refused /\ Consumed

\* What the steps below use of Inv.
LEMMA PlaceFacts ==
    ASSUME Inv, NEW r \in Reader
    PROVE  /\ reader[r] \in Object /\ Over(data, reader[r])
           /\ begin[r] \in Nat \ {0} /\ reader[r].m_data \in Nat \ {0} /\ reader[r].m_end \in Nat
           /\ begin[r] <= reader[r].m_data /\ reader[r].m_data <= reader[r].m_end
           /\ reader[r].m_end <= Len(data) + 1 /\ Len(data) \in Nat /\ data \in Seq(Byte)
           /\ \A i \in Nat \ {0} : AreBytes(data, i, reader[r].m_end)
           /\ current[r] \in Nat
<1>1. /\ reader[r] \in Object /\ Over(data, reader[r]) /\ Len(data) \in Nat
      /\ begin[r] \in Nat \ {0} /\ begin[r] <= reader[r].m_data
      /\ reader[r].m_data <= reader[r].m_end /\ reader[r].m_end <= Len(data) + 1
      /\ current[r] \in Nat
  BY InvFacts DEF Windows, InBounds
<1>2. reader[r].m_data \in Nat \ {0} /\ reader[r].m_end \in Nat
  BY <1>1 DEF Object
<1>3. data \in Seq(Byte)
  BY ReaderAssumption DEF Inv, Safe, TypeOK
<1>4. \A i \in Nat \ {0} : AreBytes(data, i, reader[r].m_end)
  BY <1>1, <1>2, <1>3, BytesFacts
<1> QED  BY <1>1, <1>2, <1>3, <1>4

\* A reader a step leaves alone.
LEMMA WholeKept ==
    ASSUME NEW r \in Reader, Whole(r), data' = data, reader'[r] = reader[r],
           current'[r] = current[r], begin'[r] = begin[r], r \in strayed => r \in strayed'
    PROVE  Whole(r)'
BY DEF Whole, Upto

\* A step of a call that is no search.
LEMMA NoSearch == seeking' = NULL => Searched' /\ Trusted'
BY DEF Searched, Trusted

LEMMA InitFields == Init => FieldsInv
<1> SUFFICES ASSUME Init PROVE FieldsInv
  OBVIOUS
<1>1. Default.m_data = 1
  BY DEF Default
<1>2. Chain(data, 1, 1)
  BY ChainNone
<1>3. \A r \in Reader : Whole(r)
  BY <1>1, <1>2 DEF Init, Whole, Upto
<1>4. outcome.call \notin Getters /\ outcome.status \notin Malformed
  BY DEF Init, Getters, Malformed
<1> QED  BY <1>3, <1>4 DEF Init, FieldsInv, Searched, Trusted, Refused, Consumed

\* A step of a call that ends well and is no getter.
LEMMA QuietStep ==
    ASSUME outcome'.status \notin Malformed, outcome'.call \notin Getters \/ outcome'.status # "ok",
           seeking' = NULL, \A r \in Reader : Whole(r)'
    PROVE  FieldsInv'
BY NoSearch DEF FieldsInv, Refused, Consumed

LEMMA ConstructFields ==
    ASSUME Inv, FieldsInv, NEW r \in Reader, Construct(r)
    PROVE  FieldsInv'
<1> DEFINE new == [Default EXCEPT !.m_data = 1, !.m_end = Len(data) + 1]
<1>1. /\ reader' = [reader EXCEPT ![r] = new] /\ current' = [current EXCEPT ![r] = 0]
      /\ begin' = [begin EXCEPT ![r] = 1] /\ strayed' = strayed \ {r}
      /\ UNCHANGED <<asserts, data, seeking>> /\ seeking = NULL
      /\ outcome'.status = "ok" /\ outcome'.call = "construct"
  BY DEF Construct, ConstructOver, Report, MayCall
<1>2. new.m_data = 1
  BY DEF Default
<1> HIDE DEF new
<1>3. ASSUME NEW q \in Reader PROVE Whole(q)'
  <2>1. Whole(q) /\ Windows /\ current \in [Reader -> 0 .. Len(data)]
    BY InvFacts DEF FieldsInv
  <2>2. CASE q # r
    BY <1>1, <2>1, <2>2, WholeKept DEF Windows
  <2>3. CASE q = r
    <3>1. reader'[q].m_data = 1 /\ current'[q] = 0 /\ begin'[q] = 1
      BY <1>1, <1>2, <2>1, <2>3 DEF Windows
    <3>2. Chain(data', 1, 1)
      BY ChainNone
    <3> QED  BY <3>1, <3>2 DEF Whole, Upto
  <2> QED  BY <2>2, <2>3
<1> QED  BY <1>1, <1>3, QuietStep DEF Malformed, Getters

LEMMA CopyFields ==
    ASSUME Inv, FieldsInv, NEW from \in Reader, NEW to \in Reader, Copy(from, to)
    PROVE  FieldsInv'
<1>1. /\ reader' = [reader EXCEPT ![to] = reader[from]]
      /\ current' = [current EXCEPT ![to] = current[from]]
      /\ begin' = [begin EXCEPT ![to] = begin[from]]
      /\ strayed' = IF from \in strayed THEN strayed \cup {to} ELSE strayed \ {to}
      /\ UNCHANGED <<asserts, data, seeking>> /\ seeking = NULL
      /\ outcome'.status = "ok" /\ outcome'.call = "copy"
  BY DEF Copy, Report, MayCall
<1>2. ASSUME NEW q \in Reader PROVE Whole(q)'
  <2>1. Whole(q) /\ Whole(from) /\ Windows /\ current \in [Reader -> 0 .. Len(data)]
    BY InvFacts DEF FieldsInv
  <2>2. CASE q # to
    BY <1>1, <2>1, <2>2, WholeKept DEF Windows
  <2>3. CASE q = to
    <3>1. /\ reader'[q] = reader[from] /\ current'[q] = current[from] /\ begin'[q] = begin[from]
          /\ data' = data /\ q \notin strayed' => from \notin strayed
      BY <1>1, <2>1, <2>3 DEF Windows
    <3> QED  BY <1>1, <2>1, <3>1 DEF Whole, Upto
  <2> QED  BY <2>2, <2>3
<1> QED  BY <1>1, <1>2, QuietStep DEF Malformed, Getters

LEMMA SwapFields ==
    ASSUME Inv, FieldsInv, NEW r \in Reader, NEW q \in Reader, SwapReaders(r, q)
    PROVE  FieldsInv'
<1>1. /\ reader' = [reader EXCEPT ![r] = reader[q], ![q] = reader[r]]
      /\ begin' = [begin EXCEPT ![r] = begin[q], ![q] = begin[r]]
      /\ current' = [current EXCEPT ![r] = current[q], ![q] = current[r]]
      /\ strayed' = {IF v = r THEN q ELSE IF v = q THEN r ELSE v : v \in strayed}
      /\ UNCHANGED <<asserts, data, seeking>> /\ seeking = NULL
      /\ outcome'.status = "ok" /\ outcome'.call = "swap" /\ r # q
  BY DEF SwapReaders, Report, MayCall
<1>2. ASSUME NEW v \in Reader PROVE Whole(v)'
  <2>1. PICK was \in Reader : was = IF v = r THEN q ELSE IF v = q THEN r ELSE v
    OBVIOUS
  <2>2. Whole(was) /\ Windows /\ current \in [Reader -> 0 .. Len(data)]
    BY InvFacts DEF FieldsInv
  <2>3. reader'[v] = reader[was] /\ current'[v] = current[was] /\ begin'[v] = begin[was]
    BY <1>1, <2>1, <2>2 DEF Windows
  <2>4. v \notin strayed' => was \notin strayed
    BY <1>1, <2>1
  <2> QED  BY <1>1, <2>2, <2>3, <2>4 DEF Whole, Upto
<1> QED  BY <1>1, <1>2, QuietStep DEF Malformed, Getters

LEMMA SeekFields ==
    ASSUME Inv, FieldsInv, NEW r \in Reader, NEW tag, NEW type, Seek(r, tag, type)
    PROVE  FieldsInv'
<1>1. /\ UNCHANGED <<asserts, data, reader, outcome, begin, current>>
      /\ seeking'.on = r /\ seeking'.start = reader[r].m_data
      /\ strayed' = IF AtKey(r) THEN strayed ELSE strayed \cup {r}
      /\ AtKey(r) \/ Misuse
  BY DEF Seek, Stray, MayCall
<1>2. ASSUME NEW q \in Reader PROVE Whole(q)'
  BY <1>1, WholeKept DEF FieldsInv
<1>3. Searched'
  <2> DEFINE at == reader[r].m_data
  <2>1. at \in Nat \ {0}
    BY PlaceFacts
  <2> HIDE DEF at
  <2>2. Chain(data', at, at) /\ at <= at /\ at .. at - 1 = {}
    BY <2>1, ChainNone
  <2>3. reader'[seeking'.on].m_data = at /\ seeking'.start = at
    BY <1>1 DEF at
  <2> QED  BY <2>1, <2>2, <2>3 DEF Searched
<1>4. Trusted'
  BY <1>1 DEF Trusted, AtKey
<1>5. Refused' /\ Consumed'
  BY <1>1 DEF FieldsInv, Refused, Consumed
<1> QED  BY <1>2, <1>3, <1>4, <1>5 DEF FieldsInv

LEMMA AbortFields ==
    ASSUME Inv, FieldsInv, NEW call, NEW r \in Reader, NEW inContract, NEW asserted,
           Abort(call, r, inContract, asserted)
    PROVE  FieldsInv'
<1>1. /\ UNCHANGED <<asserts, data, reader, seeking, begin, current, strayed>>
      /\ seeking = NULL /\ outcome'.status \in Aborted
  BY DEF Abort, Report, MayCall, Aborted
<1>2. ASSUME NEW q \in Reader PROVE Whole(q)'
  BY <1>1, WholeKept DEF FieldsInv
<1> QED  BY <1>1, <1>2, QuietStep DEF Malformed, Aborted

\* A call on a reader at a key that found a field, found none or threw.
LEMMA FoundFields ==
    ASSUME Inv, FieldsInv, NEW r \in Reader, NEW result, NEW inContract \in BOOLEAN,
           result = NextField(data, reader[r]),
           inContract => r \in strayed \/ current[r] = 0,
           ~Misuse => inContract /\ r \notin strayed,
           reader' = [reader EXCEPT ![r] = result.reader], FieldFound(r, result.status),
           Stray(r, inContract, result.status), outcome'.on = r, outcome'.call \notin Getters,
           outcome'.status = result.status, seeking' = NULL, UNCHANGED <<data, begin>>
    PROVE  FieldsInv'
<1> DEFINE at == reader[r].m_data
           end == reader[r].m_end
<1>1. /\ at \in Nat \ {0} /\ end \in Nat /\ begin[r] \in Nat \ {0} /\ begin[r] <= at /\ at <= end
      /\ AreBytes(data, begin[r], end) /\ reader[r] \in Object
  BY PlaceFacts
<1>2. /\ current' = [current EXCEPT ![r] = IF result.status = "true" THEN at ELSE 0]
      /\ strayed' = IF inContract /\ result.status \in {"ok", "true", "false"}
                    THEN strayed ELSE strayed \cup {r}
  BY DEF FieldFound, Stray
<1>3. /\ MovedOn(reader[r], result.reader)
      /\ result.status \in {"true", "false"} \cup Malformed
      /\ result.status = "false" => result.reader = reader[r]
  BY PlaceFacts, NextFieldFacts
<1>4. /\ result.status = "true" => Positioned(data, result.reader, at)
      /\ result.status \in Malformed => at # end /\ \A f : ~ Field(data, at, end, f)
  <2>1. Over(data, reader[r]) /\ reader[r].m_data > 0
    BY <1>1, PlaceFacts
  <2> QED  BY <2>1, NextFieldReads, SMTT(30)
<1>5. r \notin strayed /\ inContract => Chain(data, begin[r], at)
  BY DEF FieldsInv, Whole, Upto
<1>6. ASSUME NEW q \in Reader PROVE Whole(q)'
  <2>1. Whole(q) /\ Windows /\ current \in [Reader -> 0 .. Len(data)]
    BY InvFacts DEF FieldsInv
  <2>2. CASE q # r
    BY <1>2, <2>1, <2>2, WholeKept DEF Windows
  <2>3. CASE q = r
    <3> HIDE DEF at
    <3>1. reader'[r] = result.reader /\ begin'[r] = begin[r] /\ data' = data
          /\ current'[r] = IF result.status = "true" THEN at ELSE 0
      BY <1>2, <2>1 DEF Windows
    <3>2. r \notin strayed' => r \notin strayed /\ inContract /\ result.status \in {"true", "false"}
      BY <1>2, <1>3 DEF Malformed
    <3>3. r \notin strayed' => Upto(r)' = at
      BY <1>1, <1>3, <3>1, <3>2 DEF Upto, at
    <3> QED  BY <1>1, <1>4, <1>5, <2>3, <3>1, <3>2, <3>3 DEF Whole
  <2> QED  BY <2>2, <2>3
<1>7. Refused'
  <2> SUFFICES ASSUME ~Misuse, result.status \in Malformed
               PROVE  ~ Chain(data, begin[r], reader'[r].m_end)
    BY DEF Refused
  <2>1. reader'[r].m_end = end
    BY <1>3, InvFacts DEF MovedOn, Windows
  <2>2. Chain(data, begin[r], at) /\ at # end /\ \A f : ~ Field(data, at, end, f)
    BY <1>4, <1>5
  <2> HIDE DEF at, end
  <2>3. at < end
    BY <1>1, <2>2
  <2> QED  BY <1>1, <2>1, <2>2, <2>3, ChainEnds
<1> QED  BY <1>6, <1>7, NoSearch DEF FieldsInv, Consumed

LEMMA AdvanceFields ==
    ASSUME Inv, FieldsInv, NEW r \in Reader, Advance(r)
    PROVE  FieldsInv'
<1> DEFINE next == NextField(data, reader[r])
<1>1. /\ reader' = [reader EXCEPT ![r] = next.reader] /\ FieldFound(r, next.status)
      /\ Stray(r, AtKey(r), next.status) /\ outcome'.status = next.status
      /\ outcome'.on = r /\ outcome'.call = "next"
      /\ UNCHANGED <<data, begin>> /\ seeking' = NULL
      /\ AtKey(r) \/ Misuse
  BY DEF Advance, Report, MayCall
<1>2. (AtKey(r) => r \in strayed \/ current[r] = 0) /\ (~Misuse => AtKey(r) /\ r \notin strayed)
  BY <1>1 DEF AtKey
<1>3. AtKey(r) \in BOOLEAN
  BY DEF AtKey
<1> HIDE DEF next
<1>4. next = NextField(data, reader[r]) /\ outcome'.call \notin Getters
  BY <1>1 DEF next, Getters
<1> QED  BY <1>1, <1>2, <1>3, <1>4, FoundFields

\* The parts of one turn of the loop.
SeekNext == NextField(data, reader[seeking.on])
SeekSkip == SkipField(data, SeekNext.reader)
SeekFound == SeekNext.status = "true" /\ Matches(SeekNext.reader, seeking)

LEMMA SeekCases ==
    ASSUME Inv, SeekStep
    PROVE  LET r == seeking.on IN
           /\ r \in Reader /\ seeking # NULL /\ UNCHANGED <<data, begin>>
           /\ \/ /\ SeekNext.status # "true" \/ SeekFound
                 /\ reader' = [reader EXCEPT ![r] = SeekNext.reader]
                 /\ seeking' = NULL /\ FieldFound(r, SeekNext.status)
                 /\ Stray(r, TRUE, SeekNext.status)
                 /\ Report("next(tag)", r, SeekNext.status, NoBytes)
              \/ /\ SeekNext.status = "true" /\ ~ SeekFound /\ SeekSkip.status # "ok"
                 /\ reader' = [reader EXCEPT ![r] = SeekSkip.reader]
                 /\ seeking' = NULL /\ FieldFound(r, SeekSkip.status)
                 /\ Stray(r, TRUE, SeekSkip.status)
                 /\ Report("next(tag)", r, SeekSkip.status, NoBytes)
              \/ /\ SeekNext.status = "true" /\ ~ SeekFound /\ SeekSkip.status = "ok"
                 /\ reader' = [reader EXCEPT ![r] = SeekSkip.reader]
                 /\ UNCHANGED <<seeking, current, outcome, strayed>>
<1> DEFINE r == seeking.on
           last == IF SeekNext.status # "true" \/ SeekFound THEN SeekNext ELSE SeekSkip
           again == SeekNext.status = "true" /\ ~SeekFound /\ SeekSkip.status = "ok"
<1>1. /\ seeking # NULL /\ UNCHANGED <<asserts, data, begin>>
      /\ reader' = [reader EXCEPT ![r] = last.reader]
      /\ IF again THEN UNCHANGED <<seeking, current, outcome, strayed>>
         ELSE /\ seeking' = NULL
              /\ FieldFound(r, last.status) /\ Stray(r, TRUE, last.status)
              /\ Report("next(tag)", r, last.status, NoBytes)
  BY Zenon DEF SeekStep, SeekNext, SeekSkip, SeekFound
<1>2. r \in Reader
  BY <1>1 DEF Inv, Safe, TypeOK
<1>3. CASE SeekNext.status # "true" \/ SeekFound
  BY <1>1, <1>2, <1>3
<1>4. CASE SeekNext.status = "true" /\ ~ SeekFound
  BY <1>1, <1>2, <1>4
<1> QED  BY <1>3, <1>4

\* The field one turn passes, or fails to pass.
LEMMA TurnFacts ==
    ASSUME Inv, NEW r \in Reader, r = seeking.on, SeekNext.status = "true"
    PROVE  LET at == reader[r].m_data
               end == reader[r].m_end
           IN /\ SeekSkip.status = "ok" =>
                  \E f : /\ Field(data, at, end, f) /\ SeekSkip.reader.m_data = f.to + 1
                         /\ f.tag = SeekNext.reader.m_tag /\ f.type = SeekNext.reader.m_wire_type
              /\ SeekSkip.status # "ok" => at # end /\ \A f : ~ Field(data, at, end, f)
              /\ MovedOn(reader[r], SeekSkip.reader)
              /\ SeekSkip.status \in ReadStatus
<1> DEFINE rd == reader[r]
           at == rd.m_data
           end == rd.m_end
           new == SeekNext.reader
<1>1. /\ Over(data, rd) /\ at \in Nat \ {0} /\ end \in Nat /\ AreBytes(data, at, end)
  BY PlaceFacts
<1>2. SeekNext = NextField(data, rd)
  BY DEF SeekNext
<1>3. MovedOn(rd, new) /\ at # end
  BY <1>1, <1>2, NextFieldFacts
<1>4. Positioned(data, new, at) /\ new.m_wire_type \in WireType
  BY <1>1, <1>2, NextFieldReads
<1>5. Over(data, new) /\ new.m_end = end
  BY <1>1, <1>3, MovedOnOver DEF MovedOn
<1>6. SeekSkip = SkipField(data, new)
  BY DEF SeekSkip
<1>7. MovedOn(new, SeekSkip.reader) /\ SeekSkip.status \in ReadStatus
  BY <1>5, <1>6, SkipFieldFacts
<1>8. MovedOn(rd, SeekSkip.reader)
  BY <1>1, <1>3, <1>7, MovedOnOver
<1> HIDE DEF new, at, end, rd
<1>9. \E from : Passes(data, new, at, SeekSkip, from)
  BY <1>1, <1>4, <1>5, <1>6, SkipPasses
<1>10. \A f : Field(data, at, end, f) => f.tag = new.m_tag /\ f.type = new.m_wire_type
  BY <1>1, <1>4, <1>5, FieldTyped
<1>11. SeekSkip.status = "ok" =>
        \E f : /\ Field(data, at, end, f) /\ SeekSkip.reader.m_data = f.to + 1
               /\ f.tag = new.m_tag /\ f.type = new.m_wire_type
  BY <1>5, <1>9, <1>10 DEF Passes
<1>12. SeekSkip.status # "ok" => \A f : ~ Field(data, at, end, f)
  BY <1>5, <1>7, <1>9 DEF Passes, ReadStatus, Malformed
<1> QED  BY <1>3, <1>7, <1>8, <1>11, <1>12 DEF new, at, end, rd

LEMMA SeekStepFields ==
    ASSUME Inv, FieldsInv, SeekStep
    PROVE  FieldsInv'
<1> DEFINE r == seeking.on
           rd == reader[r]
           at == rd.m_data
           end == rd.m_end
<1>1. r \in Reader /\ seeking # NULL /\ UNCHANGED <<data, begin>>
  BY SeekCases
<1>2. (r \in strayed \/ current[r] = 0) /\ (~Misuse => r \notin strayed)
  BY <1>1 DEF Inv, FieldsInv, Trusted
<1>3. CASE /\ SeekNext.status # "true" \/ SeekFound
           /\ reader' = [reader EXCEPT ![r] = SeekNext.reader]
           /\ seeking' = NULL /\ FieldFound(r, SeekNext.status)
           /\ Stray(r, TRUE, SeekNext.status)
           /\ Report("next(tag)", r, SeekNext.status, NoBytes)
  <2>1. /\ SeekNext = NextField(data, rd) /\ outcome'.call \notin Getters
        /\ outcome'.on = r /\ outcome'.status = SeekNext.status
    BY <1>3 DEF SeekNext, Report, Getters
  <2> HIDE DEF r
  <2> QED  BY <1>1, <1>2, <1>3, <2>1, FoundFields
<1>4. /\ at \in Nat \ {0} /\ end \in Nat /\ begin[r] \in Nat \ {0} /\ begin[r] <= at /\ at <= end
      /\ \A i \in Nat \ {0} : AreBytes(data, i, end)
  BY <1>1, PlaceFacts
<1>5. /\ Windows /\ current \in [Reader -> 0 .. Len(data)]
      /\ \A q \in Reader : Whole(q)
  BY InvFacts DEF FieldsInv
<1>6. r \notin strayed => Chain(data, begin[r], at)
  BY <1>1, <1>2, <1>5 DEF Whole, Upto
<1>7. CASE /\ SeekNext.status = "true" /\ ~ SeekFound /\ SeekSkip.status # "ok"
           /\ reader' = [reader EXCEPT ![r] = SeekSkip.reader]
           /\ seeking' = NULL /\ FieldFound(r, SeekSkip.status)
           /\ Stray(r, TRUE, SeekSkip.status)
           /\ Report("next(tag)", r, SeekSkip.status, NoBytes)
  <2>1. /\ at # end /\ \A f : ~ Field(data, at, end, f)
        /\ SeekSkip.status \in {"end_of_buffer", "varint_too_long"}
        /\ MovedOn(rd, SeekSkip.reader)
    BY <1>1, <1>7, TurnFacts DEF ReadStatus
  <2>2. /\ strayed' = strayed \cup {r} /\ outcome'.call = "next(tag)"
        /\ current' = [current EXCEPT ![r] = 0] /\ outcome'.on = r
    BY <1>7, <2>1 DEF Stray, Report, FieldFound
  <2>3. ASSUME NEW q \in Reader PROVE Whole(q)'
    <3>1. CASE q # r
      BY <1>1, <1>5, <1>7, <2>2, <3>1, WholeKept DEF Windows
    <3>2. CASE q = r
      BY <2>2, <3>2 DEF Whole
    <3> QED  BY <3>1, <3>2
  <2>4. Refused'
    <3>1. reader'[r].m_end = end
      BY <1>1, <1>5, <1>7, <2>1 DEF MovedOn, Windows
    <3>2. ~Misuse => Chain(data, begin[r], at)
      BY <1>2, <1>6
    <3> HIDE DEF at, end, r
    <3>3. at < end
      BY <1>4, <2>1
    <3>4. ~Misuse => ~ Chain(data, begin[r], end)
      BY <1>4, <2>1, <3>2, <3>3, ChainEnds
    <3> QED  BY <1>1, <2>2, <3>1, <3>4 DEF Refused
  <2>5. Consumed'
    BY <2>2 DEF Consumed, Getters
  <2> QED  BY <1>7, <2>3, <2>4, <2>5, NoSearch DEF FieldsInv
<1>8. CASE /\ SeekNext.status = "true" /\ ~ SeekFound /\ SeekSkip.status = "ok"
           /\ reader' = [reader EXCEPT ![r] = SeekSkip.reader]
           /\ UNCHANGED <<seeking, current, outcome, strayed>>
  <2>1. PICK f : /\ Field(data, at, end, f) /\ SeekSkip.reader.m_data = f.to + 1
                 /\ f.tag = SeekNext.reader.m_tag /\ f.type = SeekNext.reader.m_wire_type
    BY <1>1, <1>8, TurnFacts
  <2>2. MovedOn(rd, SeekSkip.reader)
    BY <1>1, <1>8, TurnFacts
  <2>3. ~ Asked(f, seeking)
    BY <1>8, <2>1 DEF Asked, SeekFound, Matches
  <2>4. reader'[r].m_data = f.to + 1 /\ reader'[r].m_end = end
    BY <1>1, <1>5, <1>8, <2>1, <2>2 DEF MovedOn, Windows
  <2>5. ASSUME NEW q \in Reader PROVE Whole(q)'
    <3>1. CASE q # r
      BY <1>1, <1>5, <1>8, <3>1, WholeKept DEF Windows
    <3>2. CASE q = r
      <4>1. /\ r \notin strayed' => r \notin strayed /\ current'[r] = 0
            /\ begin'[r] = begin[r] /\ data' = data
        BY <1>1, <1>2, <1>8
      <4> HIDE DEF at, end, r
      <4>2. r \notin strayed => Chain(data, begin[r], f.to + 1) /\ begin[r] <= f.to + 1
        BY <1>4, <1>6, <2>1, ChainExtend
      <4> QED  BY <2>4, <3>2, <4>1, <4>2 DEF Whole, Upto
    <3> QED  BY <3>1, <3>2
  <2>6. Searched'
    <3> DEFINE start == seeking.start
               new == f.to + 1
    <3>1. /\ start \in Nat \ {0} /\ start <= at /\ Chain(data, start, at)
          /\ \A b \in start .. at - 1 : \A g :
                Chain(data, start, b) /\ Field(data, b, end, g) => ~ Asked(g, seeking)
      BY <1>1 DEF FieldsInv, Searched
    <3> HIDE DEF at, end, r, start
    <3>2. Chain(data, start, new) /\ start <= new /\ f.to \in Nat /\ new <= end
      BY <1>4, <2>1, <3>1, ChainExtend
    <3>3. ASSUME NEW b \in start .. new - 1, NEW g,
                 Chain(data, start, b), Field(data, b, end, g)
          PROVE  ~ Asked(g, seeking)
      <4>1. CASE b < at
        BY <1>4, <3>1, <3>3, <4>1
      <4>2. CASE b = at
        <5>1. g = f
          BY <1>4, <2>1, <3>3, <4>2, OneField
        <5> QED  BY <2>3, <5>1
      <4>3. CASE at < b
        <5>1. b \in Nat /\ b < new /\ b <= end
          BY <1>4, <3>1, <3>2
        <5>2. f.to + 1 <= b
          BY <1>4, <2>1, <3>1, <3>3, <4>3, <5>1, NoneBetween
        <5> QED  BY <3>2, <5>1, <5>2
      <4> QED  BY <1>4, <3>1, <4>1, <4>2, <4>3
    <3>4. /\ reader'[seeking'.on].m_data = new /\ reader'[seeking'.on].m_end = end
          /\ seeking' = seeking /\ seeking'.start = start /\ data' = data
      BY <1>1, <1>8, <2>4 DEF start, r
    <3> HIDE DEF new
    <3> QED  BY <3>1, <3>2, <3>3, <3>4 DEF Searched
  <2>7. Trusted' /\ Consumed'
    BY <1>8 DEF FieldsInv, Trusted, Consumed
  <2>8. Refused'
    <3>1. \A q \in Reader : reader'[q].m_end = reader[q].m_end
      BY <1>5, <1>8, <2>4 DEF Windows
    <3> QED  BY <1>1, <1>8, <3>1 DEF FieldsInv, Refused
  <2> QED  BY <2>5, <2>6, <2>7, <2>8 DEF FieldsInv
<1> QED  BY <1>3, <1>7, <1>8, SeekCases

\* A reader behind the key of its current field.
LEMMA AtValueFacts ==
    ASSUME Inv, FieldsInv, NEW r \in Reader, r \notin strayed, current[r] # 0
    PROVE  /\ current[r] \in Nat \ {0} /\ Positioned(data, reader[r], current[r])
           /\ Over(data, reader[r]) /\ AreBytes(data, current[r], reader[r].m_end)
           /\ begin[r] <= current[r] /\ Chain(data, begin[r], current[r])
           /\ current[r] < reader[r].m_data
<1>1. /\ current[r] \in Nat \ {0} /\ Over(data, reader[r])
      /\ AreBytes(data, current[r], reader[r].m_end)
  BY PlaceFacts
<1>2. /\ Positioned(data, reader[r], current[r])
      /\ begin[r] <= current[r] /\ Chain(data, begin[r], current[r])
  BY DEF FieldsInv, Whole, Upto
<1>3. current[r] < reader[r].m_data
  BY <1>1, <1>2, PositionedFacts
<1> QED  BY <1>1, <1>2, <1>3

\* A call that consumes the current field with that result; a getter returns the
\* bytes from the place where the value starts.
Reads(call, r, types, result) ==
    \E asserted, from, start :
        /\ Consume(call, r, types, asserted, result, from) /\ UNCHANGED begin
        /\ MovedOn(reader[r], result.reader) /\ result.status \in {"ok"} \cup Exception
        /\ AtValue(r, types) => Passes(data, reader[r], current[r], result, start)
        /\ call \in Getters => start = from

LEMMA ReadsFields ==
    ASSUME Inv, FieldsInv, NEW r \in Reader, NEW call, NEW types, NEW result,
           Reads(call, r, types, result)
    PROVE  FieldsInv'
<1> DEFINE at == current[r]
           end == reader[r].m_end
           i == begin[r]
<1>1. PICK asserted, from, start :
        /\ Consume(call, r, types, asserted, result, from) /\ UNCHANGED begin
        /\ MovedOn(reader[r], result.reader) /\ result.status \in {"ok"} \cup Exception
        /\ AtValue(r, types) => Passes(data, reader[r], at, result, start)
  BY DEF Reads
<1>2. /\ reader' = [reader EXCEPT ![r] = result.reader] /\ current' = [current EXCEPT ![r] = 0]
      /\ UNCHANGED <<asserts, data, seeking>> /\ seeking = NULL
      /\ strayed' = IF AtValue(r, types) /\ result.status \in {"ok", "true", "false"}
                    THEN strayed ELSE strayed \cup {r}
      /\ outcome'.status = result.status /\ outcome'.on = r
      /\ AtValue(r, types) \/ Misuse
  BY <1>1 DEF Consume, Stray, Report, MayCall
<1>3. Windows /\ current \in [Reader -> 0 .. Len(data)] /\ \A q \in Reader : Whole(q)
  BY InvFacts DEF FieldsInv
<1>4. AtValue(r, types) =>
        /\ at \in Nat \ {0} /\ i <= at /\ Chain(data, i, at) /\ at < end
        /\ Passes(data, reader[r], at, result, start)
  <2> SUFFICES ASSUME AtValue(r, types)
               PROVE  /\ at \in Nat \ {0} /\ i <= at /\ Chain(data, i, at) /\ at < end
                      /\ Passes(data, reader[r], at, result, start)
    OBVIOUS
  <2>1. at \in Nat \ {0} /\ i <= at /\ Chain(data, i, at) /\ at < reader[r].m_data
    BY AtValueFacts DEF AtValue
  <2>2. reader[r].m_data <= end /\ reader[r].m_data \in Nat /\ end \in Nat
    BY PlaceFacts
  <2> QED  BY <1>1, <2>1, <2>2
<1>5. i \in Nat \ {0} /\ end \in Nat /\ AreBytes(data, i, end)
  BY PlaceFacts
<1>6. reader'[r] = result.reader /\ result.reader.m_end = end
  BY <1>1, <1>2, <1>3 DEF Windows, MovedOn
<1>7. ASSUME NEW q \in Reader PROVE Whole(q)'
  <2>1. CASE q # r
    BY <1>1, <1>2, <1>3, <2>1, WholeKept DEF Windows
  <2>2. CASE q = r
    <3>1. r \notin strayed' => AtValue(r, types) /\ result.status = "ok"
      BY <1>1, <1>2 DEF Exception, Malformed
    <3>2. current'[r] = 0 /\ begin'[r] = i /\ data' = data
      BY <1>1, <1>2, <1>3
    <3>3. r \notin strayed' =>
            i <= result.reader.m_data /\ Chain(data, i, result.reader.m_data)
      <4> SUFFICES ASSUME AtValue(r, types), result.status = "ok"
                   PROVE  i <= result.reader.m_data /\ Chain(data, i, result.reader.m_data)
        BY <3>1
      <4>1. PICK f : Field(data, at, end, f) /\ result.reader.m_data = f.to + 1
        BY <1>4 DEF Passes
      <4> HIDE DEF at, end, i
      <4>2. Chain(data, i, f.to + 1) /\ at < f.to + 1 /\ f.to \in Nat
        BY <1>4, <1>5, <4>1, ChainExtend
      <4> QED  BY <1>4, <1>5, <4>1, <4>2
    <3> QED  BY <1>6, <2>2, <3>2, <3>3 DEF Whole, Upto
  <2> QED  BY <2>1, <2>2
<1>8. Refused'
  <2> SUFFICES ASSUME ~Misuse, result.status \in Malformed
               PROVE  ~ Chain(data', begin'[r], reader'[r].m_end)
    BY <1>2 DEF Refused
  <2>1. Chain(data, i, at) /\ i <= at /\ at < end /\ at \in Nat
        /\ \A f : ~ Field(data, at, end, f)
    BY <1>2, <1>4 DEF Passes
  <2>2. data' = data /\ begin'[r] = i /\ reader'[r].m_end = end
    BY <1>1, <1>2, <1>6
  <2> HIDE DEF at, end, i
  <2> QED  BY <1>5, <2>1, <2>2, ChainEnds
<1>9. Consumed'
  BY <1>2, <1>3 DEF Consumed
<1> QED  BY <1>2, <1>7, <1>8, <1>9, NoSearch DEF FieldsInv

LEMMA SkipReads ==
    ASSUME Inv, FieldsInv, NEW r \in Reader, Skip(r)
    PROVE  Reads("skip", r, WireType, SkipField(data, reader[r]))
<1> DEFINE skip == SkipField(data, reader[r])
<1>1. /\ Consume("skip", r, WireType, TagHolds(r), skip, reader[r].m_data)
      /\ UNCHANGED begin
  BY DEF Skip
<1>2. MovedOn(reader[r], skip.reader) /\ skip.status \in {"ok"} \cup Exception
  BY InvFacts, SkipFieldFacts DEF ReadStatus, Exception, Malformed
<1>3. AtValue(r, WireType) => \E start : Passes(data, reader[r], current[r], skip, start)
  BY AtValueFacts, SkipPasses DEF AtValue
<1>4. "skip" \notin Getters
  BY DEF Getters
<1> HIDE DEF skip
<1> QED  BY <1>1, <1>2, <1>3, <1>4 DEF Reads, skip

LEMMA GetVarintReads ==
    ASSUME Inv, FieldsInv, NEW r \in Reader, GetVarint(r)
    PROVE  Reads("get_varint", r, {VarintType}, ReadVarint(data, reader[r]))
<1> DEFINE read == ReadVarint(data, reader[r])
<1>1. /\ Consume("get_varint", r, {VarintType}, TypeHolds(r), read, reader[r].m_data)
      /\ UNCHANGED begin
  BY DEF GetVarint
<1>2. MovedOn(reader[r], read.reader) /\ read.status \in {"ok"} \cup Exception
  BY InvFacts, ReadVarintFacts DEF ReadStatus, Exception, Malformed
<1>3. AtValue(r, {VarintType}) => Passes(data, reader[r], current[r], read, reader[r].m_data)
  BY AtValueFacts, VarintPasses DEF AtValue
<1> HIDE DEF read
<1> QED  BY <1>1, <1>2, <1>3 DEF Reads, read

LEMMA GetBoolReads ==
    ASSUME Inv, FieldsInv, NEW r \in Reader, GetBool(r)
    PROVE  Reads("get_bool", r, {VarintType}, PassVarint(data, reader[r]))
<1> DEFINE pass == PassVarint(data, reader[r])
<1>1. /\ Consume("get_bool", r, {VarintType}, TagAndTypeHold(r, {VarintType}),
                 pass, reader[r].m_data)
      /\ UNCHANGED begin
  BY DEF GetBool
<1>2. MovedOn(reader[r], pass.reader) /\ pass.status \in {"ok"} \cup Exception
  BY InvFacts, PassVarintFacts DEF ReadStatus, Exception, Malformed
<1>3. AtValue(r, {VarintType}) => Passes(data, reader[r], current[r], pass, reader[r].m_data)
  BY AtValueFacts, VarintPasses DEF AtValue
<1> HIDE DEF pass
<1> QED  BY <1>1, <1>2, <1>3 DEF Reads, pass

LEMMA GetFixedReads ==
    ASSUME Inv, FieldsInv, NEW r \in Reader, NEW type \in {Fixed32Type, Fixed64Type},
           GetFixed(r, type)
    PROVE  Reads("get_fixed", r, {type}, SkipBytes(reader[r], FixedBytes(type)))
<1> DEFINE skip == SkipBytes(reader[r], FixedBytes(type))
<1>1. /\ Consume("get_fixed", r, {type}, TagAndTypeHold(r, {type}), skip, reader[r].m_data)
      /\ UNCHANGED begin
  BY DEF GetFixed
<1>2. reader[r] \in Object /\ reader[r].m_data <= reader[r].m_end /\ FixedBytes(type) \in Nat
  BY InvFacts, FixedBytesFacts DEF Over
<1>3. MovedOn(reader[r], skip.reader) /\ skip.status \in {"ok"} \cup Exception
  BY <1>2, SkipBytesFacts DEF Exception, Malformed
<1>4. AtValue(r, {type}) => Passes(data, reader[r], current[r], skip, reader[r].m_data)
  <2> SUFFICES ASSUME AtValue(r, {type})
               PROVE  Passes(data, reader[r], current[r], skip, reader[r].m_data)
    OBVIOUS
  <2>1. reader[r].m_wire_type = type /\ r \notin strayed /\ current[r] # 0
    BY DEF AtValue
  <2> QED  BY <2>1, AtValueFacts, FixedPasses
<1> HIDE DEF skip
<1> QED  BY <1>1, <1>3, <1>4 DEF Reads, skip

\* The getters of a length-delimited value.
LEMMA ViewPasses ==
    ASSUME Inv, FieldsInv, NEW r \in Reader, AtValue(r, {LengthDelimitedType})
    PROVE  Passes(data, reader[r], current[r], SkipLengthDelimited(data, reader[r]),
                  PayloadFrom(r))
BY AtValueFacts, LengthPasses DEF AtValue, PayloadFrom

LEMMA GetViewReads ==
    ASSUME Inv, FieldsInv, NEW r \in Reader, GetView(r)
    PROVE  Reads("get_view", r, {LengthDelimitedType}, SkipLengthDelimited(data, reader[r]))
<1> DEFINE view == SkipLengthDelimited(data, reader[r])
<1>1. MovedOn(reader[r], view.reader) /\ view.status \in {"ok"} \cup Exception
  BY ViewFacts
<1>2. /\ Consume("get_view", r, {LengthDelimitedType}, TagAndTypeHold(r, {LengthDelimitedType}),
                 view, PayloadFrom(r))
      /\ UNCHANGED begin
  BY DEF GetView
<1>3. AtValue(r, {LengthDelimitedType}) =>
        Passes(data, reader[r], current[r], view, PayloadFrom(r))
  BY ViewPasses
<1> HIDE DEF view
<1> QED  BY <1>1, <1>2, <1>3 DEF Reads, view

LEMMA GetPackedReads ==
    ASSUME Inv, FieldsInv, NEW r \in Reader, GetPacked(r)
    PROVE  Reads("get_packed", r, {LengthDelimitedType}, SkipLengthDelimited(data, reader[r]))
<1> DEFINE view == SkipLengthDelimited(data, reader[r])
<1>1. MovedOn(reader[r], view.reader) /\ view.status \in {"ok"} \cup Exception
  BY ViewFacts
<1>2. /\ Consume("get_packed", r, {LengthDelimitedType}, TagHolds(r), view, PayloadFrom(r))
      /\ UNCHANGED begin
  BY DEF GetPacked
<1>3. AtValue(r, {LengthDelimitedType}) =>
        Passes(data, reader[r], current[r], view, PayloadFrom(r))
  BY ViewPasses
<1> HIDE DEF view
<1> QED  BY <1>1, <1>2, <1>3 DEF Reads, view

LEMMA GetStringThrowsReads ==
    ASSUME Inv, FieldsInv, NEW r \in Reader, GetStringThrows(r)
    PROVE  Reads("get_string", r, {LengthDelimitedType},
                 Result(SkipLengthDelimited(data, reader[r]).reader, "bad_alloc"))
<1> DEFINE view == SkipLengthDelimited(data, reader[r])
           failed == Result(view.reader, "bad_alloc")
<1>1. MovedOn(reader[r], view.reader)
  BY ViewFacts
<1>2. /\ Consume("get_string", r, {LengthDelimitedType},
                 TagAndTypeHold(r, {LengthDelimitedType}), failed, PayloadFrom(r))
      /\ UNCHANGED begin
  BY DEF GetStringThrows
<1>3. failed.reader = view.reader /\ failed.status = "bad_alloc"
  BY DEF Result
<1> HIDE DEF view, failed
<1>4. Passes(data, reader[r], current[r], failed, PayloadFrom(r))
  BY <1>3 DEF Passes, Malformed
<1> QED  BY <1>1, <1>2, <1>3, <1>4 DEF Reads, Exception, failed, view

LEMMA GetPackedFixedReads ==
    ASSUME Inv, FieldsInv, NEW r \in Reader, NEW size, GetPackedFixed(r, size)
    PROVE  Reads("get_packed_fixed", r, {LengthDelimitedType}, PackedFixed(r, size))
<1> DEFINE view == SkipLengthDelimited(data, reader[r])
           fixed == PackedFixed(r, size)
<1>1. MovedOn(reader[r], view.reader) /\ view.status \in {"ok"} \cup Exception
  BY ViewFacts
<1>2. /\ Consume("get_packed_fixed", r, {LengthDelimitedType}, TagHolds(r), fixed,
                 PayloadFrom(r))
      /\ UNCHANGED begin
  BY DEF GetPackedFixed
<1>3. fixed = view \/ fixed = Result(view.reader, "invalid_length")
  BY DEF PackedFixed
<1>4. AtValue(r, {LengthDelimitedType}) =>
        Passes(data, reader[r], current[r], view, PayloadFrom(r))
  BY ViewPasses
<1> HIDE DEF view, fixed
<1>5. MovedOn(reader[r], fixed.reader) /\ fixed.status \in {"ok"} \cup Exception
  BY <1>1, <1>3 DEF Result, Exception
<1>6. AtValue(r, {LengthDelimitedType}) =>
        Passes(data, reader[r], current[r], fixed, PayloadFrom(r))
  BY <1>3, <1>4 DEF Result, Passes, Malformed
<1> QED  BY <1>2, <1>5, <1>6 DEF Reads, fixed

\* The child is a new reader without a current field.
LEMMA GetMessageFields ==
    ASSUME Inv, FieldsInv, NEW r \in Reader, NEW child \in Reader, GetMessage(r, child)
    PROVE  FieldsInv'
<1> DEFINE view == SkipLengthDelimited(data, reader[r])
           from == PayloadFrom(r)
           nested == [Default EXCEPT !.m_data = from, !.m_end = view.reader.m_data]
           held == AtValue(r, {LengthDelimitedType})
<1>1. /\ view.status = "ok" /\ seeking = NULL
      /\ reader' = [reader EXCEPT ![r] = view.reader, ![child] = nested]
      /\ begin' = [begin EXCEPT ![child] = from]
      /\ current' = [current EXCEPT ![r] = 0, ![child] = 0]
      /\ strayed' = (IF held THEN strayed ELSE strayed \cup {r}) \ {child}
      /\ UNCHANGED <<asserts, data, seeking>> /\ outcome'.status = "ok" /\ outcome'.on = r
  BY DEF GetMessage, Report, MayCall
<1>2. held => Passes(data, reader[r], current[r], view, from)
  BY ViewPasses
<1>3. nested.m_data = from
  BY DEF Default
<1>4. Windows /\ current \in [Reader -> 0 .. Len(data)] /\ \A q \in Reader : Whole(q)
  BY InvFacts DEF FieldsInv
<1>5. from \in Nat
  <2>1. from \in reader[r].m_data .. view.reader.m_data
    BY <1>1, ViewFacts
  <2>2. reader[r].m_data \in Nat
    BY PlaceFacts
  <2>3. view.reader.m_data \in Nat
    BY ViewFacts DEF MovedOn, Object
  <2> HIDE DEF from, view
  <2> QED  BY <2>1, <2>2, <2>3
<1> HIDE DEF view, from, nested
<1>6. ASSUME NEW q \in Reader PROVE Whole(q)'
  <2>1. CASE q = child
    <3>1. reader'[q].m_data = from /\ begin'[q] = from /\ current'[q] = 0
      BY <1>1, <1>3, <1>4, <2>1 DEF Windows
    <3>2. Chain(data', from, from) /\ from <= from
      BY <1>5, ChainNone
    <3> QED  BY <3>1, <3>2 DEF Whole, Upto
  <2>2. CASE q # child /\ q # r
    BY <1>1, <1>4, <2>2, WholeKept DEF Windows
  <2>3. CASE q # child /\ q = r
    <3> DEFINE at == current[r]
               end == reader[r].m_end
               i == begin[r]
    <3>1. /\ reader'[q] = view.reader /\ begin'[q] = i /\ current'[q] = 0 /\ data' = data
          /\ q \notin strayed' => held
      BY <1>1, <1>4, <2>3 DEF Windows
    <3>2. i \in Nat \ {0} /\ end \in Nat /\ AreBytes(data, i, end)
      BY PlaceFacts
    <3>3. held => i <= view.reader.m_data /\ Chain(data, i, view.reader.m_data)
      <4> SUFFICES ASSUME held
                   PROVE  i <= view.reader.m_data /\ Chain(data, i, view.reader.m_data)
        OBVIOUS
      <4>1. at \in Nat \ {0} /\ i <= at /\ Chain(data, i, at)
        BY AtValueFacts DEF AtValue
      <4>2. PICK f : Field(data, at, end, f) /\ view.reader.m_data = f.to + 1
        BY <1>1, <1>2 DEF Passes
      <4> HIDE DEF at, end, i
      <4>3. Chain(data, i, f.to + 1) /\ at < f.to + 1 /\ f.to \in Nat
        BY <3>2, <4>1, <4>2, ChainExtend
      <4> QED  BY <3>2, <4>1, <4>2, <4>3
    <3> QED  BY <3>1, <3>3 DEF Whole, Upto
  <2> QED  BY <2>1, <2>2, <2>3
<1>7. Refused' /\ Consumed'
  BY <1>1, <1>4 DEF Refused, Consumed, Malformed
<1> QED  BY <1>1, <1>6, <1>7, NoSearch DEF FieldsInv

\* Every step of a getter, skip() included, but get_message.
LEMMA SomeReads ==
    ASSUME Inv, FieldsInv, NEW r \in Reader,
           \/ Skip(r) \/ GetVarint(r) \/ GetBool(r)
           \/ GetView(r) \/ GetStringThrows(r) \/ GetPacked(r)
           \/ \E type \in {Fixed32Type, Fixed64Type} :
                GetFixed(r, type) \/ GetPackedFixed(r, FixedBytes(type))
    PROVE  \E call, types, result : Reads(call, r, types, result)
<1>1. CASE Skip(r) \/ GetVarint(r) \/ GetBool(r)
  BY <1>1, SkipReads, GetVarintReads, GetBoolReads
<1>2. CASE GetView(r) \/ GetStringThrows(r) \/ GetPacked(r)
  BY <1>2, GetViewReads, GetStringThrowsReads, GetPackedReads
<1>3. ASSUME NEW type \in {Fixed32Type, Fixed64Type}, GetFixed(r, type)
      PROVE  \E call, types, result : Reads(call, r, types, result)
  BY <1>3, GetFixedReads
<1>4. ASSUME NEW type, GetPackedFixed(r, FixedBytes(type))
      PROVE  \E call, types, result : Reads(call, r, types, result)
  BY <1>4, GetPackedFixedReads
<1> QED  BY <1>1, <1>2, <1>3, <1>4

LEMMA NextFields == Inv /\ FieldsInv /\ [Next]_vars => FieldsInv'
<1> SUFFICES ASSUME Inv, FieldsInv, [Next]_vars PROVE FieldsInv'
  OBVIOUS
<1>1. ASSUME NEW r \in Reader, NEW q \in Reader,
             Copy(r, q) \/ SwapReaders(r, q) \/ GetMessage(r, q)
      PROVE  FieldsInv'
  BY <1>1, CopyFields, SwapFields, GetMessageFields
<1>2. ASSUME NEW r \in Reader, GetterAborts(r)
      PROVE  FieldsInv'
  <2>1. ASSUME NEW call, NEW inContract, NEW asserted, Abort(call, r, inContract, asserted)
        PROVE  FieldsInv'
    BY <2>1, AbortFields
  <2> QED  BY <1>2, <2>1 DEF GetterAborts
<1>3. ASSUME NEW r \in Reader, Construct(r) \/ Advance(r)
      PROVE  FieldsInv'
  BY <1>3, ConstructFields, AdvanceFields
<1>4. ASSUME NEW r \in Reader, NEW tag, NEW type, Seek(r, tag, type)
      PROVE  FieldsInv'
  BY <1>4, SeekFields
<1>5. CASE SeekStep
  BY <1>5, SeekStepFields
<1>6. ASSUME NEW r \in Reader,
             \/ Skip(r) \/ GetVarint(r) \/ GetBool(r)
             \/ GetView(r) \/ GetStringThrows(r) \/ GetPacked(r)
             \/ \E type \in {Fixed32Type, Fixed64Type} :
                    GetFixed(r, type) \/ GetPackedFixed(r, FixedBytes(type))
      PROVE  FieldsInv'
  BY <1>6, SomeReads, ReadsFields
<1>7. CASE UNCHANGED vars
  <2>1. UNCHANGED <<asserts, data, reader, seeking, outcome, begin, current, strayed>>
    BY <1>7 DEF vars
  <2>2. ASSUME NEW q \in Reader PROVE Whole(q)'
    BY <2>1, WholeKept DEF FieldsInv
  <2>3. Searched' /\ Trusted' /\ Refused' /\ Consumed'
    BY <2>1 DEF FieldsInv, Searched, Trusted, Refused, Consumed
  <2> QED  BY <2>2, <2>3 DEF FieldsInv
<1> QED  BY <1>1, <1>2, <1>3, <1>4, <1>5, <1>6, <1>7 DEF Next

-----------------------------------------------------------------------------
(* Theorems.                                                                *)

\* What readers, searches and errors are about: the inductive invariant.
THEOREM FieldsInvariance == Spec => [](Inv /\ FieldsInv)
<1>1. Init => Inv /\ FieldsInv
  BY InitInv, InitFields
<1>2. (Inv /\ FieldsInv) /\ [Next]_vars => (Inv /\ FieldsInv)'
  BY NextInv, NextFields
<1> QED  BY <1>1, <1>2, PTL DEF Spec

\* Whatever mix of calls brought a reader to where it is, as long as each was
\* allowed and none failed, it has passed a sequence of complete fields.
THEOREM PassesWholeFields == Spec => []WholeFieldsRead
<1>1. Inv /\ FieldsInv => WholeFieldsRead
  <2> SUFFICES ASSUME Inv, FieldsInv, NEW r \in Reader \ strayed
               PROVE  Parser!IsMessage(SubSeq(data, begin[r], Upto(r) - 1))
    BY DEF WholeFieldsRead, Upto
  <2> DEFINE i == begin[r]
             upto == Upto(r)
  <2>1. i <= upto /\ Chain(data, i, upto)
    BY DEF FieldsInv, Whole
  <2>2. data \in Seq(Byte) /\ i \in Nat \ {0} /\ upto \in Nat /\ upto <= Len(data) + 1
    <3>1. /\ data \in Seq(Byte) /\ i \in Nat \ {0} /\ Len(data) \in Nat
          /\ reader[r].m_data \in Nat /\ reader[r].m_data <= Len(data) + 1
      <4>1. /\ data \in Seq(Byte) /\ i \in Nat \ {0} /\ Len(data) \in Nat
            /\ reader[r].m_data \in Nat /\ reader[r].m_end \in Nat
            /\ reader[r].m_data <= reader[r].m_end /\ reader[r].m_end <= Len(data) + 1
        BY PlaceFacts
      <4> QED  BY <4>1
    <3>2. current[r] \in Nat /\ current[r] <= Len(data)
      BY InvFacts
    <3> QED  BY <3>1, <3>2 DEF Upto
  <2> HIDE DEF i, upto
  <2>3. IsMessage(SubSeq(data, i, upto - 1))
    BY <2>1, <2>2, PartIsMessage
  <2> QED  BY <2>3, SameIsMessage DEF i, upto
<1> QED  BY <1>1, FieldsInvariance, PTL

\* A client that keeps the contract sees an exception about the encoding only on
\* bytes that are no message.
THEOREM OnlyMalformedThrows == Spec => []HonestErrors
<1>1. Inv /\ FieldsInv => HonestErrors
  <2> SUFFICES ASSUME Inv, FieldsInv, ~Misuse, outcome.status \in Malformed
               PROVE  ~ Parser!IsMessage(Window(outcome.on))
    BY DEF HonestErrors
  <2> DEFINE r == outcome.on
             i == begin[r]
             end == reader[r].m_end
  <2>1. r \in Reader /\ ~ Chain(data, i, end)
    BY DEF FieldsInv, Refused
  <2>2. /\ data \in Seq(Byte) /\ i \in Nat \ {0} /\ end \in Nat /\ i <= end
        /\ end <= Len(data) + 1
    <3>1. /\ data \in Seq(Byte) /\ i \in Nat \ {0} /\ end \in Nat /\ reader[r].m_data \in Nat
          /\ i <= reader[r].m_data /\ reader[r].m_data <= end /\ end <= Len(data) + 1
      BY <2>1, PlaceFacts
    <3> HIDE DEF i, end
    <3> QED  BY <3>1
  <2> HIDE DEF i, end
  <2>3. ~ IsMessage(SubSeq(data, i, end - 1))
    BY <2>1, <2>2, PartIsMessage
  <2> QED  BY <2>3, SameIsMessage DEF Window, i, end
<1> QED  BY <1>1, FieldsInvariance, PTL

\* A field of the data, counted from the start of a window.
LEMMA WindowField ==
    ASSUME NEW s \in Seq(Byte), NEW i \in Nat \ {0}, NEW at \in Nat, NEW end \in Nat,
           i <= at, at < end, end <= Len(s) + 1, NEW f, Field(s, at, end, f)
    PROVE  Displaced(f, 1 - i) \in FieldsAt(SubSeq(s, i, end - 1), at - i + 1)
<1> DEFINE w == SubSeq(s, i, end - 1)
           d == 1 - i
           to == end + d
<1>1. /\ w \in Seq(Byte) /\ Len(w) + 1 = to /\ \A x \in at .. end - 1 : w[x + d] = s[x]
      /\ at + d \in Nat \ {0} /\ d \in Int /\ to \in Nat /\ at + d = at - i + 1
  OBVIOUS
<1>2. AreBytes(s, at, end)
  BY BytesFacts
<1>3. f.to \in Nat /\ f.to < end
  BY <1>2, FieldFacts DEF FieldRecord
<1>4. f.to + d < to /\ \A x \in at .. f.to : w[x + d] = s[x]
  BY <1>1, <1>3
<1> HIDE DEF w, d, to
<1>5. Field(w, at + d, to, Displaced(f, d))
  BY <1>1, <1>2, <1>4, FieldShift
<1> DEFINE b == at + d
<1> HIDE DEF b
<1>6. b \in Nat \ {0} /\ Field(w, b, Len(w) + 1, Displaced(f, d))
  BY <1>1, <1>5 DEF b
<1>7. Displaced(f, d) \in FieldsAt(w, b)
  BY <1>1, <1>6, FieldsAtIs
<1> QED  BY <1>1, <1>7 DEF b, w, d

\* The bytes are the value of the current field.
IsCurrentValue(r, bytes) ==
    \E f \in Parser!FieldsAt(Window(r), current[r] - begin[r] + 1) :
        /\ f.tag = reader[r].m_tag /\ f.type = reader[r].m_wire_type
        /\ bytes = [from |-> f.from + begin[r] - 1, to |-> f.to + begin[r] - 1]

LEMMA Delivery ==
    ASSUME Inv, FieldsInv, NEW r \in Reader, r \notin strayed, current[r] # 0, NEW result,
           NEW from, result.status = "ok",
           Passes(data, reader[r], current[r], result, from)
    PROVE  IsCurrentValue(r, Between(from, result.reader.m_data))
<1> DEFINE i == begin[r]
           at == current[r]
           end == reader[r].m_end
<1>1. PICK f : Field(data, at, end, f) /\ result.reader.m_data = f.to + 1 /\ from = f.from
  BY DEF Passes
<1>2. at \in Nat \ {0} /\ i <= at /\ AreBytes(data, at, end)
  BY AtValueFacts
<1>3. /\ i \in Nat \ {0} /\ end \in Nat /\ end <= Len(data) + 1 /\ data \in Seq(Byte)
  BY PlaceFacts
<1>4. f.tag = reader[r].m_tag /\ f.type = reader[r].m_wire_type
  BY <1>1, AtValueFacts, FieldTyped
<1> HIDE DEF i, at, end
<1>5. f.to \in Nat /\ f.from \in Nat /\ f.to < end /\ at <= f.to
  BY <1>1, <1>2, <1>3, FieldFacts DEF FieldRecord
<1>6. at < end
  BY <1>2, <1>3, <1>5
<1> DEFINE g == Displaced(f, 1 - i)
<1>7. g \in Parser!FieldsAt(Window(r), at - i + 1)
  BY <1>1, <1>2, <1>3, <1>6, WindowField, SameFieldsAt DEF Window, i, end
<1>8. /\ g.tag = f.tag /\ g.type = f.type
      /\ g.from + i - 1 = f.from /\ g.to + i - 1 = f.to
  BY <1>3, <1>5 DEF Displaced
<1> HIDE DEF g
<1>9. Between(from, result.reader.m_data) = [from |-> g.from + i - 1, to |-> g.to + i - 1]
  BY <1>1, <1>5, <1>8 DEF Between
<1> QED  BY <1>4, <1>7, <1>8, <1>9 DEF IsCurrentValue, i, at

LEMMA Reported ==
    ASSUME NEW call, NEW r, NEW status, NEW bytes, Report(call, r, status, bytes)
    PROVE  outcome'.call = call /\ outcome'.on = r /\ outcome'.status = status
BY DEF Report

\* For clients that keep the contract: a getter returns the value of the current
\* field of its reader, no byte more and none less, in the window of a nested
\* message as well.  (When get_message is called on a field of another type
\* and puts the new reader in the place of the old one, strayed does not show it.)
THEOREM DeliversTheValue == ASSUME ~Misuse PROVE Spec => DeliversValue
<1>1. ASSUME Inv, FieldsInv, NEW r \in Reader, NEW call, NEW types, NEW result,
             Reads(call, r, types, result)
      PROVE  Delivers
  <2>1. PICK asserted, from, start :
            /\ Consume(call, r, types, asserted, result, from)
            /\ AtValue(r, types) => Passes(data, reader[r], current[r], result, start)
            /\ call \in Getters => start = from
    BY <1>1 DEF Reads
  <2>2. /\ outcome'.on = r /\ outcome'.call = call /\ outcome'.status = result.status
        /\ outcome'.bytes = IF result.status = "ok" THEN Between(from, result.reader.m_data)
                            ELSE NoBytes
        /\ AtValue(r, types)
    BY <2>1 DEF Consume, Report, MayCall
  <2>3. r \notin strayed /\ current[r] # 0
    BY <2>2 DEF AtValue
  <2>4. CASE call \in Getters /\ result.status = "ok"
    <3>1. Passes(data, reader[r], current[r], result, from)
      BY <2>1, <2>2, <2>4
    <3>2. IsCurrentValue(r, Between(from, result.reader.m_data))
      BY <1>1, <2>3, <2>4, <3>1, Delivery
    <3> QED  BY <2>2, <2>4, <3>2 DEF Delivers, IsCurrentValue
  <2>5. CASE ~ (call \in Getters /\ result.status = "ok")
    BY <2>2, <2>5 DEF Delivers
  <2> QED  BY <2>4, <2>5
<1>2. ASSUME Inv, FieldsInv, NEW r \in Reader, NEW child \in Reader, GetMessage(r, child)
      PROVE  Delivers
  <2> DEFINE view == SkipLengthDelimited(data, reader[r])
             from == PayloadFrom(r)
  <2>1. /\ outcome'.on = r /\ view.status = "ok"
        /\ outcome'.bytes = Between(from, view.reader.m_data)
        /\ AtValue(r, {LengthDelimitedType})
    BY <1>2 DEF GetMessage, Report, MayCall
  <2>2. Passes(data, reader[r], current[r], view, from)
    BY <1>2, <2>1, ViewPasses
  <2>3. r \notin strayed /\ current[r] # 0
    BY <2>1 DEF AtValue
  <2> HIDE DEF view, from
  <2>4. IsCurrentValue(r, Between(from, view.reader.m_data))
    BY <1>2, <2>1, <2>2, <2>3, Delivery
  <2> QED  BY <2>1, <2>4 DEF Delivers, IsCurrentValue
<1>3. ASSUME outcome'.call \notin Getters \/ outcome'.status # "ok"
      PROVE  Delivers
  BY <1>3 DEF Delivers
<1>4. ASSUME FieldsInv, outcome' = outcome
      PROVE  Delivers
  BY <1>4 DEF Delivers, FieldsInv, Consumed
<1>5. ASSUME Inv, FieldsInv, Next
      PROVE  Delivers
  <2>1. ASSUME NEW r \in Reader, NEW q \in Reader, Copy(r, q) \/ SwapReaders(r, q)
        PROVE  Delivers
    <3>1. outcome'.call \in {"copy", "swap"}
      BY <2>1, Reported DEF Copy, SwapReaders
    <3> QED  BY <1>3, <3>1 DEF Getters
  <2>2. ASSUME NEW r \in Reader, Construct(r) \/ Advance(r)
        PROVE  Delivers
    <3>1. outcome'.call \in {"construct", "next"}
      BY <2>2, Reported DEF Construct, ConstructOver, Advance
    <3> QED  BY <1>3, <3>1 DEF Getters
  <2>3. ASSUME NEW r \in Reader, GetterAborts(r)
        PROVE  Delivers
    <3>1. ASSUME NEW call, NEW inContract, NEW asserted, Abort(call, r, inContract, asserted)
          PROVE  outcome'.status # "ok"
      BY <3>1 DEF Abort, Report
    <3>2. outcome'.status # "ok"
      BY <2>3, <3>1 DEF GetterAborts
    <3> QED  BY <1>3, <3>2
  <2>4. ASSUME NEW r \in Reader, NEW tag, NEW type, Seek(r, tag, type)
        PROVE  Delivers
    BY <1>4, <1>5, <2>4 DEF Seek
  <2>5. CASE SeekStep
    <3>1. outcome' = outcome \/ outcome'.call = "next(tag)"
      BY <1>5, <2>5, SeekCases, Reported
    <3> QED  BY <1>3, <1>4, <1>5, <3>1 DEF Getters
  <2>6. ASSUME NEW r \in Reader,
               \/ Skip(r) \/ GetVarint(r) \/ GetBool(r)
               \/ GetView(r) \/ GetStringThrows(r) \/ GetPacked(r)
               \/ \E type \in {Fixed32Type, Fixed64Type} :
                    GetFixed(r, type) \/ GetPackedFixed(r, FixedBytes(type))
        PROVE  Delivers
    BY <1>1, <1>5, <2>6, SomeReads
  <2> QED  BY <1>2, <1>5, <2>1, <2>2, <2>3, <2>4, <2>5, <2>6 DEF Next
<1>6. Inv /\ FieldsInv /\ [Next]_vars => [Delivers]_vars
  BY <1>5
<1> QED  BY <1>6, FieldsInvariance, PTL DEF Spec, DeliversValue

\* The fields of a part of the data are fields of the data.
LEMMA FieldsOfPart ==
    ASSUME NEW s \in Seq(Byte), NEW i \in Nat \ {0}, NEW end \in Nat, i <= end,
           end <= Len(s) + 1, NEW x \in FieldsOf(SubSeq(s, i, end - 1))
    PROVE  \E b \in i .. end - 1 : \E f :
            Chain(s, i, b) /\ Field(s, b, end, f) /\ f.tag = x.tag /\ f.type = x.type
<1> DEFINE w == SubSeq(s, i, end - 1)
           d == i - 1
           len == Len(w) + 1
<1>1. /\ w \in Seq(Byte) /\ len \in Nat /\ len + d = end /\ \A y \in 1 .. len - 1 : s[y + d] = w[y]
      /\ d \in Nat /\ Len(w) \in Nat /\ i = 1 + d
  OBVIOUS
<1>2. x \in FieldsOf(w)
  OBVIOUS
<1> HIDE DEF w, d
<1>3. PICK c \in 1 .. len : Chain(w, 1, c) /\ Field(w, c, len, x)
  BY <1>1, <1>2, FieldsOfAre
<1> HIDE DEF len
<1>4. c \in Nat /\ 1 <= c /\ c <= len
  BY <1>1
<1>5. AreBytes(w, 1, len)
  BY <1>1, BytesFacts DEF len
<1>6. AreBytes(w, 1, c) /\ AreBytes(w, c, len)
  BY <1>1, <1>4, <1>5 DEF AreBytes
<1>7. Chain(s, 1 + d, c + d)
  <2>1. \A y \in 1 .. c - 1 : s[y + d] = w[y]
    BY <1>1, <1>4
  <2> QED  BY <1>1, <1>3, <1>4, <1>6, <2>1, ChainShift
<1>8. x \in FieldRecord /\ x.to \in Nat /\ x.to < len /\ c <= x.to
  BY <1>1, <1>3, <1>4, <1>6, FieldFacts DEF FieldRecord
<1>9. Field(s, c + d, end, Displaced(x, d))
  <2>1. \A y \in c .. x.to : s[y + d] = w[y]
    <3>1. \A y \in c .. x.to : y \in 1 .. len - 1
      BY <1>1, <1>4, <1>8
    <3> QED  BY <1>1, <3>1
  <2>2. x.to + d < end /\ c + d \in Nat /\ d \in Int
    BY <1>1, <1>4, <1>8
  <2> QED  BY <1>1, <1>3, <1>4, <1>6, <2>1, <2>2, FieldShift
<1>10. Displaced(x, d).tag = x.tag /\ Displaced(x, d).type = x.type
  BY DEF Displaced
<1>11. c + d \in i .. end - 1
  BY <1>1, <1>4, <1>8
<1> QED  BY <1>1, <1>7, <1>9, <1>10, <1>11

\* A search that finds a field has found the first of those asked for, and one that
\* returns false has passed all fields of the window and found none.
THEOREM FindsTheFirst == Spec => FindsFirst
<1>1. ASSUME Inv, FieldsInv, SeekStep, seeking' = NULL, outcome'.status \in {"true", "false"}
      PROVE  SeeksFirst
  <2> DEFINE r == seeking.on
             at == reader[r].m_data
             end == reader[r].m_end
             start == seeking.start
             upto == IF outcome'.status = "true" THEN current'[r] ELSE end
             part == SubSeq(data, start, upto - 1)
  <2>1. r \in Reader /\ seeking # NULL
    BY <1>1, SeekCases
  <2>2. /\ at \in Nat \ {0} /\ end \in Nat /\ at <= end /\ end <= Len(data) + 1
        /\ data \in Seq(Byte) /\ Over(data, reader[r])
        /\ \A i \in Nat \ {0} : AreBytes(data, i, end)
    BY <1>1, <2>1, PlaceFacts
  <2>3. /\ start \in Nat \ {0} /\ start <= at /\ Chain(data, start, at)
        /\ \A b \in start .. at - 1 : \A g :
              Chain(data, start, b) /\ Field(data, b, end, g) => ~ Asked(g, seeking)
    BY <1>1, <2>1 DEF FieldsInv, Searched
  <2>4. /\ outcome'.status = SeekNext.status /\ (SeekNext.status # "true" \/ SeekFound)
        /\ reader' = [reader EXCEPT ![r] = SeekNext.reader]
        /\ FieldFound(r, SeekNext.status)
    <3>1. SeekSkip.status \in ReadStatus \/ SeekNext.status # "true"
      BY <1>1, <2>1, TurnFacts
    <3>2. CASE /\ SeekNext.status = "true" /\ ~ SeekFound /\ SeekSkip.status # "ok"
               /\ Report("next(tag)", r, SeekSkip.status, NoBytes)
      <4>1. outcome'.status = SeekSkip.status
        BY <3>2, Reported
      <4> QED  BY <1>1, <3>1, <3>2, <4>1 DEF ReadStatus
    <3>3. CASE /\ SeekNext.status # "true" \/ SeekFound
               /\ reader' = [reader EXCEPT ![r] = SeekNext.reader]
               /\ FieldFound(r, SeekNext.status)
               /\ Report("next(tag)", r, SeekNext.status, NoBytes)
      BY <3>3, Reported
    <3> QED  BY <1>1, <2>1, <3>2, <3>3, SeekCases
  <2>5. SeekNext = NextField(data, reader[r])
    BY DEF SeekNext
  <2>6. upto = at
    <3>1. CASE outcome'.status = "true"
      BY <1>1, <2>1, <2>4, <3>1, InvFacts DEF FieldFound
    <3>2. CASE outcome'.status # "true"
      <4>1. SeekNext.status = "false"
        BY <1>1, <2>4, <3>2
      <4> QED  BY <2>2, <2>5, <3>2, <4>1, NextFieldReads
    <3> QED  BY <3>1, <3>2
  <2>7. reader'[r] = SeekNext.reader
    BY <1>1, <2>1, <2>4, InvFacts DEF Windows
  <2>8. outcome'.status = "true" =>
          Asked([tag |-> reader'[r].m_tag, type |-> reader'[r].m_wire_type], seeking)
    BY <2>4, <2>7 DEF SeekFound, Matches, Asked
  <2> HIDE DEF at, start, upto, end
  <2>9. ASSUME NEW x \in Parser!FieldsOf(part)
        PROVE  ~ Asked(x, seeking)
    <3>1. x \in FieldsOf(SubSeq(data, start, at - 1))
      BY <2>6, <2>9, SameFieldsOf
    <3>2. at <= Len(data) + 1
      BY <2>2
    <3>3. PICK b \in start .. at - 1 : \E f :
            Chain(data, start, b) /\ Field(data, b, at, f) /\ f.tag = x.tag /\ f.type = x.type
      BY <2>2, <2>3, <3>1, <3>2, FieldsOfPart
    <3>4. PICK f :
            Chain(data, start, b) /\ Field(data, b, at, f) /\ f.tag = x.tag /\ f.type = x.type
      BY <3>3
    <3>5. b \in Nat /\ AreBytes(data, b, at)
      <4>1. b \in Nat \ {0}
        BY <2>2, <2>3
      <4> QED  BY <2>2, <3>2, <4>1, BytesFacts
    <3>6. f.to \in Nat /\ f.to < at
      BY <2>2, <3>4, <3>5, FieldFacts DEF FieldRecord
    <3>7. Field(data, b, end, f)
      <4>1. f.to < end
        BY <2>2, <3>6
      <4> QED  BY <2>2, <3>4, <3>5, <4>1, FieldWithin
    <3> QED  BY <2>3, <3>4, <3>7 DEF Asked
  <2> QED  BY <2>8, <2>9 DEF SeeksFirst, Asked, upto, start, end
<1>2. ASSUME Inv, FieldsInv, Next
      PROVE  SeeksFirst
  <2>1. CASE SeekStep
    BY <1>1, <1>2, <2>1 DEF SeeksFirst
  <2>2. CASE ~ SeekStep
    <3>1. ASSUME seeking # NULL, NEW inContract, MayCall(inContract)
          PROVE  FALSE
      BY <3>1 DEF MayCall
    <3>2. seeking = NULL
      <4>1. ASSUME NEW r \in Reader, NEW q \in Reader,
                   Copy(r, q) \/ SwapReaders(r, q) \/ GetMessage(r, q)
            PROVE  seeking = NULL
        BY <3>1, <4>1 DEF Copy, SwapReaders, GetMessage
      <4>2. ASSUME NEW r \in Reader, Construct(r) \/ Advance(r)
            PROVE  seeking = NULL
        BY <3>1, <4>2 DEF Construct, ConstructOver, Advance
      <4>3. ASSUME NEW r \in Reader, GetterAborts(r)
            PROVE  seeking = NULL
        <5>1. ASSUME NEW call, NEW inContract, NEW asserted,
                     Abort(call, r, inContract, asserted)
              PROVE  seeking = NULL
          BY <3>1, <5>1 DEF Abort
        <5> QED  BY <4>3, <5>1 DEF GetterAborts
      <4>4. ASSUME NEW r \in Reader, NEW tag, NEW type, Seek(r, tag, type)
            PROVE  seeking = NULL
        BY <3>1, <4>4 DEF Seek
      <4>5. ASSUME NEW r \in Reader,
                   \/ Skip(r) \/ GetVarint(r) \/ GetBool(r)
                   \/ GetView(r) \/ GetStringThrows(r) \/ GetPacked(r)
                   \/ \E type \in {Fixed32Type, Fixed64Type} :
                        GetFixed(r, type) \/ GetPackedFixed(r, FixedBytes(type))
            PROVE  seeking = NULL
        BY <1>2, <3>1, <4>5, SomeReads DEF Reads, Consume
      <4> QED  BY <1>2, <2>2, <4>1, <4>2, <4>3, <4>4, <4>5 DEF Next
    <3> QED  BY <3>2 DEF SeeksFirst
  <2> QED  BY <2>1, <2>2
<1>3. Inv /\ FieldsInv /\ [Next]_vars => [SeeksFirst]_vars
  BY <1>2
<1> QED  BY <1>3, FieldsInvariance, PTL DEF Spec, FindsFirst
=============================================================================
