---------------------------- MODULE Numbers_proofs ---------------------------
(***************************************************************************)
(* Theorems about numbers, views and the iterators over packed fields, for   *)
(* fields of any bytes.                                                     *)
(***************************************************************************)
EXTENDS MCNumbers, WireParser_proofs, FiniteSetTheorems

\* Skipping a varint, as ++ does, and decoding it, as * does, end at the same
\* place or with the same exception (varint.hpp:33-98 and 112-132).
THEOREM SkippingIsDecoding == Spec => []SkipsWhatDecodes
<1>1. Init => payload \in Inputs
  BY DEF Init
<1>2. payload \in Inputs /\ [Next]_vars => (payload \in Inputs)'
  BY DEF Next, vars, Begin, Step, DropFront, SwapRanges, Jump
<1>3. payload \in Inputs => SkipsWhatDecodes
  <2> SUFFICES ASSUME payload \in Inputs PROVE SkipsWhatDecodes
    OBVIOUS
  <2>1. 1 \in Nat /\ Len(payload) + 1 \in Nat /\ 1 <= Len(payload) + 1
    BY IteratorAssumption
  <2> QED  BY <2>1, SkipAgrees DEF SkipsWhatDecodes, Skipped, Decoded
<1> QED  BY <1>1, <1>2, <1>3, PTL DEF Spec

LEMMA SameParser ==
    ASSUME NEW s, NEW i
    PROVE  /\ Parser!VarintStops(s, i) = VarintStops(s, i)
           /\ Parser!VarintEnd(s, i) = VarintEnd(s, i)
           /\ Parser!VarintValue(s, i) = VarintValue(s, i)
<1>1. Parser!Radix = Radix /\ Parser!MaxVarintLength = MaxVarintLength
  BY DEF Parser!Radix, Radix, Parser!MaxVarintLength, MaxVarintLength
<1>2. Parser!VarintStops(s, i) = VarintStops(s, i)
  BY <1>1 DEF Parser!VarintStops, VarintStops
<1>3. Parser!VarintEnd(s, i) = VarintEnd(s, i)
  BY <1>2, Zenon DEF Parser!VarintEnd, VarintEnd, Parser!Min, Min
<1>4. Parser!VarintValue(s, i) = VarintValue(s, i)
  BY DEF Parser!VarintValue, VarintValue, Parser!VarintEnd, VarintEnd, Parser!VarintStops,
         VarintStops, Parser!Min, Min, Parser!Radix, Radix, Parser!MaxVarintLength, MaxVarintLength
<1> QED  BY <1>2, <1>3, <1>4

\* decode_varint, by each of its paths, returns the number of every complete
\* varint and reports the others for what they are (varint.hpp:33-98).
THEOREM DecodingIsRight == Spec => []DecodesVarints
<1>1. Init => payload \in Inputs
  BY DEF Init
<1>2. payload \in Inputs /\ [Next]_vars => (payload \in Inputs)'
  BY DEF Next, vars, Begin, Step, DropFront, SwapRanges, Jump
<1>3. payload \in Inputs => DecodesVarints
  <2> SUFFICES ASSUME payload \in Inputs PROVE DecodesVarints
    OBVIOUS
  <2>1. payload \in Seq(Byte) /\ 1 \in Nat \ {0} /\ 1 <= Len(payload) + 1
        /\ Len(payload) + 1 - 1 = Len(payload)
    BY IteratorAssumption
  <2>2. Decoded =
          IF VarintStops(payload, 1) # {}
          THEN Found(VarintValue(payload, 1), VarintEnd(payload, 1) + 1)
          ELSE Missed(IF Len(payload) + 1 - 1 >= MaxVarintLength THEN "varint_too_long"
                      ELSE "end_of_buffer", 1)
    BY <2>1, DecodeIsValue DEF Decoded
  <2> QED  BY <2>1, <2>2, SameParser DEF DecodesVarints
<1> QED  BY <1>1, <1>2, <1>3, PTL DEF Spec

\* What write_varint writes (varint.hpp:145-156) decode_varint reads back in the bytes
\* that length_of_varint announces (varint.hpp:164-173), whatever follows; and get_bool
\* sees from the first of them whether it is zero (pbf_reader.hpp:494-500).
THEOREM WhatIsWrittenIsRead == Spec => []NumbersSurvive
<1>1. Init => payload \in Inputs
  BY DEF Init
<1>2. payload \in Inputs /\ [Next]_vars => (payload \in Inputs)'
  BY DEF Next, vars, Begin, Step, DropFront, SwapRanges, Jump
<1>3. payload \in Inputs => NumbersSurvive
  <2> SUFFICES ASSUME payload \in Inputs, NEW n \in 0 .. 2^ValueBits - 1
               PROVE  /\ DecodeVarint(Varint[n] \o payload, 1, Len(Varint[n] \o payload) + 1)
                            = Found(n, LengthOfVarint[n] + 1)
                      /\ ReadBool(Varint[n] \o payload, 1) = (n # 0)
    BY DEF NumbersSurvive
  <2> DEFINE text == Varint[n] \o payload
             len == Len(Varint[n])
             end == Len(text) + 1
  <2>1. n \in Nat /\ n < 2^ValueBits /\ payload \in Seq(Byte)
    BY IteratorAssumption, PowerAssumption
  <2>2. Codes(Varint[n], n)
    BY <2>1, VarintCodes
  <2>3. Varint[n] \in Seq(Byte) /\ len \in Nat /\ len > 0
    BY <2>2 DEF Codes
  <2>4. /\ text \in Seq(Byte) /\ Len(text) \in Nat /\ len <= Len(text)
        /\ \A j \in 1 .. len : text[j] = Varint[n][j]
    <3>1. text \in Seq(Byte) /\ Len(text) = len + Len(payload)
          /\ \A j \in 1 .. len + Len(payload) :
                text[j] = IF j <= len THEN Varint[n][j] ELSE payload[j - len]
      BY <2>1, <2>3, ConcatProperties
    <3>2. Len(payload) \in Nat
      BY <2>1, LenProperties
    <3> HIDE DEF text, len
    <3>3. \A j \in 1 .. len : j \in 1 .. len + Len(payload) /\ j <= len
      BY <2>3, <3>2
    <3> QED  BY <2>3, <3>1, <3>2, <3>3
  <2>5. IsVarint(text, 1, len) /\ Number(text, 1, len) = n
    <3>1. \A j \in 1 .. len : text[(1 - 1) + j] = Varint[n][j]
      BY <2>3, <2>4
    <3> HIDE DEF text
    <3>2. /\ IsVarint(text, 1, (1 - 1) + Len(Varint[n]))
          /\ Number(text, 1, (1 - 1) + Len(Varint[n])) = n
      BY <2>1, <3>1, VarintAt
    <3>3. (1 - 1) + Len(Varint[n]) = len
      BY <2>3
    <3> QED  BY <3>2, <3>3
  <2>6. LengthOfVarint[n] = len
    BY <2>1, LengthOfIs
  <2>7. ReadBool(text, 1) = (n # 0)
    <3>1. text[1] = Varint[n][1]
      BY <2>3, <2>4
    <3>2. Varint[n][1] = 0 <=> n = 0
      BY <2>1, FirstByte
    <3> QED  BY <3>1, <3>2, Zenon DEF ReadBool
  <2>8. AreBytes(text, 1, end)
    <3>1. \A j \in 1 .. Len(text) : text[j] \in Byte
      BY <2>4, ElementOfSeq
    <3>2. end - 1 = Len(text)
      BY <2>4
    <3> QED  BY <3>1, <3>2 DEF AreBytes
  <2>9. 1 \in Nat /\ end \in Nat /\ len \in 1 .. end - 1
    BY <2>3, <2>4
  <2> HIDE DEF text, end, len
  <2>10. DecodeVarint(text, 1, end) = Found(n, len + 1)
    BY <2>5, <2>8, <2>9, DecodeFinds
  <2> QED  BY <2>6, <2>7, <2>10 DEF text, end, len
<1> QED  BY <1>1, <1>2, <1>3, PTL DEF Spec

\* A value of a signed type survives its way through zigzag or the two's complement
\* (varint.hpp:178-202), also where the widths mix: sint32 is encoded with 32 bits
\* and decoded with 64, int32 written with 64 and cut to 32 (pbf_reader.hpp:99-110, 505-572).
THEOREM SignedNumbersSurvive == Spec => []SignedSurvive
<1>1. Init => payload \in Inputs
  BY DEF Init
<1>2. payload \in Inputs /\ [Next]_vars => (payload \in Inputs)'
  BY DEF Next, vars, Begin, Step, DropFront, SwapRanges, Jump
<1>3. payload \in Inputs => SignedSurvive
  <2> SUFFICES ASSUME payload \in Inputs PROVE SignedSurvive
    OBVIOUS
  <2> DEFINE wide == AsSigned(Decoded.value, ValueBits)
             narrow == AsSigned(Decoded.value, LengthBits)
  <2>1. Decoded.value \in Int
    <3>1. payload \in Seq(Byte) /\ 1 \in Nat /\ Len(payload) + 1 \in Nat /\ 1 <= Len(payload) + 1
      BY IteratorAssumption
    <3>2. AreBytes(payload, 1, Len(payload) + 1)
      BY <3>1, ElementOfSeq DEF AreBytes
    <3>3. Decoded.value \in Nat
      BY <3>1, <3>2, DecodeFacts DEF Decoded, Honest
    <3> QED  BY <3>3
  <2>2. LengthBits \in Width /\ ValueBits \in Width
    BY DEF Width
  <2>3. /\ wide \in Signed(ValueBits) /\ narrow \in Signed(LengthBits)
        /\ narrow \in Signed(ValueBits)
    BY <2>1, <2>2, SignedRange, NarrowIsWide
  <2> HIDE DEF wide, narrow
  <2>4. ReadSint64(WrittenSint64(wide)) = wide
    BY <2>2, <2>3, ZigzagBack DEF ReadSint64, WrittenSint64
  <2>5. ReadInt64(WrittenInt(wide)) = wide
    BY <2>3, IntBack
  <2>6. ReadSint64(WrittenSint32(narrow)) = narrow
    BY <2>2, <2>3, ZigzagBack DEF ReadSint64, WrittenSint32
  <2>7. ReadSint32(WrittenSint32(narrow)) = narrow
    <3>1. ReadSint32(WrittenSint32(narrow)) = AsSigned(narrow, LengthBits)
      BY <2>6 DEF ReadSint32, ReadSint64
    <3>2. narrow + 2^LengthBits * 0 = narrow
      BY <2>2, <2>3, WidthFacts
    <3> QED  BY <2>2, <2>3, <3>1, <3>2, SignedIs
  <2>8. ReadInt32(WrittenInt(narrow)) = narrow /\ ReadInt64(WrittenInt(narrow)) = narrow
    BY <2>3, IntBack
  <2>9. WrittenSint32(narrow) < LengthModulus
    BY <2>2, <2>3, ZigzagIs DEF WrittenSint32, LengthModulus
  <2> QED  BY <2>4, <2>5, <2>6, <2>7, <2>8, <2>9 DEF SignedSurvive, wide, narrow
<1> QED  BY <1>1, <1>2, <1>3, PTL DEF Spec

-----------------------------------------------------------------------------
(* Views as words.                                                          *)

\* Two views differ first at the byte i, or one of them is the start of the other.
FirstDifference(a, b, i) ==
    i \in 1 .. Len(a) /\ i <= Len(b) /\ a[i] # b[i] /\ \A j \in 1 .. i - 1 : a[j] = b[j]
Starts(a, b) == Len(a) <= Len(b) /\ \A j \in 1 .. Len(a) : a[j] = b[j]

\* The first difference decides, or else the lengths.
LEMMA CompareFacts ==
    ASSUME NEW a \in Seq(Byte), NEW b \in Seq(Byte)
    PROVE  \/ \E i \in Nat : FirstDifference(a, b, i) /\ Compare(a, b) = a[i] - b[i]
           \/ /\ Starts(a, b) \/ Starts(b, a)
              /\ Compare(a, b) = IF Len(a) = Len(b) THEN 0 ELSE IF Len(a) < Len(b) THEN -1 ELSE 1
<1> DEFINE n == Min({Len(a), Len(b)})
           differing == {i \in 1 .. n : a[i] # b[i]}
<1>1. /\ Len(a) \in Nat /\ Len(b) \in Nat /\ n \in Nat /\ n <= Len(a) /\ n <= Len(b)
      /\ n = Len(a) \/ n = Len(b)
  <2>1. Len(a) \in Nat /\ Len(b) \in Nat
    BY LenProperties
  <2>2. {Len(a), Len(b)} \in SUBSET Nat /\ {Len(a), Len(b)} # {}
    BY <2>1
  <2>3. Min({Len(a), Len(b)}) \in {Len(a), Len(b)}
        /\ \A y \in {Len(a), Len(b)} : Min({Len(a), Len(b)}) <= y
    BY <2>2, MinFacts
  <2> QED  BY <2>1, <2>3
<1>2. \A j \in 1 .. n : a[j] \in Int /\ b[j] \in Int
  <2>1. Byte \subseteq Int
    BY DEF Byte
  <2>2. \A j \in 1 .. n : j \in 1 .. Len(a) /\ j \in 1 .. Len(b)
    BY <1>1
  <2>3. \A j \in 1 .. Len(a) : a[j] \in Byte
    BY ElementOfSeq
  <2>4. \A j \in 1 .. Len(b) : b[j] \in Byte
    BY ElementOfSeq
  <2> QED  BY <2>1, <2>2, <2>3, <2>4
<1>3. Compare(a, b) = LET cmp == IF differing = {} THEN 0 ELSE a[Min(differing)] - b[Min(differing)]
                      IN IF cmp # 0 THEN cmp
                         ELSE IF Len(a) = Len(b) THEN 0
                         ELSE IF Len(a) < Len(b) THEN -1 ELSE 1
  BY DEF Compare, Memcmp
<1>4. CASE differing = {}
  <2>1. \A j \in 1 .. n : a[j] = b[j]
    BY <1>4
  <2>2. Starts(a, b) \/ Starts(b, a)
    BY <1>1, <2>1 DEF Starts
  <2> QED  BY <1>3, <1>4, <2>2
<1>5. CASE differing # {}
  <2>1. differing \in SUBSET Nat
    BY <1>1
  <2> HIDE DEF differing, n
  <2>2. Min(differing) \in differing /\ \A y \in differing : Min(differing) <= y
    BY <1>5, <2>1, MinFacts
  <2> DEFINE i == Min(differing)
  <2> HIDE DEF i
  <2>3. i \in 1 .. n /\ a[i] # b[i] /\ \A j \in 1 .. n : a[j] # b[j] => i <= j
    BY <2>2 DEF i, differing
  <2>4. FirstDifference(a, b, i)
    BY <1>1, <2>3 DEF FirstDifference
  <2>5. a[i] - b[i] # 0
    BY <1>2, <2>3
  <2>6. Compare(a, b) = a[i] - b[i]
    BY <1>3, <1>5, <2>5 DEF i
  <2> QED  BY <1>1, <2>3, <2>4, <2>6
<1> QED  BY <1>4, <1>5

LEMMA FrontIs ==
    ASSUME NEW s \in Seq(Byte), NEW k \in Nat, k <= Len(s)
    PROVE  SubSeq(s, 1, k) = [j \in 1 .. k |-> s[j]]
<1> DEFINE front == SubSeq(s, 1, k)
<1>1. Len(s) \in Nat /\ \A j \in 1 .. k : s[j] \in Byte
  BY LenProperties, ElementOfSeq
<1>2. /\ front \in Seq(Byte)
      /\ Len(front) = IF 1 <= k THEN k - 1 + 1 ELSE 0
      /\ \A j \in 1 .. k - 1 + 1 : front[j] = s[1 + j - 1]
  BY <1>1, SubSeqProperties
<1> HIDE DEF front
<1>3. Len(front) = k /\ \A j \in 1 .. k : front[j] = s[j]
  BY <1>2
<1>4. front = [j \in 1 .. Len(front) |-> front[j]]
  BY <1>2, LenProperties
<1> QED  BY <1>3, <1>4 DEF front

LEMMA FrontsAgree ==
    ASSUME NEW a \in Seq(Byte), NEW b \in Seq(Byte), NEW k \in Nat, k <= Len(a), k <= Len(b)
    PROVE  SubSeq(a, 1, k) = SubSeq(b, 1, k) <=> \A j \in 1 .. k : a[j] = b[j]
<1>1. SubSeq(a, 1, k) = [j \in 1 .. k |-> a[j]] /\ SubSeq(b, 1, k) = [j \in 1 .. k |-> b[j]]
  BY FrontIs
<1> QED  BY <1>1

\* The order of a dictionary in the same terms.
LEMMA BeforeFacts ==
    ASSUME NEW a \in Seq(Byte), NEW b \in Seq(Byte)
    PROVE  Before(a, b) <=> \/ \E i \in Nat : FirstDifference(a, b, i) /\ a[i] < b[i]
                            \/ Starts(a, b) /\ Len(a) < Len(b)
<1> DEFINE n == Min({Len(a), Len(b)})
<1>1. /\ Len(a) \in Nat /\ Len(b) \in Nat /\ n \in Nat
      /\ \A i \in Nat : i <= n <=> i <= Len(a) /\ i <= Len(b)
  <2>1. Len(a) \in Nat /\ Len(b) \in Nat
    BY LenProperties
  <2>2. {Len(a), Len(b)} \in SUBSET Nat /\ {Len(a), Len(b)} # {}
    BY <2>1
  <2>3. Min({Len(a), Len(b)}) \in {Len(a), Len(b)}
        /\ \A y \in {Len(a), Len(b)} : Min({Len(a), Len(b)}) <= y
    BY <2>2, MinFacts
  <2>4. n \in {Len(a), Len(b)} /\ n <= Len(a) /\ n <= Len(b)
    BY <2>3
  <2> HIDE DEF n
  <2> QED  BY <2>1, <2>4
<1>2. /\ a \in [1 .. Len(a) -> Byte] /\ b \in [1 .. Len(b) -> Byte]
  BY LenProperties
<1> HIDE DEF n
<1>3. \A j \in 1 .. Len(a) : a[j] \in Int
  BY <1>2, RadixFacts DEF Byte
<1>4. \A j \in 1 .. Len(b) : b[j] \in Int
  BY <1>2, RadixFacts DEF Byte
<1>5. IsStrictPrefix(a, b) <=> Starts(a, b) /\ Len(a) < Len(b)
  <2>2. Len(a) <= Len(b) =>
            (SubSeq(a, 1, Len(a)) = SubSeq(b, 1, Len(a)) <=> \A j \in 1 .. Len(a) : a[j] = b[j])
    BY <1>1, FrontsAgree
  <2>3. a # b /\ Starts(a, b) => Len(a) < Len(b)
    BY <1>1, <1>2 DEF Starts
  <2>4. Len(a) < Len(b) => a # b
    BY <1>1
  <2> QED  BY <1>1, <2>2, <2>3, <2>4 DEF IsStrictPrefix, IsPrefix, Starts
<1>6. ASSUME NEW i \in 1 .. n
      PROVE  SubSeq(a, 1, i - 1) = SubSeq(b, 1, i - 1) <=> \A j \in 1 .. i - 1 : a[j] = b[j]
  <2>1. i - 1 \in Nat /\ i - 1 <= Len(a) /\ i - 1 <= Len(b)
    BY <1>1, i \in Nat /\ i <= n /\ i >= 1
  <2> QED  BY <2>1, FrontsAgree
<1>7. \A i \in Nat : FirstDifference(a, b, i) /\ a[i] < b[i] <=>
        i \in 1 .. n /\ a[i] < b[i] /\ \A j \in 1 .. i - 1 : a[j] = b[j]
  BY <1>1, <1>3, <1>4 DEF FirstDifference
<1>8. (\E i \in 1 .. n : SubSeq(a, 1, i - 1) = SubSeq(b, 1, i - 1) /\ a[i] < b[i])
        <=> \E i \in Nat : FirstDifference(a, b, i) /\ a[i] < b[i]
  BY <1>1, <1>6, <1>7
<1> QED  BY <1>5, <1>8 DEF Before, n

\* All comparisons of two words follow from the first place where they differ.
LEMMA Dictionary ==
    ASSUME NEW a \in Seq(Byte), NEW b \in Seq(Byte)
    PROVE  /\ Less(a, b) <=> Before(a, b)
           /\ Greater(a, b) <=> Before(b, a)
           /\ Equal(a, b) <=> LessOrEqual(a, b) /\ GreaterOrEqual(a, b)
<1>1. /\ Len(a) \in Nat /\ Len(b) \in Nat
      /\ a \in [1 .. Len(a) -> Byte] /\ b \in [1 .. Len(b) -> Byte]
  BY LenProperties
<1>2. /\ Before(a, b) <=> \/ \E i \in Nat : FirstDifference(a, b, i) /\ a[i] < b[i]
                          \/ Starts(a, b) /\ Len(a) < Len(b)
      /\ Before(b, a) <=> \/ \E i \in Nat : FirstDifference(b, a, i) /\ b[i] < a[i]
                          \/ Starts(b, a) /\ Len(b) < Len(a)
  BY BeforeFacts
<1>3. \/ \E i \in Nat : FirstDifference(a, b, i) /\ Compare(a, b) = a[i] - b[i]
      \/ /\ Starts(a, b) \/ Starts(b, a)
         /\ Compare(a, b) = IF Len(a) = Len(b) THEN 0 ELSE IF Len(a) < Len(b) THEN -1 ELSE 1
  BY CompareFacts
<1>4. ASSUME NEW i \in Nat, FirstDifference(a, b, i), Compare(a, b) = a[i] - b[i]
      PROVE  /\ Less(a, b) <=> Before(a, b)
             /\ Greater(a, b) <=> Before(b, a)
             /\ Equal(a, b) <=> LessOrEqual(a, b) /\ GreaterOrEqual(a, b)
  <2>1. /\ i \in 1 .. Len(a) /\ i \in 1 .. Len(b) /\ a[i] # b[i]
        /\ a[i] \in Int /\ b[i] \in Int
    BY <1>1, <1>4, RadixFacts DEF FirstDifference, Byte
  <2>2. ~Starts(a, b) /\ ~Starts(b, a) /\ ~Equal(a, b)
    BY <1>1, <2>1 DEF Starts, Equal
  <2>3. \A k \in Nat : FirstDifference(a, b, k) <=> k = i
    BY <1>1, <1>4, <2>1 DEF FirstDifference
  <2>4. \A k \in Nat : FirstDifference(b, a, k) <=> k = i
    BY <1>1, <2>3 DEF FirstDifference
  <2>5. (Before(a, b) <=> a[i] < b[i]) /\ (Before(b, a) <=> b[i] < a[i])
    BY <1>2, <2>2, <2>3, <2>4
  <2> QED  BY <1>4, <2>1, <2>2, <2>5 DEF Less, LessOrEqual, Greater, GreaterOrEqual
<1>5. ASSUME Starts(a, b) \/ Starts(b, a),
             Compare(a, b) = IF Len(a) = Len(b) THEN 0 ELSE IF Len(a) < Len(b) THEN -1 ELSE 1
      PROVE  /\ Less(a, b) <=> Before(a, b)
             /\ Greater(a, b) <=> Before(b, a)
             /\ Equal(a, b) <=> LessOrEqual(a, b) /\ GreaterOrEqual(a, b)
  <2>0. \A j \in Nat : j \in 1 .. Len(a) /\ j \in 1 .. Len(b) => a[j] = b[j]
    BY <1>1, <1>5 DEF Starts
  <2>1. \A i \in Nat : ~FirstDifference(a, b, i) /\ ~FirstDifference(b, a, i)
    BY <1>1, <2>0 DEF FirstDifference
  <2>2. /\ Before(a, b) <=> Len(a) < Len(b)
        /\ Before(b, a) <=> Len(b) < Len(a)
    <3>1. (Len(a) < Len(b) => Starts(a, b)) /\ (Len(b) < Len(a) => Starts(b, a))
      BY <1>1, <2>0 DEF Starts
    <3> QED  BY <1>2, <2>1, <3>1
  <2>3. Equal(a, b) <=> Len(a) = Len(b)
    BY <1>1, <1>5 DEF Starts, Equal
  <2>4. Len(a) \in Nat /\ Len(b) \in Nat
    BY <1>1
  <2>5. /\ Compare(a, b) < 0 <=> Len(a) < Len(b)
        /\ Compare(a, b) > 0 <=> Len(b) < Len(a)
        /\ Compare(a, b) <= 0 /\ Compare(a, b) >= 0 <=> Len(a) = Len(b)
    BY <1>5, <2>4
  <2> QED  BY <2>2, <2>3, <2>5, Zenon DEF Less, LessOrEqual, Greater, GreaterOrEqual
<1> QED  BY <1>3, <1>4, <1>5

\* compare() orders views as a dictionary does, and operator==, which does not use it,
\* agrees (data_view.hpp:144-230).
THEOREM ViewsCompareAsWords == Spec => []ViewsAreOrdered
<1>1. Init => payload \in Inputs
  BY DEF Init
<1>2. payload \in Inputs /\ [Next]_vars => (payload \in Inputs)'
  BY DEF Next, vars, Begin, Step, DropFront, SwapRanges, Jump
<1>3. payload \in Inputs => ViewsAreOrdered
  <2> SUFFICES ASSUME payload \in Inputs, NEW i \in 0 .. Len(payload), NEW j \in 0 .. Len(payload)
               PROVE  LET a == SubSeq(payload, 1, i)
                          b == SubSeq(payload, j + 1, Len(payload))
                      IN /\ Less(a, b) <=> Before(a, b)
                         /\ Greater(a, b) <=> Before(b, a)
                         /\ Equal(a, b) <=> LessOrEqual(a, b) /\ GreaterOrEqual(a, b)
    BY DEF ViewsAreOrdered
  <2>1. payload \in Seq(Byte) /\ Len(payload) \in Nat
    BY IteratorAssumption, LenProperties
  <2>2. /\ \A k \in 1 .. i : payload[k] \in Byte
        /\ \A k \in j + 1 .. Len(payload) : payload[k] \in Byte
    BY <2>1, ElementOfSeq
  <2>3. SubSeq(payload, 1, i) \in Seq(Byte) /\ SubSeq(payload, j + 1, Len(payload)) \in Seq(Byte)
    BY <2>1, <2>2, SubSeqProperties
  <2> QED  BY <2>3, Dictionary
<1> QED  BY <1>1, <1>2, <1>3, PTL DEF Spec

-----------------------------------------------------------------------------
(* Values of a fixed size.                                                  *)

\* As for varints: f[j] is the number of the bytes from j on.
Composes(f, d, at, last) ==
    f = [j \in at .. last |-> d[j] + (IF j = last THEN 0 ELSE ByteRadix * f[j + 1])]

LEMMA ByteRadixFacts == ByteRadix \in Nat /\ ByteRadix > 1 /\ Byte = 0 .. ByteRadix - 1
BY RadixFacts DEF ByteRadix, Byte

LEMMA PlaceNat ==
    ASSUME NEW a \in Nat, NEW b \in Nat
    PROVE  a + ByteRadix * b \in Nat
BY ByteRadixFacts, Product

LEMMA CompositionExists ==
    ASSUME NEW d, NEW at \in Nat, NEW last \in Nat, at <= last, Numbers(d, at, last)
    PROVE  \E f \in [at .. last -> Nat] : Composes(f, d, at, last)
<1> DEFINE Good(n) ==
        \A i \in Nat : i + n = last /\ Numbers(d, i, last) =>
            \E f \in [i .. last -> Nat] : Composes(f, d, i, last)
<1>1. Good(0)
  <2> SUFFICES ASSUME NEW i \in Nat, i + 0 = last, Numbers(d, i, last)
               PROVE  \E f \in [i .. last -> Nat] : Composes(f, d, i, last)
    OBVIOUS
  <2> DEFINE f == [j \in i .. last |-> d[j]]
  <2>1. i = last /\ \A j \in i .. last : d[j] \in Nat
    BY DEF Numbers
  <2>2. f \in [i .. last -> Nat]
    BY <2>1
  <2>3. Composes(f, d, i, last)
    BY <2>1 DEF Composes
  <2> HIDE DEF f
  <2> QED  BY <2>2, <2>3
<1>2. ASSUME NEW n \in Nat, n > 0, Good(n - 1)
      PROVE  Good(n)
  <2> SUFFICES ASSUME NEW i \in Nat, i + n = last, Numbers(d, i, last)
               PROVE  \E f \in [i .. last -> Nat] : Composes(f, d, i, last)
    OBVIOUS
  <2>1. i + 1 \in Nat /\ (i + 1) + (n - 1) = last /\ Numbers(d, i + 1, last)
    BY DEF Numbers
  <2>2. PICK g \in [i + 1 .. last -> Nat] : Composes(g, d, i + 1, last)
    BY <1>2, <2>1
  <2> DEFINE f == [j \in i .. last |-> IF j = i THEN d[i] + ByteRadix * g[i + 1] ELSE g[j]]
  <2>3. f \in [i .. last -> Nat]
    <3>1. d[i] + ByteRadix * g[i + 1] \in Nat
      <4>1. i + 1 \in i + 1 .. last /\ i \in i .. last
        BY <1>2
      <4>2. d[i] \in Nat /\ g[i + 1] \in Nat
        BY <4>1 DEF Numbers
      <4> QED  BY <4>2, PlaceNat
    <3>2. \A j \in i .. last : j # i => g[j] \in Nat
      OBVIOUS
    <3> QED  BY <3>1, <3>2
  <2>4. \A j \in i .. last : f[j] = d[j] + (IF j = last THEN 0 ELSE ByteRadix * f[j + 1])
    <3> SUFFICES ASSUME NEW j \in i .. last
                 PROVE  f[j] = d[j] + (IF j = last THEN 0 ELSE ByteRadix * f[j + 1])
      OBVIOUS
    <3>1. CASE j = i
      <4>1. i < last /\ j + 1 \in i .. last /\ j + 1 # i
        BY <3>1, <1>2
      <4> QED  BY <4>1, <3>1
    <3>2. CASE j # i
      <4>1. j \in i + 1 .. last /\ f[j] = g[j] /\ (j # last => f[j + 1] = g[j + 1])
        BY <3>2
      <4>2. g[j] = d[j] + (IF j = last THEN 0 ELSE ByteRadix * g[j + 1])
        BY <2>2, <4>1 DEF Composes
      <4> QED  BY <4>1, <4>2
    <3> QED  BY <3>1, <3>2
  <2>5. Composes(f, d, i, last)
    BY <2>4 DEF Composes
  <2> HIDE DEF f
  <2> QED  BY <2>3, <2>5
<1> HIDE DEF Good
<1>3. {n \in Nat : ~ Good(n)} = {}
  <2>1. \A n \in {k \in Nat : ~ Good(k)} : \E m \in {k \in Nat : ~ Good(k)} : m < n
    <3> SUFFICES ASSUME NEW n \in Nat, ~ Good(n)
                 PROVE  n - 1 \in Nat /\ ~ Good(n - 1) /\ n - 1 < n
      OBVIOUS
    <3> QED  BY <1>1, <1>2
  <2> QED  BY <2>1, Descent
<1>4. Good(last - at)
  BY <1>3
<1> QED  BY <1>4 DEF Good

LEMMA CompositionUnique ==
    ASSUME NEW d, NEW at \in Nat, NEW last \in Nat, at <= last,
           NEW f, NEW g, Composes(f, d, at, last), Composes(g, d, at, last)
    PROVE  f = g
<1> DEFINE S == {k \in 0 .. last - at : f[last - k] # g[last - k]}
<1>1. \A k \in S : \E m \in S : m < k
  <2> SUFFICES ASSUME NEW k \in S PROVE k - 1 \in S /\ k - 1 < k
    OBVIOUS
  <2> DEFINE j == last - k
  <2>1. j \in at .. last /\ f[j] # g[j]
    OBVIOUS
  <2>2. /\ f[j] = d[j] + (IF j = last THEN 0 ELSE ByteRadix * f[j + 1])
        /\ g[j] = d[j] + (IF j = last THEN 0 ELSE ByteRadix * g[j + 1])
    BY <2>1 DEF Composes
  <2>3. j # last /\ f[j + 1] # g[j + 1]
    BY <2>1, <2>2
  <2> QED  BY <2>1, <2>3
<1>2. S = {}
  <2>1. S \in SUBSET Nat
    OBVIOUS
  <2> HIDE DEF S
  <2> QED  BY <1>1, <2>1, Descent
<1>3. \A j \in at .. last : f[j] = g[j]
  <2> SUFFICES ASSUME NEW j \in at .. last PROVE f[j] = g[j]
    OBVIOUS
  <2>1. last - j \in 0 .. last - at /\ last - (last - j) = j
    OBVIOUS
  <2> QED  BY <1>2, <2>1
<1>4. f = [j \in at .. last |-> f[j]] /\ g = [j \in at .. last |-> g[j]]
  BY Zenon DEF Composes
<1> QED  BY <1>3, <1>4

\* Composed and LittleEndian mean that function.
LEMMA ComposedFacts ==
    ASSUME NEW d, NEW size \in Nat, size > 0, Numbers(d, 0, size - 1)
    PROVE  \E f \in [0 .. size - 1 -> Nat] :
              Composes(f, d, 0, size - 1) /\ Composed(d, size) = f[0]
<1> DEFINE F == CHOOSE f : f = [i \in 0 .. size - 1 |->
                    d[i] + (IF i = size - 1 THEN 0 ELSE ByteRadix * f[i + 1])]
<1>1. size - 1 \in Nat /\ 0 <= size - 1
  OBVIOUS
<1>2. PICK f \in [0 .. size - 1 -> Nat] : Composes(f, d, 0, size - 1)
  BY <1>1, CompositionExists
<1>3. Composes(F, d, 0, size - 1)
  BY <1>2 DEF Composes
<1>4. F = f
  <2> HIDE DEF F
  <2> QED  BY <1>1, <1>2, <1>3, CompositionUnique
<1>5. Composed(d, size) = F[0]
  BY DEF Composed
<1> HIDE DEF F
<1> QED  BY <1>2, <1>4, <1>5

LEMMA DivIs ==
    ASSUME NEW m \in Nat, m > 0, NEW q \in Nat, NEW r \in Nat, r < m
    PROVE  (m * q + r) \div m = q
<1> DEFINE n == m * q + r
           p == n \div m
<1>1. n \in Nat
  BY Product
<1>2. n % m = r
  BY RestIs
<1> HIDE DEF n
<1>3. p \in Nat /\ n = m * p + (n % m)
  BY <1>1, DivFacts
<1>4. m * p = m * q
  <2>1. m * p \in Nat /\ m * q \in Nat
    BY <1>3, Product
  <2>2. n = m * q + r
    BY DEF n
  <2> QED  BY <1>2, <1>3, <2>1, <2>2
<1> HIDE DEF p
<1>5. p = q
  BY <1>3, <1>4, SMTT(30)
<1> QED  BY <1>5 DEF n, p

\* Dividing twice.
LEMMA DivDiv ==
    ASSUME NEW n \in Nat, NEW a \in Nat, a > 0, NEW b \in Nat, b > 0
    PROVE  n \div (b * a) = (n \div a) \div b
<1> DEFINE q == n \div a
           r == n % a
           p == q \div b
           u == q % b
<1>1. q \in Nat /\ r \in Nat /\ r < a /\ n = a * q + r
  BY DivFacts
<1> HIDE DEF q, r
<1>2. p \in Nat /\ u \in Nat /\ u < b /\ q = b * p + u
  BY <1>1, DivFacts
<1> HIDE DEF p, u
<1>3. r + a * u < a * b
  BY <1>1, <1>2, GroupBound
<1>4. a * u \in Nat /\ b * a \in Nat /\ a * b = b * a /\ b * a > 0
  BY <1>2, Product, SMTT(30)
<1>5. n = (b * a) * p + (r + a * u)
  <2>1. a * (b * p + u) = (b * a) * p + a * u
    BY <1>2, SMTT(30)
  <2> QED  BY <1>1, <1>2, <1>4, <2>1, Product
<1>6. r + a * u \in Nat /\ r + a * u < b * a
  BY <1>1, <1>3, <1>4
<1>7. n \div (b * a) = p
  <2> DEFINE m == b * a
             s == r + a * u
  <2>1. m \in Nat /\ m > 0 /\ s \in Nat /\ s < m /\ n = m * p + s
    BY <1>4, <1>5, <1>6
  <2> HIDE DEF m, s
  <2>2. n \div m = p
    BY <1>2, <2>1, DivIs
  <2> QED  BY <2>2 DEF m
<1> QED  BY <1>7 DEF p, q

Places(size) ==
    /\ \A k \in 0 .. size - 1 : ByteRadix^k \in Nat \ {0}
    /\ ByteRadix^0 = 1
    /\ \A k \in 1 .. size - 1 : ByteRadix^k = ByteRadix * ByteRadix^(k - 1)

\* The digits of a number that was put together are those it was put together of.
LEMMA DigitOfComposed ==
    ASSUME NEW size \in Nat, size > 0, Places(size),
           NEW d, \A j \in 0 .. size - 1 : d[j] \in Byte, NEW i \in 0 .. size - 1
    PROVE  Digit(Composed(d, size), i) = d[i]
<1> DEFINE B == ByteRadix
<1>1. \A j \in 0 .. size - 1 : d[j] \in Nat /\ d[j] < B
  BY ByteRadixFacts
<1>2. PICK f \in [0 .. size - 1 -> Nat] :
              Composes(f, d, 0, size - 1) /\ Composed(d, size) = f[0]
  BY <1>1, ComposedFacts DEF Numbers
<1>3. ASSUME NEW j \in 0 .. size - 1
      PROVE  f[j] % B = d[j] /\ (j # size - 1 => f[j] \div B = f[j + 1])
  <2>1. f[j] = d[j] + (IF j = size - 1 THEN 0 ELSE B * f[j + 1])
    BY <1>2 DEF Composes
  <2>2. B \in Nat /\ B > 0 /\ d[j] \in Nat /\ d[j] < B
    BY <1>1, ByteRadixFacts
  <2> HIDE DEF B
  <2>3. CASE j = size - 1
    <3>1. f[j] = B * 0 + d[j]
      BY <2>1, <2>2, <2>3
    <3> QED  BY <2>2, <2>3, <3>1, RestIs
  <2>4. CASE j # size - 1
    <3> DEFINE q == f[j + 1]
    <3>1. q \in Nat
      BY <2>4
    <3> HIDE DEF q
    <3>2. B * q \in Nat
      BY <2>2, <3>1, Product
    <3>3. f[j] = B * q + d[j]
      BY <2>1, <2>2, <2>4, <3>2 DEF q
    <3>4. (B * q + d[j]) % B = d[j] /\ (B * q + d[j]) \div B = q
      BY <2>2, <3>1, RestIs, DivIs
    <3> QED  BY <3>3, <3>4 DEF q
  <2> QED  BY <2>3, <2>4
<1> DEFINE S == {k \in 0 .. size - 1 : f[0] \div B^k # f[k]}
<1>4. f[0] \in Nat /\ f[0] \div B^0 = f[0]
  <2>1. f[0] \in Nat
    BY <1>2
  <2>2. f[0] \div 1 = f[0]
    BY <2>1
  <2> QED  BY <2>1, <2>2 DEF Places
<1>5. ASSUME NEW k \in S PROVE k - 1 \in S
  <2>1. k \in 1 .. size - 1 /\ k - 1 \in 0 .. size - 1 /\ (k - 1) + 1 = k /\ k - 1 # size - 1
    BY <1>4
  <2>2. B^k = B * B^(k - 1) /\ B^(k - 1) \in Nat /\ B^(k - 1) > 0
    BY <2>1 DEF Places
  <2>3. f[0] \div (B * B^(k - 1)) = (f[0] \div B^(k - 1)) \div B
    <3> DEFINE P == B^(k - 1)
    <3>1. B \in Nat /\ B > 0 /\ P \in Nat /\ P > 0
      BY <2>2, ByteRadixFacts
    <3> HIDE DEF P, B
    <3>2. f[0] \div (B * P) = (f[0] \div P) \div B
      BY <1>4, <3>1, DivDiv
    <3> QED  BY <3>2 DEF P
  <2>4. f[k - 1] \div B = f[k]
    BY <1>3, <2>1
  <2> QED  BY <2>1, <2>2, <2>3, <2>4
<1>6. S = {}
  <2>1. S \in SUBSET Nat /\ \A k \in S : k - 1 < k
    OBVIOUS
  <2> HIDE DEF S
  <2> QED  BY <1>5, <2>1, Descent
<1>7. f[0] \div B^i = f[i]
  BY <1>6
<1> QED  BY <1>2, <1>3, <1>7 DEF Digit

\* Swapping the bytes of a number that was put together.
LEMMA SwapFacts ==
    ASSUME NEW size \in Nat, size > 0, Places(size),
           NEW d, \A j \in 0 .. size - 1 : d[j] \in Byte
    PROVE  /\ ByteswapImpl(Composed(d, size), size)
                = Composed([j \in 0 .. size - 1 |-> d[size - 1 - j]], size)
           /\ \A i \in 0 .. size - 1 :
                Digit(ByteswapImpl(Composed(d, size), size), i) = d[size - 1 - i]
<1> DEFINE v == Composed(d, size)
           e == [j \in 0 .. size - 1 |-> d[size - 1 - j]]
<1>1. \A j \in 0 .. size - 1 : size - 1 - j \in 0 .. size - 1
  OBVIOUS
<1>2. \A j \in 0 .. size - 1 : e[j] = d[size - 1 - j] /\ e[j] \in Byte
  BY <1>1
<1>3. \A j \in 0 .. size - 1 : Digit(v, j) = d[j]
  BY DigitOfComposed
<1> HIDE DEF v
<1>4. [j \in 0 .. size - 1 |-> Digit(v, size - 1 - j)] = e
  BY <1>1, <1>3
<1>5. ByteswapImpl(v, size) = Composed(e, size)
  BY <1>4, Zenon DEF ByteswapImpl
<1> HIDE DEF e
<1>6. \A i \in 0 .. size - 1 : Digit(Composed(e, size), i) = e[i]
  BY <1>2, DigitOfComposed
<1> QED  BY <1>2, <1>5, <1>6 DEF v, e

\* A host of either byte order reads the same number from the same bytes ...
LEMMA GetFixedIs ==
    ASSUME NEW size \in Nat, size > 0, Places(size), NEW s, NEW at \in Nat, NEW host \in Host,
           \A j \in 0 .. size - 1 : s[at + j] \in Byte
    PROVE  GetFixedNumber(s, at, size, host) = Composed([i \in 0 .. size - 1 |-> s[at + i]], size)
<1> DEFINE d == [i \in 0 .. size - 1 |-> s[at + i]]
           e == [i \in 0 .. size - 1 |-> s[at + size - 1 - i]]
<1>1. CASE host = "little"
  BY <1>1 DEF GetFixedNumber, FromMemory
<1>2. CASE host # "little"
  <2>1. \A j \in 0 .. size - 1 : /\ size - 1 - j \in 0 .. size - 1
                                 /\ at + size - 1 - j = at + (size - 1 - j)
                                 /\ at + size - 1 - (size - 1 - j) = at + j
    OBVIOUS
  <2>2. \A j \in 0 .. size - 1 : e[j] \in Byte
    BY <2>1
  <2>3. [j \in 0 .. size - 1 |-> e[size - 1 - j]] = d
    BY <2>1
  <2>4. GetFixedNumber(s, at, size, host) = ByteswapImpl(Composed(e, size), size)
    BY <1>2, Zenon DEF GetFixedNumber, FromMemory
  <2> HIDE DEF e, d
  <2>5. ByteswapImpl(Composed(e, size), size)
            = Composed([j \in 0 .. size - 1 |-> e[size - 1 - j]], size)
    BY <2>2, SwapFacts
  <2> QED  BY <2>3, <2>4, <2>5 DEF d
<1> QED  BY <1>1, <1>2

\* ... and writes the same bytes for the same number.
LEMMA AddFixedIs ==
    ASSUME NEW size \in Nat, size > 0, Places(size), NEW s \in Seq(Byte), Len(s) = size,
           NEW host \in Host
    PROVE  AddFixed(Composed([i \in 0 .. size - 1 |-> s[1 + i]], size), size, host) = s
<1> DEFINE d == [i \in 0 .. size - 1 |-> s[1 + i]]
           v == Composed(d, size)
           w == ByteswapImpl(v, size)
<1>1. /\ s = [n \in 1 .. size |-> s[n]]
      /\ \A j \in 0 .. size - 1 : d[j] = s[1 + j] /\ d[j] \in Byte
  BY ElementOfSeq, LenProperties
<1>2. \A n \in 1 .. size : /\ n - 1 \in 0 .. size - 1 /\ size - n \in 0 .. size - 1
                           /\ 1 + (n - 1) = n /\ 1 + (size - 1 - (size - n)) = n
                           /\ size - 1 - (size - n) \in 0 .. size - 1
  OBVIOUS
<1> HIDE DEF d
<1>3. \A i \in 0 .. size - 1 : Digit(v, i) = d[i] /\ Digit(w, i) = d[size - 1 - i]
  BY <1>1, DigitOfComposed, SwapFacts
<1> HIDE DEF v, w
<1>4. /\ \A n \in 1 .. size : Digit(v, n - 1) = s[n]
      /\ \A n \in 1 .. size : Digit(w, size - n) = s[n]
  <2> SUFFICES ASSUME NEW n \in 1 .. size
               PROVE  Digit(v, n - 1) = s[n] /\ Digit(w, size - n) = s[n]
    OBVIOUS
  <2>1. Digit(v, n - 1) = d[n - 1] /\ d[n - 1] = s[1 + (n - 1)]
    BY <1>1, <1>2, <1>3
  <2>2. /\ Digit(w, size - n) = d[size - 1 - (size - n)]
        /\ d[size - 1 - (size - n)] = s[1 + (size - 1 - (size - n))]
    BY <1>1, <1>2, <1>3
  <2> QED  BY <1>2, <2>1, <2>2
<1>5. InMemory(v, size, "little") = s
  <2>1. InMemory(v, size, "little") = [n \in 1 .. size |-> Digit(v, n - 1)]
    BY DEF InMemory
  <2> QED  BY <1>1, <1>4, <2>1
<1>6. host # "little" => InMemory(w, size, host) = s
  <2>1. host # "little" => InMemory(w, size, host) = [n \in 1 .. size |-> Digit(w, size - n)]
    BY DEF InMemory
  <2> QED  BY <1>1, <1>4, <2>1
<1>7. AddFixed(v, size, host) = s
  BY <1>5, <1>6 DEF AddFixed, w
<1> QED  BY <1>7 DEF v, d

LEMMA SizeFacts ==
    ASSUME NEW size \in {Fixed32Bytes, Fixed64Bytes}
    PROVE  size \in Nat /\ size > 0 /\ Places(size)
BY WidthAssumption, PlaceAssumption DEF Places

\* A fixed-size value is the same bytes and the same number for hosts of both byte
\* orders (byteswap.hpp:26-50, pbf_writer.hpp:91-99, pbf_reader.hpp:76-86).
THEOREM FixedValuesSurvive == Spec => []FixedSurvive
<1>1. Init => payload \in Inputs
  BY DEF Init
<1>2. payload \in Inputs /\ [Next]_vars => (payload \in Inputs)'
  BY DEF Next, vars, Begin, Step, DropFront, SwapRanges, Jump
<1>3. payload \in Inputs => FixedSurvive
  <2> DEFINE size == Len(payload)
             value == GetFixedNumber(payload, 1, size, "little")
  <2> SUFFICES ASSUME payload \in Inputs, size \in {Fixed32Bytes, Fixed64Bytes},
                      NEW writer \in Host, NEW reader \in Host
               PROVE  /\ AddFixed(value, size, writer) = payload
                      /\ GetFixedNumber(AddFixed(value, size, writer), 1, size, reader) = value
    BY DEF FixedSurvive
  <2>1. payload \in Seq(Byte) /\ Len(payload) = size
    BY IteratorAssumption
  <2>2. size \in Nat /\ size > 0 /\ Places(size)
    BY SizeFacts
  <2> HIDE DEF size
  <2>3. \A j \in 0 .. size - 1 : 1 + j \in 1 .. size
    BY <2>2
  <2>4. \A j \in 0 .. size - 1 : payload[1 + j] \in Byte
    BY <2>1, <2>3, ElementOfSeq
  <2>5. \A host \in Host : GetFixedNumber(payload, 1, size, host)
                                = Composed([i \in 0 .. size - 1 |-> payload[1 + i]], size)
    BY <2>2, <2>4, GetFixedIs
  <2>6. "little" \in Host
    BY DEF Host
  <2>7. AddFixed(value, size, writer) = payload
    <3>1. AddFixed(Composed([i \in 0 .. size - 1 |-> payload[1 + i]], size), size, writer) = payload
      BY <2>1, <2>2, AddFixedIs
    <3> QED  BY <2>5, <2>6, <3>1
  <2> QED  BY <2>5, <2>6, <2>7
<1> QED  BY <1>1, <1>2, <1>3, PTL DEF Spec

-----------------------------------------------------------------------------
(* Iterators over packed fields.                                            *)

\* The field a client walks through, the type of an element's place in it, ...
Packed ==
    /\ payload \in Inputs /\ kind \in Kinds
    /\ kind \in FixedKind => Len(payload) % ElementSize(kind) = 0

Extent == [start : Int, end : Int]
ElementAt(i) == [start |-> i, end |-> ElementEnd(i)]

\* ... and the lists of the elements from each byte on.
Lists(f, i) ==
    f = [j \in i .. Len(payload) + 1 |->
            IF HasElement(j) THEN <<ElementAt(j)>> \o f[ElementEnd(j) + 1] ELSE <<>>]

LEMMA FieldIs ==
    ASSUME Packed
    PROVE  /\ payload \in Seq(Byte) /\ Len(payload) \in Nat
           /\ kind \in VarintKind \cup FixedKind
           /\ ElementSize(kind) \in Nat /\ ElementSize(kind) > 0 /\ Places(ElementSize(kind))
<1>1. payload \in Seq(Byte) /\ kind \in VarintKind \cup FixedKind
  BY IteratorAssumption DEF Packed
<1>2. ElementSize(kind) \in {Fixed32Bytes, Fixed64Bytes}
  BY DEF ElementSize
<1> QED  BY <1>1, <1>2, SizeFacts, LenProperties

\* Elements do not leave the field.
LEMMA ElementEnds ==
    ASSUME Packed, NEW i \in 1 .. Len(payload) + 1, HasElement(i)
    PROVE  /\ ElementEnd(i) \in i .. Len(payload)
           /\ kind \notin FixedKind => IsVarint(payload, i, ElementEnd(i))
<1>1. payload \in Seq(Byte) /\ Len(payload) \in Nat /\ ElementSize(kind) \in Nat
      /\ ElementSize(kind) > 0
  BY FieldIs
<1>2. CASE kind \in FixedKind
  BY <1>1, <1>2 DEF HasElement, ElementEnd
<1>3. CASE kind \notin FixedKind
  <2>1. VarintStops(payload, i) # {} /\ ElementEnd(i) = VarintEnd(payload, i)
    BY <1>3, SameParser DEF HasElement, ElementEnd
  <2>2. VarintEnd(payload, i) \in i .. Len(payload)
        /\ IsVarint(payload, i, VarintEnd(payload, i))
    BY <1>1, <2>1, StopsFound
  <2> QED  BY <2>1, <2>2
<1> QED  BY <1>2, <1>3

LEMMA ListsExist == ASSUME Packed PROVE \E f : Lists(f, 1)
<1> DEFINE end == Len(payload) + 1
           Good(n) == \A i \in Nat : i > 0 /\ i + n = end => \E f : Lists(f, i)
<1>1. end \in Nat /\ end > 0 /\ \A i \in 1 .. end : HasElement(i) => ElementEnd(i) \in i .. end - 1
  BY FieldIs, ElementEnds
<1>2. Good(0)
  <2> SUFFICES ASSUME NEW i \in Nat, i > 0, i + 0 = end PROVE \E f : Lists(f, i)
    OBVIOUS
  <2> DEFINE f == [j \in i .. end |-> <<>>]
  <2>1. i = end /\ ~HasElement(end)
    BY <1>1
  <2>2. f = [j \in i .. end |->
                IF HasElement(j) THEN <<ElementAt(j)>> \o f[ElementEnd(j) + 1] ELSE <<>>]
    BY <2>1
  <2>3. Lists(f, i)
    BY <2>2, Zenon DEF Lists
  <2> QED  BY <2>3
<1>3. ASSUME NEW n \in Nat, n > 0, Good(n - 1) PROVE Good(n)
  <2> SUFFICES ASSUME NEW i \in Nat, i > 0, i + n = end PROVE \E f : Lists(f, i)
    OBVIOUS
  <2>1. i + 1 \in Nat /\ i + 1 > 0 /\ (i + 1) + (n - 1) = end
    BY <1>1
  <2>2. PICK g : Lists(g, i + 1)
    BY <1>3, <2>1
  <2> DEFINE f == [j \in i .. end |->
                      IF j = i THEN IF HasElement(i) THEN <<ElementAt(i)>> \o g[ElementEnd(i) + 1]
                                    ELSE <<>>
                      ELSE g[j]]
  <2>3. ASSUME NEW j \in i .. end
        PROVE  f[j] = IF HasElement(j) THEN <<ElementAt(j)>> \o f[ElementEnd(j) + 1] ELSE <<>>
    <3>1. HasElement(j) => /\ ElementEnd(j) + 1 \in i .. end /\ ElementEnd(j) + 1 # i
                           /\ f[ElementEnd(j) + 1] = g[ElementEnd(j) + 1]
      <4>1. HasElement(j) => ElementEnd(j) \in j .. end - 1
        BY <1>1
      <4> QED  BY <1>1, <4>1
    <3>2. CASE j = i
      BY <3>1, <3>2
    <3>3. CASE j # i
      <4>1. j \in i + 1 .. end /\ f[j] = g[j]
        BY <3>3
      <4>2. g[j] = IF HasElement(j) THEN <<ElementAt(j)>> \o g[ElementEnd(j) + 1] ELSE <<>>
        <5> HIDE DEF f
        <5> QED  BY <2>2, <4>1 DEF Lists
      <4> QED  BY <3>1, <4>1, <4>2
    <3> QED  BY <3>2, <3>3
  <2>4. DOMAIN f = i .. end /\ f = [j \in i .. end |-> f[j]]
    OBVIOUS
  <2> HIDE DEF f
  <2>5. f = [j \in i .. end |->
                IF HasElement(j) THEN <<ElementAt(j)>> \o f[ElementEnd(j) + 1] ELSE <<>>]
    BY <2>3, <2>4
  <2>6. Lists(f, i)
    BY <2>5, Zenon DEF Lists
  <2> QED  BY <2>6
<1> HIDE DEF Good, end
<1>4. {n \in Nat : ~ Good(n)} = {}
  <2>1. \A n \in {k \in Nat : ~ Good(k)} : \E m \in {k \in Nat : ~ Good(k)} : m < n
    <3> SUFFICES ASSUME NEW n \in Nat, ~ Good(n)
                 PROVE  n - 1 \in Nat /\ ~ Good(n - 1) /\ n - 1 < n
      OBVIOUS
    <3> QED  BY <1>2, <1>3
  <2> QED  BY <2>1, Descent
<1>5. end - 1 \in Nat /\ 1 + (end - 1) = end
  BY <1>1
<1>6. Good(end - 1)
  BY <1>4, <1>5
<1> QED  BY <1>5, <1>6 DEF Good

LEMMA ElementsFromIs ==
    ASSUME Packed, NEW i \in 1 .. Len(payload) + 1
    PROVE  /\ ElementsFrom[i] \in Seq(Extent)
           /\ ElementsFrom[i] = IF HasElement(i)
                                THEN <<ElementAt(i)>> \o ElementsFrom[ElementEnd(i) + 1]
                                ELSE <<>>
<1> DEFINE end == Len(payload) + 1
           f == ElementsFrom
<1>1. end \in Nat /\ end > 0
  BY FieldIs
<1>2. Lists(f, 1)
  <2>1. PICK g : Lists(g, 1)
    BY ListsExist
  <2> QED  BY <2>1, Zenon DEF Lists, ElementsFrom, ElementAt
<1> HIDE DEF f
<1>3. \A j \in 1 .. end :
          f[j] = IF HasElement(j) THEN <<ElementAt(j)>> \o f[ElementEnd(j) + 1] ELSE <<>>
  BY <1>2 DEF Lists
<1> HIDE DEF end
<1> DEFINE S == {k \in 0 .. end - 1 : f[end - k] \notin Seq(Extent)}
<1>4. ASSUME NEW k \in S PROVE \E m \in S : m < k
  <2> DEFINE j == end - k
             m == end - (ElementEnd(j) + 1)
  <2>1. j \in 1 .. end /\ f[j] \notin Seq(Extent)
    BY <1>1
  <2>2. HasElement(j)
    <3>1. <<>> \in Seq(Extent)
      OBVIOUS
    <3> HIDE DEF j
    <3>2. ~HasElement(j) => f[j] = <<>>
      BY <1>3, <2>1
    <3> QED  BY <2>1, <3>1, <3>2
  <2>3. ElementEnd(j) \in j .. end - 1
    BY <2>1, <2>2, ElementEnds DEF end
  <2>4. <<ElementAt(j)>> \in Seq(Extent)
    BY <2>1, <2>3, <1>1 DEF Extent, ElementAt
  <2>5. f[ElementEnd(j) + 1] \notin Seq(Extent)
    BY <1>3, <2>1, <2>2, <2>4, ConcatProperties
  <2>6. m \in 0 .. end - 1 /\ end - m = ElementEnd(j) + 1 /\ m < k
    BY <1>1, <2>1, <2>3
  <2> QED  BY <2>5, <2>6
<1>5. S = {}
  <2>1. S \in SUBSET Nat
    OBVIOUS
  <2> HIDE DEF S
  <2> QED  BY <1>4, <2>1, Descent
<1>6. end - i \in 0 .. end - 1 /\ end - (end - i) = i
  BY <1>1 DEF end
<1>7. f[i] \in Seq(Extent)
  BY <1>5, <1>6
<1> QED  BY <1>3, <1>7 DEF end, f

\* The iterator that stands on the byte i has n elements behind it and the rest
\* before it.
Reached(i, n) ==
    /\ i \in 1 .. Len(payload) + 1 /\ n \in 0 .. Len(Elements)
    /\ i = IF n = 0 THEN 1 ELSE Elements[n].end + 1
    /\ Len(ElementsFrom[i]) = Len(Elements) - n
    /\ \A k \in 1 .. Len(Elements) - n : ElementsFrom[i][k] = Elements[n + k]

LEMMA ElementsAre == ASSUME Packed PROVE Elements \in Seq(Extent) /\ Len(Elements) \in Nat
<1>1. 1 \in 1 .. Len(payload) + 1
  BY FieldIs
<1>2. Elements \in Seq(Extent)
  BY <1>1, ElementsFromIs DEF Elements
<1> QED  BY <1>2, LenProperties

LEMMA ReachedFirst == ASSUME Packed PROVE Reached(1, 0)
<1>1. 1 \in 1 .. Len(payload) + 1 /\ Len(Elements) \in Nat
  BY FieldIs, ElementsAre
<1>2. Len(ElementsFrom[1]) = Len(Elements) - 0
  BY <1>1 DEF Elements
<1>3. \A k \in 1 .. Len(Elements) - 0 : 0 + k = k
  BY <1>1
<1>4. \A k \in 1 .. Len(Elements) - 0 : ElementsFrom[1][k] = Elements[0 + k]
  BY <1>3 DEF Elements
<1>5. 0 \in 0 .. Len(Elements)
  BY <1>1
<1> QED  BY <1>1, <1>2, <1>4, <1>5 DEF Reached

\* It can go on as long as an element starts there.
LEMMA ReachedNext ==
    ASSUME Packed, NEW i, NEW n, Reached(i, n), HasElement(i)
    PROVE  /\ n < Len(Elements) /\ Elements[n + 1] = ElementAt(i)
           /\ Reached(ElementEnd(i) + 1, n + 1)
<1> DEFINE from == ElementsFrom[i]
           j == ElementEnd(i) + 1
           rest == ElementsFrom[j]
           one == <<ElementAt(i)>>
<1>1. i \in 1 .. Len(payload) + 1 /\ n \in 0 .. Len(Elements) /\ Len(Elements) \in Nat
      /\ Len(payload) \in Nat
  BY FieldIs, ElementsAre DEF Reached
<1>2. Len(from) = Len(Elements) - n /\ \A k \in 1 .. Len(Elements) - n : from[k] = Elements[n + k]
  BY DEF Reached
<1>3. ElementEnd(i) \in i .. Len(payload) /\ j \in 1 .. Len(payload) + 1
  BY <1>1, ElementEnds
<1>4. from = one \o rest /\ from \in Seq(Extent) /\ rest \in Seq(Extent)
  BY <1>1, <1>3, ElementsFromIs
<1>5. one \in Seq(Extent) /\ Len(one) = 1 /\ one[1] = ElementAt(i)
  <2>1. ElementAt(i) \in Extent
    BY <1>1, <1>3 DEF Extent, ElementAt
  <2> HIDE DEF one
  <2> QED  BY <2>1 DEF one
<1> HIDE DEF from, rest, one, j
<1>6. /\ Len(one \o rest) = Len(one) + Len(rest)
      /\ \A k \in 1 .. Len(one) + Len(rest) :
            (one \o rest)[k] = IF k <= Len(one) THEN one[k] ELSE rest[k - Len(one)]
  BY <1>4, <1>5, ConcatProperties
<1>7. Len(rest) \in Nat
  BY <1>4, LenProperties
<1>8. /\ Len(from) = 1 + Len(rest) /\ from[1] = ElementAt(i)
      /\ \A k \in 1 .. Len(rest) : k + 1 \in 1 .. Len(from) /\ from[k + 1] = rest[k]
  <2>1. /\ Len(from) = 1 + Len(rest)
        /\ \A k \in 1 .. 1 + Len(rest) :
              from[k] = IF k <= 1 THEN one[k] ELSE rest[k - 1]
    BY <1>4, <1>5, <1>6
  <2>2. \A k \in 1 .. Len(rest) : k + 1 \in 1 .. 1 + Len(rest) /\ ~(k + 1 <= 1) /\ (k + 1) - 1 = k
    BY <1>7
  <2> QED  BY <1>5, <1>7, <2>1, <2>2
<1>9. /\ n < Len(Elements) /\ n + 1 \in 0 .. Len(Elements) /\ Len(rest) = Len(Elements) - (n + 1)
      /\ 1 \in 1 .. Len(Elements) - n
  <2>1. Len(Elements) - n = 1 + Len(rest)
    BY <1>2, <1>8
  <2> QED  BY <1>1, <1>7, <2>1
<1>10. Elements[n + 1] = ElementAt(i)
  BY <1>2, <1>8, <1>9
<1>11. \A k \in 1 .. Len(Elements) - (n + 1) : rest[k] = Elements[(n + 1) + k]
  <2> SUFFICES ASSUME NEW k \in 1 .. Len(Elements) - (n + 1) PROVE rest[k] = Elements[(n + 1) + k]
    OBVIOUS
  <2>1. k + 1 \in 1 .. Len(Elements) - n /\ n + (k + 1) = (n + 1) + k /\ k \in 1 .. Len(rest)
    BY <1>1, <1>9
  <2> QED  BY <1>2, <1>8, <2>1
<1>12. j = IF n + 1 = 0 THEN 1 ELSE Elements[n + 1].end + 1
  BY <1>1, <1>10 DEF j, ElementAt
<1>13. Reached(j, n + 1)
  BY <1>3, <1>9, <1>11, <1>12 DEF Reached, rest
<1> QED  BY <1>9, <1>10, <1>13 DEF j

LEMMA ReachedEnd ==
    ASSUME Packed, NEW i, NEW n, Reached(i, n)
    PROVE  /\ HasElement(i) <=> n < Len(Elements)
           /\ ~HasElement(i) <=> n = Len(Elements)
<1>1. i \in 1 .. Len(payload) + 1 /\ n \in 0 .. Len(Elements) /\ Len(Elements) \in Nat
      /\ Len(ElementsFrom[i]) = Len(Elements) - n
  BY ElementsAre DEF Reached
<1>2. HasElement(i) => n < Len(Elements)
  BY ReachedNext
<1>3. ~HasElement(i) => n = Len(Elements)
  <2>1. Len(<<>>) = 0
    OBVIOUS
  <2>2. ~HasElement(i) => ElementsFrom[i] = <<>>
    BY <1>1, ElementsFromIs
  <2> QED  BY <1>1, <2>1, <2>2
<1> QED  BY <1>1, <1>2, <1>3

\* One place for each number of elements.
LEMMA ReachedAll ==
    ASSUME Packed, NEW n \in 0 .. Len(Elements)
    PROVE  \E i : Reached(i, n) /\ \A j : Reached(j, n) => j = i
<1> DEFINE S == {k \in 0 .. Len(Elements) : \A i : ~Reached(i, k)}
<1>1. ASSUME NEW k \in S PROVE \E m \in S : m < k
  <2>1. Len(Elements) \in Nat /\ k \in 0 .. Len(Elements) /\ k # 0
    BY ElementsAre, ReachedFirst
  <2>2. k - 1 \in 0 .. Len(Elements) /\ k - 1 < k /\ k - 1 < Len(Elements) /\ (k - 1) + 1 = k
    BY <2>1
  <2>3. ASSUME NEW i, Reached(i, k - 1) PROVE FALSE
    <3>1. HasElement(i)
      BY <2>2, <2>3, ReachedEnd
    <3>2. Reached(ElementEnd(i) + 1, (k - 1) + 1)
      BY <2>3, <3>1, ReachedNext
    <3> QED  BY <2>2, <3>2
  <2> QED  BY <2>2, <2>3
<1>2. S = {}
  <2>1. S \in SUBSET Nat
    BY ElementsAre
  <2> HIDE DEF S
  <2> QED  BY <1>1, <2>1, Descent
<1>3. PICK i : Reached(i, n)
  BY <1>2
<1>4. \A j : Reached(j, n) => j = i
  BY <1>3 DEF Reached
<1> QED  BY <1>3, <1>4

\* Each varint has one byte that ends it.
Ends(a, b) == {j \in a .. b : payload[j] < Radix}

LEMMA EndsFacts ==
    ASSUME NEW a \in Int, NEW b \in Int, NEW c \in Int, a <= b + 1, b <= c
    PROVE  /\ IsFiniteSet(Ends(a, c)) /\ Cardinality(Ends(a, c)) \in Nat
           /\ Cardinality(Ends(a, c)) = Cardinality(Ends(a, b)) + Cardinality(Ends(b + 1, c))
           /\ Cardinality(Ends(a, c)) = 0 <=> Ends(a, c) = {}
<1>1. ASSUME NEW x \in Int, NEW y \in Int PROVE IsFiniteSet(Ends(x, y))
  <2>1. IsFiniteSet(x .. y)
    BY FS_Interval
  <2>2. Ends(x, y) \in SUBSET (x .. y)
    BY DEF Ends
  <2> QED  BY <2>1, <2>2, FS_Subset
<1>2. Ends(a, c) = Ends(a, b) \cup Ends(b + 1, c) /\ Ends(a, b) \cap Ends(b + 1, c) = {}
  BY DEF Ends
<1>3. IsFiniteSet(Ends(a, b)) /\ IsFiniteSet(Ends(b + 1, c)) /\ IsFiniteSet(Ends(a, c))
  BY <1>1
<1>4. /\ Cardinality(Ends(a, b)) \in Nat /\ Cardinality(Ends(b + 1, c)) \in Nat
      /\ Cardinality(Ends(a, c)) \in Nat
  BY <1>3, FS_CardinalityType
<1>5. Cardinality(Ends(a, b) \cup Ends(b + 1, c)) =
          Cardinality(Ends(a, b)) + Cardinality(Ends(b + 1, c))
            - Cardinality(Ends(a, b) \cap Ends(b + 1, c))
  BY <1>3, FS_Union
<1>6. Cardinality({}) = 0 /\ (Cardinality(Ends(a, c)) = 0 <=> Ends(a, c) = {})
  BY <1>3, FS_EmptySet
<1>7. Cardinality(Ends(a, c)) = Cardinality(Ends(a, b)) + Cardinality(Ends(b + 1, c)) - 0
  BY <1>2, <1>5, <1>6, Zenon
<1>8. Cardinality(Ends(a, c)) = Cardinality(Ends(a, b)) + Cardinality(Ends(b + 1, c))
  <2> DEFINE x == Cardinality(Ends(a, b))
             y == Cardinality(Ends(b + 1, c))
  <2>1. x \in Nat /\ y \in Nat
    BY <1>4
  <2> HIDE DEF x, y
  <2>2. x + y - 0 = x + y
    BY <2>1
  <2> QED  BY <1>7, <2>2, Zenon DEF x, y
<1> QED  BY <1>3, <1>4, <1>6, <1>8, Zenon

LEMMA ReachedEnds ==
    ASSUME Packed, kind \notin FixedKind, NEW i, NEW n, Reached(i, n)
    PROVE  Cardinality(Ends(1, i - 1)) = n
<1> DEFINE S == {k \in 0 .. Len(Elements) :
                    \E j : Reached(j, k) /\ Cardinality(Ends(1, j - 1)) # k}
<1>1. ASSUME NEW k \in S PROVE \E m \in S : m < k
  <2>1. PICK j : Reached(j, k) /\ Cardinality(Ends(1, j - 1)) # k
    OBVIOUS
  <2>2. Len(Elements) \in Nat /\ k \in 0 .. Len(Elements)
    BY ElementsAre
  <2>3. k # 0
    <3> SUFFICES ASSUME k = 0 PROVE FALSE
      OBVIOUS
    <3>1. j = 1
      BY <2>1 DEF Reached
    <3>2. Ends(1, j - 1) = {}
      BY <3>1 DEF Ends
    <3>3. Cardinality({}) = 0
      BY FS_EmptySet
    <3> QED  BY <2>1, <3>1, <3>2, <3>3
  <2>4. k - 1 \in 0 .. Len(Elements) /\ k - 1 < Len(Elements) /\ (k - 1) + 1 = k /\ k - 1 < k
    BY <2>2, <2>3
  <2>5. PICK i0 : Reached(i0, k - 1)
    BY <2>4, ReachedAll
  <2>6. HasElement(i0) /\ i0 \in 1 .. Len(payload) + 1
    BY <2>4, <2>5, ReachedEnd DEF Reached
  <2>7. j = ElementEnd(i0) + 1
    <3>1. Reached(ElementEnd(i0) + 1, k)
      BY <2>4, <2>5, <2>6, ReachedNext
    <3> QED  BY <2>1, <2>2, <3>1, ReachedAll
  <2>8. /\ ElementEnd(i0) \in i0 .. Len(payload) /\ i0 \in Nat /\ i0 > 0 /\ ElementEnd(i0) \in Nat
        /\ IsVarint(payload, i0, ElementEnd(i0))
    BY <2>6, ElementEnds, FieldIs
  <2> DEFINE e == ElementEnd(i0)
  <2> HIDE DEF e
  <2>9. Cardinality(Ends(1, e)) = Cardinality(Ends(1, i0 - 1)) + Cardinality(Ends((i0 - 1) + 1, e))
    <3>1. 1 <= (i0 - 1) + 1 /\ i0 - 1 <= e /\ i0 - 1 \in Int /\ e \in Int
      BY <2>8 DEF e
    <3> QED  BY <3>1, EndsFacts
  <2>10. Ends((i0 - 1) + 1, e) = {e} /\ Cardinality({e}) = 1
    <3>1. Ends((i0 - 1) + 1, e) = {e}
      BY <2>8 DEF Ends, IsVarint, e
    <3>2. Cardinality({e}) = 1
      BY FS_Singleton
    <3> QED  BY <3>1, <3>2
  <2>11. j - 1 = e
    BY <2>7, <2>8 DEF e
  <2>12. Cardinality(Ends(1, i0 - 1)) # k - 1
    BY <2>1, <2>4, <2>9, <2>10, <2>11
  <2> QED  BY <2>4, <2>5, <2>12
<1>2. S = {}
  <2>1. S \in SUBSET Nat
    BY ElementsAre
  <2> HIDE DEF S
  <2> QED  BY <1>1, <2>1, Descent
<1>3. n \in 0 .. Len(Elements)
  BY DEF Reached
<1> QED  BY <1>2, <1>3

\* Elements of a fixed size stand side by side.
LEMMA ReachedFixed ==
    ASSUME Packed, kind \in FixedKind, NEW i, NEW n, Reached(i, n)
    PROVE  i = 1 + ElementSize(kind) * n
<1> DEFINE size == ElementSize(kind)
           S == {k \in 0 .. Len(Elements) : \E j : Reached(j, k) /\ j # 1 + size * k}
<1>0. size \in Nat
  BY FieldIs
<1>1. ASSUME NEW k \in S PROVE \E m \in S : m < k
  <2>1. PICK j : Reached(j, k) /\ j # 1 + size * k
    OBVIOUS
  <2>2. Len(Elements) \in Nat /\ k \in 0 .. Len(Elements)
    BY ElementsAre
  <2>3. k # 0
    <3>1. k = 0 => j = 1
      BY <2>1 DEF Reached
    <3> HIDE DEF size
    <3>2. 1 + size * 0 = 1
      BY <1>0
    <3> QED  BY <2>1, <3>1, <3>2
  <2>4. k - 1 \in 0 .. Len(Elements) /\ k - 1 < Len(Elements) /\ (k - 1) + 1 = k /\ k - 1 < k
    BY <2>2, <2>3
  <2>5. PICK i0 : Reached(i0, k - 1)
    BY <2>4, ReachedAll
  <2>6. HasElement(i0) /\ i0 \in 1 .. Len(payload) + 1 /\ Len(payload) \in Nat
    BY <2>4, <2>5, ReachedEnd, FieldIs DEF Reached
  <2>7. j = ElementEnd(i0) + 1
    <3>1. Reached(ElementEnd(i0) + 1, k)
      BY <2>4, <2>5, <2>6, ReachedNext
    <3> QED  BY <2>1, <2>2, <3>1, ReachedAll
  <2>8. j = i0 + size
    BY <1>0, <2>6, <2>7 DEF ElementEnd
  <2>9. i0 # 1 + size * (k - 1)
    <3> HIDE DEF size
    <3> DEFINE m == k - 1
    <3>1. m \in Nat /\ k = m + 1
      BY <2>4
    <3> HIDE DEF m
    <3>2. size * (m + 1) = size * m + size /\ size * m \in Nat
      BY <1>0, <3>1, Product, SMTT(30)
    <3>3. i0 # 1 + size * m
      BY <1>0, <2>1, <2>6, <2>8, <3>1, <3>2
    <3> QED  BY <3>3 DEF m
  <2> QED  BY <2>4, <2>5, <2>9
<1>2. S = {}
  <2>1. S \in SUBSET Nat
    BY ElementsAre
  <2> HIDE DEF S
  <2> QED  BY <1>1, <2>1, Descent
<1>3. n \in 0 .. Len(Elements)
  BY DEF Reached
<1> QED  BY <1>2, <1>3

\* They fill the field.
LEMMA FixedFills ==
    ASSUME Packed, kind \in FixedKind
    PROVE  Len(payload) = ElementSize(kind) * Len(Elements)
<1> DEFINE size == ElementSize(kind)
           len == Len(payload)
           all == Len(Elements)
<1>1. /\ size \in Nat /\ size > 0 /\ len \in Nat /\ all \in Nat /\ all \in 0 .. all
      /\ len % size = 0
  BY FieldIs, ElementsAre DEF Packed
<1>2. PICK z : Reached(z, all)
  BY <1>1, ReachedAll
<1>3. z = 1 + size * all /\ z \in 1 .. len + 1 /\ ~HasElement(z)
  BY <1>2, ReachedFixed, ReachedEnd DEF Reached
<1>4. ~(z + size - 1 <= len)
  BY <1>3 DEF HasElement
<1> HIDE DEF size, len, all
<1> DEFINE rest == len + 1 - z
<1>5. size * all \in Nat
  BY <1>1, Product
<1>6. rest \in Nat /\ rest < size /\ len = size * all + rest
  BY <1>1, <1>3, <1>4, <1>5
<1> HIDE DEF rest
<1>7. len % size = rest
  BY <1>1, <1>6, RestIs
<1>8. len = size * all
  BY <1>1, <1>5, <1>6, <1>7
<1> QED  BY <1>8 DEF len, size, all

LEMMA Scale ==
    ASSUME NEW m \in Nat, m > 0, NEW a \in Int, NEW b \in Int
    PROVE  m * a <= m * b <=> a <= b
<1>1. m * a \in Int /\ m * b \in Int
  BY SMTT(30)
<1>2. ASSUME NEW x \in Int, NEW y \in Int, x < y PROVE m * x < m * y
  <2> DEFINE d == y - x
  <2>1. d \in Nat /\ d > 0 /\ y = x + d
    BY <1>2
  <2> HIDE DEF d
  <2>2. m * (x + d) = m * x + m * d
    BY <2>1, SMTT(30)
  <2>3. m * d > 0
    BY <2>1, SMTT(30)
  <2>4. m * x \in Int /\ m * d \in Int
    BY <2>1, SMTT(30)
  <2> QED  BY <2>1, <2>2, <2>3, <2>4
<1>3. a < b \/ a = b \/ b < a
  OBVIOUS
<1> QED  BY <1>1, <1>2, <1>3

LEMMA LittleEndianIs ==
    ASSUME NEW i \in Nat, NEW size \in Nat, size > 0,
           \A j \in 0 .. size - 1 : payload[i + j] \in Byte
    PROVE  LittleEndian([start |-> i, end |-> i + size - 1])
                = Composed([j \in 0 .. size - 1 |-> payload[i + j]], size)
<1> DEFINE last == i + size - 1
           d == [j \in 0 .. size - 1 |-> payload[i + j]]
           G == CHOOSE g : g = [j \in i .. last |->
                    payload[j] + (IF j = last THEN 0 ELSE ByteRadix * g[j + 1])]
           h == [j \in 0 .. size - 1 |-> G[i + j]]
<1>1. last \in Nat /\ i <= last /\ \A j \in i .. last : j - i \in 0 .. size - 1 /\ i + (j - i) = j
  OBVIOUS
<1>2. Numbers(payload, i, last)
  <2> SUFFICES ASSUME NEW j \in i .. last PROVE payload[j] \in Nat
    BY DEF Numbers
  <2>1. payload[i + (j - i)] \in Byte
    BY <1>1
  <2> QED  BY <1>1, <2>1, ByteRadixFacts
<1>3. Composes(G, payload, i, last)
  <2>1. \E g : Composes(g, payload, i, last)
    BY <1>1, <1>2, CompositionExists
  <2> QED  BY <2>1, Zenon DEF Composes
<1>4. LittleEndian([start |-> i, end |-> last]) = G[i]
  BY DEF LittleEndian
<1> HIDE DEF G
<1>5. \A j \in 0 .. size - 1 :
          G[i + j] = payload[i + j] + (IF i + j = last THEN 0 ELSE ByteRadix * G[i + j + 1])
  <2>1. \A j \in 0 .. size - 1 : i + j \in i .. last
    OBVIOUS
  <2> QED  BY <1>3, <2>1 DEF Composes
<1>6. ASSUME NEW j \in 0 .. size - 1
      PROVE  h[j] = d[j] + (IF j = size - 1 THEN 0 ELSE ByteRadix * h[j + 1])
  <2>1. h[j] = G[i + j] /\ d[j] = payload[i + j]
    OBVIOUS
  <2>2. (i + j = last) <=> (j = size - 1)
    OBVIOUS
  <2>3. j # size - 1 => h[j + 1] = G[i + j + 1]
    <3>1. j # size - 1 => j + 1 \in 0 .. size - 1 /\ i + (j + 1) = i + j + 1
      OBVIOUS
    <3> QED  BY <3>1
  <2> HIDE DEF h, d, last
  <2> QED  BY <1>5, <2>1, <2>2, <2>3
<1>7. h = [j \in 0 .. size - 1 |-> h[j]]
  OBVIOUS
<1>8. Composes(h, d, 0, size - 1)
  <2> HIDE DEF h, d
  <2> QED  BY <1>6, <1>7 DEF Composes
<1>9. PICK f \in [0 .. size - 1 -> Nat] : Composes(f, d, 0, size - 1) /\ Composed(d, size) = f[0]
  <2>1. Numbers(d, 0, size - 1)
    BY ByteRadixFacts DEF Numbers
  <2> HIDE DEF d
  <2> QED  BY <2>1, ComposedFacts
<1>10. f = h
  <2> HIDE DEF h, d
  <2> QED  BY <1>8, <1>9, CompositionUnique
<1>11. h[0] = G[i]
  OBVIOUS
<1> HIDE DEF h, d
<1> QED  BY <1>4, <1>9, <1>10, <1>11 DEF d

Behind == Iterator(kind, Len(payload) + 1, Len(payload) + 1)
At(m) == Iterator(kind, m, Len(payload) + 1)

LEMMA IteratorFacts ==
    ASSUME NEW m, NEW n
    PROVE  /\ At(m).m_data = m
           /\ [At(m) EXCEPT !.m_data = n] = At(n)
           /\ At(m) = At(n) <=> m = n
           /\ kind \notin FixedKind => At(m).m_end = Len(payload) + 1
BY DEF At, Iterator

\* operator++ goes to the next element, or fails and stays.
LEMMA IncrementIs ==
    ASSUME Packed, NEW m, NEW n, Reached(m, n)
    PROVE  /\ HasElement(m) =>
                Increment(payload, kind, At(m)) =
                    [status |-> "ok", iterator |-> At(ElementEnd(m) + 1)]
           /\ kind \notin FixedKind /\ ~HasElement(m) =>
                /\ Increment(payload, kind, At(m)).status
                        = DecodeVarint(payload, m, Len(payload) + 1).status
                /\ Increment(payload, kind, At(m)).status # "ok"
                /\ Increment(payload, kind, At(m)).iterator = At(m)
<1>1. payload \in Seq(Byte) /\ Len(payload) \in Nat /\ m \in 1 .. Len(payload) + 1
      /\ ElementSize(kind) \in Nat
  BY FieldIs DEF Reached
<1>2. CASE kind \in FixedKind
  <2>1. /\ At(m).m_data = m
        /\ [At(m) EXCEPT !.m_data = m + ElementSize(kind)] = At(m + ElementSize(kind))
    BY IteratorFacts
  <2>2. Increment(payload, kind, At(m)) = [status |-> "ok", iterator |-> At(m + ElementSize(kind))]
    BY <1>2, <2>1 DEF Increment
  <2>3. ElementEnd(m) + 1 = m + ElementSize(kind)
    BY <1>1, <1>2 DEF ElementEnd
  <2> QED  BY <1>2, <2>2, <2>3
<1>3. CASE kind \notin FixedKind
  <2> DEFINE end == Len(payload) + 1
             skipped == SkipVarint(payload, m, end)
             decoded == DecodeVarint(payload, m, end)
  <2>1. /\ At(m).m_data = m /\ At(m).m_end = end
        /\ [At(m) EXCEPT !.m_data = skipped.m_data] = At(skipped.m_data)
    BY <1>3, IteratorFacts
  <2>2. Increment(payload, kind, At(m))
            = [status |-> skipped.status, iterator |-> At(skipped.m_data)]
    BY <1>3, <2>1 DEF Increment
  <2>3. skipped.status = decoded.status /\ skipped.m_data = decoded.m_data
    BY <1>1, SkipAgrees
  <2>4. decoded = IF VarintStops(payload, m) # {}
                  THEN Found(VarintValue(payload, m), VarintEnd(payload, m) + 1)
                  ELSE Missed(IF Len(payload) + 1 - m >= MaxVarintLength THEN "varint_too_long"
                              ELSE "end_of_buffer", m)
    BY <1>1, DecodeIsValue
  <2>5. /\ HasElement(m) <=> VarintStops(payload, m) # {}
        /\ ElementEnd(m) = VarintEnd(payload, m)
    BY <1>3, SameParser DEF HasElement, ElementEnd
  <2> HIDE DEF skipped, decoded
  <2>6. CASE HasElement(m)
    <3>1. decoded.status = "ok" /\ decoded.m_data = ElementEnd(m) + 1
      BY <2>4, <2>5, <2>6 DEF Found
    <3> QED  BY <2>2, <2>3, <2>6, <3>1
  <2>7. CASE ~HasElement(m)
    <3>1. decoded.status # "ok" /\ decoded.m_data = m
      BY <2>4, <2>5, <2>7 DEF Missed
    <3>2. Increment(payload, kind, At(m)).status = decoded.status
          /\ Increment(payload, kind, At(m)).iterator = At(m)
      BY <2>2, <2>3, <3>1
    <3> QED  BY <2>7, <3>1, <3>2 DEF decoded
  <2> QED  BY <2>6, <2>7
<1> QED  BY <1>2, <1>3

\* operator* shows the element.
LEMMA DereferenceIs ==
    ASSUME Packed, NEW m, NEW n, Reached(m, n), NEW host \in Host
    PROVE  /\ HasElement(m) =>
                Dereference(payload, kind, At(m), host) = Element("ok", ValueOf(ElementAt(m)))
           /\ kind \notin FixedKind =>
                Dereference(payload, kind, At(m), host).status
                    = DecodeVarint(payload, m, Len(payload) + 1).status
<1>1. /\ payload \in Seq(Byte) /\ Len(payload) \in Nat /\ m \in 1 .. Len(payload) + 1
      /\ kind \in VarintKind \cup FixedKind
      /\ ElementSize(kind) \in Nat /\ ElementSize(kind) > 0 /\ Places(ElementSize(kind))
  BY FieldIs DEF Reached
<1>2. CASE kind \in FixedKind
  <2> SUFFICES ASSUME HasElement(m)
               PROVE  Dereference(payload, kind, At(m), host) = Element("ok", ValueOf(ElementAt(m)))
    BY <1>2
  <2> DEFINE size == ElementSize(kind)
  <2>1. m + size - 1 <= Len(payload) /\ ElementAt(m) = [start |-> m, end |-> m + size - 1]
    BY <1>2 DEF HasElement, ElementAt, ElementEnd
  <2>2. At(m).m_data = m
    BY IteratorFacts
  <2>3. Dereference(payload, kind, At(m), host)
            = Element("ok", GetFixedNumber(payload, m, size, host))
    BY <1>2, <2>2 DEF Dereference
  <2>4. ValueOf(ElementAt(m)) = LittleEndian(ElementAt(m))
    BY <1>2 DEF ValueOf, FixedKind
  <2> HIDE DEF size
  <2>5. size \in Nat /\ size > 0 /\ Places(size) /\ m \in Nat
    BY <1>1 DEF size
  <2>6. \A j \in 0 .. size - 1 : payload[m + j] \in Byte
    <3>1. \A j \in 0 .. size - 1 : m + j \in 1 .. Len(payload)
      BY <1>1, <2>1, <2>5
    <3> QED  BY <1>1, <3>1, ElementOfSeq
  <2>7. GetFixedNumber(payload, m, size, host)
            = Composed([j \in 0 .. size - 1 |-> payload[m + j]], size)
    BY <2>5, <2>6, GetFixedIs
  <2>8. LittleEndian([start |-> m, end |-> m + size - 1])
            = Composed([j \in 0 .. size - 1 |-> payload[m + j]], size)
    BY <2>5, <2>6, LittleEndianIs
  <2> QED  BY <2>1, <2>3, <2>4, <2>7, <2>8
<1>3. CASE kind \notin FixedKind
  <2> DEFINE number == DecodeVarint(payload, m, Len(payload) + 1)
  <2>1. kind \in {"varint", "svarint"}
    BY <1>1, <1>3 DEF VarintKind
  <2>2. At(m).m_data = m /\ At(m).m_end = Len(payload) + 1
    BY <1>3, IteratorFacts
  <2>3. Dereference(payload, kind, At(m), host)
            = Element(number.status, IF kind = "svarint" THEN ReadSint64(number.value)
                                     ELSE ReadInt64(number.value))
    BY <1>3, <2>2 DEF Dereference
  <2>4. HasElement(m) => number = Found(VarintValue(payload, m), VarintEnd(payload, m) + 1)
    BY <1>1, <1>3, DecodeIsValue, SameParser DEF HasElement
  <2>5. ElementAt(m).start = m
    BY DEF ElementAt
  <2>6. ValueOf(ElementAt(m)) = IF kind = "svarint" THEN ReadSint64(VarintValue(payload, m))
                                ELSE ReadInt64(VarintValue(payload, m))
    BY <1>3, <2>1, <2>5, SameParser DEF ValueOf
  <2> HIDE DEF number
  <2>7. HasElement(m) => number.status = "ok" /\ number.value = VarintValue(payload, m)
    BY <2>4 DEF Found
  <2>8. HasElement(m) =>
            Dereference(payload, kind, At(m), host) = Element("ok", ValueOf(ElementAt(m)))
    BY <2>3, <2>6, <2>7
  <2>9. Dereference(payload, kind, At(m), host).status = number.status
    BY <2>3 DEF Element
  <2> QED  BY <2>8, <2>9 DEF number
<1> QED  BY <1>2, <1>3

\* Where an iterator has come to in one step.
LEMMA StepReaches ==
    ASSUME Packed, NEW m, NEW n, Reached(m, n), kind \in FixedKind => m <= Len(payload)
    PROVE  LET step == Increment(payload, kind, At(m))
           IN \E q : step.iterator = At(q) /\ Reached(q, IF step.status = "ok" THEN n + 1 ELSE n)
<1> DEFINE step == Increment(payload, kind, At(m))
<1>1. CASE HasElement(m)
  <2>1. step.iterator = At(ElementEnd(m) + 1) /\ step.status = "ok"
    BY <1>1, IncrementIs
  <2>2. Reached(ElementEnd(m) + 1, n + 1)
    BY <1>1, ReachedNext
  <2> HIDE DEF step
  <2>3. step.iterator = At(ElementEnd(m) + 1)
        /\ Reached(ElementEnd(m) + 1, IF step.status = "ok" THEN n + 1 ELSE n)
    BY <2>1, <2>2
  <2>4. \E q : step.iterator = At(q) /\ Reached(q, IF step.status = "ok" THEN n + 1 ELSE n)
    BY <2>3
  <2> QED  BY <2>4 DEF step
<1>2. CASE ~HasElement(m)
  <2>1. kind \notin FixedKind
    <3> SUFFICES ASSUME kind \in FixedKind PROVE FALSE
      OBVIOUS
    <3>1. n = Len(Elements)
      BY <1>2, ReachedEnd
    <3>2. m = 1 + ElementSize(kind) * n /\ Len(payload) = ElementSize(kind) * Len(Elements)
      BY ReachedFixed, FixedFills
    <3>3. m = 1 + Len(payload) /\ Len(payload) \in Nat
      BY <3>1, <3>2, FieldIs
    <3> QED  BY <3>3
  <2>2. step.iterator = At(m) /\ step.status # "ok"
    BY <1>2, <2>1, IncrementIs
  <2> HIDE DEF step
  <2>3. step.iterator = At(m) /\ Reached(m, IF step.status = "ok" THEN n + 1 ELSE n)
    BY <2>2
  <2>4. \E q : step.iterator = At(q) /\ Reached(q, IF step.status = "ok" THEN n + 1 ELSE n)
    BY <2>3
  <2> QED  BY <2>4 DEF step
<1> QED  BY <1>1, <1>2

\* Iterators of fixed-size elements jump to any of them.
LEMMA JumpReaches ==
    ASSUME Packed, kind \in FixedKind, NEW m, NEW n, Reached(m, n), NEW k \in Int,
           Moved(kind, At(m), k).m_data \in 1 .. Len(payload) + 1
    PROVE  \E q : Moved(kind, At(m), k) = At(q) /\ Reached(q, n + k)
<1> DEFINE size == ElementSize(kind)
           q == m + size * k
<1>1. /\ size \in Nat /\ size > 0 /\ Len(payload) = size * Len(Elements) /\ m = 1 + size * n
      /\ Len(Elements) \in Nat /\ n \in 0 .. Len(Elements)
  BY FieldIs, FixedFills, ReachedFixed, ElementsAre DEF Reached
<1>2. Moved(kind, At(m), k) = At(q)
  <2>1. At(m).m_data = m /\ [At(m) EXCEPT !.m_data = q] = At(q)
    BY IteratorFacts
  <2> QED  BY <2>1 DEF Moved
<1>3. q \in 1 .. Len(payload) + 1
  BY <1>2, IteratorFacts
<1> HIDE DEF size
<1>4. size * (n + k) = size * n + size * k /\ size * n \in Int /\ size * k \in Int
      /\ size * (n + k) \in Int
  BY <1>1, SMTT(30)
<1>5. q = 1 + size * (n + k)
  BY <1>1, <1>4
<1>6. size * 0 = 0 /\ size * Len(Elements) \in Nat
  BY <1>1, Product
<1>7. size * 0 <= size * (n + k) /\ size * (n + k) <= size * Len(Elements)
  <2> HIDE DEF q
  <2> QED  BY <1>1, <1>3, <1>4, <1>5, <1>6
<1>8. n + k \in Int /\ Len(Elements) \in Int /\ 0 \in Int
  BY <1>1
<1>9. 0 <= n + k /\ n + k <= Len(Elements)
  BY <1>1, <1>7, <1>8, Scale
<1>10. n + k \in 0 .. Len(Elements)
  BY <1>1, <1>9
<1>11. PICK z : Reached(z, n + k)
  BY <1>10, ReachedAll
<1>12. z = 1 + size * (n + k)
  BY <1>11, ReachedFixed DEF size
<1> HIDE DEF q
<1> QED  BY <1>2, <1>5, <1>11, <1>12

-----------------------------------------------------------------------------
(* The invariant: where the client's iterator and the range stand.           *)

LiveRange(m) == [first |-> At(m), second |-> Behind]
Walked ==
    /\ Packed
    /\ \E m : it = At(m) /\ Reached(m, passed)
    /\ \E m : /\ Reached(m, dropped)
              /\ \/ range = LiveRange(m) /\ spare = EmptyRange
                 \/ range = EmptyRange /\ spare = LiveRange(m)

LEMMA LiveFacts ==
    ASSUME Packed, NEW m, NEW n, Reached(m, n)
    PROVE  /\ LiveRange(m) # EmptyRange
           /\ LiveRange(m).first = At(m) /\ LiveRange(m).second = Behind
           /\ IsEmpty(EmptyRange)
           /\ ~IsEmpty(LiveRange(m)) => m <= Len(payload)
<1>1. m \in 1 .. Len(payload) + 1 /\ Len(payload) \in Nat
  BY FieldIs DEF Reached
<1>2. EmptyRange.first = Iterator("varint", 0, 0) /\ EmptyRange.second = Iterator("varint", 0, 0)
  BY DEF EmptyRange, PackedRange, Null
<1>3. Iterator("varint", 0, 0).m_data = 0
  BY DEF Iterator
<1>4. At(m).m_data = m
  BY IteratorFacts
<1>5. LiveRange(m).first = At(m) /\ LiveRange(m).second = Behind
  BY DEF LiveRange
<1>6. LiveRange(m) # EmptyRange
  BY <1>1, <1>2, <1>3, <1>4, <1>5
<1>7. m = Len(payload) + 1 => IsEmpty(LiveRange(m))
  BY <1>5 DEF IsEmpty, Behind, At
<1> QED  BY <1>1, <1>2, <1>5, <1>6, <1>7 DEF IsEmpty

LEMMA WalkBegins == ASSUME Init PROVE Walked
<1>1. Packed
  BY DEF Init, Packed
<1>2. Reached(1, 0)
  BY <1>1, ReachedFirst
<1>3. range = LiveRange(1) /\ spare = EmptyRange
  BY DEF Init, PackedRange, LiveRange, At, Behind
<1>4. it = At(1) /\ passed = 0 /\ dropped = 0
  BY <1>3 DEF Init, LiveRange
<1> QED  BY <1>1, <1>2, <1>3, <1>4 DEF Walked

LEMMA FieldStays ==
    ASSUME UNCHANGED <<payload, kind>>
    PROVE  /\ Packed => Packed'
           /\ \A m, n : Reached(m, n) => Reached(m, n)'
           /\ \A m : At(m)' = At(m) /\ LiveRange(m)' = LiveRange(m)
<1>1. ElementsFrom' = ElementsFrom
  BY DEF ElementsFrom, HasElement, ElementEnd
<1>2. Elements' = Elements
  BY <1>1 DEF Elements
<1> QED  BY <1>1, <1>2 DEF Packed, Reached, At, LiveRange, Behind

LEMMA WalkGoesOn == ASSUME Walked, [Next]_vars PROVE Walked'
<1>1. UNCHANGED <<payload, kind>>
  BY DEF Next, vars, Begin, Step, DropFront, SwapRanges, Jump
<1>2. /\ Packed /\ Packed'
      /\ \A m, n : Reached(m, n) => Reached(m, n)'
      /\ \A m : At(m)' = At(m) /\ LiveRange(m)' = LiveRange(m)
  BY <1>1, FieldStays DEF Walked
<1>3. PICK a : it = At(a) /\ Reached(a, passed)
  BY DEF Walked
<1>4. PICK b : /\ Reached(b, dropped)
               /\ \/ range = LiveRange(b) /\ spare = EmptyRange
                  \/ range = EmptyRange /\ spare = LiveRange(b)
  BY DEF Walked
<1>5. EmptyRange' = EmptyRange
  BY DEF EmptyRange, PackedRange, Iterator, Null
<1>6. ASSUME NEW m, it' = At(m), Reached(m, passed'), UNCHANGED <<range, spare, dropped>>
      PROVE  Walked'
  BY <1>2, <1>4, <1>5, <1>6 DEF Walked
<1>7. CASE Begin
  <2>1. range = LiveRange(b)
    BY <1>4, <1>7 DEF Begin
  <2>2. it' = At(b) /\ passed' = dropped /\ UNCHANGED <<range, spare, dropped>>
    BY <1>2, <1>4, <1>7, <2>1, LiveFacts DEF Begin
  <2> QED  BY <1>4, <1>6, <2>2
<1>8. CASE Step
  <2>1. kind \in FixedKind => a <= Len(payload)
    BY <1>3, <1>8, IteratorFacts DEF Step
  <2>2. PICK q : /\ Increment(payload, kind, At(a)).iterator = At(q)
                 /\ Reached(q, IF Increment(payload, kind, At(a)).status = "ok" THEN passed + 1
                               ELSE passed)
    BY <1>2, <1>3, <2>1, StepReaches
  <2>3. it' = At(q) /\ Reached(q, passed') /\ UNCHANGED <<range, spare, dropped>>
    BY <1>3, <1>8, <2>2 DEF Step
  <2> QED  BY <1>6, <2>3
<1>9. CASE \E n \in -Len(payload) .. Len(payload) \ {0} : Jump(n)
  <2>1. PICK n \in -Len(payload) .. Len(payload) \ {0} : Jump(n)
    BY <1>9
  <2>2. n \in Int /\ kind \in FixedKind /\ it' = Moved(kind, At(a), n)
        /\ Moved(kind, At(a), n).m_data \in 1 .. Len(payload) + 1 /\ passed' = passed + n
        /\ UNCHANGED <<range, spare, dropped>>
    BY <1>2, <1>3, <2>1, FieldIs DEF Jump
  <2>3. PICK q : Moved(kind, At(a), n) = At(q) /\ Reached(q, passed + n)
    BY <1>2, <1>3, <2>2, JumpReaches
  <2> QED  BY <1>6, <2>2, <2>3
<1>10. CASE DropFront
  <2>1. range = LiveRange(b) /\ spare = EmptyRange /\ b <= Len(payload)
    BY <1>2, <1>4, <1>10, LiveFacts DEF DropFront
  <2>2. PICK q : /\ Increment(payload, kind, At(b)).iterator = At(q)
                 /\ Reached(q, IF Increment(payload, kind, At(b)).status = "ok" THEN dropped + 1
                               ELSE dropped)
    BY <1>2, <1>4, <2>1, StepReaches
  <2>3. range' = LiveRange(q) /\ spare' = EmptyRange /\ Reached(q, dropped')
        /\ UNCHANGED <<it, passed>>
    BY <1>10, <2>1, <2>2 DEF DropFront, LiveRange
  <2> QED  BY <1>2, <1>3, <1>5, <2>3 DEF Walked
<1>11. CASE SwapRanges
  BY <1>2, <1>3, <1>4, <1>5, <1>11 DEF SwapRanges, Walked
<1>12. CASE UNCHANGED vars
  BY <1>3, <1>6, <1>12 DEF vars
<1> QED  BY <1>7, <1>8, <1>9, <1>10, <1>11, <1>12 DEF Next

LEMMA LiveIs ==
    ASSUME Walked
    PROVE  \E m : Reached(m, dropped) /\ Live = LiveRange(m)
<1>1. PICK m : /\ Reached(m, dropped)
               /\ \/ range = LiveRange(m) /\ spare = EmptyRange
                  \/ range = EmptyRange /\ spare = LiveRange(m)
  BY DEF Walked
<1>2. LiveRange(m) # EmptyRange
  BY <1>1, LiveFacts DEF Walked
<1> QED  BY <1>1, <1>2 DEF Live

\* Nothing but elements lies in the field if and only if the last place is its end.
LEMMA CompleteIs ==
    ASSUME Packed, NEW m, Reached(m, Len(Elements))
    PROVE  /\ Complete <=> m = Len(payload) + 1
           /\ m = IF Elements = <<>> THEN 1 ELSE Elements[Len(Elements)].end + 1
<1>1. /\ payload \in Seq(Byte) /\ Elements \in Seq(Extent)
      /\ Len(payload) \in Nat /\ Len(Elements) \in Nat
      /\ m = IF Len(Elements) = 0 THEN 1 ELSE Elements[Len(Elements)].end + 1
  BY FieldIs, ElementsAre DEF Reached
<1>2. (Elements = <<>> <=> Len(Elements) = 0) /\ (payload = <<>> <=> Len(payload) = 0)
  BY <1>1, EmptySeq
<1>3. Len(Elements) # 0 => Elements[Len(Elements)].end \in Int
  <2>1. Len(Elements) # 0 => Elements[Len(Elements)] \in Extent
    BY <1>1, ElementOfSeq
  <2> QED  BY <2>1 DEF Extent
<1> QED  BY <1>1, <1>2, <1>3 DEF Complete

LEMMA WalkShows == ASSUME Walked PROVE IteratesElements
<1>1. Packed /\ Len(Elements) \in Nat
  BY ElementsAre DEF Walked
<1>2. PICK m : it = At(m) /\ Reached(m, passed)
  BY DEF Walked
<1>3. PICK b : Reached(b, dropped) /\ Live = LiveRange(b)
  BY LiveIs
<1>4. passed \in 0 .. Len(Elements)
  BY <1>2 DEF Reached
<1>5. CASE passed < Len(Elements)
  <2>1. HasElement(m) /\ Elements[passed + 1] = ElementAt(m)
    BY <1>1, <1>2, <1>5, ReachedEnd, ReachedNext
  <2>2. it.m_data = m /\ ElementAt(m).start = m
    BY <1>2, IteratorFacts DEF ElementAt
  <2>3. \A host \in Host :
            Dereference(payload, kind, it, host) = Element("ok", ValueOf(ElementAt(m)))
    BY <1>1, <1>2, <2>1, DereferenceIs
  <2> QED  BY <1>5, <2>1, <2>2, <2>3 DEF IteratesElements
<1>6. CASE ~(passed < Len(Elements))
  <2>1. passed = Len(Elements) /\ ~HasElement(m)
    BY <1>1, <1>2, <1>4, <1>6, ReachedEnd
  <2>2. it = Live.second <=> Complete
    <3>1. Live.second = At(Len(payload) + 1)
      BY <1>3 DEF LiveRange, Behind, At
    <3>2. it = Live.second <=> m = Len(payload) + 1
      BY <1>2, <3>1, IteratorFacts
    <3> QED  BY <1>1, <1>2, <2>1, <3>2, CompleteIs
  <2>3. ASSUME kind \in VarintKind
        PROVE  /\ Dereference(payload, kind, it, "little").status
                    = Increment(payload, kind, it).status
               /\ Increment(payload, kind, it).status # "ok"
               /\ Increment(payload, kind, it).iterator = it
    <3>1. kind \notin FixedKind /\ "little" \in Host
      BY <2>3 DEF VarintKind, FixedKind, Host
    <3> QED  BY <1>1, <1>2, <2>1, <3>1, IncrementIs, DereferenceIs
  <2> QED  BY <1>6, <2>1, <2>2, <2>3 DEF IteratesElements
<1> QED  BY <1>5, <1>6

\* ++, the arithmetic and * of the iterators over packed fields show every element, in
\* order and with its value, and never leave the field (iterators.hpp:160-423).
THEOREM IterationIsRight == Spec => []IteratesElements
<1>1. Init => Walked
  BY WalkBegins
<1>2. Walked /\ [Next]_vars => Walked'
  BY WalkGoesOn
<1>3. Walked => IteratesElements
  BY WalkShows
<1> QED  BY <1>1, <1>2, <1>3, PTL DEF Spec

\* What is counted between two places.
LEMMA DistanceIs ==
    ASSUME Packed, NEW a, NEW n, Reached(a, n), NEW b \in 1 .. Len(payload) + 1
    PROVE  /\ kind \notin FixedKind =>
                Distance(payload, kind, At(a), At(b)) = Cardinality(Ends(a, b - 1))
           /\ kind \in FixedKind =>
                Distance(payload, kind, At(a), At(b)) = (b - a) \div ElementSize(kind)
<1>1. At(a).m_data = a /\ At(b).m_data = b
  BY IteratorFacts
<1>2. a # Null
  BY FieldIs DEF Reached, Null
<1>3. Quantify(a .. b - 1, LAMBDA j : payload[j] < Radix) = Cardinality(Ends(a, b - 1))
  BY DEF Quantify, Ends
<1> QED  BY <1>1, <1>2, <1>3 DEF Distance

\* From one place to another of a field of fixed-size elements.
LEMMA FixedDistance ==
    ASSUME Packed, kind \in FixedKind, NEW a, NEW n, Reached(a, n), NEW b, NEW k, Reached(b, k),
           n <= k
    PROVE  Distance(payload, kind, At(a), At(b)) = k - n
<1> DEFINE size == ElementSize(kind)
           d == k - n
<1>1. /\ size \in Nat /\ size > 0 /\ a = 1 + size * n /\ b = 1 + size * k
      /\ n \in Nat /\ k \in Nat /\ b \in 1 .. Len(payload) + 1 /\ d \in Nat /\ k = n + d
  <2>1. size \in Nat /\ size > 0
    BY FieldIs
  <2>2. a = 1 + size * n /\ b = 1 + size * k
    BY ReachedFixed
  <2>3. n \in 0 .. Len(Elements) /\ k \in 0 .. Len(Elements) /\ b \in 1 .. Len(payload) + 1
    BY DEF Reached
  <2>4. n \in Nat /\ k \in Nat
    BY <2>3, ElementsAre
  <2>5. d \in Nat /\ k = n + d
    BY <2>4
  <2> QED  BY <2>1, <2>2, <2>3, <2>4, <2>5
<1>2. Distance(payload, kind, At(a), At(b)) = (b - a) \div size
  BY <1>1, DistanceIs
<1> HIDE DEF size, d
<1>3. size * (n + d) = size * n + size * d /\ size * n \in Nat /\ size * d \in Nat
  BY <1>1, Product, SMTT(30)
<1>4. b - a = size * d + 0
  BY <1>1, <1>3
<1>5. (size * d + 0) \div size = d
  BY <1>1, DivIs
<1> QED  BY <1>2, <1>4, <1>5 DEF d

LEMMA WalkCounts == ASSUME Walked PROVE SizeCounts
<1> DEFINE all == Len(Elements)
           last == Len(payload) + 1
           size == Distance(payload, kind, Live.first, Live.second)
           before == Distance(payload, kind, Iterator(kind, 1, Len(payload) + 1), it)
           whole == Distance(payload, kind, Iterator(kind, 1, Len(payload) + 1), Live.second)
           there == IF Elements = <<>> THEN 1 ELSE Elements[Len(Elements)].end + 1
<1>1. /\ Packed /\ all \in Nat /\ payload \in Seq(Byte) /\ Len(payload) \in Nat
      /\ Elements \in Seq(Extent)
  BY ElementsAre, FieldIs DEF Walked
<1>2. PICK m : it = At(m) /\ Reached(m, passed)
  BY DEF Walked
<1>3. PICK b : Reached(b, dropped) /\ Live = LiveRange(b)
  BY LiveIs
<1>4. /\ passed \in 0 .. all /\ dropped \in 0 .. all
      /\ m \in 1 .. last /\ b \in 1 .. last
  BY <1>2, <1>3 DEF Reached
<1>5. Reached(1, 0)
  BY <1>1, ReachedFirst
<1>6. PICK z : Reached(z, all)
  <2>1. all \in 0 .. all
    BY <1>1
  <2> QED  BY <1>1, <2>1, ReachedAll
<1>7. z \in 1 .. last /\ ~HasElement(z) /\ z = there
  BY <1>1, <1>6, ReachedEnd, CompleteIs DEF Reached
<1>8. Len(Left) = all - dropped
  <2>1. \A i \in dropped + 1 .. all : Elements[i] \in Extent
    BY <1>1, <1>4, ElementOfSeq
  <2>2. Len(SubSeq(Elements, dropped + 1, all)) =
            IF dropped + 1 <= all THEN all - (dropped + 1) + 1 ELSE 0
    BY <1>1, <1>4, <2>1, SubSeqProperties
  <2> QED  BY <1>1, <1>4, <2>2 DEF Left
<1>9. /\ size = Distance(payload, kind, At(b), At(last))
      /\ before = Distance(payload, kind, At(1), At(m))
      /\ whole = Distance(payload, kind, At(1), At(last))
  BY <1>2, <1>3 DEF LiveRange, Behind, At
<1>10. Distance(payload, kind, EmptyRange.first, EmptyRange.second) = 0
  <2>1. EmptyRange.first.m_data = 0 /\ EmptyRange.second.m_data = 0
    BY DEF EmptyRange, PackedRange, Iterator, Null
  <2>2. ElementSize(kind) \in Nat /\ ElementSize(kind) > 0
    BY <1>1, FieldIs
  <2>3. kind \in FixedKind =>
            Distance(payload, kind, EmptyRange.first, EmptyRange.second)
                = (0 - 0) \div ElementSize(kind)
    BY <2>1 DEF Distance
  <2>4. (0 - 0) \div ElementSize(kind) = 0
    <3> DEFINE s == ElementSize(kind)
    <3> HIDE DEF s
    <3>1. (s * 0 + 0) \div s = 0 /\ s * 0 + 0 = 0 - 0
      BY <2>2, DivIs DEF s
    <3> QED  BY <3>1 DEF s
  <2> QED  BY <2>1, <2>3, <2>4 DEF Distance, Null
<1> HIDE DEF all, size, before, whole, last, there
<1>11. CASE kind \in FixedKind
  <2>1. z = last
    <3>1. z = 1 + ElementSize(kind) * all /\ Len(payload) = ElementSize(kind) * all
      BY <1>1, <1>6, <1>11, ReachedFixed, FixedFills DEF all
    <3> QED  BY <1>1, <3>1 DEF last
  <2>2. size = all - dropped /\ before = passed - 0 /\ whole = all - 0
    BY <1>1, <1>2, <1>3, <1>4, <1>5, <1>6, <1>9, <1>11, <2>1, FixedDistance
  <2>3. size >= Len(Left) /\ ~(size > Len(Left)) /\ before = passed /\ whole = dropped + size
    BY <1>1, <1>4, <1>8, <2>2
  <2> QED  BY <1>10, <2>3 DEF SizeCounts, size, before, whole
<1>12. CASE kind \notin FixedKind
  <2> DEFINE count(i, j) == Cardinality(Ends(i, j - 1))
  <2>1. 1 \in 1 .. last /\ last \in 1 .. last /\ last \in Nat
    BY <1>1 DEF last
  <2>2. size = count(b, last) /\ before = count(1, m) /\ whole = count(1, last)
    BY <1>1, <1>2, <1>3, <1>4, <1>5, <1>9, <1>12, <2>1, DistanceIs DEF last
  <2>3. count(1, m) = passed /\ count(1, b) = dropped /\ count(1, z) = all
    BY <1>1, <1>2, <1>3, <1>6, <1>12, ReachedEnds
  <2>4. ASSUME NEW i \in 1 .. last
        PROVE  /\ count(1, last) = count(1, i) + count(i, last)
               /\ count(i, last) \in Nat
               /\ count(i, last) = 0 <=> Ends(i, last - 1) = {}
    <3>1. 1 <= (i - 1) + 1 /\ i - 1 <= last - 1 /\ i - 1 \in Int /\ last - 1 \in Int
          /\ i <= (last - 1) + 1 /\ (i - 1) + 1 = i /\ i \in Int /\ last - 1 <= last - 1
      BY <2>1
    <3>2. Cardinality(Ends(1, last - 1)) =
              Cardinality(Ends(1, i - 1)) + Cardinality(Ends((i - 1) + 1, last - 1))
      BY <3>1, EndsFacts
    <3>3. /\ Cardinality(Ends(i, last - 1)) \in Nat
          /\ Cardinality(Ends(i, last - 1)) = 0 <=> Ends(i, last - 1) = {}
      BY <3>1, EndsFacts
    <3> QED  BY <3>1, <3>2, <3>3
  <2> HIDE DEF count
  <2>5. /\ whole = dropped + size /\ whole = all + count(z, last)
        /\ size \in Nat /\ count(z, last) \in Nat
    BY <1>4, <1>7, <2>2, <2>3, <2>4
  <2>6. size >= Len(Left) /\ (size > Len(Left) => count(z, last) # 0)
    BY <1>1, <1>4, <1>8, <2>5
  <2>7. ASSUME size > Len(Left)
        PROVE  DecodeVarint(payload, there, Len(payload) + 1).status = "varint_too_long"
    <3>1. PICK j \in z .. last - 1 : payload[j] < Radix
      BY <1>7, <2>4, <2>6, <2>7 DEF Ends
    <3>2. VarintStops(payload, z) = {}
      BY <1>7, <1>12, SameParser DEF HasElement
    <3>3. ~(j < z + MaxVarintLength)
      BY <1>1, <1>7, <3>1, <3>2 DEF VarintStops, last
    <3>4. Len(payload) + 1 - z >= MaxVarintLength
      BY <1>1, <1>7, <3>1, <3>3, RadixFacts DEF last
    <3>5. DecodeVarint(payload, z, Len(payload) + 1) =
              IF VarintStops(payload, z) # {}
              THEN Found(VarintValue(payload, z), VarintEnd(payload, z) + 1)
              ELSE Missed(IF Len(payload) + 1 - z >= MaxVarintLength THEN "varint_too_long"
                          ELSE "end_of_buffer", z)
      BY <1>1, <1>7, DecodeIsValue DEF last
    <3>6. DecodeVarint(payload, z, Len(payload) + 1).status = "varint_too_long"
      BY <3>2, <3>4, <3>5 DEF Missed
    <3> QED  BY <1>7, <3>6
  <2>8. kind \in VarintKind
    BY <1>1, <1>12, FieldIs
  <2>9. before = passed
    BY <2>2, <2>3
  <2> QED  BY <1>10, <2>5, <2>6, <2>7, <2>8, <2>9 DEF SizeCounts, size, before, whole, there
<1> QED  BY <1>11, <1>12

\* size() and std::distance count what iteration visits, and more only behind a varint
\* that is too long (iterators.hpp:107-109, 309-320).
THEOREM SizeIsRight == Spec => []SizeCounts
<1>1. Init => Walked
  BY WalkBegins
<1>2. Walked /\ [Next]_vars => Walked'
  BY WalkGoesOn
<1>3. Walked => SizeCounts
  BY WalkCounts
<1> QED  BY <1>1, <1>2, <1>3, PTL DEF Spec
==============================================================================
