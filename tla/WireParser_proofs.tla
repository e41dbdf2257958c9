------------------------- MODULE WireParser_proofs --------------------------
(***************************************************************************)
(* Lemmas about WireParser: fields and messages as relations between places  *)
(* in a byte sequence, which can be moved, cut and joined without recursion. *)
(***************************************************************************)
EXTENDS WireParser, Varint_proofs

-----------------------------------------------------------------------------
(* Varints.                                                                 *)

LEMMA BytesFacts ==
    ASSUME NEW s \in Seq(Byte), NEW at \in Nat \ {0}, NEW end \in Nat, end <= Len(s) + 1
    PROVE  AreBytes(s, at, end)
BY DEF AreBytes

LEMMA StopsFound ==
    ASSUME NEW s, NEW i \in Nat, VarintStops(s, i) # {}, Len(s) \in Nat
    PROVE  VarintEnd(s, i) \in i .. Len(s) /\ IsVarint(s, i, VarintEnd(s, i))
<1> DEFINE S == VarintStops(s, i)
           last == Min(S)
<1>1. S \in SUBSET Nat
  BY DEF VarintStops
<1> HIDE DEF S
<1>2. last \in S /\ \A y \in S : last <= y
  BY <1>1, MinFacts DEF S
<1> HIDE DEF last
<1>3. last \in i .. Len(s) /\ last < i + MaxVarintLength /\ s[last] < Radix
  BY <1>2 DEF VarintStops, S
<1>4. \A j \in i .. last - 1 : ~ (s[j] < Radix)
  <2> SUFFICES ASSUME NEW j \in i .. last - 1, s[j] < Radix PROVE FALSE
    OBVIOUS
  <2>1. j \in S
    BY <1>3, RadixFacts DEF S, VarintStops
  <2> QED  BY <1>2, <1>3, <2>1
<1> QED  BY <1>3, <1>4 DEF IsVarint, VarintEnd, last, S

LEMMA StopsAre ==
    ASSUME NEW s, NEW i \in Nat, Len(s) \in Nat, NEW k \in i .. Len(s), IsVarint(s, i, k)
    PROVE  VarintStops(s, i) # {} /\ VarintEnd(s, i) = k
<1>1. k \in VarintStops(s, i)
  BY DEF VarintStops, IsVarint
<1>2. VarintEnd(s, i) \in i .. Len(s) /\ IsVarint(s, i, VarintEnd(s, i))
  BY <1>1, StopsFound
<1> QED  BY <1>1, <1>2, OneVarint

\* f is the recursive function in VarintValue.
Means(f, s, i, last) ==
    f = [j \in i .. last |-> IF j = last THEN s[j] ELSE (s[j] - Radix) + Radix * f[j + 1]]

LEMMA ValueIs ==
    ASSUME NEW s \in Seq(Byte), NEW i \in Nat \ {0}, VarintStops(s, i) # {}
    PROVE  VarintValue(s, i) = Number(s, i, VarintEnd(s, i))
<1> DEFINE last == VarintEnd(s, i)
<1>1. last \in i .. Len(s) /\ IsVarint(s, i, last) /\ last \in Nat
  BY StopsFound
<1> HIDE DEF last
<1>2. \A j \in i .. last : s[j] \in Byte /\ s[j] \in Nat
  BY <1>1, ByteFacts
<1>3. s[last] % Radix = s[last]
  <2>1. s[last] \in Nat /\ s[last] < Radix
    BY <1>1, <1>2 DEF IsVarint
  <2> QED  BY <2>1, RadixFacts
<1>4. \A j \in i .. last : j # last => s[j] % Radix = s[j] - Radix
  <2> SUFFICES ASSUME NEW j \in i .. last, j # last PROVE s[j] % Radix = s[j] - Radix
    OBVIOUS
  <2>1. s[j] \in Byte /\ s[j] \in Nat /\ ~ (s[j] < Radix)
    BY <1>1, <1>2 DEF IsVarint
  <2>2. s[j] < 2 * Radix
    BY <2>1, RadixFacts DEF Byte
  <2> DEFINE r == s[j] - Radix
  <2>3. r \in Nat /\ r < Radix /\ s[j] = Radix * 1 + r
    BY <2>1, <2>2, RadixFacts
  <2> HIDE DEF r
  <2>4. (Radix * 1 + r) % Radix = r
    BY <2>3, RestIs, RadixFacts
  <2> QED  BY <2>3, <2>4 DEF r
<1>5. \A f : Means(f, s, i, last) <=> Adds(f, s, i, last)
  <2> TAKE f
  <2>1. [j \in i .. last |-> IF j = last THEN s[j] ELSE (s[j] - Radix) + Radix * f[j + 1]]
            = [j \in i .. last |-> (s[j] % Radix) + (IF j = last THEN 0 ELSE Radix * f[j + 1])]
    <3> SUFFICES ASSUME NEW j \in i .. last
                 PROVE  (IF j = last THEN s[j] ELSE (s[j] - Radix) + Radix * f[j + 1])
                            = (s[j] % Radix) + (IF j = last THEN 0 ELSE Radix * f[j + 1])
      OBVIOUS
    <3>1. CASE j = last
      BY <1>2, <1>3, <3>1
    <3>2. CASE j # last
      BY <1>4, <3>2
    <3> QED  BY <3>1, <3>2
  <2> QED  BY <2>1 DEF Means, Adds
<1>6. VarintValue(s, i) = (CHOOSE f : Means(f, s, i, last))[i] % 2^ValueBits
  BY DEF VarintValue, Means, last
<1>7. Payloads(s, i, last) = (CHOOSE f : Adds(f, s, i, last))[i]
  BY DEF Payloads, Adds
<1>8. (CHOOSE f : Means(f, s, i, last)) = (CHOOSE f : Adds(f, s, i, last))
  BY <1>5
<1> QED  BY <1>6, <1>7, <1>8 DEF Number, last

-----------------------------------------------------------------------------
(* Fields.                                                                  *)

KeyOf(s, i, k) == LengthType(Number(s, i, k))

Piece(key, from, to) == [tag |-> key \div 8, type |-> key % 8, from |-> from, to |-> to]

\* f is the field of that key whose value, with its length, starts at first.
ValueAt(s, key, first, end, f) ==
    \/ /\ key % 8 = VarintType
       /\ \E l \in first .. end - 1 : IsVarint(s, first, l) /\ f = Piece(key, first, l)
    \/ /\ key % 8 \in {Fixed32Type, Fixed64Type}
       /\ first + FixedSize(key % 8) <= end
       /\ f = Piece(key, first, first + FixedSize(key % 8) - 1)
    \/ /\ key % 8 = LengthDelimitedType
       /\ \E l \in first .. end - 1 :
            /\ IsVarint(s, first, l)
            /\ l + 1 + LengthType(Number(s, first, l)) <= end
            /\ f = Piece(key, l + 1, l + 1 + LengthType(Number(s, first, l)) - 1)

\* f is a complete field of the bytes i .. end - 1, which start with its key.
Field(s, i, end, f) ==
    \E k \in i .. end - 1 :
        /\ IsVarint(s, i, k)
        /\ TagInRange(KeyOf(s, i, k) \div 8)
        /\ ValueAt(s, KeyOf(s, i, k), k + 1, end, f)

LEMMA LengthFacts ==
    ASSUME NEW n \in Nat
    PROVE  LengthType(n) \in Nat /\ LengthType(n) < LengthModulus
BY RadixAssumption DEF LengthType

LEMMA FixedSizeFacts == ASSUME NEW type PROVE FixedSize(type) \in Nat /\ FixedSize(type) > 0
BY WidthAssumption DEF FixedSize

\* The reference parser, in these terms.
LEMMA FieldsAtIs ==
    ASSUME NEW s \in Seq(Byte), NEW i \in Nat \ {0}, NEW f
    PROVE  f \in FieldsAt(s, i) <=> Field(s, i, Len(s) + 1, f)
<1> DEFINE end == Len(s) + 1
<1>1. CASE VarintStops(s, i) = {}
  <2>1. ~ \E k \in i .. end - 1 : IsVarint(s, i, k)
    BY <1>1, StopsAre
  <2> QED  BY <1>1, <2>1 DEF FieldsAt, Field
<1>2. CASE VarintStops(s, i) # {}
  <2> DEFINE k == VarintEnd(s, i)
             key == LengthType(VarintValue(s, i))
             first == k + 1
             V == IF VarintStops(s, first) = {} THEN {}
                  ELSE {Piece(key, first, VarintEnd(s, first))}
             X == {g \in {Piece(key, first, first + FixedSize(key % 8) - 1)} : g.to <= Len(s)}
             start == VarintEnd(s, first) + 1
             L == IF VarintStops(s, first) = {} THEN {}
                  ELSE {g \in {Piece(key, start, start + LengthType(VarintValue(s, first)) - 1)} :
                            g.to <= Len(s)}
  <2>1. k \in i .. Len(s) /\ k \in i .. end - 1 /\ k \in Nat /\ IsVarint(s, i, k)
    BY <1>2, StopsFound
  <2>2. key = KeyOf(s, i, k)
    BY <1>2, ValueIs DEF KeyOf
  <2>3. first \in Nat \ {0}
    BY <2>1
  <2>5. FieldsAt(s, i) =
            IF ~ TagInRange(key \div 8) THEN {}
            ELSE CASE key % 8 = VarintType -> V
                   [] key % 8 \in {Fixed32Type, Fixed64Type} -> X
                   [] key % 8 = LengthDelimitedType -> L
                   [] OTHER -> {}
    BY <1>2 DEF FieldsAt, Piece
  <2>6. Field(s, i, end, f) <=>
            TagInRange(key \div 8) /\ ValueAt(s, key, first, end, f)
    <3>1. \A m \in i .. end - 1 : IsVarint(s, i, m) => m = k
      BY <2>1, OneVarint
    <3> HIDE DEF k, key, end
    <3> QED  BY <2>1, <2>2, <3>1 DEF Field
  <2> HIDE DEF k, key
  <2>7. VarintType # LengthDelimitedType /\ VarintType \notin {Fixed32Type, Fixed64Type}
        /\ LengthDelimitedType \notin {Fixed32Type, Fixed64Type}
    BY DEF VarintType, LengthDelimitedType, Fixed32Type, Fixed64Type
  <2>8. CASE key % 8 = VarintType
    <3>1. f \in V <=> \E l \in first .. end - 1 : IsVarint(s, first, l) /\ f = Piece(key, first, l)
      <4>1. CASE VarintStops(s, first) = {}
        <5>1. ~ \E l \in first .. end - 1 : IsVarint(s, first, l)
          BY <2>3, <4>1, StopsAre
        <5> QED  BY <4>1, <5>1
      <4>2. CASE VarintStops(s, first) # {}
        <5> DEFINE l == VarintEnd(s, first)
        <5>1. l \in first .. end - 1 /\ IsVarint(s, first, l)
          BY <2>3, <4>2, StopsFound
        <5>2. \A m \in first .. end - 1 : IsVarint(s, first, m) => m = l
          BY <2>3, <5>1, OneVarint
        <5> HIDE DEF l, first, end
        <5> QED  BY <4>2, <5>1, <5>2 DEF l
      <4> QED  BY <4>1, <4>2
    <3>3. FieldsAt(s, i) = IF TagInRange(key \div 8) THEN V ELSE {}
      <4> HIDE DEF V, X, L
      <4> QED  BY <2>5, <2>7, <2>8
    <3>4. ValueAt(s, key, first, end, f) <=> f \in V
      <4> HIDE DEF V, X, L, first, end
      <4> QED  BY <2>7, <2>8, <3>1 DEF ValueAt
    <3> QED  BY <2>6, <3>3, <3>4
  <2>9. CASE key % 8 \in {Fixed32Type, Fixed64Type}
    <3>1. FixedSize(key % 8) \in Nat
      BY FixedSizeFacts
    <3>2. f \in X <=> /\ first + FixedSize(key % 8) <= end
                     /\ f = Piece(key, first, first + FixedSize(key % 8) - 1)
      BY <2>3, <3>1 DEF Piece
    <3>3. FieldsAt(s, i) = IF TagInRange(key \div 8) THEN X ELSE {}
      <4> HIDE DEF V, X, L
      <4> QED  BY <2>5, <2>7, <2>9
    <3>4. ValueAt(s, key, first, end, f) <=> f \in X
      <4> HIDE DEF V, X, L, first, end
      <4> QED  BY <2>7, <2>9, <3>2 DEF ValueAt
    <3> QED  BY <2>6, <3>3, <3>4
  <2>10. CASE key % 8 = LengthDelimitedType
    <3>1. f \in L <=> \E l \in first .. end - 1 :
                        /\ IsVarint(s, first, l)
                        /\ l + 1 + LengthType(Number(s, first, l)) <= end
                        /\ f = Piece(key, l + 1, l + 1 + LengthType(Number(s, first, l)) - 1)
      <4>1. CASE VarintStops(s, first) = {}
        <5>1. ~ \E l \in first .. end - 1 : IsVarint(s, first, l)
          BY <2>3, <4>1, StopsAre
        <5> QED  BY <4>1, <5>1
      <4>2. CASE VarintStops(s, first) # {}
        <5> DEFINE l == VarintEnd(s, first)
                   size == LengthType(VarintValue(s, first))
        <5>1. l \in first .. end - 1 /\ IsVarint(s, first, l)
          BY <2>3, <4>2, StopsFound
        <5>2. \A m \in first .. end - 1 : IsVarint(s, first, m) => m = l
          BY <2>3, <5>1, OneVarint
        <5>3. size = LengthType(Number(s, first, l))
          BY <2>3, <4>2, ValueIs
        <5>4. size \in Nat
          <6>1. AreBytes(s, first, l + 1)
            BY <2>3, <5>1, BytesFacts
          <6>2. Number(s, first, l) \in Nat
            BY <2>3, <5>1, <6>1, NumberFacts, SMTT(30)
          <6> QED  BY <5>3, <6>2, LengthFacts
        <5>5. f \in L <=> l + 1 + size <= end /\ f = Piece(key, l + 1, l + 1 + size - 1)
          <6> HIDE DEF size
          <6>1. \A g : g = Piece(key, l + 1, l + 1 + size - 1) =>
                         (g.to <= Len(s) <=> l + 1 + size <= end)
            BY <2>3, <5>1, <5>4 DEF Piece
          <6>2. L = {g \in {Piece(key, l + 1, l + 1 + size - 1)} : g.to <= Len(s)}
            BY <4>2 DEF size
          <6> HIDE DEF L, l, end
          <6> QED  BY <6>1, <6>2
        <5> HIDE DEF l, first, end, L, size
        <5> QED  BY <5>1, <5>2, <5>3, <5>5
      <4> QED  BY <4>1, <4>2
    <3>3. FieldsAt(s, i) = IF TagInRange(key \div 8) THEN L ELSE {}
      <4> HIDE DEF V, X, L
      <4> QED  BY <2>5, <2>7, <2>10
    <3>4. ValueAt(s, key, first, end, f) <=> f \in L
      <4> HIDE DEF V, X, L, first, end
      <4> QED  BY <2>7, <2>10, <3>1 DEF ValueAt
    <3> QED  BY <2>6, <3>3, <3>4
  <2>11. CASE key % 8 \notin {VarintType, Fixed32Type, Fixed64Type, LengthDelimitedType}
    BY <2>5, <2>6, <2>11 DEF ValueAt
  <2> QED  BY <2>8, <2>9, <2>10, <2>11
<1> QED  BY <1>1, <1>2

FieldRecord == [tag : Nat, type : Nat, from : Nat, to : Nat]

\* What a value covers, whatever its type is.
LEMMA ValueFacts ==
    ASSUME NEW s, NEW key \in Nat, NEW first \in Nat, NEW end \in Nat, AreBytes(s, first, end),
           NEW f, first > 0, ValueAt(s, key, first, end, f)
    PROVE  /\ f \in FieldRecord /\ f.tag = key \div 8 /\ f.type = key % 8
           /\ first <= f.from /\ f.from <= f.to + 1 /\ first <= f.to + 1 /\ f.to < end
<1>1. key \div 8 \in Nat /\ key % 8 \in Nat
  OBVIOUS
<1>2. CASE \E l \in first .. end - 1 : IsVarint(s, first, l) /\ f = Piece(key, first, l)
  BY <1>1, <1>2 DEF Piece, FieldRecord
<1>3. CASE /\ first + FixedSize(key % 8) <= end
           /\ f = Piece(key, first, first + FixedSize(key % 8) - 1)
  <2>1. FixedSize(key % 8) \in Nat /\ FixedSize(key % 8) > 0
    BY FixedSizeFacts
  <2> QED  BY <1>1, <1>3, <2>1 DEF Piece, FieldRecord
<1>4. CASE \E l \in first .. end - 1 :
            /\ IsVarint(s, first, l)
            /\ l + 1 + LengthType(Number(s, first, l)) <= end
            /\ f = Piece(key, l + 1, l + 1 + LengthType(Number(s, first, l)) - 1)
  <2>1. PICK l \in first .. end - 1 :
            /\ l + 1 + LengthType(Number(s, first, l)) <= end
            /\ f = Piece(key, l + 1, l + 1 + LengthType(Number(s, first, l)) - 1)
    BY <1>4
  <2>2. AreBytes(s, first, l + 1) /\ l \in Nat /\ first <= l
    BY DEF AreBytes
  <2>3. LengthType(Number(s, first, l)) \in Nat
    BY <2>2, NumberFacts, LengthFacts
  <2> QED  BY <1>1, <2>1, <2>2, <2>3 DEF Piece, FieldRecord
<1> QED  BY <1>2, <1>3, <1>4 DEF ValueAt

LEMMA KeyFacts ==
    ASSUME NEW s, NEW i \in Nat, NEW k \in Nat, i <= k, AreBytes(s, i, k + 1)
    PROVE  KeyOf(s, i, k) \in Nat /\ KeyOf(s, i, k) < LengthModulus
BY NumberFacts, LengthFacts DEF KeyOf

\* A field is not empty and ends before end.
LEMMA FieldFacts ==
    ASSUME NEW s, NEW i \in Nat, NEW end \in Nat, AreBytes(s, i, end), NEW f,
           Field(s, i, end, f)
    PROVE  /\ f \in FieldRecord /\ TagInRange(f.tag)
           /\ i < f.from /\ f.from <= f.to + 1 /\ i <= f.to /\ f.to < end
<1>1. PICK k \in i .. end - 1 :
        /\ IsVarint(s, i, k)
        /\ TagInRange(KeyOf(s, i, k) \div 8)
        /\ ValueAt(s, KeyOf(s, i, k), k + 1, end, f)
  BY DEF Field
<1>2. AreBytes(s, i, k + 1) /\ AreBytes(s, k + 1, end) /\ k \in Nat /\ k + 1 \in Nat
  BY DEF AreBytes
<1>3. KeyOf(s, i, k) \in Nat
  BY <1>1, <1>2, KeyFacts
<1> DEFINE key == KeyOf(s, i, k)
<1> HIDE DEF key
<1>4. /\ f \in FieldRecord /\ f.tag = key \div 8
      /\ k + 1 <= f.from /\ f.from <= f.to + 1 /\ k + 1 <= f.to + 1 /\ f.to < end
  BY <1>1, <1>2, <1>3, ValueFacts DEF key
<1>5. f.from \in Nat /\ f.to \in Nat
  BY <1>4 DEF FieldRecord
<1> QED  BY <1>1, <1>4, <1>5 DEF key

LEMMA OneValue ==
    ASSUME NEW s, NEW key, NEW first \in Nat, NEW end \in Nat, NEW to \in Nat,
           NEW f, NEW g, ValueAt(s, key, first, end, f), ValueAt(s, key, first, to, g)
    PROVE  f = g
<1>1. VarintType # LengthDelimitedType /\ VarintType \notin {Fixed32Type, Fixed64Type}
      /\ LengthDelimitedType \notin {Fixed32Type, Fixed64Type}
  BY DEF VarintType, LengthDelimitedType, Fixed32Type, Fixed64Type
<1>2. \A l, m \in Nat : IsVarint(s, first, l) /\ IsVarint(s, first, m) => l = m
  BY OneVarint
<1>3. \A l \in first .. end - 1 : l \in Nat
  OBVIOUS
<1>4. \A l \in first .. to - 1 : l \in Nat
  OBVIOUS
<1> QED  BY <1>1, <1>2, <1>3, <1>4 DEF ValueAt

\* No byte starts two fields, whatever the end is.
LEMMA OneField ==
    ASSUME NEW s, NEW i \in Nat, NEW end \in Nat, NEW to \in Nat,
           NEW f, NEW g, Field(s, i, end, f), Field(s, i, to, g)
    PROVE  f = g
<1>1. PICK k \in i .. end - 1 :
        IsVarint(s, i, k) /\ ValueAt(s, KeyOf(s, i, k), k + 1, end, f)
  BY DEF Field
<1>2. PICK m \in i .. to - 1 :
        IsVarint(s, i, m) /\ ValueAt(s, KeyOf(s, i, m), m + 1, to, g)
  BY DEF Field
<1>3. k \in Nat /\ m \in Nat /\ k + 1 \in Nat
  OBVIOUS
<1>4. k = m
  BY <1>1, <1>2, <1>3, OneVarint
<1> QED  BY <1>1, <1>2, <1>3, <1>4, OneValue

Displaced(f, d) == [tag |-> f.tag, type |-> f.type, from |-> f.from + d, to |-> f.to + d]

\* The same bytes are the same value wherever they stand.
LEMMA ValueShift ==
    ASSUME NEW s, NEW t, NEW key \in Nat, NEW first \in Nat, first > 0, NEW end \in Nat,
           AreBytes(s, first, end), NEW f, ValueAt(s, key, first, end, f),
           NEW d \in Int, first + d \in Nat, \A j \in first .. f.to : t[j + d] = s[j],
           NEW to \in Nat, f.to + d < to
    PROVE  ValueAt(t, key, first + d, to, Displaced(f, d))
<1>1. /\ f \in FieldRecord /\ f.tag = key \div 8 /\ f.type = key % 8
      /\ first <= f.from /\ f.from <= f.to + 1 /\ first <= f.to + 1 /\ f.to < end
  BY ValueFacts
<1>2. f.from \in Nat /\ f.to \in Nat
  BY <1>1 DEF FieldRecord
<1>3. ASSUME NEW l \in first .. end - 1, IsVarint(s, first, l), l <= f.to
      PROVE  /\ IsVarint(t, first + d, l + d) /\ l + d \in first + d .. to - 1
             /\ Number(t, first + d, l + d) = Number(s, first, l)
  <2>1. AreBytes(s, first, l + 1) /\ l \in Nat
    BY DEF AreBytes
  <2>2. \A j \in first .. l : t[j + d] = s[j]
    BY <1>2, <1>3
  <2>3. l + d \in first + d .. to - 1
    BY <1>2, <1>3
  <2>4. IsVarint(t, first + d, l + d) /\ Number(t, first + d, l + d) = Number(s, first, l)
    BY <1>3, <2>1, <2>2, VarintShift
  <2> QED  BY <2>3, <2>4
<1>4. CASE /\ key % 8 = VarintType
           /\ \E l \in first .. end - 1 : IsVarint(s, first, l) /\ f = Piece(key, first, l)
  <2>1. PICK l \in first .. end - 1 : IsVarint(s, first, l) /\ f = Piece(key, first, l)
    BY <1>4
  <2>2. f.to = l /\ l <= f.to /\ Displaced(f, d) = Piece(key, first + d, l + d)
    BY <2>1 DEF Piece, Displaced
  <2>3. IsVarint(t, first + d, l + d) /\ l + d \in first + d .. to - 1
    BY <1>3, <2>1, <2>2
  <2> QED  BY <1>4, <2>2, <2>3 DEF ValueAt
<1>5. CASE /\ key % 8 \in {Fixed32Type, Fixed64Type}
           /\ first + FixedSize(key % 8) <= end
           /\ f = Piece(key, first, first + FixedSize(key % 8) - 1)
  <2> DEFINE size == FixedSize(key % 8)
  <2>1. size \in Nat
    BY FixedSizeFacts
  <2> HIDE DEF size
  <2>2. f = Piece(key, first, first + size - 1)
    BY <1>5 DEF size
  <2>3. f.to = first + size - 1 /\ Displaced(f, d) = Piece(key, first + d, (first + size - 1) + d)
    BY <2>2 DEF Piece, Displaced
  <2>4. (first + size - 1) + d = first + d + size - 1 /\ first + d + size <= to
    BY <2>1, <2>3
  <2>5. Displaced(f, d) = Piece(key, first + d, first + d + size - 1)
    BY <2>3, <2>4
  <2> QED  BY <1>5, <2>4, <2>5 DEF ValueAt, size
<1>6. CASE /\ key % 8 = LengthDelimitedType
           /\ \E l \in first .. end - 1 :
                /\ IsVarint(s, first, l)
                /\ l + 1 + LengthType(Number(s, first, l)) <= end
                /\ f = Piece(key, l + 1, l + 1 + LengthType(Number(s, first, l)) - 1)
  <2>1. PICK l \in first .. end - 1 :
            /\ IsVarint(s, first, l)
            /\ l + 1 + LengthType(Number(s, first, l)) <= end
            /\ f = Piece(key, l + 1, l + 1 + LengthType(Number(s, first, l)) - 1)
    BY <1>6
  <2> DEFINE size == LengthType(Number(s, first, l))
  <2>2. size \in Nat
    <3>1. AreBytes(s, first, l + 1) /\ l \in Nat /\ first <= l
      BY DEF AreBytes
    <3> QED  BY <3>1, NumberFacts, LengthFacts
  <2> HIDE DEF size
  <2>3. f = Piece(key, l + 1, l + 1 + size - 1)
    BY <2>1 DEF size
  <2>4. f.to = l + 1 + size - 1
        /\ Displaced(f, d) = Piece(key, (l + 1) + d, (l + 1 + size - 1) + d)
    BY <2>3 DEF Piece, Displaced
  <2>5. l <= f.to /\ (l + 1) + d = l + d + 1 /\ (l + 1 + size - 1) + d = l + d + 1 + size - 1
        /\ l + d + 1 + size <= to
    BY <2>2, <2>4
  <2>6. Displaced(f, d) = Piece(key, l + d + 1, l + d + 1 + size - 1)
    BY <2>4, <2>5
  <2>7. IsVarint(t, first + d, l + d) /\ l + d \in first + d .. to - 1
        /\ size = LengthType(Number(t, first + d, l + d))
    BY <1>3, <2>1, <2>5 DEF size
  <2> QED  BY <1>6, <2>5, <2>6, <2>7 DEF ValueAt
<1> QED  BY <1>4, <1>5, <1>6 DEF ValueAt

\* ... and the same field.
LEMMA FieldShift ==
    ASSUME NEW s, NEW t, NEW i \in Nat, NEW end \in Nat,
           AreBytes(s, i, end), NEW f, Field(s, i, end, f),
           NEW d \in Int, i + d \in Nat, \A j \in i .. f.to : t[j + d] = s[j],
           NEW to \in Nat, f.to + d < to
    PROVE  Field(t, i + d, to, Displaced(f, d))
<1>1. PICK k \in i .. end - 1 :
        /\ IsVarint(s, i, k)
        /\ TagInRange(KeyOf(s, i, k) \div 8)
        /\ ValueAt(s, KeyOf(s, i, k), k + 1, end, f)
  BY DEF Field
<1>2. AreBytes(s, i, k + 1) /\ AreBytes(s, k + 1, end) /\ k \in Nat /\ k + 1 \in Nat
      /\ i <= k /\ k + 1 > 0
  BY DEF AreBytes
<1>3. KeyOf(s, i, k) \in Nat
  BY <1>2, KeyFacts
<1>4. f.to \in Nat /\ k + 1 <= f.to + 1
  BY <1>1, <1>2, <1>3, ValueFacts DEF FieldRecord
<1>5. \A j \in i .. k : t[j + d] = s[j]
  BY <1>4
<1>6. IsVarint(t, i + d, k + d) /\ Number(t, i + d, k + d) = Number(s, i, k)
  BY <1>1, <1>2, <1>5, VarintShift
<1>7. KeyOf(t, i + d, k + d) = KeyOf(s, i, k)
  BY <1>6 DEF KeyOf
<1>8. \A j \in k + 1 .. f.to : t[j + d] = s[j]
  BY <1>4
<1>9. (k + 1) + d \in Nat /\ (k + 1) + d = (k + d) + 1 /\ k + d \in i + d .. to - 1
  BY <1>2, <1>4
<1>10. ValueAt(t, KeyOf(s, i, k), (k + 1) + d, to, Displaced(f, d))
  BY <1>1, <1>2, <1>3, <1>8, <1>9, ValueShift
<1> QED  BY <1>1, <1>6, <1>7, <1>9, <1>10 DEF Field

LEMMA FieldWithin ==
    ASSUME NEW s, NEW i \in Nat, NEW end \in Nat, AreBytes(s, i, end),
           NEW f, Field(s, i, end, f), NEW to \in Nat, f.to < to
    PROVE  Field(s, i, to, f)
<1>1. f \in FieldRecord /\ f.from \in Nat /\ f.to \in Nat
  BY FieldFacts DEF FieldRecord
<1>2. Displaced(f, 0) = f
  BY <1>1 DEF Displaced, FieldRecord
<1>3. 0 \in Int /\ i + 0 = i /\ f.to + 0 < to /\ \A j \in i .. f.to : s[j + 0] = s[j]
  BY <1>1
<1>4. Field(s, i + 0, to, Displaced(f, 0))
  BY <1>3, FieldShift
<1> QED  BY <1>2, <1>3, <1>4

-----------------------------------------------------------------------------
(* Sequences of fields.                                                     *)

\* The bytes i .. j - 1 are complete fields one behind the other: B are the
\* places where they start, and j.
Chain(s, i, j) ==
    \E B \in SUBSET (i .. j) :
        /\ i \in B /\ j \in B
        /\ \A b \in B \ {j} : \E f : Field(s, b, j, f) /\ f.to + 1 \in B

LEMMA ChainNone ==
    ASSUME NEW s, NEW i \in Nat
    PROVE  Chain(s, i, i)
<1>1. {i} \in SUBSET (i .. i) /\ \A b \in {i} \ {i} : FALSE
  OBVIOUS
<1> QED  BY <1>1 DEF Chain

LEMMA ChainOne ==
    ASSUME NEW s, NEW i \in Nat, NEW end \in Nat, AreBytes(s, i, end), NEW f, Field(s, i, end, f)
    PROVE  Chain(s, i, f.to + 1)
<1>1. f.to \in Nat /\ i <= f.to
  BY FieldFacts DEF FieldRecord
<1>2. Field(s, i, f.to + 1, f)
  BY <1>1, FieldWithin
<1> DEFINE B == {i, f.to + 1}
<1>3. B \in SUBSET (i .. f.to + 1)
  BY <1>1
<1>4. \A b \in B \ {f.to + 1} : \E g : Field(s, b, f.to + 1, g) /\ g.to + 1 \in B
  BY <1>2
<1> QED  BY <1>3, <1>4 DEF Chain

LEMMA ChainJoin ==
    ASSUME NEW s, NEW i \in Nat, NEW j \in Nat, NEW k \in Nat, i <= j, j <= k,
           AreBytes(s, i, k), Chain(s, i, j), Chain(s, j, k)
    PROVE  Chain(s, i, k)
<1>1. PICK B \in SUBSET (i .. j) :
        /\ i \in B /\ j \in B
        /\ \A b \in B \ {j} : \E f : Field(s, b, j, f) /\ f.to + 1 \in B
  BY DEF Chain
<1>2. PICK C \in SUBSET (j .. k) :
        /\ j \in C /\ k \in C
        /\ \A b \in C \ {k} : \E f : Field(s, b, k, f) /\ f.to + 1 \in C
  BY DEF Chain
<1>3. B \cup C \in SUBSET (i .. k)
  OBVIOUS
<1>4. ASSUME NEW b \in (B \cup C) \ {k}
      PROVE  \E f : Field(s, b, k, f) /\ f.to + 1 \in B \cup C
  <2>1. CASE b \in C
    BY <1>2, <2>1
  <2>2. CASE b \notin C
    <3>1. b \in B \ {j} /\ b \in Nat /\ AreBytes(s, b, j)
      BY <1>2, <2>2 DEF AreBytes
    <3>2. PICK f : Field(s, b, j, f) /\ f.to + 1 \in B
      BY <1>1, <3>1
    <3>3. f.to \in Nat /\ f.to < k
      BY <3>1, <3>2, FieldFacts DEF FieldRecord
    <3>4. Field(s, b, k, f)
      BY <3>1, <3>2, <3>3, FieldWithin
    <3> QED  BY <3>2, <3>4
  <2> QED  BY <2>1, <2>2
<1> QED  BY <1>1, <1>2, <1>3, <1>4 DEF Chain

LEMMA ChainShift ==
    ASSUME NEW s, NEW t, NEW i \in Nat, NEW j \in Nat, i <= j, AreBytes(s, i, j), Chain(s, i, j),
           NEW d \in Int, i + d \in Nat, \A x \in i .. j - 1 : t[x + d] = s[x]
    PROVE  Chain(t, i + d, j + d)
<1>1. PICK B \in SUBSET (i .. j) :
        /\ i \in B /\ j \in B
        /\ \A b \in B \ {j} : \E f : Field(s, b, j, f) /\ f.to + 1 \in B
  BY DEF Chain
<1> DEFINE C == {b + d : b \in B}
<1>2. C \in SUBSET (i + d .. j + d) /\ i + d \in C /\ j + d \in C /\ j + d \in Nat
  BY <1>1
<1>3. ASSUME NEW c \in C \ {j + d}
      PROVE  \E f : Field(t, c, j + d, f) /\ f.to + 1 \in C
  <2>1. PICK b \in B : c = b + d /\ b # j
    OBVIOUS
  <2>2. PICK f : Field(s, b, j, f) /\ f.to + 1 \in B
    BY <1>1, <2>1
  <2>3. b \in Nat /\ b + d \in Nat /\ AreBytes(s, b, j)
    BY DEF AreBytes
  <2>4. f.to \in Nat /\ f.to < j /\ b <= f.to
    BY <2>2, <2>3, FieldFacts DEF FieldRecord
  <2>5. (\A x \in b .. f.to : t[x + d] = s[x]) /\ f.to + d < j + d
    BY <2>4
  <2>6. Field(t, b + d, j + d, Displaced(f, d))
    BY <1>2, <2>2, <2>3, <2>4, <2>5, FieldShift
  <2>7. Displaced(f, d).to + 1 = (f.to + 1) + d
    BY <2>4 DEF Displaced
  <2>8. (f.to + 1) + d \in C
    BY <2>2
  <2> QED  BY <2>1, <2>6, <2>7, <2>8
<1> HIDE DEF C
<1> QED  BY <1>2, <1>3 DEF Chain

\* Two parsings from the same place agree as far as the shorter one goes.
LEMMA ChainCut ==
    ASSUME NEW s, NEW i \in Nat, NEW j \in Nat, NEW k \in Nat, i <= j, j <= k,
           AreBytes(s, i, k), Chain(s, i, j), Chain(s, i, k)
    PROVE  Chain(s, j, k)
<1>1. PICK B \in SUBSET (i .. j) :
        /\ i \in B /\ j \in B
        /\ \A b \in B \ {j} : \E f : Field(s, b, j, f) /\ f.to + 1 \in B
  BY DEF Chain
<1>2. PICK C \in SUBSET (i .. k) :
        /\ i \in C /\ k \in C
        /\ \A b \in C \ {k} : \E f : Field(s, b, k, f) /\ f.to + 1 \in C
  BY DEF Chain
<1>3. ASSUME NEW b \in B \cap C, b # j
      PROVE  \E c \in B \cap C : b < c
  <2>1. b \in Nat /\ b # k /\ AreBytes(s, b, j)
    BY <1>3 DEF AreBytes
  <2>2. PICK f : Field(s, b, j, f) /\ f.to + 1 \in B
    BY <1>1, <1>3
  <2>3. PICK g : Field(s, b, k, g) /\ g.to + 1 \in C
    BY <1>2, <2>1
  <2>4. f = g
    BY <2>1, <2>2, <2>3, OneField
  <2>5. f.to \in Nat /\ b <= f.to
    BY <2>1, <2>2, FieldFacts DEF FieldRecord
  <2> QED  BY <2>2, <2>3, <2>4, <2>5
<1> DEFINE Left == {n \in Nat : \E b \in B \cap C : n = j - b}
<1>4. j \in C
  <2> SUFFICES ASSUME j \notin C PROVE FALSE
    OBVIOUS
  <2>1. Left = {}
    <3> SUFFICES ASSUME NEW n \in Left PROVE \E m \in Left : m < n
      BY Descent
    <3>1. PICK b \in B \cap C : n = j - b
      OBVIOUS
    <3>2. PICK c \in B \cap C : b < c
      BY <1>3, <3>1
    <3>3. j - c \in Nat /\ j - c < n
      BY <3>1, <3>2
    <3> QED  BY <3>2, <3>3
  <2>2. j - i \in Left
    BY <1>1, <1>2
  <2> QED  BY <2>1, <2>2
<1> DEFINE D == {c \in C : j <= c}
<1>5. D \in SUBSET (j .. k) /\ j \in D /\ k \in D
  <2>1. \A c \in C : j <= c => c \in j .. k
    OBVIOUS
  <2>2. j \in D /\ k \in D
    BY <1>2, <1>4
  <2> QED  BY <2>1, <2>2
<1>6. ASSUME NEW b \in D \ {k}
      PROVE  \E f : Field(s, b, k, f) /\ f.to + 1 \in D
  <2>1. PICK f : Field(s, b, k, f) /\ f.to + 1 \in C
    BY <1>2
  <2>2. b \in Nat /\ AreBytes(s, b, k)
    BY DEF AreBytes
  <2>3. f.to \in Nat /\ b <= f.to
    BY <2>1, <2>2, FieldFacts DEF FieldRecord
  <2> QED  BY <2>1, <2>3
<1> HIDE DEF D
<1> QED  BY <1>5, <1>6 DEF Chain

\* What is no field yet starts with one.
LEMMA ChainStep ==
    ASSUME NEW s, NEW i \in Nat, NEW j \in Nat, i <= j, AreBytes(s, i, j)
    PROVE  Chain(s, i, j) <=>
              i = j \/ \E f : Field(s, i, j, f) /\ Chain(s, f.to + 1, j)
<1>1. ASSUME i # j, NEW f, Field(s, i, j, f)
      PROVE  f.to + 1 \in Nat /\ i <= f.to + 1 /\ f.to + 1 <= j /\ Chain(s, i, f.to + 1)
  <2>1. f.to \in Nat /\ i <= f.to /\ f.to < j
    BY <1>1, FieldFacts DEF FieldRecord
  <2> QED  BY <1>1, <2>1, ChainOne
<1>2. ASSUME i # j, Chain(s, i, j)
      PROVE  \E f : Field(s, i, j, f) /\ Chain(s, f.to + 1, j)
  <2>1. PICK f : Field(s, i, j, f)
    BY <1>2 DEF Chain
  <2>2. f.to + 1 \in Nat /\ i <= f.to + 1 /\ f.to + 1 <= j /\ Chain(s, i, f.to + 1)
    BY <1>1, <1>2, <2>1
  <2>3. Chain(s, f.to + 1, j)
    BY <1>2, <2>2, ChainCut
  <2> QED  BY <2>1, <2>3
<1>3. ASSUME i # j, NEW f, Field(s, i, j, f), Chain(s, f.to + 1, j)
      PROVE  Chain(s, i, j)
  <2>1. f.to + 1 \in Nat /\ i <= f.to + 1 /\ f.to + 1 <= j /\ Chain(s, i, f.to + 1)
    BY <1>1, <1>3
  <2> QED  BY <1>3, <2>1, ChainJoin
<1> QED  BY <1>2, <1>3, ChainNone

\* What the reference says of the fields at a place.
LEMMA FieldsAtFacts ==
    ASSUME NEW s \in Seq(Byte), NEW j \in 1 .. Len(s) + 1, NEW f \in FieldsAt(s, j)
    PROVE  /\ Field(s, j, Len(s) + 1, f) /\ f \in FieldRecord
           /\ f.to + 1 \in j + 1 .. Len(s) + 1
<1> DEFINE end == Len(s) + 1
<1>1. j \in Nat \ {0} /\ j \in Nat /\ end \in Nat /\ AreBytes(s, j, end)
  BY BytesFacts
<1>2. Field(s, j, end, f)
  BY <1>1, FieldsAtIs
<1>3. f \in FieldRecord /\ j <= f.to /\ f.to < end /\ f.to \in Nat
  <2> HIDE DEF end
  <2> QED  BY <1>1, <1>2, FieldFacts DEF FieldRecord
<1> QED  BY <1>1, <1>2, <1>3

\* g is the recursive function in IsMessage.
Completes(g, s) ==
    g = [j \in 1 .. Len(s) + 1 |->
            j = Len(s) + 1 \/ \E f \in FieldsAt(s, j) : g[f.to + 1]]

LEMMA CompletesUnique ==
    ASSUME NEW s \in Seq(Byte), NEW g, NEW h, Completes(g, s), Completes(h, s)
    PROVE  g = h
<1> DEFINE end == Len(s) + 1
           Bad == {n \in Nat : \E j \in 1 .. end : n = end - j /\ g[j] # h[j]}
<1>1. \A j \in 1 .. end :
        /\ g[j] = (j = end \/ \E f \in FieldsAt(s, j) : g[f.to + 1])
        /\ h[j] = (j = end \/ \E f \in FieldsAt(s, j) : h[f.to + 1])
  BY Zenon DEF Completes
<1>2. Bad = {}
  <2> SUFFICES ASSUME NEW n \in Bad
               PROVE  \E m \in Bad : m < n
    BY Descent
  <2>1. PICK j \in 1 .. end : n = end - j /\ g[j] # h[j]
    OBVIOUS
  <2>2. \A f \in FieldsAt(s, j) : f.to + 1 \in j + 1 .. end
    BY FieldsAtFacts
  <2>3. ASSUME \A f \in FieldsAt(s, j) : g[f.to + 1] = h[f.to + 1]
        PROVE  FALSE
    <3>1. (\E f \in FieldsAt(s, j) : g[f.to + 1]) <=> (\E f \in FieldsAt(s, j) : h[f.to + 1])
      BY <2>3, Zenon
    <3>2. g[j] = h[j]
      <4>1. g[j] = (j = end \/ \E f \in FieldsAt(s, j) : g[f.to + 1])
        BY <1>1, Zenon
      <4>2. h[j] = (j = end \/ \E f \in FieldsAt(s, j) : h[f.to + 1])
        BY <1>1, Zenon
      <4>3. (j = end \/ \E f \in FieldsAt(s, j) : g[f.to + 1])
                = (j = end \/ \E f \in FieldsAt(s, j) : h[f.to + 1])
        BY <3>1, Zenon
      <4> QED  BY <4>1, <4>2, <4>3, Zenon
    <3> QED  BY <2>1, <3>2
  <2>4. PICK f \in FieldsAt(s, j) : g[f.to + 1] # h[f.to + 1]
    BY <2>3
  <2>5. f.to + 1 \in j + 1 .. end /\ f.to + 1 \in 1 .. end
    BY <2>2
  <2>6. end - (f.to + 1) \in Nat /\ end - (f.to + 1) < n
    BY <2>1, <2>5
  <2> QED  BY <2>4, <2>5, <2>6
<1>3. \A j \in 1 .. end : g[j] = h[j]
  <2> TAKE j \in 1 .. end
  <2>1. end - j \in Nat
    OBVIOUS
  <2> QED  BY <1>2, <2>1
<1>4. g = [j \in 1 .. end |-> g[j]] /\ h = [j \in 1 .. end |-> h[j]]
  BY Zenon DEF Completes
<1> QED  BY <1>3, <1>4, Zenon

LEMMA IsMessageIs ==
    ASSUME NEW s \in Seq(Byte)
    PROVE  IsMessage(s) <=> Chain(s, 1, Len(s) + 1)
<1> DEFINE end == Len(s) + 1
           C == [j \in 1 .. end |-> Chain(s, j, end)]
           sum == CHOOSE g : Completes(g, s)
<1>1. \A j \in 1 .. end :
        Chain(s, j, end) <=> j = end \/ \E f \in FieldsAt(s, j) : Chain(s, f.to + 1, end)
  <2> TAKE j \in 1 .. end
  <2>1. j \in Nat \ {0} /\ j \in Nat /\ end \in Nat /\ j <= end /\ AreBytes(s, j, end)
    BY BytesFacts
  <2>2. Chain(s, j, end) <=> j = end \/ \E f : Field(s, j, end, f) /\ Chain(s, f.to + 1, end)
    <3> HIDE DEF end
    <3> QED  BY <2>1, ChainStep
  <2>3. \A f : f \in FieldsAt(s, j) <=> Field(s, j, end, f)
    BY <2>1, FieldsAtIs
  <2> QED  BY <2>2, <2>3, Zenon
<1>2. \A j \in 1 .. end : \A f \in FieldsAt(s, j) : C[f.to + 1] = Chain(s, f.to + 1, end)
  <2> TAKE j \in 1 .. end
  <2> TAKE f \in FieldsAt(s, j)
  <2>1. f.to + 1 \in 1 .. end
    BY FieldsAtFacts
  <2> HIDE DEF end
  <2> QED  BY <2>1, Zenon
<1>3. Completes(C, s)
  <2>1. \A j \in 1 .. end :
            Chain(s, j, end) = (j = end \/ \E f \in FieldsAt(s, j) : C[f.to + 1])
    <3> TAKE j \in 1 .. end
    <3> HIDE DEF C, end
    <3>1. (\E f \in FieldsAt(s, j) : C[f.to + 1])
             <=> (\E f \in FieldsAt(s, j) : Chain(s, f.to + 1, end))
      BY <1>2, Zenon
    <3>2. Chain(s, j, end) <=> (j = end \/ \E f \in FieldsAt(s, j) : C[f.to + 1])
      BY <1>1, <3>1, Zenon
    <3>3. Chain(s, j, end) \in BOOLEAN
      BY Zenon DEF Chain
    <3> QED  BY <3>2, <3>3, Zenon
  <2>2. C = [j \in 1 .. end |-> j = end \/ \E f \in FieldsAt(s, j) : C[f.to + 1]]
    BY <2>1, Zenon
  <2> HIDE DEF C
  <2> QED  BY <2>2, Zenon DEF Completes
<1>4. Completes(sum, s)
  <2> HIDE DEF C
  <2> QED  BY <1>3, Zenon
<1>5. sum = C
  <2> HIDE DEF C, sum
  <2> QED  BY <1>3, <1>4, CompletesUnique
<1>6. IsMessage(s) <=> sum[1]
  BY Zenon DEF IsMessage, Completes
<1>7. 1 \in 1 .. end
  OBVIOUS
<1>8. C[1] = Chain(s, 1, end)
  <2> HIDE DEF end
  <2> QED  BY <1>7, Zenon
<1> HIDE DEF C, sum
<1> QED  BY <1>5, <1>6, <1>8, Zenon

\* g is the recursive function in FieldsOf.
Collects(g, s) ==
    g = [j \in 1 .. Len(s) + 1 |-> UNION {{f} \cup g[f.to + 1] : f \in FieldsAt(s, j)}]

LEMMA CollectsUnique ==
    ASSUME NEW s \in Seq(Byte), NEW g, NEW h, Collects(g, s), Collects(h, s)
    PROVE  g = h
<1> DEFINE end == Len(s) + 1
           Bad == {n \in Nat : \E j \in 1 .. end : n = end - j /\ g[j] # h[j]}
<1>1. \A j \in 1 .. end :
        /\ g[j] = UNION {{f} \cup g[f.to + 1] : f \in FieldsAt(s, j)}
        /\ h[j] = UNION {{f} \cup h[f.to + 1] : f \in FieldsAt(s, j)}
  BY Zenon DEF Collects
<1>2. Bad = {}
  <2> SUFFICES ASSUME NEW n \in Bad
               PROVE  \E m \in Bad : m < n
    BY Descent
  <2>1. PICK j \in 1 .. end : n = end - j /\ g[j] # h[j]
    OBVIOUS
  <2>2. \A f \in FieldsAt(s, j) : f.to + 1 \in j + 1 .. end
    BY FieldsAtFacts
  <2>3. ASSUME \A f \in FieldsAt(s, j) : g[f.to + 1] = h[f.to + 1]
        PROVE  FALSE
    <3>1. {{f} \cup g[f.to + 1] : f \in FieldsAt(s, j)}
             = {{f} \cup h[f.to + 1] : f \in FieldsAt(s, j)}
      BY <2>3
    <3>2. g[j] = h[j]
      BY <1>1, <3>1, Zenon
    <3> QED  BY <2>1, <3>2
  <2>4. PICK f \in FieldsAt(s, j) : g[f.to + 1] # h[f.to + 1]
    BY <2>3
  <2>5. f.to + 1 \in j + 1 .. end /\ f.to + 1 \in 1 .. end
    BY <2>2
  <2>6. end - (f.to + 1) \in Nat /\ end - (f.to + 1) < n
    BY <2>1, <2>5
  <2> QED  BY <2>4, <2>5, <2>6
<1>3. \A j \in 1 .. end : g[j] = h[j]
  <2> TAKE j \in 1 .. end
  <2>1. end - j \in Nat
    OBVIOUS
  <2> QED  BY <1>2, <2>1
<1>4. g = [j \in 1 .. end |-> g[j]] /\ h = [j \in 1 .. end |-> h[j]]
  BY Zenon DEF Collects
<1> QED  BY <1>3, <1>4, Zenon

\* The fields of a byte sequence are those that a chain from its start leads to.
LEMMA FieldsOfAre ==
    ASSUME NEW s \in Seq(Byte), NEW x \in FieldsOf(s)
    PROVE  \E b \in 1 .. Len(s) + 1 : Chain(s, 1, b) /\ Field(s, b, Len(s) + 1, x)
<1> DEFINE end == Len(s) + 1
           Behind(j) == {y \in UNION {FieldsAt(s, b) : b \in 1 .. end} :
                            \E b \in j .. end : Chain(s, j, b) /\ y \in FieldsAt(s, b)}
           H == [j \in 1 .. end |-> Behind(j)]
           all == CHOOSE g : Collects(g, s)
<1>1. \A j \in 1 .. end : Behind(j) = UNION {{f} \cup Behind(f.to + 1) : f \in FieldsAt(s, j)}
  <2> TAKE j \in 1 .. end
  <2>1. j \in Nat /\ end \in Nat /\ AreBytes(s, j, end)
    BY BytesFacts
  <2>2. \A f \in FieldsAt(s, j) : f.to + 1 \in j + 1 .. end /\ f.to + 1 \in Nat
    BY FieldsAtFacts
  <2>3. ASSUME NEW y \in Behind(j)
        PROVE  \E f \in FieldsAt(s, j) : y = f \/ y \in Behind(f.to + 1)
    <3>1. PICK b \in j .. end : Chain(s, j, b) /\ y \in FieldsAt(s, b)
      OBVIOUS
    <3>2. CASE b = j
      BY <3>1, <3>2
    <3>3. CASE b # j
      <4>1. b \in Nat /\ j <= b /\ AreBytes(s, j, b)
        BY <2>1 DEF AreBytes
      <4>2. PICK f : Field(s, j, b, f) /\ Chain(s, f.to + 1, b)
        BY <2>1, <3>1, <3>3, <4>1, ChainStep
      <4>3. f.to \in Nat /\ f.to < b
        BY <2>1, <4>1, <4>2, FieldFacts DEF FieldRecord
      <4>4. Field(s, j, end, f)
        <5>1. f.to < end
          BY <4>1, <4>3
        <5> HIDE DEF end
        <5> QED  BY <2>1, <4>1, <4>2, <5>1, FieldWithin
      <4>5. f \in FieldsAt(s, j)
        <5>1. j \in Nat \ {0}
          OBVIOUS
        <5> QED  BY <4>4, <5>1, FieldsAtIs
      <4>6. b \in f.to + 1 .. end
        BY <4>3
      <4> QED  BY <3>1, <4>2, <4>5, <4>6
    <3> QED  BY <3>2, <3>3
  <2>4. ASSUME NEW f \in FieldsAt(s, j), NEW y, y = f \/ y \in Behind(f.to + 1)
        PROVE  y \in Behind(j)
    <3>1. CASE y = f
      <4>1. Chain(s, j, j) /\ j \in j .. end
        BY <2>1, ChainNone
      <4> QED  BY <3>1, <4>1
    <3>2. CASE y \in Behind(f.to + 1)
      <4>1. PICK b \in f.to + 1 .. end : Chain(s, f.to + 1, b) /\ y \in FieldsAt(s, b)
        BY <3>2
      <4>2. Field(s, j, end, f)
        BY FieldsAtFacts
      <4>3. Chain(s, j, f.to + 1)
        <5> HIDE DEF end
        <5> QED  BY <2>1, <4>2, ChainOne
      <4>4. f.to + 1 \in Nat /\ j <= f.to + 1 /\ f.to + 1 <= b /\ b \in Nat /\ b \in j .. end
        BY <2>2
      <4>5. AreBytes(s, j, b)
        BY <2>1, <4>4 DEF AreBytes
      <4>6. Chain(s, j, b)
        BY <2>1, <4>1, <4>3, <4>4, <4>5, ChainJoin
      <4> QED  BY <3>2, <4>1, <4>4, <4>6
    <3> QED  BY <2>4, <3>1, <3>2
  <2> HIDE DEF Behind
  <2> QED  BY <2>3, <2>4
<1>2. Collects(H, s)
  <2>1. \A j \in 1 .. end : \A f \in FieldsAt(s, j) : H[f.to + 1] = Behind(f.to + 1)
    <3> TAKE j \in 1 .. end
    <3> TAKE f \in FieldsAt(s, j)
    <3>1. f.to + 1 \in 1 .. end
      BY FieldsAtFacts
    <3> HIDE DEF end, Behind
    <3> QED  BY <3>1, Zenon
  <2>2. \A j \in 1 .. end : {{f} \cup Behind(f.to + 1) : f \in FieldsAt(s, j)}
                                 = {{f} \cup H[f.to + 1] : f \in FieldsAt(s, j)}
    <3> HIDE DEF H, Behind
    <3> QED  BY <2>1
  <2>3. H = [j \in 1 .. end |-> UNION {{f} \cup H[f.to + 1] : f \in FieldsAt(s, j)}]
    <3>1. \A j \in 1 .. end : Behind(j) = UNION {{f} \cup H[f.to + 1] : f \in FieldsAt(s, j)}
      <4> HIDE DEF H, Behind
      <4> QED  BY <1>1, <2>2
    <3> HIDE DEF Behind
    <3> QED  BY <3>1, Zenon
  <2> HIDE DEF H
  <2> QED  BY <2>3, Zenon DEF Collects
<1>3. Collects(all, s)
  <2> HIDE DEF H
  <2> QED  BY <1>2, Zenon
<1>4. all = H
  <2> HIDE DEF H, all
  <2> QED  BY <1>2, <1>3, CollectsUnique
<1>5. FieldsOf(s) = all[1]
  BY Zenon DEF FieldsOf, Collects
<1>6. H[1] = Behind(1)
  <2>1. 1 \in 1 .. end
    OBVIOUS
  <2> HIDE DEF end, Behind
  <2> QED  BY <2>1, Zenon
<1>7. x \in Behind(1)
  <2> HIDE DEF H, all, Behind
  <2> QED  BY <1>4, <1>5, <1>6
<1>8. PICK b \in 1 .. end : Chain(s, 1, b) /\ x \in FieldsAt(s, b)
  BY <1>7
<1> QED  BY <1>8, FieldsAtFacts

\* A part of a message is one itself when a chain leads through it.
LEMMA PartIsMessage ==
    ASSUME NEW s \in Seq(Byte), NEW i \in Nat \ {0}, NEW j \in Nat, i <= j, j <= Len(s) + 1
    PROVE  IsMessage(SubSeq(s, i, j - 1)) <=> Chain(s, i, j)
<1> DEFINE t == SubSeq(s, i, j - 1)
           d == 1 - i
<1>1. /\ t \in Seq(Byte) /\ Len(t) = j - i
      /\ \A x \in 1 .. Len(t) : t[x] = s[x + (i - 1)]
      /\ \A x \in i .. j - 1 : t[x + d] = s[x]
  <2>1. i \in Int /\ j - 1 \in Int /\ i - 1 <= j - 1 /\ i >= 1 /\ j - 1 <= Len(s)
    OBVIOUS
  <2>2. t \in Seq(Byte)
    <3>1. \A x \in i .. j - 1 : s[x] \in Byte
      OBVIOUS
    <3> QED  BY <2>1, <3>1
  <2>3. Len(t) = j - i
    BY <2>1
  <2>4. \A x \in 1 .. Len(t) : t[x] = s[x + (i - 1)]
    BY <2>1, <2>3
  <2>5. \A x \in i .. j - 1 : t[x + d] = s[x]
    <3> TAKE x \in i .. j - 1
    <3>1. x + d \in 1 .. Len(t) /\ (x + d) + (i - 1) = x
      BY <2>3
    <3> HIDE DEF t, d
    <3> QED  BY <2>4, <3>1
  <2> QED  BY <2>2, <2>3, <2>4, <2>5
<1> HIDE DEF t
<1>2. /\ AreBytes(s, i, j) /\ AreBytes(t, 1, Len(t) + 1) /\ i \in Nat
      /\ d \in Int /\ i + d = 1 /\ j + d = Len(t) + 1 /\ -d \in Int /\ 1 + (-d) = i
      /\ Len(t) + 1 \in Nat /\ (Len(t) + 1) + (-d) = j
  BY <1>1 DEF AreBytes
<1>3. ASSUME Chain(s, i, j)
      PROVE  Chain(t, 1, Len(t) + 1)
  <2>1. Chain(t, i + d, j + d)
    <3>1. i + d \in Nat
      OBVIOUS
    <3> HIDE DEF d
    <3> QED  BY <1>1, <1>2, <1>3, <3>1, ChainShift
  <2> QED  BY <1>2, <2>1
<1>4. ASSUME Chain(t, 1, Len(t) + 1)
      PROVE  Chain(s, i, j)
  <2> DEFINE e == Len(t) + 1
             b == -d
  <2>1. /\ 1 \in Nat /\ e \in Nat /\ 1 <= e /\ AreBytes(t, 1, e) /\ Chain(t, 1, e)
        /\ b \in Int /\ 1 + b \in Nat /\ \A x \in 1 .. e - 1 : s[x + b] = t[x]
    <3>1. \A x \in 1 .. e - 1 : x \in 1 .. Len(t) /\ x + b = x + (i - 1)
      BY <1>1
    <3> QED  BY <1>1, <1>2, <1>4, <3>1
  <2> HIDE DEF e, b, d
  <2>2. Chain(s, 1 + b, e + b)
    BY <2>1, ChainShift
  <2> QED  BY <1>2, <2>2 DEF e, b
<1>5. IsMessage(t) <=> Chain(t, 1, Len(t) + 1)
  BY <1>1, IsMessageIs
<1> QED  BY <1>3, <1>4, <1>5 DEF t

-----------------------------------------------------------------------------
(* decode_varint, in terms of the reference.                                *)

LEMMA DecodeIsValue ==
    ASSUME NEW s \in Seq(Byte), NEW at \in Nat \ {0}, at <= Len(s) + 1
    PROVE  DecodeVarint(s, at, Len(s) + 1) =
              IF VarintStops(s, at) # {}
              THEN Found(VarintValue(s, at), VarintEnd(s, at) + 1)
              ELSE Missed(IF Len(s) + 1 - at >= MaxVarintLength THEN "varint_too_long"
                          ELSE "end_of_buffer", at)
<1> DEFINE end == Len(s) + 1
<1>1. at \in Nat /\ end \in Nat /\ at <= end /\ AreBytes(s, at, end)
  BY BytesFacts
<1>2. CASE VarintStops(s, at) # {}
  <2>1. VarintEnd(s, at) \in at .. end - 1 /\ IsVarint(s, at, VarintEnd(s, at))
    BY <1>2, StopsFound
  <2>2. VarintValue(s, at) = Number(s, at, VarintEnd(s, at))
    BY <1>2, ValueIs
  <2> HIDE DEF end
  <2>3. DecodeVarint(s, at, end) = Found(Number(s, at, VarintEnd(s, at)), VarintEnd(s, at) + 1)
    BY <1>1, <2>1, DecodeFinds
  <2> QED  BY <1>2, <2>2, <2>3 DEF end
<1>3. CASE VarintStops(s, at) = {}
  <2>1. \A k \in at .. end - 1 : ~ IsVarint(s, at, k)
    BY <1>3, StopsAre
  <2> HIDE DEF end
  <2>2. DecodeVarint(s, at, end) =
          Missed(IF end - at >= MaxVarintLength THEN "varint_too_long" ELSE "end_of_buffer", at)
    BY <1>1, <2>1, DecodeMisses
  <2> QED  BY <1>3, <2>2 DEF end
<1> QED  BY <1>2, <1>3

-----------------------------------------------------------------------------
(* What the writer puts together.                                           *)

\* s consists of whole fields.
Parses(s) == s \in Seq(Byte) /\ Chain(s, 1, Len(s) + 1)

LEMMA ParsesIsMessage == ASSUME NEW s \in Seq(Byte) PROVE Parses(s) <=> IsMessage(s)
BY IsMessageIs DEF Parses

LEMMA EmptyParses == Parses(<<>>)
<1>1. Len(<<>>) + 1 = 1 /\ <<>> \in Seq(Byte)
  OBVIOUS
<1> QED  BY <1>1, ChainNone DEF Parses

\* Messages in a row are a message.
LEMMA ConcatParses ==
    ASSUME NEW a, NEW b, Parses(a), Parses(b)
    PROVE  Parses(a \o b)
<1> DEFINE s == a \o b
           i == Len(a) + 1
           j == Len(s) + 1
           d == Len(a)
<1>1. /\ s \in Seq(Byte) /\ Len(s) = d + Len(b) /\ Len(s) \in Nat /\ d \in Nat /\ Len(b) \in Nat
      /\ \A x \in 1 .. d : s[x] = a[x]
      /\ \A x \in 1 .. Len(b) : s[x + d] = b[x]
  <2>1. a \in Seq(Byte) /\ b \in Seq(Byte)
    BY DEF Parses
  <2>2. d \in Nat /\ Len(b) \in Nat
    BY <2>1, LenProperties
  <2>3. /\ s \in Seq(Byte) /\ Len(s) = d + Len(b)
        /\ \A x \in 1 .. d + Len(b) : s[x] = IF x <= d THEN a[x] ELSE b[x - d]
    BY <2>1, ConcatProperties
  <2> HIDE DEF s, d
  <2>4. \A x \in 1 .. d : x \in 1 .. d + Len(b) /\ x <= d
    BY <2>2
  <2>5. \A x \in 1 .. Len(b) : x + d \in 1 .. d + Len(b) /\ ~ (x + d <= d) /\ (x + d) - d = x
    BY <2>2
  <2> QED  BY <2>2, <2>3, <2>4, <2>5
<1> HIDE DEF s, d
<1>2. i = d + 1 /\ j = i + Len(b) /\ i \in Nat /\ j \in Nat /\ 1 <= i /\ i <= j /\ i - 1 = d
  BY <1>1 DEF d
<1>3. AreBytes(a, 1, i) /\ AreBytes(b, 1, Len(b) + 1) /\ AreBytes(s, 1, j)
  <2>1. Len(b) + 1 - 1 = Len(b) /\ j - 1 = Len(s)
    BY <1>1
  <2>2. /\ \A x \in 1 .. Len(a) : a[x] \in Byte
        /\ \A x \in 1 .. Len(b) : b[x] \in Byte
        /\ \A x \in 1 .. Len(s) : s[x] \in Byte
    BY <1>1, ElementOfSeq DEF Parses
  <2> QED  BY <1>2, <2>1, <2>2 DEF AreBytes, d
<1>4. Chain(s, 1, i)
  <2> DEFINE at == 1
             e == 0
  <2>1. \A x \in at .. i - 1 : s[x + e] = a[x]
    BY <1>1, <1>2
  <2>2. Chain(a, at, i) /\ AreBytes(a, at, i)
    BY <1>3 DEF Parses
  <2>3. at \in Nat /\ e \in Int /\ at + e \in Nat /\ at <= i
    BY <1>2
  <2>4. at + e = 1 /\ i + e = i
    BY <1>2
  <2> HIDE DEF i, at, e
  <2>5. Chain(s, at + e, i + e)
    BY <1>2, <2>1, <2>2, <2>3, ChainShift
  <2> QED  BY <2>4, <2>5
<1>5. Chain(s, i, j)
  <2> DEFINE at == 1
             to == Len(b) + 1
  <2>1. \A x \in at .. to - 1 : s[x + d] = b[x]
    BY <1>1
  <2>2. Chain(b, at, to) /\ AreBytes(b, at, to)
    BY <1>3 DEF Parses
  <2>3. at \in Nat /\ to \in Nat /\ d \in Int /\ at + d \in Nat /\ at <= to
    BY <1>1
  <2>4. at + d = i /\ to + d = j
    BY <1>1, <1>2
  <2> HIDE DEF i, j, at, to
  <2>5. Chain(s, at + d, to + d)
    BY <2>1, <2>2, <2>3, ChainShift
  <2> QED  BY <2>4, <2>5
<1> HIDE DEF i, j
<1>6. Chain(s, 1, j)
  BY <1>2, <1>3, <1>4, <1>5, ChainJoin
<1> QED  BY <1>1, <1>6 DEF Parses, s, j

\* The number of a key holds its tag and its type.
LEMMA TagAndTypeFacts ==
    ASSUME NEW tag, TagInRange(tag), NEW type \in WireType
    PROVE  /\ TagAndType(tag, type) \in Nat /\ TagAndType(tag, type) < 2^ValueBits
           /\ LengthType(TagAndType(tag, type)) = TagAndType(tag, type)
           /\ TagAndType(tag, type) \div 8 = tag /\ TagAndType(tag, type) % 8 = type
<1>1. tag \in Nat /\ tag <= MaxTag /\ MaxTag \in Nat /\ type \in 0 .. 7
  BY KeyAssumption
     DEF TagInRange, WireType, VarintType, Fixed64Type, LengthDelimitedType, Fixed32Type
<1> DEFINE key == TagAndType(tag, type)
<1>2. key = 8 * tag + type /\ key \in Nat /\ key < 8 * (MaxTag + 1)
  BY <1>1 DEF TagAndType
<1>3. key \div 8 = tag /\ key % 8 = type
  BY <1>1, <1>2
<1>4. key < LengthModulus /\ key < 2^ValueBits
  <2>1. LengthModulus <= 2^ValueBits /\ 2^ValueBits \in Nat /\ LengthModulus \in Nat
    BY LengthAssumption, PowerAssumption, RadixAssumption
  <2> QED  BY <1>2, <2>1, KeyAssumption
<1> HIDE DEF key
<1>5. LengthType(key) = key
  <2> DEFINE M == LengthModulus
  <2>1. M \in Nat /\ key < M /\ LengthType(key) = key % M
    BY <1>4, RadixAssumption DEF LengthType
  <2> HIDE DEF M
  <2> QED  BY <1>2, <2>1
<1> QED  BY <1>2, <1>3, <1>4, <1>5 DEF key

\* A value v behind its key.
Keyed(tag, type, v) == Key(tag, type) \o v

LEMMA KeyedFacts ==
    ASSUME NEW tag, TagInRange(tag), NEW type \in WireType, NEW v \in Seq(Byte),
           NEW k, k = Len(Key(tag, type)), NEW s, s = Keyed(tag, type, v)
    PROVE  /\ s \in Seq(Byte) /\ k \in Nat \ {0} /\ Len(v) \in Nat /\ Len(s) = k + Len(v)
           /\ IsVarint(s, 1, k) /\ KeyOf(s, 1, k) = TagAndType(tag, type)
           /\ \A i \in 1 .. Len(v) : s[k + i] = v[i]
<1> DEFINE n == TagAndType(tag, type)
           key == Varint[n]
<1>1. n \in Nat /\ n < 2^ValueBits /\ LengthType(n) = n
  BY TagAndTypeFacts
<1>2. key = Key(tag, type) /\ key \in Seq(Byte) /\ k = Len(key) /\ k \in Nat \ {0}
  BY <1>1, VarintCodes DEF Key, Codes
<1>3. /\ s \in Seq(Byte) /\ Len(s) = k + Len(v)
      /\ \A i \in 1 .. k + Len(v) : s[i] = IF i <= k THEN key[i] ELSE v[i - k]
  BY <1>2, ConcatProperties DEF Keyed
<1>4. Len(v) \in Nat
  BY LenProperties
<1> HIDE DEF key, n
<1>5. /\ \A i \in 1 .. k : s[(1 - 1) + i] = key[i]
      /\ \A i \in 1 .. Len(v) : s[k + i] = v[i]
  <2>1. \A i \in 1 .. k : i \in 1 .. k + Len(v) /\ i <= k /\ (1 - 1) + i = i
    BY <1>2, <1>4
  <2>2. \A i \in 1 .. Len(v) :
            k + i \in 1 .. k + Len(v) /\ ~ (k + i <= k) /\ (k + i) - k = i
    BY <1>2, <1>4
  <2> QED  BY <1>3, <2>1, <2>2
<1>6. IsVarint(s, 1, k) /\ Number(s, 1, k) = n
  <2> DEFINE i == 1
  <2>1. \A j \in 1 .. Len(Varint[n]) : s[(i - 1) + j] = Varint[n][j]
    BY <1>2, <1>5 DEF key
  <2>2. (i - 1) + Len(Varint[n]) = k /\ i \in Nat \ {0}
    BY <1>2 DEF key
  <2> HIDE DEF i
  <2>3. /\ IsVarint(s, i, (i - 1) + Len(Varint[n]))
        /\ Number(s, i, (i - 1) + Len(Varint[n])) = n
    BY <1>1, <2>1, <2>2, VarintAt
  <2> QED  BY <2>2, <2>3 DEF i
<1> QED  BY <1>1, <1>2, <1>3, <1>4, <1>5, <1>6 DEF KeyOf, n

\* A key and one value of its type are a message.
LEMMA KeyedParses ==
    ASSUME NEW tag, TagInRange(tag), NEW type \in WireType, NEW v \in Seq(Byte),
           NEW k, k = Len(Key(tag, type)), NEW s, s = Keyed(tag, type, v),
           NEW f, ValueAt(s, TagAndType(tag, type), k + 1, Len(s) + 1, f), f.to = Len(s)
    PROVE  Parses(s)
<1>1. /\ s \in Seq(Byte) /\ k \in Nat \ {0} /\ Len(v) \in Nat /\ Len(s) = k + Len(v)
      /\ IsVarint(s, 1, k) /\ KeyOf(s, 1, k) = TagAndType(tag, type)
  BY KeyedFacts
<1>2. Len(s) \in Nat /\ k \in 1 .. (Len(s) + 1) - 1
  BY <1>1
<1>3. Field(s, 1, Len(s) + 1, f)
  BY <1>1, <1>2, TagAndTypeFacts DEF Field
<1>4. Chain(s, 1, f.to + 1)
  <2>1. AreBytes(s, 1, Len(s) + 1) /\ Len(s) + 1 \in Nat
    BY <1>1, <1>2, BytesFacts
  <2> QED  BY <1>3, <2>1, ChainOne
<1> QED  BY <1>1, <1>4 DEF Parses

\* add_tagged_varint
LEMMA VarintFieldParses ==
    ASSUME NEW tag, TagInRange(tag), NEW n \in Nat, n < 2^ValueBits
    PROVE  Parses(Key(tag, VarintType) \o Varint[n])
<1> DEFINE v == Varint[n]
           k == Len(Key(tag, VarintType))
           s == Keyed(tag, VarintType, v)
           key == TagAndType(tag, VarintType)
           last == k + Len(v)
           f == Piece(key, k + 1, last)
<1>1. VarintType \in WireType /\ v \in Seq(Byte)
  BY VarintCodes DEF WireType, Codes
<1>2. /\ s \in Seq(Byte) /\ k \in Nat \ {0} /\ Len(v) \in Nat /\ Len(s) = last
      /\ \A i \in 1 .. Len(v) : s[k + i] = v[i]
  <2>1. k = Len(Key(tag, VarintType)) /\ s = Keyed(tag, VarintType, v)
    OBVIOUS
  <2> HIDE DEF k, s, v
  <2>2. /\ s \in Seq(Byte) /\ k \in Nat \ {0} /\ Len(v) \in Nat /\ Len(s) = k + Len(v)
        /\ \A i \in 1 .. Len(v) : s[k + i] = v[i]
    BY <1>1, <2>1, KeyedFacts
  <2> QED  BY <2>2
<1>3. key % 8 = VarintType
  BY <1>1, TagAndTypeFacts
<1> HIDE DEF s, k, key
<1>4. IsVarint(s, k + 1, last) /\ Len(v) > 0
  <2> DEFINE i == k + 1
  <2>1. i \in Nat \ {0} /\ i - 1 = k
    BY <1>2
  <2>2. \A j \in 1 .. Len(Varint[n]) : s[(i - 1) + j] = Varint[n][j]
    BY <1>2, <2>1
  <2> HIDE DEF i
  <2>3. /\ Len(Varint[n]) \in Nat \ {0} /\ IsVarint(s, i, (i - 1) + Len(Varint[n]))
    BY <2>1, <2>2, VarintAt
  <2> QED  BY <1>2, <2>1, <2>3 DEF i
<1>5. last \in k + 1 .. (Len(s) + 1) - 1
  BY <1>2, <1>4
<1>6. ValueAt(s, key, k + 1, Len(s) + 1, f) /\ f.to = Len(s)
  BY <1>2, <1>3, <1>4, <1>5 DEF ValueAt, Piece
<1>7. Parses(s)
  BY <1>1, <1>6, KeyedParses DEF k, s, key
<1> QED  BY <1>7 DEF s, Keyed

\* add_fixed
LEMMA FixedFieldParses ==
    ASSUME NEW tag, TagInRange(tag), NEW type \in {Fixed32Type, Fixed64Type},
           NEW v \in Seq(Byte), Len(v) = FixedSize(type)
    PROVE  Parses(Key(tag, type) \o v)
<1> DEFINE k == Len(Key(tag, type))
           s == Keyed(tag, type, v)
           key == TagAndType(tag, type)
           size == FixedSize(type)
           f == Piece(key, k + 1, k + 1 + size - 1)
<1>1. type \in WireType
  BY DEF WireType
<1>2. s \in Seq(Byte) /\ k \in Nat \ {0} /\ Len(s) = k + size /\ size \in Nat
  BY <1>1, KeyedFacts
<1>3. key % 8 = type
  BY <1>1, TagAndTypeFacts
<1> HIDE DEF s, k, key
<1>4. ValueAt(s, key, k + 1, Len(s) + 1, f) /\ f.to = Len(s)
  <2>1. k + 1 + size <= Len(s) + 1 /\ k + 1 + size - 1 = Len(s)
    BY <1>2
  <2> QED  BY <1>3, <2>1 DEF ValueAt, Piece
<1>5. Parses(s)
  BY <1>1, <1>4, KeyedParses DEF k, s, key
<1> QED  BY <1>5 DEF s, Keyed

LEMMA HeaderIsBytes ==
    ASSUME NEW tag, TagInRange(tag), NEW n \in Nat
    PROVE  /\ Key(tag, LengthDelimitedType) \in Seq(Byte) /\ Varint[n] \in Seq(Byte)
           /\ LengthHeader(tag, n) \in Seq(Byte)
<1>1. LengthDelimitedType \in WireType
  BY DEF WireType
<1>2. Key(tag, LengthDelimitedType) \in Seq(Byte) /\ Varint[n] \in Seq(Byte)
  BY <1>1, TagAndTypeFacts, VarintCodes DEF Key, Codes
<1> QED  BY <1>2, ConcatProperties DEF LengthHeader

\* A header and as many bytes as it announces.
LEMMA BytesFieldParses ==
    ASSUME NEW tag, TagInRange(tag), NEW v \in Seq(Byte), Len(v) <= MaxLength
    PROVE  Parses(LengthHeader(tag, Len(v)) \o v)
<1> DEFINE n == Len(v)
           length == Varint[n]
           value == length \o v
           k == Len(Key(tag, LengthDelimitedType))
           s == Keyed(tag, LengthDelimitedType, value)
           key == TagAndType(tag, LengthDelimitedType)
           last == k + Len(length)
           f == Piece(key, last + 1, last + 1 + n - 1)
<1>1. LengthDelimitedType \in WireType /\ n \in Nat /\ n < LengthModulus /\ n < 2^ValueBits
  <2>1. LengthModulus <= 2^ValueBits /\ 2^ValueBits \in Nat /\ LengthModulus \in Nat
    BY LengthAssumption, PowerAssumption, RadixAssumption
  <2>2. n \in Nat
    BY LenProperties
  <2> QED  BY <2>1, <2>2 DEF WireType, MaxLength
<1>2. LengthType(n) = n
  <2> DEFINE M == LengthModulus
  <2>1. M \in Nat /\ n < M /\ LengthType(n) = n % M
    BY <1>1, RadixAssumption DEF LengthType
  <2> HIDE DEF M, n
  <2> QED  BY <1>1, <2>1
<1>3. length \in Seq(Byte) /\ Len(length) \in Nat
  BY <1>1, VarintCodes DEF Codes
<1> HIDE DEF n, length
<1>4. /\ value \in Seq(Byte) /\ Len(value) = Len(length) + n
      /\ \A j \in 1 .. Len(length) : j \in 1 .. Len(value) /\ value[j] = length[j]
  <2>1. /\ value \in Seq(Byte) /\ Len(value) = Len(length) + n
        /\ \A j \in 1 .. Len(length) + n :
              value[j] = IF j <= Len(length) THEN length[j] ELSE v[j - Len(length)]
    BY <1>3, ConcatProperties DEF n
  <2>2. \A j \in 1 .. Len(length) : j \in 1 .. Len(length) + n /\ j <= Len(length)
    BY <1>1, <1>3
  <2> QED  BY <2>1, <2>2
<1> HIDE DEF value
<1>5. /\ s \in Seq(Byte) /\ k \in Nat \ {0} /\ Len(s) = last + n
      /\ \A i \in 1 .. Len(value) : s[k + i] = value[i]
  <2>1. /\ s \in Seq(Byte) /\ k \in Nat \ {0} /\ Len(s) = k + Len(value)
        /\ \A i \in 1 .. Len(value) : s[k + i] = value[i]
    <3>1. k = Len(Key(tag, LengthDelimitedType)) /\ s = Keyed(tag, LengthDelimitedType, value)
      OBVIOUS
    <3>2. LengthDelimitedType \in WireType /\ value \in Seq(Byte)
      BY <1>1, <1>4
    <3> HIDE DEF k, s, key, last
    <3> QED  BY <3>1, <3>2, KeyedFacts, SMTT(60)
  <2> QED  BY <1>1, <1>3, <1>4, <2>1
<1>6. key % 8 = LengthDelimitedType
  BY <1>1, TagAndTypeFacts
<1> HIDE DEF s, k, key
<1>7. IsVarint(s, k + 1, last) /\ Number(s, k + 1, last) = n /\ Len(length) > 0
  <2> DEFINE i == k + 1
  <2>1. i \in Nat \ {0} /\ i - 1 = k
    BY <1>5
  <2>2. \A j \in 1 .. Len(Varint[n]) : s[(i - 1) + j] = Varint[n][j]
    BY <1>4, <1>5, <2>1 DEF length
  <2> HIDE DEF i
  <2>3. /\ Len(Varint[n]) \in Nat \ {0} /\ IsVarint(s, i, (i - 1) + Len(Varint[n]))
        /\ Number(s, i, (i - 1) + Len(Varint[n])) = n
    <3>1. n \in Nat /\ n < 2^ValueBits
      BY <1>1
    <3> HIDE DEF last
    <3> QED  BY <2>1, <2>2, <3>1, VarintAt
  <2>4. (i - 1) + Len(Varint[n]) = last
    BY <2>1 DEF length
  <2> QED  BY <1>3, <2>3, <2>4 DEF i, length
<1>8. last \in k + 1 .. (Len(s) + 1) - 1 /\ last + 1 + n <= Len(s) + 1 /\ last + 1 + n - 1 = Len(s)
  BY <1>1, <1>3, <1>5, <1>7
<1> HIDE DEF last
<1>9. ValueAt(s, key, k + 1, Len(s) + 1, f) /\ f.to = Len(s)
  BY <1>2, <1>6, <1>7, <1>8 DEF ValueAt, Piece
<1>10. Parses(s)
  BY <1>1, <1>4, <1>9, KeyedParses DEF k, s, key
<1>11. s = LengthHeader(tag, n) \o v
  <2>1. Key(tag, LengthDelimitedType) \in Seq(Byte)
    BY <1>1, HeaderIsBytes
  <2>2. Key(tag, LengthDelimitedType) \o (length \o v) =
            (Key(tag, LengthDelimitedType) \o length) \o v
    BY <1>3, <2>1, ConcatAssociative
  <2> QED  BY <2>2 DEF s, Keyed, value, length, LengthHeader
<1> QED  BY <1>10, <1>11 DEF n
=============================================================================
