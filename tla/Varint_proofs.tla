--------------------------- MODULE Varint_proofs ----------------------------
(***************************************************************************)
(* Lemmas about Varint: what decode_varint and skip_varint return for bytes  *)
(* of any length.  Payloads is a recursive function, of which nothing can be *)
(* said before a function is known to satisfy its equation; that one exists  *)
(* and is unique follows from the least number for which it would not.       *)
(***************************************************************************)
EXTENDS Varint, WellFoundedInduction, SequenceTheorems, TLAPS

\* Every set of numbers has a least one, which Min returns.
LEMMA LeastNumber ==
    ASSUME NEW S \in SUBSET Nat, S # {}
    PROVE  \E x \in S : \A y \in S : x <= y
<1>1. IsWellFoundedOn(OpToRel(<, Nat), Nat)
  BY NatLessThanWellFounded
<1>2. PICK x \in S : \A y \in S : ~ (<<y, x>> \in OpToRel(<, Nat))
  BY <1>1, WFMin
<1>3. \A y \in S : ~ (y < x)
  BY <1>2 DEF OpToRel
<1> QED  BY <1>3

LEMMA MinFacts ==
    ASSUME NEW S \in SUBSET Nat, S # {}
    PROVE  Min(S) \in S /\ \A y \in S : Min(S) <= y
BY LeastNumber DEF Min

\* f gives for each j the payload bits of the bytes at j .. last.
Adds(f, s, at, last) ==
    f = [j \in at .. last |->
            (s[j] % Radix) + (IF j = last THEN 0 ELSE Radix * f[j + 1])]

Numbers(s, at, last) == \A j \in at .. last : s[j] \in Nat

LEMMA RadixFacts == Radix \in Nat /\ Radix > 1 /\ MaxVarintLength \in Nat /\ MaxVarintLength > 1
BY RadixAssumption

LEMMA StepNat ==
    ASSUME NEW a \in Nat, NEW b \in Nat
    PROVE  (a % Radix) + Radix * b \in Nat
<1>1. \A x, y \in Nat : x * y \in Nat /\ x + y \in Nat
  OBVIOUS
<1>2. a % Radix \in Nat /\ Radix \in Nat
  BY RadixFacts
<1> QED  BY <1>1, <1>2

\* There is such a function ...
LEMMA SumExists ==
    ASSUME NEW s, NEW at \in Nat, NEW last \in Nat, at <= last, Numbers(s, at, last)
    PROVE  \E f \in [at .. last -> Nat] : Adds(f, s, at, last)
<1> DEFINE Good(n) ==
        \A i \in Nat : i + n = last /\ Numbers(s, i, last) =>
            \E f \in [i .. last -> Nat] : Adds(f, s, i, last)
<1>1. Good(0)
  <2> SUFFICES ASSUME NEW i \in Nat, i + 0 = last, Numbers(s, i, last)
               PROVE  \E f \in [i .. last -> Nat] : Adds(f, s, i, last)
    OBVIOUS
  <2> DEFINE f == [j \in i .. last |-> s[j] % Radix]
  <2>1. i = last /\ \A j \in i .. last : s[j] % Radix \in Nat
    BY RadixFacts DEF Numbers
  <2>2. f \in [i .. last -> Nat]
    BY <2>1
  <2>3. Adds(f, s, i, last)
    BY <2>1 DEF Adds
  <2> HIDE DEF f
  <2> QED  BY <2>2, <2>3
<1>2. ASSUME NEW n \in Nat, n > 0, Good(n - 1)
      PROVE  Good(n)
  <2> SUFFICES ASSUME NEW i \in Nat, i + n = last, Numbers(s, i, last)
               PROVE  \E f \in [i .. last -> Nat] : Adds(f, s, i, last)
    OBVIOUS
  <2>1. i + 1 \in Nat /\ (i + 1) + (n - 1) = last /\ Numbers(s, i + 1, last)
    BY DEF Numbers
  <2>2. PICK g \in [i + 1 .. last -> Nat] : Adds(g, s, i + 1, last)
    BY <1>2, <2>1
  <2> DEFINE f == [j \in i .. last |->
                     IF j = i THEN (s[i] % Radix) + Radix * g[i + 1] ELSE g[j]]
  <2>3. f \in [i .. last -> Nat]
    <3>1. (s[i] % Radix) + Radix * g[i + 1] \in Nat
      <4>1. i + 1 \in i + 1 .. last /\ i \in i .. last
        BY <1>2
      <4>2. s[i] \in Nat /\ g[i + 1] \in Nat
        BY <4>1 DEF Numbers
      <4> QED  BY <4>2, StepNat
    <3>2. \A j \in i .. last : j # i => g[j] \in Nat
      OBVIOUS
    <3> QED  BY <3>1, <3>2
  <2>4. \A j \in i .. last :
            f[j] = (s[j] % Radix) + (IF j = last THEN 0 ELSE Radix * f[j + 1])
    <3> SUFFICES ASSUME NEW j \in i .. last
                 PROVE  f[j] = (s[j] % Radix) + (IF j = last THEN 0 ELSE Radix * f[j + 1])
      OBVIOUS
    <3>1. CASE j = i
      <4>1. i < last /\ j + 1 \in i .. last /\ j + 1 # i
        BY <3>1, <1>2
      <4> QED  BY <4>1, <3>1
    <3>2. CASE j # i
      <4>1. j \in i + 1 .. last /\ f[j] = g[j] /\ (j # last => f[j + 1] = g[j + 1])
        BY <3>2
      <4>2. g[j] = (s[j] % Radix) + (IF j = last THEN 0 ELSE Radix * g[j + 1])
        BY <2>2, <4>1 DEF Adds
      <4> QED  BY <4>1, <4>2
    <3> QED  BY <3>1, <3>2
  <2>5. Adds(f, s, i, last)
    BY <2>4 DEF Adds
  <2> HIDE DEF f
  <2> QED  BY <2>3, <2>5
<1> HIDE DEF Good
<1>3. {n \in Nat : ~ Good(n)} = {}
  <2> SUFFICES ASSUME {n \in Nat : ~ Good(n)} # {}
               PROVE  FALSE
    OBVIOUS
  <2>1. PICK n \in {m \in Nat : ~ Good(m)} : \A m \in {k \in Nat : ~ Good(k)} : n <= m
    BY LeastNumber
  <2>2. n # 0
    BY <1>1, <2>1
  <2>3. Good(n - 1)
    BY <2>1, <2>2
  <2> QED  BY <1>2, <2>1, <2>2, <2>3
<1>4. Good(last - at)
  BY <1>3
<1> QED  BY <1>4 DEF Good

\* ... and no other, so CHOOSE and the recursion of Payloads mean it.
LEMMA SumUnique ==
    ASSUME NEW s, NEW at \in Nat, NEW last \in Nat, at <= last,
           NEW f, NEW g, Adds(f, s, at, last), Adds(g, s, at, last)
    PROVE  f = g
<1>1. f = [j \in at .. last |-> f[j]] /\ g = [j \in at .. last |-> g[j]]
  BY DEF Adds
<1>2. \A j \in at .. last :
        /\ f[j] = (s[j] % Radix) + (IF j = last THEN 0 ELSE Radix * f[j + 1])
        /\ g[j] = (s[j] % Radix) + (IF j = last THEN 0 ELSE Radix * g[j + 1])
  BY DEF Adds
<1> DEFINE Bad == {n \in Nat : \E j \in at .. last : j + n = last /\ f[j] # g[j]}
<1>3. Bad = {}
  <2> SUFFICES ASSUME Bad # {}
               PROVE  FALSE
    OBVIOUS
  <2>1. PICK n \in Bad : \A m \in Bad : n <= m
    BY LeastNumber
  <2>2. PICK j \in at .. last : j + n = last /\ f[j] # g[j]
    BY <2>1
  <2>3. j # last /\ f[j + 1] # g[j + 1]
    BY <1>2, <2>2
  <2>4. n - 1 \in Nat /\ j + 1 \in at .. last /\ (j + 1) + (n - 1) = last
    BY <2>2, <2>3
  <2>5. n - 1 \in Bad
    BY <2>3, <2>4
  <2> QED  BY <2>1, <2>5
<1>4. \A j \in at .. last : f[j] = g[j]
  <2> SUFFICES ASSUME NEW j \in at .. last
               PROVE  f[j] = g[j]
    OBVIOUS
  <2>1. last - j \in Nat /\ j + (last - j) = last
    OBVIOUS
  <2> QED  BY <1>3, <2>1
<1> QED  BY <1>1, <1>4

LEMMA PayloadsFacts ==
    ASSUME NEW s, NEW at \in Nat, NEW last \in Nat, at <= last, Numbers(s, at, last)
    PROVE  \E f \in [at .. last -> Nat] :
              Adds(f, s, at, last) /\ Payloads(s, at, last) = f[at]
<1> DEFINE sum == CHOOSE f : Adds(f, s, at, last)
<1>1. PICK f \in [at .. last -> Nat] : Adds(f, s, at, last)
  BY SumExists
<1>2. Adds(sum, s, at, last)
  BY <1>1
<1>3. sum = f
  BY <1>1, <1>2, SumUnique
<1>4. Payloads(s, at, last) = sum[at]
  BY DEF Payloads, Adds
<1> QED  BY <1>1, <1>3, <1>4

\* Payloads is a number and satisfies its equation.
LEMMA PayloadsStep ==
    ASSUME NEW s, NEW at \in Nat, NEW last \in Nat, at <= last, Numbers(s, at, last)
    PROVE  /\ Payloads(s, at, last) \in Nat
           /\ at = last => Payloads(s, at, last) = s[at] % Radix
           /\ at < last => Payloads(s, at, last) =
                                (s[at] % Radix) + Radix * Payloads(s, at + 1, last)
<1>1. PICK f \in [at .. last -> Nat] : Adds(f, s, at, last) /\ Payloads(s, at, last) = f[at]
  BY PayloadsFacts
<1>2. at \in at .. last
  OBVIOUS
<1>3. f[at] = (s[at] % Radix) + (IF at = last THEN 0 ELSE Radix * f[at + 1])
  BY <1>1, <1>2 DEF Adds
<1>4. ASSUME at = last
      PROVE  Payloads(s, at, last) = s[at] % Radix
  <2>1. s[at] % Radix \in Nat
    BY <1>2, RadixFacts DEF Numbers
  <2> QED  BY <1>1, <1>3, <1>4, <2>1
<1>5. ASSUME at < last
      PROVE  Payloads(s, at, last) = (s[at] % Radix) + Radix * Payloads(s, at + 1, last)
  <2>1. Numbers(s, at + 1, last) /\ at + 1 \in Nat /\ at + 1 <= last
    BY <1>5 DEF Numbers
  <2>2. PICK g \in [at + 1 .. last -> Nat] :
            Adds(g, s, at + 1, last) /\ Payloads(s, at + 1, last) = g[at + 1]
    BY <2>1, PayloadsFacts
  <2> DEFINE h == [j \in at + 1 .. last |-> f[j]]
  <2>3. \A j \in at + 1 .. last :
            f[j] = (s[j] % Radix) + (IF j = last THEN 0 ELSE Radix * f[j + 1])
    <3>1. \A j \in at + 1 .. last : j \in at .. last
      OBVIOUS
    <3> QED  BY <1>1, <3>1 DEF Adds
  <2>4. \A j \in at + 1 .. last : h[j] = f[j] /\ (j # last => h[j + 1] = f[j + 1])
    OBVIOUS
  <2>5. h = [j \in at + 1 .. last |->
                (s[j] % Radix) + (IF j = last THEN 0 ELSE Radix * h[j + 1])]
    BY <2>3, <2>4
  <2>6. Adds(h, s, at + 1, last)
    BY <2>5 DEF Adds
  <2>7. h = g
    <3> HIDE DEF h
    <3> QED  BY <2>1, <2>2, <2>6, SumUnique
  <2>8. h[at + 1] = f[at + 1]
    BY <1>5
  <2> QED  BY <1>1, <1>3, <1>5, <2>2, <2>7, <2>8
<1> QED  BY <1>1, <1>2, <1>4, <1>5

\* It depends on the bytes it adds up only.
LEMMA PayloadsLocal ==
    ASSUME NEW s, NEW t, NEW at \in Nat, NEW last \in Nat, at <= last,
           Numbers(s, at, last), \A j \in at .. last : s[j] = t[j]
    PROVE  Payloads(s, at, last) = Payloads(t, at, last)
<1>1. Numbers(t, at, last)
  BY DEF Numbers
<1>2. PICK f \in [at .. last -> Nat] : Adds(f, s, at, last) /\ Payloads(s, at, last) = f[at]
  BY PayloadsFacts
<1>3. PICK g \in [at .. last -> Nat] : Adds(g, t, at, last) /\ Payloads(t, at, last) = g[at]
  BY <1>1, PayloadsFacts
<1>4. Adds(f, t, at, last)
  BY <1>2 DEF Adds
<1>5. f = g
  BY <1>3, <1>4, SumUnique
<1> QED  BY <1>2, <1>3, <1>5

\* The loops of both functions stop at a last byte or at the end, not before.
LEMMA StopFacts ==
    ASSUME NEW s, NEW at \in Nat, NEW end \in Nat, at <= end
    PROVE  /\ Stop(s, at, end) \in at .. end
           /\ Stop(s, at, end) # end => s[Stop(s, at, end)] < Radix
           /\ \A j \in at .. Stop(s, at, end) - 1 : ~ (s[j] < Radix)
<1> DEFINE S == {j \in at .. end - 1 : s[j] < Radix} \cup {end}
<1>1. S \in SUBSET Nat /\ S # {}
  OBVIOUS
<1>2. Stop(s, at, end) = Min(S)
  BY DEF Stop
<1> HIDE DEF S
<1>3. Min(S) \in S /\ \A y \in S : Min(S) <= y
  BY <1>1, MinFacts
<1> USE DEF S
<1>4. Min(S) \in at .. end /\ (Min(S) # end => s[Min(S)] < Radix)
  BY <1>3
<1>5. ASSUME NEW j \in at .. Min(S) - 1
      PROVE  ~ (s[j] < Radix)
  <2>1. j \in at .. end - 1 /\ j < Min(S)
    BY <1>4
  <2> QED  BY <1>3, <1>4, <2>1
<1> QED  BY <1>2, <1>4, <1>5

\* A scan is known by where it ends.
LEMMA StopIs ==
    ASSUME NEW s, NEW at \in Nat, NEW end \in Nat, at <= end,
           NEW p \in at .. end, p # end => s[p] < Radix,
           \A j \in at .. p - 1 : ~ (s[j] < Radix)
    PROVE  Stop(s, at, end) = p
<1>1. /\ Stop(s, at, end) \in at .. end
      /\ Stop(s, at, end) # end => s[Stop(s, at, end)] < Radix
      /\ \A j \in at .. Stop(s, at, end) - 1 : ~ (s[j] < Radix)
  BY StopFacts
<1>2. ~ (Stop(s, at, end) < p) /\ ~ (p < Stop(s, at, end))
  BY <1>1
<1> QED  BY <1>1, <1>2

-----------------------------------------------------------------------------
(* decode_varint and skip_varint.                                           *)

AreBytes(s, at, end) == \A j \in at .. end - 1 : s[j] \in Byte

LEMMA ByteFacts == ASSUME NEW b \in Byte PROVE b \in Nat
BY RadixFacts DEF Byte

LEMMA TopGroupNat == ASSUME NEW b \in Nat PROVE TopGroup(b) \in Nat
<1>1. b % 2^TopBits \in Nat /\ Radix^(MaxVarintLength - 1) \in Nat
  BY RadixFacts, PowerAssumption
<1>2. \A x, y \in Nat : x * y \in Nat
  OBVIOUS
<1> QED  BY <1>1, <1>2 DEF TopGroup

ReadStatus == {"ok", "end_of_buffer", "varint_too_long"}

\* A result is a number and the position behind it, or the pointer stays.
Honest(result, at, end) ==
    /\ result.status \in ReadStatus
    /\ result.value \in Nat
    /\ result.status = "ok" => result.m_data \in at + 1 .. end
    /\ result.status # "ok" => result.m_data = at

\* decode_varint_impl, unrolled
LEMMA FastPathFacts ==
    ASSUME NEW s, NEW at \in Nat, NEW end \in Nat, at + MaxVarintLength <= end,
           AreBytes(s, at, end)
    PROVE  Honest(FastPath(s, at), at, end)
<1> DEFINE behind == at + MaxVarintLength
           last == Stop(s, at, behind)
<1>1. behind \in Nat /\ behind <= end /\ at < behind
  BY RadixFacts
<1>2. last \in at .. behind
  BY <1>1, StopFacts
<1>3. CASE last = behind
  BY <1>3 DEF FastPath, Missed, Honest, ReadStatus
<1>4. CASE last # behind
  <2>1. Numbers(s, at, last) /\ (last > at => Numbers(s, at, last - 1))
    BY <1>1, <1>2, <1>4, ByteFacts DEF Numbers, AreBytes
  <2>2. Payloads(s, at, last) \in Nat
    <3>1. last \in Nat /\ at <= last
      BY <1>1, <1>2
    <3> HIDE DEF last
    <3> QED  BY <2>1, <3>1, PayloadsStep
  <2>3. last # at => Payloads(s, at, last - 1) \in Nat
    <3>1. last # at => last - 1 \in Nat /\ at <= last - 1
      BY <1>2
    <3> QED  BY <2>1, <3>1, <1>2, PayloadsStep
  <2>4. TopGroup(s[last]) \in Nat
    BY <1>2, <2>1, TopGroupNat DEF Numbers
  <2>5. last + 1 \in at + 1 .. end
    BY <1>1, <1>2, <1>4
  <2> HIDE DEF last, behind
  <2>6. FastPath(s, at) =
            IF last = behind - 1
            THEN Found((IF last = at THEN 0 ELSE Payloads(s, at, last - 1)) + TopGroup(s[last]),
                       last + 1)
            ELSE Found(Payloads(s, at, last), last + 1)
    BY <1>4 DEF FastPath, last, behind
  <2>7. \A v \in Nat : Honest(Found(v, last + 1), at, end)
    BY <2>5 DEF Honest, Found, ReadStatus
  <2>8. (IF last = at THEN 0 ELSE Payloads(s, at, last - 1)) + TopGroup(s[last]) \in Nat
    BY <2>3, <2>4
  <2> QED  BY <2>2, <2>6, <2>7, <2>8
<1> QED  BY <1>3, <1>4

\* decode_varint_impl, the loop
LEMMA SlowPathFacts ==
    ASSUME NEW s, NEW at \in Nat, NEW end \in Nat, at <= end, AreBytes(s, at, end)
    PROVE  Honest(SlowPath(s, at, end), at, end)
<1> DEFINE last == Stop(s, at, end)
<1>1. last \in at .. end
  BY StopFacts
<1>2. CASE last = end
  BY <1>2 DEF SlowPath, Missed, Honest, ReadStatus
<1>3. CASE last # end
  <2>1. Numbers(s, at, last)
    BY <1>1, <1>3, ByteFacts DEF Numbers, AreBytes
  <2>2. Payloads(s, at, last) \in Nat /\ last + 1 \in at + 1 .. end
    BY <1>1, <1>3, <2>1, PayloadsStep
  <2> HIDE DEF last
  <2>3. SlowPath(s, at, end) = Found(Payloads(s, at, last), last + 1)
    BY <1>3 DEF SlowPath, last
  <2> QED  BY <2>2, <2>3 DEF Honest, Found, ReadStatus
<1> QED  BY <1>2, <1>3

\* decode_varint
LEMMA DecodeFacts ==
    ASSUME NEW s, NEW at \in Nat, NEW end \in Nat, at <= end, AreBytes(s, at, end)
    PROVE  Honest(DecodeVarint(s, at, end), at, end)
<1>1. CASE at # end /\ s[at] < Radix
  <2>1. s[at] \in Nat /\ at + 1 \in at + 1 .. end
    BY <1>1, ByteFacts DEF AreBytes
  <2> QED  BY <1>1, <2>1 DEF DecodeVarint, Found, Honest, ReadStatus
<1>2. CASE ~ (at # end /\ s[at] < Radix) /\ HasFastPath(at, end)
  <2>1. at + MaxVarintLength <= end
    BY <1>2, RadixFacts DEF HasFastPath
  <2> QED  BY <1>2, <2>1, FastPathFacts DEF DecodeVarint
<1>3. CASE ~ (at # end /\ s[at] < Radix) /\ ~ HasFastPath(at, end)
  BY <1>3, SlowPathFacts DEF DecodeVarint
<1> QED  BY <1>1, <1>2, <1>3

\* skip_varint
LEMMA SkipFacts ==
    ASSUME NEW s, NEW at \in Nat, NEW end \in Nat, at <= end
    PROVE  Honest(SkipVarint(s, at, end), at, end)
<1>1. Stop(s, at, end) \in at .. end
  BY StopFacts
<1> QED  BY <1>1 DEF SkipVarint, Found, Missed, Honest, ReadStatus

\* Skipping and decoding end at the same place, with the same result.
LEMMA SkipAgrees ==
    ASSUME NEW s, NEW at \in Nat, NEW end \in Nat, at <= end
    PROVE  /\ SkipVarint(s, at, end).status = DecodeVarint(s, at, end).status
           /\ SkipVarint(s, at, end).m_data = DecodeVarint(s, at, end).m_data
<1> DEFINE p == Stop(s, at, end)
           behind == at + MaxVarintLength
           q == Stop(s, at, behind)
<1>1. /\ p \in at .. end
      /\ p # end => s[p] < Radix
      /\ \A j \in at .. p - 1 : ~ (s[j] < Radix)
  BY StopFacts
<1>2. behind \in Nat /\ at < behind
  BY RadixFacts
<1>3. CASE at # end /\ s[at] < Radix
  <2>1. p = at
    BY <1>1, <1>3
  <2> HIDE DEF p
  <2>2. SkipVarint(s, at, end) = Found(0, at + 1)
    BY <1>3, <2>1, RadixFacts DEF SkipVarint, p
  <2> QED  BY <1>3, <2>2 DEF DecodeVarint, Found
<1>4. CASE ~ (at # end /\ s[at] < Radix) /\ HasFastPath(at, end)
  <2>1. behind <= end
    BY <1>4, RadixFacts DEF HasFastPath
  <2>2. DecodeVarint(s, at, end) = FastPath(s, at)
    BY <1>4 DEF DecodeVarint
  <2>3. CASE p < behind
    <3>1. q = p
      BY <1>1, <1>2, <2>1, <2>3, StopIs
    <3> HIDE DEF p, q, behind
    <3>2. FastPath(s, at).status = "ok" /\ FastPath(s, at).m_data = p + 1
      BY <2>3, <3>1, <1>1, <1>2 DEF FastPath, Found, q, behind
    <3>3. SkipVarint(s, at, end) = Found(0, p + 1)
      BY <1>1, <1>2, <2>1, <2>3, RadixFacts DEF SkipVarint, p, behind
    <3> QED  BY <2>2, <3>2, <3>3 DEF Found
  <2>4. CASE p >= behind
    <3>1. q = behind
      BY <1>1, <1>2, <2>4, StopIs
    <3> HIDE DEF p, q, behind
    <3>2. FastPath(s, at) = Missed("varint_too_long", at)
      BY <3>1 DEF FastPath, q, behind
    <3>3. SkipVarint(s, at, end) = Missed("varint_too_long", at)
      BY <1>1, <2>4, RadixFacts DEF SkipVarint, p, behind
    <3> QED  BY <2>2, <3>2, <3>3
  <2> QED  BY <1>1, <1>2, <2>3, <2>4
<1>5. CASE ~ (at # end /\ s[at] < Radix) /\ ~ HasFastPath(at, end)
  <2>1. DecodeVarint(s, at, end) = SlowPath(s, at, end)
    BY <1>5 DEF DecodeVarint
  <2>2. ~ (p - at >= MaxVarintLength)
    BY <1>1, <1>5, RadixFacts DEF HasFastPath
  <2> HIDE DEF p
  <2> QED  BY <2>1, <2>2 DEF SlowPath, SkipVarint, Found, Missed, p
<1> QED  BY <1>3, <1>4, <1>5

\* Neither looks at anything but the bytes at .. end - 1.
LEMMA StopLocal ==
    ASSUME NEW s, NEW t, NEW at \in Nat, NEW end \in Nat, at <= end,
           \A j \in at .. end - 1 : s[j] = t[j]
    PROVE  Stop(s, at, end) = Stop(t, at, end)
<1>1. {j \in at .. end - 1 : s[j] < Radix} = {j \in at .. end - 1 : t[j] < Radix}
  OBVIOUS
<1> QED  BY <1>1 DEF Stop

\* skip_varint ...
LEMMA SkipLocal ==
    ASSUME NEW s, NEW t, NEW at \in Nat, NEW end \in Nat, at <= end,
           \A j \in at .. end - 1 : s[j] = t[j]
    PROVE  SkipVarint(s, at, end) = SkipVarint(t, at, end)
BY StopLocal DEF SkipVarint

\* ... and decode_varint.
LEMMA DecodeLocal ==
    ASSUME NEW s, NEW t, NEW at \in Nat, NEW end \in Nat, at <= end, AreBytes(s, at, end),
           \A j \in at .. end - 1 : s[j] = t[j]
    PROVE  DecodeVarint(s, at, end) = DecodeVarint(t, at, end)
<1> DEFINE behind == at + MaxVarintLength
<1>1. \A last \in at .. end - 1 :
        /\ Numbers(s, at, last)
        /\ \A j \in at .. last : s[j] = t[j]
  BY ByteFacts DEF Numbers, AreBytes
<1>2. \A last \in at .. end - 1 : Payloads(s, at, last) = Payloads(t, at, last)
  BY <1>1, PayloadsLocal
<1>3. at # end => s[at] = t[at]
  OBVIOUS
<1>4. SlowPath(s, at, end) = SlowPath(t, at, end)
  <2>1. Stop(s, at, end) = Stop(t, at, end)
    BY StopLocal
  <2>2. Stop(s, at, end) \in at .. end
    BY StopFacts
  <2> QED  BY <1>2, <2>1, <2>2 DEF SlowPath
<1>5. ASSUME HasFastPath(at, end)
      PROVE  FastPath(s, at) = FastPath(t, at)
  <2>1. behind \in Nat /\ behind <= end /\ at < behind
    BY <1>5, RadixFacts DEF HasFastPath
  <2>2. Stop(s, at, behind) = Stop(t, at, behind) /\ Stop(s, at, behind) \in at .. behind
    BY <2>1, StopLocal, StopFacts
  <2>3. Stop(s, at, behind) # behind => s[Stop(s, at, behind)] = t[Stop(s, at, behind)]
    BY <2>1, <2>2
  <2> QED  BY <1>2, <2>1, <2>2, <2>3 DEF FastPath
<1> QED  BY <1>3, <1>4, <1>5 DEF DecodeVarint

-----------------------------------------------------------------------------
(* The number a varint stands for.                                          *)

\* last is the last byte of a varint at at, by what a varint is.
IsVarint(s, at, last) ==
    /\ at <= last /\ last < at + MaxVarintLength
    /\ s[last] < Radix
    /\ \A j \in at .. last - 1 : ~ (s[j] < Radix)

Number(s, at, last) == Payloads(s, at, last) % 2^ValueBits

LEMMA RestIs ==
    ASSUME NEW m \in Nat, m > 0, NEW q \in Nat, NEW r \in Nat, r < m
    PROVE  (m * q + r) % m = r
OBVIOUS

LEMMA DivFacts ==
    ASSUME NEW a \in Nat, NEW m \in Nat, m > 0
    PROVE  /\ a \div m \in Nat /\ a % m \in Nat /\ a % m < m
           /\ a = m * (a \div m) + (a % m)
OBVIOUS

LEMMA Product == \A x, y \in Nat : x * y \in Nat
OBVIOUS

\* One more group of bits: a < R and b < P give a + R * b < R * P.
LEMMA GroupBound ==
    ASSUME NEW a \in Nat, NEW b \in Nat, NEW R \in Nat, NEW P \in Nat, a < R, b < P
    PROVE  a + R * b < R * P
<1>1. PICK d \in Nat : P = b + 1 + d
  <2>1. P - b - 1 \in Nat /\ P = b + 1 + (P - b - 1)
    OBVIOUS
  <2> QED  BY <2>1
<1>2. R * P = R * b + R + R * d
  BY <1>1
<1>3. R * b \in Nat /\ R * d \in Nat
  BY Product
<1> QED  BY <1>2, <1>3

LEMMA PowerFacts ==
    ASSUME NEW k \in Nat, k > 0, k <= MaxVarintLength
    PROVE  /\ Radix^k \in Nat /\ Radix <= Radix^k
           /\ Radix^(k - 1) \in Nat /\ Radix^(k - 1) > 0
           /\ Radix^k = Radix * Radix^(k - 1)
<1>1. k \in 0 .. MaxVarintLength /\ k - 1 \in 0 .. MaxVarintLength - 1
      /\ k - 1 \in 0 .. MaxVarintLength /\ (k - 1) + 1 = k
  BY RadixFacts
<1>2. Radix^k \in Nat /\ Radix^(k - 1) \in Nat \ {0} /\ Radix^((k - 1) + 1) = Radix * Radix^(k - 1)
  BY <1>1, PowerAssumption
<1> DEFINE P == Radix^(k - 1)
<1> HIDE DEF P
<1>3. P \in Nat /\ P > 0 => Radix <= Radix * P
  <2> SUFFICES ASSUME P \in Nat, P > 0 PROVE Radix <= Radix * P
    OBVIOUS
  <2>1. PICK d \in Nat : P = d + 1
    <3>1. P - 1 \in Nat /\ P = (P - 1) + 1
      OBVIOUS
    <3> QED  BY <3>1
  <2>2. Radix * P = Radix * d + Radix /\ Radix * d \in Nat
    BY <2>1, RadixFacts, Product
  <2> QED  BY <2>2, RadixFacts
<1> QED  BY <1>1, <1>2, <1>3 DEF P

\* So many bytes, so many bits.
LEMMA PayloadsBound ==
    ASSUME NEW s, NEW at \in Nat, NEW last \in Nat, at <= last, Numbers(s, at, last),
           NEW k \in Nat, k <= MaxVarintLength, last - at < k
    PROVE  Payloads(s, at, last) < Radix^k
<1> DEFINE Good(n) ==
        \A i, m \in Nat : i + n = last /\ Numbers(s, i, last) /\ m <= MaxVarintLength /\ n < m =>
            Payloads(s, i, last) < Radix^m
<1>1. Good(0)
  <2> SUFFICES ASSUME NEW i \in Nat, NEW m \in Nat, i + 0 = last, Numbers(s, i, last),
                      m <= MaxVarintLength, 0 < m
               PROVE  Payloads(s, i, last) < Radix^m
    OBVIOUS
  <2>1. i = last /\ s[i] \in Nat /\ s[i] % Radix < Radix /\ s[i] % Radix \in Nat
    BY RadixFacts DEF Numbers
  <2>2. Payloads(s, i, last) = s[i] % Radix
    BY <2>1, PayloadsStep
  <2> QED  BY <2>1, <2>2, PowerFacts, RadixFacts
<1>2. ASSUME NEW n \in Nat, n > 0, Good(n - 1)
      PROVE  Good(n)
  <2> SUFFICES ASSUME NEW i \in Nat, NEW m \in Nat, i + n = last, Numbers(s, i, last),
                      m <= MaxVarintLength, n < m
               PROVE  Payloads(s, i, last) < Radix^m
    OBVIOUS
  <2>0. Numbers(s, i + 1, last)
    BY DEF Numbers
  <2>1. /\ i < last /\ i + 1 \in Nat /\ m - 1 \in Nat /\ i + 1 <= last
        /\ m - 1 <= MaxVarintLength /\ n - 1 < m - 1 /\ (i + 1) + (n - 1) = last
    BY <1>2, RadixFacts
  <2>2. Payloads(s, i + 1, last) < Radix^(m - 1)
    BY <1>2, <2>0, <2>1
  <2>3. Payloads(s, i + 1, last) \in Nat
    BY <2>0, <2>1, PayloadsStep
  <2>4. Payloads(s, i, last) = (s[i] % Radix) + Radix * Payloads(s, i + 1, last)
    BY <2>1, PayloadsStep
  <2>5. s[i] % Radix \in Nat /\ s[i] % Radix < Radix
    BY <2>1, RadixFacts DEF Numbers
  <2>6. Radix^(m - 1) \in Nat /\ Radix^m = Radix * Radix^(m - 1)
    BY PowerFacts
  <2>7. (s[i] % Radix) + Radix * Payloads(s, i + 1, last) < Radix * Radix^(m - 1)
    BY <2>2, <2>3, <2>5, <2>6, GroupBound, RadixFacts
  <2> QED  BY <2>4, <2>6, <2>7
<1> HIDE DEF Good
<1>3. {n \in Nat : ~ Good(n)} = {}
  <2> SUFFICES ASSUME {n \in Nat : ~ Good(n)} # {}
               PROVE  FALSE
    OBVIOUS
  <2>1. PICK n \in {m \in Nat : ~ Good(m)} : \A m \in {j \in Nat : ~ Good(j)} : n <= m
    BY LeastNumber
  <2>2. n # 0
    BY <1>1, <2>1
  <2>3. Good(n - 1)
    BY <2>1, <2>2
  <2> QED  BY <1>2, <2>1, <2>2, <2>3
<1>4. Good(last - at) /\ last - at \in Nat /\ at + (last - at) = last
  BY <1>3
<1> QED  BY <1>4 DEF Good

LEMMA Descent ==
    ASSUME NEW S \in SUBSET Nat, \A n \in S : \E m \in S : m < n
    PROVE  S = {}
BY LeastNumber

\* The last byte holds the most significant group.
LEMMA PayloadsSplit ==
    ASSUME NEW s, NEW at \in Nat, NEW last \in Nat, at < last, Numbers(s, at, last),
           last - at < MaxVarintLength
    PROVE  Payloads(s, at, last) =
              Payloads(s, at, last - 1) + (s[last] % Radix) * Radix^(last - at)
<1> DEFINE Good(i) ==
        Payloads(s, i, last) = Payloads(s, i, last - 1) + (s[last] % Radix) * Radix^(last - i)
    top == s[last] % Radix
<1>1. top \in Nat /\ last - 1 \in Nat /\ Radix \in Nat
  BY RadixFacts DEF Numbers
<1> HIDE DEF top
<1>2. ASSUME NEW i \in at .. last - 1, i < last - 1 => Good(i + 1)
      PROVE  Good(i)
  <2>1. Numbers(s, i, last) /\ Numbers(s, i, last - 1)
    BY DEF Numbers
  <2>2. i \in Nat /\ i < last /\ i <= last - 1 /\ i + 1 \in Nat /\ i + 1 <= last
    BY <1>1
  <2>3. Payloads(s, i, last) = (s[i] % Radix) + Radix * Payloads(s, i + 1, last)
    BY <2>1, <2>2, PayloadsStep
  <2>4. s[i] % Radix \in Nat
    BY <2>1, <2>2, RadixFacts DEF Numbers
  <2>5. CASE i = last - 1
    <3>1. Payloads(s, i, last - 1) = s[i] % Radix
      BY <1>1, <2>1, <2>2, <2>5, PayloadsStep
    <3>2. Numbers(s, last, last)
      BY <2>1, <2>2 DEF Numbers
    <3>3. Payloads(s, last, last) = top
      BY <3>2, PayloadsStep DEF top
    <3>4. Radix^(last - i) = Radix
      <4>1. last - i = 1 /\ 1 <= MaxVarintLength
        BY <2>5, RadixFacts
      <4>2. Radix^1 = Radix * Radix^(1 - 1) /\ Radix^0 = 1
        BY <4>1, PowerFacts, PowerAssumption
      <4> QED  BY <4>1, <4>2, <1>1
    <3> QED  BY <1>1, <2>3, <2>4, <2>5, <3>1, <3>3, <3>4 DEF top
  <2>6. CASE i < last - 1
    <3> DEFINE rest == Payloads(s, i + 1, last - 1)
               weight == Radix^(last - (i + 1))
    <3>1. Numbers(s, i + 1, last - 1) /\ i + 1 <= last - 1
      BY <2>1, <2>6 DEF Numbers
    <3>2. rest \in Nat
      BY <1>1, <2>2, <3>1, PayloadsStep
    <3>3. Payloads(s, i, last - 1) = (s[i] % Radix) + Radix * rest
      BY <1>1, <2>1, <2>2, <2>6, PayloadsStep
    <3>4. weight \in Nat /\ Radix^(last - i) = Radix * weight
      <4>1. last - i \in Nat /\ last - i > 0 /\ last - i <= MaxVarintLength
            /\ (last - i) - 1 = last - (i + 1)
        BY <2>2, RadixFacts
      <4> QED  BY <4>1, PowerFacts
    <3>5. Payloads(s, i + 1, last) = rest + top * weight
      BY <1>2, <2>6 DEF top
    <3> HIDE DEF rest, weight
    <3>6. Radix * (rest + top * weight) = Radix * rest + top * (Radix * weight)
      BY <1>1, <3>2, <3>4
    <3>7. Radix * rest \in Nat /\ top * (Radix * weight) \in Nat
      BY <1>1, <3>2, <3>4, Product
    <3> QED  BY <2>3, <2>4, <3>3, <3>4, <3>5, <3>6, <3>7 DEF top
  <2> QED  BY <2>2, <2>5, <2>6
<1> HIDE DEF Good
<1> DEFINE Bad == {n \in Nat : \E i \in at .. last - 1 : n = last - i /\ ~ Good(i)}
<1>3. Bad = {}
  <2> SUFFICES ASSUME NEW n \in Bad
               PROVE  \E m \in Bad : m < n
    BY Descent
  <2>1. PICK i \in at .. last - 1 : n = last - i /\ ~ Good(i)
    OBVIOUS
  <2>2. i < last - 1 /\ ~ Good(i + 1)
    BY <1>2, <2>1
  <2>3. i + 1 \in at .. last - 1 /\ last - (i + 1) \in Nat /\ last - (i + 1) < n
    BY <2>1, <2>2
  <2> QED  BY <2>2, <2>3
<1>4. at \in at .. last - 1 /\ last - at \in Nat
  OBVIOUS
<1>5. Good(at)
  BY <1>3, <1>4
<1> QED  BY <1>5 DEF Good

LEMMA PowersGrow ==
    ASSUME NEW k \in Nat, k < MaxVarintLength
    PROVE  Radix^k <= 2^ValueBits
<1> DEFINE top == MaxVarintLength - 1
           Bad == {n \in Nat : \E i \in 0 .. top : n = top - i /\ ~ (Radix^i <= Radix^top)}
<1>1. top \in Nat /\ top <= MaxVarintLength /\ k \in 0 .. top
  BY RadixFacts
<1>2. Radix^top \in Nat /\ Radix^top <= 2^ValueBits
  <2>1. Radix^top \in Nat /\ 2^TopBits \in Nat \ {0} /\ Radix^top * 2^TopBits = 2^ValueBits
    BY <1>1, RadixFacts, PowerAssumption
  <2> DEFINE a == Radix^top
             b == 2^TopBits
  <2> HIDE DEF a, b, top
  <2>2. a \in Nat /\ b \in Nat \ {0} => a <= a * b
    <3> SUFFICES ASSUME a \in Nat, b \in Nat \ {0} PROVE a <= a * b
      OBVIOUS
    <3>1. b - 1 \in Nat /\ a * b = a + a * (b - 1)
      OBVIOUS
    <3> QED  BY <3>1, Product
  <2> QED  BY <2>1, <2>2 DEF a, b
<1>3. Bad = {}
  <2> SUFFICES ASSUME NEW n \in Bad
               PROVE  \E m \in Bad : m < n
    BY Descent
  <2>1. PICK i \in 0 .. top : n = top - i /\ ~ (Radix^i <= Radix^top)
    OBVIOUS
  <2>2. i # top
    BY <1>2, <2>1
  <2>3. i + 1 \in 0 .. top /\ top - (i + 1) \in Nat /\ top - (i + 1) < n
        /\ i + 1 > 0 /\ i + 1 <= MaxVarintLength /\ i + 1 \in Nat /\ (i + 1) - 1 = i
    BY <1>1, <2>1, <2>2, RadixFacts
  <2>4. Radix^i <= Radix^(i + 1)
    <3>1. Radix^i \in Nat /\ Radix^(i + 1) = Radix * Radix^i
      BY <2>3, PowerFacts
    <3> DEFINE a == Radix^i
    <3> HIDE DEF a
    <3>2. a \in Nat => a <= Radix * a
      <4> SUFFICES ASSUME a \in Nat PROVE a <= Radix * a
        OBVIOUS
      <4>1. Radix - 1 \in Nat /\ Radix * a = a + (Radix - 1) * a
        BY RadixFacts
      <4> QED  BY <4>1, Product
    <3> QED  BY <3>1, <3>2 DEF a
  <2>5. Radix^i \in Nat /\ Radix^(i + 1) \in Nat
    BY <2>3, PowerFacts
  <2>6. ~ (Radix^(i + 1) <= Radix^top)
    BY <1>2, <2>1, <2>4, <2>5
  <2> QED  BY <2>3, <2>6
<1>4. Radix^k <= Radix^top
  <2>1. top - k \in Nat
    BY <1>1
  <2> QED  BY <1>1, <1>3, <2>1
<1>5. Radix^k \in Nat
  BY <1>1, RadixFacts, PowerAssumption
<1> QED  BY <1>2, <1>4, <1>5, PowerAssumption

\* A number of fewer bytes than the longest has no bits to lose.
LEMMA ShortNumber ==
    ASSUME NEW s, NEW at \in Nat, NEW last \in Nat, at <= last, Numbers(s, at, last),
           last - at < MaxVarintLength - 1
    PROVE  Number(s, at, last) = Payloads(s, at, last)
<1>1. Payloads(s, at, last) \in Nat
  BY PayloadsStep
<1> DEFINE k == MaxVarintLength - 1
<1>2. k \in Nat /\ k <= MaxVarintLength /\ last - at < k /\ k < MaxVarintLength
  BY RadixFacts
<1> HIDE DEF k
<1>3. Payloads(s, at, last) < Radix^k
  BY <1>2, PayloadsBound
<1>4. Radix^k <= 2^ValueBits /\ Radix^k \in Nat
  BY <1>2, PowersGrow, PowerAssumption
<1>5. Payloads(s, at, last) < 2^ValueBits /\ 2^ValueBits \in Nat
  BY <1>1, <1>3, <1>4, PowerAssumption
<1> QED  BY <1>1, <1>5 DEF Number

\* Of a longer one, the last byte loses some.
LEMMA LongNumber ==
    ASSUME NEW s, NEW at \in Nat, NEW last \in Nat, Numbers(s, at, last), s[last] < Radix,
           last - at = MaxVarintLength - 1
    PROVE  Number(s, at, last) = Payloads(s, at, last - 1) + TopGroup(s[last])
<1> DEFINE P == Radix^(MaxVarintLength - 1)
           T == 2^TopBits
           A == Payloads(s, at, last - 1)
           x == s[last]
           q == x \div T
           r == x % T
<1>1. /\ at < last /\ last - at < MaxVarintLength /\ last - 1 \in Nat /\ at <= last - 1
      /\ (last - 1) - at < MaxVarintLength - 1
      /\ MaxVarintLength - 1 \in Nat /\ MaxVarintLength - 1 <= MaxVarintLength
  BY RadixFacts
<1>2. Numbers(s, at, last - 1) /\ x \in Nat
  BY <1>1 DEF Numbers
<1>3. P \in Nat /\ P > 0 /\ T \in Nat /\ T > 0 /\ P * T = 2^ValueBits /\ 2^ValueBits \in Nat
      /\ 2^ValueBits > 0
  BY <1>1, PowerAssumption
<1>4. x % Radix = x
  BY <1>2, RadixFacts
<1>5. Payloads(s, at, last) = A + x * P
  BY <1>1, <1>4, PayloadsSplit
<1>6. A \in Nat
  BY <1>1, <1>2, PayloadsStep
<1>7. A < P
  BY <1>1, <1>2, PayloadsBound
<1> HIDE DEF P, T, A, x
<1>8. q \in Nat /\ r \in Nat /\ r < T /\ x = T * q + r
  BY <1>2, <1>3, DivFacts
<1> HIDE DEF q, r
<1>9. A + x * P = (P * T) * q + (A + r * P)
  <2>1. x * P = (T * q + r) * P
    BY <1>8
  <2>2. (T * q + r) * P = (P * T) * q + r * P
    BY <1>3, <1>8
  <2>3. (P * T) * q \in Nat /\ r * P \in Nat
    BY <1>3, <1>8, Product
  <2> QED  BY <1>6, <2>1, <2>2, <2>3
<1>10. A + r * P < P * T /\ A + r * P \in Nat
  <2>1. A + P * r < P * T
    BY <1>3, <1>6, <1>7, <1>8, GroupBound
  <2>2. P * r = r * P /\ r * P \in Nat
    BY <1>3, <1>8, Product
  <2> QED  BY <1>6, <2>1, <2>2
<1>11. (A + x * P) % (P * T) = A + r * P
  <2>1. P * T \in Nat /\ P * T > 0
    BY <1>3
  <2> DEFINE m == P * T
             rest == A + r * P
  <2>2. m \in Nat /\ m > 0 /\ rest \in Nat /\ rest < m /\ A + x * P = m * q + rest
    BY <1>9, <1>10, <2>1
  <2> HIDE DEF m, rest
  <2>3. (m * q + rest) % m = rest
    BY <1>8, <2>2, RestIs
  <2>4. (A + x * P) % m = rest
    BY <2>2, <2>3
  <2> QED  BY <2>4 DEF m, rest
<1>12. TopGroup(s[last]) = r * P
  BY DEF TopGroup, r, x, T, P
<1>13. Number(s, at, last) = (A + x * P) % (P * T)
  BY <1>3, <1>5 DEF Number
<1> QED  BY <1>11, <1>12, <1>13 DEF A

\* decode_varint returns the number of the varint at at, whichever path it takes.
LEMMA DecodeFinds ==
    ASSUME NEW s, NEW at \in Nat, NEW end \in Nat, AreBytes(s, at, end),
           NEW last \in at .. end - 1, IsVarint(s, at, last)
    PROVE  DecodeVarint(s, at, end) = Found(Number(s, at, last), last + 1)
<1> DEFINE behind == at + MaxVarintLength
<1>1. /\ behind \in Nat /\ last \in Nat /\ at <= last /\ last < behind /\ at <= end
      /\ s[last] < Radix /\ \A j \in at .. last - 1 : ~ (s[j] < Radix)
  BY RadixFacts DEF IsVarint
<1>2. Numbers(s, at, last)
  BY ByteFacts DEF Numbers, AreBytes
<1>3. s[at] \in Nat /\ s[last] \in Nat
  BY <1>1, <1>2 DEF Numbers
<1>4. CASE s[at] < Radix
  <2>1. last = at
    BY <1>1, <1>4
  <2>2. Payloads(s, at, at) = s[at] % Radix
    BY <1>1, <1>2, <2>1, PayloadsStep
  <2>3. s[at] % Radix = s[at]
    BY <1>3, <1>4, RadixFacts
  <2>4. Number(s, at, last) = Payloads(s, at, last)
    <3>1. last - at < MaxVarintLength - 1
      BY <2>1, RadixFacts
    <3> QED  BY <1>1, <1>2, <3>1, ShortNumber
  <2> QED  BY <1>1, <1>4, <2>1, <2>2, <2>3, <2>4 DEF DecodeVarint
<1>5. CASE ~ (s[at] < Radix) /\ HasFastPath(at, end)
  <2>1. DecodeVarint(s, at, end) = FastPath(s, at)
    BY <1>5 DEF DecodeVarint
  <2>2. Stop(s, at, behind) = last
    <3>1. last \in at .. behind /\ at <= behind
      BY <1>1
    <3> QED  BY <1>1, <3>1, StopIs
  <2>3. last # at
    BY <1>1, <1>5
  <2>4. CASE last = behind - 1
    <3>1. Number(s, at, last) = Payloads(s, at, last - 1) + TopGroup(s[last])
      <4>1. last - at = MaxVarintLength - 1
        BY <1>1, <2>4, RadixFacts
      <4> QED  BY <1>1, <1>2, <4>1, LongNumber
    <3> QED  BY <1>1, <2>1, <2>2, <2>3, <2>4, <3>1 DEF FastPath
  <2>5. CASE last # behind - 1
    <3>1. Number(s, at, last) = Payloads(s, at, last)
      <4>1. last - at < MaxVarintLength - 1
        BY <1>1, <2>5, RadixFacts
      <4> QED  BY <1>1, <1>2, <4>1, ShortNumber
    <3> QED  BY <1>1, <2>1, <2>2, <2>5, <3>1 DEF FastPath
  <2> QED  BY <2>4, <2>5
<1>6. CASE ~ (s[at] < Radix) /\ ~ HasFastPath(at, end)
  <2>1. DecodeVarint(s, at, end) = SlowPath(s, at, end)
    BY <1>6 DEF DecodeVarint
  <2>2. Stop(s, at, end) = last
    <3>1. last \in at .. end
      BY <1>1
    <3> QED  BY <1>1, <3>1, StopIs
  <2>3. Number(s, at, last) = Payloads(s, at, last)
    <3>1. last - at < MaxVarintLength - 1
      BY <1>1, <1>6, RadixFacts DEF HasFastPath
    <3> QED  BY <1>1, <1>2, <3>1, ShortNumber
  <2> QED  BY <1>1, <2>1, <2>2, <2>3 DEF SlowPath
<1> QED  BY <1>4, <1>5, <1>6

\* It fails when there is none, and then leaves the pointer.
LEMMA DecodeMisses ==
    ASSUME NEW s, NEW at \in Nat, NEW end \in Nat, at <= end,
           \A last \in at .. end - 1 : ~ IsVarint(s, at, last)
    PROVE  DecodeVarint(s, at, end) =
              Missed(IF end - at >= MaxVarintLength THEN "varint_too_long" ELSE "end_of_buffer", at)
<1> DEFINE behind == at + MaxVarintLength
<1>1. behind \in Nat /\ at < behind /\ MaxVarintLength \in Nat
  BY RadixFacts
<1>2. ~ (at # end /\ s[at] < Radix)
  BY <1>1 DEF IsVarint
<1>3. CASE HasFastPath(at, end)
  <2>1. behind <= end /\ end - at >= MaxVarintLength
    BY <1>1, <1>3 DEF HasFastPath
  <2>2. Stop(s, at, behind) = behind
    <3>1. /\ Stop(s, at, behind) \in at .. behind
          /\ Stop(s, at, behind) # behind => s[Stop(s, at, behind)] < Radix
          /\ \A j \in at .. Stop(s, at, behind) - 1 : ~ (s[j] < Radix)
      BY <1>1, StopFacts
    <3> DEFINE p == Stop(s, at, behind)
    <3> HIDE DEF p
    <3> QED  BY <1>1, <2>1, <3>1 DEF IsVarint, p
  <2> QED  BY <1>2, <1>3, <2>1, <2>2 DEF DecodeVarint, FastPath
<1>4. CASE ~ HasFastPath(at, end)
  <2>1. ~ (end - at >= MaxVarintLength)
    BY <1>4 DEF HasFastPath
  <2>2. Stop(s, at, end) = end
    <3>1. /\ Stop(s, at, end) \in at .. end
          /\ Stop(s, at, end) # end => s[Stop(s, at, end)] < Radix
          /\ \A j \in at .. Stop(s, at, end) - 1 : ~ (s[j] < Radix)
      BY StopFacts
    <3> DEFINE p == Stop(s, at, end)
    <3> HIDE DEF p
    <3> QED  BY <1>1, <2>1, <3>1 DEF IsVarint, p
  <2> QED  BY <1>2, <1>4, <2>1, <2>2 DEF DecodeVarint, SlowPath
<1> QED  BY <1>3, <1>4

\* The same bytes are the same number wherever they stand.
LEMMA PayloadsShift ==
    ASSUME NEW s, NEW t, NEW at \in Nat, NEW last \in Nat, at <= last, Numbers(s, at, last),
           NEW d \in Int, at + d \in Nat, \A j \in at .. last : t[j + d] = s[j]
    PROVE  Payloads(t, at + d, last + d) = Payloads(s, at, last)
<1>1. /\ at + d \in Nat /\ last + d \in Nat /\ at + d <= last + d
      /\ \A j \in at + d .. last + d : j - d \in at .. last /\ t[j] = s[j - d]
  <2>1. \A j \in at + d .. last + d : j - d \in at .. last /\ (j - d) + d = j
    OBVIOUS
  <2>2. \A j \in at + d .. last + d : t[j] = s[j - d]
    BY <2>1
  <2> QED  BY <2>1, <2>2
<1>2. Numbers(t, at + d, last + d)
  BY <1>1 DEF Numbers
<1>3. PICK f \in [at .. last -> Nat] : Adds(f, s, at, last) /\ Payloads(s, at, last) = f[at]
  BY PayloadsFacts
<1>4. PICK g \in [at + d .. last + d -> Nat] :
        Adds(g, t, at + d, last + d) /\ Payloads(t, at + d, last + d) = g[at + d]
  <2> DEFINE a == at + d
             z == last + d
  <2>1. a \in Nat /\ z \in Nat /\ a <= z /\ Numbers(t, a, z)
    BY <1>1, <1>2
  <2> HIDE DEF a, z
  <2>2. \E g \in [a .. z -> Nat] : Adds(g, t, a, z) /\ Payloads(t, a, z) = g[a]
    BY <2>1, PayloadsFacts
  <2> QED  BY <2>2 DEF a, z
<1> DEFINE h == [j \in at .. last |-> g[j + d]]
<1>5. \A j \in at .. last :
        g[j + d] = (s[j] % Radix) + (IF j = last THEN 0 ELSE Radix * g[j + 1 + d])
  <2> TAKE j \in at .. last
  <2>1. j + d \in at + d .. last + d /\ (j + d) + 1 = j + 1 + d /\ (j + d = last + d <=> j = last)
    OBVIOUS
  <2>2. g[j + d] = (t[j + d] % Radix) + (IF j + d = last + d THEN 0 ELSE Radix * g[(j + d) + 1])
    BY <1>4, <2>1 DEF Adds
  <2> QED  BY <2>1, <2>2
<1>6. \A j \in at .. last :
        /\ h[j] = g[j + d]
        /\ j # last => h[j + 1] = g[j + 1 + d]
  <2> TAKE j \in at .. last
  <2>1. j # last => j + 1 \in at .. last
    OBVIOUS
  <2> QED  BY <2>1
<1>7. h = [j \in at .. last |-> (s[j] % Radix) + (IF j = last THEN 0 ELSE Radix * h[j + 1])]
  <2>1. \A j \in at .. last :
            h[j] = (s[j] % Radix) + (IF j = last THEN 0 ELSE Radix * h[j + 1])
    BY <1>5, <1>6
  <2> QED  BY <2>1
<1>8. Adds(h, s, at, last)
  BY <1>7 DEF Adds
<1>9. h[at] = g[at + d]
  OBVIOUS
<1> HIDE DEF h
<1>10. h = f
  BY <1>3, <1>8, SumUnique
<1> QED  BY <1>3, <1>4, <1>9, <1>10

LEMMA VarintShift ==
    ASSUME NEW s, NEW t, NEW at \in Nat, NEW last \in Nat, AreBytes(s, at, last + 1),
           NEW d \in Int, at + d \in Nat, \A j \in at .. last : t[j + d] = s[j],
           IsVarint(s, at, last)
    PROVE  IsVarint(t, at + d, last + d) /\ Number(t, at + d, last + d) = Number(s, at, last)
<1>1. at <= last /\ Numbers(s, at, last)
  BY ByteFacts DEF IsVarint, Numbers, AreBytes
<1>2. \A j \in at + d .. last + d : j - d \in at .. last /\ t[j] = s[j - d]
  <2>1. \A j \in at + d .. last + d : j - d \in at .. last /\ (j - d) + d = j
    OBVIOUS
  <2>2. \A j \in at + d .. last + d : t[j] = s[j - d]
    BY <2>1
  <2> QED  BY <2>1, <2>2
<1>3. IsVarint(t, at + d, last + d)
  <2>1. at + d <= last + d /\ last + d < at + d + MaxVarintLength
    BY RadixFacts DEF IsVarint
  <2>2. t[last + d] < Radix
    BY <1>1 DEF IsVarint
  <2>3. \A j \in at + d .. (last + d) - 1 : ~ (t[j] < Radix)
    <3> TAKE j \in at + d .. (last + d) - 1
    <3>1. j \in at + d .. last + d /\ j - d \in at .. last - 1
      OBVIOUS
    <3> QED  BY <1>2, <3>1 DEF IsVarint
  <2> QED  BY <2>1, <2>2, <2>3 DEF IsVarint
<1> QED  BY <1>1, <1>3, PayloadsShift DEF Number

\* No byte starts two varints.
LEMMA OneVarint ==
    ASSUME NEW s, NEW at \in Nat, NEW a \in Nat, NEW b \in Nat,
           IsVarint(s, at, a), IsVarint(s, at, b)
    PROVE  a = b
BY DEF IsVarint

LEMMA NumberFacts ==
    ASSUME NEW s, NEW at \in Nat, NEW last \in Nat, AreBytes(s, at, last + 1), at <= last
    PROVE  Number(s, at, last) \in Nat /\ Number(s, at, last) < 2^ValueBits
<1>1. Numbers(s, at, last)
  BY ByteFacts DEF Numbers, AreBytes
<1>2. Payloads(s, at, last) \in Nat /\ 2^ValueBits \in Nat \ {0}
  BY <1>1, PayloadsStep, PowerAssumption
<1> QED  BY <1>2 DEF Number

-----------------------------------------------------------------------------
(* write_varint.                                                            *)

LEMMA DivLess ==
    ASSUME NEW n \in Nat, Radix <= n
    PROVE  n \div Radix \in Nat /\ n \div Radix < n /\ n % Radix \in Nat /\ n % Radix < Radix
           /\ n = Radix * (n \div Radix) + (n % Radix)
<1>1. /\ n \div Radix \in Nat /\ n % Radix \in Nat /\ n % Radix < Radix
      /\ n = Radix * (n \div Radix) + (n % Radix)
  BY RadixFacts, DivFacts
<1>2. \A q, R, r \in Nat : R > 1 /\ r < R /\ R <= R * q + r => q < R * q + r
  <2> SUFFICES ASSUME NEW q \in Nat, NEW R \in Nat, NEW r \in Nat, R > 1, r < R, R <= R * q + r
               PROVE  q < R * q + r
    OBVIOUS
  <2>1. q > 0
    OBVIOUS
  <2>2. R * q = q + (R - 1) * q /\ (R - 1) * q > 0
    BY <2>1
  <2> QED  BY <2>2
<1> HIDE DEF Radix
<1> QED  BY <1>1, <1>2, RadixFacts

\* f is the function with these values for one group and this step to more.
Unfolds(f, S, first, more) ==
    f = [n \in S |-> IF n < Radix THEN first[n] ELSE more[<<n, f[n \div Radix]>>]]

LEMMA UnfoldUnique ==
    ASSUME NEW k \in Nat, NEW first, NEW more,
           NEW f, NEW g, Unfolds(f, 0 .. k, first, more), Unfolds(g, 0 .. k, first, more)
    PROVE  f = g
<1>1. \A n \in 0 .. k :
        /\ f[n] = IF n < Radix THEN first[n] ELSE more[<<n, f[n \div Radix]>>]
        /\ g[n] = IF n < Radix THEN first[n] ELSE more[<<n, g[n \div Radix]>>]
  BY DEF Unfolds
<1> DEFINE Bad == {n \in Nat : n \in 0 .. k /\ f[n] # g[n]}
<1>2. Bad = {}
  <2> SUFFICES ASSUME NEW n \in Bad PROVE \E m \in Bad : m < n
    BY Descent
  <2>1. Radix <= n
    <3>1. Radix \in Nat /\ n \in 0 .. k /\ f[n] # g[n]
      BY RadixFacts
    <3>2. ~(n < Radix)
      BY <1>1, <3>1
    <3> QED  BY <3>1, <3>2
  <2>2. n \div Radix \in 0 .. k /\ n \div Radix < n
    BY <2>1, DivLess
  <2>3. f[n \div Radix] # g[n \div Radix]
    <3>1. ~(n < Radix)
      BY <2>1, RadixFacts
    <3> QED  BY <1>1, <3>1
  <2> QED  BY <2>2, <2>3
<1>3. f = [n \in 0 .. k |-> f[n]] /\ g = [n \in 0 .. k |-> g[n]]
  BY DEF Unfolds
<1>4. \A n \in 0 .. k : f[n] = g[n]
  BY <1>2
<1> QED  BY <1>3, <1>4

\* What is unfolded for larger numbers contains what is unfolded for smaller ones.
LEMMA UnfoldLess ==
    ASSUME NEW k \in Nat, NEW m \in 0 .. k, NEW first, NEW more,
           NEW f, NEW g, Unfolds(f, 0 .. k, first, more), Unfolds(g, 0 .. m, first, more)
    PROVE  \A n \in 0 .. m : f[n] = g[n]
<1> DEFINE h == [n \in 0 .. m |-> f[n]]
<1>1. \A n \in 0 .. m : f[n] = IF n < Radix THEN first[n] ELSE more[<<n, f[n \div Radix]>>]
  <2>1. \A n \in 0 .. k : f[n] = IF n < Radix THEN first[n] ELSE more[<<n, f[n \div Radix]>>]
    BY DEF Unfolds
  <2>2. \A n \in 0 .. m : n \in 0 .. k
    OBVIOUS
  <2> QED  BY <2>1, <2>2
<1>2. ASSUME NEW n \in 0 .. m
      PROVE  h[n] = IF n < Radix THEN first[n] ELSE more[<<n, h[n \div Radix]>>]
  <2>1. CASE n < Radix
    BY <1>1, <2>1
  <2>2. CASE ~(n < Radix)
    <3>1. Radix <= n
      BY <2>2, RadixFacts
    <3>2. n \div Radix \in 0 .. m
      BY <3>1, DivLess
    <3> QED  BY <1>1, <2>2, <3>2
  <2> QED  BY <2>1, <2>2
<1>3. Unfolds(h, 0 .. m, first, more)
  BY <1>2 DEF Unfolds
<1> HIDE DEF h
<1>4. h = g
  BY <1>3, UnfoldUnique
<1> QED  BY <1>4 DEF h

LEMMA UnfoldExists ==
    ASSUME NEW V, NEW first \in [Nat -> V], NEW more \in [Nat \X V -> V]
    PROVE  \E f \in [Nat -> V] : Unfolds(f, Nat, first, more)
<1> DEFINE Good(k) == \E f \in [0 .. k -> V] : Unfolds(f, 0 .. k, first, more)
<1>1. ASSUME NEW k \in Nat, \A m \in Nat : m < k => Good(m)
      PROVE  Good(k)
  <2>1. CASE k = 0
    <3> DEFINE f == [n \in 0 .. k |-> first[n]]
    <3>1. f \in [0 .. k -> V]
      OBVIOUS
    <3>2. \A n \in 0 .. k : n < Radix
      BY <2>1, RadixFacts
    <3>3. Unfolds(f, 0 .. k, first, more)
      BY <3>2 DEF Unfolds
    <3> QED  BY <3>1, <3>3
  <2>2. CASE k # 0
    <3>1. PICK g \in [0 .. k - 1 -> V] : Unfolds(g, 0 .. k - 1, first, more)
      BY <1>1, <2>2
    <3> DEFINE f == [n \in 0 .. k |->
                       IF n < Radix THEN first[n] ELSE more[<<n, g[n \div Radix]>>]]
    <3>2. ASSUME NEW n \in 0 .. k, ~(n < Radix)
          PROVE  n \div Radix \in 0 .. k - 1 /\ n \div Radix \in 0 .. k
      <4>1. Radix <= n
        BY <3>2, RadixFacts
      <4> QED  BY <4>1, DivLess
    <3>3. f \in [0 .. k -> V]
      <4>1. ASSUME NEW n \in 0 .. k, ~(n < Radix) PROVE more[<<n, g[n \div Radix]>>] \in V
        <5>1. g[n \div Radix] \in V
          BY <3>2, <4>1
        <5>2. \A a \in Nat, v \in V : more[<<a, v>>] \in V
          OBVIOUS
        <5>3. n \in Nat
          OBVIOUS
        <5> HIDE DEF f
        <5> QED  BY <5>1, <5>2, <5>3
      <4>2. \A n \in 0 .. k : n < Radix => first[n] \in V
        OBVIOUS
      <4>3. \A n \in 0 .. k :
              (IF n < Radix THEN first[n] ELSE more[<<n, g[n \div Radix]>>]) \in V
        BY <4>1, <4>2
      <4> QED  BY <4>3
    <3>4. ASSUME NEW n \in 0 .. k - 1 PROVE f[n] = g[n]
      <4>1. g[n] = IF n < Radix THEN first[n] ELSE more[<<n, g[n \div Radix]>>]
        BY <3>1 DEF Unfolds
      <4>2. n \in 0 .. k
        OBVIOUS
      <4>3. f[n] = IF n < Radix THEN first[n] ELSE more[<<n, g[n \div Radix]>>]
        BY <4>2
      <4> QED  BY <4>1, <4>3
    <3>5. \A n \in 0 .. k : f[n] = IF n < Radix THEN first[n] ELSE more[<<n, f[n \div Radix]>>]
      BY <3>2, <3>4
    <3>6. Unfolds(f, 0 .. k, first, more)
      BY <3>5 DEF Unfolds
    <3> HIDE DEF f
    <3> QED  BY <3>3, <3>6
  <2> QED  BY <2>1, <2>2
<1> HIDE DEF Good
<1>2. {k \in Nat : ~ Good(k)} = {}
  <2> SUFFICES ASSUME NEW k \in {m \in Nat : ~ Good(m)}
               PROVE  \E m \in {l \in Nat : ~ Good(l)} : m < k
    BY Descent
  <2> QED  BY <1>1
<1> DEFINE part(k) == CHOOSE f \in [0 .. k -> V] : Unfolds(f, 0 .. k, first, more)
           whole == [n \in Nat |-> part(n)[n]]
<1>3. ASSUME NEW k \in Nat PROVE part(k) \in [0 .. k -> V] /\ Unfolds(part(k), 0 .. k, first, more)
  BY <1>2 DEF Good
<1> HIDE DEF part
<1>4. whole \in [Nat -> V]
  BY <1>3
<1>5. ASSUME NEW n \in Nat
      PROVE  whole[n] = IF n < Radix THEN first[n] ELSE more[<<n, whole[n \div Radix]>>]
  <2>1. part(n)[n] = IF n < Radix THEN first[n] ELSE more[<<n, part(n)[n \div Radix]>>]
    <3>1. \A k \in 0 .. n :
            part(n)[k] = IF k < Radix THEN first[k] ELSE more[<<k, part(n)[k \div Radix]>>]
      BY <1>3 DEF Unfolds
    <3>2. n \in 0 .. n
      OBVIOUS
    <3> QED  BY <3>1, <3>2
  <2>2. CASE n < Radix
    BY <2>1, <2>2
  <2>3. CASE ~(n < Radix)
    <3> DEFINE m == n \div Radix
    <3>1. Radix <= n
      BY <2>3, RadixFacts
    <3>2. m \in 0 .. n /\ m \in 0 .. m /\ m \in Nat
      BY <3>1, DivLess
    <3> HIDE DEF m
    <3>3. part(n)[m] = part(m)[m]
      BY <1>3, <3>2, UnfoldLess
    <3> QED  BY <2>1, <2>3, <3>2, <3>3 DEF m
  <2> QED  BY <2>2, <2>3
<1>6. Unfolds(whole, Nat, first, more)
  BY <1>5 DEF Unfolds
<1> HIDE DEF whole
<1> QED  BY <1>4, <1>6

-----------------------------------------------------------------------------
(* write_varint.                                                            *)

Group(n) == <<(n % Radix) + Radix>>
Encodes(f) ==
    f = [n \in Nat |-> IF n < Radix THEN <<n>> ELSE <<(n % Radix) + Radix>> \o f[n \div Radix]]

LEMMA GroupFacts ==
    ASSUME NEW n \in Nat
    PROVE  /\ Group(n) \in Seq(Byte) /\ Len(Group(n)) = 1 /\ Group(n)[1] = (n % Radix) + Radix
           /\ n < Radix => <<n>> \in Seq(Byte) /\ n % Radix = n
<1>1. n % Radix \in Nat /\ n % Radix < Radix /\ Radix \in Nat /\ Radix > 1
  BY RadixFacts, DivFacts
<1>2. (n % Radix) + Radix \in Byte
  BY <1>1 DEF Byte
<1>3. n < Radix => n \in Byte
  BY <1>1 DEF Byte
<1>4. n < Radix => n % Radix = n
  BY <1>1
<1> QED  BY <1>2, <1>3, <1>4 DEF Group

LEMMA EncodingExists == \E f : Encodes(f)
<1> DEFINE first == [n \in Nat |-> IF n < Radix THEN <<n>> ELSE <<>>]
           more == [x \in Nat \X Seq(Byte) |-> Group(x[1]) \o x[2]]
<1>1. first \in [Nat -> Seq(Byte)]
  <2>1. ASSUME NEW n \in Nat PROVE (IF n < Radix THEN <<n>> ELSE <<>>) \in Seq(Byte)
    BY GroupFacts
  <2> QED  BY <2>1
<1>2. more \in [Nat \X Seq(Byte) -> Seq(Byte)]
  <2>1. ASSUME NEW x \in Nat \X Seq(Byte) PROVE Group(x[1]) \o x[2] \in Seq(Byte)
    <3>1. x[1] \in Nat /\ x[2] \in Seq(Byte)
      OBVIOUS
    <3> QED  BY <3>1, GroupFacts, ConcatProperties
  <2> QED  BY <2>1
<1>3. \A n \in Nat, s \in Seq(Byte) : more[<<n, s>>] = Group(n) \o s
  OBVIOUS
<1>4. \A n \in Nat : n < Radix => first[n] = <<n>>
  OBVIOUS
<1> HIDE DEF first, more
<1>5. PICK f \in [Nat -> Seq(Byte)] : Unfolds(f, Nat, first, more)
  BY <1>1, <1>2, UnfoldExists
<1>6. ASSUME NEW n \in Nat
      PROVE  f[n] = IF n < Radix THEN <<n>> ELSE Group(n) \o f[n \div Radix]
  <2>1. \A m \in Nat : f[m] = IF m < Radix THEN first[m] ELSE more[<<m, f[m \div Radix]>>]
    BY <1>5 DEF Unfolds
  <2>2. CASE n < Radix
    BY <1>4, <2>1, <2>2
  <2>3. CASE ~(n < Radix)
    <3>1. Radix <= n
      BY <2>3, RadixFacts
    <3>2. f[n \div Radix] \in Seq(Byte)
      BY <3>1, DivLess
    <3> QED  BY <1>3, <2>1, <2>3, <3>2
  <2> QED  BY <2>2, <2>3
<1>7. f = [n \in Nat |-> f[n]]
  OBVIOUS
<1>8. Encodes(f)
  BY <1>6, <1>7 DEF Encodes, Group
<1> QED  BY <1>8

\* Varint is what its definition says.
LEMMA VarintIs ==
    ASSUME NEW n \in Nat
    PROVE  Varint[n] = IF n < Radix THEN <<n>> ELSE Group(n) \o Varint[n \div Radix]
<1>1. Varint = CHOOSE f : Encodes(f)
  BY Zenon DEF Varint, Encodes
<1>2. Encodes(Varint)
  BY <1>1, EncodingExists
<1> QED  BY <1>2, Zenon DEF Encodes, Group

\* s is one complete varint that stands for n.
Codes(s, n) ==
    /\ s \in Seq(Byte) /\ Len(s) \in Nat /\ Len(s) > 0
    /\ s[Len(s)] < Radix /\ \A j \in 1 .. Len(s) - 1 : ~ (s[j] < Radix)
    /\ Payloads(s, 1, Len(s)) = n

LEMMA CodesOne ==
    ASSUME NEW n \in Nat, n < Radix
    PROVE  Codes(<<n>>, n)
<1> DEFINE s == <<n>>
<1>1. s \in Seq(Byte) /\ Len(s) = 1 /\ s[1] = n /\ n % Radix = n
  BY GroupFacts
<1> HIDE DEF s
<1>2. Numbers(s, 1, 1)
  BY <1>1 DEF Numbers
<1>3. Payloads(s, 1, 1) = n
  BY <1>1, <1>2, PayloadsStep
<1>4. Codes(s, n)
  BY <1>1, <1>3 DEF Codes
<1> QED  BY <1>4 DEF s

LEMMA CodesMore ==
    ASSUME NEW n \in Nat, Radix <= n, NEW t, Codes(t, n \div Radix)
    PROVE  Codes(Group(n) \o t, n) /\ Len(Group(n) \o t) = 1 + Len(t)
<1> DEFINE s == Group(n) \o t
           len == Len(t)
<1>1. /\ t \in Seq(Byte) /\ len \in Nat /\ len > 0 /\ t[len] < Radix
      /\ \A j \in 1 .. len - 1 : ~ (t[j] < Radix)
      /\ Payloads(t, 1, len) = n \div Radix
  BY DEF Codes
<1>2. /\ n \div Radix \in Nat /\ n % Radix \in Nat /\ n % Radix < Radix
      /\ n = Radix * (n \div Radix) + (n % Radix)
  BY DivLess
<1>3. /\ s \in Seq(Byte) /\ Len(s) = 1 + len /\ s[1] = (n % Radix) + Radix
      /\ \A j \in 1 .. len : s[j + 1] = t[j]
  <2>1. Group(n) \in Seq(Byte) /\ Len(Group(n)) = 1 /\ Group(n)[1] = (n % Radix) + Radix
    BY GroupFacts
  <2>2. /\ s \in Seq(Byte) /\ Len(s) = 1 + len
        /\ \A j \in 1 .. 1 + len : s[j] = IF j <= 1 THEN Group(n)[j] ELSE t[j - 1]
    <3> DEFINE g == Group(n)
    <3>1. g \in Seq(Byte) /\ Len(g) = 1
      BY <2>1
    <3> HIDE DEF g
    <3>2. /\ g \o t \in Seq(Byte) /\ Len(g \o t) = Len(g) + Len(t)
          /\ \A j \in 1 .. Len(g) + Len(t) :
                (g \o t)[j] = IF j <= Len(g) THEN g[j] ELSE t[j - Len(g)]
      BY <1>1, <3>1, ConcatProperties
    <3> QED  BY <3>1, <3>2 DEF g
  <2> HIDE DEF s
  <2>3. 1 \in 1 .. 1 + len
    BY <1>1
  <2>4. s[1] = (n % Radix) + Radix
    BY <2>1, <2>2, <2>3
  <2>5. ASSUME NEW j \in 1 .. len PROVE s[j + 1] = t[j]
    <3>1. j + 1 \in 1 .. 1 + len /\ ~(j + 1 <= 1) /\ (j + 1) - 1 = j
      BY <1>1
    <3> QED  BY <2>2, <3>1
  <2> QED  BY <2>2, <2>4, <2>5
<1> HIDE DEF s, len
<1>4. s[1 + len] < Radix /\ \A j \in 1 .. len : ~ (s[j] < Radix)
  <2>1. s[1 + len] < Radix
    BY <1>1, <1>3
  <2>2. ASSUME NEW j \in 1 .. len PROVE ~ (s[j] < Radix)
    <3>1. CASE j = 1
      BY <1>2, <1>3, <3>1, RadixFacts
    <3>2. CASE j # 1
      <4>1. j - 1 \in 1 .. len - 1 /\ j - 1 \in 1 .. len /\ (j - 1) + 1 = j
        BY <1>1, <3>2
      <4> QED  BY <1>1, <1>3, <4>1
    <3> QED  BY <3>1, <3>2
  <2> QED  BY <2>1, <2>2
<1>5. Numbers(s, 1, 1 + len) /\ Numbers(t, 1, len)
  <2>1. ASSUME NEW j \in 1 .. 1 + len PROVE s[j] \in Nat
    <3>1. s[j] \in Byte
      BY <1>3, ElementOfSeq
    <3> QED  BY <3>1, ByteFacts
  <2>2. ASSUME NEW j \in 1 .. len PROVE t[j] \in Nat
    <3>1. t[j] \in Byte
      BY <1>1, ElementOfSeq DEF len
    <3> QED  BY <3>1, ByteFacts
  <2> QED  BY <2>1, <2>2 DEF Numbers
<1>6. Payloads(s, 1, 1 + len) = (s[1] % Radix) + Radix * Payloads(s, 2, 1 + len)
  <2>1. 1 < 1 + len /\ 1 + len \in Nat
    BY <1>1
  <2> QED  BY <1>5, <2>1, PayloadsStep
<1>7. Payloads(s, 2, 1 + len) = n \div Radix
  <2>1. Payloads(s, 1 + 1, len + 1) = Payloads(t, 1, len)
    BY <1>1, <1>3, <1>5, PayloadsShift
  <2>2. 1 + 1 = 2 /\ len + 1 = 1 + len
    BY <1>1
  <2> QED  BY <1>1, <2>1, <2>2
<1>8. s[1] % Radix = n % Radix
  <2>1. Radix * 1 + (n % Radix) = (n % Radix) + Radix
    BY <1>2, RadixFacts
  <2>2. (Radix * 1 + (n % Radix)) % Radix = n % Radix
    BY <1>2, RestIs, RadixFacts
  <2> QED  BY <1>3, <2>1, <2>2
<1>9. Payloads(s, 1, 1 + len) = n
  BY <1>2, <1>6, <1>7, <1>8, RadixFacts
<1>10. Codes(s, n)
  BY <1>1, <1>3, <1>4, <1>9 DEF Codes
<1> QED  BY <1>3, <1>10 DEF s, len

\* What write_varint writes is one varint, and stands for the number written.
LEMMA VarintCodes == ASSUME NEW n \in Nat PROVE Codes(Varint[n], n)
<1> DEFINE Bad == {m \in Nat : ~ Codes(Varint[m], m)}
<1>1. Bad = {}
  <2> SUFFICES ASSUME NEW m \in Bad PROVE \E l \in Bad : l < m
    BY Descent
  <2>1. m \in Nat /\ ~ Codes(Varint[m], m)
    OBVIOUS
  <2>2. CASE m < Radix
    BY <2>1, <2>2, VarintIs, CodesOne
  <2>3. CASE ~(m < Radix)
    <3>1. Radix <= m
      BY <2>3, RadixFacts
    <3>2. m \div Radix \in Nat /\ m \div Radix < m
      BY <3>1, DivLess
    <3>3. ~ Codes(Varint[m \div Radix], m \div Radix)
      BY <2>1, <2>3, <3>1, VarintIs, CodesMore
    <3> QED  BY <3>2, <3>3
  <2> QED  BY <2>2, <2>3
<1> QED  BY <1>1

\* A number of k groups is written in at most k bytes.
LEMMA VarintLength ==
    ASSUME NEW k \in Nat, k > 0, k <= MaxVarintLength, NEW n \in Nat, n < Radix^k
    PROVE  Len(Varint[n]) <= k
<1> DEFINE Bad == {j \in Nat : 0 < j /\ j <= MaxVarintLength
                               /\ \E m \in Nat : m < Radix^j /\ ~(Len(Varint[m]) <= j)}
<1>1. Bad = {}
  <2> SUFFICES ASSUME NEW j \in Bad PROVE \E l \in Bad : l < j
    BY Descent
  <2>1. PICK m \in Nat : m < Radix^j /\ ~(Len(Varint[m]) <= j)
    OBVIOUS
  <2>2. j \in Nat /\ 0 < j /\ j <= MaxVarintLength
    OBVIOUS
  <2>3. /\ Radix^j \in Nat /\ Radix^(j - 1) \in Nat /\ Radix^j = Radix * Radix^(j - 1)
    BY <2>2, PowerFacts
  <2>4. CASE m < Radix
    <3>1. Varint[m] = <<m>>
      BY <2>4, VarintIs
    <3>2. Len(Varint[m]) = 1
      BY <3>1
    <3> QED  BY <2>1, <2>2, <3>2
  <2>5. CASE ~(m < Radix)
    <3> DEFINE q == m \div Radix
    <3>1. Radix <= m
      BY <2>5, RadixFacts
    <3>2. q \in Nat /\ Radix * q <= m
      <4>1. q \in Nat /\ m % Radix \in Nat /\ m = Radix * q + (m % Radix)
        BY <3>1, DivLess
      <4> HIDE DEF q
      <4>2. Radix * q \in Nat
        BY <4>1, Product, RadixFacts
      <4> QED  BY <4>1, <4>2
    <3>3. Len(Varint[m]) = 1 + Len(Varint[q])
      BY <2>5, <3>1, <3>2, VarintIs, VarintCodes, CodesMore
    <3>4. q < Radix^(j - 1)
      <4> DEFINE P == Radix^(j - 1)
      <4>1. P \in Nat /\ m < Radix * P
        BY <2>1, <2>3
      <4> HIDE DEF P, q
      <4>2. \A R, a, b \in Nat : R * a < R * b => a < b
        <5> SUFFICES ASSUME NEW R \in Nat, NEW a \in Nat, NEW b \in Nat, ~(a < b)
                     PROVE  ~(R * a < R * b)
          OBVIOUS
        <5>1. PICK c \in Nat : a = b + c
          <6>1. a - b \in Nat /\ a = b + (a - b)
            OBVIOUS
          <6> QED  BY <6>1
        <5>2. R * a = R * b + R * c
          BY <5>1
        <5>3. R * a \in Nat /\ R * b \in Nat /\ R * c \in Nat
          BY Product
        <5> QED  BY <5>2, <5>3
      <4>3. Radix * q \in Nat /\ Radix * P \in Nat /\ Radix * q < Radix * P
        <5>1. Radix * q \in Nat /\ Radix * P \in Nat
          BY <3>2, <4>1, Product, RadixFacts
        <5> QED  BY <3>2, <4>1, <5>1
      <4>4. q < P
        BY <3>2, <4>1, <4>2, <4>3, RadixFacts
      <4> QED  BY <4>4 DEF P
    <3>5. Len(Varint[q]) \in Nat
      BY <3>2, VarintCodes DEF Codes
    <3> HIDE DEF q
    <3>6. ~(Len(Varint[q]) <= j - 1)
      BY <2>1, <2>2, <3>3, <3>5
    <3>7. j # 1
      <4>1. j = 1 => Radix^(j - 1) = 1
        BY PowerAssumption
      <4>2. Len(Varint[q]) > 0
        BY <3>2, VarintCodes DEF Codes
      <4>3. j = 1 => q = 0
        BY <3>2, <3>4, <4>1
      <4>4. 0 < q
        <5>1. ~(q = 0)
          <6>1. m = Radix * q + (m % Radix) /\ m % Radix < Radix /\ m % Radix \in Nat
            BY <3>1, DivLess DEF q
          <6>2. q = 0 => Radix * q = 0
            BY RadixFacts
          <6> QED  BY <3>1, <6>1, <6>2, RadixFacts
        <5> QED  BY <3>2, <5>1
      <4> QED  BY <4>3, <4>4
    <3>8. j - 1 \in Bad /\ j - 1 < j
      <4>1. j - 1 \in Nat /\ 0 < j - 1 /\ j - 1 <= MaxVarintLength /\ j - 1 < j
        BY <2>2, <3>7, RadixFacts
      <4>2. \E l \in Nat : l < Radix^(j - 1) /\ ~(Len(Varint[l]) <= j - 1)
        BY <3>2, <3>4, <3>6
      <4> QED  BY <4>1, <4>2
    <3> QED  BY <3>8
  <2> QED  BY <2>4, <2>5
<1> QED  BY <1>1

LEMMA NumberLength ==
    ASSUME NEW n \in Nat, n < 2^ValueBits
    PROVE  Len(Varint[n]) <= MaxVarintLength
<1> DEFINE P == Radix^(MaxVarintLength - 1)
           T == 2^TopBits
<1>1. /\ P \in Nat /\ T \in Nat /\ T <= Radix /\ Radix \in Nat
      /\ Radix^MaxVarintLength = Radix * P /\ P * T = 2^ValueBits
  BY PowerFacts, PowerAssumption, RadixFacts
<1> HIDE DEF P, T
<1>2. P * T <= Radix * P
  <2>1. PICK c \in Nat : Radix = T + c
    <3>1. Radix - T \in Nat /\ Radix = T + (Radix - T)
      BY <1>1
    <3> QED  BY <3>1
  <2>2. Radix * P = P * T + P * c /\ P * c \in Nat /\ P * T \in Nat
    BY <1>1, <2>1, Product
  <2> QED  BY <2>2
<1>3. n < Radix^MaxVarintLength
  <2>1. Radix * P \in Nat /\ P * T \in Nat
    BY <1>1, Product
  <2> QED  BY <1>1, <1>2, <2>1
<1> QED  BY <1>3, VarintLength, RadixFacts

\* Wherever the bytes of a number stand, they are the varint of that number.
LEMMA VarintAt ==
    ASSUME NEW n \in Nat, n < 2^ValueBits, NEW s, NEW i \in Nat \ {0},
           \A j \in 1 .. Len(Varint[n]) : s[(i - 1) + j] = Varint[n][j]
    PROVE  /\ Len(Varint[n]) \in Nat \ {0}
           /\ IsVarint(s, i, (i - 1) + Len(Varint[n]))
           /\ Number(s, i, (i - 1) + Len(Varint[n])) = n
<1> DEFINE v == Varint[n]
           len == Len(v)
<1>1. /\ v \in Seq(Byte) /\ len \in Nat /\ len > 0 /\ v[len] < Radix /\ len <= MaxVarintLength
      /\ \A j \in 1 .. len - 1 : ~ (v[j] < Radix)
      /\ Payloads(v, 1, len) = n
  BY VarintCodes, NumberLength DEF Codes
<1>2. \A j \in 1 .. len : s[j + (i - 1)] = v[j]
  OBVIOUS
<1> HIDE DEF v, len
<1>3. IsVarint(v, 1, len)
  BY <1>1, RadixFacts DEF IsVarint
<1>4. Number(v, 1, len) = n
  <2> DEFINE W == 2^ValueBits
  <2>1. W \in Nat /\ n < W /\ Number(v, 1, len) = n % W
    BY <1>1, PowerAssumption DEF Number
  <2> HIDE DEF W
  <2> QED  BY <2>1
<1>5. AreBytes(v, 1, len + 1)
  <2>1. ASSUME NEW j \in 1 .. len PROVE v[j] \in Byte
    BY <1>1, <2>1, ElementOfSeq DEF len
  <2>2. (len + 1) - 1 = len
    BY <1>1
  <2> QED  BY <2>1, <2>2 DEF AreBytes
<1>6. IsVarint(s, 1 + (i - 1), len + (i - 1)) /\ Number(s, 1 + (i - 1), len + (i - 1)) = n
  <2> DEFINE d == i - 1
  <2>1. d \in Int /\ 1 + d \in Nat
    OBVIOUS
  <2>2. \A j \in 1 .. len : s[j + d] = v[j]
    BY <1>2
  <2> HIDE DEF d
  <2>3. IsVarint(s, 1 + d, len + d) /\ Number(s, 1 + d, len + d) = Number(v, 1, len)
    BY <1>1, <1>3, <1>5, <2>1, <2>2, VarintShift
  <2> QED  BY <1>4, <2>3 DEF d
<1>7. 1 + (i - 1) = i /\ len + (i - 1) = (i - 1) + len
  BY <1>1
<1> QED  BY <1>1, <1>6, <1>7 DEF len, v

\* The first byte of a number is zero for the number zero only.
LEMMA FirstByte == ASSUME NEW n \in Nat PROVE Varint[n][1] = 0 <=> n = 0
<1>1. CASE n < Radix
  <2>1. Varint[n] = <<n>>
    BY <1>1, VarintIs
  <2> QED  BY <2>1
<1>2. CASE ~(n < Radix)
  <2>1. Radix <= n
    BY <1>2, RadixFacts
  <2>2. /\ Varint[n] = <<(n % Radix) + Radix>> \o Varint[n \div Radix]
        /\ n \div Radix \in Nat /\ n % Radix \in Nat
    BY <1>2, <2>1, VarintIs, DivLess DEF Group
  <2>3. Varint[n \div Radix] \in Seq(Byte) /\ (n % Radix) + Radix \in Int
    BY <2>2, VarintCodes, RadixFacts DEF Codes
  <2>4. Varint[n][1] = (n % Radix) + Radix
    BY <2>2, <2>3
  <2> QED  BY <2>1, <2>2, <2>4, RadixFacts
<1> QED  BY <1>1, <1>2

-----------------------------------------------------------------------------
(* length_of_varint.                                                        *)

Counts(f) == f = [n \in Nat |-> IF n < Radix THEN 1 ELSE 1 + f[n \div Radix]]

LEMMA CountExists == \E f : Counts(f)
<1> DEFINE first == [n \in Nat |-> 1]
           more == [x \in Nat \X Nat |-> 1 + x[2]]
<1>1. first \in [Nat -> Nat] /\ more \in [Nat \X Nat -> Nat]
  OBVIOUS
<1>2. /\ \A n, m \in Nat : more[<<n, m>>] = 1 + m
      /\ \A n \in Nat : first[n] = 1
  OBVIOUS
<1> HIDE DEF first, more
<1>3. PICK f \in [Nat -> Nat] : Unfolds(f, Nat, first, more)
  BY <1>1, UnfoldExists
<1>4. ASSUME NEW n \in Nat
      PROVE  f[n] = IF n < Radix THEN 1 ELSE 1 + f[n \div Radix]
  <2>1. \A m \in Nat : f[m] = IF m < Radix THEN first[m] ELSE more[<<m, f[m \div Radix]>>]
    BY <1>3 DEF Unfolds
  <2>2. CASE n < Radix
    BY <1>2, <2>1, <2>2
  <2>3. CASE ~(n < Radix)
    <3>1. Radix <= n
      BY <2>3, RadixFacts
    <3>2. f[n \div Radix] \in Nat
      BY <3>1, DivLess
    <3> QED  BY <1>2, <2>1, <2>3, <3>2
  <2> QED  BY <2>2, <2>3
<1>5. f = [n \in Nat |-> f[n]]
  OBVIOUS
<1>6. Counts(f)
  BY <1>4, <1>5 DEF Counts
<1> QED  BY <1>6

\* length_of_varint announces the bytes write_varint writes.
LEMMA LengthOfIs == ASSUME NEW n \in Nat PROVE LengthOfVarint[n] = Len(Varint[n])
<1>1. Counts(LengthOfVarint)
  <2>1. LengthOfVarint = CHOOSE f : Counts(f)
    BY Zenon DEF LengthOfVarint, Counts
  <2> QED  BY <2>1, CountExists
<1>2. \A m \in Nat :
        LengthOfVarint[m] = IF m < Radix THEN 1 ELSE 1 + LengthOfVarint[m \div Radix]
  BY <1>1, Zenon DEF Counts
<1> DEFINE Bad == {m \in Nat : LengthOfVarint[m] # Len(Varint[m])}
<1>3. Bad = {}
  <2> SUFFICES ASSUME NEW m \in Bad PROVE \E l \in Bad : l < m
    BY Descent
  <2>1. m \in Nat /\ LengthOfVarint[m] # Len(Varint[m])
    OBVIOUS
  <2>2. ~(m < Radix)
    <3> SUFFICES ASSUME m < Radix PROVE FALSE
      OBVIOUS
    <3>1. Varint[m] = <<m>>
      BY <2>1, VarintIs
    <3>2. Len(Varint[m]) = 1
      BY <3>1
    <3> QED  BY <1>2, <2>1, <3>2
  <2>3. Radix <= m
    BY <2>1, <2>2, RadixFacts
  <2>4. m \div Radix \in Nat /\ m \div Radix < m
    BY <2>1, <2>3, DivLess
  <2>5. Len(Varint[m]) = 1 + Len(Varint[m \div Radix])
    BY <2>1, <2>2, <2>3, <2>4, VarintIs, VarintCodes, CodesMore
  <2>6. LengthOfVarint[m \div Radix] # Len(Varint[m \div Radix])
    BY <1>2, <2>1, <2>2, <2>5
  <2> QED  BY <2>4, <2>6
<1> QED  BY <1>3

-----------------------------------------------------------------------------
(* Signed numbers.                                                          *)

\* Division of numbers of either sign.
LEMMA SignedRest ==
    ASSUME NEW m \in Nat, m > 0, NEW q \in Int, NEW r \in Nat, r < m
    PROVE  (m * q + r) % m = r
OBVIOUS

LEMMA SignedDiv ==
    ASSUME NEW a \in Int, NEW m \in Nat, m > 0
    PROVE  /\ a \div m \in Int /\ a % m \in Nat /\ a % m < m
           /\ a = m * (a \div m) + (a % m)
OBVIOUS

\* The numbers a signed type of so many bits holds.
Signed(bits) == -(2^(bits - 1)) .. 2^(bits - 1) - 1
Width == {LengthBits, ValueBits}

LEMMA WidthFacts ==
    ASSUME NEW bits \in Width, NEW h, h = 2^(bits - 1)
    PROVE  /\ h \in Nat /\ h > 0 /\ 2^bits = 2 * h
           /\ 2^bits \in Nat /\ 2^bits > 0
           /\ Signed(bits) = -h .. h - 1
<1>1. h \in Nat /\ h > 0 /\ 2^bits = 2 * h
  BY SignAssumption DEF Width
<1> QED  BY <1>1 DEF Signed

\* A number of either sign, in the bits of a type that has room for it.
LEMMA UnsignedIs ==
    ASSUME NEW bits \in Width, NEW v \in Signed(bits)
    PROVE  AsUnsigned(v, bits) = IF v >= 0 THEN v ELSE v + 2^bits
<1> DEFINE h == 2^(bits - 1)
<1>1. h \in Nat /\ h > 0 /\ 2^bits = 2 * h /\ v \in -h .. h - 1
  BY WidthFacts
<1> DEFINE m == 2^bits
<1>2. m \in Nat /\ m > 0 /\ v \in Int /\ v < m /\ v + m \in Nat /\ (v < 0 => v + m < m)
  BY <1>1
<1> HIDE DEF m, h
<1>3. CASE v >= 0
  <2>1. v \in Nat /\ m * 0 + v = v
    BY <1>2, <1>3
  <2>2. (m * 0 + v) % m = v
    BY <1>2, <2>1, SignedRest
  <2> QED  BY <1>3, <2>1, <2>2 DEF AsUnsigned, m
<1>4. CASE ~(v >= 0)
  <2>1. m * (-1) + (v + m) = v
    BY <1>2
  <2>2. (m * (-1) + (v + m)) % m = v + m
    BY <1>2, <1>4, SignedRest
  <2> QED  BY <1>4, <2>1, <2>2 DEF AsUnsigned, m
<1> QED  BY <1>3, <1>4

\* What a cast to a signed type makes of any number is in that type, and
\* numbers in it stay what they are, with the width's multiple added or not.
LEMMA SignedRange ==
    ASSUME NEW bits \in Width, NEW n \in Int
    PROVE  AsSigned(n, bits) \in Signed(bits)
<1> DEFINE h == 2^(bits - 1)
           m == 2^bits
           r == n % m
<1>1. h \in Nat /\ h > 0 /\ m = 2 * h /\ m \in Nat /\ m > 0 /\ Signed(bits) = -h .. h - 1
  BY WidthFacts
<1>2. r \in Nat /\ r < m
  BY <1>1, SignedDiv
<1>3. AsSigned(n, bits) = IF r < h THEN r ELSE r - m
  BY DEF AsSigned
<1> HIDE DEF h, m, r
<1> QED  BY <1>1, <1>2, <1>3

LEMMA SignedIs ==
    ASSUME NEW bits \in Width, NEW v \in Signed(bits), NEW q \in Int
    PROVE  AsSigned(v + 2^bits * q, bits) = v
<1> DEFINE h == 2^(bits - 1)
           m == 2^bits
<1>1. h \in Nat /\ h > 0 /\ m = 2 * h /\ m \in Nat /\ m > 0 /\ v \in -h .. h - 1
  BY WidthFacts
<1> DEFINE r == (v + m * q) % m
<1>2. AsSigned(v + 2^bits * q, bits) = IF r < h THEN r ELSE r - m
  BY DEF AsSigned
<1>3. r = IF v >= 0 THEN v ELSE v + m
  <2> HIDE DEF m, h
  <2>1. CASE v >= 0
    <3>1. v \in Nat /\ v < m /\ m * q + v = v + m * q
      BY <1>1, <2>1
    <3> QED  BY <1>1, <2>1, <3>1, SignedRest
  <2>2. CASE ~(v >= 0)
    <3>1. v + m \in Nat /\ v + m < m /\ m * (q - 1) + (v + m) = v + m * q /\ q - 1 \in Int
      BY <1>1, <2>2
    <3>2. (m * (q - 1) + (v + m)) % m = v + m
      BY <1>1, <3>1, SignedRest
    <3> QED  BY <2>2, <3>1, <3>2
  <2> QED  BY <2>1, <2>2
<1> HIDE DEF m, h, r
<1> QED  BY <1>1, <1>2, <1>3

\* The narrow type is part of the wide one.
LEMMA NarrowIsWide ==
    ASSUME NEW v \in Signed(LengthBits)
    PROVE  v \in Signed(ValueBits)
<1> DEFINE h == 2^(LengthBits - 1)
           g == 2^(ValueBits - 1)
<1>1. /\ h \in Nat /\ 2^LengthBits = 2 * h /\ Signed(LengthBits) = -h .. h - 1
      /\ g \in Nat /\ 2^ValueBits = 2 * g /\ Signed(ValueBits) = -g .. g - 1
  BY WidthFacts DEF Width
<1>2. 2^LengthBits <= 2^ValueBits
  BY LengthAssumption DEF LengthModulus
<1> HIDE DEF h, g
<1> QED  BY <1>1, <1>2

\* encode_zigzag maps 0, -1, 1, -2, ... to 0, 1, 2, 3, ...
LEMMA ZigzagIs ==
    ASSUME NEW bits \in Width, NEW v \in Signed(bits)
    PROVE  /\ EncodeZigzag(v, bits) = IF v >= 0 THEN 2 * v ELSE 2 * (-v - 1) + 1
           /\ EncodeZigzag(v, bits) \in Nat /\ EncodeZigzag(v, bits) < 2^bits
<1> DEFINE h == 2^(bits - 1)
           m == 2^bits
<1>1. h \in Nat /\ h > 0 /\ m = 2 * h /\ m \in Nat /\ m > 0 /\ v \in -h .. h - 1
  BY WidthFacts
<1> DEFINE u == AsUnsigned(v, bits)
           doubled == AsUnsigned(2 * u, bits)
<1>2. u = IF v >= 0 THEN v ELSE v + m
  BY UnsignedIs
<1>3. doubled = (2 * u) % m
  BY DEF AsUnsigned
<1>4. EncodeZigzag(v, bits) = IF v >= 0 THEN doubled ELSE m - 1 - doubled
  BY DEF EncodeZigzag, Flipped
<1> HIDE DEF u, doubled, m, h
<1>5. doubled = IF v >= 0 THEN 2 * v ELSE 2 * v + m
  <2>1. CASE v >= 0
    <3>1. 2 * v \in Nat /\ 2 * v < m /\ m * 0 + 2 * v = 2 * u
      BY <1>1, <1>2, <2>1
    <3>2. (m * 0 + 2 * v) % m = 2 * v
      BY <1>1, <3>1, SignedRest
    <3> QED  BY <1>3, <2>1, <3>1, <3>2
  <2>2. CASE ~(v >= 0)
    <3>1. 2 * v + m \in Nat /\ 2 * v + m < m /\ m * 1 + (2 * v + m) = 2 * u
      BY <1>1, <1>2, <2>2
    <3>2. (m * 1 + (2 * v + m)) % m = 2 * v + m
      BY <1>1, <3>1, SignedRest
    <3> QED  BY <1>3, <2>2, <3>1, <3>2
  <2> QED  BY <2>1, <2>2
<1>6. EncodeZigzag(v, bits) = IF v >= 0 THEN 2 * v ELSE 2 * (-v - 1) + 1
  BY <1>1, <1>4, <1>5
<1> DEFINE code == EncodeZigzag(v, bits)
<1>7. code = IF v >= 0 THEN 2 * v ELSE 2 * (-v - 1) + 1
  BY <1>6
<1> HIDE DEF code
<1>8. code \in Nat /\ code < m
  BY <1>1, <1>7
<1> QED  BY <1>6, <1>8 DEF code, m

\* decode_zigzag undoes it, with the same width or a larger one.
LEMMA ZigzagBack ==
    ASSUME NEW bits \in Width, NEW wide \in Width,
           NEW v \in Signed(bits), v \in Signed(wide)
    PROVE  DecodeZigzag(EncodeZigzag(v, bits), wide) = v
<1> DEFINE m == 2^wide
           n == EncodeZigzag(v, bits)
<1>1. m \in Nat /\ v \in Int
  <2>1. m \in Nat /\ v \in -(2^(wide - 1)) .. 2^(wide - 1) - 1 /\ 2^(wide - 1) \in Nat
    BY WidthFacts DEF Signed
  <2> QED  BY <2>1
<1>2. n = IF v >= 0 THEN 2 * v ELSE 2 * (-v - 1) + 1
  BY ZigzagIs
<1>3. DecodeZigzag(n, wide) =
         AsSigned(IF n % 2 = 0 THEN n \div 2 ELSE m - 1 - (n \div 2), wide)
  BY DEF DecodeZigzag, Flipped
<1> HIDE DEF n
<1>4. CASE v >= 0
  <2>1. n % 2 = 0 /\ n \div 2 = v /\ v + 2^wide * 0 = v
    BY <1>1, <1>2, <1>4
  <2>2. AsSigned(v + 2^wide * 0, wide) = v
    BY SignedIs
  <2> QED  BY <1>3, <2>1, <2>2 DEF n
<1>5. CASE ~(v >= 0)
  <2> HIDE DEF m
  <2>1. n % 2 = 1 /\ n \div 2 = -v - 1 /\ m - 1 - (-v - 1) = v + m * 1
    BY <1>1, <1>2, <1>5
  <2>2. AsSigned(v + m * 1, wide) = v
    BY SignedIs DEF m
  <2> QED  BY <1>3, <2>1, <2>2 DEF n
<1> QED  BY <1>4, <1>5

\* Writing with the wide type and reading with the wide or the narrow one.
LEMMA IntBack ==
    ASSUME NEW v \in Signed(ValueBits)
    PROVE  /\ ReadInt64(WrittenInt(v)) = v
           /\ v \in Signed(LengthBits) => ReadInt32(WrittenInt(v)) = v
<1> DEFINE m == 2^ValueBits
           k == 2^(ValueBits - LengthBits)
<1>1. /\ m \in Nat /\ v \in Int /\ k \in Nat /\ m = 2^LengthBits * k
      /\ 2^LengthBits \in Nat /\ ValueBits \in Width /\ LengthBits \in Width
  <2>1. m \in Nat /\ v \in -(2^(ValueBits - 1)) .. 2^(ValueBits - 1) - 1 /\ 2^(ValueBits - 1) \in Nat
    BY WidthFacts DEF Signed, Width
  <2>2. 2^LengthBits \in Nat
    BY WidthFacts DEF Width
  <2> QED  BY <2>1, <2>2, SignAssumption DEF Width
<1>2. PICK q \in {0, 1} : WrittenInt(v) = v + m * q
  <2>1. WrittenInt(v) = IF v >= 0 THEN v ELSE v + m
    BY <1>1, UnsignedIs DEF WrittenInt
  <2> HIDE DEF m
  <2>2. v + m * 0 = v /\ v + m * 1 = v + m
    BY <1>1
  <2> QED  BY <2>1, <2>2
<1>3. ReadInt64(WrittenInt(v)) = v
  BY <1>1, <1>2, SignedIs DEF ReadInt64
<1>4. ASSUME v \in Signed(LengthBits) PROVE ReadInt32(WrittenInt(v)) = v
  <2>1. m * q = 2^LengthBits * (k * q) /\ k * q \in Int
    <3> DEFINE l == 2^LengthBits
    <3> HIDE DEF m, k, l
    <3>1. m \in Nat /\ k \in Nat /\ l \in Nat /\ m = l * k
      BY <1>1 DEF l
    <3>2. m * q = l * (k * q) /\ k * q \in Int
      BY <3>1
    <3> QED  BY <3>2 DEF l
  <2>2. AsSigned(v + 2^LengthBits * (k * q), LengthBits) = v
    BY <1>1, <1>4, <2>1, SignedIs
  <2> QED  BY <1>2, <2>1, <2>2 DEF ReadInt32
<1> QED  BY <1>3, <1>4
=============================================================================
