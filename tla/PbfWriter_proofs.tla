-------------------------- MODULE PbfWriter_proofs --------------------------
(***************************************************************************)
(* Theorems about PbfWriter: the types of its state and the nesting of the  *)
(* open writers, for every set of writers, every input and either build.    *)
(***************************************************************************)
EXTENDS PbfWriter, Varint_proofs

-----------------------------------------------------------------------------
(* What the constants are.                                                  *)

LEMMA ConstantFacts ==
    /\ Radix \in Nat \ {0, 1}
    /\ ReserveBytes \in Nat \ {0}
    /\ MaxLength \in Nat /\ LengthModulus = MaxLength + 1
    /\ MaxBuf \in Nat /\ SizeIsKnown \in Nat /\ SizeIsKnown = MaxBuf + 1
    /\ 0 \in Byte /\ NULL \notin Writer
BY RadixAssumption, BoundAssumption, WritersAssumption
   DEF MaxLength, SizeIsKnown, Byte

LEMMA LengthTypeFacts ==
    ASSUME NEW n \in Nat
    PROVE  /\ LengthType(n) \in 0 .. MaxLength
           /\ n <= MaxLength => LengthType(n) = n
BY ConstantFacts DEF LengthType

\* What write_varint is used for: keys, and lengths that fit the reserved room.
LEMMA VarintFits ==
    /\ \A tag \in Tags : /\ Key(tag, LengthDelimitedType) \in Seq(Byte)
                         /\ Key(tag, LengthDelimitedType) # <<>>
    /\ \A n \in 0 .. MaxLength :
            Varint[n] \in Seq(Byte) /\ Len(Varint[n]) \in 1 .. ReserveBytes
<1>1. ASSUME NEW n \in Nat
      PROVE  Varint[n] \in Seq(Byte) /\ Len(Varint[n]) \in Nat /\ Len(Varint[n]) > 0
  BY VarintCodes DEF Codes
<1>2. ASSUME NEW tag \in Tags
      PROVE  /\ Key(tag, LengthDelimitedType) \in Seq(Byte)
             /\ Key(tag, LengthDelimitedType) # <<>>
  <2>1. 8 * tag + LengthDelimitedType \in Nat
    BY InputsAssumption DEF LengthDelimitedType
  <2> DEFINE n == 8 * tag + LengthDelimitedType
  <2>2. Key(tag, LengthDelimitedType) = Varint[n]
    BY DEF Key, TagAndType
  <2> HIDE DEF n
  <2>3. Varint[n] \in Seq(Byte) /\ Len(Varint[n]) > 0
    BY <1>1, <2>1 DEF n
  <2> QED  BY <2>2, <2>3, EmptySeq
<1>3. ASSUME NEW n \in 0 .. MaxLength
      PROVE  Len(Varint[n]) <= ReserveBytes
  <2>1. /\ n \in Nat /\ n < LengthModulus /\ LengthModulus <= Radix^ReserveBytes
        /\ LengthModulus \in Nat /\ ReserveBytes \in Nat /\ ReserveBytes > 0
        /\ ReserveBytes <= MaxVarintLength
    BY ConstantFacts, LengthAssumption
  <2>2. Radix^ReserveBytes \in Nat
    BY <2>1, PowerFacts
  <2>3. n < Radix^ReserveBytes
    BY <2>1, <2>2
  <2> QED  BY <2>1, <2>3, VarintLength
<1>4. MaxLength \in Nat /\ ReserveBytes \in Nat
  BY ConstantFacts
<1> QED  BY <1>1, <1>2, <1>3, <1>4

\* A header and the room behind it are bytes, and never empty.
LEMMA HeaderFacts ==
    ASSUME NEW tag \in Tags, NEW size \in Nat
    PROVE  /\ SubmessageHeader(tag, size) \in Seq(Byte)
           /\ Len(SubmessageHeader(tag, size)) >= 1
           /\ LengthHeader(tag, LengthType(size)) \in Seq(Byte)
<1>1. /\ Key(tag, LengthDelimitedType) \in Seq(Byte)
      /\ Len(Key(tag, LengthDelimitedType)) >= 1
  <2>1. /\ Key(tag, LengthDelimitedType) \in Seq(Byte)
        /\ Key(tag, LengthDelimitedType) # <<>>
    BY VarintFits
  <2> QED  BY <2>1, EmptySeq, LenProperties
<1>2. Varint[LengthType(size)] \in Seq(Byte) /\ Len(Varint[LengthType(size)]) >= 1
  BY VarintFits, LengthTypeFacts, ConstantFacts
<1>3. /\ LengthHeader(tag, LengthType(size)) \in Seq(Byte)
      /\ Len(LengthHeader(tag, LengthType(size))) >= 1
  BY <1>1, <1>2, ConcatProperties, LenProperties DEF LengthHeader
<1> QED  BY <1>1, <1>3 DEF SubmessageHeader

LEMMA ZerosFacts == Zeros \in Seq(Byte) /\ Len(Zeros) = ReserveBytes
<1>1. \A i \in 1 .. ReserveBytes : 0 \in Byte
  BY ConstantFacts
<1> QED  BY <1>1, ConstantFacts DEF Zeros

\* Whatever a put leaves in the string, whole or torn, is bytes.
LEMMA PutFacts ==
    ASSUME NEW put \in PutSet
    PROVE  Bytes(put) \in Seq(Byte) /\ Torn(put) \subseteq Seq(Byte)
<1>1. put.head \in Seq(Byte) /\ put.tail \in Seq(Byte)
  BY DEF PutSet
<1>2. \A n \in 0 .. Len(put.head) : SubSeq(put.head, 1, n) \in Seq(Byte)
  BY <1>1, LenProperties, SubSeqProperties
<1>3. Torn(put) \subseteq Seq(Byte)
  <2> SUFFICES ASSUME NEW n \in 0 .. IF put.tail = <<>> THEN Len(put.head) - 1 ELSE Len(put.head)
               PROVE  SubSeq(put.head, 1, n) \in Seq(Byte)
    BY DEF Torn
  <2>1. n \in 0 .. Len(put.head)
    BY <1>1, LenProperties
  <2> QED  BY <2>1, <1>2
<1> QED  BY <1>1, <1>3, ConcatProperties DEF Bytes

LEMMA FixedRangeFacts ==
    ASSUME NEW tag \in Tags, NEW range \in FixedRanges
    PROVE  FixedRangePut(tag, range) \in PutSet
<1>1. AllBytes(range) \in Seq(Byte)
  BY InputsAssumption
<1>2. LengthHeader(tag, LengthType(Len(AllBytes(range)))) \in Seq(Byte)
  BY <1>1, LenProperties, HeaderFacts
<1> QED  BY <1>1, <1>2 DEF FixedRangePut, PutSet

LEMMA AppendFacts ==
    ASSUME NEW b \in Seq(Byte), NEW x \in Seq(Byte)
    PROVE  /\ b \o x \in Seq(Byte)
           /\ Len(b \o x) = Len(b) + Len(x)
           /\ Len(b \o x) >= Len(b)
           /\ \A i \in 1 .. Len(b) : (b \o x)[i] = b[i]
BY ConcatProperties, LenProperties

-----------------------------------------------------------------------------
(* What closing a submessage does to the string b, when its header starts   *)
(* behind position rollback and its content behind position pos.            *)

LEMMA AbandonedFacts ==
    ASSUME NEW b \in Seq(Byte), NEW rollback \in Nat, rollback <= Len(b)
    PROVE  /\ Abandoned(b, rollback) \in Seq(Byte)
           /\ Len(Abandoned(b, rollback)) = rollback
           /\ \A i \in 1 .. rollback : Abandoned(b, rollback)[i] = b[i]
<1>1. Len(b) \in Nat
  BY LenProperties
<1>2. \A i \in 1 .. rollback : b[i] \in Byte
  BY <1>1, ElementOfSeq
<1> QED  BY <1>1, <1>2, SubSeqProperties DEF Abandoned

LEMMA CommittedFacts ==
    ASSUME NEW b \in Seq(Byte), Len(b) <= MaxBuf,
           NEW rollback \in Nat, NEW pos \in Nat,
           rollback + ReserveBytes < pos, pos <= Len(b)
    PROVE  /\ Committed(b, pos) \in Seq(Byte)
           /\ Len(Committed(b, pos)) <= Len(b)
           /\ rollback <= Len(Committed(b, pos))
           /\ \A i \in 1 .. rollback : Committed(b, pos)[i] = b[i]
<1> DEFINE front == SubSeq(b, 1, pos - ReserveBytes)
           length == Varint[LengthType(Len(b) - pos)]
           content == SubSeq(b, pos + 1, Len(b))
<1>1. Len(b) \in Nat /\ ReserveBytes \in Nat /\ pos - ReserveBytes \in Nat
  BY ConstantFacts, LenProperties
<1>2. /\ front \in Seq(Byte) /\ Len(front) = pos - ReserveBytes
      /\ \A i \in 1 .. pos - ReserveBytes : front[i] = b[i]
  <2>1. pos - ReserveBytes <= Len(b)
    BY <1>1, ConstantFacts
  <2> QED  BY <1>1, <2>1, AbandonedFacts DEF Abandoned
<1>3. length \in Seq(Byte) /\ Len(length) \in 1 .. ReserveBytes
  <2>1. LengthType(Len(b) - pos) \in 0 .. MaxLength
    BY <1>1, LengthTypeFacts
  <2> QED  BY <2>1, VarintFits
<1>4. content \in Seq(Byte) /\ Len(content) = Len(b) - pos
  <2>1. \A i \in pos + 1 .. Len(b) : b[i] \in Byte
    BY <1>1, ElementOfSeq
  <2> QED  BY <1>1, <2>1, SubSeqProperties
<1> HIDE DEF front, length, content
<1>5. /\ (front \o length) \in Seq(Byte)
      /\ Len(front \o length) = pos - ReserveBytes + Len(length)
      /\ \A i \in 1 .. pos - ReserveBytes : (front \o length)[i] = b[i]
  <2>1. /\ front \o length \in Seq(Byte) /\ Len(front \o length) = Len(front) + Len(length)
        /\ \A i \in 1 .. Len(front) : (front \o length)[i] = front[i]
    BY Zenon, <1>2, <1>3, AppendFacts
  <2> QED  BY Zenon, <1>2, <2>1
<1> DEFINE header == front \o length
<1>6. Committed(b, pos) = header \o content
  BY DEF Committed, front, length, content
<1>7. header \in Seq(Byte) /\ Len(header) \in Nat
  BY <1>5, LenProperties
<1>8. /\ pos - ReserveBytes < Len(header) /\ Len(header) <= pos
      /\ \A i \in 1 .. pos - ReserveBytes : header[i] = b[i]
  BY <1>1, <1>3, <1>5
<1> HIDE DEF header
<1>9. /\ (header \o content) \in Seq(Byte)
      /\ Len(header \o content) = Len(header) + (Len(b) - pos)
      /\ \A i \in 1 .. Len(header) : (header \o content)[i] = header[i]
  <2>1. header \in Seq(Byte) /\ content \in Seq(Byte) /\ Len(content) = Len(b) - pos
    BY <1>4, <1>7
  <2>2. /\ header \o content \in Seq(Byte)
        /\ Len(header \o content) = Len(header) + Len(content)
        /\ \A i \in 1 .. Len(header) : (header \o content)[i] = header[i]
    BY Zenon, <2>1, AppendFacts
  <2> QED  BY Zenon, <2>1, <2>2
<1>10. \A i \in 1 .. rollback : i \in 1 .. pos - ReserveBytes /\ i \in 1 .. Len(header)
  BY <1>1, <1>7, <1>8
<1> QED  BY <1>1, <1>6, <1>7, <1>8, <1>9, <1>10

LEMMA ClosedFacts ==
    ASSUME NEW b \in Seq(Byte), Len(b) <= MaxBuf,
           NEW rollback \in Nat, NEW pos \in Nat,
           rollback + ReserveBytes < pos, pos <= Len(b)
    PROVE  /\ Closed(b, rollback, pos) \in Seq(Byte)
           /\ Len(Closed(b, rollback, pos)) <= Len(b)
           /\ rollback <= Len(Closed(b, rollback, pos))
           /\ \A i \in 1 .. rollback : Closed(b, rollback, pos)[i] = b[i]
<1>1. rollback <= Len(b) /\ Len(b) \in Nat
  BY ConstantFacts, LenProperties
<1>2. CASE Len(b) = pos
  <2>1. Closed(b, rollback, pos) = Abandoned(b, rollback)
    BY <1>2 DEF Closed
  <2>2. /\ Abandoned(b, rollback) \in Seq(Byte)
        /\ Len(Abandoned(b, rollback)) = rollback
        /\ \A i \in 1 .. rollback : Abandoned(b, rollback)[i] = b[i]
    BY <1>1, AbandonedFacts
  <2> QED  BY <1>1, <2>1, <2>2
<1>3. CASE Len(b) # pos
  <2>1. Closed(b, rollback, pos) = Committed(b, pos)
    BY <1>3 DEF Closed
  <2> QED  BY <2>1, CommittedFacts
<1> QED  BY <1>2, <1>3

-----------------------------------------------------------------------------
(* The chain of open writers.                                               *)

Inv == TypeOK /\ Nesting

LEMMA StartFacts ==
    ASSUME TypeOK, NEW w \in Writer
    PROVE  /\ m_parent_writer[w] = NULL => Start(w) = 0
           /\ m_parent_writer[w] # NULL =>
                /\ m_parent_writer[w] \in valid /\ m_parent_writer[w] \in Writer
                /\ w \in valid /\ HasChild(m_parent_writer[w])
                /\ Start(w) = m_pos[m_parent_writer[w]]
           /\ Start(w) \in Nat /\ m_pos[w] \in Nat /\ m_rollback_pos[w] \in Nat
           /\ Len(buf) \in Nat
<1>1. /\ m_parent_writer[w] \in valid \cup {NULL} /\ valid \subseteq Writer
      /\ w \notin valid => m_parent_writer[w] = NULL
      /\ Len(buf) \in Nat /\ MaxBuf \in Nat /\ SizeIsKnown \in Nat
  BY ConstantFacts, LenProperties DEF TypeOK
<1>2. \A v \in Writer : m_pos[v] \in Nat /\ m_rollback_pos[v] \in Nat
  BY <1>1 DEF TypeOK
<1> QED  BY <1>1, <1>2, WritersAssumption DEF Start, HasChild, Children

\* Only a live writer has a child, and the child lies behind its m_pos.
LEMMA ParentFacts ==
    ASSUME Inv, NEW p \in Writer, HasChild(p)
    PROVE  /\ p \in valid /\ Framed(p)
           /\ 0 < m_pos[p] /\ Start(p) < m_pos[p] /\ m_pos[p] <= Len(buf)
<1>1. PICK c \in Writer : m_parent_writer[c] = p
  BY DEF HasChild, Children
<1>2. Framed(p) /\ p \in valid /\ Start(p) \in Nat /\ m_pos[p] \in Nat
  BY <1>1, StartFacts, WritersAssumption DEF Inv, Nesting
<1> QED  BY <1>2 DEF Framed

\* Whatever the build lets through is legal: the assertions, or the client,
\* keep calls away from writers with an open submessage.
LEMMA MayUseIsLegal ==
    ASSUME Inv, NEW w \in Writer, MayUse(w)
    PROVE  Legal(w)
<1>1. CASE Asserts
  <2>1. m_pos[w] = 0 /\ w \in valid
    BY <1>1 DEF MayUse, AssertsHold
  <2>2. ~HasChild(w)
    BY <2>1, ParentFacts
  <2> QED  BY <2>1, <2>2 DEF Legal, HasChild
<1>2. CASE ~Asserts
  BY <1>2 DEF MayUse
<1> QED  BY <1>1, <1>2

\* The innermost writer is enclosed by every other one.
LEMMA LeafIsEnclosed ==
    ASSUME Inv, NEW w \in Writer, Legal(w), NEW v \in valid, v # w
    PROVE  HasChild(v) /\ m_pos[v] <= Start(w)
BY DEF Inv, Nesting, Encloses, Legal, HasChild

\* A writer has one child.
LEMMA OneChild ==
    ASSUME Inv, NEW c \in Writer, NEW d \in Writer, m_parent_writer[c] # NULL,
           m_parent_writer[c] = m_parent_writer[d]
    PROVE  c = d
<1> SUFFICES ASSUME c # d PROVE FALSE
  OBVIOUS
<1>1. c \in valid /\ d \in valid /\ Start(c) = Start(d) /\ Start(c) \in Nat
  BY StartFacts DEF Inv
<1>2. Encloses(c, d) \/ Encloses(d, c)
  BY <1>1 DEF Inv, Nesting
<1>3. /\ HasChild(c) => Start(c) < m_pos[c] /\ m_pos[c] \in Nat
      /\ HasChild(d) => Start(d) < m_pos[d] /\ m_pos[d] \in Nat
  BY ParentFacts, StartFacts DEF Inv
<1> QED  BY <1>1, <1>2, <1>3 DEF Encloses

-----------------------------------------------------------------------------
(* The four ways a step can disturb the chain.                              *)

\* The innermost writer extends the string and may set its own positions.
LEMMA ExtendKeepsNesting ==
    ASSUME Inv, TypeOK', NEW w \in Writer, Legal(w),
           valid' = valid, m_parent_writer' = m_parent_writer,
           Len(buf) <= Len(buf'),
           \A v \in Writer \ {w} : m_pos'[v] = m_pos[v] /\ m_rollback_pos'[v] = m_rollback_pos[v]
    PROVE  Nesting'
<1>1. \A v \in Writer : HasChild(v)' <=> HasChild(v)
  BY DEF HasChild, Children
<1>2. \A v \in Writer : HasChild(v) => v # w
  BY DEF Legal, HasChild
<1>3. \A v \in Writer : Start(v)' = Start(v)
  <2> SUFFICES ASSUME NEW v \in Writer PROVE Start(v)' = Start(v)
    OBVIOUS
  <2>1. m_parent_writer[v] # NULL => m_parent_writer[v] \in Writer \ {w}
    BY <1>2, StartFacts DEF Inv
  <2> QED  BY <2>1 DEF Start
<1>4. Len(buf) \in Nat /\ Len(buf') \in Nat
  BY LenProperties DEF Inv, TypeOK
<1>5. ASSUME NEW v \in Writer, HasChild(v)'
      PROVE  Framed(v)'
  <2>1. /\ Framed(v) /\ m_pos'[v] = m_pos[v] /\ m_rollback_pos'[v] = m_rollback_pos[v]
        /\ m_pos[v] \in Nat
    BY <1>1, <1>2, <1>5, ParentFacts, StartFacts DEF Inv
  <2> QED  BY <1>3, <1>4, <2>1 DEF Framed, SizeIsKnown
<1>6. ASSUME NEW u \in valid', NEW v \in valid', u # v
      PROVE  (Encloses(u, v) \/ Encloses(v, u))'
  <2>1. u \in Writer /\ v \in Writer /\ (Encloses(u, v) \/ Encloses(v, u))
    BY <1>6 DEF Inv, TypeOK, Nesting
  <2> QED  BY <1>1, <1>2, <1>3, <2>1 DEF Encloses
<1> QED  BY <1>5, <1>6 DEF Nesting

\* A child is given to the innermost writer p.
LEMMA OpenKeepsNesting ==
    ASSUME Inv, TypeOK', NEW p \in Writer, Legal(p), NEW c \in Writer, c \notin valid,
           valid' = valid \cup {c},
           m_parent_writer' = [m_parent_writer EXCEPT ![c] = p],
           Len(buf) < Len(buf'), m_pos'[p] = Len(buf'),
           \/ m_rollback_pos'[p] = SizeIsKnown
           \/ m_rollback_pos'[p] = Len(buf) /\ Len(buf) + ReserveBytes < Len(buf'),
           \A v \in Writer \ {p, c} :
                m_pos'[v] = m_pos[v] /\ m_rollback_pos'[v] = m_rollback_pos[v]
    PROVE  Nesting'
<1>1. /\ c # p /\ p \in valid /\ ~HasChild(p)
      /\ \A v \in Writer : m_parent_writer[v] # c /\ m_parent_writer[v] # p
  BY StartFacts, WritersAssumption DEF Inv, Legal, HasChild, Children
<1>2. /\ m_parent_writer'[c] = p
      /\ \A v \in Writer \ {c} : m_parent_writer'[v] = m_parent_writer[v]
  BY DEF Inv, TypeOK
<1>3. HasChild(p)' /\ \A v \in Writer \ {p} : HasChild(v)' <=> HasChild(v)
  <2>1. HasChild(p)'
    BY <1>2 DEF HasChild, Children
  <2>2. \A v \in Writer \ {p} : HasChild(v)' <=> HasChild(v)
    <3>1. m_parent_writer[c] = NULL
      BY DEF Inv, TypeOK
    <3>2. \A v \in Writer \ {p}, x \in Writer :
            m_parent_writer'[x] = v <=> m_parent_writer[x] = v
      BY <1>2, <3>1, WritersAssumption
    <3> QED  BY <3>2 DEF HasChild, Children
  <2> QED  BY <2>1, <2>2
<1>4. \A v \in Writer \ {c} : Start(v)' = Start(v)
  <2> SUFFICES ASSUME NEW v \in Writer \ {c} PROVE Start(v)' = Start(v)
    OBVIOUS
  <2>1. m_parent_writer[v] # NULL => m_parent_writer[v] \in Writer \ {p, c}
    BY <1>1, StartFacts DEF Inv
  <2> QED  BY <1>2, <2>1 DEF Start
<1>5. Start(c)' = Len(buf')
  BY <1>2, WritersAssumption DEF Start
<1>6. /\ Len(buf) \in Nat /\ Len(buf') \in Nat /\ ReserveBytes \in Nat
      /\ \A v \in Writer : Start(v) \in Nat /\ m_pos[v] \in Nat
  BY StartFacts, LenProperties, ConstantFacts DEF Inv, TypeOK
<1>7. \A v \in Writer : HasChild(v) => v # c /\ v # p
  BY <1>1, ParentFacts
<1>8. Start(p) <= Len(buf)
  <2>1. CASE m_parent_writer[p] = NULL
    BY <1>6, <2>1, StartFacts DEF Inv
  <2>2. CASE m_parent_writer[p] # NULL
    BY <1>6, <2>2, StartFacts, ParentFacts DEF Inv
  <2> QED  BY <2>1, <2>2
<1>9. ASSUME NEW v \in Writer, HasChild(v)'
      PROVE  Framed(v)'
  <2>1. CASE v = p
    BY <1>1, <1>4, <1>6, <1>8, <2>1 DEF Framed, SizeIsKnown
  <2>2. CASE v # p
    <3>1. /\ HasChild(v) /\ Framed(v) /\ v # c
          /\ m_pos'[v] = m_pos[v] /\ m_rollback_pos'[v] = m_rollback_pos[v]
      BY <1>3, <1>7, <1>9, <2>2, ParentFacts
    <3> QED  BY <1>4, <1>6, <3>1 DEF Framed, SizeIsKnown
  <2> QED  BY <2>1, <2>2
<1>10. ASSUME NEW v \in valid
       PROVE  Encloses(v, c)'
  <2>1. v \in Writer
    BY DEF Inv, TypeOK
  <2>2. CASE v = p
    BY <1>3, <1>5, <1>6, <2>2 DEF Encloses
  <2>3. CASE v # p
    <3>1. HasChild(v) /\ m_pos[v] <= Start(p) /\ v # c
      BY <1>7, <2>1, <2>3, LeafIsEnclosed
    <3> QED  BY <1>3, <1>5, <1>6, <1>8, <2>1, <2>3, <3>1 DEF Encloses
  <2> QED  BY <2>2, <2>3
<1>11. ASSUME NEW u \in valid', NEW v \in valid', u # v
       PROVE  (Encloses(u, v) \/ Encloses(v, u))'
  <2>1. CASE u = c \/ v = c
    BY <1>10, <1>11, <2>1
  <2>2. CASE u # c /\ v # c
    <3>1. u \in Writer /\ v \in Writer /\ (Encloses(u, v) \/ Encloses(v, u))
      BY <1>11, <2>2 DEF Inv, TypeOK, Nesting
    <3>2. /\ HasChild(u) => HasChild(u)' /\ m_pos'[u] = m_pos[u]
          /\ HasChild(v) => HasChild(v)' /\ m_pos'[v] = m_pos[v]
      BY <1>3, <1>7, <3>1
    <3> QED  BY <1>4, <2>2, <3>1, <3>2 DEF Encloses
  <2> QED  BY <2>1, <2>2
<1> QED  BY <1>9, <1>11 DEF Nesting

\* The ancestors of the innermost writer c but its parent p lie behind p's start.
LEMMA OtherAncestors ==
    ASSUME Inv, NEW c \in Writer, Legal(c), NEW p \in Writer, p = m_parent_writer[c],
           NEW v \in valid, v # c, v # p
    PROVE  HasChild(v) /\ m_pos[v] <= Start(p) /\ m_pos[v] \in Nat
<1>1. HasChild(p) /\ p \in valid /\ Start(c) = m_pos[p] /\ v \in Writer
  BY StartFacts, WritersAssumption DEF Inv, TypeOK
<1>2. HasChild(v) /\ m_pos[v] <= m_pos[p]
  BY <1>1, LeafIsEnclosed
<1>3. Start(v) < m_pos[v] /\ m_pos[v] \in Nat /\ m_pos[p] \in Nat /\ Start(v) \in Nat
  BY <1>1, <1>2, ParentFacts, StartFacts DEF Inv
<1>4. ~Encloses(p, v)
  BY <1>2, <1>3 DEF Encloses
<1> QED  BY <1>1, <1>3, <1>4 DEF Inv, Nesting, Encloses

\* The innermost writer c leaves the chain; its parent p gets the string back
\* at or behind the rollback position.
LEMMA CloseKeepsNesting ==
    ASSUME Inv, TypeOK', NEW c \in Writer, Legal(c), NEW p \in Writer, p = m_parent_writer[c],
           valid' = valid \ {c},
           m_parent_writer' = [m_parent_writer EXCEPT ![c] = NULL],
           \/ Len(buf') = Len(buf)
           \/ m_rollback_pos[p] # SizeIsKnown /\ m_rollback_pos[p] <= Len(buf'),
           \A v \in Writer \ {p, c} :
                m_pos'[v] = m_pos[v] /\ m_rollback_pos'[v] = m_rollback_pos[v]
    PROVE  Nesting'
<1>1. /\ c # p /\ p \in valid /\ HasChild(p) /\ ~HasChild(c)
      /\ Start(c) = m_pos[p] /\ c \in valid
  BY StartFacts, WritersAssumption DEF Inv, Legal, HasChild, Children
<1>2. /\ m_parent_writer'[c] = NULL
      /\ \A v \in Writer \ {c} : m_parent_writer'[v] = m_parent_writer[v]
  BY DEF Inv, TypeOK
<1>3. \A v \in Writer \ {c} : m_parent_writer[v] # p
  BY OneChild, WritersAssumption
<1>4. /\ ~HasChild(p)' /\ ~HasChild(c)'
      /\ \A v \in Writer \ {p} : HasChild(v)' => HasChild(v)
  BY <1>1, <1>2, <1>3, WritersAssumption DEF HasChild, Children
<1>5. \A v \in Writer \ {c} : Start(v)' = Start(v)
  <2> SUFFICES ASSUME NEW v \in Writer \ {c} PROVE Start(v)' = Start(v)
    OBVIOUS
  <2>1. m_parent_writer[v] # NULL => m_parent_writer[v] \in Writer \ {p, c}
    BY <1>1, <1>3, StartFacts DEF Inv
  <2> QED  BY <1>2, <2>1 DEF Start
<1>6. /\ Len(buf) \in Nat /\ Len(buf') \in Nat /\ ReserveBytes \in Nat
      /\ \A v \in Writer : /\ Start(v) \in Nat /\ m_pos[v] \in Nat
                           /\ m_rollback_pos[v] \in Nat
  BY StartFacts, LenProperties, ConstantFacts DEF Inv, TypeOK
<1>7. \A v \in valid \ {c, p} : HasChild(v) /\ m_pos[v] <= Start(p)
  BY OtherAncestors
<1>8. \A v \in valid \ {c, p} : m_pos[v] <= Len(buf')
  <2> SUFFICES ASSUME NEW v \in valid \ {c, p} PROVE m_pos[v] <= Len(buf')
    OBVIOUS
  <2>1. v \in Writer /\ HasChild(v) /\ m_pos[v] <= Start(p) /\ m_pos[v] <= Len(buf)
    BY <1>7, ParentFacts DEF Inv, TypeOK
  <2>2. m_rollback_pos[p] # SizeIsKnown => Start(p) <= m_rollback_pos[p]
    BY <1>1, ParentFacts DEF Framed
  <2> QED  BY <1>6, <2>1, <2>2
<1>9. ASSUME NEW v \in Writer, HasChild(v)'
      PROVE  Framed(v)'
  <2>1. /\ HasChild(v) /\ Framed(v) /\ v \in valid \ {c, p}
        /\ m_pos'[v] = m_pos[v] /\ m_rollback_pos'[v] = m_rollback_pos[v]
    BY <1>4, <1>9, ParentFacts
  <2> QED  BY <1>5, <1>6, <1>8, <2>1 DEF Framed, SizeIsKnown
<1>10. ASSUME NEW u \in valid', NEW v \in valid', u # v
       PROVE  (Encloses(u, v) \/ Encloses(v, u))'
  <2>1. \A w \in valid \ {c, p} : HasChild(w)'
    <3> SUFFICES ASSUME NEW w \in valid \ {c, p} PROVE HasChild(w)'
      OBVIOUS
    <3>1. PICK x \in Writer : m_parent_writer[x] = w
      BY <1>7 DEF HasChild, Children
    <3>2. x # c
      BY <3>1
    <3> QED  BY <1>2, <3>1, <3>2 DEF HasChild, Children
  <2>2. /\ u \in Writer \ {c} /\ v \in Writer \ {c} /\ u \in valid \ {c} /\ v \in valid \ {c}
        /\ Encloses(u, v) \/ Encloses(v, u)
    BY <1>10 DEF Inv, TypeOK, Nesting
  <2>3. \A w \in valid \ {c} : ~Encloses(p, w) \/ w = p
    <3> SUFFICES ASSUME NEW w \in valid \ {c, p}, Encloses(p, w) PROVE FALSE
      OBVIOUS
    <3>1. w \in Writer /\ m_pos[w] <= Start(p) /\ Start(w) < m_pos[w]
      BY <1>7, ParentFacts DEF Inv, TypeOK
    <3>2. Start(p) < m_pos[p] /\ m_pos[p] <= Start(w)
      BY <1>1, ParentFacts DEF Encloses
    <3> QED  BY <1>6, <3>1, <3>2
  <2>4. /\ Encloses(u, v) => u # p
        /\ Encloses(v, u) => v # p
    BY <1>10, <2>2, <2>3
  <2> QED  BY <1>5, <2>1, <2>2, <2>4 DEF Encloses
<1> QED  BY <1>9, <1>10 DEF Nesting

\* The innermost writer v goes on as w.
LEMMA RenameKeepsNesting ==
    ASSUME Inv, TypeOK', NEW v \in Writer, Legal(v), NEW w \in Writer, w \notin valid,
           valid' = (valid \ {v}) \cup {w},
           m_parent_writer' = [m_parent_writer EXCEPT ![w] = m_parent_writer[v], ![v] = NULL],
           buf' = buf,
           \A u \in Writer \ {v, w} :
                m_pos'[u] = m_pos[u] /\ m_rollback_pos'[u] = m_rollback_pos[u]
    PROVE  Nesting'
<1>1. /\ v # w /\ v \in valid /\ ~HasChild(v)
      /\ \A u \in Writer : m_parent_writer[u] # v /\ m_parent_writer[u] # w
  BY StartFacts, WritersAssumption DEF Inv, Legal, HasChild, Children
<1>2. /\ m_parent_writer'[v] = NULL /\ m_parent_writer'[w] = m_parent_writer[v]
      /\ m_parent_writer[w] = NULL
      /\ \A u \in Writer \ {v, w} : m_parent_writer'[u] = m_parent_writer[u]
  BY <1>1 DEF Inv, TypeOK
<1>3. /\ \A u \in Writer \ {v, w} : HasChild(u)' <=> HasChild(u)
      /\ ~HasChild(v)' /\ ~HasChild(w)' /\ ~HasChild(w)
  <2>1. ASSUME NEW u \in Writer \ {v, w}, NEW x \in Writer
        PROVE  /\ m_parent_writer[x] = u =>
                    \E y \in Writer : m_parent_writer'[y] = u
               /\ m_parent_writer'[x] = u =>
                    \E y \in Writer : m_parent_writer[y] = u
    <3>1. CASE x = v
      BY <1>2, <3>1, WritersAssumption
    <3>2. CASE x = w
      BY <1>2, <3>2, WritersAssumption
    <3>3. CASE x \in Writer \ {v, w}
      BY <1>2, <3>3
    <3> QED  BY <3>1, <3>2, <3>3
  <2>2. \A x \in Writer : m_parent_writer'[x] # v /\ m_parent_writer'[x] # w
    BY <1>1, <1>2, WritersAssumption
  <2>3. ~HasChild(w)
    BY <1>1 DEF HasChild, Children
  <2>4. \A u \in Writer : /\ HasChild(u) <=> \E y \in Writer : m_parent_writer[y] = u
                          /\ HasChild(u)' <=> \E y \in Writer : m_parent_writer'[y] = u
    BY DEF HasChild, Children
  <2>5. ASSUME NEW u \in Writer \ {v, w} PROVE HasChild(u)' <=> HasChild(u)
    BY <2>1, <2>4
  <2> QED  BY <2>2, <2>3, <2>4, <2>5
<1>4. /\ \A u \in Writer \ {v, w} : Start(u)' = Start(u)
      /\ Start(w)' = Start(v)
  <2>1. \A u \in Writer : m_parent_writer[u] # NULL => m_parent_writer[u] \in Writer \ {v, w}
    BY <1>1, StartFacts DEF Inv
  <2>2. ASSUME NEW u \in Writer \ {v, w} PROVE Start(u)' = Start(u)
    <3>1. m_parent_writer'[u] = m_parent_writer[u]
      BY <1>2
    <3>2. m_parent_writer[u] # NULL => m_pos'[m_parent_writer[u]] = m_pos[m_parent_writer[u]]
      BY <2>1
    <3> QED  BY <3>1, <3>2 DEF Start
  <2>3. Start(w)' = Start(v)
    BY <1>2, <2>1 DEF Start
  <2> QED  BY <2>2, <2>3
<1>5. ASSUME NEW u \in Writer, HasChild(u)'
      PROVE  Framed(u)'
  <2>1. /\ u \in Writer \ {v, w} /\ Framed(u)
        /\ m_pos'[u] = m_pos[u] /\ m_rollback_pos'[u] = m_rollback_pos[u]
    BY <1>3, <1>5, ParentFacts
  <2> QED  BY <1>4, <2>1 DEF Framed, SizeIsKnown
<1>6. ASSUME NEW u \in valid'
      PROVE  u # w => Encloses(u, w)'
  <2> SUFFICES ASSUME u # w PROVE Encloses(u, w)'
    OBVIOUS
  <2>1. u \in Writer \ {v, w} /\ u \in valid
    BY <1>1 DEF Inv, TypeOK
  <2>2. HasChild(u) /\ m_pos[u] <= Start(v)
    BY <2>1, LeafIsEnclosed
  <2> QED  BY <1>3, <1>4, <2>1, <2>2 DEF Encloses
<1>7. ASSUME NEW t \in valid', NEW u \in valid', t # u
      PROVE  (Encloses(t, u) \/ Encloses(u, t))'
  <2>1. CASE t = w \/ u = w
    BY <1>6, <1>7, <2>1
  <2>2. CASE t # w /\ u # w
    <3>1. /\ t \in Writer \ {v, w} /\ u \in Writer \ {v, w}
          /\ Encloses(t, u) \/ Encloses(u, t)
      BY <1>1, <1>7, <2>2 DEF Inv, TypeOK, Nesting
    <3> QED  BY <1>3, <1>4, <3>1 DEF Encloses
  <2> QED  BY <2>1, <2>2
<1> QED  BY <1>5, <1>7 DEF Nesting

-----------------------------------------------------------------------------
(* What the calls do to the string.                                         *)

\* A sub-writer that lives for one call only appends, even if it is closed
\* with a part of its elements.
LEMMA SubmessageFacts ==
    ASSUME TypeOK, NEW tag \in Tags, NEW payload \in Seq(Byte),
           AppendSubmessage(tag, payload)
    PROVE  /\ buf' \in Seq(Byte) /\ Len(buf') <= MaxBuf /\ Len(buf) <= Len(buf')
           /\ \A i \in 1 .. Len(buf) : buf'[i] = buf[i]
<1> DEFINE key == Key(tag, LengthDelimitedType)
           room == (buf \o key) \o Zeros
           full == room \o payload
<1>1. /\ buf \in Seq(Byte) /\ Len(buf) \in Nat /\ <<>> \in Seq(Byte) /\ Len(<<>>) = 0
      /\ ReserveBytes \in Nat /\ MaxBuf \in Nat
  BY LenProperties, EmptySeq, ConstantFacts DEF TypeOK
<1>2. key \in Seq(Byte) /\ Len(key) \in Nat /\ Len(key) >= 1
  <2>1. key \in Seq(Byte) /\ key # <<>>
    BY VarintFits
  <2> QED  BY <2>1, EmptySeq, LenProperties
<1> HIDE DEF key
<1>3. /\ buf \o key \in Seq(Byte) /\ Len(buf \o key) = Len(buf) + Len(key)
      /\ \A i \in 1 .. Len(buf) : (buf \o key)[i] = buf[i]
  BY <1>1, <1>2, AppendFacts
<1>4. /\ room \in Seq(Byte) /\ Len(room) = Len(buf) + Len(key) + ReserveBytes
      /\ \A i \in 1 .. Len(buf) + Len(key) : room[i] = (buf \o key)[i]
  <2> DEFINE both == buf \o key
  <2>1. both \in Seq(Byte) /\ Len(both) = Len(buf) + Len(key)
    BY <1>3
  <2>2. Zeros \in Seq(Byte) /\ Len(Zeros) = ReserveBytes
    BY ZerosFacts
  <2> HIDE DEF both
  <2>3. /\ both \o Zeros \in Seq(Byte) /\ Len(both \o Zeros) = Len(both) + Len(Zeros)
        /\ \A i \in 1 .. Len(both) : (both \o Zeros)[i] = both[i]
    BY Zenon, <2>1, <2>2, AppendFacts
  <2> QED  BY Zenon, <2>1, <2>2, <2>3 DEF both
<1> HIDE DEF room
<1>5. /\ full \in Seq(Byte) /\ Len(full) = Len(room) + Len(payload)
      /\ \A i \in 1 .. Len(room) : full[i] = room[i]
      /\ Len(payload) \in Nat
      /\ Len(room \o <<>>) = Len(room)
  <2>1. /\ full \in Seq(Byte) /\ Len(full) = Len(room) + Len(payload)
        /\ \A i \in 1 .. Len(room) : full[i] = room[i]
    BY <1>4, AppendFacts
  <2>2. Len(payload) \in Nat /\ Len(room) \in Nat
    BY <1>4, LenProperties
  <2>3. Len(room \o <<>>) = Len(room) + Len(<<>>)
    BY <1>1, <1>4, AppendFacts
  <2> QED  BY <1>1, <2>1, <2>2, <2>3
<1>6. full = Filled(tag, payload) /\ room \o <<>> = Filled(tag, <<>>)
  BY DEF full, room, key, Filled
<1> HIDE DEF full
<1>7. buf' = Closed(full, Len(buf), Len(room)) /\ Len(full) <= MaxBuf
  BY <1>5, <1>6 DEF AppendSubmessage, WithSubmessage
<1>8. Len(buf) + ReserveBytes < Len(room) /\ Len(room) <= Len(full) /\ Len(room) \in Nat
  BY <1>1, <1>2, <1>4, <1>5
<1>9. /\ buf' \in Seq(Byte) /\ Len(buf') <= Len(full) /\ Len(buf) <= Len(buf')
      /\ \A i \in 1 .. Len(buf) : buf'[i] = full[i]
  <2>1. /\ Closed(full, Len(buf), Len(room)) \in Seq(Byte)
        /\ Len(Closed(full, Len(buf), Len(room))) <= Len(full)
        /\ Len(buf) <= Len(Closed(full, Len(buf), Len(room)))
        /\ \A i \in 1 .. Len(buf) : Closed(full, Len(buf), Len(room))[i] = full[i]
    BY <1>1, <1>5, <1>7, <1>8, ClosedFacts
  <2> QED  BY <1>7, <2>1
<1>10. \A i \in 1 .. Len(buf) : full[i] = buf[i]
  <2> SUFFICES ASSUME NEW i \in 1 .. Len(buf) PROVE full[i] = buf[i]
    OBVIOUS
  <2>1. i \in 1 .. Len(buf) + Len(key) /\ i \in 1 .. Len(room)
    BY <1>1, <1>2, <1>4
  <2> QED  BY <1>3, <1>4, <1>5, <2>1
<1> QED
  <2>1. Len(buf') \in Nat /\ Len(full) \in Nat
    BY <1>5, <1>9, LenProperties
  <2> QED  BY <1>1, <1>7, <1>9, <1>10, <2>1

LEMMA GrowFacts ==
    ASSUME TypeOK, NEW x \in Seq(Byte), Grow(x)
    PROVE  /\ buf' \in Seq(Byte) /\ Len(buf') <= MaxBuf /\ Len(buf) <= Len(buf')
           /\ Len(buf') = Len(buf) + Len(x) /\ Len(x) \in Nat /\ Len(buf) \in Nat
           /\ \A i \in 1 .. Len(buf) : buf'[i] = buf[i]
BY AppendFacts, LenProperties DEF Grow, TypeOK

\* Closing the submessage of p, by commit() or the destructor of its writer.
LEMMA CloseFacts ==
    ASSUME Inv, NEW p \in Writer, HasChild(p), buf' = BufAfterClose(p)
    PROVE  /\ buf' \in Seq(Byte) /\ Len(buf') <= MaxBuf
           /\ \/ buf' = buf
              \/ m_rollback_pos[p] # SizeIsKnown /\ m_rollback_pos[p] <= Len(buf')
           /\ m_rollback_pos[p] # SizeIsKnown =>
                \A i \in 1 .. m_rollback_pos[p] : buf'[i] = buf[i]
           /\ PosAfterClose(p) \in 0 .. MaxBuf
<1>1. /\ buf \in Seq(Byte) /\ Len(buf) <= MaxBuf /\ Len(buf) \in Nat /\ MaxBuf \in Nat
      /\ m_pos[p] \in 0 .. MaxBuf /\ m_rollback_pos[p] \in Nat
  BY StartFacts, ConstantFacts DEF Inv, TypeOK
<1>2. PosAfterClose(p) \in 0 .. MaxBuf
  BY <1>1 DEF PosAfterClose
<1>3. CASE NothingToClose(p)
  <2>1. buf' = buf
    BY <1>3 DEF BufAfterClose
  <2> QED  BY <1>1, <1>2, <2>1
<1>4. CASE ~NothingToClose(p)
  <2>1. m_rollback_pos[p] # SizeIsKnown /\ buf' = Closed(buf, m_rollback_pos[p], m_pos[p])
    BY <1>4 DEF BufAfterClose, NothingToClose
  <2>2. m_rollback_pos[p] + ReserveBytes < m_pos[p] /\ m_pos[p] <= Len(buf) /\ m_pos[p] \in Nat
    BY <1>1, <2>1, ParentFacts DEF Framed
  <2>3. /\ buf' \in Seq(Byte) /\ Len(buf') <= Len(buf) /\ m_rollback_pos[p] <= Len(buf')
        /\ \A i \in 1 .. m_rollback_pos[p] : buf'[i] = buf[i]
    BY <1>1, <2>1, <2>2, ClosedFacts
  <2>4. Len(buf') \in Nat
    BY <2>3, LenProperties
  <2> QED  BY <1>1, <1>2, <2>1, <2>3, <2>4
<1> QED  BY <1>3, <1>4

LEMMA RollbackFacts ==
    ASSUME Inv, NEW p \in Writer, HasChild(p), m_rollback_pos[p] # SizeIsKnown,
           buf' = Abandoned(buf, m_rollback_pos[p])
    PROVE  /\ buf' \in Seq(Byte) /\ Len(buf') <= MaxBuf
           /\ m_rollback_pos[p] <= Len(buf')
           /\ \A i \in 1 .. m_rollback_pos[p] : buf'[i] = buf[i]
<1>1. /\ buf \in Seq(Byte) /\ Len(buf) <= MaxBuf /\ Len(buf) \in Nat /\ MaxBuf \in Nat
      /\ m_pos[p] \in Nat /\ m_rollback_pos[p] \in Nat /\ ReserveBytes \in Nat
  BY StartFacts, ConstantFacts DEF Inv, TypeOK
<1>2. m_rollback_pos[p] <= Len(buf)
  BY <1>1, ParentFacts DEF Framed
<1>3. /\ buf' \in Seq(Byte) /\ Len(buf') = m_rollback_pos[p]
      /\ \A i \in 1 .. m_rollback_pos[p] : buf'[i] = buf[i]
  BY <1>1, <1>2, AbandonedFacts
<1> QED  BY <1>1, <1>2, <1>3

-----------------------------------------------------------------------------
(* Every step preserves Inv.                                                *)

LEMMA OutcomeFacts ==
    /\ "ok" \in Outcome /\ "bad_alloc" \in Outcome /\ "length_error" \in Outcome
    /\ \A how \in Aborted : how \in Outcome
BY DEF Outcome, Aborted

LEMMA ThrowFacts ==
    ASSUME TypeOK, Throw
    PROVE  throws' \in 0 .. MaxThrows /\ outcome' \in Outcome
BY OutcomeFacts, WritersAssumption DEF Throw, TypeOK

LEMMA SpendFacts ==
    ASSUME TypeOK, NEW w \in Writer, NEW n \in Nat, MayPut(w, n), Spend(w, n)
    PROVE  owed' \in [Writer -> Nat]
BY DEF Spend, MayPut, TypeOK

\* The calls that only extend the string of the innermost writer w.
LEMMA ExtendKeepsInv ==
    ASSUME Inv, NEW w \in Writer, Legal(w), UNCHANGED links,
           buf' \in Seq(Byte), Len(buf') <= MaxBuf, Len(buf) <= Len(buf'),
           m_rollback_pos' \in [Writer -> 0 .. SizeIsKnown], m_pos' \in [Writer -> 0 .. MaxBuf],
           \A v \in Writer \ {w} : m_pos'[v] = m_pos[v] /\ m_rollback_pos'[v] = m_rollback_pos[v],
           owed' \in [Writer -> Nat], torn' \subseteq Writer \cup {NULL},
           throws' \in 0 .. MaxThrows, outcome' \in Outcome
    PROVE  Inv'
<1>1. valid' = valid /\ m_parent_writer' = m_parent_writer
  BY DEF links
<1>2. TypeOK'
  BY <1>1 DEF Inv, TypeOK, SizeIsKnown
<1>3. Nesting'
  BY <1>1, <1>2, ExtendKeepsNesting
<1> QED  BY <1>2, <1>3 DEF Inv

LEMMA AddStep ==
    ASSUME Inv, NEW w \in Writer,
           \/ \E f \in Fields : AddField(w, f) \/ AddFieldThrows(w, f)
           \/ \E e \in Elements : AddElement(w, e) \/ AddElementThrows(w, e)
           \/ \E tag \in Tags, range \in FixedRanges :
                AddPackedFixed(w, tag, range) \/ AddPackedFixedThrows(w, tag, range)
    PROVE  /\ Inv' /\ Len(buf) <= Len(buf')
           /\ \A i \in 1 .. Len(buf) : buf'[i] = buf[i]
<1>1. /\ TypeOK /\ \A v \in Writer \ {w} : m_pos[v] = m_pos[v]
      /\ buf \in Seq(Byte) /\ owed \in [Writer -> Nat] /\ torn \subseteq Writer \cup {NULL}
      /\ throws \in 0 .. MaxThrows
      /\ m_rollback_pos \in [Writer -> 0 .. SizeIsKnown] /\ m_pos \in [Writer -> 0 .. MaxBuf]
  BY DEF Inv, TypeOK
<1>2. ASSUME NEW put \in PutSet, Grow(Bytes(put)), MayUse(w),
             \/ MayPut(w, Len(Bytes(put))) /\ Spend(w, Len(Bytes(put)))
             \/ UNCHANGED owed,
             outcome' = "ok", UNCHANGED <<links, m_rollback_pos, m_pos, torn, throws>>
      PROVE  /\ Inv' /\ Len(buf) <= Len(buf')
             /\ \A i \in 1 .. Len(buf) : buf'[i] = buf[i]
  <2>1. Bytes(put) \in Seq(Byte) /\ Len(Bytes(put)) \in Nat
    BY PutFacts, LenProperties
  <2>2. /\ buf' \in Seq(Byte) /\ Len(buf') <= MaxBuf /\ Len(buf) <= Len(buf')
        /\ \A i \in 1 .. Len(buf) : buf'[i] = buf[i]
    BY <1>1, <1>2, <2>1, GrowFacts
  <2>3. owed' \in [Writer -> Nat]
    BY <1>1, <1>2, <2>1, SpendFacts
  <2>4. Legal(w)
    BY <1>2, MayUseIsLegal
  <2>5. Inv'
    BY <1>1, <1>2, <2>2, <2>3, <2>4, OutcomeFacts, ExtendKeepsInv
  <2> QED  BY <2>2, <2>5
<1>3. ASSUME NEW put \in PutSet, NEW part \in Torn(put), Grow(part), MayUse(w), Throw,
             torn' = torn \cup {w}, UNCHANGED <<links, m_rollback_pos, m_pos, owed>>
      PROVE  /\ Inv' /\ Len(buf) <= Len(buf')
             /\ \A i \in 1 .. Len(buf) : buf'[i] = buf[i]
  <2>1. part \in Seq(Byte)
    BY PutFacts
  <2>2. /\ buf' \in Seq(Byte) /\ Len(buf') <= MaxBuf /\ Len(buf) <= Len(buf')
        /\ \A i \in 1 .. Len(buf) : buf'[i] = buf[i]
    BY <1>1, <1>3, <2>1, GrowFacts
  <2>3. Legal(w)
    BY <1>3, MayUseIsLegal
  <2>4. throws' \in 0 .. MaxThrows /\ outcome' \in Outcome /\ torn' \subseteq Writer \cup {NULL}
    BY <1>1, <1>3, ThrowFacts
  <2>5. Inv'
    BY <1>1, <1>3, <2>2, <2>3, <2>4, ExtendKeepsInv
  <2> QED  BY <2>2, <2>5
<1>4. \A f \in Fields : f.put \in PutSet
  BY InputsAssumption
<1>5. ASSUME NEW f \in Fields, AddField(w, f) \/ AddFieldThrows(w, f)
      PROVE  /\ Inv' /\ Len(buf) <= Len(buf')
             /\ \A i \in 1 .. Len(buf) : buf'[i] = buf[i]
  <2>1. CASE AddField(w, f)
    BY <1>2, <1>4, <2>1 DEF AddField, MayAdd
  <2>2. CASE AddFieldThrows(w, f)
    BY <1>3, <1>4, <2>2 DEF AddFieldThrows, MayAdd
  <2> QED  BY <1>5, <2>1, <2>2
<1>6. ASSUME NEW e \in Elements, AddElement(w, e) \/ AddElementThrows(w, e)
      PROVE  /\ Inv' /\ Len(buf) <= Len(buf')
             /\ \A i \in 1 .. Len(buf) : buf'[i] = buf[i]
  <2>1. e \in PutSet
    BY InputsAssumption
  <2>2. CASE AddElement(w, e)
    BY <1>2, <2>1, <2>2 DEF AddElement
  <2>3. CASE AddElementThrows(w, e)
    BY <1>3, <2>1, <2>3 DEF AddElementThrows
  <2> QED  BY <1>6, <2>2, <2>3
<1>7. ASSUME NEW tag \in Tags, NEW range \in FixedRanges,
             AddPackedFixed(w, tag, range) \/ AddPackedFixedThrows(w, tag, range)
      PROVE  /\ Inv' /\ Len(buf) <= Len(buf')
             /\ \A i \in 1 .. Len(buf) : buf'[i] = buf[i]
  <2>1. FixedRangePut(tag, range) \in PutSet
    BY FixedRangeFacts
  <2>2. CASE AddPackedFixed(w, tag, range)
    BY <1>2, <2>1, <2>2 DEF AddPackedFixed, MayAdd
  <2>3. CASE AddPackedFixedThrows(w, tag, range)
    BY <1>3, <2>1, <2>3 DEF AddPackedFixedThrows, MayAdd
  <2> QED  BY <1>7, <2>2, <2>3
<1> QED  BY <1>5, <1>6, <1>7

LEMMA AddPackedStep ==
    ASSUME Inv, NEW w \in Writer, NEW tag \in Tags, NEW range \in PackedRanges,
           AddPacked(w, tag, range) \/ AddPackedThrows(w, tag, range)
    PROVE  /\ Inv' /\ Len(buf) <= Len(buf')
           /\ \A i \in 1 .. Len(buf) : buf'[i] = buf[i]
<1>1. /\ TypeOK /\ Len(buf) \in 0 .. SizeIsKnown
      /\ owed \in [Writer -> Nat] /\ torn \subseteq Writer \cup {NULL}
      /\ throws \in 0 .. MaxThrows
      /\ m_rollback_pos \in [Writer -> 0 .. SizeIsKnown] /\ m_pos \in [Writer -> 0 .. MaxBuf]
      /\ MaxBuf \in Nat
  BY ConstantFacts, LenProperties DEF Inv, TypeOK
<1>2. /\ MayUse(w) /\ UNCHANGED <<links, owed, torn>>
      /\ m_rollback_pos' = [m_rollback_pos EXCEPT ![w] = Len(buf)]
      /\ m_pos' = [m_pos EXCEPT ![w] = 0]
  BY DEF AddPacked, AddPackedThrows, MayAdd
<1>3. PICK payload \in Seq(Byte) : AppendSubmessage(tag, payload)
  <2>1. AllBytes(range) \in Seq(Byte) /\ TornPayloads(range) \subseteq Seq(Byte)
    BY InputsAssumption
  <2> QED  BY <2>1 DEF AddPacked, AddPackedThrows
<1>4. /\ buf' \in Seq(Byte) /\ Len(buf') <= MaxBuf /\ Len(buf) <= Len(buf')
      /\ \A i \in 1 .. Len(buf) : buf'[i] = buf[i]
  BY <1>1, <1>3, SubmessageFacts
<1>5. throws' \in 0 .. MaxThrows /\ outcome' \in Outcome
  BY <1>1, ThrowFacts, OutcomeFacts DEF AddPacked, AddPackedThrows
<1>6. /\ m_rollback_pos' \in [Writer -> 0 .. SizeIsKnown] /\ m_pos' \in [Writer -> 0 .. MaxBuf]
      /\ \A v \in Writer \ {w} : m_pos'[v] = m_pos[v] /\ m_rollback_pos'[v] = m_rollback_pos[v]
  BY <1>1, <1>2
<1>7. Legal(w)
  BY <1>2, MayUseIsLegal
<1>8. Inv'
  BY <1>1, <1>2, <1>4, <1>5, <1>6, <1>7, ExtendKeepsInv
<1> QED  BY <1>4, <1>8

LEMMA RollbackPosFacts ==
    ASSUME TypeOK, NEW size \in Nat
    PROVE  RollbackPos(size) \in 0 .. SizeIsKnown
<1>1. Len(buf) \in Nat /\ Len(buf) <= MaxBuf /\ MaxBuf \in Nat
  BY ConstantFacts, LenProperties DEF TypeOK
<1> QED  BY <1>1, ConstantFacts DEF RollbackPos

LEMMA OpenThrowsStep ==
    ASSUME Inv, NEW p \in Writer, NEW tag \in Tags, NEW size \in Sizes, OpenThrows(p, tag, size)
    PROVE  /\ Inv' /\ Len(buf) <= Len(buf')
           /\ \A i \in 1 .. Len(buf) : buf'[i] = buf[i]
<1>1. /\ TypeOK /\ size \in Nat
      /\ owed \in [Writer -> Nat] /\ torn \subseteq Writer \cup {NULL}
      /\ m_rollback_pos \in [Writer -> 0 .. SizeIsKnown] /\ m_pos \in [Writer -> 0 .. MaxBuf]
  BY InputsAssumption DEF Inv, TypeOK
<1> DEFINE header == SubmessageHeader(tag, size)
<1>2. header \in Seq(Byte) /\ Len(header) \in Nat
  BY <1>1, HeaderFacts, LenProperties
<1>3. PICK n \in 0 .. Len(header) : Grow(SubSeq(header, 1, n))
  BY DEF OpenThrows
<1> HIDE DEF header
<1>4. SubSeq(header, 1, n) \in Seq(Byte)
  <2>1. n \in Nat /\ n <= Len(header) /\ \A i \in 1 .. n : header[i] \in Byte
    BY <1>2, ElementOfSeq
  <2> QED  BY <1>2, <2>1, SubSeqProperties
<1>5. /\ buf' \in Seq(Byte) /\ Len(buf') <= MaxBuf /\ Len(buf) <= Len(buf')
      /\ \A i \in 1 .. Len(buf) : buf'[i] = buf[i]
  BY <1>1, <1>3, <1>4, GrowFacts
<1>6. /\ Legal(p) /\ Throw /\ torn' = torn \cup {p} /\ UNCHANGED <<links, m_pos, owed>>
      /\ m_rollback_pos' = [m_rollback_pos EXCEPT ![p] = RollbackPos(size)]
  BY MayUseIsLegal DEF OpenThrows, MayAdd, links
<1>7. /\ throws' \in 0 .. MaxThrows /\ outcome' \in Outcome
      /\ torn' \subseteq Writer \cup {NULL}
  BY <1>1, <1>6, ThrowFacts
<1>8. /\ m_rollback_pos' \in [Writer -> 0 .. SizeIsKnown] /\ m_pos' \in [Writer -> 0 .. MaxBuf]
      /\ \A v \in Writer \ {p} : m_pos'[v] = m_pos[v] /\ m_rollback_pos'[v] = m_rollback_pos[v]
  BY <1>1, <1>6, RollbackPosFacts
<1>9. Inv'
  BY <1>1, <1>5, <1>6, <1>7, <1>8, ExtendKeepsInv
<1> QED  BY <1>5, <1>9

LEMMA OpenStep ==
    ASSUME Inv, NEW p \in Writer, NEW c \in Writer, NEW tag \in Tags, NEW size \in Sizes,
           OpenSubmessage(p, c, tag, size)
    PROVE  /\ Inv' /\ Len(buf) <= Len(buf')
           /\ \A i \in 1 .. Len(buf) : buf'[i] = buf[i]
<1>1. TypeOK /\ size \in Nat /\ ReserveBytes \in Nat /\ MaxBuf \in Nat
  BY InputsAssumption, ConstantFacts DEF Inv
<1> DEFINE header == SubmessageHeader(tag, size)
           room == Room(size)
<1>2. header \in Seq(Byte) /\ Len(header) \in Nat /\ Len(header) >= 1
  BY <1>1, HeaderFacts, LenProperties
<1>3. /\ room \in Seq(Byte) /\ Len(room) \in Nat
      /\ size = 0 => Len(room) = ReserveBytes
  BY <1>1, ZerosFacts, EmptySeq, LenProperties DEF Room
<1>4. Grow(header \o room)
  BY DEF OpenSubmessage
<1> HIDE DEF header, room
<1>5. header \o room \in Seq(Byte) /\ Len(header \o room) = Len(header) + Len(room)
  BY <1>2, <1>3, AppendFacts
<1>6. /\ buf' \in Seq(Byte) /\ Len(buf') <= MaxBuf
      /\ Len(buf) <= Len(buf') /\ Len(buf) < Len(buf')
      /\ size = 0 => Len(buf) + ReserveBytes < Len(buf')
      /\ Len(buf) \in Nat /\ Len(buf') \in Nat
      /\ \A i \in 1 .. Len(buf) : buf'[i] = buf[i]
  <2>1. /\ buf' \in Seq(Byte) /\ Len(buf') <= MaxBuf /\ Len(buf) <= Len(buf')
        /\ Len(buf') = Len(buf) + Len(header \o room) /\ Len(buf) \in Nat
        /\ \A i \in 1 .. Len(buf) : buf'[i] = buf[i]
    BY <1>1, <1>4, <1>5, GrowFacts
  <2>2. Len(buf') = Len(buf) + (Len(header) + Len(room))
    BY <1>5, <2>1
  <2>3. /\ Len(buf') \in Nat /\ Len(buf) < Len(buf')
        /\ size = 0 => Len(buf) + ReserveBytes < Len(buf')
    BY <1>1, <1>2, <1>3, <2>1, <2>2
  <2> QED  BY <2>1, <2>3
<1>7. /\ Legal(p) /\ c \notin valid /\ p \in valid /\ c # p
      /\ m_rollback_pos' = [m_rollback_pos EXCEPT ![p] = RollbackPos(size), ![c] = 0]
      /\ m_pos' = [m_pos EXCEPT ![p] = Len(buf'), ![c] = 0]
      /\ m_parent_writer' = [m_parent_writer EXCEPT ![c] = p]
      /\ valid' = valid \cup {c} /\ owed' = [owed EXCEPT ![c] = size]
      /\ outcome' = "ok" /\ torn' = torn /\ throws' = throws
  BY MayUseIsLegal DEF OpenSubmessage, MayAdd, Legal
<1>8. RollbackPos(size) \in 0 .. SizeIsKnown
  BY <1>1, RollbackPosFacts
<1>9. TypeOK'
  <2>1. /\ valid' \subseteq Writer /\ m_parent_writer' \in [Writer -> valid' \cup {NULL}]
        /\ \A w \in Writer \ valid' : m_parent_writer'[w] = NULL
        /\ owed' \in [Writer -> Nat] /\ torn' \subseteq Writer \cup {NULL}
        /\ throws' \in 0 .. MaxThrows /\ outcome' \in Outcome
    BY <1>1, <1>7, OutcomeFacts DEF TypeOK
  <2>2. m_rollback_pos' \in [Writer -> 0 .. SizeIsKnown]
    <3>1. m_rollback_pos \in [Writer -> 0 .. SizeIsKnown] /\ 0 \in 0 .. SizeIsKnown
      BY <1>1, ConstantFacts DEF TypeOK
    <3> QED  BY <1>7, <1>8, <3>1
  <2>3. m_pos' \in [Writer -> 0 .. MaxBuf]
    <3>1. m_pos \in [Writer -> 0 .. MaxBuf] /\ MaxBuf \in Nat
      BY <1>1, ConstantFacts DEF TypeOK
    <3>2. Len(buf') \in 0 .. MaxBuf /\ 0 \in 0 .. MaxBuf
      BY <1>6, <3>1
    <3> QED  BY <1>7, <3>1, <3>2
  <2> QED  BY <1>6, <2>1, <2>2, <2>3 DEF TypeOK, SizeIsKnown
<1>10. /\ m_pos'[p] = Len(buf') /\ m_rollback_pos'[p] = RollbackPos(size)
       /\ \A v \in Writer \ {p, c} : m_pos'[v] = m_pos[v] /\ m_rollback_pos'[v] = m_rollback_pos[v]
  BY <1>1, <1>7 DEF TypeOK
<1>11. \/ m_rollback_pos'[p] = SizeIsKnown
       \/ m_rollback_pos'[p] = Len(buf) /\ Len(buf) + ReserveBytes < Len(buf')
  BY <1>6, <1>10 DEF RollbackPos
<1>12. Nesting'
  BY <1>6, <1>7, <1>9, <1>10, <1>11, OpenKeepsNesting
<1> QED  BY <1>6, <1>9, <1>12 DEF Inv

\* What the end of the innermost writer c, a child of p, keeps of the string.
PrefixOf(p) ==
    \/ buf' = buf
    \/ /\ m_rollback_pos[p] # SizeIsKnown /\ m_rollback_pos[p] <= Len(buf')
       /\ \A i \in 1 .. m_rollback_pos[p] : buf'[i] = buf[i]

\* commit(), rollback() and the destructor of a submessage's writer.
LEMMA CloseStep ==
    ASSUME Inv, NEW c \in Writer, m_parent_writer[c] # NULL,
           Commit(c) \/ Rollback(c) \/ Destroy(c)
    PROVE  Inv' /\ Legal(c) /\ PrefixOf(m_parent_writer[c])
<1> DEFINE p == m_parent_writer[c]
<1>1. /\ TypeOK /\ p \in Writer /\ HasChild(p) /\ MaxBuf \in Nat /\ 0 \in 0 .. SizeIsKnown
      /\ valid \subseteq Writer
      /\ m_parent_writer \in [Writer -> valid \cup {NULL}]
      /\ \A w \in Writer \ valid : m_parent_writer[w] = NULL
      /\ m_rollback_pos \in [Writer -> 0 .. SizeIsKnown] /\ m_pos \in [Writer -> 0 .. MaxBuf]
      /\ owed \in [Writer -> Nat] /\ torn \subseteq Writer \cup {NULL}
      /\ throws \in 0 .. MaxThrows
  <2>1. TypeOK
    BY DEF Inv
  <2>2. p \in Writer /\ HasChild(p)
    BY <2>1, StartFacts
  <2>3. MaxBuf \in Nat /\ 0 \in 0 .. SizeIsKnown
    BY ConstantFacts
  <2> QED  BY <2>1, <2>2, <2>3 DEF TypeOK
<1>2. Legal(c)
  BY MayUseIsLegal DEF Commit, Rollback, Destroy
<1>3. /\ buf' \in Seq(Byte) /\ Len(buf') <= MaxBuf /\ PrefixOf(p)
      /\ PosAfterClose(p) \in 0 .. MaxBuf
  <2>1. CASE buf' = BufAfterClose(p)
    BY <1>1, <2>1, CloseFacts DEF PrefixOf
  <2>2. CASE Rollback(c)
    <3>1. m_rollback_pos[p] # SizeIsKnown /\ buf' = Abandoned(buf, m_rollback_pos[p])
      BY <2>2 DEF Rollback, Sized
    <3>2. PosAfterClose(p) \in 0 .. MaxBuf
      BY <1>1 DEF PosAfterClose
    <3> QED  BY <1>1, <3>1, <3>2, RollbackFacts DEF PrefixOf
  <2> QED  BY <2>1, <2>2 DEF Commit, Destroy
<1>4. /\ m_parent_writer' = [m_parent_writer EXCEPT ![c] = NULL]
      /\ valid' = valid \ {c} /\ owed' = [owed EXCEPT ![c] = 0]
      /\ outcome' = "ok" /\ throws' = throws /\ torn' \subseteq torn \cup {NULL}
  BY DEF Commit, Rollback, Destroy, Invalidate
<1> HIDE DEF p
<1>5. /\ m_pos' \in [Writer -> 0 .. MaxBuf] /\ m_rollback_pos' \in [Writer -> 0 .. SizeIsKnown]
      /\ \A v \in Writer \ {p, c} :
            m_pos'[v] = m_pos[v] /\ m_rollback_pos'[v] = m_rollback_pos[v]
  <2>1. \E n \in 0 .. MaxBuf :
            m_pos' = [m_pos EXCEPT ![p] = n] \/ m_pos' = [m_pos EXCEPT ![p] = n, ![c] = 0]
    BY <1>1, <1>3 DEF Commit, Rollback, Destroy, p
  <2>2. m_rollback_pos' = m_rollback_pos \/ m_rollback_pos' = [m_rollback_pos EXCEPT ![c] = 0]
    BY DEF Commit, Rollback, Destroy
  <2> QED  BY <1>1, <2>1, <2>2
<1>6. TypeOK'
  <2>1. m_parent_writer' \in [Writer -> valid' \cup {NULL}]
    <3>1. \A v \in Writer : m_parent_writer[v] # c
      BY <1>2 DEF Legal, Children
    <3> QED  BY <1>1, <1>4, <3>1
  <2>2. \A w \in Writer \ valid' : m_parent_writer'[w] = NULL
    BY <1>1, <1>4
  <2>3. /\ owed' \in [Writer -> Nat] /\ outcome' \in Outcome /\ valid' \subseteq Writer
        /\ torn' \subseteq Writer \cup {NULL} /\ throws' \in 0 .. MaxThrows
    BY <1>1, <1>4, OutcomeFacts
  <2> QED  BY <1>3, <1>5, <2>1, <2>2, <2>3 DEF TypeOK, SizeIsKnown
<1>7. \/ Len(buf') = Len(buf)
      \/ m_rollback_pos[p] # SizeIsKnown /\ m_rollback_pos[p] <= Len(buf')
  BY <1>3 DEF PrefixOf
<1>8. p = m_parent_writer[c]
  BY DEF p
<1>9. Nesting'
  BY <1>1, <1>2, <1>4, <1>5, <1>6, <1>7, <1>8, CloseKeepsNesting
<1> QED  BY <1>2, <1>3, <1>6, <1>8, <1>9 DEF Inv

\* The outermost writer begins and ends.
LEMMA RootStep ==
    ASSUME Inv, NEW w \in Writer,
           Construct(w) \/ (Destroy(w) /\ m_parent_writer[w] = NULL)
    PROVE  Inv' /\ buf' = buf
<1>1. /\ TypeOK /\ valid \subseteq Writer /\ 0 \in 0 .. MaxBuf /\ 0 \in 0 .. SizeIsKnown
      /\ m_parent_writer \in [Writer -> valid \cup {NULL}]
      /\ \A v \in Writer \ valid : m_parent_writer[v] = NULL
      /\ m_rollback_pos \in [Writer -> 0 .. SizeIsKnown] /\ m_pos \in [Writer -> 0 .. MaxBuf]
      /\ owed \in [Writer -> Nat] /\ torn \subseteq Writer \cup {NULL}
      /\ throws \in 0 .. MaxThrows
  BY SMTT(30), ConstantFacts DEF Inv, TypeOK
<1>2. /\ buf' = buf /\ outcome' = "ok" /\ throws' = throws
      /\ torn' \subseteq Writer \cup {NULL}
      /\ m_rollback_pos' = [m_rollback_pos EXCEPT ![w] = 0]
      /\ m_pos' = [m_pos EXCEPT ![w] = 0]
  BY <1>1 DEF Construct, Destroy
<1>3. valid = {} \/ valid = {w}
  <2>1. CASE Destroy(w) /\ m_parent_writer[w] = NULL
    <3>1. Legal(w) /\ Start(w) = 0 /\ w \in valid
      BY <1>1, <2>1, StartFacts DEF Destroy, Legal
    <3>2. \A v \in valid \ {w} : FALSE
      <4> SUFFICES ASSUME NEW v \in valid \ {w} PROVE FALSE
        OBVIOUS
      <4>1. HasChild(v) /\ m_pos[v] <= 0
        BY <3>1, LeafIsEnclosed
      <4>2. 0 < m_pos[v] /\ m_pos[v] \in Nat
        BY <1>1, <4>1, ParentFacts
      <4> QED  BY <4>1, <4>2
    <3> QED  BY <3>1, <3>2
  <2> QED  BY <2>1 DEF Construct
<1>4. \A v \in Writer : m_parent_writer[v] = NULL
  <2>1. ASSUME valid = {w}, NEW v \in Writer, m_parent_writer[v] # NULL PROVE FALSE
    <3>1. m_parent_writer[v] = w /\ v = w
      BY <1>1, <2>1
    <3>2. Children(w) = {}
      BY <2>1 DEF Construct, Destroy, Legal
    <3> QED  BY <3>1, <3>2 DEF Children
  <2> QED  BY <1>1, <1>3, <2>1
<1>5. /\ m_parent_writer' = m_parent_writer
      /\ valid' = {w} \/ valid' = {}
      /\ owed' \in [Writer -> Nat]
  <2>1. CASE Construct(w)
    BY <1>1, <2>1 DEF Construct
  <2>2. CASE Destroy(w)
    <3>1. /\ m_parent_writer' = [m_parent_writer EXCEPT ![w] = NULL]
          /\ valid' = valid \ {w} /\ owed' = [owed EXCEPT ![w] = 0]
      BY <2>2 DEF Destroy
    <3> QED  BY <1>1, <1>3, <1>4, <3>1
  <2> QED  BY <2>1, <2>2
<1>6. TypeOK'
  <2>1. /\ m_rollback_pos' \in [Writer -> 0 .. SizeIsKnown] /\ m_pos' \in [Writer -> 0 .. MaxBuf]
        /\ m_parent_writer' \in [Writer -> valid' \cup {NULL}] /\ valid' \subseteq Writer
        /\ \A v \in Writer \ valid' : m_parent_writer'[v] = NULL
    BY <1>1, <1>2, <1>4, <1>5
  <2> QED  BY <1>1, <1>2, <1>5, <2>1, OutcomeFacts DEF TypeOK, SizeIsKnown
<1>7. Nesting'
  <2>1. \A v \in Writer : ~HasChild(v)'
    BY <1>4, <1>5, WritersAssumption DEF HasChild, Children
  <2> QED  BY <1>5, <2>1 DEF Nesting
<1> QED  BY <1>2, <1>6, <1>7 DEF Inv

LEMMA RenameStep ==
    ASSUME Inv, NEW v \in Writer, NEW w \in Writer, Move(v, w) \/ Swap(v, w)
    PROVE  Inv' /\ buf' = buf
<1>1. /\ TypeOK /\ valid \subseteq Writer /\ 0 \in 0 .. MaxBuf /\ 0 \in 0 .. SizeIsKnown
      /\ m_parent_writer \in [Writer -> valid \cup {NULL}]
      /\ \A u \in Writer \ valid : m_parent_writer[u] = NULL
      /\ m_rollback_pos \in [Writer -> 0 .. SizeIsKnown] /\ m_pos \in [Writer -> 0 .. MaxBuf]
      /\ owed \in [Writer -> Nat] /\ torn \subseteq Writer \cup {NULL}
      /\ throws \in 0 .. MaxThrows
  BY SMTT(30), ConstantFacts DEF Inv, TypeOK
<1>2. /\ Legal(v) /\ w \notin valid /\ buf' = buf /\ outcome' = "ok" /\ throws' = throws
      /\ valid' = (valid \ {v}) \cup {w}
      /\ m_parent_writer' = [m_parent_writer EXCEPT ![w] = m_parent_writer[v], ![v] = NULL]
      /\ owed' = [owed EXCEPT ![w] = owed[v], ![v] = 0]
      /\ torn' = Renamed(v, w)
  BY DEF Move, Swap
<1>3. \A u \in Writer : m_parent_writer[u] # v /\ m_parent_writer[u] # w
  BY <1>1, <1>2, WritersAssumption DEF Legal, Children
<1>4. /\ m_rollback_pos' \in [Writer -> 0 .. SizeIsKnown] /\ m_pos' \in [Writer -> 0 .. MaxBuf]
      /\ \A u \in Writer \ {v, w} : m_pos'[u] = m_pos[u] /\ m_rollback_pos'[u] = m_rollback_pos[u]
  <2>1. CASE Move(v, w)
    BY <1>1, <2>1 DEF Move
  <2>2. CASE Swap(v, w)
    BY <1>1, <2>2 DEF Swap
  <2> QED  BY <2>1, <2>2
<1>5. TypeOK'
  <2>1. m_parent_writer' \in [Writer -> valid' \cup {NULL}]
    <3>1. \A u \in Writer : m_parent_writer[u] \in valid' \cup {NULL}
      BY <1>1, <1>2, <1>3
    <3> QED  BY <1>1, <1>2, <3>1
  <2>2. \A u \in Writer \ valid' : m_parent_writer'[u] = NULL
    BY <1>1, <1>2
  <2>3. owed' \in [Writer -> Nat] /\ valid' \subseteq Writer /\ torn' \subseteq Writer \cup {NULL}
    BY <1>1, <1>2 DEF Renamed
  <2> QED  BY <1>1, <1>2, <1>4, <2>1, <2>2, <2>3, OutcomeFacts DEF TypeOK, SizeIsKnown
<1>6. Nesting'
  BY <1>2, <1>4, <1>5, RenameKeepsNesting
<1> QED  BY <1>2, <1>5, <1>6 DEF Inv

\* Calls that only report something.
LEMMA ReportStep ==
    ASSUME Inv, outcome' \in Outcome,
           UNCHANGED <<buf, valid, m_parent_writer, m_rollback_pos, m_pos, owed, torn, throws>>
    PROVE  Inv' /\ buf' = buf
<1>1. TypeOK'
  BY DEF Inv, TypeOK, SizeIsKnown
<1>2. Nesting'
  BY DEF Inv, Nesting, Framed, Encloses, HasChild, Children, Start, SizeIsKnown
<1> QED  BY <1>1, <1>2 DEF Inv

-----------------------------------------------------------------------------
(* Which bytes a step can change.                                           *)

LEMMA RollbackInString ==
    ASSUME Inv, NEW c \in Writer, m_parent_writer[c] # NULL, ~Sized(c)
    PROVE  /\ m_rollback_pos[m_parent_writer[c]] \in Nat
           /\ m_rollback_pos[m_parent_writer[c]] <= m_pos[m_parent_writer[c]]
           /\ m_rollback_pos[m_parent_writer[c]] <= Len(buf)
<1> DEFINE p == m_parent_writer[c]
<1>1. /\ p \in Writer /\ HasChild(p) /\ m_rollback_pos[p] # SizeIsKnown
      /\ ReserveBytes \in Nat /\ Len(buf) \in Nat
  BY StartFacts, ConstantFacts DEF Inv, Sized
<1>2. m_pos[p] \in Nat /\ m_rollback_pos[p] \in Nat
  BY <1>1, StartFacts DEF Inv
<1> QED  BY <1>1, <1>2, ParentFacts DEF Framed

LEMMA AppendIsUntouched ==
    ASSUME Inv, Len(buf) <= Len(buf'), Len(buf') \in Nat,
           \A i \in 1 .. Len(buf) : buf'[i] = buf[i]
    PROVE  UntouchedStep
<1> SUFFICES ASSUME NEW c \in Writer, m_parent_writer[c] # NULL, ~Sized(c)
             PROVE  /\ m_rollback_pos[m_parent_writer[c]] <= Len(buf')
                    /\ \A n \in 1 .. m_rollback_pos[m_parent_writer[c]] : buf'[n] = buf[n]
  BY DEF UntouchedStep
<1>1. Len(buf) \in Nat
  BY StartFacts DEF Inv
<1> QED  BY <1>1, RollbackInString

LEMMA CloseIsUntouched ==
    ASSUME Inv, NEW c \in Writer, Legal(c), m_parent_writer[c] # NULL,
           PrefixOf(m_parent_writer[c])
    PROVE  UntouchedStep
<1> DEFINE p == m_parent_writer[c]
<1>1. p \in Writer /\ HasChild(p) /\ Len(buf) \in Nat
      /\ m_rollback_pos[p] \in Nat /\ Start(p) \in Nat
  BY StartFacts DEF Inv
<1> SUFFICES ASSUME NEW d \in Writer, m_parent_writer[d] # NULL, ~Sized(d)
             PROVE  /\ m_rollback_pos[m_parent_writer[d]] <= Len(buf')
                    /\ \A n \in 1 .. m_rollback_pos[m_parent_writer[d]] : buf'[n] = buf[n]
  BY DEF UntouchedStep
<1> DEFINE q == m_parent_writer[d]
<1>2. /\ q \in valid /\ q # c
      /\ m_rollback_pos[q] \in Nat /\ m_rollback_pos[q] <= Len(buf)
      /\ m_rollback_pos[q] <= m_pos[q]
  BY RollbackInString, StartFacts DEF Inv, Legal, Children
<1>3. CASE buf' = buf
  BY <1>2, <1>3
<1>4. CASE buf' # buf
  <2>1. /\ m_rollback_pos[p] # SizeIsKnown /\ m_rollback_pos[p] <= Len(buf')
        /\ \A i \in 1 .. m_rollback_pos[p] : buf'[i] = buf[i]
    BY <1>4 DEF PrefixOf
  <2>2. CASE q = p
    BY <2>1, <2>2
  <2>3. CASE q # p
    <3>1. m_pos[q] <= Start(p) /\ m_pos[q] \in Nat
      BY <1>1, <1>2, <2>3, OtherAncestors
    <3>2. Start(p) <= m_rollback_pos[p]
      BY <1>1, <2>1, ParentFacts DEF Framed
    <3>3. m_rollback_pos[q] <= m_rollback_pos[p]
      BY <1>1, <1>2, <3>1, <3>2
    <3>4. \A n \in 1 .. m_rollback_pos[q] : n \in 1 .. m_rollback_pos[p]
      BY <1>1, <1>2, <3>3
    <3>5. Len(buf') \in Nat \/ m_rollback_pos[q] <= Len(buf')
      BY <2>1, <3>3, <1>1, <1>2
    <3> QED  BY <1>1, <1>2, <2>1, <3>3, <3>4, <3>5
  <2> QED  BY <2>2, <2>3
<1> QED  BY <1>3, <1>4

-----------------------------------------------------------------------------
(* The theorems.                                                            *)

LEMMA InitInv == Init => Inv
<1> SUFFICES ASSUME Init PROVE Inv
  OBVIOUS
<1>1. TypeOK
  BY EmptySeq, OutcomeFacts, ConstantFacts, WritersAssumption, LenProperties DEF Init, TypeOK
<1>2. Nesting
  BY WritersAssumption DEF Init, Nesting, HasChild, Children
<1> QED  BY <1>1, <1>2 DEF Inv

LEMMA NextInv ==
    ASSUME Inv, [Next]_vars
    PROVE  Inv' /\ UntouchedStep
<1>1. ASSUME Inv', Len(buf) <= Len(buf'), \A i \in 1 .. Len(buf) : buf'[i] = buf[i]
      PROVE  UntouchedStep
  <2>1. Len(buf') \in Nat
    BY <1>1, LenProperties DEF Inv, TypeOK
  <2> QED  BY <1>1, <2>1, AppendIsUntouched
<1>2. ASSUME Inv', buf' = buf PROVE UntouchedStep
  <2>1. Len(buf) <= Len(buf)
    BY StartFacts, LenProperties DEF Inv, TypeOK
  <2> QED  BY <1>1, <1>2, <2>1
<1>3. CASE UNCHANGED vars
  <2>1. Inv' /\ buf' = buf
    BY <1>3, ReportStep DEF vars, Inv, TypeOK
  <2> QED  BY <1>2, <2>1
<1>4. ASSUME NEW w \in Writer, Construct(w) PROVE Inv' /\ UntouchedStep
  BY <1>2, <1>4, RootStep
<1>5. ASSUME NEW w \in Writer, Destroy(w) \/ Commit(w) \/ Rollback(w)
      PROVE  Inv' /\ UntouchedStep
  <2>1. CASE m_parent_writer[w] = NULL
    <3>1. Destroy(w)
      BY <1>5, <2>1 DEF Commit, Rollback
    <3> QED  BY <1>2, <2>1, <3>1, RootStep
  <2>2. CASE m_parent_writer[w] # NULL
    BY <1>5, <2>2, CloseStep, CloseIsUntouched
  <2> QED  BY <2>1, <2>2
<1>6. ASSUME NEW p \in Writer, NEW c \in Writer, NEW tag \in Tags, NEW size \in Sizes,
             OpenSubmessage(p, c, tag, size)
      PROVE  Inv' /\ UntouchedStep
  BY <1>1, <1>6, OpenStep
<1>7. ASSUME NEW p \in Writer, NEW tag \in Tags, NEW size \in Sizes, OpenThrows(p, tag, size)
      PROVE  Inv' /\ UntouchedStep
  BY <1>1, <1>7, OpenThrowsStep
<1>8. ASSUME NEW v \in Writer, NEW w \in Writer, Move(v, w) \/ Swap(v, w)
      PROVE  Inv' /\ UntouchedStep
  BY <1>2, <1>8, RenameStep
<1>9. ASSUME NEW w \in Writer,
             \/ \E f \in Fields : AddField(w, f) \/ AddFieldThrows(w, f)
             \/ \E e \in Elements : AddElement(w, e) \/ AddElementThrows(w, e)
             \/ \E tag \in Tags, range \in FixedRanges :
                  AddPackedFixed(w, tag, range) \/ AddPackedFixedThrows(w, tag, range)
      PROVE  Inv' /\ UntouchedStep
  BY <1>1, <1>9, AddStep
<1>10. ASSUME NEW w \in Writer, NEW tag \in Tags, NEW range \in PackedRanges,
              AddPacked(w, tag, range) \/ AddPackedThrows(w, tag, range)
       PROVE  Inv' /\ UntouchedStep
  BY <1>1, <1>10, AddPackedStep
<1>11. ASSUME outcome' \in Outcome,
              UNCHANGED <<buf, valid, m_parent_writer, m_rollback_pos, m_pos, owed, torn, throws>>
       PROVE  Inv' /\ UntouchedStep
  <2>1. Inv' /\ buf' = buf
    BY <1>11, ReportStep
  <2> QED  BY <1>2, <2>1
<1>12. ASSUME NEW w \in Writer, RollbackSized(w) \/ AddEmptyRange(w)
       PROVE  Inv' /\ UntouchedStep
  BY <1>11, <1>12, OutcomeFacts DEF RollbackSized, AddEmptyRange, links
<1>13. ASSUME NEW w \in Writer,
              \/ \E tag \in Tags : AddAborts(w, tag)
              \/ AddElementAborts(w) \/ CloseAborts(w)
       PROVE  Inv' /\ UntouchedStep
  <2>1. PICK how \in Aborted : Abort(how)
    BY <1>13 DEF AddAborts, AddElementAborts, CloseAborts, Blame, Aborted
  <2> QED  BY <1>11, <2>1, OutcomeFacts DEF Abort, links
<1> QED  BY <1>3, <1>4, <1>5, <1>6, <1>7, <1>8, <1>9, <1>10, <1>12, <1>13 DEF Next

\* Every reachable state is well typed and its open writers are nested.
THEOREM Invariance == Spec => []Inv
BY InitInv, NextInv, PTL DEF Spec

\* The members of every writer keep their types: positions stay inside the
\* string or are size_is_known, and no m_parent_writer dangles, for every
\* number of writers and every interleaving of their calls.
THEOREM TypeCorrect == Spec => []TypeOK
<1>1. Inv => TypeOK
  BY DEF Inv
<1> QED  BY <1>1, Invariance, PTL

\* Open writers form one chain, and each parent's positions frame the header
\* of its open submessage, in either build and whatever throws.
THEOREM NestingHolds == Spec => []Nesting
<1>1. Inv => Nesting
  BY DEF Inv
<1> QED  BY <1>1, Invariance, PTL

\* No call changes the bytes in front of the rollback position of any open
\* submessage: what commit() erases and rollback() cuts off is behind it.
THEOREM PrefixUntouched == Spec => UntouchedPrefix
<1>1. Inv /\ [Next]_vars => [UntouchedStep]_vars
  BY NextInv
<1> QED  BY <1>1, Invariance, PTL DEF Spec, UntouchedPrefix

-----------------------------------------------------------------------------
(* Without submessages of announced size, a writer that has no submessage    *)
(* open has forgotten m_pos, which is what the assertions look at.           *)

Resting ==
    \A w \in Writer : (HasChild(w) \/ m_pos[w] = 0) /\ m_rollback_pos[w] # SizeIsKnown

LEMMA LengthIsNoSize == ASSUME TypeOK PROVE Len(buf) # SizeIsKnown /\ 0 # SizeIsKnown
BY ConstantFacts, LenProperties, BoundAssumption DEF TypeOK, SizeIsKnown

\* What is left to show of a step.
LEMMA RestingKept ==
    ASSUME Resting,
           \A w \in Writer : HasChild(w) => HasChild(w)' \/ m_pos'[w] = 0,
           \A w \in Writer : m_pos'[w] \in {0, m_pos[w]} \/ HasChild(w)',
           \A w \in Writer : m_rollback_pos'[w] # SizeIsKnown
    PROVE  Resting'
BY DEF Resting, SizeIsKnown

\* The steps that neither open nor close a submessage.
LEMMA RestingLinks ==
    ASSUME Inv, Resting, NEW w \in Writer, UNCHANGED m_parent_writer,
           m_pos' \in {m_pos, [m_pos EXCEPT ![w] = 0]},
           \E n \in {0, Len(buf)} :
                m_rollback_pos' \in {m_rollback_pos, [m_rollback_pos EXCEPT ![w] = n]}
    PROVE  Resting'
<1>1. \A v \in Writer : HasChild(v)' <=> HasChild(v)
  BY DEF HasChild, Children
<1>2. \A v \in Writer : m_pos'[v] \in {0, m_pos[v]}
  BY DEF Inv, TypeOK
<1>3. \A v \in Writer : m_rollback_pos'[v] # SizeIsKnown
  BY LengthIsNoSize DEF Inv, TypeOK, Resting
<1> QED  BY <1>1, <1>2, <1>3, RestingKept

LEMMA RestingOpen ==
    ASSUME Inv, Resting, NEW p \in Writer, NEW c \in Writer, NEW tag \in Tags,
           OpenSubmessage(p, c, tag, 0)
    PROVE  Resting'
<1>1. /\ m_parent_writer' = [m_parent_writer EXCEPT ![c] = p] /\ c \notin valid
      /\ m_pos' = [m_pos EXCEPT ![p] = Len(buf'), ![c] = 0]
      /\ m_rollback_pos' = [m_rollback_pos EXCEPT ![p] = Len(buf), ![c] = 0]
  BY DEF OpenSubmessage, RollbackPos
<1>2. m_parent_writer[c] = NULL
  BY <1>1 DEF Inv, TypeOK
<1>3. \A w \in Writer : HasChild(w) => HasChild(w)'
  BY <1>1, <1>2, WritersAssumption DEF HasChild, Children, Inv, TypeOK
<1>4. HasChild(p)'
  BY <1>1 DEF HasChild, Children, Inv, TypeOK
<1>5. \A w \in Writer : m_pos'[w] \in {0, m_pos[w]} \/ HasChild(w)'
  BY <1>1, <1>4 DEF Inv, TypeOK
<1>6. \A w \in Writer : m_rollback_pos'[w] # SizeIsKnown
  BY <1>1, LengthIsNoSize DEF Inv, TypeOK, Resting
<1> QED  BY <1>3, <1>5, <1>6, RestingKept

LEMMA RestingClose ==
    ASSUME Inv, Resting, NEW c \in Writer, m_parent_writer[c] # NULL,
           Destroy(c) \/ Commit(c) \/ Rollback(c)
    PROVE  Resting'
<1> DEFINE p == m_parent_writer[c]
<1>1. p \in Writer
  BY StartFacts DEF Inv
<1>2. PosAfterClose(p) = 0
  BY <1>1 DEF PosAfterClose, NothingToClose, Resting
<1>3. /\ m_parent_writer' = [m_parent_writer EXCEPT ![c] = NULL]
      /\ m_pos' \in {[m_pos EXCEPT ![p] = 0], [m_pos EXCEPT ![p] = 0, ![c] = 0]}
      /\ m_rollback_pos' \in {m_rollback_pos, [m_rollback_pos EXCEPT ![c] = 0]}
  BY <1>2 DEF Destroy, Commit, Rollback, Invalidate
<1>4. \A w \in Writer : m_pos'[w] \in {0, m_pos[w]} /\ m_pos'[p] = 0
  BY <1>1, <1>3 DEF Inv, TypeOK
<1>5. \A w \in Writer : HasChild(w) => HasChild(w)' \/ w = p
  BY <1>1, <1>3 DEF HasChild, Children, Inv, TypeOK
<1>6. \A w \in Writer : m_rollback_pos'[w] # SizeIsKnown
  BY <1>3, LengthIsNoSize DEF Inv, TypeOK, Resting
<1> QED  BY <1>4, <1>5, <1>6, RestingKept

LEMMA RestingRename ==
    ASSUME Inv, Resting, NEW v \in Writer, NEW w \in Writer, Move(v, w) \/ Swap(v, w)
    PROVE  Resting'
<1>1. /\ Legal(v) /\ w \notin valid /\ v # w
      /\ m_parent_writer' = [m_parent_writer EXCEPT ![w] = m_parent_writer[v], ![v] = NULL]
  BY DEF Move, Swap, Legal
<1>2. m_parent_writer[w] = NULL /\ ~HasChild(w) /\ ~HasChild(v)
  BY <1>1, ParentFacts DEF Inv, TypeOK, Legal, HasChild
<1>3. m_pos[v] = 0 /\ m_pos[w] = 0
  BY <1>2 DEF Resting
<1> DEFINE mine == m_rollback_pos[v]
           other == m_rollback_pos[w]
<1>4. /\ m_pos' \in {[m_pos EXCEPT ![w] = m_pos[v], ![v] = 0],
                     [m_pos EXCEPT ![w] = m_pos[v], ![v] = m_pos[w]]}
      /\ m_rollback_pos' \in {[m_rollback_pos EXCEPT ![w] = mine, ![v] = 0],
                              [m_rollback_pos EXCEPT ![w] = mine, ![v] = other]}
  BY DEF Move, Swap
<1>5. /\ \A u \in Writer : m_pos'[u] \in {0, m_pos[u]}
      /\ \A u \in Writer : m_rollback_pos'[u] # SizeIsKnown
  <2>1. /\ DOMAIN m_pos = Writer /\ DOMAIN m_rollback_pos = Writer
        /\ 0 # SizeIsKnown /\ mine # SizeIsKnown /\ other # SizeIsKnown
        /\ \A u \in Writer : m_rollback_pos[u] # SizeIsKnown
    BY LengthIsNoSize DEF Inv, TypeOK, Resting
  <2> HIDE DEF mine, other
  <2>2. \A u \in Writer : m_pos'[u] \in {0, m_pos[u]}
    BY <1>3, <1>4, <2>1
  <2>3. \A u \in Writer : m_rollback_pos'[u] # SizeIsKnown
    BY <1>4, <2>1
  <2> QED  BY <2>2, <2>3
<1>6. ASSUME NEW u \in Writer, HasChild(u) PROVE HasChild(u)'
  <2>1. PICK x \in Writer : m_parent_writer[x] = u
    BY <1>6 DEF HasChild, Children
  <2>2. x # w
    BY <1>2, <2>1, WritersAssumption
  <2>3. CASE x = v
    BY <1>1, <2>1, <2>3 DEF HasChild, Children, Inv, TypeOK
  <2>4. CASE x # v
    BY <1>1, <2>1, <2>2, <2>4 DEF HasChild, Children, Inv, TypeOK
  <2> QED  BY <2>3, <2>4
<1> QED  BY <1>5, <1>6, RestingKept

\* The assertions blame no legal call, and no other step reports one.
LEMMA BlamesNoLegalCall ==
    ASSUME Inv, Resting, NoSpuriousAssert, [Next]_vars
    PROVE  NoSpuriousAssert'
<1>1. ASSUME NEW w \in Writer, Legal(w) PROVE AssertsHold(w)
  BY <1>1 DEF Legal, AssertsHold, Resting, HasChild
<1>2. ASSUME NEW w \in Writer PROVE ~Sized(w)
  BY StartFacts DEF Sized, Resting, Inv
<1>3. ASSUME NEW w \in Writer, NEW tag, AddAborts(w, tag) PROVE outcome' # "assert_on_legal_call"
  BY <1>1, <1>3 DEF AddAborts, Abort, Blame
<1>4. ASSUME NEW w \in Writer, AddElementAborts(w) PROVE outcome' # "assert_on_legal_call"
  BY <1>1, <1>4 DEF AddElementAborts, Abort, Blame
<1>5. ASSUME NEW w \in Writer, CloseAborts(w) PROVE outcome' # "assert_on_legal_call"
  BY <1>1, <1>2, <1>5 DEF CloseAborts, Abort, Blame, AssertsHold
<1>6. ASSUME NEW w \in Writer,
             \/ Construct(w) \/ Destroy(w) \/ Commit(w) \/ Rollback(w) \/ RollbackSized(w)
             \/ AddEmptyRange(w)
      PROVE  outcome' \in {"ok", "length_error"}
  BY <1>6 DEF Construct, Destroy, Commit, Rollback, RollbackSized, AddEmptyRange
<1>7. ASSUME NEW p, NEW c, NEW tag, NEW size,
             OpenSubmessage(p, c, tag, size) \/ OpenThrows(p, tag, size)
      PROVE  outcome' \in {"ok", "bad_alloc"}
  BY <1>7 DEF OpenSubmessage, OpenThrows, Throw
<1>8. ASSUME NEW v, NEW w, Move(v, w) \/ Swap(v, w)
      PROVE  outcome' = "ok"
  BY <1>8 DEF Move, Swap
<1>9. ASSUME NEW w, NEW x, AddField(w, x) \/ AddFieldThrows(w, x)
      PROVE  outcome' \in {"ok", "bad_alloc"}
  BY <1>9 DEF AddField, AddFieldThrows, Throw
<1>10. ASSUME NEW w, NEW x, AddElement(w, x) \/ AddElementThrows(w, x)
       PROVE  outcome' \in {"ok", "bad_alloc"}
  BY <1>10 DEF AddElement, AddElementThrows, Throw
<1>11. ASSUME NEW w, NEW tag, NEW range,
              AddPackedFixed(w, tag, range) \/ AddPackedFixedThrows(w, tag, range)
       PROVE  outcome' \in {"ok", "bad_alloc"}
  BY <1>11 DEF AddPackedFixed, AddPackedFixedThrows, Throw
<1>12. ASSUME NEW w, NEW tag, NEW range,
              AddPacked(w, tag, range) \/ AddPackedThrows(w, tag, range)
       PROVE  outcome' \in {"ok", "bad_alloc"}
  BY <1>12 DEF AddPacked, AddPackedThrows, Throw
<1>13. CASE UNCHANGED vars
  BY <1>13 DEF vars, NoSpuriousAssert
<1> QED  BY <1>3, <1>4, <1>5, <1>6, <1>7, <1>8, <1>9, <1>10, <1>11, <1>12, <1>13
         DEF Next, NoSpuriousAssert

LEMMA NextResting ==
    ASSUME Sizes = {0}, Inv, Resting, [Next]_vars
    PROVE  Resting'
<1>1. ASSUME NEW w \in Writer, Construct(w) PROVE Resting'
  BY <1>1, RestingLinks DEF Construct
<1>2. ASSUME NEW w \in Writer, Destroy(w) \/ Commit(w) \/ Rollback(w) PROVE Resting'
  <2>1. CASE m_parent_writer[w] = NULL
    <3>1. Destroy(w)
      BY <1>2, <2>1 DEF Commit, Rollback
    <3>2. m_parent_writer' = m_parent_writer
      BY <2>1, <3>1 DEF Destroy, Inv, TypeOK
    <3> QED  BY <2>1, <3>1, <3>2, RestingLinks DEF Destroy
  <2>2. CASE m_parent_writer[w] # NULL
    BY <1>2, <2>2, RestingClose
  <2> QED  BY <2>1, <2>2
<1>3. ASSUME NEW p \in Writer, NEW c \in Writer, NEW tag \in Tags, NEW size \in Sizes,
             OpenSubmessage(p, c, tag, size)
      PROVE  Resting'
  BY <1>3, RestingOpen
<1>4. ASSUME NEW p \in Writer, NEW tag \in Tags, NEW size \in Sizes, OpenThrows(p, tag, size)
      PROVE  Resting'
  BY <1>4, RestingLinks DEF OpenThrows, RollbackPos
<1>5. ASSUME NEW v \in Writer, NEW w \in Writer, Move(v, w) \/ Swap(v, w) PROVE Resting'
  BY <1>5, RestingRename
<1>6. ASSUME NEW w \in Writer, UNCHANGED <<m_parent_writer, m_pos, m_rollback_pos>>
      PROVE  Resting'
  BY <1>6, RestingLinks
<1>7. ASSUME NEW w \in Writer, NEW f, AddField(w, f) \/ AddFieldThrows(w, f)
      PROVE  Resting'
  BY <1>6, <1>7 DEF AddField, AddFieldThrows, links
<1>8. ASSUME NEW w \in Writer, NEW e, AddElement(w, e) \/ AddElementThrows(w, e)
      PROVE  Resting'
  BY <1>6, <1>8 DEF AddElement, AddElementThrows, links
<1>9. ASSUME NEW w \in Writer, NEW tag, NEW range,
             AddPackedFixed(w, tag, range) \/ AddPackedFixedThrows(w, tag, range)
      PROVE  Resting'
  BY <1>6, <1>9 DEF AddPackedFixed, AddPackedFixedThrows, links
<1>10. ASSUME NEW w \in Writer, NEW tag, NEW range,
              AddPacked(w, tag, range) \/ AddPackedThrows(w, tag, range)
       PROVE  Resting'
  BY <1>10, RestingLinks DEF AddPacked, AddPackedThrows, links
<1>11. ASSUME NEW w \in Writer, RollbackSized(w) \/ AddEmptyRange(w)
       PROVE  Resting'
  BY <1>6, <1>11 DEF RollbackSized, AddEmptyRange, links
<1>12. ASSUME NEW w \in Writer,
              (\E tag \in Tags : AddAborts(w, tag)) \/ AddElementAborts(w) \/ CloseAborts(w)
       PROVE  Resting'
  BY <1>6, <1>12 DEF AddAborts, AddElementAborts, CloseAborts, Abort, links
<1>13. CASE UNCHANGED vars
  BY <1>13 DEF vars, Resting, HasChild, Children, SizeIsKnown
<1> QED  BY <1>1, <1>2, <1>3, <1>4, <1>5, <1>7, <1>8, <1>9, <1>10, <1>11, <1>12, <1>13 DEF Next

\* Where no submessage has an announced size, the assertions of a debug build
\* stop only calls that break the contract.
THEOREM NoneSpurious == ASSUME Sizes = {0} PROVE Spec => []NoSpuriousAssert
<1>1. Init => Resting /\ NoSpuriousAssert
  BY BoundAssumption DEF Init, Resting, NoSpuriousAssert, SizeIsKnown
<1>2. Inv /\ Resting /\ NoSpuriousAssert /\ [Next]_vars => Resting' /\ NoSpuriousAssert'
  BY NextResting, BlamesNoLegalCall
<1> QED  BY <1>1, <1>2, Invariance, PTL DEF Spec
=============================================================================
