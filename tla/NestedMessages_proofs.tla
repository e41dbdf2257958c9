------------------------ MODULE NestedMessages_proofs ------------------------
(***************************************************************************)
(* pbf_writer implements NestedMessages: the one shared string, its         *)
(* positions and the reserved room behave as if every open submessage had   *)
(* a buffer of its own.  Text and Msg are the mapping of PbfWriter's Nested *)
(* under names of their own; every step of a writer is a step of            *)
(* NestedMessages or leaves Text and Msg alone.                             *)
(***************************************************************************)
EXTENDS PbfWriter_proofs

MessageOf(w) ==
    IF w \in valid
    THEN [parent |-> m_parent_writer[w], key |-> PendingKey(w), body |-> Body(w)]
    ELSE NULL
Msg == [w \in Writer |-> MessageOf(w)]
Text == IF valid = {} THEN buf ELSE <<>>

-----------------------------------------------------------------------------
(* Parts of a string.                                                       *)

\* A part of a byte string is a byte string, its bytes counted from its start.
LEMMA PartFacts ==
    ASSUME NEW b \in Seq(Byte), NEW from \in Nat, NEW to \in Nat, to <= Len(b)
    PROVE  /\ SubSeq(b, from + 1, to) \in Seq(Byte)
           /\ Len(SubSeq(b, from + 1, to)) = IF from <= to THEN to - from ELSE 0
           /\ \A i \in 1 .. to - from : SubSeq(b, from + 1, to)[i] = b[from + i]
<1>1. Len(b) \in Nat
  BY LenProperties
<1>2. \A i \in from + 1 .. to : b[i] \in Byte
  BY <1>1, ElementOfSeq
<1>3. /\ SubSeq(b, from + 1, to) \in Seq(Byte)
      /\ Len(SubSeq(b, from + 1, to)) = IF from + 1 <= to THEN to - (from + 1) + 1 ELSE 0
      /\ \A i \in 1 .. to - (from + 1) + 1 :
            SubSeq(b, from + 1, to)[i] = b[(from + 1) + i - 1]
  BY <1>2, SubSeqProperties
<1>4. /\ to - (from + 1) + 1 = to - from
      /\ from + 1 <= to \/ to - from <= 0
      /\ \A i \in 1 .. to - from : (from + 1) + i - 1 = from + i
  OBVIOUS
<1> QED  BY <1>3, <1>4

\* Strings that agree up to the end of a part have that part in common.
LEMMA PartKept ==
    ASSUME NEW b \in Seq(Byte), NEW d \in Seq(Byte), NEW from \in Nat, NEW to \in Nat,
           to <= Len(b), to <= Len(d), \A i \in 1 .. to : d[i] = b[i]
    PROVE  SubSeq(d, from + 1, to) = SubSeq(b, from + 1, to)
<1> DEFINE old == SubSeq(b, from + 1, to)
           new == SubSeq(d, from + 1, to)
<1>1. /\ old \in Seq(Byte) /\ Len(old) = IF from <= to THEN to - from ELSE 0
      /\ \A i \in 1 .. to - from : old[i] = b[from + i]
  BY PartFacts
<1>2. /\ new \in Seq(Byte) /\ Len(new) = IF from <= to THEN to - from ELSE 0
      /\ \A i \in 1 .. to - from : new[i] = d[from + i]
  BY PartFacts
<1> HIDE DEF old, new
<1>3. \A i \in 1 .. Len(new) : new[i] = old[i]
  BY <1>1, <1>2
<1> QED  BY <1>1, <1>2, <1>3, SeqEqual DEF old, new

\* What was there stays the start of a part that only grows at its end.
LEMMA PartGrows ==
    ASSUME NEW b \in Seq(Byte), NEW d \in Seq(Byte), NEW from \in Nat,
           from <= Len(b), Len(b) <= Len(d), \A i \in 1 .. Len(b) : d[i] = b[i]
    PROVE  IsPrefix(SubSeq(b, from + 1, Len(b)), SubSeq(d, from + 1, Len(d)))
<1> DEFINE old == SubSeq(b, from + 1, Len(b))
           new == SubSeq(d, from + 1, Len(d))
<1>1. Len(b) \in Nat /\ Len(d) \in Nat
  BY LenProperties
<1>2. /\ old \in Seq(Byte) /\ Len(old) = Len(b) - from
      /\ \A i \in 1 .. Len(b) - from : old[i] = b[from + i]
  BY <1>1, PartFacts
<1>3. /\ new \in Seq(Byte) /\ Len(new) = Len(d) - from
      /\ \A i \in 1 .. Len(d) - from : new[i] = d[from + i]
  BY <1>1, PartFacts
<1> HIDE DEF old, new
<1>4. Len(old) \in Nat /\ Len(old) <= Len(new) /\ 0 + 1 = 1
  BY <1>1, <1>2, <1>3
<1>5. \A i \in 1 .. Len(old) : new[i] = old[i]
  <2> SUFFICES ASSUME NEW i \in 1 .. Len(old) PROVE new[i] = old[i]
    OBVIOUS
  <2>1. /\ i \in 1 .. Len(b) - from /\ i \in 1 .. Len(d) - from
        /\ from + i \in 1 .. Len(b)
    BY <1>1, <1>2
  <2> QED  BY <1>2, <1>3, <2>1
<1>6. SubSeq(new, 0 + 1, Len(old)) = SubSeq(old, 0 + 1, Len(old))
  BY <1>2, <1>3, <1>4, <1>5, PartKept, SMTT(30)
<1> QED  BY <1>4, <1>6 DEF IsPrefix, old, new

\* The end of a string with something appended ends in that.
LEMMA PartAppended ==
    ASSUME NEW b \in Seq(Byte), NEW x \in Seq(Byte), NEW from \in Nat, from <= Len(b)
    PROVE  SubSeq(b \o x, from + 1, Len(b \o x)) = SubSeq(b, from + 1, Len(b)) \o x
<1> DEFINE all == b \o x
           part == SubSeq(b, from + 1, Len(b))
           long == SubSeq(all, from + 1, Len(all))
<1>1. Len(b) \in Nat /\ Len(x) \in Nat
  BY LenProperties
<1>2. /\ all \in Seq(Byte) /\ Len(all) = Len(b) + Len(x)
      /\ \A i \in 1 .. Len(b) + Len(x) :
            all[i] = IF i <= Len(b) THEN b[i] ELSE x[i - Len(b)]
  BY ConcatProperties
<1>3. /\ part \in Seq(Byte) /\ Len(part) = Len(b) - from
      /\ \A i \in 1 .. Len(b) - from : part[i] = b[from + i]
  BY <1>1, PartFacts
<1> HIDE DEF all
<1>4. /\ long \in Seq(Byte) /\ Len(long) = Len(all) - from
      /\ \A i \in 1 .. Len(all) - from : long[i] = all[from + i]
  BY <1>1, <1>2, PartFacts
<1> HIDE DEF part, long
<1>5. /\ part \o x \in Seq(Byte) /\ Len(part \o x) = Len(part) + Len(x)
      /\ \A i \in 1 .. Len(part) + Len(x) :
            (part \o x)[i] = IF i <= Len(part) THEN part[i] ELSE x[i - Len(part)]
  BY <1>3, ConcatProperties
<1>6. Len(long) = Len(part \o x)
  BY <1>1, <1>2, <1>3, <1>4, <1>5
<1>7. ASSUME NEW i \in 1 .. Len(long) PROVE long[i] = (part \o x)[i]
  <2>1. /\ i \in 1 .. Len(all) - from /\ from + i \in 1 .. Len(b) + Len(x)
        /\ i \in 1 .. Len(part) + Len(x)
        /\ i <= Len(part) <=> from + i <= Len(b)
        /\ i <= Len(part) => i \in 1 .. Len(b) - from
        /\ from + i - Len(b) = i - Len(part)
    BY <1>1, <1>2, <1>3, <1>4
  <2>2. long[i] = all[from + i]
    BY <1>4, <2>1
  <2>3. all[from + i] = IF from + i <= Len(b) THEN b[from + i] ELSE x[from + i - Len(b)]
    BY <1>2, <2>1
  <2>4. (part \o x)[i] = IF i <= Len(part) THEN part[i] ELSE x[i - Len(part)]
    BY <1>5, <2>1
  <2>5. i <= Len(part) => part[i] = b[from + i]
    BY <1>3, <2>1
  <2> QED  BY <2>1, <2>2, <2>3, <2>4, <2>5
<1>8. long = part \o x
  BY <1>4, <1>5, <1>6, <1>7, SeqEqual
<1> QED  BY <1>8 DEF all, part, long

\* What was appended is found behind the string, whatever follows.
LEMMA PartBetween ==
    ASSUME NEW b \in Seq(Byte), NEW x \in Seq(Byte), NEW y \in Seq(Byte)
    PROVE  SubSeq((b \o x) \o y, Len(b) + 1, Len(b) + Len(x)) = x
<1> DEFINE all == b \o x
<1>1. Len(b) \in Nat /\ Len(x) \in Nat /\ Len(b) <= Len(b) /\ Len(b) < Len(b) + 1
  BY LenProperties
<1>2. all \in Seq(Byte) /\ Len(all) = Len(b) + Len(x) /\ Len(all) \in Nat
  BY AppendFacts, LenProperties
<1>3. SubSeq(all, Len(b) + 1, Len(all)) = SubSeq(b, Len(b) + 1, Len(b)) \o x
  BY <1>1, PartAppended
<1>4. SubSeq(b, Len(b) + 1, Len(b)) = <<>>
  BY <1>1, SubSeqEmpty
<1>5. <<>> \o x = x
  BY ConcatEmptySeq
<1> HIDE DEF all
<1>6. SubSeq(all \o y, Len(b) + 1, Len(all)) = SubSeq(all, Len(b) + 1, Len(all))
  <2>1. /\ all \o y \in Seq(Byte) /\ Len(all) <= Len(all \o y) /\ Len(all) <= Len(all)
        /\ \A i \in 1 .. Len(all) : (all \o y)[i] = all[i]
    BY <1>2, AppendFacts
  <2> QED  BY <1>1, <1>2, <2>1, PartKept
<1> QED  BY <1>2, <1>3, <1>4, <1>5, <1>6 DEF all

LEMMA PrefixAppended ==
    ASSUME NEW b \in Seq(Byte), NEW x \in Seq(Byte)
    PROVE  IsPrefix(b, b \o x)
<1>1. /\ b \o x \in Seq(Byte) /\ Len(b) <= Len(b \o x) /\ Len(b) \in Nat
      /\ \A i \in 1 .. Len(b) : (b \o x)[i] = b[i]
  BY AppendFacts, LenProperties
<1>2. SubSeq(b \o x, 0 + 1, Len(b)) = SubSeq(b, 0 + 1, Len(b))
  BY <1>1, PartKept
<1> QED  BY <1>1, <1>2 DEF IsPrefix

-----------------------------------------------------------------------------
(* The mapping.                                                             *)

LEMMA MappedVarint == Nested!Varint = Varint
BY DEF Nested!Varint, Varint, Nested!Radix, Radix

LEMMA MappedKey ==
    ASSUME NEW tag
    PROVE  Nested!Key(tag, Nested!LengthDelimitedType) = Key(tag, LengthDelimitedType)
BY MappedVarint DEF Nested!Key, Key, Nested!TagAndType, TagAndType,
                    Nested!LengthDelimitedType, LengthDelimitedType

\* Where the part of the string that belongs to w lies.
LEMMA BodyFacts ==
    ASSUME Inv, NEW w \in valid
    PROVE  /\ w \in Writer /\ Start(w) \in Nat /\ End(w) \in Nat
           /\ Start(w) <= End(w) /\ End(w) <= Len(buf)
           /\ HasChild(w) => End(w) <= m_pos[w]
           /\ Body(w) \in Seq(Byte) /\ Len(Body(w)) = End(w) - Start(w)
<1>1. /\ w \in Writer /\ Start(w) \in Nat /\ m_pos[w] \in Nat /\ m_rollback_pos[w] \in Nat
      /\ Len(buf) \in Nat /\ buf \in Seq(Byte) /\ ReserveBytes \in Nat
  BY StartFacts, ConstantFacts DEF Inv, TypeOK
<1>2. /\ End(w) \in Nat /\ Start(w) <= End(w) /\ End(w) <= Len(buf)
      /\ HasChild(w) => End(w) <= m_pos[w]
  <2>1. CASE HasChild(w)
    BY <1>1, <2>1, ParentFacts DEF Framed, End
  <2>2. CASE ~HasChild(w)
    <3>1. End(w) = Len(buf)
      BY <2>2 DEF End
    <3>2. m_parent_writer[w] # NULL =>
            /\ Start(w) = m_pos[m_parent_writer[w]]
            /\ m_pos[m_parent_writer[w]] <= Len(buf)
      BY <1>1, StartFacts, ParentFacts DEF Inv
    <3>3. m_parent_writer[w] = NULL => Start(w) = 0
      BY <1>1, StartFacts DEF Inv
    <3> QED  BY <1>1, <2>2, <3>1, <3>2, <3>3
  <2> QED  BY <2>1, <2>2
<1>3. Body(w) \in Seq(Byte) /\ Len(Body(w)) = End(w) - Start(w)
  BY <1>1, <1>2, PartFacts DEF Body
<1> QED  BY <1>1, <1>2, <1>3

\* A submessage has a key in front of reserved room, or is of announced size.
LEMMA PendingKeyFacts ==
    ASSUME Inv, NEW w \in valid
    PROVE  /\ PendingKey(w) \in Seq(Byte)
           /\ m_parent_writer[w] # NULL => (PendingKey(w) = <<>> <=> Sized(w))
<1>1. w \in Writer /\ <<>> \in Seq(Byte)
  BY EmptySeq DEF Inv, TypeOK
<1>2. CASE m_parent_writer[w] = NULL \/ Sized(w)
  <2>1. PendingKey(w) = <<>>
    BY <1>2 DEF PendingKey
  <2> QED  BY <1>1, <1>2, <2>1 DEF Sized
<1>3. CASE m_parent_writer[w] # NULL /\ ~Sized(w)
  <2> DEFINE p == m_parent_writer[w]
  <2>1. /\ p \in Writer /\ HasChild(p) /\ buf \in Seq(Byte) /\ Len(buf) \in Nat
        /\ m_pos[p] \in Nat /\ m_rollback_pos[p] \in Nat /\ ReserveBytes \in Nat
    BY <1>1, <1>3, StartFacts, ConstantFacts DEF Inv, TypeOK
  <2>2. m_rollback_pos[p] + ReserveBytes < m_pos[p] /\ m_pos[p] <= Len(buf)
    BY <1>3, <2>1, ParentFacts DEF Framed, Sized
  <2>3. m_pos[p] - ReserveBytes \in Nat /\ m_pos[p] - ReserveBytes <= Len(buf)
        /\ m_rollback_pos[p] < m_pos[p] - ReserveBytes
    BY <2>1, <2>2
  <2>4. PendingKey(w) = SubSeq(buf, m_rollback_pos[p] + 1, m_pos[p] - ReserveBytes)
    BY <1>3 DEF PendingKey
  <2> HIDE DEF p
  <2>5. PendingKey(w) \in Seq(Byte) /\ Len(PendingKey(w)) > 0
    BY <2>1, <2>3, <2>4, PartFacts, SMTT(30)
  <2> QED  BY <1>3, <2>5, EmptySeq
<1> QED  BY <1>2, <1>3

Mapped ==
    \A w \in Writer :
        /\ Msg[w] # NULL <=> w \in valid
        /\ w \in valid => /\ Msg[w].parent = m_parent_writer[w]
                          /\ Msg[w].key = PendingKey(w)
                          /\ Msg[w].body = Body(w)

LEMMA MsgFacts == Inv => Mapped
<1> SUFFICES ASSUME Inv, NEW w \in Writer
             PROVE  /\ Msg[w] # NULL <=> w \in valid
                    /\ w \in valid => /\ Msg[w].parent = m_parent_writer[w]
                                      /\ Msg[w].key = PendingKey(w)
                                      /\ Msg[w].body = Body(w)
  BY DEF Mapped
<1>1. w \in valid =>
        MessageOf(w) \in [parent : Writer \cup {NULL}, key : Seq(Byte), body : Seq(Byte)]
  <2> SUFFICES ASSUME w \in valid
               PROVE  MessageOf(w) \in
                        [parent : Writer \cup {NULL}, key : Seq(Byte), body : Seq(Byte)]
    OBVIOUS
  <2>1. m_parent_writer[w] \in Writer \cup {NULL}
    BY StartFacts DEF Inv
  <2>2. PendingKey(w) \in Seq(Byte) /\ Body(w) \in Seq(Byte)
    BY BodyFacts, PendingKeyFacts
  <2> QED  BY <2>1, <2>2 DEF MessageOf
<1> QED  BY <1>1, NullAssumption DEF Msg, MessageOf

\* The innermost message of the specification is the one a call may be made for.
LEMMA ActiveFacts ==
    ASSUME Inv, NEW w \in Writer
    PROVE  Nested!Active(w) <=> Legal(w)
<1>1. Nested!IsParent(w) <=> \E c \in Writer : Msg[c] # NULL /\ Msg[c].parent = w
  BY DEF Nested!IsParent, Msg, MessageOf
<1>2. \A c \in Writer : Msg[c] # NULL /\ Msg[c].parent = w <=> m_parent_writer[c] = w
  BY MsgFacts, WritersAssumption DEF Inv, TypeOK, Mapped
<1>3. Nested!IsParent(w) <=> Children(w) # {}
  BY <1>1, <1>2 DEF Children
<1>4. Nested!Active(w) <=> Msg[w] # NULL /\ ~Nested!IsParent(w)
  BY DEF Nested!Active, Msg, MessageOf
<1> QED  BY <1>3, <1>4, MsgFacts DEF Legal, Mapped

\* The string keeps its first n bytes.
Keeps(n) ==
    n \in Nat /\ n <= Len(buf) /\ n <= Len(buf') /\ \A i \in 1 .. n : buf'[i] = buf[i]

LEMMA KeepsLess ==
    ASSUME TypeOK, TypeOK', NEW n, Keeps(n), NEW k \in Nat, k <= n
    PROVE  Keeps(k)
<1>1. Len(buf) \in Nat /\ Len(buf') \in Nat
  BY LenProperties DEF TypeOK
<1> QED  BY <1>1 DEF Keeps

\* A submessage keeps its key, and where it starts, as long as its parent's
\* positions and the bytes in front of it stay.
LEMMA KeyKept ==
    ASSUME Inv, Inv', NEW w \in valid, m_parent_writer'[w] = m_parent_writer[w],
           m_parent_writer[w] # NULL =>
             /\ m_pos'[m_parent_writer[w]] = m_pos[m_parent_writer[w]]
             /\ m_rollback_pos'[m_parent_writer[w]] = m_rollback_pos[m_parent_writer[w]]
             /\ Keeps(m_pos[m_parent_writer[w]])
    PROVE  Start(w)' = Start(w) /\ PendingKey(w)' = PendingKey(w)
<1> DEFINE p == m_parent_writer[w]
<1>1. w \in Writer /\ buf \in Seq(Byte) /\ buf' \in Seq(Byte)
  BY DEF Inv, TypeOK
<1>2. CASE p = NULL
  BY <1>2 DEF Start, PendingKey
<1>3. CASE p # NULL
  <2>1. /\ p \in Writer /\ m_pos'[p] = m_pos[p] /\ m_rollback_pos'[p] = m_rollback_pos[p]
        /\ Keeps(m_pos[p]) /\ m_pos[p] \in Nat /\ m_rollback_pos[p] \in Nat
        /\ ReserveBytes \in Nat /\ HasChild(p)
    BY <1>1, <1>3, StartFacts, ConstantFacts DEF Inv
  <2>2. Start(w)' = Start(w) /\ (Sized(w)' <=> Sized(w))
    BY <1>3, <2>1 DEF Start, Sized, SizeIsKnown
  <2>3. CASE Sized(w)
    BY <2>2, <2>3 DEF PendingKey
  <2>4. CASE ~Sized(w)
    <3> DEFINE to == m_pos[p] - ReserveBytes
    <3>1. to \in Nat /\ to <= m_pos[p]
      BY <1>3, <2>1, <2>4, ParentFacts DEF Framed, Sized
    <3>2. Keeps(to)
      BY <2>1, <3>1, KeepsLess DEF Inv
    <3>3. PendingKey(w) = SubSeq(buf, m_rollback_pos[p] + 1, to)
      BY <1>3, <2>4 DEF PendingKey
    <3>4. PendingKey(w)' = SubSeq(buf', m_rollback_pos[p] + 1, to)
      BY <1>3, <2>1, <2>2, <2>4 DEF PendingKey
    <3> HIDE DEF p, to
    <3>5. SubSeq(buf', m_rollback_pos[p] + 1, to) = SubSeq(buf, m_rollback_pos[p] + 1, to)
      BY <1>1, <2>1, <3>1, <3>2, PartKept, SMTT(30) DEF Keeps
    <3> QED  BY <2>2, <3>3, <3>4, <3>5 DEF p
  <2> QED  BY <2>3, <2>4
<1> QED  BY <1>2, <1>3

\* A message with an open submessage is as long as it was.
LEMMA BodyKept ==
    ASSUME Inv, Inv', NEW w \in valid, HasChild(w), HasChild(w)', Start(w)' = Start(w),
           m_pos'[w] = m_pos[w], m_rollback_pos'[w] = m_rollback_pos[w], Keeps(m_pos[w])
    PROVE  Body(w)' = Body(w)
<1>1. /\ Start(w) \in Nat /\ End(w) \in Nat /\ End(w) <= m_pos[w]
      /\ buf \in Seq(Byte) /\ buf' \in Seq(Byte)
  BY BodyFacts DEF Inv, TypeOK
<1>2. End(w)' = End(w)
  BY DEF End, SizeIsKnown
<1>3. Keeps(End(w))
  BY <1>1, KeepsLess DEF Inv
<1>4. SubSeq(buf', Start(w) + 1, End(w)) = SubSeq(buf, Start(w) + 1, End(w))
  BY <1>1, <1>3, PartKept DEF Keeps
<1> QED  BY <1>2, <1>4 DEF Body

\* Together: what a step of the innermost writer w does not change of another.
LEMMA OtherKept ==
    ASSUME Inv, Inv', NEW v \in valid, v \in valid', HasChild(v), HasChild(v)',
           m_parent_writer'[v] = m_parent_writer[v], Keeps(m_pos[v]),
           m_pos'[v] = m_pos[v], m_rollback_pos'[v] = m_rollback_pos[v],
           m_parent_writer[v] # NULL =>
             /\ m_pos'[m_parent_writer[v]] = m_pos[m_parent_writer[v]]
             /\ m_rollback_pos'[m_parent_writer[v]] = m_rollback_pos[m_parent_writer[v]]
    PROVE  MessageOf(v)' = MessageOf(v)
<1>1. m_parent_writer[v] # NULL => Keeps(m_pos[m_parent_writer[v]])
  <2> SUFFICES ASSUME m_parent_writer[v] # NULL PROVE Keeps(m_pos[m_parent_writer[v]])
    OBVIOUS
  <2>1. v \in Writer
    BY DEF Inv, TypeOK
  <2>2. Start(v) = m_pos[m_parent_writer[v]] /\ Start(v) \in Nat /\ m_pos[v] \in Nat
    BY <2>1, StartFacts DEF Inv
  <2>3. Start(v) < m_pos[v]
    BY <2>1, ParentFacts
  <2>4. Start(v) <= m_pos[v]
    BY <2>2, <2>3
  <2> QED  BY <2>2, <2>4, KeepsLess DEF Inv
<1>2. Start(v)' = Start(v) /\ PendingKey(v)' = PendingKey(v)
  BY <1>1, KeyKept
<1>3. Body(v)' = Body(v)
  BY <1>2, BodyKept
<1> QED  BY <1>2, <1>3 DEF MessageOf

-----------------------------------------------------------------------------
(* The steps.                                                               *)

\* Whatever only appends to the innermost message extends that message.
LEMMA AppendExtends ==
    ASSUME Inv, Inv', NEW w \in Writer, Legal(w), UNCHANGED links,
           Len(buf) <= Len(buf'), \A i \in 1 .. Len(buf) : buf'[i] = buf[i],
           \A v \in Writer \ {w} : m_pos'[v] = m_pos[v] /\ m_rollback_pos'[v] = m_rollback_pos[v]
    PROVE  /\ Nested!Extend(w)
           /\ \A x \in Seq(Byte) : buf' = buf \o x => Msg' = [Msg EXCEPT ![w].body = @ \o x]
<1>1. /\ valid' = valid /\ m_parent_writer' = m_parent_writer
      /\ w \in valid /\ ~HasChild(w) /\ valid \subseteq Writer
      /\ Len(buf) \in Nat /\ buf \in Seq(Byte) /\ buf' \in Seq(Byte)
  BY LenProperties DEF links, Legal, HasChild, Inv, TypeOK
<1>2. \A v \in Writer : HasChild(v)' <=> HasChild(v)
  BY <1>1 DEF HasChild, Children
<1>3. \A v \in Writer : m_parent_writer[v] # w
  BY <1>1 DEF HasChild, Children
<1>4. ASSUME NEW v \in valid, v # w
      PROVE  MessageOf(v)' = MessageOf(v)
  <2>1. /\ v \in Writer /\ HasChild(v) /\ m_pos[v] \in Nat /\ m_pos[v] <= Len(buf)
    BY <1>1, <1>4, LeafIsEnclosed, ParentFacts, StartFacts DEF Inv
  <2>2. Keeps(m_pos[v])
    <3>1. m_pos[v] <= Len(buf') /\ \A i \in 1 .. m_pos[v] : i \in 1 .. Len(buf)
      <4>1. Len(buf') \in Nat
        BY <1>1, LenProperties
      <4> QED  BY <1>1, <2>1, <4>1
    <3> QED  BY <2>1, <3>1 DEF Keeps
  <2>3. m_parent_writer[v] # NULL => m_parent_writer[v] \in Writer \ {w}
    BY <1>3, <2>1, StartFacts DEF Inv
  <2> QED  BY <1>1, <1>2, <1>4, <2>1, <2>2, <2>3, OtherKept
<1>5. Start(w)' = Start(w) /\ PendingKey(w)' = PendingKey(w)
  <2>1. m_parent_writer[w] # NULL =>
            /\ m_parent_writer[w] \in Writer \ {w}
            /\ HasChild(m_parent_writer[w])
    BY <1>3, StartFacts DEF Inv
  <2>2. m_parent_writer[w] # NULL => Keeps(m_pos[m_parent_writer[w]])
    <3> SUFFICES ASSUME m_parent_writer[w] # NULL PROVE Keeps(m_pos[m_parent_writer[w]])
      OBVIOUS
    <3>1. m_pos[m_parent_writer[w]] \in Nat /\ m_pos[m_parent_writer[w]] <= Len(buf)
      BY <2>1, StartFacts, ParentFacts DEF Inv
    <3>2. Keeps(Len(buf))
      BY <1>1 DEF Keeps
    <3> QED  BY <3>1, <3>2, KeepsLess DEF Inv
  <2> QED  BY <1>1, <2>1, <2>2, KeyKept
<1>6. IsPrefix(Body(w), Body(w)')
  <2>1. End(w) = Len(buf) /\ End(w)' = Len(buf')
    BY <1>1, <1>2 DEF End
  <2>2. Start(w) \in Nat /\ Start(w) <= Len(buf)
    BY <1>1, <2>1, BodyFacts
  <2>3. IsPrefix(SubSeq(buf, Start(w) + 1, Len(buf)), SubSeq(buf', Start(w) + 1, Len(buf')))
    BY <1>1, <2>2, PartGrows
  <2> QED  BY <1>5, <2>1, <2>3 DEF Body
<1>7. Msg' = [Msg EXCEPT ![w].body = Msg'[w].body]
  <2>1. /\ MessageOf(w) = [parent |-> m_parent_writer[w], key |-> PendingKey(w), body |-> Body(w)]
        /\ MessageOf(w)' =
              [parent |-> m_parent_writer[w], key |-> PendingKey(w), body |-> Body(w)']
    BY <1>1, <1>5 DEF MessageOf
  <2>2. \A v \in Writer \ {w} : MessageOf(v)' = MessageOf(v)
    BY <1>1, <1>4 DEF MessageOf
  <2>3. MessageOf(w)' = [MessageOf(w) EXCEPT !.body = Body(w)']
    BY <2>1
  <2>4. Msg'[w].body = Body(w)'
    BY <2>1 DEF Msg
  <2> QED  BY <2>2, <2>3, <2>4 DEF Msg
<1>8. Text' = Text
  BY <1>1 DEF Text
<1>9. Nested!Active(w)
  BY ActiveFacts
<1>10. Msg[w].body = Body(w) /\ Msg'[w] # NULL /\ Msg'[w].body = Body(w)'
  <2>1. Mapped /\ Mapped'
    BY MsgFacts, PTL
  <2> QED  BY <1>1, <2>1 DEF Mapped
<1>11. Nested!IsPrefix(Msg[w].body, Msg'[w].body)
  BY <1>6, <1>10 DEF Nested!IsPrefix, IsPrefix
<1>12. Nested!Extend(w)
  BY <1>7, <1>8, <1>9, <1>10, <1>11 DEF Nested!Extend, Msg, MessageOf, Text
<1>13. ASSUME NEW x \in Seq(Byte), buf' = buf \o x
       PROVE  Msg' = [Msg EXCEPT ![w].body = @ \o x]
  <2>1. End(w) = Len(buf) /\ End(w)' = Len(buf')
    BY <1>1, <1>2 DEF End
  <2>2. Start(w) \in Nat /\ Start(w) <= Len(buf)
    BY <1>1, <2>1, BodyFacts
  <2>3. SubSeq(buf', Start(w) + 1, Len(buf')) = SubSeq(buf, Start(w) + 1, Len(buf)) \o x
    BY <1>1, <1>13, <2>2, PartAppended
  <2>4. Body(w)' = Body(w) \o x
    BY <1>5, <2>1, <2>3 DEF Body
  <2> QED  BY <1>7, <1>10, <2>4
<1> QED  BY <1>12, <1>13

\* A submessage whose length is not known: its parent's message stays, and
\* the key in front of the reserved room is its own.
LEMMA OpenRefines ==
    ASSUME Inv, Inv', NEW p \in Writer, NEW c \in Writer, NEW tag \in Tags, NEW size \in Sizes,
           OpenSubmessage(p, c, tag, size),
           Len(buf) <= Len(buf'), \A i \in 1 .. Len(buf) : buf'[i] = buf[i]
    PROVE  /\ Nested!Open(p, c, tag) \/ Nested!OpenSized(p, c, tag)
           /\ size = 0 =>
                Msg' = [Msg EXCEPT ![c] = [parent |-> p, key |-> Key(tag, LengthDelimitedType),
                                           body |-> <<>>]]
           /\ size # 0 =>
                Msg' = [Msg EXCEPT ![p].body = @ \o LengthHeader(tag, LengthType(size)),
                                   ![c] = [parent |-> p, key |-> <<>>, body |-> <<>>]]
<1>1. /\ Legal(p) /\ c \notin valid /\ p \in valid /\ c # p /\ ~HasChild(p)
      /\ m_rollback_pos' = [m_rollback_pos EXCEPT ![p] = RollbackPos(size), ![c] = 0]
      /\ m_pos' = [m_pos EXCEPT ![p] = Len(buf'), ![c] = 0]
      /\ m_parent_writer' = [m_parent_writer EXCEPT ![c] = p]
      /\ valid' = valid \cup {c}
      /\ buf' = buf \o (SubmessageHeader(tag, size) \o Room(size))
  BY MayUseIsLegal DEF OpenSubmessage, MayAdd, Legal, Grow, HasChild
<1>2. /\ TypeOK /\ buf \in Seq(Byte) /\ buf' \in Seq(Byte)
      /\ Len(buf) \in Nat /\ Len(buf') \in Nat
      /\ valid \subseteq Writer /\ size \in Nat /\ ReserveBytes \in Nat
      /\ Len(buf) # SizeIsKnown /\ p # NULL
  BY LenProperties, InputsAssumption, ConstantFacts, LengthIsNoSize DEF Inv, TypeOK
<1>3. /\ m_parent_writer'[c] = p /\ m_pos'[p] = Len(buf') /\ m_rollback_pos'[p] = RollbackPos(size)
      /\ \A v \in Writer \ {c} : m_parent_writer'[v] = m_parent_writer[v]
      /\ \A v \in Writer \ {p, c} : m_pos'[v] = m_pos[v] /\ m_rollback_pos'[v] = m_rollback_pos[v]
  BY <1>1 DEF Inv, TypeOK
<1>4. \A v \in Writer : m_parent_writer[v] # p /\ m_parent_writer[v] # c
  BY <1>1, StartFacts, WritersAssumption DEF HasChild, Children, Inv
<1>5. /\ HasChild(p)' /\ ~HasChild(c)'
      /\ \A v \in Writer \ {c} : HasChild(v) => HasChild(v)'
  <2>1. HasChild(p)'
    BY <1>3 DEF HasChild, Children
  <2>2. ~HasChild(c)'
    BY <1>1, <1>3, <1>4 DEF HasChild, Children
  <2>3. m_parent_writer[c] = NULL
    BY <1>1 DEF Inv, TypeOK
  <2>4. \A v \in Writer \ {c} : HasChild(v) => HasChild(v)'
    BY <1>3, <2>3, WritersAssumption DEF HasChild, Children
  <2> QED  BY <2>1, <2>2, <2>4
<1>6. Keeps(Len(buf))
  BY <1>2 DEF Keeps
<1>7. ASSUME NEW v \in valid, v # p
      PROVE  MessageOf(v)' = MessageOf(v)
  <2>1. v \in Writer /\ v # c /\ HasChild(v) /\ m_pos[v] \in Nat /\ m_pos[v] <= Len(buf)
    BY <1>1, <1>2, <1>7, LeafIsEnclosed, ParentFacts, StartFacts
  <2>2. Keeps(m_pos[v])
    BY <1>6, <2>1, KeepsLess DEF Inv
  <2>3. m_parent_writer[v] # NULL => m_parent_writer[v] \in Writer \ {p, c}
    BY <1>4, <2>1, StartFacts DEF Inv
  <2> QED  BY <1>1, <1>3, <1>5, <1>7, <2>1, <2>2, <2>3, OtherKept
<1>8. Start(p)' = Start(p) /\ PendingKey(p)' = PendingKey(p)
  <2>1. m_parent_writer[p] # NULL =>
            m_parent_writer[p] \in Writer \ {p, c} /\ HasChild(m_parent_writer[p])
    BY <1>4, StartFacts DEF Inv
  <2>2. m_parent_writer[p] # NULL => Keeps(m_pos[m_parent_writer[p]])
    <3> SUFFICES ASSUME m_parent_writer[p] # NULL PROVE Keeps(m_pos[m_parent_writer[p]])
      OBVIOUS
    <3>1. m_pos[m_parent_writer[p]] \in Nat /\ m_pos[m_parent_writer[p]] <= Len(buf)
      BY <2>1, StartFacts, ParentFacts DEF Inv
    <3> QED  BY <1>6, <3>1, KeepsLess DEF Inv
  <2> QED  BY <1>1, <1>3, <2>1, <2>2, KeyKept
<1>9. Body(c)' = <<>>
  <2>1. Start(c)' = Len(buf') /\ End(c)' = Len(buf')
    BY <1>2, <1>3, <1>5 DEF Start, End
  <2>2. Len(buf') < Len(buf') + 1
    BY <1>2
  <2> QED  BY <1>2, <2>1, <2>2, SubSeqEmpty DEF Body
<1>10. Body(p) = SubSeq(buf, Start(p) + 1, Len(buf)) /\ Start(p) \in Nat /\ Start(p) <= Len(buf)
  <2>1. End(p) = Len(buf)
    BY <1>1 DEF End
  <2> QED  BY <1>1, <2>1, BodyFacts DEF Body
<1> DEFINE key == Key(tag, LengthDelimitedType)
<1>11. key \in Seq(Byte)
  BY VarintFits
<1>12. /\ MessageOf(c)' = [parent |-> p, key |-> PendingKey(c)', body |-> <<>>]
       /\ MessageOf(p)' = [MessageOf(p) EXCEPT !.body = Body(p)']
       /\ MessageOf(c) = NULL /\ Text' = Text
  <2>1. c \in valid' /\ p \in valid'
    BY <1>1
  <2> QED  BY <1>1, <1>3, <1>8, <1>9, <2>1, SMTT(30) DEF MessageOf, Text
<1>13. Msg[c] = NULL /\ Nested!Active(p)
  BY <1>1, <1>12, ActiveFacts DEF Msg
<1>14. Mapped /\ Mapped'
  BY MsgFacts, PTL
<1>15. Msg[p].body = Body(p) /\ Msg'[p] # NULL /\ Msg'[p].body = Body(p)'
  BY <1>1, <1>14 DEF Mapped
<1>16. \A v \in Writer \ {p, c} : MessageOf(v)' = MessageOf(v)
  <2>1. \A v \in Writer \ (valid \cup {c}) : v \notin valid'
    BY <1>1
  <2> QED  BY <1>7, <2>1 DEF MessageOf
<1>17. CASE size = 0
  <2>1. /\ Body(p)' = Body(p)
    <3>1. End(p)' = Len(buf)
      BY <1>2, <1>3, <1>5, <1>17 DEF End, RollbackPos, SizeIsKnown
    <3>2. Len(buf) <= Len(buf)
      BY <1>2
    <3>3. SubSeq(buf', Start(p) + 1, Len(buf)) = SubSeq(buf, Start(p) + 1, Len(buf))
      BY <1>2, <1>10, <3>2, PartKept
    <3> QED  BY <1>8, <1>10, <3>1, <3>3 DEF Body
  <2>2. PendingKey(c)' = key
    <3>1. Zeros \in Seq(Byte) /\ Len(Zeros) = ReserveBytes /\ Len(key) \in Nat
      BY <1>11, ZerosFacts, LenProperties
    <3>2. buf' = (buf \o key) \o Zeros
      <4>1. buf' = buf \o (key \o Zeros)
        BY <1>1, <1>17 DEF SubmessageHeader, Room
      <4> HIDE DEF key
      <4>2. buf \o (key \o Zeros) = (buf \o key) \o Zeros
        BY <1>2, <1>11, <3>1, ConcatAssociative, SMTT(30)
      <4> QED  BY <4>1, <4>2
    <3> HIDE DEF key
    <3>3. Len(buf') = Len(buf) + Len(key) + ReserveBytes
      <4>1. buf \o key \in Seq(Byte) /\ Len(buf \o key) = Len(buf) + Len(key)
        BY <1>2, <1>11, AppendFacts
      <4>2. Len((buf \o key) \o Zeros) = Len(buf \o key) + Len(Zeros)
        BY <3>1, <4>1, AppendFacts
      <4> QED  BY <3>1, <3>2, <4>1, <4>2
    <3>4. Len(buf') - ReserveBytes = Len(buf) + Len(key)
      BY <1>2, <3>1, <3>3
    <3>5. PendingKey(c)' = SubSeq(buf', Len(buf) + 1, Len(buf) + Len(key))
      <4>1. ~Sized(c)'
        BY <1>2, <1>3, <1>17 DEF Sized, RollbackPos, SizeIsKnown
      <4> QED  BY <1>2, <1>3, <1>17, <3>4, <4>1 DEF PendingKey, RollbackPos
    <3> QED  BY <1>2, <1>11, <3>1, <3>2, <3>5, PartBetween
  <2>3. MessageOf(p)' = MessageOf(p)
    BY <1>1, <1>12, <2>1 DEF MessageOf
  <2>4. Msg' = [Msg EXCEPT ![c] = [parent |-> p, key |-> key, body |-> <<>>]]
    BY <1>12, <1>16, <2>2, <2>3 DEF Msg
  <2>5. Nested!Open(p, c, tag)
    BY <1>12, <1>13, <2>4, MappedKey DEF Nested!Open, Nested!Message, Msg, MessageOf, Text
  <2> QED  BY <1>17, <2>4, <2>5
<1>18. CASE size # 0
  <2> DEFINE length == Varint[LengthType(size)]
             more == key \o length
  <2>1. PendingKey(c)' = <<>>
    BY <1>2, <1>3, <1>18 DEF PendingKey, Sized, RollbackPos, SizeIsKnown
  <2>2. length \in Seq(Byte)
    BY <1>2, LengthTypeFacts, VarintFits
  <2>3. more \in Seq(Byte)
    BY <1>11, <2>2, AppendFacts
  <2>4. buf' = buf \o more
    <3>1. buf' = buf \o (more \o <<>>)
      BY <1>1, <1>18 DEF SubmessageHeader, LengthHeader, Room
    <3> HIDE DEF more
    <3>2. more \o <<>> = more
      BY <2>3, ConcatEmptySeq
    <3> QED  BY <3>1, <3>2
  <2> HIDE DEF more, length, key
  <2>5. Body(p)' = Body(p) \o more
    <3>1. End(p)' = Len(buf')
      BY <1>2, <1>3, <1>5, <1>18 DEF End, RollbackPos, SizeIsKnown
    <3>2. SubSeq(buf', Start(p) + 1, Len(buf')) = SubSeq(buf, Start(p) + 1, Len(buf)) \o more
      BY <1>2, <1>10, <2>3, <2>4, PartAppended
    <3> QED  BY <1>8, <1>10, <3>1, <3>2 DEF Body
  <2>6. Body(p)' = (Body(p) \o key) \o length /\ Body(p) \o key \in Seq(Byte)
    <3>1. Body(p) \in Seq(Byte)
      BY <1>1, BodyFacts
    <3>2. Body(p) \o (key \o length) = (Body(p) \o key) \o length
      BY <1>11, <2>2, <3>1, ConcatAssociative, SMTT(30)
    <3>3. Body(p) \o key \in Seq(Byte)
      BY <1>11, <3>1, AppendFacts
    <3> QED  BY <2>5, <3>2, <3>3 DEF more
  <2>7. IsPrefix(Body(p) \o key, Body(p)')
    BY <2>2, <2>6, PrefixAppended
  <2>8. Nested!IsPrefix(Msg[p].body \o key, Msg'[p].body)
    BY <1>15, <2>7 DEF Nested!IsPrefix, IsPrefix
  <2>9. Msg' = [Msg EXCEPT ![p].body = Msg'[p].body,
                           ![c] = [parent |-> p, key |-> <<>>, body |-> <<>>]]
    <3>1. MessageOf(p)' = [MessageOf(p) EXCEPT !.body = Msg'[p].body]
      BY <1>12, <1>15
    <3>2. MessageOf(c)' = [parent |-> p, key |-> <<>>, body |-> <<>>]
      BY <1>12, <2>1
    <3> QED  BY <1>1, <1>16, <3>1, <3>2 DEF Msg
  <2>10. Nested!OpenSized(p, c, tag)
    <3>1. Nested!IsPrefix(Msg[p].body \o Nested!Key(tag, Nested!LengthDelimitedType),
                          Msg'[p].body)
      BY <2>8, MappedKey DEF key
    <3> QED  BY <1>12, <1>13, <1>15, <2>9, <3>1
             DEF Nested!OpenSized, Nested!Message, Msg, MessageOf, Text
  <2>11. Msg' = [Msg EXCEPT ![p].body = @ \o LengthHeader(tag, LengthType(size)),
                            ![c] = [parent |-> p, key |-> <<>>, body |-> <<>>]]
    <3>1. Msg'[p].body = Msg[p].body \o more
      BY <1>15, <2>5
    <3>2. more = LengthHeader(tag, LengthType(size))
      BY DEF more, key, length, LengthHeader
    <3> QED  BY <1>1, <2>9, <3>1, <3>2
  <2> QED  BY <1>18, <2>10, <2>11
<1> QED  BY <1>17, <1>18

\* What the end of the innermost writer c leaves of the others: its parent's
\* message becomes what the string then holds from its start on.
LEMMA CloseLeaves ==
    ASSUME Inv, Inv', NEW c \in Writer, m_parent_writer[c] # NULL,
           Commit(c) \/ Rollback(c) \/ Destroy(c), Legal(c), PrefixOf(m_parent_writer[c]),
           NEW p, p = m_parent_writer[c]
    PROVE  /\ p \in Writer /\ p \in valid /\ p # c /\ Nested!Active(c) /\ Text' = Text
           /\ \A v \in Writer \ {p, c} : MessageOf(v)' = MessageOf(v)
           /\ MessageOf(c)' = NULL
           /\ MessageOf(p)' =
                [MessageOf(p) EXCEPT !.body = SubSeq(buf', Start(p) + 1, Len(buf'))]
<1>1. /\ p \in Writer /\ p \in valid /\ p # c /\ c \in valid /\ HasChild(p) /\ ~HasChild(c)
      /\ TypeOK /\ buf \in Seq(Byte) /\ buf' \in Seq(Byte) /\ valid \subseteq Writer
      /\ Len(buf) \in Nat /\ Len(buf') \in Nat /\ Start(p) \in Nat /\ m_rollback_pos[p] \in Nat
  BY StartFacts, LenProperties, WritersAssumption DEF Inv, TypeOK, Legal, HasChild, Children
<1>2. /\ valid' = valid \ {c} /\ m_parent_writer' = [m_parent_writer EXCEPT ![c] = NULL]
      /\ \A v \in Writer \ {p, c} : m_pos'[v] = m_pos[v] /\ m_rollback_pos'[v] = m_rollback_pos[v]
  <2>1. valid' = valid \ {c} /\ m_parent_writer' = [m_parent_writer EXCEPT ![c] = NULL]
    BY DEF Commit, Rollback, Destroy, Invalidate
  <2>2. \E n : m_pos' = [m_pos EXCEPT ![p] = n] \/ m_pos' = [m_pos EXCEPT ![p] = n, ![c] = 0]
    BY DEF Commit, Rollback, Destroy
  <2>3. m_rollback_pos' = m_rollback_pos \/ m_rollback_pos' = [m_rollback_pos EXCEPT ![c] = 0]
    BY DEF Commit, Rollback, Destroy
  <2> QED  BY <1>1, <2>1, <2>2, <2>3 DEF TypeOK
<1>3. \A v \in Writer \ {c} :
        m_parent_writer'[v] = m_parent_writer[v] /\ m_parent_writer[v] # p
  BY <1>1, <1>2, OneChild, WritersAssumption DEF TypeOK
<1>4. \A v \in Writer : m_parent_writer[v] # c
  BY <1>1 DEF HasChild, Children
<1>5. ~HasChild(p)' /\ \A v \in Writer \ {p} : HasChild(v) => HasChild(v)'
  <2>1. m_parent_writer'[c] = NULL
    BY <1>1, <1>2 DEF TypeOK
  <2>2. ~HasChild(p)'
    BY <1>1, <1>3, <2>1, WritersAssumption DEF HasChild, Children
  <2>3. ASSUME NEW v \in Writer \ {p}, HasChild(v) PROVE HasChild(v)'
    <3>1. PICK u \in Writer : m_parent_writer[u] = v
      BY <2>3 DEF HasChild, Children
    <3>2. u # c /\ m_parent_writer'[u] = v
      BY <1>3, <2>3, <3>1
    <3> QED  BY <3>2 DEF HasChild, Children
  <2> QED  BY <2>2, <2>3
<1>6. Keeps(Start(p))
  <2>1. CASE buf' = buf
    <3>1. Start(p) <= Len(buf)
      BY <1>1, BodyFacts
    <3> QED  BY <1>1, <2>1, <3>1 DEF Keeps
  <2>2. CASE buf' # buf
    <3>1. /\ m_rollback_pos[p] # SizeIsKnown /\ m_rollback_pos[p] <= Len(buf')
          /\ \A i \in 1 .. m_rollback_pos[p] : buf'[i] = buf[i]
      BY <2>2 DEF PrefixOf
    <3>2. m_rollback_pos[p] <= Len(buf) /\ Start(p) <= m_rollback_pos[p]
      <4>1. ~Sized(c)
        BY <3>1 DEF Sized
      <4> QED  BY <1>1, <3>1, <4>1, RollbackInString, ParentFacts DEF Framed
    <3>3. Keeps(m_rollback_pos[p])
      BY <1>1, <3>1, <3>2 DEF Keeps
    <3> QED  BY <1>1, <3>2, <3>3, KeepsLess DEF Inv
  <2> QED  BY <2>1, <2>2
<1>7. ASSUME NEW v \in valid, v # p, v # c
      PROVE  MessageOf(v)' = MessageOf(v)
  <2>1. v \in Writer /\ HasChild(v) /\ m_pos[v] \in Nat /\ m_pos[v] <= Start(p)
    BY <1>1, <1>7, OtherAncestors
  <2>2. Keeps(m_pos[v])
    BY <1>6, <2>1, KeepsLess DEF Inv
  <2>3. m_parent_writer[v] # NULL => m_parent_writer[v] \in Writer \ {p, c}
    BY <1>3, <1>4, <1>7, <2>1, StartFacts DEF Inv
  <2>4. v \in valid' /\ HasChild(v)'
    BY <1>2, <1>5, <1>7, <2>1
  <2> QED  BY <1>2, <1>3, <1>7, <2>1, <2>2, <2>3, <2>4, OtherKept
<1>8. Start(p)' = Start(p) /\ PendingKey(p)' = PendingKey(p)
  <2>1. m_parent_writer[p] # NULL =>
            /\ m_parent_writer[p] \in Writer \ {p, c}
            /\ Start(p) = m_pos[m_parent_writer[p]]
    BY <1>1, <1>3, <1>4, StartFacts
  <2> QED  BY <1>1, <1>2, <1>3, <1>6, <2>1, KeyKept
<1>9. Body(p)' = SubSeq(buf', Start(p) + 1, Len(buf'))
  BY <1>5, <1>8 DEF Body, End
<1>10. /\ MessageOf(p) = [parent |-> m_parent_writer[p], key |-> PendingKey(p), body |-> Body(p)]
       /\ MessageOf(p)' =
            [parent |-> m_parent_writer[p], key |-> PendingKey(p), body |-> Body(p)']
  BY <1>1, <1>2, <1>3, <1>8 DEF MessageOf
<1>11. MessageOf(p)' = [MessageOf(p) EXCEPT !.body = SubSeq(buf', Start(p) + 1, Len(buf'))]
  <2>1. MessageOf(p)' = [MessageOf(p) EXCEPT !.body = Body(p)']
    BY <1>10
  <2> QED  BY <1>9, <2>1
<1>12. MessageOf(c)' = NULL /\ Text' = Text /\ Nested!Active(c)
  BY <1>1, <1>2, ActiveFacts DEF MessageOf, Text
<1>13. \A v \in Writer \ {p, c} : MessageOf(v)' = MessageOf(v)
  BY <1>2, <1>7 DEF MessageOf
<1> QED  BY <1>1, <1>11, <1>12, <1>13

\* The string up to the rollback position of p is what p had written itself.
LEMMA BodyBeforeHeader ==
    ASSUME Inv, NEW p \in Writer, HasChild(p), m_rollback_pos[p] # SizeIsKnown,
           NEW b \in Seq(Byte), m_rollback_pos[p] <= Len(b),
           \A i \in 1 .. m_rollback_pos[p] : b[i] = buf[i]
    PROVE  SubSeq(b, Start(p) + 1, m_rollback_pos[p]) = Body(p)
<1>1. /\ End(p) = m_rollback_pos[p] /\ m_rollback_pos[p] \in Nat /\ Start(p) \in Nat
      /\ buf \in Seq(Byte)
  BY StartFacts DEF End, Inv, TypeOK
<1>2. m_rollback_pos[p] <= Len(buf)
  BY <1>1, ParentFacts, BodyFacts
<1>3. SubSeq(b, Start(p) + 1, m_rollback_pos[p]) = SubSeq(buf, Start(p) + 1, m_rollback_pos[p])
  BY <1>1, <1>2, PartKept
<1> QED  BY <1>1, <1>3 DEF Body

\* Closing a submessage makes it a field of its parent, with the length it has.
LEMMA CommitContributes ==
    ASSUME Inv, NEW c \in Writer, Legal(c), NEW p, p = m_parent_writer[c], p # NULL,
           buf' = BufAfterClose(p)
    PROVE  SubSeq(buf', Start(p) + 1, Len(buf')) =
                Body(p) \o Nested!Contribution(MessageOf(c))
<1>1. /\ p \in Writer /\ p \in valid /\ c \in valid /\ HasChild(p) /\ ~HasChild(c)
      /\ TypeOK /\ buf \in Seq(Byte) /\ Len(buf) \in Nat /\ Len(buf) <= MaxBuf
      /\ Start(p) \in Nat /\ m_rollback_pos[p] \in Nat /\ m_pos[p] \in Nat
      /\ Start(c) = m_pos[p] /\ ReserveBytes \in Nat /\ MaxBuf <= MaxLength /\ MaxBuf \in Nat
      /\ MaxLength \in Nat
  BY StartFacts, LenProperties, ConstantFacts, BoundAssumption
     DEF Inv, TypeOK, Legal, HasChild, Children
<1>2. /\ Start(p) < m_pos[p] /\ m_pos[p] <= Len(buf) /\ 0 < m_pos[p]
      /\ Start(p) <= Len(buf)
  BY <1>1, ParentFacts
<1>3. /\ Body(p) \in Seq(Byte) /\ Body(c) \in Seq(Byte) /\ PendingKey(c) \in Seq(Byte)
      /\ PendingKey(c) = <<>> <=> Sized(c)
      /\ Len(Body(c)) = Len(buf) - m_pos[p]
  BY <1>1, BodyFacts, PendingKeyFacts DEF End
<1>4. Body(c) = SubSeq(buf, m_pos[p] + 1, Len(buf))
  BY <1>1 DEF Body, End
<1>5. MessageOf(c) = [parent |-> p, key |-> PendingKey(c), body |-> Body(c)]
  BY <1>1 DEF MessageOf
<1>6. Nested!Contribution(MessageOf(c)) =
        IF Sized(c) THEN Body(c)
        ELSE IF Body(c) = <<>> THEN <<>>
        ELSE (PendingKey(c) \o Varint[Len(Body(c))]) \o Body(c)
  BY <1>3, <1>5, MappedVarint DEF Nested!Contribution
<1>7. CASE Sized(c)
  <2>1. m_rollback_pos[p] = SizeIsKnown /\ buf' = buf
    BY <1>7 DEF Sized, BufAfterClose, NothingToClose
  <2>2. Body(p) = SubSeq(buf, Start(p) + 1, m_pos[p])
    BY <1>1, <2>1 DEF Body, End
  <2>3. SubSeq(buf, Start(p) + 1, m_pos[p]) \o SubSeq(buf, m_pos[p] + 1, Len(buf))
            = SubSeq(buf, Start(p) + 1, Len(buf))
    <3>1. /\ Start(p) + 1 \in 1 .. Len(buf) + 1
          /\ m_pos[p] \in (Start(p) + 1) - 1 .. Len(buf)
          /\ Len(buf) \in m_pos[p] .. Len(buf)
      BY <1>1, <1>2
    <3> QED  BY <1>1, <3>1, ConcatAdjacentSubSeq
  <2> QED  BY <1>4, <1>6, <1>7, <2>1, <2>2, <2>3
<1>8. CASE ~Sized(c)
  <2>1. /\ m_rollback_pos[p] # SizeIsKnown
        /\ buf' = Closed(buf, m_rollback_pos[p], m_pos[p])
    BY <1>1, <1>2, <1>8 DEF Sized, BufAfterClose, NothingToClose
  <2>2. /\ Start(p) <= m_rollback_pos[p] /\ m_rollback_pos[p] + ReserveBytes < m_pos[p]
    BY <1>1, <2>1, ParentFacts DEF Framed
  <2>3. m_rollback_pos[p] <= Len(buf) /\ \A i \in 1 .. m_rollback_pos[p] : buf[i] = buf[i]
    BY <1>1, <1>2, <2>2
  <2>4. CASE Len(buf) = m_pos[p]
    <3>1. buf' = Abandoned(buf, m_rollback_pos[p])
      BY <2>1, <2>4 DEF Closed
    <3>2. /\ buf' \in Seq(Byte) /\ Len(buf') = m_rollback_pos[p]
          /\ \A i \in 1 .. m_rollback_pos[p] : buf'[i] = buf[i]
      <4>1. /\ Abandoned(buf, m_rollback_pos[p]) \in Seq(Byte)
            /\ Len(Abandoned(buf, m_rollback_pos[p])) = m_rollback_pos[p]
            /\ \A i \in 1 .. m_rollback_pos[p] : Abandoned(buf, m_rollback_pos[p])[i] = buf[i]
        BY <1>1, <2>3, AbandonedFacts
      <4> QED  BY <3>1, <4>1
    <3>3. m_rollback_pos[p] <= Len(buf')
      BY <1>1, <3>2
    <3>4. SubSeq(buf', Start(p) + 1, Len(buf')) = Body(p)
      BY <1>1, <2>1, <3>2, <3>3, BodyBeforeHeader
    <3>5. Body(c) = <<>>
      BY <1>1, <1>3, <2>4, EmptySeq
    <3>6. Body(p) \o <<>> = Body(p)
      BY <1>3, ConcatEmptySeq
    <3> QED  BY <1>6, <1>8, <3>4, <3>5, <3>6
  <2>5. CASE Len(buf) # m_pos[p]
    <3> DEFINE to == m_pos[p] - ReserveBytes
               front == SubSeq(buf, 1, to)
               length == Varint[Len(Body(c))]
               header == front \o length
    <3>1. buf' = (front \o length) \o Body(c)
      <4>1. Len(Body(c)) \in Nat /\ Len(Body(c)) <= MaxLength
        BY <1>1, <1>2, <1>3
      <4>2. LengthType(Len(buf) - m_pos[p]) = Len(Body(c))
        BY <1>3, <4>1, LengthTypeFacts
      <4> QED  BY <1>4, <2>1, <2>5, <4>2 DEF Closed, Committed
    <3>2. length \in Seq(Byte)
      <4>1. Len(Body(c)) \in 0 .. MaxLength
        BY <1>1, <1>2, <1>3
      <4> QED  BY <4>1, VarintFits
    <3>3. to \in Nat /\ to <= Len(buf) /\ m_rollback_pos[p] <= to /\ Start(p) <= to
      BY <1>1, <1>2, <2>2
    <3> HIDE DEF to, length
    <3>4. /\ front \in Seq(Byte) /\ Len(front) = to
          /\ \A i \in 1 .. to : front[i] = buf[i]
      BY <1>1, <3>3, AbandonedFacts DEF Abandoned
    <3> HIDE DEF front
    <3>5. header \in Seq(Byte) /\ Len(front) <= Len(header)
      BY <3>2, <3>4, AppendFacts
    <3>6. Start(p) <= Len(header)
      <4>1. Len(header) \in Nat
        BY <3>5, LenProperties
      <4> QED  BY <1>1, <3>3, <3>4, <3>5, <4>1
    <3>7. SubSeq(buf', Start(p) + 1, Len(buf')) =
            SubSeq(header, Start(p) + 1, Len(header)) \o Body(c)
      <4> HIDE DEF header
      <4>1. SubSeq(header \o Body(c), Start(p) + 1, Len(header \o Body(c))) =
                SubSeq(header, Start(p) + 1, Len(header)) \o Body(c)
        BY <1>1, <1>3, <3>5, <3>6, PartAppended
      <4> QED  BY <3>1, <4>1 DEF header
    <3>8. SubSeq(header, Start(p) + 1, Len(header)) =
            SubSeq(front, Start(p) + 1, Len(front)) \o length
      BY <1>1, <3>2, <3>3, <3>4, PartAppended
    <3>9. SubSeq(front, Start(p) + 1, to) = SubSeq(buf, Start(p) + 1, to)
      <4>1. to <= Len(front)
        BY <3>3, <3>4
      <4> QED  BY <1>1, <3>3, <3>4, <4>1, PartKept, SMTT(30)
    <3>10. SubSeq(buf, Start(p) + 1, to) = Body(p) \o PendingKey(c)
      <4>1. /\ Start(p) + 1 \in 1 .. Len(buf) + 1
            /\ m_rollback_pos[p] \in (Start(p) + 1) - 1 .. Len(buf)
            /\ to \in m_rollback_pos[p] .. Len(buf)
        BY <1>1, <1>2, <2>2, <2>3, <3>3
      <4>2. SubSeq(buf, Start(p) + 1, m_rollback_pos[p]) \o SubSeq(buf, m_rollback_pos[p] + 1, to)
                = SubSeq(buf, Start(p) + 1, to)
        BY <1>1, <4>1, ConcatAdjacentSubSeq
      <4>3. SubSeq(buf, Start(p) + 1, m_rollback_pos[p]) = Body(p)
        BY <1>1, <2>1, <2>3, BodyBeforeHeader
      <4>4. PendingKey(c) = SubSeq(buf, m_rollback_pos[p] + 1, to)
        BY <1>8 DEF PendingKey, to
      <4> QED  BY <4>2, <4>3, <4>4
    <3>11. SubSeq(buf', Start(p) + 1, Len(buf')) =
                ((Body(p) \o PendingKey(c)) \o length) \o Body(c)
      BY <3>4, <3>7, <3>8, <3>9, <3>10
    <3>12. /\ (Body(p) \o PendingKey(c)) \o length = Body(p) \o (PendingKey(c) \o length)
           /\ PendingKey(c) \o length \in Seq(Byte)
      <4>1. PendingKey(c) \o length \in Seq(Byte)
        BY <1>3, <3>2, AppendFacts
      <4>2. (Body(p) \o PendingKey(c)) \o length = Body(p) \o (PendingKey(c) \o length)
        BY <1>3, <3>2, ConcatAssociative, SMTT(30)
      <4> QED  BY <4>1, <4>2
    <3>13. (Body(p) \o (PendingKey(c) \o length)) \o Body(c) =
                Body(p) \o ((PendingKey(c) \o length) \o Body(c))
      <4> DEFINE prefix == PendingKey(c) \o length
      <4>1. prefix \in Seq(Byte)
        BY <3>12
      <4> HIDE DEF prefix
      <4>2. (Body(p) \o prefix) \o Body(c) = Body(p) \o (prefix \o Body(c))
        BY <1>3, <4>1, ConcatAssociative, SMTT(30)
      <4> QED  BY <4>2 DEF prefix
    <3>14. Body(c) # <<>>
      BY <1>1, <1>2, <1>3, <2>5, EmptySeq
    <3> QED  BY <1>6, <1>8, <3>11, <3>12, <3>13, <3>14 DEF length
  <2> QED  BY <2>4, <2>5
<1> QED  BY <1>7, <1>8

LEMMA CloseRefines ==
    ASSUME Inv, Inv', NEW c \in Writer, m_parent_writer[c] # NULL,
           Commit(c) \/ Rollback(c) \/ Destroy(c), Legal(c), PrefixOf(m_parent_writer[c]),
           NEW p, p = m_parent_writer[c]
    PROVE  /\ Commit(c) \/ Destroy(c) => Nested!Commit(c)
           /\ Rollback(c) => Nested!Rollback(c)
<1> DEFINE part == SubSeq(buf', Start(p) + 1, Len(buf'))
<1>1. /\ p \in Writer /\ p \in valid /\ p # c /\ Nested!Active(c) /\ Text' = Text
      /\ \A v \in Writer \ {p, c} : MessageOf(v)' = MessageOf(v)
      /\ MessageOf(c)' = NULL
      /\ MessageOf(p)' = [MessageOf(p) EXCEPT !.body = part]
  BY Zenon, CloseLeaves
<1>2. Mapped /\ c \in valid /\ p # NULL
  BY MsgFacts DEF Legal
<1>3. Msg[c].parent = p /\ Msg[c] = MessageOf(c) /\ Msg[c].key = PendingKey(c)
  BY <1>2 DEF Mapped, Msg
<1>4. MessageOf(p) = [parent |-> m_parent_writer[p], key |-> PendingKey(p), body |-> Body(p)]
  BY <1>1 DEF MessageOf
<1>5. ASSUME Commit(c) \/ Destroy(c) PROVE Nested!Commit(c)
  <2>1. buf' = BufAfterClose(p)
    BY <1>2, <1>5 DEF Commit, Destroy
  <2>2. part = Body(p) \o Nested!Contribution(Msg[c])
    BY <1>2, <1>3, <2>1, CommitContributes
  <2> HIDE DEF part
  <2>3. Msg[p].body = Body(p) /\ MessageOf(p) = Msg[p] /\ c \in Writer
    BY <1>1, <1>2 DEF Mapped, Msg
  <2>4. Msg' = [Msg EXCEPT ![p].body = @ \o Nested!Contribution(Msg[c]), ![c] = NULL]
    <3>1. Msg' = [Msg EXCEPT ![p].body = part, ![c] = NULL]
      BY <1>1 DEF Msg
    <3> QED  BY <2>2, <2>3, <3>1
  <2>5. Nested!Commit(c)
    <3>1. Msg' = [Msg EXCEPT ![Msg[c].parent].body = @ \o Nested!Contribution(Msg[c]),
                             ![c] = NULL]
      BY <1>3, <2>4
    <3> QED  BY <1>1, <1>2, <1>3, <3>1 DEF Nested!Commit, Msg, MessageOf, Text
  <2> QED  BY <2>5
<1>6. ASSUME Rollback(c) PROVE Nested!Rollback(c)
  <2>1. /\ ~Sized(c) /\ buf' = Abandoned(buf, m_rollback_pos[p])
    BY <1>6 DEF Rollback
  <2>2. /\ m_rollback_pos[p] # SizeIsKnown /\ HasChild(p) /\ buf \in Seq(Byte)
        /\ m_rollback_pos[p] \in Nat /\ m_rollback_pos[p] <= Len(buf)
    BY <1>2, <2>1, StartFacts, RollbackInString DEF Sized, Inv, TypeOK
  <2>3. PendingKey(c) # <<>>
    BY <1>2, <2>1, PendingKeyFacts
  <2>4. part = Body(p)
    <3>1. /\ Abandoned(buf, m_rollback_pos[p]) \in Seq(Byte)
          /\ Len(Abandoned(buf, m_rollback_pos[p])) = m_rollback_pos[p]
          /\ \A i \in 1 .. m_rollback_pos[p] : Abandoned(buf, m_rollback_pos[p])[i] = buf[i]
      BY <2>2, AbandonedFacts
    <3>2. buf' \in Seq(Byte) /\ m_rollback_pos[p] <= Len(buf') /\ Len(buf') = m_rollback_pos[p]
      BY <2>1, <2>2, <3>1
    <3> QED  BY <1>1, <2>1, <2>2, <3>1, <3>2, BodyBeforeHeader, SMTT(30)
  <2> HIDE DEF part
  <2>5. MessageOf(p)' = MessageOf(p)
    BY <1>1, <1>4, <2>4
  <2>6. Msg' = [Msg EXCEPT ![c] = NULL]
    BY <1>1, <2>5 DEF Msg
  <2>7. Nested!Rollback(c)
    BY <1>1, <1>2, <1>3, <2>3, <2>6 DEF Nested!Rollback, Msg, MessageOf, Text
  <2> QED  BY <2>7
<1> QED  BY <1>5, <1>6

\* The outermost writer takes over the string and hands it back.
LEMMA RootRefines ==
    ASSUME Inv, Inv', NEW w \in Writer,
           Construct(w) \/ (Destroy(w) /\ m_parent_writer[w] = NULL), buf' = buf
    PROVE  \/ Construct(w) /\ Nested!Attach(w)
           \/ Destroy(w) /\ Nested!Detach(w) /\ valid' = {}
<1>1. /\ TypeOK /\ buf \in Seq(Byte) /\ Len(buf) \in Nat /\ valid \subseteq Writer
      /\ \A v \in Writer \ valid : m_parent_writer[v] = NULL
      /\ m_parent_writer \in [Writer -> valid \cup {NULL}]
  BY LenProperties DEF Inv, TypeOK
<1>2. SubSeq(buf, 0 + 1, Len(buf)) = buf
  BY <1>1, SubSeqFull
<1>3. CASE Construct(w)
  <2>1. valid = {} /\ valid' = {w} /\ m_parent_writer' = m_parent_writer
    BY <1>3 DEF Construct
  <2>2. m_parent_writer'[w] = NULL /\ ~HasChild(w)'
    BY <1>1, <2>1, WritersAssumption DEF HasChild, Children
  <2>3. MessageOf(w)' = [parent |-> NULL, key |-> <<>>, body |-> buf]
    BY <1>2, <2>1, <2>2 DEF MessageOf, PendingKey, Body, Start, End
  <2>4. Msg' = [Msg EXCEPT ![w] = [parent |-> NULL, key |-> <<>>, body |-> Text]]
    <3>1. \A v \in Writer \ {w} : MessageOf(v)' = MessageOf(v)
      BY <2>1 DEF MessageOf
    <3>2. Text = buf
      BY <2>1 DEF Text
    <3> QED  BY <2>3, <3>1, <3>2 DEF Msg
  <2>5. Text' = <<>> /\ \A v \in Writer : Msg[v] = NULL
    BY <2>1 DEF Text, Msg, MessageOf
  <2>6. Nested!Attach(w)
    BY <2>4, <2>5 DEF Nested!Attach, Nested!Message, Msg, MessageOf, Text
  <2> QED  BY <1>3, <2>6
<1>4. CASE Destroy(w) /\ m_parent_writer[w] = NULL
  <2>1. Legal(w) /\ valid' = valid \ {w} /\ ~HasChild(w) /\ w \in valid /\ Start(w) = 0
    BY <1>4, StartFacts DEF Destroy, Legal, HasChild, Inv
  <2>2. ASSUME NEW v \in valid, v # w PROVE FALSE
    <3>1. v \in Writer /\ HasChild(v) /\ m_pos[v] <= 0
      BY <1>1, <2>1, <2>2, LeafIsEnclosed
    <3>2. 0 < m_pos[v] /\ m_pos[v] \in Nat
      BY <3>1, ParentFacts, StartFacts DEF Inv
    <3> QED  BY <3>1, <3>2
  <2>3. valid' = {} /\ Text' = buf
    BY <2>1, <2>2 DEF Text
  <2>4. Body(w) = buf
    BY <1>2, <2>1 DEF Body, End
  <2>5. Msg' = [Msg EXCEPT ![w] = NULL]
    <3>1. \A v \in Writer : MessageOf(v)' = NULL
      BY <2>3 DEF MessageOf
    <3>2. \A v \in Writer \ {w} : MessageOf(v) = NULL
      BY <2>2 DEF MessageOf
    <3> QED  BY <3>1, <3>2 DEF Msg
  <2>6. Msg[w].parent = NULL /\ Msg[w].body = buf /\ Nested!Active(w)
    BY <1>4, <2>1, <2>4, MsgFacts, ActiveFacts DEF Mapped
  <2>7. Nested!Detach(w)
    BY <2>3, <2>5, <2>6 DEF Nested!Detach, Msg, MessageOf, Text
  <2> QED  BY <1>4, <2>3, <2>7
<1> QED  BY <1>3, <1>4

\* A moved or swapped writer takes its message along.
LEMMA RenameRefines ==
    ASSUME Inv, Inv', NEW v \in Writer, NEW w \in Writer, Move(v, w) \/ Swap(v, w)
    PROVE  Nested!Move(v, w)
<1>1. /\ Legal(v) /\ v \in valid /\ w \notin valid /\ v # w /\ buf' = buf
      /\ valid' = (valid \ {v}) \cup {w}
      /\ m_parent_writer' = [m_parent_writer EXCEPT ![w] = m_parent_writer[v], ![v] = NULL]
  BY DEF Move, Swap, Legal
<1>2. /\ TypeOK /\ valid \subseteq Writer /\ Len(buf) \in Nat
      /\ m_parent_writer'[w] = m_parent_writer[v] /\ m_parent_writer'[v] = NULL
      /\ \A u \in Writer \ {v, w} : m_parent_writer'[u] = m_parent_writer[u]
  BY <1>1, LenProperties DEF Inv, TypeOK
<1>3. \A u \in Writer \ {v, w} : m_pos'[u] = m_pos[u] /\ m_rollback_pos'[u] = m_rollback_pos[u]
  <2>1. CASE Move(v, w)
    BY <1>2, <2>1 DEF Move, TypeOK
  <2>2. CASE Swap(v, w)
    BY <1>2, <2>2 DEF Swap, TypeOK
  <2> QED  BY <2>1, <2>2
<1>4. \A u \in Writer : m_parent_writer[u] # v /\ m_parent_writer[u] # w
  BY <1>1, <1>2, StartFacts, WritersAssumption DEF Legal, Children
<1>5. /\ ~HasChild(w)' /\ ~HasChild(v)
      /\ \A u \in Writer \ {v, w} : HasChild(u) => HasChild(u)'
  <2>1. ~HasChild(w)'
    BY <1>1, <1>2, <1>4, WritersAssumption DEF HasChild, Children
  <2>2. ~HasChild(v)
    BY <1>1 DEF Legal, HasChild
  <2>3. ASSUME NEW u \in Writer \ {v, w}, HasChild(u) PROVE HasChild(u)'
    <3>1. PICK x \in Writer : m_parent_writer[x] = u
      BY <2>3 DEF HasChild, Children
    <3>2. m_parent_writer[w] = NULL
      BY <1>1 DEF Inv, TypeOK
    <3>3. x # w
      BY <3>1, <3>2, WritersAssumption
    <3>4. m_parent_writer'[x] = u \/ m_parent_writer'[w] = u
      BY <1>2, <3>1, <3>3
    <3> QED  BY <3>4 DEF HasChild, Children
  <2> QED  BY <2>1, <2>2, <2>3
<1>6. \A n \in Nat : n <= Len(buf) => Keeps(n)
  BY <1>1 DEF Keeps
<1>7. ASSUME NEW u \in valid, u # v
      PROVE  MessageOf(u)' = MessageOf(u)
  <2>1. u \in Writer \ {v, w} /\ HasChild(u) /\ m_pos[u] \in Nat /\ m_pos[u] <= Len(buf)
    BY <1>1, <1>2, <1>7, LeafIsEnclosed, ParentFacts, StartFacts
  <2>2. m_parent_writer[u] # NULL => m_parent_writer[u] \in Writer \ {v, w}
    BY <1>4, <2>1, StartFacts DEF Inv
  <2>3. u \in valid' /\ HasChild(u)' /\ Keeps(m_pos[u])
    BY <1>1, <1>5, <1>6, <1>7, <2>1
  <2> QED  BY <1>2, <1>3, <2>1, <2>2, <2>3, OtherKept
<1>8. MessageOf(w)' = MessageOf(v)
  <2>1. m_parent_writer[v] # NULL =>
            /\ m_parent_writer[v] \in Writer \ {v, w}
            /\ m_pos'[m_parent_writer[v]] = m_pos[m_parent_writer[v]]
            /\ m_rollback_pos'[m_parent_writer[v]] = m_rollback_pos[m_parent_writer[v]]
    BY <1>3, <1>4, StartFacts DEF Inv
  <2>2. Start(w)' = Start(v) /\ (Sized(w)' <=> Sized(v))
    BY <1>2, <2>1 DEF Start, Sized, SizeIsKnown
  <2>3. PendingKey(w)' = PendingKey(v)
    BY <1>1, <1>2, <2>1, <2>2 DEF PendingKey
  <2>4. Body(w)' = Body(v)
    BY <1>1, <1>5, <2>2 DEF Body, End
  <2>5. w \in valid'
    BY <1>1
  <2> QED  BY <1>1, <1>2, <2>3, <2>4, <2>5 DEF MessageOf
<1>9. Msg' = [Msg EXCEPT ![w] = Msg[v], ![v] = NULL]
  <2>1. \A u \in Writer \ {v, w} : MessageOf(u)' = MessageOf(u)
    BY <1>1, <1>7 DEF MessageOf
  <2>2. MessageOf(v)' = NULL
    BY <1>1 DEF MessageOf
  <2> QED  BY <1>1, <1>8, <2>1, <2>2 DEF Msg
<1>10. Text' = Text /\ Msg[w] = NULL /\ Nested!Active(v)
  BY <1>1, ActiveFacts DEF Text, Msg, MessageOf
<1> QED  BY <1>9, <1>10 DEF Nested!Move, Msg, MessageOf, Text

\* Calls that only report something leave every message as it is.
LEMMA ReportRefines ==
    ASSUME UNCHANGED <<buf, valid, m_parent_writer, m_rollback_pos, m_pos>>
    PROVE  UNCHANGED Nested!vars
BY DEF Nested!vars, PendingKey, Body, Start, End, HasChild, Children, Sized, SizeIsKnown

-----------------------------------------------------------------------------
(* The refinement.                                                          *)

LEMMA InitRefines == Init => Nested!Init
BY DEF Init, Nested!Init

\* A step of any writer is a step of NestedMessages or changes no message.
LEMMA NextRefines ==
    ASSUME Inv, [Next]_vars
    PROVE  [Nested!Next]_(Nested!vars)
<1> USE DEF Nested!Next
<1>1. Inv'
  BY NextInv
<1>2. ASSUME NEW w \in Writer, Nested!Extend(w) PROVE Nested!Next
  BY <1>2
<1>3. CASE UNCHANGED vars
  <2>1. UNCHANGED Nested!vars
    BY <1>3, ReportRefines DEF vars
  <2> QED  BY <2>1
<1>4. ASSUME NEW w \in Writer, Construct(w) \/ (Destroy(w) /\ m_parent_writer[w] = NULL)
      PROVE  Nested!Next
  BY <1>1, <1>4, RootStep, RootRefines
<1>5. ASSUME NEW w \in Writer, Destroy(w) \/ Commit(w) \/ Rollback(w)
      PROVE  Nested!Next
  <2>1. CASE m_parent_writer[w] = NULL
    BY <1>4, <1>5, <2>1 DEF Commit, Rollback
  <2>2. CASE m_parent_writer[w] # NULL
    BY <1>1, <1>5, <2>2, CloseStep, CloseRefines
  <2> QED  BY <2>1, <2>2
<1>6. ASSUME NEW p \in Writer, NEW c \in Writer, NEW tag \in Tags, NEW size \in Sizes,
             OpenSubmessage(p, c, tag, size)
      PROVE  Nested!Next
  BY <1>1, <1>6, OpenStep, OpenRefines
<1>7. ASSUME NEW p \in Writer, NEW tag \in Tags, NEW size \in Sizes, OpenThrows(p, tag, size)
      PROVE  Nested!Next
  <2>1. /\ Len(buf) <= Len(buf') /\ \A i \in 1 .. Len(buf) : buf'[i] = buf[i]
    BY <1>7, OpenThrowsStep
  <2>2. /\ Legal(p) /\ UNCHANGED links
        /\ \A v \in Writer \ {p} : m_pos'[v] = m_pos[v] /\ m_rollback_pos'[v] = m_rollback_pos[v]
    BY <1>7, MayUseIsLegal DEF OpenThrows, MayAdd, links, Inv, TypeOK
  <2> QED  BY <1>1, <1>2, <2>1, <2>2, AppendExtends
<1>8. ASSUME NEW v \in Writer, NEW w \in Writer, Move(v, w) \/ Swap(v, w)
      PROVE  Nested!Next
  BY <1>1, <1>8, RenameRefines
<1>9. ASSUME NEW w \in Writer,
             \/ \E f \in Fields : AddField(w, f) \/ AddFieldThrows(w, f)
             \/ \E e \in Elements : AddElement(w, e) \/ AddElementThrows(w, e)
             \/ \E tag \in Tags, range \in FixedRanges :
                  AddPackedFixed(w, tag, range) \/ AddPackedFixedThrows(w, tag, range)
      PROVE  Nested!Next
  <2>1. /\ Len(buf) <= Len(buf') /\ \A i \in 1 .. Len(buf) : buf'[i] = buf[i]
    BY <1>9, AddStep
  <2>2. MayUse(w) /\ UNCHANGED <<links, m_pos, m_rollback_pos>>
    BY <1>9 DEF AddField, AddFieldThrows, AddElement, AddElementThrows,
                AddPackedFixed, AddPackedFixedThrows, MayAdd
  <2> QED  BY <1>1, <1>2, <2>1, <2>2, MayUseIsLegal, AppendExtends
<1>10. ASSUME NEW w \in Writer, NEW tag \in Tags, NEW range \in PackedRanges,
              AddPacked(w, tag, range) \/ AddPackedThrows(w, tag, range)
       PROVE  Nested!Next
  <2>1. /\ Len(buf) <= Len(buf') /\ \A i \in 1 .. Len(buf) : buf'[i] = buf[i]
    BY <1>10, AddPackedStep
  <2>2. /\ Legal(w) /\ UNCHANGED links
        /\ \A v \in Writer \ {w} : m_pos'[v] = m_pos[v] /\ m_rollback_pos'[v] = m_rollback_pos[v]
    BY <1>10, MayUseIsLegal DEF AddPacked, AddPackedThrows, MayAdd, Inv, TypeOK
  <2> QED  BY <1>1, <1>2, <2>1, <2>2, AppendExtends
<1>11. ASSUME NEW w \in Writer, RollbackSized(w) \/ AddEmptyRange(w)
       PROVE  UNCHANGED Nested!vars
  BY <1>11, ReportRefines DEF RollbackSized, AddEmptyRange, links
<1>12. ASSUME NEW w \in Writer,
              \/ \E tag \in Tags : AddAborts(w, tag)
              \/ AddElementAborts(w) \/ CloseAborts(w)
       PROVE  UNCHANGED Nested!vars
  BY <1>12, ReportRefines DEF AddAborts, AddElementAborts, CloseAborts, Abort, links
<1> HIDE DEF Nested!Next
<1> QED  BY <1>3, <1>4, <1>5, <1>6, <1>7, <1>8, <1>9, <1>10, <1>11, <1>12 DEF Next

\* The writers that share one string, whatever they open, close, abandon, move
\* and fail at, do to the messages what NestedMessages does to a buffer for
\* each: the content of every open message, and the string the user gets in
\* the end, are the ones that specification allows.
THEOREM ImplementsNested == Spec => NestedSpec
<1>1. Inv /\ [Next]_vars => [Nested!Next]_(Nested!vars)
  BY NextRefines
<1> QED  BY <1>1, InitRefines, Invariance, PTL DEF Spec, NestedSpec, Nested!Spec
=============================================================================
