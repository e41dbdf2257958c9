------------------------- MODULE WellFormed_proofs --------------------------
(***************************************************************************)
(* What the writers leave in the string is a message: an invariant of the   *)
(* messages that NestedMessages_proofs maps the writers to, each of them    *)
(* whole unless an exception tore it or the header it ends with still waits *)
(* for the bytes a client owes.                                             *)
(***************************************************************************)
EXTENDS NestedMessages_proofs, WireParser_proofs

-----------------------------------------------------------------------------
(* The invariant.                                                           *)

\* The fields of s are complete but for the n bytes its last one has announced.
Headed(s, n) ==
    \E m, tag : /\ Parses(m) /\ TagInRange(tag)
                /\ s = m \o LengthHeader(tag, LengthType(n))

\* A submessage of announced size is open in w.
Awaits(w) == \E c \in valid : Msg[c].parent = w /\ Msg[c].key = <<>>

\* The outermost message, and every message a submessage is open in, can hold
\* fields; a submessage of announced size has no other open in it.
Typed ==
    /\ \A c \in valid : IF Msg[c].parent = NULL THEN c \notin PackedField
                        ELSE Msg[c].parent \notin PackedField
    /\ \A c \in valid : Msg[c].parent # NULL /\ Msg[Msg[c].parent].parent # NULL =>
                            Msg[Msg[c].parent].key # <<>>

Whole == \A w \in valid \ (PackedField \cup torn) : Awaits(w) \/ Parses(Msg[w].body)

\* A submessage of unknown length will be a length-delimited field ...
Keyable ==
    \A c \in valid : Msg[c].parent # NULL /\ Msg[c].key # <<>> =>
        \E tag : TagInRange(tag) /\ Msg[c].key = Key(tag, LengthDelimitedType)

\* ... and one of announced size is, when no bytes are owed any more.
Announced ==
    \A c \in valid :
        Msg[c].parent # NULL /\ Msg[c].key = <<>> /\ Msg[c].parent \notin torn =>
            Headed(Msg[Msg[c].parent].body, owed[c] + Len(Msg[c].body))

HandedBack == valid = {} /\ NULL \notin torn => Parses(Text)

Formed == Typed /\ Whole /\ Keyable /\ Announced /\ HandedBack

\* What the open writers are.
LEMMA OpenFacts ==
    ASSUME Inv, NEW c \in valid
    PROVE  /\ c \in Writer /\ c # NULL
           /\ Msg[c] = [parent |-> m_parent_writer[c], key |-> PendingKey(c), body |-> Body(c)]
           /\ Msg[c].parent = m_parent_writer[c] /\ Msg[c].parent \in (valid \ {c}) \cup {NULL}
           /\ Msg[c].key \in Seq(Byte) /\ Msg[c].body \in Seq(Byte)
           /\ Len(Msg[c].body) \in Nat /\ Len(Msg[c].body) <= MaxLength
           /\ Msg[c].parent # NULL => (Msg[c].key = <<>> <=> Sized(c))
           /\ owed[c] \in Nat
<1>1. /\ TypeOK /\ c \in Writer /\ c # NULL /\ owed[c] \in Nat
      /\ m_parent_writer[c] \in valid \cup {NULL} /\ Len(buf) \in Nat /\ Len(buf) <= MaxBuf
  BY ConstantFacts, LenProperties DEF Inv, TypeOK
<1>2. Msg[c] = [parent |-> m_parent_writer[c], key |-> PendingKey(c), body |-> Body(c)]
  BY <1>1 DEF Msg, MessageOf
<1>3. /\ PendingKey(c) \in Seq(Byte)
      /\ m_parent_writer[c] # NULL => (PendingKey(c) = <<>> <=> Sized(c))
  BY PendingKeyFacts
<1>4. /\ Body(c) \in Seq(Byte) /\ Len(Body(c)) \in Nat /\ Len(Body(c)) <= MaxLength
  <2>1. /\ Start(c) \in Nat /\ End(c) \in Nat /\ Start(c) <= End(c) /\ End(c) <= Len(buf)
        /\ Body(c) \in Seq(Byte) /\ Len(Body(c)) = End(c) - Start(c)
    BY BodyFacts
  <2>2. MaxBuf <= MaxLength /\ MaxBuf \in Nat /\ MaxLength \in Nat
    BY ConstantFacts, BoundAssumption
  <2> QED  BY <1>1, <2>1, <2>2
<1>5. m_parent_writer[c] # c
  <2> SUFFICES ASSUME m_parent_writer[c] = c PROVE FALSE
    OBVIOUS
  <2>1. HasChild(c) /\ Start(c) = m_pos[c]
    BY <1>1, StartFacts
  <2> QED  BY <1>1, <2>1, ParentFacts, StartFacts
<1> QED  BY <1>1, <1>2, <1>3, <1>4, <1>5

\* The innermost writer has no submessage open in it.
LEMMA LegalFacts ==
    ASSUME Inv, NEW w \in Writer, Legal(w)
    PROVE  w \in valid /\ (\A c \in valid : Msg[c].parent # w) /\ ~Awaits(w)
<1>1. ASSUME NEW c \in valid PROVE Msg[c].parent # w
  <2>1. c \in Writer /\ Msg[c].parent = m_parent_writer[c]
    BY OpenFacts
  <2>2. m_parent_writer[c] # w
    BY <2>1 DEF Legal, Children
  <2> QED  BY <2>1, <2>2
<1> QED  BY <1>1 DEF Legal, Awaits

LEMMA OneOpen ==
    ASSUME Inv, NEW c \in valid, NEW d \in valid, Msg[c].parent = Msg[d].parent,
           Msg[c].parent # NULL
    PROVE  c = d
<1>1. c \in Writer /\ Msg[c].parent = m_parent_writer[c]
  BY OpenFacts
<1>2. d \in Writer /\ Msg[d].parent = m_parent_writer[d]
  BY OpenFacts
<1> QED  BY <1>1, <1>2, OneChild

LEMMA FormedIsWellFormed == ASSUME Inv, Formed PROVE WellFormed
<1>1. ASSUME NEW w \in valid \ PackedField, w \notin torn,
             ~(HasChild(w) /\ m_rollback_pos[w] = SizeIsKnown)
      PROVE  IsMessage(Body(w))
  <2>1. ~Awaits(w)
    <3> SUFFICES ASSUME NEW c \in valid, Msg[c].parent = w, Msg[c].key = <<>> PROVE FALSE
      BY DEF Awaits
    <3>1. c \in Writer /\ m_parent_writer[c] = w /\ w # NULL /\ Sized(c)
      BY OpenFacts
    <3> QED  BY <1>1, <3>1 DEF Sized, HasChild, Children
  <2>2. Parses(Msg[w].body)
    BY <1>1, <2>1 DEF Formed, Whole
  <2>3. Msg[w].body = Body(w) /\ Body(w) \in Seq(Byte)
    <3>1. Msg[w] = [parent |-> m_parent_writer[w], key |-> PendingKey(w), body |-> Body(w)]
      BY <1>1, OpenFacts
    <3>2. Body(w) \in Seq(Byte)
      BY <1>1, BodyFacts
    <3> QED  BY <3>1, <3>2
  <2> QED  BY <2>2, <2>3, ParsesIsMessage
<1>2. ASSUME valid = {}, NULL \notin torn PROVE IsMessage(buf)
  <2>1. Parses(buf)
    BY <1>2 DEF Formed, HandedBack, Text
  <2> QED  BY <2>1, ParsesIsMessage DEF Inv, TypeOK
<1> QED  BY <1>1, <1>2 DEF WellFormed

-----------------------------------------------------------------------------
(* Adding fields.                                                           *)

\* x is appended to the innermost message w: whole fields, unless that tears w.
LEMMA AppendFormed ==
    ASSUME Inv, Inv', Formed, NEW w \in Writer, Legal(w), UNCHANGED links,
           NEW x \in Seq(Byte), Msg' = [Msg EXCEPT ![w].body = @ \o x],
           torn' \in {torn, torn \cup {w}}, w \in PackedField \cup torn' \/ Parses(x),
           \A v \in Writer \ {w} : owed'[v] = owed[v],
           Sized(w) => owed'[w] + Len(x) = owed[w]
    PROVE  Formed'
<1>1. /\ valid' = valid /\ w \in valid /\ (\A c \in valid : Msg[c].parent # w) /\ ~Awaits(w)
      /\ valid \subseteq Writer
  BY LegalFacts DEF links, Inv, TypeOK
<1>2. /\ \A c \in valid : Msg'[c].parent = Msg[c].parent /\ Msg'[c].key = Msg[c].key
      /\ \A c \in valid \ {w} : Msg'[c].body = Msg[c].body
      /\ Msg'[w].body = Msg[w].body \o x
  <2>1. Msg[w] = [parent |-> m_parent_writer[w], key |-> PendingKey(w), body |-> Body(w)]
    BY <1>1, OpenFacts
  <2>2. \A v \in Writer \ {w} : Msg'[v] = Msg[v]
    BY DEF Msg
  <2>3. Msg'[w] = [Msg[w] EXCEPT !.body = @ \o x]
    BY DEF Msg
  <2> QED  BY <1>1, <2>1, <2>2, <2>3
<1>3. \A v \in valid : Awaits(v)' <=> Awaits(v)
  BY <1>1, <1>2 DEF Awaits
<1>4. Typed'
  <2>1. \A c \in valid : Msg[c].parent \in valid \cup {NULL}
    BY OpenFacts
  <2> QED  BY <1>1, <1>2, <2>1 DEF Formed, Typed
<1>5. Keyable'
  BY <1>1, <1>2 DEF Formed, Keyable
<1>6. Whole'
  <2> SUFFICES ASSUME NEW v \in valid, v \notin PackedField, v \notin torn', ~Awaits(v)
               PROVE  Parses(Msg'[v].body)
    BY <1>1, <1>3 DEF Whole
  <2>1. Parses(Msg[v].body)
    BY DEF Formed, Whole
  <2>2. CASE v # w
    BY <1>2, <2>1, <2>2
  <2>3. CASE v = w
    BY <1>2, <2>1, <2>3, ConcatParses
  <2> QED  BY <2>2, <2>3
<1>7. Announced'
  <2> SUFFICES ASSUME NEW c \in valid, Msg[c].parent # NULL, Msg[c].key = <<>>,
                      Msg[c].parent \notin torn
               PROVE  Headed(Msg'[Msg[c].parent].body, owed'[c] + Len(Msg'[c].body))
    BY <1>1, <1>2 DEF Announced
  <2>1. Headed(Msg[Msg[c].parent].body, owed[c] + Len(Msg[c].body))
    BY DEF Formed, Announced
  <2>2. Msg'[Msg[c].parent].body = Msg[Msg[c].parent].body
    BY <1>1, <1>2, OpenFacts
  <2>3. owed'[c] + Len(Msg'[c].body) = owed[c] + Len(Msg[c].body)
    <3>1. CASE c # w
      BY <1>1, <1>2, <3>1
    <3>2. CASE c = w
      <4>1. owed'[w] + Len(x) = owed[w] /\ Len(Msg[w].body) \in Nat /\ Len(x) \in Nat
        BY <3>2, OpenFacts, LenProperties
      <4>2. Len(Msg'[w].body) = Len(Msg[w].body) + Len(x)
        <5> DEFINE b == Msg[w].body
        <5>1. b \in Seq(Byte) /\ Msg'[w].body = b \o x
          BY <1>1, <1>2, OpenFacts
        <5> HIDE DEF b
        <5>2. Len(b \o x) = Len(b) + Len(x)
          BY <5>1, AppendFacts
        <5> QED  BY <5>1, <5>2 DEF b
      <4>3. owed'[w] \in Nat
        BY DEF Inv, TypeOK
      <4> QED  BY <3>2, <4>1, <4>2, <4>3
    <3> QED  BY <3>1, <3>2
  <2> QED  BY <2>1, <2>2, <2>3
<1>8. HandedBack'
  BY <1>1 DEF HandedBack
<1> QED  BY <1>4, <1>5, <1>6, <1>7, <1>8 DEF Formed

-----------------------------------------------------------------------------
(* Opening and closing submessages.                                         *)

LEMMA OpenFormed ==
    ASSUME Inv, Inv', Formed, NEW p \in Writer, NEW c \in Writer, NEW tag \in Tags,
           NEW size \in Sizes, OpenSubmessage(p, c, tag, size),
           Len(buf) <= Len(buf'), \A i \in 1 .. Len(buf) : buf'[i] = buf[i]
    PROVE  Formed'
<1> DEFINE key == Key(tag, LengthDelimitedType)
           header == LengthHeader(tag, LengthType(size))
<1>1. /\ Legal(p) /\ TagInRange(tag) /\ p \notin PackedField /\ ~Sized(p) /\ c \notin valid
      /\ valid' = valid \cup {c} /\ torn' = torn /\ size \in Nat
      /\ owed'[c] = size /\ \A v \in Writer \ {c} : owed'[v] = owed[v]
  BY MayUseIsLegal, InputsAssumption DEF OpenSubmessage, MayAdd, Inv, TypeOK
<1>2. /\ p \in valid /\ p # c /\ (\A d \in valid : Msg[d].parent # p) /\ ~Awaits(p)
      /\ \A d \in valid : d \in Writer /\ d # c /\ Msg[d].parent \in valid \cup {NULL}
  BY <1>1, LegalFacts, OpenFacts
<1>3. p # NULL /\ c # NULL /\ NULL \notin valid
  BY WritersAssumption, <1>2
<1>4. /\ Msg'[c].parent = p /\ Msg'[c].body = <<>>
      /\ Msg'[c].key = <<>> \/ (size = 0 /\ Msg'[c].key = key)
      /\ \A d \in valid : Msg'[d].parent = Msg[d].parent /\ Msg'[d].key = Msg[d].key
      /\ \A d \in valid \ {p} : Msg'[d].body = Msg[d].body
      /\ size = 0 => Msg'[c].key = key /\ Msg'[p].body = Msg[p].body
      /\ size # 0 => Msg'[c].key = <<>> /\ Msg'[p].body = Msg[p].body \o header
  <2>1. Msg[p] = [parent |-> m_parent_writer[p], key |-> PendingKey(p), body |-> Body(p)]
    BY <1>2, OpenFacts
  <2>2. CASE size = 0
    <3>1. Msg' = [Msg EXCEPT ![c] = [parent |-> p, key |-> key, body |-> <<>>]]
      BY <2>2, OpenRefines
    <3>2. \A d \in Writer \ {c} : Msg'[d] = Msg[d]
      BY <3>1 DEF Msg
    <3>3. Msg'[c] = [parent |-> p, key |-> key, body |-> <<>>]
      BY <3>1 DEF Msg
    <3> QED  BY <1>2, <2>2, <3>2, <3>3
  <2>3. CASE size # 0
    <3>1. Msg' = [Msg EXCEPT ![p].body = @ \o header,
                             ![c] = [parent |-> p, key |-> <<>>, body |-> <<>>]]
      BY <2>3, OpenRefines
    <3>2. \A d \in Writer \ {p, c} : Msg'[d] = Msg[d]
      BY <3>1 DEF Msg
    <3>3. Msg'[c] = [parent |-> p, key |-> <<>>, body |-> <<>>]
      BY <3>1 DEF Msg
    <3>4. Msg'[p] = [Msg[p] EXCEPT !.body = @ \o header]
      BY <1>2, <3>1 DEF Msg
    <3>5. /\ Msg'[p].parent = Msg[p].parent /\ Msg'[p].key = Msg[p].key
          /\ Msg'[p].body = Msg[p].body \o header
      BY <2>1, <3>4
    <3>6. Msg'[c].parent = p /\ Msg'[c].key = <<>> /\ Msg'[c].body = <<>>
      BY <3>3
    <3>7. /\ \A d \in valid : Msg'[d].parent = Msg[d].parent /\ Msg'[d].key = Msg[d].key
          /\ \A d \in valid \ {p} : Msg'[d].body = Msg[d].body
      BY <1>2, <3>2, <3>5
    <3> QED  BY <2>3, <3>5, <3>6, <3>7
  <2> QED  BY <2>2, <2>3
<1> HIDE DEF key, header
<1>5. Typed'
  <2>1. Msg[p].parent # NULL => Msg[p].key # <<>>
    BY <1>1, <1>2, OpenFacts
  <2>2. ASSUME NEW d \in valid'
        PROVE  IF Msg'[d].parent = NULL THEN d \notin PackedField
               ELSE Msg'[d].parent \notin PackedField
    BY <1>1, <1>3, <1>4 DEF Formed, Typed
  <2>3. ASSUME NEW d \in valid', Msg'[d].parent # NULL, Msg'[Msg'[d].parent].parent # NULL
        PROVE  Msg'[Msg'[d].parent].key # <<>>
    <3>1. CASE d = c
      BY <1>2, <1>4, <2>1, <2>3, <3>1
    <3>2. CASE d # c
      <4>1. d \in valid /\ Msg'[d].parent = Msg[d].parent /\ Msg[d].parent \in valid
        BY <1>1, <1>2, <1>4, <2>3, <3>2
      <4> QED  BY <1>4, <2>3, <4>1 DEF Formed, Typed
    <3> QED  BY <3>1, <3>2
  <2> QED  BY <2>2, <2>3 DEF Typed
<1>6. Keyable'
  <2> SUFFICES ASSUME NEW d \in valid', Msg'[d].parent # NULL, Msg'[d].key # <<>>
               PROVE  \E t : TagInRange(t) /\ Msg'[d].key = Key(t, LengthDelimitedType)
    BY DEF Keyable
  <2>1. CASE d = c
    BY <1>1, <1>4, <2>1 DEF key
  <2>2. CASE d # c
    BY <1>1, <1>4, <2>2 DEF Formed, Keyable
  <2> QED  BY <2>1, <2>2
<1>7. Whole'
  <2> SUFFICES ASSUME NEW d \in valid', d \notin PackedField, d \notin torn', ~Awaits(d)'
               PROVE  Parses(Msg'[d].body)
    BY DEF Whole
  <2>1. CASE d = c
    BY <1>4, <2>1, EmptyParses
  <2>2. CASE d # c
    <3>1. d \in valid /\ Msg'[d].body = Msg[d].body
      <4>1. d # p \/ size = 0
        BY <1>1, <1>4 DEF Awaits
      <4> QED  BY <1>1, <1>4, <2>2, <4>1
    <3>2. ~Awaits(d)
      BY <1>1, <1>4 DEF Awaits
    <3> QED  BY <1>1, <3>1, <3>2 DEF Formed, Whole
  <2> QED  BY <2>1, <2>2
<1>8. Announced'
  <2> SUFFICES ASSUME NEW d \in valid', Msg'[d].parent # NULL, Msg'[d].key = <<>>,
                      Msg'[d].parent \notin torn'
               PROVE  Headed(Msg'[Msg'[d].parent].body, owed'[d] + Len(Msg'[d].body))
    BY DEF Announced
  <2>1. CASE d = c
    <3>1. size # 0
      <4>1. key # <<>>
        BY EmptySeq, VarintFits DEF key
      <4> QED  BY <1>4, <2>1, <4>1
    <3>2. Parses(Msg[p].body)
      BY <1>1, <1>2, <1>4, <2>1 DEF Formed, Whole
    <3>3. Headed(Msg[p].body \o header, size)
      BY <1>1, <3>2 DEF Headed, header
    <3>4. owed'[d] + Len(Msg'[d].body) = size
      BY <1>1, <1>4, <2>1
    <3> QED  BY <1>4, <2>1, <3>1, <3>3, <3>4
  <2>2. CASE d # c
    <3>1. /\ d \in valid /\ d \in Writer /\ Msg[d].parent # NULL /\ Msg[d].key = <<>>
          /\ Msg'[d].parent = Msg[d].parent /\ Msg[d].parent \in valid
      BY <1>1, <1>2, <1>4, <2>2
    <3>2. Headed(Msg[Msg[d].parent].body, owed[d] + Len(Msg[d].body))
      BY <1>1, <3>1 DEF Formed, Announced
    <3>3. Msg'[Msg[d].parent].body = Msg[Msg[d].parent].body
      BY <1>2, <1>4, <3>1
    <3>4. d # p
      <4>1. Msg[p].parent # NULL => Msg[p].key # <<>>
        BY <1>1, <1>2, OpenFacts
      <4> QED  BY <3>1, <4>1
    <3>5. owed'[d] + Len(Msg'[d].body) = owed[d] + Len(Msg[d].body)
      BY <1>1, <1>4, <2>2, <3>1, <3>4
    <3> QED  BY <3>1, <3>2, <3>3, <3>5
  <2> QED  BY <2>1, <2>2
<1>9. HandedBack'
  BY <1>1 DEF HandedBack
<1> QED  BY <1>5, <1>6, <1>7, <1>8, <1>9 DEF Formed

\* What closing a submessage adds completes the message it is in.
LEMMA ContributionParses ==
    ASSUME Inv, Formed, NEW c \in valid, NEW p, p = Msg[c].parent, p # NULL, p \notin torn,
           owed[c] = 0
    PROVE  Parses(Msg[p].body \o Nested!Contribution(Msg[c]))
<1> DEFINE a == Msg[p].body
           k == Msg[c].key
           b == Msg[c].body
<1>1. /\ p \in valid /\ p \notin PackedField /\ a \in Seq(Byte)
      /\ k \in Seq(Byte) /\ b \in Seq(Byte) /\ Len(b) \in Nat /\ Len(b) <= MaxLength
  <2>1. /\ p \in valid /\ k \in Seq(Byte) /\ b \in Seq(Byte)
        /\ Len(b) \in Nat /\ Len(b) <= MaxLength
    BY OpenFacts
  <2>2. a \in Seq(Byte)
    BY <2>1, OpenFacts
  <2> QED  BY <2>1, <2>2 DEF Formed, Typed
<1>2. CASE k = <<>>
  <2>1. Headed(a, owed[c] + Len(b))
    BY <1>2 DEF Formed, Announced
  <2>2. Nested!Contribution(Msg[c]) = b
    BY <1>2 DEF Nested!Contribution
  <2>3. owed[c] + Len(b) = Len(b)
    BY <1>1
  <2> HIDE DEF a, b, k
  <2>4. PICK m, tag : /\ Parses(m) /\ TagInRange(tag)
                      /\ a = m \o LengthHeader(tag, LengthType(Len(b)))
    BY <2>1, <2>3 DEF Headed
  <2> DEFINE h == LengthHeader(tag, Len(b))
  <2>5. a = m \o h
    BY <1>1, <2>4, LengthTypeFacts
  <2>6. m \in Seq(Byte) /\ h \in Seq(Byte)
    BY <1>1, <2>4, HeaderIsBytes DEF Parses
  <2>7. Parses(h \o b)
    BY <1>1, <2>4, BytesFieldParses
  <2> HIDE DEF h
  <2>8. (m \o h) \o b = m \o (h \o b)
    BY <1>1, <2>6, ConcatAssociative
  <2>9. Parses(a \o b)
    BY <2>4, <2>5, <2>7, <2>8, ConcatParses
  <2> QED  BY <2>2, <2>9 DEF a
<1>3. CASE k # <<>>
  <2>1. ~Awaits(p)
    <3> SUFFICES ASSUME NEW d \in valid, Msg[d].parent = p, Msg[d].key = <<>> PROVE FALSE
      BY DEF Awaits
    <3>1. c = d
      BY OneOpen
    <3> QED  BY <1>3, <3>1
  <2>2. Parses(a)
    BY <1>1, <2>1 DEF Formed, Whole
  <2>3. PICK tag : TagInRange(tag) /\ k = Key(tag, LengthDelimitedType)
    BY <1>3 DEF Formed, Keyable
  <2>4. CASE b = <<>>
    <3>1. Nested!Contribution(Msg[c]) = <<>>
      BY <1>3, <2>4 DEF Nested!Contribution
    <3>2. Parses(a \o <<>>)
      BY <2>2, EmptyParses, ConcatParses
    <3> QED  BY <3>1, <3>2 DEF a
  <2>5. CASE b # <<>>
    <3>1. Nested!Contribution(Msg[c]) = (k \o Varint[Len(b)]) \o b
      BY <1>3, <2>5, MappedVarint DEF Nested!Contribution
    <3>2. (k \o Varint[Len(b)]) \o b = LengthHeader(tag, Len(b)) \o b
      BY <2>3 DEF LengthHeader
    <3> HIDE DEF a, b, k
    <3>3. Parses(LengthHeader(tag, Len(b)) \o b)
      BY <1>1, <2>3, BytesFieldParses
    <3>4. Parses(a \o (LengthHeader(tag, Len(b)) \o b))
      BY <2>2, <3>3, ConcatParses
    <3> QED  BY <3>1, <3>2, <3>4 DEF a
  <2> QED  BY <2>4, <2>5
<1> QED  BY <1>2, <1>3

\* The innermost message c ends and its parent's becomes y.
LEMMA EndFormed ==
    ASSUME Inv, Formed, NEW c \in Writer, Legal(c), NEW p, p = Msg[c].parent, p # NULL,
           NEW y, Msg' = [Msg EXCEPT ![p].body = y, ![c] = NULL],
           p \notin PackedField \cup torn => Parses(y),
           valid' = valid \ {c}, torn' = torn \ {c}, owed' = [owed EXCEPT ![c] = 0]
    PROVE  Formed'
<1>1. /\ c \in valid /\ p \in valid /\ p # c /\ (\A d \in valid : Msg[d].parent # c)
      /\ valid \subseteq Writer /\ p \notin PackedField
      /\ \A d \in valid : Msg[d].parent \in valid \cup {NULL}
      /\ \A d \in valid : Msg[d].parent = p => d = c
  <2>1. c \in valid /\ (\A d \in valid : Msg[d].parent # c)
    BY LegalFacts
  <2>2. p \in valid /\ p # c
    BY <2>1, OpenFacts
  <2>3. /\ \A d \in valid : Msg[d].parent \in valid \cup {NULL}
        /\ \A d \in valid : Msg[d].parent = p => d = c
    BY <2>1, OpenFacts, OneOpen
  <2> QED  BY <2>1, <2>2, <2>3 DEF Formed, Typed, Inv, TypeOK
<1>2. /\ \A d \in valid' : Msg'[d].parent = Msg[d].parent /\ Msg'[d].key = Msg[d].key
      /\ \A d \in valid' \ {p} : Msg'[d].body = Msg[d].body
      /\ Msg'[p].body = y
      /\ \A d \in valid' : owed'[d] = owed[d]
  <2>1. Msg[p] = [parent |-> m_parent_writer[p], key |-> PendingKey(p), body |-> Body(p)]
    BY <1>1, OpenFacts
  <2>2. \A d \in Writer \ {p, c} : Msg'[d] = Msg[d]
    BY DEF Msg
  <2>3. Msg'[p] = [Msg[p] EXCEPT !.body = y]
    BY <1>1 DEF Msg
  <2>4. Msg'[p].parent = Msg[p].parent /\ Msg'[p].key = Msg[p].key /\ Msg'[p].body = y
    BY <2>1, <2>3
  <2>5. \A d \in valid' : owed'[d] = owed[d]
    BY <1>1 DEF Inv, TypeOK
  <2> QED  BY <1>1, <2>2, <2>4, <2>5
<1>3. Typed'
  <2>1. ASSUME NEW d \in valid'
        PROVE  IF Msg'[d].parent = NULL THEN d \notin PackedField
               ELSE Msg'[d].parent \notin PackedField
    <3>1. d \in valid /\ Msg'[d].parent = Msg[d].parent
      BY <1>2, <2>1
    <3> QED  BY <3>1 DEF Formed, Typed
  <2>2. ASSUME NEW d \in valid', Msg'[d].parent # NULL, Msg'[Msg'[d].parent].parent # NULL
        PROVE  Msg'[Msg'[d].parent].key # <<>>
    <3>1. d \in valid /\ d \in valid' /\ Msg'[d].parent = Msg[d].parent
      BY <1>2, <2>2
    <3>2. Msg[d].parent \in valid'
      BY <1>1, <2>2, <3>1
    <3>3. /\ Msg'[Msg[d].parent].parent = Msg[Msg[d].parent].parent
          /\ Msg'[Msg[d].parent].key = Msg[Msg[d].parent].key
      BY <1>2, <3>2
    <3> QED  BY <2>2, <3>1, <3>3 DEF Formed, Typed
  <2> QED  BY <2>1, <2>2 DEF Typed
<1>4. Keyable'
  <2> SUFFICES ASSUME NEW d \in valid', Msg'[d].parent # NULL, Msg'[d].key # <<>>
               PROVE  \E t : TagInRange(t) /\ Msg'[d].key = Key(t, LengthDelimitedType)
    BY DEF Keyable
  <2>1. d \in valid /\ Msg'[d].parent = Msg[d].parent /\ Msg'[d].key = Msg[d].key
    BY <1>2
  <2> QED  BY <2>1 DEF Formed, Keyable
<1>5. Whole'
  <2> SUFFICES ASSUME NEW d \in valid', d \notin PackedField, d \notin torn', ~Awaits(d)'
               PROVE  Parses(Msg'[d].body)
    BY DEF Whole
  <2>1. CASE d = p
    BY <1>2, <2>1
  <2>2. CASE d # p
    <3>1. ~Awaits(d)
      BY <1>1, <1>2, <2>2 DEF Awaits
    <3> QED  BY <1>2, <2>2, <3>1 DEF Formed, Whole
  <2> QED  BY <2>1, <2>2
<1>6. Announced'
  <2> SUFFICES ASSUME NEW d \in valid', Msg[d].parent # NULL, Msg[d].key = <<>>,
                      Msg[d].parent \notin torn'
               PROVE  Headed(Msg'[Msg[d].parent].body, owed'[d] + Len(Msg'[d].body))
    BY <1>2 DEF Announced
  <2>1. Msg[d].parent \in valid' /\ Msg[d].parent # p /\ Msg[d].parent \notin torn
    BY <1>1
  <2>2. Headed(Msg[Msg[d].parent].body, owed[d] + Len(Msg[d].body))
    BY <2>1 DEF Formed, Announced
  <2>3. d # p
    BY <1>1 DEF Formed, Typed
  <2> QED  BY <1>2, <2>1, <2>2, <2>3
<1>7. HandedBack'
  BY <1>1 DEF HandedBack
<1> QED  BY <1>3, <1>4, <1>5, <1>6, <1>7 DEF Formed

LEMMA CloseFormed ==
    ASSUME Inv, Inv', Formed, NEW c \in Writer, m_parent_writer[c] # NULL,
           Commit(c) \/ Rollback(c) \/ Destroy(c), Legal(c), PrefixOf(m_parent_writer[c])
    PROVE  Formed'
<1> DEFINE p == m_parent_writer[c]
<1>1. c \in valid /\ Msg[c].parent = p /\ p # NULL /\ p \in valid /\ p # c
  BY LegalFacts, OpenFacts
<1>2. /\ valid' = valid \ {c} /\ torn' = torn \ {c} /\ owed' = [owed EXCEPT ![c] = 0]
  BY <1>1 DEF Commit, Rollback, Destroy, Invalidate
<1>3. CASE Commit(c) \/ Destroy(c)
  <2> DEFINE y == Msg[p].body \o Nested!Contribution(Msg[c])
  <2>1. Nested!Commit(c)
    BY <1>3, CloseRefines
  <2>2. Msg' = [Msg EXCEPT ![Msg[c].parent].body = @ \o Nested!Contribution(Msg[c]),
                           ![c] = NULL]
    BY <2>1 DEF Nested!Commit, Msg, MessageOf
  <2>3. Msg' = [Msg EXCEPT ![p].body = y, ![c] = NULL]
    BY <1>1, <2>2
  <2>4. owed[c] = 0
    BY <1>3 DEF Commit, Destroy, PromiseKept
  <2>5. p \notin PackedField \cup torn => Parses(y)
    BY <1>1, <2>4, ContributionParses
  <2> HIDE DEF y, p
  <2> QED  BY <1>1, <1>2, <2>3, <2>5, EndFormed
<1>4. CASE Rollback(c)
  <2> DEFINE y == Msg[p].body
  <2>1. Nested!Rollback(c)
    BY <1>4, CloseRefines
  <2>2. Msg' = [Msg EXCEPT ![c] = NULL]
    BY <2>1 DEF Nested!Rollback, Msg, MessageOf
  <2>3. Msg' = [Msg EXCEPT ![p].body = y, ![c] = NULL]
    <3>1. Msg[p] = [parent |-> m_parent_writer[p], key |-> PendingKey(p), body |-> Body(p)]
      BY <1>1, OpenFacts
    <3>2. [Msg[p] EXCEPT !.body = y] = Msg[p]
      BY <3>1
    <3> QED  BY <1>1, <2>2, <3>2 DEF Msg
  <2>4. p \notin PackedField \cup torn => Parses(y)
    <3>1. Msg[c].key # <<>>
      BY <1>1, <1>4, OpenFacts DEF Rollback
    <3>2. ~Awaits(p)
      BY <1>1, <3>1, OneOpen DEF Awaits
    <3> QED  BY <1>1, <3>2 DEF Formed, Whole
  <2> HIDE DEF y, p
  <2> QED  BY <1>1, <1>2, <2>3, <2>4, EndFormed
<1> QED  BY <1>3, <1>4

LEMMA RootFormed ==
    ASSUME Inv, Inv', Formed, NEW w \in Writer,
           Construct(w) \/ (Destroy(w) /\ m_parent_writer[w] = NULL), buf' = buf
    PROVE  Formed'
<1>1. CASE Construct(w) /\ Nested!Attach(w)
  <2>1. /\ valid = {} /\ valid' = {w} /\ w \notin PackedField
        /\ torn' = IF NULL \in torn THEN {w} ELSE {}
    BY <1>1 DEF Construct
  <2>2. Msg' = [Msg EXCEPT ![w] = [parent |-> NULL, key |-> <<>>, body |-> Text]]
    BY <1>1 DEF Nested!Attach, Nested!Message, Msg, MessageOf, Text
  <2>3. /\ Msg'[w] = [parent |-> NULL, key |-> <<>>, body |-> Text]
    BY <2>2 DEF Msg
  <2>4. Msg'[w].parent = NULL /\ Msg'[w].key = <<>> /\ Msg'[w].body = Text
    BY <2>3
  <2>5. w \notin torn' => Parses(Text)
    BY <2>1 DEF Formed, HandedBack
  <2> QED  BY <2>1, <2>4, <2>5 DEF Formed, Typed, Whole, Keyable, Announced, HandedBack
<1>2. CASE Destroy(w) /\ Nested!Detach(w) /\ valid' = {}
  <2>2. Legal(w) /\ w \in valid /\ ~Awaits(w)
    BY <1>2, LegalFacts DEF Destroy
  <2>3. Text' = Msg[w].body /\ Msg[w].parent = NULL
    BY <1>2 DEF Nested!Detach, Msg, MessageOf, Text
  <2>4. w \in torn => torn' = {NULL}
    <3>1. m_parent_writer[w] = NULL
      BY <2>2, <2>3, OpenFacts
    <3> QED  BY <1>2, <3>1 DEF Destroy
  <2>5. NULL \notin torn' => Parses(Text')
    BY <2>2, <2>3, <2>4 DEF Formed, Typed, Whole
  <2> QED  BY <1>2, <2>5 DEF Formed, Typed, Whole, Keyable, Announced, HandedBack
<1> QED  BY <1>1, <1>2, RootRefines

LEMMA RenameFormed ==
    ASSUME Inv, Inv', Formed, NEW v \in Writer, NEW w \in Writer, Move(v, w) \/ Swap(v, w)
    PROVE  Formed'
<1>1. /\ Legal(v) /\ w \notin valid /\ v \in valid /\ v # w
      /\ valid' = (valid \ {v}) \cup {w} /\ torn' = Renamed(v, w)
      /\ (v \in PackedField <=> w \in PackedField)
      /\ owed'[w] = owed[v] /\ \A u \in Writer \ {v, w} : owed'[u] = owed[u]
  BY DEF Move, Swap, SameType, Legal, Inv, TypeOK
<1>2. /\ \A u \in valid : Msg[u].parent # v /\ Msg[u].parent \in valid \cup {NULL}
      /\ valid \subseteq Writer /\ NULL \notin valid /\ ~Awaits(v) /\ v # NULL /\ w # NULL
  BY <1>1, LegalFacts, OpenFacts, WritersAssumption DEF Inv, TypeOK
<1>3. Msg'[w] = Msg[v] /\ \A u \in valid \ {v} : Msg'[u] = Msg[u]
  <2>1. Nested!Move(v, w)
    BY RenameRefines
  <2>2. Msg' = [Msg EXCEPT ![w] = Msg[v], ![v] = NULL]
    BY <2>1 DEF Nested!Move, Msg, MessageOf
  <2> QED  BY <1>1, <1>2, <2>2 DEF Msg
<1>4. /\ \A u \in valid \ {v} : u \notin torn' => u \notin torn
      /\ w \notin torn' => v \notin torn
  BY <1>1 DEF Renamed
<1>5. \A u \in valid \ {v} : Awaits(u) => Awaits(u)'
  BY <1>1, <1>3 DEF Awaits
<1>6. \A u \in valid : Msg[u].parent # NULL =>
            /\ Msg[u].parent \in valid \ {v} /\ Msg'[Msg[u].parent] = Msg[Msg[u].parent]
  BY <1>2, <1>3
<1>7. Typed'
  <2>1. ASSUME NEW d \in valid'
        PROVE  IF Msg'[d].parent = NULL THEN d \notin PackedField
               ELSE Msg'[d].parent \notin PackedField
    BY <1>1, <1>3 DEF Formed, Typed
  <2>2. ASSUME NEW d \in valid', Msg'[d].parent # NULL, Msg'[Msg'[d].parent].parent # NULL
        PROVE  Msg'[Msg'[d].parent].key # <<>>
    <3>1. PICK u \in valid : Msg'[d] = Msg[u]
      BY <1>1, <1>3
    <3> QED  BY <1>6, <2>2, <3>1 DEF Formed, Typed
  <2> QED  BY <2>1, <2>2 DEF Typed
<1>8. Keyable'
  BY <1>1, <1>3 DEF Formed, Keyable
<1>9. Whole'
  <2> SUFFICES ASSUME NEW d \in valid', d \notin PackedField, d \notin torn', ~Awaits(d)'
               PROVE  Parses(Msg'[d].body)
    BY DEF Whole
  <2>1. CASE d = w
    BY <1>1, <1>2, <1>3, <1>4, <2>1 DEF Formed, Whole
  <2>2. CASE d # w
    BY <1>1, <1>3, <1>4, <1>5, <2>2 DEF Formed, Whole
  <2> QED  BY <2>1, <2>2
<1>10. Announced'
  <2> SUFFICES ASSUME NEW d \in valid', Msg'[d].parent # NULL, Msg'[d].key = <<>>,
                      Msg'[d].parent \notin torn'
               PROVE  Headed(Msg'[Msg'[d].parent].body, owed'[d] + Len(Msg'[d].body))
    BY DEF Announced
  <2>1. PICK u \in valid : Msg'[d] = Msg[u] /\ owed'[d] = owed[u]
    BY <1>1, <1>2, <1>3
  <2>2. Msg[u].parent \in valid \ {v} /\ Msg'[Msg[u].parent] = Msg[Msg[u].parent]
    BY <1>6, <2>1
  <2>3. Headed(Msg[Msg[u].parent].body, owed[u] + Len(Msg[u].body))
    BY <1>4, <2>1, <2>2 DEF Formed, Announced
  <2> QED  BY <2>1, <2>2, <2>3
<1>11. HandedBack'
  BY <1>1 DEF HandedBack
<1> QED  BY <1>7, <1>8, <1>9, <1>10, <1>11 DEF Formed

LEMMA ReportFormed ==
    ASSUME Formed,
           UNCHANGED <<buf, valid, m_parent_writer, m_rollback_pos, m_pos, owed, torn>>
    PROVE  Formed'
<1>1. Msg' = Msg /\ Text' = Text
  BY ReportRefines DEF Nested!vars, Msg, MessageOf, Text
<1> QED  BY <1>1 DEF Formed, Typed, Whole, Awaits, Keyable, Announced, HandedBack

-----------------------------------------------------------------------------
(* The calls that add fields.                                               *)

\* What a call puts behind the innermost message w, with the positions of the
\* others as they were.
LEMMA PutFormed ==
    ASSUME Inv, Inv', Formed, NEW w \in Writer, Legal(w), UNCHANGED links,
           NEW x \in Seq(Byte), buf' = buf \o x,
           \A v \in Writer \ {w} : m_pos'[v] = m_pos[v] /\ m_rollback_pos'[v] = m_rollback_pos[v],
           torn' \in {torn, torn \cup {w}}, w \in PackedField \cup torn' \/ Parses(x),
           Spend(w, Len(x)) \/ (UNCHANGED owed /\ ~Sized(w))
    PROVE  Formed'
<1>1. buf \in Seq(Byte) /\ owed \in [Writer -> Nat] /\ Len(x) \in Nat
  BY LenProperties DEF Inv, TypeOK
<1>2. Len(buf) <= Len(buf') /\ \A i \in 1 .. Len(buf) : buf'[i] = buf[i]
  BY <1>1, AppendFacts
<1>3. Msg' = [Msg EXCEPT ![w].body = @ \o x]
  BY <1>2, AppendExtends
<1>4. /\ \A v \in Writer \ {w} : owed'[v] = owed[v]
      /\ Sized(w) => owed'[w] + Len(x) = owed[w]
  <2>1. CASE Spend(w, Len(x))
    <3>1. owed' = [owed EXCEPT ![w] = IF Sized(w) THEN owed[w] - Len(x) ELSE owed[w]]
      BY <2>1 DEF Spend
    <3> QED  BY <1>1, <3>1
  <2>2. CASE UNCHANGED owed /\ ~Sized(w)
    BY <2>2
  <2> QED  BY <2>1, <2>2
<1> QED  BY <1>3, <1>4, AppendFormed

\* Every field a client adds is complete by itself.
LEMMA FieldParses ==
    ASSUME NEW f \in Fields, TagInRange(f.tag), Len(f.put.tail) <= MaxLength
    PROVE  Parses(Bytes(f.put))
<1> DEFINE tag == f.tag
           value == f.put.tail
<1>1. value \in Seq(Byte) /\ TagInRange(tag) /\ Len(value) <= MaxLength
  BY InputsAssumption DEF PutSet
<1>2. \/ \E n \in 0 .. 2^ValueBits - 1 : f = VarintField(tag, n)
      \/ \E truth \in BOOLEAN : f = BoolField(tag, truth)
      \/ \E type \in {Fixed32Type, Fixed64Type} :
            f = FixedField(tag, type, value) /\ Len(value) = FixedSize(type)
      \/ f = BytesField(tag, value)
  BY FieldsAssumption
<1> HIDE DEF tag, value
<1>3. ASSUME NEW n \in 0 .. 2^ValueBits - 1, f = VarintField(tag, n)
      PROVE  Parses(Bytes(f.put))
  <2>1. 2^ValueBits \in Nat
    BY PowerAssumption
  <2>2. Parses(Key(tag, VarintType) \o Varint[n])
    BY <1>1, <2>1, VarintFieldParses
  <2>3. Bytes(f.put) = (Key(tag, VarintType) \o Varint[n]) \o <<>>
    BY <1>3 DEF VarintField, Bytes
  <2> QED  BY <2>2, <2>3, EmptyParses, ConcatParses
<1>4. ASSUME NEW truth \in BOOLEAN, f = BoolField(tag, truth)
      PROVE  Parses(Bytes(f.put))
  <2> DEFINE n == IF truth THEN 1 ELSE 0
  <2>1. n \in Nat /\ n < Radix
    BY RadixAssumption
  <2>2. n < 2^ValueBits
    <3>1. LengthModulus <= 2^ValueBits /\ LengthModulus >= 8
      BY LengthAssumption, KeyAssumption
    <3>2. LengthModulus \in Nat /\ 2^ValueBits \in Nat
      BY RadixAssumption, PowerAssumption
    <3> QED  BY <2>1, <3>1, <3>2
  <2>3. Varint[n] = <<n>>
    BY <2>1, VarintIs
  <2>4. Parses(Key(tag, VarintType) \o Varint[n])
    BY <1>1, <2>1, <2>2, VarintFieldParses
  <2>5. Bytes(f.put) = Key(tag, VarintType) \o <<n>>
    BY <1>4 DEF BoolField, Bytes
  <2> QED  BY <2>3, <2>4, <2>5
<1>5. ASSUME NEW type \in {Fixed32Type, Fixed64Type}, f = FixedField(tag, type, value),
             Len(value) = FixedSize(type)
      PROVE  Parses(Bytes(f.put))
  <2>1. Parses(Key(tag, type) \o value)
    BY <1>1, <1>5, FixedFieldParses
  <2>2. Bytes(f.put) = Key(tag, type) \o value
    BY <1>5 DEF FixedField, Bytes
  <2> QED  BY <2>1, <2>2
<1>6. ASSUME f = BytesField(tag, value)
      PROVE  Parses(Bytes(f.put))
  <2>1. Parses(LengthHeader(tag, Len(value)) \o value)
    BY <1>1, BytesFieldParses
  <2>2. Bytes(f.put) = LengthHeader(tag, Len(value)) \o value
    BY <1>6 DEF BytesField, Bytes
  <2> QED  BY <2>1, <2>2
<1> QED  BY <1>2, <1>3, <1>4, <1>5, <1>6

\* What an allocation leaves of a put or a header is bytes.
LEMMA CutIsBytes ==
    ASSUME NEW s \in Seq(Byte), NEW n \in 0 .. Len(s)
    PROVE  SubSeq(s, 1, n) \in Seq(Byte)
<1>1. Len(s) \in Nat
  BY LenProperties
<1>2. n \in Nat /\ n <= Len(s) /\ \A i \in 1 .. n : s[i] \in Byte
  BY <1>1, ElementOfSeq
<1> QED  BY <1>2, SubSeqProperties

LEMMA AddFormed ==
    ASSUME Inv, Inv', Formed, NEW w \in Writer,
           \/ \E f \in Fields : AddField(w, f) \/ AddFieldThrows(w, f)
           \/ \E e \in Elements : AddElement(w, e) \/ AddElementThrows(w, e)
           \/ \E tag \in Tags, range \in FixedRanges :
                AddPackedFixed(w, tag, range) \/ AddPackedFixedThrows(w, tag, range)
    PROVE  Formed'
<1>1. ASSUME NEW put \in PutSet, Grow(Bytes(put)), MayUse(w),
             Spend(w, Len(Bytes(put))) \/ (UNCHANGED owed /\ ~Sized(w)),
             UNCHANGED <<links, m_rollback_pos, m_pos, torn>>,
             w \in PackedField \/ Parses(Bytes(put))
      PROVE  Formed'
  <2>1. Bytes(put) \in Seq(Byte) /\ Legal(w)
    BY <1>1, PutFacts, MayUseIsLegal
  <2>2. buf' = buf \o Bytes(put)
    BY <1>1 DEF Grow
  <2> QED  BY <1>1, <2>1, <2>2, PutFormed
<1>2. ASSUME NEW put \in PutSet, NEW part \in Torn(put), Grow(part), MayUse(w), ~Sized(w),
             torn' = torn \cup {w}, UNCHANGED <<links, m_rollback_pos, m_pos, owed>>
      PROVE  Formed'
  <2>1. part \in Seq(Byte) /\ Legal(w)
    BY <1>2, PutFacts, MayUseIsLegal
  <2>2. buf' = buf \o part
    BY <1>2 DEF Grow
  <2> QED  BY <1>2, <2>1, <2>2, PutFormed
<1>3. ASSUME NEW put \in PutSet, Grow(Bytes(put))
      PROVE  Len(put.tail) \in Nat /\ Len(put.tail) <= MaxLength
  <2>1. put.head \in Seq(Byte) /\ put.tail \in Seq(Byte) /\ buf \in Seq(Byte)
    BY DEF PutSet, Inv, TypeOK
  <2>2. /\ Len(put.head) \in Nat /\ Len(put.tail) \in Nat /\ Len(buf) \in Nat
        /\ MaxBuf \in Nat /\ MaxLength \in Nat /\ MaxBuf <= MaxLength
    BY <2>1, LenProperties, ConstantFacts, BoundAssumption
  <2>3. Bytes(put) \in Seq(Byte) /\ Len(Bytes(put)) = Len(put.head) + Len(put.tail)
    BY <2>1, AppendFacts DEF Bytes
  <2>4. Len(buf) + Len(Bytes(put)) <= MaxBuf
    <3>1. Len(buf') = Len(buf) + Len(Bytes(put)) /\ Len(buf') <= MaxBuf
      BY <1>3, <2>3, GrowFacts DEF Inv
    <3> QED  BY <3>1
  <2> DEFINE head == Len(put.head)
             tail == Len(put.tail)
             before == Len(buf)
  <2>5. head \in Nat /\ tail \in Nat /\ before \in Nat /\ before + (head + tail) <= MaxBuf
    BY <2>2, <2>3, <2>4
  <2> HIDE DEF head, tail, before
  <2>6. tail <= MaxLength
    BY <2>2, <2>5
  <2> QED  BY <2>5, <2>6 DEF tail
<1>4. ASSUME NEW f \in Fields, AddField(w, f) \/ AddFieldThrows(w, f)
      PROVE  Formed'
  <2>1. f.put \in PutSet
    BY InputsAssumption
  <2>2. CASE AddField(w, f)
    <3>1. Parses(Bytes(f.put))
      BY <1>3, <2>1, <2>2, FieldParses DEF AddField, MayAdd
    <3> QED  BY <1>1, <2>1, <2>2, <3>1 DEF AddField, MayAdd
  <2>3. CASE AddFieldThrows(w, f)
    BY <1>2, <2>1, <2>3 DEF AddFieldThrows, MayAdd
  <2> QED  BY <1>4, <2>2, <2>3
<1>5. ASSUME NEW e \in Elements, AddElement(w, e) \/ AddElementThrows(w, e)
      PROVE  Formed'
  <2>1. e \in PutSet
    BY InputsAssumption
  <2>2. CASE AddElement(w, e)
    BY <1>1, <2>1, <2>2 DEF AddElement
  <2>3. CASE AddElementThrows(w, e)
    BY <1>2, <2>1, <2>3 DEF AddElementThrows
  <2> QED  BY <1>5, <2>2, <2>3
<1>6. ASSUME NEW tag \in Tags, NEW range \in FixedRanges,
             AddPackedFixed(w, tag, range) \/ AddPackedFixedThrows(w, tag, range)
      PROVE  Formed'
  <2> DEFINE put == FixedRangePut(tag, range)
             value == AllBytes(range)
  <2>1. put \in PutSet /\ put.tail = value /\ value \in Seq(Byte)
    <3>1. FixedRangePut(tag, range) \in PutSet
      BY FixedRangeFacts
    <3> QED  BY <3>1, InputsAssumption DEF FixedRangePut
  <2>2. CASE AddPackedFixed(w, tag, range)
    <3>1. Grow(Bytes(put)) /\ TagInRange(tag)
      BY <2>2 DEF AddPackedFixed, MayAdd
    <3>2. Len(value) \in Nat /\ Len(value) <= MaxLength
      BY <1>3, <2>1, <3>1
    <3>3. Bytes(put) = LengthHeader(tag, Len(value)) \o value
      BY <3>2, LengthTypeFacts DEF FixedRangePut, Bytes
    <3>4. Parses(Bytes(put))
      BY <2>1, <3>1, <3>2, <3>3, BytesFieldParses
    <3> QED  BY <1>1, <2>1, <2>2, <3>4 DEF AddPackedFixed, MayAdd
  <2>3. CASE AddPackedFixedThrows(w, tag, range)
    BY <1>2, <2>1, <2>3 DEF AddPackedFixedThrows, MayAdd
  <2> QED  BY <1>6, <2>2, <2>3
<1> QED  BY <1>4, <1>5, <1>6

\* A header that does not fit tears the message it was for.
LEMMA OpenThrowsFormed ==
    ASSUME Inv, Inv', Formed, NEW p \in Writer, NEW tag \in Tags, NEW size \in Sizes,
           OpenThrows(p, tag, size)
    PROVE  Formed'
<1> DEFINE header == SubmessageHeader(tag, size)
<1>1. header \in Seq(Byte)
  BY InputsAssumption, HeaderFacts
<1>2. PICK n \in 0 .. Len(header) : Grow(SubSeq(header, 1, n))
  BY DEF OpenThrows
<1> HIDE DEF header
<1>3. SubSeq(header, 1, n) \in Seq(Byte) /\ buf' = buf \o SubSeq(header, 1, n)
  BY <1>1, <1>2, CutIsBytes DEF Grow
<1>4. /\ Legal(p) /\ ~Sized(p) /\ torn' = torn \cup {p} /\ UNCHANGED <<links, m_pos, owed>>
      /\ m_rollback_pos' = [m_rollback_pos EXCEPT ![p] = RollbackPos(size)]
  BY MayUseIsLegal DEF OpenThrows, MayAdd, links
<1>5. \A v \in Writer \ {p} : m_pos'[v] = m_pos[v] /\ m_rollback_pos'[v] = m_rollback_pos[v]
  BY <1>4 DEF Inv, TypeOK
<1> QED  BY <1>3, <1>4, <1>5, PutFormed

\* A sub-writer that lives for one call leaves a whole field, or nothing.
LEMMA SubmessageParses ==
    ASSUME Inv, NEW tag \in Tags, TagInRange(tag), NEW payload \in Seq(Byte),
           AppendSubmessage(tag, payload)
    PROVE  \E x \in Seq(Byte) : buf' = buf \o x /\ Parses(x)
<1> DEFINE key == Key(tag, LengthDelimitedType)
           kept == buf \o key
           room == kept \o Zeros
           full == room \o payload
<1>1. /\ buf \in Seq(Byte) /\ key \in Seq(Byte) /\ Zeros \in Seq(Byte)
      /\ Len(Zeros) = ReserveBytes /\ Len(payload) \in Nat /\ Len(buf) \in Nat
      /\ MaxBuf \in Nat /\ MaxLength \in Nat /\ MaxBuf <= MaxLength /\ ReserveBytes \in Nat
  BY VarintFits, ZerosFacts, LenProperties, ConstantFacts, BoundAssumption DEF Inv, TypeOK
<1>2. /\ full = Filled(tag, payload) /\ Filled(tag, <<>>) = room \o <<>>
      /\ buf' = Closed(full, Len(buf), Len(room \o <<>>)) /\ Len(full) <= MaxBuf
  BY DEF Filled, AppendSubmessage, WithSubmessage
<1> HIDE DEF key
<1>3. kept \in Seq(Byte) /\ Len(kept) = Len(buf) + Len(key) /\ Len(key) \in Nat
  BY <1>1, AppendFacts, LenProperties
<1> HIDE DEF kept
<1>4. room \in Seq(Byte) /\ Len(room) = Len(kept) + ReserveBytes
  BY <1>1, <1>3, AppendFacts
<1>5. room \o <<>> = room
  <2> HIDE DEF room
  <2> QED  BY <1>4, ConcatEmptySeq
<1>6. /\ full \in Seq(Byte) /\ Len(full) = Len(room) + Len(payload)
      /\ \A i \in 1 .. Len(kept) : full[i] = kept[i]
  <2>1. \A i \in 1 .. Len(kept) : room[i] = kept[i]
    BY <1>1, <1>3, AppendFacts
  <2> HIDE DEF room
  <2>2. /\ full \in Seq(Byte) /\ Len(full) = Len(room) + Len(payload)
        /\ \A i \in 1 .. Len(room) : full[i] = room[i]
    BY <1>4, AppendFacts
  <2> QED  BY <1>1, <1>3, <1>4, <2>1, <2>2
<1>7. CASE payload = <<>>
  <2>1. Len(payload) = 0
    BY <1>7, EmptySeq
  <2>2. buf' = SubSeq(full, 1, Len(buf))
    BY <1>1, <1>2, <1>3, <1>4, <1>5, <1>6, <2>1 DEF Closed, Abandoned
  <2>3. \A i \in 1 .. Len(buf) : full[i] = buf[i]
    <3>1. \A i \in 1 .. Len(buf) : kept[i] = buf[i]
      BY <1>1, AppendFacts DEF kept
    <3> QED  BY <1>1, <1>3, <1>6, <3>1
  <2>4. SubSeq(full, 0 + 1, Len(buf)) = SubSeq(buf, 0 + 1, Len(buf))
    <3> HIDE DEF full
    <3>1. Len(buf) <= Len(full)
      BY <1>1, <1>3, <1>4, <1>6
    <3> QED  BY <1>1, <1>6, <2>3, <3>1, PartKept
  <2>5. SubSeq(buf, 1, Len(buf)) = buf
    BY <1>1, SubSeqFull
  <2>6. buf' = buf \o <<>>
    <3> HIDE DEF full
    <3>1. buf' = buf
      BY <2>2, <2>4, <2>5
    <3>2. buf \o <<>> = buf
      BY <1>1, ConcatEmptySeq
    <3> QED  BY <3>1, <3>2
  <2> QED  BY <2>6, EmptyParses, EmptySeq
<1>8. CASE payload # <<>>
  <2> DEFINE length == Varint[Len(payload)]
             x == LengthHeader(tag, Len(payload)) \o payload
  <2>1. Len(payload) # 0 /\ Len(payload) <= MaxLength
    BY <1>1, <1>2, <1>3, <1>4, <1>6, <1>8, EmptySeq
  <2>2. LengthType(Len(payload)) = Len(payload) /\ length \in Seq(Byte)
    BY <1>1, <2>1, LengthTypeFacts, VarintFits
  <2>3. SubSeq(full, 1, Len(room) - ReserveBytes) = kept
    <3> HIDE DEF full
    <3>1. Len(room) - ReserveBytes = Len(kept) /\ Len(kept) <= Len(full) /\ Len(kept) \in Nat
      BY <1>1, <1>3, <1>4, <1>6
    <3>2. SubSeq(full, 0 + 1, Len(kept)) = SubSeq(kept, 0 + 1, Len(kept))
      BY <1>3, <1>6, <3>1, PartKept
    <3>3. SubSeq(kept, 1, Len(kept)) = kept
      BY <1>3, SubSeqFull
    <3> QED  BY <3>1, <3>2, <3>3
  <2>4. SubSeq(full, Len(room) + 1, Len(full)) = payload
    <3> HIDE DEF room
    <3>1. SubSeq(room \o payload, Len(room) + 1, Len(room \o payload)) =
             SubSeq(room, Len(room) + 1, Len(room)) \o payload
      <4>1. Len(room) \in Nat /\ Len(room) <= Len(room)
        BY <1>1, <1>3, <1>4
      <4> QED  BY <1>4, <4>1, PartAppended
    <3>2. SubSeq(room, Len(room) + 1, Len(room)) = <<>>
      BY <1>1, <1>3, <1>4, SubSeqEmpty
    <3> QED  BY <3>1, <3>2, EmptySeq
  <2>5. buf' = (kept \o length) \o payload
    <3>1. Len(full) # Len(room) /\ Len(full) - Len(room) = Len(payload)
      BY <1>1, <1>3, <1>4, <1>6, <2>1
    <3> HIDE DEF full, room
    <3>2. buf' = Committed(full, Len(room))
      BY <1>2, <1>5, <3>1 DEF Closed
    <3> QED  BY <2>2, <2>3, <2>4, <3>1, <3>2 DEF Committed
  <2>6. buf' = buf \o x
    <3>1. x = (key \o length) \o payload
      BY DEF LengthHeader, key
    <3>2. key \o length \in Seq(Byte) /\ kept \o length = buf \o (key \o length)
      <4> HIDE DEF length
      <4>1. key \o length \in Seq(Byte)
        BY <1>1, <2>2, AppendFacts
      <4>2. (buf \o key) \o length = buf \o (key \o length)
        BY <1>1, <2>2, ConcatAssociative
      <4> QED  BY <4>1, <4>2 DEF kept
    <3> DEFINE both == key \o length
    <3>3. both \in Seq(Byte)
      BY <3>2
    <3> HIDE DEF both
    <3>4. (buf \o both) \o payload = buf \o (both \o payload)
      BY <1>1, <3>3, ConcatAssociative
    <3> QED  BY <2>5, <3>1, <3>2, <3>4 DEF both
  <2>7. Parses(x)
    BY <2>1, BytesFieldParses
  <2> QED  BY <2>6, <2>7 DEF Parses
<1> QED  BY <1>7, <1>8

LEMMA AddPackedFormed ==
    ASSUME Inv, Inv', Formed, NEW w \in Writer, NEW tag \in Tags, NEW range \in PackedRanges,
           AddPacked(w, tag, range) \/ AddPackedThrows(w, tag, range)
    PROVE  Formed'
<1>1. /\ Legal(w) /\ TagInRange(tag) /\ ~Sized(w) /\ UNCHANGED <<links, owed, torn>>
      /\ m_rollback_pos' = [m_rollback_pos EXCEPT ![w] = Len(buf)]
      /\ m_pos' = [m_pos EXCEPT ![w] = 0]
  BY MayUseIsLegal DEF AddPacked, AddPackedThrows, MayAdd
<1>2. PICK payload \in Seq(Byte) : AppendSubmessage(tag, payload)
  <2>1. AllBytes(range) \in Seq(Byte) /\ TornPayloads(range) \subseteq Seq(Byte)
    BY InputsAssumption
  <2> QED  BY <2>1 DEF AddPacked, AddPackedThrows
<1>3. PICK x \in Seq(Byte) : buf' = buf \o x /\ Parses(x)
  BY <1>1, <1>2, SubmessageParses
<1>4. \A v \in Writer \ {w} : m_pos'[v] = m_pos[v] /\ m_rollback_pos'[v] = m_rollback_pos[v]
  BY <1>1 DEF Inv, TypeOK
<1> QED  BY <1>1, <1>3, <1>4, PutFormed

-----------------------------------------------------------------------------

LEMMA InitFormed == Init => Formed
<1> SUFFICES ASSUME Init PROVE Formed
  OBVIOUS
<1>1. valid = {} /\ Text = <<>>
  BY DEF Init, Text
<1> QED
  BY <1>1, EmptyParses DEF Formed, Typed, Whole, Keyable, Announced, HandedBack

LEMMA NextFormed ==
    ASSUME Inv, Formed, [Next]_vars
    PROVE  Formed'
<1>1. Inv'
  BY NextInv
<1>2. ASSUME NEW w \in Writer, Destroy(w) \/ Commit(w) \/ Rollback(w)
      PROVE  Formed'
  <2>1. CASE m_parent_writer[w] = NULL
    BY <1>1, <1>2, <2>1, RootStep, RootFormed DEF Commit, Rollback
  <2>2. CASE m_parent_writer[w] # NULL
    BY <1>1, <1>2, <2>2, CloseStep, CloseFormed
  <2> QED  BY <2>1, <2>2
<1>3. ASSUME NEW w \in Writer, Construct(w)
      PROVE  Formed'
  BY <1>1, <1>3, RootStep, RootFormed
<1>4. ASSUME NEW p \in Writer, NEW c \in Writer, NEW tag \in Tags, NEW size \in Sizes,
             OpenSubmessage(p, c, tag, size)
      PROVE  Formed'
  BY <1>1, <1>4, OpenStep, OpenFormed
<1>5. ASSUME NEW w \in Writer, RollbackSized(w) \/ AddEmptyRange(w)
      PROVE  Formed'
  BY <1>5, ReportFormed DEF RollbackSized, AddEmptyRange, links
<1>6. ASSUME NEW w \in Writer,
             \/ \E tag \in Tags : AddAborts(w, tag)
             \/ AddElementAborts(w) \/ CloseAborts(w)
      PROVE  Formed'
  BY <1>6, ReportFormed DEF AddAborts, AddElementAborts, CloseAborts, Abort, links
<1>7. CASE UNCHANGED vars
  BY <1>7, ReportFormed DEF vars
<1> QED
  BY <1>1, <1>2, <1>3, <1>4, <1>5, <1>6, <1>7, RenameFormed, AddFormed, OpenThrowsFormed,
     AddPackedFormed DEF Next

\* Every message an open writer has is a sequence of complete fields, and so
\* is the string once the outermost writer is gone, unless bad_alloc left
\* through a call on that very message: for every number of writers, every
\* order in which submessages are opened, committed, rolled back, moved and
\* destroyed (pbf_writer.hpp:169-216, 292-304, 348-370), and both builds.
THEOREM WritersLeaveMessages == Spec => []WellFormed
<1>1. Inv /\ Formed /\ [Next]_vars => Formed'
  BY NextFormed
<1>2. Inv /\ Formed => WellFormed
  BY FormedIsWellFormed
<1> QED  BY <1>1, <1>2, InitFormed, Invariance, PTL DEF Spec
=============================================================================
