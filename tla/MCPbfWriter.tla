---------------------------- MODULE MCPbfWriter ----------------------------
(***************************************************************************)
(* Instances of PbfWriter for TLC.  With PayloadBits = 3 a varint byte      *)
(* carries numbers below 8, so keys take two bytes and a submessage of      *)
(* eight bytes has a length of two: all the room ReserveBytes = 2 leaves.   *)
(***************************************************************************)
EXTENDS PbfWriter

Symmetry == Permutations(Writer \ PackedField)

OneField == {VarintField(1, 9)}
ThreeFields == {VarintField(1, 9), BytesField(1, <<>>), FixedField(2, Fixed32Type, <<3, 15>>)}
TornField == {VarintField(1, 16)}

OneFixedElement == {FixedElement(<<11, 2>>)}
TwoElements == {VarintElement(9), FixedElement(<<11, 2>>)}
TornElements == {VarintElement(16)}

NoRange == {<<>>}
FixedRange == {<<FixedElement(<<1, 10>>), FixedElement(<<7, 0>>)>>}
VarintRange == {<<>>, <<VarintElement(9), VarintElement(1)>>}
TornRange == {<<VarintElement(16), VarintElement(1)>>}
=============================================================================
