---------------------------- MODULE MCPbfReader ----------------------------
(***************************************************************************)
(* Instances of PbfReader for TLC.  With PayloadBits = 4 a byte below 16     *)
(* ends a varint: 8, 9, 10 and 13 are the keys of tag 1 with the four wire   *)
(* types, 11 is one with an unknown type, 16 + n goes on with n.             *)
(***************************************************************************)
EXTENDS PbfReader, SequencesExt

Symmetry == Permutations(Reader)

\* All wire types, short and long lengths, numbers cut off or too long, keys and
\* lengths of two bytes, among them 16 1 (tag 2, reserved), 26 1 (tag 3) and
\* 26 8 (a number of more than LengthBits bits).
ShortInputs == SeqOf({0, 1, 8, 9, 10, 11, 13, 16, 26}, 3)

\* A nested message, or bytes that are none, and one more field behind it.
NestedInputs == {<<10, Len(b)>> \o b \o <<8, 1>> : b \in SeqOf({2, 8, 10}, 3)}

\* Lengths of two bytes, and empty submessages one behind the other.
LongerInputs == SeqOf({1, 10, 16, 26}, 4)

ContractInputs == ShortInputs \cup NestedInputs \cup LongerInputs

HostileInputs == SeqOf({2, 9, 10, 11, 26}, 4)

\* With seven bits for numbers and lengths, 29 7 is a length that would be
\* negative as a signed number.
LoopInputs == SeqOf({7, 8, 10, 29}, 5)
=============================================================================
