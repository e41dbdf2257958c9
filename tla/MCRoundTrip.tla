---------------------------- MODULE MCRoundTrip ------------------------------
(***************************************************************************)
(* Instances of RoundTrip for TLC: messages in messages, packed fields, and   *)
(* bytes that look like a message or like half of one.                      *)
(***************************************************************************)
EXTENDS RoundTrip

Symmetry == Permutations(Reader)

AllItems ==
    {Item("a", VarintType, <<1>>), Item("b", Fixed32Type, <<3>>),
     Item("a", LengthDelimitedType, <<8, 1>>)}
AnyOrMessage == {UnknownType, LengthDelimitedType}

Tags == [a |-> 1, b |-> 3]
FixedElements == {[head |-> <<>>, tail |-> <<17, 1>>]}
PackedRanges == {<<[head |-> <<1>>, tail |-> <<>>], [head |-> <<17, 1>>, tail |-> <<>>]>>}
=============================================================================
