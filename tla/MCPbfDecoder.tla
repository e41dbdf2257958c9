---------------------------- MODULE MCPbfDecoder -----------------------------
(***************************************************************************)
(* Instances of PbfDecoder for TLC.  As in MCPbfReader 8, 9, 10 and 13 are   *)
(* the keys of tag 1.                                                       *)
(***************************************************************************)
EXTENDS PbfDecoder, SequencesExt

Readers == (1 .. MaxLevel) \X {"message", "copy"}

Field(b) == <<10, Len(b)>> \o b

\* A field of any content, alone or in a field of another message, with one more
\* field behind it; and messages without any.
Contents == SeqOf({1, 8, 10, 13, 17}, 4)
DecoderInputs ==
    {Field(b) \o <<8, 17, 1>> : b \in Contents}
        \cup {Field(Field(b)) : b \in SeqOf({1, 8, 10, 17}, 3)}
        \cup SeqOf({1, 9, 13}, 5)
=============================================================================
