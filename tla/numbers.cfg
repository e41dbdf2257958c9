\* Varints of up to three bytes; the third carries one bit.
SPECIFICATION Spec
CONSTANTS
    PayloadBits = 2
    ValueBits = 5
    LengthBits = 4
    Fixed32Bytes = 2
    Fixed64Bytes = 4
    ReservedTags = {}
    MaxInput = 4
    Inputs <- AllInputs
    Kinds = {"varint", "svarint", "fixed32", "fixed64"}
INVARIANTS
    DecodesVarints
    SkipsWhatDecodes
    NumbersSurvive
    SignedSurvive
    FixedSurvive
    ViewsAreOrdered
    IteratesElements
    SizeCounts
