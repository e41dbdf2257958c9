\* Packed fields of announced size in the build with assertions; legal calls
\* only would do, but nothing keeps clients from others here.
SPECIFICATION Spec
CONSTANTS
    PayloadBits = 3
    ValueBits = 10
    LengthBits = 5
    Fixed32Bytes = 2
    Fixed64Bytes = 4
    ReservedTags = {3}
    Writer = {w1, w2, p1}
    PackedField = {p1}
    NULL = NULL
    Asserts = TRUE
    MaxThrows = 0
    Tags = {1}
    Fields <- OneField
    Elements <- OneFixedElement
    FixedRanges <- NoRange
    PackedRanges <- NoRange
    Sizes = {0, 4}
    MaxBuf = 12
INVARIANTS
    NoSpuriousAssert
CHECK_DEADLOCK FALSE
