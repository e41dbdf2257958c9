\* rollback() of a packed field of announced size in the NDEBUG build.
SPECIFICATION Spec
CONSTANTS
    PayloadBits = 3
    ValueBits = 10
    LengthBits = 5
    Fixed32Bytes = 2
    Fixed64Bytes = 4
    ReservedTags = {3}
    Writer = {w1, w2, p1}
    PackedField = {p1}
    NULL = NULL
    Asserts = FALSE
    MaxThrows = 0
    Tags = {1}
    Fields <- OneField
    Elements <- OneFixedElement
    FixedRanges <- NoRange
    PackedRanges <- NoRange
    Sizes = {0, 4}
    MaxBuf = 12
INVARIANTS
    OnlyBadAlloc
