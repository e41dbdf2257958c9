\* std::bad_alloc at every allocation, in the NDEBUG build.
SPECIFICATION Spec
CONSTANTS
    PayloadBits = 4
    ValueBits = 9
    LengthBits = 6
    Fixed32Bytes = 2
    Fixed64Bytes = 4
    ReservedTags = {3}
    Writer = {w1, w2, p1}
    PackedField = {p1}
    NULL = NULL
    Asserts = FALSE
    MaxThrows = 2
    Tags = {1}
    Fields <- TornField
    Elements <- TornElements
    FixedRanges <- FixedRange
    PackedRanges <- TornRange
    Sizes = {0, 2}
    MaxBuf = 9
INVARIANTS
    WellFormed
PROPERTIES
    NestedSpec
    UntouchedPrefix
