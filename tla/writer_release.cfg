\* The NDEBUG build, and clients that keep the contract; some announce sizes.
SPECIFICATION Spec
CONSTANTS
    PayloadBits = 3
    ValueBits = 10
    LengthBits = 5
    Fixed32Bytes = 2
    Fixed64Bytes = 4
    ReservedTags = {3}
    Writer = {w1, w2, p1}
    PackedField = {p1}
    NULL = NULL
    Asserts = FALSE
    MaxThrows = 0
    Tags = {1}
    Fields <- ThreeFields
    Elements <- OneFixedElement
    FixedRanges <- FixedRange
    PackedRanges <- VarintRange
    Sizes = {0, 4}
    MaxBuf = 15
INVARIANTS
    Nesting
    WellFormed
PROPERTIES
    NestedSpec
