\* The build with assertions, and clients that may break the contract.
SPECIFICATION Spec
CONSTANTS
    PayloadBits = 3
    ValueBits = 10
    LengthBits = 5
    Fixed32Bytes = 2
    Fixed64Bytes = 4
    ReservedTags = {3}
    Writer = {w1, w2, w3, p1}
    PackedField = {p1}
    NULL = NULL
    Asserts = TRUE
    MaxThrows = 0
    Tags = {0, 1, 3}
    Fields <- OneField
    Elements <- TwoElements
    FixedRanges <- NoRange
    PackedRanges <- VarintRange
    Sizes = {0}
    MaxBuf = 16
SYMMETRY Symmetry
INVARIANTS
    TypeOK
    Nesting
    NoSpuriousAssert
PROPERTIES
    NestedSpec
\* An assertion that fails ends the program.
CHECK_DEADLOCK FALSE
