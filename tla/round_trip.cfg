\* Messages written with builders and packed fields, then read by two readers.
SPECIFICATION Spec
CONSTANTS
    PayloadBits = 4
    ValueBits = 9
    LengthBits = 6
    Fixed32Bytes = 1
    Fixed64Bytes = 2
    ReservedTags = {2}
    Name = {"a", "b"}
    NameTag <- Tags
    Writer = {w1, w2, p1}
    PackedField = {p1}
    NULL = NULL
    Asserts = FALSE
    MaxBuf = 8
    Items <- AllItems
    Elements <- FixedElements
    Compound = {"a"}
    Ranges <- PackedRanges
    Sizes = {0, 2}
    Reader = {r1, r2}
    Wanted = {"a"}
    SoughtTypes <- AnyOrMessage
    Builds = {FALSE}
SYMMETRY Symmetry
INVARIANTS
    MeetsWhatWasAdded
PROPERTIES
    ReadsWhatWasWritten
