\* The decoder on nested messages and on what looks like them, in both builds.
SPECIFICATION DecoderSpec
CONSTANTS
    PayloadBits = 4
    ValueBits = 9
    LengthBits = 6
    Fixed32Bytes = 2
    Fixed64Bytes = 4
    ReservedTags = {2}
    Reader <- Readers
    NULL = NULL
    Builds = {TRUE, FALSE}
    Inputs <- DecoderInputs
    Wanted = {}
    Misuse = FALSE
    MaxLevel = 5
    Printable = {8}
    Offsets = {0, 2}
    Lengths = {5, 99}
INVARIANTS
    PrintsTheMessage
PROPERTIES
    DecoderEnds
\* The program ends.
CHECK_DEADLOCK FALSE
