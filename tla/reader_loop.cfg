\* Searches on any bytes come to an end.
SPECIFICATION SearchSpec
CONSTANTS
    PayloadBits = 4
    ValueBits = 7
    LengthBits = 7
    Fixed32Bytes = 1
    Fixed64Bytes = 2
    ReservedTags = {2}
    Reader = {r1}
    NULL = NULL
    Builds = {FALSE}
    Inputs <- LoopInputs
    Wanted = {1}
    Misuse = FALSE
PROPERTIES
    SeekEnds
