\* Both builds, and clients that call anything at any time.
SPECIFICATION Spec
CONSTANTS
    PayloadBits = 4
    ValueBits = 9
    LengthBits = 6
    Fixed32Bytes = 1
    Fixed64Bytes = 2
    ReservedTags = {2}
    Reader = {r1}
    NULL = NULL
    Builds = {TRUE, FALSE}
    Inputs <- HostileInputs
    Wanted = {1}
    Misuse = TRUE
INVARIANTS
    InBounds
    Confined
    NoSpuriousAssert
    DoubleReadsShow
PROPERTIES
    CutOffChangesNothing
\* An assertion that fails ends the program.
CHECK_DEADLOCK FALSE
