\* What the strong exception guarantee promises.
SPECIFICATION Spec
CONSTANTS
    PayloadBits = 4
    ValueBits = 9
    LengthBits = 6
    Fixed32Bytes = 1
    Fixed64Bytes = 2
    ReservedTags = {2}
    Reader = {r1}
    NULL = NULL
    Builds = {FALSE}
    Inputs <- HostileInputs
    Wanted = {1, 3}
    Misuse = FALSE
PROPERTIES
    StrongGuarantee
