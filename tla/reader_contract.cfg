\* Two readers over all kinds of fields and messages in messages; the client
\* keeps the contract.
SPECIFICATION Spec
CONSTANTS
    PayloadBits = 4
    ValueBits = 9
    LengthBits = 6
    Fixed32Bytes = 1
    Fixed64Bytes = 2
    ReservedTags = {2}
    Reader = {r1, r2}
    NULL = NULL
    Builds = {TRUE}
    Inputs <- ContractInputs
    Wanted = {1, 3}
    Misuse = FALSE
SYMMETRY Symmetry
INVARIANTS
    TypeOK
    WholeFieldsRead
    HonestErrors
PROPERTIES
    DeliversValue
    FindsFirst
