SPECIFICATION Spec
CONSTANTS
    PAGE_SIZE = 13
    Letters = {0, 1}
    NibbleMax = 1
    ByteMax = 3
    MinMatch = 2
    EndLiterals = 3
    HashSize = 4
INVARIANTS
    TypeOK
    EmittedDecodes
    ReadsBack
PROPERTIES
    Terminates
