SPECIFICATION DecodeSpec
CONSTANTS
    PTR_SIZE = 8
    USIZE_MAX = 2000000000
    WordSize = 8
    AlignOfU64 = 8
    HeapAddress = 1000000001
    Damage = {0, 1, 24, 40, 2000000000}
    Inputs <- MCInputs
INVARIANTS
    FieldsInBounds
PROPERTIES
    WorkShrinks
CHECK_DEADLOCK FALSE
