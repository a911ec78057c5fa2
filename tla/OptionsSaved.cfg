SPECIFICATION Spec
CONSTANTS
    IntsPerLong = 2
    MAX_MACRO_KEY_LEN = 4
    MAX_MACRO_TEXT_LEN = 4
    MAX_MACRO_ITEMS = 2
    MACRO_MEM_SIZE = 10
    IdCount = 2
INVARIANTS
    OptionsSaved
CHECK_DEADLOCK FALSE
