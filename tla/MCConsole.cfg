SPECIFICATION Spec
CONSTANTS
    COLUMNS = 4
    ROWS = 3
    Cells = 27
    UChar = 14
    UInt = 128
    LabelLen = 1
    Digits = 1
    HexSizes <- MCHexSizes
    PromptLen = 3
    MAX_LINE_SIZE = 3
    Chars = {"a", "b"}
    Files = {"uptime", "shell"}
    KMax = 2
INVARIANTS TypeOK LineOnScreen FaultsOnlyAtTheEnd
PROPERTIES EchoShowsCursor
CHECK_DEADLOCK FALSE
VIEW MCView
