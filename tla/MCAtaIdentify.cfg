CONSTANTS
    Sectors = {0, 1}
    Data = {blank, text}
    Blank = blank
    Size <- MCSize
    Polls = 2
    Tries = 2
    DrqLoops = 1
SPECIFICATION Spec
INVARIANTS LimitIsIdentified
