SPECIFICATION Spec
CONSTANTS
    COLS = 2
    LINES = 3
    MEM = 8
    Word = 10
    NPAR = 2
    TabStop = 2
    Char <- InkChars
    Blank = 0
    Ink = 1
    Beyond = 2
INVARIANT WithinScreen
PROPERTIES
    ShowsScreen
