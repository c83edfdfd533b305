CONSTANTS
    ByteMod = 4
    XLEN = 8
    WORDS = 8
    NREGS = 2
    Fields <- MCFields
    BitAnd <- MCBitAnd
    BitOr <- MCBitOr
    BitXor <- MCBitXor
    Programs <- MCPrograms
    Sources <- MCSources
    ModelWords = 16
    MaxSteps = 20
    DIVISOR = 2
    WINDOW = 1
SPECIFICATION BuildSpec
INVARIANT ReportTrue
PROPERTY BuiltEnds
CHECK_DEADLOCK FALSE
