CONSTANTS
    ByteMod = 4
    XLEN = 8
    WORDS = 4
    NREGS = 2
    Fields <- MCFields
    BitAnd <- MCBitAnd
    BitOr <- MCBitOr
    BitXor <- MCBitXor
    Programs <- MCPrograms
    DIVISOR = 8
    WINDOW = 2
SPECIFICATION HSpec
INVARIANTS BoardTypeOK WatchTruthful
PROPERTIES PressAddsOne
