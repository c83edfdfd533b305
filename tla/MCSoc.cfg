CONSTANTS
    ByteMod = 4
    XLEN = 8
    WORDS = 4
    NREGS = 4
    Fields <- MCFields
    BitAnd <- MCBitAnd
    BitOr <- MCBitOr
    BitXor <- MCBitXor
    Programs <- MCPrograms
SPECIFICATION Spec
INVARIANTS TypeOK WellFormed HaltExplained StoreRetires
PROPERTIES Frozen TraceComplete CommitAgrees RefinesIss
