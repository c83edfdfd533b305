CONSTANTS
    ByteMod = 2
    XLEN = 4
    WORDS = 2
    NREGS = 1
    Fields <- MCFields
    BitAnd <- MCBitAnd
    BitOr <- MCBitOr
    BitXor <- MCBitXor
    Funct7s = {0, 1, 32, 33, 96}
    Data = {3, 10}
SPECIFICATION Spec
INVARIANTS DecodeAgrees ExecuteAgrees BranchAgrees LoadAgrees ModelInStep
PROPERTIES RefinesBytes
