CONSTANTS
    ByteMod = 4
    XLEN = 8
    WORDS = 16
    NREGS = 4
    Fields <- MCFields
    BitAnd <- MCBitAnd
    BitOr <- MCBitOr
    BitXor <- MCBitXor
    Programs <- MCPrograms
    DATA_BASE = 48
    DATA_SIZE = 16
    DATA_REG = 3
    body_len = 2
    Suites <- MCCampaignSuites
    RANDOMS = {0}
    FREEZE <- MCFreeze
    t0 = 3
    MaxSteps = 12
    SLACK = 3
SPECIFICATION CampaignSpec
INVARIANT AllCaught
CHECK_DEADLOCK FALSE
