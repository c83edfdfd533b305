CONSTANTS
    Texts <- MCTexts
    Labels = {"top", "end"}
    Base = 8
SPECIFICATION HSpec
INVARIANTS Layout Disassembles ImmediatesAgree LabelsResolve LiLoads RefusesExactly
CHECK_DEADLOCK FALSE
