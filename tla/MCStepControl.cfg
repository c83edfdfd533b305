CONSTANTS
    DIVISOR = 8
    WINDOW = 3
SPECIFICATION HSpec
INVARIANTS TypeOK PulsesApart CleanPressPulses
PROPERTIES DebounceExact AdjacentEnables
