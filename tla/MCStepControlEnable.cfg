CONSTANTS
    DIVISOR = 8
    WINDOW = 3
SPECIFICATION HSpec
PROPERTY EnableNeverTwice
