SPECIFICATION DocumentSpec
CONSTANTS
    Documents <- MCBothThree
INVARIANTS
    MarkerSizes
CHECK_DEADLOCK FALSE
