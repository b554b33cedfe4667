\* The sizes of the two handshake messages as the README gives them.
CONSTANTS
    MaxUint32 = 9
    MaxInt = 2047
    Section <- MCSection
SPECIFICATION Spec
INVARIANTS HandshakeSizesDiffer
CHECK_DEADLOCK FALSE
