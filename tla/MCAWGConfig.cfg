\* Every section is parsed, checked and written out for the device.  A parser
\* stops when it is done.
CONSTANTS
    MaxUint32 = 9
    MaxInt = 2047
    Section <- MCSection
SPECIFICATION Spec
INVARIANTS TypeOK HeadersUnambiguous ProtectionHasNonce EqualSizesAreDefaults RequestSaysTheSection
CHECK_DEADLOCK FALSE
