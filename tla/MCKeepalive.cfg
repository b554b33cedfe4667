\* Every text and every assignment, on a build whose int has as many bits as a
\* uint32.  The program stops once the request is made.
SPECIFICATION Spec
CONSTANTS
    MaxUint32 = 7
    IntMax = 3
    Text <- MCTexts
    NoText = NoText
    OffText = OffText
    NoRange = NoRange
    Assigned <- MCInts
INVARIANTS TypeOK RequestIsCurrent FileRangeIsExact
CHECK_DEADLOCK FALSE
