\* The unlocked iteration against the assignment to the map.  The process may end.
SPECIFICATION Safety
CONSTANTS
    a1 = a1
    a2 = a2
    k1 = k1
    k2 = k2
    NoSlot = NoSlot
    CheckAlive <- MCOneAddress
    Slot <- MCTwoSlots
    Interval = 1
    TPS = 2
    Reliable = {}
    MaxRTT = 0
    MaxPingTime = 1
    MaxStall = 0
INVARIANT ReadyzSurvives
CHECK_DEADLOCK FALSE
