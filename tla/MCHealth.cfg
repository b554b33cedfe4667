\* One address that always answers at once and one whose pings may be lost, late or
\* skipped, or that may fall silent; slow goroutines.  The process may end.
SPECIFICATION Spec
CONSTANTS
    a1 = a1
    a2 = a2
    k1 = k1
    k2 = k2
    NoSlot = NoSlot
    CheckAlive <- MCTwoAddresses
    Slot <- MCTwoSlots
    Interval = 1
    TPS = 2
    Reliable <- MCReliable
    MaxRTT = 0
    MaxPingTime = 1
    MaxStall = 1
INVARIANTS TypeOK NoFalseReady NoFalseAlarm ReliableStaysFresh
PROPERTIES SilenceIsReported StaysReady
CHECK_DEADLOCK FALSE
