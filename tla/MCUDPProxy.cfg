\* One client may have its old session draining while it gets the next one.
\* Reads of lastActive may be torn.
SPECIFICATION Spec
CONSTANTS
    c1 = c1
    s1 = s1
    s2 = s2
    NoSession = NoSession
    Client <- MCOneClient
    Session <- MCTwoSessions
    InactivityTimeout = 2
    MaxLag = 1
    Tear = 1
INVARIANTS TypeOK MappedSessionIsLive OrphanIsSignalled
PROPERTIES SessionLeavesForCause OrphanIsReleased IdleSessionExpires MainLoopReturns ImplementsTable
CHECK_DEADLOCK TRUE
