SPECIFICATION Spec
CONSTANTS
    MaxSent <- MCMaxSent
    Answer <- MCAnswer
    IP <- MCIP
    Exchange <- MCExchange
    v4 = v4
    unparsed = unparsed
    NoIP = NoIP
    NoExchange = NoExchange
INVARIANTS
    TypeOK
    StreamIntact
    LostOnlyIfEager
    NothingForgotten
    ServedAsConfigured
PROPERTIES
    ImplementsTunnel
    EndIsPassedOn
    ClientIsLetGo
CHECK_DEADLOCK FALSE
