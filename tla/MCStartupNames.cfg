CONSTANTS
    Nil = Nil
    Disk <- MCDisk
    Env <- MCEnv
    Items <- MCItems
    IntOf <- MCIntOf
    Atoi <- MCAtoi
    AddrOf <- MCAddrOf
    PrefixOf <- MCPrefixOf
    AddrIn <- MCAddrIn
    HexOf <- MCHexOf
    HostPort <- MCHostPort
    IPOf <- MCIPOf
    PortOf <- MCPortOf
    RangeOf <- MCRangeOf
    ASecOf <- MCASecOf
    Defaults <- MCDefaults
    MaxPort <- MCMaxPort
    Invocations <- MCInvocations
    DefaultPaths <- MCDefaultPaths
    Names <- MCNames
SPECIFICATION Spec
INVARIANTS NamesAreFound
CHECK_DEADLOCK FALSE
