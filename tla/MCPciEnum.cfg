SPECIFICATION MCSpec
CONSTANTS
    AddrBits = 28
    NumDevs = 3
    NumFuncs = 2
    Topologies <- MCTopologies
    Pools <- MCPools
INVARIANTS
    TypeOK
    DecodedRangesDisjoint
    WindowsRouteSubtree
    BusNumbersNest
    ProbeTellsTheTruth
    NoBarLeftInProbeMode
    AgreesWithUnitTests
    MockPassesItsTests
PROPERTIES
    FailedCallLeavesNoTrace
    CursorsOnlyAdvance
    WalkTerminates
