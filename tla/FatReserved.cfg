\* An entry in the middle of a chain carries a reserved bit.
SPECIFICATION Spec
\* After MaxCalls calls nobody calls any more.
CHECK_DEADLOCK FALSE
CONSTANTS
    ClusterSpace <- MCClusterSpace
    ReservedValues = {0, 1}
    ClustersCount = 3
    DeviceCells = 6
    MaxLinks = 0
    MaxCalls = 1
    InitialFats <- MCReservedFats
    ReadFaults = {}
    WriteFaults = {FALSE}
INVARIANT FreeResult
