\* A cluster freed below the hint is looked for.
SPECIFICATION Spec
\* After MaxCalls calls nobody calls any more.
CHECK_DEADLOCK FALSE
CONSTANTS
    ClusterSpace <- MCClusterSpace
    ReservedValues = {0}
    ClustersCount = 3
    DeviceCells = 6
    MaxLinks = 0
    MaxCalls = 4
    InitialFats <- MCSparseFats
    ReadFaults = {}
    WriteFaults = {FALSE}
INVARIANT FullMeansFull
