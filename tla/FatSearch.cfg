\* Searches for a free cluster between calls that use clusters up and free them.
SPECIFICATION Spec
\* After MaxCalls calls nobody calls any more.
CHECK_DEADLOCK FALSE
CONSTANTS
    ClusterSpace <- MCClusterSpace
    ReservedValues = {0}
    ClustersCount = 3
    DeviceCells = 6
    MaxLinks = 0
    MaxCalls = 4
    InitialFats <- MCFreeOrUsed
    ReadFaults = {1}
    WriteFaults = {TRUE, FALSE}
INVARIANT FindsLowestFree
