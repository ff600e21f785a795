\* Every function on every FAT of three clusters, with I/O errors.
SPECIFICATION FairSpec
\* After MaxCalls calls nobody calls any more.
CHECK_DEADLOCK FALSE
CONSTANTS
    ClusterSpace <- MCClusterSpace
    ReservedValues = {0}
    ClustersCount = 3
    DeviceCells = 6
    MaxLinks = 2
    MaxCalls = 2
    InitialFats <- MCInitialFats
    ReadFaults = {1}
    WriteFaults = {TRUE, FALSE}
INVARIANTS
    ClearsPrefixOfChain
    FreeResult
    NthResult
    FindsLowestFree
PROPERTY
    CallReturns
