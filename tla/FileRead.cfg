\* Every offset and size, with read errors, one thread at a time.
SPECIFICATION FairSpec
CONSTANTS
    ClusterSpace <- MCClusterSpace
    ReservedValues = {0}
    Threads = {"t1"}
    ClusterSize = 2
    ClustersCount = 4
    Table <- MCTable
    First = 4
    FileSize = 5
    MaxOffset = 6
    ReadFaults = {1}
INVARIANTS
    ReadsTheFile
    FailsOnlyWithDevice
PROPERTY
    ReadsAnswered
