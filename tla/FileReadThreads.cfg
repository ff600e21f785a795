\* Two threads read the same file.
SPECIFICATION Spec
CONSTANTS
    ClusterSpace <- MCClusterSpace
    ReservedValues = {0}
    Threads = {"t1", "t2"}
    ClusterSize = 2
    ClustersCount = 4
    Table <- MCTable
    First = 4
    FileSize = 5
    MaxOffset = 6
    ReadFaults = {}
INVARIANT ReadsTheFile
