\* A file as large as a file may be.
SPECIFICATION Spec
CONSTANTS
    ClusterSpace <- MCClusterSpace
    ReservedValues = {0}
    ClustersCount = 7
    DeviceCells = 10
    InitialFats <- MCFats
    ReadFaults = {1}
    WriteFaults = {TRUE, FALSE}
    Files <- MCFiles
    Chain <- MCChain
    InitialSize <- MCSize
    ClusterSize = 4
    SizeSpace = 16
    MaxLength = 15
    Crashes = {TRUE}
    LargeFile = TRUE
INVARIANT KeepsNeededClusters
