\* Any sequence of truncations, with I/O errors and crashes.
SPECIFICATION FairSpec
CONSTANTS
    ClusterSpace <- MCClusterSpace
    ReservedValues = {0}
    ClustersCount = 7
    DeviceCells = 10
    InitialFats <- MCFats
    ReadFaults = {1}
    WriteFaults = {TRUE, FALSE}
    Files <- MCFiles
    Chain <- MCChain
    InitialSize <- MCSize
    ClusterSize = 2
    SizeSpace = 16
    MaxLength = 7
    Crashes = {TRUE}
    LargeFile = FALSE
INVARIANTS
    LiveChainsEnd
    NoLinkToFree
    KeepsNeededClusters
PROPERTY
    TruncateAnswered
