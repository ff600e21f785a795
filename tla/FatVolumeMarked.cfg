\* A directory holds a hidden file only.
SPECIFICATION Spec
CONSTANTS
    ClusterSpace <- MCClusterSpace
    ReservedValues = {0}
    ClustersCount = 9
    DeviceCells = 11
    InitialFats <- MCInitialFats
    ReadFaults = {1}
    WriteFaults = {TRUE, FALSE}
    AllocFaults = {FALSE}
    Crashes = {TRUE}
    Nodes <- MCNodes
    Root = "/"
    Parent <- MCParent
    Path <- MCPath
    Directories <- MCDirectories
    Marked = {"e", "z"}
    Chain <- MCChain
INVARIANT NoOrphans
