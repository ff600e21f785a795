\* Deletions with I/O errors and with crashes between any two accesses.
SPECIFICATION FairSpec
CONSTANTS
    ClusterSpace <- MCClusterSpace
    ReservedValues = {0}
    ClustersCount = 9
    DeviceCells = 11
    InitialFats <- MCInitialFats
    ReadFaults = {1}
    WriteFaults = {TRUE, FALSE}
    AllocFaults = {FALSE}
    Crashes = {TRUE}
    Nodes <- MCNodes
    Root = "/"
    Parent <- MCParent
    Path <- MCPath
    Directories <- MCDirectories
    Marked = {}
    Chain <- MCChain
INVARIANTS
    NoOrphans
    LiveChainsIntact
    LostChainsAreTails
    CleanDeleteFreesAll
    ReplyIsTruthful
PROPERTIES
    Removes
    RequestsAnswered
