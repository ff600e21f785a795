\* Directories with hidden files, one of them the only entry besides the dots.
SPECIFICATION DirSpec
CONSTANTS
    ClusterSpace <- MCClusterSpace
    ReservedValues = {0}
    ClusterSlots = 3
    ClusterBytes = 6
    RootCluster = 2
    Tables <- MCTables
    Content <- MCMarkedContent
    Chars <- MCChars
    BaseSize = 2
    ExtSize = 1
    Names <- MCNames
    Requests <- MCRequests
    EntryFaults = {1, 3}
    AllocFaults = {"path", "root", "iterator", "filler", "short_name", "object", "name",
                   "direntry"}
INVARIANTS
    FindsTheObject
    ListsTheDirectory
    EmptyMeansEmpty
