\* Every request on every path, with I/O errors and failing allocations.
\* No hidden files: they are in DirIterMarked.cfg.
SPECIFICATION FairDirSpec
CONSTANTS
    ClusterSpace <- MCClusterSpace
    ReservedValues = {0}
    ClusterSlots = 3
    ClusterBytes = 6
    RootCluster = 2
    Tables <- MCTables
    Content <- MCContent
    Chars <- MCChars
    BaseSize = 2
    ExtSize = 1
    Names <- MCNames
    Requests <- MCRequests
    EntryFaults = {1, 3}
    AllocFaults = {"path", "root", "iterator", "filler", "short_name", "object", "name",
                   "direntry"}
INVARIANTS
    FindsTheObject
    ListsTheDirectory
    EmptyMeansEmpty
    NothingLeaked
PROPERTY
    RequestAnswered
