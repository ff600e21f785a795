SPECIFICATION DeviceSpec
CONSTANTS
    Space32 = 128
    SectorSizes <- MCSectorSizes
    MaxClusterSize = 8
    MinClusters = 3
    EntrySize = 2
    Splits = TRUE
    MaxSignals = 1
    IoFaults <- AllFaults
    Volumes <- MCVolumes
    BpbSize = 3
    FsInfoSize = 4
    Clusters <- MCClusters
    MaxOffset = 24
INVARIANTS
    WritesOnlyTheEntry
