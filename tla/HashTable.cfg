SPECIFICATION Spec
CONSTANTS
    key1 = key1
    key2 = key2
    key3 = key3
    val1 = val1
    val2 = val2
    Keys <- MCKeys
    Values <- MCValues
    NoValue = NoValue
    Size = 2
    Hash <- MCHash
    ValueCloners <- MCValueCloners
    AllocFaults <- MCAllocFaults
INVARIANTS
    NoMemoryFault
    NothingLeaked
PROPERTIES
    ImplementsMap
