\* The device is an ordinary file; nothing else goes wrong.
SPECIFICATION Spec
CONSTANTS
    Devices = {"file"}
    Faults = {}
    StrayTables = {"null"}
    StrayFds = {"open"}
INVARIANT ClosesOpenedOnly
CHECK_DEADLOCK FALSE
