\* Every device and every fault. The process ends: no deadlock check.
SPECIFICATION DriverSpec
CONSTANTS
    Devices = {"volume", "file", "short", "bad_bpb", "short_fs_info", "bad_fs_info"}
    Faults = {"options", "log", "fs", "lock", "mutex", "bpb", "fs_info", "fat", "open",
              "fstat", "bpb_read", "fs_info_read", "dup", "file_table", "fh_table",
              "fh_allocator", "verbose", "close", "close_fat"}
    StrayTables = {"null", "wild"}
    StrayFds = {"open", "unused"}
    main = main
    t1 = t1
    t2 = t2
    Threads <- MCThreads
    NoThread = NoThread
    Main = main
    WritesFail = TRUE
    LogLevels <- MCLogLevels
INVARIANTS
    ServesComplete
    ReleasedAtExit
    EndsClean
PROPERTIES
    LinesWhole
    LockReleased
CHECK_DEADLOCK FALSE
