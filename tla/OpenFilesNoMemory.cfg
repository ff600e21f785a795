\* The entry of a path cannot be allocated.
SPECIFICATION Spec
CONSTANTS
    t1 = t1
    t2 = t2
    Threads = {t1}
    Files = {"a", "b"}
    Directories = {"/"}
    NoPath = "none"
    MaxFh = 3
    MaxHeld = 2
    AllocFaults = {"file_table"}
INVARIANT NoDoubleFree
