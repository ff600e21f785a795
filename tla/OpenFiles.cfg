\* One thread, as with the option -s; every allocation may fail.
SPECIFICATION Spec
\* An object that is freed twice ends the process.
CHECK_DEADLOCK FALSE
CONSTANTS
    t1 = t1
    t2 = t2
    Threads = {t1}
    Files = {"a", "b"}
    Directories = {"/"}
    NoPath = "none"
    MaxFh = 4
    MaxHeld = 3
    AllocFaults = {"object", "fh_table", "file_table"}
INVARIANTS
    HandlesBacked
    RefsExact
    ObjectsAccounted
PROPERTY
    UnlinkSparesOpenFiles
