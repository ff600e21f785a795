\* A file opened by two threads at the same time is deleted.
SPECIFICATION Spec
\* A failed assertion ends the process.
CHECK_DEADLOCK FALSE
CONSTANTS
    t1 = t1
    t2 = t2
    Threads = {t1, t2}
    Files = {"a", "b"}
    Directories = {"/"}
    NoPath = "none"
    MaxFh = 4
    MaxHeld = 3
    AllocFaults = {}
PROPERTY UnlinkSparesOpenFiles
