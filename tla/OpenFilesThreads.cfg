\* Two threads open and release at the same time.
SPECIFICATION Spec
CONSTANTS
    t1 = t1
    t2 = t2
    Threads = {t1, t2}
    Files = {"a", "b"}
    Directories = {"/"}
    NoPath = "none"
    MaxFh = 3
    MaxHeld = 3
    AllocFaults = {}
SYMMETRY ThreadSymmetry
INVARIANT NoAssertionFails
