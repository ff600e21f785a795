------------------------------- MODULE Mount -------------------------------
(***************************************************************************)
(* The life of the driver: main (src/main.c) with fat32_fs_open,           *)
(* fat32_fs_cleanup and fat32_fs_close (src/fat32/fs.c), and the calls of  *)
(* fat32_bpb_read, fat32_fs_info_read and fat32_fat_init they make.        *)
(*                                                                         *)
(* What the process holds, memory and descriptors, is the set "held"; the  *)
(* fields of fat32_fs_t say what the clean-up believes is held.  Two of    *)
(* them are not set when fat32_fs_open gives up early: file_table, and the *)
(* descriptor in *fat.  What they contain is then chance.                  *)
(***************************************************************************)
EXTENDS Fat32Errors

CONSTANTS
    Devices,      \* what the device may be: see DeviceKinds
    Faults,       \* steps that may fail
    StrayTables,  \* what an unset file_table may be: "null" or "wild"
    StrayFds      \* is the number in an unset fat->fd "open" or "unused"?

DeviceKinds == {"volume", "file", "short", "bad_bpb", "short_fs_info", "bad_fs_info"}

FaultSteps == {"options", "log", "fs", "lock", "mutex", "bpb", "fs_info", "fat",
               "open", "fstat", "bpb_read", "fs_info_read", "dup", "file_table",
               "fh_table", "fh_allocator", "verbose", "close", "close_fat"}

ASSUME MountAssumption ==
    /\ Devices \subseteq DeviceKinds
    /\ Faults \subseteq FaultSteps
    /\ StrayTables \subseteq {"null", "wild"}
    /\ StrayFds \subseteq {"open", "unused"}

VARIABLES
    pc,        \* the next step of main or of what it has called
    device,    \* the device's kind
    fs,        \* the fields of *fs
    context,   \* is fusefat32.fs set?
    error,     \* result of fat32_fs_open, or of fat32_fs_close after it
    caller,    \* who runs fat32_fs_cleanup: "open" or "close"
    held,      \* memory and descriptors the process holds
    served,    \* has the FUSE loop run?
    failure    \* how the process died, if it did

vars == <<pc, device, fs, context, error, caller, held, served, failure>>

Resources == {"fs", "lock", "bpb", "fs_info", "fat", "fd", "fat_fd", "file_table",
              "fh_table", "fh_allocator", "objects", "log"}

Pointer == {"null", "set", "wild"}
FsType == [fd : {"none", "set"}, bpb : Pointer, fs_info : Pointer, fat : Pointer,
           fat_fd : {"unset", "set"}, file_table : Pointer, fh_table : Pointer,
           fh_allocator : Pointer]

NoFs == [fd |-> "none", bpb |-> "null", fs_info |-> "null", fat |-> "null",
         fat_fd |-> "unset", file_table |-> "null", fh_table |-> "null",
         fh_allocator |-> "null"]

Init ==
    /\ pc = "options"
    /\ device \in Devices
    /\ fs = NoFs
    /\ context = FALSE /\ error = FE_OK /\ caller = "none"
    /\ held = {} /\ served = FALSE /\ failure = "none"

-----------------------------------------------------------------------------
At(step) == pc = step /\ failure = "none"

\* main goes to its clean-up.
MainCleanup == pc' = "main_cleanup"

\* fat32_fs_open goes to open_device_cleanup.
GiveUp(code) ==
    /\ error' = code
    /\ pc' = "close" /\ caller' = "open"
    /\ UNCHANGED <<device, fs, context, held, served, failure>>

Die(how) ==
    /\ failure' = how
    /\ UNCHANGED <<pc, device, fs, context, error, caller, held, served>>

\* A step of fat32_fs_open that obtains a resource and stores it in a field.
Obtain(step, field, resource, next) ==
    /\ At(step)
    /\ \/ /\ pc' = next
          /\ held' = held \cup {resource}
          /\ fs' = [fs EXCEPT ![field] = "set"]
          /\ UNCHANGED <<device, context, error, caller, served, failure>>
       \/ step \in Faults /\ GiveUp(FE_ERRNO)

(***************************************************************************)
(* main: the options, and the log file if there is to be one.  What is     *)
(* logged, and stderr as the log, are in Driver.                           *)
(***************************************************************************)
ParseOptions ==
    /\ At("options")
    /\ \/ pc' = "log"
       \/ "options" \in Faults /\ MainCleanup
    /\ UNCHANGED <<device, fs, context, error, caller, held, served, failure>>

OpenLog ==
    /\ At("log")
    /\ \/ pc' = "fs" /\ held' \in {held, held \cup {"log"}}
       \/ "log" \in Faults /\ MainCleanup /\ UNCHANGED held
    /\ UNCHANGED <<device, fs, context, error, caller, served, failure>>

(***************************************************************************)
(* fat32_fs_open: main learns of the structure before anything else is     *)
(* done.  The mutex is destroyed with write_lock, which is never set.      *)
(***************************************************************************)
AllocateFs ==
    /\ At("fs")
    /\ \/ /\ pc' = "lock"
          /\ held' = held \cup {"fs"} /\ context' = TRUE
          /\ \E table \in StrayTables : fs' = [NoFs EXCEPT !.file_table = table]
          /\ UNCHANGED error
       \/ /\ "fs" \in Faults
          /\ error' = FE_ERRNO /\ MainCleanup
          /\ UNCHANGED <<fs, held, context>>
    /\ UNCHANGED <<device, caller, served, failure>>

AllocateLock ==
    /\ At("lock")
    /\ \/ /\ pc' = "bpb" /\ held' = held \cup {"lock"}
          /\ UNCHANGED <<device, fs, context, error, caller, served, failure>>
       \/ Faults \cap {"lock", "mutex"} # {} /\ GiveUp(FE_ERRNO)

AllocateBpb == Obtain("bpb", "bpb", "bpb", "fs_info")

AllocateFsInfo == Obtain("fs_info", "fs_info", "fs_info", "fat")

\* The result is not looked at: "bpb" is tested once more in its place.
AllocateFat ==
    /\ At("fat")
    /\ \/ held' = held \cup {"fat"} /\ fs' = [fs EXCEPT !.fat = "set"]
       \/ "fat" \in Faults /\ UNCHANGED <<held, fs>>
    /\ pc' = "open"
    /\ UNCHANGED <<device, context, error, caller, served, failure>>

OpenDevice == Obtain("open", "fd", "fd", "fstat")

Continue(next) ==
    /\ pc' = next
    /\ UNCHANGED <<device, fs, context, error, caller, held, served, failure>>

CheckDevice ==
    /\ At("fstat")
    /\ \/ device # "file" /\ Continue("bpb_read")
       \/ device = "file" /\ GiveUp(FE_NONBLOCK_DEV)
       \/ "fstat" \in Faults /\ GiveUp(FE_ERRNO)

ReadBpb ==
    /\ At("bpb_read")
    /\ \/ device \notin {"short", "bad_bpb"} /\ Continue("fs_info_read")
       \/ device = "short" /\ GiveUp(FE_INVALID_DEV)
       \/ device = "bad_bpb" /\ GiveUp(FE_INVALID_FS)
       \/ "bpb_read" \in Faults /\ GiveUp(FE_ERRNO)

\* Mutant: the signatures of the sector are not looked at.
ReadFsInfoUnchecked ==
    /\ At("fs_info_read")
    /\ \/ device # "short_fs_info" /\ Continue("dup")
       \/ device = "short_fs_info" /\ GiveUp(FE_INVALID_DEV)
       \/ "fs_info_read" \in Faults /\ GiveUp(FE_ERRNO)

ReadFsInfo ==
    /\ At("fs_info_read")
    /\ \/ device = "volume" /\ Continue("dup")
       \/ device = "short_fs_info" /\ GiveUp(FE_INVALID_DEV)
       \/ device = "bad_fs_info" /\ GiveUp(FE_INVALID_FS)
       \/ "fs_info_read" \in Faults /\ GiveUp(FE_ERRNO)

(***************************************************************************)
(* fat32_fat_init: duplicate the descriptor, store it in *fat.             *)
(***************************************************************************)
InitFat ==
    \/ Obtain("dup", "fat_fd", "fat_fd", "file_table") /\ fs.fat = "set"
    \/ /\ At("dup") /\ fs.fat = "null"
       /\ \/ Die("segmentation fault")
          \/ "dup" \in Faults /\ GiveUp(FE_ERRNO)

CreateFileTable ==
    /\ At("file_table")
    /\ \/ /\ pc' = "fh_table" /\ held' = held \cup {"file_table"}
          /\ fs' = [fs EXCEPT !.file_table = "set"]
          /\ UNCHANGED <<device, context, error, caller, served, failure>>
       \/ /\ "file_table" \in Faults
          /\ fs' = [fs EXCEPT !.file_table = "null"]
          /\ error' = FE_ERRNO /\ pc' = "close" /\ caller' = "open"
          /\ UNCHANGED <<device, context, held, served, failure>>

CreateFhTable == Obtain("fh_table", "fh_table", "fh_table", "fh_allocator")

CreateAllocator ==
    Obtain("fh_allocator", "fh_allocator", "fh_allocator", "verbose")

-----------------------------------------------------------------------------
(***************************************************************************)
(* main: the details of the volume are logged, and the FUSE loop runs      *)
(* until the volume is unmounted; a signal ends it with files still open.  *)
(***************************************************************************)
VerboseInfo ==
    /\ At("verbose")
    /\ \/ pc' = "loop" /\ served' = TRUE
       \/ "verbose" \in Faults /\ MainCleanup /\ UNCHANGED served
    /\ UNCHANGED <<device, fs, context, error, caller, held, failure>>

FuseLoop ==
    /\ At("loop")
    /\ MainCleanup
    /\ held' \in {held, held \cup {"objects"}}
    /\ UNCHANGED <<device, fs, context, error, caller, served, failure>>

(***************************************************************************)
(* The clean-up of main: a file system it knows of is closed.              *)
(***************************************************************************)
CloseFs ==
    /\ At("main_cleanup")
    /\ \/ /\ ~context
          /\ pc' = "close_log"
          /\ UNCHANGED <<caller, failure>>
       \/ /\ context /\ "fs" \in held
          /\ pc' = "close" /\ caller' = "close"
          /\ UNCHANGED failure
       \/ /\ context /\ "fs" \notin held
          /\ failure' = "use after free"
          /\ UNCHANGED <<pc, caller>>
    /\ UNCHANGED <<device, fs, context, error, held, served>>

CloseLog ==
    /\ At("close_log")
    /\ pc' = "ended" /\ held' = held \ {"log"}
    /\ UNCHANGED <<device, fs, context, error, caller, served, failure>>

-----------------------------------------------------------------------------
(***************************************************************************)
(* fat32_fs_cleanup.  When a descriptor cannot be closed it returns at     *)
(* once; fat32_fs_open asserts that it does not.                           *)
(***************************************************************************)
CleanupFails ==
    \/ caller = "open" /\ Die("assertion")
    \/ /\ caller = "close" /\ pc' = "close_log" /\ error' = FE_ERRNO
       /\ UNCHANGED <<device, fs, context, caller, held, served, failure>>

CleanupDevice ==
    /\ At("close")
    /\ \/ /\ pc' = "free_structures"
          /\ held' = IF fs.fd = "set" THEN held \ {"fd"} ELSE held
          /\ UNCHANGED <<device, fs, context, error, caller, served, failure>>
       \/ fs.fd = "set" /\ "close" \in Faults /\ CleanupFails

\* The tests of the pointers before each free.
Pointed(fields) == {f \in fields : fs[f] = "set"}

CleanupStructures ==
    /\ At("free_structures")
    /\ pc' = "close_fat"
    /\ held' = held \ Pointed({"bpb", "fs_info"})
    /\ UNCHANGED <<device, fs, context, error, caller, served, failure>>

\* Mutant: the table is freed and its descriptor forgotten.
CleanupFatForgetsFd ==
    /\ At("close_fat")
    /\ pc' = "free_tables" /\ held' = held \ Pointed({"fat"})
    /\ UNCHANGED <<device, fs, context, error, caller, served, failure>>

(***************************************************************************)
(* fat32_fat_finalize closes whatever descriptor *fat holds; when it was   *)
(* never set, that is one of somebody else or none at all.                 *)
(***************************************************************************)
CleanupFat ==
    /\ At("close_fat")
    /\ \/ /\ \/ fs.fat = "null"
             \/ fs.fat_fd = "set"
             \/ fs.fat = "set" /\ fs.fat_fd = "unset" /\ "open" \in StrayFds
          /\ pc' = "free_tables"
          /\ held' = held \ (Pointed({"fat"})
                             \cup IF fs.fat_fd = "set" THEN {"fat_fd"} ELSE {})
          /\ UNCHANGED <<device, fs, context, error, caller, served, failure>>
       \/ /\ fs.fat = "set"
          /\ \/ fs.fat_fd = "set" /\ "close_fat" \in Faults
             \/ fs.fat_fd = "unset" /\ "unused" \in StrayFds
          /\ CleanupFails

(***************************************************************************)
(* hash_table_free deallocates what the lists hold, the objects of open    *)
(* files, and leaves the array and the table itself.                       *)
(***************************************************************************)
CleanupTables ==
    /\ At("free_tables")
    /\ \/ fs.file_table = "wild" /\ Die("segmentation fault")
       \/ /\ fs.file_table # "wild"
          /\ held' = held \ ({"fs", "objects"} \cup Pointed({"fh_allocator"}))
          /\ pc' = IF caller = "open" THEN "main_cleanup" ELSE "close_log"
          /\ UNCHANGED <<device, fs, context, error, caller, served, failure>>

Next ==
    \/ ParseOptions
    \/ OpenLog
    \/ AllocateFs
    \/ AllocateLock
    \/ AllocateBpb
    \/ AllocateFsInfo
    \/ AllocateFat
    \/ OpenDevice
    \/ CheckDevice
    \/ ReadBpb
    \/ ReadFsInfo
    \/ InitFat
    \/ CreateFileTable
    \/ CreateFhTable
    \/ CreateAllocator
    \/ VerboseInfo
    \/ FuseLoop
    \/ CloseFs
    \/ CloseLog
    \/ CleanupDevice
    \/ CleanupStructures
    \/ CleanupFat
    \/ CleanupTables

Spec == Init /\ [][Next]_vars

-----------------------------------------------------------------------------
TypeOK ==
    /\ pc \in {"options", "log", "fs", "lock", "bpb", "fs_info", "fat", "open", "fstat",
               "bpb_read", "fs_info_read", "dup", "file_table", "fh_table",
               "fh_allocator", "verbose", "loop", "main_cleanup", "close",
               "free_structures", "close_fat", "free_tables", "close_log", "ended"}
    /\ device \in Devices
    /\ fs \in FsType
    /\ context \in BOOLEAN /\ served \in BOOLEAN
    /\ error \in {FE_OK, FE_ERRNO, FE_NONBLOCK_DEV, FE_INVALID_DEV, FE_INVALID_FS}
    /\ caller \in {"none", "open", "close"}
    /\ held \subseteq Resources
    /\ failure \in {"none", "use after free", "assertion", "segmentation fault"}

\* The FUSE loop is entered only with a block device that carries a valid
\* volume and with everything the handlers dereference: whatever fails before
\* it, the one allocation whose result is not looked at included, the loop is
\* not reached (fat32_fs_open and main).
ServesComplete ==
    pc = "loop" =>
        /\ device = "volume"
        /\ {"fs", "bpb", "fs_info", "fat", "fd", "fat_fd", "file_table", "fh_table",
            "fh_allocator"} \subseteq held
        /\ \A field \in DOMAIN fs : fs[field] = "set"

\* What is allocated for good: fs->write_lock is never set, and
\* hash_table_free leaves the table itself.
NeverFreed == {"lock", "file_table", "fh_table"}

\* A driver that ends and could close what it had open holds nothing that the
\* clean-up is responsible for, whichever step of main sent it there
\* (fat32_fs_cleanup, main_cleanup).
ReleasedAtExit == pc = "ended" /\ error = FE_OK => held \subseteq NeverFreed

\* Once the volume has been served, the clean-up touches nothing that is freed
\* and the process does not abort, whatever fails (fat32_fs_close).
ServedEndsClean == served => failure = "none"

\* The clean-up of main closes a file system that fat32_fs_open made, and none
\* that it has freed already (include/fat32/fs.h, main).
ClosesOpenedOnly == failure # "use after free"

\* The descriptor is closed first so that a failed close may be tried again: a
\* close that failed has freed nothing (the comment in fat32_fs_cleanup).
CloseMayBeRetried ==
    pc = "close_log" /\ context /\ error = FE_ERRNO
        => {"fs", "bpb", "fs_info"} \subseteq held

=============================================================================
