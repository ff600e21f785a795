# fusefat32 in TLA+

fusefat32 is a FUSE driver for FAT32 volumes written in C. It lists directories,
reads files, and deletes files and directories; truncation is written but not yet
registered with libfuse. This directory holds TLA+ models of the driver, the TLC
configurations that check them, and TLAPS proofs, for every value of the constants, of
the safety properties the passing runs check. File names below are relative to the root
of the repository.

## The system

| Part | Code | State it keeps | Operations |
|---|---|---|---|
| File allocation table | `src/fat32/fat.c` | the table on the device, `free_cluster_hint`, a dup of the device's descriptor | get and set an entry, walk n links, free a chain, end a chain, find a free cluster |
| Directory entries and objects | `src/fat32/direntry.c`, `fs_object.c` | 32-byte entries on the device, copies in `fat32_fs_object_t` | mark free, make empty, delete, truncate, emptiness check |
| Directory iterator and path lookup | `src/fat32/diriter.c`, `fs.c` | cluster and offset of the iterator | next entry, find the object of a path |
| Open files | `src/operations.c`, `src/fat32/fh.c`, `file_info.c` | `fh_table` (handle to object), `file_table` (path to reference count), `last_fh` | open, release, busy check of unlink |
| libfuse handlers | `src/operations.c` | locals only | getattr, readdir, open, release, read, unlink, rmdir, (truncate) |
| Hash table | `src/hash_table.c` | array of lists | insert, lookup, delete, free |
| Mount and unmount | `src/fat32/fs.c`, `src/main.c` | `fat32_fs_t` with its descriptor, tables and structures | open, clean up, close |
| Boot sector, geometry, FSInfo | `src/fat32/bpb.c`, `utils.c`, `fs_info.c` | read-only after the mount | validity checks, sector and cluster arithmetic |
| I/O wrappers, logging, options | `src/utils/*.c`, `src/main.c` | log file | retry on EINTR, print |

Handlers are called by libfuse, on several threads unless the option `-s` is given.
They share one `fat32_fs_t`: the two hash tables, the allocator of handles, and one
descriptor of the device, of which the table's descriptor is a `dup` and therefore has
the same file offset. `fs->write_lock` is never taken (and never set). A deletion looks
an object up by its path, marks its directory entry free, and frees its chain in the
table, one device access after the other. `open` keeps the object it found in
`fh_table`; `read` uses that copy for size and first cluster; `unlink` refuses a path
that `file_table` has an entry for.

What is hard here:

* a deletion or truncation is many writes without a journal: every prefix of them may be
  all that happens, by an error or by a crash;
* chains are data on a device and may be damaged: loops over them must end and must not
  touch what is not theirs;
* error codes pass through three layers, each of which translates them, after something
  has already been changed;
* a NULL object means "no more entries" and also "out of memory";
* handlers run on several threads on shared tables and a shared file offset;
* the process ends while handlers may still be logging, and frees, by hand, what a
  failed mount has left half built;
* boundaries: files that end with a cluster, directories that fill theirs, lengths near
  2^32, an end mark used as a cluster number, the last handle, volumes smaller than
  their own tables.

`PROJECT.json` lists these under "hazards", each with its line and the properties that
would catch it, or where it is shown to go wrong.

## Modules

| Module | Models |
|---|---|
| `Fat32Errors` | the error codes of `include/fat32/errors.h` |
| `FatEntry` | a word of the table: four reserved bits and a 28-bit value, and the predicates on it |
| `FatTable` | the functions of `fat.c`; one device access is one step, `call` holds the locals |
| `FatTableCalls` | any sequence of calls of those functions on any table, and what they must return |
| `AbstractVolume` | what a volume promises to the users of unlink and rmdir |
| `FatVolume` | unlink and rmdir down to the table, with faults and crashes; EXTENDS `FatTable` |
| `Truncate` | truncation down to the table, with faults and crashes; EXTENDS `FatTable` |
| `OpenFiles` | open, release, the handle check of read, the busy check of unlink, on several threads |
| `FileRead` | the loop of `fat32_read` on the shared file offset, on several threads |
| `DirIter` | the iterator and path lookup, with short names and attributes, under getattr, readdir and the check of rmdir |
| `AbstractMap` | what a table of keys and values promises |
| `HashTable` | every function of `hash_table.c` on its lists of nodes in memory, with failing allocations |
| `Geometry` | the validity check of the boot sector and the arithmetic of sectors and clusters in 32 bits |
| `Transfer` | `xread` and `xwrite`, round by round, against what the kernel may answer |
| `Device` | reading the boot sector and FSInfo, and the accesses to entries and clusters, down to the bytes; EXTENDS `Geometry` and `Transfer` |
| `Log` | `utils/log.c`: messages of several threads, written piece by piece under a lock |
| `Mount` | `main`, `fat32_fs_open`, `fat32_fs_cleanup` and `fat32_fs_close`, with a failure at any step |
| `Driver` | the process from start to end: `Mount` composed with `Log`, main and handlers logging |
| `MC...` | instances for TLC |
| `FatTableProofs` | what the functions of `FatTable` do to the device: the lemmas the next three share |
| `FatTableCallsProofs`, `FatVolumeProofs`, `TruncateProofs`, `OpenFilesProofs`, `HashTableProofs` | the theorems about the module of that name |
| `ReadingProofs` | the theorems about `FileRead` and `DirIter` |
| `DriverProofs` | the theorems about `Driver` (`Mount`, `Log`) and `Device` (`Geometry`, `Transfer`) |

How state and actions correspond to the code:

* **FatTable.** `fat` is the device from the start of the table on, a function from word
  numbers to entries. Cells up to `ClustersCount + 1` are the table; those behind it are
  whatever follows, because no function checks the number it is given. `get_entry` and
  `set_entry` give the outcomes of an access: done, failed (a failed write may or may not
  have happened), or short beyond the device. A function is an action that starts it
  (`mark_cluster_chain_free(c)`) and actions that advance it (`FreeChainGet`,
  `FreeChainSet`). The 28-bit range is the constant `ClusterSpace`; the marks are its last
  values, as they are in the code.
* **FatVolume.** `dent[n]` says whether the directory entry of `n` is in use; everything
  else about an object never changes by a deletion and is constant. `h` is the handler
  under way: `LookUp`, `CheckEmpty`, `MarkFree`, `FreeCluster`, `Deleted` are the lines of
  `fat32_perform_unlink` and `fat32_rmdir` in their order. `get_object` and
  `is_empty_directory` are the results of the iterator, which `DirIter` models step by
  step. `Crash` drops everything but the device.
* **Truncate.** `size[f]` is `file_size` on the device. The steps are those of
  `fat32_fs_object_truncate`; the arithmetic on lengths is modulo `SizeSpace` (2^32 in the
  code). Making a file longer is `assert( false )`: the driver ends and is mounted again.
* **OpenFiles.** One access to a shared structure per step, so that two threads can be
  between the read and the write of `last_fh`, of the one list of `fh_table` (the hash of
  a handle is its quotient by `UINT_MAX`, so all handles are in one list) and of a
  count. `heap` is the set of allocated objects, and freeing one twice is a failure.
* **FileRead.** The device is a line of addresses, the words of the table and then the
  bytes of the clusters; a byte is modelled by its address, so the buffer of a read shows
  where each byte came from. `pos` is the one file offset.
* **DirIter.** A directory is a chain of clusters of `ClusterSlots` entries, an entry has
  a mark (used, free, last), a kind and a name: base and extension, filled up with
  spaces. `fat32_direntry_short_name` turns it into what a path says, and the properties
  turn what a path says into the stored form by the rules of the format, so that the two
  conversions check each other. The kinds of entries are those the format tells apart, a
  read-only, hidden or system file (`"marked"`) being a file; what the code takes them for
  is `fat32_direntry_is_file`. `use` says which user of the iterator is running: lookup,
  listing, or emptiness check; `stat` is what getattr answers (`fat32_fs_object_attrs`).
  `heap` counts the blocks of each kind: copies of paths, iterators, and the three blocks
  of an object, each of which may fail to be allocated (`NoChild`): then the iterator
  returns `FE_OK` and NULL, and its user takes that for the end of the directory. `lost`
  remembers that it happened, for the properties only. Where the short name itself cannot
  be allocated the code copies NULL, and the driver dies (`"died"`).
* **HashTable.** `mem` maps the blocks that are allocated to their contents; a pointer is
  the name of a block, and using one that is not in `mem` is a fault. One access to a node
  is one step. The table copies its keys always and its values if it was given a cloner,
  as `file_table` was; else the caller hands the value over (`given`), as for `fh_table`.
  Only one thread is in the table: `OpenFiles` has the races. There a table has no nodes,
  and that this is enough for one thread is `ImplementsMap`.
  `Restart` clears what `hash_table_free` has left, so that it can be called again.
* **Geometry, Transfer, Device.** A byte of the device is known by its offset, the i-th
  byte of a buffer that is written by -i: what is read or written shows where it came
  from. `uint32_t` wraps at `Space32`, file offsets do not. `volume` is the device that is
  plugged in: the fields of its boot sector, its size and the place where the signatures
  of an FSInfo sector are. `io` is a transfer in progress. `before` remembers the device
  for the properties and nothing reads it. `FatTable` and `FileRead` take an access of a
  word as one step: `ReadsTheEntry` and `WritesOnlyTheEntry` are why they may.
* **Log, Driver.** A message is up to four pieces and a flush (`message[t].pc`); whether
  there is a log and from which level on is read before the lock is taken, as in the
  code. `last` is the piece that was written last, by whom. `Driver` lets main log at the
  points where it does (`LevelAt`), once (`said`), and the handlers while the loop runs.
* **Mount.** `pc` is the step of `main` or of the function it is in. `held` is what the
  process has allocated and opened, `fs` what the fields of `fat32_fs_t` say: the clean-up
  goes by the second. The lock and the two tables' own memory are never freed
  (`write_lock` is never set, `hash_table_free` frees only what the lists hold); a driver
  that ends does not miss them, and `ReleasedAtExit` names them. `file_table` and
  `fat->fd` are not initialized when the mount is given up early; what is in them then is
  a choice (`StrayTables`, `StrayFds`). A failure ends the process where it happens, so
  the deadlock check is off. `Next` has one action for each step of the code, in its order; the device is of one of six kinds, one per
  outcome of the checks. The model takes `assert` as it is compiled without `NDEBUG`,
  which the Makefile does not define: with it the clean-up inside the assertion would go.

`Driver` adds to `Mount` the messages, and changes none of its steps.

Definitions that a comment calls "Mutant" are plausible mistakes of the code; the mutants
of `PROJECT.json` put them in the place of the real definition to show that each property
can fail. Nothing else refers to them.

## Runs

Runs that pass:

| Run | Question | Bounds |
|---|---|---|
| `fat_table` | Do the functions of the table change only their own chain, return the truth, and return at all, on any table? | 3 clusters, every table over all values the code distinguishes plus one word behind the table; circles of every length up to 3, chains that leave the device, bad and free entries; up to 2 links followed; two calls, as a call depends on nothing but the device and the hint an earlier one left (`FatSearch.cfg` has four calls, for searches between deletions) |
| `volume` | Does any sequence of deletions, with errors and crashes at every access, keep the volume consistent, answer truthfully, and implement `AbstractVolume`? | 6 objects, 3 levels, chains of 0 to 3 clusters (an end, a middle and a beginning are apart) |
| `truncate` | Does any sequence of truncations, with errors and crashes, keep what it should and no link to a free cluster? | 3 files of 3, 1 and 0 clusters of 2 bytes, lengths to one cluster beyond the largest |
| `open_files` | Are handles, objects and counts consistent over any sequence of opens and releases by one thread, whatever allocation fails, and does unlink spare what is open? | 2 files, 3 handles held, 4 handles in all, so that the limit is reached; the deadlock check is off because a double free (see below) ends the process |
| `file_read` | Does a read return the bytes of the file, at every offset and size? | 5 bytes in 3 clusters of 2, out of order; offsets and sizes beyond the end |
| `directories` | Do lookup, listing and emptiness check see exactly the entries the format defines, by their names, with their attributes; what is lost of the answer, and what of the memory, when an allocation fails? | no hidden files; every allocation failing, the three of an entry's object included; 4 directories' clusters of 3 slots, one directory of 2 clusters, one that fills its cluster, one that ends in a bad mark; names of 2 + 1 characters, among them `f.x` and `fx`, which only the place of the dot tells apart |
| `hash_table` | Do the lists implement a map whatever allocation fails, without touching freed memory and without losing any? | 3 keys, two of them in one of 2 lists, so that a node is first, in the middle and last; 2 values, with and without a cloner; any sequence of calls |
| `device` | Is what a formatter made mounted, and are entries then read and written where the format has them, across interruptions and failures? | arithmetic modulo 128, sectors of 4 and 8 bytes, 3 volumes as formatted and 28 with one field changed; cluster numbers at both ends and two that wrap; a signal per transfer; every call after every other |
| `driver` | Is a volume served only when everything was opened, does the process end without a fault, releasing what it is responsible for, and is the log written line by line? | every device, every step of mounting and unmounting failing, open files left behind or none; main and 2 handlers that log |

No run checks types by themselves: they are part of the invariants that are proved.

Runs that show a disagreement of the code with its own documentation ("findings"):

| Run | Shows |
|---|---|
| `volume_marked` | a directory that holds only a hidden, system or read-only file is removed as empty, because `fat32_direntry_is_file` tests the mask of long names bit by bit |
| `file_read_threads` | a read returns bytes from where another thread has moved the shared offset |
| `mount_fails` | a failed mount frees the file system but leaves `main` a pointer to it, and `main` closes it again |

Further deviations. The configurations named in the second column are there; where the
column says "as" the configuration of that run is to be used with its properties replaced
by the one in the third column, and with the constants given. TLC finds each one violated.

| Module | Configuration | Property | Shows |
|---|---|---|---|
| `MCFatVolume` | as `MCFatVolume.cfg`, `AllocFaults = {TRUE, FALSE}` | `NoOrphans` | a failed allocation in the iterator looks like an empty directory to rmdir |
| `MCFatVolume` | as `MCFatVolume.cfg`, `ReadFaults = {1, 3}` | `ReplyIsTruthful` | after a short read of the table unlink answers EINVAL for a file it has removed |
| `MCFatTable` | `FatFind.cfg` | `FullMeansFull` | a cluster freed below the hint is never found: `FindsLowestFree` is about searches that begin below every free cluster |
| `MCFatTable` | as `FatFind.cfg` | `FindReportsSuccess` | `fat32_fat_find_free_cluster` returns the cluster number as the error code |
| `MCFatTable` | `FatReserved.cfg` | `FreeResult` | reserved bits in an entry end the chain, and the rest stays allocated |
| `MCOpenFiles` | `OpenFilesNoMemory.cfg` | `NoDoubleFree` | `fat32_open` frees the object twice when the entry of the path cannot be allocated |
| `MCOpenFiles` | `OpenFilesUnlink.cfg` | `UnlinkSparesOpenFiles` | two threads that open a file lose a reference, and the file is deleted while open |
| `MCOpenFiles` | `OpenFilesThreads.cfg` | `NoAssertionFails` | two threads run into an assertion of read or release |
| `MCFileRead` | as `FileRead.cfg` | `ErrorsAreErrno` | a failed read of the table is answered with the driver's own error code |
| `MCTruncate` | as `Truncate.cfg` | `SizeIsLength` | the size of a truncated file stays as it was |
| `MCTruncate` | as `Truncate.cfg` | `ChainNeverTooShort` | as the size is not written, a second truncation walks off the chain, which a comment excludes |
| `MCTruncate` | as `Truncate.cfg` | `FreesChains` | the end mark is freed as if it were a cluster |
| `MCTruncate` | as `Truncate.cfg`, `DeviceCells = 18` | `LiveChainsEnd` | on a device that has data at the place of the end mark's entry, that frees other files' clusters |
| `MCTruncate` | `TruncateWrap.cfg` | `KeepsNeededClusters` | near 2^32 the number of clusters wraps to 0 and the file is emptied |
| `MCDirIter` | as `DirIter.cfg` | `IteratorsFreed` | the emptiness check never frees its iterator |
| `MCDirIter` | `DirIterMarked.cfg` | `FindsTheObject`, `ListsTheDirectory`, `EmptyMeansEmpty`, each by itself | a read-only, hidden or system file is not found, not listed, and counts as nothing for rmdir: the bit-by-bit test of `volume_marked` |
| `MCDirIter` | `DirIterNoMemory.cfg` | `NotFoundMeansNone` | when memory for the object of an entry is not to be had, getattr says ENOENT of what exists, where fs.h has NULL only for what can't be found |
| `MCDirIter` | `DirIterNoMemory.cfg` | `SuccessListsAll` | the same ends a listing early, with success |
| `MCDirIter` | `DirIterNoMemory.cfg` | `EmptyIsEmpty` | the same makes a directory empty for rmdir |
| `MCHashTable` | as `HashTable.cfg` | `FreesEverything` | `hash_table_free` keeps the array and the structure, of which its comment says they are freed |
| `MCDevice` | `DeviceSplit.cfg` | `WritesOnlyTheEntry` | after a write that stopped half-way the rest is written from the start of the buffer, and more than is left |
| `MCDevice` | as `DeviceSplit.cfg` | `ReadsTheEntry` | the same of a read |
| `MCDevice` | as `Device.cfg` | `MountedFits` | a volume whose tables are larger than itself is mounted, as the number of clusters wraps around: some are behind its end |
| `MCDevice` | as `Device.cfg` | `InfoIsReserved` | the FSInfo sector may be the first sector of the table |
| `MCDevice` | as `Device.cfg` | `SectorSizeChecked` | a sector size of 0 passes the check of the boot sector, and only the read of FSInfo at offset 0 refuses the volume |
| `MCDevice` | as `Device.cfg` | `ReadsTheCluster` | `fat32_fs_read_cluster` seeks from where the last access ended |
| `Mount` | as `MountFails.cfg`, `Devices = {"volume"}`, `Faults = {"close_fat"}` | `CloseMayBeRetried` | a failed close of the table's descriptor comes after structures were freed, so it cannot be tried again as a comment intends |

The passing runs exclude the conditions of these by their constants, and say so there:
`Marked = {}`, no failing allocation and no short read in `volume`, no reserved bits, one
thread in `open_files` and `file_read`, no hidden file in `directories`, a device that ends before the end mark's entry and
sizes far from the wrap in `truncate`, `Splits = FALSE` in `device`. The properties about
where things are on a volume (`device`) are about volumes a formatter makes; the others
are in the run, and have to be refused or answered without a fault.

## Fairness and environment

Liveness is checked for every call, deletion, truncation, read and lookup: each is
answered. The only fairness is weak fairness of the step of a handler that has been
called: its thread is runnable and the scheduler does not forget it. Nothing is assumed of
requests, faults or crashes. That the loops end is a property of the code: a circle in a
chain ends because `mark_cluster_chain_free` meets the entries it has cleared, and
`get_nth_entry` counts. In `device` the fairness is that of a step forward and not of a
failure, so that a transfer ends without the help of one; signals are bounded, as a call
that is interrupted for ever never ends. In `driver` each thread that has begun a message
goes on, and the lock is not fair: which of the waiting threads gets it, and whether one
of them ever does, is left open, and `LockReleased` says only that it becomes free.

Assumed of the outside, which is not in the repository:

* libfuse holds its tree lock for writing during unlink and rmdir and for reading
  otherwise: those two exclude every other handler, the others run in parallel.
  `Truncate` runs one truncation at a time, as nothing calls it yet; on several threads
  truncations would share the file offset as reads do;
* the kernel calls release once for each open that succeeded, and resolves a path
  component by component, so that the components before the last one are directories;
* libfuse lets the handlers end and joins its threads before its loop returns;
* the block device transfers all that is asked for except at its end (`device`), and a
  write there fails with an error and not with 0, which `xwrite` would repeat for ever;
* a write of one byte happens or does not; a failed write of a word may have happened;
* what was written before a crash is on the device.

`fat32_truncate` and `fat32_fat_find_free_cluster` have no caller at this commit. They are
modelled as their callers-to-be must use them; their deviations are in the last table and
concern code that is there but not reached by a mounted volume.

## Proofs

Theorems hold for every value of the constants that satisfies the assumptions of the
modules, and the ones named here. A run shows the same property on a small instance.

| Theorem | Says | Assumes |
|---|---|---|
| in `FatVolumeProofs` | | |
| `TypeCorrect` | types | |
| `LiveChainsStayIntact` | the chain of an object that has a directory entry is whole, at every moment | |
| `LostChainsStayTails` | what an interrupted deletion leaves is a properly ended tail | |
| `RepliesAreTruthful` | success exactly when the directory entry is gone | no short read |
| `SuccessFreesEverything` | a deletion without a failure frees the whole chain | no reserved bits |
| `VolumeIsAbstractVolume` | every step of a deletion is a step of `AbstractVolume` or a stutter | `Marked = {}`, no failing allocation |
| `NothingIsOrphaned` | what exists is in a directory that exists | the same |
| in `FatTableCallsProofs` | | |
| `OnlyTheChainIsCleared` | freeing a chain clears a prefix of what the links lead to, and nothing else | |
| `FreeingTellsTheTruth` | its result says what the table was: ended, damaged, a circle, off the device | no reserved bits, no short read |
| `FollowingTellsTheTruth` | following n links gives the n-th entry, or the end or the damage before it | no reserved bits |
| `SearchesFindTheLowest` | a search that begins below every free cluster makes the lowest one the hint, or says truly that the volume is full; one that failed has left the hint alone | |
| in `TruncateProofs` | | |
| `ChainsOfDataEnd` | the chain of a file that has data is whole or was ended earlier, at every moment | `SmallDevice` |
| `NothingLeadsToFree` | no entry leads to a free cluster, of what was cut off either | `SmallDevice` |
| `TruncationKeepsClusters` | an answered truncation has kept the clusters its length needs | `SmallDevice`, `NoWrap` |
| in `OpenFilesProofs` | | |
| `HeldHandlesAreBacked` | each handle has an object of its own, still allocated | one thread |
| `RefsAreExact` | counts are the numbers of handles | one thread |
| `ObjectsAreAccounted` | no object is leaked, none dangles | one thread |
| `AssertionsHold` | the assertions of read and release hold | one thread |
| `OpenFilesAreSpared` | no file is removed while it is open | one thread |
| in `ReadingProofs` | | |
| `ReadsReturnTheFile` | a read returns what the file has at that offset | one thread |
| `ReadsFailWithTheDevice` | a read fails only if the device does | one thread |
| `PathsFindTheirObjects` | what a path leads to is the object it names, with that object's attributes; ENOENT: there is none, or no memory for the object of an entry | `BadIsNoCluster`, `NoMarked` |
| `ListingsHaveTheEntries` | a listing has the entries of the directory once and in order: all, or the first ones if there was no memory for the object of the next | `BadIsNoCluster`, `NoMarked` |
| `EmptyChecksAreRight` | "not empty" is said only of a directory with more than dot entries, "empty" only of one without, or for want of memory for an object | `BadIsNoCluster`, `NoMarked` |
| `DirectoriesLeakNothing` | the copy of the path and all blocks of all objects, and the iterators of getattr and readdir, are freed however a request ends and whichever block could not be allocated | |
| in `DriverProofs` | | |
| `LoopIsEnteredComplete` | the loop is entered only with everything open and allocated | |
| `NothingHeldAtExit` | a clean-up without a failure releases everything it is responsible for | |
| `DriverEndsClean` | a driver that has served ends without a fault, and no closed log is written | |
| `LogLinesAreWhole` | the pieces of a message follow each other, for any number of threads | |
| `MountsWhatIsUsable` | a formatted volume of any size is mounted unless the device fails, and its valid clusters are those of the format, each in its place | `~Splits` |
| `ReadsEntries` | a read that succeeds has the entry of that cluster, all of it | `~Splits` |
| `WritesEntries` | an entry is never half written, nothing beside it changes, and success means that it is on the device | `~Splits` |
| in `HashTableProofs` | | |
| `NoFreedMemoryTouched` | nothing that was freed is read, linked, returned or freed again | |
| `NothingIsLeaked` | between the calls each node, key and value is held once, and none of them is left after the table was freed (its array and its structure are, see `FreesEverything`) | |
| `TheListsAreAMap` | every step is a step of `AbstractMap` or a stutter | |

The theorems that end in `Invariant`, and `TypesCorrect`, `TypesOfReading` and
`TypesOfDirectories`, state the inductive invariants and the types these rest on.

What is assumed is what the code needs. All but the last two are conditions that a
configuration above violates, and then the property fails:

* *no short read*: `FE_INVALID_DEV` is not in `ReadFaults`, that is only the end of the
  device makes a read short; *no reserved bits*: `ReservedValues = {0}`, as a formatter
  writes them (`FatReserved`);
* `Marked = {}` and no failing allocation: `volume_marked` and the row of `NoOrphans`;
* `SmallDevice`: the device ends before the cell that the end mark would number, which is
  1 GiB behind the start of the table; the row with `DeviceCells = 18` is a larger one.
  `NoWrap`: a length and one cluster are below 2^32 (`TruncateWrap`);
* *one thread*: `Threads = {t}`, the driver with the option `-s` (`OpenFilesThreads`,
  `OpenFilesUnlink`, `file_read_threads`);
* `~Splits`: the kernel transfers all that is asked for up to the end of the device
  (`DeviceSplit`). Signals and failures are not excluded;
* `BadIsNoCluster`: like `SmallDevice`, the device ends before the cell that the mark of
  a bad cluster would number. The iterator takes the mark for the next cluster, and it is
  the end of the device that stops it;
* `NoMarked`: no entry is a read-only, hidden or system file (`DirIterMarked`). Failing
  allocations are not excluded: where they change an answer, the theorems say so;
* `LayoutAssumption` (twice), `WholeChainAssumption` and `DirectoriesAssumption` say that
  the volume is consistent when it is mounted: each chain is linked in the table, long
  enough for its file, shares no cluster, and that of a directory comes to an end (a rank
  that falls along the links). `FatTableCalls` assumes nothing of the table, and the
  device of `Device` nothing but the widths of the fields. That directories have a
  cluster is what `mkfs` and `mkdir` write. The kernel asks for names of the format, one
  component after the other (`Resolvable`).

None of the properties is inductive by itself. What is added to each:

* **Deletion.** `ChainInv` adds two facts about a deletion under way. `Freeing`: while a
  handler is freeing, its directory entry is already marked, the clusters before the
  place it has reached are empty, and the local `cluster` is the next one of the chain,
  with `entry` its content once that has been read. `Found`: a handler that is about to
  mark an entry has found it in use. A step that clears a word then clears one of the
  handler's own object, and since chains are disjoint it touches no other: this is the
  whole argument, one lemma per action (`MarkFreeChainInv`, `GetChainInv`, `SetChainInv`,
  `NextChainInv`). `ReplyInv` adds what the codes of the table can be, given that an entry
  of the chain is on the device; `CleanInv` that the table is left with success only at
  the last cluster; `DeleteInv` that a directory about to be marked has nothing live in
  it, which holds because no other deletion runs between the check and the mark.
* **Table.** The chain is a recursive function of the table as it was (`TheWalk`).
  `FreeInv` says that for some k exactly the first k clusters of it are empty
  (`Emptied(k)`) and that the call is at the k-th; `NthInv` the same of following. That
  the clusters of a walk differ is why clearing one leaves the rest of it to be read, and
  a circle is met at a cluster that was cleared. `FindInv`: a search has met no free
  cluster between the hint and where it is, and the hint is where it began.
* **Truncation.** `TableInv` is stronger than the two properties: every word of a file's
  chain is its link, an end or empty. `WalksChain`, `EndsChain` and `FreesRest` say where
  in its chain a truncation is, and `CutOff` that what it frees is behind an end that has
  been written. `KeepInv` counts the clusters that are kept.
* **Open files.** `OneThreadInv` relates the three tables with a handler half-way through
  an open or a release: the entry that has been made but is not yet a handle, the object
  that is in its hands, the count that is one too high until `unref`.
* **Reading.** `Progress`: what was read is what the file has from the offset on, and
  `size` is what is missing. `InCluster` and `PieceRead`: which cluster of the file the
  loop is in. `Positioned`: between an lseek and the read after it the shared file offset
  is where the lseek went, which only holds with one thread.
* **Directories.** `RequestInv` is two invariants. `Allocated` says which
  blocks are held at each point of a request (`Held`): one of each kind at most. It needs
  nothing of the volume. `Correct` adds
  what has been found out so far: `OnPath`, that the object in hand is what the part of
  the path already walked names; `Iterates`, that the iterator has read the first p slots
  of that object's directory (`HasRead`), that none of them ended it (`NoEnd`), and what
  the user made of them (`Passed`: none had the name, these are the names so far, none
  but dot entries). `Answered` is the three properties themselves. The lemmas below it
  follow the format: a chain is a list of clusters and its slots one after the other
  (`IsChainFrom`, `ClusterIsRead`), the slots that were read are the entries once the
  directory has ended (`EntriesAreSeen`), and a name is stored one way only, so that
  comparing what a path says is comparing what is stored.
* **Process.** `MountInv` has for each point of `main` what has been obtained by then
  (`OpeningInv`) and what the clean-up has released (`ClosingInv`); `LogInv` that who is
  between two pieces has the lock, and which piece was written last; `CloseInv` that the
  log is closed only when nobody logs.
* **Device.** `DeviceInv` gives each call the place its transfer is for. As the kernel
  does not split, a transfer is made in one piece or meets the end of the device first
  (`DeviceProgress`), so that after any number of signals the offset is still its place
  and what was read are the bytes from there on. A byte of the disk is its own offset or
  one that was written, and none below the table changes (`DeviceContents`), which is
  why the boot sector that was read is the one a formatter wrote; a write has done
  nothing or all (`DeviceWrites`). `FormattedSizes` to `FormattedEntries` are the
  arithmetic: on a volume whose numbers do not wrap, the clusters the code computes in 32
  bits are those of the format, and their entries lie in the first table. A sector size
  of 0 is never mounted, although the boot sector is accepted: byte 0 is not where an
  FSInfo sector has its signature, since the start of a volume is a jump.
* **Hash table.** `Lists` says what linked lists are without following them: each node has
  a list (`home`) and a place in it (`rank`), the next node is one place further, and no
  two share a place. So they are disjoint and without circles, and taking out a node
  (`RemoveNode`) or putting one in front (`AddNode`) is a change of ranks. `HashInv` adds
  whose the blocks are (`HoldInv`, `PendingInv`), that a search has not passed the node it
  is looking for (`Position`), and that the nodes stand for the mapping before the call
  (`BeforeInv`). `VisitedInOrder` brings it back to the code: what following the links
  visits is the nodes by rank.

Some of these are about recursive functions (`ChainCluster`, `TheWalk`, `Visited`, the
chains and paths of `DirIter`), which the provers have no induction for. The proofs take
the least number for which a claim would fail (`LeastNumber`, from the well-foundedness of
the natural numbers).

Only model-checked:

* liveness (the properties with `~>`, one each in `fat_table`, `volume`, `truncate`,
  `file_read`, `directories`, `device` and `driver`): the provers do not reach it.

The properties in the table of deviations are false. With more than one thread those of
`OpenFiles` and `FileRead` are among them, and with one they are the theorems above.

## Not modelled

* The text of messages, the printing of the boot sector and of FSInfo (`-v`), the help and
  the version: output, on which nothing depends. Dates in `fat32_getattr` are not read
  from the entry, and the modes are constants of the type.
* The string hash (`utils.c`): the hash of a key is a constant of `HashTable`.
* The copies of the table: the driver writes only the first and never reads another.
* `fat32_fs_object_cloner`, which nothing uses, and the "parent" result of
  `fat32_fs_get_object`, for which every caller passes NULL.
* Daemonizing. main removes `-f` from the arguments of libfuse, so that libfuse detaches;
  what becomes of a log on stderr then is libfuse's doing.
* `assert` under `NDEBUG`: `log_message` unlocks inside an assertion, and `Mount` cleans
  up inside one. The build does not define it.
* That a failed `fat32_fs_close` is not reported, because main tests for a negative code:
  the model has no message there either, and no text promises one.
* An open file keeps its copy of the directory entry. Only truncation changes the entry of
  an open file, and `fat32_truncate` is not registered.
* A directory whose chain is a circle: it is a damaged volume, and the iterator follows it
  for ever; `RequestAnswered` is about directories that end. The death of the driver of a
  missing short name counts as an end there.

## Plan

In the order of importance. Done:

1. `FatTable`, `FatTableCalls`: the table every other part rests on.
2. `AbstractVolume`, `FatVolume`: the deletion protocol, the only one that writes.
3. `FatVolumeProofs`: its invariants and the refinement.
4. `OpenFiles`: handles, objects and counts on several threads.
5. `FileRead`, `DirIter`: reading files and directories, names and attributes.
6. `Truncate`: the second writing protocol.
7. `Mount`: `fat32_fs_open`, `fat32_fs_cleanup` and the clean-up of `main`.
8. `AbstractMap`, `HashTable`: the array of lists, shown to implement a map.
9. `Geometry`, `Transfer`, `Device`: where things are and how bytes get there.
10. `Log`, `Driver`: the log, and the process as a whole.
11. `TruncateProofs` and `FatTableCallsProofs`, along the argument of `FatVolumeProofs`.
12. `DriverProofs`: `Log` and `Mount` for any threads, devices and faults.
13. `OpenFilesProofs`, `ReadingProofs` on `FileRead`: the same with one thread.
14. `HashTableProofs`: memory, and the refinement of `AbstractMap`.
15. `DriverProofs` on `Device`: the places of `Geometry` for a volume of any size, and the
    reads and writes of entries along the rounds of `Transfer`.
16. `ReadingProofs` on `DirIter`: paths, listings, emptiness, and what is freed.
17. `FatTableCallsProofs` on searching: the lowest free cluster, or a full volume.

Nothing is left of it. What could follow needs code that is not there yet: creating and
extending files, which would be the callers of `fat32_fat_find_free_cluster`, writing, and
a lock that is taken.
